----------------------------- MODULE RunStream -----------------------------
(***************************************************************************)
(* One request of the OpenAI-compatible chat route, from its dispatch to   *)
(* the end of its response (gateway/src/routes/owner-agent-chat-sse.ts),   *)
(* with the stream hub (gateway/src/ws/stream-hub.ts) it subscribes to and *)
(* the part of dispatchPreparedOwnerAgentRun it takes part in.             *)
(*                                                                         *)
(* The run's frames are published as RunFrames allows.  The hub calls the  *)
(* subscriber synchronously, so publishing a frame and writing what it     *)
(* makes of it are one step.  The demo fallback, which only an environment *)
(* variable turns on, is left out.                                         *)
(***************************************************************************)
EXTENDS RunFrames, FiniteSets

CONSTANTS
    Slices,     \* slices of a long answer (sliceForRhythm: at least 4)
    MaxEvents,  \* bound on the events of the run
    MaxPings    \* bound on the comments of the heartbeat timer

ASSUME SlicesAssumption == Slices \in Nat /\ Slices >= 2
ASSUME MaxEventsAssumption == MaxEvents \in Nat
ASSUME MaxPingsAssumption == MaxPings \in Nat

VARIABLES
    due,         \* frames published that make a text, a comment or an end (history)
    phase,       \* where the request's handler stands, see Phases
    dispatched,  \* the run's frame: "no", "queued" (behind a bad socket), "sent"
    gone,        \* the client has closed the connection
    opened,      \* streamOpened
    subscribed,  \* `subscription' is set: the hub has the listener
    timer,       \* `heartbeat' is set
    finished,
    wroteTextDelta,
    answer,      \* final_message of the completion, once there is one
    slicesLeft,  \* slices emitCompletionChunks has still to write
    out          \* the kinds of what was written to the response, in order

control == <<phase, dispatched, gone>>
stream == <<opened, subscribed, timer, finished, wroteTextDelta, answer, slicesLeft, out>>
streamVars == <<frames, due, control, stream>>

(***************************************************************************)
(* preparing  awaiting startOwnerAgentRun, before it dispatches            *)
(* marking    awaiting the write of `pending' that ends it                 *)
(* returned   the handler is done; the subscription does the rest          *)
(***************************************************************************)
Phases == {"preparing", "marking", "returned"}
Answers == {"none", "empty", "short", "long"}
Chunks == {"role", "text", "slice", "note", "ping", "stop", "error", "done", "json"}

StreamTypeOK ==
    /\ due \in Nat
    /\ phase \in Phases
    /\ dispatched \in {"no", "queued", "sent"}
    /\ gone \in BOOLEAN /\ opened \in BOOLEAN /\ subscribed \in BOOLEAN
    /\ timer \in BOOLEAN /\ finished \in BOOLEAN /\ wroteTextDelta \in BOOLEAN
    /\ answer \in Answers
    /\ slicesLeft \in 0 .. Slices
    /\ out \in Seq(Chunks)

StreamInit ==
    /\ FramesInit
    /\ due = 0
    /\ phase = "preparing"
    /\ dispatched = "no"
    /\ gone = FALSE
    /\ opened = FALSE
    /\ subscribed = FALSE
    /\ timer = FALSE
    /\ finished = FALSE
    /\ wroteTextDelta = FALSE
    /\ answer = "none"
    /\ slicesLeft = 0
    /\ out = <<>>

-----------------------------------------------------------------------------
(* The closures of handleOwnerAgentChatSse.                                *)

\* how many of s are of these kinds
Count(s, kinds) == Cardinality({i \in 1 .. Len(s) : s[i] \in kinds})

\* Slip: cleanup forgets the timer.
CleanupNoTimer == subscribed' = FALSE /\ UNCHANGED timer

\* cleanup
Cleanup == subscribed' = FALSE /\ timer' = FALSE

\* Slip: finish does not look whether it was called before.
FinishAgain(chunks, reason) ==
    /\ finished' = TRUE
    /\ Cleanup
    /\ out' = out \o chunks \o <<reason, "done">>

\* finish, after `chunks' were written in the same step
Finish(chunks, reason) ==
    IF finished THEN /\ out' = out \o chunks
                     /\ UNCHANGED <<subscribed, timer, finished>>
    ELSE /\ finished' = TRUE
         /\ Cleanup
         /\ out' = out \o chunks \o <<reason, "done">>

\* What is written by a step that does not finish.
Write(chunks) == out' = out \o chunks /\ UNCHANGED <<subscribed, timer, finished>>

\* openStream
OpenStream ==
    /\ opened' = TRUE
    /\ subscribed' = TRUE
    /\ timer' = TRUE
    /\ out' = Append(out, "role")
    /\ UNCHANGED <<finished, wroteTextDelta, answer, slicesLeft>>

-----------------------------------------------------------------------------
(* The request.                                                            *)

\* A database error or a refusal before the dispatch: the catch block.
PrepareFails ==
    /\ phase = "preparing"
    /\ phase' = "returned"
    /\ out' = Append(out, "json")
    /\ UNCHANGED <<frames, due, dispatched, gone, opened, subscribed, timer, finished,
                   wroteTextDelta, answer, slicesLeft>>

\* Slip: with a frame queued, the stream is opened after the await only.
DispatchToHostThenOpen ==
    /\ phase = "preparing"
    /\ \/ dispatched' = "sent" /\ phase' = "returned" /\ OpenStream
       \/ dispatched' = "queued" /\ phase' = "marking" /\ UNCHANGED stream
    /\ UNCHANGED <<frames, due, gone>>

\* dispatchPreparedOwnerAgentRun finds a connection: beforeDispatch opens the
\* stream, and the frame is sent or queued in the same step.
DispatchToHost ==
    /\ phase = "preparing"
    /\ OpenStream
    /\ \/ dispatched' = "sent" /\ phase' = "returned"
       \/ dispatched' = "queued" /\ phase' = "marking"
    /\ UNCHANGED <<frames, due, gone>>

\* It finds none: nothing is opened before the run is marked pending.
DispatchWithoutHost ==
    /\ phase = "preparing"
    /\ phase' = "marking"
    /\ UNCHANGED <<frames, due, dispatched, gone, stream>>

\* The write of `pending' is answered.  A stream that is not open is opened
\* first, so the branch that answers 502 is never taken.
MarkedPending ==
    /\ phase = "marking"
    /\ phase' = "returned"
    /\ IF opened THEN Finish(<<>>, "error") /\ UNCHANGED opened
       ELSE /\ opened' = TRUE
            /\ Finish(<<"role">>, "error")
    /\ UNCHANGED <<frames, due, dispatched, gone, wroteTextDelta, answer, slicesLeft>>

\* The write fails: the catch block.
MarkingFails ==
    /\ phase = "marking"
    /\ phase' = "returned"
    /\ IF opened THEN Finish(<<>>, "error") ELSE Write(<<"json">>)
    /\ UNCHANGED <<frames, due, dispatched, gone, opened, wroteTextDelta, answer, slicesLeft>>

-----------------------------------------------------------------------------
(* The run's frames, each handled as it is published.                      *)

\* The host registers again and is sent the queued frame.
FlushQueued ==
    /\ dispatched = "queued"
    /\ dispatched' = "sent"
    /\ UNCHANGED <<frames, due, phase, gone, stream>>

Handled == UNCHANGED <<control, opened>>

Accepted ==
    /\ Write(<<"note">>)
    /\ UNCHANGED <<wroteTextDelta, answer, slicesLeft>>

\* Of an event something is shown (a text, a comment for a tool or a status,
\* the end for an error), or it is one that writes nothing: a thought, or a
\* text whose content is no string.
Event(shows) ==
    /\ \/ shows /\ Write(<<"text">>) /\ wroteTextDelta' = TRUE
       \/ shows /\ Write(<<"note">>) /\ UNCHANGED wroteTextDelta
       \/ shows /\ Finish(<<>>, "error") /\ UNCHANGED wroteTextDelta
       \/ ~shows /\ Write(<<>>) /\ UNCHANGED wroteTextDelta
    /\ UNCHANGED <<answer, slicesLeft>>

\* emitCompletionChunks, to its first pause
EmitCompletion(message) ==
    /\ wroteTextDelta' = TRUE
    /\ IF message = "short" THEN Finish(<<"slice">>, "stop") /\ UNCHANGED slicesLeft
       ELSE Write(<<"slice">>) /\ slicesLeft' = Slices - 1

\* Slip: the answer is written although its text was streamed.
CompletedRepeats(message) ==
    /\ answer' = message
    /\ IF message = "empty"
       THEN Finish(<<>>, "stop") /\ UNCHANGED <<wroteTextDelta, slicesLeft>>
       ELSE EmitCompletion(message)

\* Slip: the end is not told from a long answer's pause.
CompletedEarly(message) ==
    /\ answer' = message
    /\ Finish(<<>>, "stop")
    /\ UNCHANGED <<wroteTextDelta, slicesLeft>>

Completed(message) ==
    /\ answer' = message
    /\ IF message = "empty" \/ wroteTextDelta
       THEN Finish(<<>>, "stop") /\ UNCHANGED <<wroteTextDelta, slicesLeft>>
       ELSE EmitCompletion(message)

Failed ==
    /\ Finish(<<>>, "error")
    /\ UNCHANGED <<wroteTextDelta, answer, slicesLeft>>

\* publishRunFrame, and handleRunStreamFrame if the stream is subscribed.
\* `shows' is a choice for an event only.
Publish(k, shows) ==
    /\ dispatched = "sent"
    /\ k = "event" => Count(frames, {"event"}) < MaxEvents
    /\ k # "event" => (shows <=> k = "accepted")
    /\ PublishFrame(k)
    /\ due' = due + (IF shows THEN 1 ELSE 0)
    /\ IF ~subscribed THEN UNCHANGED stream
       ELSE CASE k = "accepted" -> Accepted
              [] k = "event" -> Event(shows)
              [] k = "completed" -> \E message \in {"empty", "short", "long"} : Completed(message)
              [] k = "failed" -> Failed
    /\ Handled

\* Slip: the last slice does not end the stream.
NextSliceOpenEnd ==
    /\ slicesLeft > 0
    /\ IF finished THEN slicesLeft' = 0 /\ Write(<<>>)
       ELSE slicesLeft' = slicesLeft - 1 /\ Write(<<"slice">>)
    /\ UNCHANGED <<frames, due, control, opened, wroteTextDelta, answer>>

\* emitCompletionChunks after a pause; the last slice has no pause after it.
NextSlice ==
    /\ slicesLeft > 0
    /\ IF finished THEN slicesLeft' = 0 /\ Write(<<>>)
       ELSE /\ slicesLeft' = slicesLeft - 1
            /\ IF slicesLeft = 1 THEN Finish(<<"slice">>, "stop") ELSE Write(<<"slice">>)
    /\ UNCHANGED <<frames, due, control, opened, wroteTextDelta, answer>>

\* The 15 s timer.
Ping ==
    /\ timer
    /\ Count(out, {"ping"}) < MaxPings
    /\ out' = Append(out, "ping")
    /\ UNCHANGED <<frames, due, control, opened, subscribed, timer, finished,
                   wroteTextDelta, answer, slicesLeft>>

(***************************************************************************)
(* The client goes.  The listener on the request's `close' event is        *)
(* attached when the stream opens: before that the event is missed, and    *)
(* where the event means that the request was read (Node.js since 16) it   *)
(* has been missed in any case.                                            *)
(***************************************************************************)
ClientClose ==
    /\ ~gone
    /\ gone' = TRUE
    /\ \/ opened /\ finished' = TRUE /\ Cleanup
       \/ UNCHANGED <<subscribed, timer, finished>>
    /\ UNCHANGED <<frames, due, phase, dispatched, opened, wroteTextDelta, answer,
                   slicesLeft, out>>

-----------------------------------------------------------------------------
StreamNext ==
    \/ PrepareFails
    \/ DispatchToHost
    \/ DispatchWithoutHost
    \/ MarkedPending
    \/ MarkingFails
    \/ FlushQueued
    \/ \E k \in {"accepted", "event", "completed", "failed"}, shows \in BOOLEAN :
          Publish(k, shows)
    \/ NextSlice
    \/ Ping
    \/ ClientClose

StreamSpec == StreamInit /\ [][StreamNext]_streamVars

\* Timers fire and the database answers.  Nothing is assumed of the run.
FairStreamSpec ==
    /\ StreamSpec
    /\ WF_streamVars(NextSlice)
    /\ WF_streamVars(MarkedPending \/ MarkingFails)

-----------------------------------------------------------------------------
(* Properties.                                                             *)

\* `[DONE]' is written at most once and nothing after it, nor after a JSON
\* error (docs/wave10/r2-c4-sse-spec-final.md:31): whatever finishes the
\* stream first - a frame, the pending answer, the last slice of an answer -
\* the others find it finished, and the pauses between slices notice.
DoneIsLast ==
    \A i \in 1 .. Len(out) : out[i] \in {"done", "json"} => i = Len(out)

\* A finished stream holds neither a listener of the hub nor a timer.
FinishedIsReleased == finished => ~subscribed /\ ~timer

\* While the stream is open, each frame published for its run that is to be
\* shown has been: `accepted', and the events that make a text or a comment
\* (an error event that was handled has ended the stream).  The stream
\* subscribes before the run can be executed, even when the run's frame is
\* queued and flushed while the request still awaits.
NoFrameMissed == ~finished => Count(out, {"note", "text"}) = due

\* A stream that ends with `stop' has shown the answer, and once: as the text
\* of its events or as the completion's final message, never as both.
StopShowsAnswerOnce ==
    /\ Count(out, {"stop"}) > 0 =>
          /\ answer # "none"
          /\ answer = "short" /\ Count(out, {"text"}) = 0 => Count(out, {"slice"}) = 1
          /\ answer = "long" /\ Count(out, {"text"}) = 0 => Count(out, {"slice"}) = Slices
    /\ Count(out, {"text"}) = 0 \/ Count(out, {"slice"}) = 0

\* A stream never hangs on a run that is over or pending: the frame that ends
\* the run, and the answer (or failure) of the write of `pending', end the
\* stream, be it after the pauses of a long answer.
RunEndEndsStream ==
    opened /\ (Published("completed") \/ Published("failed") \/ phase = "marking")
        ~> finished

\* An owner whose host is offline gets the JSON answer 502 before a stream is
\* opened (tests/integration/gateway/owner-agent-chat-sse.test.ts:207,
\* docs/wave10/r2-c4-sse-spec-final.md:257).  The code opens a stream.
NoStreamWithoutHost == opened => dispatched # "no"

=============================================================================
