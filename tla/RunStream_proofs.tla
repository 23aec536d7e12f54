-------------------------- MODULE RunStream_proofs --------------------------
(***************************************************************************)
(* Theorems about RunStream, for every number of slices, events and pings  *)
(* and for a run that may publish any frames RunFrames allows.  DoneIsLast *)
(* is not inductive: that nothing follows the end needs that a finished    *)
(* stream is released (so no frame reaches it), and that the end was not   *)
(* written before needs that a stream that is neither finished nor refused *)
(* has written none (StreamIInv).                                          *)
(*                                                                         *)
(* The two properties that count what was shown need more: that an open    *)
(* stream is subscribed and no frame was published before it was open      *)
(* (FramesIInv), and that an answer exists only once the run has published *)
(* `completed', so that no text comes after it and only the pauses of a    *)
(* long answer keep its stream open, with Slices - slicesLeft slices       *)
(* written (AnswerIInv).                                                   *)
(***************************************************************************)
EXTENDS RunStream, SequenceTheorems, FiniteSetTheorems, TLAPS

USE SlicesAssumption

-----------------------------------------------------------------------------
(* What is written to a response.                                          *)

Endings == {"done", "json"}

\* Nothing of s ends the response.
OpenEnded(s) == \A i \in 1 .. Len(s) : s[i] \notin Endings

\* Only the last of s may end it.
EndsLast(s) == \A i \in 1 .. Len(s) : s[i] \in Endings => i = Len(s)

\* What a short sequence of chunks is.
LEMMA ShortSequences ==
    ASSUME NEW a \in Chunks, NEW b \in Chunks
    PROVE  /\ <<>> \in Seq(Chunks) /\ OpenEnded(<<>>)
           /\ <<a>> \in Seq(Chunks) /\ (a \notin Endings => OpenEnded(<<a>>))
           /\ <<a, b>> \in Seq(Chunks) /\ (a \notin Endings => EndsLast(<<a, b>>))
  BY DEF OpenEnded, EndsLast

\* Text after text leaves a response open, and an end after text is its last.
LEMMA AfterOpenEnded ==
    ASSUME NEW s \in Seq(Chunks), NEW t \in Seq(Chunks), OpenEnded(s)
    PROVE  /\ s \o t \in Seq(Chunks)
           /\ OpenEnded(t) => OpenEnded(s \o t)
           /\ EndsLast(t) => EndsLast(s \o t)
  <1>1. /\ s \o t \in Seq(Chunks)
        /\ Len(s \o t) = Len(s) + Len(t)
        /\ \A i \in 1 .. Len(s) + Len(t) :
              (s \o t)[i] = IF i <= Len(s) THEN s[i] ELSE t[i - Len(s)]
    BY ConcatProperties
  <1>2. Len(s) \in Nat /\ Len(t) \in Nat
    BY LenProperties
  <1>3. ASSUME NEW i \in 1 .. Len(s \o t)
        PROVE  \/ i \in 1 .. Len(s) /\ (s \o t)[i] = s[i]
               \/ i - Len(s) \in 1 .. Len(t) /\ (s \o t)[i] = t[i - Len(s)]
    BY <1>1, <1>2
  <1>4. ASSUME OpenEnded(t) PROVE OpenEnded(s \o t)
    BY <1>3, <1>4 DEF OpenEnded
  <1>5. ASSUME EndsLast(t) PROVE EndsLast(s \o t)
    <2> SUFFICES ASSUME NEW i \in 1 .. Len(s \o t), (s \o t)[i] \in Endings
                 PROVE  i = Len(s \o t)
      BY DEF EndsLast
    <2>1. i - Len(s) \in 1 .. Len(t) /\ t[i - Len(s)] \in Endings
      BY <1>3 DEF OpenEnded
    <2>2. i - Len(s) = Len(t)
      BY <1>5, <2>1 DEF EndsLast
    <2> QED BY <1>1, <1>2, <2>2
  <1> QED BY <1>1, <1>4, <1>5

\* finish writes the end of the response, last.
LEMMA FinishEnds ==
    ASSUME NEW s \in Seq(Chunks), NEW t \in Seq(Chunks), OpenEnded(s), OpenEnded(t),
           NEW reason \in {"stop", "error"}
    PROVE  /\ s \o t \o <<reason, "done">> \in Seq(Chunks)
           /\ EndsLast(s \o t \o <<reason, "done">>)
  <1>1. s \o t \in Seq(Chunks) /\ OpenEnded(s \o t)
    BY AfterOpenEnded
  <1>2. <<reason, "done">> \in Seq(Chunks) /\ EndsLast(<<reason, "done">>)
    <2>1. reason \in Chunks /\ "done" \in Chunks /\ reason \notin Endings
      BY DEF Chunks, Endings
    <2> QED BY <2>1, ShortSequences
  <1> QED BY <1>1, <1>2, AfterOpenEnded

\* Append is the concatenation of one chunk.
LEMMA AppendedChunk ==
    ASSUME NEW s \in Seq(Chunks), NEW a \in Chunks, OpenEnded(s)
    PROVE  /\ Append(s, a) \in Seq(Chunks)
           /\ EndsLast(Append(s, a))
           /\ a \notin Endings => OpenEnded(Append(s, a))
  <1>1. /\ Append(s, a) \in Seq(Chunks)
        /\ Len(Append(s, a)) = Len(s) + 1
        /\ \A i \in 1 .. Len(s) : Append(s, a)[i] = s[i]
        /\ Append(s, a)[Len(s) + 1] = a
    BY AppendProperties
  <1>2. Len(s) \in Nat
    BY LenProperties
  <1> QED BY <1>1, <1>2 DEF OpenEnded, EndsLast

-----------------------------------------------------------------------------
(* The inductive invariant.                                                *)

\* A stream that may still be written to has not ended.
MayWrite == ~finished /\ (opened \/ phase # "returned")

StreamIInv ==
    /\ StreamTypeOK
    /\ finished => opened /\ ~subscribed /\ ~timer
    /\ ~opened => ~subscribed /\ ~timer /\ slicesLeft = 0 /\ dispatched = "no"
    /\ opened => phase # "preparing"
    /\ EndsLast(out)
    /\ MayWrite => OpenEnded(out)

\* A new request satisfies it.
LEMMA StreamIInvInit == StreamInit => StreamIInv
  <1> SUFFICES ASSUME StreamInit PROVE StreamIInv
    OBVIOUS
  <1> USE DEF StreamInit
  <1>1. out \in Seq(Chunks) /\ Len(out) = 0
    OBVIOUS
  <1>2. StreamTypeOK
    <2>1. 0 \in 0 .. Slices /\ 0 \in Nat
      OBVIOUS
    <2> QED BY <1>1, <2>1 DEF StreamTypeOK, Phases, Answers
  <1>3. EndsLast(out) /\ OpenEnded(out)
    BY <1>1 DEF EndsLast, OpenEnded
  <1> QED BY <1>2, <1>3 DEF StreamIInv

\* A write to a stream that may be written to leaves it open-ended.
LEMMA WriteKeeps ==
    ASSUME StreamIInv, MayWrite, NEW t \in Seq(Chunks), OpenEnded(t), Write(t)
    PROVE  /\ out' \in Seq(Chunks) /\ OpenEnded(out') /\ EndsLast(out')
           /\ UNCHANGED <<subscribed, timer, finished>>
  <1>1. out \in Seq(Chunks) /\ OpenEnded(out)
    BY DEF StreamIInv, StreamTypeOK
  <1>2. out' = out \o t /\ UNCHANGED <<subscribed, timer, finished>>
    BY DEF Write
  <1>3. out' \in Seq(Chunks) /\ OpenEnded(out')
    BY <1>1, <1>2, AfterOpenEnded
  <1> QED BY <1>2, <1>3 DEF OpenEnded, EndsLast

\* finish ends a stream that may be written to and releases it.
LEMMA FinishKeeps ==
    ASSUME StreamIInv, MayWrite, NEW t \in Seq(Chunks), OpenEnded(t),
           NEW reason \in {"stop", "error"}, Finish(t, reason)
    PROVE  /\ out' \in Seq(Chunks) /\ EndsLast(out')
           /\ finished' = TRUE /\ subscribed' = FALSE /\ timer' = FALSE
  <1>1. out \in Seq(Chunks) /\ OpenEnded(out)
    BY DEF StreamIInv, StreamTypeOK
  <1>2. /\ out' = out \o t \o <<reason, "done">>
        /\ finished' = TRUE /\ subscribed' = FALSE /\ timer' = FALSE
    BY DEF Finish, Cleanup, MayWrite
  <1>3. out' \in Seq(Chunks) /\ EndsLast(out')
    BY <1>1, <1>2, FinishEnds
  <1> QED BY <1>2, <1>3

\* A finished stream is left alone by finish without a text.
LEMMA FinishFinished ==
    ASSUME StreamIInv, finished, NEW reason, Finish(<<>>, reason)
    PROVE  UNCHANGED <<out, subscribed, timer, finished>>
  <1>1. out \in Seq(Chunks) /\ out' = out \o <<>> /\ UNCHANGED <<subscribed, timer, finished>>
    BY DEF Finish, StreamIInv, StreamTypeOK
  <1> QED BY <1>1, ConcatEmptySeq

\* A frame of the run reaches a stream that is subscribed, and such a stream
\* may be written to.
LEMMA PublishKeeps ==
    ASSUME StreamIInv, NEW k \in {"accepted", "event", "completed", "failed"},
           NEW shows \in BOOLEAN, Publish(k, shows)
    PROVE  StreamIInv'
  <1>1. UNCHANGED <<phase, dispatched, gone, opened>> /\ due' \in Nat
    <2>1. due \in Nat /\ due' = due + (IF shows THEN 1 ELSE 0)
      BY DEF Publish, StreamIInv, StreamTypeOK
    <2> QED BY <2>1 DEF Publish, Handled, control
  <1>2. CASE ~subscribed
    <2>1. UNCHANGED <<subscribed, timer, finished, wroteTextDelta, answer, slicesLeft, out>>
      BY <1>2 DEF Publish, stream
    <2>2. StreamTypeOK'
      BY <1>1, <2>1 DEF StreamIInv, StreamTypeOK
    <2> QED BY <1>1, <2>1, <2>2 DEF StreamIInv, MayWrite, EndsLast, OpenEnded
  <1>3. CASE subscribed
    <2>1. opened /\ ~finished /\ MayWrite
      BY <1>3 DEF StreamIInv, StreamTypeOK, MayWrite
    <2>2. /\ <<>> \in Seq(Chunks) /\ OpenEnded(<<>>)
          /\ \A a \in {"text", "slice", "note"} : <<a>> \in Seq(Chunks) /\ OpenEnded(<<a>>)
      BY ShortSequences DEF Chunks, Endings
    <2> DEFINE KeepsOpen == /\ out' \in Seq(Chunks) /\ OpenEnded(out') /\ EndsLast(out')
                            /\ UNCHANGED <<subscribed, timer, finished>>
               Ends == /\ out' \in Seq(Chunks) /\ EndsLast(out')
                       /\ finished' = TRUE /\ subscribed' = FALSE /\ timer' = FALSE
               Typed == /\ wroteTextDelta' \in BOOLEAN /\ answer' \in Answers
                        /\ slicesLeft' \in 0 .. Slices
    <2>3. \A reason \in {"stop", "error"} : Finish(<<>>, reason) => Ends
      BY <2>1, <2>2, FinishKeeps
    <2>4. \A reason \in {"stop", "error"} : Finish(<<"slice">>, reason) => Ends
      BY <2>1, <2>2, FinishKeeps
    <2>5. /\ \A a \in {"text", "slice", "note"} : Write(<<a>>) => KeepsOpen
          /\ Write(<<>>) => KeepsOpen
      BY <2>1, <2>2, WriteKeeps
    <2> HIDE DEF KeepsOpen, Ends
    <2>6. wroteTextDelta \in BOOLEAN /\ answer \in Answers /\ slicesLeft \in 0 .. Slices
      BY DEF StreamIInv, StreamTypeOK
    <2>7. Accepted => KeepsOpen /\ Typed
      BY <2>5, <2>6 DEF Accepted
    <2>8. Event(shows) => (KeepsOpen \/ Ends) /\ Typed
      BY <2>3, <2>5, <2>6 DEF Event
    <2>9. ASSUME NEW message \in {"empty", "short", "long"}, Completed(message)
          PROVE  (KeepsOpen \/ Ends) /\ Typed
      <3>1. message \in Answers
        BY DEF Answers
      <3>2. Slices - 1 \in 0 .. Slices
        OBVIOUS
      <3> QED BY <2>3, <2>4, <2>5, <2>6, <2>9, <3>1, <3>2 DEF Completed, EmitCompletion
    <2>10. Failed => Ends /\ Typed
      BY <2>3, <2>6 DEF Failed
    <2>11. (KeepsOpen \/ Ends) /\ Typed
      <3>1. \/ Accepted \/ Event(shows) \/ Failed
            \/ \E message \in {"empty", "short", "long"} : Completed(message)
        BY <1>3 DEF Publish
      <3> HIDE DEF Typed
      <3> QED BY <2>7, <2>8, <2>9, <2>10, <3>1
    <2>12. CASE KeepsOpen
      <3>1. StreamTypeOK'
        BY <1>1, <2>11, <2>12 DEF KeepsOpen, StreamIInv, StreamTypeOK
      <3> QED BY <1>1, <2>1, <2>12, <3>1 DEF KeepsOpen, StreamIInv
    <2>13. CASE Ends
      <3>1. StreamTypeOK'
        BY <1>1, <2>11, <2>13 DEF Ends, StreamIInv, StreamTypeOK
      <3> QED BY <1>1, <2>1, <2>13, <3>1 DEF Ends, StreamIInv, MayWrite
    <2> QED BY <2>11, <2>12, <2>13
  <1> QED BY <1>2, <1>3

\* Every step of the request, the run, the timers and the client keeps the
\* invariant.
LEMMA StreamIInvStep == StreamIInv /\ [StreamNext]_streamVars => StreamIInv'
  <1> SUFFICES ASSUME StreamIInv, [StreamNext]_streamVars PROVE StreamIInv'
    OBVIOUS
  <1>1. /\ StreamTypeOK
        /\ <<>> \in Seq(Chunks) /\ OpenEnded(<<>>)
        /\ \A a \in {"role", "text", "slice", "note"} :
              <<a>> \in Seq(Chunks) /\ OpenEnded(<<a>>)
    BY ShortSequences DEF StreamIInv, Chunks, Endings
  <1>2. CASE PrepareFails
    <2>1. ~opened /\ ~finished /\ MayWrite
      BY <1>2 DEF PrepareFails, StreamIInv, StreamTypeOK, MayWrite
    <2>2. out' \in Seq(Chunks) /\ EndsLast(out')
      BY <1>2, <2>1, AppendedChunk DEF PrepareFails, StreamIInv, StreamTypeOK, Chunks
    <2>3. StreamTypeOK'
      BY <1>2, <2>2 DEF PrepareFails, StreamIInv, StreamTypeOK, Phases
    <2>4. ~MayWrite'
      BY <1>2, <2>1 DEF PrepareFails, MayWrite
    <2> QED BY <1>2, <2>1, <2>2, <2>3, <2>4 DEF PrepareFails, StreamIInv
  <1>3. CASE DispatchToHost
    <2>1. ~opened /\ ~finished /\ MayWrite
      BY <1>3 DEF DispatchToHost, StreamIInv, StreamTypeOK, MayWrite
    <2>2. out' \in Seq(Chunks) /\ EndsLast(out') /\ OpenEnded(out')
      <3>1. "role" \in Chunks /\ "role" \notin Endings
        BY DEF Chunks, Endings
      <3>2. out \in Seq(Chunks) /\ OpenEnded(out) /\ out' = Append(out, "role")
        BY <1>3, <2>1 DEF DispatchToHost, OpenStream, StreamIInv, StreamTypeOK
      <3> QED BY <3>1, <3>2, AppendedChunk
    <2>3. /\ opened' = TRUE /\ subscribed' = TRUE /\ timer' = TRUE
          /\ UNCHANGED <<due, gone, finished, wroteTextDelta, answer, slicesLeft>>
          /\ phase' \in {"returned", "marking"} /\ dispatched' \in {"sent", "queued"}
      BY <1>3 DEF DispatchToHost, OpenStream
    <2>4. StreamTypeOK'
      BY <2>2, <2>3 DEF StreamIInv, StreamTypeOK, Phases
    <2> QED BY <2>1, <2>2, <2>3, <2>4 DEF StreamIInv
  <1>4. CASE DispatchWithoutHost
    <2>1. phase' = "marking" /\ phase = "preparing" /\ UNCHANGED <<due, dispatched, gone, stream>>
      BY <1>4 DEF DispatchWithoutHost
    <2>2. StreamTypeOK'
      BY <2>1 DEF StreamIInv, StreamTypeOK, Phases, stream
    <2> QED BY <2>1, <2>2 DEF StreamIInv, MayWrite, EndsLast, OpenEnded, stream
  <1>5. CASE MarkedPending
    <2>1. phase = "marking" /\ phase' = "returned"
          /\ UNCHANGED <<due, dispatched, gone, wroteTextDelta, answer, slicesLeft>>
      BY <1>5 DEF MarkedPending
    <2>2. /\ out' \in Seq(Chunks) /\ EndsLast(out')
          /\ finished' = TRUE /\ subscribed' = FALSE /\ timer' = FALSE
          /\ opened' = TRUE
      <3>1. CASE finished
        <4>1. opened
          BY <3>1 DEF StreamIInv
        <4>2. UNCHANGED <<out, subscribed, timer, finished, opened>>
          BY <1>5, <3>1, <4>1, FinishFinished DEF MarkedPending
        <4> QED BY <3>1, <4>1, <4>2 DEF StreamIInv, StreamTypeOK, EndsLast
      <3>2. CASE ~finished
        <4>1. MayWrite
          BY <2>1, <3>2 DEF MayWrite
        <4>2. CASE opened
          BY <1>1, <1>5, <4>1, <4>2, FinishKeeps DEF MarkedPending, StreamTypeOK
        <4>3. CASE ~opened
          BY <1>1, <1>5, <4>1, <4>3, FinishKeeps DEF MarkedPending
        <4> QED BY <4>2, <4>3
      <3> QED BY <3>1, <3>2
    <2>3. StreamTypeOK'
      BY <2>1, <2>2 DEF StreamIInv, StreamTypeOK, Phases
    <2> QED BY <2>1, <2>2, <2>3 DEF StreamIInv, MayWrite
  <1>6. CASE MarkingFails
    <2>1. phase = "marking" /\ phase' = "returned"
          /\ UNCHANGED <<due, dispatched, gone, opened, wroteTextDelta, answer, slicesLeft>>
      BY <1>6 DEF MarkingFails
    <2>2. CASE opened /\ finished
      <3>1. UNCHANGED <<out, subscribed, timer, finished>>
        BY <1>6, <2>2, FinishFinished DEF MarkingFails
      <3>2. StreamTypeOK'
        BY <2>1, <3>1 DEF StreamIInv, StreamTypeOK, Phases
      <3> QED BY <2>1, <2>2, <3>1, <3>2 DEF StreamIInv, MayWrite, EndsLast
    <2>3. CASE opened /\ ~finished
      <3>1. /\ out' \in Seq(Chunks) /\ EndsLast(out')
            /\ finished' = TRUE /\ subscribed' = FALSE /\ timer' = FALSE
        BY <1>1, <1>6, <2>3, FinishKeeps DEF MarkingFails, MayWrite
      <3>2. StreamTypeOK'
        BY <2>1, <3>1 DEF StreamIInv, StreamTypeOK, Phases
      <3> QED BY <2>1, <2>3, <3>1, <3>2 DEF StreamIInv, MayWrite
    <2>4. CASE ~opened
      <3>1. ~finished /\ MayWrite
        BY <2>1, <2>4 DEF StreamIInv, MayWrite
      <3>2. "json" \in Chunks /\ <<"json">> \in Seq(Chunks) /\ EndsLast(<<"json">>)
        BY DEF Chunks, EndsLast
      <3>3. /\ out' = out \o <<"json">> /\ UNCHANGED <<subscribed, timer, finished>>
            /\ out \in Seq(Chunks) /\ OpenEnded(out)
        BY <1>6, <2>4, <3>1 DEF MarkingFails, Write, StreamIInv, StreamTypeOK
      <3>4. out' \in Seq(Chunks) /\ EndsLast(out')
        BY <3>2, <3>3, AfterOpenEnded
      <3>5. StreamTypeOK'
        BY <2>1, <3>3, <3>4 DEF StreamIInv, StreamTypeOK, Phases
      <3> QED BY <2>1, <2>4, <3>1, <3>3, <3>4, <3>5 DEF StreamIInv, MayWrite
    <2> QED BY <2>2, <2>3, <2>4
  <1>7. CASE FlushQueued
    <2>1. /\ dispatched = "queued" /\ dispatched' = "sent"
          /\ UNCHANGED <<due, phase, gone, opened, subscribed, timer, finished,
                         wroteTextDelta, answer, slicesLeft, out>>
      BY <1>7 DEF FlushQueued, stream
    <2>2. StreamTypeOK'
      BY <2>1 DEF StreamIInv, StreamTypeOK
    <2> QED BY <2>1, <2>2 DEF StreamIInv, MayWrite, EndsLast, OpenEnded
  <1>8. ASSUME NEW k \in {"accepted", "event", "completed", "failed"},
               NEW shows \in BOOLEAN, Publish(k, shows)
        PROVE  StreamIInv'
    BY <1>1, <1>8, PublishKeeps DEF StreamIInv
  <1>9. CASE NextSlice
    <2>1. slicesLeft > 0 /\ opened
          /\ UNCHANGED <<due, phase, dispatched, gone, opened, wroteTextDelta, answer>>
      <3>1. slicesLeft > 0 /\ slicesLeft # 0
        BY <1>9, <1>1 DEF NextSlice, StreamTypeOK
      <3> QED BY <1>1, <1>9, <3>1 DEF NextSlice, StreamIInv, StreamTypeOK, control
    <2>2. CASE finished
      <3>1. slicesLeft' = 0 /\ UNCHANGED <<out, subscribed, timer, finished>>
        BY <1>9, <2>2, <1>1, ConcatEmptySeq DEF NextSlice, Write, StreamTypeOK
      <3>2. StreamTypeOK'
        BY <2>1, <3>1 DEF StreamIInv, StreamTypeOK
      <3> QED BY <2>1, <2>2, <3>1, <3>2 DEF StreamIInv, MayWrite, EndsLast
    <2>3. CASE ~finished
      <3>1. slicesLeft' \in 0 .. Slices
        BY <1>1, <1>9, <2>1, <2>3 DEF NextSlice, StreamTypeOK
      <3>2. MayWrite
        BY <2>1, <2>3 DEF MayWrite
      <3>3. CASE slicesLeft = 1
        <4>1. /\ out' \in Seq(Chunks) /\ EndsLast(out')
              /\ finished' = TRUE /\ subscribed' = FALSE /\ timer' = FALSE
          BY <1>1, <1>9, <2>3, <3>2, <3>3, FinishKeeps DEF NextSlice
        <4>2. StreamTypeOK'
          BY <2>1, <3>1, <4>1 DEF StreamIInv, StreamTypeOK
        <4> QED BY <2>1, <4>1, <4>2 DEF StreamIInv, MayWrite
      <3>4. CASE slicesLeft # 1
        <4>1. /\ out' \in Seq(Chunks) /\ OpenEnded(out') /\ EndsLast(out')
              /\ UNCHANGED <<subscribed, timer, finished>>
          BY <1>1, <1>9, <2>3, <3>2, <3>4, WriteKeeps DEF NextSlice
        <4>2. StreamTypeOK'
          BY <2>1, <3>1, <4>1 DEF StreamIInv, StreamTypeOK
        <4> QED BY <2>1, <2>3, <4>1, <4>2 DEF StreamIInv
      <3> QED BY <3>3, <3>4
    <2> QED BY <2>2, <2>3
  <1>10. CASE Ping
    <2>1. ~finished /\ opened /\ MayWrite
          /\ UNCHANGED <<due, phase, dispatched, gone, opened, subscribed, timer, finished,
                         wroteTextDelta, answer, slicesLeft>>
      BY <1>10 DEF Ping, StreamIInv, MayWrite, control
    <2>2. "ping" \in Chunks /\ "ping" \notin Endings
      BY DEF Chunks, Endings
    <2>3. out' \in Seq(Chunks) /\ EndsLast(out') /\ OpenEnded(out')
      BY <1>10, <2>1, <2>2, AppendedChunk DEF Ping, StreamIInv, StreamTypeOK
    <2>4. StreamTypeOK'
      BY <2>1, <2>3 DEF StreamIInv, StreamTypeOK
    <2> QED BY <2>1, <2>3, <2>4 DEF StreamIInv
  <1>11. CASE ClientClose
    <2>1. /\ gone' = TRUE
          /\ UNCHANGED <<due, phase, dispatched, opened, wroteTextDelta, answer, slicesLeft, out>>
          /\ \/ opened /\ finished' = TRUE /\ subscribed' = FALSE /\ timer' = FALSE
             \/ UNCHANGED <<subscribed, timer, finished>>
      BY <1>11 DEF ClientClose, Cleanup
    <2>2. StreamTypeOK'
      BY <2>1 DEF StreamIInv, StreamTypeOK
    <2> QED BY <2>1, <2>2 DEF StreamIInv, MayWrite, EndsLast, OpenEnded
  <1>12. CASE UNCHANGED streamVars
    <2>1. UNCHANGED <<due, phase, dispatched, gone, opened, subscribed, timer, finished,
                      wroteTextDelta, answer, slicesLeft, out>>
      BY <1>12 DEF streamVars, control, stream
    <2>2. StreamTypeOK'
      BY <2>1 DEF StreamIInv, StreamTypeOK
    <2> QED BY <2>1, <2>2 DEF StreamIInv, MayWrite, EndsLast, OpenEnded
  <1> QED
    BY <1>2, <1>3, <1>4, <1>5, <1>6, <1>7, <1>8, <1>9, <1>10, <1>11, <1>12
    DEF StreamNext

-----------------------------------------------------------------------------
(* How much of each kind was written.                                      *)

Weight(a, kinds) == IF a \in kinds THEN 1 ELSE 0

\* Appending an element counts it, if it is of the kinds counted.
LEMMA CountAppend ==
    ASSUME NEW X, NEW s \in Seq(X), NEW a \in X, NEW kinds
    PROVE  /\ Count(s, kinds) \in Nat
           /\ Append(s, a) \in Seq(X)
           /\ Count(Append(s, a), kinds) = Count(s, kinds) + Weight(a, kinds)
  <1> DEFINE Old == {i \in 1 .. Len(s) : s[i] \in kinds}
             New == {i \in 1 .. Len(Append(s, a)) : Append(s, a)[i] \in kinds}
             n == Len(s)
  <1>1. /\ Append(s, a) \in Seq(X)
        /\ Len(Append(s, a)) = n + 1
        /\ \A i \in 1 .. n : Append(s, a)[i] = s[i]
        /\ Append(s, a)[n + 1] = a
    BY AppendProperties
  <1>2. n \in Nat
    BY LenProperties
  <1>3. IsFiniteSet(1 .. n)
    BY <1>2, FS_Interval
  <1>4. IsFiniteSet(Old)
    BY <1>3, FS_Subset
  <1>5. Cardinality(Old) \in Nat
    BY <1>4, FS_CardinalityType
  <1>6. n + 1 \notin Old
    BY <1>2
  <1>7. CASE a \in kinds
    <2>1. New = Old \cup {n + 1}
      BY <1>1, <1>2, <1>7
    <2>2. Cardinality(Old \cup {n + 1}) = Cardinality(Old) + 1
      BY <1>4, <1>6, FS_AddElement
    <2> QED BY <1>1, <1>5, <1>7, <2>1, <2>2 DEF Count, Weight
  <1>8. CASE a \notin kinds
    <2>1. New = Old
      BY <1>1, <1>2, <1>8
    <2>2. Count(Append(s, a), kinds) = Count(s, kinds) /\ Count(s, kinds) \in Nat
      BY <1>5, <2>1, Zenon DEF Count
    <2> QED BY <1>1, <1>8, <2>2 DEF Weight
  <1> QED BY <1>7, <1>8

\* Nothing is counted in an empty sequence.
LEMMA CountEmpty == ASSUME NEW kinds PROVE Count(<<>>, kinds) = 0
  <1>1. {i \in 1 .. Len(<<>>) : <<>>[i] \in kinds} = {}
    OBVIOUS
  <1> QED BY <1>1, FS_EmptySet DEF Count

\* So does the concatenation of one element ...
LEMMA CountOne ==
    ASSUME NEW s \in Seq(Chunks), NEW a \in Chunks, NEW kinds
    PROVE  Count(s \o <<a>>, kinds) = Count(s, kinds) + Weight(a, kinds)
  <1>1. s \o <<a>> = Append(s, a)
    BY AppendIsConcat
  <1>2. Count(Append(s, a), kinds) = Count(s, kinds) + Weight(a, kinds)
    BY CountAppend
  <1> QED BY <1>1, <1>2

\* ... or of two.
LEMMA CountTwo ==
    ASSUME NEW s \in Seq(Chunks), NEW a \in Chunks, NEW b \in Chunks, NEW kinds
    PROVE  Count(s \o <<a, b>>, kinds)
              = Count(s, kinds) + Weight(a, kinds) + Weight(b, kinds)
  <1> DEFINE t == s \o <<a>>
  <1>1. <<a, b>> = <<a>> \o <<b>>
    <2>1. <<a, b>> = Append(<<a>>, b)
      OBVIOUS
    <2>2. <<a>> \in Seq(Chunks)
      OBVIOUS
    <2>3. Append(<<a>>, b) = <<a>> \o <<b>>
      BY <2>2, AppendIsConcat
    <2> QED BY <2>1, <2>3
  <1>2. <<a>> \in Seq(Chunks) /\ <<b>> \in Seq(Chunks)
    OBVIOUS
  <1>3. s \o (<<a>> \o <<b>>) = t \o <<b>>
    BY <1>2, ConcatAssociative
  <1>4. t \in Seq(Chunks)
    BY <1>2, ConcatProperties
  <1>5. Count(t, kinds) = Count(s, kinds) + Weight(a, kinds)
    BY CountOne
  <1> HIDE DEF t
  <1>6. Count(t \o <<b>>, kinds) = Count(t, kinds) + Weight(b, kinds)
    BY <1>4, CountOne
  <1>7. s \o <<a, b>> = t \o <<b>>
    BY <1>1, <1>3
  <1> QED BY <1>5, <1>6, <1>7, Zenon

-----------------------------------------------------------------------------
(* What a stream has shown of its run.                                     *)

Texts == Count(out, {"text"})
SlicesOut == Count(out, {"slice"})
Stops == Count(out, {"stop"})
Notes == Count(out, {"note", "text"})

FrameKinds == {"accepted", "event", "completed", "failed"}

\* The run's frames and the subscription to them: an open stream is
\* subscribed, and no frame is published before the stream is open.
FramesIInv ==
    /\ frames \in Seq(FrameKinds)
    /\ opened /\ ~finished => subscribed
    /\ dispatched # "sent" => frames = <<>>
    /\ NoFrameMissed

\* The answer: nothing of it is written before there is one, a completed run
\* has no more events, and only the pauses of a long answer that was not
\* streamed keep a completed stream open.
AnswerIInv ==
    /\ wroteTextDelta <=> Texts > 0 \/ SlicesOut > 0
    /\ answer = "none" => SlicesOut = 0 /\ Stops = 0
    /\ answer # "none" => Published("completed")
    /\ ~finished => Stops = 0
    /\ ~finished /\ slicesLeft > 0 => answer # "none"
    /\ ~finished /\ answer # "none" =>
          /\ answer = "long" /\ wroteTextDelta /\ Texts = 0
          /\ slicesLeft > 0 /\ SlicesOut = Slices - slicesLeft
    /\ StopShowsAnswerOnce

\* So many texts, slices, stops and notes are written by a step.
Wrote(t, s, p, n) ==
    /\ Texts' = Texts + t
    /\ SlicesOut' = SlicesOut + s
    /\ Stops' = Stops + p
    /\ Notes' = Notes + n

\* The counts are numbers, and a step that writes nothing changes none.
LEMMA CountsAreNumbers ==
    ASSUME StreamTypeOK
    PROVE  /\ Texts \in Nat /\ SlicesOut \in Nat /\ Stops \in Nat /\ Notes \in Nat
           /\ UNCHANGED out => Wrote(0, 0, 0, 0)
  <1>1. out \in Seq(Chunks) /\ "role" \in Chunks
    BY DEF StreamTypeOK, Chunks
  <1>2. \A kinds : Count(out, kinds) \in Nat
    BY <1>1, CountAppend
  <1>3. Texts \in Nat /\ SlicesOut \in Nat /\ Stops \in Nat /\ Notes \in Nat
    BY <1>2 DEF Texts, SlicesOut, Stops, Notes
  <1>4. ASSUME UNCHANGED out
        PROVE  Texts' = Texts /\ SlicesOut' = SlicesOut /\ Stops' = Stops /\ Notes' = Notes
    BY <1>4 DEF Texts, SlicesOut, Stops, Notes
  <1> QED BY <1>3, <1>4 DEF Wrote

\* One chunk written.
LEMMA OneChunk ==
    ASSUME StreamTypeOK, NEW a \in Chunks, out' = out \o <<a>> \/ out' = Append(out, a)
    PROVE  Wrote(Weight(a, {"text"}), Weight(a, {"slice"}), Weight(a, {"stop"}),
                 Weight(a, {"note", "text"}))
  <1>1. out \in Seq(Chunks)
    BY DEF StreamTypeOK
  <1>2. out' = out \o <<a>>
    BY <1>1, AppendIsConcat
  <1>3. \A kinds : Count(out', kinds) = Count(out, kinds) + Weight(a, kinds)
    BY <1>1, <1>2, CountOne
  <1> QED BY <1>3 DEF Wrote, Texts, SlicesOut, Stops, Notes

\* finish, for a stream that is not finished.
LEMMA FinishWrites ==
    ASSUME StreamTypeOK, ~finished, NEW reason \in {"stop", "error"}
    PROVE  /\ Finish(<<>>, reason) =>
                 Wrote(0, 0, IF reason = "stop" THEN 1 ELSE 0, 0)
           /\ Finish(<<"slice">>, reason) =>
                 Wrote(0, 1, IF reason = "stop" THEN 1 ELSE 0, 0)
           /\ Finish(<<"role">>, reason) =>
                 Wrote(0, 0, IF reason = "stop" THEN 1 ELSE 0, 0)
  <1>1. out \in Seq(Chunks) /\ reason \in Chunks /\ "done" \in Chunks
    BY DEF StreamTypeOK, Chunks
  <1>2. Texts \in Nat /\ SlicesOut \in Nat /\ Stops \in Nat /\ Notes \in Nat
    BY CountsAreNumbers
  <1>3. ASSUME Finish(<<>>, reason)
        PROVE  Wrote(0, 0, IF reason = "stop" THEN 1 ELSE 0, 0)
    <2>1. out' = out \o <<>> \o <<reason, "done">>
      BY <1>3 DEF Finish
    <2>2. out \o <<>> = out
      BY <1>1, ConcatEmptySeq
    <2>3. out' = out \o <<reason, "done">>
      BY <2>1, <2>2
    <2>4. \A kinds : Count(out', kinds)
                        = Count(out, kinds) + Weight(reason, kinds) + Weight("done", kinds)
      BY <1>1, <2>3, CountTwo
    <2> QED BY <1>2, <2>4 DEF Wrote, Texts, SlicesOut, Stops, Notes, Weight
  <1>4. ASSUME NEW a \in {"slice", "role"}, Finish(<<a>>, reason)
        PROVE  Wrote(0, IF a = "slice" THEN 1 ELSE 0, IF reason = "stop" THEN 1 ELSE 0, 0)
    <2> DEFINE so == out \o <<a>>
    <2>1. out' = so \o <<reason, "done">>
      BY <1>4 DEF Finish
    <2>2. a \in Chunks
      BY DEF Chunks
    <2>3. so \in Seq(Chunks)
      BY <1>1, <2>2, ConcatProperties
    <2>4. ASSUME NEW kinds PROVE Count(so, kinds) = Count(out, kinds) + Weight(a, kinds)
      BY <1>1, <2>2, CountOne
    <2> HIDE DEF so
    <2>5. ASSUME NEW kinds
          PROVE  Count(out', kinds)
                    = Count(so, kinds) + Weight(reason, kinds) + Weight("done", kinds)
      <3>1. Count(so \o <<reason, "done">>, kinds)
               = Count(so, kinds) + Weight(reason, kinds) + Weight("done", kinds)
        BY <1>1, <2>3, CountTwo
      <3> QED BY <2>1, <3>1
    <2>6. /\ Texts' = Texts + Weight(a, {"text"}) + Weight(reason, {"text"})
                         + Weight("done", {"text"})
          /\ SlicesOut' = SlicesOut + Weight(a, {"slice"}) + Weight(reason, {"slice"})
                             + Weight("done", {"slice"})
          /\ Stops' = Stops + Weight(a, {"stop"}) + Weight(reason, {"stop"})
                         + Weight("done", {"stop"})
          /\ Notes' = Notes + Weight(a, {"note", "text"}) + Weight(reason, {"note", "text"})
                         + Weight("done", {"note", "text"})
      BY <2>4, <2>5 DEF Texts, SlicesOut, Stops, Notes
    <2> QED BY <1>2, <2>6 DEF Wrote, Weight
  <1> QED BY <1>3, <1>4

\* publishRunFrame adds a frame to the run's.
LEMMA PublishedFrame ==
    ASSUME NEW k \in FrameKinds, frames \in Seq(FrameKinds), PublishFrame(k)
    PROVE  /\ frames' \in Seq(FrameKinds)
           /\ Published("completed")' <=> Published("completed") \/ k = "completed"
  <1>1. frames' = Append(frames, k)
    BY DEF PublishFrame
  <1>2. /\ frames' \in Seq(FrameKinds)
        /\ Len(frames') = Len(frames) + 1
        /\ \A i \in 1 .. Len(frames) : frames'[i] = frames[i]
        /\ frames'[Len(frames) + 1] = k
    BY <1>1, AppendProperties
  <1>3. Len(frames) \in Nat
    BY LenProperties
  <1> QED BY <1>2, <1>3 DEF Published

AnsweredIInv == StreamIInv /\ FramesIInv /\ AnswerIInv

\* A new request satisfies it.
LEMMA AnsweredIInvInit == StreamInit => AnsweredIInv
  <1> SUFFICES ASSUME StreamInit PROVE AnsweredIInv
    OBVIOUS
  <1>1. StreamIInv
    BY StreamIInvInit
  <1>2. /\ out = <<>> /\ frames = <<>> /\ due = 0 /\ finished = FALSE /\ opened = FALSE
        /\ wroteTextDelta = FALSE /\ answer = "none" /\ slicesLeft = 0
    BY DEF StreamInit, FramesInit
  <1>3. Texts = 0 /\ SlicesOut = 0 /\ Stops = 0 /\ Notes = 0
    BY <1>2, CountEmpty DEF Texts, SlicesOut, Stops, Notes
  <1>4. FramesIInv
    BY <1>2, <1>3 DEF FramesIInv, NoFrameMissed, Notes
  <1>5. AnswerIInv
    BY <1>2, <1>3 DEF AnswerIInv, StopShowsAnswerOnce, Texts, SlicesOut, Stops
  <1> QED BY <1>1, <1>4, <1>5 DEF AnsweredIInv

\* What the counts say of the properties.
LEMMA CountedProperties ==
    /\ NoFrameMissed <=> (~finished => Notes = due)
    /\ StopShowsAnswerOnce <=>
          /\ Stops > 0 =>
                /\ answer # "none"
                /\ answer = "short" /\ Texts = 0 => SlicesOut = 1
                /\ answer = "long" /\ Texts = 0 => SlicesOut = Slices
          /\ Texts = 0 \/ SlicesOut = 0
  BY DEF NoFrameMissed, StopShowsAnswerOnce, Notes, Texts, SlicesOut, Stops

\* A step that writes nothing that is counted, of a stream that never becomes
\* unfinished again, keeps it.
LEMMA QuietStep ==
    ASSUME AnsweredIInv, Wrote(0, 0, 0, 0),
           UNCHANGED <<frames, due, wroteTextDelta, answer>>,
           finished => finished',
           finished' \/ UNCHANGED slicesLeft,
           opened' /\ ~finished' => subscribed',
           dispatched' # "sent" => dispatched # "sent"
    PROVE  FramesIInv' /\ AnswerIInv'
  <1>1. /\ Texts \in Nat /\ SlicesOut \in Nat /\ Stops \in Nat /\ Notes \in Nat
        /\ Texts' = Texts /\ SlicesOut' = SlicesOut /\ Stops' = Stops /\ Notes' = Notes
    BY CountsAreNumbers DEF AnsweredIInv, StreamIInv, Wrote
  <1>2. due' = due /\ (Published("completed")' <=> Published("completed"))
    BY DEF Published
  <1>3. FramesIInv'
    <2>1. ~finished' => Notes' = due'
      BY <1>1, <1>2, CountedProperties DEF AnsweredIInv, FramesIInv
    <2>2. NoFrameMissed'
      BY <2>1 DEF NoFrameMissed, Notes
    <2> QED BY <2>2 DEF AnsweredIInv, FramesIInv
  <1>4. StopShowsAnswerOnce'
    <2>1. StopShowsAnswerOnce
      BY DEF AnsweredIInv, AnswerIInv
    <2> QED BY <1>1, <2>1 DEF StopShowsAnswerOnce, Texts, SlicesOut, Stops
  <1>5. AnswerIInv'
    BY <1>1, <1>2, <1>4 DEF AnsweredIInv, AnswerIInv
  <1> QED BY <1>3, <1>5

\* A frame of the run is written by the open stream, and an answer is written
\* only if its text was not.
LEMMA PublishAnswers ==
    ASSUME AnsweredIInv, NEW k \in FrameKinds, NEW shows \in BOOLEAN, Publish(k, shows)
    PROVE  FramesIInv' /\ AnswerIInv'
  <1>1. /\ UNCHANGED <<phase, dispatched, gone, opened>>
        /\ dispatched = "sent" /\ Publishable(k) /\ PublishFrame(k)
    BY DEF Publish, Handled, control, PublishFrame
  <1>2. /\ StreamTypeOK /\ StreamIInv /\ frames \in Seq(FrameKinds)
        /\ opened /\ (subscribed <=> ~finished)
    BY <1>1 DEF AnsweredIInv, StreamIInv, StreamTypeOK, FramesIInv
  <1>3. /\ frames' \in Seq(FrameKinds)
        /\ due \in Nat /\ due' = due + (IF shows THEN 1 ELSE 0)
        /\ k # "event" => (shows <=> k = "accepted")
        /\ Published("completed")' <=> Published("completed") \/ k = "completed"
    BY <1>1, <1>2, PublishedFrame DEF Publish, StreamTypeOK
  <1>4. /\ Texts \in Nat /\ SlicesOut \in Nat /\ Stops \in Nat /\ Notes \in Nat
        /\ UNCHANGED out => Wrote(0, 0, 0, 0)
    BY <1>2, CountsAreNumbers
  <1>5. CASE finished
    <2>1. UNCHANGED stream
      BY <1>2, <1>5 DEF Publish
    <2>2. UNCHANGED <<opened, finished, subscribed, wroteTextDelta, answer, out>>
      BY <2>1 DEF stream
    <2>3. Texts' = Texts /\ SlicesOut' = SlicesOut /\ Stops' = Stops
      BY <2>2 DEF Texts, SlicesOut, Stops
    <2>4. NoFrameMissed'
      BY <1>5, <2>2 DEF NoFrameMissed
    <2>5. StopShowsAnswerOnce'
      BY <2>2 DEF AnsweredIInv, AnswerIInv, StopShowsAnswerOnce
    <2>6. FramesIInv'
      BY <1>1, <1>2, <1>3, <1>5, <2>2, <2>4 DEF FramesIInv
    <2>7. AnswerIInv'
      BY <1>3, <1>5, <2>2, <2>3, <2>5 DEF AnsweredIInv, AnswerIInv
    <2> QED BY <2>6, <2>7
  <1>6. CASE ~finished
    <2>1. /\ NoFrameMissed /\ Notes = due
      BY <1>6, CountedProperties DEF AnsweredIInv, FramesIInv
    <2>2. /\ Write(<<"note">>) => Wrote(0, 0, 0, 1) /\ UNCHANGED <<subscribed, finished>>
          /\ Write(<<"text">>) => Wrote(1, 0, 0, 1) /\ UNCHANGED <<subscribed, finished>>
          /\ Write(<<"slice">>) => Wrote(0, 1, 0, 0) /\ UNCHANGED <<subscribed, finished>>
          /\ Write(<<>>) => Wrote(0, 0, 0, 0) /\ UNCHANGED <<subscribed, finished>>
      <3>1. ASSUME NEW a \in {"note", "text", "slice"}, Write(<<a>>)
            PROVE  /\ Wrote(Weight(a, {"text"}), Weight(a, {"slice"}), Weight(a, {"stop"}),
                            Weight(a, {"note", "text"}))
                   /\ UNCHANGED <<subscribed, finished>>
        <4>1. a \in Chunks /\ out' = out \o <<a>> /\ UNCHANGED <<subscribed, finished>>
          BY <3>1 DEF Write, Chunks
        <4> QED BY <1>2, <4>1, OneChunk
      <3>2. /\ Weight("note", {"text"}) = 0 /\ Weight("note", {"slice"}) = 0
            /\ Weight("note", {"stop"}) = 0 /\ Weight("note", {"note", "text"}) = 1
            /\ Weight("text", {"text"}) = 1 /\ Weight("text", {"slice"}) = 0
            /\ Weight("text", {"stop"}) = 0 /\ Weight("text", {"note", "text"}) = 1
            /\ Weight("slice", {"text"}) = 0 /\ Weight("slice", {"slice"}) = 1
            /\ Weight("slice", {"stop"}) = 0 /\ Weight("slice", {"note", "text"}) = 0
        BY DEF Weight
      <3>3. ASSUME Write(<<>>) PROVE Wrote(0, 0, 0, 0) /\ UNCHANGED <<subscribed, finished>>
        <4>1. out' = out \o <<>> /\ UNCHANGED <<subscribed, finished>> /\ out \in Seq(Chunks)
          BY <1>2, <3>3 DEF Write, StreamTypeOK
        <4>2. UNCHANGED out
          BY <4>1, ConcatEmptySeq
        <4> QED BY <1>4, <4>1, <4>2
      <3> QED BY <3>1, <3>2, <3>3
    <2>3. /\ Finish(<<>>, "stop") => Wrote(0, 0, 1, 0) /\ finished'
          /\ Finish(<<>>, "error") => Wrote(0, 0, 0, 0) /\ finished'
          /\ Finish(<<"slice">>, "stop") => Wrote(0, 1, 1, 0) /\ finished'
      <3>1. \A chunks, reason : Finish(chunks, reason) => finished'
        BY <1>6 DEF Finish
      <3> QED BY <1>2, <1>6, <3>1, FinishWrites
    <2>4. ASSUME NoFrameMissed', AnswerIInv', finished' \/ subscribed'
          PROVE  FramesIInv' /\ AnswerIInv'
      BY <1>1, <1>2, <1>3, <2>4 DEF FramesIInv
    <2>5. CASE k = "accepted"
      <3>1. Wrote(0, 0, 0, 1) /\ UNCHANGED <<subscribed, finished, wroteTextDelta, answer, slicesLeft>>
        BY <1>2, <1>6, <2>2, <2>5 DEF Publish, Accepted
      <3>2. Notes' = due' /\ Texts' = Texts /\ SlicesOut' = SlicesOut /\ Stops' = Stops
        BY <1>3, <1>4, <2>1, <2>5, <3>1 DEF Wrote
      <3>3. NoFrameMissed'
        BY <3>2 DEF NoFrameMissed, Notes
      <3>4. StopShowsAnswerOnce'
        BY <3>1, <3>2 DEF AnsweredIInv, AnswerIInv, StopShowsAnswerOnce, Texts, SlicesOut, Stops
      <3>5. AnswerIInv'
        BY <1>3, <2>5, <3>1, <3>2, <3>4 DEF AnsweredIInv, AnswerIInv
      <3> QED BY <1>2, <1>6, <2>4, <3>1, <3>3, <3>5
    <2>6. CASE k \in {"event", "completed", "failed"}
      <3>1. k \in {"event", "completed"} => ~Published("completed") /\ answer = "none"
        BY <1>1, <2>6 DEF Publishable, AnsweredIInv, AnswerIInv
      <3>2. CASE k = "event"
        <4>1. Event(shows)
          BY <1>2, <1>6, <3>2 DEF Publish
        <4>2. /\ answer = "none" /\ answer' = "none" /\ slicesLeft' = slicesLeft
              /\ SlicesOut = 0 /\ Stops = 0 /\ ~(slicesLeft > 0)
          BY <1>6, <3>1, <3>2, <4>1 DEF Event, AnsweredIInv, AnswerIInv
        <4>3. \/ /\ shows /\ Wrote(1, 0, 0, 1) /\ wroteTextDelta' = TRUE
                 /\ UNCHANGED <<subscribed, finished>>
              \/ shows /\ Wrote(0, 0, 0, 1) /\ UNCHANGED <<subscribed, finished, wroteTextDelta>>
              \/ shows /\ Wrote(0, 0, 0, 0) /\ finished' /\ UNCHANGED wroteTextDelta
              \/ ~shows /\ Wrote(0, 0, 0, 0) /\ UNCHANGED <<subscribed, finished, wroteTextDelta>>
          BY <2>2, <2>3, <4>1 DEF Event
        <4>4. ~finished' => Notes' = due'
          BY <1>3, <1>4, <2>1, <3>2, <4>3 DEF Wrote
        <4>5. NoFrameMissed'
          BY <4>4 DEF NoFrameMissed, Notes
        <4>6. /\ SlicesOut' = 0 /\ Stops' = 0 /\ Texts' \in Nat
              /\ wroteTextDelta' <=> Texts' > 0
          <5>1. wroteTextDelta <=> Texts > 0
            BY <4>2 DEF AnsweredIInv, AnswerIInv
          <5> QED BY <1>4, <4>2, <4>3, <5>1 DEF Wrote
        <4>7. StopShowsAnswerOnce'
          BY <4>6 DEF StopShowsAnswerOnce, Texts, SlicesOut, Stops
        <4>8. AnswerIInv'
          BY <4>2, <4>6, <4>7 DEF AnswerIInv
        <4> QED BY <1>2, <1>6, <2>4, <4>3, <4>5, <4>8
      <3>3. CASE k = "completed"
        <4>1. PICK message \in {"empty", "short", "long"} : Completed(message)
          BY <1>2, <1>6, <3>3 DEF Publish
        <4>2. /\ answer = "none" /\ answer' = message
              /\ SlicesOut = 0 /\ Stops = 0
              /\ wroteTextDelta <=> Texts > 0
          BY <1>6, <3>1, <3>3, <4>1 DEF Completed, AnsweredIInv, AnswerIInv
        <4>3. due' = due
          BY <1>3, <3>3
        <4>4. CASE message = "empty" \/ wroteTextDelta
          <5>1. Wrote(0, 0, 1, 0) /\ finished' /\ UNCHANGED wroteTextDelta
            BY <2>3, <4>1, <4>4 DEF Completed
          <5>2. Texts' = Texts /\ SlicesOut' = 0 /\ Stops' = 1
            BY <1>4, <4>2, <5>1 DEF Wrote
          <5>3. answer' = "empty" \/ Texts' # 0
            BY <4>2, <4>4, <5>2
          <5>4. StopShowsAnswerOnce'
            BY <4>1, <4>2, <5>2, <5>3 DEF StopShowsAnswerOnce, Texts, SlicesOut, Stops
          <5>5. AnswerIInv'
            BY <1>3, <3>3, <4>1, <4>2, <5>1, <5>2, <5>4 DEF AnswerIInv
          <5> QED BY <2>4, <5>1, <5>5 DEF NoFrameMissed
        <4>5. CASE message # "empty" /\ ~wroteTextDelta
          <5>1. Texts = 0 /\ wroteTextDelta' = TRUE /\ EmitCompletion(message)
            BY <1>4, <4>1, <4>2, <4>5 DEF Completed, EmitCompletion
          <5>2. CASE message = "short"
            <6>1. Wrote(0, 1, 1, 0) /\ finished'
              BY <2>3, <5>1, <5>2 DEF EmitCompletion
            <6>2. Texts' = 0 /\ SlicesOut' = 1 /\ Stops' = 1
              BY <1>4, <4>2, <5>1, <6>1 DEF Wrote
            <6>3. StopShowsAnswerOnce'
              BY <4>2, <5>2, <6>2 DEF StopShowsAnswerOnce, Texts, SlicesOut, Stops
            <6>4. AnswerIInv'
              BY <1>3, <3>3, <4>2, <5>1, <5>2, <6>1, <6>2, <6>3 DEF AnswerIInv
            <6> QED BY <2>4, <6>1, <6>4 DEF NoFrameMissed
          <5>3. CASE message = "long"
            <6>1. /\ Wrote(0, 1, 0, 0) /\ UNCHANGED <<subscribed, finished>>
                  /\ slicesLeft' = Slices - 1
              BY <2>2, <5>1, <5>3 DEF EmitCompletion
            <6>2. Texts' = 0 /\ SlicesOut' = 1 /\ Stops' = 0 /\ Notes' = Notes
              BY <1>4, <4>2, <5>1, <6>1 DEF Wrote
            <6>3. StopShowsAnswerOnce'
              BY <6>2 DEF StopShowsAnswerOnce, Texts, SlicesOut, Stops
            <6>4. slicesLeft' > 0 /\ SlicesOut' = Slices - slicesLeft'
              BY <6>1, <6>2
            <6>5. AnswerIInv'
              BY <1>3, <3>3, <4>2, <5>1, <5>3, <6>2, <6>3, <6>4 DEF AnswerIInv
            <6>6. NoFrameMissed'
              BY <2>1, <4>3, <6>2 DEF NoFrameMissed, Notes
            <6> QED BY <1>2, <1>6, <2>4, <6>1, <6>5, <6>6
          <5> QED BY <4>1, <4>5, <5>2, <5>3
        <4> QED BY <4>4, <4>5
      <3>4. CASE k = "failed"
        <4>1. /\ Wrote(0, 0, 0, 0) /\ finished'
              /\ UNCHANGED <<wroteTextDelta, answer, slicesLeft>>
          BY <1>2, <1>6, <2>3, <3>4 DEF Publish, Failed
        <4>2. Texts' = Texts /\ SlicesOut' = SlicesOut /\ Stops' = Stops
          BY <1>4, <4>1 DEF Wrote
        <4>3. StopShowsAnswerOnce'
          BY <4>1, <4>2 DEF AnsweredIInv, AnswerIInv, StopShowsAnswerOnce, Texts, SlicesOut, Stops
        <4>4. AnswerIInv'
          BY <1>3, <3>4, <4>1, <4>2, <4>3 DEF AnsweredIInv, AnswerIInv
        <4> QED BY <2>4, <4>1, <4>4 DEF NoFrameMissed
      <3> QED BY <2>6, <3>2, <3>3, <3>4
    <2> QED BY <2>5, <2>6 DEF FrameKinds
  <1> QED BY <1>5, <1>6

\* A pause of a long answer ends: the next slice is written, the last with the
\* end.
LEMMA NextSliceAnswers ==
    ASSUME AnsweredIInv, NextSlice, ~finished
    PROVE  FramesIInv' /\ AnswerIInv'
  <1>1. /\ StreamTypeOK /\ slicesLeft > 0 /\ slicesLeft' = slicesLeft - 1
        /\ UNCHANGED <<frames, due, phase, dispatched, gone, opened, wroteTextDelta, answer>>
        /\ IF slicesLeft = 1 THEN Finish(<<"slice">>, "stop") ELSE Write(<<"slice">>)
    BY DEF NextSlice, AnsweredIInv, StreamIInv, control
  <1>2. /\ answer = "long" /\ Texts = 0 /\ SlicesOut = Slices - slicesLeft /\ Stops = 0
        /\ Published("completed") /\ wroteTextDelta
    BY <1>1 DEF AnsweredIInv, AnswerIInv
  <1>3. Texts \in Nat /\ SlicesOut \in Nat /\ Stops \in Nat /\ Notes \in Nat
    BY <1>1, CountsAreNumbers
  <1>4. slicesLeft \in 0 .. Slices
    BY <1>1 DEF StreamTypeOK
  <1>5. Published("completed")' /\ due' = due /\ Notes = due
    BY <1>1, <1>2, CountedProperties DEF Published, AnsweredIInv, FramesIInv
  <1>6. CASE slicesLeft = 1
    <2>1. Wrote(0, 1, 1, 0) /\ finished'
      BY <1>1, <1>6, FinishWrites DEF Finish
    <2>2. Texts' = 0 /\ SlicesOut' = Slices /\ Stops' = 1
      BY <1>2, <1>3, <1>6, <2>1 DEF Wrote
    <2>3. StopShowsAnswerOnce'
      BY <1>1, <1>2, <2>2 DEF StopShowsAnswerOnce, Texts, SlicesOut, Stops
    <2>4. AnswerIInv'
      BY <1>1, <1>2, <1>5, <2>1, <2>2, <2>3 DEF AnswerIInv
    <2> QED BY <1>1, <2>1, <2>4 DEF FramesIInv, AnsweredIInv, NoFrameMissed
  <1>7. CASE slicesLeft # 1
    <2>1. UNCHANGED <<finished, subscribed>> /\ out' = out \o <<"slice">>
      BY <1>1, <1>7 DEF Write
    <2>2. Wrote(0, 1, 0, 0)
      <3>1. "slice" \in Chunks
        BY DEF Chunks
      <3>2. Wrote(Weight("slice", {"text"}), Weight("slice", {"slice"}),
                  Weight("slice", {"stop"}), Weight("slice", {"note", "text"}))
        BY <1>1, <2>1, <3>1, OneChunk
      <3> QED BY <3>2 DEF Weight
    <2>3. /\ Texts' = 0 /\ SlicesOut' = Slices - slicesLeft' /\ Stops' = 0 /\ Notes' = Notes
          /\ slicesLeft' > 0 /\ SlicesOut' > 0
      BY <1>1, <1>2, <1>3, <1>4, <1>7, <2>2 DEF Wrote
    <2>4. StopShowsAnswerOnce'
      BY <2>3 DEF StopShowsAnswerOnce, Texts, SlicesOut, Stops
    <2>5. AnswerIInv'
      BY <1>1, <1>2, <1>5, <2>1, <2>3, <2>4 DEF AnswerIInv
    <2>6. NoFrameMissed'
      BY <1>5, <2>3 DEF NoFrameMissed, Notes
    <2> QED BY <1>1, <2>1, <2>5, <2>6 DEF FramesIInv, AnsweredIInv
  <1> QED BY <1>6, <1>7

\* Every step keeps it.
LEMMA AnsweredIInvStep == AnsweredIInv /\ [StreamNext]_streamVars => AnsweredIInv'
  <1> SUFFICES ASSUME AnsweredIInv, [StreamNext]_streamVars PROVE AnsweredIInv'
    OBVIOUS
  <1>1. /\ StreamTypeOK /\ StreamIInv /\ StreamIInv'
        /\ opened /\ ~finished => subscribed
        /\ finished => opened
        /\ dispatched = "sent" => opened
    BY StreamIInvStep DEF AnsweredIInv, StreamIInv, FramesIInv
  <1>2. out \in Seq(Chunks) /\ (UNCHANGED out => Wrote(0, 0, 0, 0))
    BY <1>1, CountsAreNumbers DEF StreamTypeOK
  <1>3. ASSUME NEW a \in {"role", "json", "ping"}, out' = out \o <<a>> \/ out' = Append(out, a)
        PROVE  Wrote(0, 0, 0, 0)
    <2>1. a \in Chunks
      BY DEF Chunks
    <2>2. Wrote(Weight(a, {"text"}), Weight(a, {"slice"}), Weight(a, {"stop"}),
                Weight(a, {"note", "text"}))
      BY <1>1, <1>3, <2>1, OneChunk
    <2> QED BY <2>2 DEF Weight
  <1>4. /\ Finish(<<>>, "error") => Wrote(0, 0, 0, 0) /\ finished'
        /\ ~finished /\ Finish(<<"role">>, "error") => Wrote(0, 0, 0, 0) /\ finished'
    <2>1. CASE finished
      BY <1>1, <1>2, <2>1, FinishFinished
    <2>2. CASE ~finished
      <3>1. \A chunks, reason : Finish(chunks, reason) => finished'
        BY <2>2 DEF Finish
      <3> QED BY <1>1, <2>2, <3>1, FinishWrites
    <2> QED BY <2>1, <2>2
  <1> DEFINE Quiet == /\ Wrote(0, 0, 0, 0)
                      /\ UNCHANGED <<frames, due, wroteTextDelta, answer>>
                      /\ finished => finished'
                      /\ finished' \/ UNCHANGED slicesLeft
                      /\ opened' /\ ~finished' => subscribed'
                      /\ dispatched' # "sent" => dispatched # "sent"
  <1>5. Quiet => FramesIInv' /\ AnswerIInv'
    BY QuietStep
  <1>6. CASE PrepareFails
    <2>1. Quiet
      BY <1>1, <1>3, <1>6 DEF PrepareFails
    <2> QED BY <1>1, <1>5, <2>1 DEF AnsweredIInv
  <1>7. CASE DispatchToHost
    <2>1. phase = "preparing" /\ ~opened /\ dispatched = "no"
      BY <1>1, <1>7 DEF DispatchToHost, StreamIInv
    <2>2. Quiet
      BY <1>1, <1>3, <1>7, <2>1 DEF DispatchToHost, OpenStream
    <2> QED BY <1>1, <1>5, <2>2 DEF AnsweredIInv
  <1>8. CASE DispatchWithoutHost
    <2>1. Quiet
      BY <1>1, <1>2, <1>8 DEF DispatchWithoutHost, stream
    <2> QED BY <1>1, <1>5, <2>1 DEF AnsweredIInv
  <1>9. CASE MarkedPending
    <2>1. UNCHANGED <<frames, due, dispatched, wroteTextDelta, answer, slicesLeft>>
      BY <1>9 DEF MarkedPending
    <2>2. Wrote(0, 0, 0, 0) /\ finished'
      BY <1>1, <1>4, <1>9 DEF MarkedPending
    <2> QED BY <1>1, <1>5, <2>1, <2>2 DEF AnsweredIInv
  <1>10. CASE MarkingFails
    <2>1. UNCHANGED <<frames, due, dispatched, opened, wroteTextDelta, answer, slicesLeft>>
      BY <1>10 DEF MarkingFails
    <2>2. CASE opened
      <3>1. Wrote(0, 0, 0, 0) /\ finished'
        BY <1>4, <1>10, <2>2 DEF MarkingFails
      <3> QED BY <1>1, <1>5, <2>1, <3>1 DEF AnsweredIInv
    <2>3. CASE ~opened
      <3>1. out' = out \o <<"json">> /\ UNCHANGED <<subscribed, finished>>
        BY <1>10, <2>3 DEF MarkingFails, Write
      <3>2. Wrote(0, 0, 0, 0)
        BY <1>3, <3>1
      <3> QED BY <1>1, <1>5, <2>1, <2>3, <3>1, <3>2 DEF AnsweredIInv
    <2> QED BY <2>2, <2>3
  <1>11. CASE FlushQueued
    <2>1. /\ UNCHANGED <<frames, due, opened, subscribed, finished, wroteTextDelta, answer,
                         slicesLeft, out>>
          /\ dispatched' = "sent"
      BY <1>11 DEF FlushQueued, stream
    <2> QED BY <1>1, <1>2, <1>5, <2>1 DEF AnsweredIInv
  <1>12. ASSUME NEW k \in FrameKinds, NEW shows \in BOOLEAN, Publish(k, shows)
         PROVE  AnsweredIInv'
    BY <1>1, <1>12, PublishAnswers DEF AnsweredIInv
  <1>13. CASE NextSlice
    <2>1. CASE finished
      <3>1. /\ UNCHANGED <<frames, due, dispatched, opened, wroteTextDelta, answer>>
            /\ out' = out \o <<>> /\ UNCHANGED <<subscribed, finished>>
        BY <1>13, <2>1 DEF NextSlice, Write, control
      <3>2. Wrote(0, 0, 0, 0)
        BY <1>2, <3>1, ConcatEmptySeq
      <3> QED BY <1>1, <1>5, <2>1, <3>1, <3>2 DEF AnsweredIInv
    <2>2. CASE ~finished
      BY <1>1, <1>13, <2>2, NextSliceAnswers DEF AnsweredIInv
    <2> QED BY <2>1, <2>2
  <1>14. CASE Ping
    <2>1. /\ UNCHANGED <<frames, due, dispatched, opened, subscribed, finished, wroteTextDelta,
                         answer, slicesLeft>>
          /\ out' = Append(out, "ping")
      BY <1>14 DEF Ping, control
    <2>2. Wrote(0, 0, 0, 0)
      BY <1>3, <2>1
    <2> QED BY <1>1, <1>5, <2>1, <2>2 DEF AnsweredIInv
  <1>15. CASE ClientClose
    <2>1. /\ UNCHANGED <<frames, due, dispatched, opened, wroteTextDelta, answer, slicesLeft, out>>
          /\ finished' = TRUE \/ UNCHANGED <<subscribed, finished>>
      BY <1>15 DEF ClientClose
    <2> QED BY <1>1, <1>2, <1>5, <2>1 DEF AnsweredIInv
  <1>16. CASE UNCHANGED streamVars
    <2>1. UNCHANGED <<frames, due, dispatched, opened, subscribed, finished, wroteTextDelta,
                      answer, slicesLeft, out>>
      BY <1>16 DEF streamVars, control, stream
    <2> QED BY <1>1, <1>2, <1>5, <2>1 DEF AnsweredIInv
  <1> QED
    BY <1>6, <1>7, <1>8, <1>9, <1>10, <1>11, <1>12, <1>13, <1>14, <1>15, <1>16
    DEF StreamNext, FrameKinds

-----------------------------------------------------------------------------
(* The theorems.                                                           *)

\* Hence it holds throughout.
LEMMA StreamIInvAlways == StreamSpec => []StreamIInv
  BY StreamIInvInit, StreamIInvStep, PTL DEF StreamSpec

LEMMA AnsweredIInvAlways == StreamSpec => []AnsweredIInv
  BY AnsweredIInvInit, AnsweredIInvStep, PTL DEF StreamSpec

\* Every variable of a stream keeps its type: in particular the loop over the
\* slices of a long answer never runs past its end.
THEOREM StreamTypeCorrect == StreamSpec => []StreamTypeOK
  <1>1. StreamIInv => StreamTypeOK
    BY DEF StreamIInv
  <1> QED BY <1>1, StreamIInvAlways, PTL

\* Whatever frames the run publishes and whenever the client goes, `[DONE]' is
\* written once and is the last thing written.
THEOREM StreamEndsOnce == StreamSpec => []DoneIsLast
  <1>1. StreamIInv => DoneIsLast
    BY DEF StreamIInv, EndsLast, DoneIsLast, Endings
  <1> QED BY <1>1, StreamIInvAlways, PTL

\* A finished stream leaks neither its listener nor its timer.
THEOREM FinishedStreamIsReleased == StreamSpec => []FinishedIsReleased
  <1>1. StreamIInv => FinishedIsReleased
    BY DEF StreamIInv, FinishedIsReleased
  <1> QED BY <1>1, StreamIInvAlways, PTL

\* While the stream is open it has shown every published frame that makes a
\* text or a comment, and it has not passed over an event of error: none was
\* published before the subscription, whether the run's frame was sent at once
\* or flushed later.
THEOREM OpenStreamMissesNoFrame == StreamSpec => []NoFrameMissed
  <1>1. AnsweredIInv => NoFrameMissed
    BY DEF AnsweredIInv, FramesIInv
  <1> QED BY <1>1, AnsweredIInvAlways, PTL

\* A stream that ends with `stop' has shown its answer, whole and once, as
\* streamed text or in slices, wherever the client, a late failure or a second
\* ending cuts in.
THEOREM StopShowsTheAnswer == StreamSpec => []StopShowsAnswerOnce
  <1>1. AnsweredIInv => StopShowsAnswerOnce
    BY DEF AnsweredIInv, AnswerIInv
  <1> QED BY <1>1, AnsweredIInvAlways, PTL
=============================================================================
