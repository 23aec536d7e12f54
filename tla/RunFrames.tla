----------------------------- MODULE RunFrames -----------------------------
(***************************************************************************)
(* What the host router promises about the frames it publishes for a run   *)
(* (publishRunFrame in gateway/src/ws/host-router.ts) when the host sends  *)
(* one `accepted' and one last frame per run: one `accepted' at most, at   *)
(* any time, since it is published only after its row is written; one end  *)
(* at most; and no event after `completed'.  After `failed', whose         *)
(* sequence number is not checked, a late event can come.  A run may also  *)
(* fall silent: a failure the gateway itself finds is not published.       *)
(*                                                                         *)
(* OwnerRun implements this (PublishedAsPromised) and RunStream relies on  *)
(* it.                                                                     *)
(***************************************************************************)
EXTENDS Naturals, Sequences

VARIABLE frames   \* the kinds of the frames published for the run, in order

Published(k) == \E i \in 1 .. Len(frames) : frames[i] = k

FramesInit == frames = <<>>

\* What may be published next.
Publishable(k) ==
    \/ k = "accepted" /\ ~Published("accepted")
    \/ k = "event" /\ ~Published("completed")
    \/ k \in {"completed", "failed"} /\ ~Published("completed") /\ ~Published("failed")

PublishFrame(k) == Publishable(k) /\ frames' = Append(frames, k)

FramesNext == \E k \in {"accepted", "event", "completed", "failed"} : PublishFrame(k)

FramesSpec == FramesInit /\ [][FramesNext]_frames

=============================================================================
