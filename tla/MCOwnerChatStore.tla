-------------------------- MODULE MCOwnerChatStore --------------------------
(* Instances of OwnerChatStore for TLC. *)
EXTENDS OwnerChatStore

CONSTANTS c1, c2, c3, x1

SendSeqMC == <<c1, c2, c3>>

DeltasMC == [r \in Runs |-> IF r = c3 THEN 2 ELSE 1]

\* Two sends of the page that overlap, or a send and a run of another page.
ScenariosMC == {{c1, c2}, {c3, x1}}
===========================================================================
