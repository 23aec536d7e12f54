---------------------------- MODULE MCVisitorChat ----------------------------
(* Instances of VisitorChat for TLC. *)
EXTENDS VisitorChat

CONSTANTS g1, g2, v1, v2, v3, a1, t1, t2, q1, id1, f1, f2, m1, s1

\* Two runtimes of one agent; a visitor with two connections of its session,
\* and another visitor of the same QR code.
AgentOfMC == [c \in {g1, g2} |-> a1]
TokenOfMC == [c \in {v1, v2, v3} |-> IF c = v3 THEN t2 ELSE t1]
QrOfMC == [c \in {v1, v2, v3} |-> q1]
ServedByMC == [q \in {q1} |-> a1]

\* f2 is the retry of f1.
IdOfMC == [f \in Frames |-> id1]
OnMC == [f \in Frames \cup Replies \cup Streams |-> IF f \in Frames THEN v1 ELSE g1]
ToMC == [m \in Replies \cup Streams |-> t1]

\* A behaviour is about the connections alone, about a message and its retry
\* while runtimes replace one another, or about replies while visitors come
\* and go: together they are too many for one instance.
ScenariosMC == {{g1, g2, v1, v2, v3}, {g1, g2, v1, f1, f2}, {g1, v1, v2, v3, m1},
                {g1, v1, v2, s1}}
===========================================================================
