----------------------------- MODULE MCAgentPlugin -----------------------------
(* A small account for TLC: connections alone, and messages over two of them. *)
EXTENDS AgentPlugin

CONSTANTS w1, w2, w3, m1, m2, m3

ScenariosMC == {{w1, w2, w3}, {w1, w2, m1, m2, m3}}

(* Nothing tells the messages of visitors apart. *)
SymmetryMC == Permutations({m1, m2})
=============================================================================
