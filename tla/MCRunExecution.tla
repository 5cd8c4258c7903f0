---------------------------- MODULE MCRunExecution ----------------------------
(* Small instances of RunExecution: one read followed by one write that      *)
(* depends on it, or a single write.                                          *)
EXTENDS RunExecution, TLC

NoSteps == {}
First1  == {1}
Second  == {2}
Chain   == (1 :> {}) @@ (2 :> {1})
Alone   == (1 :> {})

Symmetric == Permutations(Workers) \cup Permutations(Clients)
===============================================================================
