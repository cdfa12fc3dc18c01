---------------------------- MODULE MCCounterMap ----------------------------
(***************************************************************************)
(* Small instances of CounterMap: two walker threads, two classes.         *)
(***************************************************************************)
EXTENDS CounterMap

CONSTANTS w1, w2, k1, k2

MCThreads == {w1, w2}
MCClasses == {k1, k2}
MCClass1  == {k1}
BothOps   == {"inc", "add"}
AddOnly   == {"add"}

=============================================================================
