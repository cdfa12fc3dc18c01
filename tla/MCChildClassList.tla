-------------------------- MODULE MCChildClassList --------------------------
(***************************************************************************)
(* Small instances of ChildClassList for TLC: two walker threads, two      *)
(* child classes, one more allocation than classes so that a duplicate    *)
(* node can be made, and enough lookups per thread for a node to be hit    *)
(* twice and promoted.                                                     *)
(***************************************************************************)
EXTENDS ChildClassList

CONSTANTS t1, t2, c1, c2, c3

MCThreads     == {t1, t2}
MCClasses2    == {c1, c2}
MCClasses3    == {c1, c2, c3}
=============================================================================
