--------------------------- MODULE MCClassRegistry ---------------------------
(***************************************************************************)
(* Small instances of ClassRegistry for TLC: two walker threads racing to  *)
(* install one class, three addresses so that a class can be moved while   *)
(* another sits unloaded, and enough events for a load, a lookup, an      *)
(* unload, a move and a commit in one behaviour.                           *)
(***************************************************************************)
EXTENDS ClassRegistry, TLC

CONSTANTS w1, w2, p1, p2, p3

MCThreads == {w1, w2}
MCPtrs    == {p1, p2, p3}

\* Walkers and addresses are interchangeable.
MCSymmetry == Permutations(MCThreads) \cup Permutations(MCPtrs)
=============================================================================
