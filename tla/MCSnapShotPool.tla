--------------------------- MODULE MCSnapShotPool ---------------------------
(***************************************************************************)
(* SnapShotPool for TLC with MAX_STOCK_COUNT = 2 as in the code.  Three    *)
(* snapshot threads let all three pass the size check of releaseInstance  *)
(* together; five containers let the stock go one past the overfill      *)
(* bound when the size check is off by one.                                *)
(***************************************************************************)
EXTENDS SnapShotPool, TLC

CONSTANTS p1, p2, p3

MCThreads2 == {p1, p2}
MCThreads3 == {p1, p2, p3}

\* The snapshot threads are interchangeable.
PoolSymmetry == Permutations(MCThreads3)
=============================================================================
