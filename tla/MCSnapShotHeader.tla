-------------------------- MODULE MCSnapShotHeader --------------------------
(***************************************************************************)
(* Instances of SnapShotHeader for the GC-cause lengths of interest.       *)
(***************************************************************************)
EXTENDS SnapShotHeader

CONSTANTS garbage, unset

\* Causes that fit the buffer ("Allocation Failure" is 18); 80 leaves only
\* the NUL outside it.
FittingLens  == {1, 18, 79, 80}
\* Longer than the buffer: up to 119 the spill stays in fields setJvmInfo
\* assigns afterwards; 120 is the first length to reach totalHeapSize.
OverrunLens  == {100, 119, 120}
\* An empty cause string while the cause is GC.
EmptyLens    == {0}
MCVals       == {1}

=============================================================================
