---------------------------- MODULE MCThreadPool ----------------------------
(* Instances of ThreadPool for TLC.                                         *)
EXTENDS ThreadPool

CONSTANTS k1, k2

\* k1 blocks until k2 is done, as in the test ThreadsAreUtilized.
OneBlocks == [k \in Tasks |-> IF k = k1 THEN {k2} ELSE {}]

=============================================================================
