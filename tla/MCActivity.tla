---------------------------- MODULE MCActivity ----------------------------
(* Instances of Activity for TLC. *)
EXTENDS Activity, TLC

MCSymmetry == Permutations(Threads) \cup Permutations(Activities)

=============================================================================
