-------------------------- MODULE MCChainingStream --------------------------
(* Instances of ChainingStream for TLC.                                     *)
EXTENDS ChainingStream

=============================================================================
