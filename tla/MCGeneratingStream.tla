------------------------- MODULE MCGeneratingStream -------------------------
(* Instances of GeneratingStream for TLC.                                   *)
EXTENDS GeneratingStream

=============================================================================
