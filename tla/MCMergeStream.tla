---------------------------- MODULE MCMergeStream ----------------------------
(* Instances of MergeStream for TLC.                                        *)
EXTENDS MergeStream

==============================================================================
