--------------------------- MODULE MCAsyncStream ---------------------------
(* Instances of AsyncStream for TLC. *)
EXTENDS AsyncStream

=============================================================================
