------------------------------- MODULE Status -------------------------------
(***************************************************************************)
(* StatusOr and the macros of base/monitoring.h, pure. A StatusOr is a code    *)
(* and, if and only if the code is OK, a value. Messages, and the place a      *)
(* status was made at, are left out.                                          *)
(***************************************************************************)

CONSTANT NoValue

\* StatusOr from a value.
Ok(v) == [code |-> "OK", value |-> v]

\* RX_STATUS(code), converted to a StatusOr; the code is not OK.
Failed(code) == [code |-> code, value |-> NoValue]

\* ok().
IsOk(r) == r.code = "OK"

\* RX_RETURN_IF_ERROR(status), followed by a return of r.
ReturnIfError(status, r) == IF status # "OK" THEN Failed(status) ELSE r

=============================================================================
