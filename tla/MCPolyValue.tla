---------------------------- MODULE MCPolyValue ----------------------------
(* Instances of PolyValue for TLC. *)
EXTENDS PolyValue

CONSTANTS int, uniqueInt, sharedInt, uniqueMsg, sharedUniqueMsg, sharedMsg, otherMsg,
          blob, sharedBlob

\* shared_ptr of the types that can be moved only.
MCPointerTo == [T \in {uniqueInt, uniqueMsg, blob} |->
                  CASE T = uniqueInt -> sharedInt
                    [] T = uniqueMsg -> sharedUniqueMsg
                    [] T = blob      -> sharedBlob]

=============================================================================
