--------------------------- MODULE RequestBalance ---------------------------
(***************************************************************************)
(* class RequestBalance (reactive/reactive.h and reactive.cc): the flow       *)
(* control counter of every stream. A size_t whose greatest value kMax means  *)
(* "infinite": it absorbs additions and is not diminished by removals.        *)
(***************************************************************************)
EXTENDS Integers

CONSTANT KMax  \* kMax: the greatest size_t; small here

ASSUME KMaxAssumption == KMax \in Nat /\ KMax >= 1

\* The values of balance_, and of any size_t.
Balance == 0 .. KMax

\* The conversion of an int to size_t (as in Add(diff) with diff = -1).
SizeT(n) == n % (KMax + 1)

\* HasRequests; mutant: >= for >.
HasRequestsAtZero(b) == b >= 0
HasRequests(b) == b > 0

\* Add.
AddTo(b, count) == IF KMax - b < count THEN KMax ELSE b + count

\* The RX_CHECK of Remove: "negative request balance".
CanRemove(b, count) == b = KMax \/ b >= count

\* Remove, when its RX_CHECK passes.
RemoveFrom(b, count) == IF b = KMax THEN b ELSE b - count

=============================================================================
