------------------------- MODULE PrefetchingStream -------------------------
(***************************************************************************)
(* class PrefetchingStream of reactive/reactive_impl.inc: a buffer that is    *)
(* filled from the base ahead of the requests of the subscriber. It outlives  *)
(* the base, which may end while its events are still in the buffer.          *)
(*                                                                            *)
(* Frames: "Fill"       OnSubscribe calls MaybeFill next (line 527)           *)
(*         "Deliver"    MaybeDeliver is at its loop condition (line 572)      *)
(*         "Delivered"  subscriber_->OnNext(ev) returned (line 577)           *)
(***************************************************************************)
EXTENDS Pipeline

CONSTANTS BufferSize,  \* buffer_size_
          RefillMark   \* the integer part of buffer_size_ * refill_mark_

ASSUME PrefetchAssumption == /\ BufferSize \in Nat \ {0}
                             /\ RefillMark \in 0 .. BufferSize

VARIABLES buffer,       \* buffer_
          outstanding,  \* upstream_request_balance_
          delivering    \* delivering

prefetchVars == <<buffer, outstanding, delivering>>

PrefetchInit == /\ buffer = <<>>
                /\ outstanding = 0
                /\ delivering = FALSE

-----------------------------------------------------------------------------

\* PrefetchingPublisher::Subscribe, lines 636-647.
PrefetchSubscribe == /\ lock' = TRUE
                     /\ DoSubscribe(1, <<>>)
                     /\ UNCHANGED <<granted, delivered, fault, balance, open,
                                    userVars, prefetchVars>>

\* OnSubscribe, lines 523-528.
PrefetchOnSubscribe == /\ IsTop("OnSubscribe")
                       /\ ConfirmSubscription(Call("Fill", 1, "none", Tail(stack)))
                       /\ UNCHANGED <<sourceVars, fault, balance, lock, userVars,
                                      prefetchVars>>

\* Mutant: elements under way are forgotten.
ToRequestAll == BufferSize - Len(buffer)

\* Line 609: what is missing and not under way yet.
ToRequest == BufferSize - Len(buffer) - outstanding

\* Lines 594-608: the base is alive, the buffer has come down to the mark, and
\* something is missing.
NeedsFill == /\ Alive(1)
             /\ Len(buffer) <= RefillMark
             /\ ToRequest > 0

\* MaybeFill, lines 592-612, returning to rest.
MaybeFill(rest) ==
  IF NeedsFill
    THEN /\ outstanding' = AddTo(outstanding, ToRequest)
         /\ RequestUp(1, ToRequest, rest)
    ELSE /\ stack' = rest
         /\ UNCHANGED <<sourceVars, outstanding>>

PrefetchFill == /\ IsTop("Fill")
                /\ MaybeFill(Tail(stack))
                /\ UNCHANGED <<fault, balance, lock, open, userVars, buffer,
                               delivering>>

\* MaybeDeliver up to the loop, lines 565-571: no recursion.
MaybeDeliver(rest) ==
  /\ stack' = IF delivering THEN rest ELSE Call("Deliver", 0, "none", rest)
  /\ delivering' = TRUE

\* OnNext, lines 530-543: an event that does not fit makes the last one an error.
PrefetchOnNext ==
  /\ IsTop("OnNext")
  /\ IF Len(buffer) >= BufferSize
       THEN /\ buffer' = [buffer EXCEPT ![Len(buffer)] = "error"]
            /\ UNCHANGED <<fault, outstanding>>
       ELSE /\ fault' = ~CanRemove(outstanding, 1)
            /\ outstanding' = RemoveFrom(outstanding, 1)
            /\ buffer' = Append(buffer, Top.ev)
  /\ MaybeDeliver(Tail(stack))
  /\ UNCHANGED <<sourceVars, balance, lock, open, userVars>>

\* The loop condition, line 572.
HasDelivery == HasRequests(balance) /\ buffer # <<>>

\* The loop, lines 572-577, and its end, line 589.
PrefetchDeliver ==
  /\ IsTop("Deliver")
  /\ fault' = ~SharedAlive
  /\ IF HasDelivery
       THEN /\ balance' = RemoveFrom(balance, 1)
            /\ buffer' = Tail(buffer)
            /\ SendDown(1, Head(buffer),
                        Call("Delivered", 1, Head(buffer), Tail(stack)))
            /\ UNCHANGED delivering
       ELSE /\ delivering' = FALSE
            /\ stack' = Tail(stack)
            /\ UNCHANGED <<balance, buffer, userVars>>
  /\ UNCHANGED <<sourceVars, lock, open, outstanding>>

\* Mutant: the buffer is refilled at the end only.
RefillNever(rest) == /\ stack' = rest
                     /\ UNCHANGED <<sourceVars, outstanding>>

\* Line 584.
Refill(rest) == MaybeFill(rest)

\* Lines 578-587: after the end the stream lets go of itself, else it refills.
PrefetchDelivered ==
  /\ IsTop("Delivered")
  /\ fault' = ~SharedAlive
  /\ IF Base!IsEnd(Top.ev)
       THEN /\ delivering' = FALSE
            /\ lock' = FALSE
            /\ stack' = Tail(stack)
            /\ UNCHANGED <<sourceVars, outstanding>>
       ELSE /\ Refill(Call("Deliver", 0, "none", Tail(stack)))
            /\ UNCHANGED <<delivering, lock>>
  /\ UNCHANGED <<balance, open, userVars, buffer>>

\* Request, lines 552-556, returning to rest.
PrefetchRequest(n, rest) ==
  /\ balance' = AddTo(balance, n)
  /\ MaybeDeliver(rest)
  /\ UNCHANGED <<sourceVars, fault, lock, buffer, outstanding>>

\* Cancel, lines 547-550. The check in Subscription::Cancel fails when the base
\* has ended; the lock stays.
PrefetchCancel(rest) ==
  /\ fault' = ~Alive(1)
  /\ phase' = Deleted({1})
  /\ stack' = rest
  /\ UNCHANGED <<requested, generating, yielded, granted, delivered, awaited,
                 balance, lock, prefetchVars>>

PrefetchStep ==
  \/ PrefetchOnSubscribe \/ PrefetchFill \/ PrefetchOnNext
  \/ PrefetchDeliver \/ PrefetchDelivered
  \/ SourceReturns({}) /\ UNCHANGED <<balance, lock, open, userVars, prefetchVars>>

-----------------------------------------------------------------------------
(* Properties.                                                               *)

\* Elements in the buffer and under way fit into the buffer, so that the branch
\* that drops the last element (line 531) is not taken: a value of the base is in
\* the buffer, on its way, or was delivered, once, and the end of the base is
\* delivered after all of its values.
PrefetchConserves == kind = "prefetch" =>
  /\ Len(buffer) + outstanding <= BufferSize
  /\ yielded[1] = taken[1] + Calls("OnNext", 1, "value")
                  + Cardinality({i \in DOMAIN buffer : buffer[i] = "value"})
  /\ ended => taken[1] = yielded[1]

=============================================================================
