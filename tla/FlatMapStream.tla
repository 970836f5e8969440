---------------------------- MODULE FlatMapStream ----------------------------
(***************************************************************************)
(* class FlatMapStream of reactive/reactive_impl.inc: every value of the base *)
(* stream, source 1, is replaced by the elements of a stream made for it, the *)
(* continuation, source 2 for the first value, 3 for the second, and so on.   *)
(* The base owns the FlatMapStream, whose destructor cancels the active       *)
(* continuation.                                                              *)
(*                                                                            *)
(* Frame: "Terminate"  the error was delivered, the base is cancelled next    *)
(*                     (line 1280)                                            *)
(***************************************************************************)
EXTENDS Pipeline

VARIABLES cont,           \* source of cont_subscription_; 0: not set
          contRequested,  \* cont_requested_
          conts           \* number of continuations made so far

flatMapVars == <<cont, contRequested, conts>>

FlatMapInit == cont = 0 /\ contRequested = 0 /\ conts = 0

\* Mutant: the destructor leaves the continuation alone.
AbandonsContinuation == {}

\* The destructor, lines 1180-1185: what is deleted along with the base.
ActiveContinuation == {g \in {cont} \ {0} : Alive(g)}

-----------------------------------------------------------------------------

\* FlatMapPublisherImpl::Subscribe, lines 1323-1329.
FlatMapSubscribe == /\ DoSubscribe(1, <<>>)
                    /\ UNCHANGED <<granted, delivered, fault, balance, lock, open,
                                   userVars, flatMapVars>>

\* OnSubscribe, lines 1246-1249.
FlatMapOnSubscribe == /\ IsTop("OnSubscribe")
                      /\ Top.gen = 1
                      /\ ConfirmSubscription(Tail(stack))
                      /\ UNCHANGED <<sourceVars, fault, balance, lock, userVars,
                                     flatMapVars>>

\* Mutant: a continuation is asked for the whole balance each time.
DeltaWhole(b, requestedOfIt) == b

\* Line 1195: what the continuation g has not been asked for yet.
Delta(b, requestedOfIt) == b - requestedOfIt

\* Lines 1193-1204: the balance b goes to continuation g, of which reqs were
\* requested so far, or else the base is asked for one element.
Forward(g, b, reqs, rest) ==
  IF g = 0
    THEN /\ fault' = ~Alive(1)
         /\ contRequested' = reqs
         /\ RequestUp(1, 1, rest)
    ELSE IF Delta(b, reqs) > 0
           THEN /\ fault' = ~Alive(g)
                /\ contRequested' = AddTo(reqs, Delta(b, reqs))
                /\ RequestUp(g, Delta(b, reqs), rest)
           ELSE /\ contRequested' = reqs
                /\ stack' = rest
                /\ UNCHANGED <<sourceVars, fault>>

\* Request, lines 1191-1205, returning to rest.
FlatMapRequest(n, rest) == /\ balance' = AddTo(balance, n)
                           /\ Forward(cont, balance', contRequested, rest)
                           /\ UNCHANGED <<lock, cont, conts>>

\* Cancel, line 1189: the base goes away and takes this stream along.
FlatMapCancel(rest) ==
  /\ fault' = ~Alive(1)
  /\ phase' = Deleted({1} \cup ActiveContinuation)
  /\ stack' = rest
  /\ UNCHANGED <<requested, generating, yielded, granted, delivered, awaited,
                 balance, lock, flatMapVars>>

\* The end of the base, lines 1210-1214.
FlatMapBaseEnds == /\ IsTop("OnNext") /\ Top.gen = 1
                   /\ Base!IsEnd(Top.ev)
                   /\ SendDown(1, Top.ev, Tail(stack))
                   /\ UNCHANGED <<sourceVars, fault, balance, lock, open, flatMapVars>>

\* A value of the base, lines 1215-1244: its continuation is subscribed to. If
\* one is active the stream fails.
FlatMapBaseValue ==
  /\ IsTop("OnNext") /\ Top.gen = 1
  /\ ~Base!IsEnd(Top.ev)
  /\ IF cont # 0
       THEN /\ SendDown(1, "error", Call("Terminate", 0, "none", Tail(stack)))
            /\ UNCHANGED <<sourceVars, conts>>
       ELSE /\ conts' = conts + 1
            /\ DoSubscribe(conts + 2, Tail(stack))
            /\ UNCHANGED <<granted, delivered, userVars>>
  /\ UNCHANGED <<fault, balance, lock, open, cont, contRequested>>

\* OnSubscribe of a continuation, lines 1230-1239.
FlatMapContSubscribed ==
  /\ IsTop("OnSubscribe") /\ Top.gen # 1
  /\ cont' = Top.gen
  /\ IF HasRequests(balance)
       THEN Forward(Top.gen, balance, 0, Tail(stack))
       ELSE /\ contRequested' = 0
            /\ stack' = Tail(stack)
            /\ UNCHANGED <<sourceVars, fault>>
  /\ UNCHANGED <<balance, lock, open, userVars, conts>>

\* OnNextCont with a value, lines 1254-1258.
FlatMapValue ==
  /\ IsTop("OnNext") /\ Top.gen # 1
  /\ Top.ev = "value"
  /\ fault' = ~(Alive(1) /\ CanRemove(balance, 1) /\ CanRemove(contRequested, 1))
  /\ balance' = RemoveFrom(balance, 1)
  /\ contRequested' = RemoveFrom(contRequested, 1)
  /\ SendDown(Top.gen, "value", Tail(stack))
  /\ UNCHANGED <<sourceVars, lock, open, cont, conts>>

\* OnNextCont with Done, lines 1260-1269: on to the next element of the base.
FlatMapContDone ==
  /\ IsTop("OnNext") /\ Top.gen # 1
  /\ Top.ev = "done"
  /\ cont' = 0
  /\ IF HasRequests(balance)
       THEN Forward(0, balance, contRequested, Tail(stack))
       ELSE /\ stack' = Tail(stack)
            /\ UNCHANGED <<sourceVars, fault, contRequested>>
  /\ UNCHANGED <<balance, lock, open, userVars, conts>>

\* OnNextCont with an error, lines 1270-1274.
FlatMapContFails ==
  /\ IsTop("OnNext") /\ Top.gen # 1
  /\ Top.ev = "error"
  /\ SendDown(Top.gen, "error", Call("Terminate", 0, "none", Tail(stack)))
  /\ UNCHANGED <<sourceVars, fault, balance, lock, open, flatMapVars>>

\* Terminate after Send, line 1280.
FlatMapTerminate == /\ IsTop("Terminate")
                    /\ FlatMapCancel(Tail(stack))
                    /\ UNCHANGED <<open, userVars>>

FlatMapStep ==
  \/ FlatMapOnSubscribe \/ FlatMapContSubscribed
  \/ FlatMapBaseEnds \/ FlatMapBaseValue
  \/ FlatMapValue \/ FlatMapContDone \/ FlatMapContFails
  \/ FlatMapTerminate
  \/ /\ SourceReturns(IF stack # <<>> /\ Top.gen = 1 THEN ActiveContinuation ELSE {})
     /\ UNCHANGED <<balance, lock, open, userVars, flatMapVars>>

-----------------------------------------------------------------------------
(* Properties.                                                               *)

\* "whenever it is deleted, we ensure that cont_subscription_.has_ended()"
\* (line 1224): no continuation outlives the stream that its handler captured.
\* "we can only have one of those at a time by properties of strict flow
\* control" (line 1311): no two continuations run, not counting one whose end is
\* being handled, and no value of the base meets an active one (line 1215).
ContinuationOwned == kind = "flatmap" =>
  /\ \A g \in Sources \ {1} : Running(g) => Alive(1)
  /\ Cardinality({g \in Sources \ {1} : Running(g)}) <= 1
  /\ (IsTop("OnNext") /\ Top.gen = 1 /\ Top.ev = "value") => cont = 0

\* The continuation has been asked for exactly what the subscriber is owed.
BalanceForwarded ==
  (kind = "flatmap" /\ cont # 0 /\ Alive(cont) /\ ~ended /\ ~IsTop("OnNext"))
     => balance = contRequested /\ contRequested = requested[cont]

=============================================================================
