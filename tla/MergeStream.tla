----------------------------- MODULE MergeStream -----------------------------
(***************************************************************************)
(* class MergeStream of reactive/reactive_impl.inc, with its                  *)
(* MergeUpstreamSubscribers: one element of look-ahead per upstream, and a    *)
(* loop (MaybeDeliver) that takes the elements round robin while downstream   *)
(* has requests and available_balance_ says that there are elements.          *)
(*                                                                            *)
(* The upstreams are generating streams 1 .. N. Those in Deferred answer a    *)
(* Request later, when no other code executes, as a stream behind Async on    *)
(* one worker does.                                                           *)
(*                                                                            *)
(* Frames beside those of GeneratingStream, whose OnSubscribe and OnNext are  *)
(* now those of the MergeUpstreamSubscriber:                                  *)
(*   "Create"     the upstream subscriber gen is created next (line 788/830)  *)
(*   "Deliver"    MaybeDeliver is at its loop condition (line 875)            *)
(*   "Consumed"   ConsumeNext of upstream gen returned ev (line 884)          *)
(*   "CancelAll"  the error ev was delivered, Cancel() is next (line 898)     *)
(*   "Finish"     Done was delivered, the self lock is dropped (line 911)     *)
(*   "UserOnSubscribe", "UserOnNext"  the final subscriber executes           *)
(***************************************************************************)
EXTENDS RequestBalance, Sequences, FiniteSets

CONSTANTS N,            \* the number of upstreams
          Deferred,     \* upstreams that answer requests later
          UserCancel,   \* where the user may cancel: "never", "outside" of
                        \* OnNext, or "anywhere"
          Counts, Ends, MaxElems, MaxGrant  \* see GeneratingStream

Upstreams == 1 .. N

ASSUME MergeAssumption == /\ N \in Nat \ {0}
                          /\ Deferred \subseteq Upstreams
                          /\ UserCancel \in {"never", "outside", "anywhere"}
                          /\ Counts \subseteq Balance
                          /\ Ends \subseteq {"done", "error"}
                          /\ MaxGrant \in Nat

VARIABLES stack, phase, requested, generating, yielded, granted, delivered,
          fault,
          mailbox,     \* mailbox[g]: requests a deferred upstream has not seen
          subs,        \* subs[g]: upstream_subscribers_[g] is not null
          nxt,         \* nxt[g]: next_ of upstream subscriber g, or "none"
          current,     \* current_index_, from 1
          balance,     \* request_balance_
          available,   \* available_balance_
          delivering,  \* delivering_
          lock,        \* self_lock_ is set
          open,        \* OnSubscribe of the final subscriber was called
          asked,       \* events the user requested so far
          got,         \* events the user received so far
          taken,       \* taken[g]: values of g the user received so far
          ended        \* the user received a status that is not OK

Base == INSTANCE GeneratingStream WITH Gens <- Upstreams

baseVars  == <<phase, requested, generating, yielded, granted, delivered>>
mergeVars == <<subs, nxt, current, balance, available, delivering, lock, open>>
userVars  == <<asked, got, taken, ended>>
vars      == <<stack, baseVars, fault, mailbox, mergeVars, userVars>>

Top == Head(stack)
IsTop(op) == stack # <<>> /\ Top.op = op
Call(op, g, ev, rest) == Base!Push(Base!Frame(op, g, ev), rest)

\* MergeStream is kept by self_lock_ and by the upstream subscribers, which
\* the upstreams keep.
MergeAlive == lock \/ \E g \in Upstreams : Base!Alive(g)

Init == /\ Base!Init
        /\ mailbox = [g \in Upstreams |-> 0]
        /\ subs = [g \in Upstreams |-> FALSE]
        /\ nxt = [g \in Upstreams |-> "none"]
        /\ current = 1
        /\ balance = 0
        /\ available = 0
        /\ delivering = FALSE
        /\ lock = FALSE
        /\ open = FALSE
        /\ asked = 0
        /\ got = 0
        /\ taken = [g \in Upstreams |-> 0]
        /\ ended = FALSE

-----------------------------------------------------------------------------
(* MergeUpstreamSubscriber.                                                  *)

\* Mutant: two.
AheadTwo == 2

\* The count of Request, lines 729 and 757.
Ahead == 1

\* upstream_subscription_->Request(1), returning to rest.
RequestNext(g, rest) ==
  /\ granted' = [granted EXCEPT ![g] = @ + Ahead]
  /\ IF g \in Deferred
       THEN /\ mailbox' = [mailbox EXCEPT ![g] = @ + Ahead]
            /\ stack' = rest
            /\ UNCHANGED <<phase, requested, generating, yielded>>
       ELSE /\ Base!Request(g, Ahead, rest)
            /\ UNCHANGED mailbox

\* OnSubscribe, lines 726-730.
UpOnSubscribe == /\ IsTop("OnSubscribe")
                 /\ RequestNext(Top.gen, Tail(stack))
                 /\ UNCHANGED <<delivered, fault, mergeVars, userVars>>

\* MaybeDeliver up to the loop, lines 866-870: no recursion.
MaybeDeliver(rest) ==
  /\ stack' = IF delivering THEN rest ELSE Call("Deliver", 0, "none", rest)
  /\ delivering' = TRUE

\* UpstreamSubscriberStateChanged, line 858: the int becomes a size_t.
StateChanged(diff) == AddTo(available, SizeT(diff))

\* OnNext, lines 732-743, and UpstreamSubscriberStateChanged(1).
UpOnNext == /\ IsTop("OnNext")
            /\ fault' = (nxt[Top.gen] # "none")
            /\ nxt' = [nxt EXCEPT ![Top.gen] = Top.ev]
            /\ available' = StateChanged(1)
            /\ MaybeDeliver(Tail(stack))
            /\ UNCHANGED <<baseVars, mailbox, subs, current, balance, lock, open,
                           userVars>>

-----------------------------------------------------------------------------
(* MergeStream.                                                              *)

\* FinalizeConstruction, lines 802-817 (and 823-835): the upstreams run before
\* the final subscriber is told.
Subscribe == /\ stack = <<>> /\ ~open
             /\ lock' = TRUE
             /\ stack' = Call("Create", 1, "none", stack)
             /\ UNCHANGED <<baseVars, fault, mailbox, subs, nxt, current,
                            balance, available, delivering, open, userVars>>

CreateUpstream == /\ IsTop("Create")
                  /\ Top.gen <= N
                  /\ Base!Construct(Top.gen, Call("Create", Top.gen + 1, "none",
                                                  Tail(stack)))
                  /\ UNCHANGED <<granted, delivered, fault, mailbox, mergeVars,
                                 userVars>>

ConfirmSubscription == /\ IsTop("Create")
                       /\ Top.gen > N
                       /\ subs' = [g \in Upstreams |-> TRUE]
                       /\ open' = TRUE
                       /\ stack' = Call("UserOnSubscribe", 0, "none", Tail(stack))
                       /\ UNCHANGED <<baseVars, fault, mailbox, nxt, current,
                                      balance, available, delivering, lock,
                                      userVars>>

\* The loop condition, line 875.
LoopCondition == HasRequests(balance) /\ HasRequests(available)

\* Line 879, negated: upstream g has an element to consume.
HasNext(g) == subs[g] /\ nxt[g] # "none"

\* Mutant: no increment.
SameIndex == current

\* Line 878.
NextIndex == (current % N) + 1

\* The loop ends, line 915.
DeliverEnds == /\ ~LoopCondition
               /\ delivering' = FALSE
               /\ stack' = Tail(stack)
               /\ UNCHANGED <<baseVars, mailbox, nxt, current, available>>

\* Nothing at this index, lines 876-882.
DeliverSkips == /\ LoopCondition
                /\ ~HasNext(current)
                /\ current' = NextIndex
                /\ UNCHANGED <<stack, baseVars, mailbox, nxt, available,
                               delivering>>

\* ConsumeNext of the upstream, lines 883 and 749-760.
DeliverConsumes ==
  /\ LoopCondition
  /\ HasNext(current)
  /\ nxt' = [nxt EXCEPT ![current] = "none"]
  /\ available' = StateChanged(-1)
  /\ current' = NextIndex
  /\ LET ev   == nxt[current]
         rest == Call("Consumed", current, ev, Tail(stack))
     IN IF Base!IsEnd(ev)
          THEN /\ stack' = rest
               /\ UNCHANGED <<phase, requested, generating, yielded, granted,
                              mailbox>>
          ELSE RequestNext(current, rest)
  /\ UNCHANGED <<delivered, delivering>>

\* Request of an upstream that has ended fails the RX_CHECK of Subscription.
ConsumesEnded == /\ LoopCondition
                 /\ HasNext(current)
                 /\ ~Base!IsEnd(nxt[current])
                 /\ ~Base!Alive(current)

Deliver == /\ IsTop("Deliver")
           /\ fault' = (~MergeAlive \/ ConsumesEnded)
           /\ DeliverEnds \/ DeliverSkips \/ DeliverConsumes
           /\ UNCHANGED <<subs, balance, lock, open, userVars>>

\* subscriber_->OnNext, returning to rest.
SendDown(g, ev, rest) ==
  /\ stack' = Call("UserOnNext", g, ev, rest)
  /\ got' = got + 1
  /\ taken' = [taken EXCEPT ![g] = IF ev = "value" THEN @ + 1 ELSE @]
  /\ ended' = (ended \/ Base!IsEnd(ev))
  /\ UNCHANGED asked

\* A value is delivered, lines 884-890.
DeliversValue == /\ IsTop("Consumed")
                 /\ Top.ev = "value"
                 /\ fault' = ~CanRemove(balance, 1)
                 /\ balance' = RemoveFrom(balance, 1)
                 /\ SendDown(Top.gen, Top.ev, Call("Deliver", 0, "none", Tail(stack)))
                 /\ UNCHANGED <<baseVars, mailbox, subs, nxt, current, available,
                                delivering, lock, open>>

\* Mutants: one upstream ended; the check is missing.
AnyEnded(s)     == \E g \in Upstreams : ~s[g]
EndsUnseen(s)   == FALSE

\* Lines 902-908.
AllEnded(s)     == \A g \in Upstreams : ~s[g]

\* What follows the delivery of an error, line 898.
AfterError == "CancelAll"

\* An upstream ended, lines 891-913: an error is delivered and the other
\* upstreams are cancelled; Done is delivered when it was the last one.
UpstreamEnds ==
  /\ IsTop("Consumed")
  /\ Base!IsEnd(Top.ev)
  /\ subs' = [subs EXCEPT ![Top.gen] = FALSE]
  /\ IF Top.ev = "error"
       THEN SendDown(Top.gen, Top.ev, Call(AfterError, 0, "none", Tail(stack)))
       ELSE IF AllEnded(subs')
         THEN SendDown(Top.gen, Top.ev, Call("Finish", 0, "none", Tail(stack)))
         ELSE /\ stack' = Call("Deliver", 0, "none", Tail(stack))
              /\ UNCHANGED userVars
  /\ UNCHANGED <<baseVars, fault, mailbox, nxt, current, balance, available,
                 delivering, lock, open>>

\* subscriber->Cancel(), line 843. Mutant: it is missing.
NotCancelled(g) == phase[g]
Cancelled(g)    == IF subs[g] THEN "deleted" ELSE phase[g]

\* Cancel, lines 839-849, called with a stack to return to. Cancelling an
\* upstream that has ended fails the RX_CHECK of Subscription (line 764).
Cancel(rest) ==
  /\ fault' = (~MergeAlive \/ \E g \in Upstreams : subs[g] /\ ~Base!Alive(g))
  /\ phase' = [g \in Upstreams |-> Cancelled(g)]
  /\ subs' = [g \in Upstreams |-> FALSE]
  /\ lock' = FALSE
  /\ stack' = rest
  /\ UNCHANGED <<requested, generating, yielded, granted, delivered, mailbox,
                 nxt, current, balance, available, delivering, open, userVars>>

CancelAfterError == IsTop("CancelAll") /\ Cancel(Tail(stack))

\* self_lock_.reset(), line 911.
Finish == /\ IsTop("Finish")
          /\ fault' = ~MergeAlive
          /\ lock' = FALSE
          /\ stack' = Tail(stack)
          /\ UNCHANGED <<baseVars, mailbox, subs, nxt, current, balance,
                         available, delivering, open, userVars>>

-----------------------------------------------------------------------------
(* The deferred upstreams and the user.                                      *)

\* The worker of a deferred upstream takes a request, when it is free.
DeferredRequest(g) == /\ stack = <<>>
                      /\ mailbox[g] > 0
                      /\ Base!Alive(g)
                      /\ mailbox' = [mailbox EXCEPT ![g] = @ - 1]
                      /\ Base!Request(g, 1, stack)
                      /\ UNCHANGED <<granted, delivered, fault, mergeVars,
                                     userVars>>

UserActive == stack # <<>> => Top.op \in {"UserOnSubscribe", "UserOnNext"}

\* Request, lines 851-854.
UserRequests == /\ UserActive /\ open /\ MergeAlive
                /\ \E n \in Counts :
                     /\ asked + n <= MaxGrant
                     /\ asked' = asked + n
                     /\ balance' = AddTo(balance, n)
                     /\ MaybeDeliver(stack)
                /\ UNCHANGED <<baseVars, fault, mailbox, subs, nxt, current,
                               available, lock, open, got, taken, ended>>

UserCancels == /\ UserActive /\ open /\ MergeAlive
               /\ UserCancel = "outside" => ~IsTop("UserOnNext")
               /\ UserCancel # "never"
               /\ Cancel(stack)

UserReturns == /\ stack # <<>>
               /\ UserActive
               /\ stack' = Tail(stack)
               /\ UNCHANGED <<baseVars, fault, mailbox, mergeVars, userVars>>

\* The stream is gone, or a failed check ended the program.
Terminated == /\ fault \/ (stack = <<>> /\ open /\ ~MergeAlive)
              /\ UNCHANGED vars

UpstreamStep == /\ Base!Generate \/ Base!AfterOnNext
                /\ UNCHANGED <<mailbox, mergeVars, userVars>>

MergeStep == \/ CreateUpstream \/ ConfirmSubscription
             \/ UpOnSubscribe \/ UpOnNext
             \/ Deliver \/ DeliversValue \/ UpstreamEnds
             \/ CancelAfterError \/ Finish

Next == \/ /\ ~fault
           /\ \/ Subscribe \/ UserRequests \/ UserCancels \/ UserReturns
              \/ UpstreamStep \/ MergeStep
              \/ \E g \in Deferred : DeferredRequest(g)
        \/ Terminated

\* The thread executes, the worker of the deferred upstreams too, and the
\* user's methods return.
Fairness == /\ WF_vars(~fault /\ (UpstreamStep \/ MergeStep \/ UserReturns))
            /\ \A g \in Upstreams : WF_vars(~fault /\ DeferredRequest(g))

Spec == Init /\ [][Next]_vars /\ Fairness

-----------------------------------------------------------------------------
(* Properties.                                                               *)

Count(op, g, ev) ==
  Cardinality({i \in DOMAIN stack : stack[i] = Base!Frame(op, g, ev)})

\* Types of the members of MergeStream and MergeUpstreamSubscriber.
TypeOK == /\ mailbox \in [Upstreams -> Nat]
          /\ subs \in [Upstreams -> BOOLEAN]
          /\ nxt \in [Upstreams -> Base!Events \cup {"none"}]
          /\ current \in Upstreams
          /\ balance \in Balance
          /\ available \in Balance
          /\ delivering \in BOOLEAN
          /\ lock \in BOOLEAN
          /\ fault \in BOOLEAN
          /\ asked \in 0 .. MaxGrant

\* No RX_CHECK fails and no deleted stream is used.
NoFault == ~fault

\* The counter is infinite since -1 was added to it as a size_t (line 858), and
\* the upstreams that are still merged are all deferred.
OnlyLateOnes == LET merged == {g \in Upstreams : subs[g]}
                IN available = KMax /\ merged # {} /\ merged \subseteq Deferred

\* "we can safely base the loop below on round robing current_index_. One of
\* the upstream subscribers will still have a value if the loop condition is
\* true" (lines 871-874), or else the loop spins: it does so only while it has
\* to wait for nobody but upstreams that answer later.
LoopConditionTruthful ==
  IsTop("Deliver") /\ LoopCondition => (\E g \in Upstreams : HasNext(g)) \/ OnlyLateOnes

\* A value is delivered downstream, in next_, or on its way, exactly once; when
\* Done is delivered, every value of every upstream has been.
ValuesConserved ==
  /\ \A g \in Upstreams : subs[g] =>
       yielded[g] = taken[g] + Count("OnNext", g, "value")
                    + Count("Consumed", g, "value")
                    + (IF nxt[g] = "value" THEN 1 ELSE 0)
  /\ IsTop("UserOnNext") /\ Top.ev = "done" =>
       \A g \in Upstreams : taken[g] = yielded[g]

\* Round robin (line 877): no upstream that is still merged gets ahead of
\* another one by more than one value.
RoundRobin == \A g, h \in Upstreams :
  subs[g] /\ subs[h] => taken[g] <= taken[h] + 1

\* The only check that fails is the one in Cancel (line 764), when it comes to an
\* upstream that has ended and whose end is still in next_.
FailsInCancel == /\ CancelAfterError \/ UserCancels
                 /\ \E g \in Upstreams : subs[g] /\ Base!IsEnd(nxt[g]) /\ ~Base!Alive(g)
FaultCause == [][fault' => FailsInCancel]_vars

\* When the merged stream is over, by Done, an error or Cancel, no upstream is
\* left running ("the other publishers cancelled", reactive.h:489).
NoUpstreamLeft == (open /\ ~lock /\ stack = <<>>) =>
                     \A g \in Upstreams : phase[g] = "deleted"

\* The merged stream keeps the contract of streams. The status that ends it is
\* paid for by a request too, which balance does not show.
Contract == INSTANCE StreamContract WITH
  Streams <- {"merged"},
  status  <- [s \in {"merged"} |-> CASE ~open                        -> "new"
                                     [] open /\ ~MergeAlive          -> "gone"
                                     [] open /\ MergeAlive /\ ended  -> "ending"
                                     [] OTHER                        -> "open"],
  credit  <- [s \in {"merged"} |-> IF ended THEN RemoveFrom(balance, 1)
                                            ELSE balance],
  events  <- [s \in {"merged"} |-> got]

KeepsContract == Contract!Spec

==============================================================================
