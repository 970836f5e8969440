---------------------------- MODULE AsyncStream ----------------------------
(***************************************************************************)
(* Async of reactive/reactive_impl.inc: a stream that is produced on one      *)
(* worker and consumed on another one, or on the same. Workers are the        *)
(* abstract SerialExecutor, which Worker implements; tasks of different       *)
(* workers interleave at every access to what they share.                     *)
(*                                                                            *)
(* Upstream is a GeneratingStream; it owns the AsyncStream, its subscriber,   *)
(* so one phase stands for both. No handler of an AsyncStream calls back into *)
(* upstream, so its loop needs no call stack here.                            *)
(*                                                                            *)
(* pc[w] is the place in the task that w executes:                            *)
(*   "subscribe", "request", "cancel", "onSubscribe", "value", "end", "user"  *)
(*               it has not begun                                             *)
(*   "loop", "delete"       in Generate of upstream                           *)
(*   "call"                 the stale check passed, OnNext is called next     *)
(*   "body"                 in user code                                      *)
(*   "asks", "cancels"      in Subscription::Request or ::Cancel, the check   *)
(*                          of has_ended() passed                             *)
(*   "return"               the task returns                                  *)
(***************************************************************************)
EXTENDS RequestBalance, Sequences, FiniteSets

CONSTANTS Workers,
          Counts,        \* arguments of Request
          MinElems,      \* upstream has at least so many values, as its
                         \* subscriber knows,
          MaxElems,      \* and at most so many
          MaxGrant,      \* events that the subscriber requests in all
          MaxOpen,       \* events it has requested and not received, at most,
                         \* if the end may be among them
          CancelsFreely  \* it cancels anywhere; else with nothing requested
                         \* and not from a method that may run beside its
                         \* destructor

ASSUME AsyncAssumption == /\ Counts \subseteq Nat \ {0}
                          /\ MinElems \in Nat /\ MaxElems \in Nat /\ MinElems <= MaxElems
                          /\ MaxGrant \in Nat /\ MaxGrant <= KMax
                          /\ MaxOpen \in Nat
                          /\ CancelsFreely \in BOOLEAN

VARIABLES produceOn, consumeOn,  \* the workers; do not change
          queue, busy,           \* of the workers
          pc,
          phase,      \* of upstream and of the AsyncStream
          requested,  \* requested_ of upstream
          yielded,    \* values upstream has generated
          holder,     \* who owns the subscriber: "stream", "task" (the one of
                      \* the end) or "none"
          open,       \* OnSubscribe of the subscriber was called
          asked, got, \* events the subscriber requested and received
          ended,      \* it received the end
          cancelled,  \* it called Cancel
          fault       \* a check failed, or what was deleted or moved was used

placeVars  == <<produceOn, consumeOn>>
workerVars == <<queue, busy, pc>>
upVars     == <<phase, requested, yielded>>
userVars   == <<open, asked, got, ended, cancelled>>
vars       == <<placeVars, workerVars, upVars, userVars, holder, fault>>

Ops    == {"subscribe", "request", "cancel", "onSubscribe", "value", "end", "user"}
Task(op, n) == [op |-> op, n |-> n]
NoTask == Task("none", 0)

Executor == INSTANCE SerialExecutor WITH
  Tasks <- {Task(op, n) : op \in Ops, n \in Balance}

Alive == phase = "alive"

At(w, place) == pc[w] = place
Goto(w, place) == pc' = [pc EXCEPT ![w] = place]

\* Tasks that wait on a worker.
Pending(w) == {queue[w][i].op : i \in DOMAIN queue[w]}

Init == /\ produceOn \in Workers /\ consumeOn \in Workers
        /\ Executor!Init
        /\ pc = [w \in Workers |-> "idle"]
        /\ phase = "new" /\ requested = 0 /\ yielded = 0
        /\ holder = "none"
        /\ open = FALSE /\ asked = 0 /\ got = 0
        /\ ended = FALSE /\ cancelled = FALSE
        /\ fault = FALSE

-----------------------------------------------------------------------------
(* Workers.                                                                  *)

Begin(w) == /\ Executor!Begin(w)
            /\ Goto(w, busy'[w].op)
            /\ UNCHANGED <<upVars, userVars, holder, fault>>

\* The task of the end owns the subscriber and takes it along.
Return(w) == /\ At(w, "return")
             /\ Executor!End(w)
             /\ Goto(w, "idle")
             /\ holder' = IF busy[w].op = "end" THEN "none" ELSE holder
             /\ UNCHANGED <<upVars, userVars, fault>>

-----------------------------------------------------------------------------
(* On the producing worker.                                                  *)

\* AsyncPublisher::Subscribe, lines 1480-1496.
UserSubscribes == /\ phase = "new"
                  /\ phase' = "subscribed"
                  /\ Executor!Submit(produceOn, Task("subscribe", 0))
                  /\ UNCHANGED <<pc, requested, yielded, userVars, holder, fault>>

\* Its task, lines 1490-1495, and OnSubscribe of the stream, lines 1441-1451.
Subscribe == /\ At(produceOn, "subscribe")
             /\ phase' = "alive"
             /\ holder' = "stream"
             /\ Executor!Submit(consumeOn, Task("onSubscribe", 0))
             /\ Goto(produceOn, "return")
             /\ UNCHANGED <<requested, yielded, userVars, fault>>

\* The task of Request, lines 1432-1436.
RequestUp == /\ At(produceOn, "request")
             /\ requested' = IF Alive THEN AddTo(requested, busy[produceOn].n)
                                      ELSE requested
             /\ Goto(produceOn, IF Alive THEN "loop" ELSE "return")
             /\ UNCHANGED <<queue, busy, phase, yielded, userVars, holder, fault>>

\* Mutant: the last event is sent like the others, through a pointer.
EndOwner == "stream"

\* Line 1373: the subscriber goes along with the last event.
LastOwner == "task"

\* OnNext of the stream, lines 1366-1395, from the loop of upstream.
Generate ==
  /\ At(produceOn, "loop")
  /\ IF ~HasRequests(requested)
       THEN /\ Goto(produceOn, "return")
            /\ UNCHANGED <<queue, busy, requested, yielded, holder>>
       ELSE /\ requested' = RemoveFrom(requested, 1)
            /\ \/ /\ yielded < MaxElems
                  /\ yielded' = yielded + 1
                  /\ Executor!Submit(consumeOn, Task("value", yielded'))
                  /\ UNCHANGED <<pc, holder>>
               \/ /\ yielded >= MinElems
                  /\ holder' = LastOwner
                  /\ Executor!Submit(consumeOn, Task("end", 0))
                  /\ Goto(produceOn, "delete")
                  /\ UNCHANGED yielded
  /\ UNCHANGED <<phase, userVars, fault>>

\* Mutant: upstream does not delete itself.
OnlyReturns == UNCHANGED <<phase, holder>> /\ Goto(produceOn, "return")

\* The destructors: upstream, its subscriber the stream, and the subscriber of
\* that unless it was moved.
Deleted == /\ phase' = "deleted"
           /\ holder' = IF holder = "stream" THEN "none" ELSE holder
           /\ Goto(produceOn, "return")

\* After the end upstream deletes itself.
SelfDestruct == /\ At(produceOn, "delete")
                /\ Deleted
                /\ UNCHANGED <<queue, busy, requested, yielded, userVars, fault>>

\* The task of Cancel, line 1425, which fails when upstream has ended.
CancelUp == /\ At(produceOn, "cancel")
            /\ fault' = ~Alive
            /\ Deleted
            /\ UNCHANGED <<queue, busy, requested, yielded, userVars>>

ProducerStep == Subscribe \/ RequestUp \/ Generate \/ SelfDestruct \/ CancelUp

-----------------------------------------------------------------------------
(* On the consuming worker.                                                  *)

\* The task of OnSubscribe, lines 1447-1450.
OnSubscribe == /\ At(consumeOn, "onSubscribe")
               /\ fault' = ~Alive
               /\ open' = TRUE
               /\ Goto(consumeOn, "body")
               /\ UNCHANGED <<queue, busy, upVars, asked, got, ended, cancelled, holder>>

\* The check of a value's task, line 1390.
CheckStale == /\ At(consumeOn, "value")
              /\ fault' = ~Alive
              /\ Goto(consumeOn, "call")
              /\ UNCHANGED <<queue, busy, upVars, userVars, holder>>

\* OnNext with a value, through a pointer into the stream, line 1392.
OnValue == /\ At(consumeOn, "call")
           /\ fault' = (holder # "stream")
           /\ got' = got + 1
           /\ Goto(consumeOn, "body")
           /\ UNCHANGED <<queue, busy, upVars, open, asked, ended, cancelled, holder>>

\* OnNext with the end, lines 1377-1380.
OnEnd == /\ At(consumeOn, "end")
         /\ fault' = (holder = "none")
         /\ got' = got + 1
         /\ ended' = TRUE
         /\ Goto(consumeOn, "body")
         /\ UNCHANGED <<queue, busy, upVars, open, asked, cancelled, holder>>

\* A task of the user on this worker, which may use the subscription, too.
UserTask == /\ At(consumeOn, "user")
            /\ Goto(consumeOn, "body")
            /\ UNCHANGED <<queue, busy, upVars, userVars, holder, fault>>

UserSchedules == /\ open /\ ~ended /\ ~cancelled
                 /\ "user" \notin Pending(consumeOn) \cup {busy[consumeOn].op}
                 /\ Executor!Submit(consumeOn, Task("user", 0))
                 /\ UNCHANGED <<pc, upVars, userVars, holder, fault>>

\* User code calls Request; has_ended() is checked first, reactive.h:195.
MayAsk(n) == /\ asked + n <= MaxGrant
             /\ asked + n <= MinElems \/ asked + n - got <= MaxOpen

UserRequests == /\ At(consumeOn, "body")
                /\ ~ended /\ ~cancelled
                /\ \E n \in Counts : MayAsk(n)
                /\ fault' = ~Alive
                /\ Goto(consumeOn, "asks")
                /\ UNCHANGED <<queue, busy, upVars, userVars, holder>>

\* AsyncStream::Request, lines 1428-1437: it must not have been deleted since.
Request == /\ At(consumeOn, "asks")
           /\ fault' = ~Alive
           /\ \E n \in Counts : /\ MayAsk(n)
                                /\ asked' = asked + n
                                /\ Executor!Submit(produceOn, Task("request", n))
           /\ Goto(consumeOn, "body")
           /\ UNCHANGED <<upVars, open, got, ended, cancelled, holder>>

\* User code calls Cancel; has_ended() is checked first, reactive.h:182.
MayCancel == CancelsFreely \/ /\ asked = got
                              /\ produceOn = consumeOn \/ busy[consumeOn].op = "user"

UserCancels == /\ At(consumeOn, "body")
               /\ ~ended /\ ~cancelled
               /\ MayCancel
               /\ fault' = ~Alive
               /\ Goto(consumeOn, "cancels")
               /\ UNCHANGED <<queue, busy, upVars, userVars, holder>>

\* AsyncStream::Cancel, lines 1421-1426.
Cancel == /\ At(consumeOn, "cancels")
          /\ fault' = ~Alive
          /\ cancelled' = TRUE
          /\ Executor!Submit(produceOn, Task("cancel", 0))
          /\ Goto(consumeOn, "body")
          /\ UNCHANGED <<upVars, open, asked, got, ended, holder>>

UserReturns == /\ At(consumeOn, "body")
               /\ Goto(consumeOn, "return")
               /\ UNCHANGED <<queue, busy, upVars, userVars, holder, fault>>

\* What the consuming worker does on its own; the user's calls are its choice.
ConsumerStep == OnSubscribe \/ CheckStale \/ OnValue \/ OnEnd \/ UserTask
                \/ Request \/ Cancel \/ UserReturns

-----------------------------------------------------------------------------

Idle == \A w \in Workers : At(w, "idle") /\ queue[w] = <<>>

\* A failed check ended the program, or there is nothing left to do.
Terminated == (fault \/ (Idle /\ phase # "new")) /\ UNCHANGED vars

Next == \/ /\ ~fault
           /\ \/ UserSubscribes \/ UserSchedules \/ UserRequests \/ UserCancels
              \/ ProducerStep \/ ConsumerStep
              \/ \E w \in Workers : Begin(w) \/ Return(w)
           /\ UNCHANGED placeVars
        \/ Terminated

\* Workers execute their tasks, and the tasks return.
Fairness ==
  /\ WF_vars(~fault /\ ProducerStep /\ UNCHANGED placeVars)
  /\ WF_vars(~fault /\ ConsumerStep /\ UNCHANGED placeVars)
  /\ \A w \in Workers : WF_vars(~fault /\ (Begin(w) \/ Return(w)) /\ UNCHANGED placeVars)

Spec == Init /\ [][Next]_vars /\ Fairness

-----------------------------------------------------------------------------
(* Properties.                                                               *)

\* "The raw subscriber pointer should be valid in the lambda" (line 1382): no
\* check fails on either worker, and neither uses what the other one deleted.
NoFault == ~fault

\* The consuming worker is in a method of the subscriber.
InSubscriber == /\ busy[consumeOn].op \in {"onSubscribe", "value", "end"}
                /\ pc[consumeOn] \in {"body", "asks", "cancels"}

\* "the subscribers lifetime needs to be longer than that of the stream" (line
\* 1357): no method of the subscriber is executing when it is destroyed.
SubscriberOutlives == InSubscriber => holder # "none"

\* When the workers are idle, a stream that is over has been deleted and so has
\* its subscriber.
NothingLeft == (Idle /\ (ended \/ cancelled)) => phase = "deleted" /\ holder = "none"

\* What the consumer sees is a stream as any other.
Contract == INSTANCE StreamContract WITH
  Streams <- {"stream"},
  status  <- [s \in {"stream"} |-> CASE ~open                      -> "new"
                                     [] cancelled /\ Alive         -> "cancelled"
                                     [] cancelled /\ ~Alive        -> "gone"
                                     [] ended /\ holder = "none"   -> "gone"
                                     [] ended /\ holder # "none"   -> "ending"
                                     [] OTHER                      -> "open"],
  credit  <- [s \in {"stream"} |-> asked - got],
  events  <- [s \in {"stream"} |-> got]

KeepsContract == Contract!Spec

=============================================================================
