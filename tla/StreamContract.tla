--------------------------- MODULE StreamContract ---------------------------
(***************************************************************************)
(* What every stream owes to its subscriber, whatever its kind, as comments   *)
(* of Subscription and Subscriber in reactive/reactive.h put it:              *)
(*   - OnSubscribe is called once, first;                                     *)
(*   - "never more than the requested number are produced" (190);             *)
(*   - a status other than OK is sent once, and nothing after it (247);       *)
(*   - then the stream destroys itself (250);                                 *)
(*   - after Cancel nothing comes, and the stream is deleted (155, 176).      *)
(* Requests add up as in RequestBalance: KMax stands for "no limit".          *)
(***************************************************************************)
EXTENDS RequestBalance

CONSTANT Streams

VARIABLES status,  \* status[s]: "new", "open", "ending" (the end was delivered),
                   \* "cancelled" (and still there) or "gone"
          credit,  \* credit[s]: requested and not delivered yet
          events   \* events[s]: number of events delivered

vars == <<status, credit, events>>

TypeOK == /\ status \in [Streams -> {"new", "open", "ending", "cancelled", "gone"}]
          /\ credit \in [Streams -> Balance]
          /\ events \in [Streams -> Nat]

Init == /\ status = [s \in Streams |-> "new"]
        /\ credit = [s \in Streams |-> 0]
        /\ events = [s \in Streams |-> 0]

Subscribe(s) == /\ status[s] = "new"
                /\ status' = [status EXCEPT ![s] = "open"]
                /\ UNCHANGED <<credit, events>>

Request(s) == /\ status[s] \in {"open", "ending", "cancelled"}
              /\ \E n \in Balance : credit' = [credit EXCEPT ![s] = AddTo(@, n)]
              /\ UNCHANGED <<status, events>>

\* OnNext, with a value or with the status that ends the stream.
Deliver(s) == /\ status[s] = "open"
              /\ HasRequests(credit[s])
              /\ credit' = [credit EXCEPT ![s] = RemoveFrom(@, 1)]
              /\ events' = [events EXCEPT ![s] = @ + 1]
              /\ \E next \in {"open", "ending"} :
                   status' = [status EXCEPT ![s] = next]

\* Cancel, of a stream that is not deleted in it.
Cancel(s) == /\ status[s] \in {"open", "ending"}
             /\ status' = [status EXCEPT ![s] = "cancelled"]
             /\ UNCHANGED <<credit, events>>

\* The stream is deleted: by itself after the end, in Cancel or because of it.
Destroy(s) == /\ status[s] \in {"open", "ending", "cancelled"}
              /\ status' = [status EXCEPT ![s] = "gone"]
              /\ UNCHANGED <<credit, events>>

SelfDestruct(s) == status[s] = "ending" /\ Destroy(s)
Disposal(s)     == status[s] = "cancelled" /\ Destroy(s)

Next == \E s \in Streams :
          Subscribe(s) \/ Request(s) \/ Deliver(s) \/ Cancel(s) \/ Destroy(s)

SafeSpec == Init /\ [][Next]_vars

\* What was requested is delivered, and a stream that ended goes away.
Fairness == \A s \in Streams : WF_vars(Deliver(s)) /\ WF_vars(SelfDestruct(s))

\* "The stream will be deleted, including the subscriber it holds" (177).
CancelDeletes == \A s \in Streams : WF_vars(Disposal(s))

Spec == SafeSpec /\ Fairness /\ CancelDeletes

=============================================================================
