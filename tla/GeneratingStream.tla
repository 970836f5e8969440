-------------------------- MODULE GeneratingStream --------------------------
(***************************************************************************)
(* class GeneratingStream of reactive/reactive_impl.inc: the source of every  *)
(* pipeline. It runs on one thread, but its methods nest: Request calls       *)
(* Generate, which calls the subscriber's OnNext, which may call Request or   *)
(* Cancel of this or of another stream. So the state has the call stack:      *)
(* a sequence of frames, the innermost call first.                            *)
(*                                                                            *)
(* Frame [op, gen, ev] of the generating stream gen:                          *)
(*   "OnSubscribe"  the subscriber executes OnSubscribe (line 139)            *)
(*   "OnNext"       the subscriber executes OnNext(ev) (line 179)             *)
(*   "Loop"         Generate is at its loop condition (line 172)              *)
(*   "After"        Generate waits for OnNext(ev) to return (line 180)        *)
(* An action is the code between two calls or returns. The empty stack means  *)
(* that no method of a stream is executing.                                   *)
(*                                                                            *)
(* The subscriber is the user: it may request, cancel and return at will,     *)
(* on every stream, and holds the subscriptions after OnSubscribe.            *)
(***************************************************************************)
EXTENDS RequestBalance, Sequences, FiniteSets

CONSTANTS Gens,      \* generating streams
          Counts,    \* arguments of Request
          Ends,      \* how a generator function may end: "done", "error"
          MaxElems,  \* bound: values a generator function yields at most
          MaxGrant   \* bound: events requested from one stream in total

ASSUME GeneratingAssumption == /\ Counts \subseteq Balance
                               /\ Ends \subseteq {"done", "error"}
                               /\ Ends # {}
                               /\ MaxElems \in Nat
                               /\ MaxGrant \in Nat

VARIABLES stack,       \* the call stack
          phase,       \* phase[g]: "new", "alive" or "deleted"
          requested,   \* requested[g]: requested_
          generating,  \* generating[g]: generating_
          yielded,     \* yielded[g]: state_, the number of values produced
          granted,     \* granted[g]: sum of the counts requested so far
          delivered,   \* delivered[g]: calls of OnNext so far
          fault        \* an RX_CHECK failed or a deleted object was used

streamVars == <<phase, requested, generating, yielded>>
history    == <<granted, delivered>>
vars       == <<stack, streamVars, history, fault>>

Events == {"value", "done", "error"}
IsEnd(ev) == ev \in {"done", "error"}

Ops == {"OnSubscribe", "OnNext", "Loop", "After"}
Frame(op, g, ev) == [op |-> op, gen |-> g, ev |-> ev]

Top == Head(stack)
Push(frame, rest) == <<frame>> \o rest

Alive(g) == phase[g] = "alive"

Init == /\ stack = <<>>
        /\ phase = [g \in Gens |-> "new"]
        /\ requested = [g \in Gens |-> 0]
        /\ generating = [g \in Gens |-> FALSE]
        /\ yielded = [g \in Gens |-> 0]
        /\ granted = [g \in Gens |-> 0]
        /\ delivered = [g \in Gens |-> 0]
        /\ fault = FALSE

-----------------------------------------------------------------------------
(* The stream. rest is the stack to which a call returns.                    *)

\* The constructor, lines 133-140: it calls OnSubscribe.
Construct(g, rest) ==
  /\ phase[g] = "new"
  /\ phase' = [phase EXCEPT ![g] = "alive"]
  /\ stack' = Push(Frame("OnSubscribe", g, "none"), rest)
  /\ UNCHANGED <<requested, generating, yielded>>

\* Mutant: every Request starts Generate.
StartsAlways(g) == TRUE

\* Line 161: a Request starts Generate unless it is executing.
StartsGenerate(g) == ~generating[g]

\* Request, lines 150-164.
Request(g, n, rest) ==
  /\ requested' = [requested EXCEPT ![g] = AddTo(@, n)]
  /\ generating' = [generating EXCEPT ![g] = TRUE]
  /\ stack' = IF StartsGenerate(g) THEN Push(Frame("Loop", g, "none"), rest) ELSE rest
  /\ UNCHANGED <<phase, yielded>>

\* Cancel, lines 144-148, and the destructor, line 142.
Cancel(g, rest) ==
  /\ phase' = [phase EXCEPT ![g] = "deleted"]
  /\ stack' = rest
  /\ UNCHANGED <<requested, generating, yielded>>

\* What generator_(state_) may return: a value, the end or an error; the
\* bound MaxElems makes it end.
Generated(g) == Ends \cup (IF yielded[g] < MaxElems THEN {"value"} ELSE {})

\* The body of the loop up to OnNext, lines 173-179.
Produce(g) ==
  /\ HasRequests(requested[g])
  /\ fault' = (~Alive(g) \/ ~CanRemove(requested[g], 1))
  /\ requested' = [requested EXCEPT ![g] = RemoveFrom(@, 1)]
  /\ \E ev \in Generated(g) :
       /\ yielded' = [yielded EXCEPT ![g] = IF IsEnd(ev) THEN @ ELSE @ + 1]
       /\ stack' = Push(Frame("OnNext", g, ev),
                        Push(Frame("After", g, ev), Tail(stack)))
  /\ delivered' = [delivered EXCEPT ![g] = @ + 1]
  /\ UNCHANGED <<phase, generating, granted>>

\* No requests are left, line 191.
Pause(g) ==
  /\ ~HasRequests(requested[g])
  /\ fault' = ~Alive(g)
  /\ generating' = [generating EXCEPT ![g] = FALSE]
  /\ stack' = Tail(stack)
  /\ UNCHANGED <<phase, requested, yielded, history>>

Generate == /\ stack # <<>>
            /\ Top.op = "Loop"
            /\ Produce(Top.gen) \/ Pause(Top.gen)

\* Mutants: no check that the stream still exists; no deletion at the end.
BailsNever(g, ev)   == FALSE
DeletesNever(g, ev) == FALSE

\* OnNext returned, lines 180-189. subscription_state_copy is a local, so it
\* can be read when the stream is gone.
Bails(g, ev)   == ~Alive(g)
Deletes(g, ev) == Alive(g) /\ IsEnd(ev)

AfterOnNext ==
  /\ stack # <<>>
  /\ Top.op = "After"
  /\ LET g  == Top.gen
         ev == Top.ev
     IN /\ phase' = [phase EXCEPT ![g] = IF Deletes(g, ev) THEN "deleted" ELSE @]
        /\ stack' = IF Bails(g, ev) \/ Deletes(g, ev)
                      THEN Tail(stack)
                      ELSE Push(Frame("Loop", g, "none"), Tail(stack))
  /\ UNCHANGED <<requested, generating, yielded, history, fault>>

-----------------------------------------------------------------------------
(* The user: the code that subscribes and the subscribers.                   *)

\* User code executes: no stream is active, or a subscriber has been called.
UserActive == stack # <<>> => Top.op \in {"OnSubscribe", "OnNext"}

UserSubscribes == /\ UserActive
                  /\ \E g \in Gens : Construct(g, stack)
                  /\ UNCHANGED <<history, fault>>

\* A call through class Subscription: only while has_ended() is false.
UserRequests == /\ UserActive
                /\ \E g \in Gens, n \in Counts :
                     /\ Alive(g)
                     /\ granted[g] + n <= MaxGrant
                     /\ Request(g, n, stack)
                     /\ granted' = [granted EXCEPT ![g] = @ + n]
                /\ UNCHANGED <<delivered, fault>>

UserCancels == /\ UserActive
               /\ \E g \in Gens : Alive(g) /\ Cancel(g, stack)
               /\ UNCHANGED <<history, fault>>

UserReturns == /\ stack # <<>>
               /\ UserActive
               /\ stack' = Tail(stack)
               /\ UNCHANGED <<streamVars, history, fault>>

\* All streams are gone.
Terminated == /\ stack = <<>>
              /\ \A g \in Gens : phase[g] = "deleted"
              /\ UNCHANGED vars

Next == \/ Generate \/ AfterOnNext
        \/ UserSubscribes \/ UserRequests \/ UserCancels \/ UserReturns
        \/ Terminated

\* The thread executes, and the user's methods return.
Fairness == WF_vars(Generate) /\ WF_vars(AfterOnNext) /\ WF_vars(UserReturns)

Spec == Init /\ [][Next]_vars /\ Fairness

-----------------------------------------------------------------------------
(* Properties.                                                               *)

FramesOf(g, ops) == {i \in DOMAIN stack : stack[i].gen = g /\ stack[i].op \in ops}

\* Types of the members of GeneratingStream and of the call stack.
TypeOK ==
  /\ stack \in Seq([op : Ops, gen : Gens, ev : Events \cup {"none"}])
  /\ phase \in [Gens -> {"new", "alive", "deleted"}]
  /\ requested \in [Gens -> Balance]
  /\ generating \in [Gens -> BOOLEAN]
  /\ yielded \in [Gens -> Nat]
  /\ granted \in [Gens -> Nat]
  /\ delivered \in [Gens -> Nat]
  /\ fault \in BOOLEAN

\* "This treatment enables generation of the stream elements without deep
\* recursion" (line 159): a stream has at most one Generate on the stack,
\* whatever subscribers request from within OnNext, and generating_ is true
\* exactly while it executes, so that no request is swallowed by a flag left set.
NoDeepRecursion == \A g \in Gens :
  /\ Cardinality(FramesOf(g, {"Loop", "After"})) <= 1
  /\ Alive(g) => (generating[g] <=> FramesOf(g, {"Loop", "After"}) # {})

\* No member of a deleted stream is used, and no RX_CHECK fails, although the
\* subscriber may cancel in OnSubscribe and OnNext (line 180).
NoFault == ~fault

\* The stream has delivered its end and not destroyed itself yet.
EndingOf(g) == Alive(g) /\ \E i \in FramesOf(g, {"After"}) : IsEnd(stack[i].ev)

Status(g) == CASE phase[g] = "new"     -> "new"
               [] phase[g] = "deleted" -> "gone"
               [] EndingOf(g)          -> "ending"
               [] OTHER                -> "open"

\* Every generating stream keeps the contract of streams.
Contract == INSTANCE StreamContract WITH
  Streams <- Gens,
  status  <- [g \in Gens |-> Status(g)],
  credit  <- requested,
  events  <- delivered

KeepsContract == Contract!Spec

=============================================================================
