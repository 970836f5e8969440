------------------------------ MODULE Pipeline ------------------------------
(***************************************************************************)
(* What the operators Prefetch, Concat and FlatMap of                         *)
(* reactive/reactive_impl.inc have in common: sources upstream, one           *)
(* subscriber downstream, and between them a stream whose methods nest. As in *)
(* GeneratingStream the state has the call stack, the innermost call first;   *)
(* the modules of the operators give meaning to "OnSubscribe" and "OnNext" of *)
(* the sources and add frames of their own.                                   *)
(*                                                                            *)
(* A source is a GeneratingStream, or a publisher that the user implements    *)
(* and that answers late: it calls OnNext when no other code executes, once   *)
(* per requested event, and may call OnSubscribe late, too.                   *)
(***************************************************************************)
EXTENDS RequestBalance, Sequences, FiniteSets

CONSTANTS Kinds,           \* the operators
          Sources,         \* 1 is the base; 2, 3, ... come later
          AnswersLate,     \* AnswersLate[k]: sources of operator k that may
          SubscribesLate,  \* answer late, and call OnSubscribe late, too
          Counts, Ends, MaxElems, MaxGrant  \* see GeneratingStream

ASSUME PipelineAssumption ==
  /\ Kinds \subseteq {"prefetch", "concat", "flatmap"}
  /\ IsFiniteSet(Sources) /\ Sources = 1 .. Cardinality(Sources)
  /\ AnswersLate \in [Kinds -> SUBSET Sources]
  /\ SubscribesLate \in [Kinds -> SUBSET Sources]
  /\ 1 \in Sources
  /\ "concat" \in Kinds => 2 \in Sources
  /\ "flatmap" \in Kinds => MaxElems + 1 \in Sources
  /\ Counts \subseteq Balance
  /\ Ends \subseteq {"done", "error"}
  /\ MaxElems \in Nat
  /\ MaxGrant \in Nat

VARIABLES kind,       \* the operator of this stream; does not change
          late,       \* sources that answer late; does not change
          stack, phase, requested, generating, yielded, granted, delivered,
          fault,      \* see GeneratingStream
          awaited,    \* sources that were subscribed to and have not called
                      \* OnSubscribe yet
          balance,    \* request_balance_ of the operator
          lock,       \* self_lock_ of the operator is set
          open,       \* OnSubscribe of the subscriber was called
          asked,      \* events the subscriber requested so far
          got,        \* events the subscriber received so far
          taken,      \* taken[g]: values of source g it received so far
          ended       \* it received a status that is not OK

Base == INSTANCE GeneratingStream WITH Gens <- Sources

settings   == <<kind, late>>
sourceVars == <<phase, requested, generating, yielded, granted, delivered, awaited>>
userVars   == <<asked, got, taken, ended>>

Top == Head(stack)
IsTop(op) == stack # <<>> /\ Top.op = op
Call(op, g, ev, rest) == Base!Push(Base!Frame(op, g, ev), rest)

Alive(g) == Base!Alive(g)

PipelineInit == /\ kind \in Kinds
                /\ late \in SUBSET AnswersLate[kind]
                /\ Base!Init
                /\ awaited = {}
                /\ balance = 0
                /\ lock = FALSE
                /\ open = FALSE
                /\ asked = 0
                /\ got = 0
                /\ taken = [g \in Sources |-> 0]
                /\ ended = FALSE

-----------------------------------------------------------------------------
(* Upstream.                                                                 *)

\* PublisherImpl::DoSubscribe on the publisher of source g, returning to rest.
DoSubscribe(g, rest) ==
  IF g \in late \cap SubscribesLate[kind]
    THEN /\ awaited' = awaited \cup {g}
         /\ stack' = rest
         /\ UNCHANGED <<phase, requested, generating, yielded>>
    ELSE Base!Construct(g, rest) /\ UNCHANGED awaited

\* Request(n) on the subscription of source g, returning to rest.
RequestUp(g, n, rest) ==
  /\ granted' = [granted EXCEPT ![g] = @ + n]
  /\ IF g \in late
       THEN /\ requested' = [requested EXCEPT ![g] = AddTo(@, n)]
            /\ stack' = rest
            /\ UNCHANGED <<phase, generating, yielded>>
       ELSE Base!Request(g, n, rest)
  /\ UNCHANGED <<delivered, awaited>>

\* The sources in gs are deleted; the others are untouched.
Deleted(gs) == [g \in Sources |-> IF g \in gs THEN "deleted" ELSE phase[g]]

\* A late source calls OnSubscribe.
LateSubscribe(g) == /\ stack = <<>>
                    /\ g \in awaited
                    /\ awaited' = awaited \ {g}
                    /\ Base!Construct(g, stack)
                    /\ UNCHANGED <<granted, delivered, fault>>

\* A late source answers one request.
LateOnNext(g) ==
  /\ stack = <<>>
  /\ g \in late /\ Alive(g) /\ HasRequests(requested[g])
  /\ requested' = [requested EXCEPT ![g] = RemoveFrom(@, 1)]
  /\ delivered' = [delivered EXCEPT ![g] = @ + 1]
  /\ \E ev \in Base!Generated(g) :
       /\ yielded' = [yielded EXCEPT ![g] = IF Base!IsEnd(ev) THEN @ ELSE @ + 1]
       /\ stack' = Call("OnNext", g, ev, Call("After", g, ev, stack))
  /\ UNCHANGED <<phase, generating, granted, awaited, fault>>

\* The loop of a source that answers at once.
Generate == Base!Generate /\ UNCHANGED awaited

\* OnNext of the top source returned. After the end the source deletes itself,
\* and with it the streams in gone.
SourceReturns(gone) ==
  /\ IsTop("After")
  /\ LET g  == Top.gen
         ev == Top.ev
     IN /\ phase' = IF Base!Deletes(g, ev) THEN Deleted({g} \cup gone) ELSE phase
        /\ stack' = IF Base!Bails(g, ev) \/ Base!Deletes(g, ev) \/ g \in late
                      THEN Tail(stack)
                      ELSE Call("Loop", g, "none", Tail(stack))
  /\ UNCHANGED <<requested, generating, yielded, granted, delivered, awaited, fault>>

-----------------------------------------------------------------------------
(* Downstream.                                                               *)

\* subscriber_->OnSubscribe, then the frames in rest.
ConfirmSubscription(rest) ==
  /\ open' = TRUE
  /\ stack' = Call("UserOnSubscribe", 0, "none", rest)

\* subscriber_->OnNext with an event that comes from source g.
SendDown(g, ev, rest) ==
  /\ stack' = Call("UserOnNext", g, ev, rest)
  /\ got' = got + 1
  /\ taken' = [taken EXCEPT ![g] = IF ev = "value" THEN @ + 1 ELSE @]
  /\ ended' = (ended \/ Base!IsEnd(ev))
  /\ UNCHANGED asked

\* A stream that is shared: it lives while its lock is set or a source that
\* was subscribed to keeps its SharedSubscriberWrapper.
SharedAlive == lock \/ awaited # {} \/ \E g \in Sources : Alive(g)

\* Source g may still produce: it is not about to delete itself.
Running(g) ==
  \/ g \in awaited
  \/ /\ Alive(g)
     /\ \A i \in DOMAIN stack : ~( /\ stack[i].op = "After" /\ stack[i].gen = g
                                   /\ Base!IsEnd(stack[i].ev))

\* The number of frames with this call.
Calls(op, g, ev) ==
  Cardinality({i \in DOMAIN stack : stack[i] = Base!Frame(op, g, ev)})

=============================================================================
