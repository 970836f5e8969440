--------------------------- MODULE ChainingStream ---------------------------
(***************************************************************************)
(* class ChainingStream of reactive/reactive_impl.inc with the two operators *)
(* built on it: Map, which forwards every event through a function, and       *)
(* Buffer(Size), which collects Size elements into a vector and flushes the   *)
(* rest when the base ends. The base is a generating stream, Source, which    *)
(* owns the chaining stream as its subscriber: both are deleted together.     *)
(*                                                                            *)
(* Frames beside those of GeneratingStream, whose OnSubscribe and OnNext are  *)
(* now the chaining stream's (lines 335-343):                                 *)
(*   "UserOnSubscribe", "UserOnNext"  the final subscriber executes           *)
(*   "Clear"  Buffer is about to call buffer->clear() (line 470)              *)
(*   "Last"   Buffer flushed, it is about to send the end (line 477)          *)
(***************************************************************************)
EXTENDS RequestBalance, Sequences, FiniteSets

CONSTANTS Source,         \* the base stream
          Operators,      \* some of "map" and "buffer"
          Size,           \* the argument of Buffer
          Counts, Ends, MaxElems, MaxGrant  \* see GeneratingStream

ASSUME ChainingAssumption == /\ Operators \subseteq {"map", "buffer"}
                             /\ Size \in Nat \ {0}
                             /\ Counts \subseteq Balance
                             /\ Ends \subseteq {"done", "error"}
                             /\ MaxGrant \in Nat

VARIABLES operator,  \* the operator of this stream; does not change
          stack, phase, requested, generating, yielded, delivered, fault,
          granted,   \* granted[Source]: events the user requested so far
          buffered,  \* buffer->size()
          got,       \* events the user received so far
          emitted,   \* elements in the vectors the user received
          failures,  \* errors of the function of Map that the user received
          ended,     \* the user received the status that ended the base
          cancelled  \* the user cancelled within OnNext

\* delivered counts the events of the base, granted those requested from the
\* chaining stream.
Base == INSTANCE GeneratingStream WITH Gens <- {Source}

userVars == <<granted, got, emitted, failures, ended, cancelled>>
vars     == <<operator, stack, phase, requested, generating, yielded, delivered, fault,
              buffered, userVars>>

Alive == phase[Source] = "alive"
Top   == Head(stack)
IsTop(op) == stack # <<>> /\ Top.op = op
Call(op, ev, rest) == Base!Push(Base!Frame(op, Source, ev), rest)

Init == /\ operator \in Operators
        /\ Base!Init
        /\ buffered = 0
        /\ got = 0
        /\ emitted = 0
        /\ failures = 0
        /\ ended = FALSE
        /\ cancelled = FALSE

-----------------------------------------------------------------------------

\* OnSubscribe, lines 335-338.
OnSubscribe == /\ IsTop("OnSubscribe")
               /\ stack' = Call("UserOnSubscribe", "none", Tail(stack))
               /\ UNCHANGED <<phase, requested, generating, yielded, delivered,
                              fault, buffered, userVars>>

\* subscriber->OnNext(subscription, ev) with n elements, then frames in rest. The
\* event "failed" is a status that the function of Map returned.
SendDown(ev, n, rest) ==
  /\ stack' = Call("UserOnNext", ev, rest)
  /\ got' = got + 1
  /\ emitted' = emitted + n
  /\ failures' = failures + (IF ev = "failed" THEN 1 ELSE 0)
  /\ ended' = (ended \/ Base!IsEnd(ev))
  /\ UNCHANGED <<granted, cancelled>>

\* The function of Map applied to a value: it returns a StatusOr.
Mapped(ev) == IF ev = "value" THEN {"value", "failed"} ELSE {ev}

\* Map, lines 420-427.
MapOnNext == /\ operator = "map"
             /\ IsTop("OnNext")
             /\ \E ev \in Mapped(Top.ev) :
                  SendDown(ev, IF ev = "value" THEN 1 ELSE 0, Tail(stack))
             /\ UNCHANGED <<phase, requested, generating, yielded, delivered,
                            fault, buffered>>

\* Line 468: n elements fill a buffer.
Full(n) == n = Size

\* What Buffer does with an element, lines 467-471.
Collect == IF Full(buffered + 1)
             THEN /\ SendDown("value", Size, Call("Clear", "none", Tail(stack)))
                  /\ buffered' = 0
             ELSE /\ buffered' = buffered + 1
                  /\ stack' = Tail(stack)
                  /\ UNCHANGED userVars

\* Mutant: the rest is dropped.
FlushesNever(ev) == FALSE

\* Line 473: elements are left when the base is done.
Flushes(ev) == ev = "done" /\ buffered > 0

\* What Buffer does with the end, lines 473-477.
Finish(ev) == IF Flushes(ev)
                THEN /\ SendDown("value", buffered, Call("Last", ev, Tail(stack)))
                     /\ buffered' = 0
                ELSE /\ SendDown(ev, 0, Tail(stack))
                     /\ UNCHANGED buffered

\* Buffer, lines 462-480.
BufferOnNext == /\ operator = "buffer"
                /\ IsTop("OnNext")
                /\ IF Base!IsEnd(Top.ev) THEN Finish(Top.ev) ELSE Collect
                /\ UNCHANGED <<phase, requested, generating, yielded, delivered,
                               fault>>

\* buffer->clear(), line 470: the buffer belongs to the chaining stream.
BufferClear == /\ IsTop("Clear")
               /\ fault' = ~Alive
               /\ buffered' = 0
               /\ stack' = Tail(stack)
               /\ UNCHANGED <<phase, requested, generating, yielded, delivered,
                              userVars>>

\* subscriber->OnNext after the flush, line 477: so does the subscriber.
BufferLast == /\ IsTop("Last")
              /\ fault' = ~Alive
              /\ SendDown(Top.ev, 0, Tail(stack))
              /\ UNCHANGED <<phase, requested, generating, yielded, delivered,
                             buffered>>

-----------------------------------------------------------------------------
(* The user.                                                                 *)

UserActive == stack # <<>> => Top.op \in {"UserOnSubscribe", "UserOnNext"}

UserSubscribes == /\ stack = <<>>
                  /\ Base!Construct(Source, stack)
                  /\ UNCHANGED <<delivered, fault, buffered, userVars>>

\* The user has a Subscription once OnSubscribe was called.
Subscribed == \A i \in DOMAIN stack : stack[i].op # "OnSubscribe"

\* Mutants: one more than requested; one element for a vector.
OneMore(n)  == SizeT(n + 1)
Unscaled(n) == n

\* request_mapping_: size_t multiplication wraps (lines 419 and 461).
RequestMapping(n) == IF operator = "map" THEN n ELSE SizeT(Size * n)

\* Request, lines 321-324.
UserRequests == /\ UserActive /\ Subscribed /\ Alive
                /\ \E n \in Counts :
                     /\ granted[Source] + n <= MaxGrant
                     /\ granted' = [granted EXCEPT ![Source] = @ + n]
                     /\ Base!Request(Source, RequestMapping(n), stack)
                /\ UNCHANGED <<delivered, fault, buffered, got, emitted, failures,
                               ended, cancelled>>

\* Cancel, lines 326-331.
UserCancels == /\ UserActive /\ Subscribed /\ Alive
               /\ Base!Cancel(Source, stack)
               /\ cancelled' = (cancelled \/ IsTop("UserOnNext"))
               /\ UNCHANGED <<delivered, fault, buffered, granted, got, emitted,
                              failures, ended>>

UserReturns == /\ stack # <<>>
               /\ UserActive
               /\ stack' = Tail(stack)
               /\ UNCHANGED <<phase, requested, generating, yielded, delivered,
                              fault, buffered, userVars>>

\* The stream is gone; what a program does after a fault is not modelled.
Terminated == /\ fault \/ (stack = <<>> /\ phase[Source] = "deleted")
              /\ UNCHANGED vars

SourceStep == /\ Base!Generate \/ Base!AfterOnNext
              /\ UNCHANGED <<buffered, got, emitted, failures, ended, cancelled>>

ChainStep == OnSubscribe \/ MapOnNext \/ BufferOnNext \/ BufferClear \/ BufferLast

Next == /\ \/ /\ ~fault
              /\ \/ SourceStep \/ ChainStep
                 \/ UserSubscribes \/ UserRequests \/ UserCancels \/ UserReturns
           \/ Terminated
        /\ UNCHANGED operator

\* The thread executes, and the user's methods return.
Fairness == /\ WF_vars(~fault /\ SourceStep /\ UNCHANGED operator)
            /\ WF_vars(~fault /\ ChainStep /\ UNCHANGED operator)
            /\ WF_vars(~fault /\ UserReturns /\ UNCHANGED operator)

Spec == Init /\ [][Next]_vars /\ Fairness

-----------------------------------------------------------------------------
(* Properties.                                                               *)

\* Types of the members of ChainingStream and of the history.
TypeOK == /\ operator \in Operators
          /\ phase[Source] \in {"new", "alive", "deleted"}
          /\ requested[Source] \in Balance
          /\ buffered \in Nat
          /\ granted[Source] \in 0 .. MaxGrant
          /\ got \in Nat
          /\ emitted \in Nat
          /\ failures \in Nat
          /\ ended \in BOOLEAN
          /\ cancelled \in BOOLEAN
          /\ fault \in BOOLEAN

Unlimited == requested[Source] = KMax

\* "never more than the requested number are produced" (reactive.h:190), but for
\* one event of Buffer, when it sends the end after a flush (line 477).
OverrunOnlyByFlush ==
  ~Unlimited => \/ got <= granted[Source]
                \/ operator = "buffer" /\ ended /\ got = granted[Source] + 1

\* "any other status than OK will be only send once to terminate the stream"
\* (reactive.h:247). The end of the base is the last event; a status is followed by
\* another event only in Map, when its function returned the status and the base
\* goes on (line 424): there the code does not do what the comment says.
EndIsLast ==
  [][got' # got /\ (ended \/ failures > 0) => operator = "map" /\ failures > 0 /\ ~ended]_vars

\* A value that the source yielded and the chaining stream has not seen yet.
InTransit == Cardinality({i \in DOMAIN stack : stack[i].op = "OnNext"
                                            /\ stack[i].ev = "value"})

\* The buffer is never left full, and every element of the base is in a
\* delivered vector, failed in the function of Map, is in the buffer or on its
\* way, once; none is left when the end of stream comes (lines 467-477).
ElementsConserved ==
  /\ buffered < Size
  /\ Alive => yielded[Source] = emitted + failures + buffered + InTransit
  /\ IsTop("UserOnNext") /\ Top.ev = "done" => emitted + failures = yielded[Source]

\* A requested event comes, unless the stream goes away.
RequestServed == \A n \in 0 .. MaxGrant :
  (Alive /\ granted[Source] > got /\ got = n) ~> (~Alive \/ got > n)

=============================================================================
