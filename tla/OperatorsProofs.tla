--------------------------- MODULE OperatorsProofs ---------------------------
(***************************************************************************)
(* Proofs about Prefetch, Concat and FlatMap between any sources, which       *)
(* answer at once or late, and any subscriber, that of Single included: for   *)
(* all sizes of the buffer, of the counter of requests and of streams.        *)
(*                                                                            *)
(* As in MergeProofs the nesting of calls is bounded, so the invariant of     *)
(* each operator names the stacks that occur: a context c says where in the   *)
(* code the stream is, at place c.p, and what is on the stack below.          *)
(***************************************************************************)
EXTENDS Operators, FiniteSetTheorems, TLAPS

\* What the theorems assume of the use: nobody cancels Prefetch, whose Cancel does
\* not look whether the base has ended; nobody cancels FlatMap in the OnNext with
\* its end, after which line 1280 cancels; the second stream of Concat and the
\* continuations call OnSubscribe at once; a late base of FlatMap has a patient
\* subscriber; and the request for a full buffer is not the unlimited one.
CarefulUse ==
  /\ "prefetch" \notin Cancels \cup Singles
  /\ "flatmap" \notin CancelsInEnd
  /\ \A k \in Kinds \ {"prefetch"} : SubscribesLate[k] \subseteq {1}
  /\ "flatmap" \in Kinds \ Patient => 1 \notin AnswersLate["flatmap"]
  /\ BufferSize < KMax

-----------------------------------------------------------------------------
(* The invariant: what the operators have in common.                         *)

\* The subscriber is being told that the subscription is complete.
Telling == Call("UserOnSubscribe", 0, "none", <<>>)

\* Words for numbers of things.
One(b) == IF b THEN 1 ELSE 0

\* Types of what all operators have.
Types ==
  /\ phase \in [Sources -> {"new", "alive", "deleted"}]
  /\ requested \in [Sources -> Balance]
  /\ generating \in [Sources -> BOOLEAN]
  /\ yielded \in [Sources -> Nat] /\ taken \in [Sources -> Nat]
  /\ awaited \subseteq Sources
  /\ balance \in Balance
  /\ lock \in BOOLEAN /\ open \in BOOLEAN /\ fault \in BOOLEAN
  /\ ended \in BOOLEAN /\ cancelled \in BOOLEAN
  /\ asked \in Nat /\ got \in Nat /\ answers \in Nat

\* What was chosen at the start.
Setting == /\ kind \in Kinds
           /\ late \subseteq Sources /\ late \subseteq AnswersLate[kind]
           /\ user \in {"free", "single"}
           /\ user = "single" => kind \in Singles

\* The listener of Single is called in the OnNext that its stream ends or is
\* cancelled in, and then never again.
AnswersOnce(telling) ==
  user = "single" => /\ answers <= 1
                     /\ answers = 1 => (ended \/ cancelled) /\ ~telling

-----------------------------------------------------------------------------
(* The invariant of Concat.                                                  *)

\* Where the innermost call is:
\*   "out"          not in the code of a stream: the stack is b
\*   "subscribing"  source g calls OnSubscribe
\*   "loop", "next", "after"  in the loop of g, in its OnNext(e), and behind
\*   "user"         the subscriber executes OnNext(e), a value
\*   "userEnd"      the subscriber executes OnNext(e), the end
\*   "release"      the end was delivered, the lock is dropped next
\* sw: the switch was made from within the OnNext(done) of the first source, which
\* waits below.
ConcatRuns   == {"loop", "next", "user", "userEnd", "release", "after"}
ConcatPlaces == {"out", "subscribing"} \cup ConcatRuns

ConcatContexts == [p : ConcatPlaces, b : {<<>>, Telling}, sw : BOOLEAN, g : {1, 2},
                   e : Base!Events]

ConcatBelow(c) == IF c.sw THEN Call("After", 1, "done", c.b) ELSE c.b
ConcatAfter(c) == Call("After", c.g, c.e, ConcatBelow(c))

ConcatStack(c) ==
  CASE c.p = "out"         -> c.b
    [] c.p = "subscribing" -> Call("OnSubscribe", c.g, "none", ConcatBelow(c))
    [] c.p = "loop"        -> Call("Loop", c.g, "none", ConcatBelow(c))
    [] c.p = "next"        -> Call("OnNext", c.g, c.e, ConcatAfter(c))
    [] c.p = "user"        -> Call("UserOnNext", c.g, c.e, ConcatAfter(c))
    [] c.p = "userEnd"     -> Call("UserOnNext", c.g, c.e,
                                   Call("Release", 0, "none", ConcatAfter(c)))
    [] c.p = "release"     -> Call("Release", 0, "none", ConcatAfter(c))
    [] c.p = "after"       -> ConcatAfter(c)

\* The first source has sent its Done and will delete itself when that returns.
HandedOver(c) == c.sw \/ (c.p = "after" /\ c.g = 1 /\ c.e = "done")

\* Up to OnSubscribe nothing happens; the second source comes after the first.
ConcatBegins(c) ==
  /\ phase[1] = "new" <=> ~open /\ c.p = "out"
  /\ ~open => /\ c.p \in {"out", "subscribing"} /\ c.b = <<>>
              /\ upstream = 0 /\ runningFirst /\ balance = 0
              /\ ~ended /\ ~cancelled /\ got = 0 /\ asked = 0
  /\ awaited \subseteq {1}
  /\ awaited # {} => ~open /\ lock /\ c.p = "out"
  /\ runningFirst => phase[2] = "new"
  /\ \A g \in Sources \ {1, 2} : phase[g] = "new"
  /\ \A g \in Sources : phase[g] = "new" => requested[g] = 0 /\ ~generating[g]

\* The source that runs is the current one, except for the first one on its way out.
ConcatCurrent(c) ==
  /\ c.sw => c.g = 2 /\ c.p # "out" /\ ~runningFirst
  /\ c.p = "subscribing" =>
       /\ upstream = 0 /\ Alive(c.g) /\ ~ended /\ ~cancelled /\ lock
       /\ requested[c.g] = 0 /\ ~generating[c.g]
       /\ c.g = 1 => runningFirst /\ ~open
       /\ c.g = 2 => ~runningFirst /\ open /\ c.sw
  /\ open /\ c.p # "subscribing" => upstream = IF runningFirst THEN 1 ELSE 2
  /\ c.p \in ConcatRuns => c.g = upstream \/ (c.p = "after" /\ HandedOver(c))
  /\ c.p \in {"loop", "next"} => open /\ Alive(c.g) /\ ~ended /\ ~cancelled
  /\ c.p = "loop" => c.g \notin late
  /\ c.p = "user" => c.e = "value" /\ ~ended
  /\ c.p \in {"userEnd", "release"} =>
       Base!IsEnd(c.e) /\ ended /\ (c.g = 1 => c.e = "error")
  /\ c.p = "after" /\ c.e = "done" /\ c.g = 1 => upstream = 2
  /\ c.p = "after" /\ c.g = upstream /\ Base!IsEnd(c.e) => ended
  /\ ~runningFirst /\ Alive(1) => HandedOver(c)

\* How the stream goes away, and that its lock keeps it until then.
ConcatOver(c) ==
  /\ cancelled => open /\ ~Alive(upstream)
  /\ ended => /\ open /\ HasRequests(balance)
              /\ lock <=> c.p \in {"userEnd", "release"}
              /\ Alive(upstream) => \/ c.p \in {"userEnd", "release"}
                                    \/ c.p = "after" /\ c.g = upstream /\ Base!IsEnd(c.e)
  /\ open /\ ~ended => lock
  /\ user = "single" /\ c.b = Telling => c.p = "out" /\ ~ended /\ ~cancelled

\* What the subscriber is owed is what the current source owes.
ConcatOwes(c) ==
  /\ upstream # 0 /\ Alive(upstream) /\ ~ended =>
       IF c.p = "next"
         THEN HasRequests(balance) /\ RemoveFrom(balance, 1) = requested[upstream]
         ELSE balance = requested[upstream]
  /\ c.p = "subscribing" /\ c.g = 2 => HasRequests(balance)

\* A source that answers at once executes when its flag says so.
ConcatFlags(c) == \A g \in {1, 2} \ late :
  Alive(g) => (generating[g] <=> \/ c.p \in ConcatRuns /\ c.g = g
                                 \/ c.sw /\ g = 1)

ConcatRest(c) == /\ Types /\ runningFirst \in BOOLEAN /\ upstream \in {0, 1, 2}
                 /\ ~fault
                 /\ ConcatBegins(c)
                 /\ ConcatCurrent(c)
                 /\ ConcatOver(c)
                 /\ ConcatOwes(c)
                 /\ ConcatFlags(c)
                 /\ AnswersOnce(c.p \in {"user", "userEnd"})
ConcatAt(c) == stack = ConcatStack(c) /\ ConcatRest(c)
ConcatInv == \E c \in ConcatContexts : ConcatAt(c)

-----------------------------------------------------------------------------
(* The invariant of Prefetch.                                                *)

\* The subscriber is told, and then the buffer is to be filled.
Filling == Call("Fill", 1, "none", <<>>)
TellingFilling == Call("UserOnSubscribe", 0, "none", Filling)

\* Where the innermost call is:
\*   "out"          not in the code of a stream: the stack is b
\*   "subscribing"  the base calls OnSubscribe
\*   "loop", "next", "after"  in the loop of the base, in its OnNext(e), and behind;
\*                  if inner, called from the delivery loop, which goes on when it returns
\*   "deliver", "user", "delivered"  in the delivery loop, in the OnNext(v) of the
\*                  subscriber, and behind; if inner, called from the OnNext(e) of the base
PrefetchBase   == {"loop", "next", "after"}
PrefetchSends  == {"deliver", "user", "delivered"}
PrefetchPlaces == {"out", "subscribing"} \cup PrefetchBase \cup PrefetchSends

PrefetchContexts == [p : PrefetchPlaces, b : {<<>>, Filling, TellingFilling}, inner : BOOLEAN,
                     e : Base!Events, v : Base!Events]

PrefetchBelow(c) == IF c.inner THEN Call("Deliver", 0, "none", <<>>) ELSE <<>>
PrefetchUnder(c) == IF c.inner THEN Call("After", 1, c.e, <<>>) ELSE c.b
PrefetchAfter(c) == Call("After", 1, c.e, PrefetchBelow(c))
PrefetchSent(c)  == Call("Delivered", 1, c.v, PrefetchUnder(c))

PrefetchStack(c) ==
  CASE c.p = "out"         -> c.b
    [] c.p = "subscribing" -> Call("OnSubscribe", 1, "none", <<>>)
    [] c.p = "loop"        -> Call("Loop", 1, "none", PrefetchBelow(c))
    [] c.p = "next"        -> Call("OnNext", 1, c.e, PrefetchAfter(c))
    [] c.p = "after"       -> PrefetchAfter(c)
    [] c.p = "deliver"     -> Call("Deliver", 0, "none", PrefetchUnder(c))
    [] c.p = "user"        -> Call("UserOnNext", 1, c.v, PrefetchSent(c))
    [] c.p = "delivered"   -> PrefetchSent(c)

\* The base executes its loop, above or below the delivery.
BaseExecutes(c) == c.p \in PrefetchBase \/ (c.p \in PrefetchSends /\ c.inner)

\* The base has sent its end, and deletes itself when that returns.
EndBelow(c) == /\ c.p = "after" \/ (c.p \in PrefetchSends /\ c.inner)
               /\ Base!IsEnd(c.e)

\* The last event of the buffer is the end.
EndBuffered == Len(buffer) > 0 /\ Base!IsEnd(buffer[Len(buffer)])

\* Up to OnSubscribe nothing happens.
PrefetchBegins(c) ==
  /\ phase[1] = "new" <=> ~open /\ c.p = "out"
  /\ ~open => /\ c.p \in {"out", "subscribing"} /\ c.b = <<>>
              /\ buffer = <<>> /\ outstanding = 0 /\ ~delivering /\ balance = 0 /\ ~ended
              /\ got = 0 /\ asked = 0 /\ yielded[1] = 0 /\ taken[1] = 0
              /\ requested[1] = 0 /\ ~generating[1]
  /\ awaited \subseteq {1}
  /\ awaited # {} => ~open /\ lock /\ c.p = "out"
  /\ \A g \in Sources \ {1} : phase[g] = "new"
  /\ c.p = "subscribing" => ~open /\ lock /\ Alive(1)
  /\ c.b # <<>> => /\ open /\ ~c.inner /\ Alive(1) /\ ~ended
                   /\ c.p = "out" \/ (c.p = "deliver" /\ c.b = TellingFilling)
                   /\ buffer = <<>> /\ outstanding = 0 /\ ~generating[1]
  /\ ~cancelled

\* What executes, and what its flags say.
PrefetchRuns(c) ==
  /\ delivering <=> c.p \in PrefetchSends \/ (c.p \in PrefetchBase /\ c.inner)
  /\ c.p = "out" => ~c.inner
  /\ c.p \in PrefetchBase \cup PrefetchSends => open
  /\ c.p \in {"loop", "next"} => Alive(1) /\ ~ended
  /\ c.p = "loop" => 1 \notin late
  /\ 1 \notin late /\ Alive(1) => (generating[1] <=> BaseExecutes(c))

\* How the stream goes away, and that its lock keeps it until then.
PrefetchOver(c) ==
  /\ c.p = "deliver" \/ (c.p \in PrefetchBase /\ c.inner) => ~ended
  /\ c.p \in {"user", "delivered"} => (ended <=> Base!IsEnd(c.v))
  /\ open /\ ~ended => lock
  /\ ended => open /\ buffer = <<>> /\ (lock <=> c.p \in {"user", "delivered"})
  /\ Alive(1) /\ (ended \/ EndBuffered) => EndBelow(c)

\* What was requested of the base fits into the buffer.
PrefetchOwes(c) ==
  /\ Len(buffer) + outstanding <= BufferSize
  /\ Alive(1) => outstanding = requested[1] + One(c.p = "next")

\* Where the values of the base are.
PrefetchKeeps(c) ==
  /\ \A i \in 1 .. Len(buffer) - 1 : buffer[i] = "value"
  /\ c.p \in {"loop", "next"} => ~EndBuffered
  /\ yielded[1] + One(EndBuffered) =
       taken[1] + One(c.p = "next" /\ c.e = "value") + Len(buffer)

PrefetchRest(c) == /\ Types /\ buffer \in Seq(Base!Events) /\ outstanding \in Nat
                   /\ delivering \in BOOLEAN
                   /\ ~fault
                   /\ PrefetchBegins(c)
                   /\ PrefetchRuns(c)
                   /\ PrefetchOver(c)
                   /\ PrefetchOwes(c)
                   /\ PrefetchKeeps(c)
PrefetchAt(c) == stack = PrefetchStack(c) /\ PrefetchRest(c)
PrefetchInv == \E c \in PrefetchContexts : PrefetchAt(c)

-----------------------------------------------------------------------------
(* The invariant of FlatMap.                                                 *)

\* Where the innermost call is:
\*   "out"              not in the code of a stream: the stack is b
\*   "subscribing"      the base calls OnSubscribe
\*   "loop", "next", "userEnd", "after"  in the loop of the base, in its OnNext(e), in that
\*                      of the subscriber with the same end, and behind
\*   "contSubscribing"  continuation g calls OnSubscribe
\*   "contLoop", "contNext", "contUser", "contAfter"  in the loop of g, in its OnNext(f), in
\*                      that of the subscriber with the same value, and behind
\*   "contFails", "terminate"  in the OnNext(f) of the subscriber with the error of g, and
\*                      before the base is cancelled
\* h: 0, or the continuation whose OnNext(done) asked the base, which executes, for the
\* next element and waits below.
\* n: the base executes, and its OnNext with a value waits below the continuation.
FlatBasePlaces == {"loop", "next", "userEnd", "after"}
FlatContPlaces == {"contLoop", "contNext", "contUser", "contFails", "terminate", "contAfter"}
FlatPlaces     == {"out", "subscribing", "contSubscribing"} \cup FlatBasePlaces
                    \cup FlatContPlaces

FlatContexts == [p : FlatPlaces, b : {<<>>, Telling}, h : Sources \cup {0}, n : BOOLEAN,
                 e : Base!Events, g : Sources, f : Base!Events]

FlatBelow(c) == IF c.h # 0 THEN Call("After", c.h, "done", c.b) ELSE c.b
FlatBase(c)  == Call("After", 1, c.e, FlatBelow(c))
FlatUnder(c) == IF c.n THEN Call("After", 1, "value", FlatBelow(c)) ELSE FlatBelow(c)
FlatCont(c)  == Call("After", c.g, c.f, FlatUnder(c))
FlatFails(c) == Call("Terminate", 0, "none", FlatCont(c))

FlatStack(c) ==
  CASE c.p = "out"             -> c.b
    [] c.p = "subscribing"     -> Call("OnSubscribe", 1, "none", <<>>)
    [] c.p = "loop"            -> Call("Loop", 1, "none", FlatBelow(c))
    [] c.p = "next"            -> Call("OnNext", 1, c.e, FlatBase(c))
    [] c.p = "userEnd"         -> Call("UserOnNext", 1, c.e, FlatBase(c))
    [] c.p = "after"           -> FlatBase(c)
    [] c.p = "contSubscribing" -> Call("OnSubscribe", c.g, "none", FlatUnder(c))
    [] c.p = "contLoop"        -> Call("Loop", c.g, "none", FlatUnder(c))
    [] c.p = "contNext"        -> Call("OnNext", c.g, c.f, FlatCont(c))
    [] c.p = "contUser"        -> Call("UserOnNext", c.g, c.f, FlatCont(c))
    [] c.p = "contFails"       -> Call("UserOnNext", c.g, c.f, FlatFails(c))
    [] c.p = "terminate"       -> FlatFails(c)
    [] c.p = "contAfter"       -> FlatCont(c)

\* The base executes its loop, above or below a continuation.
FlatBaseRuns(c) == c.p \in FlatBasePlaces \/ c.n

\* The base was asked for an element that has no continuation yet.
FlatAsks(c) == requested[1] > 0 \/ c.p \in {"next", "contSubscribing"}

\* Up to OnSubscribe nothing happens; continuations are made in their order, one for each
\* value of the base.
FlatBegins(c) ==
  /\ phase[1] = "new" <=> ~open /\ c.p = "out"
  /\ ~open => /\ c.p \in {"out", "subscribing"} /\ c.b = <<>>
              /\ cont = 0 /\ conts = 0 /\ balance = 0 /\ ~ended /\ ~cancelled
              /\ got = 0 /\ asked = 0 /\ requested[1] = 0 /\ ~generating[1]
  /\ c.p = "subscribing" => ~open /\ Alive(1)
  /\ awaited \subseteq {1}
  /\ awaited # {} => ~open /\ c.p = "out"
  /\ \A k \in Sources \ {1} : /\ phase[k] = "new" <=> k > conts + 1
                              /\ phase[k] = "new" => requested[k] = 0 /\ ~generating[k]
  /\ conts + One(c.p = "next" /\ c.e = "value") = yielded[1] /\ yielded[1] <= MaxElems

\* Which calls can be below which.
FlatNests(c) ==
  /\ c.n => c.p \in FlatContPlaces \cup {"contSubscribing"}
  /\ c.p = "contSubscribing" => c.n /\ c.g # c.h
  /\ c.h # 0 => /\ c.h # 1 /\ c.h # cont /\ (c.p \in FlatBasePlaces \/ c.n)
                /\ phase[c.h] # "new"
  /\ c.p \in FlatContPlaces \cup {"contSubscribing"} => c.g # 1 /\ phase[c.g] # "new"

\* The continuation that runs is the current one, except one on its way out.
FlatCurrent(c) ==
  /\ c.p \in {"loop", "next", "contLoop", "contNext", "contSubscribing"} =>
       open /\ Alive(1) /\ ~ended /\ ~cancelled
  /\ c.p \in {"contLoop", "contNext", "contUser", "contFails", "terminate"} => c.g = cont
  /\ c.p = "contAfter" => IF c.f = "done" THEN c.g # cont ELSE c.g = cont
  /\ c.p \in {"contLoop", "contNext", "contSubscribing"} => Alive(c.g)
  /\ c.p = "contSubscribing" => requested[c.g] = 0 /\ ~generating[c.g]
  /\ c.p = "loop" => 1 \notin late
  /\ c.p = "contLoop" => c.g \notin late
  /\ c.p = "contUser" => c.f = "value" /\ ~ended
  /\ cont # 0 => /\ cont \in Sources \ {1} /\ phase[cont] # "new"
                 /\ Alive(cont) <=> Alive(1)
  /\ \A k \in Sources \ {1} : Alive(k) =>
       \/ k = cont
       \/ k = c.h
       \/ k = c.g /\ (c.p = "contSubscribing" \/ (c.p = "contAfter" /\ c.f = "done"))

\* How the stream goes away.
FlatOver(c) ==
  /\ cancelled => open /\ ~Alive(1)
  /\ open /\ ~cancelled /\ ~ended => Alive(1)
  /\ ended => open
  /\ c.p = "userEnd" \/ (c.p = "after" /\ Base!IsEnd(c.e)) => Base!IsEnd(c.e) /\ ended
  /\ c.p = "userEnd" => Alive(1) /\ cont = 0
  /\ c.p \in {"contFails", "terminate"} => c.f = "error" /\ ended /\ Alive(1)
  /\ c.p = "contAfter" /\ c.f = "error" => ~Alive(1)
  /\ ended /\ Alive(1) => \/ c.p \in {"userEnd", "contFails", "terminate"}
                          \/ c.p = "after" /\ Base!IsEnd(c.e)
  /\ user = "single" /\ c.b = Telling => c.p = "out" /\ ~ended /\ ~cancelled

\* What the subscriber is owed is what the continuation was asked for and still owes.
FlatOwes(c) ==
  cont # 0 /\ Alive(cont) /\ ~ended =>
    /\ balance = contRequested
    /\ IF c.p = "contNext"
         THEN HasRequests(balance) /\ RemoveFrom(balance, 1) = requested[cont]
         ELSE balance = requested[cont]

\* The base is asked for one element at a time, and only without a continuation.
FlatAsksOnce(c) ==
  /\ Alive(1) /\ ~ended => /\ requested[1] \in {0, 1}
                           /\ FlatAsks(c) => cont = 0
                           /\ c.p \in {"next", "contSubscribing"} => requested[1] = 0
  /\ Alive(1) /\ ~ended /\ 1 \notin late /\ requested[1] > 0 => FlatBaseRuns(c)
  /\ 1 \in late /\ ~ended =>
       /\ balance = asked - got /\ balance <= 1
       /\ Alive(1) /\ FlatAsks(c) => balance = 1
       /\ user = "single" /\ c.b = Telling => asked = 0
  /\ 0 \notin Counts => /\ Alive(1) /\ ~ended /\ FlatAsks(c) => HasRequests(balance)
                        /\ ended => HasRequests(balance)

\* A source that answers at once executes when its flag says so.
FlatFlags(c) ==
  /\ Alive(1) /\ 1 \notin late => (generating[1] <=> FlatBaseRuns(c))
  /\ cont # 0 /\ Alive(cont) /\ cont \notin late =>
       (generating[cont] <=> c.p \in FlatContPlaces /\ c.g = cont)

FlatRest(c) == /\ Types /\ cont \in Sources \cup {0} /\ contRequested \in Balance /\ conts \in Nat
               /\ ~fault
               /\ FlatBegins(c)
               /\ FlatNests(c)
               /\ FlatCurrent(c)
               /\ FlatOver(c)
               /\ FlatOwes(c)
               /\ FlatAsksOnce(c)
               /\ FlatFlags(c)
               /\ AnswersOnce(c.p \in {"userEnd", "contUser", "contFails"})
FlatAt(c) == stack = FlatStack(c) /\ FlatRest(c)
FlatInv == \E c \in FlatContexts : FlatAt(c)

-----------------------------------------------------------------------------
(* Call stacks.                                                              *)

AllOps == Base!Ops \cup {"Fill", "Deliver", "Delivered", "Release", "Terminate",
                         "UserOnSubscribe", "UserOnNext"}
Gens0  == Sources \cup {0}
Words  == Base!Events \cup {"none"}
Frames == [op : AllOps, gen : Gens0, ev : Words]

\* The innermost call of a stack s is op of g with e, and rest is below.
Called(s, op, g, e, rest) == /\ s \in Seq(Frames) /\ s # <<>>
                             /\ Head(s).op = op
                             /\ Head(s).gen = g
                             /\ Head(s).ev = e
                             /\ Tail(s) = rest

\* A call from a stack.
LEMMA CallTop ==
  ASSUME NEW s \in Seq(Frames), NEW op \in AllOps, NEW g \in Gens0, NEW ev \in Words
  PROVE  Called(Call(op, g, ev, s), op, g, ev, s)
<1> DEFINE f == Base!Frame(op, g, ev)
<1>1. f \in Frames /\ f.op = op /\ f.gen = g /\ f.ev = ev
  BY DEF Base!Frame, Frames
<1>2. Call(op, g, ev, s) = <<f>> \o s
  BY DEF Call, Base!Push
<1> HIDE DEF f
<1>3. /\ <<f>> \o s \in Seq(Frames) /\ <<f>> \o s # <<>>
      /\ Head(<<f>> \o s) = f /\ Tail(<<f>> \o s) = s
  BY <1>1
<1> QED
  BY <1>1, <1>2, <1>3 DEF Called

\* The words that calls are made of, and the numbers of the sources.
LEMMA Vocabulary ==
  /\ {"OnSubscribe", "OnNext", "Loop", "After", "Fill", "Deliver", "Delivered", "Release",
      "Terminate", "UserOnSubscribe", "UserOnNext"} \subseteq AllOps
  /\ Base!Events = {"value", "done", "error"}
  /\ "none" \in Words /\ Base!Events \subseteq Words
  /\ Sources \subseteq Gens0 /\ 0 \in Gens0 /\ 1 \in Sources
  /\ Sources = 1 .. Cardinality(Sources) /\ Cardinality(Sources) \in Nat
<1>1. IsFiniteSet(Sources) /\ Sources = 1 .. Cardinality(Sources) /\ 1 \in Sources
  BY PipelineAssumption
<1>2. Cardinality(Sources) \in Nat
  BY <1>1, FS_CardinalityType
<1> QED
  BY <1>1, <1>2 DEF AllOps, Base!Ops, Base!Events, Words, Gens0

\* What the statuses that end a stream are.
LEMMA Statuses ==
  ~Base!IsEnd("none") /\ ~Base!IsEnd("value") /\ Base!IsEnd("done") /\ Base!IsEnd("error")
  BY DEF Base!IsEnd

\* Telling is a stack of one call.
LEMMA TellingIs == /\ <<>> \in Seq(Frames)
                   /\ Called(Telling, "UserOnSubscribe", 0, "none", <<>>)
<1>1. <<>> \in Seq(Frames)
  OBVIOUS
<1> QED
  BY <1>1, Vocabulary, CallTop DEF Telling

-----------------------------------------------------------------------------
(* Counters and sources, whatever the operator.                              *)

\* The counters of the sources are counters as any other.
LEMMA SameCounters ==
  \A b, n : /\ Base!AddTo(b, n) = AddTo(b, n)
            /\ Base!RemoveFrom(b, n) = RemoveFrom(b, n)
            /\ Base!CanRemove(b, n) = CanRemove(b, n)
            /\ Base!HasRequests(b) = HasRequests(b)
  BY DEF Base!AddTo, AddTo, Base!RemoveFrom, RemoveFrom, Base!CanRemove, CanRemove,
         Base!HasRequests, HasRequests

\* What counters do.
LEMMA Counting ==
  ASSUME NEW b \in Balance
  PROVE  /\ b \in Nat /\ 0 \in Balance /\ AddTo(0, b) = b
         /\ \A n \in Nat : AddTo(b, n) \in Balance /\ AddTo(b, n) >= b
         /\ HasRequests(b) => /\ CanRemove(b, 1) /\ RemoveFrom(b, 1) \in Balance
                              /\ \A n \in Nat : HasRequests(AddTo(b, n))
         /\ ~HasRequests(b) => b = 0
<1>1. b \in Nat /\ b <= KMax /\ KMax \in Nat /\ KMax >= 1
  BY KMaxAssumption DEF Balance
<1>2. ASSUME NEW n \in Nat
      PROVE  /\ AddTo(b, n) \in Balance /\ AddTo(b, n) >= b
             /\ HasRequests(b) => HasRequests(AddTo(b, n))
  BY <1>1, <1>2 DEF AddTo, Balance, HasRequests
<1>3. HasRequests(b) => CanRemove(b, 1) /\ RemoveFrom(b, 1) \in Balance
  BY <1>1 DEF HasRequests, CanRemove, RemoveFrom, Balance
<1>4. AddTo(0, b) = b /\ 0 \in Balance /\ (~HasRequests(b) => b = 0)
  BY <1>1 DEF AddTo, HasRequests, Balance
<1> QED
  BY <1>1, <1>2, <1>3, <1>4

\* Arguments of Request are numbers.
LEMMA CountsAre == Counts \subseteq Nat
  BY PipelineAssumption, KMaxAssumption DEF Balance

\* Request of a source starts its loop if it answers at once and does not execute.
LEMMA RequestUpIs ==
  ASSUME Types, NEW g \in Sources, NEW n \in Nat, NEW rest, RequestUp(g, n, rest)
  PROVE  /\ requested' = [requested EXCEPT ![g] = AddTo(@, n)]
         /\ UNCHANGED <<phase, yielded, awaited>>
         /\ g \in late \/ generating[g] => generating' = generating /\ stack' = rest
         /\ g \notin late /\ ~generating[g] =>
              /\ generating' = [generating EXCEPT ![g] = TRUE]
              /\ stack' = Call("Loop", g, "none", rest)
<1>1. UNCHANGED awaited
  BY DEF RequestUp
<1>2. CASE g \in late
  BY <1>1, <1>2 DEF RequestUp
<1>3. CASE g \notin late
  <2>1. Base!Request(g, n, rest)
    BY <1>3 DEF RequestUp
  <2>2. /\ requested' = [requested EXCEPT ![g] = AddTo(@, n)]
        /\ generating' = [generating EXCEPT ![g] = TRUE]
        /\ UNCHANGED <<phase, yielded>>
    BY <2>1, SameCounters DEF Base!Request
  <2>3. stack' = IF ~generating[g] THEN Call("Loop", g, "none", rest) ELSE rest
    BY <2>1 DEF Base!Request, Base!StartsGenerate, Call
  <2>4. CASE generating[g]
    <3>1. generating' = generating
      BY <2>2, <2>4 DEF Types
    <3> QED
      BY <1>1, <1>3, <2>2, <2>3, <2>4, <3>1
  <2>5. CASE ~generating[g]
    BY <1>1, <1>3, <2>2, <2>3, <2>5
  <2> QED
    BY <2>4, <2>5
<1> QED
  BY <1>2, <1>3

\* The events of a source: values up to its bound, and an end.
LEMMA EventsAre ==
  ASSUME NEW g \in Sources, NEW ev \in Base!Generated(g)
  PROVE  ev \in Base!Events /\ (ev = "value" => yielded[g] < MaxElems)
<1>1. Ends \subseteq {"done", "error"}
  BY PipelineAssumption
<1>2. ev \in Ends \/ (ev = "value" /\ yielded[g] < MaxElems)
  BY DEF Base!Generated
<1> QED
  BY <1>1, <1>2 DEF Base!Events

\* What it means that source g sends event ev.
Sends(g, ev, rest) ==
  /\ HasRequests(requested[g])
  /\ requested' = [requested EXCEPT ![g] = RemoveFrom(@, 1)]
  /\ ev = "value" => yielded[g] < MaxElems
  /\ yielded' = IF ev = "value" THEN [yielded EXCEPT ![g] = @ + 1] ELSE yielded
  /\ stack' = Call("OnNext", g, ev, Call("After", g, ev, rest))
  /\ UNCHANGED <<phase, generating, awaited, fault>>

\* The loop of a source runs.
LEMMA GenerateTop == Generate => IsTop("Loop")
<1>1. Generate => stack # <<>> /\ Base!Top.op = "Loop"
  BY DEF Generate, Base!Generate
<1>2. Base!Top = Top
  BY DEF Base!Top, Top
<1> QED
  BY <1>1, <1>2 DEF IsTop

\* The loop of a source sends an event or pauses.
LEMMA GenerateIs ==
  ASSUME Types, ~fault, NEW g \in Sources, NEW rest, Called(stack, "Loop", g, "none", rest),
         Alive(g), Generate
  PROVE  \/ \E ev \in Base!Events : Sends(g, ev, rest)
         \/ /\ ~HasRequests(requested[g])
            /\ generating' = [generating EXCEPT ![g] = FALSE]
            /\ stack' = rest
            /\ UNCHANGED <<phase, requested, yielded, awaited, fault>>
<1>1. Top.gen = g /\ Tail(stack) = rest /\ stack # <<>> /\ UNCHANGED awaited
  BY DEF Called, Top, Generate
<1>2. Base!Produce(g) \/ Base!Pause(g)
  BY <1>1 DEF Generate, Base!Generate, Base!Top, Top
<1>3. Base!Alive(g) /\ requested[g] \in Balance
  BY DEF Alive, Types
<1>4. CASE Base!Produce(g)
  <2>1. HasRequests(requested[g]) /\ CanRemove(requested[g], 1)
    BY <1>3, <1>4, SameCounters, Counting DEF Base!Produce
  <2>2. fault' = fault
    BY <1>3, <1>4, <2>1, SameCounters DEF Base!Produce, Types
  <2>3. PICK ev \in Base!Generated(g) :
          /\ yielded' = [yielded EXCEPT ![g] = IF Base!IsEnd(ev) THEN @ ELSE @ + 1]
          /\ stack' = Base!Push(Base!Frame("OnNext", g, ev),
                                Base!Push(Base!Frame("After", g, ev), Tail(stack)))
    BY <1>4 DEF Base!Produce
  <2>4. /\ requested' = [requested EXCEPT ![g] = RemoveFrom(@, 1)]
        /\ UNCHANGED <<phase, generating>>
    BY <1>4, SameCounters DEF Base!Produce
  <2>5. ev \in Base!Events /\ (ev = "value" => yielded[g] < MaxElems)
    BY <2>3, EventsAre
  <2>6. yielded' = IF ev = "value" THEN [yielded EXCEPT ![g] = @ + 1] ELSE yielded
    BY <2>3, <2>5 DEF Base!IsEnd, Base!Events, Types
  <2>7. stack' = Call("OnNext", g, ev, Call("After", g, ev, rest))
    BY <1>1, <2>3 DEF Call
  <2> QED
    BY <1>1, <2>1, <2>2, <2>4, <2>5, <2>6, <2>7 DEF Sends
<1>5. CASE Base!Pause(g)
  BY <1>1, <1>3, <1>5, SameCounters DEF Base!Pause, Types
<1> QED
  BY <1>2, <1>4, <1>5

\* A source that answers late sends an event.
LEMMA LateOnNextIs ==
  ASSUME Types, NEW g \in Sources, LateOnNext(g)
  PROVE  /\ stack = <<>> /\ g \in late /\ Alive(g)
         /\ \E ev \in Base!Events : Sends(g, ev, <<>>)
<1>1. PICK ev \in Base!Generated(g) :
        /\ yielded' = [yielded EXCEPT ![g] = IF Base!IsEnd(ev) THEN @ ELSE @ + 1]
        /\ stack' = Call("OnNext", g, ev, Call("After", g, ev, stack))
  BY DEF LateOnNext
<1>2. ev \in Base!Events /\ (ev = "value" => yielded[g] < MaxElems)
  BY <1>1, EventsAre
<1>3. yielded' = IF ev = "value" THEN [yielded EXCEPT ![g] = @ + 1] ELSE yielded
  BY <1>1, <1>2 DEF Base!IsEnd, Base!Events, Types
<1>4. Sends(g, ev, <<>>)
  BY <1>1, <1>2, <1>3 DEF LateOnNext, Sends
<1> QED
  BY <1>2, <1>4 DEF LateOnNext

\* The types after a source has sent an event.
LEMMA SendsTypes ==
  ASSUME Types, NEW g \in Sources, NEW ev, NEW rest, Sends(g, ev, rest)
  PROVE  /\ phase' \in [Sources -> {"new", "alive", "deleted"}]
         /\ requested' \in [Sources -> Balance]
         /\ generating' \in [Sources -> BOOLEAN]
         /\ yielded' \in [Sources -> Nat]
         /\ awaited' \subseteq Sources /\ fault' \in BOOLEAN
<1>1. RemoveFrom(requested[g], 1) \in Balance
  BY Counting DEF Types, Sends
<1>2. requested' \in [Sources -> Balance]
  BY <1>1 DEF Types, Sends
<1>3. yielded' \in [Sources -> Nat]
  BY DEF Types, Sends
<1> QED
  BY <1>2, <1>3 DEF Types, Sends

\* OnNext of a source returned: it is gone, deletes itself, waits for a request, or
\* goes on.
LEMMA SourceReturnsIs ==
  ASSUME Types, NEW g \in Sources, NEW ev, NEW rest, Called(stack, "After", g, ev, rest),
         NEW gone, SourceReturns(gone)
  PROVE  /\ UNCHANGED <<requested, generating, yielded, awaited, fault>>
         /\ \/ ~Alive(g) /\ phase' = phase /\ stack' = rest
            \/ Alive(g) /\ Base!IsEnd(ev) /\ phase' = Deleted({g} \cup gone) /\ stack' = rest
            \/ Alive(g) /\ ~Base!IsEnd(ev) /\ g \in late /\ phase' = phase /\ stack' = rest
            \/ Alive(g) /\ ~Base!IsEnd(ev) /\ g \notin late /\ phase' = phase
               /\ stack' = Call("Loop", g, "none", rest)
<1>1. Top.gen = g /\ Top.ev = ev /\ Tail(stack) = rest
  BY DEF Called, Top
<1>2. /\ phase' = IF Base!Deletes(g, ev) THEN Deleted({g} \cup gone) ELSE phase
      /\ stack' = IF Base!Bails(g, ev) \/ Base!Deletes(g, ev) \/ g \in late
                    THEN rest ELSE Call("Loop", g, "none", rest)
      /\ UNCHANGED <<requested, generating, yielded, awaited, fault>>
  BY <1>1 DEF SourceReturns
<1> QED
  BY <1>2 DEF Base!Deletes, Base!Bails, Alive

\* A stream that is alive is constructed once.
LEMMA ConstructIs ==
  ASSUME Types, NEW g \in Sources, NEW rest, Base!Construct(g, rest)
  PROVE  /\ phase[g] = "new" /\ phase' = [phase EXCEPT ![g] = "alive"]
         /\ stack' = Call("OnSubscribe", g, "none", rest)
         /\ UNCHANGED <<requested, generating, yielded>>
  BY DEF Base!Construct, Call

\* Deleting sources leaves the types as they are.
LEMMA DeletedTypes ==
  ASSUME Types, NEW gs
  PROVE  /\ Deleted(gs) \in [Sources -> {"new", "alive", "deleted"}]
         /\ \A g \in Sources : Deleted(gs)[g] = IF g \in gs THEN "deleted" ELSE phase[g]
  BY DEF Types, Deleted

-----------------------------------------------------------------------------
(* Concat: the stacks.                                                       *)

\* What is below the innermost call.
LEMMA ConcatBelowIs ==
  ASSUME NEW c \in ConcatContexts, {1, 2} \subseteq Sources
  PROVE  /\ c.b \in Seq(Frames) /\ ConcatBelow(c) \in Seq(Frames)
         /\ Called(ConcatAfter(c), "After", c.g, c.e, ConcatBelow(c))
         /\ LET r == Call("Release", 0, "none", ConcatAfter(c))
            IN  Called(r, "Release", 0, "none", ConcatAfter(c))
         /\ c.sw => Called(ConcatBelow(c), "After", 1, "done", c.b)
         /\ c.g \in Gens0 /\ c.e \in Words
<1>1. c.b \in Seq(Frames)
  BY TellingIs DEF ConcatContexts, Called
<1>2. c.g \in Gens0 /\ 1 \in Gens0 /\ 0 \in Gens0 /\ c.e \in Words /\ "done" \in Words /\ "none" \in Words
  BY Vocabulary DEF ConcatContexts
<1>3. Called(Call("After", 1, "done", c.b), "After", 1, "done", c.b)
  BY <1>1, <1>2, Vocabulary, CallTop
<1>4. ConcatBelow(c) \in Seq(Frames)
  BY <1>1, <1>3 DEF ConcatBelow, Called
<1>5. Called(ConcatAfter(c), "After", c.g, c.e, ConcatBelow(c))
  BY <1>2, <1>4, Vocabulary, CallTop DEF ConcatAfter
<1>6. ConcatAfter(c) \in Seq(Frames)
  BY <1>5 DEF Called
<1>7. LET r == Call("Release", 0, "none", ConcatAfter(c))
      IN  Called(r, "Release", 0, "none", ConcatAfter(c))
  BY <1>2, <1>6, Vocabulary, CallTop
<1> QED
  BY <1>1, <1>2, <1>3, <1>4, <1>5, <1>7 DEF ConcatBelow

\* The innermost call at each place.
LEMMA ConcatTop ==
  ASSUME NEW c \in ConcatContexts, {1, 2} \subseteq Sources, stack = ConcatStack(c)
  PROVE  /\ c.p = "out" => stack = c.b
         /\ c.p = "out" /\ c.b # <<>> => Called(stack, "UserOnSubscribe", 0, "none", <<>>)
         /\ c.p = "subscribing" => Called(stack, "OnSubscribe", c.g, "none", ConcatBelow(c))
         /\ c.p = "loop" => Called(stack, "Loop", c.g, "none", ConcatBelow(c))
         /\ c.p = "next" => Called(stack, "OnNext", c.g, c.e, ConcatAfter(c))
         /\ c.p = "user" => Called(stack, "UserOnNext", c.g, c.e, ConcatAfter(c))
         /\ c.p = "userEnd" => Called(stack, "UserOnNext", c.g, c.e,
                                      Call("Release", 0, "none", ConcatAfter(c)))
         /\ c.p = "release" => Called(stack, "Release", 0, "none", ConcatAfter(c))
         /\ c.p = "after" => Called(stack, "After", c.g, c.e, ConcatBelow(c))
<1>1. c.p = "out" => stack = c.b /\ (c.b # <<>> => c.b = Telling)
  BY DEF ConcatStack, ConcatContexts
<1> DEFINE r == Call("Release", 0, "none", ConcatAfter(c))
<1>2. /\ c.g \in Gens0 /\ c.e \in Words /\ "none" \in Words
      /\ ConcatBelow(c) \in Seq(Frames) /\ ConcatAfter(c) \in Seq(Frames)
      /\ r \in Seq(Frames)
  BY ConcatBelowIs, Vocabulary DEF Called
<1>3. /\ Called(Call("OnSubscribe", c.g, "none", ConcatBelow(c)),
                "OnSubscribe", c.g, "none", ConcatBelow(c))
      /\ Called(Call("Loop", c.g, "none", ConcatBelow(c)), "Loop", c.g, "none", ConcatBelow(c))
      /\ Called(Call("OnNext", c.g, c.e, ConcatAfter(c)), "OnNext", c.g, c.e, ConcatAfter(c))
      /\ Called(Call("UserOnNext", c.g, c.e, ConcatAfter(c)),
                "UserOnNext", c.g, c.e, ConcatAfter(c))
      /\ Called(Call("UserOnNext", c.g, c.e, r), "UserOnNext", c.g, c.e, r)
  <2> HIDE DEF r
  <2> QED
    BY <1>2, Vocabulary, CallTop
<1> QED
  BY <1>1, <1>3, ConcatBelowIs, TellingIs DEF ConcatStack

\* The innermost call tells the place.
LEMMA ConcatPlace ==
  ASSUME NEW c \in ConcatContexts, {1, 2} \subseteq Sources, stack = ConcatStack(c)
  PROVE  /\ IsTop("OnSubscribe") => c.p = "subscribing"
         /\ IsTop("Loop") => c.p = "loop"
         /\ IsTop("OnNext") => c.p = "next"
         /\ IsTop("After") => c.p = "after"
         /\ IsTop("Release") => c.p = "release"
         /\ IsTop("UserOnSubscribe") => c.p = "out" /\ c.b = Telling
         /\ IsTop("UserOnNext") => c.p \in {"user", "userEnd"}
         /\ stack = <<>> => c.p = "out" /\ c.b = <<>>
         /\ UserActive => c.p \in {"out", "user", "userEnd"}
<1>1. c.p \in ConcatPlaces /\ (c.b # <<>> => c.b = Telling)
  BY DEF ConcatContexts
<1>2. CASE c.p = "out"
  BY <1>1, <1>2, ConcatTop DEF IsTop, Top, Called, UserActive
<1>3. CASE c.p # "out"
  BY <1>1, <1>3, ConcatTop DEF IsTop, Top, Called, UserActive, ConcatPlaces, ConcatRuns
<1> QED
  BY <1>2, <1>3

-----------------------------------------------------------------------------
(* Concat: the steps.                                                        *)

\* The stream is a Concat that is used with care.
IsConcat == /\ CarefulUse /\ Setting /\ kind = "concat"
            /\ {1, 2} \subseteq Sources

\* A source that is alive when nothing of the stream executes is the current one.
LEMMA ConcatAtRest ==
  ASSUME NEW c \in ConcatContexts, ConcatRest(c), c.p = "out"
  PROVE  /\ ~c.sw /\ ConcatBelow(c) = c.b /\ open = (phase[1] # "new")
         /\ \A g \in Sources : Alive(g) =>
              g \in {1, 2} /\ g = upstream /\ open /\ ~ended /\ ~cancelled
<1>1. ~c.sw /\ ConcatBelow(c) = c.b
  BY DEF ConcatRest, ConcatCurrent, ConcatBelow, ConcatContexts
<1>2. open = (phase[1] # "new")
  BY DEF ConcatRest, ConcatBegins, Types
<1>3. ASSUME NEW g \in Sources, Alive(g)
      PROVE  g \in {1, 2} /\ g = upstream /\ open /\ ~ended /\ ~cancelled
  <2>1. g \in {1, 2} /\ phase[g] # "new"
    BY <1>3 DEF ConcatRest, ConcatBegins, Alive, Base!Alive
  <2>2. open
    BY <1>2, <2>1 DEF ConcatRest, ConcatBegins
  <2>3. g = upstream
    BY <1>1, <1>3, <2>1, <2>2 DEF ConcatRest, ConcatCurrent, ConcatBegins, HandedOver
  <2> QED
    BY <1>3, <2>1, <2>2, <2>3 DEF ConcatRest, ConcatOver
<1> QED
  BY <1>1, <1>2, <1>3

\* A source sends an event to Concat.
LEMMA ConcatSendsInv ==
  ASSUME IsConcat, NEW c \in ConcatContexts, ConcatRest(c),
         NEW g \in {1, 2}, NEW ev \in Base!Events,
         \/ c.p = "loop" /\ g = c.g
         \/ c.p = "out" /\ c.b = <<>> /\ g \in late /\ Alive(g),
         Sends(g, ev, ConcatBelow(c)),
         UNCHANGED <<balance, lock, open, userVars, singleVars, concatVars, otherVars>>
  PROVE  ConcatInv'
<1>1. ~(user = "single" /\ c.b = Telling)
  <2>1. Telling # <<>>
    BY TellingIs DEF Called
  <2> QED
    BY <2>1 DEF ConcatRest, ConcatOver
<1>2. /\ g = upstream /\ open /\ ~ended /\ ~cancelled /\ Alive(g) /\ c.p # "next"
  BY ConcatAtRest DEF IsConcat, ConcatRest, ConcatCurrent, ConcatRuns
<1> DEFINE d == [c EXCEPT !.p = "next", !.g = g, !.e = ev]
<1>3. /\ d \in ConcatContexts
      /\ d.p = "next" /\ d.g = g /\ d.e = ev /\ d.b = c.b /\ d.sw = c.sw
  BY DEF ConcatContexts, ConcatPlaces, ConcatRuns
<1> HIDE DEF d
<1>4. /\ stack' = Call("OnNext", g, ev, Call("After", g, ev, ConcatBelow(c)))
      /\ HasRequests(requested[g]) /\ requested' = [requested EXCEPT ![g] = RemoveFrom(@, 1)]
      /\ UNCHANGED <<phase, generating, awaited, fault, balance, lock, open, asked, got, taken,
                      ended, cancelled, answers, runningFirst, upstream, late, kind, user>>
  BY DEF Sends, userVars, singleVars, concatVars, otherVars, settings
<1>5. stack' = ConcatStack(d)
  BY <1>3, <1>4 DEF ConcatStack, ConcatAfter, ConcatBelow
<1>6. Types'
  BY <1>4, SendsTypes DEF ConcatRest, IsConcat, Types
<1>7. ConcatBegins(d)'
  BY <1>2, <1>3, <1>4 DEF ConcatRest, ConcatBegins, Alive, Base!Alive, IsConcat, Types
<1>8. ConcatCurrent(d)'
  BY <1>2, <1>3, <1>4 DEF ConcatRest, ConcatCurrent, ConcatRuns, HandedOver, Alive, Base!Alive
<1>9. ConcatOver(d)'
  BY <1>1, <1>2, <1>3, <1>4 DEF ConcatRest, ConcatOver, Alive, Base!Alive
<1>10. ConcatOwes(d)'
  BY <1>2, <1>3, <1>4 DEF ConcatRest, ConcatOwes, Types, IsConcat, Alive, Base!Alive
<1>11. ConcatFlags(d)'
  BY <1>2, <1>3, <1>4 DEF ConcatRest, ConcatFlags, ConcatRuns, Alive, Base!Alive
<1>12. ConcatAt(d)'
  BY <1>2, <1>3, <1>4, <1>5, <1>6, <1>7, <1>8, <1>9, <1>10, <1>11
     DEF ConcatAt, ConcatRest, AnswersOnce
<1> QED
  BY <1>3, <1>12 DEF ConcatInv

\* Nothing is requested any more of the source that runs.
LEMMA ConcatPauseInv ==
  ASSUME IsConcat, NEW c \in ConcatContexts, ConcatRest(c), c.p = "loop",
         generating' = [generating EXCEPT ![c.g] = FALSE],
         stack' = ConcatBelow(c),
         UNCHANGED <<phase, requested, yielded, awaited, fault, balance, lock, open, userVars,
                     singleVars, concatVars, otherVars>>
  PROVE  ConcatInv'
<1>1. /\ c.g = upstream /\ open /\ ~ended /\ ~cancelled /\ Alive(c.g)
      /\ c.g \in {1, 2} /\ (c.sw => c.g = 2)
  BY DEF ConcatRest, ConcatCurrent, ConcatRuns, ConcatContexts
<1> DEFINE d == IF c.sw THEN [c EXCEPT !.p = "after", !.g = 1, !.e = "done", !.sw = FALSE]
                        ELSE [c EXCEPT !.p = "out"]
<1>2. /\ d \in ConcatContexts
      /\ d.b = c.b /\ ~d.sw
      /\ c.sw => d.p = "after" /\ d.g = 1 /\ d.e = "done"
      /\ ~c.sw => d.p = "out"
  BY DEF ConcatContexts, ConcatPlaces, ConcatRuns, Base!Events
<1> HIDE DEF d
<1>3. /\ UNCHANGED <<phase, requested, yielded, awaited, fault, balance, lock, open, asked, got,
                      taken, ended, cancelled, answers, runningFirst, upstream, late, kind, user>>
  BY DEF userVars, singleVars, concatVars, otherVars, settings
<1>4. stack' = ConcatStack(d)
  BY <1>2 DEF ConcatStack, ConcatAfter, ConcatBelow
<1>5. Types'
  BY <1>1, <1>3 DEF ConcatRest, IsConcat, Types
<1>6. ConcatBegins(d)'
  BY <1>1, <1>2, <1>3 DEF ConcatRest, ConcatBegins, Alive, Base!Alive, IsConcat, Types
<1>7. ConcatCurrent(d)'
  BY <1>1, <1>2, <1>3
     DEF ConcatRest, ConcatCurrent, ConcatRuns, HandedOver, Alive, Base!Alive, Types
<1>8. ConcatOver(d)'
  BY <1>1, <1>2, <1>3 DEF ConcatRest, ConcatOver, Alive, Base!Alive
<1>9. ConcatOwes(d)'
  BY <1>1, <1>2, <1>3 DEF ConcatRest, ConcatOwes, Types, IsConcat, Alive, Base!Alive
<1>10. ConcatFlags(d)'
  BY <1>1, <1>2, <1>3
     DEF ConcatRest, ConcatFlags, ConcatRuns, Alive, Base!Alive, Types, IsConcat
<1>11. ConcatAt(d)'
  BY <1>1, <1>2, <1>3, <1>4, <1>5, <1>6, <1>7, <1>8, <1>9, <1>10
     DEF ConcatAt, ConcatRest, AnswersOnce
<1> QED
  BY <1>2, <1>11 DEF ConcatInv

\* Behind an OnNext of the source: it goes on, waits, or is gone.
LEMMA ConcatReturnsInv ==
  ASSUME IsConcat, NEW c \in ConcatContexts, ConcatRest(c), c.p = "after",
         \/ ~Alive(c.g) /\ phase' = phase /\ stack' = ConcatBelow(c)
         \/ Alive(c.g) /\ Base!IsEnd(c.e) /\ phase' = Deleted({c.g})
            /\ stack' = ConcatBelow(c)
         \/ Alive(c.g) /\ ~Base!IsEnd(c.e) /\ c.g \in late /\ phase' = phase
            /\ stack' = ConcatBelow(c)
         \/ Alive(c.g) /\ ~Base!IsEnd(c.e) /\ c.g \notin late /\ phase' = phase
            /\ stack' = Call("Loop", c.g, "none", ConcatBelow(c)),
         UNCHANGED <<requested, generating, yielded, awaited, fault, balance, lock, open,
                     userVars, singleVars, concatVars, otherVars>>
  PROVE  ConcatInv'
<1> DEFINE goes == Alive(c.g) /\ ~Base!IsEnd(c.e) /\ c.g \notin late
<1>1. /\ c.g \in {1, 2} /\ (c.sw => c.g = 2) /\ open /\ phase[1] # "new" /\ c.e \in Base!Events
      /\ c.g = upstream \/ (c.g = 1 /\ c.e = "done" /\ ~c.sw /\ upstream = 2 /\ ~runningFirst)
  BY DEF ConcatRest, ConcatCurrent, ConcatRuns, ConcatContexts, ConcatBegins, HandedOver
<1>2. PICK d \in ConcatContexts :
        /\ d.b = c.b
        /\ goes => d.p = "loop" /\ d.g = c.g /\ d.e = c.e /\ d.sw = c.sw
        /\ ~goes => ~d.sw
        /\ ~goes /\ c.sw => d.p = "after" /\ d.g = 1 /\ d.e = "done"
        /\ ~goes /\ ~c.sw => d.p = "out"
  <2>1. /\ [c EXCEPT !.p = "loop"] \in ConcatContexts
        /\ [c EXCEPT !.g = 1, !.e = "done", !.sw = FALSE] \in ConcatContexts
        /\ [c EXCEPT !.p = "out"] \in ConcatContexts
    BY DEF ConcatContexts, ConcatPlaces, ConcatRuns, Base!Events
  <2>2. CASE goes
    BY <2>1, <2>2 DEF ConcatContexts
  <2>3. CASE ~goes /\ c.sw
    BY <2>1, <2>3 DEF ConcatContexts
  <2>4. CASE ~goes /\ ~c.sw
    BY <2>1, <2>4 DEF ConcatContexts
  <2> QED
    BY <2>2, <2>3, <2>4
<1>3. /\ UNCHANGED <<requested, generating, yielded, awaited, fault, balance, lock, open, asked,
                      got, taken, ended, cancelled, answers, runningFirst, upstream, late, kind,
                      user>>
  BY DEF userVars, singleVars, concatVars, otherVars, settings
<1>4. /\ phase' \in [Sources -> {"new", "alive", "deleted"}]
      /\ \A k \in Sources : phase'[k] = IF k = c.g /\ Alive(k) /\ Base!IsEnd(c.e)
                                          THEN "deleted" ELSE phase[k]
      /\ \A k \in Sources : phase'[k] = "new" <=> phase[k] = "new"
  BY DeletedTypes DEF ConcatRest, Types, Alive, Base!Alive
<1>5. stack' = ConcatStack(d)
  BY <1>2 DEF ConcatStack, ConcatAfter, ConcatBelow
<1>6. Types'
  BY <1>3, <1>4 DEF ConcatRest, Types
<1>7. ConcatBegins(d)'
  BY <1>1, <1>2, <1>3, <1>4 DEF ConcatRest, ConcatBegins, IsConcat
<1>8. goes => c.g = upstream /\ ~ended /\ ~cancelled
  BY <1>1, Statuses DEF ConcatRest, ConcatOver
<1>9. ~goes /\ c.g = upstream /\ Alive(c.g)' => c.g \in late /\ ~Base!IsEnd(c.e)
  BY <1>1, <1>4 DEF IsConcat, Alive, Base!Alive
<1>10. ConcatCurrent(d)'
  BY <1>1, <1>2, <1>3, <1>4, <1>8, <1>9, Statuses
     DEF ConcatRest, ConcatCurrent, ConcatRuns, HandedOver, Alive, Base!Alive, IsConcat
<1>11. ConcatOver(d)'
  BY <1>1, <1>2, <1>3, <1>4, <1>8, <1>9
     DEF ConcatRest, ConcatOver, Alive, Base!Alive, IsConcat
<1>12. ConcatOwes(d)'
  BY <1>1, <1>2, <1>3, <1>4 DEF ConcatRest, ConcatOwes, IsConcat, Alive, Base!Alive
<1>13. ConcatFlags(d)'
  BY <1>1, <1>2, <1>3, <1>4, <1>9
     DEF ConcatRest, ConcatFlags, ConcatRuns, Alive, Base!Alive, IsConcat
<1>14. ConcatAt(d)'
  BY <1>1, <1>2, <1>3, <1>5, <1>6, <1>7, <1>10, <1>11, <1>12, <1>13
     DEF ConcatAt, ConcatRest, AnswersOnce
<1> QED
  BY <1>14 DEF ConcatInv

\* The first source is subscribed to, and calls OnSubscribe at once or later.
LEMMA ConcatSubscribeInv ==
  ASSUME IsConcat, NEW c \in ConcatContexts, ConcatRest(c), stack = <<>>, stack = ConcatStack(c),
         phase[1] = "new", awaited = {},
         ConcatSubscribe, UNCHANGED <<singleVars, otherVars>>
  PROVE  ConcatInv'
<1>1. Telling # <<>>
  BY TellingIs DEF Called
<1>2. /\ c.p = "out" /\ c.b = <<>> /\ ~c.sw /\ ~open /\ 1 \in Sources
      /\ upstream = 0 /\ runningFirst /\ balance = 0 /\ ~ended /\ ~cancelled
      /\ requested[1] = 0 /\ ~generating[1] /\ phase[2] = "new" /\ got = 0 /\ asked = 0
  BY ConcatPlace DEF ConcatRest, ConcatBegins, ConcatCurrent, IsConcat, ConcatContexts
<1>3. /\ lock' = TRUE /\ DoSubscribe(1, <<>>)
      /\ UNCHANGED <<fault, balance, open, asked, got, taken, ended, cancelled, answers,
                      runningFirst, upstream, late, kind, user>>
  BY DEF ConcatSubscribe, userVars, singleVars, concatVars, otherVars, settings
<1>4. CASE 1 \in late \cap SubscribesLate[kind]
  <2>1. awaited' = {1} /\ stack' = <<>> /\ UNCHANGED <<phase, requested, generating, yielded>>
    BY <1>2, <1>3, <1>4 DEF DoSubscribe
  <2>2. stack' = ConcatStack(c)
    BY <1>2, <2>1 DEF ConcatStack
  <2>3. Types'
    BY <1>2, <1>3, <2>1 DEF Types, ConcatRest
  <2>4. ConcatBegins(c)'
    BY <1>2, <1>3, <2>1 DEF ConcatRest, ConcatBegins
  <2>5. ConcatCurrent(c)' /\ ConcatOver(c)' /\ ConcatOwes(c)' /\ ConcatFlags(c)'
    BY <1>2, <1>3, <2>1
       DEF ConcatRest, ConcatCurrent, ConcatOver, ConcatOwes, ConcatFlags, ConcatRuns, Alive,
           Base!Alive, HandedOver
  <2>6. ConcatAt(c)'
    BY <1>2, <1>3, <2>1, <2>2, <2>3, <2>4, <2>5 DEF ConcatAt, ConcatRest, AnswersOnce
  <2> QED
    BY <2>6 DEF ConcatInv
<1>5. CASE 1 \notin late \cap SubscribesLate[kind]
  <2>1. /\ phase' = [phase EXCEPT ![1] = "alive"]
        /\ stack' = Call("OnSubscribe", 1, "none", <<>>)
        /\ UNCHANGED <<requested, generating, yielded, awaited>>
    BY <1>2, <1>3, <1>5, ConstructIs DEF DoSubscribe, ConcatRest
  <2> DEFINE d == [c EXCEPT !.p = "subscribing", !.g = 1]
  <2>2. /\ d \in ConcatContexts
        /\ d.p = "subscribing" /\ d.g = 1 /\ d.b = <<>> /\ ~d.sw
    BY <1>2 DEF ConcatContexts, ConcatPlaces, ConcatRuns
  <2> HIDE DEF d
  <2>3. stack' = ConcatStack(d)
    BY <2>1, <2>2 DEF ConcatStack, ConcatBelow
  <2>4. Types'
    BY <1>2, <1>3, <2>1 DEF Types, ConcatRest
  <2>5. phase'[1] = "alive" /\ \A g \in Sources \ {1} : phase'[g] = phase[g]
    BY <1>2, <2>1 DEF ConcatRest, Types
  <2>6. ConcatBegins(d)'
    <3>1. /\ \A g \in Sources \ {1, 2} : phase[g] = "new"
          /\ \A g \in Sources : phase[g] = "new" => requested[g] = 0 /\ ~generating[g]
      BY <1>2 DEF ConcatRest, ConcatBegins
    <3>2. awaited' = {}
      BY <2>1
    <3>3. /\ \A g \in Sources \ {1, 2} : phase'[g] = "new"
          /\ \A g \in Sources : phase'[g] = "new" => requested'[g] = 0 /\ ~generating'[g]
      BY <2>1, <2>5, <3>1
    <3>4. phase'[2] = "new"
      BY <1>2, <2>5 DEF IsConcat
    <3>5. /\ ~open' /\ upstream' = 0 /\ runningFirst' /\ balance' = 0
          /\ ~ended' /\ ~cancelled' /\ got' = 0 /\ asked' = 0
      BY <1>2, <1>3
    <3> QED
      BY <2>2, <2>5, <3>2, <3>3, <3>4, <3>5 DEF ConcatBegins
  <2>7. Alive(1)'
    BY <2>5 DEF Alive, Base!Alive
  <2>8. ConcatCurrent(d)'
    BY <1>2, <1>3, <2>1, <2>2, <2>7 DEF ConcatCurrent, ConcatRuns
  <2>9. ConcatOver(d)' /\ ConcatOwes(d)'
    BY <1>1, <1>2, <1>3, <2>2 DEF ConcatOver, ConcatOwes
  <2>10. ConcatFlags(d)'
    BY <1>1, <1>2, <1>3, <2>1, <2>2, <2>5
       DEF ConcatRest, ConcatFlags, ConcatRuns, Alive, Base!Alive, IsConcat
  <2>11. ConcatAt(d)'
    BY <1>2, <1>3, <2>1, <2>2, <2>3, <2>4, <2>6, <2>8, <2>9, <2>10
       DEF ConcatAt, ConcatRest, AnswersOnce
  <2> QED
    BY <2>2, <2>11 DEF ConcatInv
<1> QED
  BY <1>4, <1>5

\* A source that is late with OnSubscribe calls it.
LEMMA ConcatLateSubscribeInv ==
  ASSUME IsConcat, NEW c \in ConcatContexts, ConcatRest(c), stack = <<>>, stack = ConcatStack(c),
         NEW g \in Sources, LateSubscribe(g),
         UNCHANGED <<balance, lock, open, userVars, singleVars, concatVars, otherVars>>
  PROVE  ConcatInv'
<1>1. Telling # <<>>
  BY TellingIs DEF Called
<1>2. /\ g = 1 /\ awaited = {1}
      /\ awaited' = awaited \ {1}
      /\ phase' = [phase EXCEPT ![1] = "alive"]
      /\ stack' = Call("OnSubscribe", 1, "none", <<>>)
      /\ UNCHANGED <<requested, generating, yielded>>
  <2>1. g \in awaited /\ awaited \subseteq {1}
    BY DEF LateSubscribe, ConcatRest, ConcatBegins
  <2>2. g = 1 /\ awaited = {1}
    BY <2>1
  <2> QED
    BY <2>2, ConstructIs DEF LateSubscribe, ConcatRest
<1>3. /\ c.p = "out" /\ c.b = <<>> /\ ~c.sw /\ ~open /\ 1 \in Sources /\ lock
      /\ upstream = 0 /\ runningFirst /\ balance = 0 /\ ~ended /\ ~cancelled
      /\ phase[1] = "new" /\ got = 0 /\ asked = 0
  <2>1. awaited # {}
    BY <1>2
  <2> QED
    BY <2>1, ConcatPlace DEF ConcatRest, ConcatBegins, ConcatCurrent, IsConcat, ConcatContexts
<1>4. requested[1] = 0 /\ ~generating[1]
  BY <1>3 DEF ConcatRest, ConcatBegins
<1>5. UNCHANGED <<fault, balance, lock, open, asked, got, taken, ended, cancelled, answers,
                   runningFirst, upstream, late, kind, user>>
  BY DEF LateSubscribe, userVars, singleVars, concatVars, otherVars, settings
<1> DEFINE d == [c EXCEPT !.p = "subscribing", !.g = 1]
<1>6. /\ d \in ConcatContexts
      /\ d.p = "subscribing" /\ d.g = 1 /\ d.b = <<>> /\ ~d.sw
  BY <1>3 DEF ConcatContexts, ConcatPlaces, ConcatRuns
<1> HIDE DEF d
<1>7. stack' = ConcatStack(d)
  BY <1>2, <1>6 DEF ConcatStack, ConcatBelow
<1>8. Types' /\ awaited' = {}
  BY <1>2, <1>3, <1>5 DEF Types, ConcatRest
<1>9. ConcatBegins(d)'
  BY <1>2, <1>3, <1>5, <1>6, <1>8 DEF ConcatRest, ConcatBegins, Types, IsConcat
<1>10. ConcatCurrent(d)' /\ ConcatOver(d)' /\ ConcatOwes(d)' /\ ConcatFlags(d)'
  BY <1>1, <1>2, <1>3, <1>4, <1>5, <1>6
     DEF ConcatRest, ConcatCurrent, ConcatOver, ConcatOwes, ConcatFlags, ConcatRuns, Alive,
         Base!Alive, HandedOver, Types, IsConcat
<1>11. ConcatAt(d)'
  BY <1>3, <1>5, <1>6, <1>7, <1>8, <1>9, <1>10 DEF ConcatAt, ConcatRest, AnswersOnce
<1> QED
  BY <1>6, <1>11 DEF ConcatInv

\* The first source calls OnSubscribe, and the subscriber is told.
LEMMA ConcatConfirmInv ==
  ASSUME IsConcat, NEW c \in ConcatContexts, ConcatRest(c), stack = ConcatStack(c),
         ConcatOnSubscribe, runningFirst, UNCHANGED <<singleVars, otherVars>>
  PROVE  ConcatInv'
<1>1. /\ c.p = "subscribing" /\ c.g = 1 /\ ~c.sw /\ c.b = <<>>
      /\ Top.gen = 1 /\ Tail(stack) = <<>> /\ ConcatBelow(c) = <<>>
      /\ upstream = 0 /\ Alive(1) /\ ~ended /\ ~cancelled /\ lock /\ balance = 0
      /\ requested[1] = 0 /\ ~generating[1] /\ got = 0 /\ asked = 0 /\ phase[2] = "new"
  BY ConcatPlace, ConcatTop
     DEF ConcatOnSubscribe, ConcatRest, ConcatBegins, ConcatCurrent, IsConcat, ConcatContexts,
         Called, Top, ConcatBelow
<1>2. /\ stack' = Telling /\ open' = TRUE /\ fault' = FALSE /\ upstream' = 1
      /\ UNCHANGED <<phase, requested, generating, yielded, awaited, balance, lock, asked, got,
                      taken, ended, cancelled, answers, runningFirst, late, kind, user>>
  BY <1>1
     DEF ConcatOnSubscribe, ConfirmSubscription, Telling, sourceVars, userVars, singleVars,
         otherVars, settings
<1> DEFINE d == [c EXCEPT !.p = "out", !.b = Telling]
<1>3. /\ d \in ConcatContexts
      /\ d.p = "out" /\ d.b = Telling /\ ~d.sw
  BY <1>1 DEF ConcatContexts, ConcatPlaces, ConcatRuns
<1> HIDE DEF d
<1>4. stack' = ConcatStack(d)
  BY <1>2, <1>3 DEF ConcatStack
<1>5. Types'
  BY <1>2 DEF Types, ConcatRest
<1>6. ConcatBegins(d)'
  BY <1>1, <1>2, <1>3 DEF ConcatRest, ConcatBegins, Types, IsConcat, Alive, Base!Alive
<1>7. ConcatCurrent(d)' /\ ConcatOver(d)' /\ ConcatOwes(d)' /\ ConcatFlags(d)'
  BY <1>1, <1>2, <1>3
     DEF ConcatRest, ConcatCurrent, ConcatOver, ConcatOwes, ConcatFlags, ConcatRuns, Alive,
         Base!Alive, HandedOver, Types, IsConcat
<1>8. ConcatAt(d)'
  BY <1>1, <1>2, <1>3, <1>4, <1>5, <1>6, <1>7 DEF ConcatAt, ConcatRest, AnswersOnce
<1> QED
  BY <1>3, <1>8 DEF ConcatInv

\* The second source calls OnSubscribe, and is asked for what is still owed.
LEMMA ConcatRollOverInv ==
  ASSUME IsConcat, NEW c \in ConcatContexts, ConcatRest(c), stack = ConcatStack(c),
         ConcatOnSubscribe, ~runningFirst, UNCHANGED <<singleVars, otherVars>>
  PROVE  ConcatInv'
<1>1. /\ c.p = "subscribing" /\ c.g = 2 /\ c.sw /\ open
      /\ Top.gen = 2 /\ Tail(stack) = ConcatBelow(c)
      /\ upstream = 0 /\ Alive(2) /\ ~ended /\ ~cancelled /\ lock /\ HasRequests(balance)
      /\ requested[2] = 0 /\ ~generating[2] /\ 2 \in Sources /\ balance \in Balance
      /\ balance \in Nat /\ balance > 0 /\ AddTo(0, balance) = balance
  <2>1. /\ c.p = "subscribing" /\ c.g = 2 /\ c.sw /\ open /\ Top.gen = 2
        /\ Tail(stack) = ConcatBelow(c)
        /\ upstream = 0 /\ Alive(2) /\ ~ended /\ ~cancelled /\ lock /\ HasRequests(balance)
        /\ requested[2] = 0 /\ ~generating[2] /\ 2 \in Sources /\ balance \in Balance
    BY ConcatPlace, ConcatTop
       DEF ConcatOnSubscribe, ConcatRest, ConcatBegins, ConcatCurrent, IsConcat,
           ConcatContexts,
           Called, Top, ConcatOwes, Types
  <2> QED
    BY <2>1, Counting DEF HasRequests
<1>2. /\ RequestUp(2, balance, ConcatBelow(c)) /\ fault' = FALSE /\ upstream' = 2
      /\ UNCHANGED <<balance, lock, open, asked, got, taken, ended, cancelled, answers,
                      runningFirst, late, kind, user>>
  BY <1>1 DEF ConcatOnSubscribe, RolledOver, userVars, singleVars, otherVars, settings
<1>3. /\ requested' = [requested EXCEPT ![2] = balance]
      /\ UNCHANGED <<phase, yielded, awaited>>
      /\ 2 \in late => generating' = generating /\ stack' = ConcatBelow(c)
      /\ 2 \notin late => /\ generating' = [generating EXCEPT ![2] = TRUE]
                          /\ stack' = Call("Loop", 2, "none", ConcatBelow(c))
  BY <1>1, <1>2, RequestUpIs DEF ConcatRest
<1>4. Types'
  BY <1>1, <1>2, <1>3 DEF Types, ConcatRest
<1>5. CASE 2 \in late
  <2> DEFINE d == [c EXCEPT !.p = "after", !.g = 1, !.e = "done", !.sw = FALSE]
  <2>1. /\ d \in ConcatContexts
        /\ d.p = "after" /\ d.g = 1 /\ d.e = "done" /\ d.b = c.b /\ ~d.sw
    BY <1>1 DEF ConcatContexts, ConcatPlaces, ConcatRuns, Base!Events
  <2> HIDE DEF d
  <2>2. stack' = ConcatStack(d)
    BY <1>1, <1>3, <1>5, <2>1 DEF ConcatStack, ConcatAfter, ConcatBelow
  <2>3. ConcatBegins(d)'
    BY <1>1, <1>2, <1>3, <1>5, <2>1
       DEF ConcatRest, ConcatBegins, Types, IsConcat, Alive, Base!Alive
  <2>4. ConcatCurrent(d)' /\ ConcatOver(d)' /\ ConcatOwes(d)' /\ ConcatFlags(d)'
    BY <1>1, <1>2, <1>3, <1>5, <2>1
       DEF ConcatRest, ConcatCurrent, ConcatOver, ConcatOwes, ConcatFlags, ConcatRuns, Alive,
           Base!Alive, HandedOver, Types, IsConcat
  <2>5. ConcatAt(d)'
    BY <1>1, <1>2, <1>4, <2>1, <2>2, <2>3, <2>4 DEF ConcatAt, ConcatRest, AnswersOnce
  <2> QED
    BY <2>1, <2>5 DEF ConcatInv
<1>6. CASE 2 \notin late
  <2> DEFINE d == [c EXCEPT !.p = "loop"]
  <2>1. /\ d \in ConcatContexts
        /\ d.p = "loop" /\ d.g = 2 /\ d.e = c.e /\ d.b = c.b /\ d.sw
    BY <1>1 DEF ConcatContexts, ConcatPlaces, ConcatRuns, Base!Events
  <2> HIDE DEF d
  <2>2. stack' = ConcatStack(d)
    BY <1>1, <1>3, <1>6, <2>1 DEF ConcatStack, ConcatAfter, ConcatBelow
  <2>3. ConcatBegins(d)'
    BY <1>1, <1>2, <1>3, <1>6, <2>1
       DEF ConcatRest, ConcatBegins, Types, IsConcat, Alive, Base!Alive
  <2>4. ConcatCurrent(d)' /\ ConcatOver(d)' /\ ConcatOwes(d)' /\ ConcatFlags(d)'
    BY <1>1, <1>2, <1>3, <1>6, <2>1
       DEF ConcatRest, ConcatCurrent, ConcatOver, ConcatOwes, ConcatFlags, ConcatRuns, Alive,
           Base!Alive, HandedOver, Types, IsConcat
  <2>5. ConcatAt(d)'
    BY <1>1, <1>2, <1>4, <2>1, <2>2, <2>3, <2>4 DEF ConcatAt, ConcatRest, AnswersOnce
  <2> QED
    BY <2>1, <2>5 DEF ConcatInv
<1> QED
  BY <1>5, <1>6

\* At the OnNext of a source.
LEMMA ConcatAtNext ==
  ASSUME IsConcat, NEW c \in ConcatContexts, ConcatRest(c), stack = ConcatStack(c), IsTop("OnNext")
  PROVE  /\ c.p = "next" /\ Top.gen = c.g /\ Top.ev = c.e /\ Tail(stack) = ConcatAfter(c)
         /\ c.g = upstream /\ c.g \in {1, 2} /\ c.e \in Base!Events
         /\ open /\ lock /\ Alive(c.g) /\ ~ended /\ ~cancelled
         /\ HasRequests(balance) /\ CanRemove(balance, 1)
         /\ RemoveFrom(balance, 1) = requested[upstream] /\ RemoveFrom(balance, 1) \in Balance
<1>1. c.p = "next" /\ Top.gen = c.g /\ Top.ev = c.e /\ Tail(stack) = ConcatAfter(c)
  BY ConcatPlace, ConcatTop DEF IsConcat, Called, Top
<1>2. /\ c.g = upstream /\ c.g \in {1, 2} /\ c.e \in Base!Events
      /\ open /\ lock /\ Alive(c.g) /\ ~ended /\ ~cancelled
  BY <1>1 DEF ConcatRest, ConcatCurrent, ConcatOver, ConcatContexts, ConcatRuns
<1>3. /\ HasRequests(balance) /\ RemoveFrom(balance, 1) = requested[upstream]
      /\ balance \in Balance
  BY <1>1, <1>2 DEF ConcatRest, ConcatOwes, Types
<1> QED
  BY <1>1, <1>2, <1>3, Counting

\* A value is passed on.
LEMMA ConcatValueInv ==
  ASSUME IsConcat, NEW c \in ConcatContexts, ConcatRest(c), stack = ConcatStack(c),
         ConcatValue, UNCHANGED <<singleVars, otherVars>>
  PROVE  ConcatInv'
<1>1. /\ c.p = "next" /\ Top.gen = c.g /\ Top.ev = c.e /\ Tail(stack) = ConcatAfter(c)
      /\ c.g = upstream /\ c.g \in {1, 2} /\ c.e = "value"
      /\ open /\ lock /\ Alive(c.g) /\ ~ended /\ ~cancelled
      /\ HasRequests(balance) /\ CanRemove(balance, 1)
      /\ RemoveFrom(balance, 1) = requested[upstream] /\ RemoveFrom(balance, 1) \in Balance
  BY ConcatAtNext DEF ConcatValue
<1>2. /\ stack' = Call("UserOnNext", c.g, "value", ConcatAfter(c))
      /\ balance' = RemoveFrom(balance, 1) /\ fault' = FALSE /\ got' = got + 1
      /\ taken' = [taken EXCEPT ![c.g] = @ + 1]
      /\ UNCHANGED <<phase, requested, generating, yielded, awaited, lock, open, asked,
                      cancelled, answers, runningFirst, upstream, late, kind, user>>
  BY <1>1 DEF ConcatValue, SendDown, sourceVars, concatVars, singleVars, otherVars, settings
<1>3. ended' = ended
  BY <1>1, Statuses DEF ConcatValue, SendDown, ConcatRest, Types
<1> DEFINE d == [c EXCEPT !.p = "user"]
<1>4. /\ d \in ConcatContexts
      /\ d.p = "user" /\ d.g = c.g /\ d.e = c.e /\ d.b = c.b /\ d.sw = c.sw
  BY <1>1 DEF ConcatContexts, ConcatPlaces, ConcatRuns
<1> HIDE DEF d
<1>5. stack' = ConcatStack(d)
  BY <1>1, <1>2, <1>4 DEF ConcatStack, ConcatAfter, ConcatBelow
<1>6. Types'
  <2>1. c.g \in Sources /\ Types
    BY <1>1 DEF IsConcat, ConcatRest
  <2>2. taken' \in [Sources -> Nat] /\ got' \in Nat
    BY <1>2, <2>1 DEF Types
  <2> QED
    BY <1>1, <1>2, <1>3, <2>1, <2>2 DEF Types
<1>7. ConcatBegins(d)'
  BY <1>1, <1>2, <1>3, <1>4 DEF ConcatRest, ConcatBegins, Types, IsConcat, Alive, Base!Alive
<1>8. ConcatCurrent(d)' /\ ConcatOver(d)' /\ ConcatOwes(d)' /\ ConcatFlags(d)'
  BY <1>1, <1>2, <1>3, <1>4
     DEF ConcatRest, ConcatCurrent, ConcatOver, ConcatOwes, ConcatFlags, ConcatRuns, Alive,
         Base!Alive, HandedOver, Types, IsConcat
<1>9. ConcatAt(d)'
  BY <1>1, <1>2, <1>3, <1>4, <1>5, <1>6, <1>7, <1>8
     DEF ConcatAt, ConcatRest, AnswersOnce, Types
<1> QED
  BY <1>4, <1>9 DEF ConcatInv

\* The end is passed on, and the lock is to be dropped.
LEMMA ConcatEndInv ==
  ASSUME IsConcat, NEW c \in ConcatContexts, ConcatRest(c), stack = ConcatStack(c),
         ConcatEnd, UNCHANGED <<singleVars, otherVars>>
  PROVE  ConcatInv'
<1>1. /\ c.p = "next" /\ Top.gen = c.g /\ Top.ev = c.e /\ Tail(stack) = ConcatAfter(c)
      /\ c.g = upstream /\ c.g \in {1, 2} /\ c.g \in Sources
      /\ c.e = "error" \/ (c.e = "done" /\ ~runningFirst)
      /\ open /\ lock /\ Alive(c.g) /\ ~ended /\ ~cancelled /\ HasRequests(balance)
  BY ConcatAtNext DEF ConcatEnd, Final, IsConcat
<1>2. /\ stack' = Call("UserOnNext", c.g, c.e, Call("Release", 0, "none", ConcatAfter(c)))
      /\ ended' = TRUE /\ got' = got + 1
      /\ UNCHANGED <<phase, requested, generating, yielded, awaited, balance, lock, open, asked,
                      taken, fault, cancelled, answers, runningFirst, upstream, late, kind, user>>
  <2>1. c.e # "value" /\ Base!IsEnd(c.e)
    BY <1>1, Statuses
  <2>2. taken' = taken
    BY <1>1, <2>1 DEF ConcatEnd, SendDown, ConcatRest, Types
  <2> QED
    BY <1>1, <2>1, <2>2
       DEF ConcatEnd, SendDown, sourceVars, concatVars, singleVars, otherVars, settings
<1> DEFINE d == [c EXCEPT !.p = "userEnd"]
<1>3. /\ d \in ConcatContexts
      /\ d.p = "userEnd" /\ d.g = c.g /\ d.e = c.e /\ d.b = c.b /\ d.sw = c.sw
  BY <1>1 DEF ConcatContexts, ConcatPlaces, ConcatRuns
<1> HIDE DEF d
<1>4. stack' = ConcatStack(d)
  BY <1>1, <1>2, <1>3 DEF ConcatStack, ConcatAfter, ConcatBelow
<1>5. Types'
  BY <1>1, <1>2 DEF Types, ConcatRest
<1>6. ConcatBegins(d)'
  BY <1>1, <1>2, <1>3 DEF ConcatRest, ConcatBegins, Types, IsConcat, Alive, Base!Alive
<1>7. ConcatCurrent(d)' /\ ConcatOver(d)' /\ ConcatOwes(d)' /\ ConcatFlags(d)'
  BY <1>1, <1>2, <1>3, Statuses
     DEF ConcatRest, ConcatCurrent, ConcatOver, ConcatOwes, ConcatFlags, ConcatRuns, Alive,
         Base!Alive, HandedOver, Types, IsConcat
<1>8. ConcatAt(d)'
  BY <1>1, <1>2, <1>3, <1>4, <1>5, <1>6, <1>7 DEF ConcatAt, ConcatRest, AnswersOnce, Types
<1> QED
  BY <1>3, <1>8 DEF ConcatInv

\* The end was delivered, and the lock is dropped.
LEMMA ConcatReleaseInv ==
  ASSUME IsConcat, NEW c \in ConcatContexts, ConcatRest(c), stack = ConcatStack(c),
         ConcatRelease, UNCHANGED <<singleVars, otherVars>>
  PROVE  ConcatInv'
<1>1. /\ c.p = "release" /\ Tail(stack) = ConcatAfter(c)
      /\ c.g = upstream /\ c.g \in {1, 2} /\ Base!IsEnd(c.e)
      /\ open /\ lock /\ ended /\ HasRequests(balance)
  BY ConcatPlace, ConcatTop
     DEF ConcatRelease, IsConcat, Called, ConcatRest, ConcatCurrent, ConcatOver,
         ConcatContexts,
         ConcatRuns
<1>2. /\ stack' = ConcatAfter(c) /\ lock' = FALSE /\ fault' = FALSE
      /\ UNCHANGED <<phase, requested, generating, yielded, awaited, balance, open, asked, got,
                      taken, ended, cancelled, answers, runningFirst, upstream, late, kind, user>>
  BY <1>1
     DEF ConcatRelease, SharedAlive, sourceVars, userVars, concatVars, singleVars, otherVars,
         settings
<1> DEFINE d == [c EXCEPT !.p = "after"]
<1>3. /\ d \in ConcatContexts
      /\ d.p = "after" /\ d.g = c.g /\ d.e = c.e /\ d.b = c.b /\ d.sw = c.sw
  BY <1>1 DEF ConcatContexts, ConcatPlaces, ConcatRuns
<1> HIDE DEF d
<1>4. stack' = ConcatStack(d)
  BY <1>1, <1>2, <1>3 DEF ConcatStack, ConcatAfter, ConcatBelow
<1>5. Types'
  BY <1>1, <1>2 DEF Types, ConcatRest
<1>6. ConcatBegins(d)'
  BY <1>1, <1>2, <1>3 DEF ConcatRest, ConcatBegins, Types, IsConcat, Alive, Base!Alive
<1>7. c.g = 1 => c.e # "done"
  BY <1>1 DEF ConcatRest, ConcatCurrent
<1>8. ConcatCurrent(d)' /\ ConcatOver(d)' /\ ConcatOwes(d)' /\ ConcatFlags(d)'
  BY <1>1, <1>2, <1>3, Statuses
     DEF ConcatRest, ConcatCurrent, ConcatOver, ConcatOwes, ConcatFlags, ConcatRuns, Alive,
         Base!Alive, HandedOver, Types, IsConcat
<1>9. ConcatAt(d)'
  BY <1>1, <1>2, <1>3, <1>4, <1>5, <1>6, <1>8 DEF ConcatAt, ConcatRest, AnswersOnce, Types
<1> QED
  BY <1>3, <1>9 DEF ConcatInv

\* Done of the first source: the second one is subscribed to, from within.
LEMMA ConcatSwitchInv ==
  ASSUME IsConcat, NEW c \in ConcatContexts, ConcatRest(c), stack = ConcatStack(c),
         ConcatSwitch, UNCHANGED <<singleVars, otherVars>>
  PROVE  ConcatInv'
<1>1. /\ c.p = "next" /\ Top.ev = c.e /\ Tail(stack) = ConcatAfter(c)
      /\ c.g = upstream /\ c.g \in {1, 2} /\ c.e = "done" /\ runningFirst
      /\ open /\ lock /\ Alive(c.g) /\ ~ended /\ ~cancelled /\ HasRequests(balance)
  BY ConcatAtNext, Statuses DEF ConcatSwitch, Final, Base!IsEnd
<1>2. /\ c.g = 1 /\ ~c.sw /\ 2 \in Sources
      /\ phase[2] = "new" /\ requested[2] = 0 /\ ~generating[2]
  BY <1>1 DEF ConcatRest, ConcatBegins, ConcatCurrent, IsConcat
<1>3. /\ upstream' = 0 /\ runningFirst' = FALSE /\ lock' = TRUE
      /\ UNCHANGED <<fault, balance, open, asked, got, taken, ended, cancelled, answers, late,
                      kind, user>>
  BY DEF ConcatSwitch, userVars, singleVars, otherVars, settings
<1>4. Base!Construct(2, ConcatAfter(c)) /\ awaited' = awaited
  <2>1. 2 \notin SubscribesLate[kind]
    BY DEF IsConcat, CarefulUse, Setting
  <2> QED
    BY <1>1, <2>1 DEF ConcatSwitch, DoSubscribe
<1>5. /\ phase' = [phase EXCEPT ![2] = "alive"]
      /\ stack' = Call("OnSubscribe", 2, "none", ConcatAfter(c))
      /\ UNCHANGED <<requested, generating, yielded>>
  BY <1>2, <1>4, ConstructIs DEF ConcatRest
<1> DEFINE d == [c EXCEPT !.p = "subscribing", !.g = 2, !.sw = TRUE]
<1>6. /\ d \in ConcatContexts
      /\ d.p = "subscribing" /\ d.g = 2 /\ d.b = c.b /\ d.sw
  BY <1>1 DEF ConcatContexts, ConcatPlaces, ConcatRuns
<1> HIDE DEF d
<1>7. stack' = ConcatStack(d)
  BY <1>1, <1>2, <1>5, <1>6 DEF ConcatStack, ConcatAfter, ConcatBelow
<1>8. Types'
  BY <1>2, <1>3, <1>4, <1>5 DEF Types, ConcatRest
<1>9. ConcatBegins(d)'
  BY <1>1, <1>2, <1>3, <1>4, <1>5, <1>6
     DEF ConcatRest, ConcatBegins, Types, IsConcat, Alive, Base!Alive
<1>10. ConcatCurrent(d)' /\ ConcatOver(d)' /\ ConcatOwes(d)' /\ ConcatFlags(d)'
  BY <1>1, <1>2, <1>3, <1>4, <1>5, <1>6, Statuses
     DEF ConcatRest, ConcatCurrent, ConcatOver, ConcatOwes, ConcatFlags, ConcatRuns, Alive,
         Base!Alive, HandedOver, Types, IsConcat
<1>11. ConcatAt(d)'
  BY <1>1, <1>2, <1>3, <1>6, <1>7, <1>8, <1>9, <1>10
     DEF ConcatAt, ConcatRest, AnswersOnce, Types
<1> QED
  BY <1>6, <1>11 DEF ConcatInv

\* A call of the subscriber returns.
LEMMA ConcatPopped ==
  ASSUME IsConcat, NEW c \in ConcatContexts, ConcatRest(c), stack = ConcatStack(c),
         stack # <<>>, UserActive
  PROVE  /\ open /\ c.p \in {"out", "user", "userEnd"}
         /\ \E d \in ConcatContexts :
              /\ ConcatRest(d) /\ Tail(stack) = ConcatStack(d) /\ d.g = c.g
              /\ d.p = CASE c.p = "out"     -> "out"
                         [] c.p = "user"    -> "after"
                         [] c.p = "userEnd" -> "release"
<1>1. /\ c.p \in {"out", "user", "userEnd"} /\ open
      /\ c.p = "out" => c.b # <<>> /\ Tail(stack) = <<>>
      /\ c.p = "user" => Tail(stack) = ConcatAfter(c)
      /\ c.p = "userEnd" => Tail(stack) = Call("Release", 0, "none", ConcatAfter(c))
  BY ConcatPlace, ConcatTop DEF IsConcat, Called, ConcatRest, ConcatBegins
<1> DEFINE q == CASE c.p = "out"     -> "out"
                  [] c.p = "user"    -> "after"
                  [] c.p = "userEnd" -> "release"
           d == [c EXCEPT !.p = q, !.b = IF c.p = "out" THEN <<>> ELSE c.b]
<1>2. /\ d \in ConcatContexts
      /\ d.g = c.g /\ d.e = c.e /\ d.sw = c.sw
      /\ c.p = "out" => d.p = "out" /\ d.b = <<>>
      /\ c.p = "user" => d.p = "after" /\ d.b = c.b
      /\ c.p = "userEnd" => d.p = "release" /\ d.b = c.b
      /\ d.p = q
  BY <1>1 DEF ConcatContexts, ConcatPlaces, ConcatRuns
<1> HIDE DEF d
<1>3. Tail(stack) = ConcatStack(d)
  BY <1>1, <1>2 DEF ConcatStack, ConcatAfter, ConcatBelow
<1>4. ConcatBegins(d)
  BY <1>1, <1>2 DEF ConcatRest, ConcatBegins
<1>5. ConcatCurrent(d) /\ ConcatOver(d) /\ ConcatOwes(d) /\ ConcatFlags(d)
  BY <1>1, <1>2, Statuses
     DEF ConcatRest, ConcatCurrent, ConcatOver, ConcatOwes, ConcatFlags, ConcatRuns,
         HandedOver,
         ConcatContexts
<1>6. ConcatRest(d)
  BY <1>1, <1>2, <1>4, <1>5 DEF ConcatRest, AnswersOnce
<1> QED
  BY <1>1, <1>2, <1>3, <1>6

\* The subscriber requests n events: the current source is asked, and may start.
LEMMA ConcatRequestInv ==
  ASSUME IsConcat, NEW c \in ConcatContexts, ConcatRest(c), c.p \in {"out", "user", "userEnd"},
         open = TRUE, NEW n \in Nat, NEW rest, rest = ConcatStack(c),
         user = "single" => c.b # Telling, asked' = asked + n,
         ConcatRequest(n, rest),
         UNCHANGED <<open, got, taken, ended, singleVars, otherVars>>
  PROVE  ConcatInv'
<1>1. /\ upstream \in Sources /\ upstream \in {1, 2}
      /\ phase[1] # "new" /\ balance \in Balance /\ requested[upstream] \in Balance
  BY DEF ConcatRest, ConcatCurrent, ConcatBegins, IsConcat, Types
<1>2. /\ AddTo(balance, n) \in Balance /\ AddTo(requested[upstream], n) \in Balance
      /\ HasRequests(balance) => HasRequests(AddTo(balance, n))
  BY <1>1, Counting
<1>3. /\ fault' = FALSE /\ balance' = AddTo(balance, n) /\ asked' = asked + n
      /\ UNCHANGED <<lock, open, got, taken, ended, cancelled, answers, runningFirst, upstream,
                      late, kind, user>>
  <2>1. upstream # 0
    BY <1>1
  <2>2. fault' = FALSE /\ balance' = AddTo(balance, n)
    BY <2>1 DEF ConcatRequest
  <2>3. UNCHANGED <<lock, runningFirst, upstream>>
    BY DEF ConcatRequest, concatVars
  <2>4. UNCHANGED <<open, got, taken, ended, cancelled, answers, late, kind, user>>
    BY DEF singleVars, otherVars, settings
  <2> QED
    BY <2>2, <2>3, <2>4
<1>4. CASE ~Alive(upstream)
  <2>1. /\ stack' = rest
        /\ UNCHANGED <<phase, requested, generating, yielded, awaited>>
    BY <1>4 DEF ConcatRequest, sourceVars
  <2>2. Types'
    <3>1. Types
      BY DEF ConcatRest
    <3>2. asked' \in Nat
      BY <1>3, <3>1 DEF Types
    <3>3. fault' \in BOOLEAN
      BY <1>3, <3>1
    <3>4. balance' \in Balance
      BY <1>2, <1>3
    <3> QED
      BY <1>3, <2>1, <3>1, <3>2, <3>3, <3>4 DEF Types
  <2>3. ConcatBegins(c)'
    BY <1>1, <1>3, <2>1 DEF ConcatRest, ConcatBegins
  <2>4. ConcatCurrent(c)' /\ ConcatOver(c)' /\ ConcatOwes(c)' /\ ConcatFlags(c)'
    BY <1>1, <1>2, <1>3, <1>4, <2>1
       DEF ConcatRest, ConcatCurrent, ConcatOver, ConcatOwes, ConcatFlags, ConcatRuns, Alive,
           Base!Alive, HandedOver
  <2>5. ConcatAt(c)'
    BY <1>3, <2>1, <2>2, <2>3, <2>4 DEF ConcatAt, ConcatRest, AnswersOnce, ConcatStack,
       ConcatAfter, ConcatBelow
  <2> QED
    BY <2>5 DEF ConcatInv
<1>5. CASE Alive(upstream)
  <2>1. RequestUp(upstream, n, rest)
    BY <1>1, <1>5 DEF ConcatRequest
  <2>2. /\ requested' = [requested EXCEPT ![upstream] = AddTo(@, n)]
        /\ UNCHANGED <<phase, yielded, awaited>>
        /\ upstream \in late \/ generating[upstream] =>
             generating' = generating /\ stack' = rest
        /\ upstream \notin late /\ ~generating[upstream] =>
             /\ generating' = [generating EXCEPT ![upstream] = TRUE]
             /\ stack' = Call("Loop", upstream, "none", rest)
    BY <1>1, <2>1, RequestUpIs DEF ConcatRest
  <2> DEFINE starts == upstream \notin late /\ ~generating[upstream]
  <2>3. starts => /\ c.p = "out" /\ ~c.sw /\ ~ended /\ ~cancelled /\ rest = c.b
    <3>1. starts => c.p = "out"
      BY <1>1, <1>5 DEF ConcatRest, ConcatFlags, ConcatRuns, ConcatCurrent
    <3> QED
      BY <1>1, <1>5, <3>1, ConcatAtRest DEF ConcatStack
  <2>4. PICK d \in ConcatContexts :
          /\ starts => d.p = "loop" /\ d.g = upstream /\ d.b = c.b /\ ~d.sw
          /\ ~starts => d = c
    <3>1. [c EXCEPT !.p = "loop", !.g = upstream] \in ConcatContexts
      BY <1>1 DEF ConcatContexts, ConcatPlaces, ConcatRuns
    <3> QED
      BY <2>3, <3>1 DEF ConcatContexts
  <2>5. stack' = ConcatStack(d)
    BY <2>2, <2>3, <2>4 DEF ConcatStack, ConcatBelow
  <2>6. Types'
    <3>1. Types
      BY DEF ConcatRest
    <3>2. asked' \in Nat
      BY <1>3, <3>1 DEF Types
    <3>3. fault' \in BOOLEAN
      BY <1>3, <3>1
    <3>4. balance' \in Balance
      BY <1>2, <1>3
    <3>5. requested' \in [Sources -> Balance]
      BY <1>2, <2>2, <3>1 DEF Types
    <3>6. generating' \in [Sources -> BOOLEAN]
      BY <2>2, <3>1 DEF Types
    <3> QED
      BY <1>3, <2>2, <3>1, <3>2, <3>3, <3>4, <3>5, <3>6 DEF Types
  <2>7. ConcatBegins(d)'
    BY <1>1, <1>3, <1>5, <2>2, <2>3, <2>4
       DEF ConcatRest, ConcatBegins, Alive, Base!Alive, Types, IsConcat
  <2>8. ConcatCurrent(d)' /\ ConcatOver(d)'
    BY <1>1, <1>2, <1>3, <1>5, <2>2, <2>3, <2>4
       DEF ConcatRest, ConcatCurrent, ConcatOver, ConcatRuns, Alive, Base!Alive, HandedOver,
           ConcatBegins
  <2>9. ConcatOwes(d)' /\ ConcatFlags(d)'
    BY <1>1, <1>2, <1>3, <1>5, <2>2, <2>3, <2>4
       DEF ConcatRest, ConcatOwes, ConcatFlags, ConcatRuns, Alive, Base!Alive, Types,
           IsConcat,
           ConcatCurrent
  <2>10. ConcatAt(d)'
    BY <1>3, <2>3, <2>4, <2>5, <2>6, <2>7, <2>8, <2>9 DEF ConcatAt, ConcatRest, AnswersOnce
  <2> QED
    BY <2>4, <2>10 DEF ConcatInv
<1> QED
  BY <1>4, <1>5

\* The subscriber cancels: the current source is deleted, the lock stays.
LEMMA ConcatCancelInv ==
  ASSUME IsConcat, NEW c \in ConcatContexts, ConcatRest(c),
         c.p \in {"out", "user", "userEnd", "after"}, c.p = "after" => c.g = upstream,
         open = TRUE, c.p = "out" => user # "single", NEW rest, rest = ConcatStack(c),
         cancelled' = TRUE, ConcatCancel(rest),
         answers' \in Nat, AnswersOnce(c.p \in {"user", "userEnd"})',
         UNCHANGED <<open, userVars, otherVars>>
  PROVE  ConcatInv'
<1>1. /\ upstream \in Sources /\ upstream \in {1, 2}
      /\ phase[1] # "new"
  BY DEF ConcatRest, ConcatCurrent, ConcatBegins, IsConcat
<1>2. /\ fault' = FALSE /\ stack' = rest
      /\ phase' \in [Sources -> {"new", "alive", "deleted"}]
      /\ \A g \in Sources : phase'[g] = IF g = upstream THEN "deleted" ELSE phase[g]
      /\ UNCHANGED <<requested, generating, yielded, awaited, balance, lock, open, asked, got,
                      taken, ended, runningFirst, upstream, late, kind, user>>
  <2>1. /\ Deleted({upstream}) \in [Sources -> {"new", "alive", "deleted"}]
        /\ \A g \in Sources :
             Deleted({upstream})[g] = IF g = upstream THEN "deleted" ELSE phase[g]
    BY DeletedTypes DEF ConcatRest
  <2>2. upstream # 0
    BY <1>1
  <2>3. fault' = FALSE
    BY <2>2 DEF ConcatCancel
  <2>4. /\ stack' = rest /\ phase' = Deleted({upstream})
        /\ UNCHANGED <<requested, generating, yielded, awaited, balance, lock, runningFirst,
                        upstream>>
    BY DEF ConcatCancel, concatVars
  <2>5. UNCHANGED <<open, asked, got, taken, ended, late, kind, user>>
    BY DEF userVars, otherVars, settings
  <2> QED
    BY <2>1, <2>3, <2>4, <2>5
<1>3. Types'
  BY <1>2 DEF Types, ConcatRest
<1>4. ConcatBegins(c)'
  <2>1. runningFirst => upstream = 1
    BY DEF ConcatRest, ConcatCurrent
  <2> QED
    BY <1>1, <1>2, <2>1 DEF ConcatRest, ConcatBegins, IsConcat
<1>5. ConcatCurrent(c)' /\ ConcatOver(c)' /\ ConcatOwes(c)' /\ ConcatFlags(c)'
  BY <1>1, <1>2
     DEF ConcatRest, ConcatCurrent, ConcatOver, ConcatOwes, ConcatFlags, ConcatRuns, Alive,
         Base!Alive, HandedOver, IsConcat
<1>6. ConcatAt(c)'
  BY <1>2, <1>3, <1>4, <1>5 DEF ConcatAt, ConcatRest, ConcatStack, ConcatAfter, ConcatBelow
<1> QED
  BY <1>6 DEF ConcatInv

\* A step of the code of Concat or of the loop of a source.
LEMMA ConcatStepInv ==
  ASSUME IsConcat, NEW c \in ConcatContexts, ConcatAt(c), StreamStep, UNCHANGED otherVars
  PROVE  ConcatInv'
<1>1. /\ stack = ConcatStack(c) /\ ConcatRest(c) /\ kind = "concat"
      /\ {1, 2} \subseteq Sources
      /\ UNCHANGED singleVars /\ ~fault /\ Types /\ runningFirst \in BOOLEAN
  BY DEF ConcatAt, StreamStep, IsConcat, ConcatRest
<1>2. CASE ConcatOnSubscribe
  BY <1>1, <1>2, ConcatConfirmInv, ConcatRollOverInv
<1>3. CASE ConcatValue \/ ConcatEnd \/ ConcatRelease \/ ConcatSwitch
  BY <1>1, <1>3, ConcatValueInv, ConcatEndInv, ConcatReleaseInv, ConcatSwitchInv
<1>4. CASE SourceReturns({}) /\ UNCHANGED <<balance, lock, open, userVars, concatVars>>
  <2>1. /\ c.p = "after" /\ Called(stack, "After", c.g, c.e, ConcatBelow(c))
        /\ c.g \in Sources /\ c.g \in {1, 2}
    BY <1>1, <1>4, ConcatPlace, ConcatTop DEF SourceReturns, ConcatContexts
  <2>2. {c.g} \cup {} = {c.g}
    OBVIOUS
  <2>3. /\ UNCHANGED <<requested, generating, yielded, awaited, fault>>
        /\ \/ ~Alive(c.g) /\ phase' = phase /\ stack' = ConcatBelow(c)
           \/ Alive(c.g) /\ Base!IsEnd(c.e) /\ phase' = Deleted({c.g})
              /\ stack' = ConcatBelow(c)
           \/ Alive(c.g) /\ ~Base!IsEnd(c.e) /\ c.g \in late /\ phase' = phase
              /\ stack' = ConcatBelow(c)
           \/ Alive(c.g) /\ ~Base!IsEnd(c.e) /\ c.g \notin late /\ phase' = phase
              /\ stack' = Call("Loop", c.g, "none", ConcatBelow(c))
    BY <1>1, <1>4, <2>1, <2>2, SourceReturnsIs
  <2> QED
    BY <1>1, <1>4, <2>1, <2>3, ConcatReturnsInv
<1>5. CASE Generate /\ UNCHANGED <<balance, lock, open, userVars, concatVars>>
  <2>1. IsTop("Loop")
    BY <1>5, GenerateTop
  <2>2. /\ c.p = "loop" /\ Called(stack, "Loop", c.g, "none", ConcatBelow(c))
        /\ c.g \in Sources /\ c.g \in {1, 2} /\ Alive(c.g)
    BY <1>1, <2>1, ConcatPlace, ConcatTop DEF ConcatContexts, ConcatRest, ConcatCurrent
  <2>3. \/ \E ev \in Base!Events : Sends(c.g, ev, ConcatBelow(c))
        \/ /\ generating' = [generating EXCEPT ![c.g] = FALSE]
           /\ stack' = ConcatBelow(c)
           /\ UNCHANGED <<phase, requested, yielded, awaited, fault>>
    BY <1>1, <1>5, <2>2, GenerateIs
  <2> QED
    BY <1>1, <1>5, <2>2, <2>3, ConcatSendsInv, ConcatPauseInv
<1> QED
  BY <1>1, <1>2, <1>3, <1>4, <1>5 DEF StreamStep, OnlyOf, ConcatStep

\* A step of the subscriber.
LEMMA ConcatUserInv ==
  ASSUME IsConcat, NEW c \in ConcatContexts, ConcatAt(c), UNCHANGED otherVars,
         UserSubscribes \/ UserRequests \/ UserCancels \/ Returns
  PROVE  ConcatInv'
<1>1. /\ stack = ConcatStack(c) /\ ConcatRest(c) /\ kind = "concat"
      /\ {1, 2} \subseteq Sources
      /\ ~fault /\ Types
  BY DEF ConcatAt, IsConcat, ConcatRest
<1>2. CASE UserSubscribes
  <2>1. /\ stack = <<>> /\ phase[1] = "new" /\ awaited = {} /\ ConcatSubscribe
        /\ UNCHANGED singleVars
    BY <1>1, <1>2 DEF UserSubscribes, MaySubscribe, OnlyOf
  <2> QED
    BY <1>1, <2>1, ConcatSubscribeInv
<1>3. CASE UserRequests
  <2>1. PICK n \in Counts : Request(n, stack)
    BY <1>3 DEF UserRequests
  <2>2. UserActive /\ open /\ UNCHANGED singleVars /\ n \in Nat /\ user = "free"
    BY <1>3, CountsAre DEF UserRequests
  <2>3. /\ asked' = asked + n /\ ConcatRequest(n, stack)
        /\ UNCHANGED <<open, got, taken, ended>>
    BY <1>1, <2>1 DEF Request, OnlyOf
  <2>4. c.p \in {"out", "user", "userEnd"}
    BY <1>1, <2>2, ConcatPlace
  <2> HIDE <2>1
  <2> QED
    BY <1>1, <2>2, <2>3, <2>4, ConcatRequestInv
<1>4. CASE UserCancels
  <2>1. /\ UserActive /\ open /\ cancelled' = TRUE /\ ConcatCancel(stack)
        /\ UNCHANGED <<open, userVars>> /\ answers' = answers /\ user = "free" /\ user' = user
    BY <1>1, <1>4 DEF UserCancels, Cancel, OnlyOf, otherVars
  <2>2. c.p \in {"out", "user", "userEnd"}
    BY <1>1, <2>1, ConcatPlace
  <2>3. answers' \in Nat /\ AnswersOnce(c.p \in {"user", "userEnd"})'
    BY <1>1, <2>1 DEF Types, AnswersOnce
  <2> QED
    BY <1>1, <2>1, <2>2, <2>3, ConcatCancelInv
<1>5. ASSUME stack # <<>>, UserActive
      PROVE  /\ open /\ c.p \in {"out", "user", "userEnd"}
             /\ \E d \in ConcatContexts :
                  /\ ConcatRest(d) /\ Tail(stack) = ConcatStack(d) /\ d.g = c.g
                  /\ d.p = CASE c.p = "out"     -> "out"
                             [] c.p = "user"    -> "after"
                             [] c.p = "userEnd" -> "release"
  BY <1>1, <1>5, ConcatPopped
<1>6. CASE UserReturns
  <2>1. /\ stack # <<>> /\ UserActive /\ stack' = Tail(stack)
        /\ UNCHANGED <<sourceVars, fault, balance, lock, open, userVars, singleVars, concatVars>>
    BY <1>6 DEF UserReturns
  <2>2. PICK d \in ConcatContexts : ConcatRest(d) /\ Tail(stack) = ConcatStack(d)
    BY <1>5, <2>1
  <2>3. UNCHANGED <<phase, requested, generating, yielded, awaited, fault, balance, lock, open,
                    asked, got, taken, ended, cancelled, answers, runningFirst, upstream, late,
                    kind, user>>
    BY <2>1 DEF sourceVars, userVars, singleVars, concatVars, otherVars, settings
  <2>4. ConcatRest(d)'
    BY <2>2, <2>3
       DEF ConcatRest, Types, ConcatBegins, ConcatCurrent, ConcatOver, ConcatOwes,
           ConcatFlags,
           AnswersOnce, HandedOver, Alive, Base!Alive
  <2>5. ConcatAt(d)'
    BY <2>1, <2>2, <2>4 DEF ConcatAt, ConcatStack, ConcatAfter, ConcatBelow
  <2> QED
    BY <2>5 DEF ConcatInv
<1>7. CASE SingleOnSubscribe
  <2>1. /\ IsTop("UserOnSubscribe") /\ Request(1, Tail(stack)) /\ UNCHANGED singleVars
    BY <1>7 DEF SingleOnSubscribe
  <2>2. stack # <<>> /\ UserActive /\ c.p = "out"
    BY <1>1, <2>1, ConcatPlace DEF IsTop, UserActive
  <2>3. PICK d \in ConcatContexts :
          ConcatRest(d) /\ Tail(stack) = ConcatStack(d) /\ d.p = "out" /\ open
    BY <1>5, <2>2
  <2>4. /\ asked' = asked + 1 /\ ConcatRequest(1, Tail(stack))
        /\ UNCHANGED <<open, got, taken, ended>>
    BY <1>1, <2>1 DEF Request, OnlyOf
  <2>5. d.b # Telling /\ 1 \in Nat
    <3>1. c.b = Telling
      BY <1>1, <2>1, ConcatPlace
    <3>2. Tail(stack) = <<>> /\ Telling # <<>>
      BY <1>1, <2>2, <3>1, ConcatTop, TellingIs DEF Called
    <3> QED
      BY <2>3, <3>2 DEF ConcatStack
  <2> QED
    BY <2>1, <2>3, <2>4, <2>5, ConcatRequestInv
<1>8. CASE SingleOnNext
  <2>1. /\ user = "single" /\ IsTop("UserOnNext") /\ answers' = answers + Answers(Top.ev)
    BY <1>8 DEF SingleOnNext
  <2>2. stack # <<>> /\ UserActive /\ c.p \in {"user", "userEnd"} /\ Top.ev = c.e
    BY <1>1, <2>1, ConcatPlace, ConcatTop DEF IsTop, UserActive, Called, Top
  <2>3. answers = 0 /\ answers' = 1
    <3>1. answers = 0
      BY <1>1, <2>1, <2>2 DEF ConcatRest, AnswersOnce, Types
    <3> QED
      BY <2>1, <3>1 DEF Answers
  <2>4. PICK d \in ConcatContexts :
          /\ ConcatRest(d) /\ Tail(stack) = ConcatStack(d) /\ d.g = c.g
          /\ c.p = "user" => d.p = "after"
          /\ c.p = "userEnd" => d.p = "release"
          /\ open
    BY <1>5, <2>2
  <2>5. /\ c.p = "user" => c.e = "value" /\ ~ended /\ StreamAlive
        /\ c.p = "userEnd" => Base!IsEnd(c.e) /\ ended
    <3>1. c.p = "user" => c.e = "value" /\ ~ended
      BY <1>1 DEF ConcatRest, ConcatCurrent
    <3>2. c.p = "user" => StreamAlive
      BY <1>1, <2>4, <3>1 DEF ConcatRest, ConcatOver, StreamAlive, SharedAlive
    <3>3. c.p = "userEnd" => Base!IsEnd(c.e) /\ ended
      BY <1>1 DEF ConcatRest, ConcatCurrent
    <3> QED
      BY <3>1, <3>2, <3>3
  <2>6. CASE c.p = "user"
    <3>1. /\ cancelled' = TRUE /\ ConcatCancel(Tail(stack)) /\ UNCHANGED <<open, userVars>>
      BY <1>1, <1>8, <2>2, <2>5, <2>6 DEF SingleOnNext, CancelsAfter, Cancel, OnlyOf
    <3>2. d.p = "after" /\ d.g = upstream
      BY <1>1, <2>4, <2>6 DEF ConcatRest, ConcatCurrent, ConcatRuns
    <3>3. answers' \in Nat /\ AnswersOnce(d.p \in {"user", "userEnd"})'
      BY <2>3, <3>1, <3>2 DEF AnswersOnce
    <3> QED
      BY <2>4, <3>1, <3>2, <3>3, ConcatCancelInv
  <2>7. CASE c.p = "userEnd"
    <3>1. /\ stack' = Tail(stack)
          /\ UNCHANGED <<sourceVars, fault, balance, lock, open, userVars, cancelled, concatVars>>
      BY <1>8, <2>2, <2>5, <2>7, Statuses DEF SingleOnNext, CancelsAfter
    <3>2. UNCHANGED <<phase, requested, generating, yielded, awaited, fault, balance, lock, open,
                      asked, got, taken, ended, cancelled, runningFirst, upstream, late, kind,
                      user>>
      BY <3>1 DEF sourceVars, userVars, concatVars, otherVars, settings
    <3>3. AnswersOnce(d.p \in {"user", "userEnd"})'
      BY <2>3, <2>4, <2>5, <2>7, <3>2 DEF AnswersOnce
    <3>4. ConcatRest(d)'
      BY <2>3, <2>4, <3>2, <3>3
         DEF ConcatRest, Types, ConcatBegins, ConcatCurrent, ConcatOver, ConcatOwes,
             ConcatFlags,
             HandedOver, Alive, Base!Alive
    <3>5. ConcatAt(d)'
      BY <2>4, <3>1, <3>4 DEF ConcatAt, ConcatStack, ConcatAfter, ConcatBelow
    <3> QED
      BY <3>5 DEF ConcatInv
  <2> QED
    BY <2>2, <2>6, <2>7
<1> QED
  BY <1>2, <1>3, <1>4, <1>6, <1>7, <1>8 DEF Returns

\* A step of a late source.
LEMMA ConcatLateInv ==
  ASSUME IsConcat, NEW c \in ConcatContexts, ConcatAt(c), UNCHANGED otherVars,
         NEW g \in Sources, LateStep(g)
  PROVE  ConcatInv'
<1>1. /\ stack = ConcatStack(c) /\ ConcatRest(c) /\ {1, 2} \subseteq Sources /\ Types
      /\ UNCHANGED <<balance, lock, open, userVars, singleVars, concatVars>>
  BY DEF ConcatAt, IsConcat, ConcatRest, LateStep
<1>2. CASE LateSubscribe(g)
  BY <1>1, <1>2, ConcatLateSubscribeInv DEF LateSubscribe
<1>3. CASE LateOnNext(g)
  <2>1. PICK ev \in Base!Events : Sends(g, ev, <<>>)
    BY <1>1, <1>3, LateOnNextIs
  <2>2. stack = <<>> /\ g \in late /\ Alive(g)
    BY <1>1, <1>3, LateOnNextIs
  <2>3. c.p = "out" /\ c.b = <<>>
    BY <1>1, <2>2, ConcatPlace
  <2>4. g \in {1, 2} /\ ConcatBelow(c) = <<>>
    BY <1>1, <2>2, <2>3, ConcatAtRest
  <2> QED
    BY <1>1, <2>1, <2>2, <2>3, <2>4, ConcatSendsInv
<1> QED
  BY <1>2, <1>3 DEF LateStep

\* Concat keeps its invariant.
LEMMA ConcatNext ==
  ASSUME IsConcat, ConcatInv, [Next]_vars
  PROVE  ConcatInv'
<1>1. PICK c \in ConcatContexts : ConcatAt(c)
  BY DEF ConcatInv
<1>2. CASE UNCHANGED vars
  <2>1. UNCHANGED <<stack, phase, requested, generating, yielded, awaited, fault, balance, lock,
                    open, asked, got, taken, ended, cancelled, answers, runningFirst, upstream,
                    late, kind, user>>
    BY <1>2
       DEF vars, streamVars, sourceVars, userVars, concatVars, singleVars, otherVars, settings
  <2>2. ConcatAt(c)'
    BY <1>1, <2>1
       DEF ConcatAt, ConcatRest, Types, ConcatBegins, ConcatCurrent, ConcatOver, ConcatOwes,
           ConcatFlags, AnswersOnce, HandedOver, Alive, Base!Alive, ConcatStack, ConcatAfter,
           ConcatBelow
  <2> QED
    BY <2>2 DEF ConcatInv
<1>3. CASE /\ UserSubscribes \/ UserRequests \/ UserCancels \/ Returns \/ StreamStep
              \/ \E g \in Sources : LateStep(g)
           /\ UNCHANGED otherVars
  BY <1>1, <1>3, ConcatStepInv, ConcatUserInv, ConcatLateInv
<1> QED
  BY <1>2, <1>3 DEF Next, Terminated

\* At the start nothing executes.
LEMMA ConcatStarts ==
  ASSUME Init, kind = "concat", CarefulUse
  PROVE  IsConcat /\ ConcatInv
<1>1. IsConcat
  BY PipelineAssumption, OperatorsAssumption
     DEF Init, PipelineInit, IsConcat, Setting
<1>2. /\ phase = [g \in Sources |-> "new"] /\ requested = [g \in Sources |-> 0]
      /\ generating = [g \in Sources |-> FALSE] /\ yielded = [g \in Sources |-> 0]
      /\ taken = [g \in Sources |-> 0] /\ stack = <<>> /\ ~fault /\ fault \in BOOLEAN
      /\ awaited = {} /\ balance = 0 /\ ~lock /\ ~open /\ asked = 0 /\ got = 0 /\ ~ended
      /\ ~cancelled /\ answers = 0 /\ runningFirst /\ upstream = 0
      /\ {lock, open, ended, cancelled, runningFirst} \subseteq BOOLEAN
  BY DEF Init, PipelineInit, Base!Init, ConcatInit
<1>3. PICK c \in ConcatContexts : c.p = "out" /\ c.b = <<>> /\ ~c.sw
  <2>1. [p |-> "out", b |-> <<>>, sw |-> FALSE, g |-> 1, e |-> "done"] \in ConcatContexts
    BY DEF ConcatContexts, ConcatPlaces, Base!Events
  <2> QED
    BY <2>1
<1>4. stack = ConcatStack(c)
  BY <1>2, <1>3 DEF ConcatStack
<1>5. Types
  <2>1. 0 \in Balance /\ 0 \in Nat
    BY KMaxAssumption DEF Balance
  <2> QED
    BY <1>2, <2>1 DEF Types
<1>6. ConcatBegins(c) /\ ConcatCurrent(c) /\ ConcatOver(c) /\ ConcatOwes(c) /\ ConcatFlags(c)
  BY <1>1, <1>2, <1>3
     DEF ConcatBegins, ConcatCurrent, ConcatOver, ConcatOwes, ConcatFlags, ConcatRuns, Alive,
         Base!Alive, IsConcat
<1>7. ConcatAt(c)
  BY <1>2, <1>3, <1>4, <1>5, <1>6 DEF ConcatAt, ConcatRest, AnswersOnce
<1> QED
  BY <1>1, <1>7 DEF ConcatInv

-----------------------------------------------------------------------------
(* Prefetch: the stacks and the buffer.                                      *)

\* The stream is a Prefetch that is used with care.
IsPrefetch == CarefulUse /\ Setting /\ kind = "prefetch"

\* What is below the innermost call.
LEMMA PrefetchBelowIs ==
  ASSUME NEW c \in PrefetchContexts
  PROVE  /\ Called(Filling, "Fill", 1, "none", <<>>)
         /\ Called(TellingFilling, "UserOnSubscribe", 0, "none", Filling)
         /\ c.e \in Words /\ c.v \in Words /\ 1 \in Gens0 /\ 0 \in Gens0 /\ "none" \in Words
         /\ c.b \in Seq(Frames)
         /\ PrefetchBelow(c) \in Seq(Frames) /\ PrefetchUnder(c) \in Seq(Frames)
         /\ Called(PrefetchAfter(c), "After", 1, c.e, PrefetchBelow(c))
         /\ Called(PrefetchSent(c), "Delivered", 1, c.v, PrefetchUnder(c))
<1>1. c.e \in Words /\ c.v \in Words /\ 1 \in Gens0 /\ 0 \in Gens0 /\ "none" \in Words
  BY Vocabulary DEF PrefetchContexts
<1>2. Called(Filling, "Fill", 1, "none", <<>>)
  BY <1>1, TellingIs, Vocabulary, CallTop DEF Filling
<1>3. Called(TellingFilling, "UserOnSubscribe", 0, "none", Filling)
  BY <1>1, <1>2, Vocabulary, CallTop DEF TellingFilling, Called
<1>4. c.b \in Seq(Frames)
  BY <1>2, <1>3, TellingIs DEF PrefetchContexts, Called
<1>5. Called(Call("Deliver", 0, "none", <<>>), "Deliver", 0, "none", <<>>)
  BY <1>1, TellingIs, Vocabulary, CallTop
<1>6. Called(Call("After", 1, c.e, <<>>), "After", 1, c.e, <<>>)
  BY <1>1, TellingIs, Vocabulary, CallTop
<1>7. PrefetchBelow(c) \in Seq(Frames) /\ PrefetchUnder(c) \in Seq(Frames)
  BY <1>4, <1>5, <1>6, TellingIs DEF PrefetchBelow, PrefetchUnder, Called
<1>8. /\ Called(PrefetchAfter(c), "After", 1, c.e, PrefetchBelow(c))
      /\ Called(PrefetchSent(c), "Delivered", 1, c.v, PrefetchUnder(c))
  BY <1>1, <1>7, Vocabulary, CallTop DEF PrefetchAfter, PrefetchSent
<1> QED
  BY <1>1, <1>2, <1>3, <1>4, <1>7, <1>8

\* The innermost call at each place.
LEMMA PrefetchTop ==
  ASSUME NEW c \in PrefetchContexts, stack = PrefetchStack(c)
  PROVE  /\ c.p = "out" => stack = c.b
         /\ c.p = "out" /\ c.b = Filling => Called(stack, "Fill", 1, "none", <<>>)
         /\ c.p = "out" /\ c.b = TellingFilling =>
              Called(stack, "UserOnSubscribe", 0, "none", Filling)
         /\ c.p = "subscribing" => Called(stack, "OnSubscribe", 1, "none", <<>>)
         /\ c.p = "loop" => Called(stack, "Loop", 1, "none", PrefetchBelow(c))
         /\ c.p = "next" => Called(stack, "OnNext", 1, c.e, PrefetchAfter(c))
         /\ c.p = "after" => Called(stack, "After", 1, c.e, PrefetchBelow(c))
         /\ c.p = "deliver" => Called(stack, "Deliver", 0, "none", PrefetchUnder(c))
         /\ c.p = "user" => Called(stack, "UserOnNext", 1, c.v, PrefetchSent(c))
         /\ c.p = "delivered" => Called(stack, "Delivered", 1, c.v, PrefetchUnder(c))
<1>1. /\ c.e \in Words /\ c.v \in Words /\ 1 \in Gens0 /\ 0 \in Gens0 /\ "none" \in Words
      /\ PrefetchBelow(c) \in Seq(Frames) /\ PrefetchUnder(c) \in Seq(Frames)
      /\ PrefetchAfter(c) \in Seq(Frames) /\ PrefetchSent(c) \in Seq(Frames)
  BY PrefetchBelowIs DEF Called
<1>2. /\ Called(Call("OnSubscribe", 1, "none", <<>>), "OnSubscribe", 1, "none", <<>>)
      /\ Called(Call("Loop", 1, "none", PrefetchBelow(c)), "Loop", 1, "none", PrefetchBelow(c))
      /\ Called(Call("OnNext", 1, c.e, PrefetchAfter(c)), "OnNext", 1, c.e, PrefetchAfter(c))
      /\ Called(Call("Deliver", 0, "none", PrefetchUnder(c)),
                "Deliver", 0, "none", PrefetchUnder(c))
      /\ Called(Call("UserOnNext", 1, c.v, PrefetchSent(c)),
                "UserOnNext", 1, c.v, PrefetchSent(c))
  BY <1>1, TellingIs, Vocabulary, CallTop
<1> QED
  BY <1>2, PrefetchBelowIs DEF PrefetchStack

\* The innermost call tells the place.
LEMMA PrefetchPlace ==
  ASSUME NEW c \in PrefetchContexts, stack = PrefetchStack(c)
  PROVE  /\ IsTop("OnSubscribe") => c.p = "subscribing"
         /\ IsTop("Loop") => c.p = "loop"
         /\ IsTop("OnNext") => c.p = "next"
         /\ IsTop("After") => c.p = "after"
         /\ IsTop("Fill") => c.p = "out" /\ c.b = Filling
         /\ IsTop("Deliver") => c.p = "deliver"
         /\ IsTop("Delivered") => c.p = "delivered"
         /\ IsTop("UserOnSubscribe") => c.p = "out" /\ c.b = TellingFilling
         /\ IsTop("UserOnNext") => c.p = "user"
         /\ stack = <<>> => c.p = "out" /\ c.b = <<>>
         /\ UserActive => (c.p = "out" /\ c.b \in {<<>>, TellingFilling}) \/ c.p = "user"
         /\ Filling # <<>> /\ TellingFilling # <<>> /\ Filling # TellingFilling
<1>1. c.p \in PrefetchPlaces /\ c.b \in {<<>>, Filling, TellingFilling}
  BY DEF PrefetchContexts
<1>2. Filling # <<>> /\ TellingFilling # <<>> /\ Filling # TellingFilling
  BY PrefetchBelowIs DEF Called
<1>3. CASE c.p = "out"
  BY <1>1, <1>2, <1>3, PrefetchTop DEF IsTop, Top, Called, UserActive
<1>4. CASE c.p # "out"
  BY <1>1, <1>2, <1>4, PrefetchTop
     DEF IsTop, Top, Called, UserActive, PrefetchPlaces, PrefetchBase, PrefetchSends
<1> QED
  BY <1>3, <1>4

\* The events of the buffer: only the last one may be an end.
LEMMA Buffered ==
  ASSUME buffer \in Seq(Base!Events), \A i \in 1 .. Len(buffer) - 1 : buffer[i] = "value"
  PROVE  /\ Len(buffer) \in Nat /\ (buffer = <<>> <=> Len(buffer) = 0)
         /\ \A i \in 1 .. Len(buffer) : buffer[i] \in Base!Events
         /\ buffer = <<>> => ~EndBuffered
         /\ \A ev \in Base!Events : ev # "value" <=> Base!IsEnd(ev)
  BY Statuses DEF EndBuffered, Base!Events

\* An event is put behind the values in the buffer.
LEMMA BufferGrows ==
  ASSUME buffer \in Seq(Base!Events), \A i \in 1 .. Len(buffer) - 1 : buffer[i] = "value",
         ~EndBuffered, NEW ev \in Base!Events, buffer' = Append(buffer, ev)
  PROVE  /\ buffer' \in Seq(Base!Events) /\ Len(buffer)' = Len(buffer) + 1
         /\ \A i \in 1 .. Len(buffer)' - 1 : buffer'[i] = "value"
         /\ EndBuffered' <=> Base!IsEnd(ev)
<1>1. /\ buffer' \in Seq(Base!Events) /\ Len(buffer)' = Len(buffer) + 1
      /\ Len(buffer) \in Nat
      /\ \A i \in 1 .. Len(buffer) : buffer'[i] = buffer[i]
      /\ buffer'[Len(buffer) + 1] = ev
  OBVIOUS
<1>2. \A i \in 1 .. Len(buffer) : buffer[i] = "value"
  BY Buffered DEF EndBuffered
<1> QED
  BY <1>1, <1>2 DEF EndBuffered

\* The first event is taken out of the buffer.
LEMMA BufferShrinks ==
  ASSUME buffer \in Seq(Base!Events), \A i \in 1 .. Len(buffer) - 1 : buffer[i] = "value",
         buffer # <<>>, buffer' = Tail(buffer)
  PROVE  /\ buffer' \in Seq(Base!Events) /\ Len(buffer)' = Len(buffer) - 1
         /\ Head(buffer) \in Base!Events
         /\ \A i \in 1 .. Len(buffer)' - 1 : buffer'[i] = "value"
         /\ Head(buffer) = "value" => (EndBuffered' <=> EndBuffered)
         /\ Head(buffer) # "value" => EndBuffered /\ buffer' = <<>> /\ ~EndBuffered'
<1>1. /\ buffer' \in Seq(Base!Events) /\ Len(buffer)' = Len(buffer) - 1
      /\ Len(buffer) \in Nat /\ Len(buffer) > 0 /\ Head(buffer) = buffer[1]
      /\ \A i \in 1 .. Len(buffer) - 1 : buffer'[i] = buffer[i + 1]
  OBVIOUS
<1>2. Head(buffer) \in Base!Events
  BY <1>1, Buffered
<1>3. CASE Len(buffer) = 1
  <2>1. Len(buffer)' = 0 /\ buffer' = <<>> /\ ~EndBuffered'
    BY <1>1, <1>3 DEF EndBuffered
  <2>2. EndBuffered <=> Head(buffer) # "value"
    BY <1>1, <1>2, <1>3, Buffered DEF EndBuffered
  <2> QED
    BY <1>1, <1>2, <2>1, <2>2
<1>4. CASE Len(buffer) > 1
  <2>1. Head(buffer) = "value"
    BY <1>1, <1>4
  <2>2. /\ EndBuffered' <=> EndBuffered
        /\ \A i \in 1 .. Len(buffer)' - 1 : buffer'[i] = "value"
    BY <1>1, <1>4 DEF EndBuffered
  <2> QED
    BY <1>1, <1>2, <2>1, <2>2
<1> QED
  BY <1>1, <1>3, <1>4

-----------------------------------------------------------------------------
(* Prefetch: the steps.                                                      *)

\* What a number of events that fits into the buffer does to a counter.
LEMMA SmallCounter ==
  ASSUME NEW b \in Nat, b <= BufferSize, CarefulUse
  PROVE  /\ b \in Balance /\ b < KMax
         /\ \A n \in Nat : b + n <= BufferSize => AddTo(b, n) = b + n
         /\ b > 0 => CanRemove(b, 1) /\ RemoveFrom(b, 1) = b - 1
<1>1. BufferSize \in Nat /\ KMax \in Nat /\ BufferSize < KMax
  BY PrefetchAssumption, KMaxAssumption DEF CarefulUse
<1>2. b \in Balance /\ b < KMax
  BY <1>1 DEF Balance
<1>3. \A n \in Nat : b + n <= BufferSize => AddTo(b, n) = b + n
  BY <1>1 DEF AddTo
<1>4. b > 0 => CanRemove(b, 1) /\ RemoveFrom(b, 1) = b - 1
  BY <1>1, <1>2 DEF CanRemove, RemoveFrom
<1> QED
  BY <1>2, <1>3, <1>4

\* A value is in the buffer, or it was delivered, whatever is missing is asked for.
LEMMA MaybeFillIs ==
  ASSUME CarefulUse, 1 \in Sources, Types, buffer \in Seq(Base!Events), outstanding \in Nat,
         Len(buffer) + outstanding <= BufferSize, Alive(1) => outstanding = requested[1],
         NEW rest, MaybeFill(rest)
  PROVE  /\ phase' = phase /\ yielded' = yielded /\ awaited' = awaited
         /\ requested' \in [Sources -> Balance] /\ generating' \in [Sources -> BOOLEAN]
         /\ outstanding' \in Nat /\ Len(buffer) + outstanding' <= BufferSize
         /\ Alive(1) => outstanding' = requested'[1]
         /\ \/ /\ stack' = rest /\ generating' = generating
               /\ outstanding' = outstanding \/ Alive(1)
            \/ /\ Alive(1) /\ 1 \notin late /\ ~generating[1] /\ generating'[1]
               /\ stack' = Call("Loop", 1, "none", rest)
<1>1. CASE ~NeedsFill
  BY <1>1 DEF MaybeFill, sourceVars, Types
<1>2. CASE NeedsFill
  <2>1. /\ Alive(1) /\ ToRequest \in Nat /\ outstanding = requested[1]
        /\ Len(buffer) + outstanding + ToRequest = BufferSize
    BY <1>2, PrefetchAssumption DEF NeedsFill, ToRequest
  <2>2. /\ outstanding <= BufferSize /\ outstanding + ToRequest <= BufferSize
        /\ outstanding + ToRequest \in Nat
    BY <2>1, PrefetchAssumption
  <2>3. AddTo(outstanding, ToRequest) = outstanding + ToRequest
    BY <2>1, <2>2, SmallCounter
  <2>4. outstanding + ToRequest \in Balance
    BY <2>2, SmallCounter
  <2>5. outstanding' = outstanding + ToRequest /\ RequestUp(1, ToRequest, rest)
    BY <1>2, <2>3 DEF MaybeFill
  <2>6. /\ requested' = [requested EXCEPT ![1] = AddTo(@, ToRequest)]
        /\ UNCHANGED <<phase, yielded, awaited>>
        /\ 1 \in late \/ generating[1] => generating' = generating /\ stack' = rest
        /\ 1 \notin late /\ ~generating[1] =>
             /\ generating' = [generating EXCEPT ![1] = TRUE]
             /\ stack' = Call("Loop", 1, "none", rest)
    BY <2>1, <2>5, RequestUpIs
  <2>7. requested' = [requested EXCEPT ![1] = outstanding + ToRequest]
    BY <2>1, <2>3, <2>6
  <2>8. requested' \in [Sources -> Balance] /\ requested'[1] = outstanding + ToRequest
    BY <2>4, <2>7 DEF Types
  <2>9. generating' \in [Sources -> BOOLEAN]
    BY <2>6 DEF Types
  <2>10. Len(buffer) + outstanding' <= BufferSize
    BY <2>1, <2>5
  <2> QED
    BY <2>1, <2>2, <2>5, <2>6, <2>8, <2>9, <2>10 DEF Types
<1> QED
  BY <1>1, <1>2

\* The base is subscribed to, and calls OnSubscribe at once or later.
LEMMA PrefetchSubscribeInv ==
  ASSUME IsPrefetch, NEW c \in PrefetchContexts, PrefetchAt(c),
         stack = <<>>, phase[1] = "new", awaited = {},
         PrefetchSubscribe, UNCHANGED <<singleVars, otherVars>>
  PROVE  PrefetchInv'
<1>1. /\ c.p = "out" /\ c.b = <<>> /\ ~open /\ 1 \in Sources /\ PrefetchRest(c) /\ ~fault
      /\ buffer = <<>> /\ outstanding = 0 /\ ~delivering /\ ~ended /\ balance = 0
      /\ ~c.inner
  BY PrefetchPlace, Vocabulary DEF PrefetchAt, PrefetchRest, PrefetchBegins, PrefetchRuns
<1>2. /\ lock' = TRUE /\ DoSubscribe(1, <<>>)
      /\ UNCHANGED <<fault, balance, open, asked, got, taken, ended, cancelled, answers,
                      buffer, outstanding, delivering, late, kind, user>>
  BY DEF PrefetchSubscribe, userVars, singleVars, prefetchVars, otherVars, settings
<1>3. CASE 1 \in late \cap SubscribesLate[kind]
  <2>1. awaited' = {1} /\ stack' = <<>> /\ UNCHANGED <<phase, requested, generating, yielded>>
    BY <1>1, <1>2, <1>3 DEF DoSubscribe
  <2>2. stack' = PrefetchStack(c)
    BY <1>1, <2>1 DEF PrefetchStack
  <2>3. Types'
    BY <1>1, <1>2, <2>1 DEF Types, PrefetchRest
  <2>4. PrefetchBegins(c)' /\ PrefetchRuns(c)' /\ PrefetchOver(c)'
    BY <1>1, <1>2, <2>1
       DEF PrefetchRest, PrefetchBegins, PrefetchRuns, PrefetchOver, Alive, Base!Alive,
           BaseExecutes, PrefetchSends, PrefetchBase, EndBuffered, EndBelow
  <2>5. PrefetchOwes(c)' /\ PrefetchKeeps(c)'
    BY <1>1, <1>2, <2>1
       DEF PrefetchRest, PrefetchOwes, PrefetchKeeps, Alive, Base!Alive, One, EndBuffered
  <2>6. PrefetchAt(c)'
    BY <1>1, <1>2, <2>1, <2>2, <2>3, <2>4, <2>5 DEF PrefetchAt, PrefetchRest
  <2> QED
    BY <2>6 DEF PrefetchInv
<1>4. CASE 1 \notin late \cap SubscribesLate[kind]
  <2>1. Base!Construct(1, <<>>) /\ awaited' = awaited
    BY <1>2, <1>4 DEF DoSubscribe
  <2>2. /\ phase' = [phase EXCEPT ![1] = "alive"]
        /\ stack' = Call("OnSubscribe", 1, "none", <<>>)
        /\ UNCHANGED <<requested, generating, yielded>>
    BY <1>1, <2>1, ConstructIs DEF PrefetchRest
  <2> DEFINE d == [c EXCEPT !.p = "subscribing"]
  <2>3. d \in PrefetchContexts /\ d.p = "subscribing" /\ d.b = <<>> /\ ~d.inner
    BY <1>1 DEF PrefetchContexts, PrefetchPlaces
  <2> HIDE DEF d
  <2>4. stack' = PrefetchStack(d)
    BY <2>2, <2>3 DEF PrefetchStack
  <2>5. Types'
    BY <1>1, <1>2, <2>1, <2>2 DEF Types, PrefetchRest
  <2>6. PrefetchBegins(d)' /\ PrefetchRuns(d)' /\ PrefetchOver(d)'
    BY <1>1, <1>2, <2>1, <2>2, <2>3
       DEF PrefetchRest, PrefetchBegins, PrefetchRuns, PrefetchOver, Alive, Base!Alive, Types,
           BaseExecutes, PrefetchSends, PrefetchBase, EndBuffered, EndBelow
  <2>7. PrefetchOwes(d)' /\ PrefetchKeeps(d)'
    BY <1>1, <1>2, <2>2, <2>3
       DEF PrefetchRest, PrefetchOwes, PrefetchKeeps, Alive, Base!Alive, One, EndBuffered,
           PrefetchBegins
  <2>8. PrefetchAt(d)'
    BY <1>1, <1>2, <2>3, <2>4, <2>5, <2>6, <2>7 DEF PrefetchAt, PrefetchRest
  <2> QED
    BY <2>3, <2>8 DEF PrefetchInv
<1> QED
  BY <1>3, <1>4

\* The late base calls OnSubscribe.
LEMMA PrefetchLateSubscribeInv ==
  ASSUME IsPrefetch, NEW c \in PrefetchContexts, PrefetchAt(c),
         NEW g \in Sources, LateSubscribe(g),
         UNCHANGED <<balance, lock, open, userVars, singleVars, prefetchVars, otherVars>>
  PROVE  PrefetchInv'
<1>1. /\ c.p = "out" /\ c.b = <<>> /\ ~open /\ g = 1 /\ PrefetchRest(c) /\ ~fault
      /\ buffer = <<>> /\ outstanding = 0 /\ ~delivering /\ ~ended /\ balance = 0
      /\ ~c.inner /\ lock /\ stack = <<>>
  BY PrefetchPlace
     DEF PrefetchAt, PrefetchRest, PrefetchBegins, PrefetchRuns, LateSubscribe
<1>2. /\ awaited' = awaited \ {1} /\ fault' = fault
      /\ UNCHANGED <<balance, lock, open, asked, got, taken, ended, cancelled, answers,
                      buffer, outstanding, delivering, late, kind, user>>
  BY <1>1 DEF LateSubscribe, userVars, singleVars, prefetchVars, otherVars, settings
<1>3. /\ phase' = [phase EXCEPT ![1] = "alive"]
      /\ stack' = Call("OnSubscribe", 1, "none", <<>>)
      /\ UNCHANGED <<requested, generating, yielded>>
  BY <1>1, ConstructIs DEF PrefetchRest, LateSubscribe
<1> DEFINE d == [c EXCEPT !.p = "subscribing"]
<1>4. d \in PrefetchContexts /\ d.p = "subscribing" /\ d.b = <<>> /\ ~d.inner
  BY <1>1 DEF PrefetchContexts, PrefetchPlaces
<1> HIDE DEF d
<1>5. stack' = PrefetchStack(d)
  BY <1>3, <1>4 DEF PrefetchStack
<1>6. Types'
  BY <1>1, <1>2, <1>3 DEF Types, PrefetchRest
<1>7. PrefetchBegins(d)' /\ PrefetchRuns(d)' /\ PrefetchOver(d)'
  BY <1>1, <1>2, <1>3, <1>4
     DEF PrefetchRest, PrefetchBegins, PrefetchRuns, PrefetchOver, Alive, Base!Alive, Types,
         BaseExecutes, PrefetchSends, PrefetchBase, EndBuffered, EndBelow
<1>8. PrefetchOwes(d)' /\ PrefetchKeeps(d)'
  BY <1>1, <1>2, <1>3, <1>4
     DEF PrefetchRest, PrefetchOwes, PrefetchKeeps, Alive, Base!Alive, One, EndBuffered,
         PrefetchBegins
<1>9. PrefetchAt(d)'
  BY <1>1, <1>2, <1>4, <1>5, <1>6, <1>7, <1>8 DEF PrefetchAt, PrefetchRest
<1> QED
  BY <1>4, <1>9 DEF PrefetchInv

\* OnSubscribe: the subscriber is told, and then the buffer is filled.
LEMMA PrefetchConfirmInv ==
  ASSUME IsPrefetch, NEW c \in PrefetchContexts, PrefetchAt(c),
         PrefetchOnSubscribe, UNCHANGED <<singleVars, otherVars>>
  PROVE  PrefetchInv'
<1>1. /\ c.p = "subscribing" /\ PrefetchRest(c) /\ Tail(stack) = <<>> /\ ~fault
      /\ ~open /\ lock /\ Alive(1) /\ buffer = <<>> /\ outstanding = 0 /\ ~delivering
      /\ ~ended
      /\ ~generating[1]
  BY PrefetchPlace, PrefetchTop
     DEF PrefetchOnSubscribe, PrefetchAt, PrefetchRest, PrefetchBegins, Called
<1>2. /\ stack' = TellingFilling /\ open' = TRUE
      /\ UNCHANGED <<phase, requested, generating, yielded, awaited, fault, balance, lock, asked,
                      got, taken, ended, cancelled, answers, buffer, outstanding, delivering,
                      late, kind, user>>
  BY <1>1
     DEF PrefetchOnSubscribe, ConfirmSubscription, TellingFilling, Filling, sourceVars,
         userVars,
         singleVars, prefetchVars, otherVars, settings
<1> DEFINE d == [c EXCEPT !.p = "out", !.b = TellingFilling, !.inner = FALSE]
<1>3. d \in PrefetchContexts /\ d.p = "out" /\ d.b = TellingFilling /\ ~d.inner
  BY <1>1 DEF PrefetchContexts, PrefetchPlaces
<1> HIDE DEF d
<1>4. stack' = PrefetchStack(d)
  BY <1>2, <1>3 DEF PrefetchStack
<1>5. Types'
  BY <1>1, <1>2 DEF Types, PrefetchRest
<1>6. PrefetchBegins(d)' /\ PrefetchRuns(d)' /\ PrefetchOver(d)'
  BY <1>1, <1>2, <1>3
     DEF PrefetchRest, PrefetchBegins, PrefetchRuns, PrefetchOver, Alive, Base!Alive, Types,
         BaseExecutes, PrefetchSends, PrefetchBase, EndBuffered, EndBelow
<1>7. PrefetchOwes(d)' /\ PrefetchKeeps(d)'
  BY <1>1, <1>2, <1>3
     DEF PrefetchRest, PrefetchOwes, PrefetchKeeps, Alive, Base!Alive, One, EndBuffered
<1>8. PrefetchAt(d)'
  BY <1>1, <1>2, <1>3, <1>4, <1>5, <1>6, <1>7 DEF PrefetchAt, PrefetchRest
<1> QED
  BY <1>3, <1>8 DEF PrefetchInv

\* The buffer is filled for the first time.
LEMMA PrefetchFillInv ==
  ASSUME IsPrefetch, NEW c \in PrefetchContexts, PrefetchAt(c),
         PrefetchFill, UNCHANGED <<singleVars, otherVars>>
  PROVE  PrefetchInv'
<1>1. /\ c.p = "out" /\ c.b = Filling /\ PrefetchRest(c) /\ Tail(stack) = <<>> /\ ~fault
      /\ open /\ lock /\ Alive(1) /\ buffer = <<>> /\ outstanding = 0 /\ ~delivering /\ ~ended
      /\ ~generating[1] /\ ~c.inner /\ ~EndBuffered
  BY PrefetchPlace, PrefetchTop
     DEF PrefetchFill, PrefetchAt, PrefetchRest, PrefetchBegins, PrefetchOver, PrefetchRuns,
         PrefetchSends, PrefetchBase, Called, EndBuffered
<1>2. /\ MaybeFill(<<>>) /\ 1 \in Sources
      /\ UNCHANGED <<fault, balance, lock, open, asked, got, taken, ended, cancelled, answers,
                      buffer, delivering, late, kind, user>>
  BY <1>1, Vocabulary DEF PrefetchFill, userVars, singleVars, otherVars, settings
<1>3. /\ phase' = phase /\ yielded' = yielded /\ awaited' = awaited
      /\ requested' \in [Sources -> Balance] /\ generating' \in [Sources -> BOOLEAN]
      /\ outstanding' \in Nat /\ Len(buffer) + outstanding' <= BufferSize
      /\ Alive(1) => outstanding' = requested'[1]
      /\ \/ stack' = <<>> /\ generating' = generating
         \/ /\ Alive(1) /\ 1 \notin late /\ ~generating[1] /\ generating'[1]
            /\ stack' = Call("Loop", 1, "none", <<>>)
  <2>1. /\ CarefulUse /\ Types /\ buffer \in Seq(Base!Events) /\ outstanding \in Nat
        /\ Len(buffer) + outstanding <= BufferSize
        /\ Alive(1) => outstanding = requested[1]
    <3>1. requested[1] \in Nat
      BY <1>1, <1>2, Counting DEF PrefetchRest, Types
    <3> QED
      BY <1>1, <3>1 DEF IsPrefetch, PrefetchRest, PrefetchOwes, One
  <2> QED
    BY <1>2, <2>1, MaybeFillIs
<1>4. PICK d \in PrefetchContexts :
        /\ d.b = <<>> /\ ~d.inner
        /\ \/ stack' = <<>> /\ generating' = generating /\ d.p = "out"
           \/ /\ 1 \notin late /\ generating'[1] /\ d.p = "loop"
              /\ stack' = Call("Loop", 1, "none", <<>>)
  <2>1. /\ [c EXCEPT !.b = <<>>] \in PrefetchContexts
        /\ [c EXCEPT !.b = <<>>, !.p = "loop"] \in PrefetchContexts
    BY DEF PrefetchContexts, PrefetchPlaces, PrefetchBase
  <2> QED
    BY <1>1, <1>3, <2>1 DEF PrefetchContexts
<1>5. stack' = PrefetchStack(d)
  BY <1>4 DEF PrefetchStack, PrefetchBelow
<1>6. Types'
  BY <1>1, <1>2, <1>3 DEF Types, PrefetchRest
<1>7. PrefetchBegins(d)' /\ PrefetchRuns(d)' /\ PrefetchOver(d)'
  BY <1>1, <1>2, <1>3, <1>4
     DEF PrefetchRest, PrefetchBegins, PrefetchRuns, PrefetchOver, Alive, Base!Alive,
         BaseExecutes, PrefetchSends, PrefetchBase, EndBuffered, EndBelow
<1>8. PrefetchOwes(d)' /\ PrefetchKeeps(d)'
  BY <1>1, <1>2, <1>3, <1>4
     DEF PrefetchRest, PrefetchOwes, PrefetchKeeps, Alive, Base!Alive, One, EndBuffered
<1>9. PrefetchAt(d)'
  BY <1>1, <1>2, <1>3, <1>5, <1>6, <1>7, <1>8 DEF PrefetchAt, PrefetchRest
<1> QED
  BY <1>9 DEF PrefetchInv

\* The base sends an event.
LEMMA PrefetchSendsInv ==
  ASSUME IsPrefetch, NEW c \in PrefetchContexts, PrefetchRest(c), NEW ev \in Base!Events,
         c.p = "loop" \/ (c.p = "out" /\ c.b = <<>> /\ 1 \in late /\ Alive(1)),
         Sends(1, ev, PrefetchBelow(c)),
         UNCHANGED <<balance, lock, open, userVars, singleVars, prefetchVars, otherVars>>
  PROVE  PrefetchInv'
<1>1. /\ open /\ ~ended /\ Alive(1) /\ 1 \in Sources /\ c.b = <<>> /\ ~EndBuffered /\ ~fault
      /\ c.p # "next" /\ Types /\ (c.p = "loop" => 1 \notin late)
      /\ c.p = "out" => ~c.inner
      /\ delivering <=> c.inner
  BY Vocabulary
     DEF PrefetchRest, PrefetchBegins, PrefetchRuns, PrefetchOver, PrefetchBase,
         PrefetchSends,
         Alive, Base!Alive, PrefetchKeeps, EndBelow
<1>2. /\ requested[1] \in Nat /\ HasRequests(requested[1]) /\ outstanding = requested[1]
      /\ RemoveFrom(requested[1], 1) = requested[1] - 1 /\ requested[1] - 1 \in Balance
  <2>1. /\ requested[1] \in Nat /\ HasRequests(requested[1]) /\ outstanding = requested[1]
        /\ Len(buffer) + outstanding <= BufferSize /\ buffer \in Seq(Base!Events)
        /\ requested[1] \in Balance
    BY <1>1, Counting DEF Sends, PrefetchRest, PrefetchOwes, One, Types
  <2>2. requested[1] <= BufferSize /\ requested[1] > 0
    BY <2>1, PrefetchAssumption DEF HasRequests
  <2>3. RemoveFrom(requested[1], 1) = requested[1] - 1
    BY <2>1, <2>2, SmallCounter DEF IsPrefetch
  <2> QED
    BY <2>1, <2>3, Counting
<1> DEFINE d == [c EXCEPT !.p = "next", !.e = ev]
<1>3. /\ d \in PrefetchContexts
      /\ d.p = "next" /\ d.e = ev /\ d.b = <<>> /\ d.inner = c.inner
  BY <1>1 DEF PrefetchContexts, PrefetchPlaces, PrefetchBase
<1> HIDE DEF d
<1>4. /\ stack' = Call("OnNext", 1, ev, Call("After", 1, ev, PrefetchBelow(c)))
      /\ requested' = [requested EXCEPT ![1] = @ - 1]
      /\ yielded' = IF ev = "value" THEN [yielded EXCEPT ![1] = @ + 1] ELSE yielded
      /\ UNCHANGED <<phase, generating, awaited, fault, balance, lock, open, asked, got, taken,
                      ended, cancelled, answers, buffer, outstanding, delivering, late, kind,
                      user>>
  BY <1>2 DEF Sends, userVars, singleVars, prefetchVars, otherVars, settings
<1>5. stack' = PrefetchStack(d)
  BY <1>3, <1>4 DEF PrefetchStack, PrefetchAfter, PrefetchBelow
<1>6. Types'
  BY <1>1, <1>4, SendsTypes DEF Types
<1>7. PrefetchBegins(d)' /\ PrefetchRuns(d)' /\ PrefetchOver(d)'
  BY <1>1, <1>3, <1>4
     DEF PrefetchRest, PrefetchBegins, PrefetchRuns, PrefetchOver, Alive, Base!Alive,
         BaseExecutes, PrefetchSends, PrefetchBase, EndBuffered, EndBelow
<1>8. PrefetchOwes(d)'
  BY <1>1, <1>2, <1>3, <1>4 DEF PrefetchRest, PrefetchOwes, Alive, Base!Alive, One, Types
<1>9. PrefetchKeeps(d)'
  BY <1>1, <1>3, <1>4 DEF PrefetchRest, PrefetchKeeps, One, EndBuffered, Types
<1>10. PrefetchAt(d)'
  BY <1>1, <1>4, <1>5, <1>6, <1>7, <1>8, <1>9 DEF PrefetchAt, PrefetchRest
<1> QED
  BY <1>3, <1>10 DEF PrefetchInv

\* Nothing is requested any more of the base.
LEMMA PrefetchPauseInv ==
  ASSUME IsPrefetch, NEW c \in PrefetchContexts, PrefetchRest(c), c.p = "loop",
         generating' = [generating EXCEPT ![1] = FALSE],
         stack' = PrefetchBelow(c),
         UNCHANGED <<phase, requested, yielded, awaited, fault, balance, lock, open, userVars,
                     singleVars, prefetchVars, otherVars>>
  PROVE  PrefetchInv'
<1>1. /\ open /\ ~ended /\ Alive(1) /\ 1 \in Sources /\ c.b = <<>> /\ ~EndBuffered /\ ~fault
      /\ Types /\ (delivering <=> c.inner)
  BY Vocabulary
     DEF PrefetchRest, PrefetchBegins, PrefetchRuns, PrefetchOver, PrefetchBase,
         PrefetchSends,
         PrefetchKeeps
<1> DEFINE d == [c EXCEPT !.p = IF c.inner THEN "deliver" ELSE "out", !.inner = FALSE]
<1>2. /\ d \in PrefetchContexts
      /\ d.b = <<>> /\ ~d.inner
      /\ c.inner => d.p = "deliver"
      /\ ~c.inner => d.p = "out"
  BY <1>1 DEF PrefetchContexts, PrefetchPlaces, PrefetchSends
<1> HIDE DEF d
<1>3. UNCHANGED <<phase, requested, yielded, awaited, fault, balance, lock, open, asked, got,
                  taken, ended, cancelled, answers, buffer, outstanding, delivering, late, kind,
                  user>>
  BY DEF userVars, singleVars, prefetchVars, otherVars, settings
<1>4. stack' = PrefetchStack(d)
  BY <1>2 DEF PrefetchStack, PrefetchBelow, PrefetchUnder
<1>5. Types'
  BY <1>1, <1>3 DEF Types
<1>6. PrefetchBegins(d)' /\ PrefetchRuns(d)' /\ PrefetchOver(d)'
  BY <1>1, <1>2, <1>3
     DEF PrefetchRest, PrefetchBegins, PrefetchRuns, PrefetchOver, Alive, Base!Alive,
         BaseExecutes, PrefetchSends, PrefetchBase, EndBuffered, EndBelow, Types
<1>7. PrefetchOwes(d)' /\ PrefetchKeeps(d)'
  BY <1>1, <1>2, <1>3
     DEF PrefetchRest, PrefetchOwes, PrefetchKeeps, Alive, Base!Alive, One, EndBuffered
<1>8. PrefetchAt(d)'
  BY <1>1, <1>3, <1>4, <1>5, <1>6, <1>7 DEF PrefetchAt, PrefetchRest
<1> QED
  BY <1>2, <1>8 DEF PrefetchInv

\* Behind an OnNext of the base: it goes on, waits, or is gone.
LEMMA PrefetchReturnsInv ==
  ASSUME IsPrefetch, NEW c \in PrefetchContexts, PrefetchRest(c), c.p = "after",
         \/ ~Alive(1) /\ phase' = phase /\ stack' = PrefetchBelow(c)
         \/ Alive(1) /\ Base!IsEnd(c.e) /\ phase' = Deleted({1}) /\ stack' = PrefetchBelow(c)
         \/ Alive(1) /\ ~Base!IsEnd(c.e) /\ 1 \in late /\ phase' = phase
            /\ stack' = PrefetchBelow(c)
         \/ Alive(1) /\ ~Base!IsEnd(c.e) /\ 1 \notin late /\ phase' = phase
            /\ stack' = Call("Loop", 1, "none", PrefetchBelow(c)),
         UNCHANGED <<requested, generating, yielded, awaited, fault, balance, lock, open,
                     userVars, singleVars, prefetchVars, otherVars>>
  PROVE  PrefetchInv'
<1> DEFINE goes == Alive(1) /\ ~Base!IsEnd(c.e) /\ 1 \notin late
<1>1. /\ open /\ 1 \in Sources /\ c.b = <<>> /\ ~fault /\ phase[1] # "new"
      /\ Types /\ (delivering <=> c.inner) /\ (c.inner => ~ended)
      /\ goes => ~ended /\ ~EndBuffered
      /\ Alive(1) /\ ~Base!IsEnd(c.e) => ~ended /\ ~EndBuffered
  BY Vocabulary
     DEF PrefetchRest, PrefetchBegins, PrefetchRuns, PrefetchOver, PrefetchBase,
         PrefetchSends,
         EndBelow
<1>2. PICK d \in PrefetchContexts :
        /\ d.b = <<>>
        /\ goes => d.p = "loop" /\ d.inner = c.inner
        /\ ~goes => ~d.inner
        /\ ~goes /\ c.inner => d.p = "deliver"
        /\ ~goes /\ ~c.inner => d.p = "out"
  <2>1. /\ [c EXCEPT !.p = "loop"] \in PrefetchContexts
        /\ [c EXCEPT !.p = "deliver", !.inner = FALSE] \in PrefetchContexts
        /\ [c EXCEPT !.p = "out"] \in PrefetchContexts
    BY DEF PrefetchContexts, PrefetchPlaces, PrefetchBase, PrefetchSends
  <2>2. CASE goes
    BY <1>1, <2>1, <2>2 DEF PrefetchContexts
  <2>3. CASE ~goes /\ c.inner
    BY <1>1, <2>1, <2>3 DEF PrefetchContexts
  <2>4. CASE ~goes /\ ~c.inner
    BY <1>1, <2>1, <2>4 DEF PrefetchContexts
  <2> QED
    BY <2>2, <2>3, <2>4
<1>3. UNCHANGED <<requested, generating, yielded, awaited, fault, balance, lock, open, asked, got,
                  taken, ended, cancelled, answers, buffer, outstanding, delivering, late, kind,
                  user>>
  BY DEF userVars, singleVars, prefetchVars, otherVars, settings
<1>4. /\ phase' \in [Sources -> {"new", "alive", "deleted"}]
      /\ \A k \in Sources : phase'[k] = IF k = 1 /\ Alive(1) /\ Base!IsEnd(c.e)
                                          THEN "deleted" ELSE phase[k]
  BY <1>1, DeletedTypes DEF Types, Alive, Base!Alive
<1>5. stack' = PrefetchStack(d)
  BY <1>2 DEF PrefetchStack, PrefetchBelow, PrefetchUnder
<1>6. Types'
  BY <1>1, <1>3, <1>4 DEF Types
<1>7. /\ ~goes /\ Alive(1)' => Alive(1) /\ 1 \in late /\ ~Base!IsEnd(c.e)
      /\ Alive(1)' => Alive(1)
      /\ goes => Alive(1)'
  BY <1>1, <1>4 DEF Alive, Base!Alive
<1>8. PrefetchBegins(d)' /\ PrefetchRuns(d)'
  BY <1>1, <1>2, <1>3, <1>4, <1>7
     DEF PrefetchRest, PrefetchBegins, PrefetchRuns, BaseExecutes, PrefetchSends,
         PrefetchBase,
         Alive, Base!Alive
<1>9. PrefetchOver(d)'
  BY <1>1, <1>2, <1>3, <1>7
     DEF PrefetchRest, PrefetchOver, PrefetchSends, PrefetchBase, EndBuffered, EndBelow
<1>10. PrefetchOwes(d)' /\ PrefetchKeeps(d)'
  BY <1>1, <1>2, <1>3, <1>7 DEF PrefetchRest, PrefetchOwes, PrefetchKeeps, One, EndBuffered
<1>11. PrefetchAt(d)'
  BY <1>1, <1>3, <1>5, <1>6, <1>8, <1>9, <1>10 DEF PrefetchAt, PrefetchRest
<1> QED
  BY <1>11 DEF PrefetchInv

\* An event of the base is buffered, and delivered if the delivery loop does not
\* execute already.
LEMMA PrefetchNextInv ==
  ASSUME IsPrefetch, NEW c \in PrefetchContexts, PrefetchAt(c),
         PrefetchOnNext, UNCHANGED <<singleVars, otherVars>>
  PROVE  PrefetchInv'
<1>1. /\ c.p = "next" /\ Tail(stack) = PrefetchAfter(c) /\ Top.ev = c.e /\ PrefetchRest(c)
      /\ c.e \in Base!Events
  BY PrefetchPlace, PrefetchTop DEF PrefetchOnNext, PrefetchAt, Called, Top, PrefetchContexts
<1>2. /\ open /\ ~ended /\ Alive(1) /\ 1 \in Sources /\ c.b = <<>> /\ ~EndBuffered /\ ~fault
      /\ Types /\ (delivering <=> c.inner) /\ buffer \in Seq(Base!Events)
      /\ \A i \in 1 .. Len(buffer) - 1 : buffer[i] = "value"
  BY <1>1, Vocabulary
     DEF PrefetchRest, PrefetchBegins, PrefetchRuns, PrefetchOver, PrefetchBase,
         PrefetchSends,
         PrefetchKeeps
<1>3. /\ requested[1] \in Nat /\ outstanding = requested[1] + 1 /\ Len(buffer) \in Nat
      /\ Len(buffer) + outstanding <= BufferSize
  BY <1>1, <1>2, Counting DEF PrefetchRest, PrefetchOwes, One, Types
<1>4. /\ Len(buffer) < BufferSize /\ CanRemove(outstanding, 1)
      /\ RemoveFrom(outstanding, 1) = outstanding - 1
  <2>1. outstanding \in Nat /\ outstanding <= BufferSize /\ outstanding > 0
        /\ Len(buffer) < BufferSize
    BY <1>3, PrefetchAssumption
  <2> QED
    BY <2>1, SmallCounter DEF IsPrefetch
<1>5. /\ fault' = FALSE /\ outstanding' = outstanding - 1 /\ buffer' = Append(buffer, c.e)
      /\ MaybeDeliver(PrefetchAfter(c))
  <2>1. ~(Len(buffer) >= BufferSize)
    BY <1>3, <1>4, PrefetchAssumption
  <2> QED
    BY <1>1, <1>4, <2>1 DEF PrefetchOnNext
<1>6. /\ buffer' \in Seq(Base!Events) /\ Len(buffer)' = Len(buffer) + 1
      /\ \A i \in 1 .. Len(buffer)' - 1 : buffer'[i] = "value"
      /\ EndBuffered' <=> Base!IsEnd(c.e)
  BY <1>1, <1>2, <1>5, BufferGrows
<1>7. Base!IsEnd(c.e) <=> c.e # "value"
  BY <1>1, Statuses DEF Base!Events
<1>8. UNCHANGED <<phase, requested, generating, yielded, awaited, balance, lock, open, asked, got,
                  taken, ended, cancelled, answers, late, kind, user>>
  BY DEF PrefetchOnNext, sourceVars, userVars, singleVars, otherVars, settings
<1>9. yielded'[1] + One(EndBuffered') = taken'[1] + 0 + Len(buffer)'
  <2>1. /\ yielded'[1] = yielded[1] /\ taken'[1] = taken[1]
        /\ yielded[1] \in Nat /\ taken[1] \in Nat
    BY <1>2, <1>8 DEF Types
  <2>2. yielded[1] + 0 = taken[1] + One(c.e = "value") + Len(buffer)
    BY <1>1, <1>2 DEF PrefetchRest, PrefetchKeeps, One
  <2> DEFINE v == One(c.e = "value")
             w == One(EndBuffered')
             a == yielded[1]
             t == taken[1]
             l == Len(buffer)
  <2>3. /\ v + w = 1 /\ v \in Nat /\ w \in Nat
        /\ a \in Nat /\ t \in Nat /\ l \in Nat
    BY <1>3, <1>6, <1>7, <2>1 DEF One
  <2>4. a + 0 = t + v + l
    BY <2>2
  <2>5. yielded'[1] = a /\ taken'[1] = t /\ Len(buffer)' = l + 1
    BY <1>6, <2>1
  <2> HIDE DEF v, a, t, l
  <2>6. a + w = t + 0 + (l + 1)
    <3> HIDE DEF w
    <3> QED
      BY <2>3, <2>4
  <2> QED
    BY <2>5, <2>6
<1>10. Len(buffer)' + outstanding' <= BufferSize /\ outstanding' = requested'[1] + 0
  <2>1. BufferSize \in Nat
    BY PrefetchAssumption
  <2> QED
    BY <1>3, <1>5, <1>6, <1>8, <2>1
<1> QED
  <2>1. CASE c.inner
    <3> DEFINE f == [c EXCEPT !.p = "after"]
    <3>1. f \in PrefetchContexts /\ f.p = "after" /\ f.b = <<>> /\ f.e = c.e /\ f.inner
      BY <1>2, <2>1 DEF PrefetchContexts, PrefetchPlaces, PrefetchBase
    <3> HIDE DEF f
    <3>2. stack' = PrefetchStack(f) /\ delivering' = TRUE
      BY <1>2, <1>5, <2>1, <3>1
         DEF MaybeDeliver, PrefetchStack, PrefetchAfter, PrefetchBelow
    <3>3. Types'
      BY <1>2, <1>5, <1>8 DEF Types
    <3>4. PrefetchBegins(f)' /\ PrefetchRuns(f)' /\ PrefetchOver(f)'
      BY <1>1, <1>2, <1>6, <1>8, <2>1, <3>1, <3>2
         DEF PrefetchRest, PrefetchBegins, PrefetchRuns, PrefetchOver, Alive, Base!Alive,
             BaseExecutes, PrefetchSends, PrefetchBase, EndBelow
    <3>5. PrefetchOwes(f)'
      BY <1>10, <3>1 DEF PrefetchOwes, One
    <3>6. PrefetchKeeps(f)'
      <4>1. One(f.p = "next" /\ f.e = "value") = 0
        BY <3>1 DEF One
      <4> QED
        BY <1>6, <1>9, <3>1, <4>1 DEF PrefetchKeeps
    <3>7. PrefetchAt(f)'
      BY <1>2, <1>3, <1>5, <1>6, <3>2, <3>3, <3>4, <3>5, <3>6 DEF PrefetchAt, PrefetchRest
    <3> QED
      BY <3>1, <3>7 DEF PrefetchInv
  <2>2. CASE ~c.inner
    <3> DEFINE f == [c EXCEPT !.p = "deliver", !.inner = TRUE]
    <3>1. f \in PrefetchContexts /\ f.p = "deliver" /\ f.b = <<>> /\ f.e = c.e /\ f.inner
      BY <1>2, <2>2 DEF PrefetchContexts, PrefetchPlaces, PrefetchSends
    <3> HIDE DEF f
    <3>2. stack' = PrefetchStack(f) /\ delivering' = TRUE
      BY <1>2, <1>5, <2>2, <3>1
         DEF MaybeDeliver, PrefetchStack, PrefetchAfter, PrefetchBelow, PrefetchUnder
    <3>3. Types'
      BY <1>2, <1>5, <1>8 DEF Types
    <3>4. PrefetchBegins(f)' /\ PrefetchRuns(f)' /\ PrefetchOver(f)'
      BY <1>1, <1>2, <1>6, <1>8, <2>2, <3>1, <3>2
         DEF PrefetchRest, PrefetchBegins, PrefetchRuns, PrefetchOver, Alive, Base!Alive,
             BaseExecutes, PrefetchSends, PrefetchBase, EndBelow
    <3>5. PrefetchOwes(f)'
      BY <1>10, <3>1 DEF PrefetchOwes, One
    <3>6. PrefetchKeeps(f)'
      <4>1. One(f.p = "next" /\ f.e = "value") = 0
        BY <3>1 DEF One
      <4> QED
        BY <1>6, <1>9, <3>1, <4>1 DEF PrefetchKeeps
    <3>7. PrefetchAt(f)'
      BY <1>2, <1>3, <1>5, <1>6, <3>2, <3>3, <3>4, <3>5, <3>6 DEF PrefetchAt, PrefetchRest
    <3> QED
      BY <3>1, <3>7 DEF PrefetchInv
  <2> QED
    BY <2>1, <2>2

\* The delivery loop delivers, or ends.
LEMMA PrefetchDeliverInv ==
  ASSUME IsPrefetch, NEW c \in PrefetchContexts, PrefetchAt(c),
         PrefetchDeliver, UNCHANGED <<singleVars, otherVars>>
  PROVE  PrefetchInv'
<1>1. /\ c.p = "deliver" /\ Tail(stack) = PrefetchUnder(c) /\ PrefetchRest(c)
      /\ c.e \in Base!Events /\ 1 \in Sources
  BY PrefetchPlace, PrefetchTop, Vocabulary
     DEF PrefetchDeliver, PrefetchAt, Called, Top, PrefetchContexts
<1>2. /\ open /\ ~ended /\ lock /\ ~fault /\ delivering
      /\ Types /\ buffer \in Seq(Base!Events) /\ taken \in [Sources -> Nat]
      /\ \A i \in 1 .. Len(buffer) - 1 : buffer[i] = "value"
      /\ c.inner => c.b = <<>>
      /\ c.b # <<>> => buffer = <<>>
  BY <1>1
     DEF PrefetchRest, PrefetchBegins, PrefetchRuns, PrefetchOver, PrefetchBase,
         PrefetchSends,
         PrefetchKeeps, Types
<1>3. /\ fault' = FALSE
      /\ UNCHANGED <<phase, requested, generating, yielded, awaited, lock, open, outstanding,
                      cancelled, answers, late, kind, user>>
  BY <1>2 DEF PrefetchDeliver, SharedAlive, sourceVars, singleVars, otherVars, settings
<1>4. CASE HasDelivery
  <2>1. /\ buffer # <<>> /\ c.b = <<>> /\ balance' = RemoveFrom(balance, 1)
        /\ buffer' = Tail(buffer) /\ delivering' = delivering
        /\ SendDown(1, Head(buffer), Call("Delivered", 1, Head(buffer), PrefetchUnder(c)))
    BY <1>1, <1>2, <1>4 DEF PrefetchDeliver, HasDelivery
  <2>2. balance' \in Balance
    BY <1>2, <1>4, <2>1, Counting DEF HasDelivery, Types
  <2>3. /\ buffer' \in Seq(Base!Events) /\ Len(buffer)' = Len(buffer) - 1
        /\ Head(buffer) \in Base!Events /\ Len(buffer) \in Nat
        /\ \A i \in 1 .. Len(buffer)' - 1 : buffer'[i] = "value"
        /\ Head(buffer) = "value" => (EndBuffered' <=> EndBuffered)
        /\ Head(buffer) # "value" => EndBuffered /\ buffer' = <<>> /\ ~EndBuffered'
    BY <1>2, <2>1, BufferShrinks
  <2>4. PICK ev \in Base!Events : ev = Head(buffer)
    BY <2>3
  <2>5. Base!IsEnd(ev) <=> ev # "value"
    BY <2>4, Statuses DEF Base!Events
  <2>6. /\ stack' = Call("UserOnNext", 1, ev, Call("Delivered", 1, ev, PrefetchUnder(c)))
        /\ got' = got + 1 /\ asked' = asked
        /\ taken' = [taken EXCEPT ![1] = IF ev = "value" THEN @ + 1 ELSE @]
        /\ ended' = Base!IsEnd(ev)
    BY <1>2, <2>1, <2>4 DEF SendDown, Base!IsEnd
  <2>7. /\ taken' \in [Sources -> Nat]
        /\ taken'[1] = taken[1] + One(ev = "value") /\ taken[1] \in Nat
    BY <1>1, <1>2, <2>6 DEF One
  <2> DEFINE d == [c EXCEPT !.p = "user", !.v = ev]
  <2>8. /\ d \in PrefetchContexts
        /\ d.p = "user" /\ d.v = ev /\ d.b = <<>> /\ d.inner = c.inner /\ d.e = c.e
    BY <2>1 DEF PrefetchContexts, PrefetchPlaces, PrefetchSends
  <2> HIDE DEF d
  <2>9. stack' = PrefetchStack(d)
    BY <2>1, <2>6, <2>8 DEF PrefetchStack, PrefetchSent, PrefetchUnder
  <2>10. Types'
    <3>1. got' \in Nat /\ ended' \in BOOLEAN
      BY <1>2, <2>6 DEF Types, Base!IsEnd
    <3> QED
      BY <1>2, <1>3, <2>2, <2>6, <2>7, <3>1 DEF Types
  <2>11. PrefetchBegins(d)' /\ PrefetchRuns(d)'
    BY <1>1, <1>2, <1>3, <2>1, <2>8
       DEF PrefetchRest, PrefetchBegins, PrefetchRuns, Alive, Base!Alive, BaseExecutes,
           PrefetchSends, PrefetchBase
  <2>12. PrefetchOver(d)'
    BY <1>1, <1>2, <1>3, <2>3, <2>4, <2>5, <2>6, <2>8
       DEF PrefetchRest, PrefetchOver, Alive, Base!Alive, PrefetchSends, PrefetchBase,
           EndBelow
  <2>13. PrefetchOwes(d)'
    BY <1>1, <1>2, <1>3, <2>3, <2>8, PrefetchAssumption
       DEF PrefetchRest, PrefetchOwes, Alive, Base!Alive, One, Types
  <2>14. PrefetchKeeps(d)'
    <3>1. yielded[1] \in Nat /\ yielded'[1] = yielded[1]
      BY <1>1, <1>2, <1>3 DEF Types
    <3>2. yielded[1] + One(EndBuffered) = taken[1] + 0 + Len(buffer)
      BY <1>1 DEF PrefetchRest, PrefetchKeeps, One
    <3> DEFINE w == One(EndBuffered)
               x == One(EndBuffered')
               y == One(ev = "value")
    <3>3. w \in Nat /\ x \in Nat /\ y \in Nat /\ w + y = x + 1
      BY <2>3, <2>4 DEF One
    <3> HIDE DEF w, x, y
    <3>4. yielded[1] + w = taken[1] + 0 + Len(buffer) /\ taken'[1] = taken[1] + y
      BY <2>7, <3>2 DEF w, y
    <3>5. yielded'[1] + x = taken'[1] + 0 + (Len(buffer) - 1)
      <4> DEFINE a == yielded[1]
                 t == taken[1]
                 l == Len(buffer)
      <4>1. a \in Nat /\ t \in Nat /\ l \in Nat
        BY <2>3, <2>7, <3>1
      <4>2. a + w = t + 0 + l
        BY <3>4
      <4>3. yielded'[1] = a /\ taken'[1] = t + y
        BY <3>1, <3>4
      <4> HIDE DEF a, t
      <4>4. a + x = (t + y) + 0 + (l - 1)
        <5> HIDE DEF l
        <5> QED
          BY <3>3, <4>1, <4>2
      <4> QED
        BY <4>3, <4>4
    <3>6. One(d.p = "next" /\ d.e = "value") = 0
      BY <2>8 DEF One
    <3> QED
      BY <2>3, <2>8, <3>5, <3>6 DEF PrefetchKeeps, x
  <2>15. PrefetchAt(d)'
    BY <1>1, <1>2, <1>3, <2>1, <2>3, <2>9, <2>10, <2>11, <2>12, <2>13, <2>14
       DEF PrefetchAt, PrefetchRest
  <2> QED
    BY <2>8, <2>15 DEF PrefetchInv
<1>5. CASE ~HasDelivery
  <2>1. /\ delivering' = FALSE /\ stack' = PrefetchUnder(c)
        /\ UNCHANGED <<balance, buffer, asked, got, taken, ended>>
    BY <1>1, <1>5 DEF PrefetchDeliver, userVars
  <2> DEFINE d == [c EXCEPT !.p = IF c.inner THEN "after" ELSE "out", !.inner = FALSE]
  <2>2. /\ d \in PrefetchContexts
        /\ d.b = c.b /\ d.e = c.e /\ ~d.inner
        /\ c.inner => d.p = "after"
        /\ ~c.inner => d.p = "out"
    BY DEF PrefetchContexts, PrefetchPlaces, PrefetchBase
  <2> HIDE DEF d
  <2>3. stack' = PrefetchStack(d)
    BY <2>1, <2>2 DEF PrefetchStack, PrefetchAfter, PrefetchBelow, PrefetchUnder
  <2>4. Types'
    BY <1>2, <1>3, <2>1 DEF Types
  <2>5. PrefetchBegins(d)' /\ PrefetchRuns(d)' /\ PrefetchOver(d)'
    BY <1>1, <1>2, <1>3, <2>1, <2>2
       DEF PrefetchRest, PrefetchBegins, PrefetchRuns, PrefetchOver, Alive, Base!Alive,
           BaseExecutes, PrefetchSends, PrefetchBase, EndBelow, EndBuffered
  <2>6. PrefetchOwes(d)' /\ PrefetchKeeps(d)'
    BY <1>1, <1>2, <1>3, <2>1, <2>2
       DEF PrefetchRest, PrefetchOwes, PrefetchKeeps, Alive, Base!Alive, One, EndBuffered
  <2>7. PrefetchAt(d)'
    BY <1>1, <1>2, <1>3, <2>1, <2>3, <2>4, <2>5, <2>6 DEF PrefetchAt, PrefetchRest
  <2> QED
    BY <2>2, <2>7 DEF PrefetchInv
<1> QED
  BY <1>4, <1>5

\* Behind a delivery: after the end the stream lets go of itself, else it refills.
LEMMA PrefetchDeliveredInv ==
  ASSUME IsPrefetch, NEW c \in PrefetchContexts, PrefetchAt(c),
         PrefetchDelivered, UNCHANGED <<singleVars, otherVars>>
  PROVE  PrefetchInv'
<1>1. /\ c.p = "delivered" /\ Tail(stack) = PrefetchUnder(c) /\ Top.ev = c.v
      /\ PrefetchRest(c)
      /\ c.e \in Base!Events /\ 1 \in Sources
  BY PrefetchPlace, PrefetchTop, Vocabulary
     DEF PrefetchDelivered, PrefetchAt, Called, Top, PrefetchContexts
<1>2. /\ open /\ lock /\ ~fault /\ delivering /\ (ended <=> Base!IsEnd(c.v))
      /\ Types /\ c.b = <<>>
  BY <1>1
     DEF PrefetchRest, PrefetchBegins, PrefetchRuns, PrefetchOver, PrefetchBase, PrefetchSends
<1>3. /\ fault' = FALSE
      /\ UNCHANGED <<balance, open, asked, got, taken, ended, buffer, cancelled, answers, late,
                      kind, user>>
  BY <1>2 DEF PrefetchDelivered, SharedAlive, userVars, singleVars, otherVars, settings
<1>4. CASE Base!IsEnd(c.v)
  <2>1. /\ delivering' = FALSE /\ lock' = FALSE /\ stack' = PrefetchUnder(c)
        /\ UNCHANGED <<phase, requested, generating, yielded, awaited, outstanding>>
    BY <1>1, <1>4 DEF PrefetchDelivered, sourceVars
  <2> DEFINE d == [c EXCEPT !.p = IF c.inner THEN "after" ELSE "out", !.inner = FALSE]
  <2>2. /\ d \in PrefetchContexts
        /\ d.b = <<>> /\ d.e = c.e /\ ~d.inner
        /\ c.inner => d.p = "after"
        /\ ~c.inner => d.p = "out"
    BY <1>2 DEF PrefetchContexts, PrefetchPlaces, PrefetchBase
  <2> HIDE DEF d
  <2>3. stack' = PrefetchStack(d)
    BY <1>2, <2>1, <2>2 DEF PrefetchStack, PrefetchAfter, PrefetchBelow, PrefetchUnder
  <2>4. Types'
    BY <1>2, <1>3, <2>1 DEF Types
  <2>5. PrefetchBegins(d)' /\ PrefetchRuns(d)' /\ PrefetchOver(d)'
    BY <1>1, <1>2, <1>3, <1>4, <2>1, <2>2
       DEF PrefetchRest, PrefetchBegins, PrefetchRuns, PrefetchOver, Alive, Base!Alive,
           BaseExecutes, PrefetchSends, PrefetchBase, EndBelow, EndBuffered
  <2>6. PrefetchOwes(d)' /\ PrefetchKeeps(d)'
    BY <1>1, <1>2, <1>3, <2>1, <2>2
       DEF PrefetchRest, PrefetchOwes, PrefetchKeeps, Alive, Base!Alive, One, EndBuffered
  <2>7. PrefetchAt(d)'
    BY <1>1, <1>2, <1>3, <2>1, <2>3, <2>4, <2>5, <2>6 DEF PrefetchAt, PrefetchRest
  <2> QED
    BY <2>2, <2>7 DEF PrefetchInv
<1>5. CASE ~Base!IsEnd(c.v)
  <2>1. /\ MaybeFill(Call("Deliver", 0, "none", PrefetchUnder(c)))
        /\ UNCHANGED <<delivering, lock>>
    BY <1>1, <1>5 DEF PrefetchDelivered, Refill
  <2>2. /\ CarefulUse /\ buffer \in Seq(Base!Events) /\ outstanding \in Nat
        /\ Len(buffer) + outstanding <= BufferSize
        /\ Alive(1) => outstanding = requested[1]
    <3>1. requested[1] \in Nat
      BY <1>1, <1>2, Counting DEF Types
    <3> QED
      BY <1>1, <3>1 DEF IsPrefetch, PrefetchRest, PrefetchOwes, One
  <2>3. /\ phase' = phase /\ yielded' = yielded /\ awaited' = awaited
        /\ requested' \in [Sources -> Balance] /\ generating' \in [Sources -> BOOLEAN]
        /\ outstanding' \in Nat /\ Len(buffer) + outstanding' <= BufferSize
        /\ Alive(1) => outstanding' = requested'[1]
        /\ \/ /\ stack' = Call("Deliver", 0, "none", PrefetchUnder(c))
              /\ generating' = generating
           \/ /\ Alive(1) /\ 1 \notin late /\ ~generating[1] /\ generating'[1]
              /\ stack' = Call("Loop", 1, "none", Call("Deliver", 0, "none", PrefetchUnder(c)))
    BY <1>1, <1>2, <2>1, <2>2, MaybeFillIs
  <2>4. PICK d \in PrefetchContexts :
          /\ d.b = <<>> /\ d.e = c.e
          /\ \/ /\ stack' = Call("Deliver", 0, "none", PrefetchUnder(c))
                /\ generating' = generating /\ d.p = "deliver" /\ d.inner = c.inner
             \/ /\ Alive(1) /\ 1 \notin late /\ generating'[1] /\ d.p = "loop" /\ d.inner
                /\ ~c.inner
                /\ stack' = Call("Loop", 1, "none",
                                 Call("Deliver", 0, "none", PrefetchUnder(c)))
    <3>1. /\ [c EXCEPT !.p = "deliver"] \in PrefetchContexts
          /\ [c EXCEPT !.p = "loop", !.inner = TRUE] \in PrefetchContexts
      BY DEF PrefetchContexts, PrefetchPlaces, PrefetchBase, PrefetchSends
    <3>2. Alive(1) /\ 1 \notin late /\ ~generating[1] => ~c.inner
      BY <1>1 DEF PrefetchRest, PrefetchRuns, BaseExecutes, PrefetchSends
    <3> QED
      BY <1>2, <2>3, <3>1, <3>2 DEF PrefetchContexts
  <2>5. stack' = PrefetchStack(d)
    BY <1>2, <2>4 DEF PrefetchStack, PrefetchBelow, PrefetchUnder
  <2>6. Types'
    BY <1>2, <1>3, <2>1, <2>3 DEF Types
  <2>7. ~EndBuffered \/ ~Alive(1) \/ (c.inner /\ Base!IsEnd(c.e))
    BY <1>1 DEF PrefetchRest, PrefetchOver, EndBelow
  <2>8. PrefetchBegins(d)' /\ PrefetchRuns(d)' /\ PrefetchOver(d)'
    BY <1>1, <1>2, <1>3, <1>5, <2>1, <2>3, <2>4, <2>7
       DEF PrefetchRest, PrefetchBegins, PrefetchRuns, PrefetchOver, Alive, Base!Alive,
           BaseExecutes, PrefetchSends, PrefetchBase, EndBelow, EndBuffered
  <2>9. PrefetchOwes(d)' /\ PrefetchKeeps(d)'
    <3>1. requested'[1] \in Nat
      BY <1>1, <2>3, Counting
    <3> QED
      BY <1>1, <1>2, <1>3, <2>3, <2>4, <2>7, <3>1
         DEF PrefetchRest, PrefetchOwes, PrefetchKeeps, Alive, Base!Alive, One, EndBuffered
  <2>10. PrefetchAt(d)'
    BY <1>1, <1>2, <1>3, <2>1, <2>3, <2>5, <2>6, <2>8, <2>9 DEF PrefetchAt, PrefetchRest
  <2> QED
    BY <2>10 DEF PrefetchInv
<1> QED
  BY <1>4, <1>5

\* The subscriber requests n events: they are delivered now if none is.
LEMMA PrefetchRequestInv ==
  ASSUME IsPrefetch, NEW c \in PrefetchContexts, PrefetchAt(c), UserActive, open, StreamAlive,
         NEW n \in Nat, asked' = asked + n, PrefetchRequest(n, stack),
         UNCHANGED <<open, got, taken, ended, singleVars, otherVars>>
  PROVE  PrefetchInv'
<1>1. /\ PrefetchRest(c) /\ 1 \in Sources /\ ~fault /\ Types /\ stack = PrefetchStack(c)
      /\ (c.p = "out" /\ c.b \in {<<>>, TellingFilling}) \/ c.p = "user"
  BY PrefetchPlace, Vocabulary DEF PrefetchAt, PrefetchRest
<1>2. /\ balance' = AddTo(balance, n) /\ MaybeDeliver(stack)
      /\ UNCHANGED <<phase, requested, generating, yielded, awaited, fault, lock, open, got, taken,
                      ended, cancelled, answers, buffer, outstanding, late, kind, user>>
  BY DEF PrefetchRequest, sourceVars, singleVars, otherVars, settings
<1>3. balance' \in Balance /\ asked' \in Nat
  <2>1. balance \in Balance /\ asked \in Nat
    BY <1>1 DEF Types
  <2> QED
    BY <1>2, <2>1, Counting
<1>4. Types'
  BY <1>1, <1>2, <1>3 DEF Types
<1>5. CASE c.p = "user"
  <2>1. delivering' = delivering /\ stack' = stack
    BY <1>1, <1>2, <1>5 DEF MaybeDeliver, PrefetchRest, PrefetchRuns, PrefetchSends
  <2>2. PrefetchBegins(c)' /\ PrefetchRuns(c)' /\ PrefetchOver(c)'
    BY <1>1, <1>2, <1>5, <2>1
       DEF PrefetchRest, PrefetchBegins, PrefetchRuns, PrefetchOver, Alive, Base!Alive,
           BaseExecutes, PrefetchSends, PrefetchBase, EndBelow, EndBuffered
  <2>3. PrefetchOwes(c)' /\ PrefetchKeeps(c)'
    BY <1>1, <1>2
       DEF PrefetchRest, PrefetchOwes, PrefetchKeeps, Alive, Base!Alive, EndBuffered
  <2>4. PrefetchAt(c)'
    BY <1>1, <1>2, <1>4, <2>1, <2>2, <2>3
       DEF PrefetchAt, PrefetchRest, PrefetchStack, PrefetchSent, PrefetchUnder
  <2> QED
    BY <2>4 DEF PrefetchInv
<1>6. CASE c.p = "out"
  <2>1. /\ c.b \in {<<>>, TellingFilling} /\ stack = c.b /\ ~c.inner /\ ~delivering /\ ~ended
        /\ (c.b # <<>> => buffer = <<>>) /\ Filling # TellingFilling /\ Filling # <<>>
    <3>1. c.b \in {<<>>, TellingFilling} /\ stack = c.b /\ Filling # TellingFilling /\ Filling # <<>>
      BY <1>1, <1>6, PrefetchPlace, PrefetchTop
    <3>2. ~c.inner /\ ~delivering /\ (c.b # <<>> => buffer = <<>>)
      BY <1>1, <1>6
         DEF PrefetchRest, PrefetchBegins, PrefetchRuns, PrefetchSends, PrefetchBase
    <3>3. awaited = {} /\ \A g \in Sources : Alive(g) => g = 1
      BY <1>1 DEF PrefetchRest, PrefetchBegins, Alive, Base!Alive
    <3>4. lock \/ Alive(1)
      <4>1. kind # "flatmap"
        BY DEF IsPrefetch
      <4> QED
        BY <3>3, <4>1 DEF StreamAlive, SharedAlive
    <3>5. ~ended
      BY <1>1, <1>6, <3>4 DEF PrefetchRest, PrefetchOver, EndBelow, PrefetchSends
    <3> QED
      BY <3>1, <3>2, <3>5
  <2>2. delivering' = TRUE /\ stack' = Call("Deliver", 0, "none", c.b)
    BY <1>2, <2>1 DEF MaybeDeliver
  <2> DEFINE d == [c EXCEPT !.p = "deliver"]
  <2>3. d \in PrefetchContexts /\ d.p = "deliver" /\ d.b = c.b /\ ~d.inner
    BY <2>1 DEF PrefetchContexts, PrefetchPlaces, PrefetchSends
  <2> HIDE DEF d
  <2>4. stack' = PrefetchStack(d)
    BY <2>2, <2>3 DEF PrefetchStack, PrefetchUnder
  <2>5. PrefetchBegins(d)' /\ PrefetchRuns(d)' /\ PrefetchOver(d)'
    BY <1>1, <1>2, <1>6, <2>1, <2>2, <2>3
       DEF PrefetchRest, PrefetchBegins, PrefetchRuns, PrefetchOver, Alive, Base!Alive,
           BaseExecutes, PrefetchSends, PrefetchBase, EndBelow, EndBuffered
  <2>6. PrefetchOwes(d)' /\ PrefetchKeeps(d)'
    BY <1>1, <1>2, <1>6, <2>1, <2>3
       DEF PrefetchRest, PrefetchOwes, PrefetchKeeps, Alive, Base!Alive, EndBuffered, One
  <2>7. PrefetchAt(d)'
    BY <1>1, <1>2, <1>4, <2>2, <2>4, <2>5, <2>6 DEF PrefetchAt, PrefetchRest
  <2> QED
    BY <2>3, <2>7 DEF PrefetchInv
<1> QED
  BY <1>1, <1>5, <1>6

\* A call of the subscriber returns.
LEMMA PrefetchUserReturnsInv ==
  ASSUME IsPrefetch, NEW c \in PrefetchContexts, PrefetchAt(c), UserReturns, UNCHANGED otherVars
  PROVE  PrefetchInv'
<1>1. /\ PrefetchRest(c) /\ stack # <<>> /\ stack' = Tail(stack) /\ UserActive /\ ~fault
      /\ UNCHANGED <<phase, requested, generating, yielded, awaited, fault, balance, lock, open,
                      asked, got, taken, ended, cancelled, answers, buffer, outstanding,
                      delivering, late, kind, user>>
  BY DEF PrefetchAt, UserReturns, sourceVars, userVars, singleVars, prefetchVars, otherVars,
         settings, PrefetchRest
<1>2. \/ c.p = "out" /\ c.b = TellingFilling /\ stack' = Filling
      \/ c.p = "user" /\ stack' = PrefetchSent(c)
  BY <1>1, PrefetchPlace, PrefetchTop DEF PrefetchAt, Called
<1>3. Filling # <<>> /\ TellingFilling # <<>> /\ Filling # TellingFilling
  BY PrefetchPlace DEF PrefetchAt
<1> DEFINE d == [c EXCEPT !.p = IF c.p = "out" THEN "out" ELSE "delivered",
                          !.b = IF c.p = "out" THEN Filling ELSE c.b]
<1>4. /\ d \in PrefetchContexts /\ d.inner = c.inner /\ d.e = c.e /\ d.v = c.v
      /\ c.p = "out" => d.p = "out" /\ d.b = Filling
      /\ c.p = "user" => d.p = "delivered" /\ d.b = c.b
  BY DEF PrefetchContexts, PrefetchPlaces, PrefetchSends
<1> HIDE DEF d
<1>5. stack' = PrefetchStack(d)
  BY <1>2, <1>4 DEF PrefetchStack, PrefetchSent, PrefetchUnder
<1>6. Types'
  BY <1>1 DEF Types, PrefetchRest
<1>7. PrefetchBegins(d)' /\ PrefetchRuns(d)' /\ PrefetchOver(d)'
  BY <1>1, <1>2, <1>3, <1>4
     DEF PrefetchRest, PrefetchBegins, PrefetchRuns, PrefetchOver, Alive, Base!Alive,
         BaseExecutes, PrefetchSends, PrefetchBase, EndBelow, EndBuffered
<1>8. PrefetchOwes(d)' /\ PrefetchKeeps(d)'
  BY <1>1, <1>2, <1>4
     DEF PrefetchRest, PrefetchOwes, PrefetchKeeps, Alive, Base!Alive, EndBuffered, One
<1>9. PrefetchAt(d)'
  BY <1>1, <1>5, <1>6, <1>7, <1>8 DEF PrefetchAt, PrefetchRest
<1> QED
  BY <1>4, <1>9 DEF PrefetchInv

\* A step of the code of Prefetch or of the loop of its base.
LEMMA PrefetchStepInv ==
  ASSUME IsPrefetch, NEW c \in PrefetchContexts, PrefetchAt(c), StreamStep, UNCHANGED otherVars
  PROVE  PrefetchInv'
<1>1. /\ stack = PrefetchStack(c) /\ PrefetchRest(c) /\ kind = "prefetch" /\ 1 \in Sources
      /\ UNCHANGED singleVars /\ ~fault /\ Types
  BY Vocabulary DEF PrefetchAt, StreamStep, IsPrefetch, PrefetchRest
<1>2. CASE \/ PrefetchOnSubscribe \/ PrefetchFill \/ PrefetchOnNext
           \/ PrefetchDeliver \/ PrefetchDelivered
  BY <1>1, <1>2, PrefetchConfirmInv, PrefetchFillInv, PrefetchNextInv, PrefetchDeliverInv,
     PrefetchDeliveredInv
<1>3. CASE SourceReturns({}) /\ UNCHANGED <<balance, lock, open, userVars, prefetchVars>>
  <2>1. c.p = "after" /\ Called(stack, "After", 1, c.e, PrefetchBelow(c))
    BY <1>1, <1>3, PrefetchPlace, PrefetchTop DEF SourceReturns
  <2>2. {1} \cup {} = {1}
    OBVIOUS
  <2>3. /\ UNCHANGED <<requested, generating, yielded, awaited, fault>>
        /\ \/ ~Alive(1) /\ phase' = phase /\ stack' = PrefetchBelow(c)
           \/ Alive(1) /\ Base!IsEnd(c.e) /\ phase' = Deleted({1}) /\ stack' = PrefetchBelow(c)
           \/ Alive(1) /\ ~Base!IsEnd(c.e) /\ 1 \in late /\ phase' = phase
              /\ stack' = PrefetchBelow(c)
           \/ Alive(1) /\ ~Base!IsEnd(c.e) /\ 1 \notin late /\ phase' = phase
              /\ stack' = Call("Loop", 1, "none", PrefetchBelow(c))
    BY <1>1, <1>3, <2>1, <2>2, SourceReturnsIs
  <2> QED
    BY <1>1, <1>3, <2>1, <2>3, PrefetchReturnsInv
<1>4. CASE Generate /\ UNCHANGED <<balance, lock, open, userVars, prefetchVars>>
  <2>1. IsTop("Loop")
    BY <1>4, GenerateTop
  <2>2. /\ c.p = "loop" /\ Called(stack, "Loop", 1, "none", PrefetchBelow(c)) /\ Alive(1)
    BY <1>1, <2>1, PrefetchPlace, PrefetchTop DEF PrefetchRest, PrefetchRuns
  <2>3. \/ \E ev \in Base!Events : Sends(1, ev, PrefetchBelow(c))
        \/ /\ generating' = [generating EXCEPT ![1] = FALSE]
           /\ stack' = PrefetchBelow(c)
           /\ UNCHANGED <<phase, requested, yielded, awaited, fault>>
    BY <1>1, <1>4, <2>2, GenerateIs
  <2> QED
    BY <1>1, <1>4, <2>2, <2>3, PrefetchSendsInv, PrefetchPauseInv
<1> QED
  BY <1>1, <1>2, <1>3, <1>4 DEF StreamStep, OnlyOf, PrefetchStep

\* A step of the subscriber.
LEMMA PrefetchUserInv ==
  ASSUME IsPrefetch, NEW c \in PrefetchContexts, PrefetchAt(c), UNCHANGED otherVars,
         UserSubscribes \/ UserRequests \/ UserCancels \/ Returns
  PROVE  PrefetchInv'
<1>1. kind = "prefetch" /\ user = "free" /\ kind \notin Cancels
  BY DEF IsPrefetch, CarefulUse, Setting
<1>2. CASE UserSubscribes
  BY <1>1, <1>2, PrefetchSubscribeInv DEF UserSubscribes, MaySubscribe, OnlyOf
<1>3. CASE UserRequests
  <2>1. PICK n \in Counts : Request(n, stack)
    BY <1>3 DEF UserRequests
  <2>2. UserActive /\ open /\ StreamAlive /\ UNCHANGED singleVars /\ n \in Nat
    BY <1>3, CountsAre DEF UserRequests
  <2>3. /\ asked' = asked + n /\ PrefetchRequest(n, stack)
        /\ UNCHANGED <<open, got, taken, ended>>
    BY <1>1, <2>1 DEF Request, OnlyOf
  <2> HIDE <2>1
  <2> QED
    BY <2>2, <2>3, PrefetchRequestInv
<1>4. CASE UserReturns
  BY <1>4, PrefetchUserReturnsInv
<1> QED
  BY <1>1, <1>2, <1>3, <1>4 DEF UserCancels, Returns, SingleOnSubscribe, SingleOnNext

\* A step of the late base.
LEMMA PrefetchLateInv ==
  ASSUME IsPrefetch, NEW c \in PrefetchContexts, PrefetchAt(c), UNCHANGED otherVars,
         NEW g \in Sources, LateStep(g)
  PROVE  PrefetchInv'
<1>1. /\ stack = PrefetchStack(c) /\ PrefetchRest(c) /\ Types
      /\ UNCHANGED <<balance, lock, open, userVars, singleVars, prefetchVars>>
  BY DEF PrefetchAt, PrefetchRest, LateStep
<1>2. CASE LateSubscribe(g)
  BY <1>1, <1>2, PrefetchLateSubscribeInv
<1>3. CASE LateOnNext(g)
  <2>1. PICK ev \in Base!Events : Sends(g, ev, <<>>)
    BY <1>1, <1>3, LateOnNextIs
  <2>2. stack = <<>> /\ g \in late /\ Alive(g)
    BY <1>1, <1>3, LateOnNextIs
  <2>3. c.p = "out" /\ c.b = <<>>
    BY <1>1, <2>2, PrefetchPlace
  <2>4. g = 1 /\ PrefetchBelow(c) = <<>>
    BY <1>1, <2>2, <2>3
       DEF PrefetchRest, PrefetchBegins, PrefetchRuns, Alive, Base!Alive, PrefetchBelow
  <2> QED
    BY <1>1, <2>1, <2>2, <2>3, <2>4, PrefetchSendsInv
<1> QED
  BY <1>2, <1>3 DEF LateStep

\* Prefetch keeps its invariant.
LEMMA PrefetchNext ==
  ASSUME IsPrefetch, PrefetchInv, [Next]_vars
  PROVE  PrefetchInv'
<1>1. PICK c \in PrefetchContexts : PrefetchAt(c)
  BY DEF PrefetchInv
<1>2. CASE UNCHANGED vars
  <2>1. UNCHANGED <<stack, phase, requested, generating, yielded, awaited, fault, balance, lock,
                    open, asked, got, taken, ended, cancelled, answers, buffer, outstanding,
                    delivering, late, kind, user>>
    BY <1>2
       DEF vars, streamVars, sourceVars, userVars, prefetchVars, singleVars, otherVars,
           settings
  <2>2. PrefetchRest(c)'
    BY <1>1, <2>1
       DEF PrefetchAt, PrefetchRest, Types, PrefetchBegins, PrefetchRuns, PrefetchOver,
           PrefetchOwes, PrefetchKeeps, EndBuffered, Alive, Base!Alive
  <2>3. PrefetchAt(c)'
    BY <1>1, <2>1, <2>2
       DEF PrefetchAt, PrefetchStack, PrefetchAfter, PrefetchBelow, PrefetchSent,
           PrefetchUnder
  <2> QED
    BY <2>3 DEF PrefetchInv
<1>3. CASE /\ UserSubscribes \/ UserRequests \/ UserCancels \/ Returns \/ StreamStep
              \/ \E g \in Sources : LateStep(g)
           /\ UNCHANGED otherVars
  BY <1>1, <1>3, PrefetchStepInv, PrefetchUserInv, PrefetchLateInv
<1> QED
  BY <1>2, <1>3 DEF Next, Terminated

\* At the start nothing executes.
LEMMA PrefetchStarts ==
  ASSUME Init, kind = "prefetch", CarefulUse
  PROVE  IsPrefetch /\ PrefetchInv
<1>1. IsPrefetch
  BY PipelineAssumption, OperatorsAssumption DEF Init, PipelineInit, IsPrefetch, Setting
<1>2. /\ phase = [g \in Sources |-> "new"] /\ requested = [g \in Sources |-> 0]
      /\ generating = [g \in Sources |-> FALSE] /\ yielded = [g \in Sources |-> 0]
      /\ taken = [g \in Sources |-> 0] /\ stack = <<>> /\ ~fault /\ fault \in BOOLEAN
      /\ awaited = {} /\ balance = 0 /\ ~lock /\ ~open /\ asked = 0 /\ got = 0 /\ ~ended
      /\ ~cancelled /\ answers = 0 /\ buffer = <<>> /\ outstanding = 0 /\ ~delivering
      /\ {lock, open, ended, cancelled, delivering} \subseteq BOOLEAN
  BY DEF Init, PipelineInit, Base!Init, PrefetchInit
<1>3. PICK c \in PrefetchContexts : c.p = "out" /\ c.b = <<>> /\ ~c.inner
  <2>1. [p |-> "out", b |-> <<>>, inner |-> FALSE, e |-> "done", v |-> "done"]
          \in PrefetchContexts
    BY DEF PrefetchContexts, PrefetchPlaces, Base!Events
  <2> QED
    BY <2>1
<1>4. stack = PrefetchStack(c)
  BY <1>2, <1>3 DEF PrefetchStack
<1>5. Types
  <2>1. 0 \in Balance /\ 0 \in Nat
    BY KMaxAssumption DEF Balance
  <2> QED
    BY <1>2, <2>1 DEF Types
<1>6. 1 \in Sources /\ buffer \in Seq(Base!Events) /\ Len(buffer) = 0 /\ ~EndBuffered
  BY <1>2, Vocabulary DEF EndBuffered
<1>7. PrefetchBegins(c) /\ PrefetchRuns(c) /\ PrefetchOver(c)
  BY <1>2, <1>3, <1>6
     DEF PrefetchBegins, PrefetchRuns, PrefetchOver, Alive, Base!Alive, BaseExecutes,
         PrefetchSends, PrefetchBase
<1>8. PrefetchOwes(c) /\ PrefetchKeeps(c)
  BY <1>2, <1>3, <1>6, PrefetchAssumption
     DEF PrefetchOwes, PrefetchKeeps, Alive, Base!Alive, One
<1>9. PrefetchAt(c)
  BY <1>2, <1>4, <1>5, <1>6, <1>7, <1>8 DEF PrefetchAt, PrefetchRest
<1> QED
  BY <1>1, <1>9 DEF PrefetchInv

-----------------------------------------------------------------------------
(* FlatMap: the stacks.                                                      *)

\* The stream is a FlatMap that is used with care.
IsFlatMap == CarefulUse /\ Setting /\ kind = "flatmap"

\* What the use of a FlatMap gives.
LEMMA FlatUse ==
  ASSUME IsFlatMap
  PROVE  /\ KMax \in Nat /\ KMax >= 2
         /\ SubscribesLate[kind] \subseteq {1}
         /\ 1 \in late => kind \in Patient
         /\ 1 \in Sources /\ 0 \notin Sources
         /\ \A n \in Nat : 1 <= n /\ n <= MaxElems + 1 => n \in Sources
<1>1. KMax \in Nat /\ KMax >= 2
  BY KMaxAssumption, PrefetchAssumption DEF IsFlatMap, CarefulUse
<1>2. kind = "flatmap" /\ kind \in Kinds /\ late \subseteq AnswersLate[kind]
  BY DEF IsFlatMap, Setting
<1>3. SubscribesLate[kind] \subseteq {1} /\ (1 \in late => kind \in Patient)
  BY <1>2 DEF IsFlatMap, CarefulUse
<1>4. /\ Sources = 1 .. Cardinality(Sources) /\ Cardinality(Sources) \in Nat
      /\ MaxElems + 1 \in Sources /\ 1 \in Sources /\ MaxElems \in Nat
  BY <1>2, Vocabulary, PipelineAssumption
<1>5. \A n \in Nat : 1 <= n /\ n <= MaxElems + 1 => n \in Sources
  BY <1>4
<1> QED
  BY <1>1, <1>3, <1>4, <1>5

\* What is below the innermost call.
LEMMA FlatBelowIs ==
  ASSUME NEW c \in FlatContexts
  PROVE  /\ c.e \in Words /\ c.f \in Words /\ c.g \in Gens0
         /\ c.b \in Seq(Frames)
         /\ FlatBelow(c) \in Seq(Frames) /\ FlatUnder(c) \in Seq(Frames)
         /\ Called(FlatBase(c), "After", 1, c.e, FlatBelow(c))
         /\ Called(FlatCont(c), "After", c.g, c.f, FlatUnder(c))
         /\ Called(FlatFails(c), "Terminate", 0, "none", FlatCont(c))
<1>1. /\ c.e \in Words /\ c.f \in Words /\ c.g \in Gens0 /\ 1 \in Gens0 /\ 0 \in Gens0
      /\ c.h \in Gens0 /\ {"none", "value", "done"} \subseteq Words
  BY Vocabulary DEF FlatContexts, Gens0
<1>2. c.b \in Seq(Frames)
  BY TellingIs DEF FlatContexts, Called
<1>3. Called(Call("After", c.h, "done", c.b), "After", c.h, "done", c.b)
  BY <1>1, <1>2, Vocabulary, CallTop
<1>4. FlatBelow(c) \in Seq(Frames)
  BY <1>2, <1>3 DEF FlatBelow, Called
<1>5. Called(Call("After", 1, "value", FlatBelow(c)), "After", 1, "value", FlatBelow(c))
  BY <1>1, <1>4, Vocabulary, CallTop
<1>6. FlatUnder(c) \in Seq(Frames)
  BY <1>4, <1>5 DEF FlatUnder, Called
<1>7. Called(FlatBase(c), "After", 1, c.e, FlatBelow(c))
  BY <1>1, <1>4, Vocabulary, CallTop DEF FlatBase
<1>8. Called(FlatCont(c), "After", c.g, c.f, FlatUnder(c))
  BY <1>1, <1>6, Vocabulary, CallTop DEF FlatCont
<1>9. FlatCont(c) \in Seq(Frames)
  BY <1>8 DEF Called
<1>10. Called(FlatFails(c), "Terminate", 0, "none", FlatCont(c))
  BY <1>1, <1>9, Vocabulary, CallTop DEF FlatFails
<1> QED
  BY <1>1, <1>2, <1>4, <1>6, <1>7, <1>8, <1>10

\* The innermost call at each place.
LEMMA FlatTop ==
  ASSUME NEW c \in FlatContexts, stack = FlatStack(c)
  PROVE  /\ c.p = "out" => stack = c.b
         /\ c.p = "out" /\ c.b # <<>> => Called(stack, "UserOnSubscribe", 0, "none", <<>>)
         /\ c.p = "subscribing" => Called(stack, "OnSubscribe", 1, "none", <<>>)
         /\ c.p = "loop" => Called(stack, "Loop", 1, "none", FlatBelow(c))
         /\ c.p = "next" => Called(stack, "OnNext", 1, c.e, FlatBase(c))
         /\ c.p = "userEnd" => Called(stack, "UserOnNext", 1, c.e, FlatBase(c))
         /\ c.p = "after" => Called(stack, "After", 1, c.e, FlatBelow(c))
         /\ c.p = "contSubscribing" => Called(stack, "OnSubscribe", c.g, "none", FlatUnder(c))
         /\ c.p = "contLoop" => Called(stack, "Loop", c.g, "none", FlatUnder(c))
         /\ c.p = "contNext" => Called(stack, "OnNext", c.g, c.f, FlatCont(c))
         /\ c.p = "contUser" => Called(stack, "UserOnNext", c.g, c.f, FlatCont(c))
         /\ c.p = "contFails" => Called(stack, "UserOnNext", c.g, c.f, FlatFails(c))
         /\ c.p = "terminate" => Called(stack, "Terminate", 0, "none", FlatCont(c))
         /\ c.p = "contAfter" => Called(stack, "After", c.g, c.f, FlatUnder(c))
<1>1. /\ c.e \in Words /\ c.f \in Words /\ c.g \in Gens0 /\ 1 \in Gens0 /\ "none" \in Words
      /\ FlatBelow(c) \in Seq(Frames) /\ FlatUnder(c) \in Seq(Frames)
      /\ FlatBase(c) \in Seq(Frames) /\ FlatCont(c) \in Seq(Frames)
      /\ FlatFails(c) \in Seq(Frames) /\ <<>> \in Seq(Frames)
  BY FlatBelowIs, Vocabulary, TellingIs DEF Called
<1>2. /\ Called(Call("OnSubscribe", 1, "none", <<>>), "OnSubscribe", 1, "none", <<>>)
      /\ Called(Call("Loop", 1, "none", FlatBelow(c)), "Loop", 1, "none", FlatBelow(c))
      /\ Called(Call("OnNext", 1, c.e, FlatBase(c)), "OnNext", 1, c.e, FlatBase(c))
      /\ Called(Call("UserOnNext", 1, c.e, FlatBase(c)), "UserOnNext", 1, c.e, FlatBase(c))
  BY <1>1, Vocabulary, CallTop
<1>3. /\ Called(Call("OnSubscribe", c.g, "none", FlatUnder(c)),
                "OnSubscribe", c.g, "none", FlatUnder(c))
      /\ Called(Call("Loop", c.g, "none", FlatUnder(c)), "Loop", c.g, "none", FlatUnder(c))
      /\ Called(Call("OnNext", c.g, c.f, FlatCont(c)), "OnNext", c.g, c.f, FlatCont(c))
      /\ Called(Call("UserOnNext", c.g, c.f, FlatCont(c)), "UserOnNext", c.g, c.f, FlatCont(c))
      /\ Called(Call("UserOnNext", c.g, c.f, FlatFails(c)),
                "UserOnNext", c.g, c.f, FlatFails(c))
  BY <1>1, Vocabulary, CallTop
<1>4. /\ Called(FlatBase(c), "After", 1, c.e, FlatBelow(c))
      /\ Called(FlatCont(c), "After", c.g, c.f, FlatUnder(c))
      /\ Called(FlatFails(c), "Terminate", 0, "none", FlatCont(c))
  BY FlatBelowIs
<1>5. c.p = "out" => stack = c.b /\ (c.b # <<>> => c.b = Telling)
  BY DEF FlatStack, FlatContexts
<1>6. /\ c.p = "subscribing" => stack = Call("OnSubscribe", 1, "none", <<>>)
      /\ c.p = "loop" => stack = Call("Loop", 1, "none", FlatBelow(c))
      /\ c.p = "next" => stack = Call("OnNext", 1, c.e, FlatBase(c))
      /\ c.p = "userEnd" => stack = Call("UserOnNext", 1, c.e, FlatBase(c))
      /\ c.p = "after" => stack = FlatBase(c)
  BY DEF FlatStack
<1>7. /\ c.p = "contSubscribing" => stack = Call("OnSubscribe", c.g, "none", FlatUnder(c))
      /\ c.p = "contLoop" => stack = Call("Loop", c.g, "none", FlatUnder(c))
      /\ c.p = "contNext" => stack = Call("OnNext", c.g, c.f, FlatCont(c))
      /\ c.p = "contUser" => stack = Call("UserOnNext", c.g, c.f, FlatCont(c))
      /\ c.p = "contFails" => stack = Call("UserOnNext", c.g, c.f, FlatFails(c))
      /\ c.p = "terminate" => stack = FlatFails(c)
      /\ c.p = "contAfter" => stack = FlatCont(c)
  BY DEF FlatStack
<1> QED
  BY <1>2, <1>3, <1>4, <1>5, <1>6, <1>7, TellingIs

\* The innermost call tells the place.
LEMMA FlatPlace ==
  ASSUME NEW c \in FlatContexts, stack = FlatStack(c), FlatNests(c)
  PROVE  /\ IsTop("OnSubscribe") /\ Top.gen = 1 => c.p = "subscribing"
         /\ IsTop("OnSubscribe") /\ Top.gen # 1 => c.p = "contSubscribing"
         /\ IsTop("Loop") => c.p \in {"loop", "contLoop"}
         /\ IsTop("OnNext") /\ Top.gen = 1 => c.p = "next"
         /\ IsTop("OnNext") /\ Top.gen # 1 => c.p = "contNext"
         /\ IsTop("After") /\ Top.gen = 1 => c.p = "after"
         /\ IsTop("After") /\ Top.gen # 1 => c.p = "contAfter"
         /\ IsTop("Terminate") => c.p = "terminate"
         /\ IsTop("UserOnSubscribe") => c.p = "out" /\ c.b = Telling
         /\ IsTop("UserOnNext") => c.p \in {"userEnd", "contUser", "contFails"}
         /\ stack = <<>> => c.p = "out" /\ c.b = <<>>
         /\ UserActive => c.p \in {"out", "userEnd", "contUser", "contFails"}
         /\ c.p # "out" => stack # <<>>
<1>1. /\ c.p \in FlatPlaces /\ (c.b # <<>> => c.b = Telling)
      /\ c.p \in FlatContPlaces \cup {"contSubscribing"} => c.g # 1
  BY DEF FlatContexts, FlatNests
<1>2. CASE c.p = "out"
  BY <1>1, <1>2, FlatTop DEF IsTop, Top, Called, UserActive
<1>3. CASE c.p \in FlatBasePlaces \cup {"subscribing"}
  BY <1>1, <1>3, FlatTop DEF IsTop, Top, Called, UserActive, FlatBasePlaces
<1>4. CASE c.p \in FlatContPlaces \cup {"contSubscribing"}
  BY <1>1, <1>4, FlatTop DEF IsTop, Top, Called, UserActive, FlatContPlaces
<1> QED
  BY <1>1, <1>2, <1>3, <1>4 DEF FlatPlaces

-----------------------------------------------------------------------------
(* FlatMap: the steps.                                                       *)

\* The base is subscribed to, and calls OnSubscribe at once or later.
LEMMA FlatSubscribeInv ==
  ASSUME IsFlatMap, NEW c \in FlatContexts, FlatAt(c),
         stack = <<>>, phase[1] = "new", awaited = {},
         FlatMapSubscribe, UNCHANGED <<lock, singleVars, otherVars>>
  PROVE  FlatInv'
<1>1. Telling # <<>>
  BY TellingIs DEF Called
<1>2. /\ c.p = "out" /\ c.b = <<>> /\ ~open /\ 1 \in Sources /\ 0 \notin Sources
      /\ FlatRest(c)
      /\ ~fault /\ Types /\ ~c.n /\ c.h = 0 /\ cont = 0
  BY FlatPlace, FlatUse
     DEF FlatAt, FlatRest, FlatBegins, FlatNests, FlatContPlaces, FlatBasePlaces
<1>3. /\ DoSubscribe(1, <<>>)
      /\ UNCHANGED <<fault, balance, lock, open, asked, got, taken, ended, cancelled, answers,
                      cont, contRequested, conts, late, kind, user>>
  BY DEF FlatMapSubscribe, userVars, singleVars, flatMapVars, otherVars, settings
<1>4. CASE 1 \in late \cap SubscribesLate[kind]
  <2>1. awaited' = {1} /\ stack' = <<>> /\ UNCHANGED <<phase, requested, generating, yielded>>
    BY <1>2, <1>3, <1>4 DEF DoSubscribe
  <2>2. stack' = FlatStack(c)
    BY <1>2, <2>1 DEF FlatStack
  <2>3. Types'
    BY <1>2, <1>3, <2>1 DEF Types
  <2>4. FlatBegins(c)' /\ FlatNests(c)' /\ FlatCurrent(c)' /\ FlatOver(c)'
    BY <1>2, <1>3, <2>1
       DEF FlatRest, FlatBegins, FlatNests, FlatCurrent, FlatOver, Alive, Base!Alive
  <2>5. FlatOwes(c)' /\ FlatAsksOnce(c)' /\ FlatFlags(c)'
    BY <1>2, <1>3, <2>1
       DEF FlatRest, FlatOwes, FlatAsksOnce, FlatFlags, FlatAsks, FlatBaseRuns, Alive,
           Base!Alive
  <2>6. FlatAt(c)'
    BY <1>2, <1>3, <2>2, <2>3, <2>4, <2>5 DEF FlatAt, FlatRest, AnswersOnce
  <2> QED
    BY <2>6 DEF FlatInv
<1>5. CASE 1 \notin late \cap SubscribesLate[kind]
  <2>1. Base!Construct(1, <<>>) /\ awaited' = awaited
    BY <1>3, <1>5 DEF DoSubscribe
  <2>2. /\ phase' = [phase EXCEPT ![1] = "alive"]
        /\ stack' = Call("OnSubscribe", 1, "none", <<>>)
        /\ UNCHANGED <<requested, generating, yielded>>
    BY <1>2, <2>1, ConstructIs
  <2> DEFINE d == [c EXCEPT !.p = "subscribing"]
  <2>3. d \in FlatContexts /\ d.p = "subscribing" /\ d.b = <<>> /\ ~d.n /\ d.h = 0
    BY <1>2 DEF FlatContexts, FlatPlaces
  <2> HIDE DEF d
  <2>4. stack' = FlatStack(d)
    BY <2>2, <2>3 DEF FlatStack
  <2>5. Types'
    BY <1>2, <1>3, <2>1, <2>2 DEF Types
  <2>6. FlatBegins(d)' /\ FlatNests(d)' /\ FlatCurrent(d)' /\ FlatOver(d)'
    BY <1>1, <1>2, <1>3, <2>1, <2>2, <2>3
       DEF FlatRest, FlatBegins, FlatNests, FlatCurrent, FlatOver, Alive, Base!Alive, Types,
           FlatBasePlaces, FlatContPlaces
  <2>7. FlatOwes(d)' /\ FlatAsksOnce(d)' /\ FlatFlags(d)'
    BY <1>2, <1>3, <2>1, <2>2, <2>3
       DEF FlatRest, FlatOwes, FlatAsksOnce, FlatFlags, FlatAsks, FlatBaseRuns, FlatBegins,
           FlatBasePlaces, FlatContPlaces
  <2>8. FlatAt(d)'
    BY <1>2, <1>3, <2>3, <2>4, <2>5, <2>6, <2>7 DEF FlatAt, FlatRest, AnswersOnce
  <2> QED
    BY <2>3, <2>8 DEF FlatInv
<1> QED
  BY <1>4, <1>5

\* The late base calls OnSubscribe.
LEMMA FlatLateSubscribeInv ==
  ASSUME IsFlatMap, NEW c \in FlatContexts, FlatAt(c), NEW g \in Sources, LateSubscribe(g),
         UNCHANGED <<balance, lock, open, userVars, singleVars, flatMapVars, otherVars>>
  PROVE  FlatInv'
<1>1. Telling # <<>>
  BY TellingIs DEF Called
<1>2. /\ c.p = "out" /\ c.b = <<>> /\ ~open /\ g = 1 /\ 1 \in Sources /\ 0 \notin Sources
      /\ FlatRest(c)
      /\ ~fault /\ Types /\ ~c.n /\ c.h = 0 /\ cont = 0
  BY FlatPlace, FlatUse
     DEF FlatAt, FlatRest, FlatBegins, FlatNests, FlatContPlaces, FlatBasePlaces,
         LateSubscribe
<1>3. /\ awaited' = awaited \ {1} /\ fault' = fault
      /\ UNCHANGED <<balance, lock, open, asked, got, taken, ended, cancelled, answers,
                      cont, contRequested, conts, late, kind, user>>
  BY <1>2 DEF LateSubscribe, userVars, singleVars, flatMapVars, otherVars, settings
<1>4. /\ phase' = [phase EXCEPT ![1] = "alive"]
      /\ stack' = Call("OnSubscribe", 1, "none", <<>>)
      /\ UNCHANGED <<requested, generating, yielded>>
  BY <1>2, ConstructIs DEF LateSubscribe
<1> DEFINE d == [c EXCEPT !.p = "subscribing"]
<1>5. d \in FlatContexts /\ d.p = "subscribing" /\ d.b = <<>> /\ ~d.n /\ d.h = 0
  BY <1>2 DEF FlatContexts, FlatPlaces
<1> HIDE DEF d
<1>6. stack' = FlatStack(d)
  BY <1>4, <1>5 DEF FlatStack
<1>7. awaited' = {}
  BY <1>2, <1>3 DEF FlatRest, FlatBegins
<1>8. Types'
  BY <1>2, <1>3, <1>4, <1>7 DEF Types
<1>9. FlatBegins(d)' /\ FlatNests(d)' /\ FlatCurrent(d)' /\ FlatOver(d)'
  <2>1. FlatBegins(d)'
    <3>1. phase'[1] = "alive" /\ \A k \in Sources \ {1} : phase'[k] = phase[k]
      BY <1>2, <1>4 DEF Types
    <3>2. conts' + One(d.p = "next" /\ d.e = "value") = yielded'[1] /\ yielded'[1] <= MaxElems
      BY <1>2, <1>3, <1>4, <1>5 DEF FlatRest, FlatBegins, One
    <3>3. /\ cont' = 0 /\ conts' = 0 /\ balance' = 0 /\ ~ended' /\ ~cancelled' /\ got' = 0
          /\ asked' = 0 /\ requested'[1] = 0 /\ ~generating'[1]
      BY <1>2, <1>3, <1>4 DEF FlatRest, FlatBegins
    <3>4. \A k \in Sources \ {1} : /\ phase'[k] = "new" <=> k > conts' + 1
                                   /\ phase'[k] = "new" => requested'[k] = 0 /\ ~generating'[k]
      BY <1>2, <1>3, <1>4, <3>1 DEF FlatRest, FlatBegins
    <3>5. ~open' /\ Alive(1)' /\ phase'[1] # "new"
      BY <1>2, <1>3, <3>1 DEF Alive, Base!Alive
    <3> QED
      BY <1>5, <1>7, <3>2, <3>3, <3>4, <3>5 DEF FlatBegins
  <2>2. FlatNests(d)' /\ FlatOver(d)'
    BY <1>1, <1>2, <1>3, <1>4, <1>5
       DEF FlatRest, FlatBegins, FlatNests, FlatOver, Alive, Base!Alive, FlatContPlaces
  <2>3. FlatCurrent(d)'
    BY <1>2, <1>3, <1>4, <1>5 DEF FlatRest, FlatCurrent, Alive, Base!Alive, Types
  <2> QED
    BY <2>1, <2>2, <2>3
<1>10. FlatOwes(d)' /\ FlatAsksOnce(d)' /\ FlatFlags(d)'
  BY <1>2, <1>3, <1>4, <1>5
     DEF FlatRest, FlatOwes, FlatAsksOnce, FlatFlags, FlatAsks, FlatBaseRuns, FlatBegins,
         FlatBasePlaces, FlatContPlaces
<1>11. FlatAt(d)'
  BY <1>2, <1>3, <1>5, <1>6, <1>8, <1>9, <1>10 DEF FlatAt, FlatRest, AnswersOnce
<1> QED
  BY <1>5, <1>11 DEF FlatInv

\* The base has called OnSubscribe: so does the stream.
LEMMA FlatConfirmInv ==
  ASSUME IsFlatMap, NEW c \in FlatContexts, FlatAt(c),
         FlatMapOnSubscribe, UNCHANGED <<singleVars, otherVars>>
  PROVE  FlatInv'
<1>1. /\ c.p = "subscribing" /\ Tail(stack) = <<>> /\ FlatRest(c)
  BY FlatPlace, FlatTop DEF FlatMapOnSubscribe, FlatAt, FlatRest, Called
<1>2. /\ ~open /\ c.b = <<>> /\ 1 \in Sources /\ 0 \notin Sources /\ ~c.n /\ c.h = 0
      /\ Alive(1)
      /\ ~fault /\ Types /\ cont = 0
  BY <1>1, FlatUse
     DEF FlatRest, FlatBegins, FlatNests, FlatContPlaces, FlatBasePlaces
<1>3. /\ open' = TRUE /\ stack' = Telling
      /\ UNCHANGED <<phase, requested, generating, yielded, awaited, fault, balance, lock, asked,
                      got, taken, ended, cancelled, answers, cont, contRequested, conts, late,
                      kind, user>>
  BY <1>1
     DEF FlatMapOnSubscribe, ConfirmSubscription, Telling, sourceVars, userVars, singleVars,
         flatMapVars, otherVars, settings
<1> DEFINE d == [c EXCEPT !.p = "out", !.b = Telling]
<1>4. d \in FlatContexts /\ d.p = "out" /\ d.b = Telling /\ ~d.n /\ d.h = 0
  BY <1>2 DEF FlatContexts, FlatPlaces
<1> HIDE DEF d
<1>5. stack' = FlatStack(d)
  BY <1>3, <1>4 DEF FlatStack
<1>6. Types'
  BY <1>2, <1>3 DEF Types
<1>7. FlatBegins(d)' /\ FlatNests(d)' /\ FlatCurrent(d)' /\ FlatOver(d)'
  BY <1>1, <1>2, <1>3, <1>4
     DEF FlatRest, FlatBegins, FlatNests, FlatCurrent, FlatOver, Alive, Base!Alive,
         FlatBasePlaces, FlatContPlaces
<1>8. FlatOwes(d)' /\ FlatAsksOnce(d)' /\ FlatFlags(d)'
  BY <1>1, <1>2, <1>3, <1>4
     DEF FlatRest, FlatOwes, FlatAsksOnce, FlatFlags, FlatAsks, FlatBaseRuns, FlatBegins,
         FlatBasePlaces, FlatContPlaces, Alive, Base!Alive
<1>9. FlatAt(d)'
  BY <1>1, <1>2, <1>3, <1>4, <1>5, <1>6, <1>7, <1>8 DEF FlatAt, FlatRest, AnswersOnce
<1> QED
  BY <1>4, <1>9 DEF FlatInv

\* What is alive when nothing of the stream executes.
LEMMA FlatAtRest ==
  ASSUME NEW c \in FlatContexts, FlatRest(c), c.p = "out"
  PROVE  /\ ~c.n /\ c.h = 0 /\ FlatBelow(c) = c.b /\ FlatUnder(c) = c.b
         /\ \A g \in Sources \ {1} : Alive(g) => g = cont
         /\ Alive(1) => open /\ ~ended /\ ~cancelled
<1>1. ~c.n /\ c.h = 0
  BY DEF FlatRest, FlatNests, FlatContPlaces, FlatBasePlaces, FlatContexts
<1>2. \A g \in Sources \ {1} : Alive(g) => g = cont
  BY <1>1, Vocabulary DEF FlatRest, FlatCurrent
<1>3. Alive(1) => open /\ ~ended /\ ~cancelled
  BY DEF FlatRest, FlatBegins, FlatOver, Alive, Base!Alive, Types
<1> QED
  BY <1>1, <1>2, <1>3 DEF FlatBelow, FlatUnder

\* The base sends an event.
LEMMA FlatBaseSendsInv ==
  ASSUME IsFlatMap, NEW c \in FlatContexts, FlatRest(c), NEW ev \in Base!Events,
         \/ c.p = "loop"
         \/ c.p = "out" /\ c.b = <<>> /\ 1 \in late /\ Alive(1),
         Sends(1, ev, FlatBelow(c)),
         UNCHANGED <<balance, lock, open, userVars, singleVars, flatMapVars, otherVars>>
  PROVE  FlatInv'
<1>1. ~(user = "single" /\ c.b = Telling)
  <2>1. Telling # <<>>
    BY TellingIs DEF Called
  <2> QED
    BY <2>1 DEF FlatRest, FlatOver
<1>2. /\ 1 \in Sources /\ 0 \notin Sources /\ KMax \in Nat /\ KMax >= 2 /\ ~fault /\ Types
      /\ open /\ Alive(1) /\ ~ended /\ ~cancelled /\ ~c.n
      /\ c.p = "loop" \/ 1 \in late
      /\ phase[1] # "new"
  BY FlatUse, FlatAtRest
     DEF FlatRest, FlatCurrent, FlatNests, FlatContPlaces, Alive, Base!Alive, FlatContexts
<1>3. /\ UNCHANGED <<phase, generating, awaited, fault, balance, lock, open, asked, got, taken,
                      ended, cancelled, answers, cont, contRequested, conts, late, kind, user>>
      /\ HasRequests(requested[1])
      /\ requested' = [requested EXCEPT ![1] = RemoveFrom(@, 1)]
      /\ ev = "value" => yielded[1] < MaxElems
      /\ yielded' = IF ev = "value" THEN [yielded EXCEPT ![1] = @ + 1] ELSE yielded
      /\ stack' = Call("OnNext", 1, ev, Call("After", 1, ev, FlatBelow(c)))
  BY DEF Sends, userVars, singleVars, flatMapVars, otherVars, settings
<1>4. requested[1] = 1 /\ cont = 0
  <2>1. requested[1] \in {0, 1} /\ (requested[1] > 0 => cont = 0)
    BY <1>2 DEF FlatRest, FlatAsksOnce, FlatAsks
  <2> QED
    BY <1>3, <2>1 DEF HasRequests
<1>5. requested'[1] = 0 /\ \A k \in Sources \ {1} : requested'[k] = requested[k]
  <2>1. RemoveFrom(1, 1) = 0
    BY <1>2 DEF RemoveFrom
  <2> QED
    BY <1>2, <1>3, <1>4, <2>1 DEF Types
<1> DEFINE d == [c EXCEPT !.p = "next", !.e = ev]
<1>6. /\ d \in FlatContexts /\ d.p = "next" /\ d.b = c.b /\ d.e = ev /\ ~d.n /\ d.h = c.h
      /\ FlatBelow(d) = FlatBelow(c)
  BY <1>2 DEF FlatContexts, FlatPlaces, FlatBasePlaces, FlatBelow
<1> HIDE DEF d
<1>7. stack' = FlatStack(d)
  BY <1>3, <1>6 DEF FlatStack, FlatBase
<1>8. Types'
  <2>1. /\ phase' \in [Sources -> {"new", "alive", "deleted"}]
        /\ requested' \in [Sources -> Balance] /\ generating' \in [Sources -> BOOLEAN]
        /\ yielded' \in [Sources -> Nat] /\ awaited' \subseteq Sources /\ fault' \in BOOLEAN
    BY <1>2, SendsTypes
  <2> QED
    BY <1>2, <1>3, <2>1 DEF Types
<1>9. FlatBegins(d)'
  <2>1. conts' + One(d.p = "next" /\ d.e = "value") = yielded'[1] /\ yielded'[1] <= MaxElems
    <3>1. conts = yielded[1] /\ yielded[1] <= MaxElems /\ yielded[1] \in Nat /\ MaxElems \in Nat
      BY <1>2, PipelineAssumption DEF FlatRest, FlatBegins, One, Types
    <3>2. CASE ev = "value"
      <4>1. yielded'[1] = yielded[1] + 1 /\ yielded[1] < MaxElems
        BY <1>2, <1>3, <3>2 DEF Types
      <4> QED
        BY <1>3, <1>6, <3>1, <3>2, <4>1 DEF One
    <3>3. CASE ev # "value"
      BY <1>3, <1>6, <3>1, <3>3 DEF One
    <3> QED
      BY <3>2, <3>3
  <2> QED
    BY <1>2, <1>3, <1>5, <1>6, <2>1 DEF FlatRest, FlatBegins, Alive, Base!Alive
<1>10. FlatNests(d)' /\ FlatOver(d)'
  BY <1>1, <1>2, <1>3, <1>4, <1>6
     DEF FlatRest, FlatNests, FlatOver, Alive, Base!Alive, FlatBasePlaces, FlatContPlaces
<1>11. FlatCurrent(d)'
  BY <1>2, <1>3, <1>4, <1>6 DEF FlatRest, FlatCurrent, Alive, Base!Alive
<1>12. FlatOwes(d)' /\ FlatFlags(d)'
  BY <1>2, <1>3, <1>4, <1>6
     DEF FlatRest, FlatOwes, FlatFlags, FlatBaseRuns, Alive, Base!Alive, FlatBasePlaces
<1>13. FlatAsksOnce(d)'
  <2>1. FlatAsks(c)
    BY <1>4 DEF FlatAsks
  <2> QED
    BY <1>2, <1>3, <1>4, <1>5, <1>6, <2>1
       DEF FlatRest, FlatAsksOnce, FlatBaseRuns, Alive, Base!Alive, FlatBasePlaces
<1>14. FlatAt(d)'
  BY <1>2, <1>3, <1>6, <1>7, <1>8, <1>9, <1>10, <1>11, <1>12, <1>13
     DEF FlatAt, FlatRest, AnswersOnce
<1> QED
  BY <1>6, <1>14 DEF FlatInv

\* The continuation sends an event.
LEMMA FlatContSendsInv ==
  ASSUME IsFlatMap, NEW c \in FlatContexts, FlatRest(c), NEW ev \in Base!Events,
         NEW g \in Sources, g # 1, Alive(g),
         \/ c.p = "contLoop" /\ g = c.g
         \/ c.p = "out" /\ c.b = <<>> /\ g \in late,
         Sends(g, ev, FlatUnder(c)),
         UNCHANGED <<balance, lock, open, userVars, singleVars, flatMapVars, otherVars>>
  PROVE  FlatInv'
<1>1. ~(user = "single" /\ c.b = Telling)
  <2>1. Telling # <<>>
    BY TellingIs DEF Called
  <2> QED
    BY <2>1 DEF FlatRest, FlatOver
<1>2. /\ 1 \in Sources /\ 0 \notin Sources /\ ~fault /\ Types /\ g = cont
      /\ open /\ Alive(1) /\ ~ended /\ ~cancelled
      /\ (c.p = "contLoop" /\ g = c.g) \/ (c.p = "out" /\ g \in late)
      /\ phase[1] # "new" /\ phase[g] # "new" /\ Types
      /\ c.h # 0 => c.n
  <2>1. g = cont
    BY FlatAtRest DEF FlatRest, FlatCurrent
  <2>2. Alive(1)
    BY <2>1, FlatUse DEF FlatRest, FlatCurrent
  <2>3. c.h # 0 => c.n
    BY DEF FlatRest, FlatNests, FlatBasePlaces
  <2>4. open /\ ~ended /\ ~cancelled
    BY <2>2, FlatAtRest DEF FlatRest, FlatCurrent
  <2>5. phase[1] # "new" /\ phase[g] # "new"
    BY <2>2 DEF Alive, Base!Alive
  <2>6. 1 \in Sources /\ 0 \notin Sources /\ ~fault /\ Types
    BY FlatUse DEF FlatRest
  <2> QED
    BY <2>1, <2>2, <2>3, <2>4, <2>5, <2>6
<1>3. /\ UNCHANGED <<phase, generating, awaited, fault, balance, lock, open, asked, got, taken,
                      ended, cancelled, answers, cont, contRequested, conts, late, kind, user>>
      /\ HasRequests(requested[g])
      /\ requested' = [requested EXCEPT ![g] = RemoveFrom(@, 1)]
      /\ yielded' = IF ev = "value" THEN [yielded EXCEPT ![g] = @ + 1] ELSE yielded
      /\ stack' = Call("OnNext", g, ev, Call("After", g, ev, FlatUnder(c)))
  BY DEF Sends, userVars, singleVars, flatMapVars, otherVars, settings
<1>4. /\ requested'[g] = RemoveFrom(requested[g], 1)
      /\ \A k \in Sources \ {g} : requested'[k] = requested[k]
      /\ yielded'[1] = yielded[1]
  BY <1>2, <1>3 DEF Types
<1>5. balance = contRequested /\ balance = requested[g]
  BY <1>2 DEF FlatRest, FlatOwes
<1>6. ~FlatAsks(c) /\ requested[1] = 0
  BY <1>2 DEF FlatRest, FlatAsksOnce, FlatAsks
<1> DEFINE d == [c EXCEPT !.p = "contNext", !.g = g, !.f = ev]
<1>7. /\ d \in FlatContexts /\ d.p = "contNext" /\ d.b = c.b /\ d.f = ev /\ d.g = g
      /\ d.n = c.n /\ d.h = c.h /\ d.e = c.e /\ FlatUnder(d) = FlatUnder(c)
  BY <1>2 DEF FlatContexts, FlatPlaces, FlatContPlaces, FlatUnder, FlatBelow
<1> HIDE DEF d
<1>8. stack' = FlatStack(d)
  BY <1>3, <1>7 DEF FlatStack, FlatCont
<1>9. Types'
  <2>1. /\ phase' \in [Sources -> {"new", "alive", "deleted"}]
        /\ requested' \in [Sources -> Balance] /\ generating' \in [Sources -> BOOLEAN]
        /\ yielded' \in [Sources -> Nat] /\ awaited' \subseteq Sources /\ fault' \in BOOLEAN
    BY <1>2, SendsTypes
  <2> QED
    BY <1>2, <1>3, <2>1 DEF Types
<1>10. FlatBegins(d)'
  <2>1. One(d.p = "next" /\ d.e = "value") = 0 /\ One(c.p = "next" /\ c.e = "value") = 0
    BY <1>2, <1>7 DEF One
  <2>2. \A k \in Sources \ {1} : phase[k] = "new" => requested'[k] = requested[k]
    BY <1>2, <1>4
  <2> QED
    BY <1>2, <1>3, <1>4, <1>7, <2>1, <2>2 DEF FlatRest, FlatBegins, Alive, Base!Alive
<1>11. FlatNests(d)' /\ FlatOver(d)'
  BY <1>1, <1>2, <1>3, <1>7
     DEF FlatRest, FlatNests, FlatOver, Alive, Base!Alive, FlatBasePlaces, FlatContPlaces
<1>12. FlatCurrent(d)'
  BY <1>2, <1>3, <1>7 DEF FlatRest, FlatCurrent, Alive, Base!Alive
<1>13. FlatOwes(d)' /\ FlatFlags(d)'
  BY <1>2, <1>3, <1>4, <1>5, <1>7
     DEF FlatRest, FlatOwes, FlatFlags, FlatBaseRuns, Alive, Base!Alive, FlatBasePlaces,
         FlatContPlaces
<1>14. FlatAsksOnce(d)'
  <2>1. requested'[1] = 0
    BY <1>2, <1>4, <1>6
  <2>2. ~FlatAsks(d)'
    BY <1>7, <2>1 DEF FlatAsks
  <2> QED
    BY <1>2, <1>3, <1>7, <2>1, <2>2 DEF FlatRest, FlatAsksOnce
<1>15. FlatAt(d)'
  BY <1>2, <1>3, <1>7, <1>8, <1>9, <1>10, <1>11, <1>12, <1>13, <1>14
     DEF FlatAt, FlatRest, AnswersOnce
<1> QED
  BY <1>7, <1>15 DEF FlatInv

\* What is below the loop of the base.
LEMMA FlatBelowBase ==
  ASSUME NEW c \in FlatContexts
  PROVE  \E d \in FlatContexts :
           /\ FlatStack(d) = FlatBelow(c) /\ d.b = c.b /\ ~d.n /\ d.h = 0
           /\ d.p \in {"out", "contAfter"}
           /\ c.h = 0 => d.p = "out"
           /\ c.h # 0 => d.p = "contAfter" /\ d.g = c.h /\ d.f = "done"
<1>1. CASE c.h = 0
  <2> DEFINE d == [c EXCEPT !.p = "out", !.n = FALSE]
  <2>1. d \in FlatContexts /\ d.p = "out" /\ d.b = c.b /\ ~d.n /\ d.h = 0
    BY <1>1 DEF FlatContexts, FlatPlaces
  <2> HIDE DEF d
  <2>2. FlatStack(d) = FlatBelow(c)
    BY <1>1, <2>1 DEF FlatStack, FlatBelow
  <2> QED
    BY <1>1, <2>1, <2>2
<1>2. CASE c.h # 0
  <2> DEFINE d == [c EXCEPT !.p = "contAfter", !.g = c.h, !.f = "done", !.n = FALSE, !.h = 0]
  <2>1. /\ d \in FlatContexts /\ d.p = "contAfter" /\ d.b = c.b /\ ~d.n /\ d.h = 0
        /\ d.g = c.h /\ d.f = "done"
    BY <1>2 DEF FlatContexts, FlatPlaces, FlatContPlaces, Base!Events
  <2> HIDE DEF d
  <2>2. FlatStack(d) = FlatBelow(c)
    BY <1>2, <2>1 DEF FlatStack, FlatBelow, FlatCont, FlatUnder
  <2> QED
    BY <1>2, <2>1, <2>2
<1> QED
  BY <1>1, <1>2

\* What is below a continuation.
LEMMA FlatBelowCont ==
  ASSUME NEW c \in FlatContexts, c.h # 0 => c.n
  PROVE  \E d \in FlatContexts :
           /\ FlatStack(d) = FlatUnder(c) /\ d.b = c.b /\ ~d.n /\ d.h = c.h
           /\ d.p \in {"out", "after"}
           /\ c.n <=> d.p = "after"
           /\ d.p = "after" => d.e = "value"
<1>1. CASE ~c.n
  <2> DEFINE d == [c EXCEPT !.p = "out"]
  <2>1. d \in FlatContexts /\ d.p = "out" /\ d.b = c.b /\ ~d.n /\ d.h = c.h /\ c.h = 0
    BY <1>1 DEF FlatContexts, FlatPlaces
  <2> HIDE DEF d
  <2>2. FlatStack(d) = FlatUnder(c)
    BY <1>1, <2>1 DEF FlatStack, FlatUnder, FlatBelow
  <2> QED
    BY <1>1, <2>1, <2>2
<1>2. CASE c.n
  <2> DEFINE d == [c EXCEPT !.p = "after", !.e = "value", !.n = FALSE]
  <2>1. /\ d \in FlatContexts /\ d.p = "after" /\ d.b = c.b /\ ~d.n /\ d.h = c.h
        /\ d.e = "value"
    BY <1>2 DEF FlatContexts, FlatPlaces, FlatBasePlaces, Base!Events
  <2> HIDE DEF d
  <2>2. FlatStack(d) = FlatUnder(c)
    BY <1>2, <2>1 DEF FlatStack, FlatBase, FlatUnder, FlatBelow
  <2> QED
    BY <1>2, <2>1, <2>2
<1> QED
  BY <1>1, <1>2

\* The base and the active continuation are deleted.
LEMMA FlatDeletes ==
  ASSUME Types, 1 \in Sources, 0 \notin Sources, cont \in Sources \cup {0},
         phase' = Deleted({1} \cup ActiveContinuation)
  PROVE  /\ phase' \in [Sources -> {"new", "alive", "deleted"}]
         /\ ~Alive(1)' /\ phase'[1] # "new"
         /\ \A k \in Sources : /\ Alive(k)' => Alive(k) /\ k # 1 /\ k # cont
                               /\ k # 1 => (phase'[k] = "new" <=> phase[k] = "new")
         /\ cont # 0 => phase'[cont] # "alive"
<1>1. /\ phase' \in [Sources -> {"new", "alive", "deleted"}]
      /\ \A g \in Sources : phase'[g] = IF g \in {1} \cup ActiveContinuation
                                          THEN "deleted" ELSE phase[g]
  BY DeletedTypes
<1>2. \A g \in ActiveContinuation : g = cont /\ phase[g] = "alive"
  BY DEF ActiveContinuation, Alive, Base!Alive
<1>3. cont # 0 /\ phase[cont] = "alive" => cont \in ActiveContinuation
  BY DEF ActiveContinuation, Alive, Base!Alive
<1>4. ~Alive(1)' /\ phase'[1] # "new"
  BY <1>1 DEF Alive, Base!Alive
<1>5. ASSUME NEW k \in Sources
      PROVE  /\ Alive(k)' => Alive(k) /\ k # 1 /\ k # cont
             /\ k # 1 => (phase'[k] = "new" <=> phase[k] = "new")
  <2>1. CASE k \in {1} \cup ActiveContinuation
    BY <1>1, <1>2, <2>1 DEF Alive, Base!Alive
  <2>2. CASE k \notin {1} \cup ActiveContinuation
    BY <1>1, <1>3, <2>2 DEF Alive, Base!Alive
  <2> QED
    BY <2>1, <2>2
<1>6. cont # 0 => phase'[cont] # "alive"
  BY <1>5 DEF Alive, Base!Alive
<1> QED
  BY <1>1, <1>4, <1>5, <1>6

\* The code of the base is left.
LEMMA FlatBaseLeavesInv ==
  ASSUME IsFlatMap, NEW c \in FlatContexts, FlatRest(c), c.p \in {"loop", "after"},
         stack' = FlatBelow(c),
         \/ phase' = phase /\ (Alive(1) => ~ended)
         \/ phase' = Deleted({1} \cup ActiveContinuation) /\ ended,
         generating' \in [Sources -> BOOLEAN],
         \A k \in Sources \ {1} : generating'[k] = generating[k],
         phase' = phase /\ Alive(1) /\ 1 \notin late => ~generating'[1] /\ requested[1] = 0,
         UNCHANGED <<requested, yielded, awaited, fault, balance, lock, open, userVars, singleVars,
                     flatMapVars, otherVars>>
  PROVE  FlatInv'
<1>1. /\ 1 \in Sources /\ 0 \notin Sources /\ ~fault /\ Types /\ open /\ ~c.n
      /\ c.h # 0 => c.h \in Sources \ {1} /\ c.h # cont /\ phase[c.h] # "new"
      /\ cont \in Sources \cup {0}
  BY FlatUse DEF FlatRest, FlatNests, FlatBegins, FlatContPlaces, FlatContexts
<1>2. UNCHANGED <<requested, yielded, awaited, fault, balance, lock, open, asked, got, taken,
                  ended, cancelled, answers, cont, contRequested, conts, late, kind, user>>
  BY DEF userVars, singleVars, flatMapVars, otherVars, settings
<1>3. /\ phase' \in [Sources -> {"new", "alive", "deleted"}]
      /\ \A k \in Sources : /\ Alive(k)' => Alive(k)
                            /\ phase'[k] = "new" <=> phase[k] = "new"
      /\ Alive(1)' => phase' = phase /\ Alive(1) /\ ~ended
      /\ ~Alive(1)' => phase' = phase \/ ended
      /\ cont # 0 => (Alive(cont)' <=> Alive(1)')
  <2>1. CASE phase' = phase /\ (Alive(1) => ~ended)
    BY <1>1, <1>2, <2>1 DEF Types, FlatRest, FlatCurrent, Alive, Base!Alive
  <2>2. CASE phase' = Deleted({1} \cup ActiveContinuation) /\ ended
    <3>1. phase[1] # "new"
      BY <1>1 DEF FlatRest, FlatBegins
    <3> QED
      BY <1>1, <1>2, <2>2, <3>1, FlatDeletes DEF Alive, Base!Alive
  <2> QED
    BY <2>1, <2>2
<1>4. PICK d \in FlatContexts :
        /\ FlatStack(d) = FlatBelow(c) /\ d.b = c.b /\ ~d.n /\ d.h = 0
        /\ d.p \in {"out", "contAfter"}
        /\ c.h = 0 => d.p = "out"
        /\ c.h # 0 => d.p = "contAfter" /\ d.g = c.h /\ d.f = "done"
  BY FlatBelowBase
<1>5. Types'
  BY <1>1, <1>2, <1>3 DEF Types
<1>6. FlatBegins(d)'
  <2>1. One(d.p = "next" /\ d.e = "value") = 0 /\ One(c.p = "next" /\ c.e = "value") = 0
    BY <1>4 DEF One
  <2>2. phase[1] # "new" /\ phase'[1] # "new" /\ awaited = {}
    BY <1>1, <1>3 DEF FlatRest, FlatBegins
  <2>3. \A k \in Sources \ {1} : /\ phase'[k] = "new" <=> k > conts + 1
                                 /\ phase'[k] = "new" => requested[k] = 0 /\ ~generating'[k]
    BY <1>3 DEF FlatRest, FlatBegins
  <2>4. conts + 0 = yielded[1] /\ yielded[1] <= MaxElems
    BY <2>1 DEF FlatRest, FlatBegins
  <2> QED
    BY <1>1, <1>2, <1>4, <2>1, <2>2, <2>3, <2>4 DEF FlatBegins
<1>7. FlatNests(d)'
  BY <1>1, <1>3, <1>4 DEF FlatNests, FlatContPlaces
<1>8. FlatOver(d)'
  BY <1>1, <1>2, <1>3, <1>4 DEF FlatRest, FlatOver, Alive, Base!Alive
<1>9. FlatCurrent(d)'
  <2>1. cont # 0 => cont \in Sources \ {1} /\ phase'[cont] # "new"
    BY <1>3 DEF FlatRest, FlatCurrent
  <2>2. ASSUME NEW k \in Sources \ {1}, Alive(k)'
        PROVE  k = cont \/ (k = d.g /\ d.p = "contAfter" /\ d.f = "done")
    <3>1. k = cont \/ k = c.h
      BY <1>3, <2>2 DEF FlatRest, FlatCurrent
    <3> QED
      BY <1>1, <1>4, <3>1
  <2> QED
    BY <1>1, <1>2, <1>3, <1>4, <2>1, <2>2 DEF FlatCurrent
<1>10. FlatOwes(d)'
  BY <1>2, <1>3, <1>4 DEF FlatRest, FlatOwes
<1>11. FlatAsksOnce(d)'
  BY <1>2, <1>3, <1>4 DEF FlatRest, FlatAsksOnce, FlatAsks
<1>12. FlatFlags(d)'
  BY <1>1, <1>2, <1>3, <1>4
     DEF FlatRest, FlatFlags, FlatBaseRuns, FlatCurrent, FlatBasePlaces, FlatContPlaces
<1>13. FlatAt(d)'
  BY <1>1, <1>2, <1>4, <1>5, <1>6, <1>7, <1>8, <1>9, <1>10, <1>11, <1>12
     DEF FlatAt, FlatRest, AnswersOnce
<1> QED
  BY <1>13 DEF FlatInv

\* The code of a continuation is left.
LEMMA FlatContLeavesInv ==
  ASSUME IsFlatMap, NEW c \in FlatContexts, FlatRest(c), c.p \in {"contLoop", "contAfter"},
         stack' = FlatUnder(c),
         \/ phase' = phase
         \/ phase' = Deleted({c.g}) /\ c.g # cont,
         c.p = "contAfter" /\ c.f = "done" => phase'[c.g] # "alive",
         generating' \in [Sources -> BOOLEAN],
         \A k \in Sources \ {c.g} : generating'[k] = generating[k],
         c.g = cont /\ Alive(cont) /\ cont \notin late => ~generating'[cont],
         UNCHANGED <<requested, yielded, awaited, fault, balance, lock, open, userVars, singleVars,
                     flatMapVars, otherVars>>
  PROVE  FlatInv'
<1>1. /\ 1 \in Sources /\ 0 \notin Sources /\ ~fault /\ Types /\ open
      /\ c.h # 0 => c.n /\ c.h \in Sources \ {1} /\ c.h # cont /\ phase[c.h] # "new"
      /\ c.g \in Sources \ {1} /\ phase[c.g] # "new" /\ phase[1] # "new" /\ awaited = {}
      /\ cont \in Sources \cup {0}
      /\ c.p = "contLoop" => c.g = cont
      /\ Alive(1) => ~ended
  BY FlatUse
     DEF FlatRest, FlatNests, FlatBegins, FlatContPlaces, FlatBasePlaces, FlatContexts,
         FlatOver,
         FlatCurrent
<1>2. UNCHANGED <<requested, yielded, awaited, fault, balance, lock, open, asked, got, taken,
                  ended, cancelled, answers, cont, contRequested, conts, late, kind, user>>
  BY DEF userVars, singleVars, flatMapVars, otherVars, settings
<1>3. /\ phase' \in [Sources -> {"new", "alive", "deleted"}]
      /\ \A k \in Sources : /\ k # c.g => phase'[k] = phase[k]
                            /\ phase'[k] = "alive" => phase[k] = "alive"
                            /\ phase'[k] = "new" <=> phase[k] = "new"
      /\ phase'[1] = phase[1]
      /\ cont # 0 => phase'[cont] = phase[cont]
  <2>1. CASE phase' = phase
    BY <1>1, <2>1 DEF Types
  <2>2. CASE phase' = Deleted({c.g}) /\ c.g # cont
    BY <1>1, <2>2, DeletedTypes
  <2> QED
    BY <2>1, <2>2
<1>4. PICK d \in FlatContexts :
        /\ FlatStack(d) = FlatUnder(c) /\ d.b = c.b /\ ~d.n /\ d.h = c.h
        /\ d.p \in {"out", "after"}
        /\ c.n <=> d.p = "after"
        /\ d.p = "after" => d.e = "value"
  BY <1>1, FlatBelowCont
<1>5. Types'
  BY <1>1, <1>2, <1>3 DEF Types
<1>6. FlatBegins(d)'
  <2>1. One(d.p = "next" /\ d.e = "value") = 0 /\ One(c.p = "next" /\ c.e = "value") = 0
    BY <1>4 DEF One
  <2>2. \A k \in Sources \ {1} : /\ phase'[k] = "new" <=> k > conts + 1
                                 /\ phase'[k] = "new" => requested[k] = 0 /\ ~generating'[k]
    BY <1>1, <1>3 DEF FlatRest, FlatBegins
  <2>3. conts + 0 = yielded[1] /\ yielded[1] <= MaxElems
    BY <2>1 DEF FlatRest, FlatBegins
  <2> QED
    BY <1>1, <1>2, <1>3, <1>4, <2>1, <2>2, <2>3 DEF FlatBegins
<1>7. FlatNests(d)'
  BY <1>1, <1>2, <1>3, <1>4 DEF FlatNests, FlatContPlaces, FlatBasePlaces
<1>8. FlatOver(d)'
  BY <1>1, <1>2, <1>3, <1>4, Statuses DEF FlatRest, FlatOver, Alive, Base!Alive
<1>9. FlatCurrent(d)'
  <2>1. cont # 0 => /\ cont \in Sources \ {1} /\ phase'[cont] # "new"
                    /\ phase'[cont] = "alive" <=> phase'[1] = "alive"
    BY <1>1, <1>3 DEF FlatRest, FlatCurrent, Alive, Base!Alive
  <2>2. ASSUME NEW k \in Sources \ {1}, phase'[k] = "alive"
        PROVE  k = cont \/ k = c.h
    <3>1. k = cont \/ k = c.h \/ (k = c.g /\ c.p = "contAfter" /\ c.f = "done")
      BY <1>1, <1>3, <2>2 DEF FlatRest, FlatCurrent, Alive, Base!Alive
    <3> QED
      BY <1>1, <2>2, <3>1
  <2> QED
    BY <1>1, <1>2, <1>3, <1>4, <2>1, <2>2 DEF FlatCurrent, Alive, Base!Alive
<1>10. FlatOwes(d)'
  BY <1>1, <1>2, <1>3, <1>4 DEF FlatRest, FlatOwes, Alive, Base!Alive
<1>11. FlatAsksOnce(d)'
  <2>1. FlatAsks(d)' <=> FlatAsks(c)
    BY <1>2, <1>4 DEF FlatAsks
  <2>2. FlatBaseRuns(d) <=> FlatBaseRuns(c)
    BY <1>4 DEF FlatBaseRuns, FlatBasePlaces
  <2> QED
    BY <1>1, <1>2, <1>3, <1>4, <2>1, <2>2 DEF FlatRest, FlatAsksOnce, Alive, Base!Alive
<1>12. FlatFlags(d)'
  <2>1. FlatBaseRuns(d) <=> FlatBaseRuns(c)
    BY <1>4 DEF FlatBaseRuns, FlatBasePlaces
  <2>2. generating'[1] = generating[1]
    BY <1>1
  <2>3. cont # 0 /\ phase[cont] = "alive" /\ cont \notin late => ~generating'[cont]
    BY <1>1 DEF FlatRest, FlatFlags, Alive, Base!Alive
  <2> QED
    BY <1>1, <1>2, <1>3, <1>4, <2>1, <2>2, <2>3
       DEF FlatRest, FlatFlags, Alive, Base!Alive, FlatContPlaces
<1>13. FlatAt(d)'
  BY <1>1, <1>2, <1>4, <1>5, <1>6, <1>7, <1>8, <1>9, <1>10, <1>11, <1>12
     DEF FlatAt, FlatRest, AnswersOnce
<1> QED
  BY <1>13 DEF FlatInv

\* A source that answers at once goes on with its loop.
LEMMA FlatGoesOnInv ==
  ASSUME IsFlatMap, NEW c \in FlatContexts, FlatRest(c),
         \/ /\ c.p = "after" /\ Alive(1) /\ ~Base!IsEnd(c.e) /\ 1 \notin late
            /\ stack' = Call("Loop", 1, "none", FlatBelow(c))
         \/ /\ c.p = "contAfter" /\ Alive(c.g) /\ ~Base!IsEnd(c.f) /\ c.g \notin late
            /\ stack' = Call("Loop", c.g, "none", FlatUnder(c)),
         UNCHANGED <<phase, requested, generating, yielded, awaited, fault, balance, lock, open,
                     userVars, singleVars, flatMapVars, otherVars>>
  PROVE  FlatInv'
<1>1. /\ 1 \in Sources /\ 0 \notin Sources /\ FlatRest(c) /\ ~fault /\ Types /\ open
      /\ c.g \in Sources
  BY FlatUse DEF FlatRest, FlatBegins, FlatContexts
<1>2. UNCHANGED <<phase, requested, generating, yielded, awaited, fault, balance, lock, open,
                  asked, got, taken, ended, cancelled, answers, cont, contRequested, conts, late,
                  kind, user>>
  BY DEF userVars, singleVars, flatMapVars, otherVars, settings
<1>3. PICK d \in FlatContexts :
        /\ d.b = c.b /\ d.n = c.n /\ d.h = c.h /\ d.g = c.g /\ d.e = c.e /\ d.f = c.f
        /\ \/ c.p = "after" /\ d.p = "loop" /\ 1 \notin late /\ ~Base!IsEnd(c.e) /\ Alive(1)
           \/ /\ c.p = "contAfter" /\ d.p = "contLoop" /\ c.g \notin late /\ c.g = cont
              /\ Alive(cont) /\ ~Base!IsEnd(c.f)
        /\ stack' = FlatStack(d)
  <2>1. CASE c.p = "after"
    <3> DEFINE d == [c EXCEPT !.p = "loop"]
    <3>1. /\ d \in FlatContexts /\ d.p = "loop" /\ d.b = c.b /\ d.n = c.n /\ d.h = c.h
          /\ d.g = c.g /\ d.e = c.e /\ d.f = c.f
      BY DEF FlatContexts, FlatPlaces, FlatBasePlaces
    <3> HIDE DEF d
    <3>2. FlatStack(d) = Call("Loop", 1, "none", FlatBelow(c))
      BY <3>1 DEF FlatStack, FlatBelow
    <3> QED
      BY <2>1, <3>1, <3>2
  <2>2. CASE c.p = "contAfter"
    <3> DEFINE d == [c EXCEPT !.p = "contLoop"]
    <3>1. /\ d \in FlatContexts /\ d.p = "contLoop" /\ d.b = c.b /\ d.n = c.n /\ d.h = c.h
          /\ d.g = c.g /\ d.e = c.e /\ d.f = c.f
      BY DEF FlatContexts, FlatPlaces, FlatContPlaces
    <3> HIDE DEF d
    <3>2. FlatStack(d) = Call("Loop", c.g, "none", FlatUnder(c))
      BY <3>1 DEF FlatStack, FlatUnder, FlatBelow
    <3>3. c.g = cont
      BY <1>1, <2>2, Statuses DEF FlatRest, FlatCurrent
    <3> QED
      BY <2>2, <3>1, <3>2, <3>3
  <2> QED
    BY <2>1, <2>2
<1>4. Alive(1) /\ ~ended /\ ~cancelled
  <2>1. Alive(1)
    BY <1>1, <1>3 DEF FlatRest, FlatCurrent
  <2> QED
    BY <1>1, <1>3, <2>1 DEF FlatRest, FlatOver
<1>5. Types'
  BY <1>1, <1>2 DEF Types
<1>6. FlatBegins(d)' /\ FlatNests(d)' /\ FlatOver(d)'
  <2>1. One(d.p = "next" /\ d.e = "value") = 0 /\ One(c.p = "next" /\ c.e = "value") = 0
    BY <1>3 DEF One
  <2>2. FlatBegins(d)'
    BY <1>1, <1>2, <1>3, <2>1 DEF FlatRest, FlatBegins, Alive, Base!Alive
  <2>3. FlatNests(d)'
    BY <1>1, <1>2, <1>3 DEF FlatRest, FlatNests, FlatBasePlaces, FlatContPlaces
  <2>4. FlatOver(d)'
    BY <1>1, <1>2, <1>3, <1>4 DEF FlatRest, FlatOver, Alive, Base!Alive
  <2> QED
    BY <2>2, <2>3, <2>4
<1>7. FlatCurrent(d)'
  BY <1>1, <1>2, <1>3, <1>4, Statuses DEF FlatRest, FlatCurrent, Alive, Base!Alive
<1>8. FlatOwes(d)' /\ FlatAsksOnce(d)' /\ FlatFlags(d)'
  <2>1. FlatOwes(d)'
    BY <1>1, <1>2, <1>3 DEF FlatRest, FlatOwes, Alive, Base!Alive
  <2>2. FlatAsks(d)' <=> FlatAsks(c)
    BY <1>2, <1>3 DEF FlatAsks
  <2>3. FlatBaseRuns(d) <=> FlatBaseRuns(c)
    BY <1>3 DEF FlatBaseRuns, FlatBasePlaces
  <2>4. FlatAsksOnce(d)'
    BY <1>1, <1>2, <1>3, <2>2, <2>3 DEF FlatRest, FlatAsksOnce, Alive, Base!Alive
  <2>5. FlatFlags(d)'
    BY <1>1, <1>2, <1>3, <2>3 DEF FlatRest, FlatFlags, Alive, Base!Alive, FlatContPlaces
  <2> QED
    BY <2>1, <2>4, <2>5
<1>9. FlatAt(d)'
  BY <1>1, <1>2, <1>3, <1>5, <1>6, <1>7, <1>8 DEF FlatAt, FlatRest, AnswersOnce
<1> QED
  BY <1>9 DEF FlatInv

\* The end of the base is passed on.
LEMMA FlatBaseEndsInv ==
  ASSUME IsFlatMap, NEW c \in FlatContexts, FlatAt(c),
         FlatMapBaseEnds, UNCHANGED <<singleVars, otherVars>>
  PROVE  FlatInv'
<1>1. /\ c.p = "next" /\ Tail(stack) = FlatBase(c) /\ Top.ev = c.e /\ FlatRest(c)
      /\ Base!IsEnd(c.e) /\ c.e # "value"
  BY FlatPlace, FlatTop, Statuses DEF FlatMapBaseEnds, FlatAt, FlatRest, Called, Top
<1>2. /\ 1 \in Sources /\ 0 \notin Sources /\ Types /\ ~fault /\ open /\ Alive(1) /\ ~ended
      /\ ~cancelled /\ cont = 0 /\ ~c.n
  BY <1>1, FlatUse
     DEF FlatRest, FlatCurrent, FlatNests, FlatContPlaces, FlatAsksOnce, FlatAsks,
         FlatContexts
<1>3. /\ stack' = Call("UserOnNext", 1, c.e, FlatBase(c)) /\ got' = got + 1 /\ ended' = TRUE
      /\ taken' = [taken EXCEPT ![1] = @]
      /\ UNCHANGED <<phase, requested, generating, yielded, awaited, fault, balance, lock, open,
                      asked, cancelled, answers, cont, contRequested, conts, late, kind, user>>
  BY <1>1
     DEF FlatMapBaseEnds, SendDown, sourceVars, singleVars, flatMapVars, otherVars, settings
<1> DEFINE d == [c EXCEPT !.p = "userEnd"]
<1>4. d \in FlatContexts /\ d.p = "userEnd" /\ d.b = c.b /\ ~d.n /\ d.h = c.h /\ d.e = c.e
  BY <1>2 DEF FlatContexts, FlatPlaces, FlatBasePlaces
<1> HIDE DEF d
<1>5. stack' = FlatStack(d)
  BY <1>3, <1>4 DEF FlatStack, FlatBase, FlatBelow
<1>6. Types'
  <2>1. taken' \in [Sources -> Nat] /\ got' \in Nat
    BY <1>2, <1>3 DEF Types
  <2> QED
    BY <1>2, <1>3, <2>1 DEF Types
<1>7. FlatBegins(d)' /\ FlatNests(d)'
  BY <1>1, <1>2, <1>3, <1>4
     DEF FlatRest, FlatBegins, FlatNests, Alive, Base!Alive, FlatBasePlaces, FlatContPlaces,
         One
<1>8. FlatOver(d)' /\ FlatCurrent(d)'
  BY <1>1, <1>2, <1>3, <1>4 DEF FlatRest, FlatOver, FlatCurrent, Alive, Base!Alive
<1>9. FlatOwes(d)' /\ FlatAsksOnce(d)'
  BY <1>1, <1>2, <1>3, <1>4
     DEF FlatRest, FlatOwes, FlatAsksOnce, FlatAsks, FlatBaseRuns, Alive, Base!Alive,
         FlatBasePlaces
<1>10. FlatFlags(d)'
  BY <1>1, <1>2, <1>3, <1>4
     DEF FlatRest, FlatFlags, FlatBaseRuns, Alive, Base!Alive, FlatBasePlaces
<1>11. AnswersOnce(d.p \in {"userEnd", "contUser", "contFails"})'
  BY <1>1, <1>2, <1>3 DEF FlatRest, AnswersOnce, Types
<1>12. FlatAt(d)'
  BY <1>1, <1>2, <1>3, <1>4, <1>5, <1>6, <1>7, <1>8, <1>9, <1>10, <1>11 DEF FlatAt, FlatRest
<1> QED
  BY <1>4, <1>12 DEF FlatInv

\* A value of the base: its continuation is made.
LEMMA FlatBaseValueInv ==
  ASSUME IsFlatMap, NEW c \in FlatContexts, FlatAt(c),
         FlatMapBaseValue, UNCHANGED <<singleVars, otherVars>>
  PROVE  FlatInv'
<1>1. /\ c.p = "next" /\ Tail(stack) = FlatBase(c) /\ FlatRest(c) /\ c.e = "value"
  BY FlatPlace, FlatTop, Statuses
     DEF FlatMapBaseValue, FlatAt, FlatRest, Called, Top, FlatContexts, Base!Events
<1>2. /\ 1 \in Sources /\ 0 \notin Sources /\ Types /\ ~fault /\ open /\ Alive(1) /\ ~ended
      /\ ~cancelled /\ cont = 0 /\ ~c.n /\ requested[1] = 0 /\ awaited = {}
      /\ conts \in Nat
  BY <1>1, FlatUse
     DEF FlatRest, FlatCurrent, FlatNests, FlatContPlaces, FlatAsksOnce, FlatAsks,
         FlatContexts,
         FlatBegins
<1> DEFINE g == conts + 2
<1>3. /\ g \in Sources /\ g # 1 /\ phase[g] = "new" /\ requested[g] = 0 /\ ~generating[g]
      /\ c.h # g /\ g = conts + 2
      /\ conts + 1 = yielded[1] /\ yielded[1] <= MaxElems
  <2>1. conts + 1 = yielded[1] /\ yielded[1] <= MaxElems
    BY <1>1 DEF FlatRest, FlatBegins, One
  <2>2. g \in Sources
    <3>1. conts + 2 \in Nat /\ 1 <= conts + 2 /\ conts + 2 <= MaxElems + 1
      BY <1>2, <2>1, PipelineAssumption
    <3> QED
      BY <3>1, FlatUse
  <2>3. phase[g] = "new"
    BY <1>1, <1>2, <2>2 DEF FlatRest, FlatBegins
  <2> QED
    BY <1>1, <1>2, <2>1, <2>2, <2>3 DEF FlatRest, FlatBegins, FlatNests
<1> HIDE DEF g
<1>4. /\ conts' = conts + 1 /\ DoSubscribe(g, FlatBase(c))
      /\ UNCHANGED <<fault, balance, lock, open, asked, got, taken, ended, cancelled, answers,
                      cont, contRequested, late, kind, user>>
  BY <1>1, <1>2 DEF FlatMapBaseValue, userVars, singleVars, otherVars, settings, g
<1>5. g \notin late \cap SubscribesLate[kind]
  BY <1>3, FlatUse
<1>6. Base!Construct(g, FlatBase(c)) /\ awaited' = awaited
  BY <1>4, <1>5 DEF DoSubscribe
<1>7. /\ phase' = [phase EXCEPT ![g] = "alive"]
      /\ stack' = Call("OnSubscribe", g, "none", FlatBase(c))
      /\ UNCHANGED <<requested, generating, yielded, awaited>>
  BY <1>2, <1>3, <1>6, ConstructIs
<1>8. /\ phase'[g] = "alive" /\ phase'[1] = "alive"
      /\ \A k \in Sources \ {g} : phase'[k] = phase[k]
  BY <1>2, <1>3, <1>7 DEF Types, Alive, Base!Alive
<1>9. PICK d \in FlatContexts :
        d.p = "contSubscribing" /\ d.b = c.b /\ d.n /\ d.h = c.h /\ d.g = g
  <2>1. [c EXCEPT !.p = "contSubscribing", !.n = TRUE, !.g = g] \in FlatContexts
    BY <1>3 DEF FlatContexts, FlatPlaces
  <2> QED
    BY <2>1 DEF FlatContexts
<1>10. stack' = FlatStack(d)
  BY <1>1, <1>7, <1>9 DEF FlatStack, FlatBase, FlatUnder, FlatBelow
<1>11. Types'
  <2>1. phase' \in [Sources -> {"new", "alive", "deleted"}]
    BY <1>2, <1>7 DEF Types
  <2> QED
    BY <1>2, <1>4, <1>7, <2>1 DEF Types
<1>12. FlatBegins(d)'
  <2>1. One(d.p = "next" /\ d.e = "value") = 0
    BY <1>9 DEF One
  <2>2. ASSUME NEW k \in Sources \ {1}
        PROVE  /\ phase'[k] = "new" <=> k > conts' + 1
               /\ phase'[k] = "new" => requested'[k] = 0 /\ ~generating'[k]
    <3>1. CASE k = g
      BY <1>2, <1>3, <1>4, <1>8, <3>1
    <3>2. CASE k # g
      <4>1. k \in Nat
        BY <2>2, Vocabulary
      <4>2. k > conts + 1 <=> k > conts + 2
        BY <1>2, <1>3, <3>2, <4>1
      <4>3. phase'[k] = "new" <=> k > conts + 1
        BY <1>1, <1>8, <2>2, <3>2 DEF FlatRest, FlatBegins
      <4>4. conts' + 1 = conts + 2
        BY <1>2, <1>4
      <4> QED
        BY <1>1, <1>7, <1>8, <2>2, <3>2, <4>2, <4>3, <4>4 DEF FlatRest, FlatBegins
    <3> QED
      BY <3>1, <3>2
  <2>3. conts' + 0 = yielded'[1] /\ yielded'[1] <= MaxElems
    BY <1>2, <1>3, <1>4, <1>7
  <2> QED
    BY <1>2, <1>4, <1>7, <1>8, <1>9, <2>1, <2>2, <2>3 DEF FlatBegins
<1>13. FlatNests(d)'
  <2>1. c.h # 0 => c.h \in Sources \ {1} /\ c.h # g /\ phase[c.h] # "new"
    BY <1>1, <1>3 DEF FlatRest, FlatNests, FlatContexts
  <2> QED
    BY <1>1, <1>2, <1>3, <1>4, <1>8, <1>9, <2>1
       DEF FlatNests, FlatContPlaces, FlatBasePlaces
<1>14. FlatCurrent(d)'
  BY <1>1, <1>2, <1>3, <1>4, <1>7, <1>8, <1>9 DEF FlatRest, FlatCurrent, Alive, Base!Alive
<1>15. FlatOver(d)' /\ FlatOwes(d)'
  BY <1>1, <1>2, <1>4, <1>8, <1>9 DEF FlatRest, FlatOver, FlatOwes, Alive, Base!Alive
<1>16. FlatAsksOnce(d)'
  BY <1>1, <1>2, <1>4, <1>7, <1>8, <1>9
     DEF FlatRest, FlatAsksOnce, FlatAsks, FlatBaseRuns, Alive, Base!Alive
<1>17. FlatFlags(d)'
  BY <1>1, <1>2, <1>4, <1>7, <1>8, <1>9
     DEF FlatRest, FlatFlags, FlatBaseRuns, Alive, Base!Alive, FlatBasePlaces
<1>18. FlatAt(d)'
  BY <1>1, <1>2, <1>4, <1>9, <1>10, <1>11, <1>12, <1>13, <1>14, <1>15, <1>16, <1>17
     DEF FlatAt, FlatRest, AnswersOnce
<1> QED
  BY <1>18 DEF FlatInv

\* What a request of the subscriber means for a continuation that gets what it was
\* not asked for yet.
LEMMA FlatDelta ==
  ASSUME NEW b \in Balance, NEW n \in Nat
  PROVE  /\ Delta(AddTo(b, n), b) \in Nat
         /\ AddTo(b, Delta(AddTo(b, n), b)) = AddTo(b, n)
         /\ Delta(AddTo(b, n), b) = 0 => AddTo(b, n) = b
         /\ Delta(b, 0) = b
<1>1. KMax \in Nat /\ b \in Nat /\ b <= KMax
  BY KMaxAssumption DEF Balance
<1>2. CASE KMax - b < n
  BY <1>1, <1>2 DEF AddTo, Delta
<1>3. CASE ~(KMax - b < n)
  BY <1>1, <1>3 DEF AddTo, Delta
<1> QED
  BY <1>2, <1>3

\* A continuation has called OnSubscribe: it is asked for the balance.
LEMMA FlatContSubscribedInv ==
  ASSUME IsFlatMap, NEW c \in FlatContexts, FlatAt(c),
         FlatMapContSubscribed, UNCHANGED <<singleVars, otherVars>>
  PROVE  FlatInv'
<1>1. /\ c.p = "contSubscribing" /\ Tail(stack) = FlatUnder(c) /\ Top.gen = c.g /\ FlatRest(c)
  BY FlatPlace, FlatTop DEF FlatMapContSubscribed, FlatAt, FlatRest, Called, Top
<1>2. /\ 1 \in Sources /\ 0 \notin Sources /\ Types /\ ~fault /\ open /\ Alive(1) /\ ~ended
      /\ ~cancelled /\ cont = 0 /\ c.n /\ requested[1] = 0 /\ balance \in Balance
  BY <1>1, FlatUse
     DEF FlatRest, FlatCurrent, FlatNests, FlatAsksOnce, FlatAsks, Types
<1>3. /\ c.g \in Sources \ {1} /\ c.g # 0 /\ Alive(c.g) /\ requested[c.g] = 0
      /\ ~generating[c.g] /\ c.g # c.h /\ phase[c.g] # "new"
  BY <1>1, FlatUse DEF FlatRest, FlatCurrent, FlatNests, FlatContexts
<1>4. /\ cont' = c.g
      /\ UNCHANGED <<balance, lock, open, asked, got, taken, ended, cancelled, answers, conts,
                      late, kind, user>>
      /\ IF HasRequests(balance) THEN Forward(c.g, balance, 0, FlatUnder(c))
         ELSE contRequested' = 0 /\ stack' = FlatUnder(c) /\ UNCHANGED <<sourceVars, fault>>
  BY <1>1 DEF FlatMapContSubscribed, userVars, singleVars, otherVars, settings
<1>5. balance \in Nat /\ (~HasRequests(balance) => balance = 0) /\ AddTo(0, balance) = balance
      /\ 0 \in Balance
  BY <1>2, Counting
<1>6. /\ contRequested' = balance /\ fault' = FALSE
      /\ requested' = [requested EXCEPT ![c.g] = balance]
      /\ UNCHANGED <<phase, yielded, awaited>>
      /\ \/ stack' = FlatUnder(c) /\ generating' = generating
         \/ /\ c.g \notin late /\ stack' = Call("Loop", c.g, "none", FlatUnder(c))
            /\ generating' = [generating EXCEPT ![c.g] = TRUE]
      /\ stack' = FlatUnder(c) => c.g \in late \/ generating' = generating
  <2>1. CASE ~HasRequests(balance)
    <3>1. requested = [requested EXCEPT ![c.g] = 0]
      BY <1>2, <1>3 DEF Types
    <3>2. /\ contRequested' = 0 /\ stack' = FlatUnder(c) /\ fault' = fault
          /\ UNCHANGED <<phase, requested, generating, yielded, awaited>>
      BY <1>4, <2>1 DEF sourceVars
    <3> QED
      BY <1>2, <1>5, <2>1, <3>1, <3>2
  <2>2. CASE HasRequests(balance)
    <3>1. Delta(balance, 0) = balance /\ Delta(balance, 0) > 0
      BY <1>2, <1>5, <2>2, FlatDelta DEF HasRequests
    <3>2. /\ fault' = ~Alive(c.g) /\ contRequested' = balance
          /\ RequestUp(c.g, balance, FlatUnder(c))
      BY <1>3, <1>4, <1>5, <2>2, <3>1 DEF Forward
    <3>3. /\ requested' = [requested EXCEPT ![c.g] = AddTo(@, balance)]
          /\ UNCHANGED <<phase, yielded, awaited>>
          /\ c.g \in late \/ generating[c.g] => generating' = generating /\ stack' = FlatUnder(c)
          /\ c.g \notin late /\ ~generating[c.g] =>
               /\ generating' = [generating EXCEPT ![c.g] = TRUE]
               /\ stack' = Call("Loop", c.g, "none", FlatUnder(c))
      BY <1>2, <1>3, <1>5, <3>2, RequestUpIs
    <3>4. requested' = [requested EXCEPT ![c.g] = balance]
      BY <1>3, <1>5, <3>3
    <3>5. Call("Loop", c.g, "none", FlatUnder(c)) # FlatUnder(c)
      <4>1. FlatUnder(c) \in Seq(Frames)
        BY FlatBelowIs
      <4>2. Called(Call("Loop", c.g, "none", FlatUnder(c)), "Loop", c.g, "none", FlatUnder(c))
        <5>1. c.g \in Gens0 /\ "Loop" \in AllOps /\ "none" \in Words
          BY FlatBelowIs, Vocabulary
        <5> QED
          BY <4>1, <5>1, CallTop
      <4>3. /\ Tail(Call("Loop", c.g, "none", FlatUnder(c))) = FlatUnder(c)
            /\ Call("Loop", c.g, "none", FlatUnder(c)) \in Seq(Frames) \ {<<>>}
        BY <4>2 DEF Called
      <4> QED
        BY <4>1, <4>3
    <3> QED
      BY <1>2, <1>3, <3>2, <3>3, <3>4, <3>5
  <2> QED
    BY <2>1, <2>2
<1>7. /\ requested'[c.g] = balance /\ requested' \in [Sources -> Balance]
      /\ generating' \in [Sources -> BOOLEAN]
      /\ \A k \in Sources \ {c.g} : requested'[k] = requested[k] /\ generating'[k] = generating[k]
  BY <1>2, <1>3, <1>6 DEF Types
<1>8. PICK d \in FlatContexts :
        /\ d.b = c.b /\ d.h = c.h /\ stack' = FlatStack(d)
        /\ \/ /\ d.p = "after" /\ d.e = "value" /\ ~d.n
              /\ c.g \in late \/ ~generating'[c.g]
           \/ d.p = "contLoop" /\ d.n /\ d.g = c.g /\ c.g \notin late /\ generating'[c.g]
  <2>1. CASE stack' = FlatUnder(c)
    <3>1. PICK d \in FlatContexts :
            /\ FlatStack(d) = FlatUnder(c) /\ d.b = c.b /\ ~d.n /\ d.h = c.h
            /\ d.p \in {"out", "after"}
            /\ c.n <=> d.p = "after"
            /\ d.p = "after" => d.e = "value"
      BY <1>2, FlatBelowCont
    <3>2. c.g \in late \/ ~generating'[c.g]
      BY <1>3, <1>6, <2>1
    <3> QED
      BY <1>2, <2>1, <3>1, <3>2
  <2>2. CASE stack' # FlatUnder(c)
    <3> DEFINE d == [c EXCEPT !.p = "contLoop"]
    <3>1. d \in FlatContexts /\ d.p = "contLoop" /\ d.b = c.b /\ d.n /\ d.h = c.h /\ d.g = c.g
      BY <1>2 DEF FlatContexts, FlatPlaces, FlatContPlaces
    <3> HIDE DEF d
    <3>2. FlatStack(d) = Call("Loop", c.g, "none", FlatUnder(c))
      BY <1>2, <3>1 DEF FlatStack, FlatUnder, FlatBelow
    <3>3. c.g \notin late /\ generating'[c.g]
      BY <1>2, <1>3, <1>6, <2>2 DEF Types
    <3> QED
      BY <1>6, <2>2, <3>1, <3>2, <3>3
  <2> QED
    BY <2>1, <2>2
<1>9. Types'
  BY <1>2, <1>4, <1>6, <1>7 DEF Types
<1>10. FlatBegins(d)'
  <2>1. One(d.p = "next" /\ d.e = "value") = 0 /\ One(c.p = "next" /\ c.e = "value") = 0
    BY <1>1, <1>8 DEF One
  <2>2. \A k \in Sources \ {1} : phase[k] = "new" =>
          requested'[k] = requested[k] /\ generating'[k] = generating[k]
    BY <1>3, <1>7
  <2> QED
    BY <1>1, <1>2, <1>4, <1>6, <1>8, <2>1, <2>2 DEF FlatRest, FlatBegins
<1>11. FlatNests(d)'
  BY <1>1, <1>2, <1>3, <1>4, <1>6, <1>8
     DEF FlatRest, FlatNests, FlatContPlaces, FlatBasePlaces
<1>12. FlatCurrent(d)'
  BY <1>1, <1>2, <1>3, <1>4, <1>6, <1>8 DEF FlatRest, FlatCurrent, Alive, Base!Alive
<1>13. FlatOver(d)'
  BY <1>1, <1>2, <1>4, <1>6, <1>8, Statuses DEF FlatRest, FlatOver, Alive, Base!Alive
<1>14. FlatOwes(d)'
  BY <1>4, <1>6, <1>7, <1>8 DEF FlatOwes
<1>15. FlatAsksOnce(d)'
  <2>1. requested'[1] = 0
    BY <1>2, <1>3, <1>7
  <2>2. ~FlatAsks(d)'
    BY <1>8, <2>1 DEF FlatAsks
  <2> QED
    BY <1>1, <1>2, <1>4, <1>6, <1>8, <2>1, <2>2 DEF FlatRest, FlatAsksOnce
<1>16. FlatFlags(d)'
  <2>1. generating'[1] = generating[1] /\ FlatBaseRuns(c) /\ FlatBaseRuns(d)
    BY <1>2, <1>3, <1>7, <1>8 DEF FlatBaseRuns, FlatBasePlaces
  <2> QED
    BY <1>1, <1>2, <1>4, <1>6, <1>8, <2>1
       DEF FlatRest, FlatFlags, Alive, Base!Alive, FlatContPlaces
<1>17. contRequested' \in Balance /\ cont' \in Sources \cup {0} /\ conts' \in Nat
  BY <1>1, <1>2, <1>3, <1>4, <1>6 DEF FlatRest
<1>18. FlatAt(d)'
  BY <1>1, <1>2, <1>4, <1>6, <1>8, <1>9, <1>10, <1>11, <1>12, <1>13, <1>14, <1>15, <1>16, <1>17
     DEF FlatAt, FlatRest, AnswersOnce
<1> QED
  BY <1>18 DEF FlatInv

\* What holds when a continuation has sent an event.
LEMMA FlatAtContNext ==
  ASSUME IsFlatMap, NEW c \in FlatContexts, FlatRest(c), c.p = "contNext"
  PROVE  /\ 1 \in Sources /\ 0 \notin Sources /\ Types /\ ~fault /\ open /\ Alive(1) /\ ~ended
         /\ ~cancelled /\ cont = c.g /\ cont # 0 /\ cont \in Sources \ {1} /\ Alive(cont)
         /\ balance = contRequested /\ HasRequests(balance) /\ balance \in Balance
         /\ RemoveFrom(balance, 1) = requested[cont]
         /\ ~FlatAsks(c) /\ requested[1] = 0
         /\ c.h # 0 => c.n
<1>1. 1 \in Sources /\ 0 \notin Sources /\ Types /\ ~fault /\ balance \in Balance
  BY FlatUse DEF FlatRest, Types
<1>2. open /\ Alive(1) /\ ~ended /\ ~cancelled /\ cont = c.g /\ Alive(cont)
  BY DEF FlatRest, FlatCurrent
<1>3. cont # 0 /\ cont \in Sources \ {1}
  BY <1>1, <1>2 DEF FlatContexts, FlatRest, FlatCurrent
<1>4. /\ balance = contRequested /\ HasRequests(balance)
      /\ RemoveFrom(balance, 1) = requested[cont]
  BY <1>2, <1>3 DEF FlatRest, FlatOwes
<1>5. ~FlatAsks(c) /\ requested[1] = 0
  BY <1>2, <1>3 DEF FlatRest, FlatAsksOnce, FlatAsks
<1>6. c.h # 0 => c.n
  BY DEF FlatRest, FlatNests, FlatBasePlaces
<1> QED
  BY <1>1, <1>2, <1>3, <1>4, <1>5, <1>6

\* A value of the continuation is passed on.
LEMMA FlatValueInv ==
  ASSUME IsFlatMap, NEW c \in FlatContexts, FlatAt(c),
         FlatMapValue, UNCHANGED <<singleVars, otherVars>>
  PROVE  FlatInv'
<1>1. /\ c.p = "contNext" /\ Tail(stack) = FlatCont(c) /\ Top.gen = c.g /\ c.f = "value"
      /\ FlatRest(c)
  BY FlatPlace, FlatTop DEF FlatMapValue, FlatAt, FlatRest, Called, Top
<1>2. /\ 1 \in Sources /\ 0 \notin Sources /\ Types /\ ~fault /\ open /\ Alive(1) /\ ~ended
      /\ ~cancelled /\ cont = c.g /\ cont # 0 /\ cont \in Sources \ {1} /\ Alive(cont)
      /\ balance = contRequested /\ HasRequests(balance) /\ balance \in Balance
      /\ RemoveFrom(balance, 1) = requested[cont]
      /\ ~FlatAsks(c) /\ requested[1] = 0
      /\ c.h # 0 => c.n
  BY <1>1, FlatAtContNext
<1>3. /\ fault' = ~(Alive(1) /\ CanRemove(balance, 1) /\ CanRemove(contRequested, 1))
      /\ balance' = RemoveFrom(balance, 1) /\ contRequested' = RemoveFrom(contRequested, 1)
      /\ stack' = Call("UserOnNext", c.g, "value", FlatCont(c)) /\ got' = got + 1
      /\ taken' = [taken EXCEPT ![c.g] = @ + 1]
      /\ ended' = (ended \/ Base!IsEnd("value"))
      /\ UNCHANGED <<phase, requested, generating, yielded, awaited, lock, open, asked, cancelled,
                      answers, cont, conts, late, kind, user>>
  BY <1>1 DEF FlatMapValue, SendDown, sourceVars, singleVars, otherVars, settings
<1>4. fault' = FALSE /\ balance' \in Balance /\ ended' = FALSE
  <2>1. CanRemove(balance, 1) /\ RemoveFrom(balance, 1) \in Balance
    BY <1>2, Counting
  <2> QED
    BY <1>2, <1>3, <2>1, Statuses
<1> DEFINE d == [c EXCEPT !.p = "contUser"]
<1>5. /\ d \in FlatContexts /\ d.p = "contUser" /\ d.b = c.b /\ d.n = c.n /\ d.h = c.h
      /\ d.g = c.g
      /\ d.f = c.f /\ d.e = c.e
  BY DEF FlatContexts, FlatPlaces, FlatContPlaces
<1> HIDE DEF d
<1>6. stack' = FlatStack(d)
  BY <1>1, <1>3, <1>5 DEF FlatStack, FlatCont, FlatUnder, FlatBelow
<1>7. Types'
  <2>1. taken' \in [Sources -> Nat] /\ got' \in Nat
    BY <1>2, <1>3 DEF Types
  <2> QED
    BY <1>2, <1>3, <1>4, <2>1 DEF Types
<1>8. FlatBegins(d)' /\ FlatNests(d)'
  <2>1. One(d.p = "next" /\ d.e = "value") = 0 /\ One(c.p = "next" /\ c.e = "value") = 0
    BY <1>1, <1>5 DEF One
  <2>2. FlatBegins(d)'
    BY <1>1, <1>2, <1>3, <1>5, <2>1 DEF FlatRest, FlatBegins
  <2>3. FlatNests(d)'
    BY <1>1, <1>2, <1>3, <1>5 DEF FlatRest, FlatNests, FlatContPlaces, FlatBasePlaces
  <2> QED
    BY <2>2, <2>3
<1>9. FlatCurrent(d)' /\ FlatOver(d)'
  BY <1>1, <1>2, <1>3, <1>4, <1>5 DEF FlatRest, FlatCurrent, FlatOver, Alive, Base!Alive
<1>10. FlatOwes(d)'
  BY <1>2, <1>3, <1>5 DEF FlatOwes
<1>11. FlatAsksOnce(d)'
  <2>1. ~FlatAsks(d)'
    BY <1>2, <1>3, <1>5 DEF FlatAsks
  <2>2. 1 \in late => balance' = asked' - got' /\ balance' <= 1
    <3>1. 1 \in late => balance = asked - got /\ balance <= 1
      BY <1>1, <1>2 DEF FlatRest, FlatAsksOnce
    <3>2. balance \in Nat /\ asked \in Nat /\ got \in Nat
      BY <1>2, Counting DEF Types
    <3>3. balance # KMax => balance' = balance - 1
      BY <1>3 DEF RemoveFrom
    <3> QED
      BY <1>3, <3>1, <3>2, <3>3, FlatUse
  <2> QED
    BY <1>1, <1>2, <1>3, <1>4, <1>5, <2>1, <2>2 DEF FlatRest, FlatAsksOnce
<1>12. FlatFlags(d)'
  BY <1>1, <1>2, <1>3, <1>5
     DEF FlatRest, FlatFlags, FlatBaseRuns, Alive, Base!Alive, FlatBasePlaces, FlatContPlaces
<1>13. AnswersOnce(d.p \in {"userEnd", "contUser", "contFails"})'
  BY <1>1, <1>2, <1>3 DEF FlatRest, AnswersOnce, Types
<1>14. contRequested' \in Balance /\ cont' \in Sources \cup {0} /\ conts' \in Nat
  BY <1>1, <1>2, <1>3, <1>4 DEF FlatRest
<1>15. FlatAt(d)'
  BY <1>4, <1>6, <1>7, <1>8, <1>9, <1>10, <1>11, <1>12, <1>13, <1>14 DEF FlatAt, FlatRest
<1> QED
  BY <1>5, <1>15 DEF FlatInv

\* A continuation ends: the base is asked for the next element.
LEMMA FlatContDoneInv ==
  ASSUME IsFlatMap, NEW c \in FlatContexts, FlatAt(c),
         FlatMapContDone, UNCHANGED <<singleVars, otherVars>>
  PROVE  FlatInv'
<1>1. /\ c.p = "contNext" /\ Tail(stack) = FlatCont(c) /\ Top.gen = c.g /\ c.f = "done"
      /\ FlatRest(c)
  BY FlatPlace, FlatTop DEF FlatMapContDone, FlatAt, FlatRest, Called, Top
<1>2. /\ 1 \in Sources /\ 0 \notin Sources /\ Types /\ ~fault /\ open /\ Alive(1) /\ ~ended
      /\ ~cancelled /\ cont = c.g /\ cont # 0 /\ cont \in Sources \ {1} /\ Alive(cont)
      /\ balance = contRequested /\ HasRequests(balance) /\ balance \in Balance
      /\ RemoveFrom(balance, 1) = requested[cont]
      /\ ~FlatAsks(c) /\ requested[1] = 0
      /\ c.h # 0 => c.n
  BY <1>1, FlatAtContNext
<1>3. /\ cont' = 0 /\ fault' = FALSE /\ contRequested' = contRequested
      /\ RequestUp(1, 1, FlatCont(c))
      /\ UNCHANGED <<balance, lock, open, asked, got, taken, ended, cancelled, answers, conts,
                      late, kind, user>>
  BY <1>1, <1>2 DEF FlatMapContDone, Forward, userVars, singleVars, otherVars, settings
<1>4. /\ requested' = [requested EXCEPT ![1] = AddTo(@, 1)]
      /\ UNCHANGED <<phase, yielded, awaited>>
      /\ 1 \in late \/ generating[1] => generating' = generating /\ stack' = FlatCont(c)
      /\ 1 \notin late /\ ~generating[1] =>
           /\ generating' = [generating EXCEPT ![1] = TRUE]
           /\ stack' = Call("Loop", 1, "none", FlatCont(c))
  BY <1>2, <1>3, RequestUpIs
<1>5. AddTo(0, 1) = 1 /\ 1 \in Balance
  BY FlatUse DEF AddTo, Balance
<1>6. /\ requested'[1] = 1 /\ requested' \in [Sources -> Balance]
      /\ \A k \in Sources \ {1} : requested'[k] = requested[k]
  BY <1>2, <1>4, <1>5 DEF Types
<1>7. /\ generating' \in [Sources -> BOOLEAN]
      /\ \A k \in Sources \ {1} : generating'[k] = generating[k]
      /\ 1 \notin late => generating'[1]
  BY <1>2, <1>4 DEF Types
<1>8. PICK d \in FlatContexts :
        /\ d.b = c.b /\ d.n = c.n /\ stack' = FlatStack(d)
        /\ \/ /\ d.p = "contAfter" /\ d.g = c.g /\ d.f = "done" /\ d.h = c.h
              /\ 1 \notin late => FlatBaseRuns(c)
           \/ d.p = "loop" /\ d.h = c.g /\ ~c.n /\ 1 \notin late
  <2>1. CASE 1 \in late \/ generating[1]
    <3> DEFINE d == [c EXCEPT !.p = "contAfter"]
    <3>1. /\ d \in FlatContexts /\ d.p = "contAfter" /\ d.b = c.b /\ d.n = c.n /\ d.h = c.h
          /\ d.g = c.g /\ d.f = "done"
      BY <1>1 DEF FlatContexts, FlatPlaces, FlatContPlaces
    <3> HIDE DEF d
    <3>2. stack' = FlatStack(d)
      BY <1>1, <1>4, <2>1, <3>1 DEF FlatStack, FlatCont, FlatUnder, FlatBelow
    <3>3. 1 \notin late => FlatBaseRuns(c)
      BY <1>1, <1>2, <2>1 DEF FlatRest, FlatFlags
    <3> QED
      BY <3>1, <3>2, <3>3
  <2>2. CASE 1 \notin late /\ ~generating[1]
    <3>1. ~c.n /\ c.h = 0
      BY <1>1, <1>2, <2>2 DEF FlatRest, FlatFlags, FlatBaseRuns
    <3> DEFINE d == [c EXCEPT !.p = "loop", !.h = c.g]
    <3>2. d \in FlatContexts /\ d.p = "loop" /\ d.b = c.b /\ d.n = c.n /\ d.h = c.g
      BY DEF FlatContexts, FlatPlaces, FlatBasePlaces
    <3> HIDE DEF d
    <3>3. stack' = FlatStack(d)
      BY <1>1, <1>2, <1>4, <2>2, <3>1, <3>2 DEF FlatStack, FlatCont, FlatUnder, FlatBelow
    <3> QED
      BY <2>2, <3>1, <3>2, <3>3
  <2> QED
    BY <2>1, <2>2
<1>9. Types'
  BY <1>2, <1>3, <1>4, <1>6, <1>7 DEF Types
<1>10. FlatBegins(d)'
  <2>1. One(d.p = "next" /\ d.e = "value") = 0 /\ One(c.p = "next" /\ c.e = "value") = 0
    BY <1>1, <1>8 DEF One
  <2> QED
    BY <1>1, <1>2, <1>3, <1>4, <1>6, <1>7, <1>8, <2>1 DEF FlatRest, FlatBegins
<1>11. FlatNests(d)'
  <2>1. phase[c.g] # "new" /\ c.g # 1
    BY <1>1, <1>2 DEF FlatRest, FlatCurrent
  <2> QED
    BY <1>1, <1>2, <1>3, <1>4, <1>8, <2>1
       DEF FlatRest, FlatNests, FlatContPlaces, FlatBasePlaces
<1>12. FlatCurrent(d)'
  BY <1>1, <1>2, <1>3, <1>4, <1>8 DEF FlatRest, FlatCurrent, Alive, Base!Alive
<1>13. FlatOver(d)'
  BY <1>1, <1>2, <1>3, <1>4, <1>8 DEF FlatRest, FlatOver, Alive, Base!Alive
<1>14. FlatOwes(d)'
  BY <1>3 DEF FlatOwes
<1>15. FlatAsksOnce(d)'
  <2>1. 1 \notin late => FlatBaseRuns(d)
    BY <1>1, <1>8 DEF FlatBaseRuns, FlatBasePlaces
  <2>2. 1 \in late => balance = 1 /\ balance = asked - got
    BY <1>1, <1>2 DEF FlatRest, FlatAsksOnce, HasRequests, Balance
  <2>3. 1 \in late /\ user = "single" /\ c.b = Telling => asked = 0
    BY <1>1, <1>2 DEF FlatRest, FlatAsksOnce
  <2> QED
    BY <1>2, <1>3, <1>6, <1>8, <2>1, <2>2, <2>3 DEF FlatAsksOnce
<1>16. FlatFlags(d)'
  <2>1. 1 \notin late => FlatBaseRuns(d)
    BY <1>1, <1>8 DEF FlatBaseRuns, FlatBasePlaces
  <2> QED
    BY <1>3, <1>7, <2>1 DEF FlatFlags
<1>17. contRequested' \in Balance /\ cont' \in Sources \cup {0} /\ conts' \in Nat
  BY <1>1, <1>2, <1>3 DEF FlatRest
<1>18. FlatAt(d)'
  BY <1>1, <1>2, <1>3, <1>8, <1>9, <1>10, <1>11, <1>12, <1>13, <1>14, <1>15, <1>16, <1>17
     DEF FlatAt, FlatRest, AnswersOnce
<1> QED
  BY <1>18 DEF FlatInv

\* A continuation fails: its error is passed on.
LEMMA FlatContFailsInv ==
  ASSUME IsFlatMap, NEW c \in FlatContexts, FlatAt(c),
         FlatMapContFails, UNCHANGED <<singleVars, otherVars>>
  PROVE  FlatInv'
<1>1. /\ c.p = "contNext" /\ Tail(stack) = FlatCont(c) /\ Top.gen = c.g /\ c.f = "error"
      /\ FlatRest(c)
  BY FlatPlace, FlatTop DEF FlatMapContFails, FlatAt, FlatRest, Called, Top
<1>2. /\ 1 \in Sources /\ 0 \notin Sources /\ Types /\ ~fault /\ open /\ Alive(1) /\ ~ended
      /\ ~cancelled /\ cont = c.g /\ cont # 0 /\ cont \in Sources \ {1} /\ Alive(cont)
      /\ balance = contRequested /\ HasRequests(balance) /\ balance \in Balance
      /\ RemoveFrom(balance, 1) = requested[cont]
      /\ ~FlatAsks(c) /\ requested[1] = 0
      /\ c.h # 0 => c.n
  BY <1>1, FlatAtContNext
<1>3. /\ stack' = Call("UserOnNext", c.g, "error", FlatFails(c)) /\ got' = got + 1
      /\ taken' = [taken EXCEPT ![c.g] = @] /\ ended' = TRUE
      /\ UNCHANGED <<phase, requested, generating, yielded, awaited, fault, balance, lock, open,
                      asked, cancelled, answers, cont, contRequested, conts, late, kind, user>>
  BY <1>1, Statuses
     DEF FlatMapContFails, SendDown, FlatFails, sourceVars, singleVars, flatMapVars,
         otherVars,
         settings
<1> DEFINE d == [c EXCEPT !.p = "contFails"]
<1>4. /\ d \in FlatContexts /\ d.p = "contFails" /\ d.b = c.b /\ d.n = c.n /\ d.h = c.h
      /\ d.g = c.g /\ d.f = c.f /\ d.e = c.e
  BY DEF FlatContexts, FlatPlaces, FlatContPlaces
<1> HIDE DEF d
<1>5. stack' = FlatStack(d)
  BY <1>1, <1>3, <1>4 DEF FlatStack, FlatFails, FlatCont, FlatUnder, FlatBelow
<1>6. Types'
  <2>1. taken' \in [Sources -> Nat] /\ got' \in Nat
    BY <1>2, <1>3 DEF Types
  <2> QED
    BY <1>2, <1>3, <2>1 DEF Types
<1>7. FlatBegins(d)' /\ FlatNests(d)'
  <2>1. One(d.p = "next" /\ d.e = "value") = 0 /\ One(c.p = "next" /\ c.e = "value") = 0
    BY <1>1, <1>4 DEF One
  <2>2. FlatBegins(d)'
    BY <1>1, <1>2, <1>3, <1>4, <2>1 DEF FlatRest, FlatBegins
  <2>3. FlatNests(d)'
    BY <1>1, <1>2, <1>3, <1>4 DEF FlatRest, FlatNests, FlatContPlaces, FlatBasePlaces
  <2> QED
    BY <2>2, <2>3
<1>8. FlatCurrent(d)' /\ FlatOver(d)'
  BY <1>1, <1>2, <1>3, <1>4 DEF FlatRest, FlatCurrent, FlatOver, Alive, Base!Alive
<1>9. FlatOwes(d)' /\ FlatAsksOnce(d)'
  BY <1>2, <1>3 DEF FlatOwes, FlatAsksOnce
<1>10. FlatFlags(d)'
  BY <1>1, <1>2, <1>3, <1>4
     DEF FlatRest, FlatFlags, FlatBaseRuns, Alive, Base!Alive, FlatBasePlaces, FlatContPlaces
<1>11. AnswersOnce(d.p \in {"userEnd", "contUser", "contFails"})'
  BY <1>1, <1>2, <1>3 DEF FlatRest, AnswersOnce, Types
<1>12. FlatAt(d)'
  BY <1>1, <1>2, <1>3, <1>5, <1>6, <1>7, <1>8, <1>9, <1>10, <1>11 DEF FlatAt, FlatRest
<1> QED
  BY <1>4, <1>12 DEF FlatInv

\* The base is cancelled, and with it the stream and its continuation: by the
\* subscriber, or after the error of the continuation.
LEMMA FlatCancelInv ==
  ASSUME IsFlatMap, NEW c \in FlatContexts, FlatRest(c), NEW d \in FlatContexts,
         d.b = c.b, d.n = c.n, d.h = c.h, d.g = c.g, d.e = c.e, d.f = c.f,
         \/ c.p = "terminate" /\ d.p = "contAfter"
         \/ c.p = d.p /\ c.p \in {"out", "contUser"} /\ ~ended /\ (c.p = "out" => user # "single")
         \/ c.p = d.p /\ c.p = "contAfter" /\ c.f = "value" /\ ~ended,
         open, Alive(1), FlatMapCancel(FlatStack(d)),
         cancelled' \in BOOLEAN, cancelled' \/ ended, answers' \in Nat,
         AnswersOnce(d.p \in {"userEnd", "contUser", "contFails"})',
         UNCHANGED <<open, userVars, otherVars>>
  PROVE  FlatInv'
<1>1. /\ 1 \in Sources /\ 0 \notin Sources /\ Types /\ ~fault /\ cont \in Sources \cup {0}
      /\ c.h # 0 => c.n /\ c.h \in Sources \ {1} /\ c.h # cont /\ phase[c.h] # "new"
      /\ c.p = "terminate" => c.f = "error" /\ c.g = cont
  BY FlatUse
     DEF FlatRest, FlatNests, FlatCurrent, FlatOver, FlatBasePlaces, FlatContexts
<1>2. /\ fault' = FALSE /\ phase' = Deleted({1} \cup ActiveContinuation)
      /\ stack' = FlatStack(d)
      /\ UNCHANGED <<requested, generating, yielded, awaited, balance, lock, open, asked, got,
                      taken, ended, cont, contRequested, conts, late, kind, user>>
  BY DEF FlatMapCancel, userVars, flatMapVars, otherVars, settings
<1>3. /\ phase' \in [Sources -> {"new", "alive", "deleted"}]
      /\ ~Alive(1)' /\ phase'[1] # "new"
      /\ \A k \in Sources : /\ Alive(k)' => Alive(k) /\ k # 1 /\ k # cont
                            /\ k # 1 => (phase'[k] = "new" <=> phase[k] = "new")
      /\ cont # 0 => phase'[cont] # "alive"
  BY <1>1, <1>2, FlatDeletes
<1>4. Types'
  BY <1>1, <1>2, <1>3 DEF Types
<1>5. FlatBegins(d)'
  <2>1. One(d.p = "next" /\ d.e = "value") = 0 /\ One(c.p = "next" /\ c.e = "value") = 0
    BY DEF One
  <2>2. awaited = {} /\ conts + 0 = yielded[1] /\ yielded[1] <= MaxElems
    BY <2>1 DEF FlatRest, FlatBegins
  <2>3. \A k \in Sources \ {1} : /\ phase'[k] = "new" <=> k > conts + 1
                                 /\ phase'[k] = "new" => requested[k] = 0 /\ ~generating[k]
    BY <1>3 DEF FlatRest, FlatBegins
  <2>4. d.p # "subscribing" /\ open' /\ phase'[1] # "new" /\ awaited' = {}
    BY <1>2, <1>3, <2>2
  <2>5. conts' + One(d.p = "next" /\ d.e = "value") = yielded'[1] /\ yielded'[1] <= MaxElems
    BY <1>2, <2>1, <2>2
  <2>6. \A k \in Sources \ {1} : /\ phase'[k] = "new" <=> k > conts' + 1
                                 /\ phase'[k] = "new" => requested'[k] = 0 /\ ~generating'[k]
    BY <1>2, <2>3
  <2> QED
    BY <2>4, <2>5, <2>6 DEF FlatBegins
<1>6. FlatNests(d)'
  <2>1. c.p # "out" => c.g # 1 /\ phase[c.g] # "new" /\ c.g \in Sources
    BY <1>1 DEF FlatRest, FlatNests, FlatContPlaces, FlatContexts, FlatCurrent
  <2>2. c.n => c.p # "out"
    BY DEF FlatRest, FlatNests, FlatContPlaces
  <2> QED
    BY <1>1, <1>2, <1>3, <2>1, <2>2 DEF FlatNests, FlatContPlaces, FlatBasePlaces
<1>7. FlatCurrent(d)'
  <2>1. cont # 0 => cont \in Sources \ {1} /\ phase'[cont] # "new"
    BY <1>3 DEF FlatRest, FlatCurrent
  <2>2. ASSUME NEW k \in Sources \ {1}, Alive(k)'
        PROVE  k = c.h
    BY <1>1, <1>3, <2>2 DEF FlatRest, FlatCurrent
  <2>3. c.p # "out" => c.g = cont
    BY <1>1 DEF FlatRest, FlatCurrent
  <2>4. c.p = "contUser" => c.f = "value"
    BY DEF FlatRest, FlatCurrent
  <2> QED
    BY <1>1, <1>2, <1>3, <2>1, <2>2, <2>3, <2>4 DEF FlatCurrent, Alive, Base!Alive
<1>8. FlatOver(d)'
  <2>1. ~(user = "single" /\ c.b = Telling)
    BY DEF FlatRest, FlatOver
  <2> QED
    BY <1>1, <1>2, <1>3, <2>1 DEF FlatOver
<1>9. FlatOwes(d)'
  BY <1>2, <1>3 DEF FlatOwes, Alive, Base!Alive
<1>10. FlatAsksOnce(d)'
  <2>1. c.p = "terminate" => ended
    BY DEF FlatRest, FlatOver
  <2> QED
    BY <1>2, <1>3, <2>1 DEF FlatRest, FlatAsksOnce
<1>11. FlatFlags(d)'
  BY <1>2, <1>3 DEF FlatFlags, Alive, Base!Alive
<1>12. FlatAt(d)'
  BY <1>1, <1>2, <1>4, <1>5, <1>6, <1>7, <1>8, <1>9, <1>10, <1>11 DEF FlatAt, FlatRest
<1> QED
  BY <1>12 DEF FlatInv

\* After the error of a continuation the base is cancelled.
LEMMA FlatTerminateInv ==
  ASSUME IsFlatMap, NEW c \in FlatContexts, FlatAt(c),
         FlatMapTerminate, UNCHANGED <<singleVars, otherVars>>
  PROVE  FlatInv'
<1>1. c.p = "terminate" /\ Tail(stack) = FlatCont(c) /\ FlatRest(c)
  BY FlatPlace, FlatTop DEF FlatMapTerminate, FlatAt, FlatRest, Called, Top
<1> DEFINE d == [c EXCEPT !.p = "contAfter"]
<1>2. /\ d \in FlatContexts /\ d.p = "contAfter" /\ d.b = c.b /\ d.n = c.n /\ d.h = c.h
      /\ d.g = c.g /\ d.f = c.f /\ d.e = c.e
  BY DEF FlatContexts, FlatPlaces, FlatContPlaces
<1> HIDE DEF d
<1>3. FlatStack(d) = FlatCont(c)
  BY <1>2 DEF FlatStack, FlatCont, FlatUnder, FlatBelow
<1>4. open /\ Alive(1) /\ ended /\ Types /\ cancelled \in BOOLEAN /\ answers \in Nat
  BY <1>1 DEF FlatRest, FlatOver, Types
<1>5. FlatMapCancel(FlatStack(d)) /\ UNCHANGED <<open, userVars, cancelled, answers, user>>
  BY <1>1, <1>3 DEF FlatMapTerminate, singleVars, otherVars
<1>6. AnswersOnce(d.p \in {"userEnd", "contUser", "contFails"})'
  BY <1>1, <1>2, <1>5 DEF FlatRest, AnswersOnce, userVars
<1> QED
  BY <1>1, <1>2, <1>4, <1>5, <1>6, FlatCancelInv

\* The subscriber requests n events and no continuation is active: the base is asked
\* for an element.
LEMMA FlatRequestBaseInv ==
  ASSUME IsFlatMap, NEW c \in FlatContexts, FlatRest(c), cont = 0,
         c.p \in {"out", "userEnd", "contUser", "contFails"}, open, Alive(1),
         NEW n \in Nat, 1 \in late => asked = got /\ n = 1,
         0 \notin Counts => n > 0, user = "single" => c.b # Telling, asked' = asked + n,
         FlatMapRequest(n, FlatStack(c)),
         UNCHANGED <<open, got, taken, ended, singleVars, otherVars>>
  PROVE  FlatInv'
<1>1. /\ 1 \in Sources /\ 0 \notin Sources /\ Types /\ ~fault /\ ~cancelled
      /\ balance \in Balance
      /\ asked \in Nat /\ got \in Nat /\ awaited = {} /\ phase[1] # "new"
  BY FlatUse DEF FlatRest, FlatOver, FlatBegins, Types
<1>2. c.p \in {"out", "userEnd"}
  BY <1>1 DEF FlatRest, FlatCurrent, FlatContexts
<1>3. /\ balance' = AddTo(balance, n) /\ fault' = FALSE /\ contRequested' = contRequested
      /\ RequestUp(1, 1, FlatStack(c))
      /\ UNCHANGED <<lock, open, got, taken, ended, cancelled, answers, cont, conts, late, kind,
                      user>>
  BY DEF FlatMapRequest, Forward, singleVars, otherVars, settings
<1>4. /\ requested' = [requested EXCEPT ![1] = AddTo(@, 1)]
      /\ UNCHANGED <<phase, yielded, awaited>>
      /\ 1 \in late \/ generating[1] => generating' = generating /\ stack' = FlatStack(c)
      /\ 1 \notin late /\ ~generating[1] =>
           /\ generating' = [generating EXCEPT ![1] = TRUE]
           /\ stack' = Call("Loop", 1, "none", FlatStack(c))
  BY <1>1, <1>3, RequestUpIs
<1>5. /\ balance' \in Balance /\ balance' \in Nat /\ balance' >= balance /\ balance \in Nat
      /\ HasRequests(balance) => HasRequests(balance')
      /\ 0 \notin Counts => HasRequests(balance')
  <2>1. /\ balance' \in Balance /\ balance' >= balance /\ balance \in Nat
        /\ HasRequests(balance) => HasRequests(balance')
    BY <1>1, <1>3, Counting
  <2>2. balance' \in Nat
    BY <2>1, Counting
  <2>3. n > 0 => HasRequests(balance')
    BY <1>1, <1>3, FlatUse DEF AddTo, HasRequests, Balance
  <2> QED
    BY <2>1, <2>2, <2>3
<1>6. /\ requested'[1] \in Balance /\ requested' \in [Sources -> Balance]
      /\ requested'[1] = AddTo(requested[1], 1)
      /\ \A k \in Sources \ {1} : requested'[k] = requested[k]
  <2>1. AddTo(requested[1], 1) \in Balance
    BY <1>1, Counting DEF Types
  <2> QED
    BY <1>1, <1>4, <2>1 DEF Types
<1>7. /\ generating' \in [Sources -> BOOLEAN]
      /\ \A k \in Sources \ {1} : generating'[k] = generating[k]
      /\ 1 \notin late => generating'[1]
  BY <1>1, <1>4 DEF Types
<1>8. ~ended => requested[1] = 0 /\ requested'[1] = 1
  <2>1. ~ended => requested[1] \in {0, 1} /\ c.p = "out"
    BY <1>1, <1>2 DEF FlatRest, FlatAsksOnce, FlatOver
  <2>2. c.p = "out" => ~FlatBaseRuns(c)
    BY FlatAtRest DEF FlatBaseRuns, FlatBasePlaces
  <2>3. ~ended /\ 1 \notin late => requested[1] = 0
    BY <1>1, <2>1, <2>2 DEF FlatRest, FlatAsksOnce
  <2>4. ~ended /\ 1 \in late => balance = 0
    BY <1>1 DEF FlatRest, FlatAsksOnce
  <2>5. ~ended /\ 1 \in late => requested[1] = 0
    BY <1>1, <2>1, <2>4 DEF FlatRest, FlatAsksOnce, FlatAsks
  <2>6. AddTo(0, 1) = 1
    BY FlatUse DEF AddTo
  <2> QED
    BY <1>6, <2>3, <2>5, <2>6
<1>9. PICK d \in FlatContexts :
        /\ d.b = c.b /\ d.n = c.n /\ d.h = c.h /\ d.e = c.e /\ stack' = FlatStack(d)
        /\ \/ d.p = c.p /\ (1 \notin late => c.p = "userEnd")
           \/ d.p = "loop" /\ c.p = "out" /\ 1 \notin late
  <2>1. CASE 1 \in late \/ generating[1]
    <3>1. c.p = "out" => ~FlatBaseRuns(c)
      BY FlatAtRest DEF FlatBaseRuns, FlatBasePlaces
    <3>2. 1 \notin late => c.p = "userEnd"
      BY <1>1, <1>2, <2>1, <3>1 DEF FlatRest, FlatFlags
    <3> QED
      BY <1>4, <2>1, <3>2
  <2>2. CASE 1 \notin late /\ ~generating[1]
    <3>1. c.p = "out"
      BY <1>1, <1>2, <2>2 DEF FlatRest, FlatFlags, FlatBaseRuns, FlatBasePlaces
    <3> DEFINE d == [c EXCEPT !.p = "loop"]
    <3>2. d \in FlatContexts /\ d.p = "loop" /\ d.b = c.b /\ d.n = c.n /\ d.h = c.h /\ d.e = c.e
      BY DEF FlatContexts, FlatPlaces, FlatBasePlaces
    <3> HIDE DEF d
    <3>3. FlatStack(c) = FlatBelow(d)
      BY <3>1, <3>2, FlatAtRest DEF FlatStack, FlatBelow
    <3>4. stack' = FlatStack(d)
      BY <1>4, <2>2, <3>2, <3>3 DEF FlatStack
    <3> QED
      BY <2>2, <3>1, <3>2, <3>4
  <2> QED
    BY <2>1, <2>2
<1>10. c.p = "out" => ~ended
  BY <1>1, FlatAtRest
<1>11. Types'
  <2>1. asked' \in Nat
    BY <1>1
  <2> QED
    BY <1>1, <1>3, <1>4, <1>5, <1>6, <1>7, <2>1 DEF Types
<1>12. FlatBegins(d)'
  <2>1. One(d.p = "next" /\ d.e = "value") = 0 /\ One(c.p = "next" /\ c.e = "value") = 0
    BY <1>2, <1>9 DEF One
  <2> QED
    BY <1>1, <1>2, <1>3, <1>4, <1>6, <1>7, <1>9, <2>1 DEF FlatRest, FlatBegins
<1>13. FlatNests(d)'
  <2>1. ~c.n
    BY <1>2 DEF FlatRest, FlatNests, FlatContPlaces
  <2> QED
    BY <1>2, <1>3, <1>4, <1>9, <2>1
       DEF FlatRest, FlatNests, FlatContPlaces, FlatBasePlaces
<1>14. FlatCurrent(d)'
  BY <1>1, <1>2, <1>3, <1>4, <1>9, <1>10 DEF FlatRest, FlatCurrent, Alive, Base!Alive
<1>15. FlatOver(d)'
  BY <1>1, <1>2, <1>3, <1>4, <1>9, <1>10 DEF FlatRest, FlatOver, Alive, Base!Alive
<1>16. FlatOwes(d)'
  BY <1>3 DEF FlatOwes
<1>17. FlatAsksOnce(d)'
  <2>1. 1 \notin late => FlatBaseRuns(d)
    BY <1>9 DEF FlatBaseRuns, FlatBasePlaces
  <2>2. 1 \in late /\ ~ended => balance' = 1 /\ asked' - got' = 1
    <3>1. 1 \in late /\ ~ended => balance = 0
      BY <1>1 DEF FlatRest, FlatAsksOnce
    <3>2. AddTo(0, 1) = 1
      BY FlatUse DEF AddTo
    <3> QED
      BY <1>1, <1>3, <3>1, <3>2
  <2>3. d.p \notin {"next", "contSubscribing"}
    BY <1>2, <1>9
  <2> QED
    BY <1>3, <1>5, <1>8, <1>9, <2>1, <2>2, <2>3 DEF FlatAsksOnce
<1>18. FlatFlags(d)'
  <2>1. 1 \notin late => FlatBaseRuns(d)
    BY <1>9 DEF FlatBaseRuns, FlatBasePlaces
  <2> QED
    BY <1>3, <1>7, <2>1 DEF FlatFlags
<1>19. AnswersOnce(d.p \in {"userEnd", "contUser", "contFails"})'
  BY <1>2, <1>3, <1>9 DEF FlatRest, AnswersOnce
<1>20. contRequested' \in Balance /\ cont' \in Sources \cup {0} /\ conts' \in Nat
  BY <1>3 DEF FlatRest
<1>21. FlatAt(d)'
  BY <1>3, <1>9, <1>11, <1>12, <1>13, <1>14, <1>15, <1>16, <1>17, <1>18, <1>19, <1>20
     DEF FlatAt, FlatRest
<1> QED
  BY <1>21 DEF FlatInv

\* The subscriber requests n events: the active continuation is asked for them.
LEMMA FlatRequestContInv ==
  ASSUME IsFlatMap, NEW c \in FlatContexts, FlatRest(c), cont # 0,
         c.p \in {"out", "userEnd", "contUser", "contFails"}, open, Alive(1),
         NEW n \in Nat, 1 \in late => asked = got /\ n = 1,
         user = "single" => c.b # Telling, asked' = asked + n,
         FlatMapRequest(n, FlatStack(c)),
         UNCHANGED <<open, got, taken, ended, singleVars, otherVars>>
  PROVE  FlatInv'
<1>1. /\ 1 \in Sources /\ 0 \notin Sources /\ Types /\ ~fault /\ ~cancelled
      /\ balance \in Balance
      /\ asked \in Nat /\ got \in Nat /\ awaited = {} /\ phase[1] # "new"
      /\ contRequested \in Balance /\ cont \in Sources \ {1} /\ Alive(cont)
      /\ phase[cont] # "new"
      /\ requested[cont] \in Balance
  BY FlatUse DEF FlatRest, FlatOver, FlatBegins, FlatCurrent, Types
<1>2. /\ c.p \in {"out", "contUser", "contFails"}
      /\ c.p # "out" => c.g = cont
      /\ c.p \in {"out", "contUser"} => ~ended
  BY <1>1, FlatAtRest DEF FlatRest, FlatCurrent, FlatOver
<1>3. /\ balance' = AddTo(balance, n) /\ Forward(cont, balance', contRequested, FlatStack(c))
      /\ UNCHANGED <<lock, open, got, taken, ended, cancelled, answers, cont, conts, late, kind,
                      user>>
  BY DEF FlatMapRequest, singleVars, otherVars, settings
<1> DEFINE m == Delta(balance', contRequested)
<1>4. /\ balance' \in Balance /\ balance' \in Nat /\ balance' >= balance /\ balance \in Nat
      /\ HasRequests(balance) => HasRequests(balance')
  <2>1. /\ balance' \in Balance /\ balance' >= balance /\ balance \in Nat
        /\ HasRequests(balance) => HasRequests(balance')
    BY <1>1, <1>3, Counting
  <2> QED
    BY <2>1, Counting
<1>5. ~ended => /\ balance = contRequested /\ balance = requested[cont]
                /\ m \in Nat /\ AddTo(balance, m) = balance' /\ (m = 0 => balance' = balance)
  <2>1. ~ended => balance = contRequested /\ balance = requested[cont]
    BY <1>1, <1>2 DEF FlatRest, FlatOwes
  <2> QED
    BY <1>1, <1>3, <2>1, FlatDelta
<1>6. m \in Int
  BY <1>1, <1>4, Counting DEF Delta
<1>7. /\ \/ /\ m > 0 /\ contRequested' = AddTo(contRequested, m)
            /\ RequestUp(cont, m, FlatStack(c))
         \/ /\ ~(m > 0) /\ contRequested' = contRequested /\ stack' = FlatStack(c)
            /\ UNCHANGED sourceVars
      /\ fault' = FALSE
  <2>1. fault = FALSE
    BY <1>1 DEF Types
  <2>2. CASE m > 0
    BY <1>1, <1>3, <2>2 DEF Forward
  <2>3. CASE ~(m > 0)
    BY <1>1, <1>3, <2>1, <2>3 DEF Forward
  <2> QED
    BY <2>2, <2>3
<1> HIDE DEF m
<1>8. /\ contRequested' \in Balance /\ requested'[cont] \in Balance
      /\ requested' \in [Sources -> Balance]
      /\ ~ended => contRequested' = balance' /\ requested'[cont] = balance'
      /\ \A k \in Sources \ {cont} : requested'[k] = requested[k]
      /\ UNCHANGED <<phase, yielded, awaited>>
      /\ \/ stack' = FlatStack(c) /\ generating' = generating
         \/ /\ cont \notin late /\ ~generating[cont]
            /\ generating' = [generating EXCEPT ![cont] = TRUE]
            /\ stack' = Call("Loop", cont, "none", FlatStack(c))
  <2>1. CASE m > 0
    <3>1. m \in Nat
      BY <1>6, <2>1
    <3>2. /\ requested' = [requested EXCEPT ![cont] = AddTo(@, m)]
          /\ UNCHANGED <<phase, yielded, awaited>>
          /\ cont \in late \/ generating[cont] => generating' = generating /\ stack' = FlatStack(c)
          /\ cont \notin late /\ ~generating[cont] =>
               /\ generating' = [generating EXCEPT ![cont] = TRUE]
               /\ stack' = Call("Loop", cont, "none", FlatStack(c))
      BY <1>1, <1>7, <2>1, <3>1, RequestUpIs
    <3>3. AddTo(contRequested, m) \in Balance /\ AddTo(requested[cont], m) \in Balance
      BY <1>1, <3>1, Counting
    <3>4. /\ requested'[cont] = AddTo(requested[cont], m)
          /\ requested' \in [Sources -> Balance]
          /\ \A k \in Sources \ {cont} : requested'[k] = requested[k]
      BY <1>1, <3>2, <3>3 DEF Types
    <3> QED
      BY <1>5, <1>7, <2>1, <3>2, <3>3, <3>4
  <2>2. CASE ~(m > 0)
    <3>1. /\ contRequested' = contRequested /\ stack' = FlatStack(c)
          /\ UNCHANGED <<phase, requested, generating, yielded, awaited>>
      BY <1>7, <2>2 DEF sourceVars
    <3>2. ~ended => balance' = balance
      BY <1>5, <2>2
    <3> QED
      BY <1>1, <1>5, <3>1, <3>2 DEF Types
  <2> QED
    BY <2>1, <2>2
<1>9. /\ generating' \in [Sources -> BOOLEAN]
      /\ \A k \in Sources \ {cont} : generating'[k] = generating[k]
  BY <1>1, <1>8 DEF Types
<1>10. PICK d \in FlatContexts :
        /\ d.b = c.b /\ d.n = c.n /\ d.h = c.h /\ d.e = c.e /\ stack' = FlatStack(d)
        /\ \/ d.p = c.p /\ d.g = c.g /\ d.f = c.f /\ generating' = generating
           \/ d.p = "contLoop" /\ c.p = "out" /\ cont \notin late /\ d.g = cont /\ generating'[cont]
  <2>1. CASE stack' = FlatStack(c) /\ generating' = generating
    BY <2>1
  <2>2. CASE /\ cont \notin late /\ ~generating[cont]
             /\ generating' = [generating EXCEPT ![cont] = TRUE]
             /\ stack' = Call("Loop", cont, "none", FlatStack(c))
    <3>1. c.p = "out"
      BY <1>1, <1>2, <2>2 DEF FlatRest, FlatFlags, FlatContPlaces
    <3> DEFINE d == [c EXCEPT !.p = "contLoop", !.g = cont]
    <3>2. /\ d \in FlatContexts /\ d.p = "contLoop" /\ d.b = c.b /\ d.n = c.n /\ d.h = c.h
          /\ d.e = c.e /\ d.g = cont
      BY <1>1 DEF FlatContexts, FlatPlaces, FlatContPlaces
    <3> HIDE DEF d
    <3>3. FlatStack(c) = FlatUnder(d)
      BY <3>1, <3>2, FlatAtRest DEF FlatStack, FlatUnder, FlatBelow
    <3>4. stack' = FlatStack(d)
      BY <2>2, <3>2, <3>3 DEF FlatStack
    <3>5. generating'[cont]
      BY <1>1, <2>2 DEF Types
    <3> QED
      BY <2>2, <3>1, <3>2, <3>4, <3>5
  <2> QED
    BY <1>8, <2>1, <2>2
<1>11. Types'
  <2>1. asked' \in Nat
    BY <1>1
  <2> QED
    BY <1>1, <1>3, <1>4, <1>7, <1>8, <1>9, <2>1 DEF Types
<1>12. FlatBegins(d)'
  <2>1. One(d.p = "next" /\ d.e = "value") = 0 /\ One(c.p = "next" /\ c.e = "value") = 0
    BY <1>2, <1>10 DEF One
  <2>2. \A k \in Sources \ {1} : phase[k] = "new" =>
          requested'[k] = requested[k] /\ generating'[k] = generating[k]
    BY <1>1, <1>8, <1>9
  <2> QED
    BY <1>1, <1>2, <1>3, <1>8, <1>10, <2>1, <2>2 DEF FlatRest, FlatBegins
<1>13. FlatNests(d)'
  <2>1. c.p = "out" => ~c.n /\ c.h = 0
    BY FlatAtRest
  <2> QED
    BY <1>1, <1>2, <1>3, <1>8, <1>10, <2>1
       DEF FlatRest, FlatNests, FlatContPlaces, FlatBasePlaces
<1>14. FlatCurrent(d)'
  BY <1>1, <1>2, <1>3, <1>8, <1>10 DEF FlatRest, FlatCurrent, Alive, Base!Alive
<1>15. FlatOver(d)'
  BY <1>1, <1>2, <1>3, <1>8, <1>10 DEF FlatRest, FlatOver, Alive, Base!Alive
<1>16. FlatOwes(d)'
  <2>1. d.p # "contNext"
    BY <1>2, <1>10
  <2> QED
    BY <1>3, <1>8, <2>1 DEF FlatOwes
<1>17. FlatAsksOnce(d)'
  <2>1. ~ended => requested[1] = 0
    BY <1>1 DEF FlatRest, FlatAsksOnce, FlatAsks
  <2>2. requested'[1] = requested[1] /\ (~ended => ~FlatAsks(d)')
    BY <1>1, <1>2, <1>8, <1>10, <2>1 DEF FlatAsks
  <2>3. 1 \in late /\ ~ended => balance' = 1 /\ asked' - got' = 1
    <3>1. 1 \in late /\ ~ended => balance = 0
      BY <1>1 DEF FlatRest, FlatAsksOnce
    <3>2. AddTo(0, 1) = 1
      BY FlatUse DEF AddTo
    <3> QED
      BY <1>1, <1>3, <3>1, <3>2
  <2>4. d.p \notin {"next", "contSubscribing"}
    BY <1>2, <1>10
  <2>5. 0 \notin Counts /\ ended => HasRequests(balance')
    BY <1>4 DEF FlatRest, FlatAsksOnce
  <2> QED
    BY <1>3, <1>10, <2>1, <2>2, <2>3, <2>4, <2>5 DEF FlatAsksOnce
<1>18. FlatFlags(d)'
  <2>1. generating'[1] = generating[1] /\ (FlatBaseRuns(d) <=> FlatBaseRuns(c))
    BY <1>1, <1>2, <1>9, <1>10 DEF FlatBaseRuns, FlatBasePlaces
  <2> QED
    BY <1>1, <1>2, <1>3, <1>8, <1>10, <2>1
       DEF FlatRest, FlatFlags, Alive, Base!Alive, FlatContPlaces
<1>19. AnswersOnce(d.p \in {"userEnd", "contUser", "contFails"})'
  BY <1>2, <1>3, <1>10 DEF FlatRest, AnswersOnce
<1>20. contRequested' \in Balance /\ cont' \in Sources \cup {0} /\ conts' \in Nat
  BY <1>3, <1>8 DEF FlatRest
<1>21. FlatAt(d)'
  BY <1>3, <1>7, <1>10, <1>11, <1>12, <1>13, <1>14, <1>15, <1>16, <1>17, <1>18, <1>19, <1>20
     DEF FlatAt, FlatRest
<1> QED
  BY <1>21 DEF FlatInv

\* What is behind a call of the subscriber.
LEMMA FlatPopped ==
  ASSUME IsFlatMap, NEW c \in FlatContexts, FlatAt(c), UserActive, stack # <<>>
  PROVE  /\ open
         /\ c.p = "out" => c.b = Telling
         /\ \E d \in FlatContexts :
              /\ FlatRest(d) /\ Tail(stack) = FlatStack(d)
              /\ d.n = c.n /\ d.h = c.h /\ d.g = c.g /\ d.e = c.e /\ d.f = c.f
              /\ c.p # "out" => d.b = c.b
              /\ c.p = "out" => d.b = <<>> /\ d.p = "out"
              /\ c.p = "userEnd" => d.p = "after"
              /\ c.p = "contUser" => d.p = "contAfter"
              /\ c.p = "contFails" => d.p = "terminate"
<1>1. /\ FlatRest(c) /\ c.p \in {"out", "userEnd", "contUser", "contFails"}
      /\ c.p = "out" => c.b = Telling /\ Tail(stack) = <<>>
      /\ c.p = "userEnd" => Tail(stack) = FlatBase(c)
      /\ c.p = "contUser" => Tail(stack) = FlatCont(c)
      /\ c.p = "contFails" => Tail(stack) = FlatFails(c)
  <2>1. FlatRest(c) /\ FlatNests(c) /\ stack = FlatStack(c)
    BY DEF FlatAt, FlatRest
  <2>2. c.p \in {"out", "userEnd", "contUser", "contFails"}
    BY <2>1, FlatPlace
  <2>3. c.p = "out" => c.b = Telling /\ Tail(stack) = <<>>
    BY <2>1, FlatTop, TellingIs DEF FlatContexts, Called
  <2>4. /\ c.p = "userEnd" => Tail(stack) = FlatBase(c)
        /\ c.p = "contUser" => Tail(stack) = FlatCont(c)
        /\ c.p = "contFails" => Tail(stack) = FlatFails(c)
    BY <2>1, FlatTop DEF Called
  <2> QED
    BY <2>1, <2>2, <2>3, <2>4
<1>2. open
  <2>1. Telling # <<>>
    BY TellingIs DEF Called
  <2> QED
    BY <1>1, <2>1 DEF FlatRest, FlatBegins
<1> DEFINE q == CASE c.p = "out" -> "out" [] c.p = "userEnd" -> "after"
                  [] c.p = "contUser" -> "contAfter" [] c.p = "contFails" -> "terminate"
           d == [c EXCEPT !.p = q, !.b = IF c.p = "out" THEN <<>> ELSE c.b]
<1>3. /\ d \in FlatContexts /\ d.n = c.n /\ d.h = c.h /\ d.g = c.g /\ d.e = c.e /\ d.f = c.f
      /\ c.p # "out" => d.b = c.b
      /\ c.p = "out" => d.b = <<>> /\ d.p = "out"
      /\ c.p = "userEnd" => d.p = "after"
      /\ c.p = "contUser" => d.p = "contAfter"
      /\ c.p = "contFails" => d.p = "terminate"
  BY <1>1 DEF FlatContexts, FlatPlaces, FlatContPlaces, FlatBasePlaces
<1> HIDE DEF d
<1>4. Tail(stack) = FlatStack(d)
  BY <1>1, <1>3 DEF FlatStack, FlatFails, FlatBase, FlatCont, FlatUnder, FlatBelow
<1>5. FlatBegins(d)
  <2>1. One(d.p = "next" /\ d.e = "value") = 0 /\ One(c.p = "next" /\ c.e = "value") = 0
    BY <1>1, <1>3 DEF One
  <2>2. d.p # "subscribing" /\ (d.p = "out" <=> c.p = "out") /\ awaited = {}
    BY <1>1, <1>2, <1>3 DEF FlatRest, FlatBegins
  <2>3. phase[1] # "new" /\ conts + One(d.p = "next" /\ d.e = "value") = yielded[1]
    BY <1>1, <1>2, <2>1 DEF FlatRest, FlatBegins
  <2> QED
    BY <1>1, <1>2, <2>2, <2>3 DEF FlatRest, FlatBegins
<1>6. FlatNests(d)
  <2>1. c.p = "out" => ~c.n /\ c.h = 0
    BY <1>1, FlatAtRest
  <2> QED
    BY <1>1, <1>3, <2>1 DEF FlatRest, FlatNests, FlatBasePlaces, FlatContPlaces
<1>7. FlatOver(d)
  <2>1. c.p = "contUser" => c.f = "value"
    BY <1>1 DEF FlatRest, FlatCurrent
  <2>2. d.b # Telling \/ (c.p # "out" /\ d.b = c.b)
    <3>1. Telling # <<>>
      BY TellingIs DEF Called
    <3> QED
      BY <1>1, <1>3, <3>1
  <2> QED
    BY <1>1, <1>3, <2>1, <2>2 DEF FlatRest, FlatOver
<1>8. FlatCurrent(d)
  BY <1>1, <1>3 DEF FlatRest, FlatCurrent, FlatOver
<1>9. FlatOwes(d)
  BY <1>1, <1>3 DEF FlatRest, FlatOwes
<1>10. FlatAsksOnce(d)
  <2>1. (FlatAsks(d) <=> FlatAsks(c)) /\ (FlatBaseRuns(d) <=> FlatBaseRuns(c))
    BY <1>1, <1>3 DEF FlatAsks, FlatBaseRuns, FlatBasePlaces
  <2>2. d.b # Telling \/ d.b = c.b
    <3>1. Telling # <<>>
      BY TellingIs DEF Called
    <3> QED
      BY <1>3, <3>1
  <2>3. d.p \notin {"next", "contSubscribing"}
    BY <1>1, <1>3
  <2> QED
    BY <1>1, <1>3, <2>1, <2>2, <2>3 DEF FlatRest, FlatAsksOnce
<1>11. FlatFlags(d)
  <2>1. FlatBaseRuns(d) <=> FlatBaseRuns(c)
    BY <1>1, <1>3 DEF FlatBaseRuns, FlatBasePlaces
  <2> QED
    BY <1>1, <1>3, <2>1 DEF FlatRest, FlatFlags, FlatContPlaces
<1>12. AnswersOnce(d.p \in {"userEnd", "contUser", "contFails"})
  BY <1>1, <1>3 DEF FlatRest, AnswersOnce
<1>13. FlatRest(d)
  BY <1>1, <1>5, <1>6, <1>7, <1>8, <1>9, <1>10, <1>11, <1>12 DEF FlatRest
<1> QED
  BY <1>1, <1>2, <1>3, <1>4, <1>13

\* A request of the subscriber.
LEMMA FlatRequestInv ==
  ASSUME IsFlatMap, NEW c \in FlatContexts, FlatRest(c),
         c.p \in {"out", "userEnd", "contUser", "contFails"}, open, Alive(1),
         NEW n \in Nat, 1 \in late => asked = got /\ n = 1,
         0 \notin Counts => n > 0, user = "single" => c.b # Telling, asked' = asked + n,
         FlatMapRequest(n, FlatStack(c)),
         UNCHANGED <<open, got, taken, ended, singleVars, otherVars>>
  PROVE  FlatInv'
<1>1. CASE cont = 0
  BY <1>1, FlatRequestBaseInv
<1>2. CASE cont # 0
  BY <1>2, FlatRequestContInv
<1> QED
  BY <1>1, <1>2

\* A step of the code of FlatMap or of the loop of a source.
LEMMA FlatStepInv ==
  ASSUME IsFlatMap, NEW c \in FlatContexts, FlatAt(c), StreamStep, UNCHANGED otherVars
  PROVE  FlatInv'
<1>1. /\ stack = FlatStack(c) /\ FlatRest(c) /\ kind = "flatmap" /\ 1 \in Sources
      /\ UNCHANGED singleVars /\ ~fault /\ Types /\ FlatNests(c) /\ FlatCurrent(c)
      /\ FlatOver(c)
      /\ c.g \in Sources /\ cont \in Sources \cup {0}
  BY Vocabulary DEF FlatAt, StreamStep, IsFlatMap, FlatRest, FlatContexts
<1>2. CASE \/ FlatMapOnSubscribe \/ FlatMapContSubscribed \/ FlatMapBaseEnds \/ FlatMapBaseValue
           \/ FlatMapValue \/ FlatMapContDone \/ FlatMapContFails \/ FlatMapTerminate
  BY <1>1, <1>2, FlatConfirmInv, FlatContSubscribedInv, FlatBaseEndsInv, FlatBaseValueInv,
     FlatValueInv, FlatContDoneInv, FlatContFailsInv, FlatTerminateInv
<1>3. CASE /\ SourceReturns(IF stack # <<>> /\ Top.gen = 1 THEN ActiveContinuation ELSE {})
           /\ UNCHANGED <<balance, lock, open, userVars, flatMapVars>>
  <2>1. IsTop("After") /\ stack # <<>>
    BY <1>3 DEF SourceReturns, IsTop
  <2>2. CASE Top.gen = 1
    <3>1. c.p = "after" /\ Called(stack, "After", 1, c.e, FlatBelow(c))
      BY <1>1, <2>1, <2>2, FlatPlace, FlatTop
    <3>2. SourceReturns(ActiveContinuation)
      BY <1>3, <2>1, <2>2
    <3>3. /\ UNCHANGED <<requested, generating, yielded, awaited, fault>>
          /\ \/ ~Alive(1) /\ phase' = phase /\ stack' = FlatBelow(c)
             \/ /\ Alive(1) /\ Base!IsEnd(c.e) /\ phase' = Deleted({1} \cup ActiveContinuation)
                /\ stack' = FlatBelow(c)
             \/ /\ Alive(1) /\ ~Base!IsEnd(c.e) /\ 1 \in late /\ phase' = phase
                /\ stack' = FlatBelow(c)
             \/ /\ Alive(1) /\ ~Base!IsEnd(c.e) /\ 1 \notin late /\ phase' = phase
                /\ stack' = Call("Loop", 1, "none", FlatBelow(c))
      BY <1>1, <3>1, <3>2, SourceReturnsIs
    <3>4. generating' \in [Sources -> BOOLEAN] /\ generating' = generating
      BY <1>1, <3>3 DEF Types
    <3>5. Base!IsEnd(c.e) => ended
      BY <1>1, <3>1 DEF FlatOver
    <3>6. Alive(1) /\ ~Base!IsEnd(c.e) => ~ended
      BY <1>1, <3>1 DEF FlatOver
    <3>7. CASE /\ Alive(1) /\ ~Base!IsEnd(c.e) /\ 1 \notin late /\ phase' = phase
               /\ stack' = Call("Loop", 1, "none", FlatBelow(c))
      BY <1>1, <1>3, <3>1, <3>3, <3>7, FlatGoesOnInv
    <3>8. CASE ~(/\ Alive(1) /\ ~Base!IsEnd(c.e) /\ 1 \notin late /\ phase' = phase
                 /\ stack' = Call("Loop", 1, "none", FlatBelow(c)))
      <4>1. stack' = FlatBelow(c)
        BY <3>3, <3>8
      <4>2. \/ phase' = phase /\ (Alive(1) => ~ended)
            \/ phase' = Deleted({1} \cup ActiveContinuation) /\ ended
        BY <3>3, <3>5, <3>6
      <4>3. phase' = phase /\ Alive(1) => 1 \in late
        <5>1. phase' = Deleted({1} \cup ActiveContinuation) => ~Alive(1)'
          BY <1>1, DeletedTypes DEF Alive, Base!Alive
        <5> QED
          BY <3>3, <3>8, <5>1 DEF Alive, Base!Alive
      <4> QED
        BY <1>1, <1>3, <3>1, <3>3, <3>4, <4>1, <4>2, <4>3, FlatBaseLeavesInv
    <3> QED
      BY <3>7, <3>8
  <2>3. CASE Top.gen # 1
    <3>1. c.p = "contAfter" /\ Called(stack, "After", c.g, c.f, FlatUnder(c))
      BY <1>1, <2>1, <2>3, FlatPlace, FlatTop
    <3>2. SourceReturns({}) /\ {c.g} \cup {} = {c.g}
      BY <1>3, <2>1, <2>3
    <3>3. /\ UNCHANGED <<requested, generating, yielded, awaited, fault>>
          /\ \/ ~Alive(c.g) /\ phase' = phase /\ stack' = FlatUnder(c)
             \/ /\ Alive(c.g) /\ Base!IsEnd(c.f) /\ phase' = Deleted({c.g})
                /\ stack' = FlatUnder(c)
             \/ /\ Alive(c.g) /\ ~Base!IsEnd(c.f) /\ c.g \in late /\ phase' = phase
                /\ stack' = FlatUnder(c)
             \/ /\ Alive(c.g) /\ ~Base!IsEnd(c.f) /\ c.g \notin late /\ phase' = phase
                /\ stack' = Call("Loop", c.g, "none", FlatUnder(c))
      BY <1>1, <3>1, <3>2, SourceReturnsIs
    <3>4. generating' \in [Sources -> BOOLEAN] /\ generating' = generating
      BY <1>1, <3>3 DEF Types
    <3>5. Alive(c.g) /\ Base!IsEnd(c.f) => c.f = "done" /\ c.g # cont
      <4>1. c.f \in {"value", "done", "error"} /\ c.g # 0
        BY <1>1, FlatUse, Vocabulary DEF FlatContexts
      <4>2. c.f = "error" => ~Alive(c.g)
        BY <1>1, <3>1, <4>1 DEF FlatOver, FlatCurrent
      <4>3. c.f = "done" => c.g # cont
        BY <1>1, <3>1 DEF FlatCurrent
      <4> QED
        BY <4>1, <4>2, <4>3, Statuses
    <3>6. CASE /\ Alive(c.g) /\ ~Base!IsEnd(c.f) /\ c.g \notin late /\ phase' = phase
               /\ stack' = Call("Loop", c.g, "none", FlatUnder(c))
      BY <1>1, <1>3, <3>1, <3>3, <3>6, FlatGoesOnInv
    <3>7. CASE ~(/\ Alive(c.g) /\ ~Base!IsEnd(c.f) /\ c.g \notin late /\ phase' = phase
                 /\ stack' = Call("Loop", c.g, "none", FlatUnder(c)))
      <4>1. stack' = FlatUnder(c)
        BY <3>3, <3>7
      <4>2. phase' = phase \/ (phase' = Deleted({c.g}) /\ c.g # cont)
        BY <3>3, <3>5
      <4>3. phase' = Deleted({c.g}) => phase'[c.g] # "alive"
        BY <1>1, DeletedTypes
      <4>4. c.f = "done" => phase'[c.g] # "alive"
        BY <3>3, <4>3, Statuses DEF Alive, Base!Alive
      <4>5. c.g = cont /\ Alive(cont) /\ cont \notin late => ~generating'[cont]
        BY <3>3, <3>5, <3>7
      <4> QED
        BY <1>1, <1>3, <3>1, <3>3, <3>4, <4>1, <4>2, <4>4, <4>5, FlatContLeavesInv
    <3> QED
      BY <3>6, <3>7
  <2> QED
    BY <2>2, <2>3
<1>4. CASE Generate /\ UNCHANGED <<balance, lock, open, userVars, flatMapVars>>
  <2>1. IsTop("Loop")
    BY <1>4, GenerateTop
  <2>2. CASE c.p = "loop"
    <3>1. Called(stack, "Loop", 1, "none", FlatBelow(c)) /\ Alive(1) /\ ~ended
      BY <1>1, <2>2, FlatTop DEF FlatCurrent
    <3>2. \/ \E ev \in Base!Events : Sends(1, ev, FlatBelow(c))
          \/ /\ ~HasRequests(requested[1])
             /\ generating' = [generating EXCEPT ![1] = FALSE]
             /\ stack' = FlatBelow(c)
             /\ UNCHANGED <<phase, requested, yielded, awaited, fault>>
      BY <1>1, <1>4, <3>1, GenerateIs
    <3>3. CASE \E ev \in Base!Events : Sends(1, ev, FlatBelow(c))
      BY <1>1, <1>4, <2>2, <3>3, FlatBaseSendsInv
    <3>4. CASE /\ ~HasRequests(requested[1])
               /\ generating' = [generating EXCEPT ![1] = FALSE]
               /\ stack' = FlatBelow(c)
               /\ UNCHANGED <<phase, requested, yielded, awaited, fault>>
      <4>1. requested[1] = 0
        <5>1. requested[1] \in Balance
          BY <1>1 DEF Types
        <5> QED
          BY <3>4, <5>1, Counting
      <4>2. /\ generating' \in [Sources -> BOOLEAN] /\ ~generating'[1]
            /\ \A k \in Sources \ {1} : generating'[k] = generating[k]
        BY <1>1, <3>4 DEF Types
      <4> QED
        BY <1>1, <1>4, <2>2, <3>1, <3>4, <4>1, <4>2, FlatBaseLeavesInv
    <3> QED
      BY <3>2, <3>3, <3>4
  <2>3. CASE c.p = "contLoop"
    <3>1. /\ Called(stack, "Loop", c.g, "none", FlatUnder(c)) /\ Alive(c.g) /\ c.g # 1
          /\ c.g = cont
      BY <1>1, <2>3, FlatTop DEF FlatCurrent, FlatNests, FlatContPlaces
    <3>2. \/ \E ev \in Base!Events : Sends(c.g, ev, FlatUnder(c))
          \/ /\ generating' = [generating EXCEPT ![c.g] = FALSE]
             /\ stack' = FlatUnder(c)
             /\ UNCHANGED <<phase, requested, yielded, awaited, fault>>
      BY <1>1, <1>4, <3>1, GenerateIs
    <3>3. CASE \E ev \in Base!Events : Sends(c.g, ev, FlatUnder(c))
      BY <1>1, <1>4, <2>3, <3>1, <3>3, FlatContSendsInv
    <3>4. CASE /\ generating' = [generating EXCEPT ![c.g] = FALSE]
               /\ stack' = FlatUnder(c)
               /\ UNCHANGED <<phase, requested, yielded, awaited, fault>>
      <4>1. /\ generating' \in [Sources -> BOOLEAN] /\ ~generating'[c.g]
            /\ \A k \in Sources \ {c.g} : generating'[k] = generating[k]
        BY <1>1, <3>4 DEF Types
      <4> QED
        BY <1>1, <1>4, <2>3, <3>1, <3>4, <4>1, FlatContLeavesInv
    <3> QED
      BY <3>2, <3>3, <3>4
  <2> QED
    BY <1>1, <2>1, <2>2, <2>3, FlatPlace
<1> QED
  BY <1>1, <1>2, <1>3, <1>4 DEF StreamStep, OnlyOf, FlatMapStep

\* A call returns and nothing else happens, except that the listener of Single is called.
LEMMA FlatStaysInv ==
  ASSUME NEW d \in FlatContexts, FlatRest(d), stack' = FlatStack(d),
         UNCHANGED <<phase, requested, generating, yielded, awaited, fault, balance, lock, open,
                     asked, got, taken, ended, cancelled, cont, contRequested, conts, late, kind,
                     user>>,
         \/ answers' = answers
         \/ answers' \in Nat /\ AnswersOnce(d.p \in {"userEnd", "contUser", "contFails"})'
  PROVE  FlatInv'
<1>1. Types' /\ AnswersOnce(d.p \in {"userEnd", "contUser", "contFails"})'
  BY DEF FlatRest, Types, AnswersOnce
<1>2. FlatBegins(d)' /\ FlatNests(d)' /\ FlatCurrent(d)' /\ FlatOver(d)'
  BY DEF FlatRest, FlatBegins, FlatNests, FlatCurrent, FlatOver, Alive, Base!Alive
<1>3. FlatOwes(d)' /\ FlatAsksOnce(d)' /\ FlatFlags(d)'
  BY DEF FlatRest, FlatOwes, FlatAsksOnce, FlatFlags, FlatAsks, FlatBaseRuns, Alive, Base!Alive
<1>4. FlatAt(d)'
  BY <1>1, <1>2, <1>3
     DEF FlatAt, FlatRest, FlatStack, FlatFails, FlatBase, FlatCont, FlatUnder, FlatBelow
<1> QED
  BY <1>4 DEF FlatInv

\* A step of the subscriber.
LEMMA FlatUserInv ==
  ASSUME IsFlatMap, NEW c \in FlatContexts, FlatAt(c), UNCHANGED otherVars,
         UserSubscribes \/ UserRequests \/ UserCancels \/ Returns
  PROVE  FlatInv'
<1>1. /\ stack = FlatStack(c) /\ FlatRest(c) /\ kind = "flatmap" /\ kind \in Kinds
      /\ ~fault /\ Types /\ FlatNests(c)
      /\ "flatmap" \notin CancelsInEnd /\ Telling # <<>>
  BY TellingIs DEF FlatAt, IsFlatMap, FlatRest, CarefulUse, Setting, Called
<1>2. CASE UserSubscribes
  <2>1. /\ stack = <<>> /\ phase[1] = "new" /\ awaited = {} /\ FlatMapSubscribe
        /\ UNCHANGED <<lock, singleVars>>
    BY <1>1, <1>2 DEF UserSubscribes, MaySubscribe, OnlyOf
  <2> QED
    BY <2>1, FlatSubscribeInv
<1>3. CASE UserRequests
  <2>1. PICK n \in Counts : MayAsk(n) /\ Request(n, stack)
    BY <1>3 DEF UserRequests
  <2>2. /\ UserActive /\ open /\ Alive(1) /\ UNCHANGED singleVars /\ n \in Nat
        /\ user = "free"
        /\ 0 \notin Counts => n > 0
    <3>1. n \in Nat
      BY CountsAre
    <3> QED
      BY <1>1, <1>3, <3>1 DEF UserRequests, StreamAlive
  <2>3. /\ asked' = asked + n /\ FlatMapRequest(n, FlatStack(c))
        /\ UNCHANGED <<open, got, taken, ended>>
    BY <1>1, <2>1 DEF Request, OnlyOf
  <2>4. 1 \in late => asked = got /\ n = 1
    BY <1>1, <2>1, FlatUse DEF MayAsk
  <2>5. c.p \in {"out", "userEnd", "contUser", "contFails"}
    BY <1>1, <2>2, FlatPlace
  <2> HIDE <2>1
  <2> QED
    BY <1>1, <2>2, <2>3, <2>4, <2>5, FlatRequestInv
<1>4. CASE UserCancels
  <2>1. /\ UserActive /\ open /\ Alive(1) /\ cancelled' = TRUE /\ FlatMapCancel(FlatStack(c))
        /\ UNCHANGED <<open, userVars>> /\ answers' = answers /\ user = "free" /\ user' = user
        /\ ~ended
    BY <1>1, <1>4 DEF UserCancels, Cancel, OnlyOf, otherVars, StreamAlive
  <2>2. c.p \in {"out", "contUser"}
    BY <1>1, <2>1, FlatPlace DEF FlatRest, FlatOver
  <2>3. answers' \in Nat /\ AnswersOnce(c.p \in {"userEnd", "contUser", "contFails"})'
    BY <1>1, <2>1 DEF Types, AnswersOnce
  <2>4. cancelled' \in BOOLEAN /\ (cancelled' \/ ended) /\ user # "single"
    BY <2>1
  <2> QED
    BY <1>1, <2>1, <2>2, <2>3, <2>4, FlatCancelInv
<1>5. ASSUME stack # <<>>, UserActive
      PROVE  /\ open
             /\ c.p = "out" => c.b = Telling
             /\ \E d \in FlatContexts :
                  /\ FlatRest(d) /\ Tail(stack) = FlatStack(d)
                  /\ d.n = c.n /\ d.h = c.h /\ d.g = c.g /\ d.e = c.e /\ d.f = c.f
                  /\ c.p # "out" => d.b = c.b
                  /\ c.p = "out" => d.b = <<>> /\ d.p = "out"
                  /\ c.p = "userEnd" => d.p = "after"
                  /\ c.p = "contUser" => d.p = "contAfter"
                  /\ c.p = "contFails" => d.p = "terminate"
  BY <1>5, FlatPopped
<1>6. CASE UserReturns
  <2>1. /\ stack # <<>> /\ UserActive /\ stack' = Tail(stack)
        /\ UNCHANGED <<sourceVars, fault, balance, lock, open, userVars, singleVars, flatMapVars>>
    BY <1>6 DEF UserReturns
  <2>2. PICK d \in FlatContexts : FlatRest(d) /\ Tail(stack) = FlatStack(d)
    BY <1>5, <2>1
  <2>3. UNCHANGED <<phase, requested, generating, yielded, awaited, fault, balance, lock, open,
                    asked, got, taken, ended, cancelled, answers, cont, contRequested, conts,
                    late, kind, user>>
    BY <2>1 DEF sourceVars, userVars, singleVars, flatMapVars, otherVars, settings
  <2> QED
    BY <2>1, <2>2, <2>3, FlatStaysInv
<1>7. CASE SingleOnSubscribe
  <2>1. /\ user = "single" /\ IsTop("UserOnSubscribe") /\ Request(1, Tail(stack))
        /\ UNCHANGED singleVars
    BY <1>7 DEF SingleOnSubscribe
  <2>2. stack # <<>> /\ UserActive /\ c.p = "out" /\ c.b = Telling
    BY <1>1, <2>1, FlatPlace DEF IsTop, UserActive
  <2>3. PICK d \in FlatContexts :
          /\ FlatRest(d) /\ Tail(stack) = FlatStack(d) /\ d.p = "out" /\ d.b = <<>> /\ open
    BY <1>5, <2>2
  <2>4. /\ asked' = asked + 1 /\ FlatMapRequest(1, FlatStack(d))
        /\ UNCHANGED <<open, got, taken, ended>>
    BY <1>1, <2>1, <2>3 DEF Request, OnlyOf
  <2>5. ~ended /\ Alive(1)
    BY <1>1, <2>1, <2>2, <2>3 DEF FlatRest, FlatOver
  <2>6. 1 \in late => asked = got
    <3>1. 1 \in late => asked = 0 /\ balance = asked - got
      BY <1>1, <2>1, <2>2, <2>5 DEF FlatRest, FlatAsksOnce
    <3>2. balance \in Nat /\ got \in Nat
      BY <1>1, Counting DEF Types
    <3> QED
      BY <3>1, <3>2
  <2>7. 1 \in Nat /\ 1 > 0 /\ d.b # Telling
    BY <1>1, <2>3
  <2> QED
    BY <2>1, <2>3, <2>4, <2>5, <2>6, <2>7, FlatRequestInv
<1>8. CASE SingleOnNext
  <2>1. /\ user = "single" /\ IsTop("UserOnNext") /\ answers' = answers + Answers(Top.ev)
    BY <1>8 DEF SingleOnNext
  <2>2. stack # <<>> /\ UserActive /\ c.p \in {"userEnd", "contUser", "contFails"}
    BY <1>1, <2>1, FlatPlace DEF IsTop, UserActive
  <2>3. /\ c.p = "userEnd" => Base!IsEnd(c.e) /\ Top.ev = c.e /\ ended
        /\ c.p = "contUser" => Top.ev = "value" /\ c.f = "value" /\ ~ended
        /\ c.p = "contFails" => Top.ev = "error" /\ ended
    <3>1. /\ c.p = "userEnd" => Top.ev = c.e
          /\ c.p \in {"contUser", "contFails"} => Top.ev = c.f
      BY <1>1, FlatTop DEF Called, Top
    <3>2. /\ c.p = "userEnd" => Base!IsEnd(c.e) /\ ended
          /\ c.p = "contUser" => c.f = "value" /\ ~ended
          /\ c.p = "contFails" => c.f = "error" /\ ended
      BY <1>1 DEF FlatRest, FlatOver, FlatCurrent
    <3> QED
      BY <3>1, <3>2
  <2>4. answers = 0 /\ answers' = 1
    <3>1. answers = 0
      BY <1>1, <2>1, <2>2 DEF FlatRest, AnswersOnce, Types
    <3> QED
      BY <2>1, <3>1 DEF Answers
  <2>5. PICK d \in FlatContexts :
          /\ FlatRest(d) /\ Tail(stack) = FlatStack(d)
          /\ d.f = c.f
          /\ c.p = "userEnd" => d.p = "after"
          /\ c.p = "contUser" => d.p = "contAfter"
          /\ c.p = "contFails" => d.p = "terminate"
          /\ open
    BY <1>5, <2>2
  <2>6. d.p \notin {"userEnd", "contUser", "contFails"}
    BY <2>2, <2>5
  <2>7. CASE Top.ev = "value" /\ Alive(1)
    <3>1. c.p = "contUser"
      BY <2>2, <2>3, <2>7, Statuses
    <3>2. /\ cancelled' = TRUE /\ FlatMapCancel(FlatStack(d)) /\ UNCHANGED <<open, userVars>>
      BY <1>1, <1>8, <2>5, <2>7 DEF SingleOnNext, CancelsAfter, StreamAlive, Cancel, OnlyOf
    <3>3. answers' \in Nat /\ AnswersOnce(d.p \in {"userEnd", "contUser", "contFails"})'
      BY <2>4, <2>6, <3>2 DEF AnswersOnce
    <3>4. d.p = "contAfter" /\ d.f = "value" /\ ~ended
      BY <2>3, <2>5, <3>1
    <3>5. cancelled' \in BOOLEAN /\ (cancelled' \/ ended)
      BY <3>2
    <3> QED
      BY <2>5, <2>7, <3>2, <3>3, <3>4, <3>5, FlatCancelInv
  <2>8. CASE ~(Top.ev = "value" /\ Alive(1))
    <3>1. /\ stack' = Tail(stack)
          /\ UNCHANGED <<sourceVars, fault, balance, lock, open, userVars, cancelled, flatMapVars>>
      BY <1>1, <1>8, <2>8 DEF SingleOnNext, CancelsAfter, StreamAlive
    <3>2. UNCHANGED <<phase, requested, generating, yielded, awaited, fault, balance, lock, open,
                      asked, got, taken, ended, cancelled, cont, contRequested, conts, late,
                      kind, user>>
      BY <3>1 DEF sourceVars, userVars, flatMapVars, otherVars, settings
    <3>3. ended \/ cancelled
      BY <1>1, <2>2, <2>3, <2>5, <2>8 DEF FlatRest, FlatOver
    <3>4. answers' \in Nat /\ AnswersOnce(d.p \in {"userEnd", "contUser", "contFails"})'
      BY <2>4, <2>6, <3>2, <3>3 DEF AnswersOnce
    <3> QED
      BY <2>5, <3>1, <3>2, <3>4, FlatStaysInv
  <2> QED
    BY <2>7, <2>8
<1> QED
  BY <1>2, <1>3, <1>4, <1>6, <1>7, <1>8 DEF Returns

\* A step of a late source.
LEMMA FlatLateInv ==
  ASSUME IsFlatMap, NEW c \in FlatContexts, FlatAt(c), UNCHANGED otherVars,
         NEW g \in Sources, LateStep(g)
  PROVE  FlatInv'
<1>1. /\ stack = FlatStack(c) /\ FlatRest(c) /\ FlatNests(c) /\ Types
      /\ UNCHANGED <<balance, lock, open, userVars, singleVars, flatMapVars>>
  BY DEF FlatAt, FlatRest, LateStep
<1>2. CASE LateSubscribe(g)
  BY <1>1, <1>2, FlatLateSubscribeInv
<1>3. CASE LateOnNext(g)
  <2>1. PICK ev \in Base!Events : Sends(g, ev, <<>>)
    BY <1>1, <1>3, LateOnNextIs
  <2>2. stack = <<>> /\ g \in late /\ Alive(g)
    BY <1>1, <1>3, LateOnNextIs
  <2>3. c.p = "out" /\ c.b = <<>>
    BY <1>1, <2>2, FlatPlace
  <2>4. FlatBelow(c) = <<>> /\ FlatUnder(c) = <<>>
    BY <1>1, <2>3, FlatAtRest
  <2>5. CASE g = 1
    BY <1>1, <2>1, <2>2, <2>3, <2>4, <2>5, FlatBaseSendsInv
  <2>6. CASE g # 1
    BY <1>1, <2>1, <2>2, <2>3, <2>4, <2>6, FlatContSendsInv
  <2> QED
    BY <2>5, <2>6
<1> QED
  BY <1>2, <1>3 DEF LateStep

\* FlatMap keeps its invariant.
LEMMA FlatNext ==
  ASSUME IsFlatMap, FlatInv, [Next]_vars
  PROVE  FlatInv'
<1>1. PICK c \in FlatContexts : FlatAt(c)
  BY DEF FlatInv
<1>2. CASE UNCHANGED vars
  <2>1. UNCHANGED <<stack, phase, requested, generating, yielded, awaited, fault, balance, lock,
                    open, asked, got, taken, ended, cancelled, answers, cont, contRequested,
                    conts, late, kind, user>>
    BY <1>2
       DEF vars, streamVars, sourceVars, userVars, flatMapVars, singleVars, otherVars,
           settings
  <2>2. FlatRest(c) /\ stack' = FlatStack(c)
    BY <1>1, <2>1 DEF FlatAt
  <2> QED
    BY <2>1, <2>2, FlatStaysInv
<1>3. CASE /\ UserSubscribes \/ UserRequests \/ UserCancels \/ Returns \/ StreamStep
              \/ \E g \in Sources : LateStep(g)
           /\ UNCHANGED otherVars
  BY <1>1, <1>3, FlatStepInv, FlatUserInv, FlatLateInv
<1> QED
  BY <1>2, <1>3 DEF Next, Terminated

\* At the start nothing executes.
LEMMA FlatStarts ==
  ASSUME Init, kind = "flatmap", CarefulUse
  PROVE  IsFlatMap /\ FlatInv
<1>1. IsFlatMap
  BY PipelineAssumption, OperatorsAssumption DEF Init, PipelineInit, IsFlatMap, Setting
<1>2. /\ phase = [g \in Sources |-> "new"] /\ requested = [g \in Sources |-> 0]
      /\ generating = [g \in Sources |-> FALSE] /\ yielded = [g \in Sources |-> 0]
      /\ taken = [g \in Sources |-> 0] /\ stack = <<>> /\ ~fault /\ fault \in BOOLEAN
      /\ awaited = {} /\ balance = 0 /\ ~lock /\ ~open /\ asked = 0 /\ got = 0 /\ ~ended
      /\ ~cancelled /\ answers = 0 /\ cont = 0 /\ contRequested = 0 /\ conts = 0
      /\ {lock, open, ended, cancelled} \subseteq BOOLEAN
  BY DEF Init, PipelineInit, Base!Init, FlatMapInit
<1>3. /\ 1 \in Sources /\ 0 \notin Sources /\ Sources \subseteq Nat /\ MaxElems \in Nat
      /\ 0 \in Balance /\ 0 \in Nat
  BY <1>1, FlatUse, Vocabulary, PipelineAssumption, KMaxAssumption DEF Balance
<1>4. PICK c \in FlatContexts : c.p = "out" /\ c.b = <<>> /\ ~c.n /\ c.h = 0
  <2>1. [p |-> "out", b |-> <<>>, h |-> 0, n |-> FALSE, e |-> "done", g |-> 1, f |-> "done"]
          \in FlatContexts
    BY <1>3 DEF FlatContexts, FlatPlaces, Base!Events
  <2> QED
    BY <2>1
<1>5. stack = FlatStack(c)
  BY <1>2, <1>4 DEF FlatStack
<1>6. Types
  BY <1>2, <1>3 DEF Types
<1>7. FlatBegins(c)
  <2>1. One(c.p = "next" /\ c.e = "value") = 0
    BY <1>4 DEF One
  <2>2. \A k \in Sources \ {1} : k > 1
    BY <1>3
  <2> QED
    BY <1>2, <1>3, <1>4, <2>1, <2>2 DEF FlatBegins
<1>8. /\ FlatNests(c) /\ FlatCurrent(c) /\ FlatOver(c) /\ FlatOwes(c) /\ FlatAsksOnce(c)
      /\ FlatFlags(c)
  <2>1. \A k \in Sources : ~Alive(k)
    BY <1>2 DEF Alive, Base!Alive
  <2>2. Telling # <<>>
    BY TellingIs DEF Called
  <2> QED
    BY <1>2, <1>3, <1>4, <2>1, <2>2
       DEF FlatNests, FlatCurrent, FlatOver, FlatOwes, FlatAsksOnce, FlatFlags,
           FlatContPlaces,
           FlatBasePlaces
<1>9. FlatAt(c)
  BY <1>2, <1>3, <1>5, <1>6, <1>7, <1>8 DEF FlatAt, FlatRest, AnswersOnce
<1> QED
  BY <1>1, <1>9 DEF FlatInv

-----------------------------------------------------------------------------
(* The theorems.                                                             *)

\* The invariant of the operator that the stream is.
IInv == /\ Setting
        /\ kind = "concat" => ConcatInv
        /\ kind = "prefetch" => PrefetchInv
        /\ kind = "flatmap" => FlatInv

\* The stream is one of the operators, and its invariant holds.
LEMMA OneOfThree ==
  ASSUME CarefulUse, IInv
  PROVE  \/ IsConcat /\ ConcatInv
         \/ IsPrefetch /\ PrefetchInv
         \/ IsFlatMap /\ FlatInv
<1>1. kind \in Kinds /\ kind \in {"concat", "prefetch", "flatmap"}
  BY PipelineAssumption DEF IInv, Setting
<1>2. kind = "concat" => IsConcat
  BY <1>1, PipelineAssumption DEF IInv, IsConcat
<1>3. (kind = "prefetch" => IsPrefetch) /\ (kind = "flatmap" => IsFlatMap)
  BY DEF IInv, IsPrefetch, IsFlatMap
<1> QED
  BY <1>1, <1>2, <1>3 DEF IInv

\* Every step keeps it.
LEMMA Invariance ==
  ASSUME CarefulUse
  PROVE  Spec => []IInv
<1>1. Init => IInv
  <2> SUFFICES ASSUME Init PROVE IInv
    OBVIOUS
  <2>1. kind \in {"concat", "prefetch", "flatmap"}
    BY PipelineAssumption DEF Init, PipelineInit
  <2>2. CASE kind = "concat"
    BY <2>2, ConcatStarts DEF IInv, IsConcat
  <2>3. CASE kind = "prefetch"
    BY <2>3, PrefetchStarts DEF IInv, IsPrefetch
  <2>4. CASE kind = "flatmap"
    BY <2>4, FlatStarts DEF IInv, IsFlatMap
  <2> QED
    BY <2>1, <2>2, <2>3, <2>4
<1>2. IInv /\ [Next]_vars => IInv'
  <2> SUFFICES ASSUME IInv, [Next]_vars PROVE IInv'
    OBVIOUS
  <2>1. UNCHANGED <<kind, late, user>>
    BY DEF Next, Terminated, vars, otherVars, settings
  <2>2. Setting'
    BY <2>1 DEF IInv, Setting
  <2>3. CASE IsConcat /\ ConcatInv
    BY <2>1, <2>2, <2>3, ConcatNext DEF IInv, IsConcat
  <2>4. CASE IsPrefetch /\ PrefetchInv
    BY <2>1, <2>2, <2>4, PrefetchNext DEF IInv, IsPrefetch
  <2>5. CASE IsFlatMap /\ FlatInv
    BY <2>1, <2>2, <2>5, FlatNext DEF IInv, IsFlatMap
  <2> QED
    BY <2>3, <2>4, <2>5, OneOfThree
<1> QED
  BY <1>1, <1>2, PTL DEF Spec

\* No RX_CHECK fails and no deleted stream is used: between any sources, answering at
\* once or late, and any careful subscriber the calls of Prefetch, Concat and FlatMap
\* nest without harm.
THEOREM NothingFails ==
  ASSUME CarefulUse
  PROVE  Spec => []NoFault
<1>1. IInv => NoFault
  <2> SUFFICES ASSUME IInv PROVE NoFault
    OBVIOUS
  <2>1. CASE ConcatInv
    BY <2>1 DEF ConcatInv, ConcatAt, ConcatRest, NoFault
  <2>2. CASE PrefetchInv
    BY <2>2 DEF PrefetchInv, PrefetchAt, PrefetchRest, NoFault
  <2>3. CASE FlatInv
    BY <2>3 DEF FlatInv, FlatAt, FlatRest, NoFault
  <2> QED
    BY <2>1, <2>2, <2>3, OneOfThree
<1> QED
  BY <1>1, Invariance, PTL

\* When nothing executes and the stream is over, by its end or by Cancel, none of its
\* sources is left: neither those that were, nor one that was subscribed to and is late.
\* The stream itself is left only if it is a Concat that was cancelled before its end.
THEOREM NothingIsLeft ==
  ASSUME CarefulUse
  PROVE  Spec => []NoSourceLeft
<1>1. ASSUME IInv, stack = <<>>, ended \/ cancelled, NEW g \in Sources
      PROVE  ~Alive(g) /\ g \notin awaited
  <2>1. CASE IsConcat /\ ConcatInv
    <3>1. PICK c \in ConcatContexts : ConcatAt(c)
      BY <2>1 DEF ConcatInv
    <3>2. c.p = "out" /\ ConcatRest(c)
      BY <1>1, <2>1, <3>1, ConcatPlace DEF ConcatAt, IsConcat
    <3>3. open /\ awaited = {} /\ ~Alive(upstream)
      BY <1>1, <3>2 DEF ConcatRest, ConcatOver, ConcatBegins
    <3>4. upstream = (IF runningFirst THEN 1 ELSE 2) /\ (~runningFirst => ~Alive(1))
      BY <3>2, <3>3 DEF ConcatRest, ConcatCurrent, HandedOver
    <3>5. ~Alive(1) /\ ~Alive(2)
      BY <3>2, <3>3, <3>4 DEF ConcatRest, ConcatBegins, Alive, Base!Alive
    <3> QED
      BY <3>2, <3>3, <3>5 DEF ConcatRest, ConcatBegins, Alive, Base!Alive
  <2>2. CASE IsPrefetch /\ PrefetchInv
    <3>1. PICK c \in PrefetchContexts : PrefetchAt(c)
      BY <2>2 DEF PrefetchInv
    <3>2. c.p = "out" /\ PrefetchRest(c)
      BY <1>1, <3>1, PrefetchPlace DEF PrefetchAt
    <3>3. open /\ awaited = {} /\ ended
      BY <1>1, <3>2 DEF PrefetchRest, PrefetchOver, PrefetchBegins
    <3>4. ~Alive(1)
      BY <3>2, <3>3 DEF PrefetchRest, PrefetchOver, EndBelow, PrefetchSends
    <3> QED
      BY <3>2, <3>3, <3>4 DEF PrefetchRest, PrefetchBegins, Alive, Base!Alive
  <2>3. CASE IsFlatMap /\ FlatInv
    <3>1. PICK c \in FlatContexts : FlatAt(c)
      BY <2>3 DEF FlatInv
    <3>2. c.p = "out" /\ FlatRest(c)
      BY <1>1, <3>1, FlatPlace DEF FlatAt, FlatRest
    <3>3. open /\ awaited = {} /\ ~Alive(1)
      BY <1>1, <3>2, FlatAtRest DEF FlatRest, FlatOver, FlatBegins
    <3> QED
      BY <2>3, <3>2, <3>3, FlatAtRest, FlatUse DEF FlatRest, FlatCurrent
  <2> QED
    BY <1>1, <2>1, <2>2, <2>3, OneOfThree
<1>2. ASSUME IInv, stack = <<>>, ended \/ cancelled, StreamAlive
      PROVE  kind = "concat" /\ cancelled /\ ~ended
  <2>1. \A g \in Sources : ~Alive(g) /\ g \notin awaited
    BY <1>1, <1>2
  <2>2. CASE IsConcat /\ ConcatInv
    <3>1. PICK c \in ConcatContexts : ConcatAt(c)
      BY <2>2 DEF ConcatInv
    <3>2. c.p = "out" /\ ConcatRest(c)
      BY <1>2, <2>2, <3>1, ConcatPlace DEF ConcatAt, IsConcat
    <3>3. ended => ~lock
      BY <3>2 DEF ConcatRest, ConcatOver
    <3>4. lock
      BY <1>2, <2>1, <2>2, <3>2
         DEF StreamAlive, SharedAlive, IsConcat, ConcatRest, Types
    <3> QED
      BY <1>2, <2>2, <3>3, <3>4 DEF IsConcat
  <2>3. CASE IsPrefetch /\ PrefetchInv
    <3>1. PICK c \in PrefetchContexts : PrefetchAt(c)
      BY <2>3 DEF PrefetchInv
    <3>2. c.p = "out" /\ PrefetchRest(c)
      BY <1>2, <3>1, PrefetchPlace DEF PrefetchAt
    <3>3. ~lock
      BY <1>2, <3>2 DEF PrefetchRest, PrefetchOver, PrefetchBegins
    <3> QED
      BY <1>2, <2>1, <2>3, <3>2, <3>3
         DEF StreamAlive, SharedAlive, IsPrefetch, PrefetchRest, Types
  <2>4. CASE IsFlatMap /\ FlatInv
    BY <1>2, <2>1, <2>4, PipelineAssumption DEF StreamAlive, IsFlatMap
  <2> QED
    BY <1>2, <2>2, <2>3, <2>4, OneOfThree
<1>3. IInv => NoSourceLeft
  BY <1>1, <1>2 DEF NoSourceLeft
<1> QED
  BY <1>3, Invariance, PTL

\* What the subscriber is owed is what the current source was asked for and owes: no
\* request is lost or doubled when Concat switches and from continuation to continuation.
THEOREM NoRequestIsLost ==
  ASSUME CarefulUse
  PROVE  Spec => []OwedIsRequested
<1>1. IInv => RollsOver
  <2> SUFFICES ASSUME IInv, kind = "concat", upstream # 0, Alive(upstream), ~ended,
                      ~IsTop("OnNext")
               PROVE  balance = requested[upstream]
    BY DEF RollsOver
  <2>1. PICK c \in ConcatContexts : ConcatAt(c)
    BY DEF IInv, ConcatInv
  <2>2. {1, 2} \subseteq Sources
    BY PipelineAssumption DEF IInv, Setting
  <2>3. c.p # "next"
    BY <2>1, <2>2, ConcatTop DEF ConcatAt, Called, IsTop, Top
  <2> QED
    BY <2>1, <2>3 DEF ConcatAt, ConcatRest, ConcatOwes
<1>2. IInv => BalanceForwarded
  <2> SUFFICES ASSUME IInv, kind = "flatmap", cont # 0, Alive(cont), ~ended, ~IsTop("OnNext")
               PROVE  balance = contRequested /\ contRequested = requested[cont]
    BY DEF BalanceForwarded
  <2>1. PICK c \in FlatContexts : FlatAt(c)
    BY DEF IInv, FlatInv
  <2>2. c.p # "contNext"
    BY <2>1, FlatTop DEF FlatAt, Called, IsTop, Top
  <2> QED
    BY <2>1, <2>2 DEF FlatAt, FlatRest, FlatOwes
<1> QED
  BY <1>1, <1>2, Invariance, PTL DEF OwedIsRequested

\* The listener of Single is called at most once by a Concat or a FlatMap, which is
\* cancelled in the middle of its OnNext. The safety part of SingleAnsweredOnce.
THEOREM AtMostOneAnswer ==
  ASSUME CarefulUse
  PROVE  Spec => [](user = "single" => answers <= 1)
<1>1. IInv => (user = "single" => answers <= 1)
  <2> SUFFICES ASSUME IInv, user = "single" PROVE answers <= 1
    OBVIOUS
  <2>1. CASE ConcatInv
    BY <2>1 DEF ConcatInv, ConcatAt, ConcatRest, AnswersOnce
  <2>2. CASE IsPrefetch
    BY <2>2 DEF IsPrefetch, CarefulUse, Setting
  <2>3. CASE FlatInv
    BY <2>3 DEF FlatInv, FlatAt, FlatRest, AnswersOnce
  <2> QED
    BY <2>1, <2>2, <2>3, OneOfThree
<1> QED
  BY <1>1, Invariance, PTL

\* Call op of g with e is in the stack s.
Inside(s, op, g, e) == \E i \in DOMAIN s : s[i].op = op /\ s[i].gen = g /\ s[i].ev = e

\* What is in a stack stays there below a call.
LEMMA StaysInside ==
  ASSUME NEW s, NEW o, NEW h, NEW d, NEW rest, Called(s, o, h, d, rest)
  PROVE  /\ Inside(s, o, h, d)
         /\ \A op, g, e : Inside(rest, op, g, e) => Inside(s, op, g, e)
<1>1. s \in Seq(Frames) /\ s # <<>> /\ Tail(s) = rest
      /\ Head(s).op = o /\ Head(s).gen = h /\ Head(s).ev = d
  BY DEF Called
<1>2. 1 \in DOMAIN s /\ s[1] = Head(s)
  BY <1>1
<1>3. \A i \in DOMAIN rest : i + 1 \in DOMAIN s /\ s[i + 1] = rest[i]
  BY <1>1
<1> QED
  BY <1>1, <1>2, <1>3 DEF Inside

\* The continuation whose OnNext(done) asked the base executes as long as the base does.
LEMMA HandedOnInside ==
  ASSUME NEW c \in FlatContexts, FlatAt(c), c.h # 0
  PROVE  Inside(stack, "After", c.h, "done")
<1>1. /\ stack = FlatStack(c) /\ c.h \in Gens0 /\ (c.p \in FlatBasePlaces \/ c.n)
      /\ c.n => c.p \in FlatContPlaces \cup {"contSubscribing"}
  BY DEF FlatAt, FlatRest, FlatNests, FlatContexts, Gens0
<1>2. Called(FlatBelow(c), "After", c.h, "done", c.b)
  BY <1>1, FlatBelowIs, Vocabulary, CallTop DEF FlatBelow
<1>3. Inside(FlatBelow(c), "After", c.h, "done")
  BY <1>2, StaysInside
<1>4. CASE c.p \in FlatBasePlaces
  <2>1. Called(FlatBase(c), "After", 1, c.e, FlatBelow(c))
    BY FlatBelowIs
  <2>2. Inside(FlatBase(c), "After", c.h, "done")
    BY <1>3, <2>1, StaysInside
  <2>3. \/ Called(stack, "Loop", 1, "none", FlatBelow(c))
        \/ Called(stack, "OnNext", 1, c.e, FlatBase(c))
        \/ Called(stack, "UserOnNext", 1, c.e, FlatBase(c))
        \/ Called(stack, "After", 1, c.e, FlatBelow(c))
    BY <1>1, <1>4, FlatTop DEF FlatBasePlaces
  <2> QED
    BY <1>3, <2>2, <2>3, StaysInside
<1>5. CASE c.n
  <2>1. Called(FlatUnder(c), "After", 1, "value", FlatBelow(c))
    <3>1. "value" \in Words /\ 1 \in Gens0 /\ "After" \in AllOps
      BY Vocabulary DEF Gens0
    <3> QED
      BY <1>5, <3>1, FlatBelowIs, CallTop DEF FlatUnder
  <2>2. Inside(FlatUnder(c), "After", c.h, "done")
    BY <1>3, <2>1, StaysInside
  <2>3. Inside(FlatCont(c), "After", c.h, "done")
    BY <2>2, FlatBelowIs, StaysInside
  <2>4. Inside(FlatFails(c), "After", c.h, "done")
    BY <2>3, FlatBelowIs, StaysInside
  <2>5. \/ Called(stack, "OnSubscribe", c.g, "none", FlatUnder(c))
        \/ Called(stack, "Loop", c.g, "none", FlatUnder(c))
        \/ Called(stack, "OnNext", c.g, c.f, FlatCont(c))
        \/ Called(stack, "UserOnNext", c.g, c.f, FlatCont(c))
        \/ Called(stack, "UserOnNext", c.g, c.f, FlatFails(c))
        \/ Called(stack, "Terminate", 0, "none", FlatCont(c))
        \/ Called(stack, "After", c.g, c.f, FlatUnder(c))
    BY <1>1, <1>5, FlatTop DEF FlatContPlaces
  <2> QED
    BY <2>2, <2>3, <2>4, <2>5, StaysInside
<1> QED
  BY <1>1, <1>4, <1>5

\* A continuation that runs, not counting one whose end is being handled, is the current
\* one or the one that just calls OnSubscribe.
LEMMA WhoRuns ==
  ASSUME IsFlatMap, NEW c \in FlatContexts, FlatAt(c), NEW k \in Sources \ {1}, Running(k)
  PROVE  /\ k = cont \/ (c.p = "contSubscribing" /\ k = c.g)
         /\ Alive(1)
<1>1. FlatRest(c) /\ stack = FlatStack(c) /\ 0 \notin Sources
  BY FlatUse DEF FlatAt
<1>2. Alive(k) /\ ~Inside(stack, "After", k, "done")
  <2>1. k \notin awaited
    BY <1>1 DEF FlatRest, FlatBegins
  <2> QED
    BY <2>1, Statuses DEF Running, Inside
<1>3. \/ k = cont \/ k = c.h
      \/ k = c.g /\ (c.p = "contSubscribing" \/ (c.p = "contAfter" /\ c.f = "done"))
  BY <1>1, <1>2 DEF FlatRest, FlatCurrent
<1>4. k # c.h
  BY <1>1, <1>2, HandedOnInside
<1>5. ~(k = c.g /\ c.p = "contAfter" /\ c.f = "done")
  <2>1. ASSUME k = c.g, c.p = "contAfter", c.f = "done"
        PROVE  Inside(stack, "After", k, "done")
    BY <1>1, <2>1, FlatTop, StaysInside
  <2> QED
    BY <1>2, <2>1
<1>6. (k = cont => Alive(1)) /\ (c.p = "contSubscribing" => Alive(1))
  BY <1>1, <1>2 DEF FlatRest, FlatCurrent
<1> QED
  BY <1>3, <1>4, <1>5, <1>6

\* FlatMap owns what it makes: no continuation outlives the base, which owns the stream
\* that its handler captured; no two continuations run; and no value of the base arrives
\* while one is there, the case in which the stream fails (line 1215).
THEOREM NoContinuationOutlives ==
  ASSUME CarefulUse
  PROVE  Spec => []ContinuationOwned
<1> DEFINE R == {g \in Sources \ {1} : Running(g)}
<1>1. ASSUME IInv, kind = "flatmap"
      PROVE  /\ \A g \in Sources \ {1} : Running(g) => Alive(1)
             /\ Cardinality(R) <= 1
             /\ IsTop("OnNext") /\ Top.gen = 1 /\ Top.ev = "value" => cont = 0
  <2>1. IsFlatMap
    BY <1>1 DEF IInv, IsFlatMap
  <2>2. PICK c \in FlatContexts : FlatAt(c)
    BY <1>1 DEF IInv, FlatInv
  <2>3. /\ FlatRest(c) /\ stack = FlatStack(c) /\ 0 \notin Sources
        /\ c.p \in {"next", "contSubscribing"} => cont = 0
    BY <2>1, <2>2, FlatUse DEF FlatAt, FlatRest, FlatAsksOnce, FlatAsks, FlatCurrent
  <2>4. \A g \in Sources \ {1} : Running(g) => Alive(1)
    BY <2>1, <2>2, WhoRuns
  <2>5. Cardinality(R) <= 1
    <3>1. \E x : R \subseteq {x}
      <4>1. CASE c.p = "contSubscribing"
        <5>1. R \subseteq {c.g}
          BY <2>1, <2>2, <2>3, <4>1, WhoRuns
        <5> QED
          BY <5>1
      <4>2. CASE c.p # "contSubscribing"
        <5>1. R \subseteq {cont}
          BY <2>1, <2>2, <4>2, WhoRuns
        <5> QED
          BY <5>1
      <4> QED
        BY <4>1, <4>2
    <3>2. PICK x : R \subseteq {x}
      BY <3>1
    <3>3. IsFiniteSet({x}) /\ Cardinality({x}) = 1
      BY FS_Singleton
    <3> HIDE DEF R
    <3> QED
      BY <3>2, <3>3, FS_Subset
  <2>6. IsTop("OnNext") /\ Top.gen = 1 /\ Top.ev = "value" => cont = 0
    BY <2>3, FlatPlace DEF FlatRest
  <2> QED
    BY <2>4, <2>5, <2>6
<1>2. IInv => ContinuationOwned
  BY <1>1 DEF ContinuationOwned
<1> QED
  BY <1>2, Invariance, PTL

\* Calls that are in a stack are the innermost one or below it.
LEMMA InsideIs ==
  ASSUME NEW s, NEW o, NEW h, NEW d, NEW rest, Called(s, o, h, d, rest),
         NEW op, NEW g, NEW e
  PROVE  Inside(s, op, g, e) <=> (o = op /\ h = g /\ d = e) \/ Inside(rest, op, g, e)
<1>1. s \in Seq(Frames) /\ s # <<>> /\ Tail(s) = rest
      /\ Head(s).op = o /\ Head(s).gen = h /\ Head(s).ev = d
  BY DEF Called
<1>2. s[1] = Head(s)
  BY <1>1
<1>3. \A i \in DOMAIN s : i # 1 => i - 1 \in DOMAIN rest /\ s[i] = rest[i - 1]
  BY <1>1
<1>4. Inside(s, op, g, e) => (o = op /\ h = g /\ d = e) \/ Inside(rest, op, g, e)
  BY <1>1, <1>2, <1>3 DEF Inside
<1> QED
  BY <1>4, StaysInside

\* An OnNext with a value of the base is nowhere but at the top.
LEMMA OnItsWay ==
  ASSUME NEW c \in PrefetchContexts, stack = PrefetchStack(c)
  PROVE  Calls("OnNext", 1, "value") = One(c.p = "next" /\ c.e = "value")
<1> DEFINE No(s) == ~Inside(s, "OnNext", 1, "value")
<1>1. No(<<>>)
  BY DEF Inside
<1>2. ASSUME NEW s, NEW o, NEW h, NEW d, NEW rest, Called(s, o, h, d, rest), No(rest),
             o # "OnNext" \/ h # 1 \/ d # "value"
      PROVE  No(s)
  BY <1>2, InsideIs
<1> HIDE DEF No
<1>3. No(c.b) /\ c.p \in PrefetchPlaces /\ c.b \in {<<>>, Filling, TellingFilling}
  <2>1. No(Filling)
    BY <1>1, <1>2, PrefetchBelowIs
  <2>2. No(TellingFilling)
    BY <1>2, <2>1, PrefetchBelowIs
  <2> QED
    BY <1>1, <2>1, <2>2 DEF PrefetchContexts
<1>4. No(PrefetchBelow(c))
  <2>1. Called(Call("Deliver", 0, "none", <<>>), "Deliver", 0, "none", <<>>)
    BY PrefetchBelowIs, Vocabulary, TellingIs, CallTop
  <2> QED
    BY <1>1, <1>2, <2>1 DEF PrefetchBelow
<1>5. No(PrefetchUnder(c))
  <2>1. Called(Call("After", 1, c.e, <<>>), "After", 1, c.e, <<>>)
    BY PrefetchBelowIs, Vocabulary, TellingIs, CallTop
  <2> QED
    BY <1>1, <1>2, <1>3, <2>1 DEF PrefetchUnder
<1>6. No(PrefetchAfter(c)) /\ No(PrefetchSent(c))
  BY <1>2, <1>4, <1>5, PrefetchBelowIs
<1>7. c.p # "next" => No(stack)
  <2>1. c.p = "out" => No(stack)
    BY <1>3, PrefetchTop
  <2>2. c.p \in {"subscribing", "loop", "after"} => No(stack)
    BY <1>1, <1>2, <1>4, PrefetchTop
  <2>3. c.p \in {"deliver", "user", "delivered"} => No(stack)
    BY <1>2, <1>5, <1>6, PrefetchTop
  <2> QED
    BY <1>3, <2>1, <2>2, <2>3 DEF PrefetchPlaces, PrefetchBase, PrefetchSends
<1> DEFINE P == {i \in DOMAIN stack : stack[i] = Base!Frame("OnNext", 1, "value")}
<1>8. \A i \in DOMAIN stack : i \in P =>
        stack[i].op = "OnNext" /\ stack[i].gen = 1 /\ stack[i].ev = "value"
  BY DEF Base!Frame
<1>9. No(stack) => P = {}
  BY <1>8 DEF Inside, No
<1>10. CASE c.p = "next"
  <2>1. Called(stack, "OnNext", 1, c.e, PrefetchAfter(c))
    BY <1>10, PrefetchTop
  <2>2. /\ stack \in Seq(Frames) /\ stack # <<>> /\ stack[1] = Head(stack)
        /\ stack[1] \in Frames /\ 1 \in DOMAIN stack
        /\ stack[1].op = "OnNext" /\ stack[1].gen = 1 /\ stack[1].ev = c.e
        /\ \A i \in DOMAIN stack : i # 1 =>
             /\ i - 1 \in DOMAIN PrefetchAfter(c) /\ stack[i] = PrefetchAfter(c)[i - 1]
    BY <2>1 DEF Called
  <2>3. \A i \in P : i = 1
    BY <1>6, <1>8, <2>2 DEF Inside, No
  <2>4. c.e # "value" => P = {}
    BY <1>8, <2>2, <2>3
  <2>5. c.e = "value" => P = {1}
    <3>1. c.e = "value" => stack[1] = Base!Frame("OnNext", 1, "value")
      BY <2>2 DEF Base!Frame, Frames
    <3> QED
      BY <2>2, <2>3, <3>1
  <2> HIDE DEF P
  <2>6. Cardinality(P) = One(c.e = "value")
    BY <2>4, <2>5, FS_EmptySet, FS_Singleton DEF One
  <2> QED
    BY <1>10, <2>6 DEF Calls, P
<1>11. CASE c.p # "next"
  <2>1. P = {}
    BY <1>7, <1>9, <1>11
  <2> HIDE DEF P
  <2>2. Cardinality(P) = 0
    BY <2>1, FS_EmptySet
  <2> QED
    BY <1>11, <2>2 DEF Calls, P, One
<1> QED
  BY <1>10, <1>11

\* Only the last event of the buffer may be an end.
LEMMA ValuesBuffered ==
  ASSUME buffer \in Seq(Base!Events), \A i \in 1 .. Len(buffer) - 1 : buffer[i] = "value"
  PROVE  Cardinality({i \in DOMAIN buffer : buffer[i] = "value"}) + One(EndBuffered) = Len(buffer)
<1> DEFINE V == {i \in DOMAIN buffer : buffer[i] = "value"}
           n == IF EndBuffered THEN Len(buffer) - 1 ELSE Len(buffer)
<1>1. /\ Len(buffer) \in Nat /\ DOMAIN buffer = 1 .. Len(buffer)
      /\ \A i \in 1 .. Len(buffer) : buffer[i] = "value" \/ Base!IsEnd(buffer[i])
  <2>1. \A i \in 1 .. Len(buffer) : buffer[i] \in {"value", "done", "error"}
    BY Vocabulary
  <2> QED
    BY <2>1, Statuses
<1>2. V = 1 .. n
  <2>1. CASE EndBuffered
    <3>1. Len(buffer) > 0 /\ buffer[Len(buffer)] # "value"
      BY <2>1, Statuses DEF EndBuffered
    <3> QED
      BY <1>1, <2>1, <3>1
  <2>2. CASE ~EndBuffered
    <3>1. Len(buffer) > 0 => buffer[Len(buffer)] = "value"
      BY <1>1, <2>2 DEF EndBuffered
    <3> QED
      BY <1>1, <2>2, <3>1
  <2> QED
    BY <2>1, <2>2
<1>3. n \in Nat /\ n + One(EndBuffered) = Len(buffer)
  BY <1>1 DEF EndBuffered, One
<1> HIDE DEF V, n
<1>4. Cardinality(1 .. n) = n
  <2>1. n - 1 + 1 = n /\ (1 > n => n = 0)
    BY <1>3
  <2> QED
    BY <1>3, <2>1, FS_Interval
<1> QED
  BY <1>2, <1>3, <1>4 DEF V

\* What Prefetch requests always fits into its buffer, so that the branch which drops an
\* element (line 531) is dead; every value of the base is delivered once, and the end
\* comes after all of them.
THEOREM TheBufferHoldsAll ==
  ASSUME CarefulUse
  PROVE  Spec => []PrefetchConserves
<1>1. ASSUME IInv, kind = "prefetch"
      PROVE  /\ Len(buffer) + outstanding <= BufferSize
             /\ yielded[1] = taken[1] + Calls("OnNext", 1, "value")
                             + Cardinality({i \in DOMAIN buffer : buffer[i] = "value"})
             /\ ended => taken[1] = yielded[1]
  <2>1. PICK c \in PrefetchContexts : PrefetchAt(c)
    BY <1>1 DEF IInv, PrefetchInv
  <2>2. PrefetchRest(c) /\ stack = PrefetchStack(c) /\ buffer \in Seq(Base!Events)
    BY <2>1 DEF PrefetchAt, PrefetchRest
  <2> DEFINE w == Calls("OnNext", 1, "value")
             v == Cardinality({i \in DOMAIN buffer : buffer[i] = "value"})
  <2>3. w = One(c.p = "next" /\ c.e = "value")
    BY <2>2, OnItsWay
  <2>4. v + One(EndBuffered) = Len(buffer)
    BY <2>2, ValuesBuffered DEF PrefetchRest, PrefetchKeeps
  <2>5. yielded[1] + One(EndBuffered) =
          taken[1] + One(c.p = "next" /\ c.e = "value") + Len(buffer)
    BY <2>2 DEF PrefetchRest, PrefetchKeeps
  <2>6. yielded[1] \in Nat /\ taken[1] \in Nat /\ Len(buffer) \in Nat
    BY <2>2, Vocabulary DEF PrefetchRest, Types
  <2>7. ended => buffer = <<>> /\ c.p # "next"
    BY <2>2 DEF PrefetchRest, PrefetchOver, PrefetchRuns
  <2>8. ended => Len(buffer) = 0 /\ ~EndBuffered
    BY <2>7 DEF EndBuffered
  <2>9. v \in Int
    <3>1. IsFiniteSet(DOMAIN buffer)
      BY <2>6, FS_Interval
    <3>2. IsFiniteSet({i \in DOMAIN buffer : buffer[i] = "value"})
      BY <3>1, FS_Subset
    <3> QED
      BY <3>2, FS_CardinalityType
  <2> HIDE DEF w, v
  <2>10. yielded[1] = taken[1] + w + v
    BY <2>3, <2>4, <2>5, <2>6, <2>9 DEF One
  <2>11. ended => taken[1] = yielded[1]
    BY <2>5, <2>6, <2>7, <2>8 DEF One
  <2>12. Len(buffer) + outstanding <= BufferSize
    BY <2>2 DEF PrefetchRest, PrefetchOwes
  <2> QED
    BY <2>10, <2>11, <2>12 DEF w, v
<1>2. IInv => PrefetchConserves
  BY <1>1 DEF PrefetchConserves
<1> QED
  BY <1>2, Invariance, PTL

-----------------------------------------------------------------------------
(* What the subscriber sees is a stream as any other.                        *)

\* The variables of the contract, as Operators gives them.
Status == [s \in {"stream"} |-> CASE ~open                     -> "new"
                                  [] open /\ Over              -> "gone"
                                  [] open /\ ~Over /\ cancelled -> "cancelled"
                                  [] open /\ ~Over /\ ~cancelled /\ ended -> "ending"
                                  [] OTHER                     -> "open"]
Credit == [s \in {"stream"} |-> IF ended /\ kind # "prefetch"
                                  THEN RemoveFrom(balance, 1) ELSE balance]
Events == [s \in {"stream"} |-> got]

\* The status and the credit of the one stream.
StatusNow == IF ~open THEN "new"
             ELSE IF Over THEN "gone"
             ELSE IF cancelled THEN "cancelled"
             ELSE IF ended THEN "ending" ELSE "open"
CreditNow == IF ended /\ kind # "prefetch" THEN RemoveFrom(balance, 1) ELSE balance

\* Before and after a step.
LEMMA StatusIs ==
  /\ Status = [s \in {"stream"} |-> StatusNow] /\ Status' = [s \in {"stream"} |-> StatusNow']
  /\ Credit = [s \in {"stream"} |-> CreditNow] /\ Credit' = [s \in {"stream"} |-> CreditNow']
  /\ Events = [s \in {"stream"} |-> got] /\ Events' = [s \in {"stream"} |-> got']
<1>1. Status = [s \in {"stream"} |-> StatusNow]
  BY DEF Status, StatusNow
<1>2. Status' = [s \in {"stream"} |-> StatusNow']
  BY DEF Status, StatusNow
<1> QED
  BY <1>1, <1>2 DEF Credit, CreditNow, Events

\* Initial states and steps of the contract in these terms.
LEMMA Seen ==
  /\ Contract!Init <=> /\ Status = [s \in {"stream"} |-> "new"]
                       /\ Credit = [s \in {"stream"} |-> 0]
                       /\ Events = [s \in {"stream"} |-> 0]
  /\ (UNCHANGED Contract!vars) <=> UNCHANGED <<Status, Credit, Events>>
  /\ Contract!Subscribe("stream") <=>
       /\ Status["stream"] = "new"
       /\ Status' = [Status EXCEPT !["stream"] = "open"]
       /\ UNCHANGED <<Credit, Events>>
  /\ Contract!Request("stream") <=>
       /\ Status["stream"] \in {"open", "ending", "cancelled"}
       /\ \E n \in Balance : Credit' = [Credit EXCEPT !["stream"] = AddTo(Credit["stream"], n)]
       /\ UNCHANGED <<Status, Events>>
  /\ Contract!Deliver("stream") <=>
       /\ Status["stream"] = "open"
       /\ HasRequests(Credit["stream"])
       /\ Credit' = [Credit EXCEPT !["stream"] = RemoveFrom(Credit["stream"], 1)]
       /\ Events' = [Events EXCEPT !["stream"] = Events["stream"] + 1]
       /\ \E next \in {"open", "ending"} : Status' = [Status EXCEPT !["stream"] = next]
  /\ Contract!Cancel("stream") <=>
       /\ Status["stream"] \in {"open", "ending"}
       /\ Status' = [Status EXCEPT !["stream"] = "cancelled"]
       /\ UNCHANGED <<Credit, Events>>
  /\ Contract!Destroy("stream") <=>
       /\ Status["stream"] \in {"open", "ending", "cancelled"}
       /\ Status' = [Status EXCEPT !["stream"] = "gone"]
       /\ UNCHANGED <<Credit, Events>>
<1>1. Contract!Init <=> /\ Status = [s \in {"stream"} |-> "new"]
                       /\ Credit = [s \in {"stream"} |-> 0]
                       /\ Events = [s \in {"stream"} |-> 0]
  BY DEF Contract!Init, Status, Credit, Events
<1>2. (UNCHANGED Contract!vars) <=> UNCHANGED <<Status, Credit, Events>>
  BY DEF Contract!vars, Status, Credit, Events
<1>3. Contract!Subscribe("stream") <=>
       /\ Status["stream"] = "new"
       /\ Status' = [Status EXCEPT !["stream"] = "open"]
       /\ UNCHANGED <<Credit, Events>>
  BY DEF Contract!Subscribe, Status, Credit, Events
<1>4. Contract!Request("stream") <=>
       /\ Status["stream"] \in {"open", "ending", "cancelled"}
       /\ \E n \in Balance : Credit' = [Credit EXCEPT !["stream"] = AddTo(Credit["stream"], n)]
       /\ UNCHANGED <<Status, Events>>
  BY DEF Contract!Request, Contract!Balance, Contract!AddTo, Balance, AddTo, Status, Credit, Events
<1>5. Contract!Deliver("stream") <=>
       /\ Status["stream"] = "open"
       /\ HasRequests(Credit["stream"])
       /\ Credit' = [Credit EXCEPT !["stream"] = RemoveFrom(Credit["stream"], 1)]
       /\ Events' = [Events EXCEPT !["stream"] = Events["stream"] + 1]
       /\ \E next \in {"open", "ending"} : Status' = [Status EXCEPT !["stream"] = next]
  BY DEF Contract!Deliver, Contract!HasRequests, Contract!RemoveFrom, HasRequests, RemoveFrom,
         Status, Credit, Events
<1>6. Contract!Destroy("stream") <=>
       /\ Status["stream"] \in {"open", "ending", "cancelled"}
       /\ Status' = [Status EXCEPT !["stream"] = "gone"]
       /\ UNCHANGED <<Credit, Events>>
  BY DEF Contract!Destroy, Status, Credit, Events
<1>7. Contract!Cancel("stream") <=>
       /\ Status["stream"] \in {"open", "ending"}
       /\ Status' = [Status EXCEPT !["stream"] = "cancelled"]
       /\ UNCHANGED <<Credit, Events>>
  BY DEF Contract!Cancel, Status, Credit, Events
<1> QED
  BY <1>1, <1>2, <1>3, <1>4, <1>5, <1>6, <1>7

\* A step of which the subscriber sees at most that the stream is cancelled or goes away.
LEMMA Unseen ==
  ASSUME UNCHANGED <<open, balance, ended, got, kind>>, open /\ Over => Over',
         cancelled => cancelled'
  PROVE  [Contract!Next]_(Contract!vars)
<1>1. Credit' = Credit /\ Events' = Events
  BY StatusIs DEF CreditNow
<1>2. CASE StatusNow' = StatusNow
  BY <1>1, <1>2, StatusIs, Seen
<1>3. CASE StatusNow' # StatusNow /\ Over'
  <2>1. StatusNow \in {"open", "ending", "cancelled"} /\ StatusNow' = "gone"
    BY <1>3 DEF StatusNow
  <2>2. Contract!Destroy("stream")
    BY <1>1, <2>1, StatusIs, Seen
  <2> QED
    BY <2>2 DEF Contract!Next
<1>4. CASE StatusNow' # StatusNow /\ ~Over'
  <2>1. StatusNow \in {"open", "ending"} /\ StatusNow' = "cancelled"
    BY <1>4 DEF StatusNow
  <2>2. Contract!Cancel("stream")
    BY <1>1, <2>1, StatusIs, Seen
  <2> QED
    BY <2>2 DEF Contract!Next
<1> QED
  BY <1>2, <1>3, <1>4

\* OnSubscribe.
LEMMA Confirmed ==
  ASSUME ~open, open', ~ended, ~cancelled', ~Over', UNCHANGED <<balance, ended, got, kind>>
  PROVE  [Contract!Next]_(Contract!vars)
<1>1. StatusNow = "new" /\ StatusNow' = "open"
  BY DEF StatusNow
<1>2. Contract!Subscribe("stream")
  BY <1>1, StatusIs, Seen DEF CreditNow
<1> QED
  BY <1>2 DEF Contract!Next

\* OnNext, with a value or with the status that ends the stream.
LEMMA Delivered ==
  ASSUME open, open' = open, ~Over, ~Over', ended = FALSE, ~cancelled, ~cancelled',
         HasRequests(balance), got' = got + 1, kind' = kind,
         \/ ended' = FALSE /\ balance' = RemoveFrom(balance, 1)
         \/ ended' = TRUE /\ balance' = (IF kind = "prefetch" THEN RemoveFrom(balance, 1)
                                         ELSE balance)
  PROVE  [Contract!Next]_(Contract!vars)
<1>1. StatusNow = "open" /\ StatusNow' \in {"open", "ending"}
  BY DEF StatusNow
<1>2. CreditNow = balance /\ CreditNow' = RemoveFrom(balance, 1)
  BY DEF CreditNow
<1>3. Contract!Deliver("stream")
  BY <1>1, <1>2, StatusIs, Seen
<1> QED
  BY <1>3 DEF Contract!Next

\* Requests of a stream whose end was paid for already.
LEMMA Paid ==
  ASSUME NEW b \in Balance, HasRequests(b), NEW n \in Balance
  PROVE  \E m \in Balance : RemoveFrom(AddTo(b, n), 1) = AddTo(RemoveFrom(b, 1), m)
<1>1. CASE KMax - b < n
  <2>1. KMax \in Balance /\ KMax - RemoveFrom(b, 1) <= KMax
    BY KMaxAssumption DEF Balance, RemoveFrom, HasRequests
  <2>2. RemoveFrom(AddTo(b, n), 1) = KMax
    BY <1>1 DEF AddTo, RemoveFrom
  <2>3. AddTo(RemoveFrom(b, 1), KMax) = KMax
    BY KMaxAssumption DEF Balance, AddTo, RemoveFrom, HasRequests
  <2> QED
    BY <2>1, <2>2, <2>3
<1>2. CASE ~(KMax - b < n) /\ b + n = KMax
  <2>1. RemoveFrom(AddTo(b, n), 1) = KMax
    BY <1>2 DEF AddTo, RemoveFrom
  <2>2. KMax \in Balance /\ AddTo(RemoveFrom(b, 1), KMax) = KMax
    BY KMaxAssumption DEF Balance, AddTo, RemoveFrom, HasRequests
  <2> QED
    BY <2>1, <2>2
<1>3. CASE ~(KMax - b < n) /\ b + n # KMax
  <2>1. b + n < KMax /\ b # KMax /\ b \in Nat /\ n \in Nat /\ KMax \in Nat
    BY <1>3, KMaxAssumption DEF Balance
  <2>2. RemoveFrom(AddTo(b, n), 1) = b + n - 1
    BY <1>3, <2>1 DEF AddTo, RemoveFrom
  <2>3. AddTo(RemoveFrom(b, 1), n) = b - 1 + n
    BY <2>1 DEF AddTo, RemoveFrom
  <2> QED
    BY <2>1, <2>2, <2>3
<1> QED
  BY <1>1, <1>2, <1>3

\* Request, of a stream that is there; its end, if it was sent, has been paid for.
LEMMA Requested ==
  ASSUME open, open' = open, ~Over, ~Over', UNCHANGED <<ended, cancelled, got, kind>>,
         balance \in Balance, NEW n \in Balance, balance' = AddTo(balance, n),
         ended /\ kind # "prefetch" => HasRequests(balance)
  PROVE  [Contract!Next]_(Contract!vars)
<1>1. StatusNow' = StatusNow /\ StatusNow \in {"open", "ending", "cancelled"}
  BY DEF StatusNow
<1>2. \E m \in Balance : CreditNow' = AddTo(CreditNow, m)
  <2>1. CASE ended /\ kind # "prefetch"
    BY <2>1, Paid DEF CreditNow
  <2>2. CASE ~(ended /\ kind # "prefetch")
    BY <2>2 DEF CreditNow
  <2> QED
    BY <2>1, <2>2
<1>3. Contract!Request("stream")
  BY <1>1, <1>2, StatusIs, Seen
<1> QED
  BY <1>3 DEF Contract!Next

-----------------------------------------------------------------------------
(* The steps, as the subscriber sees them.                                   *)

\* A stream that is over stays so when nothing that keeps it is added.
LEMMA Fading ==
  ASSUME kind' = kind, Alive(1)' => Alive(1),
         kind # "flatmap" => /\ lock' => lock
                             /\ awaited' \subseteq awaited
                             /\ \A g \in Sources : Alive(g)' => Alive(g)
  PROVE  Over => Over'
  BY DEF Over, StreamAlive, SharedAlive

\* Nothing that keeps the stream is touched.
LEMMA Kept ==
  ASSUME UNCHANGED <<kind, phase, awaited, lock>>
  PROVE  Over' <=> Over
  BY DEF Over, StreamAlive, SharedAlive, Alive, Base!Alive

\* A request to a source adds and deletes no source.
LEMMA RequestUpKeeps ==
  ASSUME NEW g, NEW n, NEW rest, RequestUp(g, n, rest)
  PROVE  UNCHANGED <<phase, awaited>>
  BY DEF RequestUp, Base!Request

LEMMA ForwardKeeps ==
  ASSUME NEW g, NEW b, NEW n, NEW rest, Forward(g, b, n, rest)
  PROVE  UNCHANGED <<phase, awaited>>
  BY RequestUpKeeps DEF Forward, sourceVars

\* The methods of the operators add and delete no source in Request.
LEMMA RequestKeeps ==
  ASSUME NEW n, NEW rest, Request(n, rest)
  PROVE  balance' = AddTo(balance, n) /\ UNCHANGED <<phase, awaited, lock, open, got, ended>>
<1>1. CASE PrefetchRequest(n, rest)
  BY <1>1 DEF PrefetchRequest, Request, sourceVars
<1>2. CASE ConcatRequest(n, rest)
  BY <1>2, RequestUpKeeps DEF ConcatRequest, Request, sourceVars
<1>3. CASE FlatMapRequest(n, rest)
  BY <1>3, ForwardKeeps DEF FlatMapRequest, Request
<1> QED
  BY <1>1, <1>2, <1>3 DEF Request

\* The loop of a source and the return of its subscriber add no source.
LEMMA SourcesFade ==
  ASSUME NEW gone, Generate \/ SourceReturns(gone) \/ \E g \in Sources : LateOnNext(g)
  PROVE  awaited' = awaited /\ \A k \in Sources : Alive(k)' => Alive(k)
  BY DEF Generate, Base!Generate, Base!Produce, Base!Pause, SourceReturns, Deleted, LateOnNext,
         Alive, Base!Alive

\* Before OnSubscribe nothing was delivered, and only then a late source subscribes.
LEMMA BeforeOpen ==
  ASSUME CarefulUse, IInv
  PROVE  /\ phase[1] = "new" => ~open
         /\ awaited # {} => ~open
         /\ ~open => ~ended /\ ~cancelled
         /\ balance \in Balance
<1>1. CASE ConcatInv
  BY <1>1 DEF ConcatInv, ConcatAt, ConcatRest, ConcatBegins, Types
<1>2. CASE PrefetchInv
  BY <1>2 DEF PrefetchInv, PrefetchAt, PrefetchRest, PrefetchBegins, Types
<1>3. CASE FlatInv
  BY <1>3 DEF FlatInv, FlatAt, FlatRest, FlatBegins, Types
<1> QED
  BY <1>1, <1>2, <1>3, OneOfThree

\* A stream that has not ended and is not cancelled is there, and an end was paid for.
LEMMA WhileOpen ==
  ASSUME CarefulUse, IInv, open
  PROVE  /\ ~ended /\ ~cancelled => ~Over
         /\ ended /\ kind # "prefetch" /\ (kind = "flatmap" => 0 \notin Counts) =>
              HasRequests(balance)
         /\ user = "single" /\ IsTop("UserOnSubscribe") => ~ended /\ ~cancelled
<1>1. CASE IsConcat /\ ConcatInv
  <2>1. PICK c \in ConcatContexts : ConcatAt(c)
    BY <1>1 DEF ConcatInv
  <2>2. IsTop("UserOnSubscribe") => c.b = Telling
    BY <1>1, <2>1, ConcatPlace DEF ConcatAt, IsConcat
  <2> QED
    BY <1>1, <2>1, <2>2
       DEF ConcatAt, ConcatRest, ConcatOver, Over, StreamAlive, SharedAlive, IsConcat
<1>2. CASE IsPrefetch /\ PrefetchInv
  <2>1. PICK c \in PrefetchContexts : PrefetchAt(c)
    BY <1>2 DEF PrefetchInv
  <2>2. user # "single"
    BY <1>2 DEF IsPrefetch, CarefulUse, Setting
  <2> QED
    BY <1>2, <2>1, <2>2
       DEF PrefetchAt, PrefetchRest, PrefetchOver, Over, StreamAlive, SharedAlive, IsPrefetch
<1>3. CASE IsFlatMap /\ FlatInv
  <2>1. PICK c \in FlatContexts : FlatAt(c)
    BY <1>3 DEF FlatInv
  <2>2. IsTop("UserOnSubscribe") => c.b = Telling
    BY <2>1, FlatPlace DEF FlatAt, FlatRest
  <2> QED
    BY <1>3, <2>1, <2>2
       DEF FlatAt, FlatRest, FlatOver, FlatAsksOnce, Over, StreamAlive, IsFlatMap
<1> QED
  BY <1>1, <1>2, <1>3, OneOfThree

\* OnSubscribe of the subscriber is executing: the stream is open.
LEMMA TellsOpen ==
  ASSUME CarefulUse, IInv, IsTop("UserOnSubscribe")
  PROVE  open
<1>1. Telling # <<>>
  BY TellingIs DEF Called
<1>2. CASE IsConcat /\ ConcatInv
  BY <1>1, <1>2, ConcatPlace DEF ConcatInv, ConcatAt, ConcatRest, ConcatBegins, IsConcat
<1>3. CASE IsPrefetch /\ PrefetchInv
  BY <1>3, PrefetchPlace DEF PrefetchInv, PrefetchAt, PrefetchRest, PrefetchBegins
<1>4. CASE IsFlatMap /\ FlatInv
  BY <1>1, <1>4, FlatPlace DEF FlatInv, FlatAt, FlatRest, FlatBegins
<1> QED
  BY <1>2, <1>3, <1>4, OneOfThree

\* A step of Concat.
LEMMA ConcatSeen ==
  ASSUME CarefulUse, IInv, IsConcat, ConcatInv, ConcatStep, UNCHANGED <<cancelled, otherVars>>
  PROVE  [Contract!Next]_(Contract!vars)
<1>1. PICK c \in ConcatContexts : stack = ConcatStack(c) /\ ConcatRest(c)
  BY DEF ConcatInv, ConcatAt
<1>2. /\ kind' = kind /\ kind = "concat" /\ Types /\ {1, 2} \subseteq Sources
      /\ cancelled' = cancelled
  BY <1>1 DEF otherVars, settings, IsConcat, ConcatRest
<1>3. CASE ConcatOnSubscribe
  <2>1. c.p = "subscribing" /\ Top.gen = c.g /\ UNCHANGED <<balance, lock, userVars>>
    BY <1>1, <1>2, <1>3, ConcatPlace, ConcatTop DEF ConcatOnSubscribe, Called, Top
  <2>2. lock /\ ~ended /\ ~cancelled
    BY <1>1, <2>1 DEF ConcatRest, ConcatCurrent
  <2>3. ~Over'
    BY <1>2, <2>1, <2>2 DEF Over, StreamAlive, SharedAlive
  <2>4. CASE runningFirst
    <3>1. ~open /\ open'
      BY <1>1, <1>3, <2>1, <2>4
         DEF ConcatOnSubscribe, ConfirmSubscription, ConcatRest, ConcatCurrent, ConcatContexts
    <3> QED
      BY <1>2, <2>1, <2>2, <2>3, <3>1, Confirmed DEF userVars
  <2>5. CASE ~runningFirst
    <3>1. open' = open
      BY <1>3, <2>5 DEF ConcatOnSubscribe
    <3>2. ~Over
      BY <1>2, <2>2 DEF Over, StreamAlive, SharedAlive
    <3> QED
      BY <1>2, <2>1, <3>1, <3>2, Unseen DEF userVars
  <2> QED
    BY <2>4, <2>5
<1>4. CASE ConcatValue \/ ConcatEnd
  <2>1. /\ c.p = "next" /\ Top.ev = c.e /\ c.e \in Base!Events
        /\ open /\ lock /\ ~ended /\ ~cancelled /\ HasRequests(balance)
    BY <1>1, <1>4, ConcatAtNext DEF ConcatValue, ConcatEnd
  <2>2. /\ UNCHANGED <<open, lock>> /\ got' = got + 1 /\ ended' = (ended \/ Base!IsEnd(c.e))
        /\ \/ c.e = "value" /\ balance' = RemoveFrom(balance, 1)
           \/ c.e \in {"done", "error"} /\ balance' = balance
    BY <1>4, <2>1 DEF ConcatValue, ConcatEnd, SendDown, Final
  <2>3. /\ ended = FALSE
        /\ \/ ended' = FALSE /\ balance' = RemoveFrom(balance, 1)
           \/ ended' = TRUE /\ balance' = balance
    BY <1>2, <2>1, <2>2, Statuses DEF Types
  <2>4. ~Over /\ ~Over'
    BY <1>2, <2>1, <2>2 DEF Over, StreamAlive, SharedAlive
  <2>5. ~cancelled'
    BY <1>2, <2>1
  <2> QED
    BY <1>2, <2>1, <2>2, <2>3, <2>4, <2>5, Delivered
<1>5. CASE ConcatRelease
  <2>1. UNCHANGED <<phase, awaited, open, balance, ended, got>> /\ lock' = FALSE
    BY <1>5 DEF ConcatRelease, sourceVars, userVars
  <2> QED
    BY <1>2, <2>1, Fading, Unseen DEF Alive, Base!Alive
<1>6. CASE ConcatSwitch
  <2>1. lock /\ ~cancelled
    BY <1>1, <1>6, ConcatAtNext DEF ConcatSwitch
  <2>2. ~Over
    BY <1>2, <2>1 DEF Over, StreamAlive, SharedAlive
  <2>3. UNCHANGED <<open, balance, ended, got>>
    BY <1>6 DEF ConcatSwitch, userVars
  <2> QED
    BY <1>2, <2>2, <2>3, Unseen
<1>7. CASE SourceReturns({}) /\ UNCHANGED <<balance, lock, open, userVars, concatVars>>
  <2>1. Over => Over'
    BY <1>2, <1>7, SourcesFade, Fading
  <2> QED
    BY <1>2, <1>7, <2>1, Unseen DEF userVars
<1> QED
  BY <1>3, <1>4, <1>5, <1>6, <1>7 DEF ConcatStep

\* A step of Prefetch.
LEMMA PrefetchSeen ==
  ASSUME CarefulUse, IInv, IsPrefetch, PrefetchInv, PrefetchStep,
         UNCHANGED <<cancelled, otherVars>>
  PROVE  [Contract!Next]_(Contract!vars)
<1>1. PICK c \in PrefetchContexts : stack = PrefetchStack(c) /\ PrefetchRest(c)
  BY DEF PrefetchInv, PrefetchAt
<1>2. kind' = kind /\ kind = "prefetch" /\ Types /\ ~cancelled /\ ~cancelled'
  BY <1>1 DEF otherVars, settings, IsPrefetch, PrefetchRest, PrefetchBegins
<1>3. CASE PrefetchOnSubscribe
  <2>1. c.p = "subscribing" /\ open' /\ UNCHANGED <<balance, lock, userVars>>
    BY <1>1, <1>3, PrefetchPlace DEF PrefetchOnSubscribe, ConfirmSubscription
  <2>2. ~open /\ lock /\ ~ended
    BY <1>1, <2>1 DEF PrefetchRest, PrefetchBegins
  <2>3. ~Over'
    BY <1>2, <2>1, <2>2 DEF Over, StreamAlive, SharedAlive
  <2> QED
    BY <1>2, <2>1, <2>2, <2>3, Confirmed DEF userVars
<1>4. CASE PrefetchFill \/ PrefetchOnNext
  <2>1. UNCHANGED <<phase, awaited, lock, open, balance, ended, got>>
    BY <1>4, RequestUpKeeps
       DEF PrefetchFill, PrefetchOnNext, MaybeFill, sourceVars, userVars
  <2> QED
    BY <1>2, <2>1, Kept, Unseen
<1>5. CASE PrefetchDeliver
  <2>1. c.p = "deliver" /\ UNCHANGED <<phase, awaited, lock, open>>
    BY <1>1, <1>5, PrefetchPlace DEF PrefetchDeliver, sourceVars
  <2>2. CASE HasDelivery
    <3>1. /\ got' = got + 1 /\ ended' = (ended \/ Base!IsEnd(Head(buffer)))
          /\ balance' = RemoveFrom(balance, 1) /\ HasRequests(balance)
      BY <1>5, <2>2 DEF PrefetchDeliver, SendDown, HasDelivery
    <3>2. open /\ ended = FALSE /\ lock /\ ended' \in BOOLEAN
      BY <1>1, <1>2, <2>1, <3>1
         DEF PrefetchRest, PrefetchOver, PrefetchBegins, Types, Base!IsEnd
    <3>3. ~Over /\ ~Over'
      BY <1>2, <2>1, <3>2 DEF Over, StreamAlive, SharedAlive
    <3> QED
      BY <1>2, <2>1, <3>1, <3>2, <3>3, Delivered
  <2>3. CASE ~HasDelivery
    <3>1. UNCHANGED <<balance, ended, got>>
      BY <1>5, <2>3 DEF PrefetchDeliver, userVars
    <3> QED
      BY <1>2, <2>1, <3>1, Kept, Unseen
  <2> QED
    BY <2>2, <2>3
<1>6. CASE PrefetchDelivered
  <2>1. /\ UNCHANGED <<phase, awaited, open, balance, ended, got>>
        /\ lock' => lock
    BY <1>6, RequestUpKeeps DEF PrefetchDelivered, Refill, MaybeFill, sourceVars, userVars
  <2> QED
    BY <1>2, <2>1, Fading, Unseen DEF Alive, Base!Alive
<1>7. CASE SourceReturns({}) /\ UNCHANGED <<balance, lock, open, userVars, prefetchVars>>
  <2>1. Over => Over'
    BY <1>2, <1>7, SourcesFade, Fading, PipelineAssumption
  <2> QED
    BY <1>2, <1>7, <2>1, Unseen DEF userVars
<1> QED
  BY <1>3, <1>4, <1>5, <1>6, <1>7 DEF PrefetchStep

\* A step of FlatMap. A request of nothing makes it ask its base, and the end that
\* comes in answer would not be paid for.
LEMMA FlatSeen ==
  ASSUME CarefulUse, IInv, IsFlatMap, FlatInv, FlatMapStep, UNCHANGED <<cancelled, otherVars>>,
         0 \notin Counts
  PROVE  [Contract!Next]_(Contract!vars)
<1>1. PICK c \in FlatContexts : stack = FlatStack(c) /\ FlatRest(c) /\ FlatNests(c)
  BY DEF FlatInv, FlatAt, FlatRest
<1>2. kind' = kind /\ kind = "flatmap" /\ Types /\ 1 \in Sources /\ cancelled' = cancelled
  BY <1>1, FlatUse DEF otherVars, settings, IsFlatMap, FlatRest
<1>3. CASE FlatMapOnSubscribe
  <2>1. c.p = "subscribing" /\ open' /\ UNCHANGED <<phase, balance, userVars>>
    BY <1>1, <1>3, FlatPlace DEF FlatMapOnSubscribe, ConfirmSubscription, sourceVars
  <2>2. ~open /\ Alive(1) /\ ~ended /\ ~cancelled
    BY <1>1, <2>1 DEF FlatRest, FlatBegins
  <2>3. ~Over'
    BY <1>2, <2>1, <2>2 DEF Over, StreamAlive, Alive, Base!Alive
  <2> QED
    BY <1>2, <2>1, <2>2, <2>3, Confirmed DEF userVars
<1>4. CASE FlatMapContSubscribed \/ FlatMapContDone
  <2>1. UNCHANGED <<phase, awaited, lock, open, balance, ended, got>>
    BY <1>4, ForwardKeeps DEF FlatMapContSubscribed, FlatMapContDone, sourceVars, userVars
  <2> QED
    BY <1>2, <2>1, Kept, Unseen
<1>5. CASE FlatMapBaseEnds
  <2>1. c.p = "next" /\ UNCHANGED <<phase, open, balance>> /\ got' = got + 1 /\ ended' = TRUE
    BY <1>1, <1>5, FlatPlace DEF FlatMapBaseEnds, SendDown, sourceVars
  <2>2. open /\ Alive(1) /\ ended = FALSE /\ ~cancelled /\ HasRequests(balance)
    BY <1>1, <1>2, <2>1 DEF FlatRest, FlatCurrent, FlatAsksOnce, FlatAsks, Types
  <2>3. ~Over /\ ~Over'
    BY <1>2, <2>1, <2>2 DEF Over, StreamAlive, Alive, Base!Alive
  <2>4. ~cancelled'
    BY <1>2, <2>2
  <2> QED
    BY <1>2, <2>1, <2>2, <2>3, <2>4, Delivered
<1>6. CASE FlatMapBaseValue
  <2>1. /\ c.p = "next" /\ UNCHANGED <<open, balance>>
    BY <1>1, <1>6, FlatPlace DEF FlatMapBaseValue
  <2>2. Alive(1) /\ ~cancelled /\ cont = 0
    BY <1>1, <2>1 DEF FlatRest, FlatCurrent, FlatAsksOnce, FlatAsks
  <2>3. ~Over /\ UNCHANGED <<ended, got>>
    BY <1>2, <1>6, <2>2 DEF FlatMapBaseValue, userVars, Over, StreamAlive
  <2> QED
    BY <1>2, <2>1, <2>3, Unseen
<1>7. CASE FlatMapValue \/ FlatMapContFails
  <2>1. c.p = "contNext" /\ UNCHANGED <<phase, open>> /\ got' = got + 1
    BY <1>1, <1>7, FlatPlace DEF FlatMapValue, FlatMapContFails, SendDown, sourceVars
  <2>2. open /\ Alive(1) /\ ended = FALSE /\ ~cancelled /\ HasRequests(balance)
    BY <1>1, <1>2, <2>1, FlatAtContNext DEF Types
  <2>3. \/ ended' = FALSE /\ balance' = RemoveFrom(balance, 1)
        \/ ended' = TRUE /\ balance' = balance
    BY <1>7, <2>2, Statuses DEF FlatMapValue, FlatMapContFails, SendDown
  <2>4. ~Over /\ ~Over'
    BY <1>2, <2>1, <2>2 DEF Over, StreamAlive, Alive, Base!Alive
  <2>5. ~cancelled'
    BY <1>2, <2>2
  <2> QED
    BY <1>2, <2>1, <2>2, <2>3, <2>4, <2>5, Delivered
<1>8. CASE FlatMapTerminate
  <2>1. UNCHANGED <<open, balance, ended, got>> /\ ~Alive(1)'
    BY <1>2, <1>8
       DEF FlatMapTerminate, FlatMapCancel, Deleted, userVars, Alive, Base!Alive
  <2> QED
    BY <1>2, <2>1, Unseen DEF Over, StreamAlive
<1>9. ASSUME NEW gone, SourceReturns(gone), UNCHANGED <<balance, lock, open, userVars>>
      PROVE  [Contract!Next]_(Contract!vars)
  <2>1. Over => Over'
    BY <1>2, <1>9, SourcesFade, Fading
  <2> QED
    BY <1>2, <1>9, <2>1, Unseen DEF userVars
<1> QED
  BY <1>3, <1>4, <1>5, <1>6, <1>7, <1>8, <1>9 DEF FlatMapStep

\* Each step of an operator is a step of a stream, or none.
LEMMA ContractStep ==
  ASSUME CarefulUse, "flatmap" \in Kinds => 0 \notin Counts, IInv, [Next]_vars
  PROVE  [Contract!Next]_(Contract!vars)
<1>1. kind \in Kinds /\ 1 \in Sources /\ (kind = "flatmap" => 0 \notin Counts)
  BY PipelineAssumption DEF IInv, Setting
<1>2. CASE UNCHANGED vars
  <2>1. UNCHANGED <<kind, cancelled, phase, awaited, lock, open, balance, ended, got>>
    BY <1>2
       DEF vars, streamVars, sourceVars, userVars, singleVars, otherVars, settings
  <2> QED
    BY <2>1, Kept, Unseen
<1> SUFFICES ASSUME UNCHANGED otherVars,
                    \/ UserSubscribes \/ UserRequests \/ UserCancels \/ Returns \/ StreamStep
                    \/ \E g \in Sources : LateStep(g)
             PROVE  [Contract!Next]_(Contract!vars)
  BY <1>2 DEF Next, Terminated
<1>3. kind' = kind
  BY DEF otherVars, settings
<1>4. CASE UserSubscribes
  <2>1. ~open
    BY <1>4, BeforeOpen DEF UserSubscribes, MaySubscribe
  <2>2. UNCHANGED <<open, balance, ended, got>>
    BY <1>4
       DEF UserSubscribes, PrefetchSubscribe, ConcatSubscribe, FlatMapSubscribe, userVars
  <2>3. cancelled => cancelled'
    BY <1>4, Zenon DEF UserSubscribes, singleVars
  <2> QED
    BY <1>3, <2>1, <2>2, <2>3, Unseen
<1>5. ASSUME NEW n \in Balance, NEW rest, Request(n, rest), UNCHANGED cancelled, open, ~Over
      PROVE  [Contract!Next]_(Contract!vars)
  <2>1. balance' = AddTo(balance, n) /\ UNCHANGED <<phase, awaited, lock, open, got, ended>>
    BY <1>5, RequestKeeps
  <2>2. ~Over'
    BY <1>3, <1>5, <2>1, Kept
  <2>3. ended /\ kind # "prefetch" => HasRequests(balance)
    BY <1>1, <1>5, WhileOpen
  <2>4. balance \in Balance
    BY BeforeOpen
  <2> QED
    BY <1>3, <1>5, <2>1, <2>2, <2>3, <2>4, Requested
<1>6. CASE UserRequests
  <2>1. PICK n \in Counts : Request(n, stack)
    BY <1>6 DEF UserRequests
  <2>2. /\ open /\ ~Over /\ cancelled' = cancelled /\ n \in Balance
    BY <1>6, PipelineAssumption DEF UserRequests, Over, singleVars
  <2> QED
    BY <1>5, <2>1, <2>2
<1>7. ASSUME NEW rest, Cancel(rest)
      PROVE  [Contract!Next]_(Contract!vars)
  <2>1. UNCHANGED <<open, balance, ended, got, lock, awaited>> /\ cancelled'
    BY <1>7 DEF Cancel, PrefetchCancel, ConcatCancel, FlatMapCancel, userVars
  <2>2. \A g \in Sources : Alive(g)' => Alive(g)
    BY <1>7 DEF Cancel, PrefetchCancel, ConcatCancel, FlatMapCancel, Deleted, Alive, Base!Alive
  <2>3. Over => Over'
    BY <1>1, <1>3, <2>1, <2>2, Fading
  <2> QED
    BY <1>3, <2>1, <2>3, Unseen
<1>8. ASSUME UNCHANGED <<sourceVars, lock, open, balance, userVars, cancelled>>
      PROVE  [Contract!Next]_(Contract!vars)
  BY <1>3, <1>8, Kept, Unseen DEF sourceVars, userVars
<1>9. CASE SingleOnSubscribe
  <2>1. Request(1, Tail(stack)) /\ cancelled' = cancelled /\ user = "single"
        /\ IsTop("UserOnSubscribe")
    BY <1>9 DEF SingleOnSubscribe, singleVars
  <2>2. open
    BY <2>1, TellsOpen
  <2>3. ~Over /\ 1 \in Balance
    BY <2>1, <2>2, WhileOpen, KMaxAssumption DEF Balance
  <2> QED
    BY <1>5, <2>1, <2>2, <2>3
<1>10. CASE UserCancels \/ UserReturns \/ SingleOnNext
  BY <1>7, <1>8, <1>10 DEF UserCancels, UserReturns, SingleOnNext, singleVars
<1>11. CASE StreamStep
  <2>1. cancelled' = cancelled
    BY <1>11 DEF StreamStep, singleVars
  <2>2. CASE Generate /\ UNCHANGED <<balance, lock, open, userVars>>
    <3>1. Over => Over'
      BY <1>1, <1>3, <2>1, <2>2, SourcesFade, Fading
    <3>2. cancelled => cancelled'
      BY <2>1, Zenon
    <3>3. UNCHANGED <<open, balance, ended, got, kind>>
      BY <1>3, <2>2 DEF userVars
    <3> QED
      BY <3>1, <3>2, <3>3, Unseen
  <2>3. CASE kind = "concat" /\ ConcatStep
    BY <2>1, <2>3, OneOfThree, ConcatSeen DEF IsPrefetch, IsFlatMap
  <2>4. CASE kind = "prefetch" /\ PrefetchStep
    BY <2>1, <2>4, OneOfThree, PrefetchSeen DEF IsConcat, IsFlatMap
  <2>5. CASE kind = "flatmap" /\ FlatMapStep
    BY <1>1, <2>1, <2>5, OneOfThree, FlatSeen DEF IsConcat, IsPrefetch
  <2> QED
    BY <1>11, <2>2, <2>3, <2>4, <2>5 DEF StreamStep, OnlyOf
<1>12. ASSUME NEW g \in Sources, LateStep(g)
       PROVE  [Contract!Next]_(Contract!vars)
  <2>1. UNCHANGED <<balance, lock, open, ended, got, cancelled, kind>>
    BY <1>3, <1>12 DEF LateStep, userVars, singleVars
  <2>2. CASE LateSubscribe(g)
    BY <1>3, <2>1, <2>2, BeforeOpen, Unseen DEF LateSubscribe
  <2>3. CASE LateOnNext(g)
    <3>1. Over => Over'
      BY <1>1, <1>3, <2>1, <2>3, SourcesFade, Fading
    <3> QED
      BY <1>3, <2>1, <3>1, Unseen
  <2> QED
    BY <1>12, <2>2, <2>3 DEF LateStep
<1> QED
  BY <1>4, <1>6, <1>9, <1>10, <1>11, <1>12 DEF Returns

\* What the subscriber of Prefetch, Concat or FlatMap sees is a stream as any other:
\* OnSubscribe first and once, no event that was not requested, one end and nothing behind
\* it, and nothing when the stream is gone. The safety part of KeepsContract.
THEOREM OperatorsAreStreams ==
  ASSUME CarefulUse, "flatmap" \in Kinds => 0 \notin Counts
  PROVE  Spec => Contract!SafeSpec
<1>1. Init => Contract!Init
  <2> SUFFICES ASSUME Init PROVE Contract!Init
    OBVIOUS
  <2>1. open = FALSE /\ ended = FALSE /\ balance = 0 /\ got = 0
    BY DEF Init, PipelineInit
  <2>2. StatusNow = "new" /\ CreditNow = 0
    BY <2>1 DEF StatusNow, CreditNow
  <2> QED
    BY <2>1, <2>2, StatusIs, Seen
<1>2. IInv /\ [Next]_vars => [Contract!Next]_(Contract!vars)
  BY ContractStep
<1> QED
  BY <1>1, <1>2, Invariance, PTL DEF Spec, Contract!SafeSpec

=============================================================================
