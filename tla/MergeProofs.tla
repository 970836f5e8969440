----------------------------- MODULE MergeProofs -----------------------------
(***************************************************************************)
(* Proofs about MergeStream, for any number of upstreams, any of which may    *)
(* answer later, any numbers of elements and requests, and a subscriber that  *)
(* requests from wherever it may, and cancels, but not from within OnNext.    *)
(***************************************************************************)
EXTENDS MergeStream, FiniteSetTheorems, TLAPS

\* What the theorems assume. Cancel within OnNext leaves the loop of MaybeDeliver
\* in a deleted stream (line 875). With only two values of size_t the request of
\* one element would be an unlimited one.
UserIsCareful == UserCancel # "anywhere" /\ KMax > 1

\* Where the thread is. Of the upstream that runs below everything: "calling"
\* its OnSubscribe, in its "loop", in OnNext ("next"), or back ("after"). In
\* MaybeDeliver: at the loop condition, with an element consumed, in the loop of
\* the upstream that was asked for the next one (and in its OnNext, and back), in
\* the subscriber's OnNext with a value, an error or the end, and behind it.
Outer  == {"calling", "loop", "next", "after"}
Refill == {"refill", "refillNext", "refillAfter"}
Inner  == {"deliver", "consumed", "value", "error", "cancelAll", "done", "finish"} \cup Refill
Places == {"bottom"} \cup Outer \cup Inner

\* The stacks below: nothing, the user in OnSubscribe, or FinalizeConstruction,
\* which creates upstream k next.
Creating(k) == Call("Create", k, "none", <<>>)
Telling     == Call("UserOnSubscribe", 0, "none", <<>>)
Bottoms     == {<<>>, Telling} \cup {Creating(k) : k \in 1 .. N + 1}

\* A control state: the place; what is below; upstream g that runs below with its
\* event e, and whether it called MaybeDeliver; upstream h that was consumed with
\* its event v, and its next event f.
Contexts == [p : Places, b : Bottoms, called : BOOLEAN,
             g : Upstreams, e : Base!Events,
             h : Upstreams, v : Base!Events, f : Base!Events]

\* Where MaybeDeliver returns to, and where its loop does when h was consumed.
Below(c) == IF c.called THEN Call("After", c.g, c.e, c.b) ELSE c.b
Asking(c) == Call("Consumed", c.h, c.v, Below(c))

\* The stack in context c.
Form(c) ==
  /\ c.p = "bottom"      => stack = c.b
  /\ c.p = "calling"     => stack = Call("OnSubscribe", c.g, "none", c.b)
  /\ c.p = "loop"        => stack = Call("Loop", c.g, "none", c.b)
  /\ c.p = "next"        => stack = Call("OnNext", c.g, c.e, Call("After", c.g, c.e, c.b))
  /\ c.p = "after"       => stack = Call("After", c.g, c.e, c.b)
  /\ c.p = "deliver"     => stack = Call("Deliver", 0, "none", Below(c))
  /\ c.p = "consumed"    => stack = Asking(c)
  /\ c.p = "refill"      => stack = Call("Loop", c.h, "none", Asking(c))
  /\ c.p = "refillNext"  => stack = Call("OnNext", c.h, c.f, Call("After", c.h, c.f, Asking(c)))
  /\ c.p = "refillAfter" => stack = Call("After", c.h, c.f, Asking(c))
  /\ c.p = "value"       => stack = Call("UserOnNext", c.h, c.v,
                                         Call("Deliver", 0, "none", Below(c)))
  /\ c.p = "error"       => stack = Call("UserOnNext", c.h, c.v,
                                         Call("CancelAll", 0, "none", Below(c)))
  /\ c.p = "done"        => stack = Call("UserOnNext", c.h, c.v,
                                         Call("Finish", 0, "none", Below(c)))
  /\ c.p = "cancelAll"   => stack = Call("CancelAll", 0, "none", Below(c))
  /\ c.p = "finish"      => stack = Call("Finish", 0, "none", Below(c))

-----------------------------------------------------------------------------
(* What a context says of upstream k.                                        *)

\* Its Generate executes.
Runs(c, k) == \/ c.g = k /\ (c.p \in {"loop", "next", "after"} \/ (c.p \in Inner /\ c.called))
              \/ c.h = k /\ c.p \in Refill

\* Its event is an argument of OnNext of its upstream subscriber.
Sends(c, k) == (c.p = "next" /\ c.g = k) \/ (c.p = "refillNext" /\ c.h = k)

\* That event is ev.
SendsEvent(c, k, ev) == \/ c.p = "next" /\ c.g = k /\ c.e = ev
                        \/ c.p = "refillNext" /\ c.h = k /\ c.f = ev

\* Its Generate waits for the end of the stream to be taken.
Ending(c, k) == \/ c.p \in {"next", "after"} /\ c.g = k /\ Base!IsEnd(c.e)
                \/ c.p \in Inner /\ c.called /\ c.g = k /\ Base!IsEnd(c.e)
                \/ c.p \in {"refillNext", "refillAfter"} /\ c.h = k /\ Base!IsEnd(c.f)

\* Its last event was the end, and it was consumed; a value was.
Consuming(c, k) == c.h = k /\ c.p \in {"consumed"} \cup Refill
Finishing(c, k) == Consuming(c, k) /\ Base!IsEnd(c.v)
Taking(c, k)    == Consuming(c, k) /\ c.v = "value"

\* Its OnSubscribe was not executed yet.
Fresh(c, k) == phase[k] = "new" \/ (c.p = "calling" /\ c.g = k)

\* It has a subscriber that is part of the merged stream.
Merged(c, k) == subs[k] \/ (~open /\ ~Fresh(c, k))

One(b) == IF b THEN 1 ELSE 0

-----------------------------------------------------------------------------
(* The inductive invariant.                                                  *)

Types == /\ phase \in [Upstreams -> {"new", "alive", "deleted"}]
         /\ requested \in [Upstreams -> Nat]
         /\ generating \in [Upstreams -> BOOLEAN]
         /\ yielded \in [Upstreams -> Nat]
         /\ granted \in [Upstreams -> Nat]
         /\ delivered \in [Upstreams -> Nat]
         /\ mailbox \in [Upstreams -> Nat]
         /\ subs \in [Upstreams -> BOOLEAN]
         /\ nxt \in [Upstreams -> Base!Events \cup {"none"}]
         /\ taken \in [Upstreams -> Nat]
         /\ current \in Upstreams /\ balance \in Balance /\ available \in Balance
         /\ delivering \in BOOLEAN /\ lock \in BOOLEAN /\ open \in BOOLEAN
         /\ fault \in BOOLEAN /\ ended \in BOOLEAN
         /\ asked \in Nat /\ got \in Nat

\* How far the subscription is: FinalizeConstruction creates upstream n next, or
\* the final subscriber has been told.
Subscribing(c) ==
  /\ open => c.b \in {<<>>, Telling} /\ \A k \in Upstreams : phase[k] # "new"
  /\ c.b = Telling => open
  /\ ~open /\ c.b = <<>> =>
       /\ c.p = "bottom" /\ ~lock /\ ~delivering /\ available = 0
       /\ \A k \in Upstreams : phase[k] = "new"
  /\ \A n \in 1 .. N + 1 : c.b = Creating(n) =>
       /\ ~open /\ lock
       /\ \A k \in Upstreams : phase[k] = "new" <=> k >= n
       /\ c.p = "calling" => n = c.g + 1
  /\ c.p = "calling" => ~open
  /\ ~open => /\ balance = 0 /\ got = 0 /\ ~ended /\ current = 1
              /\ \A k \in Upstreams : ~subs[k] /\ taken[k] = 0
              /\ c.p \in {"bottom", "deliver"} \cup Outer

\* Who executes: MaybeDeliver runs once and in a stream that is kept, consumes what
\* was asked for only, and sends the end when nothing else is left.
Control(c) ==
  /\ c.p \notin {"bottom", "after"} => lock
  /\ lock => (delivering <=> c.p \in Inner)
  /\ c.p \in {"consumed"} \cup Refill => HasRequests(balance) /\ subs[c.h]
  /\ c.p \in {"consumed"} \cup Refill => current = IF c.h = N THEN 1 ELSE c.h + 1
  /\ c.p \in {"value"} \cup Refill => c.v = "value"
  /\ c.p \in {"error", "cancelAll"} => c.v = "error"
  /\ c.p = "done" => c.v = "done"
  /\ c.p \in {"done", "finish"} => \A k \in Upstreams : ~subs[k]
  /\ c.p \in Refill => ~(c.called /\ c.g = c.h)
  /\ lock /\ open => \/ \E k \in Upstreams : subs[k]
                     \/ c.p \in {"error", "cancelAll", "done", "finish"}
  /\ ended => HasRequests(balance) /\ (~lock \/ c.p \in {"error", "cancelAll", "done", "finish"})
  /\ open /\ (c.p \in Outer \/ (c.p \in Inner /\ c.called)) => c.g \in Deferred
  /\ c.p \in Inner \ {"deliver"} => available = KMax
  /\ lock /\ HasRequests(available) /\ available # KMax =>
       \E k \in Upstreams : nxt[k] # "none" /\ (open => subs[k])

\* Elements that upstream k was asked for and that were not consumed.
Tokens(c, k) ==
  requested[k] + mailbox[k] + One(Sends(c, k)) + One(nxt[k] # "none")

\* An upstream that executes exists, is part of the merged stream, and generates.
Running(c, k) ==
  /\ Base!Alive(k) => (generating[k] <=> Runs(c, k))
  /\ Base!Alive(k) /\ requested[k] > 0 => Runs(c, k)
  /\ c.p \in {"calling", "loop", "next"} /\ c.g = k => Base!Alive(k)
  /\ c.p \in {"loop", "next"} /\ c.g = k => Merged(c, k)
  /\ c.p \in {"refill", "refillNext"} /\ c.h = k => Base!Alive(k)

\* One element ahead.
OneAhead(c, k) ==
  /\ Fresh(c, k) => /\ requested[k] = 0 /\ mailbox[k] = 0 /\ nxt[k] = "none"
                    /\ ~generating[k] /\ ~Runs(c, k)
                    /\ yielded[k] = 0 /\ taken[k] = 0
  /\ mailbox[k] > 0 => k \in Deferred
  /\ Tokens(c, k) <= 1
  /\ Merged(c, k) /\ ~Finishing(c, k) => Tokens(c, k) = 1
  /\ Finishing(c, k) => nxt[k] = "none"

\* An upstream that is over has its end in next_, or it was consumed, and the other
\* way around; the ones that are not merged any more are over.
Over(c, k) ==
  /\ Merged(c, k) /\ (~Base!Alive(k) \/ Ending(c, k)) =>
       Base!IsEnd(nxt[k]) \/ Sends(c, k) \/ Finishing(c, k)
  /\ Base!IsEnd(nxt[k]) \/ Finishing(c, k) => ~Base!Alive(k) \/ Ending(c, k)
  /\ open /\ ~subs[k] => ~Base!Alive(k) \/ Ending(c, k)
  /\ open /\ ~lock => /\ ~subs[k]
                      /\ ~Base!Alive(k) \/ (c.p = "after" /\ Ending(c, k))

\* Every value was delivered, or is in next_ or on its way.
Conserved(c, k) ==
  /\ Merged(c, k) => yielded[k] = taken[k] + One(SendsEvent(c, k, "value"))
                                  + One(Taking(c, k)) + One(nxt[k] = "value")
  /\ open /\ lock /\ ~subs[k] => taken[k] = yielded[k]

\* What was consumed in n rounds and in the current one, if no upstream is late.
InRound(c, n, k) ==
  subs[k] => taken[k] + One(Consuming(c, k)) = n + One(k < current)

Rounds(c) == Deferred = {} => \E n \in Nat : \A k \in Upstreams : InRound(c, n, k)

\* What the check that fails leaves behind: no stream, and the end in next_.
EndLeft == fault => /\ ~lock
                    /\ \E k \in Upstreams : Base!IsEnd(nxt[k]) /\ ~Base!Alive(k)

Upstream(c, k) == /\ Running(c, k)
                  /\ OneAhead(c, k)
                  /\ Over(c, k)
                  /\ Conserved(c, k)

IInvAt(c) == /\ Form(c)
             /\ Types
             /\ Subscribing(c)
             /\ Control(c)
             /\ \A k \in Upstreams : Upstream(c, k)
             /\ Rounds(c)
             /\ EndLeft

IInv == \E c \in Contexts : IInvAt(c)

-----------------------------------------------------------------------------
(* Call stacks.                                                              *)

AllOps == Base!Ops \cup {"Create", "Deliver", "Consumed", "CancelAll", "Finish",
                         "UserOnSubscribe", "UserOnNext"}
Frames == [op : AllOps, gen : 0 .. N + 1, ev : Base!Events \cup {"none"}]

\* The innermost call of a stack s is op of g with e, and rest is below.
Calls(s, op, g, e, rest) == /\ s # <<>>
                            /\ Head(s).op = op
                            /\ Head(s).gen = g
                            /\ Head(s).ev = e
                            /\ Tail(s) = rest

\* A call from a stack.
LEMMA Called ==
  ASSUME NEW s \in Seq(Frames), NEW op \in AllOps, NEW g \in 0 .. N + 1,
         NEW ev \in Base!Events \cup {"none"}
  PROVE  /\ Call(op, g, ev, s) \in Seq(Frames)
         /\ Calls(Call(op, g, ev, s), op, g, ev, s)
<1> DEFINE f == Base!Frame(op, g, ev)
<1>1. f \in Frames /\ f.op = op /\ f.gen = g /\ f.ev = ev
  BY DEF Base!Frame, Frames
<1>2. Call(op, g, ev, s) = <<f>> \o s
  BY DEF Call, Base!Push
<1> HIDE DEF f
<1>3. /\ <<f>> \o s \in Seq(Frames) /\ <<f>> \o s # <<>>
      /\ Head(<<f>> \o s) = f /\ Tail(<<f>> \o s) = s
  BY <1>1
<1> QED
  BY <1>1, <1>2, <1>3 DEF Calls

\* Upstreams are numbers, and the words that calls are made of.
LEMMA Words ==
  /\ {"OnSubscribe", "OnNext", "Loop", "After", "Create", "Deliver", "Consumed",
      "CancelAll", "Finish", "UserOnSubscribe", "UserOnNext"} \subseteq AllOps
  /\ N \in Nat /\ N >= 1 /\ 0 \in 0 .. N + 1 /\ 1 \in Upstreams
  /\ Upstreams \subseteq 0 .. N + 1
  /\ 1 .. N + 1 \subseteq 0 .. N + 1
  /\ Base!Events = {"value", "done", "error"}
  BY MergeAssumption DEF AllOps, Base!Ops, Base!Events, Upstreams

\* The stacks below a context.
LEMMA BottomCalls ==
  ASSUME NEW c \in Contexts
  PROVE  /\ c.b \in Seq(Frames) /\ Below(c) \in Seq(Frames) /\ Asking(c) \in Seq(Frames)
         /\ c.b = <<>> \/ c.b = Telling \/ \E n \in 1 .. N + 1 : c.b = Creating(n)
         /\ Calls(Telling, "UserOnSubscribe", 0, "none", <<>>)
         /\ \A n \in 1 .. N + 1 : Calls(Creating(n), "Create", n, "none", <<>>)
<1>1. <<>> \in Seq(Frames)
  OBVIOUS
<1>2. Telling \in Seq(Frames) /\ Calls(Telling, "UserOnSubscribe", 0, "none", <<>>)
  BY <1>1, Words, Called DEF Telling
<1>3. \A n \in 1 .. N + 1 :
        Creating(n) \in Seq(Frames) /\ Calls(Creating(n), "Create", n, "none", <<>>)
  BY <1>1, Words, Called DEF Creating
<1>4. c.b = <<>> \/ c.b = Telling \/ \E n \in 1 .. N + 1 : c.b = Creating(n)
  BY DEF Contexts, Bottoms
<1>5. c.b \in Seq(Frames)
  BY <1>1, <1>2, <1>3, <1>4
<1>6. c.g \in 0 .. N + 1 /\ c.h \in 0 .. N + 1 /\ c.e \in Base!Events /\ c.v \in Base!Events
  BY Words DEF Contexts
<1>7. Below(c) \in Seq(Frames)
  BY <1>5, <1>6, Words, Called DEF Below
<1>8. Asking(c) \in Seq(Frames)
  BY <1>6, <1>7, Words, Called DEF Asking
<1> QED
  BY <1>2, <1>3, <1>4, <1>5, <1>7, <1>8

\* What is created next is known from the stack.
LEMMA CreatingOne ==
  ASSUME NEW m \in 1 .. N + 1, NEW n \in 1 .. N + 1, Creating(m) = Creating(n)
  PROVE  m = n
<1>1. <<>> \in Seq(Frames)
  OBVIOUS
<1>2. \A i \in 1 .. N + 1 : Calls(Creating(i), "Create", i, "none", <<>>)
  BY <1>1, Words, Called DEF Creating
<1> QED
  BY <1>2 DEF Calls

\* The three kinds of stacks below differ.
LEMMA BottomsDiffer ==
  ASSUME NEW n \in 1 .. N + 1
  PROVE  Creating(n) # <<>> /\ Telling # <<>> /\ Creating(n) # Telling
<1>1. <<>> \in Seq(Frames)
  OBVIOUS
<1>2. /\ Calls(Creating(n), "Create", n, "none", <<>>)
      /\ Calls(Telling, "UserOnSubscribe", 0, "none", <<>>)
  BY <1>1, Words, Called DEF Creating, Telling
<1> QED
  BY <1>2 DEF Calls

\* The innermost call in every context.
LEMMA TopAt ==
  ASSUME NEW c \in Contexts, Form(c)
  PROVE  /\ c.p = "bottom" => stack = c.b
         /\ c.p = "bottom" /\ stack # <<>> =>
              \/ c.b = Telling /\ Calls(stack, "UserOnSubscribe", 0, "none", <<>>)
              \/ \E n \in 1 .. N + 1 : c.b = Creating(n) /\ Calls(stack, "Create", n, "none", <<>>)
         /\ c.p = "calling" => Calls(stack, "OnSubscribe", c.g, "none", c.b)
         /\ c.p = "loop" => Calls(stack, "Loop", c.g, "none", c.b)
         /\ c.p = "next" => Calls(stack, "OnNext", c.g, c.e, Call("After", c.g, c.e, c.b))
         /\ c.p = "after" => Calls(stack, "After", c.g, c.e, c.b)
         /\ c.p = "deliver" => Calls(stack, "Deliver", 0, "none", Below(c))
         /\ c.p = "consumed" => Calls(stack, "Consumed", c.h, c.v, Below(c))
         /\ c.p = "refill" => Calls(stack, "Loop", c.h, "none", Asking(c))
         /\ c.p = "refillNext" =>
              Calls(stack, "OnNext", c.h, c.f, Call("After", c.h, c.f, Asking(c)))
         /\ c.p = "refillAfter" => Calls(stack, "After", c.h, c.f, Asking(c))
         /\ c.p = "value" =>
              Calls(stack, "UserOnNext", c.h, c.v, Call("Deliver", 0, "none", Below(c)))
         /\ c.p = "error" =>
              Calls(stack, "UserOnNext", c.h, c.v, Call("CancelAll", 0, "none", Below(c)))
         /\ c.p = "done" =>
              Calls(stack, "UserOnNext", c.h, c.v, Call("Finish", 0, "none", Below(c)))
         /\ c.p = "cancelAll" => Calls(stack, "CancelAll", 0, "none", Below(c))
         /\ c.p = "finish" => Calls(stack, "Finish", 0, "none", Below(c))
<1>1. /\ c.g \in 0 .. N + 1 /\ c.h \in 0 .. N + 1
      /\ c.e \in Base!Events /\ c.v \in Base!Events /\ c.f \in Base!Events
  BY Words DEF Contexts
<1>2. c.b \in Seq(Frames) /\ Below(c) \in Seq(Frames) /\ Asking(c) \in Seq(Frames)
  BY BottomCalls
<1>3. ASSUME NEW s \in Seq(Frames), NEW op \in AllOps, NEW g \in 0 .. N + 1,
             NEW ev \in Base!Events \cup {"none"}
      PROVE  Call(op, g, ev, s) \in Seq(Frames) /\ Calls(Call(op, g, ev, s), op, g, ev, s)
  BY Called
<1>4. /\ Call("After", c.g, c.e, c.b) \in Seq(Frames)
      /\ Call("After", c.h, c.f, Asking(c)) \in Seq(Frames)
      /\ Call("Deliver", 0, "none", Below(c)) \in Seq(Frames)
      /\ Call("CancelAll", 0, "none", Below(c)) \in Seq(Frames)
      /\ Call("Finish", 0, "none", Below(c)) \in Seq(Frames)
  BY <1>1, <1>2, <1>3, Words
<1>5. CASE c.p = "bottom"
  BY <1>5, BottomCalls DEF Form
<1>6. "none" \in Base!Events \cup {"none"} /\ Base!Events \subseteq Base!Events \cup {"none"}
  OBVIOUS
<1>7. /\ Calls(Call("OnSubscribe", c.g, "none", c.b), "OnSubscribe", c.g, "none", c.b)
      /\ Calls(Call("Loop", c.g, "none", c.b), "Loop", c.g, "none", c.b)
      /\ Calls(Call("OnNext", c.g, c.e, Call("After", c.g, c.e, c.b)),
               "OnNext", c.g, c.e, Call("After", c.g, c.e, c.b))
      /\ Calls(Call("After", c.g, c.e, c.b), "After", c.g, c.e, c.b)
  BY <1>1, <1>2, <1>3, <1>4, <1>6, Words
<1>8. /\ Calls(Call("Loop", c.h, "none", Asking(c)), "Loop", c.h, "none", Asking(c))
      /\ Calls(Call("OnNext", c.h, c.f, Call("After", c.h, c.f, Asking(c))),
               "OnNext", c.h, c.f, Call("After", c.h, c.f, Asking(c)))
      /\ Calls(Call("After", c.h, c.f, Asking(c)), "After", c.h, c.f, Asking(c))
      /\ Calls(Asking(c), "Consumed", c.h, c.v, Below(c))
  <2>1. Calls(Call("Consumed", c.h, c.v, Below(c)), "Consumed", c.h, c.v, Below(c))
    BY <1>1, <1>2, <1>3, <1>6, Words
  <2> QED
    BY <1>1, <1>2, <1>3, <1>4, <1>6, <2>1, Words DEF Asking
<1>9. /\ Calls(Call("Deliver", 0, "none", Below(c)), "Deliver", 0, "none", Below(c))
      /\ Calls(Call("CancelAll", 0, "none", Below(c)), "CancelAll", 0, "none", Below(c))
      /\ Calls(Call("Finish", 0, "none", Below(c)), "Finish", 0, "none", Below(c))
      /\ Calls(Call("UserOnNext", c.h, c.v, Call("Deliver", 0, "none", Below(c))),
               "UserOnNext", c.h, c.v, Call("Deliver", 0, "none", Below(c)))
      /\ Calls(Call("UserOnNext", c.h, c.v, Call("CancelAll", 0, "none", Below(c))),
               "UserOnNext", c.h, c.v, Call("CancelAll", 0, "none", Below(c)))
      /\ Calls(Call("UserOnNext", c.h, c.v, Call("Finish", 0, "none", Below(c))),
               "UserOnNext", c.h, c.v, Call("Finish", 0, "none", Below(c)))
  BY <1>1, <1>2, <1>3, <1>4, <1>6, Words
<1>10. CASE c.p \in {"calling", "loop", "next", "after"}
  BY <1>7, <1>10 DEF Form
<1>11. CASE c.p \in {"consumed", "refill", "refillNext", "refillAfter"}
  BY <1>8, <1>11 DEF Form
<1>12. CASE c.p \in {"deliver", "cancelAll", "finish", "value", "error", "done"}
  BY <1>9, <1>12 DEF Form
<1> QED
  BY <1>5, <1>10, <1>11, <1>12 DEF Contexts, Places, Outer, Inner, Refill

\* The innermost call tells the place.
LEMMA PlaceOf ==
  ASSUME NEW c \in Contexts, Form(c)
  PROVE  /\ IsTop("Create") => c.p = "bottom" /\ c.b = Creating(Top.gen) /\ Top.gen \in 1 .. N + 1
         /\ IsTop("OnSubscribe") => c.p = "calling"
         /\ IsTop("Loop") => c.p \in {"loop", "refill"}
         /\ IsTop("OnNext") => c.p \in {"next", "refillNext"}
         /\ IsTop("After") => c.p \in {"after", "refillAfter"}
         /\ IsTop("Deliver") => c.p = "deliver"
         /\ IsTop("Consumed") => c.p = "consumed"
         /\ IsTop("CancelAll") => c.p = "cancelAll"
         /\ IsTop("Finish") => c.p = "finish"
         /\ IsTop("UserOnSubscribe") => c.p = "bottom" /\ c.b = Telling
         /\ IsTop("UserOnNext") => c.p \in {"value", "error", "done"}
         /\ stack = <<>> => c.p = "bottom" /\ c.b = <<>>
         /\ UserActive => \/ c.p = "bottom" /\ c.b \in {<<>>, Telling}
                          \/ c.p \in {"value", "error", "done"}
<1>1. c.p \in Places
  BY DEF Contexts
<1>2. CASE c.p = "bottom"
  BY <1>2, TopAt DEF IsTop, Top, Calls, UserActive
<1>3. CASE c.p \in {"calling", "loop", "next", "after", "refill", "refillNext", "refillAfter"}
  BY <1>3, TopAt DEF IsTop, Top, Calls, UserActive
<1>4. CASE c.p \in {"deliver", "consumed", "cancelAll", "finish", "value", "error", "done"}
  BY <1>4, TopAt DEF IsTop, Top, Calls, UserActive
<1> QED
  BY <1>1, <1>2, <1>3, <1>4 DEF Places, Outer, Inner, Refill

-----------------------------------------------------------------------------
(* The steps of the upstreams.                                               *)

\* What a Request of one element does to a counter that is limited.
LEMMA OneMore ==
  ASSUME UserIsCareful, NEW r \in Nat, r = 0
  PROVE  Base!AddTo(r, Ahead) = 1
  BY KMaxAssumption DEF UserIsCareful, Base!AddTo, Ahead

\* The loop takes the one element off.
LEMMA OneLess ==
  ASSUME UserIsCareful, NEW r \in Nat, r <= 1
  PROVE  /\ Base!HasRequests(r) => r = 1
         /\ r = 1 => Base!CanRemove(r, 1) /\ Base!RemoveFrom(r, 1) = 0
  BY KMaxAssumption DEF UserIsCareful, Base!HasRequests, Base!CanRemove, Base!RemoveFrom

\* An upstream sends an event: one that runs below MaybeDeliver, or before it.
LEMMA ProduceInv ==
  ASSUME UserIsCareful, NEW c \in Contexts, IInvAt(c), ~fault,
         c.p = "loop", Base!Produce(c.g), UNCHANGED <<mailbox, mergeVars, userVars>>
  PROVE  IInv'
<1>1. Form(c) /\ Types /\ Subscribing(c) /\ Control(c) /\ Rounds(c)
  BY DEF IInvAt
<1>2. /\ c.p = "loop" /\ Tail(stack) = c.b /\ c.g \in Upstreams /\ Base!Alive(c.g)
      /\ requested[c.g] = 1
  <2>1. /\ Running(c, c.g) /\ OneAhead(c, c.g) /\ c.g \in Upstreams
    BY DEF Contexts, IInvAt, Upstream
  <2>2. /\ requested[c.g] \in Nat /\ mailbox[c.g] \in Nat
    BY <1>1, <2>1 DEF Types
  <2>3. requested[c.g] <= 1
    BY <2>1, <2>2 DEF OneAhead, Tokens, One
  <2>4. requested[c.g] = 1
    BY <2>2, <2>3, OneLess DEF Base!Produce
  <2> QED
    BY <1>1, <2>1, <2>4, TopAt DEF Running, Calls
<1>3. PICK ev \in Base!Events :
       /\ yielded' = [yielded EXCEPT ![c.g] = IF Base!IsEnd(ev) THEN @ ELSE @ + 1]
       /\ stack' = Call("OnNext", c.g, ev, Call("After", c.g, ev, c.b))
  BY <1>2, MergeAssumption DEF Base!Produce, Base!Generated, Base!Events, Call
<1> DEFINE d == [c EXCEPT !.p = "next", !.e = ev]
<1>4. /\ d \in Contexts
      /\ d.p = "next" /\ d.b = c.b /\ d.called = c.called /\ d.g = c.g
      /\ d.e = ev /\ d.h = c.h /\ d.v = c.v /\ d.f = c.f
  BY <1>2 DEF Contexts, Places, Outer, Inner, Refill, Bottoms
<1> HIDE DEF d
<1>5. /\ stack' = Call("OnNext", c.g, ev, Call("After", c.g, ev, c.b))
      /\ yielded' = [yielded EXCEPT ![c.g] = IF ev = "value" THEN yielded[c.g] + 1 ELSE yielded[c.g]]
      /\ requested' = [requested EXCEPT ![c.g] = 0]
      /\ delivered' = [delivered EXCEPT ![c.g] = @ + 1]
      /\ fault' = FALSE
      /\ UNCHANGED <<phase, generating, granted, mailbox, subs, nxt, current, balance,
                      available, delivering, lock, open, asked, got, taken, ended>>
  <2>1. Base!CanRemove(1, 1) /\ Base!RemoveFrom(1, 1) = 0
    BY OneLess
  <2>2. Base!IsEnd(ev) <=> ev # "value"
    BY DEF Base!IsEnd, Base!Events
  <2>3. /\ fault' = FALSE /\ requested' = [requested EXCEPT ![c.g] = 0]
        /\ delivered' = [delivered EXCEPT ![c.g] = @ + 1]
        /\ UNCHANGED <<phase, generating, granted>>
    BY <1>2, <2>1 DEF Base!Produce
  <2> QED
    BY <1>3, <2>2, <2>3 DEF mergeVars, userVars
<1>6. Form(d)'
  BY <1>1, <1>2, <1>4, <1>5 DEF Form, Below, Asking
<1>7. Types'
  <2>1. yielded[c.g] \in Nat /\ delivered[c.g] \in Nat
    BY <1>1, <1>2 DEF Types
  <2>2. (IF ev = "value" THEN yielded[c.g] + 1 ELSE yielded[c.g]) \in Nat
    BY <2>1
  <2>3. delivered[c.g] + 1 \in Nat
    BY <2>1
  <2>4. yielded' \in [Upstreams -> Nat] /\ delivered' \in [Upstreams -> Nat]
    BY <1>1, <1>5, <2>2, <2>3 DEF Types
  <2> QED
    BY <1>1, <1>5, <2>4 DEF Types
<1>8. Subscribing(d)'
  BY <1>1, <1>2, <1>4, <1>5 DEF Types, Subscribing, Outer, Inner, Refill
<1>9. Control(d)'
  BY <1>1, <1>2, <1>4, <1>5 DEF Types, Control, Outer, Inner, Refill
<1>10. ASSUME NEW k \in Upstreams
       PROVE  Upstream(d, k)'
  <2>1. Upstream(c, k)
    BY DEF IInvAt
  <2>2. /\ requested'[k] = IF k = c.g THEN 0 ELSE requested[k]
        /\ yielded'[k] = IF k = c.g /\ ev = "value" THEN yielded[k] + 1 ELSE yielded[k]
        /\ requested[k] \in Nat /\ mailbox[k] \in Nat /\ yielded[k] \in Nat
        /\ taken[k] \in Nat
        /\ nxt[k] \in Base!Events \cup {"none"}
    BY <1>1, <1>2, <1>5 DEF Types
  <2>3. k = c.g => nxt[k] = "none" /\ mailbox[k] = 0
    BY <1>2, <2>1, <2>2 DEF Upstream, OneAhead, Tokens, One
  <2>4. /\ SendsEvent(d, k, "value") <=> k = c.g /\ ev = "value"
        /\ ~SendsEvent(c, k, "value") /\ ~Sends(c, k)
        /\ Sends(d, k) <=> k = c.g
        /\ Taking(d, k) <=> Taking(c, k)
        /\ Finishing(d, k) <=> Finishing(c, k)
    BY <1>2, <1>4 DEF SendsEvent, Sends, Taking, Finishing, Consuming, Refill
  <2>5. Merged(d, k)' <=> Merged(c, k)
    BY <1>1, <1>2, <1>4, <1>5 DEF Merged, Fresh
  <2>6. /\ Fresh(d, k)' => Fresh(c, k) /\ k # c.g
        /\ Runs(d, k) <=> Runs(c, k)
    BY <1>1, <1>2, <1>4, <1>5 DEF Fresh, Runs, Inner, Refill, Base!Alive
  <2>7. Running(d, k)'
    BY <1>1, <1>2, <1>4, <1>5, <2>1, <2>2
       DEF Upstream, Running, Merged, Fresh, Runs, Base!Alive, Inner, Refill, Types
  <2>8. OneAhead(d, k)'
    <3>1. CASE k = c.g
      BY <1>5, <2>2, <2>3, <2>4, <2>6, <3>1 DEF OneAhead, Tokens, One
    <3>2. CASE k # c.g
      <4>1. Tokens(d, k)' = Tokens(c, k)
        BY <1>5, <2>2, <2>4, <3>2 DEF Tokens, One, Sends
      <4> QED
        BY <1>2, <1>4, <1>5, <2>1, <2>2, <2>4, <2>5, <2>6, <3>2, <4>1
           DEF Upstream, OneAhead, Finishing, Consuming, Fresh
    <3> QED
      BY <3>1, <3>2
  <2>9. Over(d, k)'
    BY <1>1, <1>2, <1>4, <1>5, <2>1, <2>2
       DEF Upstream, Over, Finishing, Consuming, Sends, Ending, Merged, Fresh, Base!Alive,
           Inner, Refill, Types
  <2>10. Conserved(d, k)'
    <3>1. One(SendsEvent(d, k, "value"))' = IF k = c.g /\ ev = "value" THEN 1 ELSE 0
      BY <2>4 DEF One, SendsEvent
    <3>2. One(Taking(d, k))' = One(Taking(c, k))
      BY <2>4 DEF One, Taking, Consuming
    <3>3. One(Taking(c, k)) \in Nat /\ One(SendsEvent(c, k, "value")) = 0
      BY <2>4 DEF One
    <3>4. /\ taken'[k] = taken[k] /\ nxt'[k] = nxt[k] /\ One(nxt[k] = "value") \in Nat
          /\ UNCHANGED <<open, lock, subs>>
      BY <1>5 DEF One
    <3> HIDE DEF d
    <3>5. Conserved(c, k)
      BY <2>1 DEF Upstream
    <3>6. Merged(c, k) => One(nxt[k] = "value") = One(nxt'[k] = "value")
      BY <3>4
    <3>7. k = c.g /\ open => subs[k]
      BY <1>1, <1>2, <2>1 DEF Upstream, Running, Control, Merged, Refill
    <3> QED
      BY <2>2, <2>5, <3>1, <3>2, <3>3, <3>4, <3>5, <3>6, <3>7 DEF Conserved
  <2> QED
    BY <2>7, <2>8, <2>9, <2>10 DEF Upstream
<1>11. Rounds(d)'
  <2>1. \A n \in Nat, k \in Upstreams : InRound(c, n, k) => InRound(d, n, k)'
    BY <1>1, <1>2, <1>4, <1>5 DEF Types, InRound, Consuming, One, Refill
  <2> QED
    BY <1>1, <1>5, <2>1 DEF Rounds
<1>12. EndLeft'
  BY <1>5 DEF EndLeft
<1>13. IInvAt(d)'
  BY <1>6, <1>7, <1>8, <1>9, <1>10, <1>11, <1>12 DEF IInvAt
<1> QED
  BY <1>4, <1>13 DEF IInv

\* An upstream that was asked by MaybeDeliver sends an event.
LEMMA RefillProduceInv ==
  ASSUME UserIsCareful, NEW c \in Contexts, IInvAt(c), ~fault,
         c.p = "refill", Base!Produce(c.h), UNCHANGED <<mailbox, mergeVars, userVars>>
  PROVE  IInv'
<1>1. Form(c) /\ Types /\ Subscribing(c) /\ Control(c) /\ Rounds(c)
  BY DEF IInvAt
<1>2. /\ c.p = "refill" /\ Tail(stack) = Asking(c) /\ c.h \in Upstreams /\ Base!Alive(c.h)
      /\ requested[c.h] = 1
  <2>1. /\ Running(c, c.h) /\ OneAhead(c, c.h) /\ c.h \in Upstreams
    BY DEF Contexts, IInvAt, Upstream
  <2>2. /\ requested[c.h] \in Nat /\ mailbox[c.h] \in Nat
    BY <1>1, <2>1 DEF Types
  <2>3. requested[c.h] <= 1
    BY <2>1, <2>2 DEF OneAhead, Tokens, One
  <2>4. requested[c.h] = 1
    BY <2>2, <2>3, OneLess DEF Base!Produce
  <2> QED
    BY <1>1, <2>1, <2>4, TopAt DEF Running, Calls
<1>3. PICK ev \in Base!Events :
       /\ yielded' = [yielded EXCEPT ![c.h] = IF Base!IsEnd(ev) THEN @ ELSE @ + 1]
       /\ stack' = Call("OnNext", c.h, ev, Call("After", c.h, ev, Asking(c)))
  BY <1>2, MergeAssumption DEF Base!Produce, Base!Generated, Base!Events, Call
<1> DEFINE d == [c EXCEPT !.p = "refillNext", !.f = ev]
<1>4. /\ d \in Contexts
      /\ d.p = "refillNext" /\ d.b = c.b /\ d.called = c.called /\ d.g = c.g
      /\ d.e = c.e /\ d.h = c.h /\ d.v = c.v /\ d.f = ev
  BY <1>2 DEF Contexts, Places, Outer, Inner, Refill, Bottoms
<1> HIDE DEF d
<1>5. /\ stack' = Call("OnNext", c.h, ev, Call("After", c.h, ev, Asking(c)))
      /\ yielded' = [yielded EXCEPT ![c.h] = IF ev = "value" THEN yielded[c.h] + 1 ELSE yielded[c.h]]
      /\ requested' = [requested EXCEPT ![c.h] = 0]
      /\ delivered' = [delivered EXCEPT ![c.h] = @ + 1]
      /\ fault' = FALSE
      /\ UNCHANGED <<phase, generating, granted, mailbox, subs, nxt, current, balance,
                      available, delivering, lock, open, asked, got, taken, ended>>
  <2>1. Base!CanRemove(1, 1) /\ Base!RemoveFrom(1, 1) = 0
    BY OneLess
  <2>2. Base!IsEnd(ev) <=> ev # "value"
    BY DEF Base!IsEnd, Base!Events
  <2>3. /\ fault' = FALSE /\ requested' = [requested EXCEPT ![c.h] = 0]
        /\ delivered' = [delivered EXCEPT ![c.h] = @ + 1]
        /\ UNCHANGED <<phase, generating, granted>>
    BY <1>2, <2>1 DEF Base!Produce
  <2> QED
    BY <1>3, <2>2, <2>3 DEF mergeVars, userVars
<1>6. Form(d)'
  BY <1>1, <1>2, <1>4, <1>5 DEF Form, Below, Asking
<1>7. Types'
  <2>1. yielded[c.h] \in Nat /\ delivered[c.h] \in Nat
    BY <1>1, <1>2 DEF Types
  <2>2. (IF ev = "value" THEN yielded[c.h] + 1 ELSE yielded[c.h]) \in Nat
    BY <2>1
  <2>3. delivered[c.h] + 1 \in Nat
    BY <2>1
  <2>4. yielded' \in [Upstreams -> Nat] /\ delivered' \in [Upstreams -> Nat]
    BY <1>1, <1>5, <2>2, <2>3 DEF Types
  <2> QED
    BY <1>1, <1>5, <2>4 DEF Types
<1>8. Subscribing(d)'
  BY <1>1, <1>2, <1>4, <1>5 DEF Types, Subscribing, Outer, Inner, Refill
<1>9. Control(d)'
  BY <1>1, <1>2, <1>4, <1>5 DEF Types, Control, Outer, Inner, Refill
<1>10. ASSUME NEW k \in Upstreams
       PROVE  Upstream(d, k)'
  <2>1. Upstream(c, k)
    BY DEF IInvAt
  <2>2. /\ requested'[k] = IF k = c.h THEN 0 ELSE requested[k]
        /\ yielded'[k] = IF k = c.h /\ ev = "value" THEN yielded[k] + 1 ELSE yielded[k]
        /\ requested[k] \in Nat /\ mailbox[k] \in Nat /\ yielded[k] \in Nat
        /\ taken[k] \in Nat
        /\ nxt[k] \in Base!Events \cup {"none"}
    BY <1>1, <1>2, <1>5 DEF Types
  <2>3. k = c.h => nxt[k] = "none" /\ mailbox[k] = 0
    BY <1>2, <2>1, <2>2 DEF Upstream, OneAhead, Tokens, One
  <2>4. /\ SendsEvent(d, k, "value") <=> k = c.h /\ ev = "value"
        /\ ~SendsEvent(c, k, "value") /\ ~Sends(c, k)
        /\ Sends(d, k) <=> k = c.h
        /\ Taking(d, k) <=> Taking(c, k)
        /\ Finishing(d, k) <=> Finishing(c, k)
    BY <1>2, <1>4 DEF SendsEvent, Sends, Taking, Finishing, Consuming, Refill
  <2>5. Merged(d, k)' <=> Merged(c, k)
    BY <1>1, <1>2, <1>4, <1>5 DEF Merged, Fresh
  <2>6. /\ Fresh(d, k)' => Fresh(c, k) /\ k # c.h
        /\ Runs(d, k) <=> Runs(c, k)
    BY <1>1, <1>2, <1>4, <1>5 DEF Fresh, Runs, Inner, Refill, Base!Alive
  <2>7. Running(d, k)'
    BY <1>1, <1>2, <1>4, <1>5, <2>1, <2>2
       DEF Upstream, Running, Merged, Fresh, Runs, Base!Alive, Inner, Refill, Types
  <2>8. OneAhead(d, k)'
    <3>1. CASE k = c.h
      BY <1>5, <2>2, <2>3, <2>4, <2>6, <3>1 DEF OneAhead, Tokens, One
    <3>2. CASE k # c.h
      <4>1. Tokens(d, k)' = Tokens(c, k)
        BY <1>5, <2>2, <2>4, <3>2 DEF Tokens, One, Sends
      <4> QED
        BY <1>2, <1>4, <1>5, <2>1, <2>2, <2>4, <2>5, <2>6, <3>2, <4>1
           DEF Upstream, OneAhead, Finishing, Consuming, Fresh
    <3> QED
      BY <3>1, <3>2
  <2>9. Over(d, k)'
    BY <1>1, <1>2, <1>4, <1>5, <2>1, <2>2
       DEF Upstream, Over, Finishing, Consuming, Sends, Ending, Merged, Fresh, Base!Alive,
           Inner, Refill, Types
  <2>10. Conserved(d, k)'
    <3>1. One(SendsEvent(d, k, "value"))' = IF k = c.h /\ ev = "value" THEN 1 ELSE 0
      BY <2>4 DEF One, SendsEvent
    <3>2. One(Taking(d, k))' = One(Taking(c, k))
      BY <2>4 DEF One, Taking, Consuming
    <3>3. One(Taking(c, k)) \in Nat /\ One(SendsEvent(c, k, "value")) = 0
      BY <2>4 DEF One
    <3>4. /\ taken'[k] = taken[k] /\ nxt'[k] = nxt[k] /\ One(nxt[k] = "value") \in Nat
          /\ UNCHANGED <<open, lock, subs>>
      BY <1>5 DEF One
    <3> HIDE DEF d
    <3>5. Conserved(c, k)
      BY <2>1 DEF Upstream
    <3>6. Merged(c, k) => One(nxt[k] = "value") = One(nxt'[k] = "value")
      BY <3>4
    <3>7. k = c.h /\ open => subs[k]
      BY <1>1, <1>2, <2>1 DEF Upstream, Running, Control, Merged, Refill
    <3> QED
      BY <2>2, <2>5, <3>1, <3>2, <3>3, <3>4, <3>5, <3>6, <3>7 DEF Conserved
  <2> QED
    BY <2>7, <2>8, <2>9, <2>10 DEF Upstream
<1>11. Rounds(d)'
  <2>1. \A n \in Nat, k \in Upstreams : InRound(c, n, k) => InRound(d, n, k)'
    BY <1>1, <1>2, <1>4, <1>5 DEF Types, InRound, Consuming, One, Refill
  <2> QED
    BY <1>1, <1>5, <2>1 DEF Rounds
<1>12. EndLeft'
  BY <1>5 DEF EndLeft
<1>13. IInvAt(d)'
  BY <1>6, <1>7, <1>8, <1>9, <1>10, <1>11, <1>12 DEF IInvAt
<1> QED
  BY <1>4, <1>13 DEF IInv

\* The loop of an upstream ends.
LEMMA PauseInv ==
  ASSUME UserIsCareful, NEW c \in Contexts, IInvAt(c), ~fault,
         c.p = "loop", Base!Pause(c.g), UNCHANGED <<mailbox, mergeVars, userVars>>
  PROVE  IInv'
<1>1. Form(c) /\ Types /\ Subscribing(c) /\ Control(c) /\ Rounds(c)
  BY DEF IInvAt
<1>2. c.p = "loop" /\ Tail(stack) = c.b /\ c.g \in Upstreams /\ Base!Alive(c.g)
  <2>1. Running(c, c.g) /\ c.g \in Upstreams
    BY DEF Contexts, IInvAt, Upstream
  <2> QED
    BY <1>1, <2>1, TopAt DEF Running, Calls
<1> DEFINE d == [c EXCEPT !.p = "bottom"]
<1>3. /\ d \in Contexts
      /\ d.p = "bottom" /\ d.b = c.b /\ d.called = c.called /\ d.g = c.g
      /\ d.e = c.e /\ d.h = c.h /\ d.v = c.v /\ d.f = c.f
  BY <1>2 DEF Contexts, Places, Outer, Inner, Refill, Bottoms
<1> HIDE DEF d
<1>4. /\ stack' = c.b
      /\ generating' = [generating EXCEPT ![c.g] = FALSE]
      /\ fault' = FALSE
      /\ requested' = requested /\ ~(requested[c.g] > 0)
      /\ UNCHANGED <<phase, yielded, granted, delivered, mailbox, subs, nxt, current, balance,
                      available, delivering, lock, open, asked, got, taken, ended>>
  BY <1>2 DEF Base!Pause, Base!HasRequests, Base!history, mergeVars, userVars
<1>5. Form(d)'
  BY <1>1, <1>2, <1>3, <1>4 DEF Form, Below, Asking
<1>6. Types'
  BY <1>1, <1>4 DEF Types
<1>7. Subscribing(d)'
  BY <1>1, <1>2, <1>3, <1>4 DEF Types, Subscribing, Outer, Inner, Refill
<1>8. Control(d)'
  BY <1>1, <1>2, <1>3, <1>4 DEF Types, Control, Outer, Inner, Refill
<1>9. ASSUME NEW k \in Upstreams
      PROVE  Upstream(d, k)'
  <2>1. Upstream(c, k)
    BY DEF IInvAt
  <2>2. /\ k = c.g => ~generating'[k] /\ ~(requested[k] > 0)
        /\ k # c.g => generating'[k] = generating[k]
    BY <1>1, <1>2, <1>4 DEF Types
  <2>3. Running(d, k)'
    BY <1>1, <1>2, <1>3, <1>4, <2>1, <2>2
       DEF Upstream, Running, Merged, Fresh, Runs, Base!Alive, Inner, Refill, Types, Control
  <2>4. OneAhead(d, k)'
    BY <1>1, <1>2, <1>3, <1>4, <2>1, <2>2
       DEF Upstream, OneAhead, Tokens, One, Finishing, Consuming, Sends, Merged, Fresh, Runs,
           Inner, Refill, Types
  <2>5. Over(d, k)'
    BY <1>1, <1>2, <1>3, <1>4, <2>1, <2>2
       DEF Upstream, Over, Finishing, Consuming, Sends, Ending, Merged, Fresh, Base!Alive,
           Inner, Refill, Types
  <2>6. Conserved(d, k)'
    BY <1>1, <1>2, <1>3, <1>4, <2>1, <2>2
       DEF Upstream, Conserved, One, Taking, Consuming, SendsEvent, Merged, Fresh, Inner,
           Refill, Types
  <2> QED
    BY <2>3, <2>4, <2>5, <2>6 DEF Upstream
<1>10. Rounds(d)'
  <2>1. \A n \in Nat, k \in Upstreams : InRound(c, n, k) => InRound(d, n, k)'
    BY <1>1, <1>2, <1>3, <1>4 DEF Types, InRound, Consuming, One, Refill
  <2> QED
    BY <1>1, <1>4, <2>1 DEF Rounds
<1>11. EndLeft'
  BY <1>4 DEF EndLeft
<1>12. IInvAt(d)'
  BY <1>5, <1>6, <1>7, <1>8, <1>9, <1>10, <1>11 DEF IInvAt
<1> QED
  BY <1>3, <1>12 DEF IInv

\* The loop of an upstream that was asked by MaybeDeliver ends.
LEMMA RefillPauseInv ==
  ASSUME UserIsCareful, NEW c \in Contexts, IInvAt(c), ~fault,
         c.p = "refill", Base!Pause(c.h), UNCHANGED <<mailbox, mergeVars, userVars>>
  PROVE  IInv'
<1>1. Form(c) /\ Types /\ Subscribing(c) /\ Control(c) /\ Rounds(c)
  BY DEF IInvAt
<1>2. c.p = "refill" /\ Tail(stack) = Asking(c) /\ c.h \in Upstreams /\ Base!Alive(c.h)
  <2>1. Running(c, c.h) /\ c.h \in Upstreams
    BY DEF Contexts, IInvAt, Upstream
  <2> QED
    BY <1>1, <2>1, TopAt DEF Running, Calls
<1> DEFINE d == [c EXCEPT !.p = "consumed"]
<1>3. /\ d \in Contexts
      /\ d.p = "consumed" /\ d.b = c.b /\ d.called = c.called /\ d.g = c.g
      /\ d.e = c.e /\ d.h = c.h /\ d.v = c.v /\ d.f = c.f
  BY <1>2 DEF Contexts, Places, Outer, Inner, Refill, Bottoms
<1> HIDE DEF d
<1>4. /\ stack' = Asking(c)
      /\ generating' = [generating EXCEPT ![c.h] = FALSE]
      /\ fault' = FALSE
      /\ requested' = requested /\ ~(requested[c.h] > 0)
      /\ UNCHANGED <<phase, yielded, granted, delivered, mailbox, subs, nxt, current, balance,
                      available, delivering, lock, open, asked, got, taken, ended>>
  BY <1>2 DEF Base!Pause, Base!HasRequests, Base!history, mergeVars, userVars
<1>5. Form(d)'
  BY <1>1, <1>2, <1>3, <1>4 DEF Form, Below, Asking
<1>6. Types'
  BY <1>1, <1>4 DEF Types
<1>7. Subscribing(d)'
  BY <1>1, <1>2, <1>3, <1>4 DEF Types, Subscribing, Outer, Inner, Refill
<1>8. Control(d)'
  BY <1>1, <1>2, <1>3, <1>4 DEF Types, Control, Outer, Inner, Refill
<1>9. ASSUME NEW k \in Upstreams
      PROVE  Upstream(d, k)'
  <2>1. Upstream(c, k)
    BY DEF IInvAt
  <2>2. /\ k = c.h => ~generating'[k] /\ ~(requested[k] > 0)
        /\ k # c.h => generating'[k] = generating[k]
    BY <1>1, <1>2, <1>4 DEF Types
  <2>3. Running(d, k)'
    BY <1>1, <1>2, <1>3, <1>4, <2>1, <2>2
       DEF Upstream, Running, Merged, Fresh, Runs, Base!Alive, Inner, Refill, Types, Control
  <2>4. OneAhead(d, k)'
    BY <1>1, <1>2, <1>3, <1>4, <2>1, <2>2
       DEF Upstream, OneAhead, Tokens, One, Finishing, Consuming, Sends, Merged, Fresh, Runs,
           Inner, Refill, Types
  <2>5. Over(d, k)'
    BY <1>1, <1>2, <1>3, <1>4, <2>1, <2>2
       DEF Upstream, Over, Finishing, Consuming, Sends, Ending, Merged, Fresh, Base!Alive,
           Inner, Refill, Types
  <2>6. Conserved(d, k)'
    BY <1>1, <1>2, <1>3, <1>4, <2>1, <2>2
       DEF Upstream, Conserved, One, Taking, Consuming, SendsEvent, Merged, Fresh, Inner,
           Refill, Types
  <2> QED
    BY <2>3, <2>4, <2>5, <2>6 DEF Upstream
<1>10. Rounds(d)'
  <2>1. \A n \in Nat, k \in Upstreams : InRound(c, n, k) => InRound(d, n, k)'
    BY <1>1, <1>2, <1>3, <1>4 DEF Types, InRound, Consuming, One, Refill
  <2> QED
    BY <1>1, <1>4, <2>1 DEF Rounds
<1>11. EndLeft'
  BY <1>4 DEF EndLeft
<1>12. IInvAt(d)'
  BY <1>5, <1>6, <1>7, <1>8, <1>9, <1>10, <1>11 DEF IInvAt
<1> QED
  BY <1>3, <1>12 DEF IInv

\* OnNext of the upstream subscriber returned, and the loop of the upstream continues.
LEMMA AfterLoopInv ==
  ASSUME UserIsCareful, NEW c \in Contexts, IInvAt(c), ~fault,
         c.p = "after", Base!Alive(c.g), ~Base!IsEnd(c.e),
         Base!AfterOnNext, UNCHANGED <<mailbox, mergeVars, userVars>>
  PROVE  IInv'
<1>1. Form(c) /\ Types /\ Subscribing(c) /\ Control(c) /\ Rounds(c)
  BY DEF IInvAt
<1>2. /\ c.p = "after" /\ Tail(stack) = c.b /\ c.g \in Upstreams /\ phase[c.g] # "new"
      /\ Head(stack).gen = c.g /\ Head(stack).ev = c.e
      /\ (Base!Alive(c.g) /\ ~Base!IsEnd(c.e))
  <2>1. c.g \in Upstreams /\ OneAhead(c, c.g)
    BY DEF Contexts, IInvAt, Upstream
  <2>2. Runs(c, c.g)
    BY DEF Runs, Refill, Inner
  <2>3. phase[c.g] # "new"
    BY <2>1, <2>2 DEF OneAhead, Fresh
  <2> QED
    BY <1>1, <2>1, <2>3, TopAt DEF Calls
<1>3. lock /\ Merged(c, c.g)
  <2>1. c.g \in Upstreams /\ Over(c, c.g) /\ ~Ending(c, c.g) /\ c.b \in Bottoms
    BY <1>2 DEF Contexts, IInvAt, Upstream, Ending, Inner, Refill
  <2>2. open => lock /\ subs[c.g]
    BY <1>2, <2>1 DEF Over
  <2>3. ~open => lock
    BY <1>1, <1>2, <2>1 DEF Subscribing, Bottoms
  <2> QED
    BY <1>2, <2>2, <2>3 DEF Merged, Fresh
<1> DEFINE d == [c EXCEPT !.p = "loop"]
<1>4. /\ d \in Contexts
      /\ d.p = "loop" /\ d.b = c.b /\ d.called = c.called /\ d.g = c.g
      /\ d.e = c.e /\ d.h = c.h /\ d.v = c.v /\ d.f = c.f
  BY <1>2 DEF Contexts, Places, Outer, Inner, Refill, Bottoms
<1> HIDE DEF d
<1>5. /\ stack' = Call("Loop", c.g, "none", c.b)
      /\ phase' = phase
      /\ UNCHANGED <<requested, generating, yielded, granted, delivered, fault, mailbox, subs,
                      nxt, current, balance, available, delivering, lock, open, asked, got,
                      taken, ended>>
  BY <1>1, <1>2
     DEF Base!AfterOnNext, Base!Top, Base!Deletes, Base!Bails, Base!Alive, Call, Base!history,
         mergeVars, userVars, Types
<1>6. Form(d)'
  BY <1>1, <1>2, <1>4, <1>5 DEF Form, Below, Asking
<1>7. Types'
  BY <1>1, <1>5 DEF Types
<1>8. Subscribing(d)'
  BY <1>1, <1>2, <1>4, <1>5 DEF Types, Subscribing, Outer, Inner, Refill
<1>9. Control(d)'
  BY <1>1, <1>2, <1>4, <1>5, <1>3 DEF Types, Control, Outer, Inner, Refill
<1>10. ASSUME NEW k \in Upstreams
       PROVE  Upstream(d, k)'
  <2>1. Upstream(c, k)
    BY DEF IInvAt
  <2>2. Running(d, k)'
    BY <1>1, <1>2, <1>4, <1>5, <2>1, <1>3
       DEF Upstream, Running, Merged, Fresh, Runs, Base!Alive, Inner, Refill, Types
  <2>3. OneAhead(d, k)'
    BY <1>1, <1>2, <1>4, <1>5, <2>1
       DEF Upstream, OneAhead, Tokens, One, Finishing, Consuming, Sends, Merged, Fresh, Runs,
           Inner, Refill, Types
  <2>4. Over(d, k)'
    BY <1>1, <1>2, <1>4, <1>5, <2>1
       DEF Upstream, Over, Finishing, Consuming, Sends, Ending, Merged, Fresh, Base!Alive,
           Inner, Refill, Types
  <2>5. Conserved(d, k)'
    BY <1>1, <1>2, <1>4, <1>5, <2>1
       DEF Upstream, Conserved, One, Taking, Consuming, SendsEvent, Merged, Fresh, Inner,
           Refill, Types
  <2> QED
    BY <2>2, <2>3, <2>4, <2>5 DEF Upstream
<1>11. Rounds(d)'
  <2>1. \A n \in Nat, k \in Upstreams : InRound(c, n, k) => InRound(d, n, k)'
    BY <1>1, <1>2, <1>4, <1>5 DEF Types, InRound, Consuming, One, Refill
  <2> QED
    BY <1>1, <1>5, <2>1 DEF Rounds
<1>12. EndLeft'
  BY <1>5 DEF EndLeft
<1>13. IInvAt(d)'
  BY <1>6, <1>7, <1>8, <1>9, <1>10, <1>11, <1>12 DEF IInvAt
<1> QED
  BY <1>4, <1>13 DEF IInv

\* OnNext returned, and the upstream was deleted or is deleted now.
LEMMA AfterEndInv ==
  ASSUME UserIsCareful, NEW c \in Contexts, IInvAt(c), ~fault,
         c.p = "after", ~Base!Alive(c.g) \/ Base!IsEnd(c.e),
         Base!AfterOnNext, UNCHANGED <<mailbox, mergeVars, userVars>>
  PROVE  IInv'
<1>1. Form(c) /\ Types /\ Subscribing(c) /\ Control(c) /\ Rounds(c)
  BY DEF IInvAt
<1>2. /\ c.p = "after" /\ Tail(stack) = c.b /\ c.g \in Upstreams /\ phase[c.g] # "new"
      /\ Head(stack).gen = c.g /\ Head(stack).ev = c.e
      /\ (~Base!Alive(c.g) \/ Base!IsEnd(c.e))
  <2>1. c.g \in Upstreams /\ OneAhead(c, c.g)
    BY DEF Contexts, IInvAt, Upstream
  <2>2. Runs(c, c.g)
    BY DEF Runs, Refill, Inner
  <2>3. phase[c.g] # "new"
    BY <2>1, <2>2 DEF OneAhead, Fresh
  <2> QED
    BY <1>1, <2>1, <2>3, TopAt DEF Calls
<1> DEFINE d == [c EXCEPT !.p = "bottom"]
<1>3. /\ d \in Contexts
      /\ d.p = "bottom" /\ d.b = c.b /\ d.called = c.called /\ d.g = c.g
      /\ d.e = c.e /\ d.h = c.h /\ d.v = c.v /\ d.f = c.f
  BY <1>2 DEF Contexts, Places, Outer, Inner, Refill, Bottoms
<1> HIDE DEF d
<1>4. /\ stack' = c.b
      /\ phase' = [phase EXCEPT ![c.g] = "deleted"]
      /\ UNCHANGED <<requested, generating, yielded, granted, delivered, fault, mailbox, subs,
                      nxt, current, balance, available, delivering, lock, open, asked, got,
                      taken, ended>>
  <2>1. phase[c.g] \in {"new", "alive", "deleted"} /\ stack # <<>>
    BY <1>1, <1>2 DEF Types, Base!AfterOnNext
  <2>2. /\ phase' = [phase EXCEPT ![c.g] = IF Base!Deletes(c.g, c.e) THEN "deleted" ELSE phase[c.g]]
        /\ stack' = IF Base!Bails(c.g, c.e) \/ Base!Deletes(c.g, c.e)
                      THEN Tail(stack)
                      ELSE Base!Push(Base!Frame("Loop", c.g, "none"), Tail(stack))
        /\ UNCHANGED <<requested, generating, yielded, granted, delivered, fault>>
    BY <1>2 DEF Base!AfterOnNext, Base!Top, Base!history
  <2>3. Base!Deletes(c.g, c.e) \/ phase[c.g] = "deleted"
    BY <1>2, <2>1 DEF Base!Deletes, Base!Alive
  <2>4. (IF Base!Deletes(c.g, c.e) THEN "deleted" ELSE phase[c.g]) = "deleted"
    BY <2>3
  <2>5. Base!Bails(c.g, c.e) \/ Base!Deletes(c.g, c.e)
    BY <1>2 DEF Base!Deletes, Base!Bails
  <2> QED
    BY <1>2, <2>2, <2>4, <2>5 DEF mergeVars, userVars
<1>5. Form(d)'
  BY <1>1, <1>2, <1>3, <1>4 DEF Form, Below, Asking
<1>6. Types'
  BY <1>1, <1>4 DEF Types
<1>7. Subscribing(d)'
  BY <1>1, <1>2, <1>3, <1>4 DEF Types, Subscribing, Outer, Inner, Refill
<1>8. Control(d)'
  BY <1>1, <1>2, <1>3, <1>4 DEF Types, Control, Outer, Inner, Refill
<1>9. ASSUME NEW k \in Upstreams
      PROVE  Upstream(d, k)'
  <2>1. Upstream(c, k)
    BY DEF IInvAt
  <2>2. phase'[k] = IF k = c.g THEN "deleted" ELSE phase[k]
    BY <1>1, <1>2, <1>4 DEF Types
  <2>3. Running(d, k)'
    BY <1>1, <1>2, <1>3, <1>4, <2>1, <2>2
       DEF Upstream, Running, Merged, Fresh, Runs, Base!Alive, Inner, Refill, Types
  <2>4. OneAhead(d, k)'
    BY <1>1, <1>2, <1>3, <1>4, <2>1, <2>2
       DEF Upstream, OneAhead, Tokens, One, Finishing, Consuming, Sends, Merged, Fresh, Runs,
           Inner, Refill, Types
  <2>5. Over(d, k)'
    BY <1>1, <1>2, <1>3, <1>4, <2>1, <2>2
       DEF Upstream, Over, Finishing, Consuming, Sends, Ending, Merged, Fresh, Base!Alive,
           Inner, Refill, Types, Control, Base!IsEnd
  <2>6. Conserved(d, k)'
    BY <1>1, <1>2, <1>3, <1>4, <2>1, <2>2
       DEF Upstream, Conserved, One, Taking, Consuming, SendsEvent, Merged, Fresh, Inner,
           Refill, Types
  <2> QED
    BY <2>3, <2>4, <2>5, <2>6 DEF Upstream
<1>10. Rounds(d)'
  <2>1. \A n \in Nat, k \in Upstreams : InRound(c, n, k) => InRound(d, n, k)'
    BY <1>1, <1>2, <1>3, <1>4 DEF Types, InRound, Consuming, One, Refill
  <2> QED
    BY <1>1, <1>4, <2>1 DEF Rounds
<1>11. EndLeft'
  BY <1>4 DEF EndLeft
<1>12. IInvAt(d)'
  BY <1>5, <1>6, <1>7, <1>8, <1>9, <1>10, <1>11 DEF IInvAt
<1> QED
  BY <1>3, <1>12 DEF IInv

\* The same, of an upstream that was asked by MaybeDeliver: it continues.
LEMMA RefillAfterLoopInv ==
  ASSUME UserIsCareful, NEW c \in Contexts, IInvAt(c), ~fault,
         c.p = "refillAfter", Base!Alive(c.h), ~Base!IsEnd(c.f),
         Base!AfterOnNext, UNCHANGED <<mailbox, mergeVars, userVars>>
  PROVE  IInv'
<1>1. Form(c) /\ Types /\ Subscribing(c) /\ Control(c) /\ Rounds(c)
  BY DEF IInvAt
<1>2. /\ c.p = "refillAfter" /\ Tail(stack) = Asking(c) /\ c.h \in Upstreams
      /\ phase[c.h] # "new"
      /\ Head(stack).gen = c.h /\ Head(stack).ev = c.f
      /\ (Base!Alive(c.h) /\ ~Base!IsEnd(c.f))
  <2>1. c.h \in Upstreams /\ OneAhead(c, c.h)
    BY DEF Contexts, IInvAt, Upstream
  <2>2. Runs(c, c.h)
    BY DEF Runs, Refill, Inner
  <2>3. phase[c.h] # "new"
    BY <2>1, <2>2 DEF OneAhead, Fresh
  <2> QED
    BY <1>1, <2>1, <2>3, TopAt DEF Calls
<1> DEFINE d == [c EXCEPT !.p = "refill"]
<1>3. /\ d \in Contexts
      /\ d.p = "refill" /\ d.b = c.b /\ d.called = c.called /\ d.g = c.g
      /\ d.e = c.e /\ d.h = c.h /\ d.v = c.v /\ d.f = c.f
  BY <1>2 DEF Contexts, Places, Outer, Inner, Refill, Bottoms
<1> HIDE DEF d
<1>4. /\ stack' = Call("Loop", c.h, "none", Asking(c))
      /\ phase' = phase
      /\ UNCHANGED <<requested, generating, yielded, granted, delivered, fault, mailbox, subs,
                      nxt, current, balance, available, delivering, lock, open, asked, got,
                      taken, ended>>
  BY <1>1, <1>2
     DEF Base!AfterOnNext, Base!Top, Base!Deletes, Base!Bails, Base!Alive, Call, Base!history,
         mergeVars, userVars, Types
<1>5. Form(d)'
  BY <1>1, <1>2, <1>3, <1>4 DEF Form, Below, Asking
<1>6. Types'
  BY <1>1, <1>4 DEF Types
<1>7. Subscribing(d)'
  BY <1>1, <1>2, <1>3, <1>4 DEF Types, Subscribing, Outer, Inner, Refill
<1>8. Control(d)'
  BY <1>1, <1>2, <1>3, <1>4 DEF Types, Control, Outer, Inner, Refill
<1>9. ASSUME NEW k \in Upstreams
      PROVE  Upstream(d, k)'
  <2>1. Upstream(c, k)
    BY DEF IInvAt
  <2>2. Running(d, k)'
    BY <1>1, <1>2, <1>3, <1>4, <2>1
       DEF Upstream, Running, Merged, Fresh, Runs, Base!Alive, Inner, Refill, Types
  <2>3. OneAhead(d, k)'
    BY <1>1, <1>2, <1>3, <1>4, <2>1
       DEF Upstream, OneAhead, Tokens, One, Finishing, Consuming, Sends, Merged, Fresh, Runs,
           Inner, Refill, Types
  <2>4. Over(d, k)'
    BY <1>1, <1>2, <1>3, <1>4, <2>1
       DEF Upstream, Over, Finishing, Consuming, Sends, Ending, Merged, Fresh, Base!Alive,
           Inner, Refill, Types
  <2>5. Conserved(d, k)'
    BY <1>1, <1>2, <1>3, <1>4, <2>1
       DEF Upstream, Conserved, One, Taking, Consuming, SendsEvent, Merged, Fresh, Inner,
           Refill, Types
  <2> QED
    BY <2>2, <2>3, <2>4, <2>5 DEF Upstream
<1>10. Rounds(d)'
  <2>1. \A n \in Nat, k \in Upstreams : InRound(c, n, k) => InRound(d, n, k)'
    BY <1>1, <1>2, <1>3, <1>4 DEF Types, InRound, Consuming, One, Refill
  <2> QED
    BY <1>1, <1>4, <2>1 DEF Rounds
<1>11. EndLeft'
  BY <1>4 DEF EndLeft
<1>12. IInvAt(d)'
  BY <1>5, <1>6, <1>7, <1>8, <1>9, <1>10, <1>11 DEF IInvAt
<1> QED
  BY <1>3, <1>12 DEF IInv

\* It is deleted.
LEMMA RefillAfterEndInv ==
  ASSUME UserIsCareful, NEW c \in Contexts, IInvAt(c), ~fault,
         c.p = "refillAfter", ~Base!Alive(c.h) \/ Base!IsEnd(c.f),
         Base!AfterOnNext, UNCHANGED <<mailbox, mergeVars, userVars>>
  PROVE  IInv'
<1>1. Form(c) /\ Types /\ Subscribing(c) /\ Control(c) /\ Rounds(c)
  BY DEF IInvAt
<1>2. /\ c.p = "refillAfter" /\ Tail(stack) = Asking(c) /\ c.h \in Upstreams
      /\ phase[c.h] # "new"
      /\ Head(stack).gen = c.h /\ Head(stack).ev = c.f
      /\ (~Base!Alive(c.h) \/ Base!IsEnd(c.f))
  <2>1. c.h \in Upstreams /\ OneAhead(c, c.h)
    BY DEF Contexts, IInvAt, Upstream
  <2>2. Runs(c, c.h)
    BY DEF Runs, Refill, Inner
  <2>3. phase[c.h] # "new"
    BY <2>1, <2>2 DEF OneAhead, Fresh
  <2> QED
    BY <1>1, <2>1, <2>3, TopAt DEF Calls
<1> DEFINE d == [c EXCEPT !.p = "consumed"]
<1>3. /\ d \in Contexts
      /\ d.p = "consumed" /\ d.b = c.b /\ d.called = c.called /\ d.g = c.g
      /\ d.e = c.e /\ d.h = c.h /\ d.v = c.v /\ d.f = c.f
  BY <1>2 DEF Contexts, Places, Outer, Inner, Refill, Bottoms
<1> HIDE DEF d
<1>4. /\ stack' = Asking(c)
      /\ phase' = [phase EXCEPT ![c.h] = "deleted"]
      /\ UNCHANGED <<requested, generating, yielded, granted, delivered, fault, mailbox, subs,
                      nxt, current, balance, available, delivering, lock, open, asked, got,
                      taken, ended>>
  <2>1. phase[c.h] \in {"new", "alive", "deleted"} /\ stack # <<>>
    BY <1>1, <1>2 DEF Types, Base!AfterOnNext
  <2>2. /\ phase' = [phase EXCEPT ![c.h] = IF Base!Deletes(c.h, c.f) THEN "deleted" ELSE phase[c.h]]
        /\ stack' = IF Base!Bails(c.h, c.f) \/ Base!Deletes(c.h, c.f)
                      THEN Tail(stack)
                      ELSE Base!Push(Base!Frame("Loop", c.h, "none"), Tail(stack))
        /\ UNCHANGED <<requested, generating, yielded, granted, delivered, fault>>
    BY <1>2 DEF Base!AfterOnNext, Base!Top, Base!history
  <2>3. Base!Deletes(c.h, c.f) \/ phase[c.h] = "deleted"
    BY <1>2, <2>1 DEF Base!Deletes, Base!Alive
  <2>4. (IF Base!Deletes(c.h, c.f) THEN "deleted" ELSE phase[c.h]) = "deleted"
    BY <2>3
  <2>5. Base!Bails(c.h, c.f) \/ Base!Deletes(c.h, c.f)
    BY <1>2 DEF Base!Deletes, Base!Bails
  <2> QED
    BY <1>2, <2>2, <2>4, <2>5 DEF mergeVars, userVars
<1>5. Form(d)'
  BY <1>1, <1>2, <1>3, <1>4 DEF Form, Below, Asking
<1>6. Types'
  BY <1>1, <1>4 DEF Types
<1>7. Subscribing(d)'
  BY <1>1, <1>2, <1>3, <1>4 DEF Types, Subscribing, Outer, Inner, Refill
<1>8. Control(d)'
  BY <1>1, <1>2, <1>3, <1>4 DEF Types, Control, Outer, Inner, Refill
<1>9. ASSUME NEW k \in Upstreams
      PROVE  Upstream(d, k)'
  <2>1. Upstream(c, k)
    BY DEF IInvAt
  <2>2. phase'[k] = IF k = c.h THEN "deleted" ELSE phase[k]
    BY <1>1, <1>2, <1>4 DEF Types
  <2>3. Running(d, k)'
    BY <1>1, <1>2, <1>3, <1>4, <2>1, <2>2
       DEF Upstream, Running, Merged, Fresh, Runs, Base!Alive, Inner, Refill, Types
  <2>4. OneAhead(d, k)'
    BY <1>1, <1>2, <1>3, <1>4, <2>1, <2>2
       DEF Upstream, OneAhead, Tokens, One, Finishing, Consuming, Sends, Merged, Fresh, Runs,
           Inner, Refill, Types
  <2>5. Over(d, k)'
    BY <1>1, <1>2, <1>3, <1>4, <2>1, <2>2
       DEF Upstream, Over, Finishing, Consuming, Sends, Ending, Merged, Fresh, Base!Alive,
           Inner, Refill, Types, Control, Base!IsEnd
  <2>6. Conserved(d, k)'
    BY <1>1, <1>2, <1>3, <1>4, <2>1, <2>2
       DEF Upstream, Conserved, One, Taking, Consuming, SendsEvent, Merged, Fresh, Inner,
           Refill, Types
  <2> QED
    BY <2>3, <2>4, <2>5, <2>6 DEF Upstream
<1>10. Rounds(d)'
  <2>1. \A n \in Nat, k \in Upstreams : InRound(c, n, k) => InRound(d, n, k)'
    BY <1>1, <1>2, <1>3, <1>4 DEF Types, InRound, Consuming, One, Refill
  <2> QED
    BY <1>1, <1>4, <2>1 DEF Rounds
<1>11. EndLeft'
  BY <1>4 DEF EndLeft
<1>12. IInvAt(d)'
  BY <1>5, <1>6, <1>7, <1>8, <1>9, <1>10, <1>11 DEF IInvAt
<1> QED
  BY <1>3, <1>12 DEF IInv

-----------------------------------------------------------------------------
(* FinalizeConstruction.                                                     *)

\* The empty stack is at the bottom.
LEMMA EmptyAt ==
  ASSUME NEW c \in Contexts, Form(c), stack = <<>>
  PROVE  c.p = "bottom" /\ c.b = <<>>
<1>1. c.p \in Places
  BY DEF Contexts
<1>2. c.p = "bottom"
  BY <1>1, TopAt DEF Places, Outer, Inner, Refill, Calls
<1> QED
  BY <1>2, TopAt

\* No end is in an empty next_.
LEMMA NoEnd == ~Base!IsEnd("none") /\ ~Base!IsEnd("value") /\ Base!IsEnd("done") /\ Base!IsEnd("error")
  BY DEF Base!IsEnd

\* The final subscriber subscribes.
LEMMA SubscribeInv ==
  ASSUME UserIsCareful, NEW c \in Contexts, IInvAt(c), ~fault,
         Subscribe
  PROVE  IInv'
<1>1. Form(c) /\ Types /\ Subscribing(c) /\ Control(c) /\ Rounds(c)
  BY DEF IInvAt
<1>2. c.p = "bottom" /\ c.b = <<>> /\ stack = <<>> /\ ~open /\ ~lock /\ ~delivering
  BY <1>1, EmptyAt DEF Subscribe, Subscribing
<1>3. 1 \in 1 .. N + 1 /\ \A k \in Upstreams : k >= 1
  BY Words DEF Upstreams
<1>4. Creating(1) # <<>> /\ Creating(1) # Telling /\ \A n \in 1 .. N + 1 : Creating(1) = Creating(n) => n = 1
  BY <1>3, BottomsDiffer, CreatingOne
<1> DEFINE d == [c EXCEPT !.b = Creating(1)]
<1>5. /\ d \in Contexts
      /\ d.p = c.p /\ d.b = Creating(1) /\ d.called = c.called /\ d.g = c.g
      /\ d.e = c.e /\ d.h = c.h /\ d.v = c.v /\ d.f = c.f
  BY <1>2, <1>3 DEF Contexts, Places, Outer, Inner, Refill, Bottoms
<1> HIDE DEF d
<1>6. /\ stack' = Creating(1)
      /\ lock' = TRUE
      /\ UNCHANGED <<phase, requested, generating, yielded, granted, delivered, fault,
                      mailbox, subs, nxt, current, balance, available, delivering, open,
                      asked, got, taken, ended>>
  BY <1>2 DEF Subscribe, Creating, baseVars, userVars
<1>7. Form(d)'
  BY <1>1, <1>2, <1>5, <1>6 DEF Form, Below, Asking
<1>8. Types'
  BY <1>1, <1>6 DEF Types
<1>9. Subscribing(d)'
  BY <1>1, <1>2, <1>5, <1>6, <1>3, <1>4 DEF Types, Subscribing, Outer, Inner, Refill
<1>10. Control(d)'
  <2>1. available' = 0 /\ ~HasRequests(available')
    BY <1>1, <1>2, <1>6 DEF Subscribing, HasRequests
  <2>2. ~open' /\ ~ended' /\ d.p = "bottom"
    BY <1>1, <1>2, <1>5, <1>6 DEF Subscribing
  <2> QED
    BY <1>1, <1>2, <1>5, <1>6, <2>1, <2>2 DEF Types, Control, Outer, Inner, Refill
<1>11. ASSUME NEW k \in Upstreams
       PROVE  Upstream(d, k)'
  <2>1. Upstream(c, k)
    BY DEF IInvAt
  <2>2. Fresh(c, k)
    BY <1>1, <1>2 DEF Subscribing, Fresh
  <2>3. Running(d, k)'
    BY <1>1, <1>2, <1>5, <1>6, <2>1, <2>2
       DEF Upstream, Running, Merged, Fresh, Runs, Base!Alive, Inner, Refill, Types
  <2>4. OneAhead(d, k)'
    BY <1>1, <1>2, <1>5, <1>6, <2>1, <2>2
       DEF Upstream, OneAhead, Tokens, One, Finishing, Consuming, Sends, Merged, Fresh, Runs,
           Inner, Refill, Types
  <2>5. Over(d, k)'
    BY <1>1, <1>2, <1>5, <1>6, <2>1, <2>2
       DEF Upstream, Over, Finishing, Consuming, Sends, Ending, Merged, Fresh, Base!Alive,
           Inner, Refill, Types
  <2>6. Conserved(d, k)'
    BY <1>1, <1>2, <1>5, <1>6, <2>1, <2>2
       DEF Upstream, Conserved, One, Taking, Consuming, SendsEvent, Merged, Fresh, Inner,
           Refill, Types
  <2> QED
    BY <2>3, <2>4, <2>5, <2>6 DEF Upstream
<1>12. Rounds(d)'
  <2>1. \A n \in Nat, k \in Upstreams : InRound(c, n, k) => InRound(d, n, k)'
    BY <1>1, <1>2, <1>5, <1>6 DEF Types, InRound, Consuming, One, Refill
  <2> QED
    BY <1>1, <1>6, <2>1 DEF Rounds
<1>13. EndLeft'
  BY <1>6 DEF EndLeft
<1>14. IInvAt(d)'
  BY <1>7, <1>8, <1>9, <1>10, <1>11, <1>12, <1>13 DEF IInvAt
<1> QED
  BY <1>5, <1>14 DEF IInv

\* The next upstream is constructed and calls OnSubscribe.
LEMMA CreateUpstreamInv ==
  ASSUME UserIsCareful, NEW c \in Contexts, IInvAt(c), ~fault,
         CreateUpstream
  PROVE  IInv'
<1>1. Form(c) /\ Types /\ Subscribing(c) /\ Control(c) /\ Rounds(c)
  BY DEF IInvAt
<1>2. PICK n \in 1 .. N : /\ c.p = "bottom" /\ c.b = Creating(n) /\ Tail(stack) = <<>>
                         /\ Top.gen = n
  <2>1. IsTop("Create") /\ Top.gen <= N
    BY DEF CreateUpstream
  <2>2. /\ c.p = "bottom" /\ c.b = Creating(Top.gen) /\ Top.gen \in 1 .. N + 1 /\ stack # <<>>
    BY <1>1, <2>1, PlaceOf DEF IsTop
  <2>3. Top.gen \in 1 .. N
    BY <2>1, <2>2, Words
  <2>4. Calls(stack, "Create", Top.gen, "none", <<>>)
    BY <1>1, <2>2, TopAt, BottomCalls
  <2> QED
    BY <2>2, <2>3, <2>4 DEF Calls
<1>3. /\ c.p = "bottom" /\ c.b = Creating(n) /\ n \in Upstreams /\ ~open /\ lock
      /\ \A k \in Upstreams : phase[k] = "new" <=> k >= n
      /\ n \in 1 .. N + 1 /\ n + 1 \in 1 .. N + 1
  BY <1>1, <1>2, Words DEF Subscribing, Upstreams
<1>4. /\ Creating(n + 1) # <<>> /\ Creating(n + 1) # Telling
      /\ \A m \in 1 .. N + 1 : Creating(n + 1) = Creating(m) => n + 1 = m
  BY <1>3, BottomsDiffer, CreatingOne
<1> DEFINE d == [c EXCEPT !.p = "calling", !.g = n, !.b = Creating(n + 1)]
<1>5. /\ d \in Contexts
      /\ d.p = "calling" /\ d.b = Creating(n + 1) /\ d.called = c.called /\ d.g = n
      /\ d.e = c.e /\ d.h = c.h /\ d.v = c.v /\ d.f = c.f
  BY <1>3 DEF Contexts, Places, Outer, Inner, Refill, Bottoms
<1> HIDE DEF d
<1>6. /\ stack' = Call("OnSubscribe", n, "none", Creating(n + 1))
      /\ phase' = [phase EXCEPT ![n] = "alive"]
      /\ UNCHANGED <<requested, generating, yielded, granted, delivered, fault, mailbox, subs,
                      nxt, current, balance, available, delivering, lock, open, asked, got,
                      taken, ended>>
  BY <1>3, <1>2 DEF CreateUpstream, Base!Construct, Creating, Call, mergeVars, userVars
<1>7. Form(d)'
  BY <1>1, <1>3, <1>5, <1>6 DEF Form, Below, Asking
<1>8. Types'
  BY <1>1, <1>6 DEF Types
<1>9. Subscribing(d)'
  <2>1. \A k \in Upstreams : phase'[k] = "new" <=> k >= n + 1
    <3>1. \A k \in Upstreams : phase'[k] = IF k = n THEN "alive" ELSE phase[k]
      BY <1>1, <1>6 DEF Types
    <3>2. \A k \in Upstreams : k \in Nat /\ n \in Nat
      BY <1>3 DEF Upstreams
    <3> QED
      BY <1>3, <3>1, <3>2
  <2> QED
    BY <1>1, <1>3, <1>5, <1>6, <1>4, <2>1 DEF Subscribing, Outer
<1>10. Control(d)'
  BY <1>1, <1>3, <1>5, <1>6 DEF Types, Control, Outer, Inner, Refill
<1>11. ASSUME NEW k \in Upstreams
       PROVE  Upstream(d, k)'
  <2>1. Upstream(c, k)
    BY DEF IInvAt
  <2>2. phase'[k] = IF k = n THEN "alive" ELSE phase[k]
    BY <1>1, <1>3, <1>6 DEF Types
  <2>3. Fresh(d, k)' <=> Fresh(c, k)
    BY <1>3, <1>5, <2>2 DEF Fresh
  <2>4. Running(d, k)'
    BY <1>1, <1>3, <1>5, <1>6, <2>1, <2>2, <2>3
       DEF Upstream, Running, Merged, Fresh, Runs, Base!Alive, Inner, Refill, Types, OneAhead
  <2>5. OneAhead(d, k)'
    BY <1>1, <1>3, <1>5, <1>6, <2>1, <2>2, <2>3
       DEF Upstream, OneAhead, Tokens, One, Finishing, Consuming, Sends, Merged, Fresh, Runs,
           Inner, Refill, Types
  <2>6. Over(d, k)'
    BY <1>1, <1>3, <1>5, <1>6, <2>1, <2>2, <2>2, <2>3, NoEnd
       DEF Upstream, Over, Finishing, Consuming, Sends, Ending, Merged, Fresh, Base!Alive,
           Inner, Refill, Types, OneAhead
  <2>7. Conserved(d, k)'
    BY <1>1, <1>3, <1>5, <1>6, <2>1, <2>2, <2>3
       DEF Upstream, Conserved, One, Taking, Consuming, SendsEvent, Merged, Fresh, Inner,
           Refill, Types
  <2> QED
    BY <2>4, <2>5, <2>6, <2>7 DEF Upstream
<1>12. Rounds(d)'
  <2>1. \A m \in Nat, k \in Upstreams : InRound(c, m, k) => InRound(d, m, k)'
    BY <1>1, <1>3, <1>5, <1>6 DEF Types, InRound, Consuming, One, Refill
  <2> QED
    BY <1>1, <1>6, <2>1 DEF Rounds
<1>13. EndLeft'
  BY <1>6 DEF EndLeft
<1>14. IInvAt(d)'
  BY <1>7, <1>8, <1>9, <1>10, <1>11, <1>12, <1>13 DEF IInvAt
<1> QED
  BY <1>5, <1>14 DEF IInv

\* All upstreams are created, and the final subscriber is told.
LEMMA ConfirmInv ==
  ASSUME UserIsCareful, NEW c \in Contexts, IInvAt(c), ~fault,
         ConfirmSubscription
  PROVE  IInv'
<1>1. Form(c) /\ Types /\ Subscribing(c) /\ Control(c) /\ Rounds(c)
  BY DEF IInvAt
<1>2. /\ c.p = "bottom" /\ Tail(stack) = <<>> /\ ~open /\ lock /\ balance = 0 /\ ~ended
      /\ current = 1
      /\ \A k \in Upstreams : phase[k] # "new" /\ taken[k] = 0
      /\ 1 \in Upstreams
  <2>1. IsTop("Create") /\ Top.gen > N
    BY DEF ConfirmSubscription
  <2>2. /\ c.p = "bottom" /\ c.b = Creating(Top.gen) /\ Top.gen \in 1 .. N + 1 /\ stack # <<>>
    BY <1>1, <2>1, PlaceOf DEF IsTop
  <2>3. Calls(stack, "Create", Top.gen, "none", <<>>)
    BY <1>1, <2>2, TopAt, BottomCalls
  <2>4. ~open /\ lock /\ \A k \in Upstreams : phase[k] = "new" <=> k >= Top.gen
    BY <1>1, <2>2 DEF Subscribing
  <2>5. \A k \in Upstreams : phase[k] # "new"
    BY <2>1, <2>2, <2>4, Words DEF Upstreams
  <2> QED
    BY <1>1, <2>2, <2>3, <2>4, <2>5, Words DEF Calls, Subscribing
<1>3. Telling # <<>> /\ \A m \in 1 .. N + 1 : Creating(m) # Telling
  BY BottomsDiffer, Words
<1> DEFINE d == [c EXCEPT !.b = Telling]
<1>4. /\ d \in Contexts
      /\ d.p = c.p /\ d.b = Telling /\ d.called = c.called /\ d.g = c.g
      /\ d.e = c.e /\ d.h = c.h /\ d.v = c.v /\ d.f = c.f
  BY <1>2 DEF Contexts, Places, Outer, Inner, Refill, Bottoms
<1> HIDE DEF d
<1>5. /\ stack' = Telling
      /\ subs' = [k \in Upstreams |-> TRUE]
      /\ open' = TRUE
      /\ UNCHANGED <<phase, requested, generating, yielded, granted, delivered, fault,
                      mailbox, nxt, current, balance, available, delivering, lock, asked, got,
                      taken, ended>>
  BY <1>2 DEF ConfirmSubscription, Telling, baseVars, userVars
<1>6. Form(d)'
  BY <1>1, <1>2, <1>4, <1>5 DEF Form, Below, Asking
<1>7. Types'
  BY <1>1, <1>5 DEF Types
<1>8. Subscribing(d)'
  BY <1>1, <1>2, <1>4, <1>5, <1>3 DEF Types, Subscribing, Outer, Inner, Refill
<1>9. Control(d)'
  BY <1>1, <1>2, <1>4, <1>5 DEF Types, Control, Outer, Inner, Refill
<1>10. ASSUME NEW k \in Upstreams
       PROVE  Upstream(d, k)'
  <2>1. Upstream(c, k)
    BY DEF IInvAt
  <2>2. ~Fresh(c, k) /\ ~Fresh(d, k)' /\ subs'[k]
    BY <1>2, <1>4, <1>5 DEF Fresh
  <2>3. Running(d, k)'
    BY <1>1, <1>2, <1>4, <1>5, <2>1, <2>2
       DEF Upstream, Running, Merged, Fresh, Runs, Base!Alive, Inner, Refill, Types
  <2>4. OneAhead(d, k)'
    BY <1>1, <1>2, <1>4, <1>5, <2>1, <2>2
       DEF Upstream, OneAhead, Tokens, One, Finishing, Consuming, Sends, Merged, Fresh, Runs,
           Inner, Refill, Types
  <2>5. Over(d, k)'
    BY <1>1, <1>2, <1>4, <1>5, <2>1, <2>2
       DEF Upstream, Over, Finishing, Consuming, Sends, Ending, Merged, Fresh, Base!Alive,
           Inner, Refill, Types
  <2>6. Conserved(d, k)'
    BY <1>1, <1>2, <1>4, <1>5, <2>1, <2>2
       DEF Upstream, Conserved, One, Taking, Consuming, SendsEvent, Merged, Fresh, Inner,
           Refill, Types
  <2> QED
    BY <2>3, <2>4, <2>5, <2>6 DEF Upstream
<1>11. Rounds(d)'
  <2>1. ASSUME NEW k \in Upstreams
        PROVE  taken'[k] + One(Consuming(d, k))' = 0 + One(k < current)'
    BY <1>2, <1>4, <1>5, <2>1 DEF Consuming, One, Refill, Upstreams
  <2>2. \A k \in Upstreams : InRound(d, 0, k)'
    BY <2>1 DEF InRound
  <2> QED
    BY <2>2 DEF Rounds
<1>12. EndLeft'
  BY <1>5 DEF EndLeft
<1>13. IInvAt(d)'
  BY <1>6, <1>7, <1>8, <1>9, <1>10, <1>11, <1>12 DEF IInvAt
<1> QED
  BY <1>4, <1>13 DEF IInv

-----------------------------------------------------------------------------
(* The upstream subscribers.                                                 *)

\* What UpstreamSubscriberStateChanged does to the counter: it is infinite from the
\* first element that is consumed on, since -1 is converted to size_t.
LEMMA StateChangedType ==
  ASSUME available \in Balance
  PROVE  /\ StateChanged(1) \in Balance /\ StateChanged(-1) \in Balance
         /\ HasRequests(available) => StateChanged(-1) = KMax
         /\ available = KMax => StateChanged(1) = KMax
<1>1. SizeT(1) \in Balance /\ SizeT(-1) = KMax
  BY KMaxAssumption DEF SizeT, Balance
<1>2. StateChanged(1) \in Balance /\ StateChanged(-1) \in Balance
  BY <1>1, KMaxAssumption DEF StateChanged, AddTo, Balance
<1>3. HasRequests(available) => StateChanged(-1) = KMax
  BY <1>1, KMaxAssumption DEF StateChanged, AddTo, Balance, HasRequests
<1>4. available = KMax => StateChanged(1) = KMax
  <2>1. ASSUME available = KMax
        PROVE  StateChanged(1) = KMax
    <3>1. SizeT(1) \in 0 .. KMax /\ KMax \in Nat
      BY <1>1, KMaxAssumption DEF Balance
    <3>2. CASE SizeT(1) = 0
      BY <2>1, <3>1, <3>2 DEF StateChanged, AddTo
    <3>3. CASE SizeT(1) # 0
      BY <2>1, <3>1, <3>3 DEF StateChanged, AddTo
    <3> QED
      BY <3>2, <3>3
  <2> QED
    BY <2>1
<1> QED
  BY <1>2, <1>3, <1>4

\* An upstream calls OnSubscribe, and is asked for one element: it starts.
LEMMA OnSubscribeInv ==
  ASSUME UserIsCareful, NEW c \in Contexts, IInvAt(c), ~fault,
         UpOnSubscribe, Top.gen \notin Deferred
  PROVE  IInv'
<1>1. Form(c) /\ Types /\ Subscribing(c) /\ Control(c) /\ Rounds(c)
  BY DEF IInvAt
<1>2. /\ c.p = "calling" /\ Tail(stack) = c.b /\ c.g \in Upstreams /\ Base!Alive(c.g)
      /\ Top.gen = c.g /\ ~open
      /\ requested[c.g] = 0 /\ mailbox[c.g] = 0 /\ nxt[c.g] = "none" /\ ~generating[c.g]
      /\ yielded[c.g] = 0 /\ taken[c.g] = 0 /\ granted[c.g] \in Nat
      /\ c.g \notin Deferred
  <2>1. c.g \in Upstreams /\ Running(c, c.g) /\ OneAhead(c, c.g)
    BY DEF Contexts, IInvAt, Upstream
  <2>2. c.p = "calling"
    BY <1>1, PlaceOf DEF UpOnSubscribe
  <2>3. Base!Alive(c.g) /\ Fresh(c, c.g)
    BY <2>1, <2>2 DEF Running, Fresh
  <2> QED
    BY <1>1, <2>1, <2>2, <2>3, TopAt DEF OneAhead, Calls, Subscribing, Types, Top
<1> DEFINE d == [c EXCEPT !.p = "loop"]
<1>3. /\ d \in Contexts
      /\ d.p = "loop" /\ d.b = c.b /\ d.called = c.called /\ d.g = c.g
      /\ d.e = c.e /\ d.h = c.h /\ d.v = c.v /\ d.f = c.f
  BY <1>2 DEF Contexts, Places, Outer, Inner, Refill, Bottoms
<1> HIDE DEF d
<1>4. /\ stack' = Call("Loop", c.g, "none", c.b)
      /\ granted' = [granted EXCEPT ![c.g] = @ + Ahead]
      /\ requested' = [requested EXCEPT ![c.g] = 1]
      /\ generating' = [generating EXCEPT ![c.g] = TRUE]
      /\ UNCHANGED <<phase, yielded, delivered, fault, mailbox, subs, nxt, current, balance,
                      available, delivering, lock, open, asked, got, taken, ended>>
  <2>1. Base!AddTo(requested[c.g], Ahead) = 1
    BY <1>2, OneMore
  <2> QED
    BY <1>2, <2>1
       DEF UpOnSubscribe, RequestNext, Base!Request, Base!StartsGenerate, Call, mergeVars,
           userVars
<1>5. Form(d)'
  BY <1>1, <1>2, <1>3, <1>4 DEF Form, Below, Asking
<1>6. Types'
  <2>1. granted[c.g] + Ahead \in Nat /\ 1 \in Nat
    BY <1>2 DEF Ahead
  <2>2. /\ granted' \in [Upstreams -> Nat]
        /\ requested' \in [Upstreams -> Nat] /\ generating' \in [Upstreams -> BOOLEAN]
    BY <1>1, <1>4, <2>1 DEF Types
  <2> QED
    BY <1>1, <1>4, <2>2 DEF Types
<1>7. Subscribing(d)'
  BY <1>1, <1>2, <1>3, <1>4 DEF Types, Subscribing, Outer, Inner, Refill
<1>8. Control(d)'
  BY <1>1, <1>2, <1>3, <1>4 DEF Types, Control, Outer, Inner, Refill
<1>9. ASSUME NEW k \in Upstreams
      PROVE  Upstream(d, k)'
  <2>1. Upstream(c, k)
    BY DEF IInvAt
  <2>2. /\ requested'[k] = IF k = c.g THEN 1 ELSE requested[k]
        /\ generating'[k] = IF k = c.g THEN TRUE ELSE generating[k]
    BY <1>1, <1>2, <1>4 DEF Types
  <2>3. /\ Fresh(d, k)' => Fresh(c, k) /\ k # c.g
        /\ ~subs[k]
        /\ phase[c.g] # "new"
    BY <1>1, <1>2, <1>3, <1>4 DEF Fresh, Subscribing, Base!Alive
  <2>4. k # c.g => (Fresh(d, k)' <=> Fresh(c, k)) /\ (Merged(d, k)' <=> Merged(c, k))
    BY <1>1, <1>2, <1>3, <1>4 DEF Fresh, Merged
  <2>5. /\ ~Sends(d, k) /\ ~Sends(c, k) /\ ~Finishing(d, k) /\ ~Finishing(c, k)
        /\ ~SendsEvent(d, k, "value") /\ ~SendsEvent(c, k, "value")
        /\ ~Taking(d, k) /\ ~Taking(c, k) /\ ~Runs(c, k) /\ (Runs(d, k) <=> k = c.g)
    BY <1>2, <1>3
       DEF Sends, SendsEvent, Finishing, Taking, Consuming, Runs, Inner, Refill
  <2>6. Running(d, k)'
    BY <1>1, <1>2, <1>3, <1>4, <2>1, <2>2, <2>3, <2>4
       DEF Upstream, Running, Merged, Fresh, Runs, Base!Alive, Inner, Refill, Types
  <2>7. OneAhead(d, k)'
    <3>1. CASE k = c.g
      BY <1>2, <1>3, <1>4, <2>2, <2>3, <2>5, <3>1 DEF OneAhead, Tokens, One
    <3>2. CASE k # c.g
      <4>1. Tokens(d, k)' = Tokens(c, k)
        BY <1>2, <1>3, <1>4, <2>2, <2>5, <3>2 DEF Tokens, Sends
      <4> QED
        BY <1>2, <1>3, <1>4, <2>1, <2>2, <2>4, <2>5, <3>2, <4>1
           DEF Upstream, OneAhead, Finishing, Consuming, Refill
    <3> QED
      BY <3>1, <3>2
  <2>8. Over(d, k)'
    BY <1>1, <1>2, <1>3, <1>4, <2>1, <2>2, <2>3, <2>4, NoEnd
       DEF Upstream, Over, Finishing, Consuming, Sends, Ending, Merged, Fresh, Base!Alive,
           Inner, Refill, Types
  <2>9. Conserved(d, k)'
    <3>1. CASE k = c.g
      BY <1>2, <1>3, <1>4, <2>2, <2>5, <3>1 DEF Conserved, One
    <3>2. CASE k # c.g
      BY <1>2, <1>3, <1>4, <2>1, <2>4, <2>5, <3>2
         DEF Upstream, Conserved, One, Taking, Consuming, Refill
    <3> QED
      BY <3>1, <3>2
  <2> QED
    BY <2>6, <2>7, <2>8, <2>9 DEF Upstream
<1>10. Rounds(d)'
  <2>1. \A n \in Nat, k \in Upstreams : InRound(c, n, k) => InRound(d, n, k)'
    BY <1>1, <1>2, <1>3, <1>4 DEF Types, InRound, Consuming, One, Refill
  <2> QED
    BY <1>1, <1>4, <2>1 DEF Rounds
<1>11. EndLeft'
  BY <1>4 DEF EndLeft
<1>12. IInvAt(d)'
  BY <1>5, <1>6, <1>7, <1>8, <1>9, <1>10, <1>11 DEF IInvAt
<1> QED
  BY <1>3, <1>12 DEF IInv

\* A deferred upstream calls OnSubscribe, and has a request to see.
LEMMA OnSubscribeLateInv ==
  ASSUME UserIsCareful, NEW c \in Contexts, IInvAt(c), ~fault,
         UpOnSubscribe, Top.gen \in Deferred
  PROVE  IInv'
<1>1. Form(c) /\ Types /\ Subscribing(c) /\ Control(c) /\ Rounds(c)
  BY DEF IInvAt
<1>2. /\ c.p = "calling" /\ Tail(stack) = c.b /\ c.g \in Upstreams /\ Base!Alive(c.g)
      /\ Top.gen = c.g /\ ~open
      /\ requested[c.g] = 0 /\ mailbox[c.g] = 0 /\ nxt[c.g] = "none" /\ ~generating[c.g]
      /\ yielded[c.g] = 0 /\ taken[c.g] = 0 /\ granted[c.g] \in Nat
      /\ c.g \in Deferred
  <2>1. c.g \in Upstreams /\ Running(c, c.g) /\ OneAhead(c, c.g)
    BY DEF Contexts, IInvAt, Upstream
  <2>2. c.p = "calling"
    BY <1>1, PlaceOf DEF UpOnSubscribe
  <2>3. Base!Alive(c.g) /\ Fresh(c, c.g)
    BY <2>1, <2>2 DEF Running, Fresh
  <2> QED
    BY <1>1, <2>1, <2>2, <2>3, TopAt DEF OneAhead, Calls, Subscribing, Types, Top
<1> DEFINE d == [c EXCEPT !.p = "bottom"]
<1>3. /\ d \in Contexts
      /\ d.p = "bottom" /\ d.b = c.b /\ d.called = c.called /\ d.g = c.g
      /\ d.e = c.e /\ d.h = c.h /\ d.v = c.v /\ d.f = c.f
  BY <1>2 DEF Contexts, Places, Outer, Inner, Refill, Bottoms
<1> HIDE DEF d
<1>4. /\ stack' = c.b
      /\ granted' = [granted EXCEPT ![c.g] = @ + Ahead]
      /\ mailbox' = [mailbox EXCEPT ![c.g] = 1]
      /\ UNCHANGED <<phase, requested, generating, yielded, delivered, fault, subs, nxt,
                      current, balance, available, delivering, lock, open, asked, got, taken,
                      ended>>
  <2>1. mailbox[c.g] + Ahead = 1
    BY <1>2 DEF Ahead
  <2> QED
    BY <1>2, <2>1 DEF UpOnSubscribe, RequestNext, mergeVars, userVars
<1>5. Form(d)'
  BY <1>1, <1>2, <1>3, <1>4 DEF Form, Below, Asking
<1>6. Types'
  <2>1. granted[c.g] + Ahead \in Nat /\ 1 \in Nat
    BY <1>2 DEF Ahead
  <2>2. /\ granted' \in [Upstreams -> Nat]
        /\ mailbox' \in [Upstreams -> Nat]
    BY <1>1, <1>4, <2>1 DEF Types
  <2> QED
    BY <1>1, <1>4, <2>2 DEF Types
<1>7. Subscribing(d)'
  BY <1>1, <1>2, <1>3, <1>4 DEF Types, Subscribing, Outer, Inner, Refill
<1>8. Control(d)'
  BY <1>1, <1>2, <1>3, <1>4 DEF Types, Control, Outer, Inner, Refill
<1>9. ASSUME NEW k \in Upstreams
      PROVE  Upstream(d, k)'
  <2>1. Upstream(c, k)
    BY DEF IInvAt
  <2>2. /\ mailbox'[k] = IF k = c.g THEN 1 ELSE mailbox[k]
    BY <1>1, <1>2, <1>4 DEF Types
  <2>3. /\ Fresh(d, k)' => Fresh(c, k) /\ k # c.g
        /\ ~subs[k]
        /\ phase[c.g] # "new"
    BY <1>1, <1>2, <1>3, <1>4 DEF Fresh, Subscribing, Base!Alive
  <2>4. k # c.g => (Fresh(d, k)' <=> Fresh(c, k)) /\ (Merged(d, k)' <=> Merged(c, k))
    BY <1>1, <1>2, <1>3, <1>4 DEF Fresh, Merged
  <2>5. /\ ~Sends(d, k) /\ ~Sends(c, k) /\ ~Finishing(d, k) /\ ~Finishing(c, k)
        /\ ~SendsEvent(d, k, "value") /\ ~SendsEvent(c, k, "value")
        /\ ~Taking(d, k) /\ ~Taking(c, k) /\ ~Runs(c, k) /\ ~Runs(d, k)
    BY <1>2, <1>3
       DEF Sends, SendsEvent, Finishing, Taking, Consuming, Runs, Inner, Refill
  <2>6. Running(d, k)'
    BY <1>1, <1>2, <1>3, <1>4, <2>1, <2>2, <2>3, <2>4
       DEF Upstream, Running, Merged, Fresh, Runs, Base!Alive, Inner, Refill, Types
  <2>7. OneAhead(d, k)'
    <3>1. CASE k = c.g
      BY <1>2, <1>3, <1>4, <2>2, <2>3, <2>5, <3>1
         DEF OneAhead, Tokens, One, Finishing, Consuming, Sends, Merged, Fresh, Runs, Inner,
             Refill
    <3>2. CASE k # c.g
      <4>1. Tokens(d, k)' = Tokens(c, k)
        BY <1>2, <1>3, <1>4, <2>2, <3>2 DEF Tokens, Sends
      <4> QED
        BY <1>2, <1>3, <1>4, <2>1, <2>2, <2>4, <2>5, <3>2, <4>1
           DEF Upstream, OneAhead, Finishing, Consuming, Runs, Inner, Refill
    <3> QED
      BY <3>1, <3>2
  <2>8. Over(d, k)'
    BY <1>1, <1>2, <1>3, <1>4, <2>1, <2>2, <2>3, <2>4, NoEnd
       DEF Upstream, Over, Finishing, Consuming, Sends, Ending, Merged, Fresh, Base!Alive,
           Inner, Refill, Types
  <2>9. Conserved(d, k)'
    <3>1. CASE k = c.g
      BY <1>2, <1>3, <1>4, <2>2, <2>5, <3>1 DEF Conserved, One
    <3>2. CASE k # c.g
      BY <1>2, <1>3, <1>4, <2>1, <2>4, <2>5, <3>2
         DEF Upstream, Conserved, One, Taking, Consuming, Refill
    <3> QED
      BY <3>1, <3>2
  <2> QED
    BY <2>6, <2>7, <2>8, <2>9 DEF Upstream
<1>10. Rounds(d)'
  <2>1. \A n \in Nat, k \in Upstreams : InRound(c, n, k) => InRound(d, n, k)'
    BY <1>1, <1>2, <1>3, <1>4 DEF Types, InRound, Consuming, One, Refill
  <2> QED
    BY <1>1, <1>4, <2>1 DEF Rounds
<1>11. EndLeft'
  BY <1>4 DEF EndLeft
<1>12. IInvAt(d)'
  BY <1>5, <1>6, <1>7, <1>8, <1>9, <1>10, <1>11 DEF IInvAt
<1> QED
  BY <1>3, <1>12 DEF IInv

\* The next element of an upstream arrives, and MaybeDeliver is called.
LEMMA OnNextInv ==
  ASSUME UserIsCareful, NEW c \in Contexts, IInvAt(c), ~fault,
         UpOnNext, c.p = "next"
  PROVE  IInv'
<1>1. Form(c) /\ Types /\ Subscribing(c) /\ Control(c) /\ Rounds(c)
  BY DEF IInvAt
<1>2. /\ c.p = "next" /\ Tail(stack) = Call("After", c.g, c.e, c.b) /\ c.g \in Upstreams
      /\ Top.gen = c.g /\ Top.ev = c.e /\ lock /\ (delivering <=> FALSE)
      /\ nxt[c.g] = "none" /\ c.e \in Base!Events
  <2>1. c.g \in Upstreams /\ OneAhead(c, c.g) /\ c.e \in Base!Events
    BY DEF Contexts, IInvAt, Upstream
  <2>2. nxt[c.g] = "none"
    BY <1>1, <2>1 DEF OneAhead, Tokens, Sends, One, Types
  <2>3. lock /\ (delivering <=> FALSE)
    BY <1>1 DEF Control, Inner, Refill
  <2> QED
    BY <1>1, <2>1, <2>2, <2>3, TopAt DEF Calls, Top
<1> DEFINE d == [c EXCEPT !.p = "deliver", !.called = TRUE]
<1>3. /\ d \in Contexts
      /\ d.p = "deliver" /\ d.b = c.b /\ d.called = TRUE /\ d.g = c.g
      /\ d.e = c.e /\ d.h = c.h /\ d.v = c.v /\ d.f = c.f
  BY <1>2 DEF Contexts, Places, Outer, Inner, Refill, Bottoms
<1> HIDE DEF d
<1>4. /\ stack' = Call("Deliver", 0, "none", Call("After", c.g, c.e, c.b))
      /\ nxt' = [nxt EXCEPT ![c.g] = c.e]
      /\ available' \in Balance /\ (available = KMax => available' = KMax)
      /\ fault' = FALSE
      /\ delivering' = TRUE
      /\ UNCHANGED <<phase, requested, generating, yielded, granted, delivered, mailbox, subs,
                      current, balance, lock, open, asked, got, taken, ended>>
  <2>1. available' \in Balance /\ (available = KMax => available' = KMax)
    BY <1>1, StateChangedType DEF Types, UpOnNext
  <2>2. fault' = FALSE
    BY <1>2 DEF UpOnNext
  <2> QED
    BY <1>2, <2>1, <2>2 DEF UpOnNext, MaybeDeliver, baseVars, userVars
<1>5. Form(d)'
  BY <1>1, <1>2, <1>3, <1>4 DEF Form, Below, Asking
<1>6. Types'
  BY <1>1, <1>4, <1>2 DEF Types
<1>7. Subscribing(d)'
  BY <1>1, <1>2, <1>3, <1>4 DEF Types, Subscribing, Outer, Inner, Refill
<1>8. Control(d)'
  <2>1. open => subs[c.g]
    BY <1>2 DEF IInvAt, Upstream, Running, Merged
  <2>2. nxt'[c.g] # "none" /\ (open' => subs'[c.g])
    BY <1>1, <1>2, <1>4, <2>1 DEF Types, Base!Events
  <2>3. \E k \in Upstreams : nxt'[k] # "none" /\ (open' => subs'[k])
    BY <1>2, <2>2
  <2> QED
    BY <1>1, <1>2, <1>3, <1>4, <2>3 DEF Types, Control, Outer, Inner, Refill
<1>9. ASSUME NEW k \in Upstreams
      PROVE  Upstream(d, k)'
  <2>1. Upstream(c, k)
    BY DEF IInvAt
  <2>2. nxt'[k] = IF k = c.g THEN c.e ELSE nxt[k]
    BY <1>1, <1>2, <1>4 DEF Types
  <2>3. c.e # "none" /\ (Merged(d, k)' <=> Merged(c, k)) /\ (Fresh(d, k)' <=> Fresh(c, k))
    BY <1>2, <1>3, <1>4 DEF Merged, Fresh, Base!Events
  <2>4. ~Fresh(c, c.g)
    BY <1>2 DEF IInvAt, Upstream, OneAhead, Runs, Inner, Refill
  <2>5. /\ ~Sends(d, k) /\ (Sends(c, k) <=> k = c.g)
        /\ ~Finishing(d, k) /\ ~Finishing(c, k)
        /\ (Runs(d, k) <=> Runs(c, k))
        /\ (Ending(d, k) <=> Ending(c, k))
        /\ k = c.g => (Ending(d, k) <=> Base!IsEnd(c.e))
    BY <1>1, <1>2, <1>3, NoEnd
       DEF Sends, Finishing, Consuming, Runs, Ending, Inner, Refill, Control
  <2>6. Running(d, k)'
    BY <1>1, <1>2, <1>3, <1>4, <2>1, <2>2, <2>3
       DEF Upstream, Running, Merged, Fresh, Runs, Base!Alive, Inner, Refill, Types
  <2>7. OneAhead(d, k)'
    <3>1. CASE k = c.g
      BY <1>1, <1>2, <1>3, <1>4, <2>1, <2>2, <2>3, <2>4, <2>5, <3>1
         DEF Upstream, OneAhead, Tokens, One, Finishing, Consuming, Sends, Merged, Fresh,
             Runs, Inner, Refill, Types
    <3>2. CASE k # c.g
      BY <1>1, <1>2, <1>3, <1>4, <2>1, <2>2, <2>3, <2>4, <2>5, <3>2
         DEF Upstream, OneAhead, Tokens, One, Finishing, Consuming, Sends, Merged, Fresh,
             Runs, Inner, Refill, Types
    <3> QED
      BY <3>1, <3>2
  <2>8. Over(d, k)'
    BY <1>1, <1>2, <1>3, <1>4, <2>1, <2>2, <2>3, <2>4, <2>5, NoEnd
       DEF Upstream, Over, Finishing, Consuming, Sends, Ending, Merged, Fresh, Base!Alive,
           Inner, Refill, Types, Running
  <2>9. Conserved(d, k)'
    <3>1. CASE k = c.g
      BY <1>1, <1>2, <1>3, <1>4, <2>1, <2>2, <2>3, <3>1
         DEF Upstream, Conserved, One, Taking, Consuming, SendsEvent, Merged, Fresh, Inner,
             Refill, Types, Control
    <3>2. CASE k # c.g
      BY <1>1, <1>2, <1>3, <1>4, <2>1, <2>2, <2>3, <3>2
         DEF Upstream, Conserved, One, Taking, Consuming, SendsEvent, Merged, Fresh, Inner,
             Refill, Types, Control
    <3> QED
      BY <3>1, <3>2
  <2> QED
    BY <2>6, <2>7, <2>8, <2>9 DEF Upstream
<1>10. Rounds(d)'
  <2>1. \A n \in Nat, k \in Upstreams : InRound(c, n, k) => InRound(d, n, k)'
    BY <1>1, <1>2, <1>3, <1>4 DEF Types, InRound, Consuming, One, Refill
  <2> QED
    BY <1>1, <1>4, <2>1 DEF Rounds
<1>11. EndLeft'
  BY <1>4 DEF EndLeft
<1>12. IInvAt(d)'
  BY <1>5, <1>6, <1>7, <1>8, <1>9, <1>10, <1>11 DEF IInvAt
<1> QED
  BY <1>3, <1>12 DEF IInv

\* The next element of an upstream arrives that MaybeDeliver asked for.
LEMMA RefillOnNextInv ==
  ASSUME UserIsCareful, NEW c \in Contexts, IInvAt(c), ~fault,
         UpOnNext, c.p = "refillNext"
  PROVE  IInv'
<1>1. Form(c) /\ Types /\ Subscribing(c) /\ Control(c) /\ Rounds(c)
  BY DEF IInvAt
<1>2. /\ c.p = "refillNext" /\ Tail(stack) = Call("After", c.h, c.f, Asking(c))
      /\ c.h \in Upstreams
      /\ Top.gen = c.h /\ Top.ev = c.f /\ lock /\ (delivering <=> TRUE)
      /\ nxt[c.h] = "none" /\ c.f \in Base!Events
  <2>1. c.h \in Upstreams /\ OneAhead(c, c.h) /\ c.f \in Base!Events
    BY DEF Contexts, IInvAt, Upstream
  <2>2. nxt[c.h] = "none"
    BY <1>1, <2>1 DEF OneAhead, Tokens, Sends, One, Types
  <2>3. lock /\ (delivering <=> TRUE)
    BY <1>1 DEF Control, Inner, Refill
  <2> QED
    BY <1>1, <2>1, <2>2, <2>3, TopAt DEF Calls, Top
<1> DEFINE d == [c EXCEPT !.p = "refillAfter"]
<1>3. /\ d \in Contexts
      /\ d.p = "refillAfter" /\ d.b = c.b /\ d.called = c.called /\ d.g = c.g
      /\ d.e = c.e /\ d.h = c.h /\ d.v = c.v /\ d.f = c.f
  BY <1>2 DEF Contexts, Places, Outer, Inner, Refill, Bottoms
<1> HIDE DEF d
<1>4. /\ stack' = Call("After", c.h, c.f, Asking(c))
      /\ nxt' = [nxt EXCEPT ![c.h] = c.f]
      /\ available' \in Balance /\ available' = KMax
      /\ fault' = FALSE
      /\ UNCHANGED <<phase, requested, generating, yielded, granted, delivered, mailbox, subs,
                      current, balance, delivering, lock, open, asked, got, taken, ended>>
  <2>1. available' \in Balance /\ available' = KMax
    <3>1. available = KMax
      BY <1>1, <1>2 DEF Control, Inner, Refill
    <3> QED
      BY <1>1, <3>1, StateChangedType DEF Types, UpOnNext
  <2>2. fault' = FALSE
    BY <1>2 DEF UpOnNext
  <2>3. stack' = Tail(stack) /\ delivering' = delivering
    BY <1>1, <1>2 DEF UpOnNext, MaybeDeliver, Types
  <2> QED
    BY <1>2, <2>1, <2>2, <2>3 DEF UpOnNext, baseVars, userVars
<1>5. Form(d)'
  BY <1>1, <1>2, <1>3, <1>4 DEF Form, Below, Asking
<1>6. Types'
  BY <1>1, <1>4, <1>2 DEF Types
<1>7. Subscribing(d)'
  BY <1>1, <1>2, <1>3, <1>4 DEF Types, Subscribing, Outer, Inner, Refill
<1>8. Control(d)'
  BY <1>1, <1>2, <1>3, <1>4 DEF Types, Control, Outer, Inner, Refill
<1>9. ASSUME NEW k \in Upstreams
      PROVE  Upstream(d, k)'
  <2>1. Upstream(c, k)
    BY DEF IInvAt
  <2>2. nxt'[k] = IF k = c.h THEN c.f ELSE nxt[k]
    BY <1>1, <1>2, <1>4 DEF Types
  <2>3. c.f # "none" /\ (Merged(d, k)' <=> Merged(c, k)) /\ (Fresh(d, k)' <=> Fresh(c, k))
    BY <1>2, <1>3, <1>4 DEF Merged, Fresh, Base!Events
  <2>4. ~Fresh(c, c.h)
    BY <1>2 DEF IInvAt, Upstream, OneAhead, Runs, Inner, Refill
  <2>5. /\ ~Sends(d, k) /\ (Sends(c, k) <=> k = c.h)
        /\ ~Finishing(d, k) /\ ~Finishing(c, k)
        /\ (Runs(d, k) <=> Runs(c, k))
        /\ (Ending(d, k) <=> Ending(c, k))
        /\ k = c.h => (Ending(d, k) <=> Base!IsEnd(c.f))
    BY <1>1, <1>2, <1>3, NoEnd
       DEF Sends, Finishing, Consuming, Runs, Ending, Inner, Refill, Control
  <2>6. Running(d, k)'
    BY <1>1, <1>2, <1>3, <1>4, <2>1, <2>2, <2>3
       DEF Upstream, Running, Merged, Fresh, Runs, Base!Alive, Inner, Refill, Types
  <2>7. OneAhead(d, k)'
    <3>1. CASE k = c.h
      BY <1>1, <1>2, <1>3, <1>4, <2>1, <2>2, <2>3, <2>4, <2>5, <3>1
         DEF Upstream, OneAhead, Tokens, One, Finishing, Consuming, Sends, Merged, Fresh,
             Runs, Inner, Refill, Types
    <3>2. CASE k # c.h
      BY <1>1, <1>2, <1>3, <1>4, <2>1, <2>2, <2>3, <2>4, <2>5, <3>2
         DEF Upstream, OneAhead, Tokens, One, Finishing, Consuming, Sends, Merged, Fresh,
             Runs, Inner, Refill, Types
    <3> QED
      BY <3>1, <3>2
  <2>8. Over(d, k)'
    BY <1>1, <1>2, <1>3, <1>4, <2>1, <2>2, <2>3, <2>4, <2>5, NoEnd
       DEF Upstream, Over, Finishing, Consuming, Sends, Ending, Merged, Fresh, Base!Alive,
           Inner, Refill, Types, Running
  <2>9. Conserved(d, k)'
    <3>1. CASE k = c.h
      BY <1>1, <1>2, <1>3, <1>4, <2>1, <2>2, <2>3, <3>1
         DEF Upstream, Conserved, One, Taking, Consuming, SendsEvent, Merged, Fresh, Inner,
             Refill, Types, Control
    <3>2. CASE k # c.h
      BY <1>1, <1>2, <1>3, <1>4, <2>1, <2>2, <2>3, <3>2
         DEF Upstream, Conserved, One, Taking, Consuming, SendsEvent, Merged, Fresh, Inner,
             Refill, Types, Control
    <3> QED
      BY <3>1, <3>2
  <2> QED
    BY <2>6, <2>7, <2>8, <2>9 DEF Upstream
<1>10. Rounds(d)'
  <2>1. \A n \in Nat, k \in Upstreams : InRound(c, n, k) => InRound(d, n, k)'
    BY <1>1, <1>2, <1>3, <1>4 DEF Types, InRound, Consuming, One, Refill
  <2> QED
    BY <1>1, <1>4, <2>1 DEF Rounds
<1>11. EndLeft'
  BY <1>4 DEF EndLeft
<1>12. IInvAt(d)'
  BY <1>5, <1>6, <1>7, <1>8, <1>9, <1>10, <1>11 DEF IInvAt
<1> QED
  BY <1>3, <1>12 DEF IInv

-----------------------------------------------------------------------------
(* MaybeDeliver.                                                             *)

\* The loop runs in a stream that exists.
LEMMA AtDeliver ==
  ASSUME NEW c \in Contexts, IInvAt(c), Deliver
  PROVE  /\ c.p = "deliver" /\ Tail(stack) = Below(c) /\ lock /\ MergeAlive
         /\ current \in Upstreams /\ c.g \in Upstreams /\ delivering
         /\ LoopCondition => open /\ HasRequests(balance)
<1>1. Form(c) /\ Types /\ Subscribing(c) /\ Control(c)
  BY DEF IInvAt
<1>2. c.p = "deliver" /\ c.g \in Upstreams
  BY <1>1, PlaceOf DEF Deliver, Contexts
<1>3. LoopCondition => open
  BY <1>1 DEF LoopCondition, Subscribing, HasRequests
<1> QED
  BY <1>1, <1>2, <1>3, TopAt DEF Calls, Control, MergeAlive, LoopCondition, Types, Inner

\* The index of the next upstream.
LEMMA NextIndexIs ==
  ASSUME current \in Upstreams
  PROVE  NextIndex = (IF current = N THEN 1 ELSE current + 1) /\ NextIndex \in Upstreams
<1>1. current \in Nat /\ 1 <= current /\ current <= N /\ N \in Nat
  BY Words DEF Upstreams
<1>2. current = N => current % N = 0
  BY <1>1
<1>3. current # N => current % N = current
  BY <1>1
<1> QED
  BY <1>1, <1>2, <1>3 DEF NextIndex, Upstreams

\* How rounds are counted when the index goes from i to j.
LEMMA RoundGoesOn ==
  ASSUME NEW i \in Upstreams, NEW n \in Nat, NEW j, j = IF i = N THEN 1 ELSE i + 1
  PROVE  \E m \in Nat : /\ m + One(i < j) = n + 1
                        /\ \A k \in Upstreams : k # i => m + One(k < j) = n + One(k < i)
<1>1. /\ i \in Nat /\ 1 <= i /\ i <= N /\ N \in Nat
      /\ \A k \in Upstreams : k \in Nat /\ 1 <= k /\ k <= N
  BY Words DEF Upstreams
<1>2. CASE i = N
  <2>1. n + 1 \in Nat /\ j = 1
    BY <1>2
  <2>2. n + 1 + One(i < j) = n + 1
    BY <1>1, <2>1 DEF One
  <2>3. \A k \in Upstreams : k # i => n + 1 + One(k < j) = n + One(k < i)
    BY <1>1, <1>2, <2>1 DEF One
  <2> QED
    BY <2>1, <2>2, <2>3
<1>3. CASE i # N
  <2>1. j = i + 1
    BY <1>3
  <2>2. n + One(i < j) = n + 1
    BY <1>1, <2>1 DEF One
  <2>3. \A k \in Upstreams : k # i => n + One(k < j) = n + One(k < i)
    BY <1>1, <2>1 DEF One
  <2> QED
    BY <2>2, <2>3
<1> QED
  BY <1>2, <1>3

\* An upstream that is merged and not late has its next element there.
LEMMA MergedIsThere ==
  ASSUME NEW c \in Contexts, IInvAt(c), c.p = "deliver", open,
         NEW k \in Upstreams, k \notin Deferred, subs[k]
  PROVE  nxt[k] # "none"
<1>1. Types /\ Control(c) /\ Running(c, k) /\ OneAhead(c, k) /\ Over(c, k)
  BY DEF IInvAt, Upstream
<1>2. ~Runs(c, k) /\ ~Sends(c, k) /\ ~Finishing(c, k) /\ Merged(c, k)
  BY <1>1 DEF Runs, Sends, Finishing, Consuming, Merged, Control, Inner, Refill
<1>3. mailbox[k] = 0
  BY <1>1 DEF OneAhead, Types
<1>4. CASE Base!Alive(k)
  <2>1. requested[k] = 0
    BY <1>1, <1>2, <1>4 DEF Running, Types
  <2> QED
    BY <1>1, <1>2, <1>3, <2>1 DEF OneAhead, Tokens, One
<1>5. CASE ~Base!Alive(k)
  BY <1>1, <1>2, <1>5, NoEnd DEF Over
<1> QED
  BY <1>4, <1>5

\* The loop ends, and returns to the upstream that called MaybeDeliver.
LEMMA DeliverEndsInv ==
  ASSUME UserIsCareful, NEW c \in Contexts, IInvAt(c), ~fault,
         Deliver, ~LoopCondition, c.called
  PROVE  IInv'
<1>1. Form(c) /\ Types /\ Subscribing(c) /\ Control(c) /\ Rounds(c)
  BY DEF IInvAt
<1>2. /\ c.p = "deliver" /\ Tail(stack) = Call("After", c.g, c.e, c.b) /\ lock /\ delivering
      /\ MergeAlive
      /\ c.called = TRUE
  BY AtDeliver DEF Below, Contexts
<1> DEFINE d == [c EXCEPT !.p = "after"]
<1>3. /\ d \in Contexts
      /\ d.p = "after" /\ d.b = c.b /\ d.called = c.called /\ d.g = c.g
      /\ d.e = c.e /\ d.h = c.h /\ d.v = c.v /\ d.f = c.f
  BY <1>2 DEF Contexts, Places, Outer, Inner, Refill, Bottoms
<1> HIDE DEF d
<1>4. /\ stack' = Call("After", c.g, c.e, c.b)
      /\ delivering' = FALSE
      /\ fault' = FALSE
      /\ UNCHANGED <<phase, requested, generating, yielded, granted, delivered, mailbox, subs,
                      nxt, current, balance, available, lock, open, asked, got, taken, ended>>
  BY <1>2
     DEF Deliver, DeliverEnds, DeliverSkips, DeliverConsumes, ConsumesEnded, baseVars,
         userVars
<1>5. Form(d)'
  BY <1>1, <1>2, <1>3, <1>4 DEF Form, Below, Asking
<1>6. Types'
  BY <1>1, <1>4 DEF Types
<1>7. Subscribing(d)'
  BY <1>1, <1>2, <1>3, <1>4 DEF Types, Subscribing, Outer, Inner, Refill
<1>8. Control(d)'
  BY <1>1, <1>2, <1>3, <1>4 DEF Types, Control, Outer, Inner, Refill
<1>9. ASSUME NEW k \in Upstreams
      PROVE  Upstream(d, k)'
  <2>1. Upstream(c, k)
    BY DEF IInvAt
  <2>2. Running(d, k)'
    BY <1>1, <1>2, <1>3, <1>4, <2>1
       DEF Upstream, Running, Merged, Fresh, Runs, Base!Alive, Inner, Refill, Types
  <2>3. OneAhead(d, k)'
    BY <1>1, <1>2, <1>3, <1>4, <2>1
       DEF Upstream, OneAhead, Tokens, One, Finishing, Consuming, Sends, Merged, Fresh, Runs,
           Inner, Refill, Types
  <2>4. Over(d, k)'
    BY <1>1, <1>2, <1>3, <1>4, <2>1
       DEF Upstream, Over, Finishing, Consuming, Sends, Ending, Merged, Fresh, Base!Alive,
           Inner, Refill, Types
  <2>5. Conserved(d, k)'
    BY <1>1, <1>2, <1>3, <1>4, <2>1
       DEF Upstream, Conserved, One, Taking, Consuming, SendsEvent, Merged, Fresh, Inner,
           Refill, Types
  <2> QED
    BY <2>2, <2>3, <2>4, <2>5 DEF Upstream
<1>10. Rounds(d)'
  <2>1. \A n \in Nat, k \in Upstreams : InRound(c, n, k) => InRound(d, n, k)'
    BY <1>1, <1>2, <1>3, <1>4 DEF Types, InRound, Consuming, One, Refill
  <2> QED
    BY <1>1, <1>4, <2>1 DEF Rounds
<1>11. EndLeft'
  BY <1>4 DEF EndLeft
<1>12. IInvAt(d)'
  BY <1>5, <1>6, <1>7, <1>8, <1>9, <1>10, <1>11 DEF IInvAt
<1> QED
  BY <1>3, <1>12 DEF IInv

\* The loop ends, and returns to whoever requested.
LEMMA DeliverEndsBelowInv ==
  ASSUME UserIsCareful, NEW c \in Contexts, IInvAt(c), ~fault,
         Deliver, ~LoopCondition, ~c.called
  PROVE  IInv'
<1>1. Form(c) /\ Types /\ Subscribing(c) /\ Control(c) /\ Rounds(c)
  BY DEF IInvAt
<1>2. /\ c.p = "deliver" /\ Tail(stack) = c.b /\ lock /\ delivering /\ MergeAlive
      /\ c.called = FALSE
  BY AtDeliver DEF Below, Contexts
<1> DEFINE d == [c EXCEPT !.p = "bottom"]
<1>3. /\ d \in Contexts
      /\ d.p = "bottom" /\ d.b = c.b /\ d.called = c.called /\ d.g = c.g
      /\ d.e = c.e /\ d.h = c.h /\ d.v = c.v /\ d.f = c.f
  BY <1>2 DEF Contexts, Places, Outer, Inner, Refill, Bottoms
<1> HIDE DEF d
<1>4. /\ stack' = c.b
      /\ delivering' = FALSE
      /\ fault' = FALSE
      /\ UNCHANGED <<phase, requested, generating, yielded, granted, delivered, mailbox, subs,
                      nxt, current, balance, available, lock, open, asked, got, taken, ended>>
  BY <1>2
     DEF Deliver, DeliverEnds, DeliverSkips, DeliverConsumes, ConsumesEnded, baseVars,
         userVars
<1>5. Form(d)'
  BY <1>1, <1>2, <1>3, <1>4 DEF Form, Below, Asking
<1>6. Types'
  BY <1>1, <1>4 DEF Types
<1>7. Subscribing(d)'
  BY <1>1, <1>2, <1>3, <1>4 DEF Types, Subscribing, Outer, Inner, Refill
<1>8. Control(d)'
  BY <1>1, <1>2, <1>3, <1>4 DEF Types, Control, Outer, Inner, Refill
<1>9. ASSUME NEW k \in Upstreams
      PROVE  Upstream(d, k)'
  <2>1. Upstream(c, k)
    BY DEF IInvAt
  <2>2. Running(d, k)'
    BY <1>1, <1>2, <1>3, <1>4, <2>1
       DEF Upstream, Running, Merged, Fresh, Runs, Base!Alive, Inner, Refill, Types
  <2>3. OneAhead(d, k)'
    BY <1>1, <1>2, <1>3, <1>4, <2>1
       DEF Upstream, OneAhead, Tokens, One, Finishing, Consuming, Sends, Merged, Fresh, Runs,
           Inner, Refill, Types
  <2>4. Over(d, k)'
    BY <1>1, <1>2, <1>3, <1>4, <2>1
       DEF Upstream, Over, Finishing, Consuming, Sends, Ending, Merged, Fresh, Base!Alive,
           Inner, Refill, Types
  <2>5. Conserved(d, k)'
    BY <1>1, <1>2, <1>3, <1>4, <2>1
       DEF Upstream, Conserved, One, Taking, Consuming, SendsEvent, Merged, Fresh, Inner,
           Refill, Types
  <2> QED
    BY <2>2, <2>3, <2>4, <2>5 DEF Upstream
<1>10. Rounds(d)'
  <2>1. \A n \in Nat, k \in Upstreams : InRound(c, n, k) => InRound(d, n, k)'
    BY <1>1, <1>2, <1>3, <1>4 DEF Types, InRound, Consuming, One, Refill
  <2> QED
    BY <1>1, <1>4, <2>1 DEF Rounds
<1>11. EndLeft'
  BY <1>4 DEF EndLeft
<1>12. IInvAt(d)'
  BY <1>5, <1>6, <1>7, <1>8, <1>9, <1>10, <1>11 DEF IInvAt
<1> QED
  BY <1>3, <1>12 DEF IInv

\* There is nothing at this index.
LEMMA DeliverSkipsInv ==
  ASSUME UserIsCareful, NEW c \in Contexts, IInvAt(c), ~fault,
         Deliver, LoopCondition, ~HasNext(current)
  PROVE  IInv'
<1>1. Form(c) /\ Types /\ Subscribing(c) /\ Control(c) /\ Rounds(c)
  BY DEF IInvAt
<1>2. /\ c.p = "deliver" /\ lock /\ delivering /\ MergeAlive /\ open /\ HasRequests(balance)
      /\ current \in Upstreams
      /\ NextIndex = (IF current = N THEN 1 ELSE current + 1) /\ NextIndex \in Upstreams
  BY AtDeliver, NextIndexIs
<1>3. /\ current' = NextIndex
      /\ fault' = FALSE
      /\ UNCHANGED <<stack, phase, requested, generating, yielded, granted, delivered,
                      mailbox, subs, nxt, balance, available, delivering, lock, open, asked,
                      got, taken, ended>>
  BY <1>2
     DEF Deliver, DeliverEnds, DeliverSkips, DeliverConsumes, ConsumesEnded, baseVars,
         userVars
<1>4. Form(c)'
  BY <1>1, <1>2, <1>3 DEF Form, Below, Asking
<1>5. Types'
  BY <1>1, <1>3, <1>2 DEF Types
<1>6. Subscribing(c)'
  BY <1>1, <1>2, <1>3 DEF Types, Subscribing, Outer, Inner, Refill
<1>7. Control(c)'
  BY <1>1, <1>2, <1>3 DEF Types, Control, Outer, Inner, Refill
<1>8. ASSUME NEW k \in Upstreams
      PROVE  Upstream(c, k)'
  <2>1. Upstream(c, k)
    BY DEF IInvAt
  <2>2. Running(c, k)'
    BY <1>1, <1>2, <1>3, <2>1
       DEF Upstream, Running, Merged, Fresh, Runs, Base!Alive, Inner, Refill, Types
  <2>3. OneAhead(c, k)'
    BY <1>1, <1>2, <1>3, <2>1
       DEF Upstream, OneAhead, Tokens, One, Finishing, Consuming, Sends, Merged, Fresh, Runs,
           Inner, Refill, Types
  <2>4. Over(c, k)'
    BY <1>1, <1>2, <1>3, <2>1
       DEF Upstream, Over, Finishing, Consuming, Sends, Ending, Merged, Fresh, Base!Alive,
           Inner, Refill, Types
  <2>5. Conserved(c, k)'
    BY <1>1, <1>2, <1>3, <2>1
       DEF Upstream, Conserved, One, Taking, Consuming, SendsEvent, Merged, Fresh, Inner,
           Refill, Types
  <2> QED
    BY <2>2, <2>3, <2>4, <2>5 DEF Upstream
<1>9. Rounds(c)'
  <2>1. SUFFICES ASSUME Deferred = {}
                 PROVE  \E n \in Nat : \A k \in Upstreams : InRound(c, n, k)'
    BY DEF Rounds
  <2>2. ~subs[current]
    BY <1>2, <2>1, MergedIsThere DEF HasNext
  <2>3. PICK n \in Nat : \A k \in Upstreams : InRound(c, n, k)
    BY <1>1, <2>1 DEF Rounds
  <2>4. PICK m \in Nat : \A k \in Upstreams :
                           k # current => m + One(k < NextIndex) = n + One(k < current)
    <3>1. PICK i \in Upstreams, j \in Upstreams : i = current /\ j = NextIndex
      BY <1>2
    <3>2. j = IF i = N THEN 1 ELSE i + 1
      BY <1>2, <3>1
    <3> QED
      BY <3>1, <3>2, RoundGoesOn DEF One
  <2>5. ASSUME NEW k \in Upstreams, subs[k]
        PROVE  InRound(c, m, k)'
    <3>1. k # current
      BY <2>2, <2>5
    <3> QED
      BY <1>2, <1>3, <2>3, <2>4, <2>5, <3>1 DEF InRound, Consuming, Refill
  <2>6. ASSUME NEW k \in Upstreams, ~subs[k]
        PROVE  InRound(c, m, k)'
    BY <1>3, <2>6 DEF InRound
  <2> QED
    BY <2>5, <2>6
<1>10. EndLeft'
  BY <1>3 DEF EndLeft
<1>11. IInvAt(c)'
  BY <1>4, <1>5, <1>6, <1>7, <1>8, <1>9, <1>10 DEF IInvAt
<1> QED
  BY <1>11 DEF IInv

\* The end of an upstream is consumed.
LEMMA ConsumesEndInv ==
  ASSUME UserIsCareful, NEW c \in Contexts, IInvAt(c), ~fault,
         Deliver, LoopCondition, HasNext(current), Base!IsEnd(nxt[current])
  PROVE  IInv'
<1>1. Form(c) /\ Types /\ Subscribing(c) /\ Control(c) /\ Rounds(c)
  BY DEF IInvAt
<1>2. PICK h \in Upstreams, v \in Base!Events : h = current /\ v = nxt[current] /\ subs[h]
  <2>1. current \in Upstreams /\ nxt[current] \in Base!Events \cup {"none"}
    BY <1>1, AtDeliver DEF Types
  <2> QED
    BY <2>1 DEF HasNext
<1>3. /\ NextIndex = (IF h = N THEN 1 ELSE h + 1) /\ NextIndex \in Upstreams
      /\ available \in Balance /\ StateChanged(-1) \in Balance /\ StateChanged(-1) = KMax
  BY <1>1, <1>2, NextIndexIs, StateChangedType DEF Types, LoopCondition
<1>4. Running(c, h) /\ OneAhead(c, h) /\ Over(c, h)
  BY DEF IInvAt, Upstream
<1>5. /\ c.p = "deliver" /\ Tail(stack) = Below(c) /\ lock /\ delivering /\ MergeAlive
      /\ open /\ HasRequests(balance) /\ h \in Upstreams /\ v \in Base!Events /\ Base!IsEnd(v)
      /\ subs[h] /\ nxt[h] = v /\ v # "none" /\ current = h /\ v # "value"
  BY <1>2, AtDeliver, NoEnd DEF Base!Events
<1> DEFINE d == [c EXCEPT !.p = "consumed", !.h = h, !.v = v]
<1>6. /\ d \in Contexts
      /\ d.p = "consumed" /\ d.b = c.b /\ d.called = c.called /\ d.g = c.g
      /\ d.e = c.e /\ d.h = h /\ d.v = v /\ d.f = c.f
  BY <1>5 DEF Contexts, Places, Outer, Inner, Refill, Bottoms
<1> HIDE DEF d
<1>7. /\ stack' = Call("Consumed", h, v, Below(c))
      /\ nxt' = [nxt EXCEPT ![h] = "none"]
      /\ available' \in Balance /\ available' = KMax
      /\ current' = NextIndex
      /\ fault' = FALSE
      /\ UNCHANGED <<phase, requested, generating, yielded, granted, delivered, mailbox, subs,
                      balance, delivering, lock, open, asked, got, taken, ended>>
  <2>1. /\ nxt' = [nxt EXCEPT ![current] = "none"] /\ available' = StateChanged(-1)
        /\ current' = NextIndex
        /\ stack' = Call("Consumed", current, nxt[current], Tail(stack))
        /\ fault' = (~MergeAlive \/ ConsumesEnded)
        /\ UNCHANGED <<phase, requested, generating, yielded, granted, mailbox, delivered,
                       delivering, subs, balance, lock, open, userVars>>
    BY DEF Deliver, DeliverEnds, DeliverSkips, DeliverConsumes
  <2>2. ~ConsumesEnded
    BY DEF ConsumesEnded
  <2> QED
    BY <1>5, <1>3, <2>1, <2>2 DEF userVars
<1>8. Form(d)'
  BY <1>1, <1>5, <1>6, <1>7 DEF Form, Below, Asking
<1>9. Types'
  BY <1>1, <1>7, <1>5, <1>3 DEF Types
<1>10. Subscribing(d)'
  BY <1>1, <1>5, <1>6, <1>7 DEF Types, Subscribing, Outer, Inner, Refill
<1>11. Control(d)'
  BY <1>1, <1>5, <1>6, <1>7, <1>3 DEF Types, Control, Outer, Inner, Refill, Subscribing
<1>12. ASSUME NEW k \in Upstreams
       PROVE  Upstream(d, k)'
  <2>1. Upstream(c, k)
    BY DEF IInvAt
  <2>2. nxt'[k] = IF k = h THEN "none" ELSE nxt[k]
    BY <1>1, <1>5, <1>7 DEF Types
  <2>3. /\ ~Sends(c, k) /\ ~Sends(d, k) /\ ~SendsEvent(c, k, "value")
        /\ ~SendsEvent(d, k, "value")
        /\ ~Finishing(c, k) /\ (Finishing(d, k) <=> k = h)
        /\ ~Taking(c, k) /\ ~Taking(d, k)
        /\ (Ending(d, k) <=> Ending(c, k))
    BY <1>5, <1>6, NoEnd
       DEF Sends, SendsEvent, Finishing, Taking, Consuming, Ending, Inner, Refill
  <2>4. /\ (Merged(c, k) <=> subs[k]) /\ (Merged(d, k)' <=> subs[k])
        /\ (Fresh(d, k)' <=> Fresh(c, k))
    BY <1>5, <1>6, <1>7 DEF Merged, Fresh
  <2>5. Running(d, k)'
    BY <1>1, <1>5, <1>6, <1>7, <2>1, <2>2, <2>3, <2>4
       DEF Upstream, Running, Merged, Fresh, Runs, Base!Alive, Inner, Refill, Types
  <2>6. OneAhead(d, k)'
    BY <1>1, <1>5, <1>6, <1>7, <2>1, <2>2, <2>3, <2>4
       DEF Upstream, OneAhead, Tokens, One, Finishing, Consuming, Sends, Merged, Fresh, Runs,
           Inner, Refill, Types
  <2>7. Over(d, k)'
    BY <1>1, <1>5, <1>6, <1>7, <2>1, <2>2, <2>3, <2>4, NoEnd
       DEF Upstream, Over, Finishing, Consuming, Sends, Ending, Merged, Fresh, Base!Alive,
           Inner, Refill, Types
  <2>8. Conserved(d, k)'
    BY <1>1, <1>5, <1>6, <1>7, <2>1, <2>2, <2>3, <2>4
       DEF Upstream, Conserved, One, Taking, Consuming, SendsEvent, Merged, Fresh, Inner,
           Refill, Types
  <2> QED
    BY <2>5, <2>6, <2>7, <2>8 DEF Upstream
<1>13. Rounds(d)'
  <2>1. SUFFICES ASSUME Deferred = {}
                 PROVE  \E n \in Nat : \A k \in Upstreams : InRound(d, n, k)'
    BY DEF Rounds
  <2>2. PICK n \in Nat : \A k \in Upstreams : InRound(c, n, k)
    BY <1>1, <2>1 DEF Rounds
  <2>3. PICK m \in Nat : /\ m + One(h < NextIndex) = n + 1
                         /\ \A k \in Upstreams : k # h => m + One(k < NextIndex) = n + One(k < h)
    <3>1. PICK j \in Upstreams : j = NextIndex
      BY <1>3
    <3>2. j = IF h = N THEN 1 ELSE h + 1
      BY <1>3, <3>1
    <3> QED
      BY <3>1, <3>2, RoundGoesOn DEF One
  <2>4. ASSUME NEW k \in Upstreams, k # h
        PROVE  InRound(d, m, k)'
    BY <1>5, <1>6, <1>7, <2>2, <2>3, <2>4 DEF InRound, Consuming, One, Refill
  <2>5. InRound(d, m, h)'
    <3>1. taken[h] = n
      <4>1. taken[h] \in Nat /\ ~(h < h)
        <5>1. taken[h] \in Nat
          BY <1>1 DEF Types
        <5>2. h \in 1 .. N /\ N \in Nat
          BY Words DEF Upstreams
        <5> QED
          BY <5>1, <5>2
      <4>2. taken[h] + One(Consuming(c, h)) = n + One(h < current)
        BY <1>5, <2>2 DEF InRound
      <4>3. One(Consuming(c, h)) = 0 /\ One(h < current) = 0
        BY <1>5, <4>1 DEF Consuming, One, Refill
      <4> QED
        BY <4>1, <4>2, <4>3
    <3>2. taken'[h] = taken[h] /\ current' = NextIndex /\ Consuming(d, h)
      BY <1>5, <1>6, <1>7 DEF Consuming, Refill
    <3> QED
      BY <2>3, <3>1, <3>2 DEF InRound, One
  <2> QED
    BY <2>4, <2>5
<1>14. EndLeft'
  BY <1>7 DEF EndLeft
<1>15. IInvAt(d)'
  BY <1>8, <1>9, <1>10, <1>11, <1>12, <1>13, <1>14 DEF IInvAt
<1> QED
  BY <1>6, <1>15 DEF IInv

\* A value is consumed, and a deferred upstream has a request to see.
LEMMA ConsumesLateInv ==
  ASSUME UserIsCareful, NEW c \in Contexts, IInvAt(c), ~fault,
         Deliver, LoopCondition, HasNext(current), nxt[current] = "value",
         current \in Deferred
  PROVE  IInv'
<1>1. Form(c) /\ Types /\ Subscribing(c) /\ Control(c) /\ Rounds(c)
  BY DEF IInvAt
<1>2. PICK h \in Upstreams, v \in Base!Events : h = current /\ v = nxt[current] /\ subs[h]
  <2>1. current \in Upstreams /\ nxt[current] \in Base!Events \cup {"none"}
    BY <1>1, AtDeliver DEF Types
  <2> QED
    BY <2>1 DEF HasNext
<1>3. /\ NextIndex = (IF h = N THEN 1 ELSE h + 1) /\ NextIndex \in Upstreams
      /\ available \in Balance /\ StateChanged(-1) \in Balance /\ StateChanged(-1) = KMax
  BY <1>1, <1>2, NextIndexIs, StateChangedType DEF Types, LoopCondition
<1>4. Running(c, h) /\ OneAhead(c, h) /\ Over(c, h)
  BY DEF IInvAt, Upstream
<1>5. /\ c.p = "deliver" /\ Tail(stack) = Below(c) /\ lock /\ delivering /\ MergeAlive
      /\ open /\ HasRequests(balance) /\ h \in Upstreams /\ v \in Base!Events /\ v = "value"
      /\ subs[h] /\ nxt[h] = v /\ v # "none" /\ current = h /\ Base!Alive(h) /\ ~Ending(c, h)
      /\ requested[h] = 0 /\ mailbox[h] = 0 /\ granted[h] \in Nat
      /\ h \in Deferred
  <2>1. c.p = "deliver" /\ open /\ Merged(c, h)
    BY <1>2, AtDeliver DEF Merged
  <2>2. ~Sends(c, h) /\ ~Finishing(c, h)
    BY <2>1 DEF Sends, Finishing, Consuming, Refill
  <2>3. nxt[h] = "value"
    BY <1>2
  <2>4. Base!Alive(h) /\ ~Ending(c, h)
    BY <1>4, <2>1, <2>2, <2>3, NoEnd DEF Over
  <2>5. requested[h] = 0 /\ mailbox[h] = 0 /\ granted[h] \in Nat
    BY <1>1, <1>4, <2>3 DEF OneAhead, Tokens, One, Types
  <2> QED
    BY <1>2, <2>1, <2>3, <2>4, <2>5, AtDeliver
<1> DEFINE d == [c EXCEPT !.p = "consumed", !.h = h, !.v = v]
<1>6. /\ d \in Contexts
      /\ d.p = "consumed" /\ d.b = c.b /\ d.called = c.called /\ d.g = c.g
      /\ d.e = c.e /\ d.h = h /\ d.v = v /\ d.f = c.f
  BY <1>5 DEF Contexts, Places, Outer, Inner, Refill, Bottoms
<1> HIDE DEF d
<1>7. /\ stack' = Call("Consumed", h, v, Below(c))
      /\ nxt' = [nxt EXCEPT ![h] = "none"]
      /\ available' \in Balance /\ available' = KMax
      /\ current' = NextIndex
      /\ fault' = FALSE
      /\ granted' = [granted EXCEPT ![h] = @ + Ahead]
      /\ mailbox' = [mailbox EXCEPT ![h] = 1]
      /\ UNCHANGED <<phase, requested, generating, yielded, delivered, subs, balance,
                      delivering, lock, open, asked, got, taken, ended>>
  <2>1. /\ nxt' = [nxt EXCEPT ![current] = "none"] /\ available' = StateChanged(-1)
        /\ current' = NextIndex
        /\ RequestNext(current, Call("Consumed", current, nxt[current], Tail(stack)))
        /\ fault' = (~MergeAlive \/ ConsumesEnded)
        /\ UNCHANGED <<delivered, delivering, subs, balance, lock, open, userVars>>
    BY NoEnd DEF Deliver, DeliverEnds, DeliverSkips, DeliverConsumes
  <2>2. ~ConsumesEnded
    BY <1>5 DEF ConsumesEnded

  <2>3. mailbox[h] + Ahead = 1
    BY <1>5 DEF Ahead
  <2> QED
    BY <1>5, <1>3, <2>1, <2>2, <2>3 DEF RequestNext, userVars
<1>8. Form(d)'
  BY <1>1, <1>5, <1>6, <1>7 DEF Form, Below, Asking
<1>9. Types'
  <2>1. granted[h] + Ahead \in Nat /\ 1 \in Nat
    BY <1>5 DEF Ahead
  <2>2. granted' \in [Upstreams -> Nat] /\ mailbox' \in [Upstreams -> Nat]
        /\ requested' \in [Upstreams -> Nat] /\ generating' \in [Upstreams -> BOOLEAN]
    BY <1>1, <1>7, <2>1 DEF Types
  <2>3. /\ nxt' \in [Upstreams -> Base!Events \cup {"none"}]
        /\ available' \in Balance /\ current' \in Upstreams
    BY <1>1, <1>7, <1>3 DEF Types
  <2> QED
    BY <1>1, <1>7, <2>2, <2>3 DEF Types
<1>10. Subscribing(d)'
  BY <1>1, <1>5, <1>6, <1>7 DEF Types, Subscribing, Outer, Inner, Refill
<1>11. Control(d)'
  BY <1>1, <1>5, <1>6, <1>7, <1>3 DEF Types, Control, Outer, Inner, Refill, Subscribing, Runs
<1>12. ASSUME NEW k \in Upstreams
       PROVE  Upstream(d, k)'
  <2>1. Upstream(c, k)
    BY DEF IInvAt
  <2>2. nxt'[k] = IF k = h THEN "none" ELSE nxt[k]
    BY <1>1, <1>5, <1>7 DEF Types
  <2>3. /\ ~Sends(c, k) /\ ~Sends(d, k) /\ ~SendsEvent(c, k, "value")
        /\ ~SendsEvent(d, k, "value")
        /\ ~Finishing(c, k) /\ ~Finishing(d, k)
        /\ ~Taking(c, k) /\ (Taking(d, k) <=> k = h)
        /\ (Ending(d, k) <=> Ending(c, k))
    BY <1>5, <1>6, NoEnd
       DEF Sends, SendsEvent, Finishing, Taking, Consuming, Ending, Inner, Refill
  <2>4. /\ (Merged(c, k) <=> subs[k]) /\ (Merged(d, k)' <=> subs[k])
        /\ (Fresh(d, k)' <=> Fresh(c, k))
    BY <1>5, <1>6, <1>7 DEF Merged, Fresh
  <2>5. mailbox'[k] = IF k = h THEN 1 ELSE mailbox[k]
    BY <1>1, <1>5, <1>7 DEF Types
  <2>6. Running(d, k)'
    BY <1>1, <1>5, <1>6, <1>7, <2>1, <2>2, <2>3, <2>4, <2>5
       DEF Upstream, Running, Merged, Fresh, Runs, Base!Alive, Inner, Refill, Types
  <2>7. OneAhead(d, k)'
    <3>1. CASE k = h
      <4>1. Tokens(d, k)' = 1
        BY <1>5, <1>6, <1>7, <2>2, <2>5, <3>1 DEF Tokens, Sends, One
      <4> QED
        BY <1>5, <1>6, <1>7, <1>4, <2>2, <2>3, <2>4, <2>5, <3>1, <4>1
           DEF OneAhead, Finishing, Consuming, Runs, Inner, Refill
    <3>2. CASE k # h
      <4>1. Tokens(d, k)' = Tokens(c, k)
        BY <1>5, <1>6, <1>7, <2>2, <2>5, <3>2 DEF Tokens, Sends
      <4> QED
        BY <1>5, <1>6, <1>7, <2>1, <2>2, <2>3, <2>4, <2>5, <3>2, <4>1
           DEF Upstream, OneAhead, Finishing, Consuming, Runs, Inner, Refill
    <3> QED
      BY <3>1, <3>2
  <2>8. Over(d, k)'
    BY <1>1, <1>5, <1>6, <1>7, <2>1, <2>2, <2>3, <2>4, NoEnd
       DEF Upstream, Over, Finishing, Consuming, Sends, Ending, Merged, Fresh, Base!Alive,
           Inner, Refill, Types
  <2>9. Conserved(d, k)'
    BY <1>1, <1>5, <1>6, <1>7, <2>1, <2>2, <2>3, <2>4
       DEF Upstream, Conserved, One, Taking, Consuming, SendsEvent, Merged, Fresh, Inner,
           Refill, Types
  <2> QED
    BY <2>6, <2>7, <2>8, <2>9 DEF Upstream
<1>13. Rounds(d)'
  <2>1. SUFFICES ASSUME Deferred = {}
                 PROVE  \E n \in Nat : \A k \in Upstreams : InRound(d, n, k)'
    BY DEF Rounds
  <2>2. PICK n \in Nat : \A k \in Upstreams : InRound(c, n, k)
    BY <1>1, <2>1 DEF Rounds
  <2>3. PICK m \in Nat : /\ m + One(h < NextIndex) = n + 1
                         /\ \A k \in Upstreams : k # h => m + One(k < NextIndex) = n + One(k < h)
    <3>1. PICK j \in Upstreams : j = NextIndex
      BY <1>3
    <3>2. j = IF h = N THEN 1 ELSE h + 1
      BY <1>3, <3>1
    <3> QED
      BY <3>1, <3>2, RoundGoesOn DEF One
  <2>4. ASSUME NEW k \in Upstreams, k # h
        PROVE  InRound(d, m, k)'
    BY <1>5, <1>6, <1>7, <2>2, <2>3, <2>4 DEF InRound, Consuming, One, Refill
  <2>5. InRound(d, m, h)'
    <3>1. taken[h] = n
      <4>1. taken[h] \in Nat /\ ~(h < h)
        <5>1. taken[h] \in Nat
          BY <1>1 DEF Types
        <5>2. h \in 1 .. N /\ N \in Nat
          BY Words DEF Upstreams
        <5> QED
          BY <5>1, <5>2
      <4>2. taken[h] + One(Consuming(c, h)) = n + One(h < current)
        BY <1>5, <2>2 DEF InRound
      <4>3. One(Consuming(c, h)) = 0 /\ One(h < current) = 0
        BY <1>5, <4>1 DEF Consuming, One, Refill
      <4> QED
        BY <4>1, <4>2, <4>3
    <3>2. taken'[h] = taken[h] /\ current' = NextIndex /\ Consuming(d, h)
      BY <1>5, <1>6, <1>7 DEF Consuming, Refill
    <3> QED
      BY <2>3, <3>1, <3>2 DEF InRound, One
  <2> QED
    BY <2>4, <2>5
<1>14. EndLeft'
  BY <1>7 DEF EndLeft
<1>15. IInvAt(d)'
  BY <1>8, <1>9, <1>10, <1>11, <1>12, <1>13, <1>14 DEF IInvAt
<1> QED
  BY <1>6, <1>15 DEF IInv

\* A value is consumed, and the upstream whose loop is below is asked for the next one.
LEMMA ConsumesInLoopInv ==
  ASSUME UserIsCareful, NEW c \in Contexts, IInvAt(c), ~fault,
         Deliver, LoopCondition, HasNext(current), nxt[current] = "value",
         current \notin Deferred, generating[current]
  PROVE  IInv'
<1>1. Form(c) /\ Types /\ Subscribing(c) /\ Control(c) /\ Rounds(c)
  BY DEF IInvAt
<1>2. PICK h \in Upstreams, v \in Base!Events : h = current /\ v = nxt[current] /\ subs[h]
  <2>1. current \in Upstreams /\ nxt[current] \in Base!Events \cup {"none"}
    BY <1>1, AtDeliver DEF Types
  <2> QED
    BY <2>1 DEF HasNext
<1>3. /\ NextIndex = (IF h = N THEN 1 ELSE h + 1) /\ NextIndex \in Upstreams
      /\ available \in Balance /\ StateChanged(-1) \in Balance /\ StateChanged(-1) = KMax
  BY <1>1, <1>2, NextIndexIs, StateChangedType DEF Types, LoopCondition
<1>4. Running(c, h) /\ OneAhead(c, h) /\ Over(c, h)
  BY DEF IInvAt, Upstream
<1>5. /\ c.p = "deliver" /\ Tail(stack) = Below(c) /\ lock /\ delivering /\ MergeAlive
      /\ open /\ HasRequests(balance) /\ h \in Upstreams /\ v \in Base!Events /\ v = "value"
      /\ subs[h] /\ nxt[h] = v /\ v # "none" /\ current = h /\ Base!Alive(h) /\ ~Ending(c, h)
      /\ requested[h] = 0 /\ mailbox[h] = 0 /\ granted[h] \in Nat
      /\ h \notin Deferred /\ generating[h] /\ Runs(c, h)
  <2>1. c.p = "deliver" /\ open /\ Merged(c, h)
    BY <1>2, AtDeliver DEF Merged
  <2>2. ~Sends(c, h) /\ ~Finishing(c, h)
    BY <2>1 DEF Sends, Finishing, Consuming, Refill
  <2>3. nxt[h] = "value"
    BY <1>2
  <2>4. Base!Alive(h) /\ ~Ending(c, h)
    BY <1>4, <2>1, <2>2, <2>3, NoEnd DEF Over
  <2>5. requested[h] = 0 /\ mailbox[h] = 0 /\ granted[h] \in Nat
    BY <1>1, <1>4, <2>3 DEF OneAhead, Tokens, One, Types
  <2> QED
    BY <1>2, <1>4, <2>1, <2>3, <2>4, <2>5, AtDeliver DEF Running
<1> DEFINE d == [c EXCEPT !.p = "consumed", !.h = h, !.v = v]
<1>6. /\ d \in Contexts
      /\ d.p = "consumed" /\ d.b = c.b /\ d.called = c.called /\ d.g = c.g
      /\ d.e = c.e /\ d.h = h /\ d.v = v /\ d.f = c.f
  BY <1>5 DEF Contexts, Places, Outer, Inner, Refill, Bottoms
<1> HIDE DEF d
<1>7. /\ stack' = Call("Consumed", h, v, Below(c))
      /\ nxt' = [nxt EXCEPT ![h] = "none"]
      /\ available' \in Balance /\ available' = KMax
      /\ current' = NextIndex
      /\ fault' = FALSE
      /\ granted' = [granted EXCEPT ![h] = @ + Ahead]
      /\ requested' = [requested EXCEPT ![h] = 1]
      /\ UNCHANGED <<phase, generating, yielded, delivered, mailbox, subs, balance,
                      delivering, lock, open, asked, got, taken, ended>>
  <2>1. /\ nxt' = [nxt EXCEPT ![current] = "none"] /\ available' = StateChanged(-1)
        /\ current' = NextIndex
        /\ RequestNext(current, Call("Consumed", current, nxt[current], Tail(stack)))
        /\ fault' = (~MergeAlive \/ ConsumesEnded)
        /\ UNCHANGED <<delivered, delivering, subs, balance, lock, open, userVars>>
    BY NoEnd DEF Deliver, DeliverEnds, DeliverSkips, DeliverConsumes
  <2>2. ~ConsumesEnded
    BY <1>5 DEF ConsumesEnded

  <2>3. Base!AddTo(requested[h], Ahead) = 1
    BY <1>5, OneMore
  <2>4. generating' = generating
    <3>1. generating[h] = TRUE /\ generating = [k \in Upstreams |-> generating[k]]
      BY <1>1, <1>5 DEF Types
    <3>2. generating' = [generating EXCEPT ![h] = TRUE]
      BY <1>5, <2>1 DEF RequestNext, Base!Request
    <3>3. generating' = [generating EXCEPT ![h] = generating[h]]
      BY <3>1, <3>2, Zenon
    <3> QED
      BY <3>1, <3>3
  <2> QED
    BY <1>5, <1>3, <2>1, <2>2, <2>3, <2>4
       DEF RequestNext, Base!Request, Base!StartsGenerate, userVars
<1>8. Form(d)'
  BY <1>1, <1>5, <1>6, <1>7 DEF Form, Below, Asking
<1>9. Types'
  <2>1. granted[h] + Ahead \in Nat /\ 1 \in Nat
    BY <1>5 DEF Ahead
  <2>2. granted' \in [Upstreams -> Nat] /\ mailbox' \in [Upstreams -> Nat]
        /\ requested' \in [Upstreams -> Nat] /\ generating' \in [Upstreams -> BOOLEAN]
    BY <1>1, <1>7, <2>1 DEF Types
  <2>3. /\ nxt' \in [Upstreams -> Base!Events \cup {"none"}]
        /\ available' \in Balance /\ current' \in Upstreams
    BY <1>1, <1>7, <1>3 DEF Types
  <2> QED
    BY <1>1, <1>7, <2>2, <2>3 DEF Types
<1>10. Subscribing(d)'
  BY <1>1, <1>5, <1>6, <1>7 DEF Types, Subscribing, Outer, Inner, Refill
<1>11. Control(d)'
  BY <1>1, <1>5, <1>6, <1>7, <1>3 DEF Types, Control, Outer, Inner, Refill, Subscribing, Runs
<1>12. ASSUME NEW k \in Upstreams
       PROVE  Upstream(d, k)'
  <2>1. Upstream(c, k)
    BY DEF IInvAt
  <2>2. nxt'[k] = IF k = h THEN "none" ELSE nxt[k]
    BY <1>1, <1>5, <1>7 DEF Types
  <2>3. /\ ~Sends(c, k) /\ ~Sends(d, k) /\ ~SendsEvent(c, k, "value")
        /\ ~SendsEvent(d, k, "value")
        /\ ~Finishing(c, k) /\ ~Finishing(d, k)
        /\ ~Taking(c, k) /\ (Taking(d, k) <=> k = h)
        /\ (Ending(d, k) <=> Ending(c, k))
    BY <1>5, <1>6, NoEnd
       DEF Sends, SendsEvent, Finishing, Taking, Consuming, Ending, Inner, Refill
  <2>4. /\ (Merged(c, k) <=> subs[k]) /\ (Merged(d, k)' <=> subs[k])
        /\ (Fresh(d, k)' <=> Fresh(c, k))
    BY <1>5, <1>6, <1>7 DEF Merged, Fresh
  <2>5. requested'[k] = IF k = h THEN 1 ELSE requested[k]
    BY <1>1, <1>5, <1>7 DEF Types
  <2>6. Running(d, k)'
    BY <1>1, <1>5, <1>6, <1>7, <2>1, <2>2, <2>3, <2>4, <2>5
       DEF Upstream, Running, Merged, Fresh, Runs, Base!Alive, Inner, Refill, Types
  <2>7. OneAhead(d, k)'
    BY <1>1, <1>5, <1>6, <1>7, <2>1, <2>2, <2>3, <2>4, <2>5
       DEF Upstream, OneAhead, Tokens, One, Finishing, Consuming, Sends, Merged, Fresh, Runs,
           Inner, Refill, Types
  <2>8. Over(d, k)'
    BY <1>1, <1>5, <1>6, <1>7, <2>1, <2>2, <2>3, <2>4, NoEnd
       DEF Upstream, Over, Finishing, Consuming, Sends, Ending, Merged, Fresh, Base!Alive,
           Inner, Refill, Types
  <2>9. Conserved(d, k)'
    BY <1>1, <1>5, <1>6, <1>7, <2>1, <2>2, <2>3, <2>4
       DEF Upstream, Conserved, One, Taking, Consuming, SendsEvent, Merged, Fresh, Inner,
           Refill, Types
  <2> QED
    BY <2>6, <2>7, <2>8, <2>9 DEF Upstream
<1>13. Rounds(d)'
  <2>1. SUFFICES ASSUME Deferred = {}
                 PROVE  \E n \in Nat : \A k \in Upstreams : InRound(d, n, k)'
    BY DEF Rounds
  <2>2. PICK n \in Nat : \A k \in Upstreams : InRound(c, n, k)
    BY <1>1, <2>1 DEF Rounds
  <2>3. PICK m \in Nat : /\ m + One(h < NextIndex) = n + 1
                         /\ \A k \in Upstreams : k # h => m + One(k < NextIndex) = n + One(k < h)
    <3>1. PICK j \in Upstreams : j = NextIndex
      BY <1>3
    <3>2. j = IF h = N THEN 1 ELSE h + 1
      BY <1>3, <3>1
    <3> QED
      BY <3>1, <3>2, RoundGoesOn DEF One
  <2>4. ASSUME NEW k \in Upstreams, k # h
        PROVE  InRound(d, m, k)'
    BY <1>5, <1>6, <1>7, <2>2, <2>3, <2>4 DEF InRound, Consuming, One, Refill
  <2>5. InRound(d, m, h)'
    <3>1. taken[h] = n
      <4>1. taken[h] \in Nat /\ ~(h < h)
        <5>1. taken[h] \in Nat
          BY <1>1 DEF Types
        <5>2. h \in 1 .. N /\ N \in Nat
          BY Words DEF Upstreams
        <5> QED
          BY <5>1, <5>2
      <4>2. taken[h] + One(Consuming(c, h)) = n + One(h < current)
        BY <1>5, <2>2 DEF InRound
      <4>3. One(Consuming(c, h)) = 0 /\ One(h < current) = 0
        BY <1>5, <4>1 DEF Consuming, One, Refill
      <4> QED
        BY <4>1, <4>2, <4>3
    <3>2. taken'[h] = taken[h] /\ current' = NextIndex /\ Consuming(d, h)
      BY <1>5, <1>6, <1>7 DEF Consuming, Refill
    <3> QED
      BY <2>3, <3>1, <3>2 DEF InRound, One
  <2> QED
    BY <2>4, <2>5
<1>14. EndLeft'
  BY <1>7 DEF EndLeft
<1>15. IInvAt(d)'
  BY <1>8, <1>9, <1>10, <1>11, <1>12, <1>13, <1>14 DEF IInvAt
<1> QED
  BY <1>6, <1>15 DEF IInv

\* A value is consumed, and its upstream starts to generate the next one.
LEMMA ConsumesInv ==
  ASSUME UserIsCareful, NEW c \in Contexts, IInvAt(c), ~fault,
         Deliver, LoopCondition, HasNext(current), nxt[current] = "value",
         current \notin Deferred, ~generating[current]
  PROVE  IInv'
<1>1. Form(c) /\ Types /\ Subscribing(c) /\ Control(c) /\ Rounds(c)
  BY DEF IInvAt
<1>2. PICK h \in Upstreams, v \in Base!Events : h = current /\ v = nxt[current] /\ subs[h]
  <2>1. current \in Upstreams /\ nxt[current] \in Base!Events \cup {"none"}
    BY <1>1, AtDeliver DEF Types
  <2> QED
    BY <2>1 DEF HasNext
<1>3. /\ NextIndex = (IF h = N THEN 1 ELSE h + 1) /\ NextIndex \in Upstreams
      /\ available \in Balance /\ StateChanged(-1) \in Balance /\ StateChanged(-1) = KMax
  BY <1>1, <1>2, NextIndexIs, StateChangedType DEF Types, LoopCondition
<1>4. Running(c, h) /\ OneAhead(c, h) /\ Over(c, h)
  BY DEF IInvAt, Upstream
<1>5. /\ c.p = "deliver" /\ Tail(stack) = Below(c) /\ lock /\ delivering /\ MergeAlive
      /\ open /\ HasRequests(balance) /\ h \in Upstreams /\ v \in Base!Events /\ v = "value"
      /\ subs[h] /\ nxt[h] = v /\ v # "none" /\ current = h /\ Base!Alive(h) /\ ~Ending(c, h)
      /\ requested[h] = 0 /\ mailbox[h] = 0 /\ granted[h] \in Nat
      /\ h \notin Deferred /\ ~generating[h] /\ ~Runs(c, h)
  <2>1. c.p = "deliver" /\ open /\ Merged(c, h)
    BY <1>2, AtDeliver DEF Merged
  <2>2. ~Sends(c, h) /\ ~Finishing(c, h)
    BY <2>1 DEF Sends, Finishing, Consuming, Refill
  <2>3. nxt[h] = "value"
    BY <1>2
  <2>4. Base!Alive(h) /\ ~Ending(c, h)
    BY <1>4, <2>1, <2>2, <2>3, NoEnd DEF Over
  <2>5. requested[h] = 0 /\ mailbox[h] = 0 /\ granted[h] \in Nat
    BY <1>1, <1>4, <2>3 DEF OneAhead, Tokens, One, Types
  <2> QED
    BY <1>2, <1>4, <2>1, <2>3, <2>4, <2>5, AtDeliver DEF Running
<1> DEFINE d == [c EXCEPT !.p = "refill", !.h = h, !.v = v]
<1>6. /\ d \in Contexts
      /\ d.p = "refill" /\ d.b = c.b /\ d.called = c.called /\ d.g = c.g
      /\ d.e = c.e /\ d.h = h /\ d.v = v /\ d.f = c.f
  BY <1>5 DEF Contexts, Places, Outer, Inner, Refill, Bottoms
<1> HIDE DEF d
<1>7. /\ stack' = Call("Loop", h, "none", Call("Consumed", h, v, Below(c)))
      /\ nxt' = [nxt EXCEPT ![h] = "none"]
      /\ available' \in Balance /\ available' = KMax
      /\ current' = NextIndex
      /\ fault' = FALSE
      /\ granted' = [granted EXCEPT ![h] = @ + Ahead]
      /\ requested' = [requested EXCEPT ![h] = 1]
      /\ generating' = [generating EXCEPT ![h] = TRUE]
      /\ UNCHANGED <<phase, yielded, delivered, mailbox, subs, balance, delivering, lock,
                      open, asked, got, taken, ended>>
  <2>1. /\ nxt' = [nxt EXCEPT ![current] = "none"] /\ available' = StateChanged(-1)
        /\ current' = NextIndex
        /\ RequestNext(current, Call("Consumed", current, nxt[current], Tail(stack)))
        /\ fault' = (~MergeAlive \/ ConsumesEnded)
        /\ UNCHANGED <<delivered, delivering, subs, balance, lock, open, userVars>>
    BY NoEnd DEF Deliver, DeliverEnds, DeliverSkips, DeliverConsumes
  <2>2. ~ConsumesEnded
    BY <1>5 DEF ConsumesEnded

  <2>3. Base!AddTo(requested[h], Ahead) = 1
    BY <1>5, OneMore
  <2> QED
    BY <1>5, <1>3, <2>1, <2>2, <2>3
       DEF RequestNext, Base!Request, Base!StartsGenerate, Call, userVars
<1>8. Form(d)'
  BY <1>1, <1>5, <1>6, <1>7 DEF Form, Below, Asking
<1>9. Types'
  <2>1. granted[h] + Ahead \in Nat /\ 1 \in Nat
    BY <1>5 DEF Ahead
  <2>2. granted' \in [Upstreams -> Nat] /\ mailbox' \in [Upstreams -> Nat]
        /\ requested' \in [Upstreams -> Nat] /\ generating' \in [Upstreams -> BOOLEAN]
    BY <1>1, <1>7, <2>1 DEF Types
  <2>3. /\ nxt' \in [Upstreams -> Base!Events \cup {"none"}]
        /\ available' \in Balance /\ current' \in Upstreams
    BY <1>1, <1>7, <1>3 DEF Types
  <2> QED
    BY <1>1, <1>7, <2>2, <2>3 DEF Types
<1>10. Subscribing(d)'
  BY <1>1, <1>5, <1>6, <1>7 DEF Types, Subscribing, Outer, Inner, Refill
<1>11. Control(d)'
  BY <1>1, <1>5, <1>6, <1>7, <1>3 DEF Types, Control, Outer, Inner, Refill, Subscribing, Runs
<1>12. ASSUME NEW k \in Upstreams
       PROVE  Upstream(d, k)'
  <2>1. Upstream(c, k)
    BY DEF IInvAt
  <2>2. nxt'[k] = IF k = h THEN "none" ELSE nxt[k]
    BY <1>1, <1>5, <1>7 DEF Types
  <2>3. /\ ~Sends(c, k) /\ ~Sends(d, k) /\ ~SendsEvent(c, k, "value")
        /\ ~SendsEvent(d, k, "value")
        /\ ~Finishing(c, k) /\ ~Finishing(d, k)
        /\ ~Taking(c, k) /\ (Taking(d, k) <=> k = h)
        /\ (Ending(d, k) <=> Ending(c, k))
    BY <1>5, <1>6, NoEnd
       DEF Sends, SendsEvent, Finishing, Taking, Consuming, Ending, Inner, Refill
  <2>4. /\ (Merged(c, k) <=> subs[k]) /\ (Merged(d, k)' <=> subs[k])
        /\ (Fresh(d, k)' <=> Fresh(c, k))
    BY <1>5, <1>6, <1>7 DEF Merged, Fresh
  <2>5. /\ requested'[k] = IF k = h THEN 1 ELSE requested[k]
        /\ generating'[k] = IF k = h THEN TRUE ELSE generating[k]
    BY <1>1, <1>5, <1>7 DEF Types
  <2>6. Running(d, k)'
    BY <1>1, <1>5, <1>6, <1>7, <2>1, <2>2, <2>3, <2>4, <2>5
       DEF Upstream, Running, Merged, Fresh, Runs, Base!Alive, Inner, Refill, Types
  <2>7. OneAhead(d, k)'
    BY <1>1, <1>5, <1>6, <1>7, <2>1, <2>2, <2>3, <2>4, <2>5
       DEF Upstream, OneAhead, Tokens, One, Finishing, Consuming, Sends, Merged, Fresh, Runs,
           Inner, Refill, Types
  <2>8. Over(d, k)'
    BY <1>1, <1>5, <1>6, <1>7, <2>1, <2>2, <2>3, <2>4, NoEnd
       DEF Upstream, Over, Finishing, Consuming, Sends, Ending, Merged, Fresh, Base!Alive,
           Inner, Refill, Types
  <2>9. Conserved(d, k)'
    BY <1>1, <1>5, <1>6, <1>7, <2>1, <2>2, <2>3, <2>4
       DEF Upstream, Conserved, One, Taking, Consuming, SendsEvent, Merged, Fresh, Inner,
           Refill, Types
  <2> QED
    BY <2>6, <2>7, <2>8, <2>9 DEF Upstream
<1>13. Rounds(d)'
  <2>1. SUFFICES ASSUME Deferred = {}
                 PROVE  \E n \in Nat : \A k \in Upstreams : InRound(d, n, k)'
    BY DEF Rounds
  <2>2. PICK n \in Nat : \A k \in Upstreams : InRound(c, n, k)
    BY <1>1, <2>1 DEF Rounds
  <2>3. PICK m \in Nat : /\ m + One(h < NextIndex) = n + 1
                         /\ \A k \in Upstreams : k # h => m + One(k < NextIndex) = n + One(k < h)
    <3>1. PICK j \in Upstreams : j = NextIndex
      BY <1>3
    <3>2. j = IF h = N THEN 1 ELSE h + 1
      BY <1>3, <3>1
    <3> QED
      BY <3>1, <3>2, RoundGoesOn DEF One
  <2>4. ASSUME NEW k \in Upstreams, k # h
        PROVE  InRound(d, m, k)'
    BY <1>5, <1>6, <1>7, <2>2, <2>3, <2>4 DEF InRound, Consuming, One, Refill
  <2>5. InRound(d, m, h)'
    <3>1. taken[h] = n
      <4>1. taken[h] \in Nat /\ ~(h < h)
        <5>1. taken[h] \in Nat
          BY <1>1 DEF Types
        <5>2. h \in 1 .. N /\ N \in Nat
          BY Words DEF Upstreams
        <5> QED
          BY <5>1, <5>2
      <4>2. taken[h] + One(Consuming(c, h)) = n + One(h < current)
        BY <1>5, <2>2 DEF InRound
      <4>3. One(Consuming(c, h)) = 0 /\ One(h < current) = 0
        BY <1>5, <4>1 DEF Consuming, One, Refill
      <4> QED
        BY <4>1, <4>2, <4>3
    <3>2. taken'[h] = taken[h] /\ current' = NextIndex /\ Consuming(d, h)
      BY <1>5, <1>6, <1>7 DEF Consuming, Refill
    <3> QED
      BY <2>3, <3>1, <3>2 DEF InRound, One
  <2> QED
    BY <2>4, <2>5
<1>14. EndLeft'
  BY <1>7 DEF EndLeft
<1>15. IInvAt(d)'
  BY <1>8, <1>9, <1>10, <1>11, <1>12, <1>13, <1>14 DEF IInvAt
<1> QED
  BY <1>6, <1>15 DEF IInv

-----------------------------------------------------------------------------
(* What was consumed is delivered.                                           *)

\* ConsumeNext returned.
LEMMA AtConsumed ==
  ASSUME NEW c \in Contexts, IInvAt(c), IsTop("Consumed")
  PROVE  /\ c.p = "consumed" /\ Tail(stack) = Below(c) /\ lock /\ MergeAlive /\ delivering
         /\ Top.gen = c.h /\ Top.ev = c.v /\ c.h \in Upstreams /\ c.v \in Base!Events
         /\ subs[c.h] /\ open /\ ~ended /\ HasRequests(balance) /\ balance \in Balance
         /\ taken[c.h] \in Nat /\ got \in Nat
<1>1. Form(c) /\ Types /\ Subscribing(c) /\ Control(c)
  BY DEF IInvAt
<1>2. c.p = "consumed" /\ c.h \in Upstreams /\ c.v \in Base!Events
  BY <1>1, PlaceOf DEF Contexts
<1>3. subs[c.h] /\ HasRequests(balance) /\ lock /\ delivering
  BY <1>1, <1>2 DEF Control, Inner
<1>4. open /\ ~ended
  BY <1>1, <1>2, <1>3 DEF Control, Subscribing
<1> QED
  BY <1>1, <1>2, <1>3, <1>4, TopAt DEF Calls, MergeAlive, Top, Types

\* What Remove does to a balance that has requests.
LEMMA Removing ==
  ASSUME HasRequests(balance), balance \in Balance
  PROVE  CanRemove(balance, 1) /\ RemoveFrom(balance, 1) \in Balance
  BY KMaxAssumption DEF HasRequests, CanRemove, RemoveFrom, Balance

\* A value is delivered.
LEMMA DeliversValueInv ==
  ASSUME UserIsCareful, NEW c \in Contexts, IInvAt(c), ~fault,
         DeliversValue
  PROVE  IInv'
<1>1. Form(c) /\ Types /\ Subscribing(c) /\ Control(c) /\ Rounds(c)
  BY DEF IInvAt
<1>2. /\ c.p = "consumed" /\ Tail(stack) = Below(c) /\ lock /\ delivering
      /\ Top.gen = c.h /\ Top.ev = c.v /\ c.v = "value" /\ c.h \in Upstreams
      /\ subs[c.h] /\ open /\ ~ended /\ taken[c.h] + 1 \in Nat /\ got + 1 \in Nat
      /\ CanRemove(balance, 1) /\ RemoveFrom(balance, 1) \in Balance
  BY AtConsumed, Removing DEF DeliversValue
<1> DEFINE d == [c EXCEPT !.p = "value"]
<1>3. /\ d \in Contexts
      /\ d.p = "value" /\ d.b = c.b /\ d.called = c.called /\ d.g = c.g
      /\ d.e = c.e /\ d.h = c.h /\ d.v = c.v /\ d.f = c.f
  BY <1>2 DEF Contexts, Places, Outer, Inner, Refill, Bottoms
<1> HIDE DEF d
<1>4. /\ stack' = Call("UserOnNext", c.h, c.v, Call("Deliver", 0, "none", Below(c)))
      /\ balance' \in Balance
      /\ fault' = FALSE
      /\ got' \in Nat
      /\ taken' = [taken EXCEPT ![c.h] = @ + 1]
      /\ UNCHANGED <<phase, requested, generating, yielded, granted, delivered, mailbox, subs,
                      nxt, current, available, delivering, lock, open, asked, ended>>
  <2>1. ended' = ended /\ taken' = [taken EXCEPT ![c.h] = @ + 1] /\ got' = got + 1
    <3>1. ended \in BOOLEAN /\ ended' = (ended \/ Base!IsEnd(c.v)) /\ ~Base!IsEnd(c.v)
      BY <1>1, <1>2, NoEnd DEF DeliversValue, SendDown, Types
    <3> QED
      BY <1>2, <3>1 DEF DeliversValue, SendDown
  <2> QED
    BY <1>2, <2>1 DEF DeliversValue, SendDown, baseVars
<1>5. Form(d)'
  BY <1>1, <1>2, <1>3, <1>4 DEF Form, Below, Asking
<1>6. Types'
  BY <1>1, <1>4, <1>2 DEF Types
<1>7. Subscribing(d)'
  BY <1>1, <1>2, <1>3, <1>4 DEF Types, Subscribing, Outer, Inner, Refill
<1>8. Control(d)'
  BY <1>1, <1>2, <1>3, <1>4 DEF Types, Control, Outer, Inner, Refill, Subscribing
<1>9. ASSUME NEW k \in Upstreams
      PROVE  Upstream(d, k)'
  <2>1. Upstream(c, k)
    BY DEF IInvAt
  <2>2. /\ ~Sends(c, k) /\ ~Sends(d, k) /\ ~SendsEvent(c, k, "value")
        /\ ~SendsEvent(d, k, "value")
        /\ ~Finishing(d, k) /\ ~Taking(d, k) /\ (~Finishing(c, k)) /\ (Taking(c, k) <=> k = c.h)
        /\ (Ending(d, k) <=> Ending(c, k)) /\ (Runs(d, k) <=> Runs(c, k))
    BY <1>2, <1>3, NoEnd
       DEF Sends, SendsEvent, Finishing, Taking, Consuming, Ending, Runs, Inner, Refill
  <2>3. /\ (Merged(c, k) <=> subs[k]) /\ (Merged(d, k)' <=> subs'[k])
        /\ (Fresh(d, k)' <=> Fresh(c, k))
    BY <1>2, <1>3, <1>4 DEF Merged, Fresh
  <2>4. taken'[k] = IF k = c.h THEN taken[k] + 1 ELSE taken[k]
    BY <1>1, <1>2, <1>4 DEF Types
  <2>5. ~Fresh(c, k)
    BY <1>1, <1>2 DEF Subscribing, Fresh
  <2>6. Running(d, k)'
    BY <1>1, <1>2, <1>3, <1>4, <2>1, <2>2, <2>3
       DEF Upstream, Running, Merged, Fresh, Runs, Base!Alive, Inner, Refill, Types
  <2>7. OneAhead(d, k)'
    BY <1>1, <1>2, <1>3, <1>4, <2>1, <2>2, <2>3, <2>5, NoEnd
       DEF Upstream, OneAhead, Tokens, One, Finishing, Consuming, Sends, Merged, Fresh, Runs,
           Inner, Refill, Types
  <2>8. Over(d, k)'
    BY <1>1, <1>2, <1>3, <1>4, <2>1, <2>2, <2>3, NoEnd
       DEF Upstream, Over, Finishing, Consuming, Sends, Ending, Merged, Fresh, Base!Alive,
           Inner, Refill, Types
  <2>9. Conserved(d, k)'
    <3>1. CASE k = c.h
      BY <1>1, <1>2, <1>3, <1>4, <2>1, <2>2, <2>3, <2>4, <3>1
         DEF Upstream, Conserved, One, Taking, Consuming, SendsEvent, Merged, Fresh, Inner,
             Refill, Types
    <3>2. CASE k # c.h
      BY <1>1, <1>2, <1>3, <1>4, <2>1, <2>2, <2>3, <2>4, <3>2
         DEF Upstream, Conserved, One, Taking, Consuming, SendsEvent, Merged, Fresh, Inner,
             Refill, Types
    <3> QED
      BY <3>1, <3>2
  <2> QED
    BY <2>6, <2>7, <2>8, <2>9 DEF Upstream
<1>10. Rounds(d)'
  <2>1. \A n \in Nat, k \in Upstreams : InRound(c, n, k) => InRound(d, n, k)'
    BY <1>1, <1>2, <1>3, <1>4 DEF Types, InRound, Consuming, One, Refill
  <2> QED
    BY <1>1, <1>4, <2>1 DEF Rounds
<1>11. EndLeft'
  BY <1>4 DEF EndLeft
<1>12. IInvAt(d)'
  BY <1>5, <1>6, <1>7, <1>8, <1>9, <1>10, <1>11 DEF IInvAt
<1> QED
  BY <1>3, <1>12 DEF IInv

\* An error is delivered.
LEMMA ErrorInv ==
  ASSUME UserIsCareful, NEW c \in Contexts, IInvAt(c), ~fault,
         UpstreamEnds, Top.ev = "error"
  PROVE  IInv'
<1>1. Form(c) /\ Types /\ Subscribing(c) /\ Control(c) /\ Rounds(c)
  BY DEF IInvAt
<1>2. /\ c.p = "consumed" /\ Tail(stack) = Below(c) /\ lock /\ delivering
      /\ Top.gen = c.h /\ Top.ev = c.v /\ c.h \in Upstreams
      /\ Base!IsEnd(c.v) /\ c.v # "value" /\ c.v = "error"
      /\ subs[c.h] /\ open /\ ~ended /\ got + 1 \in Nat
      /\ nxt[c.h] = "none" /\ HasRequests(balance)
  <2>1. OneAhead(c, c.h) /\ IsTop("Consumed") /\ Base!IsEnd(Top.ev)
    BY AtConsumed DEF IInvAt, Upstream, UpstreamEnds
  <2>2. Finishing(c, c.h)
    BY <2>1, AtConsumed DEF Finishing, Consuming
  <2> QED
    BY <2>1, <2>2, AtConsumed, NoEnd DEF OneAhead, Base!Events
<1> DEFINE d == [c EXCEPT !.p = "error"]
<1>3. /\ d \in Contexts
      /\ d.p = "error" /\ d.b = c.b /\ d.called = c.called /\ d.g = c.g
      /\ d.e = c.e /\ d.h = c.h /\ d.v = c.v /\ d.f = c.f
  BY <1>2 DEF Contexts, Places, Outer, Inner, Refill, Bottoms
<1> HIDE DEF d
<1>4. /\ stack' = Call("UserOnNext", c.h, c.v, Call("CancelAll", 0, "none", Below(c)))
      /\ subs' = [subs EXCEPT ![c.h] = FALSE]
      /\ got' \in Nat
      /\ ended' = TRUE
      /\ UNCHANGED <<phase, requested, generating, yielded, granted, delivered, fault,
                      mailbox, nxt, current, balance, available, delivering, lock, open,
                      asked, taken>>
  <2>1. taken' = taken /\ ended' = TRUE
    <3>1. taken \in [Upstreams -> Nat]
      BY <1>1 DEF Types
    <3>2. taken' = [taken EXCEPT ![c.h] = taken[c.h]]
      BY <1>2 DEF UpstreamEnds, SendDown
    <3> QED
      BY <1>2, <3>1, <3>2 DEF UpstreamEnds, SendDown
  <2> QED
    BY <1>2, <2>1 DEF UpstreamEnds, SendDown, AfterError, baseVars
<1>5. Form(d)'
  BY <1>1, <1>2, <1>3, <1>4 DEF Form, Below, Asking
<1>6. Types'
  BY <1>1, <1>4, <1>2 DEF Types
<1>7. Subscribing(d)'
  BY <1>1, <1>2, <1>3, <1>4 DEF Types, Subscribing, Outer, Inner, Refill
<1>8. Control(d)'
  BY <1>1, <1>2, <1>3, <1>4 DEF Types, Control, Outer, Inner, Refill, Subscribing
<1>9. ASSUME NEW k \in Upstreams
      PROVE  Upstream(d, k)'
  <2>1. Upstream(c, k)
    BY DEF IInvAt
  <2>2. /\ ~Sends(c, k) /\ ~Sends(d, k) /\ ~SendsEvent(c, k, "value")
        /\ ~SendsEvent(d, k, "value")
        /\ ~Finishing(d, k) /\ ~Taking(d, k) /\ (Finishing(c, k) <=> k = c.h) /\ (~Taking(c, k))
        /\ (Ending(d, k) <=> Ending(c, k)) /\ (Runs(d, k) <=> Runs(c, k))
    BY <1>2, <1>3, NoEnd
       DEF Sends, SendsEvent, Finishing, Taking, Consuming, Ending, Runs, Inner, Refill
  <2>3. /\ (Merged(c, k) <=> subs[k]) /\ (Merged(d, k)' <=> subs'[k])
        /\ (Fresh(d, k)' <=> Fresh(c, k))
    BY <1>2, <1>3, <1>4 DEF Merged, Fresh
  <2>4. subs'[k] = IF k = c.h THEN FALSE ELSE subs[k]
    BY <1>1, <1>2, <1>4 DEF Types
  <2>5. Running(d, k)'
    BY <1>1, <1>2, <1>3, <1>4, <2>1, <2>2, <2>3
       DEF Upstream, Running, Merged, Fresh, Runs, Base!Alive, Inner, Refill, Types
  <2>6. OneAhead(d, k)'
    BY <1>1, <1>2, <1>3, <1>4, <2>1, <2>2, <2>3, <2>4
       DEF Upstream, OneAhead, Tokens, One, Finishing, Consuming, Sends, Merged, Fresh, Runs,
           Inner, Refill, Types
  <2>7. Over(d, k)'
    BY <1>1, <1>2, <1>3, <1>4, <2>1, <2>2, <2>3, <2>4
       DEF Upstream, Over, Finishing, Consuming, Sends, Ending, Merged, Fresh, Base!Alive,
           Inner, Refill, Types
  <2>8. Conserved(d, k)'
    BY <1>1, <1>2, <1>3, <1>4, <2>1, <2>2, <2>3, <2>4
       DEF Upstream, Conserved, One, Taking, Consuming, SendsEvent, Merged, Fresh, Inner,
           Refill, Types
  <2> QED
    BY <2>5, <2>6, <2>7, <2>8 DEF Upstream
<1>10. Rounds(d)'
  <2>1. \A k \in Upstreams : subs'[k] => subs[k] /\ k # c.h
    BY <1>1, <1>2, <1>4 DEF Types
  <2>2. \A n \in Nat, k \in Upstreams : InRound(c, n, k) => InRound(d, n, k)'
    BY <1>2, <1>3, <1>4, <2>1 DEF InRound, Consuming, One, Refill
  <2> QED
    BY <1>1, <1>4, <2>2 DEF Rounds
<1>11. EndLeft'
  BY <1>4 DEF EndLeft
<1>12. IInvAt(d)'
  BY <1>5, <1>6, <1>7, <1>8, <1>9, <1>10, <1>11 DEF IInvAt
<1> QED
  BY <1>3, <1>12 DEF IInv

\* The last upstream is done, and the end is delivered.
LEMMA DoneInv ==
  ASSUME UserIsCareful, NEW c \in Contexts, IInvAt(c), ~fault,
         UpstreamEnds, Top.ev # "error", AllEnded(subs')
  PROVE  IInv'
<1>1. Form(c) /\ Types /\ Subscribing(c) /\ Control(c) /\ Rounds(c)
  BY DEF IInvAt
<1>2. /\ c.p = "consumed" /\ Tail(stack) = Below(c) /\ lock /\ delivering
      /\ Top.gen = c.h /\ Top.ev = c.v /\ c.h \in Upstreams
      /\ Base!IsEnd(c.v) /\ c.v # "value" /\ c.v = "done"
      /\ subs[c.h] /\ open /\ ~ended /\ got + 1 \in Nat
      /\ nxt[c.h] = "none" /\ HasRequests(balance)
  <2>1. OneAhead(c, c.h) /\ IsTop("Consumed") /\ Base!IsEnd(Top.ev)
    BY AtConsumed DEF IInvAt, Upstream, UpstreamEnds
  <2>2. Finishing(c, c.h)
    BY <2>1, AtConsumed DEF Finishing, Consuming
  <2> QED
    BY <2>1, <2>2, AtConsumed, NoEnd DEF OneAhead, Base!Events
<1>3. (~\E k \in Upstreams : subs'[k]) <=> AllEnded(subs')
  BY DEF AllEnded
<1> DEFINE d == [c EXCEPT !.p = "done"]
<1>4. /\ d \in Contexts
      /\ d.p = "done" /\ d.b = c.b /\ d.called = c.called /\ d.g = c.g
      /\ d.e = c.e /\ d.h = c.h /\ d.v = c.v /\ d.f = c.f
  BY <1>2 DEF Contexts, Places, Outer, Inner, Refill, Bottoms
<1> HIDE DEF d
<1>5. /\ stack' = Call("UserOnNext", c.h, c.v, Call("Finish", 0, "none", Below(c)))
      /\ subs' = [subs EXCEPT ![c.h] = FALSE]
      /\ got' \in Nat
      /\ ended' = TRUE
      /\ UNCHANGED <<phase, requested, generating, yielded, granted, delivered, fault,
                      mailbox, nxt, current, balance, available, delivering, lock, open,
                      asked, taken>>
  <2>1. taken' = taken /\ ended' = TRUE
    <3>1. taken \in [Upstreams -> Nat]
      BY <1>1 DEF Types
    <3>2. taken' = [taken EXCEPT ![c.h] = taken[c.h]]
      BY <1>2 DEF UpstreamEnds, SendDown
    <3> QED
      BY <1>2, <3>1, <3>2 DEF UpstreamEnds, SendDown
  <2> QED
    BY <1>2, <2>1 DEF UpstreamEnds, SendDown, AfterError, baseVars
<1>6. Form(d)'
  BY <1>1, <1>2, <1>4, <1>5 DEF Form, Below, Asking
<1>7. Types'
  BY <1>1, <1>5, <1>2 DEF Types
<1>8. Subscribing(d)'
  BY <1>1, <1>2, <1>4, <1>5 DEF Types, Subscribing, Outer, Inner, Refill
<1>9. Control(d)'
  BY <1>1, <1>2, <1>4, <1>5, <1>3
     DEF Types, Control, Outer, Inner, Refill, Subscribing, AllEnded
<1>10. ASSUME NEW k \in Upstreams
       PROVE  Upstream(d, k)'
  <2>1. Upstream(c, k)
    BY DEF IInvAt
  <2>2. /\ ~Sends(c, k) /\ ~Sends(d, k) /\ ~SendsEvent(c, k, "value")
        /\ ~SendsEvent(d, k, "value")
        /\ ~Finishing(d, k) /\ ~Taking(d, k) /\ (Finishing(c, k) <=> k = c.h) /\ (~Taking(c, k))
        /\ (Ending(d, k) <=> Ending(c, k)) /\ (Runs(d, k) <=> Runs(c, k))
    BY <1>2, <1>4, NoEnd
       DEF Sends, SendsEvent, Finishing, Taking, Consuming, Ending, Runs, Inner, Refill
  <2>3. /\ (Merged(c, k) <=> subs[k]) /\ (Merged(d, k)' <=> subs'[k])
        /\ (Fresh(d, k)' <=> Fresh(c, k))
    BY <1>2, <1>4, <1>5 DEF Merged, Fresh
  <2>4. subs'[k] = IF k = c.h THEN FALSE ELSE subs[k]
    BY <1>1, <1>2, <1>5 DEF Types
  <2>5. Running(d, k)'
    BY <1>1, <1>2, <1>4, <1>5, <2>1, <2>2, <2>3
       DEF Upstream, Running, Merged, Fresh, Runs, Base!Alive, Inner, Refill, Types
  <2>6. OneAhead(d, k)'
    BY <1>1, <1>2, <1>4, <1>5, <2>1, <2>2, <2>3, <2>4
       DEF Upstream, OneAhead, Tokens, One, Finishing, Consuming, Sends, Merged, Fresh, Runs,
           Inner, Refill, Types
  <2>7. Over(d, k)'
    BY <1>1, <1>2, <1>4, <1>5, <2>1, <2>2, <2>3, <2>4
       DEF Upstream, Over, Finishing, Consuming, Sends, Ending, Merged, Fresh, Base!Alive,
           Inner, Refill, Types
  <2>8. Conserved(d, k)'
    BY <1>1, <1>2, <1>4, <1>5, <2>1, <2>2, <2>3, <2>4
       DEF Upstream, Conserved, One, Taking, Consuming, SendsEvent, Merged, Fresh, Inner,
           Refill, Types
  <2> QED
    BY <2>5, <2>6, <2>7, <2>8 DEF Upstream
<1>11. Rounds(d)'
  <2>1. \A k \in Upstreams : subs'[k] => subs[k] /\ k # c.h
    BY <1>1, <1>2, <1>5 DEF Types
  <2>2. \A n \in Nat, k \in Upstreams : InRound(c, n, k) => InRound(d, n, k)'
    BY <1>2, <1>4, <1>5, <2>1 DEF InRound, Consuming, One, Refill
  <2> QED
    BY <1>1, <1>5, <2>2 DEF Rounds
<1>12. EndLeft'
  BY <1>5 DEF EndLeft
<1>13. IInvAt(d)'
  BY <1>6, <1>7, <1>8, <1>9, <1>10, <1>11, <1>12 DEF IInvAt
<1> QED
  BY <1>4, <1>13 DEF IInv

\* An upstream is done, and others are not.
LEMMA UpstreamDoneInv ==
  ASSUME UserIsCareful, NEW c \in Contexts, IInvAt(c), ~fault,
         UpstreamEnds, Top.ev # "error", ~AllEnded(subs')
  PROVE  IInv'
<1>1. Form(c) /\ Types /\ Subscribing(c) /\ Control(c) /\ Rounds(c)
  BY DEF IInvAt
<1>2. /\ c.p = "consumed" /\ Tail(stack) = Below(c) /\ lock /\ delivering
      /\ Top.gen = c.h /\ Top.ev = c.v /\ c.h \in Upstreams
      /\ Base!IsEnd(c.v) /\ c.v # "value" /\ c.v = "done"
      /\ subs[c.h] /\ open /\ ~ended /\ got + 1 \in Nat
      /\ nxt[c.h] = "none" /\ HasRequests(balance)
  <2>1. OneAhead(c, c.h) /\ IsTop("Consumed") /\ Base!IsEnd(Top.ev)
    BY AtConsumed DEF IInvAt, Upstream, UpstreamEnds
  <2>2. Finishing(c, c.h)
    BY <2>1, AtConsumed DEF Finishing, Consuming
  <2> QED
    BY <2>1, <2>2, AtConsumed, NoEnd DEF OneAhead, Base!Events
<1>3. (~\E k \in Upstreams : subs'[k]) <=> AllEnded(subs')
  BY DEF AllEnded
<1> DEFINE d == [c EXCEPT !.p = "deliver"]
<1>4. /\ d \in Contexts
      /\ d.p = "deliver" /\ d.b = c.b /\ d.called = c.called /\ d.g = c.g
      /\ d.e = c.e /\ d.h = c.h /\ d.v = c.v /\ d.f = c.f
  BY <1>2 DEF Contexts, Places, Outer, Inner, Refill, Bottoms
<1> HIDE DEF d
<1>5. /\ stack' = Call("Deliver", 0, "none", Below(c))
      /\ subs' = [subs EXCEPT ![c.h] = FALSE]
      /\ UNCHANGED <<phase, requested, generating, yielded, granted, delivered, fault,
                      mailbox, nxt, current, balance, available, delivering, lock, open,
                      asked, got, taken, ended>>
  BY <1>2 DEF UpstreamEnds, userVars, baseVars
<1>6. Form(d)'
  BY <1>1, <1>2, <1>4, <1>5 DEF Form, Below, Asking
<1>7. Types'
  BY <1>1, <1>5, <1>2 DEF Types
<1>8. Subscribing(d)'
  BY <1>1, <1>2, <1>4, <1>5 DEF Types, Subscribing, Outer, Inner, Refill
<1>9. Control(d)'
  BY <1>1, <1>2, <1>4, <1>5, <1>3
     DEF Types, Control, Outer, Inner, Refill, Subscribing, AllEnded
<1>10. ASSUME NEW k \in Upstreams
       PROVE  Upstream(d, k)'
  <2>1. Upstream(c, k)
    BY DEF IInvAt
  <2>2. /\ ~Sends(c, k) /\ ~Sends(d, k) /\ ~SendsEvent(c, k, "value")
        /\ ~SendsEvent(d, k, "value")
        /\ ~Finishing(d, k) /\ ~Taking(d, k) /\ (Finishing(c, k) <=> k = c.h) /\ (~Taking(c, k))
        /\ (Ending(d, k) <=> Ending(c, k)) /\ (Runs(d, k) <=> Runs(c, k))
    BY <1>2, <1>4, NoEnd
       DEF Sends, SendsEvent, Finishing, Taking, Consuming, Ending, Runs, Inner, Refill
  <2>3. /\ (Merged(c, k) <=> subs[k]) /\ (Merged(d, k)' <=> subs'[k])
        /\ (Fresh(d, k)' <=> Fresh(c, k))
    BY <1>2, <1>4, <1>5 DEF Merged, Fresh
  <2>4. subs'[k] = IF k = c.h THEN FALSE ELSE subs[k]
    BY <1>1, <1>2, <1>5 DEF Types
  <2>5. Running(d, k)'
    BY <1>1, <1>2, <1>4, <1>5, <2>1, <2>2, <2>3
       DEF Upstream, Running, Merged, Fresh, Runs, Base!Alive, Inner, Refill, Types
  <2>6. OneAhead(d, k)'
    BY <1>1, <1>2, <1>4, <1>5, <2>1, <2>2, <2>3, <2>4
       DEF Upstream, OneAhead, Tokens, One, Finishing, Consuming, Sends, Merged, Fresh, Runs,
           Inner, Refill, Types
  <2>7. Over(d, k)'
    BY <1>1, <1>2, <1>4, <1>5, <2>1, <2>2, <2>3, <2>4
       DEF Upstream, Over, Finishing, Consuming, Sends, Ending, Merged, Fresh, Base!Alive,
           Inner, Refill, Types
  <2>8. Conserved(d, k)'
    BY <1>1, <1>2, <1>4, <1>5, <2>1, <2>2, <2>3, <2>4
       DEF Upstream, Conserved, One, Taking, Consuming, SendsEvent, Merged, Fresh, Inner,
           Refill, Types
  <2> QED
    BY <2>5, <2>6, <2>7, <2>8 DEF Upstream
<1>11. Rounds(d)'
  <2>1. \A k \in Upstreams : subs'[k] => subs[k] /\ k # c.h
    BY <1>1, <1>2, <1>5 DEF Types
  <2>2. \A n \in Nat, k \in Upstreams : InRound(c, n, k) => InRound(d, n, k)'
    BY <1>2, <1>4, <1>5, <2>1 DEF InRound, Consuming, One, Refill
  <2> QED
    BY <1>1, <1>5, <2>2 DEF Rounds
<1>12. EndLeft'
  BY <1>5 DEF EndLeft
<1>13. IInvAt(d)'
  BY <1>6, <1>7, <1>8, <1>9, <1>10, <1>11, <1>12 DEF IInvAt
<1> QED
  BY <1>4, <1>13 DEF IInv

-----------------------------------------------------------------------------
(* The merged stream is over.                                                *)

\* What Cancel does, when the upstreams' executions but one have ended.
LEMMA Cancelling ==
  ASSUME NEW c \in Contexts, IInvAt(c), lock, open, c.p \in {"bottom", "cancelAll"},
         NEW rest, Cancel(rest)
  PROVE  /\ EndLeft'
         /\ fault' \in BOOLEAN
         /\ phase' \in [Upstreams -> {"new", "alive", "deleted"}]
         /\ subs' = [k \in Upstreams |-> FALSE]
         /\ \A k \in Upstreams : phase'[k] = IF subs[k] THEN "deleted" ELSE phase[k]
<1>1. Types /\ MergeAlive
  BY DEF IInvAt, MergeAlive
<1>2. \A k \in Upstreams : phase'[k] = IF subs[k] THEN "deleted" ELSE phase[k]
  BY DEF Cancel, Cancelled
<1>3. phase' \in [Upstreams -> {"new", "alive", "deleted"}]
  BY <1>1 DEF Cancel, Cancelled, Types
<1>4. fault' = (\E k \in Upstreams : subs[k] /\ ~Base!Alive(k)) /\ nxt' = nxt
  BY <1>1 DEF Cancel
<1>5. ASSUME NEW k \in Upstreams, subs[k], ~Base!Alive(k)
      PROVE  Base!IsEnd(nxt[k])
  <2>1. Over(c, k)
    BY DEF IInvAt, Upstream
  <2>2. ~Sends(c, k) /\ ~Finishing(c, k)
    BY DEF Sends, Finishing, Consuming, Refill
  <2> QED
    BY <1>5, <2>1, <2>2 DEF Over, Merged
<1>6. EndLeft'
  <2> SUFFICES ASSUME fault' PROVE \E k \in Upstreams : Base!IsEnd(nxt'[k]) /\ ~(phase'[k] = "alive")
    BY DEF EndLeft, Cancel, Base!Alive
  <2>1. PICK k \in Upstreams : subs[k] /\ ~Base!Alive(k)
    BY <1>4
  <2>2. phase'[k] = "deleted" /\ nxt'[k] = nxt[k]
    BY <1>2, <1>4, <2>1
  <2> QED
    BY <1>5, <2>1, <2>2
<1> QED
  BY <1>2, <1>3, <1>4, <1>6 DEF Cancel

\* After an error the other upstreams are cancelled; an upstream called MaybeDeliver.
LEMMA CancelInv ==
  ASSUME UserIsCareful, NEW c \in Contexts, IInvAt(c), ~fault,
         CancelAfterError, c.called
  PROVE  IInv'
<1>1. Form(c) /\ Types /\ Subscribing(c) /\ Control(c) /\ Rounds(c)
  BY DEF IInvAt
<1>2. /\ c.p = "cancelAll" /\ Tail(stack) = Call("After", c.g, c.e, c.b) /\ lock /\ open
      /\ c.called = TRUE
      /\ EndLeft' /\ fault' \in BOOLEAN
      /\ phase' \in [Upstreams -> {"new", "alive", "deleted"}]
      /\ subs' = [k \in Upstreams |-> FALSE]
      /\ \A k \in Upstreams : phase'[k] = IF subs[k] THEN "deleted" ELSE phase[k]
  <2>1. c.p = "cancelAll" /\ c.called = TRUE
    BY <1>1, PlaceOf DEF CancelAfterError, Contexts
  <2>2. lock /\ open
    BY <1>1, <2>1 DEF Control, Subscribing, Outer
  <2>3. Cancel(Tail(stack))
    BY DEF CancelAfterError
  <2> QED
    BY <1>1, <2>1, <2>2, <2>3, Cancelling, TopAt DEF Calls, Below
<1> DEFINE d == [c EXCEPT !.p = "after"]
<1>3. /\ d \in Contexts
      /\ d.p = "after" /\ d.b = c.b /\ d.called = c.called /\ d.g = c.g
      /\ d.e = c.e /\ d.h = c.h /\ d.v = c.v /\ d.f = c.f
  BY <1>2 DEF Contexts, Places, Outer, Inner, Refill, Bottoms
<1> HIDE DEF d
<1>4. /\ stack' = Call("After", c.g, c.e, c.b)
      /\ phase' \in [Upstreams -> {"new", "alive", "deleted"}]
      /\ subs' = [k \in Upstreams |-> FALSE]
      /\ lock' = FALSE
      /\ fault' \in BOOLEAN
      /\ UNCHANGED <<requested, generating, yielded, granted, delivered, mailbox, nxt,
                      current, balance, available, delivering, open, asked, got, taken,
                      ended>>
  BY <1>2 DEF CancelAfterError, Cancel, userVars
<1>5. Form(d)'
  BY <1>1, <1>2, <1>3, <1>4 DEF Form, Below, Asking
<1>6. Types'
  BY <1>1, <1>4 DEF Types
<1>7. Subscribing(d)'
  <2>1. \A k \in Upstreams : phase'[k] # "new"
    BY <1>1, <1>2 DEF Subscribing
  <2> QED
    BY <1>1, <1>2, <1>3, <1>4, <2>1, BottomsDiffer DEF Subscribing, Outer
<1>8. Control(d)'
  BY <1>1, <1>2, <1>3, <1>4 DEF Types, Control, Outer, Inner, Refill
<1>9. ASSUME NEW k \in Upstreams
      PROVE  Upstream(d, k)'
  <2>1. Upstream(c, k)
    BY DEF IInvAt
  <2>2. phase'[k] = (IF subs[k] THEN "deleted" ELSE phase[k]) /\ ~subs'[k]
    BY <1>2, <1>4
  <2>3. /\ ~Sends(c, k) /\ ~Sends(d, k) /\ ~SendsEvent(c, k, "value")
        /\ ~SendsEvent(d, k, "value")
        /\ ~Finishing(c, k) /\ ~Finishing(d, k) /\ ~Taking(c, k) /\ ~Taking(d, k)
        /\ (Ending(d, k) <=> Ending(c, k)) /\ (Runs(d, k) <=> Runs(c, k))
    BY <1>2, <1>3
       DEF Sends, SendsEvent, Finishing, Taking, Consuming, Ending, Runs, Inner, Refill
  <2>4. ~Fresh(c, k) /\ ~Fresh(d, k)' /\ ~Merged(d, k)'
    BY <1>1, <1>2, <1>3, <1>4, <2>2 DEF Subscribing, Fresh, Merged
  <2>5. Running(d, k)'
    BY <1>1, <1>2, <1>3, <1>4, <2>1, <2>2, <2>3
       DEF Upstream, Running, Merged, Fresh, Runs, Base!Alive, Inner, Refill, Types
  <2>6. OneAhead(d, k)'
    BY <1>1, <1>2, <1>3, <1>4, <2>1, <2>2, <2>3, <2>4
       DEF Upstream, OneAhead, Tokens, One, Finishing, Consuming, Sends, Merged, Fresh, Runs,
           Inner, Refill, Types
  <2>7. Over(d, k)'
    BY <1>1, <1>2, <1>3, <1>4, <2>1, <2>2, <2>3, <2>4
       DEF Upstream, Over, Finishing, Consuming, Sends, Ending, Merged, Fresh, Base!Alive,
           Inner, Refill, Types
  <2>8. Conserved(d, k)'
    BY <1>1, <1>2, <1>3, <1>4, <2>1, <2>2, <2>3, <2>4
       DEF Upstream, Conserved, One, Taking, Consuming, SendsEvent, Merged, Fresh, Inner,
           Refill, Types
  <2> QED
    BY <2>5, <2>6, <2>7, <2>8 DEF Upstream
<1>10. Rounds(d)'
  BY <1>4 DEF Rounds, InRound
<1>11. EndLeft'
  BY <1>2
<1>12. IInvAt(d)'
  BY <1>5, <1>6, <1>7, <1>8, <1>9, <1>10, <1>11 DEF IInvAt
<1> QED
  BY <1>3, <1>12 DEF IInv

\* After an error the other upstreams are cancelled; a request did.
LEMMA CancelBelowInv ==
  ASSUME UserIsCareful, NEW c \in Contexts, IInvAt(c), ~fault,
         CancelAfterError, ~c.called
  PROVE  IInv'
<1>1. Form(c) /\ Types /\ Subscribing(c) /\ Control(c) /\ Rounds(c)
  BY DEF IInvAt
<1>2. /\ c.p = "cancelAll" /\ Tail(stack) = c.b /\ lock /\ open /\ c.called = FALSE
      /\ EndLeft' /\ fault' \in BOOLEAN
      /\ phase' \in [Upstreams -> {"new", "alive", "deleted"}]
      /\ subs' = [k \in Upstreams |-> FALSE]
      /\ \A k \in Upstreams : phase'[k] = IF subs[k] THEN "deleted" ELSE phase[k]
  <2>1. c.p = "cancelAll" /\ c.called = FALSE
    BY <1>1, PlaceOf DEF CancelAfterError, Contexts
  <2>2. lock /\ open
    BY <1>1, <2>1 DEF Control, Subscribing, Outer
  <2>3. Cancel(Tail(stack))
    BY DEF CancelAfterError
  <2> QED
    BY <1>1, <2>1, <2>2, <2>3, Cancelling, TopAt DEF Calls, Below
<1> DEFINE d == [c EXCEPT !.p = "bottom"]
<1>3. /\ d \in Contexts
      /\ d.p = "bottom" /\ d.b = c.b /\ d.called = c.called /\ d.g = c.g
      /\ d.e = c.e /\ d.h = c.h /\ d.v = c.v /\ d.f = c.f
  BY <1>2 DEF Contexts, Places, Outer, Inner, Refill, Bottoms
<1> HIDE DEF d
<1>4. /\ stack' = c.b
      /\ phase' \in [Upstreams -> {"new", "alive", "deleted"}]
      /\ subs' = [k \in Upstreams |-> FALSE]
      /\ lock' = FALSE
      /\ fault' \in BOOLEAN
      /\ UNCHANGED <<requested, generating, yielded, granted, delivered, mailbox, nxt,
                      current, balance, available, delivering, open, asked, got, taken,
                      ended>>
  BY <1>2 DEF CancelAfterError, Cancel, userVars
<1>5. Form(d)'
  BY <1>1, <1>2, <1>3, <1>4 DEF Form, Below, Asking
<1>6. Types'
  BY <1>1, <1>4 DEF Types
<1>7. Subscribing(d)'
  <2>1. \A k \in Upstreams : phase'[k] # "new"
    BY <1>1, <1>2 DEF Subscribing
  <2> QED
    BY <1>1, <1>2, <1>3, <1>4, <2>1, BottomsDiffer DEF Subscribing, Outer
<1>8. Control(d)'
  BY <1>1, <1>2, <1>3, <1>4 DEF Types, Control, Outer, Inner, Refill
<1>9. ASSUME NEW k \in Upstreams
      PROVE  Upstream(d, k)'
  <2>1. Upstream(c, k)
    BY DEF IInvAt
  <2>2. phase'[k] = (IF subs[k] THEN "deleted" ELSE phase[k]) /\ ~subs'[k]
    BY <1>2, <1>4
  <2>3. /\ ~Sends(c, k) /\ ~Sends(d, k) /\ ~SendsEvent(c, k, "value")
        /\ ~SendsEvent(d, k, "value")
        /\ ~Finishing(c, k) /\ ~Finishing(d, k) /\ ~Taking(c, k) /\ ~Taking(d, k)
        /\ (Ending(d, k) <=> Ending(c, k)) /\ (Runs(d, k) <=> Runs(c, k))
    BY <1>2, <1>3
       DEF Sends, SendsEvent, Finishing, Taking, Consuming, Ending, Runs, Inner, Refill
  <2>4. ~Fresh(c, k) /\ ~Fresh(d, k)' /\ ~Merged(d, k)'
    BY <1>1, <1>2, <1>3, <1>4, <2>2 DEF Subscribing, Fresh, Merged
  <2>5. Running(d, k)'
    BY <1>1, <1>2, <1>3, <1>4, <2>1, <2>2, <2>3
       DEF Upstream, Running, Merged, Fresh, Runs, Base!Alive, Inner, Refill, Types
  <2>6. OneAhead(d, k)'
    BY <1>1, <1>2, <1>3, <1>4, <2>1, <2>2, <2>3, <2>4
       DEF Upstream, OneAhead, Tokens, One, Finishing, Consuming, Sends, Merged, Fresh, Runs,
           Inner, Refill, Types
  <2>7. Over(d, k)'
    BY <1>1, <1>2, <1>3, <1>4, <2>1, <2>2, <2>3, <2>4
       DEF Upstream, Over, Finishing, Consuming, Sends, Ending, Merged, Fresh, Base!Alive,
           Inner, Refill, Types
  <2>8. Conserved(d, k)'
    BY <1>1, <1>2, <1>3, <1>4, <2>1, <2>2, <2>3, <2>4
       DEF Upstream, Conserved, One, Taking, Consuming, SendsEvent, Merged, Fresh, Inner,
           Refill, Types
  <2> QED
    BY <2>5, <2>6, <2>7, <2>8 DEF Upstream
<1>10. Rounds(d)'
  BY <1>4 DEF Rounds, InRound
<1>11. EndLeft'
  BY <1>2
<1>12. IInvAt(d)'
  BY <1>5, <1>6, <1>7, <1>8, <1>9, <1>10, <1>11 DEF IInvAt
<1> QED
  BY <1>3, <1>12 DEF IInv

\* The user cancels, from outside of OnNext.
LEMMA UserCancelsInv ==
  ASSUME UserIsCareful, NEW c \in Contexts, IInvAt(c), ~fault,
         UserCancels
  PROVE  IInv'
<1>1. Form(c) /\ Types /\ Subscribing(c) /\ Control(c) /\ Rounds(c)
  BY DEF IInvAt
<1>2. /\ c.p = "bottom" /\ stack = c.b /\ lock /\ open
      /\ EndLeft' /\ fault' \in BOOLEAN
      /\ phase' \in [Upstreams -> {"new", "alive", "deleted"}]
      /\ subs' = [k \in Upstreams |-> FALSE]
      /\ \A k \in Upstreams : phase'[k] = IF subs[k] THEN "deleted" ELSE phase[k]
  <2>1. UserCancel = "outside" /\ ~IsTop("UserOnNext") /\ open /\ Cancel(stack)
    BY MergeAssumption DEF UserCancels, UserIsCareful
  <2>2. c.p = "bottom"
    BY <1>1, <2>1, EmptyAt, PlaceOf DEF UserCancels, UserActive, IsTop
  <2>3. lock
    <3>1. ASSUME NEW k \in Upstreams, ~lock
          PROVE  ~Base!Alive(k)
      BY <2>1, <2>2, <3>1 DEF IInvAt, Upstream, Over
    <3> QED
      BY <3>1 DEF UserCancels, MergeAlive
  <2> QED
    BY <1>1, <2>1, <2>2, <2>3, Cancelling, TopAt
<1>3. /\ phase' \in [Upstreams -> {"new", "alive", "deleted"}]
      /\ subs' = [k \in Upstreams |-> FALSE]
      /\ lock' = FALSE
      /\ fault' \in BOOLEAN
      /\ UNCHANGED <<stack, requested, generating, yielded, granted, delivered, mailbox, nxt,
                      current, balance, available, delivering, open, asked, got, taken,
                      ended>>
  BY <1>2 DEF UserCancels, Cancel, userVars
<1>4. Form(c)'
  BY <1>1, <1>2, <1>3 DEF Form, Below, Asking
<1>5. Types'
  BY <1>1, <1>3 DEF Types
<1>6. Subscribing(c)'
  <2>1. \A k \in Upstreams : phase'[k] # "new"
    BY <1>1, <1>2 DEF Subscribing
  <2> QED
    BY <1>1, <1>2, <1>3, <2>1, BottomsDiffer DEF Subscribing, Outer
<1>7. Control(c)'
  BY <1>1, <1>2, <1>3 DEF Types, Control, Outer, Inner, Refill
<1>8. ASSUME NEW k \in Upstreams
      PROVE  Upstream(c, k)'
  <2>1. Upstream(c, k)
    BY DEF IInvAt
  <2>2. phase'[k] = (IF subs[k] THEN "deleted" ELSE phase[k]) /\ ~subs'[k]
    BY <1>2, <1>3
  <2>3. ~Sends(c, k) /\ ~SendsEvent(c, k, "value") /\ ~Finishing(c, k) /\ ~Taking(c, k)
    BY <1>2 DEF Sends, SendsEvent, Finishing, Taking, Consuming, Refill
  <2>4. ~Fresh(c, k) /\ ~Fresh(c, k)' /\ ~Merged(c, k)'
    BY <1>1, <1>2, <1>3, <2>2 DEF Subscribing, Fresh, Merged
  <2>5. Running(c, k)'
    BY <1>1, <1>2, <1>3, <2>1, <2>2, <2>3
       DEF Upstream, Running, Merged, Fresh, Runs, Base!Alive, Inner, Refill, Types
  <2>6. OneAhead(c, k)'
    BY <1>1, <1>2, <1>3, <2>1, <2>2, <2>3, <2>4
       DEF Upstream, OneAhead, Tokens, One, Finishing, Consuming, Sends, Merged, Fresh, Runs,
           Inner, Refill, Types
  <2>7. Over(c, k)'
    BY <1>1, <1>2, <1>3, <2>1, <2>2, <2>3, <2>4
       DEF Upstream, Over, Finishing, Consuming, Sends, Ending, Merged, Fresh, Base!Alive,
           Inner, Refill, Types
  <2>8. Conserved(c, k)'
    BY <1>1, <1>2, <1>3, <2>1, <2>2, <2>3, <2>4
       DEF Upstream, Conserved, One, Taking, Consuming, SendsEvent, Merged, Fresh, Inner,
           Refill, Types
  <2> QED
    BY <2>5, <2>6, <2>7, <2>8 DEF Upstream
<1>9. Rounds(c)'
  BY <1>3 DEF Rounds, InRound
<1>10. EndLeft'
  BY <1>2
<1>11. IInvAt(c)'
  BY <1>4, <1>5, <1>6, <1>7, <1>8, <1>9, <1>10 DEF IInvAt
<1> QED
  BY <1>11 DEF IInv

\* After the end the merged stream lets go of itself; an upstream called MaybeDeliver.
LEMMA FinishInv ==
  ASSUME UserIsCareful, NEW c \in Contexts, IInvAt(c), ~fault,
         Finish, c.called
  PROVE  IInv'
<1>1. Form(c) /\ Types /\ Subscribing(c) /\ Control(c) /\ Rounds(c)
  BY DEF IInvAt
<1>2. /\ c.p = "finish" /\ Tail(stack) = Call("After", c.g, c.e, c.b) /\ lock /\ open
      /\ MergeAlive /\ c.called = TRUE
      /\ \A k \in Upstreams : ~subs[k]
  <2>1. c.p = "finish" /\ c.called = TRUE
    BY <1>1, PlaceOf DEF Finish, Contexts
  <2>2. lock /\ open /\ \A k \in Upstreams : ~subs[k]
    BY <1>1, <2>1 DEF Control, Subscribing, Outer
  <2> QED
    BY <1>1, <2>1, <2>2, TopAt DEF Calls, Below, MergeAlive
<1> DEFINE d == [c EXCEPT !.p = "after"]
<1>3. /\ d \in Contexts
      /\ d.p = "after" /\ d.b = c.b /\ d.called = c.called /\ d.g = c.g
      /\ d.e = c.e /\ d.h = c.h /\ d.v = c.v /\ d.f = c.f
  BY <1>2 DEF Contexts, Places, Outer, Inner, Refill, Bottoms
<1> HIDE DEF d
<1>4. /\ stack' = Call("After", c.g, c.e, c.b)
      /\ lock' = FALSE
      /\ fault' = FALSE
      /\ UNCHANGED <<phase, requested, generating, yielded, granted, delivered, mailbox, subs,
                      nxt, current, balance, available, delivering, open, asked, got, taken,
                      ended>>
  BY <1>2 DEF Finish, baseVars, userVars
<1>5. Form(d)'
  BY <1>1, <1>2, <1>3, <1>4 DEF Form, Below, Asking
<1>6. Types'
  BY <1>1, <1>4 DEF Types
<1>7. Subscribing(d)'
  BY <1>1, <1>2, <1>3, <1>4 DEF Types, Subscribing, Outer, Inner, Refill
<1>8. Control(d)'
  BY <1>1, <1>2, <1>3, <1>4 DEF Types, Control, Outer, Inner, Refill
<1>9. ASSUME NEW k \in Upstreams
      PROVE  Upstream(d, k)'
  <2>1. Upstream(c, k)
    BY DEF IInvAt
  <2>2. Running(d, k)'
    BY <1>1, <1>2, <1>3, <1>4, <2>1
       DEF Upstream, Running, Merged, Fresh, Runs, Base!Alive, Inner, Refill, Types
  <2>3. OneAhead(d, k)'
    BY <1>1, <1>2, <1>3, <1>4, <2>1
       DEF Upstream, OneAhead, Tokens, One, Finishing, Consuming, Sends, Merged, Fresh, Runs,
           Inner, Refill, Types
  <2>4. Over(d, k)'
    BY <1>1, <1>2, <1>3, <1>4, <2>1
       DEF Upstream, Over, Finishing, Consuming, Sends, Ending, Merged, Fresh, Base!Alive,
           Inner, Refill, Types
  <2>5. Conserved(d, k)'
    BY <1>1, <1>2, <1>3, <1>4, <2>1
       DEF Upstream, Conserved, One, Taking, Consuming, SendsEvent, Merged, Fresh, Inner,
           Refill, Types
  <2> QED
    BY <2>2, <2>3, <2>4, <2>5 DEF Upstream
<1>10. Rounds(d)'
  <2>1. \A n \in Nat, k \in Upstreams : InRound(c, n, k) => InRound(d, n, k)'
    BY <1>1, <1>2, <1>3, <1>4 DEF Types, InRound, Consuming, One, Refill
  <2> QED
    BY <1>1, <1>4, <2>1 DEF Rounds
<1>11. EndLeft'
  BY <1>4 DEF EndLeft
<1>12. IInvAt(d)'
  BY <1>5, <1>6, <1>7, <1>8, <1>9, <1>10, <1>11 DEF IInvAt
<1> QED
  BY <1>3, <1>12 DEF IInv

\* After the end the merged stream lets go of itself; a request did.
LEMMA FinishBelowInv ==
  ASSUME UserIsCareful, NEW c \in Contexts, IInvAt(c), ~fault,
         Finish, ~c.called
  PROVE  IInv'
<1>1. Form(c) /\ Types /\ Subscribing(c) /\ Control(c) /\ Rounds(c)
  BY DEF IInvAt
<1>2. /\ c.p = "finish" /\ Tail(stack) = c.b /\ lock /\ open /\ MergeAlive /\ c.called = FALSE
      /\ \A k \in Upstreams : ~subs[k]
  <2>1. c.p = "finish" /\ c.called = FALSE
    BY <1>1, PlaceOf DEF Finish, Contexts
  <2>2. lock /\ open /\ \A k \in Upstreams : ~subs[k]
    BY <1>1, <2>1 DEF Control, Subscribing, Outer
  <2> QED
    BY <1>1, <2>1, <2>2, TopAt DEF Calls, Below, MergeAlive
<1> DEFINE d == [c EXCEPT !.p = "bottom"]
<1>3. /\ d \in Contexts
      /\ d.p = "bottom" /\ d.b = c.b /\ d.called = c.called /\ d.g = c.g
      /\ d.e = c.e /\ d.h = c.h /\ d.v = c.v /\ d.f = c.f
  BY <1>2 DEF Contexts, Places, Outer, Inner, Refill, Bottoms
<1> HIDE DEF d
<1>4. /\ stack' = c.b
      /\ lock' = FALSE
      /\ fault' = FALSE
      /\ UNCHANGED <<phase, requested, generating, yielded, granted, delivered, mailbox, subs,
                      nxt, current, balance, available, delivering, open, asked, got, taken,
                      ended>>
  BY <1>2 DEF Finish, baseVars, userVars
<1>5. Form(d)'
  BY <1>1, <1>2, <1>3, <1>4 DEF Form, Below, Asking
<1>6. Types'
  BY <1>1, <1>4 DEF Types
<1>7. Subscribing(d)'
  BY <1>1, <1>2, <1>3, <1>4 DEF Types, Subscribing, Outer, Inner, Refill
<1>8. Control(d)'
  BY <1>1, <1>2, <1>3, <1>4 DEF Types, Control, Outer, Inner, Refill
<1>9. ASSUME NEW k \in Upstreams
      PROVE  Upstream(d, k)'
  <2>1. Upstream(c, k)
    BY DEF IInvAt
  <2>2. Running(d, k)'
    BY <1>1, <1>2, <1>3, <1>4, <2>1
       DEF Upstream, Running, Merged, Fresh, Runs, Base!Alive, Inner, Refill, Types
  <2>3. OneAhead(d, k)'
    BY <1>1, <1>2, <1>3, <1>4, <2>1
       DEF Upstream, OneAhead, Tokens, One, Finishing, Consuming, Sends, Merged, Fresh, Runs,
           Inner, Refill, Types
  <2>4. Over(d, k)'
    BY <1>1, <1>2, <1>3, <1>4, <2>1
       DEF Upstream, Over, Finishing, Consuming, Sends, Ending, Merged, Fresh, Base!Alive,
           Inner, Refill, Types
  <2>5. Conserved(d, k)'
    BY <1>1, <1>2, <1>3, <1>4, <2>1
       DEF Upstream, Conserved, One, Taking, Consuming, SendsEvent, Merged, Fresh, Inner,
           Refill, Types
  <2> QED
    BY <2>2, <2>3, <2>4, <2>5 DEF Upstream
<1>10. Rounds(d)'
  <2>1. \A n \in Nat, k \in Upstreams : InRound(c, n, k) => InRound(d, n, k)'
    BY <1>1, <1>2, <1>3, <1>4 DEF Types, InRound, Consuming, One, Refill
  <2> QED
    BY <1>1, <1>4, <2>1 DEF Rounds
<1>11. EndLeft'
  BY <1>4 DEF EndLeft
<1>12. IInvAt(d)'
  BY <1>5, <1>6, <1>7, <1>8, <1>9, <1>10, <1>11 DEF IInvAt
<1> QED
  BY <1>3, <1>12 DEF IInv

-----------------------------------------------------------------------------
(* The deferred upstreams and the user.                                      *)

\* A deferred upstream sees a request.
LEMMA DeferredInv ==
  ASSUME UserIsCareful, NEW c \in Contexts, IInvAt(c), ~fault,
         NEW g \in Deferred, DeferredRequest(g)
  PROVE  IInv'
<1>1. Form(c) /\ Types /\ Subscribing(c) /\ Control(c) /\ Rounds(c)
  BY DEF IInvAt
<1>2. /\ c.p = "bottom" /\ c.b = <<>> /\ stack = <<>> /\ g \in Upstreams /\ Base!Alive(g)
      /\ open /\ lock /\ subs[g] /\ ~generating[g]
      /\ requested[g] = 0 /\ mailbox[g] = 1 /\ Deferred # {}
  <2>1. g \in Upstreams /\ stack = <<>> /\ mailbox[g] > 0 /\ Base!Alive(g)
    BY MergeAssumption DEF DeferredRequest
  <2>2. c.p = "bottom" /\ c.b = <<>>
    BY <1>1, <2>1, EmptyAt
  <2>3. Running(c, g) /\ OneAhead(c, g) /\ Over(c, g)
    BY <2>1 DEF IInvAt, Upstream
  <2>4. open
    BY <1>1, <2>1, <2>2 DEF Subscribing, Base!Alive
  <2>5. lock /\ subs[g]
    BY <2>1, <2>2, <2>3, <2>4 DEF Over, Ending, Inner, Refill
  <2>6. ~generating[g] /\ requested[g] = 0
    BY <1>1, <2>1, <2>2, <2>3 DEF Running, Runs, Inner, Refill, Types
  <2>7. mailbox[g] = 1
    BY <1>1, <2>1, <2>2, <2>3 DEF OneAhead, Tokens, One, Sends, Types
  <2> QED
    BY <2>1, <2>2, <2>4, <2>5, <2>6, <2>7
<1> DEFINE d == [c EXCEPT !.p = "loop", !.g = g]
<1>3. /\ d \in Contexts
      /\ d.p = "loop" /\ d.b = c.b /\ d.called = c.called /\ d.g = g
      /\ d.e = c.e /\ d.h = c.h /\ d.v = c.v /\ d.f = c.f
  BY <1>2 DEF Contexts, Places, Outer, Inner, Refill, Bottoms
<1> HIDE DEF d
<1>4. /\ stack' = Call("Loop", g, "none", c.b)
      /\ mailbox' = [mailbox EXCEPT ![g] = 0]
      /\ requested' = [requested EXCEPT ![g] = 1]
      /\ generating' = [generating EXCEPT ![g] = TRUE]
      /\ UNCHANGED <<phase, yielded, granted, delivered, fault, subs, nxt, current, balance,
                      available, delivering, lock, open, asked, got, taken, ended>>
  <2>1. Base!AddTo(requested[g], 1) = 1 /\ mailbox[g] - 1 = 0
    BY <1>2, OneMore DEF Ahead
  <2> QED
    BY <1>2, <2>1
       DEF DeferredRequest, Base!Request, Base!StartsGenerate, Call, mergeVars, userVars
<1>5. Form(d)'
  BY <1>1, <1>2, <1>3, <1>4 DEF Form, Below, Asking
<1>6. Types'
  BY <1>1, <1>4, <1>2 DEF Types
<1>7. Subscribing(d)'
  BY <1>1, <1>2, <1>3, <1>4 DEF Types, Subscribing, Outer, Inner, Refill
<1>8. Control(d)'
  BY <1>1, <1>2, <1>3, <1>4 DEF Types, Control, Outer, Inner, Refill
<1>9. ASSUME NEW k \in Upstreams
      PROVE  Upstream(d, k)'
  <2>1. Upstream(c, k)
    BY DEF IInvAt
  <2>2. /\ mailbox'[k] = IF k = g THEN 0 ELSE mailbox[k]
        /\ requested'[k] = IF k = g THEN 1 ELSE requested[k]
        /\ generating'[k] = IF k = g THEN TRUE ELSE generating[k]
    BY <1>1, <1>2, <1>4 DEF Types
  <2>3. /\ ~Sends(c, k) /\ ~Sends(d, k) /\ ~Finishing(c, k) /\ ~Finishing(d, k)
        /\ ~Runs(c, k) /\ (Runs(d, k) <=> k = g)
        /\ (Fresh(d, k)' <=> Fresh(c, k)) /\ ~Fresh(c, g)
        /\ (Merged(d, k)' <=> subs[k])
    BY <1>2, <1>3, <1>4
       DEF Sends, Finishing, Consuming, Runs, Fresh, Merged, Inner, Refill, Base!Alive
  <2>4. Running(d, k)'
    BY <1>1, <1>2, <1>3, <1>4, <2>1, <2>2, <2>3
       DEF Upstream, Running, Merged, Fresh, Runs, Base!Alive, Inner, Refill, Types
  <2>5. OneAhead(d, k)'
    <3>1. CASE k = g
      BY <1>1, <1>2, <1>3, <1>4, <2>1, <2>2, <2>3, <3>1
         DEF Upstream, OneAhead, Tokens, One, Finishing, Consuming, Sends, Merged, Fresh,
             Runs, Inner, Refill, Types
    <3>2. CASE k # g
      BY <1>1, <1>2, <1>3, <1>4, <2>1, <2>2, <2>3, <3>2
         DEF Upstream, OneAhead, Tokens, One, Finishing, Consuming, Sends, Merged, Fresh,
             Runs, Inner, Refill, Types
    <3> QED
      BY <3>1, <3>2
  <2>6. Over(d, k)'
    BY <1>1, <1>2, <1>3, <1>4, <2>1, <2>2, <2>3
       DEF Upstream, Over, Finishing, Consuming, Sends, Ending, Merged, Fresh, Base!Alive,
           Inner, Refill, Types
  <2>7. Conserved(d, k)'
    BY <1>1, <1>2, <1>3, <1>4, <2>1, <2>2, <2>3
       DEF Upstream, Conserved, One, Taking, Consuming, SendsEvent, Merged, Fresh, Inner,
           Refill, Types
  <2> QED
    BY <2>4, <2>5, <2>6, <2>7 DEF Upstream
<1>10. Rounds(d)'
  <2>1. \A n \in Nat, k \in Upstreams : InRound(c, n, k) => InRound(d, n, k)'
    BY <1>1, <1>2, <1>3, <1>4 DEF Types, InRound, Consuming, One, Refill
  <2> QED
    BY <1>1, <1>4, <2>1 DEF Rounds
<1>11. EndLeft'
  BY <1>4 DEF EndLeft
<1>12. IInvAt(d)'
  BY <1>5, <1>6, <1>7, <1>8, <1>9, <1>10, <1>11 DEF IInvAt
<1> QED
  BY <1>3, <1>12 DEF IInv

\* The user requests from outside of OnNext, and MaybeDeliver starts.
LEMMA UserRequestsInv ==
  ASSUME UserIsCareful, NEW c \in Contexts, IInvAt(c), ~fault,
         UserRequests, c.p = "bottom"
  PROVE  IInv'
<1>1. Form(c) /\ Types /\ Subscribing(c) /\ Control(c) /\ Rounds(c)
  BY DEF IInvAt
<1>2. /\ open /\ MergeAlive /\ asked' \in Nat /\ balance' \in Balance /\ MaybeDeliver(stack)
      /\ (HasRequests(balance) => HasRequests(balance'))
  <2>1. PICK n \in Counts : asked' = asked + n /\ balance' = AddTo(balance, n)
    BY DEF UserRequests
  <2>2. n \in Nat /\ asked \in Nat /\ balance \in Balance
    BY <1>1, MergeAssumption, KMaxAssumption DEF Types, Balance
  <2> QED
    BY <2>1, <2>2, KMaxAssumption DEF UserRequests, AddTo, Balance, HasRequests
<1>3. c.p = "bottom" /\ stack = c.b /\ lock /\ ~delivering /\ open /\ ~ended
  <2>1. lock
    <3>1. ASSUME NEW k \in Upstreams, ~lock
          PROVE  ~Base!Alive(k)
      BY <1>2, <3>1 DEF IInvAt, Upstream, Over
    <3> QED
      BY <1>2, <3>1 DEF MergeAlive
  <2> QED
    BY <1>1, <1>2, <2>1, TopAt DEF Control, Inner, Refill
<1> DEFINE d == [c EXCEPT !.p = "deliver", !.called = FALSE]
<1>4. /\ d \in Contexts
      /\ d.p = "deliver" /\ d.b = c.b /\ d.called = FALSE /\ d.g = c.g
      /\ d.e = c.e /\ d.h = c.h /\ d.v = c.v /\ d.f = c.f
  BY <1>3 DEF Contexts, Places, Outer, Inner, Refill, Bottoms
<1> HIDE DEF d
<1>5. /\ stack' = Call("Deliver", 0, "none", c.b)
      /\ delivering' = TRUE
      /\ asked' \in Nat
      /\ balance' \in Balance
      /\ UNCHANGED <<phase, requested, generating, yielded, granted, delivered, fault,
                      mailbox, subs, nxt, current, available, lock, open, got, taken, ended>>
  BY <1>3, <1>2 DEF UserRequests, MaybeDeliver, baseVars
<1>6. Form(d)'
  BY <1>1, <1>3, <1>4, <1>5 DEF Form, Below, Asking
<1>7. Types'
  BY <1>1, <1>5 DEF Types
<1>8. Subscribing(d)'
  BY <1>1, <1>3, <1>4, <1>5 DEF Types, Subscribing, Outer, Inner, Refill
<1>9. Control(d)'
  BY <1>1, <1>3, <1>4, <1>5 DEF Types, Control, Outer, Inner, Refill
<1>10. ASSUME NEW k \in Upstreams
       PROVE  Upstream(d, k)'
  <2>1. Upstream(c, k)
    BY DEF IInvAt
  <2>2. Running(d, k)'
    BY <1>1, <1>3, <1>4, <1>5, <2>1
       DEF Upstream, Running, Merged, Fresh, Runs, Base!Alive, Inner, Refill, Types
  <2>3. OneAhead(d, k)'
    BY <1>1, <1>3, <1>4, <1>5, <2>1
       DEF Upstream, OneAhead, Tokens, One, Finishing, Consuming, Sends, Merged, Fresh, Runs,
           Inner, Refill, Types
  <2>4. Over(d, k)'
    BY <1>1, <1>3, <1>4, <1>5, <2>1
       DEF Upstream, Over, Finishing, Consuming, Sends, Ending, Merged, Fresh, Base!Alive,
           Inner, Refill, Types
  <2>5. Conserved(d, k)'
    BY <1>1, <1>3, <1>4, <1>5, <2>1
       DEF Upstream, Conserved, One, Taking, Consuming, SendsEvent, Merged, Fresh, Inner,
           Refill, Types
  <2> QED
    BY <2>2, <2>3, <2>4, <2>5 DEF Upstream
<1>11. Rounds(d)'
  <2>1. \A n \in Nat, k \in Upstreams : InRound(c, n, k) => InRound(d, n, k)'
    BY <1>1, <1>3, <1>4, <1>5 DEF Types, InRound, Consuming, One, Refill
  <2> QED
    BY <1>1, <1>5, <2>1 DEF Rounds
<1>12. EndLeft'
  BY <1>5 DEF EndLeft
<1>13. IInvAt(d)'
  BY <1>6, <1>7, <1>8, <1>9, <1>10, <1>11, <1>12 DEF IInvAt
<1> QED
  BY <1>4, <1>13 DEF IInv

\* The user requests from within OnNext, and the loop below goes on.
LEMMA UserRequestsInsideInv ==
  ASSUME UserIsCareful, NEW c \in Contexts, IInvAt(c), ~fault,
         UserRequests, c.p \in {"value", "error", "done"}
  PROVE  IInv'
<1>1. Form(c) /\ Types /\ Subscribing(c) /\ Control(c) /\ Rounds(c)
  BY DEF IInvAt
<1>2. /\ open /\ MergeAlive /\ asked' \in Nat /\ balance' \in Balance /\ MaybeDeliver(stack)
      /\ (HasRequests(balance) => HasRequests(balance'))
  <2>1. PICK n \in Counts : asked' = asked + n /\ balance' = AddTo(balance, n)
    BY DEF UserRequests
  <2>2. n \in Nat /\ asked \in Nat /\ balance \in Balance
    BY <1>1, MergeAssumption, KMaxAssumption DEF Types, Balance
  <2> QED
    BY <2>1, <2>2, KMaxAssumption DEF UserRequests, AddTo, Balance, HasRequests
<1>3. c.p \in {"value", "error", "done"} /\ delivering /\ lock /\ open
  BY <1>1, <1>2 DEF Control, Inner
<1>4. /\ asked' \in Nat
      /\ balance' \in Balance
      /\ UNCHANGED <<stack, phase, requested, generating, yielded, granted, delivered, fault,
                      mailbox, subs, nxt, current, available, delivering, lock, open, got,
                      taken, ended>>
  <2>1. stack' = stack /\ delivering' = delivering
    BY <1>1, <1>3, <1>2 DEF MaybeDeliver, Types
  <2> QED
    BY <1>2, <2>1 DEF UserRequests, baseVars
<1>5. Form(c)'
  BY <1>1, <1>3, <1>4 DEF Form, Below, Asking
<1>6. Types'
  BY <1>1, <1>4 DEF Types
<1>7. Subscribing(c)'
  BY <1>1, <1>3, <1>4 DEF Types, Subscribing, Outer, Inner, Refill
<1>8. Control(c)'
  BY <1>1, <1>3, <1>4, <1>2 DEF Types, Control, Outer, Inner, Refill, Subscribing
<1>9. ASSUME NEW k \in Upstreams
      PROVE  Upstream(c, k)'
  <2>1. Upstream(c, k)
    BY DEF IInvAt
  <2>2. Running(c, k)'
    BY <1>1, <1>3, <1>4, <2>1
       DEF Upstream, Running, Merged, Fresh, Runs, Base!Alive, Inner, Refill, Types
  <2>3. OneAhead(c, k)'
    BY <1>1, <1>3, <1>4, <2>1
       DEF Upstream, OneAhead, Tokens, One, Finishing, Consuming, Sends, Merged, Fresh, Runs,
           Inner, Refill, Types
  <2>4. Over(c, k)'
    BY <1>1, <1>3, <1>4, <2>1
       DEF Upstream, Over, Finishing, Consuming, Sends, Ending, Merged, Fresh, Base!Alive,
           Inner, Refill, Types
  <2>5. Conserved(c, k)'
    BY <1>1, <1>3, <1>4, <2>1
       DEF Upstream, Conserved, One, Taking, Consuming, SendsEvent, Merged, Fresh, Inner,
           Refill, Types
  <2> QED
    BY <2>2, <2>3, <2>4, <2>5 DEF Upstream
<1>10. Rounds(c)'
  <2>1. \A n \in Nat, k \in Upstreams : InRound(c, n, k) => InRound(c, n, k)'
    BY <1>1, <1>3, <1>4 DEF Types, InRound, Consuming, One, Refill
  <2> QED
    BY <1>1, <1>4, <2>1 DEF Rounds
<1>11. EndLeft'
  BY <1>4 DEF EndLeft
<1>12. IInvAt(c)'
  BY <1>5, <1>6, <1>7, <1>8, <1>9, <1>10, <1>11 DEF IInvAt
<1> QED
  BY <1>12 DEF IInv

\* The final subscriber returns from OnSubscribe.
LEMMA ReturnsFirstInv ==
  ASSUME UserIsCareful, NEW c \in Contexts, IInvAt(c), ~fault,
         UserReturns, c.p = "bottom"
  PROVE  IInv'
<1>1. Form(c) /\ Types /\ Subscribing(c) /\ Control(c) /\ Rounds(c)
  BY DEF IInvAt
<1>2. c.p = "bottom" /\ c.b = Telling /\ Tail(stack) = <<>> /\ open
  <2>1. stack # <<>> /\ Top.op \in {"UserOnSubscribe", "UserOnNext"}
    BY DEF UserReturns, UserActive
  <2>2. c.b = Telling
    BY <1>1, <2>1, PlaceOf DEF IsTop
  <2> QED
    BY <1>1, <2>1, <2>2, TopAt, BottomsDiffer DEF Calls, Subscribing
<1> DEFINE d == [c EXCEPT !.b = <<>>]
<1>3. /\ d \in Contexts
      /\ d.p = c.p /\ d.b = <<>> /\ d.called = c.called /\ d.g = c.g
      /\ d.e = c.e /\ d.h = c.h /\ d.v = c.v /\ d.f = c.f
  BY <1>2 DEF Contexts, Places, Outer, Inner, Refill, Bottoms
<1> HIDE DEF d
<1>4. /\ stack' = <<>>
      /\ UNCHANGED <<phase, requested, generating, yielded, granted, delivered, fault,
                      mailbox, subs, nxt, current, balance, available, delivering, lock, open,
                      asked, got, taken, ended>>
  BY <1>2 DEF UserReturns, baseVars, mergeVars, userVars
<1>5. Form(d)'
  BY <1>1, <1>2, <1>3, <1>4 DEF Form, Below, Asking
<1>6. Types'
  BY <1>1, <1>4 DEF Types
<1>7. Subscribing(d)'
  BY <1>1, <1>2, <1>3, <1>4, BottomsDiffer DEF Types, Subscribing, Outer, Inner, Refill
<1>8. Control(d)'
  BY <1>1, <1>2, <1>3, <1>4 DEF Types, Control, Outer, Inner, Refill
<1>9. ASSUME NEW k \in Upstreams
      PROVE  Upstream(d, k)'
  <2>1. Upstream(c, k)
    BY DEF IInvAt
  <2>2. Running(d, k)'
    BY <1>1, <1>2, <1>3, <1>4, <2>1
       DEF Upstream, Running, Merged, Fresh, Runs, Base!Alive, Inner, Refill, Types
  <2>3. OneAhead(d, k)'
    BY <1>1, <1>2, <1>3, <1>4, <2>1
       DEF Upstream, OneAhead, Tokens, One, Finishing, Consuming, Sends, Merged, Fresh, Runs,
           Inner, Refill, Types
  <2>4. Over(d, k)'
    BY <1>1, <1>2, <1>3, <1>4, <2>1
       DEF Upstream, Over, Finishing, Consuming, Sends, Ending, Merged, Fresh, Base!Alive,
           Inner, Refill, Types
  <2>5. Conserved(d, k)'
    BY <1>1, <1>2, <1>3, <1>4, <2>1
       DEF Upstream, Conserved, One, Taking, Consuming, SendsEvent, Merged, Fresh, Inner,
           Refill, Types
  <2> QED
    BY <2>2, <2>3, <2>4, <2>5 DEF Upstream
<1>10. Rounds(d)'
  <2>1. \A n \in Nat, k \in Upstreams : InRound(c, n, k) => InRound(d, n, k)'
    BY <1>1, <1>2, <1>3, <1>4 DEF Types, InRound, Consuming, One, Refill
  <2> QED
    BY <1>1, <1>4, <2>1 DEF Rounds
<1>11. EndLeft'
  BY <1>4 DEF EndLeft
<1>12. IInvAt(d)'
  BY <1>5, <1>6, <1>7, <1>8, <1>9, <1>10, <1>11 DEF IInvAt
<1> QED
  BY <1>3, <1>12 DEF IInv

\* It returns from OnNext with a value.
LEMMA ReturnsValueInv ==
  ASSUME UserIsCareful, NEW c \in Contexts, IInvAt(c), ~fault,
         UserReturns, c.p = "value"
  PROVE  IInv'
<1>1. Form(c) /\ Types /\ Subscribing(c) /\ Control(c) /\ Rounds(c)
  BY DEF IInvAt
<1>2. c.p = "value" /\ Tail(stack) = Call("Deliver", 0, "none", Below(c))
  BY <1>1, TopAt DEF Calls
<1> DEFINE d == [c EXCEPT !.p = "deliver"]
<1>3. /\ d \in Contexts
      /\ d.p = "deliver" /\ d.b = c.b /\ d.called = c.called /\ d.g = c.g
      /\ d.e = c.e /\ d.h = c.h /\ d.v = c.v /\ d.f = c.f
  BY <1>2 DEF Contexts, Places, Outer, Inner, Refill, Bottoms
<1> HIDE DEF d
<1>4. /\ stack' = Call("Deliver", 0, "none", Below(c))
      /\ UNCHANGED <<phase, requested, generating, yielded, granted, delivered, fault,
                      mailbox, subs, nxt, current, balance, available, delivering, lock, open,
                      asked, got, taken, ended>>
  BY <1>2 DEF UserReturns, baseVars, mergeVars, userVars
<1>5. Form(d)'
  BY <1>1, <1>2, <1>3, <1>4 DEF Form, Below, Asking
<1>6. Types'
  BY <1>1, <1>4 DEF Types
<1>7. Subscribing(d)'
  BY <1>1, <1>2, <1>3, <1>4 DEF Types, Subscribing, Outer, Inner, Refill
<1>8. Control(d)'
  BY <1>1, <1>2, <1>3, <1>4 DEF Types, Control, Outer, Inner, Refill
<1>9. ASSUME NEW k \in Upstreams
      PROVE  Upstream(d, k)'
  <2>1. Upstream(c, k)
    BY DEF IInvAt
  <2>2. Running(d, k)'
    BY <1>1, <1>2, <1>3, <1>4, <2>1
       DEF Upstream, Running, Merged, Fresh, Runs, Base!Alive, Inner, Refill, Types
  <2>3. OneAhead(d, k)'
    BY <1>1, <1>2, <1>3, <1>4, <2>1
       DEF Upstream, OneAhead, Tokens, One, Finishing, Consuming, Sends, Merged, Fresh, Runs,
           Inner, Refill, Types
  <2>4. Over(d, k)'
    BY <1>1, <1>2, <1>3, <1>4, <2>1
       DEF Upstream, Over, Finishing, Consuming, Sends, Ending, Merged, Fresh, Base!Alive,
           Inner, Refill, Types
  <2>5. Conserved(d, k)'
    BY <1>1, <1>2, <1>3, <1>4, <2>1
       DEF Upstream, Conserved, One, Taking, Consuming, SendsEvent, Merged, Fresh, Inner,
           Refill, Types
  <2> QED
    BY <2>2, <2>3, <2>4, <2>5 DEF Upstream
<1>10. Rounds(d)'
  <2>1. \A n \in Nat, k \in Upstreams : InRound(c, n, k) => InRound(d, n, k)'
    BY <1>1, <1>2, <1>3, <1>4 DEF Types, InRound, Consuming, One, Refill
  <2> QED
    BY <1>1, <1>4, <2>1 DEF Rounds
<1>11. EndLeft'
  BY <1>4 DEF EndLeft
<1>12. IInvAt(d)'
  BY <1>5, <1>6, <1>7, <1>8, <1>9, <1>10, <1>11 DEF IInvAt
<1> QED
  BY <1>3, <1>12 DEF IInv

\* It returns from OnNext with an error.
LEMMA ReturnsErrorInv ==
  ASSUME UserIsCareful, NEW c \in Contexts, IInvAt(c), ~fault,
         UserReturns, c.p = "error"
  PROVE  IInv'
<1>1. Form(c) /\ Types /\ Subscribing(c) /\ Control(c) /\ Rounds(c)
  BY DEF IInvAt
<1>2. c.p = "error" /\ Tail(stack) = Call("CancelAll", 0, "none", Below(c))
  BY <1>1, TopAt DEF Calls
<1> DEFINE d == [c EXCEPT !.p = "cancelAll"]
<1>3. /\ d \in Contexts
      /\ d.p = "cancelAll" /\ d.b = c.b /\ d.called = c.called /\ d.g = c.g
      /\ d.e = c.e /\ d.h = c.h /\ d.v = c.v /\ d.f = c.f
  BY <1>2 DEF Contexts, Places, Outer, Inner, Refill, Bottoms
<1> HIDE DEF d
<1>4. /\ stack' = Call("CancelAll", 0, "none", Below(c))
      /\ UNCHANGED <<phase, requested, generating, yielded, granted, delivered, fault,
                      mailbox, subs, nxt, current, balance, available, delivering, lock, open,
                      asked, got, taken, ended>>
  BY <1>2 DEF UserReturns, baseVars, mergeVars, userVars
<1>5. Form(d)'
  BY <1>1, <1>2, <1>3, <1>4 DEF Form, Below, Asking
<1>6. Types'
  BY <1>1, <1>4 DEF Types
<1>7. Subscribing(d)'
  BY <1>1, <1>2, <1>3, <1>4 DEF Types, Subscribing, Outer, Inner, Refill
<1>8. Control(d)'
  BY <1>1, <1>2, <1>3, <1>4 DEF Types, Control, Outer, Inner, Refill
<1>9. ASSUME NEW k \in Upstreams
      PROVE  Upstream(d, k)'
  <2>1. Upstream(c, k)
    BY DEF IInvAt
  <2>2. Running(d, k)'
    BY <1>1, <1>2, <1>3, <1>4, <2>1
       DEF Upstream, Running, Merged, Fresh, Runs, Base!Alive, Inner, Refill, Types
  <2>3. OneAhead(d, k)'
    BY <1>1, <1>2, <1>3, <1>4, <2>1
       DEF Upstream, OneAhead, Tokens, One, Finishing, Consuming, Sends, Merged, Fresh, Runs,
           Inner, Refill, Types
  <2>4. Over(d, k)'
    BY <1>1, <1>2, <1>3, <1>4, <2>1
       DEF Upstream, Over, Finishing, Consuming, Sends, Ending, Merged, Fresh, Base!Alive,
           Inner, Refill, Types
  <2>5. Conserved(d, k)'
    BY <1>1, <1>2, <1>3, <1>4, <2>1
       DEF Upstream, Conserved, One, Taking, Consuming, SendsEvent, Merged, Fresh, Inner,
           Refill, Types
  <2> QED
    BY <2>2, <2>3, <2>4, <2>5 DEF Upstream
<1>10. Rounds(d)'
  <2>1. \A n \in Nat, k \in Upstreams : InRound(c, n, k) => InRound(d, n, k)'
    BY <1>1, <1>2, <1>3, <1>4 DEF Types, InRound, Consuming, One, Refill
  <2> QED
    BY <1>1, <1>4, <2>1 DEF Rounds
<1>11. EndLeft'
  BY <1>4 DEF EndLeft
<1>12. IInvAt(d)'
  BY <1>5, <1>6, <1>7, <1>8, <1>9, <1>10, <1>11 DEF IInvAt
<1> QED
  BY <1>3, <1>12 DEF IInv

\* It returns from OnNext with the end.
LEMMA ReturnsDoneInv ==
  ASSUME UserIsCareful, NEW c \in Contexts, IInvAt(c), ~fault,
         UserReturns, c.p = "done"
  PROVE  IInv'
<1>1. Form(c) /\ Types /\ Subscribing(c) /\ Control(c) /\ Rounds(c)
  BY DEF IInvAt
<1>2. c.p = "done" /\ Tail(stack) = Call("Finish", 0, "none", Below(c))
  BY <1>1, TopAt DEF Calls
<1> DEFINE d == [c EXCEPT !.p = "finish"]
<1>3. /\ d \in Contexts
      /\ d.p = "finish" /\ d.b = c.b /\ d.called = c.called /\ d.g = c.g
      /\ d.e = c.e /\ d.h = c.h /\ d.v = c.v /\ d.f = c.f
  BY <1>2 DEF Contexts, Places, Outer, Inner, Refill, Bottoms
<1> HIDE DEF d
<1>4. /\ stack' = Call("Finish", 0, "none", Below(c))
      /\ UNCHANGED <<phase, requested, generating, yielded, granted, delivered, fault,
                      mailbox, subs, nxt, current, balance, available, delivering, lock, open,
                      asked, got, taken, ended>>
  BY <1>2 DEF UserReturns, baseVars, mergeVars, userVars
<1>5. Form(d)'
  BY <1>1, <1>2, <1>3, <1>4 DEF Form, Below, Asking
<1>6. Types'
  BY <1>1, <1>4 DEF Types
<1>7. Subscribing(d)'
  BY <1>1, <1>2, <1>3, <1>4 DEF Types, Subscribing, Outer, Inner, Refill
<1>8. Control(d)'
  BY <1>1, <1>2, <1>3, <1>4 DEF Types, Control, Outer, Inner, Refill
<1>9. ASSUME NEW k \in Upstreams
      PROVE  Upstream(d, k)'
  <2>1. Upstream(c, k)
    BY DEF IInvAt
  <2>2. Running(d, k)'
    BY <1>1, <1>2, <1>3, <1>4, <2>1
       DEF Upstream, Running, Merged, Fresh, Runs, Base!Alive, Inner, Refill, Types
  <2>3. OneAhead(d, k)'
    BY <1>1, <1>2, <1>3, <1>4, <2>1
       DEF Upstream, OneAhead, Tokens, One, Finishing, Consuming, Sends, Merged, Fresh, Runs,
           Inner, Refill, Types
  <2>4. Over(d, k)'
    BY <1>1, <1>2, <1>3, <1>4, <2>1
       DEF Upstream, Over, Finishing, Consuming, Sends, Ending, Merged, Fresh, Base!Alive,
           Inner, Refill, Types
  <2>5. Conserved(d, k)'
    BY <1>1, <1>2, <1>3, <1>4, <2>1
       DEF Upstream, Conserved, One, Taking, Consuming, SendsEvent, Merged, Fresh, Inner,
           Refill, Types
  <2> QED
    BY <2>2, <2>3, <2>4, <2>5 DEF Upstream
<1>10. Rounds(d)'
  <2>1. \A n \in Nat, k \in Upstreams : InRound(c, n, k) => InRound(d, n, k)'
    BY <1>1, <1>2, <1>3, <1>4 DEF Types, InRound, Consuming, One, Refill
  <2> QED
    BY <1>1, <1>4, <2>1 DEF Rounds
<1>11. EndLeft'
  BY <1>4 DEF EndLeft
<1>12. IInvAt(d)'
  BY <1>5, <1>6, <1>7, <1>8, <1>9, <1>10, <1>11 DEF IInvAt
<1> QED
  BY <1>3, <1>12 DEF IInv

-----------------------------------------------------------------------------
(* All steps.                                                                *)

\* Nothing was subscribed to.
LEMMA InitInv ==
  ASSUME Init
  PROVE  IInv
<1> DEFINE c == [p |-> "bottom", b |-> <<>>, called |-> FALSE, g |-> 1, e |-> "value",
                 h |-> 1, v |-> "value", f |-> "value"]
<1>1. /\ c \in Contexts
      /\ c.p = "bottom" /\ c.b = <<>> /\ c.called = FALSE /\ c.g = 1 /\ c.e = "value"
      /\ c.h = 1 /\ c.v = "value" /\ c.f = "value"
  BY Words DEF Contexts, Places, Bottoms, Base!Events
<1> HIDE DEF c
<1>2. /\ stack = <<>> /\ current = 1 /\ balance = 0 /\ available = 0
      /\ ~delivering /\ ~lock /\ ~open /\ ~ended /\ ~fault /\ asked = 0 /\ got = 0
      /\ phase = [k \in Upstreams |-> "new"]
      /\ requested = [k \in Upstreams |-> 0]
      /\ generating = [k \in Upstreams |-> FALSE]
      /\ yielded = [k \in Upstreams |-> 0]
      /\ granted = [k \in Upstreams |-> 0]
      /\ delivered = [k \in Upstreams |-> 0]
      /\ mailbox = [k \in Upstreams |-> 0]
      /\ subs = [k \in Upstreams |-> FALSE]
      /\ nxt = [k \in Upstreams |-> "none"]
      /\ taken = [k \in Upstreams |-> 0]
  BY DEF Init, Base!Init
<1>3. delivering = FALSE /\ lock = FALSE /\ open = FALSE /\ ended = FALSE /\ fault = FALSE
  BY DEF Init, Base!Init
<1>4. Types
  <2>1. /\ phase \in [Upstreams -> {"new", "alive", "deleted"}]
        /\ requested \in [Upstreams -> Nat] /\ generating \in [Upstreams -> BOOLEAN]
        /\ yielded \in [Upstreams -> Nat] /\ granted \in [Upstreams -> Nat]
        /\ delivered \in [Upstreams -> Nat] /\ mailbox \in [Upstreams -> Nat]
        /\ subs \in [Upstreams -> BOOLEAN] /\ taken \in [Upstreams -> Nat]
        /\ nxt \in [Upstreams -> Base!Events \cup {"none"}]
    BY <1>2
  <2>2. 0 \in Balance
    BY KMaxAssumption DEF Balance
  <2> QED
    BY <1>2, <1>3, <2>1, <2>2, Words DEF Types
<1>5. Form(c)
  BY <1>1, <1>2 DEF Form
<1>6. Subscribing(c)
  BY <1>1, <1>2, BottomsDiffer, Words DEF Subscribing
<1>7. Control(c)
  BY <1>1, <1>2 DEF Control, Inner, Refill, Outer
<1>8. ASSUME NEW k \in Upstreams
      PROVE  Upstream(c, k)
  <2>1. /\ phase[k] = "new" /\ requested[k] = 0 /\ ~generating[k] /\ yielded[k] = 0
        /\ mailbox[k] = 0 /\ ~subs[k] /\ nxt[k] = "none" /\ taken[k] = 0
    BY <1>2
  <2>2. ~Runs(c, k) /\ ~Sends(c, k) /\ ~Finishing(c, k) /\ Fresh(c, k) /\ ~Merged(c, k)
    BY <1>1, <1>2, <2>1 DEF Runs, Sends, Finishing, Consuming, Fresh, Merged, Refill, Inner
  <2>3. Running(c, k)
    BY <1>1, <2>1, <2>2 DEF Running, Base!Alive
  <2>4. OneAhead(c, k)
    BY <1>1, <2>1, <2>2 DEF OneAhead, Tokens, One
  <2>5. Over(c, k) /\ Conserved(c, k)
    BY <1>2, <2>1, <2>2, NoEnd DEF Over, Conserved
  <2> QED
    BY <2>3, <2>4, <2>5 DEF Upstream
<1>9. Rounds(c)
  <2>1. \A k \in Upstreams : ~subs[k]
    BY <1>2
  <2> QED
    BY <2>1 DEF Rounds, InRound
<1>10. IInvAt(c)
  BY <1>2, <1>4, <1>5, <1>6, <1>7, <1>8, <1>9 DEF IInvAt, EndLeft
<1> QED
  BY <1>1, <1>10 DEF IInv

\* A step of an upstream.
LEMMA UpstreamStepInv ==
  ASSUME UserIsCareful, NEW c \in Contexts, IInvAt(c), ~fault, UpstreamStep
  PROVE  IInv'
<1>1. Form(c) /\ UNCHANGED <<mailbox, mergeVars, userVars>>
  BY DEF IInvAt, UpstreamStep
<1>2. CASE Base!Generate
  <2>1. c.p \in {"loop", "refill"} /\ (Base!Produce(Top.gen) \/ Base!Pause(Top.gen))
    BY <1>1, <1>2, PlaceOf DEF Base!Generate, Base!Top, Top, IsTop
  <2>2. CASE c.p = "loop"
    <3>1. Top.gen = c.g
      BY <1>1, <2>2, TopAt DEF Calls, Top
    <3> QED
      BY <1>1, <2>1, <2>2, <3>1, ProduceInv, PauseInv
  <2>3. CASE c.p = "refill"
    <3>1. Top.gen = c.h
      BY <1>1, <2>3, TopAt DEF Calls, Top
    <3> QED
      BY <1>1, <2>1, <2>3, <3>1, RefillProduceInv, RefillPauseInv
  <2> QED
    BY <2>1, <2>2, <2>3
<1>3. CASE Base!AfterOnNext
  <2>1. c.p \in {"after", "refillAfter"}
    BY <1>1, <1>3, PlaceOf DEF Base!AfterOnNext, Base!Top, Top, IsTop
  <2>2. CASE c.p = "after"
    BY <1>1, <1>3, <2>2, AfterLoopInv, AfterEndInv
  <2>3. CASE c.p = "refillAfter"
    BY <1>1, <1>3, <2>3, RefillAfterLoopInv, RefillAfterEndInv
  <2> QED
    BY <2>1, <2>2, <2>3
<1> QED
  BY <1>2, <1>3 DEF UpstreamStep

\* A step of MaybeDeliver.
LEMMA DeliverInv ==
  ASSUME UserIsCareful, NEW c \in Contexts, IInvAt(c), ~fault, Deliver
  PROVE  IInv'
<1>1. CASE ~LoopCondition
  BY <1>1, DeliverEndsInv, DeliverEndsBelowInv
<1>2. CASE LoopCondition /\ ~HasNext(current)
  BY <1>2, DeliverSkipsInv
<1>3. CASE LoopCondition /\ HasNext(current)
  <2>1. current \in Upstreams
    BY AtDeliver
  <2>2. nxt[current] \in Base!Events /\ (Base!IsEnd(nxt[current]) \/ nxt[current] = "value")
    BY <1>3, <2>1 DEF HasNext, IInvAt, Types, Base!Events, Base!IsEnd
  <2>3. CASE Base!IsEnd(nxt[current])
    BY <1>3, <2>3, ConsumesEndInv
  <2>4. CASE nxt[current] = "value"
    BY <1>3, <2>4, ConsumesLateInv, ConsumesInLoopInv, ConsumesInv
  <2> QED
    BY <2>2, <2>3, <2>4
<1> QED
  BY <1>1, <1>2, <1>3

\* A step of the merged stream.
LEMMA MergeStepInv ==
  ASSUME UserIsCareful, NEW c \in Contexts, IInvAt(c), ~fault, MergeStep
  PROVE  IInv'
<1>1. Form(c)
  BY DEF IInvAt
<1>2. CASE CreateUpstream \/ ConfirmSubscription \/ Deliver \/ DeliversValue
  BY <1>2, CreateUpstreamInv, ConfirmInv, DeliverInv, DeliversValueInv
<1>3. CASE UpOnSubscribe
  BY <1>3, OnSubscribeInv, OnSubscribeLateInv
<1>4. CASE UpOnNext
  <2>1. c.p \in {"next", "refillNext"}
    BY <1>1, <1>4, PlaceOf DEF UpOnNext
  <2> QED
    BY <1>4, <2>1, OnNextInv, RefillOnNextInv
<1>5. CASE UpstreamEnds
  BY <1>5, ErrorInv, DoneInv, UpstreamDoneInv
<1>6. CASE CancelAfterError
  BY <1>6, CancelInv, CancelBelowInv
<1>7. CASE Finish
  BY <1>7, FinishInv, FinishBelowInv
<1> QED
  BY <1>2, <1>3, <1>4, <1>5, <1>6, <1>7 DEF MergeStep

\* A step of the user.
LEMMA UserStepInv ==
  ASSUME UserIsCareful, NEW c \in Contexts, IInvAt(c), ~fault,
         Subscribe \/ UserRequests \/ UserCancels \/ UserReturns
  PROVE  IInv'
<1>1. Form(c)
  BY DEF IInvAt
<1>2. UserRequests \/ UserReturns => c.p \in {"bottom", "value", "error", "done"}
  BY <1>1, PlaceOf DEF UserRequests, UserReturns
<1>3. CASE UserRequests
  BY <1>2, <1>3, UserRequestsInv, UserRequestsInsideInv
<1>4. CASE UserReturns
  BY <1>2, <1>4, ReturnsFirstInv, ReturnsValueInv, ReturnsErrorInv, ReturnsDoneInv
<1> QED
  BY <1>3, <1>4, SubscribeInv, UserCancelsInv

\* Every step of the system preserves the invariant.
LEMMA NextInv ==
  ASSUME UserIsCareful, IInv, [Next]_vars
  PROVE  IInv'
<1> PICK c \in Contexts : IInvAt(c)
  BY DEF IInv
<1>1. CASE UNCHANGED vars
  <2>1. UNCHANGED <<stack, phase, requested, generating, yielded, granted, delivered, fault,
                    mailbox, subs, nxt, current, balance, available, delivering, lock, open,
                    asked, got, taken, ended>>
    BY <1>1 DEF vars, baseVars, mergeVars, userVars
  <2>2. Form(c)' /\ Types' /\ Subscribing(c)' /\ Control(c)'
    BY <2>1 DEF IInvAt, Form, Types, Subscribing, Control
  <2>3. Rounds(c)' /\ EndLeft'
    BY <2>1 DEF IInvAt, Rounds, InRound, EndLeft, Base!Alive
  <2>4. ASSUME NEW k \in Upstreams
        PROVE  Upstream(c, k)'
    <3>1. Running(c, k) /\ OneAhead(c, k) /\ Over(c, k) /\ Conserved(c, k)
      BY DEF IInvAt, Upstream
    <3>2. Running(c, k)' /\ OneAhead(c, k)'
      BY <2>1, <3>1 DEF Running, OneAhead, Tokens, Merged, Fresh, Base!Alive
    <3>3. Over(c, k)' /\ Conserved(c, k)'
      BY <2>1, <3>1 DEF Over, Conserved, Merged, Fresh, Base!Alive
    <3> QED
      BY <3>2, <3>3 DEF Upstream
  <2> QED
    BY <2>2, <2>3, <2>4 DEF IInv, IInvAt
<1>2. CASE Terminated
  BY <1>1, <1>2 DEF Terminated
<1>3. CASE ~fault /\ (Subscribe \/ UserRequests \/ UserCancels \/ UserReturns)
  BY <1>3, UserStepInv
<1>4. CASE ~fault /\ (UpstreamStep \/ MergeStep)
  BY <1>4, UpstreamStepInv, MergeStepInv
<1>5. CASE ~fault /\ \E g \in Deferred : DeferredRequest(g)
  BY <1>5, DeferredInv
<1> QED
  BY <1>1, <1>2, <1>3, <1>4, <1>5 DEF Next

\* The invariant holds in every behaviour.
LEMMA Invariance ==
  ASSUME UserIsCareful
  PROVE  Spec => []IInv
<1>1. Init => IInv
  BY InitInv
<1>2. IInv /\ [Next]_vars => IInv'
  BY NextInv
<1> QED
  BY <1>1, <1>2, PTL DEF Spec

-----------------------------------------------------------------------------
(* The theorems.                                                             *)

\* The members of the stream and of the upstream subscribers keep their types; no
\* more is requested than the user may request.
THEOREM TypeCorrect ==
  ASSUME UserIsCareful
  PROVE  Spec => []TypeOK
<1> DEFINE Bounded == asked <= MaxGrant
<1>1. Init => Bounded
  BY MergeAssumption DEF Init
<1>2. ASSUME Bounded, [Next]_vars PROVE Bounded'
  <2>1. CASE asked' = asked
    BY <1>2, <2>1
  <2>2. CASE UserRequests
    <3>1. PICK n \in Counts : asked + n <= MaxGrant /\ asked' = asked + n
      BY <2>2 DEF UserRequests
    <3> QED
      BY <3>1
  <2>3. asked' = asked \/ UserRequests
    BY <1>2
       DEF Next, MergeStep, Subscribe, CreateUpstream, ConfirmSubscription, UpstreamStep,
           UpOnSubscribe, UpOnNext, Deliver, DeliverEnds, DeliverSkips, DeliverConsumes,
           DeliversValue, UpstreamEnds, SendDown, CancelAfterError, Cancel, Finish,
           DeferredRequest, UserCancels, UserReturns, Terminated, userVars, vars
  <2> QED
    BY <2>1, <2>2, <2>3
<1>3. IInv /\ Bounded => TypeOK
  <2> SUFFICES ASSUME IInv, Bounded PROVE TypeOK
    OBVIOUS
  <2>1. Types
    BY DEF IInv, IInvAt
  <2> QED
    BY <2>1, MergeAssumption DEF Types, TypeOK
<1> HIDE DEF Bounded
<1> QED
  BY <1>1, <1>2, <1>3, Invariance, PTL DEF Spec

\* When the merged stream is over, by Done, an error or Cancel, and no code
\* executes, every upstream is deleted.
THEOREM OverForAll ==
  ASSUME UserIsCareful
  PROVE  Spec => []NoUpstreamLeft
<1>1. ASSUME IInv, open, ~lock, stack = <<>>, NEW k \in Upstreams
      PROVE  phase[k] = "deleted"
  <2>1. PICK c \in Contexts : IInvAt(c)
    BY <1>1 DEF IInv
  <2>2. c.p = "bottom"
    BY <1>1, <2>1, EmptyAt DEF IInvAt
  <2>3. ~Base!Alive(k)
    BY <1>1, <2>1, <2>2 DEF IInvAt, Upstream, Over
  <2>4. phase[k] \in {"new", "alive", "deleted"} /\ phase[k] # "new"
    BY <1>1, <2>1 DEF IInvAt, Types, Subscribing
  <2> QED
    BY <2>3, <2>4 DEF Base!Alive
<1>2. IInv => NoUpstreamLeft
  BY <1>1 DEF NoUpstreamLeft
<1> QED
  BY <1>2, Invariance, PTL

\* The only check that fails is the one of Subscription::Cancel, for an upstream
\* whose end is still in next_ (line 764): every other step of MergeStream finds its
\* own checks fulfilled.
THEOREM OnlyCancelFails ==
  ASSUME UserIsCareful
  PROVE  Spec => FaultCause
<1>1. ASSUME IInv, IInv', [Next]_vars, fault', ~fault
      PROVE  FailsInCancel
  <2>1. PICK c \in Contexts : IInvAt(c)
    BY <1>1 DEF IInv
  <2>2. Form(c) /\ Types /\ Control(c) /\ Subscribing(c)
    BY <2>1 DEF IInvAt
  <2>3. ~lock'
    BY <1>1 DEF IInv, IInvAt, EndLeft
  <2> fault \in BOOLEAN /\ fault' \in BOOLEAN /\ fault' # fault
    BY <1>1 DEF IInv, IInvAt, Types
  <2>4. ~(UpstreamStep /\ Base!Generate)
    <3>1. ASSUME UpstreamStep, Base!Generate PROVE c.p \in {"loop", "refill"}
      BY <2>2, <3>1, PlaceOf DEF Base!Generate, Base!Top, Top, IsTop
    <3>2. ASSUME UpstreamStep, Base!Generate PROVE lock /\ lock' = lock
      BY <2>2, <3>1, <3>2 DEF Control, UpstreamStep, mergeVars
    <3> QED
      BY <2>3, <3>2, SMT
  <2>5. ~(UpstreamStep /\ Base!AfterOnNext)
    <3>1. ASSUME Base!AfterOnNext PROVE fault' = fault
      BY <3>1 DEF Base!AfterOnNext
    <3> QED
      BY <3>1
  <2>6. ~UpOnNext
    <3>1. ASSUME UpOnNext PROVE c.p \in {"next", "refillNext"}
      BY <2>2, <3>1, PlaceOf DEF UpOnNext
    <3>2. ASSUME UpOnNext PROVE lock /\ lock' = lock
      BY <2>2, <3>1, <3>2 DEF Control, UpOnNext
    <3> QED
      BY <2>3, <3>2, SMT
  <2>7. ~Deliver
    <3>1. ASSUME Deliver PROVE lock /\ lock' = lock
      BY <2>1, <3>1, AtDeliver DEF Deliver
    <3> QED
      BY <2>3, <3>1, SMT
  <2>8. ~DeliversValue
    <3>1. ASSUME DeliversValue PROVE lock /\ lock' = lock
      BY <2>1, <3>1, AtConsumed DEF DeliversValue
    <3> QED
      BY <2>3, <3>1, SMT
  <2>9. ~Finish
    <3>1. ASSUME Finish PROVE c.p = "finish"
      BY <2>2, <3>1, PlaceOf DEF Finish
    <3>2. ASSUME Finish PROVE fault' = FALSE
      BY <2>2, <3>1, <3>2 DEF Control, Finish, MergeAlive
    <3> QED
      BY <1>1, <3>2
  <2>10. ~(Subscribe \/ UserRequests \/ UserReturns)
    <3>1. Subscribe \/ UserRequests \/ UserReturns => fault' = fault
      BY DEF Subscribe, UserRequests, UserReturns
    <3> QED
      BY <3>1
  <2>11. ~(CreateUpstream \/ ConfirmSubscription \/ UpOnSubscribe \/ UpstreamEnds)
    <3>1. CreateUpstream \/ ConfirmSubscription \/ UpOnSubscribe \/ UpstreamEnds => fault' = fault
      BY DEF CreateUpstream, ConfirmSubscription, UpOnSubscribe, UpstreamEnds
    <3> QED
      BY <3>1
  <2>12. ~(\E g \in Deferred : DeferredRequest(g)) /\ ~Terminated /\ ~UNCHANGED vars
    <3>1. (\E g \in Deferred : DeferredRequest(g)) => fault' = fault
      BY DEF DeferredRequest
    <3>2. Terminated \/ UNCHANGED vars => fault' = fault
      BY DEF Terminated, vars
    <3> QED
      BY <3>1, <3>2
  <2>13. CancelAfterError \/ UserCancels
    BY <1>1, <2>4, <2>5, <2>6, <2>7, <2>8, <2>9, <2>10, <2>11, <2>12
       DEF Next, UpstreamStep, MergeStep
  <2>14. open /\ c.p \in {"bottom", "cancelAll"}
    <3>1. CASE CancelAfterError
      <4>1. c.p = "cancelAll"
        BY <2>2, <3>1, PlaceOf DEF CancelAfterError
      <4> QED
        BY <2>2, <4>1 DEF Subscribing, Outer
    <3>2. CASE UserCancels
      <4>1. open /\ UserActive /\ ~IsTop("UserOnNext")
        BY <3>2, MergeAssumption DEF UserCancels, UserIsCareful
      <4> QED
        BY <2>2, <4>1, EmptyAt, PlaceOf DEF UserActive, IsTop
    <3> QED
      BY <2>13, <3>1, <3>2
  <2>15. /\ \E k \in Upstreams : subs[k] /\ ~Base!Alive(k)
         /\ lock
    <3>1. fault' = (~MergeAlive \/ \E g \in Upstreams : subs[g] /\ ~Base!Alive(g))
      BY <2>13 DEF CancelAfterError, UserCancels, Cancel
    <3>2. ASSUME ~lock, c.p = "bottom", NEW k \in Upstreams
          PROVE  ~Base!Alive(k)
      BY <2>1, <2>14, <3>2 DEF IInvAt, Upstream, Over
    <3>3. c.p = "bottom" => ~CancelAfterError
      BY <2>2, PlaceOf DEF CancelAfterError
    <3>4. c.p = "bottom" => MergeAlive
      BY <2>13, <3>3 DEF UserCancels
    <3>5. lock
      BY <2>2, <2>14, <3>2, <3>4 DEF MergeAlive, Control
    <3> QED
      BY <1>1, <3>1, <3>5 DEF MergeAlive
  <2>16. PICK k \in Upstreams : subs[k] /\ ~Base!Alive(k)
    BY <2>15
  <2>17. Base!IsEnd(nxt[k])
    <3>1. Over(c, k)
      BY <2>1 DEF IInvAt, Upstream
    <3>2. ~Sends(c, k) /\ ~Finishing(c, k)
      BY <2>14 DEF Sends, Finishing, Consuming, Refill
    <3> QED
      BY <2>16, <3>1, <3>2 DEF Over, Merged
  <2> QED
    BY <2>13, <2>16, <2>17 DEF FailsInCancel
<1>2. ASSUME IInv, IInv', [Next]_vars, fault', fault
      PROVE  UNCHANGED vars
  BY <1>2 DEF Next, Terminated
<1>3. IInv /\ IInv' /\ [Next]_vars => [fault' => FailsInCancel]_vars
  BY <1>1, <1>2
<1> QED
  BY <1>3, Invariance, PTL DEF FaultCause, Spec

\* Whenever the condition of the loop of MaybeDeliver holds, an upstream has an
\* element, or those that are merged all answer later and -1 was added to the counter
\* (lines 858 and 871-874): for this alone the loop spins.
THEOREM TheLoopFindsOne ==
  ASSUME UserIsCareful
  PROVE  Spec => []LoopConditionTruthful
<1>1. ASSUME IInv, IsTop("Deliver"), LoopCondition, ~\E k \in Upstreams : HasNext(k)
      PROVE  OnlyLateOnes
  <2>1. PICK c \in Contexts : IInvAt(c)
    BY <1>1 DEF IInv
  <2>2. c.p = "deliver"
    BY <1>1, <2>1, PlaceOf DEF IInvAt
  <2>3. open
    BY <1>1, <2>1 DEF IInvAt, Subscribing, LoopCondition, HasRequests
  <2>4. PICK k \in Upstreams : subs[k]
    BY <2>1, <2>2, <2>3 DEF IInvAt, Control
  <2>5. \A j \in Upstreams : subs[j] => j \in Deferred
    BY <1>1, <2>1, <2>2, <2>3, MergedIsThere DEF HasNext
  <2>6. available = KMax
    BY <1>1, <2>1, <2>2, <2>3 DEF IInvAt, Control, LoopCondition, HasNext
  <2> QED
    BY <2>4, <2>5, <2>6 DEF OnlyLateOnes
<1>2. IInv => LoopConditionTruthful
  BY <1>1 DEF LoopConditionTruthful
<1> QED
  BY <1>2, Invariance, PTL

\* Round robin: if no upstream answers later then none that is merged gets ahead of
\* another one by more than one value (line 877).
THEOREM TheyTakeTurns ==
  ASSUME UserIsCareful, Deferred = {}
  PROVE  Spec => []RoundRobin
<1>1. ASSUME IInv, NEW i \in Upstreams, NEW j \in Upstreams, subs[i], subs[j]
      PROVE  taken[i] <= taken[j] + 1
  <2>1. PICK c \in Contexts : IInvAt(c)
    BY <1>1 DEF IInv
  <2>2. PICK n \in Nat : InRound(c, n, i) /\ InRound(c, n, j)
    BY <1>1, <2>1 DEF IInvAt, Rounds
  <2>3. /\ taken[i] \in Nat /\ taken[j] \in Nat /\ current \in Nat /\ i \in Nat /\ j \in Nat
        /\ N \in Nat /\ i <= N /\ j <= N /\ 1 <= i /\ 1 <= j
    BY <2>1, Words DEF IInvAt, Types, Upstreams
  <2>4. /\ taken[i] + One(Consuming(c, i)) = n + One(i < current)
        /\ taken[j] + One(Consuming(c, j)) = n + One(j < current)
    BY <1>1, <2>2 DEF InRound
  <2>5. CASE ~Consuming(c, i) /\ ~Consuming(c, j)
    BY <2>2, <2>3, <2>4, <2>5 DEF One
  <2>6. CASE Consuming(c, i) \/ Consuming(c, j)
    <3>1. current = IF c.h = N THEN 1 ELSE c.h + 1
      BY <2>1, <2>6 DEF IInvAt, Control, Consuming
    <3>2. c.h \in {i, j}
      BY <2>6 DEF Consuming
    <3>3. (Consuming(c, i) <=> i = c.h) /\ (Consuming(c, j) <=> j = c.h)
      BY <2>6 DEF Consuming
    <3> QED
      BY <2>2, <2>3, <2>4, <3>1, <3>2, <3>3 DEF One
  <2> QED
    BY <2>5, <2>6
<1>2. IInv => RoundRobin
  BY <1>1 DEF RoundRobin
<1> QED
  BY <1>2, Invariance, PTL

\* The places of call x in the stack s.
Positions(s, x) == {i \in DOMAIN s : s[i] = x}
Nowhere(s, x)   == Positions(s, x) = {}
Somewhere(s, x) == \E i \in DOMAIN s : Positions(s, x) = {i}

\* What a call does to the places of another one.
LEMMA CallPositions ==
  ASSUME NEW s \in Seq(Frames), NEW op \in AllOps, NEW g \in 0 .. N + 1,
         NEW ev \in Base!Events \cup {"none"}, NEW x \in Frames
  PROVE  /\ Call(op, g, ev, s) \in Seq(Frames)
         /\ op # x.op /\ Nowhere(s, x) => Nowhere(Call(op, g, ev, s), x)
         /\ op # x.op /\ Somewhere(s, x) => Somewhere(Call(op, g, ev, s), x)
         /\ ~(g = x.gen /\ ev = x.ev) /\ Nowhere(s, x) => Nowhere(Call(op, g, ev, s), x)
         /\ op = x.op /\ g = x.gen /\ ev = x.ev /\ Nowhere(s, x) =>
              Somewhere(Call(op, g, ev, s), x)
<1> DEFINE f == Base!Frame(op, g, ev)
<1>1. f \in Frames /\ f.op = op /\ f.gen = g /\ f.ev = ev
  BY DEF Base!Frame, Frames
<1>2. (f = x) <=> op = x.op /\ g = x.gen /\ ev = x.ev
  BY DEF Base!Frame, Frames
<1>3. Call(op, g, ev, s) = <<f>> \o s
  BY DEF Call, Base!Push
<1> HIDE DEF f
<1>4. /\ <<f>> \o s \in Seq(Frames)
      /\ DOMAIN s = 1 .. Len(s) /\ Len(s) \in Nat
      /\ DOMAIN (<<f>> \o s) = 1 .. Len(s) + 1
      /\ (<<f>> \o s)[1] = f
      /\ \A i \in 1 .. Len(s) + 1 : i # 1 => (<<f>> \o s)[i] = s[i - 1] /\ i - 1 \in DOMAIN s
  BY <1>1
<1> DEFINE t == <<f>> \o s
<1>5. /\ DOMAIN t = 1 .. Len(s) + 1
      /\ t[1] = f
      /\ \A i \in 1 .. Len(s) + 1 : i # 1 => t[i] = s[i - 1] /\ i - 1 \in DOMAIN s
  BY <1>4
<1> HIDE DEF t
<1>6. ASSUME f # x, Nowhere(s, x) PROVE Nowhere(t, x)
  BY <1>4, <1>5, <1>6 DEF Nowhere, Positions
<1>7. ASSUME f = x, Nowhere(s, x) PROVE Somewhere(t, x)
  <2>1. 1 \in DOMAIN t
    BY <1>4, <1>5
  <2>2. \A i \in DOMAIN t : i # 1 => t[i] # x
    BY <1>4, <1>5, <1>7 DEF Nowhere, Positions
  <2>3. Positions(t, x) = {1}
    BY <1>5, <1>7, <2>1, <2>2 DEF Positions
  <2> QED
    BY <2>1, <2>3 DEF Somewhere
<1>8. ASSUME f # x, Somewhere(s, x) PROVE Somewhere(t, x)
  <2>1. PICK i \in DOMAIN s : Positions(s, x) = {i}
    BY <1>8 DEF Somewhere
  <2>2. i \in Nat /\ i + 1 \in DOMAIN t /\ t[i + 1] = s[i]
    BY <1>4, <1>5
  <2>3. \A j \in DOMAIN s : s[j] = x <=> j = i
    BY <2>1 DEF Positions
  <2>4. \A j \in DOMAIN t : t[j] = x <=> j = i + 1
    <3>1. ASSUME NEW j \in DOMAIN t, j # 1 PROVE t[j] = x <=> j = i + 1
      <4>1. j \in Nat /\ t[j] = s[j - 1] /\ j - 1 \in DOMAIN s
        BY <1>4, <1>5, <3>1
      <4>2. t[j] = x <=> j - 1 = i
        BY <2>3, <4>1
      <4> QED
        BY <2>2, <4>1, <4>2
    <3>2. t[1] # x /\ 1 # i + 1
      BY <1>4, <1>5, <1>8, <2>2
    <3> QED
      BY <3>1, <3>2
  <2> QED
    BY <2>2, <2>4 DEF Somewhere, Positions
<1> QED
  BY <1>2, <1>3, <1>4, <1>6, <1>7, <1>8 DEF t

\* How many values of an upstream are on their way: one if its OnNext executes with
\* a value, and one if it was consumed and not delivered yet.
LEMMA CountIs ==
  ASSUME NEW c \in Contexts, Form(c), NEW k \in Upstreams
  PROVE  /\ Count("OnNext", k, "value") = One(SendsEvent(c, k, "value"))
         /\ Count("Consumed", k, "value") = One(Taking(c, k))
<1>1. PICK x \in Frames, y \in Frames :
        /\ x = Base!Frame("OnNext", k, "value") /\ y = Base!Frame("Consumed", k, "value")
        /\ x.op = "OnNext" /\ x.gen = k /\ x.ev = "value"
        /\ y.op = "Consumed" /\ y.gen = k /\ y.ev = "value"
  <2>1. k \in 0 .. N + 1 /\ "value" \in Base!Events \cup {"none"}
    BY Words
  <2>2. "OnNext" \in AllOps /\ "Consumed" \in AllOps
    BY Words
  <2>3. ASSUME NEW op \in AllOps
        PROVE  LET z == Base!Frame(op, k, "value")
               IN z \in Frames /\ z.op = op /\ z.gen = k /\ z.ev = "value"
    BY <2>1 DEF Frames, Base!Frame
  <2> QED
    BY <2>2, <2>3
<1>2. /\ c.g \in 0 .. N + 1 /\ c.h \in 0 .. N + 1
      /\ c.e \in Base!Events /\ c.v \in Base!Events /\ c.f \in Base!Events
  BY Words DEF Contexts
<1> DEFINE Free(s) == s \in Seq(Frames) /\ Nowhere(s, x) /\ Nowhere(s, y)
           Mine    == c.h = k /\ c.v = "value"
           Held(s) == /\ s \in Seq(Frames) /\ Nowhere(s, x)
                      /\ Mine => Somewhere(s, y)
                      /\ ~Mine => Nowhere(s, y)
<1>3. ASSUME NEW s, NEW op \in AllOps \ {"OnNext", "Consumed"}, NEW g \in 0 .. N + 1,
             NEW ev \in Base!Events \cup {"none"}
      PROVE  /\ Free(s) => Free(Call(op, g, ev, s))
             /\ Held(s) => Held(Call(op, g, ev, s))
  BY <1>1, <1>3, CallPositions
<1>4. Free(<<>>)
  BY DEF Nowhere, Positions
<1>5. Free(Below(c)) => Held(Asking(c))
  BY <1>1, <1>2, CallPositions, Words DEF Asking
<1>6. ASSUME NEW s, Free(s) PROVE s \in Seq(Frames) /\ Nowhere(s, x) /\ Nowhere(s, y)
  BY <1>6
<1>7. ASSUME NEW s, Held(s)
      PROVE  /\ s \in Seq(Frames) /\ Nowhere(s, x)
             /\ Mine => Somewhere(s, y)
             /\ ~Mine => Nowhere(s, y)
  BY <1>7
<1> HIDE DEF Free, Held
<1>8. Free(c.b)
  <2>1. Free(Telling)
    BY <1>3, <1>4, Words DEF Telling
  <2>2. \A n \in 1 .. N + 1 : Free(Creating(n))
    BY <1>3, <1>4, Words DEF Creating
  <2> QED
    BY <1>4, <2>1, <2>2 DEF Contexts, Bottoms
<1>9. Free(Below(c))
  BY <1>2, <1>3, <1>8, Words DEF Below
<1>10. /\ Free(Call("After", c.g, c.e, c.b)) /\ Held(Asking(c))
       /\ Held(Call("After", c.h, c.f, Asking(c)))
  BY <1>2, <1>3, <1>8, <1>9, <1>5, Words
<1>11. /\ Free(Call("Deliver", 0, "none", Below(c)))
       /\ Free(Call("CancelAll", 0, "none", Below(c)))
       /\ Free(Call("Finish", 0, "none", Below(c)))
  BY <1>3, <1>9, Words
<1>12. /\ c.p \in {"consumed", "refill", "refillAfter"} => Held(stack)
       /\ c.p \in {"bottom", "calling", "loop", "after", "deliver", "value", "error", "done",
                   "cancelAll", "finish"} => Free(stack)
  <2>1. c.p \in {"consumed", "refillAfter"} => Held(stack)
    BY <1>10 DEF Form
  <2>2. c.p = "refill" => Held(stack)
    <3>1. Held(Call("Loop", c.h, "none", Asking(c)))
      BY <1>2, <1>3, <1>10, Words
    <3> QED
      BY <3>1 DEF Form
  <2>3. c.p \in {"bottom", "after"} => Free(stack)
    BY <1>8, <1>10 DEF Form
  <2>4. c.p \in {"calling", "loop"} => Free(stack)
    <3>1. Free(Call("OnSubscribe", c.g, "none", c.b)) /\ Free(Call("Loop", c.g, "none", c.b))
      BY <1>2, <1>3, <1>8, Words
    <3> QED
      BY <3>1 DEF Form
  <2>5. c.p \in {"deliver", "cancelAll", "finish"} => Free(stack)
    BY <1>11 DEF Form
  <2>6. c.p \in {"value", "error", "done"} => Free(stack)
    <3>1. /\ Free(Call("UserOnNext", c.h, c.v, Call("Deliver", 0, "none", Below(c))))
          /\ Free(Call("UserOnNext", c.h, c.v, Call("CancelAll", 0, "none", Below(c))))
          /\ Free(Call("UserOnNext", c.h, c.v, Call("Finish", 0, "none", Below(c))))
      BY <1>2, <1>3, <1>11, Words
    <3> QED
      BY <3>1 DEF Form
  <2> QED
    BY <2>1, <2>2, <2>3, <2>4, <2>5, <2>6
<1>13. ASSUME c.p = "next"
       PROVE  /\ c.g = k /\ c.e = "value" => Somewhere(stack, x)
              /\ ~(c.g = k /\ c.e = "value") => Nowhere(stack, x)
              /\ Nowhere(stack, y)
  <2>1. PICK s \in Seq(Frames) : /\ s = Call("After", c.g, c.e, c.b)
                                /\ stack = Call("OnNext", c.g, c.e, s)
                                /\ Free(s)
    BY <1>10, <1>6, <1>7, <1>13 DEF Form
  <2>2. Nowhere(s, x) /\ Nowhere(s, y)
    BY <2>1, <1>6, <1>7
  <2>3. "OnNext" \in AllOps /\ c.e \in Base!Events \cup {"none"}
    BY <1>2, Words
  <2> QED
    BY <1>1, <1>2, <2>1, <2>2, <2>3, CallPositions
<1>14. ASSUME c.p = "refillNext"
       PROVE  /\ c.h = k /\ c.f = "value" => Somewhere(stack, x)
              /\ ~(c.h = k /\ c.f = "value") => Nowhere(stack, x)
              /\ Mine => Somewhere(stack, y)
              /\ ~Mine => Nowhere(stack, y)
  <2>1. PICK s \in Seq(Frames) : /\ s = Call("After", c.h, c.f, Asking(c))
                                /\ stack = Call("OnNext", c.h, c.f, s)
                                /\ Held(s)
    BY <1>10, <1>6, <1>7, <1>14 DEF Form
  <2>2. Nowhere(s, x) /\ (Mine => Somewhere(s, y)) /\ (~Mine => Nowhere(s, y))
    BY <2>1, <1>6, <1>7
  <2>3. "OnNext" \in AllOps /\ c.f \in Base!Events \cup {"none"}
    BY <1>2, Words
  <2> QED
    BY <1>1, <1>2, <2>1, <2>2, <2>3, CallPositions
<1>15. /\ SendsEvent(c, k, "value") => Somewhere(stack, x)
       /\ ~SendsEvent(c, k, "value") => Nowhere(stack, x)
  BY <1>12, <1>13, <1>14, <1>6, <1>7 DEF SendsEvent, Contexts, Places, Outer, Inner, Refill
<1>16. /\ Taking(c, k) => Somewhere(stack, y)
       /\ ~Taking(c, k) => Nowhere(stack, y)
  BY <1>12, <1>13, <1>14, <1>6, <1>7
     DEF Taking, Consuming, Contexts, Places, Outer, Inner, Refill
<1>17. ASSUME NEW z
       PROVE  /\ Somewhere(stack, z) => Cardinality(Positions(stack, z)) = 1
              /\ Nowhere(stack, z) => Cardinality(Positions(stack, z)) = 0
  BY FS_Singleton, FS_EmptySet DEF Somewhere, Nowhere
<1>18. /\ Count("OnNext", k, "value") = Cardinality(Positions(stack, x))
       /\ Count("Consumed", k, "value") = Cardinality(Positions(stack, y))
  BY <1>1 DEF Count, Positions
<1> QED
  BY <1>15, <1>16, <1>17, <1>18 DEF One

\* Every value of an upstream that is merged was delivered, or is in next_ or on its
\* way, once; when the end is delivered all values of all upstreams were.
THEOREM EveryValueOnce ==
  ASSUME UserIsCareful
  PROVE  Spec => []ValuesConserved
<1>1. ASSUME IInv, NEW k \in Upstreams, subs[k]
      PROVE  yielded[k] = taken[k] + Count("OnNext", k, "value")
                          + Count("Consumed", k, "value")
                          + (IF nxt[k] = "value" THEN 1 ELSE 0)
  <2>1. PICK c \in Contexts : IInvAt(c)
    BY <1>1 DEF IInv
  <2>2. Form(c) /\ Conserved(c, k) /\ Merged(c, k)
    BY <1>1, <2>1 DEF IInvAt, Upstream, Merged
  <2> QED
    BY <2>2, CountIs DEF Conserved, One
<1>2. ASSUME IInv, IsTop("UserOnNext"), Top.ev = "done", NEW k \in Upstreams
      PROVE  taken[k] = yielded[k]
  <2>1. PICK c \in Contexts : IInvAt(c)
    BY <1>2 DEF IInv
  <2>2. Form(c) /\ Control(c) /\ Subscribing(c) /\ Conserved(c, k)
    BY <2>1 DEF IInvAt, Upstream
  <2>3. c.p \in {"value", "error", "done"}
    BY <1>2, <2>2, PlaceOf
  <2>4. c.v = "done"
    BY <1>2, <2>2, <2>3, TopAt DEF Calls, Top
  <2>5. c.p = "done"
    BY <2>2, <2>3, <2>4 DEF Control
  <2>6. lock /\ open /\ ~subs[k]
    BY <2>2, <2>5 DEF Control, Subscribing, Outer
  <2> QED
    BY <2>2, <2>6 DEF Conserved
<1>3. IInv => ValuesConserved
  BY <1>1, <1>2 DEF ValuesConserved
<1> QED
  BY <1>3, Invariance, PTL

-----------------------------------------------------------------------------
(* What the final subscriber sees is a stream as any other.                  *)

\* The variables of the contract, as MergeStream gives them.
Status == [s \in {"merged"} |-> CASE ~open                        -> "new"
                                  [] open /\ ~MergeAlive          -> "gone"
                                  [] open /\ MergeAlive /\ ended  -> "ending"
                                  [] OTHER                        -> "open"]
Credit == [s \in {"merged"} |-> IF ended THEN RemoveFrom(balance, 1) ELSE balance]
Events == [s \in {"merged"} |-> got]

\* The status and the credit of the one stream.
StatusNow == IF ~open THEN "new"
             ELSE IF ~MergeAlive THEN "gone"
             ELSE IF ended THEN "ending" ELSE "open"
CreditNow == IF ended THEN RemoveFrom(balance, 1) ELSE balance

\* Before and after a step.
LEMMA StatusIs ==
  /\ Status = [s \in {"merged"} |-> StatusNow] /\ Status' = [s \in {"merged"} |-> StatusNow']
  /\ Credit = [s \in {"merged"} |-> CreditNow] /\ Credit' = [s \in {"merged"} |-> CreditNow']
  /\ Events = [s \in {"merged"} |-> got] /\ Events' = [s \in {"merged"} |-> got']
<1>1. Status = [s \in {"merged"} |-> StatusNow]
  BY DEF Status, StatusNow
<1>2. Status' = [s \in {"merged"} |-> StatusNow']
  BY DEF Status, StatusNow
<1> QED
  BY <1>1, <1>2 DEF Credit, CreditNow, Events

\* Initial states and steps of the contract in these terms.
LEMMA Seen ==
  /\ Contract!Init <=> /\ Status = [s \in {"merged"} |-> "new"]
                       /\ Credit = [s \in {"merged"} |-> 0]
                       /\ Events = [s \in {"merged"} |-> 0]
  /\ (UNCHANGED Contract!vars) <=> UNCHANGED <<Status, Credit, Events>>
  /\ Contract!Subscribe("merged") <=>
       /\ Status["merged"] = "new"
       /\ Status' = [Status EXCEPT !["merged"] = "open"]
       /\ UNCHANGED <<Credit, Events>>
  /\ Contract!Request("merged") <=>
       /\ Status["merged"] \in {"open", "ending", "cancelled"}
       /\ \E n \in Balance : Credit' = [Credit EXCEPT !["merged"] = AddTo(Credit["merged"], n)]
       /\ UNCHANGED <<Status, Events>>
  /\ Contract!Deliver("merged") <=>
       /\ Status["merged"] = "open"
       /\ HasRequests(Credit["merged"])
       /\ Credit' = [Credit EXCEPT !["merged"] = RemoveFrom(Credit["merged"], 1)]
       /\ Events' = [Events EXCEPT !["merged"] = Events["merged"] + 1]
       /\ \E next \in {"open", "ending"} : Status' = [Status EXCEPT !["merged"] = next]
  /\ Contract!Destroy("merged") <=>
       /\ Status["merged"] \in {"open", "ending", "cancelled"}
       /\ Status' = [Status EXCEPT !["merged"] = "gone"]
       /\ UNCHANGED <<Credit, Events>>
<1>1. Contract!Init <=> /\ Status = [s \in {"merged"} |-> "new"]
                       /\ Credit = [s \in {"merged"} |-> 0]
                       /\ Events = [s \in {"merged"} |-> 0]
  BY DEF Contract!Init, Status, Credit, Events
<1>2. (UNCHANGED Contract!vars) <=> UNCHANGED <<Status, Credit, Events>>
  BY DEF Contract!vars, Status, Credit, Events
<1>3. Contract!Subscribe("merged") <=>
       /\ Status["merged"] = "new"
       /\ Status' = [Status EXCEPT !["merged"] = "open"]
       /\ UNCHANGED <<Credit, Events>>
  BY DEF Contract!Subscribe, Status, Credit, Events
<1>4. Contract!Request("merged") <=>
       /\ Status["merged"] \in {"open", "ending", "cancelled"}
       /\ \E n \in Balance : Credit' = [Credit EXCEPT !["merged"] = AddTo(Credit["merged"], n)]
       /\ UNCHANGED <<Status, Events>>
  BY DEF Contract!Request, Contract!Balance, Contract!AddTo, Balance, AddTo, Status, Credit, Events
<1>5. Contract!Deliver("merged") <=>
       /\ Status["merged"] = "open"
       /\ HasRequests(Credit["merged"])
       /\ Credit' = [Credit EXCEPT !["merged"] = RemoveFrom(Credit["merged"], 1)]
       /\ Events' = [Events EXCEPT !["merged"] = Events["merged"] + 1]
       /\ \E next \in {"open", "ending"} : Status' = [Status EXCEPT !["merged"] = next]
  BY DEF Contract!Deliver, Contract!HasRequests, Contract!RemoveFrom, HasRequests, RemoveFrom,
         Status, Credit, Events
<1>6. Contract!Destroy("merged") <=>
       /\ Status["merged"] \in {"open", "ending", "cancelled"}
       /\ Status' = [Status EXCEPT !["merged"] = "gone"]
       /\ UNCHANGED <<Credit, Events>>
  BY DEF Contract!Destroy, Status, Credit, Events
<1> QED
  BY <1>1, <1>2, <1>3, <1>4, <1>5, <1>6

\* A step of which the subscriber sees at most that the stream goes away.
LEMMA Unseen ==
  ASSUME UNCHANGED <<open, balance, ended, got>>, open /\ MergeAlive' => MergeAlive
  PROVE  [Contract!Next]_(Contract!vars)
<1>1. Credit' = Credit /\ Events' = Events
  BY StatusIs DEF CreditNow
<1>2. CASE StatusNow' = StatusNow
  BY <1>1, <1>2, StatusIs, Seen
<1>3. CASE StatusNow' # StatusNow
  <2>1. StatusNow \in {"open", "ending"} /\ StatusNow' = "gone"
    BY <1>3 DEF StatusNow
  <2>2. Contract!Destroy("merged")
    BY <1>1, <2>1, StatusIs, Seen
  <2> QED
    BY <2>2 DEF Contract!Next
<1> QED
  BY <1>2, <1>3

\* OnNext, with a value or with the status that ends the stream.
LEMMA Delivered ==
  ASSUME open, open' = open, MergeAlive, MergeAlive', ended = FALSE, HasRequests(balance),
         got' = got + 1,
         \/ ended' = FALSE /\ balance' = RemoveFrom(balance, 1)
         \/ ended' = TRUE /\ balance' = balance
  PROVE  [Contract!Next]_(Contract!vars)
<1>1. StatusNow = "open" /\ StatusNow' \in {"open", "ending"}
  BY DEF StatusNow
<1>2. CreditNow = balance /\ CreditNow' = RemoveFrom(balance, 1)
  BY DEF CreditNow
<1>3. Contract!Deliver("merged")
  BY <1>1, <1>2, StatusIs, Seen
<1> QED
  BY <1>3 DEF Contract!Next

\* Requests of a stream whose end was paid for already.
LEMMA Paid ==
  ASSUME NEW b \in Balance, HasRequests(b), NEW n \in Balance
  PROVE  \E m \in Balance : RemoveFrom(AddTo(b, n), 1) = AddTo(RemoveFrom(b, 1), m)
<1>1. CASE KMax - b < n
  <2>1. KMax \in Balance /\ KMax - RemoveFrom(b, 1) <= KMax
    BY KMaxAssumption DEF Balance, RemoveFrom, HasRequests
  <2>2. RemoveFrom(AddTo(b, n), 1) = KMax
    BY <1>1 DEF AddTo, RemoveFrom
  <2>3. AddTo(RemoveFrom(b, 1), KMax) = KMax
    BY KMaxAssumption DEF Balance, AddTo, RemoveFrom, HasRequests
  <2> QED
    BY <2>1, <2>2, <2>3
<1>2. CASE ~(KMax - b < n) /\ b + n = KMax
  <2>1. RemoveFrom(AddTo(b, n), 1) = KMax
    BY <1>2 DEF AddTo, RemoveFrom
  <2>2. KMax \in Balance /\ AddTo(RemoveFrom(b, 1), KMax) = KMax
    BY KMaxAssumption DEF Balance, AddTo, RemoveFrom, HasRequests
  <2> QED
    BY <2>1, <2>2
<1>3. CASE ~(KMax - b < n) /\ b + n # KMax
  <2>1. b + n < KMax /\ b # KMax /\ b \in Nat /\ n \in Nat /\ KMax \in Nat
    BY <1>3, KMaxAssumption DEF Balance
  <2>2. RemoveFrom(AddTo(b, n), 1) = b + n - 1
    BY <1>3, <2>1 DEF AddTo, RemoveFrom
  <2>3. AddTo(RemoveFrom(b, 1), n) = b - 1 + n
    BY <2>1 DEF AddTo, RemoveFrom
  <2> QED
    BY <2>1, <2>2, <2>3
<1> QED
  BY <1>1, <1>2, <1>3

\* Each step of Merge is a step of a stream, or none.
LEMMA ContractStep ==
  ASSUME IInv, [Next]_vars
  PROVE  [Contract!Next]_(Contract!vars)
<1>1. PICK c \in Contexts : IInvAt(c)
  BY DEF IInv
<1>2. Types /\ Subscribing(c) /\ Control(c) /\ Form(c)
  BY <1>1 DEF IInvAt
<1>3. CASE UNCHANGED vars
  BY <1>3, Unseen DEF vars, baseVars, mergeVars, userVars, MergeAlive, Base!Alive
<1>4. CASE Terminated
  BY <1>3, <1>4 DEF Terminated
<1>5. ASSUME Subscribe \/ CreateUpstream
      PROVE  [Contract!Next]_(Contract!vars)
  <2>1. ~open
    <3>1. CASE Subscribe
      BY <3>1 DEF Subscribe
    <3>2. CASE CreateUpstream
      BY <1>2, <3>2, PlaceOf DEF CreateUpstream, Subscribing
    <3> QED
      BY <1>5, <3>1, <3>2
  <2> QED
    BY <1>5, <2>1, Unseen DEF Subscribe, CreateUpstream, mergeVars, userVars
<1>6. ASSUME UserReturns \/ UpOnSubscribe \/ UpOnNext \/ Deliver \/ \E g \in Deferred : DeferredRequest(g)
      PROVE  [Contract!Next]_(Contract!vars)
  <2>1. UNCHANGED <<phase, lock, open, balance, ended, got>>
    BY <1>6
       DEF UserReturns, UpOnSubscribe, UpOnNext, Deliver, DeliverEnds, DeliverSkips,
           DeliverConsumes, DeferredRequest, RequestNext, Base!Request, baseVars, mergeVars,
           userVars
  <2> QED
    BY <2>1, Unseen DEF MergeAlive, Base!Alive
<1>7. CASE UpstreamStep
  <2>1. UNCHANGED <<lock, open, balance, ended, got>>
    BY <1>7 DEF UpstreamStep, mergeVars, userVars
  <2>2. \A k \in Upstreams : Base!Alive(k)' => Base!Alive(k)
    BY <1>2, <1>7
       DEF UpstreamStep, Base!Generate, Base!Produce, Base!Pause, Base!AfterOnNext,
           Base!Alive,
           Types
  <2> QED
    BY <2>1, <2>2, Unseen DEF MergeAlive
<1>8. ASSUME NEW rest, Cancel(rest)
      PROVE  [Contract!Next]_(Contract!vars)
  <2>1. \A k \in Upstreams : Base!Alive(k)' => Base!Alive(k)
    BY <1>8 DEF Cancel, Cancelled, Base!Alive
  <2>2. UNCHANGED <<open, balance, ended, got>> /\ lock' = FALSE
    BY <1>8 DEF Cancel, userVars
  <2> QED
    BY <2>1, <2>2, Unseen DEF MergeAlive
<1>9. CASE Finish
  BY <1>9, Unseen DEF Finish, MergeAlive, Base!Alive, baseVars, userVars
<1>10. CASE ConfirmSubscription
  <2>1. ~open /\ ~ended /\ lock /\ balance = 0
    BY <1>2, <1>10, PlaceOf DEF ConfirmSubscription, Subscribing
  <2>2. StatusNow = "new" /\ StatusNow' = "open" /\ UNCHANGED <<ended, balance, got>>
    BY <1>10, <2>1 DEF ConfirmSubscription, StatusNow, MergeAlive, userVars
  <2>3. Contract!Subscribe("merged")
    BY <2>2, StatusIs, Seen DEF CreditNow
  <2> QED
    BY <2>3 DEF Contract!Next
<1>11. CASE DeliversValue
  <2>1. ended' = FALSE /\ balance' = RemoveFrom(balance, 1) /\ got' = got + 1
        /\ UNCHANGED <<open, lock>>
    BY <1>1, <1>2, <1>11, AtConsumed, NoEnd DEF DeliversValue, SendDown, Types
  <2>2. open /\ lock /\ ended = FALSE /\ HasRequests(balance)
    BY <1>1, <1>2, <1>11, AtConsumed DEF DeliversValue, Types
  <2> QED
    BY <2>1, <2>2, Delivered DEF MergeAlive
<1>12. CASE UpstreamEnds
  <2>1. open /\ lock /\ ended = FALSE /\ HasRequests(balance) /\ Base!IsEnd(Top.ev)
    BY <1>1, <1>2, <1>12, AtConsumed DEF UpstreamEnds, Types
  <2>2. UNCHANGED <<phase, open, lock, balance>>
    BY <1>12 DEF UpstreamEnds, baseVars
  <2>3. CASE UNCHANGED userVars
    BY <2>2, <2>3, Unseen DEF userVars, MergeAlive, Base!Alive
  <2>4. CASE ended' = TRUE /\ got' = got + 1
    BY <2>1, <2>2, <2>4, Delivered DEF MergeAlive
  <2> QED
    BY <1>12, <2>1, <2>3, <2>4 DEF UpstreamEnds, SendDown
<1>13. CASE UserRequests
  <2>1. PICK n \in Counts : balance' = AddTo(balance, n)
    BY <1>13 DEF UserRequests
  <2>2. n \in Balance /\ balance \in Balance
    BY <1>2, MergeAssumption DEF Types
  <2>3. /\ open /\ MergeAlive /\ UNCHANGED <<open, lock, phase, ended, got>>
    BY <1>13 DEF UserRequests, baseVars
  <2>4. StatusNow' = StatusNow /\ StatusNow \in {"open", "ending"}
    BY <2>3 DEF StatusNow, MergeAlive, Base!Alive
  <2>5. \E m \in Balance : CreditNow' = AddTo(CreditNow, m)
    <3>1. CASE ended
      BY <1>2, <2>1, <2>2, <2>3, <3>1, Paid DEF Control, CreditNow
    <3>2. CASE ~ended
      BY <2>1, <2>2, <2>3, <3>2 DEF CreditNow
    <3> QED
      BY <3>1, <3>2
  <2>6. Contract!Request("merged")
    BY <2>3, <2>4, <2>5, StatusIs, Seen
  <2> QED
    BY <2>6 DEF Contract!Next
<1>14. CancelAfterError \/ UserCancels => [Contract!Next]_(Contract!vars)
  BY <1>8 DEF CancelAfterError, UserCancels
<1> QED
  BY <1>3, <1>4, <1>5, <1>6, <1>7, <1>9, <1>10, <1>11, <1>12, <1>13, <1>14 DEF Next, MergeStep

\* What the subscriber of Merge sees is a stream as any other: OnSubscribe first and
\* once, no event that was not requested, one end and nothing behind it, and nothing
\* when the stream is gone. The safety part of KeepsContract.
THEOREM MergeIsAStream ==
  ASSUME UserIsCareful
  PROVE  Spec => Contract!SafeSpec
<1>1. Init => Contract!Init
  <2> SUFFICES ASSUME Init PROVE Contract!Init
    OBVIOUS
  <2>1. open = FALSE /\ ended = FALSE /\ balance = 0 /\ got = 0
    BY DEF Init
  <2>2. StatusNow = "new" /\ CreditNow = 0
    BY <2>1 DEF StatusNow, CreditNow
  <2> QED
    BY <2>1, <2>2, StatusIs, Seen
<1>2. IInv /\ [Next]_vars => [Contract!Next]_(Contract!vars)
  BY ContractStep
<1> QED
  BY <1>1, <1>2, Invariance, PTL DEF Spec, Contract!SafeSpec

=============================================================================
