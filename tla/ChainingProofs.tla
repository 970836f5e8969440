---------------------------- MODULE ChainingProofs ----------------------------
(***************************************************************************)
(* Proofs about ChainingStream, for Map with a function that may fail, Buffer *)
(* of any size, any numbers of elements and requests, and a subscriber that   *)
(* requests and cancels from wherever it may: no event too many but for the   *)
(* end behind a flush, nothing behind the end of the base, every element of   *)
(* the base delivered once, and no use of a deleted stream but by Buffer,     *)
(* when it was cancelled within OnNext.                                       *)
(***************************************************************************)
EXTENDS ChainingStream, FiniteSetTheorems, TLAPS

AllOps == Base!Ops \cup {"UserOnSubscribe", "UserOnNext", "Clear", "Last"}
\* What the user may receive.
Received == Base!Events \cup {"failed"}
Frames == [op : AllOps, gen : {Source}, ev : Received \cup {"none"}]

\* Where the thread is with respect to one event of the base.
Places == {"out", "subscribing", "loop", "next", "user", "clearing", "clear", "flushed",
           "last", "after"}

\* The stacks below: the user called from outside or from OnSubscribe.
Bottoms == {<<>>, Call("UserOnSubscribe", "none", <<>>)}

\* The stack at place p, when the base sent e, the subscriber was sent d, and b
\* is below.
Form(p, d, e, b) ==
  /\ p = "out"         => stack = b
  /\ p = "subscribing" => stack = Call("OnSubscribe", "none", <<>>)
  /\ p = "loop"        => stack = Call("Loop", "none", b)
  /\ p = "next"        => stack = Call("OnNext", e, Call("After", e, b))
  /\ p = "user"        => stack = Call("UserOnNext", d, Call("After", e, b))
  /\ p = "clearing"    => stack = Call("UserOnNext", "value",
                                       Call("Clear", "none", Call("After", e, b)))
  /\ p = "clear"       => stack = Call("Clear", "none", Call("After", e, b))
  /\ p = "flushed"     => stack = Call("UserOnNext", "value",
                                       Call("Last", e, Call("After", e, b)))
  /\ p = "last"        => stack = Call("Last", e, Call("After", e, b))
  /\ p = "after"       => stack = Call("After", e, b)

\* The user is in, or on its way back from, a method that was called for e.
Sent == {"user", "clearing", "clear", "flushed", "last", "after"}

-----------------------------------------------------------------------------
(* The inductive invariant.                                                  *)

Types == /\ operator \in Operators
         /\ phase \in [{Source} -> {"new", "alive", "deleted"}]
         /\ requested \in [{Source} -> Balance]
         /\ generating \in [{Source} -> BOOLEAN]
         /\ yielded \in [{Source} -> Nat]
         /\ granted \in [{Source} -> Nat]
         /\ delivered \in [{Source} -> Nat]
         /\ buffered \in Nat /\ got \in Nat /\ emitted \in Nat /\ failures \in Nat
         /\ ended \in BOOLEAN /\ cancelled \in BOOLEAN /\ fault \in BOOLEAN

\* generating_ says whether the loop is below; whose stream is deleted is not in
\* the loop, and it is not deleted within OnNext unless its user cancels there.
Control(p, d, e) ==
  /\ phase[Source] = "new" => p = "out" /\ ~generating[Source] /\ ~ended
  /\ p \in {"out", "subscribing"} => (Alive => ~generating[Source])
  /\ p \notin {"out", "subscribing"} => (Alive => generating[Source])
  /\ p \in {"subscribing", "loop", "next"} => Alive
  /\ p \in Sent => Alive \/ cancelled
  /\ p \in {"clearing", "clear", "flushed", "last"} => operator = "buffer"
  /\ p \in {"clearing", "clear"} => e = "value"
  /\ p \in {"flushed", "last"} => e = "done"
  /\ p = "user" => d = e \/ (e = "value" /\ d = "failed")
  /\ failures > 0 => operator = "map"
  /\ p = "user" /\ operator = "buffer" => Base!IsEnd(e)

\* Only Buffer uses its stream behind OnNext, and it is there but for a
\* cancellation.
Safe == fault => operator = "buffer" /\ cancelled

Passing(p, e) == IF p = "next" /\ e = "value" THEN 1 ELSE 0

\* Elements are delivered, in the buffer or on their way.
Conserved(p, d, e) ==
  /\ buffered < Size
  /\ operator = "map" => buffered = 0
  /\ p \in {"clearing", "clear", "flushed", "last"} => buffered = 0
  /\ p = "user" /\ d = "done" => buffered = 0
  /\ yielded[Source] = emitted + failures + buffered + Passing(p, e)

\* Nothing is on its way behind the end of the base.
Closed(p, d, e) ==
  ended => \/ p = "user" /\ Base!IsEnd(d)
           \/ p = "after" /\ Base!IsEnd(e)
           \/ p = "out" /\ phase[Source] = "deleted"

Coming(p) == IF p = "next" THEN 1 ELSE 0

\* Events of the base that may come, came and are in vectors: as many as were
\* requested, Size for each vector; but for Buffer not once the end was sent.
Counted(p, e) ==
  /\ ~Unlimited /\ operator = "map" => requested[Source] + got + Coming(p) <= granted[Source]
  /\ ~Unlimited /\ operator = "buffer" /\ phase[Source] # "deleted"
       /\ ~(p \in Sent /\ Base!IsEnd(e)) =>
       Size * got + buffered + Coming(p) + requested[Source] <= Size * granted[Source]
  /\ ~Unlimited /\ operator = "buffer" =>
       got <= granted[Source] \/ (ended /\ got = granted[Source] + 1)
  /\ ~Unlimited /\ p \in {"flushed", "last"} => got <= granted[Source]

IInvAt(p, d, e, b) == /\ Form(p, d, e, b)
                      /\ Types
                      /\ Control(p, d, e)
                      /\ Safe
                      /\ Conserved(p, d, e)
                      /\ Closed(p, d, e)
                      /\ Counted(p, e)

IInv == \E p \in Places, d \in Received, e \in Base!Events, b \in Bottoms :
          IInvAt(p, d, e, b)

-----------------------------------------------------------------------------
(* Call stacks.                                                              *)

\* A call from a stack, and its return.
LEMMA Called ==
  ASSUME NEW s \in Seq(Frames), NEW op \in AllOps, NEW ev \in Received \cup {"none"}
  PROVE  /\ Call(op, ev, s) \in Seq(Frames)
         /\ Call(op, ev, s) # <<>>
         /\ Head(Call(op, ev, s)).op = op
         /\ Head(Call(op, ev, s)).gen = Source
         /\ Head(Call(op, ev, s)).ev = ev
         /\ Tail(Call(op, ev, s)) = s
<1>1. Base!Frame(op, Source, ev) \in Frames
  BY DEF Base!Frame, Frames, Received
<1> DEFINE f == Base!Frame(op, Source, ev)
<1>2. f.op = op /\ f.gen = Source /\ f.ev = ev
  BY DEF Base!Frame
<1>3. Call(op, ev, s) = <<f>> \o s
  BY DEF Call, Base!Push
<1> HIDE DEF f
<1>4. /\ <<f>> \o s \in Seq(Frames) /\ <<f>> \o s # <<>>
      /\ Head(<<f>> \o s) = f /\ Tail(<<f>> \o s) = s
  BY <1>1 DEF f
<1> QED
  BY <1>2, <1>3, <1>4

\* Whether the innermost call of a stack s is op, of event e, and what is below.
Calls(s, op, e, rest) == /\ s # <<>>
                         /\ Head(s).op = op
                         /\ Head(s).gen = Source
                         /\ Head(s).ev = e
                         /\ Tail(s) = rest

\* The innermost call at every place.
LEMMA TopAt ==
  ASSUME NEW p \in Places, NEW d \in Received, NEW e \in Base!Events,
         NEW b \in Bottoms, Form(p, d, e, b)
  PROVE  /\ p = "out" => stack = b
         /\ p = "out" /\ stack # <<>> => Calls(stack, "UserOnSubscribe", "none", <<>>)
         /\ p = "subscribing" => Calls(stack, "OnSubscribe", "none", <<>>)
         /\ p = "loop" => Calls(stack, "Loop", "none", b)
         /\ p = "next" => Calls(stack, "OnNext", e, Call("After", e, b))
         /\ p = "user" => Calls(stack, "UserOnNext", d, Call("After", e, b))
         /\ p = "clearing" => Calls(stack, "UserOnNext", "value",
                                    Call("Clear", "none", Call("After", e, b)))
         /\ p = "clear" => Calls(stack, "Clear", "none", Call("After", e, b))
         /\ p = "flushed" => Calls(stack, "UserOnNext", "value",
                                   Call("Last", e, Call("After", e, b)))
         /\ p = "last" => Calls(stack, "Last", e, Call("After", e, b))
         /\ p = "after" => Calls(stack, "After", e, b)
<1>1. <<>> \in Seq(Frames)
  OBVIOUS
<1>2. /\ {"OnSubscribe", "OnNext", "Loop", "After", "UserOnSubscribe", "UserOnNext",
          "Clear", "Last"} \subseteq AllOps
      /\ "value" \in Received /\ e \in Received
  BY DEF AllOps, Base!Ops, Base!Events, Received
<1>3. ASSUME NEW s \in Seq(Frames), NEW op \in AllOps, NEW ev \in Received \cup {"none"}
      PROVE  Calls(Call(op, ev, s), op, ev, s) /\ Call(op, ev, s) \in Seq(Frames)
  BY <1>3, Called DEF Calls
<1>4. Calls(Call("UserOnSubscribe", "none", <<>>), "UserOnSubscribe", "none", <<>>)
  BY <1>1, <1>2, <1>3
<1>5. b \in Seq(Frames)
  BY <1>1, <1>2, <1>3 DEF Bottoms
<1>6. Call("After", e, b) \in Seq(Frames)
  BY <1>2, <1>3, <1>5
<1>7. /\ Call("Clear", "none", Call("After", e, b)) \in Seq(Frames)
      /\ Call("Last", e, Call("After", e, b)) \in Seq(Frames)
  BY <1>2, <1>3, <1>6
<1>8. CASE p = "out"
  <2>1. stack = b
    BY <1>8 DEF Form
  <2>2. stack # <<>> => stack = Call("UserOnSubscribe", "none", <<>>)
    BY <2>1 DEF Bottoms
  <2> QED
    BY <1>4, <1>8, <2>1, <2>2
<1>9. CASE p # "out"
  BY <1>1, <1>2, <1>3, <1>5, <1>6, <1>7, <1>9, Zenon DEF Form
<1> QED
  BY <1>8, <1>9

\* The innermost call tells the place.
LEMMA PlaceOf ==
  ASSUME NEW p \in Places, NEW d \in Received, NEW e \in Base!Events,
         NEW b \in Bottoms, Form(p, d, e, b)
  PROVE  /\ IsTop("OnSubscribe") => p = "subscribing"
         /\ IsTop("Loop") => p = "loop"
         /\ IsTop("OnNext") => p = "next"
         /\ IsTop("Clear") => p = "clear"
         /\ IsTop("Last") => p = "last"
         /\ IsTop("After") => p = "after"
         /\ IsTop("UserOnSubscribe") => p = "out"
         /\ IsTop("UserOnNext") => p \in {"user", "clearing", "flushed"}
         /\ stack = <<>> => p = "out"
         /\ UserActive => p \in {"out", "user", "clearing", "flushed"}
  BY TopAt, SMTT(60) DEF Places, IsTop, Top, Calls, UserActive

-----------------------------------------------------------------------------
(* Numbers.                                                                  *)

\* Events are not more than requested if their vectors are not.
LEMMA Vectors ==
  ASSUME NEW x \in Nat, NEW y \in Nat
  PROVE  /\ Size * x \in Nat /\ Size * y \in Nat
         /\ Size * (x + y) = Size * x + Size * y
         /\ Size * (x + 1) = Size * x + Size
         /\ Size * x <= Size * y => x <= y
         /\ Size * x < Size * y => x + 1 <= y
<1>1. Size \in Nat /\ Size >= 1
  BY ChainingAssumption
<1>2. Size * x \in Nat /\ Size * y \in Nat
  BY <1>1
<1>3. Size * (x + y) = Size * x + Size * y /\ Size * (x + 1) = Size * x + Size
  BY <1>1
<1>4. Size * (x - y) = Size * x - Size * y
  BY <1>1
<1>5. ASSUME x > y PROVE Size * (x - y) > 0
  BY <1>1, <1>5
<1>6. ASSUME x >= y PROVE Size * (x - y) >= 0
  BY <1>1, <1>6
<1>7. x + 1 <= y \/ x >= y
  OBVIOUS
<1>8. Size * x <= Size * y => x <= y
  BY <1>2, <1>4, <1>5
<1>9. Size * x < Size * y => x + 1 <= y
  BY <1>2, <1>4, <1>6, <1>7
<1> QED
  BY <1>2, <1>3, <1>8, <1>9

\* A request goes up at most Size-fold, although the product may wrap around.
LEMMA Mapping ==
  ASSUME NEW n \in Balance, operator \in Operators
  PROVE  /\ n \in Nat
         /\ RequestMapping(n) \in Balance
         /\ operator = "map" => RequestMapping(n) = n
         /\ operator = "buffer" => RequestMapping(n) <= Size * n
<1>1. n \in Nat /\ KMax \in Nat /\ KMax >= 1 /\ Size \in Nat
  BY ChainingAssumption, KMaxAssumption DEF Balance
<1>2. Size * n \in Nat
  BY <1>1
<1>3. \A m \in Nat : m % (KMax + 1) \in 0 .. KMax /\ m % (KMax + 1) <= m
  <2> TAKE m \in Nat
  <2>1. m % (KMax + 1) \in 0 .. KMax
    BY <1>1
  <2>2. CASE m <= KMax
    BY <1>1, <2>2
  <2> QED
    BY <1>1, <2>1, <2>2
<1>4. SizeT(Size * n) \in Balance /\ SizeT(Size * n) <= Size * n
  BY <1>2, <1>3 DEF SizeT, Balance
<1> QED
  BY <1>1, <1>4, ChainingAssumption DEF RequestMapping

\* The counter stays a counter; while it is limited it has the sum.
LEMMA Adding ==
  ASSUME NEW x \in Balance, NEW n \in Balance
  PROVE  /\ AddTo(x, n) \in Balance
         /\ AddTo(x, n) # KMax => x # KMax /\ AddTo(x, n) = x + n
  BY KMaxAssumption DEF Balance, AddTo

\* The loop takes one event off a limited counter only.
LEMMA Taking ==
  ASSUME NEW x \in Balance, HasRequests(x)
  PROVE  /\ CanRemove(x, 1)
         /\ RemoveFrom(x, 1) \in Balance
         /\ RemoveFrom(x, 1) # KMax => x # KMax /\ x = RemoveFrom(x, 1) + 1
         /\ x # KMax => x \in Nat /\ RemoveFrom(x, 1) = x - 1
  BY KMaxAssumption DEF Balance, HasRequests, CanRemove, RemoveFrom

-----------------------------------------------------------------------------
(* The steps of the chaining stream preserve the invariant.                  *)

\* The invariant holds initially.
LEMMA InitInv == Init => IInv
<1> SUFFICES ASSUME Init PROVE IInv
  OBVIOUS
<1>1. 0 \in Balance /\ Size > 0
  BY KMaxAssumption, ChainingAssumption DEF Balance
<1>2. Form("out", "value", "value", <<>>)
  BY DEF Init, Base!Init, Form
<1>3. Types
  BY <1>1 DEF Init, Base!Init, Types
<1>4. Control("out", "value", "value") /\ Safe /\ Closed("out", "value", "value")
  BY DEF Init, Base!Init, Control, Safe, Closed, Alive, Sent
<1>5. Conserved("out", "value", "value") /\ Counted("out", "value")
  BY <1>1, ChainingAssumption DEF Init, Base!Init, Conserved, Counted, Passing, Coming, Unlimited
<1>6. IInvAt("out", "value", "value", <<>>)
  BY <1>2, <1>3, <1>4, <1>5 DEF IInvAt
<1> QED
  BY <1>6 DEF IInv, Places, Bottoms, Base!Events, Received

\* The chaining stream calls OnSubscribe of the user.
LEMMA OnSubscribeInv ==
  ASSUME IInv, OnSubscribe, UNCHANGED operator
  PROVE  IInv'
<1>1. PICK p \in Places, d \in Received, e \in Base!Events, b \in Bottoms : IInvAt(p, d, e, b)
  BY DEF IInv
<1>2. p = "subscribing" /\ Tail(stack) = <<>>
  BY <1>1, PlaceOf, TopAt DEF IInvAt, OnSubscribe, Calls
<1> DEFINE c == Call("UserOnSubscribe", "none", <<>>)
<1>3. /\ stack' = c /\ c \in Bottoms
      /\ UNCHANGED <<operator, phase, requested, generating, yielded, delivered, fault,
                     buffered, granted, got, emitted, failures, ended,
                     cancelled>>
  BY <1>2 DEF OnSubscribe, Bottoms, userVars
<1> HIDE DEF c
<1>4. Form("out", d, e, c)'
  BY <1>3 DEF Form
<1>5. Types' /\ Safe'
  BY <1>1, <1>3 DEF IInvAt, Types, Safe
<1>6. Control("out", d, e)' /\ Closed("out", d, e)'
  BY <1>1, <1>2, <1>3 DEF IInvAt, Control, Closed, Alive, Sent
<1>7. Conserved("out", d, e)' /\ Counted("out", e)'
  BY <1>1, <1>2, <1>3 DEF IInvAt, Conserved, Counted, Passing, Coming, Unlimited, Sent
<1>8. IInvAt("out", d, e, c)'
  BY <1>4, <1>5, <1>6, <1>7 DEF IInvAt
<1> QED
  BY <1>3, <1>8 DEF IInv, Places

\* Map sends what its function made of the event.
LEMMA MapInv ==
  ASSUME IInv, MapOnNext, UNCHANGED operator
  PROVE  IInv'
<1>1. PICK p \in Places, d \in Received, e \in Base!Events, b \in Bottoms : IInvAt(p, d, e, b)
  BY DEF IInv
<1>2. p = "next" /\ Top.ev = e /\ Tail(stack) = Call("After", e, b) /\ operator = "map"
  BY <1>1, PlaceOf, TopAt DEF IInvAt, MapOnNext, Calls, Top
<1>3. PICK r \in Mapped(e) : SendDown(r, IF r = "value" THEN 1 ELSE 0, Tail(stack))
  BY <1>2 DEF MapOnNext
<1>4. r \in Received /\ (r = e \/ (e = "value" /\ r = "failed"))
  BY <1>1, <1>3 DEF Mapped, Received, Base!Events
<1>5. /\ stack' = Call("UserOnNext", r, Call("After", e, b))
      /\ got' = got + 1
      /\ emitted' = emitted + (IF r = "value" THEN 1 ELSE 0)
      /\ failures' = failures + (IF r = "failed" THEN 1 ELSE 0)
      /\ ended' = (ended \/ Base!IsEnd(r))
      /\ UNCHANGED <<operator, phase, requested, generating, yielded, delivered, fault,
                     buffered, granted, cancelled>>
  BY <1>2, <1>3 DEF SendDown, MapOnNext
<1>6. Form("user", r, e, b)'
  BY <1>5 DEF Form
<1>7. Types' /\ Safe'
  BY <1>1, <1>5 DEF IInvAt, Types, Safe, Base!IsEnd
<1>8. Control("user", r, e)'
  BY <1>1, <1>2, <1>4, <1>5 DEF IInvAt, Control, Alive, Sent
<1>9. Closed("user", r, e)'
  BY <1>1, <1>2, <1>5 DEF IInvAt, Closed, Base!IsEnd
<1>10. Conserved("user", r, e)'
  BY <1>1, <1>2, <1>4, <1>5, ChainingAssumption
     DEF IInvAt, Types, Conserved, Passing, Base!Events
<1>11. Counted("user", e)'
  BY <1>1, <1>2, <1>5 DEF IInvAt, Types, Counted, Coming, Unlimited, Balance
<1>12. IInvAt("user", r, e, b)'
  BY <1>6, <1>7, <1>8, <1>9, <1>10, <1>11 DEF IInvAt
<1> QED
  BY <1>4, <1>12 DEF IInv, Places

\* Buffer collects an element, and sends a full vector.
LEMMA CollectInv ==
  ASSUME IInv, BufferOnNext, ~Base!IsEnd(Top.ev), UNCHANGED operator
  PROVE  IInv'
<1>1. PICK p \in Places, d \in Received, e \in Base!Events, b \in Bottoms : IInvAt(p, d, e, b)
  BY DEF IInv
<1>2. p = "next" /\ Top.ev = e /\ Tail(stack) = Call("After", e, b) /\ operator = "buffer"
  BY <1>1, PlaceOf, TopAt DEF IInvAt, BufferOnNext, Calls, Top
<1>3. e = "value" /\ Collect
      /\ UNCHANGED <<operator, phase, requested, generating, yielded, delivered, fault>>
  BY <1>2 DEF BufferOnNext, Base!IsEnd, Base!Events
<1>4. CASE Full(buffered + 1)
  <2>1. /\ stack' = Call("UserOnNext", "value", Call("Clear", "none", Call("After", e, b)))
        /\ got' = got + 1 /\ emitted' = emitted + Size /\ buffered' = 0
        /\ ended' = ended /\ granted' = granted /\ buffered + 1 = Size
        /\ failures' = failures /\ cancelled' = cancelled
    <3>1. /\ SendDown("value", Size, Call("Clear", "none", Call("After", e, b)))
          /\ buffered' = 0 /\ buffered + 1 = Size
      BY <1>2, <1>3, <1>4 DEF Collect, Full
    <3>2. (ended \/ Base!IsEnd("value")) = ended /\ failures + 0 = failures
      BY <1>1 DEF IInvAt, Types, Base!IsEnd
    <3> QED
      BY <3>1, <3>2 DEF SendDown
  <2>2. Form("clearing", d, e, b)'
    BY <2>1 DEF Form
  <2>3. Types' /\ Safe'
    BY <1>1, <1>3, <2>1, ChainingAssumption DEF IInvAt, Types, Safe
  <2>4. Control("clearing", d, e)' /\ Closed("clearing", d, e)'
    BY <1>1, <1>2, <1>3, <2>1 DEF IInvAt, Control, Closed, Alive, Sent
  <2>5. Conserved("clearing", d, e)'
    BY <1>1, <1>2, <1>3, <2>1, ChainingAssumption DEF IInvAt, Types, Conserved, Passing
  <2>6. Counted("clearing", e)'
    <3>1. /\ got \in Nat /\ granted[Source] \in Nat /\ requested[Source] \in Nat
          /\ ~Unlimited /\ phase[Source] # "deleted" =>
               Size * got + Size + requested[Source] <= Size * granted[Source]
      BY <1>1, <1>2, <1>3, <2>1, ChainingAssumption
         DEF IInvAt, Types, Counted, Coming, Sent, Balance
    <3>2. phase[Source] # "deleted"
      BY <1>1, <1>2 DEF IInvAt, Control, Alive
    <3>3. /\ Size * (got + 1) = Size * got + Size
          /\ Size * got \in Nat /\ Size * granted[Source] \in Nat /\ Size \in Nat
      BY <3>1, Vectors, ChainingAssumption
    <3>4. ~Unlimited => /\ Size * (got + 1) <= Size * granted[Source]
                        /\ Size * (got + 1) + requested[Source] <= Size * granted[Source]
      BY <3>1, <3>2, <3>3
    <3>5. ~Unlimited => got + 1 <= granted[Source]
      <4>1. \A x, y \in Nat : Size * x <= Size * y => x <= y
        BY Vectors
      <4>2. got + 1 \in Nat
        BY <3>1
      <4> QED
        BY <3>1, <3>4, <4>1, <4>2
    <3>6. Size * (got + 1) \in Nat
      BY <3>1, <3>3
    <3> QED
      BY <1>2, <1>3, <2>1, <3>1, <3>4, <3>5, <3>6 DEF Counted, Coming, Unlimited
  <2>7. IInvAt("clearing", d, e, b)'
    BY <2>2, <2>3, <2>4, <2>5, <2>6 DEF IInvAt
  <2> QED
    BY <2>7 DEF IInv, Places
<1>5. CASE ~Full(buffered + 1)
  <2>1. /\ stack' = Call("After", e, b) /\ buffered' = buffered + 1 /\ buffered + 1 # Size
        /\ UNCHANGED <<granted, got, emitted, failures, ended,
                     cancelled>>
    BY <1>2, <1>3, <1>5 DEF Collect, Full, userVars
  <2>2. Form("after", d, e, b)'
    BY <2>1 DEF Form
  <2>3. Types' /\ Safe'
    BY <1>1, <1>3, <2>1 DEF IInvAt, Types, Safe
  <2>4. Control("after", d, e)' /\ Closed("after", d, e)'
    BY <1>1, <1>2, <1>3, <2>1 DEF IInvAt, Control, Closed, Alive, Sent
  <2>5. Conserved("after", d, e)'
    BY <1>1, <1>2, <1>3, <2>1, ChainingAssumption DEF IInvAt, Types, Conserved, Passing
  <2>6. Counted("after", e)'
    <3>1. /\ Size * got \in Nat /\ Size * granted[Source] \in Nat /\ buffered \in Nat
          /\ requested[Source] \in Nat
      <4>1. got \in Nat /\ granted[Source] \in Nat
        BY <1>1 DEF IInvAt, Types
      <4>2. \A x \in Nat : Size * x \in Nat
        BY Vectors
      <4> QED
        BY <1>1, <4>1, <4>2 DEF IInvAt, Types, Balance
    <3> DEFINE sg == Size * got
               sr == Size * granted[Source]
    <3>2. phase[Source] # "deleted"
      BY <1>1, <1>2 DEF IInvAt, Control, Alive
    <3>3. ~Unlimited => sg + buffered + 1 + requested[Source] <= sr
      BY <1>1, <1>2, <1>3, <3>2 DEF IInvAt, Counted, Coming, Sent
    <3>4. ~Unlimited => sg + (buffered + 1) + 0 + requested[Source] <= sr
      <4> HIDE DEF sg, sr
      <4> QED
        BY <3>1, <3>3 DEF sg, sr
    <3> QED
      BY <1>1, <1>2, <1>3, <2>1, <3>4 DEF IInvAt, Counted, Coming, Unlimited
  <2>7. IInvAt("after", d, e, b)'
    BY <2>2, <2>3, <2>4, <2>5, <2>6 DEF IInvAt
  <2> QED
    BY <2>7 DEF IInv, Places
<1> QED
  BY <1>4, <1>5

\* Buffer sends what it has and, at once or behind it, the end.
LEMMA FinishInv ==
  ASSUME IInv, BufferOnNext, Base!IsEnd(Top.ev), UNCHANGED operator
  PROVE  IInv'
<1>1. PICK p \in Places, d \in Received, e \in Base!Events, b \in Bottoms : IInvAt(p, d, e, b)
  BY DEF IInv
<1>2. p = "next" /\ Top.ev = e /\ Tail(stack) = Call("After", e, b) /\ operator = "buffer"
  BY <1>1, PlaceOf, TopAt DEF IInvAt, BufferOnNext, Calls, Top
<1>3. Base!IsEnd(e) /\ e # "value" /\ Finish(e)
      /\ UNCHANGED <<operator, phase, requested, generating, yielded, delivered, fault>>
  BY <1>2 DEF BufferOnNext, Base!IsEnd
<1>4. /\ got \in Nat /\ granted[Source] \in Nat /\ phase[Source] # "deleted"
      /\ ~Unlimited => got + 1 <= granted[Source]
  <2>1. /\ got \in Nat /\ granted[Source] \in Nat /\ requested[Source] \in Nat
        /\ buffered \in Nat /\ Size * got \in Nat /\ Size * granted[Source] \in Nat
    <3>1. got \in Nat /\ granted[Source] \in Nat
      BY <1>1 DEF IInvAt, Types
    <3>2. \A x \in Nat : Size * x \in Nat
      BY Vectors
    <3> QED
      BY <1>1, <3>1, <3>2 DEF IInvAt, Types, Balance
  <2>2. phase[Source] # "deleted"
    BY <1>1, <1>2 DEF IInvAt, Control, Alive
  <2>3. ~Unlimited => Size * got + buffered + 1 + requested[Source] <= Size * granted[Source]
    BY <1>1, <1>2, <2>2 DEF IInvAt, Counted, Coming, Sent
  <2>4. ~Unlimited => Size * got < Size * granted[Source]
    BY <2>1, <2>3
  <2> QED
    BY <2>1, <2>2, <2>4, Vectors
<1>5. CASE Flushes(e)
  <2>1. /\ stack' = Call("UserOnNext", "value", Call("Last", e, Call("After", e, b)))
        /\ got' = got + 1 /\ emitted' = emitted + buffered /\ buffered' = 0
        /\ ended' = ended /\ granted' = granted /\ e = "done"
        /\ failures' = failures /\ cancelled' = cancelled
    <3>1. /\ SendDown("value", buffered, Call("Last", e, Call("After", e, b)))
          /\ buffered' = 0 /\ e = "done"
      BY <1>2, <1>3, <1>5 DEF Finish, Flushes
    <3>2. (ended \/ Base!IsEnd("value")) = ended /\ failures + 0 = failures
      BY <1>1 DEF IInvAt, Types, Base!IsEnd
    <3> QED
      BY <3>1, <3>2 DEF SendDown
  <2>2. Form("flushed", d, e, b)'
    BY <2>1 DEF Form
  <2>3. Types' /\ Safe'
    BY <1>1, <1>3, <2>1 DEF IInvAt, Types, Safe
  <2>4. Control("flushed", d, e)' /\ Closed("flushed", d, e)'
    BY <1>1, <1>2, <1>3, <2>1 DEF IInvAt, Control, Closed, Alive, Sent
  <2>5. Conserved("flushed", d, e)'
    BY <1>1, <1>2, <1>3, <2>1, ChainingAssumption DEF IInvAt, Types, Conserved, Passing
  <2>6. Counted("flushed", e)'
    BY <1>2, <1>3, <1>4, <2>1 DEF Counted, Coming, Unlimited, Sent
  <2>7. IInvAt("flushed", d, e, b)'
    BY <2>2, <2>3, <2>4, <2>5, <2>6 DEF IInvAt
  <2> QED
    BY <2>7 DEF IInv, Places
<1>6. CASE ~Flushes(e)
  <2>1. /\ stack' = Call("UserOnNext", e, Call("After", e, b))
        /\ got' = got + 1 /\ emitted' = emitted /\ buffered' = buffered
        /\ ended' = TRUE /\ granted' = granted /\ (e = "done" => buffered = 0)
        /\ failures' = failures /\ cancelled' = cancelled
    <3>1. SendDown(e, 0, Call("After", e, b)) /\ UNCHANGED buffered
      BY <1>2, <1>3, <1>6 DEF Finish
    <3>2. emitted \in Nat /\ buffered \in Nat /\ failures \in Nat /\ e # "failed"
      BY <1>1, <1>3 DEF IInvAt, Types, Base!IsEnd
    <3>3. e = "done" => buffered = 0
      BY <1>6, <3>2 DEF Flushes
    <3>4. (ended \/ Base!IsEnd(e)) = TRUE
      BY <1>3, Zenon
    <3>5. ended' = TRUE
      BY <3>1, <3>4, Zenon DEF SendDown
    <3> QED
      BY <3>1, <3>2, <3>3, <3>5 DEF SendDown
  <2>2. Form("user", e, e, b)'
    BY <2>1 DEF Form
  <2>3. Types' /\ Safe'
    BY <1>1, <1>3, <2>1 DEF IInvAt, Types, Safe
  <2>4. Control("user", e, e)' /\ Closed("user", e, e)'
    BY <1>1, <1>2, <1>3, <2>1 DEF IInvAt, Control, Closed, Alive, Sent
  <2>5. Conserved("user", e, e)'
    BY <1>1, <1>2, <1>3, <2>1, ChainingAssumption DEF IInvAt, Types, Conserved, Passing
  <2>6. Counted("user", e)'
    BY <1>2, <1>3, <1>4, <2>1 DEF Counted, Coming, Unlimited, Sent
  <2>7. IInvAt("user", e, e, b)'
    BY <2>2, <2>3, <2>4, <2>5, <2>6 DEF IInvAt
  <2> QED
    BY <2>7 DEF IInv, Places, Received
<1> QED
  BY <1>5, <1>6

\* The buffer is cleared after the subscriber took its elements.
LEMMA ClearInv ==
  ASSUME IInv, BufferClear, UNCHANGED operator
  PROVE  IInv'
<1>1. PICK p \in Places, d \in Received, e \in Base!Events, b \in Bottoms : IInvAt(p, d, e, b)
  BY DEF IInv
<1>2. p = "clear" /\ Tail(stack) = Call("After", e, b) /\ operator = "buffer" /\ e = "value"
  BY <1>1, PlaceOf, TopAt DEF IInvAt, BufferClear, Calls, Control
<1>3. /\ stack' = Call("After", e, b) /\ buffered' = 0 /\ buffered = 0 /\ fault' = ~Alive
      /\ UNCHANGED <<operator, phase, requested, generating, yielded, delivered,
                     granted, got, emitted, failures, ended,
                     cancelled>>
  BY <1>1, <1>2 DEF BufferClear, userVars, IInvAt, Conserved
<1>4. Form("after", d, e, b)'
  BY <1>3 DEF Form
<1>5. Types' /\ Safe'
  BY <1>1, <1>2, <1>3 DEF IInvAt, Types, Safe, Control, Sent, Alive
<1>6. Control("after", d, e)' /\ Closed("after", d, e)'
  BY <1>1, <1>2, <1>3 DEF IInvAt, Control, Closed, Alive, Sent
<1>7. Conserved("after", d, e)' /\ Counted("after", e)'
  BY <1>1, <1>2, <1>3 DEF IInvAt, Conserved, Counted, Passing, Coming, Unlimited, Sent
<1>8. IInvAt("after", d, e, b)'
  BY <1>4, <1>5, <1>6, <1>7 DEF IInvAt
<1> QED
  BY <1>8 DEF IInv, Places

\* The end behind the flushed vector.
LEMMA LastInv ==
  ASSUME IInv, BufferLast, UNCHANGED operator
  PROVE  IInv'
<1>1. PICK p \in Places, d \in Received, e \in Base!Events, b \in Bottoms : IInvAt(p, d, e, b)
  BY DEF IInv
<1>2. p = "last" /\ Top.ev = e /\ Tail(stack) = Call("After", e, b) /\ operator = "buffer"
      /\ e = "done"
  BY <1>1, PlaceOf, TopAt DEF IInvAt, BufferLast, Calls, Control, Top
<1>3. /\ stack' = Call("UserOnNext", e, Call("After", e, b))
      /\ got' = got + 1 /\ emitted' = emitted /\ ended' = TRUE /\ fault' = ~Alive
      /\ UNCHANGED <<operator, phase, requested, generating, yielded, delivered, buffered, granted,
                     failures, cancelled>>
  <2>1. /\ SendDown(e, 0, Call("After", e, b)) /\ Base!IsEnd(e)
        /\ emitted \in Nat /\ failures \in Nat
    BY <1>1, <1>2 DEF BufferLast, Base!IsEnd, IInvAt, Types
  <2>2. (ended \/ Base!IsEnd(e)) = TRUE
    BY <2>1, Zenon
  <2>3. ended' = TRUE
    BY <2>1, <2>2, Zenon DEF SendDown
  <2> QED
    BY <1>2, <2>1, <2>3 DEF BufferLast, SendDown
<1>4. Form("user", e, e, b)'
  BY <1>3 DEF Form
<1>5. Types' /\ Safe'
  BY <1>1, <1>2, <1>3 DEF IInvAt, Types, Safe, Control, Sent, Alive
<1>6. Control("user", e, e)' /\ Closed("user", e, e)'
  BY <1>1, <1>2, <1>3 DEF IInvAt, Control, Closed, Alive, Sent, Base!IsEnd
<1>7. Conserved("user", e, e)'
  BY <1>1, <1>2, <1>3 DEF IInvAt, Conserved, Passing
<1>8. Counted("user", e)'
  BY <1>1, <1>2, <1>3 DEF IInvAt, Types, Counted, Coming, Unlimited, Sent, Base!IsEnd
<1>9. IInvAt("user", e, e, b)'
  BY <1>4, <1>5, <1>6, <1>7, <1>8 DEF IInvAt
<1> QED
  BY <1>9 DEF IInv, Places, Received

-----------------------------------------------------------------------------
(* The steps of the base.                                                    *)

\* The loop sends an event.
LEMMA ProduceInv ==
  ASSUME IInv, Base!Generate, Base!Produce(Source),
         UNCHANGED <<operator, buffered, got, emitted, failures, ended,
                     cancelled>>
  PROVE  IInv'
<1>1. PICK p \in Places, d \in Received, e \in Base!Events, b \in Bottoms : IInvAt(p, d, e, b)
  BY DEF IInv
<1>2. p = "loop" /\ Tail(stack) = b
  BY <1>1, PlaceOf, TopAt DEF IInvAt, Base!Generate, Base!Top, IsTop, Top, Calls
<1>3. PICK f \in Base!Generated(Source) :
        /\ yielded' = [yielded EXCEPT ![Source] = IF Base!IsEnd(f) THEN @ ELSE @ + 1]
        /\ stack' = Base!Push(Base!Frame("OnNext", Source, f),
                              Base!Push(Base!Frame("After", Source, f), Tail(stack)))
  BY DEF Base!Produce
<1>4. f \in Base!Events
  BY <1>3, ChainingAssumption DEF Base!Generated, Base!Events
<1>5. stack' = Call("OnNext", f, Call("After", f, b))
  BY <1>2, <1>3 DEF Call
<1> DEFINE r == requested[Source]
<1>6. /\ HasRequests(r)
      /\ fault' = (~Alive \/ ~CanRemove(r, 1))
      /\ requested' = [requested EXCEPT ![Source] = RemoveFrom(r, 1)]
      /\ delivered' = [delivered EXCEPT ![Source] = delivered[Source] + 1]
      /\ UNCHANGED <<operator, phase, generating, granted, buffered, got, emitted, failures, ended,
                     cancelled>>
  BY DEF Base!Produce, Base!Alive, Alive, Base!HasRequests, HasRequests, Base!CanRemove,
         CanRemove, Base!RemoveFrom, RemoveFrom
<1>7. /\ r \in Balance /\ CanRemove(r, 1) /\ RemoveFrom(r, 1) \in Balance
      /\ requested'[Source] = RemoveFrom(r, 1)
      /\ requested'[Source] # KMax => r # KMax /\ r = requested'[Source] + 1
  <2>1. r \in Balance /\ requested' = [requested EXCEPT ![Source] = RemoveFrom(r, 1)]
        /\ Source \in DOMAIN requested
    BY <1>1, <1>6 DEF IInvAt, Types
  <2>2. requested'[Source] = RemoveFrom(r, 1)
    BY <2>1
  <2> HIDE DEF r
  <2> QED
    BY <1>6, <2>1, <2>2, Taking
<1>8. Form("next", d, f, b)'
  BY <1>5 DEF Form
<1>9. Types'
  <2>1. requested' \in [{Source} -> Balance]
    BY <1>1, <1>6, <1>7 DEF IInvAt, Types
  <2>2. yielded' \in [{Source} -> Nat]
    BY <1>1, <1>3 DEF IInvAt, Types
  <2> QED
    BY <1>1, <1>6, <2>1, <2>2 DEF IInvAt, Types
<1>10. Safe'
  BY <1>1, <1>2, <1>6, <1>7 DEF IInvAt, Safe, Control
<1>11. Control("next", d, f)' /\ Closed("next", d, f)'
  BY <1>1, <1>2, <1>6 DEF IInvAt, Control, Closed, Alive, Sent
<1>12. Conserved("next", d, f)'
  <2>1. yielded'[Source] = yielded[Source] + (IF f = "value" THEN 1 ELSE 0)
        /\ yielded[Source] \in Nat
    BY <1>1, <1>3, <1>4 DEF IInvAt, Types, Base!IsEnd, Base!Events
  <2> QED
    BY <1>1, <1>2, <1>6, <2>1 DEF IInvAt, Types, Conserved, Passing
<1>13. Counted("next", f)'
  <2>1. /\ got \in Nat /\ granted[Source] \in Nat /\ buffered \in Nat /\ requested'[Source] \in Nat
    BY <1>1, <1>7 DEF IInvAt, Types, Balance
  <2>2. Size * got \in Nat /\ Size * granted[Source] \in Nat
    BY <2>1, Vectors
  <2>3. ~Unlimited' => ~Unlimited /\ r = requested'[Source] + 1
    BY <1>7 DEF Unlimited
  <2>4. ASSUME ~Unlimited', operator = "map"
        PROVE  requested'[Source] + got + 1 <= granted[Source]
    BY <1>1, <1>2, <2>1, <2>3, <2>4 DEF IInvAt, Counted, Coming
  <2>5. ASSUME ~Unlimited', operator = "buffer", phase[Source] # "deleted"
        PROVE  Size * got + buffered + 1 + requested'[Source] <= Size * granted[Source]
    <3>1. Size * got + buffered + 0 + r <= Size * granted[Source]
      BY <1>1, <1>2, <2>3, <2>5 DEF IInvAt, Counted, Coming, Sent
    <3> QED
      BY <2>1, <2>2, <2>3, <2>5, <3>1
  <2>6. ASSUME ~Unlimited', operator = "buffer"
        PROVE  got <= granted[Source] \/ (ended /\ got = granted[Source] + 1)
    BY <1>1, <2>3, <2>6 DEF IInvAt, Counted
  <2> QED
    BY <1>6, <2>4, <2>5, <2>6 DEF Counted, Coming
<1>14. IInvAt("next", d, f, b)'
  BY <1>8, <1>9, <1>10, <1>11, <1>12, <1>13 DEF IInvAt
<1> QED
  BY <1>4, <1>14 DEF IInv, Places

\* The loop ends without requests.
LEMMA PauseInv ==
  ASSUME IInv, Base!Generate, Base!Pause(Source),
         UNCHANGED <<operator, buffered, got, emitted, failures, ended,
                     cancelled>>
  PROVE  IInv'
<1>1. PICK p \in Places, d \in Received, e \in Base!Events, b \in Bottoms : IInvAt(p, d, e, b)
  BY DEF IInv
<1>2. p = "loop" /\ Tail(stack) = b
  BY <1>1, PlaceOf, TopAt DEF IInvAt, Base!Generate, Base!Top, IsTop, Top, Calls
<1>3. /\ stack' = b
      /\ fault' = ~Alive
      /\ generating' = [generating EXCEPT ![Source] = FALSE]
      /\ UNCHANGED <<operator, phase, requested, yielded, granted, delivered, buffered, got,
                     emitted, failures, ended, cancelled>>
  BY <1>2 DEF Base!Pause, Base!Alive, Alive, Base!history
<1>4. Form("out", d, e, b)'
  BY <1>3 DEF Form
<1>5. Types' /\ Safe'
  BY <1>1, <1>2, <1>3 DEF IInvAt, Types, Safe, Control
<1>6. Control("out", d, e)' /\ Closed("out", d, e)'
  BY <1>1, <1>2, <1>3 DEF IInvAt, Types, Control, Closed, Alive, Sent
<1>7. Conserved("out", d, e)' /\ Counted("out", e)'
  BY <1>1, <1>2, <1>3 DEF IInvAt, Conserved, Counted, Passing, Coming, Unlimited, Sent
<1>8. IInvAt("out", d, e, b)'
  BY <1>4, <1>5, <1>6, <1>7 DEF IInvAt
<1> QED
  BY <1>8 DEF IInv, Places

\* OnNext returned: the loop continues, or the stream is gone.
LEMMA AfterInv ==
  ASSUME IInv, Base!AfterOnNext, UNCHANGED <<operator, buffered, got, emitted, failures, ended,
                     cancelled>>
  PROVE  IInv'
<1>1. PICK p \in Places, d \in Received, e \in Base!Events, b \in Bottoms : IInvAt(p, d, e, b)
  BY DEF IInv
<1>2. p = "after" /\ Tail(stack) = b /\ Head(stack).ev = e /\ Head(stack).gen = Source
  BY <1>1, PlaceOf, TopAt DEF IInvAt, Base!AfterOnNext, Base!Top, IsTop, Top, Calls
<1>3. /\ phase' = [phase EXCEPT ![Source] = IF Base!Deletes(Source, e) THEN "deleted" ELSE @]
      /\ stack' = IF Base!Bails(Source, e) \/ Base!Deletes(Source, e)
                    THEN b ELSE Call("Loop", "none", b)
      /\ UNCHANGED <<operator, requested, generating, yielded, granted, delivered, fault,
                     buffered, got, emitted, failures, ended,
                     cancelled>>
  BY <1>2 DEF Base!AfterOnNext, Base!Top, Base!history, Call
<1>4. phase[Source] # "new"
  BY <1>1, <1>2 DEF IInvAt, Control
<1>5. CASE ~Alive \/ Base!IsEnd(e)
  <2>1. /\ stack' = b /\ phase'[Source] = "deleted"
        /\ phase' \in [{Source} -> {"new", "alive", "deleted"}]
    BY <1>1, <1>3, <1>4, <1>5
       DEF Base!Bails, Base!Deletes, Base!Alive, Alive, IInvAt, Types
  <2>2. Form("out", d, e, b)'
    BY <2>1 DEF Form
  <2>3. Types' /\ Safe'
    BY <1>1, <1>3, <2>1 DEF IInvAt, Types, Safe
  <2>4. Control("out", d, e)' /\ Closed("out", d, e)'
    BY <1>1, <1>2, <1>3, <2>1 DEF IInvAt, Control, Closed, Alive, Sent
  <2>5. Conserved("out", d, e)'
    BY <1>1, <1>2, <1>3 DEF IInvAt, Conserved, Passing
  <2>6. Counted("out", e)'
    BY <1>1, <1>2, <1>3, <2>1 DEF IInvAt, Counted, Coming, Unlimited
  <2>7. IInvAt("out", d, e, b)'
    BY <2>2, <2>3, <2>4, <2>5, <2>6 DEF IInvAt
  <2> QED
    BY <2>7 DEF IInv, Places
<1>6. CASE Alive /\ ~Base!IsEnd(e)
  <2>1. stack' = Call("Loop", "none", b) /\ phase' = phase
    BY <1>1, <1>3, <1>6
       DEF Base!Bails, Base!Deletes, Base!Alive, Alive, IInvAt, Types
  <2>2. Form("loop", d, e, b)'
    BY <2>1 DEF Form
  <2>3. Types' /\ Safe'
    BY <1>1, <1>3, <2>1 DEF IInvAt, Types, Safe
  <2>4. Control("loop", d, e)' /\ Closed("loop", d, e)'
    BY <1>1, <1>2, <1>3, <1>6, <2>1 DEF IInvAt, Control, Closed, Alive, Sent
  <2>5. Conserved("loop", d, e)'
    BY <1>1, <1>2, <1>3 DEF IInvAt, Conserved, Passing
  <2>6. Counted("loop", e)'
    BY <1>1, <1>2, <1>3, <1>6, <2>1 DEF IInvAt, Counted, Coming, Unlimited, Sent
  <2>7. IInvAt("loop", d, e, b)'
    BY <2>2, <2>3, <2>4, <2>5, <2>6 DEF IInvAt
  <2> QED
    BY <2>7 DEF IInv, Places
<1> QED
  BY <1>5, <1>6

-----------------------------------------------------------------------------
(* The steps of the user.                                                    *)

\* The stream is constructed and calls OnSubscribe.
LEMMA SubscribesInv ==
  ASSUME IInv, UserSubscribes, UNCHANGED operator
  PROVE  IInv'
<1>1. PICK p \in Places, d \in Received, e \in Base!Events, b \in Bottoms : IInvAt(p, d, e, b)
  BY DEF IInv
<1>2. p = "out" /\ phase[Source] = "new"
  BY <1>1, PlaceOf DEF IInvAt, UserSubscribes, Base!Construct
<1>3. /\ stack' = Call("OnSubscribe", "none", <<>>)
      /\ phase' = [phase EXCEPT ![Source] = "alive"]
      /\ UNCHANGED <<operator, requested, generating, yielded, delivered, fault,
                     buffered, granted, got, emitted, failures, ended,
                     cancelled>>
  BY DEF UserSubscribes, Base!Construct, Call, userVars
<1>4. phase' \in [{Source} -> {"new", "alive", "deleted"}] /\ phase'[Source] = "alive"
  BY <1>1, <1>3 DEF IInvAt, Types
<1>5. Form("subscribing", d, e, b)'
  BY <1>3 DEF Form
<1>6. Types' /\ Safe'
  BY <1>1, <1>3, <1>4 DEF IInvAt, Types, Safe
<1>7. Control("subscribing", d, e)' /\ Closed("subscribing", d, e)'
  BY <1>1, <1>2, <1>3, <1>4 DEF IInvAt, Control, Closed, Alive, Sent
<1>8. Conserved("subscribing", d, e)' /\ Counted("subscribing", e)'
  BY <1>1, <1>2, <1>3, <1>4 DEF IInvAt, Conserved, Counted, Passing, Coming, Unlimited, Sent
<1>9. IInvAt("subscribing", d, e, b)'
  BY <1>5, <1>6, <1>7, <1>8 DEF IInvAt
<1> QED
  BY <1>9 DEF IInv, Places

\* A request is counted, and starts the loop if it does not run yet.
LEMMA RequestsInv ==
  ASSUME IInv, UserRequests, UNCHANGED operator
  PROVE  IInv'
<1>1. PICK p \in Places, d \in Received, e \in Base!Events, b \in Bottoms : IInvAt(p, d, e, b)
  BY DEF IInv
<1>2. p \in {"out", "user", "clearing", "flushed"} /\ Alive
  BY <1>1, PlaceOf DEF IInvAt, UserRequests
<1>3. PICK n \in Counts : /\ granted' = [granted EXCEPT ![Source] = @ + n]
                          /\ Base!Request(Source, RequestMapping(n), stack)
  BY DEF UserRequests
<1> DEFINE m == RequestMapping(n)
           q == IF p = "out" THEN "loop" ELSE p
<1>4. /\ n \in Nat /\ m \in Balance /\ m \in Nat
      /\ operator = "map" => m = n
      /\ operator = "buffer" => m <= Size * n
  <2>1. n \in Balance /\ operator \in Operators
    BY <1>1, ChainingAssumption DEF IInvAt, Types
  <2> QED
    BY <2>1, Mapping DEF Balance
<1> HIDE DEF m
<1>5. /\ requested' = [requested EXCEPT ![Source] = AddTo(requested[Source], m)]
      /\ generating' = [generating EXCEPT ![Source] = TRUE]
      /\ stack' = IF ~generating[Source] THEN Call("Loop", "none", stack) ELSE stack
      /\ UNCHANGED <<operator, phase, yielded, delivered, fault, buffered, got, emitted, failures, ended,
                     cancelled>>
  BY <1>3 DEF Base!Request, Base!StartsGenerate, Call, UserRequests, Base!AddTo, AddTo, m
<1>6. /\ requested[Source] \in Balance /\ requested'[Source] \in Balance
      /\ requested' \in [{Source} -> Balance]
      /\ requested'[Source] # KMax => /\ requested[Source] # KMax
                                      /\ requested'[Source] = requested[Source] + m
  <2>1. requested[Source] \in Balance /\ requested \in [{Source} -> Balance]
    BY <1>1 DEF IInvAt, Types
  <2>2. /\ AddTo(requested[Source], m) \in Balance
        /\ AddTo(requested[Source], m) # KMax =>
             requested[Source] # KMax /\ AddTo(requested[Source], m) = requested[Source] + m
    BY <1>4, <2>1, Adding
  <2> QED
    BY <1>5, <2>1, <2>2
<1>7. /\ granted[Source] \in Nat /\ granted'[Source] = granted[Source] + n
      /\ granted' \in [{Source} -> Nat]
      /\ got \in Nat /\ buffered \in Nat
  BY <1>1, <1>3, <1>4 DEF IInvAt, Types
<1>8. generating' \in [{Source} -> BOOLEAN] /\ generating'[Source]
  BY <1>1, <1>5 DEF IInvAt, Types
<1>9. q \in Places /\ (p = "out" <=> ~generating[Source])
  BY <1>1, <1>2 DEF IInvAt, Control, Places
<1>10. Form(q, d, e, b)'
  <2>1. CASE p = "out"
    <3>1. stack' = Call("Loop", "none", b)
      BY <1>1, <1>5, <1>9, <2>1 DEF IInvAt, Form
    <3> QED
      BY <2>1, <3>1 DEF Form
  <2>2. CASE p # "out"
    <3>1. stack' = stack
      BY <1>5, <1>9, <2>2
    <3> QED
      BY <1>1, <2>2, <3>1 DEF IInvAt, Form
  <2> QED
    BY <2>1, <2>2
<1>11. Types' /\ Safe'
  BY <1>1, <1>5, <1>6, <1>7, <1>8 DEF IInvAt, Types, Safe
<1>12. Control(q, d, e)'
  BY <1>1, <1>2, <1>5, <1>8 DEF IInvAt, Control, Alive, Sent
<1>13. Closed(q, d, e)'
  BY <1>1, <1>2, <1>5 DEF IInvAt, Closed, Alive
<1>14. Conserved(q, d, e)'
  BY <1>1, <1>2, <1>5 DEF IInvAt, Conserved, Passing
<1>15. Counted(q, e)'
  <2>1. Coming(q) = 0 /\ Coming(p) = 0 /\ requested[Source] \in Nat /\ requested'[Source] \in Nat
    BY <1>2, <1>6 DEF Coming, Balance
  <2>2. ~Unlimited' => ~Unlimited /\ requested'[Source] = requested[Source] + m
    BY <1>6 DEF Unlimited
  <2>3. ASSUME ~Unlimited', operator = "map"
        PROVE  requested'[Source] + got + 0 <= granted'[Source]
    <3>1. requested[Source] + got + 0 <= granted[Source] /\ m = n
      BY <1>1, <1>4, <2>1, <2>2, <2>3 DEF IInvAt, Counted
    <3> QED
      BY <1>4, <1>7, <2>1, <2>2, <2>3, <3>1
  <2>4. ASSUME ~Unlimited', operator = "buffer", phase[Source] # "deleted",
               ~(q \in Sent /\ Base!IsEnd(e))
        PROVE  Size * got + buffered + 0 + requested'[Source] <= Size * granted'[Source]
    <3>1. ~(p \in Sent /\ Base!IsEnd(e))
      BY <2>4 DEF Sent
    <3>2. Size * got + buffered + 0 + requested[Source] <= Size * granted[Source] /\ m <= Size * n
      BY <1>1, <1>4, <2>1, <2>2, <2>4, <3>1 DEF IInvAt, Counted
    <3>3. \A x, y \in Nat : Size * x \in Nat /\ Size * (x + y) = Size * x + Size * y
      BY Vectors
    <3>4. /\ Size * got \in Nat /\ Size * granted[Source] \in Nat /\ Size * n \in Nat
          /\ Size * granted'[Source] = Size * granted[Source] + Size * n
      BY <1>4, <1>7, <3>3
    <3>5. ASSUME NEW g \in Nat, NEW o \in Nat, NEW s \in Nat, NEW r \in Nat,
                 g + buffered + 0 + r <= o, m <= s
          PROVE  g + buffered + 0 + (r + m) <= o + s
      BY <1>4, <1>7, <3>5
    <3>6. Size * got + buffered + 0 + (requested[Source] + m) <= Size * granted[Source] + Size * n
      BY <2>1, <3>2, <3>4, <3>5
    <3> QED
      BY <2>2, <2>4, <3>4, <3>6
  <2>5. ASSUME ~Unlimited'
        PROVE  /\ operator = "buffer" => \/ got <= granted'[Source]
                                         \/ ended /\ got = granted'[Source] + 1
               /\ q \in {"flushed", "last"} => got <= granted'[Source]
    <3>1. /\ operator = "buffer" => got <= granted[Source] \/ (ended /\ got = granted[Source] + 1)
          /\ q \in {"flushed", "last"} => got <= granted[Source]
      BY <1>1, <2>2, <2>5 DEF IInvAt, Counted
    <3> QED
      BY <1>4, <1>7, <3>1
  <2> QED
    BY <1>5, <2>1, <2>3, <2>4, <2>5 DEF Counted
<1>16. IInvAt(q, d, e, b)'
  BY <1>10, <1>11, <1>12, <1>13, <1>14, <1>15 DEF IInvAt
<1> QED
  BY <1>9, <1>16 DEF IInv

\* The stream is deleted: nothing else changes.
LEMMA CancelsInv ==
  ASSUME IInv, UserCancels, UNCHANGED operator
  PROVE  IInv'
<1>1. PICK p \in Places, d \in Received, e \in Base!Events, b \in Bottoms : IInvAt(p, d, e, b)
  BY DEF IInv
<1>2. p \in {"out", "user", "clearing", "flushed"}
  BY <1>1, PlaceOf DEF IInvAt, UserCancels
<1>3. /\ cancelled' = (cancelled \/ IsTop("UserOnNext"))
      /\ p # "out" => IsTop("UserOnNext")
  BY <1>1, <1>2, TopAt DEF IInvAt, UserCancels, IsTop, Top, Calls
<1>4. /\ phase' = [phase EXCEPT ![Source] = "deleted"]
      /\ UNCHANGED <<operator, stack, requested, generating, yielded, delivered, fault,
                     buffered, granted, got, emitted, failures, ended>>
  BY DEF UserCancels, Base!Cancel, userVars
<1>5. phase' \in [{Source} -> {"new", "alive", "deleted"}] /\ phase'[Source] = "deleted"
  BY <1>1, <1>4 DEF IInvAt, Types
<1>6. Form(p, d, e, b)'
  BY <1>1, <1>4 DEF IInvAt, Form
<1>7. Types' /\ Safe'
  BY <1>1, <1>3, <1>4, <1>5 DEF IInvAt, Types, Safe
<1>8. Control(p, d, e)'
  BY <1>1, <1>2, <1>3, <1>4, <1>5 DEF IInvAt, Control, Alive, Sent
<1>9. Closed(p, d, e)' /\ Conserved(p, d, e)'
  BY <1>1, <1>2, <1>4, <1>5 DEF IInvAt, Closed, Conserved, Passing
<1>10. Counted(p, e)'
  BY <1>1, <1>4, <1>5 DEF IInvAt, Counted, Unlimited
<1>11. IInvAt(p, d, e, b)'
  BY <1>6, <1>7, <1>8, <1>9, <1>10 DEF IInvAt
<1> QED
  BY <1>11 DEF IInv

\* A method of the user returns.
LEMMA ReturnsInv ==
  ASSUME IInv, UserReturns, UNCHANGED operator
  PROVE  IInv'
<1>1. PICK p \in Places, d \in Received, e \in Base!Events, b \in Bottoms : IInvAt(p, d, e, b)
  BY DEF IInv
<1>2. p \in {"out", "user", "clearing", "flushed"} /\ stack # <<>>
  BY <1>1, PlaceOf DEF IInvAt, UserReturns
<1>3. /\ stack' = Tail(stack)
      /\ UNCHANGED <<operator, phase, requested, generating, yielded, delivered, fault,
                     buffered, granted, got, emitted, failures, ended,
                     cancelled>>
  BY DEF UserReturns, userVars
<1>4. Types' /\ Safe'
  BY <1>1, <1>3 DEF IInvAt, Types, Safe
<1>5. CASE p = "out"
  <2>1. stack' = <<>>
    BY <1>1, <1>2, <1>3, <1>5, TopAt DEF IInvAt, Calls
  <2>2. Form("out", d, e, <<>>)'
    BY <2>1 DEF Form
  <2>3. /\ Control("out", d, e)' /\ Closed("out", d, e)'
        /\ Conserved("out", d, e)' /\ Counted("out", e)'
    BY <1>1, <1>3, <1>5
       DEF IInvAt, Control, Closed, Conserved, Counted, Alive, Passing, Coming, Unlimited
  <2>4. IInvAt("out", d, e, <<>>)'
    BY <1>4, <2>2, <2>3 DEF IInvAt
  <2> QED
    BY <2>4 DEF IInv, Places, Bottoms
<1>6. CASE p = "user"
  <2>1. stack' = Call("After", e, b)
    BY <1>1, <1>3, <1>6, TopAt DEF IInvAt, Calls
  <2>2. Form("after", d, e, b)'
    BY <2>1 DEF Form
  <2>3. Control("after", d, e)' /\ Closed("after", d, e)'
    BY <1>1, <1>3, <1>6 DEF IInvAt, Control, Closed, Alive, Sent, Base!IsEnd
  <2>4. Conserved("after", d, e)' /\ Counted("after", e)'
    BY <1>1, <1>3, <1>6 DEF IInvAt, Conserved, Counted, Passing, Coming, Unlimited, Sent
  <2>5. IInvAt("after", d, e, b)'
    BY <1>4, <2>2, <2>3, <2>4 DEF IInvAt
  <2> QED
    BY <2>5 DEF IInv, Places
<1>7. CASE p = "clearing"
  <2>1. stack' = Call("Clear", "none", Call("After", e, b))
    BY <1>1, <1>3, <1>7, TopAt DEF IInvAt, Calls
  <2>2. Form("clear", d, e, b)'
    BY <2>1 DEF Form
  <2>3. Control("clear", d, e)' /\ Closed("clear", d, e)'
    BY <1>1, <1>3, <1>7 DEF IInvAt, Control, Closed, Alive, Sent
  <2>4. Conserved("clear", d, e)' /\ Counted("clear", e)'
    BY <1>1, <1>3, <1>7 DEF IInvAt, Conserved, Counted, Passing, Coming, Unlimited, Sent
  <2>5. IInvAt("clear", d, e, b)'
    BY <1>4, <2>2, <2>3, <2>4 DEF IInvAt
  <2> QED
    BY <2>5 DEF IInv, Places
<1>8. CASE p = "flushed"
  <2>1. stack' = Call("Last", e, Call("After", e, b))
    BY <1>1, <1>3, <1>8, TopAt DEF IInvAt, Calls
  <2>2. Form("last", d, e, b)'
    BY <2>1 DEF Form
  <2>3. Control("last", d, e)' /\ Closed("last", d, e)'
    BY <1>1, <1>3, <1>8 DEF IInvAt, Control, Closed, Alive, Sent
  <2>4. Conserved("last", d, e)' /\ Counted("last", e)'
    BY <1>1, <1>3, <1>8 DEF IInvAt, Conserved, Counted, Passing, Coming, Unlimited, Sent
  <2>5. IInvAt("last", d, e, b)'
    BY <1>4, <2>2, <2>3, <2>4 DEF IInvAt
  <2> QED
    BY <2>5 DEF IInv, Places
<1> QED
  BY <1>2, <1>5, <1>6, <1>7, <1>8

-----------------------------------------------------------------------------
(* The theorems.                                                             *)

\* Every step of the system preserves the invariant.
LEMMA NextInv ==
  ASSUME IInv, [Next]_vars
  PROVE  IInv'
<1>1. CASE UNCHANGED vars
  <2>1. PICK p \in Places, d \in Received, e \in Base!Events, b \in Bottoms :
          IInvAt(p, d, e, b)
    BY DEF IInv
  <2>2. UNCHANGED <<operator, stack, phase, requested, generating, yielded, delivered, fault,
                    buffered, granted, got, emitted, failures, ended,
                     cancelled>>
    BY <1>1 DEF vars, userVars
  <2>3. /\ Form(p, d, e, b)' /\ Types' /\ Safe' /\ Control(p, d, e)' /\ Closed(p, d, e)'
    BY <2>1, <2>2 DEF IInvAt, Form, Types, Safe, Control, Closed, Alive
  <2>4. Conserved(p, d, e)' /\ Counted(p, e)'
    BY <2>1, <2>2 DEF IInvAt, Conserved, Counted, Unlimited
  <2>5. IInvAt(p, d, e, b)'
    BY <2>3, <2>4 DEF IInvAt
  <2> QED
    BY <2>5 DEF IInv
<1>2. CASE Next
  <2>1. UNCHANGED operator
    BY <1>2 DEF Next
  <2>2. CASE SourceStep
    <3>1. ASSUME Base!Generate PROVE Base!Top.gen = Source
      <4>1. PICK p \in Places, d \in Received, e \in Base!Events, b \in Bottoms :
              IInvAt(p, d, e, b)
        BY DEF IInv
      <4>2. Calls(stack, "Loop", "none", b)
        BY <3>1, <4>1, PlaceOf, TopAt DEF IInvAt, Base!Generate, Base!Top, IsTop, Top
      <4> QED
        BY <4>2 DEF Calls, Base!Top
    <3>2. CASE Base!Generate
      <4>1. Base!Produce(Source) \/ Base!Pause(Source)
        BY <3>1, <3>2 DEF Base!Generate
      <4> QED
        BY <2>1, <2>2, <3>2, <4>1, ProduceInv, PauseInv DEF SourceStep
    <3>3. CASE Base!AfterOnNext
      BY <2>1, <2>2, <3>3, AfterInv DEF SourceStep
    <3> QED
      BY <2>2, <3>2, <3>3 DEF SourceStep
  <2>3. CASE ChainStep
    BY <2>1, <2>3, OnSubscribeInv, MapInv, CollectInv, FinishInv, ClearInv, LastInv
       DEF ChainStep
  <2>4. CASE UserSubscribes \/ UserRequests \/ UserCancels \/ UserReturns
    BY <2>1, <2>4, SubscribesInv, RequestsInv, CancelsInv, ReturnsInv
  <2>5. CASE Terminated
    BY <1>1, <2>5 DEF Terminated
  <2> QED
    BY <1>2, <2>2, <2>3, <2>4, <2>5 DEF Next
<1> QED
  BY <1>1, <1>2

\* The invariant holds in every behaviour.
LEMMA Invariance == Spec => []IInv
  BY InitInv, NextInv, PTL DEF Spec

\* The members of the stream and of its base keep their types; no more is requested
\* than the user may request.
THEOREM TypeCorrect == Spec => []TypeOK
<1> DEFINE Bounded == granted[Source] <= MaxGrant
<1>1. Init => Bounded
  BY ChainingAssumption DEF Init, Base!Init
<1>2. ASSUME IInv, Bounded, [Next]_vars PROVE Bounded'
  <2>1. granted \in [{Source} -> Nat]
    BY <1>2 DEF IInv, IInvAt, Types
  <2>2. CASE granted' = granted
    BY <1>2, <2>2
  <2>3. CASE UserRequests
    <3>1. PICK n \in Counts : /\ granted[Source] + n <= MaxGrant
                              /\ granted' = [granted EXCEPT ![Source] = @ + n]
      BY <2>3 DEF UserRequests
    <3> QED
      BY <2>1, <3>1
  <2>4. granted' = granted \/ UserRequests
    BY <1>2
       DEF Next, SourceStep, ChainStep, Base!Generate, Base!Produce, Base!Pause,
           Base!AfterOnNext, Base!history, OnSubscribe, MapOnNext, BufferOnNext, Collect, Finish,
           BufferClear, BufferLast, SendDown, UserSubscribes, UserCancels, UserReturns,
           Terminated, userVars, vars
  <2> QED
    BY <2>2, <2>3, <2>4
<1>3. IInv /\ Bounded => TypeOK
  <2> SUFFICES ASSUME IInv, Bounded PROVE TypeOK
    OBVIOUS
  <2>1. Types
    BY DEF IInv, IInvAt
  <2> QED
    BY <2>1, ChainingAssumption DEF Types, TypeOK
<1> HIDE DEF Bounded
<1> QED
  BY <1>1, <1>2, <1>3, InitInv, NextInv, PTL DEF Spec

\* The user receives no event that was not requested, whatever it requests and
\* wherever it cancels, but for the one that Buffer sends as the end of the stream
\* behind its flush (line 477).
THEOREM NoEventTooMany == Spec => []OverrunOnlyByFlush
<1>1. ASSUME IInv PROVE OverrunOnlyByFlush
  <2>1. PICK p \in Places, d \in Received, e \in Base!Events, b \in Bottoms :
          Types /\ Counted(p, e)
    BY <1>1 DEF IInv, IInvAt
  <2>2. operator \in {"map", "buffer"}
    BY <2>1, ChainingAssumption DEF Types
  <2>3. /\ requested[Source] \in Nat /\ got \in Nat /\ granted[Source] \in Nat
        /\ Coming(p) \in Nat
    BY <2>1 DEF Types, Balance, Coming
  <2>4. ASSUME ~Unlimited, operator = "map" PROVE got <= granted[Source]
    <3>1. requested[Source] + got + Coming(p) <= granted[Source]
      BY <2>1, <2>4 DEF Counted
    <3> QED
      BY <2>3, <3>1
  <2> QED
    BY <2>1, <2>2, <2>4 DEF Counted, OverrunOnlyByFlush
<1> QED
  BY <1>1, Invariance, PTL

\* Nothing is delivered behind the end of the base, whatever the subscriber requests
\* or cancels within OnNext; only a status that the function of Map returned for a
\* value, which does not end the base (line 424), is followed by other events.
THEOREM NothingBehindTheEnd == Spec => EndIsLast
<1>1. ASSUME IInv, [Next]_vars, got' # got, ended \/ failures > 0
      PROVE  operator = "map" /\ failures > 0 /\ ~ended
  <2>1. PICK p \in Places, d \in Received, e \in Base!Events, b \in Bottoms :
          IInvAt(p, d, e, b)
    BY <1>1 DEF IInv
  <2>2. ASSUME IsTop("OnNext") \/ IsTop("Last") PROVE ~ended
    <3>1. p \in {"next", "last"}
      BY <2>1, <2>2, PlaceOf DEF IInvAt
    <3> QED
      BY <2>1, <3>1 DEF IInvAt, Closed
  <2>3. MapOnNext \/ BufferOnNext \/ BufferLast
    BY <1>1 DEF Next, SourceStep, ChainStep, OnSubscribe, BufferClear, UserSubscribes,
                UserRequests, UserCancels, UserReturns, Terminated, vars, userVars
  <2>4. ~ended
    BY <2>2, <2>3 DEF MapOnNext, BufferOnNext, BufferLast
  <2> QED
    BY <1>1, <2>1, <2>4 DEF IInvAt, Control
<1> QED
  BY <1>1, Invariance, PTL DEF Spec, EndIsLast

\* How many values are on their way into the chaining stream: none but at "next".
LEMMA InTransitIs ==
  ASSUME NEW p \in Places, NEW d \in Received, NEW e \in Base!Events,
         NEW b \in Bottoms, Form(p, d, e, b)
  PROVE  InTransit = Passing(p, e)
<1> DEFINE Values(s) == {i \in DOMAIN s : s[i].op = "OnNext" /\ s[i].ev = "value"}
<1>1. ASSUME NEW s \in Seq(Frames), NEW f \in Frames, Values(s) = {}
      PROVE  /\ <<f>> \o s \in Seq(Frames)
             /\ Values(<<f>> \o s) = IF f.op = "OnNext" /\ f.ev = "value" THEN {1} ELSE {}
  <2>1. /\ <<f>> \o s \in Seq(Frames)
        /\ DOMAIN s = 1 .. Len(s) /\ Len(s) \in Nat
        /\ DOMAIN (<<f>> \o s) = 1 .. Len(s) + 1
        /\ (<<f>> \o s)[1] = f
        /\ \A i \in 1 .. Len(s) + 1 : i # 1 => (<<f>> \o s)[i] = s[i - 1] /\ i - 1 \in DOMAIN s
    BY <1>1
  <2>2. \A i \in DOMAIN s : ~(s[i].op = "OnNext" /\ s[i].ev = "value")
    BY <1>1
  <2>3. 1 \in 1 .. Len(s) + 1
    BY <2>1
  <2> QED
    BY <2>1, <2>2, <2>3
<1>2. ASSUME NEW s \in Seq(Frames), NEW op \in AllOps, NEW ev \in Received \cup {"none"},
             Values(s) = {}
      PROVE  /\ Call(op, ev, s) \in Seq(Frames)
             /\ Values(Call(op, ev, s)) = IF op = "OnNext" /\ ev = "value" THEN {1} ELSE {}
  <2> DEFINE f == Base!Frame(op, Source, ev)
  <2>1. f \in Frames /\ f.op = op /\ f.ev = ev
    BY DEF Base!Frame, Frames, Received
  <2>2. Call(op, ev, s) = <<f>> \o s
    BY DEF Call, Base!Push
  <2> HIDE DEF f, Values
  <2> QED
    BY <1>1, <1>2, <2>1, <2>2
<1>3. <<>> \in Seq(Frames) /\ Values(<<>>) = {}
  OBVIOUS
<1>4. /\ {"OnSubscribe", "OnNext", "Loop", "After", "UserOnSubscribe", "UserOnNext",
          "Clear", "Last"} \subseteq AllOps
      /\ e \in Received
  BY DEF AllOps, Base!Ops, Received
<1>5. InTransit = Cardinality(Values(stack))
  BY DEF InTransit
<1> HIDE DEF Values
<1>6. ASSUME NEW s \in Seq(Frames), NEW op \in AllOps, NEW ev \in Received \cup {"none"},
             Values(s) = {}, op # "OnNext"
      PROVE  Call(op, ev, s) \in Seq(Frames) /\ Values(Call(op, ev, s)) = {}
  BY <1>2, <1>6
<1>7. b \in Seq(Frames) /\ Values(b) = {}
  BY <1>3, <1>4, <1>6 DEF Bottoms
<1>8. Call("After", e, b) \in Seq(Frames) /\ Values(Call("After", e, b)) = {}
  BY <1>4, <1>6, <1>7
<1>9. /\ Call("Clear", "none", Call("After", e, b)) \in Seq(Frames)
      /\ Values(Call("Clear", "none", Call("After", e, b))) = {}
      /\ Call("Last", e, Call("After", e, b)) \in Seq(Frames)
      /\ Values(Call("Last", e, Call("After", e, b))) = {}
  BY <1>4, <1>6, <1>8
<1>10. CASE p = "next"
  <2>1. Values(stack) = IF e = "value" THEN {1} ELSE {}
    <3>1. stack = Call("OnNext", e, Call("After", e, b))
      BY <1>10 DEF Form
    <3> QED
      BY <1>2, <1>4, <1>8, <3>1
  <2>2. Cardinality({1}) = 1 /\ Cardinality({}) = 0
    BY FS_Singleton, FS_EmptySet
  <2> QED
    BY <1>5, <1>10, <2>1, <2>2 DEF Passing
<1>11. CASE p # "next"
  <2>1. "value" \in Received
    BY DEF Received, Base!Events
  <2>2. Values(stack) = {}
    <3>1. /\ p = "out" => stack = b
          /\ p = "subscribing" => stack = Call("OnSubscribe", "none", <<>>)
          /\ p = "loop" => stack = Call("Loop", "none", b)
          /\ p = "clear" => stack = Call("Clear", "none", Call("After", e, b))
          /\ p = "last" => stack = Call("Last", e, Call("After", e, b))
          /\ p = "after" => stack = Call("After", e, b)
      BY DEF Form
    <3>2. CASE p \in {"out", "subscribing", "loop", "clear", "last", "after"}
      BY <1>3, <1>4, <1>6, <1>7, <1>8, <1>9, <3>1, <3>2
    <3>3. CASE p = "user"
      BY <1>4, <1>6, <1>8, <3>3 DEF Form
    <3>4. CASE p = "clearing"
      BY <1>4, <1>6, <1>9, <2>1, <3>4 DEF Form
    <3>5. CASE p = "flushed"
      BY <1>4, <1>6, <1>9, <2>1, <3>5 DEF Form
    <3> QED
      BY <1>11, <3>2, <3>3, <3>4, <3>5 DEF Places
  <2> QED
    BY <1>5, <1>11, <2>2, FS_EmptySet DEF Passing
<1> QED
  BY <1>10, <1>11

\* Every element of the base is in a vector that the user received, failed in the
\* function of Map, is in the buffer or on its way, once, the buffer is never left
\* full, and nothing is left when the end of the stream comes.
THEOREM EveryElementOnce == Spec => []ElementsConserved
<1>1. ASSUME IInv PROVE ElementsConserved
  <2>1. PICK p \in Places, d \in Received, e \in Base!Events, b \in Bottoms :
          IInvAt(p, d, e, b)
    BY <1>1 DEF IInv
  <2>2. /\ buffered < Size
        /\ yielded[Source] = emitted + failures + buffered + Passing(p, e)
        /\ InTransit = Passing(p, e)
    BY <2>1, InTransitIs DEF IInvAt, Conserved
  <2>3. ASSUME IsTop("UserOnNext"), Top.ev = "done"
        PROVE  emitted + failures = yielded[Source]
    <3>1. p = "user" /\ d = "done"
      BY <2>1, <2>3, PlaceOf, TopAt DEF IInvAt, Calls, Top
    <3>2. buffered = 0 /\ Passing(p, e) = 0 /\ emitted \in Nat /\ failures \in Nat
      BY <2>1, <3>1 DEF IInvAt, Types, Conserved, Passing
    <3> QED
      BY <2>2, <3>2
  <2> QED
    BY <2>2, <2>3 DEF ElementsConserved
<1> QED
  BY <1>1, Invariance, PTL

\* A member of a deleted stream is used by Buffer only, which touches its buffer and
\* its subscriber behind OnNext (lines 470 and 477), and only when the subscriber
\* cancelled within OnNext: neither a cancellation from elsewhere nor the end of
\* the base has the stream deleted under a call, and Map is safe from all of them.
OnlyUnderCancel == fault => operator = "buffer" /\ cancelled

THEOREM FaultOnlyByCancelWithinOnNext == Spec => []OnlyUnderCancel
<1>1. IInv => OnlyUnderCancel
  BY DEF IInv, IInvAt, Safe, OnlyUnderCancel
<1> QED
  BY <1>1, Invariance, PTL

=============================================================================
