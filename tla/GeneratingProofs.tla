-------------------------- MODULE GeneratingProofs --------------------------
(***************************************************************************)
(* Proofs about GeneratingStream, for any number of streams that call each    *)
(* other, any stack depth and any bounds: no stream generates recursively, no *)
(* deleted stream is used, and every stream takes the steps of the contract   *)
(* only.                                                                      *)
(***************************************************************************)
EXTENDS GeneratingStream, FiniteSetTheorems, TLAPS

Frames == [op : Ops, gen : Gens, ev : Events \cup {"none"}]

\* Frame f is of an execution of Generate of stream g.
Runs(f, g) == f.gen = g /\ f.op \in {"Loop", "After"}

\* Frame f waits for the subscriber to take the end of stream g.
SentEnd(f, g) == f.gen = g /\ f.op = "After" /\ IsEnd(f.ev)

\* Of a call stack s: Generate of g executes; it does so once at most; no loop is
\* at its condition; the end of g has been sent.
Executes(s, g) == \E i \in DOMAIN s : Runs(s[i], g)
Once(s, g)     == \A i, j \in DOMAIN s : Runs(s[i], g) /\ Runs(s[j], g) => i = j
NoLoop(s)      == \A i \in DOMAIN s : s[i].op # "Loop"
EndSent(s, g)  == \E i \in DOMAIN s : SentEnd(s[i], g)

\* A loop is at its condition only if it is the innermost call, and then its
\* stream exists.
LoopOnTop == stack # <<>> => /\ NoLoop(Tail(stack))
                             /\ Top.op = "Loop" => Alive(Top.gen)

\* generating_ of a stream that exists says whether Generate executes; a stream
\* that was not constructed yet has no frame.
FlagTruthful(g) == /\ Once(stack, g)
                   /\ Alive(g) => (generating[g] <=> Executes(stack, g))
                   /\ phase[g] = "new" => ~generating[g] /\ ~Executes(stack, g)

IInv == /\ TypeOK
        /\ NoFault
        /\ LoopOnTop
        /\ \A g \in Gens : FlagTruthful(g)

-----------------------------------------------------------------------------
(* Call stacks.                                                              *)

\* A call: the new frame comes before the others.
LEMMA Called ==
  ASSUME NEW s \in Seq(Frames), NEW f \in Frames
  PROVE  /\ Push(f, s) \in Seq(Frames) /\ Push(f, s) # <<>>
         /\ Head(Push(f, s)) = f /\ Tail(Push(f, s)) = s
         /\ DOMAIN Push(f, s) = 1 .. Len(s) + 1
         /\ DOMAIN s = 1 .. Len(s) /\ Len(s) \in Nat
         /\ Push(f, s)[1] = f
         /\ \A i \in 1 .. Len(s) : Push(f, s)[i + 1] = s[i]
  BY DEF Push

\* What a call adds to a stack.
LEMMA CallAdds ==
  ASSUME NEW s \in Seq(Frames), NEW f \in Frames, NEW g
  PROVE  /\ Executes(Push(f, s), g) <=> Runs(f, g) \/ Executes(s, g)
         /\ Once(Push(f, s), g) <=> Once(s, g) /\ ~(Runs(f, g) /\ Executes(s, g))
         /\ NoLoop(Push(f, s)) <=> f.op # "Loop" /\ NoLoop(s)
         /\ EndSent(Push(f, s), g) <=> SentEnd(f, g) \/ EndSent(s, g)
<1> DEFINE p == Push(f, s)
<1>1. /\ DOMAIN p = 1 .. Len(s) + 1 /\ DOMAIN s = 1 .. Len(s) /\ Len(s) \in Nat
      /\ p[1] = f
      /\ \A i \in 1 .. Len(s) : p[i + 1] = s[i]
  BY Called
<1>2. \A i \in DOMAIN s : i + 1 \in DOMAIN p /\ p[i + 1] = s[i]
  BY <1>1
<1>3. \A j \in DOMAIN p : j = 1 \/ (j - 1 \in DOMAIN s /\ p[j] = s[j - 1])
  <2> TAKE j \in DOMAIN p
  <2>1. j \in 1 .. Len(s) + 1 /\ Len(s) \in Nat
    BY <1>1
  <2>2. CASE j # 1
    <3>1. j - 1 \in 1 .. Len(s) /\ (j - 1) + 1 = j
      BY <2>1, <2>2
    <3> QED
      BY <1>1, <3>1
  <2> QED
    BY <2>2
<1>4. 1 \in DOMAIN p /\ p[1] = f
  BY <1>1
<1> HIDE DEF p
<1>5. Executes(p, g) <=> Runs(f, g) \/ Executes(s, g)
  BY <1>2, <1>3, <1>4 DEF Executes
<1>6. NoLoop(p) <=> f.op # "Loop" /\ NoLoop(s)
  BY <1>2, <1>3, <1>4 DEF NoLoop
<1>7. EndSent(p, g) <=> SentEnd(f, g) \/ EndSent(s, g)
  BY <1>2, <1>3, <1>4 DEF EndSent
<1>8. Once(p, g) <=> Once(s, g) /\ ~(Runs(f, g) /\ Executes(s, g))
  <2>1. ASSUME Once(p, g)
        PROVE  Once(s, g) /\ ~(Runs(f, g) /\ Executes(s, g))
    <3>1. ASSUME NEW i \in DOMAIN s, NEW j \in DOMAIN s, Runs(s[i], g), Runs(s[j], g)
          PROVE  i = j
      <4>1. i + 1 = j + 1
        BY <1>2, <2>1, <3>1 DEF Once
      <4> QED
        BY <1>1, <4>1
    <3>2. ASSUME Runs(f, g), NEW i \in DOMAIN s, Runs(s[i], g)
          PROVE  FALSE
      <4>1. i + 1 = 1
        BY <1>2, <1>4, <2>1, <3>2 DEF Once
      <4> QED
        BY <1>1, <4>1
    <3> QED
      BY <3>1, <3>2 DEF Once, Executes
  <2>2. ASSUME Once(s, g), ~(Runs(f, g) /\ Executes(s, g)),
               NEW i \in DOMAIN p, NEW j \in DOMAIN p, Runs(p[i], g), Runs(p[j], g)
        PROVE  i = j
    <3>1. CASE i = 1 /\ j # 1
      BY <1>3, <1>4, <2>2, <3>1 DEF Executes
    <3>2. CASE i # 1 /\ j = 1
      BY <1>3, <1>4, <2>2, <3>2 DEF Executes
    <3>3. CASE i # 1 /\ j # 1
      <4>1. i - 1 = j - 1
        BY <1>3, <2>2, <3>3 DEF Once
      <4>2. i \in Int /\ j \in Int
        BY <1>1, <2>2 DEF p
      <4> QED
        BY <4>1, <4>2
    <3> QED
      BY <3>1, <3>2, <3>3
  <2> QED
    BY <2>1, <2>2 DEF Once
<1> QED
  BY <1>5, <1>6, <1>7, <1>8 DEF p

\* A stack that is not empty is a call from its tail.
LEMMA Caller ==
  ASSUME NEW s \in Seq(Frames), s # <<>>
  PROVE  /\ Head(s) \in Frames /\ Tail(s) \in Seq(Frames)
         /\ s = Push(Head(s), Tail(s))
  BY DEF Push

\* The empty stack.
LEMMA NoCalls ==
  ASSUME NEW g
  PROVE  ~Executes(<<>>, g) /\ Once(<<>>, g) /\ NoLoop(<<>>) /\ ~EndSent(<<>>, g)
  BY DEF Executes, Once, NoLoop, EndSent

\* Frames that actions push.
LEMMA FrameTypes ==
  ASSUME NEW g \in Gens
  PROVE  /\ Frame("OnSubscribe", g, "none") \in Frames
         /\ Frame("Loop", g, "none") \in Frames
         /\ \A e \in Events : Frame("OnNext", g, e) \in Frames /\ Frame("After", g, e) \in Frames
         /\ \A h : ~Runs(Frame("OnSubscribe", g, "none"), h)
         /\ \A h : Runs(Frame("Loop", g, "none"), h) <=> h = g
         /\ \A h, e : ~Runs(Frame("OnNext", g, e), h)
         /\ \A h, e : Runs(Frame("After", g, e), h) <=> h = g
         /\ \A h : ~SentEnd(Frame("OnSubscribe", g, "none"), h)
         /\ \A h : ~SentEnd(Frame("Loop", g, "none"), h)
         /\ \A h, e : ~SentEnd(Frame("OnNext", g, e), h)
         /\ \A h, e : SentEnd(Frame("After", g, e), h) <=> h = g /\ IsEnd(e)
  BY DEF Frame, Frames, Ops, Runs, SentEnd

\* The counter stays a counter; events that are not limited are always there.
LEMMA Balances ==
  ASSUME NEW b \in Balance, NEW n \in Balance
  PROVE  /\ AddTo(b, n) \in Balance
         /\ HasRequests(b) => CanRemove(b, 1) /\ RemoveFrom(b, 1) \in Balance
  BY KMaxAssumption DEF Balance, AddTo, HasRequests, CanRemove, RemoveFrom

-----------------------------------------------------------------------------
(* The steps preserve the invariant.                                         *)

\* While user code executes no loop is at its condition.
LEMMA UserNoLoop ==
  ASSUME IInv, UserActive
  PROVE  stack \in Seq(Frames) /\ NoLoop(stack)
<1>1. stack \in Seq(Frames)
  BY DEF IInv, TypeOK, Frames
<1>2. CASE stack = <<>>
  BY <1>2, NoCalls
<1>3. CASE stack # <<>>
  <2>1. /\ Head(stack) \in Frames /\ Tail(stack) \in Seq(Frames)
        /\ stack = Push(Head(stack), Tail(stack))
    BY <1>1, <1>3, Caller
  <2>2. NoLoop(Tail(stack)) /\ Head(stack).op # "Loop"
    BY <1>3 DEF IInv, LoopOnTop, UserActive, Top
  <2>3. ASSUME NEW f \in Frames, NEW s \in Seq(Frames), f.op # "Loop", NoLoop(s)
        PROVE  NoLoop(Push(f, s))
    BY <2>3, CallAdds
  <2>4. NoLoop(Push(Head(stack), Tail(stack)))
    BY <2>1, <2>2, <2>3
  <2> QED
    BY <1>1, <2>1, <2>4
<1> QED
  BY <1>1, <1>2, <1>3

\* The invariant holds initially.
LEMMA InitInv == Init => IInv
<1> SUFFICES ASSUME Init PROVE IInv
  OBVIOUS
<1>1. TypeOK
  <2>1. 0 \in Balance
    BY KMaxAssumption DEF Balance
  <2>2. <<>> \in Seq(Frames)
    OBVIOUS
  <2> QED
    BY <2>1, <2>2 DEF Init, TypeOK, Frames
<1>2. LoopOnTop /\ NoFault
  BY DEF Init, LoopOnTop, NoFault
<1>3. \A g \in Gens : FlagTruthful(g)
  BY NoCalls DEF Init, FlagTruthful, Alive
<1> QED
  BY <1>1, <1>2, <1>3 DEF IInv

\* A stream is constructed: its flag is not set and it has no frame.
LEMMA ConstructInv ==
  ASSUME IInv, UserActive, NEW g \in Gens, Construct(g, stack),
         UNCHANGED <<history, fault>>
  PROVE  IInv'
<1> DEFINE f == Frame("OnSubscribe", g, "none")
<1>1. /\ phase[g] = "new" /\ phase' = [phase EXCEPT ![g] = "alive"]
      /\ stack' = Push(f, stack)
      /\ UNCHANGED <<requested, generating, yielded, granted, delivered, fault>>
  BY DEF Construct, history
<1>2. stack \in Seq(Frames) /\ NoLoop(stack)
  BY UserNoLoop
<1>3. f \in Frames /\ f.op # "Loop" /\ \A h : ~Runs(f, h)
  BY FrameTypes DEF Frame
<1> HIDE DEF f
<1>4. /\ stack' \in Seq(Frames) /\ Head(stack') = f /\ Tail(stack') = stack
      /\ \A h : Executes(stack', h) <=> Executes(stack, h)
      /\ \A h : Once(stack', h) <=> Once(stack, h)
  BY <1>1, <1>2, <1>3, Called, CallAdds
<1>5. TypeOK'
  BY <1>1, <1>4 DEF IInv, TypeOK, Frames
<1>6. LoopOnTop'
  BY <1>2, <1>3, <1>4 DEF LoopOnTop, Top
<1>7. ASSUME NEW h \in Gens PROVE FlagTruthful(h)'
  <2>1. FlagTruthful(h) /\ phase \in [Gens -> {"new", "alive", "deleted"}]
    BY DEF IInv, TypeOK
  <2> QED
    BY <1>1, <1>4, <2>1 DEF FlagTruthful, Alive
<1>8. NoFault'
  BY <1>1 DEF IInv, NoFault
<1> QED
  BY <1>5, <1>6, <1>7, <1>8 DEF IInv

\* A request starts Generate if and only if it does not execute yet.
LEMMA RequestInv ==
  ASSUME IInv, UserRequests
  PROVE  IInv'
<1>1. PICK g \in Gens, n \in Counts :
        /\ Alive(g)
        /\ Request(g, n, stack)
        /\ granted' = [granted EXCEPT ![g] = @ + n]
  BY DEF UserRequests
<1> DEFINE f == Frame("Loop", g, "none")
<1>2. /\ requested' = [requested EXCEPT ![g] = AddTo(@, n)]
      /\ generating' = [generating EXCEPT ![g] = TRUE]
      /\ stack' = IF ~generating[g] THEN Push(f, stack) ELSE stack
      /\ UNCHANGED <<phase, yielded, delivered, fault>>
  BY <1>1 DEF Request, StartsGenerate, UserRequests
<1>3. stack \in Seq(Frames) /\ NoLoop(stack)
  BY UserNoLoop DEF UserRequests
<1>4. f \in Frames /\ f.op = "Loop" /\ f.gen = g /\ \A h : Runs(f, h) <=> h = g
  BY FrameTypes DEF Frame
<1> HIDE DEF f
<1>5. n \in Balance /\ n \in Nat /\ requested[g] \in Balance
  BY GeneratingAssumption DEF IInv, TypeOK, Balance
<1>6. AddTo(requested[g], n) \in Balance
  BY <1>5, Balances
<1>7. requested' \in [Gens -> Balance] /\ granted' \in [Gens -> Nat]
      /\ generating' \in [Gens -> BOOLEAN]
  BY <1>1, <1>2, <1>5, <1>6 DEF IInv, TypeOK
<1>8. stack' \in Seq(Frames)
  BY <1>2, <1>3, <1>4, Called
<1>9. TypeOK'
  BY <1>2, <1>7, <1>8 DEF IInv, TypeOK, Frames
<1>10. NoFault'
  BY <1>2 DEF IInv, NoFault
<1>11. CASE generating[g]
  <2>1. stack' = stack /\ generating' = generating
    BY <1>2, <1>11 DEF IInv, TypeOK
  <2>2. LoopOnTop'
    BY <1>2, <2>1 DEF IInv, LoopOnTop, Top, Alive
  <2>3. \A h \in Gens : FlagTruthful(h)'
    BY <1>2, <2>1 DEF IInv, FlagTruthful, Alive
  <2> QED
    BY <1>9, <1>10, <2>2, <2>3 DEF IInv
<1>12. CASE ~generating[g]
  <2>1. stack' = Push(f, stack) /\ Head(stack') = f /\ Tail(stack') = stack
    BY <1>2, <1>3, <1>4, <1>12, Called
  <2>2. \A h : /\ Executes(stack', h) <=> h = g \/ Executes(stack, h)
               /\ Once(stack', h) <=> Once(stack, h) /\ ~(h = g /\ Executes(stack, h))
    BY <1>3, <1>4, <2>1, CallAdds
  <2>3. ~Executes(stack, g)
    BY <1>1, <1>12 DEF IInv, FlagTruthful
  <2>4. LoopOnTop'
    BY <1>1, <1>2, <1>3, <1>4, <2>1 DEF LoopOnTop, Top, Alive
  <2>5. ASSUME NEW h \in Gens PROVE FlagTruthful(h)'
    <3>1. FlagTruthful(h) /\ phase' = phase /\ Alive(g)
      BY <1>1, <1>2 DEF IInv
    <3>2. generating'[h] = (h = g \/ generating[h])
      BY <1>2 DEF IInv, TypeOK
    <3> QED
      BY <2>2, <2>3, <3>1, <3>2 DEF FlagTruthful, Alive
  <2> QED
    BY <1>9, <1>10, <2>4, <2>5 DEF IInv
<1> QED
  BY <1>11, <1>12

\* Cancel: a stream that is deleted has no loop at its condition.
LEMMA CancelInv ==
  ASSUME IInv, UserCancels
  PROVE  IInv'
<1>1. PICK g \in Gens : phase' = [phase EXCEPT ![g] = "deleted"]
  BY DEF UserCancels, Cancel
<1>2. UNCHANGED <<stack, requested, generating, yielded, granted, delivered, fault>>
  BY DEF UserCancels, Cancel, history
<1>3. stack \in Seq(Frames) /\ NoLoop(stack)
  BY UserNoLoop DEF UserCancels
<1>4. TypeOK' /\ NoFault'
  BY <1>1, <1>2 DEF IInv, TypeOK, NoFault
<1>5. LoopOnTop'
  BY <1>2 DEF IInv, LoopOnTop, UserCancels, UserActive, Top
<1>6. ASSUME NEW h \in Gens PROVE FlagTruthful(h)'
  <2>1. FlagTruthful(h) /\ phase \in [Gens -> {"new", "alive", "deleted"}]
    BY DEF IInv, TypeOK
  <2> QED
    BY <1>1, <1>2, <2>1 DEF FlagTruthful, Alive
<1> QED
  BY <1>4, <1>5, <1>6 DEF IInv

\* What is left when the innermost call, which was not a loop at its condition,
\* returns.
LEMMA ReturnLeaves ==
  ASSUME IInv, stack # <<>>
  PROVE  /\ Top \in Frames /\ Tail(stack) \in Seq(Frames)
         /\ NoLoop(Tail(stack))
         /\ \A h : /\ Executes(stack, h) <=> Runs(Top, h) \/ Executes(Tail(stack), h)
                   /\ Once(stack, h) <=> /\ Once(Tail(stack), h)
                                         /\ ~(Runs(Top, h) /\ Executes(Tail(stack), h))
                   /\ EndSent(stack, h) <=> SentEnd(Top, h) \/ EndSent(Tail(stack), h)
<1>1. stack \in Seq(Frames)
  BY DEF IInv, TypeOK, Frames
<1>2. /\ Top \in Frames /\ Tail(stack) \in Seq(Frames)
      /\ stack = Push(Top, Tail(stack))
  BY <1>1, Caller DEF Top
<1>3. NoLoop(Tail(stack))
  BY DEF IInv, LoopOnTop
<1> DEFINE p == Push(Top, Tail(stack))
<1>4. \A h : /\ Executes(p, h) <=> Runs(Top, h) \/ Executes(Tail(stack), h)
             /\ Once(p, h) <=> /\ Once(Tail(stack), h)
                               /\ ~(Runs(Top, h) /\ Executes(Tail(stack), h))
             /\ EndSent(p, h) <=> SentEnd(Top, h) \/ EndSent(Tail(stack), h)
  BY <1>2, CallAdds
<1>5. stack = p
  BY <1>2
<1> HIDE DEF p
<1> QED
  BY <1>2, <1>3, <1>4, <1>5

\* Without a loop anywhere on the stack LoopOnTop holds.
LEMMA NoLoopNowhere ==
  ASSUME NEW s \in Seq(Frames), NoLoop(s), s # <<>>
  PROVE  NoLoop(Tail(s)) /\ Head(s).op # "Loop"
<1>1. Head(s) \in Frames /\ Tail(s) \in Seq(Frames) /\ s = Push(Head(s), Tail(s))
  BY Caller
<1> QED
  BY <1>1, CallAdds

\* A method of a subscriber returns.
LEMMA ReturnInv ==
  ASSUME IInv, UserReturns
  PROVE  IInv'
<1>1. /\ stack # <<>> /\ Top.op \in {"OnSubscribe", "OnNext"}
      /\ stack' = Tail(stack)
      /\ UNCHANGED <<phase, requested, generating, yielded, granted, delivered, fault>>
  BY DEF UserReturns, UserActive, streamVars, history
<1>2. /\ stack' \in Seq(Frames) /\ NoLoop(stack')
      /\ \A h : /\ Executes(stack, h) <=> Runs(Top, h) \/ Executes(stack', h)
                /\ Once(stack, h) => Once(stack', h)
  BY <1>1, ReturnLeaves
<1>3. \A h : ~Runs(Top, h)
  BY <1>1 DEF Runs
<1>4. TypeOK' /\ NoFault'
  BY <1>1, <1>2 DEF IInv, TypeOK, NoFault, Frames
<1>5. LoopOnTop'
  BY <1>2, NoLoopNowhere DEF LoopOnTop, Top
<1>6. \A h \in Gens : FlagTruthful(h)'
  BY <1>1, <1>2, <1>3 DEF IInv, FlagTruthful, Alive
<1> QED
  BY <1>4, <1>5, <1>6 DEF IInv

\* The loop produces an event: the frame of the loop becomes the frame that
\* waits for the subscriber.
LEMMA ProduceInv ==
  ASSUME IInv, stack # <<>>, Top.op = "Loop", Produce(Top.gen)
  PROVE  IInv'
<1> DEFINE g == Top.gen
           rest == Tail(stack)
<1>1. /\ Top \in Frames /\ rest \in Seq(Frames) /\ NoLoop(rest)
      /\ g \in Gens /\ Alive(g)
      /\ \A h : Runs(Top, h) <=> h = g
  BY ReturnLeaves DEF IInv, LoopOnTop, Frames, Runs
<1>2. PICK ev \in Generated(g) :
        /\ yielded' = [yielded EXCEPT ![g] = IF IsEnd(ev) THEN @ ELSE @ + 1]
        /\ stack' = Push(Frame("OnNext", g, ev), Push(Frame("After", g, ev), rest))
  BY DEF Produce
<1>3. /\ HasRequests(requested[g])
      /\ fault' = (~Alive(g) \/ ~CanRemove(requested[g], 1))
      /\ requested' = [requested EXCEPT ![g] = RemoveFrom(@, 1)]
      /\ delivered' = [delivered EXCEPT ![g] = @ + 1]
      /\ UNCHANGED <<phase, generating, granted>>
  BY DEF Produce
<1>4. ev \in Events
  BY GeneratingAssumption DEF Generated, Events
<1>5. requested[g] \in Balance /\ 1 \in Balance
  BY <1>1, KMaxAssumption DEF IInv, TypeOK, Balance
<1>6. CanRemove(requested[g], 1) /\ RemoveFrom(requested[g], 1) \in Balance
  BY <1>3, <1>5, Balances
<1>7. NoFault'
  BY <1>1, <1>3, <1>6 DEF NoFault
<1> DEFINE a == Frame("After", g, ev)
           o == Frame("OnNext", g, ev)
<1>8. /\ a \in Frames /\ o \in Frames
      /\ a.op # "Loop" /\ o.op # "Loop"
      /\ \A h : Runs(a, h) <=> h = g
      /\ \A h : ~Runs(o, h)
  BY <1>1, <1>4, FrameTypes DEF Frame
<1>9. stack' = Push(o, Push(a, rest))
  BY <1>2
<1> HIDE DEF a, o, rest
<1>10. Push(a, rest) \in Seq(Frames) /\ NoLoop(Push(a, rest))
       /\ \A h : /\ Executes(Push(a, rest), h) <=> h = g \/ Executes(rest, h)
                 /\ Once(Push(a, rest), h) <=> Once(rest, h) /\ ~(h = g /\ Executes(rest, h))
  BY <1>1, <1>8, Called, CallAdds
<1>11. /\ stack' \in Seq(Frames) /\ Head(stack') = o /\ Tail(stack') = Push(a, rest)
       /\ \A h : /\ Executes(stack', h) <=> h = g \/ Executes(rest, h)
                 /\ Once(stack', h) <=> Once(rest, h) /\ ~(h = g /\ Executes(rest, h))
  BY <1>8, <1>9, <1>10, Called, CallAdds
<1>12. \A h : /\ Executes(stack, h) <=> h = g \/ Executes(rest, h)
              /\ Once(stack, h) <=> Once(rest, h) /\ ~(h = g /\ Executes(rest, h))
  BY <1>1, ReturnLeaves DEF rest
<1>13. /\ yielded' \in [Gens -> Nat] /\ requested' \in [Gens -> Balance]
       /\ delivered' \in [Gens -> Nat]
  <2>1. yielded \in [Gens -> Nat] /\ delivered \in [Gens -> Nat]
        /\ requested \in [Gens -> Balance]
    BY DEF IInv, TypeOK
  <2>2. yielded' \in [Gens -> Nat]
    BY <1>1, <1>2, <2>1
  <2>3. requested' \in [Gens -> Balance]
    BY <1>1, <1>3, <1>6, <2>1
  <2>4. delivered' \in [Gens -> Nat]
    BY <1>1, <1>3, <2>1
  <2> QED
    BY <2>2, <2>3, <2>4
<1>14. TypeOK'
  BY <1>3, <1>7, <1>11, <1>13 DEF IInv, TypeOK, Frames, NoFault
<1>15. LoopOnTop'
  BY <1>8, <1>10, <1>11 DEF LoopOnTop, Top
<1>16. \A h \in Gens : FlagTruthful(h)'
  BY <1>3, <1>11, <1>12 DEF IInv, FlagTruthful, Alive
<1> QED
  BY <1>7, <1>14, <1>15, <1>16 DEF IInv

\* The loop ends: no request is left, and the flag is reset.
LEMMA PauseInv ==
  ASSUME IInv, stack # <<>>, Top.op = "Loop", Pause(Top.gen)
  PROVE  IInv'
<1> DEFINE g == Top.gen
<1>1. /\ g \in Gens /\ Alive(g)
      /\ \A h : Runs(Top, h) <=> h = g
  BY ReturnLeaves DEF IInv, LoopOnTop, Frames, Runs
<1>2. /\ fault' = ~Alive(g)
      /\ generating' = [generating EXCEPT ![g] = FALSE]
      /\ stack' = Tail(stack)
      /\ UNCHANGED <<phase, requested, yielded, granted, delivered>>
  BY DEF Pause, history
<1>3. /\ stack' \in Seq(Frames) /\ NoLoop(stack')
      /\ \A h : /\ Executes(stack, h) <=> h = g \/ Executes(stack', h)
                /\ Once(stack, h) <=> Once(stack', h) /\ ~(h = g /\ Executes(stack', h))
  BY <1>1, <1>2, ReturnLeaves
<1>4. TypeOK' /\ NoFault'
  BY <1>1, <1>2, <1>3 DEF IInv, TypeOK, NoFault, Frames
<1>5. LoopOnTop'
  BY <1>3, NoLoopNowhere DEF LoopOnTop, Top
<1>6. ASSUME NEW h \in Gens PROVE FlagTruthful(h)'
  <2>1. FlagTruthful(h) /\ generating'[h] = (h # g /\ generating[h])
    BY <1>2 DEF IInv, TypeOK
  <2> QED
    BY <1>1, <1>2, <1>3, <2>1 DEF FlagTruthful, Alive
<1> QED
  BY <1>4, <1>5, <1>6 DEF IInv

\* The subscriber returned: the loop goes on unless the stream is gone, or has
\* ended and goes now.
LEMMA AfterInv ==
  ASSUME IInv, AfterOnNext
  PROVE  IInv'
<1> DEFINE g == Top.gen
           ev == Top.ev
           f == Frame("Loop", g, "none")
<1>1. /\ stack # <<>> /\ Top.op = "After"
      /\ phase' = [phase EXCEPT ![g] = IF Deletes(g, ev) THEN "deleted" ELSE @]
      /\ stack' = IF Bails(g, ev) \/ Deletes(g, ev) THEN Tail(stack) ELSE Push(f, Tail(stack))
      /\ UNCHANGED <<requested, generating, yielded, granted, delivered, fault>>
  BY DEF AfterOnNext, history
<1>2. /\ g \in Gens /\ Tail(stack) \in Seq(Frames) /\ NoLoop(Tail(stack))
      /\ \A h : Runs(Top, h) <=> h = g
      /\ \A h : /\ Executes(stack, h) <=> h = g \/ Executes(Tail(stack), h)
                /\ Once(stack, h) <=> /\ Once(Tail(stack), h)
                                      /\ ~(h = g /\ Executes(Tail(stack), h))
  <2>1. Top \in Frames /\ \A h : Runs(Top, h) <=> h = g
    BY <1>1, ReturnLeaves DEF Runs
  <2> QED
    BY <1>1, <2>1, ReturnLeaves DEF Frames
<1>3. f \in Frames /\ f.op = "Loop" /\ f.gen = g /\ \A h : Runs(f, h) <=> h = g
  BY <1>2, FrameTypes DEF Frame
<1>4. phase \in [Gens -> {"new", "alive", "deleted"}]
      /\ phase' \in [Gens -> {"new", "alive", "deleted"}]
  BY <1>1 DEF IInv, TypeOK
<1>5. NoFault'
  BY <1>1 DEF IInv, NoFault
<1> HIDE DEF f
<1>6. CASE Bails(g, ev) \/ Deletes(g, ev)
  <2>1. stack' = Tail(stack)
    BY <1>1, <1>6
  <2>2. TypeOK'
    BY <1>1, <1>2, <1>4, <2>1 DEF IInv, TypeOK, Frames
  <2>3. LoopOnTop'
    BY <1>2, <2>1, NoLoopNowhere DEF LoopOnTop, Top
  <2>4. ASSUME NEW h \in Gens PROVE FlagTruthful(h)'
    <3>1. FlagTruthful(h) /\ FlagTruthful(g)
      BY <1>2 DEF IInv
    <3>2. phase[g] # "new"
      BY <1>2, <3>1 DEF FlagTruthful
    <3>3. phase'[g] = "deleted" /\ (h # g => phase'[h] = phase[h])
      BY <1>1, <1>2, <1>4, <1>6, <3>2 DEF Bails, Deletes, Alive
    <3> QED
      BY <1>1, <1>2, <2>1, <3>1, <3>3 DEF FlagTruthful, Alive
  <2> QED
    BY <1>5, <2>2, <2>3, <2>4 DEF IInv
<1>7. CASE ~(Bails(g, ev) \/ Deletes(g, ev))
  <2>1. stack' = Push(f, Tail(stack)) /\ Alive(g) /\ phase' = phase
    BY <1>1, <1>4, <1>7 DEF Bails, Deletes
  <2>2. /\ stack' \in Seq(Frames) /\ Head(stack') = f /\ Tail(stack') = Tail(stack)
        /\ \A h : /\ Executes(stack', h) <=> Executes(stack, h)
                  /\ Once(stack', h) <=> Once(stack, h)
    BY <1>2, <1>3, <2>1, Called, CallAdds
  <2>3. TypeOK'
    BY <1>1, <1>4, <2>2 DEF IInv, TypeOK, Frames
  <2>4. LoopOnTop'
    BY <1>2, <1>3, <2>1, <2>2 DEF LoopOnTop, Top, Alive
  <2>5. \A h \in Gens : FlagTruthful(h)'
    BY <1>1, <2>1, <2>2 DEF IInv, FlagTruthful, Alive
  <2> QED
    BY <1>5, <2>3, <2>4, <2>5 DEF IInv
<1> QED
  BY <1>6, <1>7

\* IInv is an inductive invariant of generating streams.
LEMMA NextInv == IInv /\ [Next]_vars => IInv'
<1> SUFFICES ASSUME IInv, [Next]_vars PROVE IInv'
  OBVIOUS
<1>1. CASE Generate
  BY <1>1, ProduceInv, PauseInv DEF Generate
<1>2. CASE AfterOnNext
  BY <1>2, AfterInv
<1>3. CASE UserSubscribes
  BY <1>3, ConstructInv DEF UserSubscribes
<1>4. CASE UserRequests
  BY <1>4, RequestInv
<1>5. CASE UserCancels
  BY <1>5, CancelInv
<1>6. CASE UserReturns
  BY <1>6, ReturnInv
<1>7. CASE Terminated \/ UNCHANGED vars
  BY <1>7 DEF Terminated, vars, streamVars, history, IInv, TypeOK, NoFault,
              LoopOnTop, FlagTruthful, Alive, Top
<1> QED
  BY <1>1, <1>2, <1>3, <1>4, <1>5, <1>6, <1>7 DEF Next

\* The invariant holds in every state that is reached.
LEMMA Invariance == Spec => []IInv
  BY InitInv, NextInv, PTL DEF Spec

-----------------------------------------------------------------------------
(* What follows from the invariant.                                          *)

\* No RX_CHECK of a generating stream fails and no member of a deleted one is
\* used, wherever its subscriber cancels (line 180), for any number of streams
\* whose subscribers call one another to any depth.
THEOREM StreamsAreNotUsedAfterDeletion == Spec => []NoFault
<1>1. IInv => NoFault
  BY DEF IInv
<1> QED
  BY <1>1, Invariance, PTL

\* Generate of a stream is on the call stack once at most, however subscribers
\* request from within OnNext, and generating_ says exactly whether it is (lines
\* 159-163).
THEOREM GenerateDoesNotRecurse == Spec => []NoDeepRecursion
<1>1. IInv => NoDeepRecursion
  <2> SUFFICES ASSUME IInv, NEW g \in Gens
               PROVE  /\ Cardinality(FramesOf(g, {"Loop", "After"})) <= 1
                      /\ Alive(g) => (generating[g] <=> FramesOf(g, {"Loop", "After"}) # {})
    BY DEF NoDeepRecursion
  <2> DEFINE F == FramesOf(g, {"Loop", "After"})
  <2>1. /\ F # {} <=> Executes(stack, g)
        /\ Once(stack, g) => \A i, j \in F : i = j
    BY DEF FramesOf, Executes, Once, Runs
  <2>2. Once(stack, g) /\ (Alive(g) => (generating[g] <=> Executes(stack, g)))
    BY DEF IInv, FlagTruthful
  <2>3. F = {} \/ \E i : F = {i}
    BY <2>1, <2>2
  <2>4. Cardinality(F) = 0 \/ Cardinality(F) = 1
    BY <2>3, FS_EmptySet, FS_Singleton, Zenon
  <2> QED
    BY <2>1, <2>2, <2>4
<1> QED
  BY <1>1, Invariance, PTL

-----------------------------------------------------------------------------
(* Every generating stream takes the steps of the contract only.              *)

\* Status depends on the phase and on whether the end was sent only, before and
\* after a step.
LEMMA StatusIs ==
  ASSUME NEW g \in Gens
  PROVE  /\ phase[g] = "new" => Status(g) = "new"
         /\ phase[g] = "deleted" => Status(g) = "gone"
         /\ phase[g] = "alive" /\ EndSent(stack, g) => Status(g) = "ending"
         /\ phase[g] = "alive" /\ ~EndSent(stack, g) => Status(g) = "open"
         /\ phase'[g] = "new" => Status(g)' = "new"
         /\ phase'[g] = "deleted" => Status(g)' = "gone"
         /\ phase'[g] = "alive" /\ EndSent(stack', g) => Status(g)' = "ending"
         /\ phase'[g] = "alive" /\ ~EndSent(stack', g) => Status(g)' = "open"
<1>1. EndingOf(g) <=> phase[g] = "alive" /\ EndSent(stack, g)
  BY DEF EndingOf, Alive, FramesOf, EndSent, SentEnd
<1>2. EndingOf(g)' <=> phase'[g] = "alive" /\ EndSent(stack', g)
  BY DEF EndingOf, Alive, FramesOf, EndSent, SentEnd
<1> QED
  BY <1>1, <1>2 DEF Status

\* Status stays where the phase does and no end is sent.
LEMMA SameStatus ==
  ASSUME NEW g \in Gens, phase \in [Gens -> {"new", "alive", "deleted"}],
         phase'[g] = phase[g],
         phase[g] = "alive" => (EndSent(stack', g) <=> EndSent(stack, g))
  PROVE  Status(g)' = Status(g)
<1>1. phase[g] \in {"new", "alive", "deleted"}
  OBVIOUS
<1>2. CASE phase[g] = "alive"
  <2>1. CASE EndSent(stack, g)
    BY <1>2, <2>1, StatusIs
  <2>2. CASE ~EndSent(stack, g)
    BY <1>2, <2>2, StatusIs
  <2> QED
    BY <2>1, <2>2
<1>3. CASE phase[g] # "alive"
  BY <1>1, <1>3, StatusIs
<1> QED
  BY <1>2, <1>3

\* An end that was sent belongs to an execution of Generate.
LEMMA SentIsExecuting ==
  ASSUME NEW s, NEW g, EndSent(s, g)
  PROVE  Executes(s, g)
  BY DEF EndSent, Executes, SentEnd, Runs

\* Status of stream g changes, if any.
LEMMA OneStreamShows ==
  ASSUME NEW g \in Gens, \A h \in Gens \ {g} : Status(h)' = Status(h)
  PROVE  [h \in Gens |-> Status(h)]' =
           [[h \in Gens |-> Status(h)] EXCEPT ![g] = Status(g)']
  OBVIOUS

\* Nothing that a subscriber could see changes.
LEMMA ShowsNothing ==
  ASSUME \A h \in Gens : Status(h)' = Status(h), UNCHANGED <<requested, delivered>>
  PROVE  UNCHANGED Contract!vars
  BY DEF Contract!vars

\* The constructor calls OnSubscribe.
LEMMA ConstructShows ==
  ASSUME IInv, UserActive, NEW g \in Gens, Construct(g, stack),
         UNCHANGED <<history, fault>>
  PROVE  Contract!Subscribe(g)
<1> DEFINE f == Frame("OnSubscribe", g, "none")
<1>1. /\ phase[g] = "new" /\ phase' = [phase EXCEPT ![g] = "alive"]
      /\ stack' = Push(f, stack)
      /\ UNCHANGED <<requested, delivered>>
  BY DEF Construct, history
<1>2. stack \in Seq(Frames)
  BY UserNoLoop
<1>3. \A h : EndSent(stack', h) <=> EndSent(stack, h)
  BY <1>1, <1>2, FrameTypes, CallAdds
<1>4. ~EndSent(stack, g)
  BY <1>1, SentIsExecuting DEF IInv, FlagTruthful
<1>5. Status(g) = "new" /\ Status(g)' = "open"
  BY <1>1, <1>3, <1>4, StatusIs DEF IInv, TypeOK
<1>6. \A h \in Gens \ {g} : Status(h)' = Status(h)
  <2> SUFFICES ASSUME NEW h \in Gens \ {g} PROVE Status(h)' = Status(h)
    OBVIOUS
  <2> QED
    BY <1>1, <1>3, SameStatus DEF IInv, TypeOK
<1> QED
  BY <1>1, <1>5, <1>6, OneStreamShows DEF Contract!Subscribe

\* Request adds to what the contract calls credit.
LEMMA RequestShows ==
  ASSUME IInv, UserRequests
  PROVE  Contract!Next
<1>1. PICK g \in Gens, n \in Counts : Alive(g) /\ Request(g, n, stack)
  BY DEF UserRequests
<1>2. /\ requested' = [requested EXCEPT ![g] = AddTo(@, n)]
      /\ stack' = stack \/ stack' = Push(Frame("Loop", g, "none"), stack)
      /\ UNCHANGED <<phase, delivered>>
  BY <1>1 DEF Request, UserRequests
<1>3. stack \in Seq(Frames)
  BY UserNoLoop DEF UserRequests
<1>4. \A h : EndSent(stack', h) <=> EndSent(stack, h)
  BY <1>2, <1>3, FrameTypes, CallAdds
<1>5. \A h \in Gens : Status(h)' = Status(h)
  <2> SUFFICES ASSUME NEW h \in Gens PROVE Status(h)' = Status(h)
    OBVIOUS
  <2> QED
    BY <1>2, <1>4, SameStatus DEF IInv, TypeOK
<1>6. Status(g) \in {"open", "ending"}
  BY <1>1, StatusIs DEF Alive
<1>7. n \in Contract!Balance /\ \A b : AddTo(b, n) = Contract!AddTo(b, n)
  BY GeneratingAssumption DEF Balance, Contract!Balance, AddTo, Contract!AddTo
<1>8. Contract!Request(g)
  BY <1>2, <1>5, <1>6, <1>7 DEF Contract!Request
<1> QED
  BY <1>8 DEF Contract!Next

\* Cancel destroys the stream.
LEMMA CancelShows ==
  ASSUME IInv, UserCancels
  PROVE  Contract!Next
<1>1. PICK g \in Gens : Alive(g) /\ phase' = [phase EXCEPT ![g] = "deleted"]
  BY DEF UserCancels, Cancel
<1>2. UNCHANGED <<stack, requested, delivered>>
  BY DEF UserCancels, Cancel, history
<1>3. Status(g) \in {"open", "ending"} /\ Status(g)' = "gone"
  BY <1>1, <1>2, StatusIs DEF Alive, IInv, TypeOK
<1>4. \A h \in Gens \ {g} : Status(h)' = Status(h)
  <2> SUFFICES ASSUME NEW h \in Gens \ {g} PROVE Status(h)' = Status(h)
    OBVIOUS
  <2> QED
    BY <1>1, <1>2, SameStatus DEF IInv, TypeOK
<1>5. Contract!Destroy(g)
  BY <1>2, <1>3, <1>4, OneStreamShows DEF Contract!Destroy
<1> QED
  BY <1>5 DEF Contract!Next

\* The return of a method of the subscriber shows nothing.
LEMMA ReturnShows ==
  ASSUME IInv, UserReturns
  PROVE  UNCHANGED Contract!vars
<1>1. /\ stack # <<>> /\ Top.op \in {"OnSubscribe", "OnNext"}
      /\ stack' = Tail(stack)
      /\ UNCHANGED <<phase, requested, delivered>>
  BY DEF UserReturns, UserActive, streamVars, history
<1>2. \A h : EndSent(stack, h) <=> EndSent(stack', h)
  BY <1>1, ReturnLeaves DEF SentEnd
<1>3. \A h \in Gens : Status(h)' = Status(h)
  <2> SUFFICES ASSUME NEW h \in Gens PROVE Status(h)' = Status(h)
    OBVIOUS
  <2> QED
    BY <1>1, <1>2, SameStatus DEF IInv, TypeOK
<1> QED
  BY <1>1, <1>3, ShowsNothing

\* An event is delivered: it was requested, and it is the first after the end of
\* the stream if it is the end.
LEMMA ProduceShows ==
  ASSUME IInv, stack # <<>>, Top.op = "Loop", NEW g, g = Top.gen, Produce(g)
  PROVE  Contract!Deliver(g)
<1> DEFINE rest == Tail(stack)
<1>1. /\ rest \in Seq(Frames) /\ g \in Gens /\ Alive(g) /\ Runs(Top, g)
      /\ \A h : ~SentEnd(Top, h)
  BY ReturnLeaves DEF IInv, LoopOnTop, Frames, Runs, SentEnd
<1>2. PICK ev \in Generated(g) :
        stack' = Push(Frame("OnNext", g, ev), Push(Frame("After", g, ev), rest))
  BY DEF Produce
<1>3. /\ HasRequests(requested[g])
      /\ requested' = [requested EXCEPT ![g] = RemoveFrom(@, 1)]
      /\ delivered' = [delivered EXCEPT ![g] = @ + 1]
      /\ phase' = phase
  BY DEF Produce
<1>4. ev \in Events
  BY GeneratingAssumption DEF Generated, Events
<1> DEFINE a == Frame("After", g, ev)
           o == Frame("OnNext", g, ev)
<1>5. /\ a \in Frames /\ o \in Frames
      /\ \A h : SentEnd(a, h) <=> h = g /\ IsEnd(ev)
      /\ \A h : ~SentEnd(o, h)
  BY <1>1, <1>4, FrameTypes
<1>6. stack' = Push(o, Push(a, rest))
  BY <1>2
<1>7. /\ ~Executes(rest, g)
      /\ \A h : EndSent(stack, h) <=> EndSent(rest, h)
  BY <1>1, ReturnLeaves DEF IInv, FlagTruthful
<1> HIDE DEF a, o, rest
<1>8. Push(a, rest) \in Seq(Frames)
      /\ \A h : EndSent(Push(a, rest), h) <=> (h = g /\ IsEnd(ev)) \/ EndSent(rest, h)
  BY <1>1, <1>5, Called, CallAdds
<1>9. \A h : EndSent(stack', h) <=> (h = g /\ IsEnd(ev)) \/ EndSent(rest, h)
  BY <1>5, <1>6, <1>8, CallAdds
<1>10. Status(g) = "open" /\ Status(g)' \in {"open", "ending"}
  <2>1. ~EndSent(stack, g) /\ phase[g] = "alive" /\ phase'[g] = "alive"
    BY <1>1, <1>3, <1>7, SentIsExecuting DEF Alive
  <2> QED
    BY <1>1, <2>1, StatusIs
<1>11. \A h \in Gens \ {g} : Status(h)' = Status(h)
  <2> SUFFICES ASSUME NEW h \in Gens \ {g} PROVE Status(h)' = Status(h)
    OBVIOUS
  <2> QED
    BY <1>3, <1>7, <1>9, SameStatus DEF IInv, TypeOK
<1>12. /\ Contract!HasRequests(requested[g])
       /\ \A b : RemoveFrom(b, 1) = Contract!RemoveFrom(b, 1)
  BY <1>3 DEF HasRequests, Contract!HasRequests, RemoveFrom, Contract!RemoveFrom
<1> QED
  BY <1>1, <1>3, <1>10, <1>11, <1>12, OneStreamShows DEF Contract!Deliver

\* The end of the loop shows nothing.
LEMMA PauseShows ==
  ASSUME IInv, stack # <<>>, Top.op = "Loop", Pause(Top.gen)
  PROVE  UNCHANGED Contract!vars
<1>1. stack' = Tail(stack) /\ UNCHANGED <<phase, requested, delivered>>
  BY DEF Pause, history
<1>2. \A h : EndSent(stack, h) <=> EndSent(stack', h)
  BY <1>1, ReturnLeaves DEF SentEnd
<1>3. \A h \in Gens : Status(h)' = Status(h)
  <2> SUFFICES ASSUME NEW h \in Gens PROVE Status(h)' = Status(h)
    OBVIOUS
  <2> QED
    BY <1>1, <1>2, SameStatus DEF IInv, TypeOK
<1> QED
  BY <1>1, <1>3, ShowsNothing

\* After the end the stream destroys itself; otherwise nothing is seen.
LEMMA AfterShows ==
  ASSUME IInv, AfterOnNext, NEW g, NEW ev, g = Top.gen, ev = Top.ev
  PROVE  Contract!Next \/ UNCHANGED Contract!vars
<1> DEFINE f == Frame("Loop", g, "none")
<1>1. /\ stack # <<>> /\ Top.op = "After"
      /\ phase' = [phase EXCEPT ![g] = IF Deletes(g, ev) THEN "deleted" ELSE @]
      /\ stack' = IF Bails(g, ev) \/ Deletes(g, ev) THEN Tail(stack) ELSE Push(f, Tail(stack))
      /\ UNCHANGED <<requested, delivered>>
  BY DEF AfterOnNext, history
<1>2. /\ g \in Gens /\ Tail(stack) \in Seq(Frames)
      /\ \A h : SentEnd(Top, h) <=> h = g /\ IsEnd(ev)
      /\ \A h : EndSent(stack, h) <=> (h = g /\ IsEnd(ev)) \/ EndSent(Tail(stack), h)
      /\ Executes(stack, g)
  <2>1. Top \in Frames /\ (\A h : SentEnd(Top, h) <=> h = g /\ IsEnd(ev)) /\ Runs(Top, g)
    BY <1>1, ReturnLeaves DEF SentEnd, Runs
  <2> QED
    BY <1>1, <2>1, ReturnLeaves DEF Frames
<1>3. f \in Frames /\ \A h : ~SentEnd(f, h)
  BY <1>2, FrameTypes
<1>4. phase[g] # "new" /\ phase \in [Gens -> {"new", "alive", "deleted"}]
  BY <1>2 DEF IInv, TypeOK, FlagTruthful
<1> HIDE DEF f
<1>5. CASE Deletes(g, ev)
  <2>1. stack' = Tail(stack) /\ phase' = [phase EXCEPT ![g] = "deleted"]
        /\ Alive(g) /\ IsEnd(ev)
    BY <1>1, <1>5 DEF Deletes
  <2>2. Status(g) = "ending" /\ Status(g)' = "gone"
    BY <1>2, <1>4, <2>1, StatusIs DEF Alive
  <2>3. \A h \in Gens \ {g} : Status(h)' = Status(h)
    <3> SUFFICES ASSUME NEW h \in Gens \ {g} PROVE Status(h)' = Status(h)
      OBVIOUS
    <3> QED
      BY <1>2, <1>4, <2>1, SameStatus DEF IInv, TypeOK
  <2>4. Contract!Destroy(g)
    BY <1>1, <1>2, <2>2, <2>3, OneStreamShows DEF Contract!Destroy
  <2> QED
    BY <1>2, <2>4 DEF Contract!Next
<1>6. CASE Bails(g, ev)
  <2>1. stack' = Tail(stack) /\ phase' = phase /\ phase[g] = "deleted"
    BY <1>1, <1>2, <1>4, <1>6 DEF Bails, Deletes, Alive
  <2>2. \A h \in Gens \ {g} : Status(h)' = Status(h)
    <3> SUFFICES ASSUME NEW h \in Gens \ {g} PROVE Status(h)' = Status(h)
      OBVIOUS
    <3> QED
      BY <1>2, <2>1, SameStatus DEF IInv, TypeOK
  <2>3. Status(g)' = Status(g)
    BY <1>2, <1>4, <2>1, SameStatus
  <2> QED
    BY <1>1, <2>2, <2>3, ShowsNothing
<1>7. CASE ~Bails(g, ev) /\ ~Deletes(g, ev)
  <2>1. stack' = Push(f, Tail(stack)) /\ phase' = phase /\ ~IsEnd(ev)
    BY <1>1, <1>4, <1>7 DEF Bails, Deletes
  <2>2. \A h : EndSent(stack', h) <=> EndSent(stack, h)
    BY <1>2, <1>3, <2>1, CallAdds
  <2>3. \A h \in Gens : Status(h)' = Status(h)
    <3> SUFFICES ASSUME NEW h \in Gens PROVE Status(h)' = Status(h)
      OBVIOUS
    <3> QED
      BY <2>1, <2>2, SameStatus DEF IInv, TypeOK
  <2> QED
    BY <1>1, <2>3, ShowsNothing
<1> QED
  BY <1>5, <1>6, <1>7

\* Every generating stream keeps the safety part of the contract of streams:
\* OnSubscribe first, never more events than requested, the end once and last,
\* whatever its subscriber and those of other streams call, and from where.
THEOREM StreamsKeepTheContract == Spec => Contract!SafeSpec
<1>1. Init => Contract!Init
  <2> SUFFICES ASSUME Init PROVE Contract!Init
    OBVIOUS
  <2>1. \A g \in Gens : Status(g) = "new"
    <3> SUFFICES ASSUME NEW g \in Gens PROVE Status(g) = "new"
      OBVIOUS
    <3> QED
      BY StatusIs DEF Init
  <2> QED
    BY <2>1 DEF Init, Contract!Init
<1>2. IInv /\ [Next]_vars => [Contract!Next]_(Contract!vars)
  <2> SUFFICES ASSUME IInv, [Next]_vars
               PROVE  Contract!Next \/ UNCHANGED Contract!vars
    OBVIOUS
  <2>1. CASE Generate
    <3>1. stack # <<>> /\ Top.op = "Loop" /\ Top.gen \in Gens
      BY <2>1, ReturnLeaves DEF Generate, Frames
    <3>2. PICK g \in Gens : g = Top.gen
      BY <3>1
    <3> QED
      BY <2>1, <3>1, <3>2, ProduceShows, PauseShows DEF Generate, Contract!Next
  <2>2. CASE AfterOnNext
    <3>1. PICK g, ev : g = Top.gen /\ ev = Top.ev
      OBVIOUS
    <3> QED
      BY <2>2, <3>1, AfterShows
  <2>3. CASE UserSubscribes
    BY <2>3, ConstructShows DEF UserSubscribes, Contract!Next
  <2>4. CASE UserRequests
    BY <2>4, RequestShows
  <2>5. CASE UserCancels
    BY <2>5, CancelShows
  <2>6. CASE UserReturns
    BY <2>6, ReturnShows
  <2>7. CASE Terminated \/ UNCHANGED vars
    <3>1. UNCHANGED <<stack, phase, requested, delivered>>
      BY <2>7 DEF Terminated, vars, streamVars, history
    <3>2. \A h \in Gens : Status(h)' = Status(h)
      <4> SUFFICES ASSUME NEW h \in Gens PROVE Status(h)' = Status(h)
        OBVIOUS
      <4> QED
        BY <3>1, SameStatus DEF IInv, TypeOK
    <3> QED
      BY <3>1, <3>2, ShowsNothing
  <2> QED
    BY <2>1, <2>2, <2>3, <2>4, <2>5, <2>6, <2>7 DEF Next
<1> QED
  BY <1>1, <1>2, Invariance, PTL DEF Spec, Contract!SafeSpec
=============================================================================
