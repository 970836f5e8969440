----------------------------- MODULE AsyncProofs -----------------------------
(***************************************************************************)
(* Proofs about AsyncStream, for any workers, producing and consuming on one  *)
(* of them or on two, any number of elements and of tasks of the user, and    *)
(* every interleaving: a consumer that is careful (CarefulConsumer) never     *)
(* meets a deleted stream or subscriber, nothing is left behind, and what it  *)
(* sees is a stream as any other.                                             *)
(***************************************************************************)
EXTENDS AsyncStream, TLAPS

\* The consumer requests more than one event only as long as the end cannot be
\* among them, it cancels only when it has received what it requested, and none
\* of its requests is infinite.
CarefulConsumer == /\ ~CancelsFreely
                   /\ MaxOpen <= 1
                   /\ MinElems < KMax
                   /\ 1 < KMax

ProducerOps == {"subscribe", "request", "cancel"}
ConsumerOps == {"onSubscribe", "value", "end", "user"}
AllTasks    == [op : Ops, n : Nat]

Places == Ops \cup {"idle", "loop", "delete", "call", "body", "asks", "cancels", "return"}

-----------------------------------------------------------------------------
(* Queues of tasks.                                                          *)

\* A task of this kind waits in q; one at most.
Has(q, op)  == \E i \in DOMAIN q : q[i].op = op
Uniq(q, op) == \A i, j \in DOMAIN q : q[i].op = op /\ q[j].op = op => i = j

\* All tasks in q are of these kinds.
Only(q, ops) == \A i \in DOMAIN q : q[i].op \in ops

\* Values wait in the order in which they were generated, those after low up to
\* high.
ValuesIn(q, low, high) ==
  /\ \A i \in DOMAIN q : q[i].op = "value" => low < q[i].n /\ q[i].n <= high
  /\ \A i, j \in DOMAIN q : i < j /\ q[i].op = "value" /\ q[j].op = "value"
                              => q[i].n < q[j].n

\* The number of events that a task requests.
Weight(k) == IF k.op = "request" THEN k.n ELSE 0

\* The requests that wait in q lead from at least low to at most high: s has the
\* sums that are reached one request after the other.
Owing(q, low, high) == \E s \in [0 .. Len(q) -> Nat] :
  /\ low <= s[0] /\ s[Len(q)] <= high
  /\ \A i \in DOMAIN q : s[i] = s[i - 1] + Weight(q[i])
  /\ \A i, j \in 0 .. Len(q) : i <= j => s[i] <= s[j]

-----------------------------------------------------------------------------
(* The inductive invariant, with p producing and c consuming.                *)

TypeOK ==
  /\ queue \in [Workers -> Seq(AllTasks)]
  /\ busy \in [Workers -> AllTasks \cup {NoTask}]
  /\ pc \in [Workers -> Places]
  /\ phase \in {"new", "subscribed", "alive", "deleted"}
  /\ requested \in Nat /\ yielded \in Nat /\ asked \in Nat /\ got \in Nat
  /\ holder \in {"stream", "task", "none"}
  /\ open \in BOOLEAN /\ ended \in BOOLEAN /\ cancelled \in BOOLEAN

\* The end was generated.
EndSent == ended \/ holder = "task"

\* A task of this kind waits on w or has not begun to act.
Due(w, op) == pc[w] = op \/ Has(queue[w], op)

\* One at most.
Once(w, op) == Uniq(queue[w], op) /\ (pc[w] = op => ~Has(queue[w], op))

\* Tasks are on their worker, and a worker is in the code of its task.
WorkerOK(w, p, c) ==
  /\ Only(queue[w], (IF w = p THEN ProducerOps ELSE {}) \cup (IF w = c THEN ConsumerOps ELSE {}))
  /\ pc[w] = "idle" <=> busy[w] = NoTask
  /\ pc[w] \in Ops => busy[w].op = pc[w]
  /\ pc[w] \in {"loop", "delete"} => busy[w].op = "request"
  /\ pc[w] = "call" => busy[w].op = "value"
  /\ pc[w] \in {"body", "asks", "cancels"} => busy[w].op \in ConsumerOps
  /\ busy[w].op \in ProducerOps => w = p
  /\ busy[w].op \in ConsumerOps => w = c

\* Subscribe and OnSubscribe are once and first.
Beginning(p, c) ==
  /\ Due(p, "subscribe") => phase = "subscribed"
  /\ Once(p, "subscribe")
  /\ Due(c, "onSubscribe") => ~open /\ phase = "alive"
  /\ Once(c, "onSubscribe")
  /\ phase \in {"new", "subscribed"} => ~open /\ yielded = 0
  /\ ~open => asked = 0 /\ ~cancelled
  /\ busy[c].op = "user" \/ Has(queue[c], "user") => open
  /\ pc[c] \in {"body", "asks", "cancels"} => open

\* Events that the producing worker has taken from its queue, and sent.
InHand(p) == IF pc[p] = "request" THEN busy[p].n ELSE 0
Sent      == IF EndSent THEN yielded + 1 ELSE yielded

\* No event is sent that was not requested; the end is not among several.
Flow(p, c) ==
  /\ Owing(queue[p], InHand(p) + requested + Sent, asked)
  /\ got <= yielded \/ (ended /\ got <= yielded + 1)
  /\ asked <= MinElems \/ asked <= got + 1
  /\ EndSent => yielded >= MinElems

\* The value that the consuming worker has taken from its queue last.
Reached(c) == IF pc[c] \in {"value", "call"} THEN busy[c].n ELSE got

\* Values arrive in order.
Values(c) ==
  /\ ValuesIn(queue[c], Reached(c), yielded)
  /\ pc[c] \in {"value", "call"} => got < busy[c].n /\ busy[c].n <= yielded

\* The end, and who has the subscriber.
Ending(p, c) ==
  /\ phase = "alive" => (EndSent <=> pc[p] = "delete")
  /\ pc[p] \in {"loop", "delete"} => phase = "alive"
  /\ phase = "deleted" => EndSent \/ cancelled
  /\ holder = "stream" <=> phase = "alive" /\ ~EndSent
  /\ holder = "task" <=> Has(queue[c], "end") \/ busy[c].op = "end"
  /\ ended => ~Has(queue[c], "end") /\ pc[c] # "end"
  /\ busy[c].op = "end" /\ pc[c] # "end" => ended
  /\ busy[c].op = "end" => ~Has(queue[c], "end")
  /\ Uniq(queue[c], "end")

\* Cancel finds the stream as it was left.
Cancelling(p, c) ==
  /\ cancelled => /\ ~EndSent
                  /\ asked = got
                  /\ Due(p, "cancel") <=> phase = "alive"
                  /\ p # c => busy[c].op \notin {"onSubscribe", "value", "end"}
  /\ Due(p, "cancel") => cancelled
  /\ Once(p, "cancel")
  /\ pc[c] = "asks" => ~ended /\ ~cancelled /\ \E n \in Counts : MayAsk(n)
  /\ pc[c] = "cancels" => /\ ~ended /\ ~cancelled
                          /\ asked = got
                          /\ p = c \/ busy[c].op = "user"

\* A method of the subscriber that executes has a subscriber.
Outlives(c) ==
  busy[c].op \in {"onSubscribe", "value"} /\ pc[c] # "return" => holder # "none"

IInvAt(p, c) ==
  /\ TypeOK
  /\ NoFault
  /\ \A w \in Workers : WorkerOK(w, p, c)
  /\ Beginning(p, c)
  /\ Flow(p, c)
  /\ Values(c)
  /\ Ending(p, c)
  /\ Cancelling(p, c)
  /\ Outlives(c)

IInv == /\ produceOn \in Workers
        /\ consumeOn \in Workers
        /\ IInvAt(produceOn, consumeOn)

-----------------------------------------------------------------------------
(* Queues that grow at the end and shrink at the front.                      *)

\* Append, by positions.
LEMMA Appended ==
  ASSUME NEW q \in Seq(AllTasks), NEW k \in AllTasks
  PROVE  /\ Append(q, k) \in Seq(AllTasks)
         /\ Len(q) \in Nat /\ DOMAIN q = 1 .. Len(q)
         /\ Len(Append(q, k)) = Len(q) + 1
         /\ DOMAIN Append(q, k) = 1 .. Len(q) + 1
         /\ Append(q, k)[Len(q) + 1] = k
         /\ \A i \in 1 .. Len(q) : Append(q, k)[i] = q[i]
  OBVIOUS

\* Tail, by positions.
LEMMA Tailed ==
  ASSUME NEW q \in Seq(AllTasks), q # <<>>
  PROVE  /\ Tail(q) \in Seq(AllTasks) /\ Head(q) \in AllTasks
         /\ Len(q) \in Nat /\ Len(q) >= 1 /\ DOMAIN q = 1 .. Len(q)
         /\ Len(Tail(q)) = Len(q) - 1
         /\ DOMAIN Tail(q) = 1 .. Len(q) - 1
         /\ Head(q) = q[1]
         /\ \A i \in 1 .. Len(q) - 1 : Tail(q)[i] = q[i + 1]
  OBVIOUS

\* What waits after Append.
LEMMA AppendHas ==
  ASSUME NEW q \in Seq(AllTasks), NEW k \in AllTasks, NEW op
  PROVE  /\ Has(Append(q, k), op) <=> Has(q, op) \/ k.op = op
         /\ Uniq(q, op) /\ (k.op = op => ~Has(q, op)) => Uniq(Append(q, k), op)
<1> DEFINE r == Append(q, k)
<1>1. /\ DOMAIN r = 1 .. Len(q) + 1 /\ DOMAIN q = 1 .. Len(q) /\ Len(q) \in Nat
      /\ r[Len(q) + 1] = k
      /\ \A i \in 1 .. Len(q) : r[i] = q[i]
  BY Appended
<1> HIDE DEF r
<1>2. \A i \in DOMAIN r : i = Len(q) + 1 \/ (i \in DOMAIN q /\ r[i] = q[i])
  BY <1>1
<1>3. Len(q) + 1 \in DOMAIN r /\ DOMAIN q \subseteq DOMAIN r
      /\ \A i \in DOMAIN q : r[i] = q[i]
  BY <1>1
<1>4. Has(r, op) <=> Has(q, op) \/ k.op = op
  BY <1>1, <1>2, <1>3 DEF Has
<1>5. Uniq(q, op) /\ (k.op = op => ~Has(q, op)) => Uniq(r, op)
  BY <1>1, <1>2 DEF Has, Uniq
<1> QED
  BY <1>4, <1>5 DEF r

\* Append keeps what holds of all tasks.
LEMMA AppendOnly ==
  ASSUME NEW q \in Seq(AllTasks), NEW k \in AllTasks, NEW ops, Only(q, ops), k.op \in ops
  PROVE  Only(Append(q, k), ops)
<1>1. \A i \in DOMAIN Append(q, k) :
        Append(q, k)[i] = k \/ (i \in DOMAIN q /\ Append(q, k)[i] = q[i])
  BY Appended
<1> QED
  BY <1>1 DEF Only

\* Append of a task that is not a value, and of the next value.
LEMMA AppendValues ==
  ASSUME NEW q \in Seq(AllTasks), NEW k \in AllTasks, NEW low \in Nat, NEW high \in Nat,
         ValuesIn(q, low, high)
  PROVE  /\ k.op # "value" => ValuesIn(Append(q, k), low, high)
         /\ k.op = "value" /\ k.n = high + 1 /\ low <= high
              => ValuesIn(Append(q, k), low, high + 1)
<1> DEFINE r == Append(q, k)
<1>1. /\ DOMAIN r = 1 .. Len(q) + 1 /\ DOMAIN q = 1 .. Len(q) /\ Len(q) \in Nat
      /\ r[Len(q) + 1] = k
      /\ \A i \in 1 .. Len(q) : r[i] = q[i]
  BY Appended
<1> HIDE DEF r
<1>2. \A i \in DOMAIN r : i = Len(q) + 1 \/ (i \in DOMAIN q /\ r[i] = q[i])
  BY <1>1
<1>3. \A i \in DOMAIN q : q[i] \in AllTasks
  OBVIOUS
<1>4. ASSUME k.op # "value"
      PROVE  ValuesIn(r, low, high)
  BY <1>1, <1>2, <1>4 DEF ValuesIn
<1>5. ASSUME k.op = "value", k.n = high + 1, low <= high
      PROVE  ValuesIn(r, low, high + 1)
  <2>1. ASSUME NEW i \in DOMAIN r, r[i].op = "value"
        PROVE  low < r[i].n /\ r[i].n <= high + 1
    <3>1. CASE i = Len(q) + 1
      BY <1>1, <1>5, <3>1
    <3>2. CASE i \in DOMAIN q /\ r[i] = q[i]
      <4>1. q[i].n \in Nat
        BY <1>3, <3>2 DEF AllTasks
      <4> QED
        BY <2>1, <3>2, <4>1 DEF ValuesIn
    <3> QED
      BY <1>2, <3>1, <3>2
  <2>2. ASSUME NEW i \in DOMAIN r, NEW j \in DOMAIN r, i < j,
               r[i].op = "value", r[j].op = "value"
        PROVE  r[i].n < r[j].n
    <3>1. i \in DOMAIN q /\ r[i] = q[i]
      BY <1>1, <1>2, <2>2
    <3>2. CASE j = Len(q) + 1
      <4>1. q[i].n \in Nat /\ q[i].n <= high
        BY <1>3, <2>2, <3>1 DEF AllTasks, ValuesIn
      <4> QED
        BY <1>1, <1>5, <3>1, <3>2, <4>1
    <3>3. CASE j \in DOMAIN q /\ r[j] = q[j]
      BY <2>2, <3>1, <3>3 DEF ValuesIn
    <3> QED
      BY <1>2, <3>2, <3>3
  <2> QED
    BY <2>1, <2>2 DEF ValuesIn
<1> QED
  BY <1>4, <1>5 DEF r

\* Append adds its own requests to what is owed.
LEMMA AppendOwing ==
  ASSUME NEW q \in Seq(AllTasks), NEW k \in AllTasks, NEW low \in Nat, NEW high \in Nat,
         Owing(q, low, high)
  PROVE  Owing(Append(q, k), low, high + Weight(k))
<1> DEFINE r == Append(q, k)
           m == Len(q)
<1>1. /\ DOMAIN r = 1 .. m + 1 /\ DOMAIN q = 1 .. m /\ m \in Nat /\ Len(r) = m + 1
      /\ r[m + 1] = k
      /\ \A i \in 1 .. m : r[i] = q[i]
  BY Appended
<1>2. Weight(k) \in Nat
  BY DEF Weight, AllTasks
<1>3. PICK s \in [0 .. m -> Nat] :
        /\ low <= s[0] /\ s[m] <= high
        /\ \A i \in DOMAIN q : s[i] = s[i - 1] + Weight(q[i])
        /\ \A i, j \in 0 .. m : i <= j => s[i] <= s[j]
  BY DEF Owing
<1> DEFINE z == [i \in 0 .. m + 1 |-> IF i = m + 1 THEN s[m] + Weight(k) ELSE s[i]]
<1> HIDE DEF m, r
<1>4. s[m] \in Nat
  BY <1>1, <1>3
<1>5. /\ z \in [0 .. m + 1 -> Nat]
      /\ z[m + 1] = s[m] + Weight(k)
      /\ \A i \in 0 .. m : z[i] = s[i]
  BY <1>1, <1>2, <1>4
<1> HIDE DEF z
<1>6. low <= z[0] /\ z[m + 1] <= high + Weight(k)
  BY <1>1, <1>2, <1>3, <1>4, <1>5
<1>7. ASSUME NEW i \in DOMAIN r
      PROVE  z[i] = z[i - 1] + Weight(r[i])
  <2>1. CASE i = m + 1
    <3>1. i - 1 = m /\ m \in 0 .. m
      BY <1>1, <2>1
    <3> QED
      BY <1>1, <1>5, <2>1, <3>1
  <2>2. CASE i \in 1 .. m
    <3>1. i \in 0 .. m /\ i - 1 \in 0 .. m
      BY <1>1, <2>2
    <3> QED
      BY <1>1, <1>3, <1>5, <2>2, <3>1
  <2> QED
    BY <1>1, <2>1, <2>2
<1>8. ASSUME NEW i \in 0 .. m + 1, NEW j \in 0 .. m + 1, i <= j
      PROVE  z[i] <= z[j]
  <2>1. CASE j = m + 1
    <3>1. CASE i = m + 1
      BY <1>1, <1>2, <1>4, <1>5, <2>1, <3>1
    <3>2. CASE i \in 0 .. m
      <4>1. z[i] = s[i] /\ s[i] <= s[m] /\ s[i] \in Nat
        BY <1>1, <1>3, <1>5, <3>2
      <4> QED
        BY <1>2, <1>4, <1>5, <2>1, <4>1
    <3> QED
      BY <1>1, <3>1, <3>2
  <2>2. CASE j \in 0 .. m
    <3>1. i \in 0 .. m
      BY <1>1, <1>8, <2>2
    <3> QED
      BY <1>3, <1>5, <1>8, <2>2, <3>1
  <2> QED
    BY <1>1, <2>1, <2>2
<1>9. Owing(r, low, high + Weight(k))
  BY <1>1, <1>5, <1>6, <1>7, <1>8 DEF Owing
<1> QED
  BY <1>9 DEF r

\* What waited behind the head.
LEMMA TailHas ==
  ASSUME NEW q \in Seq(AllTasks), q # <<>>, NEW op, NEW h, h = Head(q).op
  PROVE  /\ Has(q, op) <=> h = op \/ Has(Tail(q), op)
         /\ Uniq(q, op) => Uniq(Tail(q), op) /\ (h = op => ~Has(Tail(q), op))
<1> DEFINE r == Tail(q)
<1>1. /\ DOMAIN r = 1 .. Len(q) - 1 /\ DOMAIN q = 1 .. Len(q) /\ Len(q) \in Nat
      /\ Len(q) >= 1 /\ Head(q) = q[1]
      /\ \A i \in 1 .. Len(q) - 1 : r[i] = q[i + 1]
  BY Tailed
<1> HIDE DEF r
<1>2. \A i \in DOMAIN q : i = 1 \/ (i - 1 \in DOMAIN r /\ r[i - 1] = q[i])
  <2> TAKE i \in DOMAIN q
  <2>1. i = 1 \/ (i - 1 \in 1 .. Len(q) - 1 /\ (i - 1) + 1 = i)
    BY <1>1
  <2> QED
    BY <1>1, <2>1
<1>3. \A i \in DOMAIN r : i + 1 \in DOMAIN q /\ i + 1 # 1 /\ r[i] = q[i + 1]
  BY <1>1
<1>4. 1 \in DOMAIN q
  BY <1>1
<1>5. Has(q, op) <=> h = op \/ Has(r, op)
  <2>1. Has(q, op) => h = op \/ Has(r, op)
    BY <1>1, <1>2 DEF Has
  <2>2. h = op => Has(q, op)
    BY <1>1, <1>4 DEF Has
  <2>3. Has(r, op) => Has(q, op)
    BY <1>3 DEF Has
  <2> QED
    BY <2>1, <2>2, <2>3
<1>6. ASSUME Uniq(q, op)
      PROVE  Uniq(r, op) /\ (h = op => ~Has(r, op))
  <2>1. ASSUME NEW i \in DOMAIN r, NEW j \in DOMAIN r, r[i].op = op, r[j].op = op
        PROVE  i = j
    <3>1. i + 1 = j + 1
      BY <1>3, <1>6, <2>1 DEF Uniq
    <3> QED
      BY <1>1, <3>1
  <2>2. h = op => ~Has(r, op)
    BY <1>1, <1>3, <1>4, <1>6 DEF Uniq, Has
  <2> QED
    BY <2>1, <2>2 DEF Uniq
<1> QED
  BY <1>5, <1>6 DEF r

\* The head and the rest of a queue that is restricted.
LEMMA TailOnly ==
  ASSUME NEW q \in Seq(AllTasks), q # <<>>, NEW ops, Only(q, ops)
  PROVE  Only(Tail(q), ops) /\ Head(q).op \in ops
<1>1. \A i \in DOMAIN Tail(q) : i + 1 \in DOMAIN q /\ Tail(q)[i] = q[i + 1]
  BY Tailed
<1>2. 1 \in DOMAIN q /\ Head(q) = q[1]
  BY Tailed
<1> QED
  BY <1>1, <1>2 DEF Only

\* Values behind the head come after it.
LEMMA TailValues ==
  ASSUME NEW q \in Seq(AllTasks), q # <<>>, NEW low \in Nat, NEW high \in Nat,
         ValuesIn(q, low, high)
  PROVE  /\ ValuesIn(Tail(q), low, high)
         /\ Head(q).op = "value" => /\ low < Head(q).n /\ Head(q).n <= high
                                    /\ ValuesIn(Tail(q), Head(q).n, high)
<1> DEFINE r == Tail(q)
<1>1. /\ DOMAIN r = 1 .. Len(q) - 1 /\ DOMAIN q = 1 .. Len(q) /\ Len(q) \in Nat
      /\ Len(q) >= 1 /\ Head(q) = q[1]
      /\ \A i \in 1 .. Len(q) - 1 : r[i] = q[i + 1]
  BY Tailed
<1> HIDE DEF r
<1>2. \A i \in DOMAIN r : i + 1 \in DOMAIN q /\ 1 < i + 1 /\ r[i] = q[i + 1]
  BY <1>1
<1>3. 1 \in DOMAIN q
  BY <1>1
<1>4. \A i, j \in DOMAIN r : i < j => i + 1 < j + 1
  BY <1>1
<1>5. ValuesIn(r, low, high)
  BY <1>2, <1>4 DEF ValuesIn
<1>6. ASSUME Head(q).op = "value"
      PROVE  low < Head(q).n /\ Head(q).n <= high /\ ValuesIn(r, Head(q).n, high)
  BY <1>1, <1>2, <1>3, <1>4, <1>6 DEF ValuesIn
<1> QED
  BY <1>5, <1>6 DEF r

\* What the head requests is owed by its worker now.
LEMMA TailOwing ==
  ASSUME NEW q \in Seq(AllTasks), q # <<>>, NEW low \in Nat, NEW high \in Nat,
         Owing(q, low, high)
  PROVE  Owing(Tail(q), low + Weight(Head(q)), high)
<1> DEFINE r == Tail(q)
           m == Len(q)
<1>1. /\ DOMAIN r = 1 .. m - 1 /\ DOMAIN q = 1 .. m /\ m \in Nat /\ Len(r) = m - 1
      /\ m >= 1 /\ Head(q) = q[1] /\ Head(q) \in AllTasks
      /\ \A i \in 1 .. m - 1 : r[i] = q[i + 1]
  BY Tailed
<1>2. Weight(Head(q)) \in Nat
  BY <1>1 DEF Weight, AllTasks
<1>3. PICK s \in [0 .. m -> Nat] :
        /\ low <= s[0] /\ s[m] <= high
        /\ \A i \in DOMAIN q : s[i] = s[i - 1] + Weight(q[i])
        /\ \A i, j \in 0 .. m : i <= j => s[i] <= s[j]
  BY DEF Owing
<1> DEFINE z == [i \in 0 .. m - 1 |-> s[i + 1]]
<1> HIDE DEF m, r
<1>4. /\ z \in [0 .. m - 1 -> Nat]
      /\ \A i \in 0 .. m - 1 : z[i] = s[i + 1]
  BY <1>1
<1> HIDE DEF z
<1>5. low + Weight(Head(q)) <= z[0] /\ z[m - 1] <= high
  <2>1. z[0] = s[1] /\ z[m - 1] = s[m]
    <3>1. 0 \in 0 .. m - 1 /\ m - 1 \in 0 .. m - 1 /\ 0 + 1 = 1 /\ (m - 1) + 1 = m
      BY <1>1
    <3> QED
      BY <1>4, <3>1
  <2>2. s[1] = s[0] + Weight(Head(q)) /\ s[0] \in Nat
    <3>1. 1 \in DOMAIN q /\ 1 - 1 = 0 /\ 0 \in 0 .. m
      BY <1>1
    <3> QED
      BY <1>1, <1>3, <3>1
  <2> QED
    BY <1>2, <1>3, <2>1, <2>2
<1>6. ASSUME NEW i \in DOMAIN r
      PROVE  z[i] = z[i - 1] + Weight(r[i])
  <2>1. /\ i \in 0 .. m - 1 /\ i - 1 \in 0 .. m - 1 /\ i + 1 \in DOMAIN q
        /\ (i - 1) + 1 = i /\ (i + 1) - 1 = i /\ i \in 1 .. m - 1
    <3>1. i \in 1 .. m - 1
      BY <1>1
    <3>2. i \in Nat /\ 1 <= i /\ i <= m - 1 /\ m \in Nat
      BY <1>1, <3>1
    <3>3. i + 1 \in 1 .. m /\ DOMAIN q = 1 .. m
      BY <1>1, <3>2
    <3> QED
      BY <3>1, <3>2, <3>3
  <2>2. z[i] = s[i + 1] /\ z[i - 1] = s[i]
    BY <1>4, <2>1
  <2>3. s[i + 1] = s[i] + Weight(q[i + 1])
    BY <1>3, <2>1
  <2> QED
    BY <1>1, <2>1, <2>2, <2>3
<1>7. ASSUME NEW i \in 0 .. m - 1, NEW j \in 0 .. m - 1, i <= j
      PROVE  z[i] <= z[j]
  <2>1. i + 1 \in 0 .. m /\ j + 1 \in 0 .. m /\ i + 1 <= j + 1
    BY <1>1, <1>7
  <2> QED
    BY <1>3, <1>4, <2>1
<1>8. Owing(r, low + Weight(Head(q)), high)
  BY <1>1, <1>4, <1>5, <1>6, <1>7 DEF Owing
<1> QED
  BY <1>8 DEF r

\* What is owed is bounded; less may be owed.
LEMMA OwingBounds ==
  ASSUME NEW q \in Seq(AllTasks), NEW low \in Nat, NEW high \in Nat, Owing(q, low, high)
  PROVE  /\ low <= high
         /\ \A l \in Nat : l <= low => Owing(q, l, high)
<1>1. PICK s \in [0 .. Len(q) -> Nat] :
        /\ low <= s[0] /\ s[Len(q)] <= high
        /\ \A i \in DOMAIN q : s[i] = s[i - 1] + Weight(q[i])
        /\ \A i, j \in 0 .. Len(q) : i <= j => s[i] <= s[j]
  BY DEF Owing
<1>2. Len(q) \in Nat
  OBVIOUS
<1>3. s[0] \in Nat /\ s[Len(q)] \in Nat /\ s[0] <= s[Len(q)]
  BY <1>1, <1>2
<1>4. low <= high
  BY <1>1, <1>3
<1>5. ASSUME NEW l \in Nat, l <= low
      PROVE  Owing(q, l, high)
  <2>1. l <= s[0]
    BY <1>1, <1>3, <1>5
  <2> QED
    BY <1>1, <2>1 DEF Owing
<1> QED
  BY <1>4, <1>5

\* Bounds of the values that wait.
LEMMA ValuesBounds ==
  ASSUME NEW q \in Seq(AllTasks), NEW low \in Nat, NEW high \in Nat, ValuesIn(q, low, high)
  PROVE  /\ Has(q, "value") => low < high
         /\ \A l \in Nat : l <= low => ValuesIn(q, l, high)
         /\ \A l : ~Has(q, "value") => ValuesIn(q, l, high)
<1>1. ASSUME NEW i \in DOMAIN q
      PROVE  q[i].n \in Nat
  <2>1. q[i] \in AllTasks
    OBVIOUS
  <2> QED
    BY <2>1 DEF AllTasks
<1>2. Has(q, "value") => low < high
  BY <1>1 DEF Has, ValuesIn
<1>3. \A l \in Nat : l <= low => ValuesIn(q, l, high)
  BY <1>1 DEF ValuesIn
<1>4. \A l : ~Has(q, "value") => ValuesIn(q, l, high)
  BY DEF Has, ValuesIn
<1> QED
  BY <1>2, <1>3, <1>4

\* The empty queue.
LEMMA EmptyQueue ==
  /\ <<>> \in Seq(AllTasks)
  /\ \A op : ~Has(<<>>, op) /\ Uniq(<<>>, op)
  /\ \A ops : Only(<<>>, ops)
  /\ \A low, high : ValuesIn(<<>>, low, high)
  /\ Owing(<<>>, 0, 0)
<1>1. Owing(<<>>, 0, 0)
  <2>1. Len(<<>>) = 0 /\ DOMAIN <<>> = {} /\ 0 .. 0 = {0}
    OBVIOUS
  <2>2. PICK s \in [0 .. 0 -> Nat] : s[0] = 0
    <3>1. [i \in 0 .. 0 |-> 0] \in [0 .. 0 -> Nat] /\ [i \in 0 .. 0 |-> 0][0] = 0
      OBVIOUS
    <3> QED
      BY <3>1
  <2>3. \A i, j \in 0 .. 0 : i <= j => s[i] <= s[j]
    BY <2>1, <2>2
  <2> QED
    BY <2>1, <2>2, <2>3 DEF Owing
<1> QED
  BY <1>1 DEF Has, Uniq, Only, ValuesIn

-----------------------------------------------------------------------------
(* Steps of the workers, as their queues and places show them.               *)

\* A task of this kind is added on t, and no other changes.
Adds(t, op) ==
  /\ queue' \in [Workers -> Seq(AllTasks)]
  /\ busy' = busy
  /\ \A w \in Workers : \A o \in Ops :
       Has(queue'[w], o) <=> Has(queue[w], o) \/ (w = t /\ o = op)
  /\ \A w \in Workers : \A o \in Ops :
       Uniq(queue[w], o) /\ (w = t /\ o = op => ~Has(queue[w], o)) => Uniq(queue'[w], o)
  /\ \A w \in Workers : \A ops :
       Only(queue[w], ops) /\ (w = t => op \in ops) => Only(queue'[w], ops)

\* w is at this place now, and every other worker where it was.
Goes(w, place) == /\ pc' \in [Workers -> Places]
                  /\ pc'[w] = place
                  /\ \A v \in Workers : v # w => pc'[v] = pc[v]

\* A task that is submitted waits on its worker, and nothing else changes there.
LEMMA Submitted ==
  ASSUME TypeOK, NEW t \in Workers, NEW k \in AllTasks, Executor!Submit(t, k)
  PROVE  Adds(t, k.op)
<1>1. queue' = [queue EXCEPT ![t] = Append(queue[t], k)] /\ busy' = busy
  BY DEF Executor!Submit
<1>2. queue \in [Workers -> Seq(AllTasks)] /\ queue[t] \in Seq(AllTasks)
  BY DEF TypeOK
<1>3. /\ queue'[t] = Append(queue[t], k)
      /\ \A w \in Workers : w # t => queue'[w] = queue[w]
  BY <1>1, <1>2
<1>4. queue' \in [Workers -> Seq(AllTasks)]
  BY <1>1, <1>2, Appended
<1>5. \A o \in Ops :
        /\ Has(queue'[t], o) <=> Has(queue[t], o) \/ k.op = o
        /\ Uniq(queue[t], o) /\ (k.op = o => ~Has(queue[t], o)) => Uniq(queue'[t], o)
  BY <1>2, <1>3, AppendHas
<1>6. \A ops : Only(queue[t], ops) /\ k.op \in ops => Only(queue'[t], ops)
  BY <1>2, <1>3, AppendOnly
<1>7. ASSUME NEW w \in Workers, NEW o \in Ops
      PROVE  /\ Has(queue'[w], o) <=> Has(queue[w], o) \/ (w = t /\ o = k.op)
             /\ Uniq(queue[w], o) /\ (w = t /\ o = k.op => ~Has(queue[w], o))
                  => Uniq(queue'[w], o)
  BY <1>3, <1>5
<1>8. ASSUME NEW w \in Workers, NEW ops
      PROVE  Only(queue[w], ops) /\ (w = t => k.op \in ops) => Only(queue'[w], ops)
  BY <1>3, <1>6
<1> QED
  BY <1>1, <1>4, <1>7, <1>8 DEF Adds

\* What a task that is submitted does to the values and requests that wait.
LEMMA SubmittedSums ==
  ASSUME TypeOK, NEW t \in Workers, NEW k \in AllTasks, Executor!Submit(t, k),
         NEW w \in Workers, NEW low \in Nat, NEW high \in Nat
  PROVE  /\ ValuesIn(queue[w], low, high) /\ k.op # "value"
              => ValuesIn(queue'[w], low, high)
         /\ ValuesIn(queue[t], low, high) /\ k.op = "value" /\ k.n = high + 1 /\ low <= high
              => ValuesIn(queue'[t], low, high + 1)
         /\ Owing(queue[w], low, high) /\ k.op # "request" => Owing(queue'[w], low, high)
         /\ Owing(queue[t], low, high) /\ k.op = "request"
              => Owing(queue'[t], low, high + k.n)
<1>1. queue' = [queue EXCEPT ![t] = Append(queue[t], k)]
  BY DEF Executor!Submit
<1>2. queue \in [Workers -> Seq(AllTasks)] /\ queue[t] \in Seq(AllTasks)
  BY DEF TypeOK
<1>3. /\ queue'[t] = Append(queue[t], k)
      /\ \A v \in Workers : v # t => queue'[v] = queue[v]
  BY <1>1, <1>2
<1>4. ValuesIn(queue[t], low, high) =>
        /\ k.op # "value" => ValuesIn(queue'[t], low, high)
        /\ k.op = "value" /\ k.n = high + 1 /\ low <= high
             => ValuesIn(queue'[t], low, high + 1)
  BY <1>2, <1>3, AppendValues
<1>5. Owing(queue[t], low, high) => Owing(queue'[t], low, high + Weight(k))
  BY <1>2, <1>3, AppendOwing
<1>6. /\ k.op # "request" => high + Weight(k) = high
      /\ k.op = "request" => high + Weight(k) = high + k.n
  BY DEF Weight
<1>7. /\ Owing(queue[t], low, high) /\ k.op # "request" => Owing(queue'[t], low, high)
      /\ Owing(queue[t], low, high) /\ k.op = "request"
           => Owing(queue'[t], low, high + k.n)
  BY <1>5, <1>6
<1> QED
  BY <1>3, <1>4, <1>7

\* A worker that goes to another place.
LEMMA Moved ==
  ASSUME TypeOK, NEW w \in Workers, NEW place \in Places, Goto(w, place)
  PROVE  Goes(w, place)
  BY DEF TypeOK, Goto, Goes

-----------------------------------------------------------------------------
(* What the invariant says where it matters.                                 *)

\* Events that were requested are not infinitely many, and no more than that
\* are sent or received.
LEMMA Requested ==
  ASSUME CarefulConsumer, NEW p \in Workers, NEW c \in Workers, IInvAt(p, c)
  PROVE  /\ InHand(p) \in Nat /\ Sent \in Nat /\ Reached(c) \in Nat
         /\ InHand(p) + requested + Sent <= asked
         /\ InHand(p) + requested < KMax
         /\ asked - got \in Nat /\ asked - got < KMax
<1>1. TypeOK /\ Flow(p, c) /\ KMax \in Nat /\ MinElems \in Nat
  BY KMaxAssumption, AsyncAssumption DEF IInvAt
<1>2. /\ queue[p] \in Seq(AllTasks)
      /\ busy[p] \in AllTasks \cup {NoTask} /\ busy[c] \in AllTasks \cup {NoTask}
  BY <1>1 DEF TypeOK
<1>3. busy[p].n \in Nat /\ busy[c].n \in Nat
  BY <1>2 DEF AllTasks, NoTask, Task
<1>4. InHand(p) \in Nat /\ Reached(c) \in Nat
  BY <1>1, <1>3 DEF InHand, Reached, TypeOK
<1>5. Sent \in Nat /\ (EndSent => Sent = yielded + 1) /\ (~EndSent => Sent = yielded)
  BY <1>1 DEF Sent, TypeOK
<1>6. InHand(p) + requested + Sent \in Nat /\ asked \in Nat
  BY <1>1, <1>4, <1>5 DEF TypeOK
<1>7. InHand(p) + requested + Sent <= asked
  BY <1>1, <1>2, <1>6, OwingBounds DEF Flow
<1>8. got <= Sent
  BY <1>1, <1>5 DEF Flow, TypeOK, EndSent
<1>9. asked <= MinElems \/ asked <= got + 1
  BY <1>1 DEF Flow
<1> QED
  BY <1>1, <1>4, <1>5, <1>6, <1>7, <1>8, <1>9 DEF TypeOK, CarefulConsumer

\* While a value is on its way the stream is there: the end is not requested as
\* long as a value is open, and Cancel not called.
LEMMA ValueAhead ==
  ASSUME CarefulConsumer, NEW p \in Workers, NEW c \in Workers, IInvAt(p, c),
         got < yielded
  PROVE  phase = "alive" /\ holder = "stream" /\ ~EndSent /\ ~cancelled /\ open
<1>1. /\ TypeOK /\ Flow(p, c) /\ Beginning(p, c) /\ Ending(p, c) /\ Cancelling(p, c)
      /\ MinElems \in Nat
  BY AsyncAssumption DEF IInvAt
<1>2. requested \in Nat /\ asked \in Nat /\ got \in Nat /\ yielded \in Nat
  BY <1>1 DEF TypeOK
<1>3. InHand(p) \in Nat /\ Sent \in Nat /\ InHand(p) + requested + Sent <= asked
  BY Requested
<1>4. ~cancelled
  BY <1>1, <1>2, <1>3 DEF Cancelling, Sent
<1>5. ~EndSent
  BY <1>1, <1>2, <1>3 DEF Flow, Sent
<1>6. phase = "alive"
  BY <1>1, <1>2, <1>4, <1>5 DEF TypeOK, Beginning, Ending
<1>7. open
  BY <1>1, <1>2, <1>3 DEF Beginning, Sent
<1> QED
  BY <1>1, <1>4, <1>5, <1>6, <1>7 DEF Ending

\* Who may still request has a stream to request from.
LEMMA CanAsk ==
  ASSUME CarefulConsumer, NEW p \in Workers, NEW c \in Workers, IInvAt(p, c),
         NEW n \in Counts, MayAsk(n), open, ~ended, ~cancelled
  PROVE  /\ phase = "alive" /\ holder = "stream" /\ ~EndSent
         /\ n \in Nat /\ n >= 1 /\ n <= KMax
         /\ asked + n <= MinElems \/ asked + n <= got + 1
         /\ asked + n - got <= KMax
<1>1. /\ TypeOK /\ Flow(p, c) /\ Beginning(p, c) /\ Ending(p, c) /\ Cancelling(p, c)
      /\ MinElems \in Nat /\ MaxGrant \in Nat /\ MaxOpen \in Nat /\ KMax \in Nat
      /\ MaxGrant <= KMax
  BY AsyncAssumption, KMaxAssumption DEF IInvAt
<1>2. requested \in Nat /\ asked \in Nat /\ got \in Nat /\ yielded \in Nat
  BY <1>1 DEF TypeOK
<1>3. InHand(p) \in Nat /\ Sent \in Nat /\ InHand(p) + requested + Sent <= asked
  BY Requested
<1>4. n \in Nat /\ n >= 1
  BY AsyncAssumption
<1>5. asked + n <= MaxGrant /\ (asked + n <= MinElems \/ asked + n - got <= MaxOpen)
  BY DEF MayAsk
<1>6. asked + n <= MinElems \/ asked + n <= got + 1
  BY <1>1, <1>2, <1>4, <1>5 DEF CarefulConsumer
<1>7. ~EndSent
  BY <1>1, <1>2, <1>3, <1>4, <1>6 DEF Flow, Sent
<1>8. phase = "alive"
  BY <1>1, <1>7 DEF TypeOK, Beginning, Ending
<1> QED
  BY <1>1, <1>2, <1>4, <1>5, <1>6, <1>7, <1>8 DEF Ending

\* Who may still cancel has a stream to cancel.
LEMMA CanCancel ==
  ASSUME CarefulConsumer, NEW p \in Workers, NEW c \in Workers, IInvAt(p, c),
         open, ~ended, ~cancelled, asked = got
  PROVE  phase = "alive" /\ holder = "stream" /\ ~EndSent
<1>1. TypeOK /\ Flow(p, c) /\ Beginning(p, c) /\ Ending(p, c)
  BY DEF IInvAt
<1>2. requested \in Nat /\ asked \in Nat /\ got \in Nat /\ yielded \in Nat
  BY <1>1 DEF TypeOK
<1>3. InHand(p) \in Nat /\ Sent \in Nat /\ InHand(p) + requested + Sent <= asked
  BY Requested
<1>4. ~EndSent
  BY <1>1, <1>2, <1>3 DEF Flow, Sent
<1>5. phase = "alive"
  BY <1>1, <1>4 DEF TypeOK, Beginning, Ending
<1> QED
  BY <1>1, <1>4, <1>5 DEF Ending

\* Before the consumer was told of the subscription nothing is requested.
LEMMA NotOpen ==
  ASSUME CarefulConsumer, NEW p \in Workers, NEW c \in Workers, IInvAt(p, c), ~open
  PROVE  ~EndSent /\ ~cancelled /\ asked = 0
<1>1. TypeOK /\ Flow(p, c) /\ Beginning(p, c)
  BY DEF IInvAt
<1>2. requested \in Nat /\ yielded \in Nat /\ ~cancelled /\ asked = 0
  BY <1>1 DEF TypeOK, Beginning
<1>3. InHand(p) \in Nat /\ Sent \in Nat /\ InHand(p) + requested + Sent <= asked
  BY Requested
<1> QED
  BY <1>2, <1>3 DEF Sent

\* A task that neither requests nor brings a value leaves what waits as it is.
LEMMA SubmittedQuiet ==
  ASSUME CarefulConsumer, NEW p \in Workers, NEW c \in Workers, IInvAt(p, c),
         NEW t \in Workers, NEW k \in AllTasks, Executor!Submit(t, k),
         k.op \notin {"value", "request"}
  PROVE  /\ Owing(queue'[p], InHand(p) + requested + Sent, asked)
         /\ ValuesIn(queue'[c], Reached(c), yielded)
<1>1. TypeOK /\ Flow(p, c) /\ Values(c)
  BY DEF IInvAt
<1>2. /\ InHand(p) + requested + Sent \in Nat /\ asked \in Nat
      /\ Reached(c) \in Nat /\ yielded \in Nat
  BY <1>1, Requested DEF TypeOK
<1>3. Owing(queue'[p], InHand(p) + requested + Sent, asked)
  BY <1>1, <1>2, SubmittedSums DEF Flow
<1>4. ValuesIn(queue'[c], Reached(c), yielded)
  BY <1>1, <1>2, SubmittedSums DEF Values
<1> QED
  BY <1>3, <1>4

-----------------------------------------------------------------------------
(* Each step keeps the invariant.                                            *)

\* Subscribe of the publisher submits its task.
LEMMA UserSubscribesStep ==
  ASSUME CarefulConsumer, NEW p \in Workers, NEW c \in Workers, p = produceOn, c = consumeOn,
         IInvAt(p, c), UserSubscribes
  PROVE  IInvAt(p, c)'
<1> DEFINE k == Task("subscribe", 0)
<1>1. /\ TypeOK /\ NoFault /\ (\A w \in Workers : WorkerOK(w, p, c)) /\ Beginning(p, c)
      /\ Flow(p, c) /\ Values(c) /\ Ending(p, c) /\ Cancelling(p, c) /\ Outlives(c)
  BY DEF IInvAt
<1>2. /\ phase = "new" /\ phase' = "subscribed" /\ Executor!Submit(p, k)
      /\ UNCHANGED <<pc, requested, yielded, userVars, holder, fault>>
  BY DEF UserSubscribes, At
<1>3. k \in AllTasks /\ k.op = "subscribe" /\ k.n = 0
  BY <1>1 DEF AllTasks, Task, Ops, TypeOK
<1> HIDE DEF k
<1>4. Adds(p, "subscribe")
  BY <1>1, <1>2, <1>3, Submitted
<1>5. /\ Owing(queue'[p], InHand(p) + requested + Sent, asked)
      /\ ValuesIn(queue'[c], Reached(c), yielded)
  BY <1>2, <1>3, SubmittedQuiet
<1>6. TypeOK'
  BY <1>1, <1>2, <1>4 DEF TypeOK, Adds, userVars
<1>7. NoFault'
  BY <1>1, <1>2 DEF NoFault
<1>8. ASSUME NEW w \in Workers
      PROVE  WorkerOK(w, p, c)'
  BY <1>1, <1>2, <1>4 DEF WorkerOK, ProducerOps, Adds
<1>9. Beginning(p, c)'
  BY <1>1, <1>2, <1>4 DEF Beginning, Due, Once, Ops, Adds, userVars
<1>10. Flow(p, c)'
  BY <1>1, <1>2, <1>4, <1>5 DEF Flow, InHand, Sent, EndSent, Adds, userVars
<1>11. Values(c)'
  BY <1>1, <1>2, <1>4, <1>5 DEF Values, Reached, Adds, userVars
<1>12. Ending(p, c)'
  BY <1>1, <1>2, <1>4 DEF Ending, Ops, Adds, userVars
<1>13. Cancelling(p, c)'
  BY <1>1, <1>2, <1>4 DEF Cancelling, Due, Once, EndSent, MayAsk, Ops, Adds, userVars
<1>14. Outlives(c)'
  BY <1>1, <1>2, <1>4 DEF Outlives, Adds
<1> QED
  BY <1>6, <1>7, <1>8, <1>9, <1>10, <1>11, <1>12, <1>13, <1>14 DEF IInvAt

\* The task of Subscribe makes the stream.
LEMMA SubscribeStep ==
  ASSUME CarefulConsumer, NEW p \in Workers, NEW c \in Workers, p = produceOn, c = consumeOn,
         IInvAt(p, c), Subscribe
  PROVE  IInvAt(p, c)'
<1> DEFINE k == Task("onSubscribe", 0)
<1>1. /\ TypeOK /\ NoFault /\ (\A w \in Workers : WorkerOK(w, p, c)) /\ Beginning(p, c)
      /\ Flow(p, c) /\ Values(c) /\ Ending(p, c) /\ Cancelling(p, c) /\ Outlives(c)
  BY DEF IInvAt
<1>2. /\ pc[p] = "subscribe" /\ Executor!Submit(c, k) /\ Goto(p, "return")
      /\ phase' = "alive" /\ holder' = "stream"
      /\ UNCHANGED <<requested, yielded, userVars, fault>>
  BY DEF Subscribe, At
<1>3. k \in AllTasks /\ k.op = "onSubscribe" /\ k.n = 0
  BY <1>1 DEF AllTasks, Task, Ops, TypeOK
<1> HIDE DEF k
<1>4. Adds(c, "onSubscribe")
  BY <1>1, <1>2, <1>3, Submitted
<1>5. Goes(p, "return")
  BY <1>1, <1>2, Moved DEF Places, Ops
<1>6. /\ Owing(queue'[p], InHand(p) + requested + Sent, asked)
      /\ ValuesIn(queue'[c], Reached(c), yielded)
  BY <1>2, <1>3, SubmittedQuiet
<1>7. phase = "subscribed" /\ ~open /\ ~EndSent /\ ~cancelled
  BY <1>1, <1>2, NotOpen DEF Beginning, Due
<1>8. TypeOK'
  BY <1>1, <1>2, <1>4, <1>5 DEF TypeOK, Adds, Goes, userVars
<1>9. NoFault'
  BY <1>1, <1>2 DEF NoFault
<1>10. ASSUME NEW w \in Workers
      PROVE  WorkerOK(w, p, c)'
  BY <1>1, <1>2, <1>4, <1>5 DEF WorkerOK, ConsumerOps, Ops, Adds, Goes
<1>11. Beginning(p, c)'
  BY <1>1, <1>2, <1>4, <1>5 DEF Beginning, Due, Once, Ops, Adds, Goes, userVars
<1>12. Flow(p, c)'
  BY <1>1, <1>2, <1>5, <1>6, <1>7 DEF Flow, InHand, Sent, EndSent, Goes, userVars
<1>13. Values(c)'
  BY <1>1, <1>2, <1>4, <1>5, <1>6 DEF Values, Reached, Adds, Goes, userVars
<1>14. Ending(p, c)'
  BY <1>1, <1>2, <1>4, <1>5, <1>7 DEF Ending, EndSent, Ops, Adds, Goes, userVars
<1>15. Cancelling(p, c)'
  BY <1>1, <1>2, <1>4, <1>5, <1>7 DEF Cancelling, Due, Once, MayAsk, Ops, Adds, Goes, userVars
<1>16. Outlives(c)'
  BY <1>2 DEF Outlives
<1> QED
  BY <1>8, <1>9, <1>10, <1>11, <1>12, <1>13, <1>14, <1>15, <1>16 DEF IInvAt

\* The task of Request adds to the balance of upstream, unless that is deleted.
LEMMA RequestUpStep ==
  ASSUME CarefulConsumer, NEW p \in Workers, NEW c \in Workers, p = produceOn, c = consumeOn,
         IInvAt(p, c), RequestUp
  PROVE  IInvAt(p, c)'
<1>1. /\ TypeOK /\ NoFault /\ (\A w \in Workers : WorkerOK(w, p, c)) /\ Beginning(p, c)
      /\ Flow(p, c) /\ Values(c) /\ Ending(p, c) /\ Cancelling(p, c) /\ Outlives(c)
  BY DEF IInvAt
<1>2. /\ pc[p] = "request"
      /\ requested' = IF Alive THEN AddTo(requested, busy[p].n) ELSE requested
      /\ Goto(p, IF Alive THEN "loop" ELSE "return")
      /\ UNCHANGED <<queue, busy, phase, yielded, userVars, holder, fault>>
  BY DEF RequestUp, At
<1>3. Goes(p, IF Alive THEN "loop" ELSE "return")
  BY <1>1, <1>2, Moved DEF Places, Ops
<1>4. busy[p].op = "request"
  BY <1>1, <1>2 DEF WorkerOK, Ops
<1>5. requested' \in Nat /\ requested' <= InHand(p) + requested
  <2>1. InHand(p) = busy[p].n /\ InHand(p) \in Nat /\ InHand(p) + requested < KMax
    BY <1>2, Requested DEF InHand
  <2> QED
    BY <1>1, <1>2, <2>1, KMaxAssumption DEF AddTo, TypeOK
<1>6. InHand(p)' = 0
  BY <1>3 DEF InHand, Goes
<1>7. TypeOK'
  BY <1>1, <1>2, <1>3, <1>5 DEF TypeOK, Goes, userVars
<1>8. NoFault'
  BY <1>1, <1>2 DEF NoFault
<1>9. ASSUME NEW w \in Workers
      PROVE  WorkerOK(w, p, c)'
  BY <1>1, <1>2, <1>3 DEF WorkerOK, Ops, Goes, Alive
<1>10. Beginning(p, c)'
  BY <1>1, <1>2, <1>3 DEF Beginning, Due, Once, Goes, userVars
<1>11. Flow(p, c)'
  <2>1. queue[p] \in Seq(AllTasks) /\ InHand(p) \in Nat /\ Sent \in Nat /\ asked \in Nat
        /\ requested \in Nat /\ InHand(p) + requested + Sent \in Nat
    BY <1>1, Requested DEF TypeOK
  <2>2. Owing(queue[p], InHand(p) + requested + Sent, asked)
    BY <1>1 DEF Flow
  <2>3. Sent' = Sent /\ EndSent' = EndSent
    BY <1>2 DEF Sent, EndSent, userVars
  <2>4. 0 + requested' + Sent \in Nat /\ 0 + requested' + Sent <= InHand(p) + requested + Sent
    <3>1. \A a, b, d \in Nat : a <= b => 0 + a + d \in Nat /\ 0 + a + d <= b + d
      OBVIOUS
    <3>2. InHand(p) + requested \in Nat
      BY <2>1
    <3> QED
      BY <1>5, <2>1, <3>1, <3>2
  <2>5. Owing(queue[p], 0 + requested' + Sent, asked)
    BY <2>1, <2>2, <2>4, OwingBounds
  <2> QED
    BY <1>1, <1>2, <1>6, <2>3, <2>5 DEF Flow, userVars

<1>12. Values(c)'
  BY <1>1, <1>2, <1>3 DEF Values, Reached, Goes, userVars
<1>13. Ending(p, c)'
  BY <1>1, <1>2, <1>3 DEF Ending, EndSent, Goes, Alive, userVars
<1>14. Cancelling(p, c)'
  BY <1>1, <1>2, <1>3 DEF Cancelling, Due, Once, EndSent, MayAsk, Goes, userVars
<1>15. Outlives(c)'
  BY <1>1, <1>2, <1>3 DEF Outlives, Goes
<1> QED
  BY <1>7, <1>8, <1>9, <1>10, <1>11, <1>12, <1>13, <1>14, <1>15 DEF IInvAt

\* Upstream is in its loop only while it has not ended.
LEMMA InLoop ==
  ASSUME CarefulConsumer, NEW p \in Workers, NEW c \in Workers, IInvAt(p, c), pc[p] = "loop"
  PROVE  /\ phase = "alive" /\ holder = "stream" /\ ~EndSent /\ Sent = yielded
         /\ InHand(p) = 0 /\ requested \in Nat /\ requested < KMax
         /\ requested + yielded <= asked /\ got <= yielded
         /\ Owing(queue[p], 0 + requested + yielded, asked)
<1>1. TypeOK /\ Flow(p, c) /\ Ending(p, c)
  BY DEF IInvAt
<1>2. phase = "alive" /\ ~EndSent
  BY <1>1 DEF Ending
<1>3. holder = "stream" /\ Sent = yielded /\ InHand(p) = 0 /\ got <= yielded
  BY <1>1, <1>2 DEF Ending, Sent, InHand, Flow, EndSent
<1>4. requested \in Nat /\ yielded \in Nat /\ asked \in Nat
  BY <1>1 DEF TypeOK
<1>5. requested + yielded <= asked /\ requested < KMax
  BY <1>3, <1>4, Requested
<1> QED
  BY <1>1, <1>2, <1>3, <1>4, <1>5 DEF Flow

\* Upstream leaves its loop when no event is requested.
LEMMA PauseStep ==
  ASSUME CarefulConsumer, NEW p \in Workers, NEW c \in Workers, p = produceOn, c = consumeOn,
         IInvAt(p, c), ~HasRequests(requested), Generate
  PROVE  IInvAt(p, c)'
<1>1. /\ TypeOK /\ NoFault /\ (\A w \in Workers : WorkerOK(w, p, c)) /\ Beginning(p, c)
      /\ Flow(p, c) /\ Values(c) /\ Ending(p, c) /\ Cancelling(p, c) /\ Outlives(c)
  BY DEF IInvAt
<1>2. /\ pc[p] = "loop" /\ Goto(p, "return")
      /\ UNCHANGED <<queue, busy, requested, yielded, phase, userVars, holder, fault>>
  BY DEF Generate, At
<1>3. Goes(p, "return")
  BY <1>1, <1>2, Moved DEF Places, Ops
<1>4. phase = "alive" /\ ~EndSent
  BY <1>2, InLoop
<1>5. TypeOK'
  BY <1>1, <1>2, <1>3 DEF TypeOK, Goes, userVars
<1>6. NoFault'
  BY <1>1, <1>2 DEF NoFault
<1>7. ASSUME NEW w \in Workers
      PROVE  WorkerOK(w, p, c)'
  BY <1>1, <1>2, <1>3 DEF WorkerOK, Ops, Goes
<1>8. Beginning(p, c)'
  BY <1>1, <1>2, <1>3 DEF Beginning, Due, Once, Goes, userVars
<1>9. Flow(p, c)'
  BY <1>1, <1>2, <1>3 DEF Flow, InHand, Sent, EndSent, Goes, userVars
<1>10. Values(c)'
  BY <1>1, <1>2, <1>3 DEF Values, Reached, Goes, userVars
<1>11. Ending(p, c)'
  BY <1>1, <1>2, <1>3 DEF Ending, EndSent, Goes, userVars
<1>12. Cancelling(p, c)'
  BY <1>1, <1>2, <1>3 DEF Cancelling, Due, Once, EndSent, MayAsk, Goes, userVars
<1>13. Outlives(c)'
  BY <1>1, <1>2, <1>3 DEF Outlives, Goes
<1> QED
  BY <1>5, <1>6, <1>7, <1>8, <1>9, <1>10, <1>11, <1>12, <1>13 DEF IInvAt

\* Upstream sends a value.
LEMMA YieldStep ==
  ASSUME CarefulConsumer, NEW p \in Workers, NEW c \in Workers, p = produceOn, c = consumeOn,
         IInvAt(p, c), HasRequests(requested), yielded' = yielded + 1, Generate
  PROVE  IInvAt(p, c)'
<1> DEFINE k == Task("value", yielded + 1)
<1>1. /\ TypeOK /\ NoFault /\ (\A w \in Workers : WorkerOK(w, p, c)) /\ Beginning(p, c)
      /\ Flow(p, c) /\ Values(c) /\ Ending(p, c) /\ Cancelling(p, c) /\ Outlives(c)
  BY DEF IInvAt
<1>2. /\ pc[p] = "loop" /\ requested' = RemoveFrom(requested, 1)
      /\ yielded' = yielded + 1 /\ Executor!Submit(c, k)
      /\ UNCHANGED <<pc, phase, userVars, holder, fault>>
  BY DEF Generate, At
<1>3. k \in AllTasks /\ k.op = "value" /\ k.n = yielded + 1
  BY <1>1 DEF AllTasks, Task, Ops, TypeOK
<1> HIDE DEF k
<1>4. Adds(c, "value")
  BY <1>1, <1>2, <1>3, Submitted
<1>5. /\ phase = "alive" /\ holder = "stream" /\ ~EndSent /\ Sent = yielded
      /\ InHand(p) = 0 /\ requested + yielded <= asked /\ got <= yielded
      /\ Owing(queue[p], 0 + requested + yielded, asked)
  BY <1>2, InLoop
<1>6. requested' = requested - 1 /\ requested' \in Nat
  <2>1. requested \in Nat /\ requested < KMax /\ requested > 0
    BY <1>2, InLoop DEF HasRequests
  <2> QED
    BY <1>2, <2>1, KMaxAssumption DEF RemoveFrom
<1>7. TypeOK'
  BY <1>1, <1>2, <1>4, <1>6 DEF TypeOK, Adds, userVars
<1>8. NoFault'
  BY <1>1, <1>2 DEF NoFault
<1>9. ASSUME NEW w \in Workers
      PROVE  WorkerOK(w, p, c)'
  BY <1>1, <1>2, <1>4 DEF WorkerOK, ConsumerOps, Adds
<1>10. Beginning(p, c)'
  BY <1>1, <1>2, <1>4, <1>5 DEF Beginning, Due, Once, Ops, Adds, userVars
<1>11. Flow(p, c)'
  <2>1. /\ queue[p] \in Seq(AllTasks) /\ asked \in Nat /\ yielded \in Nat /\ requested \in Nat
        /\ got \in Nat
    BY <1>1 DEF TypeOK
  <2>2. Owing(queue[p], 0 + requested + yielded, asked)
    BY <1>5
  <2>3. 0 + requested + yielded \in Nat /\ 0 + requested' + (yielded + 1) = 0 + requested + yielded
    BY <1>6, <2>1
  <2>4. Owing(queue'[p], 0 + requested' + (yielded + 1), asked)
    BY <1>1, <1>2, <1>3, <2>1, <2>2, <2>3, SubmittedSums
  <2>5. InHand(p)' = 0 /\ Sent' = yielded + 1 /\ ~EndSent'
    BY <1>2, <1>4, <1>5 DEF InHand, Sent, EndSent, userVars
  <2> QED
    BY <1>1, <1>2, <1>5, <2>1, <2>4, <2>5 DEF Flow, userVars, EndSent

<1>12. Values(c)'
  <2>1. Reached(c) \in Nat /\ yielded \in Nat /\ ValuesIn(queue[c], Reached(c), yielded)
    BY <1>1, Requested DEF TypeOK, Values
  <2>2. Reached(c) <= yielded
    BY <1>1, <1>5 DEF Values, Reached
  <2>3. ValuesIn(queue'[c], Reached(c), yielded + 1)
    BY <1>1, <1>2, <1>3, <2>1, <2>2, SubmittedSums
  <2>4. busy[c].n \in Nat \/ pc[c] \notin {"value", "call"}
    BY <2>1 DEF Reached
  <2>5. Reached(c)' = Reached(c)
    BY <1>2, <1>4 DEF Reached, Adds, userVars
  <2> QED
    BY <1>1, <1>2, <1>4, <2>1, <2>3, <2>4, <2>5 DEF Values, Adds, userVars

<1>13. Ending(p, c)'
  BY <1>1, <1>2, <1>4 DEF Ending, EndSent, Ops, Adds, userVars
<1>14. Cancelling(p, c)'
  BY <1>1, <1>2, <1>4 DEF Cancelling, Due, Once, EndSent, MayAsk, Ops, Adds, userVars
<1>15. Outlives(c)'
  BY <1>2, <1>5 DEF Outlives
<1> QED
  BY <1>7, <1>8, <1>9, <1>10, <1>11, <1>12, <1>13, <1>14, <1>15 DEF IInvAt

\* Upstream sends the end, and the subscriber with it.
LEMMA EndUpStep ==
  ASSUME CarefulConsumer, NEW p \in Workers, NEW c \in Workers, p = produceOn, c = consumeOn,
         IInvAt(p, c), HasRequests(requested), ~(yielded' = yielded + 1), Generate
  PROVE  IInvAt(p, c)'
<1> DEFINE k == Task("end", 0)
<1>1. /\ TypeOK /\ NoFault /\ (\A w \in Workers : WorkerOK(w, p, c)) /\ Beginning(p, c)
      /\ Flow(p, c) /\ Values(c) /\ Ending(p, c) /\ Cancelling(p, c) /\ Outlives(c)
  BY DEF IInvAt
<1>2. /\ pc[p] = "loop" /\ requested' = RemoveFrom(requested, 1)
      /\ yielded >= MinElems /\ holder' = "task" /\ Executor!Submit(c, k) /\ Goto(p, "delete")
      /\ UNCHANGED <<yielded, phase, userVars, fault>>
  BY DEF Generate, LastOwner, At
<1>3. k \in AllTasks /\ k.op = "end" /\ k.n = 0
  BY <1>1 DEF AllTasks, Task, Ops, TypeOK
<1> HIDE DEF k
<1>4. Adds(c, "end")
  BY <1>1, <1>2, <1>3, Submitted
<1>5. Goes(p, "delete")
  BY <1>1, <1>2, Moved DEF Places, Ops
<1>6. /\ phase = "alive" /\ holder = "stream" /\ ~EndSent /\ Sent = yielded
      /\ InHand(p) = 0 /\ requested + yielded <= asked /\ got <= yielded
      /\ Owing(queue[p], 0 + requested + yielded, asked)
  BY <1>1, <1>2, InLoop
<1>7. requested' = requested - 1 /\ requested' \in Nat
  <2>1. requested \in Nat /\ requested < KMax /\ requested > 0
    BY <1>2, InLoop DEF HasRequests
  <2> QED
    BY <1>2, <2>1, KMaxAssumption DEF RemoveFrom
<1>8. /\ Owing(queue'[p], InHand(p) + requested + Sent, asked)
      /\ ValuesIn(queue'[c], Reached(c), yielded)
  BY <1>2, <1>3, SubmittedQuiet
<1>9. ~cancelled
  BY <1>1, <1>2, <1>6, <1>7 DEF Cancelling, TypeOK
<1>10. TypeOK'
  BY <1>1, <1>2, <1>4, <1>5, <1>7 DEF TypeOK, Adds, Goes, userVars
<1>11. NoFault'
  BY <1>1, <1>2 DEF NoFault
<1>12. ASSUME NEW w \in Workers
       PROVE  WorkerOK(w, p, c)'
  <2>1. /\ WorkerOK(w, p, c) /\ busy'[w] = busy[w] /\ busy[p].op = "request"
        /\ w # p => pc'[w] = pc[w]
    BY <1>1, <1>2, <1>4, <1>5 DEF Adds, Goes, WorkerOK
  <2>2. Only(queue'[w], (IF w = p THEN ProducerOps ELSE {}) \cup (IF w = c THEN ConsumerOps ELSE {}))
    BY <1>1, <1>4 DEF Adds, WorkerOK, ConsumerOps
  <2>3. pc'[p] = "delete" /\ (w = p => busy[w].op = "request" /\ busy[w] # NoTask)
    BY <2>1, <1>5 DEF Goes, NoTask, Task
  <2>4. CASE w = p
    BY <1>5, <2>1, <2>2, <2>3, <2>4 DEF WorkerOK, Goes, Ops, ConsumerOps
  <2>5. CASE w # p
    BY <2>1, <2>2, <2>5 DEF WorkerOK
  <2> QED
    BY <2>4, <2>5
<1>13. Beginning(p, c)'
  BY <1>1, <1>2, <1>4, <1>5 DEF Beginning, Due, Once, Ops, Adds, Goes, userVars
<1>14. Flow(p, c)'
  <2>1. asked \in Nat /\ yielded \in Nat /\ requested \in Nat
    BY <1>1 DEF TypeOK
  <2>2. 0 + requested' + (yielded + 1) = 0 + requested + yielded
    BY <1>7, <2>1
  <2>3. Owing(queue'[p], 0 + requested' + (yielded + 1), asked)
    BY <1>6, <1>8, <2>2
  <2>4. InHand(p)' = 0 /\ Sent' = yielded + 1
    BY <1>2, <1>4, <1>5 DEF InHand, Sent, EndSent, userVars, Goes
  <2> QED
    BY <1>1, <1>2, <1>6, <2>1, <2>3, <2>4 DEF Flow, userVars, EndSent

<1>15. Values(c)'
  BY <1>1, <1>2, <1>4, <1>5, <1>8 DEF Values, Reached, Adds, Goes, userVars
<1>16. Ending(p, c)'
  BY <1>1, <1>2, <1>4, <1>5 DEF Ending, EndSent, Ops, Adds, Goes, userVars
<1>17. Cancelling(p, c)'
  BY <1>1, <1>2, <1>4, <1>5, <1>9 DEF Cancelling, Due, Once, MayAsk, Ops, Adds, Goes, userVars
<1>18. Outlives(c)'
  BY <1>2 DEF Outlives
<1> QED
  BY <1>10, <1>11, <1>12, <1>13, <1>14, <1>15, <1>16, <1>17, <1>18 DEF IInvAt

\* Upstream deletes itself after the end.
LEMMA SelfDestructStep ==
  ASSUME CarefulConsumer, NEW p \in Workers, NEW c \in Workers, p = produceOn, c = consumeOn,
         IInvAt(p, c), SelfDestruct
  PROVE  IInvAt(p, c)'
<1>1. /\ TypeOK /\ NoFault /\ (\A w \in Workers : WorkerOK(w, p, c)) /\ Beginning(p, c)
      /\ Flow(p, c) /\ Values(c) /\ Ending(p, c) /\ Cancelling(p, c) /\ Outlives(c)
  BY DEF IInvAt
<1>2. /\ pc[p] = "delete" /\ phase' = "deleted" /\ Goto(p, "return")
      /\ holder' = IF holder = "stream" THEN "none" ELSE holder
      /\ UNCHANGED <<queue, busy, requested, yielded, userVars, fault>>
  BY DEF SelfDestruct, Deleted, At
<1>3. Goes(p, "return")
  BY <1>1, <1>2, Moved DEF Places, Ops
<1>4. phase = "alive" /\ EndSent /\ holder # "stream" /\ ~cancelled /\ open
  BY <1>1, <1>2, NotOpen DEF Ending, Cancelling
<1>5. TypeOK'
  BY <1>1, <1>2, <1>3 DEF TypeOK, Goes, userVars
<1>6. NoFault'
  BY <1>1, <1>2 DEF NoFault
<1>7. ASSUME NEW w \in Workers
      PROVE  WorkerOK(w, p, c)'
  BY <1>1, <1>2, <1>3 DEF WorkerOK, Ops, Goes
<1>8. Beginning(p, c)'
  BY <1>1, <1>2, <1>3, <1>4 DEF Beginning, Due, Once, Goes, userVars
<1>9. Flow(p, c)'
  BY <1>1, <1>2, <1>3 DEF Flow, InHand, Sent, EndSent, Goes, userVars
<1>10. Values(c)'
  BY <1>1, <1>2, <1>3 DEF Values, Reached, Goes, userVars
<1>11. Ending(p, c)'
  BY <1>1, <1>2, <1>3 DEF Ending, EndSent, Goes, userVars
<1>12. Cancelling(p, c)'
  BY <1>1, <1>2, <1>3, <1>4 DEF Cancelling, Due, Once, MayAsk, Goes, userVars
<1>13. Outlives(c)'
  BY <1>1, <1>2, <1>3, <1>4 DEF Outlives, Goes
<1> QED
  BY <1>5, <1>6, <1>7, <1>8, <1>9, <1>10, <1>11, <1>12, <1>13 DEF IInvAt

\* The task of Cancel deletes the stream.
LEMMA CancelUpStep ==
  ASSUME CarefulConsumer, NEW p \in Workers, NEW c \in Workers, p = produceOn, c = consumeOn,
         IInvAt(p, c), CancelUp
  PROVE  IInvAt(p, c)'
<1>1. /\ TypeOK /\ NoFault /\ (\A w \in Workers : WorkerOK(w, p, c)) /\ Beginning(p, c)
      /\ Flow(p, c) /\ Values(c) /\ Ending(p, c) /\ Cancelling(p, c) /\ Outlives(c)
  BY DEF IInvAt
<1>2. /\ pc[p] = "cancel" /\ phase' = "deleted" /\ fault' = ~Alive /\ Goto(p, "return")
      /\ holder' = IF holder = "stream" THEN "none" ELSE holder
      /\ UNCHANGED <<queue, busy, requested, yielded, userVars>>
  BY DEF CancelUp, Deleted, At
<1>3. Goes(p, "return")
  BY <1>1, <1>2, Moved DEF Places, Ops
<1>4. /\ phase = "alive" /\ ~EndSent /\ holder = "stream" /\ cancelled /\ open
      /\ busy[p].op = "cancel"
  BY <1>1, <1>2 DEF Ending, Cancelling, Due, Beginning, WorkerOK, Ops
<1>5. TypeOK'
  BY <1>1, <1>2, <1>3 DEF TypeOK, Goes, userVars
<1>6. NoFault'
  BY <1>2, <1>4 DEF NoFault, Alive
<1>7. ASSUME NEW w \in Workers
      PROVE  WorkerOK(w, p, c)'
  BY <1>1, <1>2, <1>3 DEF WorkerOK, Ops, Goes
<1>8. Beginning(p, c)'
  BY <1>1, <1>2, <1>3, <1>4 DEF Beginning, Due, Once, Goes, userVars
<1>9. Flow(p, c)'
  BY <1>1, <1>2, <1>3 DEF Flow, InHand, Sent, EndSent, Goes, userVars
<1>10. Values(c)'
  BY <1>1, <1>2, <1>3 DEF Values, Reached, Goes, userVars
<1>11. Ending(p, c)'
  BY <1>1, <1>2, <1>3, <1>4 DEF Ending, Goes, userVars
<1>12. Cancelling(p, c)'
  BY <1>1, <1>2, <1>3 DEF Cancelling, Due, Once, EndSent, Goes, userVars
<1>13. Outlives(c)'
  BY <1>1, <1>2, <1>3, <1>4 DEF Outlives, Cancelling, Goes
<1> QED
  BY <1>5, <1>6, <1>7, <1>8, <1>9, <1>10, <1>11, <1>12, <1>13 DEF IInvAt

\* The task of OnSubscribe gives the subscription to the consumer.
LEMMA OnSubscribeStep ==
  ASSUME CarefulConsumer, NEW p \in Workers, NEW c \in Workers, p = produceOn, c = consumeOn,
         IInvAt(p, c), OnSubscribe
  PROVE  IInvAt(p, c)'
<1>1. /\ TypeOK /\ NoFault /\ (\A w \in Workers : WorkerOK(w, p, c)) /\ Beginning(p, c)
      /\ Flow(p, c) /\ Values(c) /\ Ending(p, c) /\ Cancelling(p, c) /\ Outlives(c)
  BY DEF IInvAt
<1>2. /\ pc[c] = "onSubscribe" /\ fault' = ~Alive /\ open' = TRUE /\ Goto(c, "body")
      /\ UNCHANGED <<queue, busy, upVars, asked, got, ended, cancelled, holder>>
  BY DEF OnSubscribe, At
<1>3. Goes(c, "body")
  BY <1>1, <1>2, Moved DEF Places, Ops
<1>4. /\ phase = "alive" /\ ~open /\ ~EndSent /\ ~cancelled /\ asked = 0 /\ got = 0
      /\ busy[c].op = "onSubscribe" /\ holder = "stream"
  <2>1. phase = "alive" /\ ~open /\ busy[c].op = "onSubscribe"
    BY <1>1, <1>2 DEF Beginning, Due, WorkerOK, Ops
  <2>2. ~EndSent /\ ~cancelled /\ asked = 0
    BY <2>1, NotOpen
  <2>3. got = 0
    BY <1>1, <2>2, Requested DEF TypeOK
  <2> QED
    BY <1>1, <2>1, <2>2, <2>3 DEF Ending
<1>5. TypeOK'
  BY <1>1, <1>2, <1>3 DEF TypeOK, Goes, upVars
<1>6. NoFault'
  BY <1>2, <1>4 DEF NoFault, Alive
<1>7. ASSUME NEW w \in Workers
      PROVE  WorkerOK(w, p, c)'
  BY <1>1, <1>2, <1>3 DEF WorkerOK, ConsumerOps, Ops, Goes
<1>8. Beginning(p, c)'
  BY <1>1, <1>2, <1>3 DEF Beginning, Due, Once, Goes, upVars
<1>9. Flow(p, c)'
  BY <1>1, <1>2, <1>3 DEF Flow, InHand, Sent, EndSent, Goes, upVars
<1>10. Values(c)'
  BY <1>1, <1>2, <1>3 DEF Values, Reached, Goes, upVars
<1>11. Ending(p, c)'
  BY <1>1, <1>2, <1>3 DEF Ending, EndSent, Goes, upVars
<1>12. Cancelling(p, c)'
  BY <1>1, <1>2, <1>3, <1>4 DEF Cancelling, Due, Once, Goes
<1>13. Outlives(c)'
  BY <1>1, <1>2 DEF Outlives
<1> QED
  BY <1>5, <1>6, <1>7, <1>8, <1>9, <1>10, <1>11, <1>12, <1>13 DEF IInvAt

\* The check of a value finds the stream.
LEMMA CheckStaleStep ==
  ASSUME CarefulConsumer, NEW p \in Workers, NEW c \in Workers, p = produceOn, c = consumeOn,
         IInvAt(p, c), CheckStale
  PROVE  IInvAt(p, c)'
<1>1. /\ TypeOK /\ NoFault /\ (\A w \in Workers : WorkerOK(w, p, c)) /\ Beginning(p, c)
      /\ Flow(p, c) /\ Values(c) /\ Ending(p, c) /\ Cancelling(p, c) /\ Outlives(c)
  BY DEF IInvAt
<1>2. /\ pc[c] = "value" /\ fault' = ~Alive /\ Goto(c, "call")
      /\ UNCHANGED <<queue, busy, upVars, userVars, holder>>
  BY DEF CheckStale, At
<1>3. Goes(c, "call")
  BY <1>1, <1>2, Moved DEF Places, Ops
<1>4. /\ phase = "alive" /\ holder = "stream" /\ ~EndSent /\ ~cancelled /\ open
      /\ got < busy[c].n /\ busy[c].n <= yielded /\ got < yielded /\ busy[c].n \in Nat
      /\ busy[c].op = "value"
  <2>1. busy[c].n \in Nat /\ got < busy[c].n /\ busy[c].n <= yielded
    BY <1>1, <1>2, Requested DEF Values, Reached
  <2>2. got < yielded
    BY <1>1, <2>1 DEF TypeOK
  <2> QED
    BY <1>1, <1>2, <2>1, <2>2, ValueAhead DEF WorkerOK, Ops
<1>5. TypeOK'
  BY <1>1, <1>2, <1>3 DEF TypeOK, Goes, userVars, upVars
<1>6. NoFault'
  BY <1>2, <1>4 DEF NoFault, Alive
<1>7. ASSUME NEW w \in Workers
      PROVE  WorkerOK(w, p, c)'
  BY <1>1, <1>2, <1>3 DEF WorkerOK, Ops, Goes
<1>8. Beginning(p, c)'
  BY <1>1, <1>2, <1>3 DEF Beginning, Due, Once, Goes, userVars, upVars
<1>9. Flow(p, c)'
  BY <1>1, <1>2, <1>3 DEF Flow, InHand, Sent, EndSent, Goes, userVars, upVars
<1>10. Values(c)'
  BY <1>1, <1>2, <1>3 DEF Values, Reached, Goes, userVars, upVars
<1>11. Ending(p, c)'
  BY <1>1, <1>2, <1>3 DEF Ending, EndSent, Goes, userVars, upVars
<1>12. Cancelling(p, c)'
  BY <1>1, <1>2, <1>3, <1>4 DEF Cancelling, Due, Once, Goes, userVars
<1>13. Outlives(c)'
  BY <1>1, <1>2 DEF Outlives
<1> QED
  BY <1>5, <1>6, <1>7, <1>8, <1>9, <1>10, <1>11, <1>12, <1>13 DEF IInvAt

\* A value arrives at a subscriber that is there.
LEMMA OnValueStep ==
  ASSUME CarefulConsumer, NEW p \in Workers, NEW c \in Workers, p = produceOn, c = consumeOn,
         IInvAt(p, c), OnValue
  PROVE  IInvAt(p, c)'
<1>1. /\ TypeOK /\ NoFault /\ (\A w \in Workers : WorkerOK(w, p, c)) /\ Beginning(p, c)
      /\ Flow(p, c) /\ Values(c) /\ Ending(p, c) /\ Cancelling(p, c) /\ Outlives(c)
  BY DEF IInvAt
<1>2. /\ pc[c] = "call" /\ fault' = (holder # "stream") /\ got' = got + 1 /\ Goto(c, "body")
      /\ UNCHANGED <<queue, busy, upVars, open, asked, ended, cancelled, holder>>
  BY DEF OnValue, At
<1>3. Goes(c, "body")
  BY <1>1, <1>2, Moved DEF Places, Ops
<1>4. /\ phase = "alive" /\ holder = "stream" /\ ~EndSent /\ ~cancelled /\ open
      /\ got < busy[c].n /\ busy[c].n <= yielded /\ got < yielded /\ busy[c].n \in Nat
      /\ busy[c].op = "value"
  <2>1. busy[c].n \in Nat /\ got < busy[c].n /\ busy[c].n <= yielded
    BY <1>1, <1>2, Requested DEF Values, Reached
  <2>2. got < yielded
    BY <1>1, <2>1 DEF TypeOK
  <2> QED
    BY <1>1, <1>2, <2>1, <2>2, ValueAhead DEF WorkerOK, Ops
<1>5. ValuesIn(queue[c], got + 1, yielded)
  <2>1. /\ queue[c] \in Seq(AllTasks) /\ yielded \in Nat /\ got \in Nat
        /\ got + 1 \in Nat /\ got + 1 <= busy[c].n
    BY <1>1, <1>4 DEF TypeOK
  <2>2. ValuesIn(queue[c], busy[c].n, yielded)
    BY <1>1, <1>2 DEF Values, Reached
  <2> QED
    BY <1>4, <2>1, <2>2, ValuesBounds
<1>6. TypeOK'
  BY <1>1, <1>2, <1>3 DEF TypeOK, Goes, upVars
<1>7. NoFault'
  BY <1>2, <1>4 DEF NoFault
<1>8. ASSUME NEW w \in Workers
      PROVE  WorkerOK(w, p, c)'
  BY <1>1, <1>2, <1>3 DEF WorkerOK, ConsumerOps, Ops, Goes
<1>9. Beginning(p, c)'
  BY <1>1, <1>2, <1>3, <1>4 DEF Beginning, Due, Once, Goes, upVars
<1>10. Flow(p, c)'
  BY <1>1, <1>2, <1>3, <1>4 DEF Flow, InHand, Sent, EndSent, TypeOK, Goes, upVars
<1>11. Values(c)'
  BY <1>2, <1>3, <1>5 DEF Values, Reached, Goes, upVars
<1>12. Ending(p, c)'
  BY <1>1, <1>2, <1>3 DEF Ending, EndSent, Goes, upVars
<1>13. Cancelling(p, c)'
  BY <1>1, <1>2, <1>3, <1>4 DEF Cancelling, Due, Once, Goes
<1>14. Outlives(c)'
  BY <1>1, <1>2 DEF Outlives
<1> QED
  BY <1>6, <1>7, <1>8, <1>9, <1>10, <1>11, <1>12, <1>13, <1>14 DEF IInvAt

\* The end arrives after every value.
LEMMA OnEndStep ==
  ASSUME CarefulConsumer, NEW p \in Workers, NEW c \in Workers, p = produceOn, c = consumeOn,
         IInvAt(p, c), OnEnd
  PROVE  IInvAt(p, c)'
<1>1. /\ TypeOK /\ NoFault /\ (\A w \in Workers : WorkerOK(w, p, c)) /\ Beginning(p, c)
      /\ Flow(p, c) /\ Values(c) /\ Ending(p, c) /\ Cancelling(p, c) /\ Outlives(c)
  BY DEF IInvAt
<1>2. /\ pc[c] = "end" /\ fault' = (holder = "none") /\ got' = got + 1 /\ ended' = TRUE
      /\ Goto(c, "body")
      /\ UNCHANGED <<queue, busy, upVars, open, asked, cancelled, holder>>
  BY DEF OnEnd, At
<1>3. Goes(c, "body")
  BY <1>1, <1>2, Moved DEF Places, Ops
<1>4. /\ busy[c].op = "end" /\ holder = "task" /\ ~ended /\ EndSent /\ ~cancelled /\ open
      /\ got <= yielded
  <2>1. busy[c].op = "end"
    BY <1>1, <1>2 DEF WorkerOK, Ops
  <2>2. holder = "task" /\ ~ended
    BY <1>1, <1>2, <2>1 DEF Ending
  <2> QED
    BY <1>1, <2>1, <2>2, NotOpen DEF EndSent, Cancelling, Flow
<1>5. ValuesIn(queue[c], got + 1, yielded)
  <2>1. queue[c] \in Seq(AllTasks) /\ yielded \in Nat /\ got \in Nat
    BY <1>1 DEF TypeOK
  <2>2. ValuesIn(queue[c], got, yielded)
    BY <1>1, <1>2 DEF Values, Reached
  <2>3. ~Has(queue[c], "value")
    BY <1>4, <2>1, <2>2, ValuesBounds, ValueAhead
  <2> QED
    BY <2>1, <2>2, <2>3, ValuesBounds
<1>6. TypeOK'
  BY <1>1, <1>2, <1>3 DEF TypeOK, Goes, upVars
<1>7. NoFault'
  BY <1>2, <1>4 DEF NoFault
<1>8. ASSUME NEW w \in Workers
      PROVE  WorkerOK(w, p, c)'
  BY <1>1, <1>2, <1>3 DEF WorkerOK, ConsumerOps, Ops, Goes
<1>9. Beginning(p, c)'
  BY <1>1, <1>2, <1>3, <1>4 DEF Beginning, Due, Once, Goes, upVars
<1>10. Flow(p, c)'
  BY <1>1, <1>2, <1>3, <1>4 DEF Flow, InHand, Sent, EndSent, TypeOK, Goes, upVars
<1>11. Values(c)'
  BY <1>2, <1>3, <1>5 DEF Values, Reached, Goes, upVars
<1>12. Ending(p, c)'
  BY <1>1, <1>2, <1>3, <1>4 DEF Ending, EndSent, Goes, upVars
<1>13. Cancelling(p, c)'
  BY <1>1, <1>2, <1>3, <1>4 DEF Cancelling, Due, Once, Goes
<1>14. Outlives(c)'
  BY <1>1, <1>2 DEF Outlives
<1> QED
  BY <1>6, <1>7, <1>8, <1>9, <1>10, <1>11, <1>12, <1>13, <1>14 DEF IInvAt

\* A task of the user begins.
LEMMA UserTaskStep ==
  ASSUME CarefulConsumer, NEW p \in Workers, NEW c \in Workers, p = produceOn, c = consumeOn,
         IInvAt(p, c), UserTask
  PROVE  IInvAt(p, c)'
<1>1. /\ TypeOK /\ NoFault /\ (\A w \in Workers : WorkerOK(w, p, c)) /\ Beginning(p, c)
      /\ Flow(p, c) /\ Values(c) /\ Ending(p, c) /\ Cancelling(p, c) /\ Outlives(c)
  BY DEF IInvAt
<1>2. /\ pc[c] = "user" /\ Goto(c, "body")
      /\ UNCHANGED <<queue, busy, upVars, userVars, holder, fault>>
  BY DEF UserTask, At
<1>3. Goes(c, "body")
  BY <1>1, <1>2, Moved DEF Places, Ops
<1>4. busy[c].op = "user" /\ open
  BY <1>1, <1>2 DEF WorkerOK, Beginning, Ops
<1>5. TypeOK'
  BY <1>1, <1>2, <1>3 DEF TypeOK, Goes, userVars, upVars
<1>6. NoFault'
  BY <1>1, <1>2 DEF NoFault
<1>7. ASSUME NEW w \in Workers
      PROVE  WorkerOK(w, p, c)'
  BY <1>1, <1>2, <1>3 DEF WorkerOK, ConsumerOps, Ops, Goes
<1>8. Beginning(p, c)'
  BY <1>1, <1>2, <1>3, <1>4 DEF Beginning, Due, Once, Goes, userVars, upVars
<1>9. Flow(p, c)'
  BY <1>1, <1>2, <1>3 DEF Flow, InHand, Sent, EndSent, Goes, userVars, upVars
<1>10. Values(c)'
  BY <1>1, <1>2, <1>3 DEF Values, Reached, Goes, userVars, upVars
<1>11. Ending(p, c)'
  BY <1>1, <1>2, <1>3 DEF Ending, EndSent, Goes, userVars, upVars
<1>12. Cancelling(p, c)'
  BY <1>1, <1>2, <1>3 DEF Cancelling, Due, Once, EndSent, Goes, userVars, upVars
<1>13. Outlives(c)'
  BY <1>1, <1>2 DEF Outlives
<1> QED
  BY <1>5, <1>6, <1>7, <1>8, <1>9, <1>10, <1>11, <1>12, <1>13 DEF IInvAt

\* The user submits a task.
LEMMA UserSchedulesStep ==
  ASSUME CarefulConsumer, NEW p \in Workers, NEW c \in Workers, p = produceOn, c = consumeOn,
         IInvAt(p, c), UserSchedules
  PROVE  IInvAt(p, c)'
<1> DEFINE k == Task("user", 0)
<1>1. /\ TypeOK /\ NoFault /\ (\A w \in Workers : WorkerOK(w, p, c)) /\ Beginning(p, c)
      /\ Flow(p, c) /\ Values(c) /\ Ending(p, c) /\ Cancelling(p, c) /\ Outlives(c)
  BY DEF IInvAt
<1>2. /\ open /\ ~ended /\ ~cancelled /\ Executor!Submit(c, k)
      /\ UNCHANGED <<pc, upVars, userVars, holder, fault>>
  BY DEF UserSchedules, At
<1>3. k \in AllTasks /\ k.op = "user" /\ k.n = 0
  BY <1>1 DEF AllTasks, Task, Ops, TypeOK
<1> HIDE DEF k
<1>4. Adds(c, "user")
  BY <1>1, <1>2, <1>3, Submitted
<1>5. /\ Owing(queue'[p], InHand(p) + requested + Sent, asked)
      /\ ValuesIn(queue'[c], Reached(c), yielded)
  BY <1>2, <1>3, SubmittedQuiet
<1>6. TypeOK'
  BY <1>1, <1>2, <1>4 DEF TypeOK, Adds, userVars, upVars
<1>7. NoFault'
  BY <1>1, <1>2 DEF NoFault
<1>8. ASSUME NEW w \in Workers
      PROVE  WorkerOK(w, p, c)'
  BY <1>1, <1>2, <1>4 DEF WorkerOK, ConsumerOps, Adds
<1>9. Beginning(p, c)'
  BY <1>1, <1>2, <1>4 DEF Beginning, Due, Once, Ops, Adds, userVars, upVars
<1>10. Flow(p, c)'
  BY <1>1, <1>2, <1>4, <1>5 DEF Flow, InHand, Sent, EndSent, Adds, userVars, upVars
<1>11. Values(c)'
  BY <1>1, <1>2, <1>4, <1>5 DEF Values, Reached, Adds, userVars, upVars
<1>12. Ending(p, c)'
  BY <1>1, <1>2, <1>4 DEF Ending, EndSent, Ops, Adds, userVars, upVars
<1>13. Cancelling(p, c)'
  BY <1>1, <1>2, <1>4 DEF Cancelling, Due, Once, MayAsk, Ops, Adds, userVars
<1>14. Outlives(c)'
  BY <1>1, <1>2, <1>4 DEF Outlives, Adds
<1> QED
  BY <1>6, <1>7, <1>8, <1>9, <1>10, <1>11, <1>12, <1>13, <1>14 DEF IInvAt

\* Who may request finds the stream.
LEMMA UserRequestsStep ==
  ASSUME CarefulConsumer, NEW p \in Workers, NEW c \in Workers, p = produceOn, c = consumeOn,
         IInvAt(p, c), UserRequests
  PROVE  IInvAt(p, c)'
<1>1. /\ TypeOK /\ NoFault /\ (\A w \in Workers : WorkerOK(w, p, c)) /\ Beginning(p, c)
      /\ Flow(p, c) /\ Values(c) /\ Ending(p, c) /\ Cancelling(p, c) /\ Outlives(c)
  BY DEF IInvAt
<1>2. /\ pc[c] = "body" /\ ~ended /\ ~cancelled /\ (\E n \in Counts : MayAsk(n))
      /\ fault' = ~Alive /\ Goto(c, "asks")
      /\ UNCHANGED <<queue, busy, upVars, userVars, holder>>
  BY DEF UserRequests, At
<1>3. Goes(c, "asks")
  BY <1>1, <1>2, Moved DEF Places, Ops
<1>4. phase = "alive" /\ holder = "stream" /\ ~EndSent /\ open
  BY <1>1, <1>2, CanAsk DEF Beginning
<1>5. TypeOK'
  BY <1>1, <1>2, <1>3 DEF TypeOK, Goes, userVars, upVars
<1>6. NoFault'
  BY <1>2, <1>4 DEF NoFault, Alive
<1>7. ASSUME NEW w \in Workers
      PROVE  WorkerOK(w, p, c)'
  BY <1>1, <1>2, <1>3 DEF WorkerOK, Ops, Goes
<1>8. Beginning(p, c)'
  BY <1>1, <1>2, <1>3 DEF Beginning, Due, Once, Goes, userVars, upVars
<1>9. Flow(p, c)'
  BY <1>1, <1>2, <1>3 DEF Flow, InHand, Sent, EndSent, Goes, userVars, upVars
<1>10. Values(c)'
  BY <1>1, <1>2, <1>3 DEF Values, Reached, Goes, userVars, upVars
<1>11. Ending(p, c)'
  BY <1>1, <1>2, <1>3 DEF Ending, EndSent, Goes, userVars, upVars
<1>12. Cancelling(p, c)'
  BY <1>1, <1>2, <1>3 DEF Cancelling, Due, Once, MayAsk, Goes, userVars
<1>13. Outlives(c)'
  BY <1>1, <1>2 DEF Outlives
<1> QED
  BY <1>5, <1>6, <1>7, <1>8, <1>9, <1>10, <1>11, <1>12, <1>13 DEF IInvAt

\* Request finds the stream, and its task adds to what is owed.
LEMMA RequestStep ==
  ASSUME CarefulConsumer, NEW p \in Workers, NEW c \in Workers, p = produceOn, c = consumeOn,
         IInvAt(p, c), NEW m \in Counts, MayAsk(m), asked' = asked + m,
         Executor!Submit(produceOn, Task("request", m)), Request
  PROVE  IInvAt(p, c)'
<1> DEFINE k == Task("request", m)
<1>1. /\ TypeOK /\ NoFault /\ (\A w \in Workers : WorkerOK(w, p, c)) /\ Beginning(p, c)
      /\ Flow(p, c) /\ Values(c) /\ Ending(p, c) /\ Cancelling(p, c) /\ Outlives(c)
  BY DEF IInvAt
<1>2. /\ pc[c] = "asks" /\ fault' = ~Alive /\ asked' = asked + m /\ Executor!Submit(p, k)
      /\ Goto(c, "body") /\ MayAsk(m)
      /\ UNCHANGED <<upVars, open, got, ended, cancelled, holder>>
  BY DEF Request, At
<1>3. k \in AllTasks /\ k.op = "request" /\ k.n = m
  BY <1>1, AsyncAssumption DEF AllTasks, Task, Ops, TypeOK
<1> HIDE DEF k
<1>4. Adds(p, "request")
  BY <1>1, <1>2, <1>3, Submitted
<1>5. Goes(c, "body")
  BY <1>1, <1>2, Moved DEF Places, Ops
<1>6. /\ phase = "alive" /\ holder = "stream" /\ ~EndSent /\ open /\ ~ended /\ ~cancelled
      /\ m \in Nat /\ (asked + m <= MinElems \/ asked + m <= got + 1)
  BY <1>1, <1>2, CanAsk DEF Beginning, Cancelling
<1>7. /\ Owing(queue'[p], InHand(p) + requested + Sent, asked + m)
      /\ ValuesIn(queue'[c], Reached(c), yielded)
  <2>1. /\ InHand(p) + requested + Sent \in Nat /\ asked \in Nat
        /\ Reached(c) \in Nat /\ yielded \in Nat
    BY <1>1, Requested DEF TypeOK
  <2>2. Owing(queue'[p], InHand(p) + requested + Sent, asked + m)
    BY <1>1, <1>2, <1>3, <2>1, SubmittedSums DEF Flow
  <2>3. ValuesIn(queue'[c], Reached(c), yielded)
    BY <1>1, <1>2, <1>3, <2>1, SubmittedSums DEF Values
  <2> QED
    BY <2>2, <2>3
<1>8. TypeOK'
  BY <1>1, <1>2, <1>4, <1>5, <1>6 DEF TypeOK, Adds, Goes, upVars
<1>9. NoFault'
  BY <1>2, <1>6 DEF NoFault, Alive
<1>10. ASSUME NEW w \in Workers
      PROVE  WorkerOK(w, p, c)'
  BY <1>1, <1>2, <1>4, <1>5, <1>6
     DEF WorkerOK, ProducerOps, Ops, Task, NoTask, Adds, Goes, Alive, userVars, upVars
<1>11. Beginning(p, c)'
  BY <1>1, <1>2, <1>4, <1>5 DEF Beginning, Due, Once, Ops, Adds, Goes, upVars
<1>12. Flow(p, c)'
  BY <1>1, <1>2, <1>4, <1>5, <1>6, <1>7 DEF Flow, InHand, Sent, EndSent, Adds, Goes, upVars
<1>13. Values(c)'
  BY <1>2, <1>5, <1>7 DEF Values, Reached, Goes, upVars
<1>14. Ending(p, c)'
  BY <1>1, <1>2, <1>4, <1>5 DEF Ending, EndSent, Ops, Adds, Goes, upVars
<1>15. Cancelling(p, c)'
  BY <1>1, <1>2, <1>4, <1>5 DEF Cancelling, Due, Once, Ops, Adds, Goes
<1>16. Outlives(c)'
  BY <1>2, <1>6 DEF Outlives
<1> QED
  BY <1>8, <1>9, <1>10, <1>11, <1>12, <1>13, <1>14, <1>15, <1>16 DEF IInvAt

\* Who may cancel finds the stream.
LEMMA UserCancelsStep ==
  ASSUME CarefulConsumer, NEW p \in Workers, NEW c \in Workers, p = produceOn, c = consumeOn,
         IInvAt(p, c), UserCancels
  PROVE  IInvAt(p, c)'
<1>1. /\ TypeOK /\ NoFault /\ (\A w \in Workers : WorkerOK(w, p, c)) /\ Beginning(p, c)
      /\ Flow(p, c) /\ Values(c) /\ Ending(p, c) /\ Cancelling(p, c) /\ Outlives(c)
  BY DEF IInvAt
<1>2. /\ pc[c] = "body" /\ ~ended /\ ~cancelled /\ asked = got /\ (p = c \/ busy[c].op = "user")
      /\ fault' = ~Alive /\ Goto(c, "cancels")
      /\ UNCHANGED <<queue, busy, upVars, userVars, holder>>
  BY DEF UserCancels, MayCancel, CarefulConsumer, At
<1>3. Goes(c, "cancels")
  BY <1>1, <1>2, Moved DEF Places, Ops
<1>4. phase = "alive" /\ holder = "stream" /\ ~EndSent /\ open
  BY <1>1, <1>2, CanCancel DEF Beginning
<1>5. TypeOK'
  BY <1>1, <1>2, <1>3 DEF TypeOK, Goes, userVars, upVars
<1>6. NoFault'
  BY <1>2, <1>4 DEF NoFault, Alive
<1>7. ASSUME NEW w \in Workers
      PROVE  WorkerOK(w, p, c)'
  BY <1>1, <1>2, <1>3 DEF WorkerOK, Ops, Goes
<1>8. Beginning(p, c)'
  BY <1>1, <1>2, <1>3 DEF Beginning, Due, Once, Goes, userVars, upVars
<1>9. Flow(p, c)'
  BY <1>1, <1>2, <1>3 DEF Flow, InHand, Sent, EndSent, Goes, userVars, upVars
<1>10. Values(c)'
  BY <1>1, <1>2, <1>3 DEF Values, Reached, Goes, userVars, upVars
<1>11. Ending(p, c)'
  BY <1>1, <1>2, <1>3 DEF Ending, EndSent, Goes, userVars, upVars
<1>12. Cancelling(p, c)'
  BY <1>1, <1>2, <1>3 DEF Cancelling, Due, Once, Goes, userVars
<1>13. Outlives(c)'
  BY <1>1, <1>2 DEF Outlives
<1> QED
  BY <1>5, <1>6, <1>7, <1>8, <1>9, <1>10, <1>11, <1>12, <1>13 DEF IInvAt

\* Cancel finds the stream, and its task will.
LEMMA CancelStep ==
  ASSUME CarefulConsumer, NEW p \in Workers, NEW c \in Workers, p = produceOn, c = consumeOn,
         IInvAt(p, c), Cancel
  PROVE  IInvAt(p, c)'
<1> DEFINE k == Task("cancel", 0)
<1>1. /\ TypeOK /\ NoFault /\ (\A w \in Workers : WorkerOK(w, p, c)) /\ Beginning(p, c)
      /\ Flow(p, c) /\ Values(c) /\ Ending(p, c) /\ Cancelling(p, c) /\ Outlives(c)
  BY DEF IInvAt
<1>2. /\ pc[c] = "cancels" /\ fault' = ~Alive /\ cancelled' = TRUE /\ Executor!Submit(p, k)
      /\ Goto(c, "body")
      /\ UNCHANGED <<upVars, open, asked, got, ended, holder>>
  BY DEF Cancel, At
<1>3. k \in AllTasks /\ k.op = "cancel" /\ k.n = 0
  BY <1>1 DEF AllTasks, Task, Ops, TypeOK
<1> HIDE DEF k
<1>4. Adds(p, "cancel")
  BY <1>1, <1>2, <1>3, Submitted
<1>5. Goes(c, "body")
  BY <1>1, <1>2, Moved DEF Places, Ops
<1>6. /\ Owing(queue'[p], InHand(p) + requested + Sent, asked)
      /\ ValuesIn(queue'[c], Reached(c), yielded)
  BY <1>2, <1>3, SubmittedQuiet
<1>7. /\ phase = "alive" /\ holder = "stream" /\ ~EndSent /\ open /\ ~cancelled /\ asked = got
      /\ ~Due(p, "cancel") /\ (p = c \/ busy[c].op = "user")
  BY <1>1, <1>2, CanCancel DEF Beginning, Cancelling
<1>8. TypeOK'
  BY <1>1, <1>2, <1>4, <1>5 DEF TypeOK, Adds, Goes, upVars
<1>9. NoFault'
  BY <1>2, <1>7 DEF NoFault, Alive
<1>10. ASSUME NEW w \in Workers
      PROVE  WorkerOK(w, p, c)'
  BY <1>1, <1>2, <1>4, <1>5 DEF WorkerOK, ProducerOps, Ops, Adds, Goes, Alive
<1>11. Beginning(p, c)'
  BY <1>1, <1>2, <1>4, <1>5 DEF Beginning, Due, Once, Ops, Adds, Goes, upVars
<1>12. Flow(p, c)'
  BY <1>1, <1>2, <1>4, <1>5, <1>6 DEF Flow, InHand, Sent, EndSent, Adds, Goes, upVars
<1>13. Values(c)'
  BY <1>2, <1>5, <1>6 DEF Values, Reached, Goes, upVars
<1>14. Ending(p, c)'
  BY <1>1, <1>2, <1>4, <1>5 DEF Ending, EndSent, Ops, Adds, Goes, upVars
<1>15. Cancelling(p, c)'
  BY <1>1, <1>2, <1>4, <1>5, <1>7 DEF Cancelling, Due, Once, EndSent, Ops, Adds, Goes, upVars
<1>16. Outlives(c)'
  BY <1>2, <1>7 DEF Outlives
<1> QED
  BY <1>8, <1>9, <1>10, <1>11, <1>12, <1>13, <1>14, <1>15, <1>16 DEF IInvAt

\* The user returns to the worker.
LEMMA UserReturnsStep ==
  ASSUME CarefulConsumer, NEW p \in Workers, NEW c \in Workers, p = produceOn, c = consumeOn,
         IInvAt(p, c), UserReturns
  PROVE  IInvAt(p, c)'
<1>1. /\ TypeOK /\ NoFault /\ (\A w \in Workers : WorkerOK(w, p, c)) /\ Beginning(p, c)
      /\ Flow(p, c) /\ Values(c) /\ Ending(p, c) /\ Cancelling(p, c) /\ Outlives(c)
  BY DEF IInvAt
<1>2. /\ pc[c] = "body" /\ Goto(c, "return")
      /\ UNCHANGED <<queue, busy, upVars, userVars, holder, fault>>
  BY DEF UserReturns, At
<1>3. Goes(c, "return")
  BY <1>1, <1>2, Moved DEF Places, Ops
<1>4. TypeOK'
  BY <1>1, <1>2, <1>3 DEF TypeOK, Goes, userVars, upVars
<1>5. NoFault'
  BY <1>1, <1>2 DEF NoFault
<1>6. ASSUME NEW w \in Workers
      PROVE  WorkerOK(w, p, c)'
  BY <1>1, <1>2, <1>3 DEF WorkerOK, Ops, Goes
<1>7. Beginning(p, c)'
  BY <1>1, <1>2, <1>3 DEF Beginning, Due, Once, Goes, userVars, upVars
<1>8. Flow(p, c)'
  BY <1>1, <1>2, <1>3 DEF Flow, InHand, Sent, EndSent, Goes, userVars, upVars
<1>9. Values(c)'
  BY <1>1, <1>2, <1>3 DEF Values, Reached, Goes, userVars, upVars
<1>10. Ending(p, c)'
  BY <1>1, <1>2, <1>3 DEF Ending, EndSent, Goes, userVars, upVars
<1>11. Cancelling(p, c)'
  BY <1>1, <1>2, <1>3 DEF Cancelling, Due, Once, EndSent, Goes, userVars, upVars
<1>12. Outlives(c)'
  BY <1>1, <1>2 DEF Outlives
<1> QED
  BY <1>4, <1>5, <1>6, <1>7, <1>8, <1>9, <1>10, <1>11, <1>12 DEF IInvAt

\* A worker that takes the head of its queue: what waited is in its hands, or
\* waits still.
LEMMA Taken ==
  ASSUME TypeOK, NEW w \in Workers, Executor!Begin(w), NEW h \in Ops, h = busy'[w].op
  PROVE  /\ queue' \in [Workers -> Seq(AllTasks)] /\ busy' \in [Workers -> AllTasks \cup {NoTask}]
         /\ busy[w] = NoTask /\ busy'[w] \in AllTasks
         /\ \A v \in Workers : v # w => queue'[v] = queue[v] /\ busy'[v] = busy[v]
         /\ \A o \in Ops :
              /\ Has(queue[w], o) <=> h = o \/ Has(queue'[w], o)
              /\ Uniq(queue[w], o) => Uniq(queue'[w], o) /\ (h = o => ~Has(queue'[w], o))
         /\ \A ops : Only(queue[w], ops) => Only(queue'[w], ops) /\ h \in ops
         /\ \A low, high \in Nat : ValuesIn(queue[w], low, high) =>
              /\ ValuesIn(queue'[w], low, high)
              /\ h = "value" => /\ low < busy'[w].n /\ busy'[w].n <= high
                                          /\ ValuesIn(queue'[w], busy'[w].n, high)
         /\ \A low, high \in Nat : Owing(queue[w], low, high) =>
              /\ h # "request" => Owing(queue'[w], low, high)
              /\ h = "request" => Owing(queue'[w], low + busy'[w].n, high)
<1>1. /\ busy[w] = NoTask /\ queue[w] # <<>>
      /\ busy' = [busy EXCEPT ![w] = Head(queue[w])]
      /\ queue' = [queue EXCEPT ![w] = Tail(queue[w])]
  BY DEF Executor!Begin
<1>2. /\ queue \in [Workers -> Seq(AllTasks)] /\ queue[w] \in Seq(AllTasks)
      /\ busy \in [Workers -> AllTasks \cup {NoTask}]
  BY DEF TypeOK
<1>3. Tail(queue[w]) \in Seq(AllTasks) /\ Head(queue[w]) \in AllTasks
  BY <1>1, <1>2, Tailed
<1>4. /\ queue'[w] = Tail(queue[w]) /\ busy'[w] = Head(queue[w])
      /\ \A v \in Workers : v # w => queue'[v] = queue[v] /\ busy'[v] = busy[v]
  BY <1>1, <1>2
<1>5. queue' \in [Workers -> Seq(AllTasks)] /\ busy' \in [Workers -> AllTasks \cup {NoTask}]
  BY <1>1, <1>2, <1>3
<1>6. ASSUME NEW o \in Ops
      PROVE  /\ Has(queue[w], o) <=> h = o \/ Has(queue'[w], o)
             /\ Uniq(queue[w], o) => Uniq(queue'[w], o) /\ (h = o => ~Has(queue'[w], o))
  <2>1. h = Head(queue[w]).op
    BY <1>4
  <2>2. PICK q \in Seq(AllTasks) : q = queue[w] /\ q # <<>>
    BY <1>1, <1>2
  <2>3. PICK r : r = Tail(q)
    OBVIOUS
  <2>4. /\ Has(q, o) <=> h = o \/ Has(r, o)
        /\ Uniq(q, o) => Uniq(r, o) /\ (h = o => ~Has(r, o))
    BY <2>1, <2>2, <2>3, TailHas
  <2>5. queue'[w] = r
    BY <1>4, <2>2, <2>3
  <2> QED
    BY <2>2, <2>4, <2>5
<1>7. ASSUME NEW ops, Only(queue[w], ops)
      PROVE  Only(queue'[w], ops) /\ h \in ops
  BY <1>1, <1>2, <1>4, <1>7, TailOnly
<1>8. ASSUME NEW low \in Nat, NEW high \in Nat, ValuesIn(queue[w], low, high)
      PROVE  /\ ValuesIn(queue'[w], low, high)
             /\ h = "value" => /\ low < busy'[w].n /\ busy'[w].n <= high
                                         /\ ValuesIn(queue'[w], busy'[w].n, high)
  BY <1>1, <1>2, <1>4, <1>8, TailValues
<1>9. ASSUME NEW low \in Nat, NEW high \in Nat, Owing(queue[w], low, high)
      PROVE  /\ h # "request" => Owing(queue'[w], low, high)
             /\ h = "request" => Owing(queue'[w], low + busy'[w].n, high)
  <2>1. Owing(queue'[w], low + Weight(busy'[w]), high)
    BY <1>1, <1>2, <1>4, <1>9, TailOwing
  <2>2. /\ h # "request" => low + Weight(busy'[w]) = low
        /\ h = "request" => low + Weight(busy'[w]) = low + busy'[w].n
    BY DEF Weight
  <2> QED
    BY <2>1, <2>2
<1> QED
  BY <1>1, <1>3, <1>4, <1>5, <1>6, <1>7, <1>8, <1>9

\* A worker begins its next task.
LEMMA BeginStep ==
  ASSUME CarefulConsumer, NEW p \in Workers, NEW c \in Workers, p = produceOn, c = consumeOn,
         IInvAt(p, c), NEW w \in Workers, Begin(w)
  PROVE  IInvAt(p, c)'
<1>1. /\ TypeOK /\ NoFault /\ (\A v \in Workers : WorkerOK(v, p, c)) /\ Beginning(p, c)
      /\ Flow(p, c) /\ Values(c) /\ Ending(p, c) /\ Cancelling(p, c) /\ Outlives(c)
  BY DEF IInvAt
<1>2. /\ Executor!Begin(w) /\ Goto(w, busy'[w].op)
      /\ UNCHANGED <<upVars, userVars, holder, fault>>
  BY DEF Begin
<1>3. PICK h \in Ops : h = busy'[w].op
  <2>1. queue[w] \in Seq(AllTasks) /\ queue[w] # <<>>
    BY <1>1, <1>2 DEF Executor!Begin, TypeOK
  <2>2. busy'[w] = Head(queue[w]) /\ Head(queue[w]) \in AllTasks
    BY <1>1, <1>2, <2>1, Tailed DEF Executor!Begin, TypeOK
  <2> QED
    BY <2>2 DEF AllTasks
<1>4. /\ queue' \in [Workers -> Seq(AllTasks)] /\ busy' \in [Workers -> AllTasks \cup {NoTask}]
      /\ busy[w] = NoTask /\ busy'[w] \in AllTasks
      /\ \A v \in Workers : v # w => queue'[v] = queue[v] /\ busy'[v] = busy[v]
  BY <1>1, <1>2, <1>3, Taken
<1>5. /\ \A o \in Ops :
           /\ Has(queue[w], o) <=> h = o \/ Has(queue'[w], o)
           /\ Uniq(queue[w], o) => Uniq(queue'[w], o) /\ (h = o => ~Has(queue'[w], o))
      /\ \A ops : Only(queue[w], ops) => Only(queue'[w], ops) /\ h \in ops
  BY <1>1, <1>2, <1>3, Taken
<1>6. h = busy'[w].op /\ h # "none" /\ busy'[w].n \in Nat /\ busy'[w] # NoTask
  BY <1>3, <1>4 DEF AllTasks, NoTask, Task, Ops
<1>7. Goes(w, h) /\ pc[w] = "idle"
  BY <1>1, <1>2, <1>3, <1>4, Moved DEF Places, WorkerOK
<1>8. TypeOK'
  BY <1>1, <1>2, <1>4, <1>7 DEF TypeOK, Goes, userVars, upVars
<1>9. NoFault'
  BY <1>1, <1>2 DEF NoFault
<1>10. ASSUME NEW v \in Workers
       PROVE  WorkerOK(v, p, c)'
  <2>1. CASE v # w
    <3>1. /\ WorkerOK(v, p, c) /\ queue'[v] = queue[v] /\ busy'[v] = busy[v]
          /\ pc'[v] = pc[v]
      BY <1>1, <1>4, <1>7, <2>1 DEF Goes
    <3> QED
      BY <3>1 DEF WorkerOK
  <2>2. CASE v = w
    <3>1. /\ Only(queue'[w], (IF w = p THEN ProducerOps ELSE {}) \cup (IF w = c THEN ConsumerOps ELSE {}))
          /\ h \in (IF w = p THEN ProducerOps ELSE {}) \cup (IF w = c THEN ConsumerOps ELSE {})
      BY <1>1, <1>5 DEF WorkerOK
    <3> QED
      BY <1>6, <1>7, <2>2, <3>1 DEF WorkerOK, Goes, ProducerOps, ConsumerOps, Ops
  <2> QED
    BY <2>1, <2>2
<1>11. ASSUME NEW v \in Workers, NEW o \in Ops
       PROVE  (Due(v, o)' <=> Due(v, o)) /\ (Once(v, o) => Once(v, o)')
  <2>1. CASE v # w
    BY <1>4, <1>7, <2>1 DEF Due, Once, Goes
  <2>2. CASE v = w
    <3>1. pc[w] # o /\ pc'[w] = h
      BY <1>7 DEF Goes, Ops
    <3>2. /\ Has(queue[w], o) <=> h = o \/ Has(queue'[w], o)
          /\ Uniq(queue[w], o) => Uniq(queue'[w], o) /\ (h = o => ~Has(queue'[w], o))
      BY <1>5
    <3>3. (Due(w, o)' <=> Due(w, o)) /\ (Once(w, o) => Once(w, o)')
      BY <3>1, <3>2 DEF Due, Once
    <3> QED
      BY <2>2, <3>3
  <2> QED
    BY <2>1, <2>2
<1>12. Beginning(p, c)'
  <2>1. /\ Due(p, "subscribe")' <=> Due(p, "subscribe")
        /\ Once(p, "subscribe") => Once(p, "subscribe")'
        /\ Due(c, "onSubscribe")' <=> Due(c, "onSubscribe")
        /\ Once(c, "onSubscribe") => Once(c, "onSubscribe")'
    BY <1>11 DEF Ops
  <2>2. busy'[c].op = "user" \/ Has(queue'[c], "user") => open
    BY <1>1, <1>4, <1>5, <1>6 DEF Beginning, Ops
  <2>3. pc'[c] \in {"body", "asks", "cancels"} => open
    BY <1>1, <1>6, <1>7 DEF Beginning, Ops, Goes
  <2> QED
    BY <1>1, <1>2, <2>1, <2>2, <2>3 DEF Beginning, userVars, upVars
<1>13. Flow(p, c)'
  <2>1. /\ Owing(queue[p], InHand(p) + requested + Sent, asked) /\ asked \in Nat
        /\ InHand(p) + requested + Sent \in Nat /\ InHand(p) \in Nat
        /\ requested \in Nat /\ Sent \in Nat
    BY <1>1, Requested DEF Flow, TypeOK
  <2>2. Sent' = Sent /\ requested' = requested /\ asked' = asked
    BY <1>2 DEF Sent, EndSent, userVars, upVars
  <2>3. CASE w # p
    <3>1. InHand(p)' = InHand(p) /\ queue'[p] = queue[p]
      BY <1>4, <1>7, <2>3 DEF InHand, Goes
    <3> QED
      BY <1>1, <1>2, <2>2, <3>1 DEF Flow, EndSent, userVars, upVars
  <2>4. CASE w = p
    <3>1. InHand(p) = 0
      BY <1>7, <2>4 DEF InHand
    <3>2. CASE h = "request"
      <4>1. Owing(queue'[p], (InHand(p) + requested + Sent) + busy'[w].n, asked)
        BY <1>1, <1>2, <1>3, <2>1, <2>4, <3>2, Taken
      <4>2. (InHand(p) + requested + Sent) + busy'[w].n = busy'[w].n + requested + Sent
        BY <1>6, <2>1, <3>1
      <4>3. InHand(p)' = busy'[w].n
        BY <1>7, <2>4, <3>2 DEF InHand, Goes
      <4> QED
        BY <1>1, <1>2, <2>2, <4>1, <4>2, <4>3 DEF Flow, EndSent, userVars, upVars
    <3>3. CASE h # "request"
      <4>1. Owing(queue'[p], InHand(p) + requested + Sent, asked)
        BY <1>1, <1>2, <1>3, <2>1, <2>4, <3>3, Taken
      <4>2. InHand(p)' = InHand(p)
        BY <1>7, <2>4, <3>1, <3>3 DEF InHand, Goes
      <4> QED
        BY <1>1, <1>2, <2>2, <4>1, <4>2 DEF Flow, EndSent, userVars, upVars
    <3> QED
      BY <3>2, <3>3
  <2> QED
    BY <2>3, <2>4
<1>14. /\ ValuesIn(queue'[c], Reached(c)', yielded)
       /\ pc'[c] \in {"value", "call"} => got < busy'[c].n /\ busy'[c].n <= yielded
  <2>1. /\ ValuesIn(queue[c], Reached(c), yielded) /\ Reached(c) \in Nat /\ yielded \in Nat
        /\ got \in Nat
    BY <1>1, Requested DEF Values, TypeOK
  <2>2. got' = got
    BY <1>2 DEF userVars
  <2>3. CASE w # c
    <3>1. Reached(c)' = Reached(c) /\ queue'[c] = queue[c] /\ pc'[c] = pc[c] /\ busy'[c] = busy[c]
      BY <1>4, <1>7, <2>2, <2>3 DEF Reached, Goes
    <3> QED
      BY <1>1, <2>1, <3>1 DEF Values
  <2>4. CASE w = c
    <3>1. Reached(c) = got
      BY <1>7, <2>4 DEF Reached
    <3>2. CASE h = "value"
      <4>1. /\ got < busy'[w].n /\ busy'[w].n <= yielded
            /\ ValuesIn(queue'[w], busy'[w].n, yielded)
        BY <1>1, <1>2, <1>3, <2>1, <2>4, <3>1, <3>2, Taken
      <4>2. Reached(c)' = busy'[w].n
        BY <1>7, <2>4, <3>2 DEF Reached, Goes
      <4> QED
        BY <2>4, <4>1, <4>2
    <3>3. CASE h # "value"
      <4>1. ValuesIn(queue'[w], got, yielded)
        BY <1>1, <1>2, <1>3, <2>1, <2>4, <3>1, Taken
      <4>2. pc'[c] \notin {"value", "call"}
        BY <1>6, <1>7, <2>4, <3>3 DEF Goes, Ops
      <4>3. Reached(c)' = got
        BY <2>2, <4>2 DEF Reached
      <4> QED
        BY <2>4, <4>1, <4>2, <4>3
    <3> QED
      BY <3>2, <3>3
  <2> QED
    BY <2>3, <2>4
<1>15. Values(c)'
  BY <1>2, <1>14 DEF Values, userVars, upVars
<1>16. Ending(p, c)'
  <2>1. EndSent' = EndSent /\ holder' = holder /\ ended' = ended /\ phase' = phase
        /\ cancelled' = cancelled
    BY <1>2 DEF EndSent, userVars, upVars
  <2>2. pc'[p] \in {"loop", "delete"} <=> pc[p] \in {"loop", "delete"}
    BY <1>6, <1>7 DEF Goes, Ops
  <2>3. pc'[p] = "delete" <=> pc[p] = "delete"
    BY <1>6, <1>7 DEF Goes, Ops
  <2>4. CASE w # c
    <3>1. queue'[c] = queue[c] /\ busy'[c] = busy[c] /\ pc'[c] = pc[c]
      BY <1>4, <1>7, <2>4 DEF Goes
    <3> QED
      BY <1>1, <2>1, <2>2, <2>3, <3>1 DEF Ending
  <2>5. CASE w = c
    <3>0. "end" \in Ops
      BY DEF Ops
    <3>1. /\ Has(queue[c], "end") <=> h = "end" \/ Has(queue'[c], "end")
          /\ Uniq(queue[c], "end")
               => Uniq(queue'[c], "end") /\ (h = "end" => ~Has(queue'[c], "end"))
      BY <1>5, <2>5, <3>0
    <3>2. busy[c].op # "end" /\ pc[c] # "end" /\ pc'[c] = h /\ busy'[c].op = h
      BY <1>4, <1>6, <1>7, <2>5 DEF NoTask, Task, Goes
    <3> QED
      BY <1>1, <2>1, <2>2, <2>3, <3>1, <3>2 DEF Ending
  <2> QED
    BY <2>4, <2>5
<1>17. ASSUME w = c, busy'[c].op = "onSubscribe"
       PROVE  ~cancelled /\ holder = "stream"
  <2>1. phase = "alive" /\ ~open
    BY <1>1, <1>5, <1>6, <1>17 DEF Beginning, Due, Ops
  <2>2. ~EndSent /\ ~cancelled
    BY <2>1, NotOpen
  <2> QED
    BY <1>1, <2>1, <2>2 DEF Ending
<1>18. ASSUME w = c, busy'[c].op = "value"
       PROVE  ~cancelled /\ holder = "stream"
  <2>1. pc'[c] = "value" /\ got \in Nat /\ yielded \in Nat /\ busy'[c].n \in Nat
    BY <1>1, <1>6, <1>7, <1>18 DEF Goes, TypeOK
  <2>2. got < yielded
    BY <1>14, <2>1
  <2> QED
    BY <2>2, ValueAhead
<1>19. ASSUME w = c, busy'[c].op = "end"
       PROVE  ~cancelled
  <2>1. Has(queue[c], "end")
    BY <1>5, <1>6, <1>19 DEF Ops
  <2> QED
    BY <1>1, <2>1 DEF Ending, Cancelling, EndSent
<1>20. Cancelling(p, c)'
  <2>1. /\ Due(p, "cancel")' <=> Due(p, "cancel")
        /\ Once(p, "cancel") => Once(p, "cancel")'
    BY <1>11 DEF Ops
  <2>2. pc'[c] \in {"asks", "cancels"} => pc'[c] = pc[c] /\ busy'[c] = busy[c]
    BY <1>4, <1>6, <1>7 DEF Goes, Ops
  <2>3. busy'[c].op \in {"onSubscribe", "value", "end"} => ~cancelled \/ busy'[c] = busy[c]
    BY <1>4, <1>17, <1>18, <1>19
  <2> QED
    BY <1>1, <1>2, <2>1, <2>2, <2>3 DEF Cancelling, EndSent, MayAsk, userVars, upVars
<1>21. Outlives(c)'
  BY <1>1, <1>2, <1>4, <1>7, <1>17, <1>18 DEF Outlives, Goes
<1> QED
  BY <1>8, <1>9, <1>10, <1>12, <1>13, <1>15, <1>16, <1>20, <1>21 DEF IInvAt

\* A task returns; the one of the end takes the subscriber along.
LEMMA ReturnStep ==
  ASSUME CarefulConsumer, NEW p \in Workers, NEW c \in Workers, p = produceOn, c = consumeOn,
         IInvAt(p, c), NEW w \in Workers, Return(w)
  PROVE  IInvAt(p, c)'
<1>1. /\ TypeOK /\ NoFault /\ (\A v \in Workers : WorkerOK(v, p, c)) /\ Beginning(p, c)
      /\ Flow(p, c) /\ Values(c) /\ Ending(p, c) /\ Cancelling(p, c) /\ Outlives(c)
  BY DEF IInvAt
<1>2. /\ pc[w] = "return" /\ Goto(w, "idle") /\ queue' = queue
      /\ busy' = [busy EXCEPT ![w] = NoTask]
      /\ holder' = IF busy[w].op = "end" THEN "none" ELSE holder
      /\ UNCHANGED <<upVars, userVars, fault>>
  BY DEF Return, At, Executor!End
<1>3. Goes(w, "idle")
  BY <1>1, <1>2, Moved DEF Places
<1>4. /\ busy' \in [Workers -> AllTasks \cup {NoTask}]
      /\ busy'[w] = NoTask /\ busy'[w].op = "none"
      /\ \A v \in Workers : v # w => busy'[v] = busy[v]
  BY <1>1, <1>2 DEF TypeOK, NoTask, Task
<1>5. busy[w].op = "end" => w = c /\ ended /\ holder = "task" /\ ~Has(queue[c], "end")
  BY <1>1, <1>2 DEF WorkerOK, Ending, ConsumerOps
<1>6. EndSent' <=> EndSent
  BY <1>2, <1>5 DEF EndSent, userVars
<1>7. TypeOK'
  BY <1>1, <1>2, <1>3 DEF TypeOK, Goes, userVars, upVars
<1>8. NoFault'
  BY <1>1, <1>2 DEF NoFault
<1>9. ASSUME NEW v \in Workers
      PROVE  WorkerOK(v, p, c)'
  BY <1>1, <1>2, <1>3, <1>4 DEF WorkerOK, Goes, ProducerOps, ConsumerOps, Ops
<1>10. Beginning(p, c)'
  BY <1>1, <1>2, <1>3, <1>4 DEF Beginning, Due, Once, Goes, userVars, upVars
<1>11. Flow(p, c)'
  <2>1. InHand(p)' = InHand(p) /\ Sent' = Sent
    BY <1>2, <1>3, <1>4, <1>6 DEF InHand, Sent, Goes, upVars
  <2> QED
    BY <1>1, <1>2, <1>6, <2>1 DEF Flow, userVars, upVars
<1>12. Values(c)'
  <2>1. /\ pc'[c] \in {"value", "call"} <=> pc[c] \in {"value", "call"}
        /\ pc[c] \in {"value", "call"} => busy'[c] = busy[c]
    BY <1>2, <1>3, <1>4 DEF Goes
  <2>2. Reached(c)' = Reached(c)
    BY <1>2, <2>1 DEF Reached, userVars
  <2> QED
    BY <1>1, <1>2, <2>1, <2>2 DEF Values, userVars, upVars
<1>13. Ending(p, c)'
  BY <1>1, <1>2, <1>3, <1>4, <1>5, <1>6 DEF Ending, Goes, userVars, upVars
<1>14. Cancelling(p, c)'
  BY <1>1, <1>2, <1>3, <1>4, <1>6 DEF Cancelling, Due, Once, MayAsk, Goes, userVars, upVars
<1>15. Outlives(c)'
  BY <1>1, <1>2, <1>3, <1>4, <1>5 DEF Outlives, Goes
<1> QED
  BY <1>7, <1>8, <1>9, <1>10, <1>11, <1>12, <1>13, <1>14, <1>15 DEF IInvAt

\* Before the first step, with any two workers.
LEMMA InitAt ==
  ASSUME NEW p \in Workers, NEW c \in Workers, Init
  PROVE  IInvAt(p, c)
<1>1. /\ \A w \in Workers : queue[w] = <<>> /\ busy[w] = NoTask /\ pc[w] = "idle"
      /\ queue = [w \in Workers |-> <<>>] /\ busy = [w \in Workers |-> NoTask]
      /\ pc = [w \in Workers |-> "idle"]
      /\ phase = "new" /\ requested = 0 /\ yielded = 0 /\ holder = "none"
      /\ open = FALSE /\ asked = 0 /\ got = 0 /\ ended = FALSE /\ cancelled = FALSE /\ fault = FALSE
  BY DEF Init, Executor!Init
<1>2. NoTask.op = "none" /\ NoTask.n = 0
  BY DEF NoTask, Task
<1>3. TypeOK
  BY <1>1, EmptyQueue DEF TypeOK, Places
<1>4. NoFault
  BY <1>1 DEF NoFault
<1>5. ASSUME NEW w \in Workers
      PROVE  WorkerOK(w, p, c)
  BY <1>1, <1>2, EmptyQueue DEF WorkerOK, Ops, ProducerOps, ConsumerOps
<1>6. Beginning(p, c)
  BY <1>1, <1>2, EmptyQueue DEF Beginning, Due, Once
<1>7. ~EndSent /\ InHand(p) = 0 /\ Sent = 0 /\ Reached(c) = 0
  BY <1>1 DEF EndSent, InHand, Sent, Reached
<1>8. Flow(p, c)
  <2>1. Owing(queue[p], 0 + 0 + 0, 0)
    BY <1>1, EmptyQueue
  <2> QED
    BY <1>1, <1>7, <2>1, AsyncAssumption DEF Flow
<1>9. Values(c)
  BY <1>1, <1>7, EmptyQueue DEF Values
<1>10. Ending(p, c)
  BY <1>1, <1>2, <1>7, EmptyQueue DEF Ending
<1>11. Cancelling(p, c)
  BY <1>1, <1>2, EmptyQueue DEF Cancelling, Due, Once
<1>12. Outlives(c)
  BY <1>1, <1>2 DEF Outlives
<1> QED
  BY <1>3, <1>4, <1>5, <1>6, <1>8, <1>9, <1>10, <1>11, <1>12 DEF IInvAt

\* The invariant is inductive.
LEMMA Inductive ==
  ASSUME CarefulConsumer
  PROVE  /\ Init => IInv
         /\ IInv /\ [Next]_vars => IInv'
<1>1. Init => IInv
  BY InitAt DEF IInv, Init
<1>2. ASSUME IInv, [Next]_vars
      PROVE  IInv'
  <2>1. PICK p \in Workers, c \in Workers : p = produceOn /\ c = consumeOn
    BY <1>2 DEF IInv
  <2>2. IInvAt(p, c)
    BY <1>2, <2>1 DEF IInv
  <2>3. produceOn' = produceOn /\ consumeOn' = consumeOn
    BY <1>2 DEF Next, Terminated, vars, placeVars
  <2>4. IInvAt(p, c)'
    <3>1. CASE UNCHANGED vars
      <4>1. TypeOK' /\ NoFault' /\ (\A w \in Workers : WorkerOK(w, p, c)')
        BY <2>2, <3>1 DEF vars, workerVars, upVars, userVars, placeVars, IInvAt, TypeOK, NoFault,
                          WorkerOK
      <4>2. Beginning(p, c)' /\ Flow(p, c)' /\ Values(c)'
        BY <2>2, <3>1 DEF vars, workerVars, upVars, userVars, placeVars, IInvAt, Beginning, Due,
                          Once, Flow, InHand, Sent, EndSent, Values, Reached
      <4>3. Ending(p, c)' /\ Cancelling(p, c)' /\ Outlives(c)'
        BY <2>2, <3>1 DEF vars, workerVars, upVars, userVars, placeVars, IInvAt, Ending, EndSent,
                          Cancelling, Due, Once, MayAsk, Outlives
      <4> QED
        BY <4>1, <4>2, <4>3 DEF IInvAt
    <3>2. CASE UserSubscribes
      BY <2>1, <2>2, <3>2, UserSubscribesStep
    <3>3. CASE UserSchedules
      BY <2>1, <2>2, <3>3, UserSchedulesStep
    <3>4. CASE UserRequests
      BY <2>1, <2>2, <3>4, UserRequestsStep
    <3>5. CASE UserCancels
      BY <2>1, <2>2, <3>5, UserCancelsStep
    <3>6. CASE Subscribe
      BY <2>1, <2>2, <3>6, SubscribeStep
    <3>7. CASE RequestUp
      BY <2>1, <2>2, <3>7, RequestUpStep
    <3>8. CASE Generate
      BY <2>1, <2>2, <3>8, PauseStep, YieldStep, EndUpStep
    <3>9. CASE SelfDestruct
      BY <2>1, <2>2, <3>9, SelfDestructStep
    <3>10. CASE CancelUp
      BY <2>1, <2>2, <3>10, CancelUpStep
    <3>11. CASE OnSubscribe
      BY <2>1, <2>2, <3>11, OnSubscribeStep
    <3>12. CASE CheckStale
      BY <2>1, <2>2, <3>12, CheckStaleStep
    <3>13. CASE OnValue
      BY <2>1, <2>2, <3>13, OnValueStep
    <3>14. CASE OnEnd
      BY <2>1, <2>2, <3>14, OnEndStep
    <3>15. CASE UserTask
      BY <2>1, <2>2, <3>15, UserTaskStep
    <3>16. CASE Request
      <4>1. PICK m \in Counts : MayAsk(m) /\ asked' = asked + m
                                /\ Executor!Submit(produceOn, Task("request", m))
        BY <3>16 DEF Request
      <4> QED
        BY <2>1, <2>2, <3>16, <4>1, RequestStep
    <3>17. CASE Cancel
      BY <2>1, <2>2, <3>17, CancelStep
    <3>18. CASE UserReturns
      BY <2>1, <2>2, <3>18, UserReturnsStep
    <3>19. ASSUME NEW w \in Workers, Begin(w)
           PROVE  IInvAt(p, c)'
      BY <2>1, <2>2, <3>19, BeginStep
    <3>20. ASSUME NEW w \in Workers, Return(w)
           PROVE  IInvAt(p, c)'
      BY <2>1, <2>2, <3>20, ReturnStep
    <3> QED
      BY <1>2, <3>1, <3>2, <3>3, <3>4, <3>5, <3>6, <3>7, <3>8, <3>9, <3>10, <3>11, <3>12,
         <3>13, <3>14, <3>15, <3>16, <3>17, <3>18, <3>19, <3>20
         DEF Next, ProducerStep, ConsumerStep, Terminated
  <2> QED
    BY <2>1, <2>3, <2>4 DEF IInv
<1> QED
  BY <1>1, <1>2

-----------------------------------------------------------------------------
(* The theorems.                                                             *)

\* The invariant holds always.
LEMMA Invariance ==
  ASSUME CarefulConsumer
  PROVE  Spec => []IInv
<1>1. (Init => IInv) /\ (IInv /\ [Next]_vars => IInv')
  BY Inductive
<1> QED
  BY <1>1, PTL DEF Spec

\* No check of has_ended() fails and no deleted subscriber is called, on either
\* worker: what the comment at line 1382 asks for, of a consumer that is careful.
THEOREM AsyncNeverFails ==
  ASSUME CarefulConsumer
  PROVE  Spec => []NoFault
<1>1. IInv => NoFault
  BY DEF IInv, IInvAt
<1> QED
  BY <1>1, Invariance, PTL

\* No method of the subscriber is executing when it is destroyed (line 1357).
THEOREM SubscriberIsThere ==
  ASSUME CarefulConsumer
  PROVE  Spec => []SubscriberOutlives
<1>1. ASSUME IInv, InSubscriber
      PROVE  holder # "none"
  <2>1. Outlives(consumeOn) /\ Ending(produceOn, consumeOn)
    BY <1>1 DEF IInv, IInvAt
  <2> QED
    BY <1>1, <2>1 DEF InSubscriber, Outlives, Ending
<1>2. IInv => SubscriberOutlives
  BY <1>1 DEF SubscriberOutlives
<1> QED
  BY <1>2, Invariance, PTL

\* A stream that is over is deleted with its subscriber when the workers are
\* idle (reactive.h:250 and :176), whoever of them was the last.
THEOREM AsyncLeavesNothing ==
  ASSUME CarefulConsumer
  PROVE  Spec => []NothingLeft
<1>1. ASSUME IInv, Idle, ended \/ cancelled
      PROVE  phase = "deleted" /\ holder = "none"
  <2>1. PICK p \in Workers, c \in Workers : p = produceOn /\ c = consumeOn
    BY <1>1 DEF IInv
  <2>2. /\ TypeOK /\ (\A w \in Workers : WorkerOK(w, p, c)) /\ Beginning(p, c)
        /\ Ending(p, c) /\ Cancelling(p, c)
    BY <1>1, <2>1 DEF IInv, IInvAt
  <2>3. /\ pc[p] = "idle" /\ pc[c] = "idle" /\ queue[p] = <<>> /\ queue[c] = <<>>
        /\ busy[c].op = "none"
    <3>1. \A w \in Workers : pc[w] = "idle" /\ queue[w] = <<>>
      BY <1>1 DEF Idle, At
    <3>2. busy[c] = NoTask
      BY <2>2, <3>1 DEF WorkerOK
    <3> QED
      BY <3>1, <3>2 DEF NoTask, Task
  <2>4. /\ \A o : ~Has(queue[p], o)
        /\ \A o : ~Has(queue[c], o)
    BY <2>3, EmptyQueue
  <2>5. phase # "alive"
    BY <1>1, <2>2, <2>3, <2>4 DEF Ending, Cancelling, Due, EndSent
  <2>6. open
    BY <1>1, <2>1, NotOpen DEF IInv, EndSent
  <2>7. phase = "deleted"
    BY <2>2, <2>5, <2>6 DEF TypeOK, Beginning
  <2>8. holder = "none"
    BY <2>2, <2>3, <2>4, <2>5 DEF TypeOK, Ending
  <2> QED
    BY <2>7, <2>8
<1>2. IInv => NothingLeft
  BY <1>1 DEF NothingLeft
<1> QED
  BY <1>2, Invariance, PTL

-----------------------------------------------------------------------------
(* What the consumer sees is a stream as any other.                          *)

\* The variables of the contract, as AsyncStream gives them.
Status == [s \in {"stream"} |-> CASE ~open                      -> "new"
                                  [] cancelled /\ Alive         -> "cancelled"
                                  [] cancelled /\ ~Alive        -> "gone"
                                  [] ended /\ holder = "none"   -> "gone"
                                  [] ended /\ holder # "none"   -> "ending"
                                  [] OTHER                      -> "open"]
Credit == [s \in {"stream"} |-> asked - got]
Events == [s \in {"stream"} |-> got]

\* Initial states and steps of the contract in these terms.
LEMMA Seen ==
  /\ Contract!Init <=> /\ Status = [s \in {"stream"} |-> "new"]
                       /\ Credit = [s \in {"stream"} |-> 0]
                       /\ Events = [s \in {"stream"} |-> 0]
  /\ (UNCHANGED Contract!vars) <=> UNCHANGED <<Status, Credit, Events>>
  /\ Contract!Subscribe("stream") <=>
       /\ Status["stream"] = "new"
       /\ Status' = [Status EXCEPT !["stream"] = "open"]
       /\ UNCHANGED <<Credit, Events>>
  /\ Contract!Request("stream") <=>
       /\ Status["stream"] \in {"open", "ending", "cancelled"}
       /\ \E n \in Contract!Balance :
            Credit' = [Credit EXCEPT !["stream"] = Contract!AddTo(Credit["stream"], n)]
       /\ UNCHANGED <<Status, Events>>
  /\ Contract!Deliver("stream") <=>
       /\ Status["stream"] = "open"
       /\ Contract!HasRequests(Credit["stream"])
       /\ Credit' = [Credit EXCEPT !["stream"] = Contract!RemoveFrom(Credit["stream"], 1)]
       /\ Events' = [Events EXCEPT !["stream"] = Events["stream"] + 1]
       /\ \E next \in {"open", "ending"} : Status' = [Status EXCEPT !["stream"] = next]
  /\ Contract!Cancel("stream") <=>
       /\ Status["stream"] \in {"open", "ending"}
       /\ Status' = [Status EXCEPT !["stream"] = "cancelled"]
       /\ UNCHANGED <<Credit, Events>>
  /\ Contract!Destroy("stream") <=>
       /\ Status["stream"] \in {"open", "ending", "cancelled"}
       /\ Status' = [Status EXCEPT !["stream"] = "gone"]
       /\ UNCHANGED <<Credit, Events>>
<1>1. Contract!Init <=> /\ Status = [s \in {"stream"} |-> "new"]
                       /\ Credit = [s \in {"stream"} |-> 0]
                       /\ Events = [s \in {"stream"} |-> 0]
  BY DEF Contract!Init, Status, Credit, Events
<1>2. (UNCHANGED Contract!vars) <=> UNCHANGED <<Status, Credit, Events>>
  BY DEF Contract!vars, Status, Credit, Events
<1>3. Contract!Subscribe("stream") <=>
       /\ Status["stream"] = "new"
       /\ Status' = [Status EXCEPT !["stream"] = "open"]
       /\ UNCHANGED <<Credit, Events>>
  BY DEF Contract!Subscribe, Status, Credit, Events
<1>4. Contract!Request("stream") <=>
       /\ Status["stream"] \in {"open", "ending", "cancelled"}
       /\ \E n \in Contract!Balance :
            Credit' = [Credit EXCEPT !["stream"] = Contract!AddTo(Credit["stream"], n)]
       /\ UNCHANGED <<Status, Events>>
  BY DEF Contract!Request, Status, Credit, Events
<1>5. Contract!Deliver("stream") <=>
       /\ Status["stream"] = "open"
       /\ Contract!HasRequests(Credit["stream"])
       /\ Credit' = [Credit EXCEPT !["stream"] = Contract!RemoveFrom(Credit["stream"], 1)]
       /\ Events' = [Events EXCEPT !["stream"] = Events["stream"] + 1]
       /\ \E next \in {"open", "ending"} : Status' = [Status EXCEPT !["stream"] = next]
  BY DEF Contract!Deliver, Status, Credit, Events
<1>6. Contract!Destroy("stream") <=>
       /\ Status["stream"] \in {"open", "ending", "cancelled"}
       /\ Status' = [Status EXCEPT !["stream"] = "gone"]
       /\ UNCHANGED <<Credit, Events>>
  BY DEF Contract!Destroy, Status, Credit, Events
<1>7. Contract!Cancel("stream") <=>
       /\ Status["stream"] \in {"open", "ending"}
       /\ Status' = [Status EXCEPT !["stream"] = "cancelled"]
       /\ UNCHANGED <<Credit, Events>>
  BY DEF Contract!Cancel, Status, Credit, Events
<1> QED
  BY <1>1, <1>2, <1>3, <1>4, <1>5, <1>6, <1>7

\* The cases of the status do not overlap: what ended was not cancelled, and
\* neither happens to what was never open.
Lawful == /\ open \in BOOLEAN /\ cancelled \in BOOLEAN /\ ended \in BOOLEAN
          /\ ~open => ~cancelled /\ ~ended
          /\ cancelled => ~ended

\* The status as one of five.
StatusNow == IF ~open THEN "new"
             ELSE IF cancelled THEN (IF Alive THEN "cancelled" ELSE "gone")
             ELSE IF ended THEN (IF holder = "none" THEN "gone" ELSE "ending")
             ELSE "open"

\* The status, before and after a step.
LEMMA StatusIs ==
  /\ Lawful => Status = [s \in {"stream"} |-> StatusNow]
  /\ Lawful' => Status' = [s \in {"stream"} |-> StatusNow']
<1>1. Lawful => Status = [s \in {"stream"} |-> StatusNow]
  BY DEF Lawful, Status, StatusNow
<1>2. Lawful' => Status' = [s \in {"stream"} |-> StatusNow']
  BY DEF Lawful, Status, StatusNow
<1> QED
  BY <1>1, <1>2

\* A step that the consumer does not see.
LEMMA Unseen ==
  ASSUME Lawful, UNCHANGED userVars, ended => holder' = holder,
         cancelled => (phase' = "alive" <=> phase = "alive")
  PROVE  UNCHANGED Contract!vars
<1>1. Lawful' /\ StatusNow' = StatusNow
  BY DEF Lawful, StatusNow, Alive, userVars
<1>2. Status' = Status
  BY <1>1, StatusIs
<1>3. Credit' = Credit /\ Events' = Events
  BY DEF Credit, Events, userVars
<1> QED
  BY <1>2, <1>3, Seen

\* The invariant keeps the cases apart.
LEMMA IsLawful ==
  ASSUME CarefulConsumer, NEW p \in Workers, NEW c \in Workers, IInvAt(p, c)
  PROVE  Lawful
<1>1. TypeOK /\ Beginning(p, c) /\ Cancelling(p, c)
  BY DEF IInvAt
<1>2. ~open => ~EndSent /\ ~cancelled
  BY NotOpen
<1> QED
  BY <1>1, <1>2 DEF TypeOK, Lawful, Cancelling, EndSent

\* Arithmetic of the credit: it never saturates.
LEMMA CreditArithmetic ==
  ASSUME NEW x \in Nat, x < KMax
  PROVE  /\ \A n \in Nat : x + n <= KMax => n \in Contract!Balance /\ Contract!AddTo(x, n) = x + n
         /\ x > 0 => Contract!HasRequests(x) /\ Contract!RemoveFrom(x, 1) = x - 1
  BY KMaxAssumption DEF Contract!Balance, Contract!AddTo, Contract!HasRequests, Contract!RemoveFrom

\* A delivery in terms of the variables of AsyncStream.
LEMMA Delivered ==
  ASSUME CarefulConsumer, NEW p \in Workers, NEW c \in Workers, IInvAt(p, c),
         open, ~ended, ~cancelled, got < asked,
         got' = got + 1, asked' = asked, open' = open, cancelled' = cancelled,
         ended' \in BOOLEAN, ended' => holder' # "none"
  PROVE  Contract!Deliver("stream")
<1>1. Lawful /\ asked - got \in Nat /\ asked - got < KMax
  BY IsLawful, Requested
<1>2. asked \in Nat /\ got \in Nat /\ asked - got > 0
  <2>1. asked \in Nat /\ got \in Nat
    BY DEF IInvAt, TypeOK
  <2> QED
    BY <2>1
<1>3. Lawful' /\ StatusNow = "open" /\ StatusNow' \in {"open", "ending"}
  BY <1>1 DEF Lawful, StatusNow
<1>4. Status["stream"] = "open" /\ Status' = [Status EXCEPT !["stream"] = StatusNow']
  BY <1>1, <1>3, StatusIs
<1>5. Credit["stream"] = asked - got /\ Credit' = [s \in {"stream"} |-> asked - got - 1]
  BY <1>2 DEF Credit
<1>6. /\ Contract!HasRequests(Credit["stream"])
      /\ Credit' = [Credit EXCEPT !["stream"] = Contract!RemoveFrom(Credit["stream"], 1)]
  BY <1>1, <1>2, <1>5, CreditArithmetic DEF Credit
<1>7. Events' = [Events EXCEPT !["stream"] = Events["stream"] + 1]
  BY <1>2 DEF Events
<1> QED
  BY <1>3, <1>4, <1>6, <1>7, Seen

\* Each step of Async is a step of a stream, or none.
LEMMA ContractStep ==
  ASSUME CarefulConsumer, IInv, [Next]_vars
  PROVE  [Contract!Next]_(Contract!vars)
<1>1. PICK p \in Workers, c \in Workers : p = produceOn /\ c = consumeOn /\ IInvAt(p, c)
  BY DEF IInv
<1>2. /\ TypeOK /\ (\A w \in Workers : WorkerOK(w, p, c)) /\ Beginning(p, c)
      /\ Flow(p, c) /\ Values(c) /\ Ending(p, c) /\ Cancelling(p, c) /\ Lawful
  BY <1>1, IsLawful DEF IInvAt
<1>3. /\ asked \in Nat /\ got \in Nat /\ yielded \in Nat /\ requested \in Nat
      /\ asked - got \in Nat /\ asked - got < KMax
      /\ InHand(p) \in Nat /\ Sent \in Nat /\ Sent <= asked
  BY <1>1, <1>2, Requested DEF TypeOK
<1>4. ~open => ~ended /\ ~cancelled
  BY <1>2 DEF Lawful
<1>5. CASE UNCHANGED vars
  BY <1>2, <1>5, Unseen DEF vars, userVars, upVars
<1>6. CASE UserSubscribes \/ UserSchedules \/ UserRequests \/ UserCancels
  BY <1>2, <1>6, Unseen DEF UserSubscribes, UserSchedules, UserRequests, UserCancels, upVars
<1>7. CASE Subscribe
  <2>1. ~open
    BY <1>1, <1>2, <1>7 DEF Subscribe, At, Beginning, Due
  <2> QED
    BY <1>2, <1>4, <1>7, <2>1, Unseen DEF Subscribe
<1>8. CASE RequestUp \/ CheckStale \/ UserTask \/ UserReturns
  BY <1>2, <1>8, Unseen DEF RequestUp, CheckStale, UserTask, UserReturns, upVars
<1>9. CASE Generate
  <2>1. ~ended
    BY <1>1, <1>9, InLoop DEF Generate, At, EndSent
  <2> QED
    BY <1>2, <1>9, <2>1, Unseen DEF Generate
<1>10. CASE SelfDestruct
  <2>1. holder # "stream" /\ ~cancelled
    BY <1>1, <1>2, <1>10 DEF SelfDestruct, At, Ending, Cancelling
  <2> QED
    BY <1>2, <1>10, <2>1, Unseen DEF SelfDestruct, Deleted
<1>11. CASE CancelUp
  <2>1. /\ cancelled /\ ~ended /\ phase = "alive" /\ open
        /\ phase' = "deleted" /\ UNCHANGED userVars
    BY <1>1, <1>2, <1>4, <1>11 DEF CancelUp, Deleted, At, Cancelling, Due, EndSent
  <2>2. Lawful' /\ StatusNow = "cancelled" /\ StatusNow' = "gone"
    BY <1>2, <2>1 DEF Lawful, StatusNow, Alive, userVars
  <2>3. Contract!Destroy("stream")
    BY <1>2, <2>1, <2>2, StatusIs, Seen DEF Credit, Events, userVars
  <2> QED
    BY <2>3 DEF Contract!Next
<1>12. CASE OnSubscribe
  <2>1. ~open /\ open' /\ ~ended' /\ ~cancelled' /\ UNCHANGED <<asked, got, ended, cancelled>>
        /\ open' \in BOOLEAN
    BY <1>1, <1>2, <1>4, <1>12 DEF OnSubscribe, At, Beginning, Due
  <2>2. Lawful' /\ StatusNow = "new" /\ StatusNow' = "open"
    BY <1>2, <2>1 DEF Lawful, StatusNow
  <2>3. Contract!Subscribe("stream")
    BY <1>2, <2>1, <2>2, StatusIs, Seen DEF Credit, Events
  <2> QED
    BY <2>3 DEF Contract!Next
<1>13. CASE OnValue
  <2>1. /\ pc[c] = "call" /\ got' = got + 1 /\ UNCHANGED <<open, asked, ended, cancelled, holder>>
    BY <1>1, <1>13 DEF OnValue, At
  <2>2. got < yielded
    BY <1>1, <1>2, <1>3, <2>1, Requested DEF Values, Reached
  <2>3. open /\ ~EndSent /\ ~cancelled /\ Sent = yielded
    BY <1>1, <2>2, ValueAhead DEF Sent
  <2>4. Contract!Deliver("stream")
    BY <1>1, <1>2, <1>3, <2>1, <2>2, <2>3, Delivered DEF EndSent, Lawful
  <2> QED
    BY <2>4 DEF Contract!Next
<1>14. CASE OnEnd
  <2>1. /\ pc[c] = "end" /\ got' = got + 1 /\ ended' = TRUE
        /\ UNCHANGED <<open, asked, cancelled, holder>>
    BY <1>1, <1>14 DEF OnEnd, At
  <2>2. holder = "task" /\ ~ended
    BY <1>2, <2>1 DEF WorkerOK, Ending, Ops
  <2>3. EndSent /\ ~cancelled /\ open /\ got <= yielded /\ Sent = yielded + 1
    BY <1>1, <1>2, <2>2, NotOpen DEF EndSent, Sent, Cancelling, Flow
  <2>4. Contract!Deliver("stream")
    BY <1>1, <1>3, <2>1, <2>2, <2>3, Delivered
  <2> QED
    BY <2>4 DEF Contract!Next
<1>15. CASE Request
  <2>1. PICK m \in Counts : MayAsk(m) /\ asked' = asked + m
    BY <1>15 DEF Request
  <2>2. pc[c] = "asks" /\ UNCHANGED <<open, got, ended, cancelled, holder>>
    BY <1>1, <1>15 DEF Request, At
  <2>3. open /\ ~ended /\ ~cancelled
    BY <1>2, <2>2 DEF Beginning, Cancelling
  <2>4. m \in Nat /\ asked + m - got <= KMax
    BY <1>1, <2>1, <2>3, CanAsk
  <2>5. Lawful' /\ StatusNow = "open" /\ StatusNow' = "open"
    BY <1>2, <2>2, <2>3 DEF Lawful, StatusNow
  <2>6. Status["stream"] = "open" /\ Status' = Status /\ Events' = Events
    BY <1>2, <2>2, <2>5, StatusIs DEF Events
  <2>7. m \in Contract!Balance
        /\ Credit' = [Credit EXCEPT !["stream"] = Contract!AddTo(Credit["stream"], m)]
    <3>1. (asked - got) + m <= KMax /\ (asked + m) - got = (asked - got) + m
      BY <1>3, <2>4
    <3>2. m \in Contract!Balance /\ Contract!AddTo(asked - got, m) = (asked - got) + m
      BY <1>3, <2>4, <3>1, CreditArithmetic
    <3> QED
      BY <2>1, <2>2, <3>1, <3>2 DEF Credit
  <2>8. Contract!Request("stream")
    BY <2>6, <2>7, Seen
  <2> QED
    BY <2>8 DEF Contract!Next
<1>16. CASE Cancel
  <2>1. /\ pc[c] = "cancels" /\ cancelled' = TRUE
        /\ UNCHANGED <<open, asked, got, ended, holder, phase>>
    BY <1>1, <1>16 DEF Cancel, At, upVars
  <2>2. open /\ ~ended /\ ~cancelled /\ phase = "alive"
    BY <1>1, <1>2, <2>1, CanCancel DEF Beginning, Cancelling
  <2>3. Lawful' /\ StatusNow = "open" /\ StatusNow' = "cancelled"
    BY <1>2, <2>1, <2>2 DEF Lawful, StatusNow, Alive
  <2>4. Contract!Cancel("stream")
    BY <1>2, <2>1, <2>3, StatusIs, Seen DEF Credit, Events
  <2> QED
    BY <2>4 DEF Contract!Next
<1>17. ASSUME NEW w \in Workers, Begin(w)
       PROVE  UNCHANGED Contract!vars
  BY <1>2, <1>17, Unseen DEF Begin, upVars
<1>18. ASSUME NEW w \in Workers, Return(w)
       PROVE  [Contract!Next]_(Contract!vars)
  <2>1. /\ pc[w] = "return" /\ UNCHANGED <<userVars, upVars>>
        /\ holder' = IF busy[w].op = "end" THEN "none" ELSE holder
    BY <1>18 DEF Return, At
  <2>2. CASE busy[w].op # "end"
    BY <1>2, <2>1, <2>2, Unseen DEF upVars
  <2>3. CASE busy[w].op = "end"
    <3>1. ended /\ holder = "task" /\ open /\ ~cancelled
      BY <1>2, <1>4, <2>1, <2>3 DEF WorkerOK, Ending, Cancelling, EndSent, ConsumerOps
    <3>2. Lawful' /\ StatusNow = "ending" /\ StatusNow' = "gone"
      BY <1>2, <2>1, <2>3, <3>1 DEF Lawful, StatusNow, userVars
    <3>3. Contract!Destroy("stream")
      BY <1>2, <2>1, <3>2, StatusIs, Seen DEF Credit, Events, userVars
    <3> QED
      BY <3>3 DEF Contract!Next
  <2> QED
    BY <2>2, <2>3
<1> QED
  BY <1>5, <1>6, <1>7, <1>8, <1>9, <1>10, <1>11, <1>12, <1>13, <1>14, <1>15, <1>16, <1>17, <1>18
     DEF Next, ProducerStep, ConsumerStep, Terminated

\* Whatever the interleaving of the two workers, the careful consumer sees a
\* stream as any other: OnSubscribe first and once, no event that was not
\* requested, one end and nothing behind it, and nothing after Cancel. The
\* safety part of KeepsContract.
THEOREM AsyncIsAStream ==
  ASSUME CarefulConsumer
  PROVE  Spec => Contract!SafeSpec
<1>1. Init => Contract!Init
  <2> SUFFICES ASSUME Init PROVE Contract!Init
    OBVIOUS
  <2>1. open = FALSE /\ ended = FALSE /\ cancelled = FALSE /\ asked = 0 /\ got = 0
    BY DEF Init
  <2>2. Lawful /\ StatusNow = "new"
    BY <2>1 DEF Lawful, StatusNow
  <2>3. asked - got = 0
    BY <2>1
  <2> QED
    BY <2>1, <2>2, <2>3, StatusIs, Seen DEF Credit, Events
<1>2. IInv /\ [Next]_vars => [Contract!Next]_(Contract!vars)
  BY ContractStep
<1> QED
  BY <1>1, <1>2, Invariance, PTL DEF Spec, Contract!SafeSpec

=============================================================================
