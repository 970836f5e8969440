-------------------------- MODULE ThreadPoolProofs --------------------------
(***************************************************************************)
(* Safety of ThreadPool for every set of threads and every set of tasks.    *)
(***************************************************************************)
EXTENDS ThreadPool, FiniteSetTheorems, SequenceTheorems, TLAPS

-----------------------------------------------------------------------------
(* Counting threads.                                                        *)

\* Sets of threads are finite.
LEMMA ThreadSetsFinite ==
  ASSUME NEW S, S \subseteq Threads
  PROVE  IsFiniteSet(S) /\ Cardinality(S) \in Nat
BY ThreadsAssumption, FS_Subset, FS_CardinalityType

\* Cardinalities when one thread joins or leaves a set of threads.
LEMMA OneMoreOrLess ==
  ASSUME NEW S, S \subseteq Threads, NEW t \in Threads
  PROVE  /\ t \notin S => Cardinality(S \cup {t}) = Cardinality(S) + 1
         /\ t \in S => Cardinality(S \ {t}) = Cardinality(S) - 1
BY ThreadSetsFinite, FS_AddElement, FS_RemoveElement

\* The step of thread t, of all the threads alone, to state s.
MovesTo(t, s) == pc' = [pc EXCEPT ![t] = s]

\* Thread t joins the threads in the state it moves to.
LEMMA Joins ==
  ASSUME TypeOK, NEW t \in Threads, NEW s, MovesTo(t, s)
  PROVE  InState(s)' = InState(s) \cup {t}
BY DEF TypeOK, InState, MovesTo

\* Thread t is not among the threads in any other state.
LEMMA Leaves ==
  ASSUME TypeOK, NEW t \in Threads, NEW s, MovesTo(t, s), NEW r, r # s
  PROVE  InState(r)' = InState(r) \ {t}
BY DEF TypeOK, InState, MovesTo

\* A state that t neither leaves nor enters keeps its threads.
LEMMA Stays ==
  ASSUME TypeOK, NEW t \in Threads, NEW s, MovesTo(t, s), NEW r, r # s,
         t \notin InState(r)
  PROVE  InState(r)' = InState(r)
BY Leaves

\* The woken threads, which Counts speaks of, when t moves.
LEMMA WokenMoves ==
  ASSUME TypeOK, NEW t \in Threads, NEW s, MovesTo(t, s)
  PROVE  /\ s = "woken" => Woken' = Woken \cup {t}
         /\ s # "woken" => Woken' = Woken \ {t}
<1>1. CASE s = "woken"
  BY <1>1, Joins DEF Woken
<1>2. CASE s # "woken"
  BY <1>2, Leaves DEF Woken
<1> QED BY <1>1, <1>2

\* The sleeping threads are the same when a thread that is awake moves.
LEMMA WaitingStays ==
  ASSUME TypeOK, NEW t \in Threads, NEW s, MovesTo(t, s), s # "waiting",
         t \notin Waiting
  PROVE  Waiting' = Waiting
BY Stays DEF Waiting

\* The busy threads while t moves between two states they are not in.
LEMMA BusyStay ==
  ASSUME TypeOK, NEW t \in Threads, NEW s, MovesTo(t, s),
         s # "lock", s # "running",
         t \notin InState("lock"), t \notin InState("running")
  PROVE  InState("lock")' = InState("lock") /\ InState("running")' = InState("running")
BY Stays

-----------------------------------------------------------------------------
(* The queue as a set.                                                      *)

Elems(q)    == {q[i] : i \in DOMAIN q}
Distinct(q) == \A i, j \in DOMAIN q : i # j => q[i] # q[j]

\* Append, the push of line 128, adds one element and keeps elements distinct.
LEMMA AppendElems ==
  ASSUME NEW T, NEW q \in Seq(T), NEW k \in T
  PROVE  /\ Elems(Append(q, k)) = Elems(q) \cup {k}
         /\ Distinct(q) /\ k \notin Elems(q) => Distinct(Append(q, k))
<1>1. DOMAIN q = 1 .. Len(q) /\ DOMAIN Append(q, k) = 1 .. Len(q) + 1
  BY AppendProperties
<1>2. /\ \A i \in 1 .. Len(q) : Append(q, k)[i] = q[i]
      /\ Append(q, k)[Len(q) + 1] = k
  BY AppendProperties
<1>3. Len(q) \in Nat
  BY LenProperties
<1>4. Elems(Append(q, k)) = Elems(q) \cup {k}
  <2>1. \A e : e \in Elems(Append(q, k)) => e \in Elems(q) \cup {k}
    BY <1>1, <1>2, <1>3 DEF Elems
  <2>2. \A e \in Elems(q) : e \in Elems(Append(q, k))
    BY <1>1, <1>2, <1>3 DEF Elems
  <2>3. k \in Elems(Append(q, k))
    <3>1. Len(q) + 1 \in DOMAIN Append(q, k)
      BY <1>1, <1>3
    <3> QED BY <3>1, <1>2 DEF Elems
  <2> QED BY <2>1, <2>2, <2>3
<1>5. ASSUME Distinct(q), k \notin Elems(q)
      PROVE  Distinct(Append(q, k))
  BY <1>1, <1>2, <1>3, <1>5 DEF Distinct, Elems
<1> QED BY <1>4, <1>5

\* front and pop of lines 158-159 remove one element, for good if it was there once.
LEMMA TailElems ==
  ASSUME NEW T, NEW q \in Seq(T), q # <<>>
  PROVE  /\ Head(q) \in T
         /\ Elems(q) = Elems(Tail(q)) \cup {Head(q)}
         /\ Distinct(q) => Distinct(Tail(q)) /\ Head(q) \notin Elems(Tail(q))
         /\ Tail(q) \in Seq(T)
         /\ Len(Tail(q)) = Len(q) - 1
<1>1. /\ Head(q) \in T /\ Tail(q) \in Seq(T)
      /\ Len(Tail(q)) = Len(q) - 1 /\ Len(q) \in Nat \ {0}
      /\ DOMAIN q = 1 .. Len(q) /\ DOMAIN Tail(q) = 1 .. Len(q) - 1
      /\ Head(q) = q[1]
      /\ \A i \in 1 .. Len(q) - 1 : Tail(q)[i] = q[i + 1]
  BY HeadTailProperties, LenProperties, EmptySeq
<1>2. \A i \in DOMAIN q : i = 1 \/ (i - 1 \in DOMAIN Tail(q) /\ q[i] = Tail(q)[i - 1])
  BY <1>1
<1>3. Elems(q) = Elems(Tail(q)) \cup {Head(q)}
  <2>1. ASSUME NEW i \in DOMAIN q
        PROVE  q[i] \in Elems(Tail(q)) \cup {Head(q)}
    <3>1. CASE i = 1
      BY <3>1, <1>1
    <3>2. CASE i - 1 \in DOMAIN Tail(q) /\ q[i] = Tail(q)[i - 1]
      BY <3>2 DEF Elems
    <3> QED BY <3>1, <3>2, <1>2
  <2>2. \A e \in Elems(Tail(q)) : e \in Elems(q)
    BY <1>1 DEF Elems
  <2>3. Head(q) \in Elems(q)
    BY <1>1 DEF Elems
  <2> QED BY <2>1, <2>2, <2>3 DEF Elems
<1>4. Distinct(q) => Distinct(Tail(q)) /\ Head(q) \notin Elems(Tail(q))
  BY <1>1 DEF Distinct, Elems
<1> QED BY <1>1, <1>3, <1>4

-----------------------------------------------------------------------------
(* Type correctness.                                                        *)

\* The constructor (lines 97-106) leaves variables of the right types.
LEMMA InitTypeOK == Init => TypeOK
<1>1. Cardinality(Threads) \in Int /\ <<>> \in Seq(Tasks)
  BY ThreadSetsFinite, EmptySeq
<1> SUFFICES ASSUME Init PROVE TypeOK
  OBVIOUS
<1>2. pc \in [Threads -> {"lock", "waiting", "woken", "running", "exited"}]
  BY DEF Init
<1>3. \A t \in Threads : pc[t] = "lock"
  BY DEF Init
<1> QED BY <1>1, <1>2, <1>3 DEF Init, TypeOK

\* A step of Schedule.
LEMMA ScheduleTypeOK ==
  ASSUME TypeOK, NEW k, Schedule(k)
  PROVE  /\ todo' \in Seq(Tasks)
         /\ submitted' \subseteq Tasks
         /\ pc' \in [Threads -> {"lock", "waiting", "woken", "running", "exited"}]
         /\ \A t \in Threads : pc'[t] = "running" <=> pc[t] = "running"
<1>1. todo' \in Seq(Tasks) /\ submitted' \subseteq Tasks
  BY AppendProperties DEF TypeOK, Schedule
<1>2. CASE Waiting = {}
  BY <1>1, <1>2 DEF TypeOK, Schedule, Signal
<1>3. CASE Waiting # {}
  <2>1. PICK t \in Waiting : pc' = [pc EXCEPT ![t] = "woken"]
    BY <1>3 DEF Schedule, Signal
  <2>2. t \in Threads /\ pc[t] = "waiting"
    BY DEF Waiting, InState
  <2> QED BY <1>1, <2>1, <2>2 DEF TypeOK
<1> QED BY <1>2, <1>3

\* A step of the loop test, at the top of the loop or out of Wait.
LEMMA LoopTypeOK ==
  ASSUME TypeOK, NEW t \in Threads, NEW n \in Int, LoopTest(t, n),
         UNCHANGED <<threads_should_join, submitted, done, owner>>
  PROVE  TypeOK'
<1>1. CASE LoopTake(t, n)
  BY <1>1, TailElems DEF LoopTake, TypeOK, TaskTaken, Popped, Counted
<1>2. CASE LoopWait(t, n)
  BY <1>2 DEF LoopWait, TypeOK
<1>3. CASE LoopExit(t, n)
  BY <1>3 DEF LoopExit, TypeOK
<1> QED BY <1>1, <1>2, <1>3 DEF LoopTest

\* Every step keeps the types.
LEMMA NextTypeOK == TypeOK /\ [Next]_vars => TypeOK'
<1> SUFFICES ASSUME TypeOK, [Next]_vars
             PROVE  TypeOK'
  OBVIOUS
<1>1. ASSUME NEW t \in Threads, Enter(t)
      PROVE  TypeOK'
  <2>1. active_count - 1 \in Int
    BY DEF TypeOK
  <2> QED BY <1>1, <2>1, LoopTypeOK DEF Enter
<1>2. ASSUME NEW t \in Threads, Rewake(t)
      PROVE  TypeOK'
  <2>1. active_count \in Int
    BY DEF TypeOK
  <2> QED BY <1>2, <2>1, LoopTypeOK DEF Rewake
<1>3. ASSUME NEW t \in Threads, TaskReturns(t)
      PROVE  TypeOK'
  BY <1>3 DEF TaskReturns, TypeOK
<1>4. ASSUME NEW t \in Threads, SpuriousWakeup(t)
      PROVE  TypeOK'
  BY <1>4 DEF SpuriousWakeup, TypeOK
<1>5. ASSUME NEW t \in Threads, TaskSchedules(t)
      PROVE  TypeOK'
  <2>1. PICK k \in Tasks \ Blocking : Schedule(k)
    BY <1>5 DEF TaskSchedules
  <2> QED BY <1>5, <2>1, ScheduleTypeOK DEF TaskSchedules, Schedule, TypeOK
<1>6. CASE OwnerSchedules
  <2>1. PICK k \in Tasks : Schedule(k)
    BY <1>6 DEF OwnerSchedules
  <2> QED BY <1>6, <2>1, ScheduleTypeOK DEF OwnerSchedules, Schedule, TypeOK
<1>7. CASE WaitUntilIdle
  BY <1>7 DEF WaitUntilIdle, TypeOK
<1>8. CASE WaitReturns
  BY <1>8 DEF WaitReturns, TypeOK
<1>9. CASE Destroy
  <2>1. aborted' \in BOOLEAN
    BY <1>9 DEF Destroy
  <2> QED BY <1>9, <2>1 DEF Destroy, SignalAll, TypeOK
<1>10. CASE Joined
  BY <1>10 DEF Joined, TypeOK
<1>11. CASE UNCHANGED vars
  BY <1>11 DEF vars, TypeOK
<1> QED BY <1>1, <1>2, <1>3, <1>4, <1>5, <1>6, <1>7, <1>8, <1>9, <1>10, <1>11
        DEF Next, ThreadStep, Terminated

\* The variables of ThreadPoolScheduler keep their types.
THEOREM TypeCorrect == Spec => []TypeOK
<1> QED BY InitTypeOK, NextTypeOK, PTL DEF Spec

-----------------------------------------------------------------------------
(* The counts: active_count_ is exact, and no task is stranded.             *)

Counts == ActiveCountExact /\ NoStrandedTask

\* Initially every thread counts, and none sleeps.
LEMMA InitCounts == Init => Counts
<1> SUFFICES ASSUME Init PROVE Counts
  OBVIOUS
<1>1. InState("lock") \cup InState("running") = Threads /\ Waiting = {}
  BY DEF Init, InState, Waiting
<1> QED BY <1>1 DEF Counts, ActiveCountExact, NoStrandedTask, Init

\* Counts is about pc, active_count and the length of todo only.
LEMMA SameCounts ==
  ASSUME Counts, UNCHANGED <<todo, active_count, pc>>
  PROVE  Counts'
BY DEF Counts, ActiveCountExact, NoStrandedTask, Waiting, Woken, InState

\* Schedule: a new task, and one thread more that is woken.
LEMMA ScheduleCounts ==
  ASSUME TypeOK, Counts, NEW k, Schedule(k)
  PROVE  Counts'
<1>1. Len(todo') = Len(todo) + 1 /\ Len(todo) \in Nat /\ active_count' = active_count
  BY AppendProperties, LenProperties DEF TypeOK, Schedule
<1>2. CASE Waiting = {}
  <2>1. pc' = pc
    BY <1>2 DEF Schedule, Signal
  <2> QED BY <1>1, <1>2, <2>1
          DEF Counts, ActiveCountExact, NoStrandedTask, Waiting, Woken, InState
<1>3. CASE Waiting # {}
  <2>1. PICK t \in Waiting : MovesTo(t, "woken")
    BY <1>3 DEF Schedule, Signal, MovesTo
  <2>2. /\ t \in Threads /\ t \notin Woken
        /\ t \notin InState("lock") /\ t \notin InState("running")
    BY DEF Waiting, Woken, InState
  <2>3. /\ InState("lock")' = InState("lock") /\ InState("running")' = InState("running")
        /\ Woken' = Woken \cup {t}
    BY <2>1, <2>2, BusyStay, WokenMoves
  <2>4. Cardinality(Woken') = Cardinality(Woken) + 1 /\ Cardinality(Woken) \in Nat
    BY <2>2, <2>3, OneMoreOrLess, ThreadSetsFinite DEF Woken, InState
  <2>5. Len(todo) <= Cardinality(Woken)
    BY <1>3 DEF Counts, NoStrandedTask
  <2>6. NoStrandedTask'
    BY <1>1, <2>4, <2>5 DEF NoStrandedTask
  <2>7. ActiveCountExact'
    BY <1>1, <2>3 DEF Counts, ActiveCountExact
  <2> QED BY <2>6, <2>7 DEF Counts
<1> QED BY <1>2, <1>3

\* The top of the loop: a busy thread takes a task or stops being busy.
LEMMA EnterCounts ==
  ASSUME TypeOK, Counts, NEW t \in Threads, Enter(t)
  PROVE  Counts'
<1> DEFINE B == InState("lock") \cup InState("running")
<1>1. /\ pc[t] = "lock" /\ t \in B /\ B \subseteq Threads
      /\ t \notin Woken /\ t \notin Waiting
      /\ t \in InState("lock") /\ t \notin InState("running")
  BY DEF Enter, InState, Woken, Waiting
<1>2. active_count = Cardinality(B) /\ Cardinality(B) \in Nat
  BY <1>1, ThreadSetsFinite DEF Counts, ActiveCountExact
<1>3. Cardinality(Woken) \in Nat
  BY ThreadSetsFinite DEF Woken, InState
<1>4. CASE LoopTake(t, active_count - 1)
  <2>1. MovesTo(t, "running") /\ active_count' = active_count
    BY <1>2, <1>4 DEF LoopTake, Counted, MovesTo
  <2>2. B' = B /\ Woken' = Woken /\ Waiting' = Waiting
    <3>1. InState("lock")' = InState("lock") \ {t}
      BY <2>1, Leaves
    <3>2. InState("running")' = InState("running") \cup {t}
      BY <2>1, Joins
    <3>3. Woken' = Woken \ {t}
      BY <2>1, WokenMoves
    <3>4. Waiting' = Waiting
      BY <1>1, <2>1, WaitingStays
    <3> QED BY <1>1, <3>1, <3>2, <3>3, <3>4
  <2>3. Len(todo') = Len(todo) - 1 /\ Len(todo) \in Nat
    BY <1>4, TailElems, LenProperties DEF LoopTake, Popped, TypeOK
  <2>4. NoStrandedTask'
    BY <1>3, <2>2, <2>3 DEF Counts, NoStrandedTask
  <2>5. ActiveCountExact'
    BY <1>2, <2>1, <2>2 DEF ActiveCountExact
  <2> QED BY <2>4, <2>5 DEF Counts
<1>5. CASE LoopWait(t, active_count - 1) \/ LoopExit(t, active_count - 1)
  <2>1. PICK s \in {"waiting", "exited"} : MovesTo(t, s)
    BY <1>5 DEF LoopWait, LoopExit, MovesTo
  <2>s. s # "lock" /\ s # "running" /\ s # "woken"
    BY <2>1
  <2>2. active_count' = active_count - 1 /\ todo' = <<>>
    BY <1>5 DEF LoopWait, LoopExit
  <2>3. B' = B \ {t} /\ Woken' = Woken
    <3>1. InState("lock")' = InState("lock") \ {t}
      BY <2>1, <2>s, Leaves
    <3>2. InState("running")' = InState("running") \ {t}
      BY <2>1, <2>s, Leaves
    <3>3. Woken' = Woken \ {t}
      BY <2>1, <2>s, WokenMoves
    <3> QED BY <1>1, <3>1, <3>2, <3>3
  <2>4. Cardinality(B') = Cardinality(B) - 1
    BY <1>1, <2>3, OneMoreOrLess
  <2>5. ActiveCountExact'
    BY <1>2, <2>2, <2>4 DEF ActiveCountExact
  <2>6. Len(todo') = 0
    BY <2>2, EmptySeq
  <2>7. NoStrandedTask'
    BY <1>3, <2>3, <2>6 DEF NoStrandedTask
  <2> QED BY <2>5, <2>7 DEF Counts
<1> QED BY <1>4, <1>5 DEF Enter, LoopTest

\* Out of Wait: a woken thread takes a task, or finds none.
LEMMA RewakeCounts ==
  ASSUME TypeOK, Counts, NEW t \in Threads, Rewake(t)
  PROVE  Counts'
<1> DEFINE B == InState("lock") \cup InState("running")
<1>1. /\ pc[t] = "woken" /\ t \notin B /\ B \subseteq Threads
      /\ t \in Woken /\ t \notin Waiting /\ Woken \subseteq Threads
      /\ t \notin InState("lock") /\ t \notin InState("running")
  BY DEF Rewake, InState, Woken, Waiting
<1>2. active_count = Cardinality(B) /\ Cardinality(B) \in Nat
  BY <1>1, ThreadSetsFinite DEF Counts, ActiveCountExact
<1>3. Cardinality(Woken) \in Nat /\ Cardinality(Woken \ {t}) = Cardinality(Woken) - 1
  BY <1>1, ThreadSetsFinite, OneMoreOrLess
<1>4. CASE LoopTake(t, active_count)
  <2>1. MovesTo(t, "running") /\ active_count' = active_count + 1
    BY <1>4 DEF LoopTake, Counted, MovesTo
  <2>2. B' = B \cup {t} /\ Woken' = Woken \ {t} /\ Waiting' = Waiting
    <3>1. InState("lock")' = InState("lock")
      BY <1>1, <2>1, Stays
    <3>2. InState("running")' = InState("running") \cup {t}
      BY <2>1, Joins
    <3>3. Woken' = Woken \ {t}
      BY <2>1, WokenMoves
    <3>4. Waiting' = Waiting
      BY <1>1, <2>1, WaitingStays
    <3> QED BY <3>1, <3>2, <3>3, <3>4
  <2>3. Len(todo') = Len(todo) - 1 /\ Len(todo) \in Nat
    BY <1>4, TailElems, LenProperties DEF LoopTake, Popped, TypeOK
  <2>4. NoStrandedTask'
    BY <1>3, <2>2, <2>3 DEF Counts, NoStrandedTask
  <2>5. Cardinality(B') = Cardinality(B) + 1
    BY <1>1, <2>2, OneMoreOrLess
  <2>6. ActiveCountExact'
    BY <1>2, <2>1, <2>5 DEF ActiveCountExact
  <2> QED BY <2>4, <2>6 DEF Counts
<1>5. CASE LoopWait(t, active_count) \/ LoopExit(t, active_count)
  <2>1. PICK s \in {"waiting", "exited"} : MovesTo(t, s)
    BY <1>5 DEF LoopWait, LoopExit, MovesTo
  <2>s. s # "lock" /\ s # "running" /\ s # "woken"
    BY <2>1
  <2>2. active_count' = active_count /\ todo' = <<>>
    BY <1>5 DEF LoopWait, LoopExit
  <2>3. InState("lock")' = InState("lock") /\ InState("running")' = InState("running")
        /\ Woken' = Woken \ {t}
    BY <1>1, <2>1, <2>s, BusyStay, WokenMoves
  <2>4. ActiveCountExact'
    BY <1>2, <2>2, <2>3 DEF ActiveCountExact
  <2>5. Len(todo') = 0
    BY <2>2, EmptySeq
  <2>6. Cardinality(Woken') \in Nat
    <3>1. Woken' \subseteq Threads
      BY <1>1, <2>3
    <3> QED BY <3>1, ThreadSetsFinite
  <2>7. NoStrandedTask'
    BY <2>5, <2>6 DEF NoStrandedTask
  <2> QED BY <2>4, <2>7 DEF Counts
<1> QED BY <1>4, <1>5 DEF Rewake, LoopTest

\* Every step keeps active_count_ exact and strands no task.
LEMMA NextCounts == TypeOK /\ Counts /\ [Next]_vars => Counts'
<1> SUFFICES ASSUME TypeOK, Counts, [Next]_vars
             PROVE  Counts'
  OBVIOUS
<1>1. ASSUME NEW t \in Threads, Enter(t)
      PROVE  Counts'
  BY <1>1, EnterCounts
<1>2. ASSUME NEW t \in Threads, Rewake(t)
      PROVE  Counts'
  BY <1>2, RewakeCounts
<1>3. ASSUME NEW t \in Threads, TaskReturns(t)
      PROVE  Counts'
  <2>1. /\ pc[t] = "running" /\ MovesTo(t, "lock")
        /\ todo' = todo /\ active_count' = active_count
    BY <1>3 DEF TaskReturns, MovesTo
  <2>2. /\ t \in InState("running") /\ t \notin Woken /\ t \notin Waiting
    BY <2>1 DEF InState, Woken, Waiting
  <2>3. Woken' = Woken
    <3>1. Woken' = Woken \ {t}
      BY <2>1, WokenMoves
    <3> QED BY <2>2, <3>1
  <2>4. Waiting' = Waiting
    BY <2>1, <2>2, WaitingStays
  <2>5. InState("lock")' = InState("lock") \cup {t}
    BY <2>1, Joins
  <2>6. InState("running")' = InState("running") \ {t}
    BY <2>1, Leaves
  <2>7. (InState("lock") \cup InState("running"))' = InState("lock") \cup InState("running")
    BY <2>2, <2>5, <2>6
  <2> QED BY <2>1, <2>3, <2>4, <2>7 DEF Counts, ActiveCountExact, NoStrandedTask
<1>4. ASSUME NEW t \in Threads, SpuriousWakeup(t)
      PROVE  Counts'
  <2>1. /\ pc[t] = "waiting" /\ MovesTo(t, "woken")
        /\ todo' = todo /\ active_count' = active_count
    BY <1>4 DEF SpuriousWakeup, MovesTo
  <2>2. /\ t \in Waiting /\ t \notin Woken /\ Woken \subseteq Threads
        /\ t \notin InState("lock") /\ t \notin InState("running")
    BY <2>1 DEF InState, Woken, Waiting
  <2>3. Woken' = Woken \cup {t}
    BY <2>1, WokenMoves
  <2>4. InState("lock")' = InState("lock")
    BY <2>1, <2>2, BusyStay
  <2>5. InState("running")' = InState("running")
    BY <2>1, <2>2, BusyStay
  <2>6. Cardinality(Woken') = Cardinality(Woken) + 1 /\ Cardinality(Woken) \in Nat
    BY <2>2, <2>3, OneMoreOrLess, ThreadSetsFinite
  <2>7. Len(todo) \in Nat /\ Len(todo) <= Cardinality(Woken)
    BY <2>2, LenProperties DEF TypeOK, Counts, NoStrandedTask
  <2>8. ActiveCountExact'
    BY <2>1, <2>4, <2>5 DEF Counts, ActiveCountExact
  <2>9. Len(todo') <= Cardinality(Woken')
    BY <2>1, <2>6, <2>7
  <2> QED BY <2>8, <2>9 DEF Counts, NoStrandedTask
<1>5. ASSUME NEW t \in Threads, TaskSchedules(t)
      PROVE  Counts'
  BY <1>5, ScheduleCounts DEF TaskSchedules
<1>6. CASE OwnerSchedules
  BY <1>6, ScheduleCounts DEF OwnerSchedules
<1>7. CASE WaitUntilIdle \/ WaitReturns \/ Joined \/ UNCHANGED vars
  BY <1>7, SameCounts DEF WaitUntilIdle, WaitReturns, Joined, vars
<1>8. CASE Destroy
  <2>1. active_count' = active_count
    BY <1>8 DEF Destroy
  <2>2. \A t \in Threads : /\ pc'[t] # "waiting"
                           /\ pc'[t] = "lock" <=> pc[t] = "lock"
                           /\ pc'[t] = "running" <=> pc[t] = "running"
    BY <1>8 DEF Destroy, SignalAll
  <2>3. Waiting' = {}
    BY <2>2 DEF Waiting, InState
  <2>4. InState("lock")' = InState("lock") /\ InState("running")' = InState("running")
    BY <2>2 DEF InState
  <2> QED BY <2>1, <2>3, <2>4 DEF Counts, ActiveCountExact, NoStrandedTask
<1> QED BY <1>1, <1>2, <1>3, <1>4, <1>5, <1>6, <1>7, <1>8 DEF Next, ThreadStep, Terminated

\* active_count_ is the number of threads that have not parked.
THEOREM ActiveCountIsExact == Spec => []ActiveCountExact
<1>1. Counts => ActiveCountExact
  BY DEF Counts
<1> QED BY InitTypeOK, NextTypeOK, InitCounts, NextCounts, <1>1, PTL DEF Spec

\* One Signal per Schedule loses no wakeup: a thread sleeps in Wait only when
\* the queued tasks are outnumbered by the woken threads.
THEOREM NoTaskIsStranded == Spec => []NoStrandedTask
<1>1. Counts => NoStrandedTask
  BY DEF Counts
<1> QED BY InitTypeOK, NextTypeOK, InitCounts, NextCounts, <1>1, PTL DEF Spec

-----------------------------------------------------------------------------
(* Every task is in one place.                                              *)

\* Initially there are no tasks.
LEMMA InitConserved == Init => TasksConserved
<1> SUFFICES ASSUME Init PROVE TasksConserved
  OBVIOUS
<1>1. InQueue = {} /\ DOMAIN todo = {}
  BY DEF Init, InQueue
<1>2. InHand = {} /\ InState("running") = {}
  BY DEF Init, InHand, InState
<1> QED BY <1>1, <1>2 DEF Init, TasksConserved

\* Schedule puts a new task in the queue.
LEMMA ScheduleConserved ==
  ASSUME TypeOK, TasksConserved, NEW k, Schedule(k)
  PROVE  TasksConserved'
<1>1. /\ k \in Tasks /\ k \notin submitted /\ submitted' = submitted \cup {k}
      /\ todo' = Append(todo, k) /\ current' = current /\ done' = done
  BY DEF Schedule
<1>2. InState("running")' = InState("running")
  BY ScheduleTypeOK DEF InState
<1>3. InHand' = InHand
  BY <1>1, <1>2 DEF InHand
<1>4. Elems(todo) = InQueue /\ Elems(todo') = InQueue'
  BY DEF Elems, InQueue
<1>5. todo \in Seq(Tasks) /\ Distinct(todo) /\ k \notin Elems(todo)
  BY <1>1, <1>4 DEF TypeOK, TasksConserved, Distinct
<1>6. InQueue' = InQueue \cup {k} /\ Distinct(todo')
  BY <1>1, <1>4, <1>5, AppendElems
<1>7. \A i, j \in DOMAIN todo' : i # j => todo'[i] # todo'[j]
  BY <1>6 DEF Distinct
<1> QED BY <1>1, <1>2, <1>3, <1>6, <1>7 DEF TasksConserved

\* The loop of PerThreadActivity moves a task from the queue to one hand, or moves nothing.
LEMMA LoopConserved ==
  ASSUME TypeOK, TasksConserved, NEW t \in Threads, NEW n, pc[t] # "running",
         LoopTest(t, n), UNCHANGED <<submitted, done>>
  PROVE  TasksConserved'
<1> DEFINE R == InState("running")
<1>1. t \notin R /\ R \subseteq Threads
  BY DEF InState
<1>2. CASE LoopTake(t, n)
  <2>1. /\ todo # <<>> /\ todo' = Tail(todo)
        /\ current' = [current EXCEPT ![t] = Head(todo)]
        /\ MovesTo(t, "running")
    BY <1>2 DEF LoopTake, TaskTaken, Popped, MovesTo
  <2>2. R' = R \cup {t}
    BY <2>1, Joins
  <2>3. current'[t] = Head(todo) /\ \A u \in R : current'[u] = current[u]
    BY <1>1, <2>1 DEF TypeOK
  <2>4. InHand' = InHand \cup {Head(todo)}
    BY <2>2, <2>3 DEF InHand
  <2>5. Elems(todo) = InQueue /\ Elems(todo') = InQueue' /\ Distinct(todo)
    BY DEF Elems, InQueue, TasksConserved, Distinct
  <2>6. /\ InQueue = InQueue' \cup {Head(todo)} /\ Head(todo) \notin InQueue'
        /\ Distinct(todo')
    BY <2>1, <2>5, TailElems DEF TypeOK
  <2>7. \A i, j \in DOMAIN todo' : i # j => todo'[i] # todo'[j]
    BY <2>6 DEF Distinct
  <2>8. \A u \in R : current[u] \in InHand /\ current[u] # Head(todo)
    BY <2>6 DEF InHand, TasksConserved
  <2>9. \A u, v \in R' : u # v => current'[u] # current'[v]
    BY <2>2, <2>3, <2>8 DEF TasksConserved
  <2>10. submitted' = InQueue' \cup InHand' \cup done'
    BY <2>4, <2>6 DEF TasksConserved
  <2>11. InQueue' \cap InHand' = {} /\ (InQueue' \cup InHand') \cap done' = {}
    BY <2>4, <2>6 DEF TasksConserved
  <2> QED BY <2>7, <2>9, <2>10, <2>11 DEF TasksConserved
<1>3. CASE LoopWait(t, n) \/ LoopExit(t, n)
  <2>1. PICK s \in {"waiting", "exited"} : MovesTo(t, s)
    BY <1>3 DEF LoopWait, LoopExit, MovesTo
  <2>s. s # "running"
    BY <2>1
  <2>2. todo' = todo /\ current' = current
    BY <1>3 DEF LoopWait, LoopExit
  <2>3. R' = R
    BY <1>1, <2>1, <2>s, Stays
  <2>4. InHand' = InHand /\ InQueue' = InQueue
    BY <2>2, <2>3 DEF InHand, InQueue
  <2> QED BY <2>2, <2>3, <2>4 DEF TasksConserved
<1> QED BY <1>2, <1>3 DEF LoopTest

\* A task that returns moves from the hand of its thread to the done ones.
LEMMA ReturnConserved ==
  ASSUME TypeOK, TasksConserved, NEW t \in Threads, TaskReturns(t)
  PROVE  TasksConserved'
<1> DEFINE R == InState("running")
<1>1. /\ pc[t] = "running" /\ MovesTo(t, "lock")
      /\ todo' = todo /\ current' = [current EXCEPT ![t] = NoTask]
      /\ done' = done \cup {current[t]} /\ submitted' = submitted
  BY DEF TaskReturns, MovesTo
<1>2. t \in R /\ R \subseteq Threads /\ R' = R \ {t}
  <2>1. t \in R /\ R \subseteq Threads
    BY <1>1 DEF InState
  <2>2. R' = R \ {t}
    BY <1>1, Leaves
  <2> QED BY <2>1, <2>2
<1>3. \A u \in R' : current'[u] = current[u] /\ current[u] # current[t]
  BY <1>1, <1>2 DEF TypeOK, TasksConserved
<1>4. InHand = InHand' \cup {current[t]} /\ current[t] \notin InHand'
  BY <1>2, <1>3 DEF InHand
<1>5. InQueue' = InQueue
  BY <1>1 DEF InQueue
<1>6. \A u, v \in R' : u # v => current'[u] # current'[v]
  BY <1>2, <1>3 DEF TasksConserved
<1>7. submitted' = InQueue' \cup InHand' \cup done'
  BY <1>1, <1>4, <1>5 DEF TasksConserved
<1>8. InQueue' \cap InHand' = {} /\ (InQueue' \cup InHand') \cap done' = {}
  BY <1>1, <1>4, <1>5 DEF TasksConserved
<1> QED BY <1>1, <1>6, <1>7, <1>8 DEF TasksConserved

\* Every step keeps every task in one place.
LEMMA NextConserved == TypeOK /\ TasksConserved /\ [Next]_vars => TasksConserved'
<1> SUFFICES ASSUME TypeOK, TasksConserved, [Next]_vars
             PROVE  TasksConserved'
  OBVIOUS
<1>1. ASSUME NEW t \in Threads, Enter(t) \/ Rewake(t)
      PROVE  TasksConserved'
  BY <1>1, LoopConserved DEF Enter, Rewake
<1>2. ASSUME NEW t \in Threads, TaskReturns(t)
      PROVE  TasksConserved'
  BY <1>2, ReturnConserved
<1>3. ASSUME NEW t \in Threads, SpuriousWakeup(t)
      PROVE  TasksConserved'
  <2>1. InState("running")' = InState("running")
    BY <1>3 DEF SpuriousWakeup, InState, TypeOK
  <2>2. InHand' = InHand /\ InQueue' = InQueue
    BY <1>3, <2>1 DEF SpuriousWakeup, InHand, InQueue
  <2> QED BY <1>3, <2>1, <2>2 DEF SpuriousWakeup, TasksConserved
<1>4. ASSUME NEW t \in Threads, TaskSchedules(t)
      PROVE  TasksConserved'
  BY <1>4, ScheduleConserved DEF TaskSchedules
<1>5. CASE OwnerSchedules
  BY <1>5, ScheduleConserved DEF OwnerSchedules
<1>6. CASE WaitUntilIdle \/ WaitReturns \/ Joined \/ UNCHANGED vars
  BY <1>6 DEF WaitUntilIdle, WaitReturns, Joined, vars, TasksConserved, InQueue,
              InHand, InState
<1>7. CASE Destroy
  <2>1. InState("running")' = InState("running")
    BY <1>7 DEF Destroy, SignalAll, InState
  <2>2. InHand' = InHand /\ InQueue' = InQueue
    BY <1>7, <2>1 DEF Destroy, InHand, InQueue
  <2> QED BY <1>7, <2>1, <2>2 DEF Destroy, TasksConserved
<1> QED BY <1>1, <1>2, <1>3, <1>4, <1>5, <1>6, <1>7 DEF Next, ThreadStep, Terminated

\* No task is lost, duplicated or executed twice.
THEOREM TasksAreConserved == Spec => []TasksConserved
<1> QED BY InitTypeOK, NextTypeOK, InitConserved, NextConserved, PTL DEF Spec

-----------------------------------------------------------------------------
(* The owner that waits: what follows from WaitUntilIdle.                   *)

\* While the owner knows that the pool is idle, there is nothing in the queue
\* and no thread is counted; only the destructor lets the threads go, and no
\* RX_CHECK has failed.
Quiet ==
  /\ owner \in {"idle", "joining", "destroyed"} => IdleCondition
  /\ threads_should_join => owner \in {"joining", "destroyed"}
  /\ ~aborted

\* With active_count_ = 0, every thread is parked, woken or gone.
LEMMA NobodyBusy ==
  ASSUME ActiveCountExact, active_count = 0, NEW t \in Threads
  PROVE  pc[t] # "lock" /\ pc[t] # "running"
<1> DEFINE B == InState("lock") \cup InState("running")
<1>1. B \subseteq Threads
  BY DEF InState
<1>2. IsFiniteSet(B) /\ Cardinality(B) = 0
  BY <1>1, ThreadSetsFinite DEF ActiveCountExact
<1>3. B = {}
  BY <1>2, FS_EmptySet
<1> QED BY <1>3 DEF InState

\* Initially the owner has not waited.
LEMMA InitQuiet == Init => Quiet
BY DEF Init, Quiet

\* Every step preserves Quiet, if the owner destroys an idle pool only: a pool
\* that was idle has no thread that could schedule or take a task.
LEMMA NextQuiet ==
  ASSUME EagerDestroy = FALSE, Counts, Quiet, [Next]_vars
  PROVE  Quiet'
<1>1. ASSUME NEW t \in Threads, Enter(t)
      PROVE  Quiet'
  <2>1. pc[t] = "lock" /\ UNCHANGED <<threads_should_join, owner>>
    BY <1>1 DEF Enter
  <2>2. owner \notin {"idle", "joining", "destroyed"}
    BY <2>1, NobodyBusy DEF Quiet, Counts, IdleCondition
  <2>3. ~threads_should_join
    BY <2>2 DEF Quiet
  <2>4. ~aborted'
    BY <1>1, <2>3 DEF Enter, LoopTest, LoopTake, LoopWait, LoopExit, Quiet
  <2> QED BY <2>1, <2>2, <2>3, <2>4 DEF Quiet
<1>2. ASSUME NEW t \in Threads, Rewake(t)
      PROVE  Quiet'
  <2>1. UNCHANGED <<threads_should_join, owner>>
    BY <1>2 DEF Rewake
  <2>2. CASE owner \in {"idle", "joining", "destroyed"}
    <3>1. todo = <<>> /\ active_count = 0
      BY <2>2 DEF Quiet, IdleCondition
    <3>2. todo' = todo /\ active_count' = active_count /\ aborted' = aborted
      BY <1>2, <3>1 DEF Rewake, LoopTest, LoopTake, LoopWait, LoopExit
    <3> QED BY <2>1, <3>2 DEF Quiet, IdleCondition
  <2>3. CASE owner \notin {"idle", "joining", "destroyed"}
    <3>1. ~threads_should_join
      BY <2>3 DEF Quiet
    <3>2. ~aborted'
      BY <1>2, <3>1 DEF Rewake, LoopTest, LoopTake, LoopWait, LoopExit, Quiet
    <3> QED BY <2>1, <2>3, <3>1, <3>2 DEF Quiet
  <2> QED BY <2>2, <2>3
<1>3. ASSUME NEW t \in Threads, TaskReturns(t) \/ SpuriousWakeup(t)
      PROVE  Quiet'
  BY <1>3 DEF TaskReturns, SpuriousWakeup, Quiet, IdleCondition
<1>4. ASSUME NEW t \in Threads, TaskSchedules(t)
      PROVE  Quiet'
  <2>1. pc[t] = "running" /\ UNCHANGED <<threads_should_join, owner, aborted>>
    BY <1>4 DEF TaskSchedules, Schedule
  <2>2. owner \notin {"idle", "joining", "destroyed"}
    BY <2>1, NobodyBusy DEF Quiet, Counts, IdleCondition
  <2> QED BY <2>1, <2>2 DEF Quiet
<1>5. CASE OwnerSchedules
  <2>1. UNCHANGED <<threads_should_join, aborted>> /\ owner' = "using"
    BY <1>5 DEF OwnerSchedules, Schedule
  <2>2. ~threads_should_join
    BY <1>5 DEF OwnerSchedules, Quiet
  <2> QED BY <2>1, <2>2 DEF Quiet
<1>6. CASE WaitUntilIdle
  BY <1>6 DEF WaitUntilIdle, Quiet
<1>7. CASE WaitReturns
  BY <1>7 DEF WaitReturns, Quiet, IdleCondition
<1>8. CASE Destroy
  <2>1. owner = "idle"
    BY <1>8 DEF Destroy, MayDestroy
  <2> QED BY <1>8, <2>1 DEF Destroy, Quiet, IdleCondition
<1>9. CASE Joined
  BY <1>9 DEF Joined, Quiet, IdleCondition
<1>10. CASE UNCHANGED vars
  BY <1>10 DEF vars, Quiet, IdleCondition
<1> QED BY <1>1, <1>2, <1>3, <1>4, <1>5, <1>6, <1>7, <1>8, <1>9, <1>10
        DEF Next, ThreadStep, Terminated

\* In an idle pool every task that was scheduled is done: the queue is empty
\* and, as active_count_ is exact, no thread has a task in hand.
LEMMA QuietMeansDone ==
  Counts /\ TasksConserved /\ Quiet => IdleMeansDone
<1> SUFFICES ASSUME Counts, TasksConserved, Quiet,
                    owner \in {"idle", "joining", "destroyed"}
             PROVE  submitted = done
  BY DEF IdleMeansDone
<1>1. todo = <<>> /\ active_count = 0
  BY DEF Quiet, IdleCondition
<1>2. InHand = {}
  BY <1>1, NobodyBusy DEF Counts, InHand, InState
<1>3. InQueue = {}
  BY <1>1 DEF InQueue
<1> QED BY <1>2, <1>3 DEF TasksConserved

\* When WaitUntilIdle has returned, and through the destruction of the pool,
\* every task ever scheduled is done, also those scheduled by tasks.
THEOREM IdleIsDone ==
  ASSUME EagerDestroy = FALSE
  PROVE  Spec => []IdleMeansDone
<1>1. Counts /\ Quiet /\ [Next]_vars => Quiet'
  BY NextQuiet
<1> QED BY InitTypeOK, NextTypeOK, InitCounts, NextCounts, InitConserved,
           NextConserved, InitQuiet, <1>1, QuietMeansDone, PTL DEF Spec

\* No RX_CHECK of the pool fails when its owner destroys it after WaitUntilIdle.
THEOREM NeverAborts ==
  ASSUME EagerDestroy = FALSE
  PROVE  Spec => []NoAbort
<1>1. Counts /\ Quiet /\ [Next]_vars => Quiet'
  BY NextQuiet
<1>2. Quiet => NoAbort
  BY DEF Quiet, NoAbort
<1> QED BY InitTypeOK, NextTypeOK, InitCounts, NextCounts, InitQuiet, <1>1,
           <1>2, PTL DEF Spec

-----------------------------------------------------------------------------
(* The thread pool takes the steps of the abstract Scheduler only, if its     *)
(* owner destroys it after WaitUntilIdle. One lemma for each action: the step *)
(* that it is of the Scheduler, or that it shows nothing.                     *)

\* What was scheduled is pending, running or finished.
LEMMA FreshIsNew ==
  ASSUME TasksConserved
  PROVE  Abstract!Fresh = Tasks \ submitted
  BY DEF TasksConserved, Abstract!Fresh

\* Nothing changes that the Scheduler shows.
LEMMA ShowsNothing ==
  ASSUME InQueue' = InQueue, InHand' = InHand, done' = done, owner' = owner
  PROVE  UNCHANGED Abstract!vars
  BY DEF Abstract!vars

\* Schedule(k) adds k to the pending tasks and to nothing else.
LEMMA ScheduleShows ==
  ASSUME TypeOK, NEW k, Schedule(k)
  PROVE  /\ k \in Tasks \ submitted
         /\ InQueue' = InQueue \cup {k}
         /\ InHand' = InHand /\ done' = done
<1>1. /\ k \in Tasks \ submitted /\ todo' = Append(todo, k)
      /\ current' = current /\ done' = done
  BY DEF Schedule
<1>2. InState("running")' = InState("running")
  BY ScheduleTypeOK DEF InState
<1>3. InHand' = InHand
  BY <1>1, <1>2 DEF InHand
<1>4. todo \in Seq(Tasks)
  BY DEF TypeOK
<1>5. InQueue' = InQueue \cup {k}
  <2>1. todo' \in Seq(Tasks) /\ Len(todo') = Len(todo) + 1 /\ Len(todo) \in Nat
    BY <1>1, <1>4
  <2>2. /\ \A i \in 1 .. Len(todo) : todo'[i] = todo[i]
        /\ todo'[Len(todo) + 1] = k
    BY <1>1, <1>4
  <2>3. DOMAIN todo = 1 .. Len(todo) /\ DOMAIN todo' = 1 .. (Len(todo) + 1)
    BY <1>4, <2>1
  <2> QED
    BY <2>1, <2>2, <2>3 DEF InQueue
<1> QED
  BY <1>1, <1>3, <1>5

\* The owner schedules: Schedule of the abstract Scheduler.
LEMMA OwnerShows ==
  ASSUME TypeOK, TasksConserved, OwnerSchedules
  PROVE  Abstract!Next
<1>1. PICK k \in Tasks : Schedule(k)
  BY DEF OwnerSchedules
<1>2. owner \in {"using", "idle"} /\ owner' = "using"
  BY DEF OwnerSchedules
<1>3. Abstract!Schedule(k)
  BY <1>1, <1>2, ScheduleShows, FreshIsNew DEF Abstract!Schedule
<1> QED
  BY <1>3 DEF Abstract!Next

\* A running task schedules: Spawn.
LEMMA TaskShows ==
  ASSUME TypeOK, TasksConserved, NEW t \in Threads, TaskSchedules(t)
  PROVE  Abstract!Next
<1>1. PICK k \in Tasks : Schedule(k)
  BY DEF TaskSchedules
<1>2. pc[t] = "running" /\ owner' = owner
  BY DEF TaskSchedules
<1>3. InHand # {}
  BY <1>2 DEF InHand, InState
<1>4. Abstract!Spawn(k)
  BY <1>1, <1>2, <1>3, ScheduleShows, FreshIsNew DEF Abstract!Spawn
<1> QED
  BY <1>4 DEF Abstract!Next

\* The loop of PerThreadActivity: a task that is taken starts, whichever way the
\* thread came to the loop; to wait or to exit shows nothing.
LEMMA LoopShows ==
  ASSUME TypeOK, TasksConserved, NEW t \in Threads, NEW n, pc[t] # "running",
         LoopTest(t, n), UNCHANGED <<submitted, done, owner>>
  PROVE  Abstract!Next \/ UNCHANGED Abstract!vars
<1> DEFINE R == InState("running")
<1>1. t \notin R /\ R \subseteq Threads
  BY DEF InState
<1>2. CASE LoopTake(t, n)
  <2>1. /\ todo # <<>> /\ todo' = Tail(todo)
        /\ current' = [current EXCEPT ![t] = Head(todo)]
        /\ MovesTo(t, "running")
    BY <1>2 DEF LoopTake, TaskTaken, Popped, MovesTo
  <2>2. R' = R \cup {t}
    BY <2>1, Joins
  <2>3. current'[t] = Head(todo) /\ \A u \in R : current'[u] = current[u]
    BY <1>1, <2>1 DEF TypeOK
  <2>4. InHand' = InHand \cup {Head(todo)}
    BY <2>2, <2>3 DEF InHand
  <2>5. Elems(todo) = InQueue /\ Elems(todo') = InQueue' /\ Distinct(todo)
    BY DEF Elems, InQueue, TasksConserved, Distinct
  <2>6. InQueue = InQueue' \cup {Head(todo)} /\ Head(todo) \notin InQueue'
    BY <2>1, <2>5, TailElems DEF TypeOK
  <2>7. Head(todo) \in Tasks
    BY <2>1, HeadTailProperties DEF TypeOK
  <2>8. Abstract!Start(Head(todo))
    BY <2>4, <2>6 DEF Abstract!Start
  <2> QED
    BY <2>7, <2>8 DEF Abstract!Next
<1>3. CASE LoopWait(t, n) \/ LoopExit(t, n)
  <2>1. PICK s \in {"waiting", "exited"} : MovesTo(t, s)
    BY <1>3 DEF LoopWait, LoopExit, MovesTo
  <2>2. s # "running"
    BY <2>1
  <2>3. todo' = todo /\ current' = current
    BY <1>3 DEF LoopWait, LoopExit
  <2>4. R' = R
    BY <1>1, <2>1, <2>2, Stays
  <2>5. InHand' = InHand /\ InQueue' = InQueue
    BY <2>3, <2>4 DEF InHand, InQueue
  <2> QED
    BY <2>5, ShowsNothing
<1> QED
  BY <1>2, <1>3 DEF LoopTest

\* A task that returns is finished.
LEMMA ReturnShows ==
  ASSUME TypeOK, TasksConserved, NEW t \in Threads, TaskReturns(t)
  PROVE  Abstract!Next
<1> DEFINE R == InState("running")
<1>1. /\ pc[t] = "running" /\ MovesTo(t, "lock")
      /\ todo' = todo /\ current' = [current EXCEPT ![t] = NoTask]
      /\ done' = done \cup {current[t]} /\ owner' = owner
  BY DEF TaskReturns, MovesTo
<1>2. t \in R /\ R \subseteq Threads
  BY <1>1 DEF InState
<1>3. R' = R \ {t}
  BY <1>1, Leaves
<1>4. \A u \in R' : current'[u] = current[u] /\ current[u] # current[t]
  BY <1>1, <1>2, <1>3 DEF TypeOK, TasksConserved
<1>5. InHand = InHand' \cup {current[t]} /\ current[t] \notin InHand'
  BY <1>2, <1>3, <1>4 DEF InHand
<1>6. InQueue' = InQueue
  BY <1>1 DEF InQueue
<1>7. Abstract!Finish(current[t])
  BY <1>1, <1>5, <1>6 DEF Abstract!Finish
<1>8. current[t] \in Tasks
  BY <1>1 DEF TypeOK
<1> QED
  BY <1>7, <1>8 DEF Abstract!Next

\* A thread that wakes without a signal shows nothing.
LEMMA WakeupShows ==
  ASSUME TypeOK, NEW t \in Threads, SpuriousWakeup(t)
  PROVE  UNCHANGED Abstract!vars
<1>1. InState("running")' = InState("running")
  BY DEF SpuriousWakeup, InState, TypeOK
<1>2. InHand' = InHand /\ InQueue' = InQueue
  BY <1>1 DEF SpuriousWakeup, InHand, InQueue
<1> QED
  BY <1>2, ShowsNothing DEF SpuriousWakeup

\* The idle condition that lets WaitUntilIdle return says that no task is
\* pending or running, because active_count_ is exact.
LEMMA WaitShows ==
  ASSUME Counts, WaitUntilIdle \/ WaitReturns
  PROVE  Abstract!Next
<1>1. InQueue' = InQueue /\ InHand' = InHand /\ done' = done
  BY DEF WaitUntilIdle, WaitReturns, InQueue, InHand, InState
<1>2. CASE WaitUntilIdle
  <2>1. Abstract!Wait
    BY <1>1, <1>2 DEF WaitUntilIdle, Abstract!Wait
  <2> QED
    BY <2>1 DEF Abstract!Next
<1>3. CASE WaitReturns
  <2>1. owner = "waiting" /\ owner' = "idle" /\ todo = <<>> /\ active_count = 0
    BY <1>3 DEF WaitReturns, IdleCondition
  <2>2. InHand = {}
    BY <2>1, NobodyBusy DEF Counts, InHand, InState
  <2>3. InQueue = {}
    BY <2>1 DEF InQueue
  <2>4. Abstract!WaitReturns
    BY <1>1, <2>1, <2>2, <2>3 DEF Abstract!WaitReturns
  <2> QED
    BY <2>4 DEF Abstract!Next
<1> QED
  BY <1>2, <1>3

\* Destruction shows nothing: the pool was idle before.
LEMMA DestroyShows ==
  ASSUME EagerDestroy = FALSE, Destroy \/ Joined
  PROVE  UNCHANGED Abstract!vars
<1>1. owner \in {"idle", "joining"} /\ owner' \in {"joining", "destroyed"}
  BY DEF Destroy, MayDestroy, Joined
<1>2. InState("running")' = InState("running")
  BY DEF Destroy, Joined, SignalAll, InState
<1>3. InQueue' = InQueue /\ InHand' = InHand /\ done' = done
  BY <1>2 DEF Destroy, Joined, InQueue, InHand
<1> QED
  BY <1>1, <1>3 DEF Abstract!vars

\* The thread pool implements the safety part of the abstract Scheduler: a task
\* is started once and only if it was scheduled, and WaitUntilIdle returns only
\* when no task is pending or running.
THEOREM PoolImplementsScheduler ==
  ASSUME EagerDestroy = FALSE
  PROVE  Spec => Abstract!SafeSpec
<1>1. Init => Abstract!Init
  <2> SUFFICES ASSUME Init PROVE Abstract!Init
    OBVIOUS
  <2>1. InQueue = {} /\ InHand = {} /\ done = {} /\ owner = "using"
    BY DEF Init, InQueue, InHand, InState
  <2> QED
    BY <2>1 DEF Abstract!Init
<1>2. TypeOK /\ Counts /\ TasksConserved /\ [Next]_vars
        => [Abstract!Next]_(Abstract!vars)
  <2> SUFFICES ASSUME TypeOK, Counts, TasksConserved, [Next]_vars
               PROVE  Abstract!Next \/ UNCHANGED Abstract!vars
    OBVIOUS
  <2>1. ASSUME NEW t \in Threads, Enter(t) \/ Rewake(t)
        PROVE  Abstract!Next \/ UNCHANGED Abstract!vars
    BY <2>1, LoopShows DEF Enter, Rewake
  <2>2. ASSUME NEW t \in Threads, TaskReturns(t)
        PROVE  Abstract!Next
    BY <2>2, ReturnShows
  <2>3. ASSUME NEW t \in Threads, SpuriousWakeup(t)
        PROVE  UNCHANGED Abstract!vars
    BY <2>3, WakeupShows
  <2>4. ASSUME NEW t \in Threads, TaskSchedules(t)
        PROVE  Abstract!Next
    BY <2>4, TaskShows
  <2>5. CASE OwnerSchedules
    BY <2>5, OwnerShows
  <2>6. CASE WaitUntilIdle \/ WaitReturns
    BY <2>6, WaitShows
  <2>7. CASE Destroy \/ Joined
    BY <2>7, DestroyShows
  <2>8. CASE UNCHANGED vars
    <3>1. InQueue' = InQueue /\ InHand' = InHand /\ done' = done /\ owner' = owner
      BY <2>8 DEF vars, InQueue, InHand, InState
    <3> QED
      BY <3>1, ShowsNothing
  <2> QED
    BY <2>1, <2>2, <2>3, <2>4, <2>5, <2>6, <2>7, <2>8
       DEF Next, ThreadStep, Terminated
<1> QED
  BY InitTypeOK, NextTypeOK, InitCounts, NextCounts, InitConserved,
     NextConserved, <1>1, <1>2, PTL DEF Spec, Abstract!SafeSpec
=============================================================================
