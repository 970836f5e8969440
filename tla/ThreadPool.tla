----------------------------- MODULE ThreadPool -----------------------------
(***************************************************************************)
(* class ThreadPoolScheduler of base/scheduler.cc: a fixed set of threads   *)
(* that take tasks from the queue todo_, one mutex (busy_), one condition   *)
(* variable (work_available_cond_var_), and the count active_count_ that    *)
(* decides when the pool is idle.                                           *)
(*                                                                          *)
(* Each critical section of busy_ is one action: a thread holds the mutex   *)
(* from the acquisition to the release, or to the Wait that releases it.    *)
(* pc[t] says where thread t is between two critical sections:              *)
(*   "lock"     about to lock busy_ at the top of the loop (line 147)       *)
(*   "waiting"  inside work_available_cond_var_.Wait (line 153)             *)
(*   "woken"    signalled, about to re-acquire busy_ inside Wait            *)
(*   "running"  outside the lock, executing task() (line 163)               *)
(*   "exited"   returned from PerThreadActivity                             *)
(* One external thread, the owner, schedules tasks, waits and destroys.     *)
(***************************************************************************)
EXTENDS Integers, Sequences, FiniteSets

CONSTANTS Threads,      \* the threads of the pool
          Tasks,        \* task closures, each scheduled at most once
          Needs,        \* Needs[k]: tasks that must be done before k can
                        \* return (a task may block on another one)
          NoTask,       \* not a task
          EagerDestroy  \* whether the owner may destroy the pool as soon as
                        \* all task functions returned, without WaitUntilIdle

Blocking == {k \in Tasks : Needs[k] # {}}

\* RX_CHECK(thread_count > 0), line 100.
ASSUME ThreadsAssumption == IsFiniteSet(Threads) /\ Threads # {}

\* Tasks that block need tasks that do not, and cannot hold every thread:
\* otherwise the program deadlocks by its own doing.
ASSUME TasksAssumption == /\ Needs \in [Tasks -> SUBSET Tasks]
                          /\ NoTask \notin Tasks
                          /\ EagerDestroy \in BOOLEAN

ASSUME BlockingAssumption ==
  /\ \A k \in Tasks : Needs[k] \cap Blocking = {}
  /\ Cardinality(Blocking) < Cardinality(Threads)

VARIABLES todo,                 \* todo_
          active_count,         \* active_count_
          threads_should_join,  \* threads_should_join_
          pc,                   \* see above
          current,              \* the local variable task of each thread
          submitted,            \* tasks passed to Schedule so far
          done,                 \* tasks whose function returned
          owner,                \* state of the owner
          aborted               \* an RX_CHECK failed

vars == <<todo, active_count, threads_should_join, pc, current, submitted,
          done, owner, aborted>>

InState(s) == {t \in Threads : pc[t] = s}

Waiting == InState("waiting")
Woken   == InState("woken")

\* Mutant: the pool counts as idle when its queue is empty.
QueueEmpty == todo = <<>>

\* IdleCondition, lines 137-140.
IdleCondition == todo = <<>> /\ active_count = 0

Init == /\ todo = <<>>
        /\ active_count = Cardinality(Threads)
        /\ threads_should_join = FALSE
        /\ pc = [t \in Threads |-> "lock"]
        /\ current = [t \in Threads |-> NoTask]
        /\ submitted = {}
        /\ done = {}
        /\ owner = "using"
        /\ aborted = FALSE

-----------------------------------------------------------------------------
(* Schedule, lines 125-130: called by the owner or by a running task.       *)

\* Mutant: Schedule forgets to signal.
NoSignal == UNCHANGED pc

\* CondVar::Signal wakes one waiter, if there is one.
Signal == IF Waiting = {}
            THEN UNCHANGED pc
            ELSE \E t \in Waiting : pc' = [pc EXCEPT ![t] = "woken"]

\* Mutant: the destructor signals one thread.
SignalOne == Signal

\* CondVar::SignalAll.
SignalAll == pc' = [t \in Threads |-> IF pc[t] = "waiting" THEN "woken"
                                                           ELSE pc[t]]

Schedule(k) == /\ k \in Tasks \ submitted
               /\ submitted' = submitted \cup {k}
               /\ todo' = Append(todo, k)
               /\ Signal
               /\ UNCHANGED <<active_count, threads_should_join, current, done,
                              aborted>>

OwnerSchedules == /\ owner \in {"using", "idle"}
                  /\ owner' = "using"
                  /\ \E k \in Tasks : Schedule(k)

TaskSchedules(t) == /\ pc[t] = "running"
                    /\ \E k \in Tasks \ Blocking : Schedule(k)
                    /\ UNCHANGED owner

-----------------------------------------------------------------------------
(* PerThreadActivity, lines 142-165. Both ways into the loop test, from the  *)
(* top of the loop and out of Wait, continue with one of LoopTake, LoopWait  *)
(* and LoopExit; n is the value of active_count_ at that point.              *)

\* The task that is moved out of the queue, line 158.
TaskTaken == Head(todo)

\* todo_.pop(), line 159; mutant: it is missing.
NotPopped == todo
Popped == Tail(todo)

\* ++active_count_, line 160; mutant: it is missing.
NotCounted(n) == n
Counted(n) == n + 1

LoopTake(t, n) ==
  /\ todo # <<>>
  /\ aborted' = threads_should_join              \* RX_CHECK, line 157
  /\ current' = [current EXCEPT ![t] = TaskTaken]
  /\ todo' = Popped
  /\ active_count' = Counted(n)
  /\ pc' = [pc EXCEPT ![t] = "running"]

LoopWait(t, n) ==
  /\ todo = <<>>
  /\ ~threads_should_join
  /\ active_count' = n
  /\ pc' = [pc EXCEPT ![t] = "waiting"]
  /\ UNCHANGED <<todo, current, aborted>>

LoopExit(t, n) ==
  /\ todo = <<>>
  /\ threads_should_join
  /\ active_count' = n
  /\ pc' = [pc EXCEPT ![t] = "exited"]
  /\ UNCHANGED <<todo, current, aborted>>

LoopTest(t, n) == LoopTake(t, n) \/ LoopWait(t, n) \/ LoopExit(t, n)

\* The top of the loop: --active_count_ comes first.
Enter(t) == /\ pc[t] = "lock"
            /\ LoopTest(t, active_count - 1)
            /\ UNCHANGED <<threads_should_join, submitted, done, owner>>

\* Wait returns with busy_ held.
Rewake(t) == /\ pc[t] = "woken"
             /\ LoopTest(t, active_count)
             /\ UNCHANGED <<threads_should_join, submitted, done, owner>>

\* CondVar::Wait may return without a signal.
SpuriousWakeup(t) == /\ pc[t] = "waiting"
                     /\ pc' = [pc EXCEPT ![t] = "woken"]
                     /\ UNCHANGED <<todo, active_count, threads_should_join,
                                    current, submitted, done, owner, aborted>>

\* task() returns, outside the lock; the next step is Enter.
TaskReturns(t) == /\ pc[t] = "running"
                  /\ Needs[current[t]] \subseteq done
                  /\ done' = done \cup {current[t]}
                  /\ current' = [current EXCEPT ![t] = NoTask]
                  /\ pc' = [pc EXCEPT ![t] = "lock"]
                  /\ UNCHANGED <<todo, active_count, threads_should_join,
                                 submitted, owner, aborted>>

-----------------------------------------------------------------------------
(* The owner: WaitUntilIdle (lines 132-135) and the destructor (108-123).    *)

\* The owner waits only for work that can end.
WaitUntilIdle == /\ owner = "using"
                 /\ \A k \in submitted : Needs[k] \subseteq submitted
                 /\ owner' = "waiting"
                 /\ UNCHANGED <<todo, active_count, threads_should_join, pc,
                                current, submitted, done, aborted>>

\* LockWhen(idle_condition_) succeeds, then Unlock.
WaitReturns == /\ owner = "waiting"
               /\ IdleCondition
               /\ owner' = "idle"
               /\ UNCHANGED <<todo, active_count, threads_should_join, pc,
                              current, submitted, done, aborted>>

\* The pool is destroyed when it has no active or pending work: known from
\* WaitUntilIdle or, with EagerDestroy, from the tasks themselves.
MayDestroy == \/ owner = "idle"
              \/ EagerDestroy /\ owner = "using" /\ submitted = done

Destroy == /\ MayDestroy
           /\ aborted' = ~IdleCondition           \* RX_CHECK, line 111
           /\ threads_should_join' = TRUE
           /\ SignalAll
           /\ owner' = "joining"
           /\ UNCHANGED <<todo, active_count, current, submitted, done>>

\* Every thread.join() returned, lines 118-122.
Joined == /\ owner = "joining"
          /\ \A t \in Threads : pc[t] = "exited"
          /\ owner' = "destroyed"
          /\ UNCHANGED <<todo, active_count, threads_should_join, pc, current,
                         submitted, done, aborted>>

\* The pool is gone: nothing is left to happen.
Terminated == owner = "destroyed" /\ UNCHANGED vars

ThreadStep(t) == Enter(t) \/ Rewake(t) \/ TaskReturns(t)

Next == \/ /\ ~aborted
           /\ \/ \E t \in Threads : \/ ThreadStep(t)
                                    \/ SpuriousWakeup(t)
                                    \/ TaskSchedules(t)
              \/ OwnerSchedules
              \/ WaitUntilIdle
              \/ WaitReturns
              \/ Destroy
              \/ Joined
        \/ Terminated

\* Threads that can run do run (the mutex does not starve a thread), tasks
\* return when what they block on is done, a true LockWhen condition is
\* noticed and join() returns. The owner schedules, waits and destroys at will.
Fairness == /\ \A t \in Threads : WF_vars(~aborted /\ ThreadStep(t))
            /\ WF_vars(~aborted /\ (WaitReturns \/ Joined))

Spec == Init /\ [][Next]_vars /\ Fairness

-----------------------------------------------------------------------------
(* Properties.                                                               *)

InQueue == {todo[i] : i \in DOMAIN todo}
InHand  == {current[t] : t \in InState("running")}

\* Types of the variables of ThreadPoolScheduler and of its threads.
TypeOK ==
  /\ todo \in Seq(Tasks)
  /\ active_count \in Int
  /\ threads_should_join \in BOOLEAN
  /\ pc \in [Threads -> {"lock", "waiting", "woken", "running", "exited"}]
  /\ current \in [Threads -> Tasks \cup {NoTask}]
  /\ \A t \in Threads : pc[t] = "running" => current[t] \in Tasks
  /\ submitted \subseteq Tasks
  /\ done \subseteq Tasks
  /\ owner \in {"using", "waiting", "idle", "joining", "destroyed"}
  /\ aborted \in BOOLEAN

\* active_count_ counts the threads that have not yet parked: those that
\* execute a task and those that come back to the loop (lines 103, 148, 160).
ActiveCountExact ==
  active_count = Cardinality(InState("lock") \cup InState("running"))

\* No lost wakeup: with one Signal per Schedule, whenever a thread sleeps in
\* Wait there are at least as many woken threads on their way as queued tasks.
NoStrandedTask == Waiting # {} => Len(todo) <= Cardinality(Woken)

\* Every scheduled task is in the queue, in the hand of one thread, or done;
\* it is never lost, duplicated or executed again.
TasksConserved ==
  /\ submitted = InQueue \cup InHand \cup done
  /\ InQueue \cap InHand = {}
  /\ (InQueue \cup InHand) \cap done = {}
  /\ \A i, j \in DOMAIN todo : i # j => todo[i] # todo[j]
  /\ \A t, u \in InState("running") : t # u => current[t] # current[u]

\* "In this state, the thread pool will not restart working" (scheduler.h:95):
\* after WaitUntilIdle returned, and through destruction, everything that was
\* ever scheduled is done, the tasks that tasks scheduled included.
IdleMeansDone == owner \in {"idle", "joining", "destroyed"} => submitted = done

\* Neither the check of the destructor (line 111) nor the "destructor
\* invariant" of the threads (line 157) fails.
NoAbort == ~aborted

\* Every task that does not wait for another one is executed, even while
\* other tasks block their threads (test ThreadsAreUtilized).
NonblockingTaskRuns ==
  \A k \in Tasks \ Blocking : k \in submitted ~> k \in done

\* The owner never hangs: WaitUntilIdle returns (line 133), and so does the
\* destructor, with its join() of every thread (line 121).
WaitsEnd == /\ owner = "waiting" ~> owner = "idle"
            /\ owner = "joining" ~> owner = "destroyed"

\* The pool implements the abstract scheduler.
Abstract == INSTANCE Scheduler WITH
  pending  <- InQueue,
  running  <- InHand,
  finished <- done,
  caller   <- IF owner \in {"using", "waiting"} THEN owner ELSE "idle"

ImplementsScheduler == Abstract!Spec

==============================================================================
