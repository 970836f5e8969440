------------------------------ MODULE Activity ------------------------------
(***************************************************************************)
(* class Activity of example/examples.cc over the threads of a pool: an       *)
(* activity is a worker that wraps another one, its base worker, and knows    *)
(* which activity is running on the thread, by a thread_local. Activities are *)
(* shared objects (SharedObjectImpl of reactive/object.h): the closures that  *)
(* wait or run keep them alive, and the last one to go destroys the activity  *)
(* and its base worker from a task of that worker.                            *)
(*                                                                            *)
(* Base workers are the abstract SerialExecutor, which Worker implements.     *)
(*                                                                            *)
(* stage of the closure that a thread runs:                                   *)
(*   "enter"    about to set current_        (line 480)                       *)
(*   "body"     in the task                  (line 482)                       *)
(*   "leave"    about to reset current_      (line 483)                       *)
(*   "check"    back in the base worker, its marker is checked next           *)
(*              (base/scheduler.cc:78)                                        *)
(*   "destroy"  the base worker has gone on, the closure is destroyed next    *)
(***************************************************************************)
EXTENDS Sequences, FiniteSets, Naturals

CONSTANTS Activities, Threads, NoActivity,
          MaxTasks  \* tasks scheduled in all

ASSUME ActivityAssumption == NoActivity \notin Activities /\ MaxTasks \in Nat

VARIABLES life,     \* life[a]: "new", "alive" or "destroyed"
          handles,  \* activities the main program has a pointer to
          locals,   \* locals[t]: activities the task on t has a pointer to
          queue, busy,  \* of the base workers
          stage,    \* stage[t]: of the closure on t, or "idle"
          task,     \* task[t]: the task of that closure
          current,  \* current[t]: current_ of thread t
          tasks,    \* number of tasks scheduled so far
          fault     \* a check failed

vars == <<life, handles, locals, queue, busy, stage, task, current, tasks, fault>>

\* A task runs on an activity and may know another one, the caller.
Tasks  == [on : Activities, caller : Activities \cup {NoActivity}]
NoTask == [on |-> NoActivity, caller |-> NoActivity]

BaseWorker == INSTANCE SerialExecutor WITH Workers <- Activities

Init == /\ life = [a \in Activities |-> "new"]
        /\ handles = {}
        /\ locals = [t \in Threads |-> {}]
        /\ BaseWorker!Init
        /\ stage = [t \in Threads |-> "idle"]
        /\ task = [t \in Threads |-> NoTask]
        /\ current = [t \in Threads |-> NoActivity]
        /\ tasks = 0
        /\ fault = FALSE

-----------------------------------------------------------------------------
(* Shared ownership.                                                         *)

\* Mutant: the closure captures this instead of self().
CapturesThis(k) == {k.caller}

\* What a closure holds: self, and what its task has captured, line 479.
Captures(k) == {k.on, k.caller}

\* The pointers to activity a.
Referenced(a) ==
  \/ a \in handles
  \/ \E t \in Threads : a \in locals[t] \/ current[t] = a \/ a \in Captures(task[t])
  \/ \E b \in Activities : \E i \in DOMAIN queue[b] : a \in Captures(queue[b][i])

\* An activity without pointers is destroyed; those in made are created.
Collect(made) ==
  life' = [a \in Activities |->
             CASE a \in made                           -> "alive"
               [] life[a] = "alive" /\ ~Referenced(a)' -> "destroyed"
               [] OTHER                                -> life[a]]

\* self(), object.h:159-162: the weak pointer has not expired.
HasSelf(a) == life[a] = "alive"

\* Schedule, lines 476-485: a task that knows caller.
Schedule(a, caller) ==
  /\ tasks < MaxTasks
  /\ tasks' = tasks + 1
  /\ fault' = ~HasSelf(a)
  /\ BaseWorker!Submit(a, [on |-> a, caller |-> caller])

-----------------------------------------------------------------------------
(* The main program.                                                         *)

\* SharedObjectImpl::Create, object.h:145-150.
Create(a) == /\ life[a] = "new"
             /\ handles' = handles \cup {a}
             /\ UNCHANGED <<locals, queue, busy, stage, task, current, tasks, fault>>
             /\ Collect({a})

MainSchedules(a) == /\ a \in handles
                    /\ Schedule(a, NoActivity)
                    /\ UNCHANGED <<handles, locals, stage, task, current>>
                    /\ Collect({})

\* The pointer goes out of scope.
Drop(a) == /\ a \in handles
           /\ handles' = handles \ {a}
           /\ UNCHANGED <<locals, queue, busy, stage, task, current, tasks, fault>>
           /\ Collect({})

-----------------------------------------------------------------------------
(* A thread.                                                                 *)

At(t, place) == stage[t] = place
Goto(t, place) == stage' = [stage EXCEPT ![t] = place]

\* The thread begins the next task of the base worker of a.
Begin(t, a) == /\ At(t, "idle")
               /\ BaseWorker!Begin(a)
               /\ task' = [task EXCEPT ![t] = busy'[a]]
               /\ Goto(t, "enter")
               /\ UNCHANGED <<handles, locals, current, tasks, fault>>
               /\ Collect({})

\* Lines 480-481: no activity is current on this thread, now this one is.
Enter(t) == /\ At(t, "enter")
            /\ fault' = (current[t] # NoActivity)
            /\ current' = [current EXCEPT ![t] = task[t].on]
            /\ Goto(t, "body")
            /\ UNCHANGED <<handles, locals, queue, busy, task, tasks>>
            /\ Collect({})

\* The task creates an activity, line 548.
BodyCreates(t, a) == /\ At(t, "body")
                     /\ life[a] = "new"
                     /\ locals' = [locals EXCEPT ![t] = @ \cup {a}]
                     /\ UNCHANGED <<handles, queue, busy, stage, task, current,
                                    tasks, fault>>
                     /\ Collect({a})

\* Provide on an activity a that the task knows, or streams on its own, lines
\* 496-515, and the stream between the two: tasks that know the current activity.
BodyProvides(t, a) == /\ At(t, "body")
                      /\ a \in locals[t] \cup {task[t].caller, current[t]}
                      /\ a # NoActivity
                      /\ current[t] # NoActivity
                      /\ Schedule(a, current[t])
                      /\ UNCHANGED <<handles, locals, stage, task, current>>
                      /\ Collect({})

BodyReturns(t) == /\ At(t, "body")
                  /\ locals' = [locals EXCEPT ![t] = {}]
                  /\ Goto(t, "leave")
                  /\ UNCHANGED <<handles, queue, busy, task, current, tasks, fault>>
                  /\ Collect({})

\* Mutant: current_ is not reset.
StaysCurrent(t) == current[t]

\* Line 483.
AfterReset(t) == NoActivity

Leave(t) == /\ At(t, "leave")
            /\ current' = [current EXCEPT ![t] = AfterReset(t)]
            /\ Goto(t, "check")
            /\ UNCHANGED <<handles, locals, queue, busy, task, tasks, fault>>
            /\ Collect({})

\* The base worker checks that it exists and turns to its next task,
\* base/scheduler.cc:78-84.
Check(t) == /\ At(t, "check")
            /\ fault' = (life[task[t].on] # "alive")
            /\ BaseWorker!End(task[t].on)
            /\ Goto(t, "destroy")
            /\ UNCHANGED <<handles, locals, task, current, tasks>>
            /\ Collect({})

\* The closure goes out of scope, base/scheduler.cc:163-164.
Destroy(t) == /\ At(t, "destroy")
              /\ task' = [task EXCEPT ![t] = NoTask]
              /\ Goto(t, "idle")
              /\ UNCHANGED <<handles, locals, queue, busy, current, tasks, fault>>
              /\ Collect({})

ThreadStep(t) == \/ Enter(t) \/ BodyReturns(t) \/ Leave(t) \/ Check(t) \/ Destroy(t)
                 \/ \E a \in Activities :
                      Begin(t, a) \/ BodyCreates(t, a) \/ BodyProvides(t, a)

-----------------------------------------------------------------------------

Idle == /\ \A t \in Threads : At(t, "idle")
        /\ \A a \in Activities : queue[a] = <<>>

\* A failed check ended the program, or the main program has nothing left to do.
Terminated == (fault \/ Idle) /\ UNCHANGED vars

Next == \/ /\ ~fault
           /\ \/ \E a \in Activities : Create(a) \/ MainSchedules(a) \/ Drop(a)
              \/ \E t \in Threads : ThreadStep(t)
        \/ Terminated

Spec == Init /\ [][Next]_vars

-----------------------------------------------------------------------------
(* Properties.                                                               *)

\* No check fails: no thread begins a task with the activity of another one still
\* current, self() is not called on an activity that is gone, and no base worker
\* is destroyed before its tasks are finished (base/scheduler.h:44), although
\* activities are destroyed by their own tasks.
NoFault == ~fault

\* "lock-free" (examples.cc:446): current_ of a thread is the activity whose task
\* it runs, and no activity runs on two threads.
OneThreadEach == \A t, u \in Threads : current[t] # NoActivity =>
  /\ stage[t] \in {"body", "leave"} /\ current[t] = task[t].on
  /\ current[u] = current[t] => u = t

\* Activities, their base workers and the closures in them own one another: when
\* nothing runs and the main program has no pointer left, all of them are gone.
NothingLeaks == (Idle /\ handles = {}) => \A a \in Activities : life[a] # "alive"

=============================================================================
