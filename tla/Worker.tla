------------------------------- MODULE Worker -------------------------------
(***************************************************************************)
(* class WorkerImpl of base/scheduler.cc: any number of workers on one       *)
(* scheduler. A worker keeps its tasks in steps_ and has at most one closure *)
(* with the scheduler: the closure runs the task, checks that the worker     *)
(* still exists, and locks busy_ again to submit the next one.               *)
(*                                                                           *)
(* The scheduler is what module Scheduler specifies: it starts every closure *)
(* it was given, in any order and any number at once.                        *)
(*                                                                           *)
(* stage of a closure (lines 72-85):                                         *)
(*   "pending"  with the scheduler                                           *)
(*   "body"     in the wrapped task                                          *)
(*   "check"    the task returned, the RX_CHECK of marker is next            *)
(*   "relock"   past the check, about to lock busy_                          *)
(* MaybeRunNext calls the scheduler with busy_ held, and the scheduler does  *)
(* not call back: the nested critical section is one step.                   *)
(***************************************************************************)
EXTENDS Sequences, FiniteSets

CONSTANTS Workers,
          Tasks,        \* each is scheduled at most once, on one worker
          NoTask

ASSUME WorkerAssumption == NoTask \notin Tasks

VARIABLES steps,     \* steps[w]: steps_
          running,   \* running[w]: running_
          marker,    \* marker[w]: the shared marker, false once w is destroyed
          closures,  \* closures the scheduler has or runs
          scheduled, \* scheduled[w]: the tasks passed to Schedule, in order
          started,   \* started[w]: the tasks begun, in order
          returned,  \* tasks whose function returned
          fault      \* "none", "abort" (line 78 failed) or "stale" (the
                     \* closure locks the mutex of a destroyed worker, 81)

vars == <<steps, running, marker, closures, scheduled, started, returned,
          fault>>

Stages  == {"pending", "body", "check", "relock"}
Closure == [worker : Workers, task : Tasks, stage : Stages]

Of(w)        == {c \in closures : c.worker = w}
In(w, stage) == {c \in Of(w) : c.stage = stage}

Elements(s) == {s[i] : i \in DOMAIN s}

Init == /\ steps = [w \in Workers |-> <<>>]
        /\ running = [w \in Workers |-> FALSE]
        /\ marker = [w \in Workers |-> TRUE]
        /\ closures = {}
        /\ scheduled = [w \in Workers |-> <<>>]
        /\ started = [w \in Workers |-> <<>>]
        /\ returned = {}
        /\ fault = "none"

\* Line 63: a closure is with the scheduler, or there is nothing to run.
\* Mutant: running_ is not asked.
NothingQueued(q, r) == q = <<>>
NothingToStart(q, r) == r \/ q = <<>>

\* MaybeRunNext, lines 62-86, called with queue q and running_ = r, in a step
\* where the scheduler keeps the closures in cs.
MaybeRunNext(w, q, r, cs) ==
  IF NothingToStart(q, r)
    THEN /\ steps' = [steps EXCEPT ![w] = q]
         /\ running' = [running EXCEPT ![w] = r]
         /\ closures' = cs
    ELSE /\ steps' = [steps EXCEPT ![w] = Tail(q)]
         /\ running' = [running EXCEPT ![w] = TRUE]
         /\ closures' = cs \cup {[worker |-> w, task |-> Head(q),
                                  stage |-> "pending"]}

Unscheduled == {k \in Tasks : \A w \in Workers : k \notin Elements(scheduled[w])}

\* steps_.emplace_back, line 57. Mutant: the task is put first.
PushedFront(q, k) == <<k>> \o q
PushedBack(q, k) == Append(q, k)

\* Schedule, lines 55-59: from any thread, a task of any worker included.
Schedule(w, k) ==
  /\ marker[w]
  /\ k \in Unscheduled
  /\ scheduled' = [scheduled EXCEPT ![w] = Append(@, k)]
  /\ MaybeRunNext(w, PushedBack(steps[w], k), running[w], closures)
  /\ UNCHANGED <<marker, started, returned, fault>>

MoveTo(c, stage) == closures' = (closures \ {c}) \cup {[c EXCEPT !.stage = stage]}

\* A thread of the scheduler starts the closure: the wrapped task, line 75.
Begin(c) == /\ c.stage = "pending"
            /\ MoveTo(c, "body")
            /\ started' = [started EXCEPT ![c.worker] = Append(@, c.task)]
            /\ UNCHANGED <<steps, running, marker, scheduled, returned, fault>>

\* The task function returns.
Return(c) == /\ c.stage = "body"
             /\ MoveTo(c, "check")
             /\ returned' = returned \cup {c.task}
             /\ UNCHANGED <<steps, running, marker, scheduled, started, fault>>

\* the RX_CHECK of marker, line 78.
CheckMarker(c) == /\ c.stage = "check"
                  /\ MoveTo(c, "relock")
                  /\ fault' = IF marker[c.worker] THEN "none" ELSE "abort"
                  /\ UNCHANGED <<steps, running, marker, scheduled, started,
                                 returned>>

\* Mutant: the closure ends without MaybeRunNext.
RunNextForgotten(c) == /\ c.stage = "relock"
                       /\ running' = [running EXCEPT ![c.worker] = FALSE]
                       /\ closures' = closures \ {c}
                       /\ UNCHANGED <<steps, marker, scheduled, started, returned,
                                      fault>>

\* running_ = false; MaybeRunNext(); the closure ends. Lines 79-84.
RunNext(c) == /\ c.stage = "relock"
              /\ MaybeRunNext(c.worker, steps[c.worker], FALSE, closures \ {c})
              /\ fault' = IF marker[c.worker] THEN "none" ELSE "stale"
              /\ UNCHANGED <<marker, scheduled, started, returned>>

\* When the user destroys worker w: the rule of scheduler.h, lines 43-44, "must
\* not be destructed before all its tasks are finished". That the functions of
\* the tasks returned is all the user can know of one worker, from what the tasks
\* do; the closure of the last one may have lines 78-84 before it.
MayDestroy(w) == Elements(scheduled[w]) \subseteq returned

\* ~WorkerImpl, and ~LifetimeTracker, line 41.
Destroy(w) == /\ marker[w]
              /\ MayDestroy(w)
              /\ marker' = [marker EXCEPT ![w] = FALSE]
              /\ UNCHANGED <<steps, running, closures, scheduled, started,
                             returned, fault>>

ClosureStep(c) == Begin(c) \/ Return(c) \/ CheckMarker(c) \/ RunNext(c)

\* All is done, or the program aborted or runs on with a destroyed mutex.
Terminated == /\ \/ fault # "none"
                 \/ closures = {} /\ \A w \in Workers : ~marker[w]
              /\ UNCHANGED vars

Next == \/ /\ fault = "none"
           /\ \/ \E w \in Workers, k \in Tasks : Schedule(w, k)
              \/ \E c \in closures : ClosureStep(c)
              \/ \E w \in Workers : Destroy(w)
        \/ Terminated

\* The step of the closure of worker w that runs task k, if there is one.
Progress(w, k) == /\ fault = "none"
                  /\ \E c \in closures : /\ c.worker = w
                                         /\ c.task = k
                                         /\ ClosureStep(c)

\* The scheduler starts every closure (Scheduler!Fairness), threads run, and
\* tasks return. The user may schedule and destroy or not.
Fairness == \A w \in Workers, k \in Tasks : WF_vars(Progress(w, k))

Spec == Init /\ [][Next]_vars /\ Fairness

-----------------------------------------------------------------------------
(* Properties.                                                               *)

\* Types of the variables of WorkerImpl and of its closures.
TypeOK == /\ steps \in [Workers -> Seq(Tasks)]
          /\ running \in [Workers -> BOOLEAN]
          /\ marker \in [Workers -> BOOLEAN]
          /\ closures \subseteq Closure
          /\ scheduled \in [Workers -> Seq(Tasks)]
          /\ started \in [Workers -> Seq(Tasks)]
          /\ returned \subseteq Tasks
          /\ fault \in {"none", "abort", "stale"}

\* The task of worker w that is with the scheduler, not begun, as a sequence.
PendingTask(w) ==
  IF In(w, "pending") = {}
    THEN <<>>
    ELSE <<(CHOOSE c \in In(w, "pending") : TRUE).task>>

\* When the scheduler is idle, its workers have nothing left, so WaitUntilIdle
\* waits for the tasks of workers, too: a worker with tasks in steps_ has one
\* closure, which will come back for them, even if Schedule races with the end of
\* a task.
IdleMeansDrained ==
  /\ \A w \in Workers : /\ running[w] <=> Of(w) # {}
                        /\ \A c, d \in Of(w) : c = d
                        /\ steps[w] # <<>> => running[w]
  /\ closures = {} => \A w \in Workers : Elements(scheduled[w]) \subseteq returned

\* A worker destroyed by the rule of scheduler.h, lines 43-44, leaves at most the
\* rest of one closure behind, lines 78-84, with nothing more to run: steps_ is
\* empty and no task of it waits or runs. That rest fails the RX_CHECK of line 78,
\* "Worker destroyed before all tasks finished", or locks the mutex of the
\* destroyed worker, line 81; whenever either happens, all of the worker's tasks
\* had finished.
OnlyTheRestIsLate ==
  /\ \A w \in Workers : ~marker[w] =>
       /\ steps[w] = <<>>
       /\ \A c, d \in Of(w) : c = d /\ c.stage \in {"check", "relock"}
  /\ fault # "none" => \E w \in Workers : /\ ~marker[w]
                                         /\ Elements(scheduled[w]) \subseteq returned

\* The task whose function worker w executes.
BodyTask(w) == IF In(w, "body") = {}
                 THEN NoTask
                 ELSE (CHOOSE c \in In(w, "body") : TRUE).task

\* The workers implement the abstract serial executor.
Abstract == INSTANCE SerialExecutor WITH
  queue <- [w \in Workers |-> PendingTask(w) \o steps[w]],
  busy  <- [w \in Workers |-> BodyTask(w)]

\* Progress is promised as long as no closure came late: the program stops then.
ImplementsSerialExecutor == /\ Abstract!SafeSpec
                            /\ [](fault = "none") => Abstract!Fairness

=============================================================================
