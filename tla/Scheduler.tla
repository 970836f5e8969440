------------------------------ MODULE Scheduler ------------------------------
(***************************************************************************)
(* What class Scheduler (base/scheduler.h) promises to one external caller:  *)
(* every scheduled task is started, once; tasks may schedule more tasks; and *)
(* WaitUntilIdle returns when, and only when, no task is pending or running. *)
(***************************************************************************)

CONSTANT Tasks

VARIABLES pending,   \* scheduled, not started
          running,   \* started, not returned
          finished,  \* returned
          caller     \* what the external caller does: "using" the scheduler,
                     \* "waiting" in WaitUntilIdle, or it knows it is "idle"

vars == <<pending, running, finished, caller>>

Fresh == Tasks \ (pending \cup running \cup finished)

TypeOK == /\ pending \subseteq Tasks
          /\ running \subseteq Tasks
          /\ finished \subseteq Tasks
          /\ caller \in {"using", "waiting", "idle"}

Init == /\ pending = {}
        /\ running = {}
        /\ finished = {}
        /\ caller = "using"

\* The external caller schedules a task.
Schedule(k) == /\ caller # "waiting"
               /\ k \in Fresh
               /\ pending' = pending \cup {k}
               /\ caller' = "using"
               /\ UNCHANGED <<running, finished>>

\* A running task schedules another one.
Spawn(k) == /\ running # {}
            /\ k \in Fresh
            /\ pending' = pending \cup {k}
            /\ UNCHANGED <<running, finished, caller>>

Start(k) == /\ k \in pending
            /\ pending' = pending \ {k}
            /\ running' = running \cup {k}
            /\ UNCHANGED <<finished, caller>>

Finish(k) == /\ k \in running
             /\ running' = running \ {k}
             /\ finished' = finished \cup {k}
             /\ UNCHANGED <<pending, caller>>

Wait == /\ caller = "using"
        /\ caller' = "waiting"
        /\ UNCHANGED <<pending, running, finished>>

WaitReturns == /\ caller = "waiting"
               /\ pending = {}
               /\ running = {}
               /\ caller' = "idle"
               /\ UNCHANGED <<pending, running, finished>>

Next == \/ \E k \in Tasks : Schedule(k) \/ Spawn(k) \/ Start(k) \/ Finish(k)
        \/ Wait
        \/ WaitReturns

\* A pending task is started, and WaitUntilIdle returns once nothing is left.
\* Whether a started task ends is the task's business.
Fairness == /\ \A k \in Tasks : WF_vars(Start(k))
            /\ WF_vars(WaitReturns)

SafeSpec == Init /\ [][Next]_vars

Spec == SafeSpec /\ Fairness

==============================================================================
