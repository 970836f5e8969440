--------------------------- MODULE SerialExecutor ---------------------------
(***************************************************************************)
(* What class Worker (base/scheduler.h) promises: "Tasks are executed        *)
(* strictly sequentially in the order they are scheduled", each worker by    *)
(* itself, and every task gets its turn as long as the ones ahead of it      *)
(* return.                                                                   *)
(***************************************************************************)
EXTENDS Sequences

CONSTANTS Workers, Tasks, NoTask

VARIABLES queue,  \* queue[w]: scheduled on w, not begun, in order
          busy    \* busy[w]: the task w executes, or NoTask

vars == <<queue, busy>>

TypeOK == /\ queue \in [Workers -> Seq(Tasks)]
          /\ busy \in [Workers -> Tasks \cup {NoTask}]

Init == /\ queue = [w \in Workers |-> <<>>]
        /\ busy = [w \in Workers |-> NoTask]

Submit(w, k) == /\ queue' = [queue EXCEPT ![w] = Append(@, k)]
                /\ UNCHANGED busy

Begin(w) == /\ busy[w] = NoTask
            /\ queue[w] # <<>>
            /\ busy' = [busy EXCEPT ![w] = Head(queue[w])]
            /\ queue' = [queue EXCEPT ![w] = Tail(@)]

End(w) == /\ busy[w] # NoTask
          /\ busy' = [busy EXCEPT ![w] = NoTask]
          /\ UNCHANGED queue

Next == \E w \in Workers : \/ \E k \in Tasks : Submit(w, k)
                           \/ Begin(w)
                           \/ End(w)

Fairness == \A w \in Workers : WF_vars(Begin(w))

SafeSpec == Init /\ [][Next]_vars

Spec == SafeSpec /\ Fairness

=============================================================================
