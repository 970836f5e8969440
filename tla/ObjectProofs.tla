---------------------------- MODULE ObjectProofs ----------------------------
(***************************************************************************)
(* Proofs about the two components that are built on objects whose owners     *)
(* are counted or whose type is erased: Activity (reactive/object.h) and      *)
(* PolyValue (reactive/poly_value.h).                                         *)
(*   Activity, for any number of activities and threads and any number of     *)
(* tasks: activities own one another through the closures that wait and run,  *)
(* so that the last closure destroys the activity and nobody meets a          *)
(* destroyed one.                                                             *)
(*   PolyValue, for all sets of types, and for any number of writes and of    *)
(* trips over the network: a value is what the receiver thinks it is. The     *)
(* inductive invariant says where the value is and in which form.             *)
(***************************************************************************)
EXTENDS Activity, PolyValue, TLAPS

-----------------------------------------------------------------------------
(* Activity.                                                                 *)

\* Types of the variables.
TypeOK ==
  /\ life \in [Activities -> {"new", "alive", "destroyed"}]
  /\ handles \subseteq Activities
  /\ locals \in [Threads -> SUBSET Activities]
  /\ queue \in [Activities -> Seq(Tasks)]
  /\ busy \in [Activities -> Tasks \cup {NoTask}]
  /\ stage \in [Threads -> {"idle", "enter", "body", "leave", "check", "destroy"}]
  /\ task \in [Threads -> Tasks \cup {NoTask}]
  /\ current \in [Threads -> Activities \cup {NoActivity}]
  /\ tasks \in Nat

\* The base worker has not turned to its next task yet.
Working(t) == stage[t] \in {"enter", "body", "leave", "check"}

\* What a thread has while it runs a closure: its task, and current_ and local
\* pointers in the middle of it.
ThreadOK(t) ==
  /\ stage[t] = "idle" <=> task[t] = NoTask
  /\ current[t] = IF stage[t] \in {"body", "leave"} THEN task[t].on ELSE NoActivity
  /\ locals[t] # {} => stage[t] = "body"
  /\ Working(t) => busy[task[t].on] = task[t]

\* A base worker is on one thread at a time.
Alone == \A t, u \in Threads :
  Working(t) /\ Working(u) /\ task[t].on = task[u].on => t = u

\* Tasks wait on the base worker of their own activity.
InTheirQueue == \A a \in Activities : \A i \in DOMAIN queue[a] : queue[a][i].on = a

\* An activity exists exactly as long as somebody has a pointer to it.
Owned == \A a \in Activities : life[a] = "alive" <=> Referenced(a)

IInv == /\ TypeOK
        /\ NoFault
        /\ \A t \in Threads : ThreadOK(t)
        /\ Alone
        /\ InTheirQueue
        /\ Owned

-----------------------------------------------------------------------------
(* Tasks, queues and ownership.                                              *)

\* The task that is none.
LEMMA NoTaskFacts ==
  /\ NoTask \notin Tasks
  /\ \A k \in Tasks : k # NoTask /\ k.on \in Activities
                      /\ k.caller \in Activities \cup {NoActivity}
  /\ \A a \in Activities : a # NoActivity /\ a \notin Captures(NoTask)
  BY ActivityAssumption DEF Tasks, NoTask, Captures

\* What Schedule puts into a queue.
LEMMA TaskTypes ==
  ASSUME NEW a \in Activities, NEW c \in Activities \cup {NoActivity}
  PROVE  /\ [on |-> a, caller |-> c] \in Tasks
         /\ [on |-> a, caller |-> c].on = a
         /\ Captures([on |-> a, caller |-> c]) = {a, c}
  BY DEF Tasks, Captures

\* Collect keeps what has a pointer, if pointers are only copied, or made to what
\* is created.
LEMMA CollectOwns ==
  ASSUME TypeOK, Owned, NEW made \in SUBSET Activities, Collect(made),
         \A a \in made : Referenced(a)',
         \A a \in Activities : Referenced(a)' => Referenced(a) \/ a \in made
  PROVE  Owned' /\ life' \in [Activities -> {"new", "alive", "destroyed"}]
<1>1. \A a \in Activities :
        life'[a] = CASE a \in made                           -> "alive"
                     [] life[a] = "alive" /\ ~Referenced(a)' -> "destroyed"
                     [] OTHER                                -> life[a]
  BY DEF Collect
<1>2. life' \in [Activities -> {"new", "alive", "destroyed"}]
  BY DEF Collect, TypeOK
<1>3. ASSUME NEW a \in Activities
      PROVE  life'[a] = "alive" <=> Referenced(a)'
  <2>1. CASE a \in made
    BY <1>1, <2>1
  <2>2. CASE a \notin made /\ Referenced(a)'
    <3>1. life[a] = "alive"
      BY <2>2 DEF Owned
    <3> QED
      BY <1>1, <2>2, <3>1
  <2>3. CASE a \notin made /\ ~Referenced(a)'
    BY <1>1, <2>3
  <2> QED
    BY <2>1, <2>2, <2>3
<1> QED
  BY <1>2, <1>3 DEF Owned

\* Pointers are where they were.
LEMMA SamePointers ==
  ASSUME UNCHANGED <<handles, locals, queue, task, current>>
  PROVE  \A a \in Activities : Referenced(a)' => Referenced(a)
  BY DEF Referenced

\* A queue with a task more.
LEMMA Submitted ==
  ASSUME TypeOK, InTheirQueue, NEW a \in Activities, NEW k \in Tasks, k.on = a,
         BaseWorker!Submit(a, k)
  PROVE  /\ queue' \in [Activities -> Seq(Tasks)]
         /\ busy' = busy
         /\ InTheirQueue'
         /\ \A b \in Activities : \A i \in DOMAIN queue'[b] :
              queue'[b][i] = k \/ (i \in DOMAIN queue[b] /\ queue'[b][i] = queue[b][i])
<1>1. queue' = [queue EXCEPT ![a] = Append(@, k)] /\ busy' = busy
  BY DEF BaseWorker!Submit
<1>2. queue \in [Activities -> Seq(Tasks)] /\ queue[a] \in Seq(Tasks)
  BY DEF TypeOK
<1>3. Append(queue[a], k) \in Seq(Tasks)
  BY <1>2
<1>4. queue' \in [Activities -> Seq(Tasks)]
  BY <1>1, <1>2, <1>3
<1>5. \A i \in DOMAIN Append(queue[a], k) :
        \/ Append(queue[a], k)[i] = k
        \/ i \in DOMAIN queue[a] /\ Append(queue[a], k)[i] = queue[a][i]
  BY <1>2
<1>6. ASSUME NEW b \in Activities, NEW i \in DOMAIN queue'[b]
      PROVE  /\ queue'[b][i] = k \/ (i \in DOMAIN queue[b] /\ queue'[b][i] = queue[b][i])
             /\ queue'[b][i].on = b
  <2>1. CASE b = a
    <3>1. queue'[b] = Append(queue[a], k)
      BY <1>1, <1>2, <2>1
    <3> QED
      BY <1>5, <2>1, <3>1 DEF InTheirQueue
  <2>2. CASE b # a
    <3>1. queue'[b] = queue[b]
      BY <1>1, <1>2, <2>2
    <3> QED
      BY <3>1 DEF InTheirQueue
  <2> QED
    BY <2>1, <2>2
<1> QED
  BY <1>1, <1>4, <1>6 DEF InTheirQueue

\* A base worker takes the head of its queue.
LEMMA Begun ==
  ASSUME TypeOK, InTheirQueue, NEW a \in Activities, BaseWorker!Begin(a)
  PROVE  /\ queue' \in [Activities -> Seq(Tasks)]
         /\ busy' \in [Activities -> Tasks \cup {NoTask}]
         /\ busy[a] = NoTask
         /\ busy'[a] \in Tasks /\ busy'[a].on = a
         /\ \A b \in Activities : b # a => busy'[b] = busy[b]
         /\ \E i \in DOMAIN queue[a] : queue[a][i] = busy'[a]
         /\ InTheirQueue'
         /\ \A b \in Activities : \A i \in DOMAIN queue'[b] :
              \E j \in DOMAIN queue[b] : queue'[b][i] = queue[b][j]
<1>1. /\ busy[a] = NoTask /\ queue[a] # <<>>
      /\ busy' = [busy EXCEPT ![a] = Head(queue[a])]
      /\ queue' = [queue EXCEPT ![a] = Tail(@)]
  BY DEF BaseWorker!Begin
<1>2. queue \in [Activities -> Seq(Tasks)] /\ queue[a] \in Seq(Tasks)
      /\ busy \in [Activities -> Tasks \cup {NoTask}]
  BY DEF TypeOK
<1>3. Tail(queue[a]) \in Seq(Tasks) /\ Head(queue[a]) \in Tasks
      /\ 1 \in DOMAIN queue[a] /\ Head(queue[a]) = queue[a][1]
  BY <1>1, <1>2
<1>4. \A i \in DOMAIN Tail(queue[a]) :
        i + 1 \in DOMAIN queue[a] /\ Tail(queue[a])[i] = queue[a][i + 1]
  BY <1>1, <1>2
<1>5. /\ queue' \in [Activities -> Seq(Tasks)]
      /\ busy' \in [Activities -> Tasks \cup {NoTask}]
      /\ busy'[a] = Head(queue[a])
      /\ \A b \in Activities : b # a => busy'[b] = busy[b] /\ queue'[b] = queue[b]
      /\ queue'[a] = Tail(queue[a])
  BY <1>1, <1>2, <1>3
<1>6. \A b \in Activities : \A i \in DOMAIN queue'[b] :
        \E j \in DOMAIN queue[b] : queue'[b][i] = queue[b][j]
  <2> TAKE b \in Activities
  <2> TAKE i \in DOMAIN queue'[b]
  <2>1. CASE b = a
    BY <1>4, <1>5, <2>1
  <2>2. CASE b # a
    BY <1>5, <2>2
  <2> QED
    BY <2>1, <2>2
<1>7. InTheirQueue'
  BY <1>6 DEF InTheirQueue
<1> QED
  BY <1>1, <1>3, <1>5, <1>6, <1>7 DEF InTheirQueue

-----------------------------------------------------------------------------
(* The steps preserve the invariant.                                         *)

\* Initially there is no activity, hence no pointer.
LEMMA InitInv ==
  ASSUME Init
  PROVE  IInv
<1>1. TypeOK
  BY DEF Init, TypeOK, BaseWorker!Init
<1>2. ASSUME NEW t \in Threads
      PROVE  ThreadOK(t) /\ ~Working(t)
  BY DEF Init, ThreadOK, Working
<1>3. InTheirQueue
  BY DEF Init, BaseWorker!Init, InTheirQueue
<1>4. Owned
  <2> SUFFICES ASSUME NEW a \in Activities
               PROVE  life[a] # "alive" /\ ~Referenced(a)
    BY DEF Owned
  <2>1. life[a] # "alive" /\ a \notin handles
    BY DEF Init
  <2>2. \A t \in Threads : a \notin locals[t] /\ current[t] # a /\ a \notin Captures(task[t])
    BY NoTaskFacts DEF Init
  <2>3. \A b \in Activities : DOMAIN queue[b] = {}
    BY DEF Init, BaseWorker!Init
  <2> QED
    BY <2>1, <2>2, <2>3 DEF Referenced
<1> QED
  BY <1>1, <1>2, <1>3, <1>4 DEF Init, IInv, NoFault, Alone

\* A step of the main program on pointers and queues leaves the threads alone.
LEMMA ThreadsUntouched ==
  ASSUME IInv, UNCHANGED <<locals, busy, stage, task, current>>
  PROVE  (\A t \in Threads : ThreadOK(t)') /\ Alone'
<1>1. \A t \in Threads : ThreadOK(t)'
  BY DEF IInv, ThreadOK, Working
<1>2. Alone'
  BY DEF IInv, Alone, Working
<1> QED
  BY <1>1, <1>2

\* The pointer that Create returns is the first one.
LEMMA CreateInv ==
  ASSUME IInv, NEW a \in Activities, Create(a)
  PROVE  IInv'
<1>1. /\ handles' = handles \cup {a}
      /\ UNCHANGED <<locals, queue, busy, stage, task, current, tasks, fault>>
      /\ Collect({a})
  BY DEF Create
<1>2. /\ Referenced(a)'
      /\ \A b \in Activities : Referenced(b)' => Referenced(b) \/ b \in {a}
  BY <1>1 DEF Referenced
<1>3. Owned' /\ life' \in [Activities -> {"new", "alive", "destroyed"}]
  BY <1>1, <1>2, CollectOwns DEF IInv
<1>4. TypeOK'
  BY <1>1, <1>3 DEF IInv, TypeOK
<1>5. InTheirQueue' /\ NoFault'
  BY <1>1 DEF IInv, InTheirQueue, NoFault
<1> QED
  BY <1>1, <1>3, <1>4, <1>5, ThreadsUntouched DEF IInv

\* A pointer of the main program goes: the activity goes along if it was the last.
LEMMA DropInv ==
  ASSUME IInv, NEW a \in Activities, Drop(a)
  PROVE  IInv'
<1>1. /\ handles' = handles \ {a}
      /\ UNCHANGED <<locals, queue, busy, stage, task, current, tasks, fault>>
      /\ Collect({})
  BY DEF Drop
<1>2. \A b \in Activities : Referenced(b)' => Referenced(b)
  BY <1>1 DEF Referenced
<1>3. Owned' /\ life' \in [Activities -> {"new", "alive", "destroyed"}]
  BY <1>1, <1>2, CollectOwns DEF IInv
<1>4. TypeOK'
  BY <1>1, <1>3 DEF IInv, TypeOK
<1>5. InTheirQueue' /\ NoFault'
  BY <1>1 DEF IInv, InTheirQueue, NoFault
<1> QED
  BY <1>1, <1>3, <1>4, <1>5, ThreadsUntouched DEF IInv

\* A task is scheduled by somebody who has pointers to both of its activities.
LEMMA ScheduleInv ==
  ASSUME IInv, NEW a \in Activities, NEW c \in Activities \cup {NoActivity},
         Schedule(a, c), Referenced(a), c # NoActivity => Referenced(c),
         UNCHANGED <<handles, locals, stage, task, current>>, Collect({})
  PROVE  IInv'
<1> DEFINE k == [on |-> a, caller |-> c]
<1>1. k \in Tasks /\ k.on = a /\ Captures(k) = {a, c}
  BY TaskTypes
<1>2. /\ tasks' = tasks + 1 /\ fault' = ~HasSelf(a)
      /\ BaseWorker!Submit(a, k)
  BY DEF Schedule
<1> HIDE DEF k
<1>3. /\ queue' \in [Activities -> Seq(Tasks)]
      /\ busy' = busy
      /\ InTheirQueue'
      /\ \A b \in Activities : \A i \in DOMAIN queue'[b] :
           queue'[b][i] = k \/ (i \in DOMAIN queue[b] /\ queue'[b][i] = queue[b][i])
  BY <1>1, <1>2, Submitted DEF IInv
<1>4. ASSUME NEW b \in Activities, Referenced(b)'
      PROVE  Referenced(b)
  <2>1. CASE \E d \in Activities : \E i \in DOMAIN queue'[d] : b \in Captures(queue'[d][i])
    <3>1. PICK d \in Activities : \E i \in DOMAIN queue'[d] : b \in Captures(queue'[d][i])
      BY <2>1
    <3>2. PICK i \in DOMAIN queue'[d] : b \in Captures(queue'[d][i])
      BY <3>1
    <3>3. CASE queue'[d][i] = k
      BY <1>1, <3>2, <3>3, NoTaskFacts
    <3>4. CASE i \in DOMAIN queue[d] /\ queue'[d][i] = queue[d][i]
      BY <3>2, <3>4 DEF Referenced
    <3> QED
      BY <1>3, <3>3, <3>4
  <2>2. CASE ~\E d \in Activities : \E i \in DOMAIN queue'[d] : b \in Captures(queue'[d][i])
    BY <1>4, <2>2 DEF Referenced
  <2> QED
    BY <2>1, <2>2
<1>5. Owned' /\ life' \in [Activities -> {"new", "alive", "destroyed"}]
  BY <1>4, CollectOwns DEF IInv
<1>6. NoFault'
  BY <1>2 DEF IInv, Owned, HasSelf, NoFault
<1>7. TypeOK'
  BY <1>2, <1>3, <1>5 DEF IInv, TypeOK
<1> QED
  BY <1>3, <1>5, <1>6, <1>7, ThreadsUntouched DEF IInv

\* The main program schedules on what it has a pointer to.
LEMMA MainSchedulesInv ==
  ASSUME IInv, NEW a \in Activities, MainSchedules(a)
  PROVE  IInv'
<1>1. Referenced(a)
  BY DEF MainSchedules, Referenced
<1> QED
  BY <1>1, ScheduleInv DEF MainSchedules

\* A task schedules on an activity that it knows, and passes the current one.
LEMMA BodyProvidesInv ==
  ASSUME IInv, NEW t \in Threads, NEW a \in Activities, BodyProvides(t, a)
  PROVE  IInv'
<1>1. /\ a \in locals[t] \cup {task[t].caller, current[t]}
      /\ current[t] # NoActivity
  BY DEF BodyProvides
<1>2. current[t] \in Activities
  BY <1>1 DEF IInv, TypeOK
<1>3. Referenced(current[t])
  BY <1>2 DEF Referenced
<1>4. Referenced(a)
  BY <1>1 DEF Referenced, Captures
<1> QED
  BY <1>2, <1>3, <1>4, ScheduleInv DEF BodyProvides

\* Facts about the thread that takes a step.
LEMMA OnThread ==
  ASSUME IInv, NEW t \in Threads
  PROVE  /\ stage[t] # "idle" => /\ task[t] \in Tasks
                                 /\ task[t].on \in Activities
                                 /\ task[t].on # NoActivity
         /\ stage[t] \notin {"body", "leave"} => current[t] = NoActivity
         /\ stage[t] # "body" => locals[t] = {}
  BY NoTaskFacts DEF IInv, TypeOK, ThreadOK

\* A thread moves from one place of its closure to the next one, its base worker
\* and its task remain.
LEMMA MovesOn ==
  ASSUME IInv, NEW t \in Threads, NEW p \in {"enter", "body", "leave", "check"},
         Working(t), Goto(t, p), UNCHANGED <<busy, task>>
  PROVE  /\ stage' \in [Threads -> {"idle", "enter", "body", "leave", "check", "destroy"}]
         /\ stage'[t] = p
         /\ \A u \in Threads \ {t} : stage'[u] = stage[u]
         /\ \A u \in Threads : Working(u)' <=> Working(u)
         /\ Alone'
<1>1. /\ stage' \in [Threads -> {"idle", "enter", "body", "leave", "check", "destroy"}]
      /\ stage'[t] = p
      /\ \A u \in Threads \ {t} : stage'[u] = stage[u]
  BY DEF Goto, IInv, TypeOK
<1>2. \A u \in Threads : Working(u)' <=> Working(u)
  BY <1>1 DEF Working
<1> QED
  BY <1>1, <1>2 DEF IInv, Alone

\* A thread takes a task over from the queue, with its pointers.
LEMMA BeginInv ==
  ASSUME IInv, NEW t \in Threads, NEW a \in Activities, Begin(t, a)
  PROVE  IInv'
<1>1. /\ stage[t] = "idle" /\ BaseWorker!Begin(a)
      /\ task' = [task EXCEPT ![t] = busy'[a]]
      /\ stage' = [stage EXCEPT ![t] = "enter"]
      /\ UNCHANGED <<handles, locals, current, tasks, fault>>
      /\ Collect({})
  BY DEF Begin, At, Goto
<1>2. /\ queue' \in [Activities -> Seq(Tasks)]
      /\ busy' \in [Activities -> Tasks \cup {NoTask}]
      /\ busy[a] = NoTask
      /\ busy'[a] \in Tasks /\ busy'[a].on = a
      /\ \A b \in Activities : b # a => busy'[b] = busy[b]
      /\ \E i \in DOMAIN queue[a] : queue[a][i] = busy'[a]
      /\ InTheirQueue'
      /\ \A b \in Activities : \A i \in DOMAIN queue'[b] :
           \E j \in DOMAIN queue[b] : queue'[b][i] = queue[b][j]
  BY <1>1, Begun DEF IInv
<1>3. /\ task' \in [Threads -> Tasks \cup {NoTask}] /\ task'[t] = busy'[a]
      /\ stage' \in [Threads -> {"idle", "enter", "body", "leave", "check", "destroy"}]
      /\ stage'[t] = "enter"
      /\ \A u \in Threads \ {t} : task'[u] = task[u] /\ stage'[u] = stage[u]
  BY <1>1, <1>2 DEF IInv, TypeOK
<1>4. ASSUME NEW b \in Activities, Referenced(b)'
      PROVE  Referenced(b)
  <2>1. CASE b \in Captures(task'[t])
    BY <1>2, <1>3, <2>1 DEF Referenced
  <2>2. CASE \E d \in Activities : \E i \in DOMAIN queue'[d] : b \in Captures(queue'[d][i])
    <3>1. PICK d \in Activities : \E i \in DOMAIN queue'[d] : b \in Captures(queue'[d][i])
      BY <2>2
    <3>2. \E j \in DOMAIN queue[d] : b \in Captures(queue[d][j])
      BY <1>2, <3>1
    <3> QED
      BY <3>2 DEF Referenced
  <2>3. CASE /\ b \notin Captures(task'[t])
             /\ ~\E d \in Activities : \E i \in DOMAIN queue'[d] : b \in Captures(queue'[d][i])
    <3>1. \/ b \in handles
          \/ \E u \in Threads : b \in locals[u] \/ current[u] = b \/ b \in Captures(task'[u])
      BY <1>1, <1>4, <2>3 DEF Referenced
    <3> QED
      BY <1>3, <2>3, <3>1 DEF Referenced
  <2> QED
    BY <2>1, <2>2, <2>3
<1>5. Owned' /\ life' \in [Activities -> {"new", "alive", "destroyed"}]
  BY <1>1, <1>4, CollectOwns DEF IInv
<1>6. \A u \in Threads \ {t} : Working(u) => task[u].on # a
  BY <1>2, OnThread, NoTaskFacts DEF IInv, ThreadOK, Working
<1>7. ASSUME NEW u \in Threads
      PROVE  ThreadOK(u)'
  <2>1. CASE u = t
    <3>1. current'[t] = NoActivity /\ locals'[t] = {}
      BY <1>1, OnThread
    <3> QED
      BY <1>2, <1>3, <2>1, <3>1, NoTaskFacts DEF ThreadOK, Working
  <2>2. CASE u # t
    <3>1. Working(u) => busy'[task[u].on] = busy[task[u].on]
      BY <1>2, <1>6, <2>2, OnThread DEF Working
    <3> QED
      BY <1>1, <1>3, <2>2, <3>1 DEF IInv, ThreadOK, Working
  <2> QED
    BY <2>1, <2>2
<1>8. Alone'
  BY <1>2, <1>3, <1>6 DEF IInv, Alone, Working
<1>9. TypeOK'
  BY <1>1, <1>2, <1>3, <1>5 DEF IInv, TypeOK
<1>10. NoFault'
  BY <1>1 DEF IInv, NoFault
<1> QED
  BY <1>2, <1>5, <1>7, <1>8, <1>9, <1>10 DEF IInv

\* current_ was null, because its thread was in no task.
LEMMA EnterInv ==
  ASSUME IInv, NEW t \in Threads, Enter(t)
  PROVE  IInv'
<1>1. /\ stage[t] = "enter" /\ Goto(t, "body")
      /\ fault' = (current[t] # NoActivity)
      /\ current' = [current EXCEPT ![t] = task[t].on]
      /\ UNCHANGED <<handles, locals, queue, busy, task, tasks>>
      /\ Collect({})
  BY DEF Enter, At
<1>2. Working(t)
  BY <1>1 DEF Working
<1>3. /\ stage' \in [Threads -> {"idle", "enter", "body", "leave", "check", "destroy"}]
      /\ stage'[t] = "body"
      /\ \A u \in Threads \ {t} : stage'[u] = stage[u]
      /\ \A u \in Threads : Working(u)' <=> Working(u)
      /\ Alone'
  BY <1>1, <1>2, MovesOn
<1>4. task[t].on \in Activities /\ current[t] = NoActivity
  BY <1>1, OnThread
<1>5. /\ current' \in [Threads -> Activities \cup {NoActivity}]
      /\ current'[t] = task[t].on
      /\ \A u \in Threads \ {t} : current'[u] = current[u]
  BY <1>1, <1>4 DEF IInv, TypeOK
<1>6. \A b \in Activities : Referenced(b)' => Referenced(b)
  BY <1>1, <1>5 DEF Referenced, Captures
<1>7. Owned' /\ life' \in [Activities -> {"new", "alive", "destroyed"}]
  BY <1>1, <1>6, CollectOwns DEF IInv
<1>8. \A u \in Threads : ThreadOK(u)'
  BY <1>1, <1>3, <1>5 DEF IInv, ThreadOK
<1>9. TypeOK'
  BY <1>1, <1>3, <1>5, <1>7 DEF IInv, TypeOK
<1>10. InTheirQueue' /\ NoFault'
  BY <1>1, <1>4 DEF IInv, InTheirQueue, NoFault
<1> QED
  BY <1>3, <1>7, <1>8, <1>9, <1>10 DEF IInv

\* The task has the first pointer to what it creates.
LEMMA BodyCreatesInv ==
  ASSUME IInv, NEW t \in Threads, NEW a \in Activities, BodyCreates(t, a)
  PROVE  IInv'
<1>1. /\ stage[t] = "body"
      /\ locals' = [locals EXCEPT ![t] = @ \cup {a}]
      /\ UNCHANGED <<handles, queue, busy, stage, task, current, tasks, fault>>
      /\ Collect({a})
  BY DEF BodyCreates, At
<1>2. /\ locals' \in [Threads -> SUBSET Activities]
      /\ locals'[t] = locals[t] \cup {a}
      /\ \A u \in Threads \ {t} : locals'[u] = locals[u]
  BY <1>1 DEF IInv, TypeOK
<1>3. /\ Referenced(a)'
      /\ \A b \in Activities : Referenced(b)' => Referenced(b) \/ b \in {a}
  BY <1>1, <1>2 DEF Referenced
<1>4. Owned' /\ life' \in [Activities -> {"new", "alive", "destroyed"}]
  BY <1>1, <1>3, CollectOwns DEF IInv
<1>5. \A u \in Threads : ThreadOK(u)'
  BY <1>1, <1>2 DEF IInv, ThreadOK, Working
<1>6. Alone'
  BY <1>1 DEF IInv, Alone, Working
<1>7. TypeOK'
  BY <1>1, <1>2, <1>4 DEF IInv, TypeOK
<1>8. InTheirQueue' /\ NoFault'
  BY <1>1 DEF IInv, InTheirQueue, NoFault
<1> QED
  BY <1>4, <1>5, <1>6, <1>7, <1>8 DEF IInv

\* The local pointers of the task go.
LEMMA BodyReturnsInv ==
  ASSUME IInv, NEW t \in Threads, BodyReturns(t)
  PROVE  IInv'
<1>1. /\ stage[t] = "body" /\ Goto(t, "leave")
      /\ locals' = [locals EXCEPT ![t] = {}]
      /\ UNCHANGED <<handles, queue, busy, task, current, tasks, fault>>
      /\ Collect({})
  BY DEF BodyReturns, At
<1>2. Working(t)
  BY <1>1 DEF Working
<1>3. /\ stage' \in [Threads -> {"idle", "enter", "body", "leave", "check", "destroy"}]
      /\ stage'[t] = "leave"
      /\ \A u \in Threads \ {t} : stage'[u] = stage[u]
      /\ \A u \in Threads : Working(u)' <=> Working(u)
      /\ Alone'
  BY <1>1, <1>2, MovesOn
<1>4. /\ locals' \in [Threads -> SUBSET Activities]
      /\ locals'[t] = {}
      /\ \A u \in Threads \ {t} : locals'[u] = locals[u]
  BY <1>1 DEF IInv, TypeOK
<1>5. \A b \in Activities : Referenced(b)' => Referenced(b)
  BY <1>1, <1>4 DEF Referenced
<1>6. Owned' /\ life' \in [Activities -> {"new", "alive", "destroyed"}]
  BY <1>1, <1>5, CollectOwns DEF IInv
<1>7. \A u \in Threads : ThreadOK(u)'
  BY <1>1, <1>3, <1>4 DEF IInv, ThreadOK
<1>8. TypeOK'
  BY <1>1, <1>3, <1>4, <1>6 DEF IInv, TypeOK
<1>9. InTheirQueue' /\ NoFault'
  BY <1>1 DEF IInv, InTheirQueue, NoFault
<1> QED
  BY <1>3, <1>6, <1>7, <1>8, <1>9 DEF IInv

\* current_ is reset.
LEMMA LeaveInv ==
  ASSUME IInv, NEW t \in Threads, Leave(t)
  PROVE  IInv'
<1>1. /\ stage[t] = "leave" /\ Goto(t, "check")
      /\ current' = [current EXCEPT ![t] = NoActivity]
      /\ UNCHANGED <<handles, locals, queue, busy, task, tasks, fault>>
      /\ Collect({})
  BY DEF Leave, AfterReset, At
<1>2. Working(t)
  BY <1>1 DEF Working
<1>3. /\ stage' \in [Threads -> {"idle", "enter", "body", "leave", "check", "destroy"}]
      /\ stage'[t] = "check"
      /\ \A u \in Threads \ {t} : stage'[u] = stage[u]
      /\ \A u \in Threads : Working(u)' <=> Working(u)
      /\ Alone'
  BY <1>1, <1>2, MovesOn
<1>4. /\ current' \in [Threads -> Activities \cup {NoActivity}]
      /\ current'[t] = NoActivity
      /\ \A u \in Threads \ {t} : current'[u] = current[u]
  BY <1>1 DEF IInv, TypeOK
<1>5. \A b \in Activities : Referenced(b)' => Referenced(b)
  BY <1>1, <1>4, NoTaskFacts DEF Referenced
<1>6. Owned' /\ life' \in [Activities -> {"new", "alive", "destroyed"}]
  BY <1>1, <1>5, CollectOwns DEF IInv
<1>7. \A u \in Threads : ThreadOK(u)'
  BY <1>1, <1>3, <1>4 DEF IInv, ThreadOK
<1>8. TypeOK'
  BY <1>1, <1>3, <1>4, <1>6 DEF IInv, TypeOK
<1>9. InTheirQueue' /\ NoFault'
  BY <1>1 DEF IInv, InTheirQueue, NoFault
<1> QED
  BY <1>3, <1>6, <1>7, <1>8, <1>9 DEF IInv

\* The base worker exists, because the closure that runs holds its activity.
LEMMA CheckInv ==
  ASSUME IInv, NEW t \in Threads, Check(t)
  PROVE  IInv'
<1>1. /\ stage[t] = "check"
      /\ stage' = [stage EXCEPT ![t] = "destroy"]
      /\ fault' = (life[task[t].on] # "alive")
      /\ busy' = [busy EXCEPT ![task[t].on] = NoTask] /\ queue' = queue
      /\ UNCHANGED <<handles, locals, task, current, tasks>>
      /\ Collect({})
  BY DEF Check, At, Goto, BaseWorker!End
<1>2. Working(t) /\ task[t].on \in Activities /\ locals[t] = {} /\ current[t] = NoActivity
  BY <1>1, OnThread DEF Working
<1>3. /\ stage' \in [Threads -> {"idle", "enter", "body", "leave", "check", "destroy"}]
      /\ stage'[t] = "destroy"
      /\ \A u \in Threads \ {t} : stage'[u] = stage[u]
      /\ busy' \in [Activities -> Tasks \cup {NoTask}]
      /\ \A b \in Activities : b # task[t].on => busy'[b] = busy[b]
  BY <1>1 DEF IInv, TypeOK
<1>4. \A b \in Activities : Referenced(b)' => Referenced(b)
  BY <1>1, SamePointers
<1>5. Owned' /\ life' \in [Activities -> {"new", "alive", "destroyed"}]
  BY <1>1, <1>4, CollectOwns DEF IInv
<1>6. Referenced(task[t].on)
  BY <1>2 DEF Referenced, Captures
<1>7. NoFault'
  BY <1>1, <1>2, <1>6 DEF IInv, Owned, NoFault
<1>8. ASSUME NEW u \in Threads
      PROVE  ThreadOK(u)'
  <2>1. CASE u = t
    BY <1>1, <1>2, <1>3, <2>1 DEF IInv, ThreadOK, Working
  <2>2. CASE u # t
    <3>1. Working(u) => busy'[task[u].on] = busy[task[u].on]
      BY <1>2, <1>3, <2>2, OnThread DEF IInv, Alone, Working
    <3> QED
      BY <1>1, <1>3, <2>2, <3>1 DEF IInv, ThreadOK, Working
  <2> QED
    BY <2>1, <2>2
<1>9. Alone'
  BY <1>1, <1>3 DEF IInv, Alone, Working
<1>10. TypeOK'
  BY <1>1, <1>3, <1>5 DEF IInv, TypeOK
<1>11. InTheirQueue'
  BY <1>1 DEF IInv, InTheirQueue
<1> QED
  BY <1>5, <1>7, <1>8, <1>9, <1>10, <1>11 DEF IInv

\* The pointers of the closure go.
LEMMA DestroyInv ==
  ASSUME IInv, NEW t \in Threads, Destroy(t)
  PROVE  IInv'
<1>1. /\ stage[t] = "destroy"
      /\ stage' = [stage EXCEPT ![t] = "idle"]
      /\ task' = [task EXCEPT ![t] = NoTask]
      /\ UNCHANGED <<handles, locals, queue, busy, current, tasks, fault>>
      /\ Collect({})
  BY DEF Destroy, At, Goto
<1>2. locals[t] = {} /\ current[t] = NoActivity
  BY <1>1, OnThread
<1>3. /\ stage' \in [Threads -> {"idle", "enter", "body", "leave", "check", "destroy"}]
      /\ task' \in [Threads -> Tasks \cup {NoTask}]
      /\ stage'[t] = "idle" /\ task'[t] = NoTask
      /\ \A u \in Threads \ {t} : stage'[u] = stage[u] /\ task'[u] = task[u]
  BY <1>1 DEF IInv, TypeOK
<1>4. \A b \in Activities : Referenced(b)' => Referenced(b)
  BY <1>1, <1>3, NoTaskFacts DEF Referenced
<1>5. Owned' /\ life' \in [Activities -> {"new", "alive", "destroyed"}]
  BY <1>1, <1>4, CollectOwns DEF IInv
<1>6. \A u \in Threads : ThreadOK(u)'
  BY <1>1, <1>2, <1>3 DEF IInv, ThreadOK, Working
<1>7. Alone'
  BY <1>3 DEF IInv, Alone, Working
<1>8. TypeOK'
  BY <1>1, <1>3, <1>5 DEF IInv, TypeOK
<1>9. InTheirQueue' /\ NoFault'
  BY <1>1 DEF IInv, InTheirQueue, NoFault
<1> QED
  BY <1>5, <1>6, <1>7, <1>8, <1>9 DEF IInv

-----------------------------------------------------------------------------
(* The theorems.                                                             *)

\* Every step preserves the invariant.
LEMMA NextInv ==
  ASSUME IInv, [Next]_vars
  PROVE  IInv'
<1>1. CASE \E a \in Activities : Create(a) \/ MainSchedules(a) \/ Drop(a)
  BY <1>1, CreateInv, MainSchedulesInv, DropInv
<1>2. ASSUME NEW t \in Threads, ThreadStep(t)
      PROVE  IInv'
  BY <1>2, EnterInv, BodyReturnsInv, LeaveInv, CheckInv, DestroyInv, BeginInv,
     BodyCreatesInv, BodyProvidesInv DEF ThreadStep
<1>3. CASE UNCHANGED vars
  <2>1. UNCHANGED <<life, handles, locals, queue, busy, stage, task, current, tasks, fault>>
    BY <1>3 DEF vars
  <2>2. Owned'
    BY <2>1 DEF IInv, Owned, Referenced
  <2>3. TypeOK' /\ InTheirQueue' /\ NoFault'
    BY <2>1 DEF IInv, TypeOK, InTheirQueue, NoFault
  <2> QED
    BY <2>1, <2>2, <2>3, ThreadsUntouched DEF IInv
<1> QED
  BY <1>1, <1>2, <1>3 DEF Next, Terminated

\* The invariant holds always.
LEMMA Invariance == Spec => []IInv
<1>1. Init => IInv
  BY InitInv
<1>2. IInv /\ [Next]_vars => IInv'
  BY NextInv
<1> QED
  BY <1>1, <1>2, PTL DEF Spec

\* No check of an activity or of its base worker fails, although activities are
\* destroyed by their own tasks on any thread: a closure that waits or runs has a
\* pointer to its activity until the base worker has gone on.
THEOREM NoCheckFails == Spec => []NoFault
<1>1. IInv => NoFault
  BY DEF IInv
<1> QED
  BY <1>1, Invariance, PTL

\* current_ of a thread is the activity whose task it runs, and no activity runs
\* on two threads, for any number of threads.
THEOREM ActivitiesAreLockFree == Spec => []OneThreadEach
<1>1. IInv => OneThreadEach
  <2> SUFFICES ASSUME IInv, NEW t \in Threads, NEW u \in Threads,
                      current[t] # NoActivity
               PROVE  /\ stage[t] \in {"body", "leave"} /\ current[t] = task[t].on
                      /\ current[u] = current[t] => u = t
    BY DEF OneThreadEach
  <2> QED
    BY DEF IInv, ThreadOK, Alone, Working
<1> QED
  BY <1>1, Invariance, PTL

\* When no thread runs, no task waits and the main program has no pointer, then no
\* activity is left: the pointers of closures form no cycle that keeps itself alive.
THEOREM ActivitiesDoNotLeak == Spec => []NothingLeaks
<1>1. IInv => NothingLeaks
  <2> SUFFICES ASSUME IInv, Idle, handles = {}, NEW a \in Activities
               PROVE  ~Referenced(a)
    BY DEF NothingLeaks, IInv, Owned
  <2>1. \A t \in Threads : task[t] = NoTask /\ locals[t] = {} /\ current[t] = NoActivity
    BY OnThread DEF Idle, At, IInv, ThreadOK
  <2>2. \A b \in Activities : DOMAIN queue[b] = {}
    BY DEF Idle
  <2> QED
    BY <2>1, <2>2, NoTaskFacts DEF Referenced
<1> QED
  BY <1>1, Invariance, PTL

-----------------------------------------------------------------------------
(* PolyValue: a value that is not bytes, and values in their places.         *)

Packed == Types \ BytesTypes

\* The value has left neither the sender's nor the receiver's memory, or it is bytes,
\* a serialized form of what was sent.
InMemory == value # NoValue =>
  /\ origin \in Packed
  /\ wire = NoValue /\ result = NoValue /\ asked = NoValue /\ ~resent
  /\ trips = 0 => \E data : /\ value = Pack(origin, data)
                            /\ origin \notin SharedMsgs \cup Pointers => data = sent
  /\ trips # 0 => /\ \E B \in BytesTypes : value = Pack(B, [of |-> origin, data |-> sent])
                  /\ origin \in Serializable

\* Under way.
OnWire == wire # NoValue =>
  /\ origin \in Packed \cap Serializable
  /\ value = NoValue /\ result = NoValue /\ asked = NoValue /\ ~resent
  /\ wire = [of |-> origin, data |-> sent]

\* Delivered, or lost to an error.
AtReceiver == result # NoValue =>
  /\ origin \in Packed
  /\ value = NoValue /\ wire = NoValue
  /\ asked = NoValue => ~IsOk(result) /\ (origin \notin Serializable \/ resent)
  /\ TypeSafe
  /\ asked = origin => result = Ok(sent)

\* Before it is packed the value is nowhere.
Unpacked == origin = NoValue =>
  /\ value = NoValue /\ wire = NoValue /\ result = NoValue
  /\ asked = NoValue /\ ~resent /\ trips = 0

Numbers == trips \in Nat

PolyIInv == InMemory /\ OnWire /\ AtReceiver /\ Unpacked /\ Numbers

-----------------------------------------------------------------------------

\* What is packed as bytes is stored as shared_ptr<SerializedValue>, without a
\* serializer.
LEMMA BytesPacked ==
  ASSUME NEW B \in BytesTypes, NEW data
  PROVE  /\ IsBytes(Pack(B, data))
         /\ Pack(B, data).serializer = NoValue
         /\ Pack(B, data).data = data
<1>1. Blob \in MoveOnly
  BY PolyValueAssumption DEF MoveOnly
<1>2. PointerTo[Blob] \in Copyable \ Serializable
  BY <1>1, PolyValueAssumption
<1>3. Stored(B) = PointerTo[Blob] /\ B \notin Serializable
  BY <1>1, <1>2, PolyValueAssumption DEF BytesTypes, Stored, MoveOnly
<1> QED
  BY <1>3 DEF Pack, IsBytes

\* Nothing else is stored so.
LEMMA NotBytes ==
  ASSUME NEW T \in Packed
  PROVE  Stored(T) # PointerTo[Blob] /\ T # NoValue
<1>1. Blob \in MoveOnly /\ T \in Types /\ T # Blob /\ T # PointerTo[Blob]
  BY PolyValueAssumption DEF MoveOnly, Packed, BytesTypes
<1>2. CASE T \in Copyable
  BY <1>1, <1>2, PolyValueAssumption DEF Stored
<1>3. CASE T \notin Copyable
  <2>1. T \in MoveOnly
    BY <1>1, <1>3 DEF MoveOnly
  <2> QED
    BY <1>1, <1>3, <2>1, PolyValueAssumption DEF Stored
<1> QED
  BY <1>2, <1>3

\* A type with a serializer is not that of bytes.
LEMMA SerializableIsPacked == Serializable \subseteq Packed
<1>1. Blob \in MoveOnly
  BY PolyValueAssumption DEF MoveOnly
<1>2. PointerTo[Blob] \notin Serializable
  BY <1>1, PolyValueAssumption
<1> QED
  BY <1>2, PolyValueAssumption DEF Packed, BytesTypes

\* The invariant of the proofs holds initially: the value is nowhere.
LEMMA PolyInitInv == PolyInit => PolyIInv
  BY DEF PolyInit, PolyIInv, InMemory, OnWire, AtReceiver, Unpacked, Numbers

\* The sender packs the value, which then is in memory in its first type.
LEMMA PacksInv == ASSUME PolyIInv, SenderPacks PROVE PolyIInv'
<1>1. PICK T \in Packed : origin' = T /\ value' = Pack(T, content)
  BY DEF SenderPacks, Packed
<1>2. /\ origin = NoValue /\ sent' = content
      /\ UNCHANGED <<content, wire, trips, resent, asked, result>>
  BY DEF SenderPacks
<1>3. /\ value = NoValue /\ wire = NoValue /\ result = NoValue
      /\ asked = NoValue /\ ~resent /\ trips = 0
  BY <1>2 DEF PolyIInv, Unpacked
<1>4. origin' # NoValue
  BY <1>1, NotBytes
<1>5. InMemory'
  BY <1>1, <1>2, <1>3 DEF InMemory
<1> QED
  BY <1>2, <1>3, <1>4, <1>5 DEF PolyIInv, OnWire, AtReceiver, Unpacked, Numbers

\* The sender packs bytes, as if they had arrived.
LEMMA PacksBytesInv == ASSUME PolyIInv, SenderPacksBytes PROVE PolyIInv'
<1>1. PICK T \in Serializable, B \in BytesTypes :
        origin' = T /\ value' = Pack(B, [of |-> T, data |-> content])
  BY DEF SenderPacksBytes
<1>2. /\ origin = NoValue /\ sent' = content /\ trips' = trips + 1
      /\ UNCHANGED <<content, wire, resent, asked, result>>
  BY DEF SenderPacksBytes
<1>3. /\ value = NoValue /\ wire = NoValue /\ result = NoValue
      /\ asked = NoValue /\ ~resent /\ trips = 0
  BY <1>2 DEF PolyIInv, Unpacked
<1>4. origin' \in Packed /\ origin' # NoValue
  BY <1>1, NotBytes, SerializableIsPacked
<1>5. trips' = 1
  BY <1>2, <1>3
<1>6. InMemory'
  BY <1>1, <1>2, <1>3, <1>4, <1>5 DEF InMemory
<1> QED
  BY <1>2, <1>3, <1>4, <1>5, <1>6 DEF PolyIInv, OnWire, AtReceiver, Unpacked, Numbers

\* The sender writes to its message: the invariant does not mention it.
LEMMA WritesInv == ASSUME PolyIInv, SenderWrites PROVE PolyIInv'
  BY DEF SenderWrites, PolyIInv, InMemory, OnWire, AtReceiver, TypeSafe, Unpacked, Numbers

\* A value with a serializer goes on the wire, in the form it has at that
\* moment; one without a serializer, for instance one that has travelled before,
\* is lost to an error.
LEMMA GoesOutInv == ASSUME PolyIInv, GoesOut PROVE PolyIInv'
<1> DEFINE r == Serialize(value)
<1>1. /\ value # NoValue /\ value' = NoValue
      /\ wire' = IF IsOk(r) THEN r.value ELSE NoValue
      /\ result' = IF IsOk(r) THEN NoValue ELSE r
      /\ sent' = IF IsOk(r) THEN r.value.data ELSE sent
      /\ resent' = (trips > 0)
      /\ UNCHANGED <<origin, content, trips, asked>>
  BY DEF GoesOut
<1>2. origin \in Packed /\ asked = NoValue /\ trips \in Nat
  BY <1>1 DEF PolyIInv, InMemory, Numbers
<1>3. origin # NoValue
  BY <1>2, NotBytes
<1>4. trips = 0 => value.serializer = IF origin \in Serializable THEN origin ELSE NoValue
  <2>1. ASSUME trips = 0
        PROVE  \E data : value = Pack(origin, data)
    BY <1>1, <2>1 DEF PolyIInv, InMemory
  <2> QED
    BY <2>1 DEF Pack
<1>5. trips # 0 => value.serializer = NoValue
  BY <1>1, BytesPacked DEF PolyIInv, InMemory
<1>6. CASE value.serializer # NoValue
  <2>1. trips = 0 /\ origin \in Serializable /\ value.serializer = origin
    BY <1>4, <1>5, <1>6
  <2>2. IsOk(r) /\ r.value = [of |-> origin, data |-> Read(value)]
    BY <1>6, <2>1 DEF Serialize, Ok, IsOk
  <2>3. /\ wire' = [of |-> origin, data |-> sent'] /\ result' = NoValue
        /\ ~resent'
    <3> HIDE DEF r
    <3>1. wire' = r.value /\ sent' = r.value.data /\ result' = NoValue
      BY <1>1, <2>2
    <3>2. r.value.data = Read(value)
      BY <2>2
    <3>3. ~resent'
      <4>1. ~(trips > 0)
        BY <2>1
      <4> QED BY <1>1, <4>1, Zenon
    <3> QED BY <2>2, <3>1, <3>2, <3>3
  <2> QED
    BY <1>1, <1>2, <1>3, <2>1, <2>3
       DEF PolyIInv, InMemory, OnWire, AtReceiver, Unpacked, Numbers
<1>7. CASE value.serializer = NoValue
  <2>1. ~IsOk(r)
    BY <1>7 DEF Serialize, Failed, IsOk
  <2>2. wire' = NoValue /\ result' = r
    BY <1>1, <2>1
  <2>3. origin \notin Serializable \/ resent'
    <3>1. CASE trips = 0
      BY <1>3, <1>4, <1>7, <3>1
    <3>2. CASE trips # 0
      <4>1. trips > 0
        BY <1>2, <3>2
      <4> QED BY <1>1, <4>1, Zenon
    <3> QED BY <3>1, <3>2
  <2> QED
    BY <1>1, <1>2, <1>3, <2>1, <2>2, <2>3
       DEF PolyIInv, InMemory, OnWire, AtReceiver, TypeSafe, Unpacked, Numbers, IsOk
<1> QED BY <1>6, <1>7

\* What arrives is packed as it is, to be parsed later.
LEMMA ArrivesInv == ASSUME PolyIInv, Arrives PROVE PolyIInv'
<1>1. /\ wire # NoValue /\ wire' = NoValue
      /\ value' = Pack(Blob, wire)
      /\ trips' = trips + 1
      /\ UNCHANGED <<origin, content, sent, resent, asked, result>>
  BY DEF Arrives
<1>2. /\ origin \in Packed \cap Serializable
      /\ result = NoValue /\ asked = NoValue /\ ~resent
      /\ wire = [of |-> origin, data |-> sent]
  BY <1>1 DEF PolyIInv, OnWire
<1>3. trips' \in Nat /\ trips' # 0
  BY <1>1 DEF PolyIInv, Numbers
<1>4. origin' # NoValue
  BY <1>1, <1>2, NotBytes
<1>5. \E B \in BytesTypes : value' = Pack(B, [of |-> origin', data |-> sent'])
  BY <1>1, <1>2 DEF BytesTypes
<1> QED
  BY <1>1, <1>2, <1>3, <1>4, <1>5
     DEF PolyIInv, InMemory, OnWire, AtReceiver, Unpacked, Numbers

\* A value in memory is given out if and only if it is stored as the type that was
\* asked for would be.
LEMMA UnpackInMemory ==
  ASSUME NEW v, NEW O \in Packed, NEW data, v = Pack(O, data),
         NEW T \in Types, NEW r \in Unpack(T, v)
  PROVE  IF Stored(T) = Stored(O) THEN r = Ok(Read(v)) ELSE ~IsOk(r)
<1>1. v.stored = Stored(O) /\ ~IsBytes(v)
  BY NotBytes DEF Pack, IsBytes
<1>2. r = ReturnIfError(CheckType(T, v), Ok(Read(v)))
  BY <1>1 DEF Unpack
<1>3. Matches(T, v) <=> Stored(T) = Stored(O)
  BY <1>1 DEF Matches, IsType
<1> QED
  BY <1>2, <1>3 DEF CheckType, ReturnIfError, Failed, IsOk

\* Bytes are parsed as the type that is asked for.
LEMMA UnpackBytes ==
  ASSUME NEW O \in Serializable, NEW data, NEW B \in BytesTypes, NEW T \in Types,
         NEW r \in Unpack(T, Pack(B, [of |-> O, data |-> data]))
  PROVE  /\ T = O => r = Ok(data)
         /\ IsOk(r) /\ T # O => T \in Serializable /\ r.value = Garbage
<1>1. r \in Parse(T, [of |-> O, data |-> data])
  BY BytesPacked DEF Unpack
<1>2. T = O => r = Ok(data)
  BY <1>1 DEF Parse
<1>3. T # O => \/ r = Failed("UNAVAILABLE")
               \/ r = Failed("INTERNAL")
               \/ T \in Serializable /\ r = Ok(Garbage)
  BY <1>1 DEF Parse
<1>4. ~IsOk(Failed("UNAVAILABLE")) /\ ~IsOk(Failed("INTERNAL")) /\ Ok(Garbage).value = Garbage
  BY DEF IsOk, Failed, Ok
<1> QED
  BY <1>2, <1>3, <1>4

\* The receiver asks for some type.
LEMMA UnpacksInv == ASSUME PolyIInv, ReceiverUnpacks PROVE PolyIInv'
<1>1. PICK T \in Types : asked' = T /\ result' \in Unpack(T, value)
  BY DEF ReceiverUnpacks
<1>2. /\ value # NoValue /\ value' = NoValue
      /\ sent' = IF value.shared /\ ~IsBytes(value) THEN content ELSE sent
      /\ UNCHANGED <<origin, content, wire, trips, resent>>
  BY DEF ReceiverUnpacks
<1>3. origin \in Packed /\ wire = NoValue /\ trips \in Nat
  BY <1>2 DEF PolyIInv, InMemory, Numbers
<1>4. origin # NoValue /\ asked' # NoValue
  BY <1>1, <1>3, NotBytes, PolyValueAssumption
<1>5. CASE trips = 0
  <2>1. PICK data : /\ value = Pack(origin, data)
                    /\ origin \notin SharedMsgs \cup Pointers => data = sent
    BY <1>2, <1>5 DEF PolyIInv, InMemory
  <2>2. /\ value.shared = (origin \in SharedMsgs \cup Pointers) /\ value.data = data
        /\ ~IsBytes(value)
    BY <1>3, <2>1, NotBytes DEF Pack, IsBytes
  <2>3. Read(value) = sent'
    BY <1>2, <2>1, <2>2 DEF Read
  <2>4. IF Stored(asked') = Stored(origin) THEN result' = Ok(sent') ELSE ~IsOk(result')
    BY <1>1, <1>3, <2>1, <2>3, UnpackInMemory
  <2>5. asked' = origin' => result' = Ok(sent')
    BY <1>2, <2>4
  <2>6. Ok(sent').value = sent'
    BY DEF Ok
  <2>7. TypeSafe'
    BY <1>2, <1>5, <2>4, <2>6 DEF TypeSafe, SameStored
  <2> QED
    BY <1>2, <1>3, <1>4, <2>5, <2>7
       DEF PolyIInv, InMemory, OnWire, AtReceiver, Unpacked, Numbers
<1>6. CASE trips # 0
  <2>1. PICK B \in BytesTypes : value = Pack(B, [of |-> origin, data |-> sent])
    BY <1>2, <1>6 DEF PolyIInv, InMemory
  <2>2. origin \in Serializable
    BY <1>2, <1>6 DEF PolyIInv, InMemory
  <2>3. sent' = sent
    BY <1>2, <2>1, BytesPacked
  <2>4. /\ asked' = origin => result' = Ok(sent')
        /\ IsOk(result') /\ asked' # origin =>
             asked' \in Serializable /\ result'.value = Garbage
    BY <1>1, <2>1, <2>2, <2>3, UnpackBytes
  <2>5. Ok(sent').value = sent' /\ trips > 0
    BY <1>3, <1>6 DEF Ok
  <2>6. TypeSafe'
    BY <1>2, <2>4, <2>5 DEF TypeSafe
  <2> QED
    BY <1>2, <1>3, <1>4, <1>6, <2>4, <2>6
       DEF PolyIInv, InMemory, OnWire, AtReceiver, Unpacked, Numbers
<1> QED BY <1>5, <1>6

\* The invariant is kept by every step.
LEMMA PolyStepInv == ASSUME PolyIInv, [PolyNext]_polyVars PROVE PolyIInv'
<1>1. CASE UNCHANGED polyVars
  BY <1>1 DEF polyVars, PolyIInv, InMemory, OnWire, AtReceiver, TypeSafe, Unpacked, Numbers
<1>2. CASE Received
  BY <1>1, <1>2 DEF Received
<1> QED
  BY <1>1, <1>2, PacksInv, PacksBytesInv, WritesInv, GoesOutInv, ArrivesInv, UnpacksInv
     DEF PolyNext

\* The invariant holds in every reachable state.
LEMMA PolyInvariance == PolySpec => []PolyIInv
  BY PolyInitInv, PolyStepInv, PTL DEF PolySpec

-----------------------------------------------------------------------------

\* A receiver gets what was sent, as the type it was packed as, except that U and
\* shared_ptr<U> are not told apart in memory if U can be moved only (poly_value.h:247),
\* and that bytes may be parsed into a message of another type (poly_value.h:271).
THEOREM ValuesAreTypeSafe == PolySpec => []TypeSafe
<1>1. PolyIInv => TypeSafe
  <2>1. AtReceiver /\ result # NoValue => TypeSafe
    BY DEF AtReceiver
  <2>2. result = NoValue => TypeSafe
    BY DEF TypeSafe
  <2> QED BY <2>1, <2>2 DEF PolyIInv
<1> QED BY <1>1, PolyInvariance, PTL

\* Who asks for the right type gets the value as it left the sender, from memory
\* as from the network (poly_value.h:70), and only what cannot be serialized is lost.
THEOREM ValuesMakeTheRoundTrip == PolySpec => []RoundTrip
<1>1. PolyIInv => RoundTrip
  <2>1. ASSUME AtReceiver, result # NoValue
        PROVE  /\ asked = origin => result = Ok(sent)
               /\ asked = NoValue => origin \notin Serializable \/ resent
    BY <2>1 DEF AtReceiver
  <2> QED BY <2>1 DEF PolyIInv, RoundTrip
<1> QED BY <1>1, PolyInvariance, PTL

=============================================================================
