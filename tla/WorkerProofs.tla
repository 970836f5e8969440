---------------------------- MODULE WorkerProofs ----------------------------
(***************************************************************************)
(* Proofs about Worker, for every set of workers and of tasks: nothing is     *)
(* stranded in a worker, a worker destroyed once its tasks returned has at     *)
(* most the rest of one closure to come, and workers take the steps of the    *)
(* abstract serial executor only.                                             *)
(***************************************************************************)
EXTENDS Worker, Integers, TLAPS

\* A worker has a closure with the scheduler if and only if running_ says so,
\* and one of them at most; and it has one if tasks are queued.
OneClosure(w) == /\ running[w] <=> Of(w) # {}
                 /\ \A c, d \in Of(w) : c = d
                 /\ steps[w] # <<>> => running[w]

\* A task that was scheduled has returned, or it waits or runs.
NothingLost(w) ==
  Elements(scheduled[w]) \subseteq
    returned \cup {c.task : c \in Of(w)} \cup Elements(steps[w])

\* A closure that is past its task knows that the task has returned.
Past == \A c \in closures : c.stage \in {"check", "relock"} => c.task \in returned

IInv == /\ TypeOK
        /\ Past
        /\ \A w \in Workers : OneClosure(w) /\ NothingLost(w)

-----------------------------------------------------------------------------
(* Sequences as queues.                                                      *)

\* What a queue holds after emplace_back.
LEMMA AppendElements ==
  ASSUME NEW S, NEW s \in Seq(S), NEW k \in S
  PROVE  /\ Append(s, k) \in Seq(S)
         /\ Elements(Append(s, k)) = Elements(s) \cup {k}
<1>1. Append(s, k) \in Seq(S)
  OBVIOUS
<1>2. DOMAIN Append(s, k) = (DOMAIN s) \cup {Len(s) + 1}
  OBVIOUS
<1>3. /\ Append(s, k)[Len(s) + 1] = k
      /\ \A i \in DOMAIN s : Append(s, k)[i] = s[i]
  OBVIOUS
<1> QED
  BY <1>1, <1>2, <1>3 DEF Elements

\* What a queue held before pop_front.
LEMMA TailElements ==
  ASSUME NEW S, NEW s \in Seq(S), s # <<>>
  PROVE  /\ Head(s) \in S
         /\ Tail(s) \in Seq(S)
         /\ Elements(s) \subseteq {Head(s)} \cup Elements(Tail(s))
<1>1. Head(s) \in S /\ Tail(s) \in Seq(S)
  OBVIOUS
<1>2. SUFFICES ASSUME NEW i \in DOMAIN s, i # 1
               PROVE  s[i] \in Elements(Tail(s))
  BY <1>1 DEF Elements
<1>3. i - 1 \in DOMAIN Tail(s) /\ Tail(s)[i - 1] = s[i]
  BY <1>2
<1> QED
  BY <1>3 DEF Elements

\* A task that becomes the first one in the queue of an empty worker.
LEMMA EmptyElements == Elements(<<>>) = {}
  BY DEF Elements

-----------------------------------------------------------------------------
(* The steps.                                                                *)

\* The invariant holds initially: there are no tasks.
LEMMA InitInv == Init => IInv
<1> SUFFICES ASSUME Init PROVE IInv
  OBVIOUS
<1>1. TypeOK /\ Past
  BY DEF Init, TypeOK, Past
<1>2. ASSUME NEW w \in Workers PROVE OneClosure(w) /\ NothingLost(w)
  BY EmptyElements DEF Init, OneClosure, NothingLost, Of
<1> QED
  BY <1>1, <1>2 DEF IInv

\* Schedule(w, k): a closure is submitted if the worker has none, and the task
\* is queued otherwise.
LEMMA ScheduleInv ==
  ASSUME IInv, NEW w \in Workers, NEW k \in Tasks, Schedule(w, k)
  PROVE  IInv'
<1> DEFINE q == Append(steps[w], k)
           new == [worker |-> w, task |-> k, stage |-> "pending"]
<1>1. TypeOK /\ Past
      /\ \A v \in Workers : OneClosure(v) /\ NothingLost(v)
  BY DEF IInv
<1>2. /\ scheduled' = [scheduled EXCEPT ![w] = Append(@, k)]
      /\ MaybeRunNext(w, q, running[w], closures)
      /\ marker[w]
      /\ UNCHANGED <<marker, started, returned, fault>>
  BY DEF Schedule, PushedBack
<1>3. /\ q \in Seq(Tasks) /\ Elements(q) = Elements(steps[w]) \cup {k}
      /\ scheduled'[w] \in Seq(Tasks)
      /\ Elements(scheduled'[w]) = Elements(scheduled[w]) \cup {k}
      /\ \A v \in Workers \ {w} : scheduled'[v] = scheduled[v]
  BY <1>1, <1>2, AppendElements DEF TypeOK
<1>4. scheduled' \in [Workers -> Seq(Tasks)]
  BY <1>1, <1>2, <1>3 DEF TypeOK
<1>5. CASE running[w]
  <2>1. /\ steps' = [steps EXCEPT ![w] = q]
        /\ running' = [running EXCEPT ![w] = TRUE]
        /\ closures' = closures
    BY <1>1, <1>2, <1>5 DEF MaybeRunNext, NothingToStart, TypeOK
  <2>2. TypeOK' /\ Past'
    BY <1>1, <1>2, <1>3, <1>4, <2>1 DEF TypeOK, Past
  <2>3. ASSUME NEW v \in Workers PROVE OneClosure(v)' /\ NothingLost(v)'
    <3>1. Of(v)' = Of(v)
      BY <2>1 DEF Of
    <3>2. CASE v = w
      BY <1>1, <1>2, <1>3, <1>5, <2>1, <3>1, <3>2 DEF OneClosure, NothingLost, TypeOK
    <3>3. CASE v # w
      BY <1>1, <1>2, <1>3, <2>1, <3>1, <3>3 DEF OneClosure, NothingLost, TypeOK
    <3> QED
      BY <3>2, <3>3
  <2> QED
    BY <2>2, <2>3 DEF IInv
<1>6. CASE ~running[w]
  <2>1. steps[w] = <<>> /\ Of(w) = {}
    BY <1>1, <1>6 DEF OneClosure
  <2>2. q = <<k>> /\ q # <<>> /\ Head(q) = k /\ Tail(q) = <<>>
    BY <2>1
  <2>3. /\ steps' = [steps EXCEPT ![w] = <<>>]
        /\ running' = [running EXCEPT ![w] = TRUE]
        /\ closures' = closures \cup {new}
    BY <1>2, <1>6, <2>2 DEF MaybeRunNext, NothingToStart
  <2>4. new \in Closure
    BY DEF Closure, Stages
  <2>5. TypeOK'
    BY <1>1, <1>2, <1>4, <2>3, <2>4 DEF TypeOK
  <2>6. Past'
    BY <1>1, <1>2, <2>3 DEF Past
  <2>7. ASSUME NEW v \in Workers PROVE OneClosure(v)' /\ NothingLost(v)'
    <3>1. CASE v = w
      <4>1. Of(v)' = {new}
        BY <2>1, <2>3, <3>1 DEF Of
      <4>2. steps'[v] = <<>> /\ running'[v] /\ marker'[v]
        BY <1>1, <1>2, <2>3, <3>1 DEF TypeOK
      <4>3. OneClosure(v)'
        BY <4>1, <4>2 DEF OneClosure
      <4>4. {c.task : c \in Of(v)'} = {k}
        BY <4>1
      <4>5. Elements(scheduled[v]) \subseteq returned
        BY <1>1, <2>1, <3>1, EmptyElements DEF NothingLost
      <4>6. Elements(scheduled'[v]) \subseteq returned' \cup {c.task : c \in Of(v)'}
        BY <1>2, <1>3, <3>1, <4>4, <4>5
      <4> QED
        BY <4>3, <4>6 DEF NothingLost
    <3>2. CASE v # w
      <4>1. Of(v)' = Of(v)
        BY <2>3, <3>2 DEF Of
      <4> QED
        BY <1>1, <1>2, <1>3, <2>3, <3>2, <4>1 DEF OneClosure, NothingLost, TypeOK
    <3> QED
      BY <3>1, <3>2
  <2> QED
    BY <2>5, <2>6, <2>7 DEF IInv
<1> QED
  BY <1>5, <1>6

\* A closure that goes to another stage remains the closure of its worker.
LEMMA MoveFacts ==
  ASSUME IInv, NEW c \in closures, NEW s \in Stages, MoveTo(c, s)
  PROVE  /\ closures' \subseteq Closure
         /\ \A w \in Workers : /\ Of(w)' # {} <=> Of(w) # {}
                               /\ \A d, e \in Of(w)' : d = e
                               /\ {d.task : d \in Of(w)'} = {d.task : d \in Of(w)}
<1> DEFINE m == [c EXCEPT !.stage = s]
<1>1. closures' = (closures \ {c}) \cup {m}
  BY DEF MoveTo
<1>2. c \in Closure /\ closures \subseteq Closure
  BY DEF IInv, TypeOK
<1>3. m \in Closure /\ m.worker = c.worker /\ m.task = c.task
  BY <1>2 DEF Closure
<1>4. closures' \subseteq Closure
  BY <1>1, <1>2, <1>3
<1>5. ASSUME NEW w \in Workers
      PROVE  /\ Of(w)' # {} <=> Of(w) # {}
             /\ \A d, e \in Of(w)' : d = e
             /\ {d.task : d \in Of(w)'} = {d.task : d \in Of(w)}
  <2>1. \A d, e \in Of(w) : d = e
    BY DEF IInv, OneClosure
  <2>2. CASE c.worker = w
    <3>1. c \in Of(w) /\ Of(w) = {c}
      BY <2>1, <2>2 DEF Of
    <3>2. Of(w)' = {m}
      BY <1>1, <1>3, <2>2, <3>1 DEF Of
    <3>3. {d.task : d \in Of(w)'} = {m.task} /\ {d.task : d \in Of(w)} = {c.task}
      BY <3>1, <3>2
    <3> QED
      BY <1>3, <3>1, <3>2, <3>3
  <2>3. CASE c.worker # w
    <3>1. Of(w)' = Of(w)
      BY <1>1, <1>3, <2>3 DEF Of
    <3> QED
      BY <2>1, <3>1
  <2> QED
    BY <2>2, <2>3
<1> QED
  BY <1>4, <1>5

\* A step of a closure within its worker's turn preserves the invariant when the
\* task has returned by the time it is past the task.
LEMMA StageInv ==
  ASSUME IInv, NEW c \in closures, NEW s \in Stages, MoveTo(c, s),
         s \in {"check", "relock"} => c.task \in returned',
         returned \subseteq returned', returned' \subseteq Tasks,
         started' \in [Workers -> Seq(Tasks)],
         fault' \in {"none", "abort", "stale"},
         UNCHANGED <<steps, running, marker, scheduled>>
  PROVE  IInv'
<1>1. TypeOK'
  BY MoveFacts DEF IInv, TypeOK
<1>2. Past'
  <2>1. c \in Closure
    BY DEF IInv, TypeOK
  <2>2. /\ [c EXCEPT !.stage = s].task = c.task
        /\ [c EXCEPT !.stage = s].stage = s
    BY <2>1 DEF Closure
  <2> QED
    BY <2>2 DEF IInv, Past, MoveTo
<1>3. ASSUME NEW w \in Workers PROVE OneClosure(w)' /\ NothingLost(w)'
  <2>1. OneClosure(w) /\ NothingLost(w)
    BY DEF IInv
  <2>2. /\ Of(w)' # {} <=> Of(w) # {}
        /\ \A d, e \in Of(w)' : d = e
        /\ {d.task : d \in Of(w)'} = {d.task : d \in Of(w)}
    BY MoveFacts
  <2>3. OneClosure(w)'
    BY <2>1, <2>2 DEF OneClosure
  <2>4. Elements(scheduled[w])' = Elements(scheduled[w])
        /\ Elements(steps[w])' = Elements(steps[w])
    OBVIOUS
  <2>5. NothingLost(w)'
    BY <2>1, <2>2, <2>4 DEF NothingLost
  <2> QED
    BY <2>3, <2>5
<1> QED
  BY <1>1, <1>2, <1>3 DEF IInv

\* Begin(c): the task is begun.
LEMMA BeginInv ==
  ASSUME IInv, NEW c \in closures, Begin(c)
  PROVE  IInv'
<1>1. c.worker \in Workers /\ c.task \in Tasks
  BY DEF IInv, TypeOK, Closure
<1>2. started' = [started EXCEPT ![c.worker] = Append(@, c.task)]
  BY DEF Begin
<1>3. started \in [Workers -> Seq(Tasks)]
  BY DEF IInv, TypeOK
<1>4. Append(started[c.worker], c.task) \in Seq(Tasks)
  BY <1>1, <1>3, AppendElements
<1>5. started' \in [Workers -> Seq(Tasks)]
  BY <1>2, <1>3, <1>4
<1>6. MoveTo(c, "body") /\ fault' \in {"none", "abort", "stale"}
      /\ UNCHANGED <<steps, running, marker, scheduled, returned>>
  BY DEF Begin, IInv, TypeOK
<1>7. returned \subseteq Tasks
  BY DEF IInv, TypeOK
<1>8. "body" \in Stages
  BY DEF Stages
<1> QED
  BY <1>5, <1>6, <1>7, <1>8, StageInv

\* Return(c): the function of the task returns.
LEMMA ReturnInv ==
  ASSUME IInv, NEW c \in closures, Return(c)
  PROVE  IInv'
<1>1. c.task \in Tasks /\ returned \subseteq Tasks
      /\ started \in [Workers -> Seq(Tasks)]
  BY DEF IInv, TypeOK, Closure
<1>2. /\ MoveTo(c, "check")
      /\ returned' = returned \cup {c.task}
      /\ fault' \in {"none", "abort", "stale"}
      /\ UNCHANGED <<steps, running, marker, scheduled, started>>
  BY DEF Return, IInv, TypeOK
<1>3. "check" \in Stages
  BY DEF Stages
<1> QED
  BY <1>1, <1>2, <1>3, StageInv

\* CheckMarker(c): the closure goes on, or aborts the program.
LEMMA CheckMarkerInv ==
  ASSUME IInv, NEW c \in closures, CheckMarker(c)
  PROVE  IInv'
<1>1. c.task \in returned /\ returned \subseteq Tasks
      /\ started \in [Workers -> Seq(Tasks)]
  BY DEF CheckMarker, IInv, Past, TypeOK
<1>2. /\ MoveTo(c, "relock")
      /\ fault' \in {"none", "abort", "stale"}
      /\ UNCHANGED <<steps, running, marker, scheduled, started, returned>>
  BY DEF CheckMarker
<1>3. "relock" \in Stages
  BY DEF Stages
<1> QED
  BY <1>1, <1>2, <1>3, StageInv

\* RunNext(c): the worker gives up its closure, and has another one if and only
\* if a task is queued.
LEMMA RunNextInv ==
  ASSUME IInv, NEW c \in closures, RunNext(c)
  PROVE  IInv'
<1> DEFINE w == c.worker
           q == steps[w]
           new == [worker |-> w, task |-> Head(q), stage |-> "pending"]
<1>1. TypeOK /\ Past
      /\ \A v \in Workers : OneClosure(v) /\ NothingLost(v)
  BY DEF IInv
<1>2. /\ w \in Workers /\ c \in Of(w) /\ Of(w) = {c}
      /\ c.task \in returned
      /\ q \in Seq(Tasks)
  <2>1. w \in Workers /\ c \in Of(w)
    BY <1>1 DEF TypeOK, Closure, Of
  <2>2. Of(w) = {c}
    BY <1>1, <2>1 DEF OneClosure
  <2>3. c.task \in returned
    BY <1>1 DEF RunNext, Past
  <2> QED
    BY <1>1, <2>1, <2>2, <2>3 DEF TypeOK
<1>3. /\ MaybeRunNext(w, q, FALSE, closures \ {c})
      /\ fault' \in {"none", "abort", "stale"}
      /\ UNCHANGED <<marker, scheduled, started, returned>>
  BY <1>2 DEF RunNext
<1>4. ASSUME NEW v \in Workers, v # w, Of(v)' = Of(v),
             steps'[v] = steps[v], running'[v] = running[v]
      PROVE  OneClosure(v)' /\ NothingLost(v)'
  BY <1>1, <1>3, <1>4 DEF OneClosure, NothingLost
<1>5. {d.task : d \in Of(w)} \subseteq returned
  BY <1>2
<1>6. CASE q = <<>>
  <2>1. /\ steps' = [steps EXCEPT ![w] = q]
        /\ running' = [running EXCEPT ![w] = FALSE]
        /\ closures' = closures \ {c}
    BY <1>3, <1>6 DEF MaybeRunNext, NothingToStart
  <2>2. TypeOK' /\ Past'
    BY <1>1, <1>2, <1>3, <2>1 DEF TypeOK, Past
  <2>3. ASSUME NEW v \in Workers PROVE OneClosure(v)' /\ NothingLost(v)'
    <3>1. CASE v = w
      <4>1. Of(v)' = {}
        BY <1>2, <2>1, <3>1 DEF Of
      <4>2. steps'[v] = <<>> /\ ~running'[v]
        BY <1>1, <1>2, <1>6, <2>1, <3>1 DEF TypeOK
      <4>3. OneClosure(v)'
        BY <4>1, <4>2 DEF OneClosure
      <4>4. Elements(scheduled[v]) \subseteq returned
        BY <1>1, <1>2, <1>5, <1>6, <3>1, EmptyElements DEF NothingLost
      <4>5. Elements(scheduled[v])' \subseteq returned'
        BY <1>3, <4>4
      <4> QED
        BY <4>3, <4>5 DEF NothingLost
    <3>2. CASE v # w
      <4>1. Of(v)' = Of(v)
        BY <2>1, <3>2 DEF Of
      <4>2. steps'[v] = steps[v] /\ running'[v] = running[v]
        BY <1>1, <2>1, <3>2 DEF TypeOK
      <4> QED
        BY <1>4, <3>2, <4>1, <4>2
    <3> QED
      BY <3>1, <3>2
  <2> QED
    BY <2>2, <2>3 DEF IInv
<1>7. CASE q # <<>>
  <2>1. /\ steps' = [steps EXCEPT ![w] = Tail(q)]
        /\ running' = [running EXCEPT ![w] = TRUE]
        /\ closures' = (closures \ {c}) \cup {new}
    BY <1>3, <1>7 DEF MaybeRunNext, NothingToStart
  <2>2. /\ Head(q) \in Tasks /\ Tail(q) \in Seq(Tasks)
        /\ Elements(q) \subseteq {Head(q)} \cup Elements(Tail(q))
    BY <1>2, <1>7, TailElements
  <2>3. new \in Closure
    BY <1>2, <2>2 DEF Closure, Stages
  <2>4. TypeOK'
    BY <1>1, <1>2, <1>3, <2>1, <2>2, <2>3 DEF TypeOK
  <2>5. Past'
    BY <1>1, <1>3, <2>1 DEF Past
  <2>6. ASSUME NEW v \in Workers PROVE OneClosure(v)' /\ NothingLost(v)'
    <3>1. CASE v = w
      <4>1. Of(v)' = {new}
        BY <1>2, <2>1, <3>1 DEF Of
      <4>2. running'[v] /\ steps'[v] = Tail(q)
        BY <1>1, <1>2, <1>3, <2>1, <3>1 DEF TypeOK
      <4>3. OneClosure(v)'
        BY <4>1, <4>2 DEF OneClosure
      <4>4. {d.task : d \in Of(v)'} = {Head(q)}
        BY <4>1
      <4>5. Elements(scheduled[v]) \subseteq returned \cup Elements(q)
        BY <1>1, <1>2, <1>5, <3>1 DEF NothingLost
      <4>6. Elements(scheduled[v])' \subseteq
              returned' \cup {d.task : d \in Of(v)'} \cup Elements(steps[v])'
        BY <1>3, <2>2, <4>2, <4>4, <4>5
      <4> QED
        BY <4>3, <4>6 DEF NothingLost
    <3>2. CASE v # w
      <4>1. Of(v)' = Of(v)
        BY <2>1, <3>2 DEF Of
      <4>2. steps'[v] = steps[v] /\ running'[v] = running[v]
        BY <1>1, <2>1, <3>2 DEF TypeOK
      <4> QED
        BY <1>4, <3>2, <4>1, <4>2
    <3> QED
      BY <3>1, <3>2
  <2> QED
    BY <2>4, <2>5, <2>6 DEF IInv
<1> QED
  BY <1>6, <1>7

\* Destroy(w): nothing but the marker changes.
LEMMA DestroyInv ==
  ASSUME IInv, NEW w \in Workers, Destroy(w)
  PROVE  IInv'
<1>1. /\ marker' = [marker EXCEPT ![w] = FALSE]
      /\ UNCHANGED <<steps, running, closures, scheduled, started, returned,
                     fault>>
  BY DEF Destroy
<1>2. TypeOK' /\ Past'
  BY <1>1 DEF IInv, TypeOK, Past
<1>3. ASSUME NEW v \in Workers PROVE OneClosure(v)' /\ NothingLost(v)'
  <2>1. OneClosure(v) /\ NothingLost(v)
    BY DEF IInv
  <2>2. Of(v)' = Of(v)
    BY <1>1 DEF Of
  <2> QED
    BY <1>1, <2>1, <2>2 DEF OneClosure, NothingLost
<1> QED
  BY <1>2, <1>3 DEF IInv

\* A step that changes nothing.
LEMMA StutterInv ==
  ASSUME IInv, UNCHANGED vars
  PROVE  IInv'
  BY DEF vars, IInv, TypeOK, Past, OneClosure, NothingLost, Of

\* IInv is an inductive invariant of the workers.
LEMMA NextInv == IInv /\ [Next]_vars => IInv'
<1> SUFFICES ASSUME IInv, [Next]_vars PROVE IInv'
  OBVIOUS
<1>1. CASE \E w \in Workers, k \in Tasks : Schedule(w, k)
  BY <1>1, ScheduleInv
<1>2. ASSUME NEW c \in closures, ClosureStep(c)
      PROVE  IInv'
  BY <1>2, BeginInv, ReturnInv, CheckMarkerInv, RunNextInv DEF ClosureStep
<1>3. CASE \E w \in Workers : Destroy(w)
  BY <1>3, DestroyInv
<1>4. CASE Terminated \/ UNCHANGED vars
  BY <1>4, StutterInv DEF Terminated
<1> QED
  BY <1>1, <1>2, <1>3, <1>4 DEF Next

\* The invariant holds in every state that the workers reach.
LEMMA Invariance == Spec => []IInv
  BY InitInv, NextInv, PTL DEF Spec

-----------------------------------------------------------------------------
(* What follows from the invariant.                                          *)

\* An idle scheduler has nothing left of any worker: every task that was given
\* to Schedule has returned, whichever way Schedule and the end of the tasks
\* before it interleaved (MaybeRunNext, lines 62-86).
THEOREM WorkersAreDrained == Spec => []IdleMeansDrained
<1>1. IInv => IdleMeansDrained
  <2> SUFFICES ASSUME IInv PROVE IdleMeansDrained
    OBVIOUS
  <2>1. \A w \in Workers : OneClosure(w) /\ NothingLost(w)
    BY DEF IInv
  <2>2. ASSUME closures = {}, NEW w \in Workers
        PROVE  Elements(scheduled[w]) \subseteq returned
    <3>1. Of(w) = {} /\ {c.task : c \in Of(w)} = {}
      BY <2>2 DEF Of
    <3>2. steps[w] \in Seq(Tasks) /\ steps[w] = <<>>
      BY <2>1, <3>1 DEF OneClosure, IInv, TypeOK
    <3> QED
      BY <2>1, <3>1, <3>2, EmptyElements DEF NothingLost
  <2>3. \A w \in Workers : /\ running[w] <=> Of(w) # {}
                           /\ \A c, d \in Of(w) : c = d
                           /\ steps[w] # <<>> => running[w]
    BY <2>1 DEF OneClosure
  <2> QED
    BY <2>2, <2>3 DEF IdleMeansDrained
<1> QED
  BY <1>1, Invariance, PTL

-----------------------------------------------------------------------------
(* What a destroyed worker has left.                                         *)

\* No task occurs twice in a queue.
Distinct(s) == \A i, j \in DOMAIN s : s[i] = s[j] => i = j

\* Every task is in one place: with one worker, in its queue or with its closure,
\* and it returns from there once.
EachOnce ==
  /\ \A k \in returned : k \notin Unscheduled
  /\ \A v, w \in Workers :
       v # w => Elements(scheduled[v]) \cap Elements(scheduled[w]) = {}
  /\ \A w \in Workers : /\ Distinct(steps[w])
                        /\ Elements(steps[w]) \subseteq Elements(scheduled[w])
                        /\ Elements(steps[w]) \cap returned = {}
  /\ \A c \in closures :
       /\ c.task \in Elements(scheduled[c.worker])
       /\ c.task \notin Elements(steps[c.worker])
       /\ c.stage \in {"pending", "body"} => c.task \notin returned

\* A worker is destroyed when its tasks have returned, and a closure comes late
\* for a destroyed worker only.
DestroyedWhenDone ==
  /\ \A w \in Workers : ~marker[w] => Elements(scheduled[w]) \subseteq returned
  /\ fault # "none" => \E w \in Workers : ~marker[w]

\* IInv, and the places of the tasks.
IOnce == IInv /\ EachOnce /\ DestroyedWhenDone

\* A queue without duplicates keeps none when a new task is put behind it.
LEMMA AppendDistinct ==
  ASSUME NEW S, NEW s \in Seq(S), NEW k \in S, Distinct(s), k \notin Elements(s)
  PROVE  Distinct(Append(s, k))
<1>1. /\ DOMAIN Append(s, k) = (DOMAIN s) \cup {Len(s) + 1}
      /\ Append(s, k)[Len(s) + 1] = k
      /\ \A i \in DOMAIN s : Append(s, k)[i] = s[i]
  OBVIOUS
<1>2. \A i \in DOMAIN s : s[i] # k
  BY DEF Elements
<1> QED
  BY <1>1, <1>2 DEF Distinct

\* The first task of a queue without duplicates is not behind itself.
LEMMA TailDistinct ==
  ASSUME NEW S, NEW s \in Seq(S), Distinct(s), s # <<>>
  PROVE  /\ Distinct(Tail(s))
         /\ Head(s) \in Elements(s)
         /\ Head(s) \notin Elements(Tail(s))
         /\ Elements(Tail(s)) \subseteq Elements(s)
<1>1. \A i \in DOMAIN Tail(s) : /\ i + 1 \in DOMAIN s
                                /\ Tail(s)[i] = s[i + 1]
                                /\ i \in Nat \ {0}
  OBVIOUS
<1>2. 1 \in DOMAIN s /\ Head(s) = s[1]
  OBVIOUS
<1>3. Distinct(Tail(s))
  <2> SUFFICES ASSUME NEW i \in DOMAIN Tail(s), NEW j \in DOMAIN Tail(s),
                      Tail(s)[i] = Tail(s)[j]
               PROVE  i = j
    BY DEF Distinct
  <2>1. i + 1 = j + 1
    BY <1>1 DEF Distinct
  <2> QED
    BY <1>1, <2>1
<1>4. Elements(Tail(s)) \subseteq Elements(s)
  BY <1>1 DEF Elements
<1>5. \A i \in DOMAIN Tail(s) : Tail(s)[i] # Head(s)
  <2> SUFFICES ASSUME NEW i \in DOMAIN Tail(s), Tail(s)[i] = Head(s)
               PROVE  FALSE
    OBVIOUS
  <2>1. i + 1 = 1
    BY <1>1, <1>2 DEF Distinct
  <2> QED
    BY <1>1, <2>1
<1> QED
  BY <1>2, <1>3, <1>4, <1>5 DEF Elements

\* Schedule(w, k): k is new, and is with w from now on.
LEMMA ScheduleOnce ==
  ASSUME IOnce, NEW w \in Workers, NEW k \in Tasks, Schedule(w, k)
  PROVE  EachOnce' /\ DestroyedWhenDone'
<1> DEFINE q == Append(steps[w], k)
           new == [worker |-> w, task |-> k, stage |-> "pending"]
<1>1. TypeOK /\ OneClosure(w) /\ EachOnce /\ DestroyedWhenDone
  BY DEF IOnce, IInv
<1>2. /\ scheduled' = [scheduled EXCEPT ![w] = Append(@, k)]
      /\ MaybeRunNext(w, q, running[w], closures)
      /\ marker[w]
      /\ k \in Unscheduled
      /\ UNCHANGED <<marker, started, returned, fault>>
  BY DEF Schedule, PushedBack
<1>3. /\ k \notin returned
      /\ \A v \in Workers : k \notin Elements(scheduled[v])
      /\ \A v \in Workers : k \notin Elements(steps[v])
      /\ \A c \in closures : c.task # k
  BY <1>1, <1>2 DEF EachOnce, Unscheduled, TypeOK, Closure
<1>4. /\ Elements(scheduled'[w]) = Elements(scheduled[w]) \cup {k}
      /\ \A v \in Workers \ {w} : scheduled'[v] = scheduled[v]
  BY <1>1, <1>2, AppendElements DEF TypeOK
<1>5. /\ \A j \in returned' : j \notin Unscheduled'
      /\ \A u, v \in Workers :
           u # v => Elements(scheduled'[u]) \cap Elements(scheduled'[v]) = {}
  <2>1. \A v \in Workers : Elements(scheduled[v]) \subseteq Elements(scheduled'[v])
    BY <1>4
  <2>2. \A j \in returned' : j \notin Unscheduled'
    BY <1>1, <1>2, <2>1 DEF EachOnce, Unscheduled
  <2>3. \A u, v \in Workers :
           u # v => Elements(scheduled'[u]) \cap Elements(scheduled'[v]) = {}
    BY <1>1, <1>3, <1>4 DEF EachOnce
  <2> QED
    BY <2>2, <2>3
<1>6. DestroyedWhenDone'
  BY <1>1, <1>2, <1>4 DEF DestroyedWhenDone
<1>7. CASE running[w]
  <2>1. steps' = [steps EXCEPT ![w] = q] /\ closures' = closures
    BY <1>1, <1>2, <1>7 DEF MaybeRunNext, NothingToStart
  <2>2. /\ steps'[w] = q /\ \A v \in Workers \ {w} : steps'[v] = steps[v]
        /\ Elements(q) = Elements(steps[w]) \cup {k}
        /\ Distinct(q)
    BY <1>1, <1>3, <2>1, AppendElements, AppendDistinct DEF TypeOK, EachOnce
  <2>3. ASSUME NEW v \in Workers
        PROVE  /\ Distinct(steps'[v])
               /\ Elements(steps'[v]) \subseteq Elements(scheduled'[v])
               /\ Elements(steps'[v]) \cap returned' = {}
    <3>1. /\ Distinct(steps[v])
          /\ Elements(steps[v]) \subseteq Elements(scheduled[v])
          /\ Elements(steps[v]) \cap returned = {}
      BY <1>1 DEF EachOnce
    <3>2. CASE v = w
      BY <1>2, <1>3, <1>4, <2>2, <3>1, <3>2
    <3>3. CASE v # w
      BY <1>2, <1>4, <2>2, <3>1, <3>3
    <3> QED
      BY <3>2, <3>3
  <2>4. ASSUME NEW c \in closures'
        PROVE  /\ c.task \in Elements(scheduled'[c.worker])
               /\ c.task \notin Elements(steps'[c.worker])
               /\ c.stage \in {"pending", "body"} => c.task \notin returned'
    BY <1>1, <1>2, <1>3, <1>4, <2>1, <2>2 DEF EachOnce, TypeOK, Closure
  <2> QED
    BY <1>5, <1>6, <2>3, <2>4 DEF EachOnce
<1>8. CASE ~running[w]
  <2>1. steps[w] = <<>> /\ Of(w) = {}
    BY <1>1, <1>8 DEF OneClosure
  <2>2. q = <<k>> /\ q # <<>> /\ Head(q) = k /\ Tail(q) = <<>>
    BY <2>1
  <2>3. steps' = [steps EXCEPT ![w] = <<>>] /\ closures' = closures \cup {new}
    BY <1>2, <1>8, <2>2 DEF MaybeRunNext, NothingToStart
  <2>4. \A v \in Workers : steps'[v] = steps[v]
    BY <1>1, <2>1, <2>3 DEF TypeOK
  <2>5. ASSUME NEW v \in Workers
        PROVE  /\ Distinct(steps'[v])
               /\ Elements(steps'[v]) \subseteq Elements(scheduled'[v])
               /\ Elements(steps'[v]) \cap returned' = {}
    BY <1>1, <1>2, <1>3, <1>4, <2>4 DEF EachOnce
  <2>6. ASSUME NEW c \in closures'
        PROVE  /\ c.task \in Elements(scheduled'[c.worker])
               /\ c.task \notin Elements(steps'[c.worker])
               /\ c.stage \in {"pending", "body"} => c.task \notin returned'
    <3>1. CASE c = new
      <4>1. c.task = k /\ c.worker = w
        BY <3>1
      <4> QED
        BY <1>2, <1>3, <1>4, <2>4, <4>1
    <3>2. CASE c \in closures
      BY <1>1, <1>2, <1>3, <1>4, <2>4, <3>2 DEF EachOnce, TypeOK, Closure
    <3> QED
      BY <2>3, <3>1, <3>2
  <2> QED
    BY <1>5, <1>6, <2>5, <2>6 DEF EachOnce
<1> QED
  BY <1>7, <1>8

\* A closure that goes to another stage, the task of it returning or not.
LEMMA MoveOnce ==
  ASSUME IOnce, NEW c \in closures, NEW s \in Stages, MoveTo(c, s),
         returned' = returned \/ returned' = returned \cup {c.task},
         s \in {"pending", "body"} => returned' = returned /\ c.task \notin returned,
         UNCHANGED <<steps, marker, scheduled>>,
         fault' # fault => ~marker[c.worker]
  PROVE  EachOnce' /\ DestroyedWhenDone'
<1> DEFINE m == [c EXCEPT !.stage = s]
<1>1. TypeOK /\ EachOnce /\ DestroyedWhenDone
      /\ \A w \in Workers : OneClosure(w)
  BY DEF IOnce, IInv
<1>2. c \in Closure /\ c.worker \in Workers /\ c.task \in Tasks
  BY <1>1 DEF TypeOK, Closure
<1>3. m.worker = c.worker /\ m.task = c.task /\ m.stage = s
  BY <1>2 DEF Closure
<1>4. closures' = (closures \ {c}) \cup {m}
  BY DEF MoveTo
<1>5. /\ c.task \in Elements(scheduled[c.worker])
      /\ c.task \notin Elements(steps[c.worker])
  BY <1>1 DEF EachOnce
<1>6. \A w \in Workers : c.task \notin Elements(steps[w])
  BY <1>1, <1>2, <1>5 DEF EachOnce
<1>7. ASSUME NEW d \in closures, d # c PROVE d.task # c.task
  <2>1. d \in Closure /\ d.worker \in Workers
    BY <1>1 DEF TypeOK, Closure
  <2>2. d.worker # c.worker
    BY <1>1, <1>2, <1>7 DEF OneClosure, Of
  <2>3. d.task \in Elements(scheduled[d.worker])
    BY <1>1 DEF EachOnce
  <2> QED
    BY <1>1, <1>2, <1>5, <2>1, <2>2, <2>3 DEF EachOnce
<1>8. \A j \in returned' : j \notin Unscheduled'
  <2>1. c.task \notin Unscheduled
    BY <1>2, <1>5 DEF Unscheduled
  <2>2. Unscheduled' = Unscheduled
    BY DEF Unscheduled
  <2> QED
    BY <1>1, <2>1, <2>2 DEF EachOnce
<1>9. \A w \in Workers : /\ Distinct(steps'[w])
                         /\ Elements(steps'[w]) \subseteq Elements(scheduled'[w])
                         /\ Elements(steps'[w]) \cap returned' = {}
  BY <1>1, <1>6 DEF EachOnce
<1>10. ASSUME NEW d \in closures'
       PROVE  /\ d.task \in Elements(scheduled'[d.worker])
              /\ d.task \notin Elements(steps'[d.worker])
              /\ d.stage \in {"pending", "body"} => d.task \notin returned'
  <2>1. CASE d = m
    BY <1>3, <1>5, <2>1
  <2>2. CASE d \in closures /\ d # c
    BY <1>1, <1>7, <2>2 DEF EachOnce
  <2> QED
    BY <1>4, <2>1, <2>2
<1>11. \A u, v \in Workers :
         u # v => Elements(scheduled'[u]) \cap Elements(scheduled'[v]) = {}
  BY <1>1 DEF EachOnce
<1>12. EachOnce'
  BY <1>8, <1>9, <1>10, <1>11 DEF EachOnce
<1>13. DestroyedWhenDone'
  BY <1>1, <1>2 DEF DestroyedWhenDone
<1> QED
  BY <1>12, <1>13

\* Begin, Return and CheckMarker are such steps.
LEMMA StagesOnce ==
  ASSUME IOnce, NEW c \in closures, fault = "none",
         Begin(c) \/ Return(c) \/ CheckMarker(c)
  PROVE  EachOnce' /\ DestroyedWhenDone'
<1>1. Stages = {"pending", "body", "check", "relock"}
  BY DEF Stages
<1>2. CASE Begin(c)
  <2>1. c.task \notin returned
    BY <1>2 DEF Begin, IOnce, EachOnce
  <2>2. MoveTo(c, "body") /\ UNCHANGED <<steps, marker, scheduled, returned, fault>>
    BY <1>2 DEF Begin
  <2> QED
    BY <1>1, <2>1, <2>2, MoveOnce
<1>3. CASE Return(c)
  <2>1. /\ MoveTo(c, "check") /\ UNCHANGED <<steps, marker, scheduled, fault>>
        /\ returned' = returned \cup {c.task}
    BY <1>3 DEF Return
  <2> QED
    BY <1>1, <2>1, MoveOnce
<1>4. CASE CheckMarker(c)
  <2>1. /\ MoveTo(c, "relock") /\ UNCHANGED <<steps, marker, scheduled, returned>>
        /\ fault' # fault => ~marker[c.worker]
    BY <1>4 DEF CheckMarker
  <2> QED
    BY <1>1, <2>1, MoveOnce
<1> QED
  BY <1>2, <1>3, <1>4

\* RunNext(c): the first task of the queue goes to the new closure.
LEMMA RunNextOnce ==
  ASSUME IOnce, NEW c \in closures, fault = "none", RunNext(c)
  PROVE  EachOnce' /\ DestroyedWhenDone'
<1> DEFINE w == c.worker
           q == steps[w]
           new == [worker |-> w, task |-> Head(q), stage |-> "pending"]
<1>1. TypeOK /\ EachOnce /\ DestroyedWhenDone
  BY DEF IOnce, IInv
<1>2. w \in Workers /\ q \in Seq(Tasks)
  BY <1>1 DEF TypeOK, Closure
<1>3. /\ MaybeRunNext(w, q, FALSE, closures \ {c})
      /\ fault' # "none" => ~marker[w]
      /\ UNCHANGED <<marker, scheduled, started, returned>>
  BY DEF RunNext
<1>4. DestroyedWhenDone'
  BY <1>1, <1>2, <1>3 DEF DestroyedWhenDone
<1>5. /\ \A j \in returned' : j \notin Unscheduled'
      /\ \A u, v \in Workers :
           u # v => Elements(scheduled'[u]) \cap Elements(scheduled'[v]) = {}
  BY <1>1, <1>3 DEF EachOnce, Unscheduled
<1>6. CASE q = <<>>
  <2>1. steps' = [steps EXCEPT ![w] = q] /\ closures' = closures \ {c}
    BY <1>3, <1>6 DEF MaybeRunNext, NothingToStart
  <2>2. steps' = steps
    BY <1>1, <1>2, <2>1 DEF TypeOK
  <2> QED
    BY <1>1, <1>3, <1>4, <1>5, <2>1, <2>2 DEF EachOnce
<1>7. CASE q # <<>>
  <2>1. steps' = [steps EXCEPT ![w] = Tail(q)]
        /\ closures' = (closures \ {c}) \cup {new}
    BY <1>3, <1>7 DEF MaybeRunNext, NothingToStart
  <2>2. /\ Distinct(Tail(q))
        /\ Head(q) \in Elements(q)
        /\ Head(q) \notin Elements(Tail(q))
        /\ Elements(Tail(q)) \subseteq Elements(q)
    BY <1>1, <1>2, <1>7, TailDistinct DEF EachOnce
  <2>3. steps'[w] = Tail(q) /\ \A v \in Workers \ {w} : steps'[v] = steps[v]
    BY <1>1, <1>2, <2>1 DEF TypeOK
  <2>4. ASSUME NEW v \in Workers
        PROVE  /\ Distinct(steps'[v])
               /\ Elements(steps'[v]) \subseteq Elements(scheduled'[v])
               /\ Elements(steps'[v]) \cap returned' = {}
    BY <1>1, <1>3, <2>2, <2>3 DEF EachOnce
  <2>5. ASSUME NEW d \in closures'
        PROVE  /\ d.task \in Elements(scheduled'[d.worker])
               /\ d.task \notin Elements(steps'[d.worker])
               /\ d.stage \in {"pending", "body"} => d.task \notin returned'
    <3>1. CASE d = new
      <4>1. d.task = Head(q) /\ d.worker = w
        BY <3>1
      <4>2. Head(q) \in Elements(scheduled[w]) /\ Head(q) \notin returned
        BY <1>1, <1>2, <2>2 DEF EachOnce
      <4> QED
        BY <1>3, <2>2, <2>3, <4>1, <4>2
    <3>2. CASE d \in closures
      <4>1. d.worker \in Workers
        BY <1>1, <3>2 DEF TypeOK, Closure
      <4>2. Elements(steps'[d.worker]) \subseteq Elements(steps[d.worker])
        BY <2>2, <2>3, <4>1
      <4> QED
        BY <1>1, <1>3, <3>2, <4>2 DEF EachOnce
    <3> QED
      BY <2>1, <3>1, <3>2
  <2> QED
    BY <1>4, <1>5, <2>4, <2>5 DEF EachOnce
<1> QED
  BY <1>6, <1>7

\* IOnce is an inductive invariant of the workers.
LEMMA NextOnce == IOnce /\ [Next]_vars => IOnce'
<1> SUFFICES ASSUME IOnce, [Next]_vars PROVE EachOnce' /\ DestroyedWhenDone'
  BY NextInv DEF IOnce
<1>1. CASE \E w \in Workers, k \in Tasks : Schedule(w, k)
  BY <1>1, ScheduleOnce
<1>2. ASSUME NEW c \in closures, fault = "none", ClosureStep(c)
      PROVE  EachOnce' /\ DestroyedWhenDone'
  BY <1>2, StagesOnce, RunNextOnce DEF ClosureStep
<1>3. ASSUME NEW w \in Workers, Destroy(w)
      PROVE  EachOnce' /\ DestroyedWhenDone'
  <2>1. /\ marker' = [marker EXCEPT ![w] = FALSE]
        /\ Elements(scheduled[w]) \subseteq returned
        /\ UNCHANGED <<steps, running, closures, scheduled, started, returned,
                       fault>>
    BY <1>3 DEF Destroy, MayDestroy
  <2>2. \A v \in Workers : marker'[v] = IF v = w THEN FALSE ELSE marker[v]
    BY <2>1 DEF IOnce, IInv, TypeOK
  <2>3. DestroyedWhenDone'
    BY <2>1, <2>2 DEF IOnce, DestroyedWhenDone
  <2>4. EachOnce'
    BY <2>1 DEF IOnce, EachOnce, Unscheduled
  <2> QED
    BY <2>3, <2>4
<1>4. CASE Terminated \/ UNCHANGED vars
  BY <1>4 DEF Terminated, vars, IOnce, EachOnce, DestroyedWhenDone, Unscheduled
<1> QED
  BY <1>1, <1>2, <1>3, <1>4 DEF Next

\* A worker whose tasks returned before it was destroyed has at most the rest of
\* one closure behind it, past the task, and no task is dropped with it: what
\* fails in lines 78 and 81 comes of an owner that was told of the end by the
\* last task itself, and of nothing else.
THEOREM OnlyTheRestOfAClosureIsLate == Spec => []OnlyTheRestIsLate
<1>1. Init => IOnce
  <2> SUFFICES ASSUME Init PROVE EachOnce /\ DestroyedWhenDone
    BY InitInv DEF IOnce
  <2>1. /\ returned = {} /\ closures = {} /\ fault = "none"
        /\ \A w \in Workers : steps[w] = <<>> /\ scheduled[w] = <<>> /\ marker[w]
    BY DEF Init
  <2>2. Distinct(<<>>)
    BY DEF Distinct
  <2> QED
    BY <2>1, <2>2, EmptyElements DEF EachOnce, DestroyedWhenDone
<1>2. IOnce => OnlyTheRestIsLate
  <2> SUFFICES ASSUME IOnce PROVE OnlyTheRestIsLate
    OBVIOUS
  <2>1. ASSUME NEW w \in Workers, ~marker[w]
        PROVE  /\ steps[w] = <<>>
               /\ \A c, d \in Of(w) : c = d /\ c.stage \in {"check", "relock"}
    <3>1. Elements(scheduled[w]) \subseteq returned
      BY <2>1 DEF IOnce, DestroyedWhenDone
    <3>2. Elements(steps[w]) = {}
      BY <3>1 DEF IOnce, EachOnce
    <3>3. steps[w] \in Seq(Tasks)
      BY DEF IOnce, IInv, TypeOK
    <3>4. steps[w] = <<>>
      <4> SUFFICES ASSUME steps[w] # <<>> PROVE FALSE
        OBVIOUS
      <4>1. 1 \in DOMAIN steps[w]
        BY <3>3
      <4> QED
        BY <3>2, <4>1 DEF Elements
    <3>5. ASSUME NEW c \in Of(w) PROVE c.stage \in {"check", "relock"}
      <4>1. c \in closures /\ c.worker = w /\ c.stage \in Stages
        BY DEF Of, IOnce, IInv, TypeOK, Closure
      <4>2. c.task \in returned
        BY <3>1, <4>1 DEF IOnce, EachOnce
      <4>3. c.stage \notin {"pending", "body"}
        BY <4>1, <4>2 DEF IOnce, EachOnce
      <4> QED
        BY <4>1, <4>3 DEF Stages
    <3>6. \A c, d \in Of(w) : c = d
      BY DEF IOnce, IInv, OneClosure
    <3> QED
      BY <3>4, <3>5, <3>6
  <2>2. fault # "none" => \E w \in Workers : /\ ~marker[w]
                                            /\ Elements(scheduled[w]) \subseteq returned
    BY DEF IOnce, DestroyedWhenDone
  <2> QED
    BY <2>1, <2>2 DEF OnlyTheRestIsLate
<1> QED
  BY <1>1, <1>2, NextOnce, PTL DEF Spec

-----------------------------------------------------------------------------
(* Workers take the steps of the serial executor only. The queue of worker w  *)
(* there is the task of its pending closure followed by steps_.               *)

QueueOf(w) == PendingTask(w) \o steps[w]

\* What a worker with one closure, or none, shows.
LEMMA View ==
  ASSUME NEW w, NEW c
  PROVE  /\ Of(w) = {} => PendingTask(w) = <<>> /\ BodyTask(w) = NoTask
         /\ Of(w) = {c} =>
              /\ c.stage = "pending" => PendingTask(w) = <<c.task>>
              /\ c.stage # "pending" => PendingTask(w) = <<>>
              /\ c.stage = "body" => BodyTask(w) = c.task
              /\ c.stage # "body" => BodyTask(w) = NoTask
<1>1. CASE Of(w) = {}
  <2>1. In(w, "pending") = {} /\ In(w, "body") = {}
    BY <1>1 DEF In
  <2> QED
    BY <1>1, <2>1 DEF PendingTask, BodyTask
<1>2. CASE Of(w) = {c}
  <2>1. \A s : In(w, s) = IF c.stage = s THEN {c} ELSE {}
    BY <1>2 DEF In
  <2>2. (CHOOSE d \in {c} : TRUE) = c
    OBVIOUS
  <2> QED
    BY <1>2, <2>1, <2>2 DEF PendingTask, BodyTask
<1> QED
  BY <1>1, <1>2

\* The same after a step.
LEMMA ViewAfter ==
  ASSUME NEW w \in Workers, NEW c
  PROVE  /\ Of(w)' = {} => PendingTask(w)' = <<>> /\ BodyTask(w)' = NoTask
         /\ Of(w)' = {c} =>
              /\ c.stage = "pending" => PendingTask(w)' = <<c.task>>
              /\ c.stage # "pending" => PendingTask(w)' = <<>>
              /\ c.stage = "body" => BodyTask(w)' = c.task
              /\ c.stage # "body" => BodyTask(w)' = NoTask
<1>1. CASE Of(w)' = {}
  <2>1. In(w, "pending")' = {} /\ In(w, "body")' = {}
    BY <1>1 DEF In
  <2> QED
    BY <1>1, <2>1 DEF PendingTask, BodyTask
<1>2. CASE Of(w)' = {c}
  <2>1. /\ In(w, "pending")' = IF c.stage = "pending" THEN {c} ELSE {}
        /\ In(w, "body")' = IF c.stage = "body" THEN {c} ELSE {}
    BY <1>2 DEF In
  <2>2. (CHOOSE d \in {c} : TRUE) = c
    OBVIOUS
  <2> QED
    BY <1>2, <2>1, <2>2 DEF PendingTask, BodyTask
<1> QED
  BY <1>1, <1>2

\* A worker whose closures a step leaves alone shows the same of them.
LEMMA SameClosures ==
  ASSUME NEW w \in Workers, Of(w)' = Of(w)
  PROVE  PendingTask(w)' = PendingTask(w) /\ BodyTask(w)' = BodyTask(w)
  BY DEF PendingTask, BodyTask, In

\* A worker whose closures and queue a step leaves alone shows no change.
LEMMA ViewStays ==
  ASSUME NEW w \in Workers, Of(w)' = Of(w), steps'[w] = steps[w]
  PROVE  QueueOf(w)' = QueueOf(w) /\ BodyTask(w)' = BodyTask(w)
  BY SameClosures DEF QueueOf

\* A step that no worker shows is a stuttering step of the serial executor.
LEMMA Stutters ==
  ASSUME \A w \in Workers : QueueOf(w)' = QueueOf(w) /\ BodyTask(w)' = BodyTask(w)
  PROVE  UNCHANGED Abstract!vars
  BY DEF Abstract!vars, QueueOf

\* Sequences that occur in the queues.
LEMMA Queues ==
  ASSUME NEW S, NEW s \in Seq(S), NEW k \in S
  PROVE  /\ <<>> \o s = s
         /\ <<k>> \in Seq(S)
         /\ <<k>> \o s \in Seq(S)
         /\ <<k>> \o s # <<>>
         /\ Head(<<k>> \o s) = k
         /\ Tail(<<k>> \o s) = s
         /\ (<<>> \o Append(s, k)) = Append(<<>> \o s, k)
  OBVIOUS

\* A task put behind others that wait behind the first one.
LEMMA AppendBehind ==
  ASSUME NEW S, NEW s \in Seq(S), NEW k \in S, NEW j \in S
  PROVE  <<j>> \o Append(s, k) = Append(<<j>> \o s, k)
  OBVIOUS

\* Taking the first task off a queue.
LEMMA HeadAndTail ==
  ASSUME NEW S, NEW s \in Seq(S), s # <<>>
  PROVE  <<Head(s)>> \o Tail(s) = s
  OBVIOUS

\* A step after which worker w alone shows something else.
LEMMA OneWorkerShows ==
  ASSUME NEW w \in Workers, NEW q, NEW b,
         \A v \in Workers \ {w} :
           QueueOf(v)' = QueueOf(v) /\ BodyTask(v)' = BodyTask(v),
         QueueOf(w)' = q, BodyTask(w)' = b
  PROVE  /\ [v \in Workers |-> PendingTask(v) \o steps[v]]' =
              [[v \in Workers |-> PendingTask(v) \o steps[v]] EXCEPT ![w] = q]
         /\ [v \in Workers |-> BodyTask(v)]' =
              [[v \in Workers |-> BodyTask(v)] EXCEPT ![w] = b]
  BY DEF QueueOf

\* Schedule(w, k) puts k at the end of the queue of w.
LEMMA ScheduleSubmits ==
  ASSUME IInv, NEW w \in Workers, NEW k \in Tasks, Schedule(w, k)
  PROVE  Abstract!Submit(w, k)
<1> DEFINE q == Append(steps[w], k)
           new == [worker |-> w, task |-> k, stage |-> "pending"]
<1>1. TypeOK /\ OneClosure(w) /\ steps[w] \in Seq(Tasks)
  BY DEF IInv, TypeOK
<1>2. MaybeRunNext(w, q, running[w], closures)
  BY DEF Schedule, PushedBack
<1>3. CASE running[w]
  <2>1. steps' = [steps EXCEPT ![w] = q] /\ closures' = closures
    BY <1>2, <1>3 DEF MaybeRunNext, NothingToStart
  <2>2. \A v \in Workers : Of(v)' = Of(v)
    BY <2>1 DEF Of
  <2>3. steps'[w] = q /\ \A v \in Workers \ {w} : steps'[v] = steps[v]
    BY <1>1, <2>1 DEF TypeOK
  <2>4. PendingTask(w)' = PendingTask(w) /\ BodyTask(w)' = BodyTask(w)
    BY <2>2, SameClosures
  <2>5. PICK c : Of(w) = {c} /\ c \in Closure
    BY <1>1, <1>3 DEF OneClosure, Of, TypeOK
  <2>6. PendingTask(w) = <<>> \/ PendingTask(w) = <<c.task>>
    BY <2>5, View
  <2>7. PendingTask(w) \o q = Append(PendingTask(w) \o steps[w], k)
    BY <1>1, <2>5, <2>6, Queues, AppendBehind DEF Closure
  <2>8. QueueOf(w)' = Append(QueueOf(w), k)
    BY <2>3, <2>4, <2>7 DEF QueueOf
  <2>9. \A v \in Workers \ {w} : QueueOf(v)' = QueueOf(v) /\ BodyTask(v)' = BodyTask(v)
    BY <2>2, <2>3, ViewStays
  <2> QED
    BY <2>4, <2>8, <2>9, OneWorkerShows DEF Abstract!Submit, QueueOf
<1>4. CASE ~running[w]
  <2>1. steps[w] = <<>> /\ Of(w) = {}
    BY <1>1, <1>4 DEF OneClosure
  <2>2. q = <<k>> /\ Head(q) = k /\ Tail(q) = <<>> /\ q # <<>>
    BY <2>1
  <2>3. steps' = [steps EXCEPT ![w] = <<>>] /\ closures' = closures \cup {new}
    BY <1>2, <1>4, <2>2 DEF MaybeRunNext, NothingToStart
  <2>4. Of(w)' = {new} /\ \A v \in Workers \ {w} : Of(v)' = Of(v)
    BY <2>1, <2>3 DEF Of
  <2>5. steps'[w] = <<>> /\ \A v \in Workers \ {w} : steps'[v] = steps[v]
    BY <1>1, <2>3 DEF TypeOK
  <2>6. PendingTask(w) = <<>> /\ BodyTask(w) = NoTask
    BY <2>1, View
  <2>7. PendingTask(w)' = <<k>> /\ BodyTask(w)' = NoTask
    <3>1. new.task = k /\ new.stage = "pending"
      OBVIOUS
    <3> HIDE DEF new
    <3> QED
      BY <2>4, <3>1, ViewAfter
  <2>8. QueueOf(w)' = Append(QueueOf(w), k)
    BY <2>1, <2>5, <2>6, <2>7 DEF QueueOf
  <2>9. \A v \in Workers \ {w} : QueueOf(v)' = QueueOf(v) /\ BodyTask(v)' = BodyTask(v)
    BY <2>4, <2>5, ViewStays
  <2> QED
    BY <2>6, <2>7, <2>8, <2>9, OneWorkerShows DEF Abstract!Submit, QueueOf
<1> QED
  BY <1>3, <1>4

\* The closure of w that changes stage is the one closure of w, and the other
\* workers show no change.
LEMMA MovedClosure ==
  ASSUME IInv, NEW c \in closures, NEW s \in Stages, MoveTo(c, s),
         UNCHANGED steps
  PROVE  /\ c.worker \in Workers /\ c.task \in Tasks
         /\ steps[c.worker] \in Seq(Tasks)
         /\ Of(c.worker) = {c}
         /\ Of(c.worker)' = {[c EXCEPT !.stage = s]}
         /\ [c EXCEPT !.stage = s].task = c.task
         /\ [c EXCEPT !.stage = s].stage = s
         /\ \A v \in Workers \ {c.worker} :
              QueueOf(v)' = QueueOf(v) /\ BodyTask(v)' = BodyTask(v)
<1> DEFINE m == [c EXCEPT !.stage = s]
<1>1. c \in Closure /\ c.worker \in Workers /\ c.task \in Tasks
      /\ steps[c.worker] \in Seq(Tasks)
  BY DEF IInv, TypeOK, Closure
<1>2. m.worker = c.worker /\ m.task = c.task /\ m.stage = s
  BY <1>1 DEF Closure
<1>3. Of(c.worker) = {c}
  BY <1>1 DEF IInv, OneClosure, Of
<1>4. closures' = (closures \ {c}) \cup {m}
  BY DEF MoveTo
<1>5. Of(c.worker)' = {m}
  BY <1>2, <1>3, <1>4 DEF Of
<1>6. \A v \in Workers \ {c.worker} : Of(v)' = Of(v) /\ steps'[v] = steps[v]
  BY <1>2, <1>4 DEF Of
<1> QED
  BY <1>1, <1>2, <1>3, <1>5, <1>6, ViewStays

\* Begin(c) takes the first task of the queue of its worker.
LEMMA BeginBegins ==
  ASSUME IInv, NEW c \in closures, Begin(c)
  PROVE  Abstract!Begin(c.worker)
<1> DEFINE w == c.worker
           m == [c EXCEPT !.stage = "body"]
<1>1. MoveTo(c, "body") /\ steps' = steps /\ c.stage = "pending"
      /\ "body" \in Stages
  BY DEF Begin, Stages
<1>2. /\ w \in Workers /\ c.task \in Tasks
      /\ steps[w] \in Seq(Tasks)
      /\ Of(w) = {c}
      /\ Of(w)' = {m}
      /\ m.task = c.task /\ m.stage = "body"
      /\ \A v \in Workers \ {w} : QueueOf(v)' = QueueOf(v) /\ BodyTask(v)' = BodyTask(v)
  BY <1>1, MovedClosure
<1>3. PendingTask(w) = <<c.task>> /\ BodyTask(w) = NoTask
  BY <1>1, <1>2, View
<1>4. PendingTask(w)' = <<>> /\ BodyTask(w)' = c.task
  BY <1>2, ViewAfter
<1>5. QueueOf(w) # <<>> /\ Head(QueueOf(w)) = c.task /\ Tail(QueueOf(w)) = steps[w]
  BY <1>2, <1>3, Queues DEF QueueOf
<1>6. QueueOf(w)' = Tail(QueueOf(w)) /\ BodyTask(w)' = Head(QueueOf(w))
  <2>1. QueueOf(w)' = <<>> \o steps[w]
    BY <1>1, <1>4 DEF QueueOf
  <2>2. <<>> \o steps[w] = steps[w]
    BY <1>2
  <2> QED
    BY <1>4, <1>5, <2>1, <2>2
<1> QED
  BY <1>2, <1>3, <1>5, <1>6, OneWorkerShows DEF Abstract!Begin, QueueOf

\* Return(c) ends the task of its worker.
LEMMA ReturnEnds ==
  ASSUME IInv, NEW c \in closures, Return(c)
  PROVE  Abstract!End(c.worker)
<1> DEFINE w == c.worker
           m == [c EXCEPT !.stage = "check"]
<1>1. MoveTo(c, "check") /\ steps' = steps /\ c.stage = "body"
      /\ "check" \in Stages
  BY DEF Return, Stages
<1>2. /\ w \in Workers /\ c.task \in Tasks
      /\ Of(w) = {c}
      /\ Of(w)' = {m}
      /\ m.stage = "check"
      /\ \A v \in Workers \ {w} : QueueOf(v)' = QueueOf(v) /\ BodyTask(v)' = BodyTask(v)
  BY <1>1, MovedClosure
<1>3. PendingTask(w) = <<>> /\ BodyTask(w) = c.task
  BY <1>1, <1>2, View
<1>4. PendingTask(w)' = <<>> /\ BodyTask(w)' = NoTask
  BY <1>2, ViewAfter
<1>5. \A v \in Workers : QueueOf(v)' = QueueOf(v)
  BY <1>1, <1>2, <1>3, <1>4 DEF QueueOf
<1> QED
  BY <1>2, <1>3, <1>4, <1>5, WorkerAssumption, OneWorkerShows DEF Abstract!End, QueueOf

\* CheckMarker(c) shows nothing.
LEMMA CheckMarkerStutters ==
  ASSUME IInv, NEW c \in closures, CheckMarker(c)
  PROVE  UNCHANGED Abstract!vars
<1> DEFINE w == c.worker
           m == [c EXCEPT !.stage = "relock"]
<1>1. MoveTo(c, "relock") /\ steps' = steps /\ c.stage = "check"
      /\ "relock" \in Stages
  BY DEF CheckMarker, Stages
<1>2. /\ w \in Workers
      /\ Of(w) = {c}
      /\ Of(w)' = {m}
      /\ m.stage = "relock"
      /\ \A v \in Workers \ {w} : QueueOf(v)' = QueueOf(v) /\ BodyTask(v)' = BodyTask(v)
  BY <1>1, MovedClosure
<1>3. PendingTask(w) = <<>> /\ BodyTask(w) = NoTask
  BY <1>1, <1>2, View
<1>4. PendingTask(w)' = <<>> /\ BodyTask(w)' = NoTask
  BY <1>2, ViewAfter
<1>5. QueueOf(w)' = QueueOf(w)
  BY <1>1, <1>3, <1>4 DEF QueueOf
<1> QED
  BY <1>2, <1>3, <1>4, <1>5, Stutters

\* RunNext(c) passes the first task from steps_ to a closure: it waits as before.
LEMMA RunNextStutters ==
  ASSUME IInv, NEW c \in closures, RunNext(c)
  PROVE  UNCHANGED Abstract!vars
<1> DEFINE w == c.worker
           q == steps[w]
           new == [worker |-> w, task |-> Head(q), stage |-> "pending"]
<1>1. TypeOK /\ w \in Workers /\ Of(w) = {c} /\ q \in Seq(Tasks)
  BY DEF IInv, TypeOK, Closure, OneClosure, Of
<1>2. c.stage = "relock" /\ MaybeRunNext(w, q, FALSE, closures \ {c})
  BY DEF RunNext
<1>3. PendingTask(w) = <<>> /\ BodyTask(w) = NoTask
  BY <1>1, <1>2, View
<1>4. QueueOf(w) = q
  BY <1>1, <1>3 DEF QueueOf
<1>5. CASE q = <<>>
  <2>1. steps' = [steps EXCEPT ![w] = q] /\ closures' = closures \ {c}
    BY <1>2, <1>5 DEF MaybeRunNext, NothingToStart
  <2>2. \A v \in Workers : steps'[v] = steps[v]
    BY <1>1, <2>1 DEF TypeOK
  <2>3. Of(w)' = {} /\ \A v \in Workers \ {w} : Of(v)' = Of(v)
    BY <1>1, <2>1 DEF Of
  <2>4. PendingTask(w)' = <<>> /\ BodyTask(w)' = NoTask
    BY <1>1, <2>3, ViewAfter
  <2>5. QueueOf(w)' = QueueOf(w)
    BY <1>1, <1>3, <2>2, <2>4 DEF QueueOf
  <2>6. \A v \in Workers \ {w} : QueueOf(v)' = QueueOf(v) /\ BodyTask(v)' = BodyTask(v)
    BY <2>2, <2>3, ViewStays
  <2> QED
    BY <1>3, <2>4, <2>5, <2>6, Stutters
<1>6. CASE q # <<>>
  <2>1. /\ steps' = [steps EXCEPT ![w] = Tail(q)]
        /\ closures' = (closures \ {c}) \cup {new}
    BY <1>2, <1>6 DEF MaybeRunNext, NothingToStart
  <2>2. steps'[w] = Tail(q) /\ \A v \in Workers \ {w} : steps'[v] = steps[v]
    BY <1>1, <2>1 DEF TypeOK
  <2>3. Of(w)' = {new} /\ \A v \in Workers \ {w} : Of(v)' = Of(v)
    BY <1>1, <2>1 DEF Of
  <2>4. PendingTask(w)' = <<Head(q)>> /\ BodyTask(w)' = NoTask
    <3>1. new.task = Head(q) /\ new.stage = "pending"
      OBVIOUS
    <3> HIDE DEF new
    <3> QED
      BY <1>1, <2>3, <3>1, ViewAfter
  <2>5. QueueOf(w)' = <<Head(q)>> \o Tail(q)
    BY <2>2, <2>4 DEF QueueOf
  <2>6. QueueOf(w)' = QueueOf(w)
    BY <1>1, <1>4, <1>6, <2>5, HeadAndTail
  <2>7. \A v \in Workers \ {w} : QueueOf(v)' = QueueOf(v) /\ BodyTask(v)' = BodyTask(v)
    BY <2>2, <2>3, ViewStays
  <2> QED
    BY <1>3, <2>4, <2>6, <2>7, Stutters
<1> QED
  BY <1>5, <1>6

\* A step that leaves queues and closures alone shows nothing.
LEMMA OtherStutters ==
  ASSUME UNCHANGED <<steps, closures>>
  PROVE  UNCHANGED Abstract!vars
<1>1. \A w \in Workers : Of(w)' = Of(w) /\ steps'[w] = steps[w]
  BY DEF Of
<1> QED
  BY <1>1, ViewStays, Stutters

\* Workers take the steps of the abstract serial executor only: the tasks of a
\* worker begin in the order they were scheduled, one at a time, whatever threads
\* schedule them and run them.
THEOREM WorkersAreSerialExecutors == Spec => Abstract!SafeSpec
<1>1. Init => Abstract!Init
  <2> SUFFICES ASSUME Init PROVE Abstract!Init
    OBVIOUS
  <2>1. ASSUME NEW w \in Workers
        PROVE  PendingTask(w) \o steps[w] = <<>> /\ BodyTask(w) = NoTask
    <3>1. Of(w) = {} /\ steps[w] = <<>>
      BY DEF Init, Of
    <3>2. PendingTask(w) = <<>> /\ BodyTask(w) = NoTask
      BY <3>1, View
    <3> QED
      BY <3>1, <3>2
  <2> QED
    BY <2>1 DEF Abstract!Init
<1>2. IInv /\ [Next]_vars => [Abstract!Next]_(Abstract!vars)
  <2> SUFFICES ASSUME IInv, [Next]_vars
               PROVE  Abstract!Next \/ UNCHANGED Abstract!vars
    OBVIOUS
  <2>1. CASE \E w \in Workers, k \in Tasks : Schedule(w, k)
    BY <2>1, ScheduleSubmits DEF Abstract!Next
  <2>2. ASSUME NEW c \in closures, ClosureStep(c)
        PROVE  Abstract!Next \/ UNCHANGED Abstract!vars
    <3>1. c.worker \in Workers /\ c.task \in Tasks
      BY DEF IInv, TypeOK, Closure
    <3>2. CASE Begin(c)
      BY <3>1, <3>2, BeginBegins DEF Abstract!Next
    <3>3. CASE Return(c)
      BY <3>1, <3>3, ReturnEnds DEF Abstract!Next
    <3>4. CASE CheckMarker(c)
      BY <3>4, CheckMarkerStutters
    <3>5. CASE RunNext(c)
      BY <3>5, RunNextStutters
    <3> QED
      BY <2>2, <3>2, <3>3, <3>4, <3>5 DEF ClosureStep
  <2>3. CASE \E w \in Workers : Destroy(w)
    BY <2>3, OtherStutters DEF Destroy
  <2>4. CASE Terminated \/ UNCHANGED vars
    BY <2>4, OtherStutters DEF Terminated, vars
  <2> QED
    BY <2>1, <2>2, <2>3, <2>4 DEF Next
<1> QED
  BY <1>1, <1>2, Invariance, PTL DEF Spec, Abstract!SafeSpec
=============================================================================
