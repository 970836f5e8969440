----------------------------- MODULE Operators -----------------------------
(***************************************************************************)
(* Prefetch, Concat and FlatMap as they are used: the stream is one of them,  *)
(* chosen initially, between its sources and a subscriber. The subscriber is  *)
(* either "free", user code that requests, cancels and returns at will, or    *)
(* "single", the one that Single::Subscribe makes (reactive/single.h): it     *)
(* requests one event, passes it to a listener, and cancels.                  *)
(***************************************************************************)
EXTENDS PrefetchingStream, ConcatStream, FlatMapStream

CONSTANTS Cancels,      \* operators whose free subscriber may cancel
          CancelsInEnd, \* among them, those where it may do so in the OnNext
                        \* that delivers the end
          Singles,      \* operators that may have the subscriber of Single
          Patient       \* operators whose free subscriber has at most one
                        \* request open if the base is late

ASSUME OperatorsAssumption == /\ Cancels \subseteq Kinds
                              /\ CancelsInEnd \subseteq Cancels
                              /\ Singles \subseteq Kinds
                              /\ Patient \subseteq Kinds

VARIABLES user,       \* the subscriber; does not change
          cancelled,  \* it has cancelled
          answers     \* calls of the listener of Single

singleVars == <<cancelled, answers>>
otherVars  == <<settings, user>>
streamVars == <<stack, sourceVars, fault, balance, lock, open, userVars>>
vars       == <<otherVars, streamVars, singleVars, prefetchVars, concatVars, flatMapVars>>

Init == /\ PipelineInit
        /\ PrefetchInit /\ ConcatInit /\ FlatMapInit
        /\ user \in {"free"} \cup (IF kind \in Singles THEN {"single"} ELSE {})
        /\ cancelled = FALSE
        /\ answers = 0

\* Of the variables of the operators only those of operator k change.
OnlyOf(k) == /\ kind = k
             /\ k # "prefetch" => UNCHANGED prefetchVars
             /\ k # "concat" => UNCHANGED concatVars
             /\ k # "flatmap" => UNCHANGED flatMapVars

\* has_ended() of the subscriber's subscription, negated.
StreamAlive == IF kind = "flatmap" THEN Alive(1) ELSE SharedAlive

-----------------------------------------------------------------------------
(* The subscriber.                                                           *)

UserActive == stack # <<>> => Top.op \in {"UserOnSubscribe", "UserOnNext"}

MaySubscribe == stack = <<>> /\ phase[1] = "new" /\ awaited = {}

UserSubscribes == /\ MaySubscribe
                  /\ \/ OnlyOf("prefetch") /\ PrefetchSubscribe
                     \/ OnlyOf("concat") /\ ConcatSubscribe
                     \/ OnlyOf("flatmap") /\ FlatMapSubscribe /\ UNCHANGED lock
                  /\ UNCHANGED singleVars

\* Request(n) on the subscription, returning to rest.
Request(n, rest) ==
  /\ asked' = asked + n
  /\ \/ OnlyOf("prefetch") /\ PrefetchRequest(n, rest)
     \/ OnlyOf("concat") /\ ConcatRequest(n, rest)
     \/ OnlyOf("flatmap") /\ FlatMapRequest(n, rest)
  /\ UNCHANGED <<open, got, taken, ended>>

\* Cancel() on the subscription, returning to rest.
Cancel(rest) ==
  /\ cancelled' = TRUE
  /\ \/ OnlyOf("prefetch") /\ PrefetchCancel(rest)
     \/ OnlyOf("concat") /\ ConcatCancel(rest)
     \/ OnlyOf("flatmap") /\ FlatMapCancel(rest)
  /\ UNCHANGED <<open, userVars>>

\* One request at a time.
MayAsk(n) == (kind \in Patient /\ 1 \in late) => (asked = got /\ n = 1)

\* The free subscriber.
UserRequests == /\ user = "free"
                /\ UserActive /\ open /\ StreamAlive
                /\ \E n \in Counts : /\ asked + n <= MaxGrant
                                     /\ MayAsk(n)
                                     /\ Request(n, stack)
                /\ UNCHANGED singleVars

UserCancels == /\ user = "free"
               /\ UserActive /\ open /\ StreamAlive
               /\ kind \in Cancels
               /\ ended => kind \in CancelsInEnd
               /\ Cancel(stack)
               /\ UNCHANGED answers

UserReturns == /\ user = "free"
               /\ stack # <<>> /\ UserActive
               /\ stack' = Tail(stack)
               /\ UNCHANGED <<sourceVars, fault, balance, lock, open, userVars,
                              singleVars, prefetchVars, concatVars, flatMapVars>>

\* OnSubscribe of Single, line 75.
SingleOnSubscribe == /\ user = "single"
                     /\ IsTop("UserOnSubscribe")
                     /\ Request(1, Tail(stack))
                     /\ UNCHANGED singleVars

\* Line 97: the value came and the stream has not ended.
CancelsAfter(ev) == ev = "value" /\ StreamAlive

\* Mutant: Done without a value goes unanswered.
AnswersValue(ev) == IF ev = "value" THEN 1 ELSE 0

\* Lines 81-93: the listener is called, for Done only if it was not before.
Answers(ev) == IF ev = "done" /\ answers > 0 THEN 0 ELSE 1

\* OnNext of Single, lines 77-100.
SingleOnNext ==
  /\ user = "single"
  /\ IsTop("UserOnNext")
  /\ answers' = answers + Answers(Top.ev)
  /\ IF CancelsAfter(Top.ev)
       THEN Cancel(Tail(stack))
       ELSE /\ stack' = Tail(stack)
            /\ UNCHANGED <<sourceVars, fault, balance, lock, open, userVars,
                           cancelled, prefetchVars, concatVars, flatMapVars>>

-----------------------------------------------------------------------------

\* The step of the code that is executing.
StreamStep == /\ \/ OnlyOf("prefetch") /\ PrefetchStep
                 \/ OnlyOf("concat") /\ ConcatStep
                 \/ OnlyOf("flatmap") /\ FlatMapStep
                 \/ /\ Generate
                    /\ UNCHANGED <<balance, lock, open, userVars, prefetchVars,
                                   concatVars, flatMapVars>>
              /\ UNCHANGED singleVars

Returns == UserReturns \/ SingleOnSubscribe \/ SingleOnNext

LateStep(g) == /\ LateSubscribe(g) \/ LateOnNext(g)
               /\ UNCHANGED <<balance, lock, open, userVars, singleVars,
                              prefetchVars, concatVars, flatMapVars>>

\* Nothing is executing and no late source owes anything.
Quiet == /\ stack = <<>>
         /\ open
         /\ \A g \in late : g \notin awaited /\ ~(Alive(g) /\ HasRequests(requested[g]))

\* A failed check ended the program, or the user is not interested any more.
Terminated == (fault \/ Quiet) /\ UNCHANGED vars

Next == \/ /\ ~fault
           /\ \/ UserSubscribes \/ UserRequests \/ UserCancels \/ Returns
              \/ StreamStep
              \/ \E g \in Sources : LateStep(g)
           /\ UNCHANGED otherVars
        \/ Terminated

\* Code that is executing returns, that of the user too, and late sources
\* answer.
Fairness ==
  /\ WF_vars(~fault /\ (StreamStep \/ Returns) /\ UNCHANGED otherVars)
  /\ \A g \in Sources : WF_vars(~fault /\ LateStep(g) /\ UNCHANGED otherVars)

Spec == Init /\ [][Next]_vars /\ Fairness

-----------------------------------------------------------------------------
(* Properties; those of one operator are in its module.                      *)

\* No RX_CHECK fails and no deleted stream is used, however the calls of the
\* sources and of the subscriber nest.
NoFault == ~fault

\* At the switch of Concat and from continuation to continuation of FlatMap no
\* request is lost or doubled: what the subscriber is owed is what was requested
\* of the current source and not delivered yet.
OwedIsRequested == RollsOver /\ BalanceForwarded

\* When nothing is executing a stream that is over, by its end or by Cancel,
\* has no source left that runs, and is gone itself; but for a Concat that was
\* cancelled before its end: Cancel leaves its lock set (lines 1067-1072), so that
\* it is never deleted and has_ended() stays false, which reactive.h:154-156 and
\* 176-177 say it does not.
NoSourceLeft == (stack = <<>> /\ (ended \/ cancelled)) =>
  /\ \A g \in Sources : ~Alive(g) /\ g \notin awaited
  /\ StreamAlive => kind = "concat" /\ cancelled /\ ~ended

\* "A Single is a wrapper around a stream which delivers a single element"
\* (single.h:25): every Single over Concat or FlatMap is answered, and its listener
\* is called once, by whichever way the stream ends.
SingleAnsweredOnce == /\ [](user = "single" => answers <= 1)
                      /\ (user = "single" /\ open) ~> (answers = 1)

Over == ~StreamAlive

\* The contract of streams. The status that ends the stream is paid for by a
\* request, too; Concat and FlatMap do not subtract it from their balance.
Contract == INSTANCE StreamContract WITH
  Streams <- {"stream"},
  status  <- [s \in {"stream"} |-> CASE ~open                     -> "new"
                                     [] open /\ Over              -> "gone"
                                     [] open /\ ~Over /\ cancelled -> "cancelled"
                                     [] open /\ ~Over /\ ~cancelled /\ ended -> "ending"
                                     [] OTHER                     -> "open"],
  credit  <- [s \in {"stream"} |-> IF ended /\ kind # "prefetch"
                                     THEN RemoveFrom(balance, 1) ELSE balance],
  events  <- [s \in {"stream"} |-> got]

\* A Concat that is cancelled before its end is not deleted, see NoSourceLeft.
Leaks == kind = "concat" /\ cancelled /\ ~ended

KeepsContract == Contract!SafeSpec /\ Contract!Fairness /\ (Contract!CancelDeletes \/ <>[]Leaks)

=============================================================================
