---------------------------- MODULE ConcatStream ----------------------------
(***************************************************************************)
(* class ConcatStream of reactive/reactive_impl.inc: the events of a first    *)
(* stream, source 1, and after its Done those of a second one, source 2. It   *)
(* is the subscriber of both, shared by them and by its own lock.             *)
(*                                                                            *)
(* Frame: "Release"  the end was delivered, the lock is dropped (line 1108)   *)
(***************************************************************************)
EXTENDS Pipeline

VARIABLES runningFirst,  \* is_running_first(): continue_with_ is not null
          upstream       \* source of upstream_subscription_; 0: not set

concatVars == <<runningFirst, upstream>>

ConcatInit == runningFirst = TRUE /\ upstream = 0

-----------------------------------------------------------------------------

\* ConcatPublisher::Subscribe, lines 1135-1140: SubscribeNext of the first.
ConcatSubscribe == /\ lock' = TRUE
                   /\ DoSubscribe(1, <<>>)
                   /\ UNCHANGED <<granted, delivered, fault, balance, open,
                                  userVars, concatVars>>

\* Mutant: open requests are not rolled over.
RolledOverNever == 0

\* Line 1095: the requests of which the first stream delivered nothing.
RolledOver == balance

\* OnSubscribe, lines 1084-1097.
ConcatOnSubscribe ==
  /\ IsTop("OnSubscribe")
  /\ fault' = (upstream # 0 /\ runningFirst)
  /\ upstream' = Top.gen
  /\ IF runningFirst
       THEN ConfirmSubscription(Tail(stack)) /\ UNCHANGED sourceVars
       ELSE /\ UNCHANGED open
            /\ IF RolledOver > 0
                 THEN RequestUp(Top.gen, RolledOver, Tail(stack))
                 ELSE stack' = Tail(stack) /\ UNCHANGED sourceVars
  /\ UNCHANGED <<balance, lock, userVars, runningFirst>>

\* A value, lines 1100-1104.
ConcatValue == /\ IsTop("OnNext")
               /\ Top.ev = "value"
               /\ fault' = ~CanRemove(balance, 1)
               /\ balance' = RemoveFrom(balance, 1)
               /\ SendDown(Top.gen, Top.ev, Tail(stack))
               /\ UNCHANGED <<sourceVars, lock, open, concatVars>>

\* Line 1105: an error, or Done of the second stream.
Final(ev) == ev = "error" \/ (ev = "done" /\ ~runningFirst)

\* The end of both, lines 1105-1110.
ConcatEnd == /\ IsTop("OnNext")
             /\ Final(Top.ev)
             /\ SendDown(Top.gen, Top.ev, Call("Release", 0, "none", Tail(stack)))
             /\ UNCHANGED <<sourceVars, fault, balance, lock, open, concatVars>>

\* self_lock_.reset(), line 1108.
ConcatRelease == /\ IsTop("Release")
                 /\ fault' = ~SharedAlive
                 /\ lock' = FALSE
                 /\ stack' = Tail(stack)
                 /\ UNCHANGED <<sourceVars, balance, open, userVars, concatVars>>

\* Done of the first stream, lines 1111-1113, and SubscribeNext.
ConcatSwitch == /\ IsTop("OnNext")
                /\ Base!IsEnd(Top.ev) /\ ~Final(Top.ev)
                /\ upstream' = 0
                /\ runningFirst' = FALSE
                /\ lock' = TRUE
                /\ DoSubscribe(2, Tail(stack))
                /\ UNCHANGED <<granted, delivered, fault, balance, open, userVars>>

\* Request, lines 1074-1080, returning to rest.
ConcatRequest(n, rest) ==
  /\ fault' = (upstream = 0)
  /\ balance' = AddTo(balance, n)
  /\ IF upstream # 0 /\ Alive(upstream)
       THEN RequestUp(upstream, n, rest)
       ELSE stack' = rest /\ UNCHANGED sourceVars
  /\ UNCHANGED <<lock, concatVars>>

\* Cancel, lines 1067-1072, returning to rest: the lock stays.
ConcatCancel(rest) ==
  /\ fault' = (upstream = 0)
  /\ phase' = Deleted({upstream})
  /\ stack' = rest
  /\ UNCHANGED <<requested, generating, yielded, granted, delivered, awaited,
                 balance, lock, concatVars>>

ConcatStep ==
  \/ ConcatOnSubscribe \/ ConcatValue \/ ConcatEnd \/ ConcatRelease \/ ConcatSwitch
  \/ SourceReturns({}) /\ UNCHANGED <<balance, lock, open, userVars, concatVars>>

-----------------------------------------------------------------------------
(* Properties.                                                               *)

\* What the subscriber is owed is exactly what was requested of the current
\* stream and not delivered yet: nothing is lost or doubled at the switch.
RollsOver ==
  (kind = "concat" /\ upstream # 0 /\ Alive(upstream) /\ ~ended /\ ~IsTop("OnNext"))
     => balance = requested[upstream]

=============================================================================
