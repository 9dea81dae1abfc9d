-------------------------- MODULE ExitConfirmation --------------------------
(***************************************************************************)
(* When an auto-managed position is sold, src/auto.rs:                     *)
(* evaluate_confirmed_exit, update_exit_confirmation_state and their place *)
(* in the loop over the open positions.                                    *)
(*                                                                         *)
(* A row of auto_positions counts the cycles that found the price beyond   *)
(* its stop or its target; the counters are written in every cycle that    *)
(* has a price, so a daemon that restarts goes on counting.  A price is    *)
(* the profit it means, in whole per cent of the entry price, and a tick   *)
(* of the clock is a minute.                                               *)
(***************************************************************************)
EXTENDS Integers, Sequences, FiniteSets, FiniteSetsExt

CONSTANTS
  Levels,    \* prices
  Stop,      \* stop_loss of the row
  Target,    \* take_profit of the row
  ExitRules, \* settings the configuration may hold when a cycle reads it
  MaxHold,   \* max_hold_days, in ticks: exit_by is so far from the entry
  MaxSeen,   \* bound on the evaluations of a row
  MaxMinutes \* bound on the clock

ASSUME ExitAssumption ==
  /\ Levels \subseteq Int /\ Stop \in Int /\ Target \in Int /\ Stop < Target
  /\ MaxHold \in Nat
  /\ ExitRules \subseteq [stopOn : BOOLEAN, stopCycles : Nat, stopMinutes : Nat, emergency : Nat,
                          takeOn : BOOLEAN, takeCycles : Nat, minHold : Nat,
                          trailing : BOOLEAN, giveback : Nat]
  /\ ExitRules # {} /\ MaxSeen \in Nat /\ MaxMinutes \in Nat

VARIABLES
  now,
  row,    \* ExitConfirmationState: the counters of auto_positions
  entry,  \* when the position was entered
  why,    \* the exit reason of the last evaluation, the rule it was under, and the
          \* other reasons there were to sell
  seen    \* history: the evaluations of this row, with their times and prices

exitVars == <<now, row, entry, why, seen>>

Never == -1
NoPeak == Stop
Fresh == [stops |-> 0, stopSince |-> Never, takes |-> 0, peak |-> NoPeak]
Waits == {"hold", "stop_wait"}
Reasons == {"emergency", "stop", "stop_confirmed", "take", "trail", "take_confirmed"}
\* Reasons that no counter is kept for: asset_exit_risk, TIME_STOP and ML_DEGRADED.
OtherReasons == {"asset_risk", "time_stop", "ml_degraded"}

ExitInit ==
  /\ now = 0 /\ entry = 0
  /\ row = Fresh
  /\ why = [reason |-> "hold", rule |-> CHOOSE r \in ExitRules : TRUE, others |-> {}]
  /\ seen = <<>>

----------------------------------------------------------------------------
(* evaluate_confirmed_exit() *)

BiggerOf(x, y) == IF x > y THEN x ELSE y

StopCounted(s) ==
  [s EXCEPT !.stops = @ + 1, !.stopSince = IF @ = Never THEN now ELSE @]

\* Mutant of StopReset: the breaches of the stop add up over the life of the row.
StopResetNever(s) == s

\* A price above the stop.
StopReset(s) == [s EXCEPT !.stops = 0, !.stopSince = Never]

TakeCounted(s, price) ==
  IF price >= Target THEN [s EXCEPT !.takes = @ + 1, !.peak = BiggerOf(@, price)]
                     ELSE [s EXCEPT !.takes = 0]

\* The counters after a price; the target is not looked at while the stop is
\* breached.
Counted(s, price) ==
  IF price <= Stop THEN StopCounted(s) ELSE TakeCounted(StopReset(s), price)

\* A price at or below the stop, s counting it.
StopReason(rule, s, price) ==
  LET lasts == rule.stopMinutes > 0 /\ now - s.stopSince >= rule.stopMinutes
  IN  IF rule.emergency > 0 /\ price <= -rule.emergency THEN "emergency"
      ELSE IF ~rule.stopOn \/ rule.stopCycles <= 1 THEN "stop"
      ELSE IF s.stops >= rule.stopCycles \/ lasts THEN "stop_confirmed"
      ELSE "stop_wait"

\* Any other price.  The peak outlives the prices that were below the target.
TakeReason(rule, s, price) ==
  LET held == now - entry >= rule.minHold
      gave == s.peak # NoPeak /\ s.peak - price >= rule.giveback
  IN  IF price >= Target /\ ~rule.takeOn THEN "take"
      ELSE IF rule.takeOn /\ rule.trailing /\ held /\ gave THEN "trail"
      ELSE IF price >= Target /\ held /\ s.takes >= rule.takeCycles THEN "take_confirmed"
      ELSE "hold"

Evaluated(rule, s, price) ==
  IF price <= Stop THEN StopReason(rule, s, price) ELSE TakeReason(rule, s, price)

----------------------------------------------------------------------------
(* The cycles *)

\* What the cycle decides when the prices call for `call`: an asset the broker no
\* longer trades goes whatever they say, a row that is due or whose symbol lost
\* its rank only when they do not sell it.
Decided(call, others) ==
  IF "asset_risk" \in others THEN "asset_risk"
  ELSE IF call \in Reasons THEN call
  ELSE IF "time_stop" \in others THEN "time_stop"
  ELSE IF "ml_degraded" \in others THEN "ml_degraded"
  ELSE call

\* What a cycle finds about the symbol in `assets` and `ml_predictions`; the rank of a
\* symbol at risk is not looked up.
Finds == {{}, {"asset_risk"}, {"ml_degraded"}}

TimeStop == IF now - entry >= MaxHold THEN {"time_stop"} ELSE {}

Minute ==
  /\ now < MaxMinutes
  /\ now' = now + 1
  /\ UNCHANGED <<row, entry, why, seen>>

\* A cycle that has a price of the symbol: it evaluates and stores the counters,
\* whatever else it finds.  One that has no price passes the row over, and one
\* that dies first has stored nothing.
Cycle(rule, price, found) ==
  /\ Len(seen) < MaxSeen
  /\ row' = Counted(row, price)
  /\ why' = [reason |-> Decided(Evaluated(rule, Counted(row, price), price), found \cup TimeStop),
             rule |-> rule, others |-> found \cup TimeStop]
  /\ seen' = Append(seen, [t |-> now, price |-> price])
  /\ UNCHANGED <<now, entry>>

\* The exit order of a reason is filled, and the symbol is bought again: the
\* new row starts from nothing.  The order need not come to this: a closed
\* window, the day-trade limit or the broker may be in its way, and the next
\* cycle evaluates the row again.
Reentered ==
  /\ why.reason \in Reasons \cup OtherReasons
  /\ row' = Fresh /\ entry' = now /\ seen' = <<>>
  /\ why' = [why EXCEPT !.reason = "hold"]
  /\ UNCHANGED now

ExitNext ==
  \/ Minute
  \/ \E rule \in ExitRules, price \in Levels, found \in Finds :
       Cycle(rule, price, found)
  \/ Reentered

ExitSpec == ExitInit /\ [][ExitNext]_exitVars

----------------------------------------------------------------------------
(* Properties *)

ExitTypeOK ==
  /\ now \in 0 .. MaxMinutes /\ entry \in 0 .. now
  /\ row \in [stops : 0 .. MaxSeen, stopSince : {Never} \cup (0 .. now), takes : 0 .. MaxSeen,
              peak : {NoPeak} \cup {l \in Levels : l >= Target}]
  /\ why \in [reason : Waits \cup Reasons \cup OtherReasons, rule : ExitRules,
              others : SUBSET OtherReasons]
  /\ seen \in Seq([t : 0 .. now, price : Levels])

\* What the prices of the row so far call for under a rule, told from all of
\* them at once: a stop after enough breaches in a row or after they lasted
\* long enough, a target after enough hits with no price between the stop and
\* the target in between, or a price that gave back enough of the best hit.
Called(rule) ==
  LET n    == Len(seen)
      p    == seen[n].price
      run  == {i \in 1 .. n : \A k \in i .. n : seen[k].price <= Stop}
      hit  == {i \in 1 .. n : seen[i].price >= Target}
      hits == {i \in hit : \A k \in i .. n : seen[k].price <= Stop \/ k \in hit}
      held == now - entry >= rule.minHold
      gives == \E i \in hit : seen[i].price - p >= rule.giveback
  IN  IF p <= Stop
      THEN IF rule.emergency > 0 /\ -p >= rule.emergency THEN "emergency"
           ELSE IF ~rule.stopOn \/ rule.stopCycles <= 1 THEN "stop"
           ELSE IF Cardinality(run) >= rule.stopCycles THEN "stop_confirmed"
           ELSE IF rule.stopMinutes > 0 /\ now - seen[Min(run)].t >= rule.stopMinutes THEN "stop_confirmed"
           ELSE "stop_wait"
      ELSE IF n \in hit /\ ~rule.takeOn THEN "take"
           ELSE IF rule.takeOn /\ rule.trailing /\ held /\ gives THEN "trail"
           ELSE IF n \in hit /\ held /\ Cardinality(hits) >= rule.takeCycles THEN "take_confirmed"
           ELSE "hold"

\* Every decision of a cycle is the one that all the prices of the row call
\* for under the rule in force, but for the reasons that need no counter: the
\* counters that are carried from cycle to cycle, over restarts, cycles without
\* a price, exits that did not come about and changes of the rule, lose nothing
\* and keep nothing too long, and neither does a cycle that sells, or tries to,
\* for another reason.
DecidedByHistory ==
  seen # <<>> /\ seen[Len(seen)].t = now =>
    why.reason = Decided(Called(why.rule), why.others)
=============================================================================
