---------------------------- MODULE DailyRefresh ----------------------------
(***************************************************************************)
(* Daily maintenance: the data/ML pipeline (main.rs), the checkpoint that  *)
(* lets an interrupted run resume (pipeline_resume.rs), the stamp that     *)
(* says which market date is done, and the daemon that runs the pipeline   *)
(* once per date in a child process (daemon.rs).  Commands may run the     *)
(* same pipeline, or one with other parameters, at any time.               *)
(*                                                                         *)
(* The update lock appears as the slot it promises (UpdateSlot): free or   *)
(* held, and free again when its holder is dead.                           *)
(***************************************************************************)
EXTENDS Naturals, FiniteSets

CONSTANTS
  Daemon,         \* the daemon
  Children,       \* the processes it runs the pipeline in, one after the other;
                  \* as many as may be at work at once
  Manual,         \* commands
  Profiles,       \* parameters of a run: PipelineResumeProfile
  Standard,       \* the daemon's profile; commands may use it too
  Stamping,       \* profiles of a full run that is not --quick
  Last,           \* the steps are 1..Last, of which 1 fetches the bars
  MarketDays, MaxDay,  \* open dates; bound on the clock
  MaxFaults,      \* bound on failed steps, kills and crashes
  None            \* no holder, no checkpoint, no profile

Runners == Manual \cup Children
Steps == 1..Last
Days == 0..MaxDay    \* 0: never, or before the first date
Checkpoint == [profile : Profiles, done : SUBSET Steps]

ASSUME DailyAssumption ==
  /\ Daemon \notin Runners /\ Children \cap Manual = {}
  /\ None \notin Runners \cup {Daemon} \cup Profiles \cup Checkpoint
  /\ Standard \in Stamping /\ Stamping \subseteq Profiles
  /\ Last \in Nat \ {0} /\ MaxDay \in Nat \ {0} /\ MaxFaults \in Nat
  /\ MarketDays \subseteq 1..MaxDay

VARIABLES
  day, phase,  \* the clock: the date; "open", "closed", or "due" when the
               \* refresh is due, after_close_minutes past the close
  stamp,       \* the date in the stamp file
  ckpt,        \* the checkpoint file: None, or a profile and the steps done
  data,        \* per step, the bar date that its results are built from
  lock,        \* holder of the update slot
  dm,          \* the daemon: where it stands, the date it works for, its child
  run,         \* each runner: where it stands, and what it holds in memory
  faults,      \* failed steps, kills and crashes so far
  author,      \* history: per step, the profile of the run that did it last
  fresh,       \* history: steps done since the stamp was last written
  overlapped   \* history: a run was begun before another was over

vars == <<day, phase, stamp, ckpt, data, lock, dm, run, faults, author, fresh, overlapped>>

Off == [at |-> "off", profile |-> Standard, done |-> {}, resumed |-> FALSE]

Resting == [at |-> "idle", date |-> 0, child |-> None]

Active(r) == run[r].at \notin {"off", "ok", "failed"}

\* Mutant of LatestBars: a date is completed once it is over.
LatestBarsOfPast ==
  LET past == {d \in MarketDays : d < day}
  IN  IF past = {} THEN 0 ELSE CHOOSE d \in past : \A e \in past : e <= d

\* latest_completed_daily_bar_date() and previous_open_market_date()
LatestBars ==
  LET past == {d \in MarketDays : d < day \/ (d = day /\ phase # "open")}
  IN  IF past = {} THEN 0 ELSE CHOOSE d \in past : \A e \in past : e <= d

\* The date tests of daily_refresh_due() and of
\* manual_daily_refresh_success_date().
Due == day \in MarketDays /\ phase = "due" /\ stamp # day

Init ==
  /\ day = 1 /\ phase = "open"
  /\ stamp = 0
  /\ ckpt = None
  /\ data = [i \in Steps |-> 0]
  /\ lock = None
  /\ dm = Resting
  /\ run = [r \in Runners |-> Off]
  /\ faults = 0
  /\ author = [i \in Steps |-> None]
  /\ fresh = {}
  /\ overlapped = FALSE

Tick ==
  /\ \/ phase = "open" /\ phase' = "closed" /\ UNCHANGED day
     \/ phase = "closed" /\ phase' = "due" /\ UNCHANGED day
     \/ phase = "due" /\ day < MaxDay /\ phase' = "open" /\ day' = day + 1
  /\ UNCHANGED <<stamp, ckpt, data, lock, dm, run, faults, author, fresh, overlapped>>

Fault == faults < MaxFaults /\ faults' = faults + 1

----------------------------------------------------------------------------
(* The daemon's loop and run_daily_maintenance() *)

\* daily_refresh_due() answers a date.
DaemonDue ==
  /\ dm.at = "idle"
  /\ Due
  /\ dm' = [at |-> "acquire", date |-> day, child |-> None]
  /\ UNCHANGED <<day, phase, stamp, ckpt, data, lock, run, faults, author, fresh, overlapped>>

\* acquire(): busy means that the loop tries again later.
DaemonAcquire ==
  /\ dm.at = "acquire"
  /\ IF lock = None
       THEN lock' = Daemon /\ dm' = [dm EXCEPT !.at = "spawn"]
       ELSE UNCHANGED lock /\ dm' = Resting
  /\ UNCHANGED <<day, phase, stamp, ckpt, data, run, faults, author, fresh, overlapped>>

\* `auto sync-orders` has succeeded; `ml refresh` is started, beside whatever child
\* of an earlier daemon is still at work.
DaemonSpawn ==
  /\ dm.at = "spawn"
  /\ LET free == {c \in Children : run[c].at = "off"}
         c == CHOOSE c \in free : TRUE
     IN  /\ free # {}
         /\ dm' = [dm EXCEPT !.at = "wait", !.child = c]
         /\ run' = [run EXCEPT ![c] = [Off EXCEPT !.at = "open"]]
  /\ UNCHANGED <<day, phase, stamp, ckpt, data, lock, faults, author, fresh, overlapped>>

\* Mutant of DaemonReap: the guard is not dropped on an error.
DaemonReapKeeping ==
  /\ dm.at = "wait"
  /\ run[dm.child].at \in {"ok", "failed"}
  /\ dm' = IF run[dm.child].at = "ok" THEN [dm EXCEPT !.at = "stamp", !.child = None] ELSE Resting
  /\ run' = [run EXCEPT ![dm.child] = Off]
  /\ UNCHANGED <<day, phase, stamp, ckpt, data, lock, faults, author, fresh, overlapped>>

\* The child's exit status; an error drops the guard.
DaemonReap ==
  /\ dm.at = "wait"
  /\ run[dm.child].at \in {"ok", "failed"}
  /\ IF run[dm.child].at = "ok"
       THEN dm' = [dm EXCEPT !.at = "stamp", !.child = None] /\ UNCHANGED lock
       ELSE dm' = Resting /\ lock' = None
  /\ run' = [run EXCEPT ![dm.child] = Off]
  /\ UNCHANGED <<day, phase, stamp, ckpt, data, faults, author, fresh, overlapped>>

\* Mutant of DaemonStamp: the UTC date, which is tomorrow when the refresh is
\* due in New York.
DaemonStampUtc ==
  /\ dm.at = "stamp"
  /\ stamp' = dm.date + 1
  /\ fresh' = {}
  /\ lock' = None
  /\ dm' = Resting
  /\ UNCHANGED <<day, phase, ckpt, data, run, faults, author, overlapped>>

\* Feeds and tax estimates have succeeded: write_daily_refresh_stamp(date)
\* and the guard's finish().
DaemonStamp ==
  /\ dm.at = "stamp"
  /\ stamp' = dm.date
  /\ fresh' = {}
  /\ lock' = None
  /\ dm' = Resting
  /\ UNCHANGED <<day, phase, ckpt, data, run, faults, author, overlapped>>

\* Syncing orders, feeds or tax estimates fails, or the daemon crashes and is
\* started again; its child goes on by itself.
DaemonFault ==
  /\ dm.at # "idle"
  /\ Fault
  /\ dm' = Resting
  /\ lock' = IF lock = Daemon THEN None ELSE lock
  /\ UNCHANGED <<day, phase, stamp, ckpt, data, run, author, fresh, overlapped>>

\* The exit of a child that its daemon does not wait for.
Orphan(c) ==
  /\ ~(dm.at = "wait" /\ dm.child = c)
  /\ run[c].at \in {"ok", "failed"}
  /\ run' = [run EXCEPT ![c] = Off]
  /\ UNCHANGED <<day, phase, stamp, ckpt, data, lock, dm, faults, author, fresh, overlapped>>

----------------------------------------------------------------------------
(* A run of the pipeline: cmd_ml_pipeline_refresh() or cmd_daily() *)

\* A command acquires the update lock; the daemon's child passes through.
Start(m, p) ==
  /\ run[m].at = "off"
  /\ lock = None
  /\ lock' = m
  /\ run' = [run EXCEPT ![m] = [Off EXCEPT !.at = "open", !.profile = p]]
  /\ UNCHANGED <<day, phase, stamp, ckpt, data, dm, faults, author, fresh, overlapped>>

\* Another run is active, or the daemon has not stamped yet what its child has done.
OthersAtWork(r) ==
  \/ \E q \in Runners \ {r} : Active(q)
  \/ dm.at = "stamp"
  \/ dm.at = "wait" /\ run[dm.child].at = "ok"

\* Mutant of Open: a checkpoint of any profile is resumed.
OpenAny(r, restart) ==
  LET done == IF ~restart /\ ckpt # None THEN ckpt.done ELSE {}
  IN  /\ run[r].at = "open"
      /\ restart => r \in Manual
      /\ run' = [run EXCEPT ![r].at = "step", ![r].done = done, ![r].resumed = done # {}]
      /\ ckpt' = [profile |-> run[r].profile, done |-> done]
      /\ overlapped' = (overlapped \/ OthersAtWork(r))
      /\ UNCHANGED <<day, phase, stamp, data, lock, dm, faults, author, fresh>>

\* PipelineResume::open(): the steps of a checkpoint of the same profile count
\* as done, on whatever date they were; any other checkpoint is replaced, and
\* --restart removes it first.
Open(r, restart) ==
  LET done == IF ~restart /\ ckpt # None /\ ckpt.profile = run[r].profile THEN ckpt.done ELSE {}
  IN  /\ run[r].at = "open"
      /\ restart => r \in Manual
      /\ run' = [run EXCEPT ![r].at = "step", ![r].done = done, ![r].resumed = done # {}]
      /\ ckpt' = [profile |-> run[r].profile, done |-> done]
      /\ overlapped' = (overlapped \/ OthersAtWork(r))
      /\ UNCHANGED <<day, phase, stamp, data, lock, dm, faults, author, fresh>>

\* begin_step() skips what is done; the first step that is not is carried
\* out: the bars up to the latest completed date, the rest from the results
\* of the step before.
NextStep(r) == CHOOSE i \in Steps \ run[r].done : \A j \in Steps \ run[r].done : i <= j

Execute(r) ==
  /\ run[r].at = "step"
  /\ run[r].done # Steps
  /\ LET i == NextStep(r)
     IN  /\ data' = [data EXCEPT ![i] = IF i = 1 THEN LatestBars ELSE data[i - 1]]
         /\ author' = [author EXCEPT ![i] = run[r].profile]
         /\ fresh' = fresh \cup {i}
  /\ run' = [run EXCEPT ![r].at = "record"]
  /\ UNCHANGED <<day, phase, stamp, ckpt, lock, dm, faults, overlapped>>

\* complete_step(): the whole state goes to the file.
Record(r) ==
  /\ run[r].at = "record"
  /\ LET done == run[r].done \cup {NextStep(r)}
     IN  /\ run' = [run EXCEPT ![r].at = "step", ![r].done = done]
         /\ ckpt' = [profile |-> run[r].profile, done |-> done]
  /\ UNCHANGED <<day, phase, stamp, data, lock, dm, faults, author, fresh, overlapped>>

\* Mutant of Finish: the checkpoint is left behind.
FinishKeeping(r) ==
  /\ run[r].at = "step"
  /\ run[r].done = Steps
  /\ run' = [run EXCEPT ![r].at = IF r \in Children THEN "ok" ELSE "mark"]
  /\ UNCHANGED <<day, phase, stamp, ckpt, data, lock, dm, faults, author, fresh, overlapped>>

\* PipelineResume::finish() after the last step; the child then exits with
\* success.
Finish(r) ==
  /\ run[r].at = "step"
  /\ run[r].done = Steps
  /\ run' = [run EXCEPT ![r].at = IF r \in Children THEN "ok" ELSE "mark"]
  /\ ckpt' = None
  /\ UNCHANGED <<day, phase, stamp, data, lock, dm, faults, author, fresh, overlapped>>

\* mark_manual_daily_refresh_success() of a command that was a full run, and
\* the guard's finish().
Mark(m) ==
  /\ run[m].at = "mark"
  /\ stamp' = IF Due /\ run[m].profile \in Stamping THEN day ELSE stamp
  /\ fresh' = IF stamp' # stamp THEN {} ELSE fresh
  /\ lock' = IF lock = m THEN None ELSE lock
  /\ run' = [run EXCEPT ![m] = Off]
  /\ UNCHANGED <<day, phase, ckpt, data, dm, faults, author, overlapped>>

\* A step fails (the checkpoint keeps the steps done), or the process is
\* killed at any point; the slot of a dead process is free.
Abort(r) ==
  /\ Active(r)
  /\ Fault
  /\ run' = [run EXCEPT ![r] = IF r \in Children THEN [Off EXCEPT !.at = "failed"] ELSE Off]
  /\ lock' = IF lock = r THEN None ELSE lock
  /\ UNCHANGED <<day, phase, stamp, ckpt, data, dm, author, fresh, overlapped>>

----------------------------------------------------------------------------

DaemonStep == DaemonDue \/ DaemonAcquire \/ DaemonSpawn \/ DaemonReap \/ DaemonStamp

RunStep(r) ==
  \/ Open(r, FALSE) \/ Execute(r) \/ Record(r) \/ Finish(r)
  \/ r \in Manual /\ Mark(r)

Next ==
  \/ Tick
  \/ DaemonStep \/ DaemonFault
  \/ \E c \in Children : Orphan(c)
  \/ \E r \in Runners : RunStep(r) \/ Open(r, TRUE) \/ Abort(r)
  \/ \E m \in Manual, p \in Profiles : Start(m, p)

Spec == Init /\ [][Next]_vars

\* Time passes, the daemon loops (a blocked or failed refresh is tried again
\* after an hour), and a run that is not killed goes on.
Fairness ==
  /\ WF_vars(Tick)
  /\ WF_vars(DaemonStep)
  /\ \A r \in Runners : WF_vars(RunStep(r))
  /\ \A c \in Children : WF_vars(Orphan(c))

FairSpec == Spec /\ Fairness

----------------------------------------------------------------------------
(* Properties *)

TypeOK ==
  /\ day \in 1..MaxDay
  /\ phase \in {"open", "closed", "due"}
  /\ stamp \in Days
  /\ ckpt \in Checkpoint \cup {None}
  /\ data \in [Steps -> Days]
  /\ lock \in Manual \cup {Daemon, None}
  /\ dm \in [at : {"idle", "acquire", "spawn", "wait", "stamp"}, date : Days,
            child : Children \cup {None}]
  /\ run \in [Runners -> [at : {"off", "open", "step", "record", "mark", "ok", "failed"},
                          profile : Profiles, done : SUBSET Steps,
                          resumed : BOOLEAN]]
  /\ \A r \in Runners : run[r].at = "record" => run[r].done # Steps
  /\ faults \in 0..MaxFaults
  /\ author \in [Steps -> Profiles \cup {None}]
  /\ fresh \in SUBSET Steps
  /\ overlapped \in BOOLEAN

\* What a checkpoint says is done was done under its profile, and nothing else
\* has overwritten it since: a resumed run never skips a step whose results
\* belong to a run with other parameters (PipelineResume::open).
CheckpointIsTrue ==
  ckpt # None /\ ~overlapped => \A i \in ckpt.done : author[i] = ckpt.profile

\* The refresh of a date has become due.
WasDue(d) == d \in MarketDays /\ (d < day \/ (d = day /\ phase = "due"))

\* A stamp names a market date whose refresh has been due, never one that is still to come,
\* however long the run took and whoever wrote it (run_daily_maintenance,
\* mark_manual_daily_refresh_success): daily_refresh_due skips the date it names.
StampWasDue == stamp # 0 => WasDue(stamp)

\* The state of a refresh is true: its types, its stamp and its checkpoint.
RefreshIsTrue == TypeOK /\ StampWasDue /\ CheckpointIsTrue

\* A stamp is backed by a whole pipeline: between two stamps every step has
\* been carried out, whatever was skipped, interrupted, or removed.
StampBacksWholePipeline == [][stamp' # stamp => fresh = Steps \/ overlapped]_vars

\* When nobody overlapped, the stamp of a run that started from its first step
\* on a date whose refresh was due is true: the predictions are built from the
\* bars of that date or a later one, even if the run took days.
StampIsFreshUnlessResumed ==
  [][dm.at = "wait" /\ dm'.at = "stamp" /\ ~run[dm.child].resumed /\ ~overlapped
       => data[Last] >= dm.date]_vars

\* Once commands and faults are over, the refresh of the last date is done:
\* no stale lock, checkpoint or orphan child keeps the daemon from it.
LastDateGetsStamped ==
  (MaxDay \in MarketDays /\ <>[](\A m \in Manual : run[m].at = "off"))
    => <>(stamp = MaxDay)

\* docs/CONFIGURATION.md, the daily maintenance order: "Inside `ml refresh`,
\* refresh the universe, FRED data, Alpaca bars, ..., predictions, ...", and only
\* then the stamp: when the daemon stamps a date, the predictions are built from
\* that date's bars.
DaemonStampHasItsBars ==
  [][dm.at = "stamp" /\ stamp' # stamp => data[Last] >= stamp']_vars

=============================================================================
