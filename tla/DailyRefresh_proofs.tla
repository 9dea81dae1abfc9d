------------------------- MODULE DailyRefresh_proofs -------------------------
(***************************************************************************)
(* Proofs about daily maintenance, for any number of commands, profiles,   *)
(* steps, dates and faults.                                                *)
(*                                                                         *)
(* The argument: as long as no two runs were active at once, at most one   *)
(* has opened the checkpoint, and what the file says is what that run      *)
(* holds in memory.  The update lock keeps commands from a daemon that     *)
(* waits for its child or stamps.                                          *)
(***************************************************************************)
EXTENDS DailyRefresh, DataLemmas

\* A run between its checkpoint's opening and its end.
Opened(r) == run[r].at \in {"step", "record"}

\* A command holds the update lock for as long as it runs, and the daemon from the
\* moment it has acquired it up to its stamp.
LocksHeld ==
  /\ \A m \in Manual : Active(m) => lock = m
  /\ dm.at \in {"spawn", "wait", "stamp"} => lock = Daemon

\* The daemon's children: none ever marks, each ends well with every step done, and a
\* daemon that waits for its own finds it.
ChildRuns ==
  /\ \A c \in Children : run[c].at # "mark"
  /\ \A m \in Manual : run[m].at \notin {"ok", "failed"}
  /\ \A r \in Runners : run[r].at \in {"mark", "ok"} => run[r].done = Steps
  /\ dm.at = "wait" => dm.child \in Children /\ run[dm.child].at # "off"

\* While nobody overlapped, at most one active run has opened the checkpoint.
OneOpened ==
  \A q, r \in Runners : q # r /\ Active(q) /\ Active(r) => run[q].at = "open" \/ run[r].at = "open"

\* The checkpoint file is what the run that has opened it holds in memory.
OwnCheckpoint ==
  \A r \in Runners :
    Opened(r) => ckpt = [profile |-> run[r].profile, done |-> run[r].done]

\* The step that a run is about to record is its own.
OwnStep ==
  \A r \in Runners :
    run[r].at = "record" => author[NextStep(r)] = run[r].profile /\ NextStep(r) \in fresh

\* A run that has ended, and is not yet followed by another, has removed the checkpoint,
\* and every step has been done since the last stamp.
EndedWhole ==
  \/ \E r \in Runners : run[r].at = "mark"
  \/ dm.at = "wait" /\ run[dm.child].at = "ok"
  \/ dm.at = "stamp"
  => ckpt = None /\ fresh = Steps

\* What a checkpoint has as done was done since the last stamp, by runs of its profile.
DoneIsFresh ==
  ckpt # None => /\ ckpt.done \subseteq fresh
                 /\ \A i \in ckpt.done : author[i] = ckpt.profile

\* A date that the daemon works for has been due.
DateHasPassed == dm.at # "idle" => WasDue(dm.date)

\* What a child that resumed nothing has done for a waiting daemon, it has done with the bars
\* of the daemon's date.
ChildHasBars ==
  dm.at = "wait" /\ ~run[dm.child].resumed /\ run[dm.child].at \in {"step", "record", "ok"} =>
    /\ \A i \in run[dm.child].done : data[i] >= dm.date
    /\ run[dm.child].at = "record" => data[NextStep(dm.child)] >= dm.date

\* What holds always, and what holds while nobody overlapped.
Always == TypeOK /\ LocksHeld /\ ChildRuns /\ DateHasPassed /\ StampWasDue
Alone == OneOpened /\ OwnCheckpoint /\ OwnStep /\ EndedWhole /\ DoneIsFresh /\ ChildHasBars
IInv == Always /\ (~overlapped => Alone)
-----------------------------------------------------------------------------
\* latest_completed_daily_bar_date() is a date, and no completed open date is later.
LEMMA LatestIsLatest ==
  ASSUME day \in 1..MaxDay
  PROVE  /\ LatestBars \in Days
         /\ \A d \in MarketDays : d < day \/ (d = day /\ phase # "open") => d <= LatestBars
<1> DEFINE past == {d \in MarketDays : d < day \/ (d = day /\ phase # "open")}
<1>0. MaxDay \in Nat /\ \A d \in MarketDays : d \in 0..MaxDay
  BY DailyAssumption
<1>1. past \subseteq 0..MaxDay /\ MaxDay \in Nat
  BY <1>0
<1>2. CASE past = {}
  BY <1>1, <1>2 DEF LatestBars, Days
<1>3. CASE past # {}
  <2>1. \E d \in past : \A e \in past : e <= d
    BY <1>1, <1>3, Greatest
  <2> DEFINE latest == CHOOSE d \in past : \A e \in past : e <= d
  <2>2. latest \in past /\ \A e \in past : e <= latest
    BY <2>1
  <2>3. LatestBars = latest
    BY <1>3 DEF LatestBars
  <2> HIDE DEF latest
  <2> QED BY <1>1, <2>2, <2>3 DEF Days
<1> QED BY <1>2, <1>3

\* begin_step() goes to the first step that is not done, so that every step before it is.
LEMMA NextIsFirst ==
  ASSUME TypeOK, NEW r \in Runners, run[r].done # Steps
  PROVE  /\ NextStep(r) \in Steps \ run[r].done
         /\ \A j \in Steps : j < NextStep(r) => j \in run[r].done
<1> DEFINE left == Steps \ run[r].done
<1>0. \A i \in Steps : i \in Nat
  BY DailyAssumption DEF Steps
<1>a. run[r].done \subseteq Steps
  BY DEF TypeOK
<1>1. left \subseteq Nat /\ left # {}
  BY <1>0, <1>a
<1>2. \E i \in left : \A j \in left : i <= j
  BY <1>1, Least
<1> DEFINE first == CHOOSE i \in left : \A j \in left : i <= j
<1>3. first \in left /\ \A j \in left : first <= j
  BY <1>2
<1>4. NextStep(r) = first
  BY DEF NextStep
<1> HIDE DEF first
<1> QED BY <1>0, <1>3, <1>4

\* `ml refresh` is started in the process c, which is not at work.
SpawnsIn(c) ==
  /\ dm.at = "spawn" /\ run[c].at = "off"
  /\ dm' = [dm EXCEPT !.at = "wait", !.child = c]
  /\ run' = [run EXCEPT ![c] = [Off EXCEPT !.at = "open"]]
  /\ UNCHANGED <<day, phase, stamp, ckpt, data, lock, faults, author, fresh, overlapped>>

\* It is one of those free.
LEMMA Spawned == DaemonSpawn => \E c \in Children : SpawnsIn(c)
<1> SUFFICES ASSUME DaemonSpawn PROVE \E c \in Children : SpawnsIn(c)
  OBVIOUS
<1> DEFINE free == {c \in Children : run[c].at = "off"}
           chosen == CHOOSE c \in free : TRUE
<1>1. free # {}
  BY DEF DaemonSpawn
<1>2. chosen \in free
  BY <1>1
<1>3. /\ dm.at = "spawn"
      /\ dm' = [dm EXCEPT !.at = "wait", !.child = chosen]
      /\ run' = [run EXCEPT ![chosen] = [Off EXCEPT !.at = "open"]]
      /\ UNCHANGED <<day, phase, stamp, ckpt, data, lock, faults, author, fresh, overlapped>>
  BY DEF DaemonSpawn
<1> HIDE DEF chosen
<1> QED BY <1>2, <1>3 DEF SpawnsIn

\* What the daemon makes of a child that has ended: only the child's run changes.
LEMMA Reaped ==
  ASSUME TypeOK, ChildRuns, DaemonReap
  PROVE  /\ dm.child \in Children /\ dm.child \in Runners /\ dm.at = "wait"
         /\ run' \in [Runners -> [at : {"off", "open", "step", "record", "mark", "ok", "failed"},
                                  profile : Profiles, done : SUBSET Steps,
                                  resumed : BOOLEAN]]
         /\ run'[dm.child].at = "off"
         /\ \A r \in Runners \ {dm.child} : run'[r] = run[r]
         /\ dm' \in [at : {"idle", "acquire", "spawn", "wait", "stamp"}, date : Days,
                     child : Children \cup {None}]
         /\ \/ /\ run[dm.child].at = "ok"
               /\ dm'.at = "stamp" /\ dm'.date = dm.date /\ lock' = lock
            \/ /\ run[dm.child].at = "failed"
               /\ dm'.at = "idle" /\ lock' = None
         /\ UNCHANGED <<day, phase, stamp, ckpt, data, faults, author, fresh, overlapped>>
<1> DEFINE TheRuns == [at : {"off", "open", "step", "record", "mark", "ok", "failed"},
                       profile : Profiles, done : SUBSET Steps, resumed : BOOLEAN]
           TheDaemon == [at : {"idle", "acquire", "spawn", "wait", "stamp"}, date : Days,
                         child : Children \cup {None}]
<1>1. dm.child \in Children /\ dm.child \in Runners /\ run' = [run EXCEPT ![dm.child] = Off]
  BY DEF DaemonReap, ChildRuns, Runners
<1>2. Off \in TheRuns /\ Off.at = "off"
  BY DailyAssumption DEF Off
<1>3. run \in [Runners -> TheRuns]
  BY DEF TypeOK
<1>4. CASE run[dm.child].at = "ok"
  <2>1. dm' = [dm EXCEPT !.at = "stamp", !.child = None] /\ lock' = lock
    BY <1>4 DEF DaemonReap
  <2>2. dm' \in TheDaemon /\ dm'.at = "stamp" /\ dm'.date = dm.date
    BY <2>1 DEF TypeOK
  <2> HIDE DEF TheRuns, TheDaemon
  <2>3. run' \in [Runners -> TheRuns]
    BY <1>1, <1>2, <1>3
  <2>4. run'[dm.child].at = "off" /\ \A r \in Runners \ {dm.child} : run'[r] = run[r]
    BY <1>1, <1>2, <1>3
  <2> QED BY <1>1, <1>4, <2>1, <2>2, <2>3, <2>4 DEF DaemonReap, TheRuns, TheDaemon
<1>5. CASE run[dm.child].at = "failed"
  <2>1. dm' = Resting /\ lock' = None
    BY <1>5 DEF DaemonReap
  <2>2. dm' \in TheDaemon /\ dm'.at = "idle"
    BY <2>1, DailyAssumption DEF Resting, Days
  <2> HIDE DEF TheRuns, TheDaemon
  <2>3. run' \in [Runners -> TheRuns]
    BY <1>1, <1>2, <1>3
  <2>4. run'[dm.child].at = "off" /\ \A r \in Runners \ {dm.child} : run'[r] = run[r]
    BY <1>1, <1>2, <1>3
  <2> QED BY <1>1, <1>5, <2>1, <2>2, <2>3, <2>4 DEF DaemonReap, TheRuns, TheDaemon
<1> QED BY <1>4, <1>5 DEF DaemonReap

\* The variables keep their types, at every step of daemon, runs and clock.
LEMMA TypeStep == TypeOK /\ ChildRuns /\ [Next]_vars => TypeOK'
<1> SUFFICES ASSUME TypeOK, ChildRuns, [Next]_vars PROVE TypeOK'
  OBVIOUS
<1> USE DailyAssumption DEF DailyAssumption, TypeOK, Runners, Days, Checkpoint, Off, Resting
<1>1. CASE Tick
  BY <1>1 DEF Tick
<1>2. CASE DaemonDue
  BY <1>2 DEF DaemonDue
<1>3. CASE DaemonAcquire
  BY <1>3 DEF DaemonAcquire
<1>4. CASE DaemonSpawn
  <2>1. PICK c \in Children : SpawnsIn(c)
    BY <1>4, Spawned
  <2> QED BY <2>1 DEF SpawnsIn
<1>5. CASE DaemonReap
  BY <1>5, Reaped
<1>6. CASE DaemonStamp
  BY <1>6 DEF DaemonStamp
<1>7. CASE DaemonFault
  <2>1. faults' \in 0..MaxFaults
    BY <1>7 DEF DaemonFault, Fault
  <2> QED BY <1>7, <2>1 DEF DaemonFault
<1>8. ASSUME NEW c \in Children, Orphan(c)
      PROVE  TypeOK'
  BY <1>8 DEF Orphan
<1>9. ASSUME NEW r \in Runners, RunStep(r) \/ Open(r, TRUE) \/ Abort(r)
      PROVE  TypeOK'
  <2>1. ASSUME NEW restart \in BOOLEAN, Open(r, restart) PROVE TypeOK'
    BY <2>1 DEF Open
  <2>3. CASE Execute(r)
    <3> DEFINE i == NextStep(r)
               bars == IF i = 1 THEN LatestBars ELSE data[i - 1]
    <3>1. i \in Steps
      BY <2>3, NextIsFirst DEF Execute
    <3>2. LatestBars \in Days
      BY LatestIsLatest
    <3>3. bars \in Days
      BY <3>1, <3>2 DEF Steps
    <3>4. /\ data' = [data EXCEPT ![i] = bars]
          /\ author' = [author EXCEPT ![i] = run[r].profile]
          /\ fresh' = fresh \cup {i}
          /\ run' = [run EXCEPT ![r].at = "record"]
          /\ UNCHANGED <<day, phase, stamp, ckpt, lock, dm, faults, overlapped>>
          /\ run[r].done # Steps
      BY <2>3 DEF Execute
    <3> HIDE DEF i, bars
    <3> QED BY <3>1, <3>3, <3>4
  <2>4. CASE Record(r)
    BY <2>4 DEF Record
  <2>5. CASE Finish(r)
    BY <2>5 DEF Finish
  <2>6. CASE Abort(r)
    <3>1. faults' \in 0..MaxFaults
      BY <2>6 DEF Abort, Fault
    <3> QED BY <2>6, <3>1 DEF Abort
  <2>7. CASE r \in Manual /\ Mark(r)
    BY <2>7 DEF Mark
  <2> QED BY <1>9, <2>1, <2>3, <2>4, <2>5, <2>6, <2>7 DEF RunStep
<1>10. ASSUME NEW m \in Manual, NEW p \in Profiles, Start(m, p)
      PROVE  TypeOK'
  BY <1>10 DEF Start
<1>11. CASE UNCHANGED vars
  BY <1>11 DEF vars
<1> QED BY <1>1, <1>2, <1>3, <1>4, <1>5, <1>6, <1>7, <1>8, <1>9, <1>10, <1>11 DEF Next, DaemonStep

\* Nobody takes the lock from a run or from a working daemon.
LEMMA LocksStep == TypeOK /\ ChildRuns /\ LocksHeld /\ [Next]_vars => LocksHeld'
<1> SUFFICES ASSUME TypeOK, ChildRuns, LocksHeld, [Next]_vars PROVE LocksHeld'
  OBVIOUS
<1> USE DailyAssumption DEF TypeOK, LocksHeld, Active, Runners, Off, Resting
<1>1. CASE Tick
  BY <1>1 DEF Tick
<1>2. CASE DaemonDue
  BY <1>2 DEF DaemonDue
<1>3. CASE DaemonAcquire
  BY <1>3 DEF DaemonAcquire
<1>4. CASE DaemonSpawn
  <2>1. PICK c \in Children : SpawnsIn(c)
    BY <1>4, Spawned
  <2> QED BY <2>1 DEF SpawnsIn
<1>5. CASE DaemonReap
  BY <1>5, Reaped
<1>6. CASE DaemonStamp
  BY <1>6 DEF DaemonStamp
<1>7. CASE DaemonFault
  BY <1>7 DEF DaemonFault
<1>8. ASSUME NEW c \in Children, Orphan(c)
      PROVE  LocksHeld'
  BY <1>8 DEF Orphan
<1>9. ASSUME NEW r \in Runners, RunStep(r) \/ Open(r, TRUE) \/ Abort(r)
      PROVE  LocksHeld'
  <2>1. CASE Open(r, FALSE)
    BY <2>1 DEF Open
  <2>2. CASE Open(r, TRUE)
    BY <2>2 DEF Open
  <2>3. CASE Execute(r)
    BY <2>3 DEF Execute
  <2>4. CASE Record(r)
    BY <2>4 DEF Record
  <2>5. CASE Finish(r)
    BY <2>5 DEF Finish
  <2>6. CASE Abort(r)
    BY <2>6 DEF Abort
  <2>7. CASE r \in Manual /\ Mark(r)
    BY <2>7 DEF Mark
  <2> QED BY <1>9, <2>1, <2>2, <2>3, <2>4, <2>5, <2>6, <2>7 DEF RunStep
<1>10. ASSUME NEW m \in Manual, NEW p \in Profiles, Start(m, p)
      PROVE  LocksHeld'
  BY <1>10 DEF Start
<1>11. CASE UNCHANGED vars
  BY <1>11 DEF vars
<1> QED BY <1>1, <1>2, <1>3, <1>4, <1>5, <1>6, <1>7, <1>8, <1>9, <1>10, <1>11 DEF Next, DaemonStep

\* Runs end as their kind does, and a daemon that waits or stamps knows its child.
LEMMA ChildStep == TypeOK /\ ChildRuns /\ [Next]_vars => ChildRuns'
<1> SUFFICES ASSUME TypeOK, ChildRuns, [Next]_vars PROVE ChildRuns'
  OBVIOUS
<1> USE DailyAssumption DEF TypeOK, ChildRuns, Active, Runners, Off, Resting
<1>1. CASE Tick
  BY <1>1 DEF Tick
<1>2. CASE DaemonDue
  BY <1>2 DEF DaemonDue
<1>3. CASE DaemonAcquire
  BY <1>3 DEF DaemonAcquire
<1>4. CASE DaemonSpawn
  <2>1. PICK c \in Children : SpawnsIn(c)
    BY <1>4, Spawned
  <2> QED BY <2>1 DEF SpawnsIn
<1>5. CASE DaemonReap
  BY <1>5, Reaped
<1>6. CASE DaemonStamp
  BY <1>6 DEF DaemonStamp
<1>7. CASE DaemonFault
  BY <1>7 DEF DaemonFault
<1>8. ASSUME NEW c \in Children, Orphan(c)
      PROVE  ChildRuns'
  BY <1>8 DEF Orphan
<1>9. ASSUME NEW r \in Runners, RunStep(r) \/ Open(r, TRUE) \/ Abort(r)
      PROVE  ChildRuns'
  <2>1. CASE Open(r, FALSE)
    BY <2>1 DEF Open
  <2>2. CASE Open(r, TRUE)
    BY <2>2 DEF Open
  <2>3. CASE Execute(r)
    BY <2>3 DEF Execute
  <2>4. CASE Record(r)
    BY <2>4 DEF Record
  <2>5. CASE Finish(r)
    BY <2>5 DEF Finish
  <2>6. CASE Abort(r)
    BY <2>6 DEF Abort
  <2>7. CASE r \in Manual /\ Mark(r)
    BY <2>7 DEF Mark
  <2> QED BY <1>9, <2>1, <2>2, <2>3, <2>4, <2>5, <2>6, <2>7 DEF RunStep
<1>10. ASSUME NEW m \in Manual, NEW p \in Profiles, Start(m, p)
      PROVE  ChildRuns'
  BY <1>10 DEF Start
<1>11. CASE UNCHANGED vars
  BY <1>11 DEF vars
<1> QED BY <1>1, <1>2, <1>3, <1>4, <1>5, <1>6, <1>7, <1>8, <1>9, <1>10, <1>11 DEF Next, DaemonStep

\* The clock does not go back.
LEMMA DateStep == TypeOK /\ ChildRuns /\ DateHasPassed /\ [Next]_vars => DateHasPassed'
<1> SUFFICES ASSUME TypeOK, ChildRuns, DateHasPassed, [Next]_vars PROVE DateHasPassed'
  OBVIOUS
<1> USE DailyAssumption DEF TypeOK, DateHasPassed, WasDue, Due, Resting
<1>1. CASE Tick
  <2>1. day \in Int /\ dm.date \in Int
    BY DEF Days
  <2> QED BY <1>1, <2>1 DEF Tick
<1>2. CASE DaemonDue
  BY <1>2 DEF DaemonDue
<1>3. CASE DaemonAcquire
  BY <1>3 DEF DaemonAcquire
<1>4. CASE DaemonSpawn
  <2>1. PICK c \in Children : SpawnsIn(c)
    BY <1>4, Spawned
  <2> QED BY <2>1 DEF SpawnsIn
<1>5. CASE DaemonReap
  BY <1>5, Reaped
<1>6. CASE DaemonStamp
  BY <1>6 DEF DaemonStamp
<1>7. CASE DaemonFault
  BY <1>7 DEF DaemonFault
<1>8. ASSUME NEW c \in Children, Orphan(c)
      PROVE  DateHasPassed'
  BY <1>8 DEF Orphan
<1>9. ASSUME NEW r \in Runners, RunStep(r) \/ Open(r, TRUE) \/ Abort(r)
      PROVE  DateHasPassed'
  <2>1. CASE Open(r, FALSE)
    BY <2>1 DEF Open
  <2>2. CASE Open(r, TRUE)
    BY <2>2 DEF Open
  <2>3. CASE Execute(r)
    BY <2>3 DEF Execute
  <2>4. CASE Record(r)
    BY <2>4 DEF Record
  <2>5. CASE Finish(r)
    BY <2>5 DEF Finish
  <2>6. CASE Abort(r)
    BY <2>6 DEF Abort
  <2>7. CASE r \in Manual /\ Mark(r)
    BY <2>7 DEF Mark
  <2> QED BY <1>9, <2>1, <2>2, <2>3, <2>4, <2>5, <2>6, <2>7 DEF RunStep
<1>10. ASSUME NEW m \in Manual, NEW p \in Profiles, Start(m, p)
      PROVE  DateHasPassed'
  BY <1>10 DEF Start
<1>11. CASE UNCHANGED vars
  BY <1>11 DEF vars
<1> QED BY <1>1, <1>2, <1>3, <1>4, <1>5, <1>6, <1>7, <1>8, <1>9, <1>10, <1>11 DEF Next, DaemonStep

\* A stamp is of the daemon's date, or of the date that a command finds due.
LEMMA StampStep == TypeOK /\ ChildRuns /\ DateHasPassed /\ StampWasDue /\ [Next]_vars => StampWasDue'
<1> SUFFICES ASSUME TypeOK, ChildRuns, DateHasPassed, StampWasDue, [Next]_vars PROVE StampWasDue'
  OBVIOUS
<1> USE DailyAssumption DEF TypeOK, DateHasPassed, StampWasDue, WasDue, Due, Resting
<1>1. CASE Tick
  <2>1. day \in Int /\ stamp \in Int
    BY DEF Days
  <2> QED BY <1>1, <2>1 DEF Tick
<1>2. CASE DaemonDue
  BY <1>2 DEF DaemonDue
<1>3. CASE DaemonAcquire
  BY <1>3 DEF DaemonAcquire
<1>4. CASE DaemonSpawn
  <2>1. PICK c \in Children : SpawnsIn(c)
    BY <1>4, Spawned
  <2> QED BY <2>1 DEF SpawnsIn
<1>5. CASE DaemonReap
  BY <1>5, Reaped
<1>6. CASE DaemonStamp
  BY <1>6 DEF DaemonStamp
<1>7. CASE DaemonFault
  BY <1>7 DEF DaemonFault
<1>8. ASSUME NEW c \in Children, Orphan(c)
      PROVE  StampWasDue'
  BY <1>8 DEF Orphan
<1>9. ASSUME NEW r \in Runners, RunStep(r) \/ Open(r, TRUE) \/ Abort(r)
      PROVE  StampWasDue'
  <2>1. CASE Open(r, FALSE)
    BY <2>1 DEF Open
  <2>2. CASE Open(r, TRUE)
    BY <2>2 DEF Open
  <2>3. CASE Execute(r)
    BY <2>3 DEF Execute
  <2>4. CASE Record(r)
    BY <2>4 DEF Record
  <2>5. CASE Finish(r)
    BY <2>5 DEF Finish
  <2>6. CASE Abort(r)
    BY <2>6 DEF Abort
  <2>7. CASE r \in Manual /\ Mark(r)
    BY <2>7 DEF Mark
  <2> QED BY <1>9, <2>1, <2>2, <2>3, <2>4, <2>5, <2>6, <2>7 DEF RunStep
<1>10. ASSUME NEW m \in Manual, NEW p \in Profiles, Start(m, p)
      PROVE  StampWasDue'
  BY <1>10 DEF Start
<1>11. CASE UNCHANGED vars
  BY <1>11 DEF vars
<1> QED BY <1>1, <1>2, <1>3, <1>4, <1>5, <1>6, <1>7, <1>8, <1>9, <1>10, <1>11 DEF Next, DaemonStep

\* PipelineResume::open(), when nobody overlaps: the other runs are not active, and what
\* is done is nothing or what a checkpoint of the same profile says.
LEMMA OpenedAlone ==
  ASSUME TypeOK, ~overlapped', NEW r \in Runners, NEW restart \in BOOLEAN, Open(r, restart)
  PROVE  /\ \A q \in Runners \ {r} : ~Active(q) /\ run'[q] = run[q]
         /\ dm.at # "stamp" /\ ~(dm.at = "wait" /\ run[dm.child].at = "ok")
         /\ run[r].at = "open" /\ run'[r].at = "step" /\ run'[r].profile = run[r].profile
         /\ ckpt' = [profile |-> run[r].profile, done |-> run'[r].done]
         /\ \/ run'[r].done = {}
            \/ ckpt # None /\ ckpt.profile = run[r].profile /\ run'[r].done = ckpt.done
         /\ ~run'[r].resumed => run'[r].done = {}
         /\ UNCHANGED <<day, phase, stamp, data, lock, dm, faults, author, fresh>>
<1> DEFINE done == IF ~restart /\ ckpt # None /\ ckpt.profile = run[r].profile
                     THEN ckpt.done ELSE {}
<1>1. /\ \A q \in Runners \ {r} : ~Active(q)
      /\ dm.at # "stamp" /\ ~(dm.at = "wait" /\ run[dm.child].at = "ok")
  BY DEF Open, OthersAtWork
<1>2. /\ run[r].at = "open"
      /\ run' = [run EXCEPT ![r].at = "step", ![r].done = done, ![r].resumed = done # {}]
      /\ ckpt' = [profile |-> run[r].profile, done |-> done]
      /\ UNCHANGED <<day, phase, stamp, data, lock, dm, faults, author, fresh>>
  BY DEF Open
<1>3. \/ done = {}
      \/ ckpt # None /\ ckpt.profile = run[r].profile /\ done = ckpt.done
  OBVIOUS
<1> HIDE DEF done
<1>4. /\ \A q \in Runners \ {r} : run'[q] = run[q]
      /\ run'[r].at = "step" /\ run'[r].profile = run[r].profile /\ run'[r].done = done
      /\ ~run'[r].resumed => done = {}
  BY <1>2 DEF TypeOK
<1> QED BY <1>1, <1>2, <1>3, <1>4

\* The next step depends on what is done only.
LEMMA SameNext ==
  \A r \in Runners : run'[r].done = run[r].done => NextStep(r)' = NextStep(r)
BY DEF NextStep

\* No second run opens the checkpoint without overlapping.
LEMMA OneOpenedStep ==
  ASSUME Always, Always', ~overlapped', OneOpened, [Next]_vars
  PROVE  OneOpened'
<1> USE DailyAssumption DEF Always, TypeOK, LocksHeld, OneOpened, Active, Runners, Off
<1>1. CASE Tick
  BY <1>1 DEF Tick
<1>2. CASE DaemonDue
  BY <1>2 DEF DaemonDue
<1>3. CASE DaemonAcquire
  BY <1>3 DEF DaemonAcquire
<1>4. CASE DaemonSpawn
  <2>1. PICK c \in Children : SpawnsIn(c)
    BY <1>4, Spawned
  <2> QED BY <2>1 DEF SpawnsIn
<1>5. CASE DaemonReap
  BY <1>5, Reaped
<1>6. CASE DaemonStamp
  BY <1>6 DEF DaemonStamp
<1>7. CASE DaemonFault
  BY <1>7 DEF DaemonFault
<1>8. ASSUME NEW c \in Children, Orphan(c)
      PROVE  OneOpened'
  BY <1>8 DEF Orphan
<1>9. ASSUME NEW r \in Runners, RunStep(r) \/ Open(r, TRUE) \/ Abort(r)
      PROVE  OneOpened'
  <2>1. ASSUME NEW restart \in BOOLEAN, Open(r, restart) PROVE OneOpened'
    BY <2>1, OpenedAlone
  <2>2. CASE Execute(r)
    BY <2>2 DEF Execute
  <2>3. CASE Record(r)
    BY <2>3 DEF Record
  <2>4. CASE Finish(r)
    BY <2>4 DEF Finish
  <2>5. CASE Abort(r)
    BY <2>5 DEF Abort
  <2>6. CASE r \in Manual /\ Mark(r)
    BY <2>6 DEF Mark
  <2> QED BY <1>9, <2>1, <2>2, <2>3, <2>4, <2>5, <2>6 DEF RunStep
<1>10. ASSUME NEW m \in Manual, NEW p \in Profiles, Start(m, p)
      PROVE  OneOpened'
  BY <1>10 DEF Start
<1>11. CASE UNCHANGED vars
  BY <1>11 DEF vars
<1> QED BY <1>1, <1>2, <1>3, <1>4, <1>5, <1>6, <1>7, <1>8, <1>9, <1>10, <1>11 DEF Next, DaemonStep

\* Only the run that has opened the checkpoint writes it.
LEMMA OwnCheckpointStep ==
  ASSUME Always, Always', ~overlapped', OneOpened, OwnCheckpoint, [Next]_vars
  PROVE  OwnCheckpoint'
<1> USE DailyAssumption DEF Always, TypeOK, LocksHeld, OneOpened, OwnCheckpoint, Opened, Active, Runners, Off
<1>1. CASE Tick
  BY <1>1 DEF Tick
<1>2. CASE DaemonDue
  BY <1>2 DEF DaemonDue
<1>3. CASE DaemonAcquire
  BY <1>3 DEF DaemonAcquire
<1>4. CASE DaemonSpawn
  <2>1. PICK c \in Children : SpawnsIn(c)
    BY <1>4, Spawned
  <2> QED BY <2>1 DEF SpawnsIn
<1>5. CASE DaemonReap
  BY <1>5, Reaped
<1>6. CASE DaemonStamp
  BY <1>6 DEF DaemonStamp
<1>7. CASE DaemonFault
  BY <1>7 DEF DaemonFault
<1>8. ASSUME NEW c \in Children, Orphan(c)
      PROVE  OwnCheckpoint'
  BY <1>8 DEF Orphan
<1>9. ASSUME NEW r \in Runners, RunStep(r) \/ Open(r, TRUE) \/ Abort(r)
      PROVE  OwnCheckpoint'
  <2>1. ASSUME NEW restart \in BOOLEAN, Open(r, restart) PROVE OwnCheckpoint'
    BY <2>1, OpenedAlone
  <2>2. CASE Execute(r)
    BY <2>2 DEF Execute
  <2>3. CASE Record(r)
    <3> DEFINE done == run[r].done \cup {NextStep(r)}
    <3>1. /\ run[r].at = "record" /\ run' = [run EXCEPT ![r].at = "step", ![r].done = done]
          /\ ckpt' = [profile |-> run[r].profile, done |-> done]
      BY <2>3 DEF Record
    <3> HIDE DEF done
    <3>2. \A q \in Runners \ {r} : run'[q] = run[q] /\ ~Opened(q)
      <4>1. \A q \in Runners \ {r} : run'[q] = run[q]
        BY <3>1
      <4>2. \A q \in Runners \ {r} : ~Opened(q)
        BY <3>1
      <4> QED BY <4>1, <4>2
    <3>3. run'[r].profile = run[r].profile /\ run'[r].done = done
      BY <3>1
    <3> QED BY <3>1, <3>2, <3>3
  <2>4. CASE Finish(r)
    BY <2>4 DEF Finish
  <2>5. CASE Abort(r)
    BY <2>5 DEF Abort
  <2>6. CASE r \in Manual /\ Mark(r)
    BY <2>6 DEF Mark
  <2> QED BY <1>9, <2>1, <2>2, <2>3, <2>4, <2>5, <2>6 DEF RunStep
<1>10. ASSUME NEW m \in Manual, NEW p \in Profiles, Start(m, p)
      PROVE  OwnCheckpoint'
  BY <1>10 DEF Start
<1>11. CASE UNCHANGED vars
  BY <1>11 DEF vars
<1> QED BY <1>1, <1>2, <1>3, <1>4, <1>5, <1>6, <1>7, <1>8, <1>9, <1>10, <1>11 DEF Next, DaemonStep

\* Nobody else does a step between a run's step and its record.
LEMMA OwnStepStep ==
  ASSUME Always, Always', ~overlapped', OneOpened, OwnCheckpoint, EndedWhole, OwnStep, [Next]_vars
  PROVE  OwnStep'
<1>0. \A q \in Runners : run'[q].done = run[q].done => NextStep(q)' = NextStep(q)
  BY SameNext
<1> USE DailyAssumption DEF Always, TypeOK, LocksHeld, OneOpened, ChildRuns, OwnStep, OwnCheckpoint, Opened, EndedWhole, Checkpoint, Active, Runners, Off
<1>1. CASE Tick
  BY <1>0, <1>1 DEF Tick
<1>2. CASE DaemonDue
  BY <1>0, <1>2 DEF DaemonDue
<1>3. CASE DaemonAcquire
  BY <1>0, <1>3 DEF DaemonAcquire
<1>4. CASE DaemonSpawn
  <2>1. PICK c \in Children : SpawnsIn(c)
    BY <1>4, Spawned
  <2> QED BY <1>0, <2>1 DEF SpawnsIn
<1>5. CASE DaemonReap
  BY <1>0, <1>5, Reaped
<1>6. CASE DaemonStamp
  BY <1>0, <1>6 DEF DaemonStamp
<1>7. CASE DaemonFault
  BY <1>0, <1>7 DEF DaemonFault
<1>8. ASSUME NEW c \in Children, Orphan(c)
      PROVE  OwnStep'
  BY <1>0, <1>8 DEF Orphan
<1>9. ASSUME NEW r \in Runners, RunStep(r) \/ Open(r, TRUE) \/ Abort(r)
      PROVE  OwnStep'
  <2>1. ASSUME NEW restart \in BOOLEAN, Open(r, restart) PROVE OwnStep'
    BY <1>0, <2>1, OpenedAlone
  <2>2. CASE Execute(r)
    BY <1>0, <2>2 DEF Execute
  <2>3. CASE Record(r)
    BY <1>0, <2>3 DEF Record
  <2>4. CASE Finish(r)
    BY <1>0, <2>4 DEF Finish
  <2>5. CASE Abort(r)
    BY <1>0, <2>5 DEF Abort
  <2>6. CASE r \in Manual /\ Mark(r)
    BY <1>0, <2>6 DEF Mark
  <2> QED BY <1>9, <2>1, <2>2, <2>3, <2>4, <2>5, <2>6 DEF RunStep
<1>10. ASSUME NEW m \in Manual, NEW p \in Profiles, Start(m, p)
      PROVE  OwnStep'
  BY <1>0, <1>10 DEF Start
<1>11. CASE UNCHANGED vars
  BY <1>0, <1>11 DEF vars
<1> QED BY <1>1, <1>2, <1>3, <1>4, <1>5, <1>6, <1>7, <1>8, <1>9, <1>10, <1>11 DEF Next, DaemonStep

\* Nothing happens between the end of a run and its stamp.
LEMMA EndedWholeStep ==
  ASSUME Always, Always', ~overlapped', OneOpened, OwnCheckpoint, DoneIsFresh, EndedWhole, [Next]_vars
  PROVE  EndedWhole'
<1> USE DailyAssumption DEF Always, TypeOK, LocksHeld, ChildRuns, OneOpened, OwnCheckpoint, Opened, DoneIsFresh, EndedWhole, Active, Runners, Off, Resting
<1>1. CASE Tick
  BY <1>1 DEF Tick
<1>2. CASE DaemonDue
  BY <1>2 DEF DaemonDue
<1>3. CASE DaemonAcquire
  BY <1>3 DEF DaemonAcquire
<1>4. CASE DaemonSpawn
  <2>1. PICK c \in Children : SpawnsIn(c)
    BY <1>4, Spawned
  <2> QED BY <2>1 DEF SpawnsIn
<1>5. CASE DaemonReap
  BY <1>5, Reaped
<1>6. CASE DaemonStamp
  BY <1>6 DEF DaemonStamp
<1>7. CASE DaemonFault
  BY <1>7 DEF DaemonFault
<1>8. ASSUME NEW c \in Children, Orphan(c)
      PROVE  EndedWhole'
  BY <1>8 DEF Orphan
<1>9. ASSUME NEW r \in Runners, RunStep(r) \/ Open(r, TRUE) \/ Abort(r)
      PROVE  EndedWhole'
  <2>1. ASSUME NEW restart \in BOOLEAN, Open(r, restart) PROVE EndedWhole'
    BY <2>1, OpenedAlone
  <2>2. CASE Execute(r)
    BY <2>2 DEF Execute
  <2>3. CASE Record(r)
    BY <2>3 DEF Record
  <2>4. CASE Finish(r)
    <3>1. fresh = Steps
      <4>0. Opened(r) /\ run[r].done = Steps
        BY <2>4 DEF Finish
      <4>2. ckpt = [profile |-> run[r].profile, done |-> Steps]
        BY <4>0
      <4>3. ckpt \in Checkpoint /\ ckpt.done = Steps
        BY <4>2 DEF Checkpoint
      <4>4. ckpt # None
        BY <4>3
      <4>5. Steps \subseteq fresh
        BY <4>3, <4>4
      <4>6. fresh \subseteq Steps
        OBVIOUS
      <4> HIDE DEF Always, TypeOK, LocksHeld, ChildRuns, OneOpened, OwnCheckpoint, DoneIsFresh, EndedWhole
      <4> QED BY <4>5, <4>6
    <3>2. ckpt' = None /\ fresh' = fresh
      BY <2>4 DEF Finish
    <3> QED BY <3>1, <3>2
  <2>5. CASE Abort(r)
    BY <2>5 DEF Abort
  <2>6. CASE r \in Manual /\ Mark(r)
    BY <2>6 DEF Mark
  <2> QED BY <1>9, <2>1, <2>2, <2>3, <2>4, <2>5, <2>6 DEF RunStep
<1>10. ASSUME NEW m \in Manual, NEW p \in Profiles, Start(m, p)
      PROVE  EndedWhole'
  BY <1>10 DEF Start
<1>11. CASE UNCHANGED vars
  BY <1>11 DEF vars
<1> QED BY <1>1, <1>2, <1>3, <1>4, <1>5, <1>6, <1>7, <1>8, <1>9, <1>10, <1>11 DEF Next, DaemonStep

\* What is recorded as done has just been done, and a stamp finds no checkpoint.
LEMMA DoneIsFreshStep ==
  ASSUME Always, Always', ~overlapped', OneOpened, OwnCheckpoint, OwnStep, EndedWhole, DoneIsFresh, [Next]_vars
  PROVE  DoneIsFresh'
<1> USE DailyAssumption DEF Always, TypeOK, LocksHeld, OneOpened, OwnCheckpoint, OwnStep, Opened, EndedWhole, DoneIsFresh, Active, Runners
<1>1. CASE Tick
  BY <1>1 DEF Tick
<1>2. CASE DaemonDue
  BY <1>2 DEF DaemonDue
<1>3. CASE DaemonAcquire
  BY <1>3 DEF DaemonAcquire
<1>4. CASE DaemonSpawn
  <2>1. PICK c \in Children : SpawnsIn(c)
    BY <1>4, Spawned
  <2> QED BY <2>1 DEF SpawnsIn
<1>5. CASE DaemonReap
  BY <1>5, Reaped
<1>6. CASE DaemonStamp
  BY <1>6 DEF DaemonStamp
<1>7. CASE DaemonFault
  BY <1>7 DEF DaemonFault
<1>8. ASSUME NEW c \in Children, Orphan(c)
      PROVE  DoneIsFresh'
  BY <1>8 DEF Orphan
<1>9. ASSUME NEW r \in Runners, RunStep(r) \/ Open(r, TRUE) \/ Abort(r)
      PROVE  DoneIsFresh'
  <2>1. ASSUME NEW restart \in BOOLEAN, Open(r, restart) PROVE DoneIsFresh'
    BY <2>1, OpenedAlone
  <2>2. CASE Execute(r)
    BY <2>2 DEF Execute
  <2>3. CASE Record(r)
    BY <2>3 DEF Record
  <2>4. CASE Finish(r)
    BY <2>4 DEF Finish
  <2>5. CASE Abort(r)
    BY <2>5 DEF Abort
  <2>6. CASE r \in Manual /\ Mark(r)
    BY <2>6 DEF Mark
  <2> QED BY <1>9, <2>1, <2>2, <2>3, <2>4, <2>5, <2>6 DEF RunStep
<1>10. ASSUME NEW m \in Manual, NEW p \in Profiles, Start(m, p)
      PROVE  DoneIsFresh'
  BY <1>10 DEF Start
<1>11. CASE UNCHANGED vars
  BY <1>11 DEF vars
<1> QED BY <1>1, <1>2, <1>3, <1>4, <1>5, <1>6, <1>7, <1>8, <1>9, <1>10, <1>11 DEF Next, DaemonStep

\* The child fetches the bars after the daemon's date was due, and hands them on.
LEMMA ChildHasBarsStep ==
  ASSUME Always, Always', ~overlapped', OneOpened, OwnCheckpoint, EndedWhole, ChildHasBars, [Next]_vars
  PROVE  ChildHasBars'
<1>0. \A q \in Runners : run'[q].done = run[q].done => NextStep(q)' = NextStep(q)
  BY SameNext
<1> USE DailyAssumption DEF Always, TypeOK, LocksHeld, ChildRuns, ChildHasBars, Active, Runners, Off, Resting
<1>1. CASE Tick
  BY <1>0, <1>1 DEF Tick
<1>2. CASE DaemonDue
  BY <1>0, <1>2 DEF DaemonDue
<1>3. CASE DaemonAcquire
  BY <1>0, <1>3 DEF DaemonAcquire
<1>4. CASE DaemonSpawn
  <2>1. PICK c \in Children : SpawnsIn(c)
    BY <1>4, Spawned
  <2> QED BY <1>0, <2>1 DEF SpawnsIn
<1>5. CASE DaemonReap
  BY <1>0, <1>5, Reaped
<1>6. CASE DaemonStamp
  BY <1>0, <1>6 DEF DaemonStamp
<1>7. CASE DaemonFault
  BY <1>0, <1>7 DEF DaemonFault
<1>8. ASSUME NEW c \in Children, Orphan(c)
      PROVE  ChildHasBars'
  BY <1>0, <1>8 DEF Orphan
<1>9. ASSUME NEW r \in Runners, RunStep(r) \/ Open(r, TRUE) \/ Abort(r)
      PROVE  ChildHasBars'
  <2>1. ASSUME NEW restart \in BOOLEAN, Open(r, restart) PROVE ChildHasBars'
    BY <1>0, <2>1, OpenedAlone
  <2>2. CASE Execute(r)
    <3>1. CASE r # dm.child
      <4>1. Opened(r) /\ Active(r) /\ ckpt # None
        <5>1. Opened(r) /\ Active(r)
          BY <2>2 DEF Execute, Opened
        <5>2. ckpt = [profile |-> run[r].profile, done |-> run[r].done]
          BY <5>1 DEF OwnCheckpoint
        <5>3. ckpt \in Checkpoint
          BY <5>2 DEF Checkpoint
        <5> QED BY <5>1, <5>3
      <4>2. dm.at = "wait" => dm.child \in Runners /\ run[dm.child].at \notin {"step", "record", "ok"}
        <5> SUFFICES ASSUME dm.at = "wait"
                     PROVE  dm.child \in Runners /\ run[dm.child].at \notin {"step", "record", "ok"}
          OBVIOUS
        <5>1. dm.child \in Runners
          OBVIOUS
        <5>2. run[dm.child].at # "ok"
          BY <4>1 DEF EndedWhole
        <5>3. run[dm.child].at \notin {"step", "record"}
          BY <3>1, <4>1, <5>1 DEF OneOpened, Opened
        <5> QED BY <5>1, <5>2, <5>3
      <4>3. dm' = dm /\ run' = [run EXCEPT ![r].at = "record"]
        BY <2>2 DEF Execute
      <4>4. dm.at = "wait" => run'[dm.child] = run[dm.child]
        BY <3>1, <4>2, <4>3
      <4> QED BY <4>2, <4>3, <4>4
    <3>2. CASE r = dm.child
      <4> SUFFICES ASSUME dm.at = "wait", ~run[dm.child].resumed PROVE ChildHasBars'
        BY <2>2, <3>2 DEF Execute
      <4> DEFINE i == NextStep(dm.child)
                 bars == IF i = 1 THEN LatestBars ELSE data[i - 1]
      <4>1. /\ i \in Steps \ run[dm.child].done
            /\ \A j \in Steps : j < i => j \in run[dm.child].done
        BY <2>2, <3>2, NextIsFirst DEF Execute
      <4>2. i' = i
        BY <1>0, <2>2, <3>2 DEF Execute
      <4>3. LatestBars >= dm.date
        <5>1. LatestBars \in Days /\ \A d \in MarketDays :
                d < day \/ (d = day /\ phase # "open") => d <= LatestBars
          BY LatestIsLatest
        <5>2. /\ dm.date \in MarketDays /\ dm.date \in Int
              /\ dm.date < day \/ (dm.date = day /\ phase = "due")
          BY DEF DateHasPassed, WasDue, Days
        <5> QED BY <5>1, <5>2 DEF Days
      <4>4. bars >= dm.date
        <5>1. CASE i = 1
          BY <4>3, <5>1
        <5>2. CASE i # 1
          <6>1. i - 1 \in Steps /\ i - 1 < i
            BY <4>1, <5>2 DEF Steps
          <6>2. i - 1 \in run[dm.child].done
            BY <4>1, <6>1
          <6> QED BY <2>2, <3>2, <5>2, <6>2 DEF Execute
        <5> QED BY <5>1, <5>2
      <4>5. /\ data' = [data EXCEPT ![i] = bars] /\ UNCHANGED dm
            /\ run'[dm.child].done = run[dm.child].done /\ run[dm.child].at = "step"
        BY <2>2, <3>2 DEF Execute
      <4> HIDE DEF i, bars
      <4>6. /\ \A j \in run[dm.child].done : data'[j] = data[j]
            /\ data'[i] = bars
        BY <4>1, <4>5
      <4>7. (\A j \in run[dm.child].done : data[j] >= dm.date)
        BY <4>5
      <4>8. NextStep(dm.child)' = i
        BY <4>2 DEF i
      <4> QED BY <4>4, <4>5, <4>6, <4>7, <4>8
    <3> QED BY <3>1, <3>2
  <2>3. CASE Record(r)
    BY <1>0, <2>3 DEF Record
  <2>4. CASE Finish(r)
    BY <1>0, <2>4 DEF Finish
  <2>5. CASE Abort(r)
    BY <1>0, <2>5 DEF Abort
  <2>6. CASE r \in Manual /\ Mark(r)
    BY <1>0, <2>6 DEF Mark
  <2> QED BY <1>9, <2>1, <2>2, <2>3, <2>4, <2>5, <2>6 DEF RunStep
<1>10. ASSUME NEW m \in Manual, NEW p \in Profiles, Start(m, p)
      PROVE  ChildHasBars'
  BY <1>0, <1>10 DEF Start
<1>11. CASE UNCHANGED vars
  BY <1>0, <1>11 DEF vars
<1> QED BY <1>1, <1>2, <1>3, <1>4, <1>5, <1>6, <1>7, <1>8, <1>9, <1>10, <1>11 DEF Next, DaemonStep

-----------------------------------------------------------------------------
\* Before the first refresh there is nothing to tell.
LEMMA InitInv == Init => IInv
<1> SUFFICES ASSUME Init PROVE IInv
  OBVIOUS
<1> USE DailyAssumption DEF Init, Runners, Off, Resting
<1>1. TypeOK
  <2>1. run \in [Runners -> [at : {"off", "open", "step", "record", "mark", "ok", "failed"},
                             profile : Profiles, done : SUBSET Steps, resumed : BOOLEAN]]
    OBVIOUS
  <2>2. /\ day \in 1..MaxDay /\ stamp \in Days /\ data \in [Steps -> Days] /\ faults \in 0..MaxFaults
        /\ dm \in [at : {"idle", "acquire", "spawn", "wait", "stamp"}, date : Days,
                  child : Children \cup {None}]
    BY DEF Days
  <2> QED BY <2>1, <2>2 DEF TypeOK
<1>2. LocksHeld /\ ChildRuns /\ DateHasPassed /\ StampWasDue
  BY DEF LocksHeld, ChildRuns, DateHasPassed, StampWasDue, Active
<1>3. OneOpened /\ OwnCheckpoint /\ OwnStep
  BY DEF OneOpened, OwnCheckpoint, OwnStep, Opened, Active
<1>4. EndedWhole /\ DoneIsFresh /\ ChildHasBars
  BY DEF EndedWhole, DoneIsFresh, ChildHasBars
<1> QED BY <1>1, <1>2, <1>3, <1>4 DEF IInv, Always, Alone

\* What once overlapped has overlapped: only opening a checkpoint writes the history.
LEMMA OverlappedStays == TypeOK /\ [Next]_vars /\ overlapped => overlapped'
BY DEF TypeOK, Next, vars, DaemonStep, RunStep, Tick, DaemonDue, DaemonAcquire, DaemonSpawn,
       DaemonReap, DaemonStamp, DaemonFault, Orphan, Open, Execute, Record, Finish, Mark,
       Abort, Start

\* Every step of the daemon, its child and a manual run keeps the invariant.
LEMMA NextInv == IInv /\ [Next]_vars => IInv'
<1> SUFFICES ASSUME IInv, [Next]_vars PROVE IInv'
  OBVIOUS
<1>1. Always'
  BY TypeStep, LocksStep, ChildStep, DateStep, StampStep DEF IInv, Always
<1>2. ASSUME ~overlapped' PROVE Alone'
  <2>1. Alone
    BY <1>2, OverlappedStays DEF IInv, Always
  <2>2. OneOpened' /\ OwnCheckpoint' /\ OwnStep'
    BY <1>1, <1>2, <2>1, OneOpenedStep, OwnCheckpointStep, OwnStepStep DEF IInv, Alone
  <2>3. EndedWhole' /\ DoneIsFresh' /\ ChildHasBars'
    BY <1>1, <1>2, <2>1, EndedWholeStep, DoneIsFreshStep, ChildHasBarsStep DEF IInv, Alone
  <2> QED BY <2>2, <2>3 DEF Alone
<1> QED BY <1>1, <1>2 DEF IInv

\* The inductive invariant of a refresh, in every reachable state.
THEOREM RefreshInvariant == Spec => []IInv
BY InitInv, NextInv, PTL DEF Spec

\* A refresh is true: the state keeps its types, and what a checkpoint says is done was
\* done under its profile and by nobody else since, so that PipelineResume::open() never
\* skips a step whose results belong to a run with other parameters.
THEOREM RefreshTrue == Spec => []RefreshIsTrue
<1>1. IInv => RefreshIsTrue
  BY DEF IInv, Always, Alone, DoneIsFresh, RefreshIsTrue, CheckpointIsTrue
<1> QED BY <1>1, RefreshInvariant, PTL

\* A stamp is backed by a whole pipeline, whatever was skipped, interrupted or removed:
\* when the daemon or a command writes the stamp, every step has been carried out since
\* the stamp before it.
THEOREM StampBacked == Spec => StampBacksWholePipeline
<1>1. IInv /\ [Next]_vars => [stamp' # stamp => fresh = Steps \/ overlapped]_vars
  <2> SUFFICES ASSUME IInv, Next, stamp' # stamp, ~overlapped PROVE fresh = Steps
    BY DEF vars, IInv, Always, TypeOK
  <2>1. EndedWhole
    BY DEF IInv, Alone
  <2>2. CASE DaemonStamp
    BY <2>1, <2>2 DEF DaemonStamp, EndedWhole
  <2>3. ASSUME NEW m \in Manual, Mark(m) PROVE fresh = Steps
    BY <2>1, <2>3 DEF Mark, EndedWhole, Runners
  <2> QED BY <2>2, <2>3 DEF Next, DaemonStep, RunStep, Tick, DaemonDue, DaemonAcquire,
               DaemonSpawn, DaemonReap, DaemonFault, Orphan, Open, Execute, Record, Finish,
               Abort, Start
<1> QED BY <1>1, RefreshInvariant, PTL DEF Spec, StampBacksWholePipeline

\* A daemon that finds its child done, and whose child resumed nothing, has predictions
\* that are built from the bars of its date or of a later one.
THEOREM StampFresh == Spec => StampIsFreshUnlessResumed
<1>1. IInv /\ [Next]_vars =>
        [dm.at = "wait" /\ dm'.at = "stamp" /\ ~run[dm.child].resumed /\ ~overlapped
           => data[Last] >= dm.date]_vars
  <2> SUFFICES ASSUME IInv, Next, dm.at = "wait", dm'.at = "stamp",
                      ~run[dm.child].resumed, ~overlapped
               PROVE  data[Last] >= dm.date
    BY DEF vars
  <2>1. DaemonReap
    <3>1. dm' # dm
      OBVIOUS
    <3>2. ~DaemonDue /\ ~DaemonAcquire /\ ~DaemonSpawn /\ ~DaemonStamp /\ ~DaemonFault
      BY DEF DaemonDue, DaemonAcquire, DaemonSpawn, DaemonStamp, DaemonFault, Resting
    <3> QED BY <3>1, <3>2 DEF Next, DaemonStep, RunStep, Tick, Orphan, Open, Execute, Record,
                 Finish, Mark, Abort, Start
  <2>2. run[dm.child].at = "ok"
    BY <2>1 DEF DaemonReap, Resting
  <2>3. run[dm.child].done = Steps
    BY <2>2 DEF IInv, Always, ChildRuns, Runners
  <2>4. Last \in Steps
    BY DailyAssumption DEF Steps
  <2> QED BY <2>2, <2>3, <2>4 DEF IInv, Alone, ChildHasBars
<1> QED BY <1>1, RefreshInvariant, PTL DEF Spec, StampIsFreshUnlessResumed

=============================================================================
