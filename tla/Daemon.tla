------------------------------- MODULE Daemon -------------------------------
(***************************************************************************)
(* The life of the daemon, src/daemon.rs: cmd_run from its lock to its     *)
(* cleanup, the signals it takes, and the commands start, stop, restart    *)
(* and reload, which find it through its pid file and run at any time,     *)
(* several at once.                                                        *)
(***************************************************************************)
EXTENDS Naturals, FiniteSets

CONSTANTS
  Pids,   \* processes that may become a daemon; each is started once
  Ctls,   \* command-line processes that control the daemon
  None,   \* no process
  Empty   \* a pid file that exists but holds no number yet

ASSUME NamesAssumption ==
  /\ None \notin Pids
  /\ Empty \notin Pids
  /\ None # Empty

VARIABLES
  dpc,      \* where each daemon process stands in cmd_run
  flock,    \* the holder of the advisory lock on the lock file
  pidFile,  \* the pid file: missing (None), Empty, or the pid in it
  stat,     \* the daemon whose heartbeat is in the runtime status file
  term,     \* daemons whose TERMINATE flag is set
  hup,      \* daemons whose RELOAD flag is set
  cfg,      \* the config file: daemon enabled ("on"), "off", or "invalid"
  ctl,      \* each command: what it does, where it stands, the pid it read
  crashed   \* history: some daemon was killed outright

vars == <<dpc, flock, pidFile, stat, term, hup, cfg, ctl, crashed>>

Boot == {"lock", "truncate", "write"}
Loop == {"head", "enabled", "cycle", "sleep", "pause"}
Cleanup == {"rmpid", "rmstat", "end"}

Alive(d) == dpc[d] \notin {"free", "dead"}

\* The daemons that got past the lock.
Running == {d \in Pids : dpc[d] \in (Boot \ {"lock"}) \cup Loop \cup Cleanup}

\* read_pid()
ReadPid == IF pidFile \in Pids THEN pidFile ELSE None

Idle == [op |-> "none", at |-> "idle", target |-> None]

Init ==
  /\ dpc = [d \in Pids |-> "free"]
  /\ flock = None
  /\ pidFile = None
  /\ stat = None
  /\ term = {}
  /\ hup = {}
  /\ cfg = "on"
  /\ ctl = [c \in Ctls |-> Idle]
  /\ crashed = FALSE

Goto(d, from, to) ==
  /\ dpc[d] = from
  /\ dpc' = [dpc EXCEPT ![d] = to]

----------------------------------------------------------------------------
(* cmd_run *)

\* Mutant of Lock: the result of flock() is not looked at.
LockIgnored(d) ==
  /\ Goto(d, "lock", "truncate")
  /\ flock' = d
  /\ UNCHANGED <<pidFile, stat, term, hup, cfg, ctl, crashed>>

\* flock(LOCK_EX | LOCK_NB), after the signal handlers are installed.
Lock(d) ==
  /\ Goto(d, "lock", IF flock = None THEN "truncate" ELSE "dead")
  /\ flock' = IF flock = None THEN d ELSE flock
  /\ UNCHANGED <<pidFile, stat, term, hup, cfg, ctl, crashed>>

\* write_runtime_metadata_file(pid file): open with truncate ...
TruncatePid(d) ==
  /\ Goto(d, "truncate", "write")
  /\ pidFile' = Empty
  /\ UNCHANGED <<flock, stat, term, hup, cfg, ctl, crashed>>

\* ... and write, into a file that a command may have unlinked meanwhile.
WritePid(d) ==
  /\ Goto(d, "write", "head")
  /\ pidFile' = IF pidFile = Empty THEN d ELSE pidFile
  /\ UNCHANGED <<flock, stat, term, hup, cfg, ctl, crashed>>

\* Mutant of Head: the config is loaded before the termination flag is tested.
HeadConfigFirst(d) ==
  /\ Goto(d, "head", IF cfg = "invalid" THEN "pause"
                      ELSE IF d \in term THEN "rmpid" ELSE "enabled")
  /\ UNCHANGED <<flock, pidFile, stat, term, hup, cfg, ctl, crashed>>

\* Mutant of Head: a pending reload starts the next iteration, and stays.
HeadAgain(d) ==
  /\ Goto(d, "head", IF d \in term THEN "rmpid"
                      ELSE IF cfg = "invalid" \/ d \in hup THEN "pause" ELSE "enabled")
  /\ UNCHANGED <<flock, pidFile, stat, term, hup, cfg, ctl, crashed>>

\* while !TERMINATE; then config::load(): an invalid file pauses the daemon.
Head(d) ==
  /\ Goto(d, "head", IF d \in term THEN "rmpid"
                      ELSE IF cfg = "invalid" THEN "pause" ELSE "enabled")
  /\ UNCHANGED <<flock, pidFile, stat, term, hup, cfg, ctl, crashed>>

\* config::daemon_enabled() loads the file again, and takes one that has
\* become invalid for daemon.enabled=false.  Then RELOAD.swap(false).
Enabled(d) ==
  /\ Goto(d, "enabled", IF cfg = "on" THEN "cycle" ELSE "rmpid")
  /\ hup' = IF cfg = "on" THEN hup \ {d} ELSE hup
  /\ UNCHANGED <<flock, pidFile, stat, term, cfg, ctl, crashed>>

\* The auto-trade cycle, the tax refresh, the bar cache, daily maintenance
\* (AutoTrade and DailyRefresh); then the heartbeat is written.
Cycle(d) ==
  /\ Goto(d, "cycle", "sleep")
  /\ stat' = d
  /\ UNCHANGED <<flock, pidFile, term, hup, cfg, ctl, crashed>>

\* sleep_until_signal_or_timeout: over after the interval, or at once when
\* either flag is set.
Wake(d) ==
  /\ dpc[d] \in {"sleep", "pause"}
  /\ dpc' = [dpc EXCEPT ![d] = "head"]
  /\ UNCHANGED <<flock, pidFile, stat, term, hup, cfg, ctl, crashed>>

\* Mutant of RemovePid: the file stays.
RemovePidNot(d) ==
  /\ Goto(d, "rmpid", "rmstat")
  /\ UNCHANGED <<flock, pidFile, stat, term, hup, cfg, ctl, crashed>>

\* Mutant of RemovePid: the lock is dropped before the clean-up.
RemovePidUnlocked(d) ==
  /\ Goto(d, "rmpid", "rmstat")
  /\ pidFile' = IF ReadPid = d THEN None ELSE pidFile
  /\ flock' = None
  /\ UNCHANGED <<stat, term, hup, cfg, ctl, crashed>>

\* read_pid() = own pid, then remove_file; in between the file can only be
\* unlinked by a command, which comes to the same.
RemovePid(d) ==
  /\ Goto(d, "rmpid", "rmstat")
  /\ pidFile' = IF ReadPid = d THEN None ELSE pidFile
  /\ UNCHANGED <<flock, stat, term, hup, cfg, ctl, crashed>>

\* The runtime status file goes whoever wrote it.
RemoveStatus(d) ==
  /\ Goto(d, "rmstat", "end")
  /\ stat' = None
  /\ UNCHANGED <<flock, pidFile, term, hup, cfg, ctl, crashed>>

\* The process is gone, and with it its lock and its flags.
Gone(d) ==
  /\ dpc' = [dpc EXCEPT ![d] = "dead"]
  /\ flock' = IF flock = d THEN None ELSE flock
  /\ term' = term \ {d}
  /\ hup' = hup \ {d}

End(d) ==
  /\ dpc[d] = "end"
  /\ Gone(d)
  /\ UNCHANGED <<pidFile, stat, cfg, ctl, crashed>>

\* Killed, or failed on an I/O error of cmd_run: no cleanup.
Crash(d) ==
  /\ Alive(d)
  /\ Gone(d)
  /\ crashed' = TRUE
  /\ UNCHANGED <<pidFile, stat, cfg, ctl>>

----------------------------------------------------------------------------
(* cmd_start, cmd_stop and cmd_reload; cmd_restart is a stop and then a    *)
(* start of one process.                                                   *)

Move(c, to, pid) ==
  ctl' = [ctl EXCEPT ![c] = [op |-> ctl[c].op, at |-> to, target |-> pid]]

\* The pid that was read is forgotten once it has been judged.
At(c, from, to) ==
  /\ ctl[c].at = from
  /\ Move(c, to, IF to \in {"reread", "spawn"} THEN None ELSE ctl[c].target)

\* The command ends, reporting success or an error.
Return(c, from) ==
  /\ ctl[c].at = from
  /\ ctl' = [ctl EXCEPT ![c] = Idle]

\* cmd_start refuses a config that does not enable the daemon.
Issue(c, op) ==
  /\ ctl[c].at = "idle"
  /\ op = "start" => cfg = "on"
  /\ ctl' = [ctl EXCEPT ![c] = [op |-> op, at |-> "read", target |-> None]]
  /\ UNCHANGED <<dpc, flock, pidFile, stat, term, hup, cfg, crashed>>

\* read_pid(), of status() or of cmd_stop.
Read(c) ==
  /\ ctl[c].at = "read"
  /\ \/ /\ ReadPid # None
        /\ Move(c, "check", ReadPid)
     \/ /\ ReadPid = None
        /\ IF ctl[c].op = "start" THEN At(c, "read", "reread") ELSE Return(c, "read")
  /\ UNCHANGED <<dpc, flock, pidFile, stat, term, hup, cfg, crashed>>

\* pid_alive() of the pid that was read: start has nothing to do for a live
\* daemon, reload nothing for a dead one.
Check(c) ==
  LET alive == Alive(ctl[c].target)
  IN  /\ ctl[c].at = "check"
      /\ \/ ctl[c].op = "start"  /\ ~alive /\ At(c, "check", "reread")
         \/ ctl[c].op = "start"  /\ alive  /\ Return(c, "check")
         \/ ctl[c].op = "reload" /\ alive  /\ At(c, "check", "kill")
         \/ ctl[c].op = "reload" /\ ~alive /\ Return(c, "check")
         \/ ctl[c].op = "stop"   /\ alive  /\ At(c, "check", "kill")
         \/ ctl[c].op = "stop"   /\ ~alive /\ At(c, "check", "unlink")
      /\ UNCHANGED <<dpc, flock, pidFile, stat, term, hup, cfg, crashed>>

\* remove_stale_pid() reads the file once more ...
Reread(c) ==
  /\ ctl[c].at = "reread"
  /\ Move(c, IF ReadPid = None THEN "spawn" ELSE "recheck", ReadPid)
  /\ UNCHANGED <<dpc, flock, pidFile, stat, term, hup, cfg, crashed>>

\* Mutant of Recheck: the pid is not tested again.
RecheckNot(c) ==
  /\ At(c, "recheck", "unlink")
  /\ UNCHANGED <<dpc, flock, pidFile, stat, term, hup, cfg, crashed>>

\* ... tests the pid ...
Recheck(c) ==
  /\ At(c, "recheck", IF Alive(ctl[c].target) THEN "spawn" ELSE "unlink")
  /\ UNCHANGED <<dpc, flock, pidFile, stat, term, hup, cfg, crashed>>

\* ... and removes it; so does cmd_stop, for a pid it found dead.  Whatever
\* is at the path goes.
RemoveDead(c) ==
  /\ pidFile' = None
  /\ IF ctl[c].op = "start" THEN At(c, "unlink", "spawn") ELSE Return(c, "unlink")
  /\ UNCHANGED <<dpc, flock, stat, term, hup, cfg, crashed>>

\* command.spawn() of daemon-run.
Spawn(c, d) ==
  /\ Goto(d, "free", "lock")
  /\ Return(c, "spawn")
  /\ UNCHANGED <<flock, pidFile, stat, term, hup, cfg, crashed>>

\* kill(SIGTERM) or kill(SIGHUP); it fails when the process is gone.
Kill(c) ==
  LET d == ctl[c].target
  IN  /\ ctl[c].at = "kill"
      /\ term' = IF ctl[c].op = "stop" /\ Alive(d) THEN term \cup {d} ELSE term
      /\ hup' = IF ctl[c].op = "reload" /\ Alive(d) THEN hup \cup {d} ELSE hup
      /\ IF ctl[c].op = "stop" /\ Alive(d) THEN At(c, "kill", "poll") ELSE Return(c, "kill")
      /\ UNCHANGED <<dpc, flock, pidFile, stat, cfg, crashed>>

\* The poll of cmd_stop sees the process gone.
Poll(c) ==
  /\ At(c, "poll", "unlink")
  /\ ~Alive(ctl[c].target)
  /\ UNCHANGED <<dpc, flock, pidFile, stat, term, hup, cfg, crashed>>

\* Fifty polls have passed: an error.
GiveUp(c) ==
  /\ Return(c, "poll")
  /\ Alive(ctl[c].target)
  /\ UNCHANGED <<dpc, flock, pidFile, stat, term, hup, cfg, crashed>>

\* The operator edits the config file.
Edit(v) ==
  /\ cfg # v
  /\ cfg' = v
  /\ UNCHANGED <<dpc, flock, pidFile, stat, term, hup, ctl, crashed>>

----------------------------------------------------------------------------

Step(d) ==
  \/ Lock(d) \/ TruncatePid(d) \/ WritePid(d)
  \/ Head(d) \/ Enabled(d) \/ Cycle(d) \/ Wake(d)
  \/ RemovePid(d) \/ RemoveStatus(d) \/ End(d)

Command(c) ==
  \/ \E op \in {"start", "stop", "reload"} : Issue(c, op)
  \/ Read(c) \/ Check(c) \/ Reread(c) \/ Recheck(c) \/ RemoveDead(c)
  \/ \E d \in Pids : Spawn(c, d)
  \/ Kill(c) \/ Poll(c) \/ GiveUp(c)

Next ==
  \/ \E d \in Pids : Step(d) \/ Crash(d)
  \/ \E c \in Ctls : Command(c)
  \/ \E v \in {"on", "off", "invalid"} : Edit(v)

Spec == Init /\ [][Next]_vars

\* A daemon that is not killed goes on, and its sleeps are bounded.  A cycle may
\* last for ever: the HTTP client of auto.rs has no timeout (auto.rs:1632), and
\* run_daemon_child_command waits for its child as long as that takes.
FairSpec == Spec /\ \A d \in Pids : WF_vars(dpc[d] # "cycle" /\ Step(d))

----------------------------------------------------------------------------
(* Properties *)

TypeOK ==
  /\ dpc \in [Pids -> Boot \cup Loop \cup Cleanup \cup {"free", "dead"}]
  /\ flock \in Pids \cup {None}
  /\ pidFile \in Pids \cup {None, Empty}
  /\ stat \in Pids \cup {None}
  /\ term \in SUBSET Pids
  /\ hup \in SUBSET Pids
  /\ cfg \in {"on", "off", "invalid"}
  /\ ctl \in [Ctls -> [op : {"none", "start", "stop", "reload"},
                       at : {"idle", "read", "check", "reread", "recheck",
                             "unlink", "spawn", "kill", "poll"},
                       target : Pids \cup {None}]]
  /\ crashed \in BOOLEAN
  /\ \A c \in Ctls : ctl[c].at \in {"check", "recheck", "kill", "poll"} => ctl[c].target \in Pids

\* Whatever start, stop and restart do at once, and whatever the pid file
\* says, at most one daemon trades: daemon.rs, comment on the lock in cmd_run,
\* "to prevent multiple daemon processes from running simultaneously".
OneDaemon == \A d, e \in Running : d = e

\* The pid file never names a process other than the running daemon, so that
\* stop and reload signal the right one, and the status file that is shown
\* while a daemon sleeps is its own and not removed by its predecessor.
FilesNameTheDaemon ==
  \A d \in Pids :
    /\ dpc[d] \in Loop => pidFile \in {d, None, Empty}
    /\ dpc[d] = "sleep" => stat = d

\* Daemons that were never killed outright leave nothing behind: with none
\* alive and no command under way there is no pid file and no status file.
CleanStopLeavesNoFiles ==
  (~crashed /\ \A d \in Pids : ~Alive(d)) /\ (\A c \in Ctls : ctl[c] = Idle)
    => pidFile = None /\ stat = None

LosesName(d) == dpc[d] \in Loop /\ pidFile = d /\ dpc'[d] \in Loop /\ pidFile' # d

LateCommand(d) ==
  \E c \in Ctls : /\ ctl[c].at = "unlink"
                  /\ ctl[c].target # d
                  /\ dpc[ctl[c].target] = "dead"

\* A running daemon loses its pid file (and can no longer be stopped or
\* reloaded by command) in one way only: a command that saw an earlier daemon
\* dead unlinks the path after the next one has written it.
UnnamedOnlyByLateCommand == [][\A d \in Pids : LosesName(d) => LateCommand(d)]_vars

\* The daemon waits for a request or a child that does not end.
Hangs(d) == [](dpc[d] = "cycle")

\* A daemon that was told to stop ends, wherever the signal met it, or hangs in
\* a cycle: nothing else keeps it from looking at TERMINATE.
TermStops == \A d \in Pids : (d \in term) ~> (dpc[d] = "dead" \/ Hangs(d))

\* As long as the config stays valid and enabled from some time on, a reload
\* is taken up (or the daemon ends or hangs): no signal is lost or left pending.
ReloadIsTaken ==
  <>[](cfg = "on") => \A d \in Pids : (d \in hup) ~> (d \notin hup \/ Hangs(d))

\* docs/DEBUGGING.md: "For daemon/API processes, invalid config pauses or fails
\* request handling safely until the file is fixed", and the event message of
\* cmd_run, "daemon paused until configuration is fixed": while the config stays
\* invalid, a daemon does not go from pause to pause for ever with a reload
\* pending, which ends each of them at once.
InvalidConfigPauses ==
  <>[](cfg = "invalid") => \A d \in Pids : ~([]<>(dpc[d] = "pause") /\ <>[](d \in hup))

=============================================================================
