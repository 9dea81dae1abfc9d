----------------------------- MODULE UpdateLock -----------------------------
(***************************************************************************)
(* The update lock file, src/update_lock.rs: system call by system call,   *)
(* for every process that may run a long data/ML update.                   *)
(*                                                                         *)
(* A process calls acquire(), works under the guard and releases it.  It   *)
(* may be killed anywhere.  A process started from the command line also   *)
(* runs a watcher thread that cancels the update on a signal; the daemon   *)
(* runs child commands, which inherit the environment variable             *)
(* LOCK_HELD_ENV and so pass through acquire() without touching the file.  *)
(***************************************************************************)
EXTENDS Naturals, FiniteSets

CONSTANTS
  Pids,      \* process ids; a dead one may be given to a new process
  Cli,       \* those whose guard has source "cli" and a signal watcher
  Daemon,    \* those that run child commands under their guard
  Recycled,  \* those the operating system hands out again
  MaxLives,  \* bound: how many processes in turn get one of them
  NoFile     \* no file at the lock path

ASSUME PidsAssumption ==
  /\ Cli \subseteq Pids
  /\ Daemon \subseteq Pids \ Cli
  /\ Recycled \subseteq Pids
  /\ MaxLives \in Nat \ {0}
  /\ NoFile \notin [by : Pids, life : 1..MaxLives, text : BOOLEAN]

VARIABLES
  file,        \* what lock_path() names: NoFile or a Lock record
  pc,          \* where each process stands
  seen,        \* the file that read_lock() returned to remove_stale_lock
  watcher,     \* the signal watcher thread of each process
  child,       \* a child command of the process runs under its guard
  life,        \* how many processes have had this pid so far
  orphans,     \* pids whose child outlived them and still works
  misremoved   \* history: a file in use was deleted by another process

vars == <<file, pc, seen, watcher, child, life, orphans, misremoved>>

\* `text` is FALSE between create_new and write_all: the file is still empty
\* and read_lock() finds no JSON in it.  The code identifies the creator by
\* pid alone; `life` tells two holders of one pid apart in the properties.
Lock == [by : Pids, life : 1..MaxLives, text : BOOLEAN]

PCs == {"dead", "idle", "done", "exists", "read", "judge", "unlink", "create",
        "write", "work", "release", "remove"}

\* Between the creation of its file and the end of release().
Using(p) == pc[p] \in {"write", "work", "release", "remove"} /\ watcher[p] # "exit"

InUse(f) == f # NoFile /\ Using(f.by) /\ life[f.by] = f.life

Owners == {p \in Pids : pc[p] \in {"work", "release", "remove"} /\ watcher[p] # "exit"}

-----------------------------------------------------------------------------

Init ==
  /\ file = NoFile
  /\ pc = [p \in Pids |-> "idle"]
  /\ seen = [p \in Pids |-> NoFile]
  /\ watcher = [p \in Pids |-> "off"]
  /\ child = [p \in Pids |-> FALSE]
  /\ life = [p \in Pids |-> 1]
  /\ orphans = {}
  /\ misremoved = FALSE

Goto(p, from, to) ==
  /\ pc[p] = from
  /\ pc' = [pc EXCEPT ![p] = to]

\* Where a process goes after a busy answer or a release: a command calls
\* acquire() once and ends, the daemon goes back to its loop.
Rest(p) == IF p \in Daemon THEN "idle" ELSE "done"

\* fs::remove_file(path) by p: whatever is there goes.
Unlink(p) ==
  /\ file' = NoFile
  /\ misremoved' = (misremoved \/ (InUse(file) /\ file.by # p))

----------------------------------------------------------------------------
(* acquire() *)

Begin(p) ==
  /\ Goto(p, "idle", "exists")
  /\ UNCHANGED <<file, seen, watcher, child, life, orphans, misremoved>>

\* path.exists()
Exists(p) ==
  /\ Goto(p, "exists", IF file = NoFile THEN "create" ELSE "read")
  /\ UNCHANGED <<file, seen, watcher, child, life, orphans, misremoved>>

\* Mutant of ReadStale: a file without JSON is left to its owner.
ReadStaleTrusting(p) ==
  /\ Goto(p, "read", IF file # NoFile /\ file.text THEN "judge" ELSE Rest(p))
  /\ seen' = [seen EXCEPT ![p] = IF file # NoFile /\ file.text THEN file ELSE NoFile]
  /\ UNCHANGED <<file, watcher, child, life, orphans, misremoved>>

\* read_lock() of remove_stale_lock(): no file or no JSON sends it straight
\* to remove_file.
ReadStale(p) ==
  /\ Goto(p, "read", IF file # NoFile /\ file.text THEN "judge" ELSE "unlink")
  /\ seen' = [seen EXCEPT ![p] = file]
  /\ UNCHANGED <<file, watcher, child, life, orphans, misremoved>>

\* Mutant of Judge: the pid is not checked.
JudgeBlindly(p) ==
  /\ Goto(p, "judge", "unlink")
  /\ UNCHANGED <<file, seen, watcher, child, life, orphans, misremoved>>

\* process::pid_alive() of the pid that was read; a live one makes acquire()
\* report the slot busy.
Judge(p) ==
  /\ pc[p] = "judge"
  /\ IF pc[seen[p].by] = "dead"
       THEN Goto(p, "judge", "unlink") /\ UNCHANGED seen
       ELSE Goto(p, "judge", Rest(p)) /\ seen' = [seen EXCEPT ![p] = NoFile]
  /\ UNCHANGED <<file, watcher, child, life, orphans, misremoved>>

\* The remove_file of remove_stale_lock(): its error (no such file) is busy.
RemoveStale(p) ==
  /\ Goto(p, "unlink", IF file = NoFile THEN Rest(p) ELSE "create")
  /\ Unlink(p)
  /\ seen' = [seen EXCEPT ![p] = NoFile]
  /\ UNCHANGED <<watcher, child, life, orphans>>

\* Mutant of Create: create instead of create_new.
CreateTruncating(p) ==
  /\ Goto(p, "create", "write")
  /\ file' = [by |-> p, life |-> life[p], text |-> FALSE]
  /\ UNCHANGED <<seen, watcher, child, life, orphans, misremoved>>

\* OpenOptions::create_new
Create(p) ==
  /\ Goto(p, "create", IF file = NoFile THEN "write" ELSE Rest(p))
  /\ file' = IF file = NoFile
               THEN [by |-> p, life |-> life[p], text |-> FALSE]
               ELSE file
  /\ UNCHANGED <<seen, watcher, child, life, orphans, misremoved>>

\* write_all, flush and set_var(LOCK_HELD_ENV); install_signal_watcher for
\* source "cli".  The bytes go to the file this process created, which the
\* path may no longer name.
WriteOk(p) ==
  /\ Goto(p, "write", "work")
  /\ file' = IF file # NoFile /\ file.by = p /\ file.life = life[p]
               THEN [file EXCEPT !.text = TRUE]
               ELSE file
  /\ watcher' = [watcher EXCEPT ![p] = IF p \in Cli THEN "armed" ELSE "off"]
  /\ UNCHANGED <<seen, child, life, orphans, misremoved>>

\* write_all failed: the path is unlinked and acquire() reports busy.
WriteFail(p) ==
  /\ Goto(p, "write", Rest(p))
  /\ Unlink(p)
  /\ UNCHANGED <<seen, watcher, child, life, orphans>>

----------------------------------------------------------------------------
(* Under the guard *)

\* The daemon waits for each child command, one at a time.
SpawnChild(p) ==
  /\ p \in Daemon
  /\ pc[p] = "work"
  /\ ~child[p]
  /\ child' = [child EXCEPT ![p] = TRUE]
  /\ UNCHANGED <<file, pc, seen, watcher, life, orphans, misremoved>>

ChildExit(p) ==
  /\ child[p]
  /\ child' = [child EXCEPT ![p] = FALSE]
  /\ UNCHANGED <<file, pc, seen, watcher, life, orphans, misremoved>>

OrphanExit(p) ==
  /\ p \in orphans
  /\ orphans' = orphans \ {p}
  /\ UNCHANGED <<file, pc, seen, watcher, child, life, misremoved>>

\* finish() or Drop: release() sets `finished` and the watcher's done flag.
Finish(p) ==
  /\ Goto(p, "work", "release")
  /\ ~child[p]
  /\ watcher' = [watcher EXCEPT ![p] = IF @ = "armed" THEN "off" ELSE @]
  /\ UNCHANGED <<file, seen, child, life, orphans, misremoved>>

\* read_lock() of release(): only a file that names the own pid is removed.
ReadOwn(p) ==
  /\ Goto(p, "release", IF file # NoFile /\ file.text /\ file.by = p
                          THEN "remove" ELSE Rest(p))
  /\ UNCHANGED <<file, seen, watcher, child, life, orphans, misremoved>>

\* Mutant of RemoveOwn: the file stays.
RemoveOwnFailing(p) ==
  /\ Goto(p, "remove", Rest(p))
  /\ UNCHANGED <<file, seen, watcher, child, life, orphans, misremoved>>

RemoveOwn(p) ==
  /\ Goto(p, "remove", Rest(p))
  /\ Unlink(p)
  /\ UNCHANGED <<seen, watcher, child, life, orphans>>

----------------------------------------------------------------------------
(* The signal watcher thread *)

\* It loads done = FALSE and a signal.
Catch(p) ==
  /\ watcher[p] = "armed"
  /\ watcher' = [watcher EXCEPT ![p] = "caught"]
  /\ UNCHANGED <<file, pc, seen, child, life, orphans, misremoved>>

WatcherRead(p) ==
  /\ watcher[p] = "caught"
  /\ watcher' = [watcher EXCEPT ![p] =
                   IF file # NoFile /\ file.text /\ file.by = p
                     THEN "unlink" ELSE "exit"]
  /\ UNCHANGED <<file, pc, seen, child, life, orphans, misremoved>>

WatcherRemove(p) ==
  /\ watcher[p] = "unlink"
  /\ watcher' = [watcher EXCEPT ![p] = "exit"]
  /\ Unlink(p)
  /\ UNCHANGED <<pc, seen, child, life, orphans>>

----------------------------------------------------------------------------
(* Processes *)

\* The process ends: it returns from main, its watcher calls exit, or it is
\* killed.  Files stay, and so does a child that is still running.
Die(p) ==
  /\ pc[p] # "dead"
  /\ pc' = [pc EXCEPT ![p] = "dead"]
  /\ watcher' = [watcher EXCEPT ![p] = "off"]
  /\ child' = [child EXCEPT ![p] = FALSE]
  /\ orphans' = IF child[p] THEN orphans \cup {p} ELSE orphans
  /\ seen' = [seen EXCEPT ![p] = NoFile]
  /\ UNCHANGED <<file, life, misremoved>>

\* The operating system gives the pid to a new process of the program.
Reuse(p) ==
  /\ Goto(p, "dead", "idle")
  /\ p \in Recycled
  /\ life[p] < MaxLives
  /\ life' = [life EXCEPT ![p] = @ + 1]
  /\ UNCHANGED <<file, seen, watcher, child, orphans, misremoved>>

Acquire(p) ==
  \/ Exists(p) \/ ReadStale(p) \/ Judge(p) \/ RemoveStale(p) \/ Create(p)
  \/ WriteOk(p) \/ WriteFail(p)

Release(p) == Finish(p) \/ ReadOwn(p) \/ RemoveOwn(p)

Watch(p) == Catch(p) \/ WatcherRead(p) \/ WatcherRemove(p)

Next ==
  \E p \in Pids :
    \/ Begin(p) \/ Acquire(p) \/ Release(p) \/ Watch(p)
    \/ SpawnChild(p) \/ ChildExit(p) \/ OrphanExit(p)
    \/ Die(p) \/ Reuse(p)

Spec == Init /\ [][Next]_vars

\* A running process executes acquire(); the daemon's loop calls it again and
\* again (run_daily_maintenance every hour while the refresh is due).
Fairness ==
  /\ \A p \in Pids : WF_vars(Acquire(p))
  /\ \A p \in Daemon : WF_vars(Begin(p))

FairSpec == Spec /\ Fairness

----------------------------------------------------------------------------
(* Properties *)

TypeOK ==
  /\ file \in Lock \cup {NoFile}
  /\ pc \in [Pids -> PCs]
  /\ seen \in [Pids -> Lock \cup {NoFile}]
  /\ watcher \in [Pids -> {"off", "armed", "caught", "unlink", "exit"}]
  /\ child \in [Pids -> BOOLEAN]
  /\ life \in [Pids -> 1..MaxLives]
  /\ orphans \subseteq Pids
  /\ misremoved \in BOOLEAN
  /\ \A p \in Pids : /\ pc[p] = "dead" => watcher[p] = "off" /\ ~child[p]
                     /\ pc[p] = "judge" => seen[p] # NoFile

Slot == INSTANCE UpdateSlot WITH owners <- Owners, broken <- misremoved

\* The lock implements the update slot: as long as no lock file in use is
\* deleted by another process, at most one process holds a guard
\* (update_lock.rs, acquire and release).
ImplementsSlot == Slot!SlotSpec

\* The stale verdict of remove_stale_lock is right about the file it was
\* reached on: when the path still names the complete file that was read, the
\* process about to unlink it deletes nothing that is in use, even when the
\* dead owner's pid has been given to a new process meanwhile.
StaleVerdictSound ==
  \A p \in Pids :
    (pc[p] = "unlink" /\ seen[p] = file /\ file # NoFile /\ file.text)
      => ~InUse(file)

\* No path through acquire, release or the watcher leaves behind the lock file
\* of a process that lives on: the next update would be told that the slot is
\* busy until that process ends, which for the daemon may be never.
NoLeakedLock ==
  file # NoFile
    => \/ pc[file.by] = "dead" \/ life[file.by] # file.life
       \/ pc[file.by] \in {"write", "work", "release", "remove"}

\* A lock file whose owner died does not block updates for ever: as long as
\* one daemon keeps coming back to its loop, the file is removed, or its pid
\* comes back to life.
StaleLockReclaimed ==
  (\E q \in Daemon : []<>(pc[q] = "idle"))
    => \A p \in Pids :
         (file # NoFile /\ file.by = p /\ pc[p] = "dead")
           ~> (file = NoFile \/ file.by # p \/ pc[p] # "dead")

\* README.md: "Only one long update can run at a time."
OneUpdateAtATime ==
  Cardinality({p \in Pids : pc[p] = "work" /\ watcher[p] # "exit"} \cup orphans) <= 1

=============================================================================
