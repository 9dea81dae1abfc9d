---------------------------- MODULE Daemon_proofs ----------------------------
(***************************************************************************)
(* Proofs about the daemon's life cycle, for any number of daemon          *)
(* processes and of commands.                                              *)
(*                                                                         *)
(* The argument: a process is past the lock exactly when it holds it, and  *)
(* only such a process writes the pid file and the status file; commands   *)
(* only unlink.  So the two files name the holder or nobody.               *)
(***************************************************************************)
EXTENDS Daemon, TLAPS

\* The lock is held by the one process that is past it.
Locked == \A d \in Pids : d \in Running <=> flock = d

\* What the pid file can be, by where its writer stands.
PidFile ==
  \A d \in Pids :
    /\ dpc[d] = "write" => pidFile \in {None, Empty}
    /\ dpc[d] \in Loop => pidFile \in {d, None, Empty}

\* The heartbeat of a sleeping daemon is on disk.
OwnStatus == \A d \in Pids : dpc[d] = "sleep" => stat = d

\* Whoever is named, by the pid file or by a command, was once started.
Started ==
  /\ pidFile \in Pids => dpc[pidFile] # "free"
  /\ \A c \in Ctls : ctl[c].target \in Pids => dpc[ctl[c].target] # "free"

\* A command is about to unlink the pid file only for a daemon that is dead.
LateUnlink ==
  \A c \in Ctls :
    ctl[c].at = "unlink" => ctl[c].target \in Pids /\ dpc[ctl[c].target] = "dead"

\* Without a crash, each file has a living process that will remove it.
Cleaned ==
  ~crashed =>
    /\ pidFile = Empty => \E d \in Pids : dpc[d] = "write"
    /\ pidFile \in Pids => dpc[pidFile] \in Loop \cup {"rmpid"}
    /\ stat \in Pids => dpc[stat] \in Loop \cup {"rmpid", "rmstat"}

IInv == TypeOK /\ Locked /\ PidFile /\ OwnStatus /\ Started /\ LateUnlink /\ Cleaned

-----------------------------------------------------------------------------

\* Before the first command there are no processes and no files.
LEMMA InitInv == Init => IInv
<1> SUFFICES ASSUME Init PROVE IInv
  OBVIOUS
<1> USE NamesAssumption DEF Init, Idle
<1>1. TypeOK BY DEF TypeOK, Boot, Loop, Cleanup
<1>2. Locked BY DEF Locked, Running, Boot, Loop, Cleanup
<1>3. PidFile /\ OwnStatus BY DEF PidFile, OwnStatus, Loop
<1>4. Started /\ LateUnlink BY DEF Started, LateUnlink
<1>5. Cleaned BY DEF Cleaned
<1>6. QED BY <1>1, <1>2, <1>3, <1>4, <1>5 DEF IInv

\* The variables keep their types: every step of daemons, commands, operator.
LEMMA TypeStep == TypeOK /\ [Next]_vars => TypeOK'
<1> SUFFICES ASSUME TypeOK, [Next]_vars PROVE TypeOK'
  OBVIOUS
<1> USE NamesAssumption DEF TypeOK, Boot, Loop, Cleanup
<1>1. ASSUME NEW d \in Pids, Step(d) \/ Crash(d) PROVE TypeOK'
  <2>1. CASE Lock(d)         BY <2>1 DEF Lock, Goto
  <2>2. CASE TruncatePid(d)  BY <2>2 DEF TruncatePid, Goto
  <2>3. CASE WritePid(d)     BY <2>3 DEF WritePid, Goto
  <2>4. CASE Head(d)         BY <2>4 DEF Head, Goto
  <2>5. CASE Enabled(d)      BY <2>5 DEF Enabled, Goto
  <2>6. CASE Cycle(d)        BY <2>6 DEF Cycle, Goto
  <2>7. CASE Wake(d)         BY <2>7 DEF Wake
  <2>8. CASE RemovePid(d)    BY <2>8 DEF RemovePid, Goto
  <2>9. CASE RemoveStatus(d) BY <2>9 DEF RemoveStatus, Goto
  <2>10. CASE End(d)         BY <2>10 DEF End, Gone
  <2>11. CASE Crash(d)       BY <2>11 DEF Crash, Gone
  <2>12. QED BY <1>1, <2>1, <2>2, <2>3, <2>4, <2>5, <2>6, <2>7, <2>8, <2>9,
                <2>10, <2>11 DEF Step
<1>2. ASSUME NEW c \in Ctls, Command(c) PROVE TypeOK'
  <2>1. ASSUME NEW op \in {"start", "stop", "reload"}, Issue(c, op) PROVE TypeOK'
    BY <2>1 DEF Issue
  <2>2. CASE Read(c)       BY <2>2 DEF Read, ReadPid, At, Move, Return, Idle
  <2>3. CASE Check(c)      BY <2>3 DEF Check, At, Move, Return, Idle
  <2>4. CASE Reread(c)     BY <2>4 DEF Reread, ReadPid, Move
  <2>5. CASE Recheck(c)    BY <2>5 DEF Recheck, At, Move
  <2>6. CASE RemoveDead(c) BY <2>6 DEF RemoveDead, At, Move, Return, Idle
  <2>7. ASSUME NEW d \in Pids, Spawn(c, d) PROVE TypeOK'
    BY <2>7 DEF Spawn, Goto, Return, Idle
  <2>8. CASE Kill(c)       BY <2>8 DEF Kill, At, Move, Return, Idle
  <2>9. CASE Poll(c)       BY <2>9 DEF Poll, At, Move
  <2>10. CASE GiveUp(c)    BY <2>10 DEF GiveUp, Return, Idle
  <2>11. QED BY <1>2, <2>1, <2>2, <2>3, <2>4, <2>5, <2>6, <2>7, <2>8, <2>9, <2>10
             DEF Command
<1>3. ASSUME NEW v \in {"on", "off", "invalid"}, Edit(v) PROVE TypeOK'
  BY <1>3 DEF Edit
<1>4. CASE UNCHANGED vars BY <1>4 DEF vars
<1>5. QED BY <1>1, <1>2, <1>3, <1>4 DEF Next

\* The state always has the types the code gives it.
THEOREM TypeCorrect == Spec => []TypeOK
<1>1. Init => TypeOK BY InitInv DEF IInv
<1>2. QED BY <1>1, TypeStep, PTL DEF Spec

-----------------------------------------------------------------------------

\* Commands and the operator leave the daemon processes, the lock and the
\* status file alone, except that a process is spawned.
LEMMA CommandFrame ==
  ASSUME TypeOK,
         \/ \E c \in Ctls : Command(c)
         \/ \E v \in {"on", "off", "invalid"} : Edit(v)
         \/ UNCHANGED vars
  PROVE  /\ UNCHANGED <<flock, stat, crashed>>
         /\ pidFile' \in {pidFile, None}
         /\ \A d \in Pids : dpc'[d] = dpc[d] \/ (dpc[d] = "free" /\ dpc'[d] = "lock")
<1> USE DEF TypeOK
<1>1. ASSUME NEW c \in Ctls, Command(c)
      PROVE  /\ UNCHANGED <<flock, stat, crashed>>
             /\ pidFile' \in {pidFile, None}
             /\ \A d \in Pids : dpc'[d] = dpc[d] \/ (dpc[d] = "free" /\ dpc'[d] = "lock")
  BY <1>1 DEF Command, Issue, Read, Check, Reread, Recheck, RemoveDead, Spawn,
              Kill, Poll, GiveUp, Goto
<1>2. QED BY <1>1 DEF Edit, vars

\* A process gets past the lock only by taking it, and gives it up only by
\* ending.
LEMMA LockedStep == TypeOK /\ Locked /\ [Next]_vars => Locked'
<1> SUFFICES ASSUME TypeOK, Locked, [Next]_vars PROVE Locked'
  OBVIOUS
<1> USE NamesAssumption DEF TypeOK, Locked, Running, Boot, Loop, Cleanup
<1>1. ASSUME NEW d \in Pids, Lock(d) PROVE Locked'
  BY <1>1 DEF Lock, Goto
<1>2. ASSUME NEW d \in Pids, End(d) \/ Crash(d) PROVE Locked'
  BY <1>2 DEF End, Crash, Gone
<1>3. ASSUME NEW d \in Pids,
             \/ TruncatePid(d) \/ WritePid(d) \/ Head(d) \/ Enabled(d) \/ Cycle(d)
             \/ Wake(d) \/ RemovePid(d) \/ RemoveStatus(d)
      PROVE Locked'
  BY <1>3 DEF TruncatePid, WritePid, Head, Enabled, Cycle, Wake, RemovePid,
              RemoveStatus, Goto
<1>4. CASE \/ \E c \in Ctls : Command(c)
           \/ \E v \in {"on", "off", "invalid"} : Edit(v)
           \/ UNCHANGED vars
  BY <1>4, CommandFrame
<1>5. QED BY <1>1, <1>2, <1>3, <1>4 DEF Next, Step

\* The two files are written by the holder of the lock alone.
LEMMA FilesStep ==
  TypeOK /\ Locked /\ PidFile /\ OwnStatus /\ [Next]_vars => PidFile' /\ OwnStatus'
<1> SUFFICES ASSUME TypeOK, Locked, PidFile, OwnStatus, [Next]_vars
             PROVE  PidFile' /\ OwnStatus'
  OBVIOUS
<1> USE NamesAssumption
    DEF TypeOK, Locked, Running, PidFile, OwnStatus, Boot, Loop, Cleanup
<1>1. ASSUME NEW d \in Pids, TruncatePid(d) PROVE PidFile' /\ OwnStatus'
  BY <1>1 DEF TruncatePid, Goto
<1>2. ASSUME NEW d \in Pids, WritePid(d) PROVE PidFile' /\ OwnStatus'
  BY <1>2 DEF WritePid, Goto
<1>3. ASSUME NEW d \in Pids, Lock(d) \/ End(d) \/ Crash(d) PROVE PidFile' /\ OwnStatus'
  BY <1>3 DEF Lock, End, Crash, Gone, Goto
<1>4. ASSUME NEW d \in Pids, Head(d) \/ Enabled(d) \/ Wake(d) PROVE PidFile' /\ OwnStatus'
  BY <1>4 DEF Head, Enabled, Wake, Goto
<1>5. ASSUME NEW d \in Pids, Cycle(d) PROVE PidFile' /\ OwnStatus'
  BY <1>5 DEF Cycle, Goto
<1>6. ASSUME NEW d \in Pids, RemovePid(d) \/ RemoveStatus(d) PROVE PidFile' /\ OwnStatus'
  BY <1>6 DEF RemovePid, RemoveStatus, Goto
<1>7. CASE \/ \E c \in Ctls : Command(c)
           \/ \E v \in {"on", "off", "invalid"} : Edit(v)
           \/ UNCHANGED vars
  BY <1>7, CommandFrame
<1>8. QED BY <1>1, <1>2, <1>3, <1>4, <1>5, <1>6, <1>7 DEF Next, Step

\* A process that was started stays started: the pid file gets the pid of its
\* writer, and commands get theirs from the file.
LEMMA StartedStep == TypeOK /\ Started /\ [Next]_vars => Started'
<1> SUFFICES ASSUME TypeOK, Started, [Next]_vars PROVE Started'
  OBVIOUS
<1> USE NamesAssumption DEF TypeOK, Started
<1>1. ASSUME NEW d \in Pids, Step(d) \/ Crash(d) PROVE Started'
  <2>1. UNCHANGED ctl /\ \A e \in Pids : dpc[e] # "free" => dpc'[e] # "free"
    BY <1>1 DEF Step, Lock, TruncatePid, WritePid, Head, Enabled, Cycle, Wake,
                RemovePid, RemoveStatus, End, Crash, Gone, Goto
  <2>2. pidFile' \in {pidFile, None, Empty, d} /\ (pidFile' = d => dpc[d] # "free")
    BY <1>1 DEF Step, Lock, TruncatePid, WritePid, Head, Enabled, Cycle, Wake,
                RemovePid, RemoveStatus, End, Crash, Gone, Goto, ReadPid
  <2>3. QED BY <2>1, <2>2
<1>2. ASSUME NEW c \in Ctls, Command(c) PROVE Started'
  <2>1. pidFile' \in {pidFile, None} /\ \A d \in Pids : dpc[d] # "free" => dpc'[d] # "free"
    BY <1>2, CommandFrame
  <2>2. \A k \in Ctls : ctl'[k].target \in {ctl[k].target, None, ReadPid}
    BY <1>2 DEF Command, Issue, Read, Check, Reread, Recheck, RemoveDead, Spawn,
                Kill, Poll, GiveUp, At, Move, Return, Idle
  <2>3. QED BY <2>1, <2>2 DEF ReadPid
<1>3. CASE \/ \E v \in {"on", "off", "invalid"} : Edit(v)
           \/ UNCHANGED vars
  BY <1>3 DEF Edit, vars
<1>4. QED BY <1>1, <1>2, <1>3 DEF Next

\* Death is final, and a command goes to unlink the file only after it has
\* seen its target dead.
LEMMA LateUnlinkStep == TypeOK /\ Started /\ LateUnlink /\ [Next]_vars => LateUnlink'
<1> SUFFICES ASSUME TypeOK, Started, LateUnlink, [Next]_vars PROVE LateUnlink'
  OBVIOUS
<1> USE NamesAssumption DEF TypeOK, LateUnlink
<1>1. ASSUME NEW d \in Pids, Step(d) \/ Crash(d) PROVE LateUnlink'
  <2>1. UNCHANGED ctl
    BY <1>1 DEF Step, Lock, TruncatePid, WritePid, Head, Enabled, Cycle, Wake,
                RemovePid, RemoveStatus, End, Crash
  <2>2. \A e \in Pids : dpc[e] = "dead" => dpc'[e] = "dead"
    BY <1>1 DEF Step, Lock, TruncatePid, WritePid, Head, Enabled, Cycle, Wake,
                RemovePid, RemoveStatus, End, Crash, Gone, Alive, Goto
  <2>3. QED BY <2>1, <2>2
<1>2. ASSUME NEW c \in Ctls, Command(c) PROVE LateUnlink'
  <2> \A d \in Pids : dpc[d] = "dead" => dpc'[d] = "dead"
    BY <1>2, CommandFrame
  <2>1. ASSUME NEW op \in {"start", "stop", "reload"}, Issue(c, op) PROVE LateUnlink'
    BY <2>1 DEF Issue
  <2>2. CASE Read(c) \/ Reread(c)
    BY <2>2 DEF Read, Reread, ReadPid, At, Move, Return, Idle
  <2>3. CASE Check(c)      BY <2>3 DEF Check, At, Move, Return, Idle, Alive, Started
  <2>4. CASE Recheck(c)    BY <2>4 DEF Recheck, At, Move, Alive, Started
  <2>5. CASE RemoveDead(c) BY <2>5 DEF RemoveDead, At, Move, Return, Idle
  <2>6. ASSUME NEW d \in Pids, Spawn(c, d) PROVE LateUnlink'
    BY <2>6 DEF Spawn, Goto, Return, Idle
  <2>7. CASE Kill(c)       BY <2>7 DEF Kill, At, Move, Return, Idle
  <2>8. CASE Poll(c)       BY <2>8 DEF Poll, At, Move, Alive, Started
  <2>9. CASE GiveUp(c)     BY <2>9 DEF GiveUp, Return, Idle
  <2>10. QED BY <1>2, <2>1, <2>2, <2>3, <2>4, <2>5, <2>6, <2>7, <2>8, <2>9
             DEF Command
<1>3. CASE \/ \E v \in {"on", "off", "invalid"} : Edit(v)
           \/ UNCHANGED vars
  BY <1>3 DEF Edit, vars
<1>4. QED BY <1>1, <1>2, <1>3 DEF Next

\* Without a crash every daemon comes to its clean-up, and only its own file
\* and its own heartbeat are there for it to remove.
LEMMA CleanedStep == TypeOK /\ Locked /\ Cleaned /\ [Next]_vars => Cleaned'
<1> SUFFICES ASSUME TypeOK, Locked, Cleaned, [Next]_vars, ~crashed'
             PROVE  /\ pidFile' = Empty => \E d \in Pids : dpc'[d] = "write"
                    /\ pidFile' \in Pids => dpc'[pidFile'] \in Loop \cup {"rmpid"}
                    /\ stat' \in Pids => dpc'[stat'] \in Loop \cup {"rmpid", "rmstat"}
  BY DEF Cleaned
<1> DEFINE Goal ==
      /\ pidFile' = Empty => \E d \in Pids : dpc'[d] = "write"
      /\ pidFile' \in Pids => dpc'[pidFile'] \in Loop \cup {"rmpid"}
      /\ stat' \in Pids => dpc'[stat'] \in Loop \cup {"rmpid", "rmstat"}
<1> USE NamesAssumption DEF TypeOK, Locked, Running, Cleaned, Boot, Loop, Cleanup
<1>1. ASSUME NEW d \in Pids, Lock(d) \/ TruncatePid(d) PROVE Goal
  BY <1>1 DEF Lock, TruncatePid, Goto
<1>2. ASSUME NEW d \in Pids, WritePid(d) PROVE Goal
  BY <1>2 DEF WritePid, Goto
<1>3. ASSUME NEW d \in Pids, Head(d) \/ Enabled(d) \/ Cycle(d) \/ Wake(d) PROVE Goal
  BY <1>3 DEF Head, Enabled, Cycle, Wake, Goto
<1>4. ASSUME NEW d \in Pids, RemovePid(d) PROVE Goal
  BY <1>4 DEF RemovePid, ReadPid, Goto
<1>5. ASSUME NEW d \in Pids, RemoveStatus(d) PROVE Goal
  BY <1>5 DEF RemoveStatus, Goto
<1>6. ASSUME NEW d \in Pids, End(d) PROVE Goal
  BY <1>6 DEF End, Gone
<1>7. ASSUME NEW d \in Pids, Crash(d) PROVE Goal
  BY <1>7 DEF Crash
<1>8. CASE \/ \E c \in Ctls : Command(c)
           \/ \E v \in {"on", "off", "invalid"} : Edit(v)
           \/ UNCHANGED vars
  BY <1>8, CommandFrame
<1>9. QED BY <1>1, <1>2, <1>3, <1>4, <1>5, <1>6, <1>7, <1>8 DEF Next, Step

\* The inductive invariant, whole.
LEMMA InductiveInv == Spec => []IInv
<1>1. IInv /\ [Next]_vars => IInv'
  BY TypeStep, LockedStep, FilesStep, StartedStep, LateUnlinkStep, CleanedStep DEF IInv
<1>2. QED BY <1>1, InitInv, PTL DEF Spec

-----------------------------------------------------------------------------

\* At most one daemon is past the lock, however many are started at once and
\* whatever the pid file says.
THEOREM OneDaemonAtATime == Spec => []OneDaemon
<1>1. IInv => OneDaemon BY DEF IInv, Locked, OneDaemon, Running
<1>2. QED BY <1>1, InductiveInv, PTL

\* The pid file and the status file name the running daemon or nobody.
THEOREM FilesAreTruthful == Spec => []FilesNameTheDaemon
<1>1. IInv => FilesNameTheDaemon BY DEF IInv, PidFile, OwnStatus, FilesNameTheDaemon
<1>2. QED BY <1>1, InductiveInv, PTL

\* Daemons that are not killed outright leave no file behind.
THEOREM CleanStop == Spec => []CleanStopLeavesNoFiles
<1>1. IInv => CleanStopLeavesNoFiles
  BY NamesAssumption
  DEF IInv, TypeOK, Cleaned, CleanStopLeavesNoFiles, Alive, Loop
<1>2. QED BY <1>1, InductiveInv, PTL

\* A running daemon loses its pid file only to a command that saw an earlier
\* daemon dead.
THEOREM LosesNameToLateCommand == Spec => UnnamedOnlyByLateCommand
<1>1. ASSUME IInv, Next, NEW d \in Pids, LosesName(d) PROVE LateCommand(d)
  <2> USE NamesAssumption DEF LosesName, IInv, TypeOK, Locked, Running, Boot, Loop, Cleanup
  <2>1. ASSUME NEW e \in Pids, Step(e) \/ Crash(e) PROVE FALSE
    BY <1>1, <2>1 DEF Step, Lock, TruncatePid, WritePid, Head, Enabled, Cycle,
                      Wake, RemovePid, RemoveStatus, End, Crash, Gone, Goto, ReadPid
  <2>2. ASSUME NEW c \in Ctls, Command(c) PROVE LateCommand(d)
    <3>1. ctl[c].at = "unlink"
      BY <1>1, <2>2 DEF Command, Issue, Read, Check, Reread, Recheck, RemoveDead,
                        At, Spawn, Kill, Poll, GiveUp, Return
    <3>2. ctl[c].target \in Pids /\ dpc[ctl[c].target] = "dead"
      BY <1>1, <3>1 DEF LateUnlink
    <3>3. QED BY <1>1, <3>1, <3>2 DEF LateCommand
  <2>3. ASSUME NEW v \in {"on", "off", "invalid"}, Edit(v) PROVE FALSE
    BY <1>1, <2>3 DEF Edit
  <2>4. QED BY <1>1, <2>1, <2>2, <2>3 DEF Next
<1>2. IInv /\ [Next]_vars
        => [\A d \in Pids : LosesName(d) => LateCommand(d)]_vars
  BY <1>1
<1>3. QED BY <1>2, InductiveInv, PTL DEF Spec, UnnamedOnlyByLateCommand

=============================================================================
