-------------------------- MODULE UpdateLock_proofs --------------------------
(***************************************************************************)
(* Proofs about the update lock, for any set of processes.                 *)
(*                                                                         *)
(* The argument: while no lock file in use has been deleted by another     *)
(* process, the path names the file of every process that is between its   *)
(* create_new and the end of its release.  A path names one file, so there *)
(* is one such process; and a process becomes an owner only from there.    *)
(***************************************************************************)
EXTENDS UpdateLock, TLAPS

\* A watcher thread runs only in a command that has acquired the lock.
WatcherInv ==
  \A p \in Pids :
    watcher[p] # "off" => p \in Cli /\ pc[p] \in {"work", "release", "remove", "done"}

\* The path names the file of every process that is using the lock.
Exclusive ==
  ~misremoved => \A p \in Pids : Using(p) => InUse(file) /\ file.by = p

IInv == TypeOK /\ WatcherInv /\ Exclusive

-----------------------------------------------------------------------------

\* The variables keep their types: every step of every process.
LEMMA TypeStep == TypeOK /\ [Next]_vars => TypeOK'
<1> SUFFICES ASSUME TypeOK, [Next]_vars PROVE TypeOK'
  OBVIOUS
<1> USE PidsAssumption DEF TypeOK, PCs, Lock
<1>1. ASSUME NEW p \in Pids, Begin(p) \/ Acquire(p) PROVE TypeOK'
  <2>1. CASE Begin(p)      BY <2>1 DEF Begin, Goto
  <2>2. CASE Exists(p)     BY <2>2 DEF Exists, Goto
  <2>3. CASE ReadStale(p)  BY <2>3 DEF ReadStale, Goto
  <2>4. CASE Judge(p)      BY <2>4 DEF Judge, Goto, Rest
  <2>5. CASE RemoveStale(p) BY <2>5 DEF RemoveStale, Goto, Rest, Unlink
  <2>6. CASE Create(p)     BY <2>6 DEF Create, Goto, Rest
  <2>7. CASE WriteOk(p)    BY <2>7 DEF WriteOk, Goto
  <2>8. CASE WriteFail(p)  BY <2>8 DEF WriteFail, Goto, Rest, Unlink
  <2>9. QED BY <1>1, <2>1, <2>2, <2>3, <2>4, <2>5, <2>6, <2>7, <2>8 DEF Acquire
<1>2. ASSUME NEW p \in Pids, Release(p) \/ Watch(p) PROVE TypeOK'
  <2>1. CASE Finish(p)     BY <2>1 DEF Finish, Goto
  <2>2. CASE ReadOwn(p)    BY <2>2 DEF ReadOwn, Goto, Rest
  <2>3. CASE RemoveOwn(p)  BY <2>3 DEF RemoveOwn, Goto, Rest, Unlink
  <2>4. CASE Catch(p)      BY <2>4 DEF Catch
  <2>5. CASE WatcherRead(p) BY <2>5 DEF WatcherRead
  <2>6. CASE WatcherRemove(p) BY <2>6 DEF WatcherRemove, Unlink
  <2>7. QED BY <1>2, <2>1, <2>2, <2>3, <2>4, <2>5, <2>6 DEF Release, Watch
<1>3. ASSUME NEW p \in Pids,
             SpawnChild(p) \/ ChildExit(p) \/ OrphanExit(p) \/ Die(p) \/ Reuse(p)
      PROVE TypeOK'
  <2>1. CASE SpawnChild(p) BY <2>1 DEF SpawnChild
  <2>2. CASE ChildExit(p)  BY <2>2 DEF ChildExit
  <2>3. CASE OrphanExit(p) BY <2>3 DEF OrphanExit
  <2>4. CASE Die(p)        BY <2>4 DEF Die
  <2>5. CASE Reuse(p)      BY <2>5 DEF Reuse, Goto
  <2>6. QED BY <1>3, <2>1, <2>2, <2>3, <2>4, <2>5
<1>4. CASE UNCHANGED vars BY <1>4 DEF vars
<1>5. QED BY <1>1, <1>2, <1>3, <1>4 DEF Next

\* Before the first step there is no lock file and every process is idle.
LEMMA InitType == Init => TypeOK
<1> SUFFICES ASSUME Init PROVE TypeOK
  OBVIOUS
<1>1. 1 \in 1..MaxLives
  BY PidsAssumption
<1>2. life \in [Pids -> 1..MaxLives]
  BY <1>1 DEF Init
<1>3. QED BY <1>2 DEF Init, TypeOK, PCs

\* The state always has the types the code gives it.
THEOREM TypeCorrect == Spec => []TypeOK
BY InitType, TypeStep, PTL DEF Spec

-----------------------------------------------------------------------------

\* A watcher is armed by the acquiring step and dies with its process.
LEMMA WatcherStep == TypeOK /\ WatcherInv /\ [Next]_vars => WatcherInv'
<1> SUFFICES ASSUME TypeOK, WatcherInv, [Next]_vars PROVE WatcherInv'
  OBVIOUS
<1> USE PidsAssumption DEF TypeOK, WatcherInv, PCs
<1>1. ASSUME NEW p \in Pids, Begin(p) \/ Acquire(p) PROVE WatcherInv'
  BY <1>1 DEF Begin, Acquire, Exists, ReadStale, Judge, RemoveStale, Create,
              WriteOk, WriteFail, Goto, Rest
<1>2. ASSUME NEW p \in Pids, Release(p) \/ Watch(p) PROVE WatcherInv'
  BY <1>2 DEF Release, Finish, ReadOwn, RemoveOwn, Watch, Catch, WatcherRead,
              WatcherRemove, Goto, Rest
<1>3. ASSUME NEW p \in Pids,
             SpawnChild(p) \/ ChildExit(p) \/ OrphanExit(p) \/ Die(p) \/ Reuse(p)
      PROVE WatcherInv'
  BY <1>3 DEF SpawnChild, ChildExit, OrphanExit, Die, Reuse, Goto
<1>4. CASE UNCHANGED vars BY <1>4 DEF vars
<1>5. QED BY <1>1, <1>2, <1>3, <1>4 DEF Next

\* A deletion that does not set `misremoved` hits at most the file of the
\* process that deletes it.
LEMMA UnlinkKeeps ==
  ASSUME TypeOK, Exclusive, NEW p \in Pids, Unlink(p), ~misremoved'
  PROVE  ~misremoved /\ \A q \in Pids : Using(q) => q = p
  BY DEF Unlink, TypeOK, Exclusive

\* As long as no file in use is deleted by another process, the path keeps
\* naming the file of every process that uses one.
LEMMA ExclusiveStep == IInv /\ [Next]_vars => Exclusive'
<1> SUFFICES ASSUME IInv, [Next]_vars, ~misremoved',
                    NEW q \in Pids, Using(q)'
             PROVE  (InUse(file) /\ file.by = q)'
  BY DEF Exclusive
<1> USE PidsAssumption DEF IInv, TypeOK, PCs, Lock, Using, InUse
<1>1. ASSUME NEW p \in Pids, Begin(p) \/ Exists(p) \/ ReadStale(p) \/ Judge(p)
      PROVE (InUse(file) /\ file.by = q)'
  BY <1>1 DEF Begin, Exists, ReadStale, Judge, Goto, Rest, Exclusive
<1>2. ASSUME NEW p \in Pids, RemoveStale(p) \/ WriteFail(p)
      PROVE (InUse(file) /\ file.by = q)'
  <2>1. Unlink(p) /\ q # p /\ Using(q)
    BY <1>2 DEF RemoveStale, WriteFail, Goto, Rest
  <2>2. QED BY <2>1, UnlinkKeeps
<1>3. ASSUME NEW p \in Pids, RemoveOwn(p) PROVE (InUse(file) /\ file.by = q)'
  <2>1. Unlink(p) /\ q # p /\ Using(q)
    BY <1>3 DEF RemoveOwn, Goto, Rest
  <2>2. QED BY <2>1, UnlinkKeeps
<1>4. ASSUME NEW p \in Pids, WatcherRemove(p) PROVE (InUse(file) /\ file.by = q)'
  <2>1. Unlink(p) /\ q # p /\ Using(q)
    BY <1>4 DEF WatcherRemove
  <2>2. QED BY <2>1, UnlinkKeeps
<1>5. ASSUME NEW p \in Pids, Create(p) PROVE (InUse(file) /\ file.by = q)'
  <2>1. CASE file = NoFile
    <3>1. \A r \in Pids : ~Using(r)
      BY <1>5, <2>1 DEF Create, Exclusive
    <3>2. q = p
      BY <1>5, <3>1 DEF Create, Goto, Rest
    <3>3. file' = [by |-> p, life |-> life[p], text |-> FALSE]
      BY <1>5, <2>1 DEF Create
    <3>4. file' # NoFile
      <4>1. file' \in [by : Pids, life : 1..MaxLives, text : BOOLEAN]
        BY <3>3
      <4>2. QED BY <4>1
    <3>5. QED BY <1>5, <3>2, <3>3, <3>4 DEF Create
  <2>2. CASE file # NoFile
    BY <1>5, <2>2 DEF Create, Goto, Rest, Exclusive
  <2>3. QED BY <2>1, <2>2
<1>6. ASSUME NEW p \in Pids, WriteOk(p) PROVE (InUse(file) /\ file.by = q)'
  <2>1. watcher[p] = "off" /\ pc[p] = "write"
    BY <1>6 DEF WriteOk, Goto, WatcherInv
  <2>2. Using(q)
    BY <1>6, <2>1 DEF WriteOk, Goto
  <2>3. InUse(file) /\ file.by = q
    BY <1>6, <2>2 DEF WriteOk, Exclusive
  <2>4. file' # NoFile /\ file'.by = file.by /\ file'.life = file.life
    BY <1>6, <2>3 DEF WriteOk
  <2>5. QED BY <1>6, <2>3, <2>4 DEF WriteOk
<1>7. ASSUME NEW p \in Pids, Finish(p) \/ ReadOwn(p) \/ Catch(p) \/ WatcherRead(p)
      PROVE (InUse(file) /\ file.by = q)'
  BY <1>7 DEF Finish, ReadOwn, Catch, WatcherRead, Goto, Rest, Exclusive
<1>8. ASSUME NEW p \in Pids,
             SpawnChild(p) \/ ChildExit(p) \/ OrphanExit(p) \/ Die(p)
      PROVE (InUse(file) /\ file.by = q)'
  BY <1>8 DEF SpawnChild, ChildExit, OrphanExit, Die, Exclusive
<1>9. ASSUME NEW p \in Pids, Reuse(p) PROVE (InUse(file) /\ file.by = q)'
  BY <1>9 DEF Reuse, Goto, Exclusive
<1>10. CASE UNCHANGED vars
  BY <1>10 DEF vars, Exclusive
<1>11. QED
  BY <1>1, <1>2, <1>3, <1>4, <1>5, <1>6, <1>7, <1>8, <1>9, <1>10
     DEF Next, Acquire, Release, Watch

\* The inductive invariant holds in every reachable state.
LEMMA InductiveInv == Spec => []IInv
<1>1. Init => IInv
  <2>1. Init => WatcherInv /\ Exclusive
    BY DEF Init, WatcherInv, Exclusive, Using
  <2>2. QED BY <2>1, InitType DEF IInv
<1>2. IInv /\ [Next]_vars => IInv'
  BY TypeStep, WatcherStep, ExclusiveStep DEF IInv
<1>3. QED BY <1>1, <1>2, PTL DEF Spec

-----------------------------------------------------------------------------

\* A process that starts to work under a guard finds no other owner.
LEMMA TakeStep ==
  ASSUME IInv, NEW p \in Pids, WriteOk(p)
  PROVE  Slot!Take(p)
<1> USE PidsAssumption DEF IInv, TypeOK, PCs, Owners
<1>1. watcher[p] = "off" /\ pc[p] = "write"
  BY DEF WriteOk, Goto, WatcherInv
<1>2. p \notin Owners /\ Owners' = Owners \cup {p}
  BY <1>1 DEF WriteOk, Goto
<1>3. misremoved \/ Owners = {}
  <2>1. ASSUME ~misremoved, NEW q \in Owners PROVE FALSE
    <3>1. Using(p) /\ Using(q) /\ p # q
      BY <1>1, <2>1 DEF Using
    <3>2. QED BY <2>1, <3>1 DEF Exclusive
  <2>2. QED BY <2>1
<1>4. QED BY <1>2, <1>3 DEF WriteOk, Slot!Take

\* A deletion ends at most the remover's own ownership, and breaks the slot or
\* leaves it as it was.
LEMMA DropStep ==
  ASSUME IInv, NEW p \in Pids, RemoveOwn(p) \/ WatcherRemove(p)
  PROVE  [Slot!SlotNext]_Slot!slotVars
<1> USE DEF IInv, TypeOK, PCs, Owners
<1>1. Owners' = Owners \ {p}
  BY DEF RemoveOwn, WatcherRemove, Goto, Rest
<1>2. misremoved' = misremoved \/ misremoved' = TRUE
  BY DEF RemoveOwn, WatcherRemove, Unlink
<1>3. CASE misremoved' = TRUE
  <2>1. Slot!Break
    <3>1. CASE p \in Owners BY <1>1, <1>3, <3>1 DEF Slot!Break
    <3>2. CASE p \notin Owners BY <1>1, <1>3, <3>2 DEF Slot!Break
    <3>3. QED BY <3>1, <3>2
  <2>2. QED BY <2>1 DEF Slot!SlotNext
<1>4. CASE misremoved' = misremoved
  BY <1>1, <1>4 DEF Slot!SlotNext, Slot!Leave, Slot!slotVars
<1>5. QED BY <1>2, <1>3, <1>4

\* Every step of the lock is a step of the slot, or leaves the slot alone.
LEMMA SlotStep == IInv /\ [Next]_vars => [Slot!SlotNext]_Slot!slotVars
<1> SUFFICES ASSUME IInv, [Next]_vars PROVE [Slot!SlotNext]_Slot!slotVars
  OBVIOUS
<1> USE DEF IInv, TypeOK, PCs
<1>1. ASSUME NEW p \in Pids,
             Begin(p) \/ Exists(p) \/ ReadStale(p) \/ Judge(p) \/ Create(p)
      PROVE UNCHANGED Slot!slotVars
  BY <1>1 DEF Begin, Exists, ReadStale, Judge, Create, Goto, Rest, Owners, Slot!slotVars
<1>2. ASSUME NEW p \in Pids, RemoveStale(p) \/ WriteFail(p)
      PROVE [Slot!SlotNext]_Slot!slotVars
  <2>1. Owners' = Owners
    BY <1>2 DEF RemoveStale, WriteFail, Goto, Rest, Owners
  <2>2. misremoved' = misremoved \/ misremoved' = TRUE
    BY <1>2 DEF RemoveStale, WriteFail, Unlink
  <2>3. QED BY <2>1, <2>2 DEF Slot!SlotNext, Slot!Break, Slot!slotVars
<1>3. ASSUME NEW p \in Pids, WriteOk(p) PROVE [Slot!SlotNext]_Slot!slotVars
  BY <1>3, TakeStep DEF Slot!SlotNext
<1>4. ASSUME NEW p \in Pids, RemoveOwn(p) \/ WatcherRemove(p)
      PROVE [Slot!SlotNext]_Slot!slotVars
  BY <1>4, DropStep
<1>5. ASSUME NEW p \in Pids, Finish(p) \/ ReadOwn(p) \/ Catch(p) \/ WatcherRead(p) \/ Die(p)
      PROVE [Slot!SlotNext]_Slot!slotVars
  <2>1. Owners' = Owners \/ (p \in Owners /\ Owners' = Owners \ {p})
    BY <1>5 DEF Finish, ReadOwn, Catch, WatcherRead, Die, Goto, Rest, Owners
  <2>2. UNCHANGED misremoved
    BY <1>5 DEF Finish, ReadOwn, Catch, WatcherRead, Die
  <2>3. QED BY <2>1, <2>2 DEF Slot!SlotNext, Slot!Leave, Slot!slotVars
<1>6. ASSUME NEW p \in Pids, SpawnChild(p) \/ ChildExit(p) \/ OrphanExit(p) \/ Reuse(p)
      PROVE UNCHANGED Slot!slotVars
  BY <1>6 DEF SpawnChild, ChildExit, OrphanExit, Reuse, Goto, Owners, Slot!slotVars
<1>7. CASE UNCHANGED vars
  BY <1>7 DEF vars, Owners, Slot!slotVars
<1>8. QED
  BY <1>1, <1>2, <1>3, <1>4, <1>5, <1>6, <1>7 DEF Next, Acquire, Release, Watch

\* acquire() and release() implement the update slot: until a lock file in use
\* is deleted by another process, at most one process holds a guard.
THEOREM LockImplementsSlot == Spec => ImplementsSlot
<1>1. Init => Slot!SlotInit
  BY DEF Init, Slot!SlotInit, Owners
<1>2. QED
  BY <1>1, InductiveInv, SlotStep, PTL DEF Spec, ImplementsSlot, Slot!SlotSpec

-----------------------------------------------------------------------------
(* What holds without any assumption on the deletions *)

\* No file and no reading of it is younger than the process it names.
LivesInv ==
  /\ file # NoFile => file.life <= life[file.by]
  /\ \A p \in Pids : seen[p] # NoFile => seen[p].life <= life[seen[p].by]

\* A verdict "stale" on a complete file names a process that has ended.
VerdictInv ==
  \A p \in Pids :
    (pc[p] = "unlink" /\ seen[p] # NoFile /\ seen[p].text)
      => pc[seen[p].by] = "dead" \/ seen[p].life < life[seen[p].by]

\* A process works only after its file is complete.
TextInv ==
  (/\ file # NoFile
   /\ pc[file.by] \in {"work", "release", "remove"}
   /\ life[file.by] = file.life)
    => file.text

FileInv == TypeOK /\ LivesInv /\ VerdictInv /\ TextInv /\ NoLeakedLock

\* Every step keeps the facts about lock files and verdicts.
LEMMA FileStep == FileInv /\ [Next]_vars => FileInv'
<1> SUFFICES ASSUME FileInv, [Next]_vars
             PROVE  (LivesInv /\ VerdictInv /\ TextInv /\ NoLeakedLock)'
  BY TypeStep DEF FileInv
<1> USE PidsAssumption
    DEF FileInv, TypeOK, PCs, Lock, LivesInv, VerdictInv, TextInv, NoLeakedLock
<1>1. ASSUME NEW p \in Pids, Begin(p) \/ Exists(p) \/ ReadStale(p)
      PROVE (LivesInv /\ VerdictInv /\ TextInv /\ NoLeakedLock)'
  BY <1>1 DEF Begin, Exists, ReadStale, Goto
<1>2. ASSUME NEW p \in Pids, Judge(p)
      PROVE (LivesInv /\ VerdictInv /\ TextInv /\ NoLeakedLock)'
  BY <1>2 DEF Judge, Goto, Rest
<1>3. ASSUME NEW p \in Pids, RemoveStale(p) \/ WriteFail(p) \/ RemoveOwn(p)
      PROVE (LivesInv /\ VerdictInv /\ TextInv /\ NoLeakedLock)'
  BY <1>3 DEF RemoveStale, WriteFail, RemoveOwn, Goto, Rest, Unlink
<1>4. ASSUME NEW p \in Pids, Create(p)
      PROVE (LivesInv /\ VerdictInv /\ TextInv /\ NoLeakedLock)'
  BY <1>4 DEF Create, Goto, Rest
<1>5. ASSUME NEW p \in Pids, WriteOk(p)
      PROVE (LivesInv /\ VerdictInv /\ TextInv /\ NoLeakedLock)'
  BY <1>5 DEF WriteOk, Goto
<1>6. ASSUME NEW p \in Pids, Finish(p) \/ ReadOwn(p)
      PROVE (LivesInv /\ VerdictInv /\ TextInv /\ NoLeakedLock)'
  BY <1>6 DEF Finish, ReadOwn, Goto, Rest
<1>7. ASSUME NEW p \in Pids, Watch(p)
      PROVE (LivesInv /\ VerdictInv /\ TextInv /\ NoLeakedLock)'
  BY <1>7 DEF Watch, Catch, WatcherRead, WatcherRemove, Unlink
<1>8. ASSUME NEW p \in Pids, SpawnChild(p) \/ ChildExit(p) \/ OrphanExit(p)
      PROVE (LivesInv /\ VerdictInv /\ TextInv /\ NoLeakedLock)'
  BY <1>8 DEF SpawnChild, ChildExit, OrphanExit
<1>9. ASSUME NEW p \in Pids, Die(p)
      PROVE (LivesInv /\ VerdictInv /\ TextInv /\ NoLeakedLock)'
  BY <1>9 DEF Die
<1>10. ASSUME NEW p \in Pids, Reuse(p)
       PROVE (LivesInv /\ VerdictInv /\ TextInv /\ NoLeakedLock)'
  BY <1>10 DEF Reuse, Goto
<1>11. CASE UNCHANGED vars
  BY <1>11 DEF vars
<1>12. QED
  BY <1>1, <1>2, <1>3, <1>4, <1>5, <1>6, <1>7, <1>8, <1>9, <1>10, <1>11
     DEF Next, Acquire, Release

\* Those facts hold in every reachable state.
LEMMA FileInvariant == Spec => []FileInv
<1>1. Init => FileInv
  BY InitType DEF Init, FileInv, LivesInv, VerdictInv, TextInv, NoLeakedLock
<1>2. QED BY <1>1, FileStep, PTL DEF Spec

\* remove_stale_lock never unlinks the complete file it judged while that file
\* is in use, whichever pids the operating system hands out again.
THEOREM VerdictIsSound == Spec => []StaleVerdictSound
<1>1. FileInv => StaleVerdictSound
  BY DEF FileInv, TypeOK, Lock, LivesInv, VerdictInv, StaleVerdictSound, InUse, Using
<1>2. QED BY <1>1, FileInvariant, PTL

\* No live process that has left the lock is still named by the lock file.
THEOREM LockNeverLeaks == Spec => []NoLeakedLock
BY FileInvariant, PTL DEF FileInv

=============================================================================
