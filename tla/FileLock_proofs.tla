--------------------------- MODULE FileLock_proofs ---------------------------
(***************************************************************************)
(* Proofs about the locked read-modify-write, for any number of processes, *)
(* calls, kills and power losses.                                          *)
(*                                                                         *)
(* Carried along are: LockHeld, which ties the lock file to where its      *)
(* owner is; Readable, by which a file is whole or cut short and what is   *)
(* renamed is what the call read and changed, or cut short; Known and      *)
(* Settled, which relate the contents to what calls hold and have          *)
(* answered, and to what could not be flushed; and, for the refinement,    *)
(* Staged.                                                                 *)
(***************************************************************************)
EXTENDS FileLock, TLAPS

LockHeld ==
    /\ StaleLock => lock.orphan
    /\ ~raced =>
          /\ \A p \in Processes : pc[p] \in Critical =>
                /\ lock # NoLock
                /\ lock.owner = p
                /\ ~lock.orphan
          /\ \A p \in Processes : pc[p] = "unlink" => lock # NoLock /\ lock.orphan
          /\ \A p, q \in Processes : (pc[p] = "unlink" /\ pc[q] = "unlink") => p = q

Readable ==
    /\ file.synced /\ disk.synced
    /\ ~file.parses => file.contents = {}
    /\ ~disk.parses => disk.contents = {}
    /\ \A p \in Processes : pc[p] = "rename" =>
          temp[p] \in {Whole(loaded[p] \union change[p]), Short}

-----------------------------------------------------------------------------
(* Types                                                                   *)

LEMMA ImageTypes ==
    /\ Torn \in Image /\ Short \in Image
    /\ \A contents \in SUBSET Changes : Whole(contents) \in Image
    /\ \A image \in Image : /\ Survivor(image) \in Image
                            /\ Survivor(image).synced
                            /\ image.synced => Survivor(image) = image
  BY DEF Image, Whole, Torn, Short, Survivor

LEMMA InitTyped == Init => TypeOK
<1> SUFFICES ASSUME Init PROVE TypeOK
  OBVIOUS
<1>1. {Whole({}), Short} \subseteq Image
  BY ImageTypes
<1>2. file \in Image /\ disk \in Image /\ temp \in [Processes -> Image]
  BY <1>1, ImageTypes DEF Init
<1>3. /\ pc \in [Processes -> Phases]
      /\ change \in [Processes -> SUBSET Changes]
      /\ loaded \in [Processes -> SUBSET Changes]
      /\ \A p \in Processes : pc[p] = "idle" <=> change[p] = {}
  BY DEF Init, Phases
<1>4. crashes \in 0 .. MaxCrashes
  BY FileLockAssumption DEF Init
<1>5. QED
  BY <1>2, <1>3, <1>4 DEF Init, TypeOK

LEMMA NextTyped == TypeOK /\ [Next]_vars => TypeOK'
<1> SUFFICES ASSUME TypeOK, [Next]_vars PROVE TypeOK'
  OBVIOUS
<1> USE DEF TypeOK, Goto, Leave, files, history, flushes, Phases, Critical
<1>1. ASSUME NEW p \in Processes, NEW c \in Changes, Call(p, c)
      PROVE  TypeOK'
  BY <1>1 DEF Call
<1>2. ASSUME NEW p \in Processes, Open(p) \/ RemoveStale(p)
      PROVE  TypeOK'
  <2>1. lock' \in {NoLock, lock, [owner |-> p, orphan |-> FALSE, stale |-> FALSE]}
    BY <1>2 DEF Open, RemoveStale
  <2>2. /\ pc' \in [Processes -> Phases]
        /\ \A q \in Processes : pc'[q] = "idle" <=> pc[q] = "idle"
        /\ UNCHANGED <<change, loaded, files, history, crashes>>
    <3>1. CASE Open(p)
      BY <3>1 DEF Open
    <3>2. CASE RemoveStale(p)
      BY <3>2 DEF RemoveStale
    <3>3. QED
      BY <1>2, <3>1, <3>2
  <2>3. [owner |-> p, orphan |-> FALSE, stale |-> FALSE] \in Lock
    BY DEF Lock
  <2>4. lock' \in Lock \union {NoLock}
    BY <2>1, <2>3
  <2>5. QED
    BY <2>2, <2>4
<1>3. ASSUME NEW p \in Processes, FindStale(p) \/ Retry(p) \/ TimeOut(p)
      PROVE  TypeOK'
  BY <1>3 DEF FindStale, Retry, TimeOut
<1>4. ASSUME NEW p \in Processes, Load(p) \/ FailToOpen(p)
      PROVE  TypeOK'
  <2>1. CASE Load(p)
    <3>1. loaded' \in [Processes -> SUBSET Changes]
      BY <2>1 DEF Load, Image
    <3>2. \E phase \in {"create", "failed"} : pc' = [pc EXCEPT ![p] = phase] /\ pc[p] = "load"
      BY <2>1 DEF Load
    <3>3. UNCHANGED <<change, lock, temp, file, disk, begun, returned, thrown, unflushed,
                      lost, raced, crashes>>
      BY <2>1 DEF Load
    <3>4. QED
      BY <3>1, <3>2, <3>3
  <2>2. CASE FailToOpen(p)
    <3>1. lock' \in {lock, [owner |-> p, orphan |-> TRUE, stale |-> FALSE]}
      BY <2>2 DEF FailToOpen
    <3>2. [owner |-> p, orphan |-> TRUE, stale |-> FALSE] \in Lock
      BY DEF Lock
    <3>3. lock' \in Lock \union {NoLock}
      BY <3>1, <3>2
    <3>4. QED
      BY <2>2, <3>3 DEF FailToOpen
  <2>3. QED
    BY <1>4, <2>1, <2>2
<1>5. ASSUME NEW p \in Processes, CreateTemp(p) \/ WriteAndSync(p) \/ WriteShort(p)
      PROVE  TypeOK'
  BY <1>5, ImageTypes DEF CreateTemp, WriteAndSync, WriteShort
<1>6. ASSUME NEW p \in Processes,
             Rename(p) \/ FsyncDir(p) \/ FailToFsyncDir(p) \/ Throw(p)
      PROVE  TypeOK'
  BY <1>6 DEF Rename, FsyncDir, FailToFsyncDir, Throw
<1>7. ASSUME NEW p \in Processes, Release(p)
      PROVE  TypeOK'
  BY <1>7 DEF Release
<1>8. ASSUME NEW p \in Processes, Kill(p)
      PROVE  TypeOK'
  <2>1. lock' \in Lock \union {NoLock}
    BY <1>8 DEF Kill, Lock
  <2>2. crashes' \in 0 .. MaxCrashes
    BY <1>8, FileLockAssumption DEF Kill
  <2>3. QED
    BY <1>8, <2>1, <2>2 DEF Kill
<1>9. CASE Age \/ WriteBack
  <2>1. lock' \in Lock \union {NoLock}
    BY <1>9 DEF Age, WriteBack, Lock
  <2>2. QED
    BY <1>9, <2>1 DEF Age, WriteBack
<1>10. CASE PowerLoss
  <2>1. lock' \in Lock \union {NoLock}
    BY <1>10 DEF PowerLoss, Lock
  <2>2. crashes' \in 0 .. MaxCrashes
    BY <1>10, FileLockAssumption DEF PowerLoss
  <2>3. file' \in Image /\ disk' \in Image
    BY <1>10, ImageTypes DEF PowerLoss
  <2>4. QED
    BY <1>10, <2>1, <2>2, <2>3 DEF PowerLoss
<1>11. CASE UNCHANGED vars
  BY <1>11 DEF vars
<1>12. QED
  BY <1>1, <1>2, <1>3, <1>4, <1>5, <1>6, <1>7, <1>8, <1>9, <1>10, <1>11 DEF Next

\* Every variable keeps its type, and a process holds a change exactly while it is
\* in a call.
THEOREM TypesHold == Spec => []TypeOK
  BY InitTyped, NextTyped, PTL DEF Spec

-----------------------------------------------------------------------------
(* Mutual exclusion                                                        *)

\* A step by which p moves to another phase, and nothing happens to the lock.
LEMMA MovedLockHeld ==
    ASSUME TypeOK, LockHeld, NEW p \in Processes, NEW phase,
           pc' = [pc EXCEPT ![p] = phase],
           phase \in Critical => pc[p] \in Critical,
           phase # "unlink",
           UNCHANGED <<lock, raced>>
    PROVE  LockHeld'
  BY DEF TypeOK, LockHeld, StaleLock

\* Between taking the lock and releasing it the process leaves it alone.
LEMMA CriticalLockHeld ==
    ASSUME TypeOK, LockHeld, NEW p \in Processes,
           \/ Load(p) \/ CreateTemp(p) \/ WriteAndSync(p) \/ WriteShort(p) \/ Rename(p)
           \/ FsyncDir(p) \/ FailToFsyncDir(p) \/ Throw(p)
    PROVE  LockHeld'
<1>1. /\ pc[p] \in Critical
      /\ UNCHANGED <<lock, raced>>
  BY DEF Load, CreateTemp, WriteAndSync, WriteShort, Rename, FsyncDir, FailToFsyncDir,
         Throw, files, history, Critical
<1>2. PICK phase \in {"create", "failed", "write", "rename", "fsyncDir", "done"} :
         pc' = [pc EXCEPT ![p] = phase]
  BY DEF Load, CreateTemp, WriteAndSync, WriteShort, Rename, FsyncDir, FailToFsyncDir,
         Throw, Goto
<1>3. QED
  BY <1>1, <1>2, MovedLockHeld

LEMMA NextLockHeld == TypeOK /\ LockHeld /\ [Next]_vars => LockHeld'
<1> SUFFICES ASSUME TypeOK, LockHeld, [Next]_vars PROVE LockHeld'
  OBVIOUS
<1>1. ASSUME NEW p \in Processes, NEW c \in Changes, Call(p, c)
      PROVE  LockHeld'
  BY <1>1, MovedLockHeld DEF Call, Goto, Critical
<1>2. ASSUME NEW p \in Processes, Open(p)
      PROVE  LockHeld'
  <2>1. CASE lock = NoLock
    <3>1. /\ lock' = [owner |-> p, orphan |-> FALSE, stale |-> FALSE]
          /\ pc' = [pc EXCEPT ![p] = "load"]
          /\ raced' = raced
      BY <1>2, <2>1 DEF Open, Goto, history, flushes
    <3>2. ~raced => \A q \in Processes : pc[q] \notin Critical /\ pc[q] # "unlink"
      BY <2>1 DEF LockHeld
    <3>3. [owner |-> p, orphan |-> FALSE, stale |-> FALSE] \in Lock
      BY DEF Lock
    <3>4. lock' # NoLock
      BY <3>1, <3>3, FileLockAssumption
    <3>5. QED
      BY <3>1, <3>2, <3>4 DEF TypeOK, LockHeld, StaleLock
  <2>2. CASE lock # NoLock
    BY <1>2, <2>2, MovedLockHeld DEF Open, Goto, history, flushes, Critical
  <2>3. QED
    BY <2>1, <2>2
<1>3. ASSUME NEW p \in Processes, FailToOpen(p)
      PROVE  LockHeld'
  <2>1. /\ pc' = [pc EXCEPT ![p] = "idle"]
        /\ raced' = raced
    BY <1>3 DEF FailToOpen, Leave, Goto
  <2>2. CASE lock' = lock
    BY <2>1, <2>2, MovedLockHeld DEF Critical
  <2>3. CASE lock = NoLock /\ lock' = [owner |-> p, orphan |-> TRUE, stale |-> FALSE]
    <3>1. lock' \in Lock /\ lock'.orphan
      BY <2>3 DEF Lock
    <3>2. lock' # NoLock
      BY <3>1, FileLockAssumption
    <3>3. ~raced => \A q \in Processes : pc[q] \notin Critical /\ pc[q] # "unlink"
      BY <2>3 DEF LockHeld
    <3>4. QED
      BY <2>1, <3>1, <3>2, <3>3 DEF TypeOK, LockHeld, StaleLock, Critical
  <2>4. QED
    BY <1>3, <2>2, <2>3 DEF FailToOpen
<1>4. ASSUME NEW p \in Processes, FindStale(p)
      PROVE  LockHeld'
  <2>1. /\ pc' = [pc EXCEPT ![p] = "unlink"]
        /\ lock' = lock
        /\ lock # NoLock
        /\ lock.orphan
        /\ ~raced' => ~raced /\ \A q \in Processes : pc[q] # "unlink"
    BY <1>4 DEF FindStale, Goto, LockHeld, StaleLock
  <2>2. QED
    BY <2>1 DEF TypeOK, LockHeld, StaleLock, Critical
<1>5. ASSUME NEW p \in Processes, Retry(p) \/ TimeOut(p)
      PROVE  LockHeld'
  BY <1>5, MovedLockHeld DEF Retry, TimeOut, Leave, Goto, history, flushes, Critical
<1>6. ASSUME NEW p \in Processes, RemoveStale(p)
      PROVE  LockHeld'
  <2>1. /\ pc' = [pc EXCEPT ![p] = "open"]
        /\ lock' = NoLock
        /\ raced' = raced
        /\ pc[p] = "unlink"
    BY <1>6 DEF RemoveStale, Goto, history, flushes
  <2>2. ~raced => \A q \in Processes \ {p} : pc[q] # "unlink" /\ pc[q] \notin Critical
    BY <2>1 DEF LockHeld
  <2>3. QED
    BY <2>1, <2>2 DEF TypeOK, LockHeld, StaleLock, Critical
<1>7. ASSUME NEW p \in Processes,
             \/ Load(p) \/ CreateTemp(p) \/ WriteAndSync(p) \/ WriteShort(p) \/ Rename(p)
             \/ FsyncDir(p) \/ FailToFsyncDir(p) \/ Throw(p)
      PROVE  LockHeld'
  BY <1>7, CriticalLockHeld
<1>8. ASSUME NEW p \in Processes, Release(p)
      PROVE  LockHeld'
  <2>1. /\ pc' = [pc EXCEPT ![p] = "idle"]
        /\ lock' = NoLock
        /\ raced' = raced
        /\ pc[p] \in Critical
    BY <1>8 DEF Release, Leave, Goto, Critical
  <2>2. ~raced => \A q \in Processes \ {p} : pc[q] # "unlink" /\ pc[q] \notin Critical
    BY <2>1 DEF LockHeld
  <2>3. QED
    BY <2>1, <2>2 DEF TypeOK, LockHeld, StaleLock, Critical
<1>9. ASSUME NEW p \in Processes, Kill(p)
      PROVE  LockHeld'
  <2>1. /\ pc' = [pc EXCEPT ![p] = "idle"]
        /\ raced' = raced
    BY <1>9 DEF Kill, Leave, Goto, history, flushes
  <2>2. CASE pc[p] \in Critical /\ lock # NoLock /\ lock.owner = p
    <3>1. lock' = [lock EXCEPT !.orphan = TRUE]
      BY <1>9, <2>2 DEF Kill
    <3>2. lock \in Lock /\ lock' \in Lock /\ lock'.orphan
      BY <2>2, <3>1 DEF TypeOK, Lock
    <3>3. lock' # NoLock
      BY <3>2, FileLockAssumption
    <3>4. ~raced => \A q \in Processes \ {p} : pc[q] # "unlink" /\ pc[q] \notin Critical
      BY <2>2 DEF LockHeld
    <3>5. QED
      BY <2>1, <3>2, <3>3, <3>4 DEF TypeOK, LockHeld, StaleLock, Critical
  <2>3. CASE ~(pc[p] \in Critical /\ lock # NoLock /\ lock.owner = p)
    <3>1. lock' = lock
      BY <1>9, <2>3 DEF Kill
    <3>2. QED
      BY <2>1, <3>1, MovedLockHeld DEF Critical
  <2>4. QED
    BY <2>2, <2>3
<1>10. CASE Age
  <2>1. /\ lock \in Lock
        /\ lock.orphan
        /\ lock' = [lock EXCEPT !.stale = TRUE]
        /\ UNCHANGED <<pc, raced>>
    BY <1>10 DEF Age, history, flushes, TypeOK
  <2>2. lock' \in Lock /\ lock'.orphan
    BY <2>1 DEF Lock
  <2>3. lock' # NoLock
    BY <2>2, FileLockAssumption
  <2>4. QED
    BY <2>1, <2>2, <2>3 DEF LockHeld, StaleLock
<1>11. CASE PowerLoss
  <2>1. \A p \in Processes : pc'[p] = "idle"
    BY <1>11 DEF PowerLoss
  <2>2. StaleLock' => lock'.orphan
    <3>1. CASE lock' = NoLock
      BY <3>1 DEF StaleLock
    <3>2. CASE lock # NoLock /\ lock' = [lock EXCEPT !.orphan = TRUE]
      BY <3>2 DEF TypeOK, Lock
    <3>3. QED
      BY <1>11, <3>1, <3>2 DEF PowerLoss
  <2>3. QED
    BY <2>1, <2>2 DEF LockHeld, Critical
<1>12. CASE WriteBack \/ UNCHANGED vars
  <2>1. UNCHANGED <<pc, lock, raced>>
    BY <1>12 DEF WriteBack, vars
  <2>2. QED
    BY <2>1 DEF LockHeld, StaleLock
<1>13. QED
  BY <1>1, <1>2, <1>3, <1>4, <1>5, <1>6, <1>7, <1>8, <1>9, <1>10, <1>11, <1>12 DEF Next

LEMMA LockInvariant == Spec => [](TypeOK /\ LockHeld)
<1>1. Init => LockHeld
  BY DEF Init, LockHeld, StaleLock, Critical
<1>2. QED
  BY <1>1, NextLockHeld, InitTyped, NextTyped, PTL DEF Spec

\* One process at a time is under the lock, whatever is killed and when, if a stale
\* lock is removed by one process at a time (withFileLock).
THEOREM OneInside == Spec => []MutualExclusion
<1>1. LockHeld => MutualExclusion
  BY DEF LockHeld, MutualExclusion
<1>2. QED
  BY <1>1, LockInvariant, PTL

-----------------------------------------------------------------------------
(* What a file can hold                                                    *)

LEMMA NextReadable == TypeOK /\ Readable /\ [Next]_vars => Readable'
<1> SUFFICES ASSUME TypeOK, Readable, [Next]_vars PROVE Readable'
  OBVIOUS
<1>1. ASSUME NEW p \in Processes, NEW phase, UNCHANGED <<file, disk>>,
             pc' = [pc EXCEPT ![p] = phase],
             phase = "rename" =>
                 temp'[p] \in {Whole(loaded'[p] \union change'[p]), Short},
             \A q \in Processes \ {p} :
                 /\ temp'[q] = temp[q]
                 /\ loaded'[q] = loaded[q]
                 /\ change'[q] = change[q]
      PROVE  Readable'
  BY <1>1 DEF TypeOK, Readable
<1>2. ASSUME NEW p \in Processes, NEW c \in Changes, Call(p, c)
      PROVE  Readable'
  BY <1>1, <1>2 DEF Call, Goto, files, TypeOK
<1>3. ASSUME NEW p \in Processes,
             \/ Open(p) \/ FindStale(p) \/ Retry(p) \/ RemoveStale(p)
             \/ FailToFsyncDir(p) \/ Throw(p)
      PROVE  Readable'
  <2>1. /\ UNCHANGED <<files, change, loaded>>
        /\ \E phase \in {"load", "stat", "unlink", "open", "done", "failed"} :
              pc' = [pc EXCEPT ![p] = phase]
    BY <1>3 DEF Open, FindStale, Retry, RemoveStale, FailToFsyncDir, Throw, Goto
  <2>2. QED
    BY <1>1, <2>1 DEF files
<1>4. ASSUME NEW p \in Processes, TimeOut(p) \/ Release(p) \/ Kill(p) \/ FailToOpen(p)
      PROVE  Readable'
  <2>1. UNCHANGED files /\ Leave(p)
    BY <1>4 DEF TimeOut, Release, Kill, FailToOpen
  <2>2. QED
    BY <1>1, <2>1 DEF files, Leave, Goto, TypeOK
<1>5. ASSUME NEW p \in Processes, Load(p)
      PROVE  Readable'
  <2>1. CASE file.parses
    BY <1>1, <1>5, <2>1 DEF Load, Goto, files, TypeOK
  <2>2. CASE ~file.parses
    BY <1>1, <1>5, <2>2 DEF Load, Goto, files, TypeOK
  <2>3. QED
    BY <2>1, <2>2
<1>6. ASSUME NEW p \in Processes, CreateTemp(p) \/ WriteAndSync(p) \/ WriteShort(p)
      PROVE  Readable'
  <2>1. CASE CreateTemp(p)
    BY <1>1, <2>1 DEF CreateTemp, Goto, TypeOK
  <2>2. CASE WriteAndSync(p)
    BY <1>1, <2>2 DEF WriteAndSync, Goto, TypeOK
  <2>3. CASE WriteShort(p)
    BY <1>1, <2>3 DEF WriteShort, Goto, TypeOK
  <2>4. QED
    BY <1>6, <2>1, <2>2, <2>3
<1>7. ASSUME NEW p \in Processes, Rename(p)
      PROVE  Readable'
  <2>1. temp[p] \in {Whole(loaded[p] \union change[p]), Short}
    BY <1>7 DEF Readable, Rename
  <2>2. file'.synced /\ (~file'.parses => file'.contents = {})
    BY <1>7, <2>1 DEF Rename, Whole, Short, Torn
  <2>3. QED
    BY <1>7, <2>2 DEF Rename, Goto, TypeOK, Readable
<1>8. ASSUME NEW p \in Processes, FsyncDir(p)
      PROVE  Readable'
  BY <1>8 DEF FsyncDir, Goto, TypeOK, Readable
<1>9. CASE Age \/ WriteBack
  <2>1. UNCHANGED <<pc, change, loaded, temp, file>> /\ disk' \in {file, disk}
    BY <1>9 DEF Age, WriteBack, files
  <2>2. QED
    BY <2>1 DEF Readable
<1>10. CASE PowerLoss
  <2>1. file' = disk /\ disk' = disk
    BY <1>10, ImageTypes DEF PowerLoss, Readable, TypeOK
  <2>2. \A p \in Processes : pc'[p] = "idle"
    BY <1>10 DEF PowerLoss
  <2>3. QED
    BY <2>1, <2>2 DEF Readable
<1>11. CASE UNCHANGED vars
  BY <1>11 DEF vars, Readable
<1>12. QED
  BY <1>2, <1>3, <1>4, <1>5, <1>6, <1>7, <1>8, <1>9, <1>10, <1>11 DEF Next

LEMMA InitReadable == Init => Readable
  BY DEF Init, Readable, Whole, Torn, Short

-----------------------------------------------------------------------------
(* What became of each change                                              *)

\* Phases of a call whose change is not in the file yet.
Pending == {"open", "stat", "unlink", "load", "create", "write", "rename", "failed"}

Known ==
    /\ file.contents \subseteq begun
    /\ disk.contents \subseteq begun
    /\ returned \subseteq begun
    /\ thrown \subseteq begun
    /\ unflushed \union lost \subseteq begun
    /\ lost \intersect (file.contents \union disk.contents) = {}
    /\ \A p \in Processes :
          /\ change[p] \subseteq begun
          /\ loaded[p] \subseteq begun
          /\ change[p] \intersect (returned \union thrown \union lost) = {}
          /\ loaded[p] \intersect lost = {}
    /\ \A p, q \in Processes : p # q => change[p] \intersect change[q] = {}

Settled ==
    ~raced =>
        /\ file.parses => /\ disk.parses
                          /\ returned \ lost \subseteq file.contents
        /\ disk.parses => returned \ (unflushed \union lost) \subseteq disk.contents
        /\ thrown \intersect file.contents = {}
        /\ thrown \intersect disk.contents = {}
        /\ \A p \in Processes :
              /\ pc[p] \in {"create", "write", "rename"} => /\ file.parses
                                                           /\ loaded[p] = file.contents
              /\ pc[p] \in Pending => /\ change[p] \intersect file.contents = {}
                                      /\ change[p] \intersect disk.contents = {}
              /\ (pc[p] \in {"fsyncDir", "done"} /\ file.parses) =>
                    change[p] \subseteq file.contents
              /\ (pc[p] = "done" /\ disk.parses) =>
                    change[p] \subseteq disk.contents \union unflushed

IInv == TypeOK /\ LockHeld /\ Readable /\ Known /\ Settled

\* Steps between the call and its answer that leave the files alone.
LEMMA QuietAccounted ==
    ASSUME TypeOK, Known, Settled, NEW p \in Processes, NEW phase,
           pc' = [pc EXCEPT ![p] = phase],
           UNCHANGED <<change, loaded, file, disk, begun, returned, thrown, unflushed, lost>>,
           raced => raced',
           phase \in Pending /\ pc[p] \in Pending,
           phase \in {"create", "write", "rename"} => pc[p] \in {"create", "write", "rename"}
    PROVE  Known' /\ Settled'
<1>1. Known'
  BY DEF Known
<1>2. Settled'
  BY DEF TypeOK, Settled, Pending
<1>3. QED
  BY <1>1, <1>2

LEMMA CallAccounted ==
    ASSUME IInv, NEW p \in Processes, NEW c \in Changes, Call(p, c)
    PROVE  Known' /\ Settled'
<1>1. /\ pc' = [pc EXCEPT ![p] = "open"]
      /\ change' = [change EXCEPT ![p] = {c}]
      /\ begun' = begun \union {c}
      /\ c \notin begun
      /\ UNCHANGED <<loaded, file, disk, returned, thrown, unflushed, lost, raced>>
  BY DEF Call, Goto, files, flushes
<1>2. Known'
  BY <1>1 DEF IInv, TypeOK, Known
<1>3. {c} \intersect (file.contents \union disk.contents) = {}
  BY <1>1 DEF IInv, Known
<1>4. Settled'
  BY <1>1, <1>3 DEF IInv, TypeOK, Settled, Pending
<1>5. QED
  BY <1>2, <1>4

\* Under the lock, and no takeover was contested: every other call is before it.
LEMMA OthersOutside ==
    ASSUME IInv, ~raced, NEW p \in Processes, pc[p] \in Critical,
           NEW q \in Processes \ {p}
    PROVE  pc[q] \in {"idle", "open", "stat"}
  BY DEF IInv, LockHeld, TypeOK, Phases

LEMMA LoadAccounted ==
    ASSUME IInv, NEW p \in Processes, Load(p)
    PROVE  Known' /\ Settled'
<1>1. /\ UNCHANGED <<change, file, disk, begun, returned, thrown, unflushed, lost, raced>>
      /\ pc[p] = "load"
  BY DEF Load, files, history, flushes
<1>2. CASE file.parses
  <2>1. /\ pc' = [pc EXCEPT ![p] = "create"]
        /\ loaded' = [loaded EXCEPT ![p] = file.contents]
    BY <1>2 DEF Load, Goto
  <2>2. Known'
    BY <1>1, <2>1 DEF IInv, TypeOK, Known
  <2>3. /\ pc'[p] = "create" /\ loaded'[p] = file.contents
        /\ \A q \in Processes \ {p} : pc'[q] = pc[q] /\ loaded'[q] = loaded[q]
    BY <2>1 DEF IInv, TypeOK
  <2>4. Settled'
    BY <1>1, <1>2, <2>3 DEF IInv, Settled, Pending
  <2>5. QED
    BY <2>2, <2>4
<1>3. CASE ~file.parses
  <2>1. pc' = [pc EXCEPT ![p] = "failed"] /\ loaded' = loaded
    BY <1>3 DEF Load, Goto
  <2>2. QED
    BY <1>1, <2>1, QuietAccounted DEF IInv, Pending
<1>4. QED
  BY <1>2, <1>3

LEMMA RenameAccounted ==
    ASSUME IInv, NEW p \in Processes, Rename(p)
    PROVE  Known' /\ Settled'
<1>1. /\ pc' = [pc EXCEPT ![p] = "fsyncDir"]
      /\ pc[p] = "rename" /\ pc[p] \in Critical
      /\ file' = temp[p]
      /\ UNCHANGED <<change, loaded, disk, begun, returned, thrown, unflushed, lost, raced>>
  BY DEF Rename, Goto, history, flushes, Critical
<1>2. \/ file'.contents = loaded[p] \union change[p] /\ file'.parses
      \/ file'.contents = {} /\ ~file'.parses
  <2>1. temp[p] \in {Whole(loaded[p] \union change[p]), Short}
    BY <1>1 DEF IInv, Readable
  <2>2. QED
    BY <1>1, <2>1 DEF Whole, Short, Torn
<1>3. Known'
  BY <1>1, <1>2 DEF IInv, Known
<1>4. ASSUME ~raced
      PROVE  Settled'
  <2>1. /\ file'.contents \subseteq file.contents \union change[p]
        /\ file'.parses => file'.contents = file.contents \union change[p]
        /\ disk.parses
    BY <1>1, <1>2, <1>4 DEF IInv, Settled
  <2>2. \A q \in Processes \ {p} :
           /\ pc'[q] = pc[q]
           /\ pc[q] \in {"idle", "open", "stat"}
           /\ change[q] \intersect change[p] = {}
    BY <1>1, <1>4, OthersOutside DEF IInv, TypeOK, Known
  <2>3. thrown \intersect change[p] = {}
    BY DEF IInv, Known
  <2>4. /\ file.parses
        /\ returned \ lost \subseteq file.contents
        /\ disk.parses => returned \ (unflushed \union lost) \subseteq disk.contents
        /\ thrown \intersect file.contents = {}
        /\ thrown \intersect disk.contents = {}
        /\ \A q \in Processes : pc[q] \in Pending =>
              /\ change[q] \intersect file.contents = {}
              /\ change[q] \intersect disk.contents = {}
    BY <1>1, <1>4 DEF IInv, Settled
  <2>5. pc'[p] = "fsyncDir"
    BY <1>1 DEF IInv, TypeOK
  <2>6. QED
    BY <1>1, <1>4, <2>1, <2>2, <2>3, <2>4, <2>5 DEF Settled, Pending
<1>5. QED
  BY <1>1, <1>3, <1>4 DEF Settled

\* What is in the file gets to disk, or the call finds that it could not see to it.
LEMMA FsyncDirAccounted ==
    ASSUME IInv, NEW p \in Processes, FsyncDir(p) \/ FailToFsyncDir(p)
    PROVE  Known' /\ Settled'
<1>1. /\ pc' = [pc EXCEPT ![p] = "done"]
      /\ pc[p] = "fsyncDir"
      /\ \/ disk' = file /\ unflushed' = {}
         \/ disk' = disk /\ unflushed' = unflushed \union change[p]
      /\ UNCHANGED <<change, loaded, file, begun, returned, thrown, lost, raced>>
  BY DEF FsyncDir, FailToFsyncDir, Goto, files
<1>2. Known'
  BY <1>1 DEF IInv, Known
<1>3. ASSUME ~raced
      PROVE  Settled'
  <2>1. \A q \in Processes \ {p} : pc'[q] = pc[q] /\ pc[q] \in {"idle", "open", "stat"}
    BY <1>1, <1>3, OthersOutside DEF IInv, TypeOK, Critical
  <2>2. CASE disk' = file /\ unflushed' = {}
    BY <1>1, <1>3, <2>1, <2>2 DEF IInv, TypeOK, Settled, Pending
  <2>3. CASE disk' = disk /\ unflushed' = unflushed \union change[p]
    BY <1>1, <1>3, <2>1, <2>3 DEF IInv, TypeOK, Settled, Pending
  <2>4. QED
    BY <1>1, <2>2, <2>3
<1>4. QED
  BY <1>1, <1>2, <1>3 DEF Settled

\* A call ends: it returns, it throws, or its process is killed.
LEMMA LeaveAccounted ==
    ASSUME IInv, NEW p \in Processes, Leave(p),
           UNCHANGED <<file, disk, begun, unflushed, lost, raced>>,
           \/ UNCHANGED <<returned, thrown>>
           \/ /\ pc[p] = "done"
              /\ returned' = returned \union change[p]
              /\ thrown' = thrown
           \/ /\ pc[p] \in Pending
              /\ thrown' = thrown \union change[p]
              /\ returned' = returned
    PROVE  Known' /\ Settled'
<1>1. /\ pc' = [pc EXCEPT ![p] = "idle"]
      /\ change' = [change EXCEPT ![p] = {}]
      /\ loaded' = [loaded EXCEPT ![p] = {}]
  BY DEF Leave, Goto
<1>2. /\ change'[p] = {} /\ loaded'[p] = {} /\ pc'[p] = "idle"
      /\ \A q \in Processes \ {p} :
            /\ change'[q] = change[q]
            /\ loaded'[q] = loaded[q]
            /\ pc'[q] = pc[q]
  BY <1>1 DEF IInv, TypeOK
<1>3. Known'
  BY <1>2 DEF IInv, Known
<1>4. Settled'
  BY <1>2 DEF IInv, Settled, Pending
<1>5. QED
  BY <1>3, <1>4

LEMMA NextAccounted == IInv /\ [Next]_vars => Known' /\ Settled'
<1> SUFFICES ASSUME IInv, [Next]_vars PROVE Known' /\ Settled'
  OBVIOUS
<1>1. ASSUME NEW p \in Processes, NEW c \in Changes, Call(p, c)
      PROVE  Known' /\ Settled'
  BY <1>1, CallAccounted
<1>2. ASSUME NEW p \in Processes,
             Open(p) \/ FindStale(p) \/ Retry(p) \/ RemoveStale(p) \/ Throw(p)
      PROVE  Known' /\ Settled'
  <2> DEFINE Quiet(phase) ==
                /\ UNCHANGED <<change, loaded, file, disk, begun, returned, thrown,
                               unflushed, lost>>
                /\ raced => raced'
                /\ pc[p] \in Pending
                /\ pc' = [pc EXCEPT ![p] = phase]
  <2>1. ASSUME NEW phase \in {"load", "stat", "unlink", "open", "failed"}, Quiet(phase)
        PROVE  Known' /\ Settled'
    BY <2>1, QuietAccounted DEF IInv, Pending
  <2>2. CASE Open(p)
    <3>1. Quiet("load") \/ Quiet("stat")
      BY <2>2 DEF Open, Goto, files, history, flushes, Pending
    <3>2. QED
      BY <2>1, <3>1
  <2>3. CASE FindStale(p)
    <3>1. Quiet("unlink")
      BY <2>3 DEF FindStale, Goto, files, flushes, Pending
    <3>2. QED
      BY <2>1, <3>1
  <2>4. CASE Retry(p)
    <3>1. Quiet("open")
      BY <2>4 DEF Retry, Goto, files, history, flushes, Pending
    <3>2. QED
      BY <2>1, <3>1
  <2>5. CASE RemoveStale(p)
    <3>1. Quiet("open")
      BY <2>5 DEF RemoveStale, Goto, files, history, flushes, Pending
    <3>2. QED
      BY <2>1, <3>1
  <2>6. CASE Throw(p)
    <3>1. Quiet("failed")
      BY <2>6 DEF Throw, Goto, files, history, flushes, Pending
    <3>2. QED
      BY <2>1, <3>1
  <2>7. QED
    BY <1>2, <2>2, <2>3, <2>4, <2>5, <2>6
<1>3. ASSUME NEW p \in Processes, CreateTemp(p) \/ WriteAndSync(p) \/ WriteShort(p)
      PROVE  Known' /\ Settled'
  <2>1. /\ UNCHANGED <<change, loaded, file, disk, begun, returned, thrown, unflushed,
                       lost, raced>>
        /\ pc[p] \in {"create", "write"}
        /\ \E phase \in {"write", "rename"} : pc' = [pc EXCEPT ![p] = phase]
    BY <1>3 DEF CreateTemp, WriteAndSync, WriteShort, Goto, history, flushes
  <2>2. QED
    BY <2>1, QuietAccounted DEF IInv, Pending
<1>4. ASSUME NEW p \in Processes,
             Load(p) \/ Rename(p) \/ FsyncDir(p) \/ FailToFsyncDir(p)
      PROVE  Known' /\ Settled'
  BY <1>4, LoadAccounted, RenameAccounted, FsyncDirAccounted
<1>5. ASSUME NEW p \in Processes, TimeOut(p) \/ Release(p) \/ Kill(p) \/ FailToOpen(p)
      PROVE  Known' /\ Settled'
  BY <1>5, LeaveAccounted DEF TimeOut, Release, Kill, FailToOpen, files, history, flushes,
                               Pending
<1>6. CASE Age \/ UNCHANGED vars
  <2>1. UNCHANGED <<pc, change, loaded, file, disk, begun, returned, thrown, unflushed, lost,
                    raced>>
    BY <1>6 DEF Age, vars, files, history, flushes
  <2>2. QED
    BY <2>1 DEF IInv, Known, Settled
<1>7. CASE WriteBack
  BY <1>7 DEF WriteBack, IInv, Known, Settled
<1>8. CASE PowerLoss
  <2>1. file' = disk /\ disk' = disk
    BY <1>8, ImageTypes DEF PowerLoss, IInv, Readable, TypeOK
  <2>2. /\ \A p \in Processes : pc'[p] = "idle" /\ change'[p] = {} /\ loaded'[p] = {}
        /\ UNCHANGED <<begun, returned, thrown, raced>>
        /\ lost' = lost \union (unflushed \ file'.contents)
        /\ unflushed' = {}
    BY <1>8 DEF PowerLoss
  <2>3. Known'
    BY <2>1, <2>2 DEF IInv, Known
  <2>4. Settled'
    BY <2>1, <2>2 DEF IInv, Settled, Pending
  <2>5. QED
    BY <2>3, <2>4
<1>9. QED
  BY <1>1, <1>2, <1>3, <1>4, <1>5, <1>6, <1>7, <1>8 DEF Next

LEMMA FilesInvariant == Spec => []IInv
<1>1. Init => Known /\ Settled
  BY DEF Init, Known, Settled, Pending, Whole, Torn, Short
<1>2. Init => LockHeld
  BY DEF Init, LockHeld, StaleLock, Critical
<1>3. Init => IInv
  BY <1>1, <1>2, InitTyped, InitReadable DEF IInv
<1>4. IInv /\ [Next]_vars => IInv'
  BY NextTyped, NextLockHeld, NextReadable, NextAccounted DEF IInv
<1>5. QED
  BY <1>3, <1>4, PTL DEF Spec

\* A change whose call returned stays in the file, through the calls of other
\* processes, kills and power losses, but for a power loss that finds its rename
\* unflushed (withDb, fsyncDir).
THEOREM ReturnedSurvive == Spec => []ReturnedChangesSurvive
<1>1. IInv => ReturnedChangesSurvive
  BY DEF IInv, Settled, ReturnedChangesSurvive
<1>2. QED
  BY <1>1, FilesInvariant, PTL

\* A change whose call threw is not in the file, now or later (withDb).
THEOREM ThrownLeaveNothing == Spec => []ThrownChangesLeaveNothing
<1>1. IInv => ThrownChangesLeaveNothing
  BY DEF IInv, Settled, ThrownChangesLeaveNothing
<1>2. QED
  BY <1>1, FilesInvariant, PTL

\* Only a text cut short by a disk that filled up part-way, renamed over the file,
\* makes it unreadable, and no call overwrites an unreadable one
\* (writeJsonFileAtomic, readJsonFile).
THEOREM DamagedByShortWritesOnly == Spec => OnlyShortWritesDamage
<1> DEFINE Damaging == file.parses /\ ~file'.parses
           Mending  == ~file.parses /\ file'.parses
<1>1. ASSUME IInv, [Next]_vars, ~raced'
      PROVE  /\ Damaging => \E p \in Processes : /\ pc[p] = "rename"
                                                /\ temp[p] = Short
                                                /\ file' = temp[p]
             /\ Mending => crashes' # crashes
  <2>1. ASSUME NEW p \in Processes, Rename(p)
        PROVE  /\ Damaging => /\ pc[p] = "rename"
                              /\ temp[p] = Short
                              /\ file' = temp[p]
               /\ ~Mending
    <3>1. /\ pc[p] = "rename"
          /\ file' = temp[p]
          /\ raced' = raced
      BY <2>1 DEF Rename, history
    <3>2. temp[p] \in {Whole(loaded[p] \union change[p]), Short}
      BY <3>1, <1>1 DEF IInv, Readable
    <3>3. file.parses
      BY <3>1, <1>1 DEF IInv, Settled
    <3>4. QED
      BY <3>1, <3>2, <3>3 DEF Whole
  <2>2. CASE PowerLoss
    <3>1. file' = disk /\ raced' = raced
      BY <2>2, <1>1, ImageTypes DEF PowerLoss, IInv, Readable, TypeOK
    <3>2. ~Damaging
      BY <3>1, <1>1 DEF IInv, Settled
    <3>3. crashes' # crashes
      BY <2>2, <1>1 DEF PowerLoss, IInv, TypeOK
    <3>4. QED
      BY <3>2, <3>3
  <2>3. CASE ~PowerLoss /\ ~\E p \in Processes : Rename(p)
    <3>1. file' = file
      BY <1>1, <2>3 DEF Next, vars, files, Call, Open, FailToOpen, FindStale, Retry, TimeOut,
                        RemoveStale, Load, CreateTemp, WriteAndSync, WriteShort, FsyncDir,
                        FailToFsyncDir, Throw, Release, Kill, Age, WriteBack
    <3>2. QED
      BY <3>1
  <2>4. QED
    BY <2>1, <2>2, <2>3
<1>2. IInv /\ [Next]_vars =>
        [~raced' =>
            /\ (file.parses /\ ~file'.parses) =>
                  \E p \in Processes : /\ pc[p] = "rename"
                                        /\ temp[p] = Short
                                        /\ file' = temp[p]
            /\ (~file.parses /\ file'.parses) => crashes' # crashes]_vars
  BY <1>1
<1>3. QED
  BY <1>2, FilesInvariant, PTL DEF Spec, OnlyShortWritesDamage

-----------------------------------------------------------------------------
(* Refinement of AtomicChanges                                             *)

\* A call makes one change, and the disk never has one the file has not.
Staged ==
    /\ \A p \in Processes : \A c, d \in change[p] : c = d
    /\ (~raced /\ file.parses) => disk.contents \subseteq file.contents

LEMMA NextStaged == IInv /\ Staged /\ [Next]_vars => Staged'
<1> SUFFICES ASSUME IInv, Staged, [Next]_vars PROVE Staged'
  OBVIOUS
<1>1. ASSUME NEW p \in Processes, NEW c \in Changes, Call(p, c)
      PROVE  Staged'
  <2>1. /\ change' = [change EXCEPT ![p] = {c}]
        /\ UNCHANGED <<file, disk, raced>>
    BY <1>1 DEF Call, files
  <2>2. QED
    BY <2>1 DEF Staged, IInv, TypeOK
<1>2. ASSUME NEW p \in Processes,
             \/ Open(p) \/ FindStale(p) \/ Retry(p) \/ RemoveStale(p) \/ Load(p)
             \/ CreateTemp(p) \/ WriteAndSync(p) \/ WriteShort(p)
             \/ FailToFsyncDir(p) \/ Throw(p)
      PROVE  Staged'
  <2>1. UNCHANGED <<change, file, disk>>
    BY <1>2 DEF Open, FindStale, Retry, RemoveStale, Load, CreateTemp, WriteAndSync,
                WriteShort, FailToFsyncDir, Throw, files
  <2>2. raced => raced'
    <3>1. CASE FindStale(p)
      BY <3>1 DEF FindStale
    <3>2. CASE ~FindStale(p)
      BY <1>2, <3>2 DEF Open, Retry, RemoveStale, Load, CreateTemp, WriteAndSync, WriteShort,
                        FailToFsyncDir, Throw, history
    <3>3. QED
      BY <3>1, <3>2
  <2>3. QED
    BY <2>1, <2>2 DEF Staged
<1>3. ASSUME NEW p \in Processes, TimeOut(p) \/ Release(p) \/ Kill(p) \/ FailToOpen(p)
      PROVE  Staged'
  <2>1. /\ change' = [change EXCEPT ![p] = {}]
        /\ UNCHANGED <<file, disk, raced>>
    BY <1>3 DEF TimeOut, Release, Kill, FailToOpen, Leave, files, history, flushes
  <2>2. QED
    BY <2>1 DEF Staged, IInv, TypeOK
<1>4. ASSUME NEW p \in Processes, Rename(p)
      PROVE  Staged'
  <2>1. /\ pc[p] = "rename"
        /\ file' = temp[p]
        /\ UNCHANGED <<change, disk, raced>>
    BY <1>4 DEF Rename, history, flushes
  <2>2. temp[p] \in {Whole(loaded[p] \union change[p]), Short}
    BY <2>1 DEF IInv, Readable
  <2>3. file'.parses => file'.contents = loaded[p] \union change[p]
    BY <2>1, <2>2 DEF Whole, Short, Torn
  <2>4. ~raced => file.parses /\ loaded[p] = file.contents
    BY <2>1 DEF IInv, Settled
  <2>5. QED
    BY <2>1, <2>3, <2>4 DEF Staged
<1>5. ASSUME NEW p \in Processes, FsyncDir(p)
      PROVE  Staged'
  BY <1>5 DEF FsyncDir, history, flushes, Staged
<1>6. CASE Age \/ WriteBack
  <2>1. UNCHANGED <<change, file, raced>> /\ disk' \in {file, disk}
    BY <1>6 DEF Age, WriteBack, files, history
  <2>2. QED
    BY <2>1 DEF Staged
<1>7. CASE PowerLoss
  <2>1. disk' = file' /\ \A p \in Processes : change'[p] = {}
    BY <1>7 DEF PowerLoss
  <2>2. QED
    BY <2>1 DEF Staged
<1>8. CASE UNCHANGED vars
  BY <1>8 DEF vars, Staged
<1>9. QED
  BY <1>1, <1>2, <1>3, <1>4, <1>5, <1>6, <1>7, <1>8 DEF Next

\* Steps in the midst of a call answer nothing.
LEMMA NothingAnswered ==
    ASSUME UNCHANGED <<change, begun, returned, thrown, unflushed, lost>>
    PROVE  Answers' = Answers
  BY DEF Answers

\* A change whose call is in progress is awaited, and no other call holds it.
LEMMA Awaited ==
    ASSUME IInv, NEW p \in Processes, NEW c \in change[p]
    PROVE  /\ c \in Changes
           /\ Answers[c] = "awaited"
           /\ c \in begun \ (returned \union thrown)
           /\ \A q \in Processes \ {p} : c \notin change[q]
  BY DEF IInv, TypeOK, Known, Answers

\* What a call answers when it leaves, and that it answers nothing for the others.
LEMMA LeavingAnswers ==
    ASSUME IInv, Staged, NEW p \in Processes, NEW c \in change[p], NEW to,
           change' = [change EXCEPT ![p] = {}],
           UNCHANGED <<begun, unflushed, lost>>,
           \/ /\ to = IF c \in unflushed \union lost THEN "unflushed" ELSE "returned"
              /\ returned' = returned \union change[p]
              /\ thrown' = thrown
           \/ to = "threw" /\ thrown' = thrown \union change[p] /\ returned' = returned
           \/ to = "cut" /\ UNCHANGED <<returned, thrown>>
    PROVE  Store!Answer(c, "awaited", to)
<1>1. change[p] = {c}
  BY DEF Staged
<1>2. /\ change'[p] = {}
      /\ \A q \in Processes \ {p} : change'[q] = change[q]
  BY DEF IInv, TypeOK
<1>3. ASSUME NEW d \in Changes, d # c
      PROVE  Answers'[d] = Answers[d]
  <2>1. (d \in returned' <=> d \in returned) /\ (d \in thrown' <=> d \in thrown)
    BY <1>1, <1>3
  <2>2. (\E q \in Processes : d \in change'[q]) <=> (\E q \in Processes : d \in change[q])
    BY <1>1, <1>2, <1>3
  <2>3. QED
    BY <2>1, <2>2 DEF Answers
<1>4. Answers'[c] = to
  <2>1. ~\E q \in Processes : c \in change'[q]
    BY <1>2, Awaited
  <2>2. QED
    BY <1>1, <2>1, Awaited DEF Answers
<1>5. Answers' = [Answers EXCEPT ![c] = to]
  BY <1>3, <1>4 DEF Answers
<1>6. QED
  BY <1>5, Awaited DEF Store!Answer

LEMMA CallAsks ==
    ASSUME IInv, NEW p \in Processes, NEW c \in Changes, Call(p, c)
    PROVE  Store!Ask(c)
<1>1. /\ change[p] = {}
      /\ change' = [change EXCEPT ![p] = {c}]
      /\ c \notin begun
      /\ begun' = begun \union {c}
      /\ UNCHANGED <<file, returned, thrown, unflushed, lost>>
  BY DEF Call, files, flushes, IInv, TypeOK
<1>2. /\ change'[p] = {c}
      /\ \A q \in Processes \ {p} : change'[q] = change[q]
  BY <1>1 DEF IInv, TypeOK
<1>3. ASSUME NEW d \in Changes, d # c
      PROVE  Answers'[d] = Answers[d]
  <2>1. (\E q \in Processes : d \in change'[q]) <=> (\E q \in Processes : d \in change[q])
    BY <1>1, <1>2, <1>3
  <2>2. QED
    BY <1>1, <1>3, <2>1 DEF Answers
<1>4. c \notin returned \union thrown /\ \A q \in Processes : c \notin change[q]
  BY <1>1 DEF IInv, Known
<1>5. Answers[c] = "none"
  BY <1>1, <1>4 DEF Answers
<1>6. Answers'[c] = "awaited"
  BY <1>1, <1>2, <1>4 DEF Answers
<1>7. Answers' = [Answers EXCEPT ![c] = "awaited"]
  BY <1>3, <1>6 DEF Answers
<1>8. QED
  BY <1>1, <1>5, <1>7 DEF Store!Ask, Store!Answer

\* The rename is the moment of the change: it lands on all that was made before.
LEMMA RenameMakes ==
    ASSUME IInv, Staged, ~raced, file'.parses, NEW p \in Processes, Rename(p)
    PROVE  \E c \in Changes : Store!Make(c)
<1>1. /\ pc[p] = "rename"
      /\ file' = temp[p]
      /\ UNCHANGED <<change, begun, returned, thrown, unflushed, lost>>
  BY DEF Rename, history, flushes
<1>2. PICK c : c \in change[p]
  BY <1>1 DEF IInv, TypeOK
<1>3. change[p] = {c}
  BY <1>2 DEF Staged
<1>4. temp[p] = Whole(loaded[p] \union change[p])
  <2>1. temp[p] \in {Whole(loaded[p] \union change[p]), Short}
    BY <1>1 DEF IInv, Readable
  <2>2. QED
    BY <1>1, <2>1 DEF Short, Torn
<1>5. loaded[p] = file.contents /\ c \notin file.contents
  BY <1>1, <1>2 DEF IInv, Settled, Pending
<1>6. file'.contents = file.contents \union {c}
  BY <1>1, <1>3, <1>4, <1>5 DEF Whole
<1>7. Answers' = Answers
  BY <1>1, NothingAnswered
<1>8. c \in Changes /\ Answers[c] = "awaited"
  BY <1>2, Awaited
<1>9. Store!Make(c)
  BY <1>5, <1>6, <1>7, <1>8 DEF Store!Make
<1>10. QED
  BY <1>8, <1>9

\* A call that gives up before the lock, returns, throws or is killed.
LEMMA LeavingStores ==
    ASSUME IInv, Staged, ~raced, file.parses, NEW p \in Processes,
           TimeOut(p) \/ Release(p) \/ Kill(p) \/ FailToOpen(p)
    PROVE  Store!Next
<1>1. /\ pc[p] # "idle"
      /\ change' = [change EXCEPT ![p] = {}]
      /\ UNCHANGED <<file, begun, unflushed, lost>>
  BY DEF TimeOut, Release, Kill, FailToOpen, Leave, files, history, flushes
<1>2. PICK c : c \in change[p]
  BY <1>1 DEF IInv, TypeOK
<1>3. c \in Changes
  BY <1>2, Awaited
<1>4. CASE TimeOut(p) \/ FailToOpen(p)
  <2>1. /\ pc[p] \in {"open", "stat"}
        /\ thrown' = thrown \union change[p] /\ returned' = returned
    BY <1>4 DEF TimeOut, FailToOpen
  <2>2. Store!Answer(c, "awaited", "threw")
    BY <1>1, <1>2, <2>1, LeavingAnswers
  <2>3. c \notin file.contents
    BY <1>2, <2>1 DEF IInv, Settled, Pending
  <2>4. Store!Throw(c)
    BY <1>1, <2>2, <2>3 DEF Store!Throw
  <2>5. QED
    BY <1>3, <2>4 DEF Store!Next
<1>5. CASE Release(p) /\ pc[p] = "done"
  <2>1. returned' = returned \union change[p] /\ thrown' = thrown
    BY <1>5 DEF Release
  <2>2. Store!Answer(c, "awaited",
                     IF c \in unflushed \union lost THEN "unflushed" ELSE "returned")
    BY <1>1, <1>2, <2>1, LeavingAnswers
  <2>3. c \in file.contents
    BY <1>2, <1>5 DEF IInv, Settled
  <2>4. CASE c \in unflushed \union lost
    <3>1. Store!ReturnUnflushed(c)
      BY <1>1, <2>2, <2>3, <2>4 DEF Store!ReturnUnflushed
    <3>2. QED
      BY <1>3, <3>1 DEF Store!Next
  <2>5. CASE c \notin unflushed \union lost
    <3>1. Store!Return(c)
      BY <1>1, <2>2, <2>3, <2>5 DEF Store!Return
    <3>2. QED
      BY <1>3, <3>1 DEF Store!Next
  <2>6. QED
    BY <2>4, <2>5
<1>6. CASE Release(p) /\ pc[p] = "failed"
  <2>1. thrown' = thrown \union change[p] /\ returned' = returned
    BY <1>6 DEF Release
  <2>2. Store!Answer(c, "awaited", "threw")
    BY <1>1, <1>2, <2>1, LeavingAnswers
  <2>3. c \notin file.contents
    BY <1>2, <1>6 DEF IInv, Settled, Pending
  <2>4. Store!Throw(c)
    BY <1>1, <2>2, <2>3 DEF Store!Throw
  <2>5. QED
    BY <1>3, <2>4 DEF Store!Next
<1>7. CASE Kill(p)
  <2>1. UNCHANGED <<returned, thrown>>
    BY <1>7 DEF Kill, history, flushes
  <2>2. Store!Answer(c, "awaited", "cut")
    BY <1>1, <1>2, <2>1, LeavingAnswers
  <2>3. Store!Cut(c)
    BY <1>1, <2>2 DEF Store!Cut
  <2>4. QED
    BY <1>3, <2>3 DEF Store!Next
<1>8. QED
  BY <1>4, <1>5, <1>6, <1>7 DEF Release

\* Whatever the calls could not flush is on disk with the rest of the file.
LEMMA FlushStores ==
    ASSUME IInv, ~raced, file.parses,
           unflushed' = {},
           UNCHANGED <<change, file, begun, returned, thrown, lost>>
    PROVE  Store!Flush
<1>1. ASSUME NEW c \in Changes
      PROVE  Answers'[c] = IF Answers[c] = "unflushed" /\ c \in file.contents
                           THEN "returned"
                           ELSE Answers[c]
  <2>1. c \in lost => c \notin file.contents
    BY DEF IInv, Known
  <2>2. (c \in returned /\ c \notin lost) => c \in file.contents
    BY DEF IInv, Settled
  <2>3. QED
    BY <2>1, <2>2 DEF Answers
<1>2. Answers' = [c \in Changes |-> IF Answers[c] = "unflushed" /\ c \in file.contents
                                   THEN "returned"
                                   ELSE Answers[c]]
  BY <1>1 DEF Answers
<1>3. QED
  BY <1>2 DEF Store!Flush

LEMMA PowerLossStores ==
    ASSUME IInv, Staged, ~raced, file.parses, PowerLoss
    PROVE  Store!PowerLoss
<1>1. /\ \A p \in Processes : change'[p] = {}
      /\ lost' = lost \union (unflushed \ file'.contents)
      /\ unflushed' = {}
      /\ UNCHANGED <<begun, returned, thrown>>
  BY DEF PowerLoss
<1>2. file' = disk /\ disk.parses
  BY ImageTypes DEF PowerLoss, IInv, Readable, Settled, TypeOK
<1>3. /\ file'.contents \subseteq file.contents
      /\ returned \ (unflushed \union lost) \subseteq file'.contents
      /\ lost \intersect file'.contents = {}
  BY <1>2 DEF IInv, Settled, Known, Staged
<1>4. \A c \in file.contents \ file'.contents : Answers[c] # "returned"
  BY <1>3 DEF Answers, IInv, TypeOK, Image
<1>5. ASSUME NEW c \in Changes
      PROVE  Answers'[c] = IF Answers[c] = "awaited" THEN "cut"
                           ELSE IF Answers[c] = "unflushed" /\ c \in file'.contents
                                THEN "returned"
                                ELSE Answers[c]
  <2>1. (\E p \in Processes : c \in change[p]) => c \in begun
    BY DEF IInv, Known
  <2>2. ~\E p \in Processes : c \in change'[p]
    BY <1>1
  <2>3. CASE c \in returned
    BY <1>1, <1>3, <2>3 DEF Answers
  <2>4. CASE c \notin returned
    BY <1>1, <2>1, <2>2, <2>4 DEF Answers
  <2>5. QED
    BY <2>3, <2>4
<1>6. Answers' = [c \in Changes |->
                     IF Answers[c] = "awaited" THEN "cut"
                     ELSE IF Answers[c] = "unflushed" /\ c \in file'.contents
                          THEN "returned"
                          ELSE Answers[c]]
  BY <1>5 DEF Answers
<1>7. QED
  BY <1>3, <1>4, <1>6 DEF Store!PowerLoss

LEMMA NextStores ==
    ASSUME IInv, Staged, [Next]_vars, ~raced', file.parses, file'.parses
    PROVE  [Store!Next]_<<file.contents, Answers>>
<1>1. ~raced
  <2>1. CASE \E p \in Processes : FindStale(p)
    BY <2>1 DEF FindStale
  <2>2. CASE ~\E p \in Processes : FindStale(p)
    BY <2>2 DEF Next, vars, history, Call, Open, FailToOpen, Retry, TimeOut, RemoveStale, Load,
                CreateTemp, WriteAndSync, WriteShort, Rename, FsyncDir, FailToFsyncDir,
                Throw, Release, Kill, Age, WriteBack, PowerLoss
  <2>3. QED
    BY <2>1, <2>2
<1>2. ASSUME NEW p \in Processes, NEW c \in Changes, Call(p, c)
      PROVE  Store!Next
  BY <1>2, CallAsks DEF Store!Next
<1>3. ASSUME NEW p \in Processes,
             \/ Open(p) \/ FindStale(p) \/ Retry(p) \/ RemoveStale(p) \/ Load(p)
             \/ CreateTemp(p) \/ WriteAndSync(p) \/ WriteShort(p) \/ Throw(p)
      PROVE  UNCHANGED <<file.contents, Answers>>
  <2>1. UNCHANGED <<file, change>>
    BY <1>3 DEF Open, FindStale, Retry, RemoveStale, Load, CreateTemp, WriteAndSync,
                WriteShort, Throw, files
  <2>2. UNCHANGED <<begun, returned, thrown, unflushed, lost>>
    BY <1>3 DEF Open, FindStale, Retry, RemoveStale, Load, CreateTemp, WriteAndSync,
                WriteShort, Throw, history, flushes
  <2>3. QED
    BY <2>1, <2>2, NothingAnswered
<1>4. ASSUME NEW p \in Processes, Rename(p)
      PROVE  Store!Next
  BY <1>1, <1>4, RenameMakes DEF Store!Next
<1>5. ASSUME NEW p \in Processes, FsyncDir(p)
      PROVE  Store!Next
  BY <1>1, <1>5, FlushStores DEF FsyncDir, Store!Next
<1>6. ASSUME NEW p \in Processes, FailToFsyncDir(p)
      PROVE  UNCHANGED <<file.contents, Answers>>
  <2>1. /\ unflushed' = unflushed \union change[p]
        /\ UNCHANGED <<file, change, begun, returned, thrown, lost>>
    BY <1>6 DEF FailToFsyncDir, files
  <2>2. change[p] \intersect returned = {}
    BY DEF IInv, Known
  <2>3. QED
    BY <2>1, <2>2 DEF Answers
<1>7. ASSUME NEW p \in Processes, TimeOut(p) \/ Release(p) \/ Kill(p) \/ FailToOpen(p)
      PROVE  Store!Next
  BY <1>1, <1>7, LeavingStores
<1>8. CASE Age \/ UNCHANGED vars
  <2>1. UNCHANGED <<file, change, begun, returned, thrown, unflushed, lost>>
    BY <1>8 DEF Age, vars, files, history, flushes
  <2>2. QED
    BY <2>1, NothingAnswered
<1>9. CASE WriteBack
  BY <1>1, <1>9, FlushStores DEF WriteBack, Store!Next
<1>10. CASE PowerLoss
  BY <1>1, <1>10, PowerLossStores DEF Store!Next
<1>11. QED
  BY <1>2, <1>3, <1>4, <1>5, <1>6, <1>7, <1>8, <1>9, <1>10 DEF Next

LEMMA InitStores == Init => Store!Init
<1> SUFFICES ASSUME Init PROVE Store!Init
  OBVIOUS
<1>1. file.contents = {}
  BY DEF Init, Whole, Short, Torn
<1>2. /\ \A p \in Processes : change[p] = {}
      /\ begun = {} /\ returned = {} /\ thrown = {}
  BY DEF Init
<1>3. Answers = [c \in Changes |-> "none"]
  BY <1>2 DEF Answers
<1>4. QED
  BY <1>1, <1>3 DEF Store!Init

\* While the file is readable, the lock and the steps of the write implement changes
\* made at once (withFileLock, writeJsonFileAtomic).
THEOREM ChangedAtOnce == Spec => ChangesAreAtomic
<1>1. Init => Staged
  BY DEF Init, Staged
<1>2. Spec => [](IInv /\ Staged)
  BY <1>1, FilesInvariant, NextStaged, PTL DEF Spec
<1>3. IInv /\ Staged /\ [Next]_vars =>
        [(~raced' /\ file.parses /\ file'.parses) => Store!Next]_<<file.contents, Answers>>
  BY NextStores
<1>4. QED
  BY <1>2, <1>3, InitStores, PTL DEF Spec, ChangesAreAtomic
=============================================================================
