------------------------------ MODULE FileLock ------------------------------
(***************************************************************************)
(* A locked read-modify-write of a JSON file: withFileLock() around        *)
(* readJsonFile() and writeJsonFileAtomic() (api/json-store.ts), as withDb *)
(* of api/keys.ts and site/lib/store.ts call them, by several processes    *)
(* that may be killed and a machine that may lose power.                   *)
(*                                                                         *)
(* The contents of a file are the set of changes made to it.  A lock gets  *)
(* old enough to be taken for stale only when its owner was killed or      *)
(* could not write into it: the code under the lock is one read and one    *)
(* write, 30 s are ample.                                                  *)
(***************************************************************************)
EXTENDS Integers

CONSTANTS
    Processes,
    Changes,          \* one per call of withDb
    NoLock,
    MaxCrashes        \* bound on kills and power losses

Lock == [owner : Processes, orphan : BOOLEAN, stale : BOOLEAN]

ASSUME FileLockAssumption ==
    /\ NoLock \notin Lock
    /\ MaxCrashes \in Nat

VARIABLES
    pc,               \* process -> where in withDb it is
    change,           \* process -> the change its call makes, {} between calls
    loaded,           \* process -> contents its call has read
    lock,             \* the lock file
    temp,             \* process -> its temp file
    file,             \* the file as processes see it
    disk,             \* the file as the directory on disk has it
    begun,            \* history: changes some call was made for
    returned,         \* history: changes whose call returned
    thrown,           \* history: changes whose call threw
    unflushed,        \* history: changes whose rename the call could not flush, and
                      \* that have not got to disk since
    lost,             \* history: such changes that a power loss took back
    raced,            \* history: two processes set out to remove one stale lock
    crashes           \* number of kills and power losses

vars == <<pc, change, loaded, lock, temp, file, disk, begun, returned, thrown,
          unflushed, lost, raced, crashes>>

files == <<temp, file, disk>>

flushes == <<unflushed, lost>>

history == <<begun, returned, thrown, flushes, raced>>

\* A file: what it holds, whether that parses, and whether it is on disk.
Image == [contents : SUBSET Changes, parses : BOOLEAN, synced : BOOLEAN]

Whole(contents) == [contents |-> contents, parses |-> TRUE, synced |-> TRUE]

Torn == [contents |-> {}, parses |-> FALSE, synced |-> FALSE]

\* A text that was cut short, on disk.
Short == [Torn EXCEPT !.synced = TRUE]

\* What is left of an image when power is lost.
Survivor(image) == IF image.synced THEN image ELSE Short

Critical == {"load", "create", "write", "rename", "fsyncDir", "done", "failed"}

Phases == {"idle", "open", "stat", "unlink"} \union Critical

Goto(p, phase) == pc' = [pc EXCEPT ![p] = phase]

\* A call is over, and what it held in memory is gone.
Leave(p) ==
    /\ Goto(p, "idle")
    /\ change' = [change EXCEPT ![p] = {}]
    /\ loaded' = [loaded EXCEPT ![p] = {}]

StaleLock == lock # NoLock /\ lock.stale

-----------------------------------------------------------------------------

Init ==
    /\ pc = [p \in Processes |-> "idle"]
    /\ change = [p \in Processes |-> {}]
    /\ loaded = [p \in Processes |-> {}]
    /\ lock = NoLock
    /\ temp = [p \in Processes |-> Torn]
    /\ file \in {Whole({}), Short}
    /\ disk = file
    /\ begun = {}
    /\ returned = {}
    /\ thrown = {}
    /\ unflushed = {}
    /\ lost = {}
    /\ raced = FALSE
    /\ crashes = 0

Call(p, c) ==
    /\ pc[p] = "idle"
    /\ c \notin begun
    /\ begun' = begun \union {c}
    /\ change' = [change EXCEPT ![p] = {c}]
    /\ Goto(p, "open")
    /\ UNCHANGED <<loaded, lock, files, returned, thrown, flushes, raced, crashes>>

\* openSync(lock, 'wx')
Open(p) ==
    /\ pc[p] = "open"
    /\ IF lock = NoLock
       THEN /\ lock' = [owner |-> p, orphan |-> FALSE, stale |-> FALSE]
            /\ Goto(p, "load")
       ELSE /\ Goto(p, "stat")
            /\ UNCHANGED lock
    /\ UNCHANGED <<change, loaded, files, history, crashes>>

\* The open fails otherwise than on a lock in the way, or the lock file is made and
\* its text cannot be written: it stays behind.
FailToOpen(p) ==
    /\ pc[p] = "open"
    /\ \/ UNCHANGED lock
       \/ /\ lock = NoLock
          /\ lock' = [owner |-> p, orphan |-> TRUE, stale |-> FALSE]
    /\ Leave(p)
    /\ thrown' = thrown \union change[p]
    /\ UNCHANGED <<files, begun, returned, flushes, raced, crashes>>

\* Mutant: any lock in the way is taken for stale.
FindAnyLock(p) ==
    /\ pc[p] = "stat"
    /\ lock # NoLock
    /\ Goto(p, "unlink")
    /\ raced' = (raced \/ \E q \in Processes : pc[q] = "unlink")
    /\ UNCHANGED <<change, loaded, lock, files, begun, returned, thrown,
                   flushes, crashes>>

\* The lock is stale: remove it.
FindStale(p) ==
    /\ pc[p] = "stat"
    /\ StaleLock
    /\ Goto(p, "unlink")
    /\ raced' = (raced \/ \E q \in Processes : pc[q] = "unlink")
    /\ UNCHANGED <<change, loaded, lock, files, begun, returned, thrown,
                   flushes, crashes>>

\* It is not, or it is gone: sleep and open again, before the deadline.
Retry(p) ==
    /\ pc[p] = "stat"
    /\ ~StaleLock
    /\ Goto(p, "open")
    /\ UNCHANGED <<change, loaded, lock, files, history, crashes>>

\* Mutant: the call times out and keeps what it held.
TimeOutHalfway(p) ==
    /\ pc[p] = "stat"
    /\ ~StaleLock
    /\ Goto(p, "idle")
    /\ thrown' = thrown \union change[p]
    /\ UNCHANGED <<change, loaded, lock, files, begun, returned, flushes, raced, crashes>>

TimeOut(p) ==
    /\ pc[p] = "stat"
    /\ ~StaleLock
    /\ Leave(p)
    /\ thrown' = thrown \union change[p]
    /\ UNCHANGED <<lock, files, begun, returned, flushes, raced, crashes>>

\* unlinkSync(lock) removes the lock that is there by now.
RemoveStale(p) ==
    /\ pc[p] = "unlink"
    /\ lock' = NoLock
    /\ Goto(p, "open")
    /\ UNCHANGED <<change, loaded, files, history, crashes>>

\* readJsonFile(), and the callback on what it returned.
Load(p) ==
    /\ pc[p] = "load"
    /\ IF file.parses
       THEN /\ Goto(p, "create")
            /\ loaded' = [loaded EXCEPT ![p] = file.contents]
       ELSE /\ Goto(p, "failed")
            /\ UNCHANGED loaded
    /\ UNCHANGED <<change, lock, files, history, crashes>>

\* The temp file is open and part of the text may be in it.
CreateTemp(p) ==
    /\ pc[p] = "create"
    /\ temp' = [temp EXCEPT ![p] = Torn]
    /\ Goto(p, "write")
    /\ UNCHANGED <<change, loaded, lock, file, disk, history, crashes>>

\* Mutant: the temp file is renamed before its text is flushed.
WriteWithoutSync(p) ==
    /\ pc[p] = "write"
    /\ temp' = [temp EXCEPT ![p] = [Whole(loaded[p] \union change[p]) EXCEPT !.synced = FALSE]]
    /\ Goto(p, "rename")
    /\ UNCHANGED <<change, loaded, lock, file, disk, history, crashes>>

WriteAndSync(p) ==
    /\ pc[p] = "write"
    /\ temp' = [temp EXCEPT ![p] = Whole(loaded[p] \union change[p])]
    /\ Goto(p, "rename")
    /\ UNCHANGED <<change, loaded, lock, file, disk, history, crashes>>

\* The disk fills up part-way: writeSync() says how much it wrote, and nobody looks.
WriteShort(p) ==
    /\ pc[p] = "write"
    /\ temp' = [temp EXCEPT ![p] = Short]
    /\ Goto(p, "rename")
    /\ UNCHANGED <<change, loaded, lock, file, disk, history, crashes>>

Rename(p) ==
    /\ pc[p] = "rename"
    /\ file' = temp[p]
    /\ Goto(p, "fsyncDir")
    /\ UNCHANGED <<change, loaded, lock, temp, disk, history, crashes>>

\* Mutant: the directory is opened and closed, and never flushed.
SkipFsyncDir(p) ==
    /\ pc[p] = "fsyncDir"
    /\ Goto(p, "done")
    /\ UNCHANGED <<change, loaded, lock, files, history, crashes>>

FsyncDir(p) ==
    /\ pc[p] = "fsyncDir"
    /\ disk' = file
    /\ unflushed' = {}
    /\ Goto(p, "done")
    /\ UNCHANGED <<change, loaded, lock, temp, file, begun, returned, thrown, lost,
                   raced, crashes>>

\* The directory cannot be opened or flushed: the error is swallowed.
FailToFsyncDir(p) ==
    /\ pc[p] = "fsyncDir"
    /\ unflushed' = unflushed \union change[p]
    /\ Goto(p, "done")
    /\ UNCHANGED <<change, loaded, lock, files, begun, returned, thrown, lost, raced,
                   crashes>>

\* Mutant: an error after the rename is passed on too.
ThrowAnywhere(p) ==
    /\ pc[p] \in {"load", "create", "write", "rename", "fsyncDir"}
    /\ Goto(p, "failed")
    /\ UNCHANGED <<change, loaded, lock, files, history, crashes>>

\* The callback, the write (a disk that is full already) or the rename throws.
Throw(p) ==
    /\ pc[p] \in {"load", "create", "write", "rename"}
    /\ Goto(p, "failed")
    /\ UNCHANGED <<change, loaded, lock, files, history, crashes>>

\* The finally block removes the lock that is there, whoever made it.
Release(p) ==
    /\ pc[p] \in {"done", "failed"}
    /\ lock' = NoLock
    /\ returned' = IF pc[p] = "done" THEN returned \union change[p] ELSE returned
    /\ thrown' = IF pc[p] = "failed" THEN thrown \union change[p] ELSE thrown
    /\ Leave(p)
    /\ UNCHANGED <<files, begun, flushes, raced, crashes>>

-----------------------------------------------------------------------------
(* The environment                                                         *)

\* A lock file that was left behind gets older than STALE_LOCK_MS.
Age ==
    /\ lock # NoLock
    /\ lock.orphan
    /\ ~lock.stale
    /\ lock' = [lock EXCEPT !.stale = TRUE]
    /\ UNCHANGED <<pc, change, loaded, files, history, crashes>>

\* The system writes the directory to disk in its own time.
WriteBack ==
    /\ disk # file
    /\ disk' = file
    /\ unflushed' = {}
    /\ UNCHANGED <<pc, change, loaded, lock, temp, file, begun, returned, thrown, lost,
                   raced, crashes>>

\* The process is killed, and its lock file stays behind.
Kill(p) ==
    /\ crashes < MaxCrashes
    /\ pc[p] # "idle"
    /\ crashes' = crashes + 1
    /\ Leave(p)
    /\ lock' = IF pc[p] \in Critical /\ lock # NoLock /\ lock.owner = p
               THEN [lock EXCEPT !.orphan = TRUE]
               ELSE lock
    /\ UNCHANGED <<files, history>>

\* Every process is gone.  What is on disk of the file is there; the lock file may be
\* or not.
PowerLoss ==
    /\ crashes < MaxCrashes
    /\ crashes' = crashes + 1
    /\ pc' = [p \in Processes |-> "idle"]
    /\ change' = [p \in Processes |-> {}]
    /\ loaded' = [p \in Processes |-> {}]
    /\ file' = Survivor(disk)
    /\ disk' = Survivor(disk)
    /\ lost' = lost \union (unflushed \ file'.contents)
    /\ unflushed' = {}
    /\ \/ lock' = NoLock
       \/ lock # NoLock /\ lock' = [lock EXCEPT !.orphan = TRUE]
    /\ UNCHANGED <<temp, begun, returned, thrown, raced>>

Next ==
    \/ \E p \in Processes :
          \/ \E c \in Changes : Call(p, c)
          \/ Open(p) \/ FailToOpen(p)
          \/ FindStale(p) \/ Retry(p) \/ TimeOut(p) \/ RemoveStale(p)
          \/ Load(p) \/ CreateTemp(p) \/ WriteAndSync(p) \/ WriteShort(p) \/ Rename(p)
          \/ FsyncDir(p) \/ FailToFsyncDir(p)
          \/ Throw(p) \/ Release(p)
          \/ Kill(p)
    \/ Age
    \/ WriteBack
    \/ PowerLoss

Spec == Init /\ [][Next]_vars

-----------------------------------------------------------------------------
(* Properties                                                              *)

TypeOK ==
    /\ pc \in [Processes -> Phases]
    /\ change \in [Processes -> SUBSET Changes]
    /\ loaded \in [Processes -> SUBSET Changes]
    /\ lock \in Lock \union {NoLock}
    /\ temp \in [Processes -> Image]
    /\ file \in Image
    /\ disk \in Image
    /\ begun \subseteq Changes
    /\ returned \subseteq Changes
    /\ thrown \subseteq Changes
    /\ unflushed \subseteq Changes
    /\ lost \subseteq Changes
    /\ raced \in BOOLEAN
    /\ crashes \in 0 .. MaxCrashes
    /\ \A p \in Processes : pc[p] = "idle" <=> change[p] = {}

\* At most one process is between taking the lock and releasing it, through kills,
\* power losses and the takeover of a stale lock, as long as one process at a time
\* sets out to remove it.
MutualExclusion ==
    ~raced => \A p, q \in Processes :
                  (pc[p] \in Critical /\ pc[q] \in Critical) => p = q

\* A change whose call returned is in the file and stays there: no other process
\* overwrites it, and of the power losses only one that finds its rename unflushed,
\* because the call could not flush the directory (fsyncDir), takes it back.
ReturnedChangesSurvive ==
    (~raced /\ file.parses) =>
        returned \ lost \subseteq file.contents

\* A call that threw left nothing behind.
ThrownChangesLeaveNothing ==
    (~raced /\ file.parses) =>
        thrown \intersect file.contents = {}

\* What the call of each change has answered; one that was killed never will.
Answers ==
    [c \in Changes |->
        IF c \in returned
        THEN IF c \in unflushed \union lost THEN "unflushed" ELSE "returned"
        ELSE IF c \in thrown THEN "threw"
        ELSE IF \E p \in Processes : c \in change[p] THEN "awaited"
        ELSE IF c \in begun THEN "cut"
        ELSE "none"]

Store == INSTANCE AtomicChanges WITH contents <- file.contents, answers <- Answers

\* As long as one process at a time removes a stale lock and the file is readable,
\* the lock and the steps of the write amount to changes made at once: each is in the
\* file together with every change made before it, also those whose calls were
\* killed, and only a power loss takes back one, that no call returned for or that
\* its call could not flush (withFileLock, writeJsonFileAtomic).
ChangesAreAtomic ==
    /\ Store!Init
    /\ [][(~raced' /\ file.parses /\ file'.parses) => Store!Next]_<<file.contents, Answers>>

\* Nothing but a text cut short by a disk that filled up part-way makes the file
\* unreadable, whenever a process or the machine stops; and no call overwrites an
\* unreadable one: the former file is back only if power is lost before the new one
\* is on disk (writeJsonFileAtomic, readJsonFile).
OnlyShortWritesDamage ==
    [][~raced' =>
          /\ (file.parses /\ ~file'.parses) =>
                \E p \in Processes : /\ pc[p] = "rename"
                                      /\ temp[p] = Short
                                      /\ file' = temp[p]
          /\ (~file.parses /\ file'.parses) => crashes' # crashes]_vars
=============================================================================
