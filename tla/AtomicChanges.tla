---------------------------- MODULE AtomicChanges ----------------------------
(***************************************************************************)
(* What a locked read-modify-write promises (withFileLock and              *)
(* writeJsonFileAtomic of api/json-store.ts, as withDb uses them): a call  *)
(* makes its change at once and on top of every change made before, and    *)
(* then returns; or it throws and has made none.  A call that is cut may   *)
(* have made it or not.  A power loss takes back changes at most that no   *)
(* call returned for, or that their call returned for unflushed.           *)
(***************************************************************************)
CONSTANT Changes      \* one per call

VARIABLES
    contents,         \* changes that are in the file
    answers           \* change -> what its call has answered

Init == contents = {} /\ answers = [c \in Changes |-> "none"]

Answer(c, from, to) ==
    /\ answers[c] = from
    /\ answers' = [answers EXCEPT ![c] = to]

Ask(c) == Answer(c, "none", "awaited") /\ UNCHANGED contents

Make(c) ==
    /\ answers[c] = "awaited"
    /\ c \notin contents
    /\ contents' = contents \union {c}
    /\ UNCHANGED answers

Return(c) == c \in contents /\ Answer(c, "awaited", "returned") /\ UNCHANGED contents

ReturnUnflushed(c) ==
    c \in contents /\ Answer(c, "awaited", "unflushed") /\ UNCHANGED contents

Throw(c) == c \notin contents /\ Answer(c, "awaited", "threw") /\ UNCHANGED contents

Cut(c) == Answer(c, "awaited", "cut") /\ UNCHANGED contents

\* What is in the file is on disk from here on.
Flush ==
    /\ answers' = [c \in Changes |-> IF answers[c] = "unflushed" /\ c \in contents
                                    THEN "returned"
                                    ELSE answers[c]]
    /\ UNCHANGED contents

\* Calls in progress are cut, and what is left of the file is on disk.
PowerLoss ==
    /\ contents' \in SUBSET contents
    /\ \A c \in contents \ contents' : answers[c] # "returned"
    /\ answers' = [c \in Changes |->
                     IF answers[c] = "awaited" THEN "cut"
                     ELSE IF answers[c] = "unflushed" /\ c \in contents' THEN "returned"
                     ELSE answers[c]]

Next ==
    \/ \E c \in Changes : Ask(c) \/ Make(c) \/ Return(c) \/ ReturnUnflushed(c)
                        \/ Throw(c) \/ Cut(c)
    \/ Flush
    \/ PowerLoss
=============================================================================
