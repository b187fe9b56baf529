------------------------------ MODULE FileLock ------------------------------
(***************************************************************************)
(* The lock file of packages/session: exclusive create, confirmation by    *)
(* reading back, theft of a file whose owner is dead or never wrote it,    *)
(* and a release that removes the file only while it is the caller's own.  *)
(*                                                                         *)
(* A caller is one acquireLock or tryAcquireLock of some process: the pid  *)
(* and the token of the file's content together are the caller.  Each step *)
(* is one file operation; the other callers act between any two.           *)
(*                                                                         *)
(* Time: a file is old when its last write is longer ago than the creation *)
(* grace.  The steps of one attempt take less than the grace altogether,   *)
(* so an empty file does not grow old while its creator is about to write  *)
(* it, nor a written one under a caller that has just read it empty.       *)
(***************************************************************************)
EXTENDS Naturals, FiniteSets

CONSTANTS
    LockCaller,     \* acquisitions that may run at the same time
    TryCaller,      \* those made by tryAcquireLock: they wait for nothing
    LockFaultKind,  \* which faults happen: "die", "write", "read", "unlink"
    MaxLockFaults,  \* bound on the faults
    MaxLockCalls,   \* bound on the calls of one caller
    NoCaller

ASSUME CallerAssumption == TryCaller \subseteq LockCaller /\ NoCaller \notin LockCaller
ASSUME BoundAssumption == MaxLockFaults \in Nat /\ MaxLockCalls \in Nat

VARIABLES
    lockFile,   \* the file at the lock's path
    phase,      \* phase[c]: the next file operation of caller c
    late,       \* callers whose deadline has passed
    lockCalls,  \* lockCalls[c]: how often c was called
    lockFaults  \* faults so far

lockVars == <<lockFile, phase, late, lockCalls, lockFaults>>

-----------------------------------------------------------------------------
(* by is the creator; written says whether the content names it already.   *)

LockPhase ==
    {"idle", "create", "write", "confirm", "inspect", "stat", "steal", "poll",
     "held", "check", "remove", "dead"}
NoFile == [by |-> NoCaller, written |-> FALSE, old |-> FALSE]
LockFile == {NoFile} \cup [by : LockCaller, written : BOOLEAN, old : BOOLEAN]
NewFile(c) == [by |-> c, written |-> FALSE, old |-> FALSE]

Exists == lockFile.by # NoCaller
Names(c) == lockFile.by = c /\ lockFile.written

Advance(c, p) == phase' = [phase EXCEPT ![c] = p]
LockFault(kind) == kind \in LockFaultKind /\ lockFaults < MaxLockFaults /\ lockFaults' = lockFaults + 1

FileLockInit ==
    /\ lockFile = NoFile
    /\ phase = [c \in LockCaller |-> "idle"]
    /\ late = TryCaller
    /\ lockCalls = [c \in LockCaller |-> 0]
    /\ lockFaults = 0

-----------------------------------------------------------------------------
(* acquireLock and tryAcquireLock                                          *)

Acquire(c) ==
    /\ phase[c] = "idle" /\ lockCalls[c] < MaxLockCalls
    /\ lockCalls' = [lockCalls EXCEPT ![c] = @ + 1]
    /\ late' = IF c \in TryCaller THEN late ELSE late \ {c}
    /\ Advance(c, "create")
    /\ UNCHANGED <<lockFile, lockFaults>>

\* open(path, 'wx')
Create(c) ==
    /\ phase[c] = "create"
    /\ IF Exists THEN Advance(c, "inspect") /\ UNCHANGED lockFile
                 ELSE Advance(c, "write") /\ lockFile' = NewFile(c)
    /\ UNCHANGED <<late, lockCalls, lockFaults>>

\* The content goes to the file that was opened, at its path or unlinked.
WriteOwner(c) ==
    /\ phase[c] = "write"
    /\ lockFile' = IF lockFile.by = c THEN [lockFile EXCEPT !.written = TRUE, !.old = FALSE] ELSE lockFile
    /\ Advance(c, "confirm")
    /\ UNCHANGED <<late, lockCalls, lockFaults>>

\* The write throws: the caller fails and leaves the empty file behind.
WriteFails(c) ==
    /\ phase[c] = "write" /\ LockFault("write")
    /\ Advance(c, "idle")
    /\ UNCHANGED <<lockFile, late, lockCalls>>

\* confirmOwnLock: a file that names another caller, or no file, is a lost race.
Confirm(c) ==
    /\ phase[c] = "confirm"
    /\ Advance(c, IF Names(c) THEN "held" ELSE "poll")
    /\ UNCHANGED <<lockFile, late, lockCalls, lockFaults>>

\* The read-back fails although the file is the caller's own.
ConfirmUnreadable(c) ==
    /\ phase[c] = "confirm" /\ LockFault("read")
    /\ Advance(c, "poll")
    /\ UNCHANGED <<lockFile, late, lockCalls>>

Inspect_AnyOwner(c) ==
    /\ phase[c] = "inspect"
    /\ Advance(c, IF ~Exists \/ ~lockFile.written THEN "stat" ELSE "steal")
    /\ UNCHANGED <<lockFile, late, lockCalls, lockFaults>>

\* tryStealStaleLock: without content, or unreadable, the file's age decides.
Inspect(c) ==
    /\ phase[c] = "inspect"
    /\ Advance(c, IF ~Exists \/ ~lockFile.written THEN "stat"
               ELSE IF phase[lockFile.by] = "dead" THEN "steal" ELSE "poll")
    /\ UNCHANGED <<lockFile, late, lockCalls, lockFaults>>

Stat_NoGrace(c) ==
    /\ phase[c] = "stat"
    /\ Advance(c, IF Exists THEN "steal" ELSE "create")
    /\ UNCHANGED <<lockFile, late, lockCalls, lockFaults>>

\* stealOnlyIfAbandoned: whatever file is at the path now, if it is old.
Stat(c) ==
    /\ phase[c] = "stat"
    /\ Advance(c, IF ~Exists THEN "create" ELSE IF lockFile.old THEN "steal" ELSE "poll")
    /\ UNCHANGED <<lockFile, late, lockCalls, lockFaults>>

\* unlink removes whatever is at the path by now; the attempt is repeated at
\* once, without a look at the deadline.
Steal(c) ==
    /\ phase[c] = "steal"
    /\ lockFile' = NoFile
    /\ Advance(c, "create")
    /\ UNCHANGED <<late, lockCalls, lockFaults>>

\* unlink fails, the error is swallowed and the theft counts as done.  Nothing
\* ends this condition (a directory one may not write), so it is not counted.
StealFails(c) ==
    /\ phase[c] = "steal" /\ "unlink" \in LockFaultKind
    /\ Advance(c, "create")
    /\ UNCHANGED <<lockFile, late, lockCalls, lockFaults>>

Poll_Forever(c) ==
    /\ phase[c] = "poll"
    /\ Advance(c, "create")
    /\ UNCHANGED <<lockFile, late, lockCalls, lockFaults>>

\* Another attempt, or the deadline has passed.
Poll(c) ==
    /\ phase[c] = "poll"
    /\ Advance(c, IF c \in late THEN "idle" ELSE "create")
    /\ UNCHANGED <<lockFile, late, lockCalls, lockFaults>>

-----------------------------------------------------------------------------
(* release                                                                 *)

Release(c) ==
    /\ phase[c] = "held"
    /\ Advance(c, "check")
    /\ UNCHANGED <<lockFile, late, lockCalls, lockFaults>>

\* A file that does not name the caller stays, an empty one too; a file that
\* cannot be read is removed.
CheckOwn(c) ==
    /\ phase[c] = "check"
    /\ Advance(c, IF Exists /\ ~Names(c) THEN "idle" ELSE "remove")
    /\ UNCHANGED <<lockFile, late, lockCalls, lockFaults>>

RemoveLock(c) ==
    /\ phase[c] = "remove"
    /\ lockFile' = NoFile
    /\ Advance(c, "idle")
    /\ UNCHANGED <<late, lockCalls, lockFaults>>

-----------------------------------------------------------------------------
(* The environment                                                         *)

\* The caller's process dies at any point and stays dead.
Die(c) ==
    /\ phase[c] # "dead" /\ LockFault("die")
    /\ Advance(c, "dead")
    /\ UNCHANGED <<lockFile, late, lockCalls>>

Expire(c) ==
    /\ phase[c] \notin {"idle", "dead"} /\ c \notin late
    /\ late' = late \cup {c}
    /\ UNCHANGED <<lockFile, phase, lockCalls, lockFaults>>

GrowOld ==
    /\ Exists /\ ~lockFile.old
    /\ IF lockFile.written THEN \A c \in LockCaller : phase[c] # "stat"
                       ELSE phase[lockFile.by] # "write"
    /\ lockFile' = [lockFile EXCEPT !.old = TRUE]
    /\ UNCHANGED <<phase, late, lockCalls, lockFaults>>

AttemptStep(c) ==
    \/ Create(c) \/ WriteOwner(c) \/ Confirm(c) \/ Inspect(c) \/ Stat(c)
    \/ Steal(c) \/ StealFails(c) \/ Poll(c)

Leave(c) == Release(c) \/ CheckOwn(c) \/ RemoveLock(c)

FileLockNext ==
    \/ GrowOld
    \/ \E c \in LockCaller :
          \/ Acquire(c) \/ AttemptStep(c) \/ Leave(c)
          \/ WriteFails(c) \/ ConfirmUnreadable(c) \/ Die(c) \/ Expire(c)

FileLockSpec == FileLockInit /\ [][FileLockNext]_lockVars

\* An attempt is a chain of awaited file operations and timers; a caller that
\* holds the lock releases it in a finally block; time passes.
FileLockFairness ==
    /\ WF_lockVars(GrowOld)
    /\ \A c \in LockCaller : WF_lockVars(AttemptStep(c)) /\ WF_lockVars(Leave(c))

-----------------------------------------------------------------------------
(* Properties                                                              *)

\* The file belongs to a caller or is absent, and the calls and faults keep to
\* their bounds.
FileLockTypeOK ==
    /\ lockFile \in LockFile
    /\ phase \in [LockCaller -> LockPhase]
    /\ late \subseteq LockCaller
    /\ lockCalls \in [LockCaller -> 0..MaxLockCalls]
    /\ lockFaults \in 0..MaxLockFaults

\* Callers between a confirmed acquisition and the end of their release.
Holders == {c \in LockCaller : phase[c] \in {"held", "check", "remove"}}

Abs == INSTANCE Mutex WITH Caller <- LockCaller, inside <- Holders

\* While no file was abandoned (by a dead owner, a failed write or a failed
\* read-back), creation, theft and release together are a mutual exclusion:
\* the lock implements Mutex (acquireLock, release).
MutexSpec == Abs!Spec

\* The same as a state predicate over runs with faults: two holders at once
\* need a file that was abandoned before.
ExclusiveUntilAbandoned == lockFaults = 0 => Cardinality(Holders) <= 1

\* Both: the file and the callers are what they can be, and an abandoned file is
\* the only thing that lets two callers hold the lock.
OneHolder == FileLockTypeOK /\ ExclusiveUntilAbandoned

\* The promise of the read-back after the creation, faults or not: "without
\* this read-back both processes would believe they hold the lock".
MutualExclusion == Cardinality(Holders) <= 1

Abandoned(c) == phase[c] = "dead" \/ (phase[c] = "idle" /\ ~lockFile.written)

\* A file nobody will release (its owner died, or could not write it) does not
\* stay while callers wait for it: one that still has time removes it, whoever
\* died and at whichever step, a thief included (tryStealStaleLock,
\* stealOnlyIfAbandoned).
Waiting(c) == phase[c] \in {"create", "inspect", "stat", "steal", "poll"} /\ c \notin late
AbandonedIsReclaimed ==
    \A c, d \in LockCaller : []<>~(lockFile.by = c /\ Abandoned(c) /\ Waiting(d))

\* "Polls every 100ms up to timeoutMs. Throws on timeout.": an acquisition whose
\* deadline has passed ends.
AcquireReturns ==
    \A c \in LockCaller : []<>(c \in late => phase[c] \in {"held", "idle", "dead"})
=============================================================================
