--------------------------- MODULE MCDurableLive ----------------------------
(***************************************************************************)
(* The liveness of DurableAppend, DurableRun, FileLock, RunLease and       *)
(* DurableInbox on small instances, and FileLock without faults as a       *)
(* mutual exclusion: `instance' says which one works, the others rest in   *)
(* their initial state.                                                    *)
(***************************************************************************)
EXTENDS FileLock

CONSTANTS None

VARIABLES
    instance,
    stored, storedRefused, log, claimed, append,
    run, refused, live, ran, transcript, registry, lease, effectLease, recovery,
    runFaults, runCrashes,
    faultyFile, lockPhase, lockLate, faultyCalls, faultyFaults,
    proc, stream, safe, runLease, work, pass, timer, grants, passed, leaseFaults, leaseCrashes,
    inbox, inboxStream, lock, batch, cache, deferred, op, claims, expired, acked,
    inboxCalls, inboxCrashes, inboxFaults

-----------------------------------------------------------------------------
Plain(type) == [key |-> type, event |-> [type |-> type]]
OutcomeInput(o) == [key |-> "outcome", event |-> [type |-> "task_outcome_settled", outcome |-> o]]

\* Two kernels, a stream of two events: conflicts, duplicates, a full stream.
Appends == INSTANCE DurableAppend WITH
    Req <- {"q1"}, Effect <- {}, Worker <- {}, Reply <- {"r1"}, Outcome <- {"o1", "o2"},
    Epoch <- {}, Attempt <- {}, Appender <- {"k1", "k2"}, MaxAttempts <- 2, MaxEvents <- 2,
    Input <- {Plain("run_accepted"), OutcomeInput("o1"), OutcomeInput("o2"),
              [key |-> "proposed", event |-> [type |-> "final_reply_proposed", reply |-> "r1"]]},
    run <- stored, refused <- storedRefused, op <- append

\* One run, which crashes once or twice, with one request and one effect.
OneRun == INSTANCE DurableRun WITH
    Req <- {"q1"}, Effect <- {"x1"}, Worker <- {}, Reply <- {"r1"}, Outcome <- {"o1", "o2"},
    Epoch <- {}, Attempt <- {}, UnknownOutcome <- "o2", MaxFaults <- 0, MaxCrashes <- 2,
    pass <- recovery, faults <- runFaults, crashes <- runCrashes

\* Two callers that wait and one that tries; two faults.  (The constants of the
\* configuration are those of the lock without faults.)
Lock == INSTANCE FileLock WITH
    LockCaller <- {"c1", "c2", "c3"}, TryCaller <- {"c3"}, LockFaultKind <- {"die", "write", "read"},
    MaxLockFaults <- 2, MaxLockCalls <- 1,
    lockFile <- faultyFile, phase <- lockPhase, late <- lockLate, lockCalls <- faultyCalls,
    lockFaults <- faultyFaults

\* Two processes, one of which dies.
Lease == INSTANCE RunLease WITH
    Process <- {"p", "q"}, Run <- {"r"}, FaultKind <- {}, MaxGrants <- 3, LastRenewal <- 1,
    MaxFaults <- 0, MaxCrashes <- 1,
    lease <- runLease, faults <- leaseFaults, crashes <- leaseCrashes

\* Two callers of one process, which may crash.
Inbox == INSTANCE DurableInbox WITH
    Process <- {"p"}, Caller <- {"a", "b"}, proc <- [c \in {"a", "b"} |-> "p"],
    Command <- {"i"}, Illegal <- {}, MaxClaims <- 3, MaxCalls <- 1, MaxCrashes <- 1, MaxFaults <- 0,
    file <- inbox, stream <- inboxStream, calls <- inboxCalls, crashes <- inboxCrashes,
    faults <- inboxFaults

-----------------------------------------------------------------------------
appendVars == <<stored, storedRefused, log, claimed, append>>
runVars ==
    <<run, refused, live, ran, transcript, registry, lease, effectLease, recovery,
      runFaults, runCrashes>>
faultyVars == <<faultyFile, lockPhase, lockLate, faultyCalls, faultyFaults>>
leaseVars ==
    <<proc, stream, safe, runLease, work, pass, timer, grants, passed, leaseFaults, leaseCrashes>>
inboxVars ==
    <<inbox, inboxStream, lock, batch, cache, deferred, op, claims, expired, acked,
      inboxCalls, inboxCrashes, inboxFaults>>
liveVars == <<instance, appendVars, runVars, faultyVars, leaseVars, inboxVars, lockVars>>

Init ==
    /\ instance \in {"append", "run", "lock", "lease", "inbox", "mutex"}
    /\ Appends!AppendInit /\ OneRun!RunInit /\ Lock!FileLockInit /\ Lease!LeaseInit /\ Inbox!InboxInit
    /\ FileLockInit

InRun == instance = "run" /\ UNCHANGED <<instance, appendVars, faultyVars, leaseVars, inboxVars, lockVars>>

Next ==
    \/ /\ instance = "append" /\ Appends!AppendNext
       /\ UNCHANGED <<instance, runVars, faultyVars, leaseVars, inboxVars, lockVars>>
    \/ InRun /\ OneRun!RunNext
    \/ /\ instance = "lock" /\ Lock!FileLockNext
       /\ UNCHANGED <<instance, appendVars, runVars, leaseVars, inboxVars, lockVars>>
    \/ /\ instance = "lease" /\ Lease!LeaseNext
       /\ UNCHANGED <<instance, appendVars, runVars, faultyVars, inboxVars, lockVars>>
    \/ /\ instance = "inbox" /\ Inbox!InboxNext
       /\ UNCHANGED <<instance, appendVars, runVars, faultyVars, leaseVars, lockVars>>
    \/ /\ instance = "mutex" /\ FileLockNext
       /\ UNCHANGED <<instance, appendVars, runVars, faultyVars, leaseVars, inboxVars>>

\* Nothing fair is enabled in a component that rests, a run excepted: its
\* fairness (DurableRun!RunFairness) is stated for where it works.
RunFairness ==
    /\ WF_liveVars(InRun /\ OneRun!LiveStep)
    /\ WF_liveVars(InRun /\ (OneRun!Expire \/ OneRun!ExpireEffect("x1")))
    /\ WF_liveVars(InRun /\ OneRun!QueueTask) /\ WF_liveVars(InRun /\ OneRun!EventsTask)
    /\ WF_liveVars(InRun /\ OneRun!PassStep("retry"))

Spec ==
    /\ Init /\ [][Next]_liveVars
    /\ Appends!AppendFairness /\ RunFairness /\ Lock!FileLockFairness
    /\ Lease!LeaseFairness /\ Inbox!InboxFairness

-----------------------------------------------------------------------------
\* DurableAppend, FileLock, DurableInbox: every append, acquisition and call returns.
CallsReturn == Appends!AppendReturns /\ Lock!AcquireReturns /\ Inbox!CallReturns

\* What the dead leave is taken up.  DurableRun: a run whose process died is
\* closed or given up for an effect that is still leased, and one with a settled
\* reply completes.  FileLock: an abandoned file is
\* reclaimed.  RunLease: an orphaned run that was listed, or for which a wake-up is
\* armed, is recovered or given up (by one of two processes that are alike).
DeadWorkIsTakenUp ==
    /\ OneRun!DeadRunIsClosed /\ OneRun!SettledReplyCompletes
    /\ Lock!AbandonedIsReclaimed
    /\ Lease!ListedOrphanIsRecovered("p", "r")
=============================================================================
