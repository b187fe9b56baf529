---------------------------- MODULE MCAgentLive -----------------------------
(***************************************************************************)
(* The liveness of ToolBatch, RunEvents, UsageIndex, RunCheckpoint,        *)
(* CompactionScheduler, SessionSummary and RunnerLifecycle on small         *)
(* instances: `instance' says which one works, the others rest in their    *)
(* initial state.                                                          *)
(***************************************************************************)
EXTENDS Naturals

CONSTANTS None, m1

VARIABLES
    instance,
    \* ToolBatch
    round, todo, prepared, wave, shared, repeats, call, key, verdict, callResult, snap, ledger, leases,
    stuck, intents, settled, running, invocations, callsAborted, toolFaults,
    \* RunEvents
    q, stage, at, ok, control, shown, aborted, classified, deferred, known, handed, attempts,
    checkpoint, run, told, home, heard, sends, requests, faults,
    \* UsageIndex
    stored, write, marked, changed, locked, corrupt, mem, disk, op, loop, cancelling, usageStatus,
    cursor, usageFaults, usageRequests,
    \* RunCheckpoint
    disp, execution, replied, answered, source, turn, read, watch, active, pass, listed, abandon,
    worked, turnCrashes, rebuilds, turnFaults, abandons,
    \* CompactionScheduler
    place, on, flight, soft, controllers, stopped, cancelled, status, outcome, seen, temp, history,
    shutdown, awaited,
    \* SessionSummary
    from, to, header, records, pending, failed, lock, attempt, rec, result, deleting,
    summaryFaults, summaryCrashes, deletes,
    \* RunnerLifecycle
    slot, served, keys, runner, current, lastBuilt, retired, activity, router, host, held, loading,
    queue, caller, asked, callerResult, notApplied, replaced, stream, saves, buildFaults

-----------------------------------------------------------------------------
\* Three identical calls without resources, two of them at once, and a write.
Calls == {"c1", "c2", "c3", "c4"}
Asks == [c \in Calls |-> IF c = "c4" THEN "write" ELSE "opaque"]
Accesses == [opaque |-> {}, write |-> {[path |-> <<"a">>, mode |-> "write"]}]
Tools == INSTANCE ToolBatch WITH
    Call <- Calls, Op <- {"opaque", "write"}, OpOf <- Asks, Access <- Accesses,
    Exclusive <- {}, ReadOnly <- {}, Shell <- {}, ReRunnable <- {"write"},
    Rounds <- << <<"c1", "c2">>, <<"c3", "c4">> >>,
    MaxParallel <- 2, MaxRepeat <- 2, Capacity <- 2,
    BatchFaultKind <- {"lease", "release", "timeout", "hang", "abort"}, MaxBatchFaults <- 1,
    Unset <- None,
    stage <- call, result <- callResult, history <- invocations, aborted <- callsAborted,
    batchFaults <- toolFaults

\* A run that may be answered without its tools, and whose EXECUTE a hook may
\* answer.
Events == INSTANCE RunEvents WITH
    Message <- {m1}, Other <- {}, Routes <- {"execute", "reply"}, Hooked <- {"execute"},
    MaxEvents <- 2, BatchSize <- 2, MaxDeferred <- 2, MaxAttempts <- 1, MaxSends <- 2,
    MaxRequests <- 1, MaxFaults <- 1, MaxRuns <- 1

\* Two runs of two events whose writers live in the service's process.
Usage == INSTANCE UsageIndex WITH
    MaxRun <- 2, MaxEvents <- 2, Budget <- 1, SameProcess <- TRUE, Trusted <- TRUE, History <- {},
    UsageFaultKind <- {"persist", "read", "crash"}, MaxUsageFaults <- 1, MaxUsageRequests <- 0,
    NoRun <- None, pending <- marked, service <- op, status <- usageStatus

\* Beside a refresh, a backfill or its cancellation: one event each.
Backfill == INSTANCE UsageIndex WITH
    MaxRun <- 2, MaxEvents <- 1, Budget <- 1, SameProcess <- TRUE, Trusted <- TRUE, History <- {},
    UsageFaultKind <- {"persist", "read", "crash"}, MaxUsageFaults <- 1, MaxUsageRequests <- 1,
    NoRun <- None, pending <- marked, service <- op, status <- usageStatus

\* Two answers to a waiting checkpoint.
Answers == INSTANCE RunCheckpoint WITH
    Turn <- {"t1", "t2"}, Route <- {}, Waiting <- TRUE,
    MaxCrashes <- 1, MaxRebuilds <- 0, MaxFaults <- 0, MaxAbandons <- 1,
    log <- execution, at <- turn, seen <- read, crashes <- turnCrashes, faults <- turnFaults

\* Two hard requests and a soft one of the same session.
Scheduler == INSTANCE CompactionScheduler WITH
    Request <- {"softA", "hardC", "hardD"}, Session <- {"s"},
    SessionOf <- [r \in {"softA", "hardC", "hardD"} |-> "s"], Hard <- {"hardC", "hardD"},
    SoftLimit <- 1, Cancellable <- {"hardC"},
    NoRequest <- None, observed <- seen, aborted <- stopped

\* Two attempts of two processes, one of which may crash.
Summary == INSTANCE SessionSummary WITH
    Process <- {"p", "q"}, Op <- {"a", "b"},
    ProcessOf <- [o \in {"a", "b"} |-> IF o = "b" THEN "q" ELSE "p"],
    KeepRecent <- 1, MaxMessages <- 3, Legacy <- {}, SummaryFaultKind <- {},
    MaxSummaryFaults <- 0, MaxSummaryCrashes <- 1, MaxDeletes <- 0, Nil <- None,
    op <- attempt

\* Two saves, a build that may fail, and a runner kept up by a run.
Saves == INSTANCE RunnerLifecycle WITH
    Caller <- {"boot", "save"}, Content <- {"one", "two"}, Stream <- {"s"},
    MaxRetired <- 1, MaxRunners <- 5, MaxSaves <- 2, MaxKeys <- 0, MaxBuildFaults <- 1,
    key <- keys, tools <- held, held <- replaced, place <- caller, result <- callerResult,
    builds <- queue, Nothing <- None

-----------------------------------------------------------------------------
toolVars ==
    <<round, todo, prepared, wave, shared, repeats, call, key, verdict, callResult, snap, ledger, leases,
      stuck, intents, settled, running, invocations, callsAborted, toolFaults>>
eventVars ==
    <<q, stage, at, ok, control, shown, aborted, classified, deferred, known, handed, attempts,
      checkpoint, run, told, home, heard, sends, requests, faults>>
usageVars ==
    <<stored, write, marked, changed, locked, corrupt, mem, disk, op, loop, cancelling, usageStatus,
      cursor, usageFaults, usageRequests>>
turnVars ==
    <<disp, execution, replied, answered, source, turn, read, watch, active, pass, listed, abandon,
      worked, turnCrashes, rebuilds, turnFaults, abandons>>
schedulerVars ==
    <<place, on, flight, soft, controllers, stopped, cancelled, status, outcome, seen, temp, history,
      shutdown, awaited>>
summaryVars ==
    <<from, to, header, records, pending, failed, lock, attempt, rec, result, deleting,
      summaryFaults, summaryCrashes, deletes>>
runnerVars ==
    <<slot, served, keys, runner, current, lastBuilt, retired, activity, router, host, held, loading,
      queue, caller, asked, callerResult, notApplied, replaced, stream, saves, buildFaults>>
vars ==
    <<instance, toolVars, eventVars, usageVars, turnVars, schedulerVars, summaryVars, runnerVars>>

Init ==
    /\ instance \in {"tools", "events", "usage", "backfill", "turns", "scheduler", "summary", "runners"}
    /\ Tools!ToolInit /\ Events!Init /\ Usage!UsageInit /\ Answers!CheckpointInit /\ Scheduler!SchedulerInit
    /\ Summary!SummaryInit /\ (instance # "summary" => to = 0)
    /\ Saves!LifecycleInit /\ (instance # "runners" => slot.content = "one")

InTools ==
    /\ instance = "tools"
    /\ UNCHANGED <<instance, eventVars, usageVars, turnVars, schedulerVars, summaryVars, runnerVars>>
InEvents ==
    /\ instance = "events"
    /\ UNCHANGED <<instance, toolVars, usageVars, turnVars, schedulerVars, summaryVars, runnerVars>>

Next ==
    \/ InTools /\ Tools!BatchNext
    \/ InEvents /\ Events!Next
    \/ /\ \/ instance = "usage" /\ Usage!UsageNext
          \/ instance = "backfill" /\ Backfill!UsageNext
       /\ UNCHANGED <<instance, toolVars, eventVars, turnVars, schedulerVars, summaryVars, runnerVars>>
    \/ /\ instance = "turns" /\ Answers!CheckpointNext
       /\ UNCHANGED <<instance, toolVars, eventVars, usageVars, schedulerVars, summaryVars, runnerVars>>
    \/ /\ instance = "scheduler" /\ Scheduler!SchedulerNext
       /\ UNCHANGED <<instance, toolVars, eventVars, usageVars, turnVars, summaryVars, runnerVars>>
    \/ /\ instance = "summary" /\ Summary!SummaryNext
       /\ UNCHANGED <<instance, toolVars, eventVars, usageVars, turnVars, schedulerVars, runnerVars>>
    \/ /\ instance = "runners" /\ Saves!LifecycleNext
       /\ UNCHANGED <<instance, toolVars, eventVars, usageVars, turnVars, schedulerVars, summaryVars>>

\* The fairness of ToolBatch and RunEvents, which could act in their initial
\* states, where they work; the others rest without anything fair enabled.
BatchFairness ==
    /\ WF_vars(InTools /\ Tools!NextRound)
    /\ WF_vars(InTools /\ (Tools!Admit \/ Tools!Schedule \/ Tools!EndWave))
    /\ \A c \in Calls :
        /\ WF_vars(InTools /\ Tools!CallStep(c))
        /\ WF_vars(InTools /\ (Tools!CutShort(c) \/ \E v \in Tools!Status : Tools!Return(c, v)))

Spec ==
    /\ Init /\ [][Next]_vars
    /\ BatchFairness /\ WF_vars(InEvents /\ Events!Work)
    /\ Usage!UsageFairness /\ Answers!CheckpointFairness /\ Scheduler!SchedulerFairness
    /\ Summary!SummaryFairness /\ Saves!LifecycleFairness

-----------------------------------------------------------------------------
\* ToolBatch: every batch is answered.  RunEvents: a run ends.  SessionSummary and
\* CompactionScheduler: every attempt ends, every request is answered.
\* RunnerLifecycle: every save is answered.
WorkEnds ==
    /\ <>[](instance = "tools" => Tools!BatchAnswered)
    /\ []<>(instance = "events" => at = "off")
    /\ Summary!AttemptsEnd /\ Scheduler!RequestsAreAnswered
    /\ Saves!SavesReturn

\* UsageIndex: every stored event is counted.  RunCheckpoint: a claim is decided.
RecordsAreSettled == Usage!EventsAreCounted /\ Answers!ResumeIsDecided
=============================================================================
