----------------------------- MODULE MCSessions -----------------------------
(***************************************************************************)
(* Small instances of RunCheckpoint, CompactionScheduler and               *)
(* SessionSummary side by side: `instance' says which one works, the       *)
(* others rest in their initial state.                                     *)
(***************************************************************************)
EXTENDS RunCheckpoint, CompactionScheduler, SessionSummary

VARIABLE instance

-----------------------------------------------------------------------------
(* The checkpoint: two turns.  The constants of the configuration are      *)
(* those of an interrupted run, resumed through the resume route; here the *)
(* answers to a waiting checkpoint, through the chat.                      *)
Answers == INSTANCE RunCheckpoint WITH
    Route <- {}, Waiting <- TRUE, MaxCrashes <- 1, MaxRebuilds <- 1, MaxFaults <- 1, MaxAbandons <- 1

-----------------------------------------------------------------------------
(* The scheduler.  The configuration: four requests, of which two may be   *)
(* cancelled, at most one soft operation at once.  Three of them come.     *)
AsksIn == [r \in {"softA", "softB", "hardC", "hardD"} |-> IF r = "softB" THEN "t" ELSE "s"]

\* Two soft ones of two sessions and a hard one.
TwoSessions == SchedulerNext /\ place'["hardD"] = "new"

\* Hard ones behind a soft one of their session and behind one another.
OneSession == SchedulerNext /\ place'["softB"] = "new"

-----------------------------------------------------------------------------
(* The summaries: attempts of two processes, the newest message is kept.   *)
(* The configuration: two of three attempts begin, four messages, and two  *)
(* crashes.                                                                *)
WorksIn == [o \in {"a", "b", "c"} |-> IF o = "b" THEN "q" ELSE "p"]
Two == op'["c"].at = "idle"

\* Three attempts, one message less, no crash.
Three == INSTANCE SessionSummary WITH MaxMessages <- 3, MaxSummaryCrashes <- 0

\* An older build left a proposal; a fault and a crash.
Older == INSTANCE SessionSummary WITH
    MaxMessages <- 3, Legacy <- {"active", "stale"},
    SummaryFaultKind <- {"journal", "write", "recover", "abort"},
    MaxSummaryFaults <- 1, MaxSummaryCrashes <- 1

\* The session is deleted; a fault.
Deleted == INSTANCE SessionSummary WITH
    MaxMessages <- 3, SummaryFaultKind <- {"journal", "write", "recover", "abort"},
    MaxSummaryFaults <- 1, MaxSummaryCrashes <- 0, MaxDeletes <- 1

-----------------------------------------------------------------------------
vars == <<instance, checkpointVars, schedulerVars, summaryVars>>

SummaryRests == to = 0 /\ SummaryInit
Init ==
    \/ instance = "resumes" /\ CheckpointInit /\ SchedulerInit /\ SummaryRests
    \/ instance = "answers" /\ Answers!CheckpointInit /\ SchedulerInit /\ SummaryRests
    \/ /\ CheckpointInit /\ SchedulerInit
       /\ \/ instance \in {"two sessions", "one session"} /\ SummaryRests
          \/ instance = "crashing" /\ SummaryInit
          \/ instance = "three" /\ Three!SummaryInit
          \/ instance = "older" /\ Older!SummaryInit
          \/ instance = "deleted" /\ Deleted!SummaryInit

CheckpointsNext ==
    \/ instance = "resumes" /\ CheckpointNext
    \/ instance = "answers" /\ Answers!CheckpointNext
RequestsNext ==
    \/ instance = "two sessions" /\ TwoSessions
    \/ instance = "one session" /\ OneSession
SummariesNext ==
    \/ instance = "crashing" /\ SummaryNext /\ Two
    \/ instance = "three" /\ Three!SummaryNext
    \/ instance = "older" /\ Older!SummaryNext /\ Two
    \/ instance = "deleted" /\ Deleted!SummaryNext /\ Two

Next ==
    /\ UNCHANGED instance
    /\ \/ CheckpointsNext /\ UNCHANGED <<schedulerVars, summaryVars>>
       \/ RequestsNext /\ UNCHANGED <<checkpointVars, summaryVars>>
       \/ SummariesNext /\ UNCHANGED <<checkpointVars, schedulerVars>>

Spec == Init /\ [][Next]_vars

ASSUME Answers!CheckpointAssumption
ASSUME Three!SummaryAssumption /\ Older!SummaryAssumption /\ Deleted!SummaryAssumption
ASSUME Three!SummaryBounds /\ Older!SummaryBounds /\ Deleted!SummaryBounds
=============================================================================
