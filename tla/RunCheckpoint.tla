--------------------------- MODULE RunCheckpoint ---------------------------
(***************************************************************************)
(* Who resumes a checkpoint: the disposition record beside an immutable    *)
(* run checkpoint, the turns that claim it, the user who abandons it, and  *)
(* the recovery pass of a starting application that releases what a dead   *)
(* one left resuming.                                                      *)
(*                                                                         *)
(* One checkpoint and one application process at a time.  A turn carries a *)
(* request key, which fixes its run id: a turn sent again after a crash is *)
(* the same run.  Every store operation is one step, made under the file   *)
(* lock of the store (FileLock); reads take no lock.                       *)
(***************************************************************************)
EXTENDS Naturals

CONSTANTS
    Turn,
    Route,          \* the turns sent through the resume route; the others are chat
    Waiting,        \* the checkpoint waits for the user's answer
    MaxCrashes, MaxRebuilds, MaxFaults, MaxAbandons,
    None

CheckpointAssumption ==
    /\ Route \subseteq Turn /\ None \notin Turn /\ Waiting \in BOOLEAN
    /\ {MaxCrashes, MaxRebuilds, MaxFaults, MaxAbandons} \subseteq Nat
ASSUME CheckpointConstants == CheckpointAssumption

VARIABLES
    disp,       \* the disposition record
    log,        \* log[t]: the execution log of the run of t
    replied,    \* turns whose final reply is durable in the session
    answered,   \* turns whose answer to the clarification is persisted in the session
    source,     \* the run that wrote the checkpoint
    at,         \* at[t]: where the request of t is
    seen,       \* seen[t]: the status it read before it decided
    watch,      \* watch[t]: the run whose log it waits for
    active,     \* the runs in the active streams of the published router
    pass,       \* the recovery pass of that router
    listed,     \* the run whose lease the pass found
    abandon,    \* the abandon request
    worked,     \* history: turns that worked from the checkpoint
    crashes, rebuilds, faults, abandons

store == <<disp, log, replied, answered>>
process == <<active, pass, listed, abandon>>
turns == <<at, seen, watch, worked>>
bounds == <<crashes, rebuilds, faults, abandons>>
checkpointVars == <<store, source, turns, process, bounds>>

-----------------------------------------------------------------------------
Status ==
    {"none", "resuming", "interrupted", "resumed", "completed", "abandoned", "deferred"}
Sealed == {"resuming", "resumed", "completed", "abandoned"}    \* not resumable
Phase ==
    {"idle", "wait", "admit", "turn", "resolve", "prior", "cancel", "defer", "apart",
     "inspect", "claim", "claimed", "work", "replied", "logged", "throw", "watch", "done"}
PassPhase == {"off", "list", "check", "release", "logs", "reconcile", "source", "settled"}

\* The identity of a claim: only the answer to a clarification carries one.
Key(t) == IF Waiting THEN t ELSE None
Record(status, t) == [status |-> status, run |-> t, key |-> Key(t)]
Become(status) == disp' = [disp EXCEPT !.status = status]
HeldBy(t) == disp.status = "resuming" /\ disp.run = t
OwnClaim(t) == Waiting /\ disp.key = t

CheckpointInit ==
    /\ disp = [status |-> "none", run |-> None, key |-> None]
    /\ log = [t \in Turn |-> "none"] /\ replied = {} /\ answered = {}
    /\ source = IF Waiting THEN "dead" ELSE "working"
    /\ at = [t \in Turn |-> "idle"]
    /\ seen = [t \in Turn |-> "none"] /\ watch = [t \in Turn |-> None]
    /\ active = {} /\ pass = "settled" /\ listed = None /\ abandon = "idle"
    /\ worked = {}
    /\ crashes = 0 /\ rebuilds = 0 /\ faults = 0 /\ abandons = 0

Up == pass # "off"
Goto(t, phase) == Up /\ at' = [at EXCEPT ![t] = phase]
Leave(t) == Goto(t, "done") /\ active' = active \ {t}
Pass(from, to) == pass = from /\ pass' = to
Stay == UNCHANGED <<source, seen, watch, worked, pass, listed, abandon, bounds>>

-----------------------------------------------------------------------------
(* A turn arrives. *)

\* A chat turn names its session and waits for the recovery pass; the stream
\* is registered in the same step as the wait ends.
SendChat(t) ==
    /\ at[t] = "idle" /\ t \notin Route
    /\ Goto(t, "wait") /\ Stay /\ UNCHANGED <<store, active>>

Waited(t) ==
    /\ at[t] = "wait" /\ pass = "settled"
    /\ Goto(t, "turn") /\ active' = active \cup {t}
    /\ Stay /\ UNCHANGED store

\* The resume route waits without a session, which is no wait at all.  It
\* refuses what is not resumable, unless the same turn holds the claim.
Admitted(t) == disp.status \notin Sealed \/ (OwnClaim(t) /\ disp.run = t)
SendRoute(t) ==
    /\ at[t] = "idle" /\ t \in Route
    /\ Goto(t, IF Admitted(t) THEN "admit" ELSE "done")
    /\ Stay /\ UNCHANGED <<store, active>>

Register(t) ==
    /\ at[t] = "admit"
    /\ Goto(t, "turn") /\ active' = active \cup {t}
    /\ Stay /\ UNCHANGED store

\* A run that has a log, or a durable final reply, is replayed from it.
Replay(t) ==
    /\ at[t] = "turn" /\ (log[t] # "none" \/ t \in replied)
    /\ Leave(t)
    /\ log' = [log EXCEPT ![t] = IF @ = "none" THEN "ok" ELSE @]
    /\ disp' = IF log[t] = "none" /\ disp.run = t /\ disp.status \in {"resuming", "interrupted"}
               THEN [disp EXCEPT !.status = "resumed"] ELSE disp
    /\ Stay /\ UNCHANGED <<replied, answered>>

Execute(t) ==
    /\ at[t] = "turn" /\ log[t] = "none" /\ t \notin replied
    /\ Goto(t, IF t \in Route THEN "prior" ELSE "resolve")
    /\ Stay /\ UNCHANGED <<store, active>>

\* The waiting checkpoint of the session, if it has one, binds a chat turn.
Fail(t) == Leave(t) /\ log' = [log EXCEPT ![t] = IF @ = "none" THEN "error" ELSE @]
Watch(t, run) == Goto(t, "watch") /\ watch' = [watch EXCEPT ![t] = run]

Resolve(t) ==
    /\ at[t] = "resolve"
    /\ \/ Waiting /\ disp.status \in {"none", "interrupted"} /\ Goto(t, "prior")
          /\ Stay /\ UNCHANGED <<store, active>>
       \/ Waiting /\ HeldBy(t) /\ OwnClaim(t) /\ Watch(t, t)
          /\ UNCHANGED <<store, source, seen, worked, process, bounds>>
       \/ Waiting /\ disp.status = "resuming" /\ ~(HeldBy(t) /\ OwnClaim(t)) /\ Fail(t)
          /\ Stay /\ UNCHANGED <<disp, replied, answered>>
       \/ (~Waiting \/ disp.status \in (Sealed \ {"resuming"}) \cup {"deferred"}) /\ Goto(t, "apart")
          /\ Stay /\ UNCHANGED <<store, active>>

\* The record is read before the answer is interpreted.  The interpretation
\* of a chat answer may be to go on, to cancel or to start another task; an
\* explicit resume always goes on.  An answer that another task consumed is
\* refused; an interrupted claim of the same turn keeps its interpretation.
Prior(t) ==
    /\ at[t] = "prior"
    /\ seen' = [seen EXCEPT ![t] = disp.status]
    /\ \/ OwnClaim(t) /\ disp.status = "resuming" /\ Watch(t, disp.run) /\ UNCHANGED active
       \/ /\ t \in answered /\ ~(OwnClaim(t) /\ disp.status \in {"resuming", "interrupted"})
          /\ Leave(t) /\ UNCHANGED watch
       \/ /\ OwnClaim(t) /\ disp.status = "interrupted"
          /\ Goto(t, "inspect") /\ UNCHANGED <<active, watch>>
       \/ /\ t \notin answered /\ ~(OwnClaim(t) /\ disp.status \in {"resuming", "interrupted"})
          /\ \E next \in IF t \in Route THEN {"inspect"} ELSE {"inspect", "cancel", "defer"} :
                Goto(t, next)
          /\ UNCHANGED <<active, watch>>
    /\ UNCHANGED <<store, source, worked, pass, listed, abandon, bounds>>

-----------------------------------------------------------------------------
(* What the store decides. *)

Cancel(t) ==
    /\ at[t] = "cancel"
    /\ IF disp.status \in {"resumed", "completed"} \/ (disp.status = "abandoned" /\ ~OwnClaim(t))
       THEN Leave(t) /\ UNCHANGED disp
       ELSE /\ Goto(t, "apart") /\ UNCHANGED active
            /\ disp' = [disp EXCEPT !.status = "abandoned", !.key = Key(t)]
    /\ Stay /\ UNCHANGED <<log, replied, answered>>

Defer(t) ==
    /\ at[t] = "defer"
    /\ IF disp.status \in Sealed \/ (disp.status = "deferred" /\ ~OwnClaim(t))
       THEN Leave(t) /\ UNCHANGED disp
       ELSE /\ Goto(t, "apart") /\ UNCHANGED active
            /\ disp' = [disp EXCEPT !.status = "deferred", !.key = Key(t)]
    /\ Stay /\ UNCHANGED <<log, replied, answered>>

\* A run of its own that does not restore the checkpoint.
RunApart(t) ==
    /\ at[t] = "apart" /\ Leave(t)
    /\ log' = [log EXCEPT ![t] = "ok"] /\ answered' = answered \cup {t}
    /\ Stay /\ UNCHANGED <<disp, replied>>

\* The controller inspects before it claims.
Inspect(t) ==
    /\ at[t] = "inspect"
    /\ IF disp.status \notin Sealed \/ (disp.status = "resuming" /\ OwnClaim(t))
       THEN Goto(t, "claim") /\ UNCHANGED <<active, log>>
       ELSE Fail(t)
    /\ Stay /\ UNCHANGED <<disp, replied, answered>>

Joins(t) == disp.status = "resuming" /\ (~Waiting \/ disp.key = t)
Grants_Any(t) ==
    \/ disp.status \in {"none", "interrupted"}
    \/ disp.status = "deferred" /\ seen[t] = "deferred" /\ t \in Route
Grants(t) ==
    \/ disp.status = "none"
    \/ disp.status = "interrupted" /\ (disp.key = None \/ OwnClaim(t))
    \/ disp.status = "deferred" /\ seen[t] = "deferred" /\ t \in Route

Claim(t) ==
    /\ at[t] = "claim" /\ Grants(t)
    /\ disp' = [Record("resuming", t) EXCEPT !.key = IF Waiting THEN t ELSE disp.key]
    /\ Goto(t, "claimed") /\ worked' = worked \cup {t}
    /\ UNCHANGED <<log, replied, answered, source, seen, watch, process, bounds>>

Join(t) ==
    /\ at[t] = "claim" /\ Joins(t) /\ Watch(t, disp.run)
    /\ UNCHANGED <<store, source, seen, worked, process, bounds>>

ClaimConflict(t) ==
    /\ at[t] = "claim" /\ ~Grants(t) /\ ~Joins(t) /\ Fail(t)
    /\ Stay /\ UNCHANGED <<disp, replied, answered>>

-----------------------------------------------------------------------------
(* The run of a claim. *)

Start(t) ==
    /\ at[t] = "claimed" /\ Goto(t, "work")
    /\ answered' = IF Waiting THEN answered \cup {t} ELSE answered
    /\ Stay /\ UNCHANGED <<disp, log, replied, active>>

Reply(t) ==
    /\ at[t] = "work" /\ Goto(t, "replied")
    /\ replied' = replied \cup {t}
    /\ Stay /\ UNCHANGED <<disp, log, answered, active>>

WriteLog(t) ==
    /\ at[t] \in {"work", "replied"} /\ Goto(t, "logged")
    /\ log' = [log EXCEPT ![t] = IF at[t] = "replied" THEN "ok" ELSE "error"]
    /\ Stay /\ UNCHANGED <<disp, replied, answered, active>>

\* The run threw: no log, the lease is handed back.
Throw(t) ==
    /\ at[t] \in {"claimed", "work"} /\ Goto(t, "throw")
    /\ Stay /\ UNCHANGED <<store, active>>

CompleteResume(t) ==
    /\ at[t] = "logged" /\ Leave(t)
    /\ IF HeldBy(t) THEN Become("resumed") ELSE UNCHANGED disp
    /\ Stay /\ UNCHANGED <<log, replied, answered>>

\* The write of the completion failed: the handler of the failure hands the
\* lease back as if the run had failed.
CompletionFails(t) ==
    /\ at[t] = "logged" /\ faults < MaxFaults /\ faults' = faults + 1
    /\ Goto(t, "throw")
    /\ UNCHANGED <<store, source, seen, watch, worked, process, crashes, rebuilds, abandons>>

InterruptResume_Forgets(t) ==
    /\ at[t] = "throw" /\ Leave(t)
    /\ disp' = IF HeldBy(t) THEN [disp EXCEPT !.status = "interrupted", !.key = None] ELSE disp
    /\ Stay /\ UNCHANGED <<log, replied, answered>>
InterruptResume(t) ==
    /\ at[t] = "throw" /\ Leave(t)
    /\ IF HeldBy(t) THEN Become("interrupted") ELSE UNCHANGED disp
    /\ Stay /\ UNCHANGED <<log, replied, answered>>

\* A watcher returns what the run logged, or gives up at its deadline.
Watched(t) ==
    /\ at[t] = "watch" /\ Leave(t)
    /\ Stay /\ UNCHANGED store

-----------------------------------------------------------------------------
(* The run that wrote the checkpoint, the user and the application. *)

SourceLogs ==
    /\ Up /\ source = "working" /\ source' = "logged"
    /\ UNCHANGED <<store, turns, process, bounds>>

SealSource == IF disp.status \in {"none", "interrupted"} THEN Become("completed") ELSE UNCHANGED disp
SourceSeals ==
    /\ Up /\ source = "logged" /\ source' = "ok" /\ SealSource
    /\ UNCHANGED <<log, replied, answered, turns, process, bounds>>

\* The route reads the record and the active streams, then the body of the
\* request, then writes the decision.
AskAbandon ==
    /\ Up /\ abandon = "idle" /\ abandons < MaxAbandons /\ abandons' = abandons + 1
    /\ abandon' = IF disp.status = "resuming" /\ disp.run \in active THEN "idle" ELSE "checked"
    /\ UNCHANGED <<store, source, turns, active, pass, listed, crashes, rebuilds, faults>>

Abandon ==
    /\ Up /\ abandon = "checked" /\ abandon' = "idle"
    /\ IF disp.status \in {"resumed", "completed"} THEN UNCHANGED disp ELSE Become("abandoned")
    /\ UNCHANGED <<log, replied, answered, source, turns, active, pass, listed, bounds>>

PassStep(from, to) ==
    /\ Pass(from, to)
    /\ UNCHANGED <<log, replied, answered, source, turns, active, abandon, bounds>>

ListResuming_None == PassStep("list", "logs") /\ UNCHANGED <<disp, listed>>
ListResuming ==
    /\ PassStep("list", IF disp.status = "resuming" THEN "check" ELSE "logs")
    /\ listed' = (IF disp.status = "resuming" THEN disp.run ELSE None) /\ UNCHANGED disp

\* A run in the active streams is left alone.
CheckActive ==
    PassStep("check", IF listed \in active THEN "logs" ELSE "release") /\ UNCHANGED <<disp, listed>>

Release ==
    /\ PassStep("release", "logs") /\ UNCHANGED listed
    /\ IF HeldBy(listed) THEN Become("interrupted") ELSE UNCHANGED disp

\* A resume whose run has a successful log is sealed.
Finished(run) == run # None /\ log[run] = "ok"
ListIncomplete ==
    /\ PassStep("logs", IF disp.status \in {"resuming", "interrupted"} /\ Finished(disp.run)
                        THEN "reconcile" ELSE "source")
    /\ listed' = disp.run /\ UNCHANGED disp

Reconcile ==
    /\ PassStep("reconcile", "source") /\ UNCHANGED listed
    /\ IF disp.status \in {"resuming", "interrupted"} /\ disp.run = listed
       THEN Become("resumed") ELSE UNCHANGED disp

ReconcileSource ==
    /\ PassStep("source", "settled") /\ listed' = None
    /\ IF source \in {"logged", "ok"} /\ ~Waiting THEN SealSource ELSE UNCHANGED disp

\* A saved configuration builds another runner: its router starts with no
\* active streams and with a recovery pass of its own, the runs go on.
Rebuild ==
    /\ pass = "settled" /\ rebuilds < MaxRebuilds /\ rebuilds' = rebuilds + 1
    /\ active' = {} /\ pass' = "list"
    /\ UNCHANGED <<store, source, turns, listed, abandon, crashes, faults, abandons>>

Crash ==
    /\ Up /\ crashes < MaxCrashes /\ crashes' = crashes + 1
    /\ at' = [t \in Turn |-> "idle"] /\ active' = {} /\ pass' = "off" /\ abandon' = "idle"
    /\ source' = (IF source = "working" THEN "dead" ELSE source)
    /\ UNCHANGED <<store, seen, watch, worked, listed, rebuilds, faults, abandons>>

Boot == PassStep("off", "list") /\ UNCHANGED <<disp, listed>>

-----------------------------------------------------------------------------
TurnStep(t) ==
    \/ Waited(t) \/ Register(t) \/ Replay(t) \/ Execute(t) \/ Resolve(t) \/ Prior(t)
    \/ Cancel(t) \/ Defer(t) \/ RunApart(t)
    \/ Inspect(t) \/ Claim(t) \/ Join(t) \/ ClaimConflict(t)
    \/ Start(t) \/ Reply(t) \/ WriteLog(t) \/ Throw(t)
    \/ CompleteResume(t) \/ InterruptResume(t) \/ Watched(t)
Recovery ==
    \/ Boot \/ ListResuming \/ CheckActive \/ Release
    \/ ListIncomplete \/ Reconcile \/ ReconcileSource
Client == (\E t \in Turn : SendChat(t) \/ SendRoute(t)) \/ AskAbandon
Fault == Crash \/ Rebuild \/ \E t \in Turn : CompletionFails(t)

CheckpointNext ==
    \/ \E t \in Turn : TurnStep(t)
    \/ Recovery \/ Client \/ Abandon \/ SourceLogs \/ SourceSeals \/ Fault

CheckpointSpec == CheckpointInit /\ [][CheckpointNext]_checkpointVars

\* The event loop runs what is ready; users, faults and crashes owe nothing.
CheckpointFairness == WF_checkpointVars(Recovery) /\ \A t \in Turn : WF_checkpointVars(TurnStep(t))

-----------------------------------------------------------------------------
\* Every variable stays in its range.
CheckpointTypeOK ==
    /\ disp \in [status : Status, run : Turn \cup {None}, key : Turn \cup {None}]
    /\ log \in [Turn -> {"none", "ok", "error"}]
    /\ replied \subseteq Turn /\ answered \subseteq Turn /\ worked \subseteq Turn
    /\ source \in {"working", "logged", "ok", "dead"}
    /\ at \in [Turn -> Phase] /\ seen \in [Turn -> Status] /\ watch \in [Turn -> Turn \cup {None}]
    /\ active \subseteq Turn /\ pass \in PassPhase /\ listed \in Turn \cup {None}
    /\ abandon \in {"idle", "checked"}

AtWork == {t \in Turn : at[t] \in {"claimed", "work", "replied"}}

\* No two runs work from the checkpoint at once (claimResume, the active
\* streams that the recovery pass spares, interruptResume by owner only).
OneResumer == \A t, u \in AtWork : t = u

\* A checkpoint whose resume finished is not resumed by another answer: not by
\* a retry, nor by another turn after a crash anywhere between the log and the
\* record (reconcileCompletedRuns, claimResume).  Only the claim of an answer
\* carries a key; an explicit resume may precede the reconciliation.
ClaimUnfinished ==
    \A t \in Turn : at[t] = "claim" /\ at'[t] = "claimed" /\ disp'.key # None
                    => \A u \in worked : log[u] # "ok"
FinishedStays == [][ClaimUnfinished]_checkpointVars

\* A turn whose final reply is durable is not executed a second time, however
\* often it is sent and wherever the application died (coordinateConversationTurn).
AnsweredOnce == [][\A t \in replied : at[t] # "claimed" => at'[t] # "claimed"]_checkpointVars

\* A record that says resumed names a run that has ended and left its log, and
\* a run that is still at work is never recorded as resumed.
ResumedHasEnded ==
    disp.status = "resumed" => log[disp.run] # "none" /\ disp.run \notin AtWork

\* A resume is final: a checkpoint that says resumed names a run that has ended,
\* an answered one whose resume finished is not resumed again, and a turn that
\* was answered is not executed again.
ResumesAreFinal ==
    /\ [](CheckpointTypeOK /\ ResumedHasEnded)
    /\ FinishedStays
    /\ AnsweredOnce

\* A checkpoint the user abandoned is not being worked on.
AbandonedIsIdle == disp.status = "abandoned" => AtWork = {}

\* A claim does not outlive its process for good: once the application is up
\* again the recovery pass or the run itself decides it.
ResumeIsDecided == []<>(disp.status # "resuming")
=============================================================================
