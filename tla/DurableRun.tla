----------------------------- MODULE DurableRun -----------------------------
(***************************************************************************)
(* One durable run from ingress to its terminal event: the live Runner     *)
(* that drives it (runner.ts, the FINALIZE stage, the model lifecycles and *)
(* the side-effect ledger), the recovery passes of a restarted or          *)
(* concurrent process (run-recovery.ts, durable-run-recovery.ts,           *)
(* kernel.recoverRun), the leases of the run and of its effects between    *)
(* them, and the stores the final reply crosses: event stream, transcript, *)
(* reply registry.                                                         *)
(*                                                                         *)
(* An append is one step here: DurableAppend shows that it acts as one     *)
(* step of DurableKernel.  An append may also fail, with or without having *)
(* stored its event; any store may fail; the process may crash between any *)
(* two steps.  MaxFaults and MaxCrashes bound how often.                   *)
(***************************************************************************)
EXTENDS DurableKernel

CONSTANTS
    UnknownOutcome, \* the task outcome recovery records
    MaxFaults,      \* bound on failing store operations
    MaxCrashes      \* bound on crashes of the process

ASSUME RunBounds ==
    /\ UnknownOutcome \in Outcome
    /\ MaxFaults \in Nat /\ MaxCrashes \in Nat

VARIABLES
    live,       \* the Runner's control point and in-memory state of the run
    ran,        \* how often the tool behind each effect was invoked
    transcript, \* the final reply in the session transcript
    registry,   \* its settlement in the reply registry
    lease,      \* the run lease file
    effectLease, \* the lease file of each effect
    pass,       \* the recovery passes
    faults, crashes

stores == <<transcript, registry>>
runVars ==
    <<run, refused, live, ran, transcript, registry, lease, effectLease, pass, faults, crashes>>

-----------------------------------------------------------------------------
(* Types                                                                   *)

Flushing == {"flushFinalize", "flushPersist", "flushEnd"}
Reporting == {"sessionFailed", "publicationFailed", "lifecycleFailed"}
LivePc ==
    {"idle", "lease", "input", "work", "invoke", "settleEffect", "reserve",
     "propose", "transcript", "outcome", "persist", "settle", "registry",
     "promote", "decide", "record", "release", "done", "dead"}
        \cup Flushing \cup Reporting

\* open[q]: the lifecycle the Runner still owes the stream for request q.
\* broken: one of the lifecycle promises has rejected, for good.
\* early: the run failed before its coordinator started.
Live ==
    [pc : LivePc, result : {"ok", "error", "aborted"}, early : BOOLEAN,
     open : [Req -> {"none", "started", "answered", "received"}],
     broken : BOOLEAN, asked : SUBSET Req, ledger : SUBSET Effect,
     effect : Effect \cup {None}]

\* The tasks that recover runs: the awaited scan of expired leases, the events
\* scan nobody awaits, and a repeated user turn.
Pass == {"queue", "events", "retry"}

\* A lease left by a dead process is orphaned, then expired.
Lease == [state : {"none", "active", "orphaned", "expired", "released"},
          owner : {"live", None} \cup Pass]

\* Who holds the lease of an effect: the Runner, a pass, a living process that
\* failed to release it ("left"), or a dead one, until it expires ("orphaned").
EffectOwner == {"none", "live", "left", "orphaned"} \cup Pass

\* "claim": the run is leased, its pending effects are being claimed; "refused":
\* one of them is leased, and the pass gives up.
PassPc == {"idle", "listed", "acquire", "read", "claim", "models", "effects", "outcome",
           "reply", "registry", "promote", "close", "release", "refused"}

\* view is the projection of the last replay; fresh says no append of the pass
\* followed it.
PassState ==
    [pc : PassPc, view : Projection, fresh : BOOLEAN, models : SUBSET Req,
     effects : SUBSET Effect, terminalAtStart : BOOLEAN, ready : BOOLEAN]

IdlePass ==
    [pc |-> "idle", view |-> EmptyProjection, fresh |-> TRUE, models |-> {},
     effects |-> {}, terminalAtStart |-> FALSE, ready |-> FALSE]

RunInit ==
    /\ Init
    /\ live = [pc |-> "idle", result |-> "ok", early |-> FALSE,
               open |-> [q \in Req |-> "none"], broken |-> FALSE, asked |-> {},
               ledger |-> {}, effect |-> None]
    /\ ran = [x \in Effect |-> 0]
    /\ transcript = "none" /\ registry = "none"
    /\ lease = [state |-> "none", owner |-> None]
    /\ effectLease = [x \in Effect |-> "none"]
    /\ pass = [p \in Pass |-> IdlePass]
    /\ faults = 0 /\ crashes = 0

-----------------------------------------------------------------------------
(* Store operations                                                        *)

Fault == faults < MaxFaults /\ faults' = faults + 1

Stores(e) == AppendEvent(e) \/ AppendUnreplayable(e)

\* An append of e that returns (ok), is refused by the kernel, or fails in the
\* store, before or after the event is in the stream.
Append(e, ok) ==
    \/ ok /\ Stores(e) /\ UNCHANGED faults
    \/ /\ ~ok
       /\ refused # "none" \/ ~ValidTransition(run, e)
       /\ UNCHANGED <<run, refused, faults>>
    \/ ~ok /\ Fault /\ (Stores(e) \/ UNCHANGED kernelVars)

\* The steps of the Runner; LiveStep adds that they leave the effects' leases alone.
LiveAppends(e, onOk, onFail) ==
    /\ \E ok \in BOOLEAN : Append(e, ok) /\ live' = IF ok THEN onOk ELSE onFail
    /\ UNCHANGED <<ran, stores, lease, pass, crashes>>

\* A step of the Runner that only moves its own state.
LiveMoves(next) ==
    live' = next /\ UNCHANGED <<run, refused, ran, stores, lease, pass, faults, crashes>>

\* A store operation of the Runner that fails and changes nothing.
LiveFaults(next) ==
    /\ Fault
    /\ live' = next
    /\ UNCHANGED <<run, refused, ran, stores, lease, pass, crashes>>

At(pc) == [live EXCEPT !.pc = pc]
FailAt(pc) == [live EXCEPT !.pc = pc, !.result = "error"]
FailEarly == [live EXCEPT !.pc = "decide", !.result = "error", !.early = TRUE]

-----------------------------------------------------------------------------
(* The live run: ingress and lease                                         *)

Accept ==
    /\ live.pc = "idle"
    /\ LiveAppends([type |-> "run_accepted"], At("lease"), FailEarly)

\* acquire refuses while the owner's process is alive, or its lease is.
Free_Expired == lease.state # "orphaned"
Free == lease.state \notin {"active", "orphaned"}

AcquireRunLease ==
    /\ live.pc = "lease"
    /\ \/ /\ Free
          /\ lease' = [state |-> "active", owner |-> "live"]
          /\ live' = At("input")
          /\ UNCHANGED faults
       \/ /\ ~Free
          /\ live' = FailEarly
          /\ UNCHANGED <<lease, faults>>
       \/ Fault /\ live' = FailEarly /\ UNCHANGED lease
    /\ UNCHANGED <<run, refused, ran, stores, pass, crashes>>

RecordUserInput ==
    /\ live.pc = "input"
    /\ LiveAppends([type |-> "user_input_appended"], At("work"), FailEarly)

-----------------------------------------------------------------------------
(* The live run: provider requests                                         *)

\* Stages prepare requests, and so does the compaction of FINALIZE's phase.
PreparesRequests_AfterReply(pc) == pc \in {"work", "outcome", "registry"}
PreparesRequests(pc) == pc \in {"work", "outcome"}

StartRequest(q) ==
    /\ PreparesRequests(live.pc)
    /\ q \notin live.asked
    /\ LiveAppends([type |-> "model_request_started", req |-> q, retryOf |-> None],
                   [live EXCEPT !.asked = @ \cup {q}, !.open[q] = "started"],
                   [live EXCEPT !.asked = @ \cup {q}, !.broken = TRUE])

\* The provider answers: both lifecycle appends are queued, and not awaited.
Answer(q) ==
    /\ PreparesRequests(live.pc)
    /\ live.open[q] = "started"
    /\ LiveMoves([live EXCEPT !.open[q] = "answered"])

Alive == live.pc \notin {"idle", "dead"}
Rejected(q) == [live EXCEPT !.open[q] = "none", !.broken = TRUE]

\* The queued appends, at any later point of the run.
AppendResponse(q) ==
    /\ Alive /\ live.open[q] = "answered"
    /\ LiveAppends([type |-> "model_response_received", req |-> q],
                   [live EXCEPT !.open[q] = "received"], Rejected(q))

AppendSettlement(q) ==
    /\ Alive /\ live.open[q] = "received"
    /\ LiveAppends([type |-> "model_request_settled", req |-> q, received |-> TRUE],
                   [live EXCEPT !.open[q] = "none"], Rejected(q))

AfterFlush ==
    [flushFinalize |-> "reserve",
     flushPersist  |-> "persist",
     flushEnd      |-> IF live.result = "ok" THEN "settle" ELSE "decide"]

AfterFlushFailure ==
    [flushFinalize |-> "outcome",
     flushPersist  |-> "publicationFailed",
     flushEnd      |-> "lifecycleFailed"]

\* A request whose call failed is settled as such at once, one that nobody
\* answered as missing by flushModelRequestLifecycles; neither had a response.
SettleUnanswered(q) ==
    /\ live.pc \in Flushing \/ PreparesRequests(live.pc)
    /\ live.open[q] = "started"
    /\ LiveAppends([type |-> "model_request_settled", req |-> q, received |-> FALSE],
                   [live EXCEPT !.open[q] = "none"], Rejected(q))

\* The flush waits for the queued appends and rethrows what any rejected with.
FlushFails ==
    /\ live.pc \in Flushing /\ live.broken
    /\ LiveMoves(FailAt(AfterFlushFailure[live.pc]))

FlushReturns ==
    /\ live.pc \in Flushing /\ ~live.broken
    /\ \A q \in Req : live.open[q] = "none"
    /\ LiveMoves(At(AfterFlush[live.pc]))

-----------------------------------------------------------------------------
(* The live run: effects                                                   *)

\* The in-memory ledger refuses an effect it has seen.
LedgerAdmits_Evicted(x) == ran[x] < 3
LedgerAdmits(x) == x \notin live.ledger

\* The effect is leased and its intent durable before the tool runs.  An intent
\* that is already in the stream is a duplicate of the same event: the append
\* returns.  When it fails the lease is released, or left behind.
BeginSideEffect(x) ==
    /\ live.pc = "work" /\ LedgerAdmits(x) /\ effectLease[x] = "none"
    /\ LET known == [live EXCEPT !.ledger = @ \cup {x}]
           begun == [known EXCEPT !.pc = "invoke", !.effect = x]
       IN IF run.effect[x].state # "absent"
          THEN LiveMoves(begun)
          ELSE LiveAppends([type |-> "effect_intent_created", effect |-> x, owner |-> None],
                           begun, known)
    /\ \E owner \in IF live'.pc = "invoke" THEN {"live"} ELSE {"none", "left"} :
          effectLease' = [effectLease EXCEPT ![x] = owner]

InvokeTool ==
    /\ live.pc = "invoke"
    /\ ran' = [ran EXCEPT ![live.effect] = @ + 1]
    /\ live' = At("settleEffect")
    /\ UNCHANGED <<run, refused, stores, lease, pass, faults, crashes>>

\* A run aborted before the invocation settles the effect as cancelled.
CancelTool == live.pc = "invoke" /\ LiveMoves(At("settleEffect"))

\* The lease is confirmed and the settlement appended, and then the lease is
\* released; when either fails it is kept to the end of the run.  (Nobody asks
\* for the lease of an effect that is settled.)
FinishSideEffect ==
    /\ live.pc = "settleEffect"
    /\ LET back == [live EXCEPT !.pc = "work", !.effect = None]
       IN \E s \in IF ran[live.effect] = 0 THEN {"known"} ELSE {"known", "unknown"} :
            LiveAppends([type |-> "effect_settled", effect |-> live.effect, status |-> s,
                         source |-> "tool", owner |-> None], back, back)
    /\ effectLease' = IF run'.effect[live.effect].state = "pending" THEN effectLease
                      ELSE [effectLease EXCEPT ![live.effect] = "none"]

-----------------------------------------------------------------------------
(* The live run: FINALIZE and publication                                  *)

\* The stages end with a reply of a provider request, an error, an abort, or
\* a throw the coordinator's catch turns into a Runtime failure.
LeaveStages ==
    /\ live.pc = "work"
    /\ \/ live.asked # {} /\ LiveMoves(At("flushFinalize"))
       \/ LiveMoves(FailAt("outcome"))
       \/ LiveMoves([live EXCEPT !.pc = "outcome", !.result = "aborted"])
       \/ LiveMoves(FailAt("publicationFailed"))

ReserveReply ==
    /\ live.pc = "reserve"
    /\ \/ /\ registry' = "reserved"
          /\ live' = At("propose")
          /\ UNCHANGED <<run, refused, ran, transcript, lease, pass, faults, crashes>>
       \/ LiveFaults(FailAt("outcome"))

ProposeReply ==
    /\ live.pc = "propose"
    /\ \E r \in Reply :
          LiveAppends([type |-> "final_reply_proposed", reply |-> r],
                      At("transcript"), FailAt("outcome"))

AppendTranscript ==
    /\ live.pc = "transcript"
    /\ \/ /\ transcript' = "proposed"
          /\ live' = At("outcome")
          /\ UNCHANGED <<run, refused, ran, registry, lease, pass, faults, crashes>>
       \/ LiveFaults(FailAt("sessionFailed"))

\* settleRuntimeFailureEvent: best effort, its own failure is swallowed.
AfterReport ==
    [sessionFailed     |-> "outcome",
     publicationFailed |-> "flushEnd",
     lifecycleFailed   |-> "decide"]

ReportRuntimeFailure ==
    /\ live.pc \in Reporting
    /\ LiveAppends([type |-> "runtime_status_settled", status |-> "failed"],
                   At(AfterReport[live.pc]), At(AfterReport[live.pc]))

SettleOutcome ==
    /\ live.pc = "outcome"
    /\ \E o \in Outcome \ {UnknownOutcome} :
          LiveAppends([type |-> "task_outcome_settled", outcome |-> o],
                      At("flushPersist"), FailAt("publicationFailed"))

Persist ==
    /\ live.pc = "persist"
    /\ LiveMoves(At("flushEnd")) \/ LiveFaults(FailAt("publicationFailed"))

\* settleDeferredFinalReply.  After an uncertain or stored final-reply event
\* no terminal event is appended: the step is left to recovery.
AfterReplyFailure_StillOk == At("release")
AfterReplyFailure == FailAt("release")

SettleReply ==
    /\ live.pc = "settle"
    /\ LiveAppends([type |-> "final_reply_settled", reply |-> run.reply],
                   At("registry"), AfterReplyFailure)

SettleRegistry ==
    /\ live.pc = "registry"
    /\ \/ /\ registry' = "settled"
          /\ live' = At("promote")
          /\ UNCHANGED <<run, refused, ran, transcript, lease, pass, faults, crashes>>
       \/ LiveFaults(AfterReplyFailure)

PromoteTranscript ==
    /\ live.pc = "promote"
    /\ \/ /\ transcript' = "settled"
          /\ live' = At("decide")
          /\ UNCHANGED <<run, refused, ran, registry, lease, pass, faults, crashes>>
       \/ LiveFaults(AfterReplyFailure)

-----------------------------------------------------------------------------
(* The live run: terminal event and release                                *)

\* recordDurableRunOutcome replays, then appends; the two are separate steps.
\* A replay that fails leaves the decision to the append.
LeavesOutcomeAlone ==
    /\ refused = "none"
    /\ \/ run.replyState = "runtime_status"
       \/ run.replyState = "settled" /\ live.result # "ok"

DecideOutcome ==
    /\ live.pc = "decide"
    /\ \/ LiveMoves(At(IF LeavesOutcomeAlone THEN "release" ELSE "record"))
       \/ LiveFaults(At("record"))

TerminalEvent ==
    [ok |-> "run_completed", error |-> "run_failed", aborted |-> "run_interrupted"]

\* The catch around the append keeps the result; in the finally block of an
\* early failure there is none, and the throw skips the release.
AfterRecordFailure == At(IF live.early THEN "done" ELSE "release")

RecordOutcome ==
    /\ live.pc = "record"
    /\ LiveAppends([type |-> TerminalEvent[live.result]], At("release"), AfterRecordFailure)

\* Every effect lease of an owner is released, or one of the releases fails.
Release(owner) ==
    \E after \in {"none", "left"} :
        /\ after = "none" \/ faults' # faults
        /\ effectLease' =
             [x \in Effect |-> IF effectLease[x] = owner THEN after ELSE effectLease[x]]

\* The effects' leases first, then the run's, whether or not those were released.
ReleaseRun ==
    /\ live.pc = "release"
    /\ \/ /\ lease' = IF lease.owner = "live"
                      THEN [state |-> "released", owner |-> None] ELSE lease
          /\ live' = At("done")
          /\ UNCHANGED faults \/ (lease.owner = "live" /\ Fault)
          /\ UNCHANGED <<run, refused, ran, stores, pass, crashes>>
       \/ lease.owner = "live" /\ LiveFaults(At("done"))
    /\ Release("live")

LiveStep ==
    \/ /\ \/ Accept \/ AcquireRunLease \/ RecordUserInput
          \/ \E q \in Req :
                \/ StartRequest(q) \/ Answer(q)
                \/ AppendResponse(q) \/ AppendSettlement(q) \/ SettleUnanswered(q)
          \/ FlushFails \/ FlushReturns
          \/ InvokeTool \/ CancelTool
          \/ LeaveStages \/ ReserveReply \/ ProposeReply \/ AppendTranscript
          \/ ReportRuntimeFailure \/ SettleOutcome \/ Persist
          \/ SettleReply \/ SettleRegistry \/ PromoteTranscript
          \/ DecideOutcome \/ RecordOutcome
       /\ UNCHANGED effectLease
    \/ \E x \in Effect : BeginSideEffect(x)
    \/ FinishSideEffect \/ ReleaseRun

-----------------------------------------------------------------------------
(* Recovery: discovery and lease                                           *)

PassMoves(p, next) ==
    /\ pass' = [pass EXCEPT ![p] = next]
    /\ UNCHANGED <<run, refused, live, ran, stores, lease, effectLease, faults, crashes>>

PassAt(p, pc) == [pass[p] EXCEPT !.pc = pc]

\* The queue pass lists expired leases whose owner is dead.
DiscoverQueue ==
    /\ pass["queue"].pc = "idle" /\ lease.state = "expired"
    /\ PassMoves("queue", PassAt("queue", "acquire"))

\* The events pass lists every stream whose run has no active lease, and looks
\* at the lease file again when the run's turn comes.
DiscoverEvents ==
    /\ pass["events"].pc = "idle" /\ run.status # "none"
    /\ Free
    /\ PassMoves("events", PassAt("events", "listed"))

CheckLease ==
    /\ pass["events"].pc = "listed"
    /\ PassMoves("events", IF lease.state = "none"
                           THEN PassAt("events", "acquire") ELSE IdlePass)

\* A repeated user turn recovers the run before it answers.
DiscoverRetry ==
    /\ pass["retry"].pc = "idle" /\ run.status # "none"
    /\ live.pc \in {"done", "dead"}
    /\ ~IsDurableRunTerminal(run)
    /\ PassMoves("retry", PassAt("retry", "acquire"))

AcquireForRecovery(p) ==
    /\ pass[p].pc = "acquire"
    /\ IF Free
       THEN /\ lease' = [state |-> "active", owner |-> p]
            /\ pass' = [pass EXCEPT ![p].pc = "read"]
       ELSE pass' = [pass EXCEPT ![p] = IdlePass] /\ UNCHANGED lease
    /\ UNCHANGED <<run, refused, live, ran, stores, effectLease, faults, crashes>>

\* Before anything is appended every pending effect is claimed as well.  An effect
\* whose owner is alive, or dead with time left on its lease, ends the pass.
ReadPending(p) ==
    /\ pass[p].pc = "read"
    /\ IF refused = "none"
       THEN PassMoves(p, [pass[p] EXCEPT !.pc = "claim", !.effects = PendingEffects(run)])
       ELSE PassMoves(p, PassAt(p, "release"))

ClaimEffect(p, x) ==
    /\ pass[p].pc = "claim" /\ x \in pass[p].effects
    /\ \/ /\ effectLease[x] = "none"
          /\ effectLease' = [effectLease EXCEPT ![x] = p]
          /\ pass' = [pass EXCEPT ![p].effects = @ \ {x}]
          /\ UNCHANGED faults
       \/ /\ effectLease[x] # "none"
          /\ pass' = [pass EXCEPT ![p].pc = "refused"]
          /\ UNCHANGED <<effectLease, faults>>
       \/ /\ Fault
          /\ pass' = [pass EXCEPT ![p].pc = "release"]
          /\ UNCHANGED effectLease
    /\ UNCHANGED <<run, refused, live, ran, stores, lease, crashes>>

-----------------------------------------------------------------------------
(* Recovery: recoverRun                                                    *)

NothingToRecover_Terminal(p) == p.status = "none" \/ IsDurableRunTerminal(p)
NothingToRecover(p) ==
    \/ p.status = "none"
    \/ IsDurableRunTerminal(p) /\ PendingEffects(p) = {} /\ PendingModels(p) = {}

Begin(p) ==
    /\ pass[p].pc = "claim" /\ pass[p].effects = {}
    /\ IF refused # "none" \/ NothingToRecover(run)
       THEN PassMoves(p, PassAt(p, "release"))
       ELSE PassMoves(p, [pass[p] EXCEPT !.pc = "models", !.view = run,
                                         !.models = PendingModels(run),
                                         !.effects = PendingEffects(run),
                                         !.terminalAtStart = IsDurableRunTerminal(run)])

\* Every append of the pass is followed by a replay, at one of these points;
\* a failed append, or a replay that throws, ends the pass.
Replaying == {"models", "effects", "reply", "registry"}

Ready(p, pc) == pass[p].pc = pc /\ pass[p].fresh

PassAppends(p, e, next) ==
    /\ \E ok \in BOOLEAN :
          /\ Append(e, ok)
          /\ pass' = [pass EXCEPT ![p] = IF ok THEN [next EXCEPT !.fresh = FALSE]
                                               ELSE PassAt(p, "release")]
    /\ UNCHANGED <<live, ran, stores, lease, effectLease, crashes>>

Replay(p) ==
    /\ pass[p].pc \in Replaying /\ ~pass[p].fresh
    /\ IF refused = "none"
       THEN PassMoves(p, [pass[p] EXCEPT !.view = run, !.fresh = TRUE])
       ELSE PassMoves(p, PassAt(p, "release"))

CloseModel(p, q) ==
    /\ Ready(p, "models") /\ q \in pass[p].models
    /\ PassAppends(p, [type |-> "model_request_settled", req |-> q,
                       received |-> pass[p].view.model[q] = "received"],
                   [pass[p] EXCEPT !.models = @ \ {q}])

\* The host may know the effect's outcome; else it is unknown.
CloseEffect(p, x) ==
    /\ Ready(p, "effects") /\ x \in pass[p].effects
    /\ \E s \in {"known", "unknown"} :
          PassAppends(p, [type |-> "effect_settled", effect |-> x, status |-> s,
                          source |-> "runtime", owner |-> None],
                      [pass[p] EXCEPT !.effects = @ \ {x}])

WorkClosed(p) ==
    \/ /\ Ready(p, "models") /\ pass[p].models = {}
       /\ PassMoves(p, PassAt(p, "effects"))
    \/ /\ Ready(p, "effects") /\ pass[p].effects = {}
       /\ PassMoves(p, PassAt(p, IF pass[p].terminalAtStart THEN "release" ELSE "outcome"))

NeedsOutcome(v) == v.replyState = "proposed" /\ v.outcome = None

RecoverOutcome(p) ==
    /\ Ready(p, "outcome")
    /\ IF NeedsOutcome(pass[p].view)
       THEN PassAppends(p, [type |-> "task_outcome_settled", outcome |-> UnknownOutcome],
                        PassAt(p, "reply"))
       ELSE PassMoves(p, PassAt(p, "reply"))

\* Only a reply that is in the transcript is promoted.
ReplyPersisted_Reserved == registry # "none"
ReplyPersisted == transcript # "none"

RecoverReply(p) ==
    /\ Ready(p, "reply")
    /\ \/ /\ pass[p].view.replyState = "proposed" /\ ReplyPersisted
          /\ PassAppends(p, [type |-> "final_reply_settled", reply |-> pass[p].view.reply],
                         PassAt(p, "registry"))
       \/ /\ pass[p].view.replyState # "proposed" \/ ~ReplyPersisted
          /\ PassMoves(p, PassAt(p, "registry"))

\* A failure of registry or transcript only withholds the completion.
NotReady(p) ==
    /\ Fault
    /\ pass' = [pass EXCEPT ![p] = [pass[p] EXCEPT !.pc = "close", !.ready = FALSE]]
    /\ UNCHANGED <<run, refused, live, ran, stores, lease, effectLease, crashes>>

RegistryDone(p) == PassAt(p, "promote")

RecoverRegistry(p) ==
    /\ Ready(p, "registry")
    /\ \/ /\ pass[p].view.replyState # "settled"
          /\ PassMoves(p, [pass[p] EXCEPT !.pc = "close", !.ready = TRUE])
       \/ /\ pass[p].view.replyState = "settled"
          /\ \/ /\ registry' = "settled"
                /\ pass' = [pass EXCEPT ![p] = RegistryDone(p)]
                /\ UNCHANGED <<run, refused, live, ran, transcript, lease, effectLease,
                               faults, crashes>>
             \/ NotReady(p)

RecoverPromotion(p) ==
    /\ Ready(p, "promote")
    /\ \/ /\ transcript' = "settled"
          /\ pass' = [pass EXCEPT ![p] = [pass[p] EXCEPT !.pc = "close", !.ready = TRUE]]
          /\ UNCHANGED <<run, refused, live, ran, registry, lease, effectLease, faults, crashes>>
       \/ NotReady(p)

CloseRun(p) ==
    LET v == pass[p].view
    IN /\ Ready(p, "close")
       /\ \/ /\ v.replyState = "settled" /\ pass[p].ready /\ Quiet(v)
             /\ ~IsDurableRunTerminal(v)
             /\ PassAppends(p, [type |-> "run_completed"], PassAt(p, "release"))
          \/ /\ v.replyState # "settled" /\ ~IsDurableRunTerminal(v)
             /\ PassAppends(p, [type |-> "runtime_status_settled", status |-> "waiting_user"],
                            PassAt(p, "release"))
          \/ /\ \/ IsDurableRunTerminal(v)
                \/ v.replyState = "settled" /\ ~(pass[p].ready /\ Quiet(v))
             /\ PassMoves(p, PassAt(p, "release"))

\* The finally block: the claims and the run lease are released side by side,
\* whatever ended the pass.
ReleaseAfterRecovery(p) ==
    /\ pass[p].pc \in {"release", "refused"}
    /\ pass' = [pass EXCEPT ![p] = IdlePass]
    /\ \/ /\ lease' = [state |-> "released", owner |-> None]
          /\ UNCHANGED faults \/ Fault
       \/ Fault /\ UNCHANGED lease
    /\ Release(p)
    /\ UNCHANGED <<run, refused, live, ran, stores, crashes>>

PassStep(p) ==
    \/ AcquireForRecovery(p) \/ ReadPending(p)
    \/ \E x \in Effect : ClaimEffect(p, x)
    \/ Begin(p) \/ Replay(p)
    \/ \E q \in Req : CloseModel(p, q)
    \/ \E x \in Effect : CloseEffect(p, x)
    \/ WorkClosed(p) \/ RecoverOutcome(p) \/ RecoverReply(p)
    \/ RecoverRegistry(p) \/ RecoverPromotion(p) \/ CloseRun(p)
    \/ ReleaseAfterRecovery(p)

-----------------------------------------------------------------------------
(* The process and the clock                                               *)

\* Memory is lost, stores are kept.  The run has no second live driver: the
\* restarted process recovers it or leaves it.
Crash ==
    /\ crashes < MaxCrashes
    /\ \/ live.pc \notin {"idle", "done", "dead"} \/ lease.state = "active"
       \/ \E x \in Effect : effectLease[x] \notin {"none", "orphaned"}
    /\ crashes' = crashes + 1
    /\ live' = [live EXCEPT !.pc = IF @ = "idle" THEN @ ELSE "dead"]
    /\ pass' = [p \in Pass |-> IdlePass]
    /\ lease' = IF lease.state = "active"
                THEN [state |-> "orphaned", owner |-> None] ELSE lease
    /\ effectLease' =
         [x \in Effect |-> IF effectLease[x] = "none" THEN "none" ELSE "orphaned"]
    /\ UNCHANGED <<run, refused, ran, stores, faults>>

\* The leases have one length, and each its own heartbeat: in any order.
Expire ==
    /\ lease.state = "orphaned"
    /\ lease' = [lease EXCEPT !.state = "expired"]
    /\ UNCHANGED <<run, refused, live, ran, stores, effectLease, pass, faults, crashes>>

ExpireEffect(x) ==
    /\ effectLease[x] = "orphaned"
    /\ effectLease' = [effectLease EXCEPT ![x] = "none"]
    /\ UNCHANGED <<run, refused, live, ran, stores, lease, pass, faults, crashes>>

\* Nothing drives the run any more.
Over ==
    /\ live.pc \in {"done", "dead"}
    /\ \A p \in Pass : pass[p].pc = "idle"
    /\ UNCHANGED runVars

RunNext ==
    \/ LiveStep
    \/ DiscoverQueue \/ DiscoverEvents \/ CheckLease \/ DiscoverRetry
    \/ \E p \in Pass : PassStep(p)
    \/ Crash \/ Expire \/ (\E x \in Effect : ExpireEffect(x)) \/ Over

RunSpec == RunInit /\ [][RunNext]_runVars

\* The queue's task, and that of the events, in a process that was restarted.
QueueTask == DiscoverQueue \/ PassStep("queue")
EventsTask ==
    \/ live.pc = "dead" /\ lease.state = "none" /\ DiscoverEvents
    \/ CheckLease \/ PassStep("events")

\* The process is scheduled, time passes, and a restarted process runs its
\* queue pass and its events pass over what the dead one left.
RunFairness ==
    /\ WF_runVars(LiveStep)
    /\ WF_runVars(Expire \/ \E x \in Effect : ExpireEffect(x))
    /\ WF_runVars(QueueTask) /\ WF_runVars(EventsTask) /\ WF_runVars(PassStep("retry"))

-----------------------------------------------------------------------------
(* Properties                                                              *)

\* Every variable is of its type; no effect's tool is invoked a third time.
RunTypeOK ==
    /\ TypeOK
    /\ live \in Live
    /\ ran \in [Effect -> 0 .. 2]
    /\ transcript \in {"none", "proposed", "settled"}
    /\ registry \in {"none", "reserved", "settled"}
    /\ lease \in Lease
    /\ effectLease \in [Effect -> EffectOwner]
    /\ pass \in [Pass -> PassState]
    /\ faults \in 0 .. MaxFaults /\ crashes \in 0 .. MaxCrashes

\* Whoever appends run_completed, the Runner or a recovery pass, after whatever
\* faults and crashes: the reply is settled in the registry and in the
\* transcript, and the task has an outcome.
CompletedRunPublished ==
    run.status = "completed" =>
        registry = "settled" /\ transcript = "settled" /\ run.outcome # None

\* The final-reply event follows the transcript: a crash never publishes an
\* answer that is not persisted, nor one without a task outcome.
SettledReplyIsPersisted ==
    run.replyState = "settled" =>
        transcript # "none" /\ registry # "none" /\ run.outcome # None

\* The secondary stores never run ahead of the authoritative event.
StoresFollowEvent ==
    registry = "settled" \/ transcript = "settled" => run.replyState = "settled"

\* Event, registry and transcript agree on the reply whatever step was the last
\* one (finalize.ts, manager.ts, recoverRun).
PublicationIsOrdered == CompletedRunPublished /\ SettledReplyIsPersisted /\ StoresFollowEvent

Recovering(p) == pass[p].pc \notin {"idle", "listed", "acquire"}
Working ==
    live.pc \notin {"idle", "lease", "decide", "record", "release", "done", "dead"}

\* Whoever runs or settles an effect holds its lease, a recovery too that read
\* the open effects before it claimed them and again after.
EffectsAreHeld ==
    /\ live.pc \in {"invoke", "settleEffect"} => effectLease[live.effect] = "live"
    /\ \A p \in Pass :
          pass[p].pc \in {"models", "effects"} =>
              \A x \in pass[p].effects : effectLease[x] = p

\* The Runner works, or one recovery pass, under its own lease, and never both.
OneLeaseHolder ==
    /\ Working => lease = [state |-> "active", owner |-> "live"]
    /\ \A p \in Pass : Recovering(p) => lease = [state |-> "active", owner |-> p]

\* At most one driver of the run, and of each effect.
OneDriver == OneLeaseHolder /\ EffectsAreHeld

\* A tool runs after its intent is durable, and once, although an intent that
\* failed to append may be in the stream.
ToolRunsOnce ==
    \A x \in Effect : ran[x] > 0 => run.effect[x].state # "absent" /\ ran[x] = 1

\* No sequence of appends these callers make is accepted and then unreadable:
\* what DurableKernel's late checks would refuse never reaches the stream.
StreamReplays == refused = "none"

\* A result of ok is a published reply, in all three stores.
OkIsPublished ==
    live.pc = "done" /\ live.result = "ok" =>
        /\ run.replyState = "settled"
        /\ registry = "settled" /\ transcript = "settled"

\* A run that ends without a store fault leaves nothing for recovery, even if
\* a recovery pass took it over before it held its lease.
EndedRunIsClosed ==
    live.pc = "done" /\ faults = 0 =>
        IsDurableRunTerminal(run) /\ PendingEffects(run) = {}

\* What the Runner reports when it returns is what a reader of the stores finds.
ReportIsTrue == OkIsPublished /\ EndedRunIsClosed

Closed == IsDurableRunTerminal(run) /\ PendingEffects(run) = {} /\ PendingModels(run) = {}

\* A run whose process died is brought to a terminal state with its open work
\* accounted for, unless a recovery came upon an effect whose lease still ran: it
\* gives the run up, and the lease it releases hides the run from the next one.
DeadRunIsClosed ==
    \/ []<>(live.pc = "dead" /\ run.status # "none" => Closed)
    \/ <>(\E p \in Pass : pass[p].pc = "refused")

\* "Recovery will retry the missing cross-store step and then append
\* run_completed": a settled reply leads to a completed run.
SettledReplyCompletes == []<>(run.replyState = "settled" => run.status = "completed")

\* "runtime_status_settled is already a terminal durable outcome": the run's
\* status no longer changes after it.
RuntimeStatusIsTerminal ==
    [][run.replyState = "runtime_status" => run'.status = run.status]_runVars
=============================================================================
