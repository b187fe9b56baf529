--------------------------- MODULE DurableKernel ---------------------------
(***************************************************************************)
(* The durable Harness kernel of packages/harness: the reducer that turns  *)
(* the event stream of one run into its projection, and the transition     *)
(* rules an event must meet before it is appended.                         *)
(*                                                                         *)
(* An event is a record with a type and the payload fields the rules read. *)
(* ValidTransition is what append checks, Reducible what the reducer       *)
(* checks on top of it, Apply what the reducer computes.  A stored event   *)
(* that the reducer refuses makes every later replay of the run throw;     *)
(* refused then names its type for good.                                   *)
(*                                                                         *)
(* This is also the specification DurableAppend implements: whatever a run *)
(* of several appenders does, the projection moves by these steps only.    *)
(***************************************************************************)
EXTENDS Naturals

CONSTANTS
    Req,        \* provider request ids
    Effect,     \* effect ids (one idempotency key each)
    Worker,     \* owners of effect leases
    Reply,      \* final replies: text, fingerprint, model request, settlement id
    Outcome,    \* task outcomes
    Epoch,      \* capability epochs
    Attempt,    \* verification attempts
    None        \* an absent field

ASSUME NoneIsFresh ==
    None \notin Req \cup Worker \cup Reply \cup Outcome \cup Epoch

VARIABLES
    run,        \* DurableRunProjection of the stored events
    refused     \* the type of the stored event replays throw on, or "none"

kernelVars == <<run, refused>>

-----------------------------------------------------------------------------
(* Types                                                                   *)

Terminal == {"completed", "failed", "interrupted"}
RuntimeStatus == {"waiting_user", "failed", "interrupted"}
Route == {"respond", "execute", "clarify"}
RunStatus == Terminal \cup {"none", "accepted", "running", "waiting_user"}
ReplyState == {"none", "proposed", "settled", "runtime_status"}

\* An effect is pending from its intent to its settlement; "known" stands for
\* succeeded, failed and cancelled, which the rules never tell apart.
EffectState ==
    [state : {"absent", "pending", "known", "unknown"}, owner : Worker \cup {None}]

\* "started" and "received" requests are pending; "closed" has a settlement.
ModelState == {"absent", "started", "received", "closed"}

Projection ==
    [status   : RunStatus,
     route    : Route \cup {None},
     replyState : ReplyState,
     reply    : Reply \cup {None},
     effect   : [Effect -> EffectState],
     model    : [Req -> ModelState],
     outcome  : Outcome \cup {None},
     snapshot : Epoch \cup {None},
     probed   : BOOLEAN,
     verified : SUBSET Attempt]

\* Events no rule of which depends on a payload.
PlainType ==
    {"run_accepted", "user_input_appended", "tool_call_proposed",
     "checkpoint_written", "stage_transition_recorded",
     "run_failed", "run_interrupted", "run_completed"}

Event ==
    UNION {
        [type : PlainType],
        [type : {"capability_snapshot_read", "capability_probe_settled"}, epoch : Epoch],
        [type : {"route_decided"}, route : Route, capability : BOOLEAN],
        [type : {"verification_recorded"}, attempt : Attempt],
        [type : {"model_request_started"}, req : Req, retryOf : Req \cup {None}],
        [type : {"model_response_received", "provider_usage_recorded"}, req : Req],
        [type : {"model_request_settled"}, req : Req, received : BOOLEAN],
        [type : {"effect_intent_created"}, effect : Effect, owner : Worker \cup {None}],
        [type : {"effect_settled"}, effect : Effect, status : {"known", "unknown"},
         source : {"tool", "runtime"}, owner : Worker \cup {None}],
        [type : {"final_reply_proposed", "final_reply_settled"}, reply : Reply],
        [type : {"runtime_status_settled"}, status : RuntimeStatus],
        [type : {"task_outcome_settled"}, outcome : Outcome]}

\* The types with a check that only the reducer makes.
LateChecked == {"run_completed", "verification_recorded", "provider_usage_recorded"}

\* The projection of an empty stream; status "none" stands for eventCount = 0.
EmptyProjection ==
    [status   |-> "none",
     route    |-> None,
     replyState |-> "none",
     reply    |-> None,
     effect   |-> [x \in Effect |-> [state |-> "absent", owner |-> None]],
     model    |-> [q \in Req |-> "absent"],
     outcome  |-> None,
     snapshot |-> None,
     probed   |-> FALSE,
     verified |-> {}]

-----------------------------------------------------------------------------
(* What the rules ask of a projection                                      *)

PendingEffects(p) == {x \in Effect : p.effect[x].state = "pending"}
UnknownEffects(p) == {x \in Effect : p.effect[x].state = "unknown"}
PendingModels(p) == {q \in Req : p.model[q] \in {"started", "received"}}

EffectsQuiet_UnknownForgotten(p) == PendingEffects(p) = {}
EffectsQuiet(p) == PendingEffects(p) = {} /\ UnknownEffects(p) = {}
Quiet(p) == EffectsQuiet(p) /\ PendingModels(p) = {}

\* The run needs no recovery: a terminal status or a settled Runtime status.
IsDurableRunTerminal(p) == p.status \in Terminal \/ p.replyState = "runtime_status"

\* Settlements of facts that were pending when the run became terminal.
IsTerminalAuditClosure(p, e) ==
    /\ IsDurableRunTerminal(p)
    /\ \/ e.type = "effect_settled" /\ e.effect \in PendingEffects(p)
       \/ e.type = "model_request_settled" /\ e.req \in PendingModels(p)
       \/ e.type = "task_outcome_settled" /\ p.outcome = None

\* Only a tool's settlement of a leased effect must name the lease's owner.
SettlementOwnerMatches(p, e) ==
    \/ e.source = "runtime"
    \/ p.effect[e.effect].owner = None
    \/ p.effect[e.effect].owner = e.owner

-----------------------------------------------------------------------------
(* validateTransition                                                      *)

MayAbort_Always(p) == TRUE
MayAbort(p) == p.replyState # "settled"

MayComplete(p) == p.replyState = "settled" /\ EffectsQuiet(p)

MaySettleOutcome(p) == p.outcome = None /\ p.replyState # "settled"

MaySettleEffect_Twice(p, e) ==
    p.effect[e.effect].state # "absent" /\ SettlementOwnerMatches(p, e)
MaySettleEffect(p, e) ==
    p.effect[e.effect].state = "pending" /\ SettlementOwnerMatches(p, e)

\* Each type's own rule; a type without one is always in order.
InOrder(p, e) ==
    CASE e.type \in {"run_failed", "run_interrupted"} ->
            MayAbort(p)
      [] e.type = "run_completed" ->
            MayComplete(p)
      [] e.type = "task_outcome_settled" ->
            MaySettleOutcome(p)
      [] e.type = "runtime_status_settled" ->
            p.replyState \notin {"settled", "runtime_status"}
      [] e.type = "final_reply_proposed" ->
            p.replyState = "none" /\ Quiet(p)
      [] e.type = "final_reply_settled" ->
            p.replyState = "proposed" /\ Quiet(p) /\ p.reply = e.reply
      [] e.type = "effect_intent_created" ->
            p.effect[e.effect].state = "absent"
      [] e.type = "effect_settled" ->
            MaySettleEffect(p, e)
      [] e.type = "model_request_started" ->
            /\ p.model[e.req] = "absent"
            /\ e.retryOf # None => e.retryOf # e.req /\ p.model[e.retryOf] # "absent"
      [] e.type = "model_response_received" ->
            p.model[e.req] = "started"
      [] e.type = "model_request_settled" ->
            /\ e.req \in PendingModels(p)
            /\ e.received => p.model[e.req] = "received"
      [] e.type = "route_decided" ->
            p.route = None /\ (e.capability => p.snapshot # None)
      [] e.type = "capability_snapshot_read" ->
            p.snapshot = None
      [] e.type = "capability_probe_settled" ->
            p.snapshot = e.epoch /\ ~p.probed
      [] OTHER -> TRUE

ValidTransition(p, e) ==
    /\ e.type = "run_accepted" <=> p.status = "none"
    /\ \/ p.status \notin Terminal
       \/ e.type = "stage_transition_recorded"
       \/ IsTerminalAuditClosure(p, e)
    /\ InOrder(p, e)

Reducible_RouteLate(p, e) ==
    CASE e.type = "run_completed" -> PendingModels(p) = {}
      [] e.type = "route_decided" -> p.status # "accepted"
      [] OTHER -> TRUE

\* What applyDurableHarnessEvent refuses although validateTransition lets it
\* pass: three checks only the reducer makes.
Reducible(p, e) ==
    CASE e.type = "run_completed"           -> PendingModels(p) = {}
      [] e.type = "verification_recorded"   -> e.attempt \notin p.verified
      [] e.type = "provider_usage_recorded" -> p.model[e.req] # "absent"
      [] OTHER -> TRUE

-----------------------------------------------------------------------------
(* applyDurableHarnessEvent                                                *)

\* Any of these moves a run from accepted to running.
StartsRun ==
    {"user_input_appended", "tool_call_proposed", "checkpoint_written",
     "stage_transition_recorded", "capability_snapshot_read",
     "capability_probe_settled", "model_request_started",
     "model_response_received", "model_request_settled"}

\* An unknown effect asks the user, unless the run is over.
AsksUser(p, e) == e.status = "unknown" /\ ~IsDurableRunTerminal(p)

NextStatus(p, e) ==
    CASE e.type = "run_accepted"    -> "accepted"
      [] e.type = "run_completed"   -> "completed"
      [] e.type = "run_failed"      -> "failed"
      [] e.type = "run_interrupted" -> "interrupted"
      [] e.type = "runtime_status_settled" -> e.status
      [] e.type = "route_decided" ->
            IF e.route = "clarify" THEN "waiting_user" ELSE "running"
      [] e.type = "effect_intent_created" -> "running"
      [] e.type = "effect_settled" ->
            IF AsksUser(p, e) THEN "waiting_user" ELSE p.status
      [] e.type \in StartsRun /\ p.status = "accepted" -> "running"
      [] OTHER -> p.status

NextReplyState(p, e) ==
    CASE e.type = "final_reply_proposed"   -> "proposed"
      [] e.type = "final_reply_settled"    -> "settled"
      [] e.type = "runtime_status_settled" -> "runtime_status"
      [] OTHER -> p.replyState

NextReply(p, e) ==
    CASE e.type \in {"final_reply_proposed", "final_reply_settled"} -> e.reply
      [] e.type = "runtime_status_settled" -> None
      [] OTHER -> p.reply

NextEffect(p, e) ==
    CASE e.type = "effect_intent_created" ->
            [p.effect EXCEPT ![e.effect] = [state |-> "pending", owner |-> e.owner]]
      [] e.type = "effect_settled" ->
            [p.effect EXCEPT ![e.effect].state = e.status]
      [] OTHER -> p.effect

NextModel(p, e) ==
    CASE e.type = "model_request_started"   -> [p.model EXCEPT ![e.req] = "started"]
      [] e.type = "model_response_received" -> [p.model EXCEPT ![e.req] = "received"]
      [] e.type = "model_request_settled"   -> [p.model EXCEPT ![e.req] = "closed"]
      [] OTHER -> p.model

Apply(p, e) ==
    [status   |-> NextStatus(p, e),
     route    |-> IF e.type = "route_decided" THEN e.route ELSE p.route,
     replyState |-> NextReplyState(p, e),
     reply    |-> NextReply(p, e),
     effect   |-> NextEffect(p, e),
     model    |-> NextModel(p, e),
     outcome  |-> IF e.type = "task_outcome_settled" THEN e.outcome ELSE p.outcome,
     snapshot |-> IF e.type = "capability_snapshot_read" THEN e.epoch ELSE p.snapshot,
     probed   |-> p.probed \/ e.type = "capability_probe_settled",
     verified |-> IF e.type = "verification_recorded"
                  THEN p.verified \cup {e.attempt} ELSE p.verified]

-----------------------------------------------------------------------------
(* The event stream of one run                                             *)

Init ==
    /\ run = EmptyProjection
    /\ refused = "none"

\* An event that passes the append's rules and replays.
AppendEvent(e) ==
    /\ refused = "none"
    /\ ValidTransition(run, e)
    /\ Reducible(run, e)
    /\ run' = Apply(run, e)
    /\ UNCHANGED refused

\* An event that passes the append's rules, is stored, and makes every replay
\* throw; run keeps the last projection anyone could read.
AppendUnreplayable(e) ==
    /\ refused = "none"
    /\ ValidTransition(run, e)
    /\ ~Reducible(run, e)
    /\ refused' = e.type
    /\ UNCHANGED run

Next ==
    \/ \E e \in Event : AppendEvent(e)
    \/ \E e \in Event : AppendUnreplayable(e)

Spec == Init /\ [][Next]_kernelVars

-----------------------------------------------------------------------------
(* Properties                                                              *)

\* The projection is of its type, and only a late check makes it unreadable.
TypeOK ==
    /\ run \in Projection
    /\ refused \in LateChecked \cup {"none"}

\* A completed run has published its reply and accounts for all its work: no
\* effect is open or of unknown outcome, no provider request is open
\* (run_completed and everything the kernel accepts after it).
CompletedRunAccounted ==
    run.status = "completed" =>
        /\ run.replyState = "settled"
        /\ PendingEffects(run) \cup UnknownEffects(run) = {}
        /\ PendingModels(run) = {}

\* Publication and failure exclude each other in both orders: a run whose
\* final reply is settled never reads failed or interrupted.
PublishedRunNeverFails ==
    run.replyState = "settled" => run.status \notin {"failed", "interrupted"}

\* Nothing the kernel accepts changes a completed run, the terminal audit
\* closures included: they have nothing left to close.
CompletedIsForever ==
    [][run.status = "completed" => UNCHANGED run]_kernelVars

\* What a terminal run may no longer change: all but its open work's closure.
Verdict(p) ==
    <<p.status, p.route, p.replyState, p.reply, p.snapshot, p.probed, p.verified>>

\* A terminal run keeps its status, reply, route and evidence; what was open
\* when it ended may still be closed, and no work is opened.
TerminalIsFinal ==
    [][run.status \in Terminal =>
        /\ Verdict(run)' = Verdict(run)
        /\ \A x \in Effect :
              \/ run'.effect[x] = run.effect[x]
              \/ run.effect[x].state = "pending" /\ run'.effect[x].state \in {"known", "unknown"}
        /\ PendingModels(run)' \subseteq PendingModels(run)]_kernelVars

\* What a run has settled stays settled the same way, however it continues:
\* effects, provider requests, the task outcome and the final reply; and once
\* the reply is published no task outcome is added under it.
HistoryIsKept ==
    [][/\ \A x \in Effect : run.effect[x].state \in {"known", "unknown"} =>
                                run'.effect[x] = run.effect[x]
       /\ \A q \in Req : run.model[q] = "closed" => run'.model[q] = "closed"
       /\ run.outcome # None \/ run.replyState = "settled" =>
              run'.outcome = run.outcome
       /\ run.replyState \in {"settled", "runtime_status"} =>
              run'.replyState = run.replyState /\ run'.reply = run.reply]_kernelVars

\* What is over is never rewritten: neither a completed run, nor the verdict of
\* a terminal one, nor what any run has settled (validateTransition, reducer).
PastIsKept == CompletedIsForever /\ TerminalIsFinal /\ HistoryIsKept

\* A stored completion can be replayed: "replay never observes a completed run
\* with a pending request".
CompletionReplays == refused # "run_completed"
=============================================================================
