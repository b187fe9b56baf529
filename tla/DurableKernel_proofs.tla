------------------------ MODULE DurableKernel_proofs ------------------------
(***************************************************************************)
(* Proofs about DurableKernel, for every set of requests, effects, owners, *)
(* replies, outcomes, epochs and attempts.                                 *)
(***************************************************************************)
EXTENDS DurableKernel, TLAPS

\* The payload fields of an event, by its type.
LEMMA EventFields ==
    ASSUME NEW e \in Event
    PROVE  /\ e.type = "route_decided" => e.route \in Route
           /\ e.type = "capability_snapshot_read" => e.epoch \in Epoch
           /\ e.type = "verification_recorded" => e.attempt \in Attempt
           /\ e.type \in {"model_request_started", "model_response_received",
                          "model_request_settled", "provider_usage_recorded"} => e.req \in Req
           /\ e.type \in {"effect_intent_created", "effect_settled"} => e.effect \in Effect
           /\ e.type = "effect_intent_created" => e.owner \in Worker \cup {None}
           /\ e.type = "effect_settled" => e.status \in {"known", "unknown"}
           /\ e.type \in {"final_reply_proposed", "final_reply_settled"} => e.reply \in Reply
           /\ e.type = "runtime_status_settled" => e.status \in RuntimeStatus
           /\ e.type = "task_outcome_settled" => e.outcome \in Outcome
  BY SMTT(60) DEF Event, PlainType

\* Applying an event to a projection gives a projection.
LEMMA ApplyTyped ==
    ASSUME NEW p \in Projection, NEW e \in Event
    PROVE  Apply(p, e) \in Projection
  <1>1. NextStatus(p, e) \in RunStatus
    BY EventFields DEF NextStatus, RunStatus, RuntimeStatus, Terminal, Projection
  <1>2. NextReplyState(p, e) \in ReplyState
    BY DEF NextReplyState, ReplyState, Projection
  <1>3. NextReply(p, e) \in Reply \cup {None}
    BY EventFields DEF NextReply, Projection
  <1>4. NextEffect(p, e) \in [Effect -> EffectState]
    BY EventFields DEF NextEffect, EffectState, Projection
  <1>5. NextModel(p, e) \in [Req -> ModelState]
    BY EventFields DEF NextModel, ModelState, Projection
  <1>6. /\ Apply(p, e).route \in Route \cup {None}
        /\ Apply(p, e).outcome \in Outcome \cup {None}
        /\ Apply(p, e).snapshot \in Epoch \cup {None}
        /\ Apply(p, e).probed \in BOOLEAN
        /\ Apply(p, e).verified \in SUBSET Attempt
    BY EventFields DEF Apply, Projection
  <1> QED
    BY <1>1, <1>2, <1>3, <1>4, <1>5, <1>6 DEF Apply, Projection

\* The empty stream has a projection.
LEMMA EmptyTyped == EmptyProjection \in Projection
  BY DEF EmptyProjection, Projection, EffectState, ModelState, RunStatus, ReplyState

\* In every behaviour the projection is of its type, and only an event with a
\* late check makes the stream unreadable.
THEOREM TypeCorrect == Spec => []TypeOK
  <1>1. Init => TypeOK
    BY EmptyTyped DEF Init, TypeOK
  <1>2. TypeOK /\ [Next]_kernelVars => TypeOK'
    BY ApplyTyped DEF TypeOK, Next, AppendEvent, AppendUnreplayable, Reducible,
                      LateChecked, kernelVars
  <1>3. QED
    BY <1>1, <1>2, PTL DEF Spec

-----------------------------------------------------------------------------
(* Safety: completion, publication and failure                             *)

\* The inductive invariant: what a completed run accounts for, and that
\* publication and failure exclude each other.
KernelInv == TypeOK /\ CompletedRunAccounted /\ PublishedRunNeverFails

\* A terminal run accepts stage transitions and the closures of its open work.
LEMMA TerminalAccepts ==
    ASSUME NEW p \in Projection, NEW e \in Event,
           ValidTransition(p, e), p.status \in Terminal
    PROVE  \/ e.type = "stage_transition_recorded"
           \/ e.type = "effect_settled" /\ e.effect \in PendingEffects(p)
           \/ e.type = "model_request_settled" /\ e.req \in PendingModels(p)
           \/ e.type = "task_outcome_settled" /\ p.outcome = None /\ p.replyState # "settled"
  BY DEF ValidTransition, IsTerminalAuditClosure, InOrder, MaySettleOutcome

\* What the properties say of open work is what the kernel's rules ask for.
LEMMA QuietMeans ==
    \A p : Quiet(p) <=> /\ PendingEffects(p) \cup UnknownEffects(p) = {}
                       /\ PendingModels(p) = {}
  BY DEF Quiet, EffectsQuiet

\* Every event on a completed run that accounts for its work changes nothing.
LEMMA CompletedAbsorbs ==
    ASSUME NEW p \in Projection, NEW e \in Event, ValidTransition(p, e),
           p.status = "completed", p.replyState = "settled", Quiet(p)
    PROVE  Apply(p, e) = p
  <1>1. e.type = "stage_transition_recorded"
    BY TerminalAccepts DEF Terminal, Quiet, EffectsQuiet
  <1>2. /\ NextStatus(p, e) = p.status
        /\ NextReplyState(p, e) = p.replyState
        /\ NextReply(p, e) = p.reply
        /\ NextEffect(p, e) = p.effect
        /\ NextModel(p, e) = p.model
    BY <1>1 DEF NextStatus, NextReplyState, NextReply, NextEffect, NextModel
  <1> QED
    BY <1>1, <1>2 DEF Apply, Projection

\* Applying a legal, replayable event keeps both safety invariants.
LEMMA ApplySafe ==
    ASSUME NEW p \in Projection, NEW e \in Event,
           ValidTransition(p, e), Reducible(p, e),
           p.status = "completed" => p.replyState = "settled" /\ Quiet(p),
           p.replyState = "settled" => p.status \notin {"failed", "interrupted"}
    PROVE  LET n == Apply(p, e) IN
           /\ n.status = "completed" => n.replyState = "settled" /\ Quiet(n)
           /\ n.replyState = "settled" => n.status \notin {"failed", "interrupted"}
  <1> DEFINE n == Apply(p, e)
  <1>1. CASE p.status = "completed"
    BY <1>1, CompletedAbsorbs
  <1>2. CASE e.type = "run_completed"
    <2>1. p.replyState = "settled" /\ EffectsQuiet(p) /\ PendingModels(p) = {}
      BY <1>2 DEF ValidTransition, InOrder, MayComplete, Reducible
    <2>2. n.status = "completed" /\ n.replyState = p.replyState
          /\ n.effect = p.effect /\ n.model = p.model
      BY <1>2 DEF Apply, NextStatus, StartsRun, NextReplyState, NextEffect, NextModel
    <2> QED
      BY <2>1, <2>2 DEF Quiet, EffectsQuiet, PendingEffects, UnknownEffects, PendingModels
  <1>3. CASE p.status # "completed" /\ e.type # "run_completed"
    <2>1. n.status # "completed"
      BY <1>3, EventFields DEF Apply, NextStatus, RuntimeStatus
    <2>2. n.replyState = "settled" => n.status \notin {"failed", "interrupted"}
      <3>1. CASE e.type = "final_reply_settled"
        <4>1. p.status \notin Terminal
          BY <3>1 DEF ValidTransition, IsTerminalAuditClosure
        <4>2. n.status = p.status
          BY <3>1 DEF Apply, NextStatus, StartsRun
        <4> QED
          BY <4>1, <4>2 DEF Terminal
      <3>2. CASE e.type # "final_reply_settled" /\ p.replyState = "settled"
        <4>1. e.type \notin {"run_failed", "run_interrupted", "runtime_status_settled"}
          BY <3>2 DEF ValidTransition, InOrder, MayAbort
        <4>2. n.status \in {p.status, "accepted", "running", "waiting_user"}
          BY <1>3, <4>1, SMTT(30) DEF Apply, NextStatus
        <4> QED
          BY <3>2, <4>2
      <3>3. CASE e.type # "final_reply_settled" /\ p.replyState # "settled"
        BY <3>3 DEF Apply, NextReplyState
      <3> QED
        BY <3>1, <3>2, <3>3
    <2> QED
      BY <2>1, <2>2
  <1> QED
    BY <1>1, <1>2, <1>3

\* Types and both safety invariants hold in every behaviour: run_completed and
\* run_failed meet their rules at the event that is appended, and what the
\* kernel accepts afterwards does not undo them.
THEOREM KernelInvariant == Spec => []KernelInv
  <1>1. Init => KernelInv
    BY EmptyTyped DEF Init, KernelInv, TypeOK, CompletedRunAccounted,
                      PublishedRunNeverFails, EmptyProjection
  <1>2. KernelInv /\ [Next]_kernelVars => KernelInv'
    <2> SUFFICES ASSUME KernelInv, [Next]_kernelVars PROVE KernelInv'
      OBVIOUS
    <2>1. TypeOK'
      BY ApplyTyped DEF KernelInv, TypeOK, Next, AppendEvent, AppendUnreplayable,
                        Reducible, LateChecked, kernelVars
    <2>2. ASSUME NEW e \in Event, AppendEvent(e)
          PROVE  CompletedRunAccounted' /\ PublishedRunNeverFails'
      BY <2>2, ApplySafe, QuietMeans DEF KernelInv, TypeOK, AppendEvent, CompletedRunAccounted,
                             PublishedRunNeverFails
    <2>3. ASSUME UNCHANGED run
          PROVE  CompletedRunAccounted' /\ PublishedRunNeverFails'
      BY <2>3 DEF KernelInv, CompletedRunAccounted, PublishedRunNeverFails, Quiet,
                  EffectsQuiet, PendingEffects, UnknownEffects, PendingModels
    <2> QED
      BY <2>1, <2>2, <2>3 DEF KernelInv, Next, AppendUnreplayable, kernelVars
  <1>3. QED
    BY <1>1, <1>2, PTL DEF Spec

\* A completed run has published its reply and has no open or unknown work.
THEOREM CompletedAccounted == Spec => []CompletedRunAccounted
  BY KernelInvariant, PTL DEF KernelInv

\* A run whose reply is published is never failed or interrupted.
THEOREM PublishedNeverFails == Spec => []PublishedRunNeverFails
  BY KernelInvariant, PTL DEF KernelInv

\* Nothing the kernel accepts changes a completed run.
THEOREM CompletedForever == Spec => CompletedIsForever
  <1>1. KernelInv /\ [Next]_kernelVars
            => [run.status = "completed" => UNCHANGED run]_kernelVars
    BY CompletedAbsorbs, QuietMeans DEF KernelInv, TypeOK, CompletedRunAccounted, Next,
                            AppendEvent, AppendUnreplayable, kernelVars
  <1>2. QED
    BY <1>1, KernelInvariant, PTL DEF Spec, CompletedIsForever

-----------------------------------------------------------------------------
(* What a step may never do                                                *)

\* The history one legal event keeps.
LEMMA ApplyKeepsHistory ==
    ASSUME NEW p \in Projection, NEW e \in Event, ValidTransition(p, e)
    PROVE  LET n == Apply(p, e) IN
           /\ \A x \in Effect : p.effect[x].state \in {"known", "unknown"} =>
                                    n.effect[x] = p.effect[x]
           /\ \A q \in Req : p.model[q] = "closed" => n.model[q] = "closed"
           /\ p.outcome # None \/ p.replyState = "settled" => n.outcome = p.outcome
           /\ p.replyState \in {"settled", "runtime_status"} =>
                  n.replyState = p.replyState /\ n.reply = p.reply
  <1>1. ASSUME NEW x \in Effect, p.effect[x].state \in {"known", "unknown"}
        PROVE  Apply(p, e).effect[x] = p.effect[x]
    BY <1>1, EventFields DEF Apply, NextEffect, ValidTransition, InOrder,
                             MaySettleEffect, Projection
  <1>2. ASSUME NEW q \in Req, p.model[q] = "closed"
        PROVE  Apply(p, e).model[q] = "closed"
    BY <1>2, EventFields DEF Apply, NextModel, ValidTransition, InOrder,
                             PendingModels, Projection
  <1>3. ASSUME p.outcome # None \/ p.replyState = "settled"
        PROVE  Apply(p, e).outcome = p.outcome
    BY <1>3 DEF Apply, ValidTransition, InOrder, MaySettleOutcome
  <1>4. ASSUME p.replyState \in {"settled", "runtime_status"}
        PROVE  Apply(p, e).replyState = p.replyState /\ Apply(p, e).reply = p.reply
    BY <1>4 DEF Apply, NextReplyState, NextReply, ValidTransition, InOrder
  <1> QED
    BY <1>1, <1>2, <1>3, <1>4

\* Effects, requests, the outcome and the reply stay as they were settled.
THEOREM HistoryKept == Spec => HistoryIsKept
  <1> DEFINE Kept ==
        /\ \A x \in Effect : run.effect[x].state \in {"known", "unknown"} =>
                                 run'.effect[x] = run.effect[x]
        /\ \A q \in Req : run.model[q] = "closed" => run'.model[q] = "closed"
        /\ run.outcome # None \/ run.replyState = "settled" => run'.outcome = run.outcome
        /\ run.replyState \in {"settled", "runtime_status"} =>
               run'.replyState = run.replyState /\ run'.reply = run.reply
  <1>1. TypeOK /\ [Next]_kernelVars => [Kept]_kernelVars
    <2> SUFFICES ASSUME TypeOK, Next PROVE Kept
      BY DEF kernelVars
    <2>1. ASSUME NEW e \in Event, AppendEvent(e) PROVE Kept
      BY <2>1, ApplyKeepsHistory DEF TypeOK, AppendEvent
    <2>2. ASSUME NEW e \in Event, AppendUnreplayable(e) PROVE Kept
      BY <2>2 DEF AppendUnreplayable
    <2> QED
      BY <2>1, <2>2 DEF Next
  <1>2. QED
    BY <1>1, TypeCorrect, PTL DEF Spec, HistoryIsKept

\* A terminal run is frozen up to the closure of its open work.
LEMMA ApplyOnTerminal ==
    ASSUME NEW p \in Projection, NEW e \in Event, ValidTransition(p, e),
           p.status \in Terminal
    PROVE  LET n == Apply(p, e) IN
           /\ Verdict(n) = Verdict(p)
           /\ \A x \in Effect :
                \/ n.effect[x] = p.effect[x]
                \/ p.effect[x].state = "pending" /\ n.effect[x].state \in {"known", "unknown"}
           /\ PendingModels(n) \subseteq PendingModels(p)
  <1> DEFINE n == Apply(p, e)
  <1>1. e.type \in {"stage_transition_recorded", "effect_settled",
                    "model_request_settled", "task_outcome_settled"}
    BY TerminalAccepts
  <1>2. n.status = p.status
    BY <1>1 DEF Apply, NextStatus, StartsRun, AsksUser, IsDurableRunTerminal, Terminal
  <1>3. n.replyState = p.replyState /\ n.reply = p.reply /\ n.route = p.route
        /\ n.snapshot = p.snapshot /\ n.probed = p.probed /\ n.verified = p.verified
    BY <1>1 DEF Apply, NextReplyState, NextReply, Projection
  <1>4. ASSUME NEW x \in Effect
        PROVE  \/ n.effect[x] = p.effect[x]
               \/ p.effect[x].state = "pending" /\ n.effect[x].state \in {"known", "unknown"}
    BY <1>1, TerminalAccepts, EventFields DEF Apply, NextEffect, PendingEffects,
                                              Projection, EffectState
  <1>5. PendingModels(n) \subseteq PendingModels(p)
    BY <1>1, EventFields DEF Apply, NextModel, PendingModels, Projection
  <1>6. Verdict(n) = Verdict(p)
    BY <1>2, <1>3 DEF Verdict
  <1> QED
    BY <1>4, <1>5, <1>6

\* A terminal run keeps its verdict; only what was open when it ended is closed.
THEOREM TerminalFinal == Spec => TerminalIsFinal
  <1> DEFINE Final == run.status \in Terminal =>
        /\ Verdict(run)' = Verdict(run)
        /\ \A x \in Effect :
              \/ run'.effect[x] = run.effect[x]
              \/ run.effect[x].state = "pending" /\ run'.effect[x].state \in {"known", "unknown"}
        /\ PendingModels(run)' \subseteq PendingModels(run)
  <1>1. TypeOK /\ [Next]_kernelVars => [Final]_kernelVars
    <2> SUFFICES ASSUME TypeOK, Next PROVE Final
      BY DEF kernelVars
    <2>1. ASSUME NEW e \in Event, AppendEvent(e) PROVE Final
      BY <2>1, ApplyOnTerminal DEF TypeOK, AppendEvent, PendingModels, Verdict
    <2>2. ASSUME NEW e \in Event, AppendUnreplayable(e) PROVE Final
      BY <2>2 DEF AppendUnreplayable, TypeOK, Projection, PendingModels, Verdict
    <2> QED
      BY <2>1, <2>2 DEF Next
  <1>2. QED
    BY <1>1, TypeCorrect, PTL DEF Spec, TerminalIsFinal

\* What is over is never rewritten (validateTransition and the reducer).
THEOREM PastKept == Spec => PastIsKept
  BY CompletedForever, TerminalFinal, HistoryKept DEF PastIsKept
=============================================================================
