------------------------- MODULE DurableRun_proofs -------------------------
(***************************************************************************)
(* Proofs about DurableRun, for any number of requests, effects, faults    *)
(* and crashes.  Every step is a step of DurableKernel or leaves the       *)
(* stream alone, so what DurableKernel_proofs shows holds of whole runs;   *)
(* at most one driver works on a run; a tool runs once; event, registry    *)
(* and transcript agree on the reply; the stream replays; and what the     *)
(* Runner reports is true.                                                 *)
(***************************************************************************)
EXTENDS DurableRun, DurableKernel_proofs

\* A proposed reply is there to be settled.
ReplyNamed(p) == p.replyState = "proposed" => p.reply \in Reply

\* The Runner invokes and settles an effect it has in hand.
EffectInHand ==
    live.pc \in {"invoke", "settleEffect"} =>
        live.effect \in live.ledger /\ run.effect[live.effect].state # "absent"

\* The ledger knows every effect whose tool ran; the one about to be invoked
\* has not run.
LedgerKnows ==
    /\ \A x \in Effect : ran[x] > 0 => x \in live.ledger
    /\ live.pc = "invoke" => ran[live.effect] = 0

\* The types of all but the effects' leases.
VarsTyped ==
    /\ TypeOK
    /\ live \in Live
    /\ ran \in [Effect -> 0 .. 2]
    /\ transcript \in {"none", "proposed", "settled"}
    /\ registry \in {"none", "reserved", "settled"}
    /\ lease \in Lease
    /\ pass \in [Pass -> PassState]
    /\ faults \in 0 .. MaxFaults /\ crashes \in 0 .. MaxCrashes

RunTyped ==
    /\ VarsTyped
    /\ ReplyNamed(run)
    /\ \A p \in Pass : ReplyNamed(pass[p].view)

RunInv == RunTyped /\ OneLeaseHolder /\ EffectInHand /\ LedgerKnows /\ ToolRunsOnce

\* What a step may do to the stream.
StreamKept ==
    /\ [Next]_kernelVars
    /\ TypeOK' /\ ReplyNamed(run)'
    /\ \A x \in Effect : run.effect[x].state # "absent" => run'.effect[x].state # "absent"

-----------------------------------------------------------------------------
(* Appends                                                                 *)

\* An effect that has an intent keeps it.
LEMMA ApplyKeepsEffects ==
    ASSUME NEW p \in Projection, NEW e \in Event, NEW x \in Effect,
           p.effect[x].state # "absent"
    PROVE  Apply(p, e).effect[x].state # "absent"
  <1>1. CASE e.type = "effect_intent_created"
    BY <1>1, EventFields DEF Apply, NextEffect, Projection, EffectState
  <1>2. CASE e.type = "effect_settled"
    BY <1>2, EventFields DEF Apply, NextEffect, Projection, EffectState
  <1>3. CASE e.type \notin {"effect_intent_created", "effect_settled"}
    BY <1>3 DEF Apply, NextEffect
  <1> QED
    BY <1>1, <1>2, <1>3

\* A reply is proposed under its name, and keeps it while it is proposed.
LEMMA ApplyNamesReply ==
    ASSUME NEW p \in Projection, NEW e \in Event, ReplyNamed(p)
    PROVE  ReplyNamed(Apply(p, e))
  <1>1. CASE e.type = "final_reply_proposed"
    BY <1>1, EventFields DEF Apply, NextReply, ReplyNamed
  <1>2. CASE e.type \in {"final_reply_settled", "runtime_status_settled"}
    BY <1>2 DEF Apply, NextReplyState, ReplyNamed
  <1>3. CASE e.type \notin {"final_reply_proposed", "final_reply_settled",
                            "runtime_status_settled"}
    BY <1>3 DEF Apply, NextReplyState, NextReply, ReplyNamed
  <1> QED
    BY <1>1, <1>2, <1>3

\* Storing an event of the kernel's vocabulary is a step of the kernel.
LEMMA StoresKept ==
    ASSUME NEW e \in Event, Stores(e), TypeOK, ReplyNamed(run)
    PROVE  StreamKept
  <1>1. CASE AppendEvent(e)
    <2>1. run \in Projection /\ run' = Apply(run, e) /\ refused' = refused
      BY <1>1 DEF TypeOK, AppendEvent
    <2>2. TypeOK'
      BY <2>1, ApplyTyped DEF TypeOK
    <2>3. ReplyNamed(run)'
      BY <2>1, ApplyNamesReply DEF ReplyNamed
    <2>4. \A x \in Effect : run.effect[x].state # "absent" => run'.effect[x].state # "absent"
      BY <2>1, ApplyKeepsEffects
    <2> QED
      BY <1>1, <2>2, <2>3, <2>4 DEF StreamKept, Next
  <1>2. CASE AppendUnreplayable(e)
    <2>1. run' = run /\ refused' = e.type /\ ~Reducible(run, e)
      BY <1>2 DEF AppendUnreplayable
    <2>2. TypeOK'
      BY <2>1 DEF TypeOK, Reducible, LateChecked
    <2> QED
      BY <1>2, <2>1, <2>2 DEF StreamKept, Next, ReplyNamed
  <1> QED
    BY <1>1, <1>2 DEF Stores

\* A step that leaves the stream alone keeps it.
LEMMA QuietKept ==
    ASSUME UNCHANGED <<run, refused>>, TypeOK, ReplyNamed(run)
    PROVE  StreamKept
  BY DEF StreamKept, TypeOK, ReplyNamed, kernelVars

\* An append keeps the stream, whether it returns or fails, and counts faults.
LEMMA AppendKept ==
    ASSUME NEW e, NEW ok \in BOOLEAN, Append(e, ok), RunTyped,
           ValidTransition(run, e) => e \in Event
    PROVE  StreamKept /\ faults' \in 0 .. MaxFaults
  <1>1. TypeOK /\ ReplyNamed(run) /\ faults \in 0 .. MaxFaults
    BY DEF RunTyped, VarsTyped
  <1>2. faults' \in 0 .. MaxFaults
    BY <1>1, RunBounds DEF Append, Fault
  <1>3. CASE Stores(e)
    <2>1. e \in Event
      BY <1>3 DEF Stores, AppendEvent, AppendUnreplayable
    <2> QED
      BY <1>1, <1>2, <1>3, <2>1, StoresKept
  <1>4. CASE UNCHANGED <<run, refused>>
    BY <1>1, <1>2, <1>4, QuietKept
  <1> QED
    BY <1>3, <1>4 DEF Append, kernelVars

-----------------------------------------------------------------------------
(* The Runner's steps                                                      *)

\* A step of the Runner that appends an event of the vocabulary.
LEMMA LiveAppendsKept ==
    ASSUME NEW e, NEW onOk, NEW onFail, LiveAppends(e, onOk, onFail), RunTyped,
           ValidTransition(run, e) => e \in Event
    PROVE  /\ StreamKept /\ faults' \in 0 .. MaxFaults
           /\ live' \in {onOk, onFail}
           /\ UNCHANGED <<ran, transcript, registry, lease, pass, crashes>>
  BY AppendKept DEF LiveAppends, stores

\* A step of the Runner that appends nothing.
LEMMA LiveQuietKept ==
    ASSUME RunTyped,
           UNCHANGED <<run, refused>>, faults' = faults \/ Fault
    PROVE  StreamKept /\ faults' \in 0 .. MaxFaults
  BY QuietKept, RunBounds DEF Fault, RunTyped, VarsTyped

\* Moving the control point, with or without an error, is typed.
LEMMA Moves ==
    ASSUME live \in Live
    PROVE  /\ \A pc \in LivePc : At(pc) \in Live /\ FailAt(pc) \in Live
           /\ FailEarly \in Live
           /\ \A q \in Req : Rejected(q) \in Live
  <1>1. \A pc \in LivePc : At(pc) \in Live /\ FailAt(pc) \in Live
    BY DEF At, FailAt, Live
  <1>2. FailEarly \in Live
    BY DEF FailEarly, Live, LivePc
  <1>3. \A q \in Req : Rejected(q) \in Live
    BY DEF Rejected, Live
  <1> QED
    BY <1>1, <1>2, <1>3

\* Every step of the Runner keeps the stream and moves the Runner to a state of
\* its type; the recovery passes and the crash counter are not its to change.
LEMMA LiveStepTyped ==
    ASSUME RunInv, LiveStep
    PROVE  /\ StreamKept /\ faults' \in 0 .. MaxFaults
           /\ live' \in Live
           /\ UNCHANGED <<pass, crashes>>
  <1> DEFINE Goal == /\ StreamKept /\ faults' \in 0 .. MaxFaults
                     /\ live' \in Live
                     /\ UNCHANGED <<pass, crashes>>
  <1>0. RunTyped /\ TypeOK /\ live \in Live /\ EffectInHand
    BY DEF RunInv, RunTyped, VarsTyped
  <1>1. CASE Accept
    <2>1. [type |-> "run_accepted"] \in Event
      BY DEF Event, PlainType
    <2>2. LiveAppends([type |-> "run_accepted"],
                      At("lease"), FailEarly)
      BY <1>1 DEF Accept
    <2>3. At("lease") \in Live /\ FailEarly \in Live
      BY <1>0, Moves DEF LivePc
    <2> QED
      BY <1>0, <2>1, <2>2, <2>3, LiveAppendsKept
  <1>2. CASE AcquireRunLease
    <2>1. live' \in Live
      BY <1>0, <1>2, Moves DEF AcquireRunLease, LivePc
    <2>2. UNCHANGED <<run, refused, pass, crashes>> /\ (faults' = faults \/ Fault)
      BY <1>2 DEF AcquireRunLease
    <2> QED
      BY <1>0, <2>1, <2>2, LiveQuietKept
  <1>3. CASE RecordUserInput
    <2>1. [type |-> "user_input_appended"] \in Event
      BY DEF Event, PlainType
    <2>2. LiveAppends([type |-> "user_input_appended"],
                      At("work"), FailEarly)
      BY <1>3 DEF RecordUserInput
    <2>3. At("work") \in Live /\ FailEarly \in Live
      BY <1>0, Moves DEF LivePc
    <2> QED
      BY <1>0, <2>1, <2>2, <2>3, LiveAppendsKept
  <1>4. ASSUME NEW q \in Req, StartRequest(q) PROVE Goal
    <2>1. [type |-> "model_request_started", req |-> q, retryOf |-> None] \in Event
      BY DEF Event
    <2>2. LiveAppends([type |-> "model_request_started", req |-> q, retryOf |-> None],
                      [live EXCEPT !.asked = @ \cup {q}, !.open[q] = "started"],
                      [live EXCEPT !.asked = @ \cup {q}, !.broken = TRUE])
      BY <1>4 DEF StartRequest
    <2>3. /\ [live EXCEPT !.asked = @ \cup {q}, !.open[q] = "started"] \in Live
          /\ [live EXCEPT !.asked = @ \cup {q}, !.broken = TRUE] \in Live
      BY <1>0, Moves DEF Live
    <2> QED
      BY <1>0, <2>1, <2>2, <2>3, LiveAppendsKept
  <1>5. ASSUME NEW q \in Req, Answer(q) PROVE Goal
    BY <1>0, <1>5, LiveQuietKept DEF Answer, LiveMoves, Live
  <1>6. ASSUME NEW q \in Req, AppendResponse(q) PROVE Goal
    <2>1. [type |-> "model_response_received", req |-> q] \in Event
      BY DEF Event
    <2>2. LiveAppends([type |-> "model_response_received", req |-> q],
                      [live EXCEPT !.open[q] = "received"], Rejected(q))
      BY <1>6 DEF AppendResponse
    <2>3. [live EXCEPT !.open[q] = "received"] \in Live /\ Rejected(q) \in Live
      BY <1>0, Moves DEF Live
    <2> QED
      BY <1>0, <2>1, <2>2, <2>3, LiveAppendsKept
  <1>7. ASSUME NEW q \in Req, AppendSettlement(q) PROVE Goal
    <2>1. [type |-> "model_request_settled", req |-> q, received |-> TRUE] \in Event
      BY DEF Event
    <2>2. LiveAppends([type |-> "model_request_settled", req |-> q, received |-> TRUE],
                      [live EXCEPT !.open[q] = "none"], Rejected(q))
      BY <1>7 DEF AppendSettlement
    <2>3. [live EXCEPT !.open[q] = "none"] \in Live /\ Rejected(q) \in Live
      BY <1>0, Moves DEF Live
    <2> QED
      BY <1>0, <2>1, <2>2, <2>3, LiveAppendsKept
  <1>8. ASSUME NEW q \in Req, SettleUnanswered(q) PROVE Goal
    <2>1. [type |-> "model_request_settled", req |-> q, received |-> FALSE] \in Event
      BY DEF Event
    <2>2. LiveAppends([type |-> "model_request_settled", req |-> q, received |-> FALSE],
                      [live EXCEPT !.open[q] = "none"], Rejected(q))
      BY <1>8 DEF SettleUnanswered
    <2>3. [live EXCEPT !.open[q] = "none"] \in Live /\ Rejected(q) \in Live
      BY <1>0, Moves DEF Live
    <2> QED
      BY <1>0, <2>1, <2>2, <2>3, LiveAppendsKept
  <1>9. CASE FlushFails
    <2>1. AfterFlushFailure[live.pc] \in LivePc
      BY <1>9 DEF FlushFails, AfterFlushFailure, Flushing, Reporting, LivePc
    <2> QED
      BY <1>0, <1>9, <2>1, Moves, LiveQuietKept DEF FlushFails, LiveMoves
  <1>10. CASE FlushReturns
    <2>1. AfterFlush[live.pc] \in LivePc
      BY <1>10 DEF FlushReturns, AfterFlush, Flushing, LivePc
    <2> QED
      BY <1>0, <1>10, <2>1, Moves, LiveQuietKept DEF FlushReturns, LiveMoves
  <1>11. ASSUME NEW x \in Effect, BeginSideEffect(x) PROVE Goal
    <2> DEFINE known == [live EXCEPT !.ledger = @ \cup {x}]
               begun == [known EXCEPT !.pc = "invoke", !.effect = x]
    <2>1. known \in Live /\ begun \in Live
      BY <1>0 DEF Live, LivePc
    <2>2. CASE LiveMoves(begun)
      BY <1>0, <2>1, <2>2, LiveQuietKept DEF LiveMoves
    <2>3. CASE LiveAppends([type |-> "effect_intent_created", effect |-> x, owner |-> None],
                           begun, known)
      <3>1. [type |-> "effect_intent_created", effect |-> x, owner |-> None] \in Event
        BY DEF Event
      <3> QED
        BY <1>0, <2>1, <2>3, <3>1, LiveAppendsKept
    <2> QED
      BY <1>11, <2>2, <2>3 DEF BeginSideEffect
  <1>12. CASE InvokeTool
    <2>1. live' \in Live
      BY <1>0, <1>12, Moves DEF InvokeTool, LivePc
    <2>2. UNCHANGED <<run, refused, pass, crashes>> /\ (faults' = faults \/ Fault)
      BY <1>12 DEF InvokeTool
    <2> QED
      BY <1>0, <2>1, <2>2, LiveQuietKept
  <1>13. CASE CancelTool
    <2>1. live' \in Live
      BY <1>0, <1>13, Moves DEF CancelTool, LiveMoves, LivePc
    <2>2. UNCHANGED <<run, refused, pass, crashes>> /\ (faults' = faults \/ Fault)
      BY <1>13 DEF CancelTool, LiveMoves
    <2> QED
      BY <1>0, <2>1, <2>2, LiveQuietKept
  <1>14. CASE FinishSideEffect
    <2> DEFINE back == [live EXCEPT !.pc = "work", !.effect = None]
    <2>1. PICK st \in {"known", "unknown"} :
            LiveAppends([type |-> "effect_settled", effect |-> live.effect, status |-> st,
                         source |-> "tool", owner |-> None], back, back)
      BY <1>14 DEF FinishSideEffect
    <2>2. live.effect \in Effect
      BY <1>0, <1>14 DEF FinishSideEffect, EffectInHand, Live
    <2>3. [type |-> "effect_settled", effect |-> live.effect, status |-> st,
           source |-> "tool", owner |-> None] \in Event
      BY <2>2 DEF Event
    <2>4. back \in Live
      BY <1>0 DEF Live, LivePc
    <2> QED
      BY <1>0, <2>1, <2>3, <2>4, LiveAppendsKept
  <1>15. CASE LeaveStages
    <2>1. /\ At("flushFinalize") \in Live /\ FailAt("outcome") \in Live
          /\ FailAt("publicationFailed") \in Live
      BY <1>0, Moves DEF LivePc, Flushing, Reporting
    <2>2. [live EXCEPT !.pc = "outcome", !.result = "aborted"] \in Live
      BY <1>0 DEF Live, LivePc
    <2>3. live' \in Live
      BY <1>15, <2>1, <2>2 DEF LeaveStages, LiveMoves
    <2>4. UNCHANGED <<run, refused, faults, pass, crashes>>
      BY <1>15 DEF LeaveStages, LiveMoves
    <2> QED
      BY <1>0, <2>3, <2>4, LiveQuietKept
  <1>16. CASE ReserveReply
    <2>1. live' \in Live
      BY <1>0, <1>16, Moves DEF ReserveReply, LiveFaults, LivePc
    <2>2. UNCHANGED <<run, refused, pass, crashes>> /\ (faults' = faults \/ Fault)
      BY <1>16 DEF ReserveReply, LiveFaults
    <2> QED
      BY <1>0, <2>1, <2>2, LiveQuietKept
  <1>17. CASE ProposeReply
    <2>1. PICK r \in Reply :
            LiveAppends([type |-> "final_reply_proposed", reply |-> r],
                        At("transcript"), FailAt("outcome"))
      BY <1>17 DEF ProposeReply
    <2>2. [type |-> "final_reply_proposed", reply |-> r] \in Event
      BY DEF Event
    <2>3. At("transcript") \in Live /\ FailAt("outcome") \in Live
      BY <1>0, Moves DEF LivePc
    <2> QED
      BY <1>0, <2>1, <2>2, <2>3, LiveAppendsKept
  <1>18. CASE AppendTranscript
    <2>1. live' \in Live
      BY <1>0, <1>18, Moves DEF AppendTranscript, LiveFaults, LivePc, Reporting
    <2>2. UNCHANGED <<run, refused, pass, crashes>> /\ (faults' = faults \/ Fault)
      BY <1>18 DEF AppendTranscript, LiveFaults
    <2> QED
      BY <1>0, <2>1, <2>2, LiveQuietKept
  <1>19. CASE ReportRuntimeFailure
    <2>1. [type |-> "runtime_status_settled", status |-> "failed"] \in Event
      BY DEF Event, RuntimeStatus
    <2>2. AfterReport[live.pc] \in LivePc
      BY <1>19 DEF ReportRuntimeFailure, AfterReport, Reporting, LivePc, Flushing
    <2> QED
      BY <1>0, <1>19, <2>1, <2>2, LiveAppendsKept DEF ReportRuntimeFailure, At, Live
  <1>20. CASE SettleOutcome
    <2>1. PICK o \in Outcome \ {UnknownOutcome} :
            LiveAppends([type |-> "task_outcome_settled", outcome |-> o],
                        At("flushPersist"), FailAt("publicationFailed"))
      BY <1>20 DEF SettleOutcome
    <2>2. [type |-> "task_outcome_settled", outcome |-> o] \in Event
      BY DEF Event
    <2>3. At("flushPersist") \in Live /\ FailAt("publicationFailed") \in Live
      BY <1>0, Moves DEF LivePc, Flushing, Reporting
    <2> QED
      BY <1>0, <2>1, <2>2, <2>3, LiveAppendsKept
  <1>21. CASE Persist
    <2>1. live' \in Live
      BY <1>0, <1>21, Moves DEF Persist, LiveMoves, LiveFaults, LivePc, Flushing, Reporting
    <2>2. UNCHANGED <<run, refused, pass, crashes>> /\ (faults' = faults \/ Fault)
      BY <1>21 DEF Persist, LiveMoves, LiveFaults
    <2> QED
      BY <1>0, <2>1, <2>2, LiveQuietKept
  <1>22. CASE SettleReply
    <2> DEFINE e == [type |-> "final_reply_settled", reply |-> run.reply]
    <2>1. ValidTransition(run, e) => run.replyState = "proposed"
      BY DEF ValidTransition, InOrder
    <2>2. ValidTransition(run, e) => e \in Event
      BY <1>0, <2>1 DEF RunTyped, ReplyNamed, Event
    <2>3. LiveAppends(e, At("registry"), FailAt("release"))
      BY <1>22 DEF SettleReply, AfterReplyFailure
    <2>4. At("registry") \in Live /\ FailAt("release") \in Live
      BY <1>0, Moves DEF LivePc
    <2> QED
      BY <1>0, <2>2, <2>3, <2>4, LiveAppendsKept
  <1>23. CASE SettleRegistry
    <2>1. live' \in Live
      BY <1>0, <1>23, Moves DEF SettleRegistry, AfterReplyFailure, LiveFaults, LivePc
    <2>2. UNCHANGED <<run, refused, pass, crashes>> /\ (faults' = faults \/ Fault)
      BY <1>23 DEF SettleRegistry, LiveFaults
    <2> QED
      BY <1>0, <2>1, <2>2, LiveQuietKept
  <1>24. CASE PromoteTranscript
    <2>1. live' \in Live
      BY <1>0, <1>24, Moves DEF PromoteTranscript, AfterReplyFailure, LiveFaults, LivePc
    <2>2. UNCHANGED <<run, refused, pass, crashes>> /\ (faults' = faults \/ Fault)
      BY <1>24 DEF PromoteTranscript, LiveFaults
    <2> QED
      BY <1>0, <2>1, <2>2, LiveQuietKept
  <1>25. CASE DecideOutcome
    <2>1. live' \in Live
      BY <1>0, <1>25, Moves DEF DecideOutcome, LiveMoves, LiveFaults, LivePc
    <2>2. UNCHANGED <<run, refused, pass, crashes>> /\ (faults' = faults \/ Fault)
      BY <1>25 DEF DecideOutcome, LiveMoves, LiveFaults
    <2> QED
      BY <1>0, <2>1, <2>2, LiveQuietKept
  <1>26. CASE RecordOutcome
    <2>1. [type |-> TerminalEvent[live.result]] \in Event
      BY <1>0 DEF TerminalEvent, Live, Event, PlainType
    <2> QED
      BY <1>0, <1>26, <2>1, LiveAppendsKept
         DEF RecordOutcome, AfterRecordFailure, At, Live, LivePc
  <1>27. CASE ReleaseRun
    <2>1. live' \in Live
      BY <1>0, <1>27, Moves DEF ReleaseRun, LiveFaults, LivePc
    <2>2. UNCHANGED <<run, refused, pass, crashes>> /\ (faults' = faults \/ Fault)
      BY <1>27 DEF ReleaseRun, LiveFaults
    <2> QED
      BY <1>0, <2>1, <2>2, LiveQuietKept
  <1> QED
    BY <1>1, <1>2, <1>3, <1>4, <1>5, <1>6, <1>7, <1>8, <1>9, <1>10, <1>11, <1>12,
       <1>13, <1>14, <1>15, <1>16, <1>17, <1>18, <1>19, <1>20, <1>21, <1>22, <1>23,
       <1>24, <1>25, <1>26, <1>27 DEF LiveStep

\* A step of the Runner other than acquire and release leaves the lease alone
\* and works only if the Runner worked before.
LEMMA LiveStepKeepsLease ==
    ASSUME live \in Live, LiveStep, ~AcquireRunLease, ~ReleaseRun
    PROVE  UNCHANGED lease /\ (Working' => Working)
  <1> DEFINE Goal == UNCHANGED lease /\ (Working' => Working)
  <1> USE DEF Working
  <1>1. CASE Accept \/ RecordUserInput
    BY <1>1 DEF Accept, RecordUserInput, LiveAppends, At, FailEarly, Live
  <1>2. ASSUME NEW q \in Req, StartRequest(q) \/ AppendResponse(q) \/ AppendSettlement(q)
                                \/ SettleUnanswered(q)
        PROVE  Goal
    <2>1. live'.pc = live.pc /\ UNCHANGED lease
      BY <1>2 DEF StartRequest, AppendResponse, AppendSettlement, SettleUnanswered,
                  LiveAppends, Rejected, Live
    <2> QED
      BY <2>1
  <1>3. ASSUME NEW q \in Req, Answer(q) PROVE Goal
    BY <1>3 DEF Answer, LiveMoves, Live
  <1>4. CASE FlushFails \/ FlushReturns
    BY <1>4 DEF FlushFails, FlushReturns, LiveMoves, Flushing
  <1>5. ASSUME NEW x \in Effect, BeginSideEffect(x) PROVE Goal
    BY <1>5 DEF BeginSideEffect, LiveMoves, LiveAppends
  <1>6. CASE InvokeTool \/ CancelTool \/ FinishSideEffect \/ LeaveStages
    BY <1>6 DEF InvokeTool, CancelTool, FinishSideEffect, LeaveStages, LiveMoves, LiveAppends
  <1>7. CASE ReserveReply \/ ProposeReply \/ AppendTranscript
    BY <1>7 DEF ReserveReply, ProposeReply, AppendTranscript, LiveFaults, LiveAppends
  <1>8. CASE ReportRuntimeFailure \/ SettleOutcome \/ Persist
    BY <1>8 DEF ReportRuntimeFailure, SettleOutcome, Persist, LiveMoves, LiveFaults,
                LiveAppends, Reporting
  <1>9. CASE SettleReply \/ SettleRegistry \/ PromoteTranscript
    BY <1>9 DEF SettleReply, SettleRegistry, PromoteTranscript, LiveFaults, LiveAppends
  <1>10. CASE DecideOutcome \/ RecordOutcome
    BY <1>10 DEF DecideOutcome, RecordOutcome, AfterRecordFailure, LiveMoves, LiveFaults, LiveAppends,
                 At, Live
  <1> QED
    BY <1>1, <1>2, <1>3, <1>4, <1>5, <1>6, <1>7, <1>8, <1>9, <1>10 DEF LiveStep

\* The Runner works under its own lease only, and takes it from nobody.
LEMMA LiveStepDrives ==
    ASSUME RunInv, LiveStep
    PROVE  OneLeaseHolder' /\ lease' \in Lease
  <1>0. OneLeaseHolder /\ live \in Live /\ lease \in Lease /\ UNCHANGED pass
    BY LiveStepTyped DEF RunInv, RunTyped, VarsTyped
  <1>1. CASE AcquireRunLease
    <2>1. CASE Free
      <3>1. \A p \in Pass : ~Recovering(p)
        BY <1>0, <2>1 DEF OneLeaseHolder, Free
      <3>2. \A p \in Pass : ~Recovering(p)'
        BY <1>0, <3>1 DEF Recovering
      <3>3. lease' \in Lease /\ (Working' => lease' = [state |-> "active", owner |-> "live"])
        <4>1. CASE lease' = [state |-> "active", owner |-> "live"]
          BY <4>1 DEF Lease
        <4>2. CASE lease' = lease /\ live' = FailEarly
          BY <1>0, <4>2 DEF Working, FailEarly, Live
        <4> QED
          BY <1>1, <2>1, <4>1, <4>2 DEF AcquireRunLease
      <3> QED
        BY <3>2, <3>3 DEF OneLeaseHolder
    <2>2. CASE ~Free
      BY <1>0, <1>1, <2>2 DEF AcquireRunLease, OneLeaseHolder, Recovering, Working, FailEarly, Live
    <2> QED
      BY <2>1, <2>2
  <1>2. CASE ReleaseRun
    <2>1. ~Working'
      BY <1>0, <1>2 DEF ReleaseRun, LiveFaults, At, Live, Working
    <2>2. \A p \in Pass : Recovering(p) => lease.owner # "live"
      BY <1>0 DEF OneLeaseHolder, Pass
    <2>3. /\ lease' = lease \/ (lease.owner = "live"
                                  /\ lease' = [state |-> "released", owner |-> None])
          /\ lease' \in Lease
      BY <1>0, <1>2 DEF ReleaseRun, LiveFaults, Lease
    <2> QED
      BY <1>0, <2>1, <2>2, <2>3 DEF OneLeaseHolder, Recovering
  <1>3. CASE ~AcquireRunLease /\ ~ReleaseRun
    BY <1>0, <1>3, LiveStepKeepsLease DEF OneLeaseHolder, Recovering
  <1> QED
    BY <1>1, <1>2, <1>3

\* The Runner's steps keep the ledger ahead of the tools, and run none twice.
LEMMA LiveStepTools ==
    ASSUME RunInv, LiveStep
    PROVE  EffectInHand' /\ LedgerKnows' /\ ToolRunsOnce' /\ ran' \in [Effect -> 0 .. 2]
  <1>0. /\ live \in Live /\ live' \in Live /\ ran \in [Effect -> 0 .. 2]
        /\ EffectInHand /\ LedgerKnows /\ ToolRunsOnce
        /\ \A x \in Effect : run.effect[x].state # "absent" => run'.effect[x].state # "absent"
    BY LiveStepTyped DEF RunInv, RunTyped, VarsTyped, StreamKept
  <1> DEFINE Goal == EffectInHand' /\ LedgerKnows' /\ ToolRunsOnce' /\ ran' \in [Effect -> 0 .. 2]
  <1>1. CASE /\ UNCHANGED ran
             /\ live'.ledger = live.ledger
             /\ \/ live'.pc \notin {"invoke", "settleEffect"}
                \/ live'.pc = live.pc /\ live'.effect = live.effect
    BY <1>0, <1>1 DEF EffectInHand, LedgerKnows, ToolRunsOnce, Live
  <1>2. ASSUME NEW x \in Effect, BeginSideEffect(x) PROVE Goal
    <2> DEFINE known == [live EXCEPT !.ledger = @ \cup {x}]
               begun == [known EXCEPT !.pc = "invoke", !.effect = x]
    <2>1. x \notin live.ledger /\ ran[x] = 0 /\ live.pc = "work" /\ UNCHANGED ran
      BY <1>0, <1>2 DEF BeginSideEffect, LedgerAdmits, LedgerKnows, LiveMoves, LiveAppends
    <2>2. /\ known.ledger = live.ledger \cup {x} /\ known.pc = "work"
          /\ begun.ledger = live.ledger \cup {x} /\ begun.pc = "invoke" /\ begun.effect = x
      BY <1>0, <2>1 DEF Live
    <2>3. CASE live' = known
      BY <1>0, <2>1, <2>2, <2>3 DEF EffectInHand, LedgerKnows, ToolRunsOnce, Live
    <2>4. CASE live' = begun /\ run'.effect[x].state # "absent"
      BY <1>0, <2>1, <2>2, <2>4 DEF EffectInHand, LedgerKnows, ToolRunsOnce, Live
    <2>5. \/ live' = known
          \/ live' = begun /\ run'.effect[x].state # "absent"
      <3> DEFINE e == [type |-> "effect_intent_created", effect |-> x, owner |-> None]
      <3>1. CASE LiveMoves(begun) /\ run.effect[x].state # "absent"
        BY <3>1 DEF LiveMoves
      <3>2. ASSUME NEW ok \in BOOLEAN, Append(e, ok), live' = IF ok THEN begun ELSE known
            PROVE  \/ live' = known
                   \/ live' = begun /\ run'.effect[x].state # "absent"
        <4>1. CASE ~ok
          BY <3>2, <4>1
        <4>2. CASE ok
          <5>1. run \in Projection /\ Stores(e)
            BY <3>2, <4>2 DEF Append, RunInv, RunTyped, VarsTyped, TypeOK
          <5>2. run' = Apply(run, e)
            BY <5>1 DEF Stores, AppendEvent, AppendUnreplayable, Reducible
          <5>3. Apply(run, e).effect = NextEffect(run, e)
            BY DEF Apply
          <5>4. NextEffect(run, e)[x].state = "pending"
            BY <5>1 DEF NextEffect, Projection
          <5> QED
            BY <3>2, <4>2, <5>2, <5>3, <5>4
        <4> QED
          BY <4>1, <4>2
      <3> QED
        BY <1>2, <3>1, <3>2 DEF BeginSideEffect, LiveAppends
    <2> QED
      BY <2>3, <2>4, <2>5
  <1>3. CASE InvokeTool
    <2>1. /\ live.pc = "invoke" /\ live' = [live EXCEPT !.pc = "settleEffect"]
          /\ ran' = [ran EXCEPT ![live.effect] = @ + 1]
          /\ live.effect \in Effect /\ ran[live.effect] = 0
      BY <1>0, <1>3 DEF InvokeTool, At, EffectInHand, LedgerKnows, Live
    <2>2. ran' \in [Effect -> 0 .. 2]
      BY <1>0, <2>1
    <2> QED
      BY <1>0, <2>1, <2>2 DEF EffectInHand, LedgerKnows, ToolRunsOnce, Live
  <1>4. CASE CancelTool
    <2>1. live.pc = "invoke" /\ live' = [live EXCEPT !.pc = "settleEffect"] /\ UNCHANGED ran
      BY <1>4 DEF CancelTool, LiveMoves, At
    <2> QED
      BY <1>0, <2>1 DEF EffectInHand, LedgerKnows, ToolRunsOnce, Live
  <1>5. CASE Accept \/ RecordUserInput \/ FinishSideEffect \/ LeaveStages
    BY <1>0, <1>1, <1>5 DEF Accept, RecordUserInput, FinishSideEffect, LeaveStages,
                            LiveAppends, LiveMoves, At, FailAt, FailEarly, Live
  <1>6. CASE AcquireRunLease \/ ReleaseRun
    BY <1>0, <1>1, <1>6 DEF AcquireRunLease, ReleaseRun, LiveFaults, At, FailEarly, Live
  <1>7. ASSUME NEW q \in Req, StartRequest(q) \/ AppendResponse(q) \/ AppendSettlement(q)
                                \/ SettleUnanswered(q) \/ Answer(q)
        PROVE  Goal
    BY <1>0, <1>1, <1>7 DEF StartRequest, AppendResponse, AppendSettlement, SettleUnanswered,
                            Answer, LiveAppends, LiveMoves, Rejected, Live
  <1>8. CASE FlushFails \/ FlushReturns \/ ReportRuntimeFailure
    <2>1. /\ live.pc \in Flushing => AfterFlushFailure[live.pc] \notin {"invoke", "settleEffect"}
          /\ live.pc \in Reporting => AfterReport[live.pc] \notin {"invoke", "settleEffect"}
          /\ live.pc \in Flushing => AfterFlush[live.pc] \notin {"invoke", "settleEffect"}
      BY DEF AfterFlush, AfterFlushFailure, AfterReport, Flushing, Reporting
    <2> QED
      BY <1>0, <1>1, <1>8, <2>1 DEF FlushFails, FlushReturns, ReportRuntimeFailure,
                                    LiveAppends, LiveMoves, At, FailAt, Live
  <1>9. CASE ReserveReply \/ ProposeReply \/ AppendTranscript \/ SettleOutcome \/ Persist
    BY <1>0, <1>1, <1>9 DEF ReserveReply, ProposeReply, AppendTranscript, SettleOutcome,
                            Persist, LiveAppends, LiveMoves, LiveFaults, At, FailAt, Live
  <1>10. CASE SettleReply \/ SettleRegistry \/ PromoteTranscript
    BY <1>0, <1>1, <1>10 DEF SettleReply, SettleRegistry, PromoteTranscript,
                             AfterReplyFailure, LiveAppends, LiveFaults, At, FailAt, Live
  <1>11. CASE DecideOutcome \/ RecordOutcome
    BY <1>0, <1>1, <1>11 DEF DecideOutcome, RecordOutcome, AfterRecordFailure,
                             LiveAppends, LiveMoves, LiveFaults, At, Live
  <1> QED
    BY <1>2, <1>3, <1>4, <1>5, <1>6, <1>7, <1>8, <1>9, <1>10, <1>11 DEF LiveStep

\* The values the transcript and the registry take.
StoresTyped ==
    /\ transcript \in {"none", "proposed", "settled"}
    /\ registry \in {"none", "reserved", "settled"}

\* The Runner's steps keep the reply stores of their type.
LEMMA LiveStepStores ==
    ASSUME StoresTyped, LiveStep
    PROVE  StoresTyped'
  <1>1. CASE UNCHANGED <<transcript, registry>>
    BY <1>1 DEF StoresTyped
  <1>2. CASE ReserveReply \/ AppendTranscript \/ SettleRegistry \/ PromoteTranscript
    BY <1>2 DEF ReserveReply, AppendTranscript, SettleRegistry, PromoteTranscript,
                LiveFaults, StoresTyped, stores
  <1>3. CASE Accept \/ AcquireRunLease \/ RecordUserInput \/ ReleaseRun
    BY <1>1, <1>3 DEF Accept, AcquireRunLease, RecordUserInput, ReleaseRun, LiveFaults,
                      LiveAppends, stores
  <1>4. ASSUME NEW q \in Req, StartRequest(q) \/ AppendResponse(q) \/ AppendSettlement(q)
                                \/ SettleUnanswered(q) \/ Answer(q)
        PROVE  StoresTyped'
    BY <1>1, <1>4 DEF StartRequest, AppendResponse, AppendSettlement, SettleUnanswered,
                      Answer, LiveAppends, LiveMoves, stores
  <1>5. CASE FlushFails \/ FlushReturns \/ ReportRuntimeFailure
    BY <1>1, <1>5 DEF FlushFails, FlushReturns, ReportRuntimeFailure, LiveAppends,
                      LiveMoves, stores
  <1>6. ASSUME NEW x \in Effect, BeginSideEffect(x) PROVE StoresTyped'
    BY <1>1, <1>6 DEF BeginSideEffect, LiveAppends, LiveMoves, stores
  <1>7. CASE InvokeTool \/ CancelTool \/ FinishSideEffect \/ LeaveStages
    BY <1>1, <1>7 DEF InvokeTool, CancelTool, FinishSideEffect, LeaveStages, LiveAppends,
                      LiveMoves, stores
  <1>8. CASE ProposeReply \/ SettleOutcome \/ Persist \/ SettleReply
    BY <1>1, <1>8 DEF ProposeReply, SettleOutcome, Persist, SettleReply, LiveAppends,
                      LiveMoves, LiveFaults, stores
  <1>9. CASE DecideOutcome \/ RecordOutcome
    BY <1>1, <1>9 DEF DecideOutcome, RecordOutcome, LiveAppends, LiveMoves, LiveFaults,
                      stores
  <1> QED
    BY <1>2, <1>3, <1>4, <1>5, <1>6, <1>7, <1>8, <1>9 DEF LiveStep

-----------------------------------------------------------------------------
(* The steps of a recovery pass                                            *)

\* What a step of one pass does, but for the lease: the stream is kept, the
\* Runner and the other passes are left alone, and the pass moves to a state of
\* its type whose view names the reply it proposes.
PassKept(p) ==
    /\ StreamKept /\ faults' \in 0 .. MaxFaults
    /\ StoresTyped'
    /\ \E next \in PassState :
          ReplyNamed(next.view) /\ pass' = [pass EXCEPT ![p] = next]
    /\ UNCHANGED <<live, ran, crashes>>

\* A step of a pass that appends an event of the vocabulary.
LEMMA PassAppendsKept ==
    ASSUME NEW p \in Pass, NEW e, NEW next \in PassState, ReplyNamed(next.view),
           PassAppends(p, e, next), RunTyped, StoresTyped,
           ValidTransition(run, e) => e \in Event
    PROVE  PassKept(p) /\ UNCHANGED lease
           /\ (pass'[p].pc \in {next.pc, "release"})
  <1>1. PICK ok \in BOOLEAN :
          /\ Append(e, ok)
          /\ pass' = [pass EXCEPT ![p] = IF ok THEN [next EXCEPT !.fresh = FALSE]
                                               ELSE PassAt(p, "release")]
    BY DEF PassAppends
  <1>2. /\ UNCHANGED <<live, ran, lease, crashes>> /\ StoresTyped'
    BY DEF PassAppends, stores, StoresTyped
  <1>3. StreamKept /\ faults' \in 0 .. MaxFaults
    BY <1>1, AppendKept
  <1>4. pass \in [Pass -> PassState] /\ ReplyNamed(pass[p].view)
    BY DEF RunTyped, VarsTyped
  <1>5. /\ [next EXCEPT !.fresh = FALSE] \in PassState
        /\ [next EXCEPT !.fresh = FALSE].view = next.view
        /\ [next EXCEPT !.fresh = FALSE].pc = next.pc
    BY DEF PassState
  <1>6. /\ PassAt(p, "release") \in PassState
        /\ PassAt(p, "release").view = pass[p].view
        /\ PassAt(p, "release").pc = "release"
    BY <1>4 DEF PassAt, PassState, PassPc
  <1>7. CASE ok
    BY <1>1, <1>2, <1>3, <1>4, <1>5, <1>7 DEF PassKept
  <1>8. CASE ~ok
    BY <1>1, <1>2, <1>3, <1>4, <1>6, <1>8 DEF PassKept
  <1> QED
    BY <1>7, <1>8

\* A step of a pass that appends nothing.
LEMMA PassQuietKept ==
    ASSUME NEW p \in Pass, NEW next \in PassState, ReplyNamed(next.view),
           pass' = [pass EXCEPT ![p] = next], RunTyped, StoresTyped',
           UNCHANGED <<run, refused, live, ran, crashes>>, faults' = faults \/ Fault
    PROVE  PassKept(p)
  BY LiveQuietKept DEF PassKept

\* Moving a pass along is typed, and keeps its view.
LEMMA PassMovesTyped ==
    ASSUME RunTyped, NEW p \in Pass
    PROVE  /\ \A pc \in PassPc :
                /\ PassAt(p, pc) \in PassState
                /\ PassAt(p, pc).view = pass[p].view
                /\ PassAt(p, pc).pc = pc
           /\ IdlePass \in PassState /\ ReplyNamed(IdlePass.view) /\ IdlePass.pc = "idle"
           /\ ReplyNamed(pass[p].view)
  <1>1. pass[p] \in PassState /\ ReplyNamed(pass[p].view)
    BY DEF RunTyped, VarsTyped
  <1>2. \A pc \in PassPc :
                /\ PassAt(p, pc) \in PassState
                /\ PassAt(p, pc).view = pass[p].view
                /\ PassAt(p, pc).pc = pc
    BY <1>1 DEF PassAt, PassState
  <1>3. IdlePass \in PassState
    BY EmptyTyped DEF IdlePass, PassState, PassPc
  <1>4. ReplyNamed(IdlePass.view) /\ IdlePass.pc = "idle"
    BY DEF IdlePass, ReplyNamed, EmptyProjection
  <1> QED
    BY <1>1, <1>2, <1>3, <1>4

\* A step of a pass that only moves it.
LEMMA PassMovesKept ==
    ASSUME NEW p \in Pass, NEW next \in PassState, ReplyNamed(next.view),
           PassMoves(p, next), RunTyped, StoresTyped
    PROVE  PassKept(p) /\ UNCHANGED lease /\ pass'[p].pc = next.pc
  <1>1. PassKept(p)
    BY PassQuietKept DEF PassMoves, stores, StoresTyped
  <1> QED
    BY <1>1 DEF PassMoves, RunTyped, VarsTyped

\* A pass that holds the lease goes on holding it until it releases.
LeaseKept(p) == UNCHANGED lease /\ (Recovering(p)' => Recovering(p))

\* Finding a run neither takes its lease nor starts to recover it.
LEMMA DiscoveryKept ==
    ASSUME RunTyped, StoresTyped,
           DiscoverQueue \/ DiscoverEvents \/ CheckLease \/ DiscoverRetry
    PROVE  \E p \in Pass : PassKept(p) /\ LeaseKept(p)
  <1> DEFINE next(p) == {PassAt(p, "acquire"), PassAt(p, "listed"), IdlePass}
  <1>1. PICK p \in Pass : \E n \in next(p) : PassMoves(p, n)
    BY DEF DiscoverQueue, DiscoverEvents, CheckLease, DiscoverRetry, Pass
  <1>2. PICK n \in next(p) : PassMoves(p, n)
    BY <1>1
  <1>3. n \in PassState /\ ReplyNamed(n.view) /\ n.pc \in {"acquire", "listed", "idle"}
    BY PassMovesTyped DEF PassPc
  <1>4. PassKept(p) /\ UNCHANGED lease /\ pass'[p].pc = n.pc
    BY <1>2, <1>3, PassMovesKept
  <1> QED
    BY <1>3, <1>4 DEF LeaseKept, Recovering

\* A pass that has the lease keeps it through every step but the release.
LEMMA RecoveryKept ==
    ASSUME RunTyped, StoresTyped, NEW p \in Pass, PassStep(p),
           ~AcquireForRecovery(p), ~ReleaseAfterRecovery(p)
    PROVE  PassKept(p) /\ LeaseKept(p)
  <1>0. /\ pass[p] \in PassState /\ run \in Projection /\ ReplyNamed(run)
        /\ ReplyNamed(pass[p].view)
    BY DEF RunTyped, VarsTyped, TypeOK
  <1> DEFINE Goal == PassKept(p) /\ LeaseKept(p)
  <1>a. Recovering(p) => (UNCHANGED lease => LeaseKept(p))
    BY DEF LeaseKept
  <1>12. CASE ReadPending(p)
    <2> DEFINE n == [pass[p] EXCEPT !.pc = "claim", !.effects = PendingEffects(run)]
    <2>1. n \in PassState /\ n.view = pass[p].view
      BY <1>0 DEF PassState, PassPc, PendingEffects
    <2>2. PassMoves(p, PassAt(p, "release")) \/ PassMoves(p, n)
      BY <1>12 DEF ReadPending
    <2>3. PassKept(p) /\ UNCHANGED lease
      BY <1>0, <2>1, <2>2, PassMovesTyped, PassMovesKept DEF PassPc
    <2> QED
      BY <1>12, <1>a, <2>3 DEF ReadPending, Recovering
  <1>13. ASSUME NEW x \in Effect, ClaimEffect(p, x) PROVE Goal
    <2>1. PICK n \in {[pass[p] EXCEPT !.effects = @ \ {x}],
                      [pass[p] EXCEPT !.pc = "refused"],
                      [pass[p] EXCEPT !.pc = "release"]} :
            pass' = [pass EXCEPT ![p] = n]
      BY <1>13 DEF ClaimEffect
    <2>2. n \in PassState /\ n.view = pass[p].view
      BY <1>0, <2>1 DEF PassState, PassPc
    <2>3. /\ UNCHANGED <<run, refused, live, ran, transcript, registry, lease, crashes>>
          /\ faults' = faults \/ Fault
      BY <1>13 DEF ClaimEffect, stores
    <2>4. PassKept(p)
      BY <1>0, <2>1, <2>2, <2>3, PassQuietKept DEF StoresTyped
    <2> QED
      BY <1>13, <1>a, <2>3, <2>4 DEF ClaimEffect, Recovering
  <1>1. CASE Begin(p)
    <2> DEFINE n == [pass[p] EXCEPT !.pc = "models", !.view = run,
                                    !.models = PendingModels(run),
                                    !.effects = PendingEffects(run),
                                    !.terminalAtStart = IsDurableRunTerminal(run)]
    <2>1. IsDurableRunTerminal(run) \in BOOLEAN
      BY DEF IsDurableRunTerminal
    <2>2. n \in PassState /\ n.view = run
      BY <1>0, <2>1 DEF PassState, PassPc, PendingModels, PendingEffects
    <2>3. PassMoves(p, PassAt(p, "release")) \/ PassMoves(p, n)
      BY <1>1 DEF Begin
    <2>4. PassKept(p) /\ UNCHANGED lease
      BY <1>0, <2>2, <2>3, PassMovesTyped, PassMovesKept DEF PassPc
    <2> QED
      BY <1>1, <1>a, <2>4 DEF Begin, Recovering
  <1>2. CASE Replay(p)
    <2> DEFINE n == [pass[p] EXCEPT !.view = run, !.fresh = TRUE]
    <2>1. n \in PassState /\ n.view = run /\ n.pc = pass[p].pc
      BY <1>0 DEF PassState
    <2>2. CASE PassMoves(p, n)
      <3>1. PassKept(p) /\ UNCHANGED lease /\ pass'[p].pc = pass[p].pc
        BY <1>0, <2>1, <2>2, PassMovesKept
      <3> QED
        BY <3>1 DEF LeaseKept, Recovering
    <2>3. CASE PassMoves(p, PassAt(p, "release"))
      <3>1. PassKept(p) /\ UNCHANGED lease
        BY <2>3, PassMovesTyped, PassMovesKept DEF PassPc
      <3> QED
        BY <1>2, <1>a, <3>1 DEF Replay, Replaying, Recovering
    <2> QED
      BY <1>2, <2>2, <2>3 DEF Replay
  <1>3. ASSUME NEW q \in Req, CloseModel(p, q) PROVE Goal
    <2> DEFINE n == [pass[p] EXCEPT !.models = @ \ {q}]
               r == pass[p].view.model[q] = "received"
               e == [type |-> "model_request_settled", req |-> q, received |-> r]
    <2>1. n \in PassState /\ n.view = pass[p].view
      BY <1>0 DEF PassState
    <2>2. e \in Event
      <3>1. r \in BOOLEAN
        OBVIOUS
      <3> HIDE DEF r
      <3> QED
        BY <3>1 DEF Event
    <2>3. PassAppends(p, e, n)
      BY <1>3 DEF CloseModel
    <2>4. PassKept(p) /\ UNCHANGED lease
      BY <1>0, <2>1, <2>2, <2>3, PassAppendsKept
    <2> QED
      BY <1>3, <1>a, <2>4 DEF CloseModel, Ready, Recovering
  <1>4. ASSUME NEW x \in Effect, CloseEffect(p, x) PROVE Goal
    <2> DEFINE n == [pass[p] EXCEPT !.effects = @ \ {x}]
               e(st) == [type |-> "effect_settled", effect |-> x, status |-> st,
                         source |-> "runtime", owner |-> None]
    <2>1. n \in PassState /\ n.view = pass[p].view
      BY <1>0 DEF PassState
    <2>2. PICK st \in {"known", "unknown"} : PassAppends(p, e(st), n)
      BY <1>4 DEF CloseEffect
    <2>3. e(st) \in Event
      BY DEF Event
    <2>4. PassKept(p) /\ UNCHANGED lease
      BY <1>0, <2>1, <2>2, <2>3, PassAppendsKept
    <2> QED
      BY <1>4, <1>a, <2>4 DEF CloseEffect, Ready, Recovering
  <1>5. CASE WorkClosed(p)
    <2>1. PICK pc \in {"effects", "release", "outcome"} : PassMoves(p, PassAt(p, pc))
      BY <1>5 DEF WorkClosed
    <2>2. PassKept(p) /\ UNCHANGED lease
      BY <2>1, PassMovesTyped, PassMovesKept DEF PassPc
    <2> QED
      BY <1>5, <1>a, <2>2 DEF WorkClosed, Ready, Recovering
  <1>6. CASE RecoverOutcome(p)
    <2> DEFINE e == [type |-> "task_outcome_settled", outcome |-> UnknownOutcome]
    <2>1. e \in Event
      BY RunBounds DEF Event
    <2>2. PassAt(p, "reply") \in PassState /\ ReplyNamed(PassAt(p, "reply").view)
      BY PassMovesTyped DEF PassPc
    <2>3. PassAppends(p, e, PassAt(p, "reply")) \/ PassMoves(p, PassAt(p, "reply"))
      BY <1>6 DEF RecoverOutcome
    <2>4. PassKept(p) /\ UNCHANGED lease
      BY <2>1, <2>2, <2>3, PassAppendsKept, PassMovesKept
    <2> QED
      BY <1>6, <1>a, <2>4 DEF RecoverOutcome, Ready, Recovering
  <1>7. CASE RecoverReply(p)
    <2> DEFINE e == [type |-> "final_reply_settled", reply |-> pass[p].view.reply]
    <2>1. PassAt(p, "registry") \in PassState /\ ReplyNamed(PassAt(p, "registry").view)
      BY PassMovesTyped DEF PassPc
    <2>2. CASE pass[p].view.replyState = "proposed" /\ PassAppends(p, e, PassAt(p, "registry"))
      <3>1. e \in Event
        BY <1>0, <2>2 DEF ReplyNamed, Event
      <3> QED
        BY <1>7, <1>a, <2>1, <2>2, <3>1, PassAppendsKept DEF RecoverReply, Ready, Recovering
    <2>3. CASE PassMoves(p, PassAt(p, "registry"))
      BY <1>7, <1>a, <2>1, <2>3, PassMovesKept DEF RecoverReply, Ready, Recovering
    <2> QED
      BY <1>7, <2>2, <2>3 DEF RecoverReply
  <1>8. ASSUME NotReady(p), Recovering(p) PROVE Goal
    <2> DEFINE n == [pass[p] EXCEPT !.pc = "close", !.ready = FALSE]
    <2>1. n \in PassState /\ ReplyNamed(n.view)
      BY <1>0 DEF PassState, PassPc
    <2>2. PassKept(p) /\ UNCHANGED lease
      BY <1>8, <2>1, PassQuietKept DEF NotReady, stores, StoresTyped
    <2> QED
      BY <1>8, <1>a, <2>2
  <1>9. CASE RecoverRegistry(p)
    <2> DEFINE n == [pass[p] EXCEPT !.pc = "close", !.ready = TRUE]
    <2>1. n \in PassState /\ ReplyNamed(n.view)
      BY <1>0 DEF PassState, PassPc
    <2>2. PassAt(p, "promote") \in PassState /\ ReplyNamed(PassAt(p, "promote").view)
      BY PassMovesTyped DEF PassPc
    <2>3. Recovering(p)
      BY <1>9 DEF RecoverRegistry, Ready, Recovering
    <2>4. CASE PassMoves(p, n)
      BY <1>a, <2>1, <2>3, <2>4, PassMovesKept
    <2>5. CASE /\ registry' = "settled"
               /\ pass' = [pass EXCEPT ![p] = RegistryDone(p)]
               /\ UNCHANGED <<run, refused, live, ran, transcript, lease, effectLease,
                               faults, crashes>>
      BY <1>a, <2>2, <2>3, <2>5, PassQuietKept DEF RegistryDone, StoresTyped
    <2> QED
      BY <1>8, <1>9, <2>3, <2>4, <2>5 DEF RecoverRegistry
  <1>10. CASE RecoverPromotion(p)
    <2> DEFINE n == [pass[p] EXCEPT !.pc = "close", !.ready = TRUE]
    <2>1. n \in PassState /\ ReplyNamed(n.view)
      BY <1>0 DEF PassState, PassPc
    <2>2. Recovering(p)
      BY <1>10 DEF RecoverPromotion, Ready, Recovering
    <2>3. CASE /\ transcript' = "settled"
               /\ pass' = [pass EXCEPT ![p] = n]
               /\ UNCHANGED <<run, refused, live, ran, registry, lease, effectLease, faults, crashes>>
      BY <1>a, <2>1, <2>2, <2>3, PassQuietKept DEF StoresTyped
    <2> QED
      BY <1>8, <1>10, <2>2, <2>3 DEF RecoverPromotion
  <1>11. CASE CloseRun(p)
    <2> DEFINE completed == [type |-> "run_completed"]
               waiting == [type |-> "runtime_status_settled", status |-> "waiting_user"]
    <2>1. completed \in Event /\ waiting \in Event
      BY DEF Event, PlainType, RuntimeStatus
    <2>2. PassAt(p, "release") \in PassState /\ ReplyNamed(PassAt(p, "release").view)
      BY PassMovesTyped DEF PassPc
    <2>3. \/ PassAppends(p, completed, PassAt(p, "release"))
          \/ PassAppends(p, waiting, PassAt(p, "release"))
          \/ PassMoves(p, PassAt(p, "release"))
      BY <1>11 DEF CloseRun
    <2>4. PassKept(p) /\ UNCHANGED lease
      BY <2>1, <2>2, <2>3, PassAppendsKept, PassMovesKept
    <2> QED
      BY <1>11, <1>a, <2>4 DEF CloseRun, Ready, Recovering
  <1> QED
    BY <1>1, <1>2, <1>3, <1>4, <1>5, <1>6, <1>7, <1>9, <1>10, <1>11, <1>12, <1>13
       DEF PassStep

\* A pass takes the lease from nobody who works or recovers.
LEMMA AcquisitionKept ==
    ASSUME RunTyped, StoresTyped, OneLeaseHolder, NEW p \in Pass, AcquireForRecovery(p)
    PROVE  PassKept(p) /\ OneLeaseHolder' /\ lease' \in Lease
  <1>0. pass \in [Pass -> PassState] /\ lease \in Lease
    BY DEF RunTyped, VarsTyped
  <1> DEFINE n == [pass[p] EXCEPT !.pc = "read"]
  <1>1. CASE Free
    <2>1. n \in PassState /\ ReplyNamed(n.view)
      BY <1>0 DEF PassState, PassPc, RunTyped
    <2>2. /\ lease' = [state |-> "active", owner |-> p]
          /\ pass' = [pass EXCEPT ![p] = n]
          /\ UNCHANGED <<run, refused, live, ran, stores, effectLease, faults, crashes>>
      BY <1>1 DEF AcquireForRecovery
    <2>3. PassKept(p)
      BY <2>1, <2>2, PassQuietKept DEF stores, StoresTyped
    <2>4. ~Working /\ \A r \in Pass : ~Recovering(r)
      BY <1>1 DEF OneLeaseHolder, Free
    <2>5. ~Working' /\ \A r \in Pass \ {p} : ~Recovering(r)'
      BY <1>0, <2>2, <2>4 DEF Working, Recovering
    <2> QED
      BY <2>2, <2>3, <2>5 DEF OneLeaseHolder, Lease
  <1>2. CASE ~Free
    <2>1. PassMoves(p, IdlePass)
      BY <1>2 DEF AcquireForRecovery, PassMoves
    <2>2. PassKept(p) /\ UNCHANGED lease /\ pass'[p].pc = "idle"
      BY <2>1, PassMovesTyped, PassMovesKept
    <2> QED
      BY <1>0, <2>1, <2>2 DEF OneLeaseHolder, Working, Recovering, PassMoves
  <1> QED
    BY <1>1, <1>2

\* A pass gives its lease back and nobody loses theirs.
LEMMA RecoveryReleaseKept ==
    ASSUME RunTyped, StoresTyped, OneLeaseHolder, NEW p \in Pass, ReleaseAfterRecovery(p)
    PROVE  PassKept(p) /\ OneLeaseHolder' /\ lease' \in Lease
  <1>0. pass \in [Pass -> PassState] /\ lease \in Lease
    BY DEF RunTyped, VarsTyped
  <1>1. PassKept(p)
    BY PassMovesTyped, PassQuietKept DEF ReleaseAfterRecovery, stores, StoresTyped
  <1>2. lease = [state |-> "active", owner |-> p]
    BY DEF OneLeaseHolder, ReleaseAfterRecovery, Recovering
  <1>3. ~Working /\ \A r \in Pass \ {p} : ~Recovering(r)
    BY <1>2 DEF OneLeaseHolder, Pass
  <1>4. ~Working' /\ \A r \in Pass : ~Recovering(r)'
    BY <1>0, <1>3 DEF ReleaseAfterRecovery, Working, Recovering, IdlePass
  <1> QED
    BY <1>0, <1>1, <1>4 DEF OneLeaseHolder, ReleaseAfterRecovery, Lease

\* A driver that keeps its lease stays the only one while one pass moves.
LEMMA PassDrives ==
    ASSUME RunTyped, OneLeaseHolder, NEW p \in Pass, PassKept(p), LeaseKept(p)
    PROVE  OneLeaseHolder'
  <1>1. \A r \in Pass : Recovering(r)' => Recovering(r)
    BY DEF PassKept, LeaseKept, Recovering, RunTyped, VarsTyped
  <1>2. Working' => Working
    BY DEF PassKept, Working
  <1> QED
    BY <1>1, <1>2 DEF LeaseKept, OneLeaseHolder

\* The steps of a pass keep the invariant.
LEMMA PassKeepsInv ==
    ASSUME RunInv, NEW p \in Pass, PassKept(p), OneLeaseHolder', lease' \in Lease
    PROVE  RunInv'
  <1>1. RunTyped'
    <2>1. PICK next \in PassState : ReplyNamed(next.view) /\ pass' = [pass EXCEPT ![p] = next]
      BY DEF PassKept
    <2>2. pass' \in [Pass -> PassState] /\ \A r \in Pass : ReplyNamed(pass'[r].view)
      BY <2>1 DEF RunInv, RunTyped, VarsTyped
    <2>3. TypeOK' /\ ReplyNamed(run)' /\ StoresTyped' /\ faults' \in 0 .. MaxFaults
      BY DEF PassKept, StreamKept
    <2>4. live' \in Live /\ ran' \in [Effect -> 0 .. 2] /\ crashes' \in 0 .. MaxCrashes
      BY DEF RunInv, RunTyped, VarsTyped, PassKept
    <2>5. VarsTyped'
      BY <2>2, <2>3, <2>4 DEF VarsTyped, StoresTyped
    <2> QED
      BY <2>2, <2>3, <2>5 DEF RunTyped, ReplyNamed
  <1>2. EffectInHand' /\ LedgerKnows' /\ ToolRunsOnce'
    <2>1. /\ UNCHANGED <<live, ran>> /\ live \in Live
          /\ \A x \in Effect : run.effect[x].state # "absent" => run'.effect[x].state # "absent"
      BY DEF PassKept, StreamKept, RunInv, RunTyped, VarsTyped
    <2> QED
      BY <2>1 DEF RunInv, EffectInHand, LedgerKnows, ToolRunsOnce, Live
  <1> QED
    BY <1>1, <1>2 DEF RunInv

\* The steps of the Runner keep the invariant.
LEMMA LiveKeepsInv ==
    ASSUME RunInv, LiveStep
    PROVE  RunInv'
  <1>1. StoresTyped'
    BY LiveStepStores DEF RunInv, RunTyped, VarsTyped, StoresTyped
  <1>2. RunTyped'
    BY <1>1, LiveStepTyped, LiveStepDrives, LiveStepTools
       DEF RunInv, RunTyped, VarsTyped, StreamKept, StoresTyped, ReplyNamed
  <1> QED
    BY <1>2, LiveStepDrives, LiveStepTools DEF RunInv

\* A crash, the clock, and the end of the run keep it.
LEMMA WorldKeepsInv ==
    ASSUME RunInv,
           Crash \/ Expire \/ (\E x \in Effect : ExpireEffect(x)) \/ UNCHANGED runVars
    PROVE  RunInv' /\ UNCHANGED <<run, refused>>
  <1>0. RunTyped /\ VarsTyped /\ OneLeaseHolder
    BY DEF RunInv, RunTyped
  <1>1. CASE Crash
    <2>1. /\ UNCHANGED <<run, refused, ran, transcript, registry, faults>>
          /\ pass' = [p \in Pass |-> IdlePass]
          /\ crashes' = crashes + 1 /\ crashes < MaxCrashes
          /\ live' = [live EXCEPT !.pc = IF @ = "idle" THEN @ ELSE "dead"]
      BY <1>1 DEF Crash, stores
    <2>2. live' \in Live /\ live'.pc \in {"idle", "dead"} /\ live'.ledger = live.ledger
      BY <1>0, <2>1 DEF VarsTyped, Live, LivePc
    <2>3. IdlePass \in PassState /\ ReplyNamed(IdlePass.view) /\ IdlePass.pc = "idle"
      BY <1>0, PassMovesTyped DEF Pass
    <2>4. lease' \in Lease
      BY <1>0, <1>1 DEF Crash, VarsTyped, Lease
    <2>5. crashes' \in 0 .. MaxCrashes
      BY <1>0, <2>1, RunBounds DEF VarsTyped
    <2>6. VarsTyped'
      BY <1>0, <2>1, <2>2, <2>3, <2>4, <2>5 DEF VarsTyped, TypeOK
    <2>7. RunTyped'
      BY <1>0, <2>1, <2>3, <2>6 DEF RunTyped, ReplyNamed
    <2>8. OneLeaseHolder'
      BY <2>1, <2>2, <2>3 DEF OneLeaseHolder, Working, Recovering
    <2>9. EffectInHand' /\ LedgerKnows' /\ ToolRunsOnce'
      BY <2>1, <2>2 DEF RunInv, EffectInHand, LedgerKnows, ToolRunsOnce
    <2> QED
      BY <2>1, <2>7, <2>8, <2>9 DEF RunInv
  <1>2. CASE Expire
    <2>1. /\ UNCHANGED <<run, refused, live, ran, transcript, registry, pass, faults, crashes>>
          /\ lease' \in Lease
          /\ lease.state = "orphaned"
      BY <1>0, <1>2 DEF Expire, VarsTyped, Lease, stores
    <2>2. RunTyped'
      BY <1>0, <2>1 DEF RunTyped, VarsTyped, TypeOK, ReplyNamed
    <2>3. OneLeaseHolder'
      BY <1>0, <2>1 DEF OneLeaseHolder, Working, Recovering
    <2> QED
      BY <2>1, <2>2, <2>3 DEF RunInv, EffectInHand, LedgerKnows, ToolRunsOnce
  <1>3. CASE (\E x \in Effect : ExpireEffect(x)) \/ UNCHANGED runVars
    <2>1. UNCHANGED <<run, refused, live, ran, transcript, registry, lease, pass, faults,
                      crashes>>
      BY <1>3 DEF ExpireEffect, runVars, stores
    <2> QED
      BY <2>1 DEF RunInv, RunTyped, VarsTyped, TypeOK, ReplyNamed, OneLeaseHolder, Working,
                  Recovering, EffectInHand, LedgerKnows, ToolRunsOnce
  <1> QED
    BY <1>1, <1>2, <1>3 DEF Crash, Expire, ExpireEffect, runVars

-----------------------------------------------------------------------------
(* The theorems                                                            *)

\* The invariant holds initially.
LEMMA RunInvInitially == RunInit => RunInv
  <1> SUFFICES ASSUME RunInit PROVE RunInv
    OBVIOUS
  <1>1. TypeOK /\ ReplyNamed(run) /\ ReplyNamed(EmptyProjection)
    BY EmptyTyped DEF RunInit, Init, TypeOK, ReplyNamed, EmptyProjection
  <1>2. IdlePass \in PassState
    BY EmptyTyped DEF IdlePass, PassState, PassPc
  <1>3. live \in Live /\ live.pc = "idle" /\ lease \in Lease
    BY DEF RunInit, Live, LivePc, Lease
  <1>4. VarsTyped
    BY <1>1, <1>2, <1>3, RunBounds DEF RunInit, VarsTyped
  <1>5. RunTyped
    BY <1>1, <1>4 DEF RunTyped, RunInit, IdlePass
  <1> QED
    BY <1>3, <1>5 DEF RunInv, RunInit, OneLeaseHolder, Working, Recovering, IdlePass,
                      EffectInHand, LedgerKnows, ToolRunsOnce

\* Every step keeps the invariant, and is a step of the kernel.
LEMMA RunInvInductive ==
    ASSUME RunInv, [RunNext]_runVars
    PROVE  RunInv' /\ [Next]_kernelVars
  <1>0. RunTyped /\ StoresTyped /\ OneLeaseHolder /\ lease \in Lease
    BY DEF RunInv, RunTyped, VarsTyped, StoresTyped
  <1>1. CASE LiveStep
    BY <1>1, LiveKeepsInv, LiveStepTyped DEF StreamKept
  <1>2. CASE DiscoverQueue \/ DiscoverEvents \/ CheckLease \/ DiscoverRetry
    <2>1. PICK p \in Pass : PassKept(p) /\ LeaseKept(p)
      BY <1>0, <1>2, DiscoveryKept
    <2>2. OneLeaseHolder' /\ lease' \in Lease
      BY <1>0, <2>1, PassDrives DEF LeaseKept
    <2> QED
      BY <2>1, <2>2, PassKeepsInv DEF PassKept, StreamKept
  <1>3. ASSUME NEW p \in Pass, PassStep(p) PROVE RunInv' /\ [Next]_kernelVars
    <2>1. PassKept(p) /\ OneLeaseHolder' /\ lease' \in Lease
      <3>1. CASE AcquireForRecovery(p)
        BY <1>0, <3>1, AcquisitionKept
      <3>2. CASE ReleaseAfterRecovery(p)
        BY <1>0, <3>2, RecoveryReleaseKept
      <3>3. CASE ~AcquireForRecovery(p) /\ ~ReleaseAfterRecovery(p)
        BY <1>0, <1>3, <3>3, RecoveryKept, PassDrives DEF LeaseKept
      <3> QED
        BY <3>1, <3>2, <3>3
    <2> QED
      BY <2>1, PassKeepsInv DEF PassKept, StreamKept
  <1>4. CASE \/ Crash \/ Expire \/ (\E x \in Effect : ExpireEffect(x))
             \/ Over \/ UNCHANGED runVars
    BY <1>4, WorldKeepsInv DEF Over, kernelVars
  <1> QED
    BY <1>1, <1>2, <1>3, <1>4 DEF RunNext

\* The invariant of a run: types, one driver, and the effect ledger.
THEOREM RunInvariant == RunSpec => []RunInv
  <1>1. RunInv /\ [RunNext]_runVars => RunInv'
    BY RunInvInductive
  <1> QED
    BY <1>1, RunInvInitially, PTL DEF RunSpec

\* A tool runs once at most, and only after its intent is in the stream.
THEOREM ToolsRunOnce == RunSpec => []ToolRunsOnce
  <1>1. RunInv => ToolRunsOnce
    BY DEF RunInv
  <1> QED
    BY <1>1, RunInvariant, PTL

\* A run with its Runner, recoveries, faults and crashes moves its projection
\* by the kernel's steps only.
THEOREM RunImplementsKernel == RunSpec => Spec
  <1>1. RunInit => Init
    BY DEF RunInit
  <1>2. RunInv /\ [RunNext]_runVars => [Next]_kernelVars
    BY RunInvInductive
  <1> QED
    BY <1>1, <1>2, RunInvariant, PTL DEF RunSpec, Spec

\* So a completed run accounts for its work and a published one never fails,
\* whoever drives it.
THEOREM RunSafe == RunSpec => [](CompletedRunAccounted /\ PublishedRunNeverFails)
  BY RunImplementsKernel, CompletedAccounted, PublishedNeverFails, PTL

-----------------------------------------------------------------------------
(* Publication: the invariant                                              *)

\* The Runner's control points before the reply may be settled, the last of
\* them the append that settles it; and those before it is proposed.
Unproposed ==
    {"idle", "lease", "input", "work", "invoke", "settleEffect", "flushFinalize",
     "reserve", "propose"}
Unsettled ==
    Unproposed \cup Reporting
        \cup {"transcript", "outcome", "flushPersist", "persist", "flushEnd", "settle"}

\* What the stream and the stores hold, whoever drives the run: the properties,
\* and what a proposed and a settled reply leave no room for.
StoresInv ==
    /\ StreamReplays /\ PublicationIsOrdered
    /\ run.replyState \in {"proposed", "settled"} => registry # "none" /\ EffectsQuiet(run)
    /\ run.replyState = "settled" => PendingModels(run) = {}
    /\ \A x \in Effect : run.effect[x].owner = None

\* What has been settled at each control point of the Runner, and that it
\* holds its lease until it has released it.
LiveInv ==
    /\ live.pc = "idle" => run.status = "none"
    /\ live.pc \in Unproposed \/ live.early => run.replyState \notin {"proposed", "settled"}
    /\ live.pc \in Unsettled => run.replyState # "settled"
    /\ live.pc \in {"decide", "record"} /\ live.result # "ok" => run.replyState # "settled"
    /\ live.pc \in Unproposed \cup {"transcript", "settle", "registry", "promote"} =>
         live.result = "ok"
    /\ live.pc \in Reporting \/ live.early => live.result = "error"
    /\ live.pc \in {"propose", "transcript"} => registry # "none"
    /\ live.pc = "transcript" => run.replyState = "proposed"
    /\ live.result = "ok"
         /\ live.pc \in {"outcome", "flushPersist", "persist", "flushEnd", "settle"} =>
         run.replyState = "proposed" /\ transcript # "none"
    /\ live.result = "ok" /\ live.pc \in {"flushPersist", "persist", "flushEnd", "settle"} =>
         run.outcome # None
    /\ live.pc \in {"registry", "promote"} => run.replyState = "settled"
    /\ live.pc = "promote" => registry = "settled"
    /\ live.result = "ok" /\ live.pc \in {"decide", "record", "release", "done"} =>
         run.replyState = "settled" /\ registry = "settled" /\ transcript = "settled"
    /\ live.pc \in {"decide", "record", "release"} /\ ~live.early =>
         lease = [state |-> "active", owner |-> "live"]
    /\ live.pc \in Unsettled /\ live.result = "ok" => run.status \notin Terminal

\* The Runner knows the requests that are open in the stream, unless one of
\* their appends has failed.
ModelsOpen ==
    /\ live.pc \in Unsettled /\ ~live.broken =>
         \A q \in PendingModels(run) : live.open[q] # "none"
    /\ live.pc = "settle" => PendingModels(run) = {}

\* What a recovery pass has read, and what it has settled on the way.
Viewing == {"models", "effects", "outcome", "reply", "registry", "promote", "close"}

PassInv(p) ==
    /\ pass[p].pc \in Viewing /\ pass[p].fresh =>
         pass[p].view.replyState = run.replyState /\ pass[p].view.outcome = run.outcome
    /\ pass[p].pc = "reply" /\ run.replyState = "proposed" => run.outcome # None
    /\ pass[p].pc = "promote" => run.replyState = "settled" /\ registry = "settled"
    /\ pass[p].pc = "close" /\ pass[p].ready /\ run.replyState = "settled" =>
         registry = "settled" /\ transcript = "settled"

\* Without a fault so far: no effect is open but the one in hand, and a run
\* about to be released is over.
FaultFree ==
    faults = 0 =>
      /\ live.pc # "idle" => run.status # "none"
      /\ \A x \in PendingEffects(run) :
           \/ live.pc = "dead"
           \/ live.pc \in {"invoke", "settleEffect"} /\ x = live.effect
      /\ live.pc \in {"release", "done"} => IsDurableRunTerminal(run)

PublicationInv ==
    StoresInv /\ LiveInv /\ ModelsOpen /\ FaultFree /\ \A p \in Pass : PassInv(p)

-----------------------------------------------------------------------------
(* Publication: what an append does                                        *)

\* What one legal event may change of the status, the outcome and the reply.
LEMMA ApplyMoves ==
    ASSUME NEW p \in Projection, NEW e \in Event, ValidTransition(p, e)
    PROVE  LET n == Apply(p, e) IN
           /\ n.status # "none"
           /\ IsDurableRunTerminal(p) => IsDurableRunTerminal(n)
           /\ p.replyState = "settled" => n.replyState = "settled"
           /\ n.replyState =
                CASE e.type = "final_reply_proposed"   -> "proposed"
                  [] e.type = "final_reply_settled"    -> "settled"
                  [] e.type = "runtime_status_settled" -> "runtime_status"
                  [] OTHER -> p.replyState
           /\ p.outcome # None => n.outcome = p.outcome
           /\ e.type # "task_outcome_settled" => n.outcome = p.outcome
           /\ e.type = "task_outcome_settled" => n.outcome = e.outcome
           /\ n.status \in Terminal =>
                \/ p.status \in Terminal
                \/ e.type \in {"run_completed", "run_failed", "run_interrupted"}
                \/ e.type = "runtime_status_settled" /\ n.status = e.status
           /\ n.status = "completed" => p.status = "completed" \/ e.type = "run_completed"
  <1> DEFINE n == Apply(p, e)
  <1>1. n.status = NextStatus(p, e) /\ n.replyState = NextReplyState(p, e)
        /\ n.outcome = IF e.type = "task_outcome_settled" THEN e.outcome ELSE p.outcome
    BY DEF Apply
  <1>2. n.status # "none"
    BY <1>1, EventFields DEF NextStatus, ValidTransition, RuntimeStatus
  <1>3. p.outcome # None => n.outcome = p.outcome
    BY <1>1 DEF ValidTransition, InOrder, MaySettleOutcome
  <1>4. p.replyState = "settled" => n.replyState = "settled"
    BY <1>1 DEF NextReplyState, ValidTransition, InOrder
  <1>5. p.replyState = "runtime_status" => n.replyState = "runtime_status"
    BY <1>1 DEF NextReplyState, ValidTransition, InOrder
  <1>6. p.status \in Terminal => n.status \in Terminal
    <2> SUFFICES ASSUME p.status \in Terminal PROVE n.status = p.status
      OBVIOUS
    <2>1. e.type \in {"stage_transition_recorded", "effect_settled", "model_request_settled",
                      "task_outcome_settled"}
      BY TerminalAccepts
    <2>2. p.status # "accepted"
      BY DEF Terminal
    <2>3. e.type = "effect_settled" => ~AsksUser(p, e)
      BY DEF AsksUser, IsDurableRunTerminal
    <2> QED
      BY <1>1, <2>1, <2>2, <2>3 DEF NextStatus
  <1>7. n.status \in Terminal =>
          \/ p.status \in Terminal
          \/ e.type \in {"run_completed", "run_failed", "run_interrupted"}
          \/ e.type = "runtime_status_settled" /\ n.status = e.status
    BY <1>1 DEF NextStatus, Terminal
  <1>8. n.status = "completed" => p.status = "completed" \/ e.type = "run_completed"
    BY <1>1, EventFields DEF NextStatus, RuntimeStatus
  <1> QED
    BY <1>1, <1>2, <1>3, <1>4, <1>5, <1>6, <1>7, <1>8
       DEF IsDurableRunTerminal, NextReplyState

\* Only a new intent opens an effect, only a new request a request.
LEMMA ApplyOpens ==
    ASSUME NEW p \in Projection, NEW e \in Event, ValidTransition(p, e)
    PROVE  LET n == Apply(p, e) IN
           /\ e.type # "effect_intent_created" =>
                /\ PendingEffects(n) \subseteq PendingEffects(p)
                /\ EffectsQuiet(p) => EffectsQuiet(n)
           /\ e.type = "effect_intent_created" =>
                PendingEffects(n) \subseteq PendingEffects(p) \cup {e.effect}
           /\ e.type = "effect_settled" => e.effect \notin PendingEffects(n)
           /\ e.type # "model_request_started" => PendingModels(n) \subseteq PendingModels(p)
           /\ e.type = "model_request_started" =>
                PendingModels(n) \subseteq PendingModels(p) \cup {e.req}
           /\ e.type = "model_request_settled" => e.req \notin PendingModels(n)
           /\ (\A x \in Effect : p.effect[x].owner = None)
                /\ (e.type = "effect_intent_created" => e.owner = None) =>
                \A x \in Effect : n.effect[x].owner = None
  <1> DEFINE n == Apply(p, e)
  <1>0. /\ n.effect = NextEffect(p, e) /\ n.model = NextModel(p, e)
        /\ p.effect \in [Effect -> EffectState] /\ p.model \in [Req -> ModelState]
    BY DEF Apply, Projection
  <1>1. CASE e.type = "effect_intent_created"
    <2>1. n.effect = [p.effect EXCEPT ![e.effect] = [state |-> "pending", owner |-> e.owner]]
      BY <1>0, <1>1 DEF NextEffect
    <2>2. n.model = p.model
      BY <1>0, <1>1 DEF NextModel
    <2> QED
      BY <1>0, <1>1, <2>1, <2>2, EventFields DEF PendingEffects, PendingModels
  <1>2. CASE e.type = "effect_settled"
    <2>1. n.effect = [p.effect EXCEPT ![e.effect].state = e.status]
      BY <1>0, <1>2 DEF NextEffect
    <2>2. n.model = p.model
      BY <1>0, <1>2 DEF NextModel
    <2>3. p.effect[e.effect].state = "pending" /\ e.effect \in Effect
          /\ e.status \in {"known", "unknown"}
      BY <1>2, EventFields DEF ValidTransition, InOrder, MaySettleEffect
    <2>4. ~EffectsQuiet(p)
      BY <2>3 DEF EffectsQuiet, PendingEffects
    <2> QED
      BY <1>0, <1>2, <2>1, <2>2, <2>3, <2>4 DEF PendingEffects, PendingModels, EffectState
  <1>3. CASE e.type \notin {"effect_intent_created", "effect_settled"}
    <2>1. n.effect = p.effect
      BY <1>0, <1>3 DEF NextEffect
    <2>2. \A q \in Req : n.model[q] \in {"started", "received"} =>
            \/ p.model[q] \in {"started", "received"}
            \/ e.type = "model_request_started" /\ q = e.req
      BY <1>0, EventFields DEF NextModel, ValidTransition, InOrder
    <2>3. e.type = "model_request_settled" => n.model[e.req] = "closed"
      BY <1>0, EventFields DEF NextModel
    <2> QED
      BY <1>3, <2>1, <2>2, <2>3
         DEF PendingEffects, UnknownEffects, EffectsQuiet, PendingModels
  <1> QED
    BY <1>1, <1>2, <1>3

\* An append of these callers stores a readable event, or stores nothing; and
\* it fails on its own account only with a fault.
LEMMA Appended ==
    ASSUME RunTyped, StoresInv, NEW e, NEW ok \in BOOLEAN, Append(e, ok),
           ValidTransition(run, e) => e \in Event,
           e.type \notin LateChecked \ {"run_completed"}
    PROVE  /\ \/ AppendEvent(e) /\ e \in Event
              \/ ~ok /\ UNCHANGED <<run, refused>>
           /\ faults' = 0 => /\ faults = 0
                             /\ ok \/ (UNCHANGED run /\ ~ValidTransition(run, e))
  <1>1. refused = "none" /\ faults \in Nat
    BY DEF StoresInv, StreamReplays, RunTyped, VarsTyped
  <1>2. ~AppendUnreplayable(e)
    <2> SUFFICES ASSUME ValidTransition(run, e) PROVE Reducible(run, e)
      BY DEF AppendUnreplayable
    <2>1. CASE e.type = "run_completed"
      BY <2>1 DEF ValidTransition, InOrder, MayComplete, StoresInv, Reducible
    <2>2. CASE e.type # "run_completed"
      BY <2>2 DEF Reducible, LateChecked
    <2> QED
      BY <2>1, <2>2
  <1>3. Stores(e) => AppendEvent(e) /\ e \in Event
    BY <1>2 DEF Stores, AppendEvent
  <1>4. CASE ok /\ Stores(e) /\ UNCHANGED faults
    BY <1>3, <1>4
  <1>5. CASE ~ok /\ ~ValidTransition(run, e) /\ UNCHANGED <<run, refused, faults>>
    BY <1>5
  <1>6. CASE ~ok /\ Fault /\ (Stores(e) \/ UNCHANGED kernelVars)
    <2>1. faults' # 0
      BY <1>1, <1>6 DEF Fault
    <2> QED
      BY <1>3, <1>6, <2>1 DEF kernelVars
  <1> QED
    BY <1>1, <1>4, <1>5, <1>6 DEF Append

\* The stream and the stores after an event whose time has come.
LEMMA EventKeepsStores ==
    ASSUME RunTyped, StoresInv, NEW e \in Event, AppendEvent(e),
           UNCHANGED <<transcript, registry>>,
           e.type = "effect_intent_created" =>
             run.replyState \notin {"proposed", "settled"} /\ e.owner = None,
           e.type = "model_request_started" => run.replyState # "settled",
           e.type = "final_reply_proposed" => registry # "none",
           e.type = "final_reply_settled" => transcript # "none" /\ run.outcome # None,
           e.type = "run_completed" => registry = "settled" /\ transcript = "settled"
    PROVE  StoresInv'
  <1>1. run \in Projection /\ ValidTransition(run, e) /\ run' = Apply(run, e)
        /\ UNCHANGED refused
    BY DEF RunTyped, VarsTyped, TypeOK, AppendEvent
  <1>2. /\ e.type \in {"final_reply_proposed", "final_reply_settled"} => Quiet(run)
        /\ e.type = "final_reply_settled" => run.replyState = "proposed"
        /\ e.type = "final_reply_proposed" => run.replyState = "none"
        /\ e.type = "run_completed" => run.replyState = "settled"
        /\ e.type = "task_outcome_settled" => run.outcome = None /\ run.replyState # "settled"
    BY <1>1 DEF ValidTransition, InOrder, MayComplete, MaySettleOutcome
  <1>3. run'.replyState \in {"proposed", "settled"} =>
          registry # "none" /\ EffectsQuiet(run) /\ EffectsQuiet(run')
    BY <1>1, <1>2, ApplyMoves, ApplyOpens DEF StoresInv, Quiet
  <1>4. run'.replyState = "settled" =>
          /\ PendingModels(run') = {} /\ transcript # "none" /\ run'.outcome # None
    BY <1>1, <1>2, ApplyMoves, ApplyOpens
       DEF StoresInv, Quiet, PublicationIsOrdered, SettledReplyIsPersisted
  <1>5. \A x \in Effect : run'.effect[x].owner = None
    BY <1>1, ApplyOpens DEF StoresInv
  <1>6. CompletedRunPublished'
    <2>1. run'.status = "completed" => run.status = "completed" \/ e.type = "run_completed"
      BY <1>1, ApplyMoves
    <2>2. run.outcome # None => run'.outcome # None
      BY <1>1, ApplyMoves
    <2> QED
      BY <1>2, <2>1, <2>2
         DEF CompletedRunPublished, StoresInv, PublicationIsOrdered, SettledReplyIsPersisted
  <1>7. registry = "settled" \/ transcript = "settled" => run'.replyState = "settled"
    BY <1>1, ApplyMoves DEF StoresInv, PublicationIsOrdered, StoresFollowEvent
  <1> QED
    BY <1>1, <1>3, <1>4, <1>5, <1>6, <1>7
       DEF StoresInv, StreamReplays, PublicationIsOrdered, SettledReplyIsPersisted,
           StoresFollowEvent

\* A store operation in its place keeps them too.
LEMMA StoringKeepsStores ==
    ASSUME StoresInv, UNCHANGED <<run, refused>>,
           \/ UNCHANGED registry
           \/ registry' = "reserved" /\ run.replyState # "settled"
           \/ registry' = "settled" /\ run.replyState = "settled",
           \/ UNCHANGED transcript
           \/ transcript' = "proposed" /\ run.replyState # "settled"
           \/ transcript' = "settled" /\ run.replyState = "settled"
    PROVE  StoresInv'
  <1>1. (run.replyState # "settled") => registry # "settled" /\ transcript # "settled"
    BY DEF StoresInv, PublicationIsOrdered, StoresFollowEvent
  <1>2. run.status = "completed" => registry = "settled" /\ transcript = "settled"
    BY DEF StoresInv, PublicationIsOrdered, CompletedRunPublished
  <1> QED
    BY <1>1, <1>2 DEF StoresInv, StreamReplays, PublicationIsOrdered, CompletedRunPublished,
       SettledReplyIsPersisted, StoresFollowEvent
-----------------------------------------------------------------------------
(* Publication: the Runner's steps                                         *)

\* The three outcomes of an append of the Runner: it returned, it failed, it
\* failed although the event is stored.
LEMMA LiveAppended ==
    ASSUME RunTyped, StoresInv, NEW e, NEW onOk, NEW onFail, LiveAppends(e, onOk, onFail),
           ValidTransition(run, e) => e \in Event,
           e.type \notin LateChecked \ {"run_completed"}
    PROVE  /\ UNCHANGED <<ran, transcript, registry, lease, pass, crashes>>
           /\ \/ live' = onOk /\ AppendEvent(e) /\ e \in Event
              \/ live' = onFail /\ AppendEvent(e) /\ e \in Event
              \/ live' = onFail /\ UNCHANGED <<run, refused>>
           /\ faults' = 0 =>
                /\ faults = 0
                /\ \/ live' = onOk /\ AppendEvent(e) /\ e \in Event
                   \/ live' = onFail /\ UNCHANGED run /\ ~ValidTransition(run, e)
  BY Appended DEF LiveAppends, stores

\* Where a step of the Runner has left its control point.
LEMMA Landed ==
    ASSUME live \in Live
    PROVE  /\ \A pc : /\ At(pc) = [live EXCEPT !.pc = pc]
                      /\ At(pc).pc = pc /\ At(pc).result = live.result
                      /\ At(pc).early = live.early /\ At(pc).broken = live.broken
                      /\ At(pc).open = live.open /\ At(pc).effect = live.effect
           /\ \A pc : /\ FailAt(pc).pc = pc /\ FailAt(pc).result = "error"
                      /\ FailAt(pc).early = live.early /\ FailAt(pc).broken = live.broken
                      /\ FailAt(pc).open = live.open /\ FailAt(pc).effect = live.effect
           /\ /\ FailEarly.pc = "decide" /\ FailEarly.result = "error"
              /\ FailEarly.early /\ FailEarly.broken = live.broken
              /\ FailEarly.open = live.open /\ FailEarly.effect = live.effect
  BY DEF Live, At, FailAt, FailEarly

\* The events of the stages: they settle nothing, and end nothing.
WorkType ==
    {"run_accepted", "user_input_appended", "model_request_started",
     "model_response_received", "model_request_settled", "effect_intent_created",
     "effect_settled"}

LEMMA WorkMoves ==
    ASSUME RunTyped, NEW e \in Event, AppendEvent(e), e.type \in WorkType
    PROVE  /\ run'.replyState = run.replyState /\ run'.outcome = run.outcome
           /\ run'.status \in Terminal => run.status \in Terminal
           /\ run'.status # "none"
           /\ run.status = "none" => e.type = "run_accepted"
           /\ IsDurableRunTerminal(run) => IsDurableRunTerminal(run')
  <1>1. run \in Projection /\ ValidTransition(run, e) /\ run' = Apply(run, e)
    BY DEF RunTyped, VarsTyped, TypeOK, AppendEvent
  <1>2. run.status = "none" => e.type = "run_accepted"
    BY <1>1 DEF ValidTransition
  <1> QED
    BY <1>1, <1>2, ApplyMoves DEF WorkType

\* A step in the Runner's memory, or a failing store operation, that moves it
\* between two control points with the same meaning or records the error.
LEMMA QuietMoves ==
    ASSUME StoresInv, ModelsOpen, FaultFree, faults \in Nat, UNCHANGED <<run, refused>>,
           faults' = faults \/ faults' = faults + 1,
           UNCHANGED <<transcript, registry>>
    PROVE  /\ StoresInv'
           /\ /\ live.pc \notin {"idle", "dead"}
              /\ \/ live'.pc \notin {"release", "done"}
                 \/ live.pc \in {"release", "done"}
                 \/ faults' # 0
                 \/ IsDurableRunTerminal(run)
              /\ \/ live'.pc \in {"invoke", "settleEffect"} /\ live'.effect = live.effect
                 \/ live.pc \notin {"invoke", "settleEffect"}
              => FaultFree'
           /\ /\ live'.open = live.open /\ live'.broken = live.broken
              /\ live'.pc \in Unsettled => live.pc \in Unsettled
              /\ live'.pc = "settle" => PendingModels(run) = {}
              => ModelsOpen'
  <1>1. StoresInv'
    BY StoringKeepsStores
  <1>2. faults' = 0 => faults = 0
    OBVIOUS
  <1>3. ASSUME live.pc \notin {"idle", "dead"},
               \/ live'.pc \notin {"release", "done"}
               \/ live.pc \in {"release", "done"}
               \/ faults' # 0
               \/ IsDurableRunTerminal(run),
               \/ live'.pc \in {"invoke", "settleEffect"} /\ live'.effect = live.effect
               \/ live.pc \notin {"invoke", "settleEffect"}
        PROVE  FaultFree'
    <2> SUFFICES ASSUME faults = 0, faults' = 0 PROVE FaultFree'
      BY <1>2 DEF FaultFree
    <2>1. run.status # "none"
      BY <1>3 DEF FaultFree
    <2>2. live'.pc \in {"release", "done"} => IsDurableRunTerminal(run)
      BY <1>3 DEF FaultFree
    <2>3. ASSUME NEW x \in PendingEffects(run)
          PROVE  \/ live'.pc = "dead"
                 \/ live'.pc \in {"invoke", "settleEffect"} /\ x = live'.effect
      BY <1>3 DEF FaultFree
    <2> QED
      BY <2>1, <2>2, <2>3 DEF FaultFree
  <1>4. ASSUME live'.open = live.open, live'.broken = live.broken,
               live'.pc \in Unsettled => live.pc \in Unsettled,
               live'.pc = "settle" => PendingModels(run) = {}
        PROVE  ModelsOpen'
    BY <1>4 DEF ModelsOpen
  <1> QED
    BY <1>1, <1>3, <1>4

\* What each step of the Runner has to keep.
LiveKeeps == StoresInv' /\ LiveInv' /\ ModelsOpen' /\ FaultFree'

\* An event of the stages, while the Runner works or after it.
LEMMA WorkKeeps ==
    ASSUME RunTyped, StoresInv, LiveInv, NEW e \in Event, AppendEvent(e),
           e.type \in WorkType \ {"run_accepted"},
           UNCHANGED <<transcript, registry, lease>>,
           e.type \in {"effect_intent_created", "model_request_started"} =>
             run.replyState # "settled",
           e.type = "effect_intent_created" =>
             run.replyState # "proposed" /\ e.owner = None,
           live'.pc # "idle"
    PROVE  /\ StoresInv'
           /\ (live'.pc = live.pc /\ live'.result = live.result /\ live'.early = live.early)
                => LiveInv'
  <1>1. StoresInv'
    BY EventKeepsStores DEF WorkType
  <1>2. ASSUME live'.pc = live.pc, live'.result = live.result, live'.early = live.early
        PROVE  LiveInv'
    BY <1>2, WorkMoves DEF LiveInv
  <1> QED
    BY <1>1, <1>2

LEMMA IngressKeeps ==
    ASSUME RunTyped, StoresInv, LiveInv, ModelsOpen, FaultFree,
           Accept \/ AcquireRunLease \/ RecordUserInput
    PROVE  LiveKeeps
  <1>0. live \in Live /\ run \in Projection /\ faults \in Nat
    BY DEF RunTyped, VarsTyped, TypeOK
  <1>1. CASE Accept
    <2> DEFINE e == [type |-> "run_accepted"]
    <2>1. e \in Event
      BY DEF Event, PlainType
    <2>2. LiveAppends(e, At("lease"), FailEarly) /\ live.pc = "idle" /\ run.status = "none"
      BY <1>1 DEF Accept, LiveInv
    <2>3. ValidTransition(run, e)
      BY <2>2 DEF ValidTransition, InOrder, Terminal
    <2>4. /\ UNCHANGED <<ran, transcript, registry, lease, pass, crashes>>
          /\ \/ live' = At("lease") /\ AppendEvent(e)
             \/ live' = FailEarly /\ AppendEvent(e)
             \/ live' = FailEarly /\ UNCHANGED <<run, refused>>
          /\ faults' = 0 => faults = 0 /\ live' = At("lease") /\ AppendEvent(e)
      BY <1>0, <2>1, <2>2, <2>3, LiveAppended DEF LateChecked
    <2>5. CASE AppendEvent(e)
      <3>1. run' = Apply(run, e)
        BY <2>5 DEF AppendEvent
      <3>2. StoresInv'
        BY <2>1, <2>4, <2>5, EventKeepsStores
      <3>3. LiveInv'
        BY <1>0, <2>1, <2>2, <2>4, <2>5, Landed, WorkMoves
           DEF LiveInv, Unproposed, Unsettled, Reporting, WorkType, Terminal
      <3>4. PendingModels(run') \subseteq PendingModels(run)
            /\ PendingEffects(run') \subseteq PendingEffects(run)
        BY <1>0, <2>1, <2>3, <3>1, ApplyOpens
      <3>5. ModelsOpen'
        BY <1>0, <2>2, <2>4, <3>4, Landed DEF ModelsOpen, Unproposed, Unsettled, Reporting
      <3>6. FaultFree'
        BY <1>0, <2>1, <2>2, <2>4, <2>5, <3>4, Landed, WorkMoves DEF FaultFree, WorkType
      <3> QED
        BY <3>2, <3>3, <3>5, <3>6 DEF LiveKeeps
    <2>6. CASE live' = FailEarly /\ UNCHANGED <<run, refused>>
      <3>1. StoresInv'
        BY <2>4, <2>6, StoringKeepsStores
      <3>2. LiveInv'
        BY <1>0, <2>2, <2>4, <2>6, Landed DEF LiveInv, Unproposed, Unsettled, Reporting
      <3>3. ModelsOpen' /\ FaultFree'
        BY <1>0, <2>4, <2>6, Landed, <2>2
           DEF ModelsOpen, FaultFree, Unproposed, Unsettled, Reporting, At, Live
      <3> QED
        BY <3>1, <3>2, <3>3 DEF LiveKeeps
    <2> QED
      BY <2>4, <2>5, <2>6
  <1>2. CASE AcquireRunLease
    <2>1. /\ UNCHANGED <<run, refused, transcript, registry>> /\ live.pc = "lease"
          /\ faults' = faults \/ faults' = faults + 1
          /\ \/ live' = At("input") /\ lease' = [state |-> "active", owner |-> "live"]
             \/ live' = FailEarly /\ UNCHANGED lease
      BY <1>2 DEF AcquireRunLease, stores, Fault
    <2>2. LiveInv'
      BY <1>0, <2>1, Landed DEF LiveInv, Unproposed, Unsettled, Reporting
    <2>3. StoresInv' /\ ModelsOpen' /\ FaultFree'
      BY <1>0, <2>1, Landed, QuietMoves DEF Unsettled, Unproposed, Reporting
    <2> QED
      BY <2>2, <2>3 DEF LiveKeeps
  <1>3. CASE RecordUserInput
    <2> DEFINE e == [type |-> "user_input_appended"]
    <2>1. e \in Event
      BY DEF Event, PlainType
    <2>2. LiveAppends(e, At("work"), FailEarly) /\ live.pc = "input"
      BY <1>3 DEF RecordUserInput
    <2>3. /\ UNCHANGED <<ran, transcript, registry, lease, pass, crashes>>
          /\ \/ live' = At("work") /\ AppendEvent(e)
             \/ live' = FailEarly /\ AppendEvent(e)
             \/ live' = FailEarly /\ UNCHANGED <<run, refused>>
          /\ faults' = 0 => faults = 0
      BY <1>0, <2>1, <2>2, LiveAppended DEF LateChecked
    <2>4. CASE AppendEvent(e)
      <3>1. run' = Apply(run, e) /\ ValidTransition(run, e)
        BY <2>4 DEF AppendEvent
      <3>2. StoresInv'
        BY <2>1, <2>3, <2>4, EventKeepsStores
      <3>3. LiveInv'
        BY <1>0, <2>1, <2>2, <2>3, <2>4, Landed, WorkMoves
           DEF LiveInv, Unproposed, Unsettled, Reporting, WorkType
      <3>4. PendingModels(run') \subseteq PendingModels(run)
            /\ PendingEffects(run') \subseteq PendingEffects(run)
        BY <1>0, <2>1, <3>1, ApplyOpens
      <3>5. ModelsOpen'
        BY <1>0, <2>2, <2>3, <3>4, Landed DEF ModelsOpen, Unproposed, Unsettled, Reporting
      <3>6. FaultFree'
        BY <1>0, <2>1, <2>2, <2>3, <2>4, <3>4, Landed, WorkMoves DEF FaultFree, WorkType
      <3> QED
        BY <3>2, <3>3, <3>5, <3>6 DEF LiveKeeps
    <2>5. CASE live' = FailEarly /\ UNCHANGED <<run, refused>>
      <3>1. StoresInv'
        BY <2>3, <2>5, StoringKeepsStores
      <3>2. LiveInv'
        BY <1>0, <2>2, <2>3, <2>5, Landed DEF LiveInv, Unproposed, Unsettled, Reporting
      <3>3. ModelsOpen' /\ FaultFree'
        BY <1>0, <2>3, <2>5, Landed, <2>2
           DEF ModelsOpen, FaultFree, Unproposed, Unsettled, Reporting
      <3> QED
        BY <3>1, <3>2, <3>3 DEF LiveKeeps
    <2> QED
      BY <2>3, <2>4, <2>5
  <1> QED
    BY <1>1, <1>2, <1>3

\* A request's lifecycle: StartRequest, Answer, and the three appends.
LEMMA RequestsKeep ==
    ASSUME RunTyped, StoresInv, LiveInv, ModelsOpen, FaultFree, NEW q \in Req,
           \/ StartRequest(q) \/ Answer(q) \/ AppendResponse(q) \/ AppendSettlement(q)
           \/ SettleUnanswered(q)
    PROVE  LiveKeeps
  <1>0. live \in Live /\ run \in Projection /\ faults \in Nat
    BY DEF RunTyped, VarsTyped, TypeOK
  <1>1. CASE Answer(q)
    <2>1. /\ live' = [live EXCEPT !.open[q] = "answered"] /\ live.open[q] = "started"
          /\ live.pc \in {"work", "outcome"}
          /\ UNCHANGED <<run, refused, transcript, registry, lease, faults>>
      BY <1>1 DEF Answer, LiveMoves, stores, PreparesRequests
    <2>2. /\ live'.pc = live.pc /\ live'.result = live.result /\ live'.early = live.early
          /\ live'.broken = live.broken /\ live'.effect = live.effect
          /\ \A r \in Req : live.open[r] # "none" => live'.open[r] # "none"
      BY <1>0, <2>1 DEF Live
    <2>3. StoresInv'
      BY <2>1, StoringKeepsStores
    <2>4. LiveInv'
      BY <2>1, <2>2 DEF LiveInv
    <2>5. ModelsOpen'
      BY <2>1, <2>2 DEF ModelsOpen, PendingModels
    <2>6. FaultFree'
      BY <2>1, <2>2 DEF FaultFree
    <2> QED
      BY <2>3, <2>4, <2>5, <2>6 DEF LiveKeeps
  <1>2. ASSUME NEW e, e.type \in {"model_request_started", "model_response_received",
                                  "model_request_settled"},
               NEW onOk, NEW onFail, LiveAppends(e, onOk, onFail), e \in Event, e.req = q,
               e.type = "model_request_started" => live.pc \in {"work", "outcome"},
               live.pc \notin {"idle", "dead"},
               onOk \in Live, onFail \in Live,
               \A s \in {onOk, onFail} :
                 /\ s.pc = live.pc /\ s.result = live.result /\ s.early = live.early
                 /\ s.effect = live.effect,
               onFail.broken,
               onOk.broken = live.broken,
               \A r \in Req : r # q => onOk.open[r] = live.open[r],
               e.type # "model_request_settled" => onOk.open[q] # "none"
        PROVE  LiveKeeps
    <2>1. /\ UNCHANGED <<ran, transcript, registry, lease, pass, crashes>>
          /\ \/ live' = onOk /\ AppendEvent(e)
             \/ live' = onFail /\ AppendEvent(e)
             \/ live' = onFail /\ UNCHANGED <<run, refused>>
          /\ faults' = 0 => faults = 0
      BY <1>0, <1>2, LiveAppended DEF LateChecked
    <2>2. /\ live'.pc = live.pc /\ live'.result = live.result /\ live'.early = live.early
          /\ live'.effect = live.effect
      BY <1>2, <2>1
    <2>3. live.pc \in {"work", "outcome"} => run.replyState # "settled"
      BY DEF LiveInv, Unsettled, Unproposed
    <2>4. CASE AppendEvent(e)
      <3>1. run' = Apply(run, e) /\ ValidTransition(run, e)
        BY <2>4 DEF AppendEvent
      <3>2. StoresInv' /\ LiveInv'
        BY <1>2, <2>1, <2>2, <2>3, <2>4, WorkKeeps DEF WorkType
      <3>3. /\ PendingModels(run') \subseteq PendingModels(run) \cup {q}
            /\ e.type # "model_request_started" => PendingModels(run') \subseteq PendingModels(run)
            /\ e.type = "model_request_settled" => q \notin PendingModels(run')
            /\ PendingEffects(run') \subseteq PendingEffects(run)
            /\ PendingModels(run') \subseteq Req
        BY <1>0, <1>2, <3>1, ApplyOpens DEF PendingModels
      <3>4. ModelsOpen'
        <4>1. live'.pc = "settle" => PendingModels(run') = {}
          BY <1>2, <2>2, <3>3 DEF ModelsOpen
        <4>2. ASSUME live'.pc \in Unsettled, ~live'.broken, NEW r \in PendingModels(run')
              PROVE  live'.open[r] # "none"
          <5>1. live' = onOk /\ live.pc \in Unsettled /\ ~live.broken
            BY <1>2, <2>1, <2>2, <4>2
          <5>2. CASE r = q
            BY <1>2, <3>3, <4>2, <5>1, <5>2
          <5>3. CASE r # q
            BY <1>2, <3>3, <4>2, <5>1, <5>3 DEF ModelsOpen
          <5> QED
            BY <5>2, <5>3
        <4> QED
          BY <4>1, <4>2 DEF ModelsOpen
      <3>5. FaultFree'
        BY <1>2, <2>1, <2>2, <2>4, <3>3, WorkMoves DEF FaultFree, WorkType
      <3> QED
        BY <3>2, <3>4, <3>5 DEF LiveKeeps
    <2>5. CASE live' = onFail /\ UNCHANGED <<run, refused>>
      <3>1. StoresInv'
        BY <2>1, <2>5, StoringKeepsStores
      <3>2. LiveInv'
        BY <2>1, <2>2, <2>5 DEF LiveInv
      <3>3. ModelsOpen'
        BY <1>2, <2>2, <2>5 DEF ModelsOpen
      <3>4. FaultFree'
        BY <2>1, <2>2, <2>5 DEF FaultFree
      <3> QED
        BY <3>1, <3>2, <3>3, <3>4 DEF LiveKeeps
    <2> QED
      BY <2>1, <2>4, <2>5
  <1>3. /\ Rejected(q) \in Live /\ Rejected(q).pc = live.pc /\ Rejected(q).broken
        /\ Rejected(q).result = live.result /\ Rejected(q).early = live.early
        /\ Rejected(q).effect = live.effect
    BY <1>0 DEF Rejected, Live
  <1>4. ASSUME NEW s \in {"none", "received"}
        PROVE  LET n == [live EXCEPT !.open[q] = s] IN
               /\ n \in Live /\ n.pc = live.pc /\ n.result = live.result /\ n.early = live.early
               /\ n.effect = live.effect /\ n.broken = live.broken /\ n.open[q] = s
               /\ \A r \in Req : r # q => n.open[r] = live.open[r]
    BY <1>0 DEF Live
  <1>5. CASE StartRequest(q)
    <2> DEFINE e == [type |-> "model_request_started", req |-> q, retryOf |-> None]
               onOk == [live EXCEPT !.asked = @ \cup {q}, !.open[q] = "started"]
               onFail == [live EXCEPT !.asked = @ \cup {q}, !.broken = TRUE]
    <2>1. e \in Event
      BY DEF Event
    <2>2. /\ onOk \in Live /\ onFail \in Live
          /\ \A s \in {onOk, onFail} :
               /\ s.pc = live.pc /\ s.result = live.result /\ s.early = live.early
               /\ s.effect = live.effect
          /\ onFail.broken /\ onOk.broken = live.broken /\ onOk.open[q] = "started"
          /\ \A r \in Req : r # q => onOk.open[r] = live.open[r]
      BY <1>0 DEF Live
    <2>3. LiveAppends(e, onOk, onFail) /\ live.pc \in {"work", "outcome"}
      BY <1>5 DEF StartRequest, PreparesRequests
    <2> HIDE DEF onOk, onFail
    <2> QED
      BY <1>2, <2>1, <2>2, <2>3
  <1>6. CASE AppendResponse(q)
    <2> DEFINE e == [type |-> "model_response_received", req |-> q]
               onOk == [live EXCEPT !.open[q] = "received"]
               onFail == Rejected(q)
    <2>1. e \in Event
      BY DEF Event
    <2>2. LiveAppends(e, onOk, onFail) /\ live.pc \notin {"idle", "dead"}
      BY <1>6 DEF AppendResponse, Alive
    <2>3. /\ onOk \in Live /\ onFail \in Live
          /\ \A s \in {onOk, onFail} :
               /\ s.pc = live.pc /\ s.result = live.result /\ s.early = live.early
               /\ s.effect = live.effect
          /\ onFail.broken /\ onOk.broken = live.broken /\ onOk.open[q] = "received"
          /\ \A r \in Req : r # q => onOk.open[r] = live.open[r]
      BY <1>3, <1>4
    <2> HIDE DEF onOk, onFail
    <2> QED
      BY <1>2, <2>1, <2>2, <2>3
  <1>7. CASE AppendSettlement(q) \/ SettleUnanswered(q)
    <2>1. PICK received \in BOOLEAN :
            LiveAppends([type |-> "model_request_settled", req |-> q, received |-> received],
                        [live EXCEPT !.open[q] = "none"], Rejected(q))
      BY <1>7 DEF AppendSettlement, SettleUnanswered
    <2> DEFINE e == [type |-> "model_request_settled", req |-> q, received |-> received]
               onOk == [live EXCEPT !.open[q] = "none"]
               onFail == Rejected(q)
    <2>2. e \in Event
      BY DEF Event
    <2>3. live.pc \notin {"idle", "dead"}
      BY <1>7 DEF AppendSettlement, SettleUnanswered, Alive, Flushing, PreparesRequests
    <2>4. /\ onOk \in Live /\ onFail \in Live
          /\ \A s \in {onOk, onFail} :
               /\ s.pc = live.pc /\ s.result = live.result /\ s.early = live.early
               /\ s.effect = live.effect
          /\ onFail.broken /\ onOk.broken = live.broken
          /\ \A r \in Req : r # q => onOk.open[r] = live.open[r]
      BY <1>3, <1>4
    <2>5. LiveAppends(e, onOk, onFail)
      BY <2>1
    <2> HIDE DEF onOk, onFail
    <2> QED
      BY <1>2, <2>2, <2>3, <2>4, <2>5
  <1> QED
    BY <1>1, <1>5, <1>6, <1>7

\* The flushes before FINALIZE, before the persist and at the end.
LEMMA FlushesKeep ==
    ASSUME RunTyped, StoresInv, LiveInv, ModelsOpen, FaultFree, OneLeaseHolder,
           FlushFails \/ FlushReturns
    PROVE  LiveKeeps
  <1>0. live \in Live /\ faults \in Nat
    BY DEF RunTyped, VarsTyped
  <1>1. UNCHANGED <<run, refused, transcript, registry, lease, faults>>
    BY DEF FlushFails, FlushReturns, LiveMoves, stores
  <1>2. \/ live.pc = "flushFinalize" /\ live' \in {At("reserve"), FailAt("outcome")}
        \/ live.pc = "flushPersist" /\ live' \in {At("persist"), FailAt("publicationFailed")}
        \/ live.pc = "flushEnd" /\ live' = FailAt("lifecycleFailed")
        \/ /\ live.pc = "flushEnd" /\ live.result # "ok" /\ live' = At("decide")
        \/ /\ live.pc = "flushEnd" /\ live.result = "ok" /\ live' = At("settle")
           /\ ~live.broken /\ \A q \in Req : live.open[q] = "none"
    BY DEF FlushFails, FlushReturns, LiveMoves, Flushing, AfterFlush, AfterFlushFailure
  <1>3. live'.pc = "settle" => PendingModels(run) = {}
    <2> SUFFICES ASSUME live'.pc = "settle" PROVE PendingModels(run) = {}
      OBVIOUS
    <2>1. /\ live.pc = "flushEnd" /\ ~live.broken
          /\ \A q \in Req : live.open[q] = "none"
      BY <1>0, <1>2, Landed
    <2> QED
      BY <2>1 DEF ModelsOpen, Unsettled, PendingModels
  <1>4. LiveInv'
    <2>1. live.pc = "flushEnd" => lease = [state |-> "active", owner |-> "live"]
      BY DEF OneLeaseHolder, Working
    <2> QED
      BY <1>0, <1>1, <1>2, <2>1, Landed DEF LiveInv, Unproposed, Unsettled, Reporting
  <1>5. StoresInv' /\ ModelsOpen' /\ FaultFree'
    BY <1>0, <1>1, <1>2, <1>3, Landed, QuietMoves DEF Unsettled, Unproposed, Reporting
  <1> QED
    BY <1>4, <1>5 DEF LiveKeeps

\* The effects: the intent before the tool, its settlement after it.
LEMMA EffectsKeep ==
    ASSUME RunTyped, StoresInv, LiveInv, ModelsOpen, FaultFree, EffectInHand,
           \/ \E x \in Effect : BeginSideEffect(x)
           \/ InvokeTool \/ CancelTool \/ FinishSideEffect
    PROVE  LiveKeeps
  <1>0. live \in Live /\ run \in Projection /\ faults \in Nat
    BY DEF RunTyped, VarsTyped, TypeOK
  <1>1. ASSUME NEW x \in Effect, BeginSideEffect(x) PROVE LiveKeeps
    <2> DEFINE e == [type |-> "effect_intent_created", effect |-> x, owner |-> None]
               known == [live EXCEPT !.ledger = @ \cup {x}]
               begun == [known EXCEPT !.pc = "invoke", !.effect = x]
    <2>1. e \in Event /\ live.pc = "work"
      BY <1>1 DEF Event, BeginSideEffect
    <2>2. /\ known.pc = "work" /\ begun.pc = "invoke" /\ begun.effect = x
          /\ \A s \in {known, begun} :
               /\ s.result = live.result /\ s.early = live.early
               /\ s.open = live.open /\ s.broken = live.broken
      BY <1>0, <2>1 DEF Live
    <2>3. LiveMoves(begun) \/ LiveAppends(e, begun, known)
      BY <1>1 DEF BeginSideEffect
    <2> HIDE DEF begun, known
    <2>4. /\ UNCHANGED <<ran, transcript, registry, lease, pass, crashes>>
          /\ \/ live' = begun /\ UNCHANGED <<run, refused>> /\ faults' = faults
             \/ live' = begun /\ AppendEvent(e)
             \/ live' = known /\ AppendEvent(e)
             \/ live' = known /\ UNCHANGED <<run, refused>>
          /\ faults' = 0 =>
               /\ faults = 0
               /\ live' = known => UNCHANGED run
      <3>1. CASE LiveMoves(begun)
        BY <2>2, <3>1 DEF LiveMoves, stores
      <3>2. CASE LiveAppends(e, begun, known)
        BY <1>0, <2>1, <2>2, <3>2, LiveAppended DEF LateChecked
      <3> QED
        BY <2>3, <3>1, <3>2
    <2>5. run.replyState \notin {"proposed", "settled"}
      BY <2>1 DEF LiveInv, Unproposed
    <2>6. CASE AppendEvent(e)
      <3>1. run' = Apply(run, e) /\ ValidTransition(run, e)
        BY <2>6 DEF AppendEvent
      <3>2. StoresInv'
        BY <2>1, <2>2, <2>4, <2>5, <2>6, WorkKeeps DEF WorkType
      <3>3. LiveInv'
        BY <2>1, <2>2, <2>4, <2>6, WorkMoves
           DEF LiveInv, Unproposed, Unsettled, Reporting, WorkType
      <3>4. PendingModels(run') \subseteq PendingModels(run)
            /\ PendingEffects(run') \subseteq PendingEffects(run) \cup {x}
        BY <1>0, <2>1, <3>1, ApplyOpens
      <3>5. ModelsOpen'
        BY <2>1, <2>2, <2>4, <3>4 DEF ModelsOpen, Unproposed, Unsettled, Reporting
      <3>6. FaultFree'
        <4> SUFFICES ASSUME faults' = 0 PROVE FaultFree'
          BY DEF FaultFree
        <4>1. faults = 0 /\ (live' = begun \/ (live' = known /\ run' = run))
          BY <2>4 DEF AppendEvent
        <4>2. PendingEffects(run) = {} /\ run'.status # "none"
          BY <2>1, <2>6, <4>1, WorkMoves DEF FaultFree, WorkType
        <4> QED
          BY <2>2, <3>4, <4>1, <4>2 DEF FaultFree
      <3> QED
        BY <3>2, <3>3, <3>5, <3>6 DEF LiveKeeps
    <2>7. CASE UNCHANGED <<run, refused>>
      <3>1. StoresInv'
        BY <2>4, <2>7, StoringKeepsStores
      <3>2. LiveInv'
        BY <2>1, <2>2, <2>4, <2>7 DEF LiveInv, Unproposed, Unsettled, Reporting
      <3>3. ModelsOpen'
        BY <2>1, <2>2, <2>4, <2>7 DEF ModelsOpen, Unproposed, Unsettled, Reporting
      <3>4. FaultFree'
        BY <2>1, <2>2, <2>4, <2>7 DEF FaultFree
      <3> QED
        BY <3>1, <3>2, <3>3, <3>4 DEF LiveKeeps
    <2> QED
      BY <2>4, <2>6, <2>7
  <1>2. CASE InvokeTool \/ CancelTool
    <2>1. /\ UNCHANGED <<run, refused, transcript, registry, lease, faults>>
          /\ live.pc = "invoke" /\ live' = At("settleEffect")
      BY <1>2 DEF InvokeTool, CancelTool, LiveMoves, stores
    <2>2. LiveInv'
      BY <1>0, <2>1, Landed DEF LiveInv, Unproposed, Unsettled, Reporting
    <2>3. StoresInv' /\ ModelsOpen' /\ FaultFree'
      BY <1>0, <2>1, Landed, QuietMoves DEF Unsettled, Unproposed, Reporting
    <2> QED
      BY <2>2, <2>3 DEF LiveKeeps
  <1>3. CASE FinishSideEffect
    <2> DEFINE back == [live EXCEPT !.pc = "work", !.effect = None]
    <2>1. PICK st \in {"known", "unknown"} :
            LiveAppends([type |-> "effect_settled", effect |-> live.effect, status |-> st,
                         source |-> "tool", owner |-> None], back, back)
      BY <1>3 DEF FinishSideEffect
    <2>2. live.pc = "settleEffect"
      BY <1>3 DEF FinishSideEffect
    <2>3. PICK x \in Effect : x = live.effect
      BY <1>0, <2>2 DEF EffectInHand, Live
    <2> DEFINE e == [type |-> "effect_settled", effect |-> x, status |-> st,
                     source |-> "tool", owner |-> None]
    <2>4. e \in Event
      BY DEF Event
    <2>5. /\ back.pc = "work" /\ back.result = live.result /\ back.early = live.early
          /\ back.open = live.open /\ back.broken = live.broken
      BY <1>0 DEF Live
    <2>6. LiveAppends(e, back, back)
      BY <2>1, <2>3
    <2> HIDE DEF back
    <2>7. /\ UNCHANGED <<ran, transcript, registry, lease, pass, crashes>>
          /\ live' = back
          /\ AppendEvent(e) \/ UNCHANGED <<run, refused>>
          /\ faults' = 0 => faults = 0 /\ (AppendEvent(e) \/ ~ValidTransition(run, e))
      BY <1>0, <2>4, <2>6, LiveAppended DEF LateChecked
    <2>8. CASE AppendEvent(e)
      <3>1. run' = Apply(run, e) /\ ValidTransition(run, e)
        BY <2>8 DEF AppendEvent
      <3>2. StoresInv'
        BY <2>4, <2>5, <2>7, <2>8, WorkKeeps DEF WorkType
      <3>3. LiveInv'
        BY <2>2, <2>4, <2>5, <2>7, <2>8, WorkMoves
           DEF LiveInv, Unproposed, Unsettled, Reporting, WorkType
      <3>4. /\ PendingModels(run') \subseteq PendingModels(run)
            /\ PendingEffects(run') \subseteq PendingEffects(run) \ {x}
        BY <1>0, <2>4, <3>1, ApplyOpens
      <3>5. ModelsOpen'
        BY <2>2, <2>5, <2>7, <3>4 DEF ModelsOpen, Unproposed, Unsettled, Reporting
      <3>6. FaultFree'
        BY <2>2, <2>3, <2>4, <2>5, <2>7, <2>8, <3>4, WorkMoves DEF FaultFree, WorkType
      <3> QED
        BY <3>2, <3>3, <3>5, <3>6 DEF LiveKeeps
    <2>9. CASE UNCHANGED <<run, refused>>
      <3>1. StoresInv'
        BY <2>7, <2>9, StoringKeepsStores
      <3>2. LiveInv'
        BY <2>2, <2>5, <2>7, <2>9 DEF LiveInv, Unproposed, Unsettled, Reporting
      <3>3. ModelsOpen'
        BY <2>2, <2>5, <2>7, <2>9 DEF ModelsOpen, Unproposed, Unsettled, Reporting
      <3>4. FaultFree'
        <4> SUFFICES ASSUME faults' = 0 PROVE FaultFree'
          BY DEF FaultFree
        <4>1. faults = 0 /\ run.status # "none" /\ PendingEffects(run) \subseteq {x}
          BY <2>2, <2>3, <2>7 DEF FaultFree
        <4>2. AppendEvent(e) => run' = Apply(run, e) /\ ValidTransition(run, e)
          BY DEF AppendEvent
        <4>3. x \notin PendingEffects(run')
          <5>1. CASE AppendEvent(e)
            BY <1>0, <2>4, <4>2, <5>1, ApplyOpens
          <5>2. CASE ~ValidTransition(run, e)
            <6>1. x \in PendingEffects(run) => ValidTransition(run, e)
              BY <4>1 DEF ValidTransition, IsTerminalAuditClosure, IsDurableRunTerminal, InOrder,
                          MaySettleEffect, SettlementOwnerMatches, PendingEffects, StoresInv
            <6> QED
              BY <2>9, <5>2, <6>1
          <5> QED
            BY <2>7, <5>1, <5>2
        <4>4. PendingEffects(run') = {}
          BY <2>9, <4>1, <4>3
        <4> QED
          BY <2>5, <2>7, <2>9, <4>1, <4>4 DEF FaultFree
      <3> QED
        BY <3>1, <3>2, <3>3, <3>4 DEF LiveKeeps
    <2> QED
      BY <2>7, <2>8, <2>9
  <1> QED
    BY <1>1, <1>2, <1>3

\* FINALIZE: from the stages to the persisted, unpublished reply.
LEMMA FinalizeKeeps ==
    ASSUME RunTyped, StoresInv, LiveInv, ModelsOpen, FaultFree, OneLeaseHolder,
           \/ LeaveStages \/ ReserveReply \/ ProposeReply \/ AppendTranscript
           \/ ReportRuntimeFailure \/ SettleOutcome \/ Persist
    PROVE  LiveKeeps
  <1>0. live \in Live /\ run \in Projection /\ faults \in Nat
    BY DEF RunTyped, VarsTyped, TypeOK
  <1>a. live.pc \in Unsettled \ {"idle", "lease"} => lease = [state |-> "active", owner |-> "live"]
    BY DEF OneLeaseHolder, Working, Unsettled, Unproposed, Reporting
  <1>1. CASE LeaveStages \/ Persist
    <2>1. /\ UNCHANGED <<run, refused, transcript, registry, lease>>
          /\ faults' = faults \/ faults' = faults + 1
          /\ \/ live.pc = "work" /\ live' = At("flushFinalize")
             \/ live.pc = "work" /\ live' \in {FailAt("outcome"), FailAt("publicationFailed")}
             \/ live.pc = "work" /\ live' = [live EXCEPT !.pc = "outcome", !.result = "aborted"]
             \/ live.pc = "persist" /\ live' \in {At("flushEnd"), FailAt("publicationFailed")}
      BY <1>1 DEF LeaveStages, Persist, LiveMoves, LiveFaults, Fault, stores
    <2> DEFINE aborted == [live EXCEPT !.pc = "outcome", !.result = "aborted"]
    <2>0. /\ aborted.pc = "outcome" /\ aborted.result = "aborted" /\ aborted.early = live.early
          /\ aborted.open = live.open /\ aborted.broken = live.broken
      BY <1>0 DEF Live
    <2>b. \/ live.pc = "work" /\ live' = At("flushFinalize")
          \/ live.pc = "work" /\ live' \in {FailAt("outcome"), FailAt("publicationFailed")}
          \/ live.pc = "work" /\ live' = aborted
          \/ live.pc = "persist" /\ live' \in {At("flushEnd"), FailAt("publicationFailed")}
      BY <2>1
    <2> HIDE DEF aborted
    <2>2. live'.early = live.early /\ live'.open = live.open /\ live'.broken = live.broken
      BY <1>0, <2>0, <2>b, Landed
    <2>3. \/ /\ live.pc = "work" /\ live'.pc = "flushFinalize"
             /\ live'.result = live.result
          \/ /\ live.pc = "work" /\ live'.pc \in {"outcome", "publicationFailed"}
             /\ live'.result = "error"
          \/ /\ live.pc = "work" /\ live'.pc = "outcome"
             /\ live'.result = "aborted"
          \/ /\ live.pc = "persist" /\ live'.pc = "flushEnd"
             /\ live'.result = live.result
          \/ /\ live.pc = "persist" /\ live'.pc = "publicationFailed"
             /\ live'.result = "error"
      BY <1>0, <2>0, <2>b, Landed
    <2>4. LiveInv'
      BY <2>1, <2>2, <2>3 DEF LiveInv, Unproposed, Unsettled, Reporting
    <2>5. StoresInv' /\ ModelsOpen' /\ FaultFree'
      BY <1>0, <2>1, <2>2, <2>3, QuietMoves DEF Unsettled, Unproposed, Reporting
    <2> QED
      BY <2>4, <2>5 DEF LiveKeeps
  <1>2. CASE ReserveReply \/ AppendTranscript
    <2>1. /\ UNCHANGED <<run, refused, lease>>
          /\ faults' = faults \/ faults' = faults + 1
          /\ \/ /\ live.pc = "reserve" /\ live' = At("propose")
                /\ registry' = "reserved" /\ UNCHANGED transcript
             \/ /\ live.pc = "reserve" /\ live' = FailAt("outcome")
                /\ UNCHANGED <<registry, transcript>>
             \/ /\ live.pc = "transcript" /\ live' = At("outcome")
                /\ transcript' = "proposed" /\ UNCHANGED registry
             \/ /\ live.pc = "transcript" /\ live' = FailAt("sessionFailed")
                /\ UNCHANGED <<registry, transcript>>
      BY <1>2 DEF ReserveReply, AppendTranscript, LiveFaults, Fault, stores
    <2>2. StoresInv'
      <3>1. run.replyState # "settled"
        BY <2>1 DEF LiveInv, Unsettled, Unproposed
      <3> QED
        BY <2>1, <3>1, StoringKeepsStores
    <2>3. LiveInv'
      BY <1>0, <2>1, Landed DEF LiveInv, Unproposed, Unsettled, Reporting
    <2>4. ModelsOpen'
      BY <1>0, <2>1, Landed DEF ModelsOpen, Unproposed, Unsettled, Reporting
    <2>5. FaultFree'
      BY <1>0, <2>1, Landed DEF FaultFree
    <2> QED
      BY <2>2, <2>3, <2>4, <2>5 DEF LiveKeeps
  <1>3. CASE ProposeReply
    <2>1. PICK r \in Reply :
            LiveAppends([type |-> "final_reply_proposed", reply |-> r],
                        At("transcript"), FailAt("outcome"))
      BY <1>3 DEF ProposeReply
    <2> DEFINE e == [type |-> "final_reply_proposed", reply |-> r]
    <2>2. e \in Event /\ live.pc = "propose"
      BY <1>3 DEF Event, ProposeReply
    <2>3. /\ UNCHANGED <<ran, transcript, registry, lease, pass, crashes>>
          /\ \/ live' = At("transcript") /\ AppendEvent(e)
             \/ live' = FailAt("outcome") /\ AppendEvent(e)
             \/ live' = FailAt("outcome") /\ UNCHANGED <<run, refused>>
          /\ faults' = 0 => faults = 0
      BY <1>0, <2>1, <2>2, LiveAppended DEF LateChecked
    <2>4. CASE AppendEvent(e)
      <3>1. run' = Apply(run, e) /\ ValidTransition(run, e)
        BY <2>4 DEF AppendEvent
      <3>2. /\ run'.replyState = "proposed" /\ run'.outcome = run.outcome
            /\ run'.status \in Terminal => run.status \in Terminal
            /\ run'.status # "none"
            /\ PendingModels(run') \subseteq PendingModels(run)
            /\ PendingEffects(run') \subseteq PendingEffects(run)
        BY <1>0, <2>2, <3>1, ApplyMoves, ApplyOpens
      <3>3. StoresInv'
        BY <2>2, <2>3, <2>4, EventKeepsStores DEF LiveInv
      <3>4. LiveInv'
        BY <1>0, <2>2, <2>3, <3>2, Landed DEF LiveInv, Unproposed, Unsettled, Reporting
      <3>5. ModelsOpen'
        BY <1>0, <2>2, <2>3, <3>2, Landed DEF ModelsOpen, Unproposed, Unsettled, Reporting
      <3>6. FaultFree'
        BY <1>0, <2>2, <2>3, <3>2, Landed DEF FaultFree
      <3> QED
        BY <3>3, <3>4, <3>5, <3>6 DEF LiveKeeps
    <2>5. CASE live' = FailAt("outcome") /\ UNCHANGED <<run, refused>>
      <3>1. StoresInv'
        BY <2>3, <2>5, StoringKeepsStores
      <3>2. LiveInv'
        BY <1>0, <2>2, <2>3, <2>5, Landed DEF LiveInv, Unproposed, Unsettled, Reporting
      <3>3. ModelsOpen'
        BY <1>0, <2>2, <2>3, <2>5, Landed DEF ModelsOpen, Unproposed, Unsettled, Reporting
      <3>4. FaultFree'
        BY <1>0, <2>2, <2>3, <2>5, Landed DEF FaultFree
      <3> QED
        BY <3>1, <3>2, <3>3, <3>4 DEF LiveKeeps
    <2> QED
      BY <2>3, <2>4, <2>5
  <1>4. CASE ReportRuntimeFailure
    <2> DEFINE e == [type |-> "runtime_status_settled", status |-> "failed"]
    <2>1. e \in Event
      BY DEF Event, RuntimeStatus
    <2>2. /\ LiveAppends(e, At(AfterReport[live.pc]), At(AfterReport[live.pc]))
          /\ \/ live.pc = "sessionFailed" /\ AfterReport[live.pc] = "outcome"
             \/ live.pc = "publicationFailed" /\ AfterReport[live.pc] = "flushEnd"
             \/ live.pc = "lifecycleFailed" /\ AfterReport[live.pc] = "decide"
      BY <1>4 DEF ReportRuntimeFailure, Reporting, AfterReport
    <2> DEFINE next == At(AfterReport[live.pc])
    <2>3. /\ \/ live.pc = "sessionFailed" /\ next.pc = "outcome"
             \/ live.pc = "publicationFailed" /\ next.pc = "flushEnd"
             \/ live.pc = "lifecycleFailed" /\ next.pc = "decide"
          /\ next.result = live.result /\ next.early = live.early
          /\ next.open = live.open /\ next.broken = live.broken
      BY <1>0, <2>2, Landed
    <2>4. LiveAppends(e, next, next)
      BY <2>2
    <2> HIDE DEF next
    <2>5. /\ UNCHANGED <<ran, transcript, registry, lease, pass, crashes>> /\ live' = next
          /\ AppendEvent(e) \/ UNCHANGED <<run, refused>>
          /\ faults' = 0 => faults = 0
      BY <1>0, <2>1, <2>4, LiveAppended DEF LateChecked
    <2>6. live.result = "error" /\ run.replyState # "settled"
      BY <2>3 DEF LiveInv, Reporting, Unsettled
    <2>7. CASE AppendEvent(e)
      <3>1. run' = Apply(run, e) /\ ValidTransition(run, e)
        BY <2>7 DEF AppendEvent
      <3>2. /\ run'.replyState = "runtime_status" /\ run'.status # "none"
            /\ PendingModels(run') \subseteq PendingModels(run)
            /\ PendingEffects(run') \subseteq PendingEffects(run)
        BY <1>0, <2>1, <3>1, ApplyMoves, ApplyOpens
      <3>3. StoresInv'
        BY <2>1, <2>5, <2>7, EventKeepsStores
      <3>4. LiveInv'
        BY <1>a, <2>3, <2>5, <2>6, <3>2 DEF LiveInv, Unproposed, Unsettled, Reporting
      <3>5. ModelsOpen'
        BY <2>3, <2>5, <3>2 DEF ModelsOpen, Unproposed, Unsettled, Reporting
      <3>6. FaultFree'
        BY <2>3, <2>5, <3>2 DEF FaultFree
      <3> QED
        BY <3>3, <3>4, <3>5, <3>6 DEF LiveKeeps
    <2>8. CASE UNCHANGED <<run, refused>>
      <3>1. StoresInv'
        BY <2>5, <2>8, StoringKeepsStores
      <3>2. LiveInv'
        BY <1>a, <2>3, <2>5, <2>6, <2>8 DEF LiveInv, Unproposed, Unsettled, Reporting
      <3>3. ModelsOpen'
        BY <2>3, <2>5, <2>8 DEF ModelsOpen, Unproposed, Unsettled, Reporting
      <3>4. FaultFree'
        BY <2>3, <2>5, <2>8 DEF FaultFree
      <3> QED
        BY <3>1, <3>2, <3>3, <3>4 DEF LiveKeeps
    <2> QED
      BY <2>5, <2>7, <2>8
  <1>5. CASE SettleOutcome
    <2>1. PICK o \in Outcome \ {UnknownOutcome} :
            LiveAppends([type |-> "task_outcome_settled", outcome |-> o],
                        At("flushPersist"), FailAt("publicationFailed"))
      BY <1>5 DEF SettleOutcome
    <2> DEFINE e == [type |-> "task_outcome_settled", outcome |-> o]
    <2>2. e \in Event /\ live.pc = "outcome" /\ o # None
      BY <1>5, NoneIsFresh DEF Event, SettleOutcome
    <2>3. /\ UNCHANGED <<ran, transcript, registry, lease, pass, crashes>>
          /\ \/ live' = At("flushPersist") /\ AppendEvent(e)
             \/ live' = FailAt("publicationFailed") /\ AppendEvent(e)
             \/ live' = FailAt("publicationFailed") /\ UNCHANGED <<run, refused>>
          /\ faults' = 0 => faults = 0
      BY <1>0, <2>1, <2>2, LiveAppended DEF LateChecked
    <2>4. CASE AppendEvent(e)
      <3>1. run' = Apply(run, e) /\ ValidTransition(run, e)
        BY <2>4 DEF AppendEvent
      <3>2. /\ run'.replyState = run.replyState /\ run'.outcome # None
            /\ run'.status \in Terminal => run.status \in Terminal
            /\ run'.status # "none"
            /\ PendingModels(run') \subseteq PendingModels(run)
            /\ PendingEffects(run') \subseteq PendingEffects(run)
        BY <1>0, <2>2, <3>1, ApplyMoves, ApplyOpens
      <3>3. StoresInv'
        BY <2>2, <2>3, <2>4, EventKeepsStores
      <3>4. LiveInv'
        BY <1>0, <2>2, <2>3, <3>2, Landed DEF LiveInv, Unproposed, Unsettled, Reporting
      <3>5. ModelsOpen'
        BY <1>0, <2>2, <2>3, <3>2, Landed DEF ModelsOpen, Unproposed, Unsettled, Reporting
      <3>6. FaultFree'
        BY <1>0, <2>2, <2>3, <3>2, Landed DEF FaultFree
      <3> QED
        BY <3>3, <3>4, <3>5, <3>6 DEF LiveKeeps
    <2>5. CASE live' = FailAt("publicationFailed") /\ UNCHANGED <<run, refused>>
      <3>1. StoresInv'
        BY <2>3, <2>5, StoringKeepsStores
      <3>2. LiveInv'
        BY <1>0, <2>2, <2>3, <2>5, Landed DEF LiveInv, Unproposed, Unsettled, Reporting
      <3>3. ModelsOpen'
        BY <1>0, <2>2, <2>3, <2>5, Landed DEF ModelsOpen, Unproposed, Unsettled, Reporting
      <3>4. FaultFree'
        BY <1>0, <2>2, <2>3, <2>5, Landed DEF FaultFree
      <3> QED
        BY <3>1, <3>2, <3>3, <3>4 DEF LiveKeeps
    <2> QED
      BY <2>3, <2>4, <2>5
  <1> QED
    BY <1>1, <1>2, <1>3, <1>4, <1>5

\* The publication: event, registry, transcript.
LEMMA PublishingKeeps ==
    ASSUME RunTyped, StoresInv, LiveInv, ModelsOpen, FaultFree, OneLeaseHolder,
           SettleReply \/ SettleRegistry \/ PromoteTranscript
    PROVE  LiveKeeps
  <1>0. live \in Live /\ run \in Projection /\ faults \in Nat
    BY DEF RunTyped, VarsTyped, TypeOK
  <1>a. live.pc \in {"settle", "registry", "promote"}
          /\ lease = [state |-> "active", owner |-> "live"]
    BY DEF SettleReply, SettleRegistry, PromoteTranscript, OneLeaseHolder, Working
  <1>1. CASE SettleReply
    <2> DEFINE e == [type |-> "final_reply_settled", reply |-> run.reply]
    <2>1. LiveAppends(e, At("registry"), FailAt("release")) /\ live.pc = "settle"
      BY <1>1 DEF SettleReply, AfterReplyFailure
    <2>2. ValidTransition(run, e) => e \in Event
      <3>1. ValidTransition(run, e) => run.replyState = "proposed"
        BY DEF ValidTransition, InOrder
      <3> QED
        BY <3>1 DEF RunTyped, ReplyNamed, Event
    <2>3. /\ live.result = "ok" /\ run.replyState = "proposed" /\ transcript # "none"
          /\ run.outcome # None /\ run.status \notin Terminal
      BY <2>1 DEF LiveInv, Unsettled
    <2>4. Quiet(run)
      BY <2>1, <2>3 DEF Quiet, StoresInv, ModelsOpen
    <2>5. faults = 0 => ValidTransition(run, e)
      BY <2>1, <2>3, <2>4 DEF FaultFree, ValidTransition, InOrder
    <2>6. /\ UNCHANGED <<ran, transcript, registry, lease, pass, crashes>>
          /\ \/ live' = At("registry") /\ AppendEvent(e) /\ e \in Event
             \/ live' = FailAt("release") /\ AppendEvent(e) /\ e \in Event
             \/ live' = FailAt("release") /\ UNCHANGED <<run, refused>>
          /\ faults' = 0 => faults = 0 /\ live' = At("registry") /\ AppendEvent(e)
      BY <1>0, <2>1, <2>2, <2>5, LiveAppended DEF LateChecked
    <2>7. CASE AppendEvent(e) /\ e \in Event
      <3>1. run' = Apply(run, e) /\ ValidTransition(run, e)
        BY <2>7 DEF AppendEvent
      <3>2. /\ run'.replyState = "settled" /\ run'.status # "none"
            /\ PendingModels(run') \subseteq PendingModels(run)
            /\ PendingEffects(run') \subseteq PendingEffects(run)
        BY <1>0, <2>7, <3>1, ApplyMoves, ApplyOpens
      <3>3. StoresInv'
        BY <2>3, <2>6, <2>7, EventKeepsStores
      <3>4. LiveInv'
        BY <1>0, <1>a, <2>1, <2>6, <3>2, Landed DEF LiveInv, Unproposed, Unsettled, Reporting
      <3>5. ModelsOpen'
        BY <1>0, <2>6, <3>2, Landed DEF ModelsOpen, Unproposed, Unsettled, Reporting
      <3>6. FaultFree'
        BY <1>0, <2>1, <2>6, <3>2, Landed DEF FaultFree
      <3> QED
        BY <3>3, <3>4, <3>5, <3>6 DEF LiveKeeps
    <2>8. CASE live' = FailAt("release") /\ UNCHANGED <<run, refused>>
      <3>1. StoresInv'
        BY <2>6, <2>8, StoringKeepsStores
      <3>2. LiveInv'
        BY <1>0, <1>a, <2>1, <2>6, <2>8, Landed DEF LiveInv, Unproposed, Unsettled, Reporting
      <3>3. ModelsOpen'
        BY <1>0, <2>6, <2>8, Landed DEF ModelsOpen, Unproposed, Unsettled, Reporting
      <3>4. FaultFree'
        BY <1>0, <2>6, <2>8, Landed DEF FaultFree
      <3> QED
        BY <3>1, <3>2, <3>3, <3>4 DEF LiveKeeps
    <2> QED
      BY <2>6, <2>7, <2>8
  <1>2. CASE SettleRegistry \/ PromoteTranscript
    <2>1. /\ UNCHANGED <<run, refused, lease>>
          /\ \/ /\ live.pc = "registry" /\ live' = At("promote")
                /\ registry' = "settled" /\ UNCHANGED <<transcript, faults>>
             \/ /\ live.pc = "promote" /\ live' = At("decide")
                /\ transcript' = "settled" /\ UNCHANGED <<registry, faults>>
             \/ /\ live.pc \in {"registry", "promote"} /\ live' = FailAt("release")
                /\ UNCHANGED <<registry, transcript>> /\ faults' = faults + 1
      BY <1>2 DEF SettleRegistry, PromoteTranscript, AfterReplyFailure, LiveFaults, Fault, stores
    <2>2. StoresInv'
      <3>1. run.replyState = "settled"
        BY <2>1 DEF LiveInv
      <3> QED
        BY <2>1, <3>1, StoringKeepsStores
    <2>3. LiveInv'
      BY <1>0, <1>a, <2>1, Landed DEF LiveInv, Unproposed, Unsettled, Reporting
    <2>4. ModelsOpen'
      BY <1>0, <2>1, Landed DEF ModelsOpen, Unproposed, Unsettled, Reporting
    <2>5. FaultFree'
      BY <1>0, <2>1, Landed DEF FaultFree
    <2> QED
      BY <2>2, <2>3, <2>4, <2>5 DEF LiveKeeps
  <1> QED
    BY <1>1, <1>2

\* The terminal event and the release.
LEMMA EndingKeeps ==
    ASSUME RunTyped, StoresInv, LiveInv, ModelsOpen, FaultFree,
           DecideOutcome \/ RecordOutcome \/ ReleaseRun
    PROVE  LiveKeeps
  <1>0. live \in Live /\ run \in Projection /\ faults \in Nat
    BY DEF RunTyped, VarsTyped, TypeOK
  <1>1. CASE DecideOutcome
    <2>1. /\ UNCHANGED <<run, refused, transcript, registry, lease>> /\ live.pc = "decide"
          /\ faults' = faults \/ faults' = faults + 1
          /\ live' = At("release") \/ live' = At("record")
          /\ live' = At("release") => LeavesOutcomeAlone
      BY <1>0, <1>1, Landed DEF DecideOutcome, LiveMoves, LiveFaults, Fault, stores
    <2>2. LeavesOutcomeAlone => IsDurableRunTerminal(run)
      BY <2>1 DEF LeavesOutcomeAlone, IsDurableRunTerminal, LiveInv
    <2>3. LiveInv'
      BY <1>0, <2>1, Landed DEF LiveInv, Unproposed, Unsettled, Reporting
    <2>4. StoresInv' /\ ModelsOpen' /\ FaultFree'
      BY <1>0, <2>1, <2>2, Landed, QuietMoves DEF Unsettled, Unproposed, Reporting
    <2> QED
      BY <2>3, <2>4 DEF LiveKeeps
  <1>2. CASE RecordOutcome
    <2>1. PICK e \in {[type |-> "run_completed"], [type |-> "run_failed"],
                      [type |-> "run_interrupted"]} :
            /\ e = [type |-> TerminalEvent[live.result]]
            /\ e.type = "run_completed" <=> live.result = "ok"
      BY <1>0 DEF TerminalEvent, Live
    <2>2. e \in Event /\ e.type \in {"run_completed", "run_failed", "run_interrupted"}
      BY DEF Event, PlainType
    <2> DEFINE onFail == At(IF live.early THEN "done" ELSE "release")
    <2>3. live.pc = "record" /\ LiveAppends(e, At("release"), onFail)
      BY <1>2, <2>1 DEF RecordOutcome, AfterRecordFailure
    <2>4. /\ At("release").pc = "release" /\ onFail.pc \in {"release", "done"}
          /\ \A s \in {At("release"), onFail} : s.result = live.result /\ s.early = live.early
      BY <1>0, Landed
    <2> HIDE DEF onFail
    <2>5. /\ UNCHANGED <<ran, transcript, registry, lease, pass, crashes>>
          /\ live'.pc \in {"release", "done"}
          /\ live'.result = live.result /\ live'.early = live.early
          /\ AppendEvent(e) \/ UNCHANGED <<run, refused>>
          /\ faults' = 0 => faults = 0 /\ (AppendEvent(e) \/ ~ValidTransition(run, e))
      BY <1>0, <2>2, <2>3, <2>4, LiveAppended DEF LateChecked
    <2>6. live.result = "ok" =>
            /\ run.replyState = "settled" /\ registry = "settled" /\ transcript = "settled"
            /\ EffectsQuiet(run)
      BY <2>3 DEF LiveInv, StoresInv
    <2>7. live.result # "ok" => run.replyState # "settled"
      BY <2>3 DEF LiveInv
    <2>8. CASE AppendEvent(e)
      <3>1. run' = Apply(run, e) /\ ValidTransition(run, e)
        BY <2>8 DEF AppendEvent
      <3>2. /\ run'.replyState = run.replyState /\ run'.status # "none"
            /\ PendingEffects(run') \subseteq PendingEffects(run)
        BY <1>0, <2>2, <3>1, ApplyMoves, ApplyOpens
      <3>3. IsDurableRunTerminal(run')
        <4>1. run'.status = NextStatus(run, e)
          BY <3>1 DEF Apply
        <4>2. /\ e.type = "run_completed" => NextStatus(run, e) = "completed"
              /\ e.type = "run_failed" => NextStatus(run, e) = "failed"
              /\ e.type = "run_interrupted" => NextStatus(run, e) = "interrupted"
          BY DEF NextStatus, StartsRun
        <4> QED
          BY <2>2, <4>1, <4>2 DEF IsDurableRunTerminal, Terminal
      <3>4. StoresInv'
        BY <2>1, <2>2, <2>5, <2>6, <2>8, EventKeepsStores
      <3>5. LiveInv'
        BY <2>3, <2>5, <3>2 DEF LiveInv, Unproposed, Unsettled, Reporting
      <3>6. ModelsOpen'
        BY <2>5 DEF ModelsOpen, Unproposed, Unsettled, Reporting
      <3>7. FaultFree'
        BY <2>3, <2>5, <3>2, <3>3 DEF FaultFree
      <3> QED
        BY <3>4, <3>5, <3>6, <3>7 DEF LiveKeeps
    <2>9. CASE UNCHANGED <<run, refused>>
      <3>1. StoresInv'
        BY <2>5, <2>9, StoringKeepsStores
      <3>2. LiveInv'
        BY <2>3, <2>5, <2>9 DEF LiveInv, Unproposed, Unsettled, Reporting
      <3>3. ModelsOpen'
        BY <2>5 DEF ModelsOpen, Unproposed, Unsettled, Reporting
      <3>4. FaultFree'
        <4> SUFFICES ASSUME faults' = 0 PROVE FaultFree'
          BY DEF FaultFree
        <4>1. faults = 0 /\ run.status # "none" /\ PendingEffects(run) = {}
          BY <2>3, <2>5 DEF FaultFree
        <4>2. IsDurableRunTerminal(run)
          <5>1. CASE AppendEvent(e)
            BY <2>2, <2>9, <5>1
               DEF AppendEvent, Apply, NextStatus, IsDurableRunTerminal, Terminal
          <5>2. CASE ~ValidTransition(run, e)
            BY <2>1, <2>2, <2>6, <2>7, <4>1, <5>2
               DEF ValidTransition, InOrder, MayComplete, MayAbort, IsDurableRunTerminal
          <5> QED
            BY <2>5, <5>1, <5>2
        <4> QED
          BY <2>5, <2>9, <4>1, <4>2 DEF FaultFree
      <3> QED
        BY <3>1, <3>2, <3>3, <3>4 DEF LiveKeeps
    <2> QED
      BY <2>5, <2>8, <2>9
  <1>3. CASE ReleaseRun
    <2>1. /\ UNCHANGED <<run, refused, transcript, registry>> /\ live.pc = "release"
          /\ faults' = faults \/ faults' = faults + 1
          /\ live' = At("done")
      BY <1>3 DEF ReleaseRun, LiveFaults, Fault, stores
    <2>2. LiveInv'
      BY <1>0, <2>1, Landed DEF LiveInv, Unproposed, Unsettled, Reporting
    <2>3. StoresInv' /\ ModelsOpen' /\ FaultFree'
      BY <1>0, <2>1, Landed, QuietMoves DEF Unsettled, Unproposed, Reporting
    <2> QED
      BY <2>2, <2>3 DEF LiveKeeps
  <1> QED
    BY <1>1, <1>2, <1>3

\* All of the Runner's steps.
LEMMA LiveStepKeeps ==
    ASSUME RunInv, StoresInv, LiveInv, ModelsOpen, FaultFree, LiveStep
    PROVE  LiveKeeps
  BY IngressKeeps, RequestsKeep, FlushesKeep, EffectsKeep, FinalizeKeeps, PublishingKeeps,
     EndingKeeps DEF RunInv, LiveStep

-----------------------------------------------------------------------------
(* Publication: the recovery passes                                        *)

\* While a pass recovers, the Runner is elsewhere: not started, or over.
Aside ==
    \/ live.pc \in {"idle", "lease", "done", "dead"}
    \/ live.pc \in {"decide", "record", "release"} /\ live.early

LEMMA RunnerIsAside ==
    ASSUME live \in Live, OneLeaseHolder, LiveInv, NEW p \in Pass, Recovering(p)
    PROVE  Aside
  <1>1. lease = [state |-> "active", owner |-> p] /\ p # "live"
    BY DEF OneLeaseHolder, Pass
  <1>2. ~Working
    BY <1>1 DEF OneLeaseHolder
  <1>3. live.pc \in {"decide", "record", "release"} => live.early
    BY <1>1 DEF LiveInv
  <1> QED
    BY <1>2, <1>3 DEF Working, Aside

\* A step of a Runner that is aside changes nothing that a pass has read.
LEMMA AsideSteps ==
    ASSUME RunTyped, StoresInv, Aside, LiveStep
    PROVE  run'.replyState = run.replyState /\ run'.outcome = run.outcome
           /\ UNCHANGED <<transcript, registry>>
  <1> DEFINE Goal == run'.replyState = run.replyState /\ run'.outcome = run.outcome
                     /\ UNCHANGED <<transcript, registry>>
  <1>0. live \in Live /\ run \in Projection
    BY DEF RunTyped, VarsTyped, TypeOK
  <1>1. ASSUME NEW e, NEW onOk, NEW onFail, LiveAppends(e, onOk, onFail), e \in Event,
               e.type \in WorkType \cup {"run_completed", "run_failed", "run_interrupted"}
        PROVE  Goal
    <2>1. UNCHANGED <<transcript, registry>>
          /\ (AppendEvent(e) \/ UNCHANGED run)
      BY <1>1, LiveAppended DEF LateChecked, WorkType
    <2>2. AppendEvent(e) => ValidTransition(run, e) /\ run' = Apply(run, e)
      BY DEF AppendEvent
    <2> QED
      BY <1>0, <1>1, <2>1, <2>2, ApplyMoves DEF WorkType
  <1>2. CASE Accept
    <2>1. LiveAppends([type |-> "run_accepted"], At("lease"), FailEarly)
          /\ [type |-> "run_accepted"] \in Event
      BY <1>2 DEF Accept, Event, PlainType
    <2> QED
      BY <1>1, <2>1 DEF WorkType
  <1>3. ASSUME NEW q \in Req, AppendResponse(q) \/ AppendSettlement(q) PROVE Goal
    <2>1. \E e \in Event : \E onOk, onFail :
            /\ LiveAppends(e, onOk, onFail)
            /\ e.type \in {"model_response_received", "model_request_settled"}
      <3>1. [type |-> "model_response_received", req |-> q] \in Event
            /\ [type |-> "model_request_settled", req |-> q, received |-> TRUE] \in Event
        BY DEF Event
      <3> QED
        BY <1>3, <3>1 DEF AppendResponse, AppendSettlement
    <2> QED
      BY <1>1, <2>1 DEF WorkType
  <1>4. CASE RecordOutcome
    <2>1. PICK e \in {[type |-> "run_completed"], [type |-> "run_failed"],
                      [type |-> "run_interrupted"]} :
            e = [type |-> TerminalEvent[live.result]]
      BY <1>0 DEF TerminalEvent, Live
    <2>2. e \in Event /\ e.type \in {"run_completed", "run_failed", "run_interrupted"}
      BY DEF Event, PlainType
    <2>3. LiveAppends(e, At("release"), AfterRecordFailure)
      BY <1>4, <2>1 DEF RecordOutcome
    <2> QED
      BY <1>1, <2>2, <2>3
  <1>5. CASE AcquireRunLease \/ DecideOutcome \/ ReleaseRun
    BY <1>5 DEF AcquireRunLease, DecideOutcome, ReleaseRun, LiveMoves, LiveFaults, stores
  <1>6. live.pc \in {"idle", "lease", "done", "dead", "decide", "record", "release"}
    BY DEF Aside
  <1>7. \/ Accept \/ AcquireRunLease \/ DecideOutcome \/ RecordOutcome \/ ReleaseRun
        \/ \E q \in Req : AppendResponse(q) \/ AppendSettlement(q)
    BY <1>6 DEF LiveStep, RecordUserInput, StartRequest, Answer, SettleUnanswered, FlushFails,
                FlushReturns, BeginSideEffect, InvokeTool, CancelTool, FinishSideEffect,
                LeaveStages, ReserveReply, ProposeReply, AppendTranscript,
                ReportRuntimeFailure, SettleOutcome, Persist, SettleReply, SettleRegistry,
                PromoteTranscript, Flushing, Reporting, PreparesRequests
  <1> QED
    BY <1>2, <1>3, <1>4, <1>5, <1>7

\* So what a pass has read and settled still holds after a step of the Runner.
LEMMA PassesUndisturbed ==
    ASSUME RunInv, StoresInv, LiveInv, LiveStep, \A p \in Pass : PassInv(p)
    PROVE  \A p \in Pass : PassInv(p)'
  <1> SUFFICES ASSUME NEW p \in Pass PROVE PassInv(p)'
    OBVIOUS
  <1>1. UNCHANGED pass
    BY LiveStepTyped
  <1>2. CASE Recovering(p)
    <2>1. Aside
      BY <1>2, RunnerIsAside DEF RunInv, RunTyped, VarsTyped
    <2>2. run'.replyState = run.replyState /\ run'.outcome = run.outcome
          /\ UNCHANGED <<transcript, registry>>
      BY <2>1, AsideSteps DEF RunInv
    <2> QED
      BY <1>1, <2>2 DEF PassInv
  <1>3. CASE ~Recovering(p)
    BY <1>1, <1>3 DEF PassInv, Recovering, Viewing
  <1> QED
    BY <1>2, <1>3

\* What recovery may append.
RecoveryType ==
    {"model_request_settled", "effect_settled", "task_outcome_settled",
     "final_reply_settled", "runtime_status_settled", "run_completed"}

\* What the Runner knows is not disturbed by a recovery beside it.
LEMMA RunnerUndisturbed ==
    ASSUME RunTyped, Aside, LiveInv, ModelsOpen, FaultFree, UNCHANGED live,
           faults' = 0 => faults = 0,
           registry' \in {registry, "settled"}, transcript' \in {transcript, "settled"},
           \/ UNCHANGED run
           \/ \E e \in Event :
                /\ AppendEvent(e) /\ e.type \in RecoveryType
                /\ e.type = "runtime_status_settled" => e.status = "waiting_user"
    PROVE  LiveInv' /\ ModelsOpen' /\ FaultFree'
  <1>1. /\ live.pc \in {"idle", "lease", "done", "dead", "decide", "record", "release"}
        /\ live.pc \in {"decide", "record", "release"} => live.early
    BY DEF Aside
  <1>2. CASE UNCHANGED run
    <2>1. LiveInv'
      BY <1>1, <1>2 DEF LiveInv, Unproposed, Unsettled, Reporting
    <2>2. ModelsOpen' /\ FaultFree'
      BY <1>2 DEF ModelsOpen, FaultFree
    <2> QED
      BY <2>1, <2>2
  <1>3. ASSUME NEW e \in Event, AppendEvent(e), e.type \in RecoveryType,
               e.type = "runtime_status_settled" => e.status = "waiting_user"
        PROVE  LiveInv' /\ ModelsOpen' /\ FaultFree'
    <2>1. run \in Projection /\ ValidTransition(run, e) /\ run' = Apply(run, e)
      BY <1>3 DEF RunTyped, VarsTyped, TypeOK, AppendEvent
    <2>2. /\ e.type = "final_reply_settled" => run.replyState = "proposed"
          /\ e.type = "run_completed" => run.replyState = "settled"
          /\ run.status # "none"
      BY <1>3, <2>1 DEF ValidTransition, InOrder, MayComplete, RecoveryType
    <2>3. /\ run'.status # "none"
          /\ run.replyState \notin {"proposed", "settled"} =>
               run'.replyState \notin {"proposed", "settled"}
          /\ run.replyState = "settled" => run'.replyState = "settled"
          /\ run'.status \in Terminal /\ run.replyState # "settled" => run.status \in Terminal
          /\ IsDurableRunTerminal(run) => IsDurableRunTerminal(run')
          /\ PendingModels(run') \subseteq PendingModels(run)
          /\ PendingEffects(run') \subseteq PendingEffects(run)
      BY <1>3, <2>1, <2>2, ApplyMoves, ApplyOpens DEF RecoveryType, Terminal
    <2>4. LiveInv'
      BY <1>1, <2>2, <2>3 DEF LiveInv, Unproposed, Unsettled, Reporting
    <2>5. ModelsOpen' /\ FaultFree'
      BY <2>3 DEF ModelsOpen, FaultFree
    <2> QED
      BY <2>4, <2>5
  <1> QED
    BY <1>2, <1>3

\* The other passes are not recovering, and have read nothing yet.
LEMMA OtherPasses ==
    ASSUME RunInv, NEW p \in Pass, Recovering(p) \/ Recovering(p)', OneLeaseHolder',
           NEW next, pass' = [pass EXCEPT ![p] = next],
           PassInv(p)'
    PROVE  \A r \in Pass : PassInv(r)'
  <1>1. pass \in [Pass -> PassState]
    BY DEF RunInv, RunTyped, VarsTyped
  <1>2. ASSUME NEW r \in Pass, r # p PROVE PassInv(r)'
    <2>1. pass'[r] = pass[r] /\ ~Recovering(r)
      BY <1>1, <1>2 DEF RunInv, OneLeaseHolder, Recovering
    <2> QED
      BY <2>1 DEF PassInv, Recovering, Viewing
  <1> QED
    BY <1>2

LEMMA PassAppended ==
    ASSUME RunTyped, StoresInv, NEW p \in Pass, NEW e, NEW next, PassAppends(p, e, next),
           ValidTransition(run, e) => e \in Event, e.type \in RecoveryType
    PROVE  /\ UNCHANGED <<live, transcript, registry, lease>> /\ (faults' = 0 => faults = 0)
           /\ \/ /\ AppendEvent(e) /\ e \in Event
                 /\ pass' = [pass EXCEPT ![p] = [next EXCEPT !.fresh = FALSE]]
              \/ /\ (AppendEvent(e) /\ e \in Event) \/ UNCHANGED <<run, refused>>
                 /\ pass' = [pass EXCEPT ![p] = PassAt(p, "release")]
  <1>1. PICK ok \in BOOLEAN :
          /\ Append(e, ok)
          /\ pass' = [pass EXCEPT ![p] = IF ok THEN [next EXCEPT !.fresh = FALSE]
                                               ELSE PassAt(p, "release")]
    BY DEF PassAppends
  <1>2. /\ (AppendEvent(e) /\ e \in Event) \/ (~ok /\ UNCHANGED <<run, refused>>)
        /\ faults' = 0 => faults = 0
    BY <1>1, Appended DEF RecoveryType, LateChecked
  <1> QED
    BY <1>1, <1>2 DEF PassAppends, stores

\* A pass appends in its time: what it has read is what the stream holds.
LEMMA PassAppendKeeps ==
    ASSUME RunInv, OneLeaseHolder', StoresInv, LiveInv, ModelsOpen, FaultFree,
           NEW p \in Pass, Recovering(p),
           NEW e, NEW next \in PassState, PassAppends(p, e, next),
           ValidTransition(run, e) => e \in Event, e.type \in RecoveryType,
           e.type = "final_reply_settled" => transcript # "none" /\ run.outcome # None,
           e.type = "run_completed" => registry = "settled" /\ transcript = "settled",
           e.type = "runtime_status_settled" => e.status = "waiting_user",
           next.pc \in {"models", "effects", "reply", "registry", "release"},
           next.pc = "reply" =>
             e.type = "task_outcome_settled" /\ e.outcome # None
    PROVE  PublicationInv'
  <1>0. /\ RunTyped /\ live \in Live /\ pass \in [Pass -> PassState] /\ run \in Projection
        /\ OneLeaseHolder
    BY DEF RunInv, RunTyped, VarsTyped, TypeOK
  <1>1. /\ UNCHANGED <<live, transcript, registry, lease>> /\ (faults' = 0 => faults = 0)
        /\ \/ /\ AppendEvent(e) /\ e \in Event
              /\ pass' = [pass EXCEPT ![p] = [next EXCEPT !.fresh = FALSE]]
           \/ /\ (AppendEvent(e) /\ e \in Event) \/ UNCHANGED <<run, refused>>
              /\ pass' = [pass EXCEPT ![p] = PassAt(p, "release")]
    BY <1>0, PassAppended
  <1>2. StoresInv'
    BY <1>0, <1>1, EventKeepsStores, StoringKeepsStores DEF RecoveryType
  <1>3. LiveInv' /\ ModelsOpen' /\ FaultFree'
    BY <1>0, <1>1, RunnerIsAside, RunnerUndisturbed
  <1>4. PassInv(p)'
    <2>1. CASE /\ AppendEvent(e) /\ e \in Event
               /\ pass' = [pass EXCEPT ![p] = [next EXCEPT !.fresh = FALSE]]
      <3>1. /\ pass'[p].pc = next.pc /\ pass'[p].fresh = FALSE
        BY <1>0, <2>1 DEF PassState
      <3>2. e.type = "task_outcome_settled" => run'.outcome = e.outcome
        BY <1>0, <2>1, ApplyMoves DEF AppendEvent
      <3> QED
        BY <3>1, <3>2 DEF PassInv
    <2>2. CASE pass' = [pass EXCEPT ![p] = PassAt(p, "release")]
      <3>1. pass'[p].pc = "release"
        BY <1>0, <2>2 DEF PassAt, PassState
      <3> QED
        BY <3>1 DEF PassInv, Viewing
    <2> QED
      BY <1>1, <2>1, <2>2
  <1>5. \A r \in Pass : PassInv(r)'
    BY <1>1, <1>4, OtherPasses
  <1> QED
    BY <1>2, <1>3, <1>5 DEF PublicationInv

\* A pass that only moves on, takes a lease nobody holds or gives its own back.
LEMMA PassMoveKeeps ==
    ASSUME RunInv, PublicationInv, NEW p \in Pass, NEW next,
           pass' = [pass EXCEPT ![p] = next],
           UNCHANGED <<run, refused, live, transcript, registry>>,
           faults' = faults \/ faults' = faults + 1,
           UNCHANGED lease \/ lease # [state |-> "active", owner |-> "live"],
           PassInv(p)'
    PROVE  PublicationInv'
  <1>0. pass \in [Pass -> PassState] /\ faults \in Nat
    BY DEF RunInv, RunTyped, VarsTyped
  <1>1. StoresInv'
    BY StoringKeepsStores DEF PublicationInv
  <1>2. LiveInv'
    BY DEF PublicationInv, LiveInv
  <1>3. ModelsOpen' /\ FaultFree'
    BY <1>0 DEF PublicationInv, ModelsOpen, FaultFree
  <1>4. ASSUME NEW r \in Pass, r # p PROVE PassInv(r)'
    BY <1>0, <1>4 DEF PublicationInv, PassInv
  <1> QED
    BY <1>1, <1>2, <1>3, <1>4 DEF PublicationInv

\* A recovering pass that completes a store the reply has been settled for.
LEMMA PassStoreKeeps ==
    ASSUME RunInv, OneLeaseHolder', PublicationInv, NEW p \in Pass, Recovering(p), NEW next,
           pass' = [pass EXCEPT ![p] = next],
           UNCHANGED <<run, refused, live, lease, faults>>,
           run.replyState = "settled",
           registry' \in {registry, "settled"}, transcript' \in {transcript, "settled"},
           PassInv(p)'
    PROVE  PublicationInv'
  <1>0. RunTyped /\ live \in Live /\ OneLeaseHolder
    BY DEF RunInv, RunTyped, VarsTyped
  <1>1. StoresInv'
    BY StoringKeepsStores DEF PublicationInv
  <1>2. LiveInv' /\ ModelsOpen' /\ FaultFree'
    BY <1>0, RunnerIsAside, RunnerUndisturbed DEF PublicationInv
  <1>3. \A r \in Pass : PassInv(r)'
    BY OtherPasses
  <1> QED
    BY <1>1, <1>2, <1>3 DEF PublicationInv

\* Discovery, the lease, and its release.
LEMMA EdgesKeep ==
    ASSUME RunInv, PublicationInv, NEW p \in Pass,
           \/ DiscoverQueue \/ DiscoverEvents \/ CheckLease \/ DiscoverRetry
           \/ AcquireForRecovery(p) \/ ReleaseAfterRecovery(p)
    PROVE  PublicationInv'
  <1>0. pass \in [Pass -> PassState] /\ OneLeaseHolder
    BY DEF RunInv, RunTyped, VarsTyped
  <1>1. ASSUME NEW r \in Pass, NEW next,
               pass' = [pass EXCEPT ![r] = next], next.pc \notin Viewing,
               UNCHANGED <<run, refused, live, transcript, registry>>,
               faults' = faults \/ faults' = faults + 1,
               UNCHANGED lease \/ lease # [state |-> "active", owner |-> "live"]
        PROVE  PublicationInv'
    <2>1. PassInv(r)'
      BY <1>0, <1>1 DEF PassInv, Viewing
    <2> QED
      BY <1>1, <2>1, PassMoveKeeps
  <1>2. \A r \in Pass : \A pc \in PassPc : PassAt(r, pc).pc = pc
    BY <1>0 DEF PassAt, PassState
  <1>3. CASE DiscoverQueue \/ DiscoverEvents \/ CheckLease \/ DiscoverRetry
    <2>1. PICK r \in Pass : PassMoves(r, PassAt(r, "acquire"))
                              \/ PassMoves(r, PassAt(r, "listed")) \/ PassMoves(r, IdlePass)
      BY <1>3 DEF DiscoverQueue, DiscoverEvents, CheckLease, DiscoverRetry, Pass
    <2>2. /\ PassAt(r, "acquire").pc \notin Viewing /\ PassAt(r, "listed").pc \notin Viewing
          /\ IdlePass.pc \notin Viewing
      BY <1>2 DEF Viewing, PassPc, IdlePass
    <2> QED
      BY <1>1, <2>1, <2>2 DEF PassMoves, stores
  <1>4. CASE AcquireForRecovery(p)
    <2>1. CASE Free
      <3> DEFINE n == [pass[p] EXCEPT !.pc = "read"]
      <3>1. n.pc \notin Viewing
        BY <1>0 DEF PassState, Viewing
      <3>2. /\ pass' = [pass EXCEPT ![p] = n]
            /\ UNCHANGED <<run, refused, live, transcript, registry, faults>>
        BY <1>4, <2>1 DEF AcquireForRecovery, stores
      <3>3. lease # [state |-> "active", owner |-> "live"]
        BY <2>1 DEF Free
      <3> HIDE DEF n
      <3> QED
        BY <1>1, <3>1, <3>2, <3>3
    <2>2. CASE ~Free
      <3>1. IdlePass.pc \notin Viewing
        BY DEF IdlePass, Viewing
      <3> QED
        BY <1>1, <1>4, <2>2, <3>1 DEF AcquireForRecovery, stores
    <2> QED
      BY <2>1, <2>2
  <1>5. CASE ReleaseAfterRecovery(p)
    <2>1. lease = [state |-> "active", owner |-> p] /\ p # "live"
      BY <1>0, <1>5 DEF OneLeaseHolder, ReleaseAfterRecovery, Recovering, Pass
    <2>2. lease # [state |-> "active", owner |-> "live"]
      BY <2>1
    <2>3. IdlePass.pc \notin Viewing
      BY DEF IdlePass, Viewing
    <2> QED
      BY <1>1, <1>5, <2>2, <2>3 DEF ReleaseAfterRecovery, Fault, stores
  <1> QED
    BY <1>3, <1>4, <1>5

\* The steps of recoverRun.
LEMMA RecoveryKeeps ==
    ASSUME RunInv, OneLeaseHolder', PublicationInv, NEW p \in Pass, PassStep(p),
           ~AcquireForRecovery(p), ~ReleaseAfterRecovery(p)
    PROVE  PublicationInv'
  <1>0. /\ pass \in [Pass -> PassState] /\ pass[p] \in PassState
        /\ StoresInv /\ LiveInv /\ ModelsOpen /\ FaultFree /\ PassInv(p)
        /\ ReplyNamed(pass[p].view)
    BY DEF RunInv, RunTyped, VarsTyped, PublicationInv
  <1>1. ASSUME NEW next, PassMoves(p, next), PassInv(p)' PROVE PublicationInv'
    BY <1>1, PassMoveKeeps DEF PassMoves, stores
  <1>2. \A pc \in PassPc : /\ PassAt(p, pc) \in PassState
                           /\ PassAt(p, pc).pc = pc /\ PassAt(p, pc).fresh = pass[p].fresh
                           /\ PassAt(p, pc).view = pass[p].view
                           /\ PassAt(p, pc).ready = pass[p].ready
    BY <1>0 DEF PassAt, PassState
  <1>3. ASSUME PassMoves(p, PassAt(p, "release")) PROVE PublicationInv'
    <2>1. PassInv(p)'
      BY <1>0, <1>2, <1>3 DEF PassMoves, PassInv, PassPc, Viewing
    <2> QED
      BY <1>1, <1>3, <2>1
  <1>4. ASSUME Ready(p, pass[p].pc), pass[p].pc \in Viewing
        PROVE  /\ pass[p].fresh
               /\ pass[p].view.replyState = run.replyState
               /\ pass[p].view.outcome = run.outcome
    BY <1>0, <1>4 DEF Ready, PassInv
  <1>5. CASE Begin(p)
    <2> DEFINE n == [pass[p] EXCEPT !.pc = "models", !.view = run,
                                    !.models = PendingModels(run),
                                    !.effects = PendingEffects(run),
                                    !.terminalAtStart = IsDurableRunTerminal(run)]
    <2>1. PassMoves(p, PassAt(p, "release")) \/ PassMoves(p, n)
      BY <1>5 DEF Begin
    <2>2. n.pc = "models" /\ n.view = run
      BY <1>0 DEF PassState
    <2> HIDE DEF n
    <2>3. ASSUME PassMoves(p, n) PROVE PassInv(p)'
      BY <1>0, <2>2, <2>3 DEF PassMoves, PassInv
    <2> QED
      BY <1>1, <1>3, <2>1, <2>3
  <1>16. CASE ReadPending(p)
    <2> DEFINE n == [pass[p] EXCEPT !.pc = "claim", !.effects = PendingEffects(run)]
    <2>1. PassMoves(p, PassAt(p, "release")) \/ PassMoves(p, n)
      BY <1>16 DEF ReadPending
    <2>2. n.pc = "claim"
      BY <1>0 DEF PassState
    <2> HIDE DEF n
    <2>3. ASSUME PassMoves(p, n) PROVE PassInv(p)'
      BY <1>0, <2>2, <2>3 DEF PassMoves, PassInv, Viewing
    <2> QED
      BY <1>1, <1>3, <2>1, <2>3
  <1>17. ASSUME NEW x \in Effect, ClaimEffect(p, x) PROVE PublicationInv'
    <2>1. PICK n \in {[pass[p] EXCEPT !.effects = @ \ {x}],
                      [pass[p] EXCEPT !.pc = "refused"],
                      [pass[p] EXCEPT !.pc = "release"]} :
            pass' = [pass EXCEPT ![p] = n]
      BY <1>17 DEF ClaimEffect
    <2>2. n.pc \in {"claim", "refused", "release"}
      BY <1>0, <1>17, <2>1 DEF ClaimEffect, PassState
    <2>3. PassInv(p)'
      BY <1>0, <2>1, <2>2 DEF PassInv, Viewing
    <2>4. /\ UNCHANGED <<run, refused, live, transcript, registry, lease>>
          /\ faults' = faults \/ faults' = faults + 1
      BY <1>17 DEF ClaimEffect, Fault, stores
    <2> QED
      BY <2>1, <2>3, <2>4, PassMoveKeeps
  <1>6. CASE Replay(p)
    <2> DEFINE n == [pass[p] EXCEPT !.view = run, !.fresh = TRUE]
    <2>1. PassMoves(p, PassAt(p, "release")) \/ PassMoves(p, n)
      BY <1>6 DEF Replay
    <2>2. n.pc = pass[p].pc /\ n.view = run /\ n.ready = pass[p].ready
      BY <1>0 DEF PassState
    <2> HIDE DEF n
    <2>3. ASSUME PassMoves(p, n) PROVE PassInv(p)'
      BY <1>0, <2>2, <2>3 DEF PassMoves, stores, PassInv
    <2> QED
      BY <1>1, <1>3, <2>1, <2>3
  <1>7. ASSUME NEW q \in Req, CloseModel(p, q) PROVE PublicationInv'
    <2> DEFINE e == [type |-> "model_request_settled", req |-> q,
                     received |-> pass[p].view.model[q] = "received"]
               n == [pass[p] EXCEPT !.models = @ \ {q}]
    <2>1. PassAppends(p, e, n) /\ Ready(p, "models")
      BY <1>7 DEF CloseModel
    <2>2. e \in Event
      BY DEF Event
    <2>3. n \in PassState /\ n.pc = "models"
      BY <1>0, <2>1 DEF PassState, Ready
    <2>4. Recovering(p)
      BY <2>1 DEF Ready, Recovering
    <2> HIDE DEF n
    <2> QED
      BY <1>0, <2>1, <2>2, <2>3, <2>4, PassAppendKeeps DEF RecoveryType
  <1>8. ASSUME NEW x \in Effect, CloseEffect(p, x) PROVE PublicationInv'
    <2> DEFINE n == [pass[p] EXCEPT !.effects = @ \ {x}]
               e(st) == [type |-> "effect_settled", effect |-> x, status |-> st,
                         source |-> "runtime", owner |-> None]
    <2>1. PICK st \in {"known", "unknown"} : PassAppends(p, e(st), n)
      BY <1>8 DEF CloseEffect
    <2>2. e(st) \in Event
      BY DEF Event
    <2>3. n \in PassState /\ n.pc = "effects"
      BY <1>0, <1>8 DEF PassState, Ready, CloseEffect
    <2>4. Recovering(p)
      BY <1>8 DEF CloseEffect, Ready, Recovering
    <2> HIDE DEF n
    <2> QED
      BY <1>0, <2>1, <2>2, <2>3, <2>4, PassAppendKeeps DEF RecoveryType
  <1>9. CASE WorkClosed(p)
    <2>1. PICK pc \in {"effects", "release", "outcome"} : PassMoves(p, PassAt(p, pc))
      BY <1>9 DEF WorkClosed
    <2>2. pass[p].fresh /\ pass[p].pc \in Viewing
      BY <1>9 DEF WorkClosed, Ready, Viewing
    <2>3. PassInv(p)'
      BY <1>0, <1>2, <2>1, <2>2 DEF PassMoves, PassInv, PassPc
    <2> QED
      BY <1>1, <2>1, <2>3
  <1>10. CASE RecoverOutcome(p)
    <2> DEFINE e == [type |-> "task_outcome_settled", outcome |-> UnknownOutcome]
    <2>1. e \in Event /\ UnknownOutcome # None
      BY RunBounds, NoneIsFresh DEF Event
    <2>2. /\ pass[p].pc = "outcome"
          /\ pass[p].view.replyState = run.replyState /\ pass[p].view.outcome = run.outcome
      BY <1>4, <1>10 DEF RecoverOutcome, Ready, Viewing
    <2>3. Recovering(p)
      BY <2>2 DEF Recovering
    <2>4. CASE PassAppends(p, e, PassAt(p, "reply"))
      BY <1>0, <1>2, <2>1, <2>3, <2>4, PassAppendKeeps DEF RecoveryType, PassPc
    <2>5. CASE ~NeedsOutcome(pass[p].view) /\ PassMoves(p, PassAt(p, "reply"))
      <3>1. PassInv(p)'
        BY <1>0, <1>2, <2>2, <2>5 DEF PassMoves, PassInv, PassPc, NeedsOutcome
      <3> QED
        BY <1>1, <2>5, <3>1
    <2> QED
      BY <1>10, <2>4, <2>5 DEF RecoverOutcome
  <1>11. CASE RecoverReply(p)
    <2> DEFINE e == [type |-> "final_reply_settled", reply |-> pass[p].view.reply]
    <2>1. /\ pass[p].pc = "reply" /\ pass[p].fresh
          /\ pass[p].view.replyState = run.replyState /\ pass[p].view.outcome = run.outcome
      BY <1>4, <1>11 DEF RecoverReply, Ready, Viewing
    <2>2. Recovering(p)
      BY <2>1 DEF Recovering
    <2>3. CASE /\ pass[p].view.replyState = "proposed" /\ ReplyPersisted
               /\ PassAppends(p, e, PassAt(p, "registry"))
      <3>1. e \in Event /\ transcript # "none" /\ run.outcome # None
        BY <1>0, <2>1, <2>3 DEF ReplyNamed, Event, ReplyPersisted, PassInv
      <3> QED
        BY <1>0, <1>2, <2>2, <2>3, <3>1, PassAppendKeeps DEF RecoveryType, PassPc
    <2>4. CASE PassMoves(p, PassAt(p, "registry"))
      <3>1. PassInv(p)'
        BY <1>0, <1>2, <2>1, <2>4 DEF PassMoves, PassInv, PassPc
      <3> QED
        BY <1>1, <2>4, <3>1
    <2> QED
      BY <1>11, <2>3, <2>4 DEF RecoverReply
  <1>12. ASSUME NotReady(p), pass[p].fresh, pass[p].pc \in Viewing PROVE PublicationInv'
    <2> DEFINE n == [pass[p] EXCEPT !.pc = "close", !.ready = FALSE]
    <2>1. n.pc = "close" /\ n.ready = FALSE /\ n.view = pass[p].view /\ n.fresh = pass[p].fresh
      BY <1>0 DEF PassState
    <2>2. /\ pass' = [pass EXCEPT ![p] = n]
          /\ UNCHANGED <<run, refused, live, transcript, registry, lease>>
          /\ faults' = faults + 1
      BY <1>12 DEF NotReady, Fault, stores
    <2> HIDE DEF n
    <2>3. PassInv(p)'
      BY <1>0, <1>12, <2>1, <2>2 DEF PassInv
    <2> QED
      BY <2>2, <2>3, PassMoveKeeps
  <1>13. CASE RecoverRegistry(p)
    <2> DEFINE n == [pass[p] EXCEPT !.pc = "close", !.ready = TRUE]
    <2>1. n.pc = "close" /\ n.view = pass[p].view /\ n.fresh = pass[p].fresh
      BY <1>0 DEF PassState
    <2>2. /\ pass[p].pc = "registry" /\ pass[p].fresh /\ pass[p].pc \in Viewing
          /\ pass[p].view.replyState = run.replyState /\ pass[p].view.outcome = run.outcome
      BY <1>4, <1>13 DEF RecoverRegistry, Ready, Viewing
    <2>3. Recovering(p)
      BY <2>2 DEF Recovering
    <2>4. CASE pass[p].view.replyState # "settled" /\ PassMoves(p, n)
      <3> HIDE DEF n
      <3>1. PassInv(p)'
        BY <1>0, <2>1, <2>2, <2>4 DEF PassMoves, stores, PassInv
      <3> QED
        BY <1>1, <2>4, <3>1
    <2>5. CASE /\ pass[p].view.replyState = "settled" /\ registry' = "settled"
               /\ pass' = [pass EXCEPT ![p] = PassAt(p, "promote")]
               /\ UNCHANGED <<run, refused, live, ran, transcript, lease, effectLease,
                               faults, crashes>>
      <3>1. PassInv(p)'
        BY <1>0, <1>2, <2>2, <2>5 DEF PassInv, PassPc
      <3> QED
        BY <2>2, <2>3, <2>5, <3>1, PassStoreKeeps
    <2> QED
      BY <1>12, <1>13, <2>2, <2>4, <2>5 DEF RecoverRegistry, RegistryDone
  <1>14. CASE RecoverPromotion(p)
    <2> DEFINE n == [pass[p] EXCEPT !.pc = "close", !.ready = TRUE]
    <2>1. n.pc = "close" /\ n.view = pass[p].view /\ n.fresh = pass[p].fresh
      BY <1>0 DEF PassState
    <2>2. /\ pass[p].pc = "promote" /\ pass[p].fresh /\ pass[p].pc \in Viewing
          /\ run.replyState = "settled" /\ registry = "settled"
      BY <1>0, <1>4, <1>14 DEF RecoverPromotion, Ready, Viewing, PassInv
    <2>3. Recovering(p)
      BY <2>2 DEF Recovering
    <2>4. CASE /\ transcript' = "settled"
               /\ pass' = [pass EXCEPT ![p] = n]
               /\ UNCHANGED <<run, refused, live, ran, registry, lease, effectLease, faults, crashes>>
      <3> HIDE DEF n
      <3>1. PassInv(p)'
        BY <1>0, <2>1, <2>2, <2>4 DEF PassInv
      <3> QED
        BY <2>2, <2>3, <2>4, <3>1, PassStoreKeeps
    <2> QED
      BY <1>12, <1>14, <2>2, <2>4 DEF RecoverPromotion
  <1>15. CASE CloseRun(p)
    <2> DEFINE completed == [type |-> "run_completed"]
               waiting == [type |-> "runtime_status_settled", status |-> "waiting_user"]
    <2>1. completed \in Event /\ waiting \in Event
      BY DEF Event, PlainType, RuntimeStatus
    <2>2. pass[p].pc = "close" /\ pass[p].view.replyState = run.replyState
      BY <1>4, <1>15 DEF CloseRun, Ready, Viewing
    <2>3. Recovering(p)
      BY <2>2 DEF Recovering
    <2>4. CASE /\ pass[p].view.replyState = "settled" /\ pass[p].ready
               /\ PassAppends(p, completed, PassAt(p, "release"))
      <3>1. registry = "settled" /\ transcript = "settled"
        BY <1>0, <2>2, <2>4 DEF PassInv
      <3> QED
        BY <1>0, <1>2, <2>1, <2>3, <2>4, <3>1, PassAppendKeeps DEF RecoveryType, PassPc
    <2>5. CASE PassAppends(p, waiting, PassAt(p, "release"))
      BY <1>0, <1>2, <2>1, <2>3, <2>5, PassAppendKeeps DEF RecoveryType, PassPc
    <2> QED
      BY <1>3, <1>15, <2>4, <2>5 DEF CloseRun
  <1> QED
    BY <1>5, <1>6, <1>7, <1>8, <1>9, <1>10, <1>11, <1>13, <1>14, <1>15, <1>16, <1>17
       DEF PassStep

-----------------------------------------------------------------------------
(* Publication: the theorems                                               *)

LEMMA PublicationInitially == RunInit => PublicationInv
  <1> SUFFICES ASSUME RunInit PROVE PublicationInv
    OBVIOUS
  <1>1. /\ run = EmptyProjection /\ refused = "none"
        /\ PendingEffects(run) = {} /\ PendingModels(run) = {}
    BY DEF RunInit, Init, EmptyProjection, PendingEffects, PendingModels
  <1>2. StoresInv
    BY <1>1 DEF RunInit, StoresInv, StreamReplays, PublicationIsOrdered, CompletedRunPublished,
                SettledReplyIsPersisted, StoresFollowEvent, EmptyProjection
  <1>3. LiveInv
    BY <1>1 DEF RunInit, LiveInv, Unproposed, Unsettled, Reporting, EmptyProjection, Terminal
  <1>4. ModelsOpen /\ FaultFree
    BY <1>1 DEF RunInit, ModelsOpen, FaultFree
  <1>5. \A p \in Pass : PassInv(p)
    BY DEF RunInit, IdlePass, PassInv, Viewing
  <1> QED
    BY <1>2, <1>3, <1>4, <1>5 DEF PublicationInv

\* A crash and the clock take nothing from the stream and the stores.
LEMMA WorldKeeps ==
    ASSUME RunInv, PublicationInv,
           Crash \/ Expire \/ (\E x \in Effect : ExpireEffect(x)) \/ UNCHANGED runVars
    PROVE  PublicationInv'
  <1>0. live \in Live /\ faults \in Nat /\ pass \in [Pass -> PassState]
    BY DEF RunInv, RunTyped, VarsTyped
  <1>1. CASE Crash
    <2>1. /\ UNCHANGED <<run, refused, transcript, registry, faults>>
          /\ live' = [live EXCEPT !.pc = IF @ = "idle" THEN @ ELSE "dead"]
          /\ pass' = [p \in Pass |-> IdlePass]
      BY <1>1 DEF Crash, stores
    <2>2. /\ live'.pc = IF live.pc = "idle" THEN "idle" ELSE "dead"
          /\ live'.result = live.result /\ live'.early = live.early
          /\ live'.open = live.open /\ live'.broken = live.broken
      BY <1>0, <2>1 DEF Live
    <2>3. StoresInv'
      BY <2>1, StoringKeepsStores DEF PublicationInv
    <2>4. LiveInv'
      BY <2>1, <2>2 DEF PublicationInv, LiveInv, Unproposed, Unsettled, Reporting
    <2>5. ModelsOpen'
      BY <2>1, <2>2 DEF PublicationInv, ModelsOpen, Unproposed, Unsettled, Reporting
    <2>6. FaultFree'
      BY <2>1, <2>2 DEF PublicationInv, FaultFree
    <2>7. \A p \in Pass : PassInv(p)'
      BY <2>1 DEF IdlePass, PassInv, Viewing
    <2> QED
      BY <2>3, <2>4, <2>5, <2>6, <2>7 DEF PublicationInv
  <1>2. CASE Expire \/ (\E x \in Effect : ExpireEffect(x)) \/ UNCHANGED runVars
    <2>1. /\ UNCHANGED <<run, refused, transcript, registry, faults, live, pass>>
          /\ UNCHANGED lease \/ lease # [state |-> "active", owner |-> "live"]
      BY <1>2 DEF Expire, ExpireEffect, runVars, stores
    <2>2. StoresInv'
      BY <2>1, StoringKeepsStores DEF PublicationInv
    <2>3. LiveInv'
      BY <2>1 DEF PublicationInv, LiveInv
    <2>4. ModelsOpen' /\ FaultFree'
      BY <2>1 DEF PublicationInv, ModelsOpen, FaultFree
    <2>5. \A p \in Pass : PassInv(p)'
      BY <2>1 DEF PublicationInv, PassInv
    <2> QED
      BY <2>2, <2>3, <2>4, <2>5 DEF PublicationInv
  <1> QED
    BY <1>1, <1>2

\* Every step keeps what is published in order.
LEMMA PublicationInductive ==
    ASSUME RunInv, PublicationInv, [RunNext]_runVars
    PROVE  PublicationInv'
  <1>0. OneLeaseHolder'
    BY RunInvInductive DEF RunInv
  <1>1. CASE LiveStep
    BY <1>1, LiveStepKeeps, PassesUndisturbed DEF PublicationInv, LiveKeeps
  <1>2. CASE DiscoverQueue \/ DiscoverEvents \/ CheckLease \/ DiscoverRetry
    <2>1. "queue" \in Pass
      BY DEF Pass
    <2> QED
      BY <1>2, <2>1, EdgesKeep
  <1>3. ASSUME NEW p \in Pass, PassStep(p) PROVE PublicationInv'
    BY <1>0, <1>3, EdgesKeep, RecoveryKeeps
  <1>4. CASE \/ Crash \/ Expire \/ (\E x \in Effect : ExpireEffect(x))
             \/ Over \/ UNCHANGED runVars
    BY <1>4, WorldKeeps DEF Over
  <1> QED
    BY <1>1, <1>2, <1>3, <1>4 DEF RunNext

\* What the stream, the stores, the Runner and the passes hold at every point.
THEOREM PublicationInvariant == RunSpec => []PublicationInv
  <1>1. RunInv /\ PublicationInv /\ [RunNext]_runVars => PublicationInv'
    BY PublicationInductive
  <1> QED
    BY <1>1, PublicationInitially, RunInvariant, PTL DEF RunSpec

\* Event, registry and transcript agree on the reply, whoever published it.
THEOREM PublicationOrdered == RunSpec => []PublicationIsOrdered
  <1>1. PublicationInv => PublicationIsOrdered
    BY DEF PublicationInv, StoresInv
  <1> QED
    BY <1>1, PublicationInvariant, PTL

\* No append of the Runner or of a recovery makes the stream unreadable.
THEOREM StreamAlwaysReplays == RunSpec => []StreamReplays
  <1>1. PublicationInv => StreamReplays
    BY DEF PublicationInv, StoresInv
  <1> QED
    BY <1>1, PublicationInvariant, PTL

\* What the Runner reports when it returns is what a reader of the stores finds.
THEOREM ReportTrue == RunSpec => []ReportIsTrue
  <1>1. PublicationInv => OkIsPublished
    BY DEF PublicationInv, LiveInv, OkIsPublished
  <1>2. PublicationInv => EndedRunIsClosed
    BY DEF PublicationInv, FaultFree, EndedRunIsClosed
  <1> QED
    BY <1>1, <1>2, PublicationInvariant, PTL DEF ReportIsTrue

-----------------------------------------------------------------------------
(* The leases of the effects                                               *)

\* A pass that claims has the lease of every pending effect it need not ask for.
ClaimsPending ==
    \A p \in Pass : pass[p].pc = "claim" =>
        \A x \in PendingEffects(run) : x \in pass[p].effects \/ effectLease[x] = p

\* The leases of the effects are in the right hands.
EffectInv ==
    /\ effectLease \in [Effect -> EffectOwner]
    /\ EffectsAreHeld /\ ClaimsPending

\* No effect becomes pending.
NoneOpened == PendingEffects(run)' \subseteq PendingEffects(run)

\* Only the intent of an effect makes it pending.
LEMMA AppendsNoIntent ==
    ASSUME TypeOK, NEW e, NEW ok \in BOOLEAN, Append(e, ok),
           e.type # "effect_intent_created",
           e.type = "effect_settled" => e.status # "pending"
    PROVE  NoneOpened
  <1>1. CASE UNCHANGED run
    BY <1>1 DEF NoneOpened
  <1>2. CASE AppendEvent(e)
    <2>1. /\ run.effect \in [Effect -> EffectState]
          /\ run' = Apply(run, e)
      BY <1>2 DEF TypeOK, Projection, AppendEvent
    <2>2. run'.effect = NextEffect(run, e)
      BY <2>1 DEF Apply
    <2>3. CASE e.type = "effect_settled"
      <3>1. run'.effect = [run.effect EXCEPT ![e.effect].state = e.status]
        BY <2>2, <2>3 DEF NextEffect
      <3> QED
        BY <2>1, <2>3, <3>1 DEF NoneOpened, PendingEffects, EffectState
    <2>4. CASE e.type # "effect_settled"
      BY <2>2, <2>4 DEF NextEffect, NoneOpened, PendingEffects
    <2> QED
      BY <2>3, <2>4
  <1> QED
    BY <1>1, <1>2 DEF Append, Stores, AppendUnreplayable, kernelVars

\* Beside BeginSideEffect, the Runner opens no effect and takes none in hand.
LEMMA NoOtherEffect ==
    ASSUME TypeOK, live \in Live, LiveStep, \A x \in Effect : ~BeginSideEffect(x)
    PROVE  /\ NoneOpened
           /\ live'.pc \in {"invoke", "settleEffect"} =>
                live.pc \in {"invoke", "settleEffect"} /\ live'.effect = live.effect
  <1> DEFINE Kept == live'.pc \in {"invoke", "settleEffect"} =>
                       live.pc \in {"invoke", "settleEffect"} /\ live'.effect = live.effect
  <1>1. ASSUME NEW e, NEW onOk, NEW onFail, LiveAppends(e, onOk, onFail),
               e.type # "effect_intent_created",
               e.type = "effect_settled" => e.status # "pending"
        PROVE  NoneOpened /\ live' \in {onOk, onFail}
    BY <1>1, AppendsNoIntent DEF LiveAppends
  <1>2. UNCHANGED run => NoneOpened
    BY DEF NoneOpened
  <1>3. CASE Accept \/ RecordUserInput
    <2>1. PICK e \in {[type |-> "run_accepted"], [type |-> "user_input_appended"]},
               pc \in {"lease", "work"} : LiveAppends(e, At(pc), FailEarly)
      BY <1>3 DEF Accept, RecordUserInput
    <2>2. e.type \notin {"effect_intent_created", "effect_settled"}
      OBVIOUS
    <2>3. NoneOpened /\ live' \in {At(pc), FailEarly}
      BY <1>1, <2>1, <2>2
    <2> QED
      BY <2>3 DEF At, FailEarly, Live
  <1>4. CASE AcquireRunLease
    BY <1>2, <1>4 DEF AcquireRunLease, At, FailEarly, Live
  <1>5. ASSUME NEW q \in Req, StartRequest(q) \/ AppendResponse(q) \/ AppendSettlement(q)
                                \/ SettleUnanswered(q)
        PROVE  NoneOpened /\ Kept
    <2>1. \E e, onOk, onFail :
            /\ LiveAppends(e, onOk, onFail)
            /\ e.type \notin {"effect_intent_created", "effect_settled"}
            /\ onOk.pc = live.pc /\ onOk.effect = live.effect
            /\ onFail.pc = live.pc /\ onFail.effect = live.effect
      <3>1. CASE StartRequest(q)
        <4> DEFINE e == [type |-> "model_request_started", req |-> q, retryOf |-> None]
                   onOk == [live EXCEPT !.asked = @ \cup {q}, !.open[q] = "started"]
                   onFail == [live EXCEPT !.asked = @ \cup {q}, !.broken = TRUE]
        <4>1. LiveAppends(e, onOk, onFail)
          BY <3>1 DEF StartRequest
        <4>2. /\ onOk.pc = live.pc /\ onOk.effect = live.effect
              /\ onFail.pc = live.pc /\ onFail.effect = live.effect
              /\ e.type = "model_request_started"
          BY DEF Live
        <4> QED
          BY <4>1, <4>2
      <3>2. \A s \in {"received", "none"} :
              /\ [live EXCEPT !.open[q] = s].pc = live.pc
              /\ [live EXCEPT !.open[q] = s].effect = live.effect
        BY DEF Live
      <3>3. Rejected(q).pc = live.pc /\ Rejected(q).effect = live.effect
        BY DEF Live, Rejected
      <3>4. CASE AppendResponse(q)
        BY <3>2, <3>3, <3>4 DEF AppendResponse
      <3>5. CASE AppendSettlement(q) \/ SettleUnanswered(q)
        <4>1. PICK b \in BOOLEAN :
                LiveAppends([type |-> "model_request_settled", req |-> q, received |-> b],
                            [live EXCEPT !.open[q] = "none"], Rejected(q))
          BY <3>5 DEF AppendSettlement, SettleUnanswered
        <4> QED
          BY <3>2, <3>3, <4>1
      <3> QED
        BY <1>5, <3>1, <3>4, <3>5
    <2> QED
      BY <1>1, <2>1
  <1>6. ASSUME NEW q \in Req, Answer(q) PROVE NoneOpened /\ Kept
    BY <1>2, <1>6 DEF Answer, LiveMoves, Live
  <1>7. CASE FlushFails \/ FlushReturns
    <2>1. /\ live.pc \in Flushing => AfterFlushFailure[live.pc] \notin {"invoke", "settleEffect"}
          /\ live.pc \in Flushing => AfterFlush[live.pc] \notin {"invoke", "settleEffect"}
      BY DEF AfterFlush, AfterFlushFailure, Flushing
    <2> QED
      BY <1>2, <1>7, <2>1 DEF FlushFails, FlushReturns, LiveMoves, At, FailAt, Live
  <1>8. CASE InvokeTool \/ CancelTool
    BY <1>2, <1>8 DEF InvokeTool, CancelTool, LiveMoves, At, Live
  <1>9. CASE FinishSideEffect
    <2> DEFINE back == [live EXCEPT !.pc = "work", !.effect = None]
    <2>1. PICK st \in {"known", "unknown"} :
            LiveAppends([type |-> "effect_settled", effect |-> live.effect, status |-> st,
                         source |-> "tool", owner |-> None], back, back)
      BY <1>9 DEF FinishSideEffect
    <2> DEFINE e == [type |-> "effect_settled", effect |-> live.effect, status |-> st,
                     source |-> "tool", owner |-> None]
    <2>2. back.pc = "work" /\ e.type = "effect_settled" /\ e.status # "pending"
      BY DEF Live
    <2>3. LiveAppends(e, back, back)
      BY <2>1
    <2> HIDE DEF e, back
    <2>4. NoneOpened /\ live' = back
      BY <1>1, <2>2, <2>3
    <2> QED
      BY <2>2, <2>4
  <1>10. CASE LeaveStages
    BY <1>2, <1>10 DEF LeaveStages, LiveMoves, At, FailAt, Live
  <1>11. CASE ReserveReply \/ AppendTranscript \/ Persist
    BY <1>2, <1>11 DEF ReserveReply, AppendTranscript, Persist, LiveMoves, LiveFaults, At,
                       FailAt, Live
  <1>12. ASSUME NEW e, NEW to, NEW no, LiveAppends(e, At(to), FailAt(no)),
                e.type \notin {"effect_intent_created", "effect_settled"}, to \notin {"invoke", "settleEffect"},
                no \notin {"invoke", "settleEffect"}
         PROVE  NoneOpened /\ Kept
    <2>1. NoneOpened /\ live' \in {At(to), FailAt(no)}
      BY <1>1, <1>12
    <2> QED
      BY <1>12, <2>1 DEF At, FailAt, Live
  <1>13. CASE ProposeReply
    <2>1. PICK r \in Reply : LiveAppends([type |-> "final_reply_proposed", reply |-> r],
                                         At("transcript"), FailAt("outcome"))
      BY <1>13 DEF ProposeReply
    <2> DEFINE e == [type |-> "final_reply_proposed", reply |-> r]
    <2>2. e.type = "final_reply_proposed"
      OBVIOUS
    <2>3. LiveAppends(e, At("transcript"), FailAt("outcome"))
      BY <2>1
    <2> HIDE DEF e
    <2> QED
      BY <1>12, <2>2, <2>3
  <1>14. CASE ReportRuntimeFailure
    <2>1. live.pc \in Reporting => AfterReport[live.pc] \notin {"invoke", "settleEffect"}
      BY DEF AfterReport, Reporting
    <2>2. NoneOpened /\ live' = At(AfterReport[live.pc]) /\ live.pc \in Reporting
      BY <1>1, <1>14 DEF ReportRuntimeFailure
    <2> QED
      BY <2>1, <2>2 DEF At, Live
  <1>15. CASE SettleOutcome
    <2>1. PICK o \in Outcome : LiveAppends([type |-> "task_outcome_settled", outcome |-> o],
                                           At("flushPersist"), FailAt("publicationFailed"))
      BY <1>15 DEF SettleOutcome
    <2> DEFINE e == [type |-> "task_outcome_settled", outcome |-> o]
    <2>2. e.type = "task_outcome_settled"
      OBVIOUS
    <2>3. LiveAppends(e, At("flushPersist"), FailAt("publicationFailed"))
      BY <2>1
    <2> HIDE DEF e
    <2> QED
      BY <1>12, <2>2, <2>3
  <1>16. CASE SettleReply
    <2>1. LiveAppends([type |-> "final_reply_settled", reply |-> run.reply],
                      At("registry"), FailAt("release"))
      BY <1>16 DEF SettleReply, AfterReplyFailure
    <2> DEFINE e == [type |-> "final_reply_settled", reply |-> run.reply]
    <2>2. e.type = "final_reply_settled"
      OBVIOUS
    <2>3. LiveAppends(e, At("registry"), FailAt("release"))
      BY <2>1
    <2> HIDE DEF e
    <2> QED
      BY <1>12, <2>2, <2>3
  <1>17. CASE SettleRegistry \/ PromoteTranscript \/ DecideOutcome \/ ReleaseRun
    BY <1>2, <1>17 DEF SettleRegistry, PromoteTranscript, DecideOutcome, ReleaseRun,
                       AfterReplyFailure, LiveMoves, LiveFaults, At, FailAt, Live
  <1>18. CASE RecordOutcome
    <2> DEFINE e == [type |-> TerminalEvent[live.result]]
    <2>1. e.type \in {"run_completed", "run_failed", "run_interrupted"}
      BY DEF TerminalEvent, Live
    <2>2. LiveAppends(e, At("release"), AfterRecordFailure)
      BY <1>18 DEF RecordOutcome
    <2>3. NoneOpened /\ live' \in {At("release"), AfterRecordFailure}
      <3> HIDE DEF e
      <3> QED
        BY <1>1, <2>1, <2>2
    <2> QED
      BY <2>3 DEF AfterRecordFailure, At, Live
  <1> QED
    BY <1>3, <1>4, <1>5, <1>6, <1>7, <1>8, <1>9, <1>10, <1>11, <1>13, <1>14, <1>15, <1>16,
       <1>17, <1>18 DEF LiveStep

\* A Runner that has an effect in hand and a pass that recovers exclude each other.
LEMMA OneHolder ==
    ASSUME OneLeaseHolder, NEW p \in Pass, Recovering(p)
    PROVE  /\ live.pc \notin {"work", "invoke", "settleEffect"}
           /\ \A r \in Pass \ {p} : ~Recovering(r)
  BY DEF OneLeaseHolder, Working, Pass

\* The Runner takes and gives back its own leases.
LEMMA LiveStepHolds ==
    ASSUME RunInv, EffectInv, LiveStep
    PROVE  EffectInv'
  <1>0. /\ live \in Live /\ live' \in Live /\ TypeOK /\ OneLeaseHolder /\ UNCHANGED pass
        /\ effectLease \in [Effect -> EffectOwner]
    BY LiveStepTyped DEF RunInv, RunTyped, VarsTyped, EffectInv
  <1>1. ASSUME NEW x \in Effect, BeginSideEffect(x) PROVE EffectInv'
    <2>1. \A p \in Pass : pass'[p].pc \notin {"claim", "models", "effects"}
      BY <1>0, <1>1, OneHolder DEF BeginSideEffect, Recovering
    <2>2. PICK owner \in IF live'.pc = "invoke" THEN {"live"} ELSE {"none", "left"} :
            effectLease' = [effectLease EXCEPT ![x] = owner]
      BY <1>1 DEF BeginSideEffect
    <2>3. effectLease' \in [Effect -> EffectOwner]
      BY <1>0, <2>2 DEF EffectOwner
    <2>4. \/ live'.pc = "invoke" /\ live'.effect = x
          \/ live'.pc = "work"
      BY <1>0, <1>1 DEF BeginSideEffect, LiveMoves, LiveAppends, Live
    <2>5. live'.pc = "invoke" => effectLease'[x] = "live"
      BY <1>0, <2>2
    <2> QED
      BY <2>1, <2>3, <2>4, <2>5 DEF EffectInv, EffectsAreHeld, ClaimsPending
  <1>2. ASSUME \A x \in Effect : ~BeginSideEffect(x),
               effectLease' \in [Effect -> EffectOwner],
               live'.pc \in {"invoke", "settleEffect"} => UNCHANGED effectLease,
               \A p \in Pass : \A x \in Effect : Recovering(p) /\ effectLease[x] = p =>
                 effectLease'[x] = p
        PROVE  EffectInv'
    <2>1. /\ PendingEffects(run)' \subseteq PendingEffects(run)
          /\ live'.pc \in {"invoke", "settleEffect"} =>
               live.pc \in {"invoke", "settleEffect"} /\ live'.effect = live.effect
      BY <1>0, <1>2, NoOtherEffect DEF NoneOpened
    <2>2. live'.pc \in {"invoke", "settleEffect"} => effectLease'[live'.effect] = "live"
      BY <1>2, <2>1 DEF EffectInv, EffectsAreHeld
    <2>3. ASSUME NEW p \in Pass, pass'[p].pc \in {"models", "effects"},
                 NEW x \in pass'[p].effects
          PROVE  effectLease'[x] = p
      <3>1. x \in Effect /\ Recovering(p) /\ effectLease[x] = p
        BY <1>0, <2>3 DEF EffectInv, EffectsAreHeld, Recovering, RunInv, RunTyped, VarsTyped,
                          PassState
      <3> QED
        BY <1>2, <3>1
    <2>4. ASSUME NEW p \in Pass, pass'[p].pc = "claim", NEW x \in PendingEffects(run)'
          PROVE  x \in pass'[p].effects \/ effectLease'[x] = p
      <3>1. x \in Effect /\ Recovering(p)
            /\ (x \in pass[p].effects \/ effectLease[x] = p)
        BY <1>0, <2>1, <2>4 DEF EffectInv, ClaimsPending, Recovering, PendingEffects
      <3> QED
        BY <1>0, <1>2, <3>1
    <2> QED
      BY <1>2, <2>2, <2>3, <2>4 DEF EffectInv, EffectsAreHeld, ClaimsPending
  <1>3. CASE FinishSideEffect
    <2>1. live.pc = "settleEffect" /\ live'.pc = "work" /\ \A x \in Effect : ~BeginSideEffect(x)
      BY <1>0, <1>3 DEF FinishSideEffect, LiveAppends, BeginSideEffect, Live
    <2>2. \A p \in Pass : ~Recovering(p)
      BY <1>0, <2>1, OneHolder
    <2>3. effectLease' \in [Effect -> EffectOwner]
      BY <1>0, <1>3 DEF FinishSideEffect, EffectOwner
    <2> QED
      BY <1>2, <2>1, <2>2, <2>3
  <1>4. CASE ReleaseRun
    <2>1. live.pc = "release" /\ live'.pc = "done" /\ \A x \in Effect : ~BeginSideEffect(x)
      BY <1>0, <1>4 DEF ReleaseRun, LiveFaults, At, BeginSideEffect, Live
    <2>2. PICK after \in {"none", "left"} :
            effectLease' =
              [x \in Effect |-> IF effectLease[x] = "live" THEN after ELSE effectLease[x]]
      BY <1>4 DEF ReleaseRun, Release
    <2>3. effectLease' \in [Effect -> EffectOwner]
      BY <1>0, <2>2 DEF EffectOwner
    <2>4. \A p \in Pass : p # "live"
      BY DEF Pass
    <2> QED
      BY <1>2, <2>1, <2>2, <2>3, <2>4
  <1>5. CASE UNCHANGED effectLease /\ \A x \in Effect : ~BeginSideEffect(x)
    BY <1>0, <1>2, <1>5
  <1> QED
    BY <1>1, <1>3, <1>4, <1>5 DEF LiveStep

\* A pass claims what is pending before it settles it, and gives it back after.
LEMMA PassStepHolds ==
    ASSUME RunInv, EffectInv, NEW p \in Pass, PassStep(p)
    PROVE  EffectInv'
  <1>0. /\ pass \in [Pass -> PassState] /\ OneLeaseHolder /\ run \in Projection
        /\ effectLease \in [Effect -> EffectOwner]
    BY DEF RunInv, RunTyped, VarsTyped, TypeOK, EffectInv
  <1>1. CASE AcquireForRecovery(p)
    <2>1. /\ UNCHANGED <<run, live, effectLease>>
          /\ \E next \in {[pass[p] EXCEPT !.pc = "read"], IdlePass} :
               pass' = [pass EXCEPT ![p] = next]
      BY <1>1 DEF AcquireForRecovery
    <2>2. pass'[p].pc \in {"read", "idle"} /\ \A r \in Pass \ {p} : pass'[r] = pass[r]
      BY <1>0, <2>1 DEF IdlePass, PassState
    <2> QED
      BY <2>1, <2>2 DEF EffectInv, EffectsAreHeld, ClaimsPending
  <1>2. ASSUME Recovering(p), UNCHANGED live, NEW next, pass' = [pass EXCEPT ![p] = next],
               effectLease' \in [Effect -> EffectOwner],
               next.pc \in {"models", "effects"} =>
                 \A x \in next.effects : effectLease'[x] = p,
               next.pc = "claim" =>
                 \A x \in PendingEffects(run)' : x \in next.effects \/ effectLease'[x] = p
        PROVE  EffectInv'
    <2>1. /\ live'.pc \notin {"invoke", "settleEffect"}
          /\ \A r \in Pass \ {p} :
               pass'[r] = pass[r] /\ pass[r].pc \notin {"claim", "models", "effects"}
      BY <1>0, <1>2, OneHolder DEF Recovering
    <2>2. pass'[p] = next
      BY <1>0, <1>2
    <2> QED
      BY <1>2, <2>1, <2>2 DEF EffectInv, EffectsAreHeld, ClaimsPending
  <1>3. ASSUME Recovering(p), UNCHANGED <<live, effectLease>>, NEW next,
               pass' = [pass EXCEPT ![p] = next], next.pc \notin {"claim", "models", "effects"}
        PROVE  EffectInv'
    BY <1>0, <1>2, <1>3
  <1>4. ASSUME NEW pc, pc \notin {"claim", "models", "effects"}, Recovering(p),
               PassMoves(p, PassAt(p, pc))
        PROVE  EffectInv'
    <2>1. PassAt(p, pc).pc = pc
      BY <1>0 DEF PassAt, PassState
    <2> QED
      BY <1>3, <1>4, <2>1 DEF PassMoves
  <1>5. ASSUME NEW e, NEW next \in PassState, PassAppends(p, e, next), Recovering(p),
               next.pc # "claim",
               next.pc \in {"models", "effects"} =>
                 pass[p].pc \in {"models", "effects"} /\ next.effects \subseteq pass[p].effects
        PROVE  EffectInv'
    <2>1. /\ UNCHANGED <<live, effectLease>>
          /\ \E n \in {[next EXCEPT !.fresh = FALSE], PassAt(p, "release")} :
               pass' = [pass EXCEPT ![p] = n]
      BY <1>5 DEF PassAppends
    <2>2. CASE pass' = [pass EXCEPT ![p] = PassAt(p, "release")]
      <3>1. PassAt(p, "release").pc = "release"
        BY <1>0 DEF PassAt, PassState
      <3> QED
        BY <1>3, <1>5, <2>1, <2>2, <3>1
    <2>3. CASE pass' = [pass EXCEPT ![p] = [next EXCEPT !.fresh = FALSE]]
      <3> DEFINE n == [next EXCEPT !.fresh = FALSE]
      <3>1. n.pc = next.pc /\ n.effects = next.effects
        BY DEF PassState
      <3> HIDE DEF n
      <3>2. n.pc # "claim"
            /\ (n.pc \in {"models", "effects"} => \A x \in n.effects : effectLease'[x] = p)
        BY <1>5, <2>1, <3>1 DEF EffectInv, EffectsAreHeld
      <3>3. effectLease' \in [Effect -> EffectOwner]
        BY <1>0, <2>1
      <3>4. pass' = [pass EXCEPT ![p] = n] /\ UNCHANGED live /\ Recovering(p)
        BY <1>5, <2>1, <2>3 DEF n
      <3> QED
        BY <1>2, <3>2, <3>3, <3>4
    <2> QED
      BY <2>1, <2>2, <2>3
  <1>6. ASSUME NEW pc, PassMoves(p, PassAt(p, pc)), Recovering(p), pc # "claim",
               pc \in {"models", "effects"} => pass[p].pc \in {"models", "effects"}
        PROVE  EffectInv'
    <2> DEFINE n == PassAt(p, pc)
    <2>1. n.pc = pc /\ n.effects = pass[p].effects
      BY <1>0 DEF PassAt, PassState
    <2> HIDE DEF n
    <2>2. pass' = [pass EXCEPT ![p] = n] /\ UNCHANGED <<live, effectLease>>
      BY <1>6 DEF PassMoves, n
    <2>3. n.pc \in {"models", "effects"} => \A x \in n.effects : effectLease'[x] = p
      BY <1>6, <2>1, <2>2 DEF EffectInv, EffectsAreHeld
    <2> QED
      BY <1>0, <1>2, <1>6, <2>1, <2>2, <2>3
  <1>7. CASE ReadPending(p)
    <2> DEFINE n == [pass[p] EXCEPT !.pc = "claim", !.effects = PendingEffects(run)]
    <2>1. n.pc = "claim" /\ n.effects = PendingEffects(run)
      BY <1>0 DEF PassState
    <2> HIDE DEF n
    <2>2. CASE PassMoves(p, n)
      BY <1>0, <1>2, <1>7, <2>1, <2>2 DEF PassMoves, ReadPending, Recovering
    <2>3. CASE PassMoves(p, PassAt(p, "release"))
      BY <1>4, <1>7, <2>3 DEF ReadPending, Recovering
    <2> QED
      BY <1>7, <2>2, <2>3 DEF ReadPending, n
  <1>8. ASSUME NEW x \in Effect, ClaimEffect(p, x) PROVE EffectInv'
    <2>1. pass[p].pc = "claim" /\ Recovering(p) /\ UNCHANGED <<run, live>>
      BY <1>8 DEF ClaimEffect, Recovering
    <2>2. CASE /\ effectLease' = [effectLease EXCEPT ![x] = p]
               /\ pass' = [pass EXCEPT ![p].effects = @ \ {x}]
      <3> DEFINE n == [pass[p] EXCEPT !.effects = @ \ {x}]
      <3>1. n.pc = "claim" /\ n.effects = pass[p].effects \ {x}
        BY <1>0, <2>1 DEF PassState
      <3> HIDE DEF n
      <3>2. pass' = [pass EXCEPT ![p] = n]
        BY <2>2 DEF n
      <3>3. effectLease' \in [Effect -> EffectOwner]
        BY <1>0, <2>2 DEF EffectOwner
      <3>4. \A y \in PendingEffects(run)' : y \in n.effects \/ effectLease'[y] = p
        BY <1>0, <2>1, <2>2, <3>1 DEF EffectInv, ClaimsPending, PendingEffects
      <3> QED
        BY <1>2, <2>1, <3>1, <3>2, <3>3, <3>4
    <2>3. CASE UNCHANGED effectLease /\ \E pc \in {"refused", "release"} :
                 pass' = [pass EXCEPT ![p].pc = pc]
      <3>1. PICK pc \in {"refused", "release"} : pass' = [pass EXCEPT ![p] = PassAt(p, pc)]
        BY <2>3 DEF PassAt
      <3>2. PassAt(p, pc).pc = pc
        BY <1>0 DEF PassAt, PassState
      <3> QED
        BY <1>3, <2>1, <2>3, <3>1, <3>2
    <2> QED
      BY <1>8, <2>2, <2>3 DEF ClaimEffect
  <1>9. CASE Begin(p)
    <2> DEFINE n == [pass[p] EXCEPT !.pc = "models", !.view = run,
                                    !.models = PendingModels(run),
                                    !.effects = PendingEffects(run),
                                    !.terminalAtStart = IsDurableRunTerminal(run)]
    <2>1. n.pc = "models" /\ n.effects = PendingEffects(run)
      BY <1>0 DEF PassState
    <2> HIDE DEF n
    <2>2. pass[p].pc = "claim" /\ pass[p].effects = {} /\ Recovering(p)
      BY <1>9 DEF Begin, Recovering
    <2>3. CASE PassMoves(p, n)
      <3>1. UNCHANGED <<run, live, effectLease>> /\ pass' = [pass EXCEPT ![p] = n]
        BY <2>3 DEF PassMoves
      <3>2. \A x \in n.effects : effectLease'[x] = p
        BY <2>1, <2>2, <3>1 DEF EffectInv, ClaimsPending
      <3> QED
        BY <1>0, <1>2, <2>1, <2>2, <3>1, <3>2
    <2>4. CASE PassMoves(p, PassAt(p, "release"))
      BY <1>4, <2>2, <2>4
    <2> QED
      BY <1>9, <2>3, <2>4 DEF Begin, n
  <1>10. CASE Replay(p)
    <2>1. Recovering(p) /\ pass[p].pc # "claim"
      BY <1>10 DEF Replay, Replaying, Recovering
    <2> DEFINE n == [pass[p] EXCEPT !.view = run, !.fresh = TRUE]
    <2>2. n.pc = pass[p].pc /\ n.effects = pass[p].effects
      BY <1>0 DEF PassState
    <2> HIDE DEF n
    <2>3. CASE PassMoves(p, n)
      <3>1. UNCHANGED <<live, effectLease>> /\ pass' = [pass EXCEPT ![p] = n]
        BY <2>3 DEF PassMoves
      <3>2. n.pc \in {"models", "effects"} => \A x \in n.effects : effectLease'[x] = p
        BY <2>2, <3>1 DEF EffectInv, EffectsAreHeld
      <3> QED
        BY <1>0, <1>2, <2>1, <2>2, <3>1, <3>2
    <2>4. CASE PassMoves(p, PassAt(p, "release"))
      BY <1>4, <2>1, <2>4
    <2> QED
      BY <1>10, <2>3, <2>4 DEF Replay, n
  <1>11. ASSUME NEW q \in Req, CloseModel(p, q) PROVE EffectInv'
    <2> DEFINE n == [pass[p] EXCEPT !.models = @ \ {q}]
    <2>1. n \in PassState /\ n.pc = pass[p].pc /\ n.effects = pass[p].effects
      BY <1>0 DEF PassState
    <2> HIDE DEF n
    <2>2. pass[p].pc = "models" /\ Recovering(p) /\ \E e : PassAppends(p, e, n)
      BY <1>11 DEF CloseModel, Ready, Recovering, n
    <2> QED
      BY <1>5, <2>1, <2>2
  <1>12. ASSUME NEW x \in Effect, CloseEffect(p, x) PROVE EffectInv'
    <2> DEFINE n == [pass[p] EXCEPT !.effects = @ \ {x}]
    <2>1. n \in PassState /\ n.pc = pass[p].pc /\ n.effects \subseteq pass[p].effects
      BY <1>0 DEF PassState
    <2> HIDE DEF n
    <2>2. pass[p].pc = "effects" /\ Recovering(p) /\ \E e : PassAppends(p, e, n)
      BY <1>12 DEF CloseEffect, Ready, Recovering, n
    <2> QED
      BY <1>5, <2>1, <2>2
  <1>13. CASE WorkClosed(p)
    <2>1. /\ pass[p].pc \in {"models", "effects"} /\ Recovering(p)
          /\ \E pc \in {"effects", "release", "outcome"} : PassMoves(p, PassAt(p, pc))
      BY <1>13 DEF WorkClosed, Ready, Recovering
    <2> QED
      BY <1>6, <2>1
  <1>14. \A pc \in PassPc : PassAt(p, pc) \in PassState /\ PassAt(p, pc).pc = pc
    BY PassMovesTyped DEF RunInv
  <1>15. ASSUME NEW e, NEW pc \in PassPc, PassAppends(p, e, PassAt(p, pc)), Recovering(p),
                pc \notin {"claim", "models", "effects"}
         PROVE  EffectInv'
    BY <1>5, <1>14, <1>15
  <1>16. CASE RecoverOutcome(p) \/ RecoverReply(p) \/ CloseRun(p)
    <2>1. Recovering(p)
      BY <1>16 DEF RecoverOutcome, RecoverReply, CloseRun, Ready, Recovering
    <2>2. \E pc \in {"reply", "registry", "release"} :
            PassMoves(p, PassAt(p, pc)) \/ \E e : PassAppends(p, e, PassAt(p, pc))
      BY <1>16 DEF RecoverOutcome, RecoverReply, CloseRun
    <2> QED
      BY <1>4, <1>15, <2>1, <2>2 DEF PassPc
  <1>17. CASE RecoverRegistry(p) \/ RecoverPromotion(p)
    <2>1. Recovering(p) /\ UNCHANGED <<live, effectLease>>
      BY <1>17 DEF RecoverRegistry, RecoverPromotion, Ready, Recovering, NotReady, PassMoves
    <2>2. \E n \in {[pass[p] EXCEPT !.pc = "close", !.ready = TRUE],
                    [pass[p] EXCEPT !.pc = "close", !.ready = FALSE], PassAt(p, "promote")} :
            pass' = [pass EXCEPT ![p] = n]
      BY <1>17 DEF RecoverRegistry, RecoverPromotion, RegistryDone, NotReady, PassMoves
    <2>3. /\ [pass[p] EXCEPT !.pc = "close", !.ready = TRUE].pc = "close"
          /\ [pass[p] EXCEPT !.pc = "close", !.ready = FALSE].pc = "close"
          /\ PassAt(p, "promote").pc = "promote"
      BY <1>0 DEF PassAt, PassState
    <2> QED
      BY <1>3, <2>1, <2>2, <2>3
  <1>18. CASE ReleaseAfterRecovery(p)
    <2>1. /\ Recovering(p) /\ UNCHANGED live /\ pass' = [pass EXCEPT ![p] = IdlePass]
          /\ \E after \in {"none", "left"} :
               effectLease' =
                 [x \in Effect |-> IF effectLease[x] = p THEN after ELSE effectLease[x]]
      BY <1>18 DEF ReleaseAfterRecovery, Release, Recovering
    <2>2. effectLease' \in [Effect -> EffectOwner]
      BY <1>0, <2>1 DEF EffectOwner
    <2>3. IdlePass.pc = "idle"
      BY DEF IdlePass
    <2> QED
      BY <1>2, <2>1, <2>2, <2>3
  <1> QED
    BY <1>1, <1>7, <1>8, <1>9, <1>10, <1>11, <1>12, <1>13, <1>16, <1>17, <1>18 DEF PassStep

\* Finding a run, a crash and the clock: what is held is held on, or nobody acts.
LEMMA WorldHolds ==
    ASSUME RunInv, EffectInv,
           \/ DiscoverQueue \/ DiscoverEvents \/ CheckLease \/ DiscoverRetry
           \/ Crash \/ Expire \/ (\E x \in Effect : ExpireEffect(x)) \/ UNCHANGED runVars
    PROVE  EffectInv'
  <1>0. /\ pass \in [Pass -> PassState] /\ live \in Live
        /\ effectLease \in [Effect -> EffectOwner]
    BY DEF RunInv, RunTyped, VarsTyped, EffectInv
  <1>1. CASE DiscoverQueue \/ DiscoverEvents \/ CheckLease \/ DiscoverRetry
    <2>1. PICK p \in Pass : PassMoves(p, PassAt(p, "acquire"))
                              \/ PassMoves(p, PassAt(p, "listed")) \/ PassMoves(p, IdlePass)
      BY <1>1 DEF DiscoverQueue, DiscoverEvents, CheckLease, DiscoverRetry, Pass
    <2>2. /\ PassAt(p, "acquire").pc = "acquire" /\ PassAt(p, "listed").pc = "listed"
          /\ IdlePass.pc = "idle"
      BY <1>0 DEF PassAt, PassState, IdlePass
    <2>3. /\ UNCHANGED <<run, live, effectLease>>
          /\ pass'[p].pc \in {"acquire", "listed", "idle"}
          /\ \A r \in Pass \ {p} : pass'[r] = pass[r]
      BY <1>0, <2>1, <2>2 DEF PassMoves
    <2> QED
      BY <2>3 DEF EffectInv, EffectsAreHeld, ClaimsPending
  <1>2. CASE Crash
    <2>1. live'.pc \in {"idle", "dead"} /\ \A p \in Pass : pass'[p].pc = "idle"
      BY <1>0, <1>2 DEF Crash, IdlePass, Live
    <2>2. effectLease' \in [Effect -> EffectOwner]
      BY <1>0, <1>2 DEF Crash, EffectOwner
    <2> QED
      BY <2>1, <2>2 DEF EffectInv, EffectsAreHeld, ClaimsPending
  <1>3. ASSUME NEW x \in Effect, ExpireEffect(x) PROVE EffectInv'
    <2>1. /\ UNCHANGED <<run, live, pass>>
          /\ effectLease[x] = "orphaned" /\ effectLease' = [effectLease EXCEPT ![x] = "none"]
      BY <1>3 DEF ExpireEffect
    <2>2. effectLease' \in [Effect -> EffectOwner]
      BY <1>0, <2>1 DEF EffectOwner
    <2>3. \A y \in Effect : \A o \in {"live"} \cup Pass :
            effectLease[y] = o => effectLease'[y] = o
      BY <1>0, <2>1 DEF Pass
    <2>4. /\ live.pc \in {"invoke", "settleEffect"} => live.effect \in Effect
          /\ \A p \in Pass : pass[p].effects \subseteq Effect
      BY <1>0 DEF RunInv, EffectInHand, VarsTyped, RunTyped, Live, PassState
    <2> QED
      BY <2>1, <2>2, <2>3, <2>4 DEF EffectInv, EffectsAreHeld, ClaimsPending, PendingEffects
  <1>4. CASE Expire \/ UNCHANGED runVars
    BY <1>4 DEF Expire, runVars, EffectInv, EffectsAreHeld, ClaimsPending
  <1> QED
    BY <1>1, <1>2, <1>3, <1>4

\* Every effect that is run or settled is leased to whoever does it.
THEOREM EffectInvariant == RunSpec => []EffectInv
  <1>1. RunInit => EffectInv
    BY DEF RunInit, EffectInv, EffectOwner, EffectsAreHeld, ClaimsPending, IdlePass
  <1>2. RunInv /\ EffectInv /\ [RunNext]_runVars => EffectInv'
    BY LiveStepHolds, PassStepHolds, WorldHolds DEF RunNext, Over
  <1> QED
    BY <1>1, <1>2, RunInvariant, PTL DEF RunSpec

\* The Runner, the recovery passes and the stores are always of their types.
THEOREM RunTypeCorrect == RunSpec => []RunTypeOK
  <1>1. RunInv /\ EffectInv => RunTypeOK
    BY DEF RunInv, RunTyped, VarsTyped, EffectInv, RunTypeOK
  <1> QED
    BY <1>1, RunInvariant, EffectInvariant, PTL

\* Whatever crashes and faults happen, one driver at most works on the run and
\* on each effect, under its own leases.
THEOREM RunHasOneDriver == RunSpec => []OneDriver
  <1>1. RunInv /\ EffectInv => OneDriver
    BY DEF RunInv, EffectInv, OneDriver
  <1> QED
    BY <1>1, RunInvariant, EffectInvariant, PTL
=============================================================================
