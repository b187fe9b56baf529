------------------------ MODULE RunCheckpoint_proofs ------------------------
(***************************************************************************)
(* Proofs about RunCheckpoint, for any set of turns and any bounds.        *)
(*                                                                         *)
(* Four inductive invariants.  Fresh relates the place of a request to the *)
(* log and the reply of its run; with it a record that says resumed names  *)
(* a run that has ended (EndedInv).  Spared is what the active streams and *)
(* the recovery pass of one router give: whoever works from the checkpoint *)
(* holds its record, unless the record is final.  Loyal is what the key of *)
(* an answer gives, however many routers there are: whoever worked from    *)
(* the checkpoint is the one its record names.                             *)
(***************************************************************************)
EXTENDS RunCheckpoint, TLAPS

\* The states of the record that no claim leaves.
Final == {"resumed", "completed", "abandoned"}

\* The places of a request before its run ends.
Early ==
    {"resolve", "prior", "cancel", "defer", "apart", "inspect", "claim", "claimed", "work"}

\* A run has neither a log nor a reply before it writes them, and the pass
\* reconciles a run only with its log.
Fresh ==
    /\ \A t \in Turn : at[t] \in Early => t \notin replied /\ log[t] = "none"
    /\ \A t \in Turn : at[t] = "replied" => log[t] = "none"
    /\ \A t \in Turn : at[t] = "logged" => log[t] # "none"
    /\ pass = "reconcile" => listed \in Turn /\ log[listed] = "ok"

\* A record of a claim names a turn; only an answer leaves its key.
Named ==
    /\ disp.status \in {"resuming", "resumed"} => disp.run \in Turn
    /\ ~Waiting => disp.key = None

EndedInv == CheckpointTypeOK /\ Named /\ Fresh /\ ResumedHasEnded

\* Of a checkpoint that only answers resume.
Loyal ==
    /\ AtWork \subseteq worked
    /\ \A u \in worked :
          \/ disp.status \in Final \cup {"deferred"}
          \/ disp.status \in {"resuming", "interrupted"} /\ disp.run = u /\ disp.key = u

\* Of an application whose router is never rebuilt.
Spared ==
    /\ rebuilds = 0
    /\ \A t \in Turn : at[t] \notin {"idle", "wait", "admit", "done"} => t \in active
    /\ \A t \in AtWork : HeldBy(t) \/ disp.status \in Final
    /\ pass \in {"check", "release"} =>
          /\ listed \in Turn
          /\ at[listed] = "done" \/ HeldBy(listed) \/ disp.status \in Final
    /\ pass = "release" => listed \notin AtWork

-----------------------------------------------------------------------------
(* The steps.                                                              *)

\* Every step keeps the range of every variable.
LEMMA TypeStep ==
    ASSUME CheckpointTypeOK, CheckpointNext
    PROVE  CheckpointTypeOK'
<1> USE CheckpointConstants
    DEF CheckpointAssumption, CheckpointTypeOK, Status, Phase, PassPhase,
        store, process, turns, bounds, Up, Goto, Leave, Pass, PassStep, Stay, Become, Key, Record,
        Fail, Watch, SealSource
<1>1. ASSUME NEW t \in Turn, TurnStep(t) PROVE CheckpointTypeOK'
  <2>1. CASE Waited(t)
    BY <2>1 DEF Waited
  <2>2. CASE Register(t)
    BY <2>2 DEF Register
  <2>3. CASE Replay(t)
    BY <2>3 DEF Replay
  <2>4. CASE Execute(t)
    BY <2>4 DEF Execute
  <2>5. CASE Resolve(t)
    BY <2>5 DEF Resolve
  <2>6. CASE Prior(t)
    BY <2>6 DEF Prior
  <2>7. CASE Cancel(t)
    <3>1. disp' = disp \/ disp' = [status |-> "abandoned", run |-> disp.run, key |-> Key(t)]
      BY <2>7 DEF Cancel
    <3>2. CASE disp' = disp
      BY <3>2, <2>7 DEF Cancel
    <3>3. CASE disp' # disp
      BY <3>1, <3>3, <2>7 DEF Cancel
    <3> QED BY <3>2, <3>3
  <2>8. CASE Defer(t)
    <3>1. disp' = disp \/ disp' = [status |-> "deferred", run |-> disp.run, key |-> Key(t)]
      BY <2>8 DEF Defer
    <3>2. CASE disp' = disp
      BY <3>2, <2>8 DEF Defer
    <3>3. CASE disp' # disp
      BY <3>1, <3>3, <2>8 DEF Defer
    <3> QED BY <3>2, <3>3
  <2>9. CASE RunApart(t)
    BY <2>9 DEF RunApart
  <2>10. CASE Inspect(t)
    BY <2>10 DEF Inspect
  <2>11. CASE Claim(t)
    BY <2>11 DEF Claim
  <2>12. CASE Join(t)
    BY <2>12 DEF Join
  <2>13. CASE ClaimConflict(t)
    BY <2>13 DEF ClaimConflict
  <2>14. CASE Start(t)
    BY <2>14 DEF Start
  <2>15. CASE Reply(t)
    BY <2>15 DEF Reply
  <2>16. CASE WriteLog(t)
    BY <2>16 DEF WriteLog
  <2>17. CASE Throw(t)
    BY <2>17 DEF Throw
  <2>18. CASE CompleteResume(t)
    BY <2>18 DEF CompleteResume
  <2>19. CASE InterruptResume(t)
    BY <2>19 DEF InterruptResume
  <2>20. CASE Watched(t)
    BY <2>20 DEF Watched
  <2> QED
    BY <1>1, <2>1, <2>2, <2>3, <2>4, <2>5, <2>6, <2>7, <2>8, <2>9, <2>10,
       <2>11, <2>12, <2>13, <2>14, <2>15, <2>16, <2>17, <2>18, <2>19, <2>20 DEF TurnStep
<1>2. CASE Boot
  BY <1>2 DEF Boot
<1>3. CASE ListResuming
  BY <1>3 DEF ListResuming
<1>4. CASE CheckActive
  BY <1>4 DEF CheckActive
<1>5. CASE Release
  BY <1>5 DEF Release
<1>6. CASE ListIncomplete
  BY <1>6 DEF ListIncomplete
<1>7. CASE Reconcile
  BY <1>7 DEF Reconcile
<1>8. CASE ReconcileSource
  BY <1>8 DEF ReconcileSource
<1>9. CASE AskAbandon
  BY <1>9 DEF AskAbandon
<1>10. CASE Abandon
  BY <1>10 DEF Abandon
<1>11. CASE SourceLogs
  BY <1>11 DEF SourceLogs
<1>12. CASE SourceSeals
  BY <1>12 DEF SourceSeals
<1>13. CASE Crash
  BY <1>13 DEF Crash
<1>14. CASE Rebuild
  BY <1>14 DEF Rebuild
<1>15. ASSUME NEW t \in Turn, SendChat(t) PROVE CheckpointTypeOK'
  BY <1>15 DEF SendChat
<1>16. ASSUME NEW t \in Turn, SendRoute(t) PROVE CheckpointTypeOK'
  BY <1>16 DEF SendRoute
<1>17. ASSUME NEW t \in Turn, CompletionFails(t) PROVE CheckpointTypeOK'
  BY <1>17 DEF CompletionFails
<1> QED
  BY <1>1, <1>2, <1>3, <1>4, <1>5, <1>6, <1>7, <1>8, <1>9,
     <1>10, <1>11, <1>12, <1>13, <1>14, <1>15, <1>16, <1>17
  DEF CheckpointNext, Recovery, Client, Fault

\* A record that says resuming or resumed keeps naming a turn.
LEMMA NamedStep ==
    ASSUME CheckpointTypeOK, Named, Fresh, CheckpointNext
    PROVE  Named'
<1> USE CheckpointConstants
    DEF Named, HeldBy, CheckpointAssumption, CheckpointTypeOK, Status, Phase, PassPhase,
        store, process, turns, bounds, Up, Goto, Leave, Pass, PassStep, Stay, Become, Key, Record,
        Fail, Watch, SealSource
<1>1. ASSUME NEW t \in Turn, TurnStep(t) PROVE Named'
  <2>1. CASE Waited(t)
    BY <2>1 DEF Waited
  <2>2. CASE Register(t)
    BY <2>2 DEF Register
  <2>3. CASE Replay(t)
    BY <2>3 DEF Replay
  <2>4. CASE Execute(t)
    BY <2>4 DEF Execute
  <2>5. CASE Resolve(t)
    BY <2>5 DEF Resolve
  <2>6. CASE Prior(t)
    BY <2>6 DEF Prior
  <2>7. CASE Cancel(t)
    <3>1. disp' = disp \/ disp' = [status |-> "abandoned", run |-> disp.run, key |-> Key(t)]
      BY <2>7 DEF Cancel
    <3>2. CASE disp' = disp
      BY <3>2, <2>7 DEF Cancel
    <3>3. CASE disp' # disp
      BY <3>1, <3>3, <2>7 DEF Cancel
    <3> QED BY <3>2, <3>3
  <2>8. CASE Defer(t)
    <3>1. disp' = disp \/ disp' = [status |-> "deferred", run |-> disp.run, key |-> Key(t)]
      BY <2>8 DEF Defer
    <3>2. CASE disp' = disp
      BY <3>2, <2>8 DEF Defer
    <3>3. CASE disp' # disp
      BY <3>1, <3>3, <2>8 DEF Defer
    <3> QED BY <3>2, <3>3
  <2>9. CASE RunApart(t)
    BY <2>9 DEF RunApart
  <2>10. CASE Inspect(t)
    BY <2>10 DEF Inspect
  <2>11. CASE Claim(t)
    BY <2>11 DEF Claim, Grants
  <2>12. CASE Join(t)
    BY <2>12 DEF Join
  <2>13. CASE ClaimConflict(t)
    BY <2>13 DEF ClaimConflict
  <2>14. CASE Start(t)
    BY <2>14 DEF Start
  <2>15. CASE Reply(t)
    BY <2>15 DEF Reply
  <2>16. CASE WriteLog(t)
    BY <2>16 DEF WriteLog
  <2>17. CASE Throw(t)
    BY <2>17 DEF Throw
  <2>18. CASE CompleteResume(t)
    BY <2>18 DEF CompleteResume
  <2>19. CASE InterruptResume(t)
    BY <2>19 DEF InterruptResume
  <2>20. CASE Watched(t)
    BY <2>20 DEF Watched
  <2> QED
    BY <1>1, <2>1, <2>2, <2>3, <2>4, <2>5, <2>6, <2>7, <2>8, <2>9, <2>10,
       <2>11, <2>12, <2>13, <2>14, <2>15, <2>16, <2>17, <2>18, <2>19, <2>20 DEF TurnStep
<1>2. CASE Boot
  BY <1>2 DEF Boot
<1>3. CASE ListResuming
  BY <1>3 DEF ListResuming
<1>4. CASE CheckActive
  BY <1>4 DEF CheckActive
<1>5. CASE Release
  BY <1>5 DEF Release
<1>6. CASE ListIncomplete
  BY <1>6 DEF ListIncomplete
<1>7. CASE Reconcile
  BY <1>7 DEF Reconcile, Fresh
<1>8. CASE ReconcileSource
  BY <1>8 DEF ReconcileSource
<1>9. CASE AskAbandon
  BY <1>9 DEF AskAbandon
<1>10. CASE Abandon
  BY <1>10 DEF Abandon
<1>11. CASE SourceLogs
  BY <1>11 DEF SourceLogs
<1>12. CASE SourceSeals
  BY <1>12 DEF SourceSeals
<1>13. CASE Crash
  BY <1>13 DEF Crash
<1>14. CASE Rebuild
  BY <1>14 DEF Rebuild
<1>15. ASSUME NEW t \in Turn, SendChat(t) PROVE Named'
  BY <1>15 DEF SendChat
<1>16. ASSUME NEW t \in Turn, SendRoute(t) PROVE Named'
  BY <1>16 DEF SendRoute
<1>17. ASSUME NEW t \in Turn, CompletionFails(t) PROVE Named'
  BY <1>17 DEF CompletionFails
<1> QED
  BY <1>1, <1>2, <1>3, <1>4, <1>5, <1>6, <1>7, <1>8, <1>9,
     <1>10, <1>11, <1>12, <1>13, <1>14, <1>15, <1>16, <1>17
  DEF CheckpointNext, Recovery, Client, Fault

\* Nothing writes the log or the reply of a run but the run itself and its replay.
LEMMA FreshStep ==
    ASSUME CheckpointTypeOK, Fresh, CheckpointNext
    PROVE  Fresh'
<1> USE CheckpointConstants
    DEF Fresh, Early, CheckpointAssumption, CheckpointTypeOK, Status, Phase, PassPhase,
        store, process, turns, bounds, Up, Goto, Leave, Pass, PassStep, Stay, Become, Key, Record,
        Fail, Watch, SealSource
<1>1. ASSUME NEW t \in Turn, TurnStep(t) PROVE Fresh'
  <2>1. CASE Waited(t)
    BY <2>1 DEF Waited
  <2>2. CASE Register(t)
    BY <2>2 DEF Register
  <2>3. CASE Replay(t)
    BY <2>3 DEF Replay
  <2>4. CASE Execute(t)
    BY <2>4 DEF Execute
  <2>5. CASE Resolve(t)
    BY <2>5 DEF Resolve
  <2>6. CASE Prior(t)
    BY <2>6 DEF Prior
  <2>7. CASE Cancel(t)
    BY <2>7 DEF Cancel
  <2>8. CASE Defer(t)
    BY <2>8 DEF Defer
  <2>9. CASE RunApart(t)
    BY <2>9 DEF RunApart
  <2>10. CASE Inspect(t)
    BY <2>10 DEF Inspect
  <2>11. CASE Claim(t)
    BY <2>11 DEF Claim
  <2>12. CASE Join(t)
    BY <2>12 DEF Join
  <2>13. CASE ClaimConflict(t)
    BY <2>13 DEF ClaimConflict
  <2>14. CASE Start(t)
    BY <2>14 DEF Start
  <2>15. CASE Reply(t)
    BY <2>15 DEF Reply
  <2>16. CASE WriteLog(t)
    BY <2>16 DEF WriteLog
  <2>17. CASE Throw(t)
    BY <2>17 DEF Throw
  <2>18. CASE CompleteResume(t)
    BY <2>18 DEF CompleteResume, HeldBy
  <2>19. CASE InterruptResume(t)
    BY <2>19 DEF InterruptResume
  <2>20. CASE Watched(t)
    BY <2>20 DEF Watched
  <2> QED
    BY <1>1, <2>1, <2>2, <2>3, <2>4, <2>5, <2>6, <2>7, <2>8, <2>9, <2>10,
       <2>11, <2>12, <2>13, <2>14, <2>15, <2>16, <2>17, <2>18, <2>19, <2>20 DEF TurnStep
<1>2. CASE Boot
  BY <1>2 DEF Boot
<1>3. CASE ListResuming
  BY <1>3 DEF ListResuming
<1>4. CASE CheckActive
  BY <1>4 DEF CheckActive
<1>5. CASE Release
  BY <1>5 DEF Release
<1>6. CASE ListIncomplete
  BY <1>6 DEF ListIncomplete, Finished
<1>7. CASE Reconcile
  BY <1>7 DEF Reconcile
<1>8. CASE ReconcileSource
  BY <1>8 DEF ReconcileSource
<1>9. CASE AskAbandon
  BY <1>9 DEF AskAbandon
<1>10. CASE Abandon
  BY <1>10 DEF Abandon
<1>11. CASE SourceLogs
  BY <1>11 DEF SourceLogs
<1>12. CASE SourceSeals
  BY <1>12 DEF SourceSeals
<1>13. CASE Crash
  BY <1>13 DEF Crash
<1>14. CASE Rebuild
  BY <1>14 DEF Rebuild
<1>15. ASSUME NEW t \in Turn, SendChat(t) PROVE Fresh'
  BY <1>15 DEF SendChat
<1>16. ASSUME NEW t \in Turn, SendRoute(t) PROVE Fresh'
  BY <1>16 DEF SendRoute
<1>17. ASSUME NEW t \in Turn, CompletionFails(t) PROVE Fresh'
  BY <1>17 DEF CompletionFails
<1> QED
  BY <1>1, <1>2, <1>3, <1>4, <1>5, <1>6, <1>7, <1>8, <1>9,
     <1>10, <1>11, <1>12, <1>13, <1>14, <1>15, <1>16, <1>17
  DEF CheckpointNext, Recovery, Client, Fault

\* Only a run that left its log is recorded as resumed, and no run returns to work.
LEMMA EndedStep ==
    ASSUME CheckpointTypeOK, Named, Fresh, ResumedHasEnded, CheckpointNext
    PROVE  ResumedHasEnded'
<1> USE CheckpointConstants
    DEF Fresh, Early, Named, ResumedHasEnded, AtWork, HeldBy, Sealed,
        CheckpointAssumption, CheckpointTypeOK, Status, Phase, PassPhase,
        store, process, turns, bounds, Up, Goto, Leave, Pass, PassStep, Stay, Become, Key, Record,
        Fail, Watch, SealSource
<1>1. ASSUME NEW t \in Turn, TurnStep(t) PROVE ResumedHasEnded'
  <2>1. CASE Waited(t)
    BY <2>1 DEF Waited
  <2>2. CASE Register(t)
    BY <2>2 DEF Register
  <2>3. CASE Replay(t)
    BY <2>3 DEF Replay
  <2>4. CASE Execute(t)
    BY <2>4 DEF Execute
  <2>5. CASE Resolve(t)
    BY <2>5 DEF Resolve
  <2>6. CASE Prior(t)
    BY <2>6 DEF Prior
  <2>7. CASE Cancel(t)
    <3>1. disp' = disp \/ disp' = [status |-> "abandoned", run |-> disp.run, key |-> Key(t)]
      BY <2>7 DEF Cancel
    <3>2. CASE disp' = disp
      BY <3>2, <2>7 DEF Cancel
    <3>3. CASE disp' # disp
      BY <3>1, <3>3, <2>7 DEF Cancel
    <3> QED BY <3>2, <3>3
  <2>8. CASE Defer(t)
    <3>1. disp' = disp \/ disp' = [status |-> "deferred", run |-> disp.run, key |-> Key(t)]
      BY <2>8 DEF Defer
    <3>2. CASE disp' = disp
      BY <3>2, <2>8 DEF Defer
    <3>3. CASE disp' # disp
      BY <3>1, <3>3, <2>8 DEF Defer
    <3> QED BY <3>2, <3>3
  <2>9. CASE RunApart(t)
    BY <2>9 DEF RunApart
  <2>10. CASE Inspect(t)
    BY <2>10 DEF Inspect
  <2>11. CASE Claim(t)
    BY <2>11 DEF Claim, Grants
  <2>12. CASE Join(t)
    BY <2>12 DEF Join
  <2>13. CASE ClaimConflict(t)
    BY <2>13 DEF ClaimConflict
  <2>14. CASE Start(t)
    BY <2>14 DEF Start
  <2>15. CASE Reply(t)
    BY <2>15 DEF Reply
  <2>16. CASE WriteLog(t)
    BY <2>16 DEF WriteLog
  <2>17. CASE Throw(t)
    BY <2>17 DEF Throw
  <2>18. CASE CompleteResume(t)
    BY <2>18 DEF CompleteResume
  <2>19. CASE InterruptResume(t)
    BY <2>19 DEF InterruptResume
  <2>20. CASE Watched(t)
    BY <2>20 DEF Watched
  <2> QED
    BY <1>1, <2>1, <2>2, <2>3, <2>4, <2>5, <2>6, <2>7, <2>8, <2>9, <2>10,
       <2>11, <2>12, <2>13, <2>14, <2>15, <2>16, <2>17, <2>18, <2>19, <2>20 DEF TurnStep
<1>2. CASE Boot
  BY <1>2 DEF Boot
<1>3. CASE ListResuming
  BY <1>3 DEF ListResuming
<1>4. CASE CheckActive
  BY <1>4 DEF CheckActive
<1>5. CASE Release
  BY <1>5 DEF Release
<1>6. CASE ListIncomplete
  BY <1>6 DEF ListIncomplete
<1>7. CASE Reconcile
  BY <1>7 DEF Reconcile
<1>8. CASE ReconcileSource
  BY <1>8 DEF ReconcileSource
<1>9. CASE AskAbandon
  BY <1>9 DEF AskAbandon
<1>10. CASE Abandon
  BY <1>10 DEF Abandon
<1>11. CASE SourceLogs
  BY <1>11 DEF SourceLogs
<1>12. CASE SourceSeals
  BY <1>12 DEF SourceSeals
<1>13. CASE Crash
  BY <1>13 DEF Crash
<1>14. CASE Rebuild
  BY <1>14 DEF Rebuild
<1>15. ASSUME NEW t \in Turn, SendChat(t) PROVE ResumedHasEnded'
  BY <1>15 DEF SendChat
<1>16. ASSUME NEW t \in Turn, SendRoute(t) PROVE ResumedHasEnded'
  BY <1>16 DEF SendRoute
<1>17. ASSUME NEW t \in Turn, CompletionFails(t) PROVE ResumedHasEnded'
  BY <1>17 DEF CompletionFails
<1> QED
  BY <1>1, <1>2, <1>3, <1>4, <1>5, <1>6, <1>7, <1>8, <1>9,
     <1>10, <1>11, <1>12, <1>13, <1>14, <1>15, <1>16, <1>17
  DEF CheckpointNext, Recovery, Client, Fault

\* Once a turn has worked from the checkpoint, only the answer that carries its key
\* may claim it again.
LEMMA LoyalStep ==
    ASSUME CheckpointTypeOK, Waiting, Route = {}, Loyal, CheckpointNext
    PROVE  Loyal'
<1> USE CheckpointConstants
    DEF Loyal, Final, AtWork, HeldBy, Sealed, OwnClaim,
        CheckpointAssumption, CheckpointTypeOK, Status, Phase, PassPhase,
        store, process, turns, bounds, Up, Goto, Leave, Pass, PassStep, Stay, Become, Key, Record,
        Fail, Watch, SealSource
<1>1. ASSUME NEW t \in Turn, TurnStep(t) PROVE Loyal'
  <2>1. CASE Waited(t)
    BY <2>1 DEF Waited
  <2>2. CASE Register(t)
    BY <2>2 DEF Register
  <2>3. CASE Replay(t)
    BY <2>3 DEF Replay
  <2>4. CASE Execute(t)
    BY <2>4 DEF Execute
  <2>5. CASE Resolve(t)
    BY <2>5 DEF Resolve
  <2>6. CASE Prior(t)
    BY <2>6 DEF Prior
  <2>7. CASE Cancel(t)
    <3>1. disp' = disp \/ disp' = [status |-> "abandoned", run |-> disp.run, key |-> Key(t)]
      BY <2>7 DEF Cancel
    <3>2. CASE disp' = disp
      BY <3>2, <2>7 DEF Cancel
    <3>3. CASE disp' # disp
      BY <3>1, <3>3, <2>7 DEF Cancel
    <3> QED BY <3>2, <3>3
  <2>8. CASE Defer(t)
    <3>1. disp' = disp \/ disp' = [status |-> "deferred", run |-> disp.run, key |-> Key(t)]
      BY <2>8 DEF Defer
    <3>2. CASE disp' = disp
      BY <3>2, <2>8 DEF Defer
    <3>3. CASE disp' # disp
      BY <3>1, <3>3, <2>8 DEF Defer
    <3> QED BY <3>2, <3>3
  <2>9. CASE RunApart(t)
    BY <2>9 DEF RunApart
  <2>10. CASE Inspect(t)
    BY <2>10 DEF Inspect
  <2>11. CASE Claim(t)
    BY <2>11 DEF Claim, Grants
  <2>12. CASE Join(t)
    BY <2>12 DEF Join
  <2>13. CASE ClaimConflict(t)
    BY <2>13 DEF ClaimConflict
  <2>14. CASE Start(t)
    BY <2>14 DEF Start
  <2>15. CASE Reply(t)
    BY <2>15 DEF Reply
  <2>16. CASE WriteLog(t)
    BY <2>16 DEF WriteLog
  <2>17. CASE Throw(t)
    BY <2>17 DEF Throw
  <2>18. CASE CompleteResume(t)
    BY <2>18 DEF CompleteResume
  <2>19. CASE InterruptResume(t)
    BY <2>19 DEF InterruptResume
  <2>20. CASE Watched(t)
    BY <2>20 DEF Watched
  <2> QED
    BY <1>1, <2>1, <2>2, <2>3, <2>4, <2>5, <2>6, <2>7, <2>8, <2>9, <2>10,
       <2>11, <2>12, <2>13, <2>14, <2>15, <2>16, <2>17, <2>18, <2>19, <2>20 DEF TurnStep
<1>2. CASE Boot
  BY <1>2 DEF Boot
<1>3. CASE ListResuming
  BY <1>3 DEF ListResuming
<1>4. CASE CheckActive
  BY <1>4 DEF CheckActive
<1>5. CASE Release
  BY <1>5 DEF Release
<1>6. CASE ListIncomplete
  BY <1>6 DEF ListIncomplete
<1>7. CASE Reconcile
  BY <1>7 DEF Reconcile
<1>8. CASE ReconcileSource
  BY <1>8 DEF ReconcileSource
<1>9. CASE AskAbandon
  BY <1>9 DEF AskAbandon
<1>10. CASE Abandon
  BY <1>10 DEF Abandon
<1>11. CASE SourceLogs
  BY <1>11 DEF SourceLogs
<1>12. CASE SourceSeals
  BY <1>12 DEF SourceSeals
<1>13. CASE Crash
  BY <1>13 DEF Crash
<1>14. CASE Rebuild
  BY <1>14 DEF Rebuild
<1>15. ASSUME NEW t \in Turn, SendChat(t) PROVE Loyal'
  BY <1>15 DEF SendChat
<1>16. ASSUME NEW t \in Turn, SendRoute(t) PROVE Loyal'
  BY <1>16 DEF SendRoute
<1>17. ASSUME NEW t \in Turn, CompletionFails(t) PROVE Loyal'
  BY <1>17 DEF CompletionFails
<1> QED
  BY <1>1, <1>2, <1>3, <1>4, <1>5, <1>6, <1>7, <1>8, <1>9,
     <1>10, <1>11, <1>12, <1>13, <1>14, <1>15, <1>16, <1>17
  DEF CheckpointNext, Recovery, Client, Fault

\* The one pass of a router lists a claim, spares it when its run is active and
\* releases it otherwise; meanwhile nobody else can claim.
LEMMA SparedStep ==
    ASSUME CheckpointTypeOK, Named, MaxRebuilds = 0, Spared, CheckpointNext
    PROVE  Spared'
<1> USE CheckpointConstants
    DEF Spared, Named, Final, AtWork, HeldBy, Sealed,
        CheckpointAssumption, CheckpointTypeOK, Status, Phase, PassPhase,
        store, process, turns, bounds, Up, Goto, Leave, Pass, PassStep, Stay, Become, Key, Record,
        Fail, Watch, SealSource
<1>1. ASSUME NEW t \in Turn, TurnStep(t) PROVE Spared'
  <2>1. CASE Waited(t)
    BY <2>1 DEF Waited
  <2>2. CASE Register(t)
    BY <2>2 DEF Register
  <2>3. CASE Replay(t)
    BY <2>3 DEF Replay
  <2>4. CASE Execute(t)
    BY <2>4 DEF Execute
  <2>5. CASE Resolve(t)
    BY <2>5 DEF Resolve
  <2>6. CASE Prior(t)
    BY <2>6 DEF Prior
  <2>7. CASE Cancel(t)
    <3>1. disp' = disp \/ disp' = [status |-> "abandoned", run |-> disp.run, key |-> Key(t)]
      BY <2>7 DEF Cancel
    <3>2. CASE disp' = disp
      BY <3>2, <2>7 DEF Cancel
    <3>3. CASE disp' # disp
      BY <3>1, <3>3, <2>7 DEF Cancel
    <3> QED BY <3>2, <3>3
  <2>8. CASE Defer(t)
    <3>1. disp' = disp \/ disp' = [status |-> "deferred", run |-> disp.run, key |-> Key(t)]
      BY <2>8 DEF Defer
    <3>2. CASE disp' = disp
      BY <3>2, <2>8 DEF Defer
    <3>3. CASE disp' # disp
      BY <3>1, <3>3, <2>8 DEF Defer
    <3> QED BY <3>2, <3>3
  <2>9. CASE RunApart(t)
    BY <2>9 DEF RunApart
  <2>10. CASE Inspect(t)
    BY <2>10 DEF Inspect
  <2>11. CASE Claim(t)
    <3>1. AtWork = {}
      BY <2>11 DEF Claim, Grants
    <3>2. AtWork' = {t} /\ HeldBy(t)'
      BY <3>1, <2>11 DEF Claim
    <3>3. t \in active
      BY <2>11 DEF Claim
    <3>4. pass \in {"check", "release"} => at[listed] = "done"
      BY <2>11 DEF Claim, Grants
    <3> QED BY <3>1, <3>2, <3>3, <3>4, <2>11 DEF Claim
  <2>12. CASE Join(t)
    BY <2>12 DEF Join
  <2>13. CASE ClaimConflict(t)
    BY <2>13 DEF ClaimConflict
  <2>14. CASE Start(t)
    BY <2>14 DEF Start
  <2>15. CASE Reply(t)
    BY <2>15 DEF Reply
  <2>16. CASE WriteLog(t)
    BY <2>16 DEF WriteLog
  <2>17. CASE Throw(t)
    BY <2>17 DEF Throw
  <2>18. CASE CompleteResume(t)
    BY <2>18 DEF CompleteResume
  <2>19. CASE InterruptResume(t)
    BY <2>19 DEF InterruptResume
  <2>20. CASE Watched(t)
    BY <2>20 DEF Watched
  <2> QED
    BY <1>1, <2>1, <2>2, <2>3, <2>4, <2>5, <2>6, <2>7, <2>8, <2>9, <2>10,
       <2>11, <2>12, <2>13, <2>14, <2>15, <2>16, <2>17, <2>18, <2>19, <2>20 DEF TurnStep
<1>2. CASE Boot
  BY <1>2 DEF Boot
<1>3. CASE ListResuming
  BY <1>3 DEF ListResuming
<1>4. CASE CheckActive
  BY <1>4 DEF CheckActive
<1>5. CASE Release
  BY <1>5 DEF Release
<1>6. CASE ListIncomplete
  BY <1>6 DEF ListIncomplete
<1>7. CASE Reconcile
  BY <1>7 DEF Reconcile
<1>8. CASE ReconcileSource
  BY <1>8 DEF ReconcileSource
<1>9. CASE AskAbandon
  BY <1>9 DEF AskAbandon
<1>10. CASE Abandon
  BY <1>10 DEF Abandon
<1>11. CASE SourceLogs
  BY <1>11 DEF SourceLogs
<1>12. CASE SourceSeals
  BY <1>12 DEF SourceSeals
<1>13. CASE Crash
  BY <1>13 DEF Crash
<1>14. CASE Rebuild
  BY <1>14 DEF Rebuild
<1>15. ASSUME NEW t \in Turn, SendChat(t) PROVE Spared'
  BY <1>15 DEF SendChat
<1>16. ASSUME NEW t \in Turn, SendRoute(t) PROVE Spared'
  BY <1>16 DEF SendRoute
<1>17. ASSUME NEW t \in Turn, CompletionFails(t) PROVE Spared'
  BY <1>17 DEF CompletionFails
<1> QED
  BY <1>1, <1>2, <1>3, <1>4, <1>5, <1>6, <1>7, <1>8, <1>9,
     <1>10, <1>11, <1>12, <1>13, <1>14, <1>15, <1>16, <1>17
  DEF CheckpointNext, Recovery, Client, Fault

\* A claim is granted only when nobody else is at work.
LEMMA OneStep ==
    ASSUME CheckpointTypeOK, OneResumer, CheckpointNext,
           \/ MaxRebuilds = 0 /\ Spared
           \/ Waiting /\ Route = {} /\ Loyal
    PROVE  OneResumer'
<1> USE CheckpointConstants
    DEF OneResumer, AtWork, CheckpointAssumption, CheckpointTypeOK, Status, Phase, PassPhase,
        store, process, turns, bounds, Up, Goto, Leave, Pass, PassStep, Stay, Become, Key, Record,
        Fail, Watch, SealSource
<1>1. ASSUME NEW t \in Turn, TurnStep(t) PROVE OneResumer'
  <2>1. CASE Waited(t)
    BY <2>1 DEF Waited
  <2>2. CASE Register(t)
    BY <2>2 DEF Register
  <2>3. CASE Replay(t)
    BY <2>3 DEF Replay
  <2>4. CASE Execute(t)
    BY <2>4 DEF Execute
  <2>5. CASE Resolve(t)
    BY <2>5 DEF Resolve
  <2>6. CASE Prior(t)
    BY <2>6 DEF Prior
  <2>7. CASE Cancel(t)
    BY <2>7 DEF Cancel
  <2>8. CASE Defer(t)
    BY <2>8 DEF Defer
  <2>9. CASE RunApart(t)
    BY <2>9 DEF RunApart
  <2>10. CASE Inspect(t)
    BY <2>10 DEF Inspect
  <2>11. CASE Claim(t)
    <3>1. AtWork \subseteq {t}
      <4>1. CASE MaxRebuilds = 0 /\ Spared
        BY <4>1, <2>11 DEF Claim, Grants, Spared, Final, HeldBy
      <4>2. CASE Waiting /\ Route = {} /\ Loyal
        BY <4>2, <2>11 DEF Claim, Grants, Loyal, Final, OwnClaim
      <4> QED BY <4>1, <4>2
    <3>2. AtWork' \subseteq AtWork \cup {t}
      BY <2>11 DEF Claim
    <3> QED BY <3>1, <3>2
  <2>12. CASE Join(t)
    BY <2>12 DEF Join
  <2>13. CASE ClaimConflict(t)
    BY <2>13 DEF ClaimConflict
  <2>14. CASE Start(t)
    BY <2>14 DEF Start
  <2>15. CASE Reply(t)
    BY <2>15 DEF Reply
  <2>16. CASE WriteLog(t)
    BY <2>16 DEF WriteLog
  <2>17. CASE Throw(t)
    BY <2>17 DEF Throw
  <2>18. CASE CompleteResume(t)
    BY <2>18 DEF CompleteResume
  <2>19. CASE InterruptResume(t)
    BY <2>19 DEF InterruptResume
  <2>20. CASE Watched(t)
    BY <2>20 DEF Watched
  <2> QED
    BY <1>1, <2>1, <2>2, <2>3, <2>4, <2>5, <2>6, <2>7, <2>8, <2>9, <2>10,
       <2>11, <2>12, <2>13, <2>14, <2>15, <2>16, <2>17, <2>18, <2>19, <2>20 DEF TurnStep
<1>2. CASE Boot
  BY <1>2 DEF Boot
<1>3. CASE ListResuming
  BY <1>3 DEF ListResuming
<1>4. CASE CheckActive
  BY <1>4 DEF CheckActive
<1>5. CASE Release
  BY <1>5 DEF Release
<1>6. CASE ListIncomplete
  BY <1>6 DEF ListIncomplete
<1>7. CASE Reconcile
  BY <1>7 DEF Reconcile
<1>8. CASE ReconcileSource
  BY <1>8 DEF ReconcileSource
<1>9. CASE AskAbandon
  BY <1>9 DEF AskAbandon
<1>10. CASE Abandon
  BY <1>10 DEF Abandon
<1>11. CASE SourceLogs
  BY <1>11 DEF SourceLogs
<1>12. CASE SourceSeals
  BY <1>12 DEF SourceSeals
<1>13. CASE Crash
  BY <1>13 DEF Crash
<1>14. CASE Rebuild
  BY <1>14 DEF Rebuild
<1>15. ASSUME NEW t \in Turn, SendChat(t) PROVE OneResumer'
  BY <1>15 DEF SendChat
<1>16. ASSUME NEW t \in Turn, SendRoute(t) PROVE OneResumer'
  BY <1>16 DEF SendRoute
<1>17. ASSUME NEW t \in Turn, CompletionFails(t) PROVE OneResumer'
  BY <1>17 DEF CompletionFails
<1> QED
  BY <1>1, <1>2, <1>3, <1>4, <1>5, <1>6, <1>7, <1>8, <1>9,
     <1>10, <1>11, <1>12, <1>13, <1>14, <1>15, <1>16, <1>17
  DEF CheckpointNext, Recovery, Client, Fault

\* A turn works from the checkpoint only by a claim that the store grants.
LEMMA ClaimGranted ==
    ASSUME CheckpointTypeOK, CheckpointNext, NEW r \in Turn, at[r] # "claimed", at'[r] = "claimed"
    PROVE  at[r] = "claim" /\ Grants(r)
<1> USE CheckpointConstants
    DEF CheckpointAssumption, CheckpointTypeOK, Status, Phase, PassPhase,
        store, process, turns, bounds, Up, Goto, Leave, Pass, PassStep, Stay, Become, Key, Record,
        Fail, Watch, SealSource
<1>1. ASSUME NEW t \in Turn, TurnStep(t) PROVE at[r] = "claim" /\ Grants(r)
  <2>1. CASE Waited(t)
    BY <2>1 DEF Waited
  <2>2. CASE Register(t)
    BY <2>2 DEF Register
  <2>3. CASE Replay(t)
    BY <2>3 DEF Replay
  <2>4. CASE Execute(t)
    BY <2>4 DEF Execute
  <2>5. CASE Resolve(t)
    BY <2>5 DEF Resolve
  <2>6. CASE Prior(t)
    BY <2>6 DEF Prior
  <2>7. CASE Cancel(t)
    BY <2>7 DEF Cancel
  <2>8. CASE Defer(t)
    BY <2>8 DEF Defer
  <2>9. CASE RunApart(t)
    BY <2>9 DEF RunApart
  <2>10. CASE Inspect(t)
    BY <2>10 DEF Inspect
  <2>11. CASE Claim(t)
    BY <2>11 DEF Claim
  <2>12. CASE Join(t)
    BY <2>12 DEF Join
  <2>13. CASE ClaimConflict(t)
    BY <2>13 DEF ClaimConflict
  <2>14. CASE Start(t)
    BY <2>14 DEF Start
  <2>15. CASE Reply(t)
    BY <2>15 DEF Reply
  <2>16. CASE WriteLog(t)
    BY <2>16 DEF WriteLog
  <2>17. CASE Throw(t)
    BY <2>17 DEF Throw
  <2>18. CASE CompleteResume(t)
    BY <2>18 DEF CompleteResume
  <2>19. CASE InterruptResume(t)
    BY <2>19 DEF InterruptResume
  <2>20. CASE Watched(t)
    BY <2>20 DEF Watched
  <2> QED
    BY <1>1, <2>1, <2>2, <2>3, <2>4, <2>5, <2>6, <2>7, <2>8, <2>9, <2>10,
       <2>11, <2>12, <2>13, <2>14, <2>15, <2>16, <2>17, <2>18, <2>19, <2>20 DEF TurnStep
<1>2. CASE Boot
  BY <1>2 DEF Boot
<1>3. CASE ListResuming
  BY <1>3 DEF ListResuming
<1>4. CASE CheckActive
  BY <1>4 DEF CheckActive
<1>5. CASE Release
  BY <1>5 DEF Release
<1>6. CASE ListIncomplete
  BY <1>6 DEF ListIncomplete
<1>7. CASE Reconcile
  BY <1>7 DEF Reconcile
<1>8. CASE ReconcileSource
  BY <1>8 DEF ReconcileSource
<1>9. CASE AskAbandon
  BY <1>9 DEF AskAbandon
<1>10. CASE Abandon
  BY <1>10 DEF Abandon
<1>11. CASE SourceLogs
  BY <1>11 DEF SourceLogs
<1>12. CASE SourceSeals
  BY <1>12 DEF SourceSeals
<1>13. CASE Crash
  BY <1>13 DEF Crash
<1>14. CASE Rebuild
  BY <1>14 DEF Rebuild
<1>15. ASSUME NEW t \in Turn, SendChat(t) PROVE at[r] = "claim" /\ Grants(r)
  BY <1>15 DEF SendChat
<1>16. ASSUME NEW t \in Turn, SendRoute(t) PROVE at[r] = "claim" /\ Grants(r)
  BY <1>16 DEF SendRoute
<1>17. ASSUME NEW t \in Turn, CompletionFails(t) PROVE at[r] = "claim" /\ Grants(r)
  BY <1>17 DEF CompletionFails
<1> QED
  BY <1>1, <1>2, <1>3, <1>4, <1>5, <1>6, <1>7, <1>8, <1>9,
     <1>10, <1>11, <1>12, <1>13, <1>14, <1>15, <1>16, <1>17
  DEF CheckpointNext, Recovery, Client, Fault

\* What was true of the record stays true while nothing changes.
LEMMA StutterStep ==
    ASSUME UNCHANGED checkpointVars
    PROVE  /\ CheckpointTypeOK => CheckpointTypeOK'
           /\ Named => Named'
           /\ Fresh => Fresh'
           /\ ResumedHasEnded => ResumedHasEnded'
           /\ OneResumer => OneResumer'
           /\ Loyal => Loyal'
           /\ Spared => Spared'
BY DEF checkpointVars, store, turns, process, bounds, CheckpointTypeOK, Named, Fresh, ResumedHasEnded,
       OneResumer, Loyal, Spared, AtWork, HeldBy

-----------------------------------------------------------------------------
(* The theorems.                                                           *)

LEMMA EndedInitially == CheckpointInit => EndedInv
BY CheckpointConstants
   DEF CheckpointInit, EndedInv, CheckpointTypeOK, Named, Fresh, ResumedHasEnded, CheckpointAssumption,
       Status, Phase, PassPhase, Early

LEMMA EndedKept == EndedInv /\ [CheckpointNext]_checkpointVars => EndedInv'
BY TypeStep, NamedStep, FreshStep, EndedStep, StutterStep DEF EndedInv

\* The record of a checkpoint, the places of the requests and the logs of their
\* runs agree in every reachable state.
THEOREM EndedInvariant == CheckpointSpec => []EndedInv
BY EndedInitially, EndedKept, PTL DEF CheckpointSpec

\* Every variable of the checkpoint, its claims and its recovery stays in its range.
THEOREM CheckpointTypeCorrect == CheckpointSpec => []CheckpointTypeOK
<1>1. EndedInv => CheckpointTypeOK
  BY DEF EndedInv
<1> QED BY <1>1, EndedInvariant, PTL

\* A record that says resumed names a run that has ended and left its log, through
\* every crash, retry, abandonment, failed completion and rebuild
\* (completeResume, reconcileCompletedResume).
THEOREM ResumedEnded == CheckpointSpec => []ResumedHasEnded
<1>1. EndedInv => ResumedHasEnded
  BY DEF EndedInv
<1> QED BY <1>1, EndedInvariant, PTL

\* A turn whose final reply is durable is never executed a second time, however
\* often it is sent again (coordinateConversationTurn).
THEOREM NotExecutedAgain == CheckpointSpec => AnsweredOnce
<1>1. EndedInv /\ [CheckpointNext]_checkpointVars
      => [\A t \in replied : at[t] # "claimed" => at'[t] # "claimed"]_checkpointVars
  <2> SUFFICES ASSUME EndedInv, CheckpointNext, NEW t \in replied, at[t] # "claimed", at'[t] = "claimed"
               PROVE  FALSE
    OBVIOUS
  <2>1. t \in Turn /\ at \in [Turn -> Phase]
    BY DEF EndedInv, CheckpointTypeOK
  <2>2. at[t] = "claim"
    BY <2>1, ClaimGranted DEF EndedInv
  <2> QED BY <2>1, <2>2 DEF EndedInv, Fresh, Early
<1> QED BY <1>1, EndedInvariant, PTL DEF CheckpointSpec, AnsweredOnce

-----------------------------------------------------------------------------
(* What the claims of the answers give.                                    *)

LEMMA LoyalInvariant ==
    ASSUME Waiting, Route = {}
    PROVE  CheckpointSpec => []Loyal
<1>1. CheckpointInit => Loyal
  BY DEF CheckpointInit, Loyal, AtWork
<1>2. EndedInv /\ Loyal /\ [CheckpointNext]_checkpointVars => Loyal'
  BY LoyalStep, StutterStep DEF EndedInv
<1> QED BY <1>1, <1>2, EndedInvariant, PTL DEF CheckpointSpec

\* A waiting checkpoint that is resumed by the answers of the chat, and whose resume
\* has finished, is not resumed again: neither by a retry nor by another answer, after
\* a crash anywhere between the reply, the log and the record, and whatever routers
\* were built meanwhile (claimResume, reconcileCompletedRuns).
THEOREM FinishedIsFinal ==
    ASSUME Waiting => Route = {}
    PROVE  CheckpointSpec => FinishedStays
<1>1. CASE ~Waiting
  <2>1. EndedInv /\ EndedInv' => [ClaimUnfinished]_checkpointVars
    BY <1>1 DEF EndedInv, Named, ClaimUnfinished
  <2> QED BY <2>1, EndedInvariant, PTL DEF FinishedStays
<1>2. CASE Waiting
  <2>1. EndedInv /\ Loyal /\ [CheckpointNext]_checkpointVars => [ClaimUnfinished]_checkpointVars
    <3> SUFFICES ASSUME EndedInv, Loyal, CheckpointNext, NEW t \in Turn, at[t] = "claim", at'[t] = "claimed",
                        NEW u \in worked
                 PROVE  log[u] # "ok"
      BY DEF ClaimUnfinished
    <3>1. Grants(t)
      BY ClaimGranted DEF EndedInv
    <3>2. u = t
      BY <1>2, <3>1, CheckpointConstants
      DEF Loyal, Grants, OwnClaim, Final, EndedInv, CheckpointTypeOK, CheckpointAssumption
    <3> QED BY <3>2 DEF EndedInv, Fresh, Early
  <2>2. CheckpointSpec => []Loyal
    BY <1>2, LoyalInvariant
  <2> QED BY <2>1, <2>2, EndedInvariant, PTL DEF CheckpointSpec, FinishedStays
<1> QED BY <1>1, <1>2

\* A resume is final: what the run checks of an instance with two turns, for any
\* number of them.
THEOREM ResumesFinal ==
    ASSUME Waiting => Route = {}
    PROVE  CheckpointSpec => ResumesAreFinal
<1>1. CheckpointSpec => FinishedStays
  BY FinishedIsFinal
<1> QED BY <1>1, CheckpointTypeCorrect, ResumedEnded, NotExecutedAgain, PTL DEF ResumesAreFinal

-----------------------------------------------------------------------------
(* One resume at a time.                                                   *)

LEMMA SparedInvariant ==
    ASSUME MaxRebuilds = 0
    PROVE  CheckpointSpec => []Spared
<1>1. CheckpointInit => Spared
  BY DEF CheckpointInit, Spared, AtWork
<1>2. EndedInv /\ Spared /\ [CheckpointNext]_checkpointVars => Spared'
  BY SparedStep, StutterStep DEF EndedInv
<1> QED BY <1>1, <1>2, EndedInvariant, PTL DEF CheckpointSpec

\* No two runs work from the checkpoint at once: in an application whose router is
\* never rebuilt for every kind of turn, and for the answers to a waiting checkpoint
\* whatever is rebuilt (claimResume, recoverInterruptedResumes, interruptResume).
THEOREM SingleResumer ==
    ASSUME MaxRebuilds = 0 \/ (Waiting /\ Route = {})
    PROVE  CheckpointSpec => []OneResumer
<1>1. CheckpointInit => OneResumer
  BY DEF CheckpointInit, OneResumer, AtWork
<1>2. CASE MaxRebuilds = 0
  <2>1. EndedInv /\ Spared /\ OneResumer /\ [CheckpointNext]_checkpointVars => OneResumer'
    BY <1>2, OneStep, StutterStep DEF EndedInv
  <2>2. CheckpointSpec => []Spared
    BY <1>2, SparedInvariant
  <2> QED BY <1>1, <2>1, <2>2, EndedInvariant, PTL DEF CheckpointSpec
<1>3. CASE Waiting /\ Route = {}
  <2>1. EndedInv /\ Loyal /\ OneResumer /\ [CheckpointNext]_checkpointVars => OneResumer'
    BY <1>3, OneStep, StutterStep DEF EndedInv
  <2>2. CheckpointSpec => []Loyal
    BY <1>3, LoyalInvariant
  <2> QED BY <1>1, <2>1, <2>2, EndedInvariant, PTL DEF CheckpointSpec
<1> QED BY <1>2, <1>3
=============================================================================
