------------------------------ MODULE RunEvents ------------------------------
(***************************************************************************)
(* The runtime events of a run: what a user sends to a run that works,     *)
(* and what the run does with it.  Messages, other task events and control *)
(* requests enter the run's queue; the stage loop takes them at the        *)
(* boundary before every stage, the tool loop of EXECUTE takes messages    *)
(* around every model request.  A message is "heard" when it is put into   *)
(* the conversation of the model.  A run that does not end well leaves a   *)
(* checkpoint, from which another run continues.                           *)
(*                                                                         *)
(* Rounds of tools repeat the captures of the tool loop and are left out,  *)
(* so are patches of the task book and the events' expiry.                 *)
(***************************************************************************)
EXTENDS EventQueue, FiniteSets

CONSTANTS
    Message,        \* user messages, one identity each
    Other,          \* settings changed and files saved during the run
    Routes,         \* where CLASSIFY may send the run: {"execute", "reply"}
    Hooked,         \* stages a hook may answer for
    MaxDeferred,    \* capacity of the deferred events
    MaxAttempts,    \* recoveries before the user is asked
    MaxSends,       \* bound on the submissions
    MaxRequests,    \* bound on pause, resume and interrupt
    MaxFaults,      \* bound on stages that throw and requests that fail
    MaxRuns         \* bound on the runs, the continuations included

RunEventsAssumption ==
    /\ MaxDeferred \in Nat \ {0}
    /\ {MaxAttempts, MaxSends, MaxRequests, MaxFaults, MaxRuns} \subseteq Nat

VARIABLES
    q,              \* the run's queue
    stage, at,      \* the stage, and where in it the run is
    ok,             \* how the last stage ended
    control,        \* the run's control state
    shown,          \* the control status the registry shows
    aborted,        \* the run's signal is aborted
    classified,     \* the run has its route
    deferred,       \* deferred events, in order
    known,          \* ids that were deferred once
    handed,         \* ids the loop went back for once
    attempts,       \* recoveries
    checkpoint, run,
    told,           \* history: "early" or "late" when m was accepted, "no" before
    home,           \* history: the run m was sent to
    heard,          \* history: how often the model was given m
    sends, requests, faults

loop == <<stage, at, ok, classified, attempts>>
events == <<q, deferred, known, handed>>
controls == <<control, shown, aborted>>
history == <<told, home>>
bounds == <<sends, requests, faults>>
vars == <<events, loop, controls, checkpoint, run, history, heard, bounds>>

Stage == {"enter", "classify", "execute", "recover", "reply", "ask_user", "finalize"}
ControlType == {"pause", "resume", "interrupt"}
TaskType == {"message", "other"}

Event(id, type) == [id |-> id, key |-> id, type |-> type, body |-> None, expires |-> 1]
Put(id, type) == Submit(q, Event(id, type), 0, {})
Go(s) == stage' = s /\ at' = "boundary" /\ ok' = TRUE
Exit(good) == at' = "ended" /\ ok' = good /\ UNCHANGED stage
Fault == faults < MaxFaults /\ faults' = faults + 1

Init ==
    /\ q = EmptyQueue /\ deferred = <<>> /\ known = {} /\ handed = {}
    /\ stage = "enter" /\ at = "boundary" /\ ok = TRUE
    /\ classified = FALSE /\ attempts = 0
    /\ control = "running" /\ shown = "running" /\ aborted = FALSE
    /\ checkpoint = None /\ run = 1
    /\ told = [m \in Message |-> "no"] /\ home = [m \in Message |-> 0]
    /\ heard = [m \in Message |-> 0]
    /\ sends = 0 /\ requests = 0 /\ faults = 0

-----------------------------------------------------------------------------
(* The clients.  A run is registered until it is over.                     *)
Registered == at # "off"
\* The loop has taken its last look at the queue.
LastLook == at \in {"ended", "closing"} \/ (stage = "finalize" /\ at = "stage")

\* A message, or its retry to the same run when the answer was lost.
Send(m) ==
    LET result == Put(m, "message")
    IN  /\ Registered /\ sends < MaxSends /\ sends' = sends + 1
        /\ home[m] \in {0, run} /\ home' = [home EXCEPT ![m] = run]
        /\ q' = result.q
        /\ told' = IF result.kind = "accepted" /\ told[m] = "no"
                   THEN [told EXCEPT ![m] = IF LastLook THEN "late" ELSE "early"] ELSE told
        /\ UNCHANGED <<deferred, known, handed, loop, controls, checkpoint, run, heard, requests,
                       faults>>

Change(o) ==
    /\ Registered /\ sends < MaxSends /\ sends' = sends + 1
    /\ q' = Put(o, "other").q
    /\ UNCHANGED <<deferred, known, handed, loop, controls, checkpoint, run, history, heard,
                   requests, faults>>

\* What a request shows, given whether its event was queued.
Shows(type) == IF type = "pause" THEN "pause_requested" ELSE "running"
Redundant_Blind(type) == type = "resume"
Redundant(type) == shown = Shows(type)

Request(type) ==
    LET result == Put(requests + 1, type)
        answered == shown = "interrupt_requested" \/ Redundant(type)
    IN  /\ Registered /\ requests < MaxRequests /\ requests' = requests + 1
        /\ q' = IF answered THEN q ELSE result.q
        /\ shown' = IF answered THEN (IF shown = "interrupt_requested" THEN shown ELSE Shows(type))
                    ELSE IF result.kind = "accepted" THEN Shows(type) ELSE shown
        /\ UNCHANGED <<deferred, known, handed, loop, control, aborted, checkpoint, run, history,
                       heard, sends, faults>>

\* Pause or resume as an event: queued whatever is shown.
Post(type) ==
    LET result == Put(requests + 1, type)
    IN  /\ Registered /\ requests < MaxRequests /\ requests' = requests + 1
        /\ result.kind = "accepted"
        /\ q' = result.q /\ shown' = Shows(type)
        /\ UNCHANGED <<deferred, known, handed, loop, control, aborted, checkpoint, run, history,
                       heard, sends, faults>>

\* An interrupt aborts at once; as an event it is queued too.
Interrupt(queued) ==
    LET result == Put(requests + 1, "interrupt")
    IN  /\ Registered /\ requests < MaxRequests /\ requests' = requests + 1
        /\ queued => result.kind = "accepted"
        /\ q' = IF queued THEN result.q ELSE q
        /\ shown' = "interrupt_requested" /\ aborted' = TRUE
        /\ UNCHANGED <<deferred, known, handed, loop, control, checkpoint, run, history, heard,
                       sends, faults>>

Client ==
    \/ \E m \in Message : Send(m)
    \/ \E o \in Other : Change(o)
    \/ \E type \in {"pause", "resume"} : Request(type) \/ Post(type)
    \/ \E queued \in BOOLEAN : Interrupt(queued)

-----------------------------------------------------------------------------
(* Decisions, as folds over a batch.                                       *)
DecideControl(c, e) ==
    LET next == CASE c.state = "interrupted" -> "interrupted"
                  [] e.type = "pause" -> "paused"
                  [] e.type = "resume" -> "running"
                  [] e.type = "interrupt" -> "interrupted"
    IN  [state |-> next,
         verdicts |-> (e.seq :> IF next = c.state THEN "ignored" ELSE "applied") @@ c.verdicts]
DecidedControl(batch) == FoldLeft(DecideControl, [state |-> control, verdicts |-> <<>>], batch)

\* An event is remembered once; a full list refuses it.
Remember_Again(d, e) ==
    IF Len(d.list) >= MaxDeferred THEN [d EXCEPT !.verdicts = (e.seq :> "conflict") @@ @]
    ELSE [list |-> Append(d.list, e.id), ids |-> d.ids \cup {e.id},
          verdicts |-> (e.seq :> "applied") @@ d.verdicts]
Remember(d, e) ==
    LET settled == IF e.type = "message" THEN "applied" ELSE "ignored"
    IN  IF e.id \in d.ids THEN [d EXCEPT !.verdicts = (e.seq :> settled) @@ @]
        ELSE IF Len(d.list) >= MaxDeferred
        THEN [d EXCEPT !.verdicts = (e.seq :> "conflict") @@ @]
        ELSE [list |-> Append(d.list, e.id), ids |-> d.ids \cup {e.id},
              verdicts |-> (e.seq :> settled) @@ d.verdicts]
Remembered(batch) ==
    FoldLeft(Remember, [list |-> deferred, ids |-> known, verdicts |-> <<>>], batch)

-----------------------------------------------------------------------------
(* The boundary before a stage.                                            *)
Stopped(state) == state # "running"
Ids(batch) == {batch[i].id : i \in DOMAIN batch}
Back == IF classified THEN "execute" ELSE "classify"
UserMessages(list) == ToSet(list) \cap Message

\* The ids for which the loop goes back to EXECUTE, once each.
Recall(batch, decision) ==
    LET replan == \E i \in DOMAIN batch : decision.verdicts[batch[i].seq] # "conflict"
    IN  IF replan /\ stage # "execute" /\ ~(Ids(batch) \subseteq handed) THEN Ids(batch)
        ELSE IF stage \notin {"execute", "classify"} THEN UserMessages(decision.list) \ handed
        ELSE {}

\* (Each of the three is one value; \E has TLC work it out once.)
Boundary ==
    \E decided \in {DecidedControl(Batch(q, ControlType))} :
    \E queue \in {Settle(q, decided.verdicts, 0)} :
    \E decision \in {Remembered(Batch(queue, TaskType))} :
    LET recalled == Recall(Batch(queue, TaskType), decision)
    IN  /\ at = "boundary"
        /\ control' = decided.state
        /\ IF Stopped(decided.state)
           THEN /\ q' = queue /\ Exit(FALSE) /\ UNCHANGED <<deferred, known, handed>>
           ELSE /\ q' = Settle(queue, decision.verdicts, 0)
                /\ deferred' = decision.list /\ known' = decision.ids
                /\ handed' = handed \cup recalled
                /\ IF recalled # {} THEN Go(Back)
                   ELSE at' = "stage" /\ UNCHANGED <<stage, ok>>
        /\ UNCHANGED <<classified, attempts, shown, aborted, checkpoint, run, history, heard, bounds>>

-----------------------------------------------------------------------------
(* The stages.                                                             *)
In(s) == at = "stage" /\ stage = s
Keep == UNCHANGED <<events, controls, checkpoint, run, history, heard, sends, requests>>

Enter == In("enter") /\ Go("classify") /\ UNCHANGED <<classified, attempts, faults>> /\ Keep

Classify ==
    /\ In("classify") /\ \E route \in Routes : Go(route)
    /\ classified' = TRUE
    /\ UNCHANGED <<attempts, faults>> /\ Keep

Answer ==
    /\ In("reply") \/ In("ask_user")
    /\ Go("finalize")
    /\ UNCHANGED <<classified, attempts, faults>> /\ Keep

Finalize == In("finalize") /\ Exit(TRUE) /\ UNCHANGED <<classified, attempts, faults>> /\ Keep

Recover ==
    /\ In("recover") /\ attempts' = attempts + 1
    /\ IF attempts' > MaxAttempts THEN Go("ask_user")
       ELSE IF aborted THEN Exit(FALSE)
       ELSE Go("execute") \/ Go("ask_user") \/ Exit(FALSE)
    /\ UNCHANGED <<classified, faults>> /\ Keep

Throw ==
    /\ at = "stage" /\ Fault /\ Exit(FALSE)
    /\ UNCHANGED <<classified, attempts>> /\ Keep

\* A hook answers for a stage, so the stage does not run.
HookAnswers ==
    /\ at = "stage" /\ stage \in Hooked /\ Go("finalize")
    /\ UNCHANGED <<classified, attempts, faults>> /\ Keep

Execute ==
    /\ In("execute") /\ at' = "capture"
    /\ UNCHANGED <<stage, ok, classified, attempts, faults>> /\ Keep

-----------------------------------------------------------------------------
(* The tool loop: messages are captured before and after a request.        *)
Captured ==
    LET batch == Batch(q, {"message"})
        decision == Remembered(batch)
    IN  [q |-> Settle(q, decision.verdicts, 0), ids |-> decision.ids,
         heard |-> UserMessages(decision.list),
         left |-> SelectSeq(decision.list, LAMBDA id : id \notin Message)]

Hear(c) ==
    /\ q' = c.q /\ known' = c.ids /\ deferred' = c.left
    /\ heard' = [m \in Message |-> heard[m] + IF m \in c.heard THEN 1 ELSE 0]
    /\ UNCHANGED <<handed, stage, classified, attempts, controls, checkpoint, run, history, sends,
                   requests>>

CaptureBefore ==
    /\ at = "capture" /\ Hear(Captured)
    /\ at' = "request" /\ UNCHANGED <<ok, faults>>

Respond ==
    /\ at = "request" /\ ~aborted /\ Hear(Captured) /\ UNCHANGED <<ok, faults>>
    /\ at' = IF Captured.heard # {} THEN "capture" ELSE "answered"

\* An aborted request fails; any other may, and so may what follows it.
LoopFails ==
    /\ at \in {"request", "answered"}
    /\ IF aborted /\ at = "request" THEN UNCHANGED faults ELSE Fault
    /\ stage' = "recover" /\ at' = "boundary" /\ ok' = FALSE
    /\ UNCHANGED <<classified, attempts>> /\ Keep

\* The answer is published, or the model has asked the user.
Publish ==
    /\ at = "answered" /\ (Go("finalize") \/ Go("ask_user"))
    /\ UNCHANGED <<classified, attempts, faults>> /\ Keep

-----------------------------------------------------------------------------
(* The end of a run, and its continuation.                                 *)
ShouldPersist == aborted \/ Stopped(control) \/ (~ok /\ stage # "finalize")

Checkpoint ==
    [q |-> q, deferred |-> deferred, pending |-> {e.id : e \in Queued(q)}, stage |-> stage,
     classified |-> classified, failed |-> ~ok]

Conclude ==
    /\ at = "ended" /\ at' = "closing"
    /\ checkpoint' = IF ShouldPersist THEN Checkpoint ELSE None
    /\ UNCHANGED <<events, stage, ok, classified, attempts, controls, run, history, heard, bounds>>

Unregister ==
    /\ at = "closing" /\ at' = "off"
    /\ q' = EmptyQueue
    /\ UNCHANGED <<deferred, known, handed, stage, ok, classified, attempts, controls, checkpoint,
                   run, history, heard, bounds>>

ResumeStage(c) ==
    CASE c.stage = "enter" -> "classify"
      [] c.stage = "finalize" -> IF c.failed THEN "recover" ELSE "reply"
      [] OTHER -> c.stage

Continue ==
    /\ at = "off" /\ checkpoint # None /\ run < MaxRuns
    /\ run' = run + 1 /\ checkpoint' = None
    /\ q' = Restored(checkpoint.q)
    /\ deferred' = checkpoint.deferred /\ known' = checkpoint.pending /\ handed' = {}
    /\ Go(ResumeStage(checkpoint)) /\ classified' = checkpoint.classified /\ attempts' = 0
    /\ control' = "running" /\ shown' = "running" /\ aborted' = FALSE
    /\ UNCHANGED <<history, heard, bounds>>

Work ==
    \/ Boundary \/ Enter \/ Classify \/ Answer \/ Finalize \/ Recover \/ HookAnswers
    \/ Execute \/ CaptureBefore \/ Respond \/ LoopFails \/ Publish
    \/ Conclude \/ Unregister

Next == Work \/ Throw \/ Continue \/ Client
Spec == Init /\ [][Next]_vars

\* The loop goes on by itself and a request comes back.
EventsFairness == WF_vars(Work)

-----------------------------------------------------------------------------
\* The loop is at one of its places, and the lists of the run keep to their bounds.
EventsTypeOK ==
    /\ stage \in Stage
    /\ at \in {"boundary", "stage", "capture", "request", "answered", "ended", "closing", "off"}
    /\ control \in {"running", "paused", "interrupted"}
    /\ shown \in {"running", "pause_requested", "interrupt_requested"}
    /\ {ok, aborted, classified} \subseteq BOOLEAN
    /\ Len(deferred) <= MaxDeferred /\ ToSet(deferred) \subseteq Message \cup Other
    /\ Len(q.events) <= MaxEvents
    /\ told \in [Message -> {"no", "early", "late"}]
    /\ attempts <= MaxAttempts + MaxSends + 2 /\ run \in 1..MaxRuns

\* The model is never given a message twice, although the client retries it,
\* the full queue forgets it, and a checkpoint carries it to another run.
HeardOnce == \A m \in Message : heard[m] <= 1

\* A message the run has taken out of its queue stays with the run, and with
\* the run that continues it, until the model is given it.
KeptUntilHeard ==
    [][\A m \in Message : (m \in ToSet(deferred) /\ m \notin ToSet(deferred')) =>
            heard'[m] > heard[m]]_vars

\* The control the registry shows is the one the run obeys: no stage begins
\* after a pause was accepted, and a run pauses only when one was.
ObeyControl ==
    /\ (at = "boundary" /\ at' = "stage") => shown # "pause_requested"
    /\ (control' = "paused" /\ control # "paused") => shown # "running"
ControlIsObeyed == [][ObeyControl]_vars

\* A message accepted while the run still had to look at its queue has been
\* given to the model when the run has ended well.
Ended(m, when) == at = "off" /\ ok /\ checkpoint = None /\ told[m] = when
EarlyIsHeard == \A m \in Message : Ended(m, "early") => heard[m] > 0

\* So has one accepted after the last look.
LateIsHeard == \A m \in Message : Ended(m, "late") => heard[m] > 0

\* Going back to EXECUTE does not keep the run from its end.
RunEnds == []<>(at = "off")
=============================================================================
