------------------------------ MODULE MCDesktop ------------------------------
(***************************************************************************)
(* Small instances of what the desktop application keeps in memory and on  *)
(* disk beside its runs: RuntimeQueue, RunEvents, RunnerLifecycle and      *)
(* DataRoot.  `instance' says which one works, the others rest in their    *)
(* initial state.  The constants of RunnerLifecycle and DataRoot are those *)
(* of the configuration.                                                   *)
(***************************************************************************)
EXTENDS DataRoot, RunnerLifecycle

CONSTANTS m1, m2, o1, c1, c2, d1, d2, d3

VARIABLES
    instance,
    queue, batch, now, admitted, restores,
    q, eventStage, at, ok, control, shown, aborted, classified, deferred, known, handed, attempts,
    checkpoint, run, told, home, heard, sends, requests, eventFaults

-----------------------------------------------------------------------------
(* The queue: three clients retry with the same identity or the same key,  *)
(* one of them with another body; one event has no key.                    *)
User(id, body, ttl) == [id |-> id, key |-> "ka", type |-> "user", body |-> body, ttl |-> ttl]
Clients ==
    {User("a", "x", 3), User("b", "x", 3), User("a", "y", 1),
     [id |-> "c", key |-> None, type |-> "control", body |-> "z", ttl |-> 1]}

TwoPlaces == INSTANCE RuntimeQueue WITH
    q <- queue, MaxEvents <- 2, BatchSize <- 2, Submission <- Clients,
    Types <- {{"user"}, {"control"}}, MaxSeq <- 4, MaxTime <- 4, BatchLease <- 1, MaxRestores <- 1

\* A queue that forgets every decided event at the next submission.
OnePlace == INSTANCE RuntimeQueue WITH
    q <- queue, MaxEvents <- 1, BatchSize <- 2, Submission <- Clients,
    Types <- {{"user"}, {"control"}}, MaxSeq <- 5, MaxTime <- 3, BatchLease <- 1, MaxRestores <- 1

-----------------------------------------------------------------------------
(* The run: a queue that is too small for what is sent, and one            *)
(* continuation of the run.                                                *)
Continued == INSTANCE RunEvents WITH
    Message <- {m1, m2}, Other <- {o1}, Routes <- {"execute", "reply"}, Hooked <- {},
    MaxEvents <- 2, BatchSize <- 2, MaxDeferred <- 2, MaxAttempts <- 1, MaxSends <- 3,
    MaxRequests <- 1, MaxFaults <- 1, MaxRuns <- 2,
    stage <- eventStage, faults <- eventFaults

\* Three messages, or two and a request: either is more than the queue holds.
ContinuedStep == Continued!Next /\ sends' + requests' <= 3

\* One run, which works with its tools: room for every message, and two
\* control requests.
Single == INSTANCE RunEvents WITH
    Message <- {m1, m2}, Other <- {}, Routes <- {"execute"}, Hooked <- {},
    MaxEvents <- 3, BatchSize <- 3, MaxDeferred <- 2, MaxAttempts <- 1, MaxSends <- 2,
    MaxRequests <- 2, MaxFaults <- 1, MaxRuns <- 1,
    stage <- eventStage, faults <- eventFaults

-----------------------------------------------------------------------------
(* The runners: four, two of them retired, two configurations, a build     *)
(* that fails.                                                             *)

\* Three saves; the second request comes where no build has failed.
SaveStep == LifecycleNext /\ key' = 0 /\ (stream'["t"].at = "idle" \/ buildFaults' = 0)

\* Two saves and a key; one request.
KeyStep == LifecycleNext /\ saves' <= 2 /\ stream'["t"].at = "idle"

-----------------------------------------------------------------------------
(* The data root.  The constants of the configuration: three directories,  *)
(* two migrations, two faults of any kind and a crash.                     *)

-----------------------------------------------------------------------------
queueVars == <<queue, batch, now, admitted, restores>>
runVars ==
    <<q, eventStage, at, ok, control, shown, aborted, classified, deferred, known, handed, attempts,
      checkpoint, run, told, home, heard, sends, requests, eventFaults>>
vars == <<instance, queueVars, runVars, lifecycleVars, rootVars>>

\* One initial state of the instances that rest.
QueueRests == TwoPlaces!Init
RunRests == Single!Init
RunnersRest == slot = [token |-> 1, content |-> c1] /\ LifecycleInit
RootRests == tree = [d \in Dir |-> Absent] /\ RootInit

Init ==
    \/ instance = "two places" /\ TwoPlaces!Init /\ RunRests /\ RunnersRest /\ RootRests
    \/ instance = "one place" /\ OnePlace!Init /\ RunRests /\ RunnersRest /\ RootRests
    \/ instance = "continued" /\ Continued!Init /\ QueueRests /\ RunnersRest /\ RootRests
    \/ instance = "single" /\ Single!Init /\ QueueRests /\ RunnersRest /\ RootRests
    \/ instance \in {"saves", "keys"} /\ LifecycleInit /\ QueueRests /\ RunRests /\ RootRests
    \/ instance = "root" /\ RootInit /\ QueueRests /\ RunRests /\ RunnersRest

Next ==
    \/ instance = "two places" /\ TwoPlaces!Next /\ UNCHANGED <<instance, runVars, lifecycleVars, rootVars>>
    \/ instance = "one place" /\ OnePlace!Next /\ UNCHANGED <<instance, runVars, lifecycleVars, rootVars>>
    \/ instance = "continued" /\ ContinuedStep /\ UNCHANGED <<instance, queueVars, lifecycleVars, rootVars>>
    \/ instance = "single" /\ Single!Next /\ UNCHANGED <<instance, queueVars, lifecycleVars, rootVars>>
    \/ instance = "saves" /\ SaveStep /\ UNCHANGED <<instance, queueVars, runVars, rootVars>>
    \/ instance = "keys" /\ KeyStep /\ UNCHANGED <<instance, queueVars, runVars, rootVars>>
    \/ instance = "root" /\ RootNext /\ UNCHANGED <<instance, queueVars, runVars, lifecycleVars>>

Spec == Init /\ [][Next]_vars

ASSUME TwoPlaces!EventQueueAssumption /\ OnePlace!EventQueueAssumption
ASSUME Continued!EventQueueAssumption /\ Single!EventQueueAssumption
ASSUME Continued!RunEventsAssumption /\ Single!RunEventsAssumption

-----------------------------------------------------------------------------
\* RuntimeQueue and RunEvents: an undecided event is in the queue, a retried
\* submission once, under a number of its own; no message is given to the model
\* twice, and a run that goes to its tools, with room for its messages, has given
\* it every message it accepted in time.
MessagesAreHeard ==
    /\ IF instance = "one place" THEN OnePlace!QueueTypeOK ELSE instance = "two places" => TwoPlaces!QueueTypeOK
    /\ instance \in {"one place", "two places"} =>
         TwoPlaces!UndecidedAreKept /\ TwoPlaces!RetriesAreOne /\ TwoPlaces!NumbersAreForever
    /\ instance = "continued" => Continued!EventsTypeOK /\ Continued!HeardOnce
    /\ instance = "single" => Single!EventsTypeOK /\ Single!HeardOnce /\ Single!EarlyIsHeard

\* RuntimeQueue and RunEvents: a decision is final; a message taken out of the
\* queue stays with the run until it is heard; within one run, the control shown
\* is the control obeyed.
DecisionsAreObeyed ==
    /\ TwoPlaces!DecisionsAreFinal
    /\ Continued!KeptUntilHeard
    /\ [][instance = "single" => Single!ObeyControl]_vars
=============================================================================
