------------------------- MODULE CompactionScheduler -------------------------
(***************************************************************************)
(* SessionCompactionScheduler: which compactions of a runner run, join     *)
(* another, wait or are put off, and the history each one leaves in the    *)
(* CompactionOperationStore.                                               *)
(*                                                                         *)
(* A request becomes an operation of its own name when it starts one.      *)
(* What an operation does is SessionSummary; here it works for a while and *)
(* ends, with or without a summary, or throws.                             *)
(***************************************************************************)
EXTENDS Naturals, FiniteSets

CONSTANTS
    Request, Session,
    SessionOf,      \* SessionOf[r]: the session r asks to compact
    Hard,           \* forced requests; the others are soft
    SoftLimit,      \* soft operations at once
    Cancellable,    \* bound: requests whose run may be cancelled
    NoRequest

SchedulerAssumption ==
    /\ SessionOf \in [Request -> Session]
    /\ Hard \cup Cancellable \subseteq Request
    /\ NoRequest \notin Request \cup Session
SchedulerBounds == SoftLimit \in Nat /\ IsFiniteSet(Request)
ASSUME SchedulerConstants == SchedulerAssumption /\ SchedulerBounds

VARIABLES
    place,          \* place[r]: where the request stands
    on,             \* on[r]: the operation whose promise it awaits, or None
    flight,         \* flight[s]: the operation registered for s, or None
    soft,           \* softRunning
    controllers,    \* operations whose controller is still registered
    aborted,        \* operations whose controller was aborted
    cancelled,      \* requests whose run was cancelled
    status,         \* status[r]: the record of the operation, "none" without one
    outcome,        \* outcome[r]: what the request was answered
    observed,       \* observed[o]: the history o has read
    temp,           \* temp[s]: the temporary file of the history, or None
    history,        \* history[s]: the operations the history file holds
    shutdown,       \* "up", "disposed", "drained"
    awaited         \* operations the drain waits for

scheduler == <<flight, soft, controllers, aborted, status>>
histories == <<observed, temp, history>>
closing == <<shutdown, awaited>>
schedulerVars == <<place, on, scheduler, cancelled, outcome, histories, closing>>

Place == {"new", "joined", "behind", "work", "read", "write", "rename", "done"}
Settled == {"completed", "failed", "cancelled"}
HistoryFile == {NoRequest} \cup SUBSET Request

SchedulerTypeOK ==
    /\ place \in [Request -> Place]
    /\ on \in [Request -> Request \cup {NoRequest}]
    /\ flight \in [Session -> Request \cup {NoRequest}]
    /\ soft \in 0..Cardinality(Request)
    /\ controllers \cup aborted \cup cancelled \cup awaited \subseteq Request
    /\ status \in [Request -> Settled \cup {"none", "running", "deferred"}]
    /\ outcome \in [Request -> Settled \cup {"none", "deferred"}]
    /\ observed \in [Request -> SUBSET Request]
    /\ temp \in [Session -> HistoryFile]
    /\ history \in [Session -> SUBSET Request]
    /\ shutdown \in {"up", "disposed", "drained"}

SchedulerInit ==
    /\ place = [r \in Request |-> "new"]
    /\ on = [r \in Request |-> NoRequest]
    /\ flight = [s \in Session |-> NoRequest]
    /\ soft = 0
    /\ controllers = {} /\ aborted = {} /\ cancelled = {} /\ awaited = {}
    /\ status = [r \in Request |-> "none"]
    /\ outcome = [r \in Request |-> "none"]
    /\ observed = [r \in Request |-> {}]
    /\ temp = [s \in Session |-> NoRequest]
    /\ history = [s \in Session |-> {}]
    /\ shutdown = "up"

-----------------------------------------------------------------------------
(* request()                                                               *)

Owner(r) == flight[SessionOf[r]]

PutOff(r) ==
    /\ place' = [place EXCEPT ![r] = "done"]
    /\ on' = [on EXCEPT ![r] = NoRequest]
    /\ status' = [status EXCEPT ![r] = "deferred"]
    /\ outcome' = [outcome EXCEPT ![r] = "deferred"]
    /\ UNCHANGED <<flight, soft, controllers, aborted, cancelled, histories, closing>>

Await(r, p) ==
    /\ place' = [place EXCEPT ![r] = p]
    /\ on' = [on EXCEPT ![r] = Owner(r)]
    /\ UNCHANGED <<scheduler, cancelled, outcome, histories, closing>>

StartFlight(r) ==
    /\ place' = [place EXCEPT ![r] = "work"]
    /\ on' = [on EXCEPT ![r] = NoRequest]
    /\ flight' = [flight EXCEPT ![SessionOf[r]] = r]
    /\ soft' = IF r \in Hard THEN soft ELSE soft + 1
    /\ controllers' = controllers \cup {r}
    /\ aborted' = IF r \in cancelled THEN aborted \cup {r} ELSE aborted
    /\ status' = [status EXCEPT ![r] = "running"]
    /\ UNCHANGED <<cancelled, outcome, histories, closing>>

Busy(r) == r \notin Hard /\ soft >= SoftLimit
\* A hard request behind a soft operation waits for it, then asks again.
Coalesces(r) == Owner(r) \in Hard \/ r \notin Hard

Ask(r) ==
    CASE shutdown # "up" -> PutOff(r)
      [] shutdown = "up" /\ Owner(r) # NoRequest -> Await(r, IF Coalesces(r) THEN "joined" ELSE "behind")
      [] OTHER -> IF Busy(r) THEN PutOff(r) ELSE StartFlight(r)

Submit(r) == place[r] = "new" /\ Ask(r)

\* The promise of an operation resolves after its finally block.
Resolved(o) == place[o] = "done"
Again(r) == place[r] = "behind" /\ Resolved(on[r]) /\ Ask(r)

JoinFlight(r) ==
    /\ place[r] = "joined" /\ Resolved(on[r])
    /\ place' = [place EXCEPT ![r] = "done"]
    /\ on' = [on EXCEPT ![r] = NoRequest]
    /\ outcome' = [outcome EXCEPT ![r] = status[on[r]]]
    /\ UNCHANGED <<scheduler, cancelled, histories, closing>>

-----------------------------------------------------------------------------
(* runOperation()                                                          *)

ReleaseSlot(o) == soft' = IF o \in Hard THEN soft ELSE soft - 1
Clear_Never(o) == flight' = flight
Clear(o) == flight' = [flight EXCEPT ![SessionOf[o]] = IF @ = o THEN NoRequest ELSE @]

Verdict_RunsOn(o, s) == s
Verdict(o, s) == IF o \in aborted THEN "cancelled" ELSE s

\* The callback returned or threw; the finally block up to its first await.
End(o, s) ==
    /\ place[o] = "work"
    /\ place' = [place EXCEPT ![o] = "read"]
    /\ status' = [status EXCEPT ![o] = Verdict(o, s)]
    /\ controllers' = controllers \ {o}
    /\ ReleaseSlot(o)
    /\ Clear(o)
    /\ UNCHANGED <<on, aborted, cancelled, outcome, histories, closing>>

ResolveFlight(o) ==
    /\ place' = [place EXCEPT ![o] = "done"]
    /\ outcome' = [outcome EXCEPT ![o] = status[o]]
    /\ UNCHANGED <<on, scheduler, cancelled, closing>>

\* CompactionOperationStore.append: it reads the file, writes a temporary file
\* that every append of the session shares, and renames it.
ReadHistory(o) ==
    /\ place[o] = "read"
    /\ observed' = [observed EXCEPT ![o] = history[SessionOf[o]]]
    /\ place' = [place EXCEPT ![o] = "write"]
    /\ UNCHANGED <<on, scheduler, cancelled, outcome, temp, history, closing>>

WriteTemp(o) ==
    /\ place[o] = "write"
    /\ temp' = [temp EXCEPT ![SessionOf[o]] = observed[o] \cup {o}]
    /\ place' = [place EXCEPT ![o] = "rename"]
    /\ UNCHANGED <<on, scheduler, cancelled, outcome, observed, history, closing>>

\* A rename without a file to rename throws, which is logged.
RenameTemp(o) ==
    LET s == SessionOf[o] IN
    /\ place[o] = "rename"
    /\ history' = [history EXCEPT ![s] = IF temp[s] = NoRequest THEN @ ELSE temp[s]]
    /\ temp' = [temp EXCEPT ![s] = NoRequest]
    /\ UNCHANGED observed
    /\ ResolveFlight(o)

-----------------------------------------------------------------------------
(* Cancellation and shutdown                                               *)

\* The signal of a run: only the request that started the operation is linked
\* to its controller.
CancelRun(r) ==
    /\ r \in Cancellable \ cancelled /\ place[r] # "done"
    /\ cancelled' = cancelled \cup {r}
    /\ aborted' = IF r \in controllers THEN aborted \cup {r} ELSE aborted
    /\ UNCHANGED <<place, on, flight, soft, controllers, status, outcome, histories, closing>>

\* Runner.shutdown: dispose(), then drain() in the same turn.
Dispose_Aborts == aborted' = aborted \cup controllers
Awaited == {flight[s] : s \in Session} \ {NoRequest}
Shutdown ==
    /\ shutdown = "up"
    /\ shutdown' = "disposed"
    /\ Dispose_Aborts
    /\ awaited' = Awaited
    /\ UNCHANGED <<place, on, flight, soft, controllers, status, cancelled, outcome, histories>>

Drained ==
    /\ shutdown = "disposed"
    /\ \A o \in awaited : Resolved(o)
    /\ shutdown' = "drained"
    /\ UNCHANGED <<place, on, scheduler, cancelled, outcome, histories, awaited>>

-----------------------------------------------------------------------------
Serve(r) == Again(r) \/ JoinFlight(r) \/ ReadHistory(r) \/ WriteTemp(r) \/ RenameTemp(r)
Work(o) == \E s \in {"completed", "failed"} : End(o, s)

SchedulerNext ==
    \/ \E r \in Request : Submit(r) \/ CancelRun(r) \/ Serve(r) \/ Work(r)
    \/ Shutdown \/ Drained

SchedulerSpec == SchedulerInit /\ [][SchedulerNext]_schedulerVars
\* Promises resolve, and an operation ends: its model request has a deadline.
SchedulerFairness == (\A r \in Request : WF_schedulerVars(Serve(r) \/ Work(r))) /\ WF_schedulerVars(Drained)

-----------------------------------------------------------------------------
(* Properties                                                              *)

WorkOf(s) == {o \in Request : SessionOf[o] = s /\ place[o] = "work"}

\* "One session has at most one compaction flight", and no more soft operations
\* are at work than the limit allows, whatever joined, waited or was put off.
SingleFlight ==
    /\ \A s \in Session : Cardinality(WorkOf(s)) <= 1
    /\ Cardinality({o \in Request \ Hard : place[o] = "work"}) <= SoftLimit

\* "Hard/explicit pressure must run": a hard request is answered by a hard
\* operation of its session that ran after it came, unless its runner shut down.
HardRuns ==
    \A r \in Hard : place[r] = "done" /\ shutdown = "up" =>
        \E o \in Hard : SessionOf[o] = SessionOf[r] /\ status[o] = outcome[r] /\ status[o] \in Settled

\* A cancelled operation is never reported as finished: its owner decides.
CancelledIsReported ==
    \A o \in Request : place[o] = "done" /\ o \in aborted => outcome[o] = "cancelled"

\* Once the runner goes on to close its stores, no operation is at work.
DrainedIsQuiet == shutdown = "drained" => \A o \in Request : place[o] # "work"

\* All of them: one operation of a session at a time, and no more soft ones than
\* the limit; a hard request is answered by a hard operation; what was cancelled is
\* not reported as finished; nobody works once the stores close.
CompactionIsOrderly ==
    SchedulerTypeOK /\ SingleFlight /\ HardRuns /\ CancelledIsReported /\ DrainedIsQuiet

\* Every request is answered: nobody waits for ever behind another.
RequestsAreAnswered == \A r \in Request : []<>(place[r] \in {"new", "done"})

(* What the comments say and the code does not do.                         *)

\* The drain waits for owned operations to settle, their history included.
DrainedIsSaved ==
    shutdown = "drained" => \A o \in Request : place[o] \notin {"read", "write", "rename"}

\* The history of a session holds every operation that settled.
HistoryHolds ==
    \A o \in Request : place[o] = "done" /\ status[o] \in Settled => o \in history[SessionOf[o]]

\* A hard request whose own run goes on is not cancelled by another run.
CancelledBySelf ==
    \A r \in Hard : outcome[r] = "cancelled" /\ shutdown = "up" => r \in cancelled

\* Aborting a request aborts the operation it started or joined.
AbortReaches ==
    [][\A r \in cancelled' \ cancelled : place[r] = "joined" /\ place[on[r]] = "work" => on[r] \in aborted']_schedulerVars
=============================================================================
