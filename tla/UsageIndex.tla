----------------------------- MODULE UsageIndex -----------------------------
(***************************************************************************)
(* The daily usage index, derived from the event streams of the runs: the  *)
(* append of a usage event, the pending mark that precedes it, and the     *)
(* service that indexes pending runs, walks the history in bounded steps   *)
(* and acknowledges what it has saved.                                     *)
(*                                                                         *)
(* A run's stream is a directory of event files, here their number; its    *)
(* revision is that number.  A run has one writer, in the process of the   *)
(* service or in another; one that owns its run appends without the lock   *)
(* of the directory.  The service serializes its operations, and an append *)
(* and an acknowledgement of one process are serialized per run.           *)
(***************************************************************************)
EXTENDS Naturals

CONSTANTS
    MaxRun,         \* runs are 1..MaxRun, in the order of their directories
    MaxEvents,      \* bound on the events of a run
    Budget,         \* runs a step of the backfill looks at
    SameProcess,    \* the writers live in the process of the service
    Trusted,        \* the writers own their runs
    History,        \* runs with an event from before the marks existed
    UsageFaultKind, \* subset of {"persist", "read", "corrupt", "crash"}
    MaxUsageFaults,
    MaxUsageRequests,   \* bound on refreshes, backfills and cancellations
    NoRun

UsageAssumption ==
    /\ {MaxRun, Budget} \subseteq Nat \ {0}
    /\ {MaxEvents, MaxUsageFaults, MaxUsageRequests} \subseteq Nat
    /\ {SameProcess, Trusted} \subseteq BOOLEAN
    /\ History \subseteq 1..MaxRun /\ (History # {} => MaxEvents > 0)
    /\ NoRun \notin 1..MaxRun /\ NoRun \notin {"append", "ack"}
ASSUME UsageConstants == UsageAssumption

VARIABLES
    stored,     \* stored[r]: events of run r
    write,      \* write[r]: the append under way
    pending,    \* runs with a usage-pending file
    changed,    \* runs the process of the service knows to have changed
    locked,     \* locked[r]: who holds the lock of the directory
    corrupt,    \* runs whose events cannot be read
    mem,        \* mem[r]: what the service's index says of run r
    disk,       \* the saved index, with the progress of the backfill
    service,    \* the service's operation
    loop,       \* the backfill: "off", "first", "running" (to be noted) or "armed"
    cancelling, \* a cancellation waits for its turn
    status, cursor,     \* progress of the backfill
    usageFaults, usageRequests

streams == <<stored, write, pending, changed, locked, corrupt>>
progress == <<status, cursor>>
usageVars == <<streams, mem, disk, service, loop, cancelling, progress, usageFaults, usageRequests>>

Run == 1..MaxRun
Unknown == [revision |-> 0, count |-> 0]
Record == [revision : 0..MaxEvents, count : 0..MaxEvents]
AppendPhase == {"idle", "begun", "marked"}
ServicePhase == {"idle", "revision", "read", "save", "ack", "remove"}
Resting == [at |-> "idle"]

Old(r) == IF r \in History THEN 1 ELSE 0
Existing == {r \in Run : stored[r] > 0}
Least(S) == CHOOSE r \in S : \A q \in S : r <= q
\* The next run of the listing, where a pass goes on.
NextAfter(r) == IF \E q \in Existing : q > r THEN Least({q \in Existing : q > r}) ELSE NoRun

UsageFault(kind) ==
    kind \in UsageFaultKind /\ usageFaults < MaxUsageFaults /\ usageFaults' = usageFaults + 1
Asked == usageRequests < MaxUsageRequests /\ usageRequests' = usageRequests + 1

-----------------------------------------------------------------------------
UsageInit ==
    /\ stored = [r \in Run |-> Old(r)]
    /\ write = [r \in Run |-> "idle"]
    /\ pending = {} /\ changed = {} /\ corrupt = {}
    /\ locked = [r \in Run |-> NoRun]
    /\ mem = [r \in Run |-> Unknown]
    /\ disk = [runs |-> mem, status |-> "idle", cursor |-> NoRun]
    /\ service = Resting /\ loop = "off" /\ cancelling = FALSE
    /\ status = "idle" /\ cursor = NoRun
    /\ usageFaults = 0 /\ usageRequests = 0

Acking(r) == service.at = "remove" /\ service.run = r

-----------------------------------------------------------------------------
(* The append: lock, mark, write.                                          *)
TakesLock == ~Trusted

StartAppend(r) ==
    /\ write[r] = "idle" /\ stored[r] < MaxEvents
    /\ SameProcess => ~Acking(r)
    /\ IF TakesLock THEN locked[r] = NoRun /\ locked' = [locked EXCEPT ![r] = "append"]
       ELSE UNCHANGED locked
    /\ write' = [write EXCEPT ![r] = "begun"]
    /\ UNCHANGED <<stored, pending, changed, corrupt, mem, disk, service, loop, cancelling, progress,
                   usageFaults, usageRequests>>

\* The mark is stored before the event, so that a crash cannot hide the event.
Mark(r) ==
    /\ write[r] = "begun"
    /\ write' = [write EXCEPT ![r] = "marked"]
    /\ pending' = pending \cup {r}
    /\ changed' = IF SameProcess THEN changed \cup {r} ELSE changed
    /\ UNCHANGED <<stored, locked, corrupt, mem, disk, service, loop, cancelling, progress, usageFaults,
                   usageRequests>>

Unlocked(r, who) == [locked EXCEPT ![r] = IF @ = who THEN NoRun ELSE @]
WriteEvent(r) ==
    /\ write[r] = "marked"
    /\ write' = [write EXCEPT ![r] = "idle"]
    /\ stored' = [stored EXCEPT ![r] = @ + 1]
    /\ locked' = Unlocked(r, "append")
    /\ UNCHANGED <<pending, changed, corrupt, mem, disk, service, loop, cancelling, progress, usageFaults,
                   usageRequests>>

Corrupt(r) ==
    /\ r \in Existing \ corrupt /\ UsageFault("corrupt")
    /\ corrupt' = corrupt \cup {r}
    /\ UNCHANGED <<stored, write, pending, changed, locked, mem, disk, service, loop, cancelling,
                   progress, usageRequests>>

-----------------------------------------------------------------------------
(* One run is indexed: its revision is read first, then its events.        *)

\* Where an operation goes on when it is done with a run: the next run, or the
\* save.  A step of the backfill stops at its budget.
Continue(o) ==
    IF o.kind = "sync"
    THEN IF o.todo = {} THEN [o EXCEPT !.at = "save"]
         ELSE [o EXCEPT !.at = "revision", !.run = Least(o.todo), !.todo = @ \ {Least(o.todo)}]
    ELSE IF o.left = 0 \/ NextAfter(o.run) = NoRun
         THEN [o EXCEPT !.at = "save", !.run = NextAfter(o.run)]
         ELSE [o EXCEPT !.at = "revision", !.run = NextAfter(o.run), !.left = @ - 1]

ReadRevision ==
    /\ service.at = "revision"
    /\ service' = IF stored[service.run] \in {0, mem[service.run].revision} THEN Continue(service)
             ELSE [service EXCEPT !.at = "read", !.revision = stored[service.run]]
    /\ UNCHANGED <<streams, mem, disk, loop, cancelling, progress, usageFaults, usageRequests>>

Indexed(r, revision) == [revision |-> revision, count |-> stored[r]]
ReadEvents ==
    /\ service.at = "read" /\ service.run \notin corrupt
    /\ mem' = [mem EXCEPT ![service.run] = Indexed(service.run, service.revision)]
    /\ service' = Continue(service)
    /\ UNCHANGED <<streams, disk, loop, cancelling, progress, usageFaults, usageRequests>>

\* A run that cannot be read: the backfill notes the failure and goes on, the
\* synchronization ends.
Failed(o) == IF o.kind = "sync" THEN Resting ELSE Continue([o EXCEPT !.failed = TRUE])
ReadFails ==
    /\ service.at = "read"
    /\ IF service.run \in corrupt THEN UNCHANGED usageFaults ELSE UsageFault("read")
    /\ service' = Failed(service)
    /\ UNCHANGED <<streams, mem, disk, loop, cancelling, progress, usageRequests>>

-----------------------------------------------------------------------------
(* Synchronization of the pending runs, before every query.                *)

\* The runs known to have changed, and those whose mark is on the disk.
Listed == pending \cup changed

Synchronize ==
    LET runs == Listed IN
    /\ service.at = "idle" /\ runs # {}
    /\ service' = [kind |-> "sync", at |-> "revision", run |-> Least(runs),
              todo |-> runs \ {Least(runs)}, runs |-> runs, revision |-> 0]
    /\ UNCHANGED <<streams, mem, disk, loop, cancelling, progress, usageFaults, usageRequests>>

Saved == [runs |-> mem, status |-> status, cursor |-> cursor]
\* Only runs whose record has a revision are acknowledged, and each with it.
Acknowledge(runs) ==
    LET todo == {r \in runs : mem[r].revision > 0} IN
    IF todo = {} THEN Resting
    ELSE [service EXCEPT !.at = "ack", !.run = Least(todo), !.todo = todo \ {Least(todo)}]

SaveSync ==
    /\ service.at = "save" /\ service.kind = "sync"
    /\ \/ disk' = Saved /\ service' = Acknowledge(service.runs) /\ UNCHANGED usageFaults
       \/ UsageFault("persist") /\ service' = Resting /\ UNCHANGED disk
    /\ UNCHANGED <<streams, mem, loop, cancelling, progress, usageRequests>>

AckNext ==
    IF service.todo = {} THEN Resting
    ELSE [service EXCEPT !.at = "ack", !.run = Least(service.todo),
                         !.todo = @ \ {Least(service.todo)}]

CheckRevision_Skipped(r) == TRUE
\* Under the lock: the mark goes if the run is still at the indexed revision.
CheckRevision(r) == stored[r] = mem[r].revision
AckCheck ==
    LET r == service.run IN
    /\ service.at = "ack"
    /\ locked[r] = NoRun
    /\ SameProcess => write[r] = "idle"
    /\ IF CheckRevision(r)
       THEN service' = [service EXCEPT !.at = "remove"] /\ locked' = [locked EXCEPT ![r] = "ack"]
       ELSE service' = AckNext /\ UNCHANGED locked
    /\ UNCHANGED <<stored, write, pending, changed, corrupt, mem, disk, loop, cancelling, progress,
                   usageFaults, usageRequests>>

AckRemove ==
    /\ service.at = "remove"
    /\ pending' = pending \ {service.run}
    /\ changed' = changed \ {service.run}
    /\ locked' = Unlocked(service.run, "ack")
    /\ service' = AckNext
    /\ UNCHANGED <<stored, write, corrupt, mem, disk, loop, cancelling, progress, usageFaults,
                   usageRequests>>
-----------------------------------------------------------------------------
(* The backfill: a step walks on from the cursor and saves where it is.    *)

\* A pass that is over, or a restart, begins at the first run.
BeginStep(restart, byLoop) ==
    LET from == IF restart \/ cursor = NoRun THEN 1 ELSE cursor
        first == IF from \in Existing \/ NextAfter(from) = NoRun THEN from ELSE NextAfter(from)
    IN  /\ service.at = "idle"
        /\ service' = IF Existing = {}
                 THEN [kind |-> "pass", at |-> "save", run |-> NoRun, left |-> 0, failed |-> FALSE,
                       revision |-> 0, byLoop |-> byLoop]
                 ELSE [kind |-> "pass", at |-> "revision", run |-> first, left |-> Budget - 1,
                       failed |-> FALSE, revision |-> 0, byLoop |-> byLoop]

Refresh ==
    /\ Asked
    /\ BeginStep(FALSE, FALSE)
    /\ UNCHANGED <<streams, mem, disk, loop, cancelling, progress, usageFaults>>

StatusAfter(o) == IF o.failed THEN "failed" ELSE IF o.run = NoRun THEN "complete" ELSE "partial"
SaveStep ==
    /\ service.at = "save" /\ service.kind = "pass"
    /\ cursor' = service.run
    /\ status' = StatusAfter(service)
    /\ \/ disk' = [runs |-> mem, status |-> status', cursor |-> cursor'] /\ UNCHANGED usageFaults
       \/ UsageFault("persist") /\ UNCHANGED disk
    /\ loop' = IF ~service.byLoop THEN loop
               ELSE CASE loop = "first" /\ cursor' # NoRun -> "running"
                      [] loop = "armed" /\ cursor' # NoRun -> "armed"
                      [] OTHER -> "off"
    /\ service' = Resting
    /\ UNCHANGED <<streams, mem, cancelling, usageRequests>>

\* A start or a cancellation takes the token from the loop before it.
Orphaned ==
    IF service.at # "idle" /\ service.kind = "pass" THEN [service EXCEPT !.byLoop = FALSE] ELSE service

StartBackfill ==
    /\ Asked
    /\ loop' = "first"
    /\ service' = Orphaned
    /\ UNCHANGED <<streams, mem, disk, cancelling, progress, usageFaults>>

\* The first step runs at once; none if the history is covered already.
FirstStep ==
    /\ loop = "first" /\ ~cancelling
    /\ IF status = "complete" THEN service.at = "idle" /\ loop' = "off" /\ UNCHANGED service
       ELSE BeginStep(cursor = NoRun, TRUE) /\ UNCHANGED loop
    /\ UNCHANGED <<streams, mem, disk, cancelling, progress, usageFaults, usageRequests>>

NoteRunning ==
    /\ loop = "running" /\ service.at = "idle"
    /\ loop' = "armed"
    /\ status' = "running"
    /\ \/ disk' = [Saved EXCEPT !.status = "running"] /\ UNCHANGED usageFaults
       \/ UsageFault("persist") /\ UNCHANGED disk
    /\ UNCHANGED <<streams, mem, service, cancelling, cursor, usageRequests>>

TimerStep ==
    /\ loop = "armed"
    /\ BeginStep(FALSE, TRUE)
    /\ UNCHANGED <<streams, mem, disk, loop, cancelling, progress, usageFaults, usageRequests>>

Cancel ==
    /\ Asked
    /\ loop' = "off"
    /\ cancelling' = TRUE
    /\ service' = Orphaned
    /\ UNCHANGED <<streams, mem, disk, progress, usageFaults>>

Cancelled ==
    /\ cancelling /\ service.at = "idle"
    /\ cancelling' = FALSE
    /\ status' = "cancelled"
    /\ \/ disk' = [Saved EXCEPT !.status = "cancelled"] /\ UNCHANGED usageFaults
       \/ UsageFault("persist") /\ UNCHANGED disk
    /\ UNCHANGED <<streams, mem, service, loop, cursor, usageRequests>>

-----------------------------------------------------------------------------
(* The process of the service starts again; its writers go with it.        *)
Restart ==
    LET was == IF disk.status = "running" THEN "cancelled" ELSE disk.status IN
    /\ UsageFault("crash")
    /\ mem' = disk.runs
    /\ status' = was
    /\ cursor' = IF was \in {"partial", "cancelled"} THEN disk.cursor ELSE NoRun
    /\ changed' = {} /\ service' = Resting /\ loop' = "off" /\ cancelling' = FALSE
    /\ write' = IF SameProcess THEN [r \in Run |-> "idle"] ELSE write
    /\ locked' = [r \in Run |-> IF locked[r] = "ack" \/ SameProcess THEN NoRun ELSE locked[r]]
    /\ UNCHANGED <<stored, pending, corrupt, disk, usageRequests>>

\* Another process dies in the middle of an append.
WriterDies(r) ==
    /\ ~SameProcess /\ write[r] # "idle" /\ UsageFault("crash")
    /\ write' = [write EXCEPT ![r] = "idle"]
    /\ locked' = Unlocked(r, "append")
    /\ UNCHANGED <<stored, pending, changed, corrupt, mem, disk, service, loop, cancelling, progress,
                   usageRequests>>

ServiceStep ==
    \/ ReadRevision \/ ReadEvents \/ SaveSync \/ AckCheck \/ AckRemove \/ SaveStep
    \/ FirstStep \/ NoteRunning \/ TimerStep \/ Cancelled
UsageNext ==
    \/ Synchronize \/ ServiceStep \/ ReadFails \/ Refresh \/ StartBackfill \/ Cancel \/ Restart
    \/ \E r \in Run : StartAppend(r) \/ Mark(r) \/ WriteEvent(r) \/ Corrupt(r) \/ WriterDies(r)

UsageSpec == UsageInit /\ [][UsageNext]_usageVars

\* An append that has begun ends; every operation of the service ends; the
\* application queries the usage again and again.
UsageFairness ==
    /\ \A r \in Run : WF_usageVars(Mark(r)) /\ WF_usageVars(WriteEvent(r))
    /\ WF_usageVars(ServiceStep \/ ReadFails) /\ WF_usageVars(Synchronize)

-----------------------------------------------------------------------------
(* Properties.                                                             *)

\* Every run's stream, marks, lock and record, in memory and on disk, are in range.
UsageTypeOK ==
    /\ stored \in [Run -> 0..MaxEvents] /\ write \in [Run -> AppendPhase]
    /\ pending \cup changed \cup corrupt \subseteq Run
    /\ locked \in [Run -> {NoRun, "append", "ack"}]
    /\ mem \in [Run -> Record]
    /\ disk \in [runs : [Run -> Record], cursor : Run \cup {NoRun},
                 status : {"idle", "partial", "complete", "failed", "running", "cancelled"}]
    /\ service.at \in ServicePhase
    /\ loop \in {"off", "first", "running", "armed"}
    /\ cursor \in Run \cup {NoRun}
    /\ cancelling \in BOOLEAN

\* An event that is not in the saved index has a pending mark: a crash at any
\* moment leaves it to be found.
NoReceiptIsHidden ==
    \A r \in Run :
        stored[r] > Old(r) /\ disk.runs[r].count < stored[r] => r \in pending

\* An index record never claims a revision whose events it has not counted, nor
\* counts more than the stream holds: what is skipped as unchanged is complete.
RecordsAreComplete ==
    \A r \in Run : \A i \in {mem[r], disk.runs[r]} :
        i.revision <= i.count /\ i.count <= stored[r]

\* All of them.
UsageIsCounted == UsageTypeOK /\ RecordsAreComplete /\ NoReceiptIsHidden

\* A backfill that is complete has counted, of every run, at least what the
\* saved index would skip, and no run of the history is without a record.
CompleteIsCovered ==
    status = "complete" =>
        \A r \in Existing : mem[r].revision > 0 \/ r \in pending \cup changed

\* Every stored event is counted by the saved index, if no run is corrupt.
EventsAreCounted == \A r \in Run : <>[](disk.runs[r].count = stored[r])

\* An event of a run that can be read is counted whatever happens to others.
ReadableAreCounted == \A r \in Run : <>[](r \in corrupt \/ disk.runs[r].count = stored[r])
=============================================================================
