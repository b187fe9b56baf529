--------------------------- MODULE DurableAppend ---------------------------
(***************************************************************************)
(* Appending an event to the durable stream of one run, by several kernels *)
(* at once: DurableHarnessKernel.append over DurableEventStore.append.     *)
(*                                                                         *)
(* A kernel (the live runner, a recovery pass, another process) reads the  *)
(* stream, reduces it, checks the transition against what it read, perhaps *)
(* reserves the reply, and then asks the store to append at the cursor it  *)
(* read.  Anything may happen between these steps.  A kernel serialises    *)
(* its own appends (runTails), so each has at most one in flight; the      *)
(* store's append is one step, for it runs under the partition's lock.     *)
(*                                                                         *)
(* The module implements DurableKernel: KernelSpec.                        *)
(***************************************************************************)
EXTENDS DurableKernel, Sequences, FiniteSets

CONSTANTS
    Appender,       \* kernels that append to the run
    Input,          \* what they are asked to append: records [key, event]
    MaxAttempts,    \* optimistic attempts of one append (3 in the code)
    MaxEvents       \* events a stream may hold (maxEventsPerRun)

ASSUME InputAssumption ==
    \A i \in Input : DOMAIN i = {"key", "event"} /\ i.event \in Event
ASSUME BoundAssumption == MaxAttempts \in Nat \ {0} /\ MaxEvents \in Nat

VARIABLES
    log,        \* the stored events, as appended
    claimed,    \* replies this run holds in the session's reply registry
    op          \* op[a]: the append kernel a is executing, or its result

appendVars == <<run, refused, log, claimed, op>>

-----------------------------------------------------------------------------
(* The append in flight.  key stands for the event id and the idempotency  *)
(* key together.  base is the cursor the append expects; Unchecked when it *)
(* found its own event already stored.                                     *)

InFlight == {"read", "reserve", "commit"}
Result == {"appended", "duplicate", "rejected"}
Unchecked == MaxEvents + 1

NoOp == [phase |-> "idle"]
Operation ==
    [phase : InFlight \cup Result, input : Input, attempt : 1..MaxAttempts,
     base : 0..Unchecked, reserved : BOOLEAN]

Stored_LastOnly(key) == {n \in DOMAIN log : n = Len(log) /\ log[n].key = key}
Stored(key) == {n \in DOMAIN log : log[n].key = key}

Finish(a, result) == op' = [op EXCEPT ![a].phase = result]

\* A task outcome must be repeated with the same content, and its key must not
\* belong to another event.
OutcomeIdentityKept(i) ==
    \A n \in Stored(i.key) :
        "task_outcome_settled" \in {i.event.type, log[n].event.type} => log[n] = i

-----------------------------------------------------------------------------
AppendInit ==
    /\ Init
    /\ log = << >>
    /\ claimed = {}
    /\ op = [a \in Appender |-> NoOp]

\* A caller asks for an append; the previous one of this kernel has settled.
Submit(a, i) ==
    /\ op[a].phase \notin InFlight
    /\ op' = [op EXCEPT ![a] = [phase |-> "read", input |-> i, attempt |-> 1,
                                base |-> 0, reserved |-> FALSE]]
    /\ UNCHANGED <<run, refused, log, claimed>>

NeedsReservation_Skipped(o) == FALSE
NeedsReservation(o) == o.input.event.type = "final_reply_settled" /\ ~o.reserved

\* Read the stream, reduce it and check the event against the projection.  An
\* event that is already stored skips the check and the expected cursor.
ReadStream(a) ==
    LET o == op[a]
        known == Stored(o.input.key) # {}
        legal == refused = "none" /\ IF known THEN OutcomeIdentityKept(o.input)
                                              ELSE ValidTransition(run, o.input.event)
    IN  /\ o.phase = "read"
        /\ \/ ~legal /\ Finish(a, "rejected")
           \/ legal /\ known
              /\ op' = [op EXCEPT ![a].phase = "commit", ![a].base = Unchecked]
           \/ legal /\ ~known
              /\ op' = [op EXCEPT ![a].phase = IF NeedsReservation(o) THEN "reserve"
                                                                       ELSE "commit",
                                  ![a].base = Len(log)]
        /\ UNCHANGED <<run, refused, log, claimed>>

\* The session's registry grants the reply to this run's settlement id, as
\* often as it asks, or has given its fingerprint to another run.
ReserveReply(a) ==
    /\ op[a].phase = "reserve"
    /\ \/ /\ claimed' = claimed \cup {op[a].input.event.reply}
          /\ op' = [op EXCEPT ![a].phase = "commit", ![a].reserved = TRUE]
       \/ /\ op[a].input.event.reply \notin claimed
          /\ Finish(a, "rejected")
          /\ UNCHANGED claimed
    /\ UNCHANGED <<run, refused, log>>

\* Only a moved cursor is retried, and only so often.
AfterConflict_OneMore(o) ==
    IF o.attempt <= MaxAttempts
    THEN [o EXCEPT !.phase = "read", !.attempt = @ + 1]
    ELSE [o EXCEPT !.phase = "rejected"]
AfterConflict(o) ==
    IF o.attempt < MaxAttempts
    THEN [o EXCEPT !.phase = "read", !.attempt = @ + 1]
    ELSE [o EXCEPT !.phase = "rejected"]

CursorMoved_Never(o) == FALSE
CursorMoved(o) == o.base # Unchecked /\ o.base # Len(log)

StoredResult_AsNew(i) == "appended"
StoredResult(i) == IF \E n \in Stored(i.key) : log[n] = i THEN "duplicate" ELSE "rejected"

\* DurableEventStore.append finds the event stored: a duplicate when the
\* content is the same, else an identity conflict, which append throws on.
StoreKnows(a) ==
    LET o == op[a] IN
    /\ o.phase = "commit"
    /\ Stored(o.input.key) # {}
    /\ Finish(a, StoredResult(o.input))
    /\ UNCHANGED <<run, refused, log, claimed>>

\* The stream has grown since it was read.
StoreConflicts(a) ==
    LET o == op[a] IN
    /\ o.phase = "commit"
    /\ Stored(o.input.key) = {}
    /\ CursorMoved(o)
    /\ op' = [op EXCEPT ![a] = AfterConflict(o)]
    /\ UNCHANGED <<run, refused, log, claimed>>

\* The stream is full.
StoreFull(a) ==
    LET o == op[a] IN
    /\ o.phase = "commit"
    /\ Stored(o.input.key) = {}
    /\ ~CursorMoved(o)
    /\ Len(log) >= MaxEvents
    /\ Finish(a, "rejected")
    /\ UNCHANGED <<run, refused, log, claimed>>

\* The lock times out or the write fails: nothing is stored.
StoreFails(a) ==
    /\ op[a].phase = "commit"
    /\ Finish(a, "rejected")
    /\ UNCHANGED <<run, refused, log, claimed>>

\* The event is written at the next cursor.  Every reader that reduces the
\* stream from now on computes the new projection, or throws.
StoreAppends(a) ==
    LET o == op[a]
        e == o.input.event
    IN  /\ o.phase = "commit"
        /\ Stored(o.input.key) = {}
        /\ ~CursorMoved(o)
        /\ Len(log) < MaxEvents
        /\ log' = Append(log, o.input)
        /\ IF Reducible(run, e) THEN run' = Apply(run, e) /\ UNCHANGED refused
                                ELSE refused' = e.type /\ UNCHANGED run
        /\ Finish(a, "appended")
        /\ UNCHANGED claimed

\* The kernel's process dies; its caller may ask again in the next one.
Crash(a) ==
    /\ op[a].phase # "idle"
    /\ op' = [op EXCEPT ![a] = NoOp]
    /\ UNCHANGED <<run, refused, log, claimed>>

Work(a) ==
    \/ ReadStream(a)
    \/ ReserveReply(a)
    \/ StoreKnows(a)
    \/ StoreConflicts(a)
    \/ StoreFull(a)
    \/ StoreAppends(a)

AppendNext ==
    \E a \in Appender :
        \/ \E i \in Input : Submit(a, i)
        \/ Work(a)
        \/ StoreFails(a)
        \/ Crash(a)

AppendSpec == AppendInit /\ [][AppendNext]_appendVars

\* Every append in flight is a promise chain that runs on: its steps are
\* awaits of bounded local I/O, nothing else has to happen for them.
AppendFairness == \A a \in Appender : WF_appendVars(Work(a))

-----------------------------------------------------------------------------
(* Properties                                                              *)

\* Cursors, attempts and results stay in their ranges; the third attempt is
\* the last one.
AppendTypeOK ==
    /\ TypeOK
    /\ log \in Seq(Input) /\ Len(log) <= MaxEvents
    /\ claimed \subseteq Reply
    /\ op \in [Appender -> Operation \cup {NoOp}]

\* However the kernels interleave, crash and retry, the projection moves only by
\* events that were legal where they landed: DurableKernel's specification.
KernelSpec == Spec

\* No identity is stored twice, whoever appended it.
IdentityStoredOnce ==
    \A m, n \in DOMAIN log : log[m].key = log[n].key => m = n

\* A kernel that reports success has its very event in the stream, and at most
\* one kernel reports that it was the one to append it (recovery counts its
\* actions by that).
AcknowledgedOnce ==
    \A a \in Appender : op[a].phase \in {"appended", "duplicate"} =>
        /\ \E n \in DOMAIN log : log[n] = op[a].input
        /\ \A b \in Appender \ {a} :
              ~ (op[a].phase = "appended" /\ op[b].phase = "appended"
                 /\ op[a].input.key = op[b].input.key)

\* The stream never carries a settled reply whose fingerprint this run does not
\* hold in the session's registry: reserve first, then append.
SettledReplyReserved == run.replyState = "settled" => run.reply \in claimed

\* Every append returns: conflicts are retried a bounded number of times with a
\* fresh cursor.
AppendReturns == \A a \in Appender : []<>(op[a].phase \notin InFlight)
=============================================================================
