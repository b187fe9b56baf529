---------------------------- MODULE RuntimeQueue ----------------------------
(***************************************************************************)
(* The queue of runtime events of one run: submissions with retries,       *)
(* decision batches with their lease, expiry, snapshots and restores.      *)
(***************************************************************************)
EXTENDS EventQueue

CONSTANTS
    Submission,     \* what clients may submit: records [id, key, type, body, ttl]
    Types,          \* the sets of types a decision may ask for
    MaxSeq,         \* bound on the events admitted
    MaxTime,        \* bound on the clock
    BatchLease,     \* time a batch is reserved
    MaxRestores     \* bound on restores

VARIABLES
    q,
    batch,      \* the open batch, [seqs, openedAt], or None
    now,
    admitted,   \* history: the submissions accepted, by sequence number
    restores

vars == <<q, batch, now, admitted, restores>>

Claimed == IF batch = None THEN {} ELSE batch.seqs

Init ==
    /\ q = EmptyQueue /\ batch = None
    /\ now = 0 /\ admitted = <<>> /\ restores = 0

-----------------------------------------------------------------------------
AppendEvent(s) ==
    LET e == [id |-> s.id, key |-> s.key, type |-> s.type, body |-> s.body, expires |-> now + s.ttl]
        result == Submit(q, e, now, Claimed)
    IN  /\ q.next <= MaxSeq
        /\ q' = result.q
        /\ admitted' = IF result.kind \in {"accepted", "expired"} THEN Append(admitted, s)
                       ELSE admitted
        /\ UNCHANGED <<batch, now, restores>>

LeaseOver == batch # None /\ now - batch.openedAt > BatchLease
Open == IF LeaseOver THEN None ELSE batch
OpenClaims == IF LeaseOver THEN {} ELSE Claimed

OpenDecisionBatch(types) ==
    LET queue == ExpireDue(q, now, OpenClaims)
        taken == Batch(queue, types)
    IN  /\ q' = queue
        /\ batch' = IF Open # None \/ taken = <<>> THEN Open
                    ELSE [seqs |-> {e.seq : e \in ToSet(taken)}, openedAt |-> now]
        /\ UNCHANGED <<now, admitted, restores>>

SettleDecisionBatch(decisions) ==
    /\ batch # None /\ DOMAIN decisions = batch.seqs
    /\ q' = IF LeaseOver THEN q ELSE Settle(q, decisions, now)
    /\ batch' = None
    /\ UNCHANGED <<now, admitted, restores>>

ReleaseDecisionBatch ==
    /\ batch # None /\ batch' = None
    /\ UNCHANGED <<q, now, admitted, restores>>

\* The queue is stored and another run takes it over.
Restore ==
    /\ restores < MaxRestores /\ restores' = restores + 1
    /\ q' = Restored(ExpireDue(q, now, OpenClaims))
    /\ batch' = None
    /\ UNCHANGED <<now, admitted>>

Tick == now < MaxTime /\ now' = now + 1 /\ UNCHANGED <<q, batch, admitted, restores>>

Consumer ==
    \/ \E types \in Types : OpenDecisionBatch(types)
    \/ batch # None /\ \E d \in [batch.seqs -> {"applied", "ignored"}] : SettleDecisionBatch(d)
Next ==
    \/ \E s \in Submission : AppendEvent(s)
    \/ Consumer \/ ReleaseDecisionBatch
    \/ Restore \/ Tick

Spec == Init /\ [][Next]_vars

-----------------------------------------------------------------------------
Status == {"queued", "applied", "ignored", "expired"}

\* The variables hold the values the code gives them.
QueueTypeOK ==
    /\ now \in 0..MaxTime /\ restores \in 0..MaxRestores
    /\ q.next \in 1..MaxSeq + 1 /\ q.cursor \in 0..q.next - 1
    /\ Len(q.events) <= MaxEvents
    /\ \A e \in ToSet(q.events) : e.seq \in 1..q.next - 1 /\ e.status \in Status
    /\ batch = None \/ batch.seqs \subseteq 1..q.next - 1

\* Whatever is pruned, expired or restored, an event that is not decided is
\* still there: every number after the cursor has its record, in order, and
\* none at or before the cursor is queued.
UndecidedAreKept ==
    /\ \A s \in q.cursor + 1 .. q.next - 1 : \E e \in ToSet(q.events) : e.seq = s
    /\ \A e \in Queued(q) : e.seq > q.cursor
    /\ \A i, j \in DOMAIN q.events : i < j => q.events[i].seq < q.events[j].seq

\* A number is given to one submission only, across pruning and restores: the
\* record that carries it is the submission admitted with it.
NumbersAreForever ==
    /\ q.next = Len(admitted) + 1
    /\ \A e \in ToSet(q.events) : e.id = admitted[e.seq].id /\ e.body = admitted[e.seq].body

\* A retried submission is not queued a second time while the first waits, by
\* its identity or by its key.
RetriesAreOne ==
    \A a, b \in ToSet(q.events) :
        a.seq # b.seq => a.id # b.id /\ (a.key = None \/ a.key # b.key)

\* A decision is final: a decided event keeps its outcome until it is pruned,
\* and an event past its time is never applied or ignored.
DecisionsAreFinal ==
    [][\A e \in ToSet(q.events), f \in ToSet(q'.events) :
          e.seq = f.seq /\ e.status # f.status =>
              e.status = "queued" /\ (e.expires <= now => f.status = "expired")]_vars
=============================================================================
