----------------------------- MODULE EventQueue -----------------------------
(***************************************************************************)
(* The queue of a run's runtime events, as a value: its records in the     *)
(* order of their sequence numbers, the next number and the cursor, the    *)
(* last number up to which every event is decided.                         *)
(***************************************************************************)
EXTENDS Integers, Sequences, SequencesExt

CONSTANTS
    MaxEvents,      \* the queue's capacity
    BatchSize,      \* events of a decision batch
    None

EventQueueAssumption == {MaxEvents, BatchSize} \subseteq Nat \ {0}

EmptyQueue == [events |-> <<>>, next |-> 1, cursor |-> 0]
Terminal(e) == e.status # "queued"
IsExpired(e, now) == e.expires <= now
Queued(q) == {e \in ToSet(q.events) : ~Terminal(e)}

AdvanceCursor(q) ==
    LET Settled(s) == \E e \in ToSet(q.events) : e.seq = s /\ Terminal(e)
        reach == {c \in q.cursor .. q.next - 1 : \A s \in q.cursor + 1 .. c : Settled(s)}
    IN  [q EXCEPT !.cursor = CHOOSE c \in reach : \A d \in reach : d <= c]

\* A full queue forgets its oldest decided events, those a batch holds excepted.
Prunable(q, e, claimed) == Terminal(e) /\ e.seq \notin claimed /\ e.seq <= q.cursor
PruneTerminal(q, claimed) ==
    LET forgettable == SelectSeq(q.events, LAMBDA e : Prunable(q, e, claimed))
        excess == Len(q.events) - MaxEvents + 1
        gone == ToSet(SubSeq(forgettable, 1, IF excess < Len(forgettable) THEN excess
                                             ELSE Len(forgettable)))
    IN  [q EXCEPT !.events = SelectSeq(@, LAMBDA e : e \notin gone)]

Tidy(q, claimed) == PruneTerminal(AdvanceCursor(q), claimed)

ExpireDue(q, now, claimed) ==
    LET Aged(e) == IF ~Terminal(e) /\ IsExpired(e, now) THEN [e EXCEPT !.status = "expired"]
                   ELSE e
    IN  Tidy([q EXCEPT !.events = [i \in DOMAIN @ |-> Aged(@[i])]], claimed)

\* An event with the identity, or else the key, of the one submitted.
SameIdentity(q, e) ==
    LET byId == {p \in ToSet(q.events) : p.id = e.id}
        byKey == {p \in ToSet(q.events) : p.key = e.key /\ e.key # None}
    IN  IF byId # {} THEN byId ELSE byKey
Fingerprint(e) == <<e.type, e.key, e.body>>

\* What a submission comes to, with the queue it leaves.
Submit(q, e, now, claimed) ==
    LET prior == SameIdentity(q, e)
        room == Tidy(ExpireDue(q, now, claimed), claimed)
        new == [id |-> e.id, key |-> e.key, type |-> e.type, body |-> e.body, seq |-> room.next,
                expires |-> e.expires, status |-> IF IsExpired(e, now) THEN "expired" ELSE "queued"]
    IN  IF prior # {}
        THEN [kind |-> IF \E p \in prior : Fingerprint(p) = Fingerprint(e) THEN "duplicate"
                       ELSE "conflict", q |-> q]
        ELSE IF Len(room.events) >= MaxEvents THEN [kind |-> "capacity", q |-> room]
        ELSE [kind |-> IF IsExpired(e, now) THEN "expired" ELSE "accepted",
              q |-> Tidy([room EXCEPT !.events = Append(@, new), !.next = @ + 1],
                         claimed)]

\* The queued events of the given types that one decision takes.
Batch(q, types) ==
    LET open == SelectSeq(q.events, LAMBDA e : ~Terminal(e) /\ e.type \in types)
    IN  SubSeq(open, 1, IF Len(open) < BatchSize THEN Len(open) ELSE BatchSize)

\* The queue after a decision: decisions[s] is what was decided of event s.
Outcome(e, decision, now) == IF IsExpired(e, now) THEN "expired" ELSE decision
Settle(q, decisions, now) ==
    LET Decided(e) == IF e.seq \in DOMAIN decisions
                      THEN [e EXCEPT !.status = Outcome(e, decisions[e.seq], now)] ELSE e
    IN  Tidy([q EXCEPT !.events = [i \in DOMAIN @ |-> Decided(@[i])]], {})

\* A snapshot carries the records, the next number and the cursor, which is kept
\* below the next number, and never the batch that is open.
Rebuilt(q, next, cursor) ==
    Tidy([q EXCEPT !.next = next, !.cursor = IF cursor < next THEN cursor ELSE next - 1], {})
Restored(q) == Rebuilt(q, q.next, q.cursor)
=============================================================================
