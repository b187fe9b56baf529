------------------------ MODULE DurableAppend_proofs ------------------------
(***************************************************************************)
(* Optimistic appends implement the kernel's specification, for every set  *)
(* of kernels and inputs, every attempt bound and every stream bound.      *)
(***************************************************************************)
EXTENDS DurableAppend, DurableKernel_proofs

\* What an append past its check knows: its own event is stored, or what it
\* checked still holds for as long as the cursor has not moved.
CheckHoldsFor(o) ==
    o.phase \in {"reserve", "commit"} =>
        \/ o.base = Unchecked /\ Stored(o.input.key) # {}
        \/ /\ o.base \in 0..Len(log)
           /\ o.base = Len(log) => refused = "none" /\ ValidTransition(run, o.input.event)

CheckHolds == \A a \in Appender : CheckHoldsFor(op[a])

\* Only a settlement reserves, a reserved reply is in the registry, and no
\* settlement is committed without its reservation.
ReservationHoldsFor(o, registry) ==
    LET settles == o.input.event.type = "final_reply_settled" IN
    /\ o.phase = "reserve" => settles
    /\ o.phase \in InFlight /\ o.reserved => settles /\ o.input.event.reply \in registry
    /\ o.phase = "commit" /\ settles => o.reserved \/ o.base = Unchecked

ReservationHolds == \A a \in Appender : ReservationHoldsFor(op[a], claimed)

AppendInv == AppendTypeOK /\ CheckHolds /\ ReservationHolds

\* The steps that leave the stream alone.
QuietStep(a) ==
    \/ \E i \in Input : Submit(a, i)
    \/ ReadStream(a)
    \/ ReserveReply(a)
    \/ StoreKnows(a)
    \/ StoreConflicts(a)
    \/ StoreFull(a)
    \/ StoreFails(a)
    \/ Crash(a)

-----------------------------------------------------------------------------

\* An append in flight carries a whole operation.
LEMMA InFlightTyped ==
    ASSUME AppendTypeOK, NEW a \in Appender, op[a].phase # "idle"
    PROVE  op[a] \in Operation
  BY DEF AppendTypeOK, NoOp

\* An event asked for is an event.
LEMMA InputEvent == \A i \in Input : i.event \in Event
  BY InputAssumption

\* Bounds of the cursors an append expects.
LEMMA Cursors ==
    ASSUME AppendTypeOK
    PROVE  /\ Len(log) \in 0..MaxEvents
           /\ Unchecked = MaxEvents + 1
           /\ {0, Len(log), Unchecked} \subseteq 0..Unchecked
           /\ Unchecked \notin 0..Len(log)
  BY BoundAssumption DEF AppendTypeOK, Unchecked

\* A quiet step leaves the stream and its projection alone.
LEMMA QuietStepKeepsStream ==
    ASSUME NEW a \in Appender, QuietStep(a)
    PROVE  UNCHANGED <<run, refused, log>>
  BY DEF QuietStep, Submit, ReadStream, ReserveReply, StoreKnows, StoreConflicts,
         StoreFull, StoreFails, Crash

\* A quiet step touches one kernel's operation, leaves it typed, and past its
\* check only if it has just checked it.
LEMMA QuietStepOperation ==
    ASSUME AppendInv, NEW a \in Appender, QuietStep(a)
    PROVE  \E o \in Operation \cup {NoOp} :
              /\ op' = [op EXCEPT ![a] = o]
              /\ CheckHoldsFor(o)
              /\ ReservationHoldsFor(o, claimed')
  <1> USE DEF AppendInv
  <1> DEFINE Becomes(o) == /\ op' = [op EXCEPT ![a] = o]
                           /\ CheckHoldsFor(o)
                           /\ ReservationHoldsFor(o, claimed')
  <1>0. claimed \subseteq claimed' /\ ReservationHoldsFor(op[a], claimed)
    BY DEF QuietStep, Submit, ReadStream, ReserveReply, StoreKnows, StoreConflicts,
           StoreFull, StoreFails, Crash, ReservationHolds
  <1>1. ASSUME NEW i \in Input, Submit(a, i)
        PROVE  \E o \in Operation : Becomes(o)
    <2> DEFINE o == [phase |-> "read", input |-> i, attempt |-> 1, base |-> 0,
                     reserved |-> FALSE]
    <2>1. o \in Operation
      BY Cursors, BoundAssumption DEF Operation, InFlight
    <2>2. Becomes(o)
      BY <1>1 DEF Submit, CheckHoldsFor, ReservationHoldsFor
    <2> QED
      BY <2>1, <2>2
  <1>2. ASSUME NEW result \in Result, op[a].phase # "idle", Finish(a, result)
        PROVE  \E o \in Operation : Becomes(o)
    <2> DEFINE o == [op[a] EXCEPT !.phase = result]
    <2>1. o \in Operation
      BY <1>2, InFlightTyped DEF Operation
    <2>2. op' = [op EXCEPT ![a] = o]
      BY <1>2 DEF Finish
    <2>3. CheckHoldsFor(o) /\ ReservationHoldsFor(o, claimed')
      BY <1>2, InFlightTyped DEF CheckHoldsFor, ReservationHoldsFor, Operation, Result,
                                 InFlight
    <2> QED
      BY <2>1, <2>2, <2>3
  <1>3. CASE ReadStream(a)
    <2>1. op[a].phase = "read" /\ op[a] \in Operation
      BY <1>3, InFlightTyped DEF ReadStream
    <2>2. CASE Finish(a, "rejected")
      BY <2>1, <2>2, <1>2 DEF Result
    <2>3. CASE /\ Stored(op[a].input.key) # {}
               /\ op' = [op EXCEPT ![a].phase = "commit", ![a].base = Unchecked]
      <3> DEFINE o == [op[a] EXCEPT !.phase = "commit", !.base = Unchecked]
      <3>1. o \in Operation
        BY <2>1, Cursors DEF Operation, InFlight
      <3>2. op' = [op EXCEPT ![a] = o]
        BY <2>3
      <3>3. CheckHoldsFor(o) /\ ReservationHoldsFor(o, claimed')
        BY <1>0, <2>1, <2>3 DEF CheckHoldsFor, ReservationHoldsFor, Operation, InFlight
      <3> QED
        BY <3>1, <3>2, <3>3
    <2>4. ASSUME NEW phase \in {"reserve", "commit"}, refused = "none",
                 ValidTransition(run, op[a].input.event),
                 phase = IF NeedsReservation(op[a]) THEN "reserve" ELSE "commit",
                 op' = [op EXCEPT ![a].phase = phase, ![a].base = Len(log)]
          PROVE  \E o \in Operation : Becomes(o)
      <3> DEFINE o == [op[a] EXCEPT !.phase = phase, !.base = Len(log)]
      <3>1. o \in Operation
        BY <2>1, Cursors DEF Operation, InFlight
      <3>2. op' = [op EXCEPT ![a] = o]
        BY <2>4
      <3>3. CheckHoldsFor(o)
        BY <2>1, <2>4, Cursors, BoundAssumption DEF CheckHoldsFor, Operation
      <3>4. ReservationHoldsFor(o, claimed')
        BY <1>0, <2>1, <2>4 DEF ReservationHoldsFor, NeedsReservation, Operation, InFlight
      <3> QED
        BY <3>1, <3>2, <3>3, <3>4
    <2> QED
      BY <1>3, <2>2, <2>3, <2>4 DEF ReadStream
  <1>4. CASE ReserveReply(a)
    <2>1. op[a].phase = "reserve" /\ op[a] \in Operation
      BY <1>4, InFlightTyped DEF ReserveReply
    <2>2. CASE Finish(a, "rejected")
      BY <2>1, <2>2, <1>2 DEF Result
    <2>3. CASE /\ claimed' = claimed \cup {op[a].input.event.reply}
               /\ op' = [op EXCEPT ![a].phase = "commit", ![a].reserved = TRUE]
      <3> DEFINE o == [op[a] EXCEPT !.phase = "commit", !.reserved = TRUE]
      <3>1. o \in Operation
        BY <2>1 DEF Operation, InFlight
      <3>2. op' = [op EXCEPT ![a] = o]
        BY <2>3
      <3>3. CheckHoldsFor(op[a])
        BY DEF CheckHolds
      <3>4. CheckHoldsFor(o)
        BY <2>1, <3>3 DEF CheckHoldsFor, Operation
      <3>5. ReservationHoldsFor(o, claimed')
        BY <1>0, <2>1, <2>3 DEF ReservationHoldsFor, Operation
      <3> QED
        BY <3>1, <3>2, <3>4, <3>5
    <2> QED
      BY <1>4, <2>2, <2>3 DEF ReserveReply
  <1>5. CASE StoreKnows(a)
    BY <1>5, <1>2 DEF StoreKnows, StoredResult, Result
  <1>6. CASE StoreConflicts(a)
    <2>1. op[a].phase = "commit" /\ op[a] \in Operation
      BY <1>6, InFlightTyped DEF StoreConflicts
    <2> DEFINE o == AfterConflict(op[a])
    <2>2. ASSUME op[a].attempt < MaxAttempts
         PROVE  o \in Operation /\ CheckHoldsFor(o) /\ ReservationHoldsFor(o, claimed')
      <3>1. o = [op[a] EXCEPT !.phase = "read", !.attempt = op[a].attempt + 1]
        BY <2>2 DEF AfterConflict
      <3>2. op[a].attempt + 1 \in 1..MaxAttempts
        BY <2>1, <2>2, BoundAssumption DEF Operation
      <3> QED
        BY <1>0, <2>1, <3>1, <3>2 DEF Operation, InFlight, CheckHoldsFor, ReservationHoldsFor
    <2>3. ASSUME ~(op[a].attempt < MaxAttempts)
          PROVE  o \in Operation /\ CheckHoldsFor(o) /\ ReservationHoldsFor(o, claimed')
      <3>1. o = [op[a] EXCEPT !.phase = "rejected"]
        BY <2>3 DEF AfterConflict
      <3> QED
        BY <2>1, <3>1 DEF Operation, InFlight, Result, CheckHoldsFor, ReservationHoldsFor
    <2> QED
      BY <1>6, <2>2, <2>3 DEF StoreConflicts
  <1>7. CASE StoreFull(a) \/ StoreFails(a)
    BY <1>7, <1>2 DEF StoreFull, StoreFails, Result
  <1>8. CASE Crash(a)
    <2>1. Becomes(NoOp)
      BY <1>8 DEF Crash, NoOp, CheckHoldsFor, ReservationHoldsFor, InFlight
    <2> QED
      BY <2>1
  <1> QED
    BY <1>1, <1>3, <1>4, <1>5, <1>6, <1>7, <1>8 DEF QuietStep

\* The append itself: one input enters the stream at a cursor where its check
\* still holds, and the kernel reports it.
LEMMA AppendStep ==
    ASSUME AppendInv, NEW a \in Appender, StoreAppends(a)
    PROVE  LET i == op[a].input IN
           /\ op[a] \in Operation
           /\ Stored(i.key) = {}
           /\ log' = Append(log, i)
           /\ op' = [op EXCEPT ![a] = [op[a] EXCEPT !.phase = "appended"]]
           /\ AppendEvent(i.event) \/ AppendUnreplayable(i.event)
  <1> USE DEF AppendInv
  <1>1. op[a].phase = "commit" /\ op[a] \in Operation
    BY InFlightTyped DEF StoreAppends
  <1>2. op[a].base = Len(log)
    BY <1>1, Cursors DEF StoreAppends, CursorMoved, CheckHolds, CheckHoldsFor
  <1>3. refused = "none" /\ ValidTransition(run, op[a].input.event)
    BY <1>1, <1>2, Cursors DEF CheckHolds, CheckHoldsFor
  <1> QED
    BY <1>1, <1>3 DEF StoreAppends, Finish, AppendEvent, AppendUnreplayable

\* The invariant is inductive: a check that was made at a cursor holds until the
\* stream grows past it.
LEMMA AppendInvInductive ==
    ASSUME AppendInv, [AppendNext]_appendVars
    PROVE  AppendInv'
  <1> USE DEF AppendInv
  <1>1. ASSUME NEW a \in Appender, QuietStep(a) PROVE AppendInv'
    <2>1. UNCHANGED <<run, refused, log>>
      BY <1>1, QuietStepKeepsStream
    <2>2. PICK o \in Operation \cup {NoOp} : /\ op' = [op EXCEPT ![a] = o]
                                             /\ CheckHoldsFor(o)
                                             /\ ReservationHoldsFor(o, claimed')
      BY <1>1, QuietStepOperation
    <2>3. claimed' \subseteq Reply
      <3>1. CASE ReserveReply(a)
        <4>1. op[a] \in Operation /\ op[a].input.event.type = "final_reply_settled"
          BY <3>1, InFlightTyped DEF ReserveReply, ReservationHolds, ReservationHoldsFor
        <4>2. op[a].input.event.reply \in Reply
          BY <4>1, InputEvent, EventFields DEF Operation
        <4> QED
          BY <3>1, <4>2 DEF ReserveReply, AppendTypeOK
      <3>2. CASE UNCHANGED claimed
        BY <3>2 DEF AppendTypeOK
      <3> QED
        BY <1>1, <3>1, <3>2 DEF QuietStep, Submit, ReadStream, StoreKnows,
              StoreConflicts, StoreFull, StoreFails, Crash
    <2>4. AppendTypeOK'
      BY <2>1, <2>2, <2>3 DEF AppendTypeOK, TypeOK
    <2>5. CheckHolds'
      BY <2>1, <2>2 DEF CheckHolds, CheckHoldsFor, Stored, AppendTypeOK
    <2>6. claimed \subseteq claimed'
      BY <1>1 DEF QuietStep, Submit, ReadStream, ReserveReply, StoreKnows, StoreConflicts,
                  StoreFull, StoreFails, Crash
    <2>7. ReservationHolds'
      BY <2>2, <2>6 DEF ReservationHolds, ReservationHoldsFor, AppendTypeOK
    <2> QED
      BY <2>4, <2>5, <2>7
  <1>2. ASSUME NEW a \in Appender, StoreAppends(a) PROVE AppendInv'
    <2> DEFINE i == op[a].input
    <2>1. i \in Input /\ i.event \in Event
      BY <1>2, AppendStep, InputEvent DEF Operation
    <2>2. TypeOK'
      BY <1>2, <2>1, AppendStep, ApplyTyped DEF AppendTypeOK, TypeOK, AppendEvent,
                     AppendUnreplayable, Reducible, LateChecked
    <2>3. log' \in Seq(Input) /\ Len(log') = Len(log) + 1 /\ Len(log') <= MaxEvents
      BY <1>2, <2>1, BoundAssumption DEF AppendTypeOK, StoreAppends
    <2>4. op' \in [Appender -> Operation \cup {NoOp}]
      BY <1>2, AppendStep DEF AppendTypeOK, Operation, Result
    <2>5. AppendTypeOK'
      BY <1>2, <2>2, <2>3, <2>4 DEF AppendTypeOK, StoreAppends
    <2>6. ASSUME NEW b \in Appender PROVE CheckHoldsFor(op[b])'
      <3>1. CASE b = a
        BY <1>2, <3>1, AppendStep DEF CheckHoldsFor, AppendTypeOK, Operation
      <3>2. CASE b # a /\ op[b].phase \in {"reserve", "commit"}
        <4>1. op'[b] = op[b]
          BY <1>2, <3>2, AppendStep DEF AppendTypeOK
        <4>2. CASE op[b].base = Unchecked /\ Stored(op[b].input.key) # {}
          <5>1. PICK n \in DOMAIN log : log[n].key = op[b].input.key
            BY <4>2 DEF Stored
          <5>2. n \in DOMAIN log' /\ log'[n] = log[n]
            BY <1>2, <2>1, AppendStep DEF AppendTypeOK
          <5> QED
            BY <4>1, <4>2, <5>1, <5>2 DEF CheckHoldsFor, Stored, Unchecked
        <4>3. CASE op[b].base \in 0..Len(log)
          BY <2>3, <4>1, <4>3, Cursors DEF CheckHoldsFor
        <4> QED
          BY <3>2, <4>2, <4>3 DEF CheckHolds, CheckHoldsFor
      <3>3. CASE b # a /\ op[b].phase \notin {"reserve", "commit"}
        BY <1>2, <3>3, AppendStep DEF CheckHoldsFor, AppendTypeOK
      <3> QED
        BY <3>1, <3>2, <3>3
    <2>7. ReservationHolds'
      <3>1. claimed' = claimed
        BY <1>2 DEF StoreAppends
      <3>2. ReservationHoldsFor([op[a] EXCEPT !.phase = "appended"], claimed)
        BY <1>2, AppendStep DEF ReservationHoldsFor, Operation, InFlight
      <3> QED
        BY <1>2, <3>1, <3>2, AppendStep DEF ReservationHolds, AppendTypeOK
    <2> QED
      BY <2>5, <2>6, <2>7 DEF CheckHolds
  <1>3. CASE UNCHANGED appendVars
    BY <1>3 DEF appendVars, AppendTypeOK, TypeOK, CheckHolds, CheckHoldsFor, Stored,
                ReservationHolds
  <1> QED
    BY <1>1, <1>2, <1>3 DEF AppendNext, Work, QuietStep

\* The invariant holds of an empty stream and idle kernels.
LEMMA AppendInvInitially == AppendInit => AppendInv
  <1> SUFFICES ASSUME AppendInit PROVE AppendInv
    OBVIOUS
  <1>1. AppendTypeOK
    BY EmptyTyped, BoundAssumption DEF AppendInit, Init, AppendTypeOK, TypeOK, LateChecked
  <1>2. CheckHolds
    BY DEF AppendInit, CheckHolds, CheckHoldsFor, NoOp
  <1>3. ReservationHolds
    BY DEF AppendInit, ReservationHolds, ReservationHoldsFor, NoOp, InFlight
  <1> QED
    BY <1>1, <1>2, <1>3 DEF AppendInv

\* The invariant of the appends in flight: an operation that has checked its
\* event at the stream's cursor has checked it against the stream's projection.
THEOREM AppendInvariant == AppendSpec => []AppendInv
  BY AppendInvInitially, AppendInvInductive, PTL DEF AppendSpec

\* Cursors, attempts and results stay in their ranges.
THEOREM AppendTypeCorrect == AppendSpec => []AppendTypeOK
  BY AppendInvariant, PTL DEF AppendInv

\* Optimistic appends by any number of kernels implement the kernel's
\* specification: every event was legal at the cursor where it landed.
THEOREM AppendImplementsKernel == AppendSpec => KernelSpec
  <1>1. AppendInit => Init
    BY DEF AppendInit
  <1>2. AppendInv /\ [AppendNext]_appendVars => [Next]_kernelVars
    <2> SUFFICES ASSUME AppendInv, [AppendNext]_appendVars PROVE [Next]_kernelVars
      OBVIOUS
    <2>1. ASSUME NEW a \in Appender, QuietStep(a) PROVE UNCHANGED kernelVars
      BY <2>1, QuietStepKeepsStream DEF kernelVars
    <2>2. ASSUME NEW a \in Appender, StoreAppends(a) PROVE Next
      BY <2>2, AppendStep, InputEvent DEF Next, Operation
    <2> QED
      BY <2>1, <2>2 DEF AppendNext, Work, QuietStep, appendVars, kernelVars
  <1>3. QED
    BY <1>1, <1>2, AppendInvariant, PTL DEF AppendSpec, KernelSpec, Spec

-----------------------------------------------------------------------------
(* What the stream carries                                                 *)

\* Every step leaves the stream alone or is one kernel's append.
LEMMA StreamStep ==
    ASSUME AppendInv, [AppendNext]_appendVars
    PROVE  \/ UNCHANGED <<run, refused, log>>
           \/ \E a \in Appender : StoreAppends(a)
  BY QuietStepKeepsStream DEF AppendNext, Work, QuietStep, appendVars

\* A settled reply in the stream is held in the session's registry.
THEOREM SettledReserved == AppendSpec => []SettledReplyReserved
  <1>1. AppendInit => SettledReplyReserved
    BY DEF AppendInit, Init, EmptyProjection, SettledReplyReserved
  <1>2. AppendInv /\ SettledReplyReserved /\ [AppendNext]_appendVars => SettledReplyReserved'
    <2> SUFFICES ASSUME AppendInv, SettledReplyReserved, [AppendNext]_appendVars
                 PROVE  SettledReplyReserved'
      OBVIOUS
    <2>1. claimed \subseteq claimed'
      BY DEF AppendNext, Work, Submit, ReadStream, ReserveReply, StoreKnows,
             StoreConflicts, StoreFull, StoreFails, StoreAppends, Crash, appendVars
    <2>2. CASE UNCHANGED run
      BY <2>1, <2>2 DEF SettledReplyReserved
    <2>3. ASSUME NEW a \in Appender, StoreAppends(a), run' # run
          PROVE  SettledReplyReserved'
      <3> DEFINE e == op[a].input.event
      <3>1. op[a] \in Operation /\ e \in Event /\ run \in Projection
            /\ ValidTransition(run, e) /\ run' = Apply(run, e) /\ claimed' = claimed
        BY <2>3, AppendStep, InputEvent DEF Operation, AppendEvent, AppendUnreplayable,
              AppendInv, AppendTypeOK, TypeOK, StoreAppends
      <3>2. CASE e.type = "final_reply_settled"
        <4>1. op[a].phase = "commit" /\ op[a].base # Unchecked
          BY <2>3, Cursors DEF StoreAppends, AppendInv, CheckHolds, CheckHoldsFor
        <4>2. e.reply \in claimed
          BY <3>2, <4>1 DEF AppendInv, ReservationHolds, ReservationHoldsFor, InFlight
        <4> QED
          BY <3>1, <3>2, <4>2 DEF SettledReplyReserved, Apply, NextReply
      <3>3. CASE e.type # "final_reply_settled" /\ run'.replyState = "settled"
        <4>1. run.replyState = "settled"
          BY <3>1, <3>3 DEF Apply, NextReplyState
        <4> QED
          BY <3>1, <4>1, ApplyKeepsHistory DEF SettledReplyReserved
      <3> QED
        BY <3>2, <3>3 DEF SettledReplyReserved
    <2> QED
      BY <2>2, <2>3, StreamStep
  <1>3. QED
    BY <1>1, <1>2, AppendInvariant, PTL DEF AppendSpec

\* No identity is stored twice.
THEOREM StoredOnce == AppendSpec => []IdentityStoredOnce
  <1>1. AppendInit => IdentityStoredOnce
    BY DEF AppendInit, IdentityStoredOnce
  <1>2. AppendInv /\ IdentityStoredOnce /\ [AppendNext]_appendVars => IdentityStoredOnce'
    <2> SUFFICES ASSUME AppendInv, IdentityStoredOnce, [AppendNext]_appendVars
                 PROVE  IdentityStoredOnce'
      OBVIOUS
    <2>1. CASE UNCHANGED log
      BY <2>1 DEF IdentityStoredOnce
    <2>2. ASSUME NEW a \in Appender, StoreAppends(a) PROVE IdentityStoredOnce'
      <3>1. log \in Seq(Input) /\ op[a].input \in Input
            /\ log' = Append(log, op[a].input) /\ Stored(op[a].input.key) = {}
        BY <2>2, AppendStep DEF AppendInv, AppendTypeOK, Operation
      <3>2. \A n \in DOMAIN log : log[n].key # op[a].input.key
        BY <3>1 DEF Stored
      <3> QED
        BY <3>1, <3>2 DEF IdentityStoredOnce
    <2> QED
      BY <2>1, <2>2, StreamStep
  <1>3. QED
    BY <1>1, <1>2, AppendInvariant, PTL DEF AppendSpec

\* A quiet step acknowledges an append only as a duplicate of the very event.
LEMMA QuietStepAcknowledges ==
    ASSUME AppendInv, NEW a \in Appender, QuietStep(a)
    PROVE  /\ \A b \in Appender \ {a} : op'[b] = op[b]
           /\ op'[a].phase # "appended"
           /\ op'[a].phase = "duplicate" => \E n \in DOMAIN log : log[n] = op'[a].input
  <1> USE DEF AppendInv
  <1>1. PICK o : op' = [op EXCEPT ![a] = o]
    BY QuietStepOperation
  <1>2. (\A b \in Appender \ {a} : op'[b] = op[b]) /\ op'[a] = o
    BY <1>1 DEF AppendTypeOK
  <1>3. ASSUME NEW result, op[a].phase # "idle", Finish(a, result)
        PROVE  op'[a].phase = result /\ op'[a].input = op[a].input
    BY <1>3, InFlightTyped DEF Finish, AppendTypeOK, Operation
  <1>4. CASE \E i \in Input : Submit(a, i)
    BY <1>4, <1>2 DEF Submit, AppendTypeOK
  <1>5. CASE ReadStream(a)
    <2>1. op[a].phase = "read" /\ op[a] \in Operation
      BY <1>5, InFlightTyped DEF ReadStream
    <2>2. CASE Finish(a, "rejected")
      BY <1>2, <1>3, <2>1, <2>2
    <2>3. ASSUME NEW phase \in {"reserve", "commit"}, NEW base,
                 op' = [op EXCEPT ![a].phase = phase, ![a].base = base]
          PROVE  op'[a].phase = phase
      BY <2>1, <2>3 DEF AppendTypeOK, Operation
    <2> QED
      BY <1>2, <1>5, <2>2, <2>3 DEF ReadStream
  <1>6. CASE ReserveReply(a)
    <2>1. op[a].phase = "reserve" /\ op[a] \in Operation
      BY <1>6, InFlightTyped DEF ReserveReply
    <2>2. CASE Finish(a, "rejected")
      BY <1>2, <1>3, <2>1, <2>2
    <2>3. CASE op' = [op EXCEPT ![a].phase = "commit", ![a].reserved = TRUE]
      <3>1. op'[a].phase = "commit"
        BY <2>1, <2>3 DEF AppendTypeOK, Operation
      <3> QED
        BY <1>2, <3>1
    <2> QED
      BY <1>6, <2>2, <2>3 DEF ReserveReply
  <1>7. CASE StoreKnows(a)
    <2>1. op[a].phase = "commit" /\ Finish(a, StoredResult(op[a].input))
      BY <1>7 DEF StoreKnows
    <2>2. op'[a].phase = StoredResult(op[a].input) /\ op'[a].input = op[a].input
      BY <1>3, <2>1
    <2> QED
      BY <1>2, <2>2 DEF StoredResult, Stored
  <1>8. CASE StoreConflicts(a)
    <2>1. op[a].phase = "commit" /\ op[a] \in Operation
      BY <1>8, InFlightTyped DEF StoreConflicts
    <2>2. op'[a] = AfterConflict(op[a])
      BY <1>8 DEF StoreConflicts, AppendTypeOK
    <2>3. AfterConflict(op[a]).phase \in {"read", "rejected"}
      BY <2>1 DEF AfterConflict, Operation
    <2> QED
      BY <1>2, <2>2, <2>3
  <1>9. CASE StoreFull(a) \/ StoreFails(a)
    BY <1>2, <1>3, <1>9 DEF StoreFull, StoreFails
  <1>10. CASE Crash(a)
    BY <1>2, <1>10 DEF Crash, NoOp, AppendTypeOK
  <1> QED
    BY <1>4, <1>5, <1>6, <1>7, <1>8, <1>9, <1>10 DEF QuietStep

\* An acknowledged append is in the stream, and one kernel at most reports that it
\* was the one to append it.
THEOREM AcknowledgedTrue == AppendSpec => []AcknowledgedOnce
  <1>1. AppendInit => AcknowledgedOnce
    BY DEF AppendInit, NoOp, AcknowledgedOnce
  <1>2. AppendInv /\ AcknowledgedOnce /\ [AppendNext]_appendVars => AcknowledgedOnce'
    <2> SUFFICES ASSUME AppendInv, AcknowledgedOnce, [AppendNext]_appendVars
                 PROVE  AcknowledgedOnce'
      OBVIOUS
    <2> DEFINE Logged(o) == \E n \in DOMAIN log : log[n] = o.input
    <2>1. CASE UNCHANGED appendVars
      BY <2>1 DEF AcknowledgedOnce, appendVars
    <2>2. ASSUME NEW a \in Appender, QuietStep(a) PROVE AcknowledgedOnce'
      <3>1. UNCHANGED log
        BY <2>2, QuietStepKeepsStream
      <3>2. /\ \A b \in Appender \ {a} : op'[b] = op[b]
            /\ op'[a].phase # "appended"
            /\ op'[a].phase = "duplicate" => \E n \in DOMAIN log : log[n] = op'[a].input
        BY <2>2, QuietStepAcknowledges
      <3> QED
        BY <3>1, <3>2 DEF AcknowledgedOnce
    <2>3. ASSUME NEW a \in Appender, StoreAppends(a) PROVE AcknowledgedOnce'
      <3> DEFINE i == op[a].input
      <3>1. /\ log \in Seq(Input) /\ i \in Input /\ log' = Append(log, i) /\ Stored(i.key) = {}
            /\ \A b \in Appender \ {a} : op'[b] = op[b]
            /\ op'[a].phase = "appended" /\ op'[a].input = i
        <4>1. /\ op[a] \in Operation /\ Stored(i.key) = {} /\ log' = Append(log, i)
              /\ op' = [op EXCEPT ![a] = [op[a] EXCEPT !.phase = "appended"]]
          BY <2>3, AppendStep
        <4>2. log \in Seq(Input) /\ op \in [Appender -> Operation \cup {NoOp}]
          BY DEF AppendInv, AppendTypeOK
        <4>3. i \in Input /\ [op[a] EXCEPT !.phase = "appended"].phase = "appended"
              /\ [op[a] EXCEPT !.phase = "appended"].input = i
          BY <4>1 DEF Operation
        <4> QED
          BY <4>1, <4>2, <4>3
      <3>2. /\ \A n \in DOMAIN log : n \in DOMAIN log' /\ log'[n] = log[n]
            /\ \E n \in DOMAIN log' : log'[n] = i
        BY <3>1
      <3>3. ASSUME NEW b \in Appender, op'[b].phase \in {"appended", "duplicate"}
            PROVE  \E n \in DOMAIN log' : log'[n] = op'[b].input
        <4>1. CASE b = a
          BY <3>1, <3>2, <4>1
        <4>2. CASE b # a
          <5>1. PICK n \in DOMAIN log : log[n] = op[b].input
            BY <3>1, <3>3, <4>2 DEF AcknowledgedOnce
          <5> QED
            BY <3>1, <3>2, <4>2, <5>1
        <4> QED
          BY <4>1, <4>2
      <3>4. ASSUME NEW b \in Appender \ {a}, op'[b].phase = "appended"
            PROVE  op'[b].input.key # op'[a].input.key
        <4>1. PICK n \in DOMAIN log : log[n] = op[b].input
          BY <3>1, <3>4 DEF AcknowledgedOnce
        <4> QED
          BY <3>1, <4>1 DEF Stored
      <3> QED
        BY <3>1, <3>3, <3>4 DEF AcknowledgedOnce
    <2> QED
      BY <2>1, <2>2, <2>3 DEF AppendNext, Work, QuietStep
  <1>3. QED
    BY <1>1, <1>2, AppendInvariant, PTL DEF AppendSpec

\* The append's kernel invariants hold of every run of the appenders.
THEOREM AppendedRunSafe == AppendSpec => [](CompletedRunAccounted /\ PublishedRunNeverFails)
  BY AppendImplementsKernel, KernelInvariant, PTL DEF KernelSpec, KernelInv
=============================================================================
