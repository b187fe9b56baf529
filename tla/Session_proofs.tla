--------------------------- MODULE Session_proofs ---------------------------
(***************************************************************************)
(* Proofs about what the compactions of a session rest on: the lock file,  *)
(* the scheduler of one process and the summaries that attempts of several *)
(* processes commit under that lock.  Each part has the inductive          *)
(* invariant of its component first, then one lemma per action, then the   *)
(* theorems.                                                               *)
(***************************************************************************)
EXTENDS FileLock, CompactionScheduler, SessionSummary, FiniteSetTheorems, SequenceTheorems, TLAPS

-----------------------------------------------------------------------------
(***************************************************************************)
(* FileLock                                                                *)
(***************************************************************************)
(* The inductive invariant.  Exclusive says, while no fault happened, whose *)
(* file is at the path: it belongs to the caller that is about to write it, *)
(* or whose content it holds; and nobody is about to steal it.              *)

Exclusive ==
    /\ \A c \in LockCaller : phase[c] = "write" => lockFile.by = c /\ ~lockFile.written
    /\ \A c \in LockCaller :
          phase[c] \in {"confirm", "held", "check", "remove"} => Names(c)
    /\ \A c \in LockCaller : phase[c] \notin {"steal", "dead"}
    /\ Exists /\ ~lockFile.written => phase[lockFile.by] = "write"
    /\ lockFile.old => lockFile.written /\ \A c \in LockCaller : phase[c] # "stat"

LockInv == FileLockTypeOK /\ (lockFaults = 0 => Exclusive)

LEMMA InitLockInv == FileLockInit => LockInv
BY CallerAssumption, BoundAssumption
   DEF FileLockInit, LockInv, FileLockTypeOK, Exclusive, LockFile, NoFile, LockPhase, Names, Exists

LEMMA StepTyped == FileLockTypeOK /\ [FileLockNext]_lockVars => FileLockTypeOK'
<1> SUFFICES ASSUME FileLockTypeOK, [FileLockNext]_lockVars PROVE FileLockTypeOK'
    OBVIOUS
<1> USE CallerAssumption, BoundAssumption DEF FileLockTypeOK, LockPhase, Advance, LockFault
<1>1. CASE UNCHANGED lockVars
    BY <1>1 DEF lockVars
<1>2. CASE GrowOld
    <2>1. lockFile \in [by : LockCaller, written : BOOLEAN, old : BOOLEAN]
        BY <1>2 DEF GrowOld, LockFile, NoFile, Exists
    <2>2. lockFile' \in [by : LockCaller, written : BOOLEAN, old : BOOLEAN]
        BY <1>2, <2>1 DEF GrowOld
    <2> QED BY <1>2, <2>2 DEF GrowOld, LockFile
<1>3. ASSUME NEW c \in LockCaller, Acquire(c) PROVE FileLockTypeOK'
    BY <1>3 DEF Acquire
<1>4. ASSUME NEW c \in LockCaller, Create(c) PROVE FileLockTypeOK'
    <2>1. NewFile(c) \in LockFile
        BY DEF NewFile, LockFile
    <2>2. lockFile' \in LockFile
        BY <1>4, <2>1 DEF Create
    <2>3. phase' \in [LockCaller -> LockPhase]
        BY <1>4 DEF Create
    <2> QED BY <1>4, <2>2, <2>3 DEF Create
<1>5. ASSUME NEW c \in LockCaller, WriteOwner(c) PROVE FileLockTypeOK'
    <2>1. CASE lockFile.by = c
        <3>1. lockFile \in [by : LockCaller, written : BOOLEAN, old : BOOLEAN]
            BY <2>1 DEF LockFile, NoFile
        <3>2. lockFile' \in [by : LockCaller, written : BOOLEAN, old : BOOLEAN]
            BY <1>5, <2>1, <3>1 DEF WriteOwner
        <3> QED BY <1>5, <3>2 DEF WriteOwner, LockFile
    <2>2. CASE lockFile.by # c
        BY <1>5, <2>2 DEF WriteOwner
    <2> QED BY <2>1, <2>2
<1>6. ASSUME NEW c \in LockCaller, Confirm(c) PROVE FileLockTypeOK'
    BY <1>6 DEF Confirm
<1>7. ASSUME NEW c \in LockCaller, Inspect(c) PROVE FileLockTypeOK'
    BY <1>7 DEF Inspect
<1>8. ASSUME NEW c \in LockCaller, Stat(c) PROVE FileLockTypeOK'
    BY <1>8 DEF Stat
<1>9. ASSUME NEW c \in LockCaller, Steal(c) \/ StealFails(c) \/ Poll(c) PROVE FileLockTypeOK'
    BY <1>9 DEF Steal, StealFails, Poll, LockFile
<1>10. ASSUME NEW c \in LockCaller, Leave(c) PROVE FileLockTypeOK'
    BY <1>10 DEF Leave, Release, CheckOwn, RemoveLock, LockFile
<1>11. ASSUME NEW c \in LockCaller, WriteFails(c) \/ ConfirmUnreadable(c) \/ Die(c) \/ Expire(c)
       PROVE FileLockTypeOK'
    BY <1>11 DEF WriteFails, ConfirmUnreadable, Die, Expire
<1> QED
    BY <1>1, <1>2, <1>3, <1>4, <1>5, <1>6, <1>7, <1>8, <1>9, <1>10, <1>11
       DEF FileLockNext, AttemptStep

\* A fault ends the premise of Exclusive for good.
LEMMA FaultsGrow ==
    ASSUME FileLockTypeOK, [FileLockNext]_lockVars, lockFaults' = 0
    PROVE  /\ lockFaults = 0
           /\ \A c \in LockCaller : ~WriteFails(c) /\ ~ConfirmUnreadable(c) /\ ~Die(c)
BY DEF FileLockTypeOK, FileLockNext, lockVars, AttemptStep, Leave, GrowOld, Acquire, Create, WriteOwner,
       Confirm, Inspect, Stat, Steal, StealFails, Poll, Release, CheckOwn, RemoveLock,
       WriteFails, ConfirmUnreadable, Die, Expire, LockFault

LEMMA StepExclusive ==
    ASSUME FileLockTypeOK, Exclusive, [FileLockNext]_lockVars, lockFaults' = 0
    PROVE  Exclusive'
<1> USE CallerAssumption DEF FileLockTypeOK, Exclusive, LockPhase, Advance, Names, Exists, LockFile, NoFile
<1>1. CASE UNCHANGED lockVars
    BY <1>1 DEF lockVars
<1>2. CASE GrowOld
    BY <1>2 DEF GrowOld
<1>3. ASSUME NEW c \in LockCaller, Acquire(c) PROVE Exclusive'
    BY <1>3 DEF Acquire
<1>4. ASSUME NEW c \in LockCaller, Create(c) PROVE Exclusive'
    <2>1. CASE Exists
        BY <1>4, <2>1 DEF Create
    <2>2. CASE ~Exists
        BY <1>4, <2>2 DEF Create, NewFile
    <2> QED BY <2>1, <2>2
<1>5. ASSUME NEW c \in LockCaller, WriteOwner(c) PROVE Exclusive'
    BY <1>5 DEF WriteOwner
<1>6. ASSUME NEW c \in LockCaller, Confirm(c) PROVE Exclusive'
    BY <1>6 DEF Confirm
<1>7. ASSUME NEW c \in LockCaller, Inspect(c) PROVE Exclusive'
    BY <1>7 DEF Inspect
<1>8. ASSUME NEW c \in LockCaller, Stat(c) PROVE Exclusive'
    BY <1>8 DEF Stat
<1>9. ASSUME NEW c \in LockCaller, Steal(c) \/ StealFails(c) \/ Poll(c) PROVE Exclusive'
    BY <1>9 DEF Steal, StealFails, Poll
<1>10. ASSUME NEW c \in LockCaller, Leave(c) PROVE Exclusive'
    BY <1>10 DEF Leave, Release, CheckOwn, RemoveLock
<1>11. ASSUME NEW c \in LockCaller, Expire(c) PROVE Exclusive'
    BY <1>11 DEF Expire
<1> QED
    BY <1>1, <1>2, <1>3, <1>4, <1>5, <1>6, <1>7, <1>8, <1>9, <1>10, <1>11, FaultsGrow
       DEF FileLockNext, AttemptStep

\* The invariant holds in every reachable state of the lock.
THEOREM LockInvariant == FileLockSpec => []LockInv
<1>1. LockInv /\ [FileLockNext]_lockVars => LockInv'
    BY StepTyped, StepExclusive, FaultsGrow DEF LockInv
<1> QED
    BY InitLockInv, <1>1, PTL DEF FileLockSpec

-----------------------------------------------------------------------------
(* What follows from it                                                     *)

\* Files, phases, calls and faults are of their types and within their bounds.
THEOREM LockTypeCorrect == FileLockSpec => []FileLockTypeOK
<1>1. LockInv => FileLockTypeOK
    BY DEF LockInv
<1> QED
    BY <1>1, LockInvariant, PTL

LEMMA AtMostOneHolder ==
    ASSUME LockInv, lockFaults = 0, NEW c \in Holders, NEW d \in Holders
    PROVE  c = d
BY DEF LockInv, Exclusive, Holders, Names

\* Two callers never hold the lock at once, unless a file was abandoned before.
THEOREM LockExclusive == FileLockSpec => []ExclusiveUntilAbandoned
<1>1. LockInv => ExclusiveUntilAbandoned
    <2> SUFFICES ASSUME LockInv, lockFaults = 0 PROVE Cardinality(Holders) <= 1
        BY DEF ExclusiveUntilAbandoned
    <2>1. CASE Holders = {}
        BY <2>1, FS_EmptySet
    <2>2. CASE Holders # {}
        <3>1. PICK c \in Holders : Holders = {c}
            BY <2>2, AtMostOneHolder
        <3>2. Cardinality({c}) = 1
            BY FS_Singleton
        <3> QED BY <3>1, <3>2
    <2> QED BY <2>1, <2>2
<1> QED
    BY <1>1, LockInvariant, PTL

\* Both at once: the lock's variables keep their types, and only an abandoned file
\* lets two callers hold the lock at the same time.
THEOREM LockHasOneHolder == FileLockSpec => []OneHolder
BY LockTypeCorrect, LockExclusive, PTL DEF OneHolder

\* Without abandoned files the lock implements the mutual exclusion its callers
\* rely on: every step enters, leaves or changes nothing they can see.
THEOREM LockImplementsMutex ==
    ASSUME MaxLockFaults = 0
    PROVE  FileLockSpec => MutexSpec
<1>1. FileLockInit => Abs!Init
    BY DEF FileLockInit, Abs!Init, Holders
<1>2. LockInv /\ [FileLockNext]_lockVars => [Abs!Next]_Holders
    <2> SUFFICES ASSUME LockInv, [FileLockNext]_lockVars
                 PROVE  [Abs!Next]_Holders
        OBVIOUS
    <2>1. lockFaults = 0 /\ Exclusive /\ FileLockTypeOK
        BY DEF LockInv, FileLockTypeOK
    <2>2. \A c \in LockCaller : ~WriteFails(c) /\ ~ConfirmUnreadable(c) /\ ~Die(c)
        BY <2>1 DEF WriteFails, ConfirmUnreadable, Die, LockFault
    <2>3. ASSUME NEW c \in LockCaller, Confirm(c), Names(c) PROVE Abs!Next
        <3>1. Holders = {}
            BY <2>1, <2>3 DEF Holders, Exclusive, Names, Confirm
        <3>2. Holders' = {c}
            BY <3>1, <2>1, <2>3 DEF Confirm, Advance, Holders, FileLockTypeOK
        <3> QED BY <3>1, <3>2 DEF Abs!Next, Abs!Enter
    <2>4. ASSUME NEW c \in LockCaller, c \in Holders, phase'[c] = "idle",
                 \A d \in LockCaller \ {c} : phase'[d] = phase[d]
          PROVE  Abs!Next
        <3>1. Holders = {c}
            BY <2>1, <2>4, AtMostOneHolder
        <3>2. Holders' = {}
            BY <3>1, <2>4 DEF Holders
        <3> QED BY <3>1, <3>2 DEF Abs!Next, Abs!Leave
    <2>5. ASSUME NEW c \in LockCaller, CheckOwn(c) \/ RemoveLock(c) PROVE [Abs!Next]_Holders
        <3>1. c \in Holders /\ \A d \in LockCaller \ {c} : phase'[d] = phase[d]
            BY <2>1, <2>5 DEF CheckOwn, RemoveLock, Advance, Holders, FileLockTypeOK
        <3>2. CASE phase'[c] = "idle"
            BY <3>1, <3>2, <2>4
        <3>3. CASE phase'[c] # "idle"
            BY <3>1, <3>3, <2>1, <2>5 DEF CheckOwn, RemoveLock, Advance, Holders, FileLockTypeOK
        <3> QED BY <3>2, <3>3
    <2>6. ASSUME NEW c \in LockCaller, Confirm(c), ~Names(c) PROVE UNCHANGED Holders
        BY <2>1, <2>6 DEF Confirm, Advance, Holders, FileLockTypeOK
    <2>7. ASSUME NEW c \in LockCaller,
                 \/ Acquire(c) \/ Create(c) \/ WriteOwner(c) \/ Inspect(c) \/ Stat(c) \/ Steal(c)
                 \/ StealFails(c) \/ Poll(c) \/ Release(c) \/ Expire(c)
          PROVE  UNCHANGED Holders
        BY <2>1, <2>7 DEF Acquire, Create, WriteOwner, Inspect, Stat, Steal, StealFails, Poll,
                          Release, Expire, Advance, Holders, FileLockTypeOK
    <2>8. CASE UNCHANGED lockVars \/ GrowOld
        BY <2>8 DEF lockVars, GrowOld, Holders
    <2> QED
        BY <2>2, <2>3, <2>5, <2>6, <2>7, <2>8 DEF FileLockNext, AttemptStep, Leave
<1> QED
    BY <1>1, <1>2, LockInvariant, PTL DEF FileLockSpec, MutexSpec, Abs!Spec

-----------------------------------------------------------------------------
(***************************************************************************)
(* CompactionScheduler                                                     *)
(***************************************************************************)

Waits == {"joined", "behind"}
Saves == {"read", "write", "rename"}

SoftAtWork == {o \in Request \ Hard : place[o] = "work"}

\* The flight of a session is the operation at work on it.
FlightsWork ==
    /\ \A s \in Session, o \in Request :
          flight[s] = o <=> place[o] = "work" /\ SessionOf[o] = s
    /\ controllers = {o \in Request : place[o] = "work"}

\* The count of the soft operations is their number.
SlotsCounted == soft = Cardinality(SoftAtWork) /\ soft <= SoftLimit

\* The record of an operation, from its request to its end.
RecordsMatch ==
    /\ \A o \in Request : place[o] \in {"new"} \cup Waits => o \notin aborted /\ status[o] = "none"
    /\ \A o \in Request : place[o] = "work" <=> status[o] = "running"
    /\ \A o \in Request : place[o] \in Saves =>
          status[o] \in Settled /\ (o \in aborted => status[o] = "cancelled")

\* Whoever waits, waits for an operation of its session, a hard one to join.
WaitsForFlight ==
    \A r \in Request : place[r] \in Waits =>
       /\ on[r] \in Request /\ SessionOf[on[r]] = SessionOf[r]
       /\ status[on[r]] \in Settled \cup {"running"}
       /\ place[r] = "joined" /\ r \in Hard => on[r] \in Hard

ClosingWaits == shutdown # "up" => \A o \in Request : place[o] = "work" => o \in awaited

OrderlyInv ==
    /\ SchedulerTypeOK /\ FlightsWork /\ SlotsCounted /\ RecordsMatch /\ WaitsForFlight
    /\ ClosingWaits /\ HardRuns /\ CancelledIsReported /\ DrainedIsQuiet

-----------------------------------------------------------------------------
LEMMA SoftFinite == IsFiniteSet(SoftAtWork) /\ Cardinality(SoftAtWork) \in 0..Cardinality(Request)
<1>1. SoftAtWork \subseteq Request
  BY DEF SoftAtWork
<1> QED
  BY <1>1, SchedulerConstants, FS_Subset, FS_CardinalityType DEF SchedulerBounds

\* A soft operation that starts, and one that ends, change the count by one.
LEMMA SlotTaken ==
    ASSUME NEW r \in Request, place \in [Request -> Place], place[r] # "work",
           place' = [place EXCEPT ![r] = "work"]
    PROVE  Cardinality(SoftAtWork') =
              IF r \in Hard THEN Cardinality(SoftAtWork) ELSE Cardinality(SoftAtWork) + 1
<1>1. CASE r \in Hard
  <2>1. SoftAtWork' = SoftAtWork
    BY <1>1 DEF SoftAtWork
  <2> QED BY <1>1, <2>1
<1>2. CASE r \notin Hard
  <2>1. SoftAtWork' = SoftAtWork \cup {r}
    BY <1>2 DEF SoftAtWork
  <2>2. r \notin SoftAtWork
    BY DEF SoftAtWork
  <2> QED BY <1>2, <2>1, <2>2, SoftFinite, FS_AddElement
<1> QED BY <1>1, <1>2

LEMMA SlotReleased ==
    ASSUME NEW r \in Request, NEW p \in Place \ {"work"}, place \in [Request -> Place], place[r] = "work",
           place' = [place EXCEPT ![r] = p]
    PROVE  Cardinality(SoftAtWork') =
              IF r \in Hard THEN Cardinality(SoftAtWork) ELSE Cardinality(SoftAtWork) - 1
<1>1. CASE r \in Hard
  <2>1. SoftAtWork' = SoftAtWork
    BY <1>1 DEF SoftAtWork
  <2> QED BY <1>1, <2>1
<1>2. CASE r \notin Hard
  <2>1. SoftAtWork' = SoftAtWork \ {r}
    BY <1>2 DEF SoftAtWork
  <2>2. r \in SoftAtWork
    BY <1>2 DEF SoftAtWork
  <2> QED BY <1>2, <2>1, <2>2, SoftFinite, FS_RemoveElement
<1> QED BY <1>1, <1>2

LEMMA SlotKept ==
    ASSUME NEW r \in Request, NEW p \in Place \ {"work"}, place \in [Request -> Place], place[r] # "work",
           place' = [place EXCEPT ![r] = p]
    PROVE  SoftAtWork' = SoftAtWork
BY DEF SoftAtWork

\* The count stays in its range.
LEMMA OrderlyInit == SchedulerInit => OrderlyInv
<1> SUFFICES ASSUME SchedulerInit PROVE OrderlyInv
  OBVIOUS
<1> USE SchedulerConstants DEF SchedulerAssumption, SchedulerBounds, SchedulerInit
<1>1. SoftAtWork = {}
  BY DEF SoftAtWork
<1>2. Cardinality(SoftAtWork) = 0
  BY <1>1, FS_EmptySet
<1>3. SlotsCounted
  BY <1>2 DEF SlotsCounted
<1>4. SchedulerTypeOK
  BY <1>2, SoftFinite DEF SchedulerTypeOK, Place, Settled, HistoryFile
<1>5. FlightsWork
  BY DEF FlightsWork
<1>6. RecordsMatch /\ WaitsForFlight /\ ClosingWaits /\ HardRuns /\ CancelledIsReported /\ DrainedIsQuiet
  BY DEF RecordsMatch, Waits, Saves, WaitsForFlight, ClosingWaits, HardRuns, CancelledIsReported, DrainedIsQuiet
<1> QED BY <1>3, <1>4, <1>5, <1>6 DEF OrderlyInv

-----------------------------------------------------------------------------
\* The parts of the invariant that speak of records and waits, together.
Records == RecordsMatch /\ WaitsForFlight /\ HardRuns /\ CancelledIsReported

LEMMA PutOffKeeps ==
    ASSUME OrderlyInv, NEW r \in Request, place[r] \in {"new", "behind"}, PutOff(r),
           r \in Hard => shutdown # "up"
    PROVE  OrderlyInv'
<1> USE SchedulerConstants DEF SchedulerAssumption, SchedulerBounds, OrderlyInv, PutOff, scheduler, histories, closing
<1>1. SchedulerTypeOK'
  BY DEF SchedulerTypeOK, Place, Settled
<1>2. FlightsWork'
  BY DEF FlightsWork, SchedulerTypeOK
<1>3. SlotsCounted'
  <2>1. SoftAtWork' = SoftAtWork
    BY SlotKept DEF SchedulerTypeOK, Place
  <2> QED BY <2>1 DEF SlotsCounted
<1>4. RecordsMatch'
  BY DEF RecordsMatch, SchedulerTypeOK, Waits, Saves, Settled
<1>5. WaitsForFlight'
  BY DEF WaitsForFlight, RecordsMatch, SchedulerTypeOK, Waits, Settled
<1>6. ClosingWaits' /\ DrainedIsQuiet'
  BY DEF ClosingWaits, DrainedIsQuiet, SchedulerTypeOK
<1>7. HardRuns'
  BY DEF HardRuns, RecordsMatch, SchedulerTypeOK, Waits, Settled
<1>8. CancelledIsReported'
  BY DEF CancelledIsReported, RecordsMatch, SchedulerTypeOK, Waits
<1> QED BY <1>1, <1>2, <1>3, <1>4, <1>5, <1>6, <1>7, <1>8

LEMMA AwaitKeeps ==
    ASSUME OrderlyInv, NEW r \in Request, NEW p \in Waits, place[r] \in {"new", "behind"}, Await(r, p),
           Owner(r) # NoRequest, p = "joined" => Coalesces(r)
    PROVE  OrderlyInv'
<1> USE SchedulerConstants DEF SchedulerAssumption, SchedulerBounds, OrderlyInv, Await, scheduler, histories, closing
<1>0. /\ Owner(r) \in Request /\ place[Owner(r)] = "work" /\ SessionOf[Owner(r)] = SessionOf[r]
      /\ Owner(r) # r
  <2>1. SessionOf[r] \in Session /\ flight[SessionOf[r]] \in Request
    BY DEF Owner, SchedulerTypeOK
  <2>2. place[flight[SessionOf[r]]] = "work" /\ SessionOf[flight[SessionOf[r]]] = SessionOf[r]
    BY <2>1 DEF FlightsWork
  <2>3. place[r] # "work"
    BY DEF Waits
  <2> QED BY <2>1, <2>2, <2>3 DEF Owner
<1>1. SchedulerTypeOK'
  BY <1>0 DEF SchedulerTypeOK, Place, Waits
<1>2. FlightsWork'
  BY DEF FlightsWork, SchedulerTypeOK, Waits
<1>3. SlotsCounted'
  <2>1. SoftAtWork' = SoftAtWork
    BY SlotKept DEF SchedulerTypeOK, Place, Waits
  <2> QED BY <2>1 DEF SlotsCounted
<1>4. RecordsMatch'
  BY DEF RecordsMatch, SchedulerTypeOK, Waits, Saves, Settled
<1>5. WaitsForFlight'
  BY <1>0 DEF WaitsForFlight, RecordsMatch, SchedulerTypeOK, Waits, Settled, Coalesces
<1>6. ClosingWaits' /\ DrainedIsQuiet'
  BY DEF ClosingWaits, DrainedIsQuiet, SchedulerTypeOK, Waits
<1>7. HardRuns'
  BY DEF HardRuns, SchedulerTypeOK, Waits
<1>8. CancelledIsReported'
  BY DEF CancelledIsReported, SchedulerTypeOK, Waits
<1> QED BY <1>1, <1>2, <1>3, <1>4, <1>5, <1>6, <1>7, <1>8

LEMMA StartKeeps ==
    ASSUME OrderlyInv, NEW r \in Request, place[r] \in {"new", "behind"}, StartFlight(r),
           Owner(r) = NoRequest, ~Busy(r), shutdown = "up"
    PROVE  OrderlyInv'
<1> USE SchedulerConstants DEF SchedulerAssumption, SchedulerBounds, OrderlyInv, StartFlight, scheduler, histories, closing
<1>0. Cardinality(SoftAtWork') = IF r \in Hard THEN Cardinality(SoftAtWork) ELSE Cardinality(SoftAtWork) + 1
  BY SlotTaken DEF SchedulerTypeOK
<1>a. Cardinality(SoftAtWork') \in 0..Cardinality(Request)
  <2>1. SoftAtWork' \subseteq Request
    BY DEF SoftAtWork
  <2> QED BY <2>1, FS_Subset, FS_CardinalityType
<1>1. SchedulerTypeOK'
  <2>1. soft' \in 0..Cardinality(Request)
    BY <1>0, <1>a DEF SlotsCounted
  <2> QED BY <2>1 DEF SchedulerTypeOK, Place
<1>2. FlightsWork'
  BY DEF FlightsWork, SchedulerTypeOK, Owner
<1>3. SlotsCounted'
  BY <1>0, SoftFinite DEF SlotsCounted, Busy, SchedulerTypeOK
<1>4. RecordsMatch'
  BY DEF RecordsMatch, SchedulerTypeOK, Waits, Saves, Settled
<1>5. WaitsForFlight'
  BY DEF WaitsForFlight, SchedulerTypeOK, Waits, RecordsMatch, Settled
<1>6. ClosingWaits' /\ DrainedIsQuiet'
  BY DEF ClosingWaits, DrainedIsQuiet, SchedulerTypeOK
<1>7. HardRuns'
  BY DEF HardRuns, RecordsMatch, SchedulerTypeOK, Waits, Settled
<1>8. CancelledIsReported'
  BY DEF CancelledIsReported, SchedulerTypeOK
<1> QED BY <1>1, <1>2, <1>3, <1>4, <1>5, <1>6, <1>7, <1>8

LEMMA AskKeeps ==
    ASSUME OrderlyInv, NEW r \in Request, place[r] \in {"new", "behind"}, Ask(r)
    PROVE  OrderlyInv'
<1>1. CASE shutdown # "up"
  <2>1. PutOff(r)
    BY <1>1 DEF Ask
  <2> QED BY <1>1, <2>1, PutOffKeeps
<1>2. CASE shutdown = "up" /\ Owner(r) # NoRequest
  <2>1. Await(r, IF Coalesces(r) THEN "joined" ELSE "behind")
    BY <1>2 DEF Ask
  <2> QED BY <1>2, <2>1, AwaitKeeps DEF Waits
<1>3. CASE shutdown = "up" /\ Owner(r) = NoRequest
  <2>1. IF Busy(r) THEN PutOff(r) ELSE StartFlight(r)
    BY <1>3 DEF Ask
  <2>2. CASE Busy(r)
    BY <2>1, <2>2, PutOffKeeps DEF Busy
  <2>3. CASE ~Busy(r)
    BY <1>3, <2>1, <2>3, StartKeeps
  <2> QED BY <2>2, <2>3
<1> QED BY <1>1, <1>2, <1>3

LEMMA JoinKeeps ==
    ASSUME OrderlyInv, NEW r \in Request, JoinFlight(r)
    PROVE  OrderlyInv'
<1> USE SchedulerConstants DEF SchedulerAssumption, SchedulerBounds, OrderlyInv, JoinFlight, Resolved, scheduler, histories, closing
<1>0. on[r] \in Request /\ SessionOf[on[r]] = SessionOf[r] /\ status[on[r]] \in Settled /\ (r \in Hard => on[r] \in Hard)
  BY DEF WaitsForFlight, RecordsMatch, Waits, Settled
<1>1. SchedulerTypeOK'
  BY <1>0 DEF SchedulerTypeOK, Place
<1>2. FlightsWork'
  BY DEF FlightsWork, SchedulerTypeOK
<1>3. SlotsCounted'
  <2>1. SoftAtWork' = SoftAtWork
    BY SlotKept DEF SchedulerTypeOK, Place
  <2> QED BY <2>1 DEF SlotsCounted
<1>4. RecordsMatch'
  BY DEF RecordsMatch, SchedulerTypeOK, Waits, Saves
<1>5. WaitsForFlight'
  BY DEF WaitsForFlight, SchedulerTypeOK, Waits
<1>6. ClosingWaits' /\ DrainedIsQuiet'
  BY DEF ClosingWaits, DrainedIsQuiet, SchedulerTypeOK
<1>7. HardRuns'
  BY <1>0 DEF HardRuns, SchedulerTypeOK
<1>8. CancelledIsReported'
  BY DEF CancelledIsReported, RecordsMatch, SchedulerTypeOK, Waits
<1> QED BY <1>1, <1>2, <1>3, <1>4, <1>5, <1>6, <1>7, <1>8

LEMMA EndKeeps ==
    ASSUME OrderlyInv, NEW o \in Request, NEW s \in {"completed", "failed"}, End(o, s)
    PROVE  OrderlyInv'
<1> USE SchedulerConstants DEF SchedulerAssumption, SchedulerBounds, OrderlyInv, End, scheduler, histories, closing
<1>0. Cardinality(SoftAtWork') = IF o \in Hard THEN Cardinality(SoftAtWork) ELSE Cardinality(SoftAtWork) - 1
  BY SlotReleased DEF SchedulerTypeOK, Place
<1>a. Cardinality(SoftAtWork') \in 0..Cardinality(Request)
  <2>1. SoftAtWork' \subseteq Request
    BY DEF SoftAtWork
  <2> QED BY <2>1, FS_Subset, FS_CardinalityType
<1>b. Verdict(o, s) \in Settled /\ (o \in aborted => Verdict(o, s) = "cancelled")
  BY DEF Verdict, Settled
<1>1. SchedulerTypeOK'
  <2>1. soft' \in 0..Cardinality(Request)
    BY <1>0, <1>a DEF SlotsCounted, ReleaseSlot
  <2>2. flight' \in [Session -> Request \cup {NoRequest}]
    BY DEF SchedulerTypeOK, Clear
  <2> QED BY <1>b, <2>1, <2>2 DEF SchedulerTypeOK, Place
<1>2. FlightsWork'
  BY DEF FlightsWork, SchedulerTypeOK, Clear
<1>3. SlotsCounted'
  BY <1>0, SoftFinite DEF SlotsCounted, ReleaseSlot, SchedulerTypeOK
<1>4. RecordsMatch'
  BY <1>b DEF RecordsMatch, SchedulerTypeOK, Waits, Saves, Settled
<1>5. WaitsForFlight'
  BY <1>b DEF WaitsForFlight, SchedulerTypeOK, Waits
<1>6. ClosingWaits' /\ DrainedIsQuiet'
  BY DEF ClosingWaits, DrainedIsQuiet, SchedulerTypeOK
<1>7. HardRuns'
  BY DEF HardRuns, RecordsMatch, SchedulerTypeOK, Settled
<1>8. CancelledIsReported'
  BY DEF CancelledIsReported, SchedulerTypeOK
<1> QED BY <1>1, <1>2, <1>3, <1>4, <1>5, <1>6, <1>7, <1>8

LEMMA SaveKeeps ==
    ASSUME OrderlyInv, NEW o \in Request, ReadHistory(o) \/ WriteTemp(o) \/ RenameTemp(o)
    PROVE  OrderlyInv'
<1> USE SchedulerConstants DEF SchedulerAssumption, SchedulerBounds, OrderlyInv, scheduler, histories, closing
<1>0. /\ place[o] \in Saves
      /\ \E p \in Saves \cup {"done"} : place' = [place EXCEPT ![o] = p]
      /\ UNCHANGED <<on, scheduler, cancelled, closing>>
      /\ UNCHANGED outcome \/ outcome' = [outcome EXCEPT ![o] = status[o]]
      /\ place'[o] = "done" => outcome' = [outcome EXCEPT ![o] = status[o]]
  <2>1. CASE ReadHistory(o)
    BY <2>1 DEF ReadHistory, Saves, SchedulerTypeOK
  <2>2. CASE WriteTemp(o)
    BY <2>2 DEF WriteTemp, Saves, SchedulerTypeOK
  <2>3. CASE RenameTemp(o)
    BY <2>3 DEF RenameTemp, ResolveFlight, Saves, SchedulerTypeOK
  <2> QED BY <2>1, <2>2, <2>3
<1>1. PICK p \in Saves \cup {"done"} : place' = [place EXCEPT ![o] = p]
  BY <1>0
<1>2. SchedulerTypeOK'
  <2>1. observed' \in [Request -> SUBSET Request] /\ temp' \in [Session -> HistoryFile] /\ history' \in [Session -> SUBSET Request]
    <3>1. CASE ReadHistory(o)
      BY <3>1 DEF ReadHistory, SchedulerTypeOK
    <3>2. CASE WriteTemp(o)
      BY <3>2 DEF WriteTemp, SchedulerTypeOK, HistoryFile
    <3>3. CASE RenameTemp(o)
      BY <3>3 DEF RenameTemp, SchedulerTypeOK, HistoryFile
    <3> QED BY <3>1, <3>2, <3>3
  <2>2. place' \in [Request -> Place]
    BY <1>1 DEF SchedulerTypeOK, Place, Saves
  <2>3. outcome' \in [Request -> Settled \cup {"none", "deferred"}]
    BY <1>0 DEF SchedulerTypeOK, RecordsMatch
  <2> QED BY <1>0, <2>1, <2>2, <2>3 DEF SchedulerTypeOK
<1>3. FlightsWork'
  BY <1>0, <1>1 DEF FlightsWork, SchedulerTypeOK, Saves
<1>4. SlotsCounted'
  <2>1. SoftAtWork' = SoftAtWork
    BY <1>0, <1>1, SlotKept DEF SchedulerTypeOK, Place, Saves
  <2> QED BY <1>0, <2>1 DEF SlotsCounted
<1>5. RecordsMatch'
  BY <1>0, <1>1 DEF RecordsMatch, SchedulerTypeOK, Waits, Saves
<1>6. WaitsForFlight'
  BY <1>0, <1>1 DEF WaitsForFlight, SchedulerTypeOK, Waits, Saves
<1>7. ClosingWaits' /\ DrainedIsQuiet'
  BY <1>0, <1>1 DEF ClosingWaits, DrainedIsQuiet, SchedulerTypeOK, Saves
<1>8. HardRuns'
  BY <1>0, <1>1 DEF HardRuns, RecordsMatch, SchedulerTypeOK
<1>9. CancelledIsReported'
  BY <1>0, <1>1 DEF CancelledIsReported, RecordsMatch, SchedulerTypeOK
<1> QED BY <1>2, <1>3, <1>4, <1>5, <1>6, <1>7, <1>8, <1>9

LEMMA CancelKeeps ==
    ASSUME OrderlyInv, NEW r \in Request, CancelRun(r)
    PROVE  OrderlyInv'
<1> USE SchedulerConstants DEF SchedulerAssumption, SchedulerBounds, OrderlyInv, CancelRun, scheduler, histories, closing
<1>1. SchedulerTypeOK'
  BY DEF SchedulerTypeOK
<1>2. FlightsWork' /\ SlotsCounted' /\ WaitsForFlight' /\ ClosingWaits' /\ DrainedIsQuiet' /\ HardRuns'
  BY DEF FlightsWork, SlotsCounted, SoftAtWork, WaitsForFlight, ClosingWaits, DrainedIsQuiet, HardRuns
<1>3. RecordsMatch' /\ CancelledIsReported'
  BY DEF RecordsMatch, CancelledIsReported, FlightsWork, Waits, Saves
<1> QED BY <1>1, <1>2, <1>3

LEMMA ShutdownKeeps ==
    ASSUME OrderlyInv, Shutdown \/ Drained
    PROVE  OrderlyInv'
<1> USE SchedulerConstants DEF SchedulerAssumption, SchedulerBounds, OrderlyInv, scheduler, histories, closing
<1>1. CASE Shutdown
  <2> USE <1>1 DEF Shutdown, Dispose_Aborts
  <2>1. SchedulerTypeOK'
    BY DEF SchedulerTypeOK, FlightsWork, Awaited
  <2>2. FlightsWork' /\ SlotsCounted' /\ WaitsForFlight' /\ DrainedIsQuiet' /\ HardRuns'
    BY DEF FlightsWork, SlotsCounted, SoftAtWork, WaitsForFlight, DrainedIsQuiet, HardRuns
  <2>3. ClosingWaits'
    BY DEF ClosingWaits, Awaited, FlightsWork
  <2>4. RecordsMatch' /\ CancelledIsReported'
    BY DEF RecordsMatch, CancelledIsReported, FlightsWork, Waits, Saves
  <2> QED BY <2>1, <2>2, <2>3, <2>4
<1>2. CASE Drained
  <2> USE <1>2 DEF Drained
  <2>1. SchedulerTypeOK'
    BY DEF SchedulerTypeOK
  <2>2. FlightsWork' /\ SlotsCounted' /\ WaitsForFlight' /\ HardRuns' /\ RecordsMatch' /\ CancelledIsReported'
    BY DEF FlightsWork, SlotsCounted, SoftAtWork, WaitsForFlight, HardRuns, RecordsMatch, CancelledIsReported
  <2>3. ClosingWaits' /\ DrainedIsQuiet'
    BY DEF ClosingWaits, DrainedIsQuiet, Resolved
  <2> QED BY <2>1, <2>2, <2>3
<1> QED BY <1>1, <1>2

LEMMA OrderlyStep == OrderlyInv /\ [SchedulerNext]_schedulerVars => OrderlyInv'
<1> SUFFICES ASSUME OrderlyInv, [SchedulerNext]_schedulerVars PROVE OrderlyInv'
  OBVIOUS
<1>1. ASSUME NEW r \in Request, Submit(r) PROVE OrderlyInv'
  BY <1>1, AskKeeps DEF Submit
<1>2. ASSUME NEW r \in Request, CancelRun(r) PROVE OrderlyInv'
  BY <1>2, CancelKeeps
<1>3. ASSUME NEW r \in Request, Serve(r) PROVE OrderlyInv'
  <2>1. CASE Again(r)
    BY <2>1, AskKeeps DEF Again
  <2>2. CASE JoinFlight(r)
    BY <2>2, JoinKeeps
  <2>3. CASE ReadHistory(r) \/ WriteTemp(r) \/ RenameTemp(r)
    BY <2>3, SaveKeeps
  <2> QED BY <1>3, <2>1, <2>2, <2>3 DEF Serve
<1>4. ASSUME NEW r \in Request, Work(r) PROVE OrderlyInv'
  BY <1>4, EndKeeps DEF Work
<1>5. CASE Shutdown \/ Drained
  BY <1>5, ShutdownKeeps
<1>6. CASE UNCHANGED schedulerVars
  BY <1>6 DEF schedulerVars, OrderlyInv, scheduler, histories, closing, SchedulerTypeOK, FlightsWork, SlotsCounted,
     SoftAtWork, WaitsForFlight, HardRuns, RecordsMatch, CancelledIsReported, ClosingWaits, DrainedIsQuiet
<1> QED BY <1>1, <1>2, <1>3, <1>4, <1>5, <1>6 DEF SchedulerNext

\* No session has two flights, for both would be its flight.
LEMMA OneFlight == OrderlyInv => SingleFlight
<1> SUFFICES ASSUME OrderlyInv PROVE SingleFlight
  OBVIOUS
<1>1. ASSUME NEW s \in Session PROVE Cardinality(WorkOf(s)) <= 1
  <2>1. CASE WorkOf(s) = {}
    BY <2>1, FS_EmptySet
  <2>2. CASE WorkOf(s) # {}
    <3>1. PICK o \in WorkOf(s) : TRUE
      BY <2>2
    <3>2. WorkOf(s) = {o}
      BY <3>1 DEF WorkOf, OrderlyInv, FlightsWork
    <3> QED BY <3>2, FS_Singleton
  <2> QED BY <2>1, <2>2
<1> QED BY <1>1 DEF SingleFlight, OrderlyInv, SlotsCounted, SoftAtWork

(* CompactionIsOrderly: a session has one compaction at a time and a       *)
(* process no more soft ones than its slots, a hard request is never put   *)
(* off, one cancelled before it ended is reported so, and a shutdown that  *)
(* has drained leaves none at work.                                        *)
THEOREM CompactionsOrderly == SchedulerSpec => []CompactionIsOrderly
<1>1. SchedulerSpec => []OrderlyInv
  BY OrderlyInit, OrderlyStep, PTL DEF SchedulerSpec
<1>2. OrderlyInv => CompactionIsOrderly
  BY OneFlight DEF OrderlyInv, CompactionIsOrderly
<1> QED BY <1>1, <1>2, PTL

-----------------------------------------------------------------------------
(***************************************************************************)
(* SessionSummary                                                          *)
(***************************************************************************)

Ids == Seq(1..MaxMessages)
Texts == Op \cup {"old", "new"}
RecPhase == {"off", "lock", "read", "project", "apply", "unlink"}

\* The ids that attempts make: each summary covers more than the one before.
Grows(id) == Front(id) # << >> => Last(Front(id)) < Last(id)
Made == {id \in Ids : id # << >> /\ Grows(id)}
Summaries == [id : Made, text : Texts]
Transactions == [id : Made, text : Texts, committed : BOOLEAN, proposal : {"none", "open", "closed"}]
Attempts ==
    [at : OpPhase, span : (0..MaxMessages) \X (0..MaxMessages), prev : Made \cup {<< >>},
     id : Made \cup {<< >>}, got : SUBSET {"messages", "asked", "header"}, todo : SUBSET Made]

\* The disk, and what attempts hold of it.
DiskTyped ==
    /\ from \in 0..MaxMessages /\ to \in from..MaxMessages
    /\ header \in Summaries \cup {Nil}
    /\ records \subseteq Summaries
    /\ pending \cup failed \subseteq Transactions
    /\ \A t, u \in pending : t.id = u.id => t = u
    /\ deletes \in Nat /\ deleting \in BOOLEAN
AttemptsTyped ==
    /\ op \in [Op -> Attempts]
    /\ result \in [Op -> {"none", "compacted", "nothing", "failed"}]
RecoveriesTyped ==
    /\ rec = [p \in Process |-> rec[p]]
    /\ \A p \in Process :
          /\ rec[p] = [at |-> rec[p].at, todo |-> rec[p].todo, tx |-> rec[p].tx]
          /\ rec[p].at \in RecPhase

\* Whoever is at the journal holds the lock.
Committing == {"journal", "project", "apply", "unlink"}
LockHeld ==
    /\ lock \in Op \cup Process \cup {Nil}
    /\ \A o \in Op : op[o].at \in Committing => lock = o
    /\ \A p \in Process : rec[p].at \notin {"off", "lock"} => lock = p

\* An attempt has decided what it writes, has written its projection before the
\* header, and the header before it reports.
AttemptsOrdered ==
    \A o \in Op :
       /\ op[o].at \in Committing \cup {"summarize", "lock"} => op[o].id \in Made
       /\ op[o].at \in {"apply", "unlink"} => Summary(op[o].id, o) \in records \/ deletes > 0
       /\ op[o].at = "unlink" => ActiveId = op[o].id
       /\ result[o] # "none" => op[o].at \in {"sweep", "list", "close", "end"}

\* So has a recovery, whose transaction is the pending one of its id.
RecoveriesOrdered ==
    \A p \in Process :
       /\ rec[p].at \in {"project", "apply", "unlink"} =>
             rec[p].tx \in Transactions /\ \A u \in pending : u.id = rec[p].tx.id => u = rec[p].tx
       /\ rec[p].at \in {"apply", "unlink"} => SummaryOf(rec[p].tx) \in records \/ deletes > 0

DeletionCounted == deleting => deletes > 0

SummaryInv ==
    /\ DiskTyped /\ AttemptsTyped /\ RecoveriesTyped /\ LockHeld
    /\ AttemptsOrdered /\ RecoveriesOrdered /\ DeletionCounted
    /\ ActiveIsStored /\ CompactedIsActive /\ OpenIsNotIsolated
-----------------------------------------------------------------------------
(* Ids                                                                     *)

LEMMA FrontLast ==
    ASSUME NEW S, NEW s \in Seq(S), s # << >>
    PROVE  /\ Front(s) \in Seq(S) /\ Last(s) \in S
           /\ Len(Front(s)) = Len(s) - 1
           /\ s = Append(Front(s), Last(s))
           /\ \A i \in 1..(Len(s) - 1) : Front(s)[i] = s[i]
<1>1. Len(s) \in Nat \ {0} /\ \A i \in 1..Len(s) : s[i] \in S
  BY EmptySeq, ElementOfSeq
<1>2. Last(s) \in S
  BY <1>1 DEF Last
<1>3. /\ Front(s) \in Seq(S) /\ Len(Front(s)) = Len(s) - 1
      /\ \A i \in 1..(Len(s) - 1) : Front(s)[i] = s[i]
  <2>1. \A i \in 1..(Len(s) - 1) : s[i] \in S
    BY <1>1
  <2>2. /\ SubSeq(s, 1, Len(s) - 1) \in Seq(S)
        /\ Len(SubSeq(s, 1, Len(s) - 1)) = IF 1 <= Len(s) - 1 THEN Len(s) - 1 - 1 + 1 ELSE 0
        /\ \A i \in 1..(Len(s) - 1 - 1 + 1) : SubSeq(s, 1, Len(s) - 1)[i] = s[1 + i - 1]
    <3>1. 1 \in Int /\ Len(s) - 1 \in Int
      BY <1>1
    <3> QED BY ONLY <2>1, <3>1, SubSeqProperties
  <2>3. Front(s) = SubSeq(s, 1, Len(s) - 1)
    BY DEF Front
  <2>4. Len(Front(s)) = Len(s) - 1
    <3>1. CASE 1 <= Len(s) - 1
      BY <1>1, <2>2, <2>3, <3>1
    <3>2. CASE ~(1 <= Len(s) - 1)
      <4>1. Len(s) = 1
        BY <1>1, <3>2
      <4>2. Len(Front(s)) = 0
        BY ONLY <2>2, <2>3, <3>2
      <4> QED BY <4>1, <4>2
    <3> QED BY <3>1, <3>2
  <2>5. ASSUME NEW i \in 1..(Len(s) - 1) PROVE Front(s)[i] = s[i]
    <3>1. i \in 1..(Len(s) - 1 - 1 + 1) /\ 1 + i - 1 = i
      BY <1>1
    <3> QED BY <2>2, <2>3, <3>1
  <2> QED BY <2>2, <2>3, <2>4, <2>5
<1>4. s = Append(Front(s), Last(s))
  <2>1. Append(Front(s), Last(s)) \in Seq(S) /\ Len(Append(Front(s), Last(s))) = Len(s)
    BY <1>1, <1>2, <1>3, AppendProperties
  <2>2. ASSUME NEW i \in 1..Len(s) PROVE s[i] = Append(Front(s), Last(s))[i]
    <3>1. CASE i = Len(s)
      BY <1>1, <1>2, <1>3, <3>1, AppendProperties DEF Last
    <3>2. CASE i # Len(s)
      BY <1>1, <1>2, <1>3, <3>2, AppendProperties
    <3> QED BY <3>1, <3>2
  <2> QED BY <2>1, <2>2, SeqEqual
<1> QED BY <1>2, <1>3, <1>4

LEMMA FrontOfAppend ==
    ASSUME NEW S, NEW s \in Seq(S), NEW e \in S
    PROVE  /\ Append(s, e) \in Seq(S) \ {<< >>}
           /\ Front(Append(s, e)) = s /\ Last(Append(s, e)) = e
<1> DEFINE t == Append(s, e)
<1>1. /\ t \in Seq(S) /\ Len(t) = Len(s) + 1 /\ Len(s) \in Nat
      /\ \A i \in 1..Len(s) : t[i] = s[i]
      /\ t[Len(s) + 1] = e
  BY AppendProperties, LenProperties
<1>2. t # << >>
  BY <1>1, EmptySeq
<1>3. Last(t) = e
  BY <1>1 DEF Last
<1>4. Front(t) \in Seq(S) /\ Len(Front(t)) = Len(s) /\ \A i \in 1..Len(s) : Front(t)[i] = t[i]
  <2>1. /\ Front(t) \in Seq(S) /\ Len(Front(t)) = Len(t) - 1
        /\ \A i \in 1..(Len(t) - 1) : Front(t)[i] = t[i]
    <3> HIDE DEF t
    <3> QED BY <1>1, <1>2, FrontLast
  <2>2. Len(t) - 1 = Len(s)
    BY <1>1
  <2> QED BY <2>1, <2>2
<1>5. Front(t) = s
  BY <1>1, <1>4, SeqEqual
<1> QED BY <1>1, <1>2, <1>3, <1>5

LEMMA PrefixOfSelf ==
    ASSUME NEW S, NEW s \in Seq(S)
    PROVE  IsPrefix(s, s)
BY LenProperties DEF IsPrefix

\* What is a prefix of the front is a prefix of the whole.
LEMMA PrefixOfFront ==
    ASSUME NEW S, NEW s \in Seq(S), NEW t \in Seq(S), t # << >>, IsPrefix(s, Front(t))
    PROVE  IsPrefix(s, t)
<1>1. Front(t) \in Seq(S) /\ Last(t) \in S /\ t = Append(Front(t), Last(t)) /\ Len(Front(t)) = Len(t) - 1
  BY FrontLast
<1>2. Len(s) \in Nat /\ Len(t) \in Nat
  BY LenProperties
<1>3. Len(s) <= Len(t)
  BY <1>1, <1>2 DEF IsPrefix
<1>4. SubSeq(t, 1, Len(s)) = SubSeq(Front(t), 1, Len(s))
  <2>1. \A i \in 1..Len(s) : t[i] \in S /\ Front(t)[i] = t[i] /\ Front(t)[i] \in S
    <3>1. ASSUME NEW i \in 1..Len(s) PROVE t[i] \in S /\ Front(t)[i] = t[i] /\ Front(t)[i] \in S
      <4>1. i \in 1..Len(t) /\ i \in 1..(Len(t) - 1) /\ i \in 1..Len(Front(t))
        BY <1>1, <1>2 DEF IsPrefix
      <4> QED BY <4>1, FrontLast, ElementOfSeq
    <3> QED BY <3>1
  <2>2. /\ SubSeq(t, 1, Len(s)) \in Seq(S) /\ SubSeq(Front(t), 1, Len(s)) \in Seq(S)
        /\ Len(SubSeq(t, 1, Len(s))) = IF 1 <= Len(s) THEN Len(s) - 1 + 1 ELSE 0
        /\ Len(SubSeq(Front(t), 1, Len(s))) = IF 1 <= Len(s) THEN Len(s) - 1 + 1 ELSE 0
        /\ \A i \in 1..(Len(s) - 1 + 1) : SubSeq(t, 1, Len(s))[i] = t[1 + i - 1]
        /\ \A i \in 1..(Len(s) - 1 + 1) : SubSeq(Front(t), 1, Len(s))[i] = Front(t)[1 + i - 1]
    <3>1. 1 \in Int /\ Len(s) \in Int
      BY <1>2
    <3>2. \A i \in 1..Len(s) : t[i] \in S
      BY <2>1
    <3>3. \A i \in 1..Len(s) : Front(t)[i] \in S
      BY <2>1
    <3> QED BY ONLY <3>1, <3>2, <3>3, SubSeqProperties
  <2>3. Len(SubSeq(t, 1, Len(s))) = Len(SubSeq(Front(t), 1, Len(s)))
    BY <2>2
  <2>4. \A i \in 1..Len(SubSeq(t, 1, Len(s))) : SubSeq(t, 1, Len(s))[i] = SubSeq(Front(t), 1, Len(s))[i]
    BY <1>2, <2>1, <2>2
  <2> QED BY <2>2, <2>3, <2>4, SeqEqual
<1> QED BY <1>3, <1>4 DEF IsPrefix

\* The id of a summary, and of one that an attempt makes.
LEMMA MadeIds ==
    ASSUME NEW id \in Made
    PROVE  id \in Ids \ {<< >>} /\ Front(id) \in Ids /\ Last(id) \in 1..MaxMessages
           /\ id = Append(Front(id), Last(id)) /\ (Front(id) # << >> => Last(Front(id)) < Last(id))
BY FrontLast DEF Made, Ids, Grows

LEMMA MadeByAppend ==
    ASSUME NEW prev \in Made \cup {<< >>}, NEW e \in 1..MaxMessages, prev # << >> => Last(prev) < e
    PROVE  Append(prev, e) \in Made
<1> DEFINE S == 1..MaxMessages
<1>1. prev \in Seq(S) /\ e \in S
  BY EmptySeq DEF Made, Ids
<1>2. /\ Append(prev, e) \in Seq(S) \ {<< >>}
      /\ Front(Append(prev, e)) = prev /\ Last(Append(prev, e)) = e
  <2> HIDE DEF S
  <2> QED BY <1>1, FrontOfAppend
<1> QED BY <1>2 DEF Made, Ids, Grows

LEMMA ActiveTyped == DiskTyped => ActiveId \in Made \cup {<< >>} /\ ActiveId \in Ids
BY EmptySeq DEF DiskTyped, ActiveId, Summaries, Made, Ids

-----------------------------------------------------------------------------
(* What a step writes                                                      *)

\* A projection is added and never replaced.
LEMMA ProjectAdds ==
    ASSUME DiskTyped, NEW t, SummaryOf(t) \in Summaries, ~Conflicts(t), Project(t)
    PROVE  records \subseteq records' /\ SummaryOf(t) \in records' /\ records' \subseteq Summaries
<1>1. \A r \in records : r.id = t.id => r = SummaryOf(t)
  BY DEF DiskTyped, Conflicts, SummaryOf, Summary, Summaries
<1> QED BY <1>1 DEF DiskTyped, Project

LEMMA SummaryIsThere == Nil \notin Summaries
<1> SUFFICES ASSUME NEW s \in Summaries PROVE s # Nil
  OBVIOUS
<1>1. s.id \in Seq(1..MaxMessages) /\ s.text \in Texts /\ s = [id |-> s.id, text |-> s.text]
  BY DEF Summaries, Made, Ids
<1>2. s.id \in Seq(Nat)
  <2>1. 1..MaxMessages \subseteq Nat
    OBVIOUS
  <2> QED BY <1>1, <2>1, SeqMonotonic
<1> QED BY <1>1, <1>2, SummaryConstants DEF SummaryAssumption, Texts

\* The header goes to the summary itself, and keeps everything before it.
LEMMA ApplyExtends ==
    ASSUME DiskTyped, NEW t, SummaryOf(t) \in Summaries, Apply(t)
    PROVE  /\ header' \in Summaries /\ ActiveId' = t.id
           /\ header' \in {SummaryOf(t), header} /\ header' # Nil
           /\ \A s \in Ids : IsPrefix(s, ActiveId) => IsPrefix(s, t.id)
<1>0. t.id \in Made /\ SummaryOf(t).id = t.id /\ t.id # << >>
  BY DEF SummaryOf, Summary, Summaries, Made
<1>1. CASE Active(t)
  BY <1>0, <1>1 DEF Apply, Active, ActiveId, DiskTyped
<1>2. CASE ~Active(t)
  <2>1. Follows(t) /\ header' = SummaryOf(t)
    BY <1>2 DEF Apply
  <2>2. header' # Nil
    BY <2>1, SummaryIsThere
  <2>3. ActiveId' = t.id
    BY <1>0, <2>1, <2>2 DEF ActiveId
  <2>4. \A s \in Ids : IsPrefix(s, ActiveId) => IsPrefix(s, t.id)
    BY <1>0, <2>1, PrefixOfFront DEF Follows, Made, Ids
  <2> QED BY <2>1, <2>2, <2>3, <2>4
<1> QED BY <1>1, <1>2

-----------------------------------------------------------------------------
(* One attempt, one recovery                                               *)

LEMMA AttemptIs ==
    ASSUME AttemptsTyped, NEW o \in Op, NEW stage \in OpPhase, AttemptAt(o, stage)
    PROVE  op' = [op EXCEPT ![o] = [op[o] EXCEPT !.at = stage]] /\ [op[o] EXCEPT !.at = stage] \in Attempts
<1>1. op' = [op EXCEPT ![o] = [op[o] EXCEPT !.at = stage]]
  BY DEF AttemptAt
<1>2. op[o] \in Attempts
  BY DEF AttemptsTyped
<1>3. [op[o] EXCEPT !.at = stage] \in Attempts
  BY <1>2 DEF Attempts
<1> QED BY <1>1, <1>3

LEMMA RecoveryIs ==
    ASSUME RecoveriesTyped, NEW p \in Process, NEW r,
           r.at \in RecPhase, r = [at |-> r.at, todo |-> r.todo, tx |-> r.tx],
           rec' = [rec EXCEPT ![p] = r]
    PROVE  RecoveriesTyped' /\ rec'[p] = r /\ \A q \in Process \ {p} : rec'[q] = rec[q]
BY DEF RecoveriesTyped

LEMMA RecoveryAt ==
    ASSUME RecoveriesTyped, NEW p \in Process, NEW stage \in RecPhase, RecAt(p, stage)
    PROVE  /\ RecoveriesTyped'
           /\ rec'[p].at = stage /\ rec'[p].tx = rec[p].tx
           /\ \A q \in Process \ {p} : rec'[q] = rec[q]
<1>1. rec' = [rec EXCEPT ![p] = [at |-> stage, todo |-> rec[p].todo, tx |-> rec[p].tx]]
  <2>1. rec' = [rec EXCEPT ![p] = [rec[p] EXCEPT !.at = stage]]
    BY DEF RecAt
  <2>2. rec[p] = [at |-> rec[p].at, todo |-> rec[p].todo, tx |-> rec[p].tx]
    BY DEF RecoveriesTyped
  <2>3. [rec[p] EXCEPT !.at = stage] = [at |-> stage, todo |-> rec[p].todo, tx |-> rec[p].tx]
    BY <2>2
  <2> QED BY <2>1, <2>3
<1> QED BY <1>1 DEF RecoveriesTyped

LEMMA RecoveryOnward ==
    ASSUME RecoveriesTyped, NEW p \in Process, Onward(p)
    PROVE  /\ RecoveriesTyped' /\ rec'[p].at = "read"
           /\ \A q \in Process \ {p} : rec'[q] = rec[q]
<1>1. rec' = [rec EXCEPT ![p] = [at |-> "read", todo |-> Tail(rec[p].todo), tx |-> Nil]]
  BY DEF Onward
<1> QED BY <1>1 DEF RecoveriesTyped, RecPhase

\* Nobody's recovery moves, or one that was off begins.
RecMoves ==
    /\ RecoveriesTyped'
    /\ \A p \in Process : rec'[p] = rec[p] \/ (rec[p].at = "off" /\ rec'[p].at = "lock")

LEMMA StartMoves ==
    ASSUME RecoveriesTyped, NEW p \in Process, ~Recovering(p), StartRecovery(p)
    PROVE  RecMoves
<1>1. rec' = [rec EXCEPT ![p] = [at |-> "lock", todo |-> << >>, tx |-> Nil]]
  <2>1. [NoRec EXCEPT !.at = "lock"] = [at |-> "lock", todo |-> << >>, tx |-> Nil]
    BY DEF NoRec
  <2> QED BY <2>1 DEF StartRecovery
<1> QED BY <1>1 DEF RecMoves, RecoveriesTyped, RecPhase, Recovering

LEMMA ReadMoves ==
    ASSUME RecoveriesTyped, NEW p \in Process, Read(p)
    PROVE  RecMoves
<1>1. CASE UNCHANGED rec
  BY <1>1 DEF RecMoves, RecoveriesTyped
<1>2. CASE ~Recovering(p) /\ StartRecovery(p)
  BY <1>2, StartMoves
<1> QED BY <1>1, <1>2 DEF Read

-----------------------------------------------------------------------------
(* The steps that leave disk and lock alone                                *)

\* An attempt moves to a stage without the lock.
LEMMA AttemptMoves ==
    ASSUME SummaryInv, RecMoves, UNCHANGED <<disk, lock, deleting, deletes>>,
           NEW o \in Op, NEW a \in Attempts, NEW v \in {"none", "compacted", "nothing", "failed"},
           op' = [op EXCEPT ![o] = a], result' = [result EXCEPT ![o] = v],
           a.at \notin Committing, a.at \in {"summarize", "lock"} => a.id \in Made,
           v # "none" => a.at \in {"sweep", "list", "close", "end"},
           v = "compacted" => result[o] = "compacted" /\ a.id = op[o].id
    PROVE  SummaryInv'
<1> USE DEF SummaryInv, disk
<1>1. DiskTyped' /\ DeletionCounted' /\ ActiveIsStored' /\ OpenIsNotIsolated'
  BY DEF DiskTyped, DeletionCounted, ActiveIsStored, OpenIsNotIsolated
<1>2. AttemptsTyped' /\ RecoveriesTyped'
  BY DEF AttemptsTyped, RecMoves
<1>3. LockHeld'
  BY DEF LockHeld, AttemptsTyped, RecMoves
<1>4. AttemptsOrdered'
  BY DEF AttemptsOrdered, AttemptsTyped, ActiveId, Committing
<1>5. RecoveriesOrdered'
  BY DEF RecoveriesOrdered, RecMoves
<1>6. CompactedIsActive'
  BY DEF CompactedIsActive, AttemptsTyped, ActiveId
<1> QED BY <1>1, <1>2, <1>3, <1>4, <1>5, <1>6

\* The same, where only the stage changes.
LEMMA AttemptWaits ==
    ASSUME SummaryInv, RecMoves, UNCHANGED <<disk, lock, deleting, deletes, result>>,
           NEW o \in Op, NEW stage \in OpPhase \ Committing, AttemptAt(o, stage),
           stage \in {"summarize", "lock"} => op[o].id \in Made,
           result[o] # "none" => stage \in {"sweep", "list", "close", "end"}
    PROVE  SummaryInv'
<1> DEFINE a == [op[o] EXCEPT !.at = stage]
<1>1. op' = [op EXCEPT ![o] = a] /\ a \in Attempts /\ a.at = stage /\ a.id = op[o].id
  BY AttemptIs DEF SummaryInv, AttemptsTyped, Attempts
<1>2. result' = [result EXCEPT ![o] = result[o]] /\ result[o] \in {"none", "compacted", "nothing", "failed"}
  BY DEF SummaryInv, AttemptsTyped
<1> HIDE DEF a
<1> QED BY <1>1, <1>2, AttemptMoves

LEMMA AttemptFails ==
    ASSUME SummaryInv, RecMoves, UNCHANGED <<disk, lock, deleting, deletes>>,
           NEW o \in Op, FailAttempt(o)
    PROVE  SummaryInv'
<1> DEFINE a == [op[o] EXCEPT !.at = "end"]
<1>1. op' = [op EXCEPT ![o] = a] /\ a \in Attempts /\ a.at = "end"
  <2>1. op[o] \in Attempts /\ "end" \in OpPhase
    BY DEF SummaryInv, AttemptsTyped, OpPhase
  <2>2. a.at = "end"
    BY <2>1 DEF Attempts
  <2> QED BY <2>1, <2>2, AttemptIs DEF FailAttempt, SummaryInv
<1>2. result' = [result EXCEPT ![o] = "failed"]
  BY DEF FailAttempt
<1> HIDE DEF a
<1> QED BY <1>1, <1>2, AttemptMoves DEF Committing

LEMMA StillMoves ==
    ASSUME RecoveriesTyped, UNCHANGED rec
    PROVE  RecMoves
BY DEF RecMoves, RecoveriesTyped

LEMMA BeginKeeps == ASSUME SummaryInv, NEW o \in Op, Begin(o) PROVE SummaryInv'
<1>1. RecMoves
  BY StillMoves DEF Begin, SummaryInv
<1>2. result[o] = "none"
  BY DEF Begin, SummaryInv, AttemptsOrdered
<1> QED BY <1>1, <1>2, AttemptWaits DEF Begin, summaryBounds, OpPhase, Committing

LEMMA SweepKeeps == ASSUME SummaryInv, NEW o \in Op, Sweep(o) PROVE SummaryInv'
<1>1. RecMoves
  BY ReadMoves, SummaryConstants DEF Sweep, SummaryInv, P, SummaryAssumption
<1> QED BY <1>1, AttemptWaits DEF Sweep, summaryBounds, OpPhase, Committing

LEMMA ListKeeps == ASSUME SummaryInv, NEW o \in Op, ListPending(o) PROVE SummaryInv'
<1> DEFINE ids == {t.id : t \in {u \in pending : Listed(u)}}
           a == [op[o] EXCEPT !.at = "close", !.todo = ids]
<1>1. RecMoves
  BY StillMoves DEF ListPending, SummaryInv
<1>2. ids \subseteq Made
  BY DEF SummaryInv, DiskTyped, Transactions
<1>3. op' = [op EXCEPT ![o] = a] /\ a \in Attempts /\ a.at = "close" /\ a.id = op[o].id
  <2> HIDE DEF ids
  <2>1. op' = [op EXCEPT ![o].at = "close", ![o].todo = ids]
    BY DEF ListPending, ids
  <2>2. op' = [op EXCEPT ![o] = a]
    BY <2>1
  <2>3. op[o] \in Attempts
    BY DEF SummaryInv, AttemptsTyped
  <2>4. a \in Attempts /\ a.at = "close" /\ a.id = op[o].id
    BY <1>2, <2>3 DEF Attempts, OpPhase
  <2> QED BY <2>2, <2>4
<1>4. result' = [result EXCEPT ![o] = result[o]] /\ result[o] \in {"none", "compacted", "nothing", "failed"}
  BY DEF ListPending, SummaryInv, AttemptsTyped
<1> HIDE DEF a
<1> QED BY <1>1, <1>3, <1>4, AttemptMoves DEF ListPending, summaryBounds, Committing

LEMMA EndSweepKeeps == ASSUME SummaryInv, NEW o \in Op, EndSweep(o) PROVE SummaryInv'
<1>1. RecMoves
  BY StillMoves DEF EndSweep, SummaryInv
<1>2. CASE result[o] = "none"
  BY <1>1, <1>2, AttemptWaits DEF EndSweep, summaryBounds, OpPhase, Committing
<1>3. CASE result[o] # "none"
  BY <1>1, <1>3, AttemptWaits DEF EndSweep, summaryBounds, OpPhase, Committing
<1> QED BY <1>2, <1>3

LEMMA LookKeeps == ASSUME SummaryInv, NEW o \in Op, Look(o) PROVE SummaryInv'
<1>1. RecMoves
  BY StillMoves, ReadMoves, SummaryConstants DEF Look, SummaryInv, P, SummaryAssumption
<1>b. op[o] \in Attempts /\ op[o].at = "look"
  BY DEF Look, SummaryInv, AttemptsTyped
<1>2. PICK a \in Attempts : op' = [op EXCEPT ![o] = a] /\ a.at = "look" /\ a.id = op[o].id
  <2>1. CASE op' = [op EXCEPT ![o].got = @ \cup {"messages"}, ![o].span = <<from, to>>]
    <3> DEFINE a == [op[o] EXCEPT !.got = @ \cup {"messages"}, !.span = <<from, to>>]
    <3>1. <<from, to>> \in (0..MaxMessages) \X (0..MaxMessages)
      BY SummaryConstants DEF SummaryInv, DiskTyped, SummaryBounds
    <3>2. op' = [op EXCEPT ![o] = a]
      BY <2>1
    <3>3. a \in Attempts /\ a.at = "look" /\ a.id = op[o].id
      BY <1>b, <3>1 DEF Attempts
    <3> HIDE DEF a
    <3> QED BY <3>2, <3>3
  <2>2. CASE op' = [op EXCEPT ![o].got = @ \cup {"asked"}]
    <3> DEFINE a == [op[o] EXCEPT !.got = @ \cup {"asked"}]
    <3>2. op' = [op EXCEPT ![o] = a]
      BY <2>2
    <3>3. a \in Attempts /\ a.at = "look" /\ a.id = op[o].id
      BY <1>b DEF Attempts
    <3> HIDE DEF a
    <3> QED BY <3>2, <3>3
  <2>3. CASE op' = [op EXCEPT ![o].got = @ \cup {"header"}, ![o].prev = ActiveId]
    <3> DEFINE a == [op[o] EXCEPT !.got = @ \cup {"header"}, !.prev = ActiveId]
    <3>1. ActiveId \in Made \cup {<< >>}
      BY ActiveTyped DEF SummaryInv
    <3>2. op' = [op EXCEPT ![o] = a]
      BY <2>3
    <3>3. a \in Attempts /\ a.at = "look" /\ a.id = op[o].id
      BY <1>b, <3>1 DEF Attempts
    <3> HIDE DEF a
    <3> QED BY <3>2, <3>3
  <2> QED BY <2>1, <2>2, <2>3 DEF Look
<1>3. result' = [result EXCEPT ![o] = result[o]] /\ result[o] = "none"
  BY DEF Look, SummaryInv, AttemptsTyped, AttemptsOrdered
<1> QED BY <1>1, <1>2, <1>3, AttemptMoves DEF Look, summaryBounds, Committing

LEMMA DecideKeeps == ASSUME SummaryInv, NEW o \in Op, Decide(o) PROVE SummaryInv'
<1> DEFINE start == op[o].span[1]
           last == op[o].span[2]
           base == IF op[o].prev = << >> THEN start ELSE Last(op[o].prev)
           end == last - KeepRecent
<1>0. /\ op[o].at = "look" /\ UNCHANGED <<disk, lock, rec, deleting, summaryBounds>>
      /\ \/ base \notin start..last /\ FailAttempt(o)
         \/ /\ base \in start..last /\ end > base
            /\ op' = [op EXCEPT ![o].at = "summarize", ![o].id = Append(op[o].prev, end)]
            /\ UNCHANGED result
         \/ /\ base \in start..last /\ end <= base
            /\ result' = [result EXCEPT ![o] = "nothing"] /\ AttemptAt(o, "end")
  BY DEF Decide
<1>1. RecMoves
  BY <1>0, StillMoves DEF SummaryInv
<1>2. UNCHANGED <<disk, lock, deleting, deletes>>
  BY <1>0 DEF summaryBounds
<1>3. CASE FailAttempt(o)
  BY <1>1, <1>2, <1>3, AttemptFails
<1>4. CASE /\ base \in start..last /\ end > base
           /\ op' = [op EXCEPT ![o].at = "summarize", ![o].id = Append(op[o].prev, end)]
           /\ UNCHANGED result
  <2>1. start \in 0..MaxMessages /\ last \in 0..MaxMessages /\ op[o].prev \in Made \cup {<< >>}
    BY DEF SummaryInv, AttemptsTyped, Attempts
  <2>2. end \in 1..MaxMessages /\ (op[o].prev # << >> => Last(op[o].prev) < end)
    <3>1. KeepRecent \in Nat \ {0} /\ MaxMessages \in Nat
      BY SummaryConstants DEF SummaryAssumption, SummaryBounds
    <3>2. base \in 0..MaxMessages
      BY <1>4, <2>1, <3>1
    <3>3. end \in 1..MaxMessages
      BY <1>4, <2>1, <3>1, <3>2
    <3> QED BY <1>4, <3>3
  <2> HIDE DEF end
  <2>3. Append(op[o].prev, end) \in Made
    BY <2>1, <2>2, MadeByAppend
  <2> DEFINE a == [op[o] EXCEPT !.at = "summarize", !.id = Append(op[o].prev, end)]
  <2>4. op' = [op EXCEPT ![o] = a] /\ a \in Attempts /\ a.at = "summarize" /\ a.id \in Made
    <3>1. op' = [op EXCEPT ![o] = a]
      BY <1>4 DEF end
    <3>2. op[o] \in Attempts
      BY DEF SummaryInv, AttemptsTyped
    <3>3. a \in Attempts /\ a.at = "summarize" /\ a.id \in Made
      BY <2>3, <3>2 DEF Attempts, OpPhase
    <3> QED BY <3>1, <3>3
  <2>5. result' = [result EXCEPT ![o] = result[o]] /\ result[o] = "none"
    BY <1>0, <1>4 DEF SummaryInv, AttemptsTyped, AttemptsOrdered
  <2> HIDE DEF a
  <2> QED BY <1>1, <1>2, <2>4, <2>5, AttemptMoves DEF Committing
<1>5. CASE result' = [result EXCEPT ![o] = "nothing"] /\ AttemptAt(o, "end")
  <2> DEFINE a == [op[o] EXCEPT !.at = "end"]
  <2>1. op' = [op EXCEPT ![o] = a] /\ a \in Attempts /\ a.at = "end"
    <3>1. op[o] \in Attempts /\ "end" \in OpPhase
      BY DEF SummaryInv, AttemptsTyped, OpPhase
    <3>2. a.at = "end"
      BY <3>1 DEF Attempts
    <3> QED BY <1>5, <3>1, <3>2, AttemptIs DEF SummaryInv
  <2> HIDE DEF a
  <2> QED BY <1>1, <1>2, <1>5, <2>1, AttemptMoves DEF Committing
<1> QED BY <1>0, <1>3, <1>4, <1>5

LEMMA SummarizeKeeps == ASSUME SummaryInv, NEW o \in Op, Summarize(o) \/ Abort(o) PROVE SummaryInv'
<1>1. RecMoves
  BY StillMoves DEF Summarize, Abort, SummaryInv
<1>2. op[o].at = "summarize" /\ op[o].id \in Made /\ result[o] = "none"
  BY DEF Summarize, Abort, SummaryInv, AttemptsOrdered, AttemptsTyped
<1>3. CASE Summarize(o)
  BY <1>1, <1>2, <1>3, AttemptWaits DEF Summarize, summaryBounds, OpPhase, Committing
<1>4. CASE Abort(o)
  BY <1>1, <1>4, AttemptFails DEF Abort, Keep, disk
<1> QED BY <1>3, <1>4

-----------------------------------------------------------------------------
(* The journal under the lock                                              *)

\* While the lock is free nobody is at the journal; while somebody is, nobody
\* else is.
LEMMA FreeLockIdle ==
    ASSUME LockHeld, lock = Nil
    PROVE  /\ \A o \in Op : op[o].at \notin Committing
           /\ \A p \in Process : rec[p].at \in {"off", "lock"}
BY SummaryConstants DEF LockHeld, SummaryAssumption

LEMMA OneCommits ==
    ASSUME LockHeld, NEW o \in Op, op[o].at \in Committing
    PROVE  /\ lock = o
           /\ \A q \in Op \ {o} : op[q].at \notin Committing
           /\ \A p \in Process : rec[p].at \in {"off", "lock"}
BY SummaryConstants DEF LockHeld, SummaryAssumption

LEMMA OneRecovers ==
    ASSUME LockHeld, NEW p \in Process, rec[p].at \notin {"off", "lock"}
    PROVE  /\ lock = p
           /\ \A o \in Op : op[o].at \notin Committing
           /\ \A q \in Process \ {p} : rec[q].at \in {"off", "lock"}
BY SummaryConstants DEF LockHeld, SummaryAssumption

LEMMA MadeAreIds == Made \cup {<< >>} \subseteq Ids
<1>1. Made \subseteq Ids
  BY DEF Made
<1>2. << >> \in Ids
  <2> DEFINE S == 1..MaxMessages
  <2>1. << >> \in Seq(S)
    <3> HIDE DEF S
    <3> QED BY EmptySeq
  <2> QED BY <2>1 DEF Ids
<1> QED BY <1>1, <1>2

\* What every write leaves of the disk.
DiskKept ==
    /\ DiskTyped' /\ ActiveIsStored' /\ OpenIsNotIsolated'
    /\ UNCHANGED <<deleting, deletes>>
    /\ \A s \in Ids : IsPrefix(s, ActiveId) => IsPrefix(s, ActiveId')

LEMMA UntouchedKept ==
    ASSUME SummaryInv, UNCHANGED <<disk, deleting, deletes>>
    PROVE  DiskKept
BY DEF DiskKept, disk, SummaryInv, DiskTyped, ActiveIsStored, OpenIsNotIsolated, ActiveId

\* A recovery that is at the journal moves on.
LEMMA RecoveryMoves ==
    ASSUME SummaryInv, DiskKept, UNCHANGED <<op, result>>,
           NEW p \in Process, rec[p].at \notin {"off", "lock"} \/ lock = Nil,
           RecoveriesTyped', \A q \in Process \ {p} : rec'[q] = rec[q],
           \/ lock' = p /\ rec'[p].at \in {"read", "project", "apply", "unlink"}
           \/ lock' = Nil /\ rec'[p].at = "off",
           rec'[p].at \in {"project", "apply", "unlink"} =>
              rec'[p].tx \in Transactions /\ \A u \in pending' : u.id = rec'[p].tx.id => u = rec'[p].tx,
           rec'[p].at \in {"apply", "unlink"} => SummaryOf(rec'[p].tx) \in records' \/ deletes > 0
    PROVE  SummaryInv'
<1>1. /\ \A o \in Op : op[o].at \notin Committing
      /\ \A q \in Process \ {p} : rec[q].at \in {"off", "lock"}
  <2>1. CASE lock = Nil
    BY <2>1, FreeLockIdle DEF SummaryInv
  <2>2. CASE rec[p].at \notin {"off", "lock"}
    BY <2>2, OneRecovers DEF SummaryInv
  <2> QED BY <2>1, <2>2
<1>2. DiskTyped' /\ ActiveIsStored' /\ OpenIsNotIsolated'
  BY DEF DiskKept
<1>3. AttemptsTyped' /\ DeletionCounted'
  BY DEF SummaryInv, AttemptsTyped, DeletionCounted, DiskKept
<1>4. LockHeld'
  BY <1>1 DEF SummaryInv, LockHeld
<1>5. AttemptsOrdered'
  BY <1>1 DEF SummaryInv, AttemptsOrdered, Committing
<1>6. RecoveriesOrdered'
  <2>1. deletes' = deletes
    BY DEF DiskKept
  <2> QED BY <1>1, <2>1 DEF RecoveriesOrdered
<1>7. CompactedIsActive'
  <2>1. \A o \in Op : op[o].id \in Ids
    BY MadeAreIds DEF SummaryInv, AttemptsTyped, Attempts
  <2> QED BY <2>1 DEF SummaryInv, CompactedIsActive, DiskKept
<1> QED BY <1>2, <1>3, <1>4, <1>5, <1>6, <1>7 DEF SummaryInv

\* An attempt at the journal moves on, or leaves it.
LEMMA CommitMoves ==
    ASSUME SummaryInv, DiskKept, UNCHANGED rec,
           NEW o \in Op, NEW a \in Attempts, NEW v \in {"none", "compacted", "nothing", "failed"},
           op[o].at \in Committing \/ lock = Nil, a.id = op[o].id, a.id \in Made,
           op' = [op EXCEPT ![o] = a], result' = [result EXCEPT ![o] = v],
           \/ lock' = o /\ a.at \in Committing
           \/ lock' = Nil /\ a.at \notin Committing,
           a.at \in {"apply", "unlink"} => Summary(a.id, o) \in records' \/ deletes > 0,
           a.at = "unlink" => ActiveId' = a.id,
           v # "none" => a.at \in {"sweep", "list", "close", "end"},
           v = "compacted" => IsPrefix(a.id, ActiveId')
    PROVE  SummaryInv'
<1>1. /\ \A q \in Op \ {o} : op[q].at \notin Committing
      /\ \A p \in Process : rec[p].at \in {"off", "lock"}
  <2>1. CASE lock = Nil
    BY <2>1, FreeLockIdle DEF SummaryInv
  <2>2. CASE op[o].at \in Committing
    BY <2>2, OneCommits DEF SummaryInv
  <2> QED BY <2>1, <2>2
<1>2. DiskTyped' /\ ActiveIsStored' /\ OpenIsNotIsolated'
  BY DEF DiskKept
<1>3. AttemptsTyped' /\ RecoveriesTyped' /\ DeletionCounted'
  BY DEF SummaryInv, AttemptsTyped, RecoveriesTyped, DeletionCounted, DiskKept
<1>4. op'[o] = a /\ result'[o] = v /\ \A q \in Op \ {o} : op'[q] = op[q] /\ result'[q] = result[q]
  BY DEF SummaryInv, AttemptsTyped
<1>5. LockHeld'
  BY <1>1, <1>4 DEF SummaryInv, LockHeld
<1>6. AttemptsOrdered'
  <2>1. deletes' = deletes
    BY DEF DiskKept
  <2>2. ASSUME NEW q \in Op \ {o}
        PROVE  /\ op'[q].at \notin Committing
               /\ op'[q].at = "summarize" \/ op'[q].at = "lock" => op'[q].id \in Made
               /\ result'[q] # "none" => op'[q].at \in {"sweep", "list", "close", "end"}
    BY <1>1, <1>4 DEF SummaryInv, AttemptsOrdered
  <2> QED BY <1>4, <2>1, <2>2 DEF AttemptsOrdered, Committing
<1>7. RecoveriesOrdered'
  BY <1>1 DEF RecoveriesOrdered
<1>8. CompactedIsActive'
  <2>1. \A q \in Op : op[q].id \in Ids
    BY MadeAreIds DEF SummaryInv, AttemptsTyped, Attempts
  <2>2. ASSUME NEW q \in Op, result'[q] = "compacted" PROVE deletes' > 0 \/ IsPrefix(op'[q].id, ActiveId')
    <3>1. CASE q = o
      BY <1>4, <2>2, <3>1
    <3>2. CASE q # o
      BY <1>4, <2>1, <2>2, <3>2 DEF SummaryInv, CompactedIsActive, DiskKept
    <3> QED BY <3>1, <3>2
  <2> QED BY <2>2 DEF CompactedIsActive
<1> QED BY <1>2, <1>3, <1>5, <1>6, <1>7, <1>8 DEF SummaryInv

-----------------------------------------------------------------------------
(* The steps of a recovery                                                 *)

LEMMA LoadKeeps == ASSUME SummaryInv, NEW p \in Process, Load(p) PROVE SummaryInv'
<1>1. RecMoves
  BY StartMoves DEF Load, SummaryInv
<1>2. UNCHANGED <<disk, op, result, lock, deleting, deletes>>
  BY DEF Load, summaryBounds
<1> USE DEF SummaryInv, disk
<1>3. DiskTyped' /\ DeletionCounted' /\ ActiveIsStored' /\ OpenIsNotIsolated'
  BY <1>2 DEF DiskTyped, DeletionCounted, ActiveIsStored, OpenIsNotIsolated
<1>4. AttemptsTyped' /\ RecoveriesTyped'
  BY <1>1, <1>2 DEF AttemptsTyped, RecMoves
<1>5. LockHeld' /\ RecoveriesOrdered'
  BY <1>1, <1>2 DEF LockHeld, RecoveriesOrdered, RecMoves
<1>6. AttemptsOrdered' /\ CompactedIsActive'
  BY <1>2 DEF AttemptsOrdered, CompactedIsActive, ActiveId
<1> QED BY <1>3, <1>4, <1>5, <1>6

LEMMA LockRecoveryKeeps == ASSUME SummaryInv, NEW p \in Process, LockRecovery(p) PROVE SummaryInv'
<1>1. DiskKept
  BY UntouchedKept DEF LockRecovery, summaryBounds
<1> DEFINE r == [at |-> "read", todo |-> PendingNames, tx |-> Nil]
<1>2. RecoveriesTyped' /\ rec'[p].at = "read" /\ \A q \in Process \ {p} : rec'[q] = rec[q]
  <2>1. rec' = [rec EXCEPT ![p] = r] /\ r.at = "read" /\ r = [at |-> r.at, todo |-> r.todo, tx |-> r.tx]
    BY DEF LockRecovery
  <2>2. RecoveriesTyped /\ "read" \in RecPhase
    BY DEF SummaryInv, RecPhase
  <2> HIDE DEF r
  <2> QED BY ONLY <2>1, <2>2, RecoveryIs
<1> QED BY <1>1, <1>2, RecoveryMoves DEF LockRecovery

LEMMA ReadTransactionKeeps ==
    ASSUME SummaryInv, NEW p \in Process, ReadTransaction(p) PROVE SummaryInv'
<1>1. DiskKept /\ UNCHANGED <<pending, lock>> /\ rec[p].at = "read"
  BY UntouchedKept DEF ReadTransaction, summaryBounds, disk
<1>2. PICK t \in pending : rec' = [rec EXCEPT ![p].at = "project", ![p].tx = t]
  BY DEF ReadTransaction
<1> DEFINE r == [at |-> "project", todo |-> rec[p].todo, tx |-> t]
<1>3. /\ RecoveriesTyped' /\ rec'[p].at = "project" /\ rec'[p].tx = t
      /\ \A q \in Process \ {p} : rec'[q] = rec[q]
  <2>1. rec' = [rec EXCEPT ![p] = [rec[p] EXCEPT !.at = "project", !.tx = t]]
    BY <1>2
  <2>2. [rec[p] EXCEPT !.at = "project", !.tx = t] = r
    <3>1. rec[p] = [at |-> rec[p].at, todo |-> rec[p].todo, tx |-> rec[p].tx]
      BY DEF SummaryInv, RecoveriesTyped
    <3>2. [[rec[p] EXCEPT !.at = "project"] EXCEPT !.tx = t] = r
      <4>1. [rec[p] EXCEPT !.at = "project"] = [at |-> "project", todo |-> rec[p].todo, tx |-> rec[p].tx]
        BY <3>1
      <4> DEFINE y == [rec[p] EXCEPT !.at = "project"]
      <4> HIDE DEF y
      <4>2. y = [at |-> "project", todo |-> rec[p].todo, tx |-> rec[p].tx]
        BY <4>1 DEF y
      <4>3. [y EXCEPT !.tx = t] = [at |-> "project", todo |-> rec[p].todo, tx |-> t]
        BY ONLY <4>2
      <4> QED BY <4>3 DEF y
    <3> QED BY <3>2
  <2>3. rec' = [rec EXCEPT ![p] = r] /\ r.at = "project" /\ r.tx = t
        /\ r = [at |-> r.at, todo |-> r.todo, tx |-> r.tx]
    BY <2>1, <2>2
  <2>4. RecoveriesTyped /\ "project" \in RecPhase
    BY DEF SummaryInv, RecPhase
  <2> HIDE DEF r
  <2> QED BY ONLY <2>3, <2>4, RecoveryIs
<1>4. lock' = p
  BY <1>1, OneRecovers DEF SummaryInv
<1>5. t \in Transactions /\ \A u \in pending' : u.id = t.id => u = t
  BY <1>1 DEF SummaryInv, DiskTyped
<1> QED BY <1>1, <1>3, <1>4, <1>5, RecoveryMoves DEF ReadTransaction

LEMMA EndRecoveryKeeps == ASSUME SummaryInv, NEW p \in Process, EndRecovery(p) PROVE SummaryInv'
<1>1. DiskKept /\ rec[p].at = "read"
  BY UntouchedKept DEF EndRecovery, summaryBounds
<1>2. RecoveriesTyped' /\ rec'[p].at = "off" /\ \A q \in Process \ {p} : rec'[q] = rec[q]
  <2>1. rec' = [rec EXCEPT ![p] = NoRec] /\ NoRec.at = "off"
        /\ NoRec = [at |-> NoRec.at, todo |-> NoRec.todo, tx |-> NoRec.tx]
    BY DEF EndRecovery, NoRec
  <2>2. RecoveriesTyped /\ "off" \in RecPhase
    BY DEF SummaryInv, RecPhase
  <2> QED BY ONLY <2>1, <2>2, RecoveryIs
<1> QED BY <1>1, <1>2, RecoveryMoves DEF EndRecovery

\* The transaction in a recovery's hands.
LEMMA TxIs ==
    ASSUME SummaryInv, NEW p \in Process, rec[p].at \in {"project", "apply", "unlink"}
    PROVE  /\ Tx(p) \in Transactions /\ SummaryOf(Tx(p)) \in Summaries
           /\ \A u \in pending : u.id = Tx(p).id => u = Tx(p)
           /\ lock = p
<1>1. Tx(p) \in Transactions /\ \A u \in pending : u.id = Tx(p).id => u = Tx(p)
  BY DEF SummaryInv, RecoveriesOrdered, Tx
<1>2. SummaryOf(Tx(p)) \in Summaries
  BY <1>1 DEF Transactions, SummaryOf, Summary, Summaries
<1>3. lock = p
  BY OneRecovers DEF SummaryInv
<1> QED BY <1>1, <1>2, <1>3

\* A projection written keeps what the disk promises.
LEMMA ProjectKeeps ==
    ASSUME SummaryInv, NEW t, SummaryOf(t) \in Summaries, ~Conflicts(t), Project(t),
           UNCHANGED <<from, to, header, pending, failed, deleting, deletes>>
    PROVE  DiskKept /\ SummaryOf(t) \in records'
<1>1. records \subseteq records' /\ SummaryOf(t) \in records' /\ records' \subseteq Summaries
  BY ProjectAdds DEF SummaryInv
<1> QED BY <1>1 DEF SummaryInv, DiskKept, DiskTyped, ActiveIsStored, OpenIsNotIsolated, ActiveId

\* So does a header, when its projection is there.
LEMMA ApplyKeeps ==
    ASSUME SummaryInv, NEW t, SummaryOf(t) \in Summaries, Apply(t),
           SummaryOf(t) \in records \/ deletes > 0,
           UNCHANGED <<from, to, records, pending, failed, deleting, deletes>>
    PROVE  DiskKept /\ ActiveId' = t.id
<1>1. /\ header' \in Summaries /\ ActiveId' = t.id
      /\ header' \in {SummaryOf(t), header} /\ header' # Nil
      /\ \A s \in Ids : IsPrefix(s, ActiveId) => IsPrefix(s, t.id)
  BY ApplyExtends DEF SummaryInv
<1>2. DiskTyped' /\ OpenIsNotIsolated'
  BY <1>1 DEF SummaryInv, DiskTyped, OpenIsNotIsolated
<1>3. ActiveIsStored'
  BY <1>1 DEF SummaryInv, ActiveIsStored
<1>4. \A s \in Ids : IsPrefix(s, ActiveId) => IsPrefix(s, ActiveId')
  BY <1>1
<1> QED BY <1>1, <1>2, <1>3, <1>4 DEF DiskKept

\* And a transaction that leaves the journal, or is marked there.
LEMMA JournalKeeps ==
    ASSUME SummaryInv, UNCHANGED <<from, to, header, records, deleting, deletes>>,
           pending' \cup failed' \subseteq Transactions,
           \A t, u \in pending' : t.id = u.id => t = u,
           \A t \in failed' \ failed : ~(t.committed /\ t.proposal = "open")
    PROVE  DiskKept
BY DEF SummaryInv, DiskKept, DiskTyped, ActiveIsStored, OpenIsNotIsolated, ActiveId

LEMMA IsolateKeeps ==
    ASSUME SummaryInv, UNCHANGED <<from, to, header, records, deleting, deletes>>,
           NEW t, ~(t.committed /\ t.proposal = "open"), Isolate(t)
    PROVE  DiskKept
<1>1. pending' = pending \ {t} /\ failed' = failed \cup (pending \cap {t})
  BY DEF Isolate, Drop
<1>2. pending' \cup failed' \subseteq Transactions /\ \A u, w \in pending' : u.id = w.id => u = w
  BY <1>1 DEF SummaryInv, DiskTyped
<1> QED BY <1>1, <1>2, JournalKeeps

LEMMA RecoverProjectionKeeps ==
    ASSUME SummaryInv, NEW p \in Process, RecoverProjection(p) PROVE SummaryInv'
<1>1. rec[p].at = "project" /\ RecAt(p, "apply") /\ "apply" \in RecPhase /\ UNCHANGED <<pending, lock>>
  BY DEF RecoverProjection, RecPhase
<1>2. /\ Tx(p) \in Transactions /\ SummaryOf(Tx(p)) \in Summaries /\ lock' = p
      /\ \A u \in pending' : u.id = Tx(p).id => u = Tx(p)
  BY <1>1, TxIs
<1>3. DiskKept /\ SummaryOf(Tx(p)) \in records'
  BY <1>2, ProjectKeeps DEF RecoverProjection, Keep
<1>4. /\ RecoveriesTyped' /\ rec'[p].at = "apply" /\ rec'[p].tx = Tx(p)
      /\ \A q \in Process \ {p} : rec'[q] = rec[q]
  BY <1>1, RecoveryAt DEF SummaryInv, Tx
<1> QED BY <1>1, <1>2, <1>3, <1>4, RecoveryMoves DEF RecoverProjection

LEMMA RecoverHeaderKeeps ==
    ASSUME SummaryInv, NEW p \in Process, RecoverHeader(p) PROVE SummaryInv'
<1>1. /\ rec[p].at = "apply" /\ RecAt(p, "unlink") /\ "unlink" \in RecPhase
      /\ UNCHANGED <<records, pending, lock>>
  BY DEF RecoverHeader, RecPhase
<1>2. /\ Tx(p) \in Transactions /\ SummaryOf(Tx(p)) \in Summaries /\ lock' = p
      /\ \A u \in pending' : u.id = Tx(p).id => u = Tx(p)
  BY <1>1, TxIs
<1>3. SummaryOf(Tx(p)) \in records \/ deletes > 0
  BY <1>1 DEF SummaryInv, RecoveriesOrdered, Tx
<1>4. DiskKept
  BY <1>2, <1>3, ApplyKeeps DEF RecoverHeader, Keep
<1>5. /\ RecoveriesTyped' /\ rec'[p].at = "unlink" /\ rec'[p].tx = Tx(p)
      /\ \A q \in Process \ {p} : rec'[q] = rec[q]
  BY <1>1, RecoveryAt DEF SummaryInv, Tx
<1> QED BY <1>1, <1>2, <1>3, <1>4, <1>5, RecoveryMoves DEF RecoverHeader

\* A recovery is done with a transaction.
LEMMA OnwardKeeps ==
    ASSUME SummaryInv, NEW p \in Process, rec[p].at \in {"project", "apply", "unlink"},
           DiskKept, Onward(p), UNCHANGED <<lock, op, result>>
    PROVE  SummaryInv'
<1>1. RecoveriesTyped' /\ rec'[p].at = "read" /\ \A q \in Process \ {p} : rec'[q] = rec[q]
  BY RecoveryOnward DEF SummaryInv
<1>2. lock' = p
  BY TxIs
<1> QED BY <1>1, <1>2, RecoveryMoves

LEMMA RecoverUnlinkKeeps ==
    ASSUME SummaryInv, NEW p \in Process, RecoverUnlink(p) PROVE SummaryInv'
<1> DEFINE t == Tx(p)
           u == [t EXCEPT !.committed = TRUE]
<1>1. rec[p].at = "unlink" /\ Onward(p) /\ UNCHANGED <<header, records, failed, lock, op, result>> /\ Keep
  BY DEF RecoverUnlink
<1>2. pending' \subseteq (pending \ {t}) \cup {u}
  BY DEF RecoverUnlink
<1>3. t \in Transactions /\ \A w \in pending : w.id = t.id => w = t
  BY <1>1, TxIs
<1>4. u \in Transactions /\ u.id = t.id
  <2> HIDE DEF t
  <2> QED BY <1>3 DEF Transactions
<1> HIDE DEF t, u
<1>5. pending' \cup failed' \subseteq Transactions
  BY <1>1, <1>2, <1>4 DEF SummaryInv, DiskTyped
<1>6. \A w, x \in pending' : w.id = x.id => w = x
  BY <1>2, <1>3, <1>4 DEF SummaryInv, DiskTyped
<1>7. DiskKept
  BY <1>1, <1>5, <1>6, JournalKeeps DEF Keep
<1> QED BY <1>1, <1>7, OnwardKeeps

LEMMA RecoverConflictKeeps ==
    ASSUME SummaryInv, NEW p \in Process, RecoverConflict(p) PROVE SummaryInv'
<1>1. /\ rec[p].at \in {"project", "apply"} /\ Onward(p)
      /\ UNCHANGED <<header, records, lock, op, result>> /\ Keep
  BY DEF RecoverConflict
<1>2. CASE Spares(Tx(p))
  <2>1. UNCHANGED <<disk, deleting, deletes>>
    BY <1>1, <1>2 DEF RecoverConflict, disk, Keep
  <2> QED BY <1>1, <2>1, UntouchedKept, OnwardKeeps
<1>3. CASE ~Spares(Tx(p))
  <2>1. DiskKept
    BY <1>1, <1>3, IsolateKeeps DEF RecoverConflict, Spares, Keep
  <2> QED BY <1>1, <2>1, OnwardKeeps
<1> QED BY <1>2, <1>3

LEMMA RecoverFailsKeeps ==
    ASSUME SummaryInv, NEW p \in Process, RecoverFails(p) PROVE SummaryInv'
<1>1. /\ rec[p].at \in {"project", "apply", "unlink"} /\ Onward(p)
      /\ UNCHANGED <<header, records, lock, op, result>> /\ Keep
  BY DEF RecoverFails
<1>2. CASE Tx(p).committed
  <2>1. UNCHANGED <<disk, deleting, deletes>>
    BY <1>1, <1>2 DEF RecoverFails, disk, Keep
  <2> QED BY <1>1, <2>1, UntouchedKept, OnwardKeeps
<1>3. CASE ~Tx(p).committed
  <2>1. DiskKept
    BY <1>1, <1>3, IsolateKeeps DEF RecoverFails, Keep
  <2> QED BY <1>1, <2>1, OnwardKeeps
<1> QED BY <1>2, <1>3

-----------------------------------------------------------------------------
(* The steps of a commit                                                   *)

\* The transaction in an attempt's hands.
LEMMA OwnIs ==
    ASSUME SummaryInv, NEW o \in Op, op[o].id \in Made
    PROVE  /\ Own(o) \in Transactions /\ SummaryOf(Own(o)) \in Summaries
           /\ Own(o).id = op[o].id /\ SummaryOf(Own(o)) = Summary(op[o].id, o)
           /\ ~Own(o).committed
BY DEF Own, Transaction, Transactions, SummaryOf, Summary, Summaries, Texts

\* What an attempt at the journal has.
LEMMA CommitterIs ==
    ASSUME SummaryInv, NEW o \in Op, op[o].at \in Committing \cup {"lock"}
    PROVE  op[o].id \in Made /\ result[o] = "none" /\ op[o] \in Attempts
BY DEF SummaryInv, AttemptsOrdered, AttemptsTyped, Committing

\* An attempt under the lock goes from one stage to the next.
LEMMA PhaseKeeps ==
    ASSUME SummaryInv, DiskKept, UNCHANGED <<rec, result>>,
           NEW o \in Op, NEW stage \in Committing, AttemptAt(o, stage),
           \/ op[o].at \in Committing /\ UNCHANGED lock
           \/ op[o].at = "lock" /\ lock = Nil /\ lock' = o,
           stage \in {"apply", "unlink"} => Summary(op[o].id, o) \in records' \/ deletes > 0,
           stage = "unlink" => ActiveId' = op[o].id
    PROVE  SummaryInv'
<1> DEFINE a == [op[o] EXCEPT !.at = stage]
<1>1. op[o].id \in Made /\ result[o] = "none" /\ op[o] \in Attempts
  BY CommitterIs
<1>2. op' = [op EXCEPT ![o] = a] /\ a \in Attempts /\ a.at = stage /\ a.id = op[o].id
  <2>1. stage \in OpPhase
    BY DEF Committing, OpPhase
  <2>2. a.at = stage /\ a.id = op[o].id
    BY <1>1 DEF Attempts
  <2> QED BY <2>1, <2>2, AttemptIs DEF SummaryInv
<1>3. result' = [result EXCEPT ![o] = "none"]
  BY <1>1 DEF SummaryInv, AttemptsTyped
<1>4. lock' = o /\ (op[o].at \in Committing \/ lock = Nil)
  BY OneCommits DEF SummaryInv
<1> HIDE DEF a
<1> QED BY <1>1, <1>2, <1>3, <1>4, CommitMoves

LEMMA LockKeeps == ASSUME SummaryInv, NEW o \in Op, Lock(o) PROVE SummaryInv'
<1>1. DiskKept
  BY UntouchedKept DEF Lock, summaryBounds
<1>2. UNCHANGED <<rec, result>> /\ AttemptAt(o, "journal") /\ op[o].at = "lock" /\ lock = Nil /\ lock' = o
  BY DEF Lock
<1> QED BY <1>1, <1>2, PhaseKeeps DEF Committing

LEMMA JournalStepKeeps == ASSUME SummaryInv, NEW o \in Op, Journal(o) PROVE SummaryInv'
<1>1. /\ UNCHANGED <<rec, result, lock>> /\ AttemptAt(o, "project") /\ op[o].at = "journal"
      /\ UNCHANGED <<from, to, header, records, failed, deleting, deletes>>
      /\ pending' = {t \in pending : t.id # op[o].id} \cup {Own(o)}
  BY DEF Journal, Holds, Keep
<1>2. op[o].id \in Made
  BY <1>1, CommitterIs DEF Committing
<1>3. Own(o) \in Transactions /\ Own(o).id = op[o].id
  BY <1>2, OwnIs
<1>4. pending' \cup failed' \subseteq Transactions /\ \A t, u \in pending' : t.id = u.id => t = u
  BY <1>1, <1>3 DEF SummaryInv, DiskTyped
<1>5. DiskKept
  BY <1>1, <1>4, JournalKeeps
<1> QED BY <1>1, <1>5, PhaseKeeps DEF Committing

LEMMA CommitProjectionKeeps == ASSUME SummaryInv, NEW o \in Op, CommitProjection(o) PROVE SummaryInv'
<1>1. UNCHANGED <<rec, result, lock>> /\ AttemptAt(o, "apply") /\ op[o].at = "project"
  BY DEF CommitProjection, Holds
<1>2. op[o].id \in Made
  BY <1>1, CommitterIs DEF Committing
<1>3. SummaryOf(Own(o)) \in Summaries /\ SummaryOf(Own(o)) = Summary(op[o].id, o)
  BY <1>2, OwnIs
<1>4. DiskKept /\ SummaryOf(Own(o)) \in records'
  BY <1>3, ProjectKeeps DEF CommitProjection, Keep
<1> QED BY <1>1, <1>3, <1>4, PhaseKeeps DEF Committing

LEMMA CommitHeaderKeeps == ASSUME SummaryInv, NEW o \in Op, CommitHeader(o) PROVE SummaryInv'
<1>1. UNCHANGED <<rec, result, lock, records>> /\ AttemptAt(o, "unlink") /\ op[o].at = "apply"
  BY DEF CommitHeader, Holds
<1>2. op[o].id \in Made
  BY <1>1, CommitterIs DEF Committing
<1>3. /\ SummaryOf(Own(o)) \in Summaries /\ SummaryOf(Own(o)) = Summary(op[o].id, o)
      /\ Own(o).id = op[o].id
  BY <1>2, OwnIs
<1>4. SummaryOf(Own(o)) \in records \/ deletes > 0
  BY <1>1, <1>3 DEF SummaryInv, AttemptsOrdered
<1>5. DiskKept /\ ActiveId' = op[o].id
  BY <1>3, <1>4, ApplyKeeps DEF CommitHeader, Keep
<1> QED BY <1>1, <1>3, <1>4, <1>5, PhaseKeeps DEF Committing

LEMMA CommitUnlinkKeeps == ASSUME SummaryInv, NEW o \in Op, CommitUnlink(o) PROVE SummaryInv'
<1> DEFINE a == [op[o] EXCEPT !.at = "sweep"]
<1>1. /\ op[o].at = "unlink" /\ op' = [op EXCEPT ![o] = a] /\ lock' = Nil
      /\ result' = [result EXCEPT ![o] = "compacted"]
      /\ UNCHANGED <<from, to, header, records, failed, rec, deleting, deletes>>
      /\ pending' = pending \ {Own(o)}
  BY DEF CommitUnlink, Holds, Keep, Drop
<1>2. op[o].id \in Made /\ op[o] \in Attempts
  BY <1>1, CommitterIs DEF Committing
<1>3. a \in Attempts /\ a.at = "sweep" /\ a.id = op[o].id
  BY <1>2 DEF Attempts, OpPhase
<1>4. pending' \cup failed' \subseteq Transactions /\ \A t, u \in pending' : t.id = u.id => t = u
  BY <1>1 DEF SummaryInv, DiskTyped
<1>5. DiskKept
  BY <1>1, <1>4, JournalKeeps
<1>6. IsPrefix(a.id, ActiveId')
  <2>1. ActiveId' = op[o].id
    BY <1>1 DEF SummaryInv, AttemptsOrdered, ActiveId
  <2>2. IsPrefix(op[o].id, op[o].id)
    BY <1>2, PrefixOfSelf DEF Made, Ids
  <2> QED BY <1>3, <2>1, <2>2
<1> HIDE DEF a
<1> QED BY <1>1, <1>2, <1>3, <1>5, <1>6, CommitMoves DEF Committing

\* An attempt gives up: its disk is as good as before.
LEMMA GiveUpKeeps ==
    ASSUME SummaryInv, DiskKept, UNCHANGED rec, lock' = Nil,
           NEW o \in Op, op[o].at \in Committing, FailAttempt(o)
    PROVE  SummaryInv'
<1> DEFINE a == [op[o] EXCEPT !.at = "end"]
<1>1. op[o].id \in Made /\ op[o] \in Attempts
  BY CommitterIs
<1>2. a.at = "end" /\ a.id = op[o].id /\ "end" \in OpPhase
  BY <1>1 DEF Attempts, OpPhase
<1>3. op' = [op EXCEPT ![o] = a] /\ a \in Attempts
  BY <1>2, AttemptIs DEF SummaryInv, FailAttempt
<1>4. result' = [result EXCEPT ![o] = "failed"]
  BY DEF FailAttempt
<1> HIDE DEF a
<1> QED BY <1>1, <1>2, <1>3, <1>4, CommitMoves DEF Committing

LEMMA CommitConflictKeeps == ASSUME SummaryInv, NEW o \in Op, CommitConflict(o) PROVE SummaryInv'
<1>1. op[o].at \in Committing /\ FailAttempt(o) /\ lock' = Nil /\ UNCHANGED rec
  BY DEF CommitConflict, Holds, Committing
<1>2. op[o].id \in Made
  BY <1>1, CommitterIs
<1>3. ~(Own(o).committed /\ Own(o).proposal = "open")
  BY <1>2, OwnIs
<1>4. DiskKept
  BY <1>3, IsolateKeeps DEF CommitConflict, Keep
<1> QED BY <1>1, <1>4, GiveUpKeeps

LEMMA CommitFailsKeeps == ASSUME SummaryInv, NEW o \in Op, CommitFails(o) PROVE SummaryInv'
<1>1. op[o].at \in Committing /\ FailAttempt(o) /\ lock' = Nil /\ UNCHANGED rec
  BY DEF CommitFails, Holds, Committing
<1>2. UNCHANGED <<disk, deleting, deletes>>
  BY DEF CommitFails, Keep, disk
<1> QED BY <1>1, <1>2, UntouchedKept, GiveUpKeeps

-----------------------------------------------------------------------------
(* The sweep's write, messages, crashes and the deletion                   *)

LEMMA CloseProposalKeeps == ASSUME SummaryInv, NEW o \in Op, CloseProposal(o) PROVE SummaryInv'
<1>1. /\ op[o].at = "close" /\ lock = Nil
      /\ UNCHANGED <<from, to, header, records, failed, lock, rec, result, deleting, deletes>>
  BY DEF CloseProposal, Keep
<1>2. PICK id \in op[o].todo :
        /\ op' = [op EXCEPT ![o].todo = @ \ {id}]
        /\ pending' = {IF t.id = id /\ t.proposal = "open" THEN [t EXCEPT !.proposal = "closed"] ELSE t :
                       t \in pending}
  BY DEF CloseProposal
<1> DEFINE Closes(t) == IF t.id = id /\ t.proposal = "open" THEN [t EXCEPT !.proposal = "closed"] ELSE t
           a == [op[o] EXCEPT !.todo = @ \ {id}]
<1>3. op' = [op EXCEPT ![o] = a] /\ a \in Attempts /\ a.at = "close" /\ a.id = op[o].id
  <2>1. op[o] \in Attempts
    BY DEF SummaryInv, AttemptsTyped
  <2>2. a \in Attempts /\ a.at = "close" /\ a.id = op[o].id
    BY <1>1, <2>1 DEF Attempts
  <2> QED BY <1>2, <2>2
<1>4. \A t \in pending : Closes(t) \in Transactions /\ Closes(t).id = t.id
  <2>1. \A t \in Transactions : Closes(t) \in Transactions /\ Closes(t).id = t.id
    BY DEF Transactions
  <2> QED BY <2>1 DEF SummaryInv, DiskTyped
<1>5. pending' = {Closes(t) : t \in pending}
  BY <1>2
<1> HIDE DEF Closes, a
<1>6. pending' \cup failed' \subseteq Transactions /\ \A t, u \in pending' : t.id = u.id => t = u
  BY <1>1, <1>4, <1>5 DEF SummaryInv, DiskTyped
<1>7. DiskKept
  BY <1>1, <1>6, JournalKeeps
<1>8. /\ \A q \in Op : op[q].at \notin Committing
      /\ \A p \in Process : rec[p].at \in {"off", "lock"}
  BY <1>1, FreeLockIdle DEF SummaryInv
<1>9. \A q \in Op : op'[q].at = op[q].at /\ op'[q].id = op[q].id
  BY <1>1, <1>3 DEF SummaryInv, AttemptsTyped
<1>10. AttemptsTyped' /\ RecoveriesTyped' /\ DeletionCounted'
  BY <1>1, <1>3 DEF SummaryInv, AttemptsTyped, RecoveriesTyped, DeletionCounted
<1>11. LockHeld'
  BY <1>1, <1>9 DEF SummaryInv, LockHeld
<1>12. AttemptsOrdered'
  BY <1>1, <1>9 DEF SummaryInv, AttemptsOrdered, ActiveId
<1>13. RecoveriesOrdered'
  BY <1>1, <1>8 DEF RecoveriesOrdered
<1>14. CompactedIsActive'
  BY <1>1, <1>9 DEF SummaryInv, CompactedIsActive, ActiveId
<1> QED BY <1>7, <1>10, <1>11, <1>12, <1>13, <1>14 DEF SummaryInv, DiskKept

LEMMA AppendMessageKeeps == ASSUME SummaryInv, AppendMessage PROVE SummaryInv'
<1> USE DEF SummaryInv, AppendMessage, summaryBounds
<1>1. DiskTyped'
  BY SummaryConstants DEF DiskTyped, SummaryBounds
<1>2. DeletionCounted' /\ ActiveIsStored' /\ OpenIsNotIsolated'
  BY DEF DeletionCounted, ActiveIsStored, OpenIsNotIsolated
<1>3. AttemptsTyped' /\ RecoveriesTyped'
  BY DEF AttemptsTyped, RecoveriesTyped
<1>4. LockHeld' /\ RecoveriesOrdered'
  BY DEF LockHeld, RecoveriesOrdered
<1>5. AttemptsOrdered' /\ CompactedIsActive'
  BY DEF AttemptsOrdered, CompactedIsActive, ActiveId
<1> QED BY <1>1, <1>2, <1>3, <1>4, <1>5

LEMMA SummaryCrashKeeps == ASSUME SummaryInv, NEW p \in Process, SummaryCrash(p) PROVE SummaryInv'
<1>1. UNCHANGED <<disk, result, deleting, deletes>>
  BY DEF SummaryCrash
<1>2. /\ DiskTyped' /\ DeletionCounted' /\ ActiveIsStored' /\ OpenIsNotIsolated'
  BY <1>1 DEF SummaryInv, disk, DiskTyped, DeletionCounted, ActiveIsStored, OpenIsNotIsolated
<1>3. ASSUME NEW o \in Op
      PROVE  /\ op'[o] \in Attempts /\ op'[o].id = op[o].id
             /\ op'[o].at = op[o].at \/ op'[o].at = "end"
             /\ P(o) = p => op'[o].at \notin Committing
  <2>1. op[o] \in Attempts
    BY DEF SummaryInv, AttemptsTyped
  <2>2. CASE P(o) = p /\ op[o].at # "idle"
    <3>1. op'[o] = [op[o] EXCEPT !.at = "end"]
      BY <2>2 DEF SummaryCrash
    <3>2. op'[o] \in Attempts /\ op'[o].id = op[o].id /\ op'[o].at = "end"
      BY <2>1, <3>1 DEF Attempts, OpPhase
    <3> QED BY <3>2 DEF Committing
  <2>3. CASE ~(P(o) = p /\ op[o].at # "idle")
    <3>1. op'[o] = op[o]
      BY <2>3 DEF SummaryCrash
    <3> QED BY <2>1, <2>3, <3>1 DEF Committing
  <2> QED BY <2>2, <2>3
<1>4. AttemptsTyped'
  <2>1. op' \in [Op -> Attempts]
    <3>1. op' = [o \in Op |-> op'[o]]
      BY DEF SummaryCrash
    <3> QED BY <1>3, <3>1
  <2> QED BY <1>1, <2>1 DEF SummaryInv, AttemptsTyped
<1>5. RecoveriesTyped' /\ rec'[p].at = "off" /\ \A q \in Process \ {p} : rec'[q] = rec[q]
  <2>1. rec' = [rec EXCEPT ![p] = NoRec] /\ NoRec.at = "off"
        /\ NoRec = [at |-> NoRec.at, todo |-> NoRec.todo, tx |-> NoRec.tx]
    BY DEF SummaryCrash, NoRec
  <2>2. RecoveriesTyped /\ "off" \in RecPhase
    BY DEF SummaryInv, RecPhase
  <2> QED BY ONLY <2>1, <2>2, RecoveryIs
<1>6. LockHeld'
  <2>1. lock' = IF lock = p \/ (lock \in Op /\ P(lock) = p) THEN Nil ELSE lock
    BY DEF SummaryCrash
  <2>2. lock' \in Op \cup Process \cup {Nil}
    BY <2>1 DEF SummaryInv, LockHeld
  <2>3. ASSUME NEW o \in Op, op'[o].at \in Committing PROVE lock' = o
    <3>1. op[o].at \in Committing /\ P(o) # p
      BY <1>3, <2>3 DEF Committing
    <3>2. lock = o /\ o # p
      BY <3>1, SummaryConstants DEF SummaryInv, LockHeld, SummaryAssumption
    <3> QED BY <2>1, <3>1, <3>2
  <2>4. ASSUME NEW q \in Process, rec'[q].at \notin {"off", "lock"} PROVE lock' = q
    <3>1. q # p /\ rec[q].at \notin {"off", "lock"}
      BY <1>5, <2>4
    <3>2. lock = q /\ lock \notin Op
      BY <3>1, SummaryConstants DEF SummaryInv, LockHeld, SummaryAssumption
    <3> QED BY <2>1, <3>1, <3>2
  <2> QED BY <2>2, <2>3, <2>4 DEF LockHeld
<1>7. AttemptsOrdered' /\ CompactedIsActive'
  <2>1. UNCHANGED <<records, deletes, result, ActiveId>>
    BY <1>1 DEF disk, ActiveId
  <2>2. AttemptsOrdered'
    BY <1>3, <2>1 DEF SummaryInv, AttemptsOrdered, Committing
  <2>3. CompactedIsActive'
    BY <1>3, <2>1 DEF SummaryInv, CompactedIsActive
  <2> QED BY <2>2, <2>3
<1>8. RecoveriesOrdered'
  BY <1>1, <1>5 DEF SummaryInv, RecoveriesOrdered, disk
<1> QED BY <1>2, <1>4, <1>5, <1>6, <1>7, <1>8 DEF SummaryInv

LEMMA DeleteFileKeeps == ASSUME SummaryInv, DeleteFile PROVE SummaryInv'
<1> USE DEF SummaryInv, DeleteFile
<1>1. deletes' > 0 /\ deletes' \in Nat
  BY DEF DiskTyped
<1>2. DiskTyped'
  BY <1>1 DEF DiskTyped
<1>3. DeletionCounted' /\ ActiveIsStored' /\ OpenIsNotIsolated' /\ CompactedIsActive'
  BY <1>1 DEF DeletionCounted, ActiveIsStored, OpenIsNotIsolated, CompactedIsActive
<1>4. AttemptsTyped' /\ RecoveriesTyped' /\ LockHeld'
  BY DEF AttemptsTyped, RecoveriesTyped, LockHeld
<1>5. AttemptsOrdered'
  <2>1. \A o \in Op : op[o].at \notin Committing
    BY FreeLockIdle
  <2> QED BY <1>1, <2>1 DEF AttemptsOrdered, Committing
<1>6. RecoveriesOrdered'
  BY <1>1 DEF RecoveriesOrdered
<1> QED BY <1>2, <1>3, <1>4, <1>5, <1>6

LEMMA RemoveDirectoryKeeps == ASSUME SummaryInv, RemoveDirectory PROVE SummaryInv'
<1> USE DEF SummaryInv, RemoveDirectory, summaryBounds
<1>1. deletes > 0
  BY DEF DeletionCounted
<1>2. DiskTyped'
  BY DEF DiskTyped
<1>3. DeletionCounted' /\ ActiveIsStored' /\ OpenIsNotIsolated' /\ CompactedIsActive'
  BY <1>1 DEF DeletionCounted, ActiveIsStored, OpenIsNotIsolated, CompactedIsActive
<1>4. AttemptsTyped' /\ RecoveriesTyped' /\ LockHeld'
  BY DEF AttemptsTyped, RecoveriesTyped, LockHeld
<1>5. AttemptsOrdered' /\ RecoveriesOrdered'
  BY <1>1 DEF AttemptsOrdered, RecoveriesOrdered, ActiveId
<1> QED BY <1>2, <1>3, <1>4, <1>5

-----------------------------------------------------------------------------
(* The beginning, every step, and the theorems                             *)

\* Where an older build left a summary, there was a message for it to cover.
LEMMA LegacyIds ==
    ASSUME NEW e \in 1..MaxMessages
    PROVE  <<e>> \in Made /\ <<e>> # << >> /\ Last(<<e>>) = e
<1>1. Append(<< >>, e) \in Made
  BY MadeByAppend
<1>2. Append(<< >>, e) = <<e>>
  OBVIOUS
<1>3. Last(<<e>>) = e
  BY DEF Last
<1> QED BY <1>1, <1>2, <1>3

LEMMA SummaryStarts == SummaryInit => SummaryInv
<1> SUFFICES ASSUME SummaryInit PROVE SummaryInv
  OBVIOUS
<1> USE DEF SummaryInit
<1>1. MaxMessages \in Nat
  BY SummaryConstants DEF SummaryBounds
<1>2. /\ header \in Summaries \cup {Nil} /\ records \subseteq Summaries
      /\ pending \subseteq Transactions /\ \A t, u \in pending : t.id = u.id => t = u
      /\ to \in 0..MaxMessages /\ (header # Nil => header \in records)
  <2>1. CASE header = Nil /\ records = {} /\ pending = {} /\ to \in 0..MaxMessages
    BY <2>1
  <2>2. CASE /\ to \in 2..MaxMessages /\ pending = {Old}
             /\ \/ header = SummaryOf(Old) /\ records = {header}
                \/ header = Summary(<<2>>, "new") /\ records = {SummaryOf(Old), header}
    <3>1. 1 \in 1..MaxMessages /\ 2 \in 1..MaxMessages /\ to \in 0..MaxMessages
      BY <1>1, <2>2
    <3>2. <<1>> \in Made /\ <<2>> \in Made
      BY <3>1, LegacyIds
    <3>3. Old \in Transactions
      BY <3>2 DEF Old, Transaction, Transactions, Texts
    <3>4. SummaryOf(Old) \in Summaries /\ Summary(<<2>>, "new") \in Summaries
      BY <3>2 DEF Old, Transaction, SummaryOf, Summary, Summaries, Texts
    <3> QED BY <2>2, <3>1, <3>3, <3>4
  <2> QED BY <2>1, <2>2
<1>3. DiskTyped /\ DeletionCounted /\ ActiveIsStored /\ OpenIsNotIsolated
  <2>1. DiskTyped
    <3>1. from \in 0..MaxMessages /\ to \in from..MaxMessages
      BY <1>1, <1>2
    <3>2. pending \cup failed \subseteq Transactions
      BY <1>2
    <3>3. deletes \in Nat /\ deleting \in BOOLEAN
      OBVIOUS
    <3> QED BY <1>2, <3>1, <3>2, <3>3 DEF DiskTyped
  <2> QED BY <1>2, <2>1 DEF DeletionCounted, ActiveIsStored, OpenIsNotIsolated
<1>4. NoOp \in Attempts
  <2>1. <<0, 0>> \in (0..MaxMessages) \X (0..MaxMessages)
    BY <1>1
  <2> QED BY <2>1 DEF NoOp, Attempts, OpPhase
<1>5. AttemptsTyped /\ RecoveriesTyped
  BY <1>4 DEF AttemptsTyped, RecoveriesTyped, NoRec, RecPhase
<1>6. LockHeld /\ AttemptsOrdered /\ RecoveriesOrdered
  BY DEF LockHeld, AttemptsOrdered, RecoveriesOrdered, NoOp, NoRec, Committing
<1>7. CompactedIsActive
  BY DEF CompactedIsActive
<1> QED BY <1>3, <1>5, <1>6, <1>7 DEF SummaryInv

LEMMA SummaryStutters == ASSUME SummaryInv, UNCHANGED summaryVars PROVE SummaryInv'
<1> USE DEF SummaryInv, summaryVars, disk, summaryBounds
<1>1. DiskTyped' /\ DeletionCounted' /\ ActiveIsStored' /\ OpenIsNotIsolated'
  BY DEF DiskTyped, DeletionCounted, ActiveIsStored, OpenIsNotIsolated
<1>2. AttemptsTyped' /\ RecoveriesTyped' /\ LockHeld'
  BY DEF AttemptsTyped, RecoveriesTyped, LockHeld
<1>3. AttemptsOrdered' /\ RecoveriesOrdered' /\ CompactedIsActive'
  BY DEF AttemptsOrdered, RecoveriesOrdered, CompactedIsActive, ActiveId
<1> QED BY <1>1, <1>2, <1>3

LEMMA SummarySteps == SummaryInv /\ [SummaryNext]_summaryVars => SummaryInv'
<1> SUFFICES ASSUME SummaryInv, [SummaryNext]_summaryVars PROVE SummaryInv'
  OBVIOUS
<1>1. ASSUME NEW o \in Op, Begin(o) \/ CompactStep(o) PROVE SummaryInv'
  BY <1>1, BeginKeeps, SweepKeeps, ListKeeps, CloseProposalKeeps, EndSweepKeeps, LookKeeps,
     DecideKeeps, SummarizeKeeps, LockKeeps, JournalStepKeeps, CommitProjectionKeeps,
     CommitHeaderKeeps, CommitUnlinkKeeps, CommitConflictKeeps, CommitFailsKeeps DEF CompactStep
<1>2. ASSUME NEW p \in Process, Load(p) \/ RecoveryStep(p) \/ SummaryCrash(p) PROVE SummaryInv'
  BY <1>2, LoadKeeps, LockRecoveryKeeps, ReadTransactionKeeps, RecoverProjectionKeeps,
     RecoverHeaderKeeps, RecoverUnlinkKeeps, RecoverConflictKeeps, RecoverFailsKeeps,
     EndRecoveryKeeps, SummaryCrashKeeps DEF RecoveryStep
<1>3. CASE AppendMessage \/ DeleteFile \/ RemoveDirectory
  BY <1>3, AppendMessageKeeps, DeleteFileKeeps, RemoveDirectoryKeeps
<1>4. CASE UNCHANGED summaryVars
  BY <1>4, SummaryStutters
<1> QED BY <1>1, <1>2, <1>3, <1>4 DEF SummaryNext

LEMMA SummaryInvShows == SummaryInv => SummariesAreKept
<1> SUFFICES ASSUME SummaryInv PROVE SummaryTypeOK
  BY DEF SummariesAreKept, SummaryInv
<1>1. Summaries \subseteq [id : Seq(1..MaxMessages), text : Op \cup {"old", "new"}]
  BY DEF Summaries, Made, Ids, Texts
<1>2. \A t \in pending \cup failed : SummaryOf(t) \in Summaries
  BY DEF SummaryInv, DiskTyped, Transactions, SummaryOf, Summary, Summaries
<1>3. \A o \in Op : op[o].at \in OpPhase
  BY DEF SummaryInv, AttemptsTyped, Attempts
<1> QED BY <1>1, <1>2, <1>3 DEF SummaryTypeOK, SummaryInv, DiskTyped, LockHeld

(* SummariesAreKept: the header names a summary whose projection is there, *)
(* an attempt that reported a summary finds it active or in the chain that *)
(* leads to the active one, and no committed transaction with an open      *)
(* proposal is isolated, whatever attempts, recoveries and crashes meet    *)
(* under the session's lock.                                               *)
THEOREM SummariesKept == SummarySpec => []SummariesAreKept
<1>1. SummarySpec => []SummaryInv
  BY SummaryStarts, SummarySteps, PTL DEF SummarySpec
<1>2. SummaryInv => SummariesAreKept
  BY SummaryInvShows
<1> QED BY <1>1, <1>2, PTL

-----------------------------------------------------------------------------
(* The chain of summaries                                                  *)

\* The header is written as the chain allows.
LEMMA ApplyIsChained ==
    ASSUME SummaryInv, NEW t, SummaryOf(t) \in Summaries, Apply(t), UNCHANGED <<from, to>>
    PROVE  Chain!Summarize \/ UNCHANGED <<from, to, ActiveId>>
<1>1. ActiveId' = t.id
  BY ApplyExtends DEF SummaryInv
<1>2. CASE Active(t)
  BY <1>1, <1>2 DEF Active
<1>3. CASE ~Active(t)
  <2>1. Front(t.id) = ActiveId /\ EndOf(t.id) \in (from + 1)..to
    BY <1>3 DEF Apply, Follows
  <2>2. /\ t.id # << >> /\ t.id = Append(ActiveId, Last(t.id)) /\ Last(t.id) \in 1..MaxMessages
        /\ ActiveId # << >> => Last(ActiveId) < Last(t.id)
    <3>1. t.id \in Made
      BY DEF SummaryOf, Summary, Summaries
    <3> QED BY <2>1, <3>1, MadeIds
  <2>3. EndOf(t.id) = Last(t.id)
    BY <2>2 DEF EndOf
  <2>4. Chain!Covered = IF ActiveId = << >> THEN from ELSE Last(ActiveId)
    BY DEF Chain!Covered, Chain!Last, Last
  <2>5. ActiveId # << >> => Last(ActiveId) \in 1..MaxMessages
    BY ActiveTyped, MadeIds DEF SummaryInv
  <2>6. Last(t.id) \in (Chain!Covered + 1)..to
    BY <2>1, <2>2, <2>3, <2>4, <2>5 DEF SummaryInv, DiskTyped
  <2> QED BY <1>1, <2>2, <2>6 DEF Chain!Summarize
<1> QED BY <1>2, <1>3

LEMMA ChainStarts == SummaryInit => Chain!Init
<1> SUFFICES ASSUME SummaryInit PROVE Chain!Init
  OBVIOUS
<1>1. from = 0 /\ MaxMessages \in Nat
  BY SummaryConstants DEF SummaryInit, SummaryBounds
<1>2. to \in 0..MaxMessages /\ ActiveId \in {<< >>} \cup {<<e>> : e \in 1..to}
  <2>1. CASE header = Nil /\ to \in 0..MaxMessages
    BY <2>1 DEF ActiveId
  <2>2. CASE to \in 2..MaxMessages /\ header = SummaryOf(Old)
    <3>1. ActiveId \in {<< >>, <<1>>}
      BY <2>2 DEF ActiveId, SummaryOf, Summary, Old, Transaction
    <3>2. 1 \in 1..to /\ to \in 0..MaxMessages
      BY <1>1, <2>2
    <3> QED BY <3>1, <3>2
  <2>3. CASE to \in 2..MaxMessages /\ header = Summary(<<2>>, "new")
    <3>1. ActiveId \in {<< >>, <<2>>}
      BY <2>3 DEF ActiveId, Summary
    <3>2. 2 \in 1..to /\ to \in 0..MaxMessages
      BY <1>1, <2>3
    <3> QED BY <3>1, <3>2
  <2> QED BY <2>1, <2>2, <2>3 DEF SummaryInit
<1> QED BY <1>1, <1>2 DEF Chain!Init

LEMMA ChainSteps == SummaryInv /\ [SummaryNext]_summaryVars => [Chain!Next]_(Chain!vars)
<1> SUFFICES ASSUME SummaryInv, [SummaryNext]_summaryVars PROVE [Chain!Next]_(Chain!vars)
  OBVIOUS
<1>1. CASE UNCHANGED <<from, to, header>>
  BY <1>1 DEF Chain!vars, ActiveId
<1>2. ASSUME NEW o \in Op, CommitHeader(o) PROVE [Chain!Next]_(Chain!vars)
  <2>1. op[o].id \in Made
    BY <1>2, CommitterIs DEF CommitHeader, Holds, Committing
  <2>2. SummaryOf(Own(o)) \in Summaries
    BY <2>1, OwnIs
  <2> QED BY <1>2, <2>2, ApplyIsChained DEF CommitHeader, Keep, Chain!Next, Chain!vars
<1>3. ASSUME NEW p \in Process, RecoverHeader(p) PROVE [Chain!Next]_(Chain!vars)
  <2>1. SummaryOf(Tx(p)) \in Summaries
    BY <1>3, TxIs DEF RecoverHeader
  <2> QED BY <1>3, <2>1, ApplyIsChained DEF RecoverHeader, Keep, Chain!Next, Chain!vars
<1>4. CASE AppendMessage
  BY <1>4 DEF AppendMessage, ActiveId, Chain!Write, Chain!Next
<1>5. CASE DeleteFile
  BY <1>5 DEF DeleteFile, ActiveId, Chain!Delete, Chain!Next
<1>6. CASE RemoveDirectory
  BY <1>1, <1>6 DEF RemoveDirectory
<1>7. ASSUME NEW o \in Op, Begin(o) \/ CompactStep(o), ~CommitHeader(o) PROVE UNCHANGED <<from, to, header>>
  BY <1>7 DEF CompactStep, Begin, Sweep, ListPending, CloseProposal, EndSweep, Look, Decide,
     Summarize, Abort, Lock, Journal, CommitProjection, CommitUnlink, CommitConflict, CommitFails,
     Keep, disk
<1>8. ASSUME NEW p \in Process, Load(p) \/ RecoveryStep(p) \/ SummaryCrash(p), ~RecoverHeader(p)
      PROVE  UNCHANGED <<from, to, header>>
  BY <1>8 DEF Load, RecoveryStep, LockRecovery, ReadTransaction, RecoverProjection, RecoverUnlink,
     RecoverConflict, RecoverFails, EndRecovery, SummaryCrash, Keep, disk
<1>9. CASE UNCHANGED summaryVars
  BY <1>1, <1>9 DEF summaryVars, disk
<1> QED BY <1>1, <1>2, <1>3, <1>4, <1>5, <1>6, <1>7, <1>8, <1>9 DEF SummaryNext

(* ChainSpec: each summary that becomes active was made from the one that  *)
(* is, and covers more of the messages that are there; only a deletion     *)
(* starts over.  A commit that was overtaken writes no header.             *)
THEOREM SummariesChain == SummarySpec => ChainSpec
<1>1. SummarySpec => []SummaryInv
  BY SummaryStarts, SummarySteps, PTL DEF SummarySpec
<1> QED BY <1>1, ChainStarts, ChainSteps, PTL DEF SummarySpec, ChainSpec, Chain!Spec
=============================================================================
