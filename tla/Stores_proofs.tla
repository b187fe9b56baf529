---------------------------- MODULE Stores_proofs ----------------------------
(***************************************************************************)
(* Proofs about DurableInbox, for any processes, callers and commands, and *)
(* about UsageIndex, for any runs and events, and any bounds.              *)
(*                                                                         *)
(* DurableInbox has two inductive invariants.  CommandsInv holds in every  *)
(* behaviour: types, where a completed command has its event from          *)
(* (Stocked), what a caller that gives a command up knows of it            *)
(* (Blameless) and, when every caller has a process of its own, that the   *)
(* lock covers a read and its write (Locked).  WarmInv adds what calls     *)
(* that start warm keep: no cache is behind the files where that does harm *)
(* (Coherent), and a claim whose lease runs is the stored one (Fenced).    *)
(*                                                                         *)
(* UsageInv is the inductive invariant of UsageIndex: types, what an       *)
(* operation of the service knows of the run it reads (ReadIsStored), what *)
(* an append has done before its event (MarkComesFirst, WriterLocks) and   *)
(* what an acknowledgement rests on (AcknowledgedIsSaved, RemovalIsSafe).  *)
(***************************************************************************)
EXTENDS DurableInbox, UsageIndex, FiniteSetTheorems, TLAPS

\* A claim a caller holds.
Held == [command : Command, token : Token]

\* The stores and what the processes have of them.
StoresTyped ==
    /\ file \in [Command -> Stored]
    /\ cache \in [Process -> [Command -> Stored] \cup {None}]
    /\ deferred \in [Process -> SUBSET Command]

\* The callers.
Reading == {"write", "requeue", "completing", "failing", "relist"}
Settling == {"complete", "completing", "fail", "failing"}
Place ==
    [at : Step, only : Command \cup {None}, todo : SUBSET Held,
     view : [Command -> Stored] \cup {None}, pick : SUBSET (Command \cup Held)]
CallerOK(c) ==
    /\ op[c].at # "idle" => cache[home(c)] \in [Command -> Stored]
    /\ op[c].at \in Reading => op[c].view \in [Command -> Stored]
    /\ op[c].at \in {"enqueue", "write", "again"} => op[c].only \in Command
    /\ op[c].at = "take" => op[c].pick \subseteq Command
    /\ op[c].at \in Settling => \E t \in op[c].todo : op[c].pick = {t}
    /\ \A t \in op[c].todo : t.token \in 1..claims
CallersTyped ==
    /\ op \in [Caller -> Place]
    /\ claims \in 0..MaxClaims
    /\ \A c \in Caller : CallerOK(c)

\* A lock is held by a caller at work, an open batch by the caller of the lock.
LockTyped ==
    /\ lock \in Caller \cup {None}
    /\ batch \in [Process -> Caller \cup {None}]
    /\ lock # None => op[lock].at # "idle"
    /\ \A p \in Process : batch[p] # None => batch[p] = lock /\ home(lock) = p

StreamTyped == stream \subseteq Command /\ acked \subseteq Command /\ faults \in Nat

TypedInv == StoresTyped /\ CallersTyped /\ LockTyped
-----------------------------------------------------------------------------
(* Types.                                                                  *)

\* A read answers with stored commands.
LEMMA ViewTyped ==
    ASSUME StoresTyped, NEW p \in Process, cache[p] \in [Command -> Stored]
    PROVE  View(p) \in [Command -> Stored]
BY DEF StoresTyped, View

\* A read changes nothing but what its own process has in memory.
LEMMA ReadTyped ==
    ASSUME StoresTyped, NEW p \in Process, cache[p] \in [Command -> Stored], UNCHANGED file,
           Read(p) \/ ReadActive(p)
    PROVE  StoresTyped' /\ cache'[p] \in [Command -> Stored]
           /\ \A q \in Process : q # p => cache'[q] = cache[q]
<1>1. View(p) \in [Command -> Stored]
  BY ViewTyped
<1>2. Scanned \in [Command -> Stored]
  BY InboxConstants DEF StoresTyped, Scanned, Absent, Stored, Status, Token, InboxBounds
<1> QED BY <1>1, <1>2 DEF Read, ReadActive, StoresTyped

\* A write leaves stored commands, in the files and in memory.
LEMMA WriteTyped ==
    ASSUME StoresTyped, NEW p \in Process, cache[p] \in [Command -> Stored], NEW S, NEW r \in Stored,
           Write(p, S, r)
    PROVE  StoresTyped' /\ cache'[p] \in [Command -> Stored]
           /\ \A q \in Process : q # p => cache'[q] = cache[q]
BY DEF StoresTyped, Write

\* The records that are written.
LEMMA RecordsTyped ==
    /\ Absent \in Stored /\ Queued \in Stored
    /\ \A s \in Status : Settled(s) \in Stored
BY InboxConstants DEF Absent, Queued, Settled, Stored, Status, Token, InboxBounds

LEMMA HomeTyped == \A c \in Caller : home(c) \in Process
BY InboxConstants DEF ProcessAssumption, home

\* Every step keeps the stores' types.
LEMMA StoresStep ==
    ASSUME TypedInv, InboxNext
    PROVE  StoresTyped'
<1> USE HomeTyped, ReadTyped, WriteTyped, RecordsTyped, InboxConstants
    DEF TypedInv, CallersTyped, CallerOK, Status, Reading, NoWrite
<1>1. ASSUME NEW p \in Process, Start(p) \/ Warm(p) \/ Crash(p) PROVE StoresTyped'
  <2>1. CASE Start(p)
    BY <2>1 DEF Start, StoresTyped, Stored, Absent, Up, Queued, Terminal
  <2>2. CASE Warm(p)
    BY <2>2 DEF Warm, Up, StoresTyped
  <2>3. CASE Crash(p)
    BY <2>3 DEF Crash, StoresTyped
  <2> QED BY <1>1, <2>1, <2>2, <2>3
<1>2. ASSUME NEW n \in 1..MaxClaims, LeaseEnds(n) PROVE StoresTyped'
  BY <1>2 DEF LeaseEnds, StoresTyped
<1>3. ASSUME NEW c \in Caller, NEW i \in Command, Ingest(c, i) PROVE StoresTyped'
  BY <1>3 DEF Ingest, StoresTyped
<1>4. ASSUME NEW c \in Caller, Drain(c) \/ Discover(c) \/ Work(c) PROVE StoresTyped'
  <2>1. CASE Drain(c)
    BY <2>1 DEF Drain, StoresTyped
  <2>2. CASE Discover(c)
    BY <2>2 DEF Discover, StoresTyped
  <2>3. CASE Enqueue(c)
    BY <2>3 DEF Enqueue
  <2>4. CASE EnqueueWrite(c)
    BY <2>4 DEF EnqueueWrite, StoresTyped
  <2>5. CASE AppendAgain(c)
    BY <2>5 DEF AppendAgain, StoresTyped
  <2>6. CASE Claim(c)
    BY <2>6 DEF Claim
  <2>7. CASE RequeueExpired(c)
    BY <2>7 DEF RequeueExpired
  <2>8. CASE Take(c)
    <3>1. PICK i \in op[c].pick : Write(home(c), {i}, [status |-> "claimed", token |-> claims + 1])
      BY <2>8 DEF Take
    <3>2. [status |-> "claimed", token |-> claims + 1] \in Stored
      BY <2>8 DEF Take, Stored, Token, InboxBounds
    <3> QED BY <3>1, <3>2, <2>8 DEF Take
  <2>9. CASE Taken(c)
    BY <2>9 DEF Taken, StoresTyped
  <2>10. CASE AppendEvent(c)
    BY <2>10 DEF AppendEvent, StoresTyped
  <2>11. CASE Complete(c)
    BY <2>11 DEF Complete, StoresTyped
  <2>12. CASE CompleteWrite(c)
    BY <2>12 DEF CompleteWrite, StoresTyped
  <2>13. CASE Fail(c)
    BY <2>13 DEF Fail, StoresTyped
  <2>14. CASE FailWrite(c)
    BY <2>14 DEF FailWrite, StoresTyped
  <2>15. CASE List(c)
    BY <2>15 DEF List
  <2>16. CASE Relist(c)
    BY <2>16 DEF Relist
  <2> QED
    BY <1>4, <2>1, <2>2, <2>3, <2>4, <2>5, <2>6, <2>7, <2>8, <2>9, <2>10, <2>11, <2>12, <2>13,
       <2>14, <2>15, <2>16 DEF Work
<1> QED BY <1>1, <1>2, <1>3, <1>4 DEF InboxNext

\* A call that ends gives back its lock with its batch.
LEMMA FinishLock ==
    ASSUME TypedInv, NEW c \in Caller, Finish(c)
    PROVE  LockTyped'
<1> USE InboxConstants, HomeTyped
    DEF TypedInv, CallersTyped, LockTyped, Finish, Return, ProcessAssumption, home
<1>1. CASE batch[home(c)] = c
  <2>1. \A p \in Process : batch'[p] = None
    BY <1>1
  <2> QED BY <1>1, <2>1
<1>2. CASE batch[home(c)] # c /\ lock = c
  <2>1. \A p \in Process : batch'[p] = None
    BY <1>2
  <2> QED BY <1>2, <2>1 DEF Exit
<1>3. CASE batch[home(c)] # c /\ lock # c
  <2>1. UNCHANGED <<lock, batch>> /\ (lock # None => op'[lock] = op[lock])
    BY <1>3 DEF Exit
  <2> QED BY <2>1
<1> QED BY <1>1, <1>2, <1>3

\* Every step leaves the lock with a caller at work and a batch with the lock.
LEMMA LockStep ==
    ASSUME TypedInv, InboxNext
    PROVE  LockTyped'
<1> USE HomeTyped, InboxConstants

        DEF TypedInv, CallersTyped, Place, LockTyped, Enter, Exit, Goto, Return, Finish, Idle,
            ProcessAssumption, Step
<1>1. ASSUME NEW p \in Process, Start(p) \/ Warm(p) \/ Crash(p) PROVE LockTyped'
  <2>1. CASE Start(p)
    BY <2>1 DEF Start, Up
  <2>2. CASE Warm(p)
    BY <2>2 DEF Warm
  <2>3. CASE Crash(p)
    BY <2>3 DEF Crash
  <2> QED BY <1>1, <2>1, <2>2, <2>3
<1>2. ASSUME NEW n \in 1..MaxClaims, LeaseEnds(n) PROVE LockTyped'
  BY <1>2 DEF LeaseEnds
<1>3. ASSUME NEW c \in Caller, NEW i \in Command, Ingest(c, i) PROVE LockTyped'
  BY <1>3 DEF Ingest, MayCall
<1>4. ASSUME NEW c \in Caller, Drain(c) \/ Discover(c) \/ Work(c) PROVE LockTyped'
  <2>1. CASE Drain(c)
    BY <2>1 DEF Drain, MayCall
  <2>2. CASE Discover(c)
    BY <2>2 DEF Discover, MayCall
  <2>3. CASE Enqueue(c)
    BY <2>3 DEF Enqueue
  <2>4. CASE EnqueueWrite(c)
    BY <2>4 DEF EnqueueWrite
  <2>5. CASE AppendAgain(c)
    BY <2>5 DEF AppendAgain
  <2>6. CASE Claim(c)
    BY <2>6 DEF Claim
  <2>7. CASE RequeueExpired(c)
    BY <2>7 DEF RequeueExpired
  <2>8. CASE Take(c)
    BY <2>8 DEF Take
  <2>9. CASE Taken(c)
    <3>1. CASE op[c].todo = {}
      BY <3>1, <2>9, FinishLock DEF Taken
    <3>2. CASE op[c].todo # {}
      BY <3>2, <2>9 DEF Taken
    <3> QED BY <3>1, <3>2
  <2>10. CASE AppendEvent(c)
    BY <2>10 DEF AppendEvent, Choose, Refuse
  <2>11. CASE Complete(c)
    BY <2>11 DEF Complete
  <2>12. CASE CompleteWrite(c)
    <3> PICK t \in op[c].pick : Proceed(c, t) \/ (Goto(c, "fail") /\ Exit(c) /\ UNCHANGED batch)
      BY <2>12 DEF CompleteWrite
    <3>1. CASE Proceed(c, t)
      BY <3>1, <2>12, FinishLock DEF CompleteWrite, Proceed
    <3>2. CASE Goto(c, "fail") /\ Exit(c) /\ UNCHANGED batch
      BY <3>2, <2>12 DEF CompleteWrite
    <3> QED BY <3>1, <3>2
  <2>13. CASE Fail(c)
    BY <2>13 DEF Fail
  <2>14. CASE FailWrite(c)
    BY <2>14 DEF FailWrite, Proceed
  <2>15. CASE List(c)
    BY <2>15 DEF List
  <2>16. CASE Relist(c)
    BY <2>16 DEF Relist
  <2> QED
    BY <1>4, <2>1, <2>2, <2>3, <2>4, <2>5, <2>6, <2>7, <2>8, <2>9, <2>10, <2>11, <2>12, <2>13,
       <2>14, <2>15, <2>16 DEF Work
<1> QED BY <1>1, <1>2, <1>3, <1>4 DEF InboxNext

\* The caller c changes its record to r, and no process loses its cache.
LEMMA OneCaller ==
    ASSUME TypedInv, NEW c \in Caller, NEW r \in Place, op' = [op EXCEPT ![c] = r], CallerOK(c)',
           claims' = claims \/ (claims < MaxClaims /\ claims' = claims + 1),
           \A q \in Process : cache[q] \in [Command -> Stored] => cache'[q] \in [Command -> Stored]
    PROVE  CallersTyped'
<1>1. op' \in [Caller -> Place] /\ \A d \in Caller : d # c => op'[d] = op[d]
  BY DEF TypedInv, CallersTyped
<1>2. claims' \in 0..MaxClaims /\ claims <= claims'
  BY InboxConstants DEF TypedInv, CallersTyped, InboxBounds
<1>3. \A d \in Caller : d # c => CallerOK(d)'
  BY <1>1, <1>2, HomeTyped DEF TypedInv, CallersTyped, CallerOK, home
<1> QED BY <1>1, <1>2, <1>3 DEF CallersTyped

\* A caller that returns is idle.
LEMMA ReturnTyped ==
    ASSUME TypedInv, NEW c \in Caller, Return(c), claims' = claims,
           \A q \in Process : cache[q] \in [Command -> Stored] => cache'[q] \in [Command -> Stored]
    PROVE  CallersTyped'
<1>1. Idle \in Place
  BY DEF Idle, Place, Step
<1>2. op' = [op EXCEPT ![c] = Idle] /\ op'[c] = Idle
  BY DEF Return, TypedInv, CallersTyped
<1>3. CallerOK(c)'
  BY <1>2 DEF CallerOK, Idle, Reading, Settling
<1> QED BY <1>1, <1>2, <1>3, OneCaller

\* One lemma per operation: the record of its caller keeps its type.
LEMMA TypedIngest ==
    ASSUME TypedInv, NEW c \in Caller, NEW i \in Command, Ingest(c, i)
    PROVE  CallersTyped'
<1> DEFINE r == [Idle EXCEPT !.at = "enqueue", !.only = i]
<1>1. op[c] \in Place /\ CallerOK(c) /\ cache[home(c)] \in [Command -> Stored]
  BY HomeTyped DEF TypedInv, CallersTyped, CallerOK, Ingest, MayCall, Up, StoresTyped
<1>2. r \in Place /\ op' = [op EXCEPT ![c] = r]
  BY <1>1, HomeTyped, ViewTyped
  DEF TypedInv, StoresTyped, CallersTyped, Ingest, Place, Step, Goto, Idle
<1>3. op'[c] = r
  BY <1>1, <1>2 DEF TypedInv, CallersTyped
<1>4. \A q \in Process : cache[q] \in [Command -> Stored] => cache'[q] \in [Command -> Stored]
  BY <1>1, HomeTyped, ReadTyped, WriteTyped, RecordsTyped DEF TypedInv, Ingest, NoWrite
<1>5. CallerOK(c)'
  BY <1>1, <1>3, <1>4, HomeTyped, ReadTyped, ViewTyped

      DEF TypedInv, CallersTyped, StoresTyped, CallerOK, Ingest, Place, Reading, Settling,
          home, Idle, Held
<1> QED BY <1>2, <1>4, <1>5, OneCaller DEF Ingest

LEMMA TypedDrain ==
    ASSUME TypedInv, NEW c \in Caller, Drain(c)
    PROVE  CallersTyped'
<1> DEFINE r == [op[c] EXCEPT !.at = "claim"]
<1>1. op[c] \in Place /\ CallerOK(c) /\ cache[home(c)] \in [Command -> Stored]
  BY HomeTyped DEF TypedInv, CallersTyped, CallerOK, Drain, MayCall, Up, StoresTyped
<1>2. r \in Place /\ op' = [op EXCEPT ![c] = r]
  BY <1>1, HomeTyped, ViewTyped
  DEF TypedInv, StoresTyped, CallersTyped, Drain, Place, Step, Goto, Idle
<1>3. op'[c] = r
  BY <1>1, <1>2 DEF TypedInv, CallersTyped
<1>4. \A q \in Process : cache[q] \in [Command -> Stored] => cache'[q] \in [Command -> Stored]
  BY <1>1, HomeTyped, ReadTyped, WriteTyped, RecordsTyped DEF TypedInv, Drain, NoWrite
<1>5. CallerOK(c)'
  BY <1>1, <1>3, <1>4, HomeTyped, ReadTyped, ViewTyped

      DEF TypedInv, CallersTyped, StoresTyped, CallerOK, Drain, Place, Reading, Settling,
          home, Idle, Held
<1> QED BY <1>2, <1>4, <1>5, OneCaller DEF Drain

LEMMA TypedDiscover ==
    ASSUME TypedInv, NEW c \in Caller, Discover(c)
    PROVE  CallersTyped'
<1> DEFINE r == [op[c] EXCEPT !.at = "list"]
<1>1. op[c] \in Place /\ CallerOK(c) /\ cache[home(c)] \in [Command -> Stored]
  BY HomeTyped DEF TypedInv, CallersTyped, CallerOK, Discover, MayCall, Up, StoresTyped
<1>2. r \in Place /\ op' = [op EXCEPT ![c] = r]
  BY <1>1, HomeTyped, ViewTyped
  DEF TypedInv, StoresTyped, CallersTyped, Discover, Place, Step, Goto, Idle
<1>3. op'[c] = r
  BY <1>1, <1>2 DEF TypedInv, CallersTyped
<1>4. \A q \in Process : cache[q] \in [Command -> Stored] => cache'[q] \in [Command -> Stored]
  BY <1>1, HomeTyped, ReadTyped, WriteTyped, RecordsTyped DEF TypedInv, Discover, NoWrite
<1>5. CallerOK(c)'
  BY <1>1, <1>3, <1>4, HomeTyped, ReadTyped, ViewTyped

      DEF TypedInv, CallersTyped, StoresTyped, CallerOK, Discover, Place, Reading, Settling,
          home, Idle, Held
<1> QED BY <1>2, <1>4, <1>5, OneCaller DEF Discover

LEMMA TypedEnqueue ==
    ASSUME TypedInv, NEW c \in Caller, Enqueue(c)
    PROVE  CallersTyped'
<1> DEFINE r == [op[c] EXCEPT !.at = "write", !.view = View(home(c))]
<1>1. op[c] \in Place /\ CallerOK(c) /\ cache[home(c)] \in [Command -> Stored]
  BY HomeTyped DEF TypedInv, CallersTyped, CallerOK, Enqueue, MayCall, Up, StoresTyped
<1>2. r \in Place /\ op' = [op EXCEPT ![c] = r]
  BY <1>1, HomeTyped, ViewTyped
  DEF TypedInv, StoresTyped, CallersTyped, Enqueue, Place, Step, Goto, Idle
<1>3. op'[c] = r
  BY <1>1, <1>2 DEF TypedInv, CallersTyped
<1>4. \A q \in Process : cache[q] \in [Command -> Stored] => cache'[q] \in [Command -> Stored]
  BY <1>1, HomeTyped, ReadTyped, WriteTyped, RecordsTyped DEF TypedInv, Enqueue, NoWrite
<1>5. CallerOK(c)'
  BY <1>1, <1>3, <1>4, HomeTyped, ReadTyped, ViewTyped

      DEF TypedInv, CallersTyped, StoresTyped, CallerOK, Enqueue, Place, Reading, Settling,
          home, Idle, Held
<1> QED BY <1>2, <1>4, <1>5, OneCaller DEF Enqueue

LEMMA TypedClaim ==
    ASSUME TypedInv, NEW c \in Caller, Claim(c)
    PROVE  CallersTyped'
<1> DEFINE r == [op[c] EXCEPT !.at = "requeue", !.view = View(home(c))]
<1>1. op[c] \in Place /\ CallerOK(c) /\ cache[home(c)] \in [Command -> Stored]
  BY HomeTyped DEF TypedInv, CallersTyped, CallerOK, Claim, MayCall, Up, StoresTyped
<1>2. r \in Place /\ op' = [op EXCEPT ![c] = r]
  BY <1>1, HomeTyped, ViewTyped
  DEF TypedInv, StoresTyped, CallersTyped, Claim, Place, Step, Goto, Idle
<1>3. op'[c] = r
  BY <1>1, <1>2 DEF TypedInv, CallersTyped
<1>4. \A q \in Process : cache[q] \in [Command -> Stored] => cache'[q] \in [Command -> Stored]
  BY <1>1, HomeTyped, ReadTyped, WriteTyped, RecordsTyped DEF TypedInv, Claim, NoWrite
<1>5. CallerOK(c)'
  BY <1>1, <1>3, <1>4, HomeTyped, ReadTyped, ViewTyped

      DEF TypedInv, CallersTyped, StoresTyped, CallerOK, Claim, Place, Reading, Settling,
          home, Idle, Held
<1> QED BY <1>2, <1>4, <1>5, OneCaller DEF Claim

LEMMA TypedList ==
    ASSUME TypedInv, NEW c \in Caller, List(c)
    PROVE  CallersTyped'
<1> DEFINE r == [op[c] EXCEPT !.at = "relist", !.view = cache'[home(c)]]
<1>1. op[c] \in Place /\ CallerOK(c) /\ cache[home(c)] \in [Command -> Stored]
  BY HomeTyped DEF TypedInv, CallersTyped, CallerOK, List, MayCall, Up, StoresTyped
<1>2. r \in Place /\ op' = [op EXCEPT ![c] = r]
  BY <1>1, HomeTyped, ViewTyped, ReadTyped
  DEF TypedInv, StoresTyped, CallersTyped, List, Place, Step, Goto, Idle
<1>3. op'[c] = r
  BY <1>1, <1>2 DEF TypedInv, CallersTyped
<1>4. \A q \in Process : cache[q] \in [Command -> Stored] => cache'[q] \in [Command -> Stored]
  BY <1>1, HomeTyped, ReadTyped, WriteTyped, RecordsTyped DEF TypedInv, List, NoWrite
<1>5. CallerOK(c)'
  BY <1>1, <1>3, <1>4, HomeTyped, ReadTyped, ViewTyped

      DEF TypedInv, CallersTyped, StoresTyped, CallerOK, List, Place, Reading, Settling, home,
          Idle, Held
<1> QED BY <1>2, <1>4, <1>5, OneCaller DEF List

LEMMA TypedComplete ==
    ASSUME TypedInv, NEW c \in Caller, Complete(c)
    PROVE  CallersTyped'
<1> DEFINE r == [op[c] EXCEPT !.at = "completing", !.view = file]
<1>1. op[c] \in Place /\ CallerOK(c) /\ cache[home(c)] \in [Command -> Stored]
  BY HomeTyped DEF TypedInv, CallersTyped, CallerOK, Complete, MayCall, Up, StoresTyped
<1>2. r \in Place /\ op' = [op EXCEPT ![c] = r]
  BY <1>1, HomeTyped, ViewTyped
  DEF TypedInv, StoresTyped, CallersTyped, Complete, Place, Step, Goto, Idle
<1>3. op'[c] = r
  BY <1>1, <1>2 DEF TypedInv, CallersTyped
<1>4. \A q \in Process : cache[q] \in [Command -> Stored] => cache'[q] \in [Command -> Stored]
  BY <1>1, HomeTyped, ReadTyped, WriteTyped, RecordsTyped DEF TypedInv, Complete, NoWrite
<1>5. CallerOK(c)'
  BY <1>1, <1>3, <1>4, HomeTyped, ReadTyped, ViewTyped

      DEF TypedInv, CallersTyped, StoresTyped, CallerOK, Complete, Place, Reading, Settling,
          home, Idle, Held
<1> QED BY <1>2, <1>4, <1>5, OneCaller DEF Complete

LEMMA TypedFail ==
    ASSUME TypedInv, NEW c \in Caller, Fail(c)
    PROVE  CallersTyped'
<1> DEFINE r == [op[c] EXCEPT !.at = "failing", !.view = file]
<1>1. op[c] \in Place /\ CallerOK(c) /\ cache[home(c)] \in [Command -> Stored]
  BY HomeTyped DEF TypedInv, CallersTyped, CallerOK, Fail, MayCall, Up, StoresTyped
<1>2. r \in Place /\ op' = [op EXCEPT ![c] = r]
  BY <1>1, HomeTyped, ViewTyped
  DEF TypedInv, StoresTyped, CallersTyped, Fail, Place, Step, Goto, Idle
<1>3. op'[c] = r
  BY <1>1, <1>2 DEF TypedInv, CallersTyped
<1>4. \A q \in Process : cache[q] \in [Command -> Stored] => cache'[q] \in [Command -> Stored]
  BY <1>1, HomeTyped, ReadTyped, WriteTyped, RecordsTyped DEF TypedInv, Fail, NoWrite
<1>5. CallerOK(c)'
  BY <1>1, <1>3, <1>4, HomeTyped, ReadTyped, ViewTyped

      DEF TypedInv, CallersTyped, StoresTyped, CallerOK, Fail, Place, Reading, Settling, home,
          Idle, Held
<1> QED BY <1>2, <1>4, <1>5, OneCaller DEF Fail

\* A caller that is done with a claim returns or goes on with the next.
LEMMA ProceedTyped ==
    ASSUME TypedInv, NEW c \in Caller, NEW t, Proceed(c, t), claims' = claims, op[c].at # "idle",
           \A q \in Process : cache[q] \in [Command -> Stored] => cache'[q] \in [Command -> Stored]
    PROVE  CallersTyped'
<1>1. CASE op[c].todo = {t}
  BY <1>1, ReturnTyped DEF Proceed, Finish
<1>2. CASE op[c].todo # {t}
  <2> DEFINE r == [op[c] EXCEPT !.at = "append", !.todo = @ \ {t}, !.pick = {}, !.view = None]
  <2>1. op[c] \in Place /\ CallerOK(c) /\ cache[home(c)] \in [Command -> Stored]
    BY HomeTyped DEF TypedInv, CallersTyped, CallerOK
  <2>2. r \in Place /\ op' = [op EXCEPT ![c] = r]
    BY <1>2, <2>1 DEF Proceed, Place, Step, TypedInv, CallersTyped
  <2>3. op'[c] = r
    BY <2>2 DEF TypedInv, CallersTyped
  <2>4. CallerOK(c)'
    BY <2>1, <2>3, HomeTyped DEF CallerOK, Reading, Settling, home
  <2> QED BY <2>2, <2>4, OneCaller
<1> QED BY <1>1, <1>2

LEMMA TypedEnqueueWrite ==
    ASSUME TypedInv, NEW c \in Caller, EnqueueWrite(c)
    PROVE  CallersTyped'
<1>1. op[c] \in Place /\ CallerOK(c) /\ cache[home(c)] \in [Command -> Stored]
  BY HomeTyped DEF TypedInv, CallersTyped, CallerOK, EnqueueWrite
<1>2. \A q \in Process : cache[q] \in [Command -> Stored] => cache'[q] \in [Command -> Stored]
  BY <1>1, HomeTyped, ReadTyped, WriteTyped, RecordsTyped
  DEF TypedInv, Status, EnqueueWrite, NoWrite
<1>3. claims' = claims
  BY DEF EnqueueWrite
<1>4. CASE Goto(c, "claim")
  <2> DEFINE r == [op[c] EXCEPT !.at = "claim"]
  <2>1. r \in Place /\ op' = [op EXCEPT ![c] = r]
    BY <1>1, <1>4 DEF Goto, Place, Step, TypedInv, CallersTyped
  <2>2. op'[c] = r
    BY <2>1 DEF TypedInv, CallersTyped
  <2>3. CallerOK(c)'
    BY <1>1, <1>2, <2>2, HomeTyped, <1>3 DEF CallerOK, Reading, Settling, home, Place
  <2> QED BY <1>2, <2>1, <2>3, OneCaller, <1>3
<1>5. CASE Goto(c, "again")
  <2> DEFINE r == [op[c] EXCEPT !.at = "again"]
  <2>1. r \in Place /\ op' = [op EXCEPT ![c] = r]
    BY <1>1, <1>5 DEF Goto, Place, Step, TypedInv, CallersTyped
  <2>2. op'[c] = r
    BY <2>1 DEF TypedInv, CallersTyped
  <2>3. CallerOK(c)'
    BY <1>1, <1>2, <2>2, HomeTyped, <1>3
    DEF EnqueueWrite, CallerOK, Reading, Settling, home, Place
  <2> QED BY <1>2, <2>1, <2>3, OneCaller, <1>3
<1>6. CASE Return(c)
  BY <1>2, <1>3, <1>6, ReturnTyped
<1> QED BY <1>4, <1>5, <1>6 DEF EnqueueWrite, Finish

LEMMA TypedAppendAgain ==
    ASSUME TypedInv, NEW c \in Caller, AppendAgain(c)
    PROVE  CallersTyped'
<1>1. op[c] \in Place /\ CallerOK(c) /\ cache[home(c)] \in [Command -> Stored]
  BY HomeTyped DEF TypedInv, CallersTyped, CallerOK, AppendAgain
<1>2. \A q \in Process : cache[q] \in [Command -> Stored] => cache'[q] \in [Command -> Stored]
  BY <1>1, HomeTyped, ReadTyped, WriteTyped, RecordsTyped DEF TypedInv, Status, AppendAgain
<1> QED BY <1>2, ReturnTyped DEF AppendAgain, Finish

LEMMA TypedRelist ==
    ASSUME TypedInv, NEW c \in Caller, Relist(c)
    PROVE  CallersTyped'
<1>1. op[c] \in Place /\ CallerOK(c) /\ cache[home(c)] \in [Command -> Stored]
  BY HomeTyped DEF TypedInv, CallersTyped, CallerOK, Relist
<1>2. \A q \in Process : cache[q] \in [Command -> Stored] => cache'[q] \in [Command -> Stored]
  BY <1>1, HomeTyped, ReadTyped, WriteTyped, RecordsTyped DEF TypedInv, Status, Relist
<1> QED BY <1>2, ReturnTyped DEF Relist, Finish

LEMMA TypedRequeueExpired ==
    ASSUME TypedInv, NEW c \in Caller, RequeueExpired(c)
    PROVE  CallersTyped'
<1> DEFINE r == [op[c] EXCEPT !.at = "take", !.view = None, !.pick = op'[c].pick]
<1>1. op[c] \in Place /\ CallerOK(c) /\ cache[home(c)] \in [Command -> Stored]
  BY HomeTyped DEF TypedInv, CallersTyped, CallerOK, RequeueExpired, MayCall, Up, StoresTyped
<1>2. r \in Place /\ op' = [op EXCEPT ![c] = r]
  BY <1>1, HomeTyped, ViewTyped
  DEF TypedInv, StoresTyped, CallersTyped, RequeueExpired, Place, Step, Goto, Idle
<1>3. op'[c] = r
  BY <1>1, <1>2 DEF TypedInv, CallersTyped
<1>4. \A q \in Process : cache[q] \in [Command -> Stored] => cache'[q] \in [Command -> Stored]
  BY <1>1, HomeTyped, ReadTyped, WriteTyped, RecordsTyped DEF TypedInv, RequeueExpired, NoWrite
<1>5. CallerOK(c)'
  BY <1>1, <1>3, <1>4, HomeTyped, ReadTyped, ViewTyped

      DEF TypedInv, CallersTyped, StoresTyped, CallerOK, RequeueExpired, Place, Reading,
          Settling, home, Idle, Held
<1> QED BY <1>2, <1>4, <1>5, OneCaller DEF RequeueExpired

LEMMA TypedTake ==
    ASSUME TypedInv, NEW c \in Caller, Take(c)
    PROVE  CallersTyped'
<1>1. op[c] \in Place /\ CallerOK(c) /\ cache[home(c)] \in [Command -> Stored]
  BY HomeTyped DEF TypedInv, CallersTyped, CallerOK, Take
<1>3. PICK i \in op[c].pick :
        /\ Write(home(c), {i}, [status |-> "claimed", token |-> claims + 1])
        /\ op' = [op EXCEPT ![c].pick = @ \ {i},
                            ![c].todo = @ \cup {[command |-> i, token |-> claims + 1]}]
  BY DEF Take
<1>4. [status |-> "claimed", token |-> claims + 1] \in Stored /\ i \in Command
  BY <1>1, InboxConstants
  DEF Take, Stored, Token, InboxBounds, Status, TypedInv, CallersTyped, CallerOK
<1>2. \A q \in Process : cache[q] \in [Command -> Stored] => cache'[q] \in [Command -> Stored]
  BY <1>1, <1>3, <1>4, HomeTyped, WriteTyped DEF TypedInv
<1> DEFINE t == [command |-> i, token |-> claims + 1]
           r == [op[c] EXCEPT !.pick = @ \ {i}, !.todo = @ \cup {t}]
<1>5. t \in Held
  BY <1>4, InboxConstants DEF Held, Take, Token, InboxBounds, TypedInv, CallersTyped
<1>6. r \in Place /\ op' = [op EXCEPT ![c] = r]
  BY <1>1, <1>3, <1>5 DEF Place, Step, TypedInv, CallersTyped
<1>7. op'[c] = r
  BY <1>6 DEF TypedInv, CallersTyped
<1>8. CallerOK(c)'
  BY <1>1, <1>2, <1>7, HomeTyped, InboxConstants
  DEF Take, CallerOK, Reading, Settling, home, TypedInv, CallersTyped, InboxBounds, Place
<1> QED BY <1>2, <1>6, <1>8, OneCaller DEF Take

LEMMA TypedTaken ==
    ASSUME TypedInv, NEW c \in Caller, Taken(c)
    PROVE  CallersTyped'
<1>1. op[c] \in Place /\ CallerOK(c) /\ cache[home(c)] \in [Command -> Stored]
  BY HomeTyped DEF TypedInv, CallersTyped, CallerOK, Taken
<1>2. \A q \in Process : cache[q] \in [Command -> Stored] => cache'[q] \in [Command -> Stored]
  BY <1>1, HomeTyped, ReadTyped, WriteTyped, RecordsTyped DEF TypedInv, Status, Taken
<1>3. claims' = claims
  BY DEF Taken
<1>4. CASE Goto(c, "append")
  <2> DEFINE r == [op[c] EXCEPT !.at = "append"]
  <2>1. r \in Place /\ op' = [op EXCEPT ![c] = r]
    BY <1>1, <1>4 DEF Goto, Place, Step, TypedInv, CallersTyped
  <2>2. op'[c] = r
    BY <2>1 DEF TypedInv, CallersTyped
  <2>3. CallerOK(c)'
    BY <1>1, <1>2, <2>2, HomeTyped, <1>3 DEF CallerOK, Reading, Settling, home, Place
  <2> QED BY <1>2, <2>1, <2>3, OneCaller, <1>3
<1>5. CASE Return(c)
  BY <1>2, <1>3, <1>5, ReturnTyped
<1> QED BY <1>4, <1>5 DEF Taken, Finish

LEMMA TypedAppendEvent ==
    ASSUME TypedInv, NEW c \in Caller, AppendEvent(c)
    PROVE  CallersTyped'
<1>1. op[c] \in Place /\ CallerOK(c) /\ cache[home(c)] \in [Command -> Stored]
  BY HomeTyped DEF TypedInv, CallersTyped, CallerOK, AppendEvent
<1>2. \A q \in Process : cache[q] \in [Command -> Stored] => cache'[q] \in [Command -> Stored]
  BY <1>1, HomeTyped, ReadTyped, WriteTyped, RecordsTyped DEF TypedInv, Status, AppendEvent
<1>3. PICK t \in op[c].todo, s \in {"complete", "fail"} :
        op' = [op EXCEPT ![c].at = s, ![c].pick = {t}]
  BY DEF AppendEvent, Choose, Refuse
<1> DEFINE r == [op[c] EXCEPT !.at = s, !.pick = {t}]
<1>4. r \in Place /\ op' = [op EXCEPT ![c] = r]
  BY <1>1, <1>3 DEF Place, Step, TypedInv, CallersTyped
<1>5. op'[c] = r
  BY <1>4 DEF TypedInv, CallersTyped
<1>6. CallerOK(c)'
  BY <1>1, <1>2, <1>5, HomeTyped DEF CallerOK, Reading, Settling, home, AppendEvent
<1> QED BY <1>2, <1>4, <1>6, OneCaller DEF AppendEvent

LEMMA TypedCompleteWrite ==
    ASSUME TypedInv, NEW c \in Caller, CompleteWrite(c)
    PROVE  CallersTyped'
<1>1. op[c] \in Place /\ CallerOK(c) /\ cache[home(c)] \in [Command -> Stored]
  BY HomeTyped DEF TypedInv, CallersTyped, CallerOK, CompleteWrite
<1>2. \A q \in Process : cache[q] \in [Command -> Stored] => cache'[q] \in [Command -> Stored]
  BY <1>1, HomeTyped, ReadTyped, WriteTyped, RecordsTyped
  DEF TypedInv, Status, CompleteWrite, NoWrite
<1>3. claims' = claims
  BY DEF CompleteWrite
<1>4. CASE Goto(c, "fail")
  <2> DEFINE r == [op[c] EXCEPT !.at = "fail"]
  <2>1. r \in Place /\ op' = [op EXCEPT ![c] = r]
    BY <1>1, <1>4 DEF Goto, Place, Step, TypedInv, CallersTyped
  <2>2. op'[c] = r
    BY <2>1 DEF TypedInv, CallersTyped
  <2>3. CallerOK(c)'
    BY <1>1, <1>2, <2>2, HomeTyped, <1>3
    DEF CompleteWrite, CallerOK, Reading, Settling, home, Place
  <2> QED BY <1>2, <2>1, <2>3, OneCaller, <1>3
<1>5. ASSUME NEW t, Proceed(c, t) PROVE CallersTyped'
  BY <1>2, <1>3, <1>5, ProceedTyped DEF CompleteWrite
<1> QED BY <1>4, <1>5 DEF CompleteWrite

LEMMA TypedFailWrite ==
    ASSUME TypedInv, NEW c \in Caller, FailWrite(c)
    PROVE  CallersTyped'
<1>1. op[c] \in Place /\ CallerOK(c) /\ cache[home(c)] \in [Command -> Stored]
  BY HomeTyped DEF TypedInv, CallersTyped, CallerOK, FailWrite
<1>2. \A q \in Process : cache[q] \in [Command -> Stored] => cache'[q] \in [Command -> Stored]
  BY <1>1, HomeTyped, ReadTyped, WriteTyped, RecordsTyped
  DEF TypedInv, Status, FailWrite, NoWrite
<1> QED BY <1>2, ProceedTyped DEF FailWrite

\* Every step keeps the callers' types.
LEMMA CallersStep ==
    ASSUME TypedInv, InboxNext
    PROVE  CallersTyped'
<1>1. ASSUME NEW p \in Process, Start(p) \/ Warm(p) PROVE CallersTyped'
  <2>1. UNCHANGED <<op, claims>>
    BY <1>1 DEF Start, Warm
  <2>2. \A q \in Process : cache[q] \in [Command -> Stored] => cache'[q] \in [Command -> Stored]
    <3>1. CASE Start(p)
      <4>1. file' \in [Command -> Stored]
        BY StoresStep DEF StoresTyped
      <4> QED BY <3>1, <4>1, RecordsTyped DEF Start, TypedInv, StoresTyped
    <3>2. CASE Warm(p)
      BY <3>2, ReadTyped DEF Warm, Up, TypedInv, StoresTyped
    <3> QED BY <1>1, <3>1, <3>2
  <2> QED BY <2>1, <2>2, HomeTyped DEF TypedInv, CallersTyped, CallerOK, home
<1>2. ASSUME NEW p \in Process, Crash(p) PROVE CallersTyped'
  <2>1. Idle \in Place
    BY DEF Idle, Place, Step
  <2>2. op' \in [Caller -> Place] /\ claims' = claims
    BY <1>2, <2>1 DEF Crash, TypedInv, CallersTyped
  <2>3. ASSUME NEW c \in Caller, home(c) = p PROVE CallerOK(c)'
    BY <1>2, <2>3 DEF Crash, CallerOK, Idle, Reading, Settling
  <2>4. ASSUME NEW c \in Caller, home(c) # p PROVE CallerOK(c)'
    BY <1>2, <2>4, HomeTyped DEF Crash, TypedInv, CallersTyped, CallerOK, StoresTyped, home
  <2> QED BY <2>2, <2>3, <2>4 DEF TypedInv, CallersTyped
<1>3. ASSUME NEW n \in 1..MaxClaims, LeaseEnds(n) PROVE CallersTyped'
  BY <1>3 DEF LeaseEnds, TypedInv, CallersTyped, CallerOK, home
<1>4. ASSUME NEW c \in Caller, NEW i \in Command, Ingest(c, i) PROVE CallersTyped'
  BY <1>4, TypedIngest
<1>5. ASSUME NEW c \in Caller, Drain(c) \/ Discover(c) \/ Work(c) PROVE CallersTyped'
  BY <1>5, TypedDrain, TypedDiscover, TypedEnqueue, TypedEnqueueWrite, TypedAppendAgain,
     TypedClaim,
     TypedRequeueExpired, TypedTake, TypedTaken, TypedAppendEvent, TypedComplete,
     TypedCompleteWrite, TypedFail, TypedFailWrite, TypedList, TypedRelist DEF Work
<1> QED BY <1>1, <1>2, <1>3, <1>4, <1>5 DEF InboxNext

\* Every step keeps the types of the stream and of what was acknowledged.
LEMMA StreamStep ==
    ASSUME TypedInv, StreamTyped, InboxNext
    PROVE  StreamTyped'
<1> USE DEF TypedInv, StreamTyped, boundVars
<1>1. ASSUME NEW p \in Process, Start(p) \/ Warm(p) \/ Crash(p) PROVE StreamTyped'
  <2>1. CASE Start(p)
    BY <2>1 DEF Start
  <2>2. CASE Warm(p)
    BY <2>2 DEF Warm
  <2>3. CASE Crash(p)
    BY <2>3 DEF Crash
  <2> QED BY <1>1, <2>1, <2>2, <2>3
<1>2. ASSUME NEW n \in 1..MaxClaims, LeaseEnds(n) PROVE StreamTyped'
  BY <1>2 DEF LeaseEnds
<1>3. ASSUME NEW c \in Caller, NEW i \in Command, Ingest(c, i) PROVE StreamTyped'
  BY <1>3 DEF Ingest, MayCall
<1>4. ASSUME NEW c \in Caller, Drain(c) \/ Discover(c) \/ Work(c) PROVE StreamTyped'
  <2>1. CASE Drain(c)
    BY <2>1 DEF Drain, MayCall
  <2>2. CASE Discover(c)
    BY <2>2 DEF Discover, MayCall
  <2>3. CASE Enqueue(c)
    BY <2>3 DEF Enqueue
  <2>4. CASE EnqueueWrite(c)
    BY <2>4 DEF EnqueueWrite
  <2>5. CASE AppendAgain(c)
    BY <2>5 DEF AppendAgain, CallersTyped, CallerOK
  <2>6. CASE Claim(c)
    BY <2>6 DEF Claim
  <2>7. CASE RequeueExpired(c)
    BY <2>7 DEF RequeueExpired
  <2>8. CASE Take(c)
    BY <2>8 DEF Take
  <2>9. CASE Taken(c)
    BY <2>9 DEF Taken
  <2>10. CASE AppendEvent(c)
    BY <2>10 DEF AppendEvent, CallersTyped, CallerOK, Place, Held
  <2>11. CASE Complete(c)
    BY <2>11 DEF Complete
  <2>12. CASE CompleteWrite(c)
    BY <2>12 DEF CompleteWrite, CallersTyped, CallerOK, Place, Held, Settling
  <2>13. CASE Fail(c)
    BY <2>13 DEF Fail
  <2>14. CASE FailWrite(c)
    BY <2>14 DEF FailWrite
  <2>15. CASE List(c)
    BY <2>15 DEF List
  <2>16. CASE Relist(c)
    BY <2>16 DEF Relist
  <2> QED
    BY <1>4, <2>1, <2>2, <2>3, <2>4, <2>5, <2>6, <2>7, <2>8, <2>9, <2>10, <2>11, <2>12, <2>13,
       <2>14, <2>15, <2>16 DEF Work
<1> QED BY <1>1, <1>2, <1>3, <1>4 DEF InboxNext

LEMMA TypedInit == InboxInit => TypedInv /\ StreamTyped
<1> SUFFICES ASSUME InboxInit PROVE TypedInv /\ StreamTyped
  OBVIOUS
<1> USE InboxConstants DEF InboxInit, InboxBounds, ProcessAssumption
<1>1. StoresTyped
  BY RecordsTyped DEF StoresTyped
<1>2. Idle \in Place
  BY DEF Idle, Place, Step
<1>3. CallersTyped
  BY <1>2 DEF CallersTyped, CallerOK, Idle, Reading, Settling
<1>4. LockTyped /\ StreamTyped
  BY DEF LockTyped, StreamTyped
<1> QED BY <1>1, <1>3, <1>4 DEF TypedInv

LEMMA TypedStep == TypedInv /\ StreamTyped /\ [InboxNext]_inboxVars => TypedInv' /\ StreamTyped'
<1> SUFFICES ASSUME TypedInv, StreamTyped, [InboxNext]_inboxVars PROVE TypedInv' /\ StreamTyped'
  OBVIOUS
<1>1. CASE InboxNext
  BY <1>1, StoresStep, CallersStep, LockStep, StreamStep DEF TypedInv
<1>2. CASE UNCHANGED inboxVars
  BY <1>2
  DEF inboxVars, TypedInv, StreamTyped, StoresTyped, CallersTyped, CallerOK, LockTyped, home
<1> QED BY <1>1, <1>2

LEMMA TypedMeansTypeOK == TypedInv /\ StreamTyped => InboxTypeOK
BY DEF TypedInv, StreamTyped, InboxTypeOK, StoresTyped, CallersTyped, LockTyped, Place, Held

\* In every behaviour the typing invariant holds.
THEOREM InboxTyped == InboxSpec => [](TypedInv /\ StreamTyped)
<1>1. InboxInit => TypedInv /\ StreamTyped
  BY TypedInit
<1>2. TypedInv /\ StreamTyped /\ [InboxNext]_inboxVars => (TypedInv /\ StreamTyped)'
  BY TypedStep
<1> QED BY <1>1, <1>2, PTL DEF InboxSpec

\* The inbox's type invariant: whatever crashes or fails, the lock is held by a
\* caller at work and an open batch belongs to the caller that holds the lock.
THEOREM InboxTypeCorrect == InboxSpec => []InboxTypeOK
BY InboxTyped, TypedMeansTypeOK, PTL
-----------------------------------------------------------------------------
(* What the status of a command says.                                      *)

\* Where a settled command comes from: a completed one has its event, which the
\* kernel accepted, and so has every command a caller is about to complete.
Stocked ==
    /\ CompletedHasEvent
    /\ acked \subseteq stream
    /\ stream \cap Illegal = {}
    /\ \A c \in Caller :
          op[c].at \in {"complete", "completing"} => \A t \in op[c].pick : t.command \in stream

\* Without faults a command fails only when the kernel refused its event, or the
\* caller that gives it up does not own it any more.
Spared(c) ==
    \A t \in op[c].pick :
        /\ op[c].at = "completing" /\ Owns(file[t.command], t) => Owns(op[c].view[t.command], t)
        /\ op[c].at = "fail" => t.command \in Illegal \/ ~Owns(file[t.command], t)
        /\ op[c].at = "failing" => t.command \in Illegal \/ ~Owns(op[c].view[t.command], t)
Blameless ==
    faults = 0 =>
        /\ \A i \in Command : file[i].status = "failed" => i \in Illegal
        /\ \A c \in Caller : Spared(c)

\* What a caller that returns, goes to another step or proceeds leaves alone.
LEMMA Moves ==
    ASSUME TypedInv, NEW c \in Caller, NEW t,
           Proceed(c, t) \/ Return(c) \/ (\E s \in {"claim", "again", "append"} : Goto(c, s))
    PROVE  /\ \A d \in Caller : d # c => op'[d] = op[d]
           /\ op'[c].at \in {"idle", "claim", "again", "append"}
           /\ op'[c].todo \subseteq op[c].todo
BY DEF Proceed, Finish, Return, Goto, Idle, TypedInv, CallersTyped, Place

\* Every step keeps Stocked: a settlement as completed comes after the append.
LEMMA StockedStep ==
    ASSUME TypedInv, StreamTyped, Stocked, InboxNext
    PROVE  Stocked'
<1> USE
    DEF TypedInv, StoresTyped, CallersTyped, CallerOK, Place, Held, StreamTyped, Stocked,
        CompletedHasEvent, boundVars, Write, NoWrite, Goto
<1>1. ASSUME NEW p \in Process, Start(p) \/ Warm(p) \/ Crash(p) PROVE Stocked'
  <2>1. CASE Start(p)
    BY <2>1 DEF Start, Expired, Up, Queued
  <2>2. CASE Warm(p)
    BY <2>2 DEF Warm
  <2>3. CASE Crash(p)
    BY <2>3 DEF Crash, Idle, Up
  <2> QED BY <1>1, <2>1, <2>2, <2>3
<1>2. ASSUME NEW n \in 1..MaxClaims, LeaseEnds(n) PROVE Stocked'
  BY <1>2 DEF LeaseEnds
<1>3. ASSUME NEW c \in Caller, NEW i \in Command, Ingest(c, i) PROVE Stocked'
  BY <1>3 DEF Ingest, MayCall, Idle
<1>4. ASSUME NEW c \in Caller, Drain(c) \/ Discover(c) \/ Work(c) PROVE Stocked'
  <2>1. CASE Drain(c)
    BY <2>1 DEF Drain, MayCall
  <2>2. CASE Discover(c)
    BY <2>2 DEF Discover, MayCall
  <2>3. CASE Enqueue(c)
    BY <2>3 DEF Enqueue
  <2>4. CASE EnqueueWrite(c)
    <3>1. (\A d \in Caller : d # c => op'[d] = op[d])
          /\ op'[c].at \in {"idle", "claim", "again", "append"}
      BY <2>4, Moves DEF EnqueueWrite, Finish
    <3>2. \A i \in Command : file'[i] = file[i] \/ file'[i].status = "queued"
      BY <2>4 DEF EnqueueWrite, Queued
    <3> QED BY <2>4, <3>1, <3>2 DEF EnqueueWrite
  <2>5. CASE AppendAgain(c)
    BY <2>5 DEF AppendAgain, Finish, Return, Idle
  <2>6. CASE Claim(c)
    BY <2>6 DEF Claim
  <2>7. CASE RequeueExpired(c)
    BY <2>7 DEF RequeueExpired, Queued
  <2>8. CASE Take(c)
    BY <2>8 DEF Take
  <2>9. CASE Taken(c)
    BY <2>9 DEF Taken, Finish, Return, Idle
  <2>10. CASE AppendEvent(c)
    <3>1. PICK t \in op[c].todo :
            \/ /\ t.command \in stream \/ t.command \notin Illegal
               /\ stream' = stream \cup {t.command} /\ Choose(c, t)
            \/ UNCHANGED stream /\ Refuse(c, t)
      BY <2>10 DEF AppendEvent
    <3>2. \A d \in Caller : d # c => op'[d] = op[d]
      BY <3>1 DEF Choose, Refuse
    <3>3. op'[c].pick = {t} /\ (op'[c].at = "complete" => t.command \in stream')
          /\ op'[c].at \in {"complete", "fail"}
      BY <3>1 DEF Choose, Refuse
    <3> QED BY <2>10, <3>1, <3>2, <3>3 DEF AppendEvent
  <2>11. CASE Complete(c)
    BY <2>11 DEF Complete
  <2>12. CASE CompleteWrite(c)
    BY <2>12 DEF CompleteWrite, Proceed, Finish, Return, Idle, Settled, Owns, Settling
  <2>13. CASE Fail(c)
    BY <2>13 DEF Fail
  <2>14. CASE FailWrite(c)
    <3>1. (\A d \in Caller : d # c => op'[d] = op[d])
          /\ op'[c].at \in {"idle", "claim", "again", "append"}
      BY <2>14, Moves DEF FailWrite
    <3>2. \A i \in Command : file'[i] = file[i] \/ file'[i].status = "failed"
      BY <2>14 DEF FailWrite, Settled
    <3> QED BY <2>14, <3>1, <3>2 DEF FailWrite
  <2>15. CASE List(c)
    BY <2>15 DEF List
  <2>16. CASE Relist(c)
    BY <2>16 DEF Relist, Queued, Finish, Return, Idle
  <2> QED
    BY <1>4, <2>1, <2>2, <2>3, <2>4, <2>5, <2>6, <2>7, <2>8, <2>9, <2>10, <2>11, <2>12, <2>13,
       <2>14, <2>15, <2>16 DEF Work
<1> QED BY <1>1, <1>2, <1>3, <1>4 DEF InboxNext

\* A step leaves a stored command as it is, claims it under a new token or ends
\* its claim; only a settlement makes it fail.
FilesMove ==
    \A i \in Command :
        \/ file'[i] = file[i]
        \/ file'[i].status = "claimed" /\ file'[i].token = claims + 1
        \/ file'[i].status \in {"queued", "completed"}
        \/ /\ file'[i].status = "failed"
           /\ \E c \in Caller : \E t \in op[c].pick :
                 op[c].at = "failing" /\ t.command = i /\ Owns(op[c].view[i], t)

\* Every step is one of these.
LEMMA FilesMoveStep ==
    ASSUME TypedInv, InboxNext
    PROVE  FilesMove
<1> USE
    DEF TypedInv, StoresTyped, CallersTyped, CallerOK, boundVars, Write, NoWrite, FilesMove,
        Queued, Settled
<1>1. ASSUME NEW p \in Process, Start(p) \/ Warm(p) \/ Crash(p) PROVE FilesMove
  <2>1. CASE Start(p)
    BY <2>1 DEF Start
  <2>2. CASE Warm(p)
    BY <2>2 DEF Warm
  <2>3. CASE Crash(p)
    BY <2>3 DEF Crash
  <2> QED BY <1>1, <2>1, <2>2, <2>3
<1>2. ASSUME NEW n \in 1..MaxClaims, LeaseEnds(n) PROVE FilesMove
  BY <1>2 DEF LeaseEnds
<1>3. ASSUME NEW c \in Caller, NEW i \in Command, Ingest(c, i) PROVE FilesMove
  BY <1>3 DEF Ingest
<1>4. ASSUME NEW c \in Caller, Drain(c) \/ Discover(c) \/ Work(c) PROVE FilesMove
  <2>1. CASE Drain(c)
    BY <2>1 DEF Drain
  <2>2. CASE Discover(c)
    BY <2>2 DEF Discover
  <2>3. CASE Enqueue(c)
    BY <2>3 DEF Enqueue
  <2>4. CASE EnqueueWrite(c)
    BY <2>4 DEF EnqueueWrite
  <2>5. CASE AppendAgain(c)
    BY <2>5 DEF AppendAgain
  <2>6. CASE Claim(c)
    BY <2>6 DEF Claim
  <2>7. CASE RequeueExpired(c)
    BY <2>7 DEF RequeueExpired
  <2>8. CASE Take(c)
    BY <2>8 DEF Take
  <2>9. CASE Taken(c)
    BY <2>9 DEF Taken
  <2>10. CASE AppendEvent(c)
    BY <2>10 DEF AppendEvent
  <2>11. CASE Complete(c)
    BY <2>11 DEF Complete
  <2>12. CASE CompleteWrite(c)
    BY <2>12 DEF CompleteWrite, Settling
  <2>13. CASE Fail(c)
    BY <2>13 DEF Fail
  <2>14. CASE FailWrite(c)
    BY <2>14 DEF FailWrite, MayFail
  <2>15. CASE List(c)
    BY <2>15 DEF List
  <2>16. CASE Relist(c)
    BY <2>16 DEF Relist
  <2> QED
    BY <1>4, <2>1, <2>2, <2>3, <2>4, <2>5, <2>6, <2>7, <2>8, <2>9, <2>10, <2>11, <2>12, <2>13,
       <2>14, <2>15, <2>16 DEF Work
<1> QED BY <1>1, <1>2, <1>3, <1>4 DEF InboxNext

\* Faults are counted, never forgotten.
LEMMA FaultsGrow ==
    ASSUME InboxNext
    PROVE  faults' = faults \/ faults' = faults + 1
<1> USE DEF boundVars
<1>1. ASSUME NEW p \in Process, Start(p) \/ Warm(p) \/ Crash(p)
      PROVE  faults' = faults \/ faults' = faults + 1
  <2>1. CASE Start(p)
    BY <2>1 DEF Start
  <2>2. CASE Warm(p)
    BY <2>2 DEF Warm
  <2>3. CASE Crash(p)
    BY <2>3 DEF Crash
  <2> QED BY <1>1, <2>1, <2>2, <2>3
<1>2. ASSUME NEW n \in 1..MaxClaims, LeaseEnds(n) PROVE faults' = faults \/ faults' = faults + 1
  BY <1>2 DEF LeaseEnds
<1>3. ASSUME NEW c \in Caller, NEW i \in Command, Ingest(c, i)
      PROVE  faults' = faults \/ faults' = faults + 1
  BY <1>3 DEF Ingest
<1>4. ASSUME NEW c \in Caller, Drain(c) \/ Discover(c) \/ Work(c)
      PROVE  faults' = faults \/ faults' = faults + 1
  <2>1. CASE Drain(c)
    BY <2>1 DEF Drain
  <2>2. CASE Discover(c)
    BY <2>2 DEF Discover
  <2>3. CASE Enqueue(c)
    BY <2>3 DEF Enqueue
  <2>4. CASE EnqueueWrite(c)
    BY <2>4 DEF EnqueueWrite
  <2>5. CASE AppendAgain(c)
    BY <2>5 DEF AppendAgain
  <2>6. CASE Claim(c)
    BY <2>6 DEF Claim
  <2>7. CASE RequeueExpired(c)
    BY <2>7 DEF RequeueExpired
  <2>8. CASE Take(c)
    BY <2>8 DEF Take
  <2>9. CASE Taken(c)
    BY <2>9 DEF Taken
  <2>10. CASE AppendEvent(c)
    BY <2>10 DEF AppendEvent
  <2>11. CASE Complete(c)
    BY <2>11 DEF Complete
  <2>12. CASE CompleteWrite(c)
    BY <2>12 DEF CompleteWrite
  <2>13. CASE Fail(c)
    BY <2>13 DEF Fail
  <2>14. CASE FailWrite(c)
    BY <2>14 DEF FailWrite
  <2>15. CASE List(c)
    BY <2>15 DEF List
  <2>16. CASE Relist(c)
    BY <2>16 DEF Relist
  <2> QED
    BY <1>4, <2>1, <2>2, <2>3, <2>4, <2>5, <2>6, <2>7, <2>8, <2>9, <2>10, <2>11, <2>12, <2>13,
       <2>14, <2>15, <2>16 DEF Work
<1> QED BY <1>1, <1>2, <1>3, <1>4 DEF InboxNext

\* What others do to the files never gives a claim back.
LEMMA SparedKept ==
    ASSUME TypedInv, FilesMove, NEW d \in Caller, Spared(d), op'[d] = op[d]
    PROVE  Spared(d)'
BY DEF TypedInv, CallersTyped, CallerOK, Place, Held, Settling, Spared, FilesMove, Owns

\* Spared is about a caller that is settling.
LEMMA SparedAtRest ==
    ASSUME NEW d \in Caller, op'[d].at \notin {"completing", "fail", "failing"}
    PROVE  Spared(d)'
BY DEF Spared

\* Every step keeps Blameless.
LEMMA BlamelessStep ==
    ASSUME TypedInv, StreamTyped, Blameless, InboxNext
    PROVE  Blameless'
<1> SUFFICES ASSUME faults' = 0 PROVE Blameless'
  BY DEF Blameless
<1>1. faults = 0
  BY FaultsGrow DEF StreamTyped
<1>2. FilesMove
  BY FilesMoveStep
<1>3. \A i \in Command : file'[i].status = "failed" => i \in Illegal
  BY <1>1, <1>2 DEF FilesMove, Blameless, Spared
<1>4. \A c \in Caller : op'[c] = op[c] => Spared(c)'
  BY <1>1, <1>2, SparedKept DEF Blameless
<1>5. \A c \in Caller : Spared(c)'
  <2> USE <1>1, <1>4, SparedAtRest DEF TypedInv, CallersTyped, Place, Goto, Idle
  <2>1. ASSUME NEW p \in Process, Start(p) \/ Warm(p) \/ Crash(p)
        PROVE  \A e \in Caller : Spared(e)'
    <3>1. CASE Start(p)
      BY <3>1 DEF Start
    <3>2. CASE Warm(p)
      BY <3>2 DEF Warm
    <3>3. CASE Crash(p)
      BY <3>3 DEF Crash
    <3> QED BY <2>1, <3>1, <3>2, <3>3
  <2>2. ASSUME NEW n \in 1..MaxClaims, LeaseEnds(n) PROVE \A e \in Caller : Spared(e)'
    BY <2>2 DEF LeaseEnds
  <2>3. ASSUME NEW c \in Caller, NEW i \in Command, Ingest(c, i)
        PROVE  \A e \in Caller : Spared(e)'
    BY <2>3 DEF Ingest
  <2>4. ASSUME NEW c \in Caller, Drain(c) \/ Discover(c) \/ Work(c)
        PROVE  \A e \in Caller : Spared(e)'
    <3>1. CASE Drain(c)
      BY <3>1 DEF Drain
    <3>2. CASE Discover(c)
      BY <3>2 DEF Discover
    <3>3. CASE Enqueue(c)
      BY <3>3 DEF Enqueue
    <3>4. CASE EnqueueWrite(c)
      BY <3>4 DEF EnqueueWrite, Finish, Return
    <3>5. CASE AppendAgain(c)
      BY <3>5 DEF AppendAgain, Finish, Return
    <3>6. CASE Claim(c)
      BY <3>6 DEF Claim
    <3>7. CASE RequeueExpired(c)
      <4>1. op'[c].at = "take" /\ \A d \in Caller : d # c => op'[d] = op[d]
        BY <3>7 DEF RequeueExpired
      <4> QED BY <4>1
    <3>8. CASE Take(c)
      BY <3>8 DEF Take
    <3>9. CASE Taken(c)
      BY <3>9 DEF Taken, Finish, Return
    <3>10. CASE AppendEvent(c)
      <4>1. PICK t \in op[c].todo : Choose(c, t) \/ (t.command \in Illegal /\ Refuse(c, t))
        BY <3>10 DEF AppendEvent, StreamTyped
      <4>2. /\ op'[c].pick = {t} /\ (op'[c].at = "complete" \/ (op'[c].at = "fail" /\ t.command \in Illegal))
            /\ \A d \in Caller : d # c => op'[d] = op[d]
        BY <4>1 DEF Choose, Refuse
      <4> QED BY <4>2 DEF Spared
    <3>11. CASE Complete(c)
      BY <3>11 DEF Complete, Spared, Settling, CallerOK
    <3>12. CASE CompleteWrite(c)
      <4>1. PICK t \in op[c].pick :
              \/ Proceed(c, t)
              \/ ~Owns(op[c].view[t.command], t) /\ Goto(c, "fail") /\ UNCHANGED file
        BY <3>12 DEF CompleteWrite, NoWrite, StreamTyped
      <4>2. CASE Proceed(c, t)
        BY <4>2, Moves
      <4>3. CASE ~Owns(op[c].view[t.command], t) /\ Goto(c, "fail") /\ UNCHANGED file
        <5>1. op[c].pick = {t}
          BY <3>12 DEF CompleteWrite, CallerOK, Settling
        <5>2. op'[c].at = "fail" /\ op'[c].pick = {t} /\ \A d \in Caller : d # c => op'[d] = op[d]
          BY <4>3, <5>1
        <5>3. ~Owns(file[t.command], t)
          BY <4>3, <3>12 DEF CompleteWrite, Blameless, Spared
        <5> QED BY <4>3, <5>2, <5>3 DEF Spared
      <4> QED BY <4>1, <4>2, <4>3
    <3>13. CASE Fail(c)
      BY <3>13 DEF Fail, Blameless, Spared
    <3>14. CASE FailWrite(c)
      BY <3>14, Moves DEF FailWrite
    <3>15. CASE List(c)
      BY <3>15 DEF List
    <3>16. CASE Relist(c)
      BY <3>16 DEF Relist, Finish, Return
    <3> QED
      BY <2>4, <3>1, <3>2, <3>3, <3>4, <3>5, <3>6, <3>7, <3>8, <3>9, <3>10, <3>11, <3>12,
         <3>13, <3>14, <3>15, <3>16 DEF Work
  <2> QED BY <2>1, <2>2, <2>3, <2>4 DEF InboxNext
<1> QED BY <1>3, <1>5 DEF Blameless
-----------------------------------------------------------------------------
(* The lock between processes.                                             *)

\* Between processes the lock excludes: a caller between a read and its write
\* holds it, and what a settlement has read is what is stored.
Inside == Reading \cup {"take"}
Locked ==
    \A c \in Caller :
        /\ op[c].at \in Inside => lock = c
        /\ op[c].at \in {"completing", "failing"} => op[c].view = file

\* Whoever enters, by the lock or by its own batch, holds the lock.
LEMMA EnterLocks ==
    ASSUME TypedInv, OwnProcesses, NEW c \in Caller, Enter(c)
    PROVE  lock \in {None, c} /\ lock' = c
<1>1. CASE batch[home(c)] # None
  <2>1. batch[home(c)] = lock /\ home(lock) = home(c) /\ lock \in Caller
    BY <1>1, HomeTyped, InboxConstants DEF TypedInv, LockTyped, ProcessAssumption
  <2> QED BY <1>1, <2>1 DEF Enter, OwnProcesses
<1>2. CASE batch[home(c)] = None
  BY <1>2 DEF Enter
<1> QED BY <1>1, <1>2

\* A caller gives back its own lock only.
LEMMA LeaveUnlocks ==
    ASSUME TypedInv, NEW c \in Caller, Exit(c) \/ Finish(c)
    PROVE  lock = c \/ lock' = lock
<1>1. CASE batch[home(c)] = c
  BY <1>1, HomeTyped, InboxConstants DEF TypedInv, LockTyped, Finish, Exit, ProcessAssumption
<1>2. CASE batch[home(c)] # c
  BY <1>2 DEF Finish, Exit
<1> QED BY <1>1, <1>2

\* What RequeueExpired leaves alone.
LEMMA RequeueMoves ==
    ASSUME TypedInv, NEW c \in Caller, RequeueExpired(c)
    PROVE  /\ op[c].at = "requeue" /\ op'[c].at = "take" /\ op'[c].todo = op[c].todo
           /\ lock' = lock /\ \A d \in Caller : d # c => op'[d] = op[d]
BY DEF RequeueExpired, TypedInv, CallersTyped, Place

\* Every step keeps Locked.
LEMMA LockedStep ==
    ASSUME TypedInv, OwnProcesses, Locked, InboxNext
    PROVE  Locked'
<1> USE EnterLocks, LeaveUnlocks, Moves, InboxConstants
    DEF ProcessAssumption, TypedInv, CallersTyped, Place, Locked, Inside, Reading
<1>1. ASSUME NEW p \in Process, Start(p) \/ Warm(p) \/ Crash(p) PROVE Locked'
  <2>1. CASE Start(p)
    BY <2>1 DEF Start, LockTyped
  <2>2. CASE Warm(p)
    BY <2>2 DEF Warm
  <2>3. CASE Crash(p)
    BY <2>3 DEF Crash, Idle, LockTyped
  <2> QED BY <1>1, <2>1, <2>2, <2>3
<1>2. ASSUME NEW n \in 1..MaxClaims, LeaseEnds(n) PROVE Locked'
  BY <1>2 DEF LeaseEnds
<1>3. ASSUME NEW c \in Caller, NEW i \in Command, Ingest(c, i) PROVE Locked'
  BY <1>3 DEF Ingest, MayCall, Idle
<1>4. ASSUME NEW c \in Caller, Drain(c) \/ Discover(c) \/ Work(c) PROVE Locked'
  <2>1. CASE Drain(c)
    BY <2>1 DEF Drain, MayCall, Goto
  <2>2. CASE Discover(c)
    BY <2>2 DEF Discover, MayCall, Goto
  <2>3. CASE Enqueue(c)
    BY <2>3 DEF Enqueue
  <2>4. CASE EnqueueWrite(c)
    BY <2>4 DEF EnqueueWrite, Finish, NoWrite
  <2>5. CASE AppendAgain(c)
    BY <2>5 DEF AppendAgain, Finish
  <2>6. CASE Claim(c)
    BY <2>6 DEF Claim
  <2>7. CASE RequeueExpired(c)
    <3>1. op'[c].at = "take" /\ lock' = lock /\ op[c].at = "requeue"
          /\ \A d \in Caller : d # c => op'[d] = op[d]
      BY <2>7, RequeueMoves
    <3>2. \A d \in Caller : d # c => op[d].at \notin Inside
      BY <3>1
    <3> QED BY <3>1, <3>2
  <2>8. CASE Take(c)
    BY <2>8 DEF Take
  <2>9. CASE Taken(c)
    BY <2>9 DEF Taken, Finish
  <2>10. CASE AppendEvent(c)
    BY <2>10 DEF AppendEvent, Choose, Refuse
  <2>11. CASE Complete(c)
    BY <2>11 DEF Complete
  <2>12. CASE CompleteWrite(c)
    BY <2>12 DEF CompleteWrite, NoWrite, Goto
  <2>13. CASE Fail(c)
    BY <2>13 DEF Fail
  <2>14. CASE FailWrite(c)
    BY <2>14 DEF FailWrite, NoWrite
  <2>15. CASE List(c)
    BY <2>15 DEF List
  <2>16. CASE Relist(c)
    BY <2>16 DEF Relist, Finish
  <2> QED
    BY <1>4, <2>1, <2>2, <2>3, <2>4, <2>5, <2>6, <2>7, <2>8, <2>9, <2>10, <2>11, <2>12, <2>13,
       <2>14, <2>15, <2>16 DEF Work
<1> QED BY <1>1, <1>2, <1>3, <1>4 DEF InboxNext

\* A settlement is written by the caller that has the stored claim.
LEMMA ClaimantStep ==
    ASSUME TypedInv, OwnProcesses, Locked, InboxNext
    PROVE  ClaimantSettles
<1> USE Moves
    DEF TypedInv, CallersTyped, CallerOK, Place, Held, Settling, Locked, Write, NoWrite,
        ClaimantSettles, Terminal
<1>1. ASSUME NEW p \in Process, Start(p) \/ Warm(p) \/ Crash(p) PROVE ClaimantSettles
  <2>1. CASE Start(p)
    BY <2>1 DEF Start, Expired, Queued
  <2>2. CASE Warm(p)
    BY <2>2 DEF Warm
  <2>3. CASE Crash(p)
    BY <2>3 DEF Crash
  <2> QED BY <1>1, <2>1, <2>2, <2>3
<1>2. ASSUME NEW n \in 1..MaxClaims, LeaseEnds(n) PROVE ClaimantSettles
  BY <1>2 DEF LeaseEnds
<1>3. ASSUME NEW c \in Caller, NEW i \in Command, Ingest(c, i) PROVE ClaimantSettles
  BY <1>3 DEF Ingest
<1>4. ASSUME NEW c \in Caller, Drain(c) \/ Discover(c) \/ Work(c) PROVE ClaimantSettles
  <2>1. CASE Drain(c)
    BY <2>1 DEF Drain
  <2>2. CASE Discover(c)
    BY <2>2 DEF Discover
  <2>3. CASE Enqueue(c)
    BY <2>3 DEF Enqueue
  <2>4. CASE EnqueueWrite(c)
    BY <2>4 DEF EnqueueWrite, Queued
  <2>5. CASE AppendAgain(c)
    BY <2>5 DEF AppendAgain
  <2>6. CASE Claim(c)
    BY <2>6 DEF Claim
  <2>7. CASE RequeueExpired(c)
    BY <2>7 DEF RequeueExpired, Queued
  <2>8. CASE Take(c)
    BY <2>8 DEF Take
  <2>9. CASE Taken(c)
    BY <2>9 DEF Taken
  <2>10. CASE AppendEvent(c)
    BY <2>10 DEF AppendEvent
  <2>11. CASE Complete(c)
    BY <2>11 DEF Complete
  <2>12. CASE CompleteWrite(c)
    <3>1. PICK t \in op[c].pick :
            /\ \A i \in Command : i # t.command => file'[i] = file[i]
            /\ \/ Owns(op[c].view[t.command], t) /\ Proceed(c, t)
               \/ UNCHANGED file
      BY <2>12 DEF CompleteWrite
    <3>2. CASE UNCHANGED file
      BY <3>2
    <3>3. CASE Owns(op[c].view[t.command], t) /\ Proceed(c, t)
      <4>1. t \in op[c].todo /\ t = [command |-> t.command, token |-> t.token]
        BY <2>12 DEF CompleteWrite
      <4>2. file[t.command].token = t.token
        BY <2>12, <3>3 DEF CompleteWrite, Owns
      <4>3. op'[c] # op[c]
        BY <2>12, <3>3 DEF CompleteWrite
      <4> QED BY <3>1, <4>1, <4>2, <4>3
    <3> QED BY <3>1, <3>2, <3>3
  <2>13. CASE Fail(c)
    BY <2>13 DEF Fail
  <2>14. CASE FailWrite(c)
    <3>1. PICK t \in op[c].pick :
            /\ \A i \in Command : i # t.command => file'[i] = file[i]
            /\ \/ Owns(op[c].view[t.command], t) /\ Proceed(c, t)
               \/ UNCHANGED file
      BY <2>14 DEF FailWrite, MayFail
    <3>2. CASE UNCHANGED file
      BY <3>2
    <3>3. CASE Owns(op[c].view[t.command], t) /\ Proceed(c, t)
      <4>1. t \in op[c].todo /\ t = [command |-> t.command, token |-> t.token]
        BY <2>14 DEF FailWrite
      <4>2. file[t.command].token = t.token
        BY <2>14, <3>3 DEF FailWrite, Owns
      <4>3. op'[c] # op[c]
        BY <2>14, <3>3 DEF FailWrite
      <4> QED BY <3>1, <4>1, <4>2, <4>3
    <3> QED BY <3>1, <3>2, <3>3
  <2>15. CASE List(c)
    BY <2>15 DEF List
  <2>16. CASE Relist(c)
    BY <2>16 DEF Relist, Queued
  <2> QED
    BY <1>4, <2>1, <2>2, <2>3, <2>4, <2>5, <2>6, <2>7, <2>8, <2>9, <2>10, <2>11, <2>12, <2>13,
       <2>14, <2>15, <2>16 DEF Work
<1> QED BY <1>1, <1>2, <1>3, <1>4 DEF InboxNext

LEMMA StockedInit == InboxInit => Stocked /\ Blameless /\ Locked
BY
DEF InboxInit, Stocked, CompletedHasEvent, Blameless, Spared, Locked, Inside, Reading, Idle,
    Absent

\* The inductive invariant.
CommandsInv == TypedInv /\ StreamTyped /\ Stocked /\ Blameless /\ (OwnProcesses => Locked)

\* The invariant is inductive.
LEMMA CommandsStep == CommandsInv /\ [InboxNext]_inboxVars => CommandsInv'
<1> SUFFICES ASSUME CommandsInv, [InboxNext]_inboxVars PROVE CommandsInv'
  OBVIOUS
<1>1. CASE InboxNext
  <2>1. OwnProcesses' = OwnProcesses
    BY DEF OwnProcesses, home
  <2> QED BY <1>1, <2>1, TypedStep, StockedStep, BlamelessStep, LockedStep DEF CommandsInv
<1>2. CASE UNCHANGED inboxVars
  <2>1. TypedInv' /\ StreamTyped'
    BY <1>2, TypedStep DEF CommandsInv
  <2>2. Stocked' /\ Blameless'
    BY <1>2 DEF CommandsInv, inboxVars, Stocked, CompletedHasEvent, Blameless, Spared
  <2>3. OwnProcesses' => Locked'
    BY <1>2 DEF CommandsInv, inboxVars, Locked, OwnProcesses, home
  <2> QED BY <2>1, <2>2, <2>3 DEF CommandsInv
<1> QED BY <1>1, <1>2

\* The inductive invariant of the inbox holds in every behaviour.
THEOREM InboxInvariant == InboxSpec => []CommandsInv
<1>1. InboxInit => CommandsInv
  BY TypedInit, StockedInit DEF CommandsInv
<1> QED BY <1>1, CommandsStep, PTL DEF InboxSpec

\* CommandsAreTrue for every value of the constants: completed commands have their
\* event, without faults acknowledged ones never fail and failed ones have no event,
\* and between processes a claim is settled by its claimant.
THEOREM CommandsTrue == InboxSpec => CommandsAreTrue
<1>1. CommandsInv =>
        InboxTypeOK /\ CompletedHasEvent /\ (faults = 0 => AcknowledgedNotFailed /\ FailedHasNoEvent)
  BY TypedMeansTypeOK
  DEF CommandsInv, Stocked, Blameless, AcknowledgedNotFailed, FailedHasNoEvent, StreamTyped
<1>2. CommandsInv /\ [InboxNext]_inboxVars => [OwnProcesses => ClaimantSettles]_inboxVars
  BY ClaimantStep DEF CommandsInv
<1> QED BY InboxInvariant, <1>1, <1>2, PTL DEF InboxSpec, CommandsAreTrue, SettledByClaimant
-----------------------------------------------------------------------------
(* Calls that start warm.                                                  *)

\* What a process has read and what is stored: a record may be out of date only
\* where that does no harm, as long as calls start warm.
Agrees(v) ==
    \A i \in Command :
        v[i] = file[i] \/ (v[i].status = file[i].status /\ v[i].status \in {"absent", "completed"})
Consistent(c) ==
    /\ op[c].at \notin {"idle", "relist"} => deferred[home(c)] = {}
    /\ op[c].at \in {"write", "requeue"} => Agrees(op[c].view)
    /\ op[c].at = "take" => \A i \in op[c].pick : file[i].status = "queued"
    /\ op[c].at = "relist" =>
          \A i \in Command : op[c].view[i].status = "claimed" => op[c].view[i] = file[i]
Remembered ==
    \A p \in Process :
        Up(p) => \A i \in Command : cache[p][i].status = "completed" => file[i].status = "completed"
Coherent == Remembered /\ \A c \in Caller : Consistent(c)

\* A claim whose lease has not ended is the stored one, or its command is settled.
Alive(t) == file[t.command] = [status |-> "claimed", token |-> t.token]
Fenced ==
    /\ ClaimsAreFenced
    /\ \A c \in Caller : \A t \in op[c].todo :
          t.token \notin expired => Alive(t) \/ file[t.command].status \in Terminal

\* What a step does to the stored commands.
FilesFollow ==
    \A i \in Command :
        \/ file'[i] = file[i]
        \/ file[i].status \in {"absent", "queued"}
        \/ Expired(file[i]) /\ file'[i] = Queued
        \/ file[i].status = "claimed" /\ file'[i].status \in Terminal

\* The inductive invariant of warm calls.
WarmInv == CommandsInv /\ OwnProcesses /\ Coherent /\ Fenced

\* What a warm process reads agrees with the files.
LEMMA ViewAgrees ==
    ASSUME TypedInv, Remembered, NEW p \in Process, Up(p), deferred[p] = {}
    PROVE  Agrees(View(p))
<1>1. cache[p] \in [Command -> Stored] /\ file \in [Command -> Stored]
  BY DEF TypedInv, StoresTyped, Up
<1>2. CASE CacheComplete(p)
  BY <1>1, <1>2 DEF View, Agrees, CacheComplete, Remembered, Stored
<1>3. CASE ~CacheComplete(p)
  BY <1>3 DEF View, Agrees
<1> QED BY <1>2, <1>3

\* A read keeps what is remembered.
LEMMA ReadRemembers ==
    ASSUME TypedInv, Remembered, NEW p \in Process, Up(p), UNCHANGED file, Read(p) \/ ReadActive(p)
    PROVE  Remembered'
<1>1. cache[p] \in [Command -> Stored] /\ cache \in [Process -> [Command -> Stored] \cup {None}]
  BY DEF TypedInv, StoresTyped, Up
<1>2. \A q \in Process : q # p => cache'[q] = cache[q]
  BY <1>1 DEF Read, ReadActive
<1>3. \A i \in Command : View(p)[i] \in {cache[p][i], file[i]}
  BY <1>1 DEF View, TypedInv, StoresTyped
<1>4. \A i \in Command : Scanned[i] \in {Absent, file[i]}
  BY DEF Scanned
<1>5. cache'[p] = View(p) \/ cache'[p] = Scanned
  BY <1>1 DEF Read, ReadActive
<1>6. \A i \in Command : cache'[p][i].status = "completed" => file[i].status = "completed"
  BY <1>3, <1>4, <1>5 DEF Remembered, Absent
<1> QED BY <1>2, <1>6 DEF Remembered, Up

\* Every step of a warm inbox is one of these: it ends an expired claim, settles a
\* live one or starts from a command nobody has claimed.
LEMMA FilesFollowStep ==
    ASSUME WarmInv, InboxNext
    PROVE  FilesFollow
<1> USE
    DEF WarmInv, CommandsInv, TypedInv, StoresTyped, CallersTyped, CallerOK, Reading, Locked,
        Coherent, Consistent, Agrees, boundVars, Write, NoWrite, FilesFollow, Requeue, Expired
<1>1. ASSUME NEW p \in Process, Start(p) \/ Warm(p) \/ Crash(p) PROVE FilesFollow
  <2>1. CASE Start(p)
    BY <2>1 DEF Start
  <2>2. CASE Warm(p)
    BY <2>2 DEF Warm
  <2>3. CASE Crash(p)
    BY <2>3 DEF Crash
  <2> QED BY <1>1, <2>1, <2>2, <2>3
<1>2. ASSUME NEW n \in 1..MaxClaims, LeaseEnds(n) PROVE FilesFollow
  BY <1>2 DEF LeaseEnds
<1>3. ASSUME NEW c \in Caller, NEW i \in Command, Ingest(c, i) PROVE FilesFollow
  BY <1>3 DEF Ingest
<1>4. ASSUME NEW c \in Caller, Drain(c) \/ Discover(c) \/ Work(c) PROVE FilesFollow
  <2>1. CASE Drain(c)
    BY <2>1 DEF Drain
  <2>2. CASE Discover(c)
    BY <2>2 DEF Discover
  <2>3. CASE Enqueue(c)
    BY <2>3 DEF Enqueue
  <2>4. CASE EnqueueWrite(c)
    BY <2>4 DEF EnqueueWrite
  <2>5. CASE AppendAgain(c)
    BY <2>5 DEF AppendAgain
  <2>6. CASE Claim(c)
    BY <2>6 DEF Claim
  <2>7. CASE RequeueExpired(c)
    BY <2>7 DEF RequeueExpired
  <2>8. CASE Take(c)
    BY <2>8 DEF Take, Place
  <2>9. CASE Taken(c)
    BY <2>9 DEF Taken
  <2>10. CASE AppendEvent(c)
    BY <2>10 DEF AppendEvent
  <2>11. CASE Complete(c)
    BY <2>11 DEF Complete
  <2>12. CASE CompleteWrite(c)
    BY <2>12 DEF CompleteWrite, Settling, Owns, Settled, Terminal, Place, Held
  <2>13. CASE Fail(c)
    BY <2>13 DEF Fail
  <2>14. CASE FailWrite(c)
    BY <2>14 DEF FailWrite, MayFail, Settling, Owns, Settled, Terminal, Place, Held
  <2>15. CASE List(c)
    BY <2>15 DEF List
  <2>16. CASE Relist(c)
    BY <2>16 DEF Relist
  <2> QED
    BY <1>4, <2>1, <2>2, <2>3, <2>4, <2>5, <2>6, <2>7, <2>8, <2>9, <2>10, <2>11, <2>12, <2>13,
       <2>14, <2>15, <2>16 DEF Work
<1> QED BY <1>1, <1>2, <1>3, <1>4 DEF InboxNext

\* A write keeps what is remembered, in its process and in the others.
LEMMA WriteRemembers ==
    ASSUME TypedInv, Remembered, FilesFollow, NEW p \in Process, Up(p), NEW S, NEW r \in Stored, Write(p, S, r)
    PROVE  Remembered'
BY DEF TypedInv, StoresTyped, Remembered, FilesFollow, Write, Up, Expired, Terminal, Queued

\* A caller at work is in a process that is up.
LEMMA AtWorkIsUp ==
    ASSUME TypedInv, NEW c \in Caller, op[c].at # "idle"
    PROVE  Up(home(c)) /\ home(c) \in Process
BY HomeTyped, InboxConstants DEF TypedInv, CallersTyped, CallerOK, Up, ProcessAssumption

\* Every step keeps Remembered.
LEMMA RememberedStep ==
    ASSUME WarmInv, InboxNext
    PROVE  Remembered'
<1>1. TypedInv /\ Remembered /\ FilesFollow
  BY FilesFollowStep DEF WarmInv, CommandsInv, Coherent
<1>2. ASSUME UNCHANGED <<file, cache>> PROVE Remembered'
  BY <1>1, <1>2 DEF Remembered, Up
<1>3. Remembered'
  <2> USE <1>1, <1>2, AtWorkIsUp, ReadRemembers, WriteRemembers, RecordsTyped DEF NoWrite
  <2>1. ASSUME NEW p \in Process, Start(p) \/ Warm(p) \/ Crash(p) PROVE Remembered'
    <3>1. CASE Start(p)
      <4>1. \A q \in Process : q # p => cache'[q] = cache[q]
        BY <3>1 DEF Start, TypedInv, StoresTyped
      <4>2. \A i \in Command : file[i].status = "completed" => file'[i].status = "completed"
        BY <3>1 DEF Start, Expired, TypedInv, StoresTyped
      <4>3. \A i \in Command : cache'[p][i] \in {Absent, file'[i]}
        BY <3>1 DEF Start, TypedInv, StoresTyped
      <4> QED BY <4>1, <4>2, <4>3 DEF Remembered, Up, Absent
    <3>2. CASE Warm(p)
      BY <3>2 DEF Warm
    <3>3. CASE Crash(p)
      BY <3>3 DEF Crash, Remembered, Up, TypedInv, StoresTyped
    <3> QED BY <2>1, <3>1, <3>2, <3>3
  <2>2. ASSUME NEW n \in 1..MaxClaims, LeaseEnds(n) PROVE Remembered'
    BY <2>2 DEF LeaseEnds
  <2>3. ASSUME NEW c \in Caller, NEW i \in Command, Ingest(c, i) PROVE Remembered'
    BY <2>3 DEF Ingest
  <2>4. ASSUME NEW c \in Caller, Drain(c) \/ Discover(c) \/ Work(c) PROVE Remembered'
    <3>1. CASE Drain(c)
      BY <3>1 DEF Drain
    <3>2. CASE Discover(c)
      BY <3>2 DEF Discover
    <3>3. CASE Enqueue(c)
      BY <3>3 DEF Enqueue
    <3>4. CASE EnqueueWrite(c)
      BY <3>4 DEF EnqueueWrite
    <3>5. CASE AppendAgain(c)
      BY <3>5 DEF AppendAgain
    <3>6. CASE Claim(c)
      BY <3>6 DEF Claim
    <3>7. CASE RequeueExpired(c)
      BY <3>7 DEF RequeueExpired
    <3>8. CASE Take(c)
      <4>1. PICK i \in op[c].pick : Write(home(c), {i}, [status |-> "claimed", token |-> claims + 1])
        BY <3>8 DEF Take
      <4>2. [status |-> "claimed", token |-> claims + 1] \in Stored
        BY <3>8, InboxConstants
        DEF Take, Stored, Status, Token, InboxBounds, TypedInv, CallersTyped
      <4> QED BY <4>1, <4>2, <3>8 DEF Take
    <3>9. CASE Taken(c)
      BY <3>9 DEF Taken
    <3>10. CASE AppendEvent(c)
      BY <3>10 DEF AppendEvent
    <3>11. CASE Complete(c)
      BY <3>11 DEF Complete
    <3>12. CASE CompleteWrite(c)
      BY <3>12 DEF CompleteWrite, Status
    <3>13. CASE Fail(c)
      BY <3>13 DEF Fail
    <3>14. CASE FailWrite(c)
      BY <3>14 DEF FailWrite, Status
    <3>15. CASE List(c)
      BY <3>15 DEF List
    <3>16. CASE Relist(c)
      BY <3>16 DEF Relist
    <3> QED
      BY <2>4, <3>1, <3>2, <3>3, <3>4, <3>5, <3>6, <3>7, <3>8, <3>9, <3>10, <3>11, <3>12,
         <3>13, <3>14, <3>15, <3>16 DEF Work
  <2> QED BY <2>1, <2>2, <2>3, <2>4 DEF InboxNext
<1> QED BY <1>3

\* What Take leaves alone.
LEMMA TakeMoves ==
    ASSUME TypedInv, NEW c \in Caller, Take(c)
    PROVE  /\ op[c].at = "take" /\ op'[c].at = "take" /\ op'[c] # op[c]
           /\ \A d \in Caller : d # c => op'[d] = op[d]
<1>1. PICK i \in op[c].pick :
        op' = [op EXCEPT ![c].pick = @ \ {i}, ![c].todo = @ \cup {[command |-> i, token |-> claims + 1]}]
  BY DEF Take
<1>2. op'[c].pick = op[c].pick \ {i} /\ op'[c].at = op[c].at /\ \A d \in Caller : d # c => op'[d] = op[d]
  BY <1>1 DEF TypedInv, CallersTyped, Place
<1> QED BY <1>2 DEF Take

\* What a caller between a read and its write has read does not change under it.
LEMMA FileHeld ==
    ASSUME WarmInv, InboxNext, NEW d \in Caller, op[d].at \in Inside, op'[d] = op[d]
    PROVE  UNCHANGED file
<1>1. TypedInv /\ Locked /\ OwnProcesses /\ lock = d /\ d # None
  BY InboxConstants DEF WarmInv, CommandsInv, Locked, ProcessAssumption
<1>2. \A c \in Caller : op[c].at \in Inside => c = d
  BY <1>1 DEF Locked
<1>3. UNCHANGED file
  <2> USE <1>1, <1>2 DEF boundVars, NoWrite, Inside, Reading
  <2>1. ASSUME NEW p \in Process, Start(p) \/ Warm(p) \/ Crash(p) PROVE UNCHANGED file
    <3>1. CASE Start(p)
      BY <3>1 DEF Start
    <3>2. CASE Warm(p)
      BY <3>2 DEF Warm
    <3>3. CASE Crash(p)
      BY <3>3 DEF Crash
    <3> QED BY <2>1, <3>1, <3>2, <3>3
  <2>2. ASSUME NEW n \in 1..MaxClaims, LeaseEnds(n) PROVE UNCHANGED file
    BY <2>2 DEF LeaseEnds
  <2>3. ASSUME NEW c \in Caller, NEW i \in Command, Ingest(c, i) PROVE UNCHANGED file
    BY <2>3 DEF Ingest
  <2>4. ASSUME NEW c \in Caller, Drain(c) \/ Discover(c) \/ Work(c) PROVE UNCHANGED file
    <3>1. CASE Drain(c)
      BY <3>1 DEF Drain
    <3>2. CASE Discover(c)
      BY <3>2 DEF Discover
    <3>3. CASE Enqueue(c)
      BY <3>3 DEF Enqueue
    <3>4. CASE EnqueueWrite(c)
      BY <3>4, Moves DEF EnqueueWrite, Finish
    <3>5. CASE AppendAgain(c)
      BY <3>5 DEF AppendAgain
    <3>6. CASE Claim(c)
      BY <3>6 DEF Claim
    <3>7. CASE RequeueExpired(c)
      BY <3>7, <2>1, <2>2, RequeueMoves DEF RequeueExpired, Inside, Reading
    <3>8. CASE Take(c)
      BY <3>8, TakeMoves
    <3>9. CASE Taken(c)
      BY <3>9 DEF Taken
    <3>10. CASE AppendEvent(c)
      BY <3>10 DEF AppendEvent
    <3>11. CASE Complete(c)
      BY <3>11 DEF Complete
    <3>12. CASE CompleteWrite(c)
      BY <3>12, Moves DEF CompleteWrite
    <3>13. CASE Fail(c)
      BY <3>13 DEF Fail
    <3>14. CASE FailWrite(c)
      BY <3>14, Moves DEF FailWrite
    <3>15. CASE List(c)
      BY <3>15 DEF List
    <3>16. CASE Relist(c)
      BY <3>16, Moves DEF Relist, Finish
    <3> QED
      BY <2>4, <3>1, <3>2, <3>3, <3>4, <3>5, <3>6, <3>7, <3>8, <3>9, <3>10, <3>11, <3>12,
         <3>13, <3>14, <3>15, <3>16 DEF Work
  <2> QED BY <2>1, <2>2, <2>3, <2>4 DEF InboxNext
<1> QED BY <1>3

\* Nobody defers records under a caller at work: its process is its own.
LEMMA DeferredKept ==
    ASSUME WarmInv, InboxNext, NEW d \in Caller, op[d].at \notin {"idle", "relist"}, op'[d] = op[d]
    PROVE  deferred'[home(d)] = {}
<1>1. /\ TypedInv /\ OwnProcesses /\ deferred[home(d)] = {}
      /\ Up(home(d)) /\ home(d) \in Process
  BY AtWorkIsUp DEF WarmInv, CommandsInv, Coherent, Consistent
<1>2. \A c \in Caller : c # d => home(c) # home(d)
  BY <1>1 DEF OwnProcesses
<1>3. deferred'[home(d)] = {}
  <2> USE <1>1, <1>2, HomeTyped DEF TypedInv, StoresTyped, boundVars, NoWrite, Write, Read
  <2>1. ASSUME NEW p \in Process, Start(p) \/ Warm(p) \/ Crash(p) PROVE deferred'[home(d)] = {}
    <3>1. CASE Start(p)
      BY <3>1 DEF Start
    <3>2. CASE Warm(p)
      BY <3>2 DEF Warm
    <3>3. CASE Crash(p)
      BY <3>3 DEF Crash
    <3> QED BY <2>1, <3>1, <3>2, <3>3
  <2>2. ASSUME NEW n \in 1..MaxClaims, LeaseEnds(n) PROVE deferred'[home(d)] = {}
    BY <2>2 DEF LeaseEnds
  <2>3. ASSUME NEW c \in Caller, NEW i \in Command, Ingest(c, i) PROVE deferred'[home(d)] = {}
    BY <2>3 DEF Ingest
  <2>4. ASSUME NEW c \in Caller, Drain(c) \/ Discover(c) \/ Work(c)
        PROVE  deferred'[home(d)] = {}
    <3>1. CASE Drain(c)
      BY <3>1 DEF Drain
    <3>2. CASE Discover(c)
      BY <3>2 DEF Discover
    <3>3. CASE Enqueue(c)
      BY <3>3 DEF Enqueue
    <3>4. CASE EnqueueWrite(c)
      BY <3>4 DEF EnqueueWrite
    <3>5. CASE AppendAgain(c)
      BY <3>5 DEF AppendAgain
    <3>6. CASE Claim(c)
      BY <3>6 DEF Claim
    <3>7. CASE RequeueExpired(c)
      BY <3>7 DEF RequeueExpired
    <3>8. CASE Take(c)
      BY <3>8 DEF Take
    <3>9. CASE Taken(c)
      BY <3>9 DEF Taken
    <3>10. CASE AppendEvent(c)
      BY <3>10 DEF AppendEvent
    <3>11. CASE Complete(c)
      BY <3>11 DEF Complete
    <3>12. CASE CompleteWrite(c)
      BY <3>12 DEF CompleteWrite
    <3>13. CASE Fail(c)
      BY <3>13 DEF Fail
    <3>14. CASE FailWrite(c)
      BY <3>14 DEF FailWrite
    <3>15. CASE List(c)
      <4>1. c # d
        BY <3>15 DEF List, CallersTyped, Place
      <4>2. home(c) # home(d) /\ home(c) \in Process
        BY <4>1
      <4> QED BY <3>15, <4>2 DEF List, ReadActive
    <3>16. CASE Relist(c)
      BY <3>16 DEF Relist
    <3> QED
      BY <2>4, <3>1, <3>2, <3>3, <3>4, <3>5, <3>6, <3>7, <3>8, <3>9, <3>10, <3>11, <3>12,
         <3>13, <3>14, <3>15, <3>16 DEF Work
  <2> QED BY <2>1, <2>2, <2>3, <2>4 DEF InboxNext
<1> QED BY <1>3

\* A caller that does not move stays consistent.
LEMMA ConsistentKept ==
    ASSUME WarmInv, InboxNext, NEW d \in Caller, op'[d] = op[d]
    PROVE  Consistent(d)'
<1>1. TypedInv /\ Consistent(d)
  BY DEF WarmInv, CommandsInv, Coherent
<1>2. op[d].at \notin {"idle", "relist"} => deferred'[home(d)] = {}
  BY DeferredKept
<1>3. op[d].at \in Inside => UNCHANGED file
  BY FileHeld
<1> QED BY <1>1, <1>2, <1>3 DEF Consistent, Agrees, Inside, Reading, home

\* An idle caller has read nothing.
LEMMA IdleConsistent ==
    ASSUME NEW c \in Caller, op'[c].at = "idle"
    PROVE  Consistent(c)'
BY DEF Consistent

\* A caller at rest between two operations only needs its process to be warm.
LEMMA RestConsistent ==
    ASSUME NEW c \in Caller, op'[c].at \notin Inside, deferred'[home(c)] = {}
    PROVE  Consistent(c)'
BY DEF Consistent, Inside, Reading, home

\* A caller that moves stays consistent, if its call started warm.
LEMMA ConsistentStep ==
    ASSUME WarmInv, WarmNext
    PROVE  \A c \in Caller : Consistent(c)'
<1> SUFFICES ASSUME NEW c \in Caller, op'[c] # op[c] PROVE Consistent(c)'
  BY ConsistentKept DEF WarmNext
<1>1. /\ TypedInv /\ Remembered /\ Consistent(c) /\ home(c) \in Process
      /\ InboxNext /\ (op[c].at = "idle" /\ op'[c].at # "idle" => deferred[home(c)] = {})
  BY HomeTyped DEF WarmInv, CommandsInv, Coherent, WarmNext
<1>2. op[c].at \notin {"idle", "relist"} => Up(home(c)) /\ deferred[home(c)] = {} /\ Agrees(View(home(c)))
  BY <1>1, AtWorkIsUp, ViewAgrees DEF Consistent
<1>3. ASSUME NEW p \in Process, Crash(p) PROVE Consistent(c)'
  BY <1>1, <1>3 DEF Crash, TypedInv, CallersTyped, Consistent, Idle
<1>4. ASSUME Drain(c) \/ Discover(c) \/ (\E i \in Command : Ingest(c, i)) PROVE Consistent(c)'
  <2>1. op'[c].at \in {"claim", "list", "enqueue"} /\ UNCHANGED deferred /\ op[c].at = "idle"
    BY <1>1, <1>4
    DEF Drain, Discover, Ingest, Goto, Idle, MayCall, TypedInv, CallersTyped, Place
  <2> QED BY <1>1, <2>1, RestConsistent DEF Inside, Reading
<1>5. ASSUME Enqueue(c) \/ Claim(c) PROVE Consistent(c)'
  <2>1. /\ op[c].at \in {"enqueue", "claim"} /\ op'[c].at \in {"write", "requeue"}
        /\ op'[c].view = View(home(c)) /\ UNCHANGED file /\ Read(home(c))
    BY <1>1, <1>5 DEF Enqueue, Claim, TypedInv, CallersTyped, Place
  <2>2. deferred'[home(c)] = {}
    BY <1>1, <2>1 DEF Read, TypedInv, StoresTyped
  <2> QED BY <1>2, <2>1, <2>2 DEF Consistent, Agrees, home
<1>6. CASE EnqueueWrite(c) \/ Taken(c) \/ AppendAgain(c) \/ CompleteWrite(c) \/ FailWrite(c) \/ Relist(c)
  <2>1. op'[c].at \in {"idle", "claim", "again", "append", "fail"}
    BY <1>1, <1>6, Moves
    DEF EnqueueWrite, Taken, AppendAgain, CompleteWrite, FailWrite, Relist, Finish, Goto,
        TypedInv, CallersTyped, Place
  <2>2. CASE op[c].at \in {"idle", "relist"}
    BY <1>6, <2>2, Moves, IdleConsistent, <1>1
    DEF EnqueueWrite, Taken, AppendAgain, CompleteWrite, FailWrite, Relist, Finish, Return,
        Idle, TypedInv, CallersTyped
  <2>3. CASE op[c].at \notin {"idle", "relist"}
    <3>1. deferred'[home(c)] = {}
      BY <1>1, <1>2, <1>6, <2>3
      DEF EnqueueWrite, Taken, AppendAgain, CompleteWrite, FailWrite, Relist, Write, NoWrite,
          TypedInv, StoresTyped
    <3> QED BY <2>1, <3>1, RestConsistent DEF Inside, Reading
  <2> QED BY <2>2, <2>3
<1>7. CASE AppendEvent(c) \/ Complete(c) \/ Fail(c)
  <2>1. CASE AppendEvent(c)
    <3>1. op[c].at = "append" /\ op'[c].at \in {"complete", "fail"} /\ UNCHANGED deferred
      BY <1>1, <2>1 DEF AppendEvent, Choose, Refuse, TypedInv, CallersTyped, Place
    <3> QED BY <1>2, <3>1, RestConsistent DEF Inside, Reading
  <2>2. CASE Complete(c) \/ Fail(c)
    <3>1. op[c].at \in {"complete", "fail"} /\ op'[c].at \in {"completing", "failing"} /\ UNCHANGED deferred
      BY <1>1, <2>2 DEF Complete, Fail, TypedInv, CallersTyped, Place
    <3> QED BY <1>2, <3>1 DEF Consistent, home
  <2> QED BY <1>7, <2>1, <2>2
<1>8. CASE RequeueExpired(c)
  <2> DEFINE S == Requeue(op[c].view)
  <2>1. op[c].at = "requeue" /\ op'[c].at = "take" /\ Write(home(c), S, Queued)
    BY <1>8, <1>1, RequeueMoves DEF RequeueExpired
  <2>2. \A i \in op'[c].pick : i \in Command /\ (i \in S \/ View(home(c))[i].status = "queued")
    <3> DEFINE v == [i \in Command |-> IF i \in S THEN Queued ELSE View(home(c))[i]]
               match == IF op[c].only = None THEN Command ELSE {op[c].only}
    <3>1. op'[c].pick = {i \in match : v[i].status = "queued"}
      BY <1>1, <1>8 DEF RequeueExpired, TypedInv, CallersTyped, Place
    <3>2. match \subseteq Command
      BY <1>1 DEF TypedInv, CallersTyped, Place
    <3> QED BY <3>1, <3>2
  <2>3. \A i \in op'[c].pick : file'[i].status = "queued"
    BY <1>2, <2>1, <2>2 DEF Write, Agrees, Queued
  <2>4. deferred'[home(c)] = {}
    BY <1>1, <1>2, <2>1 DEF Write, TypedInv, StoresTyped
  <2> QED BY <2>1, <2>3, <2>4 DEF Consistent, home
<1>9. CASE Take(c)
  <2>1. PICK i \in op[c].pick :
          /\ Write(home(c), {i}, [status |-> "claimed", token |-> claims + 1])
          /\ op' = [op EXCEPT ![c].pick = @ \ {i},
                              ![c].todo = @ \cup {[command |-> i, token |-> claims + 1]}]
    BY <1>9 DEF Take
  <2>2. op'[c].at = "take" /\ op[c].at = "take" /\ op'[c].pick = op[c].pick \ {i} /\ op[c].pick \subseteq Command
    BY <1>1, <1>9, <2>1 DEF Take, TypedInv, CallersTyped, Place, CallerOK
  <2>3. deferred'[home(c)] = {}
    BY <1>1, <1>2, <2>1, <2>2 DEF Write, TypedInv, StoresTyped
  <2>4. \A j \in op'[c].pick : file'[j] = file[j] /\ file[j].status = "queued"
    BY <1>1, <2>1, <2>2 DEF Write, Consistent
  <2> QED BY <2>2, <2>3, <2>4 DEF Consistent, home
<1>10. CASE List(c)
  <2>1. /\ op[c].at = "list" /\ op'[c].at = "relist" /\ op'[c].view = cache'[home(c)]
        /\ ReadActive(home(c)) /\ UNCHANGED file
    BY <1>1, <1>10 DEF List, TypedInv, CallersTyped, Place
  <2>2. cache'[home(c)] \in {View(home(c)), Scanned}
    BY <1>1, <2>1 DEF ReadActive, Read, TypedInv, StoresTyped
  <2>3. \A i \in Command : Scanned[i] \in {Absent, file[i]}
    BY DEF Scanned
  <2>4. \A i \in Command : op'[c].view[i].status = "claimed" => op'[c].view[i] = file'[i]
    BY <1>2, <2>1, <2>2, <2>3 DEF Agrees, Absent
  <2> QED BY <2>1, <2>4 DEF Consistent
<1>11. ASSUME NEW d \in Caller, (\E i \in Command : Ingest(d, i)) \/ Drain(d) \/ Discover(d) \/ Work(d)
       PROVE  d = c
  <2> SUFFICES ASSUME d # c PROVE op'[c] = op[c]
    OBVIOUS
  <2> USE <1>1, Moves, RequeueMoves, TakeMoves DEF TypedInv, CallersTyped
  <2>1. CASE (\E i \in Command : Ingest(d, i)) \/ Drain(d) \/ Discover(d)
    BY <2>1 DEF Ingest, Drain, Discover, Goto
  <2>2. CASE RequeueExpired(d) \/ Take(d)
    BY <2>2
  <2>3. CASE Enqueue(d)
    BY <2>3 DEF Enqueue
  <2>4. CASE EnqueueWrite(d)
    BY <2>4 DEF EnqueueWrite, Finish
  <2>5. CASE AppendAgain(d)
    BY <2>5 DEF AppendAgain, Finish
  <2>6. CASE Claim(d)
    BY <2>6 DEF Claim
  <2>7. CASE Taken(d)
    BY <2>7 DEF Taken, Finish
  <2>8. CASE AppendEvent(d)
    BY <2>8 DEF AppendEvent, Choose, Refuse
  <2>9. CASE Complete(d)
    BY <2>9 DEF Complete
  <2>10. CASE CompleteWrite(d)
    BY <2>10 DEF CompleteWrite, Goto
  <2>11. CASE Fail(d)
    BY <2>11 DEF Fail
  <2>12. CASE FailWrite(d)
    BY <2>12 DEF FailWrite
  <2>13. CASE List(d)
    BY <2>13 DEF List
  <2>14. CASE Relist(d)
    BY <2>14 DEF Relist, Finish
  <2> QED BY <1>11, <2>1, <2>2, <2>3, <2>4, <2>5, <2>6, <2>7, <2>8, <2>9, <2>10, <2>11, <2>12,
      <2>13, <2>14 DEF Work
<1>12. ASSUME (\E p \in Process : Start(p) \/ Warm(p)) \/ (\E n \in 1..MaxClaims : LeaseEnds(n))
       PROVE  FALSE
  BY <1>12 DEF Start, Warm, LeaseEnds
<1> QED
  BY <1>1, <1>3, <1>4, <1>5, <1>6, <1>7, <1>8, <1>9, <1>10, <1>11, <1>12 DEF InboxNext, Work

\* A caller holds a claim it held, or the one it makes.
NewClaim(c, t) ==
    \E i \in op[c].pick :
        /\ op[c].at = "take" /\ t = [command |-> i, token |-> claims + 1]
        /\ Write(home(c), {i}, [status |-> "claimed", token |-> claims + 1])

\* Only Take makes claims.
LEMMA TodoMoves ==
    ASSUME TypedInv, InboxNext, NEW c \in Caller, NEW t \in op'[c].todo
    PROVE  t \in op[c].todo \/ NewClaim(c, t)
<1> USE DEF TypedInv, CallersTyped, Place
<1>1. CASE op'[c] = op[c]
  BY <1>1
<1>2. ASSUME NEW p \in Process, Crash(p) PROVE t \in op[c].todo
  BY <1>2 DEF Crash, Idle
<1>3. ASSUME NEW p \in Process, Start(p) \/ Warm(p) PROVE t \in op[c].todo
  BY <1>3 DEF Start, Warm
<1>4. ASSUME NEW n \in 1..MaxClaims, LeaseEnds(n) PROVE t \in op[c].todo
  BY <1>4 DEF LeaseEnds
<1>5. ASSUME NEW d \in Caller, (\E i \in Command : Ingest(d, i)) \/ Drain(d) \/ Discover(d)
      PROVE  t \in op[c].todo
  <2>1. CASE \E i \in Command : Ingest(d, i)
    BY <2>1 DEF Ingest, Idle
  <2>2. CASE Drain(d) \/ Discover(d)
    BY <2>2 DEF Drain, Discover, Goto
  <2> QED BY <1>5, <2>1, <2>2
<1>6. ASSUME NEW d \in Caller, Take(d) PROVE t \in op[c].todo \/ NewClaim(c, t)
  <2>1. PICK i \in op[d].pick :
          /\ Write(home(d), {i}, [status |-> "claimed", token |-> claims + 1])
          /\ op' = [op EXCEPT ![d].pick = @ \ {i},
                              ![d].todo = @ \cup {[command |-> i, token |-> claims + 1]}]
    BY <1>6 DEF Take
  <2>2. CASE c # d
    BY <2>1, <2>2
  <2>3. CASE c = d
    <3>1. op'[c].todo = op[c].todo \cup {[command |-> i, token |-> claims + 1]}
      BY <2>1, <2>3
    <3> QED BY <1>6, <2>1, <2>3, <3>1 DEF NewClaim, Take
  <2> QED BY <2>2, <2>3
<1>7. ASSUME NEW d \in Caller, RequeueExpired(d) PROVE t \in op[c].todo
  BY <1>7, RequeueMoves
<1>8. ASSUME NEW d \in Caller, Enqueue(d) \/ Claim(d) \/ List(d) \/ Complete(d) \/ Fail(d) \/ AppendEvent(d)
      PROVE  t \in op[c].todo
  BY <1>8 DEF Enqueue, Claim, List, Complete, Fail, AppendEvent, Choose, Refuse
<1>9. ASSUME NEW d \in Caller, EnqueueWrite(d) \/ Taken(d) \/ AppendAgain(d) \/ Relist(d)
      PROVE  t \in op[c].todo
  BY <1>9, Moves DEF EnqueueWrite, Taken, AppendAgain, Relist, Finish
<1>10. ASSUME NEW d \in Caller, CompleteWrite(d) \/ FailWrite(d)
      PROVE  t \in op[c].todo
  <2>1. (\E u : Proceed(d, u)) \/ Goto(d, "fail")
    BY <1>10 DEF CompleteWrite, FailWrite
  <2>2. CASE \E u : Proceed(d, u)
    BY <2>2, Moves
  <2>3. CASE Goto(d, "fail")
    BY <2>3 DEF Goto
  <2> QED BY <2>1, <2>2, <2>3
<1> QED
  BY <1>2, <1>3, <1>4, <1>5, <1>6, <1>7, <1>8, <1>9, <1>10 DEF InboxNext, Work

\* A lease that ended stays ended.
LEMMA ExpiredStays ==
    ASSUME InboxNext
    PROVE  expired \subseteq expired'
BY
DEF InboxNext, Start, Warm, Crash, LeaseEnds, Ingest, Drain, Discover, Work, Enqueue,
    EnqueueWrite,
   AppendAgain, Claim, RequeueExpired, Take, Taken, AppendEvent, Complete, CompleteWrite, Fail,
   FailWrite, List, Relist

\* Every step keeps Fenced.
LEMMA FencedStep ==
    ASSUME WarmInv, InboxNext
    PROVE  Fenced'
<1>1. TypedInv /\ Coherent /\ Fenced /\ FilesFollow /\ expired \subseteq expired'
  BY FilesFollowStep, ExpiredStays DEF WarmInv, CommandsInv
<1>2. \A c \in Caller : \A t \in op'[c].todo : t \in op[c].todo \/ NewClaim(c, t)
  BY <1>1, TodoMoves
<1>3. \A c \in Caller : \A t \in op[c].todo : t.token <= claims /\ t.token \in Nat /\ t.command \in Command
  BY <1>1, InboxConstants DEF TypedInv, CallersTyped, CallerOK, Place, Held, Token, InboxBounds
<1>4. ASSUME NEW c \in Caller, NEW t \in op[c].todo, t.token \notin expired
      PROVE  file[t.command].status # "queued"
             /\ (Alive(t)' \/ file'[t.command].status \in Terminal)
  BY <1>1, <1>3, <1>4 DEF Fenced, FilesFollow, Alive, Terminal, Expired
<1>5. ASSUME NEW c \in Caller, NEW t, NewClaim(c, t)
      PROVE  /\ t.token = claims + 1 /\ Alive(t)'
             /\ t.command \in Command /\ file[t.command].status = "queued"
  BY <1>1, <1>5
  DEF NewClaim, Write, Alive, Coherent, Consistent, TypedInv, CallersTyped, CallerOK
<1>6. ClaimsAreFenced'
  <2> SUFFICES ASSUME NEW c \in Caller, NEW d \in Caller, NEW t \in op'[c].todo, NEW u \in op'[d].todo,
                      t.command = u.command, t.token < u.token
               PROVE  t.token \in expired'
    BY DEF ClaimsAreFenced
  <2>1. claims \in Nat
    BY <1>1, InboxConstants DEF TypedInv, CallersTyped, InboxBounds
  <2>2. CASE t \in op[c].todo /\ u \in op[d].todo
    BY <1>1, <2>2 DEF Fenced, ClaimsAreFenced
  <2>3. CASE t \in op[c].todo /\ NewClaim(d, u)
    BY <1>1, <1>4, <1>5, <2>3
  <2>4. CASE NewClaim(c, t)
    BY <1>2, <1>3, <1>5, <2>1, <2>4
  <2> QED BY <1>2, <2>2, <2>3, <2>4
<1>7. \A c \in Caller : \A t \in op'[c].todo :
        t.token \notin expired' => Alive(t)' \/ file'[t.command].status \in Terminal
  BY <1>1, <1>2, <1>4, <1>5
<1> QED BY <1>6, <1>7 DEF Fenced

\* The invariant of the warm inbox is inductive.
LEMMA WarmStep == WarmInv /\ [WarmNext]_inboxVars => WarmInv'
<1> SUFFICES ASSUME WarmInv, [WarmNext]_inboxVars PROVE WarmInv'
  OBVIOUS
<1>1. OwnProcesses' /\ CommandsInv'
  <2>1. OwnProcesses'
    BY DEF WarmInv, OwnProcesses, home
  <2> QED BY <2>1, CommandsStep DEF WarmInv, WarmNext
<1>2. CASE WarmNext
  BY <1>1, <1>2, RememberedStep, ConsistentStep, FencedStep DEF WarmInv, Coherent, WarmNext
<1>3. CASE UNCHANGED inboxVars
  <2>1. Coherent'
    BY <1>3 DEF WarmInv, inboxVars, Coherent, Remembered, Consistent, Agrees, Up, home
  <2>2. Fenced'
    BY <1>3 DEF WarmInv, inboxVars, Fenced, ClaimsAreFenced, Alive
  <2> QED BY <1>1, <2>1, <2>2 DEF WarmInv
<1> QED BY <1>2, <1>3

LEMMA WarmInit == InboxInit /\ OwnProcesses => WarmInv
<1> SUFFICES ASSUME InboxInit, OwnProcesses PROVE WarmInv
  OBVIOUS
<1>1. CommandsInv
  BY TypedInit, StockedInit DEF CommandsInv
<1>2. Coherent
  BY DEF InboxInit, Coherent, Remembered, Consistent, Up, Idle
<1>3. Fenced
  BY DEF InboxInit, Fenced, ClaimsAreFenced, Idle
<1> QED BY <1>1, <1>2, <1>3 DEF WarmInv

\* The inductive invariant of warm calls holds in their every behaviour.
THEOREM WarmInvariant ==
    ASSUME OwnProcesses
    PROVE  InboxWarmSpec => []WarmInv
<1>1. InboxInit => WarmInv
  BY WarmInit
<1> QED BY <1>1, WarmStep, PTL DEF InboxWarmSpec

\* Of processes whose calls start warm, no two claims of one command are alive: the
\* earlier one's lease had ended when the later one was made.
THEOREM WarmClaimsFenced ==
    ASSUME OwnProcesses
    PROVE  InboxWarmSpec => []ClaimsAreFenced
<1>1. WarmInv => ClaimsAreFenced
  BY DEF WarmInv, Fenced
<1> QED BY WarmInvariant, <1>1, PTL

\* Of processes whose calls start warm, none ever rewrites a completed command.
THEOREM WarmCompletedFinal ==
    ASSUME OwnProcesses
    PROVE  InboxWarmSpec => CompletedIsFinal
<1>1. WarmInv /\ [WarmNext]_inboxVars => [CompletedStays]_inboxVars
  <2> SUFFICES ASSUME WarmInv, WarmNext PROVE CompletedStays
    OBVIOUS
  <2>1. FilesFollow
    BY FilesFollowStep DEF WarmNext
  <2> QED BY <2>1 DEF FilesFollow, CompletedStays, Expired
<1> QED BY WarmInvariant, <1>1, PTL DEF InboxWarmSpec, CompletedIsFinal
-----------------------------------------------------------------------------
(* The usage index.                                                        *)

Sync == [kind : {"sync"}, at : {"revision", "read", "save", "ack", "remove"}, run : Run,
         todo : SUBSET Run, runs : SUBSET Run, revision : 0..MaxEvents]
Pass == [kind : {"pass"}, at : {"revision", "read", "save"}, run : Run \cup {NoRun}, left : Nat,
         failed : BOOLEAN, revision : 0..MaxEvents, byLoop : BOOLEAN]
PassOK(o) == o \in Pass /\ (o.at # "save" => o.run \in Run)
ServiceOK(o) == o = Resting \/ o \in Sync \/ PassOK(o)

StatusTyped == status \in {"idle", "partial", "complete", "failed", "running", "cancelled"}
ServiceTyped == ServiceOK(service)

\* What was read of a run is not ahead of its events, and the saved index not
\* ahead of the one in memory.
ReadIsStored == service.at = "read" => service.revision <= stored[service.run]
MemoryIsNewer == \A r \in Run : disk.runs[r].count <= mem[r].count

\* An event is written behind its mark, and under the lock by a writer that does
\* not own the run.
MarkComesFirst == \A r \in Run : write[r] = "marked" => r \in pending
RoomToWrite == \A r \in Run : write[r] # "idle" => stored[r] < MaxEvents
WriterLocks == TakesLock => \A r \in Run : write[r] # "idle" => locked[r] = "append"

\* What is acknowledged was saved; a mark goes while nobody appends and the saved
\* index has counted every event of the run.
AcknowledgedIsSaved == service.at \in {"ack", "remove"} => disk.runs = mem
RemovalIsSafe ==
    service.at = "remove" =>
        /\ write[service.run] = "idle" /\ locked[service.run] = "ack"
        /\ stored[service.run] = mem[service.run].count

IndexTyped == UsageTypeOK /\ StatusTyped /\ ServiceTyped
UsageInv ==
    /\ IndexTyped /\ RecordsAreComplete /\ NoReceiptIsHidden
    /\ ReadIsStored /\ MemoryIsNewer /\ MarkComesFirst /\ RoomToWrite /\ WriterLocks
    /\ AcknowledgedIsSaved /\ RemovalIsSafe

\* The runs are numbers, and every set of them has a first one.
LEMMA LeastIs ==
    ASSUME NEW S \in SUBSET Nat, S # {}
    PROVE  Least(S) \in S
<1> DEFINE T == {0..s : s \in S}
<1>1. T \subseteq FiniteSubsetsOf(Nat) /\ T # {}
  <2>1. ASSUME NEW s \in S PROVE 0..s \in FiniteSubsetsOf(Nat)
    BY FS_Interval DEF FiniteSubsetsOf
  <2> QED BY <2>1
<1>2. PICK x \in T : \A y \in T : ~(<<y, x>> \in StrictSubsetOrdering(Nat))
  <2> HIDE DEF T
  <2> QED BY ONLY <1>1, FS_StrictSubsetOrderingWellFounded, WFMin
<1>3. PICK m \in S : x = 0..m
  OBVIOUS
<1>4. ASSUME NEW q \in S PROVE m <= q
  <2> SUFFICES ASSUME q < m PROVE FALSE
    OBVIOUS
  <2>1. 0..q \subseteq 0..m /\ 0..q # 0..m
    <3>1. m \in 0..m /\ m \notin 0..q
      OBVIOUS
    <3> QED BY <3>1
  <2>2. <<0..q, x>> \in StrictSubsetOrdering(Nat)
    BY <1>3, <2>1 DEF StrictSubsetOrdering
  <2> QED BY <1>2, <2>2
<1> QED BY <1>4 DEF Least

LEMMA LeastRun ==
    ASSUME NEW S \in SUBSET Run, S # {}
    PROVE  Least(S) \in Run
<1>1. S \in SUBSET Nat
  BY UsageConstants DEF UsageAssumption, Run
<1>2. Least(S) \in S
  BY <1>1, LeastIs
<1> QED BY <1>2

LEMMA NextIsRun == ASSUME NEW r PROVE NextAfter(r) \in Run \cup {NoRun}
<1>1. CASE \E q \in Existing : q > r
  <2>1. {q \in Existing : q > r} \in SUBSET Run /\ {q \in Existing : q > r} # {}
    BY <1>1 DEF Existing
  <2> QED BY <1>1, <2>1, LeastRun DEF NextAfter
<1> QED BY <1>1 DEF NextAfter

\* Where an operation goes on is in range, and it reads a revision or saves.
LEMMA ContinueTyped ==
    ASSUME NEW o, o \in Sync \/ PassOK(o)
    PROVE  ServiceOK(Continue(o)) /\ Continue(o).at \in {"revision", "save"}
<1>1. CASE o \in Sync
  <2>1. CASE o.todo = {}
    <3>1. Continue(o) = [o EXCEPT !.at = "save"]
      BY <1>1, <2>1 DEF Continue, Sync
    <3> QED BY <1>1, <3>1 DEF Sync, ServiceOK
  <2>2. CASE o.todo # {}
    <3>1. Continue(o) = [o EXCEPT !.at = "revision", !.run = Least(o.todo), !.todo = o.todo \ {Least(o.todo)}]
      BY <1>1, <2>2 DEF Continue, Sync
    <3>2. Least(o.todo) \in Run
      BY <1>1, <2>2, LeastRun DEF Sync
    <3> HIDE DEF Continue
    <3> QED BY <1>1, <3>1, <3>2 DEF Sync, ServiceOK
  <2> QED BY <2>1, <2>2
<1>2. CASE PassOK(o)
  <2>1. NextAfter(o.run) \in Run \cup {NoRun}
    BY NextIsRun
  <2>2. CASE o.left = 0 \/ NextAfter(o.run) = NoRun
    <3>1. Continue(o) = [o EXCEPT !.at = "save", !.run = NextAfter(o.run)]
      BY <1>2, <2>2 DEF Continue, Pass, PassOK
    <3> QED BY <1>2, <2>1, <3>1 DEF Pass, PassOK, ServiceOK
  <2>3. CASE ~(o.left = 0 \/ NextAfter(o.run) = NoRun)
    <3>1. Continue(o) = [o EXCEPT !.at = "revision", !.run = NextAfter(o.run), !.left = o.left - 1]
      BY <1>2, <2>3 DEF Continue, Pass, PassOK
    <3>2. o.left - 1 \in Nat
      BY <1>2, <2>3 DEF Pass, PassOK
    <3> QED BY <1>2, <2>1, <2>3, <3>1, <3>2 DEF Pass, PassOK, ServiceOK
  <2> QED BY <2>2, <2>3
<1> QED BY <1>1, <1>2

-----------------------------------------------------------------------------
(* The steps.                                                              *)

LEMMA UsageStarts == UsageInit => UsageInv
<1> SUFFICES ASSUME UsageInit PROVE UsageInv
  OBVIOUS
<1>1. \A r \in Run : Old(r) \in 0..MaxEvents
  <2>1. \A r \in Run : Old(r) = 0 \/ (Old(r) = 1 /\ History # {})
    BY DEF Old
  <2> QED BY <2>1, UsageConstants DEF UsageAssumption
<1>2. stored \in [Run -> 0..MaxEvents] /\ \A r \in Run : stored[r] = Old(r)
  BY <1>1 DEF UsageInit
<1>3. Unknown \in Record /\ Unknown.count = 0 /\ Unknown.revision = 0
  BY UsageConstants DEF Unknown, Record, UsageAssumption
<1>4. mem \in [Run -> Record] /\ disk.runs = mem /\ \A r \in Run : mem[r] = Unknown
  BY <1>3 DEF UsageInit
<1>5. UsageTypeOK
  BY <1>2, <1>4 DEF UsageInit, UsageTypeOK, AppendPhase, ServicePhase, Resting
<1>6. IndexTyped
  BY <1>5 DEF UsageInit, IndexTyped, StatusTyped, ServiceTyped, ServiceOK
<1>7. RecordsAreComplete /\ MemoryIsNewer
  BY <1>2, <1>3, <1>4 DEF RecordsAreComplete, MemoryIsNewer
<1>8. NoReceiptIsHidden
  BY <1>1, <1>2 DEF NoReceiptIsHidden
<1>9. /\ ReadIsStored /\ MarkComesFirst /\ RoomToWrite /\ WriterLocks /\ AcknowledgedIsSaved
      /\ RemovalIsSafe
  BY DEF UsageInit, Resting, ReadIsStored, MarkComesFirst, RoomToWrite, WriterLocks,
         AcknowledgedIsSaved, RemovalIsSafe
<1> QED BY <1>6, <1>7, <1>8, <1>9 DEF UsageInv

\* A step of the service that touches neither a run nor an index.
LEMMA ServiceMoves ==
    ASSUME UsageInv, UNCHANGED <<streams, mem, disk, progress>>,
           loop' \in {"off", "first", "running", "armed"}, cancelling' \in BOOLEAN,
           ServiceOK(service'),
           \/ service'.at \in {"idle", "revision", "save"}
           \/ service'.at = "read" /\ service'.revision <= stored[service'.run]
           \/ /\ service'.at = service.at /\ service'.run = service.run
              /\ service'.revision = service.revision
    PROVE  UsageInv'
<1>1. /\ stored' = stored /\ write' = write /\ pending' = pending /\ changed' = changed
      /\ locked' = locked /\ corrupt' = corrupt /\ mem' = mem /\ disk' = disk
      /\ status' = status /\ cursor' = cursor
  BY DEF streams, progress
<1>2. service'.at \in ServicePhase
  BY DEF ServiceOK, Sync, Pass, PassOK, Resting, ServicePhase
<1>3. UsageTypeOK'
  BY <1>1, <1>2 DEF UsageInv, IndexTyped, UsageTypeOK
<1>4. IndexTyped'
  BY <1>1, <1>3 DEF UsageInv, IndexTyped, StatusTyped, ServiceTyped
<1>5. RecordsAreComplete' /\ MemoryIsNewer'
  BY <1>1 DEF UsageInv, RecordsAreComplete, MemoryIsNewer
<1>6. NoReceiptIsHidden' /\ MarkComesFirst' /\ RoomToWrite' /\ WriterLocks'
  BY <1>1 DEF UsageInv, NoReceiptIsHidden, MarkComesFirst, RoomToWrite, WriterLocks
<1>7. ReadIsStored' /\ AcknowledgedIsSaved' /\ RemovalIsSafe'
  BY <1>1 DEF UsageInv, ReadIsStored, AcknowledgedIsSaved, RemovalIsSafe
<1> QED BY <1>4, <1>5, <1>6, <1>7 DEF UsageInv

LEMMA SynchronizeKeeps == ASSUME UsageInv, Synchronize PROVE UsageInv'
<1>1. Listed \in SUBSET Run /\ Listed # {}
  BY DEF UsageInv, IndexTyped, UsageTypeOK, Synchronize, Listed
<1>2. Least(Listed) \in Run
  BY <1>1, LeastRun
<1>3. service' = [kind |-> "sync", at |-> "revision", run |-> Least(Listed),
                  todo |-> Listed \ {Least(Listed)}, runs |-> Listed, revision |-> 0]
  BY DEF Synchronize
<1>4. 0 \in 0..MaxEvents
  BY UsageConstants DEF UsageAssumption
<1>5. ServiceOK(service') /\ service'.at = "revision"
  BY <1>1, <1>2, <1>3, <1>4 DEF ServiceOK, Sync
<1> QED BY <1>5, ServiceMoves DEF Synchronize, UsageInv, IndexTyped, UsageTypeOK

LEMMA ReadRevisionKeeps == ASSUME UsageInv, ReadRevision PROVE UsageInv'
<1>1. service \in Sync \/ PassOK(service)
  BY DEF UsageInv, IndexTyped, ServiceTyped, ServiceOK, ReadRevision, Resting
<1>2. service.at = "revision" /\ service.run \in Run
  BY <1>1 DEF ReadRevision, Sync, PassOK
<1>3. stored[service.run] \in 0..MaxEvents
  BY <1>2 DEF UsageInv, IndexTyped, UsageTypeOK
<1>4. CASE service' = Continue(service)
  BY <1>1, <1>4, ContinueTyped, ServiceMoves DEF ReadRevision, UsageInv, IndexTyped, UsageTypeOK
<1>5. CASE service' = [service EXCEPT !.at = "read", !.revision = stored[service.run]]
  <2>1. ServiceOK(service')
    BY <1>1, <1>2, <1>3, <1>5 DEF ServiceOK, Sync, Pass, PassOK
  <2>2. service'.at = "read" /\ service'.revision = stored[service.run] /\ service'.run = service.run
    BY <1>1, <1>5 DEF Sync, Pass, PassOK
  <2>3. service'.revision <= stored[service'.run]
    BY <2>2, <1>3
  <2> QED BY <2>1, <2>2, <2>3, ServiceMoves DEF ReadRevision, UsageInv, IndexTyped, UsageTypeOK
<1> QED BY <1>4, <1>5 DEF ReadRevision

LEMMA ReadFailsKeeps == ASSUME UsageInv, ReadFails PROVE UsageInv'
<1>1. service \in Sync \/ PassOK(service)
  BY DEF UsageInv, IndexTyped, ServiceTyped, ServiceOK, ReadFails, Resting
<1>2. CASE service.kind = "sync"
  <2>1. service' = Resting
    BY <1>2 DEF ReadFails, Failed
  <2>2. ServiceOK(service') /\ service'.at = "idle"
    BY <2>1 DEF ServiceOK, Resting
  <2> QED BY <2>2, ServiceMoves DEF ReadFails, UsageInv, IndexTyped, UsageTypeOK
<1>3. CASE service.kind # "sync"
  <2> DEFINE o == [service EXCEPT !.failed = TRUE]
  <2>1. PassOK(o)
    BY <1>1, <1>3 DEF Sync, PassOK, Pass
  <2>2. service' = Continue(o)
    BY <1>3 DEF ReadFails, Failed
  <2> HIDE DEF o
  <2>3. ServiceOK(service') /\ service'.at \in {"revision", "save"}
    BY <2>1, <2>2, ContinueTyped
  <2> QED BY <2>3, ServiceMoves DEF ReadFails, UsageInv, IndexTyped, UsageTypeOK
<1> QED BY <1>2, <1>3

LEMMA BeginStepTyped ==
    ASSUME UsageInv, NEW restart \in BOOLEAN, NEW byLoop \in BOOLEAN, BeginStep(restart, byLoop)
    PROVE  ServiceOK(service') /\ service'.at \in {"revision", "save"}
<1> DEFINE from == IF restart \/ cursor = NoRun THEN 1 ELSE cursor
           first == IF from \in Existing \/ NextAfter(from) = NoRun THEN from ELSE NextAfter(from)
<1>1. from \in Run
  <2>1. 1 \in Run
    BY UsageConstants DEF UsageAssumption, Run
  <2> QED BY <2>1 DEF UsageInv, IndexTyped, UsageTypeOK
<1>2. first \in Run
  BY <1>1, NextIsRun
<1>3. Budget - 1 \in Nat /\ 0 \in 0..MaxEvents
  BY UsageConstants DEF UsageAssumption
<1>4. service' = IF Existing = {}
                 THEN [kind |-> "pass", at |-> "save", run |-> NoRun, left |-> 0, failed |-> FALSE,
                       revision |-> 0, byLoop |-> byLoop]
                 ELSE [kind |-> "pass", at |-> "revision", run |-> first, left |-> Budget - 1,
                       failed |-> FALSE, revision |-> 0, byLoop |-> byLoop]
  BY DEF BeginStep
<1> HIDE DEF first
<1> QED BY <1>2, <1>3, <1>4 DEF ServiceOK, PassOK, Pass

LEMMA RefreshKeeps == ASSUME UsageInv, Refresh PROVE UsageInv'
<1>1. ServiceOK(service') /\ service'.at \in {"revision", "save"}
  BY BeginStepTyped DEF Refresh
<1> QED BY <1>1, ServiceMoves DEF Refresh, UsageInv, IndexTyped, UsageTypeOK

LEMMA TimerStepKeeps == ASSUME UsageInv, TimerStep PROVE UsageInv'
<1>1. ServiceOK(service') /\ service'.at \in {"revision", "save"}
  BY BeginStepTyped DEF TimerStep
<1> QED BY <1>1, ServiceMoves DEF TimerStep, UsageInv, IndexTyped, UsageTypeOK

LEMMA FirstStepKeeps == ASSUME UsageInv, FirstStep PROVE UsageInv'
<1>1. CASE status = "complete"
  <2>1. service' = service /\ loop' = "off" /\ service.at = "idle"
    BY <1>1 DEF FirstStep
  <2> QED BY <2>1, ServiceMoves DEF FirstStep, UsageInv, IndexTyped, UsageTypeOK, ServiceTyped
<1>2. CASE status # "complete"
  <2>1. BeginStep(cursor = NoRun, TRUE) /\ loop' = loop
    BY <1>2 DEF FirstStep
  <2>2. ServiceOK(service') /\ service'.at \in {"revision", "save"}
    BY <2>1, BeginStepTyped
  <2> QED BY <2>1, <2>2, ServiceMoves DEF FirstStep, UsageInv, IndexTyped, UsageTypeOK
<1> QED BY <1>1, <1>2

LEMMA OrphanedTyped ==
    ASSUME UsageInv
    PROVE  /\ ServiceOK(Orphaned)
           /\ Orphaned.at = service.at /\ Orphaned.run = service.run /\ Orphaned.revision = service.revision
<1>1. CASE service.at # "idle" /\ service.kind = "pass"
  <2>1. PassOK(service)
    BY <1>1 DEF UsageInv, IndexTyped, ServiceTyped, ServiceOK, Sync, Resting
  <2> QED BY <1>1, <2>1 DEF Orphaned, ServiceOK, PassOK, Pass
<1>2. CASE ~(service.at # "idle" /\ service.kind = "pass")
  BY <1>2 DEF Orphaned, UsageInv, IndexTyped, ServiceTyped
<1> QED BY <1>1, <1>2

LEMMA BackfillKeeps == ASSUME UsageInv, StartBackfill \/ Cancel PROVE UsageInv'
<1>1. service' = Orphaned /\ UNCHANGED <<streams, mem, disk, progress>>
  BY DEF StartBackfill, Cancel
<1>2. loop' \in {"off", "first", "running", "armed"} /\ cancelling' \in BOOLEAN
  BY DEF StartBackfill, Cancel, UsageInv, IndexTyped, UsageTypeOK
<1> QED BY <1>1, <1>2, OrphanedTyped, ServiceMoves

\* The writers.
LEMMA StartAppendKeeps ==
    ASSUME UsageInv, SameProcess \/ ~Trusted, NEW r \in Run, StartAppend(r)
    PROVE  UsageInv'
<1>1. /\ stored' = stored /\ pending' = pending /\ changed' = changed /\ corrupt' = corrupt
      /\ stored[r] < MaxEvents /\ mem' = mem /\ disk' = disk /\ service' = service /\ loop' = loop
      /\ cancelling' = cancelling /\ status' = status /\ cursor' = cursor
      /\ write' = [write EXCEPT ![r] = "begun"] /\ write[r] = "idle"
      /\ TakesLock => locked[r] = NoRun /\ locked' = [locked EXCEPT ![r] = "append"]
      /\ ~TakesLock => locked' = locked
  BY DEF StartAppend, progress
<1>2. locked' \in [Run -> {NoRun, "append", "ack"}] /\ write' \in [Run -> AppendPhase]
  BY <1>1 DEF UsageInv, IndexTyped, UsageTypeOK, AppendPhase
<1>3. IndexTyped'
  BY <1>1, <1>2 DEF UsageInv, IndexTyped, UsageTypeOK, StatusTyped, ServiceTyped
<1>4. /\ RecordsAreComplete' /\ MemoryIsNewer' /\ NoReceiptIsHidden' /\ ReadIsStored'
      /\ AcknowledgedIsSaved'
  BY <1>1 DEF UsageInv, RecordsAreComplete, MemoryIsNewer, NoReceiptIsHidden, ReadIsStored,
              AcknowledgedIsSaved
<1>5. MarkComesFirst' /\ RoomToWrite' /\ WriterLocks'
  BY <1>1 DEF UsageInv, IndexTyped, UsageTypeOK, MarkComesFirst, RoomToWrite, WriterLocks
<1>6. RemovalIsSafe'
  <2> SUFFICES ASSUME service.at = "remove"
               PROVE  /\ write'[service.run] = "idle" /\ locked'[service.run] = "ack"
                      /\ stored[service.run] = mem[service.run].count
    BY <1>1 DEF RemovalIsSafe
  <2>1. /\ write[service.run] = "idle" /\ locked[service.run] = "ack"
        /\ stored[service.run] = mem[service.run].count
    BY DEF UsageInv, RemovalIsSafe
  <2>2. r # service.run
    BY <1>1, <2>1, UsageConstants DEF StartAppend, Acking, TakesLock, UsageAssumption
  <2>3. service.run \in Run
    BY DEF UsageInv, IndexTyped, ServiceTyped, ServiceOK, Sync, Pass, PassOK, Resting
  <2>4. write'[service.run] = write[service.run]
    BY <1>1, <2>2, <2>3 DEF UsageInv, IndexTyped, UsageTypeOK
  <2>5. locked'[service.run] = locked[service.run]
    BY <1>1, <2>2, <2>3 DEF UsageInv, IndexTyped, UsageTypeOK
  <2> QED BY <2>1, <2>4, <2>5
<1> QED BY <1>3, <1>4, <1>5, <1>6 DEF UsageInv

LEMMA MarkKeeps == ASSUME UsageInv, NEW r \in Run, Mark(r) PROVE UsageInv'
<1>1. /\ stored' = stored /\ pending' = pending \cup {r} /\ corrupt' = corrupt
      /\ mem' = mem /\ disk' = disk /\ service' = service /\ loop' = loop /\ locked' = locked
      /\ cancelling' = cancelling /\ status' = status /\ cursor' = cursor
      /\ write' = [write EXCEPT ![r] = "marked"] /\ write[r] = "begun"
      /\ changed' \in {changed, changed \cup {r}}
  BY DEF Mark, progress
<1>2. write' \in [Run -> AppendPhase] /\ pending' \cup changed' \cup corrupt' \subseteq Run
  BY <1>1 DEF UsageInv, IndexTyped, UsageTypeOK, AppendPhase
<1>3. IndexTyped'
  BY <1>1, <1>2 DEF UsageInv, IndexTyped, UsageTypeOK, StatusTyped, ServiceTyped
<1>4. /\ RecordsAreComplete' /\ MemoryIsNewer' /\ NoReceiptIsHidden' /\ ReadIsStored'
      /\ AcknowledgedIsSaved'
  BY <1>1 DEF UsageInv, RecordsAreComplete, MemoryIsNewer, NoReceiptIsHidden, ReadIsStored,
              AcknowledgedIsSaved
<1>5. MarkComesFirst' /\ RoomToWrite' /\ WriterLocks'
  BY <1>1 DEF UsageInv, IndexTyped, UsageTypeOK, MarkComesFirst, RoomToWrite, WriterLocks
<1>6. RemovalIsSafe'
  BY <1>1 DEF UsageInv, IndexTyped, UsageTypeOK, RemovalIsSafe
<1> QED BY <1>3, <1>4, <1>5, <1>6 DEF UsageInv

\* The lock of a directory that a writer gives back.
LEMMA GivenBack ==
    ASSUME UsageInv, NEW r \in Run, NEW who
    PROVE  /\ Unlocked(r, who) \in [Run -> {NoRun, "append", "ack"}]
           /\ \A q \in Run : q # r \/ locked[q] # who => Unlocked(r, who)[q] = locked[q]
BY DEF UsageInv, IndexTyped, UsageTypeOK, Unlocked

LEMMA WriteEventKeeps == ASSUME UsageInv, NEW r \in Run, WriteEvent(r) PROVE UsageInv'
<1>1. /\ pending' = pending /\ changed' = changed /\ corrupt' = corrupt
      /\ mem' = mem /\ disk' = disk /\ service' = service /\ loop' = loop
      /\ cancelling' = cancelling /\ status' = status /\ cursor' = cursor
      /\ write' = [write EXCEPT ![r] = "idle"] /\ write[r] = "marked"
      /\ stored' = [stored EXCEPT ![r] = @ + 1] /\ locked' = Unlocked(r, "append")
  BY DEF WriteEvent, progress
<1>2. write' \in [Run -> AppendPhase] /\ r \in pending
  BY <1>1 DEF UsageInv, IndexTyped, UsageTypeOK, AppendPhase, MarkComesFirst
<1>3. stored[r] < MaxEvents
  BY <1>1 DEF UsageInv, RoomToWrite
<1>4. stored' \in [Run -> 0..MaxEvents] /\ \A q \in Run : stored[q] <= stored'[q]
  BY <1>1, <1>3, UsageConstants DEF UsageInv, IndexTyped, UsageTypeOK, UsageAssumption
<1>5. locked' \in [Run -> {NoRun, "append", "ack"}]
  BY <1>1, GivenBack
<1>6. IndexTyped'
  BY <1>1, <1>2, <1>4, <1>5 DEF UsageInv, IndexTyped, UsageTypeOK, StatusTyped, ServiceTyped
<1>7. RecordsAreComplete' /\ MemoryIsNewer'
  <2>1. \A q \in Run : mem[q] \in Record /\ disk.runs[q] \in Record
    BY DEF UsageInv, IndexTyped, UsageTypeOK
  <2>2. \A q \in Run : stored[q] \in Nat /\ stored'[q] \in Nat
    BY <1>4, UsageConstants DEF UsageInv, IndexTyped, UsageTypeOK, UsageAssumption
  <2>3. \A q \in Run : \A i \in {mem[q], disk.runs[q]} : i.count \in Nat
    BY <2>1, UsageConstants DEF Record, UsageAssumption
  <2>4. \A q \in Run : \A i \in {mem[q], disk.runs[q]} : i.revision <= i.count /\ i.count <= stored'[q]
    BY <1>4, <2>2, <2>3 DEF UsageInv, RecordsAreComplete
  <2> QED BY <1>1, <2>4 DEF UsageInv, RecordsAreComplete, MemoryIsNewer
<1>8. NoReceiptIsHidden'
  BY <1>1, <1>2 DEF UsageInv, IndexTyped, UsageTypeOK, NoReceiptIsHidden
<1>9. MarkComesFirst' /\ RoomToWrite'
  BY <1>1 DEF UsageInv, IndexTyped, UsageTypeOK, MarkComesFirst, RoomToWrite
<1>10. WriterLocks'
  <2> SUFFICES ASSUME TakesLock, NEW q \in Run, write'[q] # "idle" PROVE locked'[q] = "append"
    BY DEF WriterLocks
  <2>1. q # r /\ write[q] # "idle"
    BY <1>1 DEF UsageInv, IndexTyped, UsageTypeOK
  <2> QED BY <1>1, <2>1, GivenBack DEF UsageInv, WriterLocks
<1>11. ReadIsStored'
  <2> SUFFICES ASSUME service.at = "read" PROVE service.revision <= stored'[service.run]
    BY <1>1 DEF ReadIsStored
  <2>1. service.run \in Run /\ service.revision \in 0..MaxEvents
    BY DEF UsageInv, IndexTyped, ServiceTyped, ServiceOK, Sync, Pass, PassOK, Resting
  <2>2. service.revision <= stored[service.run] /\ stored[service.run] <= stored'[service.run]
    BY <1>4, <2>1 DEF UsageInv, ReadIsStored
  <2>3. stored[service.run] \in 0..MaxEvents /\ stored'[service.run] \in 0..MaxEvents
    BY <1>4, <2>1 DEF UsageInv, IndexTyped, UsageTypeOK
  <2> QED BY <2>1, <2>2, <2>3, UsageConstants DEF UsageAssumption
<1>12. AcknowledgedIsSaved'
  BY <1>1 DEF UsageInv, AcknowledgedIsSaved
<1>13. RemovalIsSafe'
  <2> SUFFICES ASSUME service.at = "remove"
               PROVE  /\ write'[service.run] = "idle" /\ locked'[service.run] = "ack"
                      /\ stored'[service.run] = mem[service.run].count
    BY <1>1 DEF RemovalIsSafe
  <2>1. /\ write[service.run] = "idle" /\ locked[service.run] = "ack"
        /\ stored[service.run] = mem[service.run].count
    BY DEF UsageInv, RemovalIsSafe
  <2>2. service.run \in Run
    BY DEF UsageInv, IndexTyped, ServiceTyped, ServiceOK, Sync, Pass, PassOK, Resting
  <2>3. r # service.run
    BY <1>1, <2>1
  <2>4. locked'[service.run] = locked[service.run]
    BY <1>1, <2>1, <2>2, GivenBack
  <2>5. write'[service.run] = write[service.run] /\ stored'[service.run] = stored[service.run]
    BY <1>1, <2>2, <2>3 DEF UsageInv, IndexTyped, UsageTypeOK
  <2> QED BY <2>1, <2>4, <2>5
<1> QED BY <1>6, <1>7, <1>8, <1>9, <1>10, <1>11, <1>12, <1>13 DEF UsageInv

LEMMA CorruptKeeps == ASSUME UsageInv, NEW r \in Run, Corrupt(r) PROVE UsageInv'
<1>1. /\ stored' = stored /\ write' = write /\ pending' = pending /\ changed' = changed
      /\ locked' = locked /\ corrupt' = corrupt \cup {r} /\ mem' = mem /\ disk' = disk
      /\ service' = service /\ loop' = loop /\ cancelling' = cancelling
      /\ status' = status /\ cursor' = cursor
  BY DEF Corrupt, progress
<1>2. IndexTyped'
  BY <1>1 DEF UsageInv, IndexTyped, UsageTypeOK, StatusTyped, ServiceTyped
<1>3. RecordsAreComplete' /\ NoReceiptIsHidden' /\ ReadIsStored' /\ MemoryIsNewer'
  BY <1>1 DEF UsageInv, RecordsAreComplete, NoReceiptIsHidden, ReadIsStored, MemoryIsNewer
<1>4. MarkComesFirst' /\ RoomToWrite' /\ WriterLocks' /\ AcknowledgedIsSaved' /\ RemovalIsSafe'
  BY <1>1 DEF UsageInv, MarkComesFirst, RoomToWrite, WriterLocks, AcknowledgedIsSaved, RemovalIsSafe
<1> QED BY <1>2, <1>3, <1>4 DEF UsageInv

LEMMA WriterDiesKeeps == ASSUME UsageInv, NEW r \in Run, WriterDies(r) PROVE UsageInv'
<1>1. /\ stored' = stored /\ pending' = pending /\ changed' = changed
      /\ locked' = Unlocked(r, "append") /\ corrupt' = corrupt /\ mem' = mem /\ disk' = disk
      /\ service' = service /\ loop' = loop /\ cancelling' = cancelling
      /\ status' = status /\ cursor' = cursor
      /\ write' = [write EXCEPT ![r] = "idle"] /\ write[r] # "idle"
  BY DEF WriterDies, progress
<1>2. write' \in [Run -> AppendPhase] /\ locked' \in [Run -> {NoRun, "append", "ack"}]
  BY <1>1, GivenBack DEF UsageInv, IndexTyped, UsageTypeOK, AppendPhase
<1>3. IndexTyped'
  BY <1>1, <1>2 DEF UsageInv, IndexTyped, UsageTypeOK, StatusTyped, ServiceTyped
<1>4. /\ RecordsAreComplete' /\ MemoryIsNewer' /\ NoReceiptIsHidden' /\ ReadIsStored'
      /\ AcknowledgedIsSaved'
  BY <1>1 DEF UsageInv, RecordsAreComplete, MemoryIsNewer, NoReceiptIsHidden, ReadIsStored,
              AcknowledgedIsSaved
<1>5. MarkComesFirst' /\ RoomToWrite'
  BY <1>1 DEF UsageInv, IndexTyped, UsageTypeOK, MarkComesFirst, RoomToWrite
<1>6. WriterLocks'
  <2> SUFFICES ASSUME TakesLock, NEW q \in Run, write'[q] # "idle" PROVE locked'[q] = "append"
    BY DEF WriterLocks
  <2>1. q # r /\ write[q] # "idle"
    BY <1>1 DEF UsageInv, IndexTyped, UsageTypeOK
  <2> QED BY <1>1, <2>1, GivenBack DEF UsageInv, WriterLocks
<1>7. RemovalIsSafe'
  <2> SUFFICES ASSUME service.at = "remove"
               PROVE  /\ write'[service.run] = "idle" /\ locked'[service.run] = "ack"
                      /\ stored'[service.run] = mem[service.run].count
    BY <1>1 DEF RemovalIsSafe
  <2>1. /\ write[service.run] = "idle" /\ locked[service.run] = "ack"
        /\ stored[service.run] = mem[service.run].count
    BY DEF UsageInv, RemovalIsSafe
  <2>2. service.run \in Run
    BY DEF UsageInv, IndexTyped, ServiceTyped, ServiceOK, Sync, Pass, PassOK, Resting
  <2>3. locked'[service.run] = locked[service.run]
    BY <1>1, <2>1, <2>2, GivenBack
  <2>4. write'[service.run] = write[service.run]
    BY <1>1, <2>1, <2>2 DEF UsageInv, IndexTyped, UsageTypeOK
  <2> QED BY <1>1, <2>1, <2>3, <2>4
<1> QED BY <1>3, <1>4, <1>5, <1>6, <1>7 DEF UsageInv

\* The indexing of a run: the record is of the events there are.
LEMMA ReadEventsKeeps == ASSUME UsageInv, ReadEvents PROVE UsageInv'
<1> DEFINE r == service.run
           new == Indexed(r, service.revision)
<1>1. /\ stored' = stored /\ write' = write /\ pending' = pending /\ changed' = changed
      /\ locked' = locked /\ corrupt' = corrupt /\ disk' = disk /\ loop' = loop
      /\ cancelling' = cancelling /\ status' = status /\ cursor' = cursor
      /\ mem' = [mem EXCEPT ![r] = new] /\ service' = Continue(service) /\ service.at = "read"
  BY DEF ReadEvents, streams, progress
<1>2. (service \in Sync \/ PassOK(service)) /\ r \in Run /\ service.revision \in 0..MaxEvents
  BY <1>1 DEF UsageInv, IndexTyped, ServiceTyped, ServiceOK, Sync, Pass, PassOK, Resting
<1>3. ServiceOK(service') /\ service'.at \in {"revision", "save"}
  BY <1>1, <1>2, ContinueTyped
<1>4. stored[r] \in 0..MaxEvents /\ service.revision <= stored[r]
  BY <1>1, <1>2 DEF UsageInv, IndexTyped, UsageTypeOK, ReadIsStored
<1>5. new \in Record /\ new.revision <= new.count /\ new.count = stored[r]
  BY <1>2, <1>4 DEF Indexed, Record
<1>6. mem' \in [Run -> Record] /\ mem'[r] = new /\ \A q \in Run \ {r} : mem'[q] = mem[q]
  BY <1>1, <1>2, <1>5 DEF UsageInv, IndexTyped, UsageTypeOK
<1> HIDE DEF new, r
<1>7. UsageTypeOK'
  BY <1>1, <1>3, <1>6 DEF UsageInv, IndexTyped, UsageTypeOK, ServicePhase
<1>8. IndexTyped'
  BY <1>1, <1>3, <1>7 DEF UsageInv, IndexTyped, StatusTyped, ServiceTyped
<1>9. RecordsAreComplete'
  <2> SUFFICES ASSUME NEW q \in Run, NEW i \in {mem'[q], disk.runs[q]}
               PROVE  i.revision <= i.count /\ i.count <= stored[q]
    BY <1>1 DEF RecordsAreComplete
  <2>1. CASE i \in {mem[q], disk.runs[q]}
    BY <2>1 DEF UsageInv, RecordsAreComplete
  <2>2. CASE i = new /\ q = r
    BY <1>4, <1>5, <2>2, UsageConstants DEF UsageAssumption
  <2> QED BY <1>6, <2>1, <2>2
<1>10. MemoryIsNewer'
  <2> SUFFICES ASSUME NEW q \in Run PROVE disk.runs[q].count <= mem'[q].count
    BY <1>1 DEF MemoryIsNewer
  <2>1. CASE q = r
    BY <1>5, <1>6, <2>1 DEF UsageInv, RecordsAreComplete
  <2>2. CASE q # r
    BY <1>6, <2>2 DEF UsageInv, MemoryIsNewer
  <2> QED BY <2>1, <2>2
<1>11. NoReceiptIsHidden' /\ MarkComesFirst' /\ RoomToWrite' /\ WriterLocks'
  BY <1>1 DEF UsageInv, NoReceiptIsHidden, MarkComesFirst, RoomToWrite, WriterLocks
<1>12. ReadIsStored' /\ AcknowledgedIsSaved' /\ RemovalIsSafe'
  BY <1>3 DEF ReadIsStored, AcknowledgedIsSaved, RemovalIsSafe
<1> QED BY <1>8, <1>9, <1>10, <1>11, <1>12 DEF UsageInv

\* A save of the index.  What it has not counted stays marked, for it was not
\* counted before.
LEMMA Saves ==
    ASSUME UsageInv, UNCHANGED <<streams, mem>>, ServiceOK(service'),
           service'.at \in {"idle", "ack"},
           \/ disk' = disk /\ service'.at = "idle"
           \/ disk' = [runs |-> mem, status |-> status', cursor |-> cursor'],
           loop' \in {"off", "first", "running", "armed"}, cancelling' \in BOOLEAN,
           StatusTyped', cursor' \in Run \cup {NoRun}
    PROVE  UsageInv'
<1>1. /\ stored' = stored /\ write' = write /\ pending' = pending /\ changed' = changed
      /\ locked' = locked /\ corrupt' = corrupt /\ mem' = mem
      /\ disk'.runs = mem \/ disk'.runs = disk.runs
      /\ service'.at = "ack" => disk'.runs = mem
  BY DEF streams
<1>2. disk' \in [runs : [Run -> Record], cursor : Run \cup {NoRun},
                 status : {"idle", "partial", "complete", "failed", "running", "cancelled"}]
  BY <1>1 DEF UsageInv, IndexTyped, UsageTypeOK, StatusTyped
<1>3. UsageTypeOK'
  BY <1>1, <1>2 DEF UsageInv, IndexTyped, UsageTypeOK, ServicePhase
<1>4. IndexTyped'
  BY <1>3 DEF IndexTyped, ServiceTyped
<1>5. RecordsAreComplete'
  BY <1>1 DEF UsageInv, RecordsAreComplete
<1>6. mem \in [Run -> Record] /\ disk.runs \in [Run -> Record]
  BY DEF UsageInv, IndexTyped, UsageTypeOK
<1>7. \A q \in Run : mem[q].count \in Nat /\ disk.runs[q].count \in Nat
  BY <1>6, UsageConstants DEF Record, UsageAssumption
<1>8. MemoryIsNewer'
  BY <1>1, <1>7 DEF UsageInv, MemoryIsNewer
<1>9. NoReceiptIsHidden'
  <2> SUFFICES ASSUME NEW q \in Run, stored[q] > Old(q), disk'.runs[q].count < stored[q]
               PROVE  q \in pending
    BY <1>1 DEF NoReceiptIsHidden
  <2>1. stored[q] \in Nat
    BY UsageConstants DEF UsageInv, IndexTyped, UsageTypeOK, UsageAssumption
  <2>2. disk.runs[q].count < stored[q]
    BY <1>1, <1>7, <2>1 DEF UsageInv, MemoryIsNewer
  <2> QED BY <2>2 DEF UsageInv, NoReceiptIsHidden
<1>10. MarkComesFirst' /\ RoomToWrite' /\ WriterLocks'
  BY <1>1 DEF UsageInv, MarkComesFirst, RoomToWrite, WriterLocks
<1>11. ReadIsStored' /\ AcknowledgedIsSaved' /\ RemovalIsSafe'
  BY <1>1 DEF ReadIsStored, AcknowledgedIsSaved, RemovalIsSafe
<1> QED BY <1>4, <1>5, <1>8, <1>9, <1>10, <1>11 DEF UsageInv

\* The runs to acknowledge, one after the other.
LEMMA ToAcknowledge ==
    ASSUME service \in Sync, NEW todo \in SUBSET Run, todo # {}, NEW o,
           o = [service EXCEPT !.at = "ack", !.run = Least(todo), !.todo = todo \ {Least(todo)}]
    PROVE  ServiceOK(o) /\ o.at = "ack"
<1>1. Least(todo) \in Run
  BY LeastRun
<1> QED BY <1>1 DEF ServiceOK, Sync

LEMMA AckNextTyped ==
    ASSUME service \in Sync
    PROVE  ServiceOK(AckNext) /\ AckNext.at \in {"idle", "ack"}
<1>1. CASE service.todo = {}
  BY <1>1 DEF AckNext, ServiceOK, Resting
<1>2. CASE service.todo # {}
  <2>1. AckNext = [service EXCEPT !.at = "ack", !.run = Least(service.todo),
                                  !.todo = service.todo \ {Least(service.todo)}]
    BY <1>2 DEF AckNext, Sync
  <2>2. service.todo \in SUBSET Run
    BY DEF Sync
  <2> HIDE DEF AckNext
  <2> QED BY <1>2, <2>1, <2>2, ToAcknowledge
<1> QED BY <1>1, <1>2

LEMMA SaveSyncKeeps == ASSUME UsageInv, SaveSync PROVE UsageInv'
<1>1. service \in Sync
  BY DEF SaveSync, UsageInv, IndexTyped, ServiceTyped, ServiceOK, PassOK, Pass, Resting
<1>2. CASE disk' = Saved /\ service' = Acknowledge(service.runs)
  <2> DEFINE todo == {r \in service.runs : mem[r].revision > 0}
  <2>1. todo \in SUBSET Run
    BY <1>1 DEF Sync
  <2>2. ServiceOK(service') /\ service'.at \in {"idle", "ack"}
    <3>1. CASE todo = {}
      BY <1>2, <3>1 DEF Acknowledge, ServiceOK, Resting
    <3>2. CASE todo # {}
      <4>1. service' = [service EXCEPT !.at = "ack", !.run = Least(todo), !.todo = todo \ {Least(todo)}]
        BY <1>2, <3>2 DEF Acknowledge
      <4> HIDE DEF todo
      <4> QED BY <1>1, <2>1, <3>2, <4>1, ToAcknowledge
    <3> QED BY <3>1, <3>2
  <2>3. disk' = [runs |-> mem, status |-> status', cursor |-> cursor']
    BY <1>2 DEF Saved, SaveSync, progress
  <2> QED BY <2>2, <2>3, Saves DEF SaveSync, progress, UsageInv, IndexTyped, UsageTypeOK, StatusTyped
<1>3. CASE service' = Resting /\ UNCHANGED disk
  <2>1. ServiceOK(service') /\ service'.at = "idle"
    BY <1>3 DEF ServiceOK, Resting
  <2> QED BY <1>3, <2>1, Saves DEF SaveSync, progress, UsageInv, IndexTyped, UsageTypeOK, StatusTyped
<1> QED BY <1>2, <1>3 DEF SaveSync

LEMMA SaveStepKeeps == ASSUME UsageInv, SaveStep PROVE UsageInv'
<1>1. PassOK(service)
  BY DEF SaveStep, UsageInv, IndexTyped, ServiceTyped, ServiceOK, Sync, Resting
<1>2. StatusTyped' /\ cursor' \in Run \cup {NoRun}
  BY <1>1 DEF SaveStep, StatusTyped, StatusAfter, PassOK, Pass
<1>3. ServiceOK(service') /\ service'.at = "idle"
  BY DEF SaveStep, ServiceOK, Resting
<1>4. loop' \in {"off", "first", "running", "armed"}
  <2>1. loop \in {"off", "first", "running", "armed"}
    BY DEF UsageInv, IndexTyped, UsageTypeOK
  <2> QED BY <2>1 DEF SaveStep
<1>5. cancelling' \in BOOLEAN
  BY DEF SaveStep, UsageInv, IndexTyped, UsageTypeOK
<1> QED BY <1>2, <1>3, <1>4, <1>5, Saves DEF SaveStep

LEMMA NoteRunningKeeps == ASSUME UsageInv, NoteRunning PROVE UsageInv'
<1>1. ServiceOK(service') /\ service'.at = "idle"
  BY DEF NoteRunning, UsageInv, IndexTyped, ServiceTyped
<1>2. StatusTyped' /\ cursor' \in Run \cup {NoRun} /\ cancelling' \in BOOLEAN
  BY DEF NoteRunning, StatusTyped, UsageInv, IndexTyped, UsageTypeOK
<1>3. disk' = disk \/ disk' = [runs |-> mem, status |-> status', cursor |-> cursor']
  BY DEF NoteRunning, Saved
<1> QED BY <1>1, <1>2, <1>3, Saves DEF NoteRunning

LEMMA CancelledKeeps == ASSUME UsageInv, Cancelled PROVE UsageInv'
<1>1. ServiceOK(service') /\ service'.at = "idle"
  BY DEF Cancelled, UsageInv, IndexTyped, ServiceTyped
<1>2. /\ StatusTyped' /\ cursor' \in Run \cup {NoRun} /\ cancelling' \in BOOLEAN
      /\ loop' \in {"off", "first", "running", "armed"}
  BY DEF Cancelled, StatusTyped, UsageInv, IndexTyped, UsageTypeOK
<1>3. disk' = disk \/ disk' = [runs |-> mem, status |-> status', cursor |-> cursor']
  BY DEF Cancelled, Saved
<1> QED BY <1>1, <1>2, <1>3, Saves DEF Cancelled

\* The acknowledgement: the comparison of the revision and the removal of the mark.
LEMMA AckCheckKeeps ==
    ASSUME UsageInv, SameProcess \/ ~Trusted, AckCheck
    PROVE  UsageInv'
<1> DEFINE r == service.run
<1>1. /\ stored' = stored /\ write' = write /\ pending' = pending /\ changed' = changed
      /\ corrupt' = corrupt /\ mem' = mem /\ disk' = disk /\ loop' = loop
      /\ cancelling' = cancelling /\ status' = status /\ cursor' = cursor
      /\ service.at = "ack" /\ locked[r] = NoRun
  BY DEF AckCheck, progress
<1>2. service \in Sync /\ r \in Run
  BY <1>1 DEF UsageInv, IndexTyped, ServiceTyped, ServiceOK, Sync, Pass, PassOK, Resting
<1>3. disk.runs = mem
  BY <1>1 DEF UsageInv, AcknowledgedIsSaved
<1>4. write[r] = "idle"
  <2>1. CASE SameProcess
    BY <2>1 DEF AckCheck
  <2>2. CASE ~Trusted
    BY <1>1, <1>2, <2>2, UsageConstants DEF UsageInv, WriterLocks, TakesLock, UsageAssumption
  <2> QED BY <2>1, <2>2
<1>5. CASE CheckRevision(r)
  <2>1. service' = [service EXCEPT !.at = "remove"] /\ locked' = [locked EXCEPT ![r] = "ack"]
    BY <1>5 DEF AckCheck
  <2>2. ServiceOK(service') /\ service'.at = "remove" /\ service'.run = r
    BY <1>2, <2>1 DEF ServiceOK, Sync
  <2>3. locked' \in [Run -> {NoRun, "append", "ack"}] /\ locked'[r] = "ack"
    BY <1>2, <2>1 DEF UsageInv, IndexTyped, UsageTypeOK
  <2>4. stored[r] = mem[r].count
    <3>1. mem[r].revision = stored[r]
      BY <1>5 DEF CheckRevision
    <3>2. mem[r].revision <= mem[r].count /\ mem[r].count <= stored[r]
      BY <1>2 DEF UsageInv, RecordsAreComplete
    <3>3. mem[r].count \in Nat /\ stored[r] \in Nat
      BY <1>2, UsageConstants DEF UsageInv, IndexTyped, UsageTypeOK, Record, UsageAssumption
    <3> QED BY <3>1, <3>2, <3>3
  <2> HIDE DEF r
  <2>5. UsageTypeOK'
    BY <1>1, <2>2, <2>3 DEF UsageInv, IndexTyped, UsageTypeOK, ServicePhase
  <2>6. IndexTyped'
    BY <1>1, <2>2, <2>5 DEF UsageInv, IndexTyped, StatusTyped, ServiceTyped
  <2>7. /\ RecordsAreComplete' /\ MemoryIsNewer' /\ NoReceiptIsHidden' /\ MarkComesFirst'
        /\ RoomToWrite'
    BY <1>1 DEF UsageInv, RecordsAreComplete, MemoryIsNewer, NoReceiptIsHidden, MarkComesFirst, RoomToWrite
  <2>8. WriterLocks'
    BY <1>1, <1>2, <1>4, <2>1 DEF UsageInv, IndexTyped, UsageTypeOK, WriterLocks
  <2>9. ReadIsStored' /\ AcknowledgedIsSaved' /\ RemovalIsSafe'
    BY <1>1, <1>3, <1>4, <2>2, <2>3, <2>4 DEF ReadIsStored, AcknowledgedIsSaved, RemovalIsSafe
  <2> QED BY <2>6, <2>7, <2>8, <2>9 DEF UsageInv
<1>6. CASE ~CheckRevision(r)
  <2>1. service' = AckNext /\ locked' = locked
    BY <1>6 DEF AckCheck
  <2>2. ServiceOK(service') /\ service'.at \in {"idle", "ack"}
    BY <1>2, <2>1, AckNextTyped
  <2>3. UsageTypeOK'
    BY <1>1, <2>1, <2>2 DEF UsageInv, IndexTyped, UsageTypeOK, ServicePhase
  <2>4. IndexTyped'
    BY <1>1, <2>2, <2>3 DEF UsageInv, IndexTyped, StatusTyped, ServiceTyped
  <2>5. /\ RecordsAreComplete' /\ MemoryIsNewer' /\ NoReceiptIsHidden' /\ MarkComesFirst'
        /\ RoomToWrite' /\ WriterLocks'
    BY <1>1, <2>1 DEF UsageInv, RecordsAreComplete, MemoryIsNewer, NoReceiptIsHidden, MarkComesFirst,
                      RoomToWrite, WriterLocks
  <2>6. ReadIsStored' /\ AcknowledgedIsSaved' /\ RemovalIsSafe'
    BY <1>1, <1>3, <2>2 DEF ReadIsStored, AcknowledgedIsSaved, RemovalIsSafe
  <2> QED BY <2>4, <2>5, <2>6 DEF UsageInv
<1> QED BY <1>5, <1>6

LEMMA AckRemoveKeeps == ASSUME UsageInv, AckRemove PROVE UsageInv'
<1> DEFINE r == service.run
<1>1. /\ stored' = stored /\ write' = write /\ pending' = pending \ {r} /\ changed' = changed \ {r}
      /\ corrupt' = corrupt /\ mem' = mem /\ disk' = disk /\ loop' = loop
      /\ cancelling' = cancelling /\ status' = status /\ cursor' = cursor
      /\ service.at = "remove" /\ locked' = Unlocked(r, "ack") /\ service' = AckNext
  BY DEF AckRemove, progress
<1>2. service \in Sync /\ r \in Run
  BY <1>1 DEF UsageInv, IndexTyped, ServiceTyped, ServiceOK, Sync, Pass, PassOK, Resting
<1>3. disk.runs = mem /\ write[r] = "idle" /\ stored[r] = mem[r].count
  BY <1>1 DEF UsageInv, AcknowledgedIsSaved, RemovalIsSafe
<1>4. ServiceOK(service') /\ service'.at \in {"idle", "ack"}
  BY <1>1, <1>2, AckNextTyped
<1> HIDE DEF r
<1>5. locked' \in [Run -> {NoRun, "append", "ack"}]
  BY <1>1, <1>2, GivenBack
<1>6. UsageTypeOK'
  BY <1>1, <1>4, <1>5 DEF UsageInv, IndexTyped, UsageTypeOK, ServicePhase
<1>7. IndexTyped'
  BY <1>1, <1>4, <1>6 DEF UsageInv, IndexTyped, StatusTyped, ServiceTyped
<1>8. RecordsAreComplete' /\ MemoryIsNewer' /\ RoomToWrite'
  BY <1>1 DEF UsageInv, RecordsAreComplete, MemoryIsNewer, RoomToWrite
<1>9. MarkComesFirst'
  BY <1>1, <1>3 DEF UsageInv, MarkComesFirst
<1>10. NoReceiptIsHidden'
  <2> SUFFICES ASSUME NEW q \in Run, stored[q] > Old(q), disk.runs[q].count < stored[q]
               PROVE  q \in pending \ {r}
    BY <1>1 DEF NoReceiptIsHidden
  <2>1. stored[q] \in Nat
    BY UsageConstants DEF UsageInv, IndexTyped, UsageTypeOK, UsageAssumption
  <2>2. q # r
    BY <1>3, <2>1
  <2> QED BY <2>2 DEF UsageInv, NoReceiptIsHidden
<1>11. WriterLocks'
  <2> SUFFICES ASSUME TakesLock, NEW q \in Run, write[q] # "idle" PROVE locked'[q] = "append"
    BY <1>1 DEF WriterLocks
  <2> QED BY <1>1, <1>2, <1>3, GivenBack DEF UsageInv, WriterLocks
<1>12. ReadIsStored' /\ AcknowledgedIsSaved' /\ RemovalIsSafe'
  BY <1>1, <1>3, <1>4 DEF ReadIsStored, AcknowledgedIsSaved, RemovalIsSafe
<1> QED BY <1>7, <1>8, <1>9, <1>10, <1>11, <1>12 DEF UsageInv

\* The service starts again from the saved index.
LEMMA RestartKeeps == ASSUME UsageInv, Restart PROVE UsageInv'
<1> DEFINE was == IF disk.status = "running" THEN "cancelled" ELSE disk.status
<1>1. /\ stored' = stored /\ pending' = pending /\ changed' = {} /\ corrupt' = corrupt
      /\ mem' = disk.runs /\ disk' = disk /\ service' = Resting /\ loop' = "off"
      /\ cancelling' = FALSE /\ status' = was
      /\ cursor' = IF was \in {"partial", "cancelled"} THEN disk.cursor ELSE NoRun
  BY DEF Restart
<1>2. /\ write' = IF SameProcess THEN [q \in Run |-> "idle"] ELSE write
      /\ locked' = [q \in Run |-> IF locked[q] = "ack" \/ SameProcess THEN NoRun ELSE locked[q]]
  BY DEF Restart
<1>3. /\ write' \in [Run -> AppendPhase] /\ locked' \in [Run -> {NoRun, "append", "ack"}]
      /\ \A q \in Run : write'[q] # "idle" => write'[q] = write[q] /\ ~SameProcess
  BY <1>2 DEF UsageInv, IndexTyped, UsageTypeOK, AppendPhase
<1>4. disk.cursor \in Run \cup {NoRun} /\ disk.runs \in [Run -> Record]
      /\ disk.status \in {"idle", "partial", "complete", "failed", "running", "cancelled"}
  BY DEF UsageInv, IndexTyped, UsageTypeOK
<1>5. StatusTyped' /\ cursor' \in Run \cup {NoRun}
  BY <1>1, <1>4 DEF StatusTyped
<1> HIDE DEF was
<1>6. UsageTypeOK'
  BY <1>1, <1>3, <1>4, <1>5 DEF UsageInv, IndexTyped, UsageTypeOK, ServicePhase, Resting
<1>7. IndexTyped'
  BY <1>1, <1>5, <1>6 DEF IndexTyped, ServiceTyped, ServiceOK
<1>8. RecordsAreComplete'
  BY <1>1 DEF UsageInv, RecordsAreComplete
<1>9. MemoryIsNewer'
  BY <1>1, <1>4, UsageConstants DEF MemoryIsNewer, Record, UsageAssumption
<1>10. NoReceiptIsHidden'
  BY <1>1 DEF UsageInv, NoReceiptIsHidden
<1>11. MarkComesFirst' /\ RoomToWrite'
  BY <1>1, <1>3 DEF UsageInv, MarkComesFirst, RoomToWrite
<1>12. WriterLocks'
  BY <1>2, <1>3 DEF UsageInv, WriterLocks
<1>13. ReadIsStored' /\ AcknowledgedIsSaved' /\ RemovalIsSafe'
  BY <1>1 DEF ReadIsStored, AcknowledgedIsSaved, RemovalIsSafe, Resting
<1> QED BY <1>7, <1>8, <1>9, <1>10, <1>11, <1>12, <1>13 DEF UsageInv

LEMMA UsageSteps ==
    ASSUME UsageInv, SameProcess \/ ~Trusted, [UsageNext]_usageVars
    PROVE  UsageInv'
<1>1. CASE Synchronize
  BY <1>1, SynchronizeKeeps
<1>2. CASE ServiceStep
  <2>1. CASE ReadRevision \/ ReadEvents
    BY <2>1, ReadRevisionKeeps, ReadEventsKeeps
  <2>2. CASE SaveSync \/ SaveStep \/ NoteRunning \/ Cancelled
    BY <2>2, SaveSyncKeeps, SaveStepKeeps, NoteRunningKeeps, CancelledKeeps
  <2>3. CASE AckCheck \/ AckRemove
    BY <2>3, AckCheckKeeps, AckRemoveKeeps
  <2>4. CASE FirstStep \/ TimerStep
    BY <2>4, FirstStepKeeps, TimerStepKeeps
  <2> QED BY <1>2, <2>1, <2>2, <2>3, <2>4 DEF ServiceStep
<1>3. CASE ReadFails \/ Refresh
  BY <1>3, ReadFailsKeeps, RefreshKeeps
<1>4. CASE StartBackfill \/ Cancel
  BY <1>4, BackfillKeeps
<1>5. CASE Restart
  BY <1>5, RestartKeeps
<1>6. ASSUME NEW r \in Run, StartAppend(r) \/ Mark(r) \/ WriteEvent(r) \/ Corrupt(r) \/ WriterDies(r)
      PROVE  UsageInv'
  BY <1>6, StartAppendKeeps, MarkKeeps, WriteEventKeeps, CorruptKeeps, WriterDiesKeeps
<1>7. CASE UNCHANGED usageVars
  <2>1. /\ ServiceOK(service') /\ service' = service /\ UNCHANGED <<streams, mem, disk, progress>>
        /\ loop' \in {"off", "first", "running", "armed"} /\ cancelling' \in BOOLEAN
    BY <1>7 DEF usageVars, UsageInv, IndexTyped, UsageTypeOK, ServiceTyped
  <2> QED BY <2>1, ServiceMoves
<1> QED BY <1>1, <1>2, <1>3, <1>4, <1>5, <1>6, <1>7 DEF UsageNext

\* durable-usage-pending.ts, provider-usage-daily-service.ts: wherever writers and
\* service stop, an event that the saved index has not counted is marked, and no
\* record claims events it has not counted.  Writers live in the service's process
\* or take the lock of the directory.
THEOREM UsageCounted ==
    ASSUME SameProcess \/ ~Trusted
    PROVE  UsageSpec => []UsageIsCounted
<1>1. UsageInv /\ [UsageNext]_usageVars => UsageInv'
  BY UsageSteps
<1>2. UsageInv => UsageIsCounted
  BY DEF UsageInv, IndexTyped, UsageIsCounted
<1> QED BY UsageStarts, <1>1, <1>2, PTL DEF UsageSpec
=============================================================================
