---------------------------- MODULE Agent_proofs ----------------------------
(***************************************************************************)
(* Proofs about a run's lease and about its tool calls.                    *)
(*                                                                         *)
(* RunLease: its type, that a run has one owner whatever fails, that an    *)
(* owner is at work while nothing fails, and that lease, heartbeat and     *)
(* takeover implement Ownership.                                           *)
(*                                                                         *)
(* ToolBatch: for any calls, operations, resources and faults, an effect   *)
(* is begun once, with its lease, and settled once, conflicting calls do   *)
(* not run at once, the run is told no more of its effects than the stream *)
(* says, and no operation is repeated without a reason.                    *)
(***************************************************************************)
EXTENDS RunLease, ToolBatch, FiniteSetTheorems, SequenceTheorems, WellFoundedInduction, TLAPS

USE LeaseAssumption, LeaseBounds

-----------------------------------------------------------------------------
(* Types                                                                   *)

Work == [at : WorkPhase, token : Deadline]
PassState == [at : PassPhase, todo : SUBSET Run, run : Run \cup {None}, token : Deadline]

HasRun(s) == s.at \notin {"off", "list", "filter", "next"} => s.run # None

\* The type invariant in two halves: the files and counters, and the processes.
FilesTyped ==
    /\ lease \in [Run -> Lease]
    /\ stream \in [Run -> {"none", "open", "ended"}] /\ safe \subseteq Run
    /\ grants \in Deadline /\ passed \in 0..grants /\ faults \in 0..MaxFaults
ProcessesTyped ==
    /\ proc \in [Process -> {"new", "up", "dead"}]
    /\ timer \in [Process -> Deadline \cup {None}]
    /\ work \in [Process -> [Run -> Work]] /\ pass \in [Process -> [Pass -> PassState]]
    /\ \A p \in Process : \A k \in Pass : HasRun(pass[p][k])
    /\ \A p \in Process : proc[p] # "up" =>
          /\ timer[p] = None /\ work[p] = [r \in Run |-> Idle]
          /\ pass[p] = [k \in Pass |-> NoPass]

LEMMA TypedParts == LeaseTypeOK <=> FilesTyped /\ ProcessesTyped
BY DEF LeaseTypeOK, FilesTyped, ProcessesTyped, Work, PassState, HasRun

LEMMA InitTyped == LeaseInit => LeaseTypeOK
BY DEF LeaseInit, LeaseTypeOK, Lease, NoLease, Released, Idle, NoPass, WorkPhase, PassPhase, Deadline

\* Whoever is not idle is up.
LEMMA ActiveIsUp ==
    ASSUME ProcessesTyped, NEW p \in Process
    PROVE  /\ \A r \in Run : work[p][r].at # "idle" => Alive(p)
           /\ \A k \in Pass : pass[p][k].at # "off" => Alive(p)
BY DEF ProcessesTyped, Alive, Idle, NoPass

\* A pass that has gone beyond its list is about a run.
LEMMA RunOfPass ==
    ASSUME ProcessesTyped, NEW p \in Process, NEW k \in Pass, pass[p][k].at \notin {"off", "list", "filter", "next"}
    PROVE  pass[p][k].run \in Run
<1>1. pass[p][k] \in PassState /\ HasRun(pass[p][k])
    BY DEF ProcessesTyped
<1> QED BY <1>1 DEF PassState, HasRun

\* A step of a process that is up is typed when what it does to one worker or to
\* one pass is.
LEMMA WorkerTyped ==
    ASSUME ProcessesTyped, NEW p \in Process, Alive(p), NEW r \in Run, NEW w \in Work,
           work' = [work EXCEPT ![p][r] = w], UNCHANGED <<proc, timer, pass>>
    PROVE  ProcessesTyped'
BY DEF ProcessesTyped, Alive

LEMMA PassTyped ==
    ASSUME ProcessesTyped, NEW p \in Process, Alive(p), NEW k \in Pass, NEW s \in PassState, HasRun(s),
           Put(p, k, s), UNCHANGED <<proc, timer, work>>
    PROVE  ProcessesTyped'
BY DEF ProcessesTyped, Alive, Put

LEMMA GrantTyped ==
    ASSUME FilesTyped, NEW p \in Process, NEW r \in Run, Grant(p, r), UNCHANGED <<stream, safe, passed, faults>>
    PROVE  FilesTyped' /\ grants + 1 \in Deadline
<1>1. grants + 1 \in Deadline /\ passed \in 0..(grants + 1)
    BY DEF FilesTyped, Grant, Deadline
<1>2. lease' \in [Run -> Lease]
    BY <1>1 DEF FilesTyped, Grant, Lease
<1> QED BY <1>1, <1>2 DEF FilesTyped, Grant

LEMMA ReleaseTyped ==
    ASSUME FilesTyped, NEW p \in Process, NEW r \in Run, NEW t, Release(p, r, t),
           UNCHANGED <<stream, safe, grants, passed>>, faults' \in 0..MaxFaults
    PROVE  FilesTyped'
BY DEF FilesTyped, Release, Lease

\* The first of the deadlines to come is a deadline.
LEMMA FirstIsDeadline ==
    ASSUME FilesTyped, ToCome # {}
    PROVE  First(ToCome) \in Deadline
<1>1. ToCome \subseteq Deadline /\ Deadline \subseteq Nat
    BY DEF ToCome, Unexpired, FilesTyped, Lease, NoLease, Released, Deadline
<1> DEFINE LessThan == OpToRel(<, Nat)
<1>2. \A m, n \in Nat : m < n => <<m, n>> \in LessThan
    BY DEF OpToRel
<1>3. IsWellFoundedOn(LessThan, Nat)
    BY NatLessThanWellFounded
<1> HIDE DEF LessThan
<1>4. PICK n \in ToCome : \A m \in ToCome : ~(<<m, n>> \in LessThan)
    BY <1>1, <1>3, WFMin
<1>5. \A m \in ToCome : n <= m
    <2>1. ASSUME NEW m \in ToCome
          PROVE  n <= m
        <3>1. m \in Nat /\ n \in Nat
            BY <1>1
        <3>2. ~(m < n)
            BY <1>2, <1>4, <3>1
        <3> QED BY <3>1, <3>2
    <2> QED BY <2>1
<1> QED BY <1>1, <1>5 DEF First

LEMMA WorkStepTyped ==
    ASSUME FilesTyped, ProcessesTyped, NEW p \in Process, NEW r \in Run,
           \/ Accept(p, r) \/ Own(p, r) \/ Boundary(p, r) \/ Renew(p, r) \/ RenewFails(p, r)
           \/ Finish(p, r) \/ Throw(p, r) \/ FinishEarly(p, r) \/ Leave(p, r)
    PROVE  FilesTyped' /\ ProcessesTyped'
<1> USE DEF bounds
<1>1. Alive(p)
    BY ActiveIsUp DEF Accept, Own, Boundary, Renew, RenewFails, Finish, Throw, FinishEarly, Leave, Worker
<1>2. work[p][r] \in Work
    BY DEF ProcessesTyped
<1>3. ASSUME NEW from, NEW to \in WorkPhase, Worker(p, r, from, to), UNCHANGED <<proc, timer, pass>>
      PROVE  ProcessesTyped'
    <2>1. [work[p][r] EXCEPT !.at = to] \in Work
        BY <1>2 DEF Work
    <2>2. work' = [work EXCEPT ![p][r] = [work[p][r] EXCEPT !.at = to]]
        BY <1>3 DEF Worker
    <2> QED BY <1>1, <1>3, <2>1, <2>2, WorkerTyped
<1>4. CASE Accept(p, r)
    <2>1. ProcessesTyped'
        BY <1>3, <1>4 DEF Accept, WorkPhase
    <2> QED BY <1>4, <2>1 DEF Accept, FilesTyped
<1>5. CASE Own(p, r)
    <2>1. CASE Held(r)
        <3>1. Worker(p, r, {"accepted"}, "failing") /\ UNCHANGED <<lease, grants>>
            BY <1>5, <2>1 DEF Own, Worker
        <3> QED BY <3>1, <1>3, <1>5 DEF Own, WorkPhase, FilesTyped
    <2>2. CASE ~Held(r)
        <3>1. FilesTyped' /\ grants + 1 \in Deadline
            BY <1>5, <2>2, GrantTyped DEF Own
        <3>2. ProcessesTyped'
            BY <3>1, <1>1, <1>5, <2>2, WorkerTyped DEF Own, Work, WorkPhase
        <3> QED BY <3>1, <3>2
    <2> QED BY <2>1, <2>2
<1>6. CASE Boundary(p, r)
    BY <1>6 DEF Boundary, FilesTyped, ProcessesTyped
<1>7. CASE Renew(p, r)
    <2>1. grants' \in Deadline /\ passed' \in 0..grants'
        BY <1>7 DEF Renew, FilesTyped, Deadline
    <2>2. lease' \in [Run -> Lease]
        <3>1. lease[r] \in [status : {"active"}, owner : Process, token : Deadline, until : Deadline]
            BY <1>7 DEF Renew, Owns, FilesTyped, Lease, NoLease, Released
        <3>2. [lease[r] EXCEPT !.until = grants + 1] \in Lease
            BY <3>1, <2>1, <1>7 DEF Renew, Lease
        <3> QED BY <3>2, <1>7 DEF Renew, FilesTyped
    <2> QED BY <2>1, <2>2, <1>7 DEF Renew, FilesTyped, ProcessesTyped
<1>8. CASE RenewFails(p, r)
    <2>1. PICK w \in Work : work' = [work EXCEPT ![p][r] = w]
        <3>1. work[p][r].at \in WorkPhase
            BY <1>2 DEF Work
        <3> DEFINE w == [at |-> IF work[p][r].at = "working" THEN "lost" ELSE work[p][r].at, token |-> 0]
        <3>2. w \in Work
            BY <3>1 DEF Work, WorkPhase, Deadline
        <3> QED BY <1>8, <3>2 DEF RenewFails
    <2>2. FilesTyped'
        BY <1>8 DEF RenewFails, FilesTyped, Fault
    <2> QED BY <1>1, <1>8, <2>1, <2>2, WorkerTyped DEF RenewFails
<1>9. CASE Finish(p, r)
    <2>1. ProcessesTyped'
        BY <1>3, <1>9 DEF Finish, WorkPhase
    <2> QED BY <1>9, <2>1 DEF Finish, FilesTyped, Fault
<1>10. CASE Throw(p, r)
    <2>1. ProcessesTyped'
        BY <1>3, <1>10 DEF Throw, WorkPhase
    <2> QED BY <1>10, <2>1 DEF Throw, FilesTyped
<1>11. CASE FinishEarly(p, r)
    <2>1. ProcessesTyped'
        BY <1>3, <1>11 DEF FinishEarly, WorkPhase
    <2> QED BY <1>11, <2>1 DEF FinishEarly, FilesTyped, Fault
<1>12. CASE Leave(p, r)
    <2>1. Idle \in Work
        BY DEF Idle, Work, WorkPhase, Deadline
    <2>2. ProcessesTyped'
        BY <1>1, <1>12, <2>1, WorkerTyped DEF Leave
    <2>3. FilesTyped'
        BY <1>12, ReleaseTyped DEF Leave, FilesTyped, Fault
    <2> QED BY <2>2, <2>3
<1> QED
    BY <1>4, <1>5, <1>6, <1>7, <1>8, <1>9, <1>10, <1>11, <1>12

LEMMA PassStepTyped ==
    ASSUME FilesTyped, ProcessesTyped, NEW p \in Process, NEW k \in Pass,
           PassStep(p, k) \/ (k = "events" /\ Filter(p))
    PROVE  FilesTyped' /\ ProcessesTyped'
<1> USE DEF bounds
<1>1. Alive(p)
    BY ActiveIsUp DEF PassStep, Filter, List, PickRun, Claim, Recheck, Decline, Resumed, Recover,
                      ReleaseRecovered, Done, At
<1>2. pass[p][k] \in PassState /\ HasRun(pass[p][k])
    BY DEF ProcessesTyped
<1> DEFINE s0 == pass[p][k]
<1>3. /\ s0.at \in PassPhase /\ s0.todo \in SUBSET Run /\ s0.run \in Run \cup {None} /\ s0.token \in Deadline
      /\ s0 = [at |-> s0.at, todo |-> s0.todo, run |-> s0.run, token |-> s0.token]
    BY <1>2 DEF PassState
<1>4. ASSUME NEW at \in PassPhase, UNCHANGED <<proc, timer, work>>, Goto(p, k, at),
             s0.at \notin {"off", "list", "filter", "next"}
      PROVE  ProcessesTyped'
    <2>1. [s0 EXCEPT !.at = at] \in PassState /\ HasRun([s0 EXCEPT !.at = at])
        BY <1>2, <1>3, <1>4 DEF PassState, HasRun
    <2> QED BY <1>1, <1>4, <2>1, PassTyped DEF Goto
<1>5. ASSUME UNCHANGED <<proc, timer, work>>, GoOn(p, k)
      PROVE  ProcessesTyped'
    <2>1. [s0 EXCEPT !.at = "next", !.run = None] \in PassState /\ HasRun([s0 EXCEPT !.at = "next", !.run = None])
        BY <1>3 DEF PassState, HasRun, PassPhase
    <2> QED BY <1>1, <1>5, <2>1, PassTyped DEF GoOn
<1>6. CASE List(p, k)
    <2>1. PICK left \in SUBSET Run, at \in {"next", "filter"} : Put(p, k, [s0 EXCEPT !.at = at, !.todo = left])
        <3>1. {r \in Run : Reclaimable(r)} \in SUBSET Run /\ {r \in Run : ~Held(r)} \in SUBSET Run
            OBVIOUS
        <3> QED BY <3>1, <1>6 DEF List
    <2>2. [s0 EXCEPT !.at = at, !.todo = left] \in PassState /\ HasRun([s0 EXCEPT !.at = at, !.todo = left])
        BY <1>3 DEF PassState, PassPhase, HasRun
    <2>3. ProcessesTyped'
        BY <1>1, <1>6, <2>1, <2>2, PassTyped DEF List
    <2> QED BY <1>6, <2>3 DEF List, FilesTyped
<1>7. CASE k = "events" /\ Filter(p)
    <2> DEFINE stored == {r \in s0.todo : stream[r] # "none"}
    <2>1. Put(p, k, [s0 EXCEPT !.at = "next", !.todo = stored])
        BY <1>7 DEF Filter
    <2>2. stored \in SUBSET Run
        BY <1>3
    <2>3. [s0 EXCEPT !.at = "next", !.todo = stored] \in PassState /\ HasRun([s0 EXCEPT !.at = "next", !.todo = stored])
        <3> HIDE DEF stored
        <3> QED BY <1>3, <2>2 DEF PassState, PassPhase, HasRun
    <2> HIDE DEF stored
    <2>4. ProcessesTyped'
        BY <1>1, <1>7, <2>1, <2>3, PassTyped DEF Filter
    <2> QED BY <1>7, <2>4 DEF Filter, FilesTyped
<1>8. CASE PickRun(p, k)
    <2>1. PICK s : Put(p, k, s) /\ s \in PassState /\ HasRun(s)
        <3>1. PICK r \in s0.todo :
                 LET rest == s0.todo \ {r} IN
                 IF k = "events" /\ Skips(r)
                 THEN Put(p, k, [s0 EXCEPT !.todo = rest])
                 ELSE Put(p, k, [s0 EXCEPT !.todo = rest, !.run = r,
                                           !.at = IF Eligible(r) THEN "segment" ELSE "acquire"])
            BY <1>8 DEF PickRun
        <3> DEFINE rest == s0.todo \ {r}
        <3>2. rest \in SUBSET Run /\ r \in Run /\ r # None /\ s0.at = "next"
            BY <1>3, <1>8 DEF PickRun, At
        <3> HIDE DEF rest
        <3>3. CASE k = "events" /\ Skips(r)
            <4>1. [s0 EXCEPT !.todo = rest] \in PassState /\ HasRun([s0 EXCEPT !.todo = rest])
                BY <1>3, <3>2 DEF PassState, HasRun
            <4> QED BY <3>1, <3>3, <4>1 DEF rest
        <3>4. CASE ~(k = "events" /\ Skips(r))
            <4> DEFINE at == IF Eligible(r) THEN "segment" ELSE "acquire"
                       s == [s0 EXCEPT !.todo = rest, !.run = r, !.at = at]
            <4>1. at \in PassPhase
                BY DEF PassPhase
            <4> HIDE DEF at
            <4>2. s \in PassState /\ HasRun(s)
                BY <1>3, <3>2, <4>1 DEF PassState, HasRun
            <4>3. Put(p, k, s)
                BY <3>1, <3>4 DEF rest, at
            <4> QED BY <4>2, <4>3
        <3> QED BY <3>3, <3>4
    <2>2. ProcessesTyped'
        BY <1>1, <1>8, <2>1, PassTyped DEF PickRun
    <2> QED BY <1>8, <2>2 DEF PickRun, FilesTyped
<1>9. CASE Claim(p, k)
    <2>1. CASE Held(s0.run)
        BY <1>5, <1>9, <2>1 DEF Claim, FilesTyped
    <2>2. CASE ~Held(s0.run)
        <3>1. s0.run \in Run
            BY <1>2, <1>3, <1>9 DEF Claim, At, HasRun
        <3>2. FilesTyped' /\ grants + 1 \in Deadline
            BY <1>9, <2>2, <3>1, GrantTyped DEF Claim
        <3> DEFINE at == IF s0.at = "segment" THEN "recheck" ELSE "recover"
                   s == [s0 EXCEPT !.token = grants + 1, !.at = at]
        <3>3. at \in PassPhase
            BY DEF PassPhase
        <3>4. Put(p, k, s)
            <4>1. Put(p, k, [s0 EXCEPT !.token = grants + 1, !.at = IF @ = "segment" THEN "recheck" ELSE "recover"])
                BY <1>9, <2>2 DEF Claim
            <4>2. [s0 EXCEPT !.token = grants + 1, !.at = IF @ = "segment" THEN "recheck" ELSE "recover"] = s
                BY <1>3
            <4> QED BY <4>1, <4>2
        <3> HIDE DEF at
        <3>5. s \in PassState /\ HasRun(s)
            BY <1>3, <3>1, <3>2, <3>3 DEF PassState, HasRun
        <3>6. ProcessesTyped'
            BY <1>1, <1>9, <3>4, <3>5, PassTyped DEF Claim
        <3> QED BY <3>2, <3>6
    <2> QED BY <2>1, <2>2
<1>10. CASE Recheck(p, k)
    <2>1. s0.run \in Run
        BY <1>2, <1>3, <1>10 DEF Recheck, At, HasRun
    <2>2. CASE UNCHANGED work
        <3>1. Goto(p, k, "decline") \/ Goto(p, k, "run")
            BY <1>10 DEF Recheck
        <3> QED BY <1>4, <1>10, <2>2, <3>1 DEF Recheck, At, PassPhase, FilesTyped
    <2>3. CASE /\ Goto(p, k, "run")
               /\ work' = [work EXCEPT ![p][s0.run] = [at |-> "working", token |-> s0.token]]
        <3>1. [at |-> "working", token |-> s0.token] \in Work
            BY <1>3 DEF Work, WorkPhase
        <3>2. work' \in [Process -> [Run -> Work]] /\ \A q \in Process : q # p => work'[q] = work[q]
            BY <2>1, <2>3, <3>1 DEF ProcessesTyped
        <3>3. [s0 EXCEPT !.at = "run"] \in PassState /\ HasRun([s0 EXCEPT !.at = "run"])
            BY <1>3, <2>1 DEF PassState, HasRun, PassPhase
        <3>4. ProcessesTyped'
            <4>1. pass' \in [Process -> [Pass -> PassState]]
                  /\ \A q \in Process : \A j \in Pass : HasRun(pass'[q][j])
                BY <2>3, <3>3 DEF Goto, Put, ProcessesTyped
            <4>2. UNCHANGED <<proc, timer>> /\ \A q \in Process : q # p => pass'[q] = pass[q]
                BY <1>10, <2>3 DEF Recheck, Goto, Put, ProcessesTyped
            <4> QED BY <1>1, <3>2, <4>1, <4>2 DEF ProcessesTyped, Alive
        <3> QED BY <1>10, <3>4 DEF Recheck, FilesTyped
    <2> QED BY <1>10, <2>2, <2>3 DEF Recheck
<1>11. CASE Decline(p, k)
    <2>1. s0.run \in Run
        BY <1>2, <1>3, <1>11 DEF Decline, At, HasRun
    <2>2. ProcessesTyped'
        BY <1>4, <1>5, <1>11 DEF Decline, At, PassPhase
    <2>3. FilesTyped'
        BY <1>11, <2>1, ReleaseTyped DEF Decline, FilesTyped, Fault
    <2> QED BY <2>2, <2>3
<1>12. CASE Resumed(p, k)
    BY <1>5, <1>12 DEF Resumed, FilesTyped
<1>13. CASE Recover(p, k)
    <2>1. ProcessesTyped'
        <3>1. PICK at \in {"release", "refused"} : Goto(p, k, at)
            BY <1>13 DEF Recover
        <3>2. at \in PassPhase
            BY DEF PassPhase
        <3> QED BY <1>4, <1>13, <3>1, <3>2 DEF Recover, At
    <2>2. FilesTyped'
        BY <1>13 DEF Recover, FilesTyped, Fault
    <2> QED BY <2>1, <2>2
<1>14. CASE ReleaseRecovered(p, k)
    <2>1. s0.run \in Run
        BY <1>2, <1>3, <1>14 DEF ReleaseRecovered, At, HasRun
    <2>2. ProcessesTyped'
        BY <1>5, <1>14 DEF ReleaseRecovered
    <2>3. FilesTyped'
        BY <1>14, <2>1, ReleaseTyped DEF ReleaseRecovered, FilesTyped, Fault
    <2> QED BY <2>2, <2>3
<1>15. CASE Done(p, k)
    <2>1. NoPass \in PassState /\ [NoPass EXCEPT !.at = "list"] \in PassState
          /\ HasRun(NoPass) /\ HasRun([NoPass EXCEPT !.at = "list"])
        BY DEF NoPass, PassState, PassPhase, HasRun, Deadline
    <2>2. FilesTyped'
        BY <1>15 DEF Done, FilesTyped
    <2>3. CASE k = "queue" /\ timer[p] = None
        <3> DEFINE t == IF ToCome = {} THEN 0 ELSE First(ToCome)
                   f == [queue |-> NoPass, events |-> [NoPass EXCEPT !.at = "list"]]
        <3>1. t \in Deadline
            BY FirstIsDeadline DEF Deadline
        <3>2. f \in [Pass -> PassState] /\ \A j \in Pass : HasRun(f[j])
            BY <2>1 DEF Pass
        <3> HIDE DEF t, f
        <3>3. timer' = [timer EXCEPT ![p] = t] /\ pass' = [pass EXCEPT ![p] = f] /\ UNCHANGED <<proc, work>>
            BY <1>15, <2>3 DEF Done, t, f
        <3>4. ProcessesTyped'
            BY <1>1, <3>1, <3>2, <3>3 DEF ProcessesTyped, Alive
        <3> QED BY <2>2, <3>4
    <2>4. CASE ~(k = "queue" /\ timer[p] = None)
        BY <1>1, <1>15, <2>1, <2>2, <2>4, PassTyped DEF Done
    <2> QED BY <2>3, <2>4
<1> QED
    BY <1>6, <1>7, <1>8, <1>9, <1>10, <1>11, <1>12, <1>13, <1>14, <1>15 DEF PassStep

LEMMA TypeStep ==
    ASSUME LeaseTypeOK, [LeaseNext]_leaseVars
    PROVE  LeaseTypeOK'
<1> SUFFICES FilesTyped' /\ ProcessesTyped'
    BY DEF LeaseTypeOK, FilesTyped, ProcessesTyped, Work, PassState, HasRun
<1>1. FilesTyped /\ ProcessesTyped
    BY TypedParts
<1> USE <1>1 DEF bounds
<1>2. CASE UNCHANGED leaseVars
    BY <1>2 DEF leaseVars, FilesTyped, ProcessesTyped
<1>3. CASE TimePasses
    BY <1>3 DEF TimePasses, FilesTyped, ProcessesTyped, Deadline
<1>4. ASSUME NEW p \in Process, Boot(p)
      PROVE  FilesTyped' /\ ProcessesTyped'
    <2>1. pass[p]["queue"] = NoPass /\ "queue" \in Pass
        BY <1>4 DEF Boot, ProcessesTyped, Pass
    <2>2. [NoPass EXCEPT !.at = "list"] \in PassState /\ HasRun([NoPass EXCEPT !.at = "list"])
        BY DEF NoPass, PassState, PassPhase, HasRun, Deadline
    <2>3. Put(p, "queue", [NoPass EXCEPT !.at = "list"])
        BY <1>4, <2>1 DEF Boot, Goto
    <2> QED BY <1>4, <2>1, <2>2, <2>3 DEF Boot, Put, FilesTyped, ProcessesTyped
<1>5. ASSUME NEW p \in Process, Crash(p)
      PROVE  FilesTyped' /\ ProcessesTyped'
    <2>1. NoPass \in PassState /\ HasRun(NoPass) /\ Idle \in Work
        BY DEF NoPass, PassState, PassPhase, HasRun, Deadline, Idle, Work, WorkPhase
    <2> QED BY <1>5, <2>1 DEF Crash, FilesTyped, ProcessesTyped
<1>6. ASSUME NEW p \in Process, WakeUp(p)
      PROVE  FilesTyped' /\ ProcessesTyped'
    <2>1. Alive(p)
        BY <1>6 DEF WakeUp, ProcessesTyped, Alive
    <2>2. pass[p]["queue"] \in PassState /\ "queue" \in Pass
        BY DEF ProcessesTyped, Pass
    <2> DEFINE s == [pass[p]["queue"] EXCEPT !.at = "list"]
    <2>3. s \in PassState /\ HasRun(s)
        BY <2>2 DEF PassState, HasRun, PassPhase
    <2>4. Put(p, "queue", s) /\ timer' = [timer EXCEPT ![p] = 0] /\ UNCHANGED <<proc, work>>
        BY <1>6 DEF WakeUp, Goto
    <2> HIDE DEF s
    <2>5. ProcessesTyped'
        BY <2>1, <2>2, <2>3, <2>4 DEF Put, ProcessesTyped, Alive, Deadline
    <2> QED BY <1>6, <2>5 DEF WakeUp, FilesTyped
<1> QED
    <2>1. ASSUME NEW p \in Process, Filter(p)
          PROVE  FilesTyped' /\ ProcessesTyped'
        BY <2>1, PassStepTyped DEF Pass
    <2>2. ASSUME NEW p \in Process, NEW k \in Pass, PassStep(p, k)
          PROVE  FilesTyped' /\ ProcessesTyped'
        <3>1. FilesTyped /\ ProcessesTyped /\ (PassStep(p, k) \/ (k = "events" /\ Filter(p)))
            BY <1>1, <2>2
        <3> QED BY <3>1, PassStepTyped
    <2>3. ASSUME NEW p \in Process, NEW r \in Run,
                 Accept(p, r) \/ Boundary(p, r) \/ Renew(p, r) \/ RenewFails(p, r) \/ Throw(p, r) \/ RunStep(p, r)
          PROVE  FilesTyped' /\ ProcessesTyped'
        BY <2>3, WorkStepTyped DEF RunStep
    <2> QED BY <1>2, <1>3, <1>4, <1>5, <1>6, <2>1, <2>2, <2>3 DEF LeaseNext

\* The type of the state, for any processes, runs and bounds.
THEOREM LeaseTypeCorrect == LeaseSpec => []LeaseTypeOK
BY InitTyped, TypeStep, PTL DEF LeaseSpec

-----------------------------------------------------------------------------
(* Roles                                                                   *)

\* A part of a process: its worker of a run, or one of its passes.
Part == Pass \cup {"work"}
Role(p, j, r) == IF j = "work" THEN Works(p, r) ELSE Recovers(p, j, r)

\* Whoever acts as the owner is up, and the lease names its process.
RoleHolds ==
    \A p \in Process : \A j \in Part : \A r \in Run :
        Role(p, j, r) => Alive(p) /\ lease[r].status = "active" /\ lease[r].owner = p

\* A process acts as the owner of a run in one part of it at most.
OneRole ==
    \A p \in Process : \A r \in Run : \A j, k \in Part : Role(p, j, r) /\ Role(p, k, r) => j = k

\* A token is a grant; who has none yet has token 0, which owns nothing.
Tokens ==
    /\ \A p \in Process : \A r \in Run :
          work[p][r].at \in {"idle", "accepted"} => work[p][r].token = 0
    /\ \A r \in Run :
          lease[r].status = "active" =>
             lease[r].token # 0 /\ lease[r].owner \in Process /\ proc[lease[r].owner] # "new"
    /\ \A p \in Process : timer[p] = None => pass[p]["events"].at = "off"

LeaseInv == LeaseTypeOK /\ RoleHolds /\ OneRole /\ Tokens

LEMMA RolesAre ==
    ASSUME NEW p \in Process, NEW r \in Run, NEW j
    PROVE  j \in Roles(p, r) <=> j \in Part /\ Role(p, j, r)
BY DEF Roles, Part, Role, Pass

LEMMA OneOwnerFollows == RoleHolds /\ OneRole => OneOwner
BY RolesAre DEF RoleHolds, OneRole, OneOwner

\* A run on which somebody acts has a lease that is held.
LEMMA RoleIsHeld ==
    ASSUME RoleHolds, NEW r \in Run, ~Held(r)
    PROVE  \A p \in Process : \A j \in Part : ~Role(p, j, r)
BY DEF RoleHolds, Held, OwnerAlive

\* What a step may do to the roles: keep them all, drop one, take one where there
\* was none, or hand one from a part of the process to another.
Keeps(r) ==
    lease'[r].status = lease[r].status /\ lease'[r].owner = lease[r].owner /\ lease'[r].token = lease[r].token
OthersKeep(p, r) ==
    \A q \in Process : \A s \in Run : (q # p \/ s # r) => \A j \in Part : Role(q, j, s)' <=> Role(q, j, s)
Same == \A p \in Process : \A j \in Part : \A r \in Run : Role(p, j, r)' <=> Role(p, j, r)
Kept == Same /\ \A r \in Run : Keeps(r)
Dropped(p, r) ==
    /\ OthersKeep(p, r) /\ \E j \in Part : Role(p, j, r)
    /\ \A j \in Part : ~Role(p, j, r)'
    /\ \A s \in Run : s # r => Keeps(s)
TakenUp(p, r) ==
    /\ OthersKeep(p, r) /\ \A q \in Process : \A j \in Part : ~Role(q, j, r)
    /\ \E j \in Part : \A k \in Part : Role(p, k, r)' => k = j
    /\ Alive(p) /\ lease'[r].status = "active" /\ lease'[r].owner = p
    /\ \A s \in Run : s # r => Keeps(s)
Handed(p, r) ==
    /\ OthersKeep(p, r) /\ \E j \in Part : Role(p, j, r)
    /\ \E j \in Part : \A k \in Part : Role(p, k, r)' => k = j
    /\ \A s \in Run : Keeps(s)
Crashed(p) ==
    /\ \A q \in Process : \A j \in Part : \A r \in Run : Role(q, j, r)' <=> q # p /\ Role(q, j, r)
    /\ \A q \in Process : q # p => (Alive(q)' <=> Alive(q))
    /\ \A r \in Run : Keeps(r)
OnRun(p, r) == Dropped(p, r) \/ TakenUp(p, r) \/ Handed(p, r)

\* Any of these keeps the roles exclusive and held.
LEMMA RolesStep ==
    ASSUME RoleHolds, OneRole,
           \/ /\ \A p \in Process : Alive(p) => Alive(p)'
              /\ Kept \/ \E p \in Process : \E r \in Run : OnRun(p, r)
           \/ \E p \in Process : Crashed(p)
    PROVE  RoleHolds' /\ OneRole'
<1>1. CASE Kept /\ \A p \in Process : Alive(p) => Alive(p)'
    BY <1>1 DEF RoleHolds, OneRole, Kept, Same, Keeps
<1>2. ASSUME NEW p \in Process, NEW r \in Run, OnRun(p, r), \A q \in Process : Alive(q) => Alive(q)'
      PROVE  RoleHolds' /\ OneRole'
    <2>1. OthersKeep(p, r) /\ \A s \in Run : s # r => Keeps(s)
        BY <1>2 DEF OnRun, Dropped, TakenUp, Handed
    <2>2. \A j, k \in Part : Role(p, j, r)' /\ Role(p, k, r)' => j = k
        BY <1>2 DEF OnRun, Dropped, TakenUp, Handed
    <2>3. OneRole'
        BY <2>1, <2>2 DEF OneRole, OthersKeep
    <2>4. ASSUME NEW q \in Process, NEW j \in Part, Role(q, j, r)'
          PROVE  Alive(q)' /\ lease'[r].status = "active" /\ lease'[r].owner = q
        <3>1. CASE Dropped(p, r)
            <4>1. q # p /\ Role(q, j, r)
                BY <2>1, <2>4, <3>1 DEF Dropped, OthersKeep
            <4> QED BY <3>1, <4>1 DEF Dropped, RoleHolds
        <3>2. CASE TakenUp(p, r)
            BY <1>2, <2>1, <2>4, <3>2 DEF TakenUp, OthersKeep
        <3>3. CASE Handed(p, r)
            BY <1>2, <2>1, <2>4, <3>3 DEF Handed, OthersKeep, RoleHolds, Keeps
        <3> QED BY <1>2, <3>1, <3>2, <3>3 DEF OnRun
    <2>5. RoleHolds'
        BY <1>2, <2>1, <2>4 DEF RoleHolds, OthersKeep, Keeps
    <2> QED BY <2>3, <2>5
<1>3. ASSUME NEW p \in Process, Crashed(p)
      PROVE  RoleHolds' /\ OneRole'
    BY <1>3 DEF Crashed, RoleHolds, OneRole, Keeps
<1> QED
    BY <1>1, <1>2, <1>3

-----------------------------------------------------------------------------
(* What the steps do to the roles                                          *)

LEMMA WorkerFrame ==
    ASSUME ProcessesTyped, NEW p \in Process, NEW r \in Run, NEW w,
           work' = [work EXCEPT ![p][r] = w], UNCHANGED pass
    PROVE  /\ OthersKeep(p, r)
           /\ \A k \in Pass : Role(p, k, r)' <=> Role(p, k, r)
           /\ Role(p, "work", r)' <=> w.at \in {"working", "lost"} \/ (w.at # "idle" /\ w.token # 0)
BY DEF ProcessesTyped, OthersKeep, Role, Part, Pass, Works, Recovers

LEMMA PassFrame ==
    ASSUME ProcessesTyped, NEW p \in Process, NEW k \in Pass, NEW s, Put(p, k, s), UNCHANGED work
    PROVE  /\ \A q \in Process : \A j \in Part : \A r \in Run : (q # p \/ j # k) => (Role(q, j, r)' <=> Role(q, j, r))
           /\ \A r \in Run : Role(p, k, r)' <=> s.run = r /\ s.at \in {"recheck", "decline", "recover", "release", "refused"}
BY DEF ProcessesTyped, Put, Role, Part, Pass, Works, Recovers

LEMMA GrantLease ==
    ASSUME FilesTyped, NEW p \in Process, NEW r \in Run, Grant(p, r)
    PROVE  /\ lease'[r].status = "active" /\ lease'[r].owner = p /\ lease'[r].token = grants + 1
           /\ \A s \in Run : s # r => Keeps(s)
BY DEF FilesTyped, Grant, Keeps

LEMMA ReleaseLease ==
    ASSUME FilesTyped, NEW p, NEW r \in Run, NEW t, Release(p, r, t)
    PROVE  /\ \A s \in Run : s # r => Keeps(s)
           /\ Owns(p, r, t) => lease'[r].status # "active"
           /\ ~Owns(p, r, t) => lease' = lease
BY DEF FilesTyped, Release, Keeps, Released, NoLease

\* The worker of a run takes its role with the lease and drops it when it leaves.
LEMMA WorkStepRoles ==
    ASSUME LeaseInv, NEW p \in Process, NEW r \in Run,
           \/ Accept(p, r) \/ Own(p, r) \/ Boundary(p, r) \/ Renew(p, r) \/ RenewFails(p, r)
           \/ Finish(p, r) \/ Throw(p, r) \/ FinishEarly(p, r) \/ Leave(p, r)
    PROVE  Kept \/ OnRun(p, r)
<1>1. FilesTyped /\ ProcessesTyped /\ RoleHolds /\ OneRole /\ Tokens
    BY TypedParts DEF LeaseInv
<1>2. work[p][r] \in Work /\ Alive(p) /\ "work" \in Part /\ Pass \subseteq Part /\ "work" \notin Pass
    BY <1>1, ActiveIsUp DEF ProcessesTyped, Part, Pass, Accept, Own, Boundary, Renew, RenewFails, Finish, Throw,
                            FinishEarly, Leave, Worker
<1>3. ASSUME NEW w, work' = [work EXCEPT ![p][r] = w], UNCHANGED pass, \A x \in Run : Keeps(x),
             Role(p, "work", r)' => Role(p, "work", r)
      PROVE  Kept \/ OnRun(p, r)
    <2>1. OthersKeep(p, r) /\ \A k \in Pass : Role(p, k, r)' <=> Role(p, k, r)
        BY <1>1, <1>3, WorkerFrame
    <2>2. CASE Role(p, "work", r)' <=> Role(p, "work", r)
        <3>1. Same
            BY <2>1, <2>2 DEF OthersKeep, Same, Part
        <3> QED BY <1>3, <3>1 DEF Kept
    <2>3. CASE Role(p, "work", r) /\ ~Role(p, "work", r)'
        <3>1. \A k \in Pass : ~Role(p, k, r)
            BY <1>1, <1>2, <2>3 DEF OneRole
        <3> QED BY <1>2, <1>3, <2>1, <2>3, <3>1 DEF Dropped, OnRun, Part
    <2> QED BY <1>3, <2>2, <2>3
<1> DEFINE Busy(w) == w.at \in {"working", "lost"} \/ (w.at # "idle" /\ w.token # 0)
<1>4. Role(p, "work", r) <=> Busy(work[p][r])
    BY DEF Role, Works
<1>5. ASSUME NEW to, NEW from, Worker(p, r, from, to), UNCHANGED <<pass, lease>>, to \notin {"working", "lost"},
             work[p][r].at \in {"idle", "accepted"} => work[p][r].token = 0
      PROVE  Kept \/ OnRun(p, r)
    <2> DEFINE w == [work[p][r] EXCEPT !.at = to]
    <2>1. work' = [work EXCEPT ![p][r] = w]
        BY <1>5 DEF Worker
    <2>2. w.at = to /\ w.token = work[p][r].token
        BY <1>2 DEF Work
    <2>3. Role(p, "work", r)' <=> w.at \in {"working", "lost"} \/ (w.at # "idle" /\ w.token # 0)
        BY <1>1, <1>5, <2>1, WorkerFrame
    <2>4. Role(p, "work", r)' => Role(p, "work", r)
        BY <1>4, <1>5, <2>2, <2>3
    <2>5. \A x \in Run : Keeps(x)
        BY <1>5 DEF Keeps
    <2> QED BY <1>3, <1>5, <2>1, <2>4, <2>5
<1>6. CASE Accept(p, r)
    BY <1>1, <1>5, <1>6 DEF Accept, Tokens
<1>7. CASE Own(p, r)
    <2>1. CASE Held(r)
        <3>1. Worker(p, r, {"accepted"}, "failing") /\ UNCHANGED <<pass, lease>> /\ work[p][r].token = 0
            BY <1>1, <1>7, <2>1 DEF Own, Worker, Tokens
        <3> QED BY <1>5, <3>1
    <2>2. CASE ~Held(r)
        <3> DEFINE w == [at |-> "working", token |-> grants + 1]
        <3>1. work' = [work EXCEPT ![p][r] = w] /\ UNCHANGED pass /\ Grant(p, r)
            BY <1>7, <2>2 DEF Own
        <3>2. OthersKeep(p, r) /\ \A k \in Pass : Role(p, k, r)' <=> Role(p, k, r)
            BY <1>1, <3>1, WorkerFrame
        <3>3. \A q \in Process : \A j \in Part : ~Role(q, j, r)
            BY <1>1, <2>2, RoleIsHeld
        <3>4. \A k \in Part : Role(p, k, r)' => k = "work"
            BY <1>2, <3>2, <3>3 DEF Part
        <3>5. /\ lease'[r].status = "active" /\ lease'[r].owner = p
              /\ \A s \in Run : s # r => Keeps(s)
            BY <1>1, <3>1, GrantLease
        <3> QED BY <1>2, <3>2, <3>3, <3>4, <3>5 DEF TakenUp, OnRun
    <2> QED BY <2>1, <2>2
<1>8. CASE Boundary(p, r)
    BY <1>8 DEF Boundary, Kept, Same, Keeps, Role, Works, Recovers
<1>9. CASE Renew(p, r)
    <2>1. \A x \in Run : Keeps(x)
        BY <1>1, <1>9 DEF Renew, Keeps, FilesTyped, Lease, NoLease, Released
    <2>2. Same
        BY <1>9 DEF Renew, Same, Role, Works, Recovers
    <2> QED BY <2>1, <2>2 DEF Kept
<1>10. CASE RenewFails(p, r)
    <2> DEFINE w == [at |-> IF work[p][r].at = "working" THEN "lost" ELSE work[p][r].at, token |-> 0]
    <2>1. work' = [work EXCEPT ![p][r] = w] /\ UNCHANGED <<pass, lease>>
        BY <1>10 DEF RenewFails
    <2>2. Role(p, "work", r)' <=> w.at \in {"working", "lost"} \/ (w.at # "idle" /\ w.token # 0)
        BY <1>1, <2>1, WorkerFrame
    <2>3. Role(p, "work", r)' => Role(p, "work", r)
        BY <1>4, <1>10, <2>2 DEF RenewFails
    <2>4. \A x \in Run : Keeps(x)
        BY <2>1 DEF Keeps
    <2> HIDE DEF w
    <2> QED BY <1>3, <2>1, <2>3, <2>4
<1>11. CASE Finish(p, r) \/ Throw(p, r) \/ FinishEarly(p, r)
    BY <1>1, <1>5, <1>11 DEF Finish, Throw, FinishEarly, Tokens
<1>12. CASE Leave(p, r)
    <2>1. work' = [work EXCEPT ![p][r] = Idle] /\ UNCHANGED pass
        BY <1>12 DEF Leave
    <2>2. OthersKeep(p, r) /\ (\A k \in Pass : Role(p, k, r)' <=> Role(p, k, r)) /\ ~Role(p, "work", r)'
        <3>1. /\ OthersKeep(p, r) /\ \A k \in Pass : Role(p, k, r)' <=> Role(p, k, r)
              /\ Role(p, "work", r)' <=> Busy(Idle)
            BY <1>1, <2>1, WorkerFrame
        <3> QED BY <3>1 DEF Idle
    <2>3. CASE Role(p, "work", r)
        <3>1. \A k \in Pass : ~Role(p, k, r)
            BY <1>1, <1>2, <2>3 DEF OneRole
        <3>2. \A s \in Run : s # r => Keeps(s)
            BY <1>1, <1>12, ReleaseLease DEF Leave, Keeps
        <3> QED BY <1>2, <2>2, <2>3, <3>1, <3>2 DEF Dropped, OnRun, Part
    <2>4. CASE ~Role(p, "work", r)
        <3>1. work[p][r].token = 0
            BY <1>4, <1>12, <2>4 DEF Leave
        <3>2. ~Owns(p, r, work[p][r].token)
            BY <1>1, <3>1 DEF Owns, Tokens
        <3>3. UNCHANGED lease
            BY <1>1, <1>12, <3>2, ReleaseLease DEF Leave
        <3>4. \A x \in Run : Keeps(x)
            BY <3>3 DEF Keeps
        <3> QED BY <1>3, <2>1, <2>2, <3>4
    <2> QED BY <2>3, <2>4
<1> QED
    BY <1>6, <1>7, <1>8, <1>9, <1>10, <1>11, <1>12

\* Listing, filtering, picking and going on neither take nor drop a role.
Acting == {"recheck", "decline", "recover", "release", "refused"}

LEMMA PassGoesOn ==
    ASSUME ProcessesTyped, NEW p \in Process, NEW k \in Pass,
           List(p, k) \/ PickRun(p, k) \/ Resumed(p, k) \/ (k = "events" /\ Filter(p))
    PROVE  /\ UNCHANGED <<work, lease>> /\ pass[p][k].at \notin Acting
           /\ \E s : Put(p, k, s) /\ s.at \notin Acting
<1> DEFINE s0 == pass[p][k]
<1> USE DEF Acting
<1>1. UNCHANGED <<work, lease>> /\ s0.at \notin Acting
    BY DEF List, PickRun, Resumed, Filter, At
<1>2. s0 \in PassState
    BY DEF ProcessesTyped
<1>3. /\ \A left : [s0 EXCEPT !.at = "next", !.todo = left].at = "next"
      /\ \A left : [s0 EXCEPT !.at = "filter", !.todo = left].at = "filter"
      /\ \A left : [s0 EXCEPT !.todo = left].at = s0.at
      /\ \A left, r, at : [s0 EXCEPT !.todo = left, !.run = r, !.at = at].at = at
      /\ [s0 EXCEPT !.at = "next", !.run = None].at = "next"
    BY <1>2 DEF PassState
<1>4. CASE List(p, k) \/ (k = "events" /\ Filter(p))
    <2>1. \E left : \/ Put(p, k, [s0 EXCEPT !.at = "next", !.todo = left])
                    \/ Put(p, k, [s0 EXCEPT !.at = "filter", !.todo = left])
        BY <1>4 DEF List, Filter
    <2> QED BY <1>1, <1>3, <2>1
<1>5. CASE PickRun(p, k)
    <2>1. \/ \E left : Put(p, k, [s0 EXCEPT !.todo = left])
          \/ \E left, r, at : Put(p, k, [s0 EXCEPT !.todo = left, !.run = r, !.at = at]) /\ at \in {"segment", "acquire"}
        BY <1>5 DEF PickRun
    <2>2. ASSUME NEW left, Put(p, k, [s0 EXCEPT !.todo = left])
          PROVE  \E s : Put(p, k, s) /\ s.at \notin Acting
        <3>1. [s0 EXCEPT !.todo = left].at \notin Acting
            BY <1>1, <1>3
        <3> QED BY <2>2, <3>1
    <2>3. ASSUME NEW left, NEW r, NEW at, at \in {"segment", "acquire"},
                 Put(p, k, [s0 EXCEPT !.todo = left, !.run = r, !.at = at])
          PROVE  \E s : Put(p, k, s) /\ s.at \notin Acting
        <3>1. [s0 EXCEPT !.todo = left, !.run = r, !.at = at].at \notin Acting
            BY <1>3, <2>3
        <3> QED BY <2>3, <3>1
    <2> QED BY <1>1, <2>1, <2>2, <2>3
<1>6. CASE Resumed(p, k)
    BY <1>1, <1>3, <1>6 DEF Resumed, GoOn
<1> QED BY <1>4, <1>5, <1>6

\* A pass takes its role with the lease, hands it to the worker of the run it
\* resumes, or drops it with the release.
LEMMA PassStepRoles ==
    ASSUME LeaseInv, NEW p \in Process, NEW k \in Pass,
           PassStep(p, k) \/ (k = "events" /\ Filter(p))
    PROVE  Kept \/ \E r \in Run : OnRun(p, r)
<1>1. FilesTyped /\ ProcessesTyped /\ RoleHolds /\ OneRole /\ Tokens
    BY TypedParts DEF LeaseInv
<1> DEFINE s0 == pass[p][k]
<1> USE DEF Acting
<1>2. Alive(p) /\ k \in Part /\ k # "work" /\ "work" \in Part
    BY <1>1, ActiveIsUp DEF Part, Pass, PassStep, Filter, List, PickRun, Claim, Recheck, Decline, Resumed, Recover,
                            ReleaseRecovered, Done, At
<1>3. s0 \in PassState /\ HasRun(s0)
    BY <1>1 DEF ProcessesTyped
<1>4. \A r \in Run : Role(p, k, r) <=> s0.run = r /\ s0.at \in Acting
    BY <1>2 DEF Role, Recovers
<1>5. ASSUME NEW s, Put(p, k, s), UNCHANGED <<work, lease>>, s.at \in Acting => s0.at \in Acting,
             s0.at \in Acting => s.at \in Acting, s.at \in Acting => s.run = s0.run
      PROVE  Kept
    <2>1. Same
        BY <1>1, <1>4, <1>5, PassFrame DEF Same
    <2> QED BY <1>5, <2>1 DEF Kept, Keeps
<1>6. ASSUME NEW r \in Run, r = s0.run, Grant(p, r), ~Held(r), NEW s, Put(p, k, s), UNCHANGED work,
             s.run = r, s0.at \notin Acting
      PROVE  OnRun(p, r)
    <2>1. OthersKeep(p, r)
        BY <1>1, <1>4, <1>6, PassFrame DEF OthersKeep
    <2>2. \A q \in Process : \A j \in Part : ~Role(q, j, r)
        BY <1>1, <1>6, RoleIsHeld
    <2>3. \A j \in Part : Role(p, j, r)' => j = k
        <3>1. \A j \in Part : j # k => (Role(p, j, r)' <=> Role(p, j, r))
            BY <1>1, <1>6, PassFrame
        <3> QED BY <2>2, <3>1
    <2>4. /\ lease'[r].status = "active" /\ lease'[r].owner = p
          /\ \A x \in Run : x # r => Keeps(x)
        BY <1>1, <1>6, GrantLease
    <2> QED BY <1>2, <2>1, <2>2, <2>3, <2>4 DEF TakenUp, OnRun
<1>7. ASSUME NEW r \in Run, r = s0.run, s0.at \in Acting, NEW s, Put(p, k, s), UNCHANGED work, s.at \notin Acting,
             \A x \in Run : x # r => Keeps(x)
      PROVE  OnRun(p, r)
    <2>1. Role(p, k, r)
        BY <1>4, <1>7
    <2>2. OthersKeep(p, r)
        BY <1>1, <1>4, <1>7, PassFrame DEF OthersKeep
    <2>3. \A j \in Part : ~Role(p, j, r)'
        <3>1. /\ \A j \in Part : j # k => (Role(p, j, r)' <=> Role(p, j, r))
              /\ ~Role(p, k, r)'
            BY <1>1, <1>7, PassFrame
        <3>2. \A j \in Part : j # k => ~Role(p, j, r)
            BY <1>1, <1>2, <1>7, <2>1 DEF OneRole
        <3> QED BY <3>1, <3>2
    <2> QED BY <1>2, <1>7, <2>1, <2>2, <2>3 DEF Dropped, OnRun
<1>8. CASE List(p, k) \/ PickRun(p, k) \/ Resumed(p, k) \/ (k = "events" /\ Filter(p))
    BY <1>1, <1>5, <1>8, PassGoesOn
<1>9. CASE Claim(p, k)
    <2>1. s0.run \in Run /\ s0.at \notin Acting
        BY <1>3, <1>9 DEF Claim, At, HasRun, PassState
    <2>2. CASE Held(s0.run)
        <3> DEFINE s == [s0 EXCEPT !.at = "next", !.run = None]
        <3>1. Put(p, k, s) /\ UNCHANGED <<work, lease>>
            BY <1>9, <2>2 DEF Claim, GoOn
        <3>2. s.at = "next"
            BY <1>3 DEF PassState
        <3> HIDE DEF s
        <3> QED BY <1>5, <2>1, <3>1, <3>2
    <2>3. CASE ~Held(s0.run)
        <3> DEFINE s == [s0 EXCEPT !.token = grants + 1, !.at = IF @ = "segment" THEN "recheck" ELSE "recover"]
        <3>1. Put(p, k, s) /\ Grant(p, s0.run) /\ UNCHANGED work
            BY <1>9, <2>3 DEF Claim
        <3>2. s.run = s0.run
            BY <1>3 DEF PassState
        <3> HIDE DEF s
        <3> QED BY <1>6, <2>1, <2>3, <3>1, <3>2
    <2> QED BY <2>2, <2>3
<1>10. CASE Recheck(p, k)
    <2>0. PICK r \in Run : r = s0.run
        BY <1>3, <1>10 DEF Recheck, At, HasRun, PassState
    <2>1. s0.at \in Acting /\ UNCHANGED lease
        BY <1>3, <1>10 DEF Recheck, At, HasRun, PassState
    <2>2. CASE Goto(p, k, "decline") /\ UNCHANGED work
        <3> DEFINE s == [s0 EXCEPT !.at = "decline"]
        <3>1. s.at = "decline" /\ s.run = s0.run /\ Put(p, k, s)
            BY <1>3, <2>2 DEF PassState, Goto
        <3> HIDE DEF s
        <3> QED BY <1>5, <2>1, <2>2, <3>1
    <2>3. CASE Goto(p, k, "run") /\ work' = [work EXCEPT ![p][r] = [at |-> "working", token |-> s0.token]]
        <3> DEFINE s == [s0 EXCEPT !.at = "run"]
        <3>1. Put(p, k, s) /\ s.at = "run"
            BY <1>3, <2>3 DEF PassState, Goto
        <3> HIDE DEF s
        <3>2. Role(p, k, r) /\ \A j \in Part : j # k => ~Role(p, j, r)
            BY <1>1, <1>2, <1>4, <2>0, <2>1 DEF OneRole
        <3>3. OthersKeep(p, r)
            BY <1>1, <1>4, <2>0, <2>1, <2>3, <3>1 DEF OthersKeep, Put, Role, Works, Recovers, Part, Pass, ProcessesTyped
        <3>4. \A j \in Pass : Role(p, j, r)' => Role(p, j, r) /\ j # k
            <4>1. \A j \in Pass : pass'[p][j] = IF j = k THEN s ELSE pass[p][j]
                BY <1>1, <3>1 DEF Put, ProcessesTyped
            <4>2. s.at \notin Acting
                BY <3>1
            <4> QED BY <4>1, <4>2 DEF Role, Recovers, Pass
        <3>5. \A j \in Part : Role(p, j, r)' => j = "work"
            BY <3>2, <3>4 DEF Part
        <3>6. \A x \in Run : Keeps(x)
            BY <2>1 DEF Keeps
        <3>7. Handed(p, r)
            BY <1>2, <3>2, <3>3, <3>5, <3>6 DEF Handed
        <3> QED BY <2>1, <3>7 DEF OnRun
    <2> QED BY <1>10, <2>0, <2>2, <2>3 DEF Recheck
<1>11. CASE Recover(p, k)
    <2>0. PICK at \in {"release", "refused"} : Goto(p, k, at)
        BY <1>11 DEF Recover
    <2> DEFINE s == [s0 EXCEPT !.at = at]
    <2>1. s.at \in Acting /\ s.run = s0.run /\ Put(p, k, s) /\ s0.at \in Acting /\ UNCHANGED <<work, lease>>
        BY <1>3, <1>11, <2>0 DEF PassState, Recover, Goto, At
    <2> HIDE DEF s
    <2> QED BY <1>5, <2>1
<1>12. CASE Decline(p, k) \/ ReleaseRecovered(p, k)
    <2>0. PICK r \in Run : r = s0.run
        BY <1>3, <1>12 DEF Decline, ReleaseRecovered, At, HasRun, PassState
    <2>1. s0.at \in Acting /\ UNCHANGED work
        BY <1>3, <1>12 DEF Decline, ReleaseRecovered, At, HasRun, PassState
    <2>2. \A x \in Run : x # r => Keeps(x)
        BY <1>1, <1>12, <2>0, ReleaseLease DEF Decline, ReleaseRecovered, Keeps
    <2>3. [s0 EXCEPT !.at = "next", !.run = None].at = "next" /\ [s0 EXCEPT !.at = "acquire"].at = "acquire"
        BY <1>3 DEF PassState
    <2>4. PICK s : Put(p, k, s) /\ s.at \notin Acting
        BY <1>12, <2>3 DEF Decline, ReleaseRecovered, Goto, GoOn
    <2> QED BY <1>7, <2>0, <2>1, <2>2, <2>4
<1>13. CASE Done(p, k)
    <2>1. s0.at \notin Acting /\ UNCHANGED <<work, lease>>
        BY <1>13 DEF Done, At
    <2>2. CASE k = "queue" /\ timer[p] = None
        <3> DEFINE f == [queue |-> NoPass, events |-> [NoPass EXCEPT !.at = "list"]]
        <3>1. pass' = [pass EXCEPT ![p] = f]
            BY <1>13, <2>2 DEF Done
        <3>2. pass[p]["queue"].at \notin Acting /\ pass[p]["events"].at \notin Acting
            BY <1>1, <2>1, <2>2 DEF Tokens
        <3>3. f["queue"].at \notin Acting /\ f["events"].at \notin Acting
            BY DEF NoPass
        <3> HIDE DEF f
        <3>4. Same
            BY <1>1, <2>1, <3>1, <3>2, <3>3 DEF Same, Role, Works, Recovers, Part, Pass, ProcessesTyped
        <3> QED BY <2>1, <3>4 DEF Kept, Keeps
    <2>3. CASE ~(k = "queue" /\ timer[p] = None)
        <3>1. Put(p, k, NoPass) /\ NoPass.at = "off"
            BY <1>13, <2>3 DEF Done, NoPass
        <3> QED BY <1>5, <2>1, <3>1
    <2> QED BY <2>2, <2>3
<1> QED
    BY <1>3, <1>8, <1>9, <1>10, <1>11, <1>12, <1>13 DEF PassStep, Claim, Decline, ReleaseRecovered, Recheck, At, HasRun, PassState

-----------------------------------------------------------------------------
(* One owner                                                               *)

\* What any step does to the roles.
LEMMA StepRoles ==
    ASSUME LeaseInv, [LeaseNext]_leaseVars
    PROVE  \/ /\ \A p \in Process : Alive(p) => Alive(p)'
              /\ Kept \/ \E p \in Process : \E r \in Run : OnRun(p, r)
           \/ \E p \in Process : Crashed(p)
<1>1. FilesTyped /\ ProcessesTyped
    BY TypedParts DEF LeaseInv
<1>2. CASE UNCHANGED leaseVars \/ TimePasses
    BY <1>2 DEF leaseVars, TimePasses, Kept, Same, Keeps, Role, Works, Recovers, Alive
<1>3. ASSUME NEW p \in Process, Boot(p) \/ WakeUp(p)
      PROVE  Kept /\ \A q \in Process : Alive(q) => Alive(q)'
    <2>1. pass[p]["queue"] \in PassState /\ pass[p]["queue"].at = "off"
        BY <1>1, <1>3 DEF Boot, WakeUp, At, ProcessesTyped, NoPass, Pass
    <2> DEFINE s == [pass[p]["queue"] EXCEPT !.at = "list"]
    <2>2. s.at = "list"
        BY <2>1 DEF PassState
    <2>3. Put(p, "queue", s) /\ UNCHANGED <<work, lease>> /\ (UNCHANGED proc \/ proc' = [proc EXCEPT ![p] = "up"])
        BY <1>3 DEF Boot, WakeUp, Goto
    <2> HIDE DEF s
    <2>4. Same
        BY <1>1, <2>1, <2>2, <2>3 DEF Put, Same, Role, Works, Recovers, Part, Pass, ProcessesTyped
    <2> QED BY <1>1, <2>3, <2>4 DEF Kept, Keeps, Alive, ProcessesTyped
<1>4. ASSUME NEW p \in Process, Crash(p)
      PROVE  Crashed(p)
    <2>1. \A q \in Process : q # p => work'[q] = work[q] /\ pass'[q] = pass[q] /\ proc'[q] = proc[q]
        BY <1>1, <1>4 DEF Crash, ProcessesTyped
    <2>2. (\A r \in Run : work'[p][r].at = "idle") /\ \A k \in Pass : pass'[p][k].at = "off"
        BY <1>1, <1>4 DEF Crash, ProcessesTyped, Idle, NoPass
    <2>3. \A q \in Process : \A j \in Part : \A r \in Run : Role(q, j, r)' <=> q # p /\ Role(q, j, r)
        BY <2>1, <2>2 DEF Role, Works, Recovers, Part
    <2> QED BY <1>4, <2>1, <2>3 DEF Crash, Crashed, Keeps, Alive
<1>5. ASSUME NEW p \in Process, NEW r \in Run,
             Accept(p, r) \/ Boundary(p, r) \/ Renew(p, r) \/ RenewFails(p, r) \/ Throw(p, r) \/ RunStep(p, r)
      PROVE  (Kept \/ OnRun(p, r)) /\ UNCHANGED proc
    BY <1>5, WorkStepRoles
       DEF RunStep, Accept, Own, Boundary, Renew, RenewFails, Finish, Throw, FinishEarly, Leave
<1>6. ASSUME NEW p \in Process, NEW k \in Pass, PassStep(p, k) \/ (k = "events" /\ Filter(p))
      PROVE  (Kept \/ \E r \in Run : OnRun(p, r)) /\ UNCHANGED proc
    <2>1. UNCHANGED proc
        BY <1>6 DEF PassStep, Filter, List, PickRun, Claim, Recheck, Decline, Resumed, Recover, ReleaseRecovered, Done
    <2> QED BY <1>6, <2>1, PassStepRoles
<1>7. ASSUME NEW p \in Process, Filter(p)
      PROVE  (Kept \/ \E r \in Run : OnRun(p, r)) /\ UNCHANGED proc
    BY <1>6, <1>7 DEF Pass
<1> QED
    BY <1>2, <1>3, <1>4, <1>5, <1>6, <1>7 DEF LeaseNext, Alive

LEMMA TokensStep ==
    ASSUME LeaseInv, LeaseTypeOK', [LeaseNext]_leaseVars
    PROVE  Tokens'
<1>1. FilesTyped /\ ProcessesTyped /\ ProcessesTyped' /\ Tokens
    BY TypedParts DEF LeaseInv, LeaseTypeOK, ProcessesTyped, Work, PassState, HasRun
<1> DEFINE Unleased(w) == w.at \in {"idle", "accepted"} => w.token = 0
<1>2. \A p \in Process : \A r \in Run : Unleased(work'[p][r])
    <2>1. CASE UNCHANGED work
        BY <1>1, <2>1 DEF Tokens
    <2>2. ASSUME NEW p \in Process, NEW r \in Run, NEW w, work' = [work EXCEPT ![p][r] = w], Unleased(w)
          PROVE  \A q \in Process : \A s \in Run : Unleased(work'[q][s])
        BY <1>1, <2>2 DEF Tokens, ProcessesTyped
    <2>3. ASSUME NEW p \in Process, NEW r \in Run, NEW from, NEW to, Worker(p, r, from, to), from \subseteq WorkPhase \ {"idle"},
                 to \notin {"idle", "accepted"}
          PROVE  \A q \in Process : \A s \in Run : Unleased(work'[q][s])
        <3> DEFINE w == [work[p][r] EXCEPT !.at = to]
        <3>1. work' = [work EXCEPT ![p][r] = w]
            BY <2>3 DEF Worker
        <3>2. w.at = to
            BY <1>1 DEF ProcessesTyped, Work
        <3> QED BY <2>2, <2>3, <3>1, <3>2
    <2>4. ASSUME NEW p \in Process, NEW r \in Run, Accept(p, r)
          PROVE  \A q \in Process : \A s \in Run : Unleased(work'[q][s])
        <3> DEFINE w == [work[p][r] EXCEPT !.at = "accepted"]
        <3>1. work' = [work EXCEPT ![p][r] = w] /\ work[p][r].at = "idle"
            BY <2>4 DEF Accept, Worker
        <3>2. w.token = 0
            BY <1>1, <3>1 DEF ProcessesTyped, Work, Tokens
        <3> QED BY <2>2, <3>1, <3>2
    <2>5. ASSUME NEW p \in Process, NEW r \in Run, Own(p, r)
          PROVE  \A q \in Process : \A s \in Run : Unleased(work'[q][s])
        <3>1. CASE Held(r)
            <4>1. Worker(p, r, {"accepted"}, "failing")
                BY <2>5, <3>1 DEF Own, Worker
            <4> QED BY <2>3, <4>1 DEF WorkPhase
        <3>2. CASE ~Held(r)
            <4> DEFINE w == [at |-> "working", token |-> grants + 1]
            <4>1. work' = [work EXCEPT ![p][r] = w] /\ w.at = "working"
                BY <2>5, <3>2 DEF Own
            <4> QED BY <2>2, <4>1
        <3> QED BY <3>1, <3>2
    <2>6. ASSUME NEW p \in Process, NEW r \in Run, RenewFails(p, r) \/ Leave(p, r)
          PROVE  \A q \in Process : \A s \in Run : Unleased(work'[q][s])
        <3>1. CASE RenewFails(p, r)
            <4> DEFINE w == [at |-> IF work[p][r].at = "working" THEN "lost" ELSE work[p][r].at, token |-> 0]
            <4>1. work' = [work EXCEPT ![p][r] = w] /\ w.token = 0
                BY <3>1 DEF RenewFails
            <4> QED BY <2>2, <4>1
        <3>2. CASE Leave(p, r)
            <4>1. work' = [work EXCEPT ![p][r] = Idle] /\ Idle.token = 0
                BY <3>2 DEF Leave, Idle
            <4> QED BY <2>2, <4>1
        <3> QED BY <2>6, <3>1, <3>2
    <2>7. ASSUME NEW p \in Process, NEW r \in Run, Finish(p, r) \/ Throw(p, r) \/ FinishEarly(p, r)
          PROVE  \A q \in Process : \A s \in Run : Unleased(work'[q][s])
        <3>1. PICK from, to : Worker(p, r, from, to) /\ from \subseteq WorkPhase \ {"idle"} /\ to \notin {"idle", "accepted"}
            BY <2>7 DEF Finish, Throw, FinishEarly, WorkPhase
        <3> QED BY <2>3, <3>1
    <2>8. ASSUME NEW p \in Process, NEW k \in Pass, Recheck(p, k)
          PROVE  \A q \in Process : \A s \in Run : Unleased(work'[q][s])
        <3>1. PICK r \in Run : r = pass[p][k].run
            BY <1>1, <2>8, RunOfPass DEF Recheck, At
        <3>2. CASE work' = [work EXCEPT ![p][r] = [at |-> "working", token |-> pass[p][k].token]]
            <4> DEFINE w == [at |-> "working", token |-> pass[p][k].token]
            <4>1. work' = [work EXCEPT ![p][r] = w] /\ w.at = "working"
                BY <3>2
            <4> QED BY <2>2, <4>1
        <3> QED BY <2>1, <2>8, <3>1, <3>2 DEF Recheck
    <2>9. ASSUME NEW p \in Process, Crash(p)
          PROVE  \A q \in Process : \A s \in Run : Unleased(work'[q][s])
        BY <1>1, <2>9 DEF Crash, Idle, Tokens, ProcessesTyped
    <2>10. ASSUME NEW p \in Process, NEW k \in Pass, PassStep(p, k)
           PROVE  UNCHANGED work \/ Recheck(p, k)
        BY <2>10 DEF PassStep, List, PickRun, Claim, Decline, Resumed, Recover, ReleaseRecovered, Done
    <2>11. ASSUME NEW p \in Process, NEW r \in Run, Boundary(p, r) \/ Renew(p, r)
           PROVE  UNCHANGED work
        BY <2>11 DEF Boundary, Renew
    <2>12. ASSUME NEW p \in Process, Boot(p) \/ Filter(p) \/ WakeUp(p)
           PROVE  UNCHANGED work
        BY <2>12 DEF Boot, Filter, WakeUp
    <2> HIDE DEF Unleased
    <2> QED
        BY <2>1, <2>4, <2>5, <2>6, <2>7, <2>8, <2>9, <2>10, <2>11, <2>12
           DEF LeaseNext, RunStep, TimePasses, leaseVars
<1> DEFINE Named(l, f) == l.status = "active" => l.token # 0 /\ l.owner \in Process /\ f[l.owner] # "new"
<1>3. \A r \in Run : Named(lease'[r], proc')
    <2>1. \A r \in Run : Named(lease[r], proc)
        BY <1>1 DEF Tokens
    <2>2. CASE UNCHANGED <<lease, proc>>
        BY <2>1, <2>2
    <2>3. ASSUME NEW p \in Process, NEW r \in Run, Grant(p, r), Alive(p), UNCHANGED proc
          PROVE  \A s \in Run : Named(lease'[s], proc')
        <3>1. /\ lease'[r].status = "active" /\ lease'[r].owner = p /\ lease'[r].token = grants + 1
              /\ grants + 1 # 0 /\ \A s \in Run : s # r => lease'[s] = lease[s]
            BY <1>1, <2>3 DEF FilesTyped, Grant, Deadline
        <3> QED BY <2>1, <2>3, <3>1 DEF Alive
    <2>4. ASSUME NEW p, NEW r, NEW t, Release(p, r, t), UNCHANGED proc
          PROVE  \A s \in Run : Named(lease'[s], proc')
        BY <1>1, <2>1, <2>4 DEF Release, FilesTyped, Released, NoLease
    <2>5. ASSUME NEW p \in Process, NEW r \in Run, Renew(p, r)
          PROVE  \A s \in Run : Named(lease'[s], proc')
        <3>1. lease'[r].status = lease[r].status /\ lease'[r].owner = lease[r].owner /\ lease'[r].token = lease[r].token
              /\ UNCHANGED proc /\ \A s \in Run : s # r => lease'[s] = lease[s]
            BY <1>1, <2>5 DEF Renew, FilesTyped, Lease, NoLease, Released
        <3> QED BY <2>1, <3>1
    <2>6. ASSUME NEW p \in Process, Boot(p) \/ Crash(p)
          PROVE  \A s \in Run : Named(lease'[s], proc')
        <3>1. UNCHANGED lease /\ \A q \in Process : proc'[q] # "new" \/ proc'[q] = proc[q]
            BY <1>1, <2>6 DEF Boot, Crash, ProcessesTyped
        <3> QED BY <2>1, <3>1
    <2>7. ASSUME NEW p \in Process, NEW r \in Run, Own(p, r) \/ Leave(p, r)
          PROVE  \A s \in Run : Named(lease'[s], proc')
        <3>1. Alive(p)
            BY <1>1, <2>7, ActiveIsUp DEF Own, Leave
        <3> QED BY <2>2, <2>3, <2>4, <2>7, <3>1 DEF Own, Leave
    <2>8. ASSUME NEW p \in Process, NEW k \in Pass, PassStep(p, k)
          PROVE  \A s \in Run : Named(lease'[s], proc')
        <3>1. CASE Claim(p, k)
            <4>1. Alive(p)
                BY <1>1, <3>1, ActiveIsUp DEF Claim, At
            <4>2. PICK r \in Run : r = pass[p][k].run
                BY <1>1, <3>1, RunOfPass DEF Claim, At
            <4>3. UNCHANGED <<lease, proc>> \/ (Grant(p, r) /\ UNCHANGED proc)
                BY <3>1, <4>2 DEF Claim
            <4> QED BY <2>2, <2>3, <4>1, <4>3
        <3>2. CASE Decline(p, k) \/ ReleaseRecovered(p, k)
            BY <2>2, <2>4, <3>2 DEF Decline, ReleaseRecovered
        <3>3. CASE List(p, k) \/ PickRun(p, k) \/ Recheck(p, k) \/ Resumed(p, k) \/ Recover(p, k) \/ Done(p, k)
            BY <2>2, <3>3 DEF List, PickRun, Recheck, Resumed, Recover, Done
        <3> QED BY <2>8, <3>1, <3>2, <3>3 DEF PassStep
    <2>9. ASSUME NEW p \in Process, NEW r \in Run,
                 \/ Accept(p, r) \/ Boundary(p, r) \/ RenewFails(p, r) \/ Throw(p, r) \/ Finish(p, r) \/ FinishEarly(p, r)
          PROVE  UNCHANGED <<lease, proc>>
        BY <2>9 DEF Accept, Boundary, RenewFails, Throw, Finish, FinishEarly
    <2>10. ASSUME NEW p \in Process, Filter(p) \/ WakeUp(p)
           PROVE  UNCHANGED <<lease, proc>>
        BY <2>10 DEF Filter, WakeUp
    <2> HIDE DEF Named
    <2> QED
        BY <2>2, <2>5, <2>6, <2>7, <2>8, <2>9, <2>10 DEF LeaseNext, RunStep, TimePasses, leaseVars
<1> DEFINE Unarmed(t, f) == t = None => f["events"].at = "off"
<1>4. \A p \in Process : Unarmed(timer'[p], pass'[p])
    <2>1. \A p \in Process : Unarmed(timer[p], pass[p])
        BY <1>1 DEF Tokens
    <2>2. CASE UNCHANGED <<timer, pass>>
        BY <2>1, <2>2
    <2>3. ASSUME NEW p \in Process, NEW k \in Pass, NEW s, Put(p, k, s), UNCHANGED timer,
                 k = "queue" \/ s.at = "off" \/ pass[p][k].at # "off"
          PROVE  \A q \in Process : Unarmed(timer'[q], pass'[q])
        BY <1>1, <2>1, <2>3 DEF Put, ProcessesTyped, Pass
    <2>4. ASSUME NEW p \in Process, Boot(p)
          PROVE  \A q \in Process : Unarmed(timer'[q], pass'[q])
        BY <2>3, <2>4 DEF Boot, Goto, Pass
    <2>5. ASSUME NEW p \in Process, Crash(p)
          PROVE  \A q \in Process : Unarmed(timer'[q], pass'[q])
        BY <1>1, <2>1, <2>5 DEF Crash, NoPass, Pass, ProcessesTyped
    <2>6. ASSUME NEW p \in Process, WakeUp(p)
          PROVE  \A q \in Process : Unarmed(timer'[q], pass'[q])
        BY <1>1, <2>1, <2>6 DEF WakeUp, Goto, Put, ProcessesTyped, Pass
    <2>7. ASSUME NEW p \in Process, NEW k \in Pass, PassStep(p, k) \/ (k = "events" /\ Filter(p))
          PROVE  \A q \in Process : Unarmed(timer'[q], pass'[q])
        <3>1. pass[p][k].at # "off"
            BY <2>7 DEF PassStep, Filter, List, PickRun, Claim, Recheck, Decline, Resumed, Recover, ReleaseRecovered, Done, At
        <3>2. CASE List(p, k) \/ PickRun(p, k) \/ Claim(p, k) \/ (k = "events" /\ Filter(p))
            <4>1. PICK s : Put(p, k, s) /\ UNCHANGED timer
                BY <3>2 DEF List, PickRun, Claim, Filter, GoOn
            <4> QED BY <2>3, <3>1, <4>1
        <3>3. CASE Recheck(p, k) \/ Decline(p, k) \/ Resumed(p, k) \/ Recover(p, k) \/ ReleaseRecovered(p, k)
            <4>1. PICK s : Put(p, k, s) /\ UNCHANGED timer
                BY <3>3 DEF Recheck, Decline, Resumed, Recover, ReleaseRecovered, GoOn, Goto
            <4> QED BY <2>3, <3>1, <4>1
        <3>4. CASE Done(p, k)
            <4>1. CASE k = "queue" /\ timer[p] = None
                <5> DEFINE t == IF ToCome = {} THEN 0 ELSE First(ToCome)
                <5>1. t # None
                    BY <1>1, FirstIsDeadline DEF Deadline
                <5> HIDE DEF t
                <5>2. timer' = [timer EXCEPT ![p] = t]
                      /\ \A q \in Process : q # p => pass'[q] = pass[q]
                    BY <1>1, <3>4, <4>1 DEF Done, t, ProcessesTyped
                <5> QED BY <1>1, <2>1, <5>1, <5>2 DEF ProcessesTyped
            <4>2. CASE ~(k = "queue" /\ timer[p] = None)
                BY <2>3, <3>1, <3>4, <4>2 DEF Done
            <4> QED BY <4>1, <4>2
        <3> QED BY <2>7, <3>2, <3>3, <3>4 DEF PassStep
    <2>8. ASSUME NEW p \in Process, NEW r \in Run,
                 Accept(p, r) \/ Boundary(p, r) \/ Renew(p, r) \/ RenewFails(p, r) \/ Throw(p, r) \/ RunStep(p, r)
          PROVE  UNCHANGED <<timer, pass>>
        BY <2>8 DEF RunStep, Accept, Own, Boundary, Renew, RenewFails, Finish, Throw, FinishEarly, Leave
    <2>9. ASSUME NEW p \in Process, Filter(p)
          PROVE  \A q \in Process : Unarmed(timer'[q], pass'[q])
        BY <2>7, <2>9 DEF Pass
    <2> HIDE DEF Unarmed
    <2> QED
        BY <2>2, <2>4, <2>5, <2>6, <2>7, <2>8, <2>9 DEF LeaseNext, TimePasses, leaseVars
<1> QED BY <1>2, <1>3, <1>4 DEF Tokens

LEMMA InitRoles == LeaseInit => RoleHolds /\ OneRole /\ Tokens
BY DEF LeaseInit, RoleHolds, OneRole, Tokens, Role, Works, Recovers, Part, Pass, Idle, NoPass, NoLease

LEMMA LeaseInvStep ==
    ASSUME LeaseInv, [LeaseNext]_leaseVars
    PROVE  LeaseInv'
<1>1. LeaseTypeOK'
    BY TypeStep DEF LeaseInv
<1>2. Tokens'
    BY <1>1, TokensStep
<1>3. RoleHolds' /\ OneRole'
    BY StepRoles, RolesStep DEF LeaseInv
<1> QED BY <1>1, <1>2, <1>3 DEF LeaseInv

\* Leases, roles and tokens agree, for any processes, runs, faults and bounds.
LEMMA LeaseInvariant == LeaseSpec => []LeaseInv
<1>1. LeaseInit => LeaseInv
    BY InitTyped, InitRoles DEF LeaseInv
<1> QED BY <1>1, LeaseInvStep, PTL DEF LeaseSpec

\* A run has one owner at a time, whatever fails and whoever dies.
THEOREM RunHasOneOwner == LeaseSpec => []OneOwner
<1>1. LeaseInv => OneOwner
    BY OneOwnerFollows DEF LeaseInv
<1> QED BY <1>1, LeaseInvariant, PTL

-----------------------------------------------------------------------------
(* The abstract specification                                              *)

OwnersOf == [r \in Run |-> Owners(r)]

LEMMA OwnersAre ==
    ASSUME NEW p \in Process, NEW r \in Run
    PROVE  p \in Owners(r) <=> \E j \in Part : Role(p, j, r)
BY RolesAre DEF Owners

\* An exclusive owner who is the only one to come or go takes the run or gives it up.
LEMMA OwnershipStep ==
    ASSUME LeaseInv, LeaseInv', [LeaseNext]_leaseVars
    PROVE  [Abs!Next]_OwnersOf
<1>1. (\A r \in Run : Owners(r) \subseteq Process) /\ \A r \in Run : Owners(r)' \subseteq Process
    BY DEF Owners
<1>2. \A r \in Run : \A p, q \in Process : p \in Owners(r) /\ q \in Owners(r) => p = q
    BY OwnersAre DEF LeaseInv, RoleHolds
<1>3. \A r \in Run : \A p, q \in Process : p \in Owners(r)' /\ q \in Owners(r)' => p = q
    <2>1. \A r \in Run : \A p \in Process : p \in Owners(r)' <=> \E j \in Part : Role(p, j, r)'
        BY RolesAre DEF Owners, Roles, Role, Part, Pass, Works, Recovers
    <2> QED BY <2>1 DEF LeaseInv, RoleHolds
<1>4. \A r \in Run : \A p \in Process : p \in Owners(r)' <=> \E j \in Part : Role(p, j, r)'
    BY RolesAre DEF Owners, Roles, Role, Part, Pass, Works, Recovers
<1>5. CASE Kept
    <2>1. \A r \in Run : Owners(r)' = Owners(r)
        BY <1>1, <1>4, <1>5, OwnersAre DEF Kept, Same
    <2> QED BY <2>1 DEF OwnersOf
<1>6. ASSUME NEW p \in Process, NEW r \in Run, OnRun(p, r)
      PROVE  [Abs!Next]_OwnersOf
    <2>1. OthersKeep(p, r)
        BY <1>6 DEF OnRun, Dropped, TakenUp, Handed
    <2>2. \A q \in Process : \A s \in Run : (q # p \/ s # r) => (q \in Owners(s)' <=> q \in Owners(s))
        BY <1>4, <2>1, OwnersAre DEF OthersKeep
    <2>3. \A s \in Run : s # r => Owners(s)' = Owners(s)
        BY <1>1, <2>2
    <2>4. CASE p \in Owners(r)' <=> p \in Owners(r)
        <3>1. Owners(r)' = Owners(r)
            BY <1>1, <2>2, <2>4
        <3> QED BY <2>3, <3>1 DEF OwnersOf
    <2>5. CASE p \in Owners(r)' /\ p \notin Owners(r)
        <3>1. Owners(r) = {} /\ Owners(r)' = {p}
            BY <1>1, <1>3, <2>2, <2>5
        <3>2. Abs!Take(p, r)
            BY <2>3, <3>1 DEF Abs!Take, OwnersOf
        <3> QED BY <3>2 DEF Abs!Next
    <2>6. CASE p \notin Owners(r)' /\ p \in Owners(r)
        <3>1. Owners(r) = {p} /\ Owners(r)' = {}
            BY <1>1, <1>2, <2>2, <2>6
        <3>2. Abs!GiveUp(p, r)
            BY <2>3, <3>1 DEF Abs!GiveUp, OwnersOf
        <3> QED BY <3>2 DEF Abs!Next
    <2> QED BY <2>4, <2>5, <2>6
<1>7. ASSUME NEW p \in Process, Crashed(p)
      PROVE  [Abs!Next]_OwnersOf
    <2>1. \A r \in Run : Owners(r)' = Owners(r) \ {p}
        BY <1>1, <1>4, <1>7, OwnersAre DEF Crashed
    <2>2. Abs!Die(p)
        BY <2>1 DEF Abs!Die, OwnersOf
    <2> QED BY <2>2 DEF Abs!Next
<1> QED
    BY <1>5, <1>6, <1>7, StepRoles

\* Lease, heartbeat, takeover and recovery implement an exclusive ownership of runs.
THEOREM LeaseImplementsOwnership == LeaseSpec => LeaseOwnership
<1>1. LeaseInit => Abs!Init
    BY InitRoles, OwnersAre DEF Abs!Init, LeaseInit, Owners, Roles, Works, Recovers, Idle, NoPass
<1>2. LeaseInv /\ LeaseInv' /\ [LeaseNext]_leaseVars => [Abs!Next]_OwnersOf
    BY OwnershipStep
<1> QED BY <1>1, <1>2, LeaseInvariant, PTL DEF LeaseSpec, LeaseOwnership, Abs!Spec, OwnersOf

-----------------------------------------------------------------------------
(* An owner is at work                                                     *)

TokenOf(p, j, r) == IF j = "work" THEN work[p][r].token ELSE pass[p][j].token

\* While nothing has failed, no heartbeat has given up, who acts knows the token of
\* the lease, and a lease that names a live process belongs to one that acts.
Unlost == \A p \in Process : \A r \in Run : work[p][r].at # "lost"
Known == \A p \in Process : \A j \in Part : \A r \in Run : Role(p, j, r) => TokenOf(p, j, r) = lease[r].token
Used == \A p \in Process : \A r \in Run :
    lease[r].status = "active" /\ lease[r].owner = p /\ Alive(p) => \E j \in Part : Role(p, j, r)
Unfailing == faults = 0 => Unlost /\ Known /\ Used

LEMMA FaultsGrow ==
    ASSUME LeaseTypeOK, [LeaseNext]_leaseVars, faults' = 0
    PROVE  faults = 0
<1> USE DEF bounds
<1>1. faults \in Nat
    BY DEF LeaseTypeOK
<1>2. ASSUME NEW p \in Process, NEW r \in Run,
             Accept(p, r) \/ Boundary(p, r) \/ Renew(p, r) \/ RenewFails(p, r) \/ Throw(p, r) \/ RunStep(p, r)
      PROVE  faults' = faults \/ faults' = faults + 1
    BY <1>2 DEF RunStep, Accept, Own, Boundary, Renew, RenewFails, Finish, Throw, FinishEarly, Leave, Fault
<1>3. ASSUME NEW p \in Process, NEW k \in Pass, PassStep(p, k)
      PROVE  faults' = faults \/ faults' = faults + 1
    BY <1>3 DEF PassStep, List, PickRun, Claim, Recheck, Decline, Resumed, Recover, ReleaseRecovered, Done, Fault
<1>4. ASSUME NEW p \in Process, Boot(p) \/ Crash(p) \/ Filter(p) \/ WakeUp(p)
      PROVE  faults' = faults
    BY <1>4 DEF Boot, Crash, Filter, WakeUp
<1>5. faults' = faults \/ faults' = faults + 1
    BY <1>2, <1>3, <1>4 DEF LeaseNext, TimePasses, leaseVars
<1> QED BY <1>1, <1>5

\* A step on run r of process p keeps these facts when it does so for p and r.
OthersAlike(p, r) ==
    \A q \in Process : \A s \in Run : (q # p \/ s # r) =>
        work'[q][s].at = work[q][s].at /\ \A j \in Part : Role(q, j, s)' => TokenOf(q, j, s)' = TokenOf(q, j, s)

LEMMA UnfailingKept ==
    ASSUME LeaseInv, faults = 0, Unfailing, UNCHANGED proc, NEW p \in Process, NEW r \in Run,
           OthersKeep(p, r), OthersAlike(p, r), \A s \in Run : s # r => Keeps(s),
           work'[p][r].at # "lost",
           \A j \in Part : Role(p, j, r)' => TokenOf(p, j, r)' = lease'[r].token,
           Keeps(r) \/ \A q \in Process : q # p => \A j \in Part : ~Role(q, j, r),
           \/ lease'[r].status # "active"
           \/ lease'[r].owner = p /\ \E j \in Part : Role(p, j, r)'
           \/ Keeps(r) /\ \A j \in Part : Role(p, j, r) => Role(p, j, r)'
    PROVE  Unfailing'
<1>1. Unlost /\ Known /\ Used
    BY DEF Unfailing
<1>2. Unlost'
    BY <1>1 DEF Unlost, OthersAlike
<1>3. ASSUME NEW q \in Process, NEW j \in Part, NEW s \in Run, Role(q, j, s)'
      PROVE  TokenOf(q, j, s)' = lease'[s].token
    <2>1. CASE q = p /\ s = r
        BY <1>3, <2>1
    <2>2. CASE q # p \/ s # r
        <3>1. Role(q, j, s) /\ TokenOf(q, j, s)' = TokenOf(q, j, s)
            BY <1>3, <2>2 DEF OthersKeep, OthersAlike
        <3>2. Keeps(s)
            BY <2>2, <3>1
        <3> QED BY <1>1, <3>1, <3>2 DEF Known, Keeps
    <2> QED BY <2>1, <2>2
<1>4. Known'
    BY <1>3 DEF Known, TokenOf
<1>5. ASSUME NEW q \in Process, NEW s \in Run, lease'[s].status = "active", lease'[s].owner = q, Alive(q)'
      PROVE  \E j \in Part : Role(q, j, s)'
    <2>1. CASE Keeps(s) /\ (s # r \/ \A j \in Part : Role(p, j, r) => Role(p, j, r)')
        <3>1. lease[s].status = "active" /\ lease[s].owner = q /\ Alive(q)
            BY <1>5, <2>1 DEF Keeps, Alive
        <3>2. PICK j \in Part : Role(q, j, s)
            BY <1>1, <3>1 DEF Used
        <3>3. Role(q, j, s)'
            BY <2>1, <3>2 DEF OthersKeep
        <3> QED BY <3>3
    <2>2. CASE s = r /\ lease'[r].owner = p /\ \E j \in Part : Role(p, j, r)'
        BY <1>5, <2>2
    <2> QED BY <1>5, <2>1, <2>2
<1>6. Used'
    BY <1>5 DEF Used
<1> QED BY <1>2, <1>4, <1>6 DEF Unfailing

\* A step that leaves roles, leases and tokens alone.
LEMMA UnfailingSame ==
    ASSUME LeaseInv, faults = 0, Unfailing, Kept, UNCHANGED pass,
           \A p \in Process : \A r \in Run : work'[p][r].at # "lost",
           \A p \in Process : \A r \in Run : Role(p, "work", r) => work'[p][r].token = work[p][r].token,
           \A p \in Process : \A r \in Run :
               Alive(p)' /\ lease[r].status = "active" /\ lease[r].owner = p => Alive(p)
    PROVE  Unfailing'
<1>1. Unlost /\ Known /\ Used
    BY DEF Unfailing
<1>2. Unlost'
    BY DEF Unlost
<1>3. Known'
    BY <1>1 DEF Known, Kept, Same, Keeps, TokenOf
<1>4. Used'
    BY <1>1 DEF Used, Kept, Same, Keeps
<1> QED BY <1>2, <1>3, <1>4 DEF Unfailing

LEMMA WorkStepUnfailing ==
    ASSUME LeaseInv, faults = 0, faults' = 0, Unfailing, NEW p \in Process, NEW r \in Run,
           \/ Accept(p, r) \/ Own(p, r) \/ Boundary(p, r) \/ Renew(p, r) \/ RenewFails(p, r)
           \/ Finish(p, r) \/ Throw(p, r) \/ FinishEarly(p, r) \/ Leave(p, r)
    PROVE  Unfailing'
<1>1. /\ FilesTyped /\ ProcessesTyped /\ RoleHolds /\ OneRole /\ Tokens /\ Unlost /\ Known /\ Used
      /\ UNCHANGED <<proc, pass>>
    BY TypedParts DEF LeaseInv, Unfailing, Accept, Own, Boundary, Renew, RenewFails, Finish, Throw, FinishEarly, Leave
<1>2. work[p][r] \in Work /\ "work" \in Part /\ work[p][r].at # "lost" /\ \A j \in Part : j = "work" \/ j \in Pass
    BY <1>1 DEF ProcessesTyped, Part, Unlost
<1> DEFINE Busy(w) == w.at \in {"working", "lost"} \/ (w.at # "idle" /\ w.token # 0)
<1>3. Role(p, "work", r) <=> Busy(work[p][r])
    BY DEF Role, Works
<1>4. Role(p, "work", r) => /\ work[p][r].token = lease[r].token /\ work[p][r].token # 0
                            /\ lease[r].status = "active" /\ \A k \in Pass : ~Role(p, k, r)
    BY <1>1, <1>2 DEF Known, TokenOf, RoleHolds, Tokens, OneRole, Part, Pass
<1>5. ASSUME NEW w, work' = [work EXCEPT ![p][r] = w], w.at # "lost"
      PROVE  /\ OthersKeep(p, r) /\ OthersAlike(p, r) /\ work'[p][r] = w
             /\ \A k \in Pass : (Role(p, k, r)' <=> Role(p, k, r)) /\ TokenOf(p, k, r)' = TokenOf(p, k, r)
             /\ Role(p, "work", r)' <=> Busy(w)
    <2>1. /\ OthersKeep(p, r) /\ \A k \in Pass : Role(p, k, r)' <=> Role(p, k, r)
          /\ Role(p, "work", r)' <=> Busy(w)
        BY <1>1, <1>5, WorkerFrame
    <2>2. OthersAlike(p, r) /\ work'[p][r] = w /\ \A k \in Pass : TokenOf(p, k, r)' = TokenOf(p, k, r)
        BY <1>1, <1>5 DEF OthersAlike, TokenOf, ProcessesTyped, Pass
    <2> QED BY <2>1, <2>2
<1>6. ASSUME NEW w, work' = [work EXCEPT ![p][r] = w], w.at # "lost", w.token = work[p][r].token,
             \A x \in Run : Keeps(x), Busy(w) <=> Busy(work[p][r])
      PROVE  Unfailing'
    <2>1. /\ OthersKeep(p, r) /\ OthersAlike(p, r) /\ work'[p][r] = w
          /\ \A k \in Pass : (Role(p, k, r)' <=> Role(p, k, r)) /\ TokenOf(p, k, r)' = TokenOf(p, k, r)
          /\ Role(p, "work", r)' <=> Busy(w)
        BY <1>5, <1>6
    <2>2. \A j \in Part : Role(p, j, r)' <=> Role(p, j, r)
        BY <1>2, <1>3, <1>6, <2>1
    <2>3. TokenOf(p, "work", r)' = TokenOf(p, "work", r)
        BY <1>6, <2>1 DEF TokenOf
    <2>4. \A j \in Part : TokenOf(p, j, r)' = TokenOf(p, j, r)
        BY <1>2, <2>1, <2>3
    <2>5. \A j \in Part : Role(p, j, r)' => TokenOf(p, j, r)' = lease'[r].token
        BY <1>1, <1>6, <2>2, <2>4 DEF Known, Keeps
    <2> QED BY <1>1, <1>6, <2>1, <2>2, <2>5, UnfailingKept
<1>7. ASSUME NEW from, NEW to, Worker(p, r, from, to), UNCHANGED lease, to # "lost", to # "idle",
             Role(p, "work", r) \/ (to # "working" /\ work[p][r].token = 0) \/ work[p][r].at = to
             \/ (to # "working" /\ work[p][r].at \notin {"idle", "working", "lost"})
      PROVE  Unfailing'
    <2> DEFINE w == [work[p][r] EXCEPT !.at = to]
    <2>1. work' = [work EXCEPT ![p][r] = w]
        BY <1>7 DEF Worker
    <2>2. w.at = to /\ w.token = work[p][r].token
        BY <1>2 DEF Work
    <2>3. \A x \in Run : Keeps(x)
        BY <1>7 DEF Keeps
    <2>4. Busy(w) <=> Busy(work[p][r])
        BY <1>3, <1>4, <1>7, <2>2
    <2> HIDE DEF w, Busy
    <2> QED BY <1>6, <1>7, <2>1, <2>2, <2>3, <2>4
<1>8. CASE Accept(p, r)
    BY <1>1, <1>7, <1>8 DEF Accept, Worker, Tokens
<1>9. CASE Own(p, r)
    <2>1. CASE Held(r)
        <3>1. Worker(p, r, {"accepted"}, "failing") /\ UNCHANGED lease /\ work[p][r].token = 0
            BY <1>1, <1>9, <2>1 DEF Own, Worker, Tokens
        <3> QED BY <1>7, <3>1
    <2>2. CASE ~Held(r)
        <3> DEFINE w == [at |-> "working", token |-> grants + 1]
        <3>1. work' = [work EXCEPT ![p][r] = w] /\ Grant(p, r) /\ w.at = "working" /\ w.token = grants + 1
            BY <1>9, <2>2 DEF Own
        <3> HIDE DEF w
        <3>2. /\ OthersKeep(p, r) /\ OthersAlike(p, r) /\ work'[p][r] = w
              /\ \A k \in Pass : (Role(p, k, r)' <=> Role(p, k, r))
              /\ Role(p, "work", r)'
            BY <1>5, <3>1
        <3>3. \A q \in Process : \A j \in Part : ~Role(q, j, r)
            BY <1>1, <2>2, RoleIsHeld
        <3>4. /\ lease'[r].status = "active" /\ lease'[r].owner = p /\ lease'[r].token = grants + 1
              /\ \A s \in Run : s # r => Keeps(s)
            BY <1>1, <3>1, GrantLease
        <3>5. TokenOf(p, "work", r)' = lease'[r].token
            BY <3>1, <3>2, <3>4 DEF TokenOf
        <3>6. \A j \in Part : Role(p, j, r)' => TokenOf(p, j, r)' = lease'[r].token
            BY <1>2, <3>2, <3>3, <3>5
        <3> QED BY <1>1, <1>2, <3>1, <3>2, <3>3, <3>4, <3>6, UnfailingKept
    <2> QED BY <2>1, <2>2
<1>10. CASE Boundary(p, r) \/ Renew(p, r)
    <2>1. \A x \in Run : Keeps(x)
        BY <1>1, <1>10 DEF Boundary, Renew, Keeps, FilesTyped, Lease, NoLease, Released
    <2>2. UNCHANGED work
        BY <1>10 DEF Boundary, Renew
    <2>3. Same
        BY <1>1, <2>2 DEF Same, Role, Works, Recovers
    <2> QED BY <1>1, <2>1, <2>2, <2>3, UnfailingSame DEF Kept, Unlost, Alive
<1>11. CASE RenewFails(p, r)
    <2>1. faults' # faults + 1
        OBVIOUS
    <2>2. ~Owns(p, r, work[p][r].token) /\ Busy(work[p][r])
        BY <1>11, <2>1 DEF RenewFails, Fault
    <2> QED BY <1>3, <1>4, <2>2 DEF Owns
<1>12. CASE Finish(p, r) \/ Throw(p, r)
    <2>1. work[p][r].at = "working"
        BY <1>2, <1>12 DEF Finish, Throw, Worker
    <2>2. Role(p, "work", r) /\ UNCHANGED lease
        BY <1>3, <1>12, <2>1 DEF Finish, Throw
    <2> HIDE DEF Busy
    <2> QED BY <1>7, <1>12, <2>2 DEF Finish, Throw
<1>13. CASE FinishEarly(p, r)
    <2>1. work[p][r].at = "failing" /\ UNCHANGED lease
        BY <1>13 DEF FinishEarly, Worker
    <2> HIDE DEF Busy
    <2> QED BY <1>7, <1>13, <2>1 DEF FinishEarly
<1>14. CASE Leave(p, r)
    <2>1. work' = [work EXCEPT ![p][r] = Idle] /\ Idle.at = "idle" /\ Release(p, r, work[p][r].token) /\ work[p][r].at = "leaving"
        BY <1>14 DEF Leave, Idle, Fault
    <2>2. /\ OthersKeep(p, r) /\ OthersAlike(p, r) /\ work'[p][r] = Idle
          /\ \A k \in Pass : (Role(p, k, r)' <=> Role(p, k, r)) /\ TokenOf(p, k, r)' = TokenOf(p, k, r)
          /\ ~Role(p, "work", r)'
        BY <1>5, <2>1
    <2>3. CASE Role(p, "work", r)
        <3>1. \A j \in Part : ~Role(p, j, r)'
            BY <1>2, <1>4, <2>2, <2>3
        <3>2. Owns(p, r, work[p][r].token)
            BY <1>4, <2>3 DEF Owns
        <3>3. lease'[r].status # "active" /\ \A s \in Run : s # r => Keeps(s)
            BY <1>1, <2>1, <3>2, ReleaseLease
        <3>4. \A q \in Process : q # p => \A j \in Part : ~Role(q, j, r)
            BY <1>1, <1>2, <2>3 DEF RoleHolds
        <3> QED BY <1>1, <2>1, <2>2, <3>1, <3>3, <3>4, UnfailingKept
    <2>4. CASE ~Role(p, "work", r)
        <3>1. ~Owns(p, r, work[p][r].token)
            BY <1>1, <1>3, <2>1, <2>4 DEF Owns, Tokens
        <3>2. UNCHANGED lease
            BY <1>1, <2>1, <3>1, ReleaseLease
        <3>3. \A x \in Run : Keeps(x)
            BY <3>2 DEF Keeps
        <3>4. \A j \in Part : (Role(p, j, r)' <=> Role(p, j, r)) /\ (Role(p, j, r) => TokenOf(p, j, r)' = TokenOf(p, j, r))
            BY <1>2, <2>2, <2>4
        <3>5. \A j \in Part : Role(p, j, r)' => TokenOf(p, j, r)' = lease'[r].token
            BY <1>1, <3>2, <3>4 DEF Known
        <3> QED BY <1>1, <2>1, <2>2, <3>3, <3>4, <3>5, UnfailingKept
    <2> QED BY <2>3, <2>4
<1> QED
    BY <1>8, <1>9, <1>10, <1>11, <1>12, <1>13, <1>14

LEMMA PassStepUnfailing ==
    ASSUME LeaseInv, faults = 0, faults' = 0, Unfailing, NEW p \in Process, NEW k \in Pass,
           PassStep(p, k) \/ (k = "events" /\ Filter(p))
    PROVE  Unfailing'
<1>1. /\ FilesTyped /\ ProcessesTyped /\ RoleHolds /\ OneRole /\ Tokens /\ Unlost /\ Known /\ Used
      /\ UNCHANGED proc
    BY TypedParts DEF LeaseInv, Unfailing, PassStep, Filter, List, PickRun, Claim, Recheck, Decline, Resumed,
                      Recover, ReleaseRecovered, Done
<1> DEFINE s0 == pass[p][k]
<1> USE DEF Acting
<1>2. k \in Part /\ k # "work" /\ "work" \in Part /\ \A j \in Part : j = "work" \/ j \in Pass
    BY DEF Part, Pass
<1>3. s0 \in PassState
    BY <1>1 DEF ProcessesTyped
<1>4. \A r \in Run : Role(p, k, r) <=> s0.run = r /\ s0.at \in Acting
    BY <1>2 DEF Role, Recovers
<1>5. ASSUME NEW s, Put(p, k, s), UNCHANGED work
      PROVE  /\ \A q \in Process : \A j \in Part : \A r \in Run : (q # p \/ j # k) =>
                   (Role(q, j, r)' <=> Role(q, j, r)) /\ TokenOf(q, j, r)' = TokenOf(q, j, r)
             /\ \A r \in Run : Role(p, k, r)' <=> s.run = r /\ s.at \in Acting
             /\ \A r \in Run : TokenOf(p, k, r)' = s.token
    <2>1. /\ \A q \in Process : \A j \in Part : \A r \in Run : (q # p \/ j # k) => (Role(q, j, r)' <=> Role(q, j, r))
          /\ \A r \in Run : Role(p, k, r)' <=> s.run = r /\ s.at \in Acting
        BY <1>1, <1>5, PassFrame
    <2>2. \A q \in Process : \A j \in Part : \A r \in Run : (q # p \/ j # k) => TokenOf(q, j, r)' = TokenOf(q, j, r)
        BY <1>1, <1>2, <1>5 DEF Put, TokenOf, ProcessesTyped
    <2>3. \A r \in Run : TokenOf(p, k, r)' = s.token
        BY <1>1, <1>2, <1>5 DEF Put, TokenOf, ProcessesTyped
    <2> QED BY <2>1, <2>2, <2>3
\* The pass goes on without taking or dropping its role.
<1>6. ASSUME NEW s, Put(p, k, s), UNCHANGED <<work, lease>>, s.at \in Acting <=> s0.at \in Acting,
             s.at \in Acting => s.run = s0.run /\ s.token = s0.token
      PROVE  Unfailing'
    <2>1. \A q \in Process : \A j \in Part : \A r \in Run : Role(q, j, r)' <=> Role(q, j, r)
        BY <1>4, <1>5, <1>6
    <2>2. \A r \in Run : TokenOf(p, k, r) = s0.token
        BY <1>2 DEF TokenOf
    <2>3. \A q \in Process : \A j \in Part : \A r \in Run : Role(q, j, r) => TokenOf(q, j, r)' = TokenOf(q, j, r)
        BY <1>4, <1>5, <1>6, <2>2
    <2>4. Known'
        BY <1>1, <1>6, <2>1, <2>3 DEF Known
    <2>5. Unlost' /\ Used'
        BY <1>1, <1>6, <2>1 DEF Unlost, Used, Alive
    <2> QED BY <2>4, <2>5 DEF Unfailing
<1>7. ASSUME NEW r \in Run, r = s0.run, Grant(p, r), ~Held(r), NEW s, Put(p, k, s), UNCHANGED work,
             s.run = r, s.at \in Acting, s.token = grants + 1, s0.at \notin Acting
      PROVE  Unfailing'
    <2>1. \A q \in Process : \A j \in Part : ~Role(q, j, r)
        BY <1>1, <1>7, RoleIsHeld
    <2>2. /\ lease'[r].status = "active" /\ lease'[r].owner = p /\ lease'[r].token = grants + 1
          /\ \A x \in Run : x # r => Keeps(x)
        BY <1>1, <1>7, GrantLease
    <2>3. OthersKeep(p, r) /\ OthersAlike(p, r)
        BY <1>4, <1>5, <1>7 DEF OthersKeep, OthersAlike
    <2>4. Role(p, k, r)' /\ TokenOf(p, k, r)' = lease'[r].token
        BY <1>5, <1>7, <2>2
    <2>5. \A j \in Part : j # k => ~Role(p, j, r)'
        BY <1>5, <1>7, <2>1
    <2>6. \A j \in Part : Role(p, j, r)' => TokenOf(p, j, r)' = lease'[r].token
        BY <2>4, <2>5
    <2>7. work'[p][r].at # "lost"
        BY <1>1, <1>7 DEF Unlost
    <2> QED BY <1>1, <1>2, <2>1, <2>2, <2>3, <2>4, <2>6, <2>7, UnfailingKept
<1>8. ASSUME NEW r \in Run, r = s0.run, s0.at \in Acting, Release(p, r, s0.token),
             NEW s, Put(p, k, s), UNCHANGED work, s.at \notin Acting
      PROVE  Unfailing'
    <2>1. Role(p, k, r) /\ TokenOf(p, k, r) = s0.token
        BY <1>2, <1>4, <1>8 DEF TokenOf
    <2>2. Owns(p, r, s0.token)
        BY <1>1, <1>2, <2>1 DEF Owns, Known, RoleHolds
    <2>3. lease'[r].status # "active" /\ \A x \in Run : x # r => Keeps(x)
        BY <1>1, <1>8, <2>2, ReleaseLease
    <2>4. OthersKeep(p, r) /\ OthersAlike(p, r)
        BY <1>4, <1>5, <1>8 DEF OthersKeep, OthersAlike
    <2>5. \A j \in Part : j # k => ~Role(p, j, r)
        BY <1>1, <1>2, <2>1 DEF OneRole
    <2>6. \A j \in Part : ~Role(p, j, r)'
        BY <1>5, <1>8, <2>5
    <2>7. \A q \in Process : q # p => \A j \in Part : ~Role(q, j, r)
        BY <1>1, <1>2, <2>1 DEF RoleHolds
    <2>8. work'[p][r].at # "lost"
        BY <1>1, <1>8 DEF Unlost
    <2> QED BY <1>1, <2>3, <2>4, <2>6, <2>7, <2>8, UnfailingKept
<1>9. CASE List(p, k) \/ PickRun(p, k) \/ Resumed(p, k) \/ (k = "events" /\ Filter(p))
    BY <1>1, <1>6, <1>9, PassGoesOn
<1>10. CASE Claim(p, k)
    <2>1. PICK r \in Run : r = s0.run
        BY <1>1, <1>10, RunOfPass DEF Claim, At
    <2>2. s0.at \in {"segment", "acquire"}
        BY <1>10 DEF Claim, At
    <2>3. CASE Held(r)
        <3> DEFINE s == [s0 EXCEPT !.at = "next", !.run = None]
        <3>1. Put(p, k, s) /\ UNCHANGED <<work, lease>>
            BY <1>10, <2>1, <2>3 DEF Claim, GoOn
        <3>2. s.at = "next"
            BY <1>3 DEF PassState
        <3> HIDE DEF s
        <3> QED BY <1>6, <2>2, <3>1, <3>2
    <2>4. CASE ~Held(r)
        <3> DEFINE s == [s0 EXCEPT !.token = grants + 1, !.at = IF @ = "segment" THEN "recheck" ELSE "recover"]
        <3>1. Put(p, k, s) /\ Grant(p, r) /\ UNCHANGED work
            BY <1>10, <2>1, <2>4 DEF Claim
        <3>2. s.run = r /\ s.at \in Acting /\ s.token = grants + 1
            BY <1>3, <2>1 DEF PassState
        <3> HIDE DEF s
        <3> QED BY <1>7, <2>1, <2>2, <2>4, <3>1, <3>2
    <2> QED BY <2>3, <2>4
<1>11. CASE Recheck(p, k)
    <2>1. PICK r \in Run : r = s0.run
        BY <1>1, <1>11, RunOfPass DEF Recheck, At
    <2>2. s0.at = "recheck" /\ UNCHANGED lease
        BY <1>11 DEF Recheck, At
    <2>3. CASE Goto(p, k, "decline") /\ UNCHANGED work
        <3> DEFINE s == [s0 EXCEPT !.at = "decline"]
        <3>1. Put(p, k, s) /\ s.at = "decline" /\ s.run = s0.run /\ s.token = s0.token
            BY <1>3, <2>3 DEF Goto, PassState
        <3> HIDE DEF s
        <3> QED BY <1>6, <2>2, <2>3, <3>1
    <2>4. CASE Goto(p, k, "run") /\ work' = [work EXCEPT ![p][r] = [at |-> "working", token |-> s0.token]]
        <3> DEFINE s == [s0 EXCEPT !.at = "run"]
        <3>1. Put(p, k, s) /\ s.at = "run"
            BY <1>3, <2>4 DEF Goto, PassState
        <3> HIDE DEF s
        <3>2. /\ \A q \in Process : \A j \in Pass : pass'[q][j] = IF q = p /\ j = k THEN s ELSE pass[q][j]
              /\ \A q \in Process : \A x \in Run :
                    work'[q][x] = IF q = p /\ x = r THEN [at |-> "working", token |-> s0.token] ELSE work[q][x]
            BY <1>1, <2>4, <3>1 DEF Put, ProcessesTyped
        <3>3. Role(p, k, r) /\ TokenOf(p, k, r) = s0.token
            BY <1>2, <1>4, <2>1, <2>2 DEF TokenOf
        <3>4. \A j \in Part : j # k => ~Role(p, j, r)
            BY <1>1, <1>2, <3>3 DEF OneRole
        <3>5. OthersKeep(p, r)
            BY <1>1, <1>2, <2>1, <2>2, <3>1, <3>2 DEF OthersKeep, Role, Works, Recovers
        <3>6. OthersAlike(p, r)
            <4>1. ASSUME NEW q \in Process, NEW x \in Run, q # p \/ x # r, NEW j \in Part, Role(q, j, x)'
                  PROVE  TokenOf(q, j, x)' = TokenOf(q, j, x)
                <5>1. ~(q = p /\ j = k)
                    BY <1>2, <3>1, <3>2, <4>1 DEF Role, Recovers
                <5> QED BY <1>2, <3>2, <4>1, <5>1 DEF TokenOf
            <4>2. \A q \in Process : \A x \in Run : q # p \/ x # r => work'[q][x].at = work[q][x].at
                BY <3>2
            <4> QED BY <4>1, <4>2 DEF OthersAlike
        <3>7. \A j \in Pass : ~Role(p, j, r)'
            BY <1>2, <3>1, <3>2, <3>4 DEF Role, Recovers, Part, Pass
        <3>8. Role(p, "work", r)' /\ TokenOf(p, "work", r)' = s0.token /\ work'[p][r].at # "lost"
            BY <3>2 DEF Role, Works, TokenOf
        <3>9. lease'[r].token = s0.token /\ lease'[r].owner = p
            BY <1>1, <1>2, <2>2, <3>3 DEF Known, RoleHolds
        <3>10. \A j \in Part : Role(p, j, r)' => TokenOf(p, j, r)' = lease'[r].token
            BY <1>2, <3>7, <3>8, <3>9
        <3>11. \A x \in Run : Keeps(x)
            BY <2>2 DEF Keeps
        <3> QED BY <1>1, <1>2, <3>5, <3>6, <3>8, <3>9, <3>10, <3>11, UnfailingKept
    <2> QED BY <1>11, <2>1, <2>3, <2>4 DEF Recheck
<1>12. CASE Recover(p, k)
    <2>0. PICK at \in {"release", "refused"} : Goto(p, k, at)
        BY <1>12 DEF Recover
    <2> DEFINE s == [s0 EXCEPT !.at = at]
    <2>1. Put(p, k, s) /\ s.at \in {"release", "refused"} /\ s.run = s0.run /\ s.token = s0.token
          /\ s0.at = "recover" /\ UNCHANGED <<work, lease>>
        BY <1>3, <1>12, <2>0 DEF Recover, Goto, PassState, At
    <2> HIDE DEF s
    <2> QED BY <1>6, <2>1
<1>13. CASE Decline(p, k) \/ ReleaseRecovered(p, k)
    <2>1. PICK r \in Run : r = s0.run
        BY <1>1, <1>13, RunOfPass DEF Decline, ReleaseRecovered, At
    <2>2. s0.at \in Acting /\ UNCHANGED work /\ Release(p, r, s0.token)
        BY <1>13, <2>1 DEF Decline, ReleaseRecovered, At, Fault
    <2>3. [s0 EXCEPT !.at = "next", !.run = None].at = "next" /\ [s0 EXCEPT !.at = "acquire"].at = "acquire"
        BY <1>3 DEF PassState
    <2>4. PICK s : Put(p, k, s) /\ s.at \notin Acting
        BY <1>13, <2>3 DEF Decline, ReleaseRecovered, Goto, GoOn
    <2> QED BY <1>8, <2>1, <2>2, <2>4
<1>14. CASE Done(p, k)
    <2>1. s0.at = "next" /\ UNCHANGED <<work, lease>>
        BY <1>14 DEF Done, At
    <2>2. CASE k = "queue" /\ timer[p] = None
        <3> DEFINE f == [queue |-> NoPass, events |-> [NoPass EXCEPT !.at = "list"]]
        <3>1. pass' = [pass EXCEPT ![p] = f]
            BY <1>14, <2>2 DEF Done
        <3>2. pass[p]["queue"].at \notin Acting /\ pass[p]["events"].at \notin Acting
            BY <1>1, <2>1, <2>2 DEF Tokens
        <3>3. f["queue"].at \notin Acting /\ f["events"].at \notin Acting
            BY DEF NoPass
        <3> HIDE DEF f
        <3>4. \A q \in Process : q # p => pass'[q] = pass[q]
            BY <1>1, <3>1 DEF ProcessesTyped
        <3>5. pass'[p] = f
            BY <1>1, <3>1 DEF ProcessesTyped
        <3>6. \A q \in Process : \A j \in Part : \A r \in Run : Role(q, j, r)' <=> Role(q, j, r)
            BY <2>1, <3>2, <3>3, <3>4, <3>5 DEF Role, Works, Recovers, Part, Pass
        <3>7. \A q \in Process : \A j \in Part : \A r \in Run : Role(q, j, r) => TokenOf(q, j, r)' = TokenOf(q, j, r)
            BY <2>1, <3>2, <3>4 DEF Role, TokenOf, Recovers, Part, Pass
        <3>8. Known'
            BY <1>1, <2>1, <3>6, <3>7 DEF Known
        <3>9. Unlost' /\ Used'
            BY <1>1, <2>1, <3>6 DEF Unlost, Used, Alive
        <3> QED BY <3>8, <3>9 DEF Unfailing
    <2>3. CASE ~(k = "queue" /\ timer[p] = None)
        <3>1. Put(p, k, NoPass) /\ NoPass.at = "off"
            BY <1>14, <2>3 DEF Done, NoPass
        <3> QED BY <1>6, <2>1, <3>1
    <2> QED BY <2>2, <2>3
<1> QED
    BY <1>9, <1>10, <1>11, <1>12, <1>13, <1>14 DEF PassStep

LEMMA UnfailingStep ==
    ASSUME LeaseInv, Unfailing, [LeaseNext]_leaseVars
    PROVE  Unfailing'
<1> SUFFICES ASSUME faults' = 0
             PROVE  Unfailing'
    BY DEF Unfailing
<1>1. /\ FilesTyped /\ ProcessesTyped /\ RoleHolds /\ Tokens /\ faults = 0 /\ Unlost /\ Known /\ Used
    BY TypedParts, FaultsGrow DEF LeaseInv, Unfailing
<1>2. CASE UNCHANGED leaseVars \/ TimePasses
    BY <1>1, <1>2 DEF leaseVars, TimePasses, Unfailing, Unlost, Known, Used, Role, Works, Recovers, TokenOf, Alive
<1>3. ASSUME NEW p \in Process, Boot(p) \/ WakeUp(p)
      PROVE  Unfailing'
    <2>1. pass[p]["queue"] \in PassState /\ pass[p]["queue"].at = "off"
        BY <1>1, <1>3 DEF Boot, WakeUp, At, ProcessesTyped, NoPass, Pass
    <2> DEFINE s == [pass[p]["queue"] EXCEPT !.at = "list"]
    <2>2. s.at = "list"
        BY <2>1 DEF PassState
    <2>3. /\ Put(p, "queue", s) /\ UNCHANGED <<work, lease>>
          /\ UNCHANGED proc \/ (proc[p] = "new" /\ proc' = [proc EXCEPT ![p] = "up"])
        BY <1>3 DEF Boot, WakeUp, Goto
    <2> HIDE DEF s
    <2>4. \A q \in Process : \A j \in Pass : pass'[q][j] = IF q = p /\ j = "queue" THEN s ELSE pass[q][j]
        BY <1>1, <2>3 DEF Put, ProcessesTyped
    <2>5. \A q \in Process : \A j \in Part : \A r \in Run :
             (Role(q, j, r)' <=> Role(q, j, r)) /\ (Role(q, j, r) => TokenOf(q, j, r)' = TokenOf(q, j, r))
        BY <2>1, <2>2, <2>3, <2>4 DEF Role, Works, Recovers, TokenOf, Part, Pass
    <2>6. Known' /\ Unlost'
        BY <1>1, <2>3, <2>5 DEF Known, Unlost
    <2>7. Used'
        BY <1>1, <2>3, <2>5 DEF Used, Alive, Tokens, ProcessesTyped
    <2> QED BY <2>6, <2>7 DEF Unfailing
<1>4. ASSUME NEW p \in Process, Crash(p)
      PROVE  Unfailing'
    <2>1. /\ UNCHANGED lease /\ proc'[p] = "dead"
          /\ \A q \in Process : q # p => work'[q] = work[q] /\ pass'[q] = pass[q] /\ proc'[q] = proc[q]
        BY <1>1, <1>4 DEF Crash, ProcessesTyped
    <2>2. \A r \in Run : work'[p][r].at = "idle"
        BY <1>1, <1>4 DEF Crash, ProcessesTyped, Idle
    <2>3. \A k \in Pass : pass'[p][k].at = "off"
        BY <1>1, <1>4 DEF Crash, ProcessesTyped, NoPass
    <2>4. \A j \in Part : \A r \in Run : ~Role(p, j, r)'
        BY <2>2, <2>3 DEF Role, Works, Recovers, Part
    <2>5. \A q \in Process : q # p => \A j \in Part : \A r \in Run :
             (Role(q, j, r)' <=> Role(q, j, r)) /\ TokenOf(q, j, r)' = TokenOf(q, j, r)
        BY <2>1 DEF Role, Works, Recovers, TokenOf
    <2>6. Known'
        BY <1>1, <2>1, <2>4, <2>5 DEF Known
    <2>7. Unlost'
        BY <1>1, <2>1, <2>2 DEF Unlost
    <2>8. Used'
        BY <1>1, <2>1, <2>5 DEF Used, Alive
    <2> QED BY <2>6, <2>7, <2>8 DEF Unfailing
<1>5. ASSUME NEW p \in Process, NEW r \in Run,
             Accept(p, r) \/ Boundary(p, r) \/ Renew(p, r) \/ RenewFails(p, r) \/ Throw(p, r) \/ RunStep(p, r)
      PROVE  Unfailing'
    BY <1>1, <1>5, WorkStepUnfailing DEF RunStep
<1>6. ASSUME NEW p \in Process, NEW k \in Pass, PassStep(p, k) \/ (k = "events" /\ Filter(p))
      PROVE  Unfailing'
    BY <1>1, <1>6, PassStepUnfailing
<1>7. ASSUME NEW p \in Process, Filter(p)
      PROVE  Unfailing'
    BY <1>6, <1>7 DEF Pass
<1> QED
    BY <1>2, <1>3, <1>4, <1>5, <1>6, <1>7 DEF LeaseNext

\* As long as nothing fails, a lease that names a live process belongs to one that
\* acts as its owner: no path out of a run or a recovery forgets to release.
THEOREM OwnersWork == LeaseSpec => []OwnerIsAtWork
<1>1. LeaseInit => Unfailing
    BY DEF LeaseInit, Unfailing, Unlost, Known, Used, Role, Works, Recovers, Part, Pass, Idle, NoPass, NoLease
<1>2. LeaseInv /\ Unfailing => OwnerIsAtWork
    BY RolesAre DEF LeaseInv, Tokens, Unfailing, Used, OwnerIsAtWork
<1> QED BY <1>1, <1>2, UnfailingStep, LeaseInvariant, PTL DEF LeaseSpec

\* A run is never worked on by two owners, whatever fails; and while nothing does,
\* its lease is never left behind with a process that lives on.
THEOREM RunOwned == LeaseSpec => []RunIsOwned
<1>1. LeaseTypeOK /\ OneOwner /\ OwnerIsAtWork => RunIsOwned
    BY DEF RunIsOwned
<1> QED BY <1>1, LeaseTypeCorrect, RunHasOneOwner, OwnersWork, PTL
-----------------------------------------------------------------------------
(* Tool calls: the ledger as data.                                         *)

LedgerOK(l) == l \in Seq(Entry) /\ Len(l) <= Capacity

\* Every nonempty set of numbers has a least one, a finite one a greatest one.
LEMMA LeastNumber ==
    ASSUME NEW S \in SUBSET Nat, S # {}
    PROVE  \E m \in S : \A q \in S : m <= q
<1> DEFINE T == {0..s : s \in S}
<1>1. T \subseteq FiniteSubsetsOf(Nat) /\ T # {}
  <2>1. ASSUME NEW s \in S PROVE 0..s \in FiniteSubsetsOf(Nat)
    BY FS_Interval DEF FiniteSubsetsOf
  <2> QED BY <2>1
<1>2. PICK x \in T : \A y \in T : ~(<<y, x>> \in StrictSubsetOrdering(Nat))
  <2> HIDE DEF T
  <2> QED BY ONLY <1>1, FS_StrictSubsetOrderingWellFounded, WFMin
<1>3. PICK m \in S : x = 0..m
  OBVIOUS
<1>4. ASSUME NEW q \in S PROVE m <= q
  <2> SUFFICES ASSUME q < m PROVE FALSE
    OBVIOUS
  <2>1. 0..q \subseteq 0..m /\ 0..q # 0..m
    <3>1. m \in 0..m /\ m \notin 0..q
      OBVIOUS
    <3> QED BY <3>1
  <2>2. <<0..q, x>> \in StrictSubsetOrdering(Nat)
    BY <1>3, <2>1 DEF StrictSubsetOrdering
  <2> QED BY <1>2, <2>2
<1> QED BY <1>4

LEMMA GreatestValue ==
    ASSUME NEW I, IsFiniteSet(I), I # {}, NEW v \in [I -> Nat]
    PROVE  \E m \in I : \A q \in I : v[q] <= v[m]
<1> DEFINE T == {{j \in I : v[j] > v[i]} : i \in I}
<1>1. T \subseteq FiniteSubsetsOf(I) /\ T # {}
  <2>1. ASSUME NEW i \in I PROVE {j \in I : v[j] > v[i]} \in FiniteSubsetsOf(I)
    BY FS_Subset DEF FiniteSubsetsOf
  <2>2. PICK i \in I : TRUE
    OBVIOUS
  <2>3. {j \in I : v[j] > v[i]} \in T
    BY <2>2
  <2> QED BY <2>1, <2>3
<1>2. PICK x \in T : \A y \in T : ~(<<y, x>> \in StrictSubsetOrdering(I))
  <2> HIDE DEF T
  <2> QED BY ONLY <1>1, FS_StrictSubsetOrderingWellFounded, WFMin
<1>3. PICK m \in I : x = {j \in I : v[j] > v[m]}
  OBVIOUS
<1>4. ASSUME NEW q \in I PROVE v[q] <= v[m]
  <2> SUFFICES ASSUME v[q] > v[m] PROVE FALSE
    OBVIOUS
  <2> DEFINE y == {j \in I : v[j] > v[q]}
  <2>1. y \subseteq x /\ q \in x /\ q \notin y
    BY <1>3
  <2>2. y \in T /\ y # x
    BY <2>1
  <2>3. <<y, x>> \in StrictSubsetOrdering(I)
    <3>1. x \in FiniteSubsetsOf(I) /\ y \in FiniteSubsetsOf(I)
      BY <1>1, <2>2
    <3> HIDE DEF y, T
    <3> QED BY <2>1, <2>2, <3>1 DEF StrictSubsetOrdering, FiniteSubsetsOf
  <2> QED BY <1>2, <2>2, <2>3
<1> QED BY <1>4

LEMMA IndexIs ==
    ASSUME NEW l, LedgerOK(l), NEW k
    PROVE  /\ IndexOf(l, k) = 0 <=> \A i \in DOMAIN l : l[i].key # k
           /\ IndexOf(l, k) # 0 => IndexOf(l, k) \in DOMAIN l /\ l[IndexOf(l, k)].key = k
<1>1. DOMAIN l = 1..Len(l) /\ Len(l) \in Nat
  BY DEF LedgerOK
<1>2. CASE \E i \in DOMAIN l : l[i].key = k
  <2> DEFINE n == CHOOSE i \in DOMAIN l : l[i].key = k
  <2>1. n \in DOMAIN l /\ l[n].key = k
    BY <1>2
  <2>2. IndexOf(l, k) = n
    BY <1>2 DEF IndexOf
  <2> QED BY <1>1, <1>2, <2>1, <2>2
<1>3. CASE ~\E i \in DOMAIN l : l[i].key = k
  BY <1>3 DEF IndexOf
<1> QED BY <1>2, <1>3

\* A change of status leaves the entries where they are.
LEMMA StatusOf ==
    ASSUME NEW l, LedgerOK(l), NEW k, NEW s \in Status
    PROVE  /\ LedgerOK(WithStatus(l, k, s))
           /\ DOMAIN WithStatus(l, k, s) = DOMAIN l
           /\ \A i \in DOMAIN l :
                 /\ WithStatus(l, k, s)[i].key = l[i].key
                 /\ WithStatus(l, k, s)[i].call = l[i].call
                 /\ WithStatus(l, k, s)[i].status =
                        IF i = IndexOf(l, k) THEN s ELSE l[i].status
<1>1. DOMAIN l = 1..Len(l) /\ Len(l) \in Nat /\ l \in Seq(Entry) /\ Len(l) <= Capacity
  BY DEF LedgerOK
<1>2. CASE IndexOf(l, k) = 0
  BY <1>1, <1>2 DEF WithStatus, LedgerOK
<1>3. CASE IndexOf(l, k) # 0
  <2> DEFINE n == IndexOf(l, k)
             e == [l[n] EXCEPT !.status = s]
  <2>1. n \in 1..Len(l)
    BY <1>1, <1>3, IndexIs
  <2>2. l[n] \in Entry /\ e \in Entry /\ e.key = l[n].key /\ e.call = l[n].call /\ e.status = s
    <3>1. l[n] \in Entry
      <4> HIDE DEF n
      <4> QED BY <1>1, <2>1, ElementOfSeq
    <3> HIDE DEF n
    <3> QED BY <3>1 DEF Entry
  <2>3. WithStatus(l, k, s) = [l EXCEPT ![n] = e]
    BY <1>1, <1>3, <2>1 DEF WithStatus
  <2> HIDE DEF n, e
  <2>4. /\ [l EXCEPT ![n] = e] \in Seq(Entry) /\ Len([l EXCEPT ![n] = e]) = Len(l)
        /\ \A j \in 1..Len(l) : [l EXCEPT ![n] = e][j] = IF j = n THEN e ELSE l[j]
    BY <1>1, <2>1, <2>2, ExceptSeq
  <2>5. DOMAIN WithStatus(l, k, s) = 1..Len(l)
    BY <1>1, <2>3
  <2> QED BY <1>1, <2>2, <2>3, <2>4, <2>5 DEF LedgerOK, n
<1> QED BY <1>2, <1>3

\* Making room takes out the first entry that succeeded or failed.
LEMMA EvictIs ==
    ASSUME LedgerOK(ledger), Evictable # {}
    PROVE  \E x \in Evictable :
             /\ \A j \in Evictable : x <= j
             /\ LedgerOK(Evict(ledger)) /\ Len(Evict(ledger)) = Len(ledger) - 1
             /\ \A i \in 1..Len(ledger) - 1 :
                   Evict(ledger)[i] = IF i < x THEN ledger[i] ELSE ledger[i + 1]
<1>1. DOMAIN ledger = 1..Len(ledger) /\ Len(ledger) \in Nat /\ ledger \in Seq(Entry) /\ Len(ledger) <= Capacity
  BY DEF LedgerOK
<1> DEFINE x == CHOOSE i \in Evictable : \A j \in Evictable : i <= j
<1>2. x \in Evictable /\ \A j \in Evictable : x <= j
  <2>1. Evictable \in SUBSET Nat
    BY <1>1 DEF Evictable
  <2>2. \E m \in Evictable : \A q \in Evictable : m <= q
    BY <2>1, LeastNumber
  <2> QED BY <2>2
<1>3. Evict(ledger) = SubSeq(ledger, 1, x - 1) \o SubSeq(ledger, x + 1, Len(ledger))
  BY DEF Evict, RemoveAt
<1> HIDE DEF x
<1>4. x \in 1..Len(ledger)
  BY <1>1, <1>2 DEF Evictable
<1> DEFINE a == SubSeq(ledger, 1, x - 1)
           b == SubSeq(ledger, x + 1, Len(ledger))
<1>5. a \in Seq(Entry) /\ Len(a) = x - 1 /\ \A i \in 1..x - 1 : a[i] = ledger[i]
  <2>1. \A i \in 1..x - 1 : ledger[i] \in Entry
    BY <1>1, <1>4
  <2> QED BY <1>4, <2>1, SubSeqProperties
<1>6. b \in Seq(Entry) /\ Len(b) = Len(ledger) - x /\ \A i \in 1..Len(ledger) - x : b[i] = ledger[x + i]
  <2>1. \A i \in x + 1..Len(ledger) : ledger[i] \in Entry
    BY <1>1, <1>4
  <2>2. x + 1 \in Int /\ Len(ledger) \in Int
    BY <1>1, <1>4
  <2>3. /\ b \in Seq(Entry)
        /\ Len(b) = IF x + 1 <= Len(ledger) THEN Len(ledger) - (x + 1) + 1 ELSE 0
        /\ \A i \in 1..Len(ledger) - (x + 1) + 1 : b[i] = ledger[x + 1 + i - 1]
    BY <2>1, <2>2, SubSeqProperties
  <2> HIDE DEF b
  <2>4. Len(b) = Len(ledger) - x
    <3>1. Len(ledger) \in Nat /\ x \in 1..Len(ledger)
      BY <1>1, <1>4
    <3>2. CASE x + 1 <= Len(ledger)
      BY <2>3, <3>1, <3>2
    <3>3. CASE x = Len(ledger)
      BY <2>3, <3>1, <3>3
    <3> QED BY <3>1, <3>2, <3>3
  <2>5. ASSUME NEW i \in 1..Len(ledger) - x PROVE b[i] = ledger[x + i]
    <3>1. i \in 1..Len(ledger) - (x + 1) + 1 /\ x + 1 + i - 1 = x + i
      BY <1>1, <1>4
    <3> QED BY <2>3, <3>1
  <2> QED BY <2>3, <2>4, <2>5
<1> HIDE DEF a, b
<1>7. /\ a \o b \in Seq(Entry) /\ Len(a \o b) = Len(ledger) - 1
      /\ \A i \in 1..Len(ledger) - 1 : (a \o b)[i] = IF i <= x - 1 THEN a[i] ELSE b[i - (x - 1)]
  <2>1. /\ a \o b \in Seq(Entry) /\ Len(a \o b) = Len(a) + Len(b)
        /\ \A i \in 1..Len(a) + Len(b) : (a \o b)[i] = IF i <= Len(a) THEN a[i] ELSE b[i - Len(a)]
    BY <1>5, <1>6, ConcatProperties
  <2> QED BY <1>1, <1>4, <1>5, <1>6, <2>1
<1>8. Evict(ledger) = a \o b
  BY <1>3 DEF a, b
<1>9. ASSUME NEW i \in 1..Len(ledger) - 1
      PROVE  Evict(ledger)[i] = IF i < x THEN ledger[i] ELSE ledger[i + 1]
  BY <1>1, <1>4, <1>5, <1>6, <1>7, <1>8
<1>10. LedgerOK(Evict(ledger)) /\ Len(Evict(ledger)) = Len(ledger) - 1
  <2>1. Capacity \in Nat
    BY BatchConstants DEF BatchBounds
  <2>2. Len(ledger) - 1 <= Capacity
    BY <1>1, <2>1
  <2>3. Evict(ledger) \in Seq(Entry) /\ Len(Evict(ledger)) = Len(ledger) - 1
    BY <1>7, <1>8
  <2> QED BY <2>2, <2>3 DEF LedgerOK
<1> QED BY <1>2, <1>9, <1>10

\* The number of an attempt follows the ones in the ledger.
LEMMA TriedIs ==
    ASSUME LedgerOK(ledger), NEW base \in Effect, NEW i \in Tried(base), ledger[i].key # base
    PROVE  /\ ledger[i] \in Entry
           /\ Len(base.tries) + 1 \in 1..Len(ledger[i].key.tries)
           /\ ledger[i].key.tries[Len(base.tries) + 1] \in Nat
<1> DEFINE k == ledger[i].key
<1>1. ledger[i] \in Entry
  BY DEF Tried, LedgerOK
<1>2. k \in Effect /\ k.tries \in Seq(Nat) /\ base.tries \in Seq(Nat)
  BY <1>1 DEF Entry, Effect
<1>3. k.op = base.op /\ k.grant = base.grant /\ IsPrefix(base.tries, k.tries)
  BY DEF Tried, IsAttempt
<1> HIDE DEF k
<1>4. Len(base.tries) <= Len(k.tries) /\ SubSeq(base.tries, 1, Len(base.tries)) = SubSeq(k.tries, 1, Len(base.tries))
  BY <1>3 DEF IsPrefix
<1>5. Len(base.tries) # Len(k.tries)
  <2> SUFFICES ASSUME Len(base.tries) = Len(k.tries) PROVE k = base
    BY DEF k
  <2>1. base.tries = k.tries
    BY <1>2, <1>4, SubSeqFull
  <2> QED BY <1>2, <1>3, <2>1 DEF Effect
<1>6. Len(base.tries) + 1 \in 1..Len(k.tries)
  BY <1>2, <1>4, <1>5
<1>7. k.tries[Len(base.tries) + 1] \in Nat
  BY <1>2, <1>6, ElementOfSeq
<1> QED BY <1>1, <1>6, <1>7 DEF k

LEMMA NextAttemptIs ==
    ASSUME LedgerOK(ledger), NEW base \in Effect
    PROVE  \E m \in Nat :
             /\ NextAttempt(base) = [base EXCEPT !.tries = Append(@, 1 + m)]
             /\ \A i \in Tried(base) :
                   ledger[i].key # base => ledger[i].key.tries[Len(base.tries) + 1] <= m
             /\ m = 0 \/ \E i \in Tried(base) :
                   ledger[i].key # base /\ ledger[i].key.tries[Len(base.tries) + 1] = m
<1> DEFINE n == Len(base.tries) + 1
           I == {j \in Tried(base) : ledger[j].key # base}
           v == [i \in I |-> ledger[i].key.tries[n]]
           used == {0} \cup {ledger[i].key.tries[n] : i \in I}
<1>1. v \in [I -> Nat]
  BY TriedIs
<1>2. used = {0} \cup {v[i] : i \in I} /\ used \subseteq Nat
  <2>1. \A i \in I : v[i] = ledger[i].key.tries[n] /\ v[i] \in Nat
    BY <1>1
  <2> HIDE DEF v, I
  <2> QED BY <2>1
<1>3. IsFiniteSet(I)
  <2>1. I \in SUBSET (1..Len(ledger)) /\ Len(ledger) \in Nat
    BY DEF Tried, LedgerOK
  <2>2. IsFiniteSet(1..Len(ledger))
    BY <2>1, FS_Interval
  <2> HIDE DEF I
  <2> QED BY <2>1, <2>2, FS_Subset
<1>4. \E m \in used : \A u \in used : u <= m
  <2>1. CASE I = {}
    BY <2>1
  <2>2. CASE I # {}
    <3>1. PICK x \in I : \A q \in I : v[q] <= v[x]
      <4> HIDE DEF I, v
      <4> QED BY <1>1, <1>3, <2>2, GreatestValue
    <3>2. v[x] \in Nat /\ v[x] \in used
      BY <1>1, <1>2
    <3>3. ASSUME NEW u \in used PROVE u <= v[x]
      <4> HIDE DEF v, I
      <4>1. u = 0 \/ \E i \in I : u = v[i]
        BY <1>2
      <4> QED BY <3>1, <3>2, <4>1
    <3> HIDE DEF v, I, used
    <3> QED BY <3>2, <3>3
  <2> QED BY <2>1, <2>2
<1> DEFINE m == CHOOSE u \in used : \A w \in used : w <= u
<1>5. m \in used /\ \A u \in used : u <= m
  <2> HIDE DEF used
  <2> QED BY <1>4
<1>6. NextAttempt(base) = [base EXCEPT !.tries = Append(@, 1 + m)]
  BY DEF NextAttempt
<1> HIDE DEF m
<1>7. \A i \in I : ledger[i].key.tries[n] <= m
  BY <1>5
<1>8. m = 0 \/ \E i \in I : ledger[i].key.tries[n] = m
  BY <1>5
<1> QED BY <1>2, <1>5, <1>6, <1>7, <1>8

LEMMA KeyIs == ASSUME NEW o \in Op, NEW g \in Call \cup {Unset} PROVE Key(o, g) \in Effect
BY DEF Key, Effect

LEMMA RetryOK ==
    ASSUME LedgerOK(ledger), NEW base \in Effect
    PROVE  /\ Retry(base) \in Effect \cup {Unset}
           /\ NextAttempt(base) \in Effect
<1>1. NextAttempt(base) \in Effect
  <2>1. PICK m \in Nat : NextAttempt(base) = [base EXCEPT !.tries = Append(@, 1 + m)]
    BY NextAttemptIs
  <2>2. base.tries \in Seq(Nat) /\ Append(base.tries, 1 + m) \in Seq(Nat)
    BY DEF Effect
  <2> QED BY <2>1, <2>2 DEF Effect
<1>2. Retry(base) \in {base, NextAttempt(base), Unset}
  <2>1. CASE Tried(base) = {}
    BY <2>1 DEF Retry, Succeeded
  <2>2. CASE Tried(base) # {} /\ Succeeded(base)
    BY <2>2 DEF Retry
  <2>3. CASE Tried(base) # {} /\ ~Succeeded(base)
    BY <2>3 DEF Retry
  <2> QED BY <2>1, <2>2, <2>3
<1> QED BY <1>1, <1>2

LEMMA AdmissionOK ==
    ASSUME LedgerOK(ledger), NEW c \in Call, NEW base \in Effect
    PROVE  Admission(c, base) \in Effect \cup {Unset}
<1> DEFINE same == {e \in Entries : e.key.op = base.op}
           fresh == Key(base.op, c)
<1>1. fresh \in Effect
  BY KeyIs DEF Effect
<1>2. Retry(base) \in Effect \cup {Unset} /\ Retry(fresh) \in Effect \cup {Unset}
  <2> HIDE DEF fresh
  <2> QED BY <1>1, RetryOK
<1>3. Admission(c, base) \in {Retry(base), Retry(fresh), Unset}
  <2>1. CASE base.op \notin Shell \/ same = {}
    BY <2>1 DEF Admission
  <2>2. CASE ~(base.op \notin Shell \/ same = {})
             /\ \E e \in same : e.call = c \/ e.status \in {"in_progress", "unknown"}
    BY <2>2 DEF Admission
  <2>3. CASE /\ ~(base.op \notin Shell \/ same = {})
             /\ ~\E e \in same : e.call = c \/ e.status \in {"in_progress", "unknown"}
             /\ \E e \in same : e.key = fresh
    BY <2>3 DEF Admission
  <2>4. CASE /\ ~(base.op \notin Shell \/ same = {})
             /\ ~\E e \in same : e.call = c \/ e.status \in {"in_progress", "unknown"}
             /\ ~\E e \in same : e.key = fresh
    BY <2>4 DEF Admission
  <2> QED BY <2>1, <2>2, <2>3, <2>4
<1> QED BY <1>2, <1>3

-----------------------------------------------------------------------------
(* Tool calls: types.                                                      *)

\* What a call has when it stands where it stands.
CallKnown(c) ==
    /\ IsEffect(OpOf[c]) /\ stage[c] \in Holding \cup {"acquire", "again"} => key[c] \in Effect
    /\ ~IsEffect(OpOf[c]) => stage[c] \in {"idle", "ready", "invoke", "running", "done"}
    /\ stage[c] \in {"finish", "confirm", "settle"} => verdict[c] \in Status
CallsKnown == \A c \in Call : CallKnown(c)

ScheduleTyped ==
    /\ round \in Nat /\ todo \in Seq(Call) /\ prepared \in Seq(Call) /\ wave \cup shared \subseteq Call
    /\ repeats \in [Op -> Nat]
CallsTyped ==
    /\ stage \in [Call -> Place] /\ key \in [Call -> Effect \cup {Unset}]
    /\ verdict \in [Call -> Status \cup {Unset}] /\ result \in [Call -> {"ok", "failed", Unset}]
LedgersTyped ==
    /\ LedgerOK(ledger) /\ snap \in [Call -> Seq(Entry)] /\ \A c \in Call : LedgerOK(snap[c])
StreamTyped ==
    /\ intents \subseteq Effect /\ leases \subseteq Effect /\ stuck \subseteq Effect
    /\ settled \subseteq Effect \X Status
WorkTyped ==
    /\ running \subseteq Call
    /\ history \in Seq([call : Call, verdict : Status \cup {"running"}])
    /\ aborted \in BOOLEAN /\ batchFaults \in 0..MaxBatchFaults
BatchTyped == ScheduleTyped /\ CallsTyped /\ LedgersTyped /\ StreamTyped /\ WorkTyped /\ CallsKnown

LEMMA BatchTypedIs == BatchTyped <=> BatchTypeOK /\ CallsKnown
BY DEF BatchTyped, BatchTypeOK, ScheduleTyped, CallsTyped, LedgersTyped, StreamTyped, WorkTyped, LedgerOK

USE BatchConstants DEF BatchAssumption, BatchBounds

LEMMA InitBatchTyped == ToolInit => BatchTyped
<1> SUFFICES ASSUME ToolInit PROVE BatchTyped
  OBVIOUS
<1> USE DEF ToolInit
<1>1. ScheduleTyped
  BY DEF ScheduleTyped
<1>2. CallsTyped
  BY DEF CallsTyped, Place
<1>3. LedgersTyped
  <2>1. << >> \in Seq(Entry) /\ Len(<< >>) = 0
    BY EmptySeq
  <2> QED BY <2>1 DEF LedgersTyped, LedgerOK
<1>4. StreamTyped /\ WorkTyped
  <2>1. history \in Seq([call : Call, verdict : Status \cup {"running"}])
    BY EmptySeq
  <2>2. batchFaults \in 0..MaxBatchFaults
    OBVIOUS
  <2> QED BY <2>1, <2>2 DEF StreamTyped, WorkTyped
<1>5. CallsKnown
  BY DEF CallsKnown, CallKnown, Holding
<1> QED BY <1>1, <1>2, <1>3, <1>4, <1>5 DEF BatchTyped

\* A call moves; what it has then is its business alone.
LEMMA MoveTyped ==
    ASSUME BatchTyped, NEW c \in Call, NEW p \in Place, Move(c, p),
           key' \in [Call -> Effect \cup {Unset}], verdict' \in [Call -> Status \cup {Unset}],
           result' \in [Call -> {"ok", "failed", Unset}],
           \A d \in Call \ {c} : key'[d] = key[d] /\ verdict'[d] = verdict[d],
           IsEffect(OpOf[c]) /\ p \in Holding \cup {"acquire", "again"} => key'[c] \in Effect,
           ~IsEffect(OpOf[c]) => p \in {"idle", "ready", "invoke", "running", "done"},
           p \in {"finish", "confirm", "settle"} => verdict'[c] \in Status
    PROVE  CallsTyped' /\ CallsKnown'
<1>1. CallsTyped'
  BY DEF BatchTyped, CallsTyped, Move
<1>2. ASSUME NEW d \in Call PROVE CallKnown(d)'
  <2>1. CASE d = c
    <3>1. stage'[d] = p
      BY <2>1 DEF BatchTyped, CallsTyped, Move
    <3> QED BY <2>1, <3>1 DEF CallKnown
  <2>2. CASE d # c
    <3>1. stage'[d] = stage[d] /\ key'[d] = key[d] /\ verdict'[d] = verdict[d]
      BY <2>2 DEF BatchTyped, CallsTyped, Move
    <3> QED BY <3>1 DEF BatchTyped, CallsKnown, CallKnown
  <2> QED BY <2>1, <2>2
<1> QED BY <1>1, <1>2 DEF CallsKnown

LEMMA AnswerTyped ==
    ASSUME BatchTyped, NEW c \in Call, NEW r \in {"ok", "failed"}, Answer(c, r), UNCHANGED <<key, verdict>>
    PROVE  CallsTyped' /\ CallsKnown'
<1>1. "done" \in Place /\ "done" \notin Holding
  BY DEF Place, Holding
<1> QED BY <1>1, MoveTyped DEF Answer, BatchTyped, CallsTyped

LEMMA EndedTyped ==
    ASSUME BatchTyped, NEW c \in Call, NEW v \in Status, Ended(c, v), UNCHANGED key,
           IsEffect(OpOf[c]) => key[c] \in Effect
    PROVE  CallsTyped' /\ CallsKnown'
<1>1. verdict' = [verdict EXCEPT ![c] = v] /\ verdict' \in [Call -> Status \cup {Unset}] /\ verdict'[c] = v
  BY DEF Ended, BatchTyped, CallsTyped
<1>2. CASE IsEffect(OpOf[c])
  BY <1>1, <1>2, MoveTyped DEF Ended, BatchTyped, CallsTyped, Place, Holding
<1>3. CASE ~IsEffect(OpOf[c])
  BY <1>1, <1>3, MoveTyped DEF Ended, Answer, BatchTyped, CallsTyped, Place, Holding
<1> QED BY <1>2, <1>3

LEMMA NotedOK ==
    ASSUME WorkTyped, NEW c, NEW v \in Status
    PROVE  /\ Noted(c, v) \in Seq([call : Call, verdict : Status \cup {"running"}])
           /\ DOMAIN Noted(c, v) = DOMAIN history
           /\ \A i \in DOMAIN history :
                 /\ Noted(c, v)[i].call = history[i].call
                 /\ Noted(c, v)[i].verdict = IF history[i].call = c THEN v ELSE history[i].verdict
<1> DEFINE H == [call : Call, verdict : Status \cup {"running"}]
           e(i) == IF history[i].call = c THEN [history[i] EXCEPT !.verdict = v] ELSE history[i]
<1>1. history \in Seq(H) /\ DOMAIN history = 1..Len(history) /\ Len(history) \in Nat
  BY DEF WorkTyped
<1>2. ASSUME NEW i \in 1..Len(history)
      PROVE  /\ e(i) \in H /\ e(i).call = history[i].call
             /\ e(i).verdict = IF history[i].call = c THEN v ELSE history[i].verdict
  <2>1. history[i] \in H
    BY <1>1, ElementOfSeq
  <2> QED BY <2>1
<1>3. Noted(c, v) = [i \in 1..Len(history) |-> e(i)]
  BY <1>1 DEF Noted
<1> HIDE DEF e, H
<1>4. [i \in 1..Len(history) |-> e(i)] \in Seq(H)
  BY <1>1, <1>2, IsASeq
<1> QED BY <1>1, <1>2, <1>3, <1>4 DEF H

LEMMA SnapTyped ==
    ASSUME LedgersTyped, LedgerOK(ledger'), NEW c \in Call, snap' = [snap EXCEPT ![c] = << >>]
    PROVE  LedgersTyped'
<1>1. << >> \in Seq(Entry) /\ Len(<< >>) = 0
  BY EmptySeq
<1>2. LedgerOK(<< >>)
  BY <1>1 DEF LedgerOK
<1>3. snap' \in [Call -> Seq(Entry)]
  BY <1>1 DEF LedgersTyped
<1>4. ASSUME NEW d \in Call PROVE LedgerOK(snap'[d])
  BY <1>2 DEF LedgersTyped
<1> QED BY <1>3, <1>4 DEF LedgersTyped, LedgerOK

LEMMA StepBatchTyped == ASSUME BatchTyped, [BatchNext]_batchVars PROVE BatchTyped'
<1> USE DEF BatchTyped
<1>1. ASSUME NextRound PROVE BatchTyped'
  <2>1. ScheduleTyped'
    BY <1>1 DEF NextRound, ScheduleTyped, AskedOnce
  <2> QED BY <1>1, <2>1 DEF NextRound, local, book, CallsTyped, LedgersTyped, StreamTyped, WorkTyped, CallsKnown, CallKnown
<1>2. ASSUME Admit PROVE BatchTyped'
  <2> DEFINE c == Head(todo)
  <2>1. c \in Call /\ Tail(todo) \in Seq(Call)
    BY <1>2, HeadTailProperties DEF Admit, ScheduleTyped
  <2>2. OpOf[c] \in Op
    BY <2>1
  <2> HIDE DEF c
  <2>3. repeats' \in [Op -> Nat]
    BY <1>2, <2>2 DEF Admit, ScheduleTyped, c
  <2>4. prepared' \in Seq(Call)
    <3>1. Append(prepared, c) \in Seq(Call)
      BY <2>1, AppendProperties DEF ScheduleTyped
    <3>2. prepared' \in {prepared, Append(prepared, c)}
      BY <1>2 DEF Admit, c
    <3> QED BY <3>1, <3>2 DEF ScheduleTyped
  <2>5. ScheduleTyped'
    BY <1>2, <2>1, <2>3, <2>4 DEF Admit, ScheduleTyped
  <2>6. CallsTyped' /\ CallsKnown'
    <3>1. UNCHANGED <<key, verdict>>
      BY <1>2 DEF Admit
    <3>2. CASE Move(c, "ready") /\ UNCHANGED result
      BY <2>1, <3>1, <3>2, MoveTyped DEF CallsTyped, Place, Holding
    <3>3. CASE Move(c, "done") /\ result' = [result EXCEPT ![c] = "failed"]
      BY <2>1, <3>1, <3>3, MoveTyped DEF CallsTyped, Place, Holding
    <3> QED BY <1>2, <3>2, <3>3 DEF Admit, Refuse, Answer, c
  <2> QED BY <1>2, <2>5, <2>6 DEF Admit, local, book, LedgersTyped, StreamTyped, WorkTyped
<1>3. ASSUME Deny PROVE BatchTyped'
  <2> DEFINE c == Head(todo)
  <2>1. c \in Call /\ Tail(todo) \in Seq(Call)
    BY <1>3, HeadTailProperties DEF Deny, ScheduleTyped
  <2> HIDE DEF c
  <2>2. ScheduleTyped'
    BY <1>3, <2>1 DEF Deny, ScheduleTyped
  <2>3. CallsTyped' /\ CallsKnown'
    <3>1. UNCHANGED <<key, verdict>> /\ Move(c, "done") /\ result' = [result EXCEPT ![c] = "failed"]
      BY <1>3 DEF Deny, Refuse, Answer, c
    <3> QED BY <2>1, <3>1, MoveTyped DEF CallsTyped, Place, Holding
  <2>4. WorkTyped'
    BY <1>3 DEF Deny, BatchFault, WorkTyped
  <2> QED BY <1>3, <2>2, <2>3, <2>4 DEF Deny, local, book, LedgersTyped, StreamTyped
<1>4. ASSUME Schedule PROVE BatchTyped'
  <2>1. PICK n \in 1..Len(prepared) :
            /\ wave' = {prepared[i] : i \in 1..n}
            /\ shared' \in {shared \cup wave', shared}
            /\ prepared' = SubSeq(prepared, n + 1, Len(prepared))
    BY <1>4 DEF Schedule
  <2>2. Len(prepared) \in Nat /\ \A i \in 1..Len(prepared) : prepared[i] \in Call
    BY ElementOfSeq DEF ScheduleTyped
  <2>3. wave' \cup shared' \subseteq Call
    <3>1. wave' \subseteq Call
      BY <2>1, <2>2
    <3> QED BY <2>1, <3>1 DEF ScheduleTyped
  <2>4. prepared' \in Seq(Call)
    <3>1. \A i \in n + 1..Len(prepared) : prepared[i] \in Call
      BY <2>1, <2>2
    <3> QED BY <2>1, <2>2, <3>1, SubSeqProperties
  <2> QED BY <1>4, <2>3, <2>4 DEF Schedule, local, book, ScheduleTyped, CallsTyped, LedgersTyped, StreamTyped, WorkTyped, CallsKnown, CallKnown
<1>5. ASSUME EndWave PROVE BatchTyped'
  BY <1>5 DEF EndWave, local, book, ScheduleTyped, CallsTyped, LedgersTyped, StreamTyped, WorkTyped, CallsKnown, CallKnown
<1>6. ASSUME NEW c \in Call, Begin(c) PROVE BatchTyped'
  <2> DEFINE base == IF stage[c] = "ready" THEN Key(OpOf[c], Unset) ELSE key[c]
             k == Admission(c, base)
  <2>1. c \in wave /\ stage[c] \in {"ready", "again"}
    BY <1>6 DEF Begin
  <2>2. IsEffect(OpOf[c]) => base \in Effect
    <3>1. CASE stage[c] = "ready"
      BY <3>1, KeyIs
    <3>2. CASE stage[c] = "again"
      BY <3>2 DEF CallsKnown, CallKnown
    <3> QED BY <2>1, <3>1, <3>2
  <2> HIDE DEF base
  <2>3. IsEffect(OpOf[c]) => k \in Effect \cup {Unset}
    BY <2>2, AdmissionOK DEF LedgersTyped
  <2>4. CallsTyped' /\ CallsKnown'
    <3>1. UNCHANGED verdict
      BY <1>6 DEF Begin
    <3>2. CASE ~IsEffect(OpOf[c]) /\ Move(c, "invoke") /\ UNCHANGED <<key, result>>
      BY <3>1, <3>2, MoveTyped DEF CallsTyped, Place
    <3>3. CASE Move(c, "done") /\ result' = [result EXCEPT ![c] = "failed"] /\ UNCHANGED key
      BY <3>1, <3>3, MoveTyped DEF CallsTyped, Place, Holding
    <3>4. CASE IsEffect(OpOf[c]) /\ k # Unset /\ Move(c, "acquire") /\ key' = [key EXCEPT ![c] = k] /\ UNCHANGED result
      <4> HIDE DEF k
      <4>1. k \in Effect
        BY <2>3, <3>4
      <4> QED BY <3>1, <3>4, <4>1, MoveTyped DEF CallsTyped, Place
    <3> QED BY <1>6, <3>2, <3>3, <3>4 DEF Begin, Refuse, Answer, base
  <2> QED BY <1>6, <2>4 DEF Begin, batch, book, ScheduleTyped, LedgersTyped, StreamTyped, WorkTyped
<1>7. ASSUME NEW c \in Call, Acquire(c) PROVE BatchTyped'
  <2>1. stage[c] = "acquire" /\ IsEffect(OpOf[c]) /\ key[c] \in Effect
    BY <1>7 DEF Acquire, CallsKnown, CallKnown
  <2>2. CallsTyped' /\ CallsKnown'
    <3>1. UNCHANGED <<key, verdict>>
      BY <1>7 DEF Acquire
    <3>2. CASE Move(c, "done") /\ result' = [result EXCEPT ![c] = "failed"]
      BY <2>1, <3>1, <3>2, MoveTyped DEF CallsTyped, Place, Holding
    <3>3. CASE Move(c, "record") /\ UNCHANGED result
      BY <2>1, <3>1, <3>3, MoveTyped DEF CallsTyped, Place, Holding
    <3> QED BY <1>7, <3>2, <3>3 DEF Acquire, Refuse, Answer
  <2>3. StreamTyped'
    BY <1>7, <2>1 DEF Acquire, StreamTyped
  <2>4. WorkTyped'
    BY <1>7 DEF Acquire, BatchFault, Faultless, WorkTyped
  <2> QED BY <1>7, <2>2, <2>3, <2>4 DEF Acquire, batch, ScheduleTyped, LedgersTyped
<1>8. ASSUME NEW c \in Call, Record(c) PROVE BatchTyped'
  <2> DEFINE e == [key |-> key[c], call |-> c, status |-> "in_progress"]
  <2>1. stage[c] = "record" /\ IsEffect(OpOf[c]) /\ key[c] \in Effect
    BY <1>8 DEF Record, CallsKnown, CallKnown, Holding, Place
  <2>2. e \in Entry
    BY <2>1 DEF Entry, Status
  <2>3. Room \in Seq(Entry) /\ Len(Room) <= Capacity - 1
    <3>1. CASE Full
      <4>1. Evictable # {}
        BY <1>8, <3>1 DEF Record
      <4>2. LedgerOK(Evict(ledger)) /\ Len(Evict(ledger)) = Len(ledger) - 1
        BY <4>1, EvictIs DEF LedgersTyped
      <4> QED BY <3>1, <4>2 DEF Room, LedgersTyped, LedgerOK
    <3>2. CASE ~Full
      <4>1. ledger \in Seq(Entry) /\ Len(ledger) \in Nat
        BY DEF LedgersTyped, LedgerOK
      <4> QED BY <3>2, <4>1 DEF Room, Full
    <3> QED BY <3>1, <3>2
  <2>4. LedgersTyped'
    <3>1. ledger' = Append(Room, e) /\ UNCHANGED snap
      BY <1>8 DEF Record, local
    <3>2. LedgerOK(ledger')
      <4> HIDE DEF e
      <4>1. Append(Room, e) \in Seq(Entry) /\ Len(Append(Room, e)) = Len(Room) + 1
        BY <2>2, <2>3, AppendProperties
      <4>2. Len(Room) \in Nat
        BY <2>3
      <4> QED BY <2>3, <3>1, <4>1, <4>2 DEF LedgerOK
    <3> QED BY <3>1, <3>2 DEF LedgersTyped, LedgerOK
  <2>5. CallsTyped' /\ CallsKnown'
    <3>1. UNCHANGED <<key, verdict, result>> /\ Move(c, "intent")
      BY <1>8 DEF Record, local
    <3> QED BY <2>1, <3>1, MoveTyped DEF CallsTyped, Place, Holding
  <2> QED BY <1>8, <2>4, <2>5 DEF Record, batch, ScheduleTyped, StreamTyped, WorkTyped
<1>9. ASSUME NEW c \in Call, RecordedMeanwhile(c) PROVE BatchTyped'
  <2>1. stage[c] = "record" /\ IsEffect(OpOf[c]) /\ key[c] \in Effect
    BY <1>9 DEF RecordedMeanwhile, CallsKnown, CallKnown, Holding, Place
  <2>2. CallsTyped' /\ CallsKnown'
    <3>1. UNCHANGED <<key, verdict>>
      BY <1>9 DEF RecordedMeanwhile
    <3>2. CASE Move(c, "done") /\ result' = [result EXCEPT ![c] = "failed"]
      BY <2>1, <3>1, <3>2, MoveTyped DEF CallsTyped, Place, Holding
    <3>3. CASE Move(c, "again") /\ UNCHANGED result
      BY <2>1, <3>1, <3>3, MoveTyped DEF CallsTyped, Place, Holding
    <3> QED BY <1>9, <3>2, <3>3 DEF RecordedMeanwhile, Refuse, Answer
  <2>3. StreamTyped' /\ WorkTyped'
    BY <1>9, <2>1 DEF RecordedMeanwhile, GiveUp, BatchFault, Faultless, StreamTyped, WorkTyped
  <2> QED BY <1>9, <2>2, <2>3 DEF RecordedMeanwhile, batch, ScheduleTyped, LedgersTyped
<1>10. ASSUME NEW c \in Call, Intent(c) PROVE BatchTyped'
  <2>1. stage[c] = "intent" /\ IsEffect(OpOf[c]) /\ key[c] \in Effect
    BY <1>10 DEF Intent, CallsKnown, CallKnown, Holding, Place
  <2>2. CallsTyped' /\ CallsKnown'
    <3>1. UNCHANGED <<key, result>>
      BY <1>10 DEF Intent
    <3>2. CASE Move(c, "finish") /\ verdict' = [verdict EXCEPT ![c] = "cancelled"]
      BY <2>1, <3>1, <3>2, MoveTyped DEF CallsTyped, Place, Holding, Status
    <3>3. CASE Move(c, "checkpoint") /\ UNCHANGED verdict
      BY <2>1, <3>1, <3>3, MoveTyped DEF CallsTyped, Place, Holding
    <3> QED BY <1>10, <3>2, <3>3 DEF Intent, AfterIntent
  <2>3. StreamTyped'
    BY <1>10, <2>1 DEF Intent, StreamTyped
  <2> QED BY <1>10, <2>2, <2>3 DEF Intent, batch, ScheduleTyped, LedgersTyped, WorkTyped
<1>11. ASSUME NEW c \in Call, IntentFails(c) PROVE BatchTyped'
  <2>1. stage[c] = "intent" /\ IsEffect(OpOf[c]) /\ key[c] \in Effect
    BY <1>11 DEF IntentFails, CallsKnown, CallKnown, Holding, Place
  <2>2. CallsTyped' /\ CallsKnown'
    <3>1. UNCHANGED <<key, verdict>> /\ Move(c, "done") /\ result' = [result EXCEPT ![c] = "failed"]
      BY <1>11 DEF IntentFails, Refuse, Answer
    <3> QED BY <2>1, <3>1, MoveTyped DEF CallsTyped, Place, Holding
  <2>3. StreamTyped' /\ WorkTyped'
    BY <1>11, <2>1 DEF IntentFails, BatchFault, Faultless, StreamTyped, WorkTyped
  <2>4. LedgersTyped'
    <3>1. LedgerOK(ledger') /\ UNCHANGED snap
      BY <1>11, StatusOf DEF IntentFails, LedgersTyped, Status
    <3> QED BY <3>1 DEF LedgersTyped, LedgerOK
  <2> QED BY <1>11, <2>2, <2>3, <2>4 DEF IntentFails, batch, ScheduleTyped
<1>12. ASSUME NEW c \in Call, Checkpoint(c) PROVE BatchTyped'
  <2>1. stage[c] = "checkpoint" /\ IsEffect(OpOf[c]) /\ key[c] \in Effect
    BY <1>12 DEF Checkpoint, CallsKnown, CallKnown, Holding, Place
  <2>2. CallsTyped' /\ CallsKnown'
    <3>1. UNCHANGED <<key, result>>
      BY <1>12 DEF Checkpoint
    <3>2. CASE Move(c, "finish") /\ verdict' = [verdict EXCEPT ![c] = "failed"]
      BY <2>1, <3>1, <3>2, MoveTyped DEF CallsTyped, Place, Holding, Status
    <3>3. CASE Move(c, "invoke") /\ UNCHANGED verdict
      BY <2>1, <3>1, <3>3, MoveTyped DEF CallsTyped, Place, Holding
    <3> QED BY <1>12, <3>2, <3>3 DEF Checkpoint
  <2>3. WorkTyped'
    BY <1>12 DEF Checkpoint, BatchFault, Faultless, WorkTyped
  <2> QED BY <1>12, <2>2, <2>3 DEF Checkpoint, batch, book, ScheduleTyped, LedgersTyped, StreamTyped
<1>13. ASSUME NEW c \in Call, Invoke(c) PROVE BatchTyped'
  <2>1. stage[c] = "invoke" /\ (IsEffect(OpOf[c]) => key[c] \in Effect)
    BY <1>13 DEF Invoke, CallsKnown, CallKnown, Holding, Place
  <2>2. CASE aborted
    <3>1. Ended(c, "unknown") /\ UNCHANGED <<running, history>>
      BY <1>13, <2>2 DEF Invoke
    <3>2. CallsTyped' /\ CallsKnown'
      BY <1>13, <2>1, <3>1, EndedTyped DEF Invoke, Status
    <3> QED BY <1>13, <3>1, <3>2 DEF Invoke, batch, book, ScheduleTyped, LedgersTyped, StreamTyped, WorkTyped
  <2>3. CASE ~aborted
    <3>1. /\ running' = running \cup {c} /\ history' = Append(history, [call |-> c, verdict |-> "running"])
          /\ Move(c, "running") /\ UNCHANGED <<verdict, result, key, aborted, batchFaults>>
      BY <1>13, <2>3 DEF Invoke
    <3>2. CallsTyped' /\ CallsKnown'
      BY <2>1, <3>1, MoveTyped DEF CallsTyped, Place, Holding
    <3>3. history' \in Seq([call : Call, verdict : Status \cup {"running"}])
      BY <3>1 DEF WorkTyped
    <3>4. WorkTyped'
      BY <3>1, <3>3 DEF WorkTyped
    <3> QED BY <1>13, <3>2, <3>4 DEF Invoke, batch, book, ScheduleTyped, LedgersTyped, StreamTyped
  <2> QED BY <2>2, <2>3
<1>14. ASSUME NEW c \in Call, NEW v \in Status, Return(c, v) PROVE BatchTyped'
  <2>1. stage[c] = "running" /\ (IsEffect(OpOf[c]) => key[c] \in Effect) /\ UNCHANGED key
    BY <1>14 DEF Return, CallsKnown, CallKnown, Holding, Place
  <2>2. CallsTyped' /\ CallsKnown'
    BY <1>14, <2>1, EndedTyped DEF Return
  <2>3. history' \in Seq([call : Call, verdict : Status \cup {"running"}])
    BY <1>14, NotedOK DEF Return, WorkTyped
  <2>4. WorkTyped'
    BY <1>14, <2>3 DEF Return, BatchFault, Faultless, WorkTyped
  <2> QED BY <1>14, <2>2, <2>4 DEF Return, batch, book, ScheduleTyped, LedgersTyped, StreamTyped
<1>15. ASSUME NEW c \in Call, CutShort(c) PROVE BatchTyped'
  <2>1. stage[c] = "running" /\ (IsEffect(OpOf[c]) => key[c] \in Effect) /\ UNCHANGED key
    BY <1>15 DEF CutShort, CallsKnown, CallKnown, Holding, Place
  <2>2. CallsTyped' /\ CallsKnown'
    BY <1>15, <2>1, EndedTyped DEF CutShort, Status
  <2>3. history' \in Seq([call : Call, verdict : Status \cup {"running"}])
    BY <1>15, NotedOK DEF CutShort, WorkTyped, Status
  <2>4. WorkTyped'
    BY <1>15, <2>3 DEF CutShort, BatchFault, Faultless, WorkTyped
  <2> QED BY <1>15, <2>2, <2>4 DEF CutShort, batch, book, ScheduleTyped, LedgersTyped, StreamTyped
<1>16. ASSUME NEW c \in Call, StopLate(c) PROVE BatchTyped'
  BY <1>16 DEF StopLate, batch, local, book, ScheduleTyped, CallsTyped, LedgersTyped, StreamTyped, WorkTyped, CallsKnown, CallKnown
<1>17. ASSUME NEW c \in Call, FinishCall(c) PROVE BatchTyped'
  <2>1. stage[c] = "finish" /\ IsEffect(OpOf[c]) /\ key[c] \in Effect /\ verdict[c] \in Status
    BY <1>17 DEF FinishCall, CallsKnown, CallKnown, Holding, Place
  <2>2. CallsTyped' /\ CallsKnown'
    <3>1. UNCHANGED <<key, verdict>>
      BY <1>17 DEF FinishCall
    <3>2. CASE \E r \in {"ok", "failed"} : Answer(c, r)
      BY <2>1, <3>1, <3>2, AnswerTyped
    <3>3. CASE Move(c, "confirm") /\ UNCHANGED result
      BY <2>1, <3>1, <3>3, MoveTyped DEF CallsTyped, Place, Holding
    <3> QED BY <1>17, <3>2, <3>3 DEF FinishCall
  <2>3. LedgersTyped'
    <3>1. UNCHANGED ledger /\ (UNCHANGED snap \/ snap' = [snap EXCEPT ![c] = ledger])
      BY <1>17 DEF FinishCall, book
    <3> QED BY <3>1 DEF LedgersTyped, LedgerOK
  <2> QED BY <1>17, <2>2, <2>3 DEF FinishCall, batch, book, ScheduleTyped, StreamTyped, WorkTyped
<1>18. ASSUME NEW c \in Call, Confirm(c) PROVE BatchTyped'
  <2>1. stage[c] = "confirm" /\ IsEffect(OpOf[c]) /\ key[c] \in Effect /\ verdict[c] \in Status
    BY <1>18 DEF Confirm, CallsKnown, CallKnown, Holding, Place
  <2>2. CallsTyped' /\ CallsKnown'
    <3>1. UNCHANGED <<key, verdict, result>> /\ Move(c, "settle")
      BY <1>18 DEF Confirm
    <3> QED BY <2>1, <3>1, MoveTyped DEF CallsTyped, Place, Holding
  <2>3. LedgersTyped'
    <3>1. ledger' = WithStatus(snap[c], key[c], verdict[c]) /\ snap' = [snap EXCEPT ![c] = << >>]
      BY <1>18 DEF Confirm, Merged
    <3>2. LedgerOK(ledger')
      BY <2>1, <3>1, StatusOf DEF LedgersTyped
    <3> QED BY <3>1, <3>2, SnapTyped
  <2> QED BY <1>18, <2>2, <2>3 DEF Confirm, batch, ScheduleTyped, StreamTyped, WorkTyped
<1>19. ASSUME NEW c \in Call, ConfirmFails(c) PROVE BatchTyped'
  <2>1. stage[c] = "confirm" /\ IsEffect(OpOf[c]) /\ key[c] \in Effect
    BY <1>19 DEF ConfirmFails, CallsKnown, CallKnown, Holding, Place
  <2>2. CallsTyped' /\ CallsKnown'
    <3>1. UNCHANGED <<key, verdict>> /\ Answer(c, "failed")
      BY <1>19 DEF ConfirmFails, Refuse
    <3> QED BY <2>1, <3>1, AnswerTyped
  <2>3. LedgersTyped'
    <3>1. ledger' = WithStatus(ledger, key[c], "unknown") /\ snap' = [snap EXCEPT ![c] = << >>]
      BY <1>19 DEF ConfirmFails
    <3>2. LedgerOK(ledger')
      BY <2>1, <3>1, StatusOf DEF LedgersTyped, Status
    <3> QED BY <3>1, <3>2, SnapTyped
  <2>4. WorkTyped'
    BY <1>19 DEF ConfirmFails, BatchFault, Faultless, WorkTyped
  <2> QED BY <1>19, <2>2, <2>3, <2>4 DEF ConfirmFails, batch, ScheduleTyped, StreamTyped
<1>20. ASSUME NEW c \in Call, Settle(c) PROVE BatchTyped'
  <2>1. stage[c] = "settle" /\ IsEffect(OpOf[c]) /\ key[c] \in Effect /\ verdict[c] \in Status
    BY <1>20 DEF Settle, CallsKnown, CallKnown, Holding, Place
  <2>2. CallsTyped' /\ CallsKnown'
    <3>1. UNCHANGED <<key, verdict>> /\ \E r \in {"ok", "failed"} : Answer(c, r)
      BY <1>20 DEF Settle, Refuse
    <3> QED BY <2>1, <3>1, AnswerTyped
  <2>3. StreamTyped' /\ WorkTyped'
    BY <1>20, <2>1 DEF Settle, GiveUp, BatchFault, Faultless, StreamTyped, WorkTyped
  <2> QED BY <1>20, <2>2, <2>3 DEF Settle, batch, ScheduleTyped, LedgersTyped
<1>21. ASSUME NEW c \in Call, SettleFails(c) PROVE BatchTyped'
  <2>1. stage[c] = "settle" /\ IsEffect(OpOf[c]) /\ key[c] \in Effect /\ verdict[c] \in Status
    BY <1>21 DEF SettleFails, CallsKnown, CallKnown, Holding, Place
  <2>2. CallsTyped' /\ CallsKnown'
    <3>1. UNCHANGED <<key, verdict>> /\ Answer(c, "failed")
      BY <1>21 DEF SettleFails, Refuse
    <3> QED BY <2>1, <3>1, AnswerTyped
  <2>3. StreamTyped' /\ WorkTyped'
    BY <1>21, <2>1 DEF SettleFails, BatchFault, Faultless, StreamTyped, WorkTyped
  <2>4. LedgersTyped'
    <3>1. LedgerOK(ledger') /\ UNCHANGED snap
      BY <1>21, StatusOf DEF SettleFails, Unsettled, LedgersTyped, Status
    <3> QED BY <3>1 DEF LedgersTyped, LedgerOK
  <2> QED BY <1>21, <2>2, <2>3, <2>4 DEF SettleFails, batch, ScheduleTyped
<1>22. ASSUME Abort PROVE BatchTyped'
  BY <1>22 DEF Abort, BatchFault, batch, local, book, ScheduleTyped, CallsTyped, LedgersTyped, StreamTyped, WorkTyped, CallsKnown, CallKnown
<1>23. ASSUME NEW k \in leases, LoseLease(k) PROVE BatchTyped'
  BY <1>23 DEF LoseLease, BatchFault, batch, local, ScheduleTyped, CallsTyped, LedgersTyped, StreamTyped, WorkTyped, CallsKnown, CallKnown
<1>24. ASSUME UNCHANGED batchVars PROVE BatchTyped'
  BY <1>24 DEF batchVars, batch, local, book, ScheduleTyped, CallsTyped, LedgersTyped, StreamTyped, WorkTyped, CallsKnown, CallKnown
<1> QED BY <1>1, <1>2, <1>3, <1>4, <1>5, <1>6, <1>7, <1>8, <1>9, <1>10, <1>11, <1>12, <1>13, <1>14, <1>15, <1>16,
           <1>17, <1>18, <1>19, <1>20, <1>21, <1>22, <1>23, <1>24 DEF BatchNext, ServiceStep, CallStep

-----------------------------------------------------------------------------
(* Tool calls: the scheduler.  A call is asked for once, and the calls that *)
(* are past their preparation are those of the wave.                        *)

Waiting ==
    /\ \A i \in DOMAIN todo : stage[todo[i]] = "idle"
    /\ \A i, j \in DOMAIN todo : todo[i] = todo[j] => i = j
RoundsToCome ==
    \A r \in DOMAIN Rounds : r > round =>
        \A i \in DOMAIN Rounds[r] :
            /\ stage[Rounds[r][i]] = "idle"
            /\ \A j \in DOMAIN todo : todo[j] # Rounds[r][i]
InWave == \A c \in Call : stage[c] \notin {"idle", "ready", "done"} => c \in wave
WaveApart == \A c, d \in wave : c # d => Apart(OpOf[c], OpOf[d])
ScheduleInv == Waiting /\ RoundsToCome /\ InWave /\ WaveApart

LEMMA ApartIsSymmetric == ASSUME NEW o, NEW p, Apart(o, p) PROVE Apart(p, o)
BY DEF Apart, Conflict, Overlap

LEMMA InitSchedule == ToolInit => ScheduleInv
<1> SUFFICES ASSUME ToolInit PROVE ScheduleInv
  OBVIOUS
<1>1. todo = << >> /\ DOMAIN todo = {} /\ wave = {} /\ stage = [c \in Call |-> "idle"]
  BY DEF ToolInit
<1>2. \A r \in DOMAIN Rounds : \A i \in DOMAIN Rounds[r] : Rounds[r][i] \in Call
  <2> TAKE r \in DOMAIN Rounds
  <2>1. Rounds[r] \in Seq(Call)
    BY ElementOfSeq DEF AskedOnce
  <2> QED BY <2>1, ElementOfSeq
<1>3. Waiting /\ InWave /\ WaveApart
  BY <1>1 DEF Waiting, InWave, WaveApart
<1>4. RoundsToCome
  BY <1>1, <1>2 DEF RoundsToCome
<1> QED BY <1>3, <1>4 DEF ScheduleInv

\* A step of a call of the wave moves that call only.
MovesOn(c) ==
    /\ stage[c] \notin {"idle", "done"}
    /\ \E p \in Place \ {"idle"} : Move(c, p)

LEMMA CallMoves ==
    ASSUME BatchTyped, NEW c \in Call,
           CallStep(c) \/ CutShort(c) \/ \E v \in Status : Return(c, v)
    PROVE  UNCHANGED batch /\ MovesOn(c) /\ (stage[c] = "ready" => c \in wave)
<1> USE DEF MovesOn, Place, Refuse, Answer
<1>1. CASE Begin(c)
  BY <1>1 DEF Begin
<1>2. CASE Acquire(c)
  BY <1>2 DEF Acquire
<1>3. CASE Record(c) \/ RecordedMeanwhile(c)
  BY <1>3 DEF Record, RecordedMeanwhile
<1>4. CASE Intent(c)
  BY <1>4 DEF Intent, AfterIntent
<1>5. CASE IntentFails(c)
  BY <1>5 DEF IntentFails
<1>6. CASE Checkpoint(c)
  BY <1>6 DEF Checkpoint
<1>7. CASE Invoke(c)
  BY <1>7 DEF Invoke, Ended
<1>8. CASE FinishCall(c)
  BY <1>8 DEF FinishCall
<1>9. CASE Confirm(c) \/ ConfirmFails(c)
  BY <1>9 DEF Confirm, ConfirmFails
<1>10. CASE Settle(c) \/ SettleFails(c)
  BY <1>10 DEF Settle, SettleFails
<1>11. CASE CutShort(c)
  BY <1>11 DEF CutShort, Ended
<1>12. ASSUME NEW v \in Status, Return(c, v) PROVE UNCHANGED batch /\ MovesOn(c) /\ (stage[c] = "ready" => c \in wave)
  BY <1>12 DEF Return, Ended
<1> QED BY <1>1, <1>2, <1>3, <1>4, <1>5, <1>6, <1>7, <1>8, <1>9, <1>10, <1>11, <1>12 DEF CallStep

LEMMA StepSchedule == BatchTyped /\ ScheduleInv /\ [BatchNext]_batchVars => ScheduleInv'
<1> SUFFICES ASSUME BatchTyped, ScheduleInv, [BatchNext]_batchVars PROVE ScheduleInv'
  OBVIOUS
<1> USE DEF ScheduleInv
<1>0. /\ round \in Nat /\ todo \in Seq(Call) /\ prepared \in Seq(Call) /\ wave \subseteq Call
      /\ stage \in [Call -> Place]
  BY DEF BatchTyped, ScheduleTyped, CallsTyped
<1>a. \A r \in DOMAIN Rounds : Rounds[r] \in Seq(Call) /\ \A i \in DOMAIN Rounds[r] : Rounds[r][i] \in Call
  <2> TAKE r \in DOMAIN Rounds
  <2>1. Rounds[r] \in Seq(Call)
    BY ElementOfSeq DEF AskedOnce
  <2> QED BY <2>1, ElementOfSeq
<1>1. CASE NextRound
  <2>1. /\ todo = << >> /\ round' = round + 1 /\ round + 1 \in DOMAIN Rounds /\ todo' = Rounds[round + 1]
        /\ wave' = wave /\ stage' = stage
    <3>1. Len(Rounds) \in Nat /\ DOMAIN Rounds = 1..Len(Rounds)
      BY DEF AskedOnce
    <3> QED BY <1>0, <1>1, <3>1 DEF NextRound
  <2>2. Waiting'
    <3>1. \A i \in DOMAIN todo' : stage[todo'[i]] = "idle"
      BY <1>0, <2>1 DEF RoundsToCome
    <3>2. \A i, j \in DOMAIN todo' : todo'[i] = todo'[j] => i = j
      BY <2>1 DEF AskedOnce
    <3> QED BY <2>1, <3>1, <3>2 DEF Waiting
  <2>3. RoundsToCome'
    <3> SUFFICES ASSUME NEW r \in DOMAIN Rounds, r > round', NEW i \in DOMAIN Rounds[r]
                 PROVE  stage'[Rounds[r][i]] = "idle" /\ \A j \in DOMAIN todo' : todo'[j] # Rounds[r][i]
      BY DEF RoundsToCome
    <3>1. r > round /\ r # round + 1
      <4>1. r \in Nat
        BY DEF AskedOnce
      <4> QED BY <1>0, <2>1, <4>1
    <3>2. stage[Rounds[r][i]] = "idle"
      BY <3>1 DEF RoundsToCome
    <3>3. \A j \in DOMAIN Rounds[round + 1] : Rounds[round + 1][j] # Rounds[r][i]
      BY <2>1, <3>1 DEF AskedOnce
    <3> QED BY <2>1, <3>2, <3>3
  <2>4. InWave' /\ WaveApart'
    BY <2>1 DEF InWave, WaveApart
  <2> QED BY <2>2, <2>3, <2>4
<1>2. ASSUME Admit \/ Deny PROVE ScheduleInv'
  <2> DEFINE c == Head(todo)
  <2>1. /\ todo # << >> /\ todo' = Tail(todo) /\ round' = round /\ wave' = wave
        /\ \E p \in {"ready", "done"} : stage' = [stage EXCEPT ![c] = p]
    BY <1>2 DEF Admit, Deny, Move, Refuse, Answer
  <2>2. PICK p \in {"ready", "done"} : stage' = [stage EXCEPT ![c] = p]
    BY <2>1
  <2>3. /\ Len(todo) \in Nat \ {0} /\ DOMAIN todo = 1..Len(todo) /\ c = todo[1] /\ c \in Call
        /\ \A i \in 1..Len(todo) : todo[i] \in Call
    BY <1>0, <2>1
  <2>4. /\ DOMAIN todo' = 1..Len(todo) - 1
        /\ \A i \in 1..Len(todo) - 1 : todo'[i] = todo[i + 1] /\ i + 1 \in 1..Len(todo) /\ i + 1 # 1
    BY <1>0, <2>1, <2>3
  <2> HIDE DEF c
  <2>5. Waiting'
    <3>1. ASSUME NEW i \in DOMAIN todo' PROVE stage'[todo'[i]] = "idle"
      <4>1. todo'[i] = todo[i + 1] /\ i + 1 \in DOMAIN todo /\ i + 1 # 1
        BY <2>3, <2>4
      <4>2. todo[i + 1] # c /\ stage[todo[i + 1]] = "idle" /\ todo[i + 1] \in Call
        BY <2>3, <4>1 DEF Waiting
      <4> QED BY <1>0, <2>2, <4>1, <4>2
    <3>2. ASSUME NEW i \in DOMAIN todo', NEW j \in DOMAIN todo', todo'[i] = todo'[j] PROVE i = j
      <4>1. todo[i + 1] = todo[j + 1] /\ i + 1 \in DOMAIN todo /\ j + 1 \in DOMAIN todo
        BY <2>3, <2>4, <3>2
      <4>2. i + 1 = j + 1
        BY <4>1 DEF Waiting
      <4> QED BY <2>4, <4>2
    <3> QED BY <3>1, <3>2 DEF Waiting
  <2>6. RoundsToCome'
    <3> SUFFICES ASSUME NEW r \in DOMAIN Rounds, r > round, NEW i \in DOMAIN Rounds[r]
                 PROVE  stage'[Rounds[r][i]] = "idle" /\ \A j \in DOMAIN todo' : todo'[j] # Rounds[r][i]
      BY <2>1 DEF RoundsToCome
    <3>1. stage[Rounds[r][i]] = "idle" /\ \A j \in DOMAIN todo : todo[j] # Rounds[r][i]
      BY DEF RoundsToCome
    <3>2. Rounds[r][i] # c /\ Rounds[r][i] \in Call
      BY <1>a, <2>3, <3>1
    <3>3. ASSUME NEW j \in DOMAIN todo' PROVE todo'[j] # Rounds[r][i]
      <4>1. todo'[j] = todo[j + 1] /\ j + 1 \in DOMAIN todo
        BY <2>3, <2>4
      <4> QED BY <3>1, <4>1
    <3> QED BY <1>0, <2>2, <3>1, <3>2, <3>3
  <2>7. InWave' /\ WaveApart'
    BY <1>0, <2>1, <2>2, <2>3 DEF InWave, WaveApart
  <2> QED BY <2>5, <2>6, <2>7
<1>3. CASE Schedule
  <2>1. /\ UNCHANGED <<round, todo, stage>> /\ wave = {}
        /\ \E n \in 1..Len(prepared) : Together(n) /\ wave' = {prepared[i] : i \in 1..n}
    BY <1>3 DEF Schedule
  <2>2. PICK n \in 1..Len(prepared) : Together(n) /\ wave' = {prepared[i] : i \in 1..n}
    BY <2>1
  <2>3. WaveApart'
    <3> SUFFICES ASSUME NEW c \in wave', NEW d \in wave', c # d PROVE Apart(OpOf[c], OpOf[d])
      BY DEF WaveApart
    <3>1. PICK i \in 1..n, j \in 1..n : c = prepared[i] /\ d = prepared[j]
      BY <2>2
    <3>2. CASE i < j
      BY <2>2, <3>1, <3>2 DEF Together
    <3>3. CASE j < i
      <4>1. Apart(OpOf[d], OpOf[c])
        BY <2>2, <3>1, <3>3 DEF Together
      <4> QED BY <4>1, ApartIsSymmetric
    <3> QED BY <1>0, <3>1, <3>2, <3>3
  <2> QED BY <2>1, <2>3 DEF Waiting, RoundsToCome, InWave
<1>4. CASE EndWave
  <2>1. UNCHANGED <<round, todo, stage>> /\ wave' = {} /\ \A c \in wave : stage[c] = "done"
    BY <1>4 DEF EndWave
  <2> QED BY <2>1 DEF Waiting, RoundsToCome, InWave, WaveApart
<1>5. ASSUME NEW c \in Call, CallStep(c) \/ CutShort(c) \/ \E v \in Status : Return(c, v)
      PROVE  ScheduleInv'
  <2>1. UNCHANGED <<round, todo, wave>> /\ MovesOn(c) /\ c \in wave
    BY <1>5, CallMoves DEF batch, MovesOn, InWave
  <2>2. PICK p \in Place : stage' = [stage EXCEPT ![c] = p]
    BY <2>1 DEF MovesOn, Move
  <2>3. stage[c] # "idle" /\ \A d \in Call : d # c => stage'[d] = stage[d]
    BY <1>0, <2>1, <2>2 DEF MovesOn
  <2>4. Waiting'
    <3>1. \A i \in DOMAIN todo : todo[i] \in Call
      BY <1>0
    <3> QED BY <2>1, <2>3, <3>1 DEF Waiting
  <2>5. RoundsToCome'
    BY <1>a, <2>1, <2>3 DEF RoundsToCome
  <2>6. InWave' /\ WaveApart'
    BY <2>1, <2>3 DEF InWave, WaveApart
  <2> QED BY <2>4, <2>5, <2>6
<1>6. ASSUME UNCHANGED <<batch, stage>> PROVE ScheduleInv'
  BY <1>6 DEF batch, Waiting, RoundsToCome, InWave, WaveApart
<1>7. ASSUME NEW c \in Call, StopLate(c) PROVE ScheduleInv'
  BY <1>6, <1>7 DEF StopLate
<1>8. ASSUME Abort PROVE ScheduleInv'
  BY <1>6, <1>8 DEF Abort
<1>9. ASSUME NEW k \in leases, LoseLease(k) PROVE ScheduleInv'
  BY <1>6, <1>9 DEF LoseLease
<1>10. ASSUME UNCHANGED batchVars PROVE ScheduleInv'
  BY <1>6, <1>10 DEF batchVars
<1> QED BY <1>1, <1>2, <1>3, <1>4, <1>5, <1>7, <1>8, <1>9, <1>10 DEF BatchNext, ServiceStep

-----------------------------------------------------------------------------
(* Tool calls: who makes an effect.  From its lease on an effect has one call, *)
(* and from its intent on that call is the one that may settle it.            *)

Makes(c) == IsEffect(OpOf[c]) /\ stage[c] \in Holding
PastIntent(c) ==
    IsEffect(OpOf[c])
    /\ stage[c] \in {"checkpoint", "invoke", "running", "finish", "confirm", "settle"}
NotSettled(k) == \A s \in Status : <<k, s>> \notin settled

OneMaker == \A c, d \in Call : c # d /\ Makes(c) /\ Makes(d) => key[c] # key[d]
IntendedOnly == \A c \in Call : PastIntent(c) => key[c] \in intents /\ NotSettled(key[c])
MakerInv == EffectsAreLeased /\ OneMaker /\ IntendedOnly /\ SettledOnce

LEMMA InitMaker == ToolInit => MakerInv
BY DEF ToolInit, MakerInv, EffectsAreLeased, OneMaker, Makes, IntendedOnly, PastIntent, SettledOnce, Holding, Place

LEMMA PastIntentMakes == ASSUME NEW c \in Call, PastIntent(c) PROVE Makes(c)
BY DEF PastIntent, Makes, Holding, Place

\* A call that moves on without giving up its lease.
LEMMA MakerMoves ==
    ASSUME BatchTyped, MakerInv, NEW c \in Call, NEW p \in Place, Move(c, p),
           \A d \in Call \ {c} : key'[d] = key[d],
           leases \cup stuck \subseteq leases' \cup stuck', UNCHANGED <<intents, settled>>,
           IsEffect(OpOf[c]) /\ p \in Holding => Makes(c) /\ key'[c] = key[c],
           IsEffect(OpOf[c])
           /\ p \in {"checkpoint", "invoke", "running", "finish", "confirm", "settle"} => PastIntent(c)
    PROVE  MakerInv'
<1>0. stage \in [Call -> Place] /\ stage' = [stage EXCEPT ![c] = p]
  BY DEF BatchTyped, CallsTyped, Move
<1>1. ASSUME NEW d \in Call, Makes(d)' PROVE Makes(d) /\ key'[d] = key[d]
  BY <1>0, <1>1 DEF Makes
<1>2. ASSUME NEW d \in Call, PastIntent(d)' PROVE PastIntent(d) /\ key'[d] = key[d]
  <2>1. Makes(d)'
    BY <1>2 DEF PastIntent, Makes, Holding, Place
  <2> QED BY <1>0, <1>1, <1>2, <2>1 DEF PastIntent
<1>3. EffectsAreLeased'
  BY <1>1 DEF MakerInv, EffectsAreLeased, Makes
<1>4. OneMaker'
  BY <1>1 DEF MakerInv, OneMaker
<1>5. IntendedOnly'
  BY <1>2 DEF MakerInv, IntendedOnly, NotSettled
<1>6. SettledOnce'
  BY DEF MakerInv, SettledOnce
<1> QED BY <1>3, <1>4, <1>5, <1>6 DEF MakerInv

\* A call that leaves its effect, settled or not.
LEMMA MakerLeaves ==
    ASSUME BatchTyped, MakerInv, NEW c \in Call, Makes(c),
           NEW p \in Place, Move(c, p), p \notin Holding, UNCHANGED key,
           leases \cup stuck \subseteq leases' \cup stuck' \cup {key[c]}, intents \subseteq intents',
           settled' = settled \/ (PastIntent(c) /\ \E v \in Status : settled' = settled \cup {<<key[c], v>>})
    PROVE  MakerInv'
<1>0. /\ stage \in [Call -> Place] /\ stage' = [stage EXCEPT ![c] = p]
      /\ settled \subseteq Effect \X Status
  BY DEF BatchTyped, CallsTyped, StreamTyped, Move
<1>1. ASSUME NEW d \in Call, Makes(d)' PROVE Makes(d) /\ d # c /\ key[d] # key[c]
  <2>1. Makes(d) /\ d # c
    BY <1>0, <1>1 DEF Makes
  <2> QED BY <2>1 DEF MakerInv, OneMaker
<1>2. ASSUME NEW d \in Call, PastIntent(d)' PROVE PastIntent(d) /\ key[d] # key[c]
  <2>1. Makes(d)'
    BY <1>2 DEF PastIntent, Makes, Holding, Place
  <2> QED BY <1>0, <1>1, <1>2, <2>1 DEF PastIntent
<1>3. EffectsAreLeased'
  <2> SUFFICES ASSUME NEW d \in Call, Makes(d)' PROVE key'[d] \in leases' \cup stuck'
    BY DEF EffectsAreLeased, Makes
  <2>1. key[d] \in leases \cup stuck
    BY <1>1 DEF MakerInv, EffectsAreLeased, Makes
  <2> QED BY <1>1, <2>1
<1>4. OneMaker'
  BY <1>1 DEF MakerInv, OneMaker
<1>5. IntendedOnly'
  <2> SUFFICES ASSUME NEW d \in Call, PastIntent(d)' PROVE (key[d] \in intents /\ NotSettled(key[d]))'
    BY DEF IntendedOnly
  <2>1. key[d] \in intents /\ NotSettled(key[d]) /\ key[d] # key[c]
    BY <1>2 DEF MakerInv, IntendedOnly
  <2> QED BY <2>1 DEF NotSettled
<1>6. SettledOnce'
  <2>1. CASE settled' = settled
    BY <2>1 DEF MakerInv, SettledOnce
  <2>2. ASSUME PastIntent(c), NEW v \in Status, settled' = settled \cup {<<key[c], v>>} PROVE SettledOnce'
    <3>1. key[c] \in intents /\ NotSettled(key[c])
      BY <2>2 DEF MakerInv, IntendedOnly
    <3>2. ASSUME NEW s \in settled' PROVE s[1] \in intents'
      BY <2>2, <3>1 DEF MakerInv, SettledOnce
    <3>3. ASSUME NEW s \in settled PROVE s[1] # key[c]
      BY <1>0, <3>1 DEF NotSettled
    <3>4. ASSUME NEW s \in settled', NEW t \in settled', s[1] = t[1] PROVE s = t
      BY <2>2, <3>3, <3>4 DEF MakerInv, SettledOnce
    <3> QED BY <3>2, <3>4 DEF SettledOnce
  <2> QED BY <2>1, <2>2
<1> QED BY <1>3, <1>4, <1>5, <1>6 DEF MakerInv

LEMMA StepMaker == BatchTyped /\ ScheduleInv /\ MakerInv /\ [BatchNext]_batchVars => MakerInv'
<1> SUFFICES ASSUME BatchTyped, ScheduleInv, MakerInv, [BatchNext]_batchVars PROVE MakerInv'
  OBVIOUS
<1>0. /\ stage \in [Call -> Place] /\ key \in [Call -> Effect \cup {Unset}] /\ todo \in Seq(Call)
      /\ leases \subseteq Effect /\ stuck \subseteq Effect /\ settled \subseteq Effect \X Status
  BY DEF BatchTyped, CallsTyped, StreamTyped, ScheduleTyped
<1>1. ASSUME UNCHANGED <<stage, key, leases, stuck, intents, settled>> PROVE MakerInv'
  BY <1>1 DEF MakerInv, EffectsAreLeased, OneMaker, Makes, IntendedOnly, PastIntent, NotSettled, SettledOnce
<1>2. ASSUME NextRound \/ Schedule \/ EndWave PROVE MakerInv'
  BY <1>1, <1>2 DEF NextRound, Schedule, EndWave, local, book
<1>3. ASSUME Admit \/ Deny PROVE MakerInv'
  <2> DEFINE c == Head(todo)
  <2>1. /\ c \in Call /\ UNCHANGED <<key, leases, stuck, intents, settled>>
        /\ \E p \in {"ready", "done"} : Move(c, p)
    BY <1>0, <1>3 DEF Admit, Deny, Refuse, Answer, book
  <2> HIDE DEF c
  <2>2. PICK p \in {"ready", "done"} : Move(c, p)
    BY <2>1
  <2> QED BY <2>1, <2>2, MakerMoves DEF Place, Holding
<1>4. ASSUME NEW c \in Call, Begin(c) PROVE MakerInv'
  <2>1. /\ UNCHANGED <<leases, stuck, intents, settled>>
        /\ \A d \in Call \ {c} : key'[d] = key[d]
        /\ \/ ~IsEffect(OpOf[c]) /\ Move(c, "invoke")
           \/ Move(c, "done")
           \/ Move(c, "acquire")
    BY <1>0, <1>4 DEF Begin, book, Refuse, Answer
  <2> QED BY <2>1, MakerMoves DEF Place, Holding
<1>5. ASSUME NEW c \in Call, Acquire(c) PROVE MakerInv'
  <2>1. stage[c] = "acquire" /\ UNCHANGED <<key, stuck, intents, settled>>
    BY <1>5 DEF Acquire
  <2>2. CASE Refuse(c) /\ UNCHANGED leases
    BY <2>1, <2>2, MakerMoves DEF Refuse, Answer, Place, Holding
  <2>3. CASE ~Taken(key[c]) /\ leases' = leases \cup {key[c]} /\ Move(c, "record")
    <3>1. stage' = [stage EXCEPT ![c] = "record"] /\ key[c] \notin leases \cup stuck
      BY <2>3 DEF Move, Taken
    <3>2. ASSUME NEW d \in Call, Makes(d)', d # c PROVE Makes(d) /\ key[d] \in leases \cup stuck
      <4>1. Makes(d)
        BY <1>0, <3>1, <3>2 DEF Makes
      <4> QED BY <4>1 DEF MakerInv, EffectsAreLeased, Makes
    <3>3. EffectsAreLeased'
      <4> SUFFICES ASSUME NEW d \in Call, Makes(d)' PROVE key'[d] \in leases' \cup stuck'
        BY DEF EffectsAreLeased, Makes
      <4> QED BY <2>1, <2>3, <3>2
    <3>4. OneMaker'
      BY <2>1, <3>1, <3>2 DEF MakerInv, OneMaker
    <3>5. ASSUME NEW d \in Call, PastIntent(d)' PROVE PastIntent(d)
      BY <1>0, <3>1, <3>5 DEF PastIntent
    <3>6. IntendedOnly' /\ SettledOnce'
      BY <2>1, <3>5 DEF MakerInv, IntendedOnly, NotSettled, SettledOnce
    <3> QED BY <3>3, <3>4, <3>6 DEF MakerInv
  <2> QED BY <1>5, <2>2, <2>3 DEF Acquire
<1>6. ASSUME NEW c \in Call, Record(c) PROVE MakerInv'
  <2>1. /\ Makes(c) \/ ~IsEffect(OpOf[c])
        /\ UNCHANGED <<key, leases, stuck, intents, settled>> /\ Move(c, "intent")
    BY <1>6 DEF Record, Makes, Holding, Place, local
  <2> QED BY <2>1, MakerMoves DEF Place
<1>7. ASSUME NEW c \in Call, RecordedMeanwhile(c) PROVE MakerInv'
  <2>1. /\ Makes(c) /\ UNCHANGED <<key, intents, settled>>
        /\ \E p \in {"again", "done"} : Move(c, p)
    BY <1>7 DEF RecordedMeanwhile, Makes, Holding, Place, BatchTyped, CallsKnown, CallKnown, Refuse, Answer
  <2>2. leases \cup stuck \subseteq leases' \cup stuck' \cup {key[c]}
    BY <1>7 DEF RecordedMeanwhile, GiveUp
  <2>3. PICK p \in {"again", "done"} : Move(c, p)
    BY <2>1
  <2> QED BY <2>1, <2>2, <2>3, MakerLeaves DEF Place, Holding
<1>8. ASSUME NEW c \in Call, Intent(c) PROVE MakerInv'
  <2>1. /\ stage[c] = "intent" /\ IsEffect(OpOf[c]) /\ key[c] \notin intents
        /\ intents' = intents \cup {key[c]} /\ UNCHANGED <<key, leases, stuck, settled>>
        /\ \E p \in {"finish", "checkpoint"} : stage' = [stage EXCEPT ![c] = p]
    BY <1>8 DEF Intent, StoresIntent, AfterIntent, Move, BatchTyped, CallsKnown, CallKnown
  <2>2. PICK p \in {"finish", "checkpoint"} : stage' = [stage EXCEPT ![c] = p]
    BY <2>1
  <2>3. ASSUME NEW d \in Call, Makes(d)' PROVE Makes(d)
    BY <1>0, <2>1, <2>2, <2>3 DEF Makes, Holding, Place
  <2>4. EffectsAreLeased' /\ OneMaker'
    BY <2>1, <2>3 DEF MakerInv, EffectsAreLeased, OneMaker, Makes
  <2>5. SettledOnce'
    BY <2>1 DEF MakerInv, SettledOnce
  <2>6. IntendedOnly'
    <3> SUFFICES ASSUME NEW d \in Call, PastIntent(d)' PROVE (key[d] \in intents /\ NotSettled(key[d]))'
      BY DEF IntendedOnly
    <3>1. CASE d = c
      <4>1. NotSettled(key[c])
        BY <2>1 DEF MakerInv, SettledOnce, NotSettled
      <4> QED BY <2>1, <3>1, <4>1 DEF NotSettled
    <3>2. CASE d # c
      <4>1. PastIntent(d)
        BY <1>0, <2>2, <3>2 DEF PastIntent
      <4> QED BY <2>1, <4>1 DEF MakerInv, IntendedOnly, NotSettled
    <3> QED BY <3>1, <3>2
  <2> QED BY <2>4, <2>5, <2>6 DEF MakerInv
<1>9. ASSUME NEW c \in Call, IntentFails(c) PROVE MakerInv'
  <2>1. /\ Makes(c) /\ UNCHANGED <<key, stuck, settled>> /\ Move(c, "done")
        /\ intents \subseteq intents' /\ leases' = leases \ {key[c]}
    BY <1>9 DEF IntentFails, Makes, Holding, Place, BatchTyped, CallsKnown, CallKnown, Refuse, Answer
  <2> QED BY <2>1, MakerLeaves DEF Place, Holding
<1>10. ASSUME NEW c \in Call, Checkpoint(c) PROVE MakerInv'
  <2>1. /\ UNCHANGED <<key, leases, stuck, intents, settled>> /\ \E p \in {"invoke", "finish"} : Move(c, p)
        /\ PastIntent(c)
    BY <1>10 DEF Checkpoint, book, PastIntent, BatchTyped, CallsKnown, CallKnown
  <2>2. PICK p \in {"invoke", "finish"} : Move(c, p)
    BY <2>1
  <2> QED BY <2>1, <2>2, MakerMoves, PastIntentMakes DEF Place
<1>11. ASSUME NEW c \in Call, Invoke(c) PROVE MakerInv'
  <2>1. /\ UNCHANGED <<key, leases, stuck, intents, settled>>
        /\ \E p \in {"running", "finish", "done"} : Move(c, p)
        /\ IsEffect(OpOf[c]) => PastIntent(c)
    BY <1>11 DEF Invoke, Ended, Answer, book, PastIntent
  <2>2. PICK p \in {"running", "finish", "done"} : Move(c, p)
    BY <2>1
  <2> QED BY <2>1, <2>2, MakerMoves, PastIntentMakes DEF Place
<1>12. ASSUME NEW c \in Call, CutShort(c) \/ \E v \in Status : Return(c, v) PROVE MakerInv'
  <2>1. /\ UNCHANGED <<key, leases, stuck, intents, settled>>
        /\ \E p \in {"finish", "done"} : Move(c, p)
        /\ IsEffect(OpOf[c]) => PastIntent(c)
    BY <1>12 DEF CutShort, Return, Ended, Answer, book, PastIntent
  <2>2. PICK p \in {"finish", "done"} : Move(c, p)
    BY <2>1
  <2> QED BY <2>1, <2>2, MakerMoves, PastIntentMakes DEF Place
<1>13. ASSUME NEW c \in Call, StopLate(c) PROVE MakerInv'
  BY <1>1, <1>13 DEF StopLate, local, book
<1>14. ASSUME NEW c \in Call, FinishCall(c) \/ Confirm(c) \/ ConfirmFails(c) PROVE MakerInv'
  <2>1. /\ UNCHANGED <<key, leases, stuck, intents, settled>>
        /\ \E p \in {"confirm", "settle", "done"} : Move(c, p)
        /\ PastIntent(c)
    BY <1>14 DEF FinishCall, Confirm, ConfirmFails, Refuse, Answer, book, PastIntent, BatchTyped, CallsKnown, CallKnown
  <2>2. PICK p \in {"confirm", "settle", "done"} : Move(c, p)
    BY <2>1
  <2> QED BY <2>1, <2>2, MakerMoves, PastIntentMakes DEF Place
<1>15. ASSUME NEW c \in Call, Settle(c) \/ SettleFails(c) PROVE MakerInv'
  <2>1. /\ UNCHANGED <<key, intents>> /\ Move(c, "done") /\ PastIntent(c) /\ verdict[c] \in Status
        /\ settled' = settled \/ settled' = settled \cup {<<key[c], verdict[c]>>}
    BY <1>15 DEF Settle, SettleFails, Refuse, Answer, PastIntent, BatchTyped, CallsKnown, CallKnown
  <2>2. leases \cup stuck \subseteq leases' \cup stuck' \cup {key[c]}
    BY <1>15 DEF Settle, SettleFails, GiveUp
  <2> QED BY <2>1, <2>2, MakerLeaves, PastIntentMakes DEF Place, Holding
<1>16. ASSUME Abort PROVE MakerInv'
  BY <1>1, <1>16 DEF Abort, local, book
<1>17. ASSUME NEW k \in leases, LoseLease(k) PROVE MakerInv'
  <2>1. /\ UNCHANGED <<stage, key, intents, settled>>
        /\ leases' \cup stuck' = leases \cup stuck
    BY <1>17 DEF LoseLease, local
  <2> QED BY <2>1 DEF MakerInv, EffectsAreLeased, OneMaker, Makes, IntendedOnly, PastIntent, NotSettled, SettledOnce
<1>18. ASSUME UNCHANGED batchVars PROVE MakerInv'
  BY <1>1, <1>18 DEF batchVars, local, book
<1> QED BY <1>2, <1>3, <1>4, <1>5, <1>6, <1>7, <1>8, <1>9, <1>10, <1>11, <1>12, <1>13, <1>14, <1>15, <1>16, <1>17, <1>18
        DEF BatchNext, ServiceStep, CallStep

-----------------------------------------------------------------------------
(* Tool calls: what has begun.                                             *)

Past(c) == \E i \in DOMAIN history : history[i].call = c
BegunOnly ==
    \A c \in Call : Past(c) =>
        /\ stage[c] \in {"running", "finish", "confirm", "settle", "done"}
        /\ IsEffect(OpOf[c]) => key[c] \in intents
NewOnes ==
    \A c, d \in Call :
        /\ Past(c) /\ IsEffect(OpOf[c])
        /\ IsEffect(OpOf[d]) /\ stage[d] \in {"checkpoint", "invoke"}
        => key[c] # key[d]
BegunInv == BegunOnly /\ NewOnes /\ EffectsDiffer

LEMMA InitBegun == ToolInit => BegunInv
<1> SUFFICES ASSUME ToolInit PROVE BegunInv
  OBVIOUS
<1>1. DOMAIN history = {}
  BY DEF ToolInit
<1> QED BY <1>1 DEF BegunInv, BegunOnly, NewOnes, EffectsDiffer, Past

LEMMA HistoryIs ==
    ASSUME BatchTyped
    PROVE  \A i \in DOMAIN history :
               /\ history[i] \in [call : Call, verdict : Status \cup {"running"}]
               /\ history[i].call \in Call
<1> DEFINE R == [call : Call, verdict : Status \cup {"running"}]
<1>1. history \in Seq(R)
  BY DEF BatchTyped, WorkTyped
<1>2. \A i \in DOMAIN history : history[i] \in R
  <2> HIDE DEF R
  <2> QED BY <1>1, ElementOfSeq
<1> QED BY <1>2

\* No invocation begins.
LEMMA BegunMoves ==
    ASSUME BatchTyped, BegunInv, NEW c \in Call, NEW p \in Place, Move(c, p),
           DOMAIN history' = DOMAIN history, \A i \in DOMAIN history : history'[i].call = history[i].call,
           \A d \in Call \ {c} : key'[d] = key[d], intents \subseteq intents',
           stage[c] \in {"running", "finish", "confirm", "settle", "done"}
               => key'[c] = key[c] /\ p \in {"running", "finish", "confirm", "settle", "done"},
           IsEffect(OpOf[c]) /\ p \in {"checkpoint", "invoke"} =>
               /\ key'[c] = key[c]
               /\ stage[c] \in {"checkpoint", "invoke"} \/ key[c] \notin intents
    PROVE  BegunInv'
<1>0. stage \in [Call -> Place] /\ stage' = [stage EXCEPT ![c] = p]
  BY DEF BatchTyped, CallsTyped, Move
<1>1. \A i \in DOMAIN history : history[i].call \in Call
  BY HistoryIs
<1>2. ASSUME NEW d \in Call, Past(d)' PROVE Past(d) /\ key'[d] = key[d] /\ stage'[d] \in {"running", "finish", "confirm", "settle", "done"}
  <2>1. Past(d)
    BY <1>2 DEF Past
  <2>2. stage[d] \in {"running", "finish", "confirm", "settle", "done"}
    BY <2>1 DEF BegunInv, BegunOnly
  <2> QED BY <1>0, <2>1, <2>2
<1>3. BegunOnly'
  BY <1>2 DEF BegunInv, BegunOnly
<1>4. NewOnes'
  <2> SUFFICES ASSUME NEW e \in Call, NEW d \in Call, Past(e)', IsEffect(OpOf[e]), IsEffect(OpOf[d]),
                      stage'[d] \in {"checkpoint", "invoke"}
               PROVE  key'[e] # key'[d]
    BY DEF NewOnes
  <2>1. Past(e) /\ key'[e] = key[e] /\ key[e] \in intents
    BY <1>2 DEF BegunInv, BegunOnly
  <2>2. key'[d] = key[d] /\ (stage[d] \in {"checkpoint", "invoke"} \/ key[d] \notin intents)
    BY <1>0
  <2> QED BY <2>1, <2>2 DEF BegunInv, NewOnes
<1>5. EffectsDiffer'
  <2> SUFFICES ASSUME NEW i \in DOMAIN history, NEW j \in DOMAIN history, i # j,
                      IsEffect(OpOf[history[i].call]), IsEffect(OpOf[history[j].call])
               PROVE  key'[history[i].call] # key'[history[j].call]
    BY DEF EffectsDiffer, OpAt
  <2>1. Past(history[i].call)' /\ Past(history[j].call)'
    BY DEF Past
  <2>2. key'[history[i].call] = key[history[i].call] /\ key'[history[j].call] = key[history[j].call]
    BY <1>1, <1>2, <2>1
  <2> QED BY <2>2 DEF BegunInv, EffectsDiffer, OpAt
<1> QED BY <1>3, <1>4, <1>5 DEF BegunInv

LEMMA StepBegun ==
    BatchTyped /\ ScheduleInv /\ MakerInv /\ BegunInv /\ [BatchNext]_batchVars => BegunInv'
<1> SUFFICES ASSUME BatchTyped, ScheduleInv, MakerInv, BegunInv, [BatchNext]_batchVars PROVE BegunInv'
  OBVIOUS
<1>0. /\ stage \in [Call -> Place] /\ key \in [Call -> Effect \cup {Unset}] /\ todo \in Seq(Call)
      /\ history \in Seq([call : Call, verdict : Status \cup {"running"}])
  BY DEF BatchTyped, CallsTyped, WorkTyped, ScheduleTyped
<1>1. ASSUME UNCHANGED <<stage, key, intents, history>> PROVE BegunInv'
  BY <1>1 DEF BegunInv, BegunOnly, NewOnes, EffectsDiffer, Past, OpAt
<1>2. ASSUME NextRound \/ Schedule \/ EndWave \/ Abort PROVE BegunInv'
  BY <1>1, <1>2 DEF NextRound, Schedule, EndWave, Abort, local, book
<1>3. ASSUME Admit \/ Deny PROVE BegunInv'
  <2> DEFINE c == Head(todo)
  <2>1. /\ todo # << >> /\ UNCHANGED <<key, intents, history>>
        /\ \E p \in {"ready", "done"} : Move(c, p)
    BY <1>3 DEF Admit, Deny, Refuse, Answer, book
  <2>2. c \in Call /\ stage[c] = "idle"
    <3>1. c = todo[1] /\ 1 \in DOMAIN todo
      BY <1>0, <2>1
    <3> QED BY <1>0, <3>1 DEF ScheduleInv, Waiting
  <2> HIDE DEF c
  <2>3. PICK p \in {"ready", "done"} : Move(c, p)
    BY <2>1
  <2> QED BY <2>1, <2>2, <2>3, BegunMoves DEF Place
<1>4. ASSUME NEW c \in Call, Begin(c) PROVE BegunInv'
  <2>1. /\ UNCHANGED <<intents, history>> /\ stage[c] \in {"ready", "again"}
        /\ \A d \in Call \ {c} : key'[d] = key[d]
        /\ \/ ~IsEffect(OpOf[c]) /\ Move(c, "invoke")
           \/ Move(c, "done")
           \/ Move(c, "acquire")
    BY <1>0, <1>4 DEF Begin, book, Refuse, Answer
  <2> QED BY <2>1, BegunMoves DEF Place
<1>5. ASSUME NEW c \in Call, Acquire(c) \/ Record(c) \/ RecordedMeanwhile(c) \/ IntentFails(c) PROVE BegunInv'
  <2>1. /\ UNCHANGED <<key, history>> /\ intents \subseteq intents'
        /\ stage[c] \in {"acquire", "record", "intent"}
        /\ \E p \in {"done", "record", "intent", "again"} : Move(c, p)
    BY <1>5 DEF Acquire, Record, RecordedMeanwhile, IntentFails, Refuse, Answer, local
  <2>2. PICK p \in {"done", "record", "intent", "again"} : Move(c, p)
    BY <2>1
  <2> QED BY <2>1, <2>2, BegunMoves DEF Place
<1>6. ASSUME NEW c \in Call, Intent(c) PROVE BegunInv'
  <2>1. /\ UNCHANGED <<key, history>> /\ intents \subseteq intents' /\ stage[c] = "intent"
        /\ key[c] \notin intents
        /\ \E p \in {"finish", "checkpoint"} : Move(c, p)
    BY <1>6 DEF Intent, AfterIntent, StoresIntent
  <2>2. PICK p \in {"finish", "checkpoint"} : Move(c, p)
    BY <2>1
  <2> QED BY <2>1, <2>2, BegunMoves DEF Place
<1>7. ASSUME NEW c \in Call, Checkpoint(c) PROVE BegunInv'
  <2>1. /\ UNCHANGED <<key, intents, history>> /\ stage[c] = "checkpoint"
        /\ \E p \in {"finish", "invoke"} : Move(c, p)
    BY <1>7 DEF Checkpoint, book
  <2>2. PICK p \in {"finish", "invoke"} : Move(c, p)
    BY <2>1
  <2> QED BY <2>1, <2>2, BegunMoves DEF Place
<1>8. ASSUME NEW c \in Call, Invoke(c) PROVE BegunInv'
  <2>0. stage[c] = "invoke" /\ UNCHANGED <<key, intents>>
    BY <1>8 DEF Invoke, book
  <2>1. CASE aborted
    <3>1. UNCHANGED history /\ \E p \in {"finish", "done"} : Move(c, p)
      BY <1>8, <2>1 DEF Invoke, Ended, Answer
    <3>2. PICK p \in {"finish", "done"} : Move(c, p)
      BY <3>1
    <3> QED BY <2>0, <3>1, <3>2, BegunMoves DEF Place
  <2>2. CASE ~aborted
    <3> DEFINE x == [call |-> c, verdict |-> "running"]
               n == Len(history) + 1
    <3>1. history' = Append(history, x) /\ stage' = [stage EXCEPT ![c] = "running"]
      BY <1>8, <2>2 DEF Invoke, Move
    <3>2. /\ x.call = c /\ n \in Nat \ {0} /\ DOMAIN history = 1..n - 1
          /\ DOMAIN history' = 1..n /\ history'[n] = x /\ \A i \in 1..n - 1 : history'[i] = history[i]
      BY <1>0, <3>1
    <3> HIDE DEF x, n
    <3>3. ~Past(c) /\ \A i \in DOMAIN history : history[i].call \in Call
      BY <2>0, HistoryIs DEF BegunInv, BegunOnly
    <3>4. ASSUME NEW d \in Call PROVE Past(d)' <=> d = c \/ Past(d)
      <4>1. CASE d = c
        <5>1. n \in DOMAIN history' /\ history'[n].call = c
          BY <3>2
        <5> QED BY <4>1, <5>1 DEF Past
      <4>2. CASE d # c
        <5>1. ASSUME Past(d) PROVE Past(d)'
          BY <3>2, <5>1 DEF Past
        <5>2. ASSUME NEW i \in DOMAIN history', history'[i].call = d PROVE Past(d)
          BY <3>2, <4>2, <5>2 DEF Past
        <5> QED BY <4>2, <5>1, <5>2 DEF Past
      <4> QED BY <4>1, <4>2
    <3>5. IsEffect(OpOf[c]) => key[c] \in intents /\ PastIntent(c)
      BY <2>0 DEF MakerInv, IntendedOnly, PastIntent
    <3>6. BegunOnly'
      <4> SUFFICES ASSUME NEW d \in Call, Past(d)'
                   PROVE  (stage[d] \in {"running", "finish", "confirm", "settle", "done"}
                           /\ (IsEffect(OpOf[d]) => key[d] \in intents))'
        BY DEF BegunOnly
      <4> QED BY <1>0, <2>0, <3>1, <3>4, <3>5 DEF BegunInv, BegunOnly
    <3>7. NewOnes'
      <4> SUFFICES ASSUME NEW e \in Call, NEW d \in Call, Past(e)', IsEffect(OpOf[e]), IsEffect(OpOf[d]),
                          stage'[d] \in {"checkpoint", "invoke"}
                   PROVE  key[e] # key[d]
        BY <2>0 DEF NewOnes
      <4>1. d # c /\ stage[d] \in {"checkpoint", "invoke"}
        BY <1>0, <3>1
      <4>2. CASE e = c
        <5>1. PastIntent(d)
          BY <4>1 DEF PastIntent
        <5> QED BY <3>5, <4>1, <4>2, <5>1, PastIntentMakes DEF MakerInv, OneMaker
      <4>3. CASE e # c
        BY <3>4, <4>1, <4>3 DEF BegunInv, NewOnes
      <4> QED BY <4>2, <4>3
    <3>8. EffectsDiffer'
      <4> SUFFICES ASSUME NEW i \in 1..n, NEW j \in 1..n, i # j,
                          IsEffect(OpOf[history'[i].call]), IsEffect(OpOf[history'[j].call])
                   PROVE  key[history'[i].call] # key[history'[j].call]
        BY <2>0, <3>2 DEF EffectsDiffer, OpAt
      <4>1. ASSUME NEW h \in 1..n - 1, IsEffect(OpOf[history[h].call]), IsEffect(OpOf[c])
            PROVE  key[history[h].call] # key[c]
        <5>1. Past(history[h].call) /\ history[h].call \in Call
          BY <3>2, <3>3 DEF Past
        <5> QED BY <2>0, <4>1, <5>1 DEF BegunInv, NewOnes
      <4>2. CASE i = n
        <5>1. j \in 1..n - 1
          BY <3>2, <4>2
        <5>2. history'[i].call = c /\ history'[j] = history[j]
          BY <3>2, <4>2, <5>1
        <5> QED BY <4>1, <5>1, <5>2
      <4>3. CASE j = n
        <5>1. i \in 1..n - 1
          BY <3>2, <4>3
        <5>2. history'[j].call = c /\ history'[i] = history[i]
          BY <3>2, <4>3, <5>1
        <5> QED BY <4>1, <5>1, <5>2
      <4>4. CASE i # n /\ j # n
        <5>1. i \in DOMAIN history /\ j \in DOMAIN history /\ history'[i] = history[i] /\ history'[j] = history[j]
          BY <3>2, <4>4
        <5> QED BY <5>1 DEF BegunInv, EffectsDiffer, OpAt
      <4> QED BY <4>2, <4>3, <4>4
    <3> QED BY <3>6, <3>7, <3>8 DEF BegunInv
  <2> QED BY <2>1, <2>2
<1>9. ASSUME NEW c \in Call, NEW v \in Status, CutShort(c) \/ Return(c, v) PROVE BegunInv'
  <2>1. /\ UNCHANGED <<key, intents>> /\ \E w \in Status : history' = Noted(c, w)
        /\ \E p \in {"finish", "done"} : Move(c, p)
    BY <1>9 DEF CutShort, Return, Ended, Answer, book, Status
  <2>2. DOMAIN history' = DOMAIN history /\ \A i \in DOMAIN history : history'[i].call = history[i].call
    <3>1. PICK w \in Status : history' = Noted(c, w)
      BY <2>1
    <3>2. ASSUME NEW i \in DOMAIN history PROVE history'[i].call = history[i].call
      <4>1. history[i] \in [call : Call, verdict : Status \cup {"running"}]
        BY HistoryIs
      <4> QED BY <3>1, <4>1 DEF Noted
    <3> QED BY <3>1, <3>2 DEF Noted
  <2>3. PICK p \in {"finish", "done"} : Move(c, p)
    BY <2>1
  <2> QED BY <2>1, <2>2, <2>3, BegunMoves DEF Place
<1>10. ASSUME NEW c \in Call, StopLate(c) PROVE BegunInv'
  BY <1>1, <1>10 DEF StopLate, local, book
<1>11. ASSUME NEW c \in Call, FinishCall(c) \/ Confirm(c) \/ ConfirmFails(c) \/ Settle(c) \/ SettleFails(c)
       PROVE  BegunInv'
  <2>1. /\ UNCHANGED <<key, intents, history>>
        /\ \E p \in {"confirm", "settle", "done"} : Move(c, p)
    BY <1>11 DEF FinishCall, Confirm, ConfirmFails, Settle, SettleFails, Refuse, Answer, book
  <2>2. PICK p \in {"confirm", "settle", "done"} : Move(c, p)
    BY <2>1
  <2> QED BY <2>1, <2>2, BegunMoves DEF Place
<1>12. ASSUME NEW k \in leases, LoseLease(k) PROVE BegunInv'
  BY <1>1, <1>12 DEF LoseLease, local
<1>13. ASSUME UNCHANGED batchVars PROVE BegunInv'
  BY <1>1, <1>13 DEF batchVars, local, book
<1> QED BY <1>2, <1>3, <1>4, <1>5, <1>6, <1>7, <1>8, <1>9, <1>10, <1>11, <1>12, <1>13
        DEF BatchNext, ServiceStep, CallStep, Status

-----------------------------------------------------------------------------
(* Tool calls: the theorem.                                                *)

BatchInv == BatchTyped /\ ScheduleInv /\ MakerInv /\ BegunInv

LEMMA BatchInvHolds == BatchSpec => []BatchInv
<1>1. ToolInit => BatchInv
  BY InitBatchTyped, InitSchedule, InitMaker, InitBegun DEF BatchInv
<1>2. BatchInv /\ [BatchNext]_batchVars => BatchInv'
  BY StepBatchTyped, StepSchedule, StepMaker, StepBegun DEF BatchInv
<1> QED BY <1>1, <1>2, PTL DEF BatchSpec

\* Two calls whose tools are at work for them are of the wave, where no two
\* calls conflict.
LEMMA RunsSerialized == BatchTyped /\ ScheduleInv => RunsAreSerialized
<1> SUFFICES ASSUME BatchTyped, ScheduleInv, NEW c \in running, NEW d \in running,
                    stage[c] = "running", stage[d] = "running", c # d
             PROVE  /\ {OpOf[c], OpOf[d]} \cap Exclusive = {}
                    /\ \A p \in Writes(OpOf[c]), a \in Access[OpOf[d]] : ~Overlap(p, a.path)
  BY DEF RunsAreSerialized
<1>1. c \in wave /\ d \in wave
  BY DEF BatchTyped, WorkTyped, ScheduleInv, InWave
<1>2. Apart(OpOf[c], OpOf[d])
  BY <1>1 DEF ScheduleInv, WaveApart
<1>3. ASSUME NEW p \in Writes(OpOf[c]), NEW a \in Access[OpOf[d]] PROVE ~Overlap(p, a.path)
  <2>1. PICK b \in Access[OpOf[c]] : b.mode = "write" /\ b.path = p
    BY DEF Writes
  <2> QED BY <1>2, <2>1 DEF Apart, Conflict
<1> QED BY <1>2, <1>3 DEF Apart

\* The tool calls of a run, whatever they ask for, however they interleave and
\* whatever fails: an effect is begun once, with its lease, and settled once, and
\* calls that touch the same resource do not run at once.
THEOREM EffectsMadeOnce == BatchSpec => []EffectsAreMadeOnce
<1>1. BatchInv => EffectsAreMadeOnce
  BY BatchTypedIs, RunsSerialized DEF BatchInv, MakerInv, BegunInv, EffectsAreMadeOnce
<1> QED BY <1>1, BatchInvHolds, PTL

\* The ledgers that may be written back: the one of the run and those that calls
\* read before they confirmed their lease.
Ledgers == {ledger} \cup {snap[c] : c \in {d \in Call : stage[d] = "confirm"}}
EntriesOf(l) == {l[i] : i \in DOMAIN l}
KeysOf(l) == {e.key : e \in EntriesOf(l)}
Final == {"succeeded", "failed", "cancelled"}
Awaiting == {"acquire", "record"}
Making == {"checkpoint", "invoke", "running", "finish", "confirm"}
HasEntry == {"intent", "settle", "done"} \cup Making
Makers == {c \in Call : IsEffect(OpOf[c])}

UniqueKeys(l) == \A i, j \in DOMAIN l : l[i].key = l[j].key => i = j
KeysDiffer == \A l \in Ledgers : UniqueKeys(l)
EntriesHaveCalls ==
    \A l \in Ledgers : \A e \in EntriesOf(l) :
        e.call \in Makers /\ e.key = key[e.call] /\ stage[e.call] \in HasEntry
FinalIsIntended == \A l \in Ledgers : \A e \in EntriesOf(l) : e.status \in Final => e.key \in intents
LostIsIntended ==
    \A l, m \in Ledgers : \A e \in EntriesOf(l) :
        e.call \notin wave /\ e.key \notin KeysOf(m) => e.key \in intents
OfTheWave(c) == \A l \in Ledgers : \A e \in EntriesOf(l) : e.key = key[c] => e.call \in wave
NewIsWaves ==
    \A c \in wave \cap Makers :
        /\ stage[c] \in Awaiting \cup {"intent"} => key[c] \in intents \/ OfTheWave(c)
        /\ stage[c] \in Making => OfTheWave(c)
AloneIs == \A c \in wave \ shared : wave = {c}
AloneHas ==
    \A c \in (wave \ shared) \cap Makers : stage[c] \in {"intent"} \cup Making => key[c] \in KeysOf(ledger)
OkSettled == \A c \in Makers \ shared : result[c] = "ok" => stage[c] = "done" /\ <<key[c], "succeeded">> \in settled
Backed(e) ==
    \/ <<e.key, e.status>> \in settled
    \/ stage[e.call] = "settle" /\ verdict[e.call] = e.status
LedgerBacked ==
    \A l \in Ledgers : \A e \in EntriesOf(l) : e.call \notin shared /\ e.status \in Final => Backed(e)
LedgerInv ==
    /\ KeysDiffer /\ EntriesHaveCalls /\ FinalIsIntended /\ LostIsIntended /\ NewIsWaves
    /\ AloneIs /\ AloneHas /\ OkSettled /\ LedgerBacked

-----------------------------------------------------------------------------
\* How the ledgers change.
LEMMA LedgersOK == ASSUME BatchTyped PROVE \A l \in Ledgers : LedgerOK(l) /\ l \in Seq(Entry) /\ EntriesOf(l) \subseteq Entry
<1>1. \A l \in Ledgers : LedgerOK(l)
  BY DEF BatchTyped, LedgersTyped, Ledgers
<1>2. ASSUME NEW l, LedgerOK(l) PROVE l \in Seq(Entry) /\ EntriesOf(l) \subseteq Entry
  <2>1. l \in Seq(Entry)
    BY <1>2 DEF LedgerOK
  <2>2. \A i \in DOMAIN l : l[i] \in Entry
    BY <2>1, ElementOfSeq
  <2> QED BY <2>1, <2>2 DEF EntriesOf
<1> QED BY <1>1, <1>2

\* A change of status changes the entry of that effect.
LEMMA StatusEntries ==
    ASSUME NEW l, LedgerOK(l), UniqueKeys(l), NEW k, NEW s \in Status
    PROVE  /\ UniqueKeys(WithStatus(l, k, s))
           /\ KeysOf(WithStatus(l, k, s)) = KeysOf(l)
           /\ \A e \in EntriesOf(WithStatus(l, k, s)) : \E d \in EntriesOf(l) :
                 /\ e.key = d.key /\ e.call = d.call
                 /\ e.status = IF d.key = k THEN s ELSE d.status
<1> DEFINE w == WithStatus(l, k, s)
<1>1. /\ DOMAIN w = DOMAIN l
      /\ \A i \in DOMAIN l :
            /\ w[i].key = l[i].key /\ w[i].call = l[i].call
            /\ w[i].status = IF i = IndexOf(l, k) THEN s ELSE l[i].status
  BY StatusOf
<1>2. \A i \in DOMAIN l : i = IndexOf(l, k) <=> l[i].key = k
  <2> TAKE i \in DOMAIN l
  <2>1. CASE IndexOf(l, k) = 0
    <3>1. i # 0 /\ l[i].key # k
      BY <2>1, IndexIs DEF LedgerOK
    <3> QED BY <2>1, <3>1
  <2>2. CASE IndexOf(l, k) # 0
    BY <2>2, IndexIs DEF UniqueKeys
  <2> QED BY <2>1, <2>2
<1> HIDE DEF w
<1>3. UniqueKeys(w)
  BY <1>1 DEF UniqueKeys
<1>4. KeysOf(w) = KeysOf(l)
  <2>1. KeysOf(w) = {w[i].key : i \in DOMAIN l} /\ KeysOf(l) = {l[i].key : i \in DOMAIN l}
    BY <1>1 DEF KeysOf, EntriesOf
  <2> QED BY <1>1, <2>1
<1>5. \A e \in EntriesOf(w) : \E d \in EntriesOf(l) :
          /\ e.key = d.key /\ e.call = d.call /\ e.status = IF d.key = k THEN s ELSE d.status
  <2> TAKE e \in EntriesOf(w)
  <2>1. PICK i \in DOMAIN l : e = w[i]
    BY <1>1 DEF EntriesOf
  <2>2. l[i] \in EntriesOf(l)
    BY DEF EntriesOf
  <2> QED BY <1>1, <1>2, <2>1, <2>2
<1> QED BY <1>3, <1>4, <1>5 DEF w

\* A record: the entries of the ledger but an evicted one, and the new one.
LEMMA RoomIs ==
    ASSUME BatchTyped, Full => Evictable # {}
    PROVE  /\ LedgerOK(Room)
           /\ \A i \in DOMAIN Room : \E j \in DOMAIN ledger : Room[i] = ledger[j]
           /\ \A i \in DOMAIN ledger :
                 ledger[i].status \notin {"succeeded", "failed"} => \E j \in DOMAIN Room : Room[j] = ledger[i]
           /\ UniqueKeys(ledger) => UniqueKeys(Room)
<1>1. LedgerOK(ledger) /\ DOMAIN ledger = 1..Len(ledger) /\ Len(ledger) \in Nat
  BY DEF BatchTyped, LedgersTyped, LedgerOK
<1>2. CASE ~Full
  BY <1>1, <1>2 DEF Room
<1>3. CASE Full
  <2>1. PICK x \in Evictable :
             /\ LedgerOK(Evict(ledger)) /\ Len(Evict(ledger)) = Len(ledger) - 1
             /\ \A i \in 1..Len(ledger) - 1 :
                   Evict(ledger)[i] = IF i < x THEN ledger[i] ELSE ledger[i + 1]
    BY <1>1, <1>3, EvictIs
  <2> DEFINE r == Evict(ledger)
             n == Len(ledger)
  <2>2. Room = r /\ DOMAIN r = 1..n - 1 /\ x \in 1..n /\ n \in Nat
    BY <1>1, <1>3, <2>1 DEF Room, Evictable, LedgerOK
  <2>3. \A i \in 1..n - 1 : r[i] = IF i < x THEN ledger[i] ELSE ledger[i + 1]
    BY <2>1
  <2>4. DOMAIN ledger = 1..n
    BY <1>1
  <2>5. ledger[x].status \in {"succeeded", "failed"}
    BY DEF Evictable
  <2> HIDE DEF r, n
  <2>6. ASSUME NEW i \in 1..n - 1 PROVE \E j \in 1..n : r[i] = ledger[j]
    BY <2>2, <2>3
  <2>7. ASSUME NEW i \in 1..n, i # x PROVE \E j \in 1..n - 1 : r[j] = ledger[i]
    <3>1. CASE i < x
      <4>1. i \in 1..n - 1
        BY <2>2, <3>1
      <4> QED BY <2>3, <3>1, <4>1
    <3>2. CASE i > x
      <4>1. i - 1 \in 1..n - 1 /\ ~(i - 1 < x) /\ i - 1 + 1 = i
        BY <2>2, <3>2
      <4> QED BY <2>3, <4>1
    <3> QED BY <2>2, <2>7, <3>1, <3>2
  <2>8. ASSUME UniqueKeys(ledger) PROVE UniqueKeys(r)
    <3> SUFFICES ASSUME NEW i \in 1..n - 1, NEW j \in 1..n - 1, r[i].key = r[j].key PROVE i = j
      BY <2>2 DEF UniqueKeys
    <3> DEFINE f(h) == IF h < x THEN h ELSE h + 1
    <3>1. f(i) \in 1..n /\ f(j) \in 1..n /\ r[i] = ledger[f(i)] /\ r[j] = ledger[f(j)]
      BY <2>2, <2>3
    <3>2. f(i) = f(j)
      <4> HIDE DEF f
      <4> QED BY <2>4, <2>8, <3>1 DEF UniqueKeys
    <3> QED BY <2>2, <3>2
  <2> QED BY <2>1, <2>2, <2>4, <2>5, <2>6, <2>7, <2>8 DEF r
<1> QED BY <1>2, <1>3

NewEntry(c) == [key |-> key[c], call |-> c, status |-> "in_progress"]
LEMMA RecordIs ==
    ASSUME BatchTyped, NEW c \in Call, Record(c)
    PROVE  /\ key[c] \notin KeysOf(ledger)
           /\ EntriesOf(ledger') \subseteq EntriesOf(ledger) \cup {NewEntry(c)}
           /\ NewEntry(c) \in EntriesOf(ledger')
           /\ \A e \in EntriesOf(ledger) : e.status \notin {"succeeded", "failed"} => e \in EntriesOf(ledger')
           /\ UniqueKeys(ledger) => UniqueKeys(ledger')
<1> DEFINE x == NewEntry(c)
           n == Len(Room)
<1>1. /\ IndexOf(ledger, key[c]) = 0 /\ (Full => Evictable # {}) /\ ledger' = Append(Room, x)
  BY DEF Record, NewEntry
<1>2. LedgerOK(ledger)
  BY DEF BatchTyped, LedgersTyped
<1>3. \A i \in DOMAIN ledger : ledger[i].key # key[c]
  BY <1>1, <1>2, IndexIs
<1>4. /\ LedgerOK(Room)
      /\ \A i \in DOMAIN Room : \E j \in DOMAIN ledger : Room[i] = ledger[j]
      /\ \A i \in DOMAIN ledger :
            ledger[i].status \notin {"succeeded", "failed"} => \E j \in DOMAIN Room : Room[j] = ledger[i]
      /\ UniqueKeys(ledger) => UniqueKeys(Room)
  BY <1>1, RoomIs
<1>5. n \in Nat /\ DOMAIN Room = 1..n
  BY <1>4 DEF LedgerOK
<1>6. x.key = key[c]
  BY DEF NewEntry
<1> HIDE DEF x
<1>7. DOMAIN ledger' = 1..n + 1 /\ ledger'[n + 1] = x /\ \A i \in 1..n : ledger'[i] = Room[i]
  BY <1>1, <1>4, <1>5 DEF LedgerOK
<1> HIDE DEF n
<1>8. key[c] \notin KeysOf(ledger)
  BY <1>3 DEF KeysOf, EntriesOf
<1>9. ASSUME NEW e \in EntriesOf(ledger') PROVE e \in EntriesOf(ledger) \cup {x}
  <2>1. PICK i \in 1..n + 1 : e = ledger'[i]
    BY <1>7 DEF EntriesOf
  <2>2. CASE i = n + 1
    BY <1>7, <2>1, <2>2
  <2>3. CASE i \in 1..n
    BY <1>4, <1>5, <1>7, <2>1, <2>3 DEF EntriesOf
  <2> QED BY <1>5, <2>2, <2>3
<1>10. x \in EntriesOf(ledger')
  <2>1. n + 1 \in 1..n + 1
    BY <1>5
  <2> QED BY <1>7, <2>1 DEF EntriesOf
<1>11. ASSUME NEW e \in EntriesOf(ledger), e.status \notin {"succeeded", "failed"} PROVE e \in EntriesOf(ledger')
  <2>1. PICK j \in 1..n : Room[j] = e
    BY <1>4, <1>5, <1>11 DEF EntriesOf
  <2>2. j \in 1..n + 1 /\ ledger'[j] = e
    BY <1>5, <1>7, <2>1
  <2> QED BY <1>7, <2>2 DEF EntriesOf
<1>12. ASSUME UniqueKeys(ledger) PROVE UniqueKeys(ledger')
  <2> SUFFICES ASSUME NEW i \in 1..n + 1, NEW j \in 1..n + 1, ledger'[i].key = ledger'[j].key PROVE i = j
    BY <1>7 DEF UniqueKeys
  <2>1. \A h \in 1..n : ledger'[h].key # key[c]
    <3> TAKE h \in 1..n
    <3>1. PICK j2 \in DOMAIN ledger : Room[h] = ledger[j2]
      BY <1>4, <1>5
    <3> QED BY <1>3, <1>7, <3>1
  <2>2. CASE i = n + 1 \/ j = n + 1
    BY <1>5, <1>6, <1>7, <2>1, <2>2
  <2>3. CASE i \in 1..n /\ j \in 1..n
    BY <1>4, <1>5, <1>7, <1>12, <2>3 DEF UniqueKeys
  <2> QED BY <1>5, <2>2, <2>3
<1> QED BY <1>8, <1>9, <1>10, <1>11, <1>12 DEF x

\* What beginSideEffect decides to make is not in the ledger.
LEMMA RetryIsNew ==
    ASSUME LedgerOK(ledger), NEW b \in Effect, Retry(b) # Unset
    PROVE  Retry(b) \notin KeysOf(ledger)
<1>1. CASE Tried(b) = {}
  <2>1. Retry(b) = b
    BY <1>1 DEF Retry, Succeeded
  <2>2. ASSUME NEW i \in DOMAIN ledger, ledger[i].key = b PROVE FALSE
    <3>1. b.tries \in Seq(Nat)
      BY DEF Effect
    <3>2. IsPrefix(b.tries, b.tries)
      BY <3>1 DEF IsPrefix
    <3> QED BY <1>1, <2>2, <3>2 DEF Tried, IsAttempt
  <2> QED BY <2>1, <2>2 DEF KeysOf, EntriesOf
<1>2. CASE Tried(b) # {}
  <2>1. Retry(b) = NextAttempt(b)
    BY <1>2 DEF Retry
  <2>2. PICK m \in Nat :
           /\ NextAttempt(b) = [b EXCEPT !.tries = Append(@, 1 + m)]
           /\ \A i \in Tried(b) : ledger[i].key # b => ledger[i].key.tries[Len(b.tries) + 1] <= m
    BY NextAttemptIs
  <2> DEFINE k == NextAttempt(b)
             t == Append(b.tries, 1 + m)
             n == Len(b.tries) + 1
  <2>3. b.tries \in Seq(Nat) /\ k.op = b.op /\ k.grant = b.grant /\ k.tries = t
    BY <2>2 DEF Effect
  <2>4. n \in Nat /\ Len(t) = n /\ t[n] = 1 + m /\ \A i \in 1..n - 1 : t[i] = b.tries[i]
    BY <2>3
  <2>5. IsPrefix(b.tries, t) /\ t # b.tries
    <3>1. t \in Seq(Nat)
      BY <2>3
    <3>2. SubSeq(t, 1, Len(b.tries)) = b.tries
      BY <2>3, AppendProperties, SubSeqFull, <3>1
    <3>3. SubSeq(b.tries, 1, Len(b.tries)) = b.tries
      BY <2>3, SubSeqFull
    <3>4. Len(b.tries) <= Len(t) /\ Len(t) # Len(b.tries)
      BY <2>3, <2>4
    <3> HIDE DEF t
    <3> QED BY <3>2, <3>3, <3>4 DEF IsPrefix
  <2>6. ASSUME NEW i \in DOMAIN ledger, ledger[i].key = k PROVE FALSE
    <3>1. i \in Tried(b) /\ ledger[i].key # b
      BY <2>3, <2>5, <2>6 DEF Tried, IsAttempt
    <3>2. ledger[i].key.tries[n] <= m
      BY <2>2, <3>1
    <3>3. ledger[i].key.tries[n] = 1 + m
      BY <2>3, <2>4, <2>6
    <3> QED BY <3>2, <3>3
  <2> QED BY <2>1, <2>6 DEF KeysOf, EntriesOf
<1> QED BY <1>1, <1>2

LEMMA AdmissionIsNew ==
    ASSUME LedgerOK(ledger), NEW c \in Call, NEW b \in Effect, Admission(c, b) # Unset
    PROVE  Admission(c, b) \notin KeysOf(ledger)
<1> DEFINE same == {e \in Entries : e.key.op = b.op}
           fresh == Key(b.op, c)
<1>1. fresh \in Effect
  BY KeyIs DEF Effect
<1>2. CASE b.op \notin Shell \/ same = {}
  <2>1. Admission(c, b) = Retry(b)
    BY <1>2 DEF Admission
  <2> QED BY <2>1, RetryIsNew
<1>3. CASE ~(b.op \notin Shell \/ same = {})
  <2>1. CASE \E e \in same : e.call = c \/ e.status \in {"in_progress", "unknown"}
    BY <1>3, <2>1 DEF Admission
  <2>2. CASE /\ ~\E e \in same : e.call = c \/ e.status \in {"in_progress", "unknown"}
             /\ \E e \in same : e.key = fresh
    BY <1>3, <2>2 DEF Admission
  <2>3. CASE /\ ~\E e \in same : e.call = c \/ e.status \in {"in_progress", "unknown"}
             /\ ~\E e \in same : e.key = fresh
    <3>1. Admission(c, b) = Retry(fresh)
      BY <1>3, <2>3 DEF Admission
    <3> HIDE DEF fresh
    <3> QED BY <1>1, <3>1, RetryIsNew
  <2> QED BY <2>1, <2>2, <2>3
<1> QED BY <1>2, <1>3

-----------------------------------------------------------------------------
Others(c) ==
    \A d \in Call \ {c} :
        /\ stage'[d] = stage[d] /\ key'[d] = key[d] /\ verdict'[d] = verdict[d]
        /\ result'[d] = result[d] /\ snap'[d] = snap[d]
\* A step that leaves the ledger alone.
Quiet(c) ==
    /\ UNCHANGED <<wave, shared, ledger>> /\ intents \subseteq intents' /\ settled \subseteq settled'
    /\ Others(c)
    /\ stage'[c] = "confirm" => snap'[c] = ledger \/ (snap'[c] = snap[c] /\ stage[c] = "confirm")
    /\ stage[c] \in HasEntry => key'[c] = key[c] /\ stage'[c] \in HasEntry
    /\ stage'[c] \in Awaiting \cup {"intent"} /\ IsEffect(OpOf[c]) =>
           \/ key'[c] = key[c] /\ stage[c] \in Awaiting \cup {"intent"}
           \/ key'[c] \notin KeysOf(ledger)
    /\ stage'[c] \in Making /\ IsEffect(OpOf[c]) =>
           /\ key'[c] = key[c]
           /\ stage[c] \in Making \/ (stage[c] = "intent" /\ key[c] \notin intents)
    /\ stage'[c] = "intent" => stage[c] = "intent"
    /\ result'[c] = "ok" /\ IsEffect(OpOf[c]) =>
           \/ result[c] = "ok" /\ (stage[c] = "done" => key'[c] = key[c] /\ stage'[c] = "done")
           \/ /\ stage'[c] = "done" /\ key'[c] = key[c]
              /\ \/ <<key[c], "succeeded">> \in settled'
                 \/ stage[c] \in Making /\ key[c] \notin KeysOf(ledger)
    /\ stage[c] = "settle" =>
           \/ stage'[c] = "settle" /\ verdict'[c] = verdict[c]
           \/ <<key[c], verdict[c]>> \in settled'

LEMMA QuietLedgers == ASSUME BatchTyped, NEW c \in Call, Quiet(c) PROVE Ledgers' \subseteq Ledgers
<1>1. ASSUME NEW l \in Ledgers' PROVE l \in Ledgers
  <2>1. CASE l = ledger'
    BY <2>1 DEF Ledgers, Quiet
  <2>2. CASE \E d \in Call : stage'[d] = "confirm" /\ l = snap'[d]
    BY <2>2 DEF Ledgers, Quiet, Others
  <2> QED BY <2>1, <2>2 DEF Ledgers
<1> QED BY <1>1

LEMMA QuietKeeps ==
    ASSUME BatchTyped, ScheduleInv, LedgerInv, NEW c \in Call, Quiet(c),
           stage[c] \in {"idle", "done"} \/ c \in wave \/ stage'[c] \notin Awaiting \cup {"intent"} \cup Making
    PROVE  LedgerInv'
<1> USE DEF LedgerInv
<1>0. Ledgers' \subseteq Ledgers /\ ledger' = ledger /\ wave' = wave /\ shared' = shared /\ ledger \in Ledgers
  BY QuietLedgers DEF Quiet, Ledgers
<1>1. KeysDiffer'
  BY <1>0 DEF KeysDiffer
<1>2. EntriesHaveCalls'
  BY <1>0 DEF EntriesHaveCalls, Quiet, Others, Makers
<1>3. FinalIsIntended'
  BY <1>0 DEF FinalIsIntended, Quiet
<1>4. LostIsIntended'
  BY <1>0 DEF LostIsIntended, Quiet
<1>5. NewIsWaves'
  <2> SUFFICES ASSUME NEW d \in wave, IsEffect(OpOf[d]), d \in Call
               PROVE  /\ stage'[d] \in Awaiting \cup {"intent"} => key'[d] \in intents' \/ OfTheWave(d)'
                      /\ stage'[d] \in Making => OfTheWave(d)'
    BY <1>0 DEF NewIsWaves, Makers, BatchTyped, ScheduleTyped
  <2>0. /\ stage[d] \in Awaiting \cup {"intent"} => key[d] \in intents \/ OfTheWave(d)
        /\ stage[d] \in Making => OfTheWave(d)
    BY DEF NewIsWaves, Makers
  <2>1. key'[d] = key[d] /\ OfTheWave(d) => OfTheWave(d)'
    BY <1>0 DEF OfTheWave
  <2>2. CASE d # c
    BY <2>0, <2>1, <2>2 DEF Quiet, Others
  <2>3. CASE d = c
    <3>1. ASSUME stage'[d] \in Making PROVE OfTheWave(d)'
      BY <2>0, <2>1, <2>3, <3>1 DEF Quiet
    <3>2. ASSUME stage'[d] \in Awaiting \cup {"intent"} PROVE key'[d] \in intents' \/ OfTheWave(d)'
      <4>1. CASE key'[d] = key[d] /\ stage[d] \in Awaiting \cup {"intent"}
        BY <2>0, <2>1, <4>1 DEF Quiet
      <4>2. CASE key'[d] \notin KeysOf(ledger)
        <5> SUFFICES ASSUME NEW l \in Ledgers, NEW e \in EntriesOf(l), e.key = key'[d], e.call \notin wave
                     PROVE  key'[d] \in intents'
          BY <1>0 DEF OfTheWave
        <5> QED BY <1>0, <4>2 DEF LostIsIntended, Quiet
      <4> QED BY <2>3, <3>2, <4>1, <4>2 DEF Quiet
    <3> QED BY <3>1, <3>2
  <2> QED BY <2>2, <2>3
<1>6. AloneIs'
  BY <1>0 DEF AloneIs
<1>7. AloneHas'
  <2> SUFFICES ASSUME NEW d \in wave \ shared, d \in Makers, stage'[d] \in {"intent"} \cup Making
               PROVE  key'[d] \in KeysOf(ledger)
    BY <1>0 DEF AloneHas, Makers
  <2>1. stage[d] \in {"intent"} \cup Making /\ key'[d] = key[d]
    BY DEF Quiet, Others, Makers, HasEntry
  <2> QED BY <2>1 DEF AloneHas
<1>8. OkSettled'
  <2> SUFFICES ASSUME NEW d \in Makers \ shared, result'[d] = "ok"
               PROVE  stage'[d] = "done" /\ <<key'[d], "succeeded">> \in settled'
    BY <1>0 DEF OkSettled, Makers
  <2>1. CASE d # c \/ (result[c] = "ok" /\ (stage[c] = "done" => key'[c] = key[c] /\ stage'[c] = "done"))
    BY <2>1 DEF OkSettled, Quiet, Others, Makers
  <2>2. CASE d = c /\ stage[c] \in Making /\ key[c] \notin KeysOf(ledger)
    <3>1. c \in wave
      BY <2>2 DEF ScheduleInv, InWave, Making
    <3> QED BY <2>2, <3>1 DEF AloneHas
  <2>3. CASE d = c /\ stage'[c] = "done" /\ key'[c] = key[c] /\ <<key[c], "succeeded">> \in settled'
    BY <2>3
  <2>4. CASE d = c
    <3>1. IsEffect(OpOf[c]) /\ result'[c] = "ok"
      BY <2>4 DEF Makers
    <3>2. \/ result[c] = "ok" /\ (stage[c] = "done" => key'[c] = key[c] /\ stage'[c] = "done")
          \/ /\ stage'[c] = "done" /\ key'[c] = key[c]
             /\ \/ <<key[c], "succeeded">> \in settled'
                \/ stage[c] \in Making /\ key[c] \notin KeysOf(ledger)
      BY <3>1 DEF Quiet
    <3> QED BY <2>1, <2>2, <2>3, <2>4, <3>2
  <2> QED BY <2>1, <2>4
<1>9. LedgerBacked'
  <2> SUFFICES ASSUME NEW l \in Ledgers, NEW e \in EntriesOf(l), e.call \notin shared, e.status \in Final
               PROVE  Backed(e)'
    BY <1>0 DEF LedgerBacked
  <2>1. Backed(e)
    BY DEF LedgerBacked
  <2>2. e.call \in Call /\ e.key = key[e.call]
    BY DEF EntriesHaveCalls, Makers
  <2>3. e.call = c /\ stage[c] = "settle" /\ verdict[c] = e.status => Backed(e)'
    <3> SUFFICES ASSUME e.call = c, stage[c] = "settle", verdict[c] = e.status PROVE Backed(e)'
      OBVIOUS
    <3>1. e.key = key[c]
      BY <2>2
    <3>2. CASE stage'[c] = "settle" /\ verdict'[c] = verdict[c]
      BY <3>2 DEF Backed
    <3>3. CASE <<key[c], verdict[c]>> \in settled'
      BY <3>1, <3>3 DEF Backed
    <3> QED BY <3>2, <3>3 DEF Quiet
  <2>4. settled \subseteq settled' /\ \A d \in Call \ {c} : stage'[d] = stage[d] /\ verdict'[d] = verdict[d]
    BY DEF Quiet, Others
  <2>5. CASE <<e.key, e.status>> \in settled
    BY <2>4, <2>5 DEF Backed
  <2>6. CASE stage[e.call] = "settle" /\ verdict[e.call] = e.status
    <3>1. CASE e.call = c
      BY <2>3, <2>6, <3>1
    <3>2. CASE e.call # c
      BY <2>2, <2>4, <2>6, <3>2 DEF Backed
    <3> QED BY <3>1, <3>2
  <2> QED BY <2>1, <2>5, <2>6 DEF Backed
<1> QED BY <1>1, <1>2, <1>3, <1>4, <1>5, <1>6, <1>7, <1>8, <1>9

-----------------------------------------------------------------------------
\* A step that restates the status of the effect it is about.
Restates(c) ==
    /\ UNCHANGED <<wave, shared, key>> /\ intents \subseteq intents' /\ settled \subseteq settled'
    /\ Others(c)
    /\ stage[c] \in {"intent", "confirm", "settle"} /\ stage'[c] \in {"settle", "done"}
    /\ result'[c] = "ok" => result[c] = "ok"
    /\ \E s \in Status :
        /\ \/ ledger' = WithStatus(ledger, key[c], s)
           \/ stage[c] = "confirm" /\ ledger' = WithStatus(snap[c], key[c], s)
        /\ s \in Final => stage[c] = "confirm" /\ stage'[c] = "settle" /\ s = verdict'[c]

LEMMA RestatesLedgers ==
    ASSUME BatchTyped, KeysDiffer, NEW c \in Call, Restates(c)
    PROVE  \E s \in Status : \E l0 \in Ledgers :
             /\ s \in Final => stage[c] = "confirm" /\ stage'[c] = "settle" /\ s = verdict'[c]
             /\ UniqueKeys(ledger') /\ KeysOf(ledger') = KeysOf(l0)
             /\ \A e \in EntriesOf(ledger') : \E d \in EntriesOf(l0) :
                   /\ e.key = d.key /\ e.call = d.call
                   /\ e.status = IF d.key = key[c] THEN s ELSE d.status
             /\ \A l \in Ledgers' : l = ledger' \/ (l \in Ledgers /\ \E d \in Call \ {c} : stage[d] = "confirm")
<1>1. PICK s \in Status :
        /\ \/ ledger' = WithStatus(ledger, key[c], s)
           \/ stage[c] = "confirm" /\ ledger' = WithStatus(snap[c], key[c], s)
        /\ s \in Final => stage[c] = "confirm" /\ stage'[c] = "settle" /\ s = verdict'[c]
  BY DEF Restates
<1>2. PICK l0 \in Ledgers : ledger' = WithStatus(l0, key[c], s)
  BY <1>1 DEF Ledgers
<1>3. LedgerOK(l0) /\ UniqueKeys(l0)
  BY LedgersOK DEF KeysDiffer
<1>4. \A l \in Ledgers' : l = ledger' \/ (l \in Ledgers /\ \E d \in Call \ {c} : stage[d] = "confirm")
  <2> TAKE l \in Ledgers'
  <2> SUFFICES ASSUME l # ledger' PROVE l \in Ledgers /\ \E d \in Call \ {c} : stage[d] = "confirm"
    OBVIOUS
  <2>1. PICK d \in Call : stage'[d] = "confirm" /\ l = snap'[d]
    BY DEF Ledgers
  <2>2. d # c /\ stage[d] = "confirm" /\ l = snap[d]
    BY <2>1 DEF Restates, Others
  <2> QED BY <2>2 DEF Ledgers
<1> QED BY <1>1, <1>2, <1>3, <1>4, StatusEntries

LEMMA RestatesKeeps ==
    ASSUME BatchTyped, ScheduleInv, MakerInv, LedgerInv, NEW c \in Call, Restates(c), IsEffect(OpOf[c])
    PROVE  LedgerInv'
<1> USE DEF LedgerInv
<1>0. PICK s \in Status : \E l0 \in Ledgers :
             /\ s \in Final => stage[c] = "confirm" /\ stage'[c] = "settle" /\ s = verdict'[c]
             /\ UniqueKeys(ledger') /\ KeysOf(ledger') = KeysOf(l0)
             /\ \A e \in EntriesOf(ledger') : \E d \in EntriesOf(l0) :
                   /\ e.key = d.key /\ e.call = d.call
                   /\ e.status = IF d.key = key[c] THEN s ELSE d.status
             /\ \A l \in Ledgers' : l = ledger' \/ (l \in Ledgers /\ \E d \in Call \ {c} : stage[d] = "confirm")
  BY RestatesLedgers
<1>a. PICK l0 \in Ledgers :
             /\ s \in Final => stage[c] = "confirm" /\ stage'[c] = "settle" /\ s = verdict'[c]
             /\ UniqueKeys(ledger') /\ KeysOf(ledger') = KeysOf(l0)
             /\ \A e \in EntriesOf(ledger') : \E d \in EntriesOf(l0) :
                   /\ e.key = d.key /\ e.call = d.call
                   /\ e.status = IF d.key = key[c] THEN s ELSE d.status
             /\ \A l \in Ledgers' : l = ledger' \/ (l \in Ledgers /\ \E d \in Call \ {c} : stage[d] = "confirm")
  BY <1>0
<1>b. /\ wave' = wave /\ shared' = shared /\ key' = key
      /\ stage[c] \in {"intent", "confirm", "settle"} /\ stage'[c] \in {"settle", "done"} /\ c \in wave
      /\ intents \subseteq intents' /\ settled \subseteq settled'
  BY DEF Restates, ScheduleInv, InWave
<1>c. \A d \in Call \ {c} : stage'[d] = stage[d] /\ verdict'[d] = verdict[d] /\ result'[d] = result[d]
  BY DEF Restates, Others
\* Every ledger has the effects and the calls of one before.
<1>d. \A l \in Ledgers' : \E m \in Ledgers :
          /\ KeysOf(l) = KeysOf(m)
          /\ \A e \in EntriesOf(l) : \E d \in EntriesOf(m) : e.key = d.key /\ e.call = d.call
  BY <1>a
<1>1. KeysDiffer'
  BY <1>a DEF KeysDiffer
<1>2. EntriesHaveCalls'
  <2> SUFFICES ASSUME NEW l \in Ledgers', NEW e \in EntriesOf(l)
               PROVE  e.call \in Makers /\ e.key = key[e.call] /\ stage'[e.call] \in HasEntry
    BY <1>b DEF EntriesHaveCalls, Makers
  <2>1. e.call \in Makers /\ e.key = key[e.call] /\ stage[e.call] \in HasEntry
    BY <1>d DEF EntriesHaveCalls
  <2> QED BY <1>b, <1>c, <2>1 DEF HasEntry, Makers
<1>3. FinalIsIntended'
  <2> SUFFICES ASSUME NEW l \in Ledgers', NEW e \in EntriesOf(l), e.status \in Final PROVE e.key \in intents
    BY <1>b DEF FinalIsIntended
  <2>1. s \in Final => key[c] \in intents
    BY <1>a DEF MakerInv, IntendedOnly, PastIntent
  <2> QED BY <1>a, <2>1 DEF FinalIsIntended
<1>4. LostIsIntended'
  <2> SUFFICES ASSUME NEW l \in Ledgers', NEW m \in Ledgers', NEW e \in EntriesOf(l), e.call \notin wave, e.key \notin KeysOf(m)
               PROVE  e.key \in intents
    BY <1>b DEF LostIsIntended
  <2>1. PICK l2 \in Ledgers : \E d \in EntriesOf(l2) : e.key = d.key /\ e.call = d.call
    BY <1>d
  <2>2. PICK m2 \in Ledgers : KeysOf(m) = KeysOf(m2)
    BY <1>d
  <2> QED BY <2>1, <2>2 DEF LostIsIntended
<1>5. NewIsWaves'
  <2> SUFFICES ASSUME NEW d \in wave, IsEffect(OpOf[d]), d \in Call
               PROVE  /\ stage'[d] \in Awaiting \cup {"intent"} => key[d] \in intents \/ OfTheWave(d)'
                      /\ stage'[d] \in Making => OfTheWave(d)'
    BY <1>b DEF NewIsWaves, Makers, BatchTyped, ScheduleTyped
  <2>1. OfTheWave(d) => OfTheWave(d)'
    BY <1>b, <1>d DEF OfTheWave
  <2>2. CASE d = c
    BY <1>b, <2>2 DEF Awaiting, Making
  <2>3. CASE d # c
    BY <1>c, <2>1, <2>3 DEF NewIsWaves, Makers
  <2> QED BY <2>2, <2>3
<1>6. AloneIs'
  BY <1>b DEF AloneIs
<1>7. AloneHas'
  <2> SUFFICES ASSUME NEW d \in wave \ shared, stage'[d] \in {"intent"} \cup Making PROVE FALSE
    BY <1>b DEF AloneHas
  <2>1. d = c
    BY <1>b DEF AloneIs
  <2> QED BY <1>b, <2>1 DEF Making
<1>8. OkSettled'
  <2> SUFFICES ASSUME NEW d \in Makers \ shared, result'[d] = "ok"
               PROVE  stage'[d] = "done" /\ <<key[d], "succeeded">> \in settled'
    BY <1>b DEF OkSettled, Makers
  <2>1. CASE d = c
    BY <1>b, <2>1 DEF OkSettled, Restates
  <2>2. CASE d # c
    BY <1>b, <1>c, <2>2 DEF OkSettled, Makers
  <2> QED BY <2>1, <2>2
<1>9. LedgerBacked'
  <2> SUFFICES ASSUME NEW l \in Ledgers', NEW e \in EntriesOf(l), e.call \notin shared, e.status \in Final
               PROVE  Backed(e)'
    BY <1>b DEF LedgerBacked
  <2>1. CASE l = ledger'
    <3>1. PICK d \in EntriesOf(l0) :
              /\ e.key = d.key /\ e.call = d.call /\ e.status = IF d.key = key[c] THEN s ELSE d.status
      BY <1>a, <2>1
    <3>2. CASE d.key = key[c]
      <4>1. stage[c] = "confirm" /\ stage'[c] = "settle" /\ verdict'[c] = e.status
        BY <1>a, <3>1, <3>2
      <4>2. OfTheWave(c)
        BY <1>b, <4>1 DEF NewIsWaves, Makers, Making
      <4>3. e.call \in wave
        BY <3>1, <3>2, <4>2 DEF OfTheWave
      <4>4. e.call = c
        BY <1>b, <4>3 DEF AloneIs
      <4> QED BY <4>1, <4>4 DEF Backed
    <3>3. CASE d.key # key[c]
      <4>1. Backed(d)
        BY <3>1, <3>3 DEF LedgerBacked
      <4>2. d.call \in Call /\ d.call # c
        BY <3>3 DEF EntriesHaveCalls, Makers
      <4>3. Backed(d)'
        BY <1>b, <1>c, <4>1, <4>2 DEF Backed
      <4> QED BY <3>1, <3>3, <4>3 DEF Backed
    <3> QED BY <3>2, <3>3
  <2>2. CASE l \in Ledgers /\ \E d \in Call \ {c} : stage[d] = "confirm"
    <3>1. Backed(e)
      BY <2>2 DEF LedgerBacked
    <3>2. e.call \in Call
      BY <2>2 DEF EntriesHaveCalls, Makers
    <3>3. c \in shared
      <4>1. PICK d \in Call \ {c} : stage[d] = "confirm"
        BY <2>2
      <4>2. d \in wave
        BY <4>1 DEF ScheduleInv, InWave
      <4> QED BY <1>b, <4>1, <4>2 DEF AloneIs
    <3>4. e.call # c
      BY <3>3
    <3> QED BY <1>b, <1>c, <3>1, <3>2, <3>4 DEF Backed
  <2> QED BY <1>a, <2>1, <2>2
<1> QED BY <1>1, <1>2, <1>3, <1>4, <1>5, <1>6, <1>7, <1>8, <1>9

LEMMA RecordKeeps ==
    ASSUME BatchTyped, ScheduleInv, LedgerInv, NEW c \in Call, Record(c)
    PROVE  LedgerInv'
<1> USE DEF LedgerInv
<1>0. /\ UNCHANGED <<wave, shared, key, verdict, result, snap, intents, settled>>
      /\ stage \in [Call -> Place] /\ stage' = [stage EXCEPT ![c] = "intent"] /\ stage[c] = "record"
      /\ c \in wave /\ c \in Makers /\ wave \subseteq Call
  <2>1. stage[c] = "record" /\ c \in wave
    BY DEF Record, ScheduleInv, InWave
  <2>2. c \in Makers
    BY <2>1 DEF Makers, BatchTyped, CallsKnown, CallKnown
  <2> QED BY <2>1, <2>2 DEF Record, batch, local, Move, BatchTyped, CallsTyped, ScheduleTyped
<1>1. /\ key[c] \notin KeysOf(ledger)
      /\ EntriesOf(ledger') \subseteq EntriesOf(ledger) \cup {NewEntry(c)}
      /\ NewEntry(c) \in EntriesOf(ledger')
      /\ \A e \in EntriesOf(ledger) : e.status \notin {"succeeded", "failed"} => e \in EntriesOf(ledger')
      /\ UniqueKeys(ledger) => UniqueKeys(ledger')
  BY RecordIs
<1>2. NewEntry(c).key = key[c] /\ NewEntry(c).call = c /\ NewEntry(c).status = "in_progress"
  BY DEF NewEntry
<1>3. \A l \in Ledgers' : l = ledger' \/ l \in Ledgers
  <2> TAKE l \in Ledgers'
  <2>1. CASE \E d \in Call : stage'[d] = "confirm" /\ l = snap'[d]
    BY <1>0, <2>1 DEF Ledgers
  <2> QED BY <2>1 DEF Ledgers
<1>4. ledger \in Ledgers /\ ledger' \in Ledgers'
  BY DEF Ledgers
\* An entry of a ledger is one of a ledger before, or the new one.
<1>5. \A l \in Ledgers' : \A e \in EntriesOf(l) : e = NewEntry(c) \/ \E m \in Ledgers : e \in EntriesOf(m)
  BY <1>1, <1>3, <1>4
<1>6. KeysDiffer'
  BY <1>1, <1>3, <1>4 DEF KeysDiffer
<1>7. EntriesHaveCalls'
  <2> SUFFICES ASSUME NEW l \in Ledgers', NEW e \in EntriesOf(l)
               PROVE  e.call \in Makers /\ e.key = key[e.call] /\ stage'[e.call] \in HasEntry
    BY <1>0 DEF EntriesHaveCalls, Makers
  <2>1. stage'[c] \in HasEntry
    BY <1>0 DEF HasEntry
  <2>2. CASE \E m \in Ledgers : e \in EntriesOf(m)
    <3>1. e.call \in Makers /\ e.key = key[e.call] /\ stage[e.call] \in HasEntry
      BY <2>2 DEF EntriesHaveCalls
    <3> QED BY <1>0, <2>1, <3>1 DEF Makers
  <2> QED BY <1>0, <1>2, <1>5, <2>1, <2>2
<1>8. FinalIsIntended'
  BY <1>0, <1>2, <1>5 DEF FinalIsIntended, Final
<1>9. LostIsIntended'
  <2> SUFFICES ASSUME NEW l \in Ledgers', NEW m \in Ledgers', NEW e \in EntriesOf(l), e.call \notin wave, e.key \notin KeysOf(m)
               PROVE  e.key \in intents
    BY <1>0 DEF LostIsIntended
  <2>1. e # NewEntry(c)
    BY <1>0, <1>2
  <2>2. PICK l2 \in Ledgers : e \in EntriesOf(l2)
    BY <1>5, <2>1
  <2>3. CASE m \in Ledgers
    BY <2>2, <2>3 DEF LostIsIntended
  <2>4. CASE m = ledger'
    <3>1. CASE e.key \notin KeysOf(ledger)
      BY <1>4, <2>2, <3>1 DEF LostIsIntended
    <3>2. CASE e.key \in KeysOf(ledger)
      <4>1. PICK d \in EntriesOf(ledger) : d.key = e.key
        BY <3>2 DEF KeysOf
      <4>2. d \notin EntriesOf(ledger')
        BY <2>4, <4>1 DEF KeysOf
      <4>3. d.status \in Final
        BY <1>1, <4>1, <4>2 DEF Final
      <4> QED BY <1>4, <4>1, <4>3 DEF FinalIsIntended
    <3> QED BY <3>1, <3>2
  <2> QED BY <1>3, <2>3, <2>4
<1>10. NewIsWaves'
  <2> SUFFICES ASSUME NEW d \in wave, d \in Makers
               PROVE  /\ stage'[d] \in Awaiting \cup {"intent"} => key[d] \in intents \/ OfTheWave(d)'
                      /\ stage'[d] \in Making => OfTheWave(d)'
    BY <1>0 DEF NewIsWaves, Makers
  <2>1. OfTheWave(d) => OfTheWave(d)'
    BY <1>0, <1>2, <1>5 DEF OfTheWave
  <2>2. /\ stage'[d] \in Awaiting \cup {"intent"} => stage[d] \in Awaiting \cup {"intent"}
        /\ stage'[d] \in Making => stage[d] \in Making
    BY <1>0 DEF Awaiting, Making, Makers
  <2> QED BY <2>1, <2>2 DEF NewIsWaves
<1>11. AloneIs'
  BY <1>0 DEF AloneIs
<1>12. AloneHas'
  <2> SUFFICES ASSUME NEW d \in wave \ shared PROVE key[d] \in KeysOf(ledger')
    BY <1>0 DEF AloneHas
  <2>1. d = c
    BY <1>0 DEF AloneIs
  <2> QED BY <1>1, <1>2, <2>1 DEF KeysOf
<1>13. OkSettled'
  BY <1>0 DEF OkSettled, Makers
<1>14. LedgerBacked'
  <2> SUFFICES ASSUME NEW l \in Ledgers', NEW e \in EntriesOf(l), e.call \notin shared, e.status \in Final
               PROVE  Backed(e)'
    BY <1>0 DEF LedgerBacked
  <2>1. PICK m \in Ledgers : e \in EntriesOf(m)
    BY <1>2, <1>5 DEF Final
  <2>2. Backed(e) /\ e.call \in Call
    BY <2>1 DEF LedgerBacked, EntriesHaveCalls, Makers
  <2> QED BY <1>0, <2>2 DEF Backed
<1> QED BY <1>6, <1>7, <1>8, <1>9, <1>10, <1>11, <1>12, <1>13, <1>14

-----------------------------------------------------------------------------
\* Between two waves there is one ledger.
LEMMA WaveKeeps ==
    ASSUME BatchTyped, ScheduleInv, LedgerInv, Schedule \/ EndWave
    PROVE  LedgerInv'
<1> USE DEF LedgerInv
<1>0. /\ UNCHANGED <<stage, key, verdict, result, snap, ledger, intents, settled>>
      /\ \A c \in Call : stage[c] \in {"idle", "ready", "done"}
  <2>1. UNCHANGED <<stage, key, verdict, result, snap, ledger, intents, settled>>
    BY DEF Schedule, EndWave, local, book
  <2>2. CASE Schedule
    BY <2>1, <2>2 DEF Schedule, ScheduleInv, InWave
  <2>3. CASE EndWave
    BY <2>1, <2>3 DEF EndWave, ScheduleInv, InWave
  <2> QED BY <2>1, <2>2, <2>3
<1>1. Ledgers = {ledger} /\ Ledgers' = {ledger}
  BY <1>0 DEF Ledgers
<1>2. shared \subseteq shared' /\ AloneIs'
  <2>1. CASE EndWave
    BY <2>1 DEF EndWave, AloneIs
  <2>2. CASE Schedule
    <3>1. PICK n \in 1..Len(prepared) :
              /\ wave' = {prepared[i] : i \in 1..n}
              /\ shared' = IF n > 1 THEN shared \cup wave' ELSE shared
      BY <2>2 DEF Schedule
    <3>2. CASE n > 1
      BY <3>1, <3>2 DEF AloneIs
    <3>3. CASE n = 1
      BY <3>1, <3>3 DEF AloneIs
    <3>4. Len(prepared) \in Nat
      BY DEF BatchTyped, ScheduleTyped
    <3> QED BY <3>1, <3>2, <3>3, <3>4
  <2> QED BY <2>1, <2>2
<1>3. KeysDiffer' /\ EntriesHaveCalls' /\ FinalIsIntended'
  BY <1>0, <1>1 DEF KeysDiffer, EntriesHaveCalls, FinalIsIntended, Makers
<1>4. LostIsIntended'
  BY <1>1 DEF LostIsIntended, KeysOf
<1>5. NewIsWaves' /\ AloneHas'
  BY <1>0 DEF NewIsWaves, AloneHas, Makers, Awaiting, Making
<1>6. OkSettled'
  BY <1>0, <1>2 DEF OkSettled, Makers
<1>7. LedgerBacked'
  BY <1>0, <1>1, <1>2 DEF LedgerBacked, Backed
<1> QED BY <1>2, <1>3, <1>4, <1>5, <1>6, <1>7

-----------------------------------------------------------------------------
LEMMA InitLedger == ToolInit => LedgerInv
<1> SUFFICES ASSUME ToolInit PROVE LedgerInv
  OBVIOUS
<1>1. Ledgers = {<< >>} /\ EntriesOf(<< >>) = {} /\ UniqueKeys(<< >>)
  BY DEF ToolInit, Ledgers, EntriesOf, UniqueKeys
<1>2. KeysDiffer /\ EntriesHaveCalls /\ FinalIsIntended /\ LostIsIntended /\ LedgerBacked
  BY <1>1 DEF KeysDiffer, EntriesHaveCalls, FinalIsIntended, LostIsIntended, LedgerBacked
<1>3. NewIsWaves /\ AloneIs /\ AloneHas
  BY DEF ToolInit, NewIsWaves, AloneIs, AloneHas
<1>4. OkSettled
  BY DEF ToolInit, OkSettled, Makers
<1> QED BY <1>2, <1>3, <1>4 DEF LedgerInv

LEMMA CallsOthers ==
    ASSUME BatchTyped, NEW c \in Call, NEW p, Move(c, p),
           key' = key \/ \E k : key' = [key EXCEPT ![c] = k],
           verdict' = verdict \/ \E v : verdict' = [verdict EXCEPT ![c] = v],
           result' = result \/ \E r : result' = [result EXCEPT ![c] = r],
           snap' = snap \/ \E l : snap' = [snap EXCEPT ![c] = l]
    PROVE  Others(c) /\ stage'[c] = p
BY DEF BatchTyped, CallsTyped, LedgersTyped, Move, Others

LEMMA QuietSteps ==
    ASSUME BatchTyped, ScheduleInv, MakerInv, NEW c \in Call,
           \/ Begin(c) \/ Acquire(c) \/ RecordedMeanwhile(c) \/ Intent(c) \/ Checkpoint(c)
           \/ Invoke(c) \/ FinishCall(c) \/ Settle(c) \/ CutShort(c) \/ \E v \in Status : Return(c, v)
    PROVE  Quiet(c)
<1>0. /\ stage \in [Call -> Place] /\ key \in [Call -> Effect \cup {Unset}]
      /\ verdict \in [Call -> Status \cup {Unset}] /\ result \in [Call -> {"ok", "failed", Unset}]
      /\ snap \in [Call -> Seq(Entry)]
  BY DEF BatchTyped, CallsTyped, LedgersTyped
<1> USE DEF Quiet, HasEntry, Making, Awaiting
<1>1. CASE Begin(c)
  <2> DEFINE base == IF stage[c] = "ready" THEN Key(OpOf[c], Unset) ELSE key[c]
             k == Admission(c, base)
  <2>1. stage[c] \in {"ready", "again"} /\ UNCHANGED <<wave, shared, ledger, intents, settled, verdict, snap>>
    BY <1>1 DEF Begin, batch, book
  <2>2. CASE ~IsEffect(OpOf[c])
    <3>1. Move(c, "invoke") /\ UNCHANGED <<key, result>>
      BY <1>1, <2>2 DEF Begin
    <3>2. Others(c) /\ stage'[c] = "invoke"
      BY <2>1, <3>1, CallsOthers
    <3> QED BY <2>1, <2>2, <3>1, <3>2
  <2>3. CASE IsEffect(OpOf[c]) /\ k = Unset
    <3>1. Move(c, "done") /\ result' = [result EXCEPT ![c] = "failed"] /\ UNCHANGED key
      BY <1>1, <2>3 DEF Begin, Refuse, Answer
    <3>2. Others(c) /\ stage'[c] = "done" /\ result'[c] = "failed"
      BY <1>0, <2>1, <3>1, CallsOthers
    <3> QED BY <2>1, <3>1, <3>2
  <2>4. CASE IsEffect(OpOf[c]) /\ k # Unset
    <3>1. Move(c, "acquire") /\ key' = [key EXCEPT ![c] = k] /\ UNCHANGED result
      BY <1>1, <2>4 DEF Begin
    <3>2. base \in Effect
      <4>1. CASE stage[c] = "ready"
        BY <4>1, KeyIs
      <4>2. CASE stage[c] = "again"
        BY <2>4, <4>2 DEF BatchTyped, CallsKnown, CallKnown
      <4> QED BY <2>1, <4>1, <4>2
    <3> HIDE DEF base
    <3>3. k \notin KeysOf(ledger)
      BY <2>4, <3>2, AdmissionIsNew DEF BatchTyped, LedgersTyped
    <3> HIDE DEF k
    <3>4. Others(c) /\ stage'[c] = "acquire" /\ key'[c] = k /\ result'[c] = result[c]
      BY <1>0, <2>1, <3>1, CallsOthers
    <3> QED BY <2>1, <3>1, <3>3, <3>4
  <2> QED BY <2>2, <2>3, <2>4
<1>2. CASE Acquire(c) \/ RecordedMeanwhile(c)
  <2>1. /\ stage[c] \in {"acquire", "record"}
        /\ UNCHANGED <<wave, shared, ledger, intents, settled, key, verdict, snap>>
        /\ \/ \E p \in {"record", "again"} : Move(c, p) /\ UNCHANGED result /\ (p = "record" => stage[c] = "acquire")
           \/ Move(c, "done") /\ result' = [result EXCEPT ![c] = "failed"]
    BY <1>2 DEF Acquire, RecordedMeanwhile, batch, Refuse, Answer
  <2>2. PICK p \in {"record", "again", "done"} :
            Move(c, p) /\ (UNCHANGED result \/ (p = "done" /\ result' = [result EXCEPT ![c] = "failed"]))
    BY <2>1
  <2>3. Others(c) /\ stage'[c] = p
    BY <2>1, <2>2, CallsOthers
  <2>4. result'[c] = result[c] \/ result'[c] = "failed"
    BY <1>0, <2>2
  <2> QED BY <2>1, <2>2, <2>3, <2>4
<1>3. CASE Intent(c)
  <2>1. /\ stage[c] = "intent" /\ key[c] \notin intents /\ intents' = intents \cup {key[c]}
        /\ UNCHANGED <<wave, shared, ledger, settled, key, result, snap>>
        /\ \/ Move(c, "finish") /\ verdict' = [verdict EXCEPT ![c] = "cancelled"]
           \/ Move(c, "checkpoint") /\ UNCHANGED verdict
    BY <1>3 DEF Intent, AfterIntent, StoresIntent, batch
  <2>2. PICK p \in {"finish", "checkpoint"} : Move(c, p)
    BY <2>1
  <2>3. Others(c) /\ stage'[c] = p
    BY <2>1, <2>2, CallsOthers
  <2>4. result[c] = result'[c] /\ key'[c] = key[c]
    BY <2>1
  <2>5. p \in Making /\ p # "confirm" /\ p \notin Awaiting \cup {"intent", "done"} /\ p \in HasEntry
    BY <2>2
  <2> QED BY <2>1, <2>3, <2>4, <2>5
<1>4. CASE Checkpoint(c)
  <2>1. /\ stage[c] = "checkpoint" /\ UNCHANGED <<wave, shared, ledger, intents, settled, key, result, snap>>
        /\ \/ Move(c, "finish") /\ verdict' = [verdict EXCEPT ![c] = "failed"]
           \/ Move(c, "invoke") /\ UNCHANGED verdict
    BY <1>4 DEF Checkpoint, batch, book
  <2>2. PICK p \in {"finish", "invoke"} : Move(c, p)
    BY <2>1
  <2>3. Others(c) /\ stage'[c] = p
    BY <2>1, <2>2, CallsOthers
  <2> QED BY <2>1, <2>2, <2>3
<1>5. CASE Invoke(c) \/ CutShort(c) \/ \E v \in Status : Return(c, v)
  <2>1. /\ stage[c] \in {"invoke", "running"}
        /\ UNCHANGED <<wave, shared, ledger, intents, settled, key, snap>>
        /\ \/ Move(c, "running") /\ stage[c] = "invoke" /\ UNCHANGED <<verdict, result>>
           \/ \E v \in Status : Ended(c, v)
    BY <1>5 DEF Invoke, CutShort, Return, batch, book, Status
  <2>2. CASE Move(c, "running") /\ stage[c] = "invoke" /\ UNCHANGED <<verdict, result>>
    <3>1. Others(c) /\ stage'[c] = "running"
      BY <2>1, <2>2, CallsOthers
    <3> QED BY <2>1, <2>2, <3>1
  <2>3. CASE \E v \in Status : Ended(c, v)
    <3>1. CASE IsEffect(OpOf[c])
      <4>1. Move(c, "finish") /\ (\E v : verdict' = [verdict EXCEPT ![c] = v]) /\ UNCHANGED result
        BY <2>3, <3>1 DEF Ended
      <4>2. Others(c) /\ stage'[c] = "finish"
        BY <2>1, <4>1, CallsOthers
      <4> QED BY <2>1, <4>1, <4>2
    <3>2. CASE ~IsEffect(OpOf[c])
      <4>1. /\ Move(c, "done") /\ (\E v : verdict' = [verdict EXCEPT ![c] = v])
            /\ \E r : result' = [result EXCEPT ![c] = r]
        BY <2>3, <3>2 DEF Ended, Answer
      <4>2. Others(c) /\ stage'[c] = "done"
        BY <2>1, <4>1, CallsOthers
      <4> QED BY <2>1, <3>2, <4>2
    <3> QED BY <3>1, <3>2
  <2> QED BY <2>1, <2>2, <2>3
<1>6. CASE FinishCall(c)
  <2>1. stage[c] = "finish" /\ UNCHANGED <<wave, shared, ledger, intents, settled, key, verdict>>
    BY <1>6 DEF FinishCall, batch, book
  <2>2. CASE IndexOf(ledger, key[c]) # 0
    <3>1. Move(c, "confirm") /\ snap' = [snap EXCEPT ![c] = ledger] /\ UNCHANGED result
      BY <1>6, <2>2 DEF FinishCall
    <3>2. Others(c) /\ stage'[c] = "confirm"
      BY <2>1, <3>1, CallsOthers
    <3>3. snap'[c] = ledger
      BY <1>0, <3>1
    <3> QED BY <2>1, <3>1, <3>2, <3>3
  <2>3. CASE IndexOf(ledger, key[c]) = 0
    <3>1. UNCHANGED snap /\ \E r \in {"ok", "failed"} : Move(c, "done") /\ result' = [result EXCEPT ![c] = r]
      BY <1>6, <2>3 DEF FinishCall, Answer
    <3>2. Others(c) /\ stage'[c] = "done"
      BY <2>1, <3>1, CallsOthers
    <3>3. key[c] \notin KeysOf(ledger)
      <4>1. \A i \in DOMAIN ledger : ledger[i].key # key[c]
        BY <2>3, IndexIs DEF BatchTyped, LedgersTyped
      <4> QED BY <4>1 DEF KeysOf, EntriesOf
    <3>4. /\ key'[c] = key[c] /\ snap'[c] = snap[c] /\ wave' = wave /\ shared' = shared /\ ledger' = ledger
          /\ intents' = intents /\ settled' = settled /\ stage[c] = "finish"
      BY <2>1, <3>1
    <3> QED BY <3>2, <3>3, <3>4
  <2> QED BY <2>2, <2>3
<1>7. CASE Settle(c)
  <2>1. /\ stage[c] = "settle" /\ UNCHANGED <<wave, shared, ledger, intents, key, verdict, snap>>
        /\ settled' = settled \cup {<<key[c], verdict[c]>>}
        /\ \E r \in {"ok", "failed"} :
              /\ Move(c, "done") /\ result' = [result EXCEPT ![c] = r]
              /\ r = "ok" => verdict[c] = "succeeded"
    BY <1>7 DEF Settle, batch, Answer, Refuse
  <2>2. PICK r \in {"ok", "failed"} :
              /\ Move(c, "done") /\ result' = [result EXCEPT ![c] = r]
              /\ r = "ok" => verdict[c] = "succeeded"
    BY <2>1
  <2>3. Others(c) /\ stage'[c] = "done"
    BY <2>1, <2>2, CallsOthers
  <2>4. result'[c] = r
    BY <1>0, <2>2
  <2>5. result'[c] = "ok" => <<key[c], "succeeded">> \in settled'
    BY <2>1, <2>2, <2>4
  <2> QED BY <2>1, <2>3, <2>5
<1> QED BY <1>1, <1>2, <1>3, <1>4, <1>5, <1>6, <1>7

LEMMA RestateSteps ==
    ASSUME BatchTyped, NEW c \in Call, IntentFails(c) \/ Confirm(c) \/ ConfirmFails(c) \/ SettleFails(c)
    PROVE  Restates(c) /\ IsEffect(OpOf[c])
<1>0. result \in [Call -> {"ok", "failed", Unset}] /\ IsEffect(OpOf[c])
  BY DEF BatchTyped, CallsTyped, CallsKnown, CallKnown, IntentFails, Confirm, ConfirmFails, SettleFails
<1>1. ASSUME Move(c, "done"), result' = [result EXCEPT ![c] = "failed"],
             UNCHANGED <<batch, key, verdict>>, intents \subseteq intents', settled \subseteq settled',
             snap' = snap \/ \E l : snap' = [snap EXCEPT ![c] = l],
             stage[c] \in {"intent", "confirm", "settle"}, ledger' = WithStatus(ledger, key[c], "unknown")
      PROVE  Restates(c)
  <2>1. Others(c) /\ stage'[c] = "done"
    BY <1>1, CallsOthers
  <2>2. result'[c] = "failed"
    BY <1>0, <1>1
  <2>3. "unknown" \in Status /\ "unknown" \notin Final
    BY DEF Status, Final
  <2> QED BY <1>1, <2>1, <2>2, <2>3 DEF Restates, batch
<1>2. CASE IntentFails(c)
  <2>1. /\ Move(c, "done") /\ result' = [result EXCEPT ![c] = "failed"] /\ stage[c] = "intent"
        /\ UNCHANGED <<batch, key, verdict, snap, settled>> /\ intents \subseteq intents'
        /\ ledger' = WithStatus(ledger, key[c], "unknown")
    BY <1>2 DEF IntentFails, Refuse, Answer
  <2> QED BY <1>0, <1>1, <2>1
<1>3. CASE ConfirmFails(c)
  <2>1. /\ Move(c, "done") /\ result' = [result EXCEPT ![c] = "failed"] /\ stage[c] = "confirm"
        /\ UNCHANGED <<batch, key, verdict, intents, settled>> /\ snap' = [snap EXCEPT ![c] = << >>]
        /\ ledger' = WithStatus(ledger, key[c], "unknown")
    BY <1>3 DEF ConfirmFails, Refuse, Answer
  <2> QED BY <1>0, <1>1, <2>1
<1>4. CASE SettleFails(c)
  <2>1. /\ Move(c, "done") /\ result' = [result EXCEPT ![c] = "failed"] /\ stage[c] = "settle"
        /\ UNCHANGED <<batch, key, verdict, snap, intents>> /\ settled \subseteq settled'
        /\ ledger' = WithStatus(ledger, key[c], "unknown")
    BY <1>4 DEF SettleFails, Unsettled, Refuse, Answer
  <2> QED BY <1>0, <1>1, <2>1
<1>5. CASE Confirm(c)
  <2>1. /\ stage[c] = "confirm" /\ ledger' = WithStatus(snap[c], key[c], verdict[c]) /\ Move(c, "settle")
        /\ snap' = [snap EXCEPT ![c] = << >>] /\ UNCHANGED <<batch, key, verdict, result, intents, settled>>
    BY <1>5 DEF Confirm, Merged
  <2>2. Others(c) /\ stage'[c] = "settle"
    BY <2>1, CallsOthers
  <2>3. verdict[c] \in Status
    BY <2>1 DEF BatchTyped, CallsKnown, CallKnown
  <2>4. UNCHANGED <<wave, shared>> /\ intents' = intents /\ settled' = settled /\ verdict'[c] = verdict[c] /\ result'[c] = result[c]
    BY <2>1 DEF batch
  <2> QED BY <1>0, <2>1, <2>2, <2>3, <2>4 DEF Restates
<1> QED BY <1>0, <1>2, <1>3, <1>4, <1>5

LEMMA StepLedger ==
    BatchTyped /\ ScheduleInv /\ MakerInv /\ LedgerInv /\ [BatchNext]_batchVars => LedgerInv'
<1> SUFFICES ASSUME BatchTyped, ScheduleInv, MakerInv, LedgerInv, [BatchNext]_batchVars PROVE LedgerInv'
  OBVIOUS
<1>1. ASSUME UNCHANGED <<wave, shared, stage, key, verdict, result, snap, ledger, intents, settled>>
      PROVE  LedgerInv'
  <2>1. Ledgers' = Ledgers
    BY <1>1 DEF Ledgers
  <2>2. /\ KeysDiffer' /\ EntriesHaveCalls' /\ FinalIsIntended' /\ LostIsIntended'
    BY <1>1, <2>1 DEF LedgerInv, KeysDiffer, EntriesHaveCalls, FinalIsIntended, LostIsIntended
  <2>3. NewIsWaves' /\ AloneIs' /\ AloneHas'
    BY <1>1, <2>1 DEF LedgerInv, NewIsWaves, OfTheWave, AloneIs, AloneHas
  <2>4. OkSettled' /\ LedgerBacked'
    BY <1>1, <2>1 DEF LedgerInv, OkSettled, LedgerBacked, Backed
  <2> QED BY <2>2, <2>3, <2>4 DEF LedgerInv
<1>2. ASSUME NextRound \/ Abort \/ (\E c \in Call : StopLate(c)) \/ (\E k \in leases : LoseLease(k)) PROVE LedgerInv'
  BY <1>1, <1>2 DEF NextRound, Abort, StopLate, LoseLease, batch, local, book
<1>3. ASSUME Admit \/ Deny PROVE LedgerInv'
  <2> DEFINE c == Head(todo)
  <2>1. /\ todo # << >> /\ UNCHANGED <<wave, shared, key, verdict, snap, ledger, intents, settled>>
        /\ \/ Move(c, "ready") /\ UNCHANGED result
           \/ Move(c, "done") /\ result' = [result EXCEPT ![c] = "failed"]
    BY <1>3 DEF Admit, Deny, Refuse, Answer, book
  <2>2. c \in Call /\ stage[c] = "idle"
    <3>1. todo \in Seq(Call)
      BY DEF BatchTyped, ScheduleTyped
    <3>2. c = todo[1] /\ 1 \in DOMAIN todo
      BY <2>1, <3>1
    <3> QED BY <3>1, <3>2 DEF ScheduleInv, Waiting
  <2> HIDE DEF c
  <2>3. PICK p \in {"ready", "done"} : Move(c, p)
    BY <2>1
  <2>4. Others(c) /\ stage'[c] = p
    BY <2>1, <2>2, <2>3, CallsOthers
  <2>5. result'[c] = "ok" => result[c] = "ok"
    BY <2>1, <2>2 DEF BatchTyped, CallsTyped
  <2>6. Quiet(c)
    BY <2>1, <2>2, <2>4, <2>5 DEF Quiet, HasEntry, Making, Awaiting
  <2> QED BY <2>2, <2>6, QuietKeeps
<1>4. ASSUME Schedule \/ EndWave PROVE LedgerInv'
  BY <1>4, WaveKeeps
<1>5. ASSUME NEW c \in Call,
             \/ Begin(c) \/ Acquire(c) \/ RecordedMeanwhile(c) \/ Intent(c) \/ Checkpoint(c)
             \/ Invoke(c) \/ FinishCall(c) \/ Settle(c) \/ CutShort(c) \/ \E v \in Status : Return(c, v)
      PROVE  LedgerInv'
  <2>1. c \in wave
    BY <1>5 DEF ScheduleInv, InWave, Begin, Acquire, RecordedMeanwhile, Intent, Checkpoint, Invoke, FinishCall, Settle, CutShort, Return
  <2> QED BY <1>5, <2>1, QuietSteps, QuietKeeps
<1>6. ASSUME NEW c \in Call, Record(c) PROVE LedgerInv'
  BY <1>6, RecordKeeps
<1>7. ASSUME NEW c \in Call, IntentFails(c) \/ Confirm(c) \/ ConfirmFails(c) \/ SettleFails(c) PROVE LedgerInv'
  BY <1>7, RestateSteps, RestatesKeeps
<1>8. ASSUME UNCHANGED batchVars PROVE LedgerInv'
  BY <1>1, <1>8 DEF batchVars, batch, local, book
<1> QED BY <1>2, <1>3, <1>4, <1>5, <1>6, <1>7, <1>8 DEF BatchNext, ServiceStep, CallStep

-----------------------------------------------------------------------------
LEMMA LedgerHolds == BatchSpec => []LedgerInv
<1>1. BatchInv /\ LedgerInv /\ [BatchNext]_batchVars => LedgerInv'
  BY StepLedger DEF BatchInv
<1> QED BY <1>1, InitLedger, BatchInvHolds, PTL DEF BatchSpec

\* What the run is told of its effects is so in the stream, whatever fails: a call that had
\* no company and is answered ok is settled, and a final entry has its intent and settlement.
THEOREM LedgerTrue == BatchSpec => []LedgerIsTrue
<1>1. BatchInv /\ LedgerInv => LedgerIsTrue
  <2> SUFFICES ASSUME BatchInv, LedgerInv PROVE LedgerIsTrue
    OBVIOUS
  <2>1. OkIsSettled
    BY DEF OkIsSettled, LedgerInv, OkSettled, Makers
  <2>2. LedgerIsBacked
    <3> SUFFICES ASSUME NEW e \in Entries, e.status \in Final
                 PROVE  e.key \in intents /\ (wave = {} /\ e.call \notin shared => <<e.key, e.status>> \in settled)
      BY DEF LedgerIsBacked, Final
    <3>1. ledger \in Ledgers /\ e \in EntriesOf(ledger)
      BY DEF Ledgers, EntriesOf, Entries, Range
    <3>2. e.key \in intents
      BY <3>1 DEF LedgerInv, FinalIsIntended
    <3>3. ASSUME wave = {}, e.call \notin shared PROVE <<e.key, e.status>> \in settled
      <4>1. Backed(e) /\ e.call \in Call
        BY <3>1, <3>3 DEF LedgerInv, LedgerBacked, EntriesHaveCalls, Makers
      <4>2. stage[e.call] # "settle"
        BY <3>3, <4>1 DEF BatchInv, ScheduleInv, InWave
      <4> QED BY <4>1, <4>2 DEF Backed
    <3> QED BY <3>2, <3>3
  <2> QED BY <2>1, <2>2 DEF LedgerIsTrue
<1> QED BY <1>1, LedgerHolds, BatchInvHolds, PTL

-----------------------------------------------------------------------------
(* The steps of a call, by what they leave alone.                          *)

\* No invocation begins or ends.
Plain(c) ==
    /\ UNCHANGED <<wave, prepared, shared, ledger, history>> /\ intents \subseteq intents'
    /\ c \in wave /\ Others(c)
    /\ \/ /\ stage[c] \in {"ready", "again"} /\ UNCHANGED verdict
          /\ \/ IsEffect(OpOf[c]) /\ stage'[c] = "acquire"
             \/ ~IsEffect(OpOf[c]) /\ stage'[c] = "invoke" /\ UNCHANGED key
             \/ stage'[c] = "done" /\ UNCHANGED key
       \/ /\ stage[c] \in Awaiting /\ stage'[c] \in {"record", "again", "done"} /\ UNCHANGED <<key, verdict>>
          /\ stage'[c] = "again" => key[c] \in KeysOf(ledger)
       \/ /\ stage[c] = "intent" /\ key[c] \notin intents /\ UNCHANGED key
          /\ \/ stage'[c] = "checkpoint" /\ UNCHANGED verdict
             \/ stage'[c] = "finish" /\ verdict'[c] = "cancelled" /\ aborted
       \/ /\ stage[c] = "checkpoint" /\ UNCHANGED key
          /\ \/ stage'[c] = "invoke" /\ UNCHANGED verdict
             \/ stage'[c] = "finish" /\ verdict'[c] = "failed"
       \/ stage[c] = "invoke" /\ stage'[c] \in {"finish", "done"} /\ verdict'[c] = "unknown" /\ aborted /\ UNCHANGED key
       \/ stage[c] = "finish" /\ stage'[c] \in {"confirm", "done"} /\ UNCHANGED <<key, verdict>>
       \/ stage[c] = "settle" /\ stage'[c] = "done" /\ UNCHANGED <<key, verdict>>
\* One begins.
Starts(c) ==
    /\ UNCHANGED <<wave, prepared, shared, ledger, intents, key, verdict>> /\ c \in wave /\ Others(c)
    /\ stage[c] = "invoke" /\ stage'[c] = "running" /\ ~aborted
    /\ history' = Append(history, [call |-> c, verdict |-> "running"])
\* One ends.
Ends(c) ==
    /\ UNCHANGED <<wave, prepared, shared, ledger, intents, key>> /\ c \in wave /\ Others(c)
    /\ stage[c] = "running" /\ stage'[c] = IF IsEffect(OpOf[c]) THEN "finish" ELSE "done"
    /\ verdict'[c] \in {"succeeded", "failed", "unknown"} /\ history' = Noted(c, verdict'[c])

PlainStep(c) ==
    \/ Begin(c) \/ Acquire(c) \/ RecordedMeanwhile(c) \/ Intent(c) \/ Checkpoint(c)
    \/ (Invoke(c) /\ aborted) \/ FinishCall(c) \/ Settle(c)
RestateStep(c) == IntentFails(c) \/ Confirm(c) \/ ConfirmFails(c) \/ SettleFails(c)
EndStep(c) == CutShort(c) \/ \E v \in Status : Return(c, v)

LEMMA PlainSteps ==
    ASSUME BatchTyped, ScheduleInv, MakerInv, NEW c \in Call, PlainStep(c)
    PROVE  Plain(c)
<1>0. stage \in [Call -> Place] /\ verdict \in [Call -> Status \cup {Unset}]
  BY DEF BatchTyped, CallsTyped
<1>1. Others(c)
  BY QuietSteps DEF PlainStep, Quiet
<1>2. c \in wave
  BY DEF PlainStep, ScheduleInv, InWave, Begin, Acquire, RecordedMeanwhile, Intent, Checkpoint, Invoke, FinishCall, Settle
<1>3. UNCHANGED <<wave, prepared, shared>>
  BY DEF PlainStep, batch, Begin, Acquire, RecordedMeanwhile, Intent, Checkpoint, Invoke, FinishCall, Settle
<1>a. \A p : Move(c, p) => stage'[c] = p
  BY <1>0 DEF Move
<1>b. \A v : verdict' = [verdict EXCEPT ![c] = v] => verdict'[c] = v
  BY <1>0
<1> USE DEF Refuse, Answer
<1>4. CASE Begin(c)
  <2>1. /\ stage[c] \in {"ready", "again"} /\ UNCHANGED <<ledger, history, intents, verdict>>
        /\ \/ IsEffect(OpOf[c]) /\ Move(c, "acquire")
           \/ ~IsEffect(OpOf[c]) /\ Move(c, "invoke") /\ UNCHANGED key
           \/ Move(c, "done") /\ UNCHANGED key
    BY <1>4 DEF Begin, book
  <2> QED BY <1>1, <1>2, <1>3, <1>a, <2>1 DEF Plain
<1>5. CASE Acquire(c)
  <2>1. /\ stage[c] = "acquire" /\ UNCHANGED <<ledger, history, intents, verdict, key>>
        /\ Move(c, "record") \/ Move(c, "done")
    BY <1>5 DEF Acquire
  <2> QED BY <1>1, <1>2, <1>3, <1>a, <2>1 DEF Plain, Awaiting
<1>6. CASE RecordedMeanwhile(c)
  <2>1. /\ stage[c] = "record" /\ UNCHANGED <<ledger, history, intents, verdict, key>>
        /\ (IndexOf(ledger, key[c]) # 0 /\ Move(c, "again")) \/ Move(c, "done")
    BY <1>6 DEF RecordedMeanwhile
  <2>2. IndexOf(ledger, key[c]) # 0 => key[c] \in KeysOf(ledger)
    <3>1. IndexOf(ledger, key[c]) # 0 => \E i \in DOMAIN ledger : ledger[i].key = key[c]
      BY IndexIs DEF BatchTyped, LedgersTyped
    <3> QED BY <3>1 DEF KeysOf, EntriesOf
  <2> QED BY <1>1, <1>2, <1>3, <1>a, <2>1, <2>2 DEF Plain, Awaiting
<1>7. CASE Intent(c)
  <2>1. /\ stage[c] = "intent" /\ UNCHANGED <<ledger, history, key>> /\ intents \subseteq intents' /\ key[c] \notin intents
        /\ \/ Move(c, "checkpoint") /\ UNCHANGED verdict
           \/ Move(c, "finish") /\ verdict' = [verdict EXCEPT ![c] = "cancelled"] /\ aborted
    BY <1>7 DEF Intent, AfterIntent, StoresIntent
  <2> QED BY <1>1, <1>2, <1>3, <1>a, <1>b, <2>1 DEF Plain
<1>8. CASE Checkpoint(c)
  <2>1. /\ stage[c] = "checkpoint" /\ UNCHANGED <<ledger, history, intents, key>>
        /\ \/ Move(c, "invoke") /\ UNCHANGED verdict
           \/ Move(c, "finish") /\ verdict' = [verdict EXCEPT ![c] = "failed"]
    BY <1>8 DEF Checkpoint, book
  <2> QED BY <1>1, <1>2, <1>3, <1>a, <1>b, <2>1 DEF Plain
<1>9. CASE Invoke(c) /\ aborted
  <2>1. /\ stage[c] = "invoke" /\ UNCHANGED <<ledger, history, intents, key>> /\ aborted
        /\ Move(c, "finish") \/ Move(c, "done")
        /\ verdict' = [verdict EXCEPT ![c] = "unknown"]
    BY <1>9 DEF Invoke, Ended, book
  <2> QED BY <1>1, <1>2, <1>3, <1>a, <1>b, <2>1 DEF Plain
<1>10. CASE FinishCall(c)
  <2>1. /\ stage[c] = "finish" /\ UNCHANGED <<ledger, history, intents, key, verdict>>
        /\ Move(c, "confirm") \/ Move(c, "done")
    BY <1>10 DEF FinishCall, book
  <2> QED BY <1>1, <1>2, <1>3, <1>a, <2>1 DEF Plain
<1>11. CASE Settle(c)
  <2>1. stage[c] = "settle" /\ UNCHANGED <<ledger, history, intents, key, verdict>> /\ Move(c, "done")
    BY <1>11 DEF Settle
  <2> QED BY <1>1, <1>2, <1>3, <1>a, <2>1 DEF Plain
<1> QED BY <1>4, <1>5, <1>6, <1>7, <1>8, <1>9, <1>10, <1>11 DEF PlainStep

LEMMA StartSteps ==
    ASSUME BatchTyped, NEW c \in Call, Invoke(c), ~aborted
    PROVE  Starts(c)
<1>1. /\ UNCHANGED <<wave, prepared, shared, ledger, intents, key, verdict, result, snap>> /\ c \in wave
      /\ stage[c] = "invoke" /\ Move(c, "running")
      /\ history' = Append(history, [call |-> c, verdict |-> "running"])
  BY DEF Invoke, batch, book
<1>2. Others(c) /\ stage'[c] = "running"
  BY <1>1, CallsOthers
<1> QED BY <1>1, <1>2 DEF Starts

LEMMA EndSteps ==
    ASSUME BatchTyped, ScheduleInv, NEW c \in Call, EndStep(c)
    PROVE  Ends(c)
<1>0. verdict \in [Call -> Status \cup {Unset}]
  BY DEF BatchTyped, CallsTyped
<1>1. PICK v \in {"succeeded", "failed", "unknown"} :
          /\ UNCHANGED <<wave, prepared, shared, ledger, intents, key, snap>> /\ stage[c] = "running"
          /\ history' = Noted(c, v) /\ Ended(c, v)
  <2>1. CASE CutShort(c)
    BY <2>1 DEF CutShort, batch, book
  <2>2. CASE \E v \in Status : Return(c, v)
    BY <2>2 DEF Return, batch, book
  <2> QED BY <2>1, <2>2 DEF EndStep
<1>2. c \in wave
  BY <1>1 DEF ScheduleInv, InWave
<1>3. verdict' = [verdict EXCEPT ![c] = v] /\ verdict'[c] = v
  BY <1>0, <1>1 DEF Ended
<1>4. Others(c) /\ stage'[c] = IF IsEffect(OpOf[c]) THEN "finish" ELSE "done"
  <2>1. CASE IsEffect(OpOf[c])
    <3>1. Move(c, "finish") /\ UNCHANGED result
      BY <1>1, <2>1 DEF Ended
    <3> QED BY <1>1, <1>3, <2>1, <3>1, CallsOthers
  <2>2. CASE ~IsEffect(OpOf[c])
    <3>1. Move(c, "done") /\ \E r : result' = [result EXCEPT ![c] = r]
      BY <1>1, <2>2 DEF Ended, Answer
    <3> QED BY <1>1, <1>3, <2>2, <3>1, CallsOthers
  <2> QED BY <2>1, <2>2
<1> QED BY <1>1, <1>2, <1>3, <1>4 DEF Ends

PreparedAreReady ==
    /\ \A i \in DOMAIN prepared : stage[prepared[i]] = "ready" /\ prepared[i] \notin wave
    /\ \A i, j \in DOMAIN prepared : prepared[i] = prepared[j] => i = j
    /\ \A c \in wave : stage[c] # "idle"
KeysHaveOps == \A c \in Makers : key[c] # Unset => key[c] \in Effect /\ key[c].op = OpOf[c]
PastDiffers == \A c, d \in Makers : c # d /\ Past(c) /\ PastIntent(d) => key[c] # key[d]
Outcome == {"succeeded", "failed", "unknown"}
Verdicts ==
    /\ \A h \in DOMAIN history :
        IF stage[history[h].call] = "running" THEN history[h].verdict = "running"
        ELSE history[h].verdict = verdict[history[h].call] /\ history[h].verdict \in Outcome
    /\ \A c \in Makers :
        stage[c] = "running" \/ (stage[c] \in {"finish", "confirm", "settle"} /\ verdict[c] = "succeeded") => Past(c)
CallsInv == PreparedAreReady /\ KeysHaveOps /\ PastDiffers /\ Verdicts

LEMMA InitCalls == ToolInit => CallsInv
<1> SUFFICES ASSUME ToolInit PROVE CallsInv
  OBVIOUS
<1>1. DOMAIN history = {} /\ DOMAIN prepared = {} /\ wave = {}
  BY DEF ToolInit
<1> QED BY <1>1 DEF ToolInit, CallsInv, PreparedAreReady, KeysHaveOps, PastDiffers, PastIntent, Verdicts, Past, Makers

LEMMA RetryHasOp ==
    ASSUME LedgerOK(ledger), NEW b \in Effect, Retry(b) # Unset
    PROVE  Retry(b) \in {b, NextAttempt(b)} /\ NextAttempt(b) \in Effect /\ NextAttempt(b).op = b.op
<1>1. PICK m \in Nat : NextAttempt(b) = [b EXCEPT !.tries = Append(@, 1 + m)]
  BY NextAttemptIs
<1>2. NextAttempt(b) \in Effect /\ NextAttempt(b).op = b.op
  BY <1>1, RetryOK DEF Effect
<1>3. Retry(b) \in {b, NextAttempt(b)}
  BY DEF Retry
<1> QED BY <1>2, <1>3

LEMMA AdmissionHasOp ==
    ASSUME LedgerOK(ledger), NEW c \in Call, NEW b \in Effect, Admission(c, b) # Unset
    PROVE  Admission(c, b) \in Effect /\ Admission(c, b).op = b.op
<1> DEFINE fresh == Key(b.op, c)
           same == {e \in Entries : e.key.op = b.op}
<1>1. fresh \in Effect /\ fresh.op = b.op
  BY KeyIs DEF Effect, Key
<1>2. Admission(c, b) \in {Retry(b), Retry(fresh)}
  BY DEF Admission
<1> HIDE DEF fresh
<1>3. CASE Admission(c, b) = Retry(b)
  BY <1>3, RetryHasOp
<1>4. CASE Admission(c, b) = Retry(fresh)
  BY <1>1, <1>4, RetryHasOp
<1> QED BY <1>2, <1>3, <1>4

\* What a call is about to make is an effect of its operation.
LEMMA BeginHasOp ==
    ASSUME BatchTyped, KeysHaveOps, NEW c \in Call, Begin(c), IsEffect(OpOf[c]), stage'[c] = "acquire"
    PROVE  /\ \E b \in Effect :
                /\ b.op = OpOf[c] /\ b = IF stage[c] = "ready" THEN Key(OpOf[c], Unset) ELSE key[c]
                /\ key'[c] = Admission(c, b) /\ Admission(c, b) # Unset
           /\ key'[c] \in Effect /\ key'[c].op = OpOf[c]
<1> DEFINE b == IF stage[c] = "ready" THEN Key(OpOf[c], Unset) ELSE key[c]
           k == Admission(c, b)
<1>1. b \in Effect /\ b.op = OpOf[c]
  <2>1. CASE stage[c] = "ready"
    BY <2>1, KeyIs DEF Key
  <2>2. CASE stage[c] = "again"
    <3>1. key[c] \in Effect
      BY <2>2 DEF BatchTyped, CallsKnown, CallKnown
    <3>2. key[c] # Unset
      BY <3>1
    <3> QED BY <2>2, <3>1, <3>2 DEF KeysHaveOps, Makers
  <2> QED BY <2>1, <2>2 DEF Begin
<1>2. key'[c] = k /\ k # Unset
  <2>1. stage'[c] = "acquire" /\ stage \in [Call -> Place] /\ key \in [Call -> Effect \cup {Unset}]
    BY DEF BatchTyped, CallsTyped
  <2>2. CASE k = Unset
    <3>1. stage' = [stage EXCEPT ![c] = "done"]
      BY <2>2 DEF Begin, Refuse, Answer, Move
    <3> QED BY <2>1, <3>1
  <2>3. CASE k # Unset
    <3>1. key' = [key EXCEPT ![c] = k]
      BY <2>3 DEF Begin
    <3> HIDE DEF k
    <3> QED BY <2>1, <2>3, <3>1
  <2> QED BY <2>2, <2>3
<1> HIDE DEF b
<1>3. k \in Effect /\ k.op = OpOf[c]
  BY <1>1, <1>2, AdmissionHasOp DEF BatchTyped, LedgersTyped
<1> QED BY <1>1, <1>2, <1>3 DEF b

AtRest == UNCHANGED <<wave, prepared, shared, stage, key, verdict, snap, ledger, intents, history>>
Enters(c) ==
    /\ UNCHANGED <<wave, shared, key, verdict, snap, ledger, intents, history>> /\ Others(c)
    /\ stage[c] = "idle"
    /\ \/ stage'[c] = "ready" /\ prepared' = Append(prepared, c)
       \/ stage'[c] \in {"ready", "done"} /\ UNCHANGED prepared
RecordStep(c) ==
    /\ UNCHANGED <<wave, prepared, shared, key, verdict, snap, intents, history>> /\ c \in wave /\ Others(c)
    /\ stage[c] = "record" /\ stage'[c] = "intent" /\ c \in Makers
\* A status is restated, in the ledger or in the one that was read.
RestatedStep(c) ==
    /\ UNCHANGED <<wave, prepared, shared, key, verdict, history>> /\ intents \subseteq intents'
    /\ c \in wave /\ c \in Makers /\ Restates(c)
    /\ stage'[c] = "settle" => stage[c] = "confirm"

LEMMA StepKinds ==
    ASSUME BatchTyped, ScheduleInv, MakerInv, [BatchNext]_batchVars
    PROVE  \/ AtRest
           \/ \E c \in Call : Enters(c)
           \/ Schedule \/ EndWave
           \/ \E c \in Call : \/ PlainStep(c) /\ Plain(c)
                              \/ Invoke(c) /\ Starts(c)
                              \/ EndStep(c) /\ Ends(c)
                              \/ Record(c) /\ RecordStep(c)
                              \/ RestateStep(c) /\ RestatedStep(c)
<1>1. ASSUME NextRound \/ Abort \/ (\E c \in Call : StopLate(c)) \/ (\E k \in leases : LoseLease(k)) \/ UNCHANGED batchVars
      PROVE  AtRest
  BY <1>1 DEF NextRound, Abort, StopLate, LoseLease, batchVars, batch, local, book, AtRest
<1>2. ASSUME Admit \/ Deny PROVE \E c \in Call : Enters(c)
  <2> DEFINE c == Head(todo)
  <2>1. /\ todo # << >> /\ UNCHANGED <<wave, shared, key, verdict, snap, ledger, intents, history>>
        /\ \/ Move(c, "ready") /\ UNCHANGED result /\ prepared' = Append(prepared, c)
           \/ Move(c, "done") /\ result' = [result EXCEPT ![c] = "failed"] /\ UNCHANGED prepared
    BY <1>2 DEF Admit, Deny, Refuse, Answer, book
  <2>2. c \in Call /\ stage[c] = "idle"
    <3>1. todo \in Seq(Call)
      BY DEF BatchTyped, ScheduleTyped
    <3>2. c = todo[1] /\ 1 \in DOMAIN todo
      BY <2>1, <3>1
    <3> QED BY <3>1, <3>2 DEF ScheduleInv, Waiting
  <2> HIDE DEF c
  <2>3. CASE Move(c, "ready") /\ UNCHANGED result /\ prepared' = Append(prepared, c)
    <3>1. Others(c) /\ stage'[c] = "ready"
      BY <2>1, <2>2, <2>3, CallsOthers
    <3> QED BY <2>1, <2>2, <2>3, <3>1 DEF Enters
  <2>4. CASE Move(c, "done") /\ result' = [result EXCEPT ![c] = "failed"] /\ UNCHANGED prepared
    <3>1. Others(c) /\ stage'[c] = "done"
      BY <2>1, <2>2, <2>4, CallsOthers
    <3> QED BY <2>1, <2>2, <2>4, <3>1 DEF Enters
  <2> QED BY <2>1, <2>3, <2>4
<1>3. ASSUME NEW c \in Call, Record(c) PROVE RecordStep(c)
  <2>1. /\ stage[c] = "record" /\ Move(c, "intent")
        /\ UNCHANGED <<wave, prepared, shared, key, verdict, result, snap, intents, history>>
    BY <1>3 DEF Record, batch, local
  <2>2. Others(c) /\ stage'[c] = "intent"
    BY <2>1, CallsOthers
  <2>3. c \in wave /\ c \in Makers
    BY <2>1 DEF ScheduleInv, InWave, BatchTyped, CallsKnown, CallKnown, Makers
  <2> QED BY <2>1, <2>2, <2>3 DEF RecordStep
<1>4. ASSUME NEW c \in Call, RestateStep(c) PROVE RestatedStep(c)
  <2>1. Restates(c) /\ IsEffect(OpOf[c])
    BY <1>4, RestateSteps DEF RestateStep
  <2>2. UNCHANGED <<wave, prepared, shared, key, verdict, history>> /\ intents \subseteq intents' /\ stage[c] \in {"intent", "confirm", "settle"}
    BY <1>4 DEF RestateStep, IntentFails, Confirm, ConfirmFails, SettleFails, batch
  <2>3. stage'[c] = "settle" => stage[c] = "confirm"
    <3>1. stage[c] = "confirm" \/ Move(c, "done")
      BY <1>4 DEF RestateStep, IntentFails, Confirm, ConfirmFails, SettleFails, Refuse, Answer
    <3>2. stage \in [Call -> Place]
      BY DEF BatchTyped, CallsTyped
    <3> QED BY <3>1, <3>2 DEF Move
  <2> QED BY <2>1, <2>2, <2>3 DEF RestatedStep, ScheduleInv, InWave, Makers
<1>5. ASSUME NEW c \in Call, PlainStep(c) \/ Invoke(c) \/ EndStep(c)
      PROVE  \/ PlainStep(c) /\ Plain(c)
             \/ Invoke(c) /\ Starts(c)
             \/ EndStep(c) /\ Ends(c)
  BY <1>5, PlainSteps, StartSteps, EndSteps DEF PlainStep
<1>6. ASSUME NEW c \in Call, CallStep(c) \/ CutShort(c) \/ \E v \in Status : Return(c, v)
      PROVE  PlainStep(c) \/ Invoke(c) \/ EndStep(c) \/ Record(c) \/ RestateStep(c)
  BY <1>6 DEF CallStep, PlainStep, EndStep, RestateStep
<1> QED BY <1>1, <1>2, <1>3, <1>4, <1>5, <1>6 DEF BatchNext, ServiceStep

-----------------------------------------------------------------------------
LEMMA PreparedSteps ==
    ASSUME BatchTyped, ScheduleInv, MakerInv, CallsInv, [BatchNext]_batchVars
    PROVE  PreparedAreReady'
<1>0. prepared \in Seq(Call) /\ stage \in [Call -> Place] /\ \A i \in DOMAIN prepared : prepared[i] \in Call
  BY ElementOfSeq DEF BatchTyped, ScheduleTyped, CallsTyped
<1> USE DEF CallsInv
<1>1. CASE AtRest
  BY <1>1 DEF AtRest, PreparedAreReady
<1>2. ASSUME NEW c \in Call, Enters(c) PROVE PreparedAreReady'
  <2>1. c \notin wave /\ \A i \in DOMAIN prepared : prepared[i] # c
    BY <1>2 DEF Enters, PreparedAreReady
  <2>2. /\ wave' = wave /\ \A d \in Call \ {c} : stage'[d] = stage[d]
        /\ stage'[c] # "idle"
    BY <1>2 DEF Enters, Others
  <2>3. CASE UNCHANGED prepared
    BY <1>0, <2>1, <2>2, <2>3 DEF PreparedAreReady, BatchTyped, ScheduleTyped
  <2>4. CASE prepared' = Append(prepared, c) /\ stage'[c] = "ready"
    <3>1. Len(prepared) \in Nat /\ DOMAIN prepared = 1..Len(prepared) /\ DOMAIN prepared' = 1..Len(prepared) + 1
      BY <1>0, <2>4
    <3>2. prepared'[Len(prepared) + 1] = c /\ \A i \in 1..Len(prepared) : prepared'[i] = prepared[i]
      BY <1>0, <2>4
    <3>3. \A i \in DOMAIN prepared' : stage'[prepared'[i]] = "ready" /\ prepared'[i] \notin wave
      BY <1>0, <2>1, <2>2, <2>4, <3>1, <3>2 DEF PreparedAreReady
    <3>4. \A i, j \in DOMAIN prepared' : prepared'[i] = prepared'[j] => i = j
      BY <2>1, <3>1, <3>2 DEF PreparedAreReady
    <3>5. \A d \in wave : stage'[d] # "idle"
      BY <2>1, <2>2 DEF PreparedAreReady, BatchTyped, ScheduleTyped
    <3> QED BY <2>2, <3>3, <3>4, <3>5 DEF PreparedAreReady
  <2> QED BY <1>2, <2>3, <2>4 DEF Enters
<1>3. CASE Schedule
  <2>1. PICK n \in 1..Len(prepared) :
            /\ wave' = {prepared[i] : i \in 1..n}
            /\ prepared' = SubSeq(prepared, n + 1, Len(prepared))
    BY <1>3 DEF Schedule
  <2> DEFINE m == Len(prepared)
  <2>2. m \in Nat /\ DOMAIN prepared = 1..m /\ stage' = stage
    BY <1>0, <1>3 DEF Schedule
  <2>3. DOMAIN prepared' = 1..m - n /\ \A i \in 1..m - n : prepared'[i] = prepared[n + i]
    BY <1>0, <2>1
  <2> HIDE DEF m
  <2>4. \A i \in 1..m - n : n + i \in 1..m /\ n + i \notin 1..n
    BY <2>1, <2>2
  <2>5. n \in 1..m /\ 1..n \subseteq 1..m
    BY <2>1, <2>2 DEF m
  <2>6. \A i \in DOMAIN prepared' : stage'[prepared'[i]] = "ready" /\ prepared'[i] \notin wave'
    <3> TAKE i \in DOMAIN prepared'
    <3>1. prepared'[i] = prepared[n + i] /\ n + i \in 1..m /\ n + i \notin 1..n
      BY <2>3, <2>4
    <3>2. prepared[n + i] \notin wave'
      <4>1. ASSUME NEW k \in 1..n PROVE prepared[n + i] # prepared[k]
        <5>1. k \in DOMAIN prepared /\ n + i \in DOMAIN prepared /\ n + i # k
          BY <2>2, <2>5, <3>1
        <5> QED BY <5>1 DEF PreparedAreReady
      <4> QED BY <2>1, <4>1
    <3> QED BY <2>2, <3>1, <3>2 DEF PreparedAreReady
  <2>7. \A i, j \in DOMAIN prepared' : prepared'[i] = prepared'[j] => i = j
    <3> TAKE i, j \in DOMAIN prepared'
    <3>1. /\ n + i \in DOMAIN prepared /\ prepared'[i] = prepared[n + i]
          /\ n + j \in DOMAIN prepared /\ prepared'[j] = prepared[n + j]
      BY <2>2, <2>3, <2>4
    <3>2. prepared'[i] = prepared'[j] => n + i = n + j
      BY <3>1 DEF PreparedAreReady
    <3> QED BY <2>2, <2>3, <2>5, <3>2
  <2>8. \A c \in wave' : stage'[c] # "idle"
    BY <2>1, <2>2, <2>5 DEF PreparedAreReady
  <2> QED BY <2>6, <2>7, <2>8 DEF PreparedAreReady
<1>4. CASE EndWave
  BY <1>4 DEF EndWave, PreparedAreReady
<1>5. ASSUME NEW c \in Call, Plain(c) \/ Starts(c) \/ Ends(c) \/ RecordStep(c) \/ RestatedStep(c) PROVE PreparedAreReady'
  <2>1. UNCHANGED <<wave, prepared>> /\ c \in wave /\ Others(c)
    BY <1>5 DEF Plain, Starts, Ends, RecordStep, RestatedStep, Restates
  <2>2. stage'[c] # "idle"
    BY <1>5 DEF Plain, Starts, Ends, RecordStep, RestatedStep, Restates
  <2> QED BY <1>0, <2>1, <2>2 DEF PreparedAreReady, Others, BatchTyped, ScheduleTyped
<1> QED BY <1>1, <1>2, <1>3, <1>4, <1>5, StepKinds

\* Who has begun, and who begins.
LEMMA PastMoves ==
    ASSUME BatchTyped, BegunInv, CallsInv, NEW c \in Call,
           Enters(c) \/ Plain(c) \/ Ends(c) \/ RecordStep(c) \/ RestatedStep(c)
    PROVE  /\ \A d \in Call : Past(d)' <=> Past(d)
           /\ Past(c) => stage[c] \in {"running", "finish", "confirm", "settle", "done"} /\ key'[c] = key[c]
           /\ DOMAIN history' = DOMAIN history
           /\ \A i \in DOMAIN history :
                /\ history'[i].call = history[i].call
                /\ history'[i].verdict = IF Ends(c) /\ history[i].call = c THEN verdict'[c] ELSE history[i].verdict
<1>1. /\ DOMAIN history' = DOMAIN history
      /\ \A i \in DOMAIN history :
                /\ history'[i].call = history[i].call
                /\ history'[i].verdict = IF Ends(c) /\ history[i].call = c THEN verdict'[c] ELSE history[i].verdict
  <2>1. CASE Ends(c)
    <3>1. WorkTyped /\ verdict'[c] \in Status /\ history' = Noted(c, verdict'[c])
      BY <2>1 DEF BatchTyped, Ends, Status
    <3> QED BY <2>1, <3>1, NotedOK
  <2>2. CASE ~Ends(c)
    BY <2>2 DEF Enters, Plain, RecordStep, RestatedStep
  <2> QED BY <2>1, <2>2
<1>2. \A d \in Call : Past(d)' <=> Past(d)
  BY <1>1 DEF Past
<1>3. Past(c) => stage[c] \in {"running", "finish", "confirm", "settle", "done"}
  BY DEF BegunInv, BegunOnly
<1>4. stage[c] \in {"running", "finish", "confirm", "settle", "done"} => key'[c] = key[c]
  BY DEF Enters, Plain, Ends, RecordStep, RestatedStep, Awaiting
<1> QED BY <1>1, <1>2, <1>3, <1>4

LEMMA PastStarts ==
    ASSUME BatchTyped, BegunInv, NEW c \in Call, Starts(c)
    PROVE  /\ ~Past(c)
           /\ \A d \in Call : Past(d)' <=> Past(d) \/ d = c
           /\ Len(history) + 1 \in Nat \ {0} /\ DOMAIN history = 1..Len(history) /\ DOMAIN history' = 1..Len(history) + 1
           /\ history'[Len(history) + 1].call = c /\ history'[Len(history) + 1].verdict = "running"
           /\ \A i \in 1..Len(history) : history'[i] = history[i]
<1> DEFINE n == Len(history) + 1
           x == [call |-> c, verdict |-> "running"]
<1>1. x.call = c /\ x.verdict = "running" /\ history' = Append(history, x) /\ history \in Seq([call : Call, verdict : Status \cup {"running"}])
  BY DEF Starts, BatchTyped, WorkTyped
<1> HIDE DEF x
<1>2. n \in Nat \ {0} /\ DOMAIN history = 1..n - 1 /\ DOMAIN history' = 1..n /\ history'[n] = x /\ \A i \in 1..n - 1 : history'[i] = history[i]
  BY <1>1
<1>3. ~Past(c)
  BY DEF Starts, BegunInv, BegunOnly
<1> HIDE DEF n
<1>4. ASSUME NEW d \in Call PROVE Past(d)' <=> Past(d) \/ d = c
  <2>1. ASSUME Past(d) PROVE Past(d)'
    BY <1>2, <2>1 DEF Past
  <2>2. n \in DOMAIN history' /\ history'[n].call = c
    BY <1>1, <1>2
  <2>3. ASSUME Past(d)', d # c PROVE Past(d)
    <3>1. PICK i \in DOMAIN history' : history'[i].call = d
      BY <2>3 DEF Past
    <3>2. i # n
      BY <2>2, <2>3, <3>1
    <3>3. i \in DOMAIN history /\ history[i].call = d
      BY <1>2, <3>1, <3>2
    <3> QED BY <3>3 DEF Past
  <2> QED BY <2>1, <2>2, <2>3 DEF Past
<1>5. Len(history) = n - 1
  BY <1>1 DEF n
<1> QED BY <1>1, <1>2, <1>3, <1>4, <1>5 DEF n

-----------------------------------------------------------------------------
\* A call begins to make an effect.
Begun(c) == Begin(c) /\ Plain(c) /\ IsEffect(OpOf[c]) /\ stage'[c] = "acquire"

LEMMA PlainKeys ==
    ASSUME BatchTyped, NEW c \in Call, PlainStep(c), Plain(c)
    PROVE  UNCHANGED key \/ Begun(c)
<1> SUFFICES ASSUME ~UNCHANGED key PROVE Begun(c)
  OBVIOUS
<1>1. Begin(c)
  BY DEF PlainStep, Acquire, RecordedMeanwhile, Intent, Checkpoint, Invoke, FinishCall, Settle
<1>2. Others(c)
  BY DEF Plain
<1>3. key'[c] = key[c] => UNCHANGED key
  <2>1. key \in [Call -> Effect \cup {Unset}]
    BY DEF BatchTyped, CallsTyped
  <2>2. key' \in [Call -> Effect \cup {Unset}]
    <3>1. [BatchNext]_batchVars
      BY <1>1 DEF BatchNext, CallStep
    <3> QED BY <3>1, StepBatchTyped DEF BatchTyped, CallsTyped
  <2> QED BY <1>2, <2>1, <2>2 DEF Others
<1>4. IsEffect(OpOf[c]) /\ stage'[c] = "acquire"
  BY <1>1, <1>3 DEF Plain, Begin, Awaiting
<1> QED BY <1>1, <1>4 DEF Begun

LEMMA KeysSteps ==
    ASSUME BatchTyped, ScheduleInv, MakerInv, CallsInv, [BatchNext]_batchVars
    PROVE  KeysHaveOps'
<1> USE DEF CallsInv
<1>1. ASSUME UNCHANGED key PROVE KeysHaveOps'
  BY <1>1 DEF KeysHaveOps, Makers
<1>2. ASSUME NEW c \in Call, PlainStep(c), Plain(c) PROVE KeysHaveOps'
  <2>1. CASE UNCHANGED key
    BY <1>1, <2>1
  <2>2. CASE Begun(c)
    BY <1>2, <2>2, BeginHasOp DEF Begun, Plain, KeysHaveOps, Makers, Others
  <2> QED BY <1>2, <2>1, <2>2, PlainKeys
<1> QED BY <1>1, <1>2, StepKinds DEF AtRest, Enters, Schedule, EndWave, local, Starts, Ends, RecordStep, RestatedStep

LEMMA PastSteps ==
    ASSUME BatchTyped, ScheduleInv, MakerInv, BegunInv, CallsInv, [BatchNext]_batchVars
    PROVE  PastDiffers'
<1> USE DEF CallsInv
<1>1. CASE AtRest \/ Schedule \/ EndWave
  BY <1>1 DEF AtRest, Schedule, EndWave, local, PastDiffers, Past, PastIntent, Makers
<1>2. ASSUME NEW c \in Call, Enters(c) \/ Plain(c) \/ Ends(c) \/ RecordStep(c) \/ RestatedStep(c) PROVE PastDiffers'
  <2> SUFFICES ASSUME NEW d \in Makers, NEW x \in Makers, d # x, Past(d)', PastIntent(x)'
               PROVE  key'[d] # key'[x]
    BY DEF PastDiffers, Makers
  <2>1. Past(d) /\ key'[d] = key[d]
    <3>1. Others(c)
      BY <1>2 DEF Enters, Plain, Ends, RecordStep, RestatedStep, Restates
    <3>2. Past(d)
      BY <1>2, PastMoves DEF Makers
    <3>3. d = c => key'[d] = key[d]
      BY <1>2, <3>2, PastMoves
    <3> QED BY <3>1, <3>2, <3>3 DEF Others, Makers
  <2>2. CASE x # c
    BY <1>2, <2>1, <2>2 DEF Enters, Plain, Ends, RecordStep, RestatedStep, Restates, Others, PastDiffers, PastIntent, Makers
  <2>3. CASE x = c
    <3>1. key'[x] = key[x] /\ (PastIntent(x) \/ (stage[x] = "intent" /\ key[x] \notin intents))
      <4>0. stage'[x] \in {"checkpoint", "invoke", "running", "finish", "confirm", "settle"} /\ IsEffect(OpOf[x])
        BY DEF PastIntent
      <4>1. CASE Enters(c) \/ RecordStep(c)
        BY <2>3, <4>0, <4>1 DEF Enters, RecordStep
      <4>2. CASE Ends(c)
        BY <2>3, <4>0, <4>2 DEF Ends, PastIntent
      <4>3. CASE RestatedStep(c)
        BY <2>3, <4>0, <4>3 DEF RestatedStep, Restates, PastIntent
      <4>4. CASE Plain(c)
        BY <2>3, <4>0, <4>4 DEF Plain, PastIntent, Awaiting
      <4> QED BY <1>2, <4>1, <4>2, <4>3, <4>4
    <3>2. key[d] \in intents
      BY <2>1 DEF BegunInv, BegunOnly, Makers
    <3> QED BY <2>1, <3>1, <3>2 DEF PastDiffers
  <2> QED BY <2>2, <2>3
<1>3. ASSUME NEW c \in Call, Starts(c) PROVE PastDiffers'
  <2> SUFFICES ASSUME NEW d \in Makers, NEW x \in Makers, d # x, Past(d)', PastIntent(x)'
               PROVE  key[d] # key[x]
    BY <1>3 DEF PastDiffers, Makers, Starts
  <2>1. PastIntent(x)
    BY <1>3 DEF PastIntent, Starts, Others, Makers
  <2>2. CASE d # c
    BY <1>3, <2>1, <2>2, PastStarts DEF PastDiffers, Makers
  <2>3. CASE d = c
    <3>1. Makes(d) /\ Makes(x)
      BY <1>3, <2>1, <2>3, PastIntentMakes DEF Makes, Starts, Makers, Holding, Place
    <3> QED BY <3>1 DEF MakerInv, OneMaker, Makers
  <2> QED BY <2>2, <2>3
<1> QED BY <1>1, <1>2, <1>3, StepKinds

LEMMA VerdictSteps ==
    ASSUME BatchTyped, ScheduleInv, MakerInv, BegunInv, CallsInv, [BatchNext]_batchVars
    PROVE  Verdicts'
<1> USE DEF CallsInv
<1>0. \A h \in DOMAIN history : history[h].call \in Call /\ Past(history[h].call)
  BY HistoryIs DEF Past
<1>1. CASE AtRest \/ Schedule \/ EndWave
  BY <1>1 DEF AtRest, Schedule, EndWave, local, Verdicts, Past, Makers
<1>2. ASSUME NEW c \in Call, Enters(c) \/ Plain(c) \/ RecordStep(c) \/ RestatedStep(c) PROVE Verdicts'
  <2>1. ~Ends(c) /\ Others(c)
    BY <1>2 DEF Enters, Plain, RecordStep, RestatedStep, Ends, Restates, Awaiting
  <2>2. UNCHANGED history
    BY <1>2 DEF Enters, Plain, RecordStep, RestatedStep
  <2>3. Past(c) => verdict'[c] = verdict[c] /\ stage[c] # "running" /\ stage'[c] # "running"
    <3>1. Past(c) => stage[c] \in {"running", "finish", "confirm", "settle", "done"}
      BY DEF BegunInv, BegunOnly
    <3> QED BY <1>2, <3>1 DEF Enters, Plain, RecordStep, RestatedStep, Restates, Awaiting
  <2>4. \A h \in DOMAIN history : history[h].call # c =>
            stage'[history[h].call] = stage[history[h].call] /\ verdict'[history[h].call] = verdict[history[h].call]
    BY <1>0, <2>1 DEF Others
  <2>5. \A h \in DOMAIN history' :
          IF stage'[history'[h].call] = "running" THEN history'[h].verdict = "running"
          ELSE history'[h].verdict = verdict'[history'[h].call] /\ history'[h].verdict \in Outcome
    BY <1>0, <2>2, <2>3, <2>4 DEF Verdicts
  <2>6. \A d \in Makers : stage'[d] = "running" \/ (stage'[d] \in {"finish", "confirm", "settle"} /\ verdict'[d] = "succeeded") => Past(d)'
    <3> TAKE d \in Makers
    <3>1. Past(d)' <=> Past(d)
      BY <2>2 DEF Past
    <3>2. CASE d # c
      BY <2>1, <3>1, <3>2 DEF Verdicts, Others, Makers
    <3>3. CASE d = c
      BY <1>2, <3>1, <3>3 DEF Enters, Plain, RecordStep, RestatedStep, Restates, Verdicts, Awaiting
    <3> QED BY <3>2, <3>3
  <2> QED BY <2>5, <2>6 DEF Verdicts, Makers
<1>3. ASSUME NEW c \in Call, Ends(c) PROVE Verdicts'
  <2>1. /\ \A d \in Call : Past(d)' <=> Past(d)
        /\ DOMAIN history' = DOMAIN history
        /\ \A h \in DOMAIN history :
              /\ history'[h].call = history[h].call
              /\ history'[h].verdict = IF history[h].call = c THEN verdict'[c] ELSE history[h].verdict
    BY <1>3, PastMoves
  <2>2. stage[c] = "running" /\ stage'[c] \in {"finish", "done"} /\ verdict'[c] \in Outcome /\ Others(c)
    BY <1>3 DEF Ends, Outcome
  <2>3. \A h \in DOMAIN history' :
          IF stage'[history'[h].call] = "running" THEN history'[h].verdict = "running"
          ELSE history'[h].verdict = verdict'[history'[h].call] /\ history'[h].verdict \in Outcome
    <3> TAKE h \in DOMAIN history'
    <3>1. CASE history[h].call = c
      BY <2>1, <2>2, <3>1
    <3>2. CASE history[h].call # c
      BY <1>0, <2>1, <2>2, <3>2 DEF Verdicts, Others
    <3> QED BY <3>1, <3>2
  <2>4. \A d \in Makers : stage'[d] = "running" \/ (stage'[d] \in {"finish", "confirm", "settle"} /\ verdict'[d] = "succeeded") => Past(d)'
    BY <2>1, <2>2 DEF Verdicts, Others, Makers
  <2> QED BY <2>3, <2>4 DEF Verdicts, Makers
<1>4. ASSUME NEW c \in Call, Starts(c) PROVE Verdicts'
  <2> DEFINE n == Len(history) + 1
  <2>1. /\ ~Past(c) /\ \A d \in Call : Past(d)' <=> Past(d) \/ d = c
        /\ n \in Nat \ {0} /\ DOMAIN history' = 1..n /\ DOMAIN history = 1..n - 1
        /\ history'[n].call = c /\ history'[n].verdict = "running"
        /\ \A i \in 1..n - 1 : history'[i] = history[i]
    <3>1. Len(history) \in Nat
      BY DEF BatchTyped, WorkTyped
    <3> QED BY <1>4, <3>1, PastStarts
  <2> HIDE DEF n
  <2>2. UNCHANGED verdict /\ Others(c) /\ stage'[c] = "running"
    BY <1>4 DEF Starts
  <2>3. \A h \in DOMAIN history' :
          IF stage'[history'[h].call] = "running" THEN history'[h].verdict = "running"
          ELSE history'[h].verdict = verdict'[history'[h].call] /\ history'[h].verdict \in Outcome
    <3> TAKE h \in DOMAIN history'
    <3>1. CASE h = n
      BY <2>1, <2>2, <3>1
    <3>2. CASE h # n
      <4>1. h \in DOMAIN history /\ history'[h] = history[h]
        BY <2>1, <3>2
      <4>2. history[h].call # c
        BY <1>0, <2>1, <4>1
      <4> QED BY <1>0, <2>2, <4>1, <4>2 DEF Verdicts, Others
    <3> QED BY <3>1, <3>2
  <2>4. \A d \in Makers : stage'[d] = "running" \/ (stage'[d] \in {"finish", "confirm", "settle"} /\ verdict'[d] = "succeeded") => Past(d)'
    BY <2>1, <2>2 DEF Verdicts, Others, Makers
  <2> QED BY <2>3, <2>4 DEF Verdicts, Makers
<1> QED BY <1>1, <1>2, <1>3, <1>4, StepKinds

LEMMA CallsSteps ==
    ASSUME BatchTyped, ScheduleInv, MakerInv, BegunInv, CallsInv, [BatchNext]_batchVars
    PROVE  CallsInv'
BY PreparedSteps, KeysSteps, PastSteps, VerdictSteps DEF CallsInv

-----------------------------------------------------------------------------
(* The order of a ledger.                                                  *)

Rested == {"succeeded", "failed"}
Precedes(l, e, f) == \E i, j \in DOMAIN l : i < j /\ l[i] = e /\ l[j] = f

LEMMA PrecedesAre ==
    ASSUME NEW l, NEW e, NEW f, Precedes(l, e, f)
    PROVE  /\ e \in EntriesOf(l) /\ f \in EntriesOf(l)
           /\ l \in Seq(Entry) /\ UniqueKeys(l) => e.key # f.key
<1>1. PICK i \in DOMAIN l, j \in DOMAIN l : i < j /\ l[i] = e /\ l[j] = f
  BY DEF Precedes
<1>2. e \in EntriesOf(l) /\ f \in EntriesOf(l)
  BY <1>1 DEF EntriesOf
<1>3. ASSUME l \in Seq(Entry), UniqueKeys(l), e.key = f.key PROVE FALSE
  <2>1. i = j
    BY <1>1, <1>3 DEF UniqueKeys
  <2>2. i \in Nat
    BY <1>1, <1>3
  <2> QED BY <1>1, <2>1, <2>2
<1> QED BY <1>2, <1>3

\* Evicting keeps the order, and what is evicted precedes what could have been.
LEMMA RoomOrder ==
    ASSUME BatchTyped, Full => Evictable # {}
    PROVE  /\ \A e, f : Precedes(Room, e, f) => Precedes(ledger, e, f)
           /\ \A e \in EntriesOf(ledger) :
                 \/ e \in EntriesOf(Room)
                 \/ e.status \in Rested /\ \A f \in EntriesOf(Room) : f.status \in Rested => Precedes(ledger, e, f)
<1>1. LedgerOK(ledger) /\ DOMAIN ledger = 1..Len(ledger) /\ Len(ledger) \in Nat
  BY DEF BatchTyped, LedgersTyped, LedgerOK
<1>2. CASE ~Full
  <2>1. Room = ledger
    BY <1>2 DEF Room
  <2> QED BY <2>1
<1>3. CASE Full
  <2>0. Evictable # {}
    BY <1>3
  <2>1. PICK x \in Evictable :
             /\ \A j \in Evictable : x <= j
             /\ LedgerOK(Evict(ledger)) /\ Len(Evict(ledger)) = Len(ledger) - 1
             /\ \A i \in 1..Len(ledger) - 1 :
                   Evict(ledger)[i] = IF i < x THEN ledger[i] ELSE ledger[i + 1]
    BY <1>1, <2>0, EvictIs
  <2> DEFINE r == Evict(ledger)
             n == Len(ledger)
             at(i) == IF i < x THEN i ELSE i + 1
  <2>2. Room = r /\ DOMAIN r = 1..n - 1 /\ x \in 1..n /\ n \in Nat
    BY <1>1, <1>3, <2>1 DEF Room, Evictable, LedgerOK
  <2>3. \A i \in 1..n - 1 : r[i] = ledger[at(i)] /\ at(i) \in 1..n /\ at(i) # x
    BY <2>1, <2>2
  <2>4. DOMAIN ledger = 1..n
    BY <1>1
  <2>5. \A i, j \in 1..n - 1 : i < j => at(i) < at(j)
    BY <2>2
  <2>6. \A i \in 1..n : i # x => \E j \in 1..n - 1 : r[j] = ledger[i]
    <3> SUFFICES ASSUME NEW i \in 1..n, i # x PROVE \E j \in 1..n - 1 : r[j] = ledger[i]
      OBVIOUS
    <3>1. CASE i < x
      <4>1. i \in 1..n - 1 /\ at(i) = i
        BY <2>2, <3>1
      <4> QED BY <2>3, <4>1
    <3>2. CASE i > x
      <4>1. i - 1 \in 1..n - 1 /\ at(i - 1) = i
        BY <2>2, <3>2
      <4> QED BY <2>3, <4>1
    <3> QED BY <2>2, <3>1, <3>2
  <2>9. \A i \in DOMAIN ledger : i \in Evictable <=> ledger[i].status \in Rested
    BY DEF Evictable, Rested
  <2> HIDE DEF r, n, at
  <2>7. ASSUME NEW e, NEW f, Precedes(r, e, f) PROVE Precedes(ledger, e, f)
    <3>1. PICK i \in 1..n - 1, j \in 1..n - 1 : i < j /\ r[i] = e /\ r[j] = f
      BY <2>2, <2>7 DEF Precedes
    <3>2. at(i) \in DOMAIN ledger /\ at(j) \in DOMAIN ledger /\ at(i) < at(j) /\ ledger[at(i)] = e /\ ledger[at(j)] = f
      BY <2>3, <2>4, <2>5, <3>1
    <3> QED BY <3>2 DEF Precedes
  <2>8. ASSUME NEW e \in EntriesOf(ledger), e \notin EntriesOf(r)
        PROVE  e.status \in Rested /\ \A f \in EntriesOf(r) : f.status \in Rested => Precedes(ledger, e, f)
    <3>1. PICK i \in 1..n : e = ledger[i]
      BY <2>4 DEF EntriesOf
    <3>2. i = x
      BY <2>2, <2>6, <2>8, <3>1 DEF EntriesOf
    <3>3. e.status \in Rested
      BY <2>4, <2>9, <3>1, <3>2
    <3>4. ASSUME NEW f \in EntriesOf(r), f.status \in Rested PROVE Precedes(ledger, e, f)
      <4>1. PICK j \in 1..n - 1 : f = r[j]
        BY <2>2 DEF EntriesOf
      <4>2. at(j) \in DOMAIN ledger /\ at(j) # x /\ ledger[at(j)] = f /\ at(j) \in 1..n
        BY <2>3, <2>4, <4>1
      <4>3. x <= at(j)
        BY <2>1, <2>9, <3>4, <4>2
      <4>4. i < at(j) /\ i \in DOMAIN ledger
        <5>1. at(j) \in Int /\ x \in Int
          BY <2>2, <4>2
        <5>2. x < at(j)
          BY <4>2, <4>3, <5>1
        <5> QED BY <2>4, <3>1, <3>2, <5>2
      <4> QED BY <3>1, <4>2, <4>4 DEF Precedes
    <3> QED BY <3>3, <3>4
  <2> QED BY <2>2, <2>7, <2>8
<1> QED BY <1>2, <1>3

-----------------------------------------------------------------------------
(* The steps, by what they do to the ledgers.                              *)

LedgersKept == Ledgers' \subseteq Ledgers
Recorded(c) ==
    /\ \A l \in Ledgers' : l = ledger' \/ l \in Ledgers
    /\ key[c] \notin KeysOf(ledger)
    /\ EntriesOf(ledger') \subseteq EntriesOf(ledger) \cup {NewEntry(c)}
    /\ \A e \in EntriesOf(ledger) :
          \/ e \in EntriesOf(ledger')
          \/ e.status \in Rested /\ \A f \in EntriesOf(ledger') : f.status \in Rested => Precedes(ledger, e, f)
    /\ \A e, f : Precedes(ledger', e, f) => Precedes(ledger, e, f) \/ f = NewEntry(c)
Copies(c, s, e, d) ==
    /\ e.key = d.key /\ e.call = d.call
    /\ e.status = IF d.key = key[c] THEN s ELSE d.status
RestatedAs(c, s, l0) ==
    /\ \A l \in Ledgers' : l = ledger' \/ l \in Ledgers
    /\ s \in Final => stage[c] = "confirm" /\ s = verdict[c]
    /\ KeysOf(ledger') = KeysOf(l0)
    /\ \A e \in EntriesOf(ledger') : \E d \in EntriesOf(l0) : Copies(c, s, e, d)
    /\ \A d \in EntriesOf(l0) : \E e \in EntriesOf(ledger') : Copies(c, s, e, d)
    /\ \A e, f : Precedes(ledger', e, f) =>
          \E d, g : Precedes(l0, d, g) /\ Copies(c, s, e, d) /\ Copies(c, s, f, g)

LEMMA RecordMoves ==
    ASSUME BatchTyped, NEW c \in Call, Record(c), RecordStep(c)
    PROVE  Recorded(c)
<1> DEFINE x == NewEntry(c)
           n == Len(Room)
<1>1. (Full => Evictable # {}) /\ ledger' = Append(Room, x)
  BY DEF Record, NewEntry
<1>2. LedgerOK(Room) /\ n \in Nat /\ DOMAIN Room = 1..n
  BY <1>1, RoomIs DEF LedgerOK
<1>3. x.status = "in_progress"
  BY DEF NewEntry
<1> HIDE DEF x
<1>4. DOMAIN ledger' = 1..n + 1 /\ ledger'[n + 1] = x /\ \A i \in 1..n : ledger'[i] = Room[i]
  BY <1>1, <1>2 DEF LedgerOK
<1> HIDE DEF n
<1>5. EntriesOf(Room) \subseteq EntriesOf(ledger')
  <2> SUFFICES ASSUME NEW i \in 1..n PROVE Room[i] \in EntriesOf(ledger')
    BY <1>2 DEF EntriesOf
  <2>1. i \in 1..n + 1
    BY <1>2
  <2> QED BY <1>4, <2>1 DEF EntriesOf
<1>6. \A e \in EntriesOf(ledger') : e \in EntriesOf(Room) \/ e = x
  <2> TAKE e \in EntriesOf(ledger')
  <2>1. PICK i \in 1..n + 1 : e = ledger'[i]
    BY <1>4 DEF EntriesOf
  <2>2. i = n + 1 \/ i \in 1..n
    BY <1>2
  <2> QED BY <1>2, <1>4, <2>1, <2>2 DEF EntriesOf
<1>7. ASSUME NEW e, NEW f, Precedes(ledger', e, f), f # x PROVE Precedes(ledger, e, f)
  <2>1. PICK i \in 1..n + 1, j \in 1..n + 1 : i < j /\ ledger'[i] = e /\ ledger'[j] = f
    BY <1>4, <1>7 DEF Precedes
  <2>2. j # n + 1
    BY <1>4, <1>7, <2>1
  <2>3. i \in 1..n /\ j \in 1..n
    BY <1>2, <2>1, <2>2
  <2>4. Precedes(Room, e, f)
    BY <1>2, <1>4, <2>1, <2>3 DEF Precedes
  <2> QED BY <1>1, <2>4, RoomOrder
<1>8. \A l \in Ledgers' : l = ledger' \/ l \in Ledgers
  <2> TAKE l \in Ledgers'
  <2> SUFFICES ASSUME l # ledger' PROVE l \in Ledgers
    OBVIOUS
  <2>1. PICK d \in Call : stage'[d] = "confirm" /\ l = snap'[d]
    BY DEF Ledgers
  <2>2. stage[d] = "confirm" /\ l = snap[d]
    BY <2>1 DEF RecordStep, Others
  <2> QED BY <2>2 DEF Ledgers
<1>9. \A e \in EntriesOf(ledger) :
          \/ e \in EntriesOf(ledger')
          \/ e.status \in Rested /\ \A f \in EntriesOf(ledger') : f.status \in Rested => Precedes(ledger, e, f)
  <2> TAKE e \in EntriesOf(ledger)
  <2> SUFFICES ASSUME e \notin EntriesOf(Room)
               PROVE  e.status \in Rested /\ \A f \in EntriesOf(ledger') : f.status \in Rested => Precedes(ledger, e, f)
    BY <1>5
  <2>1. e.status \in Rested /\ \A f \in EntriesOf(Room) : f.status \in Rested => Precedes(ledger, e, f)
    BY <1>1, RoomOrder
  <2>2. x.status \notin Rested
    BY <1>3 DEF Rested
  <2> QED BY <1>6, <2>1, <2>2
<1>10. key[c] \notin KeysOf(ledger) /\ EntriesOf(ledger') \subseteq EntriesOf(ledger) \cup {x}
  BY RecordIs DEF x
<1> QED BY <1>7, <1>8, <1>9, <1>10 DEF Recorded, x

LEMMA RestateMoves ==
    ASSUME BatchTyped, KeysDiffer, NEW c \in Call, RestatedStep(c)
    PROVE  \E s \in Status : \E l0 \in Ledgers : RestatedAs(c, s, l0)
<1>0. Restates(c) /\ UNCHANGED verdict
  BY DEF RestatedStep
<1>1. PICK s \in Status :
        /\ \/ ledger' = WithStatus(ledger, key[c], s)
           \/ stage[c] = "confirm" /\ ledger' = WithStatus(snap[c], key[c], s)
        /\ s \in Final => stage[c] = "confirm" /\ s = verdict[c]
  BY <1>0 DEF Restates
<1>2. PICK l0 \in Ledgers : ledger' = WithStatus(l0, key[c], s)
  BY <1>1 DEF Ledgers
<1>3. LedgerOK(l0) /\ UniqueKeys(l0)
  BY LedgersOK DEF KeysDiffer
<1> DEFINE k == key[c]
           w == WithStatus(l0, k, s)
<1>4. /\ DOMAIN w = DOMAIN l0
      /\ \A i \in DOMAIN l0 :
            /\ w[i].key = l0[i].key /\ w[i].call = l0[i].call
            /\ w[i].status = IF i = IndexOf(l0, k) THEN s ELSE l0[i].status
  BY <1>3, StatusOf
<1>5. \A i \in DOMAIN l0 : i = IndexOf(l0, k) <=> l0[i].key = k
  <2> TAKE i \in DOMAIN l0
  <2>1. CASE IndexOf(l0, k) = 0
    <3>1. i # 0 /\ l0[i].key # k
      BY <1>3, <2>1, IndexIs DEF LedgerOK
    <3> QED BY <2>1, <3>1
  <2>2. CASE IndexOf(l0, k) # 0
    BY <1>3, <2>2, IndexIs DEF UniqueKeys
  <2> QED BY <2>1, <2>2
<1>6. \A i \in DOMAIN l0 : Copies(c, s, w[i], l0[i])
  <2> HIDE DEF w
  <2> QED BY <1>4, <1>5 DEF Copies
<1>7. ledger' = w
  BY <1>2
<1> HIDE DEF w
<1>8. \A e \in EntriesOf(w) : \E d \in EntriesOf(l0) : Copies(c, s, e, d)
  BY <1>4, <1>6 DEF EntriesOf
<1>9. \A d \in EntriesOf(l0) : \E e \in EntriesOf(w) : Copies(c, s, e, d)
  BY <1>4, <1>6 DEF EntriesOf
<1>10. ASSUME NEW e, NEW f, Precedes(w, e, f)
       PROVE  \E d, g : Precedes(l0, d, g) /\ Copies(c, s, e, d) /\ Copies(c, s, f, g)
  <2>1. PICK i \in DOMAIN l0, j \in DOMAIN l0 : i < j /\ w[i] = e /\ w[j] = f
    BY <1>4, <1>10 DEF Precedes
  <2>2. Precedes(l0, l0[i], l0[j])
    BY <2>1 DEF Precedes
  <2>3. Copies(c, s, e, l0[i]) /\ Copies(c, s, f, l0[j])
    BY <1>6, <2>1
  <2> QED BY <2>2, <2>3
<1>11. KeysOf(w) = KeysOf(l0)
  <2>1. \A e \in EntriesOf(w) : e.key \in KeysOf(l0)
    BY <1>8 DEF Copies, KeysOf
  <2>2. \A d \in EntriesOf(l0) : d.key \in KeysOf(w)
    BY <1>9 DEF Copies, KeysOf
  <2> QED BY <2>1, <2>2 DEF KeysOf
<1>12. \A l \in Ledgers' : l = ledger' \/ l \in Ledgers
  <2> TAKE l \in Ledgers'
  <2> SUFFICES ASSUME l # ledger' PROVE l \in Ledgers
    OBVIOUS
  <2>1. PICK d \in Call : stage'[d] = "confirm" /\ l = snap'[d]
    BY DEF Ledgers
  <2>2. d # c /\ stage[d] = "confirm" /\ l = snap[d]
    BY <1>0, <2>1 DEF Restates, Others
  <2> QED BY <2>2 DEF Ledgers
<1>13. RestatedAs(c, s, l0)
  BY <1>1, <1>7, <1>8, <1>9, <1>10, <1>11, <1>12 DEF RestatedAs
<1> QED BY <1>13

LEMMA LedgerKinds ==
    ASSUME BatchTyped, ScheduleInv, MakerInv, KeysDiffer, [BatchNext]_batchVars
    PROVE  \/ AtRest /\ LedgersKept
           \/ \E c \in Call : Enters(c) /\ LedgersKept
           \/ (Schedule \/ EndWave) /\ LedgersKept
           \/ \E c \in Call : \/ PlainStep(c) /\ Plain(c) /\ LedgersKept
                              \/ Starts(c) /\ LedgersKept
                              \/ Ends(c) /\ LedgersKept
                              \/ RecordStep(c) /\ Recorded(c)
                              \/ RestatedStep(c) /\ \E s \in Status : \E l0 \in Ledgers : RestatedAs(c, s, l0)
<1>1. CASE AtRest \/ Schedule \/ EndWave
  <2>1. UNCHANGED <<stage, snap, ledger>>
    BY <1>1 DEF AtRest, Schedule, EndWave, local, book
  <2>2. LedgersKept
    BY <2>1 DEF LedgersKept, Ledgers
  <2> QED BY <1>1, <2>2
<1>2. ASSUME NEW c \in Call, Enters(c) PROVE LedgersKept
  <2>1. /\ UNCHANGED <<snap, ledger>> /\ stage'[c] # "confirm"
        /\ \A d \in Call \ {c} : stage'[d] = stage[d]
    BY <1>2 DEF Enters, Others
  <2>2. {d \in Call : stage'[d] = "confirm"} \subseteq {d \in Call : stage[d] = "confirm"}
    BY <2>1
  <2> QED BY <2>1, <2>2 DEF LedgersKept, Ledgers
<1>3. ASSUME NEW c \in Call, PlainStep(c) \/ Invoke(c) \/ EndStep(c) PROVE LedgersKept
  <2>1. Quiet(c)
    BY <1>3, QuietSteps DEF PlainStep, EndStep
  <2> QED BY <2>1, QuietLedgers DEF LedgersKept
<1>4. ASSUME NEW c \in Call, Record(c), RecordStep(c) PROVE Recorded(c)
  BY <1>4, RecordMoves
<1>5. ASSUME NEW c \in Call, RestatedStep(c)
      PROVE  \E s \in Status : \E l0 \in Ledgers : RestatedAs(c, s, l0)
  BY <1>5, RestateMoves
<1> QED BY <1>1, <1>2, <1>3, <1>4, <1>5, StepKinds

\* Between two waves there is one ledger.
LEMMA WaveLedgers ==
    ASSUME BatchTyped, ScheduleInv, Schedule \/ EndWave
    PROVE  Ledgers = {ledger} /\ Ledgers' = {ledger}
<1>1. \A c \in Call : stage[c] # "confirm"
  <2>1. wave = {} \/ \A c \in wave : stage[c] = "done"
    BY DEF Schedule, EndWave
  <2> QED BY <2>1 DEF ScheduleInv, InWave
<1>2. UNCHANGED <<stage, ledger>>
  BY DEF Schedule, EndWave, book
<1> QED BY <1>1, <1>2 DEF Ledgers

Made(h, k) == IsEffect(OpAt(h)) /\ key[history[h].call] = k
HistoryHolds ==
    /\ DOMAIN history' = DOMAIN history
    /\ \A h \in DOMAIN history :
         /\ history'[h].call = history[h].call
         /\ key'[history[h].call] = key[history[h].call]
         /\ history'[h].verdict = history[h].verdict \/ history[h].verdict = "running"

\* What has begun stays.
LEMMA HistoryMoves ==
    ASSUME BatchTyped, BegunInv, CallsInv,
           \/ AtRest \/ Schedule \/ EndWave
           \/ \E c \in Call : Enters(c) \/ Plain(c) \/ Ends(c) \/ RecordStep(c) \/ RestatedStep(c)
    PROVE  HistoryHolds
<1>0. \A h \in DOMAIN history : history[h].call \in Call /\ Past(history[h].call)
  BY HistoryIs DEF Past
<1>1. CASE AtRest \/ Schedule \/ EndWave
  BY <1>1 DEF AtRest, Schedule, EndWave, local, HistoryHolds
<1>2. ASSUME NEW c \in Call, Enters(c) \/ Plain(c) \/ Ends(c) \/ RecordStep(c) \/ RestatedStep(c) PROVE HistoryHolds
  <2>1. /\ Past(c) => key'[c] = key[c]
        /\ DOMAIN history' = DOMAIN history
        /\ \A i \in DOMAIN history :
                /\ history'[i].call = history[i].call
                /\ history'[i].verdict = IF Ends(c) /\ history[i].call = c THEN verdict'[c] ELSE history[i].verdict
    BY <1>2, PastMoves
  <2>2. Others(c)
    BY <1>2 DEF Enters, Plain, Ends, RecordStep, RestatedStep, Restates
  <2>3. ASSUME NEW h \in DOMAIN history
        PROVE  /\ key'[history[h].call] = key[history[h].call]
               /\ history'[h].verdict = history[h].verdict \/ history[h].verdict = "running"
    <3>1. key'[history[h].call] = key[history[h].call]
      BY <1>0, <2>1, <2>2 DEF Others
    <3>2. CASE Ends(c) /\ history[h].call = c
      BY <3>1, <3>2 DEF Ends, CallsInv, Verdicts
    <3> QED BY <2>1, <3>1, <3>2
  <2> QED BY <2>1, <2>3 DEF HistoryHolds
<1> QED BY <1>1, <1>2

LEMMA MadeHolds ==
    ASSUME HistoryHolds
    PROVE  \A h \in DOMAIN history : \A k : Made(h, k)' <=> Made(h, k)
BY DEF HistoryHolds, Made, OpAt

LEMMA MadeStarts ==
    ASSUME BatchTyped, BegunInv, NEW c \in Call, Starts(c)
    PROVE  \E n \in Nat \ {0} :
             /\ DOMAIN history = 1..n - 1 /\ DOMAIN history' = 1..n /\ Len(history) = n - 1 /\ Len(history') = n
             /\ history'[n].call = c /\ history'[n].verdict = "running"
             /\ \A h \in 1..n - 1 : history'[h] = history[h]
             /\ \A h \in 1..n - 1 : \A k : Made(h, k)' <=> Made(h, k)
             /\ \A k : Made(n, k)' <=> IsEffect(OpOf[c]) /\ key[c] = k
<1>0. PICK n : n = Len(history) + 1
  OBVIOUS
<1>1. /\ n \in Nat \ {0} /\ DOMAIN history = 1..n - 1 /\ DOMAIN history' = 1..n
      /\ history'[n].call = c /\ history'[n].verdict = "running"
      /\ \A h \in 1..n - 1 : history'[h] = history[h]
  <2>1. Len(history) \in Nat
    BY DEF BatchTyped, WorkTyped
  <2> QED BY <1>0, <2>1, PastStarts
<1>2. Len(history) = n - 1 /\ Len(history') = n
  <2>1. Len(history) \in Nat /\ history' = Append(history, [call |-> c, verdict |-> "running"]) /\ history \in Seq([call : Call, verdict : Status \cup {"running"}])
    BY DEF Starts, BatchTyped, WorkTyped
  <2> QED BY <1>0, <2>1
<1>3. UNCHANGED key
  BY DEF Starts
<1>4. \A h \in 1..n - 1 : \A k : Made(h, k)' <=> Made(h, k)
  BY <1>1, <1>3 DEF Made, OpAt
<1>5. \A k : Made(n, k)' <=> IsEffect(OpOf[c]) /\ key[c] = k
  BY <1>1, <1>3 DEF Made, OpAt
<1> QED BY <1>1, <1>2, <1>4, <1>5

-----------------------------------------------------------------------------
(* Entries, invocations and waves.                                         *)

\* An effect that is being made is ended in no ledger.
MadeIsOpen ==
    \A c \in Makers : stage[c] \in Making =>
        \A l \in Ledgers : \A e \in EntriesOf(l) : e.key = key[c] => e.status \notin Final
\* What a ledger says of an effect is what became of it.
TrueStatus(e) ==
    /\ e.status = "failed" =>
         \A h \in DOMAIN history : Made(h, e.key) => history[h].verdict = "failed"
    /\ e.status = "succeeded" =>
         \E h \in DOMAIN history : Made(h, e.key) /\ history[h].verdict = "succeeded"
StatusIsVerdict == \A l \in Ledgers : \A e \in EntriesOf(l) : TrueStatus(e)
\* Entries of the wave come last, and so do its invocations among those that write the same.
WavesAreLast ==
    \A l \in Ledgers : \A e, f : Precedes(l, e, f) /\ e.call \in wave => f.call \in wave
WaveIsLast ==
    \A h, m \in DOMAIN history :
        history[m].call \in wave /\ m < h => Writes(OpAt(h)) \cap Writes(OpAt(m)) = {}
InOrder(k, q) == \A h, m \in DOMAIN history : Made(h, k) /\ Made(m, q) => h < m
\* Entries that write the same are in the order in which their effects began.
LedgerOrder ==
    \A l \in Ledgers : \A e, f :
        /\ Precedes(l, e, f) /\ f.status = "succeeded"
        /\ Writes(e.key.op) \cap Writes(f.key.op) # {}
        => InOrder(e.key, f.key)
Busy(o) == \E c \in wave : OpOf[c] = o /\ stage[c] \in HasEntry
\* Two ledgers differ only about operations at work.
StatusesAgree ==
    \A l, m \in Ledgers : \A e \in EntriesOf(l), f \in EntriesOf(m) :
        e.key = f.key /\ e.call \notin wave => e.status = f.status \/ Busy(e.key.op)
\* Who runs alone has no company.
ExclusiveAlone == \A c \in shared : OpOf[c] \notin Exclusive
OrderInv ==
    /\ MadeIsOpen /\ StatusIsVerdict /\ WavesAreLast /\ WaveIsLast /\ LedgerOrder
    /\ StatusesAgree /\ ExclusiveAlone

LEMMA InitOrder == ToolInit => OrderInv
<1> SUFFICES ASSUME ToolInit PROVE OrderInv
  OBVIOUS
<1>1. /\ Ledgers = {<< >>} /\ DOMAIN history = {} /\ shared = {} /\ wave = {}
      /\ \A c \in Call : stage[c] = "idle"
  BY DEF ToolInit, Ledgers
<1>2. \A l \in Ledgers : EntriesOf(l) = {}
  BY <1>1 DEF EntriesOf
<1>3. \A l \in Ledgers : \A e, f : ~Precedes(l, e, f)
  BY <1>2, PrecedesAre
<1> QED BY <1>1, <1>2, <1>3 DEF OrderInv, MadeIsOpen, StatusIsVerdict, WavesAreLast, WaveIsLast, LedgerOrder, StatusesAgree, ExclusiveAlone

BaseInv == BatchInv /\ LedgerInv /\ CallsInv

LEMMA ApartWrites ==
    ASSUME NEW o \in Op, NEW q \in Op, Apart(o, q)
    PROVE  Writes(o) \cap Writes(q) = {} /\ o \notin Exclusive /\ q \notin Exclusive
<1>1. ASSUME NEW p \in Writes(o), p \in Writes(q) PROVE FALSE
  <2>1. PICK a \in Access[o] : a.mode = "write" /\ a.path = p
    BY DEF Writes
  <2>2. PICK b \in Access[q] : b.mode = "write" /\ b.path = p
    BY <1>1 DEF Writes
  <2>3. p \in Seq(STRING)
    BY <2>1
  <2>4. IsPrefix(p, p)
    BY <2>3 DEF IsPrefix
  <2>5. Conflict(o, q)
    BY <2>1, <2>2, <2>4 DEF Conflict, Overlap
  <2> QED BY <2>5 DEF Apart
<1> QED BY <1>1 DEF Apart

LEMMA WaveIsReady ==
    ASSUME BatchTyped, CallsInv, Schedule
    PROVE  \A c \in wave' : stage[c] = "ready"
<1>1. PICK n \in 1..Len(prepared) : wave' = {prepared[i] : i \in 1..n}
  BY DEF Schedule
<1>2. prepared \in Seq(Call)
  BY DEF BatchTyped, ScheduleTyped
<1>3. 1..n \subseteq DOMAIN prepared
  BY <1>1, <1>2
<1> QED BY <1>1, <1>3 DEF CallsInv, PreparedAreReady

LEMMA BusyStays ==
    ASSUME \/ AtRest \/ \E c \in Call : \/ Enters(c) \/ Plain(c) \/ Starts(c) \/ Ends(c)
                                        \/ RecordStep(c) \/ RestatedStep(c),
           BatchTyped, NEW o, Busy(o)
    PROVE  Busy(o)'
<1>1. PICK d \in wave : OpOf[d] = o /\ stage[d] \in HasEntry
  BY DEF Busy
<1>2. d \in Call
  BY DEF BatchTyped, ScheduleTyped
<1>3. d \in wave' /\ stage'[d] \in HasEntry
  <2>1. CASE AtRest
    BY <1>1, <2>1 DEF AtRest
  <2>2. ASSUME NEW c \in Call, Enters(c) \/ Starts(c) \/ Ends(c) \/ RecordStep(c) \/ RestatedStep(c)
        PROVE  d \in wave' /\ stage'[d] \in HasEntry
    BY <1>1, <1>2, <2>2 DEF Enters, Starts, Ends, RecordStep, RestatedStep, Restates, Others, HasEntry, Making
  <2>3. ASSUME NEW c \in Call, Plain(c)
        PROVE  d \in wave' /\ stage'[d] \in HasEntry
    <3>1. d # c => stage'[d] = stage[d]
      BY <1>2, <2>3 DEF Plain, Others
    <3>2. stage[c] \in HasEntry => stage'[c] \in HasEntry
      BY <2>3 DEF Plain, HasEntry, Making, Awaiting
    <3>3. wave' = wave
      BY <2>3 DEF Plain
    <3> QED BY <1>1, <3>1, <3>2, <3>3
  <2> QED BY <2>1, <2>2, <2>3
<1> QED BY <1>1, <1>3 DEF Busy

-----------------------------------------------------------------------------
LEMMA OpenSteps ==
    ASSUME BaseInv, OrderInv, [BatchNext]_batchVars
    PROVE  MadeIsOpen'
<1> USE DEF BaseInv, BatchInv
<1> SUFFICES ASSUME NEW c \in Makers, stage'[c] \in Making, NEW l \in Ledgers',
                    NEW e \in EntriesOf(l), e.key = key'[c], e.status \in Final
             PROVE  FALSE
  BY DEF MadeIsOpen, Makers
<1>0. c \in Call /\ IsEffect(OpOf[c])
  BY DEF Makers
<1>1. ASSUME NEW m \in Ledgers, NEW x \in EntriesOf(m), x.key = key[c], x.status \in Final,
             stage[c] \in Making \/ (stage[c] = "intent" /\ key[c] \notin intents)
      PROVE  FALSE
  BY <1>1 DEF OrderInv, MadeIsOpen, LedgerInv, FinalIsIntended
<1>2. CASE (AtRest \/ Schedule \/ EndWave) /\ LedgersKept
  BY <1>1, <1>2 DEF AtRest, Schedule, EndWave, local, LedgersKept
<1>3. ASSUME NEW d \in Call, Enters(d) \/ Plain(d) \/ Starts(d) \/ Ends(d) \/ RecordStep(d) \/ RestatedStep(d)
      PROVE  key'[c] = key[c] /\ (stage[c] \in Making \/ (stage[c] = "intent" /\ key[c] \notin intents))
  <2>1. Others(d)
    BY <1>3 DEF Enters, Plain, Starts, Ends, RecordStep, RestatedStep, Restates
  <2>2. CASE c # d
    BY <1>0, <2>1, <2>2 DEF Others
  <2>3. CASE c = d
    <3>1. CASE Plain(d)
      BY <1>0, <2>3, <3>1 DEF Plain, Making, Awaiting
    <3>2. CASE ~Plain(d)
      BY <1>0, <1>3, <2>3, <3>2 DEF Enters, Starts, Ends, RecordStep, RestatedStep, Restates, Making
    <3> QED BY <3>1, <3>2
  <2> QED BY <2>2, <2>3
<1>4. ASSUME NEW d \in Call, Enters(d) \/ Plain(d) \/ Starts(d) \/ Ends(d), LedgersKept PROVE FALSE
  BY <1>1, <1>3, <1>4 DEF LedgersKept
<1>5. ASSUME NEW d \in Call, RecordStep(d), Recorded(d) PROVE FALSE
  <2>1. l \in Ledgers \/ (l = ledger' /\ e \in EntriesOf(ledger) \cup {NewEntry(d)})
    BY <1>5 DEF Recorded
  <2>2. e # NewEntry(d)
    BY DEF NewEntry, Final
  <2> QED BY <1>1, <1>3, <1>5, <2>1, <2>2 DEF Ledgers
<1>6. ASSUME NEW d \in Call, RestatedStep(d), NEW s \in Status, NEW l0 \in Ledgers, RestatedAs(d, s, l0) PROVE FALSE
  <2>1. CASE l \in Ledgers
    BY <1>1, <1>3, <1>6, <2>1
  <2>2. CASE l = ledger'
    <3>1. PICK x \in EntriesOf(l0) : Copies(d, s, e, x)
      BY <1>6, <2>2 DEF RestatedAs
    <3>2. CASE x.key = key[d]
      <4>1. stage[d] = "confirm" /\ d \in Makers
        BY <1>6, <3>1, <3>2 DEF RestatedAs, Copies, RestatedStep
      <4>2. key[c] = key[d]
        BY <1>3, <1>6, <3>1, <3>2 DEF Copies
      <4>3. c # d /\ stage[c] \in Making \cup {"intent"}
        BY <1>3, <1>6 DEF RestatedStep, Restates, Making
      <4>4. Makes(c) /\ Makes(d)
        BY <1>0, <4>1, <4>3 DEF Makes, Makers, Holding, Place, Making
      <4> QED BY <1>0, <4>2, <4>3, <4>4 DEF MakerInv, OneMaker
    <3>3. CASE x.key # key[d]
      <4>1. x.key = key[c] /\ x.status \in Final
        BY <1>3, <1>6, <3>1, <3>3 DEF Copies
      <4> QED BY <1>1, <1>3, <1>6, <4>1
    <3> QED BY <3>2, <3>3
  <2> QED BY <1>6, <2>1, <2>2 DEF RestatedAs
<1> QED BY <1>2, <1>4, <1>5, <1>6, LedgerKinds DEF LedgerInv

LEMMA TrueHolds ==
    ASSUME HistoryHolds, NEW x, NEW e, TrueStatus(x), e.key = x.key, e.status = x.status
    PROVE  TrueStatus(e)'
BY MadeHolds DEF TrueStatus, HistoryHolds

\* Only a call of its own has begun the effect it makes.
LEMMA MadeByOne ==
    ASSUME BaseInv, NEW c \in Makers, PastIntent(c), NEW h \in DOMAIN history, Made(h, key[c])
    PROVE  history[h].call = c
<1> DEFINE q == history[h].call
<1>1. q \in Call /\ IsEffect(OpOf[q]) /\ key[q] = key[c] /\ Past(q)
  BY HistoryIs DEF BaseInv, BatchInv, Made, OpAt, Past
<1> HIDE DEF q
<1>2. q \in Makers
  BY <1>1 DEF Makers
<1>3. q = c
  BY <1>1, <1>2 DEF BaseInv, CallsInv, PastDiffers
<1> QED BY <1>3 DEF q

LEMMA StatusSteps ==
    ASSUME BaseInv, OrderInv, [BatchNext]_batchVars
    PROVE  StatusIsVerdict'
<1> USE DEF BaseInv, BatchInv
<1> SUFFICES ASSUME NEW l \in Ledgers', NEW e \in EntriesOf(l) PROVE TrueStatus(e)'
  BY DEF StatusIsVerdict
<1>0. \A m \in Ledgers : \A x \in EntriesOf(m) : TrueStatus(x)
  BY DEF OrderInv, StatusIsVerdict
<1>1. CASE (AtRest \/ Schedule \/ EndWave) /\ LedgersKept
  BY <1>0, <1>1, HistoryMoves, TrueHolds DEF LedgersKept
<1>2. ASSUME NEW c \in Call, Enters(c) \/ Plain(c) \/ Ends(c) \/ RecordStep(c) \/ RestatedStep(c) PROVE HistoryHolds
  BY <1>2, HistoryMoves
<1>3. ASSUME NEW c \in Call, Enters(c) \/ Plain(c) \/ Ends(c), LedgersKept PROVE TrueStatus(e)'
  BY <1>0, <1>2, <1>3, TrueHolds DEF LedgersKept
<1>4. ASSUME NEW c \in Call, RecordStep(c), Recorded(c) PROVE TrueStatus(e)'
  <2>1. l \in Ledgers \/ (l = ledger' /\ e \in EntriesOf(ledger) \cup {NewEntry(c)})
    BY <1>4 DEF Recorded
  <2>2. CASE e = NewEntry(c)
    BY <2>2 DEF TrueStatus, NewEntry
  <2>3. CASE e # NewEntry(c)
    <3>1. TrueStatus(e)
      BY <1>0, <2>1, <2>3 DEF Ledgers
    <3> QED BY <1>2, <1>4, <3>1, TrueHolds
  <2> QED BY <2>2, <2>3
<1>5. ASSUME NEW c \in Call, RestatedStep(c), NEW s \in Status, NEW l0 \in Ledgers, RestatedAs(c, s, l0) PROVE TrueStatus(e)'
  <2>0. HistoryHolds
    BY <1>2, <1>5
  <2>1. CASE l \in Ledgers
    BY <1>0, <2>0, <2>1, TrueHolds
  <2>2. CASE l = ledger'
    <3>1. PICK x \in EntriesOf(l0) : Copies(c, s, e, x)
      BY <1>5, <2>2 DEF RestatedAs
    <3>2. CASE x.key # key[c]
      BY <1>0, <1>5, <2>0, <3>1, <3>2, TrueHolds DEF Copies
    <3>3. CASE x.key = key[c] /\ s \in Rested
      <4>1. e.key = key[c] /\ e.status = s
        BY <3>1, <3>3 DEF Copies
      <4>2. stage[c] = "confirm" /\ s = verdict[c] /\ c \in Makers
        BY <1>5, <3>3 DEF RestatedAs, RestatedStep, Rested, Final
      <4>3. PastIntent(c)
        BY <4>2 DEF PastIntent, Makers
      <4>4. \A h \in DOMAIN history : Made(h, key[c]) => history[h].call = c
        BY <4>2, <4>3, MadeByOne
      <4>5. \A h \in DOMAIN history : history[h].call = c => history[h].verdict = s /\ history'[h].verdict = s
        <5>1. \A h \in DOMAIN history : history[h].call = c => history[h].verdict = s /\ s # "running"
          BY <4>2 DEF CallsInv, Verdicts, Outcome
        <5> QED BY <2>0, <5>1 DEF HistoryHolds
      <4>6. \A h \in DOMAIN history' : Made(h, e.key)' => history'[h].verdict = s
        <5>1. \A h \in DOMAIN history : Made(h, e.key)' <=> Made(h, e.key)
          BY <2>0, MadeHolds
        <5> QED BY <2>0, <4>1, <4>4, <4>5, <5>1 DEF HistoryHolds
      <4>7. s = "succeeded" => \E h \in DOMAIN history' : Made(h, e.key)' /\ history'[h].verdict = "succeeded"
        <5> SUFFICES ASSUME s = "succeeded" PROVE \E h \in DOMAIN history' : Made(h, e.key)' /\ history'[h].verdict = "succeeded"
          OBVIOUS
        <5>1. PICK h \in DOMAIN history : history[h].call = c
          BY <4>2 DEF CallsInv, Verdicts, Past
        <5>2. Made(h, e.key)
          BY <4>1, <4>2, <5>1 DEF Made, OpAt, Makers
        <5>3. Made(h, e.key)'
          BY <2>0, <5>2, MadeHolds
        <5> QED BY <2>0, <4>5, <5>1, <5>3 DEF HistoryHolds
      <4> QED BY <4>1, <4>6, <4>7 DEF TrueStatus
    <3>4. CASE x.key = key[c] /\ s \notin Rested
      BY <3>1, <3>4 DEF Copies, TrueStatus, Rested
    <3> QED BY <3>2, <3>3, <3>4
  <2> QED BY <1>5, <2>1, <2>2 DEF RestatedAs
<1>6. ASSUME NEW c \in Call, Starts(c), LedgersKept PROVE TrueStatus(e)'
  <2>1. l \in Ledgers /\ TrueStatus(e)
    BY <1>0, <1>6 DEF LedgersKept
  <2>2. PICK n \in Nat \ {0} :
             /\ DOMAIN history = 1..n - 1 /\ DOMAIN history' = 1..n /\ Len(history) = n - 1 /\ Len(history') = n
             /\ history'[n].call = c /\ history'[n].verdict = "running"
             /\ \A h \in 1..n - 1 : history'[h] = history[h]
             /\ \A h \in 1..n - 1 : \A k : Made(h, k)' <=> Made(h, k)
             /\ \A k : Made(n, k)' <=> IsEffect(OpOf[c]) /\ key[c] = k
    BY <1>6, MadeStarts
  <2>3. e.status \in Rested => ~(Made(n, e.key)')
    <3>1. IsEffect(OpOf[c]) /\ key[c] = e.key => e.status \notin Final
      BY <1>6, <2>1 DEF OrderInv, MadeIsOpen, Makers, Starts, Making
    <3> QED BY <2>2, <3>1 DEF Rested, Final
  <2>4. \A h \in 1..n : h \in 1..n - 1 \/ h = n
    BY <2>2
  <2>5. e.status = "failed" => \A h \in DOMAIN history' : Made(h, e.key)' => history'[h].verdict = "failed"
    BY <2>1, <2>2, <2>3, <2>4 DEF TrueStatus, Rested
  <2>6. e.status = "succeeded" => \E h \in DOMAIN history' : Made(h, e.key)' /\ history'[h].verdict = "succeeded"
    <3> SUFFICES ASSUME e.status = "succeeded" PROVE \E h \in DOMAIN history' : Made(h, e.key)' /\ history'[h].verdict = "succeeded"
      OBVIOUS
    <3>1. PICK h \in 1..n - 1 : Made(h, e.key) /\ history[h].verdict = "succeeded"
      BY <2>1, <2>2 DEF TrueStatus
    <3>2. h \in 1..n
      BY <2>2
    <3> QED BY <2>2, <3>1, <3>2
  <2> QED BY <2>5, <2>6 DEF TrueStatus
<1> QED BY <1>1, <1>3, <1>4, <1>5, <1>6, LedgerKinds DEF LedgerInv

LEMMA WavesLastSteps ==
    ASSUME BaseInv, OrderInv, [BatchNext]_batchVars
    PROVE  WavesAreLast'
<1> USE DEF BaseInv, BatchInv
<1> SUFFICES ASSUME NEW l \in Ledgers', NEW e, NEW f, Precedes(l, e, f), e.call \in wave'
             PROVE  f.call \in wave'
  BY DEF WavesAreLast
<1>0. \A m \in Ledgers : \A x, y : Precedes(m, x, y) /\ x.call \in wave => y.call \in wave
  BY DEF OrderInv, WavesAreLast
<1>1. CASE EndWave
  BY <1>1 DEF EndWave
<1>2. CASE Schedule /\ LedgersKept
  <2>1. l \in Ledgers /\ e \in EntriesOf(l)
    BY <1>2, PrecedesAre DEF LedgersKept
  <2>2. stage[e.call] \in HasEntry
    BY <2>1 DEF LedgerInv, EntriesHaveCalls
  <2>3. stage[e.call] = "ready"
    BY <1>2, WaveIsReady
  <2> QED BY <2>2, <2>3 DEF HasEntry, Making
<1>3. CASE AtRest /\ LedgersKept
  BY <1>0, <1>3 DEF AtRest, LedgersKept
<1>4. ASSUME NEW c \in Call, Enters(c) \/ Plain(c) \/ Starts(c) \/ Ends(c), LedgersKept PROVE f.call \in wave'
  <2>1. UNCHANGED wave
    BY <1>4 DEF Enters, Plain, Starts, Ends
  <2> QED BY <1>0, <1>4, <2>1 DEF LedgersKept
<1>5. ASSUME NEW c \in Call, RecordStep(c), Recorded(c) PROVE f.call \in wave'
  <2>1. UNCHANGED wave /\ c \in wave
    BY <1>5 DEF RecordStep
  <2>2. (\E m \in Ledgers : Precedes(m, e, f)) \/ f = NewEntry(c)
    BY <1>5 DEF Recorded, Ledgers
  <2>3. NewEntry(c).call = c
    BY DEF NewEntry
  <2> QED BY <1>0, <2>1, <2>2, <2>3
<1>6. ASSUME NEW c \in Call, RestatedStep(c), NEW s \in Status, NEW l0 \in Ledgers, RestatedAs(c, s, l0)
      PROVE  f.call \in wave'
  <2>1. UNCHANGED wave
    BY <1>6 DEF RestatedStep
  <2>2. CASE l \in Ledgers
    BY <1>0, <2>1, <2>2
  <2>3. CASE l = ledger'
    <3>1. PICK d, g : Precedes(l0, d, g) /\ Copies(c, s, e, d) /\ Copies(c, s, f, g)
      BY <1>6, <2>3 DEF RestatedAs
    <3> QED BY <1>0, <1>6, <2>1, <3>1 DEF Copies
  <2> QED BY <1>6, <2>2, <2>3 DEF RestatedAs
<1> QED BY <1>1, <1>2, <1>3, <1>4, <1>5, <1>6, LedgerKinds DEF LedgerInv

LEMMA WaveLastSteps ==
    ASSUME BaseInv, OrderInv, [BatchNext]_batchVars
    PROVE  WaveIsLast'
<1> USE DEF BaseInv, BatchInv
<1> SUFFICES ASSUME NEW h \in DOMAIN history', NEW m \in DOMAIN history', history'[m].call \in wave', m < h
             PROVE  Writes(OpAt(h)') \cap Writes(OpAt(m)') = {}
  BY DEF WaveIsLast
<1>0. \A i, j \in DOMAIN history : history[j].call \in wave /\ j < i => Writes(OpAt(i)) \cap Writes(OpAt(j)) = {}
  BY DEF OrderInv, WaveIsLast
<1>1. CASE EndWave
  BY <1>1 DEF EndWave
<1>2. CASE Schedule
  <2>1. UNCHANGED history
    BY <1>2 DEF Schedule
  <2>2. Past(history[m].call) /\ history[m].call \in Call
    BY <2>1, HistoryIs DEF Past
  <2>3. stage[history[m].call] # "ready"
    BY <2>2 DEF BegunInv, BegunOnly
  <2> QED BY <1>2, <2>1, <2>3, WaveIsReady
<1>3. ASSUME UNCHANGED wave, HistoryHolds PROVE Writes(OpAt(h)') \cap Writes(OpAt(m)') = {}
  <2>1. h \in DOMAIN history /\ m \in DOMAIN history /\ history[m].call \in wave
    BY <1>3 DEF HistoryHolds
  <2>2. OpAt(h)' = OpAt(h) /\ OpAt(m)' = OpAt(m)
    BY <1>3, <2>1 DEF HistoryHolds, OpAt
  <2> QED BY <1>0, <2>1, <2>2
<1>4. CASE AtRest
  BY <1>3, <1>4, HistoryMoves DEF AtRest
<1>5. ASSUME NEW c \in Call, Enters(c) \/ Plain(c) \/ Ends(c) \/ RecordStep(c) \/ RestatedStep(c)
      PROVE  Writes(OpAt(h)') \cap Writes(OpAt(m)') = {}
  <2>1. UNCHANGED wave
    BY <1>5 DEF Enters, Plain, Ends, RecordStep, RestatedStep
  <2>2. HistoryHolds
    BY <1>5, HistoryMoves
  <2> QED BY <1>3, <2>1, <2>2
<1>6. ASSUME NEW c \in Call, Starts(c) PROVE Writes(OpAt(h)') \cap Writes(OpAt(m)') = {}
  <2>1. PICK n \in Nat \ {0} :
             /\ DOMAIN history = 1..n - 1 /\ DOMAIN history' = 1..n /\ Len(history) = n - 1 /\ Len(history') = n
             /\ history'[n].call = c /\ history'[n].verdict = "running"
             /\ \A i \in 1..n - 1 : history'[i] = history[i]
             /\ \A i \in 1..n - 1 : \A k : Made(i, k)' <=> Made(i, k)
             /\ \A k : Made(n, k)' <=> IsEffect(OpOf[c]) /\ key[c] = k
    BY <1>6, MadeStarts
  <2>2. UNCHANGED wave /\ c \in wave
    BY <1>6 DEF Starts
  <2>3. m \in 1..n - 1 /\ (h \in 1..n - 1 \/ h = n)
    BY <2>1
  <2>4. history'[m] = history[m] /\ OpAt(m)' = OpAt(m)
    BY <2>1, <2>3 DEF OpAt
  <2>5. CASE h \in 1..n - 1
    <3>1. OpAt(h)' = OpAt(h)
      BY <2>1, <2>5 DEF OpAt
    <3> QED BY <1>0, <2>1, <2>2, <2>3, <2>4, <2>5, <3>1
  <2>6. CASE h = n
    <3>1. OpAt(h)' = OpOf[c] /\ ~Past(c)
      BY <1>6, <2>1, <2>6, PastStarts DEF OpAt
    <3>2. history[m].call # c /\ history[m].call \in wave /\ history[m].call \in Call
      BY <2>1, <2>2, <2>3, <2>4, <3>1, HistoryIs DEF Past
    <3>3. Apart(OpOf[c], OpOf[history[m].call])
      BY <2>2, <3>2 DEF ScheduleInv, WaveApart
    <3>4. OpOf[c] \in Op /\ OpOf[history[m].call] \in Op
      BY <3>2
    <3> QED BY <2>4, <3>1, <3>3, <3>4, ApartWrites DEF OpAt
  <2> QED BY <2>3, <2>5, <2>6
<1> QED BY <1>1, <1>2, <1>4, <1>5, <1>6, StepKinds

\* The operation of an entry is that of its call and of those who made it.
LEMMA EntryHasOp ==
    ASSUME BaseInv, NEW l \in Ledgers, NEW e \in EntriesOf(l)
    PROVE  /\ e \in Entry /\ e.key \in Effect
           /\ e.call \in Makers /\ e.key = key[e.call] /\ OpOf[e.call] = e.key.op /\ e.key.op \in Op
           /\ \A h \in DOMAIN history : Made(h, e.key) => OpAt(h) = e.key.op
<1> USE DEF BaseInv, BatchInv
<1>1. e \in Entry
  BY LedgersOK
<1>2. e.key \in Effect /\ e.key # Unset
  BY <1>1 DEF Entry
<1>3. e.call \in Makers /\ e.key = key[e.call]
  BY DEF LedgerInv, EntriesHaveCalls
<1>4. OpOf[e.call] = e.key.op
  BY <1>2, <1>3 DEF CallsInv, KeysHaveOps
<1>5. ASSUME NEW h \in DOMAIN history, Made(h, e.key) PROVE OpAt(h) = e.key.op
  <2>1. history[h].call \in Makers /\ key[history[h].call] = e.key
    BY <1>5, HistoryIs DEF Made, OpAt, Makers
  <2> QED BY <1>2, <2>1 DEF CallsInv, KeysHaveOps, OpAt
<1>6. e.key.op \in Op
  BY <1>3, <1>4 DEF Makers
<1> QED BY <1>1, <1>2, <1>3, <1>4, <1>5, <1>6

LEMMA OrderSteps ==
    ASSUME BaseInv, OrderInv, [BatchNext]_batchVars
    PROVE  LedgerOrder'
<1> USE DEF BaseInv, BatchInv
<1> SUFFICES ASSUME NEW l \in Ledgers', NEW e, NEW f, Precedes(l, e, f), f.status = "succeeded",
                    Writes(e.key.op) \cap Writes(f.key.op) # {},
                    NEW h \in DOMAIN history', NEW m \in DOMAIN history', Made(h, e.key)', Made(m, f.key)'
             PROVE  h < m
  BY DEF LedgerOrder, InOrder
<1>0. \A x \in Ledgers : \A d, g :
          Precedes(x, d, g) /\ g.status = "succeeded" /\ Writes(d.key.op) \cap Writes(g.key.op) # {} => InOrder(d.key, g.key)
  BY DEF OrderInv, LedgerOrder
<1>1. ASSUME HistoryHolds PROVE /\ h \in DOMAIN history /\ m \in DOMAIN history
                                /\ Made(h, e.key) /\ Made(m, f.key)
  <2>1. h \in DOMAIN history /\ m \in DOMAIN history
    BY <1>1 DEF HistoryHolds
  <2> QED BY <1>1, <2>1, MadeHolds
<1>2. ASSUME HistoryHolds, l \in Ledgers PROVE h < m
  BY <1>0, <1>1, <1>2 DEF InOrder
<1>3. CASE (AtRest \/ Schedule \/ EndWave) /\ LedgersKept
  BY <1>2, <1>3, HistoryMoves DEF LedgersKept
<1>4. ASSUME NEW c \in Call, Enters(c) \/ Plain(c) \/ Ends(c) \/ RecordStep(c) \/ RestatedStep(c) PROVE HistoryHolds
  BY <1>4, HistoryMoves
<1>5. ASSUME NEW c \in Call, Enters(c) \/ Plain(c) \/ Ends(c), LedgersKept PROVE h < m
  BY <1>2, <1>4, <1>5 DEF LedgersKept
<1>6. ASSUME NEW c \in Call, RecordStep(c), Recorded(c) PROVE h < m
  <2>1. f # NewEntry(c)
    BY DEF NewEntry
  <2>2. l \in Ledgers \/ Precedes(ledger, e, f)
    BY <1>6, <2>1 DEF Recorded
  <2> QED BY <1>0, <1>1, <1>2, <1>4, <1>6, <2>2 DEF InOrder, Ledgers
<1>7. ASSUME NEW c \in Call, RestatedStep(c), NEW s \in Status, NEW l0 \in Ledgers, RestatedAs(c, s, l0) PROVE h < m
  <2>1. HistoryHolds
    BY <1>4, <1>7
  <2>2. /\ h \in DOMAIN history /\ m \in DOMAIN history
        /\ Made(h, e.key) /\ Made(m, f.key)
    BY <1>1, <2>1
  <2>3. CASE l \in Ledgers
    BY <1>2, <2>1, <2>3
  <2>4. CASE l = ledger'
    <3>1. PICK d, g : Precedes(l0, d, g) /\ Copies(c, s, e, d) /\ Copies(c, s, f, g)
      BY <1>7, <2>4 DEF RestatedAs
    <3>2. d \in EntriesOf(l0) /\ g \in EntriesOf(l0) /\ d.key # g.key
      BY <3>1, PrecedesAre, LedgersOK DEF LedgerInv, KeysDiffer
    <3>3. e.key = d.key /\ f.key = g.key
      BY <3>1 DEF Copies
    <3>4. CASE g.key # key[c]
      <4>1. g.status = "succeeded"
        BY <3>1, <3>4 DEF Copies
      <4> QED BY <1>0, <2>2, <3>1, <3>3, <4>1 DEF InOrder
    <3>5. CASE g.key = key[c]
      <4>1. s = "succeeded"
        BY <3>1, <3>5 DEF Copies
      <4>2. stage[c] = "confirm" /\ c \in Makers /\ c \in wave
        BY <1>7, <4>1 DEF RestatedAs, RestatedStep, Final
      <4>3. PastIntent(c)
        BY <4>2 DEF PastIntent, Makers
      <4>4. history[m].call = c
        BY <2>2, <3>3, <3>5, <4>2, <4>3, MadeByOne
      <4>5. OpAt(h) = e.key.op /\ OpAt(m) = f.key.op
        BY <2>2, <3>2, <3>3, EntryHasOp
      <4>6. ~(m < h)
        BY <2>2, <4>2, <4>4, <4>5 DEF OrderInv, WaveIsLast
      <4>7. m # h
        BY <2>2, <3>2, <3>3 DEF Made
      <4>8. m \in Nat /\ h \in Nat
        BY <2>2 DEF BatchTyped, WorkTyped
      <4> QED BY <4>6, <4>7, <4>8
    <3> QED BY <3>4, <3>5
  <2> QED BY <1>7, <2>3, <2>4 DEF RestatedAs
<1>8. ASSUME NEW c \in Call, Starts(c), LedgersKept PROVE h < m
  <2>1. PICK n \in Nat \ {0} :
             /\ DOMAIN history = 1..n - 1 /\ DOMAIN history' = 1..n /\ Len(history) = n - 1 /\ Len(history') = n
             /\ history'[n].call = c /\ history'[n].verdict = "running"
             /\ \A i \in 1..n - 1 : history'[i] = history[i]
             /\ \A i \in 1..n - 1 : \A k : Made(i, k)' <=> Made(i, k)
             /\ \A k : Made(n, k)' <=> IsEffect(OpOf[c]) /\ key[c] = k
    BY <1>8, MadeStarts
  <2>2. l \in Ledgers /\ e \in EntriesOf(l) /\ f \in EntriesOf(l) /\ e.key # f.key
    BY <1>8, PrecedesAre, LedgersOK DEF LedgersKept, LedgerInv, KeysDiffer
  <2>3. stage[c] = "invoke" /\ c \in wave
    BY <1>8 DEF Starts
  <2>4. CASE m = n
    <3>1. c \in Makers /\ key[c] = f.key
      BY <2>1, <2>4 DEF Makers
    <3> QED BY <2>2, <2>3, <3>1 DEF OrderInv, MadeIsOpen, Making, Final
  <2>5. CASE h = n /\ m # n
    <3>1. c \in Makers /\ key[c] = e.key
      BY <2>1, <2>5 DEF Makers
    <3>2. e.call \in wave
      BY <2>2, <2>3, <3>1 DEF LedgerInv, NewIsWaves, OfTheWave, Making
    <3>3. f.call \in wave
      BY <2>2, <3>2 DEF OrderInv, WavesAreLast
    <3>4. /\ e.key = key[e.call] /\ OpOf[e.call] = e.key.op /\ e.key.op \in Op
          /\ f.key = key[f.call] /\ OpOf[f.call] = f.key.op /\ f.key.op \in Op
      BY <2>2, EntryHasOp
    <3>5. Apart(e.key.op, f.key.op)
      BY <2>2, <3>2, <3>3, <3>4 DEF ScheduleInv, WaveApart
    <3> QED BY <3>4, <3>5, ApartWrites
  <2>6. CASE h # n /\ m # n
    <3>1. h \in DOMAIN history /\ m \in DOMAIN history /\ Made(h, e.key) /\ Made(m, f.key)
      BY <2>1, <2>6
    <3> QED BY <1>0, <2>2, <3>1 DEF InOrder
  <2> QED BY <2>4, <2>5, <2>6
<1> QED BY <1>3, <1>5, <1>6, <1>7, <1>8, LedgerKinds DEF LedgerInv

\* What a step that restates a status leaves.
LEMMA OthersEntries ==
    ASSUME NEW c \in Call, NEW s \in Status, NEW l0 \in Ledgers, RestatedAs(c, s, l0),
           NEW l \in Ledgers', NEW e \in EntriesOf(l), e.key # key[c]
    PROVE  \E m \in Ledgers : /\ KeysOf(m) = KeysOf(l)
                              /\ \E d \in EntriesOf(m) : d.key = e.key /\ d.call = e.call /\ d.status = e.status
<1>1. CASE l \in Ledgers
  BY <1>1
<1>2. CASE l = ledger'
  <2>1. PICK d \in EntriesOf(l0) : Copies(c, s, e, d)
    BY <1>2 DEF RestatedAs
  <2>2. KeysOf(l0) = KeysOf(l)
    BY <1>2 DEF RestatedAs
  <2> QED BY <2>1, <2>2 DEF Copies
<1> QED BY <1>1, <1>2 DEF RestatedAs

LEMMA AgreeSteps ==
    ASSUME BaseInv, OrderInv, [BatchNext]_batchVars
    PROVE  StatusesAgree'
<1> USE DEF BaseInv, BatchInv
<1> SUFFICES ASSUME NEW l \in Ledgers', NEW m \in Ledgers', NEW e \in EntriesOf(l), NEW f \in EntriesOf(m),
                    e.key = f.key, e.call \notin wave'
             PROVE  e.status = f.status \/ Busy(e.key.op)'
  BY DEF StatusesAgree
<1>0. \A x, y \in Ledgers : \A d \in EntriesOf(x), g \in EntriesOf(y) :
        d.key = g.key /\ d.call \notin wave => d.status = g.status \/ Busy(d.key.op)
  BY DEF OrderInv, StatusesAgree
<1>1. CASE Schedule \/ EndWave
  <2>1. l = ledger /\ m = ledger /\ ledger \in Ledgers
    BY <1>1, WaveLedgers
  <2>2. e = f
    BY <2>1 DEF LedgerInv, KeysDiffer, UniqueKeys, EntriesOf
  <2> QED BY <2>2
<1>2. ASSUME AtRest \/ \E c \in Call : Enters(c) \/ Plain(c) \/ Starts(c) \/ Ends(c), LedgersKept
      PROVE  e.status = f.status \/ Busy(e.key.op)'
  <2>1. UNCHANGED wave
    BY <1>2 DEF AtRest, Enters, Plain, Starts, Ends
  <2>2. e.status = f.status \/ Busy(e.key.op)
    BY <1>0, <1>2, <2>1 DEF LedgersKept
  <2> QED BY <1>2, <2>2, BusyStays
<1>3. ASSUME NEW c \in Call, RecordStep(c), Recorded(c) PROVE e.status = f.status \/ Busy(e.key.op)'
  <2>1. UNCHANGED <<wave, key>> /\ c \in wave /\ stage'[c] = "intent" /\ c \in Makers /\ stage[c] = "record"
    BY <1>3 DEF RecordStep
  <2>2. CASE e.key = key[c]
    <3>1. key[c] \in Effect /\ key[c] # Unset
      BY <2>1 DEF BatchTyped, CallsKnown, CallKnown, Makers, Holding, Place
    <3>2. OpOf[c] = e.key.op
      BY <2>1, <2>2, <3>1 DEF CallsInv, KeysHaveOps
    <3> QED BY <2>1, <3>2 DEF Busy, HasEntry
  <2>3. CASE e.key # key[c]
    <3>1. e # NewEntry(c) /\ f # NewEntry(c)
      BY <2>3 DEF NewEntry
    <3>2. (\E x \in Ledgers : e \in EntriesOf(x)) /\ (\E y \in Ledgers : f \in EntriesOf(y))
      BY <1>3, <3>1 DEF Recorded, Ledgers
    <3>3. e.status = f.status \/ Busy(e.key.op)
      BY <1>0, <2>1, <3>2
    <3> QED BY <1>3, <3>3, BusyStays
  <2> QED BY <2>2, <2>3
<1>4. ASSUME NEW c \in Call, RestatedStep(c), NEW s \in Status, NEW l0 \in Ledgers, RestatedAs(c, s, l0)
      PROVE  e.status = f.status \/ Busy(e.key.op)'
  <2>1. UNCHANGED <<wave, key>> /\ c \in wave /\ stage'[c] \in HasEntry /\ c \in Makers /\ stage[c] \in {"intent", "confirm", "settle"}
    BY <1>4 DEF RestatedStep, Restates, HasEntry
  <2>2. CASE e.key = key[c]
    <3>1. key[c] \in Effect /\ key[c] # Unset
      BY <2>1 DEF BatchTyped, CallsKnown, CallKnown, Makers, Holding, Place
    <3>2. OpOf[c] = e.key.op
      BY <2>1, <2>2, <3>1 DEF CallsInv, KeysHaveOps
    <3> QED BY <2>1, <3>2 DEF Busy
  <2>3. CASE e.key # key[c]
    <3>1. PICK x \in Ledgers : \E d \in EntriesOf(x) : d.key = e.key /\ d.call = e.call /\ d.status = e.status
      BY <1>4, <2>3, OthersEntries
    <3>2. PICK y \in Ledgers : \E g \in EntriesOf(y) : g.key = f.key /\ g.call = f.call /\ g.status = f.status
      BY <1>4, <2>3, OthersEntries
    <3>3. e.status = f.status \/ Busy(e.key.op)
      BY <1>0, <2>1, <3>1, <3>2
    <3> QED BY <1>4, <3>3, BusyStays
  <2> QED BY <2>2, <2>3
<1> QED BY <1>1, <1>2, <1>3, <1>4, LedgerKinds DEF LedgerInv

LEMMA AloneSteps ==
    ASSUME BaseInv, OrderInv, [BatchNext]_batchVars
    PROVE  ExclusiveAlone'
<1> USE DEF BaseInv, BatchInv
<1>1. ASSUME UNCHANGED shared PROVE ExclusiveAlone'
  BY <1>1 DEF OrderInv, ExclusiveAlone
<1>2. CASE Schedule
  <2>1. PICK n \in 1..Len(prepared) :
            /\ Together(n)
            /\ wave' = {prepared[i] : i \in 1..n}
            /\ shared' = IF n > 1 THEN shared \cup wave' ELSE shared
    BY <1>2 DEF Schedule
  <2>2. prepared \in Seq(Call)
    BY DEF BatchTyped, ScheduleTyped
  <2>3. Len(prepared) \in Nat /\ \A i \in 1..n : prepared[i] \in Call
    BY <2>1, <2>2
  <2>4. ASSUME n > 1, NEW i \in 1..n PROVE OpOf[prepared[i]] \notin Exclusive
    <3>1. PICK j \in 1..n : j # i
      <4>1. 1 \in 1..n /\ 2 \in 1..n
        BY <2>3, <2>4
      <4> QED BY <4>1
    <3>2. Apart(OpOf[prepared[i]], OpOf[prepared[j]]) \/ Apart(OpOf[prepared[j]], OpOf[prepared[i]])
      <4>1. i < j \/ j < i
        BY <2>3, <3>1
      <4> QED BY <2>1, <4>1 DEF Together
    <3> QED BY <3>2 DEF Apart
  <2>5. n > 1 => \A c \in wave' : OpOf[c] \notin Exclusive
    BY <2>1, <2>4
  <2> QED BY <2>1, <2>5 DEF OrderInv, ExclusiveAlone
<1> QED BY <1>1, <1>2, StepKinds DEF AtRest, Enters, EndWave, Plain, Starts, Ends, RecordStep, RestatedStep

LEMMA OrderInvSteps ==
    ASSUME BaseInv, OrderInv, [BatchNext]_batchVars
    PROVE  OrderInv'
BY OpenSteps, StatusSteps, WavesLastSteps, WaveLastSteps, OrderSteps, AgreeSteps, AloneSteps DEF OrderInv

-----------------------------------------------------------------------------
(* Until the run is aborted, the attempts of an operation are numbered and *)
(* rise: two calls of an operation that is guarded are never in one wave.  *)

Guarded(o) == IsEffect(o) /\ (o \in Exclusive \/ Writes(o) # {})
Numbered(o) == Guarded(o) /\ o \notin Shell
Attempt(o, n) == [op |-> o, grant |-> Unset, tries |-> IF n = 0 THEN << >> ELSE <<n>>]
Num(k) == IF k.tries = << >> THEN 0 ELSE k.tries[1]
Counted == {c \in Call : Numbered(OpOf[c]) /\ key[c] # Unset}
Above(c) == \A d \in Counted : OpOf[d] = OpOf[c] => Num(key[d]) <= Num(key[c])
Settles(h) == history[h].verdict \in Rested
OpenFor(l, o) == \E e \in EntriesOf(l) : e.key.op = o /\ e.status \in {"in_progress", "unknown"}

\* An effect is cancelled only with the run.
NoneCancelled ==
    /\ \A c \in Makers : stage[c] \in {"finish", "confirm", "settle"} => verdict[c] # "cancelled"
    /\ \A l \in Ledgers : \A e \in EntriesOf(l) : e.status # "cancelled"
\* Attempts are numbered; a call that asks again has not got a number yet.
KeysAreNumbered == \A c \in Counted : key[c] = Attempt(OpOf[c], Num(key[c]))
AgainIsFirst == \A c \in Counted : stage[c] = "again" => Num(key[c]) = 0
\* A numbered attempt that is to be recorded is in no ledger.
NotBack ==
    \A c \in Counted : stage[c] \in Awaiting /\ Num(key[c]) > 0 => \A l \in Ledgers : key[c] \notin KeysOf(l)
\* Only what is at rest is lost, and an older attempt before a newer one.
LostAreRested ==
    \A l, m \in Ledgers : \A e \in EntriesOf(l) :
        e.call \notin wave /\ e.key \notin KeysOf(m) => e.status \in Rested \/ Busy(e.key.op)
EvictsInOrder ==
    \A l, m \in Ledgers : \A e \in EntriesOf(l), f \in EntriesOf(m) :
        /\ e.key.op = f.key.op /\ Numbered(e.key.op) /\ ~Busy(e.key.op)
        /\ e.status \in Rested /\ f.status \in Rested /\ Num(e.key) < Num(f.key)
        => f.key \in KeysOf(l)
\* In a ledger the attempts of an operation rise.
NumbersRise ==
    \A l \in Ledgers : \A e, f :
        /\ Precedes(l, e, f) /\ e.key.op = f.key.op
        /\ Numbered(f.key.op) /\ f.status \in Rested
        => Num(e.key) < Num(f.key)
\* Who begins has the highest number of its operation.
Newest ==
    \A c \in Counted :
        /\ stage[c] \in Awaiting \cup {"intent"} => key[c] \in intents \/ Above(c)
        /\ stage[c] \in Making => Above(c)
\* The attempts before it were made, or are in every ledger.
Covered ==
    \A c \in Counted : \A n \in Nat : n < Num(key[c]) =>
        Attempt(OpOf[c], n) \in intents \/ \A l \in Ledgers : Attempt(OpOf[c], n) \in KeysOf(l)
\* What began under them may be repeated.
EarlierMayRepeat ==
    \A c \in Counted : \A h \in DOMAIN history :
        OpAt(h) = OpOf[c] /\ Num(key[history[h].call]) < Num(key[c]) => MayRepeat(h, Len(history) + 1)
\* A shell command is open in every ledger until its end is known, and the next one begins after.
ShellIsBlocked ==
    \A h \in DOMAIN history :
        OpAt(h) \in Shell /\ IsEffect(OpAt(h)) => Settles(h) \/ \A l \in Ledgers : OpenFor(l, OpAt(h))
ShellSettles ==
    \A c \in Makers : OpOf[c] \in Shell /\ stage[c] \in Awaiting \cup {"intent", "settle"} \cup Making =>
        \A h \in DOMAIN history : OpAt(h) = OpOf[c] /\ history[h].call # c => Settles(h)
NumberInv ==
    /\ NoneCancelled /\ KeysAreNumbered /\ AgainIsFirst /\ NotBack /\ LostAreRested /\ EvictsInOrder
    /\ NumbersRise /\ Newest /\ Covered /\ EarlierMayRepeat /\ ShellIsBlocked /\ ShellSettles
ReplayInv == BaseInv /\ OrderInv /\ (~aborted => NumberInv) /\ NoReplay

LEMMA InitReplay == ToolInit => (NumberInv /\ NoReplay)
<1> SUFFICES ASSUME ToolInit PROVE NumberInv /\ NoReplay
  OBVIOUS
<1>1. /\ Ledgers = {<< >>} /\ DOMAIN history = {} /\ Counted = {}
      /\ \A c \in Call : stage[c] = "idle"
  BY DEF ToolInit, Ledgers, Counted
<1>2. \A l \in Ledgers : EntriesOf(l) = {}
  BY <1>1 DEF EntriesOf
<1>3. \A l \in Ledgers : \A e, f : ~Precedes(l, e, f)
  BY <1>2, PrecedesAre
<1>4. NoneCancelled /\ ShellSettles
  BY <1>1, <1>2 DEF NoneCancelled, ShellSettles, Makers, Awaiting, Making
<1>5. KeysAreNumbered /\ AgainIsFirst /\ NotBack /\ Newest /\ Covered /\ EarlierMayRepeat
  BY <1>1 DEF KeysAreNumbered, AgainIsFirst, NotBack, Newest, Covered, EarlierMayRepeat
<1>6. LostAreRested /\ EvictsInOrder /\ NumbersRise
  BY <1>2, <1>3 DEF LostAreRested, EvictsInOrder, NumbersRise
<1>7. ShellIsBlocked /\ NoReplay
  BY <1>1 DEF ShellIsBlocked, NoReplay, NotReplayed
<1> QED BY <1>4, <1>5, <1>6, <1>7 DEF NumberInv

-----------------------------------------------------------------------------
LEMMA NumOf ==
    ASSUME NEW o, NEW n \in Nat
    PROVE  Num(Attempt(o, n)) = n /\ Attempt(o, n).op = o /\ Attempt(o, n).grant = Unset
<1> DEFINE t == IF n = 0 THEN << >> ELSE <<n>>
<1>1. (t = << >>) <=> n = 0
  OBVIOUS
<1>2. n # 0 => t[1] = n
  OBVIOUS
<1> HIDE DEF t
<1>3. Attempt(o, n) = [op |-> o, grant |-> Unset, tries |-> t]
  BY DEF Attempt, t
<1> QED BY <1>1, <1>2, <1>3 DEF Num

LEMMA NumTyped == ASSUME NEW k \in Effect PROVE Num(k) \in Nat
<1>1. k.tries \in Seq(Nat)
  BY DEF Effect
<1>2. k.tries # << >> => 1 \in DOMAIN k.tries
  BY <1>1
<1> QED BY <1>1, <1>2, ElementOfSeq DEF Num

LEMMA CountedIs ==
    ASSUME BaseInv, NEW c \in Counted
    PROVE  c \in Makers /\ key[c] \in Effect /\ key[c].op = OpOf[c] /\ Num(key[c]) \in Nat
<1>1. c \in Makers /\ key[c] # Unset
  BY DEF Counted, Numbered, Guarded, Makers
<1>2. key[c] \in Effect /\ key[c].op = OpOf[c]
  BY <1>1 DEF BaseInv, CallsInv, KeysHaveOps
<1> QED BY <1>1, <1>2, NumTyped

LEMMA GuardedAlone ==
    ASSUME BaseInv, NEW c \in wave, NEW d \in wave, OpOf[c] = OpOf[d], Guarded(OpOf[c])
    PROVE  c = d
<1> SUFFICES ASSUME c # d PROVE FALSE
  OBVIOUS
<1>1. Apart(OpOf[c], OpOf[d])
  BY DEF BaseInv, BatchInv, ScheduleInv, WaveApart
<1>2. OpOf[c] \in Op
  BY DEF BaseInv, BatchInv, BatchTyped, ScheduleTyped
<1> QED BY <1>1, <1>2, ApartWrites DEF Guarded

LEMMA AbortedStays == ASSUME [BatchNext]_batchVars, ~aborted' PROVE ~aborted
<1> SUFFICES ASSUME aborted PROVE aborted'
  BY DEF BatchNext, Abort, LoseLease
<1> USE DEF local, book, batch
<1>1. ASSUME NextRound \/ ServiceStep PROVE aborted'
  BY <1>1 DEF NextRound, ServiceStep, Admit, Deny, Schedule, EndWave
<1>2. ASSUME Abort \/ \E k \in leases : LoseLease(k) PROVE aborted'
  BY <1>2 DEF Abort, LoseLease
<1>3. ASSUME NEW c \in Call, CallStep(c) PROVE aborted'
  BY <1>3 DEF CallStep, Begin, Acquire, Record, RecordedMeanwhile, Intent, IntentFails, Checkpoint, Invoke,
              FinishCall, Confirm, ConfirmFails, Settle, SettleFails
<1>4. ASSUME NEW c \in Call, CutShort(c) \/ StopLate(c) \/ \E v \in Status : Return(c, v) PROVE aborted'
  BY <1>4 DEF CutShort, StopLate, Return
<1> QED BY <1>1, <1>2, <1>3, <1>4 DEF BatchNext, batchVars

\* What may be repeated stays so.
LEMMA RepeatHolds ==
    ASSUME NEW n \in Nat, NEW i \in 1..n, NEW j \in Nat, j <= n + 1, NEW j2 \in Nat, j <= j2,
           \A h \in 1..n : /\ history'[h].call = history[h].call
                           /\ history'[h].verdict = history[h].verdict \/ history[h].verdict = "running",
           MayRepeat(i, j)
    PROVE  MayRepeat(i, j2)'
<1>1. \A h \in 1..n : OpAt(h)' = OpAt(h)
  BY DEF OpAt
<1>2. \A h \in 1..n : \A v \in Rested : history[h].verdict = v => history'[h].verdict = v
  BY DEF Rested
<1>3. i + 1 \in Nat /\ \A h \in 1..j - 1 : h \in 1..n /\ h \in 1..j2 - 1
  OBVIOUS
<1>4. \A m \in i + 1..j - 1 : m \in 1..n /\ m \in i + 1..j2 - 1
  OBVIOUS
<1> DEFINE o == OpAt(i)
<1>5. CASE history[i].verdict = "failed"
  BY <1>2, <1>5 DEF MayRepeat, Rested
<1>6. CASE o \in Shell /\ history[i].verdict = "succeeded"
  <2>1. OpAt(i)' \in Shell /\ history'[i].verdict = "succeeded"
    BY <1>1, <1>2, <1>6 DEF Rested
  <2> QED BY <2>1 DEF MayRepeat
<1>7. CASE /\ o \in ReRunnable
           /\ \E h \in 1..j - 1 : history[h].verdict = "succeeded" /\ OpAt(h) = o
           /\ \E m \in i + 1..j - 1 :
                /\ history[m].verdict = "succeeded" /\ OpAt(m) # o
                /\ Writes(OpAt(m)) \cap Writes(o) # {}
  <2>1. PICK h \in 1..j - 1 : history[h].verdict = "succeeded" /\ OpAt(h) = o
    BY <1>7
  <2>2. PICK m \in i + 1..j - 1 :
                /\ history[m].verdict = "succeeded" /\ OpAt(m) # o
                /\ Writes(OpAt(m)) \cap Writes(o) # {}
    BY <1>7
  <2>3. OpAt(i)' = o /\ OpAt(h)' = OpAt(h) /\ OpAt(m)' = OpAt(m)
    BY <1>1, <1>3, <1>4
  <2>4. history'[h].verdict = "succeeded" /\ history'[m].verdict = "succeeded"
    BY <1>2, <1>3, <1>4, <2>1, <2>2 DEF Rested
  <2> HIDE DEF o
  <2>5. /\ OpAt(i)' \in ReRunnable
        /\ h \in 1..j2 - 1 /\ history'[h].verdict = "succeeded" /\ OpAt(h)' = OpAt(i)'
        /\ m \in i + 1..j2 - 1 /\ history'[m].verdict = "succeeded" /\ OpAt(m)' # OpAt(i)'
        /\ Writes(OpAt(m)') \cap Writes(OpAt(i)') # {}
    BY <1>3, <1>4, <1>7, <2>1, <2>2, <2>3, <2>4
  <2> QED BY <2>5 DEF MayRepeat
<1> QED BY <1>5, <1>6, <1>7 DEF MayRepeat

\* The steps, by what they do to the keys and to the ledgers.
Calm ==
    \/ AtRest \/ Schedule \/ EndWave
    \/ \E c \in Call : Enters(c) \/ Ends(c) \/ (Plain(c) /\ UNCHANGED key)

LEMMA NumberKinds ==
    ASSUME BaseInv, [BatchNext]_batchVars
    PROVE  \/ Calm /\ LedgersKept
           \/ \E c \in Call : \/ Begun(c) /\ LedgersKept
                              \/ Starts(c) /\ LedgersKept
                              \/ RecordStep(c) /\ Recorded(c)
                              \/ RestatedStep(c) /\ \E s \in Status : \E l0 \in Ledgers : RestatedAs(c, s, l0)
<1> USE DEF BaseInv, BatchInv
<1>1. ASSUME NEW c \in Call, PlainStep(c), Plain(c) PROVE Calm \/ Begun(c)
  BY <1>1, PlainKeys DEF Calm
<1> QED BY <1>1, LedgerKinds DEF LedgerInv, Calm

LEMMA CalmIs ==
    ASSUME BaseInv, Calm
    PROVE  /\ UNCHANGED key /\ intents \subseteq intents' /\ HistoryHolds
           /\ UNCHANGED wave \/ Schedule \/ EndWave
<1> USE DEF BaseInv, BatchInv
<1>1. HistoryHolds
  BY HistoryMoves DEF Calm
<1>2. CASE AtRest \/ Schedule \/ EndWave
  BY <1>1, <1>2 DEF AtRest, Schedule, EndWave, local, book
<1>3. ASSUME NEW c \in Call, Enters(c) \/ Ends(c) \/ (Plain(c) /\ UNCHANGED key)
      PROVE  UNCHANGED key /\ intents \subseteq intents' /\ UNCHANGED wave
  BY <1>3 DEF Enters, Ends, Plain
<1> QED BY <1>1, <1>2, <1>3 DEF Calm

\* A call that begins.
LEMMA BegunIs ==
    ASSUME BaseInv, NEW c \in Call, Begun(c)
    PROVE  /\ c \in wave /\ c \in Makers /\ stage[c] \in {"ready", "again"} /\ Others(c)
           /\ UNCHANGED <<wave, intents, history, ledger, shared>> /\ HistoryHolds
           /\ key'[c] \in Effect /\ key'[c] # Unset /\ key'[c].op = OpOf[c]
           /\ key'[c] \notin KeysOf(ledger)
           /\ ~Past(c)
<1> USE DEF BaseInv, BatchInv
<1>1. c \in wave /\ stage[c] \in {"ready", "again"} /\ UNCHANGED <<wave, intents, history, ledger, shared>>
  BY DEF Begun, Begin, batch, book
<1>2. Others(c) /\ c \in Makers
  BY DEF Begun, Plain, Makers
<1>3. HistoryHolds
  BY HistoryMoves DEF Begun
<1>4. PICK b \in Effect : key'[c] = Admission(c, b) /\ Admission(c, b) # Unset
  BY BeginHasOp DEF Begun, CallsInv
<1>5. key'[c] \in Effect /\ key'[c].op = OpOf[c]
  BY BeginHasOp DEF Begun, CallsInv
<1>6. key'[c] \notin KeysOf(ledger)
  BY <1>4, AdmissionIsNew DEF BatchTyped, LedgersTyped
<1>7. ~Past(c)
  BY <1>1 DEF BegunInv, BegunOnly
<1> QED BY <1>1, <1>2, <1>3, <1>5, <1>6, <1>7

LEMMA CountedMoves ==
    ASSUME BaseInv, [BatchNext]_batchVars
    PROVE  \/ UNCHANGED key /\ Counted' = Counted
           \/ \E c \in Call : /\ Begun(c) /\ Counted' \subseteq Counted \cup {c}
                              /\ \A d \in Call \ {c} : key'[d] = key[d]
<1>1. ASSUME UNCHANGED key PROVE Counted' = Counted
  BY <1>1 DEF Counted
<1>2. ASSUME NEW c \in Call, Begun(c)
      PROVE  /\ Counted' \subseteq Counted \cup {c}
             /\ \A d \in Call \ {c} : key'[d] = key[d]
  BY <1>2, BegunIs DEF Others, Counted
<1>3. UNCHANGED key \/ \E c \in Call : Begun(c)
  BY NumberKinds, CalmIs DEF Starts, RecordStep, RestatedStep
<1> QED BY <1>1, <1>2, <1>3

\* How a call that makes an effect comes to where it stands.
LEMMA StagesMove ==
    ASSUME BaseInv, [BatchNext]_batchVars, NEW c \in Makers
    PROVE  /\ stage'[c] \in Making =>
                key'[c] = key[c] /\ (stage[c] \in Making \/ (stage[c] = "intent" /\ key[c] \notin intents))
           /\ stage'[c] \in Awaiting \cup {"intent"} =>
                Begun(c) \/ (key'[c] = key[c] /\ stage[c] \in Awaiting \cup {"intent"})
           /\ stage'[c] \in Awaiting => Begun(c) \/ (key'[c] = key[c] /\ stage[c] \in Awaiting)
           /\ stage'[c] = "again" =>
                key'[c] = key[c] /\ (stage[c] = "again" \/ (stage[c] \in Awaiting /\ key[c] \in KeysOf(ledger)))
           /\ stage'[c] = "settle" => key'[c] = key[c] /\ stage[c] \in {"settle", "confirm"}
           /\ ~aborted /\ stage'[c] \in {"finish", "confirm", "settle"} =>
                \/ verdict'[c] \in {"succeeded", "failed", "unknown"}
                \/ verdict'[c] = verdict[c] /\ stage[c] \in {"finish", "confirm", "settle"}
<1> USE DEF BaseInv, BatchInv
<1>0. c \in Call /\ IsEffect(OpOf[c])
  BY DEF Makers
<1>1. CASE AtRest \/ Schedule \/ EndWave
  <2>1. UNCHANGED <<stage, key, verdict>>
    BY <1>1 DEF AtRest, Schedule, EndWave, local
  <2>2. stage[c] \in Making \/ stage[c] \notin Making
    OBVIOUS
  <2> QED BY <2>1
<1>2. ASSUME NEW d \in Call, d # c, Enters(d) \/ Plain(d) \/ Starts(d) \/ Ends(d) \/ RecordStep(d) \/ RestatedStep(d)
      PROVE  stage'[c] = stage[c] /\ key'[c] = key[c] /\ verdict'[c] = verdict[c]
  BY <1>0, <1>2 DEF Enters, Plain, Starts, Ends, RecordStep, RestatedStep, Restates, Others
<1>3. CASE Enters(c) \/ RecordStep(c)
  BY <1>3 DEF Enters, RecordStep, Making, Awaiting
<1>4. CASE Starts(c) \/ RestatedStep(c)
  BY <1>4 DEF Starts, RestatedStep, Restates, Making, Awaiting
<1>5. CASE Ends(c)
  BY <1>0, <1>5 DEF Ends, Making, Awaiting
<1>6. CASE PlainStep(c) /\ Plain(c)
  <2>1. stage'[c] = "acquire" => Begun(c)
    <3> SUFFICES ASSUME stage'[c] = "acquire" PROVE Begun(c)
      OBVIOUS
    <3>1. stage[c] \in {"ready", "again"}
      BY <1>6 DEF Plain
    <3>2. Begin(c)
      BY <1>6, <3>1 DEF PlainStep, Acquire, RecordedMeanwhile, Intent, Checkpoint, Invoke, FinishCall, Settle
    <3> QED BY <1>0, <1>6, <3>2 DEF Begun
  <2>2. CASE stage[c] \in {"ready", "again"}
    BY <1>0, <1>6, <2>1, <2>2 DEF Plain, Making, Awaiting
  <2>3. CASE stage[c] \in Awaiting
    BY <1>6, <2>3 DEF Plain, Making, Awaiting
  <2>4. CASE stage[c] \in {"intent", "checkpoint", "invoke", "finish", "settle"}
    BY <1>6, <2>4 DEF Plain, Making, Awaiting
  <2> QED BY <1>6, <2>2, <2>3, <2>4 DEF Plain
<1> QED BY <1>1, <1>2, <1>3, <1>4, <1>5, <1>6, StepKinds

HasWarrant(o) ==
    /\ o \in ReRunnable
    /\ \E g \in EntriesOf(ledger) : g.key.op = o /\ g.status = "succeeded"
    /\ \E w \in EntriesOf(ledger) :
        /\ w.status = "succeeded" /\ w.key.op # o /\ Writes(w.key.op) \cap Writes(o) # {}
        /\ \A e \in EntriesOf(ledger) : e.key.op = o => Precedes(ledger, e, w)
\* What warrants the n-th repetition of an operation.
Repeats(o, n) ==
    /\ \A e \in EntriesOf(ledger) : e.key.op = o => Num(e.key) < n
    /\ Attempt(o, n - 1) \in KeysOf(ledger)
    /\ \E g \in EntriesOf(ledger) : g.key.op = o /\ g.status \in Rested
    /\ (\E e \in EntriesOf(ledger) : e.key = Attempt(o, n - 1) /\ e.status = "failed") \/ HasWarrant(o)

LEMMA PrefixIsEmpty == ASSUME NEW t \in Seq(Nat) PROVE IsPrefix(<< >>, t)
<1>1. Len(<< >>) = 0 /\ Len(t) \in Nat
  OBVIOUS
<1>2. SubSeq(<< >>, 1, 0) = << >> /\ SubSeq(t, 1, 0) = << >>
  OBVIOUS
<1> QED BY <1>1, <1>2 DEF IsPrefix

\* The entries of an operation are its attempts.
LEMMA EntryIsCounted ==
    ASSUME BaseInv, NumberInv, NEW l \in Ledgers, NEW e \in EntriesOf(l), Numbered(e.key.op)
    PROVE  /\ e.call \in Counted /\ OpOf[e.call] = e.key.op /\ key[e.call] = e.key
           /\ e.key = Attempt(e.key.op, Num(e.key)) /\ Num(e.key) \in Nat /\ e.key \in Effect
<1>1. e.key \in Effect /\ e.call \in Makers /\ key[e.call] = e.key /\ OpOf[e.call] = e.key.op
  BY EntryHasOp
<1>2. e.call \in Counted
  BY <1>1 DEF Counted, Makers
<1>3. e.key = Attempt(e.key.op, Num(e.key)) /\ Num(e.key) \in Nat
  BY <1>1, <1>2, NumTyped DEF NumberInv, KeysAreNumbered
<1> QED BY <1>1, <1>2, <1>3

LEMMA TriedAre ==
    ASSUME BaseInv, NumberInv, NEW o \in Op, Numbered(o)
    PROVE  /\ Attempt(o, 0) \in Effect
           /\ \A i \in DOMAIN ledger :
                /\ ledger[i] \in EntriesOf(ledger)
                /\ i \in Tried(Attempt(o, 0)) <=> ledger[i].key.op = o
           /\ Tried(Attempt(o, 0)) \subseteq DOMAIN ledger
<1> DEFINE b == Attempt(o, 0)
<1>1. b = [op |-> o, grant |-> Unset, tries |-> << >>]
  BY DEF Attempt
<1>2. b \in Effect
  <2>1. << >> \in Seq(Nat)
    OBVIOUS
  <2>2. [op |-> o, grant |-> Unset, tries |-> << >>] \in Effect
    BY <2>1 DEF Effect
  <2> QED BY <1>1, <2>2
<1>3. b.op = o /\ b.grant = Unset /\ b.tries = << >>
  BY <1>1
<1> HIDE DEF b
<1>4. ASSUME NEW i \in DOMAIN ledger PROVE ledger[i] \in EntriesOf(ledger)
  BY DEF EntriesOf
<1>5. ASSUME NEW i \in DOMAIN ledger PROVE i \in Tried(b) <=> ledger[i].key.op = o
  <2>1. i \in Tried(b) => ledger[i].key.op = o
    BY <1>3 DEF Tried, IsAttempt
  <2>2. ASSUME ledger[i].key.op = o PROVE i \in Tried(b)
    <3>1. ledger[i].key = Attempt(o, Num(ledger[i].key)) /\ Num(ledger[i].key) \in Nat /\ ledger[i].key \in Effect
      BY <1>4, <2>2, EntryIsCounted DEF Ledgers
    <3>2. ledger[i].key.grant = Unset
      BY <3>1, NumOf
    <3>3. IsPrefix(b.tries, ledger[i].key.tries)
      <4>1. ledger[i].key.tries \in Seq(Nat)
        BY <3>1 DEF Effect
      <4> QED BY <1>3, <4>1, PrefixIsEmpty
    <3> QED BY <1>3, <2>2, <3>2, <3>3 DEF Tried, IsAttempt
  <2> QED BY <2>1, <2>2
<1>6. Tried(b) \subseteq DOMAIN ledger
  BY DEF Tried
<1> QED BY <1>2, <1>4, <1>5, <1>6 DEF b

LEMMA NextNumber ==
    ASSUME BaseInv, NumberInv, NEW o \in Op, Numbered(o), Tried(Attempt(o, 0)) # {}
    PROVE  \E n \in Nat \ {0} :
             /\ NextAttempt(Attempt(o, 0)) = Attempt(o, n)
             /\ \A e \in EntriesOf(ledger) : e.key.op = o => Num(e.key) < n
             /\ Attempt(o, n - 1) \in KeysOf(ledger)
<1> DEFINE b == Attempt(o, 0)
<1>1. b = [op |-> o, grant |-> Unset, tries |-> << >>]
  BY DEF Attempt
<1>2. b.tries = << >> /\ Len(b.tries) + 1 = 1
  BY <1>1
<1>3. b \in Effect
  BY TriedAre
<1>4. LedgerOK(ledger)
  BY DEF BaseInv, BatchInv, BatchTyped, LedgersTyped
<1>5. \A i \in DOMAIN ledger : ledger[i] \in EntriesOf(ledger) /\ (i \in Tried(b) <=> ledger[i].key.op = o)
  BY TriedAre
<1>6. Tried(b) \subseteq DOMAIN ledger /\ Tried(b) # {}
  BY TriedAre
<1> HIDE DEF b
<1>7. PICK m \in Nat :
             /\ NextAttempt(b) = [b EXCEPT !.tries = Append(@, 1 + m)]
             /\ \A i \in Tried(b) :
                   ledger[i].key # b => ledger[i].key.tries[Len(b.tries) + 1] <= m
             /\ m = 0 \/ \E i \in Tried(b) :
                   ledger[i].key # b /\ ledger[i].key.tries[Len(b.tries) + 1] = m
  BY <1>3, <1>4, NextAttemptIs
<1>8. NextAttempt(b) = Attempt(o, m + 1)
  <2>1. Append(<< >>, 1 + m) = <<1 + m>>
    OBVIOUS
  <2>2. NextAttempt(b) = [op |-> o, grant |-> Unset, tries |-> <<1 + m>>]
    BY <1>1, <1>2, <1>7, <2>1
  <2>3. 1 + m = m + 1 /\ m + 1 # 0
    OBVIOUS
  <2> QED BY <2>2, <2>3 DEF Attempt
<1>9. ASSUME NEW i \in Tried(b)
      PROVE  /\ ledger[i].key = Attempt(o, Num(ledger[i].key)) /\ Num(ledger[i].key) \in Nat
             /\ IF ledger[i].key = b THEN Num(ledger[i].key) = 0
                ELSE Num(ledger[i].key) = ledger[i].key.tries[1]
  <2>1. i \in DOMAIN ledger /\ ledger[i].key.op = o
    BY <1>5, <1>6
  <2>2. ledger[i].key = Attempt(o, Num(ledger[i].key)) /\ Num(ledger[i].key) \in Nat
    BY <1>5, <2>1, EntryIsCounted DEF Ledgers
  <2>3. CASE ledger[i].key = b
    BY <1>2, <2>2, <2>3 DEF Num
  <2>4. CASE ledger[i].key # b
    <3>1. Num(ledger[i].key) # 0
      BY <2>2, <2>4 DEF b
    <3> QED BY <2>2, <2>4, <3>1 DEF Num
  <2> QED BY <2>2, <2>3, <2>4
<1>10. ASSUME NEW i \in Tried(b) PROVE Num(ledger[i].key) <= m
  BY <1>2, <1>7, <1>9
<1>11. \E i \in Tried(b) : ledger[i].key = Attempt(o, m)
  <2>1. CASE m = 0
    <3>1. PICK i \in Tried(b) : TRUE
      BY <1>6
    <3>2. Num(ledger[i].key) = 0
      BY <1>9, <1>10, <2>1, <3>1
    <3> QED BY <1>9, <2>1, <3>1, <3>2
  <2>2. CASE m # 0
    <3>1. PICK i \in Tried(b) : ledger[i].key # b /\ ledger[i].key.tries[Len(b.tries) + 1] = m
      BY <1>7, <2>2
    <3> QED BY <1>2, <1>9, <3>1
  <2> QED BY <2>1, <2>2
<1>12. \A e \in EntriesOf(ledger) : e.key.op = o => Num(e.key) < m + 1
  <2> SUFFICES ASSUME NEW e \in EntriesOf(ledger), e.key.op = o PROVE Num(e.key) < m + 1
    OBVIOUS
  <2>1. PICK i \in DOMAIN ledger : e = ledger[i]
    BY DEF EntriesOf
  <2>2. i \in Tried(b)
    BY <1>5, <2>1
  <2> QED BY <1>9, <1>10, <2>1, <2>2
<1>13. m + 1 \in Nat \ {0} /\ m + 1 - 1 = m
  OBVIOUS
<1>14. Attempt(o, m) \in KeysOf(ledger)
  BY <1>5, <1>6, <1>11 DEF KeysOf
<1> QED BY <1>8, <1>12, <1>13, <1>14 DEF b

\* A call begins to make the next attempt of its operation, which is warranted.
LEMMA BeginNumbered ==
    ASSUME BaseInv, NumberInv, NEW c \in Call, Begun(c), Numbered(OpOf[c])
    PROVE  \E n \in Nat :
             /\ key'[c] = Attempt(OpOf[c], n)
             /\ IF n = 0 THEN \A e \in EntriesOf(ledger) : e.key.op # OpOf[c] ELSE Repeats(OpOf[c], n)
<1> DEFINE o == OpOf[c]
           b == Attempt(o, 0)
<1> USE DEF BaseInv, BatchInv
<1>1. /\ key'[c] = Admission(c, b) /\ Admission(c, b) # Unset /\ b.op = o
  <2>1. PICK x \in Effect : /\ x.op = OpOf[c] /\ x = IF stage[c] = "ready" THEN Key(OpOf[c], Unset) ELSE key[c]
                            /\ key'[c] = Admission(c, x) /\ Admission(c, x) # Unset
    BY BeginHasOp DEF Begun, CallsInv
  <2>2. CASE stage[c] = "ready"
    <3>1. x = b
      BY <2>1, <2>2 DEF Key, Attempt
    <3> QED BY <2>1, <3>1
  <2>3. CASE stage[c] # "ready"
    <3>1. stage[c] = "again" /\ x = key[c]
      BY <2>1, <2>3, BegunIs
    <3>2. c \in Counted
      BY <2>1, <3>1 DEF Counted
    <3>3. x = b
      BY <3>1, <3>2 DEF NumberInv, AgainIsFirst, KeysAreNumbered
    <3> QED BY <2>1, <3>3
  <2> QED BY <2>2, <2>3
<1>2. key'[c] = Retry(b) /\ Retry(b) # Unset
  BY <1>1 DEF Admission, Numbered
<1>3. o \in Op /\ Numbered(o)
  OBVIOUS
<1>4. /\ \A i \in DOMAIN ledger :
           /\ ledger[i] \in EntriesOf(ledger)
           /\ i \in Tried(b) <=> ledger[i].key.op = o
      /\ Tried(b) \subseteq DOMAIN ledger
  BY <1>3, TriedAre
<1> HIDE DEF o, b
<1>5. CASE Tried(b) = {}
  <2>1. key'[c] = b
    BY <1>2, <1>5 DEF Retry, Succeeded
  <2>2. \A e \in EntriesOf(ledger) : e.key.op # o
    BY <1>4, <1>5 DEF EntriesOf
  <2> QED BY <2>1, <2>2 DEF b, o
<1>6. CASE Tried(b) # {}
  <2>1. PICK n \in Nat \ {0} :
             /\ NextAttempt(b) = Attempt(o, n)
             /\ \A e \in EntriesOf(ledger) : e.key.op = o => Num(e.key) < n
             /\ Attempt(o, n - 1) \in KeysOf(ledger)
    BY <1>3, <1>6, NextNumber DEF b
  <2>2. \/ Succeeded(b) /\ Warrant(b)
        \/ ~Succeeded(b) /\ LastIs(b, {"failed", "cancelled"})
    BY <1>2, <1>6 DEF Retry
  <2>3. key'[c] = NextAttempt(b)
    BY <1>2, <1>6, <2>2 DEF Retry
  <2>4. CASE Succeeded(b) /\ Warrant(b)
    <3>1. PICK i \in Tried(b) : ledger[i].status = "succeeded"
      BY <2>4 DEF Succeeded
    <3>2. ledger[i] \in EntriesOf(ledger) /\ ledger[i].key.op = o /\ ledger[i].status = "succeeded"
      BY <1>4, <3>1
    <3>3. PICK j \in DOMAIN ledger \ Tried(b) :
            /\ ledger[j].status = "succeeded"
            /\ Writes(ledger[j].key.op) \cap Writes(b.op) # {}
            /\ \A h \in Tried(b) : h < j
      BY <2>4 DEF Warrant
    <3>4. ledger[j] \in EntriesOf(ledger) /\ ledger[j].key.op # o
      BY <1>4, <3>3
    <3>5. \A e \in EntriesOf(ledger) : e.key.op = o => Precedes(ledger, e, ledger[j])
      BY <1>4, <3>3 DEF EntriesOf, Precedes
    <3>6. HasWarrant(o)
      BY <1>1, <2>4, <3>2, <3>3, <3>4, <3>5 DEF HasWarrant, Warrant
    <3>7. \E g \in EntriesOf(ledger) : g.key.op = o /\ g.status \in Rested
      BY <3>2 DEF Rested
    <3> QED BY <2>1, <2>3, <3>6, <3>7 DEF Repeats, o
  <2>5. CASE ~Succeeded(b) /\ LastIs(b, {"failed", "cancelled"})
    <3>1. PICK i \in Tried(b) : ledger[i].status \in {"failed", "cancelled"} /\ \A j \in Tried(b) : j <= i
      BY <2>5 DEF LastIs
    <3>2. ledger[i] \in EntriesOf(ledger) /\ ledger[i].key.op = o /\ i \in DOMAIN ledger
      BY <1>4, <3>1
    <3>3. ledger[i].status = "failed"
      BY <3>1, <3>2 DEF NumberInv, NoneCancelled, Ledgers
    <3>4. PICK g \in EntriesOf(ledger) : g.key = Attempt(o, n - 1)
      BY <2>1 DEF KeysOf
    <3>5. PICK j \in DOMAIN ledger : g = ledger[j]
      BY DEF EntriesOf
    <3>6. n - 1 \in Nat
      BY <2>1
    <3>7. g.key.op = o /\ Num(g.key) = n - 1
      BY <3>4, <3>6, NumOf
    <3>8. j \in Tried(b) /\ j <= i
      BY <1>4, <3>1, <3>5, <3>7
    <3>9. j = i
      <4> SUFFICES ASSUME j # i PROVE FALSE
        OBVIOUS
      <4>1. j < i
        BY <3>2, <3>5, <3>8 DEF BatchTyped, LedgersTyped, LedgerOK
      <4>2. Precedes(ledger, g, ledger[i])
        BY <3>2, <3>5, <4>1 DEF Precedes
      <4>3. Num(g.key) < Num(ledger[i].key)
        BY <1>3, <3>2, <3>3, <3>7, <4>2 DEF NumberInv, NumbersRise, Ledgers, Rested
      <4>4. Num(ledger[i].key) < n /\ Num(ledger[i].key) \in Nat
        BY <1>3, <2>1, <3>2, EntryIsCounted DEF Ledgers
      <4> QED BY <2>1, <3>7, <4>3, <4>4
    <3>10. g.status = "failed" /\ g.status \in Rested
      BY <3>3, <3>5, <3>9 DEF Rested
    <3> QED BY <2>1, <2>3, <3>4, <3>7, <3>10 DEF Repeats, o
  <2> QED BY <2>2, <2>4, <2>5
<1> QED BY <1>5, <1>6

LEMMA CancelledSteps ==
    ASSUME BaseInv, NumberInv, ~aborted, [BatchNext]_batchVars
    PROVE  NoneCancelled'
<1>0. /\ \A c \in Makers : stage[c] \in {"finish", "confirm", "settle"} => verdict[c] # "cancelled"
      /\ \A l \in Ledgers : \A e \in EntriesOf(l) : e.status # "cancelled"
  BY DEF NumberInv, NoneCancelled
<1>1. \A c \in Makers : stage'[c] \in {"finish", "confirm", "settle"} => verdict'[c] # "cancelled"
  <2> TAKE c \in Makers
  <2>1. ~aborted /\ stage'[c] \in {"finish", "confirm", "settle"} =>
                \/ verdict'[c] \in {"succeeded", "failed", "unknown"}
                \/ verdict'[c] = verdict[c] /\ stage[c] \in {"finish", "confirm", "settle"}
    BY StagesMove
  <2> QED BY <1>0, <2>1
<1>2. \A l \in Ledgers' : \A e \in EntriesOf(l) : e.status # "cancelled"
  <2> TAKE l \in Ledgers'
  <2> TAKE e \in EntriesOf(l)
  <2>1. CASE LedgersKept
    BY <1>0, <2>1 DEF LedgersKept
  <2>2. ASSUME NEW c \in Call, Recorded(c) PROVE e.status # "cancelled"
    <3>1. l \in Ledgers \/ e \in EntriesOf(ledger) \/ e = NewEntry(c)
      BY <2>2 DEF Recorded
    <3>2. NewEntry(c).status = "in_progress"
      BY DEF NewEntry
    <3> QED BY <1>0, <3>1, <3>2 DEF Ledgers
  <2>3. ASSUME NEW c \in Call, RestatedStep(c), NEW s \in Status, NEW l0 \in Ledgers, RestatedAs(c, s, l0)
        PROVE  e.status # "cancelled"
    <3>1. s # "cancelled"
      BY <1>0, <2>3 DEF RestatedAs, RestatedStep, Final
    <3>2. CASE l \in Ledgers
      BY <1>0, <3>2
    <3>3. CASE l = ledger'
      <4>1. PICK d \in EntriesOf(l0) : Copies(c, s, e, d)
        BY <2>3, <3>3 DEF RestatedAs
      <4> QED BY <1>0, <3>1, <4>1 DEF Copies
    <3> QED BY <2>3, <3>2, <3>3 DEF RestatedAs
  <2> QED BY <2>1, <2>2, <2>3, NumberKinds
<1>3. Makers' = Makers
  BY DEF Makers
<1> QED BY <1>1, <1>2, <1>3 DEF NoneCancelled

LEMMA NumberedSteps ==
    ASSUME BaseInv, NumberInv, [BatchNext]_batchVars
    PROVE  KeysAreNumbered'
<1> SUFFICES ASSUME NEW c \in Counted' PROVE key'[c] = Attempt(OpOf[c], Num(key'[c]))
  BY DEF KeysAreNumbered
<1>1. ASSUME c \in Counted, key'[c] = key[c] PROVE key'[c] = Attempt(OpOf[c], Num(key'[c]))
  BY <1>1 DEF NumberInv, KeysAreNumbered
<1>2. ASSUME Begun(c) PROVE key'[c] = Attempt(OpOf[c], Num(key'[c]))
  <2>1. c \in Call /\ Numbered(OpOf[c])
    BY DEF Counted
  <2>2. PICK n \in Nat : key'[c] = Attempt(OpOf[c], n)
    BY <1>2, <2>1, BeginNumbered
  <2> QED BY <2>2, NumOf
<1>3. c \in Call
  BY DEF Counted
<1> QED BY <1>1, <1>2, <1>3, CountedMoves

LEMMA AgainSteps ==
    ASSUME BaseInv, NumberInv, [BatchNext]_batchVars
    PROVE  AgainIsFirst'
<1> SUFFICES ASSUME NEW c \in Counted', stage'[c] = "again" PROVE Num(key'[c]) = 0
  BY DEF AgainIsFirst
<1>1. c \in Makers
  BY DEF Counted, Numbered, Guarded, Makers
<1>2. key'[c] = key[c] /\ (stage[c] = "again" \/ (stage[c] \in Awaiting /\ key[c] \in KeysOf(ledger)))
  BY <1>1, StagesMove
<1>3. c \in Counted
  BY <1>2 DEF Counted
<1>4. Num(key[c]) \in Nat
  BY <1>3, CountedIs
<1> QED BY <1>2, <1>3, <1>4 DEF NumberInv, AgainIsFirst, NotBack, Ledgers

\* A call of an operation that begins is the only one of the wave.
LEMMA BegunIsAlone ==
    ASSUME BaseInv, NEW c \in Call, Begun(c), Guarded(OpOf[c])
    PROVE  /\ ~Busy(OpOf[c])
           /\ \A d \in wave : OpOf[d] = OpOf[c] => d = c
           /\ \A l \in Ledgers : \A e \in EntriesOf(l) : e.key.op = OpOf[c] => e.call \notin wave
<1>1. c \in wave /\ stage[c] \notin HasEntry
  BY BegunIs DEF HasEntry, Making
<1>2. \A d \in wave : OpOf[d] = OpOf[c] => d = c
  BY <1>1, GuardedAlone
<1>3. ~Busy(OpOf[c])
  BY <1>1, <1>2 DEF Busy
<1>4. ASSUME NEW l \in Ledgers, NEW e \in EntriesOf(l), e.key.op = OpOf[c], e.call \in wave PROVE FALSE
  <2>1. OpOf[e.call] = OpOf[c] /\ stage[e.call] \in HasEntry
    BY <1>4, EntryHasOp DEF BaseInv, LedgerInv, EntriesHaveCalls
  <2> QED BY <1>1, <1>2, <1>4, <2>1
<1> QED BY <1>2, <1>3, <1>4

LEMMA BackSteps ==
    ASSUME BaseInv, OrderInv, NumberInv, [BatchNext]_batchVars
    PROVE  NotBack'
<1> USE DEF BaseInv, BatchInv
<1> SUFFICES ASSUME NEW c \in Counted', stage'[c] \in Awaiting, Num(key'[c]) > 0,
                    NEW l \in Ledgers', key'[c] \in KeysOf(l)
             PROVE  FALSE
  BY DEF NotBack
<1>1. c \in Makers /\ c \in Call /\ Numbered(OpOf[c]) /\ Guarded(OpOf[c]) /\ IsEffect(OpOf[c])
  BY DEF Counted, Numbered, Guarded, Makers
<1>2. CASE key'[c] = key[c] /\ stage[c] \in Awaiting
  <2>1. c \in Counted /\ c \in wave
    BY <1>1, <1>2 DEF Counted, ScheduleInv, InWave, Awaiting
  <2>2. \A m \in Ledgers : key[c] \notin KeysOf(m)
    BY <1>2, <2>1 DEF NumberInv, NotBack
  <2>3. CASE LedgersKept
    BY <1>2, <2>2, <2>3 DEF LedgersKept
  <2>4. ASSUME NEW d \in Call, RecordStep(d), Recorded(d) PROVE FALSE
    <3>1. d \in wave /\ d \in Makers /\ stage[d] = "record" /\ stage'[d] = "intent"
      BY <2>4 DEF RecordStep
    <3>2. d # c
      BY <3>1 DEF Awaiting
    <3>3. key[d] \in Effect /\ key[d] # Unset
      BY <3>1 DEF BatchTyped, CallsKnown, CallKnown, Makers, Holding, Place
    <3>4. key[d].op = OpOf[d] /\ key[c].op = OpOf[c]
      BY <2>1, <3>1, <3>3, CountedIs DEF CallsInv, KeysHaveOps
    <3>5. OpOf[d] # OpOf[c]
      BY <1>1, <2>1, <3>1, <3>2, GuardedAlone
    <3>6. PICK e \in EntriesOf(l) : e.key = key[c]
      BY <1>2 DEF KeysOf
    <3>7. e # NewEntry(d)
      BY <3>4, <3>5, <3>6 DEF NewEntry
    <3>8. \E m \in Ledgers : e \in EntriesOf(m)
      BY <2>4, <3>6, <3>7 DEF Recorded, Ledgers
    <3> QED BY <2>2, <3>6, <3>8 DEF KeysOf
  <2>5. ASSUME NEW d \in Call, NEW s \in Status, NEW l0 \in Ledgers, RestatedAs(d, s, l0) PROVE FALSE
    BY <1>2, <2>2, <2>5 DEF RestatedAs
  <2> QED BY <2>3, <2>4, <2>5, NumberKinds
<1>3. CASE Begun(c)
  <2>1. PICK n \in Nat : /\ key'[c] = Attempt(OpOf[c], n)
                         /\ n # 0 => Repeats(OpOf[c], n)
    BY <1>1, <1>3, BeginNumbered
  <2>2. Num(key'[c]) = n /\ n # 0 /\ key'[c].op = OpOf[c]
    BY <2>1, NumOf
  <2>3. key'[c] \notin KeysOf(ledger)
    BY <1>3, BegunIs, <1>1
  <2>4. PICK g \in EntriesOf(ledger) : g.key.op = OpOf[c] /\ g.status \in Rested
    BY <2>1, <2>2 DEF Repeats
  <2>5. Num(g.key) < n
    BY <2>1, <2>2, <2>4 DEF Repeats
  <2>6. l \in Ledgers
    <3>1. PlainStep(c)
      BY <1>3 DEF Begun, PlainStep
    <3>2. Quiet(c)
      BY <1>1, <3>1, QuietSteps DEF PlainStep
    <3> QED BY <1>1, <3>2, QuietLedgers
  <2>7. PICK x \in EntriesOf(l) : x.key = key'[c]
    BY DEF KeysOf
  <2>8. x.call \notin wave /\ ~Busy(OpOf[c])
    BY <1>1, <1>3, <2>2, <2>6, <2>7, BegunIsAlone
  <2>9. x.status \in Rested
    BY <2>2, <2>3, <2>6, <2>7, <2>8 DEF NumberInv, LostAreRested, Ledgers
  <2>10. ledger \in Ledgers
    BY DEF Ledgers
  <2>11. x.key \in KeysOf(ledger)
    BY <1>1, <2>2, <2>4, <2>5, <2>6, <2>7, <2>8, <2>9, <2>10 DEF NumberInv, EvictsInOrder
  <2> QED BY <2>3, <2>7, <2>11
<1> QED BY <1>1, <1>2, <1>3, StagesMove

LEMMA WaveStays ==
    ASSUME BaseInv, [BatchNext]_batchVars, ~(Schedule \/ EndWave)
    PROVE  UNCHANGED wave /\ \A o : Busy(o) => Busy(o)'
<1> USE DEF BaseInv, BatchInv
<1>1. AtRest \/ \E c \in Call : \/ Enters(c) \/ Plain(c) \/ Starts(c) \/ Ends(c)
                                \/ RecordStep(c) \/ RestatedStep(c)
  BY StepKinds
<1>2. UNCHANGED wave
  BY <1>1 DEF AtRest, Enters, Plain, Starts, Ends, RecordStep, RestatedStep
<1> QED BY <1>1, <1>2, BusyStays

LEMMA MakerIsBusy ==
    ASSUME BaseInv, NEW c \in Call, RecordStep(c) \/ RestatedStep(c)
    PROVE  /\ Busy(OpOf[c])' /\ c \in Makers /\ c \in wave
           /\ key[c] \in Effect /\ key[c].op = OpOf[c] /\ key' = key
<1> USE DEF BaseInv, BatchInv
<1>1. /\ c \in Makers /\ c \in wave /\ UNCHANGED <<wave, key>>
      /\ stage[c] \in {"record", "intent", "confirm", "settle"} /\ stage'[c] \in HasEntry
  BY DEF RecordStep, RestatedStep, Restates, HasEntry
<1>2. key[c] \in Effect /\ key[c] # Unset
  BY <1>1 DEF BatchTyped, CallsKnown, CallKnown, Makers, Holding, Place
<1>3. key[c].op = OpOf[c]
  BY <1>1, <1>2 DEF CallsInv, KeysHaveOps
<1>4. Busy(OpOf[c])'
  BY <1>1 DEF Busy
<1> QED BY <1>1, <1>2, <1>3, <1>4

LEMMA LostSteps ==
    ASSUME BaseInv, OrderInv, NumberInv, [BatchNext]_batchVars
    PROVE  LostAreRested'
<1> USE DEF BaseInv, BatchInv
<1> SUFFICES ASSUME NEW l \in Ledgers', NEW m \in Ledgers', NEW e \in EntriesOf(l),
                    e.call \notin wave', e.key \notin KeysOf(m), ~(Busy(e.key.op)')
             PROVE  e.status \in Rested
  BY DEF LostAreRested
<1>0. \A x, y \in Ledgers : \A d \in EntriesOf(x) :
        d.call \notin wave /\ d.key \notin KeysOf(y) => d.status \in Rested \/ Busy(d.key.op)
  BY DEF NumberInv, LostAreRested
<1>1. CASE Schedule \/ EndWave
  <2>1. l = ledger /\ m = ledger
    BY <1>1, WaveLedgers
  <2> QED BY <2>1 DEF KeysOf
<1>2. CASE ~(Schedule \/ EndWave)
  <2>1. e.call \notin wave /\ ~Busy(e.key.op)
    BY <1>2, WaveStays
  <2>2. CASE LedgersKept
    BY <1>0, <2>1, <2>2 DEF LedgersKept
  <2>3. ASSUME NEW c \in Call, RecordStep(c), Recorded(c) PROVE e.status \in Rested
    <3>1. e # NewEntry(c)
      BY <2>1, <2>3, MakerIsBusy DEF NewEntry
    <3>2. PICK x \in Ledgers : e \in EntriesOf(x)
      BY <2>3, <3>1 DEF Recorded, Ledgers
    <3>3. CASE m \in Ledgers
      BY <1>0, <2>1, <3>2, <3>3
    <3>4. CASE m = ledger'
      <4>1. CASE e.key \notin KeysOf(ledger)
        BY <1>0, <2>1, <3>2, <4>1 DEF Ledgers
      <4>2. CASE e.key \in KeysOf(ledger)
        <5>1. PICK d \in EntriesOf(ledger) : d.key = e.key
          BY <4>2 DEF KeysOf
        <5>2. d \notin EntriesOf(ledger')
          BY <3>4, <5>1 DEF KeysOf
        <5>3. d.status \in Rested
          BY <2>3, <5>2 DEF Recorded
        <5>4. ledger \in Ledgers
          BY DEF Ledgers
        <5>5. e.status = d.status \/ Busy(e.key.op)
          BY <2>1, <3>2, <5>1, <5>4 DEF OrderInv, StatusesAgree
        <5> QED BY <2>1, <5>3, <5>5
      <4> QED BY <4>1, <4>2
    <3> QED BY <2>3, <3>3, <3>4 DEF Recorded
  <2>4. ASSUME NEW c \in Call, RestatedStep(c), NEW s \in Status, NEW l0 \in Ledgers, RestatedAs(c, s, l0)
        PROVE  e.status \in Rested
    <3>1. e.key # key[c]
      BY <2>4, MakerIsBusy
    <3>2. PICK x \in Ledgers : \E d \in EntriesOf(x) : d.key = e.key /\ d.call = e.call /\ d.status = e.status
      BY <2>4, <3>1, OthersEntries
    <3>3. \E y \in Ledgers : KeysOf(y) = KeysOf(m)
      BY <2>4 DEF RestatedAs
    <3> QED BY <1>0, <2>1, <3>2, <3>3
  <2> QED BY <2>2, <2>3, <2>4, NumberKinds
<1> QED BY <1>1, <1>2

LEMMA EvictsSteps ==
    ASSUME BaseInv, NumberInv, [BatchNext]_batchVars
    PROVE  EvictsInOrder'
<1> USE DEF BaseInv, BatchInv
<1> SUFFICES ASSUME NEW l \in Ledgers', NEW m \in Ledgers', NEW e \in EntriesOf(l), NEW f \in EntriesOf(m),
                    e.key.op = f.key.op, Numbered(e.key.op), ~(Busy(e.key.op)'),
                    e.status \in Rested, f.status \in Rested, Num(e.key) < Num(f.key)
             PROVE  f.key \in KeysOf(l)
  BY DEF EvictsInOrder, Numbered, Guarded
<1>0. \A x, y \in Ledgers : \A d \in EntriesOf(x), g \in EntriesOf(y) :
        /\ d.key.op = g.key.op /\ Numbered(d.key.op) /\ ~Busy(d.key.op)
        /\ d.status \in Rested /\ g.status \in Rested /\ Num(d.key) < Num(g.key)
        => g.key \in KeysOf(x)
  BY DEF NumberInv, EvictsInOrder
<1>1. CASE Schedule \/ EndWave
  <2>1. l = ledger /\ m = ledger
    BY <1>1, WaveLedgers
  <2> QED BY <2>1 DEF KeysOf
<1>2. CASE ~(Schedule \/ EndWave)
  <2>1. ~Busy(e.key.op)
    BY <1>2, WaveStays
  <2>2. CASE LedgersKept
    BY <1>0, <2>1, <2>2 DEF LedgersKept
  <2>3. ASSUME NEW c \in Call, RecordStep(c), Recorded(c) PROVE f.key \in KeysOf(l)
    <3>1. e # NewEntry(c) /\ f # NewEntry(c)
      BY DEF NewEntry, Rested
    <3>2. PICK y \in Ledgers : f \in EntriesOf(y)
      BY <2>3, <3>1 DEF Recorded, Ledgers
    <3>3. CASE l \in Ledgers
      BY <1>0, <2>1, <3>2, <3>3
    <3>4. CASE l = ledger'
      <4>1. e \in EntriesOf(ledger) /\ ledger \in Ledgers
        BY <2>3, <3>1, <3>4 DEF Recorded, Ledgers
      <4>2. f.key \in KeysOf(ledger)
        BY <1>0, <2>1, <3>2, <4>1
      <4>3. PICK g \in EntriesOf(ledger) : g.key = f.key
        BY <4>2 DEF KeysOf
      <4>4. g \in EntriesOf(ledger') \/ Precedes(ledger, g, e)
        BY <2>3, <3>4 DEF Recorded
      <4>5. ~Precedes(ledger, g, e)
        <5> SUFFICES ASSUME Precedes(ledger, g, e) PROVE FALSE
          OBVIOUS
        <5>1. Num(g.key) < Num(e.key)
          BY <4>1, <4>3 DEF NumberInv, NumbersRise
        <5>2. Num(g.key) \in Nat /\ Num(e.key) \in Nat
          BY <4>1, <4>3, EntryIsCounted
        <5> QED BY <4>3, <5>1, <5>2
      <4> QED BY <3>4, <4>3, <4>4, <4>5 DEF KeysOf
    <3> QED BY <2>3, <3>3, <3>4 DEF Recorded
  <2>4. ASSUME NEW c \in Call, RestatedStep(c), NEW s \in Status, NEW l0 \in Ledgers, RestatedAs(c, s, l0)
        PROVE  f.key \in KeysOf(l)
    <3>1. e.key # key[c] /\ f.key # key[c]
      BY <2>4, MakerIsBusy
    <3>2. PICK x \in Ledgers : /\ KeysOf(x) = KeysOf(l)
                               /\ \E d \in EntriesOf(x) : d.key = e.key /\ d.call = e.call /\ d.status = e.status
      BY <2>4, <3>1, OthersEntries
    <3>3. PICK y \in Ledgers : /\ KeysOf(y) = KeysOf(m)
                               /\ \E d \in EntriesOf(y) : d.key = f.key /\ d.call = f.call /\ d.status = f.status
      BY <2>4, <3>1, OthersEntries
    <3> QED BY <1>0, <2>1, <3>2, <3>3
  <2> QED BY <2>2, <2>3, <2>4, NumberKinds
<1> QED BY <1>1, <1>2

LEMMA RiseSteps ==
    ASSUME BaseInv, OrderInv, NumberInv, [BatchNext]_batchVars
    PROVE  NumbersRise'
<1> USE DEF BaseInv, BatchInv
<1> SUFFICES ASSUME NEW l \in Ledgers', NEW e, NEW f, Precedes(l, e, f), e.key.op = f.key.op,
                    Numbered(f.key.op), f.status \in Rested
             PROVE  Num(e.key) < Num(f.key)
  BY DEF NumbersRise, Numbered, Guarded
<1>0. \A m \in Ledgers : \A d, g :
        Precedes(m, d, g) /\ d.key.op = g.key.op /\ Numbered(g.key.op) /\ g.status \in Rested => Num(d.key) < Num(g.key)
  BY DEF NumberInv, NumbersRise
<1>1. CASE LedgersKept
  BY <1>0, <1>1 DEF LedgersKept
<1>2. ASSUME NEW c \in Call, Recorded(c) PROVE Num(e.key) < Num(f.key)
  <2>1. f # NewEntry(c)
    BY DEF NewEntry, Rested
  <2>2. \E m \in Ledgers : Precedes(m, e, f)
    BY <1>2, <2>1 DEF Recorded, Ledgers
  <2> QED BY <1>0, <2>2
<1>3. ASSUME NEW c \in Call, RestatedStep(c), NEW s \in Status, NEW l0 \in Ledgers, RestatedAs(c, s, l0)
      PROVE  Num(e.key) < Num(f.key)
  <2>1. CASE l \in Ledgers
    BY <1>0, <2>1
  <2>2. CASE l = ledger'
    <3>1. PICK d, g : Precedes(l0, d, g) /\ Copies(c, s, e, d) /\ Copies(c, s, f, g)
      BY <1>3, <2>2 DEF RestatedAs
    <3>2. d \in EntriesOf(l0) /\ g \in EntriesOf(l0) /\ d.key # g.key
      BY <3>1, PrecedesAre, LedgersOK DEF LedgerInv, KeysDiffer
    <3>3. e.key = d.key /\ f.key = g.key
      BY <3>1 DEF Copies
    <3>4. CASE g.key # key[c]
      <4>1. g.status = f.status
        BY <3>1, <3>4 DEF Copies
      <4> QED BY <1>0, <3>1, <3>3, <4>1
    <3>5. CASE g.key = key[c]
      <4>1. s \in Final
        BY <3>1, <3>5 DEF Copies, Rested, Final
      <4>2. stage[c] = "confirm" /\ OpOf[c] = g.key.op /\ c \in Makers /\ key[c] # Unset
        BY <1>3, <3>5, <4>1, MakerIsBusy DEF RestatedAs
      <4>3. c \in Counted
        BY <3>3, <4>2 DEF Counted, Makers
      <4>4. Above(c)
        BY <4>2, <4>3 DEF NumberInv, Newest, Making
      <4>5. d.call \in Counted /\ OpOf[d.call] = d.key.op /\ key[d.call] = d.key /\ d.key = Attempt(d.key.op, Num(d.key)) /\ Num(d.key) \in Nat
        BY <3>2, <3>3, EntryIsCounted
      <4>6. g.key = Attempt(g.key.op, Num(g.key)) /\ Num(g.key) \in Nat
        BY <3>2, <3>3, EntryIsCounted
      <4>7. Num(d.key) <= Num(g.key)
        BY <3>3, <3>5, <4>2, <4>4, <4>5 DEF Above
      <4>8. Num(d.key) # Num(g.key)
        BY <3>2, <3>3, <4>5, <4>6
      <4> QED BY <3>3, <4>5, <4>6, <4>7, <4>8
    <3> QED BY <3>4, <3>5
  <2> QED BY <1>3, <2>1, <2>2 DEF RestatedAs
<1> QED BY <1>1, <1>2, <1>3, NumberKinds

LEMMA IntentsStay ==
    ASSUME BaseInv, [BatchNext]_batchVars
    PROVE  intents \subseteq intents'
<1>1. CASE Calm
  BY <1>1, CalmIs
<1>2. ASSUME NEW c \in Call, Begun(c) \/ Starts(c) \/ RecordStep(c) \/ RestatedStep(c) PROVE intents \subseteq intents'
  BY <1>2 DEF Begun, Plain, Starts, RecordStep, RestatedStep
<1> QED BY <1>1, <1>2, NumberKinds

LEMMA NewestSteps ==
    ASSUME BaseInv, NumberInv, [BatchNext]_batchVars
    PROVE  Newest'
<1> USE DEF BaseInv, BatchInv
<1> SUFFICES ASSUME NEW c \in Counted'
             PROVE  /\ stage'[c] \in Awaiting \cup {"intent"} => key'[c] \in intents' \/ Above(c)'
                    /\ stage'[c] \in Making => Above(c)'
  BY DEF Newest
<1>1. c \in Makers /\ c \in Call /\ Numbered(OpOf[c]) /\ Guarded(OpOf[c])
  BY DEF Counted, Numbered, Guarded, Makers
<1>2. CASE Begun(c)
  <2>1. PICK n \in Nat : key'[c] = Attempt(OpOf[c], n)
    BY <1>1, <1>2, BeginNumbered
  <2>2. Num(key'[c]) = n /\ stage'[c] = "acquire"
    BY <1>2, <2>1, NumOf DEF Begun
  <2>3. key'[c] \notin KeysOf(ledger) /\ UNCHANGED intents
    BY <1>1, <1>2, BegunIs
  <2>4. ASSUME ~(Above(c)') PROVE key'[c] \in intents'
    <3>1. PICK x \in Counted' : OpOf[x] = OpOf[c] /\ ~(Num(key'[x]) <= n)
      BY <2>2, <2>4 DEF Above
    <3>2. x # c
      BY <2>2, <3>1
    <3>3. x \in Call /\ key'[x] = key[x]
      BY <1>1, <1>2, <3>2, BegunIs DEF Others, Counted
    <3>4. x \in Counted
      BY <3>3 DEF Counted
    <3>5. Num(key[x]) \in Nat
      BY <3>4, CountedIs
    <3>6. n < Num(key[x])
      BY <3>1, <3>3, <3>5
    <3> QED BY <2>1, <2>3, <3>1, <3>4, <3>6 DEF NumberInv, Covered, Ledgers
  <2> QED BY <2>2, <2>4 DEF Making
<1>3. CASE ~Begun(c)
  <2>1. /\ stage'[c] \in Making =>
              key'[c] = key[c] /\ (stage[c] \in Making \/ (stage[c] = "intent" /\ key[c] \notin intents))
        /\ stage'[c] \in Awaiting \cup {"intent"} => key'[c] = key[c] /\ stage[c] \in Awaiting \cup {"intent"}
    BY <1>1, <1>3, StagesMove
  <2> SUFFICES ASSUME stage'[c] \in Making \cup Awaiting \cup {"intent"}
               PROVE  (stage'[c] \in Making \/ key[c] \notin intents') => Above(c)'
    BY <2>1
  <2>2. key'[c] = key[c] /\ stage[c] \in Making \cup Awaiting \cup {"intent"}
    BY <2>1
  <2>3. c \in Counted /\ c \in wave
    BY <1>1, <2>2 DEF Counted, ScheduleInv, InWave, Making, Awaiting
  <2>4. stage'[c] \in Making \/ key[c] \notin intents' => Above(c)
    <3>1. intents \subseteq intents'
      BY IntentsStay
    <3> QED BY <2>1, <2>2, <2>3, <3>1 DEF NumberInv, Newest
  <2>5. ASSUME Above(c) PROVE Above(c)'
    <3> SUFFICES ASSUME NEW x \in Counted', OpOf[x] = OpOf[c] PROVE Num(key'[x]) <= Num(key'[c])
      BY DEF Above
    <3>1. CASE x \in Counted /\ key'[x] = key[x]
      BY <2>2, <2>5, <3>1 DEF Above
    <3>2. CASE Begun(x)
      <4>1. x \in Call
        BY DEF Counted
      <4>2. c = x
        BY <1>1, <2>3, <3>2, <4>1, BegunIsAlone
      <4> QED BY <1>3, <3>2, <4>2
    <3> QED BY <3>1, <3>2, CountedMoves DEF Counted
  <2> QED BY <2>4, <2>5
<1> QED BY <1>2, <1>3

\* An attempt that all ledgers have keeps its entry, or its intent.
LEMMA AttemptStays ==
    ASSUME BaseInv, NumberInv, [BatchNext]_batchVars, NEW k,
           k \in intents \/ \A l \in Ledgers : k \in KeysOf(l)
    PROVE  k \in intents' \/ \A l \in Ledgers' : k \in KeysOf(l)
<1>1. CASE k \in intents
  BY <1>1, IntentsStay
<1>2. CASE \A l \in Ledgers : k \in KeysOf(l)
  <2>1. CASE LedgersKept
    BY <1>2, <2>1 DEF LedgersKept
  <2>2. ASSUME NEW c \in Call, Recorded(c) PROVE k \in intents' \/ \A l \in Ledgers' : k \in KeysOf(l)
    <3> SUFFICES ASSUME NEW l \in Ledgers', k \notin KeysOf(l) PROVE k \in intents'
      OBVIOUS
    <3>1. l = ledger'
      BY <1>2, <2>2 DEF Recorded
    <3>2. PICK e \in EntriesOf(ledger) : e.key = k
      BY <1>2 DEF Ledgers, KeysOf
    <3>3. e \notin EntriesOf(ledger')
      BY <3>1, <3>2 DEF KeysOf
    <3>4. e.status \in Final
      BY <2>2, <3>3 DEF Recorded, Rested, Final
    <3>5. k \in intents
      BY <3>2, <3>4 DEF BaseInv, LedgerInv, FinalIsIntended, Ledgers
    <3> QED BY <3>5, IntentsStay
  <2>3. ASSUME NEW c \in Call, NEW s \in Status, NEW l0 \in Ledgers, RestatedAs(c, s, l0)
        PROVE  \A l \in Ledgers' : k \in KeysOf(l)
    BY <1>2, <2>3 DEF RestatedAs
  <2> QED BY <2>1, <2>2, <2>3, NumberKinds
<1> QED BY <1>1, <1>2

LEMMA CoveredSteps ==
    ASSUME BaseInv, NumberInv, [BatchNext]_batchVars
    PROVE  Covered'
<1> SUFFICES ASSUME NEW c \in Counted', NEW n \in Nat, n < Num(key'[c])
             PROVE  Attempt(OpOf[c], n) \in intents' \/ \A l \in Ledgers' : Attempt(OpOf[c], n) \in KeysOf(l)
  BY DEF Covered, Attempt
<1> DEFINE k == Attempt(OpOf[c], n)
<1>0. ledger \in Ledgers
  BY DEF Ledgers
<1> SUFFICES k \in intents \/ \A l \in Ledgers : k \in KeysOf(l)
  <2> HIDE DEF k
  <2>1. ASSUME k \in intents \/ \A l \in Ledgers : k \in KeysOf(l)
        PROVE  k \in intents' \/ \A l \in Ledgers' : k \in KeysOf(l)
    BY <2>1, AttemptStays
  <2> QED BY <2>1 DEF k
<1>1. CASE c \in Counted /\ key'[c] = key[c]
  BY <1>1 DEF NumberInv, Covered
<1>2. CASE Begun(c)
  <2>1. c \in Call /\ Numbered(OpOf[c]) /\ Guarded(OpOf[c])
    BY DEF Counted, Numbered
  <2>2. PICK m \in Nat : key'[c] = Attempt(OpOf[c], m) /\ (m # 0 => Repeats(OpOf[c], m))
    BY <1>2, <2>1, BeginNumbered
  <2>3. m # 0 /\ n < m /\ m - 1 \in Nat
    BY <2>2, NumOf
  <2>4. PICK g \in EntriesOf(ledger) : g.key = Attempt(OpOf[c], m - 1)
    BY <2>2, <2>3 DEF Repeats, KeysOf
  <2>5. g.key.op = OpOf[c] /\ Num(g.key) = m - 1
    BY <2>3, <2>4, NumOf
  <2>6. g.call \in Counted /\ OpOf[g.call] = OpOf[c] /\ key[g.call] = g.key
    BY <1>0, <2>1, <2>5, EntryIsCounted
  <2>7. CASE n < m - 1
    BY <2>5, <2>6, <2>7 DEF NumberInv, Covered
  <2>8. CASE n = m - 1
    <3>1. g.call \notin wave
      BY <1>0, <1>2, <2>1, <2>5, BegunIsAlone
    <3>2. \A l \in Ledgers : g.key \in KeysOf(l) \/ g.key \in intents
      BY <1>0, <3>1 DEF BaseInv, LedgerInv, LostIsIntended
    <3> QED BY <2>4, <2>8, <3>2
  <2> QED BY <2>3, <2>7, <2>8
<1> QED BY <1>1, <1>2, CountedMoves DEF Counted

-----------------------------------------------------------------------------
\* What is warranted may be repeated.
LEMMA RepeatsMay ==
    ASSUME BaseInv, OrderInv, NumberInv, NEW o \in Op, Numbered(o), NEW n \in Nat \ {0}, Repeats(o, n),
           NEW h \in DOMAIN history, OpAt(h) = o, key[history[h].call] = Attempt(o, n - 1)
    PROVE  MayRepeat(h, Len(history) + 1)
<1> USE DEF BaseInv, BatchInv
<1>0. ledger \in Ledgers /\ \A e \in EntriesOf(ledger) : TrueStatus(e)
  BY DEF OrderInv, StatusIsVerdict, Ledgers
<1>1. Made(h, Attempt(o, n - 1))
  BY DEF Made, Numbered, Guarded
<1>2. CASE \E e \in EntriesOf(ledger) : e.key = Attempt(o, n - 1) /\ e.status = "failed"
  <2>1. history[h].verdict = "failed"
    BY <1>0, <1>1, <1>2 DEF TrueStatus
  <2> QED BY <2>1 DEF MayRepeat
<1>3. CASE HasWarrant(o)
  <2>1. PICK g \in EntriesOf(ledger) : g.key = Attempt(o, n - 1)
    BY DEF Repeats, KeysOf
  <2>2. g.key.op = o
    <3>1. n - 1 \in Nat
      OBVIOUS
    <3> QED BY <2>1, <3>1, NumOf
  <2>3. PICK s \in EntriesOf(ledger) : s.key.op = o /\ s.status = "succeeded"
    BY <1>3 DEF HasWarrant
  <2>4. PICK w \in EntriesOf(ledger) :
          /\ w.status = "succeeded" /\ w.key.op # o /\ Writes(w.key.op) \cap Writes(o) # {}
          /\ Precedes(ledger, g, w)
    BY <1>3, <2>2 DEF HasWarrant
  <2>5. PICK i \in DOMAIN history : Made(i, s.key) /\ history[i].verdict = "succeeded"
    BY <1>0, <2>3 DEF TrueStatus
  <2>6. PICK m \in DOMAIN history : Made(m, w.key) /\ history[m].verdict = "succeeded"
    BY <1>0, <2>4 DEF TrueStatus
  <2>7. OpAt(i) = o /\ OpAt(m) = w.key.op
    BY <1>0, <2>3, <2>5, <2>6, EntryHasOp
  <2>8. h < m
    <3>1. Writes(g.key.op) \cap Writes(w.key.op) # {}
      BY <2>2, <2>4
    <3>2. InOrder(g.key, w.key)
      BY <1>0, <2>4, <3>1 DEF OrderInv, LedgerOrder
    <3> QED BY <1>1, <2>1, <2>6, <3>2 DEF InOrder
  <2>9. DOMAIN history = 1..Len(history) /\ Len(history) \in Nat
    BY DEF BatchTyped, WorkTyped
  <2>10. i \in 1..Len(history) + 1 - 1 /\ m \in h + 1..Len(history) + 1 - 1
    BY <2>8, <2>9
  <2> QED BY <1>3, <2>4, <2>5, <2>6, <2>7, <2>10 DEF MayRepeat, HasWarrant
<1> QED BY <1>2, <1>3 DEF Repeats

LEMMA SameRange == ASSUME NEW a \in Nat, NEW b \in Nat, 1..a = 1..b PROVE a = b
<1>1. \A x \in Nat : x \in 1..a <=> x \in 1..b
  OBVIOUS
<1>2. /\ a > 0 => a \in 1..b
      /\ b > 0 => b \in 1..a
  BY <1>1
<1> QED BY <1>2

LEMMA EarlierSteps ==
    ASSUME BaseInv, OrderInv, NumberInv, [BatchNext]_batchVars
    PROVE  EarlierMayRepeat'
<1> USE DEF BaseInv, BatchInv
<1> SUFFICES ASSUME NEW c \in Counted', NEW h \in DOMAIN history', OpAt(h)' = OpOf[c],
                    Num(key'[history'[h].call]) < Num(key'[c])
             PROVE  MayRepeat(h, Len(history) + 1)'
  BY DEF EarlierMayRepeat
<1>0. DOMAIN history = 1..Len(history) /\ Len(history) \in Nat
  BY DEF BatchTyped, WorkTyped
<1>00. c \in Call /\ Numbered(OpOf[c]) /\ IsEffect(OpOf[c])
  BY DEF Counted, Numbered, Guarded
<1>1. ASSUME HistoryHolds, history' = history \/ Calm \/ \E d \in Call : RestatedStep(d)
      PROVE  /\ h \in DOMAIN history /\ OpAt(h) = OpOf[c]
             /\ key'[history'[h].call] = key[history[h].call]
             /\ MayRepeat(h, Len(history) + 1) => MayRepeat(h, Len(history) + 1)'
  <2>1. h \in DOMAIN history /\ OpAt(h) = OpOf[c] /\ key'[history'[h].call] = key[history[h].call]
    BY <1>1 DEF HistoryHolds, OpAt
  <2>2. Len(history') = Len(history)
    <3>1. history' \in Seq([call : Call, verdict : Status \cup {"running"}])
      BY StepBatchTyped DEF BatchTyped, WorkTyped
    <3>2. DOMAIN history' = 1..Len(history') /\ Len(history') \in Nat
      BY <3>1
    <3>3. 1..Len(history) = 1..Len(history')
      BY <1>0, <1>1, <3>2 DEF HistoryHolds
    <3> QED BY <1>0, <3>2, <3>3, SameRange
  <2> DEFINE n == Len(history)
  <2>3. n \in Nat /\ h \in 1..n /\ n + 1 \in Nat /\ n + 1 <= n + 1
    BY <1>0, <2>1
  <2>4. \A i \in 1..n : /\ history'[i].call = history[i].call
                        /\ history'[i].verdict = history[i].verdict \/ history[i].verdict = "running"
    BY <1>0, <1>1 DEF HistoryHolds
  <2> HIDE DEF n
  <2>5. MayRepeat(h, n + 1) => MayRepeat(h, n + 1)'
    <3>1. PICK j : j = n + 1
      OBVIOUS
    <3>2. MayRepeat(h, j) => MayRepeat(h, j)'
      BY <2>3, <2>4, <3>1, RepeatHolds
    <3>3. n' = n
      BY <2>2 DEF n
    <3>4. MayRepeat(h, n + 1)' <=> MayRepeat(h, j)'
      BY <3>1, <3>3 DEF MayRepeat, OpAt
    <3> QED BY <3>1, <3>2, <3>4
  <2> QED BY <2>1, <2>5 DEF n
<1>2. ASSUME HistoryHolds, c \in Counted, key'[c] = key[c],
             history' = history \/ Calm \/ \E d \in Call : RestatedStep(d)
      PROVE  MayRepeat(h, Len(history) + 1)'
  BY <1>1, <1>2 DEF NumberInv, EarlierMayRepeat
<1>3. CASE Begun(c)
  <2>1. HistoryHolds /\ history' = history /\ ~Past(c)
    BY <1>3, <1>00, BegunIs
  <2>2. /\ h \in DOMAIN history /\ OpAt(h) = OpOf[c]
        /\ key'[history'[h].call] = key[history[h].call]
        /\ MayRepeat(h, Len(history) + 1) => MayRepeat(h, Len(history) + 1)'
    BY <1>1, <2>1
  <2>3. PICK n \in Nat : key'[c] = Attempt(OpOf[c], n) /\ (n # 0 => Repeats(OpOf[c], n))
    BY <1>3, <1>00, BeginNumbered
  <2>4. history[h].call \in Counted
    <3>1. history[h].call \in Call /\ OpOf[history[h].call] = OpOf[c] /\ Past(history[h].call)
      BY <2>2, HistoryIs DEF OpAt, Past
    <3>2. key[history[h].call] \in intents
      BY <1>00, <3>1 DEF BegunInv, BegunOnly
    <3>3. key[history[h].call] \in Effect
      BY <3>2 DEF BatchTyped, StreamTyped
    <3> QED BY <1>00, <3>1, <3>3 DEF Counted
  <2>5. /\ Num(key[history[h].call]) \in Nat
        /\ key[history[h].call] = Attempt(OpOf[c], Num(key[history[h].call]))
    <3>1. OpOf[history[h].call] = OpOf[c]
      BY <2>2 DEF OpAt
    <3> QED BY <2>4, <3>1, CountedIs DEF NumberInv, KeysAreNumbered
  <2>6. Num(key[history[h].call]) < n /\ n # 0 /\ n - 1 \in Nat
    BY <2>2, <2>3, <2>5, NumOf
  <2>7. PICK g \in EntriesOf(ledger) : g.key = Attempt(OpOf[c], n - 1)
    BY <2>3, <2>6 DEF Repeats, KeysOf
  <2>8. g.key.op = OpOf[c] /\ Num(g.key) = n - 1
    BY <2>6, <2>7, NumOf
  <2>9. g.call \in Counted /\ OpOf[g.call] = OpOf[c] /\ key[g.call] = g.key
    BY <1>00, <2>8, EntryIsCounted DEF Ledgers
  <2>10. CASE Num(key[history[h].call]) < n - 1
    BY <2>2, <2>8, <2>9, <2>10 DEF NumberInv, EarlierMayRepeat
  <2>11. CASE Num(key[history[h].call]) = n - 1
    <3>1. key[history[h].call] = Attempt(OpOf[c], n - 1) /\ n \in Nat \ {0} /\ OpOf[c] \in Op
      BY <1>00, <2>5, <2>6, <2>11
    <3>2. Repeats(OpOf[c], n)
      BY <2>3, <2>6
    <3> QED BY <1>00, <2>2, <3>1, <3>2, RepeatsMay
  <2> QED BY <2>5, <2>6, <2>10, <2>11
<1>4. ASSUME NEW d \in Call, Starts(d) PROVE MayRepeat(h, Len(history) + 1)'
  <2>1. PICK n \in Nat \ {0} :
             /\ DOMAIN history = 1..n - 1 /\ DOMAIN history' = 1..n /\ Len(history) = n - 1 /\ Len(history') = n
             /\ history'[n].call = d /\ history'[n].verdict = "running"
             /\ \A i \in 1..n - 1 : history'[i] = history[i]
             /\ \A i \in 1..n - 1 : \A k : Made(i, k)' <=> Made(i, k)
             /\ \A k : Made(n, k)' <=> IsEffect(OpOf[d]) /\ key[d] = k
    BY <1>4, MadeStarts
  <2>2. UNCHANGED key /\ d \in wave /\ stage[d] = "invoke" /\ c \in Counted
    BY <1>4 DEF Starts, Counted
  <2>3. CASE h = n
    <3>1. OpOf[d] = OpOf[c] /\ Num(key[d]) < Num(key[c])
      BY <2>1, <2>2, <2>3 DEF OpAt
    <3>2. key[d] \in Effect
      BY <1>00, <2>2, <3>1 DEF BatchTyped, CallsKnown, CallKnown, Holding, Place
    <3>3. d \in Counted
      BY <1>00, <3>1, <3>2 DEF Counted
    <3>4. Num(key[c]) <= Num(key[d])
      BY <2>2, <3>1, <3>3 DEF NumberInv, Newest, Making, Above
    <3>5. Num(key[c]) \in Nat /\ Num(key[d]) \in Nat
      BY <2>2, <3>3, CountedIs
    <3> QED BY <3>1, <3>4, <3>5
  <2>4. CASE h # n
    <3>1. h \in 1..n - 1 /\ h \in DOMAIN history /\ OpAt(h) = OpOf[c] /\ Num(key[history[h].call]) < Num(key[c])
      BY <2>1, <2>2, <2>4 DEF OpAt
    <3>2. MayRepeat(h, n)
      <4>1. MayRepeat(h, Len(history) + 1)
        BY <2>2, <3>1 DEF NumberInv, EarlierMayRepeat
      <4>2. Len(history) + 1 = n
        BY <2>1
      <4> QED BY <4>1, <4>2
    <3>3. /\ n - 1 \in Nat /\ h \in 1..n - 1 /\ n \in Nat /\ n <= n - 1 + 1 /\ n + 1 \in Nat /\ n <= n + 1
          /\ \A i \in 1..n - 1 : history'[i].call = history[i].call /\ history'[i].verdict = history[i].verdict
      BY <2>1, <3>1
    <3>4. PICK j : j = n + 1
      OBVIOUS
    <3>5. MayRepeat(h, j)'
      BY <3>2, <3>3, <3>4, RepeatHolds
    <3> QED BY <2>1, <3>4, <3>5
  <2> QED BY <2>3, <2>4
<1>5. ASSUME ~(\E d \in Call : Starts(d))
      PROVE  HistoryHolds /\ (history' = history \/ Calm \/ \E d \in Call : RestatedStep(d))
  <2>1. CASE Calm
    BY <2>1, CalmIs
  <2>2. ASSUME NEW d \in Call, Begun(d) PROVE HistoryHolds /\ history' = history
    BY <2>2, BegunIs
  <2>3. ASSUME NEW d \in Call, RecordStep(d) \/ RestatedStep(d) PROVE HistoryHolds /\ history' = history
    BY <2>3, HistoryMoves DEF RecordStep, RestatedStep
  <2> QED BY <1>5, <2>1, <2>2, <2>3, NumberKinds
<1>6. Begun(c) \/ (c \in Counted /\ key'[c] = key[c])
  BY CountedMoves, <1>00
<1> QED BY <1>2, <1>3, <1>4, <1>5, <1>6

\* A shell command that is admitted has no open entry, and those that began are settled.
LEMMA ShellBegins ==
    ASSUME BaseInv, NumberInv, NEW c \in Call, Begun(c), OpOf[c] \in Shell,
           NEW h \in DOMAIN history, OpAt(h) = OpOf[c]
    PROVE  Settles(h)
<1> DEFINE o == OpOf[c]
<1> USE DEF BaseInv, BatchInv
<1>1. PICK b \in Effect : b.op = o /\ Admission(c, b) # Unset
  BY BeginHasOp DEF Begun, CallsInv
<1>2. IsEffect(o)
  BY DEF Begun
<1> HIDE DEF o
<1>3. ASSUME OpenFor(ledger, o) PROVE FALSE
  <2>1. PICK e \in EntriesOf(ledger) : e.key.op = o /\ e.status \in {"in_progress", "unknown"}
    BY <1>3 DEF OpenFor
  <2>2. e \in Entries
    BY DEF Entries, Range, EntriesOf
  <2>3. Admission(c, b) = Unset
    <3> DEFINE same == {x \in Entries : x.key.op = b.op}
    <3>1. e \in same /\ same # {}
      BY <1>1, <2>1, <2>2
    <3>2. b.op \in Shell
      BY <1>1 DEF o
    <3>3. \E x \in same : x.call = c \/ x.status \in {"in_progress", "unknown"}
      BY <2>1, <3>1
    <3> HIDE DEF same
    <3>4. ~(b.op \notin Shell \/ same = {})
      BY <3>1, <3>2
    <3> QED BY <3>3, <3>4 DEF Admission, same
  <2> QED BY <1>1, <2>3
<1>4. Settles(h) \/ \A l \in Ledgers : OpenFor(l, o)
  BY <1>2 DEF NumberInv, ShellIsBlocked, o
<1> QED BY <1>3, <1>4 DEF Ledgers

LEMMA SettlesStays ==
    ASSUME HistoryHolds, NEW h \in DOMAIN history
    PROVE  OpAt(h)' = OpAt(h) /\ (Settles(h) => Settles(h)')
BY DEF HistoryHolds, OpAt, Settles, Rested

LEMMA StepHolds ==
    ASSUME BaseInv, [BatchNext]_batchVars
    PROVE  \/ HistoryHolds /\ DOMAIN history' = DOMAIN history
           \/ \E c \in Call : Starts(c) /\ LedgersKept
<1>1. CASE Calm
  BY <1>1, CalmIs DEF HistoryHolds
<1>2. ASSUME NEW d \in Call, Begun(d) PROVE HistoryHolds
  BY <1>2, BegunIs
<1>3. ASSUME NEW d \in Call, RecordStep(d) \/ RestatedStep(d) PROVE HistoryHolds
  BY <1>3, HistoryMoves DEF BaseInv, BatchInv
<1> QED BY <1>1, <1>2, <1>3, NumberKinds DEF HistoryHolds

LEMMA BlockedSteps ==
    ASSUME BaseInv, OrderInv, NumberInv, [BatchNext]_batchVars
    PROVE  ShellIsBlocked'
<1> USE DEF BaseInv, BatchInv
<1> SUFFICES ASSUME NEW h \in DOMAIN history', OpAt(h)' \in Shell, IsEffect(OpAt(h)'), ~(Settles(h)'),
                    NEW l \in Ledgers'
             PROVE  OpenFor(l, OpAt(h)')
  BY DEF ShellIsBlocked, IsEffect, Writes, OpenFor
<1>1. ASSUME HistoryHolds
      PROVE  /\ h \in DOMAIN history /\ OpAt(h)' = OpAt(h) /\ ~Settles(h)
             /\ \A m \in Ledgers : OpenFor(m, OpAt(h))
  <2>1. h \in DOMAIN history
    BY <1>1 DEF HistoryHolds
  <2>2. OpAt(h)' = OpAt(h) /\ ~Settles(h)
    BY <1>1, <2>1, SettlesStays
  <2> QED BY <2>1, <2>2 DEF NumberInv, ShellIsBlocked
<1>2. CASE Calm /\ LedgersKept
  BY <1>1, <1>2, CalmIs DEF LedgersKept
<1>3. ASSUME NEW c \in Call, Begun(c), LedgersKept PROVE OpenFor(l, OpAt(h)')
  BY <1>1, <1>3, BegunIs DEF LedgersKept
<1>4. ASSUME NEW c \in Call, RecordStep(c), Recorded(c) PROVE OpenFor(l, OpAt(h)')
  <2>1. HistoryHolds
    BY <1>4, HistoryMoves
  <2>2. PICK e \in EntriesOf(ledger) : e.key.op = OpAt(h) /\ e.status \in {"in_progress", "unknown"}
    BY <1>1, <2>1 DEF OpenFor, Ledgers
  <2>3. e \in EntriesOf(ledger')
    BY <1>4, <2>2 DEF Recorded, Rested
  <2> QED BY <1>1, <1>4, <2>1, <2>2, <2>3 DEF Recorded, OpenFor
<1>5. ASSUME NEW c \in Call, RestatedStep(c), NEW s \in Status, NEW l0 \in Ledgers, RestatedAs(c, s, l0)
      PROVE  OpenFor(l, OpAt(h)')
  <2>1. HistoryHolds
    BY <1>5, HistoryMoves
  <2>2. /\ h \in DOMAIN history /\ OpAt(h)' = OpAt(h) /\ ~Settles(h)
        /\ \A m \in Ledgers : OpenFor(m, OpAt(h))
    BY <1>1, <2>1
  <2>3. CASE l \in Ledgers
    BY <2>2, <2>3
  <2>4. CASE l = ledger'
    <3>1. PICK d \in EntriesOf(l0) : d.key.op = OpAt(h) /\ d.status \in {"in_progress", "unknown"}
      BY <2>2 DEF OpenFor
    <3>2. PICK e \in EntriesOf(ledger') : Copies(c, s, e, d)
      BY <1>5 DEF RestatedAs
    <3>3. CASE d.key # key[c]
      BY <2>2, <2>4, <3>1, <3>2, <3>3 DEF Copies, OpenFor
    <3>4. CASE d.key = key[c] /\ s \in {"in_progress", "unknown"}
      BY <2>2, <2>4, <3>1, <3>2, <3>4 DEF Copies, OpenFor
    <3>5. CASE d.key = key[c] /\ s \in Final
      <4>1. stage[c] = "confirm" /\ s = verdict[c] /\ c \in Makers /\ OpOf[c] = OpAt(h)
        BY <1>5, <3>1, <3>5, MakerIsBusy DEF RestatedAs
      <4>2. s \in Rested
        BY <3>5, <4>1 DEF NumberInv, NoneCancelled, Final, Rested
      <4>3. Settles(h)
        <5>1. CASE history[h].call = c
          BY <2>2, <4>1, <4>2, <5>1 DEF CallsInv, Verdicts, Settles
        <5>2. CASE history[h].call # c
          <6>1. OpOf[c] \in Shell
            BY <2>2, <4>1
          <6> QED BY <2>2, <4>1, <5>2, <6>1 DEF NumberInv, ShellSettles, Making
        <5> QED BY <5>1, <5>2
      <4> QED BY <2>2, <4>3
    <3> QED BY <3>3, <3>4, <3>5 DEF Status, Final
  <2> QED BY <1>5, <2>3, <2>4 DEF RestatedAs
<1>6. ASSUME NEW c \in Call, Starts(c), LedgersKept PROVE OpenFor(l, OpAt(h)')
  <2>1. PICK n \in Nat \ {0} :
             /\ DOMAIN history = 1..n - 1 /\ DOMAIN history' = 1..n /\ Len(history) = n - 1 /\ Len(history') = n
             /\ history'[n].call = c /\ history'[n].verdict = "running"
             /\ \A i \in 1..n - 1 : history'[i] = history[i]
             /\ \A i \in 1..n - 1 : \A k : Made(i, k)' <=> Made(i, k)
             /\ \A k : Made(n, k)' <=> IsEffect(OpOf[c]) /\ key[c] = k
    BY <1>6, MadeStarts
  <2>2. l \in Ledgers
    BY <1>6 DEF LedgersKept
  <2>3. CASE h # n
    <3>1. h \in DOMAIN history /\ OpAt(h)' = OpAt(h) /\ ~Settles(h)
      BY <2>1, <2>3 DEF OpAt, Settles
    <3> QED BY <2>2, <3>1 DEF NumberInv, ShellIsBlocked
  <2>4. CASE h = n
    <3>1. OpAt(h)' = OpOf[c] /\ stage[c] = "invoke" /\ c \in wave
      BY <1>6, <2>1, <2>4 DEF OpAt, Starts
    <3>2. c \in Makers /\ c \notin shared
      BY <3>1 DEF Makers, OrderInv, ExclusiveAlone
    <3>3. PICK e \in EntriesOf(ledger) : e.key = key[c]
      BY <3>1, <3>2 DEF LedgerInv, AloneHas, Making, KeysOf
    <3>4. e.status \notin Final
      BY <3>1, <3>2, <3>3 DEF OrderInv, MadeIsOpen, Ledgers, Making
    <3>5. e.status \in Status
      BY <3>3, EntryHasOp DEF Ledgers, Entry
    <3>6. key[c] \in Effect /\ key[c] # Unset
      BY <3>1, <3>2 DEF BatchTyped, CallsKnown, CallKnown, Makers, Holding, Place
    <3>7. e.key.op = OpOf[c]
      BY <3>2, <3>3, <3>6 DEF CallsInv, KeysHaveOps
    <3>8. OpenFor(ledger, OpOf[c])
      BY <3>3, <3>4, <3>5, <3>7 DEF OpenFor, Status, Final
    <3>9. l = ledger
      <4> SUFFICES ASSUME NEW d \in Call, stage[d] = "confirm" PROVE FALSE
        BY <2>2 DEF Ledgers
      <4>1. d \in wave /\ d # c
        BY <3>1 DEF ScheduleInv, InWave
      <4> QED BY <3>1, <3>2, <4>1 DEF LedgerInv, AloneIs
    <3> QED BY <3>1, <3>8, <3>9
  <2> QED BY <2>3, <2>4
<1> QED BY <1>2, <1>3, <1>4, <1>5, <1>6, NumberKinds

LEMMA ShellSteps ==
    ASSUME BaseInv, NumberInv, [BatchNext]_batchVars
    PROVE  ShellSettles'
<1> USE DEF BaseInv, BatchInv
<1> SUFFICES ASSUME NEW c \in Makers, OpOf[c] \in Shell,
                    stage'[c] \in Awaiting \cup {"intent", "settle"} \cup Making,
                    NEW h \in DOMAIN history', OpAt(h)' = OpOf[c], history'[h].call # c
             PROVE  Settles(h)'
  BY DEF ShellSettles, Makers
<1>0. c \in Call
  BY DEF Makers
<1>1. Begun(c) \/ stage[c] \in Awaiting \cup {"intent", "settle"} \cup Making
  BY StagesMove DEF Making
<1>2. ASSUME NEW i \in DOMAIN history, OpAt(i) = OpOf[c], history[i].call # c PROVE Settles(i)
  BY <1>0, <1>1, <1>2, ShellBegins DEF NumberInv, ShellSettles
<1>3. CASE HistoryHolds
  BY <1>2, <1>3, SettlesStays DEF HistoryHolds
<1>4. ASSUME NEW x \in Call, Starts(x) PROVE Settles(h)'
  <2>1. PICK n \in Nat \ {0} :
             /\ DOMAIN history = 1..n - 1 /\ DOMAIN history' = 1..n /\ Len(history) = n - 1 /\ Len(history') = n
             /\ history'[n].call = x /\ history'[n].verdict = "running"
             /\ \A i \in 1..n - 1 : history'[i] = history[i]
             /\ \A i \in 1..n - 1 : \A k : Made(i, k)' <=> Made(i, k)
             /\ \A k : Made(n, k)' <=> IsEffect(OpOf[x]) /\ key[x] = k
    BY <1>4, MadeStarts
  <2>2. CASE h = n
    <3>1. OpOf[x] = OpOf[c] /\ x # c /\ x \in wave
      BY <1>4, <2>1, <2>2 DEF OpAt, Starts
    <3>2. c \in wave
      <4>1. Begun(c) => c \in wave
        BY <1>0, BegunIs
      <4> QED BY <1>0, <1>1, <4>1 DEF ScheduleInv, InWave, Awaiting, Making
    <3>3. Guarded(OpOf[c])
      BY DEF Guarded, Makers
    <3> QED BY <3>1, <3>2, <3>3, GuardedAlone
  <2>3. CASE h # n
    <3>1. h \in DOMAIN history /\ history'[h] = history[h]
      BY <2>1, <2>3
    <3>2. OpAt(h) = OpOf[c] /\ history[h].call # c
      BY <3>1 DEF OpAt
    <3> QED BY <1>2, <3>1, <3>2 DEF Settles
  <2> QED BY <2>2, <2>3
<1> QED BY <1>3, <1>4, StepHolds

LEMMA NumberSteps ==
    ASSUME BaseInv, OrderInv, NumberInv, ~aborted, [BatchNext]_batchVars
    PROVE  NumberInv'
BY CancelledSteps, NumberedSteps, AgainSteps, BackSteps, LostSteps, EvictsSteps, RiseSteps, NewestSteps,
   CoveredSteps, EarlierSteps, BlockedSteps, ShellSteps DEF NumberInv

\* What begins may be a repetition of what has begun.
LEMMA StartMay ==
    ASSUME BaseInv, NumberInv, NEW c \in Call, Starts(c), Guarded(OpOf[c]),
           NEW i \in DOMAIN history, OpAt(i) = OpOf[c]
    PROVE  MayRepeat(i, Len(history) + 1)
<1> USE DEF BaseInv, BatchInv
<1> DEFINE q == history[i].call
<1>1. q \in Call /\ OpOf[q] = OpOf[c] /\ Past(q)
  BY HistoryIs DEF OpAt, Past
<1>2. ~Past(c) /\ IsEffect(OpOf[c]) /\ stage[c] = "invoke"
  BY PastStarts DEF Starts, Guarded
<1> HIDE DEF q
<1>3. CASE OpOf[c] \in Shell
  <2>1. Settles(i)
    BY <1>1, <1>2, <1>3 DEF NumberInv, ShellSettles, Makers, Making, q
  <2> QED BY <1>3, <2>1 DEF MayRepeat, Settles, Rested
<1>4. CASE OpOf[c] \notin Shell
  <2>1. Numbered(OpOf[c])
    BY <1>4 DEF Numbered
  <2>2. key[c] \in Effect /\ key[q] \in Effect
    <3>1. key[c] \in Effect
      BY <1>2 DEF BatchTyped, CallsKnown, CallKnown, Holding, Place
    <3>2. key[q] \in intents
      BY <1>1, <1>2 DEF BegunInv, BegunOnly
    <3> QED BY <3>1, <3>2 DEF BatchTyped, StreamTyped
  <2>3. c \in Counted /\ q \in Counted
    BY <1>1, <2>1, <2>2 DEF Counted
  <2>4. Num(key[q]) <= Num(key[c])
    BY <1>1, <1>2, <2>3 DEF NumberInv, Newest, Making, Above
  <2>5. key[q] # key[c]
    BY <1>1, <1>2 DEF BegunInv, NewOnes
  <2>6. Num(key[q]) # Num(key[c])
    BY <1>1, <2>3, <2>5 DEF NumberInv, KeysAreNumbered
  <2>7. Num(key[q]) \in Nat /\ Num(key[c]) \in Nat
    BY <2>3, CountedIs
  <2>8. Num(key[q]) < Num(key[c])
    BY <2>4, <2>6, <2>7
  <2> QED BY <2>3, <2>8 DEF NumberInv, EarlierMayRepeat, q
<1> QED BY <1>3, <1>4

LEMMA ReplaySteps ==
    ASSUME BaseInv, ~aborted => NumberInv, NoReplay, [BatchNext]_batchVars
    PROVE  NoReplay'
<1> USE DEF BaseInv, BatchInv
<1> SUFFICES ASSUME NEW o \in Op, Guarded(o), NEW i \in DOMAIN history', NEW j \in DOMAIN history',
                    i < j, OpAt(i)' = o, OpAt(j)' = o
             PROVE  MayRepeat(i, j)'
  BY DEF NoReplay, NotReplayed, Guarded
<1>0. DOMAIN history = 1..Len(history) /\ Len(history) \in Nat
  BY DEF BatchTyped, WorkTyped
<1>1. ASSUME NEW a \in DOMAIN history, NEW b \in DOMAIN history, a < b, OpAt(a) = o, OpAt(b) = o
      PROVE  MayRepeat(a, b)
  BY <1>1 DEF NoReplay, NotReplayed, Guarded
<1>2. ASSUME HistoryHolds PROVE MayRepeat(i, j)'
  <2>1. i \in DOMAIN history /\ j \in DOMAIN history /\ OpAt(i) = o /\ OpAt(j) = o
    BY <1>2 DEF HistoryHolds, OpAt
  <2>2. MayRepeat(i, j)
    BY <1>1, <2>1
  <2>3. PICK n \in Nat : n = Len(history) /\ DOMAIN history = 1..n
    BY <1>0, Zenon
  <2>4. i \in 1..n /\ j \in Nat /\ j <= n + 1 /\ j <= j
    BY <2>1, <2>3
  <2>5. \A h \in 1..n : /\ history'[h].call = history[h].call
                        /\ history'[h].verdict = history[h].verdict \/ history[h].verdict = "running"
    BY <1>2, <2>3 DEF HistoryHolds
  <2> QED BY <2>2, <2>4, <2>5, RepeatHolds, ZenonT(30)
<1>3. ASSUME NEW c \in Call, Starts(c) PROVE MayRepeat(i, j)'
  <2>1. PICK n \in Nat \ {0} :
             /\ DOMAIN history = 1..n - 1 /\ DOMAIN history' = 1..n /\ Len(history) = n - 1 /\ Len(history') = n
             /\ history'[n].call = c /\ history'[n].verdict = "running"
             /\ \A h \in 1..n - 1 : history'[h] = history[h]
             /\ \A h \in 1..n - 1 : \A k : Made(h, k)' <=> Made(h, k)
             /\ \A k : Made(n, k)' <=> IsEffect(OpOf[c]) /\ key[c] = k
    BY <1>3, MadeStarts
  <2>2. i \in 1..n - 1 /\ i \in DOMAIN history /\ OpAt(i) = o /\ (j \in 1..n - 1 \/ j = n)
    BY <2>1 DEF OpAt
  <2>3. MayRepeat(i, j)
    <3>1. CASE j \in 1..n - 1
      <4>1. j \in DOMAIN history /\ OpAt(j) = o
        BY <2>1, <3>1 DEF OpAt
      <4> QED BY <1>1, <2>2, <4>1
    <3>2. CASE j = n
      <4>1. OpOf[c] = o /\ ~aborted
        BY <1>3, <2>1, <3>2 DEF OpAt, Starts
      <4>2. MayRepeat(i, Len(history) + 1)
        BY <1>3, <2>2, <4>1, StartMay
      <4>3. Len(history) + 1 = j
        BY <2>1, <3>2
      <4> QED BY <4>2, <4>3
    <3> QED BY <2>2, <3>1, <3>2
  <2>4. /\ n - 1 \in Nat /\ j \in Nat /\ j <= n - 1 + 1 /\ j <= j
        /\ \A h \in 1..n - 1 : history'[h].call = history[h].call /\ history'[h].verdict = history[h].verdict
    BY <2>1, <2>2
  <2>5. PICK m \in Nat : m = n - 1
    BY <2>4
  <2> QED BY <2>2, <2>3, <2>4, <2>5, RepeatHolds
<1> QED BY <1>2, <1>3, StepHolds

LEMMA ReplayHolds == BatchSpec => []ReplayInv
<1>1. ToolInit => ReplayInv
  BY InitBatchTyped, InitSchedule, InitMaker, InitBegun, InitLedger, InitCalls, InitOrder, InitReplay
     DEF ReplayInv, BaseInv, BatchInv
<1>2. ReplayInv /\ [BatchNext]_batchVars => ReplayInv'
  <2> SUFFICES ASSUME ReplayInv, [BatchNext]_batchVars PROVE ReplayInv'
    OBVIOUS
  <2> USE DEF ReplayInv
  <2>1. BatchInv'
    BY StepBatchTyped, StepSchedule, StepMaker, StepBegun DEF BaseInv, BatchInv
  <2>2. LedgerInv'
    BY StepLedger DEF BaseInv, BatchInv
  <2>3. CallsInv'
    BY CallsSteps DEF BaseInv, BatchInv
  <2>4. OrderInv'
    BY OrderInvSteps
  <2>5. ~aborted' => NumberInv'
    BY AbortedStays, NumberSteps
  <2>6. NoReplay'
    BY ReplaySteps
  <2> QED BY <2>1, <2>2, <2>3, <2>4, <2>5, <2>6 DEF BaseInv
<1> QED BY <1>1, <1>2, PTL DEF BatchSpec

\* No operation that may have had an effect is run again, in a batch of whatever
\* calls and with whatever room in the ledger (executeBatch, beginSideEffect).
THEOREM NothingReplayed == BatchSpec => []NoReplay
<1>1. ReplayInv => NoReplay
  BY DEF ReplayInv
<1> QED BY <1>1, ReplayHolds, PTL
=============================================================================
