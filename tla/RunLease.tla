------------------------------ MODULE RunLease ------------------------------
(***************************************************************************)
(* Who may write a run: the lease of a durable run, the heartbeat that     *)
(* keeps it, the worker that runs under it and the recovery pass of a      *)
(* starting process that takes over what a dead one left behind.           *)
(*                                                                         *)
(* A process is a process id: one that died does not come back.  Every     *)
(* operation of the lease store is one step, made under its file lock      *)
(* (FileLock).  Leases have one length, so they expire in the order they   *)
(* were granted: a deadline is the number of its grant, and time is the    *)
(* last deadline that has passed.                                          *)
(***************************************************************************)
EXTENDS Naturals

CONSTANTS
    Process,
    Run,
    FaultKind,      \* subset of {"renew", "release", "append", "recover"}
    MaxGrants,      \* bound on acquisitions and renewals together
    LastRenewal,    \* the last of them that may be a renewal
    MaxFaults,
    MaxCrashes,
    None

ASSUME LeaseAssumption == None \notin Process \cup Run /\ None \notin Nat
ASSUME LeaseBounds ==
    {MaxGrants, LastRenewal, MaxFaults, MaxCrashes} \subseteq Nat /\ LastRenewal <= MaxGrants

VARIABLES
    proc,       \* proc[p]: "new", "up" or "dead"
    stream,     \* stream[r]: "none", "open", or "ended" by a terminal event
    safe,       \* runs with a checkpoint at a safe segment boundary
    lease,      \* lease[r]: the lease file
    work,       \* work[p][r]: the worker of run r in process p
    pass,       \* pass[p][k]: the recovery pass k of process p
    timer,      \* timer[p]: the deadline of p's wake-up, or None
    grants,     \* deadlines granted
    passed,     \* deadlines passed
    faults, crashes

leaseVars == <<proc, stream, safe, lease, work, pass, timer, grants, passed, faults, crashes>>
bounds == <<faults, crashes>>

-----------------------------------------------------------------------------
Deadline == 0..MaxGrants
NoLease == [status |-> "none", owner |-> None, token |-> 0, until |-> 0]
Released == [NoLease EXCEPT !.status = "released"]
Lease ==
    {NoLease, Released}
        \cup [status : {"active"}, owner : Process, token : Deadline, until : Deadline]

\* "accepted": run_accepted is stored, no lease yet; "working": leased, with a
\* heartbeat; "lost": the heartbeat gave up and interrupted the run; "failing":
\* an early end; "leaving": about to release; "leaked": it ended without releasing.
WorkPhase == {"idle", "accepted", "working", "lost", "failing", "leaving", "leaked"}
Idle == [at |-> "idle", token |-> 0]

Pass == {"queue", "events"}
PassPhase ==
    {"off", "list", "filter", "next", "segment", "recheck", "run", "decline",
     "acquire", "recover", "release", "refused"}
NoPass == [at |-> "off", todo |-> {}, run |-> None, token |-> 0]

-----------------------------------------------------------------------------
(* The lease store                                                         *)

Alive(p) == proc[p] = "up"
OwnerAlive_Ttl(p) == FALSE
OwnerAlive(p) == Alive(p)

Unexpired(l) == l.status = "active" /\ l.until > passed
Held(r) == lease[r].status = "active" /\ (Unexpired(lease[r]) \/ OwnerAlive(lease[r].owner))
Reclaimable(r) == lease[r].status = "active" /\ ~Held(r)

\* acquire, when it does not conflict.
Grant(p, r) ==
    /\ grants < MaxGrants /\ grants' = grants + 1
    /\ lease' = [lease EXCEPT ![r] =
            [status |-> "active", owner |-> p, token |-> grants + 1, until |-> grants + 1]]

Owns(p, r, token) == lease[r].status = "active" /\ lease[r].token = token

\* release: a lease that is released already stays so; another's is refused.
Release_InTime(p, r, token) ==
    lease' = IF Owns(p, r, token) /\ Unexpired(lease[r]) THEN [lease EXCEPT ![r] = Released] ELSE lease
Release(p, r, token) ==
    lease' = IF Owns(p, r, token) THEN [lease EXCEPT ![r] = Released] ELSE lease

Fault(k) == k \in FaultKind /\ faults < MaxFaults /\ faults' = faults + 1

-----------------------------------------------------------------------------
LeaseInit ==
    /\ proc = [p \in Process |-> "new"]
    /\ stream = [r \in Run |-> "none"] /\ safe = {}
    /\ lease = [r \in Run |-> NoLease]
    /\ work = [p \in Process |-> [r \in Run |-> Idle]]
    /\ pass = [p \in Process |-> [k \in Pass |-> NoPass]]
    /\ timer = [p \in Process |-> None]
    /\ grants = 0 /\ passed = 0 /\ faults = 0 /\ crashes = 0

-----------------------------------------------------------------------------
(* The worker: executeRun                                                  *)

Worker(p, r, from, to) ==
    /\ work[p][r].at \in from
    /\ work' = [work EXCEPT ![p][r].at = to]

\* A new run: its run_accepted event is stored before it has a lease.
Accept(p, r) ==
    /\ Alive(p) /\ stream[r] = "none"
    /\ Worker(p, r, {"idle"}, "accepted")
    /\ stream' = [stream EXCEPT ![r] = "open"]
    /\ UNCHANGED <<proc, safe, lease, pass, timer, grants, passed, bounds>>

Own(p, r) ==
    /\ work[p][r].at = "accepted"
    /\ IF Held(r)
       THEN /\ work' = [work EXCEPT ![p][r].at = "failing"]
            /\ UNCHANGED <<lease, grants>>
       ELSE /\ Grant(p, r)
            /\ work' = [work EXCEPT ![p][r] = [at |-> "working", token |-> grants + 1]]
    /\ UNCHANGED <<proc, stream, safe, pass, timer, passed, bounds>>

\* A checkpoint at a boundary from which another process may go on.
Boundary(p, r) ==
    /\ work[p][r].at = "working" /\ stream[r] = "open" /\ r \notin safe
    /\ safe' = safe \cup {r}
    /\ UNCHANGED <<proc, stream, lease, work, pass, timer, grants, passed, bounds>>

\* DurableRunLeaseHeartbeat.renew, by its timer or before an effect; a lease that
\* has expired and nobody took is renewed as well.
Renew(p, r) ==
    /\ work[p][r].at \in {"working", "failing", "leaked"}
    /\ Owns(p, r, work[p][r].token)
    /\ grants < LastRenewal /\ grants' = grants + 1
    /\ lease' = [lease EXCEPT ![r].until = grants + 1]
    /\ UNCHANGED <<proc, stream, safe, work, pass, timer, passed, bounds>>

\* A renewal that fails ends the heartbeat and interrupts the run.
RenewFails(p, r) ==
    /\ work[p][r].at \in {"working", "failing", "leaked"} /\ work[p][r].token # 0
    /\ \/ ~Owns(p, r, work[p][r].token) /\ UNCHANGED faults
       \/ Owns(p, r, work[p][r].token) /\ Fault("renew")
    /\ work' = [work EXCEPT ![p][r] =
          [at |-> IF work[p][r].at = "working" THEN "lost" ELSE work[p][r].at, token |-> 0]]
    /\ UNCHANGED <<proc, stream, safe, lease, pass, timer, grants, passed, crashes>>

\* The coordinator records the outcome; a failing append is logged only.
Finish(p, r) ==
    /\ Worker(p, r, {"working", "lost"}, "leaving")
    /\ \/ stream' = [stream EXCEPT ![r] = "ended"] /\ UNCHANGED faults
       \/ Fault("append") /\ UNCHANGED stream
    /\ UNCHANGED <<proc, safe, lease, pass, timer, grants, passed, crashes>>

\* The run throws before the coordinator has a result.
Throw(p, r) ==
    /\ Worker(p, r, {"working", "lost"}, "failing")
    /\ UNCHANGED <<proc, stream, safe, lease, pass, timer, grants, passed, bounds>>

\* The finally block records the outcome; when this append throws, the rest of
\* the block is skipped, the release with it.
FinishEarly(p, r) ==
    /\ \/ /\ Worker(p, r, {"failing"}, "leaving")
          /\ stream' = [stream EXCEPT ![r] = "ended"] /\ UNCHANGED faults
       \/ /\ Worker(p, r, {"failing"}, "leaked")
          /\ Fault("append") /\ UNCHANGED stream
    /\ UNCHANGED <<proc, safe, lease, pass, timer, grants, passed, crashes>>

\* DurableRunOwnership.release; a run that never owned its lease, or whose
\* heartbeat gave up, has nothing to release.
Leave(p, r) ==
    /\ work[p][r].at = "leaving"
    /\ \/ Release(p, r, work[p][r].token) /\ UNCHANGED faults
       \/ Fault("release") /\ UNCHANGED lease
    /\ work' = [work EXCEPT ![p][r] = Idle]
    /\ UNCHANGED <<proc, stream, safe, pass, timer, grants, passed, crashes>>

-----------------------------------------------------------------------------
(* The recovery pass: DeferredRunRecovery and recoverDurableRun            *)

At(p, k, from) == pass[p][k].at \in from
Put(p, k, s) == pass' = [pass EXCEPT ![p][k] = s]
Goto(p, k, to) == Put(p, k, [pass[p][k] EXCEPT !.at = to])
GoOn(p, k) == Put(p, k, [pass[p][k] EXCEPT !.at = "next", !.run = None])

\* The process starts; its queue pass begins.
Boot(p) ==
    /\ proc[p] = "new"
    /\ proc' = [proc EXCEPT ![p] = "up"]
    /\ Goto(p, "queue", "list")
    /\ UNCHANGED <<stream, safe, lease, work, timer, grants, passed, bounds>>

\* Leases whose owner is dead are the work of the queue pass; the compatibility
\* pass takes every stored run but those with a lease that is held now.
List(p, k) ==
    /\ At(p, k, {"list"})
    /\ IF k = "queue"
       THEN Put(p, k, [pass[p][k] EXCEPT !.at = "next", !.todo = {r \in Run : Reclaimable(r)}])
       ELSE Put(p, k, [pass[p][k] EXCEPT !.at = "filter", !.todo = {r \in Run : ~Held(r)}])
    /\ UNCHANGED <<proc, stream, safe, lease, work, timer, grants, passed, bounds>>

Filter(p) ==
    /\ At(p, "events", {"filter"})
    /\ LET stored == {r \in pass[p]["events"].todo : stream[r] # "none"} IN
       Put(p, "events", [pass[p]["events"] EXCEPT !.at = "next", !.todo = stored])
    /\ UNCHANGED <<proc, stream, safe, lease, work, timer, grants, passed, bounds>>

\* One run after the other; the compatibility pass skips a run with a lease.
\* recoverSameRunSegment asks first whether the run can go on.
Eligible(r) == r \in safe /\ stream[r] = "open"

Skips(r) == lease[r].status # "none"

PickRun(p, k) ==
    /\ At(p, k, {"next"})
    /\ \E r \in pass[p][k].todo :
          LET rest == pass[p][k].todo \ {r} IN
          IF k = "events" /\ Skips(r)
          THEN Put(p, k, [pass[p][k] EXCEPT !.todo = rest])
          ELSE Put(p, k, [pass[p][k] EXCEPT !.todo = rest, !.run = r,
                                            !.at = IF Eligible(r) THEN "segment" ELSE "acquire"])
    /\ UNCHANGED <<proc, stream, safe, lease, work, timer, grants, passed, bounds>>

\* acquire, for the run itself or for the recovery of its events; a conflict
\* leaves the run to its owner.
Claim(p, k) ==
    LET r == pass[p][k].run IN
    /\ At(p, k, {"segment", "acquire"})
    /\ IF Held(r)
       THEN GoOn(p, k) /\ UNCHANGED <<lease, grants>>
       ELSE /\ Grant(p, r)
            /\ Put(p, k, [pass[p][k] EXCEPT !.token = grants + 1,
                             !.at = IF @ = "segment" THEN "recheck" ELSE "recover"])
    /\ UNCHANGED <<proc, stream, safe, work, timer, passed, bounds>>

\* Under the lease the decision is made again; the host may also decline.
Recheck(p, k) ==
    LET r == pass[p][k].run IN
    /\ At(p, k, {"recheck"})
    /\ \/ /\ Eligible(r)
          /\ work' = [work EXCEPT ![p][r] = [at |-> "working", token |-> pass[p][k].token]]
          /\ Goto(p, k, "run")
       \/ Goto(p, k, "decline") /\ UNCHANGED work
    /\ UNCHANGED <<proc, stream, safe, lease, timer, grants, passed, bounds>>

Decline(p, k) ==
    LET r == pass[p][k].run IN
    /\ At(p, k, {"decline"})
    /\ \/ Release(p, r, pass[p][k].token) /\ Goto(p, k, "acquire") /\ UNCHANGED faults
       \/ Fault("release") /\ GoOn(p, k) /\ UNCHANGED lease
    /\ UNCHANGED <<proc, stream, safe, work, timer, grants, passed, crashes>>

\* The pass waits for the run it resumed.
Resumed(p, k) ==
    /\ At(p, k, {"run"}) /\ work[p][pass[p][k].run].at \in {"idle", "leaked"}
    /\ GoOn(p, k)
    /\ UNCHANGED <<proc, stream, safe, lease, work, timer, grants, passed, bounds>>

\* kernel.recoverRun settles what is open and interrupts the run.  It is not called
\* when an effect of the run, made under an earlier lease, is itself still leased
\* (DurableRun models those leases): the run is given up.
Recover(p, k) ==
    LET r == pass[p][k].run IN
    /\ At(p, k, {"recover"})
    /\ \/ /\ Goto(p, k, "release")
          /\ \/ stream' = [stream EXCEPT ![r] = IF @ = "open" THEN "ended" ELSE @]
                /\ UNCHANGED faults
             \/ Fault("recover") /\ UNCHANGED stream
       \/ /\ stream[r] = "open" /\ pass[p][k].token > 1
          /\ Goto(p, k, "refused")
          /\ UNCHANGED <<stream, faults>>
    /\ UNCHANGED <<proc, safe, lease, work, timer, grants, passed, crashes>>

ReleaseRecovered(p, k) ==
    LET r == pass[p][k].run IN
    /\ At(p, k, {"release", "refused"})
    /\ \/ Release(p, r, pass[p][k].token) /\ UNCHANGED faults
       \/ Fault("release") /\ UNCHANGED lease
    /\ GoOn(p, k)
    /\ UNCHANGED <<proc, stream, safe, work, timer, grants, passed, crashes>>

\* The queue pass of the start is over: the compatibility pass begins and one
\* wake-up is armed at the first deadline to come.
ToCome == {lease[r].until : r \in {x \in Run : Unexpired(lease[x])}}
First(S) == CHOOSE n \in S : \A m \in S : n <= m

Done(p, k) ==
    /\ At(p, k, {"next"}) /\ pass[p][k].todo = {}
    /\ IF k = "queue" /\ timer[p] = None
       THEN /\ timer' = [timer EXCEPT ![p] = IF ToCome = {} THEN 0 ELSE First(ToCome)]
            /\ pass' = [pass EXCEPT ![p] =
                  [queue |-> NoPass, events |-> [NoPass EXCEPT !.at = "list"]]]
       ELSE Put(p, k, NoPass) /\ UNCHANGED timer
    /\ UNCHANGED <<proc, stream, safe, lease, work, grants, passed, bounds>>

\* The wake-up runs the queue pass once more and arms nothing.
WakeUp(p) ==
    /\ timer[p] \notin {None, 0} /\ timer[p] <= passed /\ At(p, "queue", {"off"})
    /\ timer' = [timer EXCEPT ![p] = 0]
    /\ Goto(p, "queue", "list")
    /\ UNCHANGED <<proc, stream, safe, lease, work, grants, passed, bounds>>

-----------------------------------------------------------------------------
(* The environment                                                         *)

TimePasses ==
    /\ passed < grants /\ passed' = passed + 1
    /\ UNCHANGED <<proc, stream, safe, lease, work, pass, timer, grants, bounds>>

Crash(p) ==
    /\ Alive(p) /\ crashes < MaxCrashes
    /\ crashes' = crashes + 1
    /\ proc' = [proc EXCEPT ![p] = "dead"]
    /\ work' = [work EXCEPT ![p] = [r \in Run |-> Idle]]
    /\ pass' = [pass EXCEPT ![p] = [k \in Pass |-> NoPass]]
    /\ timer' = [timer EXCEPT ![p] = None]
    /\ UNCHANGED <<stream, safe, lease, grants, passed, faults>>

RunStep(p, r) ==
    \/ Own(p, r) \/ Finish(p, r) \/ FinishEarly(p, r) \/ Leave(p, r)

PassStep(p, k) ==
    \/ List(p, k) \/ PickRun(p, k) \/ Claim(p, k) \/ Recheck(p, k) \/ Decline(p, k)
    \/ Resumed(p, k) \/ Recover(p, k) \/ ReleaseRecovered(p, k) \/ Done(p, k)

LeaseNext ==
    \/ TimePasses
    \/ \E p \in Process :
          \/ Boot(p) \/ Crash(p) \/ Filter(p) \/ WakeUp(p)
          \/ \E k \in Pass : PassStep(p, k)
          \/ \E r \in Run :
                \/ Accept(p, r) \/ Boundary(p, r) \/ Renew(p, r) \/ RenewFails(p, r)
                \/ Throw(p, r) \/ RunStep(p, r)

LeaseSpec == LeaseInit /\ [][LeaseNext]_leaseVars

\* Time passes, timers fire, and promise chains run on while the process lives.
LeaseFairness ==
    /\ WF_leaseVars(TimePasses)
    /\ \A p \in Process :
          /\ WF_leaseVars(Filter(p)) /\ WF_leaseVars(WakeUp(p))
          /\ \A k \in Pass : WF_leaseVars(PassStep(p, k))
          /\ \A r \in Run : WF_leaseVars(RunStep(p, r))

-----------------------------------------------------------------------------
(* Properties                                                              *)

\* Types, and: only a process that is up works, recovers or has a wake-up.
LeaseTypeOK ==
    /\ lease \in [Run -> Lease]
    /\ stream \in [Run -> {"none", "open", "ended"}] /\ safe \subseteq Run
    /\ grants \in Deadline /\ passed \in 0..grants /\ faults \in 0..MaxFaults
    /\ proc \in [Process -> {"new", "up", "dead"}]
    /\ timer \in [Process -> Deadline \cup {None}]
    /\ work \in [Process -> [Run -> [at : WorkPhase, token : Deadline]]]
    /\ pass \in [Process -> [Pass ->
          [at : PassPhase, todo : SUBSET Run, run : Run \cup {None}, token : Deadline]]]
    /\ \A p \in Process : \A k \in Pass :
          pass[p][k].at \notin {"off", "list", "filter", "next"} => pass[p][k].run # None
    /\ \A p \in Process : proc[p] # "up" =>
          /\ timer[p] = None /\ work[p] = [r \in Run |-> Idle]
          /\ pass[p] = [k \in Pass |-> NoPass]

\* The parts of process p that act as the owner of run r.
Recovers(p, k, r) ==
    pass[p][k].run = r /\ pass[p][k].at \in {"recheck", "decline", "recover", "release", "refused"}
Works(p, r) ==
    \/ work[p][r].at \in {"working", "lost"}
    \/ work[p][r].at # "idle" /\ work[p][r].token # 0
Roles(p, r) == {k \in Pass : Recovers(p, k, r)} \cup {w \in {"work"} : Works(p, r)}
Owners(r) == {p \in Process : Roles(p, r) # {}}

\* A run has one owner at a time, across processes and within one: neither a late
\* heartbeat nor an expired lease nor two recovery passes let a second one in.
OneOwner ==
    \A r \in Run : \A p, q \in Process : \A j \in Roles(p, r), k \in Roles(q, r) : p = q /\ j = k

\* The same as an abstract specification: lease, heartbeat and takeover implement
\* Ownership of runs by processes.
Abs == INSTANCE Ownership WITH Resource <- Run, owners <- [r \in Run |-> Owners(r)]
LeaseOwnership == Abs!Spec

\* As long as nothing fails, a lease that names a live process is one this process
\* is using: no path out of a run or a recovery forgets to release.
OwnerIsAtWork ==
    faults = 0 =>
        \A r \in Run :
            lease[r].status = "active" /\ Alive(lease[r].owner) => Roles(lease[r].owner, r) # {}

\* A run is never worked on by two owners, whatever fails; and while nothing does,
\* its lease is never left behind with a process that lives on.
RunIsOwned == LeaseTypeOK /\ OneOwner /\ OwnerIsAtWork

Orphan(r) == stream[r] = "open" /\ \A p \in Process : work[p][r].at = "idle"
GivenUp(r) == \E p \in Process, k \in Pass : pass[p][k].at = "refused" /\ pass[p][k].run = r

\* A run that a dead process left open is ended, or taken up and ended, by the next
\* process that starts and lives, whether or not its lease had expired by then.
OrphansAreRecovered ==
    \A p \in Process : \A r \in Run :
        (pass[p]["queue"].at = "list" /\ timer[p] = None /\ Orphan(r)) ~>
            (stream[r] = "ended" \/ proc[p] = "dead")

\* What the pass does reach: a run it has listed, and one whose deadline its wake-up
\* is armed for, unless a pass, this or another, finds an effect of it leased.
ListedOrphanIsRecovered(p, r) ==
    (/\ Orphan(r)
     /\ \/ r \in pass[p]["queue"].todo
        \/ timer[p] = lease[r].until /\ lease[r].status = "active") ~>
        (stream[r] = "ended" \/ proc[p] = "dead" \/ GivenUp(r))

\* Recovery leaves the runs alone that a live process has accepted: "the lease check
\* inside `recover` keeps this pass from re-driving a live run".
LiveRunsNotRedriven ==
    [][\A p \in Process : \A r \in Run :
          /\ work[p][r].at \in {"accepted", "working"}
          /\ stream[r] = "open" /\ stream'[r] = "ended"
          => work'[p][r] # work[p][r]]_leaseVars
=============================================================================
