---------------------------- MODULE DurableInbox ----------------------------
(***************************************************************************)
(* Durable ingress: commands are stored in the inbox, claimed under a      *)
(* lease, materialised as events of a run's stream and settled.            *)
(*                                                                         *)
(* Several callers of several processes do this at once.  A process reads  *)
(* the inbox through a cache.  A public operation of the store runs under  *)
(* the inbox lock, unless its process has a batch open: then it runs at    *)
(* once, whoever opened the batch, and keeps running when the batch ends.  *)
(* The lock itself is a mutual exclusion (FileLock), and the append is the *)
(* kernel's, idempotent by the command's identity (DurableAppend).         *)
(***************************************************************************)
EXTENDS Naturals, FiniteSets

CONSTANTS
    Process,        \* processes that share the inbox
    Caller,         \* concurrent users of the stores
    proc,           \* proc[c]: the process of caller c
    Command,        \* commands, each with one identity and content
    Illegal,        \* commands whose event the kernel always refuses
    MaxClaims,      \* bound on the claims ever made
    MaxCalls,       \* bound on the calls of one caller
    MaxCrashes,     \* bound on process crashes
    MaxFaults,      \* bound on failing appends and writes
    None

Status == {"absent", "queued", "claimed", "completed", "failed"}
Token == 0..MaxClaims               \* 0 is no token
Stored == [status : Status, token : Token]

ProcessAssumption ==
    /\ proc \in [Caller -> Process]
    /\ Illegal \subseteq Command
    /\ None \notin Caller \cup Process \cup [Command -> Stored]
InboxBounds == {MaxClaims, MaxCalls, MaxCrashes, MaxFaults} \subseteq Nat
ASSUME InboxConstants == ProcessAssumption /\ InboxBounds

VARIABLES
    file,       \* file[i]: the stored command
    stream,     \* commands whose event is stored
    lock,       \* the caller that holds the inbox lock
    batch,      \* batch[p]: the caller whose batch is open in process p
    cache,      \* cache[p]: the commands process p has in memory, or None
    deferred,   \* deferred[p]: terminal commands p has seen but not read
    op,         \* op[c]: where caller c is and what it has read
    claims,     \* number of claims so far; claim tokens are numbers
    expired,    \* tokens of claims whose lease has ended
    acked,      \* commands some caller was told are materialised
    calls, crashes, faults

inboxVars == <<file, stream, lock, batch, cache, deferred, op, claims, expired, acked,
               calls, crashes, faults>>
boundVars == <<calls, crashes, faults>>

-----------------------------------------------------------------------------
Absent == [status |-> "absent", token |-> 0]
Queued == [status |-> "queued", token |-> 0]
Settled(s) == [status |-> s, token |-> 0]
Terminal == {"completed", "failed"}

Step ==
    {"idle", "enqueue", "write", "claim", "requeue", "take", "append", "again",
     "complete", "completing", "fail", "failing", "list", "relist"}

\* only: the command an ingress is about, None for a drain of the whole inbox;
\* todo: the claims it holds; pick: those it decided to take when it last read.
Idle == [at |-> "idle", only |-> None, todo |-> {}, view |-> None, pick |-> {}]

home(c) == proc[c]          \* the process of caller c
Up(p) == cache[p] # None
Goto(c, s) == op' = [op EXCEPT ![c].at = s]
Return(c) == op' = [op EXCEPT ![c] = Idle]

\* InboxWriteLock.run: inside an open batch of the process an operation starts
\* at once, else it takes the lock; it gives back only a lock it took itself.
Enter(c) ==
    IF batch[home(c)] # None THEN UNCHANGED lock ELSE lock = None /\ lock' = c
Exit(c) == lock' = IF lock = c /\ batch[home(c)] # c THEN None ELSE lock

-----------------------------------------------------------------------------
(* readInboxCommands                                                       *)

Expired(r) == r.status = "claimed" /\ r.token \in expired

\* The listing is the cached one and no command that may still change has.
\* Completed ones count as unchangeable.
CacheComplete(p) ==
    /\ Up(p) /\ deferred[p] = {}
    /\ \A i \in Command :
          /\ cache[p][i].status = "absent" <=> file[i].status = "absent"
          /\ cache[p][i].status \notin {"absent", "completed"} => cache[p][i] = file[i]

\* What a read answers: the cache, the cache with the deferred records folded
\* in, or the files.
View(p) ==
    IF CacheComplete(p) THEN cache[p]
    ELSE IF Up(p) /\ deferred[p] # {}
         THEN [i \in Command |-> IF i \in deferred[p] THEN file[i] ELSE cache[p][i]]
         ELSE file

Read(p) ==
    /\ cache' = [cache EXCEPT ![p] = View(p)]
    /\ deferred' = [deferred EXCEPT ![p] = {}]

\* scanActive: a read that needs the open commands only leaves the others out.
Scanned == [i \in Command |-> IF file[i].status \in Terminal THEN Absent ELSE file[i]]
ReadActive(p) ==
    IF CacheComplete(p) \/ deferred[p] # {} THEN Read(p)
    ELSE /\ cache' = [cache EXCEPT ![p] = Scanned]
         /\ deferred' = [deferred EXCEPT ![p] =
                            {i \in Command : file[i].status \in Terminal}]

\* writeCommand, for each command of S.
Write(p, S, r) ==
    /\ file' = [i \in Command |-> IF i \in S THEN r ELSE file[i]]
    /\ cache' = [cache EXCEPT ![p] = [i \in Command |-> IF i \in S THEN r ELSE @[i]]]
    /\ deferred' = [deferred EXCEPT ![p] = @ \ S]

NoWrite == UNCHANGED <<file, cache, deferred>>

-----------------------------------------------------------------------------
InboxInit ==
    /\ file = [i \in Command |-> Absent]
    /\ stream = {} /\ acked = {}
    /\ lock = None
    /\ batch = [p \in Process |-> None]
    /\ cache = [p \in Process |-> None]
    /\ deferred = [p \in Process |-> {}]
    /\ op = [c \in Caller |-> Idle]
    /\ claims = 0 /\ expired = {}
    /\ calls = [c \in Caller |-> 0] /\ crashes = 0 /\ faults = 0

\* initialize: read the open commands and requeue those of expired claims.
Start(p) ==
    /\ ~Up(p) /\ lock = None
    /\ file' = [i \in Command |-> IF Expired(file[i]) THEN Queued ELSE file[i]]
    /\ cache' = [cache EXCEPT ![p] = [i \in Command |->
                    IF file[i].status \in Terminal THEN Absent ELSE file'[i]]]
    /\ deferred' = [deferred EXCEPT ![p] = {i \in Command : file[i].status \in Terminal}]
    /\ UNCHANGED <<stream, lock, batch, op, claims, expired, acked, boundVars>>

\* warmDeferredCommands, after the start.
Warm(p) ==
    /\ Up(p) /\ deferred[p] # {}
    /\ lock = None \/ batch[p] # None
    /\ Read(p)
    /\ UNCHANGED <<file, stream, lock, batch, op, claims, expired, acked, boundVars>>

MayCall(c) ==
    /\ Up(home(c)) /\ op[c].at = "idle" /\ calls[c] < MaxCalls
    /\ calls' = [calls EXCEPT ![c] = @ + 1]

\* appendEventViaInbox: the batch it opens, or the one it joins.
Ingest(c, i) ==
    /\ MayCall(c)
    /\ IF batch[home(c)] # None THEN UNCHANGED <<lock, batch>>
       ELSE lock = None /\ lock' = c /\ batch' = [batch EXCEPT ![home(c)] = c]
    /\ op' = [op EXCEPT ![c] = [Idle EXCEPT !.at = "enqueue", !.only = i]]
    /\ UNCHANGED <<file, stream, cache, deferred, claims, expired, acked, crashes, faults>>

\* processDurableInbox over everything that is queued.
Drain(c) ==
    /\ MayCall(c)
    /\ Goto(c, "claim")
    /\ UNCHANGED <<file, stream, lock, batch, cache, deferred, claims, expired, acked,
                   crashes, faults>>

\* listRecoverableRuns and its siblings of the startup discovery.
Discover(c) ==
    /\ MayCall(c)
    /\ Goto(c, "list")
    /\ UNCHANGED <<file, stream, lock, batch, cache, deferred, claims, expired, acked,
                   crashes, faults>>

\* The call ends; the batch it opened ends with it.
Finish(c) ==
    /\ Return(c)
    /\ IF batch[home(c)] = c
       THEN lock' = None /\ batch' = [batch EXCEPT ![home(c)] = None]
       ELSE Exit(c) /\ UNCHANGED batch

-----------------------------------------------------------------------------
(* enqueue                                                                 *)

Enqueue(c) ==
    /\ op[c].at = "enqueue"
    /\ Enter(c) /\ Read(home(c))
    /\ op' = [op EXCEPT ![c].at = "write", ![c].view = View(home(c))]
    /\ UNCHANGED <<file, stream, batch, claims, expired, acked, boundVars>>

\* A new command is stored; a known one decides how the ingress goes on.
EnqueueWrite(c) ==
    LET i == op[c].only
        s == op[c].view[i].status
    IN  /\ op[c].at = "write"
        /\ \/ /\ s = "absent"
              /\ Write(home(c), {i}, Queued)
              /\ Goto(c, "claim") /\ Exit(c) /\ UNCHANGED batch
           \/ /\ s = "queued" /\ NoWrite
              /\ Goto(c, "claim") /\ Exit(c) /\ UNCHANGED batch
           \/ /\ s = "completed" /\ NoWrite
              /\ Goto(c, "again") /\ Exit(c) /\ UNCHANGED batch
           \/ s \in {"failed", "claimed"} /\ NoWrite /\ Finish(c)
        /\ UNCHANGED <<stream, claims, expired, acked, boundVars>>

\* The event of a completed command is appended again: a duplicate.
AppendAgain(c) ==
    /\ op[c].at = "again"
    /\ \/ op[c].only \in Illegal /\ op[c].only \notin stream /\ UNCHANGED <<stream, acked>>
       \/ /\ op[c].only \in stream \/ op[c].only \notin Illegal
          /\ stream' = stream \cup {op[c].only}
          /\ acked' = acked \cup {op[c].only}
    /\ Finish(c)
    /\ UNCHANGED <<file, cache, deferred, claims, expired, boundVars>>

-----------------------------------------------------------------------------
(* claim                                                                   *)

Claim(c) ==
    /\ op[c].at = "claim"
    /\ Enter(c) /\ Read(home(c))
    /\ op' = [op EXCEPT ![c].at = "requeue", ![c].view = View(home(c))]
    /\ UNCHANGED <<file, stream, batch, claims, expired, acked, boundVars>>

Requeue(v) == {i \in Command : Expired(v[i])}

\* requeueExpired writes what it read back as queued; then the inbox is read
\* again and the queued commands are chosen.
RequeueExpired(c) ==
    LET S == Requeue(op[c].view)
        v == [i \in Command |-> IF i \in S THEN Queued ELSE View(home(c))[i]]
        match == IF op[c].only = None THEN Command ELSE {op[c].only}
    IN  /\ op[c].at = "requeue"
        /\ Write(home(c), S, Queued)
        /\ op' = [op EXCEPT ![c].at = "take", ![c].view = None,
                            ![c].pick = {i \in match : v[i].status = "queued"}]
        /\ UNCHANGED <<stream, lock, batch, claims, expired, acked, boundVars>>

\* The chosen commands are claimed one after the other, each under its own token.
Take(c) ==
    /\ op[c].at = "take" /\ op[c].pick # {} /\ claims < MaxClaims
    /\ \E i \in op[c].pick :
          /\ Write(home(c), {i}, [status |-> "claimed", token |-> claims + 1])
          /\ op' = [op EXCEPT ![c].pick = @ \ {i},
                              ![c].todo = @ \cup {[command |-> i, token |-> claims + 1]}]
    /\ claims' = claims + 1
    /\ UNCHANGED <<stream, lock, batch, expired, acked, boundVars>>

\* Nothing could be claimed: the call ends, an ingress with an error.
Taken(c) ==
    /\ op[c].at = "take" /\ op[c].pick = {}
    /\ IF op[c].todo = {} THEN Finish(c)
                          ELSE Goto(c, "append") /\ Exit(c) /\ UNCHANGED batch
    /\ UNCHANGED <<file, stream, cache, deferred, claims, expired, acked, boundVars>>

-----------------------------------------------------------------------------
(* materializeDurableCommand, for one claim t after the other              *)

Choose(c, t) == op' = [op EXCEPT ![c].at = "complete", ![c].pick = {t}]
Refuse_Swallow(c, t) == Choose(c, t)
Refuse(c, t) == op' = [op EXCEPT ![c].at = "fail", ![c].pick = {t}]

AppendEvent(c) ==
    /\ op[c].at = "append"
    /\ \E t \in op[c].todo :
          \/ /\ t.command \in stream \/ t.command \notin Illegal
             /\ stream' = stream \cup {t.command}
             /\ Choose(c, t) /\ UNCHANGED faults
          \/ /\ t.command \in Illegal \ stream
             /\ Refuse(c, t) /\ UNCHANGED <<stream, faults>>
          \/ /\ faults < MaxFaults /\ faults' = faults + 1
             /\ Refuse(c, t) /\ UNCHANGED stream
    /\ UNCHANGED <<file, lock, batch, cache, deferred, claims, expired, acked, calls, crashes>>

\* The claim is done with, for better or worse; a drain goes on with the next.
Proceed(c, t) ==
    IF op[c].todo = {t} THEN Finish(c)
    ELSE /\ op' = [op EXCEPT ![c].at = "append", ![c].todo = @ \ {t}, ![c].pick = {},
                             ![c].view = None]
         /\ Exit(c) /\ UNCHANGED batch

Owns(r, t) == r.status = "claimed" /\ r.token = t.token

\* A command that is completed, reclaimed or requeued belongs to others.
MayFail_Open(r, t) == r.status # "failed"
MayFail(r, t) == Owns(r, t)

\* readRequired reads the file, past the cache.
Complete(c) ==
    /\ op[c].at = "complete"
    /\ Enter(c)
    /\ op' = [op EXCEPT ![c].at = "completing", ![c].view = file]
    /\ UNCHANGED <<file, stream, batch, cache, deferred, claims, expired, acked, boundVars>>

CompleteWrite(c) ==
    /\ op[c].at = "completing"
    /\ \E t \in op[c].pick :
          LET r == op[c].view[t.command] IN
          \/ /\ r.status = "completed" \/ Owns(r, t)
             /\ IF r.status = "completed" THEN NoWrite
                ELSE Write(home(c), {t.command}, Settled("completed"))
             /\ acked' = acked \cup {t.command}
             /\ Proceed(c, t) /\ UNCHANGED faults
          \/ /\ ~(r.status = "completed" \/ Owns(r, t))
             /\ Goto(c, "fail") /\ Exit(c)
             /\ NoWrite /\ UNCHANGED <<batch, acked, faults>>
          \/ /\ faults < MaxFaults /\ faults' = faults + 1
             /\ Goto(c, "fail") /\ Exit(c)
             /\ NoWrite /\ UNCHANGED <<batch, acked>>
    /\ UNCHANGED <<stream, claims, expired, calls, crashes>>

Fail(c) ==
    /\ op[c].at = "fail"
    /\ Enter(c)
    /\ op' = [op EXCEPT ![c].at = "failing", ![c].view = file]
    /\ UNCHANGED <<file, stream, batch, cache, deferred, claims, expired, acked, boundVars>>

FailWrite(c) ==
    /\ op[c].at = "failing"
    /\ \E t \in op[c].pick :
          /\ IF MayFail(op[c].view[t.command], t)
             THEN Write(home(c), {t.command}, Settled("failed"))
             ELSE NoWrite
          /\ Proceed(c, t)
    /\ UNCHANGED <<stream, claims, expired, acked, boundVars>>

-----------------------------------------------------------------------------
(* Discovery                                                               *)

List(c) ==
    /\ op[c].at = "list"
    /\ Enter(c) /\ ReadActive(home(c))
    /\ op' = [op EXCEPT ![c].at = "relist", ![c].view = cache'[home(c)]]
    /\ UNCHANGED <<file, stream, batch, claims, expired, acked, boundVars>>

Relist(c) ==
    /\ op[c].at = "relist"
    /\ Write(home(c), Requeue(op[c].view), Queued)
    /\ Finish(c)
    /\ UNCHANGED <<stream, claims, expired, acked, boundVars>>

-----------------------------------------------------------------------------
(* The environment                                                         *)

LeaseEnds(n) ==
    /\ n \in 1..claims /\ n \notin expired
    /\ expired' = expired \cup {n}
    /\ UNCHANGED <<file, stream, lock, batch, cache, deferred, op, claims, acked, boundVars>>

\* The process dies: its callers stop where they are, its lock is stolen.
Crash(p) ==
    /\ Up(p) /\ crashes < MaxCrashes
    /\ crashes' = crashes + 1
    /\ op' = [c \in Caller |-> IF home(c) = p THEN Idle ELSE op[c]]
    /\ lock' = IF \E c \in Caller : lock = c /\ home(c) = p THEN None ELSE lock
    /\ batch' = [batch EXCEPT ![p] = None]
    /\ cache' = [cache EXCEPT ![p] = None]
    /\ deferred' = [deferred EXCEPT ![p] = {}]
    /\ UNCHANGED <<file, stream, claims, expired, acked, calls, faults>>

Work(c) ==
    \/ Enqueue(c) \/ EnqueueWrite(c) \/ AppendAgain(c)
    \/ Claim(c) \/ RequeueExpired(c) \/ Take(c) \/ Taken(c)
    \/ AppendEvent(c) \/ Complete(c) \/ CompleteWrite(c) \/ Fail(c) \/ FailWrite(c)
    \/ List(c) \/ Relist(c)

InboxNext ==
    \/ \E p \in Process : Start(p) \/ Warm(p) \/ Crash(p)
    \/ \E n \in 1..MaxClaims : LeaseEnds(n)
    \/ \E c \in Caller :
          \/ \E i \in Command : Ingest(c, i)
          \/ Drain(c) \/ Discover(c) \/ Work(c)

InboxSpec == InboxInit /\ [][InboxNext]_inboxVars

\* Calls start only in a process whose deferred records are read in: after its
\* warm pass, and after that of a discovery that deferred some again.
WarmNext ==
    /\ InboxNext
    /\ \A c \in Caller :
          op[c].at = "idle" /\ op'[c].at # "idle" => deferred[home(c)] = {}
InboxWarmSpec == InboxInit /\ [][WarmNext]_inboxVars

\* A caller whose next step can be taken takes it; a lock is handed on.
InboxFairness == \A c \in Caller : WF_inboxVars(Work(c))

-----------------------------------------------------------------------------
(* Properties                                                              *)

\* Types, and: the lock is held by a caller that is at work, and an open batch
\* by the caller that holds the lock.
InboxTypeOK ==
    /\ file \in [Command -> Stored]
    /\ stream \subseteq Command /\ acked \subseteq Command
    /\ lock \in Caller \cup {None}
    /\ lock # None => op[lock].at # "idle"
    /\ \A p \in Process :
          /\ cache[p] \in [Command -> Stored] \cup {None}
          /\ deferred[p] \subseteq Command
          /\ batch[p] # None => batch[p] = lock /\ home(lock) = p
    /\ \A c \in Caller :
          /\ op[c].at \in Step
          /\ op[c].only \in Command \cup {None}
          /\ op[c].view \in [Command -> Stored] \cup {None}
          /\ op[c].todo \subseteq [command : Command, token : Token]

\* A command is completed only when its event is in the run's stream: a crash
\* between the claim, the append and the settlement never loses an event that
\* the inbox calls done.
CompletedHasEvent ==
    \A i \in Command : file[i].status = "completed" => i \in stream

\* Whoever was told that its command was materialised finds it settled as
\* completed or on its way there again, never as permanently failed.
AcknowledgedNotFailed ==
    \A i \in acked : i \in stream /\ file[i].status # "failed"

\* While appends and writes do not fail, no command is given up as permanently
\* failed although its event is stored.
FailedHasNoEvent ==
    \A i \in Command : file[i].status = "failed" => i \notin stream

\* A completed command is never rewritten: not by a late requeue, not by a second
\* settlement, not by an ingress of the same command.
CompletedStays == \A i \in Command : file[i].status = "completed" => file'[i] = file[i]
CompletedIsFinal == [][CompletedStays]_inboxVars

\* A claim is settled by its own claimant: one whose lease ended and whose command
\* was claimed again settles nothing.  Callers of one process may join a batch and
\* outlive it without the lock; this is about callers of different processes.
OwnProcesses == \A c, d \in Caller : home(c) = home(d) => c = d
ClaimantSettles ==
    \A i \in Command :
        file[i].status = "claimed" /\ file'[i].status \in Terminal =>
            \E c \in Caller :
                [command |-> i, token |-> file[i].token] \in op[c].todo /\ op'[c] # op[c]
SettledByClaimant == [][OwnProcesses => ClaimantSettles]_inboxVars

\* What the status of a command says about its event, whatever crashes: completed
\* is in the stream; as long as no append and no write failed, acknowledged is never
\* failed, and failed is not in the stream; and the claimant of a command settles it.
CommandsAreTrue ==
    /\ [](/\ InboxTypeOK /\ CompletedHasEvent
         /\ faults = 0 => AcknowledgedNotFailed /\ FailedHasNoEvent)
    /\ SettledByClaimant

\* No two claims of one command are alive: a command that is claimed again was
\* requeued because the earlier lease had ended, or its process had died.
ClaimsAreFenced ==
    \A c, d \in Caller : \A t \in op[c].todo, u \in op[d].todo :
        t.command = u.command /\ t.token < u.token => t.token \in expired

\* Every call returns: joining a batch, waiting for the lock and re-reading the
\* inbox never wait for each other.
CallReturns == \A c \in Caller : []<>(op[c].at = "idle")
=============================================================================
