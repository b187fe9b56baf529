------------------------------ MODULE ToolBatch ------------------------------
(***************************************************************************)
(* The tool calls of one run: ToolExecutionService.executeBatch, the waves *)
(* its scheduler builds, and around each invocation the side-effect ledger *)
(* with its effect lease and its two durable events.                       *)
(*                                                                         *)
(* The calls of a wave run concurrently and interleave at every await.     *)
(* The ledger is an array that is replaced as a whole, in memory; the      *)
(* intents and settlements are events of the run's stream, where an event  *)
(* id is stored once (DurableAppend), and the leases are files (RunLease). *)
(***************************************************************************)
EXTENDS Naturals, Sequences, FiniteSets, SequencesExt

CONSTANTS
    Call, Op,
    OpOf,           \* OpOf[c]: what c asks for, tool and input
    Access,         \* Access[o]: the resources o declares, [path, mode]
    Exclusive,      \* operations that run alone; they declare nothing
    ReadOnly,       \* operations of tools that are known to have no effect
    Shell,          \* operations that run under an authorization of their own
    ReRunnable,     \* operations that may be repeated once their target changed
    Rounds,         \* the batches the model asks for
    MaxParallel, MaxRepeat,
    Capacity,       \* entries of the ledger (256 in the code)
    BatchFaultKind, MaxBatchFaults,
    Unset

Effect == [op : Op, grant : Call \cup {Unset}, tries : Seq(Nat)]
BatchAssumption ==
    /\ OpOf \in [Call -> Op]
    /\ \A o \in Op : \A a \in Access[o] : a.path \in Seq(STRING) /\ a.mode \in {"read", "write"}
    /\ Exclusive \cup ReadOnly \cup Shell \cup ReRunnable \subseteq Op
    /\ Shell \subseteq Exclusive
    /\ \A o \in Exclusive : Access[o] = {}
    /\ Unset \notin Call \cup Effect \cup {"ok"}
\* A call is a request of its own, also when it asks for what another one asks.
AskedOnce ==
    /\ Rounds \in Seq(Seq(Call))
    /\ \A r, q \in DOMAIN Rounds : \A i \in DOMAIN Rounds[r], j \in DOMAIN Rounds[q] :
           Rounds[r][i] = Rounds[q][j] => r = q /\ i = j
BatchBounds ==
    /\ {MaxParallel, MaxRepeat, Capacity} \subseteq Nat \ {0}
    /\ MaxBatchFaults \in Nat
ASSUME BatchConstants == BatchAssumption /\ AskedOnce /\ BatchBounds

VARIABLES
    round,      \* batches begun
    todo,       \* requests of the batch still to be prepared
    prepared,   \* requests admitted that wait for their wave, in their order
    wave,       \* the calls of the wave that is running
    shared,     \* calls that had company in their wave
    repeats,    \* repeats[o]: how often o was admitted
    stage,      \* stage[c]: where the call stands
    key,        \* key[c]: the effect it is about to make or makes
    verdict,    \* verdict[c]: how its invocation ended
    result,     \* result[c]: what the batch answers, "ok" or "failed"
    snap,       \* snap[c]: the ledger it read before it confirmed its lease
    ledger,     \* sequence of [key, call, status]
    leases,     \* effects whose lease this run holds and renews
    stuck,      \* effects whose lease it has given up without a release
    intents,    \* effects with a stored effect_intent_created
    settled,    \* <<effect, status>> of the stored effect_settled events
    running,    \* calls whose tool code is at work
    history,    \* invocations in the order they began: [call, verdict]
    aborted,
    batchFaults

batch == <<round, todo, prepared, wave, shared, repeats>>
book == <<ledger, leases, stuck, intents, settled>>
local == <<key, verdict, result, snap>>
batchVars == <<batch, stage, local, book, running, history, aborted, batchFaults>>

Status == {"in_progress", "succeeded", "failed", "cancelled", "unknown"}
Place ==
    {"idle", "ready", "again", "acquire", "record", "intent", "checkpoint", "invoke",
     "running", "finish", "confirm", "settle", "done"}

-----------------------------------------------------------------------------
(* The scheduler.  A key of a scheme other than fs: is a path of length 1. *)

Overlap(p, q) == IsPrefix(p, q) \/ IsPrefix(q, p)
Conflict_SamePath(o1, o2) ==
    \E a \in Access[o1], b \in Access[o2] : a.path = b.path /\ "write" \in {a.mode, b.mode}
Conflict(o1, o2) ==
    \E a \in Access[o1], b \in Access[o2] :
        Overlap(a.path, b.path) /\ "write" \in {a.mode, b.mode}

Apart(o1, o2) == {o1, o2} \cap Exclusive = {} /\ ~Conflict(o1, o2)

\* The calls of a wave are the longest prefix of those that wait of which no two
\* conflict; one always fits.
Together(n) ==
    /\ n \in 1..Len(prepared) /\ n <= MaxParallel
    /\ \A i, j \in 1..n : i < j => Apart(OpOf[prepared[i]], OpOf[prepared[j]])

-----------------------------------------------------------------------------
(* The ledger.  An effect is an operation, the authorization it runs under *)
(* when it repeats a shell command, and the retries that led to it.        *)

Writes(o) == {a.path : a \in {b \in Access[o] : b.mode = "write"}}
IsEffect(o) == Writes(o) # {} \/ (Access[o] = {} /\ o \notin ReadOnly)

Key(o, grant) == [op |-> o, grant |-> grant, tries |-> << >>]
Entries == Range(ledger)
IsAttempt(k, base) == k.op = base.op /\ k.grant = base.grant /\ IsPrefix(base.tries, k.tries)
Tried(base) == {i \in DOMAIN ledger : IsAttempt(ledger[i].key, base)}

NextAttempt(base) ==
    LET n == Len(base.tries) + 1
        used == {0} \cup {ledger[i].key.tries[n] : i \in {j \in Tried(base) : ledger[j].key # base}}
    IN  [base EXCEPT !.tries = Append(@, 1 + CHOOSE m \in used : \A u \in used : u <= m)]

Succeeded(base) == \E i \in Tried(base) : ledger[i].status = "succeeded"
LastIs(base, outcomes) ==
    \E i \in Tried(base) : ledger[i].status \in outcomes /\ \A j \in Tried(base) : j <= i

\* A later success of another operation wrote one of the resources.
Warrant(base) ==
    /\ base.op \in ReRunnable /\ Writes(base.op) # {}
    /\ \E i \in DOMAIN ledger \ Tried(base) :
        /\ ledger[i].status = "succeeded"
        /\ Writes(ledger[i].key.op) \cap Writes(base.op) # {}
        /\ \A j \in Tried(base) : j < i

\* What beginSideEffect decides before it asks for the lease: the effect to
\* make, or Unset when the call is refused.
Retry(base) ==
    CASE Tried(base) = {} -> base
      [] Succeeded(base) -> IF Warrant(base) THEN NextAttempt(base) ELSE Unset
      [] OTHER -> IF LastIs(base, {"failed", "cancelled"}) THEN NextAttempt(base) ELSE Unset

Admission_Settled(c, base) ==
    LET same == {e \in Entries : e.key.op = base.op}
        fresh == Key(base.op, c)
    IN  CASE base.op \notin Shell \/ same = {} -> Retry(base)
          [] \E e \in same : e.call = c \/ e.status = "in_progress" -> Unset
          [] \E e \in same : e.key = fresh -> Unset
          [] OTHER -> Retry(fresh)
\* A shell command that ran before runs again under its own authorization.
Admission(c, base) ==
    LET same == {e \in Entries : e.key.op = base.op}
        fresh == Key(base.op, c)
    IN  CASE base.op \notin Shell \/ same = {} -> Retry(base)
          [] \E e \in same : e.call = c \/ e.status \in {"in_progress", "unknown"} -> Unset
          [] \E e \in same : e.key = fresh -> Unset
          [] OTHER -> Retry(fresh)

IndexOf(l, k) == IF \E i \in DOMAIN l : l[i].key = k THEN CHOOSE i \in DOMAIN l : l[i].key = k
               ELSE 0
WithStatus(l, k, s) ==
    IF IndexOf(l, k) = 0 THEN l ELSE [l EXCEPT ![IndexOf(l, k)].status = s]

\* A full ledger makes room by its first entry that succeeded or failed.
Full == Len(ledger) >= Capacity
Evictable == {i \in DOMAIN ledger : ledger[i].status \in {"succeeded", "failed"}}
Evict(l) == RemoveAt(l, CHOOSE i \in Evictable : \A j \in Evictable : i <= j)
Room == IF Full THEN Evict(ledger) ELSE ledger

-----------------------------------------------------------------------------
ToolInit ==
    /\ round = 0 /\ todo = << >> /\ prepared = << >> /\ wave = {}
    /\ shared = {}
    /\ repeats = [o \in Op |-> 0]
    /\ stage = [c \in Call |-> "idle"]
    /\ key = [c \in Call |-> Unset]
    /\ verdict = [c \in Call |-> Unset]
    /\ result = [c \in Call |-> Unset]
    /\ snap = [c \in Call |-> << >>]
    /\ ledger = << >> /\ leases = {} /\ stuck = {} /\ intents = {} /\ settled = {}
    /\ running = {} /\ history = << >>
    /\ aborted = FALSE /\ batchFaults = 0

Move(c, place) == stage' = [stage EXCEPT ![c] = place]
BatchFault(kind) ==
    /\ kind \in BatchFaultKind
    /\ batchFaults < MaxBatchFaults /\ batchFaults' = batchFaults + 1
Faultless == UNCHANGED batchFaults
Answer(c, r) == Move(c, "done") /\ result' = [result EXCEPT ![c] = r]
Refuse(c) == Answer(c, "failed")

\* The lease goes with the effect; a failed release is logged and leaves the file.
GiveUp(k) ==
    /\ leases' = leases \ {k}
    /\ \/ Faultless /\ UNCHANGED stuck
       \/ k \in leases /\ BatchFault("release") /\ stuck' = stuck \cup {k}
-----------------------------------------------------------------------------
(* Preparing the batch: lookup, admission, validation, approval, repeats.  *)

NextRound ==
    /\ todo = << >> /\ prepared = << >> /\ wave = {}
    /\ round < Len(Rounds)
    /\ round' = round + 1
    /\ todo' = Rounds[round']
    /\ UNCHANGED <<prepared, wave, shared, repeats, stage, local, book, running, history, aborted,
                   batchFaults>>

Admit ==
    LET c == Head(todo)
        o == OpOf[c] IN
    /\ todo # << >>
    /\ todo' = Tail(todo)
    /\ repeats' = [repeats EXCEPT ![o] = @ + 1]
    /\ IF repeats[o] < MaxRepeat
       THEN prepared' = Append(prepared, c) /\ Move(c, "ready") /\ UNCHANGED result
       ELSE Refuse(c) /\ UNCHANGED prepared
    /\ UNCHANGED <<round, wave, shared, key, verdict, snap, book, running, history, aborted, batchFaults>>

\* An unknown tool, an input that does not parse, an approval that is denied.
Deny ==
    /\ todo # << >>
    /\ BatchFault("deny")
    /\ todo' = Tail(todo)
    /\ Refuse(Head(todo))
    /\ UNCHANGED <<round, prepared, wave, shared, repeats, key, verdict, snap, book, running, history,
                   aborted>>

Schedule ==
    /\ todo = << >> /\ wave = {}
    /\ \E n \in 1..Len(prepared) :
        /\ Together(n) /\ ~Together(n + 1)
        /\ wave' = {prepared[i] : i \in 1..n}
        /\ shared' = IF n > 1 THEN shared \cup wave' ELSE shared
        /\ prepared' = SubSeq(prepared, n + 1, Len(prepared))
    /\ UNCHANGED <<round, todo, repeats, stage, local, book, running, history, aborted,
                   batchFaults>>

EndWave ==
    /\ wave # {}
    /\ \A c \in wave : stage[c] = "done"
    /\ wave' = {}
    /\ UNCHANGED <<round, todo, prepared, shared, repeats, stage, local, book, running, history, aborted,
                   batchFaults>>
-----------------------------------------------------------------------------
(* Before the invocation.                                                  *)

Begin(c) ==
    LET o == OpOf[c]
        base == IF stage[c] = "ready" THEN Key(o, Unset) ELSE key[c]
        k == Admission(c, base)
    IN  /\ c \in wave /\ stage[c] \in {"ready", "again"}
        /\ IF ~IsEffect(o) THEN Move(c, "invoke") /\ UNCHANGED <<key, result>>
           ELSE IF k = Unset THEN Refuse(c) /\ UNCHANGED key
           ELSE Move(c, "acquire") /\ key' = [key EXCEPT ![c] = k] /\ UNCHANGED result
        /\ UNCHANGED <<batch, verdict, snap, book, running, history, aborted, batchFaults>>

\* A lease in the store is another owner's, be it of this run.
Taken(k) == k \in leases \cup stuck
Acquire(c) ==
    /\ stage[c] = "acquire"
    /\ \/ /\ IF Taken(key[c]) THEN Faultless ELSE BatchFault("lease")
          /\ Refuse(c)
          /\ UNCHANGED leases
       \/ /\ ~Taken(key[c])
          /\ leases' = leases \cup {key[c]}
          /\ Move(c, "record") /\ UNCHANGED result /\ Faultless
    /\ UNCHANGED <<batch, key, verdict, snap, ledger, stuck, intents, settled, running, history,
                   aborted>>

\* The ledger may have changed while the lease was acquired.
Record(c) ==
    /\ stage[c] = "record"
    /\ IndexOf(ledger, key[c]) = 0
    /\ ~(Full /\ Evictable = {})
    /\ ledger' = Append(Room, [key |-> key[c], call |-> c, status |-> "in_progress"])
    /\ Move(c, "intent")
    /\ UNCHANGED <<batch, local, leases, stuck, intents, settled, running, history, aborted,
                   batchFaults>>

RecordedMeanwhile(c) ==
    /\ stage[c] = "record"
    /\ \/ IndexOf(ledger, key[c]) # 0 /\ Move(c, "again") /\ UNCHANGED result
       \/ IndexOf(ledger, key[c]) = 0 /\ Full /\ Evictable = {} /\ Refuse(c)
    /\ GiveUp(key[c])
    /\ UNCHANGED <<batch, key, verdict, snap, ledger, intents, settled, running, history, aborted>>

\* The append of effect_intent_created; an aborted run cancels the effect.
AfterIntent(c) ==
    IF aborted THEN Move(c, "finish") /\ verdict' = [verdict EXCEPT ![c] = "cancelled"]
    ELSE Move(c, "checkpoint") /\ UNCHANGED verdict

StoresIntent(k) == k \notin intents

Intent(c) ==
    /\ stage[c] = "intent"
    /\ StoresIntent(key[c])
    /\ intents' = intents \cup {key[c]}
    /\ AfterIntent(c)
    /\ UNCHANGED <<batch, key, result, snap, ledger, leases, stuck, settled, running, history,
                   aborted, batchFaults>>

\* It fails, and may be stored all the same; or the effect has an intent, and
\* the new one names another owner.
IntentFails(c) ==
    /\ stage[c] = "intent"
    /\ \/ ~StoresIntent(key[c]) /\ Faultless /\ UNCHANGED intents
       \/ BatchFault("intent") /\ intents' \in {intents, intents \cup {key[c]}}
    /\ ledger' = WithStatus(ledger, key[c], "unknown")
    /\ leases' = leases \ {key[c]}
    /\ Refuse(c)
    /\ UNCHANGED <<batch, key, verdict, snap, stuck, settled, running, history, aborted>>

Checkpoint(c) ==
    /\ stage[c] = "checkpoint"
    /\ \/ Move(c, "invoke") /\ Faultless /\ UNCHANGED verdict
       \/ Move(c, "finish") /\ BatchFault("checkpoint")
          /\ verdict' = [verdict EXCEPT ![c] = "failed"]
    /\ UNCHANGED <<batch, key, result, snap, book, running, history, aborted>>

-----------------------------------------------------------------------------
(* The invocation, and how it ends.                                        *)

Ended(c, v) ==
    /\ verdict' = [verdict EXCEPT ![c] = v]
    /\ IF IsEffect(OpOf[c]) THEN Move(c, "finish") /\ UNCHANGED result
       ELSE Answer(c, IF v = "succeeded" THEN "ok" ELSE "failed")

\* An aborted run does not reach the tool: its call counts as cut short.
Invoke(c) ==
    /\ c \in wave /\ stage[c] = "invoke"
    /\ IF aborted THEN Ended(c, "unknown") /\ UNCHANGED <<running, history>>
       ELSE /\ running' = running \cup {c}
            /\ history' = Append(history, [call |-> c, verdict |-> "running"])
            /\ Move(c, "running") /\ UNCHANGED <<verdict, result>>
    /\ UNCHANGED <<batch, key, snap, book, aborted, batchFaults>>

Noted(c, v) == [i \in DOMAIN history |-> IF history[i].call = c
                                         THEN [history[i] EXCEPT !.verdict = v] ELSE history[i]]

\* A result the tool returns, or an exception: a cut-short invocation.
Return(c, v) ==
    /\ stage[c] = "running"
    /\ v \in {"succeeded", "failed", "unknown"}
    /\ v = "unknown" => "throw" \in BatchFaultKind
    /\ IF v = "unknown" THEN BatchFault("throw") ELSE Faultless
    /\ running' = running \ {c}
    /\ history' = Noted(c, v)
    /\ Ended(c, v)
    /\ UNCHANGED <<batch, key, snap, book, aborted>>

\* After a timeout or an abort the tool has a moment to stop; then the service
\* goes on, and the tool may be at work still.
CutShort(c) ==
    /\ stage[c] = "running"
    /\ \/ aborted /\ Faultless
       \/ BatchFault("timeout")
    /\ running' \in {running \ {c}} \cup (IF "hang" \in BatchFaultKind THEN {running} ELSE {})
    /\ history' = Noted(c, "unknown")
    /\ Ended(c, "unknown")
    /\ UNCHANGED <<batch, key, snap, book, aborted>>

StopLate(c) ==
    /\ c \in running /\ stage[c] # "running"
    /\ running' = running \ {c}
    /\ UNCHANGED <<batch, stage, local, book, history, aborted, batchFaults>>

-----------------------------------------------------------------------------
(* After the invocation: finishSideEffect.                                 *)

\* An entry that is no longer in the ledger is not settled.
FinishCall(c) ==
    /\ stage[c] = "finish"
    /\ IF IndexOf(ledger, key[c]) = 0
       THEN Answer(c, IF verdict[c] = "succeeded" THEN "ok" ELSE "failed") /\ UNCHANGED snap
       ELSE Move(c, "confirm") /\ snap' = [snap EXCEPT ![c] = ledger] /\ UNCHANGED result
    /\ UNCHANGED <<batch, key, verdict, book, running, history, aborted, batchFaults>>

\* The status is written into the ledger that was read before the confirmation.
Merged(c) == snap[c]
Confirm(c) ==
    /\ stage[c] = "confirm"
    /\ key[c] \in leases
    /\ ledger' = WithStatus(Merged(c), key[c], verdict[c])
    /\ Move(c, "settle")
    /\ snap' = [snap EXCEPT ![c] = << >>]
    /\ UNCHANGED <<batch, key, verdict, result, leases, stuck, intents, settled, running, history,
                   aborted, batchFaults>>

ConfirmFails(c) ==
    /\ stage[c] = "confirm"
    /\ \/ key[c] \notin leases /\ Faultless
       \/ key[c] \in leases /\ BatchFault("lease")
    /\ ledger' = WithStatus(ledger, key[c], "unknown")
    /\ snap' = [snap EXCEPT ![c] = << >>]
    /\ Refuse(c)
    /\ UNCHANGED <<batch, key, verdict, leases, stuck, intents, settled, running, history, aborted>>

\* effect_settled is stored and the lease released; the checkpoint that follows
\* may fail and with it the call, whose effect is settled nevertheless.
Settle(c) ==
    /\ stage[c] = "settle"
    /\ settled' = settled \cup {<<key[c], verdict[c]>>}
    /\ \/ /\ Answer(c, IF verdict[c] = "succeeded" THEN "ok" ELSE "failed")
          /\ GiveUp(key[c])
       \/ /\ Refuse(c)
          /\ BatchFault("checkpoint")
          /\ leases' = leases \ {key[c]} /\ UNCHANGED stuck
    /\ UNCHANGED <<batch, key, verdict, snap, ledger, intents, running, history, aborted>>

\* The append fails, and may be stored all the same.
Unsettled_Kept(c) == ledger
Unsettled(c) == WithStatus(ledger, key[c], "unknown")
SettleFails(c) ==
    /\ stage[c] = "settle"
    /\ BatchFault("settle")
    /\ settled' \in {settled, settled \cup {<<key[c], verdict[c]>>}}
    /\ ledger' = Unsettled(c)
    /\ Refuse(c)
    /\ UNCHANGED <<batch, key, verdict, snap, leases, stuck, intents, running, history, aborted>>

-----------------------------------------------------------------------------
(* The user aborts the run, or a renewal fails and interrupts it.          *)
Abort ==
    /\ ~aborted /\ BatchFault("abort")
    /\ aborted' = TRUE
    /\ UNCHANGED <<batch, stage, local, book, running, history>>

LoseLease(k) ==
    /\ k \in leases /\ BatchFault("renew")
    /\ leases' = leases \ {k} /\ stuck' = stuck \cup {k}
    /\ aborted' = TRUE
    /\ UNCHANGED <<batch, stage, local, ledger, intents, settled, running, history>>

CallStep(c) ==
    \/ Begin(c) \/ Acquire(c) \/ Record(c) \/ RecordedMeanwhile(c) \/ Intent(c) \/ IntentFails(c)
    \/ Checkpoint(c) \/ Invoke(c) \/ FinishCall(c) \/ Confirm(c) \/ ConfirmFails(c) \/ Settle(c)
    \/ SettleFails(c)
ServiceStep == Admit \/ Deny \/ Schedule \/ EndWave

BatchNext ==
    \/ NextRound \/ ServiceStep \/ Abort
    \/ \E c \in Call : CallStep(c) \/ CutShort(c) \/ StopLate(c)
    \/ \E c \in Call, v \in Status : Return(c, v)
    \/ \E k \in leases : LoseLease(k)

BatchSpec == ToolInit /\ [][BatchNext]_batchVars

-----------------------------------------------------------------------------
(* Properties.                                                             *)

Entry == [key : Effect, call : Call, status : Status]
BatchTypeOK ==
    /\ round \in Nat
    /\ \A s \in {todo, prepared} : s \in Seq(Call)
    /\ wave \cup shared \subseteq Call
    /\ repeats \in [Op -> Nat]
    /\ stage \in [Call -> Place]
    /\ key \in [Call -> Effect \cup {Unset}]
    /\ verdict \in [Call -> Status \cup {Unset}]
    /\ result \in [Call -> {"ok", "failed", Unset}]
    /\ ledger \in Seq(Entry) /\ snap \in [Call -> Seq(Entry)]
    /\ \A l \in {ledger} \cup {snap[c] : c \in Call} : Len(l) <= Capacity
    /\ intents \cup leases \cup stuck \subseteq Effect
    /\ settled \subseteq Effect \X Status
    /\ running \subseteq Call
    /\ history \in Seq([call : Call, verdict : Status \cup {"running"}])
    /\ aborted \in BOOLEAN /\ batchFaults \in 0..MaxBatchFaults

OpAt(i) == OpOf[history[i].call]

\* Why the operation of invocation i may run again at j: it is known to have
\* had no effect; it is a shell command whose earlier run is settled; or another
\* operation has since changed its target.  The last one lets a cut-short
\* invocation be repeated too, once an earlier attempt had succeeded.
MayRepeat(i, j) ==
    LET o == OpAt(i) IN
    \/ history[i].verdict = "failed"
    \/ o \in Shell /\ history[i].verdict = "succeeded"
    \/ /\ o \in ReRunnable
       /\ \E h \in 1..j - 1 : history[h].verdict = "succeeded" /\ OpAt(h) = o
       /\ \E m \in i + 1..j - 1 :
            /\ history[m].verdict = "succeeded" /\ OpAt(m) # o
            /\ Writes(OpAt(m)) \cap Writes(o) # {}

NotReplayed(o) ==
    \A i, j \in DOMAIN history : i < j /\ OpAt(i) = o /\ OpAt(j) = o => MayRepeat(i, j)

\* No operation that may have had an effect is run again: not after its ledger
\* entry was evicted or lost, not while a concurrent call runs it, not after a
\* cut-short invocation.  The operations are those of which two calls never
\* overlap, which declare a write or run alone.
NoReplay ==
    \A o \in Op : IsEffect(o) /\ (o \in Exclusive \/ Writes(o) # {}) => NotReplayed(o)

\* An effect, which is what leases, intents and settlements are about, is begun
\* once: a repetition is an effect of its own.
EffectsDiffer ==
    \A i, j \in DOMAIN history :
        i # j /\ IsEffect(OpAt(i)) /\ IsEffect(OpAt(j))
            => key[history[i].call] # key[history[j].call]

\* Calls that touch the same resource, one of them to write it, do not run at
\* once, and an exclusive call runs alone; a tool that goes on after its call was
\* cut short is the exception.
RunsAreSerialized ==
    \A c, d \in {e \in running : stage[e] = "running"} :
        c # d =>
            /\ {OpOf[c], OpOf[d]} \cap Exclusive = {}
            /\ \A p \in Writes(OpOf[c]), a \in Access[OpOf[d]] : ~Overlap(p, a.path)

\* No other worker of the run can begin an effect that is being made here: its
\* lease is held, or given up without a release.
Holding == Place \ {"idle", "ready", "again", "acquire", "done"}
EffectsAreLeased ==
    \A c \in Call :
        stage[c] \in Holding /\ IsEffect(OpOf[c]) => key[c] \in leases \cup stuck

\* A call that is answered ok has its effect settled as succeeded in the stream.
\* A call that had company may have lost its entry to another one's snapshot.
OkIsSettled ==
    \A c \in Call \ shared :
        result[c] = "ok" /\ IsEffect(OpOf[c]) => <<key[c], "succeeded">> \in settled

\* The ledger says no more than the stream: an effect it calls succeeded, failed
\* or cancelled has an intent, and between two batches that settlement.
LedgerIsBacked ==
    \A e \in Entries :
        e.status \in {"succeeded", "failed", "cancelled"} =>
            /\ e.key \in intents
            /\ wave = {} /\ e.call \notin shared => <<e.key, e.status>> \in settled

\* What the run is told of its effects is so in the stream, whatever fails.
LedgerIsTrue == OkIsSettled /\ LedgerIsBacked

\* The stream settles an effect once, and only one it has the intent of.
SettledOnce ==
    \A s \in settled :
        /\ s[1] \in intents
        /\ \A t \in settled : s[1] = t[1] => s = t

\* The tool calls of a run, whatever they ask for, however they interleave and
\* whatever fails: an effect is begun once, with its lease, and settled once, and
\* calls that touch the same resource do not run at once.
EffectsAreMadeOnce ==
    /\ BatchTypeOK
    /\ EffectsAreLeased /\ EffectsDiffer /\ SettledOnce /\ RunsAreSerialized

\* Every batch the model asks for is answered, a tool that hangs or an identical
\* concurrent call included.
BatchAnswered == round = Len(Rounds) /\ todo = << >> /\ prepared = << >> /\ wave = {}
BatchesReturn == <>[]BatchAnswered

\* The model asks again, and promises resolve: every tool call has a deadline.
BatchFairness ==
    /\ WF_batchVars(NextRound)
    /\ WF_batchVars(Admit \/ Schedule \/ EndWave)
    /\ \A c \in Call :
        /\ WF_batchVars(CallStep(c))
        /\ WF_batchVars(CutShort(c) \/ \E v \in Status : Return(c, v))
=============================================================================
