--------------------------- MODULE SessionSummary ---------------------------
(***************************************************************************)
(* The summaries of one session: maybeCompact, the journalled commit and   *)
(* the recovery of SessionCompactionStore under the session's file lock,   *)
(* the sweep that closes the memory proposals older builds left pending,   *)
(* and the deletion of the session.  Attempts of several processes, or of  *)
(* the runners of one, meet here; a scheduler (CompactionScheduler) keeps  *)
(* only its own apart.                                                     *)
(*                                                                         *)
(* Messages are numbered.  The id of a summary is a hash of its            *)
(* predecessor's id and of the messages it covers: here the sequence of    *)
(* the ends of the summaries that led to it.  Its text is the attempt that *)
(* made it, for no two answers of a model are alike.                       *)
(***************************************************************************)
EXTENDS Naturals, Sequences, FiniteSets, SequencesExt

CONSTANTS
    Process, Op,
    ProcessOf,      \* ProcessOf[o]: where attempt o runs
    KeepRecent,
    MaxMessages,    \* bound on messages
    Legacy,         \* proposals an older build left: subset of {"active", "stale"}
    SummaryFaultKind,      \* subset of {"journal", "write", "recover", "abort"}
    MaxSummaryFaults, MaxSummaryCrashes, MaxDeletes,
    Nil

SummaryAssumption ==
    /\ ProcessOf \in [Op -> Process]
    /\ KeepRecent \in Nat \ {0}
    /\ Legacy \subseteq {"active", "stale"}
    /\ Process \cap Op = {}
    /\ Nil \notin Process \cup Op \cup [id : Seq(Nat), text : Op \cup {"old", "new"}]
SummaryBounds == {MaxMessages, MaxSummaryFaults, MaxSummaryCrashes, MaxDeletes} \subseteq Nat
ASSUME SummaryConstants == SummaryAssumption /\ SummaryBounds

VARIABLES
    from, to,   \* the transcript holds the messages from + 1 to to
    header,     \* the active summary in the session's header, or Nil
    records,    \* the projections
    pending,    \* the journal: transactions
    failed,     \* transactions that were isolated
    lock,       \* who holds the session's file lock: an attempt, a process, or Nil
    op,         \* op[o]: an attempt
    rec,        \* rec[p]: the recovery of process p, shared by its readers
    result,     \* result[o]: "none", "compacted", "nothing", "failed"
    deleting,   \* the file is unlinked, its directory is not yet removed
    summaryFaults, summaryCrashes, deletes

disk == <<from, to, header, records, pending, failed>>
summaryBounds == <<summaryFaults, summaryCrashes, deletes>>
summaryVars == <<disk, lock, op, rec, result, deleting, summaryBounds>>

-----------------------------------------------------------------------------
Summary(id, text) == [id |-> id, text |-> text]
Transaction(id, text, committed, proposal) ==
    [id |-> id, text |-> text, committed |-> committed, proposal |-> proposal]
SummaryOf(t) == Summary(t.id, t.text)

ActiveId == IF header = Nil THEN << >> ELSE header.id
EndOf(id) == IF id = << >> THEN from ELSE Last(id)

OpPhase ==
    {"idle", "sweep", "list", "close", "look", "summarize", "lock", "journal", "project",
     "apply", "unlink", "end"}
NoOp == [at |-> "idle", span |-> <<0, 0>>, prev |-> << >>, id |-> << >>, got |-> {}, todo |-> {}]
NoRec == [at |-> "off", todo |-> << >>, tx |-> Nil]

\* An older build left a committed summary with its proposal open; it is still
\* the active one, or a later build has compacted since.
Old == Transaction(<<1>>, "old", TRUE, "open")
SummaryInit ==
    /\ from = 0
    /\ \/ Legacy = {} /\ to \in 0..MaxMessages /\ header = Nil /\ records = {} /\ pending = {}
       \/ /\ "active" \in Legacy /\ to \in 2..MaxMessages /\ pending = {Old}
          /\ header = SummaryOf(Old) /\ records = {header}
       \/ /\ "stale" \in Legacy /\ to \in 2..MaxMessages /\ pending = {Old}
          /\ header = Summary(<<2>>, "new") /\ records = {SummaryOf(Old), header}
    /\ failed = {} /\ lock = Nil
    /\ op = [o \in Op |-> NoOp]
    /\ rec = [p \in Process |-> NoRec]
    /\ result = [o \in Op |-> "none"]
    /\ deleting = FALSE
    /\ summaryFaults = 0 /\ summaryCrashes = 0 /\ deletes = 0

-----------------------------------------------------------------------------
(* The journal                                                             *)

AttemptAt(o, phase) == op' = [op EXCEPT ![o].at = phase]
Keep == UNCHANGED <<from, to, deleting, summaryCrashes, deletes>>
SummaryFault(kind) ==
    /\ kind \in SummaryFaultKind /\ summaryFaults < MaxSummaryFaults
    /\ summaryFaults' = summaryFaults + 1

\* persistProjection: a record that says something else is never replaced.
Conflicts_Never(t) == FALSE
Conflicts(t) == \E r \in records : r.id = t.id /\ r.text # t.text
Project(t) == records' = {r \in records : r.id # t.id} \cup {SummaryOf(t)}

\* applyCompactionTransactionWithoutLock: the summary must follow the active
\* one, and its messages must still be there.
Follows_Unread(t) == Front(t.id) = ActiveId
Follows(t) == Front(t.id) = ActiveId /\ EndOf(t.id) \in (from + 1)..to
Active(t) == ActiveId = t.id
Apply(t) ==
    /\ Active(t) \/ Follows(t)
    /\ header' = IF Active(t) THEN header ELSE SummaryOf(t)

Drop(t) == pending' = pending \ {t}
Isolate(t) == Drop(t) /\ failed' = failed \cup (pending \cap {t})

-----------------------------------------------------------------------------
(* recoverCompactions: one pass per process, which its readers share       *)

Recovering(p) == rec[p].at # "off"
PendingNames ==
    SetToSortSeq({t.id : t \in pending},
                 LAMBDA a, b : Last(a) < Last(b) \/ (Last(a) = Last(b) /\ Len(a) < Len(b)))

StartRecovery(p) == rec' = [rec EXCEPT ![p] = [NoRec EXCEPT !.at = "lock"]]
Read(p) == IF pending # {} /\ ~Recovering(p) THEN StartRecovery(p) ELSE UNCHANGED rec

\* Any reader of the session: a run that starts, a list, an inspection.
Load(p) ==
    /\ pending # {} /\ ~Recovering(p)
    /\ StartRecovery(p)
    /\ UNCHANGED <<disk, lock, op, result, deleting, summaryBounds>>

LockRecovery(p) ==
    /\ rec[p].at = "lock" /\ lock = Nil
    /\ lock' = p
    /\ rec' = [rec EXCEPT ![p] = [at |-> "read", todo |-> PendingNames, tx |-> Nil]]
    /\ UNCHANGED <<disk, op, result, deleting, summaryBounds>>

Tx(p) == rec[p].tx
RecAt(p, phase) == rec' = [rec EXCEPT ![p].at = phase]
Onward(p) == rec' = [rec EXCEPT ![p] = [at |-> "read", todo |-> Tail(@.todo), tx |-> Nil]]

ReadTransaction(p) ==
    /\ rec[p].at = "read" /\ rec[p].todo # << >>
    /\ \E t \in pending :
        /\ t.id = Head(rec[p].todo)
        /\ rec' = [rec EXCEPT ![p].at = "project", ![p].tx = t]
    /\ UNCHANGED <<disk, lock, op, result, deleting, summaryBounds>>

RecoverProjection(p) ==
    /\ rec[p].at = "project" /\ ~Conflicts(Tx(p))
    /\ Project(Tx(p))
    /\ RecAt(p, "apply")
    /\ UNCHANGED <<header, pending, failed, lock, op, result, summaryFaults>> /\ Keep

RecoverHeader(p) ==
    /\ rec[p].at = "apply"
    /\ Apply(Tx(p))
    /\ RecAt(p, "unlink")
    /\ UNCHANGED <<records, pending, failed, lock, op, result, summaryFaults>> /\ Keep

\* A proposal keeps its transaction, which is marked as committed.
RecoverUnlink(p) ==
    LET t == Tx(p) IN
    /\ rec[p].at = "unlink"
    /\ pending' = (pending \ {t}) \cup {u \in {[t EXCEPT !.committed = TRUE]} : t.proposal # "none"}
    /\ Onward(p)
    /\ UNCHANGED <<header, records, failed, lock, op, result, summaryFaults>> /\ Keep

Spares(t) == t.proposal = "open"
\* A conflict is terminal: the transaction is isolated, unless its proposal
\* still waits for the sweep.
RecoverConflict(p) ==
    LET t == Tx(p) IN
    /\ \/ rec[p].at = "project" /\ Conflicts(t)
       \/ rec[p].at = "apply" /\ ~Active(t) /\ ~Follows(t)
    /\ IF Spares(t) THEN UNCHANGED <<pending, failed>> ELSE Isolate(t)
    /\ Onward(p)
    /\ UNCHANGED <<header, records, lock, op, result, summaryFaults>> /\ Keep

\* Any other error isolates it too, unless it was committed before.
RecoverFails(p) ==
    LET t == Tx(p) IN
    /\ rec[p].at \in {"project", "apply", "unlink"}
    /\ SummaryFault("recover")
    /\ IF t.committed THEN UNCHANGED <<pending, failed>> ELSE Isolate(t)
    /\ Onward(p)
    /\ UNCHANGED <<header, records, lock, op, result>> /\ Keep

\* Done, or the transaction has gone and the pass throws.
EndRecovery(p) ==
    /\ rec[p].at = "read"
    /\ ~\E t \in pending : rec[p].todo # << >> /\ t.id = Head(rec[p].todo)
    /\ rec' = [rec EXCEPT ![p] = NoRec]
    /\ lock' = Nil
    /\ UNCHANGED <<disk, op, result, deleting, summaryBounds>>

RecoveryStep(p) ==
    \/ LockRecovery(p) \/ ReadTransaction(p) \/ RecoverProjection(p) \/ RecoverHeader(p) \/ RecoverUnlink(p)
    \/ RecoverConflict(p) \/ RecoverFails(p) \/ EndRecovery(p)

-----------------------------------------------------------------------------
(* An attempt: the sweep, maybeCompact and the commit                      *)

P(o) == ProcessOf[o]
FailAttempt(o) == result' = [result EXCEPT ![o] = "failed"] /\ AttemptAt(o, "end")

Begin(o) ==
    /\ op[o].at = "idle"
    /\ AttemptAt(o, "sweep")
    /\ UNCHANGED <<disk, lock, rec, result, deleting, summaryBounds>>

\* terminateRetiredCompactionProposals, before the summary and after it.
Sweep(o) ==
    /\ op[o].at = "sweep"
    /\ Read(P(o))
    /\ AttemptAt(o, "list")
    /\ UNCHANGED <<disk, lock, result, deleting, summaryBounds>>

Listed(t) == t.committed /\ t.proposal = "open"
ListPending(o) ==
    /\ op[o].at = "list" /\ ~Recovering(P(o))
    /\ op' = [op EXCEPT ![o].at = "close", ![o].todo = {t.id : t \in {u \in pending : Listed(u)}}]
    /\ UNCHANGED <<disk, lock, rec, result, deleting, summaryBounds>>

CloseProposal(o) ==
    /\ op[o].at = "close" /\ lock = Nil
    /\ \E id \in op[o].todo :
        /\ op' = [op EXCEPT ![o].todo = @ \ {id}]
        /\ pending' = {IF t.id = id /\ t.proposal = "open" THEN [t EXCEPT !.proposal = "closed"] ELSE t :
                       t \in pending}
    /\ UNCHANGED <<header, records, failed, lock, rec, result, summaryFaults>> /\ Keep

EndSweep(o) ==
    /\ op[o].at = "close" /\ op[o].todo = {}
    /\ AttemptAt(o, IF result[o] = "none" THEN "look" ELSE "end")
    /\ UNCHANGED <<disk, lock, rec, result, deleting, summaryBounds>>

\* The transcript and the header are read at the same time; the header waits
\* for a recovery when the journal is not empty.
Look(o) ==
    /\ op[o].at = "look"
    /\ \/ /\ "messages" \notin op[o].got
          /\ op' = [op EXCEPT ![o].got = @ \cup {"messages"}, ![o].span = <<from, to>>]
          /\ UNCHANGED rec
       \/ /\ "asked" \notin op[o].got
          /\ op' = [op EXCEPT ![o].got = @ \cup {"asked"}]
          /\ Read(P(o))
       \/ /\ "asked" \in op[o].got /\ "header" \notin op[o].got /\ ~Recovering(P(o))
          /\ op' = [op EXCEPT ![o].got = @ \cup {"header"}, ![o].prev = ActiveId]
          /\ UNCHANGED rec
    /\ UNCHANGED <<disk, lock, result, deleting, summaryBounds>>

\* The summary covers all but the recent messages, if that is more than before.
Decide(o) ==
    LET start == op[o].span[1]
        last == op[o].span[2]
        base == IF op[o].prev = << >> THEN start ELSE Last(op[o].prev)
        end == last - KeepRecent
    IN
    /\ op[o].at = "look" /\ {"messages", "header"} \subseteq op[o].got
    /\ \/ base \notin start..last /\ FailAttempt(o)
       \/ /\ base \in start..last /\ end > base
          /\ op' = [op EXCEPT ![o].at = "summarize", ![o].id = Append(op[o].prev, end)]
          /\ UNCHANGED result
       \/ /\ base \in start..last /\ end <= base
          /\ result' = [result EXCEPT ![o] = "nothing"] /\ AttemptAt(o, "end")
    /\ UNCHANGED <<disk, lock, rec, deleting, summaryBounds>>

Summarize(o) ==
    /\ op[o].at = "summarize"
    /\ AttemptAt(o, "lock")
    /\ UNCHANGED <<disk, lock, rec, result, deleting, summaryBounds>>

\* The model request fails or the signal is aborted.
Abort(o) ==
    /\ op[o].at = "summarize" /\ SummaryFault("abort")
    /\ FailAttempt(o)
    /\ UNCHANGED <<header, records, pending, failed, lock, rec>> /\ Keep

Own(o) == Transaction(op[o].id, o, FALSE, "none")
Holds(o, phase) == lock = o /\ op[o].at = phase

Lock(o) ==
    /\ op[o].at = "lock" /\ lock = Nil
    /\ lock' = o
    /\ AttemptAt(o, "journal")
    /\ UNCHANGED <<disk, rec, result, deleting, summaryBounds>>

Journal(o) ==
    /\ Holds(o, "journal")
    /\ pending' = {t \in pending : t.id # op[o].id} \cup {Own(o)}
    /\ AttemptAt(o, "project")
    /\ UNCHANGED <<header, records, failed, lock, rec, result, summaryFaults>> /\ Keep

CommitProjection(o) ==
    /\ Holds(o, "project") /\ ~Conflicts(Own(o))
    /\ Project(Own(o))
    /\ AttemptAt(o, "apply")
    /\ UNCHANGED <<header, pending, failed, lock, rec, result, summaryFaults>> /\ Keep

CommitHeader(o) ==
    /\ Holds(o, "apply")
    /\ Apply(Own(o))
    /\ AttemptAt(o, "unlink")
    /\ UNCHANGED <<records, pending, failed, lock, rec, result, summaryFaults>> /\ Keep

CommitUnlink(o) ==
    /\ Holds(o, "unlink")
    /\ Drop(Own(o))
    /\ lock' = Nil
    /\ result' = [result EXCEPT ![o] = "compacted"]
    /\ op' = [op EXCEPT ![o].at = "sweep"]
    /\ UNCHANGED <<header, records, failed, rec, summaryFaults>> /\ Keep

CommitConflict(o) ==
    /\ \/ Holds(o, "project") /\ Conflicts(Own(o))
       \/ Holds(o, "apply") /\ ~Active(Own(o)) /\ ~Follows(Own(o))
    /\ Isolate(Own(o))
    /\ lock' = Nil
    /\ FailAttempt(o)
    /\ UNCHANGED <<header, records, rec, summaryFaults>> /\ Keep

\* Any other error leaves the transaction in the journal, if it got there.
CommitFails(o) ==
    /\ \/ Holds(o, "journal") /\ SummaryFault("journal")
       \/ (Holds(o, "project") \/ Holds(o, "apply") \/ Holds(o, "unlink")) /\ SummaryFault("write")
    /\ lock' = Nil
    /\ FailAttempt(o)
    /\ UNCHANGED <<header, records, pending, failed, rec>> /\ Keep

CompactStep(o) ==
    \/ Sweep(o) \/ ListPending(o) \/ CloseProposal(o) \/ EndSweep(o) \/ Look(o) \/ Decide(o)
    \/ Summarize(o) \/ Abort(o) \/ Lock(o) \/ Journal(o) \/ CommitProjection(o) \/ CommitHeader(o)
    \/ CommitUnlink(o) \/ CommitConflict(o) \/ CommitFails(o)

-----------------------------------------------------------------------------
(* Messages, crashes, deletion                                             *)

AppendMessage ==
    /\ lock = Nil /\ to < MaxMessages
    /\ to' = to + 1
    /\ UNCHANGED <<from, header, records, pending, failed, lock, op, rec, result, deleting, summaryBounds>>

\* The lock of a dead process is stolen (FileLock).
SummaryCrash(p) ==
    /\ summaryCrashes < MaxSummaryCrashes /\ summaryCrashes' = summaryCrashes + 1
    /\ op' = [o \in Op |-> IF P(o) = p /\ op[o].at # "idle" THEN [op[o] EXCEPT !.at = "end"] ELSE op[o]]
    /\ rec' = [rec EXCEPT ![p] = NoRec]
    /\ lock' = IF lock = p \/ (lock \in Op /\ P(lock) = p) THEN Nil ELSE lock
    /\ UNCHANGED <<disk, result, deleting, summaryFaults, deletes>>

\* SessionManager.delete: the file under its lock, then the directory.
DeleteFile ==
    /\ lock = Nil /\ ~deleting /\ deletes < MaxDeletes /\ deletes' = deletes + 1
    /\ from' = to /\ header' = Nil /\ deleting' = TRUE
    /\ UNCHANGED <<to, records, pending, failed, lock, op, rec, result, summaryFaults, summaryCrashes>>

RemoveDirectory ==
    /\ deleting /\ deleting' = FALSE
    /\ records' = {} /\ pending' = {} /\ failed' = {}
    /\ UNCHANGED <<from, to, header, lock, op, rec, result, summaryBounds>>

-----------------------------------------------------------------------------
SummaryNext ==
    \/ \E o \in Op : Begin(o) \/ CompactStep(o)
    \/ \E p \in Process : Load(p) \/ RecoveryStep(p) \/ SummaryCrash(p)
    \/ AppendMessage \/ DeleteFile \/ RemoveDirectory

SummarySpec == SummaryInit /\ [][SummaryNext]_summaryVars
\* File operations and model requests end, and a lock that stays free is taken.
SummaryFairness ==
    (\A o \in Op : WF_summaryVars(CompactStep(o))) /\ (\A p \in Process : WF_summaryVars(RecoveryStep(p)))

-----------------------------------------------------------------------------
(* Properties                                                              *)

\* Types, and: no two pending transactions of a summary differ.
SummaryTypeOK ==
    /\ from \in 0..MaxMessages /\ to \in from..MaxMessages
    /\ header = Nil \/ header \in [id : Seq(1..MaxMessages), text : Op \cup {"old", "new"}]
    /\ \A t \in pending \cup failed : SummaryOf(t) \in [id : Seq(1..MaxMessages), text : Op \cup {"old", "new"}]
    /\ \A t, u \in pending : t.id = u.id => t = u
    /\ lock \in Op \cup Process \cup {Nil}
    /\ \A o \in Op : op[o].at \in OpPhase

\* The active summary is read from its projection: wherever a commit or a
\* recovery was cut off, the projection is there and says the same, until the
\* session is deleted.
ActiveIsStored == header # Nil => header \in records \/ deletes > 0

\* Summaries follow one another and cover more and more of the messages that
\* are there, whichever attempts and recoveries commit them.
Chain == INSTANCE SummaryChain WITH chain <- ActiveId
ChainSpec == Chain!Spec

\* A summary that an attempt reported as written is active or led to the one
\* that is.
CompactedIsActive ==
    \A o \in Op : result[o] = "compacted" => deletes > 0 \/ IsPrefix(op[o].id, ActiveId)

\* RS-08: a committed transaction with an open proposal is never isolated,
\* where the sweep could not reach it.
OpenIsNotIsolated == \A t \in failed : ~(t.committed /\ t.proposal = "open")

\* All of them: the active summary can be read, one reported as written is in the
\* chain, an open proposal is left for the sweep.
SummariesAreKept ==
    SummaryTypeOK /\ ActiveIsStored /\ CompactedIsActive /\ OpenIsNotIsolated

\* An attempt that has begun ends: the lock, the recovery and the sweep do not
\* wait for one another.
AttemptsEnd == \A o \in Op : []<>(op[o].at \in {"idle", "end"})

(* What the comments say and the code does not do.                         *)

\* A transaction that could still be applied leaves the journal only when it is.
TransientStaysPending ==
    [][\A t \in pending \ pending' :
        Follows(t) /\ ~Conflicts(t) =>
            ActiveId' = t.id \/ deletes' > 0 \/ \E u \in pending' : u.id = t.id]_summaryVars

\* Nothing of a deleted session stays on disk once everybody is at rest.
DeletedIsGone ==
    deletes > 0 /\ ~deleting /\ from = to /\ (\A o \in Op : op[o].at \in {"idle", "end"}) =>
        records = {} /\ pending = {} /\ failed = {}
=============================================================================
