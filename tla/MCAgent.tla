------------------------------- MODULE MCAgent -------------------------------
(***************************************************************************)
(* Small instances of RunLease and ToolBatch side by side, in the          *)
(* behaviours of one specification: `instance' says which one works, the   *)
(* others rest in their initial state.                                     *)
(***************************************************************************)
EXTENDS RunLease, ToolBatch, TLC

CONSTANTS p1, p2, p3, r1

VARIABLES instance

-----------------------------------------------------------------------------
(* The lease of one run.  The constants of the configuration are those of  *)
(* two failures and three processes; here two processes, one of which      *)
(* dies, and three processes, two of which die, without a failure.         *)
Failing == INSTANCE RunLease WITH Process <- {p1, p2}, MaxCrashes <- 1
Dying == INSTANCE RunLease WITH
    FaultKind <- {}, MaxGrants <- 3, LastRenewal <- 1, MaxFaults <- 0

\* The second and the third process start when the first has died.
DyingStep == Dying!LeaseNext /\ (crashes' = 0 => Cardinality({p \in Process : proc'[p] = "up"}) <= 1)

-----------------------------------------------------------------------------
(* The tool calls: three of each kind that is repeated.  The constants of  *)
(* the configuration are those of "again" with a second fault.             *)
Ops == {"write a", "write b", "rewrite a", "update a", "opaque", "shell", "read"}
Asks ==
    [write1 |-> "write a", write2 |-> "write a", write3 |-> "write a", writeb |-> "write b",
     rewrite |-> "rewrite a", update |-> "update a",
     opaque1 |-> "opaque", opaque2 |-> "opaque", opaque3 |-> "opaque",
     shell1 |-> "shell", shell2 |-> "shell", shell3 |-> "shell", read |-> "read"]
Calls == DOMAIN Asks

WriteTo(file) == {[path |-> <<"src", file>>, mode |-> "write"]}
Accesses ==
    [o \in Ops |-> CASE o \in {"write a", "rewrite a", "update a"} -> WriteTo("a")
                     [] o = "write b" -> WriteTo("b")
                     [] o = "read" -> {[path |-> <<"src">>, mode |-> "read"]}
                     [] OTHER -> {}]

Writing == << <<"write1", "rewrite", "write2", "update", "write3">> >>

\* A file is written, changed, written again, changed and written once more.
Again == INSTANCE ToolBatch WITH MaxBatchFaults <- 1

\* Two files are written at once, and the first is written again after the
\* directory was read.
TwoFiles == << <<"write1", "writeb", "read">>, <<"write2">> >>
Parallel == INSTANCE ToolBatch WITH Rounds <- TwoFiles, Capacity <- 4, MaxBatchFaults <- 1

\* Two files are written one after the other with a ledger of two entries, the
\* first again with other content, and then its first write is repeated.
Rewriting == << <<"write1", "writeb", "rewrite">>, <<"write2">> >>
Serial == INSTANCE ToolBatch WITH Rounds <- Rewriting, MaxParallel <- 1, Capacity <- 2

\* Two identical calls without resources, a read of the directory, a third of them.
Opaque == INSTANCE ToolBatch WITH
    Rounds <- << <<"opaque1", "opaque2", "read">>, <<"opaque3">> >>,
    MaxParallel <- 2, MaxRepeat <- 2, Capacity <- 2

\* A shell command, repeated under new authorizations.
ShellCalls == INSTANCE ToolBatch WITH
    Rounds <- << <<"shell1">>, <<"shell2", "write1">>, <<"shell3">> >>,
    MaxParallel <- 2, Capacity <- 2

-----------------------------------------------------------------------------
Init ==
    /\ instance \in {"dying", "failing", "parallel", "serial", "opaque", "shell", "again"}
    /\ LeaseInit /\ ToolInit

ToolNext ==
    \/ instance = "parallel" /\ Parallel!BatchNext
    \/ instance = "serial" /\ Serial!BatchNext
    \/ instance = "opaque" /\ Opaque!BatchNext
    \/ instance = "shell" /\ ShellCalls!BatchNext
    \/ instance = "again" /\ Again!BatchNext

Next ==
    \/ instance = "dying" /\ DyingStep /\ UNCHANGED <<instance, batchVars>>
    \/ instance = "failing" /\ Failing!LeaseNext /\ UNCHANGED <<instance, batchVars>>
    \/ ToolNext /\ UNCHANGED <<instance, leaseVars>>

Spec == Init /\ [][Next]_<<instance, leaseVars, batchVars>>

ASSUME Parallel!BatchConstants /\ Serial!BatchConstants
ASSUME Opaque!BatchConstants /\ ShellCalls!BatchConstants /\ Again!BatchConstants

\* Processes are interchangeable.
ProcessesAlike == Permutations({p1, p2, p3})
=============================================================================
