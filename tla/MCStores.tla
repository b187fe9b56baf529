------------------------------ MODULE MCStores ------------------------------
(***************************************************************************)
(* Small instances of FileLock, DurableInbox and UsageIndex side by side,  *)
(* in the behaviours of one specification: `instance' says which one       *)
(* works, the others rest in their initial state.                          *)
(***************************************************************************)
EXTENDS DurableInbox, FileLock, UsageIndex

VARIABLE instance

-----------------------------------------------------------------------------
(* The lock.  The configuration: two waiting callers and one that tries;   *)
(* owners die, writes, read-backs and unlinks fail.                        *)

-----------------------------------------------------------------------------
(* The inbox.  The constants of the configuration: two callers, each in a  *)
(* process of its own, of which one may crash; two commands, of which one  *)
(* is always refused.                                                      *)
HomeOf == [c \in {"a", "b"} |-> IF c = "a" THEN "p" ELSE "q"]

\* One of the processes, the other never starts; two crashes, one append or write
\* that fails.
InboxOne == INSTANCE DurableInbox WITH MaxClaims <- 4, MaxCalls <- 3, MaxCrashes <- 2, MaxFaults <- 1
OneNext == InboxOne!InboxNext /\ cache'["q"] = None

-----------------------------------------------------------------------------
(* The usage index: two runs, of which one has an older event.  The        *)
(* configuration: the writers live in the service's process.               *)

\* The writers in another process, under the lock of the directory.
Shared == INSTANCE UsageIndex WITH
    SameProcess <- FALSE, Trusted <- FALSE, UsageFaultKind <- {"persist", "crash"},
    MaxUsageFaults <- 2, MaxUsageRequests <- 1
-----------------------------------------------------------------------------
vars == <<instance, lockVars, inboxVars, usageVars>>

Init ==
    /\ instance \in {"faulty lock", "inbox", "warm inbox", "inbox of one", "own usage", "shared usage"}
    /\ FileLockInit
    /\ InboxInit
    /\ UsageInit

Next ==
    \/ instance = "faulty lock" /\ FileLockNext /\ UNCHANGED <<instance, inboxVars, usageVars>>
    \/ instance = "inbox" /\ InboxNext /\ UNCHANGED <<instance, lockVars, usageVars>>
    \/ instance = "warm inbox" /\ WarmNext /\ UNCHANGED <<instance, lockVars, usageVars>>
    \/ instance = "inbox of one" /\ OneNext /\ UNCHANGED <<instance, lockVars, usageVars>>
    \/ instance = "own usage" /\ UsageNext /\ UNCHANGED <<instance, lockVars, inboxVars>>
    \/ instance = "shared usage" /\ Shared!UsageNext /\ UNCHANGED <<instance, lockVars, inboxVars>>

Spec == Init /\ [][Next]_vars

ASSUME InboxOne!InboxConstants
ASSUME Shared!UsageConstants

-----------------------------------------------------------------------------
\* DurableInbox: a completed command is never rewritten, by one process across its
\* crashes, by several when their calls start warm; then two claims of a command
\* are never alive at once.
CommandsAreFinal ==
    /\ [](instance = "warm inbox" => ClaimsAreFenced)
    /\ [][(instance \in {"warm inbox", "inbox of one"}) => CompletedStays]_inboxVars
=============================================================================
