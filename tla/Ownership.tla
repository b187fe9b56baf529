----------------------------- MODULE Ownership -----------------------------
(***************************************************************************)
(* What a lease promises: a resource has at most one owner, who takes it   *)
(* when nobody owns it and keeps it until it gives it up or dies.          *)
(***************************************************************************)
CONSTANTS Process, Resource

VARIABLE owners     \* owners[r]: the processes that own r

Init == owners = [r \in Resource |-> {}]

Take(p, r) == owners[r] = {} /\ owners' = [owners EXCEPT ![r] = {p}]
GiveUp(p, r) == owners[r] = {p} /\ owners' = [owners EXCEPT ![r] = {}]
Die(p) == owners' = [r \in Resource |-> owners[r] \ {p}]

Next == \E p \in Process : Die(p) \/ \E r \in Resource : Take(p, r) \/ GiveUp(p, r)

Spec == Init /\ [][Next]_owners
=============================================================================
