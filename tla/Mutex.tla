------------------------------- MODULE Mutex -------------------------------
(***************************************************************************)
(* What a lock promises its callers: at most one of them is inside at a    *)
(* time, and it leaves by itself or by dying.                              *)
(***************************************************************************)
CONSTANT Caller

VARIABLE inside     \* the callers that hold the lock

Init == inside = {}

Enter(c) == inside = {} /\ inside' = {c}
Leave(c) == inside = {c} /\ inside' = {}

Next == \E c \in Caller : Enter(c) \/ Leave(c)

Spec == Init /\ [][Next]_inside
=============================================================================
