---------------------------- MODULE SummaryChain ----------------------------
(***************************************************************************)
(* What the summaries of a session promise: each one is made from the one  *)
(* that was active and covers more messages, of those that are there; a    *)
(* deletion starts over.                                                   *)
(***************************************************************************)
EXTENDS Naturals, Sequences, SequencesExt

CONSTANTS MaxMessages

VARIABLES
    from,   \* the last deleted message
    to,     \* the last message
    chain   \* the ends of the summaries that led to the active one

vars == <<from, to, chain>>

Covered == IF chain = << >> THEN from ELSE Last(chain)

Init == from = 0 /\ to \in 0..MaxMessages /\ chain \in {<< >>} \cup {<<e>> : e \in 1..to}

Write == to' = to + 1 /\ UNCHANGED <<from, chain>>
Summarize == \E e \in (Covered + 1)..to : chain' = Append(chain, e) /\ UNCHANGED <<from, to>>
Delete == from' = to /\ chain' = << >> /\ UNCHANGED to

Next == Write \/ Summarize \/ Delete

Spec == Init /\ [][Next]_vars
=============================================================================
