------------------------------ MODULE MCAppend ------------------------------
(***************************************************************************)
(* DurableAppend for TLC: kernels that compete to end one run.  Two of the *)
(* inputs share the identity of the task outcome with different contents.  *)
(***************************************************************************)
EXTENDS DurableAppend, TLC

CONSTANTS q1, r1, o1, o2

Plain(type) == [key |-> type, event |-> [type |-> type]]

Settlement == [key |-> "settled", event |-> [type |-> "final_reply_settled", reply |-> r1]]
Proposal == [key |-> "proposed", event |-> [type |-> "final_reply_proposed", reply |-> r1]]
OutcomeInput(o) == [key |-> "outcome", event |-> [type |-> "task_outcome_settled", outcome |-> o]]

RequestInput ==
    [key |-> "request", event |-> [type |-> "model_request_started", req |-> q1, retryOf |-> None]]

MCInput ==
    {Plain("run_accepted"), Plain("run_failed"), Plain("run_completed"),
     RequestInput, Proposal, Settlement, OutcomeInput(o1), OutcomeInput(o2)}

\* The inputs of the liveness run.
MCFewInput == {Plain("run_accepted"), OutcomeInput(o1), OutcomeInput(o2), Proposal, Settlement}

MCSymmetry == Permutations(Appender)
=============================================================================
