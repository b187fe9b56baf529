------------------------------ MODULE MCKernel ------------------------------
(***************************************************************************)
(* DurableKernel for TLC: every event over two effects, two requests and   *)
(* one value of each other field.                                          *)
(***************************************************************************)
EXTENDS DurableKernel, TLC

MCSymmetry == Permutations(Req) \cup Permutations(Effect)
=============================================================================
