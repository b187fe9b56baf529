------------------------------- MODULE MCRun -------------------------------
\* DurableRun with one final reply and two task outcomes, one of them the
\* unknown outcome only recovery records.
EXTENDS DurableRun, TLC

MCSymmetry == Permutations(Req)
=============================================================================
