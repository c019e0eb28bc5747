------------------------- MODULE MCForwardingRenewal -------------------------
(* Model-checking instance of ForwardingRenewal: two signers, a short and  *)
(* a long token lifetime (the wait rounds differently for each) and a     *)
(* login back-off of two time units.                                       *)
EXTENDS ForwardingRenewal, TLC

CONSTANTS s1, s2

MCSigners == {s1, s2}
MCLifetimes == {3, 7}
MCBackoffDelay == 2

MCSymmetry == Permutations(MCSigners)
=============================================================================
