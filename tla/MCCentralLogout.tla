--------------------------- MODULE MCCentralLogout ---------------------------
(* Instances of CentralLogout for TLC: two TGTs of one hzbank client token, or *)
(* one TGT with several service tickets.                                       *)
EXTENDS CentralLogout, TLC

CONSTANTS g1, k1, k2, c1

\* Every service ticket comes from the TGT g1, but for those of the second one.
FirstTicket == [k \in Tokens |-> IF k \in {k1, k2} THEN g1 ELSE CHOOSE t \in Tgts : t # g1]

\* All TGTs were logged in with the same client token.
SameClient == [t \in Tgts |-> c1]

\* Request threads are interchangeable.
ThreadSymmetry == Permutations(Threads)
=============================================================================
