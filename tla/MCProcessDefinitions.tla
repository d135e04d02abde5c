------------------------ MODULE MCProcessDefinitions ------------------------
(***************************************************************************)
(* A role for one task, and a second task without any.                      *)
(***************************************************************************)
EXTENDS ProcessDefinitions, TLC

CONSTANTS u1, u2, r1

MCConfigs == {u1 :> {r1}, (u1 :> {r1}) @@ (u2 :> {})}

Symmetry == Permutations(Threads) \union Permutations(Names)
=============================================================================
