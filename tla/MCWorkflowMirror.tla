-------------------------- MODULE MCWorkflowMirror --------------------------
(* Process nets for TLC. *)
EXTENDS WorkflowMirror, TLC

CONSTANTS a, b, c, d, e

\* a, then b and c in parallel, then d that joins them; e follows b alone and
\* ends a branch of its own.
ForkJoin == [t \in Tasks |-> CASE t = a -> {}
                               [] t \in {b, c} -> {a}
                               [] t = d -> {b, c}
                               [] t = e -> {b}]

\* Request threads are interchangeable.
ThreadSymmetry == Permutations(Threads)
=============================================================================
