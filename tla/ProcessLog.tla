----------------------------- MODULE ProcessLog -----------------------------
(***************************************************************************)
(* What the record of a process instance promises: every task is recorded  *)
(* at most once, after the tasks it waits for, and the instance is closed  *)
(* only when nothing is left to do.                                        *)
(***************************************************************************)
CONSTANTS Tasks, Pre

VARIABLES
    log,        \* tasks recorded as completed
    closed      \* the instance is recorded as ended

Init == log = {} /\ closed = FALSE

\* The last task recorded closes the instance; no other one does.
Record(t) ==
    /\ ~closed
    /\ t \notin log
    /\ Pre[t] \subseteq log
    /\ log' = log \union {t}
    /\ closed' = (log' = Tasks)

Next == \E t \in Tasks : Record(t)

Spec == Init /\ [][Next]_<<log, closed>>
=============================================================================
