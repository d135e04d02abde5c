------------------------- MODULE MCQuestionBoards -------------------------
(* Questions and answers of the server for TLC. *)
EXTENDS QuestionBoards

CONSTANTS q1, q2

Q(n, k) == [name |-> n, kind |-> k]

\* Two questions that may be staged; one after an incomplete one; a minor one
\* alone.
MCLeftPages == {<<Q(q1, "ready"), Q(q2, "ready")>>,
                <<Q(q2, "incomplete"), Q(q1, "ready")>>,
                <<Q(q1, "solving")>>}

MCMajorPages == {<<Q(q1, "ready"), Q(q2, "incomplete")>>, <<Q(q2, "closed")>>}
=============================================================================
