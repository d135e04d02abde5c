--------------------------- MODULE ServiceNotices ---------------------------
(***************************************************************************)
(* What a logout promises the services a ticket let its user into: each    *)
(* service that is in when the logout begins is owed a message until it is *)
(* told, at least once, or the logout breaks off.  A service that gets in  *)
(* later may be missed, and after the logout none can ask to get in.       *)
(* Services that answer the browser themselves are passed by.              *)
(***************************************************************************)
EXTENDS Naturals

CONSTANTS
    Tgts, Services,
    TicketOf,    \* the ticket a service is let in by
    PassedBy,    \* services that are never told
    Unheard      \* services that count as told without a message

VARIABLES
    stage,       \* of each ticket: open, closing, over
    due,         \* of each service: unknown, asked, owed, late, told, dropped, lost
    notices      \* messages to each service

Init ==
    /\ stage = [t \in Tgts |-> "open"]
    /\ due = [k \in Services |-> "unknown"]
    /\ notices = [k \in Services |-> 0]

Begin(t) ==
    /\ stage[t] = "open"
    /\ stage' = [stage EXCEPT ![t] = "closing"]
    /\ UNCHANGED <<due, notices>>

Close(t) ==
    /\ stage[t] = "closing"
    /\ stage' = [stage EXCEPT ![t] = "over"]
    /\ UNCHANGED <<due, notices>>

Turn(k, d) == due' = [due EXCEPT ![k] = d] /\ UNCHANGED stage

Ask(k) ==
    /\ due[k] = "unknown"
    /\ stage[TicketOf[k]] # "over"
    /\ Turn(k, "asked")
    /\ UNCHANGED notices

Admit(k) ==
    /\ due[k] = "asked"
    /\ Turn(k, IF stage[TicketOf[k]] = "open" THEN "owed" ELSE "late")
    /\ UNCHANGED notices

Message(k) ==
    notices' = IF k \in Unheard THEN notices ELSE [notices EXCEPT ![k] = @ + 1]

Tell(k) ==
    /\ due[k] \in {"owed", "late"}
    /\ k \notin PassedBy
    /\ Turn(k, "told")
    /\ Message(k)

TellAgain(k) ==
    /\ due[k] = "told"
    /\ Message(k)
    /\ UNCHANGED <<stage, due>>

PassBy(k) ==
    /\ due[k] \in {"owed", "late"}
    /\ k \in PassedBy
    /\ Turn(k, "dropped")
    /\ UNCHANGED notices

Miss(K) ==
    /\ \A k \in K : due[k] = "late"
    /\ due' = [k \in Services |-> IF k \in K THEN "dropped" ELSE due[k]]
    /\ UNCHANGED <<stage, notices>>

\* A logout breaks off: services of its ticket may then be told by nobody, and
\* unless another logout goes on, the ticket is open for those that have asked.
Break(t) ==
    /\ stage[t] # "open"
    /\ \E after \in {stage[t]} \union (IF stage[t] = "closing" THEN {"open"} ELSE {}) :
          stage' = [stage EXCEPT ![t] = after]
    /\ \E K \in SUBSET {k \in Services : TicketOf[k] = t /\ due[k] \in {"owed", "late"}} :
          due' = [k \in Services |-> IF k \notin K THEN due[k]
                                    ELSE IF k \in PassedBy THEN "dropped" ELSE "lost"]
    /\ UNCHANGED notices

Next ==
    \/ \E t \in Tgts : Begin(t) \/ Close(t) \/ Break(t)
    \/ \E k \in Services : Ask(k) \/ Admit(k) \/ Tell(k) \/ TellAgain(k) \/ PassBy(k)
    \/ \E K \in SUBSET Services : Miss(K)

Spec == Init /\ [][Next]_<<stage, due, notices>>
=============================================================================
