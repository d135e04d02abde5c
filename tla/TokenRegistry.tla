---------------------------- MODULE TokenRegistry ----------------------------
(***************************************************************************)
(* What single sign-out promises of the storage of sessions: a token leads *)
(* to at most one session, a request of which carried it; sessions may     *)
(* share a token, and then take it over from each other.  A token is bound *)
(* by a request at work on the session, and its entry goes only while a    *)
(* request is at work on a session that carried it: an idle session keeps  *)
(* the tokens that are its own.                                            *)
(***************************************************************************)
CONSTANTS Tokens, Sids, NoSid

VARIABLES
    reg,        \* the session each token leads to
    carried,    \* <<t, s>> once a request of session s has carried token t
    busy        \* the sessions requests are at work on

vars == <<reg, carried, busy>>

Init ==
    /\ reg = [t \in Tokens |-> NoSid]
    /\ carried = {}
    /\ busy = {}

\* A request comes to work on s, with the tokens it carries, if any.
Begin(s, tokens) ==
    /\ busy' = busy \union {s}
    /\ carried' = carried \union (tokens \X {s})
    /\ UNCHANGED reg

End(s) ==
    /\ busy' = busy \ {s}
    /\ UNCHANGED <<reg, carried>>

Bind(t, s) ==
    /\ <<t, s>> \in carried
    /\ s \in busy
    /\ reg' = [reg EXCEPT ![t] = s]
    /\ busy' \in {busy, busy \ {s}}
    /\ UNCHANGED carried

\* For the sake of s, which carried t, nobody is found under t any more.
Free(t, s) ==
    /\ <<t, s>> \in carried
    /\ s \in busy \union busy'
    /\ reg' = [reg EXCEPT ![t] = NoSid]
    /\ busy' \in {busy, busy \union {s}, busy \ {s}}
    /\ UNCHANGED carried

Next ==
    \E s \in Sids :
        \/ \E tokens \in SUBSET Tokens : Begin(s, tokens)
        \/ End(s)
        \/ \E t \in Tokens : Bind(t, s) \/ Free(t, s)

Spec == Init /\ [][Next]_vars
=============================================================================
