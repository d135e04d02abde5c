---------------------------- MODULE MCLoginFlow ----------------------------
(* What is interchangeable, and what no later step or property reads. *)
EXTENDS LoginFlow, TLC

CONSTANTS f1, f2, b1, b2, s1, s2, t1, t2, u1, u2

Symmetry ==
    Permutations(Flows) \union Permutations(Browsers) \union
    Permutations(TGTs) \union Permutations(Services)

\* Return starts from new scopes; a tab that has ended is only closed.
Live(f) == state[f] \notin {"closed", "away", "done", "failed"}

FlowView(f) ==
    << IF state[f] = "done" THEN "failed" ELSE state[f], browser[f],
       IF Live(f) THEN <<service[f], flowTGT[f], reqTGT[f], renew[f]>> ELSE <<>>,
       IF state[f] \in {"submitted", "created"} THEN user[f] ELSE NoOne,
       state[f] = "answer" /\ warnings[f],
       IF state[f] \in LoggedIn \union {"messages", "grant"} THEN own[f] ELSE NoTGT,
       IF overtaken[f] \/ state[f] \in {"done", "failed"} THEN <<NoService, FALSE>>
       ELSE <<asked[f], forgotten[f]>> >>

TGTView(t) ==
    << t \in registry, t \in registry /\ t \in missed,
       IF t \in registry THEN owner[t] ELSE {}, owner[t] = {} >>

Seen == << [f \in Flows |-> FlowView(f)], [t \in TGTs |-> TGTView(t)],
           cookie, saved, hasWarningMessages >>
=============================================================================
