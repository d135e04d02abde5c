--------------------------- MODULE MCSingleSignOut ---------------------------
(* Instances of SingleSignOut for TLC: how the session ids are split over    *)
(* the browsers, and what is interchangeable.  Any session may carry any     *)
(* token, as the hzbank portal hands them out.                               *)
EXTENDS SingleSignOut, Integers, FiniteSets, TLC

CONSTANTS s1, s2, t1, t2

\* Two browsers with a session each.
TwoBrowsers == [s \in Sids |-> s]

Symmetry == Permutations(Threads) \union Permutations(Sids) \union Permutations(Tokens)

\* With HTTP sessions, which are stored by the same code, one session will do.
HttpBound ==
    needDoHttpSession => Cardinality({s \in Sids : shiroState[s] # "fresh"}) <= 1

\* The tokens of the latest request matter to TokenRequestIsRecorded only, and
\* its key to live sessions only.
Seen == << needDoHttpSession, maps, sessions, pc, [th \in Threads |-> [req[th] EXCEPT !.args = {}]],
           loggedOut, carried, crossed,
           [s \in Sids |-> IF shiroState[s] = "live" THEN latest[s].key ELSE NoKey] >>
=============================================================================
