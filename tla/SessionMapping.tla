--------------------------- MODULE SessionMapping ---------------------------
(***************************************************************************)
(* The object that remembers which session a CAS token was issued for:     *)
(* ShiroHashMapBackedSessionMappingStorage, and, line for line the same    *)
(* over HttpSessions, HashMapBackedSessionMappingStorage.  A storage is a  *)
(* value here; each operator is one synchronized method of the class, so   *)
(* whoever composes them decides what happens between two calls.           *)
(*                                                                         *)
(* Java's HashMap takes null as a key and answers null for a missing one.  *)
(* NoKey is that null: a session can really be stored under it.  Unmapped  *)
(* says that a session id has no entry at all, which Map.get cannot tell   *)
(* from an entry whose value is null.                                      *)
(***************************************************************************)
CONSTANTS
    Tokens,     \* mapping ids: CAS service tickets and hzbank tokens
    Sids,       \* ids of sessions, created or to come
    NoKey,      \* the null mapping id
    NoSid,      \* no session
    Unmapped    \* no entry in ID_TO_SESSION_KEY_MAPPING

ASSUME MappingNulls ==
    /\ NoKey \notin Tokens
    /\ NoSid \notin Sids
    /\ Unmapped \notin Tokens \union {NoKey}

Keys == Tokens \union {NoKey}

\* managed is MANAGED_SESSIONS, keyOf is ID_TO_SESSION_KEY_MAPPING.
Storage == [managed : [Keys -> Sids \union {NoSid}],
            keyOf   : [Sids -> Keys \union {Unmapped}]]

EmptyStorage == [managed |-> [k \in Keys |-> NoSid],
                 keyOf   |-> [s \in Sids |-> Unmapped]]

\* ID_TO_SESSION_KEY_MAPPING.get: null for a missing entry as for a null one.
KeyFound(st, s) == IF st.keyOf[s] = Unmapped THEN NoKey ELSE st.keyOf[s]

\* Mutant: the put into MANAGED_SESSIONS is missing.
AddKeyOnly(st, k, s) == [st EXCEPT !.keyOf[s] = k]

AddSessionById(st, k, s) ==
    [managed |-> [st.managed EXCEPT ![k] = s],
     keyOf   |-> [st.keyOf EXCEPT ![s] = k]]

\* Mutant: the entry in MANAGED_SESSIONS stays.
RemoveKeyOnly(st, s) == [st EXCEPT !.keyOf[s] = Unmapped]

\* Whatever session the key found leads to is forgotten, the caller's or not.
RemoveBySessionById(st, s) ==
    [managed |-> [st.managed EXCEPT ![KeyFound(st, s)] = NoSid],
     keyOf   |-> [st.keyOf EXCEPT ![s] = Unmapped]]

\* Mutant: a session is only returned for its latest key.
SessionOfLatestKey(st, k) ==
    IF \A s \in Sids : st.managed[k] = s => st.keyOf[s] = k THEN st.managed[k] ELSE NoSid

\* What removeSessionByMappingId(k) returns, and the storage it leaves: the
\* entry removed is the one of the session's latest key, not that of k.
SessionFound(st, k) == st.managed[k]

RemoveSessionByMappingId(st, k) ==
    IF st.managed[k] = NoSid THEN st ELSE RemoveBySessionById(st, st.managed[k])

-----------------------------------------------------------------------------

\* Every entry of the first map that leads to s is matched by that of the second.
Forward(st, s) == \A k \in Keys : st.managed[k] = s => st.keyOf[s] = k
=============================================================================
