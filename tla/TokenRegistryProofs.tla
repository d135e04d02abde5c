------------------------- MODULE TokenRegistryProofs -------------------------
(***************************************************************************)
(* SingleSignOut implements TokenRegistry, logouts stay within their       *)
(* sessions, and recorded sessions stay reachable: proofs for any number   *)
(* of threads, sessions, browsers and tokens.                              *)
(***************************************************************************)
EXTENDS SingleSignOutProofs

USE DEF RecordPcs, LogoutPcs, Pcs, Life

-----------------------------------------------------------------------------
(* A session is only mapped to, and found under, tokens its requests carried. *)

\* Every step of the system leaves the storage alone, removes, or is ShiroAdd.
LEMMA MapMoves ==
    ASSUME TypeOK, [Next]_vars
    PROVE  \/ Shrinks(shiroMap, shiroMap')
           \/ \E th \in Threads : ShiroAdd(th)
<1>1. ASSUME NEW th \in Threads, Step(th), ~ShiroAdd(th)
      PROVE  Shrinks(shiroMap, shiroMap')
  <2>1. /\ shiroMap \in Storage
        /\ req[th].key \in Keys
        /\ Equipped(pc[th], req[th])
    BY DEF TypeOK, ThreadsOK, Requests
  <2>2. CASE ShiroRemove(th) \/ ShiroNotify(th)
    BY <2>1, <2>2 DEF ShiroRemove, ShiroNotify, Equipped, Shrinks
  <2>3. CASE ShiroLookup(th)
    BY <2>1, <2>3, LookupShrinks DEF ShiroLookup
  <2>4. CASE shiroMap' = shiroMap
    BY <2>4 DEF Shrinks
  <2> QED
    BY <1>1, <2>2, <2>3, <2>4
    DEF Step, HttpRemove, HttpRefused, HttpAdd, ShiroStop, ShiroStopFails, HttpLookup,
        HttpInvalidate, maps
<1>2. ASSUME \/ \E th \in Threads, s \in Sids, ticket, token \in Keys :
                    TokenRequest(th, s, ticket, token)
             \/ \E th \in Threads, t \in Tokens : LogoutRequest(th, t)
             \/ \E th \in Threads, s, h \in Sids : ServletLogout(th, s, h)
             \/ \E s \in Sids : ShiroExpire(s) \/ HttpExpire(s)
             \/ UNCHANGED vars
      PROVE  shiroMap' = shiroMap
  BY <1>2 DEF TokenRequest, LogoutRequest, ServletLogout, ShiroExpire, HttpExpire, maps, vars
<1> QED BY <1>1, <1>2 DEF Next, Shrinks

\* Thread u is still recording what it was recording.
SameRecord(u) ==
    pc'[u] \in RecordPcs =>
        pc[u] \in RecordPcs /\ req'[u].sid = req[u].sid /\ req'[u].key = req[u].key

\* Only TokenRequest begins a recording.
LEMMA RecordKept ==
    ASSUME TypeOK, [Next]_vars,
           ~ \E th \in Threads, s \in Sids, ticket, token \in Keys :
                TokenRequest(th, s, ticket, token)
    PROVE  \A u \in Threads : SameRecord(u)
<1>0. ThreadsOK
  BY DEF TypeOK
<1>1. ASSUME NEW th \in Threads, Step(th)
      PROVE  \A u \in Threads : SameRecord(u)
  <2>1. ASSUME NEW h \in Sids, HttpRemove(th, h)
        PROVE  \A u \in Threads : SameRecord(u)
    <3>1. /\ req' = [req EXCEPT ![th] = [req[th] EXCEPT !.hid = h]]
          /\ req[th] \in Requests
          /\ pc[th] = "httpRemove"
          /\ pc' = [pc EXCEPT ![th] = "httpAdd"]
      BY <1>0, <2>1 DEF HttpRemove, Goto, ThreadsOK
    <3>2. req'[th].sid = req[th].sid /\ req'[th].key = req[th].key
      BY <1>0, <3>1 DEF ThreadsOK, Requests
    <3> QED BY <1>0, <3>1, <3>2 DEF ThreadsOK, SameRecord
  <2>2. CASE ShiroRemove(th)
    BY <1>0, <2>2 DEF ShiroRemove, Goto, ThreadsOK, SameRecord
  <2>3. CASE ShiroAdd(th)
    BY <1>0, <2>3 DEF ShiroAdd, ThenHttp, Finish, Goto, ThreadsOK, SameRecord
  <2>4. CASE HttpRefused(th) \/ HttpAdd(th) \/ ShiroStopFails(th) \/ HttpInvalidate(th)
    BY <1>0, <2>4
    DEF HttpRefused, HttpAdd, ShiroStopFails, HttpInvalidate, Finish, Goto, ThreadsOK, SameRecord
  <2>5. CASE ShiroLookup(th) \/ HttpLookup(th)
    BY <1>0, <2>5 DEF ShiroLookup, HttpLookup, ThenHttp, Finish, Goto, ThreadsOK, SameRecord
  <2>6. CASE ShiroStop(th)
    BY <1>0, <2>6 DEF ShiroStop, Goto, ThreadsOK, SameRecord
  <2>7. CASE ShiroNotify(th)
    BY <1>0, <2>7 DEF ShiroNotify, ThenHttp, Finish, Goto, ThreadsOK, SameRecord
  <2> QED BY <1>1, <2>1, <2>2, <2>3, <2>4, <2>5, <2>6, <2>7 DEF Step
<1>2. ASSUME \/ \E th \in Threads, t \in Tokens : LogoutRequest(th, t)
             \/ \E th \in Threads, s, h \in Sids : ServletLogout(th, s, h)
      PROVE  \A u \in Threads : SameRecord(u)
  BY <1>0, <1>2 DEF LogoutRequest, ServletLogout, Goto, ThreadsOK, SameRecord
<1>3. ASSUME (\E s \in Sids : ShiroExpire(s) \/ HttpExpire(s)) \/ UNCHANGED vars
      PROVE  \A u \in Threads : SameRecord(u)
  BY <1>3 DEF ShiroExpire, HttpExpire, vars, SameRecord
<1> QED BY <1>1, <1>2, <1>3 DEF Next

\* Of the history, what requests carried only grows, by token requests.
LEMMA CarriedGrows ==
    ASSUME [Next]_vars
    PROVE  /\ carried \subseteq carried'
           /\ carried' = carried \/ \E th \in Threads, s \in Sids, ticket, token \in Keys :
                                        TokenRequest(th, s, ticket, token)
<1>1. ASSUME NEW th \in Threads, Step(th) PROVE carried' = carried
  BY <1>1
  DEF Step, ShiroRemove, ShiroAdd, HttpRemove, HttpRefused, HttpAdd, ShiroLookup, ShiroStop,
      ShiroStopFails, ShiroNotify, HttpLookup, HttpInvalidate, history
<1>2. ASSUME NEW th \in Threads, NEW s \in Sids, NEW ticket \in Keys, NEW token \in Keys,
             TokenRequest(th, s, ticket, token)
      PROVE  carried \subseteq carried'
  BY <1>2 DEF TokenRequest
<1>3. ASSUME \/ \E th \in Threads, t \in Tokens : LogoutRequest(th, t)
             \/ \E th \in Threads, s, h \in Sids : ServletLogout(th, s, h)
             \/ \E s \in Sids : ShiroExpire(s) \/ HttpExpire(s)
             \/ UNCHANGED vars
      PROVE  carried' = carried
  BY <1>3 DEF LogoutRequest, ServletLogout, ShiroExpire, HttpExpire, history, vars
<1> QED BY <1>1, <1>2, <1>3 DEF Next

\* The session added is put under the token of its request, which the request
\* carried; every other call only takes entries away.
LEMMA OwnKeysPreserved ==
    ASSUME TypeOK, OwnKeysOnly, [Next]_vars
    PROVE  OwnKeysOnly'
<1>0. shiroMap \in Storage /\ ThreadsOK /\ carried \subseteq carried'
  BY CarriedGrows DEF TypeOK
<1>1. ASSUME NEW s \in Sids, NEW t \in Tokens, shiroMap'.keyOf[s] = t \/ shiroMap'.managed[t] = s
      PROVE  <<t, s>> \in carried'
  <2>1. CASE Shrinks(shiroMap, shiroMap')
    <3>1. shiroMap'.managed[t] = s => shiroMap.managed[t] = s
      BY <1>0, <2>1, ShrinkAddsNothing DEF Keys
    <3>2. shiroMap'.keyOf[s] \in {Unmapped, shiroMap.keyOf[s]}
      BY <1>0, <2>1, RemoveKeyOf DEF Shrinks
    <3>3. shiroMap.keyOf[s] = t \/ shiroMap.managed[t] = s
      BY <1>1, <3>1, <3>2, MappingNulls
    <3> QED BY <1>0, <3>3 DEF OwnKeysOnly
  <2>2. ASSUME NEW th \in Threads, ShiroAdd(th)
        PROVE  <<t, s>> \in carried'
    <3> DEFINE k == req[th].key
               x == req[th].sid
    <3>1. /\ pc[th] = "shiroAdd" /\ x \in Sids /\ k \in Keys
          /\ shiroMap'.keyOf = [shiroMap.keyOf EXCEPT ![x] = k]
          /\ shiroMap'.managed = [shiroMap.managed EXCEPT ![k] = x]
          /\ shiroMap.keyOf \in [Sids -> Keys \union {Unmapped}]
          /\ shiroMap.managed \in [Keys -> Sids \union {NoSid}]
      BY <1>0, <2>2 DEF ShiroAdd, AddSessionById, Storage, ThreadsOK, Equipped, Requests
    <3>2. k \in Tokens => <<k, x>> \in carried
      BY <3>1 DEF OwnKeysOnly
    <3> HIDE DEF k, x
    <3>3. CASE t = k /\ s = x
      BY <1>0, <3>2, <3>3
    <3>4. CASE t # k \/ s # x
      <4>1. shiroMap.keyOf[s] = t \/ shiroMap.managed[t] = s
        BY <1>1, <3>1, <3>4 DEF Keys
      <4> QED BY <1>0, <4>1 DEF OwnKeysOnly
    <3> QED BY <3>3, <3>4
  <2> QED BY <2>1, <2>2, MapMoves
<1>2. ASSUME NEW u \in Threads, pc'[u] \in RecordPcs, req'[u].key \in Tokens
      PROVE  <<req'[u].key, req'[u].sid>> \in carried'
  <2>1. ASSUME NEW th \in Threads, NEW s \in Sids, NEW ticket \in Keys, NEW token \in Keys,
               TokenRequest(th, s, ticket, token)
        PROVE  <<req'[u].key, req'[u].sid>> \in carried'
    <3>1. CASE u = th
      <4>1. req'[u].sid = s /\ req'[u].key = KeyOf(ticket, token)
        BY <1>0, <2>1, <3>1 DEF TokenRequest, ThreadsOK
      <4> QED BY <1>2, <2>1, <4>1, MappingNulls DEF TokenRequest
    <3>2. CASE u # th
      <4>1. pc'[u] = pc[u] /\ req'[u] = req[u]
        BY <1>0, <2>1, <3>2 DEF TokenRequest, Goto, ThreadsOK
      <4> QED BY <1>0, <1>2, <4>1 DEF OwnKeysOnly
    <3> QED BY <3>1, <3>2
  <2>2. CASE SameRecord(u)
    BY <1>0, <1>2, <2>2 DEF OwnKeysOnly, SameRecord
  <2> QED BY <2>1, <2>2, RecordKept
<1> QED BY <1>1, <1>2 DEF OwnKeysOnly

\* A session is only ever mapped to, and found under, a token that its requests
\* carried, whichever requests overlap and share tokens (recordSession).
THEOREM OwnKeysInductive == Spec => []OwnKeysOnly
<1>1. Init => OwnKeysOnly
  BY MappingNulls DEF Init, OwnKeysOnly, EmptyStorage, Keys
<1>2. TypeOK /\ OwnKeysOnly /\ [Next]_vars => OwnKeysOnly'
  BY OwnKeysPreserved
<1> QED BY <1>1, <1>2, TypeCorrect, PTL DEF Spec

\* A logout request stops no session of which no request carried its token, with
\* tokens shared and requests overlapping (destroySession).
THEOREM LogoutsStayWithTheirSessions == Spec => []NoForeignLogout
<1>1. Init => NoForeignLogout
  BY DEF Init, NoForeignLogout
<1>2. TypeOK /\ OwnKeysOnly /\ NoForeignLogout /\ [Next]_vars => NoForeignLogout'
  <2> SUFFICES ASSUME TypeOK, OwnKeysOnly, NoForeignLogout, [Next]_vars
               PROVE  NoForeignLogout'
    OBVIOUS
  <2>0. /\ ThreadsOK
        /\ shiroMap \in Storage
        /\ carried \subseteq carried'
    BY CarriedGrows DEF TypeOK
  <2> SUFFICES ASSUME NEW u \in Threads, pc'[u] = "shiroStop", req'[u].kind = "logout"
               PROVE  <<req'[u].key, req'[u].sid>> \in carried'
    BY DEF NoForeignLogout
  <2>1. CASE pc[u] = "shiroStop" /\ req'[u] = req[u]
    BY <2>0, <2>1 DEF NoForeignLogout
  <2>2. CASE ShiroLookup(u)
    <3> DEFINE k == req[u].key
               s == SessionFound(shiroMap, k)
    <3>1. /\ pc[u] = "shiroLookup" /\ Equipped(pc[u], req[u])
          /\ req[u] \in Requests
      BY <2>0, <2>2 DEF ShiroLookup, ThreadsOK
    <3>2. k \in Tokens
      BY <3>1 DEF Equipped
    <3>3. s # NoSid /\ req' = [req EXCEPT ![u].sid = s]
      BY <2>0, <2>2 DEF ShiroLookup, ThenHttp, Finish, Goto, ThreadsOK
    <3> HIDE DEF s
    <3>4. req'[u].sid = s /\ req'[u].key = k
      BY <2>0, <3>1, <3>3 DEF ThreadsOK, Requests
    <3>5. s \in Sids /\ shiroMap.managed[k] = s
      BY <2>0, <3>2, <3>3 DEF s, SessionFound, Storage, Keys
    <3> QED BY <2>0, <3>2, <3>4, <3>5 DEF OwnKeysOnly
  <2>3. CASE \E s, h \in Sids : ServletLogout(u, s, h)
    <3>1. req'[u].kind = "servlet"
      BY <2>0, <2>3 DEF ServletLogout, NoRequest, ThreadsOK
    <3> QED BY <3>1
  <2>4. ASSUME NEW th \in Threads, Step(th), ~ShiroLookup(u)
        PROVE  pc[u] = "shiroStop" /\ req'[u] = req[u]
    <3>1. CASE th # u
      <4>1. pc'[u] = pc[u] /\ req'[u] = req[u]
        BY <2>0, <2>4, <3>1
        DEF Step, ShiroRemove, ShiroAdd, HttpRemove, HttpRefused, HttpAdd, ShiroLookup,
            ShiroStop, ShiroStopFails, ShiroNotify, HttpLookup, HttpInvalidate, ThenHttp,
            Finish, Goto, ThreadsOK
      <4> QED BY <4>1
    <3>2. CASE th = u
      BY <2>0, <2>4, <3>2
      DEF Step, ShiroRemove, ShiroAdd, HttpRemove, HttpRefused, HttpAdd,
          ShiroStop, ShiroStopFails, ShiroNotify, HttpLookup, HttpInvalidate, ThenHttp,
          Finish, Goto, ThreadsOK
    <3> QED BY <3>1, <3>2
  <2>5. ASSUME \/ \E th \in Threads, s \in Sids, ticket, token \in Keys :
                      TokenRequest(th, s, ticket, token)
               \/ \E th \in Threads, t \in Tokens : LogoutRequest(th, t)
               \/ \E th \in Threads, s, h \in Sids : th # u /\ ServletLogout(th, s, h)
               \/ \E s \in Sids : ShiroExpire(s) \/ HttpExpire(s)
               \/ UNCHANGED vars
        PROVE  pc[u] = "shiroStop" /\ req'[u] = req[u]
    BY <2>0, <2>5
    DEF TokenRequest, LogoutRequest, ServletLogout, ShiroExpire, HttpExpire, vars, Goto, ThreadsOK
  <2> QED BY <2>1, <2>2, <2>3, <2>4, <2>5 DEF Next
<1> QED BY <1>1, <1>2, TypeCorrect, OwnKeysInductive, PTL DEF Spec

-----------------------------------------------------------------------------
(* Refinement.                                                             *)

\* Only thread th moves, and req[th] keeps its session.
Alone(th) == \A u \in Threads \ {th} : pc'[u] = pc[u] /\ req'[u] = req[u]

\* What one thread's move makes of the sessions requests are at work on.
LEMMA BusyMoves ==
    ASSUME NEW th \in Threads, Alone(th)
    PROVE  /\ pc[th] # "idle" /\ pc'[th] # "idle" /\ req'[th].sid = req[th].sid
                => Busy' = Busy
           /\ pc'[th] = "idle" => Busy' \in {Busy, Busy \ {req[th].sid}}
           /\ (pc[th] = "idle" \/ req[th].sid \notin Sids) /\ pc'[th] # "idle"
                /\ req'[th].sid \in Sids
                => Busy' = Busy \union {req'[th].sid}
           /\ (pc[th] = "idle" \/ req[th].sid \notin Sids) /\ req'[th].sid \notin Sids
                => Busy' = Busy
<1> DEFINE others == {s \in Sids : \E u \in Threads \ {th} : pc[u] # "idle" /\ req[u].sid = s}
<1>1. Busy = {s \in Sids : s \in others \/ (pc[th] # "idle" /\ req[th].sid = s)}
  BY DEF Busy, Quiet
<1>2. Busy' = {s \in Sids : s \in others \/ (pc'[th] # "idle" /\ req'[th].sid = s)}
  BY DEF Busy, Quiet, Alone
<1>3. others \subseteq Sids
  OBVIOUS
<1> HIDE DEF others
<1>4. pc'[th] = "idle" => Busy' = others
  BY <1>2, <1>3
<1>5. Busy = others \/ Busy = others \union {req[th].sid}
  BY <1>1, <1>3
<1>6. pc'[th] = "idle" => Busy' \in {Busy, Busy \ {req[th].sid}}
  BY <1>3, <1>4, <1>5
<1> QED BY <1>1, <1>2, <1>3, <1>6

\* ... when its request is done, or goes on with the HTTP handler.
LEMMA BusyThen ==
    ASSUME ThreadsOK, NEW th \in Threads, NEW label \in {"httpRemove", "httpLookup"},
           pc[th] # "idle", Finish(th) \/ ThenHttp(th, label)
    PROVE  Busy' \in {Busy, Busy \ {req[th].sid}}
<1>1. CASE Finish(th)
  BY <1>1, BusyMoves DEF Finish, Goto, Alone, ThreadsOK
<1>2. CASE Goto(th, label) /\ UNCHANGED req
  BY <1>2, BusyMoves DEF Goto, Alone, ThreadsOK
<1> QED BY <1>1, <1>2 DEF ThenHttp

\* A logout that looks its session up has none in its hands yet.
LooksUp == \A th \in Threads : pc[th] = "shiroLookup" => req[th].sid = NoSid

LEMMA LooksUpKept ==
    ASSUME TypeOK, LooksUp, [Next]_vars
    PROVE  LooksUp'
<1>0. ThreadsOK
  BY DEF TypeOK
<1>1. ASSUME NEW th \in Threads, Step(th) PROVE LooksUp'
  <2>1. \A u \in Threads : /\ pc'[u] = "shiroLookup" => pc[u] = "shiroLookup" /\ u # th
                           /\ u # th => req'[u] = req[u]
    BY <1>0, <1>1
    DEF Step, ShiroRemove, ShiroAdd, HttpRemove, HttpRefused, HttpAdd, ShiroLookup, ShiroStop,
        ShiroStopFails, ShiroNotify, HttpLookup, HttpInvalidate, ThenHttp, Finish, Goto, ThreadsOK
  <2> QED BY <2>1 DEF LooksUp
<1>2. ASSUME NEW th \in Threads, NEW t \in Tokens, LogoutRequest(th, t) PROVE LooksUp'
  BY <1>0, <1>2 DEF LogoutRequest, NoRequest, Goto, ThreadsOK, LooksUp
<1>3. ASSUME \/ \E th \in Threads, s \in Sids, ticket, token \in Keys :
                    TokenRequest(th, s, ticket, token)
             \/ \E th \in Threads, s, h \in Sids : ServletLogout(th, s, h)
      PROVE  LooksUp'
  BY <1>0, <1>3 DEF TokenRequest, ServletLogout, Goto, ThreadsOK, LooksUp
<1>4. CASE (\E s \in Sids : ShiroExpire(s) \/ HttpExpire(s)) \/ UNCHANGED vars
  BY <1>4 DEF ShiroExpire, HttpExpire, vars, LooksUp
<1> QED BY <1>1, <1>2, <1>3, <1>4 DEF Next

\* removeBySessionById frees at most one token, and one the session carried.
LEMMA RemoveFrees ==
    ASSUME TypeOK, OwnKeysOnly, NEW s \in Sids, shiroMap' = RemoveBySessionById(shiroMap, s)
    PROVE  \/ Found' = Found
           \/ \E t \in Tokens : <<t, s>> \in carried /\ Found' = [Found EXCEPT ![t] = NoSid]
<1> DEFINE k == KeyFound(shiroMap, s)
<1>1. /\ shiroMap.managed \in [Keys -> Sids \union {NoSid}]
      /\ shiroMap.keyOf \in [Sids -> Keys \union {Unmapped}]
      /\ k \in Keys
  BY DEF TypeOK, Storage, KeyFound, Keys
<1>2. shiroMap'.managed = [shiroMap.managed EXCEPT ![k] = NoSid]
  BY DEF RemoveBySessionById
<1>3. k \in Tokens => <<k, s>> \in carried
  BY <1>1, MappingNulls DEF OwnKeysOnly, KeyFound
<1> HIDE DEF k
<1>4. CASE k \in Tokens
  <2>1. Found' = [Found EXCEPT ![k] = NoSid]
    BY <1>1, <1>2, <1>4 DEF Found, Keys
  <2> QED BY <1>3, <1>4, <2>1
<1>5. CASE k \notin Tokens
  BY <1>1, <1>2, <1>5 DEF Found, Keys
<1> QED BY <1>4, <1>5

\* A removal for the sake of s, with what becomes of the sessions at work, is a
\* step of the registry.
LEMMA RemovalRefines ==
    ASSUME TypeOK, OwnKeysOnly, NEW s \in Sids, shiroMap' = RemoveBySessionById(shiroMap, s),
           carried' = carried, Busy' \in {Busy, Busy \union {s}, Busy \ {s}},
           s \in Busy \union Busy'
    PROVE  [Registry!Next]_<<Found, carried, Busy>>
<1>1. CASE Found' = Found
  <2>1. Busy' = Busy \union {s} => Registry!Begin(s, {})
    BY <1>1 DEF Registry!Begin
  <2>2. Busy' = Busy \ {s} => Registry!End(s)
    BY <1>1 DEF Registry!End
  <2>3. {} \in SUBSET Tokens
    OBVIOUS
  <2> QED BY <1>1, <2>1, <2>2, <2>3 DEF Registry!Next
<1>2. ASSUME NEW t \in Tokens, <<t, s>> \in carried, Found' = [Found EXCEPT ![t] = NoSid]
      PROVE  Registry!Free(t, s)
  BY <1>2 DEF Registry!Free
<1> QED BY <1>1, <1>2, RemoveFrees DEF Registry!Next

\* Steps that leave the storage and what was carried alone.
LEMMA RestRefines ==
    ASSUME Found' = Found, carried' = carried, NEW s,
           \/ Busy' = Busy
           \/ s \in Sids /\ Busy' \in {Busy \union {s}, Busy \ {s}}
           \/ s \notin Sids /\ Busy' = Busy \ {s}
    PROVE  [Registry!Next]_<<Found, carried, Busy>>
<1>1. Busy \subseteq Sids
  BY DEF Busy
<1>2. CASE s \in Sids /\ Busy' = Busy \union {s}
  <2>1. Registry!Begin(s, {})
    BY <1>2 DEF Registry!Begin
  <2>2. {} \in SUBSET Tokens
    OBVIOUS
  <2> QED BY <1>2, <2>1, <2>2 DEF Registry!Next
<1>3. CASE s \in Sids /\ Busy' = Busy \ {s}
  BY <1>3 DEF Registry!End, Registry!Next
<1>4. CASE s \notin Sids /\ Busy' = Busy \ {s}
  BY <1>1, <1>4
<1> QED BY <1>2, <1>3, <1>4

\* Every step of a request thread is a step of the registry, or leaves it as it is.
LEMMA StepRefines ==
    ASSUME TypeOK, OwnKeysOnly, LooksUp, NEW th \in Threads, Step(th)
    PROVE  [Registry!Next]_<<Found, carried, Busy>>
<1>0. /\ ThreadsOK /\ shiroMap \in Storage
      /\ req[th] \in Requests /\ req[th].key \in Keys /\ Equipped(pc[th], req[th])
  BY DEF TypeOK, ThreadsOK, Requests
<1>a. pc[th] # "idle" /\ req[th].sid \in Sids => req[th].sid \in Busy
  BY DEF Busy, Quiet
<1>1. CASE ShiroRemove(th)
  <2>1. /\ pc' = [pc EXCEPT ![th] = "shiroAdd"] /\ req' = req /\ pc[th] = "shiroRemove"
        /\ shiroMap' = RemoveBySessionById(shiroMap, req[th].sid) /\ carried' = carried
    BY <1>1 DEF ShiroRemove, Goto
  <2>2. Busy' = Busy
    BY <1>0, <2>1, BusyMoves DEF Alone, ThreadsOK
  <2> QED BY <1>0, <1>a, <2>1, <2>2, RemovalRefines DEF Equipped
<1>2. CASE ShiroAdd(th)
  <2> DEFINE s == req[th].sid
             k == req[th].key
  <2>1. /\ pc[th] = "shiroAdd" /\ s \in Sids /\ s \in Busy /\ k \in Keys
        /\ shiroMap'.managed = [shiroMap.managed EXCEPT ![k] = s]
        /\ shiroMap.managed \in [Keys -> Sids \union {NoSid}]
        /\ carried' = carried
    BY <1>0, <1>a, <1>2 DEF ShiroAdd, AddSessionById, Equipped, Storage
  <2>2. Busy' \in {Busy, Busy \ {s}}
    BY <1>0, <1>2, <2>1, BusyThen DEF ShiroAdd
  <2>3. k \in Tokens => <<k, s>> \in carried
    BY <2>1 DEF OwnKeysOnly
  <2> HIDE DEF k, s
  <2>4. CASE k \in Tokens
    <3>1. Found' = [Found EXCEPT ![k] = s]
      BY <2>1, <2>4 DEF Found, Keys
    <3> QED BY <2>1, <2>2, <2>3, <2>4, <3>1 DEF Registry!Bind, Registry!Next
  <2>5. CASE k \notin Tokens
    <3>1. Found' = Found
      BY <2>1, <2>5 DEF Found, Keys
    <3> QED BY <2>1, <2>2, <3>1, RestRefines
  <2> QED BY <2>4, <2>5
<1>3. CASE ShiroLookup(th)
  <2> DEFINE s == SessionFound(shiroMap, req[th].key)
  <2>1. /\ pc[th] = "shiroLookup" /\ req[th].sid = NoSid /\ carried' = carried
        /\ s \in Sids \union {NoSid}
    BY <1>0, <1>3 DEF ShiroLookup, LooksUp, SessionFound, Storage
  <2>2. CASE s = NoSid /\ ThenHttp(th, "httpLookup")
    <3>1. Busy' \in {Busy, Busy \ {NoSid}}
      BY <1>0, <2>1, <2>2, BusyThen
    <3>2. Found' = Found
      BY <1>3, <2>2 DEF ShiroLookup, RemoveSessionByMappingId, SessionFound, Found
    <3> QED BY <2>1, <3>1, <3>2, RestRefines, MappingNulls
  <2>3. CASE s # NoSid /\ req' = [req EXCEPT ![th].sid = s] /\ Goto(th, "shiroStop")
    <3>1. s \in Sids /\ shiroMap' = RemoveBySessionById(shiroMap, s)
      BY <1>3, <2>1, <2>3 DEF ShiroLookup, RemoveSessionByMappingId, SessionFound
    <3> HIDE DEF s
    <3>2. Alone(th) /\ pc'[th] = "shiroStop" /\ req'[th].sid = s
      BY <1>0, <2>3 DEF Alone, Goto, ThreadsOK, Requests
    <3>3. Busy' = Busy \union {s}
      BY <2>1, <3>1, <3>2, BusyMoves, MappingNulls
    <3> QED BY <2>1, <3>1, <3>3, RemovalRefines
  <2> QED BY <1>3, <2>2, <2>3 DEF ShiroLookup
<1>4. CASE ShiroNotify(th)
  <2>1. /\ pc[th] = "shiroNotify" /\ req[th].sid \in Sids /\ carried' = carried
        /\ shiroMap' = RemoveBySessionById(shiroMap, req[th].sid)
    BY <1>0, <1>4 DEF ShiroNotify, Equipped, history
  <2>2. Busy' \in {Busy, Busy \ {req[th].sid}}
    BY <1>0, <1>4, <2>1, BusyThen DEF ShiroNotify
  <2> QED BY <1>a, <2>1, <2>2, RemovalRefines
<1>5. CASE HttpRefused(th) \/ HttpAdd(th) \/ ShiroStopFails(th) \/ HttpInvalidate(th)
  <2>1. /\ Finish(th) /\ pc[th] # "idle" /\ shiroMap' = shiroMap /\ carried' = carried
    BY <1>5 DEF HttpRefused, HttpAdd, ShiroStopFails, HttpInvalidate, maps, history
  <2>2. Busy' \in {Busy, Busy \ {req[th].sid}}
    BY <1>0, <2>1, BusyThen
  <2>3. Found' = Found
    BY <2>1 DEF Found
  <2> QED BY <2>1, <2>2, <2>3, RestRefines
<1>6. CASE ShiroStop(th)
  <2>1. /\ pc' = [pc EXCEPT ![th] = "shiroNotify"] /\ req' = req /\ pc[th] = "shiroStop"
        /\ shiroMap' = shiroMap /\ carried' = carried
    BY <1>6 DEF ShiroStop, Goto, maps, history
  <2>2. Busy' = Busy
    BY <1>0, <2>1, BusyMoves DEF Alone, ThreadsOK
  <2> QED BY <2>1, <2>2, RestRefines DEF Found
<1>7. ASSUME NEW h \in Sids, HttpRemove(th, h)
      PROVE  Busy' = Busy /\ Found' = Found /\ carried' = carried
  <2>1. /\ req' = [req EXCEPT ![th] = [req[th] EXCEPT !.hid = h]]
        /\ pc' = [pc EXCEPT ![th] = "httpAdd"] /\ pc[th] = "httpRemove"
        /\ shiroMap' = shiroMap /\ carried' = carried
    BY <1>7 DEF HttpRemove, Goto
  <2>2. Alone(th) /\ pc'[th] = "httpAdd" /\ req'[th].sid = req[th].sid
    BY <1>0, <2>1 DEF Alone, ThreadsOK, Requests
  <2> QED BY <2>1, <2>2, BusyMoves DEF Found
<1>8. CASE HttpLookup(th)
  <2> DEFINE h == SessionFound(httpMap, req[th].key)
  <2>1. pc[th] = "httpLookup" /\ shiroMap' = shiroMap /\ carried' = carried
    BY <1>8 DEF HttpLookup, history
  <2>2. Busy' \in {Busy, Busy \ {req[th].sid}}
    <3>1. CASE Finish(th)
      BY <1>0, <2>1, <3>1, BusyThen
    <3>2. CASE req' = [req EXCEPT ![th].hid = h] /\ Goto(th, "httpInvalidate")
      <4> HIDE DEF h
      <4>1. Alone(th) /\ pc'[th] = "httpInvalidate" /\ req'[th].sid = req[th].sid
        BY <1>0, <3>2 DEF Alone, Goto, ThreadsOK, Requests
      <4> QED BY <2>1, <4>1, BusyMoves
    <3> QED BY <1>8, <3>1, <3>2 DEF HttpLookup
  <2>3. Found' = Found
    BY <2>1 DEF Found
  <2> QED BY <2>1, <2>2, <2>3, RestRefines
<1>9. CASE \E h \in Sids : HttpRemove(th, h)
  BY <1>7, <1>9
<1> QED BY <1>1, <1>2, <1>3, <1>4, <1>5, <1>6, <1>8, <1>9 DEF Step

\* Requests that begin, and sessions that end by themselves.
LEMMA BeginRefines ==
    ASSUME TypeOK,
           \/ \E th \in Threads, s \in Sids, ticket, token \in Keys : TokenRequest(th, s, ticket, token)
           \/ \E th \in Threads, t \in Tokens : LogoutRequest(th, t)
           \/ \E th \in Threads, s, h \in Sids : ServletLogout(th, s, h)
           \/ \E s \in Sids : ShiroExpire(s) \/ HttpExpire(s)
    PROVE  [Registry!Next]_<<Found, carried, Busy>>
<1>0. ThreadsOK
  BY DEF TypeOK
<1>1. ASSUME NEW th \in Threads, NEW s \in Sids, NEW ticket \in Keys, NEW token \in Keys,
             TokenRequest(th, s, ticket, token)
      PROVE  Registry!Begin(s, {KeyOf(ticket, token)} \ {NoKey})
  <2>1. /\ Alone(th) /\ pc[th] = "idle" /\ pc'[th] = "shiroRemove" /\ req'[th].sid = s
        /\ shiroMap' = shiroMap
        /\ carried' = carried \union (({KeyOf(ticket, token)} \ {NoKey}) \X {s})
    BY <1>0, <1>1 DEF TokenRequest, Goto, Alone, ThreadsOK, maps
  <2>2. Busy' = Busy \union {s}
    BY <2>1, BusyMoves
  <2> QED BY <2>1, <2>2 DEF Registry!Begin, Found
<1>2. ASSUME NEW ticket \in Keys, NEW token \in Keys
      PROVE  {KeyOf(ticket, token)} \ {NoKey} \in SUBSET Tokens
  BY DEF KeyOf, Keys
<1>3. ASSUME NEW th \in Threads, NEW t \in Tokens, LogoutRequest(th, t)
      PROVE  Busy' = Busy /\ Found' = Found /\ carried' = carried
  <2>1. /\ Alone(th) /\ pc[th] = "idle" /\ req'[th].sid = NoSid
        /\ shiroMap' = shiroMap /\ carried' = carried
    BY <1>0, <1>3 DEF LogoutRequest, NoRequest, Goto, Alone, ThreadsOK, maps, history
  <2> QED BY <2>1, BusyMoves, MappingNulls DEF Found
<1>4. ASSUME NEW th \in Threads, NEW s \in Sids, NEW h \in Sids, ServletLogout(th, s, h)
      PROVE  [Registry!Next]_<<Found, carried, Busy>>
  <2>1. /\ Alone(th) /\ pc[th] = "idle" /\ pc'[th] = "shiroStop" /\ req'[th].sid = s
        /\ shiroMap' = shiroMap /\ carried' = carried
    BY <1>0, <1>4 DEF ServletLogout, NoRequest, Goto, Alone, ThreadsOK, maps, history
  <2>2. Busy' = Busy \union {s}
    BY <2>1, BusyMoves
  <2>3. Found' = Found
    BY <2>1 DEF Found
  <2> QED BY <2>1, <2>2, <2>3, RestRefines
<1>5. ASSUME NEW s \in Sids, ShiroExpire(s) \/ HttpExpire(s)
      PROVE  Busy' = Busy /\ Found' = Found /\ carried' = carried
  BY <1>5 DEF ShiroExpire, HttpExpire, Busy, Quiet, Found, maps, history
<1> QED BY <1>1, <1>2, <1>3, <1>4, <1>5 DEF Registry!Next

\* The storage of Shiro sessions is a registry in which an idle session keeps
\* the tokens that are its own, however threads interleave, tokens are shared
\* and requests of one session overlap.
THEOREM StorageIsRegistry == Spec => ImplementsRegistry
<1>1. Init => LooksUp
  BY DEF Init, LooksUp
<1>2. TypeOK /\ LooksUp /\ [Next]_vars => LooksUp'
  BY LooksUpKept
<1>3. Init => Registry!Init
  BY DEF Init, EmptyStorage, Registry!Init, Keys, Found, Busy, Quiet
<1>4. TypeOK /\ OwnKeysOnly /\ LooksUp /\ [Next]_vars => [Registry!Next]_<<Found, carried, Busy>>
  <2> SUFFICES ASSUME TypeOK, OwnKeysOnly, LooksUp, [Next]_vars
               PROVE  [Registry!Next]_<<Found, carried, Busy>>
    OBVIOUS
  <2>1. CASE \E th \in Threads : Step(th)
    BY <2>1, StepRefines
  <2>2. CASE UNCHANGED vars
    BY <2>2 DEF vars, maps, history, Found, Busy, Quiet
  <2> QED BY <2>1, <2>2, BeginRefines DEF Next
<1> QED
  BY <1>1, <1>2, <1>3, <1>4, TypeCorrect, OwnKeysInductive, PTL
  DEF Spec, ImplementsRegistry, Registry!Spec, Registry!vars

-----------------------------------------------------------------------------
(* Recorded sessions stay reachable.                                       *)

\* The lives of sessions only move on.
LEMMA LivesMoveOn ==
    ASSUME TypeOK, [Next]_vars, NEW s \in Sids
    PROVE  /\ shiroState'[s] = "fresh" => shiroState[s] = "fresh"
           /\ shiroState[s] = "dead" => shiroState'[s] = "dead"
<1>0. shiroState \in [Sids -> Life]
  BY DEF TypeOK
<1>1. CASE shiroState' = shiroState
  BY <1>1
<1>2. ASSUME NEW x \in Sids, shiroState[x] = "live",
             shiroState' = [shiroState EXCEPT ![x] = "dead"]
      PROVE  /\ shiroState'[s] = "fresh" => shiroState[s] = "fresh"
             /\ shiroState[s] = "dead" => shiroState'[s] = "dead"
  BY <1>0, <1>2
<1>3. ASSUME NEW x \in Sids, Obtainable(shiroState, x),
             shiroState' = [shiroState EXCEPT ![x] = "live"]
      PROVE  /\ shiroState'[s] = "fresh" => shiroState[s] = "fresh"
             /\ shiroState[s] = "dead" => shiroState'[s] = "dead"
  BY <1>0, <1>3 DEF Obtainable
<1>4. ASSUME NEW th \in Threads, ShiroStop(th)
      PROVE  \E x \in Sids : /\ shiroState[x] = "live"
                             /\ shiroState' = [shiroState EXCEPT ![x] = "dead"]
  BY <1>4 DEF ShiroStop, TypeOK, ThreadsOK, Equipped
<1>5. ASSUME NEW th \in Threads, Step(th), ~ShiroStop(th)
      PROVE  shiroState' = shiroState
  BY <1>5
  DEF Step, ShiroRemove, ShiroAdd, HttpRemove, HttpRefused, HttpAdd, ShiroLookup,
      ShiroStopFails, ShiroNotify, HttpLookup, HttpInvalidate, sessions
<1>6. ASSUME \/ \E th \in Threads, t \in Tokens : LogoutRequest(th, t)
             \/ \E th \in Threads, x, h \in Sids : ServletLogout(th, x, h)
             \/ \E x \in Sids : HttpExpire(x)
             \/ UNCHANGED vars
      PROVE  shiroState' = shiroState
  BY <1>6 DEF LogoutRequest, ServletLogout, HttpExpire, vars, sessions
<1>7. ASSUME NEW x \in Sids, ShiroExpire(x)
      PROVE  shiroState[x] = "live" /\ shiroState' = [shiroState EXCEPT ![x] = "dead"]
  BY <1>7 DEF ShiroExpire
<1>8. ASSUME NEW th \in Threads, NEW x \in Sids, NEW ticket \in Keys, NEW token \in Keys,
             TokenRequest(th, x, ticket, token)
      PROVE  Obtainable(shiroState, x) /\ shiroState' = [shiroState EXCEPT ![x] = "live"]
  BY <1>8 DEF TokenRequest
<1> QED BY <1>1, <1>2, <1>3, <1>4, <1>5, <1>6, <1>7, <1>8 DEF Next

\* A step that records nothing new keeps ReachInv if it takes no live session
\* out from under a token of its own or out of a request's hands.
LEMMA ReachKept ==
    ASSUME TypeOK, ReachInv, [Next]_vars, latest' = latest,
           \A u \in Threads : SameRecord(u),
           \A u \in Threads : pc'[u] = "shiroNotify" => shiroState'[req'[u].sid] = "dead",
           \A s \in Sids : shiroState'[s] = "live" /\ shiroState[s] = "live" =>
               /\ Pending(s) => Pending(s)'
               /\ \A t \in Tokens : shiroMap.managed[t] = s /\ OnlyCarriedBy(t, s) =>
                       shiroMap'.managed[t] = s \/ Pending(s)'
    PROVE  ReachInv'
<1>1. ASSUME NEW s \in Sids
      PROVE  /\ shiroState'[s] = "fresh" => latest'[s].key = NoKey
             /\ /\ shiroState'[s] = "live" /\ latest'[s].key \in Tokens
                /\ OnlyCarriedBy(latest[s].key, s)'
                => shiroMap'.managed[latest'[s].key] = s \/ Pending(s)'
  <2>0. OnlyCarriedBy(latest[s].key, s)' => OnlyCarriedBy(latest[s].key, s)
    BY CarriedGrows DEF OnlyCarriedBy
  <2>1. CASE shiroState[s] = "fresh"
    BY <2>1, MappingNulls DEF ReachInv
  <2>2. CASE shiroState[s] # "fresh"
    <3>1. shiroState'[s] = "live" => shiroState[s] = "live"
      BY <2>2, LivesMoveOn DEF TypeOK
    <3>2. shiroState'[s] # "fresh"
      BY <2>2, LivesMoveOn
    <3> QED BY <2>0, <3>1, <3>2 DEF ReachInv
  <2> QED BY <2>1, <2>2
<1>2. ASSUME NEW u \in Threads, pc'[u] \in RecordPcs
      PROVE  shiroState'[req'[u].sid] # "fresh"
  <2>1. pc[u] \in RecordPcs /\ req'[u].sid = req[u].sid
    BY <1>2 DEF SameRecord
  <2>2. req[u].sid \in Sids /\ shiroState[req[u].sid] # "fresh"
    BY <2>1 DEF ReachInv, TypeOK, ThreadsOK, Equipped
  <2> QED BY <2>1, <2>2, LivesMoveOn
<1> QED BY <1>1, <1>2 DEF ReachInv

\* The step that ends a recording puts the session under its key, which is no
\* other session's own.
LEMMA AddReaches ==
    ASSUME TypeOK, OwnKeysOnly, ReachInv, NEW th \in Threads, ShiroAdd(th)
    PROVE  ReachInv'
<1> DEFINE k == req[th].key
           s == req[th].sid
<1>0. /\ ThreadsOK
      /\ shiroMap.managed \in [Keys -> Sids \union {NoSid}]
      /\ latest \in [Sids -> [key : Keys, args : SUBSET Tokens]]
  BY DEF TypeOK, Storage
<1>1. /\ pc[th] = "shiroAdd" /\ s \in Sids /\ k \in Keys
      /\ shiroMap'.managed = [shiroMap.managed EXCEPT ![k] = s]
      /\ latest' = [latest EXCEPT ![s] = [key |-> k, args |-> req[th].args]]
      /\ shiroState' = shiroState /\ carried' = carried
      /\ shiroState[s] # "fresh"
  BY DEF ShiroAdd, AddSessionById, TypeOK, ThreadsOK, Equipped, Requests, sessions, ReachInv
<1>2. /\ \A u \in Threads : u # th => pc'[u] = pc[u] /\ req'[u] = req[u]
      /\ (pc'[th] = "httpRemove" /\ req'[th] = req[th]) \/ pc'[th] = "idle"
  BY <1>0 DEF ShiroAdd, ThenHttp, Finish, Goto, ThreadsOK
<1>3. k \in Tokens => <<k, s>> \in carried
  BY <1>1 DEF OwnKeysOnly
<1> HIDE DEF k
<1>4. ASSUME NEW x \in Sids
      PROVE  /\ shiroState'[x] = "fresh" => latest'[x].key = NoKey
             /\ /\ shiroState'[x] = "live" /\ latest'[x].key \in Tokens
                /\ OnlyCarriedBy(latest[x].key, x)'
                => shiroMap'.managed[latest'[x].key] = x \/ Pending(x)'
  <2>1. CASE x = s
    BY <1>0, <1>1, <2>1
  <2>2. CASE x # s
    <3>1. latest'[x] = latest[x] /\ latest[x].key \in Keys
      BY <1>0, <1>1, <2>2
    <3>2. Pending(x) => Pending(x)'
      BY <1>1, <1>2, <2>2 DEF Pending
    <3>3. OnlyCarriedBy(latest[x].key, x)' => OnlyCarriedBy(latest[x].key, x)
      BY <1>1, <3>1 DEF OnlyCarriedBy
    <3>4. /\ latest[x].key \in Tokens /\ OnlyCarriedBy(latest[x].key, x)
          /\ shiroMap.managed[latest[x].key] = x
          => shiroMap'.managed[latest[x].key] = x
      BY <1>0, <1>1, <1>3, <2>2, <3>1 DEF OnlyCarriedBy
    <3> QED BY <1>1, <3>1, <3>2, <3>3, <3>4 DEF ReachInv
  <2> QED BY <2>1, <2>2
<1>5. ASSUME NEW u \in Threads
      PROVE  /\ pc'[u] \in RecordPcs => shiroState'[req'[u].sid] # "fresh"
             /\ pc'[u] = "shiroNotify" => shiroState'[req'[u].sid] = "dead"
  BY <1>1, <1>2 DEF ReachInv
<1> QED BY <1>4, <1>5 DEF ReachInv

\* A removal of session s leaves the tokens that are another session's own.
LEMMA RemoveSparesOthers ==
    ASSUME TypeOK, OwnKeysOnly, NEW s \in Sids,
           shiroMap' = RemoveBySessionById(shiroMap, s),
           NEW x \in Sids, x # s, NEW t \in Tokens, shiroMap.managed[t] = x, OnlyCarriedBy(t, x)
    PROVE  shiroMap'.managed[t] = x
<1>1. shiroMap.managed \in [Keys -> Sids \union {NoSid}] /\ t \in Keys
  BY DEF TypeOK, Storage, Keys
<1>2. shiroMap.keyOf[s] # t
  BY DEF OwnKeysOnly, OnlyCarriedBy
<1>3. KeyFound(shiroMap, s) # t
  BY <1>2, MappingNulls DEF KeyFound
<1> QED BY <1>1, <1>3 DEF RemoveBySessionById

\* Every step of a request thread keeps ReachInv.
LEMMA StepReaches ==
    ASSUME TypeOK, OwnKeysOnly, ReachInv, [Next]_vars,
           NEW th \in Threads, Step(th), \A u \in Threads : SameRecord(u)
    PROVE  ReachInv'
<1>0. /\ ThreadsOK
      /\ shiroMap \in Storage
      /\ Equipped(pc[th], req[th])
      /\ req[th] \in Requests
      /\ shiroState \in [Sids -> Life]
  BY DEF TypeOK, ThreadsOK
<1>1. CASE ShiroRemove(th)
  <2>1. /\ req[th].sid \in Sids /\ pc[th] = "shiroRemove"
        /\ shiroMap' = RemoveBySessionById(shiroMap, req[th].sid)
        /\ pc' = [pc EXCEPT ![th] = "shiroAdd"] /\ req' = req
        /\ latest' = latest /\ shiroState' = shiroState
    BY <1>0, <1>1 DEF ShiroRemove, Equipped, Goto, sessions, history
  <2>2. \A s \in Sids : Pending(s) => Pending(s)'
    BY <1>0, <2>1 DEF Pending, ThreadsOK
  <2>3. Pending(req[th].sid)'
    BY <1>0, <2>1 DEF Pending, ThreadsOK
  <2>4. \A s \in Sids, t \in Tokens : shiroMap.managed[t] = s /\ OnlyCarriedBy(t, s) =>
            shiroMap'.managed[t] = s \/ Pending(s)'
    BY <2>1, <2>3, RemoveSparesOthers
  <2>5. \A u \in Threads : pc'[u] = "shiroNotify" => shiroState'[req'[u].sid] = "dead"
    BY <1>0, <2>1 DEF ReachInv, ThreadsOK
  <2> QED BY <2>1, <2>2, <2>4, <2>5, ReachKept
<1>2. CASE ShiroAdd(th)
  BY <1>2, AddReaches
<1>3. CASE ShiroLookup(th)
  <2> DEFINE s == SessionFound(shiroMap, req[th].key)
  <2>1. /\ latest' = latest /\ shiroState' = shiroState /\ pc[th] = "shiroLookup"
        /\ \A u \in Threads : u # th => pc'[u] = pc[u] /\ req'[u] = req[u]
        /\ pc'[th] # "shiroNotify"
    BY <1>0, <1>3 DEF ShiroLookup, ThenHttp, Finish, Goto, ThreadsOK, sessions
  <2>2. \A x \in Sids : Pending(x) => Pending(x)'
    BY <2>1 DEF Pending
  <2>3. \A u \in Threads : pc'[u] = "shiroNotify" => shiroState'[req'[u].sid] = "dead"
    BY <2>1 DEF ReachInv
  <2>4. \A x \in Sids, t \in Tokens : shiroMap.managed[t] = x /\ OnlyCarriedBy(t, x) =>
            shiroMap'.managed[t] = x \/ Pending(x)'
    <3>1. CASE s = NoSid
      BY <1>3, <3>1 DEF ShiroLookup, RemoveSessionByMappingId, SessionFound
    <3>2. CASE s # NoSid
      <4>1. s \in Sids /\ shiroMap' = RemoveBySessionById(shiroMap, s)
        BY <1>0, <1>3, <3>2
        DEF ShiroLookup, RemoveSessionByMappingId, SessionFound, Storage, Requests
      <4>2. req' = [req EXCEPT ![th].sid = s] /\ pc' = [pc EXCEPT ![th] = "shiroStop"]
        BY <1>3, <3>2 DEF ShiroLookup, Goto
      <4> HIDE DEF s
      <4>3. PICK x \in Sids : x = s
        BY <4>1
      <4>4. req'[th].sid = x /\ pc'[th] = "shiroStop"
        BY <1>0, <4>2, <4>3 DEF ThreadsOK, Requests
      <4>5. Pending(x)'
        BY <4>4 DEF Pending
      <4>6. shiroMap' = RemoveBySessionById(shiroMap, x)
        BY <4>1, <4>3
      <4> QED BY <4>5, <4>6, RemoveSparesOthers
    <3> QED BY <3>1, <3>2
  <2> QED BY <2>1, <2>2, <2>3, <2>4, ReachKept
<1>4. CASE ShiroStop(th)
  <2>1. /\ latest' = latest /\ shiroMap' = shiroMap /\ req' = req
        /\ pc[th] = "shiroStop" /\ pc' = [pc EXCEPT ![th] = "shiroNotify"]
        /\ req[th].sid \in Sids
        /\ shiroState' = [shiroState EXCEPT ![req[th].sid] = "dead"]
    BY <1>0, <1>4 DEF ShiroStop, Goto, Equipped, maps, history
  <2>2. \A x \in Sids : shiroState'[x] = "live" /\ Pending(x) => Pending(x)'
    BY <1>0, <2>1 DEF Pending, ThreadsOK
  <2>3. \A u \in Threads : pc'[u] = "shiroNotify" => shiroState'[req'[u].sid] = "dead"
    BY <1>0, <2>1 DEF ReachInv, ThreadsOK, Equipped
  <2> QED BY <2>1, <2>2, <2>3, ReachKept
<1>5. CASE ShiroStopFails(th)
  <2>1. /\ latest' = latest /\ shiroMap' = shiroMap /\ shiroState' = shiroState
        /\ pc' = [pc EXCEPT ![th] = "idle"] /\ req' = [req EXCEPT ![th] = NoRequest]
        /\ shiroState[req[th].sid] # "live"
    BY <1>5 DEF ShiroStopFails, Finish, Goto, maps, sessions, history
  <2>2. \A x \in Sids : shiroState'[x] = "live" /\ Pending(x) => Pending(x)'
    BY <1>0, <2>1 DEF Pending, ThreadsOK
  <2>3. \A u \in Threads : pc'[u] = "shiroNotify" => shiroState'[req'[u].sid] = "dead"
    BY <1>0, <2>1 DEF ReachInv, ThreadsOK
  <2> QED BY <2>1, <2>2, <2>3, ReachKept
<1>6. CASE ShiroNotify(th)
  <2>1. /\ latest' = latest /\ shiroState' = shiroState /\ pc[th] = "shiroNotify"
        /\ \A u \in Threads : u # th => pc'[u] = pc[u] /\ req'[u] = req[u]
        /\ pc'[th] # "shiroNotify"
        /\ req[th].sid \in Sids
        /\ shiroMap' = RemoveBySessionById(shiroMap, req[th].sid)
        /\ shiroState[req[th].sid] = "dead"
    BY <1>0, <1>6 DEF ShiroNotify, ThenHttp, Finish, Goto, ThreadsOK, Equipped, ReachInv, sessions, history
  <2>2. \A x \in Sids : Pending(x) => Pending(x)'
    BY <2>1 DEF Pending
  <2>3. \A x \in Sids, t \in Tokens :
            shiroState'[x] = "live" /\ shiroMap.managed[t] = x /\ OnlyCarriedBy(t, x) =>
            shiroMap'.managed[t] = x
    BY <2>1, RemoveSparesOthers
  <2>4. \A u \in Threads : pc'[u] = "shiroNotify" => shiroState'[req'[u].sid] = "dead"
    BY <2>1 DEF ReachInv
  <2> QED BY <2>1, <2>2, <2>3, <2>4, ReachKept
<1>7. CASE \/ \E h \in Sids : HttpRemove(th, h)
           \/ HttpRefused(th) \/ HttpAdd(th) \/ HttpLookup(th) \/ HttpInvalidate(th)
  <2>1. latest' = latest /\ shiroMap' = shiroMap /\ shiroState' = shiroState
    BY <1>7
    DEF HttpRemove, HttpRefused, HttpAdd, HttpLookup, HttpInvalidate, maps, sessions, history
  <2>2. /\ \A u \in Threads : u # th => pc'[u] = pc[u] /\ req'[u] = req[u]
        /\ pc[th] \notin {"shiroAdd", "shiroStop"} /\ pc'[th] # "shiroNotify"
    BY <1>0, <1>7
    DEF HttpRemove, HttpRefused, HttpAdd, HttpLookup, HttpInvalidate, Finish, Goto, ThreadsOK
  <2>3. \A x \in Sids : Pending(x) => Pending(x)'
    BY <2>2 DEF Pending
  <2>4. \A u \in Threads : pc'[u] = "shiroNotify" => shiroState'[req'[u].sid] = "dead"
    BY <2>1, <2>2 DEF ReachInv
  <2> QED BY <2>1, <2>3, <2>4, ReachKept
<1> QED BY <1>1, <1>2, <1>3, <1>4, <1>5, <1>6, <1>7 DEF Step

\* A live session whose latest key is its own is found under it, whatever the
\* other threads do: only a removal for that session's sake takes it out, and
\* such a removal is followed by its addition or its end.
THEOREM RecordedStayReachable == Spec => []Reachable
<1>1. Init => ReachInv
  BY MappingNulls DEF Init, ReachInv
<1>2. TypeOK /\ OwnKeysOnly /\ ReachInv /\ [Next]_vars => ReachInv'
  <2> SUFFICES ASSUME TypeOK, OwnKeysOnly, ReachInv, [Next]_vars
               PROVE  ReachInv'
    OBVIOUS
  <2>0. ThreadsOK
    BY DEF TypeOK
  <2>1. ASSUME NEW th \in Threads, NEW s \in Sids, NEW ticket \in Keys, NEW token \in Keys,
               TokenRequest(th, s, ticket, token)
        PROVE  ReachInv'
    <3>1. /\ shiroMap' = shiroMap /\ latest' = latest
          /\ pc[th] = "idle" /\ pc'[th] = "shiroRemove" /\ req'[th].sid = s
          /\ \A u \in Threads : u # th => pc'[u] = pc[u] /\ req'[u] = req[u]
          /\ shiroState' = [shiroState EXCEPT ![s] = "live"]
          /\ shiroState \in [Sids -> Life]
      BY <2>0, <2>1 DEF TokenRequest, Goto, ThreadsOK, maps, history, TypeOK
    <3>2. \A x \in Sids : Pending(x) => Pending(x)'
      BY <3>1 DEF Pending
    <3>3. ASSUME NEW x \in Sids
          PROVE  /\ shiroState'[x] = "fresh" => latest'[x].key = NoKey
                 /\ /\ shiroState'[x] = "live" /\ latest'[x].key \in Tokens
                    /\ OnlyCarriedBy(latest[x].key, x)'
                    => shiroMap'.managed[latest'[x].key] = x \/ Pending(x)'
      <4>0. OnlyCarriedBy(latest[x].key, x)' => OnlyCarriedBy(latest[x].key, x)
        BY <3>1, CarriedGrows DEF OnlyCarriedBy
      <4>1. shiroState[x] = "fresh" => latest[x].key \notin Tokens
        BY MappingNulls DEF ReachInv
      <4>2. shiroState'[x] = "live" => shiroState[x] # "dead"
        BY <2>1, LivesMoveOn
      <4> QED BY <3>1, <3>2, <4>0, <4>1, <4>2 DEF ReachInv
    <3>4. ASSUME NEW u \in Threads
          PROVE  /\ pc'[u] \in RecordPcs => shiroState'[req'[u].sid] # "fresh"
                 /\ pc'[u] = "shiroNotify" => shiroState'[req'[u].sid] = "dead"
      <4>1. CASE u = th
        BY <3>1, <4>1
      <4>2. CASE u # th
        <5>1. Equipped(pc[u], req[u])
          BY <2>0 DEF ThreadsOK
        <5> QED BY <3>1, <4>2, <5>1, LivesMoveOn DEF ReachInv, Equipped
      <4> QED BY <4>1, <4>2
    <3> QED BY <3>3, <3>4 DEF ReachInv
  <2>2. CASE ~ \E th \in Threads, s \in Sids, ticket, token \in Keys :
                    TokenRequest(th, s, ticket, token)
    <3>1. \A u \in Threads : SameRecord(u)
      BY <2>2, RecordKept
    <3>2. ASSUME NEW th \in Threads, Step(th) PROVE ReachInv'
      BY <3>1, <3>2, StepReaches
    <3>3. ASSUME \/ \E th \in Threads, t \in Tokens : LogoutRequest(th, t)
                 \/ \E th \in Threads, s, h \in Sids : ServletLogout(th, s, h)
          PROVE  ReachInv'
      <4>1. PICK th \in Threads :
                /\ \A u \in Threads : u # th => pc'[u] = pc[u] /\ req'[u] = req[u]
                /\ pc[th] = "idle" /\ pc'[th] # "shiroNotify"
        BY <2>0, <3>3 DEF LogoutRequest, ServletLogout, Goto, ThreadsOK
      <4>2. shiroMap' = shiroMap /\ latest' = latest /\ shiroState' = shiroState
        BY <3>3 DEF LogoutRequest, ServletLogout, maps, sessions, history
      <4>3. \A x \in Sids : Pending(x) => Pending(x)'
        BY <4>1 DEF Pending
      <4>4. \A u \in Threads : pc'[u] = "shiroNotify" => shiroState'[req'[u].sid] = "dead"
        BY <4>1, <4>2 DEF ReachInv
      <4> QED BY <3>1, <4>2, <4>3, <4>4, ReachKept
    <3>4. CASE (\E s \in Sids : ShiroExpire(s) \/ HttpExpire(s)) \/ UNCHANGED vars
      <4>1. shiroMap' = shiroMap /\ latest' = latest /\ pc' = pc /\ req' = req
        BY <3>4 DEF ShiroExpire, HttpExpire, vars, maps, history
      <4>2. \A x \in Sids : Pending(x) => Pending(x)'
        BY <4>1 DEF Pending
      <4>3. ASSUME NEW u \in Threads, pc'[u] = "shiroNotify"
            PROVE  shiroState'[req'[u].sid] = "dead"
        <5>1. req[u].sid \in Sids /\ shiroState[req[u].sid] = "dead"
          BY <2>0, <4>1, <4>3 DEF ReachInv, ThreadsOK, Equipped
        <5> QED BY <4>1, <5>1, LivesMoveOn
      <4> QED BY <3>1, <4>1, <4>2, <4>3, ReachKept
    <3> QED BY <2>2, <3>2, <3>3, <3>4 DEF Next
  <2> QED BY <2>1, <2>2
<1>3. ReachInv => Reachable
  BY DEF ReachInv, Reachable, Quiet, Pending
<1> QED BY <1>1, <1>2, <1>3, TypeCorrect, OwnKeysInductive, PTL DEF Spec
=============================================================================
