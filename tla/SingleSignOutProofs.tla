------------------------- MODULE SingleSignOutProofs -------------------------
(***************************************************************************)
(* Proofs about SingleSignOut, for any number of threads, sessions,        *)
(* browsers and tokens.                                                    *)
(***************************************************************************)
EXTENDS SingleSignOut, TLAPS

-----------------------------------------------------------------------------
(* The methods of a storage.                                               *)

\* Both methods take a well-formed storage to a well-formed one.
LEMMA StorageClosed ==
    ASSUME NEW st \in Storage, NEW k \in Keys, NEW s \in Sids
    PROVE  /\ AddSessionById(st, k, s) \in Storage
           /\ RemoveBySessionById(st, s) \in Storage
<1>1. /\ st.managed \in [Keys -> Sids \union {NoSid}]
      /\ st.keyOf \in [Sids -> Keys \union {Unmapped}]
  BY DEF Storage
<1>2. KeyFound(st, s) \in Keys
  BY <1>1 DEF KeyFound, Keys
<1>3. AddSessionById(st, k, s) \in Storage
  BY <1>1 DEF Storage, AddSessionById
<1>4. RemoveBySessionById(st, s) \in Storage
  BY <1>1, <1>2 DEF Storage, RemoveBySessionById
<1> QED BY <1>3, <1>4

\* removeBySessionById forgets the session and nothing about any other one.
LEMMA RemoveKeyOf ==
    ASSUME NEW st \in Storage, NEW s \in Sids, NEW x \in Sids
    PROVE  RemoveBySessionById(st, s).keyOf[x] = IF x = s THEN Unmapped ELSE st.keyOf[x]
BY DEF Storage, RemoveBySessionById

\* Two maps that agree on a session still do after a removal, of whatever session.
LEMMA RemoveKeepsForward ==
    ASSUME NEW st \in Storage, NEW s \in Sids, NEW x \in Sids, Forward(st, x)
    PROVE  Forward(RemoveBySessionById(st, s), x)
<1> DEFINE out == RemoveBySessionById(st, s)
<1> SUFFICES ASSUME NEW k \in Keys, out.managed[k] = x
             PROVE  out.keyOf[x] = k
  BY DEF Forward
<1>1. st.managed \in [Keys -> Sids \union {NoSid}] /\ x # NoSid
  BY MappingNulls DEF Storage
<1>2. k # KeyFound(st, s) /\ st.managed[k] = x
  BY <1>1 DEF RemoveBySessionById
<1>3. st.keyOf[x] = k
  BY <1>2 DEF Forward
<1>4. x # s
  BY <1>2, <1>3, MappingNulls DEF KeyFound, Keys
<1> QED BY <1>3, <1>4, RemoveKeyOf

\* ... after another session is added, or the session itself if it had no entry.
LEMMA AddKeepsForward ==
    ASSUME NEW st \in Storage, NEW k \in Keys, NEW s \in Sids, NEW x \in Sids,
           Forward(st, x), x = s => st.keyOf[s] = Unmapped
    PROVE  Forward(AddSessionById(st, k, s), x)
<1> DEFINE out == AddSessionById(st, k, s)
<1> SUFFICES ASSUME NEW j \in Keys, out.managed[j] = x
             PROVE  out.keyOf[x] = j
  BY DEF Forward
<1>1. /\ st.managed \in [Keys -> Sids \union {NoSid}]
      /\ st.keyOf \in [Sids -> Keys \union {Unmapped}]
  BY DEF Storage
<1>2. CASE j = k
  BY <1>1, <1>2 DEF AddSessionById
<1>3. CASE j # k
  <2>1. st.managed[j] = x
    BY <1>1, <1>3 DEF AddSessionById
  <2>2. st.keyOf[x] = j
    BY <2>1 DEF Forward
  <2>3. x # s
    BY <2>2, MappingNulls DEF Keys
  <2> QED BY <1>1, <2>2, <2>3 DEF AddSessionById
<1> QED BY <1>2, <1>3

-----------------------------------------------------------------------------
(* Type correctness.                                                       *)

\* The sets of labels, spelt out once.
USE DEF RecordPcs, LogoutPcs, Pcs, Life

\* The request of a thread that is done is a request.
LEMMA NoRequestTyped == NoRequest \in Requests /\ Equipped("idle", NoRequest)
BY DEF NoRequest, Requests, Keys, Equipped

\* A thread moves on with the request it has: the threads' part of the type
\* invariant holds if the request has what the next call needs.
LEMMA GotoTyped ==
    ASSUME ThreadsOK, NEW th \in Threads, NEW label \in Pcs, Goto(th, label),
           UNCHANGED req, Equipped(label, req[th])
    PROVE  ThreadsOK'
BY DEF ThreadsOK, Goto

\* ... or with another one.
LEMMA RequestTyped ==
    ASSUME ThreadsOK, NEW th \in Threads, NEW label \in Pcs, NEW r \in Requests,
           Goto(th, label), req' = [req EXCEPT ![th] = r], Equipped(label, r)
    PROVE  ThreadsOK'
BY DEF ThreadsOK, Goto

LEMMA FinishTyped ==
    ASSUME ThreadsOK, NEW th \in Threads, Finish(th)
    PROVE  ThreadsOK'
BY NoRequestTyped, RequestTyped DEF Finish

\* Leaving the Shiro handler for the HTTP one needs a Shiro session on record.
LEMMA ThenHttpTyped ==
    ASSUME ThreadsOK, NEW th \in Threads, NEW label \in {"httpRemove", "httpLookup"},
           label = "httpRemove" => req[th].sid \in Sids, ThenHttp(th, label)
    PROVE  ThreadsOK'
<1>1. Equipped(label, req[th])
  BY DEF Equipped
<1> QED BY <1>1, GotoTyped, FinishTyped DEF ThenHttp

\* The history of crossings grows by sessions of a storage.
LEMMA CrossingTyped ==
    ASSUME TypeOK, NEW storage \in {"shiro", "http"}, NEW s \in Sids, Crossing(storage, s)
    PROVE  /\ crossed' \subseteq {"shiro", "http"} \X Sids
           /\ crossed \subseteq crossed'
BY DEF TypeOK, Crossing

\* Every step of a request thread keeps the types: each storage call returns a
\* storage, and the session a later call works on was found or created.
LEMMA StepTyped ==
    ASSUME TypeOK, NEW th \in Threads, Step(th)
    PROVE  TypeOK'
<1>0. /\ ThreadsOK
      /\ req[th] \in Requests
      /\ req[th].key \in Keys
      /\ req[th].args \in SUBSET Tokens
      /\ Equipped(pc[th], req[th])
  BY DEF TypeOK, ThreadsOK, Requests
<1>1. CASE ShiroRemove(th)
  <2>1. req[th].sid \in Sids /\ Equipped("shiroAdd", req[th])
    BY <1>0, <1>1 DEF Equipped, ShiroRemove
  <2>2. shiroMap' \in Storage
    BY <1>1, <2>1, StorageClosed DEF TypeOK, ShiroRemove
  <2>3. ThreadsOK'
    BY <1>0, <1>1, <2>1, GotoTyped DEF ShiroRemove
  <2>4. crossed' \subseteq {"shiro", "http"} \X Sids
    BY <1>1, <2>1, CrossingTyped DEF ShiroRemove
  <2> QED BY <2>2, <2>3, <2>4, <1>1 DEF TypeOK, ShiroRemove, sessions
<1>2. CASE ShiroAdd(th)
  <2>1. req[th].sid \in Sids
    BY <1>0, <1>2 DEF Equipped, ShiroAdd
  <2>2. shiroMap' \in Storage
    BY <1>0, <1>2, <2>1, StorageClosed DEF TypeOK, ShiroAdd
  <2>3. /\ latest' \in [Sids -> [key : Keys, args : SUBSET Tokens]]
        /\ loggedOut' \subseteq Tokens
    BY <1>0, <1>2, <2>1 DEF TypeOK, ShiroAdd
  <2>4. ThreadsOK'
    BY <1>0, <1>2, <2>1, ThenHttpTyped DEF ShiroAdd
  <2> QED BY <1>2, <2>2, <2>3, <2>4 DEF TypeOK, ShiroAdd, sessions
<1>3. ASSUME NEW h \in Sids, HttpRemove(th, h)
      PROVE  TypeOK'
  <2>1. httpMap' \in Storage
    BY <1>3, StorageClosed DEF TypeOK, HttpRemove
  <2>2. [req[th] EXCEPT !.hid = h] \in Requests
    BY <1>0 DEF Requests
  <2>3. Equipped("httpAdd", [req[th] EXCEPT !.hid = h])
    BY <1>0, <1>3 DEF Equipped, HttpRemove, Requests
  <2>4. req' = [req EXCEPT ![th] = [req[th] EXCEPT !.hid = h]]
    BY <1>3 DEF HttpRemove
  <2>5. ThreadsOK'
    BY <1>0, <1>3, <2>2, <2>3, <2>4, RequestTyped DEF HttpRemove
  <2>6. crossed' \subseteq {"shiro", "http"} \X Sids
    BY <1>3, CrossingTyped DEF HttpRemove
  <2> QED BY <1>3, <2>1, <2>5, <2>6 DEF TypeOK, HttpRemove
<1>4. CASE HttpRefused(th)
  BY <1>0, <1>4, FinishTyped DEF TypeOK, HttpRefused, maps, sessions, history
<1>5. CASE HttpAdd(th)
  <2>1. req[th].hid \in Sids
    BY <1>0, <1>5 DEF Equipped, HttpAdd
  <2>2. httpMap' \in Storage
    BY <1>0, <1>5, <2>1, StorageClosed DEF TypeOK, HttpAdd
  <2> QED BY <1>0, <1>5, <2>2, FinishTyped DEF TypeOK, HttpAdd, sessions
<1>6. CASE ShiroLookup(th)
  <2> DEFINE s == SessionFound(shiroMap, req[th].key)
  <2>1. s \in Sids \union {NoSid}
    BY <1>0 DEF TypeOK, Storage, SessionFound
  <2>2. shiroMap' \in Storage
    BY <1>0, <1>6, <2>1, StorageClosed
    DEF TypeOK, ShiroLookup, RemoveSessionByMappingId, SessionFound
  <2>3. loggedOut' \subseteq Tokens
    BY <1>0, <1>6 DEF TypeOK, ShiroLookup, Equipped
  <2>4. CASE ThenHttp(th, "httpLookup")
    <3>1. ThreadsOK'
      BY <1>0, <2>4, ThenHttpTyped
    <3> QED BY <1>6, <2>2, <2>3, <3>1 DEF TypeOK, ShiroLookup, sessions
  <2>5. CASE s # NoSid /\ req' = [req EXCEPT ![th].sid = s] /\ Goto(th, "shiroStop")
    <3> DEFINE r == [req[th] EXCEPT !.sid = s]
    <3>1. r \in Requests /\ r.sid = s /\ r.key = req[th].key
      BY <1>0, <2>1 DEF Requests
    <3> HIDE DEF s
    <3>2. Equipped("shiroStop", r)
      BY <2>1, <2>5, <3>1 DEF Equipped
    <3>3. ThreadsOK'
      BY <1>0, <2>5, <3>1, <3>2, RequestTyped
    <3> QED BY <1>6, <2>2, <2>3, <3>3 DEF TypeOK, ShiroLookup, sessions
  <2> QED BY <1>6, <2>4, <2>5 DEF ShiroLookup
<1>7. CASE ShiroStop(th)
  <2>1. Equipped("shiroNotify", req[th])
    BY <1>0, <1>7 DEF Equipped, ShiroStop
  <2>2. ThreadsOK'
    BY <1>0, <1>7, <2>1, GotoTyped DEF ShiroStop
  <2> QED BY <1>7, <2>2 DEF TypeOK, ShiroStop, maps, history
<1>8. CASE ShiroStopFails(th)
  BY <1>0, <1>8, FinishTyped DEF TypeOK, ShiroStopFails, maps, sessions, history
<1>9. CASE ShiroNotify(th)
  <2>1. req[th].sid \in Sids
    BY <1>0, <1>9 DEF Equipped, ShiroNotify
  <2>2. shiroMap' \in Storage
    BY <1>9, <2>1, StorageClosed DEF TypeOK, ShiroNotify
  <2>3. ThreadsOK'
    BY <1>0, <1>9, ThenHttpTyped, FinishTyped DEF ShiroNotify
  <2> QED BY <1>9, <2>2, <2>3 DEF TypeOK, ShiroNotify, sessions, history
<1>10. CASE HttpLookup(th)
  <2> DEFINE h == SessionFound(httpMap, req[th].key)
  <2>1. h \in Sids \union {NoSid}
    BY <1>0 DEF TypeOK, Storage, SessionFound
  <2>2. httpMap' \in Storage
    BY <1>0, <1>10, <2>1, StorageClosed
    DEF TypeOK, HttpLookup, RemoveSessionByMappingId, SessionFound
  <2>3. CASE Finish(th)
    BY <1>0, <1>10, <2>2, <2>3, FinishTyped DEF TypeOK, HttpLookup, sessions, history
  <2>4. CASE h # NoSid /\ req' = [req EXCEPT ![th].hid = h] /\ Goto(th, "httpInvalidate")
    <3> DEFINE r == [req[th] EXCEPT !.hid = h]
    <3>1. r \in Requests /\ r.hid = h
      BY <1>0, <2>1 DEF Requests
    <3> HIDE DEF h
    <3>2. Equipped("httpInvalidate", r)
      BY <2>1, <2>4, <3>1 DEF Equipped
    <3>3. ThreadsOK'
      BY <1>0, <2>4, <3>1, <3>2, RequestTyped
    <3> QED BY <1>10, <2>2, <3>3 DEF TypeOK, HttpLookup, sessions, history
  <2> QED BY <1>10, <2>3, <2>4 DEF HttpLookup
<1>11. CASE HttpInvalidate(th)
  <2>1. ThreadsOK'
    BY <1>0, <1>11, FinishTyped DEF HttpInvalidate
  <2> QED BY <1>11, <2>1 DEF TypeOK, HttpInvalidate, maps, history
<1> QED
  BY <1>1, <1>2, <1>3, <1>4, <1>5, <1>6, <1>7, <1>8, <1>9, <1>10, <1>11 DEF Step

\* The type invariant holds initially and every action keeps it.
THEOREM TypeCorrect == Spec => []TypeOK
<1>1. Init => TypeOK
  BY NoRequestTyped
  DEF Init, TypeOK, ThreadsOK, EmptyStorage, Storage, Keys
<1>2. TypeOK /\ [Next]_vars => TypeOK'
  <2> SUFFICES ASSUME TypeOK, [Next]_vars PROVE TypeOK'
    OBVIOUS
  <2>0. ThreadsOK
    BY DEF TypeOK
  <2>1. ASSUME NEW th \in Threads, Step(th) PROVE TypeOK'
    BY <2>1, StepTyped
  <2>2. ASSUME NEW th \in Threads, NEW s \in Sids, NEW ticket \in Keys, NEW token \in Keys,
               TokenRequest(th, s, ticket, token)
        PROVE  TypeOK'
    <3> DEFINE r == [kind |-> "record", sid |-> s, hid |-> NoSid,
                     key |-> KeyOf(ticket, token), args |-> {ticket, token} \ {NoKey}]
    <3>1. r \in Requests /\ r.sid = s
      BY DEF KeyOf, Requests, Keys
    <3>2. req' = [req EXCEPT ![th] = r] /\ Goto(th, "shiroRemove")
      BY <2>2 DEF TokenRequest
    <3> HIDE DEF r
    <3>3. Equipped("shiroRemove", r)
      BY <3>1 DEF Equipped
    <3>4. ThreadsOK'
      BY <2>0, <3>1, <3>2, <3>3, RequestTyped
    <3>5. carried' \subseteq Tokens \X Sids
      BY <2>2 DEF TypeOK, TokenRequest, KeyOf, Keys
    <3> QED BY <2>2, <3>4, <3>5 DEF TypeOK, TokenRequest, maps
  <2>3. ASSUME NEW th \in Threads, NEW t \in Tokens, LogoutRequest(th, t)
        PROVE  TypeOK'
    <3> DEFINE r == [NoRequest EXCEPT !.kind = "logout", !.key = t]
    <3>1. r \in Requests /\ r.key = t
      BY DEF NoRequest, Requests, Keys
    <3>2. req' = [req EXCEPT ![th] = r] /\ Goto(th, "shiroLookup")
      BY <2>3 DEF LogoutRequest
    <3> HIDE DEF r
    <3>3. Equipped("shiroLookup", r)
      BY <3>1 DEF Equipped
    <3>4. ThreadsOK'
      BY <2>0, <3>1, <3>2, <3>3, RequestTyped
    <3> QED BY <2>3, <3>4 DEF TypeOK, LogoutRequest, maps, sessions, history
  <2>4. ASSUME NEW th \in Threads, NEW s \in Sids, NEW h \in Sids, ServletLogout(th, s, h)
        PROVE  TypeOK'
    <3> DEFINE r == [NoRequest EXCEPT !.kind = "servlet", !.sid = s]
    <3>1. r \in Requests /\ r.sid = s
      BY DEF NoRequest, Requests, Keys
    <3>2. req' = [req EXCEPT ![th] = r] /\ Goto(th, "shiroStop")
      BY <2>4 DEF ServletLogout
    <3> HIDE DEF r
    <3>3. Equipped("shiroStop", r)
      BY <3>1 DEF Equipped
    <3>4. ThreadsOK'
      BY <2>0, <3>1, <3>2, <3>3, RequestTyped
    <3> QED BY <2>4, <3>4 DEF TypeOK, ServletLogout, maps, history
  <2>5. ASSUME NEW s \in Sids, ShiroExpire(s) \/ HttpExpire(s) PROVE TypeOK'
    BY <2>5 DEF TypeOK, ThreadsOK, ShiroExpire, HttpExpire, maps, history
  <2>6. CASE UNCHANGED vars
    BY <2>6 DEF TypeOK, ThreadsOK, vars, maps, sessions, history
  <2> QED BY <2>1, <2>2, <2>3, <2>4, <2>5, <2>6 DEF Next
<1> QED BY <1>1, <1>2, PTL DEF Spec

-----------------------------------------------------------------------------
(* The maps of each storage agree on every session no two requests crossed. *)

\* A storage call that adds nothing.
Shrinks(st, out) == out = st \/ \E s \in Sids : out = RemoveBySessionById(st, s)

\* Such calls keep the agreement of the maps and leave unmapped what is unmapped.
LEMMA ShrinkKeeps ==
    ASSUME NEW st \in Storage, NEW out, Shrinks(st, out), NEW x \in Sids
    PROVE  /\ Forward(st, x) => Forward(out, x)
           /\ st.keyOf[x] = Unmapped => out.keyOf[x] = Unmapped
BY RemoveKeepsForward, RemoveKeyOf DEF Shrinks

\* removeSessionByMappingId adds nothing.
LEMMA LookupShrinks ==
    ASSUME NEW st \in Storage, NEW k \in Keys
    PROVE  Shrinks(st, RemoveSessionByMappingId(st, k))
BY DEF Storage, Shrinks, RemoveSessionByMappingId

\* RecordInv, storage by storage.
ShiroRecord ==
    /\ \A s \in Sids : <<"shiro", s>> \notin crossed => Forward(shiroMap, s)
    /\ \A th \in Threads :
           pc[th] = "shiroAdd" /\ <<"shiro", req[th].sid>> \notin crossed =>
               /\ shiroMap.keyOf[req[th].sid] = Unmapped
               /\ \A u \in Threads \ {th} : pc[u] = "shiroAdd" => req[u].sid # req[th].sid

HttpRecord ==
    /\ \A h \in Sids : <<"http", h>> \notin crossed => Forward(httpMap, h)
    /\ \A th \in Threads :
           pc[th] = "httpAdd" /\ <<"http", req[th].hid>> \notin crossed =>
               /\ httpMap.keyOf[req[th].hid] = Unmapped
               /\ \A u \in Threads \ {th} : pc[u] = "httpAdd" => req[u].hid # req[th].hid

LEMMA RecordParts == RecordInv <=> ShiroRecord /\ HttpRecord
BY DEF RecordInv, MapsAgree, ShiroRecord, HttpRecord

\* Thread u does not come to add a session.
NoNewShiro(u) == pc'[u] = "shiroAdd" => pc[u] = "shiroAdd" /\ req'[u].sid = req[u].sid
NoNewHttp(u) == pc'[u] = "httpAdd" => pc[u] = "httpAdd" /\ req'[u].hid = req[u].hid

\* Steps that only shrink the storage and come to add nothing keep each part.
LEMMA ShrinkKeepsShiro ==
    ASSUME TypeOK, ShiroRecord, Shrinks(shiroMap, shiroMap'), crossed \subseteq crossed',
           \A u \in Threads : NoNewShiro(u)
    PROVE  ShiroRecord'
<1>0. shiroMap \in Storage /\ \A u \in Threads : pc[u] = "shiroAdd" => req[u].sid \in Sids
  BY DEF TypeOK, ThreadsOK, Equipped
<1>1. \A x \in Sids : /\ Forward(shiroMap, x) => Forward(shiroMap', x)
                      /\ shiroMap.keyOf[x] = Unmapped => shiroMap'.keyOf[x] = Unmapped
  BY <1>0, ShrinkKeeps
<1>2. ASSUME NEW s \in Sids, <<"shiro", s>> \notin crossed'
      PROVE  Forward(shiroMap, s)'
  BY <1>1, <1>2 DEF ShiroRecord, Forward
<1>3. ASSUME NEW u \in Threads, pc'[u] = "shiroAdd", <<"shiro", req'[u].sid>> \notin crossed'
      PROVE  /\ shiroMap'.keyOf[req'[u].sid] = Unmapped
             /\ \A v \in Threads \ {u} : pc'[v] = "shiroAdd" => req'[v].sid # req'[u].sid
  BY <1>0, <1>1, <1>3 DEF ShiroRecord, NoNewShiro
<1> QED BY <1>2, <1>3 DEF ShiroRecord

LEMMA ShrinkKeepsHttp ==
    ASSUME TypeOK, HttpRecord, Shrinks(httpMap, httpMap'), crossed \subseteq crossed',
           \A u \in Threads : NoNewHttp(u)
    PROVE  HttpRecord'
<1>0. httpMap \in Storage /\ \A u \in Threads : pc[u] = "httpAdd" => req[u].hid \in Sids
  BY DEF TypeOK, ThreadsOK, Equipped
<1>1. \A x \in Sids : /\ Forward(httpMap, x) => Forward(httpMap', x)
                      /\ httpMap.keyOf[x] = Unmapped => httpMap'.keyOf[x] = Unmapped
  BY <1>0, ShrinkKeeps
<1>2. ASSUME NEW h \in Sids, <<"http", h>> \notin crossed'
      PROVE  Forward(httpMap, h)'
  BY <1>1, <1>2 DEF HttpRecord, Forward
<1>3. ASSUME NEW u \in Threads, pc'[u] = "httpAdd", <<"http", req'[u].hid>> \notin crossed'
      PROVE  /\ httpMap'.keyOf[req'[u].hid] = Unmapped
             /\ \A v \in Threads \ {u} : pc'[v] = "httpAdd" => req'[v].hid # req'[u].hid
  BY <1>0, <1>1, <1>3 DEF HttpRecord, NoNewHttp
<1> QED BY <1>2, <1>3 DEF HttpRecord

\* The only thread a step moves is th, and not before an addition.
LEMMA AddsNext ==
    ASSUME ThreadsOK, NEW th \in Threads, NEW label \in Pcs, Goto(th, label),
           NEW r, req' = [req EXCEPT ![th] = r] \/ req' = req
    PROVE  \A u \in Threads : /\ label # "shiroAdd" => NoNewShiro(u)
                              /\ label # "httpAdd" => NoNewHttp(u)
BY DEF ThreadsOK, Goto, NoNewShiro, NoNewHttp

LEMMA ThenAddsNothing ==
    ASSUME ThreadsOK, NEW th \in Threads, NEW label \in {"httpRemove", "httpLookup"},
           Finish(th) \/ ThenHttp(th, label)
    PROVE  \A u \in Threads : NoNewShiro(u) /\ NoNewHttp(u)
BY AddsNext DEF Finish, ThenHttp

\* Every step of a request thread but the four of recordSession leaves nothing
\* new to add and adds nothing.
LEMMA QuietSteps ==
    ASSUME TypeOK, NEW th \in Threads,
           \/ HttpRefused(th) \/ ShiroLookup(th) \/ ShiroStop(th) \/ ShiroStopFails(th)
           \/ ShiroNotify(th) \/ HttpLookup(th) \/ HttpInvalidate(th)
    PROVE  /\ Shrinks(shiroMap, shiroMap') /\ Shrinks(httpMap, httpMap') /\ crossed' = crossed
           /\ \A u \in Threads : NoNewShiro(u) /\ NoNewHttp(u)
<1>0. /\ ThreadsOK /\ shiroMap \in Storage /\ httpMap \in Storage
      /\ req[th].key \in Keys /\ Equipped(pc[th], req[th])
  BY DEF TypeOK, ThreadsOK, Requests
<1>1. CASE HttpRefused(th) \/ ShiroStopFails(th) \/ HttpInvalidate(th)
  BY <1>0, <1>1, ThenAddsNothing DEF HttpRefused, ShiroStopFails, HttpInvalidate, maps, history, Shrinks
<1>2. CASE ShiroLookup(th)
  <2>1. \A u \in Threads : NoNewShiro(u) /\ NoNewHttp(u)
    BY <1>0, <1>2, ThenAddsNothing, AddsNext DEF ShiroLookup
  <2> QED BY <1>0, <1>2, <2>1, LookupShrinks DEF ShiroLookup, Shrinks
<1>3. CASE ShiroStop(th)
  <2>1. \A u \in Threads : NoNewShiro(u) /\ NoNewHttp(u)
    BY <1>0, <1>3, AddsNext DEF ShiroStop
  <2> QED BY <1>3, <2>1 DEF ShiroStop, maps, history, Shrinks
<1>4. CASE ShiroNotify(th)
  <2>1. \A u \in Threads : NoNewShiro(u) /\ NoNewHttp(u)
    BY <1>0, <1>4, ThenAddsNothing DEF ShiroNotify
  <2> QED BY <1>0, <1>4, <2>1 DEF ShiroNotify, Shrinks, Equipped, history
<1>5. CASE HttpLookup(th)
  <2>1. \A u \in Threads : NoNewShiro(u) /\ NoNewHttp(u)
    BY <1>0, <1>5, ThenAddsNothing, AddsNext DEF HttpLookup
  <2> QED BY <1>0, <1>5, <2>1, LookupShrinks DEF HttpLookup, history, Shrinks
<1> QED BY <1>1, <1>2, <1>3, <1>4, <1>5

\* removeBySessionById of recordSession: the session is unmapped now, and crossed
\* if another request is to add it.
LEMMA RemovesKeepRecord ==
    ASSUME TypeOK, ShiroRecord, HttpRecord, NEW th \in Threads,
           ShiroRemove(th) \/ \E h \in Sids : HttpRemove(th, h)
    PROVE  ShiroRecord' /\ HttpRecord'
<1>0. /\ ThreadsOK /\ shiroMap \in Storage /\ httpMap \in Storage
      /\ req[th] \in Requests /\ Equipped(pc[th], req[th])
      /\ \A u \in Threads : /\ pc[u] = "shiroAdd" => req[u].sid \in Sids
                            /\ pc[u] = "httpAdd" => req[u].hid \in Sids
  BY DEF TypeOK, ThreadsOK, Equipped
<1>1. CASE ShiroRemove(th)
  <2> DEFINE s == req[th].sid
  <2>1. /\ s \in Sids /\ shiroMap' = RemoveBySessionById(shiroMap, s) /\ httpMap' = httpMap
        /\ pc' = [pc EXCEPT ![th] = "shiroAdd"] /\ req' = req /\ Goto(th, "shiroAdd")
    BY <1>0, <1>1 DEF ShiroRemove, Goto, Equipped
  <2>2. /\ crossed \subseteq crossed'
        /\ \A u \in Threads : pc[u] = "shiroAdd" /\ req[u].sid = s => <<"shiro", s>> \in crossed'
    BY <1>1 DEF ShiroRemove, Crossing
  <2>3. HttpRecord'
    <3>1. \A u \in Threads : NoNewHttp(u)
      BY <1>0, <2>1, AddsNext
    <3> QED BY <2>1, <2>2, <3>1, ShrinkKeepsHttp DEF Shrinks
  <2>4. \A x \in Sids : /\ Forward(shiroMap, x) => Forward(shiroMap', x)
                        /\ shiroMap.keyOf[x] = Unmapped => shiroMap'.keyOf[x] = Unmapped
    BY <1>0, <2>1, ShrinkKeeps DEF Shrinks
  <2>5. shiroMap'.keyOf[s] = Unmapped
    BY <1>0, <2>1, RemoveKeyOf
  <2>6. ASSUME NEW x \in Sids, <<"shiro", x>> \notin crossed'
        PROVE  Forward(shiroMap, x)'
    BY <2>2, <2>4, <2>6 DEF ShiroRecord, Forward
  <2>7. ASSUME NEW u \in Threads, pc'[u] = "shiroAdd", <<"shiro", req'[u].sid>> \notin crossed'
        PROVE  /\ shiroMap'.keyOf[req'[u].sid] = Unmapped
               /\ \A v \in Threads \ {u} : pc'[v] = "shiroAdd" => req'[v].sid # req'[u].sid
    <3>1. CASE u = th
      BY <1>0, <2>1, <2>2, <2>5, <2>7, <3>1 DEF ThreadsOK
    <3>2. CASE u # th
      <4>1. pc[u] = "shiroAdd" /\ req'[u] = req[u] /\ <<"shiro", req[u].sid>> \notin crossed
        BY <1>0, <2>1, <2>2, <2>7, <3>2 DEF ThreadsOK
      <4>2. shiroMap'.keyOf[req[u].sid] = Unmapped
        BY <1>0, <2>4, <4>1 DEF ShiroRecord
      <4>3. req[u].sid # s
        BY <2>1, <2>2, <2>7, <4>1
      <4> QED BY <1>0, <2>1, <4>1, <4>2, <4>3 DEF ShiroRecord, ThreadsOK
    <3> QED BY <3>1, <3>2
  <2>8. ShiroRecord'
    BY <2>6, <2>7 DEF ShiroRecord
  <2> QED BY <2>3, <2>8
<1>2. ASSUME NEW h \in Sids, HttpRemove(th, h)
      PROVE  ShiroRecord' /\ HttpRecord'
  <2>1. /\ httpMap' = RemoveBySessionById(httpMap, h) /\ shiroMap' = shiroMap
        /\ req' = [req EXCEPT ![th] = [req[th] EXCEPT !.hid = h]] /\ Goto(th, "httpAdd")
    BY <1>2 DEF HttpRemove
  <2>2. /\ crossed \subseteq crossed'
        /\ \A u \in Threads : pc[u] = "httpAdd" /\ req[u].hid = h => <<"http", h>> \in crossed'
    BY <1>2 DEF HttpRemove, Crossing
  <2>3. ShiroRecord'
    <3>1. \A u \in Threads : NoNewShiro(u)
      BY <1>0, <2>1 DEF Goto, ThreadsOK, NoNewShiro
    <3> QED BY <2>1, <2>2, <3>1, ShrinkKeepsShiro DEF Shrinks
  <2>4. \A x \in Sids : /\ Forward(httpMap, x) => Forward(httpMap', x)
                        /\ httpMap.keyOf[x] = Unmapped => httpMap'.keyOf[x] = Unmapped
    BY <1>0, <2>1, ShrinkKeeps DEF Shrinks
  <2>5. httpMap'.keyOf[h] = Unmapped
    BY <1>0, <2>1, RemoveKeyOf
  <2>6. ASSUME NEW x \in Sids, <<"http", x>> \notin crossed'
        PROVE  Forward(httpMap, x)'
    BY <2>2, <2>4, <2>6 DEF HttpRecord, Forward
  <2>7. /\ pc'[th] = "httpAdd" /\ req'[th].hid = h
        /\ \A u \in Threads \ {th} : pc'[u] = pc[u] /\ req'[u] = req[u]
    BY <1>0, <2>1 DEF Goto, ThreadsOK, Requests
  <2>8. ASSUME NEW u \in Threads, pc'[u] = "httpAdd", <<"http", req'[u].hid>> \notin crossed'
        PROVE  /\ httpMap'.keyOf[req'[u].hid] = Unmapped
               /\ \A v \in Threads \ {u} : pc'[v] = "httpAdd" => req'[v].hid # req'[u].hid
    <3>1. CASE u = th
      BY <2>2, <2>5, <2>7, <2>8, <3>1
    <3>2. CASE u # th
      <4>1. pc[u] = "httpAdd" /\ req'[u] = req[u] /\ <<"http", req[u].hid>> \notin crossed
        BY <2>2, <2>7, <2>8, <3>2
      <4>2. httpMap'.keyOf[req[u].hid] = Unmapped
        BY <1>0, <2>4, <4>1 DEF HttpRecord
      <4>3. req[u].hid # h
        BY <2>2, <2>8, <4>1
      <4> QED BY <2>7, <4>1, <4>2, <4>3 DEF HttpRecord
    <3> QED BY <3>1, <3>2
  <2>9. HttpRecord'
    BY <2>6, <2>8 DEF HttpRecord
  <2> QED BY <2>3, <2>9
<1> QED BY <1>1, <1>2

\* addSessionById of recordSession: a session nobody crossed had no entry, and
\* no other request is to add it.
LEMMA AddsKeepRecord ==
    ASSUME TypeOK, ShiroRecord, HttpRecord, NEW th \in Threads, ShiroAdd(th) \/ HttpAdd(th)
    PROVE  ShiroRecord' /\ HttpRecord'
<1>0. /\ ThreadsOK /\ shiroMap \in Storage /\ httpMap \in Storage
      /\ req[th].key \in Keys /\ Equipped(pc[th], req[th])
      /\ \A u \in Threads : /\ pc[u] = "shiroAdd" => req[u].sid \in Sids
                            /\ pc[u] = "httpAdd" => req[u].hid \in Sids
  BY DEF TypeOK, ThreadsOK, Equipped, Requests
<1>1. CASE ShiroAdd(th)
  <2> DEFINE s == req[th].sid
             k == req[th].key
  <2>1. /\ s \in Sids /\ k \in Keys /\ pc[th] = "shiroAdd"
        /\ shiroMap' = AddSessionById(shiroMap, k, s)
        /\ httpMap' = httpMap /\ crossed' = crossed
    BY <1>0, <1>1 DEF ShiroAdd
  <2>2. \A u \in Threads : NoNewShiro(u) /\ NoNewHttp(u)
    BY <1>0, <1>1, ThenAddsNothing DEF ShiroAdd
  <2>3. /\ pc'[th] # "shiroAdd"
        /\ \A u \in Threads \ {th} : pc'[u] = pc[u] /\ req'[u] = req[u]
    BY <1>0, <1>1 DEF ShiroAdd, ThenHttp, Finish, Goto, ThreadsOK
  <2>4. HttpRecord'
    BY <2>1, <2>2, ShrinkKeepsHttp DEF Shrinks
  <2>5. ASSUME NEW x \in Sids, <<"shiro", x>> \notin crossed'
        PROVE  Forward(shiroMap, x)'
    <3>1. Forward(shiroMap, x) /\ (x = s => shiroMap.keyOf[s] = Unmapped)
      BY <2>1, <2>5 DEF ShiroRecord
    <3>2. Forward(shiroMap', x)
      BY <1>0, <2>1, <3>1, AddKeepsForward
    <3> QED BY <3>2 DEF Forward
  <2>6. ASSUME NEW u \in Threads, pc'[u] = "shiroAdd", <<"shiro", req'[u].sid>> \notin crossed'
        PROVE  /\ shiroMap'.keyOf[req'[u].sid] = Unmapped
               /\ \A v \in Threads \ {u} : pc'[v] = "shiroAdd" => req'[v].sid # req'[u].sid
    <3>1. /\ u # th /\ pc[u] = "shiroAdd" /\ req'[u] = req[u] /\ req[u].sid \in Sids
          /\ <<"shiro", req[u].sid>> \notin crossed
      BY <1>0, <2>1, <2>3, <2>6
    <3>2. req[u].sid # s /\ shiroMap.keyOf[req[u].sid] = Unmapped
      BY <2>1, <3>1 DEF ShiroRecord
    <3>3. shiroMap'.keyOf[req[u].sid] = Unmapped
      BY <1>0, <2>1, <3>1, <3>2 DEF AddSessionById, Storage
    <3> QED BY <2>3, <3>1, <3>3 DEF ShiroRecord
  <2>7. ShiroRecord'
    BY <2>5, <2>6 DEF ShiroRecord
  <2> QED BY <2>4, <2>7
<1>2. CASE HttpAdd(th)
  <2> DEFINE h == req[th].hid
             k == req[th].key
  <2>1. /\ h \in Sids /\ k \in Keys /\ pc[th] = "httpAdd"
        /\ httpMap' = AddSessionById(httpMap, k, h)
        /\ shiroMap' = shiroMap /\ crossed' = crossed
    BY <1>0, <1>2 DEF HttpAdd, Equipped
  <2>2. \A u \in Threads : NoNewShiro(u) /\ NoNewHttp(u)
    BY <1>0, <1>2, ThenAddsNothing DEF HttpAdd
  <2>3. /\ pc'[th] # "httpAdd"
        /\ \A u \in Threads \ {th} : pc'[u] = pc[u] /\ req'[u] = req[u]
    BY <1>0, <1>2 DEF HttpAdd, Finish, Goto, ThreadsOK
  <2>4. ShiroRecord'
    BY <2>1, <2>2, ShrinkKeepsShiro DEF Shrinks
  <2>5. ASSUME NEW x \in Sids, <<"http", x>> \notin crossed'
        PROVE  Forward(httpMap, x)'
    <3>1. Forward(httpMap, x) /\ (x = h => httpMap.keyOf[h] = Unmapped)
      BY <2>1, <2>5 DEF HttpRecord
    <3>2. Forward(httpMap', x)
      BY <1>0, <2>1, <3>1, AddKeepsForward
    <3> QED BY <3>2 DEF Forward
  <2>6. ASSUME NEW u \in Threads, pc'[u] = "httpAdd", <<"http", req'[u].hid>> \notin crossed'
        PROVE  /\ httpMap'.keyOf[req'[u].hid] = Unmapped
               /\ \A v \in Threads \ {u} : pc'[v] = "httpAdd" => req'[v].hid # req'[u].hid
    <3>1. /\ u # th /\ pc[u] = "httpAdd" /\ req'[u] = req[u] /\ req[u].hid \in Sids
          /\ <<"http", req[u].hid>> \notin crossed
      BY <1>0, <2>1, <2>3, <2>6
    <3>2. req[u].hid # h /\ httpMap.keyOf[req[u].hid] = Unmapped
      BY <2>1, <3>1 DEF HttpRecord
    <3>3. httpMap'.keyOf[req[u].hid] = Unmapped
      BY <1>0, <2>1, <3>1, <3>2 DEF AddSessionById, Storage
    <3> QED BY <2>3, <3>1, <3>3 DEF HttpRecord
  <2>7. HttpRecord'
    BY <2>5, <2>6 DEF HttpRecord
  <2> QED BY <2>4, <2>7
<1> QED BY <1>1, <1>2

\* Between the removal and the addition of recordSession nothing is mapped to the
\* session, unless two requests of it crossed there: recordSession of both
\* handlers, against logouts, listener and the requests of other sessions.
THEOREM RecordInductive == Spec => []RecordInv
<1>1. Init => RecordInv
  BY MappingNulls DEF Init, RecordInv, MapsAgree, Forward, EmptyStorage
<1>2. TypeOK /\ RecordInv /\ [Next]_vars => RecordInv'
  <2> SUFFICES ASSUME TypeOK, ShiroRecord, HttpRecord, [Next]_vars
               PROVE  ShiroRecord' /\ HttpRecord'
    <3>1. RecordInv' <=> ShiroRecord' /\ HttpRecord'
      BY DEF RecordInv, MapsAgree, ShiroRecord, HttpRecord
    <3> QED BY <3>1, RecordParts
  <2>0. ThreadsOK
    BY DEF TypeOK
  <2>1. ASSUME NEW th \in Threads, Step(th) PROVE ShiroRecord' /\ HttpRecord'
    <3>1. CASE ShiroRemove(th) \/ \E h \in Sids : HttpRemove(th, h)
      BY <3>1, RemovesKeepRecord
    <3>2. CASE ShiroAdd(th) \/ HttpAdd(th)
      BY <3>2, AddsKeepRecord
    <3>3. CASE \/ HttpRefused(th) \/ ShiroLookup(th) \/ ShiroStop(th) \/ ShiroStopFails(th)
               \/ ShiroNotify(th) \/ HttpLookup(th) \/ HttpInvalidate(th)
      BY <3>3, QuietSteps, ShrinkKeepsShiro, ShrinkKeepsHttp
    <3> QED BY <2>1, <3>1, <3>2, <3>3 DEF Step
  <2>2. ASSUME \/ \E th \in Threads, s \in Sids, ticket, token \in Keys :
                      TokenRequest(th, s, ticket, token)
               \/ \E th \in Threads, t \in Tokens : LogoutRequest(th, t)
               \/ \E th \in Threads, s, h \in Sids : ServletLogout(th, s, h)
        PROVE  ShiroRecord' /\ HttpRecord'
    <3>1. \A u \in Threads : NoNewShiro(u) /\ NoNewHttp(u)
      BY <2>0, <2>2
      DEF TokenRequest, LogoutRequest, ServletLogout, Goto, ThreadsOK, NoNewShiro, NoNewHttp
    <3>2. UNCHANGED <<shiroMap, httpMap, crossed>>
      BY <2>2 DEF TokenRequest, LogoutRequest, ServletLogout, maps, history
    <3> QED BY <3>1, <3>2, ShrinkKeepsShiro, ShrinkKeepsHttp DEF Shrinks
  <2>3. CASE (\E s \in Sids : ShiroExpire(s) \/ HttpExpire(s)) \/ UNCHANGED vars
    <3>1. UNCHANGED <<shiroMap, httpMap, crossed, pc, req>>
      BY <2>3 DEF ShiroExpire, HttpExpire, maps, history, vars
    <3> QED BY <3>1, ShrinkKeepsShiro, ShrinkKeepsHttp DEF Shrinks, NoNewShiro, NoNewHttp
  <2> QED BY <2>1, <2>2, <2>3 DEF Next
<1> QED BY <1>1, <1>2, TypeCorrect, PTL DEF Spec

\* The two maps of each storage agree on every session that no two requests
\* recorded at once, whatever logouts, the listener and the other sessions'
\* requests do between the two calls of recordSession.
THEOREM MapsAlwaysAgree == Spec => []MapsAgree
<1>1. RecordInv => MapsAgree
  BY DEF RecordInv
<1> QED BY <1>1, RecordInductive, PTL

-----------------------------------------------------------------------------
(* Logouts leave no session behind, overlapping requests or not.           *)

\* What storages and requests name are sessions that began.
Begun ==
    /\ \A k \in Keys, s \in Sids : shiroMap.managed[k] = s => shiroState[s] # "fresh"
    /\ \A th \in Threads :
           pc[th] \in {"shiroRemove", "shiroAdd", "shiroStop"} => shiroState[req[th].sid] # "fresh"

\* A session still found under a token that was logged out is dead, or a
\* request is about to stop it.
Doomed ==
    \A t \in loggedOut, s \in Sids :
        shiroMap.managed[t] = s =>
            \/ shiroState[s] = "dead"
            \/ \E th \in Threads : pc[th] = "shiroStop" /\ req[th].sid = s

LeftInv == Begun /\ Doomed

\* Removals add nothing to the first map.
LEMMA RemoveAddsNothing ==
    ASSUME NEW st \in Storage, NEW k \in Keys, NEW x \in Sids
    PROVE  /\ \A j \in Keys, s \in Sids : RemoveBySessionById(st, x).managed[j] = s => st.managed[j] = s
           /\ \A j \in Keys, s \in Sids : RemoveSessionByMappingId(st, k).managed[j] = s => st.managed[j] = s
<1>1. ASSUME NEW y \in Sids, NEW j \in Keys, NEW s \in Sids, RemoveBySessionById(st, y).managed[j] = s
      PROVE  st.managed[j] = s
  BY <1>1, MappingNulls DEF Storage, RemoveBySessionById
<1> QED BY <1>1 DEF RemoveSessionByMappingId, Storage

\* Steps that leave what the storage finds, what sessions are, and what other
\* requests are about to stop.
LEMMA NothingAdded ==
    ASSUME LeftInv,
           \A j \in Keys, s \in Sids : shiroMap'.managed[j] = s => shiroMap.managed[j] = s,
           \A s \in Sids : /\ shiroState'[s] = "fresh" => shiroState[s] = "fresh"
                           /\ shiroState[s] = "dead" => shiroState'[s] = "dead",
           \A u \in Threads :
               /\ pc'[u] \in {"shiroRemove", "shiroAdd", "shiroStop"} =>
                      shiroState'[req'[u].sid] # "fresh"
               /\ pc[u] = "shiroStop" =>
                      \/ pc'[u] = "shiroStop" /\ req'[u].sid = req[u].sid
                      \/ shiroState'[req[u].sid] = "dead",
           loggedOut' \subseteq loggedOut, loggedOut \subseteq Keys
    PROVE  LeftInv'
<1>1. Begun'
  BY DEF LeftInv, Begun
<1>2. Doomed'
  <2>1. SUFFICES ASSUME NEW t \in loggedOut, NEW s \in Sids, shiroMap.managed[t] = s
                 PROVE  \/ shiroState'[s] = "dead"
                        \/ \E th \in Threads : pc'[th] = "shiroStop" /\ req'[th].sid = s
    BY DEF Doomed
  <2>2. \/ shiroState[s] = "dead"
        \/ \E th \in Threads : pc[th] = "shiroStop" /\ req[th].sid = s
    BY <2>1 DEF LeftInv, Doomed
  <2> QED BY <2>2
<1> QED BY <1>1, <1>2 DEF LeftInv

\* A storage call that adds nothing finds nothing that was not there.
LEMMA ShrinkAddsNothing ==
    ASSUME NEW st \in Storage, NEW out, Shrinks(st, out)
    PROVE  \A j \in Keys, s \in Sids : out.managed[j] = s => st.managed[j] = s
<1>1. NoKey \in Keys
  BY DEF Keys
<1> QED BY <1>1, RemoveAddsNothing DEF Shrinks

\* The threads but th go on as they were.
LEMMA OthersStay ==
    ASSUME ThreadsOK, NEW th \in Threads, NEW label, Goto(th, label),
           NEW r, req' = [req EXCEPT ![th] = r] \/ req' = req
    PROVE  /\ pc'[th] = label
           /\ \A u \in Threads \ {th} : pc'[u] = pc[u] /\ req'[u] = req[u]
BY DEF ThreadsOK, Goto

\* A request that is over, or goes on with the other handler.
LEMMA OthersStayThen ==
    ASSUME ThreadsOK, NEW th \in Threads, NEW label \in {"httpRemove", "httpLookup"},
           Finish(th) \/ ThenHttp(th, label)
    PROVE  /\ pc'[th] \in {"idle", label}
           /\ \A u \in Threads \ {th} : pc'[u] = pc[u] /\ req'[u] = req[u]
<1>1. ASSUME Finish(th)
      PROVE  /\ pc'[th] \in {"idle", label}
             /\ \A u \in Threads \ {th} : pc'[u] = pc[u] /\ req'[u] = req[u]
  BY <1>1, OthersStay DEF Finish
<1>2. ASSUME Goto(th, label), UNCHANGED req
      PROVE  /\ pc'[th] \in {"idle", label}
             /\ \A u \in Threads \ {th} : pc'[u] = pc[u] /\ req'[u] = req[u]
  BY <1>2, OthersStay
<1> QED BY <1>1, <1>2 DEF ThenHttp

\* Every step of a request thread keeps LeftInv.
LEMMA StepLeaves ==
    ASSUME TypeOK, LeftInv, NEW th \in Threads, Step(th)
    PROVE  LeftInv'
<1>0. /\ ThreadsOK /\ shiroMap \in Storage /\ shiroState \in [Sids -> Life]
      /\ loggedOut \subseteq Keys /\ req[th].key \in Keys
      /\ pc[th] \in {"shiroRemove", "shiroAdd", "shiroStop", "shiroNotify"} => req[th].sid \in Sids
      /\ pc[th] = "shiroLookup" => req[th].key \in Tokens
  BY DEF TypeOK, ThreadsOK, Equipped, Requests, Keys, RecordPcs
<1>1. CASE \/ \E h \in Sids : HttpRemove(th, h)
           \/ HttpRefused(th) \/ HttpAdd(th) \/ HttpLookup(th) \/ HttpInvalidate(th)
  <2>1. /\ UNCHANGED <<shiroMap, shiroState>> /\ loggedOut' \subseteq loggedOut
        /\ pc[th] \in {"httpRemove", "httpAdd", "httpLookup", "httpInvalidate"}
    BY <1>1 DEF HttpRemove, HttpRefused, HttpAdd, HttpLookup, HttpInvalidate, maps, sessions, history
  <2>2. /\ pc'[th] \in {"idle", "httpAdd", "httpInvalidate"}
        /\ \A u \in Threads \ {th} : pc'[u] = pc[u] /\ req'[u] = req[u]
    BY <1>0, <1>1 DEF HttpRemove, HttpRefused, HttpAdd, HttpLookup, HttpInvalidate, Goto, Finish, ThreadsOK
  <2> QED BY <1>0, <2>1, <2>2, NothingAdded DEF LeftInv, Begun
<1>2. CASE ShiroRemove(th)
  <2>1. /\ pc[th] = "shiroRemove" /\ pc'[th] = "shiroAdd" /\ req' = req
        /\ \A u \in Threads \ {th} : pc'[u] = pc[u]
        /\ shiroMap' = RemoveBySessionById(shiroMap, req[th].sid)
        /\ UNCHANGED <<shiroState, loggedOut>>
    BY <1>0, <1>2 DEF ShiroRemove, Goto, ThreadsOK, sessions, history
  <2>2. \A j \in Keys, s \in Sids : shiroMap'.managed[j] = s => shiroMap.managed[j] = s
    BY <1>0, <2>1, ShrinkAddsNothing DEF Shrinks
  <2> QED BY <1>0, <2>1, <2>2, NothingAdded DEF LeftInv, Begun
<1>3. CASE ShiroAdd(th)
  <2> DEFINE s == req[th].sid
             k == req[th].key
  <2>1. /\ pc[th] = "shiroAdd" /\ shiroState' = shiroState /\ loggedOut' = loggedOut \ {k}
        /\ shiroMap'.managed = [shiroMap.managed EXCEPT ![k] = s]
    BY <1>3 DEF ShiroAdd, AddSessionById, sessions
  <2>2. /\ pc'[th] \in {"idle", "httpRemove"}
        /\ \A u \in Threads \ {th} : pc'[u] = pc[u] /\ req'[u] = req[u]
    BY <1>0, <1>3, OthersStayThen DEF ShiroAdd
  <2>3. s \in Sids /\ shiroState[s] # "fresh" /\ shiroMap.managed \in [Keys -> Sids \union {NoSid}]
    BY <1>0, <2>1 DEF LeftInv, Begun, Storage
  <2>4. Begun'
    BY <1>0, <2>1, <2>2, <2>3 DEF LeftInv, Begun
  <2>5. Doomed'
    <3>1. SUFFICES ASSUME NEW t \in loggedOut \ {k}, NEW x \in Sids, shiroMap.managed[t] = x
                   PROVE  \/ shiroState[x] = "dead"
                          \/ \E u \in Threads : pc'[u] = "shiroStop" /\ req'[u].sid = x
      BY <1>0, <2>1, <2>3 DEF Doomed
    <3>2. \/ shiroState[x] = "dead"
          \/ \E u \in Threads : pc[u] = "shiroStop" /\ req[u].sid = x
      BY <3>1 DEF LeftInv, Doomed
    <3> QED BY <2>1, <2>2, <3>2
  <2> QED BY <2>4, <2>5 DEF LeftInv
<1>4. CASE ShiroLookup(th)
  <2> DEFINE k == req[th].key
             s == SessionFound(shiroMap, k)
  <2>1. /\ pc[th] = "shiroLookup" /\ k \in Tokens /\ shiroState' = shiroState
        /\ loggedOut' = loggedOut \union {k}
        /\ shiroMap' = RemoveSessionByMappingId(shiroMap, k)
        /\ s \in Sids \union {NoSid}
    BY <1>0, <1>4 DEF ShiroLookup, sessions, SessionFound, Storage
  <2>2. \A j \in Keys, x \in Sids : shiroMap'.managed[j] = x => shiroMap.managed[j] = x
    BY <1>0, <2>1, LookupShrinks, ShrinkAddsNothing
  <2>3. /\ \A u \in Threads \ {th} : pc'[u] = pc[u] /\ req'[u] = req[u]
        /\ \/ s = NoSid /\ pc'[th] \in {"idle", "httpLookup"}
           \/ s # NoSid /\ pc'[th] = "shiroStop" /\ req'[th].sid = s
    <3>1. CASE s = NoSid /\ ThenHttp(th, "httpLookup")
      BY <1>0, <3>1, OthersStayThen
    <3>2. CASE s # NoSid /\ req' = [req EXCEPT ![th].sid = s] /\ Goto(th, "shiroStop")
      BY <1>0, <3>2 DEF Goto, ThreadsOK, Requests
    <3> QED BY <1>4, <3>1, <3>2 DEF ShiroLookup
  <2>4. s # NoSid => shiroState[s] # "fresh"
    BY <1>0, <2>1 DEF LeftInv, Begun, SessionFound
  <2>5. Begun'
    BY <2>1, <2>2, <2>3, <2>4 DEF LeftInv, Begun
  <2>6. Doomed'
    <3>1. SUFFICES ASSUME NEW t \in loggedOut', NEW x \in Sids, shiroMap.managed[t] = x
                   PROVE  \/ shiroState[x] = "dead"
                          \/ \E u \in Threads : pc'[u] = "shiroStop" /\ req'[u].sid = x
      BY <1>0, <2>1, <2>2 DEF Doomed
    <3>2. CASE t \in loggedOut
      BY <2>1, <2>3, <3>1, <3>2 DEF LeftInv, Doomed
    <3>3. CASE t = k
      BY <2>3, <3>1, <3>3, MappingNulls DEF SessionFound
    <3> QED BY <2>1, <3>2, <3>3
  <2> QED BY <2>5, <2>6 DEF LeftInv
<1>5. CASE ShiroStop(th) \/ ShiroStopFails(th)
  <2> DEFINE s == req[th].sid
  <2>1. /\ pc[th] = "shiroStop" /\ pc'[th] \in {"shiroNotify", "idle"}
        /\ \A u \in Threads \ {th} : pc'[u] = pc[u] /\ req'[u] = req[u]
        /\ UNCHANGED <<shiroMap, loggedOut>>
    BY <1>0, <1>5 DEF ShiroStop, ShiroStopFails, Goto, Finish, ThreadsOK, maps, history
  <2>2. s \in Sids /\ shiroState[s] # "fresh"
    BY <1>0, <2>1 DEF LeftInv, Begun
  <2>3. /\ shiroState'[s] = "dead"
        /\ \A x \in Sids : /\ shiroState'[x] = "fresh" => shiroState[x] = "fresh"
                           /\ shiroState[x] = "dead" => shiroState'[x] = "dead"
    BY <1>0, <1>5, <2>2 DEF ShiroStop, ShiroStopFails, sessions, Life
  <2>4. \A u \in Threads : pc[u] \in {"shiroRemove", "shiroAdd", "shiroStop"} => req[u].sid \in Sids
    BY <1>0 DEF ThreadsOK, Equipped, RecordPcs
  <2> QED BY <1>0, <2>1, <2>3, <2>4, NothingAdded DEF LeftInv, Begun
<1>6. CASE ShiroNotify(th)
  <2>1. /\ pc[th] = "shiroNotify" /\ UNCHANGED <<shiroState, loggedOut>>
        /\ shiroMap' = RemoveBySessionById(shiroMap, req[th].sid)
    BY <1>6 DEF ShiroNotify, sessions, history
  <2>2. /\ pc'[th] \in {"idle", "httpLookup"}
        /\ \A u \in Threads \ {th} : pc'[u] = pc[u] /\ req'[u] = req[u]
    BY <1>0, <1>6, OthersStayThen DEF ShiroNotify
  <2>3. \A j \in Keys, s \in Sids : shiroMap'.managed[j] = s => shiroMap.managed[j] = s
    BY <1>0, <2>1, ShrinkAddsNothing DEF Shrinks
  <2> QED BY <1>0, <2>1, <2>2, <2>3, NothingAdded DEF LeftInv, Begun
<1> QED BY <1>1, <1>2, <1>3, <1>4, <1>5, <1>6 DEF Step

\* Requests that begin, and sessions that end by themselves, keep LeftInv.
LEMMA BeginLeaves ==
    ASSUME TypeOK, LeftInv,
           \/ \E th \in Threads, s \in Sids, ticket, token \in Keys : TokenRequest(th, s, ticket, token)
           \/ \E th \in Threads, t \in Tokens : LogoutRequest(th, t)
           \/ \E th \in Threads, s, h \in Sids : ServletLogout(th, s, h)
           \/ \E s \in Sids : ShiroExpire(s) \/ HttpExpire(s)
    PROVE  LeftInv'
<1>0. /\ ThreadsOK /\ shiroState \in [Sids -> Life] /\ loggedOut \subseteq Keys
      /\ \A u \in Threads : pc[u] \in {"shiroRemove", "shiroAdd", "shiroStop"} => req[u].sid \in Sids
  BY DEF TypeOK, ThreadsOK, Equipped, Keys, RecordPcs
<1>1. UNCHANGED <<shiroMap, loggedOut>>
  BY DEF TokenRequest, LogoutRequest, ServletLogout, ShiroExpire, HttpExpire, maps, history
<1>2. ASSUME NEW th \in Threads, NEW s \in Sids, NEW ticket \in Keys, NEW token \in Keys,
             TokenRequest(th, s, ticket, token)
      PROVE  LeftInv'
  <2>1. /\ pc[th] = "idle" /\ pc'[th] = "shiroRemove" /\ req'[th].sid = s
        /\ \A u \in Threads \ {th} : pc'[u] = pc[u] /\ req'[u] = req[u]
    BY <1>0, <1>2 DEF TokenRequest, Goto, ThreadsOK
  <2>2. shiroState[s] # "dead" /\ shiroState' = [shiroState EXCEPT ![s] = "live"]
    BY <1>2 DEF TokenRequest, Obtainable
  <2> QED BY <1>0, <1>1, <2>1, <2>2, NothingAdded DEF LeftInv, Begun
<1>3. ASSUME NEW th \in Threads, NEW t \in Tokens, LogoutRequest(th, t)
      PROVE  LeftInv'
  <2>1. /\ pc[th] = "idle" /\ pc'[th] = "shiroLookup" /\ shiroState' = shiroState
        /\ \A u \in Threads \ {th} : pc'[u] = pc[u] /\ req'[u] = req[u]
    BY <1>0, <1>3 DEF LogoutRequest, Goto, ThreadsOK, sessions
  <2> QED BY <1>0, <1>1, <2>1, NothingAdded DEF LeftInv, Begun
<1>4. ASSUME NEW th \in Threads, NEW s \in Sids, NEW h \in Sids, ServletLogout(th, s, h)
      PROVE  LeftInv'
  <2>1. /\ pc[th] = "idle" /\ pc'[th] = "shiroStop" /\ req'[th].sid = s
        /\ \A u \in Threads \ {th} : pc'[u] = pc[u] /\ req'[u] = req[u]
        /\ shiroState[s] = "live" /\ shiroState' = shiroState
    BY <1>0, <1>4 DEF ServletLogout, NoRequest, Goto, ThreadsOK
  <2> QED BY <1>0, <1>1, <2>1, NothingAdded DEF LeftInv, Begun
<1>5. ASSUME NEW s \in Sids, ShiroExpire(s) \/ HttpExpire(s)
      PROVE  LeftInv'
  <2>1. pc' = pc /\ req' = req /\ (shiroState' = shiroState \/ shiroState' = [shiroState EXCEPT ![s] = "dead"])
    BY <1>5 DEF ShiroExpire, HttpExpire
  <2> QED BY <1>0, <1>1, <2>1, NothingAdded DEF LeftInv, Begun
<1> QED BY <1>2, <1>3, <1>4, <1>5

\* A session found under a token that was logged out is dead or about to be
\* stopped (destroySession, recordSession).
THEOREM LogoutsLeave == Spec => []LeftInv
<1>1. Init => LeftInv
  BY MappingNulls DEF Init, LeftInv, Begun, Doomed, EmptyStorage
<1>2. TypeOK /\ LeftInv /\ [Next]_vars => LeftInv'
  <2> SUFFICES ASSUME TypeOK, LeftInv, [Next]_vars PROVE LeftInv'
    OBVIOUS
  <2>1. CASE \E th \in Threads : Step(th)
    BY <2>1, StepLeaves
  <2>2. CASE UNCHANGED vars
    BY <2>2 DEF vars, maps, sessions, history, LeftInv, Begun, Doomed
  <2> QED BY <2>1, <2>2, BeginLeaves DEF Next
<1> QED BY <1>1, <1>2, TypeCorrect, PTL DEF Spec

\* When all requests are through, no live Shiro session is found under a token
\* that was logged out, even if requests of one session overlap and tokens are
\* shared (ShiroSingleSignOutHandler.destroySession).
THEOREM NoSessionLeft == Spec => []NoShiroSessionLeft
<1>1. LeftInv => NoShiroSessionLeft
  BY DEF LeftInv, Doomed, NoShiroSessionLeft, AllIdle
<1> QED BY <1>1, LogoutsLeave, PTL
=============================================================================
