---------------------------- MODULE SingleSignOut ----------------------------
(***************************************************************************)
(* The client side of CAS single sign-out: ShiroSingleSignOutFilter, the   *)
(* two handlers it calls (ShiroSingleSignOutHandler for the Shiro session, *)
(* SingleSignOutHandler for the container's HttpSession), their storages,  *)
(* the Shiro session listener and LogoutServlet.                           *)
(*                                                                         *)
(* Request threads interleave between any two synchronized calls of a      *)
(* storage and between a storage call and the call to the session manager. *)
(* A session id that is still "fresh" belongs to no session yet.           *)
(***************************************************************************)
EXTENDS SessionMapping

CONSTANTS
    Threads,            \* request threads of the servlet container
    BrowserOf           \* the browser (cookie jar) a session id is handed to

ASSUME SignOutConstants == DOMAIN BrowserOf = Sids

VARIABLES
    needDoHttpSession,  \* whether the filter was told to handle HTTP sessions, too
    shiroMap,   \* storage of ShiroSingleSignOutFilter.handler
    httpMap,    \* storage of ShiroSingleSignOutFilter.casSSOHandler
    shiroState, \* life of each Shiro session, in DefaultWebSessionManager
    httpState,  \* life of each HttpSession, in the servlet container
    pc,         \* the next call of each request thread
    req,        \* what the request in progress works on
    latest,     \* history: key and tokens of the latest request stored for a session
    loggedOut,  \* history: tokens looked up for logout and not stored since
    carried,    \* history: <<t, s>> once a request of session s came with token t as its key
    crossed     \* history: the storages and sessions two requests recorded at once

maps == <<shiroMap, httpMap>>
sessions == <<shiroState, httpState>>
history == <<latest, loggedOut, carried, crossed>>
vars == <<needDoHttpSession, maps, sessions, pc, req, history>>

Life == {"fresh", "live", "dead"}

\* Where a thread stands: before which call.
RecordPcs == {"shiroRemove", "shiroAdd", "httpRemove", "httpAdd"}
LogoutPcs == {"shiroLookup", "shiroStop", "shiroNotify", "httpLookup", "httpInvalidate"}
Pcs == {"idle"} \union RecordPcs \union LogoutPcs

\* kind tells the three sorts of request apart, sid and hid are its Shiro and
\* HTTP sessions, key its mapping id, args the tokens it carried.
Requests == [kind : {"record", "logout", "servlet"},
             sid : Sids \union {NoSid}, hid : Sids \union {NoSid},
             key : Keys, args : SUBSET Tokens]

NoRequest == [kind |-> "record", sid |-> NoSid, hid |-> NoSid, key |-> NoKey, args |-> {}]

\* What a request must have found by the time it stands before a call.
Equipped(label, r) ==
    /\ label \in RecordPcs \union {"shiroStop", "shiroNotify"} => r.sid \in Sids
    /\ label \in {"httpAdd", "httpInvalidate"} => r.hid \in Sids
    /\ label = "shiroLookup" => r.key \in Tokens

ThreadsOK ==
    /\ pc \in [Threads -> Pcs]
    /\ req \in [Threads -> Requests]
    /\ \A th \in Threads : Equipped(pc[th], req[th])

TypeOK ==
    /\ needDoHttpSession \in BOOLEAN
    /\ shiroMap \in Storage
    /\ httpMap \in Storage
    /\ shiroState \in [Sids -> Life]
    /\ httpState \in [Sids -> Life]
    /\ ThreadsOK
    /\ latest \in [Sids -> [key : Keys, args : SUBSET Tokens]]
    /\ loggedOut \subseteq Tokens
    /\ carried \subseteq Tokens \X Sids
    /\ crossed \subseteq {"shiro", "http"} \X Sids

Init ==
    /\ needDoHttpSession \in BOOLEAN
    /\ shiroMap = EmptyStorage
    /\ httpMap = EmptyStorage
    /\ shiroState = [s \in Sids |-> "fresh"]
    /\ httpState = [s \in Sids |-> "fresh"]
    /\ pc = [th \in Threads |-> "idle"]
    /\ req = [th \in Threads |-> NoRequest]
    /\ latest = [s \in Sids |-> [key |-> NoKey, args |-> {}]]
    /\ loggedOut = {}
    /\ carried = {}
    /\ crossed = {}

-----------------------------------------------------------------------------
(* Helpers.                                                                *)

Goto(th, label) == pc' = [pc EXCEPT ![th] = label]

Finish(th) ==
    /\ Goto(th, "idle")
    /\ req' = [req EXCEPT ![th] = NoRequest]

\* getSession() hands out the browser's live session, or a new one if it has none.
Obtainable(state, s) ==
    \/ state[s] = "live"
    \/ /\ state[s] = "fresh"
       /\ \A other \in Sids : BrowserOf[other] = BrowserOf[s] => state[other] # "live"

\* recordSession: the mapping id read from the "ticket" and "token" parameters.
\* A ticket that is given is thrown away for the token parameter, given or not.
KeyOf(ticket, token) == IF ticket # NoKey THEN token ELSE ticket

\* History: another request is to add the session to a storage, too.
Crossing(storage, s) ==
    crossed' = crossed \union
        {<<storage, s>> : th \in {u \in Threads :
            \/ storage = "shiro" /\ pc[u] = "shiroAdd" /\ req[u].sid = s
            \/ storage = "http" /\ pc[u] = "httpAdd" /\ req[u].hid = s}}

\* The filter calls the HTTP handler too if it was told to; else the request is done.
ThenHttp(th, label) ==
    IF needDoHttpSession THEN Goto(th, label) /\ UNCHANGED req ELSE Finish(th)

-----------------------------------------------------------------------------
(* Token requests: recordSession of the Shiro handler, then of the HTTP one *)

TokenRequest(th, s, ticket, token) ==
    /\ pc[th] = "idle"
    /\ ticket # NoKey \/ token # NoKey              \* isTokenRequest
    /\ Obtainable(shiroState, s)
    /\ shiroState' = [shiroState EXCEPT ![s] = "live"]
    /\ req' = [req EXCEPT ![th] =
                 [kind |-> "record", sid |-> s, hid |-> NoSid,
                  key |-> KeyOf(ticket, token), args |-> {ticket, token} \ {NoKey}]]
    /\ carried' = carried \union (({KeyOf(ticket, token)} \ {NoKey}) \X {s})
    /\ Goto(th, "shiroRemove")
    /\ UNCHANGED <<needDoHttpSession, maps, httpState, latest, loggedOut, crossed>>

ShiroRemove(th) ==
    /\ pc[th] = "shiroRemove"
    /\ shiroMap' = RemoveBySessionById(shiroMap, req[th].sid)
    /\ Crossing("shiro", req[th].sid)
    /\ Goto(th, "shiroAdd")
    /\ UNCHANGED <<needDoHttpSession, httpMap, sessions, req, latest, loggedOut, carried>>

\* Mutant: the token is kept in a field of the handler, which threads share.
ShiroAddSharedToken(th) ==
    /\ pc[th] = "shiroAdd"
    /\ \E other \in Threads :
        /\ req[other].key # NoKey
        /\ shiroMap' = AddSessionById(shiroMap, req[other].key, req[th].sid)
    /\ Finish(th)
    /\ UNCHANGED <<needDoHttpSession, httpMap, sessions, history>>

ShiroAdd(th) ==
    LET s == req[th].sid
        k == req[th].key
    IN  /\ pc[th] = "shiroAdd"
        /\ shiroMap' = AddSessionById(shiroMap, k, s)
        /\ latest' = [latest EXCEPT ![s] = [key |-> k, args |-> req[th].args]]
        /\ loggedOut' = loggedOut \ {k}
        /\ ThenHttp(th, "httpRemove")
        /\ UNCHANGED <<needDoHttpSession, httpMap, sessions, carried, crossed>>

\* originReq.getSession(true), then the removal of what it was mapped to.
HttpRemove(th, h) ==
    /\ pc[th] = "httpRemove"
    /\ BrowserOf[h] = BrowserOf[req[th].sid]
    /\ Obtainable(httpState, h)
    /\ httpState' = [httpState EXCEPT ![h] = "live"]
    /\ httpMap' = RemoveBySessionById(httpMap, h)
    /\ Crossing("http", h)
    /\ req' = [req EXCEPT ![th].hid = h]
    /\ Goto(th, "httpAdd")
    /\ UNCHANGED <<needDoHttpSession, shiroMap, shiroState, latest, loggedOut, carried>>

\* No session can be had (in an instance: its ids are used up): the request fails.
HttpRefused(th) ==
    /\ pc[th] = "httpRemove"
    /\ \A h \in Sids : BrowserOf[h] = BrowserOf[req[th].sid] => ~Obtainable(httpState, h)
    /\ Finish(th)
    /\ UNCHANGED <<needDoHttpSession, maps, sessions, history>>

HttpAdd(th) ==
    /\ pc[th] = "httpAdd"
    /\ httpMap' = AddSessionById(httpMap, req[th].key, req[th].hid)
    /\ loggedOut' = loggedOut \ {req[th].key}
    /\ Finish(th)
    /\ UNCHANGED <<needDoHttpSession, shiroMap, sessions, latest, carried, crossed>>

-----------------------------------------------------------------------------
(* Logout requests posted by the CAS server: destroySession of both.       *)

LogoutRequest(th, t) ==
    /\ pc[th] = "idle"
    /\ req' = [req EXCEPT ![th] = [NoRequest EXCEPT !.kind = "logout", !.key = t]]
    /\ Goto(th, "shiroLookup")
    /\ UNCHANGED <<needDoHttpSession, maps, sessions, history>>

ShiroLookup(th) ==
    LET s == SessionFound(shiroMap, req[th].key)
    IN  /\ pc[th] = "shiroLookup"
        /\ shiroMap' = RemoveSessionByMappingId(shiroMap, req[th].key)
        /\ loggedOut' = loggedOut \union {req[th].key}
        /\ \/ s = NoSid /\ ThenHttp(th, "httpLookup")
           \/ /\ s # NoSid
              /\ req' = [req EXCEPT ![th].sid = s]
              /\ Goto(th, "shiroStop")
        /\ UNCHANGED <<needDoHttpSession, httpMap, sessions, latest, carried, crossed>>

\* session.stop() of a session the manager still knows.
ShiroStop(th) ==
    /\ pc[th] = "shiroStop"
    /\ shiroState[req[th].sid] = "live"
    /\ shiroState' = [shiroState EXCEPT ![req[th].sid] = "dead"]
    /\ Goto(th, "shiroNotify")
    /\ UNCHANGED <<needDoHttpSession, maps, httpState, req, history>>

\* session.stop() of one it no longer knows throws UnknownSessionException,
\* which is no IllegalStateException: the request ends here.
ShiroStopFails(th) ==
    /\ pc[th] = "shiroStop"
    /\ shiroState[req[th].sid] # "live"
    /\ Finish(th)
    /\ UNCHANGED <<needDoHttpSession, maps, sessions, history>>

\* The session manager tells the listener: onStop.
ShiroNotify(th) ==
    /\ pc[th] = "shiroNotify"
    /\ shiroMap' = RemoveBySessionById(shiroMap, req[th].sid)
    /\ IF req[th].kind = "logout" THEN ThenHttp(th, "httpLookup") ELSE Finish(th)
    /\ UNCHANGED <<needDoHttpSession, httpMap, sessions, history>>

\* Mutant: no check for null.
HttpLookupUnchecked(th) ==
    /\ pc[th] = "httpLookup"
    /\ req' = [req EXCEPT ![th].hid = SessionFound(httpMap, req[th].key)]
    /\ Goto(th, "httpInvalidate")
    /\ UNCHANGED <<needDoHttpSession, maps, sessions, history>>

HttpLookup(th) ==
    LET h == SessionFound(httpMap, req[th].key)
    IN  /\ pc[th] = "httpLookup"
        /\ httpMap' = RemoveSessionByMappingId(httpMap, req[th].key)
        /\ \/ h = NoSid /\ Finish(th)
           \/ /\ h # NoSid
              /\ req' = [req EXCEPT ![th].hid = h]
              /\ Goto(th, "httpInvalidate")
        /\ UNCHANGED <<needDoHttpSession, shiroMap, sessions, history>>

\* session.invalidate(): the IllegalStateException of a session already gone is
\* caught.  doCasClientLogout before it works on the CAS server's tickets only and
\* may fail unnoticed.  The container's listener cleans the storage of
\* SingleSignOutFilter's handler, never the one used here.
HttpInvalidate(th) ==
    /\ pc[th] = "httpInvalidate"
    /\ httpState' = [httpState EXCEPT ![req[th].hid] = "dead"]
    /\ Finish(th)
    /\ UNCHANGED <<needDoHttpSession, maps, shiroState, history>>

-----------------------------------------------------------------------------
(* The other ways a session ends.                                          *)

\* LogoutServlet.doLogout: the container's session first, then Shiro's.
ServletLogout(th, s, h) ==
    /\ pc[th] = "idle"
    /\ BrowserOf[s] = BrowserOf[h]
    /\ shiroState[s] = "live"
    /\ Obtainable(httpState, h)
    /\ httpState' = [httpState EXCEPT ![h] = "dead"]
    /\ req' = [req EXCEPT ![th] = [NoRequest EXCEPT !.kind = "servlet", !.sid = s]]
    /\ Goto(th, "shiroStop")
    /\ UNCHANGED <<needDoHttpSession, maps, shiroState, history>>

\* The session manager finds the session too old; onExpiration does nothing.
ShiroExpire(s) ==
    /\ shiroState[s] = "live"
    /\ shiroState' = [shiroState EXCEPT ![s] = "dead"]
    /\ UNCHANGED <<needDoHttpSession, maps, httpState, pc, req, history>>

HttpExpire(h) ==
    /\ httpState[h] = "live"
    /\ httpState' = [httpState EXCEPT ![h] = "dead"]
    /\ UNCHANGED <<needDoHttpSession, maps, shiroState, pc, req, history>>

-----------------------------------------------------------------------------

Step(th) ==
    \/ ShiroRemove(th)
    \/ ShiroAdd(th)
    \/ \E h \in Sids : HttpRemove(th, h)
    \/ HttpRefused(th)
    \/ HttpAdd(th)
    \/ ShiroLookup(th)
    \/ ShiroStop(th)
    \/ ShiroStopFails(th)
    \/ ShiroNotify(th)
    \/ HttpLookup(th)
    \/ HttpInvalidate(th)

Next ==
    \/ \E th \in Threads : Step(th)
    \/ \E th \in Threads, s \in Sids, ticket, token \in Keys : TokenRequest(th, s, ticket, token)
    \/ \E th \in Threads, t \in Tokens : LogoutRequest(th, t)
    \/ \E th \in Threads, s, h \in Sids : ServletLogout(th, s, h)
    \/ \E s \in Sids : ShiroExpire(s) \/ HttpExpire(s)

Spec == Init /\ [][Next]_vars

-----------------------------------------------------------------------------
(* Properties.                                                             *)

\* No request is at work on Shiro session s.
Quiet(s) == \A th \in Threads : pc[th] # "idle" => req[th].sid # s

AllIdle == \A th \in Threads : pc[th] = "idle"

\* The two maps of each storage agree: a session found under a mapping id is
\* recorded with that id, so removing the session removes the entry.  Two
\* synchronized calls (remove, then add) keep it for every session that no two
\* requests have recorded at once, whatever becomes of the others
\* (ShiroSingleSignOutHandler.recordSession).
MapsAgree ==
    /\ \A s \in Sids : <<"shiro", s>> \notin crossed => Forward(shiroMap, s)
    /\ \A h \in Sids : <<"http", h>> \notin crossed => Forward(httpMap, h)

\* No request of a session but s has carried token t.
OnlyCarriedBy(t, s) == \A x \in Sids : <<t, x>> \in carried => x = s

\* A live session whose latest request was stored under a token, and which shares
\* that token with no other session, is found by a logout request for it,
\* even if its requests overlapped.
Reachable ==
    \A s \in Sids :
        /\ shiroState[s] = "live" /\ Quiet(s)
        /\ latest[s].key \in Tokens /\ OnlyCarriedBy(latest[s].key, s)
        => shiroMap.managed[latest[s].key] = s

\* A logout request stops no Shiro session of which no request carried the token
\* it names (destroySession with removeSessionByMappingId).
NoForeignLogout ==
    \A th \in Threads : pc[th] = "shiroStop" /\ req[th].kind = "logout"
                            => <<req[th].key, req[th].sid>> \in carried

\* Once the logout requests for a token are through and nobody stored it again,
\* no live Shiro session is found under it.  A session whose entry another one has
\* taken over is found under no token and not counted.
NoShiroSessionLeft ==
    AllIdle => \A t \in loggedOut : \A s \in Sids :
                    shiroMap.managed[t] = s => shiroState[s] = "dead"

\* The storage of Shiro sessions is a registry of who may be logged out by which
\* token: a token is bound by requests that carried it, and freed only while a
\* request works on a session that carried it.
Found == [t \in Tokens |-> shiroMap.managed[t]]
Busy == {s \in Sids : ~Quiet(s)}
Registry == INSTANCE TokenRegistry WITH reg <- Found, busy <- Busy
ImplementsRegistry == Registry!Spec

-----------------------------------------------------------------------------
(* Why they hold: inductive invariants.                                    *)

\* Nothing is mapped to the session between the removal and the addition of
\* recordSession, unless another request is recording it.
RecordInv ==
    /\ MapsAgree
    /\ \A th \in Threads :
        LET s == req[th].sid
            h == req[th].hid
        IN  /\ pc[th] = "shiroAdd" /\ <<"shiro", s>> \notin crossed =>
                   /\ shiroMap.keyOf[s] = Unmapped
                   /\ \A u \in Threads \ {th} : pc[u] = "shiroAdd" => req[u].sid # s
            /\ pc[th] = "httpAdd" /\ <<"http", h>> \notin crossed =>
                   /\ httpMap.keyOf[h] = Unmapped
                   /\ \A u \in Threads \ {th} : pc[u] = "httpAdd" => req[u].hid # h

\* A session is only ever mapped to, and found under, a token its requests carried.
OwnKeysOnly ==
    /\ \A s \in Sids, t \in Tokens :
           shiroMap.keyOf[s] = t \/ shiroMap.managed[t] = s => <<t, s>> \in carried
    /\ \A th \in Threads : pc[th] \in RecordPcs /\ req[th].key \in Tokens
                            => <<req[th].key, req[th].sid>> \in carried

\* A request holds session s outside the storage, to add it or to stop it.
Pending(s) == \E th \in Threads : pc[th] \in {"shiroAdd", "shiroStop"} /\ req[th].sid = s

\* A live session that shares its latest key with no other is under it, or in the
\* hands of such a request.
ReachInv ==
    /\ \A s \in Sids :
        /\ shiroState[s] = "fresh" => latest[s].key = NoKey
        /\ /\ shiroState[s] = "live" /\ latest[s].key \in Tokens
           /\ OnlyCarriedBy(latest[s].key, s)
           => shiroMap.managed[latest[s].key] = s \/ Pending(s)
    /\ \A th \in Threads :
        /\ pc[th] \in RecordPcs => shiroState[req[th].sid] # "fresh"
        /\ pc[th] = "shiroNotify" => shiroState[req[th].sid] = "dead"

-----------------------------------------------------------------------------
(* What the sources say and the code does not do.                          *)

\* "Associates a token request with the current HTTP session by recording the
\* mapping" (ShiroSingleSignOutHandler.java:113): the session of a token
\* request can be found under a token the request carried.
TokenRequestIsRecorded ==
    \A s \in Sids : shiroState[s] = "live" /\ latest[s].args # {} /\ Quiet(s)
                        => \E t \in latest[s].args : shiroMap.managed[t] = s
=============================================================================
