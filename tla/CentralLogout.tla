---------------------------- MODULE CentralLogout ----------------------------
(***************************************************************************)
(* The CAS server's side of single sign-out: LogoutManagerBaseF5Impl, which *)
(* tells every service a ticket granting ticket (TGT) let somebody into,   *)
(* JBossCacheTicketRegistry, which keeps the TGTs, and                     *)
(* ClientBackChannelLogoutMgr, which ends the TGTs of a client token.      *)
(*                                                                         *)
(* The TGT object and the service that frames these classes belong to the  *)
(* CAS library: granting a service ticket, and destroying a TGT by         *)
(* performLogout and deleteTicket, are modelled from how they are used.    *)
(***************************************************************************)
EXTENDS Naturals, FiniteSets

CONSTANTS
    Threads,            \* request threads of the CAS server
    Tgts,               \* ids of ticket granting tickets
    Tokens,             \* ids of service tickets
    NoTgt, NoToken,
    TicketOf,           \* the TGT a service ticket is granted from
    ClientTokens,       \* tokens of the client (hzbankcas) logins
    ClientTokenOf,      \* the client token a TGT was logged in with
    FrontChannel,       \* service tickets of services with front channel logout
    Ssm,                \* those whose service is /ssm itself
    CmeRetryCnt

ASSUME LogoutConstants ==
    /\ NoTgt \notin Tgts
    /\ NoToken \notin Tokens
    /\ TicketOf \in [Tokens -> Tgts]
    /\ DOMAIN ClientTokenOf = Tgts
    /\ FrontChannel \subseteq Tokens
    /\ Ssm \subseteq Tokens
    /\ CmeRetryCnt \in Nat \ {0}

VARIABLES
    stored,             \* ids in the node FQN_TICKET of the cache
    expired,            \* the expired flag of each TGT
    services,           \* the services map of each TGT, by service ticket
    loggedOutAlready,   \* the flag of each service
    sent,               \* logout messages handed to the HTTP client
    pc, job,            \* next step of each thread, and what it works on
    phase,              \* history: fresh, issued, destroyed
    granted,            \* history: service tickets put into their TGT
    late,               \* history: those put in during or after its logout
    lost                \* history: those in the hands of a request that broke off

tickets == <<stored, expired, services>>
threads == <<pc, job>>
history == <<phase, granted, late, lost>>
vars == <<tickets, loggedOutAlready, sent, threads, history>>

LogoutPcs == {"retrieve", "clear", "mark", "updateMark", "notify", "send", "delete"}
Pcs == {"idle", "add", "grant", "updateGrant", "next"} \union LogoutPcs

\* todo are TGTs still to destroy, tgt the one at work; taken are services read
\* and not handled, token the service ticket at work; tries counts conflicts.
Jobs == [todo : SUBSET Tgts, tgt : Tgts \union {NoTgt},
         taken : SUBSET Tokens, token : Tokens \union {NoToken},
         tries : 0 .. CmeRetryCnt - 1]

NoJob == [todo |-> {}, tgt |-> NoTgt, taken |-> {}, token |-> NoToken, tries |-> 0]

TypeOK ==
    /\ stored \subseteq Tgts
    /\ expired \subseteq Tgts
    /\ services \in [Tgts -> SUBSET Tokens]
    /\ loggedOutAlready \subseteq Tokens
    /\ sent \in [Tokens -> Nat]
    /\ pc \in [Threads -> Pcs]
    /\ job \in [Threads -> Jobs]
    /\ phase \in [Tgts -> {"fresh", "issued", "destroyed"}]
    /\ granted \subseteq Tokens
    /\ late \subseteq granted
    /\ lost \subseteq Tokens
    /\ \A th \in Threads :
        /\ pc[th] \notin {"idle", "next"} => job[th].tgt \in Tgts
        /\ pc[th] \in {"grant", "updateGrant", "send"} => job[th].token \in Tokens

Init ==
    /\ stored = {}
    /\ expired = {}
    /\ services = [t \in Tgts |-> {}]
    /\ loggedOutAlready = {}
    /\ sent = [k \in Tokens |-> 0]
    /\ pc = [th \in Threads |-> "idle"]
    /\ job = [th \in Threads |-> NoJob]
    /\ phase = [t \in Tgts |-> "fresh"]
    /\ granted = {}
    /\ late = {}
    /\ lost = {}

-----------------------------------------------------------------------------
(* Helpers.                                                                *)

Goto(th, label) == pc' = [pc EXCEPT ![th] = label]

\* The thread starts a job of its own, or goes on to the next part of it.
Work(th, j, label) ==
    /\ job' = [job EXCEPT ![th] = j]
    /\ Goto(th, label)

Finish(th) == Work(th, NoJob, "idle")

\* A TGT some thread is logging out.
UnderLogout(t) == \E th \in Threads : pc[th] \in LogoutPcs /\ job[th].tgt = t

\* Mutant: the counter starts again at its limit, and so do the tries.
RetryForEver(th, label) ==
    /\ job' = [job EXCEPT ![th].tries = (@ + 1) % CmeRetryCnt]
    /\ UNCHANGED pc

\* Mutant: a write may be tried once more than the counter allows.
ConflictOnceMore(th, label) ==
    \/ /\ job[th].tries < CmeRetryCnt
       /\ job' = [job EXCEPT ![th].tries = @ + 1]
       /\ UNCHANGED pc
    \/ /\ job[th].tries = CmeRetryCnt
       /\ Work(th, [job[th] EXCEPT !.tries = 0], label)

\* A cache write ends in a ConcurrentModificationException: it is tried again
\* until it has been tried CmeRetryCnt times, then silently given up.
Conflict(th, label) ==
    \/ /\ job[th].tries + 1 < CmeRetryCnt
       /\ job' = [job EXCEPT ![th].tries = @ + 1]
       /\ UNCHANGED pc
    \/ /\ job[th].tries + 1 = CmeRetryCnt
       /\ Work(th, [job[th] EXCEPT !.tries = 0], label)

\* The write goes through.
Through(th, label) == Work(th, [job[th] EXCEPT !.tries = 0], label)

\* cache.put(FQN_TICKET, id, ticket), whether the id is still there or not.  A
\* CacheException (a lock or a replication that took too long) is not retried:
\* it ends the request.  A put that fails may have reached this node's cache.
PutTicket(th, label) ==
    LET t == job[th].tgt
    IN  \/ stored' = stored \union {t} /\ Through(th, label)
        \/ /\ stored' \in {stored, stored \union {t}}
           /\ Conflict(th, label) \/ Finish(th)

-----------------------------------------------------------------------------
(* Logging in and granting service tickets.                                *)

\* createTicketGrantingTicket: a new TGT, still to be added.
Login(th, t) ==
    /\ pc[th] = "idle"
    /\ phase[t] = "fresh"
    /\ phase' = [phase EXCEPT ![t] = "issued"]
    /\ Work(th, [NoJob EXCEPT !.tgt = t], "add")
    /\ UNCHANGED <<tickets, loggedOutAlready, sent, granted, late, lost>>

AddTicket(th) ==
    /\ pc[th] = "add"
    /\ PutTicket(th, "next")
    /\ UNCHANGED <<expired, services, loggedOutAlready, sent, history>>

\* grantServiceTicket finds the TGT, and finds it not expired.
Grant(th, k) ==
    LET t == TicketOf[k]
    IN  /\ pc[th] = "idle"
        /\ t \in stored \ expired
        /\ k \notin granted                            \* ids are never reused
        /\ \A u \in Threads : pc[u] = "grant" => job[u].token # k
        /\ Work(th, [NoJob EXCEPT !.tgt = t, !.token = k], "grant")
        /\ UNCHANGED <<tickets, loggedOutAlready, sent, history>>

\* The service is put into the TGT.  Every getTicket makes a proxy of its own, so
\* the monitor that performLogout holds keeps nobody out.
GrantPut(th) ==
    LET t == job[th].tgt
        k == job[th].token
    IN  /\ pc[th] = "grant"
        /\ services' = [services EXCEPT ![t] = @ \union {k}]
        /\ granted' = granted \union {k}
        /\ late' = IF UnderLogout(t) \/ phase[t] = "destroyed" THEN late \union {k} ELSE late
        /\ Goto(th, "updateGrant")
        /\ UNCHANGED <<stored, expired, loggedOutAlready, sent, job, phase, lost>>

\* The proxy saves the TGT it changed: updateTicket.
GrantUpdate(th) ==
    /\ pc[th] = "updateGrant"
    /\ PutTicket(th, "next")
    /\ UNCHANGED <<expired, services, loggedOutAlready, sent, history>>

-----------------------------------------------------------------------------
(* Logging out.                                                            *)

\* A user logs out with the id a login gave: destroyTicketGrantingTicket.
Logout(th, t) ==
    /\ pc[th] = "idle"
    /\ phase[t] # "fresh"
    /\ Work(th, [NoJob EXCEPT !.todo = {t}], "next")
    /\ UNCHANGED <<tickets, loggedOutAlready, sent, history>>

\* doCasClientLogout: every TGT of the registry that was logged in with the token,
\* or none if the cache does not answer.
ClientLogout(th, c) ==
    /\ pc[th] = "idle"
    /\ \E ts \in {{}, {t \in stored : ClientTokenOf[t] = c}} :
          Work(th, [NoJob EXCEPT !.todo = ts], "next")
    /\ UNCHANGED <<tickets, loggedOutAlready, sent, history>>

\* getTicket of the next TGT to destroy, if any.  It may answer null for one that
\* is stored, if the cache does not answer.
NextTicket(th) ==
    /\ pc[th] = "next"
    /\ \/ job[th].todo = {} /\ Finish(th)
       \/ \E t \in job[th].todo :
            LET rest == [NoJob EXCEPT !.todo = job[th].todo \ {t}]
            IN  \/ Work(th, rest, "next")
                \/ t \in stored /\ Work(th, [rest EXCEPT !.tgt = t], "retrieve")
    /\ UNCHANGED <<tickets, loggedOutAlready, sent, history>>

\* synchronized (ticket), on this thread's own proxy, with the services read.
RetrieveServices(th) ==
    /\ pc[th] = "retrieve"
    /\ Work(th, [job[th] EXCEPT !.taken = services[job[th].tgt]], "clear")
    /\ UNCHANGED <<tickets, loggedOutAlready, sent, history>>

\* Mutant: getServices returned the map itself, not a copy of it.
ClearLiveServices(th) ==
    /\ pc[th] = "clear"
    /\ services' = [services EXCEPT ![job[th].tgt] = {}]
    /\ Work(th, [job[th] EXCEPT !.taken = {}], "mark")
    /\ UNCHANGED <<stored, expired, loggedOutAlready, sent, history>>

\* ticket.removeAllServices(), and the monitor is left.
ClearServices(th) ==
    /\ pc[th] = "clear"
    /\ services' = [services EXCEPT ![job[th].tgt] = {}]
    /\ Goto(th, "mark")
    /\ UNCHANGED <<stored, expired, loggedOutAlready, sent, job, history>>

\* Mutant: the flag is only set in the copy that is saved.
MarkNothing(th) ==
    /\ pc[th] = "mark"
    /\ Goto(th, "updateMark")
    /\ UNCHANGED <<tickets, loggedOutAlready, sent, job, history>>

MarkTicketExpired(th) ==
    /\ pc[th] = "mark"
    /\ expired' = expired \union {job[th].tgt}
    /\ Goto(th, "updateMark")
    /\ UNCHANGED <<stored, services, loggedOutAlready, sent, job, history>>

\* The proxy saves the TGT it changed.  If that ends the request, the services it
\* has read and cleared are in nobody's map, and told only by others that read them.
MarkUpdate(th) ==
    /\ pc[th] = "updateMark"
    /\ PutTicket(th, "notify")
    /\ lost' = IF pc'[th] = "idle"
               THEN lost \union (job[th].taken \ (loggedOutAlready \union FrontChannel))
               ELSE lost
    /\ UNCHANGED <<expired, services, loggedOutAlready, sent, phase, granted, late>>

\* One turn of the loop: a service that is to be told, or one that is not.
NextService(th, k) ==
    LET rest == [job[th] EXCEPT !.taken = @ \ {k}]
    IN  /\ pc[th] = "notify"
        /\ k \in job[th].taken
        /\ \/ k \in loggedOutAlready \union FrontChannel /\ Work(th, rest, "notify")
           \/ /\ k \notin loggedOutAlready \union FrontChannel
              /\ Work(th, [rest EXCEPT !.token = k], "send")
        /\ UNCHANGED <<tickets, loggedOutAlready, sent, history>>

\* performBackChannelLogout: the flag first, then the message, but for /ssm.
\* That a message could not be handed over is logged and not made good.
SendMessage(th) ==
    LET k == job[th].token
    IN  /\ pc[th] = "send"
        /\ loggedOutAlready' = loggedOutAlready \union {k}
        /\ sent' = IF k \in Ssm THEN sent ELSE [sent EXCEPT ![k] = @ + 1]
        /\ Work(th, [job[th] EXCEPT !.token = NoToken], "notify")
        /\ UNCHANGED <<tickets, history>>

ServicesDone(th) ==
    /\ pc[th] = "notify"
    /\ job[th].taken = {}
    /\ Goto(th, "delete")
    /\ UNCHANGED <<tickets, loggedOutAlready, sent, job, history>>

\* deleteTicket: false is returned when it fails or is given up, and nobody looks.
\* A removal that fails may have reached this node's cache.
DeleteTicket(th) ==
    LET t == job[th].tgt
    IN  /\ pc[th] = "delete"
        /\ stored' \in {stored, stored \ {t}}
        /\ Conflict(th, "next") \/ Through(th, "next")
        /\ phase' = [phase EXCEPT ![t] = "destroyed"]
        /\ UNCHANGED <<expired, services, loggedOutAlready, sent, granted, late, lost>>

-----------------------------------------------------------------------------

Step(th) ==
    \/ AddTicket(th)
    \/ GrantPut(th)
    \/ GrantUpdate(th)
    \/ NextTicket(th)
    \/ RetrieveServices(th)
    \/ ClearServices(th)
    \/ MarkTicketExpired(th)
    \/ MarkUpdate(th)
    \/ \E k \in Tokens : NextService(th, k)
    \/ SendMessage(th)
    \/ ServicesDone(th)
    \/ DeleteTicket(th)

Next ==
    \/ \E th \in Threads : Step(th)
    \/ \E th \in Threads, t \in Tgts : Login(th, t) \/ Logout(th, t)
    \/ \E th \in Threads, k \in Tokens : Grant(th, k)
    \/ \E th \in Threads, c \in ClientTokens : ClientLogout(th, c)

Spec == Init /\ [][Next]_vars

\* A request that has begun is carried on by its thread.
FairSpec == Spec /\ \A th \in Threads : WF_vars(Step(th))

-----------------------------------------------------------------------------
(* Properties.                                                             *)

Handled == loggedOutAlready \union FrontChannel

\* The services a thread has read and not handled.
Hand(th) == job[th].taken \union (IF pc[th] = "send" THEN {job[th].token} ELSE {})

\* A service that was in the TGT before anybody logged the TGT out is still
\* there, in somebody's hands, or told, however many threads log the TGT out:
\* between the reading and the clearing of the map (performLogout), and in the
\* loop that skips services already logged out, none gets lost.  The one way to
\* lose it is a request that its own updateTicket ends, with the service in hand.
NothingForgotten ==
    \A k \in granted \ (late \union lost) :
        \/ k \in services[TicketOf[k]] \union Handled
        \/ \E th \in Threads : k \in Hand(th)

Asked(k) == \E th \in Threads : pc[th] = "grant" /\ job[th].token = k

\* The services that have a service ticket of a TGT, or will have one in a moment.
LetIn(t) == {k \in Tokens : TicketOf[k] = t /\ (k \in granted \/ Asked(k))}

\* Once a TGT has been destroyed no further service is let in by it: what it still
\* grants goes to requests that were past grantServiceTicket's check before.  Yet a
\* slower thread's updateTicket may put it back into the cache, and its deletion
\* may be given up or fail, so that getTicket goes on to answer it.
LogoutIsFinal ==
    [][\A t \in Tgts : phase[t] = "destroyed" => LetIn(t)' \subseteq LetIn(t)]_vars

\* "synchronize the retrieval of the services and their cleaning for the TGT to
\* avoid concurrent logout mess ups" (LogoutManagerBaseF5Impl.java:90): no service
\* is told twice.  It is, since each thread locks a proxy of its own.
LogoutOnce == \A k \in Tokens : sent[k] <= 1

\* A service that was in the TGT before the logout began will be told, although
\* cache writes conflict and other threads work on the same TGT, unless a request
\* that has read it is ended by its own updateTicket.
ServicesGetTold ==
    \A k \in Tokens :
        (k \in services[TicketOf[k]] \ late /\ UnderLogout(TicketOf[k]))
            ~> k \in Handled \union lost

Stage(t) ==
    IF phase[t] = "destroyed" THEN "over" ELSE IF UnderLogout(t) THEN "closing" ELSE "open"

Waiting(k) == k \in services[TicketOf[k]] \/ \E th \in Threads : k \in Hand(th)

Due(k) ==
    IF k \in loggedOutAlready THEN "told"
    ELSE IF Waiting(k) THEN (IF k \in late THEN "late" ELSE "owed")
    ELSE IF k \in lost THEN "lost"
    ELSE IF k \in granted THEN "dropped"
    ELSE IF Asked(k) THEN "asked" ELSE "unknown"

\* Wherever a service is (in the map of its TGT, in the hands of one thread or of
\* several), logouts keep what ServiceNotices promises: a service that was there
\* before the logout stays owed a message until it gets one or a logout breaks off.
Notices == INSTANCE ServiceNotices
           WITH Services <- Tokens, PassedBy <- FrontChannel, Unheard <- Ssm,
                stage <- [t \in Tgts |-> Stage(t)], due <- [k \in Tokens |-> Due(k)],
                notices <- sent
ImplementsNotices == Notices!Spec

-----------------------------------------------------------------------------
(* Why they hold: inductive invariants.                                    *)

\* A TGT is marked before its services are told and before it is deleted.
MarkedInv ==
    /\ \A t \in Tgts : phase[t] = "destroyed" => t \in expired
    /\ \A th \in Threads :
          pc[th] \in {"updateMark", "notify", "send", "delete"} => job[th].tgt \in expired

\* Services hang on the TGT they were granted from; a thread holds services
\* from reading the map on, and at the clearing of the map it misses late ones only.
TakenInv ==
    /\ \A t \in Tgts : \A k \in services[t] : TicketOf[k] = t
    /\ \A th \in Threads :
        /\ pc[th] = "grant" => TicketOf[job[th].token] = job[th].tgt
        /\ pc[th] \in {"idle", "add", "grant", "updateGrant", "next", "retrieve", "delete"}
              => job[th].taken = {}
        /\ pc[th] = "clear" => services[job[th].tgt] \ late \subseteq job[th].taken

\* A service is asked for once, and is in no TGT and no thread's hands before it
\* has been granted; those with front channel logout are never about to be told.
AskedInv ==
    /\ \A t \in Tgts : services[t] \subseteq granted
    /\ loggedOutAlready \subseteq granted
    /\ \A th \in Threads :
        /\ Hand(th) \subseteq granted
        /\ pc[th] = "grant" => job[th].token \notin granted
        /\ pc[th] = "send" => job[th].token \notin FrontChannel
        /\ \A u \in Threads \ {th} :
             pc[th] = "grant" /\ pc[u] = "grant" => job[th].token # job[u].token

\* What a thread holds hangs on its TGT and, from the clearing on, in no map; so
\* what a broken request loses was granted, and is in no map and passed by nobody.
LostInv ==
    /\ lost \subseteq granted \ FrontChannel
    /\ \A t \in Tgts : services[t] \intersect lost = {}
    /\ \A th \in Threads :
        /\ \A k \in job[th].taken : TicketOf[k] = job[th].tgt
        /\ pc[th] \in {"mark", "updateMark", "notify", "send"} =>
              \A t \in Tgts : Hand(th) \intersect services[t] = {}
=============================================================================
