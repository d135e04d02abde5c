------------------------------ MODULE LoginFlow ------------------------------
(***************************************************************************)
(* The login flow of the CAS server (login-webflow.xml): the password form  *)
(* with AuthenticationViaFormAction, and logins at an identity provider     *)
(* with ClientAction.  A flow is a tab of a browser; the tabs of a browser  *)
(* share its TGT cookie and its HTTP session.  All flows share the one     *)
(* AuthenticationViaFormAction there is, and its field hasWarningMessages.  *)
(*                                                                         *)
(* The states of a flow are named after what it does next:                  *)
(*   check         ticketGrantingTicketCheck                               *)
(*   form, away    the user sees the login form, or the identity provider   *)
(*   submitted     the TGT is to be created                                *)
(*   created       the new TGT is to be read for its warnings              *)
(*   answer        submit is to choose between SUCCESS and .._WITH_WARNINGS  *)
(*   show, send    sendTicketGrantingTicketAction, for showMessages or not  *)
(*   messages      the user sees the warnings                              *)
(*   grant         generateServiceTicketAction                             *)
(*   done, failed  the flow has ended                                      *)
(***************************************************************************)
EXTENDS Naturals, FiniteSets

CONSTANTS
    Flows,       \* tabs
    Browsers,
    Users,
    Warned,      \* users whose authentication comes with warnings
    Services,
    NoService,   \* no service parameter, no service in flow or session
    TGTs,        \* ids of ticket granting tickets; bounds the number of logins
    NoTGT

ASSUME FlowAssumption ==
    /\ Users # {} /\ Warned \subseteq Users
    /\ NoService \notin Services
    /\ NoTGT \notin TGTs

States == {"closed", "check", "form", "away", "submitted", "created", "answer",
           "show", "send", "messages", "grant", "done", "failed"}

VARIABLES
    browser,   \* browser[f]: the browser of a tab
    state,     \* state[f] of each flow
    service,   \* flowScope.service
    flowTGT,   \* flowScope.ticketGrantingTicketId
    reqTGT,    \* requestScope.ticketGrantingTicketId, gone with the next view
    renew,     \* the renew parameter of the flow's URL
    user,      \* the credential submitted
    warnings,  \* the flow's message context holds warnings
    cookie,    \* cookie[b]: the TGT a browser sends
    saved,     \* saved[b]: the service in the HTTP session of a browser
    registry,  \* living TGTs in the ticket registry
    missed,    \* history: those a request took for gone, or lost hold of
    owner,     \* owner[t]: for whom, and in which browser, a TGT was created
    hasWarningMessages,
    own,       \* history: the TGT the flow's login has created
    asked,     \* history: the service the tab was opened for
    overtaken, \* history: another tab of the browser has saved a service since
    forgotten  \* history: the browser's HTTP session has ended since

flowVars == <<state, service, flowTGT, reqTGT, renew, user, warnings, own>>
history == <<asked, overtaken, forgotten, browser>>
vars == <<flowVars, cookie, saved, registry, missed, owner, hasWarningMessages, history>>

\* The credential of a new flow; it is submitted before it is used.
NoOne == CHOOSE u \in Users : TRUE

Init ==
    /\ browser \in [Flows -> Browsers]
    /\ state = [f \in Flows |-> "closed"]
    /\ service = [f \in Flows |-> NoService]
    /\ flowTGT = [f \in Flows |-> NoTGT]
    /\ reqTGT = [f \in Flows |-> NoTGT]
    /\ renew = [f \in Flows |-> FALSE]
    /\ user = [f \in Flows |-> NoOne]
    /\ warnings = [f \in Flows |-> FALSE]
    /\ own = [f \in Flows |-> NoTGT]
    /\ cookie = [b \in Browsers |-> NoTGT]
    /\ saved = [b \in Browsers |-> NoService]
    /\ registry = {}
    /\ missed = {}
    /\ owner = [t \in TGTs |-> {}]
    /\ hasWarningMessages = FALSE
    /\ asked = [f \in Flows |-> NoService]
    /\ overtaken = [f \in Flows |-> FALSE]
    /\ forgotten = [f \in Flows |-> FALSE]

-----------------------------------------------------------------------------

CreatedFor(t, u) == \E b \in Browsers : owner[t] = {<<u, b>>}

\* WebUtils.getTicketGrantingTicketId: the request's TGT before the flow's.
TicketOf(f) == IF reqTGT[f] # NoTGT THEN reqTGT[f] ELSE flowTGT[f]

Goto(f, s) == state' = [state EXCEPT ![f] = s]

\* A view ends the request, and with it the request scope.
View(f, s) ==
    /\ Goto(f, s)
    /\ reqTGT' = [reqTGT EXCEPT ![f] = NoTGT]

\* createTicketGrantingTicket: a new id, which the registry may fail to keep.
Create(f, t, u) ==
    /\ owner[t] = {}
    /\ owner' = [owner EXCEPT ![t] = {<<u, browser[f]>>}]
    /\ registry' \in {registry, registry \union {t}}

\* The request goes on without a TGT that may be alive: getTicket answers null if
\* the cache does not answer, and any exception may come between.
Miss(t) == missed' = missed \union ({t} \intersect registry')

\* destroyTicketGrantingTicket: the TGT is dead once it is marked, whatever becomes
\* of the writes, but for one that could not be read.
Destroy(t) ==
    /\ registry' \in {registry, registry \ {t}}
    /\ Miss(t)

\* serviceCheck.
AfterLogin(s) == IF s = NoService THEN "done" ELSE "grant"

\* Mutant: the service is saved whether there is one or not.
SaveAnyService(f, s) ==
    /\ saved' = [saved EXCEPT ![browser[f]] = s]
    /\ overtaken' = [g \in Flows |->
           overtaken[g] \/ (g # f /\ browser[g] = browser[f] /\ s # NoService)]

\* A new flow of tab f, its scopes empty but for the cookie's TGT.
NewFlow(f) ==
    /\ flowTGT' = [flowTGT EXCEPT ![f] = cookie[browser[f]]]
    /\ warnings' = [warnings EXCEPT ![f] = FALSE]

\* ClientAction.prepareForLoginPage: the service is left in the session, if
\* there is one.
SaveService(f, s) ==
    IF s = NoService
      THEN UNCHANGED <<saved, overtaken>>
      ELSE /\ saved' = [saved EXCEPT ![browser[f]] = s]
           /\ overtaken' = [g \in Flows |->
                  overtaken[g] \/ (g # f /\ browser[g] = browser[f])]

\* A tab is opened at the login page, for a service or for none.
Open(f) ==
    /\ state[f] = "closed"
    /\ \E s \in Services \union {NoService}, r \in BOOLEAN :
         /\ NewFlow(f)
         /\ service' = [service EXCEPT ![f] = s]
         /\ renew' = [renew EXCEPT ![f] = r]
         /\ asked' = [asked EXCEPT ![f] = s]
         /\ SaveService(f, s)
    /\ Goto(f, "check")
    /\ own' = [own EXCEPT ![f] = NoTGT]
    /\ UNCHANGED <<reqTGT, user, cookie, registry, missed, owner,
                   hasWarningMessages, forgotten, browser>>

\* ticketGrantingTicketCheck, terminateSession, hasServiceCheck and
\* renewRequestCheck.  A TGT that is not answered for is invalid; if destroying it
\* throws, the flow ends and the cookie stays.
Check(f) ==
    /\ state[f] = "check"
    /\ \/ /\ flowTGT[f] \in registry
          /\ Goto(f, IF service[f] = NoService THEN "done"
                     ELSE IF renew[f] THEN "form" ELSE "grant")
          /\ UNCHANGED <<cookie, registry, missed>>
       \/ flowTGT[f] = NoTGT /\ Goto(f, "form") /\ UNCHANGED <<cookie, registry, missed>>
       \/ /\ flowTGT[f] # NoTGT
          /\ Destroy(flowTGT[f])
          /\ \/ Goto(f, "form") /\ cookie' = [cookie EXCEPT ![browser[f]] = NoTGT]
             \/ Goto(f, "failed") /\ UNCHANGED cookie
    /\ UNCHANGED <<service, flowTGT, reqTGT, renew, user, warnings, own, saved,
                   owner, hasWarningMessages, history>>

-----------------------------------------------------------------------------
(* AuthenticationViaFormAction.submit.  A login ticket that is not the one   *)
(* the form was given leads back to the form and changes nothing.           *)

\* submit with the renew parameter: the service ticket is granted on the
\* browser's TGT if the credential fits.  If not, which exception says so is up
\* to the library: one of them ends the session and goes on with a new login.
Renew(f, u) ==
    \/ /\ flowTGT[f] \in registry /\ CreatedFor(flowTGT[f], u)
       /\ Goto(f, "done")
       /\ UNCHANGED <<registry, missed, reqTGT>>
    \/ /\ \E s \in {"form", "failed"} : View(f, s)
       /\ UNCHANGED <<registry, missed>>
    \/ /\ flowTGT[f] \in registry /\ ~CreatedFor(flowTGT[f], u)
       /\ Destroy(flowTGT[f])
       /\ \/ Goto(f, "submitted") /\ UNCHANGED reqTGT
          \/ View(f, "failed")

\* Mutant: the field is reset for each login.
SubmitReset(f) ==
    /\ state[f] = "form"
    /\ \E u \in Users :
         /\ user' = [user EXCEPT ![f] = u]
         /\ IF renew[f] /\ flowTGT[f] # NoTGT /\ service[f] # NoService
              THEN Renew(f, u)
              ELSE Goto(f, "submitted") /\ UNCHANGED <<registry, missed, reqTGT>>
    /\ hasWarningMessages' = FALSE
    /\ UNCHANGED <<service, flowTGT, renew, warnings, own, cookie, saved, owner,
                   history>>

Submit(f) ==
    /\ state[f] = "form"
    /\ \E u \in Users :
         /\ user' = [user EXCEPT ![f] = u]
         /\ IF renew[f] /\ flowTGT[f] # NoTGT /\ service[f] # NoService
              THEN Renew(f, u)
              ELSE Goto(f, "submitted") /\ UNCHANGED <<registry, missed, reqTGT>>
    /\ UNCHANGED <<service, flowTGT, renew, warnings, own, cookie, saved, owner,
                   hasWarningMessages, history>>

\* Mutant: the new TGT is not put into any scope.
AuthenticateUnstored(f) ==
    /\ state[f] = "submitted"
    /\ \E t \in TGTs :
         /\ Create(f, t, user[f])
         /\ own' = [own EXCEPT ![f] = t]
         /\ Goto(f, "created")
    /\ UNCHANGED <<service, flowTGT, reqTGT, renew, user, warnings, cookie, saved,
                   missed, hasWarningMessages, history>>

\* Mutant: the new TGT is put into the request scope, as a federated login does.
AuthenticateInRequest(f) ==
    /\ state[f] = "submitted"
    /\ \/ \E t \in TGTs :
            /\ Create(f, t, user[f])
            /\ reqTGT' = [reqTGT EXCEPT ![f] = t]
            /\ own' = [own EXCEPT ![f] = t]
            /\ Goto(f, "created")
       \/ /\ \E s \in {"form", "failed"} : View(f, s)
          /\ UNCHANGED <<registry, owner, own>>
    /\ UNCHANGED <<service, flowTGT, renew, user, warnings, cookie, saved,
                   missed, hasWarningMessages, history>>

\* createTicketGrantingTicket: the new TGT takes the place of the cookie's in
\* the flow scope.  If addTicket throws, the TGT may be stored and in no scope.
Authenticate(f) ==
    /\ state[f] = "submitted"
    /\ \/ \E t \in TGTs :
            /\ Create(f, t, user[f])
            /\ flowTGT' = [flowTGT EXCEPT ![f] = t]
            /\ own' = [own EXCEPT ![f] = t]
            /\ Goto(f, "created")
            /\ UNCHANGED <<reqTGT, missed>>
       \/ /\ \E t \in TGTs : Create(f, t, user[f]) /\ Miss(t)
          /\ View(f, "form")
          /\ UNCHANGED <<flowTGT, own>>
       \/ /\ \E s \in {"form", "failed"} : View(f, s)
          /\ UNCHANGED <<registry, missed, owner, flowTGT, own>>
    /\ UNCHANGED <<service, renew, user, warnings, cookie, saved,
                   hasWarningMessages, history>>

\* addWarningToContext, for each warning of the authentication.
TakeWarnings(f) ==
    /\ warnings' = [warnings EXCEPT ![f] = user[f] \in Warned]
    /\ hasWarningMessages' = (hasWarningMessages \/ user[f] \in Warned)

\* The TGT is read back for the warnings of its authentication.  Any exception
\* until submit returns is an error, be it that the TGT is not answered for or
\* that a later call throws.
ReadWarnings(f) ==
    /\ state[f] = "created"
    /\ \/ /\ TicketOf(f) \in registry
          /\ TakeWarnings(f)
          /\ Goto(f, "answer")
          /\ UNCHANGED <<registry, missed, reqTGT>>
       \/ /\ UNCHANGED registry
          /\ Miss(TicketOf(f))
          /\ \/ UNCHANGED <<warnings, hasWarningMessages>>
             \/ TicketOf(f) \in registry /\ TakeWarnings(f)
          /\ View(f, "form")
    /\ UNCHANGED <<service, flowTGT, renew, user, own, cookie, saved, owner, history>>

Answer(f) ==
    /\ state[f] = "answer"
    /\ Goto(f, IF hasWarningMessages THEN "show" ELSE "send")
    /\ UNCHANGED <<service, flowTGT, reqTGT, renew, user, warnings, own, cookie,
                   saved, registry, missed, owner, hasWarningMessages, history>>

-----------------------------------------------------------------------------
(* The rest of the flow. *)

\* sendTicketGrantingTicketAction: the cookie is set, and the TGT it replaces
\* destroyed, if the flow scope still has it; that may throw.
SendTicket(f) ==
    /\ state[f] \in {"show", "send"}
    /\ cookie' = [cookie EXCEPT ![browser[f]] = TicketOf(f)]
    /\ IF flowTGT[f] = TicketOf(f) THEN UNCHANGED <<registry, missed>>
       ELSE Destroy(flowTGT[f])
    /\ \/ flowTGT[f] # TicketOf(f) /\ View(f, "failed")
       \/ state[f] = "show" /\ View(f, "messages")
       \/ state[f] = "send" /\ Goto(f, AfterLogin(service[f])) /\ UNCHANGED reqTGT
    /\ UNCHANGED <<service, flowTGT, renew, user, warnings, own, saved, owner,
                   hasWarningMessages, history>>

Proceed(f) ==
    /\ state[f] = "messages"
    /\ Goto(f, AfterLogin(service[f]))
    /\ UNCHANGED <<service, flowTGT, reqTGT, renew, user, warnings, own, cookie,
                   saved, registry, missed, owner, hasWarningMessages, history>>

\* generateServiceTicketAction: back to the form when the TGT is not answered for
\* or not accepted; what is no ticket exception ends the flow.
Grant(f) ==
    /\ state[f] = "grant"
    /\ \/ /\ TicketOf(f) \in registry
          /\ Goto(f, "done")
          /\ UNCHANGED <<registry, missed, reqTGT>>
       \/ UNCHANGED registry /\ Miss(TicketOf(f)) /\ View(f, "form")
       \/ View(f, "failed") /\ UNCHANGED <<registry, missed>>
    /\ UNCHANGED <<service, flowTGT, renew, user, warnings, own, cookie, saved,
                   owner, hasWarningMessages, history>>

\* The user follows the form's link to an identity provider.
Leave(f) ==
    /\ state[f] = "form"
    /\ Goto(f, "away")
    /\ UNCHANGED <<service, flowTGT, reqTGT, renew, user, warnings, own, cookie,
                   saved, registry, missed, owner, hasWarningMessages, history>>

\* Mutant: a federated login puts its TGT into the flow scope, as the form does.
ReturnInFlow(f) ==
    /\ state[f] = "away"
    /\ warnings' = [warnings EXCEPT ![f] = FALSE]
    /\ service' = [service EXCEPT ![f] = saved[browser[f]]]
    /\ renew' = [renew EXCEPT ![f] = FALSE]
    /\ \E u \in Users, t \in TGTs :
         /\ Create(f, t, u)
         /\ user' = [user EXCEPT ![f] = u]
         /\ flowTGT' = [flowTGT EXCEPT ![f] = t]
         /\ own' = [own EXCEPT ![f] = t]
         /\ Goto(f, "send")
    /\ UNCHANGED <<cookie, missed, hasWarningMessages, history, saved, reqTGT>>

\* ClientAction when the user is back: a new flow, its service taken from the
\* session, if that has it yet; with credentials a TGT in the request scope, or an
\* exception, with the TGT stored or not; without, the check of the cookie's TGT, as
\* for any visitor.
Return(f) ==
    /\ state[f] = "away"
    /\ NewFlow(f)
    /\ service' = [service EXCEPT ![f] = saved[browser[f]]]
    /\ renew' = [renew EXCEPT ![f] = FALSE]
    /\ \/ \E u \in Users, t \in TGTs :
            /\ Create(f, t, u)
            /\ user' = [user EXCEPT ![f] = u]
            /\ reqTGT' = [reqTGT EXCEPT ![f] = t]
            /\ own' = [own EXCEPT ![f] = t]
            /\ Goto(f, "send")
            /\ UNCHANGED <<missed, saved, overtaken>>
       \/ /\ Goto(f, "failed")
          /\ own' = [own EXCEPT ![f] = NoTGT]
          /\ \/ \E u \in Users, t \in TGTs : Create(f, t, u) /\ Miss(t)
             \/ UNCHANGED <<registry, missed, owner>>
          /\ UNCHANGED <<user, reqTGT, saved, overtaken>>
       \/ /\ Goto(f, "check")
          /\ own' = [own EXCEPT ![f] = NoTGT]
          /\ SaveService(f, saved[browser[f]])
          /\ UNCHANGED <<registry, missed, owner, user, reqTGT>>
    /\ UNCHANGED <<cookie, hasWarningMessages, asked, forgotten, browser>>

\* A tab that has ended is closed.
Close(f) ==
    /\ state[f] \in {"done", "failed"}
    /\ View(f, "closed")
    /\ service' = [service EXCEPT ![f] = NoService]
    /\ flowTGT' = [flowTGT EXCEPT ![f] = NoTGT]
    /\ renew' = [renew EXCEPT ![f] = FALSE]
    /\ warnings' = [warnings EXCEPT ![f] = FALSE]
    /\ own' = [own EXCEPT ![f] = NoTGT]
    /\ asked' = [asked EXCEPT ![f] = NoService]
    /\ overtaken' = [overtaken EXCEPT ![f] = FALSE]
    /\ forgotten' = [forgotten EXCEPT ![f] = FALSE]
    /\ user' = [user EXCEPT ![f] = NoOne]
    /\ UNCHANGED <<cookie, saved, registry, missed, owner, hasWarningMessages, browser>>

-----------------------------------------------------------------------------
(* What else happens to TGTs and sessions. *)

\* A logout clears the cookie, unless the destruction of its TGT throws.
Logout(b) ==
    /\ cookie[b] # NoTGT
    /\ Destroy(cookie[b])
    /\ cookie' \in {cookie, [cookie EXCEPT ![b] = NoTGT]}
    /\ UNCHANGED <<flowVars, saved, owner, hasWarningMessages, history>>

Expire(t) ==
    /\ t \in registry
    /\ registry' = registry \ {t}
    /\ UNCHANGED <<flowVars, cookie, saved, missed, owner, hasWarningMessages, history>>

\* The HTTP session of a browser times out or is invalidated: with it go the saved
\* service and the flows at a view, which it keeps.  Requests under way go on, and
\* so does a visit to an identity provider; to follow the form's link later is as
\* good as to have left before.
SessionEnds(b) ==
    /\ saved' = [saved EXCEPT ![b] = NoService]
    /\ state' = [f \in Flows |->
           IF browser[f] = b /\ state[f] \in {"form", "messages"} THEN "failed" ELSE state[f]]
    /\ forgotten' = [f \in Flows |->
           forgotten[f] \/ (browser[f] = b /\ asked[f] # NoService)]
    /\ UNCHANGED <<service, flowTGT, reqTGT, renew, user, warnings, own, cookie,
                   registry, missed, owner, hasWarningMessages, asked, overtaken,
                   browser>>

FlowStep(f) ==
    \/ Open(f) \/ Check(f) \/ Submit(f) \/ Authenticate(f) \/ ReadWarnings(f)
    \/ Answer(f) \/ SendTicket(f) \/ Proceed(f) \/ Grant(f) \/ Leave(f)
    \/ Return(f) \/ Close(f)

Next ==
    \/ \E f \in Flows : FlowStep(f)
    \/ \E b \in Browsers : Logout(b) \/ SessionEnds(b)
    \/ \E t \in TGTs : Expire(t)

Spec == Init /\ [][Next]_vars

-----------------------------------------------------------------------------
(* Properties. *)

\* The variables have their types; a flow that has created a TGT and is not
\* back at a view names one.
TypeOK ==
    /\ browser \in [Flows -> Browsers]
    /\ state \in [Flows -> States]
    /\ service \in [Flows -> Services \union {NoService}]
    /\ flowTGT \in [Flows -> TGTs \union {NoTGT}]
    /\ reqTGT \in [Flows -> TGTs \union {NoTGT}]
    /\ renew \in [Flows -> BOOLEAN]
    /\ user \in [Flows -> Users]
    /\ warnings \in [Flows -> BOOLEAN]
    /\ own \in [Flows -> TGTs \union {NoTGT}]
    /\ cookie \in [Browsers -> TGTs \union {NoTGT}]
    /\ saved \in [Browsers -> Services \union {NoService}]
    /\ registry \subseteq TGTs
    /\ missed \subseteq TGTs
    /\ owner \in [TGTs -> SUBSET (Users \X Browsers)]
    /\ hasWarningMessages \in BOOLEAN
    /\ asked \in [Flows -> Services \union {NoService}]
    /\ overtaken \in [Flows -> BOOLEAN]
    /\ forgotten \in [Flows -> BOOLEAN]
    /\ \A f \in Flows :
         state[f] \in {"created", "answer", "show", "send"} => TicketOf(f) # NoTGT

\* A user whose authentication comes with warnings is shown them, whatever the
\* other requests do to the field that says so: submit never answers SUCCESS
\* while its message context holds warnings.
WarnedUserSeesMessages ==
    [][\A f \in Flows :
         state[f] = "answer" /\ state'[f] = "send" => ~warnings[f]]_vars

\* SUCCESS_WITH_WARNINGS means, by its comment, that there are warnings to be
\* displayed to the user.  It does not hold: the field is shared by all logins
\* and never reset, so after one user's warning everybody gets the page.
MessagesMeanWarnings ==
    [][\A f \in Flows :
         state[f] = "answer" /\ state'[f] = "show" => warnings[f]]_vars

\* A flow that has logged its user in asks for service tickets on the TGT of
\* that login, not on the one its browser came with, even after the page with
\* the warnings has ended the request.
GrantsOnOwnLogin ==
    \A f \in Flows :
        state[f] = "grant" /\ own[f] # NoTGT => TicketOf(f) = own[f]

\* A federated login returns to the service its tab was opened for, unless
\* another tab of the browser has left a service in the session since; if the
\* session has ended meanwhile, the login goes to no service rather than to one that
\* is left of an earlier login.
ReturnsToItsService ==
    [][\A f \in Flows :
         /\ state[f] = "away" /\ state'[f] # "away"
         /\ asked[f] # NoService
         /\ ~overtaken[f]
         => service'[f] = asked[f] \/ (forgotten[f] /\ service'[f] = NoService)]_vars

\* In a browser with one tab, a TGT that was created there and is alive is the
\* one in the cookie, or about to be: renewed and federated logins destroy the
\* TGT they replace, so that logging out leaves no single sign-on session.  What
\* escapes are TGTs that a request could not read, or threw on, and left alive.
NoTGTLeftBehind ==
    \A f \in Flows :
        \/ \E g \in Flows \ {f} : browser[g] = browser[f]
        \/ \A t \in registry \ missed :
             \/ \A u \in Users : owner[t] # {<<u, browser[f]>>}
             \/ t = cookie[browser[f]]
             \/ state[f] \in {"created", "answer", "show", "send"} /\ t = own[f]

-----------------------------------------------------------------------------
(* The inductive invariant behind these properties. *)

LoggedIn == {"created", "answer", "show", "send"}

\* Only a federated login uses the request scope, and until the flow asks for a
\* service ticket its login is the one it goes on with.
OwnInv ==
    \A f \in Flows :
        /\ reqTGT[f] # NoTGT => state[f] \in {"send", "grant", "done"}
        /\ state[f] = "check" => own[f] = NoTGT
        /\ state[f] \in LoggedIn => own[f] # NoTGT
        /\ state[f] \in LoggedIn \union {"messages", "grant"} /\ own[f] # NoTGT =>
               TicketOf(f) = own[f]

\* The field is set as long as a flow has warnings.
WarningInv == \A f \in Flows : warnings[f] => hasWarningMessages

\* The service in the session is that of the last tab, unless the session ended.
SavedInv ==
    \A f \in Flows :
        asked[f] # NoService /\ ~overtaken[f] =>
            \/ saved[browser[f]] = asked[f]
            \/ forgotten[f] /\ saved[browser[f]] = NoService

\* The single sign-on sessions of a browser that no request has missed.
Sessions(b) == {t \in registry \ missed : \E u \in Users : owner[t] = {<<u, b>>}}

\* The session of a browser with one tab: by the time the tab creates a TGT the
\* one before it is gone, or the flow scope has it.
SessionInv(f) ==
    LET mine == Sessions(browser[f]) IN
    /\ state[f] \in LoggedIn =>
           /\ mine \subseteq {own[f], flowTGT[f]}
           /\ mine \subseteq {own[f], cookie[browser[f]]}
    /\ state[f] \notin LoggedIn => mine \subseteq {cookie[browser[f]]}
    /\ state[f] = "check" => mine \subseteq {flowTGT[f]}
    /\ state[f] = "form" /\ mine # {} =>
           /\ mine \subseteq {flowTGT[f]}
           /\ renew[f] /\ service[f] # NoService
    /\ state[f] = "submitted" => mine = {}
    /\ state[f] \in {"messages", "grant"} => mine \subseteq {TicketOf(f)}

AloneInv ==
    \A f \in Flows :
        (\E g \in Flows \ {f} : browser[g] = browser[f]) \/ SessionInv(f)

IInv == TypeOK /\ OwnInv /\ WarningInv /\ SavedInv /\ AloneInv
=============================================================================
