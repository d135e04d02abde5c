--------------------------- MODULE LoginFlowProofs ---------------------------
(***************************************************************************)
(* Proofs about LoginFlow for any number of flows, browsers, users and      *)
(* services.                                                                *)
(***************************************************************************)
EXTENDS LoginFlow, TLAPS

-----------------------------------------------------------------------------
(* Types.                                                                   *)

LEMMA TypeOfNoOne == NoOne \in Users
  BY FlowAssumption DEF NoOne

LEMMA SaveServiceTyped ==
    ASSUME TypeOK, NEW f \in Flows, NEW s \in Services \union {NoService}, SaveService(f, s)
    PROVE  saved' \in [Browsers -> Services \union {NoService}] /\ overtaken' \in [Flows -> BOOLEAN]
  <1>1. CASE s = NoService
    BY <1>1 DEF SaveService, TypeOK
  <1>2. CASE s # NoService
    <2>1. saved' = [saved EXCEPT ![browser[f]] = s]
      BY <1>2 DEF SaveService
    <2>2. overtaken' = [g \in Flows |-> overtaken[g] \/ (g # f /\ browser[g] = browser[f])]
      BY <1>2 DEF SaveService
    <2>3. \A g \in Flows : (overtaken[g] \/ (g # f /\ browser[g] = browser[f])) \in BOOLEAN
      BY Zenon
    <2> QED
      BY <2>1, <2>2, <2>3 DEF TypeOK
  <1> QED
    BY <1>1, <1>2

LEMMA FlowTyped ==
    ASSUME TypeOK, NEW f \in Flows, FlowStep(f)
    PROVE  TypeOK'
  <1> USE TypeOfNoOne, FlowAssumption
  <1>1. CASE Open(f)
    <2>1. PICK s \in Services \union {NoService}, r \in BOOLEAN :
            /\ service' = [service EXCEPT ![f] = s]
            /\ renew' = [renew EXCEPT ![f] = r]
            /\ asked' = [asked EXCEPT ![f] = s]
            /\ SaveService(f, s)
            /\ flowTGT' = [flowTGT EXCEPT ![f] = cookie[browser[f]]]
            /\ warnings' = [warnings EXCEPT ![f] = FALSE]
            /\ state' = [state EXCEPT ![f] = "check"]
            /\ own' = [own EXCEPT ![f] = NoTGT]
            /\ UNCHANGED <<reqTGT, user, cookie, registry, missed, owner, hasWarningMessages, forgotten, browser>>
      BY <1>1 DEF Open, NewFlow, Goto
    <2>2. saved' \in [Browsers -> Services \union {NoService}] /\ overtaken' \in [Flows -> BOOLEAN]
      BY <2>1, SaveServiceTyped
    <2>3. \A g \in Flows : state'[g] \in LoggedIn => state'[g] = state[g] /\ TicketOf(g)' = TicketOf(g)
      BY <2>1 DEF TypeOK, LoggedIn, TicketOf
    <2> QED
      BY <2>1, <2>2, <2>3 DEF TypeOK, States, LoggedIn
  <1>2. CASE Check(f)
    BY <1>2 DEF Check, Destroy, Miss, Goto, TypeOK, States, TicketOf, flowVars, history
  <1>3. CASE Submit(f)
    BY <1>3 DEF Submit, Renew, Destroy, Miss, Goto, View, TypeOK, States, TicketOf, flowVars, history
  <1>4. CASE Authenticate(f)
    BY <1>4 DEF Authenticate, Create, Miss, Goto, View, TypeOK, States, TicketOf, flowVars, history
  <1>5. CASE ReadWarnings(f)
    <2>1. /\ \/ state' = [state EXCEPT ![f] = "answer"] /\ UNCHANGED reqTGT
             \/ state' = [state EXCEPT ![f] = "form"] /\ reqTGT' = [reqTGT EXCEPT ![f] = NoTGT]
          /\ UNCHANGED <<service, flowTGT, renew, user, own, cookie, saved, registry, owner, history>>
          /\ missed' \subseteq missed \union registry
          /\ state[f] = "created"
      BY <1>5 DEF ReadWarnings, Goto, View, Miss
    <2>2. warnings' \in [Flows -> BOOLEAN] /\ hasWarningMessages' \in BOOLEAN
      <3>1. \/ /\ warnings' = [warnings EXCEPT ![f] = user[f] \in Warned]
               /\ hasWarningMessages' = (hasWarningMessages \/ user[f] \in Warned)
            \/ UNCHANGED <<warnings, hasWarningMessages>>
        BY <1>5 DEF ReadWarnings, TakeWarnings
      <3>2. (user[f] \in Warned) \in BOOLEAN /\ (hasWarningMessages \/ user[f] \in Warned) \in BOOLEAN
        <4>1. (hasWarningMessages \/ user[f] \in Warned) \in BOOLEAN
          BY Zenon
        <4>2. CASE user[f] \in Warned
          BY <4>1, <4>2
        <4>3. CASE user[f] \notin Warned
          BY <4>1, <4>3
        <4> QED
          BY <4>2, <4>3
      <3>3. warnings \in [Flows -> BOOLEAN] /\ hasWarningMessages \in BOOLEAN
        BY DEF TypeOK
      <3>4. warnings' \in [Flows -> BOOLEAN]
        BY <3>1, <3>2, <3>3
      <3>5. hasWarningMessages' \in BOOLEAN
        BY <3>1, <3>2, <3>3, Zenon
      <3> QED
        BY <3>4, <3>5
    <2> QED
      BY <2>1, <2>2 DEF TypeOK, States, TicketOf, history
  <1>6. CASE Answer(f)
    BY <1>6 DEF Answer, Goto, TypeOK, States, TicketOf, flowVars, history
  <1>7. CASE SendTicket(f)
    BY <1>7 DEF SendTicket, Destroy, Miss, Goto, View, AfterLogin, TypeOK, States, TicketOf, flowVars, history
  <1>8. CASE Proceed(f)
    BY <1>8 DEF Proceed, Goto, AfterLogin, TypeOK, States, TicketOf, flowVars, history
  <1>9. CASE Grant(f)
    BY <1>9 DEF Grant, Miss, Goto, View, TypeOK, States, TicketOf, flowVars, history
  <1>10. CASE Leave(f)
    BY <1>10 DEF Leave, Goto, TypeOK, States, TicketOf, flowVars, history
  <1>11. CASE Return(f)
    <2>1. /\ flowTGT' = [flowTGT EXCEPT ![f] = cookie[browser[f]]]
          /\ warnings' = [warnings EXCEPT ![f] = FALSE]
          /\ service' = [service EXCEPT ![f] = saved[browser[f]]]
          /\ renew' = [renew EXCEPT ![f] = FALSE]
          /\ UNCHANGED <<cookie, hasWarningMessages, asked, forgotten, browser>>
      BY <1>11 DEF Return, NewFlow
    <2>2. saved' \in [Browsers -> Services \union {NoService}] /\ overtaken' \in [Flows -> BOOLEAN]
      <3>1. saved[browser[f]] \in Services \union {NoService}
        BY DEF TypeOK
      <3>2. SaveService(f, saved[browser[f]]) \/ UNCHANGED <<saved, overtaken>>
        BY <1>11 DEF Return
      <3> QED
        BY <3>1, <3>2, SaveServiceTyped DEF TypeOK
    <2>3. CASE \E u \in Users, t \in TGTs :
                 /\ Create(f, t, u)
                 /\ user' = [user EXCEPT ![f] = u]
                 /\ reqTGT' = [reqTGT EXCEPT ![f] = t]
                 /\ own' = [own EXCEPT ![f] = t]
                 /\ Goto(f, "send")
                 /\ UNCHANGED missed
      BY <2>1, <2>2, <2>3 DEF Create, Goto, TypeOK, States, TicketOf
    <2>4. CASE /\ Goto(f, "failed") \/ Goto(f, "check")
               /\ own' = [own EXCEPT ![f] = NoTGT]
               /\ UNCHANGED <<registry, missed, owner, user, reqTGT>>
      BY <2>1, <2>2, <2>4 DEF Goto, TypeOK, States, TicketOf
    <2>5. CASE /\ Goto(f, "failed")
               /\ own' = [own EXCEPT ![f] = NoTGT]
               /\ \E u \in Users, t \in TGTs : Create(f, t, u) /\ Miss(t)
               /\ UNCHANGED <<user, reqTGT>>
      BY <2>1, <2>2, <2>5 DEF Create, Miss, Goto, TypeOK, States, TicketOf
    <2> QED
      BY <1>11, <2>3, <2>4, <2>5 DEF Return
  <1>12. CASE Close(f)
    BY <1>12 DEF Close, View, Goto, TypeOK, States, TicketOf, flowVars, history
  <1> QED
    BY <1>1, <1>2, <1>3, <1>4, <1>5, <1>6, <1>7, <1>8, <1>9, <1>10, <1>11, <1>12 DEF FlowStep

LEMMA NextTyped ==
    ASSUME TypeOK, [Next]_vars
    PROVE  TypeOK'
  <1>1. ASSUME NEW f \in Flows, FlowStep(f)
        PROVE  TypeOK'
    BY <1>1, FlowTyped
  <1>2. ASSUME NEW b \in Browsers, Logout(b)
        PROVE  TypeOK'
    BY <1>2 DEF Logout, Destroy, Miss, TypeOK, TicketOf, flowVars, history
  <1>s. ASSUME NEW b \in Browsers, SessionEnds(b)
        PROVE  TypeOK'
    <2>1. \A f \in Flows : (forgotten[f] \/ (browser[f] = b /\ asked[f] # NoService)) \in BOOLEAN
      BY Zenon
    <2>2. forgotten' \in [Flows -> BOOLEAN]
      BY <1>s, <2>1 DEF SessionEnds
    <2>3. state' \in [Flows -> States]
      BY <1>s DEF SessionEnds, TypeOK, States
    <2>4. saved' \in [Browsers -> Services \union {NoService}]
      BY <1>s DEF SessionEnds, TypeOK
    <2>5. \A f \in Flows : state'[f] \in {"created", "answer", "show", "send"} => state'[f] = state[f]
      BY <1>s DEF SessionEnds
    <2> QED
      BY <1>s, <2>2, <2>3, <2>4, <2>5 DEF SessionEnds, TypeOK, TicketOf
  <1>3. ASSUME NEW t \in TGTs, Expire(t)
        PROVE  TypeOK'
    BY <1>3 DEF Expire, TypeOK, TicketOf, flowVars, history
  <1>4. CASE UNCHANGED vars
    BY <1>4 DEF vars, TypeOK, TicketOf, flowVars, history
  <1> QED
    BY <1>1, <1>2, <1>s, <1>3, <1>4 DEF Next

\* What a step of one flow leaves to the others.
LEMMA OthersKept ==
    ASSUME TypeOK, NEW f \in Flows, FlowStep(f), NEW g \in Flows \ {f}
    PROVE  /\ state'[g] = state[g] /\ service'[g] = service[g] /\ renew'[g] = renew[g]
           /\ flowTGT'[g] = flowTGT[g] /\ reqTGT'[g] = reqTGT[g] /\ own'[g] = own[g]
           /\ warnings'[g] = warnings[g] /\ asked'[g] = asked[g] /\ browser' = browser
           /\ TicketOf(g)' = TicketOf(g)
  <1>1. /\ state'[g] = state[g] /\ service'[g] = service[g] /\ renew'[g] = renew[g]
        /\ flowTGT'[g] = flowTGT[g] /\ reqTGT'[g] = reqTGT[g] /\ own'[g] = own[g]
        /\ warnings'[g] = warnings[g] /\ asked'[g] = asked[g] /\ browser' = browser
    <2>1. CASE Open(f)
      BY <2>1 DEF Open, NewFlow, Goto, TypeOK, flowVars, history
    <2>2. CASE Check(f)
      BY <2>2 DEF Check, Goto, TypeOK, flowVars, history
    <2>3. CASE Submit(f)
      BY <2>3 DEF Submit, Renew, Goto, View, TypeOK, flowVars, history
    <2>4. CASE Authenticate(f)
      BY <2>4 DEF Authenticate, Goto, View, TypeOK, flowVars, history
    <2>5. CASE ReadWarnings(f)
      BY <2>5 DEF ReadWarnings, TakeWarnings, Goto, View, TypeOK, flowVars, history
    <2>6. CASE Answer(f)
      BY <2>6 DEF Answer, Goto, TypeOK, flowVars, history
    <2>7. CASE SendTicket(f)
      BY <2>7 DEF SendTicket, Goto, View, TypeOK, flowVars, history
    <2>8. CASE Proceed(f)
      BY <2>8 DEF Proceed, Goto, TypeOK, flowVars, history
    <2>9. CASE Grant(f)
      BY <2>9 DEF Grant, Goto, View, TypeOK, flowVars, history
    <2>10. CASE Leave(f)
      BY <2>10 DEF Leave, Goto, TypeOK, flowVars, history
    <2>11. CASE Return(f)
      BY <2>11 DEF Return, NewFlow, Goto, TypeOK, flowVars, history
    <2>12. CASE Close(f)
      BY <2>12 DEF Close, View, Goto, TypeOK, flowVars, history
    <2> QED
      BY <2>1, <2>2, <2>3, <2>4, <2>5, <2>6, <2>7, <2>8, <2>9, <2>10, <2>11, <2>12 DEF FlowStep
  <1> QED
    BY <1>1 DEF TicketOf

-----------------------------------------------------------------------------
(* Whose TGT a flow goes on with.                                           *)

LEMMA FlowKeepsOwn ==
    ASSUME TypeOK, OwnInv, NEW f \in Flows, FlowStep(f)
    PROVE  OwnInv'
  <1> USE FlowAssumption
  <1> DEFINE I(g) ==
        /\ reqTGT[g] # NoTGT => state[g] \in {"send", "grant", "done"}
        /\ state[g] = "check" => own[g] = NoTGT
        /\ state[g] \in LoggedIn => own[g] # NoTGT
        /\ state[g] \in LoggedIn \union {"messages", "grant"} /\ own[g] # NoTGT =>
               TicketOf(g) = own[g]
  <1>1. ASSUME NEW g \in Flows \ {f}
        PROVE  I(g)'
    BY <1>1, OthersKept DEF OwnInv
  <1>2. I(f)'
    <2> USE DEF LoggedIn
    <2>1. CASE Open(f)
      BY <2>1 DEF Open, NewFlow, Goto, OwnInv, TypeOK, TicketOf
    <2>2. CASE Check(f)
      BY <2>2 DEF Check, Goto, OwnInv, TypeOK, TicketOf
    <2>3. CASE Submit(f)
      BY <2>3 DEF Submit, Renew, Goto, View, OwnInv, TypeOK, TicketOf
    <2>4. CASE Authenticate(f)
      BY <2>4 DEF Authenticate, Goto, View, OwnInv, TypeOK, TicketOf
    <2>5. CASE ReadWarnings(f)
      BY <2>5 DEF ReadWarnings, Goto, View, OwnInv, TypeOK, TicketOf
    <2>6. CASE Answer(f)
      BY <2>6 DEF Answer, Goto, OwnInv, TypeOK, TicketOf
    <2>7. CASE SendTicket(f)
      BY <2>7 DEF SendTicket, Goto, View, AfterLogin, OwnInv, TypeOK, TicketOf
    <2>8. CASE Proceed(f)
      BY <2>8 DEF Proceed, Goto, AfterLogin, OwnInv, TypeOK, TicketOf
    <2>9. CASE Grant(f)
      BY <2>9 DEF Grant, Goto, View, OwnInv, TypeOK, TicketOf
    <2>10. CASE Leave(f)
      BY <2>10 DEF Leave, Goto, OwnInv, TypeOK, TicketOf
    <2>11. CASE Return(f)
      BY <2>11 DEF Return, NewFlow, Goto, OwnInv, TypeOK, TicketOf
    <2>12. CASE Close(f)
      BY <2>12 DEF Close, View, Goto, OwnInv, TypeOK, TicketOf
    <2> QED
      BY <2>1, <2>2, <2>3, <2>4, <2>5, <2>6, <2>7, <2>8, <2>9, <2>10, <2>11, <2>12 DEF FlowStep
  <1> QED
    BY <1>1, <1>2 DEF OwnInv

-----------------------------------------------------------------------------
(* Warnings.                                                                *)

LEMMA FlowKeepsWarning ==
    ASSUME TypeOK, WarningInv, NEW f \in Flows, FlowStep(f)
    PROVE  WarningInv'
  <1>1. \A g \in Flows \ {f} : warnings'[g] = warnings[g]
    BY OthersKept
  <1>2. hasWarningMessages => hasWarningMessages'
    BY DEF FlowStep, Open, Check, Submit, Authenticate, ReadWarnings, TakeWarnings, Answer,
           SendTicket, Proceed, Grant, Leave, Return, Close
  <1>3. warnings'[f] => hasWarningMessages'
    <2>1. CASE ReadWarnings(f)
      BY <2>1 DEF ReadWarnings, TakeWarnings, TypeOK, WarningInv
    <2>2. CASE Open(f) \/ Return(f) \/ Close(f)
      BY <2>2 DEF Open, Return, Close, NewFlow, TypeOK
    <2>3. CASE ~ReadWarnings(f) /\ ~Open(f) /\ ~Return(f) /\ ~Close(f)
      <3>1. warnings' = warnings /\ hasWarningMessages' = hasWarningMessages
        BY <2>3 DEF FlowStep, Check, Submit, Authenticate, Answer, SendTicket, Proceed, Grant, Leave
      <3> QED
        BY <3>1 DEF WarningInv
    <2> QED
      BY <2>1, <2>2, <2>3
  <1> QED
    BY <1>1, <1>2, <1>3 DEF WarningInv

-----------------------------------------------------------------------------
(* The service in the session.                                              *)

LEMMA SaveServiceSaves ==
    ASSUME TypeOK, SavedInv, NEW f \in Flows, NEW s \in Services \union {NoService},
           SaveService(f, s), browser' = browser, forgotten' = forgotten,
           \A g \in Flows \ {f} : asked'[g] = asked[g],
           asked'[f] = s \/ (asked'[f] = asked[f] /\ s = saved[browser[f]])
    PROVE  SavedInv'
  <1>1. CASE s = NoService
    BY <1>1 DEF SaveService, SavedInv, TypeOK
  <1>2. CASE s # NoService
    <2>1. /\ saved' = [saved EXCEPT ![browser[f]] = s]
          /\ overtaken' = [g \in Flows |-> overtaken[g] \/ (g # f /\ browser[g] = browser[f])]
      BY <1>2 DEF SaveService
    <2>2. ASSUME NEW g \in Flows, asked'[g] # NoService, ~overtaken'[g]
          PROVE  \/ saved'[browser[g]] = asked'[g]
                 \/ forgotten[g] /\ saved'[browser[g]] = NoService
      <3>1. ~overtaken[g] /\ (g = f \/ browser[g] # browser[f])
        BY <2>1, <2>2
      <3>2. CASE g = f
        BY <2>1, <2>2, <3>1, <3>2 DEF SavedInv, TypeOK
      <3>3. CASE g # f
        BY <2>1, <2>2, <3>1, <3>3 DEF SavedInv, TypeOK
      <3> QED
        BY <3>2, <3>3
    <2> QED
      BY <2>2 DEF SavedInv
  <1> QED
    BY <1>1, <1>2

LEMMA FlowKeepsSaved ==
    ASSUME TypeOK, SavedInv, NEW f \in Flows, FlowStep(f)
    PROVE  SavedInv'
  <1>1. CASE Open(f)
    <2>1. PICK s \in Services \union {NoService} :
            /\ SaveService(f, s) /\ asked' = [asked EXCEPT ![f] = s]
            /\ browser' = browser /\ forgotten' = forgotten
      BY <1>1 DEF Open
    <2> QED
      BY <2>1, SaveServiceSaves DEF TypeOK
  <1>2. CASE Return(f)
    <2>1. asked' = asked /\ browser' = browser /\ forgotten' = forgotten
      BY <1>2 DEF Return
    <2>2. CASE SaveService(f, saved[browser[f]])
      BY <2>1, <2>2, SaveServiceSaves DEF TypeOK
    <2>3. CASE UNCHANGED <<saved, overtaken>>
      BY <2>1, <2>3 DEF SavedInv
    <2> QED
      BY <1>2, <2>2, <2>3 DEF Return
  <1>3. CASE Close(f)
    BY <1>3 DEF Close, SavedInv, TypeOK
  <1>4. CASE ~Open(f) /\ ~Return(f) /\ ~Close(f)
    <2>1. UNCHANGED <<saved, asked, overtaken, forgotten, browser>>
      BY <1>4 DEF FlowStep, Check, Submit, Authenticate, ReadWarnings, Answer, SendTicket,
                  Proceed, Grant, Leave, history
    <2> QED
      BY <2>1 DEF SavedInv
  <1> QED
    BY <1>1, <1>2, <1>3, <1>4

\* An HTTP session that ends leaves nothing of an earlier login.
LEMMA SessionEndKeepsSaved ==
    ASSUME TypeOK, SavedInv, NEW b \in Browsers, SessionEnds(b)
    PROVE  SavedInv'
  <1>1. SUFFICES ASSUME NEW f \in Flows, asked[f] # NoService, ~overtaken[f]
                 PROVE  \/ saved'[browser[f]] = asked[f]
                        \/ forgotten'[f] /\ saved'[browser[f]] = NoService
    BY DEF SessionEnds, SavedInv
  <1>2. CASE browser[f] = b
    BY <1>1, <1>2 DEF SessionEnds, TypeOK
  <1>3. CASE browser[f] # b
    <2>1. saved'[browser[f]] = saved[browser[f]] /\ (forgotten[f] => forgotten'[f])
      BY <1>3 DEF SessionEnds, TypeOK
    <2> QED
      BY <1>1, <2>1 DEF SavedInv
  <1> QED
    BY <1>2, <1>3

-----------------------------------------------------------------------------
(* The sessions of a browser with one tab.                                  *)

\* A TGT that was missed is missed for good.
LEMMA MissedStay ==
    ASSUME NEW f \in Flows, FlowStep(f)
    PROVE  missed \subseteq missed'
  BY DEF FlowStep, Open, Check, Submit, Renew, Authenticate, ReadWarnings, Answer, SendTicket,
         Proceed, Grant, Leave, Return, Close, Destroy, Miss

LEMMA SessionsShrink ==
    ASSUME NEW b \in Browsers, missed \subseteq missed',
           \A s \in registry' \ missed' : \A v \in Users : owner'[s] = {<<v, b>>} =>
               s \in registry /\ owner[s] = {<<v, b>>}
    PROVE  Sessions(b)' \subseteq Sessions(b)
  <1>1. SUFFICES ASSUME NEW s \in Sessions(b)'
                 PROVE  s \in Sessions(b)
    OBVIOUS
  <1>2. s \in registry' \ missed'
    BY <1>1 DEF Sessions
  <1>3. PICK v \in Users : owner'[s] = {<<v, b>>}
    BY <1>1 DEF Sessions
  <1> QED
    BY <1>2, <1>3 DEF Sessions

\* A session is created for the browser of the flow that creates it, and a
\* flow changes no other browser's cookie.
LEMMA SessionsElsewhere ==
    ASSUME TypeOK, NEW f \in Flows, FlowStep(f), NEW b \in Browsers, b # browser[f]
    PROVE  Sessions(b)' \subseteq Sessions(b) /\ cookie'[b] = cookie[b]
  <1>1. cookie'[b] = cookie[b]
    BY DEF FlowStep, Open, Check, Submit, Authenticate, ReadWarnings, Answer, SendTicket,
           Proceed, Grant, Leave, Return, Close, TypeOK
  <1>2. \/ \E t \in TGTs, u \in Users : Create(f, t, u)
        \/ registry' \subseteq registry /\ owner' = owner
    BY DEF FlowStep, Open, Check, Submit, Renew, Authenticate, ReadWarnings, Answer, SendTicket,
           Proceed, Grant, Leave, Return, Close, Destroy, TypeOK
  <1>m. missed \subseteq missed'
    BY MissedStay
  <1>3. CASE \E t \in TGTs, u \in Users : Create(f, t, u)
    <2>1. PICK t \in TGTs, u \in Users : Create(f, t, u)
      BY <1>3
    <2>2. ASSUME NEW s \in registry', NEW v \in Users, owner'[s] = {<<v, b>>}
          PROVE  s \in registry /\ owner[s] = {<<v, b>>}
      <3>1. ASSUME s = t
            PROVE  FALSE
        <4>1. owner'[t] = {<<u, browser[f]>>}
          BY <2>1 DEF Create, TypeOK
        <4>2. <<v, b>> \in {<<u, browser[f]>>}
          BY <2>2, <3>1, <4>1
        <4> QED
          BY <4>2
      <3> QED
        BY <2>1, <2>2, <3>1 DEF Create, TypeOK
    <2> QED
      BY <1>1, <1>m, <2>2, SessionsShrink
  <1>4. CASE registry' \subseteq registry /\ owner' = owner
    <2>1. ASSUME NEW s \in registry', NEW v \in Users, owner'[s] = {<<v, b>>}
          PROVE  s \in registry /\ owner[s] = {<<v, b>>}
      BY <1>4, <2>1
    <2> QED
      BY <1>1, <1>m, <2>1, SessionsShrink
  <1> QED
    BY <1>1, <1>2, <1>3, <1>4

\* A session that is created is one more of its browser.
LEMMA SessionCreated ==
    ASSUME TypeOK, NEW f \in Flows, NEW t \in TGTs, NEW u \in Users, Create(f, t, u),
           browser' = browser, missed \subseteq missed'
    PROVE  /\ Sessions(browser[f])' \subseteq Sessions(browser[f]) \union {t}
           /\ Miss(t) => Sessions(browser[f])' \subseteq Sessions(browser[f])
  <1>1. ASSUME NEW s \in registry', NEW v \in Users, s # t, owner'[s] = {<<v, browser[f]>>}
        PROVE  s \in registry /\ owner[s] = {<<v, browser[f]>>}
    BY <1>1 DEF Create, TypeOK
  <1>2. Sessions(browser[f])' \subseteq Sessions(browser[f]) \union {t}
    BY <1>1 DEF Sessions
  <1>3. Miss(t) => t \notin Sessions(browser[f])'
    BY DEF Miss, Sessions
  <1> QED
    BY <1>2, <1>3

\* What is true of a browser's sessions stays true when some of them end.
LEMMA SessionsEnd ==
    ASSUME TypeOK, NEW g \in Flows, SessionInv(g), browser' = browser,
           Sessions(browser[g])' \subseteq Sessions(browser[g]),
           \/ cookie'[browser[g]] = cookie[browser[g]]
           \/ cookie[browser[g]] \notin Sessions(browser[g])',
           state'[g] = state[g], service'[g] = service[g], renew'[g] = renew[g],
           flowTGT'[g] = flowTGT[g], reqTGT'[g] = reqTGT[g], own'[g] = own[g]
    PROVE  SessionInv(g)'
  <1>1. PICK old, new :
          /\ old = Sessions(browser[g]) /\ new = Sessions(browser[g])'
          /\ new \subseteq old
    OBVIOUS
  <1>2. TicketOf(g)' = TicketOf(g)
    BY DEF TicketOf
  <1> QED
    BY <1>1, <1>2 DEF SessionInv

\* Sessions do not come back to life.
LEMMA SessionsLeft ==
    ASSUME NEW b \in Browsers, registry' \subseteq registry, owner' = owner,
           missed \subseteq missed'
    PROVE  Sessions(b)' = (Sessions(b) \intersect registry') \ missed'
  BY DEF Sessions

LEMMA FlowKeepsSession ==
    ASSUME TypeOK, OwnInv, OwnInv', NEW f \in Flows, FlowStep(f), SessionInv(f)
    PROVE  SessionInv(f)'
  <1> USE FlowAssumption
  <1>b. browser' = browser /\ browser[f] \in Browsers
    BY DEF FlowStep, Open, Check, Submit, Authenticate, ReadWarnings, Answer, SendTicket,
           Proceed, Grant, Leave, Return, Close, history, TypeOK
  <1>p. PICK b, old, new :
          b = browser[f] /\ old = Sessions(b) /\ new = Sessions(browser[f])'
    OBVIOUS
  <1>c. old \subseteq registry /\ old \subseteq TGTs
    BY <1>p DEF Sessions, TypeOK
  <1>d. /\ state[f] \in LoggedIn => old \subseteq {own[f], flowTGT[f]} /\ old \subseteq {own[f], cookie[b]}
        /\ state[f] \notin LoggedIn => old \subseteq {cookie[b]}
        /\ state[f] = "check" => old \subseteq {flowTGT[f]}
        /\ state[f] = "form" /\ old # {} =>
               old \subseteq {flowTGT[f]} /\ renew[f] /\ service[f] # NoService
        /\ state[f] = "submitted" => old = {}
        /\ state[f] \in {"messages", "grant"} => old \subseteq {TicketOf(f)}
    BY <1>p DEF SessionInv
  <1>e. SUFFICES
          /\ state'[f] \in LoggedIn => new \subseteq {own'[f], flowTGT'[f]} /\ new \subseteq {own'[f], cookie'[b]}
          /\ state'[f] \notin LoggedIn => new \subseteq {cookie'[b]}
          /\ state'[f] = "check" => new \subseteq {flowTGT'[f]}
          /\ state'[f] = "form" /\ new # {} =>
                 new \subseteq {flowTGT'[f]} /\ renew'[f] /\ service'[f] # NoService
          /\ state'[f] = "submitted" => new = {}
          /\ state'[f] \in {"messages", "grant"} => new \subseteq {TicketOf(f)'}
    BY <1>b, <1>p DEF SessionInv
  <1>m. missed \subseteq missed'
    BY MissedStay
  <1>s. registry' \subseteq registry /\ owner' = owner => new = (old \intersect registry') \ missed'
    BY <1>b, <1>m, <1>p, SessionsLeft
  <1>t. \A t \in TGTs, u \in Users :
            Create(f, t, u) => new \subseteq old \union {t} /\ (Miss(t) => new \subseteq old)
    BY <1>b, <1>m, <1>p, SessionCreated
  <1> USE DEF LoggedIn
  <1>1. CASE Open(f)
    BY <1>1, <1>c, <1>d, <1>p, <1>s DEF Open, NewFlow, Goto, TypeOK
  <1>2. CASE Check(f)
    BY <1>2, <1>c, <1>d, <1>p, <1>s DEF Check, Destroy, Miss, Goto, TypeOK, TicketOf, OwnInv
  <1>3. CASE Submit(f)
    BY <1>3, <1>c, <1>d, <1>p, <1>s DEF Submit, Renew, Destroy, Miss, Goto, View, TypeOK
  <1>4. CASE Authenticate(f)
    <2>1. CASE \E t \in TGTs : /\ Create(f, t, user[f])
                               /\ flowTGT' = [flowTGT EXCEPT ![f] = t]
                               /\ own' = [own EXCEPT ![f] = t]
                               /\ Goto(f, "created")
      BY <1>4, <2>1, <1>d, <1>t DEF Authenticate, Goto, TypeOK
    <2>2. CASE /\ \E s \in {"form", "failed"} : View(f, s)
               /\ UNCHANGED <<registry, owner, flowTGT, own>>
      BY <1>4, <2>2, <1>d, <1>s DEF Authenticate, View, Goto, TypeOK
    <2>3. CASE \E t \in TGTs : Create(f, t, user[f]) /\ Miss(t) /\ View(f, "form")
      <3>1. user[f] \in Users /\ state[f] = "submitted"
        BY <1>4 DEF Authenticate, TypeOK
      <3>2. new = {} /\ state'[f] = "form"
        BY <2>3, <3>1, <1>d, <1>t DEF View, Goto, TypeOK
      <3> QED
        BY <3>2
    <2> QED
      BY <1>4, <2>1, <2>2, <2>3 DEF Authenticate
  <1>5. CASE ReadWarnings(f)
    <2>1. flowTGT[f] = own[f] /\ TicketOf(f) = own[f]
      BY <1>5 DEF ReadWarnings, OwnInv, TicketOf
    <2> QED
      BY <1>5, <1>c, <1>d, <1>s, <2>1 DEF ReadWarnings, Miss, Goto, View, TypeOK
  <1>6. CASE Answer(f)
    BY <1>6, <1>d, <1>s DEF Answer, Goto, TypeOK
  <1>7. CASE SendTicket(f)
    <2>1. TicketOf(f) = own[f] /\ (state[f] = "show" => flowTGT[f] = own[f])
      BY <1>7 DEF SendTicket, OwnInv, TicketOf
    <2> QED
      BY <1>7, <1>c, <1>d, <1>p, <1>s, <2>1 DEF SendTicket, Destroy, Miss, Goto, View, AfterLogin, TypeOK, TicketOf
  <1>8. CASE Proceed(f)
    BY <1>8, <1>d, <1>s DEF Proceed, Goto, AfterLogin, TypeOK, TicketOf
  <1>9. CASE Grant(f)
    BY <1>9, <1>c, <1>d, <1>s DEF Grant, Miss, Goto, View, TypeOK
  <1>10. CASE Leave(f)
    BY <1>10, <1>d, <1>s DEF Leave, Goto, TypeOK
  <1>11. CASE Return(f)
    <2>1. /\ flowTGT' = [flowTGT EXCEPT ![f] = cookie[b]] /\ cookie' = cookie /\ state[f] = "away"
      BY <1>11, <1>p DEF Return, NewFlow
    <2>2. CASE \E u \in Users, t \in TGTs :
                 /\ Create(f, t, u)
                 /\ own' = [own EXCEPT ![f] = t]
                 /\ Goto(f, "send")
      BY <2>1, <2>2, <1>d, <1>t DEF Goto, TypeOK
    <2>3. CASE (Goto(f, "failed") \/ Goto(f, "check")) /\ UNCHANGED <<registry, owner>>
      BY <2>1, <2>3, <1>d, <1>s DEF Goto, TypeOK
    <2>4. CASE /\ Goto(f, "failed")
               /\ \E u \in Users, t \in TGTs : Create(f, t, u) /\ Miss(t)
      BY <2>1, <2>4, <1>d, <1>t DEF Goto, TypeOK
    <2> QED
      BY <1>11, <2>2, <2>3, <2>4 DEF Return
  <1>12. CASE Close(f)
    BY <1>12, <1>d, <1>s DEF Close, Goto, View, TypeOK
  <1> QED
    BY <1>1, <1>2, <1>3, <1>4, <1>5, <1>6, <1>7, <1>8, <1>9, <1>10, <1>11, <1>12 DEF FlowStep

LEMMA FlowKeepsAlone ==
    ASSUME TypeOK, OwnInv, OwnInv', AloneInv, NEW f \in Flows, FlowStep(f)
    PROVE  AloneInv'
  <1>1. browser' = browser
    BY DEF FlowStep, Open, Check, Submit, Authenticate, ReadWarnings, Answer, SendTicket,
           Proceed, Grant, Leave, Return, Close, history
  <1>2. SUFFICES ASSUME NEW g \in Flows, \A h \in Flows \ {g} : browser[h] # browser[g]
                 PROVE  SessionInv(g)'
    BY <1>1 DEF AloneInv
  <1>3. SessionInv(g)
    BY <1>2 DEF AloneInv
  <1>4. CASE g = f
    BY <1>3, <1>4, FlowKeepsSession
  <1>5. CASE g # f
    <2>1. browser[g] \in Browsers /\ browser[g] # browser[f]
      BY <1>2, <1>5 DEF TypeOK
    <2>2. PICK b : b = browser[g]
      OBVIOUS
    <2>3. Sessions(b)' \subseteq Sessions(b) /\ cookie'[b] = cookie[b]
      BY <2>1, <2>2, SessionsElsewhere
    <2>4. Sessions(browser[g])' \subseteq Sessions(browser[g]) /\ cookie'[browser[g]] = cookie[browser[g]]
      BY <1>1, <2>2, <2>3
    <2> QED
      BY <1>1, <1>3, <1>5, <2>4, OthersKept, SessionsEnd
  <1> QED
    BY <1>4, <1>5

\* Sessions that end outside the flows leave every flow's invariant alone.
LEMMA EndKeepsAlone ==
    ASSUME TypeOK, AloneInv, registry' \subseteq registry, missed \subseteq missed',
           UNCHANGED <<flowVars, owner, history>>,
           \A b \in Browsers : cookie'[b] = cookie[b] \/ cookie[b] \notin registry' \ missed'
    PROVE  AloneInv'
  <1>1. SUFFICES ASSUME NEW g \in Flows, \A h \in Flows \ {g} : browser[h] # browser[g]
                 PROVE  SessionInv(g)'
    BY DEF AloneInv, history
  <1>2. SessionInv(g)
    BY <1>1 DEF AloneInv
  <1>3. PICK b \in Browsers : b = browser[g]
    BY DEF TypeOK
  <1>4. Sessions(b)' = (Sessions(b) \intersect registry') \ missed'
    BY SessionsLeft
  <1>5. browser' = browser
    BY DEF history
  <1>6. /\ Sessions(browser[g])' \subseteq Sessions(browser[g])
        /\ \/ cookie'[browser[g]] = cookie[browser[g]]
           \/ cookie[browser[g]] \notin Sessions(browser[g])'
    BY <1>3, <1>4, <1>5
  <1>7. /\ state'[g] = state[g] /\ service'[g] = service[g] /\ renew'[g] = renew[g]
        /\ flowTGT'[g] = flowTGT[g] /\ reqTGT'[g] = reqTGT[g] /\ own'[g] = own[g]
    BY DEF flowVars
  <1> QED
    BY <1>2, <1>5, <1>6, <1>7, SessionsEnd

\* Nor does the end of an HTTP session, which stops flows at a view.
LEMMA SessionEndKeepsAlone ==
    ASSUME TypeOK, AloneInv, NEW b \in Browsers, SessionEnds(b)
    PROVE  AloneInv'
  <1>1. SUFFICES ASSUME NEW g \in Flows, \A h \in Flows \ {g} : browser[h] # browser[g]
                 PROVE  SessionInv(g)'
    BY DEF AloneInv, SessionEnds
  <1>2. SessionInv(g)
    BY <1>1 DEF AloneInv
  <1>3. PICK mine : mine = Sessions(browser[g]) /\ mine = Sessions(browser[g])'
    BY DEF SessionEnds, Sessions
  <1>4. \/ state'[g] = state[g]
        \/ state[g] \in {"form", "messages"} /\ state'[g] = "failed"
    BY DEF SessionEnds
  <1>5. UNCHANGED <<service, flowTGT, reqTGT, renew, own, cookie, browser>>
    BY DEF SessionEnds
  <1> QED
    BY <1>2, <1>3, <1>4, <1>5 DEF SessionInv, LoggedIn, TicketOf

-----------------------------------------------------------------------------
(* The invariant.                                                           *)

LEMMA InitInvariant == Init => IInv
  <1> SUFFICES ASSUME Init PROVE IInv
    OBVIOUS
  <1>1. TypeOK
    BY TypeOfNoOne DEF Init, TypeOK, States
  <1>2. OwnInv /\ WarningInv /\ SavedInv
    BY DEF Init, OwnInv, WarningInv, SavedInv, LoggedIn
  <1>3. \A b : Sessions(b) = {}
    BY DEF Init, Sessions
  <1>4. AloneInv
    BY <1>3 DEF Init, AloneInv, SessionInv, LoggedIn
  <1> QED
    BY <1>1, <1>2, <1>4 DEF IInv

LEMMA NextInvariant == IInv /\ [Next]_vars => IInv'
  <1> SUFFICES ASSUME IInv, [Next]_vars PROVE IInv'
    OBVIOUS
  <1>t. TypeOK'
    BY NextTyped DEF IInv
  <1>1. ASSUME NEW f \in Flows, FlowStep(f)
        PROVE  OwnInv' /\ WarningInv' /\ SavedInv' /\ AloneInv'
    BY <1>1, FlowKeepsOwn, FlowKeepsWarning, FlowKeepsSaved, FlowKeepsAlone DEF IInv
  <1>2. ASSUME /\ UNCHANGED <<flowVars, saved, owner, hasWarningMessages, history>>
               /\ registry' \subseteq registry /\ missed \subseteq missed'
               /\ \A b \in Browsers : cookie'[b] = cookie[b] \/ cookie[b] \notin registry' \ missed'
        PROVE  OwnInv' /\ WarningInv' /\ SavedInv' /\ AloneInv'
    <2>1. OwnInv' /\ WarningInv' /\ SavedInv'
      BY <1>2 DEF IInv, OwnInv, WarningInv, SavedInv, TicketOf, flowVars, history
    <2>2. AloneInv'
      BY <1>2, EndKeepsAlone DEF IInv
    <2> QED
      BY <2>1, <2>2
  <1>3. ASSUME NEW b \in Browsers, Logout(b)
        PROVE  OwnInv' /\ WarningInv' /\ SavedInv' /\ AloneInv'
    BY <1>2, <1>3 DEF Logout, Destroy, Miss, IInv, TypeOK
  <1>s. ASSUME NEW b \in Browsers, SessionEnds(b)
        PROVE  OwnInv' /\ WarningInv' /\ SavedInv' /\ AloneInv'
    <2>1. OwnInv' /\ WarningInv'
      BY <1>s DEF IInv, OwnInv, WarningInv, LoggedIn, TicketOf, SessionEnds
    <2> QED
      BY <1>s, <2>1, SessionEndKeepsSaved, SessionEndKeepsAlone DEF IInv
  <1>4. ASSUME NEW t \in TGTs, Expire(t)
        PROVE  OwnInv' /\ WarningInv' /\ SavedInv' /\ AloneInv'
    BY <1>2, <1>4 DEF Expire
  <1>5. ASSUME UNCHANGED vars
        PROVE  OwnInv' /\ WarningInv' /\ SavedInv' /\ AloneInv'
    BY <1>2, <1>5 DEF vars
  <1> QED
    BY <1>t, <1>1, <1>3, <1>s, <1>4, <1>5 DEF IInv, Next

\* Flows, cookies, sessions and the shared field agree in every state
\* (login-webflow.xml).
THEOREM FlowsInductive == Spec => []IInv
  BY InitInvariant, NextInvariant, PTL DEF Spec

\* No flow goes on as logged in without a TGT (createTicketGrantingTicket).
THEOREM TypeCorrect == Spec => []TypeOK
  <1>1. IInv => TypeOK
    BY DEF IInv
  <1> QED
    BY <1>1, FlowsInductive, PTL

\* Service tickets are asked for on the TGT of the flow's own login, whichever
\* scope has it (generateServiceTicketAction).
THEOREM GrantsAreOwn == Spec => []GrantsOnOwnLogin
  <1>1. IInv => GrantsOnOwnLogin
    BY DEF IInv, OwnInv, GrantsOnOwnLogin, LoggedIn
  <1> QED
    BY <1>1, FlowsInductive, PTL

\* In a browser with one tab no login leaves the session before it behind, but for
\* TGTs a request could not read or threw on (sendTicketGrantingTicketAction).
THEOREM NoSessionLeftBehind == Spec => []NoTGTLeftBehind
  <1>1. IInv => NoTGTLeftBehind
    BY DEF IInv, AloneInv, SessionInv, Sessions, NoTGTLeftBehind, LoggedIn
  <1> QED
    BY <1>1, FlowsInductive, PTL

\* The field all logins share never hides a user's own warnings (submit).
THEOREM WarningsAreShown == Spec => WarnedUserSeesMessages
  <1>1. ASSUME IInv, Next, NEW f \in Flows, state[f] = "answer", state'[f] = "send"
        PROVE  ~warnings[f]
    <2>1. SUFFICES ASSUME hasWarningMessages
                   PROVE  FALSE
      BY <1>1 DEF IInv, WarningInv
    <2>2. ASSUME NEW g \in Flows, FlowStep(g)
          PROVE  FALSE
      <3>1. g = f
        BY <1>1, <2>2, OthersKept DEF IInv
      <3>2. Answer(f)
        BY <1>1, <2>2, <3>1 DEF FlowStep, Open, Check, Submit, Authenticate, ReadWarnings, SendTicket,
                              Proceed, Grant, Leave, Return, Close
      <3> QED
        BY <1>1, <2>1, <3>2 DEF Answer, Goto, IInv, TypeOK
    <2>3. state' # state
      BY <1>1
    <2> QED
      BY <1>1, <2>2, <2>3 DEF Next, Logout, SessionEnds, Expire, flowVars
  <1>2. IInv /\ [Next]_vars =>
            [\A f \in Flows : state[f] = "answer" /\ state'[f] = "send" => ~warnings[f]]_vars
    BY <1>1
  <1> QED
    BY <1>2, FlowsInductive, PTL DEF Spec, WarnedUserSeesMessages

\* A federated login that no other tab has overtaken returns to its service, or,
\* if the HTTP session has ended, to none (ClientAction).
THEOREM ReturnsHome == Spec => ReturnsToItsService
  <1>1. ASSUME IInv, Next, NEW f \in Flows, state[f] = "away", state'[f] # "away",
               asked[f] # NoService, ~overtaken[f]
        PROVE  service'[f] = asked[f] \/ (forgotten[f] /\ service'[f] = NoService)
    <2>1. ASSUME NEW g \in Flows, FlowStep(g)
          PROVE  service'[f] = asked[f] \/ (forgotten[f] /\ service'[f] = NoService)
      <3>1. g = f
        BY <1>1, <2>1, OthersKept DEF IInv
      <3>2. Return(f)
        BY <1>1, <2>1, <3>1 DEF FlowStep, Open, Check, Submit, Authenticate, ReadWarnings, Answer,
                              SendTicket, Proceed, Grant, Leave, Close
      <3>3. service'[f] = saved[browser[f]]
        BY <1>1, <3>2 DEF Return, IInv, TypeOK
      <3> QED
        BY <1>1, <3>3 DEF IInv, SavedInv
    <2>2. \A b \in Browsers : ~SessionEnds(b)
      BY <1>1 DEF SessionEnds
    <2>3. state' # state
      BY <1>1
    <2> QED
      BY <1>1, <2>1, <2>2, <2>3 DEF Next, Logout, Expire, flowVars
  <1>2. IInv /\ [Next]_vars =>
            [\A f \in Flows :
                 /\ state[f] = "away" /\ state'[f] # "away"
                 /\ asked[f] # NoService
                 /\ ~overtaken[f]
                 => service'[f] = asked[f] \/ (forgotten[f] /\ service'[f] = NoService)]_vars
    BY <1>1
  <1> QED
    BY <1>2, FlowsInductive, PTL DEF Spec, ReturnsToItsService
=============================================================================
