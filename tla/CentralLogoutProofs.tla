------------------------- MODULE CentralLogoutProofs -------------------------
(***************************************************************************)
(* Proofs about CentralLogout for any number of threads, TGTs and service  *)
(* tickets: type correctness, that no service is forgotten, that a logout  *)
(* is final, and that logouts implement ServiceNotices, whatever cache     *)
(* writes fail.                                                            *)
(***************************************************************************)
EXTENDS CentralLogout, TLAPS

\* A job that a thread may be given at a label.
Fits(j, label) ==
    /\ label \in Pcs
    /\ j \in Jobs
    /\ label \notin {"idle", "next"} => j.tgt \in Tgts
    /\ label \in {"grant", "updateGrant", "send"} => j.token \in Tokens

ThreadsOK ==
    /\ pc \in [Threads -> Pcs]
    /\ job \in [Threads -> Jobs]
    /\ \A th \in Threads : Fits(job[th], pc[th])

\* Giving a thread a fitting job keeps the threads well typed, and touches no
\* other thread.
LEMMA WorkTyped ==
    ASSUME ThreadsOK, NEW th \in Threads, NEW j, NEW label, Fits(j, label), Work(th, j, label)
    PROVE  ThreadsOK'
  BY DEF ThreadsOK, Fits, Work, Goto

\* No job is a job.
LEMMA NoJobTyped == NoJob \in Jobs
  BY LogoutConstants DEF NoJob, Jobs

\* A cache write, through or not, keeps the threads well typed, if the job fits
\* the label that follows too; so does one that ends the request.
LEMMA WriteTyped ==
    ASSUME ThreadsOK, NEW th \in Threads, NEW label,
           pc[th] \notin {"idle", "next"},
           label \in Pcs \ {"grant", "updateGrant", "send"},
           Through(th, label) \/ Conflict(th, label) \/ Finish(th)
    PROVE  ThreadsOK'
  <1>1. Fits([job[th] EXCEPT !.tries = 0], label)
    BY LogoutConstants DEF ThreadsOK, Fits, Jobs
  <1>2. CASE Work(th, [job[th] EXCEPT !.tries = 0], label)
    BY <1>1, <1>2, WorkTyped
  <1>3. CASE /\ job[th].tries + 1 < CmeRetryCnt
             /\ job' = [job EXCEPT ![th].tries = @ + 1]
             /\ UNCHANGED pc
    <2>1. job[th] \in Jobs /\ job[th].tries + 1 \in 0 .. CmeRetryCnt - 1
      BY <1>3, LogoutConstants DEF ThreadsOK, Jobs
    <2>2. [job[th] EXCEPT !.tries = @ + 1] \in Jobs
      BY <2>1 DEF Jobs
    <2>3. job' = [job EXCEPT ![th] = [job[th] EXCEPT !.tries = @ + 1]]
      BY <1>3
    <2> QED
      BY <1>3, <2>1, <2>2, <2>3 DEF ThreadsOK, Fits, Jobs
  <1>4. CASE Finish(th)
    BY <1>4, NoJobTyped, WorkTyped DEF Finish, Fits, Pcs
  <1> QED
    BY <1>2, <1>3, <1>4 DEF Through, Conflict

\* Steps of a thread keep the threads well typed.
LEMMA StepThreads ==
    ASSUME TypeOK, ThreadsOK, NEW th \in Threads, Step(th)
    PROVE  ThreadsOK'
  <1> USE DEF Pcs, LogoutPcs
  <1>1. pc[th] \in Pcs /\ job[th] \in Jobs /\ Fits(job[th], pc[th])
    BY DEF ThreadsOK
  <1>2. CASE AddTicket(th) \/ GrantUpdate(th)
    BY <1>2, WriteTyped DEF AddTicket, GrantUpdate, PutTicket
  <1>3. CASE MarkUpdate(th) \/ DeleteTicket(th)
    BY <1>3, WriteTyped DEF MarkUpdate, DeleteTicket, PutTicket
  <1>4. CASE GrantPut(th) \/ ClearServices(th) \/ MarkTicketExpired(th) \/ ServicesDone(th)
    BY <1>1, <1>4 DEF GrantPut, ClearServices, MarkTicketExpired, ServicesDone, Goto, ThreadsOK, Fits
  <1>5. CASE NextTicket(th)
    <2>1. CASE Finish(th)
      BY <2>1, NoJobTyped, WorkTyped DEF Finish, Fits
    <2>2. ASSUME NEW t \in job[th].todo
          PROVE  LET rest == [NoJob EXCEPT !.todo = job[th].todo \ {t}]
                 IN  Fits(rest, "next") /\ Fits([rest EXCEPT !.tgt = t], "retrieve")
      BY <1>1, <2>2, NoJobTyped DEF Fits, Jobs
    <2> QED
      BY <1>5, <2>1, <2>2, WorkTyped DEF NextTicket
  <1>6. CASE RetrieveServices(th)
    <2>1. Fits([job[th] EXCEPT !.taken = services[job[th].tgt]], "clear")
      BY <1>1, <1>6 DEF RetrieveServices, TypeOK, Fits, Jobs
    <2> QED
      BY <1>6, <2>1, WorkTyped DEF RetrieveServices
  <1>7. CASE \E k \in Tokens : NextService(th, k)
    <2>1. PICK k \in Tokens : NextService(th, k)
      BY <1>7
    <2>2. /\ Fits([job[th] EXCEPT !.taken = @ \ {k}], "notify")
          /\ Fits([[job[th] EXCEPT !.taken = @ \ {k}] EXCEPT !.token = k], "send")
      BY <1>1, <2>1 DEF NextService, Fits, Jobs
    <2> QED
      BY <2>1, <2>2, WorkTyped DEF NextService
  <1>8. CASE SendMessage(th)
    <2>1. Fits([job[th] EXCEPT !.token = NoToken], "notify")
      BY <1>1, <1>8 DEF SendMessage, Fits, Jobs
    <2> QED
      BY <1>8, <2>1, WorkTyped DEF SendMessage
  <1> QED
    BY <1>2, <1>3, <1>4, <1>5, <1>6, <1>7, <1>8 DEF Step

\* So do requests that begin.
LEMMA RequestThreads ==
    ASSUME TypeOK, ThreadsOK, NEW th \in Threads,
           \/ \E t \in Tgts : Login(th, t) \/ Logout(th, t)
           \/ \E k \in Tokens : Grant(th, k)
           \/ \E c \in ClientTokens : ClientLogout(th, c)
    PROVE  ThreadsOK'
  <1>1. \A t \in Tgts : /\ Fits([NoJob EXCEPT !.tgt = t], "add")
                        /\ Fits([NoJob EXCEPT !.todo = {t}], "next")
    BY NoJobTyped DEF Fits, Jobs, Pcs
  <1>2. \A k \in Tokens : Fits([NoJob EXCEPT !.tgt = TicketOf[k], !.token = k], "grant")
    BY NoJobTyped, LogoutConstants DEF Fits, Jobs, Pcs
  <1>3. \A ts \in SUBSET Tgts : Fits([NoJob EXCEPT !.todo = ts], "next")
    BY NoJobTyped DEF Fits, Jobs, Pcs
  <1>4. \A c \in ClientTokens : {t \in stored : ClientTokenOf[t] = c} \in SUBSET Tgts
    BY DEF TypeOK
  <1> QED
    BY <1>1, <1>2, <1>3, <1>4, WorkTyped DEF Login, Logout, Grant, ClientLogout

\* The other variables stay well typed.
LEMMA StateTyped ==
    ASSUME TypeOK, ThreadsOK, [Next]_vars
    PROVE  /\ stored' \subseteq Tgts
           /\ expired' \subseteq Tgts
           /\ services' \in [Tgts -> SUBSET Tokens]
           /\ loggedOutAlready' \subseteq Tokens
           /\ sent' \in [Tokens -> Nat]
           /\ phase' \in [Tgts -> {"fresh", "issued", "destroyed"}]
           /\ granted' \subseteq Tokens
           /\ late' \subseteq granted'
           /\ lost' \subseteq Tokens
  <1> USE DEF TypeOK, tickets, history
  <1>0. \A th \in Threads : Fits(job[th], pc[th])
    BY DEF ThreadsOK
  <1>1. ASSUME NEW th \in Threads, Step(th)
        PROVE  /\ stored' \subseteq Tgts
               /\ expired' \subseteq Tgts
               /\ services' \in [Tgts -> SUBSET Tokens]
               /\ loggedOutAlready' \subseteq Tokens
               /\ sent' \in [Tokens -> Nat]
               /\ phase' \in [Tgts -> {"fresh", "issued", "destroyed"}]
               /\ granted' \subseteq Tokens
               /\ late' \subseteq granted'
               /\ lost' \subseteq Tokens
    <2>1. CASE AddTicket(th) \/ GrantUpdate(th) \/ MarkUpdate(th) \/ DeleteTicket(th)
      BY <1>0, <2>1 DEF AddTicket, GrantUpdate, MarkUpdate, DeleteTicket, PutTicket, Fits, Jobs
    <2>2. CASE GrantPut(th)
      BY <1>0, <2>2 DEF GrantPut, Fits
    <2>3. CASE NextTicket(th) \/ RetrieveServices(th) \/ ServicesDone(th) \/ \E k \in Tokens : NextService(th, k)
      BY <2>3 DEF NextTicket, RetrieveServices, ServicesDone, NextService
    <2>4. CASE ClearServices(th) \/ MarkTicketExpired(th)
      BY <1>0, <2>4 DEF ClearServices, MarkTicketExpired, Fits
    <2>5. CASE SendMessage(th)
      BY <1>0, <2>5 DEF SendMessage, Fits
    <2> QED
      BY <1>1, <2>1, <2>2, <2>3, <2>4, <2>5 DEF Step
  <1>2. CASE UNCHANGED vars
    BY <1>2 DEF vars
  <1>3. CASE \E th \in Threads, t \in Tgts : Login(th, t) \/ Logout(th, t)
    BY <1>3 DEF Login, Logout
  <1>4. CASE \/ \E th \in Threads, k \in Tokens : Grant(th, k)
             \/ \E th \in Threads, c \in ClientTokens : ClientLogout(th, c)
    BY <1>4 DEF Grant, ClientLogout
  <1> QED
    BY <1>1, <1>2, <1>3, <1>4 DEF Next

\* Every reachable state is well typed: no call of performLogout or of the
\* registry is made without a TGT, and no write is tried too often.
THEOREM TypeCorrect == Spec => []TypeOK
  <1>1. Init => TypeOK /\ ThreadsOK
    BY NoJobTyped DEF Init, TypeOK, ThreadsOK, Fits, Pcs
  <1>2. TypeOK /\ ThreadsOK /\ [Next]_vars => TypeOK' /\ ThreadsOK'
    <2> SUFFICES ASSUME TypeOK, ThreadsOK, [Next]_vars
                 PROVE  TypeOK' /\ ThreadsOK'
      OBVIOUS
    <2>1. ThreadsOK'
      <3>1. CASE UNCHANGED vars
        BY <3>1 DEF vars, threads, ThreadsOK
      <3> QED
        BY <3>1, StepThreads, RequestThreads DEF Next
    <2> QED
      BY <2>1, StateTyped DEF TypeOK, ThreadsOK, Fits
  <1> QED
    BY <1>1, <1>2, PTL DEF Spec

-----------------------------------------------------------------------------
(* What a step does to the threads.                                        *)

\* A thread's step leaves the other threads where they are.
LEMMA OthersStay ==
    ASSUME TypeOK, NEW th \in Threads,
           \/ Step(th)
           \/ \E t \in Tgts : Login(th, t) \/ Logout(th, t)
           \/ \E k \in Tokens : Grant(th, k)
           \/ \E c \in ClientTokens : ClientLogout(th, c)
    PROVE  \A u \in Threads \ {th} : pc'[u] = pc[u] /\ job'[u] = job[u]
  <1> USE DEF TypeOK, Work, Goto
  <1>1. CASE AddTicket(th) \/ GrantUpdate(th) \/ MarkUpdate(th) \/ DeleteTicket(th)
    BY <1>1 DEF AddTicket, GrantUpdate, MarkUpdate, DeleteTicket, PutTicket, Through, Conflict, Finish
  <1>2. CASE GrantPut(th) \/ ClearServices(th) \/ MarkTicketExpired(th) \/ ServicesDone(th)
    BY <1>2 DEF GrantPut, ClearServices, MarkTicketExpired, ServicesDone
  <1>3. CASE NextTicket(th) \/ RetrieveServices(th) \/ SendMessage(th) \/ \E k \in Tokens : NextService(th, k)
    BY <1>3 DEF NextTicket, RetrieveServices, SendMessage, NextService, Finish
  <1>4. CASE \/ \E t \in Tgts : Login(th, t) \/ Logout(th, t)
             \/ \E k \in Tokens : Grant(th, k)
             \/ \E c \in ClientTokens : ClientLogout(th, c)
    BY <1>4 DEF Login, Logout, Grant, ClientLogout
  <1> QED
    BY <1>1, <1>2, <1>3, <1>4 DEF Step

\* A cache write moves a thread on or leaves it there, with the same work, or
\* ends its request.
LEMMA WriteMoves ==
    ASSUME TypeOK, NEW th \in Threads, NEW label,
           Through(th, label) \/ Conflict(th, label) \/ Finish(th)
    PROVE  \/ /\ pc'[th] \in {pc[th], label}
              /\ job'[th].tgt = job[th].tgt
              /\ job'[th].taken = job[th].taken
           \/ Finish(th) /\ pc'[th] = "idle" /\ job'[th].taken = {}
  BY DEF TypeOK, Through, Conflict, Finish, Work, Goto, Jobs, NoJob

\* The writes of a login and of a grant: the thread held nothing, and does not now.
LEMMA PutMoves ==
    ASSUME TypeOK, NEW th \in Threads, AddTicket(th) \/ GrantUpdate(th)
    PROVE  /\ pc[th] \in {"add", "updateGrant"}
           /\ pc'[th] \in {pc[th], "next", "idle"}
           /\ job'[th].taken \in {job[th].taken, {}}
           /\ UNCHANGED <<expired, services, loggedOutAlready, sent, phase, granted, late, lost>>
  BY WriteMoves DEF AddTicket, GrantUpdate, PutTicket, history

\* The write of a logout: if it ends the request, what the thread held is lost.
LEMMA MarkMoves ==
    ASSUME TypeOK, NEW th \in Threads, MarkUpdate(th)
    PROVE  /\ pc[th] = "updateMark"
           /\ UNCHANGED <<expired, services, loggedOutAlready, sent, phase, granted, late>>
           /\ \/ /\ pc'[th] \in {"updateMark", "notify"}
                 /\ job'[th].tgt = job[th].tgt
                 /\ job'[th].taken = job[th].taken
                 /\ lost' = lost
              \/ /\ pc'[th] = "idle"
                 /\ job'[th].taken = {}
                 /\ lost' = lost \union (job[th].taken \ Handled)
  <1>1. /\ pc[th] = "updateMark"
        /\ UNCHANGED <<expired, services, loggedOutAlready, sent, phase, granted, late>>
        /\ Through(th, "notify") \/ Conflict(th, "notify") \/ Finish(th)
        /\ lost' = IF pc'[th] = "idle" THEN lost \union (job[th].taken \ Handled) ELSE lost
    BY DEF MarkUpdate, PutTicket, Handled
  <1> QED
    BY <1>1, WriteMoves

\* The deletion goes on after it, or is tried again.
LEMMA DeleteMoves ==
    ASSUME TypeOK, NEW th \in Threads, DeleteTicket(th)
    PROVE  /\ pc[th] = "delete" /\ pc'[th] \in {"delete", "next"}
           /\ job'[th].tgt = job[th].tgt
           /\ job'[th].taken = job[th].taken
           /\ phase' = [phase EXCEPT ![job[th].tgt] = "destroyed"]
           /\ UNCHANGED <<expired, services, loggedOutAlready, sent, granted, late, lost>>
  BY DEF DeleteTicket, TypeOK, Through, Conflict, Work, Goto, Jobs

\* A thread that begins a request, or looks for its next TGT, holds nothing.
LEMMA BeginMoves ==
    ASSUME TypeOK, NEW th \in Threads,
           \/ NextTicket(th)
           \/ \E t \in Tgts : Login(th, t) \/ Logout(th, t)
           \/ \E k \in Tokens : Grant(th, k)
           \/ \E c \in ClientTokens : ClientLogout(th, c)
    PROVE  /\ pc'[th] \in {"idle", "next", "add", "grant", "retrieve"}
           /\ job'[th].taken = {}
           /\ pc'[th] = "grant" =>
                /\ pc[th] = "idle"
                /\ TicketOf[job'[th].token] = job'[th].tgt
                /\ job'[th].tgt \in stored \ expired
                /\ job'[th].token \in Tokens \ granted
                /\ \A u \in Threads : pc[u] = "grant" => job[u].token # job'[th].token
           /\ UNCHANGED <<tickets, loggedOutAlready, sent, granted, late, lost>>
  <1>1. CASE NextTicket(th)
    <2>1. UNCHANGED <<tickets, loggedOutAlready, sent, granted, late, lost>>
      BY <1>1 DEF NextTicket, history
    <2>2. CASE Finish(th)
      BY <2>1, <2>2 DEF Finish, Work, Goto, NoJob, TypeOK
    <2>3. ASSUME NEW t \in job[th].todo,
                 \/ Work(th, [NoJob EXCEPT !.todo = job[th].todo \ {t}], "next")
                 \/ Work(th, [[NoJob EXCEPT !.todo = job[th].todo \ {t}] EXCEPT !.tgt = t], "retrieve")
          PROVE  job'[th].taken = {} /\ pc'[th] \in {"next", "retrieve"}
      BY <2>3 DEF Work, Goto, NoJob, TypeOK
    <2> QED
      BY <1>1, <2>1, <2>2, <2>3 DEF NextTicket
  <1>2. CASE \E t \in Tgts : Login(th, t) \/ Logout(th, t)
    BY <1>2 DEF Login, Logout, Work, Goto, NoJob, TypeOK, history, tickets
  <1>3. CASE \E k \in Tokens : Grant(th, k)
    <2>1. PICK k \in Tokens : Grant(th, k)
      BY <1>3
    <2>2. /\ job'[th] = [NoJob EXCEPT !.tgt = TicketOf[k], !.token = k]
          /\ pc'[th] = "grant"
      BY <2>1 DEF Grant, Work, Goto, TypeOK
    <2>3. job'[th].tgt = TicketOf[k] /\ job'[th].token = k /\ job'[th].taken = {}
      BY <2>2 DEF NoJob
    <2> QED
      BY <2>1, <2>2, <2>3 DEF Grant, history, tickets
  <1>4. CASE \E c \in ClientTokens : ClientLogout(th, c)
    BY <1>4 DEF ClientLogout, Work, Goto, NoJob, TypeOK, history, tickets
  <1> QED
    BY <1>1, <1>2, <1>3, <1>4

\* A turn of the loop takes one service from those at hand.
LEMMA NextServiceMoves ==
    ASSUME TypeOK, NEW th \in Threads, NEW k \in Tokens, NextService(th, k)
    PROVE  /\ pc[th] = "notify" /\ k \in job[th].taken
           /\ job'[th].taken = job[th].taken \ {k}
           /\ job'[th].tgt = job[th].tgt
           /\ \/ pc'[th] = "notify" /\ k \in Handled
              \/ pc'[th] = "send" /\ job'[th].token = k /\ k \notin Handled
  <1> DEFINE rest == [job[th] EXCEPT !.taken = @ \ {k}]
  <1>1. /\ pc[th] = "notify" /\ k \in job[th].taken
        /\ \/ k \in Handled /\ Work(th, rest, "notify")
           \/ k \notin Handled /\ Work(th, [rest EXCEPT !.token = k], "send")
    BY DEF NextService, Handled
  <1>2. /\ rest.taken = job[th].taken \ {k} /\ rest.tgt = job[th].tgt
        /\ [rest EXCEPT !.token = k].taken = job[th].taken \ {k}
        /\ [rest EXCEPT !.token = k].tgt = job[th].tgt
        /\ [rest EXCEPT !.token = k].token = k
    BY DEF TypeOK, Jobs
  <1> QED
    BY <1>1, <1>2 DEF Work, Goto, TypeOK

\* The steps of a logout that keep the thread's TGT.
LEMMA LogoutMoves ==
    ASSUME TypeOK, NEW th \in Threads
    PROVE  /\ RetrieveServices(th) => /\ pc'[th] = "clear"
                                      /\ job'[th].tgt = job[th].tgt
                                      /\ job'[th].taken = services[job[th].tgt]
           /\ SendMessage(th) => /\ pc'[th] = "notify"
                                 /\ job'[th].tgt = job[th].tgt
                                 /\ job'[th].taken = job[th].taken
           /\ ClearServices(th) => pc'[th] = "mark" /\ job' = job
           /\ MarkTicketExpired(th) => pc'[th] = "updateMark" /\ job' = job
           /\ ServicesDone(th) => pc'[th] = "delete" /\ job' = job
           /\ GrantPut(th) => pc'[th] = "updateGrant" /\ job' = job
  BY DEF RetrieveServices, SendMessage, ClearServices, MarkTicketExpired, ServicesDone, GrantPut,
         Work, Goto, TypeOK, Jobs

-----------------------------------------------------------------------------
(* A logout is final.                                                      *)

LEMMA MarkedPreserved ==
    ASSUME TypeOK, MarkedInv, [Next]_vars
    PROVE  MarkedInv'
  <1> USE DEF MarkedInv
  <1>1. CASE UNCHANGED vars
    BY <1>1 DEF vars, tickets, threads, history
  <1>2. ASSUME NEW th \in Threads,
               \/ NextTicket(th)
               \/ \E t \in Tgts : Login(th, t) \/ Logout(th, t)
               \/ \E k \in Tokens : Grant(th, k)
               \/ \E c \in ClientTokens : ClientLogout(th, c)
        PROVE  MarkedInv'
    <2>1. \A t \in Tgts : phase'[t] = "destroyed" => phase[t] = "destroyed"
      BY <1>2 DEF NextTicket, Login, Logout, Grant, ClientLogout, history, TypeOK
    <2> QED
      BY <1>2, <2>1, BeginMoves, OthersStay DEF Step, tickets
  <1>3. ASSUME NEW th \in Threads, Step(th), ~NextTicket(th)
        PROVE  MarkedInv'
    <2>0. \A u \in Threads \ {th} : pc'[u] = pc[u] /\ job'[u] = job[u]
      BY <1>3, OthersStay
    <2>1. CASE AddTicket(th) \/ GrantUpdate(th)
      BY <2>0, <2>1, PutMoves
    <2>2. CASE MarkUpdate(th)
      BY <2>0, <2>2, MarkMoves
    <2>3. CASE DeleteTicket(th)
      BY <2>0, <2>3, DeleteMoves DEF TypeOK
    <2>4. CASE GrantPut(th) \/ ClearServices(th) \/ ServicesDone(th) \/ RetrieveServices(th) \/ SendMessage(th)
      BY <2>0, <2>4, LogoutMoves
      DEF GrantPut, ClearServices, ServicesDone, RetrieveServices, SendMessage, history, tickets
    <2>5. CASE MarkTicketExpired(th)
      BY <2>0, <2>5, LogoutMoves DEF MarkTicketExpired, history
    <2>6. CASE \E k \in Tokens : NextService(th, k)
      <3>1. PICK k \in Tokens : NextService(th, k)
        BY <2>6
      <3>2. UNCHANGED <<phase, expired>>
        BY <3>1 DEF NextService, history, tickets
      <3> QED
        BY <2>0, <3>1, <3>2, NextServiceMoves
    <2> QED
      BY <1>3, <2>1, <2>2, <2>3, <2>4, <2>5, <2>6 DEF Step
  <1> QED
    BY <1>1, <1>2, <1>3 DEF Next

-----------------------------------------------------------------------------
(* No service is forgotten.                                                *)

LEMMA TakenPreserved ==
    ASSUME TypeOK, TakenInv, [Next]_vars
    PROVE  TakenInv'
  <1> USE DEF TakenInv
  <1>1. CASE UNCHANGED vars
    BY <1>1 DEF vars, tickets, threads, history
  <1>2. ASSUME NEW th \in Threads,
               \/ NextTicket(th)
               \/ \E t \in Tgts : Login(th, t) \/ Logout(th, t)
               \/ \E k \in Tokens : Grant(th, k)
               \/ \E c \in ClientTokens : ClientLogout(th, c)
        PROVE  TakenInv'
    BY <1>2, BeginMoves, OthersStay DEF Step, tickets
  <1>3. ASSUME NEW th \in Threads, Step(th), ~NextTicket(th)
        PROVE  TakenInv'
    <2>0. \A u \in Threads \ {th} : pc'[u] = pc[u] /\ job'[u] = job[u]
      BY <1>3, OthersStay
    <2>1. CASE AddTicket(th) \/ GrantUpdate(th) \/ DeleteTicket(th)
      <3>1. /\ UNCHANGED <<services, late>>
            /\ pc[th] \in {"add", "updateGrant", "delete"}
            /\ pc'[th] \in {pc[th], "next", "idle"}
            /\ job'[th].taken \in {job[th].taken, {}}
        BY <2>1, PutMoves, DeleteMoves
      <3> QED
        BY <2>0, <3>1
    <2>6. CASE MarkUpdate(th)
      BY <2>0, <2>6, MarkMoves
    <2>2. CASE GrantPut(th)
      <3> DEFINE g == job[th].tgt
                 k == job[th].token
      <3>1. /\ pc[th] = "grant" /\ g \in Tgts /\ k \in Tokens /\ TicketOf[k] = g
            /\ services' = [services EXCEPT ![g] = @ \union {k}]
            /\ late' = IF UnderLogout(g) \/ phase[g] = "destroyed" THEN late \union {k} ELSE late
            /\ pc'[th] = "updateGrant" /\ job' = job
        BY <2>2, LogoutMoves DEF GrantPut, TypeOK
      <3>2. \A t \in Tgts : \A x \in services'[t] : TicketOf[x] = t
        BY <3>1 DEF TypeOK
      <3>3. \A u \in Threads \ {th} : pc[u] = "clear" => services'[job[u].tgt] \ late' \subseteq job[u].taken
        <4> SUFFICES ASSUME NEW u \in Threads \ {th}, pc[u] = "clear"
                     PROVE  services'[job[u].tgt] \ late' \subseteq job[u].taken
          OBVIOUS
        <4>1. services[job[u].tgt] \ late \subseteq job[u].taken /\ job[u].tgt \in Tgts
          BY DEF TypeOK
        <4>2. CASE job[u].tgt = g
          BY <3>1, <4>1, <4>2 DEF UnderLogout, LogoutPcs, TypeOK
        <4>3. CASE job[u].tgt # g
          BY <3>1, <4>1, <4>3 DEF TypeOK
        <4> QED
          BY <4>2, <4>3
      <3> QED
        BY <2>0, <3>1, <3>2, <3>3
    <2>3. CASE ClearServices(th)
      <3>1. /\ pc[th] = "clear" /\ pc'[th] = "mark" /\ job' = job /\ UNCHANGED late
            /\ services' = [services EXCEPT ![job[th].tgt] = {}]
            /\ \A t \in Tgts : services'[t] \subseteq services[t]
        BY <2>3, LogoutMoves DEF ClearServices, history, TypeOK
      <3> QED
        BY <2>0, <3>1 DEF TypeOK
    <2>4. CASE MarkTicketExpired(th) \/ ServicesDone(th) \/ RetrieveServices(th) \/ SendMessage(th)
      <3>1. UNCHANGED <<services, late>>
        BY <2>4 DEF MarkTicketExpired, ServicesDone, RetrieveServices, SendMessage, history, tickets
      <3>2. CASE MarkTicketExpired(th) \/ SendMessage(th)
        BY <2>0, <3>1, <3>2, LogoutMoves
      <3>3. CASE ServicesDone(th)
        BY <2>0, <3>1, <3>3, LogoutMoves DEF ServicesDone
      <3>4. CASE RetrieveServices(th)
        BY <2>0, <3>1, <3>4, LogoutMoves
      <3> QED
        BY <2>4, <3>2, <3>3, <3>4
    <2>5. CASE \E k \in Tokens : NextService(th, k)
      <3>1. PICK k \in Tokens : NextService(th, k)
        BY <2>5
      <3>2. UNCHANGED <<services, late>>
        BY <3>1 DEF NextService, history, tickets
      <3> QED
        BY <2>0, <3>1, <3>2, NextServiceMoves
    <2> QED
      BY <1>3, <2>1, <2>2, <2>3, <2>4, <2>5, <2>6 DEF Step
  <1> QED
    BY <1>1, <1>2, <1>3 DEF Next

\* Grants are asked for by a request that begins, and put by one that asked.
LEMMA LetInMoves ==
    ASSUME TypeOK, TakenInv, [Next]_vars, NEW k \in Tokens,
           (k \in granted \/ Asked(k))', ~(k \in granted \/ Asked(k))
    PROVE  TicketOf[k] \in stored \ expired
  <1>1. CASE UNCHANGED vars
    BY <1>1 DEF vars, threads, history, Asked
  <1>2. ASSUME NEW th \in Threads,
               \/ NextTicket(th)
               \/ \E t \in Tgts : Login(th, t) \/ Logout(th, t)
               \/ \E c \in Tokens : Grant(th, c)
               \/ \E c \in ClientTokens : ClientLogout(th, c)
        PROVE  TicketOf[k] \in stored \ expired
    <2>1. \A u \in Threads \ {th} : pc'[u] = pc[u] /\ job'[u] = job[u]
      BY <1>2, OthersStay DEF Step
    <2>2. k \notin granted' /\ pc'[th] = "grant" /\ job'[th].token = k
      BY <1>2, <2>1, BeginMoves DEF Asked
    <2> QED
      BY <1>2, <2>2, BeginMoves
  <1>3. ASSUME NEW th \in Threads, Step(th), ~NextTicket(th)
        PROVE  FALSE
    <2>1. \A u \in Threads \ {th} : pc'[u] = pc[u] /\ job'[u] = job[u]
      BY <1>3, OthersStay
    <2>2. CASE GrantPut(th)
      BY <2>1, <2>2, LogoutMoves DEF GrantPut, Asked
    <2>3. CASE ~GrantPut(th)
      <3>1. granted' = granted
        BY <1>3, <2>3
        DEF Step, AddTicket, GrantUpdate, NextTicket, RetrieveServices, ClearServices, MarkTicketExpired,
            MarkUpdate, NextService, SendMessage, ServicesDone, DeleteTicket, history
      <3>2. pc'[th] # "grant"
        BY <1>3, <2>3, PutMoves, MarkMoves, DeleteMoves, LogoutMoves, NextServiceMoves DEF Step
      <3> QED
        BY <2>1, <3>1, <3>2 DEF Asked
    <2> QED
      BY <2>2, <2>3
  <1> QED
    BY <1>1, <1>2, <1>3 DEF Next

\* A destroyed TGT lets in no further service, only those whose requests were past
\* the check of grantServiceTicket, whether or not it was deleted from the registry,
\* or put back by a slower thread's updateTicket.
THEOREM LogoutsAreFinal == Spec => LogoutIsFinal
  <1>1. Init => MarkedInv /\ TakenInv
    BY DEF Init, MarkedInv, TakenInv, NoJob
  <1>2. TypeOK /\ MarkedInv /\ TakenInv /\ [Next]_vars => MarkedInv' /\ TakenInv'
    BY MarkedPreserved, TakenPreserved
  <1>3. ASSUME TypeOK, MarkedInv, TakenInv, [Next]_vars
        PROVE  [\A t \in Tgts : phase[t] = "destroyed" => LetIn(t)' \subseteq LetIn(t)]_vars
    <2> SUFFICES ASSUME NEW t \in Tgts, phase[t] = "destroyed", NEW k \in LetIn(t)'
                 PROVE  k \in LetIn(t)
      BY <1>3
    <2>1. t \in expired
      BY <1>3 DEF MarkedInv
    <2>2. k \in Tokens /\ TicketOf[k] = t /\ (k \in granted \/ Asked(k))'
      BY DEF LetIn
    <2>3. k \in granted \/ Asked(k)
      BY <1>3, <2>1, <2>2, LetInMoves
    <2> QED
      BY <2>2, <2>3 DEF LetIn
  <1> QED
    BY <1>1, <1>2, <1>3, TypeCorrect, PTL DEF Spec, LogoutIsFinal

\* If no hand loses a service that is not told, and no TGT does, none is forgotten.
LEMMA KeptMeansRemembered ==
    ASSUME NothingForgotten,
           \A k \in granted' \ (late' \union lost') :
              \/ k \in granted \ (late \union lost)
              \/ k \in services'[TicketOf[k]],
           \A k \in granted \ (late \union lost) : k \in services[TicketOf[k]] =>
              \/ k \in services'[TicketOf[k]]
              \/ \E th \in Threads : k \in Hand(th)',
           \A th \in Threads : Hand(th) \subseteq Hand(th)' \union Handled' \union lost',
           Handled \subseteq Handled'
    PROVE  NothingForgotten'
  BY DEF NothingForgotten

LEMMA ForgetPreserved ==
    ASSUME TypeOK, TakenInv, NothingForgotten, [Next]_vars
    PROVE  NothingForgotten'
  <1> USE DEF TakenInv
  <1>1. CASE UNCHANGED vars
    BY <1>1 DEF vars, tickets, threads, history, NothingForgotten, Hand, Handled
  <1>2. ASSUME NEW th \in Threads,
               \/ NextTicket(th)
               \/ \E t \in Tgts : Login(th, t) \/ Logout(th, t)
               \/ \E k \in Tokens : Grant(th, k)
               \/ \E c \in ClientTokens : ClientLogout(th, c)
        PROVE  NothingForgotten'
    <2>1. job[th].taken = {} /\ pc[th] # "send"
      BY <1>2 DEF NextTicket, Login, Logout, Grant, ClientLogout
    <2>2. \A u \in Threads : Hand(u) \subseteq Hand(u)'
      BY <1>2, <2>1, OthersStay DEF Hand, Step
    <2>3. UNCHANGED <<services, loggedOutAlready, granted, late, lost>>
      BY <1>2, BeginMoves DEF tickets
    <2> QED
      BY <2>2, <2>3, KeptMeansRemembered DEF Handled
  <1>3. ASSUME NEW th \in Threads, Step(th), ~NextTicket(th)
        PROVE  NothingForgotten'
    <2>0. \A u \in Threads \ {th} : Hand(u)' = Hand(u)
      BY <1>3, OthersStay DEF Hand
    <2>1. CASE AddTicket(th) \/ GrantUpdate(th) \/ MarkUpdate(th) \/ DeleteTicket(th)
      <3>1. /\ UNCHANGED <<services, granted, late, loggedOutAlready>>
            /\ lost \subseteq lost' /\ Handled' = Handled
        BY <2>1, PutMoves, MarkMoves, DeleteMoves DEF Handled
      <3>2. pc[th] # "send" /\ pc'[th] # "send"
        BY <2>1, PutMoves, MarkMoves, DeleteMoves
      <3>3. job[th].taken \subseteq job'[th].taken \union Handled \union lost'
        BY <2>1, PutMoves, MarkMoves, DeleteMoves
      <3>4. Hand(th) \subseteq Hand(th)' \union Handled' \union lost'
        BY <3>1, <3>2, <3>3 DEF Hand
      <3> QED
        BY <2>0, <3>1, <3>4, KeptMeansRemembered
    <2>2. CASE GrantPut(th)
      <3> DEFINE g == job[th].tgt
                 k == job[th].token
      <3>1. /\ pc[th] = "grant" /\ g \in Tgts /\ k \in Tokens /\ TicketOf[k] = g
            /\ services' = [services EXCEPT ![g] = @ \union {k}]
            /\ granted' = granted \union {k}
            /\ late \subseteq late'
            /\ UNCHANGED <<loggedOutAlready, lost>>
            /\ pc'[th] = "updateGrant" /\ job' = job
        BY <2>2, LogoutMoves DEF GrantPut, TypeOK
      <3>2. Hand(th)' = Hand(th)
        BY <3>1 DEF Hand
      <3>3. \A t \in Tgts : services[t] \subseteq services'[t]
        BY <3>1 DEF TypeOK
      <3>4. k \in services'[TicketOf[k]]
        BY <3>1 DEF TypeOK
      <3>5. \A x \in granted : TicketOf[x] \in Tgts
        BY LogoutConstants DEF TypeOK
      <3> QED
        BY <2>0, <3>1, <3>2, <3>3, <3>4, <3>5, KeptMeansRemembered DEF Handled
    <2>3. CASE ClearServices(th)
      <3>1. /\ pc[th] = "clear" /\ pc'[th] = "mark" /\ job' = job
            /\ UNCHANGED <<granted, late, lost, loggedOutAlready>>
            /\ services' = [services EXCEPT ![job[th].tgt] = {}]
            /\ services[job[th].tgt] \ late \subseteq job[th].taken
        BY <2>3, LogoutMoves DEF ClearServices, history
      <3>2. Hand(th)' = Hand(th) /\ job[th].taken \subseteq Hand(th)'
        BY <3>1 DEF Hand
      <3>3. \A k \in granted \ (late \union lost) : k \in services[TicketOf[k]] =>
                k \in services'[TicketOf[k]] \/ k \in Hand(th)'
        BY <3>1, <3>2, LogoutConstants DEF TypeOK
      <3> QED
        BY <2>0, <3>1, <3>2, <3>3, KeptMeansRemembered DEF Handled
    <2>4. CASE MarkTicketExpired(th) \/ ServicesDone(th) \/ RetrieveServices(th)
      <3>1. UNCHANGED <<services, granted, late, lost, loggedOutAlready>>
        BY <2>4 DEF MarkTicketExpired, ServicesDone, RetrieveServices, history, tickets
      <3>2. Hand(th) \subseteq Hand(th)'
        BY <2>4, LogoutMoves DEF MarkTicketExpired, ServicesDone, RetrieveServices, Hand
      <3> QED
        BY <2>0, <3>1, <3>2, KeptMeansRemembered DEF Handled
    <2>5. CASE SendMessage(th)
      <3>1. /\ UNCHANGED <<services, granted, late, lost>>
            /\ pc[th] = "send"
            /\ loggedOutAlready' = loggedOutAlready \union {job[th].token}
            /\ pc'[th] = "notify" /\ job'[th].taken = job[th].taken
        BY <2>5, LogoutMoves DEF SendMessage, history, tickets
      <3>2. Hand(th) \subseteq Hand(th)' \union Handled'
        BY <3>1 DEF Hand, Handled
      <3> QED
        BY <2>0, <3>1, <3>2, KeptMeansRemembered DEF Handled
    <2>6. CASE \E k \in Tokens : NextService(th, k)
      <3>1. PICK k \in Tokens : NextService(th, k)
        BY <2>6
      <3>2. UNCHANGED <<services, granted, late, lost, loggedOutAlready>>
        BY <3>1 DEF NextService, history, tickets
      <3>3. Hand(th) \subseteq Hand(th)' \union Handled'
        BY <3>1, <3>2, NextServiceMoves DEF Hand, Handled
      <3> QED
        BY <2>0, <3>2, <3>3, KeptMeansRemembered DEF Handled
    <2> QED
      BY <1>3, <2>1, <2>2, <2>3, <2>4, <2>5, <2>6 DEF Step
  <1> QED
    BY <1>1, <1>2, <1>3 DEF Next

\* performLogout loses no service that was in the TGT before, for any number of
\* threads that log the same TGT out, each with a lock of its own, but for those
\* that a request has read whose updateTicket then throws.
THEOREM NoServiceForgotten == Spec => []NothingForgotten
  <1>1. Init => TakenInv /\ NothingForgotten
    BY DEF Init, TakenInv, NothingForgotten, NoJob
  <1>2. TypeOK /\ TakenInv /\ NothingForgotten /\ [Next]_vars => TakenInv' /\ NothingForgotten'
    BY TakenPreserved, ForgetPreserved
  <1> QED
    BY <1>1, <1>2, TypeCorrect, PTL DEF Spec

-----------------------------------------------------------------------------
(* Logouts keep the promises of ServiceNotices.                            *)

\* A step of a thread that grants nothing keeps AskedInv, if the thread then
\* holds granted services only and asks for one that is new.
LEMMA AskedKept ==
    ASSUME TypeOK, AskedInv, NEW th \in Threads,
           \A u \in Threads \ {th} : pc'[u] = pc[u] /\ job'[u] = job[u],
           granted' = granted,
           \A t \in Tgts : services'[t] \subseteq services[t],
           loggedOutAlready' \subseteq loggedOutAlready \union Hand(th),
           Hand(th)' \subseteq granted,
           pc'[th] = "send" => job'[th].token \notin FrontChannel,
           pc'[th] = "grant" =>
                /\ job'[th].token \notin granted
                /\ \A u \in Threads \ {th} : pc[u] = "grant" => job[u].token # job'[th].token
    PROVE  AskedInv'
  <1>1. \A u \in Threads \ {th} : Hand(u)' = Hand(u)
    BY DEF Hand
  <1>2. /\ \A t \in Tgts : services[t] \subseteq granted
        /\ loggedOutAlready \subseteq granted
        /\ \A u \in Threads : Hand(u) \subseteq granted
    BY DEF AskedInv
  <1>3. /\ \A t \in Tgts : services'[t] \subseteq granted'
        /\ loggedOutAlready' \subseteq granted'
        /\ \A u \in Threads : Hand(u)' \subseteq granted'
    BY <1>1, <1>2
  <1>4. ASSUME NEW u \in Threads
        PROVE  /\ pc'[u] = "grant" => job'[u].token \notin granted'
               /\ pc'[u] = "send" => job'[u].token \notin FrontChannel
    BY DEF AskedInv
  <1>5. ASSUME NEW u \in Threads, NEW v \in Threads \ {u}, pc'[u] = "grant", pc'[v] = "grant"
        PROVE  job'[u].token # job'[v].token
    BY <1>5 DEF AskedInv
  <1> QED
    BY <1>3, <1>4, <1>5 DEF AskedInv

\* Services are asked for once, and held by nobody before they are granted.
LEMMA AskedPreserved ==
    ASSUME TypeOK, AskedInv, [Next]_vars
    PROVE  AskedInv'
  <1>1. CASE UNCHANGED vars
    BY <1>1 DEF vars, tickets, threads, history, AskedInv, Hand
  <1>2. ASSUME NEW th \in Threads,
               \/ NextTicket(th)
               \/ \E t \in Tgts : Login(th, t) \/ Logout(th, t)
               \/ \E k \in Tokens : Grant(th, k)
               \/ \E c \in ClientTokens : ClientLogout(th, c)
        PROVE  AskedInv'
    <2>1. \A u \in Threads \ {th} : pc'[u] = pc[u] /\ job'[u] = job[u]
      BY <1>2, OthersStay DEF Step
    <2>2. /\ pc'[th] # "send" /\ Hand(th)' = {}
          /\ pc'[th] = "grant" =>
                /\ job'[th].token \notin granted
                /\ \A u \in Threads \ {th} : pc[u] = "grant" => job[u].token # job'[th].token
          /\ UNCHANGED <<services, loggedOutAlready, granted>>
      BY <1>2, BeginMoves DEF Hand, tickets
    <2> QED
      BY <2>1, <2>2, AskedKept
  <1>3. ASSUME NEW th \in Threads, Step(th), ~NextTicket(th)
        PROVE  AskedInv'
    <2>0. \A u \in Threads \ {th} : pc'[u] = pc[u] /\ job'[u] = job[u]
      BY <1>3, OthersStay
    <2>1. /\ \A t \in Tgts : services[t] \subseteq granted
          /\ Hand(th) \subseteq granted
      BY DEF AskedInv
    <2>2. CASE AddTicket(th) \/ GrantUpdate(th) \/ MarkUpdate(th) \/ DeleteTicket(th)
      <3>1. UNCHANGED <<services, granted, loggedOutAlready>>
        BY <2>2 DEF AddTicket, GrantUpdate, MarkUpdate, DeleteTicket, history
      <3>2. /\ pc[th] \in {"add", "updateGrant", "updateMark", "delete"}
            /\ pc'[th] \in {pc[th], "next", "notify", "idle"}
            /\ job'[th].taken \in {job[th].taken, {}}
        BY <2>2, PutMoves, MarkMoves, DeleteMoves
      <3>3. Hand(th)' \subseteq granted
        BY <2>1, <3>2 DEF Hand
      <3> QED
        BY <2>0, <3>1, <3>2, <3>3, AskedKept
    <2>3. CASE GrantPut(th)
      <3> DEFINE g == job[th].tgt
                 k == job[th].token
      <3>1. /\ pc[th] = "grant" /\ pc'[th] = "updateGrant" /\ job' = job
            /\ services' = [services EXCEPT ![g] = @ \union {k}]
            /\ granted' = granted \union {k}
            /\ UNCHANGED loggedOutAlready
        BY <2>3, LogoutMoves DEF GrantPut
      <3>2. \A t \in Tgts : services'[t] \subseteq services[t] \union {k}
        BY <3>1 DEF TypeOK
      <3>3. \A u \in Threads : Hand(u)' = Hand(u)
        BY <2>0, <3>1 DEF Hand
      <3>4. \A u \in Threads : pc'[u] \in {"grant", "send"} => u # th /\ pc[u] = pc'[u]
        BY <2>0, <3>1
      <3>5. \A u \in Threads \ {th} : pc[u] = "grant" => job[u].token # k
        BY <3>1 DEF AskedInv
      <3> QED
        BY <3>1, <3>2, <3>3, <3>4, <3>5 DEF AskedInv
    <2>4. CASE ClearServices(th) \/ MarkTicketExpired(th) \/ ServicesDone(th)
      <3>1. /\ UNCHANGED <<granted, loggedOutAlready>>
            /\ \A t \in Tgts : services'[t] \subseteq services[t]
        BY <2>4 DEF ClearServices, MarkTicketExpired, ServicesDone, tickets, history, TypeOK
      <3>2. pc'[th] \in {"mark", "updateMark", "delete"} /\ job' = job
        BY <2>4, LogoutMoves
      <3>3. Hand(th)' \subseteq granted
        BY <2>1, <3>2 DEF Hand
      <3> QED
        BY <2>0, <3>1, <3>2, <3>3, AskedKept
    <2>5. CASE RetrieveServices(th)
      <3>1. UNCHANGED <<granted, loggedOutAlready, services>> /\ pc[th] = "retrieve"
        BY <2>5 DEF RetrieveServices, tickets, history
      <3>2. pc'[th] = "clear" /\ job'[th].taken = services[job[th].tgt] /\ job[th].tgt \in Tgts
        BY <2>5, <3>1, LogoutMoves DEF TypeOK
      <3>3. Hand(th)' \subseteq granted
        BY <2>1, <3>2 DEF Hand
      <3> QED
        BY <2>0, <3>1, <3>2, <3>3, AskedKept
    <2>6. CASE SendMessage(th)
      <3>1. /\ UNCHANGED <<granted, services>> /\ pc[th] = "send"
            /\ loggedOutAlready' = loggedOutAlready \union {job[th].token}
            /\ pc'[th] = "notify" /\ job'[th].taken = job[th].taken
        BY <2>6, LogoutMoves DEF SendMessage, tickets, history
      <3>2. Hand(th)' \subseteq granted /\ job[th].token \in Hand(th)
        BY <2>1, <3>1 DEF Hand
      <3> QED
        BY <2>0, <3>1, <3>2, AskedKept
    <2>7. CASE \E k \in Tokens : NextService(th, k)
      <3>1. PICK k \in Tokens : NextService(th, k)
        BY <2>7
      <3>2. UNCHANGED <<granted, loggedOutAlready, services>>
        BY <3>1 DEF NextService, tickets, history
      <3>3. Hand(th)' \subseteq granted
        BY <2>1, <3>1, NextServiceMoves DEF Hand
      <3>4. /\ pc'[th] \in {"notify", "send"}
            /\ pc'[th] = "send" => job'[th].token \notin FrontChannel
        BY <3>1, NextServiceMoves DEF Handled
      <3> QED
        BY <2>0, <3>2, <3>3, <3>4, AskedKept
    <2> QED
      BY <1>3, <2>2, <2>3, <2>4, <2>5, <2>6, <2>7 DEF Step
  <1> QED
    BY <1>1, <1>2, <1>3 DEF Next

\* A step that puts no service into a map, and lets the thread hold no more than
\* before, keeps LostInv, if it loses only what the thread holds and has cleared.
LEMMA LostKept ==
    ASSUME LostInv, AskedInv, NEW th \in Threads,
           \A u \in Threads \ {th} : pc'[u] = pc[u] /\ job'[u] = job[u],
           \A t \in Tgts : services'[t] \subseteq services[t],
           granted' = granted,
           \/ job'[th].taken = {}
           \/ job'[th].taken \subseteq job[th].taken /\ job'[th].tgt = job[th].tgt,
           pc'[th] \in {"mark", "updateMark", "notify", "send"} =>
              /\ Hand(th)' \subseteq Hand(th)
              /\ \A t \in Tgts : Hand(th) \intersect services'[t] = {},
           \/ lost' = lost
           \/ /\ lost' = lost \union (job[th].taken \ Handled)
              /\ pc[th] = "updateMark"
    PROVE  LostInv'
  <1>1. lost' \subseteq granted' \ FrontChannel /\ \A t \in Tgts : services'[t] \intersect lost' = {}
    BY DEF LostInv, AskedInv, Hand, Handled
  <1>2. ASSUME NEW u \in Threads
        PROVE  /\ \A k \in job'[u].taken : TicketOf[k] = job'[u].tgt
               /\ pc'[u] \in {"mark", "updateMark", "notify", "send"} =>
                     \A t \in Tgts : Hand(u)' \intersect services'[t] = {}
    <2>1. CASE u = th
      BY <2>1 DEF LostInv
    <2>2. CASE u # th
      <3>1. Hand(u)' = Hand(u)
        BY <2>2 DEF Hand
      <3> QED
        BY <2>2, <3>1 DEF LostInv
    <2> QED
      BY <2>1, <2>2
  <1> QED
    BY <1>1, <1>2 DEF LostInv

\* What a broken request loses was granted, is in no map and is not passed by.
LEMMA LostPreserved ==
    ASSUME TypeOK, TakenInv, AskedInv, LostInv, [Next]_vars
    PROVE  LostInv'
  <1>1. CASE UNCHANGED vars
    BY <1>1 DEF vars, tickets, threads, history, LostInv, Hand
  <1>2. ASSUME NEW th \in Threads,
               \/ NextTicket(th)
               \/ \E t \in Tgts : Login(th, t) \/ Logout(th, t)
               \/ \E k \in Tokens : Grant(th, k)
               \/ \E c \in ClientTokens : ClientLogout(th, c)
        PROVE  LostInv'
    <2>1. \A u \in Threads \ {th} : pc'[u] = pc[u] /\ job'[u] = job[u]
      BY <1>2, OthersStay DEF Step
    <2>2. /\ job'[th].taken = {}
          /\ pc'[th] \notin {"mark", "updateMark", "notify", "send"}
          /\ UNCHANGED <<services, granted, lost>>
      BY <1>2, BeginMoves DEF tickets
    <2> QED
      BY <2>1, <2>2, LostKept
  <1>3. ASSUME NEW th \in Threads, Step(th), ~NextTicket(th)
        PROVE  LostInv'
    <2>0. \A u \in Threads \ {th} : pc'[u] = pc[u] /\ job'[u] = job[u]
      BY <1>3, OthersStay
    <2>1. CASE AddTicket(th) \/ GrantUpdate(th) \/ DeleteTicket(th)
      <3>1. /\ pc[th] \in {"add", "updateGrant", "delete"}
            /\ pc'[th] \in {pc[th], "next", "idle"}
            /\ job'[th].taken \in {job[th].taken, {}}
            /\ UNCHANGED <<services, granted, lost>>
        BY <2>1, PutMoves, DeleteMoves
      <3>2. job[th].taken = {}
        BY <3>1 DEF TakenInv
      <3> QED
        BY <2>0, <3>1, <3>2, LostKept
    <2>2. CASE MarkUpdate(th)
      <3>1. /\ pc[th] = "updateMark"
            /\ UNCHANGED <<services, granted>>
            /\ \/ /\ pc'[th] \in {"updateMark", "notify"}
                  /\ job'[th].tgt = job[th].tgt
                  /\ job'[th].taken = job[th].taken
                  /\ lost' = lost
               \/ /\ pc'[th] = "idle"
                  /\ job'[th].taken = {}
                  /\ lost' = lost \union (job[th].taken \ Handled)
        BY <2>2, MarkMoves
      <3>2. \A t \in Tgts : Hand(th) \intersect services'[t] = {}
        BY <3>1 DEF LostInv
      <3>3. pc'[th] # "idle" => Hand(th)' = Hand(th)
        BY <3>1 DEF Hand
      <3> QED
        BY <2>0, <3>1, <3>2, <3>3, LostKept
    <2>3. CASE GrantPut(th)
      <3> DEFINE g == job[th].tgt
                 k == job[th].token
      <3>1. /\ pc[th] = "grant" /\ pc'[th] = "updateGrant" /\ job' = job
            /\ services' = [services EXCEPT ![g] = @ \union {k}]
            /\ granted' = granted \union {k} /\ k \notin granted
            /\ lost' = lost
        BY <2>3, LogoutMoves DEF GrantPut, AskedInv
      <3>2. \A t \in Tgts : services'[t] \subseteq services[t] \union {k}
        BY <3>1 DEF TypeOK
      <3>3. \A u \in Threads : Hand(u)' = Hand(u) /\ k \notin Hand(u)
        BY <2>0, <3>1 DEF Hand, AskedInv
      <3>4. \A u \in Threads : pc'[u] \in {"mark", "updateMark", "notify", "send"} => pc[u] = pc'[u]
        BY <2>0, <3>1
      <3> QED
        BY <3>1, <3>2, <3>3, <3>4 DEF LostInv
    <2>4. CASE ClearServices(th)
      <3> DEFINE g == job[th].tgt
      <3>1. /\ pc[th] = "clear" /\ pc'[th] = "mark" /\ job' = job /\ g \in Tgts
            /\ services' = [services EXCEPT ![g] = {}]
            /\ UNCHANGED <<granted, lost>>
        BY <2>4, LogoutMoves DEF ClearServices, history, TypeOK
      <3>2. Hand(th) = job[th].taken /\ Hand(th)' = job[th].taken
        BY <3>1 DEF Hand
      <3>3. \A t \in Tgts : services'[t] = IF t = g THEN {} ELSE services[t]
        BY <3>1 DEF TypeOK
      <3>4. \A t \in Tgts : Hand(th) \intersect services'[t] = {}
        BY <3>2, <3>3 DEF LostInv, TakenInv
      <3> QED
        BY <2>0, <3>1, <3>2, <3>3, <3>4, LostKept
    <2>5. CASE MarkTicketExpired(th) \/ ServicesDone(th)
      <3>1. /\ pc[th] \in {"mark", "notify"}
            /\ UNCHANGED <<services, granted, lost>>
        BY <2>5 DEF MarkTicketExpired, ServicesDone, tickets, history
      <3>2. pc'[th] \in {"updateMark", "delete"} /\ job' = job
        BY <2>5, LogoutMoves
      <3>3. Hand(th)' = Hand(th) /\ \A t \in Tgts : Hand(th) \intersect services'[t] = {}
        BY <3>1, <3>2 DEF Hand, LostInv
      <3> QED
        BY <2>0, <3>1, <3>2, <3>3, LostKept
    <2>6. CASE RetrieveServices(th)
      <3>1. /\ UNCHANGED <<services, granted, lost>> /\ job[th].tgt \in Tgts
            /\ pc'[th] = "clear" /\ job'[th].tgt = job[th].tgt
            /\ job'[th].taken = services[job[th].tgt]
        BY <2>6, LogoutMoves DEF RetrieveServices, tickets, history, TypeOK
      <3>2. \A k \in job'[th].taken : TicketOf[k] = job'[th].tgt
        BY <3>1 DEF TakenInv
      <3>3. \A u \in Threads \ {th} : Hand(u)' = Hand(u)
        BY <2>0 DEF Hand
      <3> QED
        BY <2>0, <3>1, <3>2, <3>3 DEF LostInv
    <2>7. CASE SendMessage(th)
      <3>1. /\ pc[th] = "send" /\ pc'[th] = "notify"
            /\ job'[th].tgt = job[th].tgt /\ job'[th].taken = job[th].taken
            /\ UNCHANGED <<services, granted, lost>>
        BY <2>7, LogoutMoves DEF SendMessage, tickets, history
      <3>2. Hand(th)' \subseteq Hand(th) /\ \A t \in Tgts : Hand(th) \intersect services'[t] = {}
        BY <3>1 DEF Hand, LostInv
      <3> QED
        BY <2>0, <3>1, <3>2, LostKept
    <2>8. CASE \E k \in Tokens : NextService(th, k)
      <3>1. PICK k \in Tokens : NextService(th, k)
        BY <2>8
      <3>2. UNCHANGED <<services, granted, lost>>
        BY <3>1 DEF NextService, tickets, history
      <3>3. Hand(th)' \subseteq Hand(th)
        BY <3>1, NextServiceMoves DEF Hand
      <3>4. \A t \in Tgts : Hand(th) \intersect services'[t] = {}
        BY <3>1, <3>2, NextServiceMoves DEF LostInv
      <3> QED
        BY <2>0, <3>1, <3>2, <3>3, <3>4, NextServiceMoves, LostKept
    <2> QED
      BY <1>3, <2>1, <2>2, <2>3, <2>4, <2>5, <2>6, <2>7, <2>8 DEF Step
  <1> QED
    BY <1>1, <1>2, <1>3 DEF Next

\* The abstract state, and an abstract step or a stutter.
Stages == [t \in Tgts |-> Stage(t)]
Dues == [k \in Tokens |-> Due(k)]
NoticeStep == [Notices!Next]_<<Stages, Dues, sent>>

NoticeInv ==
    /\ TypeOK
    /\ MarkedInv
    /\ TakenInv
    /\ AskedInv
    /\ LostInv

\* A thread that is logging a TGT out.
Closing(th, t) == pc[th] \in LogoutPcs /\ job[th].tgt = t

\* What a service is due rests on six facts about it.
LEMMA DueSame ==
    ASSUME NEW k \in Tokens,
           k \in loggedOutAlready' <=> k \in loggedOutAlready,
           k \in late' <=> k \in late,
           k \in granted' <=> k \in granted,
           k \in lost' <=> k \in lost,
           Waiting(k)' <=> Waiting(k),
           Asked(k)' <=> Asked(k)
    PROVE  Due(k)' = Due(k)
  BY DEF Due

\* The stage of a TGT rests on two.
LEMMA StageSame ==
    ASSUME NEW t \in Tgts,
           phase'[t] = "destroyed" <=> phase[t] = "destroyed",
           \A th \in Threads : Closing(th, t)' <=> Closing(th, t)
    PROVE  Stage(t)' = Stage(t)
  <1>1. UnderLogout(t)' <=> UnderLogout(t)
    BY DEF UnderLogout, Closing
  <1> QED
    BY <1>1 DEF Stage

\* A thread's step leaves a service waiting or not, if it does so for the
\* services in its hands.
LEMMA WaitingSame ==
    ASSUME NEW th \in Threads, NEW k \in Tokens,
           \A u \in Threads \ {th} : pc'[u] = pc[u] /\ job'[u] = job[u],
           services' = services,
           k \in Hand(th) => Waiting(k)',
           k \in Hand(th)' => Waiting(k)
    PROVE  Waiting(k)' <=> Waiting(k)
  <1>1. \A u \in Threads \ {th} : Hand(u)' = Hand(u)
    BY DEF Hand
  <1> QED
    BY <1>1 DEF Waiting

\* A step that asks for nothing and grants nothing.
LEMMA AskedSame ==
    ASSUME NEW th \in Threads, NEW k \in Tokens,
           \A u \in Threads \ {th} : pc'[u] = pc[u] /\ job'[u] = job[u],
           pc[th] # "grant", pc'[th] # "grant"
    PROVE  Asked(k)' <=> Asked(k)
  BY DEF Asked

\* Nothing happens to any service or TGT.
LEMMA NothingHappens ==
    ASSUME \A t \in Tgts : Stage(t)' = Stage(t),
           \A k \in Tokens : Due(k)' = Due(k),
           sent' = sent
    PROVE  NoticeStep
  BY DEF NoticeStep, Stages, Dues

\* The logout of one TGT begins, or is over.
LEMMA OneTgtMoves ==
    ASSUME NEW t \in Tgts,
           \A g \in Tgts \ {t} : Stage(g)' = Stage(g),
           \/ Stage(t)' = Stage(t)
           \/ Stage(t) = "open" /\ Stage(t)' = "closing"
           \/ Stage(t) = "closing" /\ Stage(t)' = "over",
           \A k \in Tokens : Due(k)' = Due(k),
           sent' = sent
    PROVE  NoticeStep
  <1>1. /\ Dues' = Dues
        /\ Stages' = [Stages EXCEPT ![t] = Stage(t)']
        /\ Stages[t] = Stage(t)
    BY DEF Stages, Dues
  <1>2. CASE Stage(t)' = Stage(t)
    BY <1>2, NothingHappens
  <1>3. CASE Stage(t) = "open" /\ Stage(t)' = "closing"
    <2>1. Notices!Begin(t)
      BY <1>1, <1>3 DEF Notices!Begin, Stages, Dues
    <2> QED
      BY <2>1 DEF NoticeStep, Notices!Next
  <1>4. CASE Stage(t) = "closing" /\ Stage(t)' = "over"
    <2>1. Notices!Close(t)
      BY <1>1, <1>4 DEF Notices!Close, Stages, Dues
    <2> QED
      BY <2>1 DEF NoticeStep, Notices!Next
  <1> QED
    BY <1>2, <1>3, <1>4

\* Something happens to one service: it asks, is let in, told or passed by.
LEMMA OneServiceMoves ==
    ASSUME NEW k \in Tokens,
           \A t \in Tgts : Stage(t)' = Stage(t),
           \A x \in Tokens \ {k} : Due(x)' = Due(x),
           \/ /\ Due(k) = "unknown" /\ Due(k)' = "asked"
              /\ Stage(TicketOf[k]) # "over"
              /\ sent' = sent
           \/ /\ Due(k) = "asked"
              /\ Due(k)' = IF Stage(TicketOf[k]) = "open" THEN "owed" ELSE "late"
              /\ sent' = sent
           \/ /\ Due(k) \in {"owed", "late"} /\ Due(k)' = "told"
              /\ k \notin FrontChannel
              /\ sent' = IF k \in Ssm THEN sent ELSE [sent EXCEPT ![k] = @ + 1]
           \/ /\ Due(k) \in {"owed", "late"} /\ Due(k)' = "dropped"
              /\ k \in FrontChannel
              /\ sent' = sent
           \/ /\ Due(k) = "told" /\ Due(k)' = "told"
              /\ sent' = IF k \in Ssm THEN sent ELSE [sent EXCEPT ![k] = @ + 1]
           \/ Due(k)' = Due(k) /\ sent' = sent
    PROVE  NoticeStep
  <1> DEFINE d == Due(k)'
  <1>1. /\ Stages' = Stages
        /\ Dues' = [Dues EXCEPT ![k] = d]
        /\ Dues[k] = Due(k)
    BY DEF Stages, Dues
  <1>2. TicketOf[k] \in Tgts /\ Stages[TicketOf[k]] = Stage(TicketOf[k])
    BY LogoutConstants DEF Stages
  <1>3. CASE Due(k) = "unknown" /\ d = "asked" /\ Stage(TicketOf[k]) # "over" /\ sent' = sent
    <2>1. Notices!Ask(k)
      BY <1>1, <1>2, <1>3 DEF Notices!Ask, Notices!Turn, Stages, Dues
    <2> QED
      BY <2>1 DEF NoticeStep, Notices!Next
  <1>4. CASE /\ Due(k) = "asked" /\ sent' = sent
             /\ d = IF Stage(TicketOf[k]) = "open" THEN "owed" ELSE "late"
    <2>1. Notices!Admit(k)
      BY <1>1, <1>2, <1>4 DEF Notices!Admit, Notices!Turn, Stages, Dues
    <2> QED
      BY <2>1 DEF NoticeStep, Notices!Next
  <1>5. CASE /\ Due(k) \in {"owed", "late"} /\ d = "told" /\ k \notin FrontChannel
             /\ sent' = IF k \in Ssm THEN sent ELSE [sent EXCEPT ![k] = @ + 1]
    <2>1. Notices!Tell(k)
      BY <1>1, <1>5 DEF Notices!Tell, Notices!Turn, Notices!Message, Stages, Dues
    <2> QED
      BY <2>1 DEF NoticeStep, Notices!Next
  <1>6. CASE Due(k) \in {"owed", "late"} /\ d = "dropped" /\ k \in FrontChannel /\ sent' = sent
    <2>1. Notices!PassBy(k)
      BY <1>1, <1>6 DEF Notices!PassBy, Notices!Turn, Stages, Dues
    <2> QED
      BY <2>1 DEF NoticeStep, Notices!Next
  <1>7. CASE /\ Due(k) = "told" /\ d = "told"
             /\ sent' = IF k \in Ssm THEN sent ELSE [sent EXCEPT ![k] = @ + 1]
    <2>1. Dues' = Dues
      BY <1>7 DEF Dues
    <2>2. Notices!TellAgain(k)
      BY <1>1, <1>7, <2>1 DEF Notices!TellAgain, Notices!Message, Stages, Dues
    <2> QED
      BY <2>2 DEF NoticeStep, Notices!Next
  <1>8. CASE d = Due(k) /\ sent' = sent
    BY <1>8, NothingHappens
  <1> QED
    BY <1>3, <1>4, <1>5, <1>6, <1>7, <1>8

\* A service that waits has been granted.
LEMMA WaitingGranted ==
    ASSUME AskedInv, NEW k \in Tokens, Waiting(k)
    PROVE  k \in granted
  <1>1. TicketOf[k] \in Tgts
    BY LogoutConstants
  <1> QED
    BY <1>1 DEF AskedInv, Waiting

\* A thread that goes on within a logout, or outside of one, moves no TGT.
LEMMA StagesSame ==
    ASSUME NEW th \in Threads,
           \A u \in Threads \ {th} : pc'[u] = pc[u] /\ job'[u] = job[u],
           pc'[th] \in LogoutPcs <=> pc[th] \in LogoutPcs,
           pc[th] \in LogoutPcs => job'[th].tgt = job[th].tgt,
           \A t \in Tgts : phase'[t] = "destroyed" <=> phase[t] = "destroyed"
    PROVE  \A t \in Tgts : Stage(t)' = Stage(t)
  <1>1. \A t \in Tgts : \A u \in Threads : Closing(u, t)' <=> Closing(u, t)
    BY DEF Closing
  <1> QED
    BY <1>1, StageSame

\* A request begins, or a thread looks for its next TGT.
LEMMA BeginNotices ==
    ASSUME NoticeInv, NEW th \in Threads,
           \/ NextTicket(th)
           \/ \E t \in Tgts : Login(th, t) \/ Logout(th, t)
           \/ \E k \in Tokens : Grant(th, k)
           \/ \E c \in ClientTokens : ClientLogout(th, c)
    PROVE  NoticeStep
  <1> USE DEF NoticeInv
  <1>1. \A u \in Threads \ {th} : pc'[u] = pc[u] /\ job'[u] = job[u]
    BY OthersStay DEF Step
  <1>2. /\ pc[th] \in {"idle", "next"} /\ job[th].taken = {}
        /\ pc'[th] \in {"idle", "next", "add", "grant", "retrieve"}
        /\ job'[th].taken = {}
        /\ UNCHANGED <<tickets, loggedOutAlready, sent, granted, late, lost>>
    BY BeginMoves DEF NextTicket, Login, Logout, Grant, ClientLogout, TakenInv
  <1>3. Hand(th) = {} /\ Hand(th)' = {} /\ services' = services
    BY <1>2 DEF Hand, tickets
  <1>4. \A k \in Tokens : Waiting(k)' <=> Waiting(k)
    BY <1>1, <1>3, WaitingSame
  <1>5. ASSUME NEW k \in Tokens, Asked(k)' <=> Asked(k)
        PROVE  Due(k)' = Due(k)
    BY <1>2, <1>4, <1>5, DueSame
  <1>6. CASE \E k \in Tokens : Grant(th, k)
    <2>1. PICK k \in Tokens : Grant(th, k)
      BY <1>6
    <2>2. /\ pc[th] = "idle" /\ pc'[th] = "grant" /\ job'[th].token = k
          /\ k \notin granted
          /\ \A u \in Threads : pc[u] = "grant" => job[u].token # k
          /\ TicketOf[k] \in stored \ expired
          /\ UNCHANGED phase
      BY <2>1 DEF Grant, Work, Goto, NoJob, TypeOK, history
    <2>3. \A x \in Tokens \ {k} : Asked(x)' <=> Asked(x)
      BY <1>1, <2>2 DEF Asked
    <2>4. \A t \in Tgts : Stage(t)' = Stage(t)
      BY <1>1, <2>2, StagesSame DEF LogoutPcs
    <2>5. TicketOf[k] \in Tgts /\ Stage(TicketOf[k]) # "over"
      BY <2>2, LogoutConstants DEF MarkedInv, Stage
    <2>6. ~Waiting(k) /\ k \notin loggedOutAlready
      BY <2>2, WaitingGranted DEF AskedInv
    <2>7. ~Asked(k) /\ Asked(k)'
      BY <2>2 DEF Asked
    <2>8. k \notin lost
      BY <2>2 DEF LostInv
    <2>9. Due(k) = "unknown" /\ Due(k)' = "asked"
      BY <1>2, <1>4, <2>2, <2>6, <2>7, <2>8 DEF Due
    <2> QED
      BY <1>2, <1>5, <2>3, <2>4, <2>5, <2>9, OneServiceMoves
  <1>7. CASE pc'[th] # "grant"
    <2>1. \A k \in Tokens : Due(k)' = Due(k)
      BY <1>1, <1>2, <1>5, <1>7, AskedSame
    <2>2. CASE \E t \in Tgts : Login(th, t)
      <3>1. /\ pc'[th] = "add"
            /\ \A t \in Tgts : phase'[t] = "destroyed" <=> phase[t] = "destroyed"
        BY <2>2 DEF Login, Work, Goto, TypeOK
      <3>2. \A t \in Tgts : Stage(t)' = Stage(t)
        BY <1>1, <1>2, <3>1, StagesSame DEF LogoutPcs
      <3> QED
        BY <1>2, <2>1, <3>2, NothingHappens
    <2>3. CASE ~\E t \in Tgts : Login(th, t)
      <3>1. UNCHANGED phase
        BY <2>3 DEF NextTicket, Logout, Grant, ClientLogout, history
      <3>2. CASE pc'[th] # "retrieve"
        <4>1. \A t \in Tgts : Stage(t)' = Stage(t)
          BY <1>1, <1>2, <1>7, <3>1, <3>2, StagesSame DEF LogoutPcs
        <4> QED
          BY <1>2, <2>1, <4>1, NothingHappens
      <3>3. CASE pc'[th] = "retrieve"
        <4>1. PICK g \in Tgts : job'[th].tgt = g
          <5>1. NextTicket(th)
            BY <3>3 DEF Login, Logout, Grant, ClientLogout, Work, Goto, TypeOK
          <5>2. PICK t \in job[th].todo :
                  Work(th, [[NoJob EXCEPT !.todo = job[th].todo \ {t}] EXCEPT !.tgt = t], "retrieve")
            BY <3>3, <5>1 DEF NextTicket, Finish, Work, Goto, TypeOK
          <5>3. job[th].todo \subseteq Tgts
            BY DEF TypeOK, Jobs
          <5>4. job'[th].tgt = t
            BY <5>2 DEF Work, NoJob, TypeOK
          <5> QED
            BY <5>3, <5>4
        <4>2. \A t \in Tgts : ~Closing(th, t) /\ (Closing(th, t)' <=> t = g)
          BY <1>2, <3>3, <4>1 DEF Closing, LogoutPcs
        <4>3. \A t \in Tgts : \A u \in Threads \ {th} : Closing(u, t)' <=> Closing(u, t)
          BY <1>1 DEF Closing
        <4>4. \A t \in Tgts \ {g} : Stage(t)' = Stage(t)
          BY <3>1, <4>2, <4>3, StageSame
        <4>5. UnderLogout(g)'
          BY <3>3, <4>1 DEF UnderLogout, LogoutPcs
        <4>6. \/ Stage(g)' = Stage(g)
              \/ Stage(g) = "open" /\ Stage(g)' = "closing"
          BY <3>1, <4>5 DEF Stage
        <4> QED
          BY <1>2, <2>1, <4>1, <4>4, <4>6, OneTgtMoves
      <3> QED
        BY <3>2, <3>3
    <2> QED
      BY <2>2, <2>3
  <1> QED
    BY <1>6, <1>7 DEF NextTicket, Login, Logout, ClientLogout, Finish, Work, Goto, TypeOK

\* A step of a logout that moves no service and does not end it.
LEMMA QuietNotices ==
    ASSUME NoticeInv, NEW th \in Threads,
           \A u \in Threads \ {th} : pc'[u] = pc[u] /\ job'[u] = job[u],
           \A k \in Tokens : Waiting(k)' <=> Waiting(k),
           pc[th] # "grant", pc'[th] # "grant",
           pc'[th] \in LogoutPcs <=> pc[th] \in LogoutPcs,
           pc[th] \in LogoutPcs => job'[th].tgt = job[th].tgt,
           UNCHANGED <<loggedOutAlready, sent, granted, late, lost, phase>>
    PROVE  NoticeStep
  <1>1. \A t \in Tgts : Stage(t)' = Stage(t)
    BY StagesSame
  <1>2. \A k \in Tokens : Asked(k)' <=> Asked(k)
    BY AskedSame
  <1>3. \A k \in Tokens : Due(k)' = Due(k)
    BY <1>2, DueSame
  <1> QED
    BY <1>1, <1>3, NothingHappens

\* The deletion of a TGT, whether or not it goes through.
LEMMA DeleteNotices ==
    ASSUME NoticeInv, NEW th \in Threads, DeleteTicket(th)
    PROVE  NoticeStep
  <1> DEFINE g == job[th].tgt
  <1>1. /\ pc[th] = "delete" /\ pc'[th] \in {"delete", "next"} /\ g \in Tgts
        /\ job'[th].tgt = g /\ job'[th].taken = job[th].taken
        /\ phase' = [phase EXCEPT ![g] = "destroyed"]
        /\ UNCHANGED <<services, loggedOutAlready, sent, granted, late, lost>>
    BY DeleteMoves DEF NoticeInv, TypeOK
  <1>2. \A u \in Threads \ {th} : pc'[u] = pc[u] /\ job'[u] = job[u]
    BY OthersStay DEF Step, NoticeInv
  <1>3. Hand(th)' = Hand(th)
    BY <1>1 DEF Hand
  <1>4. \A k \in Tokens : Waiting(k)' <=> Waiting(k)
    <2>1. ASSUME NEW k \in Tokens
          PROVE  (k \in Hand(th) => Waiting(k)') /\ (k \in Hand(th)' => Waiting(k))
      BY <1>3 DEF Waiting
    <2> QED
      BY <1>1, <1>2, <2>1, WaitingSame
  <1>5. \A k \in Tokens : Asked(k)' <=> Asked(k)
    BY <1>1, <1>2, AskedSame
  <1>6. \A k \in Tokens : Due(k)' = Due(k)
    BY <1>1, <1>4, <1>5, DueSame
  <1>7. \A t \in Tgts \ {g} : \A u \in Threads : Closing(u, t)' <=> Closing(u, t)
    BY <1>1, <1>2 DEF Closing
  <1>8. \A t \in Tgts \ {g} : Stage(t)' = Stage(t)
    BY <1>1, <1>7, StageSame DEF NoticeInv, TypeOK
  <1>9. UnderLogout(g)
    BY <1>1 DEF UnderLogout, LogoutPcs
  <1>10. Stage(g)' = "over" /\ Stage(g) \in {"closing", "over"}
    BY <1>1, <1>9 DEF Stage, NoticeInv, TypeOK
  <1> QED
    BY <1>1, <1>6, <1>8, <1>10, OneTgtMoves

\* A service is let in: owed a message if nobody is logging the TGT out.
LEMMA PutNotices ==
    ASSUME NoticeInv, NEW th \in Threads, GrantPut(th)
    PROVE  NoticeStep
  <1> DEFINE g == job[th].tgt
             k == job[th].token
  <1> USE DEF NoticeInv
  <1>1. /\ pc[th] = "grant" /\ pc'[th] = "updateGrant" /\ job' = job
        /\ g \in Tgts /\ k \in Tokens /\ TicketOf[k] = g /\ k \notin granted
        /\ services' = [services EXCEPT ![g] = @ \union {k}]
        /\ granted' = granted \union {k}
        /\ late' = IF UnderLogout(g) \/ phase[g] = "destroyed" THEN late \union {k} ELSE late
        /\ UNCHANGED <<loggedOutAlready, sent, lost, phase>>
    BY LogoutMoves DEF GrantPut, TypeOK, TakenInv, AskedInv
  <1>2. \A u \in Threads \ {th} : pc'[u] = pc[u] /\ job'[u] = job[u]
    BY OthersStay DEF Step
  <1>3. \A u \in Threads : Hand(u)' = Hand(u)
    BY <1>1, <1>2 DEF Hand
  <1>4. \A t \in Tgts : services'[t] = IF t = g THEN services[t] \union {k} ELSE services[t]
    BY <1>1 DEF TypeOK
  <1>5. ASSUME NEW x \in Tokens \ {k}
        PROVE  Due(x)' = Due(x)
    <2>1. Waiting(x)' <=> Waiting(x)
      BY <1>3, <1>4, LogoutConstants DEF Waiting
    <2>2. Asked(x)' <=> Asked(x)
      BY <1>1, <1>2 DEF Asked
    <2> QED
      BY <1>1, <2>1, <2>2, DueSame
  <1>6. \A t \in Tgts : Stage(t)' = Stage(t)
    BY <1>1, <1>2, StagesSame DEF LogoutPcs
  <1>7. k \notin loggedOutAlready \union lost /\ ~Waiting(k) /\ Asked(k)
    BY <1>1, WaitingGranted DEF AskedInv, LostInv, Asked
  <1>8. Due(k) = "asked"
    BY <1>1, <1>7 DEF Due
  <1>9. Waiting(k)' /\ k \notin late
    BY <1>1, <1>4 DEF Waiting, TypeOK
  <1>10. Due(k)' = IF k \in late' THEN "late" ELSE "owed"
    BY <1>1, <1>7, <1>9 DEF Due
  <1>11. k \in late' <=> Stage(g) # "open"
    BY <1>1, <1>9 DEF Stage
  <1>12. Due(k)' = IF Stage(TicketOf[k]) = "open" THEN "owed" ELSE "late"
    BY <1>1, <1>10, <1>11
  <1> QED
    BY <1>1, <1>5, <1>6, <1>8, <1>12, OneServiceMoves

\* The map of a TGT is cleared: what was in it is in the thread's hands, but
\* for late services.
LEMMA ClearNotices ==
    ASSUME NoticeInv, NEW th \in Threads, ClearServices(th)
    PROVE  NoticeStep
  <1> DEFINE g == job[th].tgt
             K == {k \in Tokens : Due(k) = "late" /\ Due(k)' = "dropped"}
  <1> USE DEF NoticeInv
  <1>1. /\ pc[th] = "clear" /\ pc'[th] = "mark" /\ job' = job /\ g \in Tgts
        /\ services' = [services EXCEPT ![g] = {}]
        /\ services[g] \ late \subseteq job[th].taken
        /\ UNCHANGED <<loggedOutAlready, sent, granted, late, lost, phase>>
    BY LogoutMoves DEF ClearServices, TypeOK, TakenInv, history
  <1>2. \A u \in Threads \ {th} : pc'[u] = pc[u] /\ job'[u] = job[u]
    BY OthersStay DEF Step
  <1>3. \A u \in Threads : Hand(u)' = Hand(u)
    BY <1>1, <1>2 DEF Hand
  <1>4. \A t \in Tgts : services'[t] = IF t = g THEN {} ELSE services[t]
    BY <1>1 DEF TypeOK
  <1>5. \A k \in Tokens : Asked(k)' <=> Asked(k)
    BY <1>1, <1>2, AskedSame
  <1>6. ASSUME NEW k \in Tokens
        PROVE  /\ Waiting(k)' => Waiting(k)
               /\ Waiting(k) => Waiting(k)' \/ (k \in late /\ k \in services[g])
    <2>1. TicketOf[k] \in Tgts
      BY LogoutConstants
    <2>2. job[th].taken \subseteq Hand(th)
      BY DEF Hand
    <2> QED
      BY <1>1, <1>3, <1>4, <2>1, <2>2 DEF Waiting
  <1>7. ASSUME NEW k \in Tokens
        PROVE  Due(k)' = Due(k) \/ k \in K
    <2>1. CASE Waiting(k)' <=> Waiting(k)
      BY <1>1, <1>5, <2>1, DueSame
    <2>2. CASE ~(Waiting(k)' <=> Waiting(k))
      <3>1. Waiting(k) /\ ~Waiting(k)' /\ k \in late /\ k \in granted /\ k \notin lost
        BY <1>1, <1>6, <2>2, WaitingGranted DEF LostInv
      <3>2. CASE k \in loggedOutAlready
        BY <1>1, <3>2 DEF Due
      <3>3. CASE k \notin loggedOutAlready
        BY <1>1, <3>1, <3>3 DEF Due
      <3> QED
        BY <3>2, <3>3
    <2> QED
      BY <2>1, <2>2
  <1>8. \A t \in Tgts : Stage(t)' = Stage(t)
    BY <1>1, <1>2, StagesSame DEF LogoutPcs
  <1>9. Stages' = Stages
    BY <1>8 DEF Stages
  <1>10. Dues' = [k \in Tokens |-> IF k \in K THEN "dropped" ELSE Dues[k]]
    BY <1>7 DEF Dues
  <1>11. \A k \in K : k \in Tokens /\ Dues[k] = "late"
    BY DEF Dues
  <1> HIDE DEF K
  <1>12. Notices!Miss(K)
    BY <1>1, <1>9, <1>10, <1>11 DEF Notices!Miss, Stages, Dues
  <1>13. K \in SUBSET Tokens
    BY <1>11
  <1> QED
    BY <1>12, <1>13 DEF NoticeStep, Notices!Next

\* A turn of the loop: a service is about to be told, or passed by.
LEMMA TurnNotices ==
    ASSUME NoticeInv, NEW th \in Threads, NEW k \in Tokens, NextService(th, k)
    PROVE  NoticeStep
  <1> USE DEF NoticeInv
  <1>1. /\ pc[th] = "notify" /\ k \in job[th].taken
        /\ job'[th].taken = job[th].taken \ {k}
        /\ job'[th].tgt = job[th].tgt
        /\ \/ pc'[th] = "notify" /\ k \in loggedOutAlready \union FrontChannel
           \/ pc'[th] = "send" /\ job'[th].token = k
        /\ UNCHANGED <<services, loggedOutAlready, sent, granted, late, lost, phase>>
    BY NextServiceMoves DEF NextService, tickets, history, Handled
  <1>2. \A u \in Threads \ {th} : pc'[u] = pc[u] /\ job'[u] = job[u]
    BY OthersStay DEF Step
  <1>3. k \in Hand(th) /\ Waiting(k)
    BY <1>1 DEF Hand, Waiting
  <1>4. /\ \A x \in Tokens \ {k} : x \in Hand(th)' <=> x \in Hand(th)
        /\ pc'[th] = "send" => k \in Hand(th)'
    BY <1>1 DEF Hand
  <1>5. ASSUME NEW x \in Tokens, x \in Hand(th)' <=> x \in Hand(th)
        PROVE  Waiting(x)' <=> Waiting(x)
    <2>1. (x \in Hand(th) => Waiting(x)') /\ (x \in Hand(th)' => Waiting(x))
      BY <1>5 DEF Waiting
    <2> QED
      BY <1>1, <1>2, <2>1, WaitingSame
  <1>6. CASE pc'[th] = "send"
    BY <1>1, <1>2, <1>3, <1>4, <1>5, <1>6, QuietNotices DEF LogoutPcs
  <1>7. CASE pc'[th] = "notify" /\ k \in loggedOutAlready \union FrontChannel
    <2>1. \A x \in Tokens : Asked(x)' <=> Asked(x)
      BY <1>1, <1>2, <1>7, AskedSame
    <2>2. \A x \in Tokens \ {k} : Due(x)' = Due(x)
      BY <1>1, <1>4, <1>5, <2>1, DueSame
    <2>3. \A t \in Tgts : Stage(t)' = Stage(t)
      BY <1>1, <1>2, <1>7, StagesSame DEF LogoutPcs
    <2>4. CASE k \in loggedOutAlready
      <3>1. Due(k)' = Due(k)
        BY <1>1, <2>4 DEF Due
      <3> QED
        BY <1>1, <2>2, <2>3, <3>1, OneServiceMoves
    <2>5. CASE k \notin loggedOutAlready
      <3>1. k \in FrontChannel /\ k \in granted
        BY <1>3, <1>7, <2>5, WaitingGranted
      <3> k \notin lost
        BY <3>1 DEF LostInv
      <3>2. Due(k) \in {"owed", "late"}
        BY <1>3, <2>5 DEF Due
      <3>3. Due(k)' = "dropped" \/ Due(k)' = Due(k)
        BY <1>1, <1>3, <2>5, <3>1 DEF Due
      <3> QED
        BY <1>1, <2>2, <2>3, <3>1, <3>2, <3>3, OneServiceMoves
    <2> QED
      BY <2>4, <2>5
  <1> QED
    BY <1>1, <1>6, <1>7

\* A service is told, or told again.
LEMMA SendNotices ==
    ASSUME NoticeInv, NEW th \in Threads, SendMessage(th)
    PROVE  NoticeStep
  <1> USE DEF NoticeInv
  <1>0. PICK k \in Tokens : job[th].token = k
    BY DEF SendMessage, TypeOK
  <1>1. /\ pc[th] = "send" /\ pc'[th] = "notify"
        /\ job'[th].taken = job[th].taken /\ job'[th].tgt = job[th].tgt
        /\ loggedOutAlready' = loggedOutAlready \union {k}
        /\ sent' = IF k \in Ssm THEN sent ELSE [sent EXCEPT ![k] = @ + 1]
        /\ UNCHANGED <<services, granted, late, lost, phase>>
    BY <1>0, LogoutMoves DEF SendMessage, TypeOK, tickets, history
  <1>2. \A u \in Threads \ {th} : pc'[u] = pc[u] /\ job'[u] = job[u]
    BY OthersStay DEF Step
  <1>3. k \in Hand(th) /\ k \notin FrontChannel /\ Waiting(k)
    BY <1>0, <1>1 DEF Hand, Waiting, AskedInv
  <1>4. \A x \in Tokens \ {k} : x \in Hand(th)' <=> x \in Hand(th)
    BY <1>0, <1>1 DEF Hand
  <1>5. ASSUME NEW x \in Tokens \ {k}
        PROVE  Due(x)' = Due(x)
    <2>1. (x \in Hand(th) => Waiting(x)') /\ (x \in Hand(th)' => Waiting(x))
      BY <1>4 DEF Waiting
    <2>2. Waiting(x)' <=> Waiting(x)
      BY <1>1, <1>2, <2>1, WaitingSame
    <2>3. Asked(x)' <=> Asked(x)
      BY <1>1, <1>2, AskedSame
    <2> QED
      BY <1>1, <2>2, <2>3, DueSame
  <1>6. \A t \in Tgts : Stage(t)' = Stage(t)
    BY <1>1, <1>2, StagesSame DEF LogoutPcs
  <1>7. Due(k)' = "told"
    BY <1>1 DEF Due
  <1>8. CASE k \in loggedOutAlready
    <2>1. Due(k) = "told"
      BY <1>8 DEF Due
    <2> QED
      BY <1>1, <1>5, <1>6, <1>7, <2>1, OneServiceMoves
  <1>9. CASE k \notin loggedOutAlready
    <2>1. Due(k) \in {"owed", "late"}
      BY <1>3, <1>9 DEF Due
    <2> QED
      BY <1>1, <1>3, <1>5, <1>6, <1>7, <2>1, OneServiceMoves
  <1> QED
    BY <1>8, <1>9

\* A logout breaks off: what its thread holds and nobody else does is lost, but for
\* services passed by.
LEMMA BreakNotices ==
    ASSUME NoticeInv, NEW th \in Threads, MarkUpdate(th), pc'[th] = "idle"
    PROVE  NoticeStep
  <1> DEFINE K == {k \in job[th].taken : k \notin loggedOutAlready /\ ~Waiting(k)'}
  <1> USE DEF NoticeInv
  <1>0. PICK g \in Tgts : job[th].tgt = g
    BY MarkMoves DEF TypeOK
  <1>1. /\ pc[th] = "updateMark" /\ pc'[th] = "idle" /\ job'[th].taken = {}
        /\ lost' = lost \union (job[th].taken \ Handled)
        /\ job[th].taken \subseteq Tokens
        /\ \A k \in job[th].taken : TicketOf[k] = g
        /\ UNCHANGED <<services, loggedOutAlready, sent, granted, late, phase>>
    BY <1>0, MarkMoves DEF TypeOK, Jobs, LostInv
  <1>2. \A u \in Threads \ {th} : pc'[u] = pc[u] /\ job'[u] = job[u]
    BY OthersStay DEF Step
  <1>3. Hand(th) = job[th].taken /\ Hand(th)' = {}
    BY <1>1 DEF Hand
  <1>4. \A k \in Tokens : Asked(k)' <=> Asked(k)
    BY <1>1, <1>2, AskedSame
  <1>5. ASSUME NEW k \in Tokens
        PROVE  Due(k)' = IF k \notin K THEN Due(k) ELSE IF k \in FrontChannel THEN "dropped" ELSE "lost"
    <2>1. CASE k \notin job[th].taken
      <3>1. Waiting(k)' <=> Waiting(k)
        BY <1>1, <1>2, <1>3, <2>1, WaitingSame
      <3> QED
        BY <1>1, <1>4, <2>1, <3>1, DueSame
    <2>2. CASE k \in loggedOutAlready
      BY <1>1, <2>2 DEF Due
    <2>3. CASE k \in job[th].taken /\ k \notin loggedOutAlready
      <3>1. Waiting(k) /\ k \in granted
        BY <1>3, <2>3, WaitingGranted DEF Waiting
      <3>2. k \in lost' <=> k \notin FrontChannel
        BY <1>1, <2>3 DEF Handled, LostInv
      <3>3. CASE Waiting(k)'
        BY <1>1, <2>3, <3>1, <3>3 DEF Due
      <3>4. CASE ~Waiting(k)'
        BY <1>1, <2>3, <3>1, <3>2, <3>4 DEF Due
      <3> QED
        BY <3>3, <3>4
    <2> QED
      BY <2>1, <2>2, <2>3
  <1>6. \A k \in K : k \in Tokens /\ TicketOf[k] = g /\ Due(k) \in {"owed", "late"}
    BY <1>1, <1>3 DEF Waiting, Due
  <1>7. \A t \in Tgts \ {g} : \A u \in Threads : Closing(u, t)' <=> Closing(u, t)
    BY <1>0, <1>1, <1>2 DEF Closing, LogoutPcs
  <1>8. \A t \in Tgts \ {g} : Stage(t)' = Stage(t)
    BY <1>1, <1>7, StageSame
  <1>9. UnderLogout(g)
    BY <1>0, <1>1 DEF UnderLogout, LogoutPcs
  <1>10. /\ Stage(g) # "open"
         /\ Stage(g)' \in {Stage(g)} \union (IF Stage(g) = "closing" THEN {"open"} ELSE {})
    BY <1>1, <1>9 DEF Stage
  <1>11. Stages' = [Stages EXCEPT ![g] = Stage(g)'] /\ Stages[g] = Stage(g)
    BY <1>1, <1>8 DEF Stages
  <1>12. Dues' = [k \in Tokens |-> IF k \notin K THEN Dues[k]
                                 ELSE IF k \in FrontChannel THEN "dropped" ELSE "lost"]
    BY <1>5 DEF Dues
  <1>13. K \in SUBSET {k \in Tokens : TicketOf[k] = g /\ Dues[k] \in {"owed", "late"}}
    BY <1>6 DEF Dues
  <1> HIDE DEF K
  <1>14. Notices!Break(g)
    BY <1>1, <1>10, <1>11, <1>12, <1>13 DEF Notices!Break, Stages, Dues
  <1> QED
    BY <1>1, <1>14 DEF NoticeStep, Notices!Next

\* Every step is a step of ServiceNotices, or none.
LEMMA StepNotices ==
    ASSUME NoticeInv, [Next]_vars
    PROVE  NoticeStep
  <1>1. CASE UNCHANGED vars
    <2>1. /\ \A t \in Tgts : Stage(t)' = Stage(t)
          /\ \A k \in Tokens : Due(k)' = Due(k)
          /\ sent' = sent
      BY <1>1 DEF vars, tickets, threads, history, Stage, UnderLogout, Due, Waiting, Hand, Asked
    <2> QED
      BY <2>1, NothingHappens
  <1>2. ASSUME NEW th \in Threads, Step(th), ~NextTicket(th)
        PROVE  NoticeStep
    <2> USE DEF NoticeInv
    <2>0. \A u \in Threads \ {th} : pc'[u] = pc[u] /\ job'[u] = job[u]
      BY <1>2, OthersStay
    <2>1. ASSUME services' = services, Hand(th)' = Hand(th)
          PROVE  \A k \in Tokens : Waiting(k)' <=> Waiting(k)
      <3>1. ASSUME NEW k \in Tokens
            PROVE  (k \in Hand(th) => Waiting(k)') /\ (k \in Hand(th)' => Waiting(k))
        BY <2>1 DEF Waiting
      <3> QED
        BY <2>0, <2>1, <3>1, WaitingSame
    <2>2. CASE AddTicket(th) \/ GrantUpdate(th) \/ (MarkUpdate(th) /\ pc'[th] # "idle")
      <3>1. UNCHANGED <<services, loggedOutAlready, sent, granted, late, lost, phase>>
        BY <2>2, PutMoves, MarkMoves
      <3>2. \/ /\ pc[th] \in {"add", "updateGrant"} /\ pc'[th] \in {pc[th], "next", "idle"}
               /\ job[th].taken = {} /\ job'[th].taken = {}
            \/ /\ pc[th] = "updateMark" /\ pc'[th] \in {"updateMark", "notify"}
               /\ job'[th].tgt = job[th].tgt /\ job'[th].taken = job[th].taken
        BY <2>2, PutMoves, MarkMoves DEF TakenInv
      <3>3. Hand(th)' = Hand(th)
        BY <3>2 DEF Hand
      <3>4. \A k \in Tokens : Waiting(k)' <=> Waiting(k)
        BY <2>1, <3>1, <3>3
      <3> QED
        BY <2>0, <3>1, <3>2, <3>4, QuietNotices DEF LogoutPcs
    <2>3. CASE MarkTicketExpired(th) \/ ServicesDone(th)
      <3>1. /\ UNCHANGED <<services, loggedOutAlready, sent, granted, late, lost, phase>>
            /\ pc[th] \in {"mark", "notify"}
        BY <2>3 DEF MarkTicketExpired, ServicesDone, tickets, history
      <3>2. pc'[th] \in {"updateMark", "delete"} /\ job' = job
        BY <2>3, LogoutMoves
      <3>3. Hand(th)' = Hand(th)
        BY <3>1, <3>2 DEF Hand
      <3>4. \A k \in Tokens : Waiting(k)' <=> Waiting(k)
        BY <2>1, <3>1, <3>3
      <3> QED
        BY <2>0, <3>1, <3>2, <3>4, QuietNotices DEF LogoutPcs
    <2>4. CASE RetrieveServices(th)
      <3>1. /\ UNCHANGED <<services, loggedOutAlready, sent, granted, late, lost, phase>>
            /\ pc[th] = "retrieve" /\ pc'[th] = "clear"
            /\ job'[th].tgt = job[th].tgt /\ job'[th].taken = services[job[th].tgt]
            /\ job[th].taken = {} /\ job[th].tgt \in Tgts
        BY <2>4, LogoutMoves DEF RetrieveServices, tickets, history, TakenInv, TypeOK
      <3>2. Hand(th) = {} /\ Hand(th)' = services[job[th].tgt]
        BY <3>1 DEF Hand
      <3>3. \A k \in Tokens : k \in Hand(th)' => Waiting(k)
        BY <3>1, <3>2 DEF Waiting, TakenInv
      <3>4. \A k \in Tokens : Waiting(k)' <=> Waiting(k)
        BY <2>0, <3>1, <3>2, <3>3, WaitingSame
      <3> QED
        BY <2>0, <3>1, <3>4, QuietNotices DEF LogoutPcs
    <2> QED
      BY <1>2, <2>2, <2>3, <2>4, PutNotices, ClearNotices, TurnNotices, SendNotices,
         DeleteNotices, BreakNotices DEF Step
  <1> QED
    BY <1>1, <1>2, BeginNotices DEF Next

\* What logouts promise the services (performLogout), whatever threads overlap and
\* whatever cache writes fail: a service that is in when the logout begins stays owed
\* a message until it has one or the logout breaks off, and a TGT that is over lets
\* nobody ask.
THEOREM LogoutsGiveNotice == Spec => ImplementsNotices
  <1>1. Init => NoticeInv
    BY NoJobTyped
    DEF Init, NoticeInv, MarkedInv, TakenInv, AskedInv, LostInv, NoJob, Hand, TypeOK, Fits, Pcs
  <1>2. NoticeInv /\ [Next]_vars => (MarkedInv /\ TakenInv /\ AskedInv /\ LostInv)'
    BY MarkedPreserved, TakenPreserved, AskedPreserved, LostPreserved DEF NoticeInv
  <1>3. Spec => []NoticeInv
    <2>1. TypeOK' /\ NoticeInv /\ [Next]_vars => NoticeInv'
      BY <1>2 DEF NoticeInv
    <2> QED
      BY <1>1, <2>1, TypeCorrect, PTL DEF Spec
  <1>4. Init => Notices!Init
    <2> SUFFICES ASSUME Init PROVE Notices!Init
      OBVIOUS
    <2>1. \A th \in Threads : pc[th] = "idle" /\ Hand(th) = {}
      BY DEF Init, Hand, NoJob
    <2>2. \A t \in Tgts : Stage(t) = "open"
      BY <2>1 DEF Init, Stage, UnderLogout, LogoutPcs
    <2>3. ASSUME NEW k \in Tokens PROVE Due(k) = "unknown"
      <3>1. ~Waiting(k)
        BY <2>1, LogoutConstants DEF Init, Waiting
      <3>2. ~Asked(k)
        BY <2>1 DEF Asked
      <3> QED
        BY <3>1, <3>2 DEF Init, Due
    <2> QED
      BY <2>2, <2>3 DEF Init, Notices!Init
  <1>5. NoticeInv /\ [Next]_vars
          => [Notices!Next]_<<[t \in Tgts |-> Stage(t)], [k \in Tokens |-> Due(k)], sent>>
    BY StepNotices DEF NoticeStep, Stages, Dues
  <1> QED
    BY <1>3, <1>4, <1>5, PTL DEF Spec, ImplementsNotices, Notices!Spec
=============================================================================
