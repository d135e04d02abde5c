------------------------ MODULE WorkflowMirrorProofs ------------------------
(***************************************************************************)
(* Proofs about WorkflowMirror for every acyclic net and any number of     *)
(* threads: type correctness, the mirror's invariant, and, when nobody     *)
(* bypasses the service, the implementation of ProcessLog; what holds with *)
(* a bypass comes last.                                                    *)
(***************************************************************************)
EXTENDS WorkflowMirror, TLAPS

\* Tasks that open are tasks, not done, and open later unless done themselves.
LEMMA OpenedByTasks ==
    ASSUME NEW d \in SUBSET Tasks
    PROVE  /\ OpenedBy(d) \subseteq Tasks \ d
           /\ \A t \in OpenedBy(d) : Pre[t] \subseteq d
           /\ \A t \in Tasks, u \in OpenedBy(d) : u # t => u \in OpenedBy(d \union {t})
  BY ProcessConstants DEF OpenedBy

\* Only a net that is done opens nothing: it has no cycle.
LEMMA NothingOpenMeansDone ==
    ASSUME NEW d \in SUBSET Tasks
    PROVE  OpenedBy(d) = {} <=> d = Tasks
  BY ProcessConstants DEF OpenedBy

\* A task that t opens once u is done too was opened by t before, if t and u
\* share no join: what a transaction listed is not outdated by the others.
LEMMA NoSharedJoin ==
    ASSUME NEW d \in SUBSET Tasks, NEW t \in Tasks, NEW u \in Tasks, ~Entangled(u, t)
    PROVE  OpenedBy(d \union {u} \union {t}) \ OpenedBy(d \union {u})
             \subseteq OpenedBy(d \union {t}) \ OpenedBy(d)
  <1>1. SUFFICES ASSUME NEW j \in Tasks, j \notin d \union {u} \union {t},
                        Pre[j] \subseteq d \union {u} \union {t},
                        ~(Pre[j] \subseteq d \union {u})
                 PROVE  Pre[j] \subseteq d \union {t} /\ ~(Pre[j] \subseteq d)
    BY DEF OpenedBy
  <1>2. t \in Pre[j]
    BY <1>1
  <1>3. u \notin Pre[j]
    BY <1>2 DEF Entangled
  <1> QED
    BY <1>1, <1>3

-----------------------------------------------------------------------------
(* Type correctness.                                                       *)

\* Completing a task leaves the engine's variables well typed.
LEMMA AdvanceTyped ==
    ASSUME TypeOK, NEW t \in Tasks, Advance(t)
    PROVE  /\ engine' \in {"none", "active", "ended", "deleted"}
           /\ open' \subseteq Tasks
           /\ done' \subseteq Tasks
  BY DEF TypeOK, Advance, OpenedBy

\* Counting rows: one less for the task done, one more for each task listed.
LEMMA CommitCounts ==
    ASSUME TypeOK, NEW th \in Threads, Commit(th), rows[job[th].task] > 0
    PROVE  /\ rows' \in [Tasks -> Nat]
           /\ opers' \in [Tasks -> Nat]
           /\ \A u \in Tasks : u # job[th].task => rows'[u] >= rows[u]
           /\ \A u \in job[th].listed : u # job[th].task => rows'[u] > 0
  BY DEF TypeOK, Commit, Jobs

\* The invariants are preserved together: a commit deletes a row that is there
\* because the task is open.
IInv == TypeOK /\ MirrorInv

\* Initially nothing has happened.
LEMMA InitInv == Init => IInv
  BY DEF Init, IInv, TypeOK, MirrorInv, EngineState, Transactions, OpenTaskHasRow,
         RecordedOnce, InProgress, Jobs, NoJob

\* The transaction of thread th commits.
LEMMA CommitInv ==
    ASSUME IInv, NEW th \in Threads, Commit(th)
    PROVE  IInv'
  <1> DEFINE t == job[th].task
             d == done
  <1> USE DEF IInv
  <1>1. t \in Tasks /\ t \in open /\ InProgress(th) /\ pc[th] = "listed"
    BY DEF MirrorInv, Transactions, InProgress, Commit, TypeOK
  <1>2. engine = "active" /\ open = OpenedBy(done) /\ state = "0"
    BY <1>1 DEF MirrorInv, EngineState
  <1>3. done' = done \union {t} /\ open' = OpenedBy(done \union {t})
    BY DEF Commit, Advance
  <1>4. rows[t] > 0 /\ t \notin done /\ job[th].listed \subseteq Tasks
    BY <1>1, <1>2 DEF MirrorInv, OpenTaskHasRow, TypeOK, Jobs, OpenedBy
  <1>5. OpenedBy(done \union {t}) \ open \subseteq job[th].listed
    BY <1>1 DEF MirrorInv, Transactions
  <1>6. TypeOK'
    <2>1. pc' \in [Threads -> {"idle", "read", "completed", "listed"}] /\ job' \in [Threads -> Jobs]
      BY DEF TypeOK, Commit, Finish, NoJob, Jobs
    <2>2. \A u \in Threads : pc'[u] # "idle" => job'[u].task \in Tasks
      BY DEF TypeOK, Commit, Finish
    <2>3. state' \in {"none", "0", "1"}
      BY <1>2 DEF Commit
    <2> QED
      BY <1>1, <1>4, <2>1, <2>2, <2>3, AdvanceTyped, CommitCounts DEF TypeOK, Commit
  <1>7. EngineState'
    <2>1. engine' = (IF open' = {} THEN "ended" ELSE "active")
      BY <1>2, <1>3 DEF Commit, Advance
    <2>2. state' = (IF open' = {} THEN "1" ELSE "0")
      BY <1>2, <1>3 DEF Commit
    <2> QED
      BY <1>3, <2>1, <2>2 DEF EngineState
  <1>8. OpenTaskHasRow'
    <2>1. SUFFICES ASSUME NEW u \in open'
                   PROVE  rows'[u] > 0
      BY DEF OpenTaskHasRow
    <2>2. u \in Tasks /\ u # t
      BY <1>3 DEF OpenedBy
    <2>3. CASE u \in open
      <3>1. rows[u] > 0 /\ rows[u] \in Nat /\ rows'[u] \in Nat
        BY <1>4, <2>2, <2>3, CommitCounts DEF MirrorInv, OpenTaskHasRow, TypeOK
      <3>2. rows'[u] >= rows[u]
        BY <1>4, <2>2, CommitCounts
      <3> QED
        BY <3>1, <3>2
    <2>4. CASE u \notin open
      BY <1>3, <1>4, <1>5, <2>2, <2>4, CommitCounts
    <2> QED
      BY <2>3, <2>4
  <1>9. RecordedOnce'
    BY <1>1, <1>3, <1>4 DEF RecordedOnce, MirrorInv, Commit, TypeOK
  <1>10. Transactions'
    <2>1. SUFFICES ASSUME NEW x \in Threads, InProgress(x)'
                   PROVE  /\ job'[x].task \in open'
                          /\ pc'[x] = "listed" => (OpenedBy(done \union {job[x].task}) \ open)' \subseteq job'[x].listed
                          /\ \A u \in Threads \ {x} : InProgress(u)' =>
                                job'[u].task # job'[x].task /\ ~Entangled(job'[u].task, job'[x].task)
      BY DEF Transactions, Entangled
    <2>2. \A y \in Threads : InProgress(y)' => y # th /\ InProgress(y) /\ pc'[y] = pc[y] /\ job'[y] = job[y]
      BY DEF InProgress, Commit, Finish, TypeOK
    <2>3. x # th /\ InProgress(x) /\ pc'[x] = pc[x] /\ job'[x] = job[x]
      BY <2>1, <2>2
    <2>4. job[x].task \in open /\ job[x].task \in Tasks /\ job[x].task # t /\ ~Entangled(t, job[x].task)
      BY <1>1, <2>3 DEF MirrorInv, Transactions, TypeOK, InProgress
    <2>5. job'[x].task \in open'
      BY <1>1, <1>2, <1>3, <2>3, <2>4, OpenedByTasks DEF TypeOK
    <2>6. ASSUME pc'[x] = "listed"
          PROVE  OpenedBy(done' \union {job'[x].task}) \ open' \subseteq job'[x].listed
      <3>1. OpenedBy(done \union {job[x].task}) \ OpenedBy(done) \subseteq job[x].listed
        BY <1>2, <2>3, <2>6 DEF MirrorInv, Transactions
      <3>2. OpenedBy(done \union {t} \union {job[x].task}) \ OpenedBy(done \union {t})
              \subseteq OpenedBy(done \union {job[x].task}) \ OpenedBy(done)
        BY <1>1, <2>4, NoSharedJoin DEF TypeOK
      <3> QED
        BY <1>3, <2>3, <3>1, <3>2
    <2>7. \A u \in Threads \ {x} : InProgress(u)' =>
              job'[u].task # job'[x].task /\ ~Entangled(job'[u].task, job'[x].task)
      BY <2>2, <2>3 DEF MirrorInv, Transactions
    <2> QED
      BY <2>5, <2>6, <2>7
  <1> QED
    BY <1>6, <1>7, <1>8, <1>9, <1>10 DEF MirrorInv

\* Steps that only move one thread on, without committing anything.
LEMMA ThreadStepInv ==
    ASSUME IInv, NEW th \in Threads,
           \/ \E t \in Tasks : ReadRow(th, t)
           \/ EngineComplete(th)
           \/ Rollback(th)
           \/ ListTasks(th)
    PROVE  IInv'
  <1> USE DEF IInv
  <1>1. UNCHANGED <<activiti, tables>>
    BY DEF ReadRow, EngineComplete, Rollback, ListTasks
  <1>2. EngineState' /\ OpenTaskHasRow' /\ RecordedOnce'
    BY <1>1 DEF MirrorInv, EngineState, OpenTaskHasRow, RecordedOnce, OpenedBy, activiti, tables
  <1>3. \A u \in Threads \ {th} : pc'[u] = pc[u] /\ job'[u] = job[u]
    BY DEF ReadRow, EngineComplete, Rollback, ListTasks, Finish, TypeOK
  <1>4. TypeOK'
    <2>1. pc' \in [Threads -> {"idle", "read", "completed", "listed"}] /\ job' \in [Threads -> Jobs]
      BY DEF TypeOK, ReadRow, EngineComplete, Rollback, ListTasks, Finish, NoJob, Jobs, OpenedBy
    <2>2. pc'[th] # "idle" => job'[th].task \in Tasks
      BY DEF TypeOK, ReadRow, EngineComplete, Rollback, ListTasks, Finish, NoJob, Jobs
    <2> QED
      BY <1>1, <1>3, <2>1, <2>2 DEF TypeOK, activiti, tables
  <1>5. CASE \E t \in Tasks : ReadRow(th, t)
    <2>1. ~InProgress(th)'
      BY <1>5 DEF InProgress, ReadRow, TypeOK
    <2> QED
      BY <1>1, <1>2, <1>3, <1>4, <2>1
      DEF MirrorInv, Transactions, InProgress, Entangled, OpenedBy, activiti
  <1>6. CASE EngineComplete(th)
    <2>1. pc'[th] = "completed" /\ job' = job
      BY <1>6 DEF EngineComplete, TypeOK
    <2>2. job[th].task \in open /\ job[th].task \in Tasks
      BY <1>6 DEF EngineComplete, Completable, TypeOK
    <2>3. \A u \in Threads \ {th} : InProgress(u) =>
              /\ job[u].task # job[th].task
              /\ ~Entangled(job[u].task, job[th].task)
              /\ ~Entangled(job[th].task, job[u].task)
      BY <1>6 DEF EngineComplete, Completable, Uncommitted, InProgress, Entangled
    <2>4. Transactions'
      BY <1>1, <1>3, <2>1, <2>2, <2>3
      DEF MirrorInv, Transactions, InProgress, Entangled, OpenedBy, activiti
    <2> QED
      BY <1>2, <1>4, <2>4 DEF MirrorInv
  <1>7. CASE Rollback(th)
    <2>1. ~InProgress(th)'
      BY <1>7 DEF InProgress, Rollback, Finish, TypeOK
    <2> QED
      BY <1>1, <1>2, <1>3, <1>4, <2>1
      DEF MirrorInv, Transactions, InProgress, Entangled, OpenedBy, activiti
  <1>8. CASE ListTasks(th)
    <2>1. /\ pc[th] = "completed" /\ pc'[th] = "listed"
          /\ job'[th].task = job[th].task
          /\ job'[th].listed = OpenedBy(done \union {job[th].task})
      BY <1>8 DEF ListTasks, TypeOK, Jobs
    <2>2. Transactions'
      BY <1>1, <1>3, <2>1
      DEF MirrorInv, Transactions, InProgress, Entangled, OpenedBy, activiti
    <2> QED
      BY <1>2, <1>4, <2>2 DEF MirrorInv
  <1> QED
    BY <1>5, <1>6, <1>7, <1>8

\* The instance is started: the tasks that wait for nothing get their rows.
LEMMA StartInv ==
    ASSUME IInv, Start
    PROVE  IInv'
  <1> USE DEF IInv
  <1>1. done = {} /\ open = {} /\ open' = OpenedBy(done')
    BY DEF Start, MirrorInv, EngineState
  <1>2. open' # {} /\ open' \subseteq Tasks
    BY <1>1, NothingOpenMeansDone, ProcessConstants DEF OpenedBy, Start
  <1>3. \A th \in Threads : ~InProgress(th)
    BY <1>1 DEF MirrorInv, Transactions
  <1>4. TypeOK'
    BY <1>2 DEF TypeOK, Start, threads
  <1>5. EngineState'
    BY <1>1, <1>2 DEF EngineState, Start
  <1>6. Transactions'
    BY <1>3 DEF Transactions, InProgress, Start, threads
  <1>7. OpenTaskHasRow' /\ RecordedOnce'
    BY <1>1, <1>2 DEF OpenTaskHasRow, RecordedOnce, Start, MirrorInv, TypeOK
  <1> QED
    BY <1>4, <1>5, <1>6, <1>7 DEF MirrorInv

\* Without a bypass the service keeps the tables in step with the engine.
THEOREM MirrorInductive ==
    ASSUME ~Bypass
    PROVE  Spec => []IInv
  <1>1. Init => IInv
    BY InitInv
  <1>2. IInv /\ [Next]_vars => IInv'
    <2> SUFFICES ASSUME IInv, [Next]_vars
                 PROVE  IInv'
      OBVIOUS
    <2>1. CASE Start
      BY <2>1, StartInv
    <2>2. CASE \E th \in Threads, t \in Tasks : ReadRow(th, t)
      BY <2>2, ThreadStepInv
    <2>3. CASE \E th \in Threads : EngineComplete(th) \/ Rollback(th) \/ ListTasks(th)
      BY <2>3, ThreadStepInv
    <2>4. CASE \E th \in Threads : Commit(th)
      BY <2>4, CommitInv
    <2>5. CASE (\E t \in Tasks : ToTask(t)) \/ DeleteProcessInstance
      BY <2>5 DEF ToTask, DeleteProcessInstance
    <2>6. CASE UNCHANGED vars
      BY <2>6 DEF vars, activiti, tables, threads, IInv, TypeOK, MirrorInv, EngineState,
                  Transactions, OpenTaskHasRow, RecordedOnce, InProgress, Entangled, OpenedBy
    <2> QED
      BY <2>1, <2>2, <2>3, <2>4, <2>5, <2>6 DEF Next
  <1> QED
    BY <1>1, <1>2, PTL DEF Spec

\* Whatever the net and the number of threads, an open task can be found by its
\* row (ProcessBaseServiceImpl.complete and startProcessInstanceById).
THEOREM OpenTasksHaveRows ==
    ASSUME ~Bypass
    PROVE  Spec => []OpenTaskHasRow
  <1>1. IInv => OpenTaskHasRow
    BY DEF IInv, MirrorInv
  <1> QED
    BY <1>1, MirrorInductive, PTL

\* No task is recorded twice or without having been done (complete).
THEOREM OperationsRecordedOnce ==
    ASSUME ~Bypass
    PROVE  Spec => []RecordedOnce
  <1>1. IInv => RecordedOnce
    BY DEF IInv, MirrorInv
  <1> QED
    BY <1>1, MirrorInductive, PTL

-----------------------------------------------------------------------------
(* The recorded operations are a process log.                              *)

\* With the invariant the log is the engine's own account of what is done.
LEMMA LogIsDone ==
    ASSUME IInv
    PROVE  {t \in Tasks : opers[t] > 0} = done
  BY DEF IInv, TypeOK, MirrorInv, RecordedOnce

\* A commit records its task: the tasks it waited for are recorded, and the
\* instance is closed if and only if it was the last one.
LEMMA CommitRecords ==
    ASSUME IInv, IInv', NEW th \in Threads, Commit(th)
    PROVE  Log!Next
  <1> DEFINE t == job[th].task
             log == {u \in Tasks : opers[u] > 0}
  <1>1. t \in Tasks /\ t \in open /\ engine = "active" /\ state = "0" /\ open = OpenedBy(done)
    BY DEF IInv, MirrorInv, Transactions, EngineState, InProgress, Commit, TypeOK
  <1>2. log = done /\ log' = done \union {t}
    BY LogIsDone DEF Commit, Advance, IInv, TypeOK, MirrorInv, RecordedOnce
  <1>3. t \notin done /\ Pre[t] \subseteq done /\ done \union {t} \in SUBSET Tasks
    BY <1>1 DEF OpenedBy, IInv, TypeOK
  <1>4. (state' = "1") = (done \union {t} = Tasks)
    BY <1>1, <1>3, NothingOpenMeansDone DEF Commit
  <1> QED
    BY <1>1, <1>2, <1>3, <1>4 DEF Log!Next, Log!Record

\* Every other step leaves the log alone.
LEMMA OthersStutter ==
    ASSUME IInv, ~Bypass, [Next]_vars, ~ \E th \in Threads : Commit(th)
    PROVE  UNCHANGED <<{t \in Tasks : opers[t] > 0}, state = "1">>
  <1>1. CASE Start
    BY <1>1 DEF Start, IInv, MirrorInv, EngineState
  <1>2. CASE \E th \in Threads : \/ \E t \in Tasks : ReadRow(th, t)
                                 \/ EngineComplete(th) \/ Rollback(th) \/ ListTasks(th)
    BY <1>2 DEF ReadRow, EngineComplete, Rollback, ListTasks, tables
  <1>3. CASE UNCHANGED vars
    BY <1>3 DEF vars, tables
  <1> QED
    BY <1>1, <1>2, <1>3 DEF Next, ToTask, DeleteProcessInstance

\* The service implements the process log, for every acyclic net.
THEOREM ServiceImplementsLog ==
    ASSUME ~Bypass
    PROVE  Spec => ImplementsLog
  <1>1. Init => Log!Init
    BY DEF Init, Log!Init
  <1>2. IInv /\ IInv' /\ [Next]_vars => [Log!Next]_<<{t \in Tasks : opers[t] > 0}, state = "1">>
    BY CommitRecords, OthersStutter
  <1> QED
    BY <1>1, <1>2, MirrorInductive, PTL DEF Spec, ImplementsLog, Log!Spec

-----------------------------------------------------------------------------
(* With or without the pages that call the engine directly.                *)

\* What a thread has in hand: the row it read stays until the task is done, and
\* the task a transaction has completed is open and its own until it commits.
InHand ==
    \A th \in Threads :
        LET t == job[th].task
        IN  /\ pc[th] = "read" => rows[t] > 0 \/ t \in done
            /\ InProgress(th) =>
                   /\ t \in open /\ rows[t] > 0
                   /\ \A u \in Threads \ {th} : InProgress(u) => job[u].task # t

\* The engine waits for tasks while it is active only, there is nothing before
\* the start, and an ended instance is the only one marked as such.
EngineRuns ==
    /\ open \intersect done = {}
    /\ engine = "active" => open = OpenedBy(done)
    /\ engine # "active" => open = {}
    /\ engine = "none" => done = {} /\ \A t \in Tasks : rows[t] = 0
    /\ EndedIsOver

AnyInv == TypeOK /\ EngineRuns /\ InHand /\ RecordedAtMostOnce

\* A completed task leaves the others open, and only an active instance has one.
LEMMA AdvanceRuns ==
    ASSUME TypeOK, EngineRuns, NEW t \in open, Advance(t)
    PROVE  /\ t \in Tasks /\ t \notin done /\ engine = "active" /\ state # "1"
           /\ open \ {t} \subseteq open'
           /\ open' \intersect done' = {}
           /\ engine' = "active" => open' = OpenedBy(done')
           /\ engine' # "active" => open' = {} /\ engine' = "ended"
  <1>1. t \in Tasks /\ t \notin done /\ engine = "active" /\ state # "1" /\ open = OpenedBy(done)
    BY DEF TypeOK, EngineRuns, EndedIsOver
  <1>2. \A u \in open : u # t => u \in OpenedBy(done \union {t})
    BY <1>1, OpenedByTasks DEF TypeOK
  <1>3. OpenedBy(done \union {t}) \intersect (done \union {t}) = {}
    BY DEF OpenedBy
  <1> QED
    BY <1>1, <1>2, <1>3 DEF Advance

\* The transaction of thread th commits.
LEMMA CommitAny ==
    ASSUME AnyInv, NEW th \in Threads, Commit(th)
    PROVE  AnyInv'
  <1> DEFINE t == job[th].task
  <1> USE DEF AnyInv
  <1>1. pc[th] = "listed" /\ InProgress(th) /\ t \in open /\ rows[t] > 0 /\ Advance(t)
    BY DEF Commit, InHand, InProgress
  <1>2. /\ t \in Tasks /\ t \notin done /\ engine = "active" /\ state # "1"
        /\ open \ {t} \subseteq open' /\ open' \intersect done' = {}
        /\ engine' = "active" => open' = OpenedBy(done')
        /\ engine' # "active" => open' = {} /\ engine' = "ended"
    BY <1>1, AdvanceRuns
  <1>3. done' = done \union {t}
    BY <1>1 DEF Advance
  <1>4. \A u \in Threads \ {th} : pc'[u] = pc[u] /\ job'[u] = job[u]
    BY DEF Commit, Finish, TypeOK
  <1>5. pc'[th] = "idle" /\ job'[th] = NoJob
    BY DEF Commit, Finish, TypeOK
  <1>6. /\ rows' \in [Tasks -> Nat] /\ opers' \in [Tasks -> Nat]
        /\ \A u \in Tasks : u # t => rows'[u] >= rows[u]
    BY <1>1, CommitCounts
  <1>7. TypeOK'
    <2>1. engine' \in {"none", "active", "ended", "deleted"} /\ open' \subseteq Tasks /\ done' \subseteq Tasks
      BY <1>1, <1>2, AdvanceTyped
    <2>2. /\ pc' \in [Threads -> {"idle", "read", "completed", "listed"}]
          /\ job' \in [Threads -> Jobs]
      BY DEF Commit, Finish, TypeOK, Jobs, NoJob
    <2>3. state' \in {"none", "0", "1"}
      BY DEF Commit, TypeOK
    <2>4. \A u \in Threads : pc'[u] # "idle" => job'[u].task \in Tasks
      BY <1>4, <1>5 DEF TypeOK
    <2> QED
      BY <1>6, <2>1, <2>2, <2>3, <2>4 DEF TypeOK
  <1>8. EngineRuns'
    BY <1>1, <1>2 DEF EngineRuns, EndedIsOver, Commit, Advance
  <1>9. InHand'
    <2>1. ASSUME NEW u \in Threads \ {th}, pc[u] = "read"
          PROVE  rows'[job[u].task] > 0 \/ job[u].task \in done'
      BY <1>3, <1>6, <2>1 DEF InHand, TypeOK
    <2>2. ASSUME NEW u \in Threads \ {th}, InProgress(u)
          PROVE  job[u].task \in open' /\ rows'[job[u].task] > 0
      <3>1. job[u].task # t /\ job[u].task \in open /\ rows[job[u].task] > 0 /\ job[u].task \in Tasks
        BY <1>1, <2>2 DEF InHand, TypeOK
      <3> QED
        BY <1>2, <1>6, <3>1 DEF TypeOK
    <2> QED
      BY <1>4, <1>5, <2>1, <2>2 DEF InHand, InProgress
  <1>10. RecordedAtMostOnce'
    BY <1>2, <1>3 DEF RecordedAtMostOnce, Commit, TypeOK
  <1> QED
    BY <1>7, <1>8, <1>9, <1>10

\* The steps of thread th that leave engine and tables alone.
LEMMA ThreadStepAny ==
    ASSUME AnyInv, NEW th \in Threads,
           \/ \E t \in Tasks : ReadRow(th, t)
           \/ EngineComplete(th)
           \/ Rollback(th)
           \/ ListTasks(th)
    PROVE  AnyInv'
  <1> USE DEF AnyInv
  <1>1. UNCHANGED <<activiti, tables>>
    BY DEF ReadRow, EngineComplete, Rollback, ListTasks
  <1>2. EngineRuns' /\ RecordedAtMostOnce'
    BY <1>1 DEF EngineRuns, EndedIsOver, RecordedAtMostOnce, OpenedBy, activiti, tables
  <1>3. \A u \in Threads \ {th} : pc'[u] = pc[u] /\ job'[u] = job[u]
    BY DEF ReadRow, EngineComplete, Rollback, ListTasks, Finish, TypeOK
  <1>4. TypeOK'
    <2>1. pc' \in [Threads -> {"idle", "read", "completed", "listed"}] /\ job' \in [Threads -> Jobs]
      BY DEF TypeOK, ReadRow, EngineComplete, Rollback, ListTasks, Finish, NoJob, Jobs, OpenedBy
    <2>2. pc'[th] # "idle" => job'[th].task \in Tasks
      BY DEF TypeOK, ReadRow, EngineComplete, Rollback, ListTasks, Finish, NoJob, Jobs
    <2> QED
      BY <1>1, <1>3, <2>1, <2>2 DEF TypeOK, activiti, tables
  <1>5. CASE \E t \in Tasks : ReadRow(th, t)
    <2>1. pc'[th] = "read" /\ rows[job'[th].task] > 0
      BY <1>5 DEF ReadRow, TypeOK, Jobs
    <2> QED
      BY <1>1, <1>2, <1>3, <1>4, <2>1 DEF InHand, InProgress, activiti, tables
  <1>6. CASE EngineComplete(th)
    <2>1. pc[th] = "read" /\ pc'[th] = "completed" /\ job' = job /\ job[th].task \in open
      BY <1>6 DEF EngineComplete, Completable, TypeOK
    <2>2. rows[job[th].task] > 0
      BY <2>1 DEF InHand, EngineRuns
    <2>3. \A u \in Threads \ {th} : InProgress(u) => job[u].task # job[th].task
      BY <1>6 DEF EngineComplete, Completable, Uncommitted, InProgress
    <2> QED
      BY <1>1, <1>2, <1>3, <1>4, <2>1, <2>2, <2>3 DEF InHand, InProgress, activiti, tables
  <1>7. CASE Rollback(th)
    <2>1. pc'[th] = "idle"
      BY <1>7 DEF Rollback, Finish, TypeOK
    <2> QED
      BY <1>1, <1>2, <1>3, <1>4, <2>1 DEF InHand, InProgress, activiti, tables
  <1>8. CASE ListTasks(th)
    <2>1. pc[th] = "completed" /\ pc'[th] = "listed" /\ job'[th].task = job[th].task
      BY <1>8 DEF ListTasks, TypeOK, Jobs
    <2> QED
      BY <1>1, <1>2, <1>3, <1>4, <2>1 DEF InHand, InProgress, activiti, tables
  <1> QED
    BY <1>5, <1>6, <1>7, <1>8

\* The steps outside the threads: a start, and the pages.
LEMMA OutsideAny ==
    ASSUME AnyInv, Start \/ DeleteProcessInstance \/ \E t \in Tasks : ToTask(t)
    PROVE  AnyInv'
  <1> USE DEF AnyInv
  <1>1. UNCHANGED threads
    BY DEF Start, DeleteProcessInstance, ToTask
  <1>2. CASE Start
    <2>1. /\ done = {} /\ open' = OpenedBy({}) /\ engine' = "active" /\ state' = "0"
          /\ rows' \in [Tasks -> Nat] /\ UNCHANGED <<done, opers>>
          /\ \A th \in Threads : pc[th] = "idle"
      BY <1>2 DEF Start, EngineRuns, InHand, InProgress, TypeOK
    <2>2. OpenedBy({}) \subseteq Tasks
      BY DEF OpenedBy
    <2> QED
      BY <1>1, <2>1, <2>2 DEF TypeOK, EngineRuns, EndedIsOver, InHand, InProgress,
                              OpenedBy, RecordedAtMostOnce, threads
  <1>3. CASE DeleteProcessInstance
    <2>1. \A th \in Threads : ~InProgress(th)
      BY <1>3 DEF DeleteProcessInstance, Uncommitted, InProgress
    <2> QED
      BY <1>1, <1>3, <2>1 DEF DeleteProcessInstance, TypeOK, EngineRuns, EndedIsOver, InHand,
                             InProgress, RecordedAtMostOnce, tables, threads
  <1>4. ASSUME NEW t \in Tasks, ToTask(t)
        PROVE  AnyInv'
    <2>1. t \in open /\ Advance(t) /\ UNCHANGED <<tables, threads>>
      BY <1>4 DEF ToTask, Completable
    <2>2. \A th \in Threads : InProgress(th) => job[th].task # t
      BY <1>4 DEF ToTask, Completable, Uncommitted, InProgress
    <2>3. /\ t \in Tasks /\ t \notin done /\ engine = "active" /\ state # "1"
          /\ open \ {t} \subseteq open' /\ open' \intersect done' = {}
          /\ engine' = "active" => open' = OpenedBy(done')
          /\ engine' # "active" => open' = {} /\ engine' = "ended"
      BY <2>1, AdvanceRuns
    <2>4. done' = done \union {t}
      BY <2>1 DEF Advance
    <2>5. TypeOK'
      BY <2>1, AdvanceTyped DEF TypeOK, tables, threads
    <2>6. EngineRuns'
      BY <2>1, <2>3 DEF EngineRuns, EndedIsOver, tables
    <2>7. InHand'
      BY <2>1, <2>2, <2>3, <2>4 DEF InHand, InProgress, tables, threads
    <2>8. RecordedAtMostOnce'
      BY <2>1, <2>4 DEF RecordedAtMostOnce, TypeOK, tables
    <2> QED
      BY <2>5, <2>6, <2>7, <2>8
  <1> QED
    BY <1>2, <1>3, <1>4

\* Engine, tables and threads agree as far as they must, whoever calls the
\* engine (complete, toTask, deleteProcessInstance).
THEOREM BypassedInductive == Spec => []AnyInv
  <1>1. Init => AnyInv
    BY DEF Init, AnyInv, TypeOK, EngineRuns, EndedIsOver, InHand, InProgress,
           RecordedAtMostOnce, Jobs, NoJob
  <1>2. AnyInv /\ [Next]_vars => AnyInv'
    <2> SUFFICES ASSUME AnyInv, [Next]_vars
                 PROVE  AnyInv'
      OBVIOUS
    <2>1. CASE \E th \in Threads : Commit(th)
      BY <2>1, CommitAny
    <2>2. CASE \E th \in Threads : \/ \E t \in Tasks : ReadRow(th, t)
                                   \/ EngineComplete(th) \/ Rollback(th) \/ ListTasks(th)
      BY <2>2, ThreadStepAny
    <2>3. CASE Start \/ DeleteProcessInstance \/ \E t \in Tasks : ToTask(t)
      BY <2>3, OutsideAny
    <2>4. CASE UNCHANGED vars
      BY <2>4 DEF vars, activiti, tables, threads, AnyInv, TypeOK, EngineRuns, EndedIsOver,
                  InHand, InProgress, RecordedAtMostOnce, OpenedBy
    <2> QED
      BY <2>1, <2>2, <2>3, <2>4 DEF Next
  <1> QED
    BY <1>1, <1>2, PTL DEF Spec

\* A row is deleted only while it is there, and who is at work has a task
\* (complete), bypassed or not.
THEOREM TypeCorrect == Spec => []TypeOK
  <1>1. AnyInv => TypeOK
    BY DEF AnyInv
  <1> QED
    BY <1>1, BypassedInductive, PTL

\* No operation is recorded twice, or without the engine having done it
\* (complete), bypassed or not.
THEOREM RecordsAreTrue == Spec => []RecordedAtMostOnce
  <1>1. AnyInv => RecordedAtMostOnce
    BY DEF AnyInv
  <1> QED
    BY <1>1, BypassedInductive, PTL

\* An instance marked as ended has ended (complete), bypassed or not.
THEOREM EndedMeansEnded == Spec => []EndedIsOver
  <1>1. AnyInv => EndedIsOver
    BY DEF AnyInv, EngineRuns
  <1> QED
    BY <1>1, BypassedInductive, PTL

\* Without a bypass, engine, transactions and tables agree (MirrorInductive).
THEOREM MirrorHolds ==
    ASSUME ~Bypass
    PROVE  Spec => []MirrorInv
  <1>1. IInv => MirrorInv
    BY DEF IInv
  <1> QED
    BY <1>1, MirrorInductive, PTL
=============================================================================
