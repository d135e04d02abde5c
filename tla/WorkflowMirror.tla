--------------------------- MODULE WorkflowMirror ---------------------------
(***************************************************************************)
(* ProcessBaseServiceImpl keeps tables of its own beside those of the      *)
(* Activiti engine: a row of WF_RU_TASK per task to be done, a row of      *)
(* WF_RU_TASK_OPER per task done, and the state of the process instance.   *)
(* One process instance; its tasks form an acyclic net, in which a task    *)
(* opens when the tasks of Pre are done.                                   *)
(*                                                                         *)
(* start and complete are transactions (read committed) that span engine   *)
(* and tables.  A task completed in the engine stays locked until commit.  *)
(* Rows of one task differ in their ids only, so they are counted.         *)
(***************************************************************************)
EXTENDS Naturals, FiniteSets

CONSTANTS
    Threads,    \* request threads
    Tasks,      \* user tasks of the process definition
    Pre,        \* the tasks a task waits for
    NoTask,
    Bypass      \* are the pages in use that call the engine directly

\* The net has a task, and no cycle: while a task is left, one is not waiting.
ASSUME ProcessConstants ==
    /\ Pre \in [Tasks -> SUBSET Tasks]
    /\ Tasks # {}
    /\ \A d \in SUBSET Tasks : d # Tasks => \E t \in Tasks \ d : Pre[t] \subseteq d
    /\ NoTask \notin Tasks
    /\ Bypass \in BOOLEAN

VARIABLES
    engine,     \* the engine's instance: none, active, ended, deleted
    open, done, \* tasks the engine waits for, and tasks completed in it
    rows,       \* rows of WF_RU_TASK for each task
    opers,      \* rows of WF_RU_TASK_OPER for each task
    state,      \* STATE of WF_RU_PROCINST: none, "0" running, "1" ended
    pc, job     \* the step a thread is at, its task and the tasks it listed

activiti == <<engine, open, done>>
tables == <<rows, opers, state>>
threads == <<pc, job>>
vars == <<activiti, tables, threads>>

Jobs == [task : Tasks \union {NoTask}, listed : SUBSET Tasks]
NoJob == [task |-> NoTask, listed |-> {}]

TypeOK ==
    /\ engine \in {"none", "active", "ended", "deleted"}
    /\ open \subseteq Tasks
    /\ done \subseteq Tasks
    /\ rows \in [Tasks -> Nat]
    /\ opers \in [Tasks -> Nat]
    /\ state \in {"none", "0", "1"}
    /\ pc \in [Threads -> {"idle", "read", "completed", "listed"}]
    /\ job \in [Threads -> Jobs]
    /\ \A th \in Threads : pc[th] # "idle" => job[th].task \in Tasks

Init ==
    /\ engine = "none"
    /\ open = {}
    /\ done = {}
    /\ rows = [t \in Tasks |-> 0]
    /\ opers = [t \in Tasks |-> 0]
    /\ state = "none"
    /\ pc = [th \in Threads |-> "idle"]
    /\ job = [th \in Threads |-> NoJob]

-----------------------------------------------------------------------------
(* The engine.                                                             *)

\* Tasks that open once the tasks d are done.
OpenedBy(d) == {t \in Tasks \ d : Pre[t] \subseteq d}

\* Tasks whose completion moves the same execution of the engine: they feed a
\* common join, or each of them ends its branch.
Entangled(t, u) ==
    LET after(x) == {j \in Tasks : x \in Pre[j]}
    IN  after(t) \intersect after(u) # {} \/ (after(t) = {} /\ after(u) = {})

\* Completed in the engine by a transaction that has not committed yet.
Uncommitted == {job[th].task : th \in {u \in Threads : pc[u] \in {"completed", "listed"}}}

\* taskService.complete goes through, or is refused: the task is gone, or an
\* optimistic lock fails at the transaction that came first.
Completable(t) ==
    /\ t \in open
    /\ \A u \in Uncommitted : u # t /\ ~Entangled(t, u)

\* The engine as it is once t is done as well.
Advance(t) ==
    /\ done' = done \union {t}
    /\ open' = OpenedBy(done \union {t})
    /\ engine' = IF OpenedBy(done \union {t}) = {} THEN "ended" ELSE engine

-----------------------------------------------------------------------------
(* The service.                                                            *)

Finish(th) ==
    /\ pc' = [pc EXCEPT ![th] = "idle"]
    /\ job' = [job EXCEPT ![th] = NoJob]

\* startProcessInstanceById: the engine's instance, a row per open task, and
\* the instance's own row, in one transaction.
Start ==
    /\ engine = "none"
    /\ engine' = "active"
    /\ open' = OpenedBy({})
    /\ rows' = [t \in Tasks |-> IF t \in OpenedBy({}) THEN 1 ELSE 0]
    /\ state' = "0"
    /\ UNCHANGED <<done, opers, threads>>

\* Mutant: complete does not look whether there is a row.
ReadNoRow(th, t) ==
    /\ pc[th] = "idle"
    /\ pc' = [pc EXCEPT ![th] = "read"]
    /\ job' = [job EXCEPT ![th].task = t]
    /\ UNCHANGED <<activiti, tables>>

\* complete finds the row of the task instance.
ReadRow(th, t) ==
    /\ pc[th] = "idle"
    /\ rows[t] > 0
    /\ pc' = [pc EXCEPT ![th] = "read"]
    /\ job' = [job EXCEPT ![th].task = t]
    /\ UNCHANGED <<activiti, tables>>

\* Mutant: the operation is recorded before the engine is asked, in a
\* transaction of its own.
RecordFirst(th) ==
    /\ pc[th] = "read"
    /\ opers' = [opers EXCEPT ![job[th].task] = @ + 1]
    /\ IF Completable(job[th].task)
       THEN pc' = [pc EXCEPT ![th] = "completed"] /\ UNCHANGED job
       ELSE Finish(th)
    /\ UNCHANGED <<activiti, rows, state>>

EngineComplete(th) ==
    /\ pc[th] = "read"
    /\ Completable(job[th].task)
    /\ pc' = [pc EXCEPT ![th] = "completed"]
    /\ UNCHANGED <<activiti, tables, job>>

\* The engine throws, or one of the later statements does: all is rolled back.
Rollback(th) ==
    /\ \/ pc[th] = "read" /\ ~Completable(job[th].task)
       \/ pc[th] \in {"completed", "listed"}
    /\ Finish(th)
    /\ UNCHANGED <<activiti, tables>>

\* Mutant: only the tasks this completion opened are listed, in what was
\* committed when the row was read.
ListNothingNew(th) ==
    /\ pc[th] = "completed"
    /\ job' = [job EXCEPT ![th].listed = open \ {job[th].task}]
    /\ pc' = [pc EXCEPT ![th] = "listed"]
    /\ UNCHANGED <<activiti, tables>>

\* The query for the open tasks of the instance sees what is committed and
\* what this transaction did itself.
ListTasks(th) ==
    /\ pc[th] = "completed"
    /\ job' = [job EXCEPT ![th].listed = OpenedBy(done \union {job[th].task})]
    /\ pc' = [pc EXCEPT ![th] = "listed"]
    /\ UNCHANGED <<activiti, tables>>

\* Mutant: the instance is ended when this completion opened no task.
EndEarly(th) ==
    LET t == job[th].task
    IN  /\ pc[th] = "listed"
        /\ Advance(t)
        /\ opers' = [opers EXCEPT ![t] = @ + 1]
        /\ rows' = [u \in Tasks |-> IF u = t THEN rows[u] - 1
                                    ELSE IF u \in job[th].listed THEN rows[u] + 1 ELSE rows[u]]
        /\ state' = IF job[th].listed \subseteq open THEN "1" ELSE state
        /\ Finish(th)

\* The transaction commits: the operation is recorded, the completed row is
\* deleted, and every task listed gets a new row, whether it has one or not.
\* The instance is marked as ended if the engine's has an end time.
Commit(th) ==
    LET t == job[th].task
    IN  /\ pc[th] = "listed"
        /\ Advance(t)
        /\ opers' = [opers EXCEPT ![t] = @ + 1]
        /\ rows' = [u \in Tasks |-> IF u = t THEN rows[u] - 1
                                    ELSE IF u \in job[th].listed THEN rows[u] + 1 ELSE rows[u]]
        /\ state' = IF OpenedBy(done \union {t}) = {} THEN "1" ELSE state
        /\ Finish(th)

-----------------------------------------------------------------------------
(* Pages that call the engine and leave the tables alone.                  *)

\* ProcessTaskController.toTask completes the task it shows.
ToTask(t) ==
    /\ Bypass
    /\ Completable(t)
    /\ Advance(t)
    /\ UNCHANGED <<tables, threads>>

\* ProcessInstanceController.deleteProcessInstance.  Tasks locked by others
\* make it fail.
DeleteProcessInstance ==
    /\ Bypass
    /\ engine = "active"
    /\ Uncommitted = {}
    /\ engine' = "deleted"
    /\ open' = {}
    /\ UNCHANGED <<done, tables, threads>>

-----------------------------------------------------------------------------

Next ==
    \/ Start
    \/ \E th \in Threads, t \in Tasks : ReadRow(th, t)
    \/ \E th \in Threads : EngineComplete(th) \/ Rollback(th) \/ ListTasks(th) \/ Commit(th)
    \/ \E t \in Tasks : ToTask(t)
    \/ DeleteProcessInstance

Spec == Init /\ [][Next]_vars

-----------------------------------------------------------------------------
(* Properties.                                                             *)

\* Whoever wants to go on with the instance finds a row for every open task:
\* with transactions that overlap and see each other's work late, no task that
\* the engine opens is left without one (complete, startProcessInstanceById).
OpenTaskHasRow == \A t \in open : rows[t] > 0

\* What is recorded is what the engine did: a task's operation is recorded once,
\* however many rows it has and however many threads complete them.
RecordedOnce == \A t \in Tasks : opers[t] = IF t \in done THEN 1 ELSE 0

\* The same when the engine is also called directly: nothing is recorded that
\* the engine did not do, or twice.
RecordedAtMostOnce == \A t \in Tasks : opers[t] <= IF t \in done THEN 1 ELSE 0

\* An instance marked as ended has ended in the engine, whoever completed its
\* last tasks and whatever the marking transaction saw of the others.
EndedIsOver == state = "1" => engine = "ended"

\* The recorded operations and the instance's state implement a process log.
Log == INSTANCE ProcessLog WITH log <- {t \in Tasks : opers[t] > 0}, closed <- state = "1"
ImplementsLog == Log!Spec

\* Why the first two hold.  Transactions under way work on different open tasks
\* that share no join, so a task that one of them opens is opened by it alone,
\* and was opened already when the transaction listed the tasks.
InProgress(th) == pc[th] \in {"completed", "listed"}

Transactions ==
    \A th \in Threads : InProgress(th) =>
        /\ job[th].task \in open
        /\ pc[th] = "listed" => OpenedBy(done \union {job[th].task}) \ open \subseteq job[th].listed
        /\ \A u \in Threads \ {th} : InProgress(u) =>
               job[u].task # job[th].task /\ ~Entangled(job[u].task, job[th].task)

EngineState ==
    /\ engine \in {"none", "active", "ended"}
    /\ engine = "none" => state = "none" /\ open = {} /\ done = {}
    /\ engine # "none" => open = OpenedBy(done)
    /\ engine = "active" => state = "0" /\ open # {}
    /\ engine = "ended" => state = "1" /\ open = {}

MirrorInv == EngineState /\ Transactions /\ OpenTaskHasRow /\ RecordedOnce
=============================================================================
