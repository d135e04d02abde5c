------------------------- MODULE ProcessDefinitions -------------------------
(***************************************************************************)
(* The configuration of a workflow: who may work on each of its tasks.  A   *)
(* configuration is one row of t_wf_re_process, one of t_wf_re_task for each *)
(* task and one of t_wf_re_task_oper for each role of a task.  Requests of  *)
(* ProcessDefinitionController save and delete configurations; every call a  *)
(* request makes of processBaseService is a transaction of its own, so that  *)
(* requests interleave at these calls and one that fails leaves behind what  *)
(* it has written.                                                          *)
(*                                                                         *)
(* Saves are numbered; the number stands for the UUIDs a save generates, so  *)
(* that a task is known by its save and its activity.  A process keeps the   *)
(* id of the save that created it.                                          *)
(***************************************************************************)
EXTENDS Naturals, FiniteSets, Sequences

CONSTANTS
    Threads,   \* requests in progress at a time
    Names,     \* procName
    Configs,   \* a configuration maps each activity to its set of roles
    MaxSaves   \* bounds the number of saves

ASSUME DefinitionAssumption == MaxSaves \in Nat

NoId == 0
Ids == 1..MaxSaves

VARIABLES
    procs,     \* t_wf_re_process: [id, name, no], no is the save that wrote it
    tasks,     \* t_wf_re_task: [no, act, proc]
    opers,     \* t_wf_re_task_oper: [no, act, role]
    saves,     \* saves[n]: what save n is asked to store, [name, conf]
    at,        \* at[th]: what a request does next, "idle" when there is none
    no,        \* the number of a save
    cur,       \* the process being updated or deleted, NoId for a new one
    todo,      \* rows still to be added, or tasks still to be deleted
    ids,       \* ids of a delete request that are still to be deleted
    task,      \* the task being deleted, as a set
    rest,      \* its operators still to be deleted
    crossed,   \* history: another request has worked on process cur[th] too
    disturbed, \* history: processes left by requests that crossed or failed
    promised   \* history: processes stored, not deleted, no update failed

tables == <<procs, tasks, opers>>
history == <<disturbed, promised>>
vars == <<tables, saves, at, no, cur, todo, ids, task, rest, crossed, history>>

OpersOf(n) ==
    LET conf == saves[n].conf IN
    UNION {{[no |-> n, act |-> a, role |-> r] : r \in conf[a]} : a \in DOMAIN conf}

TasksOf(n, id) == {[no |-> n, act |-> a, proc |-> id] : a \in DOMAIN saves[n].conf}

Stored(id) == \E p \in procs : p.id = id

StoredTasks(id) == {t \in tasks : t.proc = id}

StoredOpers(t) == {o \in opers : o.no = t.no /\ o.act = t.act}

Init ==
    /\ procs = {} /\ tasks = {} /\ opers = {}
    /\ saves = <<>>
    /\ at = [th \in Threads |-> "idle"]
    /\ no = [th \in Threads |-> 0]
    /\ cur = [th \in Threads |-> NoId]
    /\ todo = [th \in Threads |-> {}]
    /\ ids = [th \in Threads |-> {}]
    /\ task = [th \in Threads |-> {}]
    /\ rest = [th \in Threads |-> {}]
    /\ crossed = [th \in Threads |-> FALSE]
    /\ disturbed = {}
    /\ promised = {}

-----------------------------------------------------------------------------

\* Request th begins to work on process id.
Enter(th, id) ==
    LET others == {u \in Threads \ {th} : id # NoId /\ cur[u] = id} IN
    /\ cur' = [cur EXCEPT ![th] = id]
    /\ crossed' = [u \in Threads |->
           IF u = th THEN others # {} ELSE crossed[u] \/ u \in others]
    /\ disturbed' = IF others = {} THEN disturbed ELSE disturbed \union {id}

Goto(th, s) == at' = [at EXCEPT ![th] = s]

\* The request is over.
End(th) ==
    /\ Goto(th, "idle")
    /\ no' = [no EXCEPT ![th] = 0]
    /\ cur' = [cur EXCEPT ![th] = NoId]
    /\ todo' = [todo EXCEPT ![th] = {}]
    /\ ids' = [ids EXCEPT ![th] = {}]
    /\ task' = [task EXCEPT ![th] = {}]
    /\ rest' = [rest EXCEPT ![th] = {}]
    /\ crossed' = [crossed EXCEPT ![th] = FALSE]

\* A request ends where it is, what it has written stays.
Stop(th) ==
    /\ End(th)
    /\ disturbed' = IF cur[th] = NoId \/ at[th] = "opers"
                    THEN disturbed ELSE disturbed \union {cur[th]}
    /\ UNCHANGED <<tables, saves>>

\* The call finds its row gone, or another in its place.
Abort(th) ==
    /\ Stop(th)
    /\ UNCHANGED promised

\* The call fails by itself, or the server does.
Fail(th) ==
    /\ at[th] # "idle"
    /\ Stop(th)
    /\ promised' = promised \ {cur[th]}

-----------------------------------------------------------------------------
(* saveDefinitionConfigs *)

\* checkExists takes any of the processes of that name.
Save(th, nm, c) ==
    /\ at[th] = "idle"
    /\ Len(saves) < MaxSaves
    /\ saves' = Append(saves, [name |-> nm, conf |-> c])
    /\ no' = [no EXCEPT ![th] = Len(saves')]
    /\ \/ /\ ~\E p \in procs : p.name = nm
          /\ Enter(th, NoId)
       \/ \E p \in procs : p.name = nm /\ Enter(th, p.id)
    /\ todo' = [todo EXCEPT ![th] = OpersOf(Len(saves))']
    /\ Goto(th, "opers")
    /\ UNCHANGED <<tables, ids, task, rest, promised>>

AddOper(th) ==
    /\ at[th] = "opers"
    /\ \E o \in todo[th] :
           /\ opers' = opers \union {o}
           /\ todo' = [todo EXCEPT ![th] = @ \ {o}]
    /\ UNCHANGED <<procs, tasks, saves, at, no, cur, ids, task, rest, crossed, history>>

ProcId(th) == IF cur[th] = NoId THEN no[th] ELSE cur[th]

\* Mutant: the old tasks stay.
AddToTasks(th) ==
    /\ at[th] = "opers"
    /\ todo[th] = {}
    /\ todo' = [todo EXCEPT ![th] = TasksOf(no[th], ProcId(th))]
    /\ Goto(th, "tasks")
    /\ UNCHANGED <<tables, saves, no, cur, ids, task, rest, crossed, history>>

\* Mutant: the tasks are written before the operators are all there.
ClearTasksEarly(th) ==
    /\ at[th] = "opers"
    /\ tasks' = tasks \ StoredTasks(cur[th])
    /\ todo' = [todo EXCEPT ![th] = TasksOf(no[th], ProcId(th))]
    /\ Goto(th, "tasks")
    /\ UNCHANGED <<procs, opers, saves, no, cur, ids, task, rest, crossed, history>>

\* "delete from t_wf_re_task where proc_id = ...", for an update.
ClearTasks(th) ==
    /\ at[th] = "opers"
    /\ todo[th] = {}
    /\ tasks' = tasks \ StoredTasks(cur[th])
    /\ todo' = [todo EXCEPT ![th] = TasksOf(no[th], ProcId(th))]
    /\ Goto(th, "tasks")
    /\ UNCHANGED <<procs, opers, saves, no, cur, ids, task, rest, crossed, history>>

AddTask(th) ==
    /\ at[th] = "tasks"
    /\ \E t \in todo[th] :
           /\ tasks' = tasks \union {t}
           /\ todo' = [todo EXCEPT ![th] = @ \ {t}]
    /\ UNCHANGED <<procs, opers, saves, at, no, cur, ids, task, rest, crossed, history>>

\* Mutant: an update does not take the id of the process it replaces.
RowOfNew(th) == [id |-> no[th], name |-> saves[no[th]].name, no |-> no[th]]

\* Mutant: a new process gets no id of its own.
RowOfOld(th) == [id |-> cur[th], name |-> saves[no[th]].name, no |-> no[th]]

RowOf(th) == [id |-> ProcId(th), name |-> saves[no[th]].name, no |-> no[th]]

Saved(th) ==
    /\ procs' = procs \union {RowOf(th)}
    /\ promised' = promised \union {ProcId(th)}
    /\ disturbed' = IF crossed[th] THEN disturbed ELSE disturbed \ {cur[th]}
    /\ End(th)
    /\ UNCHANGED <<tasks, opers, saves>>

AddProcess(th) ==
    /\ at[th] = "tasks"
    /\ todo[th] = {}
    /\ cur[th] = NoId
    /\ Saved(th)

\* An update deletes the row checkExists has found,
DropProcess(th) ==
    /\ at[th] = "tasks"
    /\ todo[th] = {}
    /\ cur[th] # NoId
    /\ \/ /\ Stored(cur[th])
          /\ procs' = {p \in procs : p.id # cur[th]}
          /\ Goto(th, "replace")
          /\ UNCHANGED <<tasks, opers, saves, no, cur, todo, ids, task, rest, crossed, history>>
       \/ /\ ~Stored(cur[th])
          /\ Abort(th)

\* and adds its own under the same id.
Replace(th) ==
    /\ at[th] = "replace"
    /\ \/ ~Stored(cur[th]) /\ Saved(th)
       \/ Stored(cur[th]) /\ Abort(th)

-----------------------------------------------------------------------------
(* deleteProcessDefinition, and deleteWfProcessCfg for a single process *)

Delete(th, is) ==
    /\ at[th] = "idle"
    /\ ids' = [ids EXCEPT ![th] = is]
    /\ Goto(th, "get")
    /\ UNCHANGED <<tables, saves, no, cur, todo, task, rest, crossed, history>>

Get(th) ==
    /\ at[th] = "get"
    /\ \E id \in ids[th] :
           \/ /\ Stored(id)
              /\ Enter(th, id)
              /\ ids' = [ids EXCEPT ![th] = @ \ {id}]
              /\ promised' = promised \ {id}
              /\ Goto(th, "load")
              /\ UNCHANGED <<tables, saves, no, todo, task, rest>>
           \/ /\ ~Stored(id)
              /\ Abort(th)

LoadTasks(th) ==
    /\ at[th] = "load"
    /\ todo' = [todo EXCEPT ![th] = StoredTasks(cur[th])]
    /\ Goto(th, "delete")
    /\ UNCHANGED <<tables, saves, no, cur, ids, task, rest, crossed, history>>

LoadOpers(th) ==
    /\ at[th] = "delete"
    /\ \E t \in todo[th] :
           /\ task' = [task EXCEPT ![th] = {t}]
           /\ rest' = [rest EXCEPT ![th] = StoredOpers(t)]
    /\ Goto(th, "task")
    /\ UNCHANGED <<tables, saves, no, cur, todo, ids, crossed, history>>

DeleteOper(th) ==
    /\ at[th] = "task"
    /\ \E o \in rest[th] :
           \/ /\ o \in opers
              /\ opers' = opers \ {o}
              /\ rest' = [rest EXCEPT ![th] = @ \ {o}]
              /\ UNCHANGED <<procs, tasks, saves, at, no, cur, todo, ids, task, crossed, history>>
           \/ /\ o \notin opers
              /\ Abort(th)

\* Mutant: the task is deleted before its operators.
DeleteTaskFirst(th) ==
    /\ at[th] = "task"
    /\ task[th] \subseteq tasks
    /\ tasks' = tasks \ task[th]
    /\ todo' = [todo EXCEPT ![th] = @ \ task[th]]
    /\ task' = [task EXCEPT ![th] = {}]
    /\ Goto(th, "delete")
    /\ UNCHANGED <<procs, opers, saves, no, cur, ids, rest, crossed, history>>

DeleteTask(th) ==
    /\ at[th] = "task"
    /\ rest[th] = {}
    /\ \/ /\ task[th] \subseteq tasks
          /\ tasks' = tasks \ task[th]
          /\ todo' = [todo EXCEPT ![th] = @ \ task[th]]
          /\ task' = [task EXCEPT ![th] = {}]
          /\ Goto(th, "delete")
          /\ UNCHANGED <<procs, opers, saves, no, cur, ids, rest, crossed, history>>
       \/ /\ ~(task[th] \subseteq tasks)
          /\ Abort(th)

\* The last step for an id; the request goes on with the next.
DeleteProcess(th) ==
    /\ at[th] = "delete"
    /\ todo[th] = {}
    /\ \/ /\ Stored(cur[th])
          /\ procs' = {p \in procs : p.id # cur[th]}
          /\ promised' = promised \ {cur[th]}
          /\ IF ids[th] = {}
             THEN End(th)
             ELSE /\ Goto(th, "get")
                  /\ cur' = [cur EXCEPT ![th] = NoId]
                  /\ UNCHANGED <<no, todo, ids, task, rest, crossed>>
          /\ UNCHANGED <<tasks, opers, saves, disturbed>>
       \/ /\ ~Stored(cur[th])
          /\ Abort(th)

-----------------------------------------------------------------------------

Next ==
    \E th \in Threads :
        \/ \E nm \in Names, c \in Configs : Save(th, nm, c)
        \/ AddOper(th) \/ ClearTasks(th) \/ AddTask(th)
        \/ AddProcess(th) \/ DropProcess(th) \/ Replace(th)
        \/ \E is \in SUBSET {p.id : p \in procs} : is # {} /\ Delete(th, is)
        \/ Get(th) \/ LoadTasks(th) \/ LoadOpers(th)
        \/ DeleteOper(th) \/ DeleteTask(th) \/ DeleteProcess(th)
        \/ Fail(th)

Spec == Init /\ [][Next]_vars

-----------------------------------------------------------------------------
(* Properties *)

Steps == {"idle", "opers", "tasks", "replace", "get", "load", "delete", "task"}

OperRows == UNION {OpersOf(n) : n \in DOMAIN saves}

TaskRows == UNION {TasksOf(n, id) : n \in DOMAIN saves, id \in Ids}

\* Rows belong to saves, and two processes never have the same id: the
\* primary keys of the tables.
TypeOK ==
    /\ saves \in Seq([name : Names, conf : Configs]) /\ Len(saves) <= MaxSaves
    /\ procs \subseteq [id : Ids, name : Names, no : DOMAIN saves]
    /\ \A p, q \in procs : p.id = q.id => p = q
    /\ tasks \subseteq TaskRows
    /\ opers \subseteq OperRows
    /\ at \in [Threads -> Steps]
    /\ no \in [Threads -> 0..Len(saves)]
    /\ cur \in [Threads -> Ids \union {NoId}]
    /\ todo \in [Threads -> SUBSET (TaskRows \union OperRows)]
    /\ ids \in [Threads -> SUBSET Ids]
    /\ task \in [Threads -> SUBSET TaskRows]
    /\ rest \in [Threads -> SUBSET OperRows]
    /\ crossed \in [Threads -> BOOLEAN]
    /\ disturbed \subseteq Ids
    /\ promised \subseteq Ids

Undisturbed(id) == id \notin disturbed /\ \A th \in Threads : cur[th] # id

\* What is stored of a process is what its save was asked to store: one task
\* for each activity, which getWfReTaskBy needs to be unique, with its roles
\* (saveDefinitionConfigs).  No other request may spoil it, whatever fails or
\* overlaps, and a save by itself repairs what others have spoilt.
ConfigAsSaved ==
    \A p \in procs : Undisturbed(p.id) =>
        /\ StoredTasks(p.id) = TasksOf(p.no, p.id)
        /\ \A t \in StoredTasks(p.id) :
               StoredOpers(t) = {o \in OpersOf(t.no) : o.act = t.act}

\* A task is never in its table before all its operators are in theirs, nor
\* after: an instance that is started or completed meanwhile finds them.
\* Requests that delete the process, and those that they disturb, aside.
TasksHaveOpers ==
    \A t \in tasks :
        \/ StoredOpers(t) = {o \in OpersOf(t.no) : o.act = t.act}
        \/ t.proc \in disturbed
        \/ \E th \in Threads : cur[th] = t.proc /\ at[th] \in {"delete", "task"}

\* An update deletes the process and adds it again; saves that overlap, and
\* fail for it, never lose the process between them: once stored it is there
\* when no request works on it, unless it was deleted or an update failed.
PromisedIsStored ==
    \A id \in promised : Stored(id) \/ \E th \in Threads : cur[th] = id

\* A delete that no other request has crossed leaves no operator of a task it
\* deletes and no task of a process it deletes (deleteProcessDefinition).
DeleteLeavesNothing ==
    [][\A th \in Threads : ~crossed[th] =>
           /\ at[th] = "task" => \A t \in tasks \ tasks' :
                  t \in task[th] => {o \in opers' : o.no = t.no /\ o.act = t.act} = {}
           /\ at[th] = "delete" /\ procs' # procs /\ ~(\E p \in procs' : p.id = cur[th]) =>
                  {t \in tasks' : t.proc = cur[th]} = {}]_vars

-----------------------------------------------------------------------------
(* The inductive invariant behind these properties. *)

Saving(th) == at[th] \in {"opers", "tasks", "replace"}
Deleting(th) == at[th] \in {"delete", "task"}

\* Process id is being rewritten or deleted.
Busy(id) ==
    \E th \in Threads : cur[th] = id /\ (Deleting(th) \/ at[th] \in {"tasks", "replace"})

\* Tasks in the table or in the hands of a delete.
Known == tasks \union UNION {todo[th] : th \in {u \in Threads : Deleting(u)}}

\* The number of a save under way is nobody else's, and a new process is
\* unknown until it is stored.
Numbers ==
    /\ \A p \in procs : p.id <= Len(saves)
    /\ \A t \in Known : t.no <= Len(saves) /\ t.proc <= Len(saves)
    /\ \A th \in Threads : cur[th] <= Len(saves)
    /\ \A th \in Threads : Saving(th) =>
           /\ no[th] \in DOMAIN saves
           /\ \A p \in procs : p.no # no[th]
           /\ \A u \in Threads \ {th} : Saving(u) => no[u] # no[th]
           /\ cur[th] = NoId =>
                  /\ \A p \in procs : p.id # no[th]
                  /\ \A u \in Threads : cur[u] # no[th]
                  /\ at[th] = "opers" => StoredTasks(no[th]) = {}

\* Requests that work on one process know of each other.
Crossing ==
    /\ \A th, u \in Threads :
           th # u /\ cur[th] = cur[u] /\ cur[th] # NoId => crossed[th]
    /\ \A th \in Threads : crossed[th] /\ cur[th] # NoId => cur[th] \in disturbed
    /\ \A th \in Threads : Saving(th) /\ cur[th] = NoId => ~crossed[th]

\* The tasks of a save belong to one process.
OneProcess ==
    /\ \A s, t \in Known : s.no = t.no => s.proc = t.proc
    /\ \A t \in Known : \A p \in procs : t.no = p.no => t.proc = p.id
    /\ \A t \in Known : \A th \in Threads :
           Saving(th) /\ t.no = no[th] => at[th] # "opers" /\ t.proc = ProcId(th)

\* What a save has written so far.
Saver(th) ==
    /\ at[th] = "opers" =>
           todo[th] \subseteq OpersOf(no[th]) /\ OpersOf(no[th]) \ todo[th] \subseteq opers
    /\ at[th] \in {"tasks", "replace"} =>
           /\ todo[th] \subseteq TasksOf(no[th], ProcId(th))
           /\ \/ crossed[th]
              \/ /\ OpersOf(no[th]) \subseteq opers
                 /\ StoredTasks(ProcId(th)) = TasksOf(no[th], ProcId(th)) \ todo[th]
    /\ at[th] = "replace" => todo[th] = {} /\ cur[th] # NoId

\* What a delete has still to do.
Deleter(th) ==
    /\ at[th] = "load" \/ Deleting(th) =>
           cur[th] # NoId /\ (crossed[th] \/ Stored(cur[th]))
    /\ Deleting(th) =>
           /\ todo[th] \subseteq TaskRows
           /\ \A t \in todo[th] : t.proc = cur[th]
           /\ crossed[th] \/ StoredTasks(cur[th]) \subseteq todo[th]
    /\ at[th] = "task" =>
           \E t \in todo[th] :
               /\ task[th] = {t}
               /\ \A o \in rest[th] : o.no = t.no /\ o.act = t.act
               /\ StoredOpers(t) \subseteq rest[th]

InHand == \A th \in Threads : Saver(th) /\ Deleter(th)

StoredInv ==
    /\ \A p \in procs :
           \/ p.id \in disturbed
           \/ Busy(p.id)
           \/ /\ StoredTasks(p.id) = TasksOf(p.no, p.id)
              /\ OpersOf(p.no) \subseteq opers
    /\ \A t \in tasks :
           \/ t.proc \in disturbed
           \/ \E th \in Threads : cur[th] = t.proc /\ Deleting(th)
           \/ {o \in OpersOf(t.no) : o.act = t.act} \subseteq opers

PromisedInv ==
    \A id \in promised : Stored(id) \/ \E th \in Threads : cur[th] = id /\ at[th] = "replace"

IInv ==
    /\ TypeOK /\ Numbers /\ Crossing /\ OneProcess
    /\ InHand /\ StoredInv /\ PromisedInv
=============================================================================
