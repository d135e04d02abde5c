---------------------- MODULE ProcessDefinitionsProofs ----------------------
(***************************************************************************)
(* Proofs about ProcessDefinitions for any number of requests, saves, names *)
(* and configurations.                                                      *)
(***************************************************************************)
EXTENDS ProcessDefinitions, TLAPS

-----------------------------------------------------------------------------
(* Rows.                                                                    *)

\* A row knows its save, and a task its process.
LEMMA RowFacts ==
    /\ \A n : \A o \in OpersOf(n) : o.no = n
    /\ \A n, id : \A t \in TasksOf(n, id) : t.no = n /\ t.proc = id
  BY DEF OpersOf, TasksOf

\* What a request may find in a table, or have in its hands.
LEMMA RowTypes ==
    /\ \A n \in DOMAIN saves : OpersOf(n) \subseteq OperRows
    /\ \A n \in DOMAIN saves, id \in Ids : TasksOf(n, id) \subseteq TaskRows
    /\ \A o \in OperRows : o.no \in DOMAIN saves /\ o \in OpersOf(o.no)
    /\ \A t \in TaskRows : /\ t.no \in DOMAIN saves
                           /\ t.proc \in Ids
                           /\ t \in TasksOf(t.no, t.proc)
  <1>1. \A n \in DOMAIN saves : OpersOf(n) \subseteq OperRows
    BY DEF OperRows
  <1>2. \A n \in DOMAIN saves, id \in Ids : TasksOf(n, id) \subseteq TaskRows
    BY DEF TaskRows
  <1>3. \A o \in OperRows : o.no \in DOMAIN saves /\ o \in OpersOf(o.no)
    BY RowFacts DEF OperRows
  <1>4. \A t \in TaskRows : /\ t.no \in DOMAIN saves
                            /\ t.proc \in Ids
                            /\ t \in TasksOf(t.no, t.proc)
    BY RowFacts DEF TaskRows
  <1> QED
    BY <1>1, <1>2, <1>3, <1>4

\* Saves are never changed, and rows with them.
LEMMA SavesKept ==
    ASSUME saves' = saves
    PROVE  /\ \A n : OpersOf(n)' = OpersOf(n)
           /\ \A n, id : TasksOf(n, id)' = TasksOf(n, id)
           /\ OperRows' = OperRows
           /\ TaskRows' = TaskRows
  BY DEF OpersOf, TasksOf, OperRows, TaskRows

LEMMA SaveTyped ==
    ASSUME saves \in Seq([name : Names, conf : Configs]), NEW n \in DOMAIN saves
    PROVE  saves[n] \in [name : Names, conf : Configs]
  <1> DEFINE S == [name : Names, conf : Configs]
  <1> HIDE DEF S
  <1>1. saves \in Seq(S)
    BY DEF S
  <1>2. saves[n] \in S
    BY <1>1
  <1> QED
    BY <1>2 DEF S

\* A new save leaves the rows of the others alone.
LEMMA SavesAppended ==
    ASSUME saves \in Seq([name : Names, conf : Configs]),
           NEW s \in [name : Names, conf : Configs],
           saves' = Append(saves, s)
    PROVE  /\ Len(saves') = Len(saves) + 1
           /\ DOMAIN saves' = DOMAIN saves \union {Len(saves')}
           /\ saves' \in Seq([name : Names, conf : Configs])
           /\ \A n \in DOMAIN saves : OpersOf(n)' = OpersOf(n)
           /\ \A n \in DOMAIN saves : \A id : TasksOf(n, id)' = TasksOf(n, id)
           /\ OperRows \subseteq OperRows'
           /\ TaskRows \subseteq TaskRows'
  <1>1. /\ Len(saves') = Len(saves) + 1
        /\ DOMAIN saves' = DOMAIN saves \union {Len(saves')}
        /\ saves' \in Seq([name : Names, conf : Configs])
        /\ \A n \in DOMAIN saves : saves'[n] = saves[n]
    OBVIOUS
  <1>2. \A n \in DOMAIN saves : OpersOf(n)' = OpersOf(n)
    BY <1>1 DEF OpersOf
  <1>3. \A n \in DOMAIN saves : \A id : TasksOf(n, id)' = TasksOf(n, id)
    BY <1>1 DEF TasksOf
  <1>4. OperRows \subseteq OperRows' /\ TaskRows \subseteq TaskRows'
    BY <1>1, <1>2, <1>3 DEF OperRows, TaskRows, Ids
  <1> QED
    BY <1>1, <1>2, <1>3, <1>4

-----------------------------------------------------------------------------
(* What a request has in its hands.                                          *)

\* What a save is writing has its number.
LEMMA SaverFacts ==
    ASSUME IInv, NEW th \in Threads, Saving(th)
    PROVE  no[th] \in DOMAIN saves /\ no[th] \in Ids /\ ProcId(th) \in Ids
  <1>1. no[th] \in DOMAIN saves
    BY DEF IInv, Numbers
  <1>2. no[th] \in Ids
    BY <1>1, DefinitionAssumption DEF IInv, TypeOK, Ids
  <1>3. cur[th] \in Ids \union {NoId}
    BY DEF IInv, TypeOK
  <1> QED
    BY <1>1, <1>2, <1>3 DEF ProcId

\* A save that is not crossed is alone on its process.
LEMMA Apart ==
    ASSUME IInv, NEW th \in Threads, NEW u \in Threads \ {th}, Saving(th), Saving(u),
           ~crossed[u]
    PROVE  ProcId(u) # ProcId(th)
  BY DEF IInv, TypeOK, Numbers, Crossing, Saving, ProcId, NoId

\* So is a delete.
LEMMA DeleteApart ==
    ASSUME IInv, NEW th \in Threads, NEW u \in Threads, Saving(th), Deleting(u),
           ~crossed[u] \/ ~crossed[th]
    PROVE  cur[u] # ProcId(th)
  BY DEF IInv, TypeOK, Numbers, Crossing, InHand, Deleter, Saving, Deleting, ProcId, NoId

\* Nothing is taken from request u, nor given to it.
Untouched(u) ==
    /\ at'[u] = at[u] /\ no'[u] = no[u] /\ cur'[u] = cur[u] /\ todo'[u] = todo[u]
    /\ task'[u] = task[u] /\ rest'[u] = rest[u]
    /\ crossed'[u] \in BOOLEAN /\ (crossed[u] => crossed'[u])

\* What a step of one request must not do to the tables, so that another need
\* not look at them again.
Spared(u) ==
    /\ Saving(u) /\ (at[u] = "opers" \/ ~crossed[u]) =>
           \A o \in opers \ opers' : o.no # no[u]
    /\ Saving(u) /\ ~crossed[u] =>
           \A t \in (tasks \ tasks') \union (tasks' \ tasks) : t.proc # ProcId(u)
    /\ Deleting(u) /\ ~crossed[u] => \A t \in tasks' \ tasks : t.proc # cur[u]
    /\ Deleting(u) => \A t \in todo[u] : \A o \in opers' \ opers : o.no # t.no
    /\ ~crossed[u] => \A p \in procs \ procs' : p.id # cur[u]

LEMMA OthersKept ==
    ASSUME IInv, NEW u \in Threads, Untouched(u), Spared(u),
           \A n \in DOMAIN saves : OpersOf(n)' = OpersOf(n),
           \A n \in DOMAIN saves : \A id : TasksOf(n, id)' = TasksOf(n, id),
           TaskRows \subseteq TaskRows'
    PROVE  Saver(u)' /\ Deleter(u)'
  <1>1. Saver(u) /\ Deleter(u)
    BY DEF IInv, InHand
  <1>2. ProcId(u)' = ProcId(u)
    BY DEF Untouched, ProcId
  <1>3. ASSUME at[u] = "opers"
        PROVE  Saver(u)'
    <2>1. no[u] \in DOMAIN saves
      BY <1>3, SaverFacts DEF Saving
    <2>2. OpersOf(no[u]) \ todo[u] \subseteq opers'
      BY <1>1, <1>3, RowFacts DEF Saver, Spared, Saving
    <2> QED
      BY <1>1, <1>3, <2>1, <2>2 DEF Saver, Untouched
  <1>4. ASSUME at[u] \in {"tasks", "replace"}
        PROVE  Saver(u)'
    <2>1. no[u] \in DOMAIN saves
      BY <1>4, SaverFacts DEF Saving
    <2>2. ASSUME ~crossed[u]
          PROVE  OpersOf(no[u]) \subseteq opers'
      BY <1>1, <1>4, <2>2, RowFacts DEF Saver, Spared, Saving
    <2>3. ASSUME ~crossed[u]
          PROVE  StoredTasks(ProcId(u))' = StoredTasks(ProcId(u))
      BY <1>2, <1>4, <2>3 DEF StoredTasks, Spared, Saving
    <2> QED
      BY <1>1, <1>2, <1>4, <2>1, <2>2, <2>3 DEF Saver, Untouched
  <1>5. Saver(u)'
    BY <1>3, <1>4 DEF Saver, Untouched
  <1>6. ASSUME Deleting(u), NEW t \in todo[u]
        PROVE  StoredOpers(t)' \subseteq StoredOpers(t)
    BY <1>6 DEF StoredOpers, Spared
  <1>7. ASSUME Deleting(u), ~crossed[u]
        PROVE  StoredTasks(cur[u])' \subseteq StoredTasks(cur[u])
    BY <1>7 DEF StoredTasks, Spared, Untouched
  <1>8. ASSUME ~crossed[u], Stored(cur[u])
        PROVE  Stored(cur[u])'
    BY <1>8 DEF Stored, Spared, Untouched
  <1>9. Deleter(u)'
    BY <1>1, <1>6, <1>7, <1>8 DEF Deleter, Deleting, Untouched
  <1> QED
    BY <1>5, <1>9

-----------------------------------------------------------------------------
(* One step for one action.  A request changes what it has in its hands; of  *)
(* the others it changes only whether they have been crossed.                *)

LEMMA AddOperInductive ==
    ASSUME IInv, NEW th \in Threads, AddOper(th)
    PROVE  IInv'
  <1> USE SavesKept, RowFacts, RowTypes
  <1>o. PICK o \in todo[th] :
          /\ opers' = opers \union {o}
          /\ todo' = [todo EXCEPT ![th] = @ \ {o}]
          /\ at[th] = "opers"
          /\ UNCHANGED <<procs, tasks, saves, at, no, cur, ids, task, rest, crossed, history>>
    BY DEF AddOper
  <1>s. \A x : /\ Stored(x)' = Stored(x)
               /\ StoredTasks(x)' = StoredTasks(x)
               /\ Busy(x)' = Busy(x)
    BY <1>o DEF StoredTasks, Stored, Busy, Deleting
  <1>n. todo[th] \subseteq OpersOf(no[th]) /\ Saving(th) /\ no[th] \in DOMAIN saves
    BY <1>o, SaverFacts DEF IInv, InHand, Saver, Saving
  <1>1. TypeOK'
    BY <1>o, <1>n DEF IInv, TypeOK, history
  <1>k. Known' = Known
    BY <1>o DEF Known, Deleting, IInv, TypeOK
  <1>2. Numbers'
    BY <1>o, <1>k, <1>s DEF IInv, TypeOK, Numbers, Saving
  <1>3. Crossing'
    BY <1>o DEF IInv, Crossing, Saving, history
  <1>4. OneProcess'
    BY <1>o, <1>k DEF IInv, OneProcess, Saving, ProcId
  <1>5. InHand'
    <2>1. ASSUME NEW u \in Threads \ {th}
          PROVE  Untouched(u)
      BY <1>o DEF IInv, TypeOK, Untouched
    <2>2. ASSUME NEW u \in Threads \ {th}
          PROVE  Spared(u)
      <3>1. ASSUME Deleting(u), NEW t \in todo[u]
            PROVE  t.no # no[th]
        <4>1. t \in Known
          BY <3>1 DEF Known
        <4> QED
          BY <1>o, <1>n, <4>1 DEF IInv, OneProcess
      <3> QED
        BY <1>o, <1>n, <3>1 DEF Spared
    <2>3. Saver(th)' /\ Deleter(th)'
      BY <1>o DEF IInv, TypeOK, InHand, Saver, Deleter, Deleting
    <2> QED
      BY <1>o, <2>1, <2>2, <2>3, OthersKept DEF InHand
  <1>6. StoredInv'
    BY <1>o, <1>s DEF IInv, TypeOK, StoredInv, Deleting, history
  <1>7. PromisedInv'
    BY <1>o, <1>s DEF IInv, PromisedInv, history
  <1> QED
    BY <1>1, <1>2, <1>3, <1>4, <1>5, <1>6, <1>7 DEF IInv

\* Whatever a request leaves behind when it stops is disturbed.
LEMMA StopInductive ==
    ASSUME IInv, NEW th \in Threads, Stop(th),
           promised' \subseteq promised,
           at[th] = "replace" => cur[th] \notin promised' \/ Stored(cur[th])
    PROVE  IInv'
  <1> USE SavesKept, RowFacts, RowTypes
  <1>o. /\ at' = [at EXCEPT ![th] = "idle"]
        /\ no' = [no EXCEPT ![th] = 0]
        /\ cur' = [cur EXCEPT ![th] = NoId]
        /\ todo' = [todo EXCEPT ![th] = {}]
        /\ ids' = [ids EXCEPT ![th] = {}]
        /\ task' = [task EXCEPT ![th] = {}]
        /\ rest' = [rest EXCEPT ![th] = {}]
        /\ crossed' = [crossed EXCEPT ![th] = FALSE]
        /\ disturbed' = IF cur[th] = NoId \/ at[th] = "opers"
                        THEN disturbed ELSE disturbed \union {cur[th]}
        /\ UNCHANGED <<procs, tasks, opers, saves>>
    BY DEF Stop, End, Goto, tables
  <1>s. \A x : /\ Stored(x)' = Stored(x)
               /\ StoredTasks(x)' = StoredTasks(x)
               /\ StoredOpers(x)' = StoredOpers(x)
    BY <1>o DEF StoredTasks, StoredOpers, Stored
  <1>1. TypeOK'
    BY <1>o DEF IInv, TypeOK, NoId, Steps
  <1>k. Known' \subseteq Known
    BY <1>o DEF Known, Deleting, IInv, TypeOK
  <1>2. Numbers'
    BY <1>o, <1>k, <1>s DEF IInv, TypeOK, Numbers, Saving, NoId, Ids
  <1>3. Crossing'
    BY <1>o DEF IInv, TypeOK, Crossing, Saving, NoId
  <1>4. OneProcess'
    BY <1>o, <1>k DEF IInv, TypeOK, OneProcess, Saving, ProcId
  <1>5. InHand'
    <2>1. ASSUME NEW u \in Threads \ {th}
          PROVE  Untouched(u) /\ Spared(u)
      BY <1>o DEF IInv, TypeOK, Untouched, Spared
    <2>2. Saver(th)' /\ Deleter(th)'
      BY <1>o DEF IInv, TypeOK, Saver, Deleter, Deleting
    <2> QED
      BY <1>o, <2>1, <2>2, OthersKept DEF InHand
  <1>6. StoredInv'
    <2>2. \A id \in Ids : Busy(id) => Busy(id)' \/ id \in disturbed'
      BY <1>o DEF Busy, Deleting, IInv, TypeOK, Ids, NoId
    <2>3. \A id \in Ids : \A u \in Threads : cur[u] = id /\ Deleting(u) =>
              id \in disturbed' \/ (cur'[u] = id /\ Deleting(u)')
      BY <1>o DEF Deleting, IInv, TypeOK, Ids, NoId
    <2>4. disturbed \subseteq disturbed'
      BY <1>o
    <2> QED
      BY <1>o, <1>s, <2>2, <2>3, <2>4 DEF IInv, TypeOK, StoredInv
  <1>7. PromisedInv'
    BY <1>o, <1>s DEF IInv, TypeOK, PromisedInv
  <1> QED
    BY <1>1, <1>2, <1>3, <1>4, <1>5, <1>6, <1>7 DEF IInv

LEMMA ClearTasksInductive ==
    ASSUME IInv, NEW th \in Threads, ClearTasks(th)
    PROVE  IInv'
  <1> USE SavesKept, RowFacts, RowTypes
  <1>o. /\ at[th] = "opers"
        /\ todo[th] = {}
        /\ tasks' = tasks \ StoredTasks(cur[th])
        /\ todo' = [todo EXCEPT ![th] = TasksOf(no[th], ProcId(th))]
        /\ at' = [at EXCEPT ![th] = "tasks"]
        /\ UNCHANGED <<procs, opers, saves, no, cur, ids, task, rest, crossed, history>>
    BY DEF ClearTasks, Goto
  <1>n. no[th] \in DOMAIN saves /\ ProcId(th) \in Ids /\ Saving(th)
    BY <1>o, SaverFacts DEF Saving
  <1>s. \A x : /\ Stored(x)' = Stored(x)
               /\ StoredOpers(x)' = StoredOpers(x)
               /\ StoredTasks(x)' \subseteq StoredTasks(x)
               /\ x # cur[th] => StoredTasks(x)' = StoredTasks(x)
               /\ cur[th] = NoId => StoredTasks(x)' = StoredTasks(x)
    BY <1>o DEF StoredTasks, StoredOpers, Stored, IInv, TypeOK, Ids, NoId
  <1>t. StoredTasks(ProcId(th))' = {}
    BY <1>o, <1>n DEF StoredTasks, ProcId, IInv, TypeOK, Numbers, Saving
  <1>1. TypeOK'
    BY <1>o, <1>n DEF IInv, TypeOK, Steps, history
  <1>k. Known' \subseteq Known
    BY <1>o DEF Known, Deleting, IInv, TypeOK
  <1>2. Numbers'
    BY <1>o, <1>k, <1>s DEF IInv, TypeOK, Numbers, Saving
  <1>3. Crossing'
    BY <1>o DEF IInv, TypeOK, Crossing, Saving, history
  <1>4. OneProcess'
    BY <1>o, <1>k DEF IInv, TypeOK, OneProcess, Saving, ProcId
  <1>5. InHand'
    <2>1. ASSUME NEW u \in Threads \ {th}
          PROVE  Untouched(u)
      BY <1>o DEF IInv, TypeOK, Untouched
    <2>3. ASSUME NEW u \in Threads \ {th}
          PROVE  Spared(u)
      <3>1. Saving(u) /\ ~crossed[u] => ProcId(u) # cur[th] \/ cur[th] = NoId
        BY <1>n, Apart DEF ProcId
      <3> QED
        BY <1>o, <1>s, <3>1 DEF Spared, StoredTasks
    <2>2. Saver(th)' /\ Deleter(th)'
      BY <1>o, <1>t DEF IInv, TypeOK, InHand, Saver, Deleter, Deleting, ProcId
    <2> QED
      BY <1>o, <2>1, <2>2, <2>3, OthersKept DEF InHand
  <1>6. StoredInv'
    <2>1. \A id : Busy(id) => Busy(id)'
      BY <1>o DEF Busy, Deleting, IInv, TypeOK
    <2>2. \A id \in Ids : id = cur[th] => Busy(id)'
      BY <1>o DEF Busy, IInv, TypeOK
    <2>3. \A id : \A u \in Threads : cur[u] = id /\ Deleting(u) => cur'[u] = id /\ Deleting(u)'
      BY <1>o DEF Deleting, IInv, TypeOK
    <2>4. ASSUME NEW p \in procs'
          PROVE  \/ p.id \in disturbed'
                 \/ Busy(p.id)'
                 \/ StoredTasks(p.id)' = TasksOf(p.no, p.id)' /\ (OpersOf(p.no) \subseteq opers)'
      <3>1. p \in procs /\ p.id \in Ids
        BY <1>o DEF IInv, TypeOK
      <3>2. Busy(p.id)' \/ StoredTasks(p.id)' = StoredTasks(p.id)
        BY <1>s, <2>2, <3>1
      <3> QED
        BY <1>o, <2>1, <3>1, <3>2 DEF IInv, StoredInv, history
    <2>5. ASSUME NEW t \in tasks'
          PROVE  \/ t.proc \in disturbed'
                 \/ \E u \in Threads : cur'[u] = t.proc /\ Deleting(u)'
                 \/ ({o \in OpersOf(t.no) : o.act = t.act} \subseteq opers)'
      BY <1>o, <2>3 DEF IInv, StoredInv, history
    <2> QED
      BY <2>4, <2>5 DEF StoredInv
  <1>7. PromisedInv'
    BY <1>o, <1>s DEF IInv, TypeOK, PromisedInv, history
  <1> QED
    BY <1>1, <1>2, <1>3, <1>4, <1>5, <1>6, <1>7 DEF IInv

LEMMA AddTaskInductive ==
    ASSUME IInv, NEW th \in Threads, AddTask(th)
    PROVE  IInv'
  <1> USE SavesKept, RowFacts, RowTypes
  <1>o. PICK t \in todo[th] :
          /\ tasks' = tasks \union {t}
          /\ todo' = [todo EXCEPT ![th] = @ \ {t}]
          /\ at[th] = "tasks"
          /\ UNCHANGED <<procs, opers, saves, at, no, cur, ids, task, rest, crossed, history>>
    BY DEF AddTask
  <1>n. /\ Saving(th) /\ no[th] \in DOMAIN saves /\ ProcId(th) \in Ids
        /\ todo[th] \subseteq TasksOf(no[th], ProcId(th))
    BY <1>o, SaverFacts DEF IInv, InHand, Saver, Saving
  <1>t. t \in TasksOf(no[th], ProcId(th)) /\ t.no = no[th] /\ t.proc = ProcId(th)
    BY <1>n
  <1>l. t.no <= Len(saves) /\ t.proc <= Len(saves)
    BY <1>n, <1>t DEF IInv, TypeOK, Numbers, ProcId
  <1>s. \A x : /\ Stored(x)' = Stored(x)
               /\ StoredOpers(x)' = StoredOpers(x)
               /\ Busy(x)' = Busy(x)
               /\ x # t.proc => StoredTasks(x)' = StoredTasks(x)
               /\ StoredTasks(x)' \subseteq StoredTasks(x) \union {t}
    BY <1>o DEF StoredTasks, StoredOpers, Stored, Busy, Deleting
  <1>1. TypeOK'
    BY <1>o, <1>n, <1>t DEF IInv, TypeOK, history
  <1>k. Known' = Known \union {t}
    BY <1>o DEF Known, Deleting, IInv, TypeOK
  <1>2. Numbers'
    <2>1. ASSUME NEW u \in Threads, at[u] = "opers", cur[u] = NoId
          PROVE  t.proc # no[u]
      BY <1>o, <1>n, <1>t, <2>1 DEF IInv, Numbers, Saving, ProcId
    <2> QED
      BY <1>o, <1>k, <1>l, <1>s, <2>1 DEF IInv, TypeOK, Numbers, Saving
  <1>3. Crossing'
    BY <1>o DEF IInv, TypeOK, Crossing, Saving, history
  <1>4. OneProcess'
    <2>1. ASSUME NEW s \in Known, s.no = t.no
          PROVE  s.proc = t.proc
      BY <1>n, <1>t, <2>1 DEF IInv, OneProcess
    <2>2. \A p \in procs : t.no # p.no
      BY <1>n, <1>t DEF IInv, Numbers
    <2>3. \A u \in Threads : Saving(u) /\ t.no = no[u] => u = th
      BY <1>n, <1>t DEF IInv, Numbers
    <2>4. \A s, r \in Known' : s.no = r.no => s.proc = r.proc
      BY <1>k, <2>1 DEF IInv, OneProcess
    <2>5. \A s \in Known' : \A p \in procs' : s.no = p.no => s.proc = p.id
      BY <1>o, <1>k, <2>2 DEF IInv, OneProcess
    <2>6. \A u \in Threads : Saving(u)' = Saving(u) /\ ProcId(u)' = ProcId(u)
      BY <1>o DEF Saving, ProcId
    <2>7. \A s \in Known' : \A u \in Threads :
              Saving(u)' /\ s.no = no'[u] => at'[u] # "opers" /\ s.proc = ProcId(u)'
      BY <1>o, <1>t, <1>k, <2>3, <2>6 DEF IInv, OneProcess
    <2> QED
      BY <2>4, <2>5, <2>7 DEF OneProcess
  <1>5. InHand'
    <2>1. ASSUME NEW u \in Threads \ {th}
          PROVE  Untouched(u)
      BY <1>o DEF IInv, TypeOK, Untouched
    <2>2. ASSUME NEW u \in Threads \ {th}
          PROVE  Spared(u)
      <3>1. Saving(u) /\ ~crossed[u] => ProcId(u) # t.proc
        BY <1>n, <1>t, Apart
      <3>2. Deleting(u) /\ ~crossed[u] => cur[u] # t.proc
        BY <1>n, <1>t, DeleteApart
      <3> QED
        BY <1>o, <3>1, <3>2 DEF Spared
    <2>3. Saver(th)'
      <3>1. crossed[th] \/ /\ OpersOf(no[th]) \subseteq opers
                           /\ StoredTasks(ProcId(th)) = TasksOf(no[th], ProcId(th)) \ todo[th]
        BY <1>o DEF IInv, InHand, Saver
      <3>2. ProcId(th)' = ProcId(th)
        BY <1>o DEF ProcId
      <3>3. StoredTasks(ProcId(th))' = StoredTasks(ProcId(th)) \union {t}
        BY <1>o, <1>t, <3>2 DEF StoredTasks
      <3>4. at'[th] = "tasks" /\ no'[th] = no[th] /\ todo'[th] = todo[th] \ {t}
        BY <1>o DEF IInv, TypeOK
      <3> QED
        BY <1>o, <1>n, <1>t, <3>1, <3>2, <3>3, <3>4 DEF Saver
    <2>4. Deleter(th)'
      BY <1>o DEF IInv, TypeOK, Deleter, Deleting
    <2> QED
      BY <1>o, <2>1, <2>2, <2>3, <2>4, OthersKept DEF InHand
  <1>6. StoredInv'
    <2>1. ASSUME NEW p \in procs'
          PROVE  \/ p.id \in disturbed'
                 \/ Busy(p.id)'
                 \/ StoredTasks(p.id)' = TasksOf(p.no, p.id)' /\ (OpersOf(p.no) \subseteq opers)'
      <3>1. ASSUME p.id = t.proc
            PROVE  Busy(p.id)
        <4>1. cur[th] # NoId
          BY <1>o, <1>n, <1>t, <3>1 DEF IInv, Numbers, ProcId
        <4> QED
          BY <1>o, <1>t, <3>1, <4>1 DEF Busy, ProcId
      <3> QED
        BY <1>o, <1>s, <3>1 DEF IInv, StoredInv, history
    <2>2. \/ t.proc \in disturbed'
          \/ {o \in OpersOf(t.no) : o.act = t.act} \subseteq opers'
      <3>1. ASSUME crossed[th]
            PROVE  t.proc \in disturbed
        <4>1. cur[th] # NoId
          BY <1>n, <3>1 DEF IInv, Crossing
        <4> QED
          BY <1>t, <3>1, <4>1 DEF IInv, Crossing, ProcId
      <3>2. ASSUME ~crossed[th]
            PROVE  OpersOf(t.no) \subseteq opers
        BY <1>o, <1>t, <3>2 DEF IInv, InHand, Saver
      <3> QED
        BY <1>o, <3>1, <3>2 DEF history
    <2> QED
      BY <1>o, <2>1, <2>2 DEF IInv, StoredInv, Deleting, history
  <1>7. PromisedInv'
    BY <1>o, <1>s DEF IInv, TypeOK, PromisedInv, history
  <1> QED
    BY <1>1, <1>2, <1>3, <1>4, <1>5, <1>6, <1>7 DEF IInv

\* A save that has added its process: nobody else has its number, and what it
\* has written is what it was asked to store.
LEMMA SavedInductive ==
    ASSUME IInv, NEW th \in Threads, Saved(th), todo[th] = {},
           \/ at[th] = "tasks" /\ cur[th] = NoId
           \/ at[th] = "replace" /\ cur[th] # NoId /\ ~Stored(cur[th])
    PROVE  IInv'
  <1> USE SavesKept, RowFacts, RowTypes
  <1>n. Saving(th) /\ no[th] \in DOMAIN saves /\ no[th] \in Ids /\ ProcId(th) \in Ids
    BY SaverFacts DEF Saving
  <1>p. PICK row : row = RowOf(th)
    OBVIOUS
  <1>r. row.id = ProcId(th) /\ row.no = no[th]
    BY <1>p DEF RowOf
  <1>o. /\ procs' = procs \union {row}
        /\ promised' = promised \union {ProcId(th)}
        /\ disturbed' = IF crossed[th] THEN disturbed ELSE disturbed \ {cur[th]}
        /\ at' = [at EXCEPT ![th] = "idle"]
        /\ no' = [no EXCEPT ![th] = 0]
        /\ cur' = [cur EXCEPT ![th] = NoId]
        /\ todo' = [todo EXCEPT ![th] = {}]
        /\ ids' = [ids EXCEPT ![th] = {}]
        /\ task' = [task EXCEPT ![th] = {}]
        /\ rest' = [rest EXCEPT ![th] = {}]
        /\ crossed' = [crossed EXCEPT ![th] = FALSE]
        /\ UNCHANGED <<tasks, opers, saves>>
    BY <1>p DEF Saved, End, Goto
  <1>t. row \in [id : Ids, name : Names, no : DOMAIN saves]
    <2>2. saves[no[th]] \in [name : Names, conf : Configs]
      BY <1>n, SaveTyped DEF IInv, TypeOK
    <2> QED
      BY <1>n, <1>p, <2>2 DEF RowOf
  <1>u. \A p \in procs : p.id # row.id /\ p.no # row.no
    BY <1>n, <1>r DEF IInv, Numbers, ProcId, Stored
  <1>s. \A x : /\ Stored(x) => Stored(x)'
               /\ StoredOpers(x)' = StoredOpers(x)
               /\ StoredTasks(x)' = StoredTasks(x)
    BY <1>o DEF StoredTasks, StoredOpers, Stored
  <1>1. TypeOK'
    BY <1>o, <1>n, <1>t, <1>u DEF IInv, TypeOK, Steps, NoId
  <1>k. Known' = Known
    BY <1>o DEF Known, Deleting, IInv, TypeOK
  <1>2. Numbers'
    <2>1. row.id <= Len(saves)
      BY <1>n, <1>r DEF IInv, TypeOK, Numbers, ProcId
    <2>2. ASSUME NEW u \in Threads \ {th}, Saving(u)
          PROVE  no[u] # row.no /\ (cur[u] = NoId => no[u] # row.id)
      BY <1>n, <1>r, <2>2 DEF IInv, Numbers, ProcId
    <2>3. \A u \in Threads : Saving(u) => no[u] # NoId
      BY SaverFacts DEF NoId, Ids
    <2>4. \A u \in Threads : Saving(u)' => u # th /\ Saving(u) /\ no'[u] = no[u] /\ cur'[u] = cur[u]
      BY <1>o DEF Saving, IInv, TypeOK
    <2> QED
      BY <1>o, <1>k, <1>s, <2>1, <2>2, <2>3, <2>4 DEF IInv, TypeOK, Numbers, NoId
  <1>3. Crossing'
    BY <1>o DEF IInv, TypeOK, Crossing, Saving, NoId
  <1>4. OneProcess'
    <2>1. \A t \in Known : t.no = row.no => t.proc = row.id
      BY <1>n, <1>r DEF IInv, OneProcess
    <2>4. \A u \in Threads : Saving(u)' => /\ Saving(u) /\ no'[u] = no[u] /\ at'[u] = at[u]
                                           /\ ProcId(u)' = ProcId(u)
      BY <1>o DEF Saving, ProcId, IInv, TypeOK
    <2> QED
      BY <1>o, <1>k, <2>1, <2>4 DEF IInv, OneProcess
  <1>5. InHand'
    <2>1. ASSUME NEW u \in Threads \ {th}
          PROVE  Untouched(u) /\ Spared(u)
      BY <1>o DEF IInv, TypeOK, Untouched, Spared
    <2>2. Saver(th)' /\ Deleter(th)'
      BY <1>o DEF IInv, TypeOK, Saver, Deleter, Deleting
    <2> QED
      BY <1>o, <2>1, <2>2, OthersKept DEF InHand
  <1>d. \A id \in Ids : id # row.id => (id \in disturbed <=> id \in disturbed')
    BY <1>o, <1>r DEF ProcId, NoId, Ids
  <1>w. \/ row.id \in disturbed'
        \/ /\ OpersOf(row.no) \subseteq opers
           /\ StoredTasks(row.id) = TasksOf(row.no, row.id)
    <2>1. ASSUME crossed[th]
          PROVE  row.id \in disturbed'
      BY <1>n, <1>o, <1>r, <2>1 DEF IInv, Crossing, ProcId
    <2>2. ASSUME ~crossed[th]
          PROVE  /\ OpersOf(row.no) \subseteq opers
                 /\ StoredTasks(row.id) = TasksOf(row.no, row.id)
      <3>1. /\ OpersOf(no[th]) \subseteq opers
            /\ StoredTasks(ProcId(th)) = TasksOf(no[th], ProcId(th)) \ todo[th]
        BY <2>2 DEF IInv, InHand, Saver
      <3> QED
        BY <1>r, <3>1
    <2> QED
      BY <2>1, <2>2
  <1>6. StoredInv'
    <2>1. ASSUME NEW id \in Ids, id # row.id
          PROVE  /\ Busy(id) => Busy(id)'
                 /\ \A u \in Threads : cur[u] = id /\ Deleting(u) => cur'[u] = id /\ Deleting(u)'
      BY <1>o, <1>r, <2>1 DEF IInv, TypeOK, Busy, Deleting, ProcId, NoId, Ids
    <2>2. ASSUME NEW p \in procs'
          PROVE  \/ p.id \in disturbed'
                 \/ Busy(p.id)'
                 \/ StoredTasks(p.id)' = TasksOf(p.no, p.id)' /\ (OpersOf(p.no) \subseteq opers)'
      <3>1. CASE p = row
        BY <1>o, <1>s, <1>w, <3>1
      <3>2. CASE p # row
        <4>1. p \in procs /\ p.id \in Ids /\ p.id # row.id
          BY <1>o, <1>u, <3>2 DEF IInv, TypeOK
        <4> QED
          BY <1>o, <1>s, <1>d, <2>1, <4>1 DEF IInv, StoredInv
      <3> QED
        BY <3>1, <3>2
    <2>3. ASSUME NEW t \in tasks'
          PROVE  \/ t.proc \in disturbed'
                 \/ \E u \in Threads : cur'[u] = t.proc /\ Deleting(u)'
                 \/ ({o \in OpersOf(t.no) : o.act = t.act} \subseteq opers)'
      <3>1. t \in tasks /\ t.proc \in Ids
        BY <1>o DEF IInv, TypeOK
      <3>2. CASE t.proc = row.id
        <4>1. t \in StoredTasks(row.id)
          BY <3>1, <3>2 DEF StoredTasks
        <4>2. row.id \in disturbed' \/ t.no = row.no
          BY <1>w, <4>1
        <4> QED
          BY <1>o, <1>w, <3>2, <4>2
      <3>3. CASE t.proc # row.id
        BY <1>o, <1>d, <2>1, <3>1, <3>3 DEF IInv, StoredInv
      <3> QED
        BY <3>2, <3>3
    <2> QED
      BY <2>2, <2>3 DEF StoredInv
  <1>7. PromisedInv'
    <2>1. ASSUME NEW id, id = row.id
          PROVE  Stored(id)'
      BY <1>o, <2>1 DEF Stored
    <2>2. ASSUME NEW id \in promised', id # row.id
          PROVE  Stored(id)' \/ \E u \in Threads : cur'[u] = id /\ at'[u] = "replace"
      <3>1. id \in promised /\ id \in Ids
        BY <1>o, <1>r, <2>2 DEF IInv, TypeOK
      <3>2. \A u \in Threads : cur[u] = id /\ at[u] = "replace" => u # th
        BY <1>r, <2>2, <3>1 DEF ProcId, NoId, Ids
      <3> QED
        BY <1>o, <1>s, <3>1, <3>2 DEF IInv, TypeOK, PromisedInv
    <2> QED
      BY <2>1, <2>2 DEF PromisedInv
  <1> QED
    BY <1>1, <1>2, <1>3, <1>4, <1>5, <1>6, <1>7 DEF IInv

\* An update takes the process away, and promises to bring it back.
LEMMA DropProcessInductive ==
    ASSUME IInv, NEW th \in Threads, DropProcess(th)
    PROVE  IInv'
  <1> USE SavesKept, RowFacts, RowTypes
  <1>a. CASE ~Stored(cur[th]) /\ Abort(th)
    <2>1. at[th] = "tasks"
      BY DEF DropProcess
    <2> QED
      BY <1>a, <2>1, StopInductive DEF Abort
  <1>b. CASE Stored(cur[th])
    <2>o. /\ at[th] = "tasks" /\ todo[th] = {} /\ cur[th] # NoId
          /\ procs' = {p \in procs : p.id # cur[th]}
          /\ at' = [at EXCEPT ![th] = "replace"]
          /\ UNCHANGED <<tasks, opers, saves, no, cur, todo, ids, task, rest, crossed, history>>
      BY <1>b DEF DropProcess, Goto
    <2>n. Saving(th) /\ ProcId(th) = cur[th]
      BY <2>o DEF Saving, ProcId
    <2>s. \A x : /\ StoredOpers(x)' = StoredOpers(x)
                 /\ StoredTasks(x)' = StoredTasks(x)
                 /\ Busy(x)' = Busy(x)
                 /\ x # cur[th] => Stored(x)' = Stored(x)
      BY <2>o DEF StoredTasks, StoredOpers, Stored, Busy, Deleting, IInv, TypeOK
    <2>1. TypeOK'
      BY <2>o DEF IInv, TypeOK, Steps, history
    <2>k. Known' = Known
      BY <2>o DEF Known, Deleting, IInv, TypeOK
    <2>2. Numbers'
      BY <2>o, <2>k, <2>s DEF IInv, TypeOK, Numbers, Saving
    <2>3. Crossing'
      BY <2>o DEF IInv, TypeOK, Crossing, Saving, history
    <2>4. OneProcess'
      <3>1. \A u \in Threads : /\ Saving(u)' = Saving(u) /\ ProcId(u)' = ProcId(u)
                               /\ at'[u] = "opers" <=> at[u] = "opers"
        BY <2>o DEF Saving, ProcId, IInv, TypeOK
      <3> QED
        BY <2>o, <2>k, <3>1 DEF IInv, OneProcess
    <2>5. InHand'
      <3>1. ASSUME NEW u \in Threads \ {th}
            PROVE  Untouched(u) /\ Spared(u)
        <4>1. ~crossed[u] => cur[u] # cur[th]
          BY <2>o DEF IInv, Crossing
        <4> QED
          BY <2>o, <4>1 DEF IInv, TypeOK, Untouched, Spared
      <3>2. Saver(th)'
        <4>1. Saver(th)
          BY DEF IInv, InHand
        <4>2. ProcId(th)' = ProcId(th) /\ at'[th] = "replace"
          BY <2>o DEF ProcId, IInv, TypeOK
        <4> QED
          BY <2>o, <2>s, <4>1, <4>2 DEF Saver, StoredTasks
      <3>3. Deleter(th)'
        BY <2>o DEF IInv, TypeOK, Deleter, Deleting
      <3> QED
        BY <2>o, <3>1, <3>2, <3>3, OthersKept DEF InHand
    <2>6. StoredInv'
      <3>1. \A id : \A u \in Threads : cur[u] = id /\ Deleting(u) => cur'[u] = id /\ Deleting(u)'
        BY <2>o DEF IInv, TypeOK, Deleting
      <3> QED
        BY <2>o, <2>s, <3>1 DEF IInv, StoredInv, history
    <2>7. PromisedInv'
      BY <2>o, <2>s DEF IInv, TypeOK, PromisedInv, history
    <2> QED
      BY <2>1, <2>2, <2>3, <2>4, <2>5, <2>6, <2>7 DEF IInv
  <1> QED
    BY <1>a, <1>b DEF DropProcess

LEMMA ReplaceInductive ==
    ASSUME IInv, NEW th \in Threads, Replace(th)
    PROVE  IInv'
  <1>1. at[th] = "replace" /\ todo[th] = {} /\ cur[th] # NoId
    BY DEF Replace, IInv, InHand, Saver
  <1>2. CASE ~Stored(cur[th]) /\ Saved(th)
    BY <1>1, <1>2, SavedInductive
  <1>3. CASE Stored(cur[th]) /\ Abort(th)
    BY <1>3, StopInductive DEF Abort
  <1> QED
    BY <1>2, <1>3 DEF Replace

LEMMA DeleteInductive ==
    ASSUME IInv, NEW th \in Threads, NEW is \in SUBSET {p.id : p \in procs}, Delete(th, is)
    PROVE  IInv'
  <1> USE SavesKept, RowFacts, RowTypes
  <1>o. /\ at[th] = "idle"
        /\ ids' = [ids EXCEPT ![th] = is]
        /\ at' = [at EXCEPT ![th] = "get"]
        /\ UNCHANGED <<procs, tasks, opers, saves, no, cur, todo, task, rest, crossed, history>>
    BY DEF Delete, Goto, tables
  <1>s. \A x : /\ Stored(x)' = Stored(x)
               /\ StoredOpers(x)' = StoredOpers(x)
               /\ StoredTasks(x)' = StoredTasks(x)
               /\ Busy(x)' = Busy(x)
    BY <1>o DEF StoredTasks, StoredOpers, Stored, Busy, Deleting, IInv, TypeOK
  <1>1. TypeOK'
    BY <1>o DEF IInv, TypeOK, Steps, history
  <1>k. Known' = Known
    BY <1>o DEF Known, Deleting, IInv, TypeOK
  <1>2. Numbers'
    BY <1>o, <1>k, <1>s DEF IInv, TypeOK, Numbers, Saving
  <1>3. Crossing'
    BY <1>o DEF IInv, TypeOK, Crossing, Saving, history
  <1>4. OneProcess'
    BY <1>o, <1>k DEF IInv, TypeOK, OneProcess, Saving, ProcId
  <1>5. InHand'
    <2>1. ASSUME NEW u \in Threads \ {th}
          PROVE  Untouched(u) /\ Spared(u)
      BY <1>o DEF IInv, TypeOK, Untouched, Spared
    <2>2. Saver(th)' /\ Deleter(th)'
      BY <1>o DEF IInv, TypeOK, Saver, Deleter, Deleting
    <2> QED
      BY <1>o, <2>1, <2>2, OthersKept DEF InHand
  <1>6. StoredInv'
    <2>1. \A id : \A u \in Threads : cur[u] = id /\ Deleting(u) => cur'[u] = id /\ Deleting(u)'
      BY <1>o DEF IInv, TypeOK, Deleting
    <2> QED
      BY <1>o, <1>s, <2>1 DEF IInv, StoredInv, history
  <1>7. PromisedInv'
    BY <1>o, <1>s DEF IInv, TypeOK, PromisedInv, history
  <1> QED
    BY <1>1, <1>2, <1>3, <1>4, <1>5, <1>6, <1>7 DEF IInv

\* Requests that come to work on one process are all crossed.
LEMMA EnterCrossing ==
    ASSUME TypeOK, Crossing, NEW th \in Threads, NEW id \in Ids \union {NoId}, Enter(th, id),
           \A u \in Threads \ {th} : Saving(u)' = Saving(u),
           Saving(th)' => id # NoId \/ ~crossed'[th]
    PROVE  Crossing'
  BY DEF TypeOK, Crossing, Enter, Saving, NoId

LEMMA GetInductive ==
    ASSUME IInv, NEW th \in Threads, Get(th)
    PROVE  IInv'
  <1> USE SavesKept, RowFacts, RowTypes
  <1>a. CASE Abort(th)
    BY <1>a, StopInductive DEF Abort, Get
  <1>b. CASE ~Abort(th)
    <2>o. PICK id \in ids[th] :
            /\ at[th] = "get"
            /\ Stored(id)
            /\ Enter(th, id)
            /\ ids' = [ids EXCEPT ![th] = @ \ {id}]
            /\ promised' = promised \ {id}
            /\ at' = [at EXCEPT ![th] = "load"]
            /\ UNCHANGED <<procs, tasks, opers, saves, no, todo, task, rest>>
      BY <1>b DEF Get, Goto, tables
    <2>i. id \in Ids /\ id # NoId
      BY <2>o DEF IInv, TypeOK, Ids, NoId
    <2>e. /\ cur' = [cur EXCEPT ![th] = id]
          /\ crossed' \in [Threads -> BOOLEAN]
          /\ \A u \in Threads \ {th} : crossed[u] => crossed'[u]
          /\ disturbed \subseteq disturbed' /\ disturbed' \subseteq disturbed \union {id}
      BY <2>o DEF Enter, IInv, TypeOK
    <2>s. \A x : /\ Stored(x)' = Stored(x)
                 /\ StoredOpers(x)' = StoredOpers(x)
                 /\ StoredTasks(x)' = StoredTasks(x)
                 /\ Busy(x) => Busy(x)'
      BY <2>o, <2>e DEF StoredTasks, StoredOpers, Stored, Busy, Deleting, IInv, TypeOK
    <2>1. TypeOK'
      BY <2>o, <2>e, <2>i DEF IInv, TypeOK, Steps
    <2>k. Known' = Known
      BY <2>o DEF Known, Deleting, IInv, TypeOK
    <2>2. Numbers'
      <3>1. PICK p \in procs : p.id = id
        BY <2>o DEF Stored
      <3>2. id <= Len(saves) /\ \A u \in Threads : Saving(u) /\ cur[u] = NoId => id # no[u]
        BY <3>1 DEF IInv, Numbers
      <3>3. \A u \in Threads : Saving(u)' => u # th /\ Saving(u)
        BY <2>o DEF Saving, IInv, TypeOK
      <3> QED
        BY <2>o, <2>e, <2>k, <2>s, <3>2, <3>3 DEF IInv, TypeOK, Numbers
    <2>3. Crossing'
      <3>1. \A u \in Threads \ {th} : Saving(u)' = Saving(u)
        BY <2>o DEF Saving, IInv, TypeOK
      <3> QED
        BY <2>o, <2>i, <3>1, EnterCrossing DEF IInv
    <2>4. OneProcess'
      BY <2>o, <2>e, <2>k DEF IInv, TypeOK, OneProcess, Saving, ProcId
    <2>5. InHand'
      <3>1. ASSUME NEW u \in Threads \ {th}
            PROVE  Untouched(u) /\ Spared(u)
        BY <2>o, <2>e DEF IInv, TypeOK, Untouched, Spared
      <3>2. Saver(th)' /\ Deleter(th)'
        BY <2>o, <2>e, <2>i DEF IInv, TypeOK, Saver, Deleter, Deleting, Stored
      <3> QED
        BY <2>o, <3>1, <3>2, OthersKept DEF InHand
    <2>6. StoredInv'
      <3>1. \A x : \A u \in Threads : cur[u] = x /\ Deleting(u) => cur'[u] = x /\ Deleting(u)'
        BY <2>o, <2>e DEF IInv, TypeOK, Deleting
      <3> QED
        BY <2>o, <2>e, <2>s, <3>1 DEF IInv, StoredInv
    <2>7. PromisedInv'
      BY <2>o, <2>e, <2>s DEF IInv, TypeOK, PromisedInv
    <2> QED
      BY <2>1, <2>2, <2>3, <2>4, <2>5, <2>6, <2>7 DEF IInv
  <1> QED
    BY <1>a, <1>b

LEMMA LoadTasksInductive ==
    ASSUME IInv, NEW th \in Threads, LoadTasks(th)
    PROVE  IInv'
  <1> USE SavesKept, RowFacts, RowTypes
  <1>o. /\ at[th] = "load"
        /\ todo' = [todo EXCEPT ![th] = StoredTasks(cur[th])]
        /\ at' = [at EXCEPT ![th] = "delete"]
        /\ UNCHANGED <<procs, tasks, opers, saves, no, cur, ids, task, rest, crossed, history>>
    BY DEF LoadTasks, Goto, tables
  <1>s. \A x : /\ Stored(x)' = Stored(x)
               /\ StoredOpers(x)' = StoredOpers(x)
               /\ StoredTasks(x)' = StoredTasks(x)
               /\ Busy(x) => Busy(x)'
    BY <1>o DEF StoredTasks, StoredOpers, Stored, Busy, Deleting, IInv, TypeOK
  <1>t. StoredTasks(cur[th]) \subseteq tasks /\ \A t \in StoredTasks(cur[th]) : t.proc = cur[th]
    BY DEF StoredTasks
  <1>1. TypeOK'
    BY <1>o, <1>t DEF IInv, TypeOK, Steps, history
  <1>k. Known' = Known
    BY <1>o, <1>t DEF Known, Deleting, IInv, TypeOK
  <1>2. Numbers'
    BY <1>o, <1>k, <1>s DEF IInv, TypeOK, Numbers, Saving
  <1>3. Crossing'
    BY <1>o DEF IInv, TypeOK, Crossing, Saving, history
  <1>4. OneProcess'
    BY <1>o, <1>k DEF IInv, TypeOK, OneProcess, Saving, ProcId
  <1>5. InHand'
    <2>1. ASSUME NEW u \in Threads \ {th}
          PROVE  Untouched(u) /\ Spared(u)
      BY <1>o DEF IInv, TypeOK, Untouched, Spared
    <2>2. Saver(th)'
      BY <1>o DEF IInv, TypeOK, Saver
    <2>3. Deleter(th)'
      <3>1. cur[th] # NoId /\ (crossed[th] \/ Stored(cur[th]))
        BY <1>o DEF IInv, InHand, Deleter
      <3> QED
        BY <1>o, <1>s, <1>t, <3>1 DEF IInv, TypeOK, Deleter, Deleting
    <2> QED
      BY <1>o, <2>1, <2>2, <2>3, OthersKept DEF InHand
  <1>6. StoredInv'
    <2>1. \A x : \A u \in Threads : cur[u] = x /\ Deleting(u) => cur'[u] = x /\ Deleting(u)'
      BY <1>o DEF IInv, TypeOK, Deleting
    <2> QED
      BY <1>o, <1>s, <2>1 DEF IInv, StoredInv, history
  <1>7. PromisedInv'
    BY <1>o, <1>s DEF IInv, TypeOK, PromisedInv, history
  <1> QED
    BY <1>1, <1>2, <1>3, <1>4, <1>5, <1>6, <1>7 DEF IInv

LEMMA LoadOpersInductive ==
    ASSUME IInv, NEW th \in Threads, LoadOpers(th)
    PROVE  IInv'
  <1> USE SavesKept, RowFacts, RowTypes
  <1>o. PICK t \in todo[th] :
          /\ at[th] = "delete"
          /\ task' = [task EXCEPT ![th] = {t}]
          /\ rest' = [rest EXCEPT ![th] = StoredOpers(t)]
          /\ at' = [at EXCEPT ![th] = "task"]
          /\ UNCHANGED <<procs, tasks, opers, saves, no, cur, todo, ids, crossed, history>>
    BY DEF LoadOpers, Goto, tables
  <1>s. \A x : /\ Stored(x)' = Stored(x)
               /\ StoredOpers(x)' = StoredOpers(x)
               /\ StoredTasks(x)' = StoredTasks(x)
               /\ Busy(x) => Busy(x)'
    BY <1>o DEF StoredTasks, StoredOpers, Stored, Busy, Deleting, IInv, TypeOK
  <1>t. /\ t \in TaskRows
        /\ StoredOpers(t) \subseteq opers
        /\ \A o \in StoredOpers(t) : o.no = t.no /\ o.act = t.act
    BY <1>o DEF StoredOpers, IInv, InHand, Deleter, Deleting
  <1>1. TypeOK'
    BY <1>o, <1>t DEF IInv, TypeOK, Steps, history
  <1>k. Known' = Known
    BY <1>o DEF Known, Deleting, IInv, TypeOK
  <1>2. Numbers'
    BY <1>o, <1>k, <1>s DEF IInv, TypeOK, Numbers, Saving
  <1>3. Crossing'
    BY <1>o DEF IInv, TypeOK, Crossing, Saving, history
  <1>4. OneProcess'
    BY <1>o, <1>k DEF IInv, TypeOK, OneProcess, Saving, ProcId
  <1>5. InHand'
    <2>1. ASSUME NEW u \in Threads \ {th}
          PROVE  Untouched(u) /\ Spared(u)
      BY <1>o DEF IInv, TypeOK, Untouched, Spared
    <2>2. Saver(th)'
      BY <1>o DEF IInv, TypeOK, Saver
    <2>3. Deleter(th)'
      <3>1. Deleter(th)
        BY DEF IInv, InHand
      <3>2. /\ at'[th] = "task" /\ cur'[th] = cur[th] /\ todo'[th] = todo[th]
            /\ task'[th] = {t} /\ rest'[th] = StoredOpers(t)
        BY <1>o DEF IInv, TypeOK
      <3> QED
        BY <1>o, <1>s, <1>t, <3>1, <3>2 DEF Deleter, Deleting
    <2> QED
      BY <1>o, <2>1, <2>2, <2>3, OthersKept DEF InHand
  <1>6. StoredInv'
    <2>1. \A x : \A u \in Threads : cur[u] = x /\ Deleting(u) => cur'[u] = x /\ Deleting(u)'
      BY <1>o DEF IInv, TypeOK, Deleting
    <2> QED
      BY <1>o, <1>s, <2>1 DEF IInv, StoredInv, history
  <1>7. PromisedInv'
    BY <1>o, <1>s DEF IInv, TypeOK, PromisedInv, history
  <1> QED
    BY <1>1, <1>2, <1>3, <1>4, <1>5, <1>6, <1>7 DEF IInv

\* The operators a delete is left with are those of the task it deletes.
LEMMA TaskInHand ==
    ASSUME IInv, NEW th \in Threads, at[th] = "task"
    PROVE  \E t \in todo[th] :
               /\ task[th] = {t} /\ t \in Known /\ t.proc = cur[th] /\ cur[th] # NoId
               /\ \A o \in rest[th] : o.no = t.no /\ o.act = t.act
               /\ StoredOpers(t) \subseteq rest[th]
  BY DEF IInv, InHand, Deleter, Deleting, Known

\* They are no uncrossed save's: its tasks belong to its process alone.
LEMMA DeletedNotSaved ==
    ASSUME IInv, NEW th \in Threads, Deleting(th), NEW t \in Known, t.proc = cur[th],
           NEW u \in Threads, Saving(u), at[u] = "opers" \/ ~crossed[u]
    PROVE  t.no # no[u]
  <1>1. SUFFICES ASSUME t.no = no[u]
                 PROVE  FALSE
    OBVIOUS
  <1>2. at[u] # "opers" /\ t.proc = ProcId(u)
    BY <1>1 DEF IInv, OneProcess
  <1> QED
    BY <1>2, DeleteApart

LEMMA DeleteOperInductive ==
    ASSUME IInv, NEW th \in Threads, DeleteOper(th)
    PROVE  IInv'
  <1> USE SavesKept, RowFacts, RowTypes
  <1>a. CASE Abort(th)
    BY <1>a, StopInductive DEF Abort, DeleteOper
  <1>b. CASE ~Abort(th)
    <2>o. PICK o \in rest[th] :
            /\ at[th] = "task"
            /\ opers' = opers \ {o}
            /\ rest' = [rest EXCEPT ![th] = @ \ {o}]
            /\ UNCHANGED <<procs, tasks, saves, at, no, cur, todo, ids, task, crossed, history>>
      BY <1>b DEF DeleteOper
    <2>t. PICK t \in todo[th] :
            /\ task[th] = {t} /\ t \in Known /\ t.proc = cur[th] /\ cur[th] # NoId
            /\ \A x \in rest[th] : x.no = t.no /\ x.act = t.act
            /\ StoredOpers(t) \subseteq rest[th]
      BY <2>o, TaskInHand
    <2>d. Deleting(th) /\ o.no = t.no /\ o.act = t.act
      BY <2>o, <2>t DEF Deleting
    <2>s. \A x : /\ Stored(x)' = Stored(x)
                 /\ StoredOpers(x)' = StoredOpers(x) \ {o}
                 /\ StoredTasks(x)' = StoredTasks(x)
                 /\ Busy(x)' = Busy(x)
      BY <2>o DEF StoredTasks, StoredOpers, Stored, Busy, Deleting
    <2>1. TypeOK'
      BY <2>o DEF IInv, TypeOK, history
    <2>k. Known' = Known
      BY <2>o DEF Known, Deleting
    <2>2. Numbers'
      BY <2>o, <2>k, <2>s DEF IInv, TypeOK, Numbers, Saving
    <2>3. Crossing'
      BY <2>o DEF IInv, TypeOK, Crossing, Saving, history
    <2>4. OneProcess'
      BY <2>o, <2>k DEF IInv, TypeOK, OneProcess, Saving, ProcId
    <2>5. InHand'
      <3>1. ASSUME NEW u \in Threads \ {th}
            PROVE  Untouched(u) /\ Spared(u)
        <4>1. Saving(u) /\ (at[u] = "opers" \/ ~crossed[u]) => o.no # no[u]
          BY <2>t, <2>d, DeletedNotSaved
        <4> QED
          BY <2>o, <4>1 DEF IInv, TypeOK, Untouched, Spared
      <3>2. Saver(th)'
        BY <2>o DEF Saver
      <3>3. Deleter(th)'
        <4>1. Deleter(th)
          BY DEF IInv, InHand
        <4>2. rest'[th] = rest[th] \ {o}
          BY <2>o DEF IInv, TypeOK
        <4> QED
          BY <2>o, <2>s, <2>t, <4>1, <4>2 DEF Deleter, Deleting
      <3> QED
        BY <2>o, <3>1, <3>2, <3>3, OthersKept DEF InHand
    <2>6. StoredInv'
      <3>1. ASSUME NEW p \in procs, o \in OpersOf(p.no)
            PROVE  Busy(p.id)
        <4>1. t.proc = p.id
          BY <2>t, <2>d, <3>1 DEF IInv, OneProcess
        <4> QED
          BY <2>t, <2>d, <4>1 DEF Busy
      <3>2. ASSUME NEW s \in tasks, o \in OpersOf(s.no)
            PROVE  cur[th] = s.proc
        <4>1. s \in Known
          BY DEF Known
        <4> QED
          BY <2>t, <2>d, <3>2, <4>1 DEF IInv, OneProcess
      <3>3. \A p \in procs : \/ p.id \in disturbed
                             \/ Busy(p.id)
                             \/ /\ StoredTasks(p.id) = TasksOf(p.no, p.id)
                                /\ OpersOf(p.no) \subseteq opers \ {o}
        BY <3>1 DEF IInv, StoredInv
      <3>4. \A s \in tasks : \/ s.proc \in disturbed
                             \/ \E u \in Threads : cur[u] = s.proc /\ Deleting(u)
                             \/ {x \in OpersOf(s.no) : x.act = s.act} \subseteq opers \ {o}
        BY <2>d, <3>2 DEF IInv, StoredInv
      <3> QED
        BY <2>o, <2>s, <3>3, <3>4 DEF StoredInv, Deleting, history
    <2>7. PromisedInv'
      BY <2>o, <2>s DEF IInv, TypeOK, PromisedInv, history
    <2> QED
      BY <2>1, <2>2, <2>3, <2>4, <2>5, <2>6, <2>7 DEF IInv
  <1> QED
    BY <1>a, <1>b

LEMMA DeleteTaskInductive ==
    ASSUME IInv, NEW th \in Threads, DeleteTask(th)
    PROVE  IInv'
  <1> USE SavesKept, RowFacts, RowTypes
  <1>a. CASE Abort(th)
    BY <1>a, StopInductive DEF Abort, DeleteTask
  <1>b. CASE ~Abort(th)
    <2>t. PICK t \in todo[th] :
            /\ task[th] = {t} /\ t \in Known /\ t.proc = cur[th] /\ cur[th] # NoId
            /\ \A x \in rest[th] : x.no = t.no /\ x.act = t.act
            /\ StoredOpers(t) \subseteq rest[th]
      BY TaskInHand DEF DeleteTask
    <2>o. /\ at[th] = "task"
          /\ tasks' = tasks \ {t}
          /\ todo' = [todo EXCEPT ![th] = @ \ {t}]
          /\ task' = [task EXCEPT ![th] = {}]
          /\ at' = [at EXCEPT ![th] = "delete"]
          /\ UNCHANGED <<procs, opers, saves, no, cur, ids, rest, crossed, history>>
      BY <1>b, <2>t DEF DeleteTask, Goto
    <2>d. Deleting(th)
      BY <2>o DEF Deleting
    <2>s. \A x : /\ Stored(x)' = Stored(x)
                 /\ StoredOpers(x)' = StoredOpers(x)
                 /\ StoredTasks(x)' = StoredTasks(x) \ {t}
                 /\ x # cur[th] => StoredTasks(x)' = StoredTasks(x)
                 /\ Busy(x)' = Busy(x)
      BY <2>o, <2>t DEF StoredTasks, StoredOpers, Stored, Busy, Deleting, IInv, TypeOK
    <2>1. TypeOK'
      BY <2>o DEF IInv, TypeOK, Steps, history
    <2>k. Known' \subseteq Known
      BY <2>o DEF Known, Deleting, IInv, TypeOK
    <2>2. Numbers'
      BY <2>o, <2>k, <2>s DEF IInv, TypeOK, Numbers, Saving
    <2>3. Crossing'
      BY <2>o DEF IInv, TypeOK, Crossing, Saving, history
    <2>4. OneProcess'
      BY <2>o, <2>k DEF IInv, TypeOK, OneProcess, Saving, ProcId
    <2>5. InHand'
      <3>1. ASSUME NEW u \in Threads \ {th}
            PROVE  Untouched(u) /\ Spared(u)
        <4>1. Saving(u) /\ ~crossed[u] => t.proc # ProcId(u)
          BY <2>t, <2>d, DeleteApart
        <4> QED
          BY <2>o, <4>1 DEF IInv, TypeOK, Untouched, Spared
      <3>2. Saver(th)'
        BY <2>o DEF IInv, TypeOK, Saver
      <3>3. Deleter(th)'
        <4>1. Deleter(th)
          BY DEF IInv, InHand
        <4>2. at'[th] = "delete" /\ todo'[th] = todo[th] \ {t} /\ cur'[th] = cur[th]
          BY <2>o DEF IInv, TypeOK
        <4> QED
          BY <2>o, <2>s, <2>d, <4>1, <4>2 DEF Deleter, Deleting
      <3> QED
        BY <2>o, <3>1, <3>2, <3>3, OthersKept DEF InHand
    <2>6. StoredInv'
      <3>1. Busy(cur[th])
        BY <2>d DEF Busy
      <3>2. \A x : \A u \in Threads : cur[u] = x /\ Deleting(u) => cur'[u] = x /\ Deleting(u)'
        BY <2>o DEF IInv, TypeOK, Deleting
      <3>3. \A p \in procs : \/ p.id \in disturbed
                             \/ Busy(p.id)
                             \/ /\ StoredTasks(p.id)' = TasksOf(p.no, p.id)
                                /\ OpersOf(p.no) \subseteq opers
        BY <2>s, <3>1 DEF IInv, StoredInv
      <3> QED
        BY <2>o, <2>s, <3>2, <3>3 DEF IInv, StoredInv, history
    <2>7. PromisedInv'
      BY <2>o, <2>s DEF IInv, TypeOK, PromisedInv, history
    <2> QED
      BY <2>1, <2>2, <2>3, <2>4, <2>5, <2>6, <2>7 DEF IInv
  <1> QED
    BY <1>a, <1>b

LEMMA DeleteProcessInductive ==
    ASSUME IInv, NEW th \in Threads, DeleteProcess(th)
    PROVE  IInv'
  <1> USE SavesKept, RowFacts, RowTypes
  <1>a. CASE ~Stored(cur[th])
    BY <1>a, StopInductive DEF Abort, DeleteProcess
  <1>b. CASE Stored(cur[th])
    <2>o. /\ at[th] = "delete" /\ todo[th] = {}
          /\ procs' = {p \in procs : p.id # cur[th]}
          /\ promised' = promised \ {cur[th]}
          /\ UNCHANGED <<tasks, opers, saves, disturbed>>
      BY <1>b DEF DeleteProcess
    <2>e. /\ at' \in [Threads -> Steps] /\ at'[th] \in {"idle", "get"}
          /\ no' \in [Threads -> 0..Len(saves)]
          /\ cur' = [cur EXCEPT ![th] = NoId]
          /\ todo' = [todo EXCEPT ![th] = {}]
          /\ ids' \in [Threads -> SUBSET Ids]
          /\ task' \in [Threads -> SUBSET TaskRows]
          /\ rest' \in [Threads -> SUBSET OperRows]
          /\ crossed' \in [Threads -> BOOLEAN]
          /\ \A u \in Threads \ {th} :
                 /\ at'[u] = at[u] /\ no'[u] = no[u]
                 /\ task'[u] = task[u] /\ rest'[u] = rest[u] /\ crossed'[u] = crossed[u]
      <3>1. CASE ids[th] = {}
        <4>1. /\ at' = [at EXCEPT ![th] = "idle"]
              /\ no' = [no EXCEPT ![th] = 0]
              /\ cur' = [cur EXCEPT ![th] = NoId]
              /\ todo' = [todo EXCEPT ![th] = {}]
              /\ ids' = [ids EXCEPT ![th] = {}]
              /\ task' = [task EXCEPT ![th] = {}]
              /\ rest' = [rest EXCEPT ![th] = {}]
              /\ crossed' = [crossed EXCEPT ![th] = FALSE]
          BY <1>b, <3>1 DEF DeleteProcess, End, Goto
        <4> QED
          BY <4>1 DEF IInv, TypeOK, Steps
      <3>2. CASE ids[th] # {}
        <4>1. /\ at' = [at EXCEPT ![th] = "get"]
              /\ cur' = [cur EXCEPT ![th] = NoId]
              /\ UNCHANGED <<no, todo, ids, task, rest, crossed>>
          BY <1>b, <3>2 DEF DeleteProcess, Goto
        <4>2. todo = [todo EXCEPT ![th] = {}]
          BY <2>o DEF IInv, TypeOK
        <4> QED
          BY <4>1, <4>2 DEF IInv, TypeOK, Steps
      <3> QED
        BY <3>1, <3>2
    <2>d. Deleting(th) /\ cur[th] # NoId
      BY <2>o DEF Deleting, IInv, InHand, Deleter
    <2>s. \A x : /\ StoredOpers(x)' = StoredOpers(x)
                 /\ StoredTasks(x)' = StoredTasks(x)
                 /\ x # cur[th] => Stored(x)' = Stored(x)
      BY <2>o DEF StoredTasks, StoredOpers, Stored
    <2>b. \A x \in Ids : x # cur[th] => Busy(x)' = Busy(x)
      BY <2>o, <2>e DEF Busy, Deleting, IInv, TypeOK, Ids, NoId
    <2>1. TypeOK'
      BY <2>o, <2>e DEF IInv, TypeOK, NoId
    <2>k. Known' \subseteq Known
      BY <2>o, <2>e DEF Known, Deleting, IInv, TypeOK
    <2>2. Numbers'
      <3>1. \A u \in Threads : Saving(u)' => u # th /\ Saving(u)
        BY <2>e DEF Saving
      <3>2. \A u \in Threads : Saving(u) => no[u] # NoId
        BY SaverFacts DEF NoId, Ids
      <3> QED
        BY <2>o, <2>e, <2>k, <2>s, <3>1, <3>2 DEF IInv, TypeOK, Numbers, NoId
    <2>3. Crossing'
      BY <2>o, <2>e DEF IInv, TypeOK, Crossing, Saving, NoId
    <2>4. OneProcess'
      <3>1. \A u \in Threads : Saving(u)' => /\ Saving(u) /\ no'[u] = no[u] /\ at'[u] = at[u]
                                             /\ ProcId(u)' = ProcId(u)
        BY <2>e DEF Saving, ProcId, IInv, TypeOK
      <3> QED
        BY <2>o, <2>k, <3>1 DEF IInv, OneProcess
    <2>5. InHand'
      <3>1. ASSUME NEW u \in Threads \ {th}
            PROVE  Untouched(u) /\ Spared(u)
        <4>1. ~crossed[u] => cur[u] # cur[th]
          BY <2>d DEF IInv, Crossing
        <4> QED
          BY <2>o, <2>e, <4>1 DEF IInv, TypeOK, Untouched, Spared
      <3>2. Saver(th)' /\ Deleter(th)'
        BY <2>e DEF Saver, Deleter, Deleting
      <3> QED
        BY <2>o, <3>1, <3>2, OthersKept DEF InHand
    <2>6. StoredInv'
      <3>1. cur[th] \in disturbed \/ StoredTasks(cur[th]) = {}
        BY <2>o, <2>d DEF IInv, InHand, Deleter, Crossing
      <3>2. \A t \in tasks : t.proc = cur[th] => t.proc \in disturbed
        BY <3>1 DEF StoredTasks
      <3>3. \A u \in Threads \ {th} : Deleting(u) => cur'[u] = cur[u] /\ Deleting(u)'
        BY <2>e DEF IInv, TypeOK, Deleting
      <3>4. ASSUME NEW p \in procs'
            PROVE  \/ p.id \in disturbed'
                   \/ Busy(p.id)'
                   \/ StoredTasks(p.id)' = TasksOf(p.no, p.id)' /\ (OpersOf(p.no) \subseteq opers)'
        <4>1. p \in procs /\ p.id \in Ids /\ p.id # cur[th]
          BY <2>o DEF IInv, TypeOK
        <4> QED
          BY <2>o, <2>s, <2>b, <4>1 DEF IInv, StoredInv
      <3>5. ASSUME NEW t \in tasks'
            PROVE  \/ t.proc \in disturbed'
                   \/ \E u \in Threads : cur'[u] = t.proc /\ Deleting(u)'
                   \/ ({o \in OpersOf(t.no) : o.act = t.act} \subseteq opers)'
        BY <2>o, <3>2, <3>3 DEF IInv, StoredInv
      <3> QED
        BY <3>4, <3>5 DEF StoredInv
    <2>7. PromisedInv'
      <3>1. ASSUME NEW x \in promised'
            PROVE  Stored(x)' \/ \E u \in Threads : cur'[u] = x /\ at'[u] = "replace"
        <4>1. x \in promised /\ x # cur[th]
          BY <2>o
        <4>2. \A u \in Threads : at[u] = "replace" => u # th /\ at'[u] = at[u] /\ cur'[u] = cur[u]
          BY <2>o, <2>e DEF IInv, TypeOK
        <4> QED
          BY <2>s, <4>1, <4>2 DEF IInv, PromisedInv
      <3> QED
        BY <3>1 DEF PromisedInv
    <2> QED
      BY <2>1, <2>2, <2>3, <2>4, <2>5, <2>6, <2>7 DEF IInv
  <1> QED
    BY <1>a, <1>b

\* A new save has a number that nothing knows.
LEMMA SaveInductive ==
    ASSUME IInv, NEW th \in Threads, NEW nm \in Names, NEW c \in Configs, Save(th, nm, c)
    PROVE  IInv'
  <1>n. PICK n : n = Len(saves) + 1
    OBVIOUS
  <1>a. /\ at[th] = "idle"
        /\ Len(saves) < MaxSaves
        /\ saves' = Append(saves, [name |-> nm, conf |-> c])
    BY DEF Save
  <1>b. /\ Len(saves') = n
        /\ DOMAIN saves' = DOMAIN saves \union {n}
        /\ saves' \in Seq([name : Names, conf : Configs])
        /\ \A i \in DOMAIN saves : OpersOf(i)' = OpersOf(i)
        /\ \A i \in DOMAIN saves : \A x : TasksOf(i, x)' = TasksOf(i, x)
        /\ OperRows \subseteq OperRows'
        /\ TaskRows \subseteq TaskRows'
    <2>1. [name |-> nm, conf |-> c] \in [name : Names, conf : Configs]
      OBVIOUS
    <2> QED
      BY <1>a, <1>n, <2>1, SavesAppended DEF IInv, TypeOK
  <1>c. Len(saves) \in Nat /\ n \in Ids /\ n \notin DOMAIN saves
    BY <1>a, <1>n, DefinitionAssumption DEF IInv, TypeOK, Ids
  <1>d. n > Len(saves) /\ n # NoId
    BY <1>c, <1>n DEF NoId
  <1>e. PICK id \in Ids \union {NoId} :
          Enter(th, id) /\ (id = NoId \/ \E p \in procs : p.id = id)
    BY DEF Save, IInv, TypeOK
  <1>f. /\ cur' = [cur EXCEPT ![th] = id]
        /\ crossed' \in [Threads -> BOOLEAN]
        /\ id = NoId => ~crossed'[th]
        /\ \A u \in Threads \ {th} : crossed[u] => crossed'[u]
        /\ disturbed \subseteq disturbed' /\ disturbed' \subseteq disturbed \union {id}
        /\ id = NoId => disturbed' = disturbed
    BY <1>e DEF Enter, IInv, TypeOK
  <1>o. /\ no' = [no EXCEPT ![th] = n]
        /\ todo' = [todo EXCEPT ![th] = OpersOf(n)']
        /\ at' = [at EXCEPT ![th] = "opers"]
        /\ UNCHANGED <<procs, tasks, opers, ids, task, rest, promised>>
    <2>1. no' = [no EXCEPT ![th] = Len(saves')] /\ todo' = [todo EXCEPT ![th] = OpersOf(Len(saves))']
      BY DEF Save
    <2>2. OpersOf(Len(saves))' = OpersOf(n)'
      BY <1>b DEF OpersOf
    <2> QED
      BY <1>b, <2>1, <2>2 DEF Save, Goto, tables
  <1>r. OpersOf(n)' \subseteq OperRows'
    BY <1>b DEF OperRows
  <1>s. \A x : /\ Stored(x)' = Stored(x)
               /\ StoredOpers(x)' = StoredOpers(x)
               /\ StoredTasks(x)' = StoredTasks(x)
               /\ Busy(x) => Busy(x)'
    BY <1>a, <1>f, <1>o DEF StoredTasks, StoredOpers, Stored, Busy, Deleting, IInv, TypeOK
  <1>l. /\ \A p \in procs : p.id # n /\ p.no # n /\ p.id <= n
        /\ \A t \in Known : t.no # n /\ t.proc # n /\ t.no <= n /\ t.proc <= n
        /\ \A u \in Threads : cur[u] # n /\ cur[u] <= n
        /\ \A u \in Threads : Saving(u) => no[u] # n /\ no[u] # NoId
        /\ id # n /\ id <= n
    <2>1. \A x \in Nat : x <= Len(saves) => x # n /\ x <= n
      BY <1>c, <1>n
    <2>2. \A p \in procs : p.id <= Len(saves) /\ p.no <= Len(saves) /\ p.id \in Nat /\ p.no \in Nat
      BY <1>c DEF IInv, TypeOK, Numbers, Ids
    <2>3. \A t \in Known : t.no <= Len(saves) /\ t.proc <= Len(saves) /\ t.no \in Nat /\ t.proc \in Nat
      <3>1. Known \subseteq TaskRows
        BY DEF IInv, TypeOK, InHand, Deleter, Known
      <3> QED
        BY <1>c, <3>1, RowTypes DEF IInv, TypeOK, Numbers, Ids
    <2>4. \A u \in Threads : cur[u] <= Len(saves) /\ cur[u] \in Nat
      BY DEF IInv, TypeOK, Numbers, Ids, NoId
    <2>5. \A u \in Threads : Saving(u) => no[u] # n /\ no[u] # NoId
      BY <1>c, SaverFacts DEF Ids, NoId
    <2>6. id \in Nat /\ id <= Len(saves)
      BY <1>c, <1>e, <2>2 DEF NoId
    <2> QED
      BY <2>1, <2>2, <2>3, <2>4, <2>5, <2>6
  <1>1. TypeOK'
    <2>1. Len(saves') \in Nat /\ Len(saves') <= MaxSaves /\ 0..Len(saves) \subseteq 0..Len(saves')
      BY <1>a, <1>b, <1>c, <1>n, DefinitionAssumption
    <2>2. n \in 0..Len(saves')
      BY <1>b, <1>c, <1>n
    <2>3. disturbed' \subseteq Ids
      BY <1>f DEF IInv, TypeOK
    <2> QED
      BY <1>b, <1>f, <1>o, <1>r, <2>1, <2>2, <2>3 DEF IInv, TypeOK, Steps
  <1>k. Known' = Known
    BY <1>a, <1>o DEF Known, Deleting, IInv, TypeOK
  <1>v. \A u \in Threads \ {th} :
            /\ at'[u] = at[u] /\ no'[u] = no[u] /\ cur'[u] = cur[u] /\ todo'[u] = todo[u]
            /\ Saving(u)' = Saving(u) /\ Deleting(u)' = Deleting(u) /\ ProcId(u)' = ProcId(u)
    BY <1>f, <1>o DEF IInv, TypeOK, Saving, Deleting, ProcId
  <1>m. at'[th] = "opers" /\ no'[th] = n /\ cur'[th] = id /\ todo'[th] = OpersOf(n)'
    BY <1>f, <1>o DEF IInv, TypeOK
  <1>2. Numbers'
    <2>1. StoredTasks(n) = {}
      BY <1>l DEF StoredTasks, Known
    <2>2. /\ \A p \in procs' : p.id <= Len(saves')
          /\ \A t \in Known' : t.no <= Len(saves') /\ t.proc <= Len(saves')
          /\ \A u \in Threads : cur'[u] <= Len(saves')
      BY <1>b, <1>k, <1>l, <1>m, <1>o, <1>v
    <2>3. ASSUME NEW u \in Threads, Saving(u)', u # th
          PROVE  /\ no'[u] \in DOMAIN saves'
                 /\ \A p \in procs' : p.no # no'[u]
                 /\ \A w \in Threads \ {u} : Saving(w)' => no'[w] # no'[u]
                 /\ cur'[u] = NoId =>
                        /\ \A p \in procs' : p.id # no'[u]
                        /\ \A w \in Threads : cur'[w] # no'[u]
                        /\ at'[u] = "opers" => StoredTasks(no[u]) = {}
      <3>1. Saving(u) /\ no'[u] = no[u] /\ cur'[u] = cur[u] /\ at'[u] = at[u] /\ no[u] # n
        BY <1>l, <1>v, <2>3
      <3>2. cur[u] = NoId => id # no[u]
        BY <1>e, <1>l, <3>1 DEF IInv, Numbers
      <3> QED
        BY <1>b, <1>m, <1>o, <1>v, <3>1, <3>2 DEF IInv, Numbers
    <2>4. ASSUME NEW u \in Threads, Saving(u)', u = th
          PROVE  /\ no'[u] \in DOMAIN saves'
                 /\ \A p \in procs' : p.no # no'[u]
                 /\ \A w \in Threads \ {u} : Saving(w)' => no'[w] # no'[u]
                 /\ \A p \in procs' : p.id # no'[u]
                 /\ \A w \in Threads : cur'[w] # no'[u]
      BY <1>b, <1>l, <1>m, <1>o, <1>v, <2>4
    <2>5. \A u \in Threads : Saving(u)' /\ cur'[u] = NoId /\ at'[u] = "opers" =>
              StoredTasks(no[u])' = {}
      BY <1>m, <1>s, <1>v, <2>1, <2>3
    <2> QED
      BY <2>2, <2>3, <2>4, <2>5 DEF Numbers
  <1>3. Crossing'
    BY <1>e, <1>f, <1>m, <1>v, EnterCrossing DEF IInv
  <1>4. OneProcess'
    BY <1>k, <1>l, <1>m, <1>o, <1>v DEF IInv, OneProcess
  <1>5. InHand'
    <2>1. ASSUME NEW u \in Threads \ {th}
          PROVE  Untouched(u) /\ Spared(u)
      BY <1>f, <1>o, <1>v DEF Untouched, Spared
    <2>2. Saver(th)' /\ Deleter(th)'
      BY <1>m, <1>o DEF Saver, Deleter, Deleting
    <2> QED
      BY <1>b, <2>1, <2>2, OthersKept DEF InHand
  <1>6. StoredInv'
    <2>1. \A x : \A u \in Threads : cur[u] = x /\ Deleting(u) => cur'[u] = x /\ Deleting(u)'
      BY <1>a, <1>v DEF Deleting
    <2>2. ASSUME NEW p \in procs'
          PROVE  \/ p.id \in disturbed'
                 \/ Busy(p.id)'
                 \/ StoredTasks(p.id)' = TasksOf(p.no, p.id)' /\ (OpersOf(p.no) \subseteq opers)'
      <3>1. p \in procs /\ p.no \in DOMAIN saves
        BY <1>o DEF IInv, TypeOK
      <3>2. OpersOf(p.no)' = OpersOf(p.no) /\ TasksOf(p.no, p.id)' = TasksOf(p.no, p.id)
        BY <1>b, <3>1
      <3> QED
        BY <1>f, <1>o, <1>s, <3>1, <3>2 DEF IInv, StoredInv
    <2>3. ASSUME NEW t \in tasks'
          PROVE  \/ t.proc \in disturbed'
                 \/ \E u \in Threads : cur'[u] = t.proc /\ Deleting(u)'
                 \/ ({o \in OpersOf(t.no) : o.act = t.act} \subseteq opers)'
      <3>1. t \in tasks /\ t.no \in DOMAIN saves
        BY <1>o, RowTypes DEF IInv, TypeOK
      <3>2. OpersOf(t.no)' = OpersOf(t.no)
        BY <1>b, <3>1
      <3> QED
        BY <1>f, <1>o, <2>1, <3>1, <3>2 DEF IInv, StoredInv
    <2> QED
      BY <2>2, <2>3 DEF StoredInv
  <1>7. PromisedInv'
    BY <1>a, <1>o, <1>s, <1>v DEF IInv, PromisedInv
  <1> QED
    BY <1>1, <1>2, <1>3, <1>4, <1>5, <1>6, <1>7 DEF IInv

LEMMA AddProcessInductive ==
    ASSUME IInv, NEW th \in Threads, AddProcess(th)
    PROVE  IInv'
  BY SavedInductive DEF AddProcess

LEMMA FailInductive ==
    ASSUME IInv, NEW th \in Threads, Fail(th)
    PROVE  IInv'
  BY StopInductive DEF Fail

-----------------------------------------------------------------------------
(* The invariant.                                                           *)

LEMMA InitInvariant == Init => IInv
  <1> SUFFICES ASSUME Init PROVE IInv
    OBVIOUS
  <1>1. TypeOK
    BY DefinitionAssumption DEF Init, TypeOK, Steps, NoId, Ids
  <1>k. Known = {}
    BY DEF Init, Known, Deleting
  <1>2. Numbers /\ Crossing /\ OneProcess
    BY <1>k DEF Init, Numbers, Crossing, OneProcess, Saving, NoId
  <1>3. InHand
    BY DEF Init, InHand, Saver, Deleter, Deleting
  <1>4. StoredInv /\ PromisedInv
    BY DEF Init, StoredInv, PromisedInv
  <1> QED
    BY <1>1, <1>2, <1>3, <1>4 DEF IInv

LEMMA NextInvariant == IInv /\ [Next]_vars => IInv'
  <1> SUFFICES ASSUME IInv, [Next]_vars PROVE IInv'
    OBVIOUS
  <1>1. ASSUME NEW th \in Threads,
               \/ \E nm \in Names, c \in Configs : Save(th, nm, c)
               \/ AddOper(th) \/ ClearTasks(th) \/ AddTask(th)
               \/ AddProcess(th) \/ DropProcess(th) \/ Replace(th)
        PROVE  IInv'
    BY <1>1, SaveInductive, AddOperInductive, ClearTasksInductive, AddTaskInductive,
       AddProcessInductive, DropProcessInductive, ReplaceInductive
  <1>2. ASSUME NEW th \in Threads,
               \/ \E is \in SUBSET {p.id : p \in procs} : is # {} /\ Delete(th, is)
               \/ Get(th) \/ LoadTasks(th) \/ LoadOpers(th)
               \/ DeleteOper(th) \/ DeleteTask(th) \/ DeleteProcess(th)
               \/ Fail(th)
        PROVE  IInv'
    BY <1>2, DeleteInductive, GetInductive, LoadTasksInductive, LoadOpersInductive,
       DeleteOperInductive, DeleteTaskInductive, DeleteProcessInductive, FailInductive
  <1>3. CASE UNCHANGED vars
    <2> USE <1>3 DEF vars, tables, history
    <2>1. TypeOK'
      BY SavesKept DEF IInv, TypeOK
    <2>k. Known' = Known
      BY DEF Known, Deleting
    <2>2. Numbers' /\ Crossing' /\ OneProcess'
      BY <2>k DEF IInv, Numbers, Crossing, OneProcess, Saving, ProcId, StoredTasks
    <2>3. InHand'
      BY SavesKept DEF IInv, InHand, Saver, Deleter, Deleting, ProcId, Stored, StoredTasks, StoredOpers
    <2>4. StoredInv' /\ PromisedInv'
      BY SavesKept DEF IInv, StoredInv, PromisedInv, Busy, Deleting, Stored, StoredTasks
    <2> QED
      BY <2>1, <2>2, <2>3, <2>4 DEF IInv
  <1> QED
    BY <1>1, <1>2, <1>3 DEF Next

\* Rows, requests and what they have in their hands agree in every state
\* (saveDefinitionConfigs, deleteProcessDefinition).
THEOREM DefinitionsInductive == Spec => []IInv
  BY InitInvariant, NextInvariant, PTL DEF Spec

\* Rows belong to saves, and no two processes have the same id (addProcess).
THEOREM TypeCorrect == Spec => []TypeOK
  <1>1. IInv => TypeOK
    BY DEF IInv
  <1> QED
    BY <1>1, DefinitionsInductive, PTL

\* What no other request or failure has touched is stored as it was saved, and
\* a save that nobody crosses repairs the rest (saveDefinitionConfigs).
THEOREM StoredAsSaved == Spec => []ConfigAsSaved
  <1>1. IInv => ConfigAsSaved
    <2>1. SUFFICES ASSUME IInv, NEW p \in procs, Undisturbed(p.id)
                   PROVE  /\ StoredTasks(p.id) = TasksOf(p.no, p.id)
                          /\ \A t \in StoredTasks(p.id) :
                                 StoredOpers(t) = {o \in OpersOf(t.no) : o.act = t.act}
      BY DEF ConfigAsSaved
    <2>2. StoredTasks(p.id) = TasksOf(p.no, p.id) /\ OpersOf(p.no) \subseteq opers
      BY <2>1 DEF IInv, StoredInv, Undisturbed, Busy
    <2>3. ASSUME NEW t \in StoredTasks(p.id)
          PROVE  StoredOpers(t) = {o \in OpersOf(t.no) : o.act = t.act}
      <3>1. t.no = p.no
        BY <2>2, RowFacts
      <3>2. \A o \in opers : o \in OpersOf(o.no)
        BY <2>1, RowTypes DEF IInv, TypeOK
      <3> QED
        BY <2>2, <3>1, <3>2, RowFacts DEF StoredOpers
    <2> QED
      BY <2>2, <2>3
  <1> QED
    BY <1>1, DefinitionsInductive, PTL

\* Operators are there as long as their task is (addTaskOper before addTask).
THEOREM TasksNeverBare == Spec => []TasksHaveOpers
  <1>1. IInv => TasksHaveOpers
    <2>1. SUFFICES ASSUME IInv, NEW t \in tasks,
                          {o \in OpersOf(t.no) : o.act = t.act} \subseteq opers
                   PROVE  StoredOpers(t) = {o \in OpersOf(t.no) : o.act = t.act}
      BY DEF IInv, StoredInv, TasksHaveOpers, Deleting
    <2>2. \A o \in opers : o \in OpersOf(o.no)
      BY <2>1, RowTypes DEF IInv, TypeOK
    <2> QED
      BY <2>1, <2>2, RowFacts DEF StoredOpers
  <1> QED
    BY <1>1, DefinitionsInductive, PTL

\* No overlap of saves loses a process between its delete and its add
\* (deleteProcess, addProcess).
THEOREM ProcessesKept == Spec => []PromisedIsStored
  <1>1. IInv => PromisedIsStored
    BY DEF IInv, PromisedInv, PromisedIsStored
  <1> QED
    BY <1>1, DefinitionsInductive, PTL

\* Only an update and a delete take tasks away, both of the process they work on.
LEMMA TasksTaken ==
    ASSUME IInv, Next, NEW t \in tasks \ tasks'
    PROVE  \E u \in Threads :
               /\ cur[u] = t.proc
               /\ \/ at[u] = "opers"
                  \/ at[u] = "task" /\ rest[u] = {} /\ task[u] = {t} /\ opers' = opers
  <1>1. PICK u \in Threads : ClearTasks(u) \/ DeleteTask(u)
    BY DEF Next, Save, AddOper, AddTask, AddProcess, DropProcess, Replace, Delete, Get,
           LoadTasks, LoadOpers, DeleteOper, DeleteProcess, Fail, Saved, Abort, Stop, tables
  <1>2. CASE ClearTasks(u)
    BY <1>2 DEF ClearTasks, StoredTasks
  <1>3. CASE DeleteTask(u)
    <2>1. /\ at[u] = "task" /\ rest[u] = {}
          /\ tasks' = tasks \ task[u] /\ opers' = opers
      BY <1>3 DEF DeleteTask, Abort, Stop, tables
    <2> QED
      BY <2>1, TaskInHand
  <1> QED
    BY <1>1, <1>2, <1>3

\* Only an update and a delete take a process away, the one they work on.
LEMMA ProcessTaken ==
    ASSUME IInv, Next, NEW p \in procs \ procs'
    PROVE  \E u \in Threads :
               /\ cur[u] = p.id /\ cur[u] # NoId
               /\ at[u] = "tasks" \/ (at[u] = "delete" /\ todo[u] = {})
               /\ tasks' = tasks
  <1>1. PICK u \in Threads : DropProcess(u) \/ DeleteProcess(u)
    BY DEF Next, Save, AddOper, AddTask, ClearTasks, AddProcess, Replace, Delete, Get,
           LoadTasks, LoadOpers, DeleteOper, DeleteTask, Fail, Saved, Abort, Stop, tables
  <1>2. CASE DropProcess(u)
    BY <1>2 DEF DropProcess, Abort, Stop, tables
  <1>3. CASE DeleteProcess(u)
    BY <1>3 DEF DeleteProcess, Abort, Stop, tables, IInv, InHand, Deleter, Deleting
  <1> QED
    BY <1>1, <1>2, <1>3

\* A delete that nobody crosses leaves no rows behind (deleteProcessDefinition).
THEOREM DeletesComplete == Spec => DeleteLeavesNothing
  <1> DEFINE Complete(th) ==
          /\ at[th] = "task" => \A t \in tasks \ tasks' :
                 t \in task[th] => {o \in opers' : o.no = t.no /\ o.act = t.act} = {}
          /\ at[th] = "delete" /\ procs' # procs /\ ~(\E p \in procs' : p.id = cur[th]) =>
                 {t \in tasks' : t.proc = cur[th]} = {}
  <1>1. ASSUME IInv, Next, NEW th \in Threads, ~crossed[th]
        PROVE  Complete(th)
    <2>1. ASSUME NEW u \in Threads, cur[u] = cur[th], cur[th] # NoId
          PROVE  u = th
      BY <1>1, <2>1 DEF IInv, Crossing
    <2>2. ASSUME at[th] = "task", NEW t \in tasks \ tasks', t \in task[th]
          PROVE  {o \in opers' : o.no = t.no /\ o.act = t.act} = {}
      <3>1. /\ task[th] = {t} /\ t.proc = cur[th] /\ cur[th] # NoId
            /\ StoredOpers(t) \subseteq rest[th]
        BY <1>1, <2>2, TaskInHand
      <3>2. PICK u \in Threads :
              /\ cur[u] = t.proc
              /\ \/ at[u] = "opers"
                 \/ at[u] = "task" /\ rest[u] = {} /\ task[u] = {t} /\ opers' = opers
        BY <1>1, <2>2, TasksTaken
      <3>3. u = th
        BY <2>1, <3>1, <3>2
      <3> QED
        BY <2>2, <3>1, <3>2, <3>3 DEF StoredOpers
    <2>3. ASSUME at[th] = "delete", procs' # procs, ~(\E p \in procs' : p.id = cur[th])
          PROVE  {t \in tasks' : t.proc = cur[th]} = {}
      <3>1. cur[th] # NoId /\ Stored(cur[th]) /\ StoredTasks(cur[th]) \subseteq todo[th]
        BY <1>1, <2>3 DEF IInv, InHand, Deleter, Deleting
      <3>2. PICK p \in procs \ procs' : p.id = cur[th]
        BY <2>3, <3>1 DEF Stored
      <3>3. PICK u \in Threads :
              /\ cur[u] = p.id
              /\ at[u] = "tasks" \/ (at[u] = "delete" /\ todo[u] = {})
              /\ tasks' = tasks
        BY <1>1, ProcessTaken
      <3>4. u = th
        BY <2>1, <3>1, <3>2, <3>3
      <3> QED
        BY <2>3, <3>1, <3>3, <3>4 DEF StoredTasks
    <2> QED
      BY <2>2, <2>3
  <1>2. IInv /\ [Next]_vars => [\A th \in Threads : ~crossed[th] => Complete(th)]_vars
    BY <1>1
  <1> QED
    BY <1>2, DefinitionsInductive, PTL DEF Spec, DeleteLeavesNothing
=============================================================================
