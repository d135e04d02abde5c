# Verification of sldt_ssm

sldt_ssm is the single sign-on and permission server of a data-management
platform: a patched CAS 4 server with its ticket registry, the patched CAS client
through which the applications (and the server itself) take part in single
sign-out with Apache Shiro sessions, an Activiti-based workflow service, an audit
trail, a large amount of user, role and menu administration, and the pages of a
browser console, among them those on which questions about data quality are
dealt with. There are no
automated tests. This directory holds TLA+ models of the parts in which several
actors meet, the TLC configurations that check them, and proofs about them that
the TLA+ proof system (TLAPS) checks.

`PROJECT.json` lists the parts, the runs, the definitions with the source lines
they translate, a mutant for every property (a plausible slip in the code that
the property notices), the disagreements between code and comments, the hazards
of the code, and the theorems.

1. [The system's parts](#1-the-systems-parts)
2. [Modules](#2-modules)
3. [How the models correspond to the code](#3-how-the-models-correspond-to-the-code)
4. [Runs](#4-runs)
5. [Fairness](#5-fairness)
6. [Proofs](#6-proofs)
7. [Where code and comments disagree](#7-where-code-and-comments-disagree)
8. [What is not modelled](#8-what-is-not-modelled)
9. [Plan](#9-plan)

## 1. The system's parts

Paths are relative to `src/`.

### A. Client single sign-out

`patch_shiro_cas_logout/org/jasig/cas/client/session/**`,
`patch_shiro_cas_logout_ssm/org/jasig/cas/client/session/SingleSignOutHandler.java`.

- *State*: two process-wide storages, one of Shiro sessions, one of container
  HttpSessions; each is a pair of hash maps (mapping id to session, session id to
  mapping id). The sessions themselves live in Shiro's session manager and in the
  container.
- *Operations*: `recordSession` on a request that carries a service ticket or an
  hzbank token; `destroySession` on a logout message posted by the CAS server;
  `LogoutServlet.doLogout`; the listener's `onStop` and `onExpiration`.
- *Interaction*: request threads share the storages. Every method of a storage is
  synchronized, but a request makes several such calls. The session manager ends
  sessions on its own and calls the listener.
- *Hard*: what comes between two calls of one request; sessions that end while a
  request works on them; tokens shared by sessions; an exception between the two
  handlers of one message.
- *Correct if*: the two maps agree; a recorded session can be found; a logout
  reaches the sessions of its token and no others; nothing of a dead session stays.

### B. Central logout and the ticket registry

`patch_shiro_cas_logout/org/jasig/cas/logout/LogoutManagerBaseF5Impl.java`,
`patch_cas_jboss_cache/org/jasig/cas/ticket/registry/JBossCacheTicketRegistry.java`,
`patch_shiro_cas_logout_ssm/org/jasig/cas/client/session/ClientBackChannelLogoutMgr.java`.

- *State*: the cache of ticket granting tickets (TGTs); in each TGT a map of the
  services it let somebody into and the expired flag; a flag per service that it
  was logged out.
- *Operations*: `addTicket`, `updateTicket`, `deleteTicket`, `getTicket` of the
  registry; `performLogout`; `doCasClientLogout`. The CAS library frames them.
- *Interaction*: B posts the logout messages that A receives. When A runs in the
  server itself, its `destroySession` calls `doCasClientLogout`.
- *Hard*: concurrent logouts of one TGT, logins and grants racing a logout; cache
  writes that conflict and are given up after three tries, or throw and end the
  request in the middle of a logout; proxies of tickets, which are not the object
  that is meant to be locked.
- *Correct if*: every service is told once and none is forgotten; a logout is
  final; a TGT handed out is stored.

### C. Login

`patch_cas/org/jasig/cas/web/flow/AuthenticationViaFormAction.java`,
`pac4j-cgbsso-src/**`, `pac4j_hzbank_sso/**`, `patch_cas/org/apache/shiro/cas/**`.

`WebRoot/WEB-INF/login-webflow.xml`.

- *State*: TGTs (in B), the web flow's scopes, session attributes that survive
  the redirect to an identity provider, the cookie of the browser, and one field,
  `hasWarningMessages`, of a singleton that all logins share.
- *Operations*: `AuthenticationViaFormAction.submit`, `ClientAction.doExecute`, and
  the actions of the CAS library that the flow calls before and after them.
- *Interaction*: logins create TGTs in B's registry and destroy the ones they
  replace; the tabs of a browser share its cookie and its session.
- *Hard*: the shared field; two logins of one browser using the same attributes;
  an HTTP session that ends between redirect and return; a TGT that was created and
  is not in the registry, or is there and not answered for.
- *Correct if*: a login's outcome depends on that login only, and it returns to
  the service it was begun for.

### D. Workflow

`activiti/com/sldt/activiti/process/**`.

- *State*: the Activiti engine's tables, and beside them `WF_RU_TASK` (a row per
  task to do), `WF_RU_TASK_OPER` (a row per task done), `WF_RU_PROCINST` (the state
  of an instance); the cache of process definitions; configuration of processes.
- *Operations*: `startProcessInstanceById`, `complete`; pages that complete,
  delete or delegate by calling the engine; `saveDefinitionConfigs`,
  `deleteProcessDefinition` and `deleteWfProcessCfg` on the configuration;
  `turnTransition`, which edits a cached definition for the duration of one
  completion and which nothing in the repository calls.
- *Interaction*: `start` and `complete` look up the one configured task of an
  activity (`getWfReTaskBy`) in the tables that the configuration pages rewrite.
- *Hard*: two records of one truth; transactions that overlap and do not see
  each other; operations made of several transactions; a shared definition
  changed in place.
- *Correct if*: every open task can be found, what is recorded is what was done,
  an instance is marked ended when it has ended, and a configuration is stored
  as it was saved.

### E. Question pages

`WebRoot/page/sm/quesmgr/announce/**`, `WebRoot/page/sm/quesmgr/deal/**`, with the
jqGrid of `WebRoot/public/jqgrid`.

- *State*: the rows, the selection and the highlighting of one or two grids, the
  dialog in front of them, the requests under way.
- *Operations*: selecting rows; staging questions in the grid on the right and
  taking them out; reloading; publishing, deleting, closing, judging.
- *Interaction*: reloads and requests are asynchronous, and the user clicks on.
- *Hard*: the selection is an array of row ids that outlives the rows; ids are
  given again; what is highlighted and what is selected are kept apart.
- *Correct if*: a request names what the user sees selected, no more and no less.

### F. Audit trail, G. Online statistics, H. Administration

`src/com/sldt/dmc/ssm/audit/**` writes audit records through an executor and
archives old ones in one transaction (mark, copy, delete);
`src/com/sldt/dmc/ssm/online/**` counts unexpired TGTs; `src/com/sldt/dmc/sm/**`,
`src/com/sldt/dmc/ssm/**`, `src/com/sldt/sdp/**` and `WebRoot/**` are database
forms, REST facades and pages.

## 2. Modules

| Module | What it is |
| --- | --- |
| `SessionMapping` | the storage of A as a value, an operator per synchronized method |
| `TokenRegistry` | abstract: tokens lead to sessions that carried them, and an idle session keeps the tokens that are its own |
| `SingleSignOut` | component A: two `SessionMapping` storages, threads, sessions |
| `MCSingleSignOut` | its instances |
| `SingleSignOutProofs` | theorems about it: types, the agreement of the maps, what logouts leave |
| `TokenRegistryProofs` | theorems about it: the refinement of `TokenRegistry` and what rests on it |
| `ServiceNotices` | abstract: each service is owed a message until it has one or a logout breaks off |
| `CentralLogout` | component B |
| `MCCentralLogout` | its instances |
| `CentralLogoutProofs` | theorems about it, the refinement of `ServiceNotices` among them |
| `ProcessLog` | abstract: each task recorded once, in order, closed by the last |
| `WorkflowMirror` | component D, `start`, `complete` and the pages around them |
| `MCWorkflowMirror` | its instances |
| `WorkflowMirrorProofs` | theorems about it |
| `ProcessDefinitions` | component D, the configuration of workflows |
| `MCProcessDefinitions` | its instance |
| `ProcessDefinitionsProofs` | theorems about it |
| `LoginFlow` | component C: tabs, browsers and the flow's states |
| `MCLoginFlow` | its instances |
| `LoginFlowProofs` | theorems about it |
| `DataGrid` | the grid of E as a value, an operator per method or event |
| `QuestionBoards` | component E: three pages over `DataGrid` |
| `MCQuestionBoards` | its instance |
| `DataGridProofs` | lemmas on sets of numbers, loops and what each operator does to a grid |
| `QuestionBoardsProofs` | theorems about the pages |

`SingleSignOut` implements `TokenRegistry`, `CentralLogout` implements
`ServiceNotices`, `WorkflowMirror` implements `ProcessLog`; each is stated with
`INSTANCE ... WITH` and a refinement mapping.

Operators named "Mutant" in the comments are slips that the code does not
contain. No specification uses them; they are there to be put in the place of
the definition that follows them, to see that a property notices.

## 3. How the models correspond to the code

### SingleSignOut

A thread has a program counter that names the next call it makes (`pc`) and a
record of what its request works on (`req`). One action is one synchronized call
of a storage, or one call to the session manager or container, so other threads
come in wherever the code lets them.

| Code | Actions |
| --- | --- |
| `ShiroSingleSignOutFilter.onPreHandle`, `isTokenRequest` | `TokenRequest` |
| `ShiroSingleSignOutHandler.recordSession` | `TokenRequest` (choice of the token), `ShiroRemove`, `ShiroAdd` |
| `SingleSignOutHandler.recordSession` | `HttpRemove`, `HttpAdd` |
| `ShiroSingleSignOutHandler.destroySession` | `ShiroLookup`, `ShiroStop`, `ShiroStopFails` |
| `ShiroSingleSignOutHttpSessionListener` | `ShiroNotify` (`onStop`), `ShiroExpire` (`onExpiration` does nothing) |
| `SingleSignOutHandler.destroySession` | `HttpLookup`, `HttpInvalidate` |
| `LogoutServlet.doLogout` | `ServletLogout`, then `ShiroStop` and `ShiroNotify` |

Java's null is `NoKey`, and a session can be stored under it, as in the code.
The inverted test at `ShiroSingleSignOutHandler.java:125` is `KeyOf`: what becomes
a key is the hzbank token, which the sessions of one user share, and never a service
ticket; so any session may come with any token, and two sessions with the same one.
Requests of one session overlap like any others. `needDoHttpSession` is the filter's
setting (1 in `core-context-shiro.xml`), any value of which is a possible start.
Session ids are never reused: an id is `fresh`, `live` or `dead`. `latest`,
`loggedOut`, `carried` (which session came with which token as its key) and `crossed`
(two requests of a session stood between removal and addition at once) are history
variables that no guard reads. `HttpRefused` is the
request that finds no session id left, which the bound of an instance makes
possible; it ends without a change.

`TokenRegistry` says what is left of the idea that a token leads to its session when
tokens are shared: a token is bound by a session whose requests carried it, which may
take it from another one, and freed only while a request works on a session that
carried it. So a session that nobody works on keeps the tokens that are its own.

### CentralLogout

`stored`, `expired` and `services` are the TGTs in the cache and what is in them.
The cache hands out the same objects until they are written again, so a change
through any proxy is seen by all, and `updateTicket` puts the object back
whether or not it is still in the cache.

| Code | Actions |
| --- | --- |
| `createTicketGrantingTicket`, `addTicket` | `Login`, `AddTicket` |
| `grantServiceTicket`, `updateTicket` | `Grant`, `GrantPut`, `GrantUpdate` |
| `destroyTicketGrantingTicket`, `doCasClientLogout` | `Logout`, `ClientLogout`, `NextTicket` |
| `performLogout` | `RetrieveServices`, `ClearServices` (the synchronized block), `MarkTicketExpired`, `MarkUpdate`, `NextService`, `ServicesDone` |
| `performBackChannelLogout` | `SendMessage` |
| `deleteTicket` | `DeleteTicket` |
| the retry loop with `cmeRetryCnt`, `_updateTicket` | `PutTicket`, `Through`, `Conflict` |

The registry is the one `ticketRegistry.xml` deploys (the other is in a comment): every
`getTicket` makes a new proxy, so `synchronized (ticket)` excludes nobody, and every
change of the TGT is followed by `updateTicket`. Any write may go through, meet a
conflict (a `ConcurrentModificationException`, which is tried again and then given
up), or fail with a `CacheException`, which `_addTicket` and `_updateTicket` turn into a
`RuntimeException` that ends the request, wherever it is. In a logout the write comes
after the services were read and cleared (`MarkUpdate`): `lost` names the services
that such a request had in hand. A removal that fails answers false, a read that fails
answers null, and both go on (`DeleteTicket`, `NextTicket`, `ClientLogout`). What a
failed write has left in this node's cache is either of the two values. The library's part (the grant and its re-check of the
TGT, the frame around `performLogout`) is modelled from how it is used and marked
external where no line of the repository shows it.

`ServiceNotices` knows nothing of threads, maps and caches: a service is unknown,
asked for, owed a message (or late, if the logout had begun), told, dropped or lost, and
a TGT open, closing or over. The mapping (`Stage`, `Due`) finds a service wherever it is,
in its TGT or in the hands of any number of threads. Late services may be missed, all
at once, and a service may be told again; one that is owed a message is lost only
by a logout that breaks off (`Break`), and nobody asks to be let in once a logout is
over.

### WorkflowMirror

One process instance. The net is a constant `Pre` (the tasks a task waits for),
acyclic by assumption `ProcessConstants`; exclusive choices are left out, for they
only make fewer tasks open. `rows` and `opers` count rows, which differ in
nothing but their ids.

`complete` is one transaction over engine and tables (one transaction manager for
both), read committed. `ReadRow`, `EngineComplete` and `ListTasks` are its reads and
the engine's call; what it writes becomes visible in `Commit`. A task completed by
an uncommitted transaction is locked, and so is an execution that two
completions would move (`Entangled`): the second fails with the engine's
optimistic lock, which is `Rollback`. `ListTasks` sees the committed tasks and its
own, not those of transactions under way. `ToTask` and `DeleteProcessInstance` are
the pages that call the engine and leave the tables alone; `Bypass` says whether
they are in use.

### ProcessDefinitions

Every call of `processBaseService` is a transaction (the advice `txAdviceHibernate` of
`core-context-base.xml` covers every method of the services; the list of prefixes over
it is commented out), and every action is one such call or one query. A save is known
by its number, which stands for the UUIDs it generates: a task is a save and an
activity, and a process keeps the number of the save that created it.

| Code | Actions |
| --- | --- |
| `saveDefinitionConfigs`: `checkExists`, adding operators | `Save`, `AddOper` |
| the deletion of the old tasks by SQL, adding tasks | `ClearTasks`, `AddTask` |
| adding a new process, or deleting and adding it | `AddProcess`, `DropProcess`, `Replace` |
| `deleteProcessDefinition`, `deleteWfProcessCfg` | `Delete`, `Get`, `LoadTasks`, `LoadOpers`, `DeleteOper`, `DeleteTask`, `DeleteProcess` |
| an exception of any call, or a stop of the server | `Fail` |

Hibernate deletes an entity by its id and fails if the row is gone, and adding a
row fails if its id is there; the actions then end in `Abort`. The sets of tasks
and operators are hash sets, so they are added in any order. The operators of all
tasks end up in one set that every task shares, which does no harm: the sets are
mapped `inverse` and the operators carry their task's id. `deleteTaskOpers` is a
delete for a fresh id on a table name that does not exist, its exception is caught:
no action. A delete request names processes that are in the table when
it arrives; that a page may be older than that adds nothing, since another delete
may take them before they are read.

### LoginFlow

A flow is a tab. `state` says which action of `login-webflow.xml` comes next, and
an action of the specification is one action of the flow, or what the user does
at a view. A request's scope ends with the view it reaches (`View`); `TicketOf` is
how the library looks up the TGT, in the request before the flow.

| Code | Actions |
| --- | --- |
| `ClientAction.doExecute` without a client name, `prepareForLoginPage` | `Open` |
| `ticketGrantingTicketCheck` to `renewRequestCheck` | `Check` |
| `AuthenticationViaFormAction.submit` | `Submit` (with `Renew`), `Authenticate`, `ReadWarnings`, `Answer` |
| `ClientAction.doExecute` with a client name | `Return` |
| `sendTicketGrantingTicketAction`, `showMessages`, `generateServiceTicketAction` | `SendTicket`, `Proceed`, `Grant` |
| the user, the browser, the container, the clock | `Leave`, `Close`, `Logout`, `SessionEnds`, `Expire` |

`submit` is split where it reads or writes what other requests share: the registry
and `hasWarningMessages`. `createTicketGrantingTicket` may leave the TGT out of the
registry, as the registry of component B does when its writes conflict, and may throw
with the TGT stored or not. `getTicket` may answer null for a TGT that is stored, and
any call of `submit` after the TGT was created may throw, which leads back to the
form: `missed` names the TGTs that a request took for gone or lost hold of while they
were alive. A login ticket that is not the form's own leads back to the form and
changes nothing, and the error pages end the flow.

`SessionEnds` is the HTTP session of a browser timing out or being invalidated
(`LogoutServlet` and the handlers of component A do the latter): the service saved over
a redirect goes, and so do the flows that wait at a view, which Spring Web Flow
keeps there. `forgotten` says that this has happened since a tab was opened, and
`overtaken` that another tab has saved a service since.

### QuestionBoards

`DataGrid` has the four things a page can tell apart about a grid (`rows`, `sel`, `lit`,
`loading`) and an operator for each method of jqGrid the pages call and each event
they cause. `QuestionBoards` has an action for each button and each answer. Questions
are names with a kind, which folds the columns that the pages look at. The server
is not in the repository: a reload is answered with any of a set of pages. A
question's state does not change under the grid, only with a reload.

| Code | Actions |
| --- | --- |
| `opera('add')`, `opera('addPage')`, `sendRight`, `sendCurPage` | `Stage` |
| `opera('addAll')`, `sendAll` | `AddAll`, `SendAll` with `RightAnswered` |
| `opera('remove')`, `opera('removeAll')`, `del`, `delAll` | `RemoveStaged`, `Del` |
| the tool bars' publish, delete, void and close | `Publish`, `Delete`, `Nullity`, `AskToClose`, `Confirm`, `Cancel` |
| the review pages | `Approve`, `Reject` |
| `doSearch`, the pager, answers | `Search`, `LeftAnswered`, `AnswerLost`, `Answered` |
| jqGrid's clicks | `Click` |

On the announce page a new row's id is the last id with a "1" behind it, on the deal page
one more than the largest; the model takes the latter, which keeps what matters:
a new id is larger than all in the grid. The loops of the pages are functions of the
number of rounds (`StageThose`, `StageUpToIncomplete`, and `Only`, which is how
`splice` takes elements out of an array). That a page of the server shows no question
twice is an assumption (`PagesAssumption`): its rows come from a table with the
question's id as key. `doubt` is a history variable: what has
come between the selection and the screen.

## 4. Runs

All are complete explorations without a depth limit. One has a state constraint
(`HttpBound`, see below). What is interchangeable is declared symmetric wherever no
temporal property is checked with fairness; `Seen` is a view that leaves out what no
later step or property reads.

| Run | Instance | Checks | Shows |
| --- | --- | --- | --- |
| `sso_shared` | 2 browsers with a session each, 2 threads, 2 tokens that any session may carry, overlapping requests, with HTTP sessions or without | `TypeOK`, `MapsAgree`, `Reachable`, `NoForeignLogout`, `NoShiroSessionLeft`, `ImplementsRegistry` | the maps agree on every session that was not recorded twice at once; a session is found under a key of its own, even then; logouts stay with the sessions that carried their token and leave none that is found under it |
| `central_overlap` | 2 threads, 2 TGTs of one client token, 2 services (one with front channel logout), 2 tries | `TypeOK`, `NothingForgotten`, `LogoutIsFinal`, `ImplementsNotices` | what overlapping logouts and failing writes may lose, and what they never lose |
| `central_told` | 2 threads, 1 TGT, 2 services (one is /ssm), 2 tries, fairness | `ServicesGetTold` | nobody waits for ever, unless a request broke off with the service in hand |
| `workflow_complete` | 3 threads; a, then b and c in parallel, d joins them, e follows b | `OpenTaskHasRow`, `RecordedOnce`, `MirrorInv`, `ImplementsLog` | the tables mirror the engine |
| `workflow_bypassed` | 2 threads, the same net, with the pages around the service | `TypeOK`, `RecordedAtMostOnce`, `EndedIsOver` | what is left of it |
| `definition_overlap` | 2 requests at a time, 3 saves under one name, 2 configurations | `TypeOK`, `ConfigAsSaved`, `TasksHaveOpers`, `PromisedIsStored`, `DeleteLeavesNothing` | what is stored is what was saved, but for what a failure or an overlap has touched, and a save by itself repairs that |
| `login_shared` | 2 tabs in one or two browsers, 2 users (one with warnings), 2 services, 2 TGTs | `TypeOK`, `GrantsOnOwnLogin`, `NoTGTLeftBehind`, `WarnedUserSeesMessages`, `ReturnsToItsService` | a login's outcome is its own, as far as the code sees to it, though reads fail, calls throw and HTTP sessions end |
| `board_staging` | 2 questions, 3 left and 2 right answers, 3 row ids, 2 selected rows, 1 request under way | `TypeOK`, `RowsDistinct`, `NamesOnlyTheShown`, `MissesNothingShown` | requests name what is highlighted, outside the situations the properties name |

Four more runs each violate one property; see section 7.

Why the bounds are enough. Two threads give every interleaving of a pair of
requests, which is what each hazard needs; three are used where a third could
use what two left behind (a third completion). Two
sessions and two tokens allow a token to change hands and a session to
be re-recorded under another one. With HTTP sessions, which the second handler stores by
the same code, `HttpBound` keeps one Shiro session in use, so that its requests still
overlap with each other and with logouts; without them both sessions are. A second TGT
is needed for the loop of `doCasClientLogout`. Three
tries are the code's own `cmeRetryCnt`; two suffice where only the first conflict and
the last one matter. The proofs of section 6 have no such bounds.
The configurations have a task with a role and one without any; saves are told apart
by number, so that two configurations and one name are enough for old and new rows to
meet, and two processes of one name occur when two first saves overlap. Three
saves are an update after an overlap. Two tabs suffice because tabs only meet in
pairs, in a browser's cookie and session or in the shared field; the third use
of a TGT id would be one more login of the kind already seen. In the grids two rows
are the least for which order, position and repetition differ; three ids let a row be
added after a removal.
The net has a fork, a join, and two ends, so overlapping completions may share a
join, share nothing, or both end the instance. Message counts, session ids and
service tickets are bounded because ids are not reused.

## 5. Fairness

`CentralLogout!FairSpec` is the only specification with fairness: weak fairness
of `Step(th)` for every thread, that is, a request that has begun is carried on by its
container thread. No fairness is assumed for requests to begin, for writes to go
through (they may conflict or fail every time), or for one thread relative to another. The
monitor of `performLogout` is a proxy of the thread's own, so no thread waits for
another. The other components have no
liveness property worth the name: a client can only wait for a message.

## 6. Proofs

For every value of the constants that satisfies the modules' assumptions:

| Theorem | States |
| --- | --- |
| `SingleSignOutProofs!TypeCorrect` | `Spec => []TypeOK`: no call with a null session or token where the code has no check |
| `SingleSignOutProofs!RecordInductive`, `MapsAlwaysAgree` | the invariant `RecordInv`; `[]MapsAgree`: both storages, every session not recorded twice at once |
| `SingleSignOutProofs!NoSessionLeft` | `[]NoShiroSessionLeft`, tokens shared or not, requests overlapping or not |
| `TokenRegistryProofs!OwnKeysInductive`, `LogoutsStayWithTheirSessions` | the invariant `OwnKeysOnly`; `[]NoForeignLogout` |
| `TokenRegistryProofs!StorageIsRegistry` | `Spec => ImplementsRegistry` |
| `TokenRegistryProofs!RecordedStayReachable` | `[]Reachable` |
| `CentralLogoutProofs!TypeCorrect` | `Spec => []TypeOK`: retries bounded, every step has the ticket it needs |
| `CentralLogoutProofs!LogoutsAreFinal` | `Spec => LogoutIsFinal` |
| `CentralLogoutProofs!NoServiceForgotten` | `Spec => []NothingForgotten` |
| `CentralLogoutProofs!LogoutsGiveNotice` | `Spec => ImplementsNotices` |
| `WorkflowMirrorProofs!MirrorInductive` | without the bypassing pages, the invariant `IInv` |
| `WorkflowMirrorProofs!OpenTasksHaveRows`, `OperationsRecordedOnce` | without them, `[]OpenTaskHasRow`, `[]RecordedOnce` |
| `WorkflowMirrorProofs!MirrorHolds`, `ServiceImplementsLog` | without them, `[]MirrorInv`, `Spec => ImplementsLog` |
| `WorkflowMirrorProofs!BypassedInductive`, `TypeCorrect` | with or without them, the invariant `AnyInv`, `[]TypeOK` |
| `WorkflowMirrorProofs!RecordsAreTrue`, `EndedMeansEnded` | with or without them, `[]RecordedAtMostOnce`, `[]EndedIsOver` |
| `ProcessDefinitionsProofs!DefinitionsInductive`, `TypeCorrect` | the invariant `IInv`; `[]TypeOK`: rows belong to saves, ids are unique |
| `ProcessDefinitionsProofs!StoredAsSaved`, `TasksNeverBare` | `[]ConfigAsSaved`, `[]TasksHaveOpers` |
| `ProcessDefinitionsProofs!ProcessesKept`, `DeletesComplete` | `[]PromisedIsStored`, `Spec => DeleteLeavesNothing` |
| `LoginFlowProofs!FlowsInductive`, `TypeCorrect` | the invariant `IInv`; `[]TypeOK`: who is logged in has a TGT |
| `LoginFlowProofs!GrantsAreOwn`, `NoSessionLeftBehind` | `[]GrantsOnOwnLogin`, `[]NoTGTLeftBehind` |
| `LoginFlowProofs!WarningsAreShown`, `ReturnsHome` | `Spec => WarnedUserSeesMessages`, `Spec => ReturnsToItsService` |
| `QuestionBoardsProofs!BoardsInductive`, `TypeCorrect` | the invariant `BoardInv`; `[]TypeOK`: what is staged is a question |
| `QuestionBoardsProofs!StagedRowsDistinct` | `[]RowsDistinct` |
| `QuestionBoardsProofs!RequestsNameTheShown`, `RequestsMissNothing` | `Spec => NamesOnlyTheShown`, `Spec => MissesNothingShown` |

The assumptions are small: an acyclic net and disjoint sets of names
(`ProcessConstants`), a bound on saves that is a number (`DefinitionAssumption`),
at least one user and values for "none" that are none of the others
(`FlowAssumption`), pages that show no question twice and fit in the bound on ids
(`PagesAssumption`, `MaxIdAssumption`). Where a theorem needs more, the table says so.

**SingleSignOut.** `MapsAgree` is not inductive: between `removeBySessionById` and
`addSessionById` another thread may map the session, and the addition then leaves
the other thread's entry behind. Only another request of the same session can do that,
and when it stands there too the session is `crossed`. `RecordInv` adds that the
session of a thread about to add is not mapped and is added by no other thread, unless
it is crossed. Every call but `addSessionById` only takes entries away (`Shrinks`), which
keeps the agreement of the maps (lemma `ShrinkKeeps`).

A session is only ever mapped to, or found under, a token that its requests carried
(`OwnKeysOnly`), with tokens shared and requests overlapping; so a logout stays with the
sessions of its token. This is also what the refinement of `TokenRegistry` rests on: the
entry that `removeBySessionById` takes out of the first map, whoever it leads to, was
under a token its session had carried, and a request was at work on that session
(lemmas `RemoveFrees`, `RemovalRefines`). `Reachable` says nothing of sessions that a
request is at work on; `ReachInv` does: a live session is under its latest key, or a
request is about to add it or to stop it, if the key is its own. Two overlapping
requests of one session do not break this, for whichever adds last is the latest.

`NoShiroSessionLeft`: a session that is found under a
token after its logout is dead or a request stands before `stop()` of it (`Doomed`), a
session that stopped never comes back, and only recording the token again
makes it a token that was not logged out.

**CentralLogout.** `LogoutIsFinal` is about `LetIn`, the services that a TGT has let in
and those of requests past the check of `grantServiceTicket`: the latter get their service
ticket whatever happens, and the theorem says that their set stops growing. It needs
`MarkedInv`: a TGT is marked before its
services are told and before it is deleted, and nothing resets the mark; whether
the TGT is stored does not matter. `NothingForgotten` needs `TakenInv`: between
reading and clearing the map a thread holds every service in it but late ones; and a
request that breaks off after the clearing puts what it holds into `lost`.

`LogoutsGiveNotice` needs two invariants more. `AskedInv`: a service ticket that is
asked for is new, and nobody holds one that has not been granted. `LostInv`: what
a thread holds from the clearing on is in no map, so a service that is lost does not
come back but by another thread that read it, too. A step then
changes what one service is due, or the stage of one TGT, or neither (lemmas
`OneServiceMoves`, `OneTgtMoves`, `NothingHappens`), but for two: the clearing of a map,
which may drop several late services (`ClearNotices`), and a logout that breaks
off, which loses those that no other thread holds and may leave the TGT open again
(`BreakNotices`).

**WorkflowMirror.** `OpenTaskHasRow` alone is not inductive: a transaction that has
listed the open tasks and commits later must not miss one. `Transactions` says that
transactions under way work on different open tasks that share no join; hence (lemma
`NoSharedJoin`) a task opened by several completions is opened by the last of them
alone, and that one has it in its list. `EngineState` ties the open tasks to
the done ones. The assumption that the net has no cycle is used in one place: a
net with nothing open is done. With the pages around the service open tasks may lack
rows, so another invariant, `AnyInv`, carries the rest: whoever completes a task
locks it, so two completions never record it twice, and only the
transaction that leaves nothing open marks the instance.

**ProcessDefinitions.** What is stored says nothing about a save halfway through,
so `IInv` follows the requests. `Numbers`: the number of a save is in no row but its
own, and a new process is unknown to everybody until it is stored. `Crossing`: two
requests that work on one process both know it, which is what makes the exceptions of
the properties wide enough. `OneProcess`: the tasks of one save belong to one
process, so clearing a process's tasks takes none of another's. `Saver` says which
of a save's rows are in the tables and which are in its hands, `Deleter` what
a delete has still to remove. The order of the calls (operators, then tasks, then the
process) is used in `TasksNeverBare` and `StoredAsSaved`: a task is added when all
operators are there, the process when all tasks are.

**LoginFlow.** `OwnInv` says in which scope the TGT of a flow's own login is: the
request scope is filled by a federated login only, it is looked up first, and it ends
with the next view, which such a login does not reach before it asks for a
service ticket. `SessionInv` follows the living TGT of a lone tab
through the cookie and the flow scope: a TGT other than the cookie's is in the
flow scope when a new one is created, and `SendTicket` destroys what it finds
there, or the request has missed it (`MissedStay`). Other tabs of other browsers add
nothing to a browser's sessions (lemma `SessionsElsewhere`), and an HTTP session
that ends takes flows at a view with it and no TGT (`SessionEndKeepsAlone`). `SavedInv`
says what the session holds for a tab: its own service, or none once it has
ended, until another tab overtakes it. `WarningInv` is the point about the shared field: it is never
reset, so it can say too much (section 7) but never too little.

**QuestionBoards.** `RowsDistinct` is not inductive, nor are the two properties of
requests facts about states. `BoardInv` has what they rest on: rows of either grid
differ in id and in question; no id is selected twice, without which a second
click would leave a row selected and not highlighted; only rows that are there are
highlighted; and selection and highlighting agree as far as `doubt` says (`Agrees`).
A grid that is loading has nothing selected unless somebody clicked meanwhile, which
is what makes the answer harmless. What one method of the grid does to all this
is a lemma of `DataGridProofs`; the actions are put together from these.

Staging and removing are loops, and what a loop computes is proved by induction on
its rounds. The library's induction theorems cannot be instantiated by the provers used
here, so `DataGridProofs` proves one for sets from the library's facts on finite sets:
a set of numbers with 0 and each successor is all of them, for otherwise the
numbers up to one it lacks could be sent one to one into fewer (`NatSetInduction`,
`UpToInduction`). From it follow that loops run (`LoopRuns`), what `Only` keeps of
a sequence (`OnlyFacts`, `OnlyKeeps`), that a new id is new (`LargestExists`,
`NextIdFacts`), and that staging leaves rows apart after every round (`StageThoseFacts`,
`StageUpFacts`). The deal page compares with the rows that were there at first and not
with those it has just added; so its loop needs that no question occurs twice in
what is staged, which is where the selection without repetitions (`SelectedFacts`) and
the pages without repetitions come in.

Model-checked only: liveness (`ServicesGetTold`), for there are no rules for fairness
and ENABLED among the provers used here; and the four properties of section 7, which
do not hold.

## 7. Where code and comments disagree

Each run checks one sentence of a comment and finds it violated.

| Run | Property | The comment, and what happens |
| --- | --- | --- |
| `sso_unrecorded` | `TokenRequestIsRecorded` | a token request records its session; the inverted test records it under the other parameter, usually null |
| `central_twice` | `LogoutOnce` | the monitor of `performLogout` is to avoid "concurrent logout mess ups" (`LogoutManagerBaseF5Impl.java:90-91`); every `getTicket` makes a new proxy, so it excludes nobody, and a service is told twice |
| `login_messages` | `MessagesMeanWarnings` | the flag says that there are warnings to be displayed; it is a field of a singleton and never reset, so one login's warnings show every later login an empty page of messages |
| `board_review` | `ReviewCoversSelection` | the loop collects the selected ids; it reads `ids[0]` each time, so a verdict names the first selected question only |

Other things the models show that have no run of their own:

- A write of the cache that throws in the middle of a logout ends it after the services
  were read and cleared: nobody tells them, the TGT is marked and stays in the
  registry (`MarkUpdate`, `lost`). `NothingForgotten` and `ServicesGetTold` except them.
- A destroyed TGT still grants to requests that were past the check before; their write,
  or a deletion that fails, leaves it in the cache (`GrantPut`, `PutTicket`,
  `DeleteTicket`). It is marked, and `LogoutIsFinal` says that no others get in.
- An expired Shiro session stays in the map of the storage (`ShiroExpire`), for
  `onExpiration` does nothing; two overlapping token requests of one session can
  leave an entry that no removal of the session finds (`crossed`, which `MapsAgree`
  excepts); a session whose token another session takes over is found under no
  token any more, and no logout ends it (`Reachable` and `NoShiroSessionLeft` do not
  count it); and when stopping the Shiro session throws
  (`ShiroStopFails`), the HttpSession of the same token survives.
- `complete` adds a row for every open task, not for those it has opened: a parallel
  task gets a second row, and one of them stays (`ListTasks`, `Commit`).
- After the last try a write of the ticket cache is given up without an error, so a TGT
  may be handed out that no registry holds (`PutTicket`, `Create`).
- An instance ended by a page keeps its state 0 in the table (`ToTask`,
  `DeleteProcessInstance`).
- Two updates of one configuration that overlap both answer success and may leave two
  tasks for one activity; `getWfReTaskBy` then fails until the next save. This is why
  `ConfigAsSaved` excepts processes that requests have crossed on (`disturbed`). Two
  first saves of a name that overlap leave two processes of that name.
- The operators of a configuration that is replaced stay in their table for ever
  (`ClearTasks` removes tasks, nothing removes their operators).
- A federated login that another tab of the browser has overtaken goes to that
  tab's service (`Return`); `ReturnsToItsService` excepts it. One whose HTTP session has
  ended meanwhile goes to the page for logins without a service.
- A TGT that is stored and cannot be read, or whose login throws after it was
  created, stays alive in no cookie, and the next login of the tab does not destroy
  it (`ReadWarnings`, `Authenticate`, `Return`); `NoTGTLeftBehind` excepts such TGTs
  (`missed`).
- The authentication handler that the configuration names yields no warnings itself;
  `login_messages` is about what the flag does as soon as one does.
- On the deal page rows are removed by `parseInt` of their ids (`dealList.js:378`), while
  jqGrid keeps the selection as strings and does not find the number in it: the rows go and
  their ids stay selected (`Del`). Ids are given again, so that a request from there may
  name a question that came later and that the user has not selected, other
  than what is shown. `NamesOnlyTheShown` excepts grids in which rows were removed
  there, clicks while a grid is loading, and failed loads;
  `MissesNothingShown` excepts failed loads only.
- A save or delete of a configuration that fails halfway leaves what was done
  (`Fail`); the properties of `ProcessDefinitions` except what a failure or a crossing
  has touched until a save by itself repairs it.

## 8. What is not modelled

Within the modelled parts: parsing of logout messages, HTML and JSON, the F5 rewriting
of service addresses, logging; replication of the ticket cache between cluster
nodes (the cache is one memory here; that replication fails is modelled, as a write or a
read that throws) and the registry cleaner, whose trigger is
commented out; exclusive gateways; suspension of instances; and
`disableSingleSignOut`, which is never set.

As parts: the realms and filters of Shiro (no state of their own), database
administration, servlet set-up, and vendored third-party classes. `PROJECT.json` gives
the reason for each under "components". Of `ProcessCoreServiceImpl`, which edits a
shared process definition, no method that changes anything is called in the
repository. The audit trail's promises rest on a database and an executor that are
configured elsewhere. How logout messages travel from B to A is left out
because A records the session of a service ticket under null (section 7): no
message finds it, in whatever order it arrives.

Most of the JavaScript in the repository is not its own: ExtJS, the Oryx model editor,
jQuery, jQuery UI, jqGrid, UMEditor and their copies make up nearly all of it. Only
jqGrid is modelled, as far as pages rest on it. The console's own scripts other
than the question pages fill a form or a table from one request and send it back;
one slip of theirs is listed as a hazard.

## 9. Plan

1. *Done*: `SingleSignOut`, `CentralLogout`, `WorkflowMirror`, `LoginFlow`,
   `ProcessDefinitions` and `QuestionBoards`, each with proofs of all its safety
   properties that hold; three of them with an abstract specification.
2. Operations on single tasks (`delegateUser`), and the audit trail's archiving, if
   their databases' scripts become part of the repository.
3. The order of logout messages and token requests, once the inverted test of
   section 7 is mended.
