# A verification project for the document operations of rostu

rostu is a budgeting system on a home-grown platform: an ExtJS client, ASP.NET services, Entity
Framework and SQL Server. Users work on *documents* ("tools" in the code). A document has a status and
is driven from status to status by *operations*. An atomic operation runs in one request. A non-atomic
one is *begun*, the user edits the document, and then it is *completed* or *cancelled*, with the document
restored. Several users do this at once, on one document or on several in one request, from forms whose
remote calls are batched, lost, sent again and answered out of order. That machinery, on the server and in
the client, is the platform's own core logic, and what this project models, checks and proves.

All paths below are relative to `src/`. `PB` is `Platform.BusinessLogic`.

## 1. Inventory

| Component | Where | State | Operations | Modelled |
|---|---|---|---|---|
| Operations over documents | `PB/Activity/Operations`, `PB/Activity/Locks.cs`, `PB/DataAccess/ToolsDataManager.cs`, `BaseApp/Activity/Operations`, `BaseApp/DataAccess/ToolsDataManager.cs` | the document row; `reg.StartedOperation`, `reg.SerializedEntityItem`, `reg.ExecutedOperation`; the entity tracked by each request | begin, complete, cancel, execute, "Create" of a new document; save and delete beside them | `OperationDispatch` |
| Requests over several documents | `ToolsDataManager.ExecuteGroupOperation`, `DataManager.UpdateEntries`, `EFDataManager.DoUpdateEntries` | one EF context shared by all documents of the request, one or many transactions | execute a group, update a group | `GroupRequests` |
| Stored copy for Cancel | `PB/Activity/Operations/Serialization` | `SerializedEntityItem.Data` | store, restore | partly: the document row |
| CRUD of rows | `PB/DataAccess/DataManager.cs`, `EFDataManager.cs`, `PB/DataContext.cs` | EF context | create, update, delete, clone, new version | partly: documents |
| Transactions and audit | `PB/DataAccess/TransactionScope.cs`, `Platform.Utils/Stacked.cs`, `PB/Auditing` | the thread's stack of scopes, audit actions subscribed to it | open, complete, dispose; audit now or after the transaction | partly: complete, dispose |
| Controls | `PB/Activity/Controls`, `BaseApp/Activity/Controls` | control scope, launcher of the thread | run before and after a save, refuse, skip | partly: refusals |
| Remote calls of the client | `Platform.Web/app/direct`, `Platform.Web/ext/src/direct`, `app/clientactions` | registered calls, buffer, requests in flight, the one message box | issue, combine and send, answer, fail, retry, ask the user | `DirectCalls`, `CallPromise` |
| Client interaction | `Platform.ClientInteraction` | answers in the context of a call | ask, answer, run again | partly: `DirectCalls` |
| Element forms | `Platform.Web/app/logic/EntityItem.js`, `WindowManager.js`, `mixins/TablepartsDenormalizer.js`, `components/mixins/FormField.js` | values shown and loaded, mask, window and its key | open, type, save, refresh, close; answers of save, load, defaults, denormaliser | `EntityForm` (grids and nested forms left out) |
| Operations on the form | `Platform.Web/app/components/mixins/Operations.js`, `BaseApp.Service/OperationsService.cs` | current operation, visible buttons, fields open to editing | begin, execute, complete, cancel (after a question), and their answers | `OperationForm` |
| Ordering | `Platform.Utils/Orderable` | none | sort by declared before/after | no, planned |
| Registry movements, denormalised table parts, query building, metadata, rights, numerators, import and export, environment, rest of the web client, business documents, reports, tools | see `PROJECT.json` | | | no; the reason is given with each in `PROJECT.json` |

How they interact. A web service calls a data manager. The data manager opens a `TransactionScope`
(read committed; the database has READ_COMMITTED_SNAPSHOT on), loads the entity, and calls the operation
dispatcher. The dispatcher probes the lock, checks, writes its registries, calls the document's handler by
name, checks the status after it; the data manager saves the context, where controls run before and after
the save, and completes the transaction. Two connections take part: that of the EF context, and
`DbConnection`, on which the lock probe, the stored copy and the restore are raw SQL. Requests share
nothing but the database, so every interleaving of their *statements* is possible.

What is hard here, and where it is caught:

* *Checks on data read earlier.* The status is checked on the entity loaded before the lock; the lock ends
  with its own statement; the begun operation is queried once for the check and once more for its removal;
  the values of a completing client are saved before there is anything known to complete.
* *Exclusion by a unique index.* That no two operations run on a document rests on the INSERT of a row that
  is never committed by an atomic operation, on the index of `reg.StartedOperation` and on LOCK_TIMEOUT.
* *Two registry rows that must stand and fall together*, written by different layers.
* *Partial writes.* EF updates only the columns it finds changed, a client's save writes all of them, and a
  Cancel writes the stored copy over whatever is there.
* *A shared context.* A document refused in a group leaves its changes in the context of the others.
* *Rollback at any statement.*
* *Answers in any order.* The client's calls are independent: a form can be used, closed or reloaded while its
  save is under way; a Begin, a Complete and a load of one form are answered as they come.
* *Lost calls.* A request given up by the client may still be served, and what failed is sent again.
* *One of a kind for the page.* One message box for the questions of all calls, one registry of windows by key.

`PROJECT.json`, "hazards", lists each at its line with the properties that would catch it.

## 2. Modules

| Module | What it is |
|---|---|
| `OperationDispatch` | requests over single documents, one action per database statement or stretch of code between two of them; its properties |
| `ToolLifecycle` | what that machinery promises to whoever looks at the committed database: atomic steps Begin, End, Execute, Create, Save, Delete. `ExclusiveSpec` is the stronger contract without Save and Delete |
| `OperationDispatchInv` | the inductive invariants `DispatchInv`, `SnapInv` and `CheckedInv` |
| `OperationDispatchProofs`, `OperationChecksProofs` | theorems about `OperationDispatch`: locks and refinement; what was checked before the handler |
| `GroupRequests` | requests over several documents: shared context, transactions, refusals; its properties |
| `GroupRequestsInv`, `GroupRequestsProofs` | inductive invariant and theorems |
| `DirectCalls` | remote calls of the client: buffer, requests, failures, retries, questions to the user |
| `CallPromise` | what a remote call promises to the code that issues it |
| `DirectCallsInv`, `DirectCallsProofs` | properties of the calls, their inductive invariants, the refinement of `CallPromise`; the theorems |
| `EntityForm`, `EntityFormInv` | element forms of a page over rows that others change too; their properties and the inductive invariant `EntityInv` |
| `EntityFormProofs` | the theorems about it |
| `OperationForm`, `OperationFormInv` | forms of several users carrying out operations over one document; their properties and the inductive invariant `OperationInv` |
| `OperationFormProofs` | the theorems about it |
| `MCOperationDispatch`, `MCGroupRequests`, `MCDirectCalls`, `MCEntityForm`, `MCOperationForm` | small instances for TLC |

`OperationDispatch` and `GroupRequests` meet where the one abstracts the other: a request of `GroupRequests`
goes through the same dispatcher for every document; here its inner statements are one step, and the other
requests show only in what they make fail (`Locked`, `begun`, a vanished row).

The client's modules stand on one another the same way. `DirectCalls` is the transport; `EntityForm` and
`OperationForm` use a call as it leaves it: issued, served or not, perhaps lost and sent again, answered or
refused in an order of its own. The server of `OperationForm` is atomic: a Begin, an end, an execution takes
effect at once or not at all, which is what `ToolLifecycle` says of the database and `OperationDispatch` is shown to
keep. It is an abstraction made by hand, not a refinement shown by TLC or TLAPS: it has the handlers of the
operations, the stored copy a Cancel writes back, and the two checks that decide who may begin and end, but no
statements, no administrators, and no save or delete of the document beside the operations.
`EntityForm` has the two answers that unmask a form; `OperationForm` has the buttons.

### OperationDispatch and the code

State. `rows`, `started`, `serialized`, `executed` are the committed tables. A request `r` has a statement
it is about to run (`pc`), what the client asked (`req`), its tracked entity with current and original values
(`entity`), the begun operation it checked (`seen`) and the registry rows it marked for removal (`ends`). Its
uncommitted work is its version of the document row (`write`), the copy it inserted (`snap`) and whether it
holds the document's key in the unique index (`key`). Contents are abstracted to *who wrote them*: enough to
see whose edit survives. The key of a registry row is the request that inserted it, so a row that replaced
another one under the same document is told apart from it, as its identity column does.

| Request | Actions in order | Code |
|---|---|---|
| Begin | `Open`, `BlockDocument`, `CheckBeginState`, `WriteStartedOperationBegin`, `SerializeToRegistry`, `RunHandler`, `UpdateDocument`, `Commit` | `ToolsDataManager.BeginOperation`, `OperationDispatcherBase.DoBeginOperation` |
| Execute | the same without `SerializeToRegistry` | `ExecuteOperation`, `DoProcessOperation` |
| Create | `Create`, then as Execute; without an operation named "Create" directly `Commit` | `CreateEntry`, `OnEntityCreated` |
| Complete | `Open`, `UpdateEntity` if the client sent values, `BlockDocument`, `CheckCancelCompleteState`, `RunHandler`, `WriteEndOperation`, `UpdateDocument`, `DeleteRegistryRows`, `Commit` | `CompleteOperation` |
| Cancel | `Open`, `BlockDocument`, `CheckCancelCompleteState`, `RestoreDocument`, `WriteEndOperation`, `UpdateDocument`, `DeleteRegistryRows`, `Commit` | `CancelOperation` |
| Save | `Open`, `UpdateEntity`, `Commit` | `UpdateEntry` |
| Delete | `Open`, `CheckDelete`, `DeleteRow`, `Commit` | `DeleteItem` |

Any of them may `Abort` at any statement: a control, the handler, the network, the transaction timeout.

Assumed of what is not in the repository (marked external in the map):

* SQL Server holds exclusive row and key locks to the end of the transaction; readers under
  READ_COMMITTED_SNAPSHOT do not wait and see the last committed version; a statement under LOCK_TIMEOUT 0
  fails at once on a locked row. A connection opened or reopened within an ambient transaction takes part in
  it; two connections of one transaction do not lock each other out. The probe's connection is open before.
* Entity Framework updates the changed columns of a tracked entity, issues the UPDATE before the DELETEs of
  one SaveChanges, and throws when a statement affects no row.
* Identity values are not used again: a deleted document does not come back under its id.

### GroupRequests and the code

`rows` and `executed` are committed, `txRows` and `txExecuted` as the request's transaction sees them, `image`
and `entry` what the shared EF context tracks of each document and of the record of its execution. `Load`
takes the next id (in any order). Execute: `Locked`, `CheckBeginState`, then the handler, which may change
(`HandlerChanges`) and save (`HandlerSaves`) as often as it likes, be refused by a control, fail, or return;
`CompleteItem` is SaveChanges and the completion of that document's transaction. Update: `SetValues`, the
controls before the save, `SaveEntity`, the controls after it. A refusal (`Refused`) is caught and the loop
goes on *with the context as it is*; anything else leaves the request (`Throw`). `Answer` is the end, where
an Update completes its one transaction, also on the exception that names refused documents.

Two facts of the code decide the shape. The final SaveChanges of `DoExecuteOperation` runs under
`ControlScope(strategy, false)`, which registers no launcher, so no control runs there. And
`ControlTargetException.Complete`, which would detach a refused entity, is called only by the transport when
the exception leaves the request, never by the loops. Left out: another request that deletes a document after
`Load`; an id listed twice; handlers that change documents other than their own.

### DirectCalls and the code

State. `transactions`, `callBuffer`, `retryCount` are those of `Ext.direct`; `answers[c]` is `data[0].answers` of
a call, the context the server reads; `dialog` is the function the message box holds, by the values it will find
when it is called; `requests` are in flight. What the properties speak about is kept beside it: what each
callback was told, how often the server carried a call out, what it asked.

`Issue` is `configureRequest` and `queueTransaction`: a call with a time-out in its options is sent at once and
alone, the others go to the buffer that `CombineAndSend` empties when its timer fires. `Serve` is the server,
which runs the calls of a request in order, each with a transaction of its own. `OnData` is the whole success branch of
`onData`: a loop over the events in which `exception` keeps its value over an event that has none, a question
opens the message box, anything else is called back, and a callback that raises ends the loop. `OnFailure` is its
failure branch: each call of the request is retried or told of the failure; the request may still be served
afterwards (`abandoned`). `AnswerYes` and `AnswerNo` are the function given to `interactWithUser`, which reads
`transaction`, `event` and `exception` of the loop *as it ended*. Calls confused that way are collected in
`spoilt`, calls of a request that failed in `failed`, so that the properties can say exactly who is affected.

### EntityForm and the code

A form `f` has its window (`window`, `winkey`, `windowKey`, `windows` of `WindowManager`), its fields (`value`,
and `formValue` as they were loaded), `docid`, `isNew`, `shouldBeClosed`, `masked`, `finished`
(`isDenormalizerFinished`). The user opens a row or a new element, types, saves (with or without closing),
refreshes, closes. Calls are served, refused or lost in any order; `OnSaved`, `OnSaveRefused`, `OnLoad`,
`OnDefaults`, `OnFields` are the callbacks with everything they do, to other windows too. A new element's key is
a Guid, for which the form itself stands. Rows are changed by another user at any time (`OthersWrite`).

What a field gives back is not always what was put in it. `FormField.isChanged` is `getValue() !== formValue`, and
`formValue` is the raw value of the row: a text or text area loaded with null gives back the empty string, a text area
strips carriage returns, and a date field builds a new Date at each call. Such a field counts as changed without being
touched and is part of every save. `Shown[x][v]` is what field `x` gives back once `v` is put in it (`SetData`), and
`ByIdentity` are the fields never identical to what they were loaded with; `Changed` compares `Shown` with the raw value.
A field is taken to give back what it already shows, and users to type values a field can give back.

Abstracted: calculated fields and the id, which no form sends, are no fields here; the owner of a row of a
denormalised table part, which its form always sends, is left out, since it never changes; the load, overlay and
write of a save on the server are one step (its statements are `UpdateEntity` of `OperationDispatch`).

### OperationForm and the code

A form `f` of a user of its own has `current` (`current_operation`), the visibility of its buttons (`menu`,
`edit`, `commit` for the pair of commit and cancel), `editable`, `value` and `formValue`. `Begin` and `Execute`
are `executeOperation`, `CommitOperation` and `CancelOperation` with its question what their names say;
`OnBeginOperation`, `OnEnded`, `OnExecutedOperation` and `OnLoad` (with `update`) the callbacks. What a Complete
carries is `FormData`: the same `formValue()` of the form as in a save, with the same `Shown` and `ByIdentity`.

The server knows the document (`row`), its begun operation and who began it (`NotBegun` is `CheckNotBegined`,
`MayEnd` is `CheckCancelCompleteState`) and the copy stored of the document (`stored`), and shows a begun operation
to its user alone (`FillStartedOperation`). The handlers are in `Handled[o][x]`, the values those of operation `o`
may set field `x` to. `ServeBegin` stores the document, then runs the handler that starts the operation;
`ServeComplete` writes the client's values, then runs the handler of the operation on them; `ServeExecute` runs that
of an atomic operation (`Handled[None]`); `ServeCancel` writes the stored copy back.

A call the client gave up stays `given_up`, to be served later or never (`late`, for a Complete or a Cancel).
The answer of Begin is read by a second call on the server after the first has committed
(`OperationsService.cs:30-31`), so `ServeBegin` may be answered with a refusal though the operation is
begun; such a form, and one whose Begin was lost on the way, is in `lostBegin`. The callbacks of a Complete, a Cancel
and an Execute do not look at whether the request was refused.

## 3. Runs

| Run | Instance | Question |
|---|---|---|
| `dispatch_all` | 1 document, 3 requests, 2 users, bob an administrator, all kinds, an operation "Create" | does exclusion hold when anything races with anything; is what the database shows atomic |
| `dispatch_operations` | 1 document, 3 requests, no Save, no Delete | is the copy exact and the document frozen when clients use operations alone |
| `dispatch_liveness` | 1 document, 3 requests, `FairSpec` | does each request end |
| `group_requests` | 3 documents, both kinds, 3 statuses | are completed and refused documents of a group what the answer says they are |
| `direct_calls` | 3 calls: one alone that asks, a buffered one that asks, a buffered one whose callback raises; 1 retry, `FairSpec` | is each call attempted once at a time, called back once, told the truth, and never forgotten |
| `entity_form` | 2 forms, 2 rows (one stored), a text (null, the empty string it is shown as, another) and a date, 2 saves or refreshes, denormaliser on | what may a user lose by saving, loading and closing in any order |
| `operation_form` | 2 users' forms, operations `edit` and `sign` and atomic ones, a text (null, empty, another) that the handlers of all but `edit` may set to null, 3 orders, each given while at most one call is under way | does the form tell the truth about the operation, and end the right one |
| `stale_status`, `other_users_operation`, `delete_during_operation`, `group_refused`, `direct_batch` | the smallest instance that shows it | a message or a comment of the code that the code does not keep (section 6) |

Why the bounds are enough. Documents do not interact in `OperationDispatch` (every action reads and writes one
document's rows), so one document, there at first or still to be created, shows every race. Three requests give what
needs three: A begins, B checks to end it, C ends it and another begins. Two statuses and two operations, one with a
route (`approve`: draft to approved) and one without an original status (`edit`), give every outcome of the two
checks. Each request is served once; a client that sends two is two requests. In `group_requests` the third document
is what a saved leftover of the first can meet after the second. Three statuses, two of them possible final ones,
let a wrong status be told from a right one. In `direct_calls` three calls of three sorts give every mixture in a
response: a question alone, a question first or last of a batch, beside a refusal, and a callback that raises before
or after it; with one retry a call is at most twice on its way. No two of the three ask the same question there, to
keep the search for liveness small; the theorems of section 4 cover that case, in which a confused call may be sent
again beyond the bound (`AttemptsBounded` excepts it). In `entity_form` two forms are what a clash of windows needs,
one new element and one stored row what a saved element turning up under an open row's key needs; `MaxCalls` (2)
orders in all allow a save ordered during a save, or a save of each form. `MaxRetries` is 0 there and in
`operation_form`, as `ControlingProvider.js:11` sets it; a given-up request that is served late is there all the
same, and the theorems hold for any number of retries. `direct_calls` has one retry, so that the code that sends
again is run. In `operation_form` one user may have begun `edit` before the forms were opened (`Started`), over a
document whose text is neither null nor empty (`Opened`): with it three orders are enough for a late Complete to
meet an operation begun after the one it was for, and for one user's Complete to meet what another's operation has
written meanwhile. Null texts come into the form by the handlers and are sent back by the next Complete. The
counters that stand for bounds are `ordered` (`MaxCalls`) and the number of calls under way when another is ordered
(`MaxUnderWay`, 2 for both forms together: an operation may be ordered beside a load, beside a given-up request of
the same form, or while the other user's is under way, but not beside two of these); nothing else is cut off. `Requests`, items and forms are permuted by SYMMETRY only in runs without liveness. CHECK_DEADLOCK
is FALSE because a behaviour ends when all requests are answered, or all orders are given.

Fairness. `FairSpec` assumes weak fairness of the statements of each request (`Serve`): ASP.NET gives each
request a thread of its own, the server grants a lock that has become free, and handlers return. `Abort` and
the arrival of requests are under no fairness, so the property does not rely on failures or on clients. It
says that the waits, which are for the document's row and for the key of its registry row, never form a cycle
among requests that write one document each. A handler that executes operations of other documents in the
same transaction (`PlanActivity.cs:3603`) is outside it.
`FairSpec` of `DirectCalls` assumes that the timer of the buffer fires, that each request is answered or its
time-out passes (`Ext.Ajax` sees to the latter), and that the user closes the message box, which is modal.
Nothing is assumed of the server or of the network. `EntityForm` and `OperationForm` have no fairness: their
progress is stated as invariants (`MaskAwaitsAnswer`, `OperationOffered`: while something is not as it
should be, an answer is on its way), and that answers come is `EveryCallAnswered`.

Properties in words. `OneOperationAtATime`: no two started operations on one document, none while a non-atomic one
is begun. `NothingExecutedWhileBegun`: nothing is recorded as executed except by the step that ends the begun
operation. `EndsWhatItChecked`: a request that ends the operation it checked ends it as checked (user, operation,
and for a Cancel the exact stored document), whatever was saved meanwhile. `ExecutedFollowsRoute`: no record shows
an atomic operation off its route. `StatusLeftAsRecorded`: the document is left in the status its record names,
except by an operation that has left the status alone, after which it keeps the one another request has committed
meanwhile. `SnapshotIsLastCommitted`, `FrozenWhileBegun`: see `dispatch_operations`. `ImplementsLifecycle`,
`ImplementsExclusiveLifecycle`: refinement of `ToolLifecycle`. `CompletedAsRecorded`, `NeverRecordedTwice`,
`EveryDocumentAnswered`, `OnlyCompletionChanges`: what a group request may have done to each document at each point.
`OneAttempt`: an unanswered call is in one place - buffer, request or message box. `CalledBackAtMostOnce`.
`ToldWhatWasDone`: a call no failure and no confusion touched was carried out once if told of success and not at all
if told of a refusal. `UnmixedAnswersBelong`: the context of such a call holds answers to its own questions only.
`AttemptsBounded`: no retry of such a call without end. `DispatchInv`, `SnapInv`, `CheckedInv`, `GroupInv`,
`CallsInv`, `FateInv`, `EntityInv` and `OperationInv` are the inductive invariants of section 4.
`EveryCallAnswered`: every call is answered, unless confused with a question. `KeepsPromise`: refinement of
`CallPromise`, with `issued` mapped to the registered calls and those called back. `PatientEditsKept`: a user who
leaves a form alone while its save is under way loses nothing typed. `CreatedOnce`: a new element gets one row.
`WindowsRegistered`: closing a form closes that form. `MaskAwaitsAnswer`: no form stays masked with nothing to wait
for. `OnlyTypedFieldsWritten`: a save of a stored element sends a field its user did not touch only if the field
does not give back what it was loaded with, and then that value as the field shows it, over what others have
written. `ButtonsTellTruth`: with all answers in, the form offers to end exactly the operation its user has begun.
`OperationOffered`: the same promise, weaker, to a user who does not wait. `EndsOwnOperation`: a Complete or Cancel
that is waited for, at the first attempt or sent again, ends the operation it was ordered in.
`CompletesWhatWasTyped`: in the fields no handler sets a Complete leaves what was typed, the loaded value as shown
in those that do not give it back, and in the rest what other users have written.

What these except is said in each and is as much their result as what they claim. Of `EntityForm`: impatient use
(`hasty`: a form was used while a save of it was under way, or a row was opened that a save under way, or another
open form, may stand for), a lost save (`lost`), a callback that raised (`stuck`). Of `OperationForm`: impatient
use, the edit button used during another operation (`misled`), a form not told of the outcome of a Begin
(`lostBegin`), one that gave up a Complete or Cancel which may yet be served (`late`, excepted by `ButtonsTellTruth`
alone), a callback that raised (`stuck`). `EndsOwnOperation` speaks of requests that are waited for: one the client
has given up names no operation, and if it is served after the user's next Begin, it ends that one
(`Operations.js:202`). Of `DirectCalls`: a call of a request that failed, which may have been carried out all the
same, or twice (`failed`); one that shared a response with a raising callback or the message box with another
question, which may never be called back (`spoilt`). The code does all of this. Each property of a passing run has a
mutant in `PROJECT.json`, a plausible bug under which TLC finds it violated; the definitions commented "Mutant:" are
those bugs and are used by nothing else.

## 4. Proofs

`OperationDispatchProofs`, `OperationChecksProofs`, `GroupRequestsProofs`, `DirectCallsProofs`, `EntityFormProofs` and
`OperationFormProofs` hold, for every number of requests, documents, users, operations and statuses, of calls,
questions and retries, and of forms, rows, fields and values:

* `DispatchInvariant`: `Spec => []DispatchInv`. Its parts: `TypeOK`; `ShapeInv` (which kinds reach which statement,
  what a request knows there, and that a request that is over holds nothing); `KeyInv` (a request holds the key of
  its document in the unique index exactly from its INSERT, or its DELETEs, to its commit, it holds it alone, and a
  starter that holds it sees no begun operation, an ender sees one); `RowInv` (the same for the document row);
  `NewInv` (nobody else knows a document being created); `StartedHasSnapshot` (both registry rows stand and fall
  together, with one id). The last is what matters and is not inductive alone: that an ender removes *both* rows
  needs that nobody can change either between its DELETE and its commit, which needs that the key is held alone,
  which needs to know at which statements it is held.
* From it `OneOperationTheorem`, `NothingExecutedTheorem`, `LifecycleTheorem` (each action maps to a step of
  `ToolLifecycle` or a stutter: all but `Commit` leave the database alone).
* Under `ByOperationsAlone` (`Kinds` has no Save and no Delete), with the second invariant `SnapInv` (the copy in
  hand is the last committed row; the row does not change while somebody holds the key; `SnapInvariant`):
  `ExclusiveLifecycleTheorem`, `SnapshotIsLastCommittedTheorem`, `FrozenTheorem`.
* `CheckedInvariant`: `Spec => []CheckedInv`, under `DispatchInv`. The dispatcher checks early and commits late, and
  holds no lock between. `RouteInv`: an atomic operation's entity is as it was loaded until its handler, and its
  status after the handler is on the route. `StatusInv`: a status written is that of the entity, or, where the
  entity kept the one it was loaded with, that of the row, which the row's lock keeps until the commit. `EndInv`:
  while the operation a Complete or Cancel read is the one begun, the user may still end it, its name is the
  request's, and the restored image is the stored one. What makes it inductive is `Past`: the key of a registry row
  is not used again, so an operation begun later never passes for the one that was checked. From it
  `ExecutedFollowsRouteTheorem`, `StatusLeftTheorem` and `EndsWhatItCheckedTheorem`.
* `GroupInvariant`: `Spec => []GroupInv`: what image and entry may hold for each document, by whether it is
  untouched, in hand, refused or done, and how `txRows` and `rows` may differ. The hard part is the leftover of a
  refused document: its record is Added in the context until some later SaveChanges, after which it is Unchanged and
  must not be inserted again. From it `CompletedTheorem`, `RecordedOnceTheorem`, `AnsweredTheorem`,
  `CompletionTheorem`.
* `CallsInvariant`: `Spec => []CallsInv`. That a callback runs once is not inductive: it needs `OneAttempt`, that a
  call under way is unanswered and waits in one place, which needs that no batch holds a call twice and no two
  requests share one (`Once`), through batches, retries queued in the order of a failed request and the message box.
  From it `OneAttemptTheorem`, `CalledBackTheorem` and, with `Truthful` (an "ok" on its way is of a call the server
  has carried out), `PromiseTheorem`: each action maps to a step of `CallPromise` or a stutter.
* `FateInvariant`: `Spec => []FateInv`, under `CallsInv`. `Fresh`: an attempt carries the answers its call has now,
  so a question that comes back is new. `Fate`: a call untouched by failures and confusion has been carried out only
  if the response on its way, or its callback, says so. The key lemma is `Unconfused`: in a response, a call that is
  not confused is called back, or its own question is the last and only one. From it `ToldTheorem`,
  `AnswersTheorem`, `AttemptsTheorem`.
* `EntityInvariant`: `Spec => []EntityInv`, in four parts that the properties of the forms follow from. `BaseInv`: a
  form goes by the key of the row it stands for, or by itself; a button is that of one open window (`Buttons`); a
  call asks about the row of its form; no two saves have created one row (`CallsApart`); what a form shows other
  than loaded was typed. `MaskInv`: a form that is masked and not loaded waits for its load, one whose denormaliser
  has not finished waits for that; neither alone is inductive, since each answer leaves the mask to the other.
  `PatienceInv`: of a patient user's form, a save is under way alone (`OneByOne`), what is typed and not saved is
  shown and is what the save carries (`EditsKept`), and the key of the form is no other's *and will not become
  one's* (`KeyOwn`): no open or saving form goes by it, and no save that has created a row will take it when it is
  answered. `CreatedInv`: a form that has created a row stands for it, or the answer that says so is under way. The
  hard step is `OnSaved` (`OnSavedStored`, `OnSavedCreated`), which moves the keys and may close a window that is
  not its form's. A step that moves no window is dealt with once (`Moved`): what is left to show is `Own`, of the
  one form it changes. From it `EditsTheorem`, `CreatedTheorem`, `RegisteredTheorem`, `MaskTheorem`; with the save's
  own step `TypedTheorem`.
* `OperationInvariant`: `Spec => []OperationInv`. Of a patient user at most one answer is awaited (`Alone`), and the
  request it answers carries the form's data and, unless the outcome of a Begin was not told, the number of the
  operation begun (`Carried`), also when it was sent again after an attempt that may yet be served. Of a patient
  user who was told the outcome of every Begin and gave up no Complete or Cancel, `Course` says for each kind of
  call what the form shows and what the server has begun meanwhile; with none awaited the two agree (`Settled`,
  `InStep`). A weaker part holds of every user (`Offered`): what is begun is offered, or a call is awaited after
  which it is. `FieldOK`: a field shows what it can give back, the loaded value unless its user has typed. From it
  `ButtonsTheorem`, `OfferedTheorem`; with the step that serves the call `EndsOwnTheorem`, `CompletesTheorem`.

What the proof of `EntityInvariant` found. `WindowsRegistered` used to except a form opened while a save *of its
row* was under way. With two forms TLC agrees; the proof of `OpenRow` does not go through, and three forms show why:
the first creates a row and closes or refreshes late, the second opens that row before the first is answered, the
answer moves the first form's button over the second's, and now the row counts as not open although the second form
still shows it: a third form opens it, and whoever closes the second closes the third. `Rivals` now names every form
that may come to stand for the row by a save under way, or shows it though its button has been taken away, and all
of them and the new one are `hasty`. Most three-form instances are beyond a complete search; the theorems hold for
any number of forms.

Assumptions: the named ASSUMEs of the modules (types of the constants; that sentinels such as `Nothing` are not
values of the sets they stand beside), which TLC evaluates in every run. The finite and symmetric instances are
not assumed in the proofs.

Only model-checked: `EveryRequestEnds` and `EveryCallAnswered`, since liveness under fairness is not for this prover.
Every other property of a passing run is a theorem. The five runs that show a disagreement have counterexamples, not
theorems; what does hold in their place is said by `ExecutedFollowsRoute`, `EndsWhatItChecked`, `FrozenWhileBegun`,
`CompletedAsRecorded` and `UnmixedAnswersBelong`.

## 5. What is not modelled, and the plan

In the order it is to be done:

1. `AuditScopes`: the thread's stack of `TransactionScope`s, which `Dispose` does not pop, nested scopes of
   an import or of a tool, and the audit actions that subscribe to `TransactionScope.Current`. Abstract
   specification: one audit record for each committed change and none for one rolled back. Two properties are
   expected to fail in the code as it is (`Audit.cs:167`, `DataManager.cs:501`) and are to be runs of their own.
2. `SnapshotRestore`: store and restore of a document with its table parts and multilinks (`RestoreBuilder`:
   DELETE, UPDATE and INSERT per table in order of their references), refined to the `data` of
   `OperationDispatch`; theorem: restore after store is the identity on the stored tables.
3. `Controls`: which controls run before and after a save, in which order, which are skipped, and the answers a
   control scope keeps for the second run of a request.
4. `NestedOperations`: a handler that executes operations of other documents in its own transaction; waits
   over several documents.
5. `DenormalizedSave`: the save of a grid row with periods (`DenormalizedSaver`), as the separately committed
   statements it is, by two requests; specified by what the grid shows afterwards.
6. `GridRefresh`: the grids of table parts in a form, which load one by one and enable one another
   (`refreshGrids`, `independentgridsloaded`), and forms nested in them.
7. `Ordering`: the sort of `Platform.Utils/Orderable` against the definition of a topological order.
8. Theorems: for the new modules their invariants, and the refinement of `SnapshotRestore`.

9. `OperationForm` over `OperationDispatch`: its server shown to refine `ToolLifecycle`, with the registries as variables of
   their own.

Left out of the client's modules: administrators and a user with the form open in two tabs in `OperationForm` (the
server lets an administrator end another's operation, which `OperationDispatch` has); the denormaliser in
`OperationForm` and the operation buttons in `EntityForm`; a form none of whose denormalised table parts is shown,
which stays masked (`TablepartsDenormalizer.js:126`); uploads; client actions other than questions.

How much of the code is covered. Nearly all of the JavaScript of the repository is ExtJS itself, in several
builds of some hundred thousand lines under `Platform.Web/ext`, of which the models use the provider for remote
calls, the message box and the collections. Of the application's own client (`Platform.Web/app`) they
cover calls, forms and operations; the core logic is in C#.

Out of reach or of no interest to these methods, and not planned: query building, reports, import parsing, lists
and designers of the client, the content of the business documents, schema tools. `PROJECT.json` gives the reason for each.

## 6. Where the code and its words disagree

* `stale_status`: an operation can run from a status its route excludes (the message at
  `PB/Activity/Operations/OperationDispatcher.cs:62` says it is not possible). Two requests load the document,
  both pass the check, one after the other commits.
* `other_users_operation`: a user without the right can end another user's operation
  (`BaseApp/Activity/Operations/OperationDispatcher.cs:183`), if it was begun between the check and the removal.
* `delete_during_operation`: a document can be deleted while an operation is being begun on it
  (`BaseApp/DataAccess/ToolsDataManager.cs:194`); the registry keeps a begun operation of no document.
* `group_refused`: a group request reports a document as not carried out (`PB/DataAccess/ToolsDataManager.cs:219`) or
  not changed (`EFDataManager.cs:135`) and commits its change with another one's. `Kinds` set to one of the two
  shows either.
* `direct_batch`: in a response to several calls the answer to the question of one is stored in the context of
  another (`Platform.Web/app/direct/ControlingProvider.js:99`), though the answers of a context are the
  user's answers by action (`Platform.ClientInteraction/CommunicationContext.cs:44`): the call that asked waits for
  ever, and the other, already carried out, is sent again.

Met while modelling and not made a run, since the code alone says it: a comment says that null `EditableFields` mean
all fields may be edited (`PB/DataAccess/ToolAppResponse.cs:31`), and the form blocks all of them
(`EntityItem.js:342`); `operationdone` is said to arise after an operation has been completed
(`Operations.js:307`) and arises on a refused Complete, too; `independentgridsloaded` is said to arise once
(`EntityItem.js:697`) and its listeners pile up at each load.

## 7. Running it

`tlc -workers 2 -config dispatch_all.cfg MCOperationDispatch`, and so for every run of `PROJECT.json`;
`tlapm OperationDispatchProofs.tla`, and so for every module named `...Proofs`, for the proofs.
