-------------------------- MODULE OperationDispatch --------------------------
(***************************************************************************)
(* Operations over documents ("tools"), statement by statement.            *)
(*                                                                         *)
(* Every client request runs in one web request with its own Entity        *)
(* Framework context and one read-committed transaction.  Several requests *)
(* run at once; the database has READ_COMMITTED_SNAPSHOT on, so a reader   *)
(* sees the last committed version of a row (and its own changes) while a  *)
(* writer holds the row until its transaction ends.  One action of this    *)
(* module is one database statement, or one stretch of code between two of *)
(* them, of                                                                *)
(*   ToolsDataManager (BeginOperation, CompleteOperation, CancelOperation, *)
(*     ExecuteOperation, OnEntityCreated, UpdateEntry, DeleteItem)         *)
(*   OperationDispatcherBase / OperationDispatcher (both assemblies)       *)
(*   Locks, XmlDbSerializer.                                               *)
(* A request that throws leaves its TransactionScope uncompleted: all it   *)
(* wrote is rolled back (RolledBack).                                      *)
(***************************************************************************)
EXTENDS Naturals, Sequences

CONSTANTS
  Docs,             \* identifiers of documents of one entity
  Requests,         \* client requests of a behaviour; each is served once
  Users,
  Admins,           \* super-users and holders of Role.OperationAdmin
  Operations,       \* EntityOperation rows of the entity
  CreateOperation,  \* the operation named "Create", or Nothing if there is none
  Statuses,         \* DocStatus rows
  Draft,            \* DocStatus.Draft
  OriginalStatus,   \* EntityOperation.OriginalStatus, as a set per operation
  FinalStatus,      \* EntityOperation.FinalStatus, as a set per operation
  Kinds,            \* the requests clients send
  Initial,          \* tag of rows and contents older than the behaviour
  Nothing,          \* absence of a row, an image or a value
  Deleted           \* uncommitted DELETE of a document row

ASSUME ConstantsAssumption ==
  /\ Admins \subseteq Users
  /\ CreateOperation \in Operations \cup {Nothing}
  /\ Draft \in Statuses
  /\ OriginalStatus \in [Operations -> SUBSET Statuses]
  /\ FinalStatus \in [Operations -> SUBSET Statuses]
  /\ Kinds \subseteq
       {"Begin", "Complete", "Cancel", "Execute", "Create", "Save", "Delete"}

\* The tag of a content, or the key of a registry row, is the request that
\* wrote it: enough to tell whose change is in a row.
Tags == Requests \cup {Initial}

\* A document is its status and "everything else a client or a handler edits".
Row == [status : Statuses, content : Tags]
StartedRow == [id : Tags, op : Operations, user : Users]
SerializedRow == [id : Tags, data : Row]
ExecutedRow == [op : Operations, original : Statuses, final : Statuses]

\* What a request remembers: what was asked, the tracked entity with its current
\* and original values, and the ids of the registry rows it is to remove.
Request == [kind : {"Begin", "Complete", "Cancel", "Execute", "Create", "Save",
                    "Delete"},
            doc : Docs, user : Users, op : Operations \cup {Nothing}]
Image == [now : Row, was : Row]
RegistryIds == [started : Tags, serialized : Tags]

\* Sentinels are not values of the tables and fields they stand beside.
ASSUME SentinelsAssumption ==
  /\ Nothing \notin Row \cup StartedRow \cup SerializedRow
  /\ Nothing \notin Request \cup Image \cup RegistryIds
  /\ Nothing \notin Tags \cup Operations
  /\ Deleted \notin Row \cup {Nothing}
  /\ Initial \notin Requests

VARIABLES
  \* committed database
  rows,        \* the document table
  started,     \* reg.StartedOperation, unique by document
  serialized,  \* reg.SerializedEntityItem, unique by document
  executed,    \* reg.ExecutedOperation, in commit order per document
  \* requests
  pc,          \* the statement the request is about to run
  req,         \* what the client asked and who is asking
  entity,      \* the tracked entity: current and original values
  seen,        \* key of the StartedOperation row CheckCancelCompleteState read
  ends,        \* keys of the two registry rows removed from the context
  \* uncommitted work of the request's transaction
  write,       \* the document row as this transaction left it
  snap,        \* data of the SerializedEntityItem row inserted
  key          \* StartedOperation row of the document inserted or deleted

database == <<rows, started, serialized, executed>>
session == <<req, entity, seen, ends>>
work == <<write, snap, key>>
vars == <<database, pc, session, work>>

-----------------------------------------------------------------------------
Starters == {"Begin", "Execute", "Create"}   \* write the StartedOperation row
Enders == {"Complete", "Cancel"}             \* remove it
Operating == Starters \cup Enders

Finished == {"committed", "failed"}
Active(r) == pc[r] \notin Finished \cup {"idle"}

Doc(r) == req[r].doc

\* Mutant: no exclusive lock on a row, or no unique index.
NeverLocked(r) == FALSE

\* Exclusive locks of uncommitted statements: on the document row, and on the
\* key of the document in the unique index of reg.StartedOperation.
RowLockedByOther(r) ==
  \E s \in Requests \ {r} : write[s] # Nothing /\ Doc(s) = Doc(r)
KeyLockedByOther(r) ==
  \E s \in Requests \ {r} : key[s] /\ Doc(s) = Doc(r)

\* Mutant: the image is serialized from the entity the request had loaded.
LoadedImage(r) == entity[r].was

\* The document row as request r reads it inside its transaction.
Current(r) == IF write[r] # Nothing THEN write[r] ELSE rows[Doc(r)]

Goto(r, label) == pc' = [pc EXCEPT ![r] = label]

\* The end of the web request disposes its contexts and its transaction.
EndRequest(r, outcome) ==
  /\ Goto(r, outcome)
  /\ req' = [req EXCEPT ![r] = Nothing]
  /\ entity' = [entity EXCEPT ![r] = Nothing]
  /\ seen' = [seen EXCEPT ![r] = Nothing]
  /\ ends' = [ends EXCEPT ![r] = Nothing]
  /\ write' = [write EXCEPT ![r] = Nothing]
  /\ snap' = [snap EXCEPT ![r] = Nothing]
  /\ key' = [key EXCEPT ![r] = FALSE]

\* Any exception: the TransactionScope is disposed without Complete.
RolledBack(r) == EndRequest(r, "failed") /\ UNCHANGED database

-----------------------------------------------------------------------------
TypeOK ==
  /\ rows \in [Docs -> Row \cup {Nothing}]
  /\ started \in [Docs -> StartedRow \cup {Nothing}]
  /\ serialized \in [Docs -> SerializedRow \cup {Nothing}]
  /\ executed \in [Docs -> Seq(ExecutedRow)]
  /\ pc \in [Requests ->
       {"idle", "values", "loaded", "locked", "checked", "started", "serialized",
        "handled", "ended", "updated", "deleting", "written",
        "committed", "failed"}]
  /\ req \in [Requests -> Request \cup {Nothing}]
  /\ entity \in [Requests -> Image \cup {Nothing}]
  /\ seen \in [Requests -> Tags \cup {Nothing}]
  /\ ends \in [Requests -> RegistryIds \cup {Nothing}]
  /\ write \in [Requests -> Row \cup {Nothing, Deleted}]
  /\ snap \in [Requests -> Row \cup {Nothing}]
  /\ key \in [Requests -> BOOLEAN]

\* A document may be free or in the middle of a non-atomic operation that an
\* earlier request began.
Init ==
  /\ rows \in [Docs -> [status : Statuses, content : {Initial}] \cup {Nothing}]
  /\ started \in [Docs -> [id : {Initial}, op : Operations, user : Users]
                          \cup {Nothing}]
  /\ \A d \in Docs : started[d] # Nothing => rows[d] # Nothing
  /\ serialized = [d \in Docs |->
       IF started[d] = Nothing THEN Nothing
                               ELSE [id |-> Initial, data |-> rows[d]]]
  /\ executed = [d \in Docs |-> <<>>]
  /\ pc = [r \in Requests |-> "idle"]
  /\ req = [r \in Requests |-> Nothing]
  /\ entity = [r \in Requests |-> Nothing]
  /\ seen = [r \in Requests |-> Nothing]
  /\ ends = [r \in Requests |-> Nothing]
  /\ write = [r \in Requests |-> Nothing]
  /\ snap = [r \in Requests |-> Nothing]
  /\ key = [r \in Requests |-> FALSE]
-----------------------------------------------------------------------------
(* Requests arrive: ToolsDataManager loads the entity and nothing more.    *)

\* LoadBusinessEntity: First() throws when the row is not there.  An operation
\* to finish is found only later, so Complete, Cancel, Save, Delete bring none.
\* Complete may bring client values to save first; Save always does.
Open(r, kind, d, u, o) ==
  /\ pc[r] = "idle"
  /\ kind \in Kinds \ {"Create"}
  /\ o = Nothing <=> kind \notin {"Begin", "Execute"}
  /\ \/ /\ rows[d] = Nothing
        /\ RolledBack(r)
     \/ /\ rows[d] # Nothing
        /\ \/ kind # "Save" /\ Goto(r, "loaded")
           \/ kind \in {"Save", "Complete"} /\ Goto(r, "values")
        /\ req' = [req EXCEPT ![r] = [kind |-> kind, doc |-> d, user |-> u, op |-> o]]
        /\ entity' = [entity EXCEPT ![r] = [now |-> rows[d], was |-> rows[d]]]
        /\ UNCHANGED <<database, seen, ends, work>>

\* DoCreateEntry inserts the row of a new document (identities are not reused:
\* no other request knows d), then OnEntityCreated processes "Create"; without
\* such an operation OperationNotFoundException is swallowed.
Create(r, d, u, row) ==
  /\ pc[r] = "idle"
  /\ "Create" \in Kinds
  /\ rows[d] = Nothing /\ started[d] = Nothing /\ executed[d] = <<>>
  /\ \A s \in Requests : req[s] # Nothing => Doc(s) # d
  /\ row.content = r
  /\ Goto(r, IF CreateOperation = Nothing THEN "written" ELSE "loaded")
  /\ req' = [req EXCEPT ![r] =
       [kind |-> "Create", doc |-> d, user |-> u, op |-> CreateOperation]]
  /\ entity' = [entity EXCEPT ![r] = [now |-> row, was |-> row]]
  /\ write' = [write EXCEPT ![r] = row]
  /\ UNCHANGED <<database, seen, ends, snap, key>>

-----------------------------------------------------------------------------
(* Saving client values.                                                   *)

\* DoUpdateEntity: the entry is marked Modified as a whole, so every column is
\* written, those the client did not send with the values of the loaded image.
\* The status column is not ReadOnly in the metadata: values may set it too.
\* The UPDATE waits for the row; no row is an EF exception.
UpdateEntity(r) ==
  /\ pc[r] = "values"
  /\ ~RowLockedByOther(r)
  /\ \/ rows[Doc(r)] = Nothing /\ RolledBack(r)
     \/ /\ rows[Doc(r)] # Nothing
        /\ \E row \in [status : Statuses, content : {r}] :
             /\ write' = [write EXCEPT ![r] = row]
             /\ entity' = [entity EXCEPT ![r] = [now |-> row, was |-> row]]
        /\ Goto(r, IF req[r].kind = "Save" THEN "written" ELSE "loaded")
        /\ UNCHANGED <<database, req, seen, ends, snap, key>>

-----------------------------------------------------------------------------
(* Deleting a document (BaseApp ToolsDataManager.DoDeleteItem).             *)

\* CheckIsNotInOpperation reads the registry, CheckIsDraftAndRoot the image.
CheckDelete(r) ==
  /\ pc[r] = "loaded" /\ req[r].kind = "Delete"
  /\ IF started[Doc(r)] = Nothing /\ entity[r].now.status = Draft
     THEN /\ Goto(r, "deleting")
          /\ UNCHANGED <<database, session, work>>
     ELSE RolledBack(r)

DeleteRow(r) ==
  /\ pc[r] = "deleting"
  /\ ~RowLockedByOther(r)
  /\ \/ rows[Doc(r)] = Nothing /\ RolledBack(r)
     \/ /\ rows[Doc(r)] # Nothing
        /\ write' = [write EXCEPT ![r] = Deleted]
        /\ Goto(r, "written")
        /\ UNCHANGED <<database, session, snap, key>>

-----------------------------------------------------------------------------
(* The dispatcher's checks.                                                *)

\* Mutant: Locks.Lock without its LOCK_TIMEOUT waits for the lock.
BlockDocumentWaits(r) ==
  /\ pc[r] = "loaded" /\ req[r].kind \in Operating
  /\ ~KeyLockedByOther(r)
  /\ Goto(r, "locked")
  /\ UNCHANGED <<database, session, work>>

\* Locks.Lock: SELECT ... WITH (XLOCK) under LOCK_TIMEOUT 0 on the request's
\* other connection, which is in no transaction: the lock does not outlive the
\* statement, which fails only on a row another transaction has uncommitted.
BlockDocument(r) ==
  /\ pc[r] = "loaded" /\ req[r].kind \in Operating
  /\ IF KeyLockedByOther(r)
     THEN RolledBack(r)
     ELSE /\ Goto(r, "locked")
          /\ UNCHANGED <<database, session, work>>

\* CheckOriginalStatus looks at the loaded image, CheckNotBegined reads.
CheckBeginState(r) ==
  /\ pc[r] = "locked" /\ req[r].kind \in Starters
  /\ IF /\ \/ OriginalStatus[req[r].op] = {}
           \/ entity[r].now.status \in OriginalStatus[req[r].op]
        /\ started[Doc(r)] = Nothing
     THEN /\ Goto(r, "checked")
          /\ UNCHANGED <<database, session, work>>
     ELSE RolledBack(r)

\* Mutant: the right to finish is not checked.
AnyUser(user, so) == TRUE

\* Who may finish operation so: the user who began it, or an administrator.
Allowed(user, so) == user = so.user \/ user \in Admins

\* CheckCancelCompleteState; a Complete goes on to RunHandler, a Cancel to
\* RestoreDocument.
CheckCancelCompleteState(r) ==
  LET so == started[Doc(r)]
  IN  /\ pc[r] = "locked" /\ req[r].kind \in Enders
      /\ \/ /\ so = Nothing
            /\ RolledBack(r)
         \/ /\ so # Nothing
            /\ ~Allowed(req[r].user, so)
            /\ RolledBack(r)
         \/ /\ so # Nothing
            /\ Allowed(req[r].user, so)
            /\ req' = [req EXCEPT ![r].op = so.op]
            /\ seen' = [seen EXCEPT ![r] = so.id]
            /\ Goto(r, "checked")
            /\ UNCHANGED <<database, entity, ends, work>>

-----------------------------------------------------------------------------
(* The registries of begun operations.                                     *)

\* INSERT under LOCK_TIMEOUT 10: the unique index refuses a second row, and an
\* uncommitted row of another transaction makes it wait, at most 10 ms.
WriteStartedOperationBegin(r) ==
  /\ pc[r] = "checked" /\ req[r].kind \in Starters
  /\ \/ /\ KeyLockedByOther(r) \/ started[Doc(r)] # Nothing
        /\ RolledBack(r)
     \/ /\ ~KeyLockedByOther(r) /\ started[Doc(r)] = Nothing
        /\ key' = [key EXCEPT ![r] = TRUE]
        /\ Goto(r, "started")
        /\ UNCHANGED <<database, session, write, snap>>

\* SerializeToRegistry: INSERT ... VALUES ((SELECT ... FOR XML), ...) of the
\* row as the database has it now; Data is not nullable and the document unique.
SerializeToRegistry(r) ==
  /\ pc[r] = "started" /\ req[r].kind = "Begin"
  /\ \/ /\ Current(r) = Nothing \/ serialized[Doc(r)] # Nothing
        /\ RolledBack(r)
     \/ /\ Current(r) # Nothing /\ serialized[Doc(r)] = Nothing
        /\ snap' = [snap EXCEPT ![r] = Current(r)]
        /\ Goto(r, "serialized")
        /\ UNCHANGED <<database, session, write, key>>

-----------------------------------------------------------------------------
(* The handler: a method of the document class, free to change the entity. *)

\* Mutant: the final status is not checked.
AnyStatus(o) == Statuses

\* DoProcess: the status after the handler, as CheckFinalStatus leaves it.
FinalStatuses(o) == IF FinalStatus[o] = {} THEN Statuses ELSE FinalStatus[o]

\* StartOperation (Begin) or ProcessOperation and CheckFinalStatus (the rest).
RunHandler(r) ==
  /\ \/ req[r] # Nothing /\ req[r].kind = "Begin" /\ pc[r] = "serialized"
     \/ req[r] # Nothing /\ req[r].kind \in {"Execute", "Create"} /\ pc[r] = "started"
     \/ req[r] # Nothing /\ req[r].kind = "Complete" /\ pc[r] = "checked"
  /\ \E status \in IF req[r].kind = "Begin" THEN Statuses
                                            ELSE FinalStatuses(req[r].op),
        content \in {entity[r].now.content, r} :
       entity' = [entity EXCEPT ![r].now = [status |-> status, content |-> content]]
  /\ Goto(r, "handled")
  /\ UNCHANGED <<database, req, seen, ends, work>>

\* RestoreFromRegistry: UPDATE the document from the stored data.  Without
\* stored data or without the row it updates nothing and says nothing.
RestoreDocument(r) ==
  /\ pc[r] = "checked" /\ req[r].kind = "Cancel"
  /\ ~RowLockedByOther(r)
  /\ write' = [write EXCEPT ![r] =
       IF serialized[Doc(r)] = Nothing \/ rows[Doc(r)] = Nothing
       THEN Nothing ELSE serialized[Doc(r)].data]
  /\ Goto(r, "handled")
  /\ UNCHANGED <<database, session, snap, key>>

-----------------------------------------------------------------------------
(* WriteEndOperation and SaveChanges.                                      *)

\* WriteEndOperation queries both registry rows again and marks them for
\* removal; Single() and Remove(null) throw when there is none.
WriteEndOperation(r) ==
  LET d == Doc(r)
  IN  /\ pc[r] = "handled" /\ req[r].kind \in Enders
      /\ \/ /\ started[d] = Nothing \/ serialized[d] = Nothing
            /\ RolledBack(r)
         \/ /\ started[d] # Nothing /\ serialized[d] # Nothing
            /\ ends' = [ends EXCEPT ![r] =
                 [started |-> started[d].id, serialized |-> serialized[d].id]]
            /\ Goto(r, "ended")
            /\ UNCHANGED <<database, req, entity, seen, work>>

\* Mutant: the entry is marked Modified as a whole, as DoUpdateEntity does it.
AllColumns(image) == {"status", "content"}

\* The columns EF finds changed are written over the row as it is now.
Changed(image) == {c \in {"status", "content"} : image.now[c] # image.was[c]}
Overlay(image, row) ==
  [status  |-> IF "status" \in Changed(image) THEN image.now.status ELSE row.status,
   content |-> IF "content" \in Changed(image) THEN image.now.content ELSE row.content]

\* SaveChanges, the UPDATE of the document: none when nothing changed; it waits
\* for the row, and a row that is gone is an EF exception.
UpdateDocument(r) ==
  /\ \/ pc[r] = "handled" /\ req[r].kind \in Starters
     \/ pc[r] = "ended"
  /\ LET next == IF pc[r] = "ended" THEN "updated" ELSE "written"
     IN  \/ /\ Changed(entity[r]) = {}
            /\ Goto(r, next)
            /\ UNCHANGED <<database, session, work>>
         \/ /\ Changed(entity[r]) # {}
            /\ ~RowLockedByOther(r)
            /\ Current(r) = Nothing
            /\ RolledBack(r)
         \/ /\ Changed(entity[r]) # {}
            /\ ~RowLockedByOther(r)
            /\ Current(r) # Nothing
            /\ write' = [write EXCEPT ![r] = Overlay(entity[r], Current(r))]
            /\ Goto(r, next)
            /\ UNCHANGED <<database, session, snap, key>>

\* Mutant: the affected-rows count of the DELETEs is not looked at.
RowsUnchecked(r) == TRUE

\* The two registry rows WriteEndOperation marked are still there.
RegistryRowsPresent(r) ==
  LET d == Doc(r)
  IN  /\ started[d] # Nothing /\ started[d].id = ends[r].started
      /\ serialized[d] # Nothing /\ serialized[d].id = ends[r].serialized

\* SaveChanges, the DELETEs by id of the two registry rows: they wait for a row
\* another transaction is deleting; a row that is gone, even when a new one took
\* its place, makes an affected-rows count of zero, an EF exception.
DeleteRegistryRows(r) ==
  /\ pc[r] = "updated"
  /\ \/ /\ ~RegistryRowsPresent(r)
        /\ RolledBack(r)
     \/ /\ RegistryRowsPresent(r)
        /\ ~KeyLockedByOther(r)
        /\ key' = [key EXCEPT ![r] = TRUE]
        /\ Goto(r, "written")
        /\ UNCHANGED <<database, session, write, snap>>

-----------------------------------------------------------------------------
(* The end of the transaction.                                             *)

\* The ExecutedOperation row DoProcess added: the status before and after.
Execution(r) ==
  [op |-> req[r].op, original |-> entity[r].was.status, final |-> entity[r].now.status]

\* transaction.Complete and Dispose.  Deleting a document cascades to its
\* ExecutedOperation rows (CascadeDeleteForGenericLinks), not to the other two.
Commit(r) ==
  LET d == Doc(r)
      kind == req[r].kind
  IN  /\ pc[r] = "written"
      /\ rows' = [rows EXCEPT ![d] =
           IF write[r] = Nothing THEN @
           ELSE IF write[r] = Deleted THEN Nothing ELSE write[r]]
      /\ started' = [started EXCEPT ![d] =
           IF kind = "Begin" THEN [id |-> r, op |-> req[r].op, user |-> req[r].user]
           ELSE IF kind \in Enders THEN Nothing ELSE @]
      /\ serialized' = [serialized EXCEPT ![d] =
           IF kind = "Begin" THEN [id |-> r, data |-> snap[r]]
           ELSE IF kind \in Enders THEN Nothing ELSE @]
      /\ executed' = [executed EXCEPT ![d] =
           IF kind \in {"Execute", "Create", "Complete"} /\ req[r].op # Nothing
           THEN Append(@, Execution(r))
           ELSE IF kind = "Delete" THEN <<>> ELSE @]
      /\ EndRequest(r, "committed")

\* A control, the handler, a lost connection or the transaction timeout.
Abort(r) == Active(r) /\ RolledBack(r)

-----------------------------------------------------------------------------
Arrive(r) ==
  \/ \E kind \in Kinds, d \in Docs, u \in Users, o \in Operations \cup {Nothing} :
       Open(r, kind, d, u, o)
  \/ \E d \in Docs, u \in Users, row \in Row : Create(r, d, u, row)

\* What the server does for a request it has received, exceptions aside.
Serve(r) ==
  \/ UpdateEntity(r)
  \/ CheckDelete(r)
  \/ DeleteRow(r)
  \/ BlockDocument(r)
  \/ CheckBeginState(r)
  \/ CheckCancelCompleteState(r)
  \/ WriteStartedOperationBegin(r)
  \/ SerializeToRegistry(r)
  \/ RunHandler(r)
  \/ RestoreDocument(r)
  \/ WriteEndOperation(r)
  \/ UpdateDocument(r)
  \/ DeleteRegistryRows(r)
  \/ Commit(r)

Next == \E r \in Requests : Arrive(r) \/ Serve(r) \/ Abort(r)

Spec == Init /\ [][Next]_vars

\* Each request has a worker thread of its own, and the server grants a row to
\* the transactions that wait for it.  Nothing obliges a client to send.
Fairness == \A r \in Requests : WF_vars(Serve(r))
FairSpec == Spec /\ Fairness

-----------------------------------------------------------------------------
(* Properties.                                                             *)

\* The code calls an operation begun when its row is in reg.StartedOperation and
\* restores from reg.SerializedEntityItem: CompleteOperation and CancelOperation
\* of a document with one row and not the other throw for ever after.  The two
\* rows are inserted and deleted by different layers, on different connections.
StartedHasSnapshot ==
  \A d \in Docs :
    /\ started[d] = Nothing <=> serialized[d] = Nothing
    /\ started[d] # Nothing => serialized[d].id = started[d].id

\* A request between its INSERT into reg.StartedOperation and its commit.
InOperation(r) ==
  /\ req[r] # Nothing
  /\ req[r].kind \in Starters /\ req[r].op # Nothing
  /\ pc[r] \in {"started", "serialized", "handled", "written"}

\* "Check that no non-atomic operation is begun": no two handlers of operations
\* started now run on one document at once, and none runs while a non-atomic
\* operation is begun on it, although the check reads a snapshot and the lock
\* of Locks.Lock is not held.
OneOperationAtATime ==
  \A r \in Requests :
    InOperation(r) =>
      /\ started[Doc(r)] = Nothing
      /\ \A s \in Requests \ {r} : InOperation(s) => Doc(s) # Doc(r)

Committed(r) == pc[r] = "written" /\ pc'[r] = "committed"

\* While an operation is begun on a document nothing else is recorded as
\* executed on it: the registry of executed operations grows only in the step
\* that ends the begun one.
NothingExecutedWhileBegun ==
  [][\A d \in Docs :
       started[d] # Nothing /\ Len(executed'[d]) > Len(executed[d])
         => started'[d] = Nothing]_vars

\* A request that ends the operation it checked ends it as checked: the user
\* may do so, the record names that operation, and a Cancel leaves exactly the
\* stored document, whatever others saved or deleted in between.
EndsWhatItChecked ==
  [][\A r \in Requests :
       LET d == Doc(r)
       IN  Committed(r) /\ req[r].kind \in Enders
             => /\ started[d] # Nothing /\ started'[d] = Nothing
                /\ started[d].id = seen[r] =>
                     /\ req[r].user = started[d].user \/ req[r].user \in Admins
                     /\ req[r].op = started[d].op
                     /\ req[r].kind = "Cancel" /\ rows[d] # Nothing
                          => rows'[d] = serialized[d].data]_vars

\* An entry of the registry of executed operations never shows an atomic
\* operation leaving a status it may not start from, or entering one it may not
\* end in: its route, whatever the handler did to the status.
ExecutedFollowsRoute ==
  [][\A r \in Requests :
       LET e == Execution(r)
       IN  Committed(r) /\ req[r].kind \in {"Execute", "Create"} /\ req[r].op # Nothing
             => /\ OriginalStatus[e.op] = {} \/ e.original \in OriginalStatus[e.op]
                /\ FinalStatus[e.op] = {} \/ e.final \in FinalStatus[e.op]]_vars

\* FinalStatus of a record is read from the entity and SaveChanges writes only
\* the columns changed since the load: the row is left in the status the record
\* names, unless the operation has left the status alone - then, and only then,
\* it keeps the status another request has committed meanwhile.
StatusLeftAsRecorded ==
  [][\A r \in Requests :
       LET d == Doc(r)
           e == Execution(r)
       IN  Committed(r) /\ req[r].kind \in {"Execute", "Create", "Complete"}
             /\ req[r].op # Nothing /\ rows'[d] # Nothing
             => \/ rows'[d].status = e.final
                \/ /\ e.original = e.final
                   /\ rows[d] # Nothing /\ rows'[d].status = rows[d].status]_vars

\* Begin stores the document "as it was": where clients change documents by
\* operations alone, the stored data is the last committed version at the moment
\* the operation becomes begun, so a Cancel undoes that operation and no more.
SnapshotIsLastCommitted ==
  [][\A d \in Docs :
       started[d] = Nothing /\ started'[d] # Nothing
         => serialized'[d].data = rows[d]]_vars

\* Where clients change documents by operations alone, a document with a begun
\* operation changes only in the step that ends the operation.
FrozenWhileBegun ==
  [][\A d \in Docs :
       started[d] # Nothing /\ rows'[d] # rows[d] => started'[d] = Nothing]_vars

\* Every request is answered: the waits for rows never form a cycle.
EveryRequestEnds ==
  \A r \in Requests : Active(r) ~> pc[r] \in Finished

\* Seen from the committed database the statements of a request amount to one
\* atomic step of ToolLifecycle, however requests interleave, fail or roll back.
Lifecycle == INSTANCE ToolLifecycle
ImplementsLifecycle == Lifecycle!Spec

\* And where clients change documents by operations alone, to one step of its
\* exclusive contract: exact snapshots, and no change between Begin and end.
ImplementsExclusiveLifecycle == Lifecycle!ExclusiveSpec

-----------------------------------------------------------------------------
(* What comments and messages of the code say and the code does not ensure. *)

\* "The document has status S; the operation is not possible for this status":
\* at commit an atomic operation has run from a status on its route.
OperationStartsOnRoute ==
  [][\A r \in Requests :
       Committed(r) /\ req[r].kind = "Execute" /\ rows[Doc(r)] # Nothing
         => \/ OriginalStatus[req[r].op] = {}
            \/ rows[Doc(r)].status \in OriginalStatus[req[r].op]]_vars

\* "You cannot finish the operation, another user began it and you do not hold
\* the right of operations administrator".
OnlyAllowedUserEnds ==
  [][\A r \in Requests :
       Committed(r) /\ req[r].kind \in Enders
         => \/ req[r].user = started[Doc(r)].user
            \/ req[r].user \in Admins]_vars

\* "An operation is performed over the document; deletion is not possible".
NoDeleteDuringOperation ==
  \A d \in Docs : started[d] # Nothing => rows[d] # Nothing
=============================================================================
