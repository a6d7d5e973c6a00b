---------------------------- MODULE GroupRequests ----------------------------
(***************************************************************************)
(* A request over several documents: ToolsDataManager.ExecuteGroupOperation *)
(* (one transaction per document) and DataManager.UpdateEntries with        *)
(* EFDataManager.DoUpdateEntries (one transaction for all).  Both go on     *)
(* with the next document when a control refuses one, and name the refused  *)
(* ones in the exception they end with.  All documents of a request share   *)
(* one Entity Framework context: what a refused document left changed in it *)
(* is written by the next SaveChanges.                                     *)
(*                                                                         *)
(* Other requests show only in what they make fail here: locked, begun or  *)
(* deleted documents.  OperationDispatch models them.                      *)
(***************************************************************************)
EXTENDS Naturals, FiniteSets, Sequences

CONSTANTS
  Items,            \* documents of one entity
  Kinds,            \* "Execute" and "Update" requests
  Statuses,
  OriginalStatus,   \* EntityOperation.OriginalStatus of the operation executed
  FinalStatus,      \* EntityOperation.FinalStatus
  Unset,            \* IdFinalStatus = 0, no foreign key forbids it
  Nothing

ASSUME GroupAssumption ==
  /\ IsFiniteSet(Items)
  /\ Kinds \subseteq {"Execute", "Update"}
  /\ OriginalStatus \subseteq Statuses /\ FinalStatus \subseteq Statuses
  /\ Unset \notin Statuses

\* A document row: its status, and whether this request's change is in it.
Row == [status : Statuses, edited : BOOLEAN]
ExecutedRow == [original : Statuses, final : Statuses \cup {Unset}]

\* A tracked document with its current and database values, a tracked record.
Image == [now : Row, was : Row, modified : BOOLEAN]
Entry == [row : ExecutedRow, added : BOOLEAN]

ASSUME NothingAssumption == Nothing \notin Row \cup Items \cup Image \cup Entry

VARIABLES
  \* committed
  rows, executed,
  \* as the transaction of the request sees them; equal to them outside one
  txRows, txExecuted,
  \* the request
  kind,
  todo,        \* the documents not yet taken, in whatever order the client sent them
  item,        \* the document in hand
  pc,
  done,        \* Execute: the documents whose transaction completed;
               \* Update: those whose SaveChanges returned
  reported,    \* documents named in the exception the request ends with
  \* its Entity Framework context
  image,       \* tracked documents: current and database values
  entry,       \* tracked ExecutedOperation of a document
  begun        \* documents with a non-atomic operation begun by somebody

committed == <<rows, executed>>
transaction == <<txRows, txExecuted>>
context == <<image, entry>>
request == <<kind, begun>>
vars == <<committed, transaction, request, todo, item, pc, done, reported, context>>

-----------------------------------------------------------------------------
TypeOK ==
  /\ rows \in [Items -> Row \cup {Nothing}] /\ txRows \in [Items -> Row \cup {Nothing}]
  /\ executed \in [Items -> Seq(ExecutedRow)] /\ txExecuted \in [Items -> Seq(ExecutedRow)]
  /\ kind \in {"Execute", "Update"}
  /\ todo \in SUBSET Items /\ item \in Items \cup {Nothing}
  /\ pc \in {"next", "loaded", "running", "returned", "set", "saved", "answered", "thrown"}
  /\ done \in SUBSET Items /\ reported \in SUBSET Items
  /\ image \in [Items -> Image \cup {Nothing}]
  /\ entry \in [Items -> Entry \cup {Nothing}]
  /\ begun \in SUBSET Items

Init ==
  /\ rows \in [Items -> [status : Statuses, edited : {FALSE}] \cup {Nothing}]
  /\ executed = [i \in Items |-> <<>>]
  /\ txRows = rows /\ txExecuted = executed
  /\ kind \in Kinds
  /\ todo = Items /\ item = Nothing
  /\ pc = "next"
  /\ done = {} /\ reported = {}
  /\ image = [i \in Items |-> Nothing]
  /\ entry = [i \in Items |-> Nothing]
  /\ begun \in SUBSET {i \in Items : rows[i] # Nothing}

\* The rows of the tables once the context is saved: changed and Modified
\* documents, new records, and the final status of a record already inserted.
Pending(i) == image[i] # Nothing /\ (image[i].modified \/ image[i].now # image[i].was)

\* Mutant: the context keeps its changes when they are saved.
KeepsChanges == UNCHANGED context

AcceptChanges ==
  /\ image' = [i \in Items |->
       IF image[i] = Nothing THEN Nothing
       ELSE [now |-> image[i].now, was |-> image[i].now, modified |-> FALSE]]
  /\ entry' = [i \in Items |->
       IF entry[i] = Nothing THEN Nothing ELSE [row |-> entry[i].row, added |-> FALSE]]

SavedRows == [i \in Items |-> IF Pending(i) THEN image[i].now ELSE txRows[i]]
SavedExecuted ==
  [i \in Items |->
    IF entry[i] = Nothing THEN txExecuted[i]
    ELSE IF entry[i].added THEN Append(txExecuted[i], entry[i].row)
    ELSE IF txExecuted[i] = <<>> THEN <<>>
    ELSE [txExecuted[i] EXCEPT ![Len(txExecuted[i])] = entry[i].row]]

\* DbContext.SaveChanges of the whole context, inside the transaction.
SaveChanges ==
  /\ txRows' = SavedRows
  /\ txExecuted' = SavedExecuted
  /\ AcceptChanges

\* The transaction in hand is completed, or disposed without Complete.
Commit == rows' = txRows' /\ executed' = txExecuted'

\* Mutant: the transaction of a refused document is completed too.
CompletesAnyway == rows' = txRows /\ executed' = txExecuted /\ UNCHANGED transaction

Rollback == txRows' = rows /\ txExecuted' = executed /\ UNCHANGED committed

\* An exception nothing in the loop catches ends the request.
Throw ==
  /\ pc' = "thrown"
  /\ Rollback
  /\ UNCHANGED <<request, todo, item, done, reported, context>>

\* A caught one: the document is named, the next one is taken.
Refused ==
  /\ reported' = reported \cup {item}
  /\ item' = Nothing
  /\ pc' = "next"
  /\ UNCHANGED <<request, todo, done>>

-----------------------------------------------------------------------------
(* Both requests take the next document.                                   *)

\* LoadBusinessEntity: First() throws when there is no row, outside the try.
Load ==
  /\ pc = "next"
  /\ \E i \in todo :
       \/ txRows[i] = Nothing /\ Throw
       \/ /\ txRows[i] # Nothing
          /\ item' = i
          /\ todo' = todo \ {i}
          /\ image' = [image EXCEPT ![i] =
               [now |-> txRows[i], was |-> txRows[i], modified |-> FALSE]]
          /\ pc' = "loaded"
          /\ UNCHANGED <<committed, transaction, request, done, reported, entry>>

-----------------------------------------------------------------------------
(* ExecuteGroupOperation: DoExecuteOperation of one document.              *)

\* BlockDocument and the INSERT of the StartedOperation row: a LockEntityException
\* is a PlatformException and no ToolStateException.
Locked == pc = "loaded" /\ kind = "Execute" /\ Throw

\* CheckBeginState throws a ToolStatusException or a ToolStateException, both
\* caught; else DoProcess adds the record of the execution and runs the handler.
CheckBeginState ==
  /\ pc = "loaded" /\ kind = "Execute"
  /\ IF /\ OriginalStatus = {} \/ image[item].now.status \in OriginalStatus
        /\ item \notin begun
     THEN /\ entry' = [entry EXCEPT ![item] =
               [row |-> [original |-> image[item].now.status, final |-> Unset],
                added |-> TRUE]]
          /\ pc' = "running"
          /\ UNCHANGED <<committed, transaction, request, todo, item, done, reported, image>>
     ELSE /\ Refused /\ Rollback
          /\ UNCHANGED context

\* The handler changes the document and may save the context as often as it
\* likes; the business documents do both.
HandlerChanges ==
  /\ pc = "running"
  /\ \E status \in Statuses :
       image' = [image EXCEPT ![item].now = [status |-> status, edited |-> TRUE]]
  /\ UNCHANGED <<committed, transaction, request, todo, item, pc, done, reported, entry>>

HandlerSaves ==
  /\ pc = "running"
  /\ SaveChanges
  /\ UNCHANGED <<committed, request, todo, item, pc, done, reported>>

\* A control of the handler refuses, or the handler fails otherwise.
HandlerRefuses ==
  /\ pc = "running"
  /\ Refused /\ Rollback
  /\ UNCHANGED context

HandlerFails == pc = "running" /\ Throw

\* Mutant: a final status that is not unique is not looked at.
AnyFinal(status) == TRUE

\* CheckFinalStatus: the only final status is assigned, one of several checked.
MayEndIn(status) == FinalStatus = {} \/ Cardinality(FinalStatus) = 1 \/ status \in FinalStatus
EndStatus(status) ==
  IF Cardinality(FinalStatus) = 1 THEN CHOOSE s \in FinalStatus : TRUE ELSE status

HandlerReturns ==
  /\ pc = "running"
  /\ LET status == image[item].now.status
     IN  IF MayEndIn(status)
         THEN /\ image' = [image EXCEPT ![item].now.status = EndStatus(status)]
              /\ entry' = [entry EXCEPT ![item].row.final = EndStatus(status)]
              /\ pc' = "returned"
              /\ UNCHANGED <<committed, transaction, request, todo, item, done, reported>>
         ELSE /\ Refused /\ Rollback
              /\ UNCHANGED context

\* SaveChanges, transaction.Complete and Dispose.
CompleteItem ==
  /\ pc = "returned"
  /\ SaveChanges /\ Commit
  /\ done' = done \cup {item}
  /\ item' = Nothing
  /\ pc' = "next"
  /\ UNCHANGED <<request, todo, reported>>

-----------------------------------------------------------------------------
(* UpdateEntries: DoUpdateEntity of one document.                          *)

\* The client's values go into the entity and its entry becomes Modified.
SetValues ==
  /\ pc = "loaded" /\ kind = "Update"
  /\ \E status \in Statuses :
       image' = [image EXCEPT ![item] =
         [now |-> [status |-> status, edited |-> TRUE], was |-> @.was, modified |-> TRUE]]
  /\ pc' = "set"
  /\ UNCHANGED <<committed, transaction, request, todo, item, done, reported, entry>>

\* SaveChanges with the controls of this document alone: one that runs before
\* the save refuses ...
RefusedBefore ==
  /\ pc = "set"
  /\ Refused
  /\ UNCHANGED <<committed, transaction, context>>

SaveEntity ==
  /\ pc = "set"
  /\ SaveChanges
  /\ pc' = "saved"
  /\ UNCHANGED <<committed, request, todo, item, done, reported>>

\* ... or one that runs after it.
RefusedAfter ==
  /\ pc = "saved"
  /\ Refused
  /\ UNCHANGED <<committed, transaction, context>>

Accepted ==
  /\ pc = "saved"
  /\ done' = done \cup {item}
  /\ item' = Nothing
  /\ pc' = "next"
  /\ UNCHANGED <<committed, transaction, request, todo, reported, context>>

\* Any other exception.
UpdateFails == pc \in {"set", "saved"} /\ Throw

-----------------------------------------------------------------------------
\* Mutant: the exception that names the refused documents leaves it uncompleted.
CompletesUnlessRefused == IF reported = {} THEN Commit ELSE UNCHANGED committed

\* UpdateEntries completes its transaction also when some were refused.
CompleteAll == Commit

\* The request ends: with the exception that names the refused documents, if any.
Answer ==
  /\ pc = "next" /\ todo = {}
  /\ UNCHANGED transaction
  /\ IF kind = "Update" THEN CompleteAll ELSE UNCHANGED committed
  /\ pc' = "answered"
  /\ UNCHANGED <<request, todo, item, done, reported, context>>

Next ==
  \/ Load
  \/ Locked \/ CheckBeginState
  \/ HandlerChanges \/ HandlerSaves \/ HandlerRefuses \/ HandlerFails \/ HandlerReturns
  \/ CompleteItem
  \/ SetValues \/ RefusedBefore \/ SaveEntity \/ RefusedAfter \/ Accepted \/ UpdateFails
  \/ Answer

Spec == Init /\ [][Next]_vars

-----------------------------------------------------------------------------
(* Properties.                                                             *)

\* A document whose execution completed has one record of it, from a status on
\* the operation's route to the status it is in, and keeps both whatever becomes
\* of the documents after it, although they share its context.
CompletedAsRecorded ==
  \A i \in done : kind = "Execute" =>
    /\ Len(executed[i]) = 1
    /\ OriginalStatus = {} \/ executed[i][1].original \in OriginalStatus
    /\ executed[i][1].final = rows[i].status
    /\ FinalStatus = {} \/ rows[i].status \in FinalStatus

\* No execution is recorded twice, also not one that was refused after its record
\* was saved, rolled back with its transaction or left to a later SaveChanges.
NeverRecordedTwice == \A i \in Items : Len(executed[i]) <= 1

\* The database changes with the completion of a document (Execute) or of the
\* request (Update) and with nothing else: a refusal or an exception, at whatever
\* point, leaves it as it was.
OnlyCompletionChanges ==
  [][committed' # committed =>
       IF kind = "Execute" THEN done' # done ELSE pc' = "answered"]_vars

\* A request that ends without an exception of its own has either carried out or
\* named every document, and the values it accepted are in the database.
EveryDocumentAnswered ==
  pc = "answered" =>
    /\ done \cup reported = Items /\ done \cap reported = {}
    /\ kind = "Update" => \A i \in done : rows[i].edited

\* "The operation is not completed for the following items" and "the change of
\* the following records does not satisfy the controls": those are unchanged.
RefusedUnchanged ==
  pc = "answered" => \A i \in reported : ~rows[i].edited /\ executed[i] = <<>>
=============================================================================
