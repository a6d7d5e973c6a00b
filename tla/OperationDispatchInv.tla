------------------------ MODULE OperationDispatchInv -------------------------
(***************************************************************************)
(* The inductive invariant of OperationDispatch: how far a request has     *)
(* come, which locks that implies, and what a lock implies about the       *)
(* committed database.  TLC checks it, OperationDispatchProofs proves it.  *)
(***************************************************************************)
EXTENDS OperationDispatch

Is(r, kinds) == req[r] # Nothing /\ req[r].kind \in kinds

\* A request is at a statement of its own kind and knows its operation by the
\* time it needs it.
Place(r) ==
  /\ pc[r] = "values" => req[r].kind \in {"Complete", "Save"}
  /\ pc[r] = "loaded" => req[r].kind # "Save"
  /\ pc[r] \in {"locked", "checked", "handled"} => req[r].kind \in Operating
  /\ pc[r] = "started" => req[r].kind \in Starters
  /\ pc[r] = "serialized" => req[r].kind = "Begin"
  /\ pc[r] \in {"ended", "updated"} => req[r].kind \in Enders
  /\ pc[r] = "deleting" => req[r].kind = "Delete"

Known(r) ==
  /\ req[r].kind \in {"Begin", "Execute"} => req[r].op # Nothing
  /\ req[r].kind = "Create" => req[r].op # Nothing \/ pc[r] = "written"
  /\ req[r].kind \in Enders => req[r].op # Nothing \/ pc[r] \in {"values", "loaded", "locked"}
  /\ req[r].kind = "Begin" /\ pc[r] \in {"serialized", "handled", "written"}
       => snap[r] # Nothing

\* A request that is over holds nothing.
Shape(r) ==
  /\ Active(r) <=> req[r] # Nothing
  /\ Active(r) <=> entity[r] # Nothing
  /\ Active(r) => Place(r) /\ Known(r)
  /\ ~Active(r) => write[r] = Nothing /\ ~key[r]

\* A request that holds the key of its document in reg.StartedOperation inserted
\* the row, when there was none, or is about to commit the deletion of the one
\* there is; and it holds it alone.
Holds(r) == InOperation(r) \/ (Is(r, Enders) /\ pc[r] = "written")

KeyHeld(r) ==
  /\ key[r] <=> Holds(r)
  /\ key[r] => (started[Doc(r)] = Nothing <=> req[r].kind \in Starters)
  /\ \A s \in Requests : key[r] /\ key[s] /\ Doc(s) = Doc(r) => s = r

\* A request that wrote the document row holds it alone, and the row is there
\* unless the request created it.
RowHeld(r) ==
  /\ write[r] # Nothing /\ req[r].kind # "Create" => rows[Doc(r)] # Nothing
  /\ \A s \in Requests :
       write[r] # Nothing /\ write[s] # Nothing /\ Doc(s) = Doc(r) => s = r
  /\ write[r] = Deleted => req[r].kind = "Delete"
  /\ Is(r, {"Delete"}) /\ pc[r] = "written" => write[r] = Deleted

\* Nobody else knows a document that is being created.
Created(r) ==
  Is(r, {"Create"}) =>
    /\ write[r] # Nothing /\ rows[Doc(r)] = Nothing /\ started[Doc(r)] = Nothing
    /\ \A s \in Requests : req[s] # Nothing /\ Doc(s) = Doc(r) => s = r

ShapeInv == \A r \in Requests : Shape(r)
KeyInv == \A r \in Requests : KeyHeld(r)
RowInv == \A r \in Requests : RowHeld(r)
NewInv == \A r \in Requests : Created(r)

DispatchInv ==
  TypeOK /\ ShapeInv /\ KeyInv /\ RowInv /\ NewInv /\ StartedHasSnapshot

\* Where clients do not save or delete documents beside the operations, the
\* image a Begin has stored is still the committed document.
ByOperationsAlone == Kinds \cap {"Save", "Delete"} = {}

Fresh(r) ==
  /\ ~Is(r, {"Save", "Delete"})
  /\ Is(r, {"Begin"}) =>
       /\ pc[r] # "written" => write[r] = Nothing
       /\ pc[r] \in {"serialized", "handled", "written"} => snap[r] = rows[Doc(r)]

SnapInv == \A r \in Requests : Fresh(r)

\* The entity an atomic operation leaves its handler with comes from a status
\* of its route, and goes to one.
Routed(r) ==
  LET op == req[r].op
  IN  Is(r, {"Execute", "Create"}) /\ op # Nothing =>
        /\ pc[r] \in {"loaded", "locked", "checked", "started"} => entity[r].now = entity[r].was
        /\ pc[r] \in {"checked", "started", "handled", "written"} =>
             OriginalStatus[op] = {} \/ entity[r].was.status \in OriginalStatus[op]
        /\ pc[r] \in {"handled", "written"} =>
             FinalStatus[op] = {} \/ entity[r].now.status \in FinalStatus[op]

\* The key of a registry row is not used again: who wrote the row has ended.
Past(tag) == tag = Initial \/ (tag \in Requests /\ pc[tag] = "committed")

\* While the operation a request checked is begun, it may still be ended by the
\* request, and the image the request restored is still the stored one.
EndsChecked(r) ==
  /\ Is(r, {"Cancel"}) => entity[r].now = entity[r].was
  /\ Is(r, Enders) /\ pc[r] \in {"checked", "handled", "ended", "updated", "written"} =>
       /\ Past(seen[r])
       /\ started[Doc(r)] # Nothing /\ started[Doc(r)].id = seen[r] =>
            /\ req[r].user = started[Doc(r)].user \/ req[r].user \in Admins
            /\ req[r].op = started[Doc(r)].op
            /\ req[r].kind = "Cancel" /\ pc[r] # "checked" /\ rows[Doc(r)] # Nothing
                 => write[r] = serialized[Doc(r)].data

\* The status a request leaves in the row is that of its entity, from the UPDATE
\* on, unless the entity kept the status it was loaded with: then it is that of
\* the row, which nobody else can write any more.
Leaves(r) ==
  Is(r, {"Execute", "Create", "Complete"}) =>
    /\ write[r] # Nothing /\ pc[r] \notin {"updated", "written"}
         => write[r].status = entity[r].was.status
    /\ pc[r] \in {"updated", "written"} /\ req[r].op # Nothing =>
         \/ write[r] # Nothing /\ write[r].status = entity[r].now.status
         \/ /\ entity[r].now.status = entity[r].was.status
            /\ write[r] # Nothing =>
                 rows[Doc(r)] # Nothing /\ write[r].status = rows[Doc(r)].status

RouteInv == \A r \in Requests : Routed(r)
StatusInv == \A r \in Requests : Leaves(r)

EndInv ==
  /\ \A d \in Docs : started[d] # Nothing => Past(started[d].id)
  /\ \A r \in Requests : EndsChecked(r)

\* What the checks of the dispatcher leave true until the commit.
CheckedInv == RouteInv /\ EndInv /\ StatusInv
=============================================================================
