----------------------- MODULE OperationDispatchProofs -----------------------
(***************************************************************************)
(* Proofs about OperationDispatch for any documents, requests, users and   *)
(* operations: DispatchInv is inductive, and the properties that follow.   *)
(***************************************************************************)
EXTENDS OperationDispatchInv, TLAPS

USE SentinelsAssumption

-----------------------------------------------------------------------------
(* A request that advances over its own statements.                        *)

\* A step of r leaves the sessions and the locks of the other requests alone.
OnlyMoves(r) ==
  \A s \in Requests \ {r} :
    /\ pc'[s] = pc[s] /\ req'[s] = req[s] /\ entity'[s] = entity[s]
    /\ write'[s] = write[s] /\ snap'[s] = snap[s] /\ key'[s] = key[s]

\* r still serves the same client request.
SameRequest(r) ==
  /\ req[r] # Nothing /\ req'[r] # Nothing
  /\ req'[r].doc = req[r].doc /\ req'[r].kind = req[r].kind

\* r takes the key of its document only when no other request has it, to insert
\* a row that is not there or to delete one that is.
TakesKey(r) ==
  /\ key'[r] <=> Holds(r)'
  /\ key'[r] => \/ key[r]
                \/ /\ ~KeyLockedByOther(r)
                   /\ (started[Doc(r)] = Nothing <=> req[r].kind \in Starters)

\* r writes the document row only when no other request has, and it is there.
TakesRow(r) ==
  /\ \/ write'[r] = write[r]
     \/ write'[r] = Nothing /\ req[r].kind # "Create"
     \/ /\ ~RowLockedByOther(r)
        /\ write'[r] # Nothing
        /\ rows[Doc(r)] # Nothing \/ req[r].kind = "Create"
        /\ write'[r] = Deleted => req[r].kind = "Delete"
  /\ req[r].kind = "Delete" /\ pc'[r] = "written" => write'[r] = Deleted

LEMMA Advance ==
  ASSUME DispatchInv, NEW r \in Requests, OnlyMoves(r), SameRequest(r),
         UNCHANGED database, Shape(r)', TakesKey(r), TakesRow(r)
  PROVE  ShapeInv' /\ KeyInv' /\ RowInv' /\ NewInv' /\ StartedHasSnapshot'
<1> USE DEF DispatchInv, database
<1>1. ShapeInv'
  <2> SUFFICES ASSUME NEW s \in Requests PROVE Shape(s)'
    BY DEF ShapeInv
  <2>1. CASE s = r
    BY <2>1
  <2>2. CASE s # r
    BY <2>2 DEF OnlyMoves, ShapeInv, Shape, Place, Known, Active
  <2> QED
    BY <2>1, <2>2
<1>2. \A s \in Requests : key[s] \/ write[s] # Nothing => req[s] # Nothing
  BY DEF ShapeInv, Shape
<1>3. KeyInv'
  <2> SUFFICES ASSUME NEW s \in Requests PROVE KeyHeld(s)'
    BY DEF KeyInv
  <2>1. CASE s = r
    BY <1>2, <2>1 DEF OnlyMoves, SameRequest, TakesKey, KeyLockedByOther, KeyInv,
                      KeyHeld, Doc
  <2>2. CASE s # r
    BY <1>2, <2>2 DEF OnlyMoves, SameRequest, TakesKey, KeyLockedByOther, KeyInv,
                      KeyHeld, Holds, InOperation, Is, Doc
  <2> QED
    BY <2>1, <2>2
<1>4. RowInv'
  <2> SUFFICES ASSUME NEW s \in Requests PROVE RowHeld(s)'
    BY DEF RowInv
  <2>1. CASE s = r
    BY <1>2, <2>1 DEF OnlyMoves, SameRequest, TakesRow, RowLockedByOther, RowInv,
                      RowHeld, Is, Doc
  <2>2. CASE s # r
    BY <1>2, <2>2 DEF OnlyMoves, SameRequest, TakesRow, RowLockedByOther, RowInv,
                      RowHeld, Is, Doc
  <2> QED
    BY <2>1, <2>2
<1>5. NewInv'
  BY DEF OnlyMoves, SameRequest, TakesRow, NewInv, Created, Is, Doc
<1>6. StartedHasSnapshot'
  BY DEF StartedHasSnapshot
<1> QED
  BY <1>1, <1>3, <1>4, <1>5, <1>6

-----------------------------------------------------------------------------
(* One lemma per action: the action preserves DispatchInv.                 *)

\* A request that is over, whatever its outcome, holds nothing.
LEMMA RolledBackStep ==
  ASSUME DispatchInv, NEW r \in Requests, RolledBack(r)
  PROVE  DispatchInv'
<1> USE DEF DispatchInv, RolledBack, EndRequest, Goto, database
<1>1. TypeOK'
  BY DEF TypeOK
<1>2. ShapeInv'
  BY DEF TypeOK, ShapeInv, Shape, Place, Known, Active, Finished
<1>3. KeyInv'
  BY DEF TypeOK, ShapeInv, Shape, KeyInv, KeyHeld, Holds, Active, Finished, Is, InOperation, Doc
<1>4. RowInv'
  BY DEF TypeOK, ShapeInv, Shape, RowInv, RowHeld, Active, Finished, Is, Doc
<1>5. NewInv'
  BY DEF TypeOK, ShapeInv, Shape, NewInv, Created, Active, Finished, Is, Doc
<1>6. StartedHasSnapshot'
  BY DEF StartedHasSnapshot
<1> QED
  BY <1>1, <1>2, <1>3, <1>4, <1>5, <1>6

LEMMA OpenStep ==
  ASSUME DispatchInv, NEW r \in Requests, NEW kind \in Kinds, NEW d \in Docs,
         NEW u \in Users, NEW o \in Operations \cup {Nothing},
         Open(r, kind, d, u, o)
  PROVE  DispatchInv'
<1>1. CASE RolledBack(r)
  BY <1>1, RolledBackStep
<1>2. CASE ~RolledBack(r)
  <2> USE DEF DispatchInv
  <2> DEFINE new == [kind |-> kind, doc |-> d, user |-> u, op |-> o]
  <2>1. PICK label \in {"loaded", "values"} :
          /\ pc' = [pc EXCEPT ![r] = label]
          /\ label = "loaded" => kind # "Save"
          /\ label = "values" => kind \in {"Save", "Complete"}
    BY <1>2 DEF Open, Goto
  <2>2. /\ pc[r] = "idle" /\ rows[d] # Nothing
        /\ kind \in {"Begin", "Complete", "Cancel", "Execute", "Save", "Delete"}
        /\ o # Nothing <=> kind \in {"Begin", "Execute"}
        /\ req' = [req EXCEPT ![r] = new]
        /\ entity' = [entity EXCEPT ![r] = [now |-> rows[d], was |-> rows[d]]]
        /\ UNCHANGED <<database, seen, ends, work>>
    BY <1>2, ConstantsAssumption DEF Open
  <2> USE DEF database, work
  <2>3. write[r] = Nothing /\ ~key[r] /\ req[r] = Nothing
    BY <2>2 DEF ShapeInv, Shape, Active, Finished
  <2>10. new \in Request /\ [now |-> rows[d], was |-> rows[d]] \in Image
    BY <2>2 DEF Request, Image, TypeOK
  <2>4. TypeOK'
    BY <2>1, <2>2, <2>10 DEF TypeOK
  <2>5. ShapeInv'
    <3> SUFFICES ASSUME NEW s \in Requests PROVE Shape(s)'
      BY DEF ShapeInv
    <3>1. CASE s = r
      <4>1. pc'[r] = label /\ req'[r] = new
        BY <2>1, <2>2 DEF TypeOK
      <4>2. req'[r] # Nothing /\ entity'[r] # Nothing
        BY <2>2, <2>10, <4>1 DEF TypeOK
      <4>3. Active(r)' /\ Place(r)' /\ Known(r)'
        BY <2>1, <2>2, <4>1 DEF Active, Finished, Place, Known, Operating, Starters, Enders
      <4> QED
        BY <3>1, <4>2, <4>3 DEF Shape
    <3>2. CASE s # r
      BY <2>1, <2>2, <3>2 DEF TypeOK, ShapeInv, Shape, Place, Known, Active
    <3> QED
      BY <3>1, <3>2
  <2>6. KeyInv'
    BY <2>1, <2>2, <2>3 DEF TypeOK, KeyInv, KeyHeld, Holds, Is, InOperation, Doc
  <2>7. RowInv'
    BY <2>1, <2>2, <2>3 DEF TypeOK, RowInv, RowHeld, Is, Doc
  <2>8. NewInv'
    BY <2>1, <2>2, <2>3 DEF TypeOK, NewInv, Created, Is, Doc
  <2>9. StartedHasSnapshot'
    BY <2>2 DEF StartedHasSnapshot
  <2> QED
    BY <2>4, <2>5, <2>6, <2>7, <2>8, <2>9
<1> QED
  BY <1>1, <1>2

LEMMA CreateStep ==
  ASSUME DispatchInv, NEW r \in Requests, NEW d \in Docs, NEW u \in Users,
         NEW row \in Row, Create(r, d, u, row)
  PROVE  DispatchInv'
<1> USE DEF DispatchInv, database
<1> DEFINE new == [kind |-> "Create", doc |-> d, user |-> u, op |-> CreateOperation]
           image == [now |-> row, was |-> row]
<1>1. PICK label \in {"written", "loaded"} :
        /\ pc' = [pc EXCEPT ![r] = label]
        /\ label = "written" <=> CreateOperation = Nothing
  BY DEF Create, Goto
<1>2. /\ pc[r] = "idle" /\ rows[d] = Nothing /\ started[d] = Nothing
      /\ \A s \in Requests : req[s] # Nothing => Doc(s) # d
      /\ req' = [req EXCEPT ![r] = new]
      /\ entity' = [entity EXCEPT ![r] = image]
      /\ write' = [write EXCEPT ![r] = row]
      /\ UNCHANGED <<database, seen, ends, snap, key>>
  BY DEF Create
<1>3. new \in Request /\ image \in Image
  BY ConstantsAssumption DEF Request, Image
<1>4. TypeOK'
  BY <1>1, <1>2, <1>3 DEF TypeOK
<1>5. /\ pc'[r] = label /\ req'[r] = new /\ req'[r] # Nothing /\ entity'[r] # Nothing
      /\ write'[r] = row /\ row \notin {Nothing, Deleted}
  BY <1>1, <1>2, <1>3 DEF TypeOK
<1>6. ~key[r] /\ req[r] = Nothing
  BY <1>2 DEF ShapeInv, Shape, Active, Finished
<1>7. OnlyMoves(r)
  BY <1>1, <1>2 DEF TypeOK, OnlyMoves
<1>8. ShapeInv'
  <2> SUFFICES ASSUME NEW s \in Requests PROVE Shape(s)'
    BY DEF ShapeInv
  <2>1. CASE s = r
    BY <1>1, <1>5, <2>1 DEF Shape, Place, Known, Active, Finished, Starters, Enders
  <2>2. CASE s # r
    BY <1>7, <2>2 DEF OnlyMoves, ShapeInv, Shape, Place, Known, Active
  <2> QED
    BY <2>1, <2>2
<1>9. \A s \in Requests : key[s] \/ write[s] # Nothing => req[s] # Nothing
  BY DEF ShapeInv, Shape
<1>10. KeyInv'
  <2> SUFFICES ASSUME NEW s \in Requests PROVE KeyHeld(s)'
    BY DEF KeyInv
  <2>1. CASE s = r
    BY <1>1, <1>2, <1>5, <1>6, <2>1 DEF KeyHeld, Holds, InOperation, Is, Enders
  <2>2. CASE s # r
    BY <1>2, <1>6, <1>7, <2>2 DEF OnlyMoves, KeyInv, KeyHeld, Holds, InOperation, Is, Doc
  <2> QED
    BY <2>1, <2>2
<1>11. RowInv'
  <2> SUFFICES ASSUME NEW s \in Requests PROVE RowHeld(s)'
    BY DEF RowInv
  <2>1. CASE s = r
    BY <1>2, <1>5, <1>7, <1>9, <2>1 DEF OnlyMoves, RowHeld, Is, Doc
  <2>2. CASE s # r
    BY <1>2, <1>5, <1>7, <1>9, <2>2 DEF OnlyMoves, RowInv, RowHeld, Is, Doc
  <2> QED
    BY <2>1, <2>2
<1>12. NewInv'
  BY <1>2, <1>5, <1>7 DEF OnlyMoves, NewInv, Created, Is, Doc
<1>13. StartedHasSnapshot'
  BY <1>2 DEF StartedHasSnapshot
<1> QED
  BY <1>4, <1>8, <1>10, <1>11, <1>12, <1>13

LEMMA UpdateEntityStep ==
  ASSUME DispatchInv, NEW r \in Requests, UpdateEntity(r)
  PROVE  DispatchInv'
<1>1. CASE RolledBack(r)
  BY <1>1, RolledBackStep
<1>2. CASE ~RolledBack(r)
  <2> USE DEF DispatchInv, database
  <2>1. PICK row \in [status : Statuses, content : {r}] :
          /\ write' = [write EXCEPT ![r] = row]
          /\ entity' = [entity EXCEPT ![r] = [now |-> row, was |-> row]]
    BY <1>2 DEF UpdateEntity
  <2>2. PICK label \in {"written", "loaded"} :
          /\ pc' = [pc EXCEPT ![r] = label]
          /\ label = "written" <=> req[r].kind = "Save"
    BY <1>2 DEF UpdateEntity, Goto
  <2>3. /\ pc[r] = "values" /\ ~RowLockedByOther(r) /\ rows[Doc(r)] # Nothing
        /\ UNCHANGED <<database, req, seen, ends, snap, key>>
    BY <1>2 DEF UpdateEntity
  <2>4. row \in Row /\ [now |-> row, was |-> row] \in Image
    BY DEF Row, Image, Tags
  <2>5. TypeOK'
    BY <2>1, <2>2, <2>3, <2>4 DEF TypeOK
  <2>6. req[r] # Nothing /\ req[r].kind \in {"Complete", "Save"}
    BY <2>3 DEF ShapeInv, Shape, Place, Active, Finished
  <2>7. OnlyMoves(r) /\ SameRequest(r) /\ UNCHANGED database
    BY <2>1, <2>2, <2>3, <2>6 DEF TypeOK, OnlyMoves, SameRequest
  <2>8. /\ pc'[r] = label /\ write'[r] = row /\ row \notin {Nothing, Deleted}
        /\ entity'[r] # Nothing
    BY <2>1, <2>2, <2>4 DEF TypeOK
  <2>9. Shape(r)'
    BY <2>2, <2>3, <2>6, <2>8 DEF Shape, Place, Known, Active, Finished, Operating,
                                  Starters, Enders
  <2>10. TakesKey(r)
    BY <2>2, <2>3, <2>6, <2>8 DEF TakesKey, KeyInv, KeyHeld, Holds, InOperation, Is,
                                  Starters, Enders
  <2>11. TakesRow(r)
    BY <2>3, <2>6, <2>8 DEF TakesRow
  <2> QED
    BY <2>5, <2>7, <2>9, <2>10, <2>11, Advance
<1> QED
  BY <1>1, <1>2

LEMMA CheckDeleteStep ==
  ASSUME DispatchInv, NEW r \in Requests, CheckDelete(r)
  PROVE  DispatchInv'
<1>1. CASE RolledBack(r)
  BY <1>1, RolledBackStep
<1>2. CASE ~RolledBack(r)
  <2> USE <1>2 DEF DispatchInv, CheckDelete, Goto, database, session, work
  <2>1. TypeOK'
    BY DEF TypeOK
  <2>2. OnlyMoves(r) /\ SameRequest(r) /\ UNCHANGED database
    BY DEF TypeOK, OnlyMoves, SameRequest, ShapeInv, Shape, Active, Finished
  <2>3. Shape(r)'
    BY DEF TypeOK, ShapeInv, Shape, Place, Known, Active, Finished, Operating, Starters, Enders
  <2>4. TakesKey(r)
    BY DEF TypeOK, TakesKey, KeyInv, KeyHeld, Holds, InOperation, Is, ShapeInv, Shape, Place, Known, Active, Finished,
           Operating, Starters, Enders
  <2>5. TakesRow(r)
    BY DEF TypeOK, TakesRow, ShapeInv, Shape, Place, Known, Active, Finished, Operating, Starters, Enders, RowInv, RowHeld
  <2> QED
    BY <2>1, <2>2, <2>3, <2>4, <2>5, Advance
<1> QED
  BY <1>1, <1>2

LEMMA DeleteRowStep ==
  ASSUME DispatchInv, NEW r \in Requests, DeleteRow(r)
  PROVE  DispatchInv'
<1>1. CASE RolledBack(r)
  BY <1>1, RolledBackStep
<1>2. CASE ~RolledBack(r)
  <2> USE <1>2 DEF DispatchInv, DeleteRow, Goto, database, session, work
  <2>1. TypeOK'
    BY DEF TypeOK
  <2>2. OnlyMoves(r) /\ SameRequest(r) /\ UNCHANGED database
    BY DEF TypeOK, OnlyMoves, SameRequest, ShapeInv, Shape, Active, Finished
  <2>3. Shape(r)'
    BY DEF TypeOK, ShapeInv, Shape, Place, Known, Active, Finished, Operating, Starters, Enders
  <2>4. TakesKey(r)
    BY DEF TypeOK, TakesKey, KeyInv, KeyHeld, Holds, InOperation, Is, ShapeInv, Shape, Place, Known, Active, Finished,
           Operating, Starters, Enders
  <2>5. TakesRow(r)
    BY DEF TypeOK, TakesRow, ShapeInv, Shape, Place, Known, Active, Finished, Operating, Starters, Enders, RowInv, RowHeld
  <2> QED
    BY <2>1, <2>2, <2>3, <2>4, <2>5, Advance
<1> QED
  BY <1>1, <1>2

LEMMA BlockDocumentStep ==
  ASSUME DispatchInv, NEW r \in Requests, BlockDocument(r)
  PROVE  DispatchInv'
<1>1. CASE RolledBack(r)
  BY <1>1, RolledBackStep
<1>2. CASE ~RolledBack(r)
  <2> USE <1>2 DEF DispatchInv, BlockDocument, Goto, database, session, work
  <2>1. TypeOK'
    BY DEF TypeOK
  <2>2. OnlyMoves(r) /\ SameRequest(r) /\ UNCHANGED database
    BY DEF TypeOK, OnlyMoves, SameRequest, ShapeInv, Shape, Active, Finished
  <2>3. Shape(r)'
    BY DEF TypeOK, ShapeInv, Shape, Place, Known, Active, Finished, Operating, Starters, Enders
  <2>4. TakesKey(r)
    BY DEF TypeOK, TakesKey, KeyInv, KeyHeld, Holds, InOperation, Is, ShapeInv, Shape, Place, Known, Active, Finished,
           Operating, Starters, Enders
  <2>5. TakesRow(r)
    BY DEF TypeOK, TakesRow, ShapeInv, Shape, Place, Known, Active, Finished, Operating, Starters, Enders, RowInv, RowHeld
  <2> QED
    BY <2>1, <2>2, <2>3, <2>4, <2>5, Advance
<1> QED
  BY <1>1, <1>2

LEMMA CheckBeginStateStep ==
  ASSUME DispatchInv, NEW r \in Requests, CheckBeginState(r)
  PROVE  DispatchInv'
<1>1. CASE RolledBack(r)
  BY <1>1, RolledBackStep
<1>2. CASE ~RolledBack(r)
  <2> USE <1>2 DEF DispatchInv, CheckBeginState, Goto, database, session, work
  <2>1. TypeOK'
    BY DEF TypeOK
  <2>2. OnlyMoves(r) /\ SameRequest(r) /\ UNCHANGED database
    BY DEF TypeOK, OnlyMoves, SameRequest, ShapeInv, Shape, Active, Finished
  <2>3. Shape(r)'
    BY DEF TypeOK, ShapeInv, Shape, Place, Known, Active, Finished, Operating, Starters, Enders
  <2>4. TakesKey(r)
    BY DEF TypeOK, TakesKey, KeyInv, KeyHeld, Holds, InOperation, Is, ShapeInv, Shape, Place, Known, Active, Finished,
           Operating, Starters, Enders
  <2>5. TakesRow(r)
    BY DEF TypeOK, TakesRow, ShapeInv, Shape, Place, Known, Active, Finished, Operating, Starters, Enders, RowInv, RowHeld
  <2> QED
    BY <2>1, <2>2, <2>3, <2>4, <2>5, Advance
<1> QED
  BY <1>1, <1>2

LEMMA CheckCancelCompleteStateStep ==
  ASSUME DispatchInv, NEW r \in Requests, CheckCancelCompleteState(r)
  PROVE  DispatchInv'
<1>1. CASE RolledBack(r)
  BY <1>1, RolledBackStep
<1>2. CASE ~RolledBack(r)
  <2> USE DEF DispatchInv, database
  <2> DEFINE so == started[Doc(r)]
  <2>1. /\ pc[r] = "locked" /\ req[r].kind \in Enders /\ so # Nothing
        /\ req' = [req EXCEPT ![r].op = so.op]
        /\ seen' = [seen EXCEPT ![r] = so.id]
        /\ pc' = [pc EXCEPT ![r] = "checked"]
        /\ UNCHANGED <<database, entity, ends, work>>
    BY <1>2 DEF CheckCancelCompleteState, Goto
  <2> USE DEF work
  <2>2. req[r] \in Request /\ entity[r] # Nothing
    BY <2>1 DEF TypeOK, ShapeInv, Shape, Active, Finished
  <2>3. so.op \in Operations /\ so.id \in Tags
    BY <2>1, <2>2 DEF TypeOK, Request, StartedRow, Doc
  <2>4. /\ req'[r] = [req[r] EXCEPT !.op = so.op] /\ req'[r] \in Request
        /\ req'[r].op # Nothing /\ pc'[r] = "checked"
    BY <2>1, <2>2, <2>3 DEF TypeOK, Request
  <2>5. TypeOK'
    BY <2>1, <2>3, <2>4 DEF TypeOK
  <2>6. req'[r].kind = req[r].kind /\ req'[r].doc = req[r].doc
    BY <2>2, <2>4 DEF Request
  <2>7. OnlyMoves(r) /\ SameRequest(r) /\ UNCHANGED database
    BY <2>1, <2>2, <2>4, <2>6 DEF TypeOK, OnlyMoves, SameRequest
  <2>8. Shape(r)'
    BY <2>1, <2>2, <2>4, <2>6 DEF Shape, Place, Known, Active, Finished, Operating,
                                  Starters, Enders
  <2>9. TakesKey(r)
    BY <2>1, <2>2, <2>4, <2>6 DEF TakesKey, KeyInv, KeyHeld, Holds, InOperation, Is,
                                  Starters, Enders
  <2>10. TakesRow(r)
    BY <2>1, <2>4 DEF TakesRow, Enders
  <2> QED
    BY <2>5, <2>7, <2>8, <2>9, <2>10, Advance
<1> QED
  BY <1>1, <1>2

LEMMA WriteStartedOperationBeginStep ==
  ASSUME DispatchInv, NEW r \in Requests, WriteStartedOperationBegin(r)
  PROVE  DispatchInv'
<1>1. CASE RolledBack(r)
  BY <1>1, RolledBackStep
<1>2. CASE ~RolledBack(r)
  <2> USE DEF DispatchInv, database
  <2>1. /\ pc[r] = "checked" /\ req[r].kind \in Starters
        /\ ~KeyLockedByOther(r) /\ started[Doc(r)] = Nothing
        /\ key' = [key EXCEPT ![r] = TRUE]
        /\ pc' = [pc EXCEPT ![r] = "started"]
        /\ UNCHANGED <<database, session, write, snap>>
    BY <1>2 DEF WriteStartedOperationBegin, Goto
  <2> USE DEF session
  <2>2. req[r] # Nothing /\ Known(r)
    BY <2>1 DEF ShapeInv, Shape, Active, Finished
  <2>3. TypeOK'
    BY <2>1 DEF TypeOK
  <2>4. OnlyMoves(r) /\ SameRequest(r) /\ UNCHANGED database
    BY <2>1, <2>2 DEF TypeOK, OnlyMoves, SameRequest
  <2>5. pc'[r] = "started" /\ key'[r]
    BY <2>1 DEF TypeOK
  <2>6. Shape(r)'
    BY <2>1, <2>2, <2>5 DEF ShapeInv, Shape, Place, Known, Active, Finished, Starters,
                            Enders
  <2>7. Holds(r)'
    BY <2>1, <2>2, <2>5 DEF Holds, InOperation, Known, Starters
  <2>8. TakesKey(r)
    BY <2>1, <2>5, <2>7 DEF TakesKey
  <2>9. TakesRow(r)
    BY <2>1, <2>5 DEF TakesRow
  <2> QED
    BY <2>3, <2>4, <2>6, <2>8, <2>9, Advance
<1> QED
  BY <1>1, <1>2

LEMMA SerializeToRegistryStep ==
  ASSUME DispatchInv, NEW r \in Requests, SerializeToRegistry(r)
  PROVE  DispatchInv'
<1>1. CASE RolledBack(r)
  BY <1>1, RolledBackStep
<1>2. CASE ~RolledBack(r)
  <2> USE DEF DispatchInv, database
  <2>1. /\ pc[r] = "started" /\ req[r].kind = "Begin" /\ Current(r) # Nothing
        /\ snap' = [snap EXCEPT ![r] = Current(r)]
        /\ pc' = [pc EXCEPT ![r] = "serialized"]
        /\ UNCHANGED <<database, session, write, key>>
    BY <1>2 DEF SerializeToRegistry, Goto
  <2> USE DEF session
  <2>2. req[r] \in Request /\ Known(r)
    BY <2>1 DEF TypeOK, ShapeInv, Shape, Active, Finished
  <2>3. Current(r) \in Row
    BY <2>1, <2>2 DEF TypeOK, Request, Current, Doc, RowInv, RowHeld
  <2>4. TypeOK'
    BY <2>1, <2>3 DEF TypeOK
  <2>5. OnlyMoves(r) /\ SameRequest(r) /\ UNCHANGED database
    BY <2>1, <2>2 DEF TypeOK, OnlyMoves, SameRequest
  <2>6. pc'[r] = "serialized" /\ snap'[r] # Nothing
    BY <2>1 DEF TypeOK
  <2>7. Shape(r)'
    BY <2>1, <2>2, <2>6 DEF ShapeInv, Shape, Place, Known, Active, Finished, Starters,
                            Enders
  <2>8. Holds(r) /\ Holds(r)'
    BY <2>1, <2>2, <2>6 DEF Holds, InOperation, Known, Starters
  <2>9. TakesKey(r)
    BY <2>1, <2>8 DEF TakesKey, KeyInv, KeyHeld
  <2>10. TakesRow(r)
    BY <2>1, <2>6 DEF TakesRow
  <2> QED
    BY <2>4, <2>5, <2>7, <2>9, <2>10, Advance
<1> QED
  BY <1>1, <1>2

LEMMA RunHandlerStep ==
  ASSUME DispatchInv, NEW r \in Requests, RunHandler(r)
  PROVE  DispatchInv'
<1> USE DEF DispatchInv, database
<1>1. /\ req[r] # Nothing
      /\ \/ req[r].kind = "Begin" /\ pc[r] = "serialized"
         \/ req[r].kind \in {"Execute", "Create"} /\ pc[r] = "started"
         \/ req[r].kind = "Complete" /\ pc[r] = "checked"
      /\ pc' = [pc EXCEPT ![r] = "handled"]
      /\ UNCHANGED <<database, req, seen, ends, work>>
  BY DEF RunHandler, Goto
<1> USE DEF work
<1>2. req[r] \in Request /\ entity[r] \in Image /\ Known(r)
  BY <1>1 DEF TypeOK, ShapeInv, Shape, Active, Finished
<1>3. req[r].op \in Operations
  BY <1>1, <1>2 DEF Request, Known, Enders
<1>4. PICK status \in Statuses, content \in Tags :
        entity' = [entity EXCEPT ![r].now = [status |-> status, content |-> content]]
  <2>1. FinalStatuses(req[r].op) \subseteq Statuses
    BY <1>3, ConstantsAssumption DEF FinalStatuses
  <2>2. entity[r].now.content \in Tags
    BY <1>2 DEF Image, Row
  <2> QED
    BY <2>1, <2>2 DEF RunHandler, Tags
<1>5. [entity[r] EXCEPT !.now = [status |-> status, content |-> content]] \in Image
  BY <1>2 DEF Image, Row
<1>6. TypeOK'
  BY <1>1, <1>4, <1>5 DEF TypeOK
<1>7. OnlyMoves(r) /\ SameRequest(r) /\ UNCHANGED database
  BY <1>1, <1>4 DEF TypeOK, OnlyMoves, SameRequest
<1>8. pc'[r] = "handled" /\ entity'[r] # Nothing
  BY <1>1, <1>4, <1>5 DEF TypeOK
<1>9. Shape(r)'
  BY <1>1, <1>2, <1>8 DEF Shape, Place, Known, Active, Finished, Operating, Starters,
                          Enders
<1>10. Holds(r) <=> Holds(r)'
  BY <1>1, <1>2, <1>8 DEF Holds, InOperation, Is, Known, Starters, Enders
<1>11. TakesKey(r)
  BY <1>1, <1>10 DEF TakesKey, KeyInv, KeyHeld
<1>12. TakesRow(r)
  BY <1>1, <1>8 DEF TakesRow
<1> QED
  BY <1>6, <1>7, <1>9, <1>11, <1>12, Advance

LEMMA RestoreDocumentStep ==
  ASSUME DispatchInv, NEW r \in Requests, RestoreDocument(r)
  PROVE  DispatchInv'
<1>1. CASE RolledBack(r)
  BY <1>1, RolledBackStep
<1>2. CASE ~RolledBack(r)
  <2> USE DEF DispatchInv, database
  <2> DEFINE d == Doc(r)
             stored == IF serialized[d] = Nothing \/ rows[d] = Nothing
                       THEN Nothing ELSE serialized[d].data
  <2>1. /\ pc[r] = "checked" /\ req[r].kind = "Cancel" /\ ~RowLockedByOther(r)
        /\ write' = [write EXCEPT ![r] = stored]
        /\ pc' = [pc EXCEPT ![r] = "handled"]
        /\ UNCHANGED <<database, session, snap, key>>
    BY DEF RestoreDocument, Goto
  <2> USE DEF session
  <2>2. req[r] \in Request /\ Known(r)
    BY <2>1 DEF TypeOK, ShapeInv, Shape, Active, Finished
  <2>3. stored \in Row \cup {Nothing} /\ (stored # Nothing => rows[d] # Nothing)
    BY <2>2 DEF TypeOK, Request, SerializedRow, Doc
  <2>4. TypeOK'
    BY <2>1, <2>3 DEF TypeOK
  <2>5. OnlyMoves(r) /\ SameRequest(r) /\ UNCHANGED database
    BY <2>1, <2>2 DEF TypeOK, OnlyMoves, SameRequest
  <2>6. pc'[r] = "handled" /\ write'[r] = stored
    BY <2>1 DEF TypeOK
  <2>7. Shape(r)'
    BY <2>1, <2>2, <2>6 DEF ShapeInv, Shape, Place, Known, Active, Finished, Operating,
                            Starters, Enders
  <2>8. ~Holds(r) /\ ~Holds(r)'
    BY <2>1, <2>2, <2>6 DEF Holds, InOperation, Is, Starters, Enders
  <2>9. TakesKey(r)
    BY <2>1, <2>8 DEF TakesKey, KeyInv, KeyHeld
  <2>10. TakesRow(r)
    BY <2>1, <2>3, <2>6 DEF TakesRow
  <2> QED
    BY <2>4, <2>5, <2>7, <2>9, <2>10, Advance
<1> QED
  BY <1>1, <1>2

LEMMA WriteEndOperationStep ==
  ASSUME DispatchInv, NEW r \in Requests, WriteEndOperation(r)
  PROVE  DispatchInv'
<1>1. CASE RolledBack(r)
  BY <1>1, RolledBackStep
<1>2. CASE ~RolledBack(r)
  <2> USE DEF DispatchInv, database
  <2> DEFINE d == Doc(r)
             ids == [started |-> started[d].id, serialized |-> serialized[d].id]
  <2>1. /\ pc[r] = "handled" /\ req[r].kind \in Enders
        /\ started[d] # Nothing /\ serialized[d] # Nothing
        /\ ends' = [ends EXCEPT ![r] = ids]
        /\ pc' = [pc EXCEPT ![r] = "ended"]
        /\ UNCHANGED <<database, req, entity, seen, work>>
    BY <1>2 DEF WriteEndOperation, Goto
  <2> USE DEF work
  <2>2. req[r] \in Request /\ Known(r)
    BY <2>1 DEF TypeOK, ShapeInv, Shape, Active, Finished
  <2>3. ids \in RegistryIds
    BY <2>1, <2>2 DEF TypeOK, Request, StartedRow, SerializedRow, RegistryIds, Doc
  <2>4. TypeOK'
    BY <2>1, <2>3 DEF TypeOK
  <2>5. OnlyMoves(r) /\ SameRequest(r) /\ UNCHANGED database
    BY <2>1, <2>2 DEF TypeOK, OnlyMoves, SameRequest
  <2>6. pc'[r] = "ended"
    BY <2>1 DEF TypeOK
  <2>7. Shape(r)'
    BY <2>1, <2>2, <2>6 DEF ShapeInv, Shape, Place, Known, Active, Finished, Enders
  <2>8. ~Holds(r) /\ ~Holds(r)'
    BY <2>1, <2>6 DEF Holds, InOperation, Is, Starters, Enders
  <2>9. TakesKey(r)
    BY <2>1, <2>8 DEF TakesKey, KeyInv, KeyHeld
  <2>10. TakesRow(r)
    BY <2>1, <2>6 DEF TakesRow
  <2> QED
    BY <2>4, <2>5, <2>7, <2>9, <2>10, Advance
<1> QED
  BY <1>1, <1>2

LEMMA UpdateDocumentStep ==
  ASSUME DispatchInv, NEW r \in Requests, UpdateDocument(r)
  PROVE  DispatchInv'
<1>1. CASE RolledBack(r)
  BY <1>1, RolledBackStep
<1>2. CASE ~RolledBack(r)
  <2> USE DEF DispatchInv, database
  <2> DEFINE overlaid == Overlay(entity[r], Current(r))
  <2>1. PICK label \in {"updated", "written"} :
          /\ pc' = [pc EXCEPT ![r] = label]
          /\ \/ pc[r] = "handled" /\ req[r].kind \in Starters /\ label = "written"
             \/ pc[r] = "ended" /\ label = "updated"
    BY <1>2 DEF UpdateDocument, Goto
  <2>2. /\ \/ write' = write
           \/ /\ ~RowLockedByOther(r) /\ Current(r) # Nothing
              /\ write' = [write EXCEPT ![r] = overlaid]
        /\ UNCHANGED <<database, session, snap, key>>
    BY <1>2 DEF UpdateDocument, work
  <2> USE DEF session
  <2>3. req[r] \in Request /\ entity[r] \in Image /\ Known(r) /\ Place(r)
    BY <2>1 DEF TypeOK, ShapeInv, Shape, Active, Finished
  <2>4. req[r].kind \in Operating
    BY <2>1, <2>3 DEF Place, Operating
  <2>5. /\ Current(r) \in Row \cup {Nothing}
        /\ Current(r) # Nothing => rows[Doc(r)] # Nothing \/ req[r].kind = "Create"
    BY <2>3, <2>4 DEF TypeOK, Request, Current, Doc, RowInv, RowHeld, Operating, Starters,
                      Enders
  <2>6. Current(r) \in Row => overlaid \in Row
    BY <2>3 DEF Overlay, Changed, Image, Row
  <2>14. write' \in [Requests -> Row \cup {Nothing, Deleted}]
    BY <2>2, <2>5, <2>6 DEF TypeOK
  <2>7. TypeOK'
    BY <2>1, <2>2, <2>14 DEF TypeOK
  <2>8. OnlyMoves(r) /\ SameRequest(r) /\ UNCHANGED database
    BY <2>1, <2>2, <2>3 DEF TypeOK, OnlyMoves, SameRequest
  <2>9. /\ pc'[r] = label
        /\ \/ write'[r] = write[r]
           \/ ~RowLockedByOther(r) /\ Current(r) # Nothing /\ write'[r] = overlaid
    BY <2>1, <2>2 DEF TypeOK
  <2>10. Shape(r)'
    BY <2>1, <2>2, <2>3, <2>9 DEF ShapeInv, Shape, Place, Known, Active, Finished,
                                  Operating, Starters, Enders
  <2>11. Holds(r) <=> Holds(r)'
    BY <2>1, <2>2, <2>3, <2>9 DEF Holds, InOperation, Is, Place, Starters, Enders
  <2>12. TakesKey(r)
    BY <2>2, <2>11 DEF TakesKey, KeyInv, KeyHeld
  <2>13. TakesRow(r)
    BY <2>4, <2>5, <2>6, <2>9 DEF TakesRow, Operating, Starters, Enders
  <2> QED
    BY <2>7, <2>8, <2>10, <2>12, <2>13, Advance
<1> QED
  BY <1>1, <1>2

LEMMA DeleteRegistryRowsStep ==
  ASSUME DispatchInv, NEW r \in Requests, DeleteRegistryRows(r)
  PROVE  DispatchInv'
<1>1. CASE RolledBack(r)
  BY <1>1, RolledBackStep
<1>2. CASE ~RolledBack(r)
  <2> USE DEF DispatchInv, database
  <2>1. /\ pc[r] = "updated" /\ started[Doc(r)] # Nothing /\ ~KeyLockedByOther(r)
        /\ key' = [key EXCEPT ![r] = TRUE]
        /\ pc' = [pc EXCEPT ![r] = "written"]
        /\ UNCHANGED <<database, session, write, snap>>
    BY <1>2 DEF DeleteRegistryRows, RegistryRowsPresent, Goto
  <2> USE DEF session
  <2>2. req[r] # Nothing /\ Known(r) /\ req[r].kind \in Enders
    BY <2>1 DEF ShapeInv, Shape, Place, Active, Finished
  <2>3. TypeOK'
    BY <2>1 DEF TypeOK
  <2>4. OnlyMoves(r) /\ SameRequest(r) /\ UNCHANGED database
    BY <2>1, <2>2 DEF TypeOK, OnlyMoves, SameRequest
  <2>5. pc'[r] = "written" /\ key'[r]
    BY <2>1 DEF TypeOK
  <2>6. Shape(r)'
    BY <2>1, <2>2, <2>5 DEF ShapeInv, Shape, Place, Known, Active, Finished, Enders
  <2>7. Holds(r)'
    BY <2>1, <2>2, <2>5 DEF Holds, Is
  <2>8. TakesKey(r)
    BY <2>1, <2>2, <2>5, <2>7 DEF TakesKey, Starters, Enders
  <2>9. TakesRow(r)
    BY <2>1, <2>2, <2>5 DEF TakesRow, Enders
  <2> QED
    BY <2>3, <2>4, <2>6, <2>8, <2>9, Advance
<1> QED
  BY <1>1, <1>2

\* The facts about a committing request that its locks and labels give.
LEMMA CommitFacts ==
  ASSUME DispatchInv, NEW r \in Requests, Commit(r)
  PROVE  /\ pc[r] = "written" /\ req[r] \in Request /\ entity[r] \in Image
         /\ req[r].kind \in Starters \cup Enders /\ req[r].op # Nothing => key[r]
         /\ req[r].kind \in {"Begin", "Execute", "Complete", "Cancel"}
              => key[r] /\ req[r].op \in Operations
         /\ req[r].kind = "Begin" => snap[r] \in Row
         /\ write[r] = Deleted <=> req[r].kind = "Delete"
<1> USE DEF DispatchInv
<1>1. pc[r] = "written" /\ req[r] \in Request /\ entity[r] \in Image /\ Known(r)
  BY DEF Commit, TypeOK, ShapeInv, Shape, Active, Finished
<1>2. req[r] # Nothing
  BY <1>1
<1>3. req[r].op \in Operations \cup {Nothing}
  BY <1>1 DEF Request
<1>4. req[r].kind \in Starters \cup Enders /\ req[r].op # Nothing => key[r]
  BY <1>1, <1>2 DEF KeyInv, KeyHeld, Holds, InOperation, Is
<1>5. req[r].kind \in {"Begin", "Execute", "Complete", "Cancel"} => req[r].op # Nothing
  BY <1>1 DEF Known, Enders
<1>6. req[r].kind = "Begin" => snap[r] \in Row
  BY <1>1 DEF Known, TypeOK
<1>7. write[r] = Deleted <=> req[r].kind = "Delete"
  BY <1>1, <1>2 DEF RowInv, RowHeld, Is
<1> QED
  BY <1>1, <1>3, <1>4, <1>5, <1>6, <1>7 DEF Starters, Enders

LEMMA CommitStep ==
  ASSUME DispatchInv, NEW r \in Requests, Commit(r)
  PROVE  DispatchInv'
<1> USE CommitFacts DEF DispatchInv
<1> DEFINE d == Doc(r)
<1>1. d \in Docs /\ req[r] # Nothing
  BY DEF Request, Doc
<1>2. /\ pc' = [pc EXCEPT ![r] = "committed"]
      /\ req' = [req EXCEPT ![r] = Nothing]
      /\ entity' = [entity EXCEPT ![r] = Nothing]
      /\ seen' = [seen EXCEPT ![r] = Nothing]
      /\ ends' = [ends EXCEPT ![r] = Nothing]
      /\ write' = [write EXCEPT ![r] = Nothing]
      /\ snap' = [snap EXCEPT ![r] = Nothing]
      /\ key' = [key EXCEPT ![r] = FALSE]
  BY DEF Commit, EndRequest, Goto
<1>3. OnlyMoves(r)
  BY <1>2 DEF TypeOK, OnlyMoves
<1>4. \A e \in Docs \ {d} : rows'[e] = rows[e] /\ started'[e] = started[e]
                            /\ serialized'[e] = serialized[e]
  BY DEF Commit, TypeOK
<1>5. write[r] = Nothing => rows'[d] = rows[d]
  BY <1>1 DEF Commit, TypeOK
<1>6. ~key[r] => started'[d] = started[d]
  BY <1>1 DEF Commit, TypeOK, Starters, Enders
<1>7. TypeOK'
  <2>1. rows' \in [Docs -> Row \cup {Nothing}]
    BY <1>1 DEF Commit, TypeOK
  <2>2. started' \in [Docs -> StartedRow \cup {Nothing}]
    <3>1. req[r].kind = "Begin" =>
            [id |-> r, op |-> req[r].op, user |-> req[r].user] \in StartedRow
      BY DEF Request, StartedRow, Tags
    <3> QED
      BY <1>1, <3>1 DEF Commit, TypeOK
  <2>3. serialized' \in [Docs -> SerializedRow \cup {Nothing}]
    <3>1. req[r].kind = "Begin" => [id |-> r, data |-> snap[r]] \in SerializedRow
      BY DEF SerializedRow, Tags
    <3> QED
      BY <1>1, <3>1 DEF Commit, TypeOK
  <2>4. executed' \in [Docs -> Seq(ExecutedRow)]
    <3>1. req[r].op # Nothing => Execution(r) \in ExecutedRow
      BY DEF Request, Image, Row, Execution, ExecutedRow
    <3>2. executed[d] \in Seq(ExecutedRow)
      BY <1>1 DEF TypeOK
    <3>3. req[r].op # Nothing => Append(executed[d], Execution(r)) \in Seq(ExecutedRow)
      BY <3>1, <3>2
    <3>4. <<>> \in Seq(ExecutedRow)
      OBVIOUS
    <3> QED
      BY <1>1, <3>2, <3>3, <3>4 DEF Commit, TypeOK
  <2> QED
    BY <1>2, <2>1, <2>2, <2>3, <2>4 DEF TypeOK
<1>8. ShapeInv'
  BY <1>2, <1>3 DEF TypeOK, OnlyMoves, ShapeInv, Shape, Place, Known, Active, Finished
<1>9. \A s \in Requests : key[s] \/ write[s] # Nothing => req[s] \in Request
  BY DEF TypeOK, ShapeInv, Shape
<1>10. \A s \in Requests : req[s] \in Request => Doc(s) \in Docs
  BY DEF Request, Doc
<1>11. ~key'[r] /\ req'[r] = Nothing /\ write'[r] = Nothing
  BY <1>2 DEF TypeOK
<1>12. KeyInv'
  <2> SUFFICES ASSUME NEW s \in Requests PROVE KeyHeld(s)'
    BY DEF KeyInv
  <2>1. CASE s = r
    BY <1>11, <2>1 DEF KeyHeld, Holds, InOperation, Is
  <2>2. CASE s # r
    <3>1. key[s] => started'[Doc(s)] = started[Doc(s)]
      BY <1>4, <1>6, <1>9, <1>10, <2>2 DEF KeyInv, KeyHeld
    <3> QED
      BY <1>3, <1>11, <2>2, <3>1 DEF OnlyMoves, KeyInv, KeyHeld, Holds, InOperation, Is, Doc
  <2> QED
    BY <2>1, <2>2
<1>13. RowInv'
  <2> SUFFICES ASSUME NEW s \in Requests PROVE RowHeld(s)'
    BY DEF RowInv
  <2>1. CASE s = r
    BY <1>11, <2>1 DEF RowHeld, Is
  <2>2. CASE s # r
    <3>1. write[s] # Nothing => rows'[Doc(s)] = rows[Doc(s)]
      BY <1>4, <1>5, <1>9, <1>10, <2>2 DEF RowInv, RowHeld
    <3> QED
      BY <1>3, <1>11, <2>2, <3>1 DEF OnlyMoves, RowInv, RowHeld, Is, Doc
  <2> QED
    BY <2>1, <2>2
<1>14. NewInv'
  <2> SUFFICES ASSUME NEW s \in Requests, s # r PROVE Created(s)'
    BY <1>11 DEF NewInv, Created, Is
  <2>1. Is(s, {"Create"}) => Doc(s) \in Docs \ {d}
    BY <1>1, <1>10 DEF NewInv, Created, Is, TypeOK
  <2> QED
    BY <1>3, <1>4, <1>11, <2>1 DEF OnlyMoves, NewInv, Created, Is, Doc
<1>15. StartedHasSnapshot'
  <2> DEFINE so == [id |-> r, op |-> req[r].op, user |-> req[r].user]
             stored == [id |-> r, data |-> snap[r]]
  <2>1. CASE req[r].kind = "Begin"
    <3>1. started'[d] = so /\ serialized'[d] = stored
      BY <1>1, <2>1 DEF Commit, TypeOK
    <3>2. so \in StartedRow /\ stored \in SerializedRow
      BY <2>1 DEF Request, StartedRow, SerializedRow, Tags
    <3> QED
      BY <1>4, <3>1, <3>2 DEF StartedHasSnapshot
  <2>2. CASE req[r].kind \in Enders
    <3>1. started'[d] = Nothing /\ serialized'[d] = Nothing
      BY <1>1, <2>2 DEF Commit, TypeOK, Enders
    <3> QED
      BY <1>4, <3>1 DEF StartedHasSnapshot
  <2>3. CASE req[r].kind \notin {"Begin"} \cup Enders
    <3>1. started'[d] = started[d] /\ serialized'[d] = serialized[d]
      BY <1>1, <2>3 DEF Commit, TypeOK
    <3> QED
      BY <1>4, <3>1 DEF StartedHasSnapshot
  <2> QED
    BY <2>1, <2>2, <2>3
<1> QED
  BY <1>7, <1>8, <1>12, <1>13, <1>14, <1>15

LEMMA AbortStep ==
  ASSUME DispatchInv, NEW r \in Requests, Abort(r)
  PROVE  DispatchInv'
  BY RolledBackStep DEF Abort

-----------------------------------------------------------------------------
(* DispatchInv is inductive.                                               *)

LEMMA DispatchInvInit == Init => DispatchInv
<1> SUFFICES ASSUME Init PROVE DispatchInv
  OBVIOUS
<1> USE DEF Init
<1>1. TypeOK
  <2>1. rows \in [Docs -> Row \cup {Nothing}]
    BY DEF Row, Tags
  <2>2. started \in [Docs -> StartedRow \cup {Nothing}]
    BY DEF StartedRow, Tags
  <2>3. serialized \in [Docs -> SerializedRow \cup {Nothing}]
    <3>1. \A d \in Docs : started[d] # Nothing =>
            [id |-> Initial, data |-> rows[d]] \in SerializedRow
      BY <2>1 DEF SerializedRow, Tags
    <3> QED
      BY <3>1
  <2> QED
    BY <2>1, <2>2, <2>3 DEF TypeOK
<1>2. ShapeInv
  BY DEF ShapeInv, Shape, Active, Finished
<1>3. KeyInv /\ RowInv /\ NewInv
  BY DEF KeyInv, KeyHeld, Holds, InOperation, RowInv, RowHeld, NewInv, Created, Is
<1>4. StartedHasSnapshot
  <2> HIDE DEF Init
  <2> SUFFICES ASSUME NEW d \in Docs
               PROVE  /\ started[d] = Nothing <=> serialized[d] = Nothing
                      /\ started[d] # Nothing => serialized[d].id = started[d].id
    BY Zenon DEF StartedHasSnapshot
  <2>1. CASE started[d] = Nothing
    BY <2>1 DEF Init
  <2>2. CASE started[d] # Nothing
    <3>1. /\ serialized[d] = [id |-> Initial, data |-> rows[d]]
          /\ started[d].id = Initial /\ rows[d] # Nothing
      BY <2>2 DEF Init
    <3>2. rows[d] \in Row
      BY <1>1, <3>1 DEF TypeOK
    <3>3. serialized[d] \in SerializedRow
      BY <3>1, <3>2 DEF SerializedRow, Tags
    <3> QED
      BY <2>2, <3>1, <3>3
  <2> QED
    BY <2>1, <2>2
<1> QED
  BY <1>1, <1>2, <1>3, <1>4 DEF DispatchInv

\* One statement of one request, or an abort, whatever the others are doing.
LEMMA DispatchInvStep == DispatchInv /\ [Next]_vars => DispatchInv'
<1> SUFFICES ASSUME DispatchInv, [Next]_vars PROVE DispatchInv'
  OBVIOUS
<1>1. CASE Next
  <2> PICK r \in Requests : Arrive(r) \/ Serve(r) \/ Abort(r)
    BY <1>1 DEF Next
  <2>1. CASE Arrive(r)
    BY <2>1, OpenStep, CreateStep DEF Arrive
  <2>2. CASE Serve(r)
    BY <2>2, UpdateEntityStep, CheckDeleteStep, DeleteRowStep, BlockDocumentStep,
       CheckBeginStateStep, CheckCancelCompleteStateStep,
       WriteStartedOperationBeginStep, SerializeToRegistryStep, RunHandlerStep,
       RestoreDocumentStep, WriteEndOperationStep, UpdateDocumentStep,
       DeleteRegistryRowsStep, CommitStep DEF Serve
  <2>3. CASE Abort(r)
    BY <2>3, AbortStep
  <2> QED
    BY <2>1, <2>2, <2>3
<1>2. CASE UNCHANGED vars
  BY <1>2 DEF vars, database, session, work, DispatchInv, TypeOK, ShapeInv, Shape, Place,
     Known, Active, KeyInv, KeyHeld, Holds, InOperation, Is, RowInv, RowHeld, NewInv,
     Created, Doc, StartedHasSnapshot
<1> QED
  BY <1>1, <1>2

\* Requests keep to their statements, a lock on a registry key or a document row
\* is one request's, and the two registries of begun operations agree.
THEOREM DispatchInvariant == Spec => []DispatchInv
  BY DispatchInvInit, DispatchInvStep, PTL DEF Spec

\* A begun operation always has the stored document of the same Begin, so it can
\* always be completed or cancelled.
THEOREM SnapshotTheorem == Spec => []StartedHasSnapshot
  BY DispatchInvariant, PTL DEF DispatchInv

\* The handlers of two operations never run on one document at once, although
\* CheckNotBegined reads a snapshot and the lock of Locks.Lock is not held: the
\* unique index decides.
LEMMA KeyExcludes == DispatchInv => OneOperationAtATime
<1> SUFFICES ASSUME DispatchInv, NEW r \in Requests, InOperation(r)
             PROVE  /\ started[Doc(r)] = Nothing
                    /\ \A s \in Requests \ {r} : InOperation(s) => Doc(s) # Doc(r)
  BY DEF OneOperationAtATime
<1>1. \A s \in Requests : InOperation(s) => key[s]
  BY DEF DispatchInv, KeyInv, KeyHeld, Holds
<1> QED
  BY <1>1 DEF DispatchInv, KeyInv, KeyHeld, InOperation

THEOREM OneOperationTheorem == Spec => []OneOperationAtATime
  BY DispatchInvariant, KeyExcludes, PTL
-----------------------------------------------------------------------------
(* The statements of a request implement the atomic steps of ToolLifecycle. *)

LEMMA LifecycleInit == Init => Lifecycle!Init
<1> SUFFICES ASSUME Init PROVE Lifecycle!Init
  OBVIOUS
<1>1. DispatchInv
  BY DispatchInvInit
<1> QED
  BY <1>1 DEF Init, DispatchInv, TypeOK, StartedHasSnapshot, Lifecycle!Init

\* Only a commit shows in the database.
LEMMA OnlyCommitShows ==
  ASSUME [Next]_vars, ~\E r \in Requests : Commit(r)
  PROVE  UNCHANGED database
BY DEF Next, Arrive, Serve, Open, Create, UpdateEntity, CheckDelete, DeleteRow,
   BlockDocument, CheckBeginState, CheckCancelCompleteState, WriteStartedOperationBegin,
   SerializeToRegistry, RunHandler, RestoreDocument, WriteEndOperation, UpdateDocument,
   DeleteRegistryRows, Abort, RolledBack, vars, database

\* What a commit leaves as it was: everything of other documents, and of its own
\* what its kind of request does not touch.
LEMMA CommitFrame ==
  ASSUME DispatchInv, NEW r \in Requests, Commit(r)
  PROVE  /\ req[r].kind \notin {"Begin", "Complete", "Cancel"} =>
              UNCHANGED <<started, serialized>>
         /\ req[r].kind \in {"Begin", "Cancel", "Save"} => UNCHANGED executed
         /\ req[r].kind = "Create" /\ req[r].op = Nothing => UNCHANGED executed
         /\ Doc(r) \in Docs
<1> USE CommitFacts DEF DispatchInv
<1>1. Doc(r) \in Docs
  BY DEF Request, Doc
<1> QED
  BY <1>1 DEF Commit, TypeOK, Enders

LEMMA CommitChange ==
  ASSUME DispatchInv, NEW r \in Requests, Commit(r),
         req[r].kind \notin {"Create", "Delete"}
  PROVE  Lifecycle!Change(Doc(r))
<1> DEFINE d == Doc(r)
           row == IF write[r] = Nothing THEN rows[d] ELSE write[r]
<1> USE CommitFacts, CommitFrame DEF DispatchInv
<1>1. row \in Row \cup {Nothing} /\ (row = Nothing <=> rows[d] = Nothing)
  BY DEF TypeOK, RowInv, RowHeld
<1>2. rows' = [rows EXCEPT ![d] = row]
  BY DEF Commit, TypeOK
<1> QED
  BY <1>1, <1>2 DEF Lifecycle!Change

LEMMA CommitRecord ==
  ASSUME DispatchInv, NEW r \in Requests, Commit(r), req[r].op # Nothing,
         req[r].kind \in {"Execute", "Create", "Complete"}
  PROVE  /\ Execution(r) \in ExecutedRow
         /\ Lifecycle!Record(Doc(r), Execution(r))
<1> USE CommitFacts DEF DispatchInv
<1>1. Execution(r) \in ExecutedRow
  BY DEF Request, Image, Row, Execution, ExecutedRow
<1> QED
  BY <1>1 DEF Commit, Lifecycle!Record

\* Ends, executions and creations.
LEMMA CommitOperation ==
  ASSUME DispatchInv, NEW r \in Requests, Commit(r),
         req[r].kind \notin {"Begin", "Save", "Delete"}
  PROVE  Lifecycle!Operation(Doc(r))
<1> DEFINE d == Doc(r)
<1> USE CommitFacts, CommitFrame DEF DispatchInv
<1>1. CASE req[r].kind \in Enders
  <2>1. started' = [started EXCEPT ![d] = Nothing]
        /\ serialized' = [serialized EXCEPT ![d] = Nothing]
    BY <1>1 DEF Commit, Enders
  <2>2. Lifecycle!Begun(d)
    BY <1>1 DEF Lifecycle!Begun, KeyInv, KeyHeld, Starters, Enders
  <2>3. Lifecycle!Change(d)
    BY <1>1, CommitChange DEF Enders
  <2>4. (\E e \in ExecutedRow : Lifecycle!Record(d, e)) \/ UNCHANGED executed
    BY <1>1, CommitRecord DEF Enders
  <2>5. Lifecycle!End(d)
    BY <2>1, <2>2, <2>3, <2>4 DEF Lifecycle!End
  <2> QED
    BY <2>5 DEF Lifecycle!Operation
<1>2. CASE req[r].kind = "Execute"
  <2>1. Lifecycle!Free(d)
    BY <1>2 DEF Lifecycle!Free, KeyInv, KeyHeld, Starters
  <2>2. Lifecycle!Execute(d, Execution(r)) /\ Execution(r) \in ExecutedRow
    BY <1>2, <2>1, CommitChange, CommitRecord DEF Lifecycle!Execute
  <2> QED
    BY <2>2 DEF Lifecycle!Operation
<1>3. CASE req[r].kind = "Create"
  <2>1. write[r] \in Row /\ rows[d] = Nothing /\ Lifecycle!Free(d)
    BY <1>3 DEF TypeOK, RowInv, RowHeld, NewInv, Created, Is, Lifecycle!Free
  <2>2. rows' = [rows EXCEPT ![d] = write[r]]
    BY <1>3, <2>1 DEF Commit
  <2>3. (\E e \in ExecutedRow : Lifecycle!Record(d, e)) \/ UNCHANGED executed
    BY <1>3, CommitRecord
  <2>4. Lifecycle!Create(d, write[r])
    BY <1>3, <2>1, <2>2, <2>3 DEF Lifecycle!Create
  <2> QED
    BY <2>1, <2>4 DEF Lifecycle!Operation
<1> QED
  BY <1>1, <1>2, <1>3 DEF Request, Enders

LEMMA CommitImplements ==
  ASSUME DispatchInv, NEW r \in Requests, Commit(r)
  PROVE  Lifecycle!Next
<1> DEFINE d == Doc(r)
           so == [id |-> r, op |-> req[r].op, user |-> req[r].user]
<1> USE CommitFacts, CommitFrame DEF DispatchInv
<1>1. CASE req[r].kind = "Begin"
  <2>1. so \in StartedRow /\ so.id = r
    BY <1>1 DEF Request, StartedRow, Tags
  <2>2. started' = [started EXCEPT ![d] = so]
    BY <1>1 DEF Commit
  <2>3. serialized' = [serialized EXCEPT ![d] = [id |-> so.id, data |-> snap[r]]]
    BY <1>1, <2>1 DEF Commit
  <2>4. Lifecycle!Free(d)
    BY <1>1 DEF Lifecycle!Free, KeyInv, KeyHeld, Starters
  <2>5. Lifecycle!Begin(d, Row)
    BY <1>1, <2>1, <2>2, <2>3, <2>4, CommitChange DEF Lifecycle!Begin
  <2> QED
    BY <2>5 DEF Lifecycle!Next
<1>2. CASE req[r].kind = "Save"
  BY <1>2, CommitChange DEF Lifecycle!Next, Lifecycle!Save
<1>3. CASE req[r].kind = "Delete"
  <2>1. write[r] = Deleted /\ Deleted # Nothing
    BY <1>3
  <2>2. Lifecycle!Delete(d)
    BY <1>3, <2>1 DEF Commit, Lifecycle!Delete
  <2> QED
    BY <2>2 DEF Lifecycle!Next
<1>4. CASE req[r].kind \notin {"Begin", "Save", "Delete"}
  BY <1>4, CommitOperation DEF Lifecycle!Next
<1> QED
  BY <1>1, <1>2, <1>3, <1>4

\* However the statements of the requests interleave, fail and roll back, the
\* committed database moves by the atomic steps of ToolLifecycle.
THEOREM LifecycleTheorem == Spec => ImplementsLifecycle
<1>1. DispatchInv /\ [Next]_vars => [Lifecycle!Next]_(Lifecycle!vars)
  BY OnlyCommitShows, CommitImplements DEF database, Lifecycle!vars
<1> QED
  BY <1>1, LifecycleInit, DispatchInvariant, PTL DEF Spec, ImplementsLifecycle, Lifecycle!Spec
\* Executions are recorded on free documents, and at the end of a begun operation.
THEOREM NothingExecutedTheorem == Spec => NothingExecutedWhileBegun
<1>1. DispatchInv /\ [Next]_vars =>
        [\A d \in Docs : started[d] # Nothing /\ Len(executed'[d]) > Len(executed[d])
           => started'[d] = Nothing]_vars
  <2> SUFFICES ASSUME DispatchInv, [Next]_vars, NEW d \in Docs, started[d] # Nothing,
                      started'[d] # Nothing
               PROVE  ~(Len(executed'[d]) > Len(executed[d]))
    BY Zenon
  <2>1. executed[d] \in Seq(ExecutedRow) /\ Len(executed[d]) \in Nat
    BY DEF DispatchInv, TypeOK
  <2>2. CASE \E r \in Requests : Commit(r)
    <3> PICK r \in Requests : Commit(r)
      BY <2>2
    <3>1. executed'[d] \in {executed[d], <<>>}
      <4>1. CASE Doc(r) # d
        BY <4>1 DEF Commit, DispatchInv, TypeOK
      <4>2. CASE Doc(r) = d
        <5>1. req[r].kind \notin Enders
          BY <4>2, CommitFrame DEF Commit, DispatchInv, TypeOK, Enders
        <5>2. req[r].kind \in Starters /\ req[r].op # Nothing => FALSE
          BY <4>2, CommitFacts DEF DispatchInv, KeyInv, KeyHeld
        <5> QED
          BY <4>2, <5>1, <5>2, CommitFrame DEF Commit, DispatchInv, TypeOK, Starters, Enders
      <4> QED
        BY <4>1, <4>2
    <3> QED
      BY <2>1, <3>1
  <2>3. CASE ~\E r \in Requests : Commit(r)
    BY <2>1, <2>3, OnlyCommitShows DEF database
  <2> QED
    BY <2>2, <2>3
<1> QED
  BY <1>1, DispatchInvariant, PTL DEF Spec, NothingExecutedWhileBegun

-----------------------------------------------------------------------------
(* The exclusive contract, where clients change documents by operations    *)
(* alone.                                                                  *)

LEMMA ServeMovesOne ==
  ASSUME DispatchInv, NEW r \in Requests, Serve(r)
  PROVE  OnlyMoves(r)
<1> USE DEF OnlyMoves, DispatchInv, TypeOK
<1>0. RolledBack(r) => OnlyMoves(r)
  BY DEF RolledBack, EndRequest, Goto
<1>1. CASE Commit(r)
  BY <1>1 DEF Commit, EndRequest, Goto
<1>2. CASE UpdateEntity(r)
  BY <1>0, <1>2 DEF UpdateEntity, Goto, session, work, database
<1>3. CASE CheckDelete(r)
  BY <1>0, <1>3 DEF CheckDelete, Goto, session, work, database
<1>4. CASE DeleteRow(r)
  BY <1>0, <1>4 DEF DeleteRow, Goto, session, work, database
<1>5. CASE BlockDocument(r)
  BY <1>0, <1>5 DEF BlockDocument, Goto, session, work, database
<1>6. CASE CheckBeginState(r)
  BY <1>0, <1>6 DEF CheckBeginState, Goto, session, work, database
<1>7. CASE CheckCancelCompleteState(r)
  BY <1>0, <1>7 DEF CheckCancelCompleteState, Goto, session, work, database
<1>8. CASE WriteStartedOperationBegin(r)
  BY <1>0, <1>8 DEF WriteStartedOperationBegin, Goto, session, work, database
<1>9. CASE SerializeToRegistry(r)
  BY <1>0, <1>9 DEF SerializeToRegistry, Goto, session, work, database
<1>10. CASE RunHandler(r)
  BY <1>0, <1>10 DEF RunHandler, Goto, session, work, database
<1>11. CASE RestoreDocument(r)
  BY <1>0, <1>11 DEF RestoreDocument, Goto, session, work, database
<1>12. CASE WriteEndOperation(r)
  BY <1>0, <1>12 DEF WriteEndOperation, Goto, session, work, database
<1>13. CASE UpdateDocument(r)
  BY <1>0, <1>13 DEF UpdateDocument, Goto, session, work, database
<1>14. CASE DeleteRegistryRows(r)
  BY <1>0, <1>14 DEF DeleteRegistryRows, Goto, session, work, database
<1> QED
  BY <1>1, <1>2, <1>3, <1>4, <1>5, <1>6, <1>7, <1>8, <1>9, <1>10, <1>11, <1>12, <1>13,
     <1>14 DEF Serve

LEMMA FreshKept ==
  ASSUME DispatchInv, SnapInv, NEW r \in Requests, OnlyMoves(r), UNCHANGED rows,
         Fresh(r)'
  PROVE  SnapInv'
<1> SUFFICES ASSUME NEW s \in Requests PROVE Fresh(s)'
  BY DEF SnapInv
<1>1. CASE s = r
  BY <1>1
<1>2. CASE s # r
  BY <1>2 DEF SnapInv, Fresh, OnlyMoves, Is, Doc
<1> QED
  BY <1>1, <1>2

LEMMA FreshOver ==
  ASSUME DispatchInv, NEW r \in Requests, RolledBack(r)
  PROVE  Fresh(r)' /\ UNCHANGED rows
BY DEF DispatchInv, TypeOK, RolledBack, EndRequest, Fresh, Is, database

\* The commit of a request leaves the documents alone on which another request
\* is between its Begin's store and its commit.
LEMMA FreshCommit ==
  ASSUME DispatchInv, SnapInv, NEW r \in Requests, Commit(r)
  PROVE  SnapInv'
<1> USE CommitFacts DEF DispatchInv
<1>1. OnlyMoves(r)
  BY ServeMovesOne DEF Serve
<1>2. req'[r] = Nothing
  BY DEF Commit, EndRequest, TypeOK
<1>3. \A e \in Docs \ {Doc(r)} : rows'[e] = rows[e]
  BY DEF Commit, TypeOK
<1> SUFFICES ASSUME NEW s \in Requests, s # r PROVE Fresh(s)'
  BY <1>2 DEF SnapInv, Fresh, Is
<1>4. CASE Is(s, {"Begin"}) /\ pc[s] \in {"serialized", "handled", "written"}
  <2>1. key[s] /\ Doc(s) \in Docs
    BY <1>4 DEF TypeOK, Request, Doc, ShapeInv, Shape, Known, Active, Finished, Is, KeyInv, KeyHeld, Holds, InOperation,
                Starters
  <2>2. Doc(s) # Doc(r)
    <3>1. CASE req[r].kind = "Create"
      BY <1>4, <3>1 DEF NewInv, Created, Is
    <3>2. CASE req[r].kind # "Create"
      <4>1. req[r].kind \in {"Begin", "Execute", "Complete", "Cancel"}
        BY <3>2 DEF SnapInv, Fresh, Is, Request
      <4> QED
        BY <2>1, <4>1 DEF KeyInv, KeyHeld
    <3> QED
      BY <3>1, <3>2
  <2> QED
    BY <1>1, <1>3, <1>4, <2>1, <2>2 DEF OnlyMoves, SnapInv, Fresh, Is, Doc
<1>5. CASE ~(Is(s, {"Begin"}) /\ pc[s] \in {"serialized", "handled", "written"})
  BY <1>1, <1>5 DEF OnlyMoves, SnapInv, Fresh, Is, Doc
<1> QED
  BY <1>4, <1>5

LEMMA ServeSame ==
  ASSUME DispatchInv, NEW r \in Requests, Serve(r), ~Commit(r), ~RolledBack(r)
  PROVE  SameRequest(r)
<1>1. req[r] # Nothing
  BY DEF Serve, UpdateEntity, CheckDelete, DeleteRow, BlockDocument, CheckBeginState,
     CheckCancelCompleteState, WriteStartedOperationBegin, SerializeToRegistry,
     RunHandler, RestoreDocument, WriteEndOperation, UpdateDocument, DeleteRegistryRows,
     DispatchInv, ShapeInv, Shape, Active, Finished
<1>2. CASE CheckCancelCompleteState(r)
  <2>1. req[r] \in Request
    BY <1>1 DEF DispatchInv, TypeOK
  <2>2. PICK o \in Operations : req'[r] = [req[r] EXCEPT !.op = o]
    BY <1>2, <2>1 DEF CheckCancelCompleteState, DispatchInv, TypeOK, Request, StartedRow, Doc
  <2>3. req'[r] \in Request
    BY <2>1, <2>2 DEF Request
  <2> QED
    BY <1>1, <2>1, <2>2, <2>3 DEF SameRequest, Request
<1>3. CASE ~CheckCancelCompleteState(r)
  <2>1. UNCHANGED req
    BY <1>3 DEF Serve, UpdateEntity, CheckDelete, DeleteRow, BlockDocument,
       CheckBeginState, WriteStartedOperationBegin, SerializeToRegistry, RunHandler,
       RestoreDocument, WriteEndOperation, UpdateDocument, DeleteRegistryRows, session
  <2> QED
    BY <1>1, <2>1 DEF SameRequest
<1> QED
  BY <1>2, <1>3

LEMMA FreshBegin ==
  ASSUME DispatchInv, SnapInv, NEW r \in Requests, req[r].kind = "Begin", SameRequest(r),
         Serve(r), ~Commit(r), ~RolledBack(r)
  PROVE  Fresh(r)'
<1> USE DEF DispatchInv, TypeOK, database, session, work, Goto
<1>1. /\ pc[r] # "written" => write[r] = Nothing
      /\ pc[r] \in {"serialized", "handled"} => snap[r] = rows[Doc(r)]
  BY DEF SameRequest, SnapInv, Fresh, Is
<1>2. \/ BlockDocument(r) \/ CheckBeginState(r) \/ WriteStartedOperationBegin(r)
      \/ SerializeToRegistry(r) \/ RunHandler(r) \/ UpdateDocument(r)
  BY DEF Serve, UpdateEntity, CheckDelete, DeleteRow, CheckCancelCompleteState,
     RestoreDocument, WriteEndOperation, DeleteRegistryRows, ShapeInv, Shape, Place, Active,
     Finished, SameRequest, Enders
<1>3. CASE BlockDocument(r) \/ CheckBeginState(r) \/ WriteStartedOperationBegin(r)
  <2>1. pc'[r] \in {"locked", "checked", "started"} /\ write'[r] = Nothing
    BY <1>1, <1>3 DEF BlockDocument, CheckBeginState, WriteStartedOperationBegin
  <2> QED
    BY <2>1 DEF Fresh, SameRequest, Is
<1>4. CASE SerializeToRegistry(r)
  <2>1. /\ pc'[r] = "serialized" /\ write'[r] = Nothing
        /\ snap'[r] = rows[Doc(r)] /\ rows' = rows
    BY <1>1, <1>4 DEF SerializeToRegistry, Current
  <2> QED
    BY <2>1 DEF Fresh, SameRequest, Is, Doc
<1>5. CASE RunHandler(r)
  <2>1. /\ pc'[r] = "handled" /\ write'[r] = Nothing
        /\ snap'[r] = rows[Doc(r)] /\ rows' = rows
    BY <1>1, <1>5 DEF RunHandler
  <2> QED
    BY <2>1 DEF Fresh, SameRequest, Is, Doc
<1>6. CASE UpdateDocument(r)
  <2>1. pc[r] = "handled"
    BY <1>6 DEF UpdateDocument, ShapeInv, Shape, Place, Active, Finished, SameRequest, Enders
  <2>2. pc'[r] = "written" /\ snap'[r] = rows[Doc(r)] /\ rows' = rows
    BY <1>1, <1>6, <2>1 DEF UpdateDocument
  <2> QED
    BY <2>2 DEF Fresh, SameRequest, Is, Doc
<1> QED
  BY <1>2, <1>3, <1>4, <1>5, <1>6

LEMMA SnapInvStep ==
  ASSUME ByOperationsAlone, DispatchInv, SnapInv, [Next]_vars
  PROVE  SnapInv'
<1>1. CASE UNCHANGED vars
  BY <1>1 DEF vars, database, session, work, SnapInv, Fresh, Is, Doc
<1>2. ASSUME NEW r \in Requests, Abort(r) \/ RolledBack(r) PROVE SnapInv'
  <2>1. RolledBack(r)
    BY <1>2 DEF Abort
  <2>2. OnlyMoves(r)
    BY <2>1 DEF RolledBack, EndRequest, Goto, OnlyMoves, DispatchInv, TypeOK
  <2> QED
    BY <2>1, <2>2, FreshOver, FreshKept
<1>3. ASSUME NEW r \in Requests, Arrive(r) PROVE SnapInv'
  <2>1. ASSUME NEW kind \in Kinds, NEW d \in Docs, NEW u \in Users,
               NEW o \in Operations \cup {Nothing}, Open(r, kind, d, u, o), ~RolledBack(r)
        PROVE  OnlyMoves(r) /\ UNCHANGED rows /\ Fresh(r)'
    <3> DEFINE new == [kind |-> kind, doc |-> d, user |-> u, op |-> o]
    <3>1. /\ pc[r] = "idle" /\ kind \notin {"Save", "Delete"}
          /\ \/ pc' = [pc EXCEPT ![r] = "loaded"]
             \/ pc' = [pc EXCEPT ![r] = "values"]
          /\ req' = [req EXCEPT ![r] = new]
          /\ entity' = [entity EXCEPT ![r] = [now |-> rows[d], was |-> rows[d]]]
          /\ UNCHANGED <<database, work>>
      BY <2>1 DEF Open, Goto, ByOperationsAlone
    <3>2. write[r] = Nothing
      BY <3>1 DEF DispatchInv, ShapeInv, Shape, Active, Finished
    <3>3. req'[r] = new /\ pc'[r] \in {"loaded", "values"} /\ write'[r] = Nothing
      BY <3>1, <3>2 DEF DispatchInv, TypeOK, work
    <3>4. Fresh(r)'
      BY <3>1, <3>3 DEF Fresh, Is
    <3> QED
      BY <3>1, <3>4 DEF OnlyMoves, DispatchInv, TypeOK, work, database
  <2>2. ASSUME NEW d \in Docs, NEW u \in Users, NEW row \in Row, Create(r, d, u, row)
        PROVE  OnlyMoves(r) /\ UNCHANGED rows /\ Fresh(r)'
    <3>1. OnlyMoves(r) /\ UNCHANGED rows
      BY <2>2 DEF Create, Goto, OnlyMoves, DispatchInv, TypeOK, database
    <3>2. req'[r] # Nothing => req'[r].kind = "Create"
      BY <2>2 DEF Create, DispatchInv, TypeOK
    <3> QED
      BY <3>1, <3>2 DEF Fresh, Is
  <2> QED
    BY <1>2, <1>3, <2>1, <2>2, FreshKept DEF Arrive
<1>4. ASSUME NEW r \in Requests, Serve(r), ~Commit(r), ~RolledBack(r) PROVE SnapInv'
  <2>1. UNCHANGED rows
    BY <1>4 DEF Serve, UpdateEntity, CheckDelete, DeleteRow, BlockDocument,
       CheckBeginState, CheckCancelCompleteState, WriteStartedOperationBegin,
       SerializeToRegistry, RunHandler, RestoreDocument, WriteEndOperation,
       UpdateDocument, DeleteRegistryRows, database
  <2>2. SameRequest(r)
    BY <1>4, ServeSame
  <2>3. ASSUME req[r].kind # "Begin" PROVE Fresh(r)'
    BY <2>2, <2>3 DEF SameRequest, SnapInv, Fresh, Is
  <2>4. ASSUME req[r].kind = "Begin" PROVE Fresh(r)'
    BY <1>4, <2>2, <2>4, FreshBegin
  <2> QED
    BY <1>4, <2>1, <2>3, <2>4, ServeMovesOne, FreshKept
<1> QED
  BY <1>1, <1>2, <1>3, <1>4, FreshCommit DEF Next

\* Between the serialisation and the commit of a Begin nobody else writes the
\* document: the image it carries is still the committed one (SerializeItem).
THEOREM SnapInvariant ==
  ASSUME ByOperationsAlone
  PROVE  Spec => [](DispatchInv /\ SnapInv)
<1>1. Init => SnapInv
  BY DEF Init, SnapInv, Fresh, Is
<1>2. DispatchInv /\ SnapInv /\ [Next]_vars => SnapInv'
  BY SnapInvStep
<1> QED
  BY <1>1, <1>2, DispatchInvariant, PTL DEF Spec

LEMMA CommitImplementsExclusive ==
  ASSUME DispatchInv, SnapInv, NEW r \in Requests, Commit(r)
  PROVE  Lifecycle!ExclusiveNext
<1> DEFINE d == Doc(r)
           so == [id |-> r, op |-> req[r].op, user |-> req[r].user]
<1> USE CommitFacts, CommitFrame DEF DispatchInv
<1>1. CASE req[r].kind = "Begin"
  <2>1. so \in StartedRow /\ so.id = r
    BY <1>1 DEF Request, StartedRow, Tags
  <2>2. started' = [started EXCEPT ![d] = so]
    BY <1>1 DEF Commit
  <2>3. snap[r] = rows[d]
    BY <1>1 DEF SnapInv, Fresh, Is
  <2>4. serialized' = [serialized EXCEPT ![d] = [id |-> so.id, data |-> rows[d]]]
    BY <1>1, <2>1, <2>3 DEF Commit
  <2>5. Lifecycle!Free(d)
    BY <1>1 DEF Lifecycle!Free, KeyInv, KeyHeld, Starters
  <2>6. Lifecycle!Begin(d, {rows[d]})
    BY <1>1, <2>1, <2>2, <2>4, <2>5, CommitChange DEF Lifecycle!Begin
  <2> QED
    BY <2>6 DEF Lifecycle!ExclusiveNext
<1>2. CASE req[r].kind # "Begin"
  <2>1. req[r].kind \notin {"Save", "Delete"}
    BY DEF SnapInv, Fresh, Is
  <2>2. Lifecycle!Operation(d)
    BY <1>2, <2>1, CommitOperation
  <2> QED
    BY <2>2 DEF Lifecycle!ExclusiveNext
<1> QED
  BY <1>1, <1>2

\* Where clients change documents by operations alone, the committed database
\* moves by the steps of the exclusive contract: the image stored with a begun
\* operation is the document at that Begin, and until its end no other step
\* changes the document.
THEOREM ExclusiveLifecycleTheorem ==
  ASSUME ByOperationsAlone
  PROVE  Spec => ImplementsExclusiveLifecycle
<1>1. DispatchInv /\ SnapInv /\ [Next]_vars => [Lifecycle!ExclusiveNext]_(Lifecycle!vars)
  BY OnlyCommitShows, CommitImplementsExclusive DEF database, Lifecycle!vars
<1> QED
  BY <1>1, LifecycleInit, SnapInvariant, PTL
     DEF Spec, ImplementsExclusiveLifecycle, Lifecycle!ExclusiveSpec

\* A Cancel undoes the operation it cancels and no more: the stored image is the
\* last committed document when the operation becomes begun.
THEOREM SnapshotIsLastCommittedTheorem ==
  ASSUME ByOperationsAlone
  PROVE  Spec => SnapshotIsLastCommitted
<1>1. DispatchInv /\ SnapInv /\ [Next]_vars =>
        [\A d \in Docs : started[d] = Nothing /\ started'[d] # Nothing
           => serialized'[d].data = rows[d]]_vars
  <2> SUFFICES ASSUME DispatchInv, SnapInv, [Next]_vars, NEW d \in Docs,
                      started[d] = Nothing, started'[d] # Nothing
               PROVE  serialized'[d].data = rows[d]
    BY Zenon
  <2>1. PICK r \in Requests : Commit(r)
    BY OnlyCommitShows DEF database
  <2>2. Doc(r) = d /\ req[r].kind = "Begin"
    BY <2>1 DEF Commit, DispatchInv, TypeOK, Enders
  <2>3. serialized'[d] = [id |-> r, data |-> snap[r]]
    BY <2>1, <2>2 DEF Commit, DispatchInv, TypeOK
  <2>4. snap[r] = rows[d]
    BY <2>1, <2>2, CommitFacts DEF SnapInv, Fresh, Is
  <2> QED
    BY <2>3, <2>4
<1> QED
  BY <1>1, SnapInvariant, PTL DEF Spec, SnapshotIsLastCommitted

\* Between a Begin and the end of the operation nothing changes the document.
THEOREM FrozenTheorem ==
  ASSUME ByOperationsAlone
  PROVE  Spec => FrozenWhileBegun
<1>1. DispatchInv /\ SnapInv /\ [Next]_vars =>
        [\A d \in Docs : started[d] # Nothing /\ rows'[d] # rows[d]
           => started'[d] = Nothing]_vars
  <2> SUFFICES ASSUME DispatchInv, SnapInv, [Next]_vars, NEW d \in Docs,
                      started[d] # Nothing, rows'[d] # rows[d]
               PROVE  started'[d] = Nothing
    BY Zenon
  <2>1. PICK r \in Requests : Commit(r)
    BY OnlyCommitShows DEF database
  <2>2. Doc(r) = d
    BY <2>1 DEF Commit, DispatchInv, TypeOK
  <2>3. req[r].kind \in Enders
    BY <2>1, <2>2, CommitFacts DEF DispatchInv, KeyInv, KeyHeld, NewInv, Created, Is,
                                   SnapInv, Fresh, Request, Starters, Enders
  <2> QED
    BY <2>1, <2>2, <2>3 DEF Commit, DispatchInv, TypeOK, Enders
<1> QED
  BY <1>1, SnapInvariant, PTL DEF Spec, FrozenWhileBegun
=============================================================================
