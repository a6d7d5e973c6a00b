----------------------- MODULE OperationChecksProofs -----------------------
(***************************************************************************)
(* Proofs about OperationDispatch, continued: what the dispatcher checked  *)
(* before the handler still holds of what it commits.                      *)
(***************************************************************************)
EXTENDS OperationDispatchProofs

USE SentinelsAssumption

-----------------------------------------------------------------------------
(* Steps of one request and the others                                     *)

OnlySees(r) == OnlyMoves(r) /\ \A s \in Requests \ {r} : seen'[s] = seen[s]

LEMMA OverSees ==
  ASSUME DispatchInv, NEW r \in Requests, RolledBack(r)
  PROVE  OnlySees(r) /\ req'[r] = Nothing /\ pc'[r] = "failed" /\ UNCHANGED database
BY DEF DispatchInv, TypeOK, RolledBack, EndRequest, Goto, OnlySees, OnlyMoves

LEMMA ArriveSees ==
  ASSUME DispatchInv, NEW r \in Requests, Arrive(r)
  PROVE  /\ OnlySees(r) /\ UNCHANGED database /\ pc[r] = "idle" /\ pc'[r] # "committed"
         /\ Routed(r)' /\ EndsChecked(r)'
<1>1. ASSUME NEW kind \in Kinds, NEW d \in Docs, NEW u \in Users,
             NEW o \in Operations \cup {Nothing}, Open(r, kind, d, u, o), ~RolledBack(r)
      PROVE  /\ OnlySees(r) /\ UNCHANGED database /\ pc[r] = "idle" /\ pc'[r] # "committed"
             /\ Routed(r)' /\ EndsChecked(r)'
  <2> DEFINE new == [kind |-> kind, doc |-> d, user |-> u, op |-> o]
  <2>1. /\ pc[r] = "idle"
        /\ \/ kind # "Save" /\ pc' = [pc EXCEPT ![r] = "loaded"]
           \/ kind \in {"Save", "Complete"} /\ pc' = [pc EXCEPT ![r] = "values"]
        /\ req' = [req EXCEPT ![r] = new]
        /\ entity' = [entity EXCEPT ![r] = [now |-> rows[d], was |-> rows[d]]]
        /\ UNCHANGED <<database, seen, ends, work>>
    BY <1>1 DEF Open, Goto
  <2>2. OnlySees(r)
    BY <2>1 DEF DispatchInv, TypeOK, OnlySees, OnlyMoves, work
  <2>3. req'[r] = new /\ new.kind = kind /\ pc'[r] \in {"values", "loaded"}
    BY <2>1 DEF DispatchInv, TypeOK
  <2>4. entity'[r].now = entity'[r].was
    BY <2>1 DEF DispatchInv, TypeOK
  <2>5. pc'[r] = "loaded" \/ kind \in {"Save", "Complete"}
    BY <2>1 DEF DispatchInv, TypeOK
  <2> HIDE DEF new
  <2>6. Routed(r)' /\ EndsChecked(r)'
    BY <2>3, <2>4, <2>5 DEF Routed, EndsChecked, Is
  <2> QED
    BY <2>1, <2>2, <2>3, <2>6
<1>2. ASSUME NEW d \in Docs, NEW u \in Users, NEW row \in Row, Create(r, d, u, row)
      PROVE  /\ OnlySees(r) /\ UNCHANGED database /\ pc[r] = "idle" /\ pc'[r] # "committed"
             /\ Routed(r)' /\ EndsChecked(r)'
  <2> DEFINE new == [kind |-> "Create", doc |-> d, user |-> u, op |-> CreateOperation]
  <2>1. /\ pc[r] = "idle"
        /\ pc' = [pc EXCEPT ![r] = IF CreateOperation = Nothing THEN "written" ELSE "loaded"]
        /\ req' = [req EXCEPT ![r] = new]
        /\ entity' = [entity EXCEPT ![r] = [now |-> row, was |-> row]]
        /\ write' = [write EXCEPT ![r] = row]
        /\ UNCHANGED <<database, seen, ends, snap, key>>
    BY <1>2 DEF Create, Goto
  <2>2. OnlySees(r)
    BY <2>1 DEF DispatchInv, TypeOK, OnlySees, OnlyMoves
  <2>3. /\ req'[r] = new /\ new.kind = "Create" /\ new.op = CreateOperation
        /\ pc'[r] = IF CreateOperation = Nothing THEN "written" ELSE "loaded"
        /\ entity'[r].now = entity'[r].was
    BY <2>1 DEF DispatchInv, TypeOK
  <2> HIDE DEF new
  <2>4. Routed(r)' /\ EndsChecked(r)'
    BY <2>3 DEF Routed, EndsChecked, Is, Enders
  <2> QED
    BY <2>1, <2>2, <2>3, <2>4
<1>3. ASSUME NEW kind \in Kinds, NEW d \in Docs, NEW u \in Users,
             NEW o \in Operations \cup {Nothing}, Open(r, kind, d, u, o), RolledBack(r)
      PROVE  /\ OnlySees(r) /\ UNCHANGED database /\ pc[r] = "idle" /\ pc'[r] # "committed"
             /\ Routed(r)' /\ EndsChecked(r)'
  BY <1>3, OverSees DEF Open, Routed, EndsChecked, Is
<1> QED
  BY <1>1, <1>2, <1>3 DEF Arrive

LEMMA ServeSees ==
  ASSUME DispatchInv, NEW r \in Requests, Serve(r)
  PROVE  OnlySees(r) /\ Active(r) /\ (Commit(r) \/ pc'[r] # "committed")
<1>1. OnlyMoves(r)
  BY ServeMovesOne
<1>2. Active(r)
  BY DEF Serve, UpdateEntity, CheckDelete, DeleteRow, BlockDocument, CheckBeginState,
     CheckCancelCompleteState, WriteStartedOperationBegin, SerializeToRegistry,
     RunHandler, RestoreDocument, WriteEndOperation, UpdateDocument, DeleteRegistryRows,
     Commit, DispatchInv, ShapeInv, Shape, Active, Finished
<1>3. CASE RolledBack(r)
  BY <1>2, <1>3, OverSees
<1>4. CASE Commit(r)
  BY <1>1, <1>2, <1>4 DEF Commit, EndRequest, OnlySees, DispatchInv, TypeOK
<1>5. CASE CheckCancelCompleteState(r) /\ ~RolledBack(r)
  <2>1. seen' = [seen EXCEPT ![r] = started[Doc(r)].id] /\ pc' = [pc EXCEPT ![r] = "checked"]
    BY <1>5 DEF CheckCancelCompleteState, Goto
  <2> QED
    BY <1>1, <1>2, <2>1 DEF OnlySees, DispatchInv, TypeOK
<1>6. CASE ~CheckCancelCompleteState(r) /\ ~RolledBack(r) /\ ~Commit(r)
  <2>1. UNCHANGED seen
    BY <1>6 DEF Serve, UpdateEntity, CheckDelete, DeleteRow, BlockDocument,
       CheckBeginState, WriteStartedOperationBegin, SerializeToRegistry, RunHandler,
       RestoreDocument, WriteEndOperation, UpdateDocument, DeleteRegistryRows, session
  <2>2. pc'[r] # "committed"
    BY <1>2, <1>6 DEF Serve, UpdateEntity, CheckDelete, DeleteRow, BlockDocument,
       CheckBeginState, WriteStartedOperationBegin, SerializeToRegistry, RunHandler,
       RestoreDocument, WriteEndOperation, UpdateDocument, DeleteRegistryRows, Goto,
       DispatchInv, TypeOK
  <2> QED
    BY <1>1, <1>2, <2>1, <2>2 DEF OnlySees
<1> QED
  BY <1>3, <1>4, <1>5, <1>6

\* A request that becomes committed does so by its commit.
LEMMA CommittedIs ==
  ASSUME DispatchInv, [Next]_vars, NEW r \in Requests, Committed(r)
  PROVE  Commit(r)
<1>1. pc[r] = "written" /\ pc'[r] = "committed"
  BY DEF Committed
<1>2. PICK s \in Requests : Arrive(s) \/ Serve(s) \/ Abort(s)
  BY <1>1 DEF Next, vars
<1>3. OnlySees(s)
  BY <1>2, ArriveSees, ServeSees, OverSees DEF Abort
<1>4. s = r
  BY <1>1, <1>3 DEF OnlySees, OnlyMoves
<1> QED
  BY <1>1, <1>2, <1>4, ArriveSees, ServeSees, OverSees DEF Abort

-----------------------------------------------------------------------------
(* Routes                                                                  *)

LEMMA RoutedKept ==
  ASSUME RouteInv, NEW r \in Requests, OnlyMoves(r), Routed(r)'
  PROVE  RouteInv'
<1> SUFFICES ASSUME NEW s \in Requests PROVE Routed(s)'
  BY DEF RouteInv
<1>1. CASE s = r
  BY <1>1
<1>2. CASE s # r
  BY <1>2 DEF RouteInv, Routed, OnlyMoves, Is
<1> QED
  BY <1>1, <1>2

\* An atomic operation goes on from one check to the next.
LEMMA RoutedServe ==
  ASSUME DispatchInv, RouteInv, NEW r \in Requests, Serve(r), ~RolledBack(r), ~Commit(r),
         Is(r, {"Execute", "Create"}), req[r].op # Nothing
  PROVE  Routed(r)'
<1> DEFINE op == req[r].op
<1> USE DEF DispatchInv, TypeOK, Goto
<1>1. /\ req[r] # Nothing /\ req[r].kind \in {"Execute", "Create"} /\ req[r] \in Request
      /\ op \in Operations /\ Routed(r) /\ entity[r] \in Image
      /\ pc[r] \in {"loaded", "locked", "checked", "started", "handled", "written"}
  BY DEF Is, RouteInv, Request, ShapeInv, Shape, Place, Active, Finished, Enders, Starters, Operating
<1>2. CASE BlockDocument(r)
  BY <1>1, <1>2 DEF BlockDocument, Routed, Is, session
<1>3. CASE CheckBeginState(r)
  BY <1>1, <1>3 DEF CheckBeginState, Routed, Is, session
<1>4. CASE WriteStartedOperationBegin(r)
  BY <1>1, <1>4 DEF WriteStartedOperationBegin, Routed, Is, session
<1>5. CASE RunHandler(r)
  <2>1. pc[r] = "started" /\ pc' = [pc EXCEPT ![r] = "handled"] /\ UNCHANGED req
    BY <1>1, <1>5 DEF RunHandler
  <2>2. PICK status \in FinalStatuses(op), content \in {entity[r].now.content, r} :
          entity' = [entity EXCEPT ![r].now = [status |-> status, content |-> content]]
    BY <1>1, <1>5 DEF RunHandler
  <2>3. entity'[r].was = entity[r].was /\ entity'[r].now.status = status
    BY <1>1, <2>2 DEF Image
  <2>4. FinalStatus[op] = {} \/ status \in FinalStatus[op]
    BY <2>2 DEF FinalStatuses
  <2> QED
    BY <1>1, <2>1, <2>3, <2>4 DEF Routed, Is
<1>6. CASE UpdateDocument(r)
  <2>1. pc[r] = "handled" /\ pc'[r] = "written" /\ UNCHANGED <<req, entity>>
    BY <1>1, <1>6 DEF UpdateDocument, session
  <2> QED
    BY <1>1, <2>1 DEF Routed, Is
<1> QED
  BY <1>1, <1>2, <1>3, <1>4, <1>5, <1>6
     DEF Serve, UpdateEntity, CheckDelete, DeleteRow, CheckCancelCompleteState,
         SerializeToRegistry, RestoreDocument, WriteEndOperation, DeleteRegistryRows,
         Enders, Starters

LEMMA RouteInvStep == DispatchInv /\ RouteInv /\ [Next]_vars => RouteInv'
<1> SUFFICES ASSUME DispatchInv, RouteInv, [Next]_vars PROVE RouteInv'
  OBVIOUS
<1>1. CASE UNCHANGED vars
  BY <1>1 DEF RouteInv, Routed, Is, vars, session
<1>2. ASSUME NEW r \in Requests, Arrive(r) PROVE RouteInv'
  BY <1>2, ArriveSees, RoutedKept DEF OnlySees
<1>3. ASSUME NEW r \in Requests, RolledBack(r) PROVE RouteInv'
  <2>1. OnlyMoves(r) /\ Routed(r)'
    BY <1>3, OverSees DEF OnlySees, Routed, Is
  <2> QED
    BY <2>1, RoutedKept
<1>4. ASSUME NEW r \in Requests, Serve(r), ~RolledBack(r) PROVE RouteInv'
  <2>1. OnlyMoves(r)
    BY <1>4, ServeMovesOne
  <2>2. Routed(r)'
    <3>1. CASE Commit(r)
      <4>1. req'[r] = Nothing
        BY <3>1 DEF Commit, EndRequest, DispatchInv, TypeOK
      <4> QED
        BY <4>1 DEF Routed, Is
    <3>2. CASE ~Commit(r) /\ Is(r, {"Execute", "Create"}) /\ req[r].op # Nothing
      BY <1>4, <3>2, RoutedServe
    <3>3. CASE ~Commit(r) /\ ~(Is(r, {"Execute", "Create"}) /\ req[r].op # Nothing)
      <4>1. SameRequest(r)
        BY <1>4, <3>3, ServeSame
      <4>2. Is(r, {"Execute", "Create"}) => UNCHANGED req
        BY <1>4, <3>3 DEF Serve, UpdateEntity, CheckDelete, DeleteRow, BlockDocument,
           CheckBeginState, CheckCancelCompleteState, WriteStartedOperationBegin,
           SerializeToRegistry, RunHandler, RestoreDocument, WriteEndOperation,
           UpdateDocument, DeleteRegistryRows, session, Is, Enders
      <4> QED
        BY <3>3, <4>1, <4>2 DEF SameRequest, Routed, Is
    <3> QED
      BY <3>1, <3>2, <3>3
  <2> QED
    BY <2>1, <2>2, RoutedKept
<1> QED
  BY <1>1, <1>2, <1>3, <1>4 DEF Next, Abort

\* What an atomic operation leaves is checked against its route before and
\* after the handler; nothing comes between the checks and the commit.
THEOREM RouteInvariant == Spec => []RouteInv
<1>1. Init => RouteInv
  BY DEF Init, RouteInv, Routed, Is
<1> QED
  BY <1>1, RouteInvStep, DispatchInvariant, PTL DEF Spec

\* No record shows an atomic operation off its route (CheckOriginalStatus,
\* CheckFinalStatus, DoProcess).
THEOREM ExecutedFollowsRouteTheorem == Spec => ExecutedFollowsRoute
<1>1. DispatchInv /\ RouteInv /\ [Next]_vars =>
        [\A r \in Requests :
           LET e == Execution(r)
           IN  Committed(r) /\ req[r].kind \in {"Execute", "Create"} /\ req[r].op # Nothing
                 => /\ OriginalStatus[e.op] = {} \/ e.original \in OriginalStatus[e.op]
                    /\ FinalStatus[e.op] = {} \/ e.final \in FinalStatus[e.op]]_vars
  <2> SUFFICES ASSUME DispatchInv, RouteInv, NEW r \in Requests, Committed(r),
                      req[r].kind \in {"Execute", "Create"}, req[r].op # Nothing
               PROVE  LET e == Execution(r)
                      IN /\ OriginalStatus[e.op] = {} \/ e.original \in OriginalStatus[e.op]
                         /\ FinalStatus[e.op] = {} \/ e.final \in FinalStatus[e.op]
    BY Zenon
  <2>1. req[r] # Nothing
    BY DEF Committed, DispatchInv, ShapeInv, Shape, Active, Finished
  <2> QED
    BY <2>1 DEF RouteInv, Routed, Is, Committed, Execution
<1> QED
  BY <1>1, RouteInvariant, DispatchInvariant, PTL DEF Spec, ExecutedFollowsRoute

-----------------------------------------------------------------------------
(* The end of an operation                                                 *)

\* Past after the step, of a value from before or after it.
StillPast(tag) == tag = Initial \/ (tag \in Requests /\ pc'[tag] = "committed")

\* Who wrote a registry row never runs again.
LEMMA PastKept ==
  ASSUME NEW r \in Requests, OnlySees(r), pc[r] # "committed", NEW tag, Past(tag)
  PROVE  StillPast(tag)
BY DEF Past, StillPast, OnlySees, OnlyMoves

\* A step that commits nothing leaves what the other requests checked.
LEMMA EndsKept ==
  ASSUME DispatchInv, EndInv, NEW r \in Requests, OnlySees(r), UNCHANGED database,
         pc[r] # "committed", EndsChecked(r)'
  PROVE  EndInv'
<1>1. \A d \in Docs : started'[d] # Nothing => StillPast(started'[d].id)
  BY PastKept DEF EndInv, database
<1>2. ASSUME NEW s \in Requests, s # r PROVE EndsChecked(s)'
  <2>1. /\ pc'[s] = pc[s] /\ req'[s] = req[s] /\ entity'[s] = entity[s]
        /\ write'[s] = write[s] /\ seen'[s] = seen[s]
    BY <1>2 DEF OnlySees, OnlyMoves
  <2>2. EndsChecked(s) /\ (Past(seen[s]) => StillPast(seen[s]))
    BY PastKept DEF EndInv
  <2>3. Past(seen[s]) => StillPast(seen'[s])
    BY <2>1, <2>2
  <2> QED
    BY <2>1, <2>2, <2>3 DEF EndsChecked, Past, StillPast, Is, Doc, database
<1> QED
  BY <1>1, <1>2 DEF EndInv, Past, StillPast

\* Complete and Cancel go on from the check to the next statement.
LEMMA EndsServe ==
  ASSUME DispatchInv, EndInv, NEW r \in Requests, Serve(r), ~RolledBack(r), ~Commit(r),
         Is(r, Enders)
  PROVE  EndsChecked(r)'
<1> USE DEF DispatchInv, TypeOK
<1>1. /\ req[r] # Nothing /\ req[r].kind \in Enders /\ req[r] \in Request
      /\ EndsChecked(r) /\ entity[r] \in Image /\ Doc(r) \in Docs
      /\ pc[r] \in {"values", "loaded", "locked", "checked", "handled", "ended",
                     "updated", "written"}
  BY DEF Is, EndInv, Request, ShapeInv, Shape, Place, Active, Finished, Enders,
         Starters, Operating, Doc
<1>2. OnlySees(r) /\ pc[r] # "committed"
  BY <1>1, ServeSees
<1>3. CASE UpdateEntity(r)
  <2>1. req[r].kind = "Complete" /\ pc'[r] = "loaded" /\ UNCHANGED req
    BY <1>1, <1>3 DEF UpdateEntity, Goto, ShapeInv, Shape, Place, Active, Finished, Enders
  <2> QED
    BY <1>1, <2>1 DEF EndsChecked, Is
<1>4. CASE BlockDocument(r)
  BY <1>1, <1>4 DEF BlockDocument, Goto, EndsChecked, Is, session
<1>5. CASE CheckCancelCompleteState(r)
  <2> DEFINE so == started[Doc(r)]
  <2>1. /\ so # Nothing /\ Allowed(req[r].user, so)
        /\ req' = [req EXCEPT ![r].op = so.op] /\ seen' = [seen EXCEPT ![r] = so.id]
        /\ pc' = [pc EXCEPT ![r] = "checked"] /\ UNCHANGED <<database, entity>>
    BY <1>5 DEF CheckCancelCompleteState, Goto
  <2>2. /\ req'[r].kind = req[r].kind /\ req'[r].doc = req[r].doc
        /\ req'[r].user = req[r].user /\ req'[r].op = so.op
    BY <1>1, <2>1 DEF Request
  <2>3. seen'[r] = so.id /\ pc'[r] = "checked" /\ entity'[r] = entity[r]
        /\ started' = started
    BY <2>1 DEF database
  <2>4. StillPast(seen'[r])
    BY <1>1, <1>2, <2>1, <2>3, PastKept DEF EndInv
  <2>5. Doc(r)' = Doc(r)
    BY <2>2 DEF Doc
  <2>6. Is(r, {"Cancel"})' => entity'[r].now = entity'[r].was
    BY <1>1, <2>2, <2>3 DEF EndsChecked, Is
  <2>7. req'[r].user = started'[Doc(r)].user \/ req'[r].user \in Admins
    BY <2>1, <2>2, <2>3 DEF Allowed
  <2> QED
    BY <2>2, <2>3, <2>4, <2>5, <2>6, <2>7 DEF EndsChecked, Past, StillPast
<1>6. ASSUME UNCHANGED <<database, req, seen>>, pc[r] # "values", pc[r] # "loaded",
             pc[r] # "locked",
             req[r].kind = "Cancel" => UNCHANGED entity,
             req[r].kind = "Cancel" /\ rows[Doc(r)] # Nothing /\ started[Doc(r)] # Nothing
               => \/ pc[r] # "checked" /\ write'[r] = write[r]
                  \/ write'[r] = serialized[Doc(r)].data
      PROVE  EndsChecked(r)'
  <2>1. StillPast(seen[r])
    BY <1>1, <1>2, <1>6, PastKept DEF EndsChecked, Is
  <2>2. StillPast(seen'[r])
    BY <1>6, <2>1
  <2>3. Is(r, {"Cancel"})' => entity'[r].now = entity'[r].was
    BY <1>1, <1>6 DEF EndsChecked, Is
  <2> QED
    BY <1>1, <1>6, <2>2, <2>3 DEF EndsChecked, Past, StillPast, Is, Doc, database
<1>7. CASE RunHandler(r)
  BY <1>1, <1>6, <1>7 DEF RunHandler, Enders
<1>8. CASE RestoreDocument(r)
  BY <1>1, <1>6, <1>8 DEF RestoreDocument, StartedHasSnapshot, session
<1>9. CASE WriteEndOperation(r)
  BY <1>1, <1>6, <1>9 DEF WriteEndOperation, work
<1>10. CASE UpdateDocument(r)
  <2>1. pc[r] = "ended" /\ UNCHANGED <<database, session>>
    BY <1>1, <1>10 DEF UpdateDocument, session, Enders, Starters
  <2>2. req[r].kind = "Cancel" => Changed(entity[r]) = {}
    BY <1>1 DEF EndsChecked, Is, Changed
  <2>3. req[r].kind = "Cancel" => write'[r] = write[r]
    BY <1>10, <2>2 DEF UpdateDocument, work
  <2> QED
    BY <1>6, <2>1, <2>3 DEF session
<1>11. CASE DeleteRegistryRows(r)
  BY <1>1, <1>6, <1>11 DEF DeleteRegistryRows, session
<1> QED
  BY <1>1, <1>3, <1>4, <1>5, <1>7, <1>8, <1>9, <1>10, <1>11
     DEF Serve, CheckDelete, DeleteRow, CheckBeginState, WriteStartedOperationBegin,
         SerializeToRegistry, Enders, Starters

\* Another request's commit begins an operation nobody has checked yet, ends the
\* one that was begun, or leaves both registry rows; only a creation brings back
\* a row, of a document nobody knows.
LEMMA EndsCommit ==
  ASSUME DispatchInv, EndInv, NEW r \in Requests, Commit(r)
  PROVE  EndInv'
<1> DEFINE d == Doc(r)
<1> USE CommitFacts, CommitFrame DEF DispatchInv, TypeOK
<1>1. OnlySees(r) /\ req'[r] = Nothing /\ pc' = [pc EXCEPT ![r] = "committed"]
  BY DEF Commit, EndRequest, Goto, OnlySees, OnlyMoves
<1>2. \A tag : Past(tag) => StillPast(tag)
  BY <1>1, PastKept
<1>3. /\ \A e \in Docs \ {d} : /\ started'[e] = started[e] /\ serialized'[e] = serialized[e]
                              /\ rows'[e] = rows[e]
      /\ req[r].kind = "Begin" => started'[d].id = r
      /\ req[r].kind \in Enders => started'[d] = Nothing
      /\ rows'[d] # Nothing /\ rows[d] = Nothing => req[r].kind = "Create"
  BY DEF Commit, Enders, RowInv, RowHeld
<1>4. ~Past(r) /\ StillPast(r)
  BY <1>1, SentinelsAssumption DEF Past, StillPast
<1>5. ASSUME NEW e \in Docs, started'[e] # Nothing PROVE StillPast(started'[e].id)
  <2>1. CASE e = d /\ req[r].kind = "Begin"
    BY <1>3, <1>4, <2>1
  <2>2. CASE started'[e] = started[e]
    <3>1. Past(started[e].id)
      BY <1>5, <2>2 DEF EndInv
    <3>2. StillPast(started[e].id)
      BY <1>2, <3>1
    <3> QED
      BY <2>2, <3>2
  <2> QED
    BY <1>3, <1>5, <2>1, <2>2 DEF Enders
<1>6. ASSUME NEW s \in Requests, s # r PROVE EndsChecked(s)'
  <2>1. /\ pc'[s] = pc[s] /\ req'[s] = req[s] /\ entity'[s] = entity[s]
        /\ write'[s] = write[s] /\ seen'[s] = seen[s]
    BY <1>1, <1>6 DEF OnlySees, OnlyMoves
  <2>2. EndsChecked(s)
    BY DEF EndInv
  <2>3. Past(seen[s]) => StillPast(seen'[s])
    BY <1>2, <2>1
  <2>4. CASE ~Is(s, Enders)
    BY <2>1, <2>2, <2>4 DEF EndsChecked, Is, Enders
  <2>5. CASE Is(s, Enders) /\ pc[s] \in {"checked", "handled", "ended", "updated", "written"}
    <3> DEFINE e == Doc(s)
    <3>1. e \in Docs /\ Past(seen[s]) /\ Doc(s)' = e
      BY <2>1, <2>2, <2>5 DEF EndsChecked, Is, Doc, Request
    <3>2. started'[e] # Nothing /\ started'[e].id = seen[s] =>
            started'[e] = started[e] /\ serialized'[e] = serialized[e]
      BY <1>3, <1>4, <3>1 DEF Enders
    <3>3. rows'[e] # Nothing => rows[e] # Nothing
      BY <1>3, <1>6, <2>5, <3>1 DEF NewInv, Created, Is
    <3> QED
      BY <2>1, <2>2, <2>3, <2>5, <3>1, <3>2, <3>3 DEF EndsChecked, Past, StillPast, Is
  <2>6. CASE Is(s, Enders) /\ pc[s] \notin {"checked", "handled", "ended", "updated", "written"}
    BY <2>1, <2>2, <2>6 DEF EndsChecked, Is
  <2> QED
    BY <2>4, <2>5, <2>6
<1>7. EndsChecked(r)'
  BY <1>1 DEF EndsChecked, Is
<1> QED
  BY <1>5, <1>6, <1>7 DEF EndInv, Past, StillPast

LEMMA EndInvStep == DispatchInv /\ EndInv /\ [Next]_vars => EndInv'
<1> SUFFICES ASSUME DispatchInv, EndInv, [Next]_vars PROVE EndInv'
  OBVIOUS
<1>1. CASE UNCHANGED vars
  BY <1>1 DEF EndInv, EndsChecked, Past, Is, Doc, vars, database, session, work
<1>2. ASSUME NEW r \in Requests, Arrive(r) PROVE EndInv'
  BY <1>2, ArriveSees, EndsKept
<1>3. ASSUME NEW r \in Requests, RolledBack(r), pc[r] # "committed" PROVE EndInv'
  <2>1. OnlySees(r) /\ UNCHANGED database /\ EndsChecked(r)'
    BY <1>3, OverSees DEF EndsChecked, Is
  <2> QED
    BY <1>3, <2>1, EndsKept
<1>4. ASSUME NEW r \in Requests, Serve(r), ~RolledBack(r), ~Commit(r) PROVE EndInv'
  <2>1. OnlySees(r) /\ pc[r] # "committed" /\ SameRequest(r)
    BY <1>4, ServeSees, ServeSame DEF Active, Finished
  <2>2. UNCHANGED database
    BY <1>4 DEF Serve, UpdateEntity, CheckDelete, DeleteRow, BlockDocument, CheckBeginState,
       CheckCancelCompleteState, WriteStartedOperationBegin, SerializeToRegistry,
       RunHandler, RestoreDocument, WriteEndOperation, UpdateDocument, DeleteRegistryRows,
       database
  <2>3. CASE Is(r, Enders)
    BY <1>4, <2>1, <2>2, <2>3, EndsServe, EndsKept
  <2>4. CASE ~Is(r, Enders)
    <3>1. EndsChecked(r)'
      BY <2>1, <2>4 DEF SameRequest, EndsChecked, Is, Enders
    <3> QED
      BY <2>1, <2>2, <3>1, EndsKept
  <2> QED
    BY <2>3, <2>4
<1>5. ASSUME NEW r \in Requests, Serve(r) \/ Abort(r) PROVE EndInv'
  <2>1. pc[r] # "committed"
    BY <1>5, ServeSees DEF Abort, Active, Finished
  <2> QED
    BY <1>3, <1>4, <1>5, <2>1, EndsCommit DEF Abort
<1> QED
  BY <1>1, <1>2, <1>5 DEF Next

-----------------------------------------------------------------------------
(* The status a request leaves                                             *)

\* Another request changes the row of a document only if it alone has written
\* it, and no request of a kind that leaves a status shares its document with one.
LEMMA LeavesKept ==
  ASSUME DispatchInv, StatusInv, NEW r \in Requests, OnlySees(r), Leaves(r)',
         UNCHANGED rows \/ Commit(r)
  PROVE  StatusInv'
<1> SUFFICES ASSUME NEW s \in Requests, s # r PROVE Leaves(s)'
  BY DEF StatusInv
<1>1. /\ pc'[s] = pc[s] /\ req'[s] = req[s] /\ entity'[s] = entity[s]
      /\ write'[s] = write[s]
  BY DEF OnlySees, OnlyMoves
<1>2. Leaves(s) /\ Doc(s)' = Doc(s)
  BY <1>1 DEF StatusInv, Doc
<1>3. CASE UNCHANGED rows
  BY <1>1, <1>2, <1>3 DEF Leaves, Is
<1>4. CASE Commit(r) /\ write[s] # Nothing /\ req[s] # Nothing
  <2>1. Doc(s) \in Docs /\ Doc(r) \in Docs
    BY <1>4, CommitFacts DEF DispatchInv, TypeOK, Request, Doc
  <2>2. write[r] = Nothing \/ Doc(s) # Doc(r)
    BY <1>4 DEF DispatchInv, RowInv, RowHeld
  <2>3. rows'[Doc(s)] = rows[Doc(s)]
    BY <1>4, <2>1, <2>2 DEF Commit, DispatchInv, TypeOK
  <2> QED
    BY <1>1, <1>2, <2>3 DEF Leaves, Is
<1>5. CASE write[s] = Nothing \/ req[s] = Nothing
  BY <1>1, <1>2, <1>5 DEF Leaves, Is
<1> QED
  BY <1>3, <1>4, <1>5

LEMMA LeavesArrive ==
  ASSUME DispatchInv, NEW r \in Requests, Arrive(r)
  PROVE  Leaves(r)'
<1> USE DEF DispatchInv, TypeOK, Goto
<1>1. write[r] = Nothing
  BY DEF Arrive, Open, Create, ShapeInv, Shape, Active, Finished
<1>2. ASSUME NEW kind \in Kinds, NEW d \in Docs, NEW u \in Users,
             NEW o \in Operations \cup {Nothing}, Open(r, kind, d, u, o), ~RolledBack(r)
      PROVE  Leaves(r)'
  <2>1. pc'[r] \in {"values", "loaded"} /\ write'[r] = Nothing
    BY <1>1, <1>2 DEF Open, work
  <2> QED
    BY <2>1 DEF Leaves
<1>3. ASSUME NEW d \in Docs, NEW u \in Users, NEW row \in Row, Create(r, d, u, row)
      PROVE  Leaves(r)'
  <2>1. /\ write'[r] = row /\ entity'[r].was = row
        /\ req'[r].op = CreateOperation
        /\ pc'[r] = IF CreateOperation = Nothing THEN "written" ELSE "loaded"
    BY <1>3 DEF Create
  <2> QED
    BY <2>1 DEF Leaves
<1>4. ASSUME RolledBack(r) PROVE Leaves(r)'
  BY <1>4, OverSees DEF Leaves, Is
<1> QED
  BY <1>2, <1>3, <1>4 DEF Arrive

\* SaveChanges: the columns changed since the load, over the row as it is now.
LEMMA LeavesUpdate ==
  ASSUME DispatchInv, StatusInv, NEW r \in Requests, UpdateDocument(r), ~RolledBack(r)
  PROVE  Leaves(r)'
<1> USE DEF DispatchInv, TypeOK, Goto
<1>1. /\ pc[r] \in {"handled", "ended"} /\ pc'[r] \in {"updated", "written"}
      /\ req[r] # Nothing /\ entity[r] \in Image
      /\ UNCHANGED <<rows, req, entity>> /\ Leaves(r) /\ Doc(r)' = Doc(r)
  BY DEF UpdateDocument, ShapeInv, Shape, Active, Finished, StatusInv, session, database, Doc
<1>2. write[r] # Nothing /\ Is(r, {"Execute", "Create", "Complete"})
        => write[r].status = entity[r].was.status
  BY <1>1 DEF Leaves
<1>3. CASE Changed(entity[r]) = {}
  <2>1. UNCHANGED write
    BY <1>3 DEF UpdateDocument, work
  <2>2. entity[r].now.status = entity[r].was.status
    BY <1>3 DEF Changed
  <2> QED
    BY <1>1, <1>2, <2>1, <2>2 DEF Leaves, Is
<1>4. CASE Changed(entity[r]) # {}
  <2>1. Current(r) # Nothing /\ write'[r] = Overlay(entity[r], Current(r))
    BY <1>4 DEF UpdateDocument
  <2>2. /\ write'[r].status = IF "status" \in Changed(entity[r])
                              THEN entity[r].now.status ELSE Current(r).status
        /\ "status" \notin Changed(entity[r])
             => entity[r].now.status = entity[r].was.status
    BY <2>1 DEF Overlay, Changed
  <2>3. Current(r) = IF write[r] # Nothing THEN write[r] ELSE rows[Doc(r)]
    BY DEF Current
  <2>4. write'[r] # Nothing
    <3>1. write[r] # Deleted
      BY <1>1 DEF ShapeInv, Shape, Place, Active, Finished, RowInv, RowHeld,
         Operating, Starters, Enders
    <3>2. Current(r) \in Row
      BY <1>1, <2>1, <2>3, <3>1 DEF Request, Doc
    <3>3. Overlay(entity[r], Current(r)) \in Row
      BY <1>1, <3>2 DEF Overlay, Row, Image
    <3>4. write'[r] = Overlay(entity[r], Current(r))
      BY <2>1
    <3> QED
      BY <3>3, <3>4
  <2>5. ASSUME Is(r, {"Execute", "Create", "Complete"})
        PROVE  \/ write'[r].status = entity[r].now.status
               \/ /\ entity[r].now.status = entity[r].was.status
                  /\ rows[Doc(r)] # Nothing /\ write'[r].status = rows[Doc(r)].status
    BY <1>2, <2>1, <2>2, <2>3, <2>5
  <2> QED
    BY <1>1, <2>4, <2>5 DEF Leaves, Is
<1> QED
  BY <1>3, <1>4

LEMMA LeavesServe ==
  ASSUME DispatchInv, StatusInv, NEW r \in Requests, Serve(r), ~RolledBack(r), ~Commit(r)
  PROVE  Leaves(r)' /\ UNCHANGED rows
<1>1. SameRequest(r) /\ Active(r) /\ UNCHANGED rows /\ Leaves(r)
  BY ServeSame, ServeSees DEF StatusInv, Serve, UpdateEntity, CheckDelete, DeleteRow,
     BlockDocument, CheckBeginState, CheckCancelCompleteState, WriteStartedOperationBegin,
     SerializeToRegistry, RunHandler, RestoreDocument, WriteEndOperation, UpdateDocument,
     DeleteRegistryRows, database
<1>2. CASE ~Is(r, {"Execute", "Create", "Complete"})
  BY <1>1, <1>2 DEF SameRequest, Leaves, Is
<1>3. CASE Is(r, {"Execute", "Create", "Complete"})
  <2>1. CASE UpdateEntity(r)
    <3>1. PICK row \in [status : Statuses, content : {r}] :
            /\ write' = [write EXCEPT ![r] = row]
            /\ entity' = [entity EXCEPT ![r] = [now |-> row, was |-> row]]
      BY <2>1 DEF UpdateEntity
    <3>2. pc'[r] = "loaded"
      BY <1>3, <2>1 DEF UpdateEntity, Is, Goto, DispatchInv, TypeOK
    <3>3. write'[r] = row /\ entity'[r].was = row
      BY <3>1 DEF DispatchInv, TypeOK
    <3> QED
      BY <1>1, <3>2, <3>3 DEF Leaves
  <2>2. CASE RunHandler(r)
    <3>1. /\ pc[r] \in {"started", "checked"} /\ pc'[r] = "handled" /\ write'[r] = write[r]
          /\ entity'[r].was = entity[r].was /\ UNCHANGED req
      BY <1>3, <2>2 DEF RunHandler, Is, work, Goto, DispatchInv, TypeOK
    <3> QED
      BY <1>1, <3>1 DEF Leaves, Is
  <2>3. CASE UpdateDocument(r)
    BY <1>1, <2>3, LeavesUpdate
  <2>4. CASE DeleteRegistryRows(r)
    <3>1. pc[r] = "updated" /\ pc'[r] = "written" /\ UNCHANGED <<rows, req, entity, write>>
      BY <2>4 DEF DeleteRegistryRows, session, database, Goto, DispatchInv, TypeOK
    <3> QED
      BY <1>1, <3>1 DEF Leaves, Is, Doc
  <2>5. CASE \/ BlockDocument(r) \/ CheckBeginState(r) \/ CheckCancelCompleteState(r)
             \/ WriteStartedOperationBegin(r) \/ WriteEndOperation(r)
    <3>1. /\ pc[r] \notin {"updated", "written"} /\ pc'[r] \notin {"updated", "written"}
          /\ write'[r] = write[r] /\ entity'[r] = entity[r]
      BY <2>5 DEF BlockDocument, CheckBeginState, CheckCancelCompleteState,
         WriteStartedOperationBegin, WriteEndOperation, session, work, Goto,
         DispatchInv, TypeOK
    <3> QED
      BY <1>1, <1>3, <3>1 DEF Leaves, Is
  <2> QED
    BY <1>3, <2>1, <2>2, <2>3, <2>4, <2>5 DEF Serve, CheckDelete, DeleteRow,
       SerializeToRegistry, RestoreDocument, DispatchInv, ShapeInv, Shape, Place, Active, Finished, Is
<1> QED
  BY <1>1, <1>2, <1>3

LEMMA StatusInvStep == DispatchInv /\ StatusInv /\ [Next]_vars => StatusInv'
<1> SUFFICES ASSUME DispatchInv, StatusInv, [Next]_vars PROVE StatusInv'
  OBVIOUS
<1>1. CASE UNCHANGED vars
  BY <1>1 DEF StatusInv, Leaves, Is, Doc, vars, database, session, work
<1>2. ASSUME NEW r \in Requests, Arrive(r) PROVE StatusInv'
  BY <1>2, ArriveSees, LeavesArrive, LeavesKept DEF database
<1>3. ASSUME NEW r \in Requests, RolledBack(r) PROVE StatusInv'
  <2>1. OnlySees(r) /\ UNCHANGED database /\ Leaves(r)'
    BY <1>3, OverSees DEF Leaves, Is
  <2> QED
    BY <2>1, LeavesKept DEF database
<1>4. ASSUME NEW r \in Requests, Serve(r), ~RolledBack(r), ~Commit(r) PROVE StatusInv'
  BY <1>4, ServeSees, LeavesServe, LeavesKept
<1>5. ASSUME NEW r \in Requests, Serve(r), Commit(r) PROVE StatusInv'
  <2>1. req'[r] = Nothing
    BY <1>5 DEF Commit, EndRequest, DispatchInv, TypeOK
  <2>2. Leaves(r)'
    BY <2>1 DEF Leaves, Is
  <2> QED
    BY <1>5, <2>2, ServeSees, LeavesKept
<1> QED
  BY <1>1, <1>2, <1>3, <1>4, <1>5 DEF Next, Abort

\* The status a record names is that of the row, or the operation has left the
\* status alone (WriteToExecutedOperationEnd, SaveChanges).
THEOREM StatusInvariant == Spec => []StatusInv
<1>1. Init => StatusInv
  BY DEF Init, StatusInv, Leaves, Is
<1> QED
  BY <1>1, StatusInvStep, DispatchInvariant, PTL DEF Spec

\* A document is left in the status its record names, or, by an operation that
\* leaves the status alone, in the one last committed.
THEOREM StatusLeftTheorem == Spec => StatusLeftAsRecorded
<1>1. DispatchInv /\ StatusInv /\ [Next]_vars =>
        [\A r \in Requests :
           LET d == Doc(r)
               e == Execution(r)
           IN  Committed(r) /\ req[r].kind \in {"Execute", "Create", "Complete"}
                 /\ req[r].op # Nothing /\ rows'[d] # Nothing
                 => \/ rows'[d].status = e.final
                    \/ /\ e.original = e.final
                       /\ rows[d] # Nothing /\ rows'[d].status = rows[d].status]_vars
  <2> SUFFICES ASSUME DispatchInv, StatusInv, [Next]_vars, NEW r \in Requests, Committed(r),
                      req[r].kind \in {"Execute", "Create", "Complete"},
                      req[r].op # Nothing, rows'[Doc(r)] # Nothing
               PROVE  LET d == Doc(r)
                          e == Execution(r)
                      IN \/ rows'[d].status = e.final
                         \/ /\ e.original = e.final
                            /\ rows[d] # Nothing /\ rows'[d].status = rows[d].status
    BY Zenon
  <2> DEFINE d == Doc(r)
  <2>1. Commit(r) /\ pc[r] = "written" /\ req[r] # Nothing /\ d \in Docs
    BY CommittedIs, CommitFacts, CommitFrame DEF DispatchInv, TypeOK, ShapeInv, Shape, Active, Finished
  <2>2. write[r] # Deleted
    BY <2>1, CommitFacts
  <2>3. rows'[d] = IF write[r] = Nothing THEN rows[d] ELSE write[r]
    BY <2>1, <2>2 DEF Commit, DispatchInv, TypeOK
  <2>4. /\ Execution(r).original = entity[r].was.status
        /\ Execution(r).final = entity[r].now.status
    BY DEF Execution
  <2>5. Leaves(r)
    BY DEF StatusInv
  <2> QED
    BY <2>1, <2>3, <2>4, <2>5 DEF Leaves, Is
<1> QED
  BY <1>1, StatusInvariant, DispatchInvariant, PTL DEF Spec, StatusLeftAsRecorded

-----------------------------------------------------------------------------
\* What a Complete or a Cancel found when it checked the begun operation is still
\* so while that operation is begun, whatever others commit (CheckCancelCompleteState,
\* RestoreFromRegistry, WriteEndOperation).
THEOREM CheckedInvariant == Spec => []CheckedInv
<1>1. Init => EndInv
  BY DEF Init, EndInv, EndsChecked, Past, Is
<1>2. Spec => []EndInv
  BY <1>1, EndInvStep, DispatchInvariant, PTL DEF Spec
<1> QED
  BY <1>2, RouteInvariant, StatusInvariant, PTL DEF CheckedInv

\* A Complete or a Cancel that ends the operation it checked ends it as checked:
\* by an allowed user, under its own name, and a Cancel with the stored document.
THEOREM EndsWhatItCheckedTheorem == Spec => EndsWhatItChecked
<1>1. DispatchInv /\ EndInv /\ [Next]_vars =>
        [\A r \in Requests :
           LET d == Doc(r)
           IN  Committed(r) /\ req[r].kind \in Enders
                 => /\ started[d] # Nothing /\ started'[d] = Nothing
                    /\ started[d].id = seen[r] =>
                         /\ req[r].user = started[d].user \/ req[r].user \in Admins
                         /\ req[r].op = started[d].op
                         /\ req[r].kind = "Cancel" /\ rows[d] # Nothing
                              => rows'[d] = serialized[d].data]_vars
  <2> SUFFICES ASSUME DispatchInv, EndInv, [Next]_vars, NEW r \in Requests, Committed(r),
                      req[r].kind \in Enders
               PROVE  LET d == Doc(r)
                      IN /\ started[d] # Nothing /\ started'[d] = Nothing
                         /\ started[d].id = seen[r] =>
                              /\ req[r].user = started[d].user \/ req[r].user \in Admins
                              /\ req[r].op = started[d].op
                              /\ req[r].kind = "Cancel" /\ rows[d] # Nothing
                                   => rows'[d] = serialized[d].data
    BY Zenon
  <2> DEFINE d == Doc(r)
  <2>1. Commit(r) /\ pc[r] = "written" /\ req[r] # Nothing /\ d \in Docs
    BY CommittedIs, CommitFacts, CommitFrame DEF DispatchInv, TypeOK, ShapeInv, Shape, Active, Finished
  <2>2. key[r] /\ started[d] # Nothing
    BY <2>1 DEF DispatchInv, KeyInv, KeyHeld, Holds, Is, Enders, Starters
  <2>3. started'[d] = Nothing
    BY <2>1 DEF Commit, DispatchInv, TypeOK, Enders
  <2>4. EndsChecked(r) /\ serialized[d] \in SerializedRow
    BY <2>1, <2>2 DEF EndInv, DispatchInv, TypeOK, StartedHasSnapshot
  <2>5. ASSUME req[r].kind = "Cancel", rows[d] # Nothing, started[d].id = seen[r]
        PROVE  rows'[d] = serialized[d].data
    <3>1. write[r] = serialized[d].data
      BY <2>1, <2>2, <2>4, <2>5 DEF EndsChecked, Is, Enders
    <3>2. write[r] \in Row
      BY <2>4, <3>1 DEF SerializedRow
    <3> QED
      BY <2>1, <3>1, <3>2, SentinelsAssumption DEF Commit, DispatchInv, TypeOK
  <2> QED
    BY <2>1, <2>2, <2>3, <2>4, <2>5 DEF EndsChecked, Is
<1>2. Spec => []EndInv
  BY CheckedInvariant, PTL DEF CheckedInv
<1> QED
  BY <1>1, <1>2, DispatchInvariant, PTL DEF EndsWhatItChecked, Spec
=============================================================================
