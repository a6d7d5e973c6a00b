---------------------------- MODULE ToolLifecycle ----------------------------
(***************************************************************************)
(* What the operations over documents promise to whoever looks at the      *)
(* committed database: every request either leaves it alone or takes       *)
(* effect at once.  A document is free or has one begun operation; with it *)
(* stands the stored image that a Cancel restores.                         *)
(*                                                                         *)
(* Spec lets clients also save and delete documents behind the operations' *)
(* back, as they may.  ExclusiveSpec is the contract where they do not:    *)
(* there the stored image is the document at the moment of Begin, and a    *)
(* document with a begun operation does not change until its end.          *)
(***************************************************************************)
EXTENDS Naturals, Sequences

CONSTANTS Docs, Row, StartedRow, SerializedRow, ExecutedRow, Nothing

VARIABLES rows, started, serialized, executed

vars == <<rows, started, serialized, executed>>

Init ==
  /\ rows \in [Docs -> Row \cup {Nothing}]
  /\ started \in [Docs -> StartedRow \cup {Nothing}]
  /\ serialized \in [Docs -> SerializedRow \cup {Nothing}]
  /\ \A d \in Docs :
       /\ started[d] = Nothing <=> serialized[d] = Nothing
       /\ started[d] # Nothing =>
            rows[d] # Nothing /\ serialized[d].id = started[d].id
  /\ executed = [d \in Docs |-> <<>>]

Free(d) == started[d] = Nothing
Begun(d) == started[d] # Nothing

\* An operation never makes a row and never removes one.
Change(d) ==
  /\ \E row \in Row \cup {Nothing} :
       /\ row = Nothing <=> rows[d] = Nothing
       /\ rows' = [rows EXCEPT ![d] = row]

Record(d, e) == executed' = [executed EXCEPT ![d] = Append(@, e)]

\* A non-atomic operation begins: its row and the stored image appear together.
Begin(d, images) ==
  /\ Free(d)
  /\ \E so \in StartedRow :
       /\ started' = [started EXCEPT ![d] = so]
       /\ \E image \in images :
            serialized' = [serialized EXCEPT ![d] = [id |-> so.id, data |-> image]]
  /\ Change(d)
  /\ UNCHANGED executed

\* The begun operation ends: a Complete is recorded, a Cancel is not.
End(d) ==
  /\ Begun(d)
  /\ started' = [started EXCEPT ![d] = Nothing]
  /\ serialized' = [serialized EXCEPT ![d] = Nothing]
  /\ Change(d)
  /\ \/ \E e \in ExecutedRow : Record(d, e)
     \/ UNCHANGED executed

\* An atomic operation.
Execute(d, e) ==
  /\ Free(d)
  /\ Change(d)
  /\ Record(d, e)
  /\ UNCHANGED <<started, serialized>>

\* A new document, with the record of its "Create" if there is such an operation.
Create(d, row) ==
  /\ rows[d] = Nothing /\ Free(d)
  /\ rows' = [rows EXCEPT ![d] = row]
  /\ \/ \E e \in ExecutedRow : Record(d, e)
     \/ UNCHANGED executed
  /\ UNCHANGED <<started, serialized>>

\* What clients do beside the operations.
Save(d) ==
  /\ Change(d)
  /\ UNCHANGED <<started, serialized, executed>>

Delete(d) ==
  /\ rows' = [rows EXCEPT ![d] = Nothing]
  /\ executed' = [executed EXCEPT ![d] = <<>>]
  /\ UNCHANGED <<started, serialized>>

Operation(d) ==
  \/ End(d)
  \/ \E e \in ExecutedRow : Execute(d, e)
  \/ \E row \in Row : Create(d, row)

Next == \E d \in Docs :
  Begin(d, Row) \/ Operation(d) \/ Save(d) \/ Delete(d)

ExclusiveNext == \E d \in Docs :
  Begin(d, {rows[d]}) \/ Operation(d)

Spec == Init /\ [][Next]_vars
ExclusiveSpec == Init /\ [][ExclusiveNext]_vars
=============================================================================
