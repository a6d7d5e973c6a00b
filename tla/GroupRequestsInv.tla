--------------------------- MODULE GroupRequestsInv ---------------------------
(***************************************************************************)
(* The inductive invariant of GroupRequests: where every document of the   *)
(* request stands and what the shared context still holds of it.           *)
(***************************************************************************)
EXTENDS GroupRequests

Working == {"loaded", "running", "returned", "set", "saved"}

\* Every document is in exactly one place.
PlaceInv ==
  /\ done \cap reported = {}
  /\ todo \cap (done \cup reported) = {}
  /\ item \notin done \cup reported \cup todo
  /\ Items \subseteq done \cup reported \cup todo \cup {item}
  /\ pc \in Working => item # Nothing
  /\ pc \in {"next", "answered"} => item = Nothing
  /\ pc = "answered" => todo = {}

\* Outside a transaction the request sees the committed rows.
OutsideTransaction ==
  pc \in {"answered", "thrown"} \/ (pc = "next" /\ kind = "Execute") =>
    txRows = rows /\ txExecuted = executed

\* The statements belong to one kind of request or the other.
KindInv ==
  /\ pc \in {"running", "returned"} => kind = "Execute"
  /\ pc \in {"set", "saved"} => kind = "Update"

\* How far the document in hand has come.
InHand ==
  /\ pc \in Working =>
       image[item] # Nothing /\ txRows[item] # Nothing /\ image[item].was = txRows[item]
  /\ pc = "loaded" => entry[item] = Nothing
  /\ pc \in {"running", "returned"} =>
       /\ entry[item] # Nothing
       /\ OriginalStatus = {} \/ entry[item].row.original \in OriginalStatus
       /\ entry[item].added \/ Len(txExecuted[item]) = 1
  /\ pc = "returned" =>
       /\ entry[item].row.final = image[item].now.status
       /\ FinalStatus = {} \/ image[item].now.status \in FinalStatus
  /\ pc \in {"set", "saved"} => image[item].now.edited
  /\ pc = "saved" => ~Pending(item)

\* A record is in the database once, or not yet, or no more (rolled back).
RecordInv(i) ==
  /\ Len(executed[i]) <= 1 /\ Len(txExecuted[i]) <= 1
  /\ entry[i] = Nothing \/ entry[i].added => executed[i] = <<>> /\ txExecuted[i] = <<>>
  /\ image[i] = Nothing => entry[i] = Nothing

\* A completed document has nothing left to save.
Settled(i) ==
  /\ rows[i] # Nothing /\ txRows[i] = rows[i] /\ txExecuted[i] = executed[i]
  /\ image[i] # Nothing /\ ~Pending(i)
  /\ entry[i] # Nothing /\ ~entry[i].added
  /\ executed[i] = <<entry[i].row>>
  /\ OriginalStatus = {} \/ entry[i].row.original \in OriginalStatus
  /\ entry[i].row.final = rows[i].status
  /\ FinalStatus = {} \/ rows[i].status \in FinalStatus

\* An accepted one has its values in the transaction.
Kept(i) ==
  /\ txRows[i] # Nothing /\ txRows[i].edited
  /\ image[i] # Nothing /\ ~Pending(i)

DocumentInv(i) ==
  /\ RecordInv(i)
  /\ i \in todo => image[i] = Nothing
  /\ kind = "Execute" /\ i \in done => Settled(i)
  /\ kind = "Update" /\ i \in done /\ pc # "thrown" => Kept(i)

GroupInv ==
  /\ TypeOK /\ PlaceInv /\ OutsideTransaction /\ KindInv /\ InHand
  /\ \A i \in Items : DocumentInv(i)
=============================================================================
