------------------------- MODULE MCOperationDispatch -------------------------
(***************************************************************************)
(* Small instances of OperationDispatch: two statuses and the operations   *)
(* a document class of the repository typically has.                       *)
(***************************************************************************)
EXTENDS OperationDispatchInv, TLC

\* "approve" leads from draft to approved; "edit" may start from any status and
\* its handler may leave the document in either.
MCOriginalStatus == [o \in Operations |-> IF o = "approve" THEN {"draft"} ELSE {}]
MCFinalStatus == 
  [o \in Operations |-> Statuses \cap (IF o = "approve" THEN {"approved"} ELSE {"draft", "approved"})]

RequestSymmetry == Permutations(Requests)
=============================================================================
