--------------------------- MODULE MCOperationForm ---------------------------
(***************************************************************************)
(* Small instances of OperationForm: two users, the edit operation, which  *)
(* opens a text field for them, and another that opens none and whose      *)
(* handlers set it.  The text is null, which the field shows as the empty  *)
(* string, that one, or another.                                           *)
(***************************************************************************)
EXTENDS OperationFormInv, TLC

MCEditable == [o \in Operations |-> IF o = "edit" THEN Fields ELSE {}]
MCHandled == [o \in Operations \cup {None} |-> [x \in Fields |-> IF o = "edit" THEN {} ELSE {0}]]
MCOpened == {[x \in Fields |-> 2]}
MCShown == [x \in Fields |-> [v \in Values |-> IF v = 0 THEN 1 ELSE v]]

FormSymmetry == Permutations(Forms)
=============================================================================
