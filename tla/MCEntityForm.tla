---------------------------- MODULE MCEntityForm ----------------------------
(***************************************************************************)
(* Small instances of EntityForm: two forms of a page over a stored row    *)
(* and one still to be created, with a text - null, which the field shows  *)
(* as the empty string, that one and another - and a date nobody types in. *)
(***************************************************************************)
EXTENDS EntityFormInv, TLC

CONSTANTS name, date

MCValues == [x \in Fields |-> IF x = name THEN {0, 1, 2} ELSE {0}]

MCOthersWrite == [x \in Fields |-> IF x = name THEN {2} ELSE {}]

MCShown == [x \in Fields |->
  [v \in MCValues[x] |-> IF x = name /\ v = 0 THEN 1 ELSE v]]

FormSymmetry == Permutations(Forms)
=============================================================================
