--------------------------- MODULE MCGroupRequests ---------------------------
(* Small instances of GroupRequests. *)
EXTENDS GroupRequestsInv, TLC

ItemSymmetry == Permutations(Items)
=============================================================================
