------------------------------ MODULE MCGrants ------------------------------
(***************************************************************************)
(* Two sessions of the device and two panel requests in flight, for one    *)
(* permission a panel writes directly and the one it can only ask for.     *)
(* The run checks invariants only, so sessions and requests may be         *)
(* exchanged for each other.                                               *)
(***************************************************************************)
EXTENDS Grants, TLC

Symmetry == Permutations(Sessions) \union Permutations(Requests)
=============================================================================
