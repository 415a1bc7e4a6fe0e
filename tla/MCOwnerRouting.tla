---------------------------- MODULE MCOwnerRouting --------------------------
(***************************************************************************)
(* Small instances of OwnerRouting: two calls, and ownership that moves to *)
(* another instance and back.                                              *)
(***************************************************************************)
EXTENDS OwnerRouting, TLC

MCSymmetry == Permutations(Calls) \cup Permutations(Instances)

=============================================================================
