-------------------------- MODULE MCPayloadCustody --------------------------
(***************************************************************************)
(* Two calls, of one invocation or of two, two payload versions, and two   *)
(* versions of the resource key.                                           *)
(***************************************************************************)
EXTENDS PayloadCustody, TLC

Perms == Permutations(Calls) \cup Permutations(Invocations) \cup Permutations(Writers)

=============================================================================
