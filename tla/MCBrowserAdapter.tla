-------------------------- MODULE MCBrowserAdapter --------------------------
(***************************************************************************)
(* A small instance of BrowserAdapter: overlapping requests, two sign-ins  *)
(* and two payloads of one resource.                                       *)
(***************************************************************************)
EXTENDS BrowserAdapter, TLC

CONSTANTS resource, p1, p2

MCPaths == {<<resource, p>> : p \in {p1, p2}}

MCSymmetry == Permutations(Requests) \cup Permutations({p1, p2})

=============================================================================
