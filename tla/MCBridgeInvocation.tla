------------------------- MODULE MCBridgeInvocation -------------------------
(***************************************************************************)
(* Small instances of BridgeInvocation: calls with a grant, its renewal    *)
(* and a grant for another content of the same operation.                  *)
(***************************************************************************)
EXTENDS BridgeInvocation, TLC

CONSTANTS op, a, b, x, y

Invocation(content, issued, expires) ==
    [kind |-> "invocation", id |-> op, content |-> content,
     issuedAt |-> issued, expiresAt |-> expires]

MCOps == {op}
MCContents == {a, b}
MCOutputs == {x, y}
MCGrants == {Invocation(a, 1, 3), Invocation(a, 1, 4), Invocation(b, 1, 3)}
MCSkew == 0 - 1

MCSymmetry == Permutations(Requests) \cup Permutations(Calls)

=============================================================================
