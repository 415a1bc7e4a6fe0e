-------------------------- MODULE MCBridgeRuntime ---------------------------
(***************************************************************************)
(* Small instances of BridgeRuntime: one operation asked for with two      *)
(* contents, a renewal of the first grant, and an ownership challenge.     *)
(***************************************************************************)
EXTENDS BridgeRuntime

CONSTANTS op, a, b, x, y

Invocation(content, issued, expires) ==
    [kind |-> "invocation", id |-> op, content |-> content,
     issuedAt |-> issued, expiresAt |-> expires]

MCOps == {op}
MCContents == {a, b}
MCOutputs == {x, y}
MCGrants ==
    {Invocation(a, 1, 2), Invocation(a, 1, 3), Invocation(b, 1, 3),
     [kind |-> "challenge", id |-> op, content |-> a, issuedAt |-> 1, expiresAt |-> 2]}

=============================================================================
