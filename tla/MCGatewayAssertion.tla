------------------------- MODULE MCGatewayAssertion -------------------------
(***************************************************************************)
(* A small instance of GatewayAssertion: mutations with and without an     *)
(* idempotency key, assertions that are replay eligible or not, two of     *)
(* them that break the replay rule, and one that lives too long.           *)
(***************************************************************************)
EXTENDS GatewayAssertion, TLC

CONSTANTS k, i1, i2, i3, i4, i5, i6

Get == [method |-> "safe", key |-> None]
Post == [method |-> "unsafe", key |-> None]
KeyedPost == [method |-> "unsafe", key |-> k]

Signed(id, message, eligible, issued, expires) ==
    [id |-> id, message |-> message, eligible |-> eligible,
     issuedAt |-> issued, expiresAt |-> expires]

MCMessages == {Get, Post, KeyedPost}
MCAssertions ==
    {Signed(i1, Post, FALSE, 1, 2), Signed(i2, KeyedPost, TRUE, 1, 3),
     Signed(i3, Get, TRUE, 2, 3), Signed(i4, Get, FALSE, 1, 3),
     Signed(i5, Post, TRUE, 1, 3), Signed(i6, Post, FALSE, 1, 5)}

MCSymmetry == Permutations(Requests)

=============================================================================
