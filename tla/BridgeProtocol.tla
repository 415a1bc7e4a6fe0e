--------------------------- MODULE BridgeProtocol ---------------------------
(***************************************************************************)
(* The signed messages of bridge/protocol.go: authorizations (grants) that *)
(* Control issues, and results a runtime signs for one authorization.      *)
(*                                                                         *)
(* A grant carries the identity of the operation, its content and its      *)
(* lifetime.  `content' stands for every other signed field: function,     *)
(* principal, input, policy, resources, capabilities of an invocation, and *)
(* the nonce of a challenge.  Digests are collision free, so the digest of *)
(* a value is the value.  Signatures are abstracted to who may produce a   *)
(* message: only Control makes grants, only the runtime makes results.     *)
(***************************************************************************)
EXTENDS Integers

CONSTANTS
    Ops,       \* operation identities, BindingID:ID
    Contents,  \* contents of an authorization, lifetime excluded
    Outputs,   \* valid outputs a handler can return
    Grants,    \* authorizations that Control issues
    MaxGrantLifetime,  \* 300 seconds in the code
    None       \* an absent value: nil pointer, SQL null, empty field

Kinds == {"challenge", "invocation"}

Authorization == [kind : Kinds, id : Ops, content : Contents,
                  issuedAt : Nat, expiresAt : Nat]

\* SignedMessage digest of the exact authorization, lifetime included.
AuthorizationDigest(g) == g

\* Digest under which an execution is journaled: a renewed grant for the
\* same operation and content has the same one.
SemanticDigest(g) == [g EXCEPT !.issuedAt = 0, !.expiresAt = 0]

Digests == {SemanticDigest(g) : g \in Grants}

Nonce(g) == IF g.kind = "challenge" THEN g.content ELSE None

Results == [id : Ops, kind : Kinds, authorization : Grants,
            nonce : Contents \cup {None}, output : Outputs \cup {None},
            errorCode : {"", "outcome_unknown"}, completedAt : Nat]

ASSUME ProtocolAssumption ==
    /\ Grants \subseteq Authorization
    /\ MaxGrantLifetime \in Nat
    /\ None \notin Results
    /\ None \notin Grants
    /\ None \notin Outputs

(***************************************************************************)
(* The checks both ends make on a grant before using it.  The fields that  *)
(* must equal the configuration of the runtime or of the client (issuer,   *)
(* audience, binding, revision, manifest, scope) belong to the question    *)
(* whether the grant is for this binding, which is an input of the caller. *)
(***************************************************************************)
LifetimeValid(g, now) ==
    /\ 0 < g.issuedAt
    /\ g.issuedAt <= now
    /\ now < g.expiresAt
    /\ g.expiresAt - g.issuedAt <= MaxGrantLifetime

\* The caller's check that a result answers exactly its authorization.
VerifyResult(result, g) ==
    /\ result.id = g.id
    /\ result.kind = g.kind
    /\ result.authorization = AuthorizationDigest(g)
    /\ result.nonce = Nonce(g)

=============================================================================
