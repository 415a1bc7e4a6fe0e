-------------------------- MODULE BridgeInvocation --------------------------
(***************************************************************************)
(* bridge/client.Client.Invoke against bridge.Runtime, over HTTPS.         *)
(*                                                                         *)
(* Each member of Calls is one call of Invoke; a caller that retries makes *)
(* another call, with the same grant or a renewed one.  Invoke sends its   *)
(* grant once.  The network and the gateways on the way may lose it,       *)
(* deliver it twice, or deliver it after the call has given up; a response *)
(* may be lost or damaged.  The two ends have clocks of their own.         *)
(***************************************************************************)
EXTENDS BridgeRuntime

CONSTANTS
    Calls,      \* calls of Client.Invoke
    ClientSkew, \* the clock of the client minus the clock of the runtime
    Tolerance   \* how far ahead of the client CompletedAt may be: 5 seconds

ASSUME InvocationAssumption ==
    /\ ClientSkew \in Int
    /\ Tolerance \in Nat

VARIABLES
    callGrant,  \* the grant a call has sent
    arrived,    \* the HTTP requests that the grant of a call arrived as
    returned    \* what a call returned: an error and a Result

callVars == <<callGrant, arrived, returned>>
allVars == <<vars, callVars>>

CallErrors == {"nil", "unauthorized", "unavailable", "outcome_unknown"}

Return == [err : CallErrors, result : Results \cup {None}]

ASSUME ReturnAssumption == None \notin Return

CallsTypeOK ==
    /\ callGrant \in [Calls -> Grants \cup {None}]
    /\ arrived \in [Calls -> SUBSET Requests]
    /\ returned \in [Calls -> Return \cup {None}]

InvocationInit ==
    /\ Init
    /\ callGrant = [c \in Calls |-> None]
    /\ arrived = [c \in Calls |-> {}]
    /\ returned = [c \in Calls |-> None]

-----------------------------------------------------------------------------
ClientNow == now + ClientSkew

Returns(c, err, value) ==
    returned' = [returned EXCEPT ![c] = [err |-> err, result |-> value]]

Idle(c) == callGrant[c] = None /\ returned[c] = None

Waiting(c) == callGrant[c] # None /\ returned[c] = None

ValidGrant(g) == g.kind = "invocation" /\ LifetimeValid(g, ClientNow)

\* Invoke up to the dispatch.  `trusted' is the outcome of the key lookup,
\* the signature and the comparison with the options of the client;
\* `cancelled' of the check of the caller's context.
Invoke(c, g, trusted, cancelled) ==
    /\ Idle(c)
    /\ \/ /\ ~trusted \/ ~ValidGrant(g)
          /\ Returns(c, "unauthorized", None) /\ UNCHANGED callGrant
       \/ /\ trusted /\ ValidGrant(g) /\ cancelled
          /\ Returns(c, "unavailable", None) /\ UNCHANGED callGrant
       \/ /\ trusted /\ ValidGrant(g) /\ ~cancelled
          /\ callGrant' = [callGrant EXCEPT ![c] = g]
          /\ UNCHANGED returned
    /\ UNCHANGED <<vars, arrived>>

\* The grant that a call sent reaches the runtime, for the first time or again.
Arrive(c, r, readable) ==
    /\ callGrant[c] # None
    /\ Receive(r, "invoke", readable, TRUE, callGrant[c])
    /\ arrived' = [arrived EXCEPT ![c] = @ \cup {r}]
    /\ UNCHANGED <<callGrant, returned>>

\* What Invoke makes of the signed response to its request.
Accepts(res, g) ==
    /\ VerifyResult(res, g)
    /\ 0 < res.completedAt
    /\ res.completedAt <= ClientNow + Tolerance

\* Mutant: the signature is checked, what it signs is not.
OutcomeUnbound(res, g) ==
    IF res.errorCode # "" THEN [err |-> "outcome_unknown", result |-> res]
    ELSE [err |-> "nil", result |-> res]

Outcome(res, g) ==
    IF ~Accepts(res, g) THEN [err |-> "outcome_unknown", result |-> None]
    ELSE IF res.errorCode # "" THEN [err |-> "outcome_unknown", result |-> res]
    ELSE [err |-> "nil", result |-> res]

\* Mutant: a refusal by status is reported as a definite refusal.
AnswerRefused(c, r) ==
    /\ Waiting(c) /\ ClientNow < callGrant[c].expiresAt
    /\ r \in arrived[c] /\ resp[r] # None
    /\ IF resp[r].code = "ok"
       THEN LET o == Outcome(resp[r].result, callGrant[c])
            IN  Returns(c, o.err, o.result)
       ELSE Returns(c, "unavailable", None)
    /\ UNCHANGED <<vars, callGrant, arrived>>

\* The response to one of the requests comes back before the deadline of the
\* call, which is the expiry of its grant.  The transport turns every status
\* but 200 into an error.
Answer(c, r) ==
    /\ Waiting(c) /\ ClientNow < callGrant[c].expiresAt
    /\ r \in arrived[c] /\ resp[r] # None
    /\ IF resp[r].code = "ok"
       THEN LET o == Outcome(resp[r].result, callGrant[c])
            IN  Returns(c, o.err, o.result)
       ELSE Returns(c, "outcome_unknown", None)
    /\ UNCHANGED <<vars, callGrant, arrived>>

\* A response signed for another call of the same runtime is delivered.
Misdeliver(c, r) ==
    /\ Waiting(c) /\ ClientNow < callGrant[c].expiresAt
    /\ resp[r] # None /\ resp[r].code = "ok"
    /\ LET o == Outcome(resp[r].result, callGrant[c])
       IN  Returns(c, o.err, o.result)
    /\ UNCHANGED <<vars, callGrant, arrived>>

\* The dispatch fails: a timeout, a broken connection, a damaged response.
GiveUp(c) ==
    /\ Waiting(c)
    /\ Returns(c, "outcome_unknown", None)
    /\ UNCHANGED <<vars, callGrant, arrived>>

RuntimeStep ==
    /\ Environment \/ \E r \in Requests : Serve(r)
    /\ UNCHANGED callVars

ClientStep(c) ==
    \/ \E r \in Requests : Answer(c, r) \/ Misdeliver(c, r)
    \/ GiveUp(c)

InvocationNext ==
    \/ \E c \in Calls, g \in Grants, trusted, cancelled \in BOOLEAN :
         Invoke(c, g, trusted, cancelled)
    \/ \E c \in Calls, r \in Requests, readable \in BOOLEAN : Arrive(c, r, readable)
    \/ \E c \in Calls : ClientStep(c)
    \/ RuntimeStep

InvocationSpec == InvocationInit /\ [][InvocationNext]_allVars

-----------------------------------------------------------------------------
GivenResult(c) == returned[c] # None /\ returned[c].result # None

\* The Results that two calls were given for one operation are one Result,
\* except for the grant each answers: neither a retry with a renewed grant, nor
\* a retry after a timeout, nor one that overtakes the first call sees another
\* output, another error code or another content (Invoke over ServeHTTP).
ReturnedResultsAgree ==
    \A c, d \in Calls :
        GivenResult(c) /\ GivenResult(d) /\ callGrant[c].id = callGrant[d].id =>
             /\ SemanticDigest(callGrant[c]) = SemanticDigest(callGrant[d])
             /\ returned[d].result =
                  [returned[c].result EXCEPT !.authorization = callGrant[d]]

\* A call that returns without an error has the output of a handler that ran
\* for its operation and content, and the journal has it too.
ReturnedSuccessIsReal ==
    \A c \in Calls :
        returned[c] # None /\ returned[c].err = "nil" =>
            LET g == callGrant[c] IN
            /\ rows[g.id] # None
            /\ rows[g.id].digest = SemanticDigest(g)
            /\ rows[g.id].result = [returned[c].result EXCEPT
                                      !.authorization = rows[g.id].result.authorization]
            /\ \E r \in called : /\ SameOperation(r, g.id, SemanticDigest(g))
                                 /\ result[r].output = returned[c].result.output

\* An error other than outcome_unknown is proof that the call had no effect:
\* no request of it ever enters application code, not even after the call has
\* returned and however often its grant was delivered.
DefiniteErrorMeansNoEffect ==
    \A c \in Calls :
        returned[c] # None /\ returned[c].err \in {"unauthorized", "unavailable"} =>
            arrived[c] \cap called = {}

-----------------------------------------------------------------------------
\* What a call was given is the durable result of the operation of its grant.
Durable(c) ==
    LET g == callGrant[c] IN
    /\ g \in Grants
    /\ rows[g.id] # None
    /\ rows[g.id].digest = SemanticDigest(g)
    /\ rows[g.id].result # None
    /\ returned[c].result = [rows[g.id].result EXCEPT !.authorization = g]

\* The inductive invariant of a call: what it was given is the durable result
\* of its operation, and a definite error was returned before anything was sent.
CallInv ==
    \A c \in Calls :
        /\ GivenResult(c) => Durable(c)
        /\ returned[c] # None /\ returned[c].err = "nil" =>
              returned[c].result # None /\ returned[c].result.errorCode = ""
        /\ returned[c] # None /\ returned[c].err \in {"unauthorized", "unavailable"} =>
              callGrant[c] = None
        /\ callGrant[c] = None => arrived[c] = {}
        /\ callGrant[c] # None => callGrant[c].kind = "invocation"

InvocationInv == IInv /\ CallsTypeOK /\ CallInv

=============================================================================
