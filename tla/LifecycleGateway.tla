-------------------------- MODULE LifecycleGateway --------------------------
(***************************************************************************)
(* lotorhttp.Handler with ownedRuntime: browser requests that accept or    *)
(* cancel an invitation.  Each one is authenticated against the session    *)
(* store and Control, checks that its identity belongs to the environment  *)
(* the resolver serves, and then runs one command with WithOwnerRetry.     *)
(*                                                                         *)
(* The resolver and the retry are those of OwnerRouting, of which each     *)
(* request is a call; the resolver runs once more for the scope check.     *)
(* The runtime keeps the outcome of a command under its idempotency key.   *)
(***************************************************************************)
EXTENDS OwnerRouting

CONSTANTS
    Workloads,  \* what the requests ask for: functions from Calls to commands
    SignIns,    \* the bearers a session holds, one after the other
    Ours        \* the scope of the environment

Sessions == DOMAIN SignIns

ASSUME GatewayAssumption ==
    /\ Commands = 1
    /\ \A w \in Workloads, c \in Calls : w[c].session \in Sessions
    /\ \A s \in Sessions : /\ Len(SignIns[s]) \in Nat \ {0}
                           /\ DOMAIN SignIns[s] = 1..Len(SignIns[s])
                           /\ \A i \in DOMAIN SignIns[s] : SignIns[s][i] # None

VARIABLES
    work,      \* the session, operation, argument and caller key of a request
    stage,     \* where the handler is with a request
    sessions,  \* the index of the bearer in the session store, 0 for none
    bearer,    \* the bearer that a request read from the store
    refused,   \* the requests for which Control or the scope said no
    ledger,    \* the argument under which the runtime knows a derived key
    effects,   \* how often a command of a browser user took effect
    conflict,  \* the requests answered with IDEMPOTENCY_CONFLICT
    status     \* the response of a request

handlerVars == <<stage, bearer, refused, conflict, status>>
gatewayVars == <<work, handlerVars, sessions, ledger, effects>>
allVars == <<vars, gatewayVars>>

Subjects == UNION {{b.subject : b \in {SignIns[s][i] : i \in DOMAIN SignIns[s]}} : s \in Sessions}

\* The command as its user means it, whatever session carries it.
Intents == {<<w[c].op, u, w[c].key>> : w \in Workloads, c \in Calls, u \in Subjects}
Intent(c) == <<work[c].op, bearer[c].subject, work[c].key>>

\* deriveKey("accept-v1" or "cancel-v1", subject, callerKey).
DeriveKey(op, b, key) == <<op, b.subject, key>>

Key(c) == DeriveKey(work[c].op, bearer[c], work[c].key)
Known(c) == Key(c) \in DOMAIN ledger

GatewayInit ==
    /\ Init
    /\ work \in Workloads
    /\ stage = [c \in Calls |-> "idle"]
    /\ sessions = [s \in Sessions |-> 1]
    /\ bearer = [c \in Calls |-> None]
    /\ refused = {} /\ conflict = {}
    /\ ledger = <<>>
    /\ effects = [i \in Intents |-> 0]
    /\ status = [c \in Calls |-> "none"]

-----------------------------------------------------------------------------
Answer(c, response) ==
    /\ stage' = [stage EXCEPT ![c] = "done"]
    /\ status' = [status EXCEPT ![c] = response]

Enters(c, s) == stage' = [stage EXCEPT ![c] = s] /\ UNCHANGED status

\* The checks of ServeHTTP, accept and cancel come before the session is read.
Reject(c, response) ==
    /\ stage[c] = "idle"
    /\ Answer(c, response)
    /\ UNCHANGED <<vars, work, sessions, bearer, refused, ledger, effects, conflict>>

\* Not a POST of the browser SDK from the same origin.
RejectForeign(c) == Reject(c, "request_rejected")

\* The body is not JSON of the expected shape, or a field is out of bounds.
RejectInput(c) == Reject(c, "invalid_request")

\* authenticate reads the bearer of the session.
ReadBearer(c, readable) ==
    LET s == work[c].session IN
    /\ stage[c] = "idle"
    /\ IF readable /\ sessions[s] # 0
       THEN /\ bearer' = [bearer EXCEPT ![c] = SignIns[s][sessions[s]]]
            /\ Enters(c, "verify")
       ELSE /\ Answer(c, "unauthenticated")
            /\ UNCHANGED bearer
    /\ UNCHANGED <<vars, work, sessions, refused, ledger, effects, conflict>>

\* Control accepts the bearer: the scope check starts with a Resolve.
Verified(c) ==
    /\ stage[c] = "verify"
    /\ Begin(c)
    /\ Enters(c, "scope")
    /\ UNCHANGED <<work, sessions, bearer, refused, ledger, effects, conflict>>

\* Control answers 401 or 403.
VerifyRejects(c) ==
    /\ stage[c] = "verify"
    /\ refused' = refused \cup {c}
    /\ Enters(c, "delete")
    /\ UNCHANGED <<vars, work, sessions, bearer, ledger, effects, conflict>>

\* Mutant: any failure of the verification ends the session.
VerifyFailsDeletes(c) ==
    /\ stage[c] = "verify"
    /\ Enters(c, "delete")
    /\ UNCHANGED <<vars, work, sessions, bearer, refused, ledger, effects, conflict>>

\* Control cannot be reached, or its answer is not an identity.
VerifyFails(c) ==
    /\ stage[c] = "verify"
    /\ Answer(c, "identity_unavailable")
    /\ UNCHANGED <<vars, work, sessions, bearer, refused, ledger, effects, conflict>>

\* sessions.Delete of the id the request came with; its error is ignored.
DeleteSession(c, deleted) ==
    /\ stage[c] = "delete"
    /\ sessions' = IF deleted THEN [sessions EXCEPT ![work[c].session] = 0] ELSE sessions
    /\ Answer(c, "unauthenticated")
    /\ UNCHANGED <<vars, work, bearer, refused, ledger, effects, conflict>>

-----------------------------------------------------------------------------
\* Resolve for verifyScope: it stops before the dial.
ScopeStep(c) ==
    /\ stage[c] = "scope" /\ pc[c] \in {"resolve", "fetch"}
    /\ ResolveCached(c) \/ ResolveFetch(c) \/ FetchEnds(c, TRUE) \/ FetchFails(c)
    /\ UNCHANGED gatewayVars

\* Mutant: the scope is not compared.
ScopeKnownAny(c) ==
    /\ stage[c] = "scope" /\ pc[c] = "dial"
    /\ pc' = [pc EXCEPT ![c] = "resolve"]
    /\ tries' = [tries EXCEPT ![c] = <<>>]
    /\ Enters(c, "run")
    /\ UNCHANGED <<now, owners, cached, mu, asked, reply, next, movedAt, applied, out,
                   work, sessions, bearer, refused, ledger, effects, conflict>>

\* verifyScope has an owner.  With the right scope, DialOwned resolves again.
ScopeKnown(c) ==
    /\ stage[c] = "scope" /\ pc[c] = "dial"
    /\ tries' = [tries EXCEPT ![c] = <<>>]
    /\ \/ /\ bearer[c].scope = Ours
          /\ pc' = [pc EXCEPT ![c] = "resolve"]
          /\ Enters(c, "run")
          /\ UNCHANGED <<refused, out>>
       \/ /\ bearer[c].scope # Ours
          /\ Return(c, "error")
          /\ refused' = refused \cup {c}
          /\ Enters(c, "delete")
    /\ UNCHANGED <<now, owners, cached, mu, asked, reply, next, movedAt, applied,
                   work, sessions, bearer, ledger, effects, conflict>>

\* The steps of WithOwnerRetry that do not reach the runtime's state.
RouteStep(c) ==
    /\ stage[c] = "run"
    /\ \/ ResolveCached(c) \/ ResolveFetch(c) \/ FetchEnds(c, TRUE) \/ FetchFails(c)
       \/ \E ok \in BOOLEAN : Dial(c, ok) \/ Auth(c, ok)
       \/ Invalidate(c)
       \/ \E epoch \in 1..MaxEpoch : CommandMoved(c, epoch, now)
       \/ LockMoved(c) \/ AcceptMoved(c, TRUE)
       \/ CommandFails(c, FALSE)
    /\ UNCHANGED gatewayVars

\* The owner executes the command, or finds its outcome under the key.
Executes(c) ==
    IF Known(c)
    THEN ledger[Key(c)] = work[c].arg /\ UNCHANGED <<ledger, effects>>
    ELSE /\ ledger' = [k \in DOMAIN ledger \cup {Key(c)} |->
                         IF k = Key(c) THEN work[c].arg ELSE ledger[k]]
         /\ effects' = [effects EXCEPT ![Intent(c)] = @ + 1]

\* Mutant: the command is sent without its key, so that the owner executes it
\* each time.
RuntimeExecutesUnkeyed(c) ==
    /\ stage[c] = "run"
    /\ CommandOk(c) \/ CommandFails(c, TRUE)
    /\ ledger' = [k \in DOMAIN ledger \cup {Key(c)} |->
                    IF k = Key(c) THEN work[c].arg ELSE ledger[k]]
    /\ effects' = [effects EXCEPT ![Intent(c)] = @ + 1]
    /\ UNCHANGED <<work, handlerVars, sessions>>

\* The command succeeds, or its answer is lost after it took effect.
RuntimeExecutes(c) ==
    /\ stage[c] = "run"
    /\ CommandOk(c) \/ CommandFails(c, TRUE)
    /\ Executes(c)
    /\ UNCHANGED <<work, handlerVars, sessions>>

\* The key is known for another argument.
RuntimeConflict(c) ==
    /\ stage[c] = "run" /\ pc[c] = "op" /\ Owns(Target(c).endpoint)
    /\ Known(c) /\ ledger[Key(c)] # work[c].arg
    /\ CommandFails(c, FALSE)
    /\ conflict' = conflict \cup {c}
    /\ UNCHANGED <<work, stage, bearer, refused, status, sessions, ledger, effects>>

\* Mutant: a key that is already known counts as a repetition, whatever the
\* argument.
RespondLifecycleRepeated(c) ==
    /\ stage[c] \in {"scope", "run"} /\ pc[c] = "done"
    /\ Answer(c, IF out[c] = "ok" \/ c \in conflict THEN "ok" ELSE "runtime_unavailable")
    /\ UNCHANGED <<vars, work, sessions, bearer, refused, ledger, effects, conflict>>

\* respondLifecycle, for what verifyScope and WithOwnerRetry return.
RespondLifecycle(c) ==
    /\ stage[c] \in {"scope", "run"} /\ pc[c] = "done"
    /\ Answer(c, IF out[c] = "ok" THEN "ok"
                 ELSE IF c \in conflict THEN "idempotency_conflict" ELSE "runtime_unavailable")
    /\ UNCHANGED <<vars, work, sessions, bearer, refused, ledger, effects, conflict>>

-----------------------------------------------------------------------------
\* The application signs the user in again under the same session id.
Renew(s) ==
    /\ sessions[s] \in 1..(Len(SignIns[s]) - 1)
    /\ sessions' = [sessions EXCEPT ![s] = @ + 1]
    /\ UNCHANGED <<vars, work, handlerVars, ledger, effects>>

HandlerStep(c) ==
    \/ Verified(c) \/ VerifyRejects(c) \/ VerifyFails(c)
    \/ \E deleted \in BOOLEAN : DeleteSession(c, deleted)
    \/ ScopeStep(c) \/ ScopeKnown(c)
    \/ RouteStep(c) \/ RuntimeExecutes(c) \/ RuntimeConflict(c)
    \/ RespondLifecycle(c)

GatewayNext ==
    \/ \E c \in Calls : RejectForeign(c) \/ RejectInput(c) \/ HandlerStep(c)
    \/ \E c \in Calls, readable \in BOOLEAN : ReadBearer(c, readable)
    \/ \E c \in Calls : ControlAnswers(c, Lifetime) /\ UNCHANGED gatewayVars
    \/ \E i \in Instances : Move(i) /\ UNCHANGED gatewayVars
    \/ \E s \in Sessions : Renew(s)

GatewaySpec == GatewayInit /\ [][GatewayNext]_allVars

(***************************************************************************)
(* The calls of a handler return: HTTP requests, dials and commands have   *)
(* timeouts, and the mutex of the resolver is fair to a waiting goroutine. *)
(***************************************************************************)
GatewayFairSpec == GatewaySpec /\ \A c \in Calls : SF_allVars(HandlerStep(c))

-----------------------------------------------------------------------------
\* A command of a user takes effect at most once for each idempotency key the
\* browser chose, over repeated requests, renewed sign-ins, other sessions of
\* the user, lost answers and moves of ownership (deriveKey).
AppliedOnce == \A i \in Intents : effects[i] <= 1

\* The answer idempotency_conflict is deserved: the same user used the same
\* key for the same operation with another argument.  Keys of other users and
\* of the other operation never get in the way (deriveKey, publicLifecycle).
ConflictIsDeserved ==
    \A c \in conflict :
        \E d \in Calls :
            /\ bearer[d] # None /\ Intent(c) = Intent(d)
            /\ work[c].arg # work[d].arg
            /\ applied[d][1] > 0

(***************************************************************************)
(* The handler over the resolver and the runtime implements KeyedCommands: *)
(* a request asks from the moment its bearer is read, and its command is   *)
(* carried out when the owner has executed it, whatever its answer.        *)
(***************************************************************************)
Request(c) == [by |-> c, intent |-> Intent(c), arg |-> work[c].arg, scope |-> bearer[c].scope]
Asked == {Request(c) : c \in {d \in Calls : bearer[d] # None}}
Did == {c \in Calls : applied[c][1] > 0}

Promise == INSTANCE KeyedCommands
           WITH Requests <- Calls, asked <- Asked, outcome <- ledger, times <- effects,
                did <- Did, told <- status

\* What the browser is told is true, over repeated requests, lost answers,
\* moves of ownership and renewed sign-ins: `ok' means that the command was
\* carried out with this argument (the runtime's denial is an outcome too, in an
\* answer with succeeded = false), idempotency_conflict that the same user used the
\* same key for the same operation with another argument, and a refusal that
\* the request has done nothing (deriveKey, WithOwnerRetry, respondLifecycle).
ImplementsKeyedCommands == Promise!Spec

\* A request that is answered with a refusal has had no effect, and what has
\* had an effect came from an identity of the environment: the scope check
\* precedes the command, and an error after it is never reported as a refusal
\* (Accept, Cancel, respondLifecycle).
RefusalMeansNothingDone ==
    \A c \in Calls :
        applied[c][1] > 0 =>
            /\ bearer[c].scope = Ours
            /\ status[c] \in {"none", "ok", "runtime_unavailable"}

\* A session ends only on a verdict: whichever requests are in flight, it is
\* deleted only when Control rejected a bearer it held or the identity belongs
\* to another environment, never because Control or the runtime is unavailable.
SessionsEndByVerdict ==
    \A s \in Sessions : sessions[s] = 0 => \E c \in refused : work[c].session = s

\* Every request whose bearer was read is answered, also while other requests
\* hold the mutex of the resolver.
EveryRequestAnswered == \A c \in Calls : stage[c] = "verify" ~> stage[c] = "done"

-----------------------------------------------------------------------------
(* The inductive invariant that the proofs use. *)

\* The bearers of all sign-ins.
Bearers == UNION {{SignIns[s][i] : i \in DOMAIN SignIns[s]} : s \in Sessions}
Responses == {"none", "ok", "request_rejected", "invalid_request", "unauthenticated",
              "identity_unavailable", "idempotency_conflict", "runtime_unavailable"}

GatewayTypeOK ==
    /\ work \in Workloads
    /\ stage \in [Calls -> {"idle", "verify", "delete", "scope", "run", "done"}]
    /\ sessions \in [Sessions -> Nat] /\ \A s \in Sessions : sessions[s] <= Len(SignIns[s])
    /\ bearer \in [Calls -> Bearers \cup {None}]
    /\ refused \subseteq Calls /\ conflict \subseteq Calls
    /\ status \in [Calls -> Responses]
    /\ effects \in [Intents -> Nat] /\ DOMAIN ledger \subseteq Intents

\* What the stage of a request says of its bearer and of its call.
StageInv(c) ==
    /\ stage[c] = "idle" => bearer[c] = None
    /\ stage[c] \in {"verify", "delete", "scope", "run"} => bearer[c] # None
    /\ stage[c] = "run" => bearer[c].scope = Ours
    /\ stage[c] = "delete" => c \in refused
    /\ stage[c] = "scope" => Len(tries[c]) <= 1
    /\ stage[c] # "done" => status[c] = "none"

\* Only a request at the runtime has had an effect, and one that met a
\* conflict had none.
EffectInv(c) ==
    /\ applied[c][1] > 0 => /\ stage[c] \in {"run", "done"} /\ bearer[c] # None
                            /\ bearer[c].scope = Ours
                            /\ status[c] \in {"none", "ok", "runtime_unavailable"}
                            /\ c \notin conflict
    /\ c \in conflict => pc[c] = "done" /\ bearer[c] # None

\* The request d has put the argument x under the key k.
Wrote(d, k, x) == bearer[d] # None /\ Intent(d) = k /\ work[d].arg = x /\ applied[d][1] > 0

\* The ledger has an entry for each command that took effect, and a request
\* that executed it.
LedgerInv ==
    /\ \A i \in Intents : effects[i] = IF i \in DOMAIN ledger THEN 1 ELSE 0
    /\ \A k \in DOMAIN ledger : \E d \in Calls : Wrote(d, k, ledger[k])

GatewayInv ==
    /\ RoutingInv
    /\ GatewayTypeOK
    /\ \A c \in Calls : StageInv(c) /\ EffectInv(c)
    /\ LedgerInv
    /\ ConflictIsDeserved
    /\ SessionsEndByVerdict

\* What the refinement of KeyedCommands needs besides: a call returns ok only
\* after its command was executed, and what a request was in conflict with
\* stays in the ledger.
TruthInv ==
    \A c \in Calls :
        /\ out[c] = "ok" => applied[c][1] > 0
        /\ c \in conflict => Intent(c) \in DOMAIN ledger /\ ledger[Intent(c)] # work[c].arg

=============================================================================
