-------------------------- MODULE GatewayAssertion --------------------------
(***************************************************************************)
(* lotorhttp.GatewayAssertionMiddleware and the verifier behind it: an     *)
(* upstream handler serves a request only with an assertion that the       *)
(* application gateway signed for exactly that request.  An assertion that *)
(* is not replay eligible is consumed in a store that all replicas share.  *)
(*                                                                         *)
(* Each member of Requests is one HTTP request to some replica.  The clock *)
(* of the model is the store's; the clocks of the replicas differ from it  *)
(* by at most ClockSkew.                                                   *)
(***************************************************************************)
EXTENDS Integers

CONSTANTS
    Requests,     \* HTTP requests that reach the replicas
    Assertions,   \* assertions that the gateway signs for this authority
    Messages,     \* method, content and idempotency key of a request
    MaxLifetime,  \* 30 seconds
    ClockSkew,    \* GatewayAssertionVerifierOptions.ClockSkew
    MaxTime,      \* the clock of a behaviour stops here
    None

Statuses == {"served", "unauthorized", "too_large", "unavailable"}

RequestIDs == {a.id : a \in Assertions}

ASSUME AssertionAssumption ==
    /\ \A a \in Assertions : a.message \in Messages /\ a.issuedAt \in Int /\ a.expiresAt \in Int
    /\ None \notin Assertions
    /\ None \notin Int
    /\ None \notin Statuses
    /\ MaxLifetime \in Nat /\ ClockSkew \in Nat /\ MaxTime \in Nat

VARIABLES
    now,       \* the clock of the store
    shared,    \* whether a replay store is configured
    store,     \* until when the store remembers a request id
    pc,        \* where the middleware is with a request
    claims,    \* the verified claims of a request
    consumed,  \* when the store gave a request the first use of its id
    status     \* how a request ended

vars == <<now, shared, store, pc, claims, consumed, status>>

TypeOK ==
    /\ now \in Nat
    /\ shared \in BOOLEAN
    /\ store \in [RequestIDs -> Int \cup {None}]
    /\ pc \in [Requests -> {"idle", "consume", "done"}]
    /\ claims \in [Requests -> Assertions \cup {None}]
    /\ consumed \in [Requests -> Nat \cup {None}]
    /\ status \in [Requests -> Statuses \cup {None}]

Init ==
    /\ now = 1
    /\ shared \in BOOLEAN
    /\ store = [id \in RequestIDs |-> None]
    /\ pc = [r \in Requests |-> "idle"]
    /\ claims = [r \in Requests |-> None]
    /\ consumed = [r \in Requests |-> None]
    /\ status = [r \in Requests |-> None]

-----------------------------------------------------------------------------
Ends(r, s) ==
    /\ pc' = [pc EXCEPT ![r] = "done"]
    /\ status' = [status EXCEPT ![r] = s]

\* GET, HEAD and OPTIONS.
Safe(message) == message.method = "safe"

\* The time bounds of validClaims, on the clock of the replica.
TimeBounds(a, at) ==
    /\ 1 <= a.issuedAt
    /\ a.issuedAt < a.expiresAt
    /\ a.expiresAt - a.issuedAt <= MaxLifetime
    /\ a.issuedAt <= at + ClockSkew
    /\ at - ClockSkew < a.expiresAt

\* Mutant: a replay eligible mutation needs no idempotency key.
ReplayPolicyUnkeyed(a, message) == Safe(message) => a.eligible

\* The replay rule of validClaims: a safe request is replay eligible, and a
\* replay eligible mutation has an idempotency key.
ReplayPolicy(a, message) ==
    /\ Safe(message) => a.eligible
    /\ ~Safe(message) /\ a.eligible => message.key # None

\* The authority tuple and the signature are part of `genuine', below.
ValidClaims(a, message, at) ==
    /\ TimeBounds(a, at)
    /\ a.message = message
    /\ ReplayPolicy(a, message)

\* A request that the origin check, the header checks or the body limit stop,
\* or whose assertion is not a canonical, genuine one for this authority.
Refuse(r, s) ==
    /\ pc[r] = "idle"
    /\ s \in {"unauthorized", "too_large"}
    /\ Ends(r, s)
    /\ UNCHANGED <<now, shared, store, claims, consumed>>

\* Verify with a genuine assertion, up to the replay store.
Verify(r, a, message, at) ==
    /\ pc[r] = "idle"
    /\ at \in (now - ClockSkew)..(now + ClockSkew)
    /\ \/ /\ ~ValidClaims(a, message, at)
          /\ Ends(r, "unauthorized") /\ UNCHANGED claims
       \/ /\ ValidClaims(a, message, at)
          /\ claims' = [claims EXCEPT ![r] = a]
          /\ \/ a.eligible /\ Ends(r, "served")
             \/ ~a.eligible /\ ~shared /\ Ends(r, "unavailable")
             \/ ~a.eligible /\ shared /\ pc' = [pc EXCEPT ![r] = "consume"] /\ UNCHANGED status
    /\ UNCHANGED <<now, shared, store, consumed>>

\* The time that Verify passes to Consume.
Retention(a) == a.expiresAt

\* GatewayAssertionReplayStore.Consume: the store has not seen the id, or no
\* longer remembers it.
ConsumeFirst(r) ==
    LET a == claims[r] IN
    /\ pc[r] = "consume"
    /\ store[a.id] = None
    /\ store' = [store EXCEPT ![a.id] = Retention(a)]
    /\ consumed' = [consumed EXCEPT ![r] = now]
    /\ Ends(r, "served")
    /\ UNCHANGED <<now, shared, claims>>

ConsumeAgain(r) ==
    /\ pc[r] = "consume"
    /\ store[claims[r].id] # None
    /\ Ends(r, "unauthorized")
    /\ UNCHANGED <<now, shared, store, claims, consumed>>

\* Mutant: a request is served although the store failed.
ConsumeFailsOpen(r, recorded) ==
    LET a == claims[r] IN
    /\ pc[r] = "consume"
    /\ store' = IF recorded /\ store[a.id] = None
                THEN [store EXCEPT ![a.id] = Retention(a)] ELSE store
    /\ consumed' = [consumed EXCEPT ![r] = now]
    /\ Ends(r, "served")
    /\ UNCHANGED <<now, shared, claims>>

\* The call of the store fails, before or after the store recorded the id.
ConsumeFails(r, recorded) ==
    LET a == claims[r] IN
    /\ pc[r] = "consume"
    /\ store' = IF recorded /\ store[a.id] = None
                THEN [store EXCEPT ![a.id] = Retention(a)] ELSE store
    /\ Ends(r, "unavailable")
    /\ UNCHANGED <<now, shared, claims, consumed>>

\* The store drops an id once the time it was given has passed.
Forget(id) ==
    /\ store[id] # None
    /\ store[id] < now
    /\ store' = [store EXCEPT ![id] = None]
    /\ UNCHANGED <<now, shared, pc, claims, consumed, status>>

Tick ==
    /\ now < MaxTime
    /\ now' = now + 1
    /\ UNCHANGED <<shared, store, pc, claims, consumed, status>>

Next ==
    \/ \E r \in Requests, s \in Statuses : Refuse(r, s)
    \/ \E r \in Requests, a \in Assertions, message \in Messages,
          at \in (1 - ClockSkew)..(MaxTime + ClockSkew) : Verify(r, a, message, at)
    \/ \E r \in Requests : ConsumeFirst(r) \/ ConsumeAgain(r)
    \/ \E r \in Requests, recorded \in BOOLEAN : ConsumeFails(r, recorded)
    \/ \E id \in RequestIDs : Forget(id)
    \/ Tick

Spec == Init /\ [][Next]_vars

-----------------------------------------------------------------------------
Served == {r \in Requests : status[r] = "served"}

\* An assertion that is not replay eligible is served once through its expiry,
\* by whichever replica: of two requests that were served with one request id,
\* one got it after the time through which the store had to remember the
\* other (Verify with GatewayAssertionReplayStore, whose calls may fail after
\* they took effect).
ServedOnce ==
    \A r, s \in Served :
        /\ r # s
        /\ claims[r].id = claims[s].id
        /\ ~claims[r].eligible /\ ~claims[s].eligible
        => consumed[r] > claims[s].expiresAt \/ consumed[s] > claims[r].expiresAt

\* A mutation that reaches the application twice with one assertion before
\* the assertion expires carries an idempotency key, by which the application
\* can recognise the repetition (the replay rule of validClaims together with
\* the store).
RepeatsAreKeyed ==
    \A r, s \in Served :
        /\ r # s
        /\ claims[r] = claims[s]
        /\ ~Safe(claims[r].message)
        /\ now <= claims[r].expiresAt
        => claims[r].message.key # None

\* What was served is remembered until it expires: as long as a copy of an
\* assertion that was served once could be presented within its lifetime, the
\* store refuses it (Verify hands the store the expiry of the assertion).
ServedIsRemembered ==
    \A r \in Served :
        ~claims[r].eligible /\ now <= claims[r].expiresAt => store[claims[r].id] # None

-----------------------------------------------------------------------------
\* The use of an assertion that is not replay eligible.
Single(r) == status[r] = "served" /\ ~claims[r].eligible

\* The induction behind ServedOnce: only the holder of a verified assertion
\* calls the store, and after it served a request the store keeps the expiry
\* of that assertion until the clock has passed it (Verify and Consume).
AssertionInv ==
    /\ \A r \in Requests : pc[r] = "consume" => claims[r] \in Assertions /\ status[r] = None
    /\ \A r \in Requests : pc[r] = "idle" => status[r] = None
    /\ \A r \in Requests :
          Single(r) =>
            /\ claims[r] \in Assertions
            /\ consumed[r] \in Nat
            /\ store[claims[r].id] = claims[r].expiresAt \/ claims[r].expiresAt < now

\* What RepeatsAreKeyed needs besides: a request that waits for the store or was
\* served has claims that passed the replay rule, and the store's clock has not
\* gone back since it gave a first use away (validClaims, Consume).
PolicyInv ==
    \A r \in Requests :
        /\ pc[r] = "consume" \/ status[r] = "served" =>
             claims[r] \in Assertions /\ ReplayPolicy(claims[r], claims[r].message)
        /\ consumed[r] # None => consumed[r] <= now

=============================================================================
