----------------------- MODULE GatewayAssertionProofs -----------------------
(***************************************************************************)
(* ServedOnce and ServedIsRemembered for every set of requests and         *)
(* assertions, every clock skew and every interleaving with a failing      *)
(* store.                                                                  *)
(***************************************************************************)
EXTENDS GatewayAssertion, TLAPS

\* An assertion of the set has a request id, a message and integer times: what
\* the clauses of AssertionInv read from the claims of a request.
LEMMA AssertionFacts ==
    ASSUME NEW a \in Assertions
    PROVE  a.id \in RequestIDs /\ a.expiresAt \in Int /\ a # None
BY AssertionAssumption DEF RequestIDs

\* Every step of the middleware, the store and the clock keeps the types.
LEMMA TypeStep == TypeOK /\ AssertionInv /\ [Next]_vars => TypeOK'
<1> SUFFICES ASSUME TypeOK, AssertionInv, [Next]_vars PROVE TypeOK'
  OBVIOUS
<1> USE DEF TypeOK
<1>1. CASE \E r \in Requests, s \in Statuses : Refuse(r, s)
  BY <1>1 DEF Refuse, Ends
<1>2. CASE \E r \in Requests, a \in Assertions, message \in Messages,
          at \in (1 - ClockSkew)..(MaxTime + ClockSkew) : Verify(r, a, message, at)
  <2>1. PICK r \in Requests, a \in Assertions, message \in Messages,
          at \in (1 - ClockSkew)..(MaxTime + ClockSkew) : Verify(r, a, message, at)
    BY <1>2
  <2>2. claims' \in [Requests -> Assertions \cup {None}]
    BY <2>1 DEF Verify
  <2>3. pc' \in [Requests -> {"idle", "consume", "done"}]
    BY <2>1 DEF Verify, Ends
  <2>4. status' \in [Requests -> Statuses \cup {None}]
    BY <2>1 DEF Verify, Ends, Statuses
  <2> QED BY <2>1, <2>2, <2>3, <2>4 DEF Verify
<1>3. ASSUME NEW r \in Requests, ConsumeFirst(r) PROVE TypeOK'
  <2>1. claims[r] \in Assertions
    BY <1>3 DEF ConsumeFirst, AssertionInv
  <2>2. store' \in [RequestIDs -> Int \cup {None}]
    BY <1>3, <2>1, AssertionFacts DEF ConsumeFirst, Retention
  <2>3. consumed' \in [Requests -> Nat \cup {None}]
    BY <1>3 DEF ConsumeFirst
  <2> QED BY <1>3, <2>2, <2>3 DEF ConsumeFirst, Ends, Statuses
<1>4. ASSUME NEW r \in Requests, ConsumeAgain(r) PROVE TypeOK'
  BY <1>4 DEF ConsumeAgain, Ends, Statuses
<1>5. ASSUME NEW r \in Requests, NEW recorded \in BOOLEAN, ConsumeFails(r, recorded) PROVE TypeOK'
  <2>1. claims[r] \in Assertions
    BY <1>5 DEF ConsumeFails, AssertionInv
  <2>2. store' \in [RequestIDs -> Int \cup {None}]
    BY <1>5, <2>1, AssertionFacts DEF ConsumeFails, Retention
  <2> QED BY <1>5, <2>2 DEF ConsumeFails, Ends, Statuses
<1>6. ASSUME NEW id \in RequestIDs, Forget(id) PROVE TypeOK'
  BY <1>6 DEF Forget
<1>7. CASE Tick
  BY <1>7 DEF Tick
<1>8. CASE UNCHANGED vars
  BY <1>8 DEF vars
<1> QED BY <1>1, <1>2, <1>3, <1>4, <1>5, <1>6, <1>7, <1>8 DEF Next

\* Every step keeps the store's promise of the expiry it was given.
LEMMA AssertionStep == TypeOK /\ AssertionInv /\ [Next]_vars => AssertionInv'
<1> SUFFICES ASSUME TypeOK, AssertionInv, [Next]_vars PROVE AssertionInv'
  OBVIOUS
<1> USE DEF TypeOK, AssertionInv, Single
<1>1. CASE \E r \in Requests, s \in Statuses : Refuse(r, s)
  BY <1>1 DEF Refuse, Ends
<1>2. CASE \E r \in Requests, a \in Assertions, message \in Messages,
          at \in (1 - ClockSkew)..(MaxTime + ClockSkew) : Verify(r, a, message, at)
  <2>1. PICK r \in Requests, a \in Assertions, message \in Messages,
          at \in (1 - ClockSkew)..(MaxTime + ClockSkew) : Verify(r, a, message, at)
    BY <1>2
  <2>2. UNCHANGED <<now, store, consumed>> /\ status[r] = None
    BY <2>1 DEF Verify
  <2>3. \A q \in Requests \ {r} :
          pc'[q] = pc[q] /\ status'[q] = status[q] /\ claims'[q] = claims[q]
    BY <2>1 DEF Verify, Ends
  <2>4. CASE pc' = [pc EXCEPT ![r] = "consume"] /\ UNCHANGED status /\ claims' = [claims EXCEPT ![r] = a]
    BY <2>2, <2>3, <2>4, AssertionAssumption DEF Statuses
  <2>5. CASE Ends(r, "unauthorized")
    BY <2>2, <2>3, <2>5 DEF Ends
  <2>6. CASE Ends(r, "unavailable")
    BY <2>2, <2>3, <2>6 DEF Ends
  <2>7. CASE claims' = [claims EXCEPT ![r] = a] /\ a.eligible /\ Ends(r, "served")
    BY <2>2, <2>3, <2>7 DEF Ends
  <2> QED BY <2>1, <2>4, <2>5, <2>6, <2>7 DEF Verify
<1>3. ASSUME NEW r \in Requests, ConsumeFirst(r) PROVE AssertionInv'
  <2>1. claims[r] \in Assertions /\ claims[r].id \in RequestIDs /\ claims[r].expiresAt \in Int
    BY <1>3, AssertionFacts DEF ConsumeFirst
  <2>2. ASSUME NEW q \in Requests, q # r, Single(q)
        PROVE  /\ claims[q].id \in RequestIDs
               /\ claims[q].id = claims[r].id => claims[q].expiresAt < now
    BY <1>3, <2>2, AssertionFacts, AssertionAssumption DEF ConsumeFirst
  <2>3. \A q \in Requests : Single(q)' =>
            /\ claims'[q] \in Assertions
            /\ consumed'[q] \in Nat
            /\ store'[claims'[q].id] = claims'[q].expiresAt \/ claims'[q].expiresAt < now'
    <3> SUFFICES ASSUME NEW q \in Requests, Single(q)'
                 PROVE  /\ claims'[q] \in Assertions
                        /\ consumed'[q] \in Nat
                        /\ store'[claims'[q].id] = claims'[q].expiresAt \/ claims'[q].expiresAt < now'
      OBVIOUS
    <3>1. CASE q = r
      BY <1>3, <2>1, <3>1 DEF ConsumeFirst, Retention
    <3>2. CASE q # r
      <4>1. Single(q)
        BY <1>3, <3>2 DEF ConsumeFirst, Ends
      <4> QED BY <1>3, <2>1, <2>2, <3>2, <4>1 DEF ConsumeFirst, Ends
    <3> QED BY <3>1, <3>2
  <2> QED BY <1>3, <2>3 DEF ConsumeFirst, Ends
<1>4. ASSUME NEW r \in Requests, ConsumeAgain(r) PROVE AssertionInv'
  BY <1>4 DEF ConsumeAgain, Ends
<1>5. ASSUME NEW r \in Requests, NEW recorded \in BOOLEAN, ConsumeFails(r, recorded) PROVE AssertionInv'
  <2>1. claims[r].id \in RequestIDs
    BY <1>5, AssertionFacts DEF ConsumeFails
  <2>2. ASSUME NEW q \in Requests, Single(q)
        PROVE  store'[claims[q].id] = claims[q].expiresAt \/ claims[q].expiresAt < now
    BY <1>5, <2>1, <2>2, AssertionFacts, AssertionAssumption DEF ConsumeFails
  <2>3. \A q \in Requests : Single(q)' => Single(q)
    BY <1>5 DEF ConsumeFails, Ends
  <2> QED BY <1>5, <2>2, <2>3 DEF ConsumeFails, Ends
<1>6. ASSUME NEW id \in RequestIDs, Forget(id) PROVE AssertionInv'
  BY <1>6, AssertionFacts DEF Forget
<1>7. CASE Tick
  BY <1>7, AssertionFacts DEF Tick
<1>8. CASE UNCHANGED vars
  BY <1>8 DEF vars
<1> QED BY <1>1, <1>2, <1>3, <1>4, <1>5, <1>6, <1>7, <1>8 DEF Next

\* What Verify and Consume maintain together: the types and the induction.
THEOREM AssertionInvariance == Spec => [](TypeOK /\ AssertionInv)
<1>1. Init => TypeOK /\ AssertionInv
  BY AssertionAssumption DEF Init, TypeOK, AssertionInv, Single, Statuses
<1>2. TypeOK /\ AssertionInv /\ [Next]_vars => (TypeOK /\ AssertionInv)'
  BY TypeStep, AssertionStep
<1> QED BY <1>1, <1>2, PTL DEF Spec

\* For every set of requests and replicas, the store refuses what was served
\* until the assertion expires.
THEOREM Remembered == Spec => []ServedIsRemembered
<1>1. TypeOK /\ AssertionInv => ServedIsRemembered
  BY AssertionFacts, AssertionAssumption DEF TypeOK, AssertionInv, Single, ServedIsRemembered, Served
<1> QED BY <1>1, AssertionInvariance, PTL

\* Whatever the store lost or answered late, no assertion that is not replay
\* eligible is served twice through its expiry.
THEOREM ServedOnceThroughExpiry == Spec => []ServedOnce
<1>1. Init => ServedOnce
  BY AssertionAssumption DEF Init, ServedOnce, Served, Statuses
<1>2. TypeOK /\ AssertionInv /\ ServedOnce /\ [Next]_vars => ServedOnce'
  <2> SUFFICES ASSUME TypeOK, AssertionInv, ServedOnce, [Next]_vars,
                      NEW r \in Requests, NEW s \in Requests, r # s,
                      Single(r)', Single(s)', claims'[r].id = claims'[s].id
               PROVE  consumed'[r] > claims'[s].expiresAt \/ consumed'[s] > claims'[r].expiresAt
    BY DEF ServedOnce, Served, Single
  <2>1. ASSUME NEW q \in Requests, ConsumeFirst(q)
        PROVE  consumed'[r] > claims'[s].expiresAt \/ consumed'[s] > claims'[r].expiresAt
    <3>1. ASSUME NEW u \in Requests, NEW v \in Requests, u # v, u = q, Single(v)',
                 claims'[u].id = claims'[v].id
          PROVE  consumed'[u] > claims'[v].expiresAt
      <4>1. Single(v) /\ claims' = claims
        BY <2>1, <3>1 DEF ConsumeFirst, Ends, Single, TypeOK
      <4>2. claims[v].expiresAt \in Int /\ store[claims[v].id] = None
        BY <2>1, <3>1, <4>1, AssertionFacts DEF ConsumeFirst, AssertionInv
      <4>3. claims[v].expiresAt < now
        BY <4>1, <4>2, AssertionAssumption DEF AssertionInv
      <4>4. consumed'[u] = now
        BY <2>1, <3>1 DEF ConsumeFirst, TypeOK
      <4> QED BY <4>1, <4>2, <4>3, <4>4 DEF TypeOK
    <3>2. CASE r = q
      BY <3>1, <3>2
    <3>3. CASE s = q
      BY <3>1, <3>3
    <3>4. CASE r # q /\ s # q
      <4>1. /\ status'[r] = status[r] /\ status'[s] = status[s] /\ claims' = claims
            /\ consumed'[r] = consumed[r] /\ consumed'[s] = consumed[s]
        BY <2>1, <3>4 DEF ConsumeFirst, Ends, TypeOK
      <4> QED BY <4>1 DEF ServedOnce, Served, Single
    <3> QED BY <3>2, <3>3, <3>4
  <2>2. CASE /\ consumed' = consumed
             /\ \A q \in {r, s} : Single(q)' => Single(q) /\ claims'[q] = claims[q]
    BY <2>2 DEF ServedOnce, Served, Single
  <2>3. CASE \E q \in Requests, t \in Statuses : Refuse(q, t)
    BY <2>2, <2>3 DEF Refuse, Ends, Single, TypeOK
  <2>4. ASSUME NEW q \in Requests, NEW a \in Assertions, NEW message \in Messages,
               NEW at \in (1 - ClockSkew)..(MaxTime + ClockSkew), Verify(q, a, message, at)
        PROVE  consumed'[r] > claims'[s].expiresAt \/ consumed'[s] > claims'[r].expiresAt
    <3>1. consumed' = consumed
      BY <2>4 DEF Verify
    <3>2. ASSUME NEW u \in Requests, Single(u)' PROVE Single(u) /\ claims'[u] = claims[u]
      <4>1. CASE u # q
        BY <2>4, <3>2, <4>1 DEF Verify, Ends, Single, TypeOK
      <4>2. CASE u = q
        <5>1. status[q] = None
          BY <2>4 DEF Verify, AssertionInv
        <5>2. ~Ends(q, "unauthorized") /\ ~Ends(q, "unavailable") /\ status' # status
          BY <3>2, <4>2, <5>1, AssertionAssumption DEF Ends, Single, TypeOK, Statuses
        <5>3. a.eligible /\ claims' = [claims EXCEPT ![q] = a]
          BY <2>4, <5>2 DEF Verify
        <5> QED BY <3>2, <4>2, <5>3 DEF Single, TypeOK
      <4> QED BY <4>1, <4>2
    <3> QED BY <2>2, <3>1, <3>2
  <2>5. CASE \E q \in Requests : ConsumeAgain(q)
    BY <2>2, <2>5 DEF ConsumeAgain, Ends, Single, TypeOK
  <2>6. CASE \E q \in Requests, recorded \in BOOLEAN : ConsumeFails(q, recorded)
    BY <2>2, <2>6 DEF ConsumeFails, Ends, Single, TypeOK
  <2>7. CASE \E id \in RequestIDs : Forget(id)
    BY <2>2, <2>7 DEF Forget, Single
  <2>8. CASE Tick \/ UNCHANGED vars
    BY <2>2, <2>8 DEF Tick, vars, Single
  <2> QED BY <2>1, <2>3, <2>4, <2>5, <2>6, <2>7, <2>8 DEF Next
<1> QED BY <1>1, <1>2, AssertionInvariance, PTL DEF Spec

\* The replay rule and the order of the store's clock are kept by every step.
LEMMA PolicyStep == TypeOK /\ AssertionInv /\ PolicyInv /\ [Next]_vars => PolicyInv'
<1> SUFFICES ASSUME TypeOK, AssertionInv, PolicyInv, [Next]_vars, NEW r \in Requests
             PROVE  /\ pc'[r] = "consume" \/ status'[r] = "served" =>
                         claims'[r] \in Assertions /\ ReplayPolicy(claims'[r], claims'[r].message)
                    /\ consumed'[r] # None => consumed'[r] <= now'
  BY Zenon DEF PolicyInv
<1>1. CASE \E q \in Requests, s \in Statuses : Refuse(q, s)
  BY <1>1 DEF Refuse, Ends, PolicyInv, TypeOK
<1>2. ASSUME NEW q \in Requests, NEW a \in Assertions, NEW message \in Messages,
             NEW at \in (1 - ClockSkew)..(MaxTime + ClockSkew), Verify(q, a, message, at)
      PROVE  /\ pc'[r] = "consume" \/ status'[r] = "served" =>
                  claims'[r] \in Assertions /\ ReplayPolicy(claims'[r], claims'[r].message)
             /\ consumed'[r] # None => consumed'[r] <= now'
  <2>1. consumed' = consumed /\ now' = now
    BY <1>2 DEF Verify
  <2>2. CASE r # q
    BY <1>2, <2>1, <2>2 DEF Verify, Ends, PolicyInv, TypeOK
  <2>3. CASE r = q /\ ValidClaims(a, message, at)
    <3>1. claims'[r] = a
      BY <1>2, <2>3 DEF Verify, TypeOK
    <3>. QED  BY <2>1, <2>3, <3>1 DEF ValidClaims, PolicyInv
  <2>4. CASE r = q /\ ~ValidClaims(a, message, at)
    <3>1. pc'[r] = "done" /\ status'[r] = "unauthorized"
      BY <1>2, <2>4 DEF Verify, Ends, TypeOK
    <3>. QED  BY <2>1, <3>1 DEF PolicyInv
  <2>. QED  BY <2>2, <2>3, <2>4
<1>3. ASSUME NEW q \in Requests, ConsumeFirst(q) \/ ConsumeAgain(q)
      PROVE  /\ pc'[r] = "consume" \/ status'[r] = "served" =>
                  claims'[r] \in Assertions /\ ReplayPolicy(claims'[r], claims'[r].message)
             /\ consumed'[r] # None => consumed'[r] <= now'
  BY <1>3 DEF ConsumeFirst, ConsumeAgain, Ends, PolicyInv, TypeOK
<1>4. CASE \E q \in Requests, recorded \in BOOLEAN : ConsumeFails(q, recorded)
  BY <1>4 DEF ConsumeFails, Ends, PolicyInv, TypeOK
<1>5. CASE (\E id \in RequestIDs : Forget(id)) \/ UNCHANGED vars
  BY <1>5 DEF Forget, vars, PolicyInv
<1>6. CASE Tick
  BY <1>6 DEF Tick, PolicyInv, TypeOK
<1>. QED  BY <1>1, <1>2, <1>3, <1>4, <1>5, <1>6 DEF Next

\* A mutation that is served twice before its assertion expires has an
\* idempotency key: the store stops the copies of what is not replay eligible,
\* and validClaims lets no keyless mutation be eligible.
THEOREM KeyedRepeats == Spec => []RepeatsAreKeyed
<1>1. Init => PolicyInv
  BY AssertionAssumption DEF Init, PolicyInv, Statuses
<1>2. TypeOK /\ PolicyInv /\ AssertionInv /\ ServedOnce => RepeatsAreKeyed
  <2>. SUFFICES ASSUME TypeOK, PolicyInv, AssertionInv, ServedOnce, NEW r \in Served, NEW s \in Served,
                       r # s, claims[r] = claims[s], ~Safe(claims[r].message),
                       now <= claims[r].expiresAt
                PROVE  claims[r].message.key # None
    BY Zenon DEF RepeatsAreKeyed
  <2>1. r \in Requests /\ s \in Requests /\ claims[r] \in Assertions
    BY DEF Served, PolicyInv
  <2>2. CASE claims[r].eligible
    BY <2>1, <2>2 DEF Served, PolicyInv, ReplayPolicy
  <2>3. CASE ~claims[r].eligible
    <3>1. consumed[r] > claims[s].expiresAt \/ consumed[s] > claims[r].expiresAt
      BY <2>3 DEF ServedOnce
    <3>2. consumed[r] \in Nat /\ consumed[s] \in Nat
      BY <2>1, <2>3 DEF AssertionInv, Single, Served
    <3>3. consumed[r] <= now /\ consumed[s] <= now
      BY <2>1, <3>2, AssertionAssumption DEF PolicyInv
    <3>. QED  BY <2>1, <3>1, <3>2, <3>3, AssertionFacts DEF TypeOK
  <2>. QED  BY <2>2, <2>3
<1>. QED  BY <1>1, <1>2, PolicyStep, AssertionInvariance, ServedOnceThroughExpiry, PTL DEF Spec

=============================================================================
