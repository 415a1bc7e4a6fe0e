---------------------------- MODULE BridgeProofs ----------------------------
(***************************************************************************)
(* Proofs about BridgeRuntime, its journal and BridgeInvocation.  First    *)
(* the types, where a request is, what a step does to the journal and who  *)
(* owns a reservation; then the inductive invariant of the runtime, what   *)
(* follows from it, and that the runtime over its journal implements       *)
(* OnceOnly; last, that the composition of callers, network and runtime    *)
(* keeps all of it and carries it to what the callers are told.            *)
(***************************************************************************)
EXTENDS BridgeInvocation, TLAPS

\* The digest of a grant is a digest, and the grant's id an operation.
LEMMA GrantFacts ==
    ASSUME NEW g \in Grants
    PROVE  /\ g.id \in Ops
           /\ g.kind \in Kinds
           /\ g.content \in Contents
           /\ g.issuedAt \in Nat
           /\ g.expiresAt \in Nat
           /\ g # None
           /\ SemanticDigest(g) \in Digests
BY ProtocolAssumption, Zenon DEF Authorization, Digests

\* A result that ServeHTTP starts is a Result.
LEMMA NewResultFacts ==
    ASSUME NEW g \in Grants, now \in Nat
    PROVE  /\ NewResult(g) \in Results
           /\ NewResult(g).authorization = g
BY GrantFacts, Zenon DEF NewResult, Results, AuthorizationDigest, Nonce

\* Recording what a handler returned keeps a Result one, for the same grant.
LEMMA FinishedFacts ==
    ASSUME NEW res \in Results, NEW output \in Outputs \cup {None}, now \in Nat
    PROVE  /\ Finished(res, output) \in Results
           /\ Finished(res, output).authorization = res.authorization
           /\ output = None => Finished(res, output).errorCode = "outcome_unknown"
BY Zenon DEF Finished, Results

\* Re-issuing a stored Result for another grant gives a Result.
LEMMA ReplayedFacts ==
    ASSUME NEW res \in Results, NEW g \in Grants
    PROVE  /\ [res EXCEPT !.authorization = AuthorizationDigest(g)] \in Results
           /\ [res EXCEPT !.authorization = AuthorizationDigest(g)].authorization = g
           /\ res.authorization = g => [res EXCEPT !.authorization = g] = res
BY Zenon DEF Results, AuthorizationDigest

\* What the columns of a row of bridge_executions hold (sqlstore Store.Reserve).
LEMMA RowFacts ==
    ASSUME NEW row \in Row
    PROVE  row # None /\ row.digest \in Digests /\ row.result \in Results \cup {None}
BY RowAssumption, Zenon DEF Row

\* A statement keeps the table typed and never rewrites what a row holds.
LEMMA AppliedFacts ==
    ASSUME NEW table \in [Ops -> Row \cup {None}], NEW s \in Statement
    PROVE  /\ Applied(table, s) \in [Ops -> Row \cup {None}]
           /\ \A id \in Ops :
                 /\ id # s.id => Applied(table, s)[id] = table[id]
                 /\ table[id] # None =>
                      /\ Applied(table, s)[id] # None
                      /\ Applied(table, s)[id].digest = table[id].digest
                      /\ table[id].result # None =>
                            Applied(table, s)[id].result = table[id].result
<1>1. CASE s \in InsertStatement
  <2>1. s.type = "insert" /\ s.id \in Ops /\ s.digest \in Digests
    BY <1>1, Zenon DEF InsertStatement
  <2>2. [digest |-> s.digest, result |-> None] \in Row
    BY <2>1, Zenon DEF Row
  <2>. QED  BY <2>1, <2>2, RowAssumption DEF Applied, InsertCount
<1>2. CASE s \in UpdateStatement
  <2>1. /\ s.type = "update" /\ s.id \in Ops /\ s.digest \in Digests
        /\ s.result \in Results
    BY <1>2, Zenon DEF UpdateStatement
  <2>2. CASE UpdateCount(table, s) = 1
    <3>1. table[s.id] \in Row /\ table[s.id].result \in {None, s.result}
      BY <2>1, <2>2 DEF UpdateCount
    <3>2. [digest |-> table[s.id].digest, result |-> s.result] \in Row
      BY <2>1, <3>1, Zenon DEF Row
    <3>. QED  BY <2>1, <2>2, <3>1, <3>2, RowAssumption, Zenon DEF Applied
  <2>3. CASE UpdateCount(table, s) # 1
    BY <2>1, <2>3, Zenon DEF Applied
  <2>. QED  BY <2>2, <2>3, Zenon
<1>. QED  BY <1>1, <1>2, Zenon DEF Statement

-----------------------------------------------------------------------------
\* The two statements of a serving goroutine are statements of the journal.
LEMMA InsertOfFacts ==
    ASSUME NEW r \in Requests, grant[r] \in Grants
    PROVE  /\ InsertOf(r) \in Statement
           /\ InsertOf(r).type = "insert"
           /\ InsertOf(r).id = grant[r].id
           /\ InsertOf(r).digest = SemanticDigest(grant[r])
BY GrantFacts, Zenon DEF InsertOf, Insert, Statement, InsertStatement

\* The UPDATE that Complete runs for a serving goroutine is a statement of the journal.
LEMMA UpdateOfFacts ==
    ASSUME NEW r \in Requests, grant[r] \in Grants, result[r] \in Results
    PROVE  /\ UpdateOf(r) \in Statement
           /\ UpdateOf(r).type = "update"
           /\ UpdateOf(r).id = grant[r].id
           /\ UpdateOf(r).digest = SemanticDigest(grant[r])
           /\ UpdateOf(r).result = result[r]
BY GrantFacts, Zenon DEF UpdateOf, Update, Statement, UpdateStatement

\* What Reserve returns for a row it read.
LEMMA ReadReservationFacts ==
    ASSUME NEW row \in Row, NEW digest
    PROVE  /\ ReadReservation(row, digest) \in Reservation
           /\ ReadReservation(row, digest) # NoReservation
           /\ ReadReservation(row, digest).stored # None =>
                /\ row.digest = digest
                /\ ReadReservation(row, digest).stored = row.result
           /\ ReadReservation(row, digest).err = "none" =>
                ReadReservation(row, digest).stored # None
           /\ ReadReservation(row, digest).err # "unavailable"
BY RowFacts, Zenon DEF ReadReservation, Reservation, ReserveErrors, NoReservation

\* The deadline of a handler's context is a time.
LEMMA DeadlineFacts ==
    ASSUME NEW g \in Grants, now \in Nat
    PROVE  HandlerDeadline(g) \in Nat
BY GrantFacts, RuntimeAssumption DEF HandlerDeadline

\* The initial state satisfies the whole invariant.
LEMMA InitIInv == Init => IInv
<1>. SUFFICES ASSUME Init PROVE IInv
  BY Zenon
<1>. USE DEF Init, JournalInit, NoReservation
<1>1. TypeOK
  BY Zenon DEF TypeOK, JournalTypeOK, Locations, Reservation, ReserveErrors
<1>2. LocationInv
  BY Zenon DEF LocationInv, Serving, Building, Answered
<1>3. OwnershipInv /\ PendingInv
  BY Zenon DEF OwnershipInv, PendingInv, Holding, Owning
<1>4. ReplayInv /\ SuccessInv /\ AccountInv
  BY Zenon DEF ReplayInv, SuccessInv, AccountInv
<1>5. AnswersAreDurable /\ RefusalMeansNoEffect
  BY Zenon DEF AnswersAreDurable, RefusalMeansNoEffect, Answered
<1>. QED  BY <1>1, <1>2, <1>3, <1>4, <1>5, Zenon DEF IInv

\* Every action keeps the types.
LEMMA TypeStep == TypeOK /\ LocationInv /\ ReplayInv /\ [Next]_vars => TypeOK'
<1>. SUFFICES ASSUME TypeOK, LocationInv, ReplayInv, [Next]_vars PROVE TypeOK'
  BY Zenon
<1>. USE DEF Goto, Reply, Refuse, journalVars, requestVars
<1>0. CASE UNCHANGED vars
  BY <1>0, Zenon DEF TypeOK, JournalTypeOK, vars
<1>1. ASSUME NEW r \in Requests, NEW path \in Paths, NEW readable \in BOOLEAN,
             NEW trusted \in BOOLEAN, NEW g \in Grants,
             Receive(r, path, readable, trusted, g)
      PROVE  TypeOK'
  BY <1>1 DEF TypeOK, JournalTypeOK, Receive, Locations, Response, Codes
<1>2. ASSUME NEW r \in Requests, NEW answer \in ControlAnswers, Authorize(r, answer)
      PROVE  TypeOK'
  <2>1. grant[r] \in Grants
    BY <1>2, Zenon DEF Authorize, LocationInv, Serving
  <2>. QED  BY <1>2, <2>1, NewResultFacts
            DEF TypeOK, JournalTypeOK, Authorize, Locations, Response, Codes
<1>3. ASSUME NEW r \in Requests, ReserveInsert(r) PROVE TypeOK'
  <2>1. grant[r] \in Grants
    BY <1>3, Zenon DEF ReserveInsert, LocationInv, Serving
  <2>. QED  BY <1>3, <2>1, InsertOfFacts, AppliedFacts, Zenon
            DEF TypeOK, JournalTypeOK, ReserveInsert, Execute, Locations
<1>4. ASSUME NEW r \in Requests, ReserveInsertFails(r) PROVE TypeOK'
  <2>1. grant[r] \in Grants
    BY <1>4, Zenon DEF ReserveInsertFails, LocationInv, Serving
  <2>. QED  BY <1>4, <2>1, InsertOfFacts, Zenon
            DEF TypeOK, JournalTypeOK, ReserveInsertFails, Lose, Locations,
                Reservation, ReserveErrors
<1>5. ASSUME NEW r \in Requests, ReserveSelect(r) PROVE TypeOK'
  <2>1. grant[r] \in Grants /\ rows[grant[r].id] # None
    BY <1>5, Zenon DEF ReserveSelect, LocationInv, ReplayInv, Serving
  <2>2. rows[grant[r].id] \in Row
    BY <2>1, GrantFacts, Zenon DEF TypeOK, JournalTypeOK
  <2>. QED  BY <1>5, <2>2, ReadReservationFacts, Zenon
            DEF TypeOK, JournalTypeOK, ReserveSelect, Locations
<1>6. ASSUME NEW r \in Requests, ReserveSelectFails(r) PROVE TypeOK'
  BY <1>6, Zenon DEF TypeOK, JournalTypeOK, ReserveSelectFails, Locations, Reservation,
              ReserveErrors
<1>7. ASSUME NEW r \in Requests, AfterReserve(r) PROVE TypeOK'
  <2>1. grant[r] \in Grants /\ HandlerDeadline(grant[r]) \in Nat
    BY <1>7, DeadlineFacts, Zenon DEF AfterReserve, LocationInv, Serving, TypeOK
  <2>2. got[r].stored \in Results \cup {None}
    BY Zenon DEF TypeOK, Reservation
  <2>3. got[r].stored # None =>
          [got[r].stored EXCEPT !.authorization = AuthorizationDigest(grant[r])] \in Results
    BY <2>1, <2>2, ReplayedFacts, Zenon
  <2>4. pc' \in [Requests -> Locations]
    BY <1>7, Zenon DEF TypeOK, AfterReserve, Refuse, Reply, Goto, Locations
  <2>5. result' \in [Requests -> Results \cup {None}] /\ deadline' \in [Requests -> Nat]
    <3>1. \/ result' = result
          \/ \E x \in Results : result' = [result EXCEPT ![r] = x]
      BY <1>7, <2>3, Zenon DEF AfterReserve
    <3>2. deadline' = deadline \/ \E x \in Nat : deadline' = [deadline EXCEPT ![r] = x]
      BY <1>7, <2>1, Zenon DEF AfterReserve
    <3>3. result' \in [Requests -> Results \cup {None}]
      BY <3>1, Zenon DEF TypeOK
    <3>4. deadline' \in [Requests -> Nat]
      BY <3>2, Zenon DEF TypeOK
    <3>. QED  BY <3>3, <3>4, Zenon
  <2>6. resp' \in [Requests -> Response \cup {None}]
    <3>1. \A code \in Codes : [code |-> code, result |-> None] \in Response
      BY Zenon DEF Response
    <3>2. resp' = resp \/ \E code \in Codes : resp' = [resp EXCEPT ![r] = [code |-> code, result |-> None]]
      BY <1>7, Zenon DEF AfterReserve, Refuse, Reply, Codes
    <3>. QED  BY <3>1, <3>2, Zenon DEF TypeOK
  <2>. QED  BY <1>7, <2>4, <2>5, <2>6, Zenon DEF TypeOK, JournalTypeOK, AfterReserve, journalVars
<1>8. ASSUME NEW r \in Requests, EnterHandler(r) PROVE TypeOK'
  <2>1. Finished(result[r], None) \in Results
    BY <1>8, FinishedFacts, Zenon DEF EnterHandler, LocationInv, Building, TypeOK
  <2>. QED  BY <1>8, <2>1 DEF TypeOK, JournalTypeOK, EnterHandler, Locations
<1>9. ASSUME NEW r \in Requests, NEW output \in Outputs \cup {None},
             HandlerReturns(r, output)
      PROVE  TypeOK'
  <2>1. Finished(result[r], IF HandlerContextAlive(r) THEN output ELSE None) \in Results
    BY <1>9, FinishedFacts, Zenon DEF HandlerReturns, LocationInv, Building, TypeOK
  <2>. QED  BY <1>9, <2>1, Zenon DEF TypeOK, JournalTypeOK, HandlerReturns, Locations
<1>10. ASSUME NEW r \in Requests, Complete(r) \/ CompleteFails(r) PROVE TypeOK'
  <2>1. UpdateOf(r) \in Statement
    BY <1>10, UpdateOfFacts, Zenon
    DEF Complete, CompleteFails, LocationInv, Serving, Building
  <2>2. got' \in [Requests -> Reservation]
    <3>1. [err |-> "unavailable", stored |-> None] \in Reservation
      BY Zenon DEF Reservation, ReserveErrors
    <3>2. got' = got \/ got' = [got EXCEPT ![r] = [err |-> "unavailable", stored |-> None]]
      BY <1>10, Zenon DEF Complete, CompleteFails
    <3>. QED  BY <3>1, <3>2, Zenon DEF TypeOK
  <2>3. now' \in Nat /\ grant' = grant /\ result' = result /\ deadline' = deadline
        /\ called' = called /\ gone' = gone
    BY <1>10, Zenon DEF TypeOK, Complete, CompleteFails
  <2>4. rows' \in [Ops -> Row \cup {None}] /\ late' \in SUBSET Statement
    BY <1>10, <2>1, AppliedFacts DEF TypeOK, JournalTypeOK, Complete, CompleteFails, Execute, Lose
  <2>5. pc' \in [Requests -> Locations] /\ resp' \in [Requests -> Response \cup {None}]
    BY <1>10 DEF TypeOK, Complete, CompleteFails, Goto, Refuse, Reply, Locations, Response, Codes
  <2>. QED  BY <2>2, <2>3, <2>4, <2>5, Zenon DEF TypeOK, JournalTypeOK
<1>11. ASSUME NEW r \in Requests, NEW signs \in BOOLEAN, Sign(r, signs) PROVE TypeOK'
  BY <1>11 DEF TypeOK, JournalTypeOK, Sign, LocationInv, Locations, Response, Codes
<1>12. ASSUME NEW r \in Requests, Disconnect(r) \/ Crash(r) PROVE TypeOK'
  BY <1>12, Zenon DEF TypeOK, JournalTypeOK, Disconnect, Crash, Locations
<1>13. CASE Tick
  BY <1>13 DEF TypeOK, JournalTypeOK, Tick
<1>14. CASE DatabaseStep
  BY <1>14, AppliedFacts DEF TypeOK, JournalTypeOK, DatabaseStep, LateCommit
<1>. QED  BY Zenon, <1>0, <1>1, <1>2, <1>3, <1>4, <1>5, <1>6, <1>7, <1>8, <1>9, <1>10,
             <1>11, <1>12, <1>13, <1>14 DEF Next, Serve, Environment

-----------------------------------------------------------------------------
\* Every action keeps what the locations of a goroutine say.
LEMMA LocationStep == TypeOK /\ LocationInv /\ ReplayInv /\ [Next]_vars => LocationInv'
<1>. SUFFICES ASSUME TypeOK, LocationInv, ReplayInv, [Next]_vars PROVE LocationInv'
  BY Zenon
<1>. USE DEF Goto, Reply, Refuse, journalVars, requestVars, Answered
<1>0. CASE UNCHANGED vars
  BY <1>0, Zenon DEF LocationInv, vars
<1>1. ASSUME NEW r \in Requests, NEW path \in Paths, NEW readable \in BOOLEAN,
             NEW trusted \in BOOLEAN, NEW g \in Grants,
             Receive(r, path, readable, trusted, g)
      PROVE  LocationInv'
  BY <1>1, SMTT(30) DEF TypeOK, LocationInv, Receive, Serving, Building
<1>2. ASSUME NEW r \in Requests, NEW answer \in ControlAnswers, Authorize(r, answer)
      PROVE  LocationInv'
  <2>1. grant[r] \in Grants
    BY <1>2, Zenon DEF Authorize, LocationInv, Serving
  <2>2. /\ NewResult(grant[r]) \in Results
        /\ NewResult(grant[r]).authorization = grant[r]
        /\ grant[r].kind \in {"challenge", "invocation"}
    BY <2>1, NewResultFacts, GrantFacts, Zenon DEF TypeOK, Kinds
  <2>. QED  BY <1>2, <2>1, <2>2, SMTT(30) DEF TypeOK, LocationInv, Authorize, Serving, Building
<1>3. ASSUME NEW r \in Requests, ReserveInsert(r) PROVE LocationInv'
  BY <1>3 DEF TypeOK, LocationInv, ReserveInsert, Serving, Building
<1>4. ASSUME NEW r \in Requests, ReserveInsertFails(r) PROVE LocationInv'
  BY <1>4 DEF TypeOK, LocationInv, ReserveInsertFails, Serving, Building
<1>5. ASSUME NEW r \in Requests, ReserveSelect(r) \/ ReserveSelectFails(r)
      PROVE  LocationInv'
  BY <1>5, SMTT(30) DEF TypeOK, LocationInv, ReserveSelect, ReserveSelectFails, Serving, Building
<1>6. ASSUME NEW r \in Requests, AfterReserve(r) PROVE LocationInv'
  <2>1. grant[r] \in Grants /\ got[r].stored \in Results \cup {None}
    BY <1>6, Zenon DEF AfterReserve, LocationInv, Serving, TypeOK, Reservation
  <2>. DEFINE res == [got[r].stored EXCEPT !.authorization = AuthorizationDigest(grant[r])]
  <2>2. got[r].stored # None => res \in Results /\ res.authorization = grant[r]
    BY <2>1, ReplayedFacts, Zenon
  <2>3. got[r].stored # None /\ pc'[r] = "sign" => result' = [result EXCEPT ![r] = res]
    BY <1>6, Zenon DEF AfterReserve, TypeOK
  <2>4. pc'[r] = "sign" => got[r].stored # None
    BY <1>6, Zenon DEF AfterReserve, TypeOK
  <2>. HIDE DEF res
  <2>. QED  BY <1>6, <2>1, <2>2, <2>3, <2>4
            DEF TypeOK, LocationInv, AfterReserve, Serving, Building
<1>7. ASSUME NEW r \in Requests, EnterHandler(r) PROVE LocationInv'
  <2>1. /\ Finished(result[r], None) \in Results
        /\ Finished(result[r], None).authorization = grant[r]
        /\ Finished(result[r], None).errorCode = "outcome_unknown"
    BY <1>7, FinishedFacts DEF EnterHandler, LocationInv, Building, TypeOK
  <2>. QED  BY <1>7, <2>1 DEF TypeOK, LocationInv, EnterHandler, Serving, Building
<1>8. ASSUME NEW r \in Requests, NEW output \in Outputs \cup {None},
             HandlerReturns(r, output)
      PROVE  LocationInv'
  <2>. DEFINE res == Finished(result[r], IF HandlerContextAlive(r) THEN output ELSE None)
  <2>1. res \in Results /\ res.authorization = grant[r] /\ r \in called
    BY <1>8, FinishedFacts DEF HandlerReturns, LocationInv, Building, TypeOK
  <2>. HIDE DEF res
  <2>2. result' = [result EXCEPT ![r] = res]
    BY <1>8, Zenon DEF HandlerReturns, res
  <2>. QED  BY <1>8, <2>1, <2>2 DEF TypeOK, LocationInv, HandlerReturns, Serving, Building
<1>9. ASSUME NEW r \in Requests, Complete(r) \/ CompleteFails(r) PROVE LocationInv'
  BY <1>9, SMTT(30) DEF TypeOK, LocationInv, Complete, CompleteFails, Serving, Building
<1>10. ASSUME NEW r \in Requests, NEW signs \in BOOLEAN, Sign(r, signs) PROVE LocationInv'
  BY <1>10, SMTT(30) DEF TypeOK, LocationInv, Sign, Serving, Building
<1>11. ASSUME NEW r \in Requests, Disconnect(r) \/ Crash(r) PROVE LocationInv'
  BY <1>11, SMTT(30) DEF TypeOK, LocationInv, Disconnect, Crash, InProgress, Serving, Building,
               Locations
<1>12. CASE Tick \/ DatabaseStep
  BY <1>12, SMTT(30) DEF LocationInv, Tick, DatabaseStep
<1>. QED  BY Zenon, <1>0, <1>1, <1>2, <1>3, <1>4, <1>5, <1>6, <1>7, <1>8, <1>9, <1>10,
             <1>11, <1>12 DEF Next, Serve, Environment

-----------------------------------------------------------------------------
(***************************************************************************)
(* What one step can do to the control state of a request q, whoever       *)
(* takes it.  The remaining conjuncts of the invariant follow from this    *)
(* and from what the step does to the journal.                             *)
(***************************************************************************)
ControlFacts(q) ==
    /\ pc[q] # "idle" => grant'[q] = grant[q]
    /\ pc[q] \in {"complete", "sign", "done", "crashed"} =>
          /\ pc'[q] \in {"complete", "sign", "done", "crashed"}
          /\ result'[q] = result[q]
    /\ resp[q] # None => resp'[q] = resp[q]
    /\ q \in called => q \in called'
    /\ q \in called' => q \in called \/ (pc[q] = "dispatch" /\ pc'[q] = "running")
    /\ Owning(q)' =>
          \/ Owning(q)
          \/ ReserveInsert(q) /\ InsertCount(rows, InsertOf(q)) = 1
    /\ Owning(q) => Owning(q)' \/ Failed(q)' \/ Complete(q)
    /\ Failed(q) => Failed(q)'
    /\ pc'[q] = "select" =>
          \/ pc[q] = "select"
          \/ ReserveInsert(q) /\ InsertCount(rows, InsertOf(q)) # 1
    /\ pc'[q] = "reserved" /\ got'[q].stored # None =>
          \/ pc[q] = "reserved" /\ got'[q] = got[q]
          \/ ReserveSelect(q)
    /\ pc'[q] = "sign" /\ grant'[q].kind = "invocation" =>
          \/ pc[q] = "sign"
          \/ /\ pc[q] = "reserved" /\ got[q].stored # None
             /\ result'[q] = [got[q].stored EXCEPT !.authorization = grant[q]]
             /\ UNCHANGED rows
          \/ Complete(q) /\ UpdateCount(rows, UpdateOf(q)) = 1
    /\ Answered(q, {"ok"})' /\ resp[q] = None =>
          pc[q] = "sign" /\ resp'[q].result = result[q] /\ UNCHANGED rows
    /\ q \in called /\ resp'[q] # None /\ resp[q] = None =>
          resp'[q].code \in {"ok", "outcome_unknown", "result_unavailable"}

\* An answer is never taken for no answer.
LEMMA RefusalFacts ==
    \A code \in Codes, value \in Results \cup {None} :
        [code |-> code, result |-> value] # None
BY ResponseAssumption DEF Response

\* How one step of the runtime moves the goroutine of one request (Runtime.ServeHTTP).
LEMMA ControlStep ==
    ASSUME TypeOK, LocationInv, ReplayInv, [Next]_vars, NEW q \in Requests
    PROVE  ControlFacts(q)
<1>. USE DEF Goto, Reply, Refuse, journalVars, requestVars, Owning, Failed, Answered
<1>0. CASE UNCHANGED vars
  BY <1>0, Zenon DEF ControlFacts, vars
<1>1. ASSUME NEW r \in Requests, NEW path \in Paths, NEW readable \in BOOLEAN,
             NEW trusted \in BOOLEAN, NEW g \in Grants,
             Receive(r, path, readable, trusted, g)
      PROVE  ControlFacts(q)
  BY <1>1 DEF ControlFacts, TypeOK, LocationInv, Receive
<1>2. ASSUME NEW r \in Requests, NEW answer \in ControlAnswers, Authorize(r, answer)
      PROVE  ControlFacts(q)
  BY <1>2 DEF ControlFacts, TypeOK, LocationInv, Authorize
<1>3. ASSUME NEW r \in Requests, ReserveInsert(r) PROVE ControlFacts(q)
  <2>1. CASE q # r
    BY <1>3, <2>1, Zenon DEF ControlFacts, TypeOK, LocationInv, ReserveInsert
  <2>2. CASE q = r /\ InsertCount(rows, InsertOf(q)) = 1
    BY <1>3, <2>2 DEF ControlFacts, TypeOK, LocationInv, ReserveInsert, NoReservation
  <2>3. CASE q = r /\ InsertCount(rows, InsertOf(q)) # 1
    BY <1>3, <2>3, Zenon DEF ControlFacts, TypeOK, LocationInv, ReserveInsert, NoReservation
  <2>. QED  BY <2>1, <2>2, <2>3, Zenon
<1>4. ASSUME NEW r \in Requests, ReserveInsertFails(r) PROVE ControlFacts(q)
  BY <1>4, Zenon DEF ControlFacts, TypeOK, LocationInv, ReserveInsertFails, NoReservation
<1>5. ASSUME NEW r \in Requests, ReserveSelect(r) PROVE ControlFacts(q)
  <2>1. CASE q # r
    BY <1>5, <2>1, Zenon DEF ControlFacts, TypeOK, LocationInv, ReserveSelect
  <2>2. CASE q = r
    <3>1. grant[r] \in Grants /\ rows[grant[r].id] # None
      BY <1>5, Zenon DEF ReserveSelect, LocationInv, ReplayInv, Serving
    <3>2. rows[grant[r].id] \in Row
      BY <3>1, GrantFacts, Zenon DEF TypeOK, JournalTypeOK
    <3>3. ReadReservation(rows[grant[r].id], SemanticDigest(grant[r])) # NoReservation
      BY <3>2, ReadReservationFacts, Zenon
    <3>. QED  BY <1>5, <2>2, <3>3, Zenon DEF ControlFacts, TypeOK, LocationInv, ReserveSelect
  <2>. QED  BY <2>1, <2>2, Zenon
<1>6. ASSUME NEW r \in Requests, ReserveSelectFails(r) PROVE ControlFacts(q)
  BY <1>6, Zenon DEF ControlFacts, TypeOK, LocationInv, ReserveSelectFails, NoReservation
<1>7. ASSUME NEW r \in Requests, AfterReserve(r) PROVE ControlFacts(q)
  <2>1. CASE q # r
    BY <1>7, <2>1 DEF ControlFacts, TypeOK, LocationInv, AfterReserve
  <2>2. CASE q = r
    <3>1. got[r].err = "none" /\ got[r].stored = None => got[r] = NoReservation
      BY Zenon DEF TypeOK, Reservation, NoReservation
    <3>2. ~GrantActive(r) \/ got[r].err = "unavailable" => Failed(r)'
      BY <1>7, <2>2, RefusalFacts DEF TypeOK, AfterReserve, Codes
    <3>. QED  BY <1>7, <2>2, <3>1, <3>2 DEF ControlFacts, TypeOK, LocationInv, AfterReserve,
                 NoReservation, AuthorizationDigest
  <2>. QED  BY <2>1, <2>2, Zenon
<1>8. ASSUME NEW r \in Requests, EnterHandler(r) PROVE ControlFacts(q)
  BY <1>8, Zenon DEF ControlFacts, TypeOK, LocationInv, EnterHandler
<1>9. ASSUME NEW r \in Requests, NEW output \in Outputs \cup {None},
             HandlerReturns(r, output)
      PROVE  ControlFacts(q)
  BY <1>9, Zenon DEF ControlFacts, TypeOK, LocationInv, HandlerReturns
<1>10. ASSUME NEW r \in Requests, Complete(r) PROVE ControlFacts(q)
  BY <1>10 DEF ControlFacts, TypeOK, LocationInv, Complete
<1>11. ASSUME NEW r \in Requests, CompleteFails(r) PROVE ControlFacts(q)
  <2>1. CASE q # r
    BY <1>11, <2>1, Zenon DEF ControlFacts, TypeOK, LocationInv, CompleteFails, Lose
  <2>2. CASE q = r
    BY <1>11, <2>2, RefusalFacts, Zenon
    DEF ControlFacts, TypeOK, LocationInv, CompleteFails, Lose, Codes
  <2>. QED  BY <2>1, <2>2, Zenon
<1>12. ASSUME NEW r \in Requests, NEW signs \in BOOLEAN, Sign(r, signs)
       PROVE  ControlFacts(q)
  BY <1>12 DEF ControlFacts, TypeOK, LocationInv, Sign
<1>13. ASSUME NEW r \in Requests, Disconnect(r) \/ Crash(r) PROVE ControlFacts(q)
  BY <1>13, Zenon DEF ControlFacts, TypeOK, LocationInv, Disconnect, Crash, InProgress
<1>14. CASE Tick \/ DatabaseStep
  BY <1>14, Zenon DEF ControlFacts, Tick, DatabaseStep
<1>. QED  BY Zenon, <1>0, <1>1, <1>2, <1>3, <1>4, <1>5, <1>6, <1>7, <1>8, <1>9, <1>10,
             <1>11, <1>12, <1>13, <1>14 DEF Next, Serve, Environment

-----------------------------------------------------------------------------
\* How a statement changes a row: it creates it without a result, or it gives
\* the row of its digest its result.
LEMMA AppliedChange ==
    ASSUME NEW table \in [Ops -> Row \cup {None}], NEW s \in Statement, NEW id \in Ops
    PROVE  /\ table[id] = None /\ Applied(table, s)[id] # None =>
                /\ s.type = "insert" /\ s.id = id
                /\ Applied(table, s)[id].digest = s.digest
                /\ Applied(table, s)[id].result = None
           /\ table[id] # None /\ table[id].result = None
                /\ Applied(table, s)[id].result # None =>
                /\ s.type = "update" /\ s.id = id
                /\ table[id].digest = s.digest
                /\ Applied(table, s)[id].result = s.result
<1>1. CASE s \in InsertStatement
  <2>1. s.type = "insert" /\ s.id \in Ops
    BY <1>1, Zenon DEF InsertStatement
  <2>. QED  BY <2>1, Zenon DEF Applied, InsertCount
<1>2. CASE s \in UpdateStatement
  <2>1. s.type = "update" /\ s.id \in Ops
    BY <1>2, Zenon DEF UpdateStatement
  <2>. QED  BY <2>1, SMTT(30) DEF Applied, UpdateCount
<1>. QED  BY <1>1, <1>2, Zenon DEF Statement

(***************************************************************************)
(* What one step can do to the journal.                                    *)
(***************************************************************************)
Preserved(id) ==
    rows[id] # None =>
        /\ rows'[id] # None
        /\ rows'[id].digest = rows[id].digest
        /\ rows[id].result # None => rows'[id].result = rows[id].result

Created(id) ==
    rows[id] = None /\ rows'[id] # None =>
        /\ rows'[id].result = None
        /\ \/ \E q \in Requests :
                /\ ReserveInsert(q) /\ InsertCount(rows, InsertOf(q)) = 1
                /\ SameOperation(q, id, rows'[id].digest)
           \/ \E s \in late : s.type = "insert" /\ s.id = id /\ s.digest = rows'[id].digest

Completed(id) ==
    rows[id] # None /\ rows[id].result = None /\ rows'[id].result # None =>
        \/ \E q \in Requests :
             /\ Complete(q)
             /\ SameOperation(q, id, rows[id].digest)
             /\ rows'[id].result = result[q]
        \/ \E s \in late : /\ s.type = "update" /\ s.id = id
                           /\ s.digest = rows[id].digest
                           /\ rows'[id].result = s.result

Lost(s) ==
    \/ s \in late
    \/ \E q \in Requests : ReserveInsertFails(q) /\ s = InsertOf(q)
    \/ \E q \in Requests : CompleteFails(q) /\ s = UpdateOf(q)

JournalFacts ==
    /\ \A id \in Ops : Preserved(id) /\ Created(id) /\ Completed(id)
    /\ \A s \in late' : Lost(s)

\* How one step changes the journal: rows are kept, created by Reserve and completed
\* once by Complete (sqlstore Store.Reserve, Store.Complete).
LEMMA JournalStep ==
    ASSUME TypeOK, LocationInv, [Next]_vars
    PROVE  JournalFacts
<1>1. ASSUME NEW r \in Requests, ReserveInsert(r) PROVE JournalFacts
  <2>1. grant[r] \in Grants
    BY <1>1, Zenon DEF ReserveInsert, LocationInv, Serving
  <2>2. rows' = Applied(rows, InsertOf(r)) /\ late' = late
    BY <1>1, Zenon DEF ReserveInsert, Execute
  <2>3. rows \in [Ops -> Row \cup {None}]
    BY Zenon DEF TypeOK, JournalTypeOK
  <2>4. InsertOf(r) \in Statement /\ InsertOf(r).type = "insert"
    BY <2>1, InsertOfFacts, Zenon
  <2>5. ASSUME NEW id \in Ops PROVE Preserved(id) /\ Completed(id)
    BY <2>2, <2>3, <2>4, AppliedFacts, AppliedChange, SMTT(30) DEF Preserved, Completed
  <2>6. ASSUME NEW id \in Ops, rows[id] = None, rows'[id] # None PROVE Created(id)
    <3>1. /\ grant[r].id = id /\ rows'[id].digest = SemanticDigest(grant[r])
          /\ rows'[id].result = None
      BY <2>1, <2>2, <2>3, <2>4, <2>6, AppliedChange, InsertOfFacts, SMTT(30)
    <3>2. InsertCount(rows, InsertOf(r)) = 1
      BY <2>1, <2>6, <3>1, InsertOfFacts, Zenon DEF InsertCount
    <3>. QED  BY <1>1, <2>1, <3>1, <3>2, Zenon DEF Created, SameOperation
  <2>. QED  BY <2>2, <2>5, <2>6, Zenon DEF JournalFacts, Created, Lost
<1>2. ASSUME NEW r \in Requests, Complete(r) PROVE JournalFacts
  <2>1. grant[r] \in Grants /\ result[r] \in Results
    BY <1>2, Zenon DEF Complete, LocationInv, Serving, Building
  <2>2. rows' = Applied(rows, UpdateOf(r)) /\ late' = late
    BY <1>2, Zenon DEF Complete, Execute
  <2>3. rows \in [Ops -> Row \cup {None}]
    BY Zenon DEF TypeOK, JournalTypeOK
  <2>4. UpdateOf(r) \in Statement /\ UpdateOf(r).type = "update"
    BY <2>1, UpdateOfFacts, Zenon
  <2>5. ASSUME NEW id \in Ops PROVE Preserved(id) /\ Created(id)
    BY <2>2, <2>3, <2>4, AppliedFacts, AppliedChange, SMTT(30) DEF Preserved, Created
  <2>6. ASSUME NEW id \in Ops, rows[id] # None, rows[id].result = None,
               rows'[id].result # None
        PROVE  Completed(id)
    <3>1. /\ grant[r].id = id /\ rows[id].digest = SemanticDigest(grant[r])
          /\ rows'[id].result = result[r]
      BY <2>1, <2>2, <2>3, <2>4, <2>6, AppliedChange, UpdateOfFacts
    <3>. QED  BY <1>2, <2>1, <3>1, Zenon DEF Completed, SameOperation
  <2>. QED  BY <2>2, <2>5, <2>6, Zenon DEF JournalFacts, Completed, Lost
<1>3. CASE DatabaseStep
  <2>1. PICK s \in late : rows' = Applied(rows, s) /\ late' = late \ {s}
    BY <1>3, Zenon DEF DatabaseStep, LateCommit
  <2>2. rows \in [Ops -> Row \cup {None}] /\ s \in Statement
    BY Zenon DEF TypeOK, JournalTypeOK
  <2>3. ASSUME NEW id \in Ops PROVE Preserved(id) /\ Created(id) /\ Completed(id)
    <3>1. Preserved(id)
      BY <2>1, <2>2, AppliedFacts, Zenon DEF Preserved
    <3>2. Created(id)
      BY <2>1, <2>2, AppliedChange DEF Created
    <3>3. Completed(id)
      BY <2>1, <2>2, AppliedChange DEF Completed
    <3>. QED  BY <3>1, <3>2, <3>3, Zenon
  <2>. QED  BY <2>1, <2>3, Zenon DEF JournalFacts, Lost
<1>4. ASSUME NEW r \in Requests, ReserveInsertFails(r) \/ CompleteFails(r)
      PROVE  JournalFacts
  BY <1>4, Zenon DEF JournalFacts, Preserved, Created, Completed, Lost,
                       ReserveInsertFails, CompleteFails, Lose
<1>5. CASE UNCHANGED journalVars
  BY <1>5, Zenon DEF JournalFacts, Preserved, Created, Completed, Lost, journalVars
<1>. QED
  BY <1>1, <1>2, <1>3, <1>4, <1>5, ZenonT(30)
  DEF Next, Serve, Environment, Receive, Authorize, ReserveSelect, ReserveSelectFails,
      AfterReserve, EnterHandler, HandlerReturns, Sign, Disconnect, Crash, Tick, vars,
      journalVars

-----------------------------------------------------------------------------
\* A request that owns or has run its operation has a grant for it.
LEMMA HoldingFacts ==
    ASSUME TypeOK, LocationInv, NEW q \in Requests, Holding(q)
    PROVE  grant[q] \in Grants /\ grant[q].id \in Ops /\ pc[q] # "idle"
BY GrantFacts, Zenon DEF Holding, Owning, LocationInv, Serving

\* An INSERT that counted its row: the key was free, and the row is its own.
LEMMA InsertedFacts ==
    ASSUME TypeOK, LocationInv, NEW q \in Requests, ReserveInsert(q),
           InsertCount(rows, InsertOf(q)) = 1
    PROVE  /\ grant[q] \in Grants /\ grant[q].id \in Ops /\ grant'[q] = grant[q]
           /\ rows[grant[q].id] = None
           /\ rows'[grant[q].id] # None
           /\ rows'[grant[q].id].digest = SemanticDigest(grant[q])
           /\ rows'[grant[q].id].result = None
<1>1. grant[q] \in Grants /\ grant[q].id \in Ops
  BY GrantFacts, Zenon DEF ReserveInsert, LocationInv, Serving
<1>2. rows[grant[q].id] = None
  BY <1>1, InsertOfFacts DEF InsertCount
<1>3. rows'[grant[q].id] = [digest |-> SemanticDigest(grant[q]), result |-> None]
  BY <1>1, InsertOfFacts, Zenon DEF ReserveInsert, Execute, Applied, TypeOK, JournalTypeOK
<1>4. [digest |-> SemanticDigest(grant[q]), result |-> None] \in Row
  BY <1>1, GrantFacts, Zenon DEF Row
<1>5. rows'[grant[q].id] # None
  BY <1>3, <1>4, RowAssumption, Zenon
<1>6. grant'[q] = grant[q]
  BY Zenon DEF ReserveInsert
<1>. QED  BY <1>1, <1>2, <1>3, <1>5, <1>6

\* Only the request that inserted the row becomes a holder, and then no other
\* request holds that operation.
LEMMA OwnershipStep ==
    ASSUME TypeOK, LocationInv, OwnershipInv, ReplayInv, [Next]_vars
    PROVE  OwnershipInv'
<1>. DEFINE Inserts(q) == ReserveInsert(q) /\ InsertCount(rows, InsertOf(q)) = 1
<1>1. ASSUME NEW q \in Requests, Holding(q)' PROVE Holding(q) \/ Inserts(q)
  BY <1>1, ControlStep, Zenon DEF Holding, ControlFacts, Owning
<1>2. ASSUME NEW q \in Requests, Holding(q)
      PROVE  /\ grant'[q] = grant[q] /\ grant[q].id \in Ops
             /\ rows[grant[q].id] # None
             /\ rows'[grant[q].id] # None
             /\ rows'[grant[q].id].digest = SemanticDigest(grant[q])
  <2>1. grant[q].id \in Ops /\ grant'[q] = grant[q]
    BY <1>2, HoldingFacts, ControlStep, Zenon DEF ControlFacts
  <2>2. rows[grant[q].id] # None /\ rows[grant[q].id].digest = SemanticDigest(grant[q])
    BY <1>2, Zenon DEF OwnershipInv
  <2>. QED  BY <2>1, <2>2, JournalStep, Zenon DEF JournalFacts, Preserved
<1>3. ASSUME NEW q \in Requests, Inserts(q)
      PROVE  /\ grant'[q] = grant[q]
             /\ rows[grant[q].id] = None
             /\ rows'[grant[q].id] # None
             /\ rows'[grant[q].id].digest = SemanticDigest(grant[q])
  BY <1>3, InsertedFacts, Zenon
<1>4. ASSUME NEW q \in Requests, NEW p \in Requests, Inserts(q), Inserts(p) PROVE p = q
  BY <1>4, Zenon DEF ReserveInsert, Goto, TypeOK
<1>. HIDE DEF Inserts
<1>5. ASSUME NEW q \in Requests, Holding(q)'
      PROVE  /\ rows'[grant'[q].id] # None
             /\ rows'[grant'[q].id].digest = SemanticDigest(grant'[q])
  BY <1>1, <1>2, <1>3, <1>5, Zenon
<1>6. ASSUME NEW q \in Requests, NEW p \in Requests, Holding(q)', Holding(p)',
             grant'[q].id = grant'[p].id
      PROVE  q = p
  <2>1. CASE Holding(q) /\ Holding(p)
    BY <1>2, <1>6, <2>1, Zenon DEF OwnershipInv
  <2>2. CASE Holding(q) /\ Inserts(p)
    BY <1>2, <1>3, <1>6, <2>2
  <2>3. CASE Inserts(q) /\ Holding(p)
    BY <1>2, <1>3, <1>6, <2>3
  <2>4. CASE Inserts(q) /\ Inserts(p)
    BY <1>4, <2>4, Zenon
  <2>. QED  BY <1>1, <1>6, <2>1, <2>2, <2>3, <2>4, Zenon
<1>7. \A q \in Requests :
        Holding(q)' => /\ rows'[grant'[q].id] # None
                       /\ rows'[grant'[q].id].digest = SemanticDigest(grant'[q])
  BY <1>5, Zenon
<1>8. \A q, p \in Requests :
        Holding(q)' /\ Holding(p)' /\ grant'[q].id = grant'[p].id => q = p
  BY <1>6, Zenon
<1>9. \A q \in Requests : SemanticDigest(grant'[q]) = SemanticDigest(grant[q])'
  BY Zenon DEF SemanticDigest
<1>. QED  BY <1>7, <1>8, <1>9, Zenon DEF OwnershipInv

\* No step gives a result to an operation that stays owned, and a lost UPDATE
\* is never for an operation that is owned.
LEMMA PendingStep ==
    ASSUME TypeOK, LocationInv, OwnershipInv, PendingInv, ReplayInv, [Next]_vars
    PROVE  PendingInv'
<1>. DEFINE Inserts(q) == ReserveInsert(q) /\ InsertCount(rows, InsertOf(q)) = 1
<1>1. ASSUME NEW q \in Requests, Owning(q)' PROVE Owning(q) \/ Inserts(q)
  BY <1>1, ControlStep, Zenon DEF ControlFacts
<1>2. ASSUME NEW q \in Requests, Owning(q)
      PROVE  /\ grant'[q] = grant[q] /\ grant[q].id \in Ops
             /\ rows[grant[q].id] # None
             /\ rows[grant[q].id].result = None
  BY <1>2, HoldingFacts, ControlStep, Zenon DEF ControlFacts, Holding, OwnershipInv, PendingInv
<1>3. ASSUME NEW q \in Requests, Complete(q) \/ CompleteFails(q)
      PROVE  Owning(q) /\ ~Owning(q)'
  BY <1>3, Zenon DEF Complete, CompleteFails, Owning, Goto, Refuse, Reply, TypeOK
<1>4. ASSUME NEW q \in Requests, NEW p \in Requests, Owning(q), Owning(p),
             grant[q].id = grant[p].id
      PROVE  q = p
  BY <1>4, Zenon DEF OwnershipInv, Holding
<1>5. ASSUME NEW q \in Requests, Inserts(q)
      PROVE  /\ grant'[q] = grant[q]
             /\ rows[grant[q].id] = None
             /\ rows'[grant[q].id].result = None
  BY <1>5, InsertedFacts, Zenon
<1>. HIDE DEF Inserts
<1>6. ASSUME NEW q \in Requests, Owning(q)' PROVE rows'[grant'[q].id].result = None
  <2>1. CASE Inserts(q)
    BY <1>5, <2>1, Zenon
  <2>2. CASE Owning(q)
    <3>1. SUFFICES ASSUME rows'[grant[q].id].result # None PROVE FALSE
      BY <1>2, <2>2, Zenon
    <3>2. Completed(grant[q].id)
      BY <1>2, <2>2, JournalStep, Zenon DEF JournalFacts
    <3>3. CASE \E p \in Requests : Complete(p) /\ grant[p].id = grant[q].id
      BY <1>3, <1>4, <1>6, <2>2, <3>3, Zenon
    <3>4. CASE \E s \in late : s.type = "update" /\ s.id = grant[q].id
      BY <2>2, <3>4, Zenon DEF PendingInv
    <3>. QED  BY <1>2, <2>2, <3>1, <3>2, <3>3, <3>4, Zenon DEF Completed, SameOperation
  <2>. QED  BY <1>1, <1>6, <2>1, <2>2, Zenon
<1>7. ASSUME NEW s \in late', s.type = "update"
      PROVE  rows'[s.id] # None /\ \A q \in Requests : Owning(q)' => grant'[q].id # s.id
  <2>1. CASE s \in late
    <3>1. rows[s.id] # None /\ s.id \in Ops
      BY <1>7, <2>1, Zenon DEF PendingInv, TypeOK, JournalTypeOK, Statement, InsertStatement,
                        UpdateStatement
    <3>2. rows'[s.id] # None
      BY <3>1, JournalStep, Zenon DEF JournalFacts, Preserved
    <3>. QED  BY <1>1, <1>2, <1>5, <1>7, <2>1, <3>1, <3>2, SMTT(30) DEF PendingInv
  <2>2. ASSUME NEW p \in Requests, CompleteFails(p), s = UpdateOf(p)
        PROVE  rows'[s.id] # None /\ \A q \in Requests : Owning(q)' => grant'[q].id # s.id
    <3>1. s.id = grant[p].id
      BY <2>2, UpdateOfFacts, Zenon DEF CompleteFails, LocationInv, Serving, Building
    <3>2. rows[s.id] # None /\ s.id \in Ops /\ rows' = rows
      BY <1>2, <1>3, <2>2, <3>1, Zenon DEF CompleteFails, Lose
    <3>. QED  BY <1>1, <1>2, <1>3, <1>4, <1>5, <2>2, <3>1, <3>2, SMTT(30)
  <2>3. ASSUME NEW p \in Requests, ReserveInsertFails(p), s = InsertOf(p) PROVE FALSE
    BY <1>7, <2>3, InsertOfFacts, Zenon DEF ReserveInsertFails, LocationInv, Serving
  <2>. QED  BY <2>1, <2>2, <2>3, JournalStep, Zenon DEF JournalFacts, Lost
<1>. QED  BY <1>6, <1>7, Zenon DEF PendingInv

-----------------------------------------------------------------------------
\* An UPDATE that counted its row: the row now holds the result of its caller.
LEMMA UpdatedFacts ==
    ASSUME TypeOK, LocationInv, NEW q \in Requests, Complete(q),
           UpdateCount(rows, UpdateOf(q)) = 1
    PROVE  /\ rows'[grant[q].id] # None
           /\ rows'[grant[q].id].digest = SemanticDigest(grant[q])
           /\ rows'[grant[q].id].result = result[q]
<1>1. grant[q] \in Grants /\ grant[q].id \in Ops /\ result[q] \in Results
  BY GrantFacts, Zenon DEF Complete, LocationInv, Serving, Building
<1>2. /\ rows[grant[q].id] # None
      /\ rows[grant[q].id].digest = SemanticDigest(grant[q])
  BY <1>1, UpdateOfFacts, SMTT(30) DEF UpdateCount
<1>3. rows'[grant[q].id] = [digest |-> rows[grant[q].id].digest, result |-> result[q]]
  BY <1>1, UpdateOfFacts, Zenon DEF Complete, Execute, Applied, TypeOK, JournalTypeOK
<1>4. [digest |-> SemanticDigest(grant[q]), result |-> result[q]] \in Row
  BY <1>1, GrantFacts, Zenon DEF Row
<1>. QED  BY <1>2, <1>3, <1>4, RowAssumption, SMTT(30)

\* What a goroutine read or is about to sign stays what the row holds.
LEMMA ReplayStep ==
    ASSUME TypeOK, LocationInv, OwnershipInv, ReplayInv, [Next]_vars
    PROVE  ReplayInv'
<1>. SUFFICES ASSUME NEW q \in Requests
              PROVE  /\ pc'[q] = "select" => rows'[grant'[q].id] # None
                     /\ pc'[q] = "reserved" /\ got'[q].stored # None =>
                          /\ rows'[grant'[q].id] # None
                          /\ rows'[grant'[q].id].digest = SemanticDigest(grant'[q])
                          /\ rows'[grant'[q].id].result = got'[q].stored
                     /\ pc'[q] = "sign" /\ grant'[q].kind = "invocation" =>
                          /\ rows'[grant'[q].id] # None
                          /\ rows'[grant'[q].id].digest = SemanticDigest(grant'[q])
                          /\ rows'[grant'[q].id].result # None
                          /\ result'[q] =
                               [rows'[grant'[q].id].result EXCEPT !.authorization = grant'[q]]
  BY Zenon DEF ReplayInv, SemanticDigest
<1>1. ControlFacts(q)
  BY ControlStep, Zenon
<1>2. ASSUME pc[q] \in Serving PROVE grant[q] \in Grants /\ grant[q].id \in Ops
  BY <1>2, GrantFacts, Zenon DEF LocationInv
<1>3. \A id \in Ops : Preserved(id)
  BY JournalStep, Zenon DEF JournalFacts
<1>4. ASSUME pc'[q] = "select" PROVE rows'[grant'[q].id] # None
  <2>1. CASE pc[q] = "select"
    BY <1>1, <1>2, <1>3, <2>1, Zenon DEF ControlFacts, ReplayInv, Preserved, Serving
  <2>2. CASE ReserveInsert(q) /\ InsertCount(rows, InsertOf(q)) # 1
    <3>1. grant[q] \in Grants /\ grant[q].id \in Ops /\ grant'[q] = grant[q]
      BY <1>2, <2>2, Zenon DEF ReserveInsert, Serving
    <3>2. rows[grant[q].id] # None
      BY <2>2, <3>1, InsertOfFacts, Zenon DEF InsertCount
    <3>. QED  BY <1>3, <3>1, <3>2, Zenon DEF Preserved
  <2>. QED  BY <1>1, <1>4, <2>1, <2>2, Zenon DEF ControlFacts
<1>5. ASSUME pc'[q] = "reserved", got'[q].stored # None
      PROVE  /\ rows'[grant'[q].id] # None
             /\ rows'[grant'[q].id].digest = SemanticDigest(grant'[q])
             /\ rows'[grant'[q].id].result = got'[q].stored
  <2>1. CASE pc[q] = "reserved" /\ got'[q] = got[q]
    <3>1. grant'[q] = grant[q] /\ grant[q].id \in Ops
      BY <1>1, <1>2, <2>1, Zenon DEF ControlFacts, Serving
    <3>2. /\ rows[grant[q].id] # None
          /\ rows[grant[q].id].digest = SemanticDigest(grant[q])
          /\ rows[grant[q].id].result = got[q].stored
      BY <1>5, <2>1, Zenon DEF ReplayInv
    <3>. QED  BY <1>3, <1>5, <2>1, <3>1, <3>2, Zenon DEF Preserved
  <2>2. CASE ReserveSelect(q)
    <3>1. /\ grant[q] \in Grants /\ grant[q].id \in Ops
          /\ grant' = grant /\ rows' = rows /\ rows[grant[q].id] # None
      BY <1>2, <2>2, Zenon DEF ReserveSelect, Serving, ReplayInv, journalVars
    <3>2. rows[grant[q].id] \in Row
      BY <3>1, Zenon DEF TypeOK, JournalTypeOK
    <3>3. got'[q] = ReadReservation(rows[grant[q].id], SemanticDigest(grant[q]))
      BY <2>2, Zenon DEF ReserveSelect, TypeOK
    <3>. QED  BY <1>5, <3>1, <3>2, <3>3, ReadReservationFacts, SMTT(30)
  <2>. QED  BY <1>1, <1>5, <2>1, <2>2, Zenon DEF ControlFacts
<1>6. ASSUME pc'[q] = "sign", grant'[q].kind = "invocation"
      PROVE  /\ rows'[grant'[q].id] # None
             /\ rows'[grant'[q].id].digest = SemanticDigest(grant'[q])
             /\ rows'[grant'[q].id].result # None
             /\ result'[q] = [rows'[grant'[q].id].result EXCEPT !.authorization = grant'[q]]
  <2>1. CASE pc[q] = "sign"
    <3>1. grant'[q] = grant[q] /\ result'[q] = result[q] /\ grant[q].id \in Ops
      BY <1>1, <1>2, <2>1, Zenon DEF ControlFacts, Serving
    <3>2. /\ rows[grant[q].id] # None
          /\ rows[grant[q].id].digest = SemanticDigest(grant[q])
          /\ rows[grant[q].id].result # None
          /\ result[q] = [rows[grant[q].id].result EXCEPT !.authorization = grant[q]]
      BY <1>6, <2>1, <3>1, Zenon DEF ReplayInv
    <3>3. /\ rows'[grant[q].id] # None
          /\ rows'[grant[q].id].digest = rows[grant[q].id].digest
          /\ rows'[grant[q].id].result = rows[grant[q].id].result
      BY <1>3, <3>1, <3>2, Zenon DEF Preserved
    <3>. QED  BY <3>1, <3>2, <3>3, Zenon
  <2>2. CASE /\ pc[q] = "reserved" /\ got[q].stored # None
             /\ result'[q] = [got[q].stored EXCEPT !.authorization = grant[q]]
             /\ UNCHANGED rows
    <3>1. grant'[q] = grant[q]
      BY <1>1, <2>2, Zenon DEF ControlFacts
    <3>2. /\ rows[grant[q].id] # None
          /\ rows[grant[q].id].digest = SemanticDigest(grant[q])
          /\ rows[grant[q].id].result = got[q].stored
      BY <2>2, Zenon DEF ReplayInv
    <3>. QED  BY <2>2, <3>1, <3>2, Zenon
  <2>3. CASE Complete(q) /\ UpdateCount(rows, UpdateOf(q)) = 1
    <3>1. /\ grant[q] \in Grants /\ result[q] \in Results
          /\ result[q].authorization = grant[q] /\ result[q] # None
      BY <2>3, ProtocolAssumption, Zenon DEF Complete, LocationInv, Serving, Building
    <3>2. grant'[q] = grant[q] /\ result'[q] = result[q]
      BY <2>3, Zenon DEF Complete
    <3>3. result[q] = [result[q] EXCEPT !.authorization = grant[q]]
      BY <3>1, ReplayedFacts, Zenon
    <3>4. /\ rows'[grant[q].id] # None
          /\ rows'[grant[q].id].digest = SemanticDigest(grant[q])
          /\ rows'[grant[q].id].result = result[q]
      BY <2>3, UpdatedFacts, Zenon
    <3>. QED  BY <3>1, <3>2, <3>3, <3>4, Zenon
  <2>. QED  BY <1>1, <1>6, <2>1, <2>2, <2>3, Zenon DEF ControlFacts
<1>. QED  BY <1>4, <1>5, <1>6, Zenon

\* A signed answer stays the durable result, since the journal is write-once.
LEMMA DurableStep ==
    ASSUME TypeOK, LocationInv, ReplayInv, AnswersAreDurable, [Next]_vars
    PROVE  AnswersAreDurable'
<1>. SUFFICES ASSUME NEW q \in Requests, Answered(q, {"ok"})', grant'[q].kind = "invocation"
              PROVE  /\ rows'[grant'[q].id] # None
                     /\ rows'[grant'[q].id].digest = SemanticDigest(grant'[q])
                     /\ rows'[grant'[q].id].result # None
                     /\ resp'[q].result =
                          [rows'[grant'[q].id].result EXCEPT !.authorization = grant'[q]]
  BY Zenon DEF AnswersAreDurable, SemanticDigest
<1>1. ControlFacts(q)
  BY ControlStep, Zenon
<1>2. CASE resp[q] = None
  <2>1. pc[q] = "sign" /\ resp'[q].result = result[q] /\ rows' = rows /\ grant'[q] = grant[q]
    BY <1>1, <1>2, Zenon DEF ControlFacts
  <2>. QED  BY <2>1, Zenon DEF ReplayInv
<1>3. CASE resp[q] # None
  <2>1. resp'[q] = resp[q] /\ grant'[q] = grant[q] /\ pc[q] = "done"
    BY <1>1, <1>3, Zenon DEF ControlFacts, LocationInv
  <2>2. /\ rows[grant[q].id] # None
        /\ rows[grant[q].id].digest = SemanticDigest(grant[q])
        /\ rows[grant[q].id].result # None
        /\ resp[q].result = [rows[grant[q].id].result EXCEPT !.authorization = grant[q]]
    BY <1>3, <2>1, Zenon DEF AnswersAreDurable, Answered
  <2>3. grant[q].id \in Ops
    BY <1>3, <2>1, GrantFacts, Zenon DEF LocationInv, Answered
  <2>4. Preserved(grant[q].id)
    BY <2>3, JournalStep, Zenon DEF JournalFacts
  <2>. QED  BY <2>1, <2>2, <2>4, Zenon DEF Preserved
<1>. QED  BY <1>2, <1>3, Zenon

-----------------------------------------------------------------------------
\* A recorded or lost success keeps the request that returned it.
LEMMA SuccessStep ==
    ASSUME TypeOK, LocationInv, ReplayInv, SuccessInv, [Next]_vars
    PROVE  SuccessInv'
<1>. DEFINE Real(id, digest, res) ==
              res.errorCode = "" =>
                \E r \in called' :
                    /\ grant'[r] \in Grants /\ grant'[r].id = id
                    /\ SemanticDigest(grant'[r]) = digest
                    /\ pc'[r] # "running"
                    /\ result'[r].output = res.output
<1>1. ASSUME NEW id, NEW digest, NEW res, RealSuccess(id, digest, res)
      PROVE  Real(id, digest, res)
  <2>. SUFFICES ASSUME res.errorCode = ""
                PROVE  \E r \in called' :
                          /\ grant'[r] \in Grants /\ grant'[r].id = id
                          /\ SemanticDigest(grant'[r]) = digest
                          /\ pc'[r] # "running"
                          /\ result'[r].output = res.output
    BY Zenon
  <2>1. PICK r \in called : /\ SameOperation(r, id, digest)
                            /\ pc[r] # "running"
                            /\ result[r].output = res.output
    BY <1>1, Zenon DEF RealSuccess
  <2>2. r \in Requests /\ pc[r] \in {"complete", "sign", "done", "crashed"}
    BY <2>1, Zenon DEF TypeOK, LocationInv
  <2>3. /\ grant'[r] = grant[r] /\ result'[r] = result[r] /\ pc'[r] # "running"
        /\ r \in called'
    BY <2>2, ControlStep, Zenon DEF ControlFacts
  <2>. QED  BY <2>1, <2>3, Zenon DEF SameOperation
<1>2. ASSUME NEW q \in Requests, Complete(q) \/ CompleteFails(q)
      PROVE  Real(grant[q].id, SemanticDigest(grant[q]), result[q])
  <2>1. pc[q] = "complete" /\ grant[q] \in Grants
    BY <1>2, Zenon DEF Complete, CompleteFails, LocationInv, Serving
  <2>2. result[q].errorCode = "" => q \in called
    BY <2>1, Zenon DEF LocationInv
  <2>3. /\ grant'[q] = grant[q] /\ result'[q] = result[q] /\ pc'[q] # "running"
        /\ q \in called => q \in called'
    BY <2>1, ControlStep, Zenon DEF ControlFacts
  <2>. QED  BY <2>1, <2>2, <2>3, Zenon
<1>. HIDE DEF Real
<1>3. ASSUME NEW id \in Ops, rows'[id] # None, rows'[id].result # None
      PROVE  Real(id, rows'[id].digest, rows'[id].result)
  <2>1. Preserved(id) /\ Created(id) /\ Completed(id)
    BY JournalStep, Zenon DEF JournalFacts
  <2>2. rows[id] # None /\ rows'[id].digest = rows[id].digest
    BY <1>3, <2>1, Zenon DEF Preserved, Created
  <2>3. CASE rows[id].result # None
    BY <1>1, <2>1, <2>2, <2>3, Zenon DEF Preserved, SuccessInv
  <2>4. CASE rows[id].result = None
    BY <1>1, <1>2, <1>3, <2>1, <2>2, <2>4, Zenon DEF Completed, SuccessInv, SameOperation
  <2>. QED  BY <2>3, <2>4, Zenon
<1>4. ASSUME NEW s \in late', s.type = "update" PROVE Real(s.id, s.digest, s.result)
  <2>1. CASE s \in late
    BY <1>1, <1>4, <2>1, Zenon DEF SuccessInv
  <2>2. ASSUME NEW q \in Requests, CompleteFails(q), s = UpdateOf(q)
        PROVE  Real(s.id, s.digest, s.result)
    <3>1. grant[q] \in Grants /\ result[q] \in Results
      BY <2>2, Zenon DEF CompleteFails, LocationInv, Serving, Building
    <3>. QED  BY <1>2, <2>2, <3>1, UpdateOfFacts, Zenon
  <2>3. ASSUME NEW q \in Requests, ReserveInsertFails(q), s = InsertOf(q) PROVE FALSE
    BY <1>4, <2>3, InsertOfFacts, Zenon DEF ReserveInsertFails, LocationInv, Serving
  <2>. QED  BY <2>1, <2>2, <2>3, JournalStep, Zenon DEF JournalFacts, Lost
<1>. QED  BY <1>3, <1>4, ZenonT(30) DEF SuccessInv, RealSuccess, SameOperation, Real, SemanticDigest

\* A reservation without a result keeps a request that accounts for it.
LEMMA AccountStep ==
    ASSUME TypeOK, LocationInv, ReplayInv, AccountInv, [Next]_vars
    PROVE  AccountInv'
<1>. DEFINE Same(r, id, digest) == /\ grant'[r] \in Grants /\ grant'[r].id = id
                                   /\ SemanticDigest(grant'[r]) = digest
<1>1. ASSUME NEW q \in Requests, Owning(q) \/ Failed(q), NEW id, NEW digest,
             SameOperation(q, id, digest)
      PROVE  Same(q, id, digest)
  <2>1. pc[q] # "idle"
    BY <1>1, Zenon DEF Owning, Failed, Answered, LocationInv
  <2>2. grant'[q] = grant[q]
    BY <2>1, ControlStep, Zenon DEF ControlFacts
  <2>. QED  BY <1>1, <2>2, Zenon DEF SameOperation
<1>2. ASSUME NEW q \in Requests, ReserveInsert(q), InsertCount(rows, InsertOf(q)) = 1
      PROVE  Owning(q)' /\ grant'[q] = grant[q]
  BY <1>2, Zenon DEF ReserveInsert, Owning, Goto, LocationInv, TypeOK
<1>3. ASSUME NEW q \in Requests, ReserveInsertFails(q)
      PROVE  Failed(q)' /\ grant'[q] = grant[q]
  BY <1>3, Zenon DEF ReserveInsertFails, Failed, Goto, TypeOK
<1>4. ASSUME NEW q \in Requests, Complete(q)
      PROVE  \/ Failed(q)'
             \/ rows'[grant[q].id].result = result[q] /\ result[q] # None
  <2>1. CASE UpdateCount(rows, UpdateOf(q)) = 1
    BY <1>4, <2>1, UpdatedFacts, ProtocolAssumption, Zenon DEF Complete, LocationInv, Building
  <2>2. CASE UpdateCount(rows, UpdateOf(q)) # 1
    BY <1>4, <2>2, RefusalFacts, SMTT(30)
    DEF Complete, Refuse, Reply, Failed, Answered, TypeOK, Codes
  <2>. QED  BY <2>1, <2>2, Zenon
<1>5. ASSUME NEW s \in late, s.type = "insert"
      PROVE  \E q \in Requests : Same(q, s.id, s.digest) /\ Failed(q)'
  <2>1. PICK q \in Requests : SameOperation(q, s.id, s.digest) /\ Failed(q)
    BY <1>5, Zenon DEF AccountInv
  <2>2. Failed(q)'
    BY <2>1, ControlStep, Zenon DEF ControlFacts
  <2>3. Same(q, s.id, s.digest)
    BY <1>1, <2>1, Zenon
  <2>. QED  BY <2>2, <2>3, Zenon
<1>. HIDE DEF Same
<1>6. ASSUME NEW id \in Ops, rows'[id] # None, rows'[id].result = None
      PROVE  \E q \in Requests : Same(q, id, rows'[id].digest) /\ (Owning(q)' \/ Failed(q)')
  <2>1. Preserved(id) /\ Created(id)
    BY JournalStep, Zenon DEF JournalFacts
  <2>2. CASE rows[id] = None
    <3>1. CASE \E q \in Requests :
                 /\ ReserveInsert(q) /\ InsertCount(rows, InsertOf(q)) = 1
                 /\ SameOperation(q, id, rows'[id].digest)
      BY <1>2, <3>1, Zenon DEF SameOperation, Same
    <3>2. CASE \E s \in late : s.type = "insert" /\ s.id = id /\ s.digest = rows'[id].digest
      BY <1>5, <3>2, Zenon
    <3>. QED  BY <1>6, <2>1, <2>2, <3>1, <3>2, Zenon DEF Created
  <2>3. CASE rows[id] # None
    <3>1. rows[id].result = None /\ rows'[id].digest = rows[id].digest
      BY <1>6, <2>1, <2>3, Zenon DEF Preserved
    <3>2. PICK q \in Requests : /\ SameOperation(q, id, rows[id].digest)
                                /\ Owning(q) \/ Failed(q)
      BY <2>3, <3>1, Zenon DEF AccountInv
    <3>3. Same(q, id, rows'[id].digest)
      BY <1>1, <3>1, <3>2, Zenon
    <3>4. Owning(q)' \/ Failed(q)'
      BY <1>4, <1>6, <3>2, ControlStep, Zenon DEF ControlFacts, SameOperation
    <3>. QED  BY <3>3, <3>4, Zenon
  <2>. QED  BY <2>2, <2>3, Zenon
<1>7. ASSUME NEW s \in late', s.type = "insert"
      PROVE  \E q \in Requests : Same(q, s.id, s.digest) /\ Failed(q)'
  <2>1. CASE s \in late
    BY <1>5, <1>7, <2>1, Zenon
  <2>2. ASSUME NEW q \in Requests, ReserveInsertFails(q), s = InsertOf(q)
        PROVE  Same(q, s.id, s.digest) /\ Failed(q)'
    <3>1. grant[q] \in Grants
      BY <2>2, Zenon DEF ReserveInsertFails, LocationInv, Serving
    <3>. QED  BY <1>3, <2>2, <3>1, InsertOfFacts, Zenon DEF Same
  <2>3. ASSUME NEW q \in Requests, CompleteFails(q), s = UpdateOf(q) PROVE FALSE
    BY <1>7, <2>3, UpdateOfFacts, Zenon DEF CompleteFails, LocationInv, Serving, Building
  <2>. QED  BY <2>1, <2>2, <2>3, JournalStep, Zenon DEF JournalFacts, Lost
<1>. QED  BY <1>6, <1>7, Zenon DEF AccountInv, SameOperation, Same, SemanticDigest

\* A request that ran is never refused as one that did not.
LEMMA RefusalStep ==
    ASSUME TypeOK, LocationInv, ReplayInv, RefusalMeansNoEffect, [Next]_vars
    PROVE  RefusalMeansNoEffect'
<1>. SUFFICES ASSUME NEW q \in called', resp'[q] # None
              PROVE  resp'[q].code \in {"ok", "outcome_unknown", "result_unavailable"}
  BY Zenon DEF RefusalMeansNoEffect
<1>1. q \in Requests
  BY TypeStep, Zenon DEF TypeOK
<1>2. ControlFacts(q)
  BY <1>1, ControlStep, Zenon
<1>3. pc'[q] = "done"
  BY <1>1, LocationStep, Zenon DEF LocationInv
<1>4. q \in called
  BY <1>2, <1>3, Zenon DEF ControlFacts
<1>. QED  BY <1>2, <1>4, Zenon DEF ControlFacts, RefusalMeansNoEffect

-----------------------------------------------------------------------------
\* The invariant is inductive.
LEMMA StepIInv == IInv /\ [Next]_vars => IInv'
BY Zenon, TypeStep, LocationStep, OwnershipStep, PendingStep, ReplayStep, SuccessStep,
   AccountStep, DurableStep, RefusalStep DEF IInv

\* The invariant of ServeHTTP over the journal holds in every reachable state.
THEOREM Invariance == Spec => []IInv
BY InitIInv, StepIInv, PTL DEF Spec

\* Type correctness of the runtime and its journal.
THEOREM TypeCorrect == Spec => []TypeOK
<1>1. IInv => TypeOK
  BY Zenon DEF IInv
<1>. QED  BY <1>1, Invariance, PTL

\* Application code is entered at most once for an operation, for any number
\* of requests, grants, replicas, crashes and lost statements: a holder of an
\* operation is its only holder, and only a holder enters a handler.
THEOREM RunsAtMostOnce == Spec => []AtMostOnce
<1>1. IInv => AtMostOnce
  BY Zenon DEF IInv, TypeOK, OwnershipInv, Holding, AtMostOnce
<1>. QED  BY <1>1, Invariance, PTL

\* Every signed answer to an invocation is the durable result of its operation.
THEOREM AnswersDurable == Spec => []AnswersAreDurable
<1>1. IInv => AnswersAreDurable
  BY Zenon DEF IInv
<1>. QED  BY <1>1, Invariance, PTL

\* A recorded success was returned by a handler that ran for that content.
THEOREM SuccessReal == Spec => []RecordedSuccessIsReal
<1>1. IInv => RecordedSuccessIsReal
  BY Zenon DEF IInv, SuccessInv, RealSuccess, SameOperation, RecordedSuccessIsReal
<1>. QED  BY <1>1, Invariance, PTL

\* A refusal other than outcome_unknown and result_unavailable proves that the
\* refused request had no effect.
THEOREM RefusalsProveNoEffect == Spec => []RefusalMeansNoEffect
<1>1. IInv => RefusalMeansNoEffect
  BY Zenon DEF IInv
<1>. QED  BY <1>1, Invariance, PTL

\* A reservation without a result is accounted for by a request at work, a
\* crash, or an answer that leaves the outcome open.
THEOREM IncompleteAccounted == Spec => []IncompleteIsAccountedFor
<1>1. IInv => IncompleteIsAccountedFor
  <2>. SUFFICES ASSUME IInv, NEW id \in Ops, rows[id] # None, rows[id].result = None
                PROVE  \E r \in Requests :
                         /\ grant[r] # None
                         /\ grant[r].id = id
                         /\ SemanticDigest(grant[r]) = rows[id].digest
                         /\ \/ pc[r] \in {"reserved", "dispatch", "running", "complete", "crashed"}
                            \/ Answered(r, {"unauthorized", "storage_unavailable", "outcome_unknown"})
    BY Zenon DEF IncompleteIsAccountedFor
  <2>1. PICK r \in Requests : /\ SameOperation(r, id, rows[id].digest)
                              /\ Owning(r) \/ Failed(r)
    BY Zenon DEF IInv, AccountInv
  <2>. QED  BY <2>1, GrantFacts, Zenon DEF SameOperation, Owning, Failed
<1>. QED  BY <1>1, Invariance, PTL

\* No step removes a row, rebinds it to another digest or replaces a result.
THEOREM JournalWriteOnce == Spec => JournalIsWriteOnce
<1>1. IInv /\ [Next]_vars => [\A id \in Ops : Preserved(id)]_vars
  BY JournalStep, Zenon DEF IInv, JournalFacts
<1>. QED  BY <1>1, Invariance, PTL DEF Spec, JournalIsWriteOnce, Preserved

-----------------------------------------------------------------------------
\* A step that changes neither the table nor who has run is invisible to
\* OnceOnly.
LEMMA RunnersUnchanged ==
    ASSUME IInv, [Next]_vars, UNCHANGED called
    PROVE  UNCHANGED Runners
<1>1. ASSUME NEW r \in called PROVE grant'[r] = grant[r]
  <2>1. r \in Requests /\ pc[r] # "idle"
    BY <1>1, Zenon DEF IInv, TypeOK, LocationInv
  <2>. QED  BY <2>1, ControlStep, Zenon DEF IInv, ControlFacts
<1>. QED  BY <1>1, Zenon DEF Runners

\* The success an UPDATE carries has a runner.
Supported(s) ==
    s.type = "update" /\ s.result.errorCode = "" => Runners[s.id] # {}

\* A statement that commits binds a free identity, completes an incomplete
\* one, or changes nothing.
LEMMA StatementRefines ==
    ASSUME IInv, NEW s \in Statement, rows' = Applied(rows, s), UNCHANGED Runners,
           Supported(s)
    PROVE  [Abstract!Next]_<<rows, Runners>>
<1>1. rows \in [Ops -> Row \cup {None}]
  BY Zenon DEF IInv, TypeOK, JournalTypeOK
<1>2. CASE s \in InsertStatement
  <2>1. s.type = "insert" /\ s.id \in Ops /\ s.digest \in Digests
    BY <1>2, Zenon DEF InsertStatement
  <2>2. CASE rows[s.id] = None
    <3>1. Abstract!Reserve(s.id, s.digest)
      BY <2>1, <2>2, Zenon DEF Abstract!Reserve, Applied, InsertCount
    <3>. QED  BY <2>1, <3>1, Zenon DEF Abstract!Next
  <2>3. CASE rows[s.id] # None
    BY <2>1, <2>3 DEF Applied, InsertCount
  <2>. QED  BY <2>2, <2>3, Zenon
<1>3. CASE s \in UpdateStatement
  <2>1. s.type = "update" /\ s.id \in Ops /\ s.result \in Results
    BY <1>3, Zenon DEF UpdateStatement
  <2>2. CASE UpdateCount(rows, s) = 1 /\ rows[s.id].result = None
    <3>1. /\ rows[s.id] # None /\ rows[s.id].digest = s.digest
          /\ rows' = [rows EXCEPT ![s.id] =
                        [digest |-> rows[s.id].digest, result |-> s.result]]
      BY <2>1, <2>2 DEF Applied, UpdateCount
    <3>2. rows'[s.id].result = s.result
      BY <1>1, <2>1, <3>1
    <3>3. Abstract!Finish(s.id, rows'[s.id].result)
      BY <2>1, <2>2, <3>1, <3>2, Zenon DEF Abstract!Finish, Supported
    <3>. QED  BY <2>1, <3>3, Zenon DEF Abstract!Next
  <2>3. CASE UpdateCount(rows, s) = 1 /\ rows[s.id].result # None
    <3>1. rows[s.id] \in Row /\ rows[s.id].result = s.result
      BY <1>1, <2>1, <2>3, SMTT(30) DEF UpdateCount
    <3>2. rows[s.id] = [digest |-> rows[s.id].digest, result |-> s.result]
      BY <3>1, Zenon DEF Row
    <3>. QED  BY <1>1, <2>1, <2>3, <3>2, Zenon DEF Applied
  <2>4. CASE UpdateCount(rows, s) # 1
    BY <2>1, <2>4, Zenon DEF Applied
  <2>. QED  BY <2>2, <2>3, <2>4, Zenon DEF UpdateCount
<1>. QED  BY <1>2, <1>3, Zenon DEF Statement

\* Entering a handler is the abstract Run: nobody has run the operation, and
\* it has no result.
LEMMA EnterRefines ==
    ASSUME IInv, [Next]_vars, NEW r \in Requests, EnterHandler(r), HandlerContextAlive(r)
    PROVE  Abstract!Next
<1>. DEFINE id == grant[r].id
<1>1. pc[r] = "dispatch" /\ rows' = rows /\ grant' = grant /\ called' = called \cup {r}
  BY Zenon DEF EnterHandler, journalVars
<1>2. Owning(r) /\ Holding(r) /\ id \in Ops
  BY <1>1, HoldingFacts, Zenon DEF IInv, Owning, Holding
<1>3. rows[id] # None /\ rows[id].result = None
  BY <1>2, Zenon DEF IInv, OwnershipInv, PendingInv
<1>4. \A q \in called : grant[q].id # id
  <2>1. r \notin called
    BY <1>1, Zenon DEF IInv, LocationInv
  <2>2. ASSUME NEW q \in called PROVE q \in Requests /\ Holding(q) /\ q # r
    BY <2>1, Zenon DEF IInv, TypeOK, Holding
  <2>. QED  BY <1>2, <2>2, Zenon DEF IInv, OwnershipInv
<1>5. Runners[id] = {}
  BY <1>2, <1>4, Zenon DEF Runners
<1>6. Runners' = [Runners EXCEPT ![id] = {r}]
  <2>1. ASSUME NEW i \in Ops
        PROVE  {q \in called \cup {r} : grant[q].id = i} =
                 IF i = id THEN {r} ELSE {q \in called : grant[q].id = i}
    BY <1>4, Zenon
  <2>2. Runners' = [i \in Ops |-> {q \in called \cup {r} : grant[q].id = i}]
    BY <1>1, Zenon DEF Runners
  <2>3. [Runners EXCEPT ![id] = {r}] =
          [i \in Ops |-> IF i = id THEN {r} ELSE {q \in called : grant[q].id = i}]
    BY <1>2, Zenon DEF Runners
  <2>. QED  BY <2>1, <2>2, <2>3, Zenon
<1>7. Abstract!Run(id, r)
  BY <1>1, <1>3, <1>5, <1>6, Zenon DEF Abstract!Run
<1>. QED  BY <1>2, <1>7, Zenon DEF Abstract!Next

\* Every step of the runtime is a step of the once-only ledger, or a stutter.
LEMMA StepRefines ==
    ASSUME IInv, [Next]_vars
    PROVE  [Abstract!Next]_<<rows, Runners>>
<1>1. ASSUME NEW r \in Requests, ReserveInsert(r)
      PROVE  [Abstract!Next]_<<rows, Runners>>
  <2>1. InsertOf(r) \in Statement /\ InsertOf(r).type = "insert"
    BY <1>1, InsertOfFacts, Zenon DEF IInv, ReserveInsert, LocationInv, Serving
  <2>2. rows' = Applied(rows, InsertOf(r)) /\ called' = called
    BY <1>1, Zenon DEF ReserveInsert, Execute
  <2>3. Supported(InsertOf(r))
    BY <2>1, Zenon DEF Supported
  <2>. QED  BY <2>1, <2>2, <2>3, RunnersUnchanged, StatementRefines, Zenon
<1>2. ASSUME NEW r \in Requests, Complete(r)
      PROVE  [Abstract!Next]_<<rows, Runners>>
  <2>1. grant[r] \in Grants /\ grant[r].id \in Ops /\ result[r] \in Results
    BY <1>2, GrantFacts, Zenon DEF IInv, Complete, LocationInv, Serving, Building
  <2>2. rows' = Applied(rows, UpdateOf(r)) /\ called' = called
    BY <1>2, Zenon DEF Complete, Execute
  <2>3. result[r].errorCode = "" => r \in called
    BY <1>2, Zenon DEF Complete, IInv, LocationInv
  <2>4. Supported(UpdateOf(r))
    BY <2>1, <2>3, UpdateOfFacts, Zenon DEF Supported, Runners
  <2>. QED  BY <2>1, <2>2, <2>4, UpdateOfFacts, RunnersUnchanged, StatementRefines, Zenon
<1>3. CASE DatabaseStep
  <2>1. PICK s \in late : rows' = Applied(rows, s)
    BY <1>3, Zenon DEF DatabaseStep, LateCommit
  <2>2. s \in Statement /\ called' = called
    BY <1>3, Zenon DEF DatabaseStep, requestVars, IInv, TypeOK, JournalTypeOK
  <2>3. s.type = "update" => s.id \in Ops
    BY <2>2, Zenon DEF Statement, InsertStatement, UpdateStatement
  <2>4. Supported(s)
    BY <2>3, Zenon DEF IInv, SuccessInv, RealSuccess, SameOperation, Supported, Runners
  <2>. QED  BY <2>1, <2>2, <2>4, RunnersUnchanged, StatementRefines, Zenon
<1>4. ASSUME NEW r \in Requests, EnterHandler(r)
      PROVE  [Abstract!Next]_<<rows, Runners>>
  <2>1. CASE HandlerContextAlive(r)
    BY <1>4, <2>1, EnterRefines, Zenon
  <2>2. CASE ~HandlerContextAlive(r)
    <3>1. rows' = rows /\ called' = called
      BY <1>4, <2>2, Zenon DEF EnterHandler, journalVars
    <3>. QED  BY <3>1, RunnersUnchanged, Zenon
  <2>. QED  BY <2>1, <2>2, Zenon
<1>5. CASE rows' = rows /\ called' = called
  BY <1>5, RunnersUnchanged, Zenon
<1>6. ASSUME NEW r \in Requests,
             \/ \E answer \in ControlAnswers : Authorize(r, answer)
             \/ ReserveInsertFails(r) \/ ReserveSelect(r) \/ ReserveSelectFails(r)
             \/ AfterReserve(r) \/ CompleteFails(r)
             \/ \E output \in Outputs \cup {None} : HandlerReturns(r, output)
             \/ \E signs \in BOOLEAN : Sign(r, signs)
      PROVE  rows' = rows /\ called' = called
  BY <1>6, Zenon
  DEF Authorize, ReserveInsertFails, ReserveSelect, ReserveSelectFails, AfterReserve,
      HandlerReturns, CompleteFails, Lose, Sign, journalVars
<1>7. CASE Environment /\ ~DatabaseStep
  BY <1>5, <1>7, Zenon DEF Environment, Disconnect, Crash, Tick, journalVars, requestVars
<1>. QED
  BY <1>1, <1>2, <1>3, <1>4, <1>5, <1>6, <1>7, Zenon
  DEF Next, Serve, Receive, vars, journalVars, requestVars

\* bridge.Runtime over the journal implements the once-only ledger that
\* bridge.ExecutionStore documents.
THEOREM RefinesOnceOnly == Spec => ImplementsOnceOnly
<1>1. Init => Abstract!Init
  BY Zenon DEF Init, JournalInit, Abstract!Init, Runners
<1>2. IInv /\ [Next]_vars => [Abstract!Next]_<<rows, Runners>>
  BY StepRefines, Zenon
<1>. QED  BY <1>1, <1>2, Invariance, PTL DEF Spec, ImplementsOnceOnly, Abstract!Spec

-----------------------------------------------------------------------------
\* A step of the composition is a step of the runtime or leaves it alone.
LEMMA CompositionStep ==
    ASSUME CallsTypeOK, [InvocationNext]_allVars
    PROVE  [Next]_vars
<1>1. ASSUME NEW c \in Calls, NEW r \in Requests, NEW readable \in BOOLEAN,
             Arrive(c, r, readable)
      PROVE  Next
  <2>1. Receive(r, "invoke", readable, TRUE, callGrant[c]) /\ callGrant[c] \in Grants
    BY <1>1, Zenon DEF Arrive, CallsTypeOK
  <2>2. "invoke" \in Paths
    BY Zenon DEF Paths
  <2>. QED  BY <2>1, <2>2, Zenon DEF Next
<1>2. ASSUME RuntimeStep PROVE Next
  BY <1>2, Zenon DEF RuntimeStep, Next
<1>3. ASSUME NEW c \in Calls,
             \/ \E g \in Grants, trusted, cancelled \in BOOLEAN : Invoke(c, g, trusted, cancelled)
             \/ ClientStep(c)
      PROVE  UNCHANGED vars
  BY <1>3, Zenon DEF Invoke, ClientStep, Answer, Misdeliver, GiveUp
<1>. QED  BY <1>1, <1>2, <1>3, Zenon DEF InvocationNext, allVars

\* A Result that Invoke accepts for a grant is the durable result of the
\* operation of that grant, whichever request the response was written for.
LEMMA AcceptedFacts ==
    ASSUME IInv, NEW r \in Requests, Answered(r, {"ok"}),
           NEW g \in Grants, g.kind = "invocation", Accepts(resp[r].result, g)
    PROVE  /\ rows[g.id] # None
           /\ rows[g.id].digest = SemanticDigest(g)
           /\ rows[g.id].result # None
           /\ resp[r].result = [rows[g.id].result EXCEPT !.authorization = g]
           /\ resp[r].result \in Results
<1>1. resp[r].result \in Results /\ grant[r] = g
  BY Zenon DEF IInv, LocationInv, Accepts, VerifyResult, AuthorizationDigest
<1>. QED  BY <1>1, Zenon DEF IInv, AnswersAreDurable

\* What a call returns for a response it was given.
LEMMA OutcomeFacts ==
    ASSUME NEW res, NEW g
    PROVE  /\ Outcome(res, g).err \in {"nil", "outcome_unknown"}
           /\ Outcome(res, g).result = None \/ (Outcome(res, g).result = res /\ Accepts(res, g))
           /\ Outcome(res, g).err = "nil" =>
                Outcome(res, g).result = res /\ Accepts(res, g) /\ res.errorCode = ""
BY Zenon DEF Outcome

\* A call that is answered, rightly or by mistake, returns an outcome that
\* fits the journal.
AnsweredWith(c, r) ==
    /\ Waiting(c)
    /\ Answered(r, {"ok"})
    /\ returned' = [returned EXCEPT ![c] =
         [err |-> Outcome(resp[r].result, callGrant[c]).err,
          result |-> Outcome(resp[r].result, callGrant[c]).result]]
    /\ UNCHANGED <<vars, callGrant, arrived>>

ReturnsUnknown(c) ==
    /\ Waiting(c)
    /\ Returns(c, "outcome_unknown", None)
    /\ UNCHANGED <<vars, callGrant, arrived>>

\* A call of the client either returns ErrOutcomeUnknown or handles one answer
\* (client.Client.Invoke).
LEMMA ClientStepCases ==
    ASSUME NEW c \in Calls, ClientStep(c)
    PROVE  ReturnsUnknown(c) \/ \E r \in Requests : AnsweredWith(c, r)
<1>1. CASE GiveUp(c)
  BY <1>1, Zenon DEF GiveUp, ReturnsUnknown
<1>2. ASSUME NEW r \in Requests, Answer(c, r) \/ Misdeliver(c, r)
      PROVE  ReturnsUnknown(c) \/ AnsweredWith(c, r)
  BY <1>2, Zenon DEF Answer, Misdeliver, ReturnsUnknown, AnsweredWith, Returns, Answered
<1>. QED  BY <1>1, <1>2, Zenon DEF ClientStep

\* An outcome is never taken for a call that has not returned.
LEMMA ReturnFacts ==
    \A err \in CallErrors, value \in Results \cup {None} :
        /\ [err |-> err, result |-> value] \in Return
        /\ [err |-> err, result |-> value] # None
BY ReturnAssumption DEF Return

\* Durable results stay durable.
LEMMA DurableStays ==
    ASSUME InvocationInv, [InvocationNext]_allVars, NEW c \in Calls, GivenResult(c),
           returned'[c] = returned[c], callGrant'[c] = callGrant[c]
    PROVE  Durable(c)'
<1>1. Durable(c) /\ callGrant[c].id \in Ops
  BY GrantFacts, Zenon DEF InvocationInv, CallInv, Durable
<1>2. Preserved(callGrant[c].id)
  BY <1>1, CompositionStep, JournalStep, Zenon DEF InvocationInv, IInv, JournalFacts
<1>. QED  BY <1>1, <1>2, Zenon DEF Durable, Preserved, SemanticDigest

\* The part of the invariant of a call that is not about the journal.
Consistent(c) ==
    /\ returned[c] # None /\ returned[c].err = "nil" =>
          returned[c].result # None /\ returned[c].result.errorCode = ""
    /\ returned[c] # None /\ returned[c].err \in {"unauthorized", "unavailable"} =>
          callGrant[c] = None
    /\ callGrant[c] = None => arrived[c] = {}
    /\ callGrant[c] # None => callGrant[c].kind = "invocation"

\* The invariant of the calls, call by call.
LEMMA CallInvSplit == CallInv <=> \A c \in Calls : (GivenResult(c) => Durable(c)) /\ Consistent(c)
BY Zenon DEF CallInv, Consistent

\* The same for the next state.
LEMMA CallInvSplitPrime ==
    CallInv' <=> \A c \in Calls : (GivenResult(c)' => Durable(c)') /\ Consistent(c)'
BY Zenon DEF CallInv, Consistent

\* A call that a step leaves alone keeps its invariant.
LEMMA OtherCall ==
    ASSUME InvocationInv, [InvocationNext]_allVars, NEW c \in Calls,
           returned'[c] = returned[c], callGrant'[c] = callGrant[c],
           arrived'[c] = arrived[c] \/ callGrant[c] # None
    PROVE  (GivenResult(c)' => Durable(c)') /\ Consistent(c)'
<1>1. GivenResult(c)' => Durable(c)'
  BY DurableStays, Zenon DEF GivenResult
<1>2. Consistent(c)'
  BY CallInvSplit, Zenon DEF InvocationInv, Consistent
<1>. QED  BY <1>1, <1>2, Zenon

\* The composition keeps the types and the invariant of its calls.
LEMMA CallStep ==
    ASSUME InvocationInv, [InvocationNext]_allVars
    PROVE  CallsTypeOK' /\ CallInv'
<1>0. CallsTypeOK /\ CallInv /\ IInv
  BY Zenon DEF InvocationInv
<1>1. ASSUME NEW c \in Calls, NEW g \in Grants, NEW trusted \in BOOLEAN,
             NEW cancelled \in BOOLEAN, Invoke(c, g, trusted, cancelled)
      PROVE  CallsTypeOK' /\ CallInv'
  <2>1. /\ [err |-> "unauthorized", result |-> None] \in Return
        /\ [err |-> "unavailable", result |-> None] \in Return
    BY ReturnFacts, Zenon DEF CallErrors
  <2>2. CallsTypeOK'
    BY <1>0, <1>1, <2>1, Zenon DEF CallsTypeOK, Invoke, Returns, vars
  <2>3. arrived' = arrived /\ callGrant[c] = None /\ arrived[c] = {}
    BY <1>0, <1>1, CallInvSplit, Zenon DEF Invoke, Idle, Consistent
  <2>4. g # None /\ (ValidGrant(g) => g.kind = "invocation")
    BY GrantFacts, Zenon DEF ValidGrant
  <2>5. ASSUME NEW d \in Calls, d # c
        PROVE  returned'[d] = returned[d] /\ callGrant'[d] = callGrant[d]
    BY <1>0, <1>1, <2>5, Zenon DEF CallsTypeOK, Invoke, Returns
  <2>6. \/ /\ returned'[c].result = None
           /\ returned'[c].err \in {"unauthorized", "unavailable"}
           /\ callGrant'[c] = None
        \/ /\ returned'[c] = None
           /\ callGrant'[c] = g /\ g.kind = "invocation"
    BY <1>0, <1>1, <2>3, <2>4 DEF CallsTypeOK, Invoke, Returns, Idle
  <2>7. (GivenResult(c)' => Durable(c)') /\ Consistent(c)'
    BY <2>3, <2>4, <2>6, Zenon DEF GivenResult, Consistent
  <2>8. CallInv'
    BY <2>3, <2>5, <2>7, OtherCall, CallInvSplitPrime, Zenon
  <2>. QED  BY <2>2, <2>8, Zenon
<1>2. ASSUME NEW c \in Calls, NEW r \in Requests, NEW readable \in BOOLEAN,
             Arrive(c, r, readable)
      PROVE  CallsTypeOK' /\ CallInv'
  <2>1. CallsTypeOK'
    BY <1>0, <1>2, Zenon DEF CallsTypeOK, Arrive
  <2>2. ASSUME NEW d \in Calls
        PROVE  /\ returned'[d] = returned[d] /\ callGrant'[d] = callGrant[d]
               /\ arrived'[d] = arrived[d] \/ callGrant[d] # None
    BY <1>0, <1>2, Zenon DEF CallsTypeOK, Arrive
  <2>. QED  BY <2>1, <2>2, OtherCall, CallInvSplitPrime, Zenon
<1>3. ASSUME NEW c \in Calls, ReturnsUnknown(c) PROVE CallsTypeOK' /\ CallInv'
  <2>1. [err |-> "outcome_unknown", result |-> None] \in Return
    BY ReturnFacts, Zenon DEF CallErrors
  <2>2. CallsTypeOK'
    BY <1>0, <1>3, <2>1, Zenon DEF CallsTypeOK, ReturnsUnknown, Returns
  <2>3. /\ returned'[c].result = None /\ returned'[c].err = "outcome_unknown"
        /\ callGrant' = callGrant /\ arrived' = arrived
        /\ \A d \in Calls : d # c => returned'[d] = returned[d]
    BY <1>0, <1>3, Zenon DEF CallsTypeOK, ReturnsUnknown, Returns
  <2>4. (GivenResult(c)' => Durable(c)') /\ Consistent(c)'
    BY <1>0, <2>3, CallInvSplit, Zenon DEF GivenResult, Consistent
  <2>. QED  BY <2>2, <2>3, <2>4, OtherCall, CallInvSplitPrime, Zenon
<1>4. ASSUME NEW c \in Calls, NEW r \in Requests, AnsweredWith(c, r)
      PROVE  CallsTypeOK' /\ CallInv'
  <2>. DEFINE g == callGrant[c]
              res == resp[r].result
              out == Outcome(res, g)
  <2>1. g \in Grants /\ g.kind = "invocation" /\ Consistent(c)
    BY <1>0, <1>4, CallInvSplit, Zenon DEF AnsweredWith, Waiting, CallsTypeOK, Consistent
  <2>2. /\ out.err \in {"nil", "outcome_unknown"}
        /\ out.result = None \/ (out.result = res /\ Accepts(res, g))
        /\ out.err = "nil" => out.result = res /\ Accepts(res, g) /\ res.errorCode = ""
    BY OutcomeFacts, Zenon
  <2>3. Accepts(res, g) => /\ rows[g.id] # None
                           /\ rows[g.id].digest = SemanticDigest(g)
                           /\ rows[g.id].result # None
                           /\ res = [rows[g.id].result EXCEPT !.authorization = g]
                           /\ res \in Results
    BY <1>0, <1>4, <2>1, AcceptedFacts, Zenon DEF AnsweredWith
  <2>4. returned' = [returned EXCEPT ![c] = [err |-> out.err, result |-> out.result]]
    BY <1>4, Zenon DEF AnsweredWith
  <2>5. rows' = rows /\ callGrant' = callGrant /\ arrived' = arrived
    BY <1>4, Zenon DEF AnsweredWith, vars
  <2>. HIDE DEF out, res
  <2>6. /\ out.result \in Results \cup {None}
        /\ out.err = "nil" => out.result # None /\ out.result.errorCode = ""
    BY <2>2, <2>3, ProtocolAssumption, Zenon
  <2>7. [err |-> out.err, result |-> out.result] \in Return
    BY <2>2, <2>6, ReturnFacts, Zenon DEF CallErrors
  <2>8. CallsTypeOK'
    BY <1>0, <2>4, <2>5, <2>7, Zenon DEF CallsTypeOK
  <2>9. /\ returned'[c].err = out.err /\ returned'[c].result = out.result
        /\ \A d \in Calls : d # c => returned'[d] = returned[d]
    BY <1>0, <2>4, Zenon DEF CallsTypeOK
  <2>10. out.result # None => Durable(c)'
    BY <2>1, <2>2, <2>3, <2>5, <2>9, Zenon DEF Durable, SemanticDigest
  <2>11. Consistent(c)'
    BY <2>1, <2>2, <2>5, <2>6, <2>9, GrantFacts, Zenon DEF Consistent
  <2>12. (GivenResult(c)' => Durable(c)') /\ Consistent(c)'
    BY <2>9, <2>10, <2>11, Zenon DEF GivenResult
  <2>. QED  BY <2>5, <2>8, <2>9, <2>12, OtherCall, CallInvSplitPrime, Zenon
<1>5. CASE UNCHANGED callVars
  <2>1. CallsTypeOK'
    BY <1>0, <1>5, Zenon DEF CallsTypeOK, callVars
  <2>. QED  BY <1>5, <2>1, OtherCall, CallInvSplitPrime, Zenon DEF callVars
<1>. QED  BY <1>1, <1>2, <1>3, <1>4, <1>5, ClientStepCases, Zenon
          DEF InvocationNext, RuntimeStep, allVars

-----------------------------------------------------------------------------
\* The invariant of the composition holds in every reachable state.
THEOREM InvocationInvariance == InvocationSpec => []InvocationInv
<1>1. InvocationInit => InvocationInv
  <2>. SUFFICES ASSUME InvocationInit PROVE InvocationInv
    BY Zenon
  <2>1. IInv
    BY InitIInv, Zenon DEF InvocationInit
  <2>. QED  BY <2>1, Zenon DEF InvocationInit, InvocationInv, CallsTypeOK, CallInv, GivenResult
<1>2. InvocationInv /\ [InvocationNext]_allVars => InvocationInv'
  BY CompositionStep, StepIInv, CallStep, Zenon DEF InvocationInv
<1>. QED  BY <1>1, <1>2, PTL DEF InvocationSpec

\* Whatever callers and network do, the runtime behaves as BridgeRuntime.
THEOREM InvocationImplementsRuntime == InvocationSpec => Spec
<1>1. InvocationInit => Init
  BY Zenon DEF InvocationInit
<1>2. InvocationInv /\ [InvocationNext]_allVars => [Next]_vars
  BY CompositionStep, Zenon DEF InvocationInv
<1>. QED  BY <1>1, <1>2, InvocationInvariance, PTL DEF InvocationSpec, Spec

\* Replacing the authorization twice keeps the last one.
LEMMA ReauthorizeFacts ==
    ASSUME NEW res \in Results, NEW g \in Grants, NEW h \in Grants
    PROVE  /\ [[res EXCEPT !.authorization = g] EXCEPT !.authorization = h] =
                [res EXCEPT !.authorization = h]
           /\ [[res EXCEPT !.authorization = g] EXCEPT !.authorization = res.authorization] = res
           /\ [res EXCEPT !.authorization = g].output = res.output
           /\ [res EXCEPT !.authorization = g].errorCode = res.errorCode
BY Zenon DEF Results

\* What it means that the result a call returned is in the journal.
LEMMA DurableFacts ==
    ASSUME InvocationInv, NEW c \in Calls, Durable(c)
    PROVE  /\ callGrant[c] \in Grants /\ callGrant[c].id \in Ops
           /\ rows[callGrant[c].id] # None
           /\ rows[callGrant[c].id].result \in Results
           /\ rows[callGrant[c].id].digest = SemanticDigest(callGrant[c])
           /\ returned[c].result =
                [rows[callGrant[c].id].result EXCEPT !.authorization = callGrant[c]]
<1>1. callGrant[c] \in Grants /\ callGrant[c].id \in Ops
  BY GrantFacts, Zenon DEF Durable
<1>2. rows[callGrant[c].id] \in Row
  BY <1>1, Zenon DEF Durable, InvocationInv, IInv, TypeOK, JournalTypeOK
<1>. QED  BY <1>1, <1>2, RowFacts, Zenon DEF Durable

\* Two calls for one operation are never given different results.
THEOREM CallersAgree == InvocationSpec => []ReturnedResultsAgree
<1>1. InvocationInv => ReturnedResultsAgree
  <2>. SUFFICES ASSUME InvocationInv, NEW c \in Calls, NEW d \in Calls,
                       GivenResult(c), GivenResult(d), callGrant[c].id = callGrant[d].id
                PROVE  /\ SemanticDigest(callGrant[c]) = SemanticDigest(callGrant[d])
                       /\ returned[d].result =
                            [returned[c].result EXCEPT !.authorization = callGrant[d]]
    BY Zenon DEF ReturnedResultsAgree
  <2>1. Durable(c) /\ Durable(d)
    BY CallInvSplit, Zenon DEF InvocationInv
  <2>. DEFINE recorded == rows[callGrant[c].id].result
  <2>2. /\ callGrant[c] \in Grants /\ callGrant[d] \in Grants /\ recorded \in Results
        /\ returned[c].result = [recorded EXCEPT !.authorization = callGrant[c]]
        /\ returned[d].result = [recorded EXCEPT !.authorization = callGrant[d]]
        /\ SemanticDigest(callGrant[c]) = SemanticDigest(callGrant[d])
    <3>. HIDE DEF Durable, SemanticDigest
    <3>1. /\ rows[callGrant[c].id].digest = SemanticDigest(callGrant[c])
          /\ rows[callGrant[d].id].digest = SemanticDigest(callGrant[d])
      BY <2>1, DurableFacts, Zenon
    <3>. QED  BY <2>1, <3>1, DurableFacts, Zenon
  <2>. HIDE DEF recorded
  <2>3. [[recorded EXCEPT !.authorization = callGrant[c]]
            EXCEPT !.authorization = callGrant[d]] =
          [recorded EXCEPT !.authorization = callGrant[d]]
    BY <2>2, ReauthorizeFacts, Zenon
  <2>. QED  BY <2>2, <2>3, Zenon
<1>. QED  BY <1>1, InvocationInvariance, PTL

\* A call that returns without an error tells what really happened.
THEOREM CallersToldTheTruth == InvocationSpec => []ReturnedSuccessIsReal
<1>1. InvocationInv => ReturnedSuccessIsReal
  <2>. SUFFICES ASSUME InvocationInv, NEW c \in Calls, returned[c] # None,
                       returned[c].err = "nil"
                PROVE  /\ rows[callGrant[c].id] # None
                       /\ rows[callGrant[c].id].digest = SemanticDigest(callGrant[c])
                       /\ rows[callGrant[c].id].result =
                            [returned[c].result EXCEPT
                               !.authorization = rows[callGrant[c].id].result.authorization]
                       /\ \E r \in called :
                            /\ SameOperation(r, callGrant[c].id, SemanticDigest(callGrant[c]))
                            /\ result[r].output = returned[c].result.output
    BY Zenon DEF ReturnedSuccessIsReal
  <2>. DEFINE g == callGrant[c]
              recorded == rows[g.id].result
  <2>1. Durable(c) /\ returned[c].result.errorCode = ""
    BY CallInvSplit, Zenon DEF InvocationInv, Consistent, GivenResult
  <2>2. /\ g \in Grants /\ g.id \in Ops /\ rows[g.id] # None
        /\ rows[g.id].digest = SemanticDigest(g)
        /\ recorded \in Results /\ recorded # None
        /\ returned[c].result = [recorded EXCEPT !.authorization = g]
    BY <2>1, DurableFacts, ProtocolAssumption, Zenon
  <2>3. recorded.authorization \in Grants
    BY <2>2, Zenon DEF Results
  <2>4. /\ recorded = [returned[c].result EXCEPT !.authorization = recorded.authorization]
        /\ returned[c].result.output = recorded.output
        /\ recorded.errorCode = ""
    <3>. HIDE DEF recorded
    <3>1. /\ [[recorded EXCEPT !.authorization = g]
                EXCEPT !.authorization = recorded.authorization] = recorded
          /\ [recorded EXCEPT !.authorization = g].output = recorded.output
          /\ [recorded EXCEPT !.authorization = g].errorCode = recorded.errorCode
      BY <2>2, <2>3, ReauthorizeFacts, Zenon
    <3>. QED  BY <2>1, <2>2, <3>1, Zenon
  <2>5. RealSuccess(g.id, rows[g.id].digest, recorded)
    BY <2>2, Zenon DEF InvocationInv, IInv, SuccessInv
  <2>6. \E r \in called : /\ SameOperation(r, g.id, rows[g.id].digest)
                          /\ result[r].output = recorded.output
    BY <2>4, <2>5, Zenon DEF RealSuccess
  <2>. QED  BY <2>2, <2>4, <2>6, Zenon
<1>. QED  BY <1>1, InvocationInvariance, PTL

\* An error other than outcome_unknown proves that the call had no effect.
THEOREM DefiniteErrors == InvocationSpec => []DefiniteErrorMeansNoEffect
<1>1. InvocationInv => DefiniteErrorMeansNoEffect
  BY Zenon DEF InvocationInv, CallInv, DefiniteErrorMeansNoEffect
<1>. QED  BY <1>1, InvocationInvariance, PTL

=============================================================================
