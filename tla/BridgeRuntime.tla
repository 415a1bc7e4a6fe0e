---------------------------- MODULE BridgeRuntime ---------------------------
(***************************************************************************)
(* bridge.Runtime: the HTTP handler that runs a registered function for a  *)
(* signed grant, over the journal of bridge/sqlstore.                      *)
(*                                                                         *)
(* Each member of Requests is one HTTP request and the goroutine that      *)
(* serves it, on any replica of the runtime: replicas share the journal    *)
(* and nothing else.  A step is the code between two points where another  *)
(* goroutine, the database, the clock or a crash can come in between.      *)
(***************************************************************************)
EXTENDS ExecutionJournal

CONSTANTS
    Requests,          \* HTTP requests the runtime serves
    ExecutionTimeout,  \* Config.ExecutionTimeout
    MaxTime            \* the clock of a behaviour stops here

ASSUME RuntimeAssumption ==
    /\ ExecutionTimeout \in Nat \ {0}
    /\ MaxTime \in Nat

VARIABLES
    now,       \* Config.Now, in seconds
    pc,        \* where the goroutine of a request is in ServeHTTP
    grant,     \* its verified authorization
    got,       \* what the Store last returned to it
    result,    \* the Result it is building
    deadline,  \* deadline of the context its handler runs in
    called,    \* requests that entered application code
    gone,      \* requests whose context was cancelled by the caller leaving
    resp       \* the answer it wrote

requestVars == <<pc, grant, got, result, deadline, called, gone, resp>>
vars == <<rows, late, now, requestVars>>

Locations == {"idle", "authorize", "insert", "select", "reserved", "dispatch",
              "running", "complete", "sign", "done", "crashed"}

ReserveErrors == {"none", "conflict", "in_progress", "unavailable"}

Reservation == [err : ReserveErrors, stored : Results \cup {None}]

Codes == {"ok", "not_found", "invalid_request", "unauthorized",
          "authorization_unavailable", "operation_conflict",
          "storage_unavailable", "outcome_unknown", "result_unavailable"}

Response == [code : Codes, result : Results \cup {None}]

ASSUME ResponseAssumption == None \notin Response

TypeOK ==
    /\ JournalTypeOK
    /\ now \in Nat
    /\ pc \in [Requests -> Locations]
    /\ grant \in [Requests -> Grants \cup {None}]
    /\ got \in [Requests -> Reservation]
    /\ result \in [Requests -> Results \cup {None}]
    /\ deadline \in [Requests -> Nat]
    /\ called \in SUBSET Requests
    /\ gone \in SUBSET Requests
    /\ resp \in [Requests -> Response \cup {None}]

NoReservation == [err |-> "none", stored |-> None]

Init ==
    /\ JournalInit
    /\ now = 1
    /\ pc = [r \in Requests |-> "idle"]
    /\ grant = [r \in Requests |-> None]
    /\ got = [r \in Requests |-> NoReservation]
    /\ result = [r \in Requests |-> None]
    /\ deadline = [r \in Requests |-> 0]
    /\ called = {}
    /\ gone = {}
    /\ resp = [r \in Requests |-> None]

-----------------------------------------------------------------------------
Goto(r, location) == pc' = [pc EXCEPT ![r] = location]

Reply(r, code, value) ==
    /\ Goto(r, "done")
    /\ resp' = [resp EXCEPT ![r] = [code |-> code, result |-> value]]

Refuse(r, code) == Reply(r, code, None)

\* Runtime.grantActive: the context is alive and the grant has not expired.
GrantActive(r) == r \notin gone /\ now < grant[r].expiresAt

\* The context a handler runs in: the grant's, bounded by ExecutionTimeout.
HandlerContextAlive(r) == GrantActive(r) /\ now < deadline[r]

\* Deadline of the handler's context: the earlier of the grant's expiry and
\* the execution timeout.
HandlerDeadline(g) ==
    IF now + ExecutionTimeout < g.expiresAt
    THEN now + ExecutionTimeout
    ELSE g.expiresAt

ValidAuthorization(g, path) ==
    /\ LifetimeValid(g, now)
    /\ g.kind = IF path = "challenge" THEN "challenge" ELSE "invocation"

\* ControlValidator.Authorize: what Control's answer means for a grant.
ControlAnswers == {"no_content", "rejected", "failed"}

Verdict(g, answer) ==
    IF g.kind = "challenge" \/ answer = "no_content" THEN "ok"
    ELSE IF answer = "rejected" THEN "unauthorized" ELSE "unavailable"

\* The Result as ServeHTTP starts it, before anything has run.
NewResult(g) ==
    [id |-> g.id, kind |-> g.kind, authorization |-> AuthorizationDigest(g),
     nonce |-> Nonce(g), output |-> None, errorCode |-> "", completedAt |-> now]

\* What execute and the checks after it make of the handler's return value;
\* None is an error, a panic, or an output that is not JSON or too large.
Finished(res, output) ==
    IF output = None
    THEN [res EXCEPT !.errorCode = "outcome_unknown", !.completedAt = now]
    ELSE [res EXCEPT !.output = output, !.completedAt = now]

InsertOf(r) == Insert(grant[r].id, SemanticDigest(grant[r]))

UpdateOf(r) == Update(grant[r].id, SemanticDigest(grant[r]), result[r])

-----------------------------------------------------------------------------
(***************************************************************************)
(* A request arrives.  `readable' is the outcome of the method, media      *)
(* type, size and JSON checks; `trusted' of the key lookup, the signature  *)
(* and the comparison of the grant's static fields with the configuration. *)
(***************************************************************************)
Receive(r, path, readable, trusted, g) ==
    /\ pc[r] = "idle"
    /\ \/ path = "other" /\ Refuse(r, "not_found") /\ UNCHANGED grant
       \/ /\ path # "other" /\ ~readable
          /\ Refuse(r, "invalid_request")
          /\ UNCHANGED grant
       \/ /\ path # "other" /\ readable
          /\ ~trusted \/ ~ValidAuthorization(g, path)
          /\ Refuse(r, "unauthorized")
          /\ UNCHANGED grant
       \/ /\ path # "other" /\ readable /\ trusted
          /\ ValidAuthorization(g, path)
          /\ Goto(r, "authorize")
          /\ grant' = [grant EXCEPT ![r] = g]
          /\ UNCHANGED resp
    /\ UNCHANGED <<journalVars, now, got, result, deadline, called, gone>>

\* Config.Authorize answers; then the grant must still be active.
Authorize(r, answer) ==
    LET verdict == Verdict(grant[r], answer)
        active == GrantActive(r)
    IN  /\ pc[r] = "authorize"
        /\ \/ verdict = "unavailable"
              /\ Refuse(r, "authorization_unavailable") /\ UNCHANGED result
           \/ /\ verdict = "unauthorized" \/ (verdict = "ok" /\ ~active)
              /\ Refuse(r, "unauthorized") /\ UNCHANGED result
           \/ /\ verdict = "ok" /\ active
              /\ Goto(r, IF grant[r].kind = "challenge" THEN "sign" ELSE "insert")
              /\ result' = [result EXCEPT ![r] = NewResult(grant[r])]
              /\ UNCHANGED resp
        /\ UNCHANGED <<journalVars, now, grant, got, deadline, called, gone>>

\* Store.Reserve, the INSERT: the caller owns the operation when it inserted
\* the row and looks at the existing row otherwise.
ReserveInsert(r) ==
    /\ pc[r] = "insert"
    /\ Goto(r, IF InsertCount(rows, InsertOf(r)) = 1 THEN "reserved" ELSE "select")
    /\ Execute(InsertOf(r))
    /\ UNCHANGED <<now, grant, got, result, deadline, called, gone, resp>>

\* Mutant: the error of the INSERT is taken for an inserted row.
ReserveInsertFailsOwns(r) ==
    /\ pc[r] = "insert"
    /\ Goto(r, "reserved")
    /\ Lose(InsertOf(r))
    /\ UNCHANGED <<now, grant, got, result, deadline, called, gone, resp>>

\* Store.Reserve: the INSERT call returned an error.
ReserveInsertFails(r) ==
    /\ pc[r] = "insert"
    /\ Goto(r, "reserved")
    /\ got' = [got EXCEPT ![r] = [err |-> "unavailable", stored |-> None]]
    /\ Lose(InsertOf(r))
    /\ UNCHANGED <<now, grant, result, deadline, called, gone, resp>>

\* Mutant: an incomplete reservation is handed to the next caller.
ReadReservationSteals(row, digest) ==
    IF row.digest # digest THEN [err |-> "conflict", stored |-> None]
    ELSE [err |-> "none", stored |-> row.result]

\* What Store.Reserve returns for the row that its SELECT read.
ReadReservation(row, digest) ==
    IF row.digest # digest THEN [err |-> "conflict", stored |-> None]
    ELSE IF row.result = None THEN [err |-> "in_progress", stored |-> None]
    ELSE [err |-> "none", stored |-> row.result]

\* Store.Reserve, the SELECT of the row that was already there.
ReserveSelect(r) ==
    /\ pc[r] = "select"
    /\ Goto(r, "reserved")
    /\ got' = [got EXCEPT ![r] =
                 ReadReservation(rows[grant[r].id], SemanticDigest(grant[r]))]
    /\ UNCHANGED <<journalVars, now, grant, result, deadline, called, gone, resp>>

\* Store.Reserve: the SELECT failed or the stored bytes do not decode.
ReserveSelectFails(r) ==
    /\ pc[r] = "select"
    /\ Goto(r, "reserved")
    /\ got' = [got EXCEPT ![r] = [err |-> "unavailable", stored |-> None]]
    /\ UNCHANGED <<journalVars, now, grant, result, deadline, called, gone, resp>>

\* Mutant: a request polls an operation in progress until it has a result.
AfterReserveWaits(r) ==
    /\ pc[r] = "reserved"
    /\ \/ /\ got[r].err = "in_progress"
          /\ Goto(r, "select") /\ UNCHANGED <<result, deadline, resp>>
       \/ /\ got[r].err # "in_progress" /\ got[r] # NoReservation
          /\ Refuse(r, "operation_conflict") /\ UNCHANGED <<result, deadline>>
       \/ /\ got[r] = NoReservation
          /\ Goto(r, "dispatch")
          /\ deadline' = [deadline EXCEPT ![r] = HandlerDeadline(grant[r])]
          /\ UNCHANGED <<resp, result>>
    /\ UNCHANGED <<journalVars, now, grant, got, called, gone>>

\* ServeHTTP after Reserve: the grant is checked again first, then a conflict,
\* an unavailable store, a stored result or the ownership of the operation.
AfterReserve(r) ==
    /\ pc[r] = "reserved"
    /\ \/ ~GrantActive(r) /\ Refuse(r, "unauthorized") /\ UNCHANGED <<result, deadline>>
       \/ /\ GrantActive(r) /\ got[r].err \in {"conflict", "in_progress"}
          /\ Refuse(r, "operation_conflict") /\ UNCHANGED <<result, deadline>>
       \/ /\ GrantActive(r) /\ got[r].err = "unavailable"
          /\ Refuse(r, "storage_unavailable") /\ UNCHANGED <<result, deadline>>
       \/ /\ GrantActive(r) /\ got[r].err = "none" /\ got[r].stored # None
          /\ Goto(r, "sign")
          /\ result' = [result EXCEPT ![r] =
               [got[r].stored EXCEPT !.authorization = AuthorizationDigest(grant[r])]]
          /\ UNCHANGED <<resp, deadline>>
       \/ /\ GrantActive(r) /\ got[r].err = "none" /\ got[r].stored = None
          /\ Goto(r, "dispatch")
          /\ deadline' = [deadline EXCEPT ![r] = HandlerDeadline(grant[r])]
          /\ UNCHANGED <<resp, result>>
    /\ UNCHANGED <<journalVars, now, grant, got, called, gone>>

-----------------------------------------------------------------------------
\* execute: the handler is entered unless its context has already ended.
EnterHandler(r) ==
    /\ pc[r] = "dispatch"
    /\ \/ /\ HandlerContextAlive(r)
          /\ Goto(r, "running")
          /\ called' = called \cup {r}
          /\ UNCHANGED result
       \/ /\ ~HandlerContextAlive(r)
          /\ Goto(r, "complete")
          /\ result' = [result EXCEPT ![r] = Finished(result[r], None)]
          /\ UNCHANGED called
    /\ UNCHANGED <<journalVars, now, grant, got, deadline, gone, resp>>

\* Mutant: a handler that outlives its grant is answered like a late reservation.
HandlerReturnsRefused(r, output) ==
    /\ pc[r] = "running"
    /\ IF GrantActive(r)
       THEN Goto(r, "complete") /\ UNCHANGED resp
       ELSE Refuse(r, "unauthorized")
    /\ result' = [result EXCEPT ![r] = Finished(result[r], output)]
    /\ UNCHANGED <<journalVars, now, grant, got, deadline, called, gone>>

\* The handler returns, fails or panics; what it returned after its context
\* ended is dropped.
HandlerReturns(r, output) ==
    /\ pc[r] = "running"
    /\ Goto(r, "complete")
    /\ result' = [result EXCEPT ![r] =
         Finished(result[r], IF HandlerContextAlive(r) THEN output ELSE None)]
    /\ UNCHANGED <<journalVars, now, grant, got, deadline, called, gone, resp>>

\* Mutant: Complete runs under the context of the request, and fails once the
\* caller has left.
CompleteCancelled(r) ==
    /\ pc[r] = "complete"
    /\ \/ r \in gone /\ Refuse(r, "outcome_unknown") /\ UNCHANGED journalVars
       \/ r \notin gone /\ Goto(r, "sign") /\ Execute(UpdateOf(r)) /\ UNCHANGED resp
    /\ UNCHANGED <<now, grant, got, result, deadline, called, gone>>

\* Store.Complete, under a context that survives the caller leaving: no row
\* affected is ErrConflict.
Complete(r) ==
    /\ pc[r] = "complete"
    /\ \/ /\ UpdateCount(rows, UpdateOf(r)) = 1
          /\ Goto(r, "sign") /\ UNCHANGED resp
       \/ /\ UpdateCount(rows, UpdateOf(r)) # 1
          /\ Refuse(r, "outcome_unknown")
    /\ Execute(UpdateOf(r))
    /\ UNCHANGED <<now, grant, got, result, deadline, called, gone>>

\* Mutant: the error of Complete is ignored and the result is signed.
CompleteFailsIgnored(r) ==
    /\ pc[r] = "complete"
    /\ Goto(r, "sign")
    /\ Lose(UpdateOf(r))
    /\ UNCHANGED <<now, grant, got, result, deadline, called, gone, resp>>

\* Store.Complete: the UPDATE call returned an error or timed out.
CompleteFails(r) ==
    /\ pc[r] = "complete"
    /\ Refuse(r, "outcome_unknown")
    /\ got' = [got EXCEPT ![r] = [err |-> "unavailable", stored |-> None]]
    /\ Lose(UpdateOf(r))
    /\ UNCHANGED <<now, grant, result, deadline, called, gone>>

\* SignResult and the response.
Sign(r, signs) ==
    /\ pc[r] = "sign"
    /\ IF signs THEN Reply(r, "ok", result[r]) ELSE Refuse(r, "result_unavailable")
    /\ UNCHANGED <<journalVars, now, grant, got, result, deadline, called, gone>>

-----------------------------------------------------------------------------
\* The caller leaves: net/http cancels the context of the request.
Disconnect(r) ==
    /\ r \notin gone
    /\ gone' = gone \cup {r}
    /\ UNCHANGED <<journalVars, now, pc, grant, got, result, deadline, called, resp>>

InProgress(r) == pc[r] \notin {"idle", "done", "crashed"}

\* The process serving the request dies; only the journal survives.
Crash(r) ==
    /\ InProgress(r)
    /\ Goto(r, "crashed")
    /\ UNCHANGED <<journalVars, now, grant, got, result, deadline, called, gone, resp>>

Tick ==
    /\ now < MaxTime
    /\ now' = now + 1
    /\ UNCHANGED <<journalVars, requestVars>>

\* The database commits a statement whose call had failed.
DatabaseStep == LateCommit /\ UNCHANGED <<now, requestVars>>

\* What the goroutine of a request does once the request has been read.
Serve(r) ==
    \/ \E answer \in ControlAnswers : Authorize(r, answer)
    \/ ReserveInsert(r)
    \/ ReserveInsertFails(r)
    \/ ReserveSelect(r)
    \/ ReserveSelectFails(r)
    \/ AfterReserve(r)
    \/ EnterHandler(r)
    \/ \E output \in Outputs \cup {None} : HandlerReturns(r, output)
    \/ Complete(r)
    \/ CompleteFails(r)
    \/ \E signs \in BOOLEAN : Sign(r, signs)

Paths == {"challenge", "invoke", "other"}

Environment ==
    \/ \E r \in Requests : Disconnect(r) \/ Crash(r)
    \/ Tick
    \/ DatabaseStep

Next ==
    \/ \E r \in Requests, path \in Paths, readable, trusted \in BOOLEAN, g \in Grants :
         Receive(r, path, readable, trusted, g)
    \/ \E r \in Requests : Serve(r)
    \/ Environment

Spec == Init /\ [][Next]_vars

(***************************************************************************)
(* Every call of a serving goroutine returns: the Control call, Reserve    *)
(* and Complete run under deadlines (five seconds, the grant's expiry,     *)
(* five seconds), and a handler is assumed to honour its context.          *)
(***************************************************************************)
FairSpec == Spec /\ \A r \in Requests : WF_vars(Serve(r))

-----------------------------------------------------------------------------
Answered(r, codes) == resp[r] # None /\ resp[r].code \in codes

\* Two requests never both enter application code for one operation: not
\* concurrently, not with a renewed grant, not with another content under the
\* same identity, and not after a crash of the first (ServeHTTP with
\* Store.Reserve).
AtMostOnce ==
    \A r, s \in called : grant[r].id = grant[s].id => r = s

\* A signed answer to an invocation is the durable result of that operation
\* for exactly that content: ServeHTTP answers only after Complete persisted
\* the result, and a replay changes nothing but the authorization digest.
AnswersAreDurable ==
    \A r \in Requests :
        Answered(r, {"ok"}) /\ grant[r].kind = "invocation" =>
            LET row == rows[grant[r].id] IN
            /\ row # None
            /\ row.digest = SemanticDigest(grant[r])
            /\ row.result # None
            /\ resp[r].result = [row.result EXCEPT !.authorization = grant[r]]

\* A recorded success is what the handler of a request for that operation and
\* content returned: no result is recorded for an operation that never ran,
\* whatever statements fail, are lost or commit late.
RecordedSuccessIsReal ==
    \A id \in Ops :
        rows[id] # None /\ rows[id].result # None /\ rows[id].result.errorCode = "" =>
            \E r \in called :
                /\ grant[r].id = id
                /\ SemanticDigest(grant[r]) = rows[id].digest
                /\ result[r].output = rows[id].result.output

\* A request refused with any code but outcome_unknown or result_unavailable
\* did not enter application code: the refusals of ServeHTTP before the
\* handler are proof of no effect by this request.
RefusalMeansNoEffect ==
    \A r \in called :
        resp[r] # None => resp[r].code \in {"ok", "outcome_unknown", "result_unavailable"}

\* A reservation without a result has a request of the same operation and
\* content to account for it, one that is still at work, crashed, or was
\* answered with an error that leaves the outcome open; it is never left
\* behind by requests that were all answered ok or operation_conflict.
IncompleteIsAccountedFor ==
    \A id \in Ops :
        rows[id] # None /\ rows[id].result = None =>
            \E r \in Requests :
                /\ grant[r] # None
                /\ grant[r].id = id
                /\ SemanticDigest(grant[r]) = rows[id].digest
                /\ \/ pc[r] \in {"reserved", "dispatch", "running", "complete", "crashed"}
                   \/ Answered(r, {"unauthorized", "storage_unavailable", "outcome_unknown"})

\* The journal is write-once: no step, late commits included, removes a row,
\* changes its digest or replaces a recorded result (the conditions of the
\* INSERT and of the UPDATE).
JournalIsWriteOnce ==
    [][\A id \in Ops :
          rows[id] # None =>
              /\ rows'[id] # None
              /\ rows'[id].digest = rows[id].digest
              /\ rows[id].result # None => rows'[id].result = rows[id].result]_vars

\* Every request that was read is answered, or its process dies, although it
\* may lose the operation, its grant, its caller or the database on the way.
EveryRequestEnds == \A r \in Requests : InProgress(r) ~> ~InProgress(r)

Recorded(r) ==
    \E id \in Ops : /\ rows[id] # None /\ rows[id].result = result[r]
                   /\ grant[r] # None /\ grant[r].id = id

\* Once application code was entered, its outcome reaches the journal unless
\* the process dies or the database fails the UPDATE: neither a caller that
\* leaves (context.WithoutCancel) nor another request for the operation nor a
\* grant that expires keeps it from being recorded.
EffectIsRecorded ==
    \A r \in Requests :
        r \in called ~> \/ Recorded(r)
                        \/ pc[r] = "crashed"
                        \/ got[r].err = "unavailable"

-----------------------------------------------------------------------------
(***************************************************************************)
(* The runtime and its journal implement OnceOnly: the ledger is the table *)
(* and the runners of an operation are the requests that entered its       *)
(* handler.  Losing the answer of a statement, its late commit, crashes,   *)
(* replays and refusals are steps the abstract ledger does not see.        *)
(***************************************************************************)
Runners == [id \in Ops |-> {r \in called : grant[r].id = id}]

Abstract == INSTANCE OnceOnly WITH ledger <- rows, runners <- Runners

\* Every step of ServeHTTP, of the store and of its environment is a step of
\* the once-only ledger or invisible to it.
ImplementsOnceOnly == Abstract!Spec

-----------------------------------------------------------------------------
(***************************************************************************)
(* The inductive invariant behind the properties above.  A request owns    *)
(* its operation from the moment its INSERT counted a row until Complete   *)
(* was called; it holds the operation also afterwards if it ran.           *)
(***************************************************************************)
Owning(r) ==
    \/ pc[r] = "reserved" /\ got[r] = NoReservation
    \/ pc[r] \in {"dispatch", "running", "complete"}

Holding(r) == Owning(r) \/ r \in called

SameOperation(r, id, digest) ==
    /\ grant[r] \in Grants
    /\ grant[r].id = id
    /\ SemanticDigest(grant[r]) = digest

\* The request gave its reservation up in a way its caller can see.
Failed(r) ==
    \/ pc[r] = "reserved" /\ got[r].err = "unavailable"
    \/ pc[r] = "crashed"
    \/ Answered(r, {"unauthorized", "storage_unavailable", "outcome_unknown"})

Serving == {"authorize", "insert", "select", "reserved", "dispatch", "running",
            "complete", "sign", "crashed"}

Building == {"insert", "select", "reserved", "dispatch", "running", "complete"}

\* What the local state of a goroutine says at each location.
LocationInv ==
    \A r \in Requests :
        /\ pc[r] \in Serving => grant[r] \in Grants
        /\ pc[r] \in Building =>
              /\ grant[r].kind = "invocation"
              /\ result[r] \in Results
              /\ result[r].authorization = grant[r]
        /\ pc[r] = "sign" => result[r] \in Results /\ result[r].authorization = grant[r]
        /\ pc[r] \in {"idle", "authorize", "insert", "select"} => got[r] = NoReservation
        /\ resp[r] # None => pc[r] = "done"
        /\ Answered(r, {"ok"}) => /\ grant[r] \in Grants
                                  /\ resp[r].result \in Results
                                  /\ resp[r].result.authorization = grant[r]
        /\ pc[r] = "running" => r \in called
        /\ pc[r] = "complete" /\ r \notin called => result[r].errorCode = "outcome_unknown"
        /\ r \in called =>
              /\ grant[r] \in Grants
              /\ grant[r].kind = "invocation"
              /\ pc[r] \in {"running", "complete", "sign", "done", "crashed"}

\* A holder's operation is bound to its content, and it is the only holder.
OwnershipInv ==
    /\ \A r \in Requests :
          Holding(r) => /\ rows[grant[r].id] # None
                        /\ rows[grant[r].id].digest = SemanticDigest(grant[r])
    /\ \A r, s \in Requests :
          Holding(r) /\ Holding(s) /\ grant[r].id = grant[s].id => r = s

\* An owned operation has no result yet, and none on its way.
PendingInv ==
    /\ \A r \in Requests : Owning(r) => rows[grant[r].id].result = None
    /\ \A s \in late :
          s.type = "update" =>
              /\ rows[s.id] # None
              /\ \A r \in Requests : Owning(r) => grant[r].id # s.id

\* A goroutine that looks at an existing row finds one, and what it read or
\* is about to sign is what the row holds.
ReplayInv ==
    \A r \in Requests :
        /\ pc[r] = "select" => rows[grant[r].id] # None
        /\ pc[r] = "reserved" /\ got[r].stored # None =>
              /\ rows[grant[r].id] # None
              /\ rows[grant[r].id].digest = SemanticDigest(grant[r])
              /\ rows[grant[r].id].result = got[r].stored
        /\ pc[r] = "sign" /\ grant[r].kind = "invocation" =>
              /\ rows[grant[r].id] # None
              /\ rows[grant[r].id].digest = SemanticDigest(grant[r])
              /\ rows[grant[r].id].result # None
              /\ result[r] = [rows[grant[r].id].result EXCEPT !.authorization = grant[r]]

\* A success that is recorded, or that a lost UPDATE may still record, was
\* returned by a handler.
RealSuccess(id, digest, res) ==
    res.errorCode = "" =>
        \E r \in called :
            /\ SameOperation(r, id, digest)
            /\ pc[r] # "running"
            /\ result[r].output = res.output

SuccessInv ==
    /\ \A id \in Ops :
          rows[id] # None /\ rows[id].result # None =>
              RealSuccess(id, rows[id].digest, rows[id].result)
    /\ \A s \in late : s.type = "update" => RealSuccess(s.id, s.digest, s.result)

\* A row without a result, or an INSERT that may still create one, has an
\* owner at work or a request that failed.
AccountInv ==
    /\ \A id \in Ops :
          rows[id] # None /\ rows[id].result = None =>
              \E r \in Requests : /\ SameOperation(r, id, rows[id].digest)
                                  /\ Owning(r) \/ Failed(r)
    /\ \A s \in late :
          s.type = "insert" =>
              \E r \in Requests : SameOperation(r, s.id, s.digest) /\ Failed(r)

IInv ==
    /\ TypeOK
    /\ LocationInv
    /\ OwnershipInv
    /\ PendingInv
    /\ ReplayInv
    /\ SuccessInv
    /\ AccountInv
    /\ AnswersAreDurable
    /\ RefusalMeansNoEffect

=============================================================================
