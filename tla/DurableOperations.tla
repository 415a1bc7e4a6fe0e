------------------------- MODULE DurableOperations --------------------------
(***************************************************************************)
(* Lifecycle changes of a resource (ControlClient.MoveResource,            *)
(* DisableResource, RestoreResource, DeleteResource): a request with an    *)
(* idempotency key and a fence that starts a durable operation, and        *)
(* WaitForOperation, which polls it.                                       *)
(***************************************************************************)
EXTENDS ResourceCommits

CONSTANTS
    MaxAttempts  \* OperationWaitOptions.MaxAttempts

VARIABLES
    ops,   \* Control: the operation that a caller's request has started
    made   \* Control: how many operations a caller's requests have started

operationVars == <<ops, made>>

Terminal == {"succeeded", "failed", "cancelled"}

OperationInit ==
    /\ ops = [c \in Callers |-> [status |-> "none", fence |-> 0]]
    /\ made = [c \in Callers |-> 0]

-----------------------------------------------------------------------------
\* The caller reads the resource for its fence.
ReadFence(c) ==
    /\ job[c].pc = "idle"
    /\ <<"lifecycle", None>> \in Jobs[c]
    /\ job' = [job EXCEPT ![c] = [NoJob EXCEPT !.kind = "lifecycle", !.pc = "fence"]]
    /\ Send(c, [op |-> "resource", from |-> c])
    /\ UNCHANGED <<commitVars, operationVars>>

FenceReturns(c) ==
    /\ job[c].pc = "fence"
    /\ \E outcome \in Outcomes :
         /\ Returns(c, outcome)
         /\ job' = [job EXCEPT ![c] = IF outcome = "ok"
                                      THEN [@ EXCEPT !.pc = "fenced", !.fence = reply[c].body]
                                      ELSE [@ EXCEPT !.pc = "done"]]
    /\ UNCHANGED <<commitVars, operationVars>>

\* Mutant: the request carries no key.
OperationRequestUnkeyed(c) == [op |-> "mutate", from |-> c, key |-> None, fence |-> job[c].fence]

\* The request, with the caller's key for this change and its fence.
OperationRequest(c) == [op |-> "mutate", from |-> c, key |-> c, fence |-> job[c].fence]

\* lifecycle and operationRequest, for the first time or again after an error.
Mutate(c) ==
    /\ job[c].pc = "fenced"
    /\ job' = [job EXCEPT ![c].pc = "mutate"]
    /\ Send(c, OperationRequest(c))
    /\ UNCHANGED <<commitVars, operationVars>>

MutateReturns(c) ==
    /\ job[c].pc = "mutate"
    /\ \E outcome \in Outcomes :
         /\ Returns(c, outcome)
         /\ job' = [job EXCEPT ![c].pc = CASE outcome = "ok" -> "wait"
                                           [] outcome = "refused" -> "done"
                                           [] OTHER -> "fenced"]
    /\ UNCHANGED <<commitVars, operationVars>>

\* Mutant: attempts are not counted.
PollUncounted(c) ==
    /\ job[c].pc = "wait"
    /\ job' = [job EXCEPT ![c].pc = "poll"]
    /\ Send(c, [op |-> "operation", from |-> c])
    /\ UNCHANGED <<commitVars, operationVars>>

\* WaitForOperation asks for the operation, unless the context is done.
Poll(c) ==
    /\ job[c].pc = "wait"
    /\ job' = [job EXCEPT ![c] = [@ EXCEPT !.pc = "poll", !.attempts = job[c].attempts + 1]]
    /\ Send(c, [op |-> "operation", from |-> c])
    /\ UNCHANGED <<commitVars, operationVars>>

ContextDone(c) ==
    /\ job[c].pc = "wait"
    /\ job' = [job EXCEPT ![c] = [@ EXCEPT !.pc = "done", !.attempts = 0]]
    /\ UNCHANGED <<httpVars, commitVars, operationVars>>

\* Mutant: only the statuses of an operation under way keep it waiting.
FinishedUnlessActive(status) == status \notin {"pending", "running"}

\* WaitForOperation returns an operation with one of these statuses.
Finished(status) == status \in Terminal

\* The loop of WaitForOperation goes on.
AttemptsLeft(c) == job[c].attempts < MaxAttempts

PollReturns(c) ==
    /\ job[c].pc = "poll"
    /\ \E outcome \in Outcomes :
         /\ Returns(c, outcome)
         /\ job' = [job EXCEPT ![c] =
              IF outcome = "ok" /\ Finished(reply[c].body)
              THEN [@ EXCEPT !.pc = "done", !.attempts = 0, !.seen = reply[c].body]
              ELSE IF outcome = "ok" /\ reply[c].body \in {"pending", "running"} /\ AttemptsLeft(c)
              THEN [@ EXCEPT !.pc = "wait"]
              ELSE [@ EXCEPT !.pc = "done", !.attempts = 0]]
    /\ UNCHANGED <<commitVars, operationVars>>

-----------------------------------------------------------------------------
(***************************************************************************)
(* Control: it starts one operation for a key, if the fence is current,    *)
(* and names the same operation for each further request with the key.     *)
(***************************************************************************)
ControlMutates(m, to) ==
    \/ /\ m.key # None /\ ops[m.from].status # "none"
       /\ Answer(to, {Success(m.from)})
       /\ UNCHANGED operationVars
    \/ /\ m.key = None \/ ops[m.from].status = "none"
       /\ m.fence = revision
       /\ ops' = [ops EXCEPT ![m.from] = [status |-> "pending", fence |-> m.fence]]
       /\ made' = [made EXCEPT ![m.from] = @ + 1]
       /\ Answer(to, {Success(m.from)})
    \/ /\ Answer(to, {Refusal})
       /\ UNCHANGED operationVars

\* The operation goes on, through a status that the client may not know ("newer");
\* it changes the resource if its fence still holds.
OperationStep(c) ==
    \/ /\ ops[c].status = "pending"
       /\ \E status \in {"running", "cancelled"} : ops' = [ops EXCEPT ![c].status = status]
       /\ UNCHANGED revision
    \/ /\ ops[c].status \in {"running", "newer"}
       /\ ops[c].fence = revision
       /\ ops' = [ops EXCEPT ![c].status = "succeeded"]
       /\ revision' = revision + 1
    \/ /\ ops[c].status = "running"
       /\ \E status \in {"failed", "newer"} : ops' = [ops EXCEPT ![c].status = status]
       /\ UNCHANGED revision
OperationAdvances(c) ==
    /\ OperationStep(c)
    /\ UNCHANGED <<job, httpVars, tokens, version, made>>

=============================================================================
