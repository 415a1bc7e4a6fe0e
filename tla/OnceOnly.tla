------------------------------ MODULE OnceOnly ------------------------------
(***************************************************************************)
(* What bridge.ExecutionStore and bridge.Runtime promise together: an      *)
(* operation identity is bound to one digest, application code runs at     *)
(* most once for it, and it gets at most one result, a success only when   *)
(* that code ran.  No request, statement, clock or crash appears here.     *)
(***************************************************************************)
CONSTANTS Ops, Digests, Results, Requests, None

VARIABLES
    ledger,  \* the digest and the result an operation is bound to
    runners  \* the requests whose handler ran for an operation

Init ==
    /\ ledger = [id \in Ops |-> None]
    /\ runners = [id \in Ops |-> {}]

\* ExecutionStore.Reserve: bind an ID to exactly one digest.
Reserve(id, digest) ==
    /\ ledger[id] = None
    /\ ledger' = [ledger EXCEPT ![id] = [digest |-> digest, result |-> None]]
    /\ UNCHANGED runners

\* The handler of the one owner of an incomplete reservation runs.
Run(id, r) ==
    /\ ledger[id] # None
    /\ ledger[id].result = None
    /\ runners[id] = {}
    /\ runners' = [runners EXCEPT ![id] = {r}]
    /\ UNCHANGED ledger

\* ExecutionStore.Complete: persist the result for restart-safe replay.
Finish(id, result) ==
    /\ ledger[id] # None
    /\ ledger[id].result = None
    /\ result \in Results
    /\ result.errorCode = "" => runners[id] # {}
    /\ ledger' = [ledger EXCEPT ![id] =
                    [digest |-> ledger[id].digest, result |-> result]]
    /\ UNCHANGED runners

Next ==
    \E id \in Ops :
        \/ \E digest \in Digests : Reserve(id, digest)
        \/ \E r \in Requests : Run(id, r)
        \/ Finish(id, ledger'[id].result)

Spec == Init /\ [][Next]_<<ledger, runners>>

=============================================================================
