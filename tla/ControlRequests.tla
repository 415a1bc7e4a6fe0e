-------------------------- MODULE ControlRequests ---------------------------
(***************************************************************************)
(* One HTTP request of lotorhttp.ControlClient or ResourceClient to        *)
(* Control: requestHeadersLimit and ResourceClient.request.  Callers are   *)
(* goroutines; each has at most one request of its own under way.          *)
(*                                                                         *)
(* The network loses requests and answers, and delivers a request after    *)
(* its caller has given up on it.  The body of an answer is what the       *)
(* operation decodes from it.                                              *)
(***************************************************************************)
EXTENDS Integers

CONSTANTS
    Callers,  \* goroutines that use the clients
    None

ASSUME CallersAssumption == None \notin Callers

VARIABLES
    job,    \* what a caller is doing
    asked,  \* its request that Control has not handled yet
    reply,  \* the answer to it
    late    \* changes on their way whose callers no longer wait

httpVars == <<asked, reply, late>>

\* The answers of Control.  One of the 5xx range, from Control or from what
\* stands in front of it, tells as little as no answer and is taken for a lost one.
Refusal == [status |-> "4xx", body |-> None]
Success(body) == [status |-> "2xx", body |-> body]

\* What request reports to its caller: success, a ControlError with a status
\* below 500, or another error.
Outcomes == {"ok", "refused", "error"}

HttpInit ==
    /\ asked = [c \in Callers |-> None]
    /\ reply = [c \in Callers |-> None]
    /\ late = {}

\* httpClient.Do starts.
Send(c, m) ==
    /\ asked' = [asked EXCEPT ![c] = m]
    /\ UNCHANGED <<reply, late>>

\* Mutant: an answer that cannot be decoded becomes a ControlError.
ReportsUndecodedAsRefused(a) == IF a.status = "2xx" THEN {"ok", "refused"} ELSE {"refused"}

\* What request reports for an answer: a ControlError with its status, or a
\* plain error if the body breaks off, is too long or cannot be decoded.
Reports(a) == {IF a.status = "2xx" THEN "ok" ELSE "refused", "error"}

\* The requests that change the resource.
Changes(m) == m.op \in {"commit", "mutate"}

\* request returns: with what it reports for an answer, or because Do fails
\* (the connection breaks or the context is done) while the request may still
\* be on its way, which matters for a change.
Returns(c, outcome) ==
    \/ /\ asked[c] # None
       /\ outcome = "error"
       /\ late' \in {late} \cup (IF Changes(asked[c]) THEN {late \cup {asked[c]}} ELSE {})
       /\ asked' = [asked EXCEPT ![c] = None]
       /\ UNCHANGED reply
    \/ /\ reply[c] # None
       /\ outcome \in Reports(reply[c])
       /\ reply' = [reply EXCEPT ![c] = None]
       /\ UNCHANGED <<asked, late>>

\* Control has handled a request and gives one of some answers to it, to the
\* caller that waits for it or to nobody.
Answer(to, answers) ==
    IF to = None THEN UNCHANGED reply
    ELSE \E a \in answers : reply' = [reply EXCEPT ![to] = a]

\* net/http sends a request again on a new connection when the old one broke:
\* a GET, or a request with an Idempotency-Key.
Replayable(m) == m.op \in {"resource", "operation"} \/ (m.op = "mutate" /\ m.key # None)

=============================================================================
