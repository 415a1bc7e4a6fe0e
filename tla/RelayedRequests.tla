--------------------------- MODULE RelayedRequests --------------------------
(***************************************************************************)
(* What a Connector promises the relay: it handles a request at most once, *)
(* never more of them at a time than it has capacity for, and a response   *)
(* that ends the relay's wait under an identifier is the response to the   *)
(* very request the relay waits for under it.  When the relay loses the    *)
(* connection, no application code goes on that was not told to stop.      *)
(* There are no connections, frames or goroutines here.                    *)
(***************************************************************************)
EXTENDS Naturals, FiniteSets

CONSTANTS Ids, Requests, Capacity, None

VARIABLES
    awaited,  \* the request whose response the relay waits for, per identifier
    phase,    \* how far each request has come
    canceled  \* the requests whose handler was told to stop

Init ==
    /\ awaited = [i \in Ids |-> None]
    /\ phase = [n \in Requests |-> "new"]
    /\ canceled = {}

Becomes(n, p) == phase' = [phase EXCEPT ![n] = p]

Send(i, n) ==
    /\ awaited[i] = None /\ phase[n] = "new"
    /\ awaited' = [awaited EXCEPT ![i] = n]
    /\ Becomes(n, "sent")

\* The requests that take up capacity: in application code, or with a response
\* that is not yet written.
Busy == {n \in Requests : phase[n] \in {"working", "answering"}}

Work(n) ==
    /\ phase[n] = "sent" /\ Cardinality(Busy) < Capacity
    /\ Becomes(n, "working")
    /\ UNCHANGED awaited

Produce(n) ==
    /\ phase[n] = "working"
    /\ Becomes(n, "answering")
    /\ UNCHANGED awaited

Respond(i, n) ==
    /\ phase[n] = "answering" /\ awaited[i] = n
    /\ Becomes(n, "over")
    /\ awaited' = [awaited EXCEPT ![i] = None]

\* The response cannot be delivered.
Drop(n) ==
    /\ phase[n] = "answering"
    /\ Becomes(n, "over")
    /\ UNCHANGED awaited

Disconnect ==
    /\ \A n \in Requests : phase[n] = "working" => n \in canceled
    /\ awaited' = [i \in Ids |-> None]
    /\ UNCHANGED phase

\* A request may be told to stop at any time, and for good.
Next ==
    /\ canceled \subseteq canceled'
    /\ \/ \E n \in Requests : Work(n) \/ Produce(n) \/ Drop(n)
       \/ \E i \in Ids, n \in Requests : Send(i, n) \/ Respond(i, n)
       \/ Disconnect
       \/ UNCHANGED <<awaited, phase>>

Spec == Init /\ [][Next]_<<awaited, phase, canceled>>

=============================================================================
