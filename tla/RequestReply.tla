---------------------------- MODULE RequestReply ----------------------------
(***************************************************************************)
(* What lotor.Client.do promises its callers, whatever the ids, channels,  *)
(* goroutines and timers behind it do: a call ends once, with an error or  *)
(* with a response; a response is one that the server gave to a request    *)
(* made before, it ends at most one call, and that is the call that asked  *)
(* for it, or one that came IdSpace or more calls later and so was given   *)
(* the id of that request again.                                           *)
(***************************************************************************)
EXTENDS Integers

CONSTANTS
    Requests,  \* the calls, numbered in the order in which they were made
    IdSpace    \* how many calls come between two uses of a request id

VARIABLES
    phase,     \* a call has not been made, is open, or has ended
    answered,  \* the requests that the server has answered
    got        \* the request to which the response of a call belongs, or 0

Init ==
    /\ phase = [n \in Requests |-> "new"]
    /\ answered = {}
    /\ got = [n \in Requests |-> 0]

Ask(n) ==
    /\ phase[n] = "new"
    /\ phase' = [phase EXCEPT ![n] = "open"]
    /\ UNCHANGED <<answered, got>>

Reply(m) ==
    /\ phase[m] # "new" /\ m \notin answered
    /\ answered' = answered \cup {m}
    /\ UNCHANGED <<phase, got>>

\* The call n returns the response to the request m.
Return(n, m) ==
    /\ phase[n] = "open"
    /\ m \in answered
    /\ \A k \in Requests : got[k] # m
    /\ m = n \/ m + IdSpace <= n
    /\ phase' = [phase EXCEPT ![n] = "ended"]
    /\ got' = [got EXCEPT ![n] = m]
    /\ UNCHANGED answered

\* The call n returns an error of its own: a timeout, a lost connection.
Fail(n) ==
    /\ phase[n] = "open"
    /\ phase' = [phase EXCEPT ![n] = "ended"]
    /\ UNCHANGED <<answered, got>>

Next ==
    \E n \in Requests :
        \/ Ask(n) \/ Reply(n) \/ Fail(n)
        \/ \E m \in Requests : Return(n, m)

Spec == Init /\ [][Next]_<<phase, answered, got>>

=============================================================================
