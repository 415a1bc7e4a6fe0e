------------------------------ MODULE KeyLease ------------------------------
(***************************************************************************)
(* What WithPayloadCustody promises about a resource key: a call has its   *)
(* key in memory for one stretch of time at most, one goroutine works with *)
(* the key at a time and only within that stretch, which does not end      *)
(* under a goroutine's hands; and after the call nobody has or gets it.    *)
(* Bindings, payloads and invocations do not appear here.                  *)
(***************************************************************************)
CONSTANTS Calls, Workers, None

VARIABLES
    held,   \* the calls whose key is in memory
    user,   \* the goroutine that works with the key of a call
    over    \* the calls that have returned

Init ==
    /\ held = {}
    /\ user = [c \in Calls |-> None]
    /\ over = {}

Take(c) ==
    /\ c \notin held \cup over
    /\ held' = held \cup {c}
    /\ UNCHANGED <<user, over>>

Use(c, g) ==
    /\ c \in held /\ user[c] = None
    /\ \A d \in Calls : user[d] # g
    /\ user' = [user EXCEPT ![c] = g]
    /\ UNCHANGED <<held, over>>

Release(c, g) ==
    /\ c \in held /\ user[c] = g
    /\ user' = [user EXCEPT ![c] = None]
    /\ UNCHANGED <<held, over>>

\* The key is cleared as the call returns.
Drop(c) ==
    /\ c \in held /\ user[c] = None
    /\ held' = held \ {c}
    /\ over' = over \cup {c}
    /\ UNCHANGED user

\* The call returns without ever having had the key.
Refuse(c) ==
    /\ c \notin held \cup over
    /\ over' = over \cup {c}
    /\ UNCHANGED <<held, user>>

Next ==
    \E c \in Calls :
        \/ Take(c) \/ Drop(c) \/ Refuse(c)
        \/ \E g \in Workers : Use(c, g) \/ Release(c, g)

Spec == Init /\ [][Next]_<<held, user, over>>

=============================================================================
