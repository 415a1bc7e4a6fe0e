------------------------- MODULE MCLifecycleGateway -------------------------
(***************************************************************************)
(* A small instance of LifecycleGateway: two requests that share a caller  *)
(* key, as a repetition in the same or in another session, with another    *)
(* argument, for the other operation, of another user, or of a user of     *)
(* another environment.                                                    *)
(***************************************************************************)
EXTENDS LifecycleGateway, TLC

CONSTANTS c1, c2

Bearer(subject, scope, serial) == [subject |-> subject, scope |-> scope, serial |-> serial]
MCSignIns ==
    [laptop  |-> <<Bearer("ann", "ours", 1), Bearer("ann", "ours", 2)>>,
     phone   |-> <<Bearer("ann", "ours", 3)>>,
     other   |-> <<Bearer("ben", "ours", 4)>>,
     foreign |-> <<Bearer("ann", "theirs", 5)>>]

Ask(session, op, arg) == [session |-> session, op |-> op, arg |-> arg, key |-> "k"]
First == Ask("laptop", "accept", "t1")
Seconds ==
    {First, Ask("phone", "accept", "t1"), Ask("laptop", "accept", "t2"),
     Ask("laptop", "cancel", "t2"), Ask("other", "accept", "t2"), Ask("foreign", "accept", "t2")}
MCWorkloads == {c1 :> First @@ c2 :> second : second \in Seconds}

=============================================================================
