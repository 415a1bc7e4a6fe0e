---------------------------- MODULE KeyedCommands ---------------------------
(***************************************************************************)
(* What the lifecycle endpoints promise a browser about a command with an  *)
(* idempotency key: the command as its user means it (the intent) takes    *)
(* effect once and with one argument, only for a user of this environment; *)
(* and what a request is told is true.  `ok' is told only when its command *)
(* was carried out or had been, with its own argument; a conflict only     *)
(* when the intent took effect with another argument; and a request whose  *)
(* command was carried out is told so or that the runtime is unavailable,  *)
(* never that it was refused.  No session, owner or retry appears here.    *)
(***************************************************************************)
EXTENDS Naturals

CONSTANTS Requests, Intents, Ours

VARIABLES
    asked,    \* what each authenticated request asks for: intent and argument
    outcome,  \* the argument with which an intent took effect
    times,    \* how often it took effect
    did,      \* the requests whose command was carried out
    told      \* what each request was told

Init ==
    /\ asked = {}
    /\ outcome = <<>>
    /\ times = [i \in Intents |-> 0]
    /\ did = {}
    /\ told = [c \in Requests |-> "none"]

Ask(a) ==
    /\ told[a.by] = "none"
    /\ \A b \in asked : b.by # a.by
    /\ asked' = asked \cup {a}
    /\ UNCHANGED <<outcome, times, did, told>>

\* The command takes effect, or it already had with the same argument.
CarryOut(a) ==
    /\ a \in asked /\ a.scope = Ours
    /\ a.by \notin did /\ told[a.by] = "none"
    /\ \/ /\ a.intent \notin DOMAIN outcome
          /\ outcome' = [i \in DOMAIN outcome \cup {a.intent} |->
                           IF i = a.intent THEN a.arg ELSE outcome[i]]
          /\ times' = [times EXCEPT ![a.intent] = @ + 1]
       \/ /\ a.intent \in DOMAIN outcome /\ outcome[a.intent] = a.arg
          /\ UNCHANGED <<outcome, times>>
    /\ did' = did \cup {a.by}
    /\ UNCHANGED <<asked, told>>

\* The key was used for another argument.
Conflicting(a) == a.intent \in DOMAIN outcome /\ outcome[a.intent] # a.arg

Tell(c, verdict) ==
    /\ told[c] = "none" /\ verdict # "none"
    /\ verdict = "ok" => c \in did
    /\ verdict = "idempotency_conflict" => \E a \in asked : a.by = c /\ Conflicting(a)
    /\ c \in did => verdict \in {"ok", "runtime_unavailable"}
    /\ told' = [told EXCEPT ![c] = verdict]
    /\ UNCHANGED <<asked, outcome, times, did>>

Next ==
    \/ \E a \in asked' : Ask(a) \/ CarryOut(a)
    \/ \E c \in Requests : Tell(c, told'[c])

Spec == Init /\ [][Next]_<<asked, outcome, times, did, told>>

=============================================================================
