-------------------------- MODULE ResourceCommits ---------------------------
(***************************************************************************)
(* Changes to a resource in two requests: a preflight whose answer carries *)
(* a token, and a commit with that token.  Executions of a workload        *)
(* (ResourceClient.PreflightExecution, CommitExecution and                 *)
(* OpenProviderResponse), links of a user (ControlClient.SendResourceLinks *)
(* and CommitResourceLinks) and payloads (BeginResourcePayloadUpload and   *)
(* CommitResourcePayload; the object itself is in PayloadCustody).         *)
(*                                                                         *)
(* There is one resource.  A caller has one intended change.  When an      *)
(* attempt has failed it may commit again with the token it has, or start  *)
(* over with a new preflight.                                              *)
(***************************************************************************)
EXTENDS ControlRequests, FiniteSets

CONSTANTS
    Jobs,          \* the changes that each caller may want: a kind and a body
    Bodies,        \* what an execution asks the provider for
    MaxTokens,     \* bound on the preflights that Control answers with a token
    MaxAlike       \* bound on those of one kind

Tokens == 1..MaxTokens
Kinds == {"execution", "links", "payload"}

\* What Control keeps of a preflight: its kind and request, the state of the
\* resource it was made for, and the caller whose commit was applied.
Preflights ==
    [kind : Kinds, what : Bodies \cup {None}, by : Callers \cup {None}, revision : Nat, version : Nat]

ASSUME CommitsAssumption ==
    /\ MaxTokens \in Nat /\ MaxAlike \in Nat
    /\ None \notin Bodies \cup Nat \cup Kinds \cup Preflights

VARIABLES
    tokens,    \* Control: the preflight of each token, and who applied it
    revision,  \* Control: the revision of the resource
    version    \* Control: its payload version

commitVars == <<tokens, revision, version>>

CommitInit ==
    /\ tokens = [t \in Tokens |-> None]
    /\ revision = 0
    /\ version = 0

\* A caller that has not started anything.  It is in doubt once a commit has
\* ended without its knowing what became of it, and it has taken a risk if it
\* started over in doubt.
NoJob ==
    [kind |-> None, pc |-> "idle", what |-> None, token |-> None,
     doubt |-> FALSE, risked |-> FALSE, opened |-> None,
     fence |-> None, attempts |-> 0, seen |-> None]

-----------------------------------------------------------------------------
\* The preflight request of a job.
Preflight(c, j) ==
    /\ job' = [job EXCEPT ![c] = [j EXCEPT !.pc = "preflight"]]
    /\ Send(c, [op |-> "preflight", from |-> c, kind |-> j.kind, what |-> j.what])

Start(c, kind, what) ==
    /\ job[c].pc = "idle"
    /\ <<kind, what>> \in Jobs[c]
    /\ what # None <=> kind = "execution"
    /\ Preflight(c, [NoJob EXCEPT !.kind = kind, !.what = what])
    /\ UNCHANGED commitVars

\* PreflightExecution compares the answer with its request.
PreflightMatches(c, t) == tokens[t].what = job[c].what

\* The preflight returns.  An answer without a token is an error; for links it
\* stands also for changes that cannot be committed, for which SendResourceLinks
\* returns a ControlError.  Nothing has been committed in any of these cases.
\* SendResourceLinks goes on to its commit; the other callers do so themselves.
PreflightReturns(c) ==
    /\ job[c].pc = "preflight"
    /\ \E outcome \in Outcomes :
         /\ Returns(c, outcome)
         /\ job' = [job EXCEPT ![c] =
              IF outcome = "ok" /\ reply[c].body # None /\ PreflightMatches(c, reply[c].body)
              THEN [@ EXCEPT !.pc = IF job[c].kind = "links" THEN "send" ELSE "stopped",
                               !.token = reply[c].body]
              ELSE [@ EXCEPT !.pc = "stopped"]]
    /\ UNCHANGED commitVars

\* The commit, with the token of the preflight.
CommitRequest(c) == [op |-> "commit", from |-> c, token |-> job[c].token]

Commits(c) ==
    /\ job' = [job EXCEPT ![c].pc = "commit"]
    /\ Send(c, CommitRequest(c))
    /\ UNCHANGED commitVars

SendResourceLinks(c) == job[c].pc = "send" /\ Commits(c)

\* ProtectProviderRequest seals a request only if it is the one of the preflight.
ProtectProviderRequest(c) == tokens[job[c].token].what = job[c].what

\* CommitExecution, CommitResourceLinks or CommitResourcePayload, for the first
\* time or again after an error.  A call whose input does not fit the preflight
\* is refused before anything is sent and leaves the caller where it is.
Commit(c) ==
    /\ job[c].pc = "stopped" /\ job[c].token # None
    /\ job[c].kind = "execution" => ProtectProviderRequest(c)
    /\ Commits(c)

\* Mutant: the payload version is not compared.
FingerprintUnversioned(t) == [what |-> tokens[t].what, revision |-> tokens[t].revision]

\* What CommitExecution and OpenProviderResponse compare with the preflight.
Fingerprint(t) ==
    [what |-> tokens[t].what, revision |-> tokens[t].revision, version |-> tokens[t].version]
AuthorizationMatches(c, authorization) ==
    job[c].kind = "execution" => Fingerprint(authorization.token) = Fingerprint(job[c].token)

\* OpenProviderResponse: the response opens only under the associated data of
\* the preflight, which identifies the request as the fingerprint does.  A raw
\* execution has no response to open, and neither has a change of another kind.
OpenProviderResponse(c, authorization) ==
    IF authorization.response # None
         /\ Fingerprint(authorization.response) = Fingerprint(job[c].token)
    THEN authorization.response ELSE None

\* The commit returns.  The caller knows what has happened when it is given a
\* matching result or a refusal; any other error leaves it in doubt.
CommitReturns(c) ==
    /\ job[c].pc = "commit"
    /\ \E outcome \in Outcomes :
         /\ Returns(c, outcome)
         /\ job' = [job EXCEPT ![c] =
                      IF outcome = "ok" /\ AuthorizationMatches(c, reply[c].body)
                      THEN [@ EXCEPT !.pc = "done", !.opened = OpenProviderResponse(c, reply[c].body)]
                      ELSE [@ EXCEPT !.pc = "stopped", !.doubt = job[c].doubt \/ outcome # "refused"]]
    /\ UNCHANGED commitVars

\* The caller gives its token up and starts over.
StartOver(c) ==
    /\ job[c].pc = "stopped"
    /\ job[c].kind \in Kinds
    /\ Preflight(c, [job[c] EXCEPT !.token = None, !.risked = job[c].doubt])
    /\ UNCHANGED commitVars

-----------------------------------------------------------------------------
(***************************************************************************)
(* Control, from how the clients use it and from what the README of the    *)
(* repository says: a token is short-lived and is the identity of its      *)
(* commit, which is applied only if the resource has not changed since the *)
(* preflight.  It may refuse any request.  An execution may be given the   *)
(* answer to another one.                                                  *)
(***************************************************************************)
Executions == {t \in Tokens : tokens[t] # None /\ tokens[t].kind = "execution"}
Executed == {t \in Executions : tokens[t].by # None}

ControlPreflights(m, to) ==
    \/ \E t \in Tokens :
         /\ tokens[t] = None /\ \A u \in 1..(t - 1) : tokens[u] # None
         /\ Cardinality({u \in 1..(t - 1) : tokens[u].kind = m.kind}) < MaxAlike
         /\ tokens' = [tokens EXCEPT ![t] = [kind |-> m.kind, what |-> m.what, by |-> None,
                                             revision |-> revision, version |-> version]]
         /\ Answer(to, {Success(t)})
         /\ UNCHANGED <<revision, version>>
    \/ /\ Answer(to, {Refusal, Success(None)}
                        \cup {Success(t) : t \in IF m.kind = "execution" THEN Executions ELSE {}})
       /\ UNCHANGED commitVars

\* The results that a commit may be given.
Results(t) ==
    IF tokens[t].kind = "execution"
    THEN {Success([token |-> u, response |-> v]) : u \in Executed \cup {t}, v \in Executed \cup {t, None}}
    ELSE {Success([token |-> t, response |-> None])}

ControlCommits(m, to) ==
    LET t == m.token IN
    \/ /\ tokens[t].by = None
       /\ tokens[t].revision = revision /\ tokens[t].version = version
       /\ tokens' = [tokens EXCEPT ![t].by = m.from]
       /\ revision' = IF tokens[t].kind = "links" THEN revision + 1 ELSE revision
       /\ version' = IF tokens[t].kind = "payload" THEN version + 1 ELSE version
       /\ Answer(to, Results(t))
    \/ /\ Answer(to, {Refusal} \cup IF tokens[t].by # None THEN Results(t) ELSE {})
       /\ UNCHANGED commitVars

=============================================================================
