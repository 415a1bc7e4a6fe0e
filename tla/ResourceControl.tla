-------------------------- MODULE ResourceControl ---------------------------
(***************************************************************************)
(* The changes of ResourceCommits and of DurableOperations on one          *)
(* resource: what one caller does makes the tokens and fences of the       *)
(* others stale.                                                           *)
(***************************************************************************)
EXTENDS DurableOperations

vars == <<job, httpVars, commitVars, operationVars>>

Init ==
    /\ job = [c \in Callers |-> NoJob]
    /\ HttpInit /\ CommitInit /\ OperationInit

\* Control handles a request.
Process(m, to) ==
    CASE m.op = "preflight" -> ControlPreflights(m, to) /\ UNCHANGED operationVars
      [] m.op = "commit" -> ControlCommits(m, to) /\ UNCHANGED operationVars
      [] m.op = "mutate" -> ControlMutates(m, to) /\ UNCHANGED commitVars
      [] m.op = "resource" -> /\ Answer(to, {Success(revision), Refusal})
                              /\ UNCHANGED <<commitVars, operationVars>>
      [] m.op = "operation" -> /\ Answer(to, {Success(ops[m.from].status), Refusal})
                               /\ UNCHANGED <<commitVars, operationVars>>

Serve(c) ==
    /\ asked[c] # None
    /\ Process(asked[c], c)
    /\ asked' = [asked EXCEPT ![c] = None]
    /\ UNCHANGED <<job, late>>

\* The answer is lost with its connection, and net/http sends the request again.
ServeAndResend(c) ==
    /\ asked[c] # None /\ Replayable(asked[c])
    /\ Process(asked[c], None)
    /\ UNCHANGED <<job, asked, late>>

ServeLate(m) ==
    /\ m \in late
    /\ Process(m, None)
    /\ late' = late \ {m}
    /\ UNCHANGED <<job, asked>>

Begin(c) ==
    \/ /\ \E kind \in Kinds, what \in Bodies \cup {None} : Start(c, kind, what)
       /\ UNCHANGED operationVars
    \/ ReadFence(c)

\* The goroutine that makes a call returns from its request, or sends the next.
Proceed(c) ==
    \/ (PreflightReturns(c) \/ SendResourceLinks(c) \/ CommitReturns(c)) /\ UNCHANGED operationVars
    \/ FenceReturns(c) \/ MutateReturns(c) \/ Poll(c) \/ PollReturns(c)

Next ==
    \/ \E c \in Callers :
         \/ Begin(c)
         \/ (Commit(c) \/ StartOver(c)) /\ UNCHANGED operationVars
         \/ Mutate(c) \/ ContextDone(c)
         \/ Proceed(c)
         \/ Serve(c) \/ ServeAndResend(c)
         \/ OperationAdvances(c)
    \/ \E m \in late : ServeLate(m)

Spec == Init /\ [][Next]_vars

\* A goroutine goes on once its request has been answered.  Nothing is assumed of
\* a request without an answer (http.DefaultClient has no timeout), of the
\* progress of an operation, or of the context's end.
FairSpec == Spec /\ \A c \in Callers : WF_vars(asked[c] = None /\ Proceed(c))

-----------------------------------------------------------------------------
\* A caller whose commits were all refused knows that its token is not
\* committed and will not be: a ControlError with a status below 500 comes from
\* an answer of Control only, and no request of the caller is still on its way
\* (request, CommitExecution, CommitResourceLinks, CommitResourcePayload).
RefusedMeansNotApplied ==
    \A c \in Callers :
        job[c].token # None /\ job[c].pc = "stopped" /\ ~job[c].doubt =>
            tokens[job[c].token].by # c

\* A change that a caller intends takes effect once, however often it commits
\* with one token, repeats a request with one key, or has it repeated by
\* net/http: only a caller that starts over in doubt can change the resource
\* twice (SendResourceLinks returns the preflight of a failed commit).
OncePerIntent ==
    \A c \in Callers :
        /\ Cardinality({t \in Tokens : tokens[t] # None /\ tokens[t].by = c}) > 1 => job[c].risked
        /\ made[c] <= 1

\* A provider response that a caller opens is the response to an execution of the
\* request it asked for, at the revision and the payload version of its
\* preflight, although others run executions and replace the payload meanwhile,
\* and answers are mixed up (PreflightExecution, CommitExecution,
\* OpenProviderResponse).  Two executions of one request in one state of the
\* resource have one fingerprint: which of them answers is not told apart.
OpenedIsItsOwn ==
    \A c \in Callers : job[c].opened # None =>
        LET executed == tokens[job[c].opened]
            preflight == tokens[job[c].token] IN
        /\ executed.by # None
        /\ executed.what = job[c].what
        /\ executed.revision = preflight.revision
        /\ executed.version = preflight.version

\* What WaitForOperation returns without an error is how the operation ended:
\* it is not going to change any more, and after a success the resource that
\* the caller reads has left the state its fence was for.
WaitTellsTheEnd ==
    \A c \in Callers : job[c].seen # None =>
        /\ job[c].seen \in Terminal
        /\ ops[c].status = job[c].seen
        /\ job[c].seen = "succeeded" => revision > job[c].fence

\* Every call returns unless a request of it is never answered, that of
\* WaitForOperation also when the operation never ends and the context is
\* never done (WaitForOperation, SendResourceLinks).
EveryCallReturns ==
    \A c \in Callers :
        \/ []<>(job[c].pc \in {"idle", "fenced", "stopped", "done"})
        \/ <>[](asked[c] # None)

=============================================================================
