----------------------- MODULE ResourceControlProofs ------------------------
(***************************************************************************)
(* The safety of ResourceControl for any number of callers, requests,      *)
(* tokens and attempts.                                                    *)
(***************************************************************************)
EXTENDS ResourceControl, FiniteSetTheorems, TLAPS

\* Where a caller waits for an answer, and where it is otherwise.
Waiting == {"preflight", "commit", "fence", "mutate", "poll"}
Locations == Waiting \cup {"idle", "send", "stopped", "fenced", "wait", "done"}

Statuses == {"none", "pending", "running", "newer"} \cup Terminal

JobRecords ==
    [kind : Kinds \cup {"lifecycle", None}, pc : Locations, what : Bodies \cup {None},
     token : Tokens \cup {None}, doubt : BOOLEAN, risked : BOOLEAN,
     opened : Tokens \cup {None}, fence : Nat \cup {None}, attempts : Nat,
     seen : Terminal \cup {None}]

TypeInv ==
    /\ job \in [Callers -> JobRecords]
    /\ asked = [c \in Callers |-> asked[c]]
    /\ reply = [c \in Callers |-> reply[c]]
    /\ tokens \in [Tokens -> Preflights \cup {None}]
    /\ revision \in Nat /\ version \in Nat
    /\ ops \in [Callers -> [status : Statuses, fence : Nat]]
    /\ made \in [Callers -> Nat]

\* A token that Control has given out.
Issued(t) == t \in Tokens /\ tokens[t] # None

\* A commit of the caller was applied to the resource.
Applied(c, t) == tokens[t] # None /\ tokens[t].by = c

\* The request under way is the one the caller's place calls for.
Requested(c) ==
    asked[c] # None =>
        /\ reply[c] = None
        /\ asked[c].from = c
        /\ \/ /\ job[c].pc = "preflight" /\ asked[c].op = "preflight"
              /\ asked[c].kind = job[c].kind /\ asked[c].what = job[c].what
           \/ /\ job[c].pc = "commit" /\ asked[c].op = "commit"
              /\ asked[c].token = job[c].token
           \/ job[c].pc = "fence" /\ asked[c].op = "resource"
           \/ /\ job[c].pc = "mutate" /\ asked[c].op = "mutate"
              /\ asked[c].key = c /\ asked[c].fence = job[c].fence
           \/ job[c].pc = "poll" /\ asked[c].op = "operation"

\* An answer with status 2xx, and what is true of it in the state in which it
\* waits to be read.
Succeeded(c) == reply[c] # None /\ reply[c].status = "2xx"

Answered(c) ==
    /\ reply[c] # None => job[c].pc \in Waiting
    /\ Succeeded(c) =>
         /\ job[c].pc = "preflight" => reply[c].body = None \/ Issued(reply[c].body)
         /\ job[c].pc = "commit" /\ reply[c].body.response # None =>
              Issued(reply[c].body.response) /\ tokens[reply[c].body.response].by # None
         /\ job[c].pc = "fence" => reply[c].body \in Nat /\ reply[c].body <= revision
         /\ job[c].pc = "poll" =>
              /\ reply[c].body \in Statuses
              /\ reply[c].body \in Terminal => ops[c].status = reply[c].body

\* The token of a job is one of its own request.
Committing(c) ==
    /\ job[c].pc = "idle" => job[c] = NoJob
    /\ job[c].pc = "preflight" => job[c].kind \in Kinds
    /\ job[c].pc \in {"send", "commit"} => job[c].token # None
    /\ job[c].token # None => Issued(job[c].token) /\ tokens[job[c].token].what = job[c].what

\* The answer to the caller's request says that it was carried out.
Told(c) == asked[c] = None /\ reply[c].status = "2xx"

\* A caller that is not in doubt has had nothing applied, except by a commit of
\* whose success it learns.  One that did not start over in doubt has had
\* nothing applied but the token it has.
Accounted(c) ==
    /\ job[c].risked => job[c].doubt
    /\ job[c].pc = "preflight" /\ job[c].doubt => job[c].risked
    /\ ~job[c].doubt /\ job[c].pc # "done" /\ ~(job[c].pc = "commit" /\ Told(c)) =>
         \A t \in Tokens : ~Applied(c, t)
    /\ ~job[c].risked => \A t \in Tokens : Applied(c, t) => t = job[c].token

\* The operation that the caller's requests have started has its fence.
Fenced(c) ==
    /\ job[c].pc \in {"idle", "fence"} => job[c].fence = None
    /\ job[c].pc \in {"fenced", "mutate", "wait", "poll"} => job[c].fence # None
    /\ made[c] = IF ops[c].status = "none" THEN 0 ELSE 1
    /\ ops[c].status # "none" => ops[c].fence = job[c].fence
    /\ ops[c].status = "succeeded" => ops[c].fence < revision

\* What a caller has opened or seen it keeps.
Ended(c) ==
    /\ job[c].opened # None =>
         /\ job[c].pc = "done" /\ job[c].token # None
         /\ Issued(job[c].opened)
         /\ tokens[job[c].opened].by # None
         /\ tokens[job[c].opened].what = tokens[job[c].token].what
         /\ tokens[job[c].opened].revision = tokens[job[c].token].revision
         /\ tokens[job[c].opened].version = tokens[job[c].token].version
    /\ job[c].seen # None =>
         /\ job[c].pc = "done"
         /\ ops[c].status = job[c].seen

\* A request whose caller has gone leaves that caller in doubt.
Late(m) ==
    /\ m.from \in Callers
    /\ \/ /\ m.op = "commit"
          /\ Issued(m.token)
          /\ job[m.from].doubt
          /\ ~job[m.from].risked => m.token = job[m.from].token
       \/ /\ m.op = "mutate"
          /\ m.key # None
          /\ m.fence # None /\ m.fence = job[m.from].fence

CallerInv(c) ==
    Requested(c) /\ Answered(c) /\ Committing(c) /\ Accounted(c) /\ Fenced(c) /\ Ended(c)

ControlInv ==
    /\ TypeInv
    /\ \A c \in Callers : CallerInv(c)
    /\ \A m \in late : Late(m)

-----------------------------------------------------------------------------
\* What a step of Control may do to the tokens and the revision.
Grows ==
    /\ revision' >= revision
    /\ \A t \in Tokens : tokens[t] # None =>
         /\ tokens'[t] # None
         /\ tokens'[t].what = tokens[t].what
         /\ tokens'[t].revision = tokens[t].revision /\ tokens'[t].version = tokens[t].version
         /\ tokens[t].by # None => tokens'[t].by # None

\* None is not a token, a caller, a revision or a preflight.
LEMMA NoneFacts ==
    /\ None \notin Callers /\ None \notin Nat /\ None \notin Tokens
    /\ None \notin Preflights /\ None \notin Bodies /\ None \notin Kinds
    /\ Tokens \subseteq Nat
BY CallersAssumption, CommitsAssumption DEF Tokens

\* A caller that a step does not concern keeps its invariant (the steps of other
\* callers, and of Control for them).
LEMMA CallerKept ==
    ASSUME TypeInv, TypeInv', NEW d \in Callers, CallerInv(d), Grows,
           job'[d] = job[d], asked'[d] = asked[d], reply'[d] = reply[d],
           ops'[d] = ops[d], made'[d] = made[d],
           \A t \in Tokens : Applied(d, t)' => Applied(d, t)
    PROVE  CallerInv(d)'
<1>1. Requested(d)'
  BY Zenon DEF CallerInv, Requested
<1>2. Answered(d)'
  BY DEF CallerInv, Answered, Succeeded, Issued, Grows, TypeInv
<1>3. Committing(d)'
  BY Zenon DEF CallerInv, Committing, Issued, Grows
<1>4. Accounted(d)'
  BY Zenon DEF CallerInv, Accounted, Told
<1>5. Fenced(d)'
  BY DEF CallerInv, Fenced, Grows, TypeInv
<1>6. Ended(d)'
  <2>1. Ended(d) /\ Committing(d)
    BY DEF CallerInv
  <2>2. CASE job[d].opened # None
    <3>1. job[d].opened \in Tokens /\ tokens[job[d].opened] # None
      BY <2>1, <2>2 DEF Ended, Issued
    <3>2. job[d].token \in Tokens /\ tokens[job[d].token] # None
      BY <2>1, <2>2 DEF Ended, Committing, Issued
    <3> QED BY <2>1, <2>2, <3>1, <3>2 DEF Ended, Issued, Grows
  <2>3. CASE job[d].opened = None
    BY <2>1, <2>3 DEF Ended
  <2> QED BY <2>2, <2>3
<1> QED BY <1>1, <1>2, <1>3, <1>4, <1>5, <1>6, Zenon DEF CallerInv

\* So does a request whose caller has gone.
LEMMA LateKept ==
    ASSUME TypeInv, Grows, NEW m, Late(m), job'[m.from] = job[m.from]
    PROVE  Late(m)'
BY Zenon DEF Late, Issued, Grows

\* A step of one caller keeps the invariant if it does so for that caller and for
\* the requests it leaves behind.
LEMMA CallerMoves ==
    ASSUME ControlInv, NEW c \in Callers,
           UNCHANGED <<commitVars, operationVars>>,
           job' = [job EXCEPT ![c] = job'[c]],
           asked' = [asked EXCEPT ![c] = asked'[c]],
           reply' = [reply EXCEPT ![c] = reply'[c]],
           job'[c] \in JobRecords,
           CallerInv(c)',
           \A m \in late' : (m \in late /\ m.from # c) \/ Late(m)'
    PROVE  ControlInv'
<1>1. TypeInv'
  <2>1. job' \in [Callers -> JobRecords]
    BY Zenon DEF ControlInv, TypeInv
  <2>2. asked' = [d \in Callers |-> asked'[d]] /\ reply' = [d \in Callers |-> reply'[d]]
    BY Zenon DEF ControlInv, TypeInv
  <2> QED BY <2>1, <2>2, Zenon DEF ControlInv, TypeInv, commitVars, operationVars
<1>2. Grows
  BY DEF ControlInv, TypeInv, Grows, commitVars
<1>3. ASSUME NEW d \in Callers, d # c PROVE CallerInv(d)'
  <2>1. job'[d] = job[d] /\ asked'[d] = asked[d] /\ reply'[d] = reply[d]
    BY <1>3, Zenon DEF ControlInv, TypeInv
  <2>2. \A t \in Tokens : Applied(d, t)' => Applied(d, t)
    BY Zenon DEF Applied, commitVars
  <2> QED BY <1>1, <1>2, <2>1, <2>2, CallerKept, Zenon DEF ControlInv, operationVars
<1>4. ASSUME NEW m \in late' PROVE Late(m)'
  <2>1. CASE m \in late /\ m.from # c
    <3>1. Late(m) /\ m.from \in Callers
      BY <2>1, Zenon DEF ControlInv, Late
    <3>2. job'[m.from] = job[m.from]
      BY <2>1, <3>1, Zenon DEF ControlInv, TypeInv
    <3> QED BY <1>2, <3>1, <3>2, LateKept, Zenon DEF ControlInv
  <2> QED BY <1>4, <2>1, Zenon
<1> QED BY <1>1, <1>3, <1>4, Zenon DEF ControlInv

\* A caller that has not begun has nothing under way and nothing to account for.
LEMMA IdleFacts ==
    ASSUME ControlInv, NEW c \in Callers, job[c].pc = "idle"
    PROVE  /\ job[c] = NoJob /\ reply[c] = None
           /\ ops[c].status = "none" /\ made[c] = 0
           /\ \A t \in Tokens : ~Applied(c, t)
           /\ \A m \in late : m.from # c
<1>1. job[c] = NoJob /\ reply[c] = None
  BY Zenon DEF ControlInv, CallerInv, Committing, Answered, Waiting
<1>2. ops[c].status = "none" /\ made[c] = 0
  BY <1>1, NoneFacts DEF ControlInv, TypeInv, CallerInv, Fenced, NoJob
<1>3. \A t \in Tokens : ~Applied(c, t)
  BY <1>1 DEF ControlInv, CallerInv, Accounted, NoJob
<1>4. \A m \in late : m.from # c
  BY <1>1 DEF ControlInv, Late, NoJob
<1> QED BY <1>1, <1>2, <1>3, <1>4, Zenon

\* A caller sends the first preflight of a change.
LEMMA StartStep ==
    ASSUME ControlInv, NEW c \in Callers, NEW kind \in Kinds, NEW what \in Bodies \cup {None},
           Start(c, kind, what), UNCHANGED operationVars
    PROVE  ControlInv'
<1>1. /\ job'[c] = [kind |-> kind, pc |-> "preflight", what |-> what, token |-> None,
                    doubt |-> FALSE, risked |-> FALSE, opened |-> None,
                    fence |-> None, attempts |-> 0, seen |-> None]
      /\ job' = [job EXCEPT ![c] = job'[c]]
  BY Zenon DEF Start, Preflight, ControlInv, TypeInv, NoJob
<1>2. /\ asked'[c] = [op |-> "preflight", from |-> c, kind |-> kind, what |-> what]
      /\ asked' = [asked EXCEPT ![c] = asked'[c]]
  BY Zenon DEF Start, Preflight, Send, ControlInv, TypeInv, NoJob
<1>3. reply' = reply /\ late' = late /\ UNCHANGED commitVars /\ job[c].pc = "idle"
  BY Zenon DEF Start, Preflight, Send
<1>4. job'[c] \in JobRecords
  BY <1>1 DEF JobRecords, Locations, Waiting
<1>5. CallerInv(c)'
  <2>1. Requested(c)' /\ Answered(c)'
    BY <1>1, <1>2, <1>3, IdleFacts DEF Requested, Answered, Succeeded
  <2>2. Committing(c)' /\ Ended(c)'
    BY <1>1 DEF Committing, Ended
  <2>3. Accounted(c)' /\ Fenced(c)'
    BY <1>1, <1>3, IdleFacts DEF Accounted, Applied, Fenced, commitVars, operationVars
  <2> QED BY <2>1, <2>2, <2>3, Zenon DEF CallerInv
<1> QED BY <1>1, <1>2, <1>3, <1>4, <1>5, IdleFacts, CallerMoves, Zenon DEF ControlInv, TypeInv

\* A caller reads its fence.
LEMMA ReadFenceStep ==
    ASSUME ControlInv, NEW c \in Callers, ReadFence(c)
    PROVE  ControlInv'
<1>1. /\ job'[c] = [kind |-> "lifecycle", pc |-> "fence", what |-> None, token |-> None,
                    doubt |-> FALSE, risked |-> FALSE, opened |-> None,
                    fence |-> None, attempts |-> 0, seen |-> None]
      /\ job' = [job EXCEPT ![c] = job'[c]]
  BY Zenon DEF ReadFence, ControlInv, TypeInv, NoJob
<1>2. /\ asked'[c] = [op |-> "resource", from |-> c]
      /\ asked' = [asked EXCEPT ![c] = asked'[c]]
  BY Zenon DEF ReadFence, Send, ControlInv, TypeInv
<1>3. /\ reply' = reply /\ late' = late /\ UNCHANGED <<commitVars, operationVars>>
      /\ job[c].pc = "idle"
  BY Zenon DEF ReadFence, Send
<1>4. job'[c] \in JobRecords
  BY <1>1 DEF JobRecords, Locations, Waiting
<1>5. CallerInv(c)'
  <2>1. Requested(c)' /\ Answered(c)'
    BY <1>1, <1>2, <1>3, IdleFacts DEF Requested, Answered, Succeeded
  <2>2. Committing(c)' /\ Ended(c)'
    BY <1>1 DEF Committing, Ended
  <2>3. Accounted(c)' /\ Fenced(c)'
    BY <1>1, <1>3, IdleFacts DEF Accounted, Applied, Fenced, commitVars, operationVars
  <2> QED BY <2>1, <2>2, <2>3, Zenon DEF CallerInv
<1> QED BY <1>1, <1>2, <1>3, <1>4, <1>5, IdleFacts, CallerMoves, Zenon DEF ControlInv, TypeInv

\* A caller that does not wait has no request under way and no answer to read.
LEMMA QuietFacts ==
    ASSUME ControlInv, NEW c \in Callers, job[c].pc \notin Waiting
    PROVE  asked[c] = None /\ reply[c] = None
BY Zenon DEF ControlInv, CallerInv, Requested, Answered, Waiting

\* A caller commits with its token, in SendResourceLinks or by itself.
LEMMA CommitsStep ==
    ASSUME ControlInv, NEW c \in Callers, Commits(c), UNCHANGED operationVars,
           job[c].pc \in {"send", "stopped"}, job[c].token # None
    PROVE  ControlInv'
<1>1. /\ job'[c] = [job[c] EXCEPT !.pc = "commit"]
      /\ job' = [job EXCEPT ![c] = job'[c]]
  BY Zenon DEF Commits, ControlInv, TypeInv
<1>2. /\ asked'[c] = [op |-> "commit", from |-> c, token |-> job[c].token]
      /\ asked' = [asked EXCEPT ![c] = asked'[c]]
  BY Zenon DEF Commits, CommitRequest, Send, ControlInv, TypeInv
<1>3. reply' = reply /\ late' = late /\ UNCHANGED commitVars
  BY Zenon DEF Commits, Send
<1>4. reply[c] = None
  BY QuietFacts, Zenon DEF Waiting
<1>5. job[c] \in JobRecords
  BY Zenon DEF ControlInv, TypeInv
<1>6. job'[c] \in JobRecords
  BY <1>1, <1>5, Zenon DEF JobRecords, Locations, Waiting
<1>7. CallerInv(c) /\ \A t \in Tokens : Applied(c, t)' <=> Applied(c, t)
  BY <1>3, Zenon DEF ControlInv, Applied, commitVars
<1>8. CallerInv(c)'
  <2>1. Requested(c)' /\ Answered(c)'
    BY <1>1, <1>2, <1>3, <1>4, <1>5 DEF Requested, Answered, Succeeded, JobRecords
  <2>2. Committing(c)' /\ Ended(c)'
    BY <1>1, <1>3, <1>5, <1>7, Zenon DEF Committing, Ended, CallerInv, JobRecords, Issued, commitVars
  <2>3. Accounted(c)'
    BY <1>1, <1>5, <1>7, Zenon DEF Accounted, CallerInv, JobRecords
  <2>4. Fenced(c)'
    BY <1>1, <1>3, <1>5, <1>7, Zenon DEF Fenced, CallerInv, JobRecords, commitVars, operationVars
  <2> QED BY <2>1, <2>2, <2>3, <2>4, Zenon DEF CallerInv
<1>9. ASSUME NEW m \in late', m.from = c PROVE Late(m)'
  BY <1>1, <1>3, <1>5, <1>9 DEF ControlInv, Late, Issued, JobRecords, commitVars
<1> QED BY <1>1, <1>2, <1>3, <1>6, <1>8, <1>9, CallerMoves, Zenon DEF ControlInv, TypeInv

\* What a step leaves of the change that a caller commits, and of the operation
\* that it waits for.
SameCommit(j, k) ==
    /\ k.what = j.what /\ k.token = j.token /\ k.doubt = j.doubt
    /\ k.risked = j.risked /\ k.opened = j.opened
SameWait(j, k) == k.fence = j.fence /\ k.seen = j.seen

\* A caller gives its token up and starts over.
LEMMA StartOverStep ==
    ASSUME ControlInv, NEW c \in Callers, StartOver(c), UNCHANGED operationVars
    PROVE  ControlInv'
<1>1. job[c] \in JobRecords /\ CallerInv(c) /\ job[c].pc = "stopped" /\ job[c].kind \in Kinds
  BY Zenon DEF ControlInv, TypeInv, StartOver
<1>2. /\ job'[c] = [[job[c] EXCEPT !.token = None, !.risked = job[c].doubt] EXCEPT !.pc = "preflight"]
      /\ job' = [job EXCEPT ![c] = job'[c]]
  BY Zenon DEF StartOver, Preflight, ControlInv, TypeInv
<1>5. /\ job'[c] \in JobRecords /\ job'[c].pc = "preflight" /\ job'[c].kind = job[c].kind /\ job'[c].what = job[c].what
      /\ job'[c].token = None /\ job'[c].doubt = job[c].doubt /\ job'[c].risked = job[c].doubt
      /\ job'[c].opened = job[c].opened /\ SameWait(job[c], job'[c])
  <2> DEFINE h == [job[c] EXCEPT !.token = None]
             k == [h EXCEPT !.risked = job[c].doubt]
  <2>1. /\ h \in JobRecords /\ h.token = None /\ h.kind = job[c].kind /\ h.what = job[c].what
        /\ h.doubt = job[c].doubt /\ h.opened = job[c].opened /\ SameWait(job[c], h)
    BY <1>1, Zenon DEF JobRecords, SameWait
  <2> HIDE DEF h
  <2>2. /\ k \in JobRecords /\ k.token = None /\ k.kind = h.kind /\ k.what = h.what
        /\ k.doubt = h.doubt /\ k.risked = h.doubt /\ k.opened = h.opened /\ SameWait(h, k)
    BY <1>1, <2>1, Zenon DEF JobRecords, SameWait
  <2>3. job'[c] = [k EXCEPT !.pc = "preflight"]
    BY <1>2, Zenon DEF h
  <2> HIDE DEF k
  <2> QED BY <2>1, <2>2, <2>3, Zenon DEF JobRecords, Locations, Waiting, SameWait
<1>6. /\ asked'[c] = [op |-> "preflight", from |-> c, kind |-> job[c].kind, what |-> job[c].what]
      /\ asked' = [asked EXCEPT ![c] = asked'[c]]
  BY <1>1, Zenon DEF StartOver, Preflight, Send, ControlInv, TypeInv, JobRecords
<1>7. /\ reply' = reply /\ late' = late /\ UNCHANGED commitVars /\ reply[c] = None
      /\ \A t \in Tokens : Applied(c, t)' <=> Applied(c, t)
  BY <1>1, QuietFacts, Zenon DEF StartOver, Preflight, Send, Waiting, Applied, commitVars
<1>8. CallerInv(c)'
  <2>1. Requested(c)' /\ Answered(c)'
    BY <1>5, <1>6, <1>7 DEF Requested, Answered, Succeeded
  <2>2. Committing(c)' /\ Ended(c)'
    BY <1>1, <1>5, Zenon DEF CallerInv, Committing, Ended, SameWait
  <2>3. Accounted(c)'
    BY <1>1, <1>5, <1>7, Zenon DEF CallerInv, Accounted
  <2>4. Fenced(c)'
    BY <1>1, <1>5, <1>7, Zenon DEF CallerInv, Fenced, SameWait, commitVars, operationVars
  <2> QED BY <2>1, <2>2, <2>3, <2>4, Zenon DEF CallerInv
<1>9. ASSUME NEW m \in late', m.from = c PROVE Late(m)'
  BY <1>5, <1>7, <1>9, Zenon DEF ControlInv, Late, Issued, SameWait, commitVars
<1> QED BY <1>2, <1>5, <1>6, <1>7, <1>8, <1>9, CallerMoves, Zenon DEF ControlInv, TypeInv

\* A step of a lifecycle change keeps the invariant if what it changes fits: the
\* answer it takes, its fence, what it has seen and the request it leaves behind.
LEMMA LifecycleMoves ==
    ASSUME ControlInv, NEW c \in Callers, UNCHANGED <<commitVars, operationVars>>,
           job[c].pc \in {"fence", "fenced", "mutate", "wait", "poll"},
           job'[c].pc \in {"fenced", "mutate", "wait", "poll", "done"},
           job' = [job EXCEPT ![c] = job'[c]],
           asked' = [asked EXCEPT ![c] = asked'[c]],
           reply' = [reply EXCEPT ![c] = reply'[c]],
           job'[c] \in JobRecords,
           SameCommit(job[c], job'[c]),
           job[c].pc # "fence" => job'[c].fence = job[c].fence,
           job'[c].pc # "done" => job'[c].fence # None,
           job'[c].seen # None => job'[c].pc = "done" /\ ops[c].status = job'[c].seen,
           Requested(c)', Answered(c)',
           \A m \in late' : \/ m \in late
                            \/ /\ m.from = c /\ m.op = "mutate" /\ m.key # None
                               /\ m.fence # None /\ m.fence = job'[c].fence
    PROVE  ControlInv'
<1>1. /\ job[c] \in JobRecords /\ CallerInv(c)
      /\ ops[c].fence # None
      /\ \A t \in Tokens : Applied(c, t)' <=> Applied(c, t)
  BY NoneFacts DEF ControlInv, TypeInv, Applied, commitVars
<1>2. Committing(c)'
  BY <1>1, Zenon DEF CallerInv, Committing, Issued, SameCommit, commitVars
<1>3. Accounted(c)'
  BY <1>1, Zenon DEF CallerInv, Accounted, SameCommit
<1>4. Fenced(c)'
  BY <1>1, Zenon DEF CallerInv, Fenced, commitVars, operationVars
<1>5. Ended(c)'
  BY <1>1, Zenon DEF CallerInv, Ended, SameCommit, commitVars, operationVars
<1>6. ASSUME NEW m \in late', ~(m \in late /\ m.from # c) PROVE Late(m)'
  <2>1. CASE m \in late
    BY <1>1, <1>6, <2>1 DEF ControlInv, CallerInv, Fenced, Late, Issued, SameCommit, commitVars
  <2> QED BY <1>6, <2>1, Zenon DEF Late
<1> QED BY <1>2, <1>3, <1>4, <1>5, <1>6, CallerMoves, Zenon DEF CallerInv

\* The steps of a lifecycle change that send a request, or end the wait.
LEMMA MutateStep ==
    ASSUME ControlInv, NEW c \in Callers, Mutate(c)
    PROVE  ControlInv'
<1>1. job[c] \in JobRecords /\ CallerInv(c) /\ job[c].pc = "fenced"
  BY Zenon DEF ControlInv, TypeInv, Mutate
<1>2. job'[c] = [job[c] EXCEPT !.pc = "mutate"] /\ job' = [job EXCEPT ![c] = job'[c]]
  BY Zenon DEF Mutate, ControlInv, TypeInv
<1>3. /\ job'[c] \in JobRecords /\ job'[c].pc = "mutate"
      /\ SameCommit(job[c], job'[c]) /\ SameWait(job[c], job'[c])
  BY <1>1, <1>2, Zenon DEF JobRecords, Locations, Waiting, SameCommit, SameWait
<1>4. /\ asked'[c] = [op |-> "mutate", from |-> c, key |-> c, fence |-> job[c].fence]
      /\ asked' = [asked EXCEPT ![c] = asked'[c]]
      /\ reply' = reply /\ late' = late /\ UNCHANGED <<commitVars, operationVars>>
  BY Zenon DEF Mutate, OperationRequest, Send, ControlInv, TypeInv
<1>5. reply[c] = None /\ reply' = [reply EXCEPT ![c] = reply'[c]]
  BY <1>1, <1>4, QuietFacts, Zenon DEF Waiting, ControlInv, TypeInv
<1>6. Requested(c)' /\ Answered(c)'
  BY <1>3, <1>4, <1>5 DEF Requested, Answered, Succeeded, SameWait
<1>7. job[c].fence # None /\ (job[c].seen # None => FALSE)
  BY <1>1, Zenon DEF CallerInv, Fenced, Ended
<1> QED BY <1>1, <1>2, <1>3, <1>4, <1>5, <1>6, <1>7, LifecycleMoves, Zenon DEF SameWait

\* WaitForOperation asks for the operation.
LEMMA PollStep ==
    ASSUME ControlInv, NEW c \in Callers, Poll(c)
    PROVE  ControlInv'
<1>1. job[c] \in JobRecords /\ CallerInv(c) /\ job[c].pc = "wait"
  BY Zenon DEF ControlInv, TypeInv, Poll
<1>2. /\ job'[c] = [job[c] EXCEPT !.pc = "poll", !.attempts = job[c].attempts + 1]
      /\ job' = [job EXCEPT ![c] = job'[c]]
  BY Zenon DEF Poll, ControlInv, TypeInv
<1>4. /\ job'[c] \in JobRecords /\ job'[c].pc = "poll"
      /\ SameCommit(job[c], job'[c]) /\ SameWait(job[c], job'[c])
  <2> DEFINE k == [job[c] EXCEPT !.pc = "poll"]
  <2>1. /\ k \in JobRecords /\ k.pc = "poll"
        /\ SameCommit(job[c], k) /\ SameWait(job[c], k)
    BY <1>1, Zenon DEF JobRecords, Locations, Waiting, SameCommit, SameWait
  <2>2. job'[c] = [k EXCEPT !.attempts = job[c].attempts + 1]
    BY <1>2, Zenon
  <2> HIDE DEF k
  <2> QED BY <1>1, <2>1, <2>2 DEF JobRecords, Locations, Waiting, SameCommit, SameWait
<1>5. /\ asked'[c] = [op |-> "operation", from |-> c]
      /\ asked' = [asked EXCEPT ![c] = asked'[c]]
      /\ reply' = reply /\ late' = late /\ UNCHANGED <<commitVars, operationVars>>
  BY Zenon DEF Poll, Send, ControlInv, TypeInv
<1>6. reply[c] = None /\ reply' = [reply EXCEPT ![c] = reply'[c]]
  BY <1>1, <1>5, QuietFacts, Zenon DEF Waiting, ControlInv, TypeInv
<1>7. Requested(c)' /\ Answered(c)'
  BY <1>4, <1>5, <1>6 DEF Requested, Answered, Succeeded, SameWait
<1>8. job[c].fence # None /\ (job[c].seen # None => FALSE)
  BY <1>1, Zenon DEF CallerInv, Fenced, Ended
<1> QED BY <1>1, <1>2, <1>4, <1>5, <1>6, <1>7, <1>8, LifecycleMoves, Zenon DEF SameWait

\* WaitForOperation gives up between two requests.
LEMMA ContextDoneStep ==
    ASSUME ControlInv, NEW c \in Callers, ContextDone(c)
    PROVE  ControlInv'
<1>1. job[c] \in JobRecords /\ CallerInv(c) /\ job[c].pc = "wait"
  BY Zenon DEF ControlInv, TypeInv, ContextDone
<1>2. /\ job'[c] = [job[c] EXCEPT !.pc = "done", !.attempts = 0]
      /\ job' = [job EXCEPT ![c] = job'[c]]
  BY Zenon DEF ContextDone, ControlInv, TypeInv
<1>4. /\ job'[c] \in JobRecords /\ job'[c].pc = "done"
      /\ SameCommit(job[c], job'[c]) /\ SameWait(job[c], job'[c])
  <2> DEFINE k == [job[c] EXCEPT !.pc = "done"]
  <2>1. /\ k \in JobRecords /\ k.pc = "done"
        /\ SameCommit(job[c], k) /\ SameWait(job[c], k)
    BY <1>1, Zenon DEF JobRecords, Locations, Waiting, SameCommit, SameWait
  <2>2. job'[c] = [k EXCEPT !.attempts = 0]
    BY <1>2, Zenon
  <2> HIDE DEF k
  <2> QED BY <1>1, <2>1, <2>2 DEF JobRecords, Locations, Waiting, SameCommit, SameWait
<1>5. /\ asked[c] = None /\ reply[c] = None
      /\ asked' = asked /\ reply' = reply /\ late' = late
      /\ asked' = [asked EXCEPT ![c] = asked'[c]] /\ reply' = [reply EXCEPT ![c] = reply'[c]]
      /\ UNCHANGED <<commitVars, operationVars>>
  BY <1>1, QuietFacts, Zenon DEF ContextDone, httpVars, Waiting, ControlInv, TypeInv
<1>6. Requested(c)' /\ Answered(c)'
  BY <1>5, Zenon DEF Requested, Answered, Succeeded, SameWait
<1>7. job[c].seen # None => FALSE
  BY <1>1, Zenon DEF CallerInv, Ended
<1> QED BY <1>1, <1>2, <1>4, <1>5, <1>6, <1>7, LifecycleMoves, Zenon DEF SameWait

\* A request returns: with a success or a refusal that is the answer to it, or
\* with an error, when the request may be left behind.
LEMMA ReturnsFacts ==
    ASSUME ControlInv, NEW c \in Callers, NEW outcome \in Outcomes, Returns(c, outcome)
    PROVE  /\ asked' = [asked EXCEPT ![c] = asked'[c]] /\ asked'[c] = None
           /\ reply' = [reply EXCEPT ![c] = reply'[c]] /\ reply'[c] = None
           /\ Requested(c)' /\ Answered(c)'
           /\ outcome = "ok" => Succeeded(c)
           /\ outcome = "refused" => ~Told(c) /\ asked[c] = None
           /\ outcome # "error" => late' = late
           /\ \A m \in late' : m \in late \/ (m = asked[c] /\ asked[c] # None /\ Changes(m))
<1>1. CallerInv(c) /\ Requested(c)
  BY Zenon DEF ControlInv, CallerInv
<1>2. CASE /\ asked[c] # None /\ outcome = "error"
           /\ late' \in {late} \cup (IF Changes(asked[c]) THEN {late \cup {asked[c]}} ELSE {})
           /\ asked' = [asked EXCEPT ![c] = None] /\ UNCHANGED reply
  <2>1. reply[c] = None /\ asked'[c] = None /\ reply'[c] = None
    BY <1>1, <1>2, Zenon DEF Requested, ControlInv, TypeInv
  <2>2. Requested(c)' /\ Answered(c)'
    BY <2>1, Zenon DEF Requested, Answered, Succeeded
  <2>3. reply' = [reply EXCEPT ![c] = reply'[c]] /\ asked' = [asked EXCEPT ![c] = asked'[c]]
    BY <1>2, <2>1, Zenon DEF ControlInv, TypeInv
  <2>4. \A m \in late' : m \in late \/ (m = asked[c] /\ asked[c] # None /\ Changes(m))
    BY <1>2, Zenon
  <2> QED BY <1>2, <2>1, <2>2, <2>3, <2>4, Zenon
<1>3. CASE /\ reply[c] # None /\ outcome \in Reports(reply[c])
           /\ reply' = [reply EXCEPT ![c] = None] /\ UNCHANGED <<asked, late>>
  <2>1. asked[c] = None /\ asked'[c] = None /\ reply'[c] = None
    BY <1>1, <1>3, Zenon DEF Requested, ControlInv, TypeInv
  <2>2. Requested(c)' /\ Answered(c)'
    BY <2>1, Zenon DEF Requested, Answered, Succeeded
  <2>3. reply' = [reply EXCEPT ![c] = reply'[c]] /\ asked' = [asked EXCEPT ![c] = asked'[c]]
    BY <1>3, <2>1, Zenon DEF ControlInv, TypeInv
  <2>4. (outcome = "ok" => Succeeded(c)) /\ (outcome = "refused" => ~Told(c))
    BY <1>3, Zenon DEF Reports, Succeeded, Told
  <2> QED BY <1>3, <2>1, <2>2, <2>3, <2>4, Zenon
<1> QED BY <1>2, <1>3, Zenon DEF Returns

\* GetResource returns with the fence, or fails.
LEMMA FenceReturnsStep ==
    ASSUME ControlInv, NEW c \in Callers, FenceReturns(c)
    PROVE  ControlInv'
<1>1. job[c] \in JobRecords /\ CallerInv(c) /\ job[c].pc = "fence" /\ UNCHANGED <<commitVars, operationVars>>
  BY Zenon DEF ControlInv, TypeInv, FenceReturns
<1>2. PICK outcome \in Outcomes :
         /\ Returns(c, outcome)
         /\ job' = [job EXCEPT ![c] = IF outcome = "ok"
                                      THEN [job[c] EXCEPT !.pc = "fenced", !.fence = reply[c].body]
                                      ELSE [job[c] EXCEPT !.pc = "done"]]
  BY Zenon DEF FenceReturns
<1>3. job' = [job EXCEPT ![c] = job'[c]]
  BY <1>2, Zenon DEF ControlInv, TypeInv
<1>4. /\ job'[c] \in JobRecords /\ SameCommit(job[c], job'[c]) /\ job'[c].seen = job[c].seen
      /\ \/ job'[c].pc = "fenced" /\ job'[c].fence # None
         \/ job'[c].pc = "done"
  <2>1. CASE outcome = "ok"
    <3> DEFINE k == [job[c] EXCEPT !.pc = "fenced"]
    <3>1. reply[c].body \in Nat /\ reply[c].body # None
      BY <1>1, <1>2, <2>1, ReturnsFacts, NoneFacts, Zenon DEF CallerInv, Answered
    <3>2. k \in JobRecords /\ k.pc = "fenced" /\ SameCommit(job[c], k) /\ k.seen = job[c].seen
      BY <1>1, Zenon DEF JobRecords, Locations, Waiting, SameCommit
    <3>3. job'[c] = [k EXCEPT !.fence = reply[c].body]
      BY <1>2, <2>1, Zenon DEF ControlInv, TypeInv
    <3> HIDE DEF k
    <3> QED BY <3>1, <3>2, <3>3, Zenon DEF JobRecords, SameCommit
  <2>2. CASE outcome # "ok"
    <3>1. job'[c] = [job[c] EXCEPT !.pc = "done"]
      BY <1>2, <2>2, Zenon DEF ControlInv, TypeInv
    <3> QED BY <1>1, <3>1, Zenon DEF JobRecords, Locations, Waiting, SameCommit
  <2> QED BY <2>1, <2>2, Zenon
<1>5. \A m \in late' : m \in late
  BY <1>1, <1>2, ReturnsFacts, Zenon DEF CallerInv, Requested, Changes
<1>6. job[c].seen # None => FALSE
  BY <1>1, Zenon DEF CallerInv, Ended
<1> QED BY <1>1, <1>2, <1>3, <1>4, <1>5, <1>6, ReturnsFacts, LifecycleMoves, Zenon

\* The request of a lifecycle change returns.
LEMMA MutateReturnsStep ==
    ASSUME ControlInv, NEW c \in Callers, MutateReturns(c)
    PROVE  ControlInv'
<1>1. job[c] \in JobRecords /\ CallerInv(c) /\ job[c].pc = "mutate" /\ UNCHANGED <<commitVars, operationVars>>
  BY Zenon DEF ControlInv, TypeInv, MutateReturns
<1>2. PICK outcome \in Outcomes, pc \in {"wait", "done", "fenced"} :
         Returns(c, outcome) /\ job' = [job EXCEPT ![c].pc = pc]
  BY Zenon DEF MutateReturns, Outcomes
<1>3. job'[c] = [job[c] EXCEPT !.pc = pc] /\ job' = [job EXCEPT ![c] = job'[c]]
  BY <1>2, Zenon DEF ControlInv, TypeInv
<1>4. /\ job'[c] \in JobRecords /\ job'[c].pc = pc
      /\ SameCommit(job[c], job'[c]) /\ SameWait(job[c], job'[c])
  BY <1>1, <1>3 DEF JobRecords, Locations, Waiting, SameCommit, SameWait
<1>5. job[c].fence # None /\ (job[c].seen # None => FALSE)
  BY <1>1, Zenon DEF CallerInv, Fenced, Ended
<1>6. \A m \in late' : \/ m \in late
                       \/ /\ m.from = c /\ m.op = "mutate" /\ m.key # None
                          /\ m.fence # None /\ m.fence = job[c].fence
  BY <1>1, <1>2, <1>5, ReturnsFacts, NoneFacts DEF CallerInv, Requested
<1>7. /\ job'[c].pc \in {"fenced", "mutate", "wait", "poll", "done"}
      /\ job'[c].fence = job[c].fence /\ job'[c].seen = job[c].seen
  BY <1>4, Zenon DEF SameWait
<1>8. /\ asked' = [asked EXCEPT ![c] = asked'[c]] /\ reply' = [reply EXCEPT ![c] = reply'[c]]
      /\ Requested(c)' /\ Answered(c)'
  BY <1>2, ReturnsFacts, Zenon
<1> QED BY <1>1, <1>3, <1>4, <1>5, <1>6, <1>7, <1>8, LifecycleMoves, Zenon

\* A request of WaitForOperation returns.
LEMMA PollReturnsStep ==
    ASSUME ControlInv, NEW c \in Callers, PollReturns(c)
    PROVE  ControlInv'
<1>1. job[c] \in JobRecords /\ CallerInv(c) /\ job[c].pc = "poll" /\ UNCHANGED <<commitVars, operationVars>>
  BY Zenon DEF ControlInv, TypeInv, PollReturns
<1>2. PICK outcome \in Outcomes :
         /\ Returns(c, outcome)
         /\ job' = [job EXCEPT ![c] =
              IF outcome = "ok" /\ Finished(reply[c].body)
              THEN [job[c] EXCEPT !.pc = "done", !.attempts = 0, !.seen = reply[c].body]
              ELSE IF outcome = "ok" /\ reply[c].body \in {"pending", "running"} /\ AttemptsLeft(c)
              THEN [job[c] EXCEPT !.pc = "wait"]
              ELSE [job[c] EXCEPT !.pc = "done", !.attempts = 0]]
  BY Zenon DEF PollReturns
<1>3. job' = [job EXCEPT ![c] = job'[c]]
  BY <1>2, Zenon DEF ControlInv, TypeInv
<1>4. job[c].fence # None /\ (job[c].seen # None => FALSE)
  BY <1>1, Zenon DEF CallerInv, Fenced, Ended
<1> DEFINE h == [job[c] EXCEPT !.pc = "done"]
           k == [h EXCEPT !.attempts = 0]
<1>5. /\ h \in JobRecords /\ h.pc = "done"
      /\ SameCommit(job[c], h) /\ SameWait(job[c], h)
  BY <1>1, Zenon DEF JobRecords, Locations, Waiting, SameCommit, SameWait
<1>6. /\ k \in JobRecords /\ k.pc = "done"
      /\ SameCommit(job[c], k) /\ SameWait(job[c], k)
  <2> HIDE DEF h
  <2> QED BY <1>5, Zenon DEF JobRecords, SameCommit, SameWait
<1>7. /\ job'[c] \in JobRecords /\ SameCommit(job[c], job'[c]) /\ job'[c].fence = job[c].fence
      /\ job'[c].pc \in {"wait", "done"}
      /\ job'[c].seen # None => job'[c].pc = "done" /\ ops[c].status = job'[c].seen
  <2>1. CASE outcome = "ok" /\ Finished(reply[c].body)
    <3>1. reply[c].body \in Terminal /\ ops[c].status = reply[c].body
      BY <1>1, <1>2, <2>1, ReturnsFacts, Zenon DEF CallerInv, Answered, Finished
    <3>2. job'[c] = [k EXCEPT !.seen = reply[c].body]
      BY <1>2, <2>1, Zenon DEF ControlInv, TypeInv
    <3> HIDE DEF k
    <3> QED BY <1>6, <3>1, <3>2, Zenon DEF JobRecords, SameCommit, SameWait
  <2>2. CASE job'[c] = [job[c] EXCEPT !.pc = "wait"]
    BY <1>1, <1>4, <2>2, Zenon DEF JobRecords, Locations, Waiting, SameCommit
  <2>3. CASE job'[c] = k
    <3> HIDE DEF k
    <3> QED BY <1>4, <1>6, <2>3, Zenon DEF SameWait
  <2> QED BY <1>2, <2>1, <2>2, <2>3, Zenon DEF ControlInv, TypeInv
<1>8. \A m \in late' : m \in late
  BY <1>1, <1>2, ReturnsFacts, Zenon DEF CallerInv, Requested, Changes
<1> HIDE DEF h, k
<1> QED BY <1>1, <1>2, <1>3, <1>4, <1>7, <1>8, ReturnsFacts, LifecycleMoves, Zenon

\* A preflight returns: with the token of the request it was sent for, or none.
LEMMA PreflightReturnsStep ==
    ASSUME ControlInv, NEW c \in Callers, PreflightReturns(c), UNCHANGED operationVars
    PROVE  ControlInv'
<1>1. job[c] \in JobRecords /\ CallerInv(c) /\ job[c].pc = "preflight" /\ UNCHANGED commitVars
  BY Zenon DEF ControlInv, TypeInv, PreflightReturns
<1>2. PICK outcome \in Outcomes :
         /\ Returns(c, outcome)
         /\ job' = [job EXCEPT ![c] =
              IF outcome = "ok" /\ reply[c].body # None /\ PreflightMatches(c, reply[c].body)
              THEN [job[c] EXCEPT !.pc = IF job[c].kind = "links" THEN "send" ELSE "stopped",
                                  !.token = reply[c].body]
              ELSE [job[c] EXCEPT !.pc = "stopped"]]
  BY Zenon DEF PreflightReturns
<1>3. job' = [job EXCEPT ![c] = job'[c]]
  BY <1>2, Zenon DEF ControlInv, TypeInv
<1>4. /\ job'[c] \in JobRecords /\ job'[c].what = job[c].what
      /\ job'[c].doubt = job[c].doubt /\ job'[c].risked = job[c].risked
      /\ job'[c].opened = job[c].opened /\ SameWait(job[c], job'[c])
      /\ job'[c].pc \in {"send", "stopped"}
      /\ job'[c].pc = "send" => job'[c].token # None
      /\ job'[c].token # None => Issued(job'[c].token) /\ tokens[job'[c].token].what = job[c].what
  <2>1. CASE outcome = "ok" /\ reply[c].body # None /\ PreflightMatches(c, reply[c].body)
    <3> DEFINE p == IF job[c].kind = "links" THEN "send" ELSE "stopped"
               k == [job[c] EXCEPT !.pc = p]
    <3>1. /\ reply[c].body \in Tokens /\ Issued(reply[c].body)
          /\ tokens[reply[c].body].what = job[c].what
      BY <1>1, <1>2, <2>1, ReturnsFacts, Zenon DEF CallerInv, Answered, Issued, PreflightMatches
    <3>2. p \in {"send", "stopped"}
      BY Zenon
    <3>3. job'[c] = [k EXCEPT !.token = reply[c].body]
      BY <1>2, <2>1, Zenon DEF ControlInv, TypeInv
    <3> HIDE DEF p
    <3>4. /\ k \in JobRecords /\ k.pc = p /\ k.what = job[c].what
          /\ k.doubt = job[c].doubt /\ k.risked = job[c].risked
          /\ k.opened = job[c].opened /\ SameWait(job[c], k)
      BY <1>1, <3>2, Zenon DEF JobRecords, Locations, Waiting, SameWait
    <3> HIDE DEF k
    <3> QED BY <2>1, <3>1, <3>2, <3>3, <3>4, Zenon DEF JobRecords, SameWait
  <2>2. CASE ~(outcome = "ok" /\ reply[c].body # None /\ PreflightMatches(c, reply[c].body))
    <3>1. job'[c] = [job[c] EXCEPT !.pc = "stopped"]
      BY <1>2, <2>2, Zenon DEF ControlInv, TypeInv
    <3>2. job'[c].token = job[c].token
      BY <1>1, <3>1, Zenon DEF JobRecords
    <3>3. job[c].token # None => Issued(job[c].token) /\ tokens[job[c].token].what = job[c].what
      BY <1>1, Zenon DEF CallerInv, Committing
    <3> QED BY <1>1, <3>1, <3>2, <3>3, Zenon DEF JobRecords, Locations, Waiting, SameWait
  <2> QED BY <2>1, <2>2, Zenon
<1>5. CallerInv(c)'
  <2>1. \A t \in Tokens : Applied(c, t)' <=> Applied(c, t)
    BY <1>1, Zenon DEF Applied, commitVars
  <2>2. Requested(c)' /\ Answered(c)'
    BY <1>2, ReturnsFacts, Zenon
  <2>3. Committing(c)'
    BY <1>1, <1>4, Zenon DEF Committing, Issued, commitVars
  <2>4. Accounted(c)'
    BY <1>1, <1>4, <2>1, Zenon DEF CallerInv, Accounted
  <2>5. Fenced(c)' /\ Ended(c)'
    BY <1>1, <1>4, Zenon DEF CallerInv, Fenced, Ended, SameWait, commitVars, operationVars
  <2> QED BY <2>2, <2>3, <2>4, <2>5, Zenon DEF CallerInv
<1>6. ASSUME NEW m \in late', m.from = c PROVE Late(m)'
  <2>1. m \in late
    BY <1>1, <1>2, <1>6, ReturnsFacts, Zenon DEF CallerInv, Requested, Changes
  <2> QED BY <1>1, <1>4, <1>6, <2>1, Zenon
           DEF ControlInv, CallerInv, Accounted, Late, Issued, SameWait, commitVars
<1>7. \A m \in late' : m \in late
  BY <1>1, <1>2, ReturnsFacts, Zenon DEF CallerInv, Requested, Changes
<1> QED BY <1>1, <1>2, <1>3, <1>4, <1>5, <1>6, <1>7, ReturnsFacts, CallerMoves, Zenon

\* A commit returns: with a result, or leaving the caller in doubt unless it is
\* a refusal.
LEMMA CommitReturnsStep ==
    ASSUME ControlInv, NEW c \in Callers, CommitReturns(c), UNCHANGED operationVars
    PROVE  ControlInv'
<1>1. job[c] \in JobRecords /\ CallerInv(c) /\ job[c].pc = "commit" /\ UNCHANGED commitVars
  BY Zenon DEF ControlInv, TypeInv, CommitReturns
<1>2. PICK outcome \in Outcomes :
         /\ Returns(c, outcome)
         /\ job' = [job EXCEPT ![c] =
              IF outcome = "ok" /\ AuthorizationMatches(c, reply[c].body)
              THEN [job[c] EXCEPT !.pc = "done", !.opened = OpenProviderResponse(c, reply[c].body)]
              ELSE [job[c] EXCEPT !.pc = "stopped", !.doubt = job[c].doubt \/ outcome # "refused"]]
  BY Zenon DEF CommitReturns
<1>3. job' = [job EXCEPT ![c] = job'[c]]
  BY <1>2, Zenon DEF ControlInv, TypeInv
<1>4. /\ job[c].token # None /\ Issued(job[c].token) /\ tokens[job[c].token].what = job[c].what
      /\ job[c].opened = None /\ job[c].seen = None
  BY <1>1, Zenon DEF CallerInv, Committing, Ended
<1>5. /\ job'[c] \in JobRecords /\ job'[c].what = job[c].what /\ job'[c].token = job[c].token
      /\ job'[c].risked = job[c].risked /\ SameWait(job[c], job'[c])
      /\ \/ /\ outcome = "ok" /\ job'[c].pc = "done" /\ job'[c].doubt = job[c].doubt
            /\ job'[c].opened # None =>
                 /\ Issued(job'[c].opened) /\ tokens[job'[c].opened].by # None
                 /\ tokens[job'[c].opened].what = tokens[job[c].token].what
                 /\ tokens[job'[c].opened].revision = tokens[job[c].token].revision
                 /\ tokens[job'[c].opened].version = tokens[job[c].token].version
         \/ /\ job'[c].pc = "stopped" /\ job'[c].opened = None
            /\ job'[c].doubt = (job[c].doubt \/ outcome # "refused")
  <2>1. CASE outcome = "ok" /\ AuthorizationMatches(c, reply[c].body)
    <3> DEFINE o == OpenProviderResponse(c, reply[c].body)
               k == [job[c] EXCEPT !.pc = "done"]
    <3>1. job'[c] = [k EXCEPT !.opened = o]
      BY <1>2, <2>1, Zenon DEF ControlInv, TypeInv
    <3>2. o # None =>
            /\ o \in Tokens /\ Issued(o) /\ tokens[o].by # None
            /\ tokens[o].what = tokens[job[c].token].what
            /\ tokens[o].revision = tokens[job[c].token].revision
            /\ tokens[o].version = tokens[job[c].token].version
      BY <1>1, <1>2, <2>1, ReturnsFacts, Zenon
         DEF CallerInv, Answered, Issued, OpenProviderResponse, Fingerprint
    <3>3. /\ k \in JobRecords /\ k.pc = "done" /\ k.what = job[c].what
          /\ k.token = job[c].token /\ k.doubt = job[c].doubt
          /\ k.risked = job[c].risked /\ SameWait(job[c], k)
      BY <1>1, Zenon DEF JobRecords, Locations, Waiting, SameWait
    <3> HIDE DEF k, o
    <3> QED BY <2>1, <3>1, <3>2, <3>3, Zenon DEF JobRecords, SameWait
  <2>2. CASE ~(outcome = "ok" /\ AuthorizationMatches(c, reply[c].body))
    <3> DEFINE d == job[c].doubt \/ outcome # "refused"
               k == [job[c] EXCEPT !.pc = "stopped"]
    <3>1. job'[c] = [k EXCEPT !.doubt = d] /\ d \in BOOLEAN
      BY <1>2, <2>2, Zenon DEF ControlInv, TypeInv
    <3>2. /\ k \in JobRecords /\ k.pc = "stopped" /\ k.what = job[c].what
          /\ k.token = job[c].token /\ k.opened = job[c].opened
          /\ k.risked = job[c].risked /\ SameWait(job[c], k)
      BY <1>1, Zenon DEF JobRecords, Locations, Waiting, SameWait
    <3> HIDE DEF k, d
    <3>3. /\ job'[c] \in JobRecords /\ job'[c].pc = "stopped" /\ job'[c].what = job[c].what
          /\ job'[c].token = job[c].token /\ job'[c].opened = None
          /\ job'[c].risked = job[c].risked /\ SameWait(job[c], job'[c]) /\ job'[c].doubt = d
      BY <1>4, <3>1, <3>2, Zenon DEF JobRecords, SameWait
    <3> QED BY <3>3, Zenon DEF d
  <2> QED BY <2>1, <2>2, Zenon
<1>6. CallerInv(c)'
  <2>1. \A t \in Tokens : Applied(c, t)' <=> Applied(c, t)
    BY <1>1, Zenon DEF Applied, commitVars
  <2>2. Requested(c)' /\ Answered(c)'
    BY <1>2, ReturnsFacts, Zenon
  <2>3. Committing(c)' /\ Ended(c)'
    BY <1>1, <1>4, <1>5, Zenon DEF Committing, Ended, Issued, SameWait, commitVars
  <2>4. Accounted(c)'
    BY <1>1, <1>2, <1>5, <2>1, ReturnsFacts, Zenon DEF CallerInv, Accounted
  <2>5. Fenced(c)'
    BY <1>1, <1>5, Zenon DEF CallerInv, Fenced, SameWait, commitVars, operationVars
  <2> QED BY <2>2, <2>3, <2>4, <2>5, Zenon DEF CallerInv
<1>7. ASSUME NEW m \in late', m.from = c PROVE Late(m)'
  <2>1. CASE m \in late
    BY <1>1, <1>5, <1>7, <2>1, Zenon DEF ControlInv, Late, Issued, SameWait, commitVars
  <2>2. CASE m \notin late
    <3>1. m = asked[c] /\ asked[c] # None /\ outcome = "error"
      BY <1>2, <1>7, <2>2, ReturnsFacts, Zenon
    <3>2. m.op = "commit" /\ m.token = job[c].token
      BY <1>1, <3>1, Zenon DEF CallerInv, Requested
    <3> QED BY <1>1, <1>4, <1>5, <1>7, <3>1, <3>2, Zenon DEF Late, Issued, commitVars
  <2> QED BY <2>1, <2>2, Zenon
<1>8. \A m \in late' : m \in late \/ m.from = c
  BY <1>1, <1>2, ReturnsFacts, Zenon DEF CallerInv, Requested
<1> QED BY <1>1, <1>2, <1>3, <1>5, <1>6, <1>7, <1>8, ReturnsFacts, CallerMoves, Zenon

\* A step of Control on a request of one caller keeps the invariant if it does so
\* for what that caller is told, has to account for and waits for.
LEMMA ControlActs ==
    ASSUME ControlInv, TypeInv', Grows, NEW c \in Callers, job' = job,
           \A d \in Callers : d # c =>
             /\ asked'[d] = asked[d] /\ reply'[d] = reply[d]
             /\ ops'[d] = ops[d] /\ made'[d] = made[d]
             /\ \A t \in Tokens : Applied(d, t)' => Applied(d, t),
           job[c].seen # None => ops'[c].status = ops[c].status,
           Requested(c)', Answered(c)', Accounted(c)', Fenced(c)',
           \A m \in late' : m \in late
    PROVE  ControlInv'
<1>1. CallerInv(c)'
  <2>1. Committing(c) /\ Ended(c)
    BY Zenon DEF ControlInv, CallerInv
  <2>2. Committing(c)'
    BY <2>1, Zenon DEF Committing, Issued, Grows
  <2>3. Ended(c)'
    BY <2>1, NoneFacts, Zenon DEF Committing, Ended, Issued, Grows
  <2> QED BY <2>2, <2>3, Zenon DEF CallerInv
<1>2. ASSUME NEW d \in Callers, d # c PROVE CallerInv(d)'
  BY <1>2, CallerKept, Zenon DEF ControlInv
<1>3. ASSUME NEW m \in late' PROVE Late(m)'
  BY <1>3, LateKept, Zenon DEF ControlInv
<1> QED BY <1>1, <1>2, <1>3, Zenon DEF ControlInv

\* Control handles a request and answers its caller or nobody.
LEMMA AnswerFacts ==
    ASSUME TypeInv, NEW c \in Callers, NEW to \in {c, None}, NEW S, Answer(to, S)
    PROVE  /\ reply' = [reply EXCEPT ![c] = reply'[c]]
           /\ to = c => reply'[c] \in S
           /\ to = None => reply' = reply
BY CallersAssumption, Zenon DEF Answer, TypeInv

\* What a caller has been answered stays true.
LEMMA AnsweredKept ==
    ASSUME TypeInv, TypeInv', NEW c \in Callers, Answered(c), Grows,
           job'[c] = job[c], reply'[c] = reply[c],
           ops[c].status \in Terminal => ops'[c].status = ops[c].status
    PROVE  Answered(c)'
BY DEF Answered, Succeeded, Issued, Grows, TypeInv

\* A request that Control handles, for its caller, for nobody because net/http
\* sends it again, or late.
Handled(m, c, to) ==
    /\ m.from = c /\ job' = job /\ (\A n \in late' : n \in late)
    /\ \/ /\ to = c /\ m = asked[c] /\ asked[c] # None
          /\ asked' = [asked EXCEPT ![c] = None]
       \/ to = None /\ m = asked[c] /\ asked[c] # None /\ Replayable(m) /\ asked' = asked
       \/ to = None /\ m \in late /\ asked' = asked

\* Who has a request or an answer after it.
LEMMA HandledFacts ==
    ASSUME ControlInv, NEW c \in Callers, NEW m, NEW to, Handled(m, c, to)
    PROVE  /\ to \in {c, None}
           /\ asked' = [d \in Callers |-> asked'[d]]
           /\ \A d \in Callers : d # c => asked'[d] = asked[d]
           /\ to = c => asked'[c] = None /\ reply[c] = None /\ job[c].opened = None /\ job[c].seen = None
           /\ to = None => asked' = asked
<1>1. CallerInv(c) /\ asked = [d \in Callers |-> asked[d]]
  BY Zenon DEF ControlInv, TypeInv
<1>2. to = c \/ to = None
  BY Zenon DEF Handled
<1>3. CASE to = c
  <2>1. asked' = [asked EXCEPT ![c] = None] /\ asked[c] # None
    BY <1>3, CallersAssumption, Zenon DEF Handled
  <2>2. reply[c] = None /\ job[c].pc # "done"
    BY <1>1, <2>1, Zenon DEF CallerInv, Requested
  <2>3. job[c].opened = None /\ job[c].seen = None
    BY <1>1, <2>2, Zenon DEF CallerInv, Ended
  <2>4. asked' = [d \in Callers |-> asked'[d]] /\ asked'[c] = None
    BY <1>1, <2>1, Zenon
  <2>5. \A d \in Callers : d # c => asked'[d] = asked[d]
    BY <1>1, <2>1, Zenon
  <2> QED BY <1>3, <2>2, <2>3, <2>4, <2>5, CallersAssumption, Zenon
<1>4. CASE to = None
  BY <1>1, <1>4, CallersAssumption, Zenon DEF Handled
<1> QED BY <1>2, <1>3, <1>4, Zenon

\* A preflight.
LEMMA ControlPreflightsStep ==
    ASSUME ControlInv, NEW c \in Callers, NEW m, NEW to, Handled(m, c, to),
           m.op = "preflight", ControlPreflights(m, to), UNCHANGED operationVars
    PROVE  ControlInv'
<1>1. /\ to = c /\ m = asked[c] /\ asked[c] # None /\ job[c].pc = "preflight"
      /\ m.kind = job[c].kind /\ m.what = job[c].what
      /\ CallerInv(c) /\ job[c] \in JobRecords /\ job[c].kind \in Kinds /\ job' = job
  BY DEF ControlInv, TypeInv, CallerInv, Requested, Committing, Handled, Replayable, Late
<1>2. /\ \/ /\ UNCHANGED commitVars
            /\ \E a \in {Refusal, Success(None)} \cup {Success(t) : t \in Executions} :
                 reply' = [reply EXCEPT ![c] = a]
         \/ \E t \in Tokens :
              /\ tokens[t] = None
              /\ tokens' = [tokens EXCEPT ![t] = [kind |-> m.kind, what |-> m.what, by |-> None,
                                                  revision |-> revision, version |-> version]]
              /\ reply' = [reply EXCEPT ![c] = Success(t)]
              /\ UNCHANGED <<revision, version>>
  BY <1>1, CallersAssumption, Zenon DEF ControlPreflights, Answer
<1> DEFINE Recorded ==
             /\ tokens' \in [Tokens -> Preflights \cup {None}]
             /\ revision' = revision /\ version' = version
             /\ \A t \in Tokens : tokens[t] # None => tokens'[t] = tokens[t]
             /\ \A t \in Tokens : \A d \in Callers : Applied(d, t)' => Applied(d, t)
             /\ reply' = [d \in Callers |-> reply'[d]]
             /\ \A d \in Callers : d # c => reply'[d] = reply[d]
             /\ Succeeded(c)' => reply'[c].body = None \/ Issued(reply[c].body)'
<1>3. Recorded
  <2>1. CASE /\ UNCHANGED commitVars
             /\ \E a \in {Refusal, Success(None)} \cup {Success(t) : t \in Executions} :
                  reply' = [reply EXCEPT ![c] = a]
    <3>1. PICK a \in {Refusal, Success(None)} \cup {Success(t) : t \in Executions} :
             reply' = [reply EXCEPT ![c] = a]
      BY <2>1, Zenon
    <3>2. a.status = "2xx" => a.body = None \/ Issued(a.body)
      BY <3>1 DEF Success, Refusal, Executions, Issued
    <3> QED BY <2>1, <3>1, <3>2, Zenon DEF ControlInv, TypeInv, commitVars, Applied, Succeeded, Issued
  <2>2. CASE \E t \in Tokens :
               /\ tokens[t] = None
               /\ tokens' = [tokens EXCEPT ![t] = [kind |-> m.kind, what |-> m.what, by |-> None,
                                                   revision |-> revision, version |-> version]]
               /\ reply' = [reply EXCEPT ![c] = Success(t)]
               /\ UNCHANGED <<revision, version>>
    <3>1. PICK t \in Tokens :
              /\ tokens[t] = None
              /\ tokens' = [tokens EXCEPT ![t] = [kind |-> m.kind, what |-> m.what, by |-> None,
                                                  revision |-> revision, version |-> version]]
              /\ reply' = [reply EXCEPT ![c] = Success(t)]
              /\ UNCHANGED <<revision, version>>
      BY <2>2, Zenon
    <3>2. /\ tokens'[t] \in Preflights /\ tokens'[t] # None /\ tokens'[t].by = None
          /\ \A u \in Tokens : u # t => tokens'[u] = tokens[u]
      <4>1. tokens'[t] = [kind |-> m.kind, what |-> m.what, by |-> None,
                          revision |-> revision, version |-> version]
        BY <3>1, Zenon DEF ControlInv, TypeInv
      <4>2. m.kind \in Kinds /\ m.what \in Bodies \cup {None} /\ revision \in Nat /\ version \in Nat
        BY <1>1, Zenon DEF ControlInv, TypeInv, JobRecords
      <4>3. tokens'[t] \in Preflights
        BY <4>1, <4>2 DEF Preflights
      <4> QED BY <3>1, <4>1, <4>3, NoneFacts, Zenon DEF ControlInv, TypeInv
    <3>3. tokens' = [tokens EXCEPT ![t] = tokens'[t]] /\ tokens \in [Tokens -> Preflights \cup {None}]
      BY <3>1, Zenon DEF ControlInv, TypeInv
    <3>4. tokens' \in [Tokens -> Preflights \cup {None}]
      BY <3>2, <3>3, Zenon
    <3>5. \A u \in Tokens : \A d \in Callers : Applied(d, u)' => Applied(d, u)
      BY <3>2, NoneFacts, Zenon DEF Applied
    <3>6. /\ reply' = [d \in Callers |-> reply'[d]]
          /\ \A d \in Callers : d # c => reply'[d] = reply[d]
          /\ reply'[c].body = t
      BY <3>1, Zenon DEF ControlInv, TypeInv, Success
    <3> QED BY <3>1, <3>2, <3>4, <3>5, <3>6, Zenon DEF Issued
  <2> QED BY <1>2, <2>1, <2>2, Zenon
<1>4. /\ asked'[c] = None /\ job[c].opened = None /\ job[c].seen = None
      /\ asked' = [d \in Callers |-> asked'[d]] /\ \A d \in Callers : d # c => asked'[d] = asked[d]
  BY <1>1, HandledFacts, Zenon
<1>5. TypeInv' /\ Grows
  BY <1>1, <1>3, <1>4 DEF ControlInv, TypeInv, Grows, operationVars
<1>6. Requested(c)' /\ Answered(c)'
  BY <1>1, <1>3, <1>4, Zenon DEF Requested, Answered, Succeeded, Waiting
<1>7. Accounted(c)' /\ Fenced(c)'
  BY <1>1, <1>3, Zenon DEF CallerInv, Accounted, Fenced, operationVars
<1> HIDE DEF Recorded
<1>8. \A d \in Callers : d # c =>
         /\ asked'[d] = asked[d] /\ reply'[d] = reply[d]
         /\ ops'[d] = ops[d] /\ made'[d] = made[d]
         /\ \A t \in Tokens : Applied(d, t)' => Applied(d, t)
  BY <1>3, <1>4, Zenon DEF Recorded, operationVars
<1> QED BY <1>1, <1>4, <1>5, <1>6, <1>7, <1>8, ControlActs, Zenon DEF Handled, operationVars

\* A commit.
LEMMA ControlCommitsStep ==
    ASSUME ControlInv, NEW c \in Callers, NEW m, NEW to, Handled(m, c, to),
           m.op = "commit", ControlCommits(m, to), UNCHANGED operationVars
    PROVE  ControlInv'
<1> DEFINE t == m.token
<1>1. /\ CallerInv(c) /\ job' = job /\ m.from = c /\ c # None
      /\ Issued(t) /\ tokens[t] \in Preflights
      /\ to = c => job[c].pc = "commit" /\ asked[c] # None /\ t = job[c].token
      /\ to = None => job[c].doubt /\ (~job[c].risked => t = job[c].token)
  BY NoneFacts DEF ControlInv, TypeInv, CallerInv, Requested, Committing, Handled, Replayable, Late, Issued
<1>2. /\ to \in {c, None} /\ asked' = [d \in Callers |-> asked'[d]]
      /\ \A d \in Callers : d # c => asked'[d] = asked[d]
      /\ to = c => asked'[c] = None /\ reply[c] = None /\ job[c].opened = None /\ job[c].seen = None
      /\ to = None => asked' = asked
  BY HandledFacts
<1> HIDE DEF t
<1>3. /\ reply' = [reply EXCEPT ![c] = reply'[c]]
      /\ to = None => reply' = reply
      /\ \/ /\ tokens[t].by = None
            /\ tokens' = [tokens EXCEPT ![t].by = c]
            /\ revision' \in {revision, revision + 1} /\ version' \in {version, version + 1}
            /\ to = c => reply'[c] \in Results(t)
         \/ /\ UNCHANGED commitVars
            /\ to = c => \/ reply'[c] = Refusal
                         \/ tokens[t].by # None /\ reply'[c] \in Results(t)
  <2>1. CASE /\ tokens[t].by = None
             /\ tokens' = [tokens EXCEPT ![t].by = m.from]
             /\ revision' = IF tokens[t].kind = "links" THEN revision + 1 ELSE revision
             /\ version' = IF tokens[t].kind = "payload" THEN version + 1 ELSE version
             /\ Answer(to, Results(t))
    BY <1>1, <1>2, <2>1, AnswerFacts, Zenon DEF ControlInv
  <2>2. CASE /\ Answer(to, {Refusal} \cup IF tokens[t].by # None THEN Results(t) ELSE {})
             /\ UNCHANGED commitVars
    BY <1>1, <1>2, <2>2, AnswerFacts DEF ControlInv
  <2> QED BY <2>1, <2>2, Zenon DEF ControlCommits, t
<1>4. /\ reply' = [d \in Callers |-> reply'[d]]
      /\ \A d \in Callers : d # c => reply'[d] = reply[d]
  BY <1>3, Zenon DEF ControlInv, TypeInv
<1>5. ASSUME NEW a \in Results(t)
      PROVE  /\ a.status = "2xx"
             /\ a.body.response # None =>
                  \/ a.body.response = t
                  \/ Issued(a.body.response) /\ tokens[a.body.response].by # None
  BY DEF Results, Success, Executed, Executions, Issued
<1>6. CASE /\ UNCHANGED commitVars
           /\ to = c => \/ reply'[c] = Refusal
                        \/ tokens[t].by # None /\ reply'[c] \in Results(t)
  <2>1. /\ TypeInv' /\ Grows /\ \A d \in Callers, u \in Tokens : Applied(d, u)' <=> Applied(d, u)
    BY <1>1, <1>2, <1>4, <1>6 DEF ControlInv, TypeInv, Grows, Applied, commitVars, operationVars
  <2>2. Requested(c)'
    BY <1>1, <1>2, <1>3, Zenon DEF CallerInv, Requested
  <2>3. Answered(c)'
    <3>1. CASE to = c
      BY <1>1, <1>5, <1>6, <3>1 DEF Answered, Succeeded, Refusal, Issued, Waiting, commitVars
    <3>2. CASE to = None
      BY <1>1, <1>3, <2>1, <3>2, AnsweredKept, Zenon DEF ControlInv, CallerInv, operationVars
    <3> QED BY <1>2, <3>1, <3>2, Zenon
  <2>4. Accounted(c)'
    <3>1. CASE to = c
      BY <1>1, <2>1, <3>1, Zenon DEF CallerInv, Accounted, Told
    <3>2. CASE to = None
      BY <1>1, <2>1, <3>2, Zenon DEF CallerInv, Accounted
    <3> QED BY <1>2, <3>1, <3>2, Zenon
  <2>5. Fenced(c)'
    BY <1>1, <1>6, Zenon DEF CallerInv, Fenced, commitVars, operationVars
  <2> QED BY <1>1, <1>2, <1>4, <2>1, <2>2, <2>3, <2>4, <2>5, ControlActs, Zenon DEF Handled, operationVars
<1>7. CASE /\ tokens[t].by = None
           /\ tokens' = [tokens EXCEPT ![t].by = c]
           /\ revision' \in {revision, revision + 1} /\ version' \in {version, version + 1}
           /\ to = c => reply'[c] \in Results(t)
  <2>1. /\ tokens'[t] = [tokens[t] EXCEPT !.by = c] /\ tokens' = [tokens EXCEPT ![t] = tokens'[t]]
        /\ \A u \in Tokens : u # t => tokens'[u] = tokens[u]
    BY <1>1, <1>7, Zenon DEF ControlInv, TypeInv, Issued
  <2>2. /\ tokens'[t] \in Preflights /\ tokens'[t] # None /\ tokens'[t].by = c
        /\ tokens'[t].what = tokens[t].what
        /\ tokens'[t].revision = tokens[t].revision /\ tokens'[t].version = tokens[t].version
    BY <1>1, <2>1, NoneFacts DEF Preflights
  <2>3. /\ revision \in Nat /\ revision' \in Nat /\ version' \in Nat /\ revision' >= revision
        /\ tokens' \in [Tokens -> Preflights \cup {None}]
    <3>1. revision \in Nat /\ version \in Nat /\ tokens \in [Tokens -> Preflights \cup {None}]
      BY Zenon DEF ControlInv, TypeInv
    <3>2. tokens' \in [Tokens -> Preflights \cup {None}]
      BY <2>1, <2>2, <3>1, Zenon
    <3> QED BY <1>7, <3>1, <3>2
  <2>4. TypeInv'
    BY <1>1, <1>2, <1>4, <2>3, Zenon DEF ControlInv, TypeInv, operationVars
  <2>5. Grows
    BY <1>1, <1>7, <2>1, <2>2, <2>3, Zenon DEF Grows
  <2>6. /\ \A d \in Callers, u \in Tokens : d # c => (Applied(d, u)' => Applied(d, u))
        /\ \A u \in Tokens : Applied(c, u)' => Applied(c, u) \/ u = t
    BY <2>1, <2>2, Zenon DEF Applied
  <2>7. Requested(c)'
    BY <1>1, <1>2, <1>3, Zenon DEF CallerInv, Requested
  <2>8. Answered(c)'
    <3>1. CASE to = c
      BY <1>1, <1>5, <1>7, <2>1, <2>2, <3>1 DEF Answered, Succeeded, Issued, Waiting
    <3>2. CASE to = None
      BY <1>1, <1>3, <2>4, <2>5, <3>2, AnsweredKept, Zenon DEF ControlInv, CallerInv, operationVars
    <3> QED BY <1>2, <3>1, <3>2, Zenon
  <2>9. Accounted(c)'
    <3>1. CASE to = c
      BY <1>1, <1>2, <1>5, <1>7, <2>6, <3>1, Zenon DEF CallerInv, Accounted, Told
    <3>2. CASE to = None
      BY <1>1, <2>6, <3>2, Zenon DEF CallerInv, Accounted
    <3> QED BY <1>2, <3>1, <3>2, Zenon
  <2>10. Fenced(c)'
    BY <1>1, <2>3 DEF ControlInv, TypeInv, CallerInv, Fenced, operationVars
  <2> QED BY <1>1, <1>2, <1>4, <2>4, <2>5, <2>6, <2>7, <2>8, <2>9, <2>10, ControlActs, Zenon
          DEF Handled, operationVars
<1> QED BY <1>3, <1>6, <1>7, Zenon

\* The request of a lifecycle change.
LEMMA ControlMutatesStep ==
    ASSUME ControlInv, NEW c \in Callers, NEW m, NEW to, Handled(m, c, to),
           m.op = "mutate", ControlMutates(m, to), UNCHANGED commitVars
    PROVE  ControlInv'
<1>1. /\ CallerInv(c) /\ job[c] \in JobRecords /\ job' = job
      /\ ops \in [Callers -> [status : Statuses, fence : Nat]] /\ made \in [Callers -> Nat]
      /\ \A d \in Callers, t \in Tokens : Applied(d, t)' <=> Applied(d, t)
  BY Zenon DEF ControlInv, TypeInv, Handled, Applied, commitVars
<1>2. /\ m.from = c /\ m.key # None /\ m.fence \in Nat /\ m.fence = job[c].fence
      /\ to = c => job[c].pc = "mutate"
  <2>1. CASE m = asked[c] /\ asked[c] # None
    <3>1. /\ m.from = c /\ m.key = c /\ job[c].pc = "mutate" /\ m.fence = job[c].fence
      BY <1>1, <2>1 DEF CallerInv, Requested
    <3>2. job[c].fence # None /\ job[c].fence \in Nat \cup {None}
      BY <1>1, <3>1 DEF CallerInv, Fenced, JobRecords
    <3> QED BY <3>1, <3>2, CallersAssumption, Zenon
  <2>2. CASE m \in late /\ to = None
    <3>1. m.from = c /\ m.key # None /\ m.fence # None /\ m.fence = job[c].fence
      BY <2>2, Zenon DEF ControlInv, Late, Handled
    <3>2. job[c].fence \in Nat \cup {None}
      BY <1>1 DEF JobRecords
    <3> QED BY <2>2, <3>1, <3>2, CallersAssumption, Zenon
  <2> QED BY <2>1, <2>2, Zenon DEF Handled
<1>3. /\ to \in {c, None} /\ asked' = [d \in Callers |-> asked'[d]]
      /\ \A d \in Callers : d # c => asked'[d] = asked[d]
      /\ to = c => asked'[c] = None
      /\ to = None => asked' = asked
  BY HandledFacts
<1>4. \/ UNCHANGED operationVars
      \/ /\ ops[c].status = "none"
         /\ ops' = [ops EXCEPT ![c] = [status |-> "pending", fence |-> m.fence]]
         /\ made' = [made EXCEPT ![c] = made[c] + 1]
  BY <1>2, Zenon DEF ControlMutates
<1>5. reply' = [reply EXCEPT ![c] = reply'[c]] /\ (to = None => reply' = reply)
  BY <1>2, <1>3, AnswerFacts, Zenon DEF ControlInv, ControlMutates
<1>6. /\ reply' = [d \in Callers |-> reply'[d]]
      /\ \A d \in Callers : d # c => reply'[d] = reply[d]
  BY <1>5, Zenon DEF ControlInv, TypeInv
<1>7. /\ ops' \in [Callers -> [status : Statuses, fence : Nat]] /\ made' \in [Callers -> Nat]
      /\ \A d \in Callers : d # c => ops'[d] = ops[d] /\ made'[d] = made[d]
      /\ ops[c].status # "none" => ops'[c] = ops[c]
      /\ Fenced(c)'
  <2>1. CASE UNCHANGED operationVars
    BY <1>1, <2>1, Zenon DEF CallerInv, Fenced, commitVars, operationVars
  <2>2. CASE /\ ops[c].status = "none"
             /\ ops' = [ops EXCEPT ![c] = [status |-> "pending", fence |-> m.fence]]
             /\ made' = [made EXCEPT ![c] = made[c] + 1]
    <3>1. ops'[c] = [status |-> "pending", fence |-> m.fence] /\ made'[c] = 1
      BY <1>1, <2>2 DEF CallerInv, Fenced
    <3>2. Fenced(c)'
      BY <1>1, <1>2, <3>1 DEF CallerInv, Fenced, commitVars
    <3>3. ops' \in [Callers -> [status : Statuses, fence : Nat]] /\ made' \in [Callers -> Nat]
      BY <1>1, <1>2, <2>2 DEF Statuses
    <3> QED BY <1>1, <2>2, <3>2, <3>3, Zenon
  <2> QED BY <1>4, <2>1, <2>2, Zenon
<1>8. TypeInv' /\ Grows
  BY <1>1, <1>3, <1>6, <1>7 DEF ControlInv, TypeInv, Grows, commitVars
<1>9. Requested(c)' /\ Accounted(c)'
  <2>1. CASE to = c
    BY <1>1, <1>2, <1>3, <2>1, Zenon DEF CallerInv, Requested, Accounted
  <2>2. CASE to = None
    BY <1>1, <1>3, <1>5, <2>2, Zenon DEF CallerInv, Requested, Accounted, Told
  <2> QED BY <1>3, <2>1, <2>2, Zenon
<1>10. Answered(c)'
  <2>1. CASE to = c
    BY <1>1, <1>2, <2>1, Zenon DEF Answered, Succeeded, Waiting
  <2>2. CASE to = None
    BY <1>1, <1>5, <1>7, <1>8, <2>2, AnsweredKept, Zenon DEF ControlInv, CallerInv, Terminal
  <2> QED BY <1>3, <2>1, <2>2, Zenon
<1>11. job[c].seen # None => ops'[c].status = ops[c].status
  BY <1>1, <1>7, Zenon DEF CallerInv, Ended, JobRecords, Terminal
<1> QED BY <1>1, <1>3, <1>6, <1>7, <1>8, <1>9, <1>10, <1>11, ControlActs, Zenon DEF Handled

\* A request that changes nothing.
LEMMA ControlReadsStep ==
    ASSUME ControlInv, NEW c \in Callers, NEW m, NEW to, Handled(m, c, to),
           \/ m.op = "resource" /\ Answer(to, {Success(revision), Refusal})
           \/ m.op = "operation" /\ Answer(to, {Success(ops[m.from].status), Refusal}),
           UNCHANGED <<commitVars, operationVars>>
    PROVE  ControlInv'
<1>1. /\ CallerInv(c) /\ job' = job /\ m.from = c
      /\ revision \in Nat /\ ops[c].status \in Statuses
      /\ to = c => \/ m.op = "resource" /\ job[c].pc = "fence"
                   \/ m.op = "operation" /\ job[c].pc = "poll"
  BY CallersAssumption, Zenon DEF ControlInv, TypeInv, CallerInv, Requested, Handled
<1>2. /\ to \in {c, None} /\ asked' = [d \in Callers |-> asked'[d]]
      /\ \A d \in Callers : d # c => asked'[d] = asked[d]
      /\ to = c => asked'[c] = None
      /\ to = None => asked' = asked
  BY HandledFacts
<1>3. /\ reply' = [reply EXCEPT ![c] = reply'[c]]
      /\ to = None => reply' = reply
      /\ to = c => \/ reply'[c] = Refusal
                   \/ reply'[c] = Success(revision) /\ job[c].pc = "fence"
                   \/ reply'[c] = Success(ops[c].status) /\ job[c].pc = "poll"
  BY <1>1, <1>2, AnswerFacts DEF ControlInv
<1>4. /\ reply' = [d \in Callers |-> reply'[d]]
      /\ \A d \in Callers : d # c => reply'[d] = reply[d]
  BY <1>3, Zenon DEF ControlInv, TypeInv
<1>5. /\ TypeInv' /\ Grows
      /\ \A d \in Callers, t \in Tokens : Applied(d, t)' <=> Applied(d, t)
  BY <1>1, <1>2, <1>4 DEF ControlInv, TypeInv, Grows, Applied, commitVars, operationVars
<1>6. Requested(c)' /\ Accounted(c)' /\ Answered(c)'
  <2>1. CASE to = c
    <3>1. asked'[c] = None /\ job[c].pc \in {"fence", "poll"}
      BY <1>1, <1>2, <2>1, Zenon
    <3>2. Requested(c)'
      BY <3>1, Zenon DEF Requested
    <3>3. Accounted(c)'
      BY <1>1, <1>5, <3>1 DEF CallerInv, Accounted
    <3>4. Answered(c)'
      BY <1>1, <1>3, <2>1, <3>1
         DEF Answered, Succeeded, Success, Refusal, Waiting, commitVars, operationVars
    <3> QED BY <3>2, <3>3, <3>4, Zenon
  <2>2. CASE to = None
    BY <1>1, <1>2, <1>3, <1>5, <2>2, AnsweredKept, Zenon
       DEF ControlInv, CallerInv, Requested, Accounted, Told, operationVars
  <2> QED BY <1>2, <2>1, <2>2, Zenon
<1>7. Fenced(c)'
  BY <1>1, Zenon DEF CallerInv, Fenced, commitVars, operationVars
<1> QED BY <1>1, <1>2, <1>4, <1>5, <1>6, <1>7, ControlActs, Zenon DEF Handled, operationVars

\* An operation goes on.
LEMMA OperationStepKeeps ==
    ASSUME ControlInv, NEW c \in Callers, OperationAdvances(c)
    PROVE  ControlInv'
<1>1. /\ CallerInv(c) /\ job[c] \in JobRecords /\ revision \in Nat
      /\ ops \in [Callers -> [status : Statuses, fence : Nat]]
  BY Zenon DEF ControlInv, TypeInv
<1>2. /\ job' = job /\ asked' = asked /\ reply' = reply /\ late' = late /\ tokens' = tokens
      /\ version' = version /\ made' = made
  BY Zenon DEF OperationAdvances, httpVars
<1>3. PICK status \in Statuses :
         /\ ops' = [ops EXCEPT ![c].status = status]
         /\ status # "none" /\ ops[c].status # "none" /\ ops[c].status \notin Terminal
         /\ \/ revision' = revision /\ status # "succeeded"
            \/ revision' = revision + 1 /\ ops[c].fence = revision
  BY Zenon DEF OperationAdvances, OperationStep, Statuses, Terminal
<1>4. /\ ops'[c].status = status /\ ops'[c].fence = ops[c].fence
      /\ ops' \in [Callers -> [status : Statuses, fence : Nat]]
      /\ \A d \in Callers : d # c => ops'[d] = ops[d]
  BY <1>1, <1>3, Zenon
<1>5. TypeInv' /\ Grows
  BY <1>1, <1>2, <1>3, <1>4 DEF ControlInv, TypeInv, Grows
<1>6. \A d \in Callers, t \in Tokens : Applied(d, t)' <=> Applied(d, t)
  BY <1>2, Zenon DEF Applied
<1>7. Requested(c)' /\ Accounted(c)'
  BY <1>1, <1>2, <1>6, Zenon DEF CallerInv, Requested, Accounted, Told
<1>8. Answered(c)'
  BY <1>1, <1>2, <1>3, <1>5, AnsweredKept, Zenon DEF ControlInv, CallerInv
<1>9. Fenced(c)'
  BY <1>1, <1>2, <1>3, <1>4 DEF CallerInv, Fenced
<1>10. job[c].seen = None
  BY <1>1, <1>3, Zenon DEF CallerInv, Ended, JobRecords
<1> QED BY <1>2, <1>4, <1>5, <1>6, <1>7, <1>8, <1>9, <1>10, ControlActs, Zenon

\* Control handles one request.
LEMMA ProcessStep ==
    ASSUME ControlInv, NEW c \in Callers, NEW m, NEW to, Handled(m, c, to), Process(m, to)
    PROVE  ControlInv'
<1>1. m.op \in {"preflight", "commit", "resource", "mutate", "operation"}
  BY DEF ControlInv, CallerInv, Requested, Late, Handled
<1>2. CASE m.op = "preflight"
  BY <1>2, ControlPreflightsStep, Zenon DEF Process
<1>3. CASE m.op = "commit"
  BY <1>3, ControlCommitsStep, Zenon DEF Process
<1>4. CASE m.op = "mutate"
  BY <1>4, ControlMutatesStep, Zenon DEF Process
<1>5. CASE m.op = "resource"
  BY <1>5, ControlReadsStep, Zenon DEF Process
<1>6. CASE m.op = "operation"
  BY <1>6, ControlReadsStep, Zenon DEF Process
<1> QED BY <1>1, <1>2, <1>3, <1>4, <1>5, <1>6, Zenon

\* Every step of a caller keeps the invariant.
LEMMA CallerStep ==
    ASSUME ControlInv, NEW c \in Callers,
           \/ Begin(c) \/ Mutate(c) \/ ContextDone(c) \/ Proceed(c)
           \/ (Commit(c) \/ StartOver(c)) /\ UNCHANGED operationVars
    PROVE  ControlInv'
<1>1. CASE Begin(c)
  BY <1>1, StartStep, ReadFenceStep, Zenon DEF Begin
<1>2. CASE SendResourceLinks(c) /\ UNCHANGED operationVars
  BY <1>2, CommitsStep, Zenon DEF SendResourceLinks, ControlInv, CallerInv, Committing
<1>3. CASE Commit(c) /\ UNCHANGED operationVars
  BY <1>3, CommitsStep, Zenon DEF Commit
<1>4. CASE StartOver(c) /\ UNCHANGED operationVars
  BY <1>4, StartOverStep, Zenon
<1>5. CASE Mutate(c) \/ ContextDone(c) \/ Poll(c)
  BY <1>5, MutateStep, ContextDoneStep, PollStep, Zenon
<1>6. CASE (PreflightReturns(c) \/ CommitReturns(c)) /\ UNCHANGED operationVars
  BY <1>6, PreflightReturnsStep, CommitReturnsStep, Zenon
<1>7. CASE FenceReturns(c) \/ MutateReturns(c) \/ PollReturns(c)
  BY <1>7, FenceReturnsStep, MutateReturnsStep, PollReturnsStep, Zenon
<1> QED BY <1>1, <1>2, <1>3, <1>4, <1>5, <1>6, <1>7, Zenon DEF Proceed

\* The invariant holds from the start and is kept by every step of the callers
\* and of Control (ResourceControl.Next).
THEOREM ControlInvariant == Spec => []ControlInv
<1>1. Init => ControlInv
  <2> SUFFICES ASSUME Init PROVE ControlInv
    BY Zenon
  <2>1. /\ job = [c \in Callers |-> NoJob] /\ asked = [c \in Callers |-> None]
        /\ reply = [c \in Callers |-> None] /\ late = {}
        /\ tokens = [t \in Tokens |-> None] /\ revision = 0 /\ version = 0
        /\ ops = [c \in Callers |-> [status |-> "none", fence |-> 0]]
        /\ made = [c \in Callers |-> 0]
    BY Zenon DEF Init, HttpInit, CommitInit, OperationInit
  <2>2. NoJob \in JobRecords
    BY Zenon DEF NoJob, JobRecords, Locations, Waiting
  <2>3. TypeInv
    BY <2>1, <2>2, Zenon DEF TypeInv, Statuses
  <2>4. ASSUME NEW c \in Callers PROVE CallerInv(c)
    <3>1. Requested(c) /\ Answered(c)
      BY <2>1, Zenon DEF Requested, Answered, Succeeded
    <3>2. Committing(c) /\ Ended(c) /\ Fenced(c) /\ Accounted(c)
      BY <2>1, Zenon DEF Committing, Ended, Fenced, Accounted, Applied, NoJob
    <3> QED BY <3>1, <3>2, Zenon DEF CallerInv
  <2> QED BY <2>1, <2>3, <2>4, Zenon DEF ControlInv
<1>2. ControlInv /\ [Next]_vars => ControlInv'
  <2> SUFFICES ASSUME ControlInv, [Next]_vars PROVE ControlInv'
    BY Zenon
  <2>1. ASSUME NEW c \in Callers,
               \/ Begin(c) \/ Mutate(c) \/ ContextDone(c) \/ Proceed(c)
               \/ (Commit(c) \/ StartOver(c)) /\ UNCHANGED operationVars
        PROVE  ControlInv'
    BY <2>1, CallerStep, Zenon
  <2>2. ASSUME NEW c \in Callers, Serve(c) PROVE ControlInv'
    <3>1. Handled(asked[c], c, c) /\ Process(asked[c], c)
      BY <2>2, Zenon DEF Serve, Handled, ControlInv, CallerInv, Requested
    <3> QED BY <3>1, ProcessStep, Zenon
  <2>3. ASSUME NEW c \in Callers, ServeAndResend(c) PROVE ControlInv'
    <3>1. Handled(asked[c], c, None) /\ Process(asked[c], None)
      BY <2>3, Zenon DEF ServeAndResend, Handled, ControlInv, CallerInv, Requested
    <3> QED BY <3>1, ProcessStep, Zenon
  <2>4. ASSUME NEW m \in late, ServeLate(m) PROVE ControlInv'
    <3>1. m.from \in Callers /\ Handled(m, m.from, None) /\ Process(m, None)
      BY <2>4, Zenon DEF ServeLate, Handled, ControlInv, Late
    <3> QED BY <3>1, ProcessStep, Zenon
  <2>5. ASSUME NEW c \in Callers, OperationAdvances(c) PROVE ControlInv'
    BY <2>5, OperationStepKeeps, Zenon
  <2>6. CASE UNCHANGED vars
    <3>1. /\ UNCHANGED <<job, asked, reply, late, tokens, revision, version, ops, made>>
      BY <2>6 DEF vars, httpVars, commitVars, operationVars
    <3>2. TypeInv' /\ \A m \in late' : Late(m)'
      BY <3>1 DEF ControlInv, TypeInv, Late, Issued
    <3>3. ASSUME NEW c \in Callers PROVE CallerInv(c)'
      <4>1. CallerInv(c)
        BY DEF ControlInv
      <4>2. Requested(c)' /\ Answered(c)' /\ Committing(c)'
        BY <3>1, <4>1, Zenon DEF CallerInv, Requested, Answered, Succeeded, Committing, Issued
      <4>3. Accounted(c)' /\ Fenced(c)' /\ Ended(c)'
        BY <3>1, <4>1, Zenon DEF CallerInv, Accounted, Told, Applied, Fenced, Ended, Issued
      <4> QED BY <4>2, <4>3 DEF CallerInv
    <3> QED BY <3>2, <3>3 DEF ControlInv
  <2> QED BY <2>1, <2>2, <2>3, <2>4, <2>5, <2>6, Zenon DEF Next
<1> QED BY <1>1, <1>2, PTL DEF Spec

\* Whatever the number of callers and tokens, a caller whose commits were all
\* refused has had nothing applied (request, CommitExecution, CommitResourceLinks).
THEOREM RefusedIsNotApplied == Spec => []RefusedMeansNotApplied
<1>1. ControlInv => RefusedMeansNotApplied
  <2> SUFFICES ASSUME ControlInv, NEW c \in Callers,
                      job[c].token # None, job[c].pc = "stopped", ~job[c].doubt
               PROVE  tokens[job[c].token].by # c
    BY Zenon DEF RefusedMeansNotApplied
  <2>1. Issued(job[c].token) /\ \A t \in Tokens : ~Applied(c, t)
    BY Zenon DEF ControlInv, CallerInv, Committing, Accounted
  <2> QED BY <2>1, Zenon DEF Issued, Applied
<1> QED BY <1>1, ControlInvariant, PTL

\* A change takes effect once unless its caller started over in doubt, and a
\* keyed request starts one operation (SendResourceLinks, operationRequest).
THEOREM IntentAppliedOnce == Spec => []OncePerIntent
<1>1. ControlInv => OncePerIntent
  <2> SUFFICES ASSUME ControlInv, NEW c \in Callers
               PROVE  /\ Cardinality({t \in Tokens : tokens[t] # None /\ tokens[t].by = c}) > 1
                           => job[c].risked
                      /\ made[c] <= 1
    BY Zenon DEF OncePerIntent
  <2>1. made[c] <= 1
    BY DEF ControlInv, CallerInv, Fenced
  <2>2. ASSUME ~job[c].risked
        PROVE  Cardinality({t \in Tokens : tokens[t] # None /\ tokens[t].by = c}) <= 1
    <3> DEFINE S == {t \in Tokens : tokens[t] # None /\ tokens[t].by = c}
    <3>1. S \subseteq {job[c].token}
      BY <2>2, Zenon DEF ControlInv, CallerInv, Accounted, Applied
    <3>2. IsFiniteSet({job[c].token}) /\ Cardinality({job[c].token}) = 1
      BY FS_Singleton, Zenon
    <3> HIDE DEF S
    <3>3. Cardinality(S) <= 1
      BY <3>1, <3>2, FS_Subset, Zenon
    <3> QED BY <3>3, Zenon DEF S
  <2>3. Cardinality({t \in Tokens : tokens[t] # None /\ tokens[t].by = c}) \in Nat
    <3> DEFINE S == {t \in Tokens : tokens[t] # None /\ tokens[t].by = c}
    <3>1. IsFiniteSet(Tokens) /\ S \subseteq Tokens
      BY FS_Interval, CommitsAssumption DEF Tokens
    <3> HIDE DEF S
    <3>2. Cardinality(S) \in Nat
      BY <3>1, FS_Subset, FS_CardinalityType, Zenon
    <3> QED BY <3>2, Zenon DEF S
  <2> QED BY <2>1, <2>2, <2>3
<1> QED BY <1>1, ControlInvariant, PTL

\* What a caller opens is the response to an execution of its request at the
\* revision and the payload version of its preflight (CommitExecution,
\* OpenProviderResponse).
THEOREM OpenedOwnResponse == Spec => []OpenedIsItsOwn
<1>1. ControlInv => OpenedIsItsOwn
  BY Zenon DEF OpenedIsItsOwn, ControlInv, CallerInv, Ended, Committing
<1> QED BY <1>1, ControlInvariant, PTL

\* What WaitForOperation returns is how the operation ended.
THEOREM WaitIsTold == Spec => []WaitTellsTheEnd
<1>1. ControlInv => WaitTellsTheEnd
  <2> SUFFICES ASSUME ControlInv, NEW c \in Callers, job[c].seen # None
               PROVE  /\ job[c].seen \in Terminal /\ ops[c].status = job[c].seen
                      /\ job[c].seen = "succeeded" => revision > job[c].fence
    BY Zenon DEF WaitTellsTheEnd
  <2>1. job[c].seen \in Terminal /\ ops[c].status = job[c].seen
    BY Zenon DEF ControlInv, TypeInv, JobRecords, CallerInv, Ended
  <2>2. ops[c].status \in Terminal => ops[c].fence = job[c].fence
    BY Zenon DEF ControlInv, CallerInv, Fenced, Terminal
  <2>3. ops[c].status = "succeeded" => ops[c].fence < revision
    BY Zenon DEF ControlInv, CallerInv, Fenced
  <2>4. ops[c].fence \in Nat /\ revision \in Nat
    BY Zenon DEF ControlInv, TypeInv
  <2> QED BY <2>1, <2>2, <2>3, <2>4, Zenon
<1> QED BY <1>1, ControlInvariant, PTL

=============================================================================
