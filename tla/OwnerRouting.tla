----------------------------- MODULE OwnerRouting ---------------------------
(***************************************************************************)
(* lotor/ownership.go: calls of WithOwnerRetry that share one resolver.    *)
(* Each call resolves the owner of its environment, dials it, runs an      *)
(* operation of several commands there, and follows at most one MOVED      *)
(* assertion to a newer owner, where it runs the operation again.          *)
(*                                                                         *)
(* Ownership moves between runtime instances while calls are under way;    *)
(* each move starts a new epoch.  Signatures are abstracted to the fact    *)
(* that every assertion comes from Control; whether the signing key is     *)
(* known or can be fetched is an input of each verification.               *)
(***************************************************************************)
EXTENDS Integers, Sequences

CONSTANTS
    Calls,      \* calls of WithOwnerRetry
    Instances,  \* endpoints of runtime instances
    Commands,   \* commands in the operation of a call
    Lifetime,   \* longest lifetime of an assertion: one minute
    Margin,     \* a cached assertion is dropped this long before it expires
    MaxFetch,   \* longest time a Resolve spends fetching: two HTTP timeouts
    MaxEpoch,   \* bound on the moves of ownership
    MaxTime,    \* the clock of a behaviour stops here
    None

ASSUME RoutingAssumption ==
    /\ Commands \in Nat \ {0}
    /\ Lifetime \in Nat /\ Margin \in Nat /\ MaxFetch \in Nat
    /\ MaxEpoch \in Nat \ {0} /\ MaxTime \in Nat
    /\ None \notin Calls

VARIABLES
    now,      \* the clock
    owners,   \* the instance that owns the environment in each epoch so far
    cached,   \* OwnershipResolver.cached
    mu,       \* the call that holds OwnershipResolver.mu
    pc,       \* where each call is
    asked,    \* when its Resolve read the clock
    reply,    \* the assertion that Control or a MOVED error gave it
    tries,    \* the assertions it has dialled, at most two
    next,     \* the command it sends next
    movedAt,  \* the command that was answered with MOVED, or 0
    applied,  \* how often each of its commands took effect
    out       \* how it returned

callVars == <<pc, asked, reply, tries, next, movedAt, applied, out>>
vars == <<now, owners, cached, mu, callVars>>

Epoch == Len(owners)

Init ==
    /\ now = 1
    /\ owners \in {<<i>> : i \in Instances}
    /\ cached = None
    /\ mu = None
    /\ pc = [c \in Calls |-> "idle"]
    /\ asked = [c \in Calls |-> 0]
    /\ reply = [c \in Calls |-> None]
    /\ tries = [c \in Calls |-> <<>>]
    /\ next = [c \in Calls |-> 1]
    /\ movedAt = [c \in Calls |-> 0]
    /\ applied = [c \in Calls |-> [k \in 1..Commands |-> 0]]
    /\ out = [c \in Calls |-> "none"]

-----------------------------------------------------------------------------
Goto(c, location) == pc' = [pc EXCEPT ![c] = location] /\ UNCHANGED out

Return(c, outcome) ==
    /\ pc' = [pc EXCEPT ![c] = "done"]
    /\ out' = [out EXCEPT ![c] = outcome]

\* The assertion that c is about to dial or has dialled last.
Target(c) == tries[c][Len(tries[c])]

\* An assertion was obtained: it is dialled and the operation starts over.
Dials(c, assertion) ==
    /\ Goto(c, "dial")
    /\ tries' = [tries EXCEPT ![c] = Append(@, assertion)]
    /\ next' = [next EXCEPT ![c] = 1]

Unlock == mu' = None

\* The lifetime checks of verifyOwnership, at the time the caller passes.
VerifyOwnership(a, at) ==
    /\ a.issuedAt <= at + Lifetime
    /\ at < a.expiresAt
    /\ a.expiresAt - a.issuedAt <= Lifetime

Begin(c) ==
    /\ pc[c] = "idle"
    /\ Goto(c, "resolve")
    /\ UNCHANGED <<now, owners, cached, mu, asked, reply, tries, next, movedAt, applied>>

\* Mutant: the cache has no expiry.
CacheUsableForever == cached # None

CacheUsable == cached # None /\ now + Margin < cached.expiresAt

\* Resolve, the assertion is cached.
ResolveCached(c) ==
    /\ pc[c] = "resolve" /\ mu = None
    /\ CacheUsable
    /\ Dials(c, cached)
    /\ UNCHANGED <<now, owners, cached, mu, asked, reply, movedAt, applied>>

\* Resolve reads the clock and asks Control, holding the mutex.
ResolveFetch(c) ==
    /\ pc[c] = "resolve" /\ mu = None
    /\ ~CacheUsable
    /\ mu' = c
    /\ asked' = [asked EXCEPT ![c] = now]
    /\ reply' = [reply EXCEPT ![c] = None]
    /\ Goto(c, "fetch")
    /\ UNCHANGED <<now, owners, cached, tries, next, movedAt, applied>>

\* Control signs an assertion for the owner it knows; the answer is on its way.
ControlAnswers(c, lifetime) ==
    /\ pc[c] = "fetch" /\ reply[c] = None
    /\ reply' = [reply EXCEPT ![c] =
         [endpoint |-> owners[Epoch], epoch |-> Epoch,
          issuedAt |-> now, expiresAt |-> now + lifetime]]
    /\ UNCHANGED <<now, owners, cached, mu, pc, asked, tries, next, movedAt, applied, out>>

\* The answer arrives.  It is verified at the time Resolve read at the start.
FetchEnds(c, keyKnown) ==
    /\ pc[c] = "fetch" /\ reply[c] # None
    /\ Unlock
    /\ IF keyKnown /\ VerifyOwnership(reply[c], asked[c])
       THEN /\ cached' = reply[c]
            /\ Dials(c, reply[c])
       ELSE /\ Return(c, "error")
            /\ UNCHANGED <<cached, tries, next>>
    /\ UNCHANGED <<now, owners, asked, reply, movedAt, applied>>

\* Mutant: the mutex is not released on the error path.
FetchFailsLocked(c) ==
    /\ pc[c] = "fetch"
    /\ Return(c, "error")
    /\ UNCHANGED <<now, owners, cached, mu, asked, reply, tries, next, movedAt, applied>>

FetchFails(c) ==
    /\ pc[c] = "fetch"
    /\ Unlock
    /\ Return(c, "error")
    /\ UNCHANGED <<now, owners, cached, asked, reply, tries, next, movedAt, applied>>

-----------------------------------------------------------------------------
\* dialOwnership: DialOwned invalidates the cache when it fails; the dial that
\* follows a MOVED assertion does not.
Dial(c, connects) ==
    /\ pc[c] = "dial"
    /\ IF connects THEN Goto(c, "auth")
       ELSE IF Len(tries[c]) = 1 THEN Goto(c, "invalidate")
       ELSE Return(c, "error")
    /\ UNCHANGED <<now, owners, cached, mu, asked, reply, tries, next, movedAt, applied>>

Invalidate(c) ==
    /\ pc[c] = "invalidate" /\ mu = None
    /\ cached' = None
    /\ Return(c, "error")
    /\ UNCHANGED <<now, owners, mu, asked, reply, tries, next, movedAt, applied>>

Auth(c, accepted) ==
    /\ pc[c] = "auth"
    /\ IF accepted THEN Goto(c, "op") ELSE Return(c, "error")
    /\ UNCHANGED <<now, owners, cached, mu, asked, reply, tries, next, movedAt, applied>>

Owns(instance) == owners[Epoch] = instance

\* The owner applies the next command and the caller learns of it.
CommandOk(c) ==
    /\ pc[c] = "op" /\ Owns(Target(c).endpoint)
    /\ applied' = [applied EXCEPT ![c][next[c]] = @ + 1]
    /\ next' = [next EXCEPT ![c] = @ + 1]
    /\ IF next[c] = Commands THEN Return(c, "ok") ELSE Goto(c, "op")
    /\ UNCHANGED <<now, owners, cached, mu, asked, reply, tries, movedAt>>

\* Mutant: after any error the operation is run again at a newer owner.
CommandFailsRetries(c, effect) ==
    /\ pc[c] = "op"
    /\ effect => Owns(Target(c).endpoint)
    /\ applied' = IF effect THEN [applied EXCEPT ![c][next[c]] = @ + 1] ELSE applied
    /\ IF /\ Len(tries[c]) = 1
          /\ Target(c).epoch < Epoch /\ Target(c).endpoint # owners[Epoch]
       THEN Dials(c, [endpoint |-> owners[Epoch], epoch |-> Epoch,
                      issuedAt |-> now, expiresAt |-> now + Lifetime])
       ELSE Return(c, "error") /\ UNCHANGED <<tries, next>>
    /\ UNCHANGED <<now, owners, cached, mu, asked, reply, movedAt>>

\* The command fails with another error than MOVED: a refusal, a timeout, a
\* closed connection.  It may have taken effect.
CommandFails(c, effect) ==
    /\ pc[c] = "op"
    /\ effect => Owns(Target(c).endpoint)
    /\ applied' = IF effect THEN [applied EXCEPT ![c][next[c]] = @ + 1] ELSE applied
    /\ Return(c, "error")
    /\ UNCHANGED <<now, owners, cached, mu, asked, reply, tries, next, movedAt>>

\* An instance that does not own the environment answers MOVED with an
\* assertion it has, which need not be the latest nor unexpired.
CommandMoved(c, epoch, issued) ==
    /\ pc[c] = "op" /\ ~Owns(Target(c).endpoint)
    /\ epoch \in 1..Epoch /\ issued \in 1..now
    /\ IF Len(tries[c]) = 1
       THEN /\ Goto(c, "moved")
            /\ movedAt' = [movedAt EXCEPT ![c] = next[c]]
            /\ reply' = [reply EXCEPT ![c] =
                 [endpoint |-> owners[epoch], epoch |-> epoch,
                  issuedAt |-> issued, expiresAt |-> issued + Lifetime]]
       ELSE /\ Return(c, "error")
            /\ UNCHANGED <<movedAt, reply>>
    /\ UNCHANGED <<now, owners, cached, mu, asked, tries, next, applied>>

\* acceptMoved takes the mutex, which it keeps while it looks for the key.
LockMoved(c) ==
    /\ pc[c] = "moved" /\ mu = None
    /\ mu' = c
    /\ Goto(c, "accept")
    /\ UNCHANGED <<now, owners, cached, asked, reply, tries, next, movedAt, applied>>

\* Mutant: any verified assertion is followed.
AcceptMovedAnyEpoch(c, keyKnown) ==
    /\ pc[c] = "accept"
    /\ Unlock
    /\ IF keyKnown /\ VerifyOwnership(reply[c], now)
       THEN cached' = reply[c] /\ Dials(c, reply[c])
       ELSE Return(c, "error") /\ UNCHANGED <<cached, tries, next>>
    /\ UNCHANGED <<now, owners, asked, reply, movedAt, applied>>

\* The assertion is verified now, and must be newer than the one that was
\* dialled first and name another endpoint.
AcceptMoved(c, keyKnown) ==
    /\ pc[c] = "accept"
    /\ Unlock
    /\ IF /\ keyKnown /\ VerifyOwnership(reply[c], now)
          /\ Target(c).epoch < reply[c].epoch
          /\ Target(c).endpoint # reply[c].endpoint
       THEN /\ cached' = reply[c]
            /\ Dials(c, reply[c])
       ELSE /\ Return(c, "error")
            /\ UNCHANGED <<cached, tries, next>>
    /\ UNCHANGED <<now, owners, asked, reply, movedAt, applied>>

-----------------------------------------------------------------------------
\* Ownership moves to another instance.
Move(instance) ==
    /\ Epoch < MaxEpoch /\ ~Owns(instance)
    /\ owners' = Append(owners, instance)
    /\ UNCHANGED <<now, cached, mu, callVars>>

\* A fetch takes at most MaxFetch.
Tick ==
    /\ now < MaxTime
    /\ \A c \in Calls : pc[c] = "fetch" => now < asked[c] + MaxFetch
    /\ now' = now + 1
    /\ UNCHANGED <<owners, cached, mu, callVars>>

Step(c) ==
    \/ ResolveCached(c)
    \/ ResolveFetch(c)
    \/ \E keyKnown \in BOOLEAN : FetchEnds(c, keyKnown)
    \/ FetchFails(c)
    \/ \E connects \in BOOLEAN : Dial(c, connects)
    \/ Invalidate(c)
    \/ \E accepted \in BOOLEAN : Auth(c, accepted)
    \/ CommandOk(c)
    \/ \E effect \in BOOLEAN : CommandFails(c, effect)
    \/ \E epoch \in 1..MaxEpoch, issued \in 1..MaxTime : CommandMoved(c, epoch, issued)
    \/ LockMoved(c)
    \/ \E keyKnown \in BOOLEAN : AcceptMoved(c, keyKnown)

Next ==
    \/ \E c \in Calls : Begin(c) \/ Step(c)
    \/ \E c \in Calls, lifetime \in {1, Lifetime} : ControlAnswers(c, lifetime)
    \/ \E i \in Instances : Move(i)
    \/ Tick

Spec == Init /\ [][Next]_vars

-----------------------------------------------------------------------------
\* A call dials at most twice, and the second time an endpoint other than the
\* first and of a later epoch, however stale the assertions that old owners
\* and the shared cache hand out (WithOwnerRetry, acceptMoved).
RetryAdvances ==
    \A c \in Calls :
        /\ Len(tries[c]) <= 2
        /\ Len(tries[c]) = 2 => /\ tries[c][1].epoch < tries[c][2].epoch
                                /\ tries[c][1].endpoint # tries[c][2].endpoint

\* A command takes effect twice only if it came before the command that was
\* answered with MOVED: those are the ones for which the callback must reuse
\* its idempotency keys.  The command that failed is never repeated after an
\* error that leaves its outcome open.
OnlyPrefixRepeats ==
    \A c \in Calls, k \in 1..Commands :
        /\ applied[c][k] <= 2
        /\ applied[c][k] = 2 => k < movedAt[c]

\* An assertion is unexpired when it is dialled, except that one which was
\* just fetched may have expired during the fetch, whose clock reading is from
\* before it: it is then at most MaxFetch too old.
FreshWhenDialled ==
    [][\A c \in Calls :
          pc[c] # "dial" /\ pc'[c] = "dial" =>
              now < tries'[c][Len(tries'[c])].expiresAt
                      + (IF pc[c] = "fetch" THEN MaxFetch ELSE 0)]_vars

-----------------------------------------------------------------------------
(* The inductive invariant that the proofs use. *)

Assertions == [endpoint : Instances, epoch : Nat, issuedAt : Nat, expiresAt : Nat]
Locations == {"idle", "resolve", "fetch", "dial", "invalidate", "auth", "op", "moved", "accept", "done"}

TypeOK ==
    /\ now \in Nat
    /\ owners \in Seq(Instances) /\ owners # <<>>
    /\ cached \in Assertions \cup {None}
    /\ mu \in Calls \cup {None}
    /\ pc \in [Calls -> Locations]
    /\ asked \in [Calls -> Nat]
    /\ reply \in [Calls -> Assertions \cup {None}]
    /\ tries \in [Calls -> Seq(Assertions)]
    /\ next \in [Calls -> Nat] /\ movedAt \in [Calls -> Nat]
    /\ applied \in [Calls -> [1..Commands -> Nat]]
    /\ out \in [Calls -> {"none", "ok", "error"}]

\* How many assertions a call at p has dialled, and that the second advances.
Dialled(p, t) ==
    /\ p \in {"idle", "resolve", "fetch"} => Len(t) = 0
    /\ p \in {"invalidate", "moved", "accept"} => Len(t) = 1
    /\ p \in {"dial", "auth", "op"} => Len(t) > 0
    /\ Len(t) <= 2
    /\ Len(t) = 2 => t[1].epoch < t[2].epoch /\ t[1].endpoint # t[2].endpoint

\* Where the operation of a call at p is: the command n is next, and m was
\* answered with MOVED before its l-th dial.
Progress(p, l, n, m) ==
    /\ p \notin {"op", "moved", "accept", "done"} => n = 1
    /\ p \in {"op", "moved", "accept"} => n \in 1..Commands
    /\ p \in {"moved", "accept"} => m = n
    /\ l < 2 /\ p \notin {"moved", "accept", "done"} => m = 0
    /\ m <= Commands

\* A call that has not returned has applied the commands before n in this
\* attempt and those before m in the attempt that MOVED ended.
Counted(p, l, n, m, a) ==
    \A k \in 1..Commands :
        /\ a[k] <= 2 /\ (a[k] = 2 => k < m)
        /\ p # "done" => a[k] = (IF k < n THEN 1 ELSE 0) + (IF l = 2 /\ k < m THEN 1 ELSE 0)

\* A fetch has not used up its time.
InTime(p, at, t) == p = "fetch" => t <= at + MaxFetch

CallInv(c) ==
    /\ Dialled(pc[c], tries[c])
    /\ Progress(pc[c], Len(tries[c]), next[c], movedAt[c])
    /\ Counted(pc[c], Len(tries[c]), next[c], movedAt[c], applied[c])
    /\ InTime(pc[c], asked[c], now)
    /\ pc[c] \in {"moved", "accept"} => reply[c] \in Assertions

RoutingInv == TypeOK /\ \A c \in Calls : CallInv(c)

=============================================================================
