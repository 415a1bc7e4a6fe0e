----------------------- MODULE LifecycleGatewayProofs -----------------------
(***************************************************************************)
(* Proofs about OwnerRouting and about LifecycleGateway, which composes    *)
(* its calls with the handler.  The proofs about the calls hold for any    *)
(* number of commands; only those about the gateway use that it runs one.  *)
(***************************************************************************)
EXTENDS LifecycleGateway, TLAPS

-----------------------------------------------------------------------------
(* OwnerRouting: what one call changes. *)

\* A step of one call leaves the state of d as it is.
Same(d) ==
    /\ pc'[d] = pc[d] /\ asked'[d] = asked[d] /\ reply'[d] = reply[d]
    /\ tries'[d] = tries[d] /\ next'[d] = next[d] /\ movedAt'[d] = movedAt[d]
    /\ applied'[d] = applied[d]

LEMMA CallStep ==
    ASSUME RoutingInv, NEW c \in Calls, now' = now, TypeOK', CallInv(c)',
           \A d \in Calls : d # c => Same(d)
    PROVE  RoutingInv'
<1>1. ASSUME NEW d \in Calls, d # c PROVE CallInv(d)'
  BY <1>1, Zenon DEF RoutingInv, CallInv, Same
<1>. QED  BY <1>1, Zenon DEF RoutingInv

\* Updates of a function of the calls.
LEMMA UpdateFacts ==
    ASSUME NEW S, NEW f \in [Calls -> S], NEW c \in Calls, NEW v \in S,
           NEW g, g = [f EXCEPT ![c] = v]
    PROVE  g \in [Calls -> S] /\ g[c] = v /\ \A d \in Calls : d # c => g[d] = f[d]
BY Zenon

\* A step that moves c to q and dials nothing.
LEMMA MoveStep ==
    ASSUME RoutingInv, NEW c \in Calls, NEW q \in Locations,
           pc' = [pc EXCEPT ![c] = q],
           UNCHANGED <<now, owners, tries, next, movedAt, applied>>,
           cached' \in Assertions \cup {None}, mu' \in Calls \cup {None},
           asked' \in [Calls -> Nat], \A d \in Calls : d # c => asked'[d] = asked[d],
           reply' \in [Calls -> Assertions \cup {None}], \A d \in Calls : d # c => reply'[d] = reply[d],
           out' \in [Calls -> {"none", "ok", "error"}],
           Dialled(q, tries[c]), Progress(q, Len(tries[c]), next[c], movedAt[c]),
           Counted(q, Len(tries[c]), next[c], movedAt[c], applied[c]),
           InTime(q, asked'[c], now), q \in {"moved", "accept"} => reply'[c] \in Assertions
    PROVE  RoutingInv'
<1>0. TypeOK
  BY Zenon DEF RoutingInv
<1>1. pc' \in [Calls -> Locations] /\ pc'[c] = q /\ \A d \in Calls : d # c => pc'[d] = pc[d]
  BY <1>0, Zenon DEF TypeOK
<1>2. TypeOK'
  BY <1>0, <1>1, Zenon DEF TypeOK
<1>3. \A d \in Calls : d # c => Same(d)
  BY <1>1, Zenon DEF Same
<1>4. CallInv(c)'
  BY <1>1, Zenon DEF CallInv
<1>. QED  BY <1>2, <1>3, <1>4, CallStep, Zenon

\* Goto and Return set the location and the outcome.
LEMMA ReturnFacts ==
    ASSUME TypeOK, NEW c \in Calls, NEW o \in {"ok", "error"}, Return(c, o)
    PROVE  pc' = [pc EXCEPT ![c] = "done"] /\ out' \in [Calls -> {"none", "ok", "error"}]
BY Zenon DEF Return, TypeOK

LEMMA GotoFacts ==
    ASSUME TypeOK, NEW c \in Calls, NEW q, Goto(c, q)
    PROVE  pc' = [pc EXCEPT ![c] = q] /\ out' \in [Calls -> {"none", "ok", "error"}]
BY Zenon DEF Goto, TypeOK

\* A call may return from anywhere.
LEMMA DoneFacts ==
    ASSUME RoutingInv, NEW c \in Calls
    PROVE  /\ Dialled("done", tries[c]) /\ Progress("done", Len(tries[c]), next[c], movedAt[c])
           /\ Counted("done", Len(tries[c]), next[c], movedAt[c], applied[c])
           /\ \A a, t : InTime("done", a, t)
BY Zenon DEF RoutingInv, CallInv, Dialled, Progress, Counted, InTime

\* A call that returns without another command or dial.
LEMMA ReturnStep ==
    ASSUME RoutingInv, NEW c \in Calls, Return(c, "error"),
           UNCHANGED <<now, owners, asked, reply, tries, next, movedAt, applied>>,
           cached' \in Assertions \cup {None}, mu' \in Calls \cup {None}
    PROVE  RoutingInv'
<1>0. TypeOK
  BY Zenon DEF RoutingInv
<1>1. pc' = [pc EXCEPT ![c] = "done"] /\ out' \in [Calls -> {"none", "ok", "error"}]
  BY <1>0, ReturnFacts, Zenon
<1>2. asked' \in [Calls -> Nat] /\ reply' \in [Calls -> Assertions \cup {None}]
  BY <1>0, Zenon DEF TypeOK
<1>3. "done" \in Locations /\ "done" \notin {"moved", "accept"}
  BY Zenon DEF Locations
<1>. QED  BY <1>1, <1>2, <1>3, DoneFacts, MoveStep, Zenon

\* Begin, the start of a fetch, the dial and the handshake, the way to
\* acceptMoved.
LEMMA GotoStep ==
    ASSUME RoutingInv, NEW c \in Calls,
           \/ Begin(c) \/ ResolveFetch(c) \/ FetchFails(c) \/ Invalidate(c) \/ LockMoved(c)
           \/ \E b \in BOOLEAN : Dial(c, b) \/ Auth(c, b)
    PROVE  RoutingInv'
<1>0. TypeOK /\ CallInv(c)
  BY Zenon DEF RoutingInv
<1>1. ASSUME NEW q \in Locations, Goto(c, q), UNCHANGED <<now, owners, cached, asked, reply, tries, next, movedAt, applied>>,
             mu' \in Calls \cup {None}, Dialled(q, tries[c]), q \notin {"fetch", "moved"},
             Progress(q, Len(tries[c]), next[c], movedAt[c]), pc[c] # "done",
             q = "accept" => pc[c] = "moved"
      PROVE  RoutingInv'
  <2>1. pc' = [pc EXCEPT ![c] = q] /\ out' \in [Calls -> {"none", "ok", "error"}]
    BY <1>0, <1>1, GotoFacts, Zenon
  <2>2. /\ asked' \in [Calls -> Nat] /\ reply' \in [Calls -> Assertions \cup {None}]
        /\ cached' \in Assertions \cup {None}
    BY <1>0, <1>1, Zenon DEF TypeOK
  <2>3. Counted(q, Len(tries[c]), next[c], movedAt[c], applied[c])
    BY <1>0, <1>1, Zenon DEF CallInv, Counted
  <2>4. InTime(q, asked'[c], now) /\ (q \in {"moved", "accept"} => reply'[c] \in Assertions)
    BY <1>0, <1>1, Zenon DEF InTime, CallInv
  <2>. QED  BY <1>1, <2>1, <2>2, <2>3, <2>4, MoveStep, Zenon
<1>2. CASE Begin(c)
  <2>1. Dialled("resolve", tries[c]) /\ Progress("resolve", Len(tries[c]), next[c], movedAt[c]) /\ pc[c] # "done"
    BY <1>0, <1>2, Zenon DEF Begin, CallInv, Dialled, Progress
  <2>. QED  BY <1>0, <1>1, <1>2, <2>1, Zenon DEF Begin, Locations, TypeOK
<1>3. CASE ResolveFetch(c)
  <2>0. /\ pc[c] = "resolve" /\ mu' = c /\ asked' = [asked EXCEPT ![c] = now] /\ reply' = [reply EXCEPT ![c] = None]
        /\ Goto(c, "fetch") /\ UNCHANGED <<now, owners, cached, tries, next, movedAt, applied>>
    BY <1>3, Zenon DEF ResolveFetch
  <2>1. pc' = [pc EXCEPT ![c] = "fetch"] /\ out' \in [Calls -> {"none", "ok", "error"}]
    BY <1>0, <2>0, GotoFacts, Zenon
  <2>2. /\ asked' \in [Calls -> Nat] /\ asked'[c] = now /\ \A d \in Calls : d # c => asked'[d] = asked[d]
        /\ reply' \in [Calls -> Assertions \cup {None}] /\ \A d \in Calls : d # c => reply'[d] = reply[d]
        /\ cached' \in Assertions \cup {None}
    BY <1>0, <2>0, Zenon DEF TypeOK
  <2>3. /\ Dialled("fetch", tries[c]) /\ Progress("fetch", Len(tries[c]), next[c], movedAt[c])
        /\ Counted("fetch", Len(tries[c]), next[c], movedAt[c], applied[c])
    BY <1>0, <2>0, Zenon DEF CallInv, Dialled, Progress, Counted
  <2>4. InTime("fetch", asked'[c], now)
    BY <1>0, <2>2, RoutingAssumption DEF InTime, TypeOK
  <2>5. "fetch" \in Locations /\ "fetch" \notin {"moved", "accept"} /\ mu' \in Calls \cup {None}
    BY <2>0, Zenon DEF Locations
  <2>. QED  BY <2>0, <2>1, <2>2, <2>3, <2>4, <2>5, MoveStep, Zenon
<1>4. CASE FetchFails(c)
  BY <1>0, <1>4, ReturnStep, Zenon DEF FetchFails, Unlock, TypeOK
<1>5. CASE Invalidate(c)
  BY <1>0, <1>5, ReturnStep, Zenon DEF Invalidate, TypeOK
<1>6. CASE LockMoved(c)
  <2>1. Dialled("accept", tries[c]) /\ Progress("accept", Len(tries[c]), next[c], movedAt[c]) /\ pc[c] = "moved"
    BY <1>0, <1>6, Zenon DEF LockMoved, CallInv, Dialled, Progress
  <2>. QED  BY <1>1, <1>6, <2>1, Zenon DEF LockMoved, Locations
<1>7. ASSUME NEW b \in BOOLEAN, Dial(c, b) PROVE RoutingInv'
  <2>1. CASE Goto(c, "auth")
    <3>1. Dialled("auth", tries[c]) /\ Progress("auth", Len(tries[c]), next[c], movedAt[c]) /\ pc[c] # "done"
      BY <1>0, <1>7, Zenon DEF Dial, CallInv, Dialled, Progress
    <3>. QED  BY <1>0, <1>1, <1>7, <2>1, <3>1, Zenon DEF Dial, Locations, TypeOK
  <2>2. CASE Len(tries[c]) = 1 /\ Goto(c, "invalidate")
    <3>1. Dialled("invalidate", tries[c]) /\ Progress("invalidate", Len(tries[c]), next[c], movedAt[c]) /\ pc[c] # "done"
      BY <1>0, <1>7, <2>2, Zenon DEF Dial, CallInv, Dialled, Progress
    <3>. QED  BY <1>0, <1>1, <1>7, <2>2, <3>1, Zenon DEF Dial, Locations, TypeOK
  <2>3. CASE Return(c, "error")
    BY <1>0, <1>7, <2>3, ReturnStep, Zenon DEF Dial, TypeOK
  <2>. QED  BY <1>7, <2>1, <2>2, <2>3, Zenon DEF Dial
<1>8. ASSUME NEW b \in BOOLEAN, Auth(c, b) PROVE RoutingInv'
  <2>1. CASE Goto(c, "op")
    <3>1. Dialled("op", tries[c]) /\ Progress("op", Len(tries[c]), next[c], movedAt[c]) /\ pc[c] # "done"
      BY <1>0, <1>8, RoutingAssumption DEF Auth, CallInv, Dialled, Progress
    <3>. QED  BY <1>0, <1>1, <1>8, <2>1, <3>1, Zenon DEF Auth, Locations, TypeOK
  <2>2. CASE Return(c, "error")
    BY <1>0, <1>8, <2>2, ReturnStep, Zenon DEF Auth, TypeOK
  <2>. QED  BY <1>8, <2>1, <2>2, Zenon DEF Auth
<1>. QED  BY <1>2, <1>3, <1>4, <1>5, <1>6, <1>7, <1>8, Zenon

\* An assertion is dialled, the first one or one that advances.
LEMMA DialStep ==
    ASSUME RoutingInv, NEW c \in Calls, NEW a \in Assertions, Dials(c, a),
           UNCHANGED <<now, owners, asked, reply, movedAt, applied>>,
           cached' \in Assertions \cup {None}, mu' \in Calls \cup {None},
           \/ pc[c] \in {"resolve", "fetch"}
           \/ /\ pc[c] = "accept"
              /\ Target(c).epoch < a.epoch /\ Target(c).endpoint # a.endpoint
    PROVE  RoutingInv' /\ pc'[c] = "dial" /\ tries'[c] = Append(tries[c], a)
<1>0. TypeOK /\ CallInv(c)
  BY Zenon DEF RoutingInv
<1>1. pc' = [pc EXCEPT ![c] = "dial"] /\ out' \in [Calls -> {"none", "ok", "error"}]
  BY <1>0, GotoFacts, Zenon DEF Dials
<1>2. /\ pc' \in [Calls -> Locations] /\ pc'[c] = "dial" /\ \A d \in Calls : d # c => pc'[d] = pc[d]
      /\ next' \in [Calls -> Nat] /\ next'[c] = 1 /\ \A d \in Calls : d # c => next'[d] = next[d]
  BY <1>0, <1>1, Zenon DEF Dials, TypeOK, Locations
<1>3. tries[c] \in Seq(Assertions) /\ Append(tries[c], a) \in Seq(Assertions) /\ Len(Append(tries[c], a)) = Len(tries[c]) + 1
  BY <1>0 DEF TypeOK
<1>4. /\ tries' \in [Calls -> Seq(Assertions)] /\ tries'[c] = Append(tries[c], a)
      /\ \A d \in Calls : d # c => tries'[d] = tries[d]
  BY <1>0, <1>3, Zenon DEF Dials, TypeOK
<1>5. TypeOK'
  BY <1>0, <1>1, <1>2, <1>4, Zenon DEF TypeOK
<1>6. \A d \in Calls : d # c => Same(d)
  BY <1>2, <1>4, Zenon DEF Same
<1>7. Dialled("dial", Append(tries[c], a))
  <2>1. CASE pc[c] \in {"resolve", "fetch"}
    BY <1>0, <1>3, <2>1 DEF CallInv, Dialled
  <2>2. CASE pc[c] = "accept" /\ Target(c).epoch < a.epoch /\ Target(c).endpoint # a.endpoint
    <3>1. Len(tries[c]) = 1 /\ Target(c) = tries[c][1]
      BY <1>0, <2>2, Zenon DEF CallInv, Dialled, Target
    <3>2. Append(tries[c], a)[1] = tries[c][1] /\ Append(tries[c], a)[2] = a
      BY <1>3, <3>1
    <3>. QED  BY <1>3, <2>2, <3>1, <3>2 DEF Dialled
  <2>. QED  BY <2>1, <2>2, Zenon
<1>8. /\ Progress("dial", Len(Append(tries[c], a)), 1, movedAt[c])
      /\ Counted("dial", Len(Append(tries[c], a)), 1, movedAt[c], applied[c])
  <2>1. CASE pc[c] \in {"resolve", "fetch"}
    <3>1. Len(tries[c]) = 0 /\ next[c] = 1 /\ movedAt[c] = 0
      BY <1>0, <2>1 DEF CallInv, Dialled, Progress
    <3>. QED  BY <1>0, <1>3, <2>1, <3>1, RoutingAssumption DEF CallInv, Progress, Counted
  <2>2. CASE pc[c] = "accept"
    <3>1. Len(tries[c]) = 1 /\ next[c] \in 1..Commands /\ movedAt[c] = next[c]
      BY <1>0, <2>2, Zenon DEF CallInv, Dialled, Progress
    <3>2. Progress("dial", Len(Append(tries[c], a)), 1, movedAt[c])
      BY <1>0, <1>3, <3>1, RoutingAssumption DEF Progress
    <3>3. ASSUME NEW k \in 1..Commands
          PROVE  /\ applied[c][k] <= 2 /\ (applied[c][k] = 2 => k < movedAt[c])
                 /\ applied[c][k] = (IF k < next[c] THEN 1 ELSE 0) + (IF Len(tries[c]) = 2 /\ k < movedAt[c] THEN 1 ELSE 0)
      BY <1>0, <2>2, Zenon DEF CallInv, Counted
    <3>. QED  BY <1>0, <1>3, <3>1, <3>2, <3>3, RoutingAssumption DEF Counted
  <2>. QED  BY <2>1, <2>2, Zenon
<1>9. CallInv(c)'
  <2>1. Dialled(pc'[c], tries'[c])
    BY <1>2, <1>4, <1>7, Zenon
  <2>2. Progress(pc'[c], Len(tries'[c]), next'[c], movedAt'[c])
    BY <1>2, <1>4, <1>8, Zenon
  <2>3. Counted(pc'[c], Len(tries'[c]), next'[c], movedAt'[c], applied'[c])
    BY <1>2, <1>4, <1>8, Zenon
  <2>. QED  BY <1>2, <2>1, <2>2, <2>3, Zenon DEF CallInv, InTime
<1>. QED  BY <1>2, <1>4, <1>5, <1>6, <1>9, CallStep, Zenon

\* Resolve and acceptMoved, with the assertion they return.
LEMMA ResolveStep ==
    ASSUME RoutingInv, NEW c \in Calls,
           \/ ResolveCached(c)
           \/ \E keyKnown \in BOOLEAN : FetchEnds(c, keyKnown) \/ AcceptMoved(c, keyKnown)
    PROVE  RoutingInv'
<1>0. TypeOK /\ CallInv(c)
  BY Zenon DEF RoutingInv
<1>1. CASE ResolveCached(c)
  BY <1>0, <1>1, DialStep, Zenon DEF ResolveCached, CacheUsable, TypeOK
<1>2. ASSUME NEW k \in BOOLEAN, FetchEnds(c, k) PROVE RoutingInv'
  <2>1. CASE cached' = reply[c] /\ Dials(c, reply[c])
    BY <1>0, <1>2, <2>1, DialStep, Zenon DEF FetchEnds, Unlock, TypeOK
  <2>2. CASE Return(c, "error") /\ UNCHANGED <<cached, tries, next>>
    BY <1>0, <1>2, <2>2, ReturnStep, Zenon DEF FetchEnds, Unlock, TypeOK
  <2>. QED  BY <1>2, <2>1, <2>2, Zenon DEF FetchEnds
<1>3. ASSUME NEW k \in BOOLEAN, AcceptMoved(c, k) PROVE RoutingInv'
  <2>0. reply[c] \in Assertions
    BY <1>0, <1>3, Zenon DEF AcceptMoved, CallInv
  <2>1. CASE /\ Target(c).epoch < reply[c].epoch /\ Target(c).endpoint # reply[c].endpoint
             /\ cached' = reply[c] /\ Dials(c, reply[c])
    BY <1>3, <2>0, <2>1, DialStep, Zenon DEF AcceptMoved, Unlock
  <2>2. CASE Return(c, "error") /\ UNCHANGED <<cached, tries, next>>
    BY <1>0, <1>3, <2>2, ReturnStep, Zenon DEF AcceptMoved, Unlock, TypeOK
  <2>. QED  BY <1>3, <2>1, <2>2, Zenon DEF AcceptMoved
<1>. QED  BY <1>1, <1>2, <1>3, Zenon

\* The next command of c takes effect once more.
LEMMA AppliedFacts ==
    ASSUME TypeOK, NEW c \in Calls, next[c] \in 1..Commands,
           applied' = [applied EXCEPT ![c][next[c]] = @ + 1]
    PROVE  /\ applied' \in [Calls -> [1..Commands -> Nat]]
           /\ applied'[c][next[c]] = applied[c][next[c]] + 1
           /\ \A k \in 1..Commands : k # next[c] => applied'[c][k] = applied[c][k]
           /\ \A d \in Calls : d # c => applied'[d] = applied[d]
<1>. DEFINE a == [applied[c] EXCEPT ![next[c]] = applied[c][next[c]] + 1]
<1>0. applied \in [Calls -> [1..Commands -> Nat]]
  BY Zenon DEF TypeOK
<1>1. applied[c] \in [1..Commands -> Nat] /\ applied[c][next[c]] + 1 \in Nat
  <2>1. applied[c] \in [1..Commands -> Nat] /\ applied[c][next[c]] \in Nat
    BY <1>0, Zenon
  <2>. QED  BY <2>1
<1>2. /\ a \in [1..Commands -> Nat] /\ a[next[c]] = applied[c][next[c]] + 1
      /\ \A k \in 1..Commands : k # next[c] => a[k] = applied[c][k]
  BY <1>1, Zenon
<1>3. applied' = [applied EXCEPT ![c] = a]
  BY Zenon
<1>. HIDE DEF a
<1>4. applied' \in [Calls -> [1..Commands -> Nat]] /\ applied'[c] = a /\ \A d \in Calls : d # c => applied'[d] = applied[d]
  BY <1>0, <1>2, <1>3, UpdateFacts
<1>. QED  BY <1>2, <1>4, Zenon

\* A command is answered, or takes effect and its answer is lost.
LEMMA CommandStep ==
    ASSUME RoutingInv, NEW c \in Calls,
           CommandOk(c) \/ \E effect \in BOOLEAN : CommandFails(c, effect)
    PROVE  RoutingInv'
<1>0. TypeOK /\ CallInv(c) /\ pc[c] = "op"
  BY Zenon DEF RoutingInv, CommandOk, CommandFails
<1>1. next[c] \in 1..Commands /\ Len(tries[c]) \in 1..2 /\ movedAt[c] <= Commands /\ movedAt[c] \in Nat
  <2>1. tries[c] \in Seq(Assertions) /\ movedAt[c] \in Nat
    BY <1>0, Zenon DEF TypeOK
  <2>2. Len(tries[c]) \in Nat
    BY <2>1
  <2>3. Len(tries[c]) \in 1..2
    <3>1. Len(tries[c]) > 0 /\ Len(tries[c]) <= 2
      BY <1>0, Zenon DEF CallInv, Dialled
    <3>2. \A l \in Nat : l > 0 /\ l <= 2 => l \in 1..2
      OBVIOUS
    <3>. QED  BY <2>2, <3>1, <3>2, Zenon
  <2>. QED  BY <1>0, <2>1, <2>3, Zenon DEF CallInv, Progress
<1>2. ASSUME NEW k \in 1..Commands
      PROVE  applied[c][k] = (IF k < next[c] THEN 1 ELSE 0) + (IF Len(tries[c]) = 2 /\ k < movedAt[c] THEN 1 ELSE 0)
  BY <1>0, Zenon DEF CallInv, Counted
<1>3. CASE CommandFails(c, FALSE)
  BY <1>0, <1>3, ReturnStep, Zenon DEF CommandFails, TypeOK
<1>4. ASSUME applied' = [applied EXCEPT ![c][next[c]] = @ + 1],
             UNCHANGED <<now, owners, cached, mu, asked, reply, tries, movedAt>>,
             NEW q \in {"op", "done"}, pc' = [pc EXCEPT ![c] = q], out' \in [Calls -> {"none", "ok", "error"}],
             next' \in [Calls -> Nat], \A d \in Calls : d # c => next'[d] = next[d],
             q = "op" => next'[c] = next[c] + 1 /\ next[c] < Commands
      PROVE  RoutingInv'
  <2>1. /\ applied' \in [Calls -> [1..Commands -> Nat]]
        /\ applied'[c][next[c]] = applied[c][next[c]] + 1
        /\ \A k \in 1..Commands : k # next[c] => applied'[c][k] = applied[c][k]
        /\ \A d \in Calls : d # c => applied'[d] = applied[d]
    BY <1>0, <1>1, <1>4, AppliedFacts, Zenon
  <2>2. pc' \in [Calls -> Locations] /\ pc'[c] = q /\ \A d \in Calls : d # c => pc'[d] = pc[d]
    BY <1>0, <1>4, Zenon DEF TypeOK, Locations
  <2>3. TypeOK'
    BY <1>0, <1>4, <2>1, <2>2, Zenon DEF TypeOK
  <2>4. \A d \in Calls : d # c => Same(d)
    BY <1>4, <2>1, <2>2, Zenon DEF Same
  <2>5. Dialled(q, tries[c]) /\ Progress(q, Len(tries[c]), next'[c], movedAt[c])
    <3>1. Dialled("op", tries[c]) /\ Progress("op", Len(tries[c]), next[c], movedAt[c])
      BY <1>0, Zenon DEF CallInv
    <3>2. Dialled(q, tries[c])
      BY <1>4, <3>1, Zenon DEF Dialled
    <3>3. \A n \in 1..Commands : n < Commands => n + 1 \in 1..Commands
      BY RoutingAssumption
    <3>4. q = "op" => next'[c] \in 1..Commands
      BY <1>1, <1>4, <3>3, Zenon
    <3>5. Progress(q, Len(tries[c]), next'[c], movedAt[c])
      BY <1>4, <3>1, <3>4, Zenon DEF Progress
    <3>. QED  BY <3>2, <3>5, Zenon
  <2>6. ASSUME NEW k \in 1..Commands
        PROVE  /\ applied'[c][k] <= 2 /\ (applied'[c][k] = 2 => k < movedAt[c])
               /\ q # "done" => applied'[c][k] = (IF k < next'[c] THEN 1 ELSE 0)
                                                   + (IF Len(tries[c]) = 2 /\ k < movedAt[c] THEN 1 ELSE 0)
    <3>1. CASE k = next[c]
      <4>1. applied'[c][k] = (IF Len(tries[c]) = 2 /\ k < movedAt[c] THEN 1 ELSE 0) + 1
        BY <1>1, <1>2, <2>1, <3>1
      <4>. QED  BY <1>1, <1>4, <3>1, <4>1, RoutingAssumption
    <3>2. CASE k # next[c]
      <4>1. applied'[c][k] = (IF k < next[c] THEN 1 ELSE 0) + (IF Len(tries[c]) = 2 /\ k < movedAt[c] THEN 1 ELSE 0)
        BY <1>2, <2>1, <3>2, Zenon
      <4>. QED  BY <1>1, <1>4, <3>2, <4>1, RoutingAssumption
    <3>. QED  BY <3>1, <3>2, Zenon
  <2>7. Counted(q, Len(tries[c]), next'[c], movedAt[c], applied'[c])
    BY <2>6, Zenon DEF Counted
  <2>8. CallInv(c)'
    BY <1>4, <2>2, <2>5, <2>7, Zenon DEF CallInv, InTime
  <2>. QED  BY <1>4, <2>3, <2>4, <2>8, CallStep, Zenon
<1>5. CASE CommandFails(c, TRUE)
  <2>1. Return(c, "error") /\ UNCHANGED next
    BY <1>5, Zenon DEF CommandFails
  <2>2. pc' = [pc EXCEPT ![c] = "done"] /\ out' \in [Calls -> {"none", "ok", "error"}]
    BY <1>0, <2>1, ReturnFacts, Zenon
  <2>. QED  BY <1>0, <1>4, <1>5, <2>1, <2>2, Zenon DEF CommandFails, TypeOK
<1>6. CASE CommandOk(c)
  <2>0. next' = [next EXCEPT ![c] = next[c] + 1] /\ next[c] + 1 \in Nat
    BY <1>1, <1>6 DEF CommandOk
  <2>1. next' \in [Calls -> Nat] /\ next'[c] = next[c] + 1 /\ \A d \in Calls : d # c => next'[d] = next[d]
    BY <1>0, <2>0, Zenon DEF TypeOK
  <2>2. CASE next[c] = Commands /\ Return(c, "ok")
    <3>1. pc' = [pc EXCEPT ![c] = "done"] /\ out' \in [Calls -> {"none", "ok", "error"}]
      BY <1>0, <2>2, ReturnFacts, Zenon
    <3>. QED  BY <1>4, <1>6, <2>1, <3>1, Zenon DEF CommandOk
  <2>3. CASE next[c] # Commands /\ Goto(c, "op")
    <3>1. pc' = [pc EXCEPT ![c] = "op"] /\ out' \in [Calls -> {"none", "ok", "error"}]
      BY <1>0, <2>3, GotoFacts, Zenon
    <3>2. next[c] < Commands
      BY <1>1, <2>3, RoutingAssumption
    <3>. QED  BY <1>4, <1>6, <2>1, <3>1, <3>2, Zenon DEF CommandOk
  <2>. QED  BY <1>6, <2>2, <2>3, Zenon DEF CommandOk
<1>. QED  BY <1>3, <1>5, <1>6, Zenon

\* A command is answered with MOVED.
LEMMA MovedStep ==
    ASSUME RoutingInv, NEW c \in Calls, NEW epoch \in Nat, NEW issued \in Nat, CommandMoved(c, epoch, issued)
    PROVE  RoutingInv'
<1>0. TypeOK /\ CallInv(c) /\ pc[c] = "op"
  BY Zenon DEF RoutingInv, CommandMoved
<1>1. CASE Return(c, "error") /\ UNCHANGED <<movedAt, reply>>
  BY <1>0, <1>1, ReturnStep, Zenon DEF CommandMoved, TypeOK
<1>. DEFINE r == [endpoint |-> owners[epoch], epoch |-> epoch, issuedAt |-> issued, expiresAt |-> issued + Lifetime]
<1>2. CASE /\ Len(tries[c]) = 1 /\ Goto(c, "moved") /\ movedAt' = [movedAt EXCEPT ![c] = next[c]]
           /\ reply' = [reply EXCEPT ![c] = r]
  <2>0. UNCHANGED <<now, owners, cached, mu, asked, tries, next, applied>>
    BY Zenon DEF CommandMoved
  <2>1. r \in Assertions
    <3>1. owners[epoch] \in Instances
      BY <1>0 DEF CommandMoved, Epoch, TypeOK
    <3>2. issued + Lifetime \in Nat
      BY RoutingAssumption
    <3>. QED  BY <3>1, <3>2, Zenon DEF Assertions
  <2>. HIDE DEF r
  <2>2. pc' = [pc EXCEPT ![c] = "moved"] /\ out' \in [Calls -> {"none", "ok", "error"}]
    BY <1>0, <1>2, GotoFacts, Zenon
  <2>3. "moved" \in Locations
    BY Zenon DEF Locations
  <2>4. /\ pc' \in [Calls -> Locations] /\ pc'[c] = "moved" /\ \A d \in Calls : d # c => pc'[d] = pc[d]
        /\ movedAt' \in [Calls -> Nat] /\ movedAt'[c] = next[c] /\ \A d \in Calls : d # c => movedAt'[d] = movedAt[d]
        /\ reply' \in [Calls -> Assertions \cup {None}] /\ reply'[c] = r /\ \A d \in Calls : d # c => reply'[d] = reply[d]
    BY <1>0, <1>2, <2>1, <2>2, <2>3, Zenon DEF TypeOK
  <2>5. TypeOK'
    BY <1>0, <2>0, <2>2, <2>4, Zenon DEF TypeOK
  <2>6. \A d \in Calls : d # c => Same(d)
    BY <2>0, <2>4, Zenon DEF Same
  <2>7. next[c] \in 1..Commands /\ movedAt[c] = 0
    BY <1>0, <1>2 DEF CallInv, Progress
  <2>8. Dialled("moved", tries[c]) /\ Progress("moved", Len(tries[c]), next[c], next[c])
    BY <1>0, <1>2, <2>7, RoutingAssumption DEF CallInv, Dialled, Progress
  <2>9. Counted("moved", Len(tries[c]), next[c], next[c], applied[c])
    BY <1>0, <1>2, <2>7 DEF CallInv, Counted
  <2>10. CallInv(c)'
    BY <2>0, <2>1, <2>4, <2>8, <2>9, Zenon DEF CallInv, InTime
  <2>. QED  BY <2>0, <2>5, <2>6, <2>10, CallStep, Zenon
<1>. QED  BY <1>1, <1>2, Zenon DEF CommandMoved

\* Control answers, ownership moves, time passes.
LEMMA AnswerStep ==
    ASSUME RoutingInv, NEW c \in Calls, NEW lifetime \in Nat, ControlAnswers(c, lifetime)
    PROVE  RoutingInv'
<1>0. TypeOK /\ CallInv(c) /\ pc[c] = "fetch"
  BY Zenon DEF RoutingInv, ControlAnswers
<1>. DEFINE r == [endpoint |-> owners[Epoch], epoch |-> Epoch, issuedAt |-> now, expiresAt |-> now + lifetime]
<1>1. /\ reply' = [reply EXCEPT ![c] = r]
      /\ UNCHANGED <<now, owners, cached, mu, pc, asked, tries, next, movedAt, applied, out>>
  BY Zenon DEF ControlAnswers
<1>2. r \in Assertions
  <2>0. owners \in Seq(Instances) /\ owners # <<>> /\ now \in Nat
    BY <1>0, Zenon DEF TypeOK
  <2>1. owners[Epoch] \in Instances /\ Epoch \in Nat /\ now + lifetime \in Nat
    BY <2>0 DEF Epoch
  <2>. QED  BY <2>0, <2>1, Zenon DEF Assertions
<1>. HIDE DEF r
<1>3. reply' \in [Calls -> Assertions \cup {None}] /\ \A d \in Calls : d # c => reply'[d] = reply[d]
  BY <1>0, <1>1, <1>2, Zenon DEF TypeOK
<1>4. TypeOK'
  BY <1>0, <1>1, <1>3, Zenon DEF TypeOK
<1>5. CallInv(c)'
  BY <1>0, <1>1, Zenon DEF CallInv
<1>. QED  BY <1>1, <1>3, <1>4, <1>5, CallStep, Zenon DEF Same

LEMMA MoveOwnerStep ==
    ASSUME RoutingInv, NEW i \in Instances, Move(i)
    PROVE  RoutingInv'
<1>0. TypeOK
  BY Zenon DEF RoutingInv
<1>1. owners' = Append(owners, i) /\ UNCHANGED <<now, cached, mu, pc, asked, reply, tries, next, movedAt, applied, out>>
  BY Zenon DEF Move, callVars
<1>2. owners' \in Seq(Instances) /\ owners' # <<>>
  <2>1. owners \in Seq(Instances)
    BY <1>0, Zenon DEF TypeOK
  <2>. QED  BY <1>1, <2>1
<1>3. TypeOK'
  BY <1>0, <1>1, <1>2, Zenon DEF TypeOK
<1>. QED  BY <1>1, <1>3, Zenon DEF RoutingInv, CallInv

LEMMA TickStep == RoutingInv /\ Tick => RoutingInv'
<1>. SUFFICES ASSUME RoutingInv, Tick PROVE RoutingInv'
  BY Zenon
<1>0. TypeOK
  BY Zenon DEF RoutingInv
<1>1. now' = now + 1 /\ UNCHANGED <<owners, cached, mu, pc, asked, reply, tries, next, movedAt, applied, out>>
  BY Zenon DEF Tick, callVars
<1>2. now \in Nat /\ now' \in Nat
  <2>1. now \in Nat
    BY <1>0, Zenon DEF TypeOK
  <2>. QED  BY <1>1, <2>1
<1>3. TypeOK'
  BY <1>0, <1>1, <1>2, Zenon DEF TypeOK
<1>4. ASSUME NEW c \in Calls PROVE CallInv(c)'
  <2>1. InTime(pc[c], asked[c], now + 1)
    <3>1. asked[c] \in Nat
      BY <1>0, Zenon DEF TypeOK
    <3>. QED  BY <1>2, <3>1, RoutingAssumption DEF Tick, InTime
  <2>. QED  BY <1>1, <2>1, Zenon DEF RoutingInv, CallInv
<1>. QED  BY <1>3, <1>4, Zenon DEF RoutingInv

\* Every step of the calls and of Control keeps the invariant.
LEMMA RoutingStep == RoutingInv /\ [Next]_vars => RoutingInv'
<1>. SUFFICES ASSUME RoutingInv, [Next]_vars PROVE RoutingInv'
  BY Zenon
<1>1. ASSUME NEW c \in Calls, Begin(c) \/ Step(c) PROVE RoutingInv'
  <2>1. ASSUME NEW epoch \in 1..MaxEpoch, NEW issued \in 1..MaxTime, CommandMoved(c, epoch, issued) PROVE RoutingInv'
    <3>1. epoch \in Nat /\ issued \in Nat
      BY RoutingAssumption
    <3>. QED  BY <2>1, <3>1, MovedStep, Zenon
  <2>. QED  BY <1>1, <2>1, GotoStep, ResolveStep, CommandStep, Zenon DEF Step
<1>2. ASSUME NEW c \in Calls, NEW lifetime \in {1, Lifetime}, ControlAnswers(c, lifetime) PROVE RoutingInv'
  <2>1. lifetime \in Nat
    BY RoutingAssumption
  <2>. QED  BY <1>2, <2>1, AnswerStep, Zenon
<1>3. CASE UNCHANGED vars
  <2>1. UNCHANGED <<now, owners, cached, mu, pc, asked, reply, tries, next, movedAt, applied, out>>
    BY <1>3, Zenon DEF vars, callVars
  <2>2. TypeOK'
    BY <2>1, Zenon DEF RoutingInv, TypeOK
  <2>. QED  BY <2>1, <2>2, Zenon DEF RoutingInv, CallInv
<1>. QED  BY <1>1, <1>2, <1>3, MoveOwnerStep, TickStep, Zenon DEF Next

LEMMA RoutingStarts == Init => RoutingInv
<1>. SUFFICES ASSUME Init PROVE RoutingInv
  BY Zenon
<1>1. TypeOK
  <2>1. now \in Nat /\ owners \in Seq(Instances) /\ owners # <<>>
    <3>1. PICK i \in Instances : owners = <<i>>
      BY Zenon DEF Init
    <3>. QED  BY <3>1 DEF Init
  <2>2. pc \in [Calls -> Locations] /\ out \in [Calls -> {"none", "ok", "error"}]
    BY Zenon DEF Init, Locations
  <2>3. /\ asked \in [Calls -> Nat] /\ tries \in [Calls -> Seq(Assertions)]
        /\ next \in [Calls -> Nat] /\ movedAt \in [Calls -> Nat]
    BY DEF Init
  <2>4. reply \in [Calls -> Assertions \cup {None}]
    BY Zenon DEF Init
  <2>5. applied \in [Calls -> [1..Commands -> Nat]]
    BY Zenon DEF Init
  <2>. QED  BY <2>1, <2>2, <2>3, <2>4, <2>5, Zenon DEF Init, TypeOK
<1>2. ASSUME NEW c \in Calls PROVE CallInv(c)
  BY RoutingAssumption DEF Init, CallInv, Dialled, Progress, Counted, InTime
<1>. QED  BY <1>1, <1>2, Zenon DEF RoutingInv

\* The invariant of the calls of WithOwnerRetry: how often each has dialled,
\* where its operation is, which commands have been applied, and that a fetch
\* has not used up its time.
THEOREM RoutingInvariance == Spec => []RoutingInv
BY RoutingStarts, RoutingStep, PTL DEF Spec

LEMMA RoutingImplies == RoutingInv => RetryAdvances /\ OnlyPrefixRepeats
BY Zenon DEF RoutingInv, CallInv, Dialled, Counted, RetryAdvances, OnlyPrefixRepeats

\* At most two dials, the second at another endpoint and in a later epoch.
THEOREM RetriesAdvance == Spec => []RetryAdvances
BY RoutingImplies, RoutingInvariance, PTL

\* A command is applied twice only if it came before the one that was answered
\* with MOVED.
THEOREM PrefixRepeats == Spec => []OnlyPrefixRepeats
BY RoutingImplies, RoutingInvariance, PTL

\* What is dialled has not expired, or only during the fetch that brought it.
THEOREM DialledFresh == Spec => FreshWhenDialled
<1>. DEFINE Fresh == \A c \in Calls :
          pc[c] # "dial" /\ pc'[c] = "dial" =>
              now < tries'[c][Len(tries'[c])].expiresAt
                      + (IF pc[c] = "fetch" THEN MaxFetch ELSE 0)
<1>1. RoutingInv /\ [Next]_vars => [Fresh]_vars
  <2>. SUFFICES ASSUME RoutingInv, Next, NEW c \in Calls, pc[c] # "dial", pc'[c] = "dial"
                PROVE  now < tries'[c][Len(tries'[c])].expiresAt + (IF pc[c] = "fetch" THEN MaxFetch ELSE 0)
    BY Zenon
  <2>0. TypeOK /\ CallInv(c) /\ now \in Nat
    BY Zenon DEF RoutingInv, TypeOK
  <2>1. ASSUME NEW a \in Assertions, Dials(c, a),
               now < a.expiresAt + (IF pc[c] = "fetch" THEN MaxFetch ELSE 0)
        PROVE  now < tries'[c][Len(tries'[c])].expiresAt + (IF pc[c] = "fetch" THEN MaxFetch ELSE 0)
    <3>1. tries[c] \in Seq(Assertions)
      BY <2>0, Zenon DEF TypeOK
    <3>2. tries'[c] = Append(tries[c], a)
      BY <2>0, <2>1, Zenon DEF Dials, TypeOK
    <3>3. tries'[c][Len(tries'[c])] = a
      BY <3>1, <3>2
    <3>. QED  BY <2>1, <3>3, Zenon
  <2>2. \A a \in Assertions : a.expiresAt \in Nat
    BY Zenon DEF Assertions
  <2>3. CASE ResolveCached(c)
    <3>1. cached \in Assertions /\ Dials(c, cached) /\ now + Margin < cached.expiresAt /\ pc[c] = "resolve"
      BY <2>0, <2>3, Zenon DEF ResolveCached, CacheUsable, TypeOK
    <3>. QED  BY <2>0, <2>1, <2>2, <3>1, RoutingAssumption
  <2>4. ASSUME NEW k \in BOOLEAN, FetchEnds(c, k)
        PROVE  now < tries'[c][Len(tries'[c])].expiresAt + (IF pc[c] = "fetch" THEN MaxFetch ELSE 0)
    <3>1. CASE Return(c, "error")
      BY <2>0, <3>1, Zenon DEF Return, TypeOK
    <3>2. CASE VerifyOwnership(reply[c], asked[c]) /\ Dials(c, reply[c])
      <4>1. reply[c] \in Assertions /\ asked[c] \in Nat /\ pc[c] = "fetch"
        BY <2>0, <2>4, Zenon DEF FetchEnds, TypeOK
      <4>2. now <= asked[c] + MaxFetch /\ asked[c] < reply[c].expiresAt
        BY <2>0, <3>2, <4>1, Zenon DEF CallInv, InTime, VerifyOwnership
      <4>. QED  BY <2>0, <2>1, <2>2, <3>2, <4>1, <4>2, RoutingAssumption
    <3>. QED  BY <2>4, <3>1, <3>2, Zenon DEF FetchEnds
  <2>5. ASSUME NEW k \in BOOLEAN, AcceptMoved(c, k)
        PROVE  now < tries'[c][Len(tries'[c])].expiresAt + (IF pc[c] = "fetch" THEN MaxFetch ELSE 0)
    <3>1. CASE Return(c, "error")
      BY <2>0, <3>1, Zenon DEF Return, TypeOK
    <3>2. CASE VerifyOwnership(reply[c], now) /\ Dials(c, reply[c])
      <4>1. reply[c] \in Assertions /\ pc[c] = "accept"
        BY <2>0, <2>5, Zenon DEF AcceptMoved, CallInv
      <4>2. now < reply[c].expiresAt
        BY <3>2, Zenon DEF VerifyOwnership
      <4>. QED  BY <2>1, <3>2, <4>1, <4>2, <2>2
    <3>. QED  BY <2>5, <3>1, <3>2, Zenon DEF AcceptMoved
  <2>6. pc'[c] # pc[c]
    BY Zenon
  <2>7. ASSUME NEW d \in Calls, NEW q, q # "dial", pc' = [pc EXCEPT ![d] = q] PROVE FALSE
    BY <2>0, <2>7, Zenon DEF TypeOK
  <2>8. ASSUME NEW d \in Calls, Begin(d) \/ Step(d), d # c PROVE FALSE
    <3>1. \E q : pc' = [pc EXCEPT ![d] = q]
      BY <2>8, <2>6, Zenon DEF Begin, Step, ResolveCached, ResolveFetch, FetchEnds, FetchFails, Dial, Invalidate, Auth,
           CommandOk, CommandFails, CommandMoved, LockMoved, AcceptMoved, Goto, Return, Dials
    <3>. QED  BY <2>0, <2>6, <2>8, <3>1, Zenon DEF TypeOK
  <2>9. ASSUME NEW d \in Calls, \/ Begin(d) \/ ResolveFetch(d) \/ FetchFails(d) \/ Invalidate(d) \/ CommandOk(d) \/ LockMoved(d)
                                \/ \E b \in BOOLEAN : Dial(d, b) \/ Auth(d, b) \/ CommandFails(d, b)
                                \/ \E e \in 1..MaxEpoch, i \in 1..MaxTime : CommandMoved(d, e, i)
        PROVE FALSE
    BY <2>7, <2>9, Zenon DEF Begin, ResolveFetch, FetchFails, Dial, Invalidate, Auth, CommandOk, CommandFails,
         CommandMoved, LockMoved, Goto, Return
  <2>10. ASSUME pc' = pc PROVE FALSE
    BY <2>6, <2>10, Zenon
  <2>. QED
    <3>1. CASE Begin(c) \/ Step(c)
      BY <2>3, <2>4, <2>5, <2>9, <3>1, Zenon DEF Step
    <3>2. CASE (\E i \in Instances : Move(i)) \/ Tick \/ \E d \in Calls, lifetime \in {1, Lifetime} : ControlAnswers(d, lifetime)
      BY <2>10, <3>2, Zenon DEF Move, Tick, ControlAnswers, callVars
    <3>. QED  BY <2>8, <3>1, <3>2, Zenon DEF Next
<1>2. [][Fresh]_vars => FreshWhenDialled
  BY Zenon DEF FreshWhenDialled
<1>. QED  BY <1>1, <1>2, RoutingInvariance, PTL DEF Spec

-----------------------------------------------------------------------------
(* LifecycleGateway: what one request changes. *)

\* A step of another request leaves d as it is.
Alike(d) ==
    /\ stage'[d] = stage[d] /\ bearer'[d] = bearer[d] /\ status'[d] = status[d]
    /\ pc'[d] = pc[d] /\ tries'[d] = tries[d] /\ applied'[d] = applied[d]

LEMMA AlikeKept ==
    ASSUME NEW d \in Calls, Alike(d), StageInv(d), EffectInv(d),
           refused \subseteq refused', d \in conflict' => d \in conflict
    PROVE  StageInv(d)' /\ EffectInv(d)'
<1>1. StageInv(d)'
  BY Zenon DEF Alike, StageInv
<1>2. EffectInv(d)'
  BY Zenon DEF Alike, EffectInv
<1>. QED  BY <1>1, <1>2, Zenon

\* A witness of the ledger or of a conflict stays one: a bearer is read once
\* and an effect is not undone.
LEMMA WitnessKept ==
    ASSUME GatewayInv, UNCHANGED work,
           \A d \in Calls : bearer[d] # None => bearer'[d] = bearer[d],
           \A d \in Calls : applied[d][1] > 0 => applied'[d][1] > 0
    PROVE  /\ \A d \in Calls : \A k, x : Wrote(d, k, x) => Wrote(d, k, x)'
           /\ \A c \in conflict : \E d \in Calls :
                  bearer'[d] # None /\ Intent(c)' = Intent(d)' /\ work'[c].arg # work'[d].arg /\ applied'[d][1] > 0
<1>1. ASSUME NEW d \in Calls, bearer[d] # None PROVE Intent(d)' = Intent(d) /\ bearer'[d] # None
  BY <1>1, Zenon DEF Intent
<1>2. \A d \in Calls : \A k, x : Wrote(d, k, x) => Wrote(d, k, x)'
  BY <1>1, Zenon DEF Wrote
<1>3. ASSUME NEW c \in conflict
      PROVE  \E d \in Calls : bearer'[d] # None /\ Intent(c)' = Intent(d)' /\ work'[c].arg # work'[d].arg /\ applied'[d][1] > 0
  <2>1. c \in Calls /\ bearer[c] # None
    BY Zenon DEF GatewayInv, GatewayTypeOK, EffectInv
  <2>2. PICK d \in Calls : bearer[d] # None /\ Intent(c) = Intent(d) /\ work[c].arg # work[d].arg /\ applied[d][1] > 0
    BY Zenon DEF GatewayInv, ConflictIsDeserved
  <2>. QED  BY <1>1, <2>1, <2>2, Zenon
<1>. QED  BY <1>2, <1>3, Zenon

\* A step of c that does not reach the state of the runtime.
LEMMA PlainStep ==
    ASSUME GatewayInv, NEW c \in Calls, RoutingInv', GatewayTypeOK',
           UNCHANGED <<work, ledger, effects, conflict>>,
           bearer[c] # None => bearer'[c] = bearer[c], applied'[c] = applied[c],
           \A d \in Calls : d # c => Alike(d), refused \subseteq refused',
           StageInv(c)', EffectInv(c)', SessionsEndByVerdict'
    PROVE  GatewayInv'
<1>1. \A d \in Calls : StageInv(d)' /\ EffectInv(d)'
  BY AlikeKept, Zenon DEF GatewayInv
<1>2. /\ \A d \in Calls : bearer[d] # None => bearer'[d] = bearer[d]
      /\ \A d \in Calls : applied[d][1] > 0 => applied'[d][1] > 0
  BY Zenon DEF Alike
<1>3. /\ \A d \in Calls : \A k, x : Wrote(d, k, x) => Wrote(d, k, x)'
      /\ \A e \in conflict : \E d \in Calls :
             bearer'[d] # None /\ Intent(e)' = Intent(d)' /\ work'[e].arg # work'[d].arg /\ applied'[d][1] > 0
  BY <1>2, WitnessKept, Zenon
<1>4. LedgerInv'
  <2>1. \A i \in Intents : effects'[i] = IF i \in DOMAIN ledger' THEN 1 ELSE 0
    BY Zenon DEF GatewayInv, LedgerInv
  <2>2. ASSUME NEW k \in DOMAIN ledger PROVE \E d \in Calls : Wrote(d, k, ledger[k])'
    <3>1. PICK d \in Calls : Wrote(d, k, ledger[k])
      BY Zenon DEF GatewayInv, LedgerInv
    <3>2. Wrote(d, k, ledger[k])'
      BY <1>3, <3>1, Zenon DEF Wrote
    <3>. QED  BY <3>2, Zenon
  <2>. QED  BY <2>1, <2>2, Zenon DEF LedgerInv
<1>5. ConflictIsDeserved'
  BY <1>3, Zenon DEF ConflictIsDeserved
<1>. QED  BY <1>1, <1>4, <1>5, Zenon DEF GatewayInv

\* A step that changes none of the calls.
LEMMA RoutingKept ==
    ASSUME RoutingInv, UNCHANGED vars
    PROVE  RoutingInv' /\ UNCHANGED <<pc, tries, applied, out>>
BY RoutingStep, Zenon DEF vars, callVars

\* A session is deleted only after a verdict.
LEMMA VerdictKept ==
    ASSUME SessionsEndByVerdict, UNCHANGED <<work, sessions>>, refused \subseteq refused'
    PROVE  SessionsEndByVerdict'
BY Zenon DEF SessionsEndByVerdict

-----------------------------------------------------------------------------
\* ServeHTTP and authenticate: a request is rejected, verified, refused or answered.
LEMMA AnswerFacts ==
    ASSUME GatewayInv, NEW c \in Calls, NEW s \in Responses, Answer(c, s)
    PROVE  /\ stage' \in [Calls -> {"idle", "verify", "delete", "scope", "run", "done"}] /\ stage'[c] = "done"
           /\ status' \in [Calls -> Responses] /\ status'[c] = s
           /\ \A d \in Calls : d # c => stage'[d] = stage[d] /\ status'[d] = status[d]
BY Zenon DEF Answer, GatewayInv, GatewayTypeOK

LEMMA EntersFacts ==
    ASSUME GatewayInv, NEW c \in Calls, NEW s \in {"verify", "delete", "scope", "run"}, Enters(c, s)
    PROVE  /\ stage' \in [Calls -> {"idle", "verify", "delete", "scope", "run", "done"}] /\ stage'[c] = s
           /\ status' = status /\ status \in [Calls -> Responses]
           /\ \A d \in Calls : d # c => stage'[d] = stage[d] /\ status'[d] = status[d]
BY Zenon DEF Enters, GatewayInv, GatewayTypeOK

\* A request that is answered outside the runtime has had no effect, or a
\* response that says so little.
LEMMA AnswerStepKept ==
    ASSUME GatewayInv, NEW c \in Calls, NEW s \in Responses, Answer(c, s), UNCHANGED vars,
           UNCHANGED <<work, bearer, refused, ledger, effects, conflict>>,
           sessions' \in [Sessions -> Nat], \A t \in Sessions : sessions'[t] <= Len(SignIns[t]),
           SessionsEndByVerdict',
           applied[c][1] > 0 => s \in {"ok", "runtime_unavailable"}
    PROVE  GatewayInv'
<1>0. RoutingInv /\ GatewayTypeOK /\ StageInv(c) /\ EffectInv(c)
  BY Zenon DEF GatewayInv
<1>1. RoutingInv' /\ UNCHANGED <<pc, tries, applied, out>>
  BY <1>0, RoutingKept, Zenon
<1>2. /\ stage' \in [Calls -> {"idle", "verify", "delete", "scope", "run", "done"}] /\ stage'[c] = "done"
      /\ status' \in [Calls -> Responses] /\ status'[c] = s
      /\ \A d \in Calls : d # c => stage'[d] = stage[d] /\ status'[d] = status[d]
  BY AnswerFacts, Zenon
<1>3. GatewayTypeOK'
  BY <1>0, <1>2, Zenon DEF GatewayTypeOK
<1>4. StageInv(c)'
  BY <1>2, Zenon DEF StageInv
<1>5. EffectInv(c)'
  BY <1>0, <1>1, <1>2, Zenon DEF EffectInv
<1>6. \A d \in Calls : d # c => Alike(d)
  BY <1>1, <1>2, Zenon DEF Alike
<1>. QED  BY <1>1, <1>3, <1>4, <1>5, <1>6, PlainStep, Zenon

LEMMA RejectStep ==
    ASSUME GatewayInv, NEW c \in Calls,
           RejectForeign(c) \/ RejectInput(c) \/ VerifyFails(c) \/ RespondLifecycle(c)
    PROVE  GatewayInv'
<1>0. GatewayTypeOK /\ EffectInv(c) /\ SessionsEndByVerdict
  BY Zenon DEF GatewayInv
<1>1. ASSUME NEW s \in Responses, Answer(c, s), UNCHANGED vars,
             UNCHANGED <<work, sessions, bearer, refused, ledger, effects, conflict>>,
             applied[c][1] > 0 => s \in {"ok", "runtime_unavailable"}
      PROVE  GatewayInv'
  <2>1. sessions' \in [Sessions -> Nat] /\ \A t \in Sessions : sessions'[t] <= Len(SignIns[t])
    BY <1>0, <1>1, Zenon DEF GatewayTypeOK
  <2>2. SessionsEndByVerdict'
    BY <1>0, <1>1, VerdictKept, Zenon
  <2>. QED  BY <1>1, <2>1, <2>2, AnswerStepKept, Zenon
<1>2. stage[c] \in {"idle", "verify"} => ~(applied[c][1] > 0)
  BY <1>0, Zenon DEF EffectInv
<1>3. CASE RejectForeign(c)
  BY <1>1, <1>2, <1>3, Zenon DEF RejectForeign, Reject, Responses
<1>4. CASE RejectInput(c)
  BY <1>1, <1>2, <1>4, Zenon DEF RejectInput, Reject, Responses
<1>5. CASE VerifyFails(c)
  BY <1>1, <1>2, <1>5, Zenon DEF VerifyFails, Responses
<1>6. CASE RespondLifecycle(c)
  <2>. DEFINE s == IF out[c] = "ok" THEN "ok"
                   ELSE IF c \in conflict THEN "idempotency_conflict" ELSE "runtime_unavailable"
  <2>1. Answer(c, s) /\ UNCHANGED vars /\ UNCHANGED <<work, sessions, bearer, refused, ledger, effects, conflict>>
    BY <1>6, Zenon DEF RespondLifecycle
  <2>2. s \in Responses /\ (c \notin conflict => s \in {"ok", "runtime_unavailable"})
    BY Zenon DEF Responses
  <2>. HIDE DEF s
  <2>3. applied[c][1] > 0 => s \in {"ok", "runtime_unavailable"}
    BY <1>0, <2>2, Zenon DEF EffectInv
  <2>. QED  BY <1>1, <2>1, <2>2, <2>3, Zenon
<1>. QED  BY <1>3, <1>4, <1>5, <1>6, Zenon

LEMMA DeleteStep ==
    ASSUME GatewayInv, NEW c \in Calls, NEW deleted \in BOOLEAN, DeleteSession(c, deleted)
    PROVE  GatewayInv'
<1>0. GatewayTypeOK /\ EffectInv(c) /\ StageInv(c) /\ SessionsEndByVerdict
  BY Zenon DEF GatewayInv
<1>1. stage[c] = "delete" /\ UNCHANGED vars /\ UNCHANGED <<work, bearer, refused, ledger, effects, conflict>>
  BY Zenon DEF DeleteSession
<1>2. Answer(c, "unauthenticated") /\ "unauthenticated" \in Responses
  BY Zenon DEF DeleteSession, Responses
<1>3. c \in refused /\ ~(applied[c][1] > 0)
  BY <1>0, <1>1, Zenon DEF StageInv, EffectInv
<1>4. work[c].session \in Sessions
  BY <1>0, GatewayAssumption, Zenon DEF GatewayTypeOK
<1>5. /\ sessions' \in [Sessions -> Nat] /\ \A t \in Sessions : sessions'[t] <= Len(SignIns[t])
      /\ \A t \in Sessions : t # work[c].session => sessions'[t] = sessions[t]
  <2>1. CASE sessions' = [sessions EXCEPT ![work[c].session] = 0]
    <3>1. /\ sessions' \in [Sessions -> Nat] /\ sessions'[work[c].session] = 0
          /\ \A t \in Sessions : t # work[c].session => sessions'[t] = sessions[t]
      BY <1>0, <1>4, <2>1, Zenon DEF GatewayTypeOK
    <3>2. \A t \in Sessions : 0 <= Len(SignIns[t])
      BY GatewayAssumption
    <3>3. \A t \in Sessions : sessions[t] <= Len(SignIns[t])
      BY <1>0, Zenon DEF GatewayTypeOK
    <3>. QED  BY <3>1, <3>2, <3>3, Zenon
  <2>2. CASE UNCHANGED sessions
    BY <1>0, <2>2, Zenon DEF GatewayTypeOK
  <2>. QED  BY <2>1, <2>2, Zenon DEF DeleteSession
<1>6. SessionsEndByVerdict'
  BY <1>0, <1>1, <1>3, <1>5, Zenon DEF SessionsEndByVerdict
<1>. QED  BY <1>1, <1>2, <1>3, <1>5, <1>6, AnswerStepKept, Zenon

\* The bearers that a session holds.
LEMMA BearerFacts ==
    ASSUME GatewayTypeOK, NEW s \in Sessions, sessions[s] # 0
    PROVE  SignIns[s][sessions[s]] \in Bearers /\ SignIns[s][sessions[s]] # None
<1>1. sessions[s] \in DOMAIN SignIns[s]
  <2>1. sessions[s] \in Nat /\ sessions[s] <= Len(SignIns[s])
    BY Zenon DEF GatewayTypeOK
  <2>. QED  BY <2>1, GatewayAssumption
<1>2. SignIns[s][sessions[s]] # None
  BY <1>1, GatewayAssumption, Zenon
<1>3. SignIns[s][sessions[s]] \in {SignIns[s][i] : i \in DOMAIN SignIns[s]}
  BY <1>1, Zenon
<1>4. {SignIns[s][i] : i \in DOMAIN SignIns[s]} \in {{SignIns[t][i] : i \in DOMAIN SignIns[t]} : t \in Sessions}
  BY Zenon
<1>. QED  BY <1>2, <1>3, <1>4, Zenon DEF Bearers

LEMMA ReadBearerStep ==
    ASSUME GatewayInv, NEW c \in Calls, NEW readable \in BOOLEAN, ReadBearer(c, readable)
    PROVE  GatewayInv'
<1>0. RoutingInv /\ GatewayTypeOK /\ EffectInv(c) /\ StageInv(c) /\ SessionsEndByVerdict
  BY Zenon DEF GatewayInv
<1>. DEFINE s == work[c].session
<1>1. stage[c] = "idle" /\ UNCHANGED vars /\ UNCHANGED <<work, sessions, refused, ledger, effects, conflict>>
  BY Zenon DEF ReadBearer
<1>2. SessionsEndByVerdict'
  BY <1>0, <1>1, VerdictKept, Zenon
<1>3. bearer[c] = None /\ ~(applied[c][1] > 0) /\ c \notin conflict
  BY <1>0, <1>1, Zenon DEF StageInv, EffectInv
<1>4. CASE Answer(c, "unauthenticated") /\ UNCHANGED bearer
  <2>1. "unauthenticated" \in Responses
    BY Zenon DEF Responses
  <2>2. sessions' \in [Sessions -> Nat] /\ \A t \in Sessions : sessions'[t] <= Len(SignIns[t])
    BY <1>0, <1>1, Zenon DEF GatewayTypeOK
  <2>. QED  BY <1>1, <1>2, <1>3, <1>4, <2>1, <2>2, AnswerStepKept, Zenon
<1>5. CASE /\ sessions[s] # 0 /\ Enters(c, "verify")
           /\ bearer' = [bearer EXCEPT ![c] = SignIns[s][sessions[s]]]
  <2>1. s \in Sessions
    BY <1>0, GatewayAssumption, Zenon DEF GatewayTypeOK
  <2>2. SignIns[s][sessions[s]] \in Bearers /\ SignIns[s][sessions[s]] # None
    BY <1>0, <1>5, <2>1, BearerFacts, Zenon
  <2>. HIDE DEF s
  <2>3. /\ bearer' \in [Calls -> Bearers \cup {None}] /\ bearer'[c] # None
        /\ \A d \in Calls : d # c => bearer'[d] = bearer[d]
    BY <1>0, <1>5, <2>2, Zenon DEF GatewayTypeOK
  <2>4. /\ stage' \in [Calls -> {"idle", "verify", "delete", "scope", "run", "done"}] /\ stage'[c] = "verify"
        /\ status' = status /\ status \in [Calls -> Responses]
        /\ \A d \in Calls : d # c => stage'[d] = stage[d] /\ status'[d] = status[d]
    BY <1>5, EntersFacts, Zenon
  <2>5. GatewayTypeOK'
    BY <1>0, <1>1, <2>3, <2>4, Zenon DEF GatewayTypeOK
  <2>6. RoutingInv' /\ UNCHANGED <<pc, tries, applied, out>>
    BY <1>0, <1>1, RoutingKept, Zenon
  <2>7. StageInv(c)'
    BY <1>0, <1>1, <2>3, <2>4, Zenon DEF StageInv
  <2>8. EffectInv(c)'
    BY <1>1, <1>3, <2>6, Zenon DEF EffectInv
  <2>9. \A d \in Calls : d # c => Alike(d)
    BY <2>3, <2>4, <2>6, Zenon DEF Alike
  <2>. QED  BY <1>1, <1>2, <1>3, <2>5, <2>6, <2>7, <2>8, <2>9, PlainStep, Zenon
<1>. QED  BY <1>4, <1>5, Zenon DEF ReadBearer

\* Control rejects a bearer, or accepts it and the scope check starts.
LEMMA VerdictStep ==
    ASSUME GatewayInv, NEW c \in Calls, Verified(c) \/ VerifyRejects(c)
    PROVE  GatewayInv'
<1>0. RoutingInv /\ GatewayTypeOK /\ EffectInv(c) /\ StageInv(c) /\ SessionsEndByVerdict
  BY Zenon DEF GatewayInv
<1>1. stage[c] = "verify" /\ UNCHANGED <<work, sessions, bearer, ledger, effects, conflict>>
  BY Zenon DEF Verified, VerifyRejects
<1>2. ~(applied[c][1] > 0) /\ bearer[c] # None /\ status[c] = "none"
  BY <1>0, <1>1, Zenon DEF StageInv, EffectInv
<1>3. ASSUME RoutingInv', applied' = applied, tries' = tries, \A d \in Calls : d # c => pc'[d] = pc[d],
             NEW s \in {"delete", "scope"}, Enters(c, s), refused \subseteq refused', refused' \subseteq Calls,
             s = "delete" => c \in refused', s = "scope" => Len(tries[c]) <= 1, c \in conflict => pc'[c] = "done"
      PROVE  GatewayInv'
  <2>1. /\ stage' \in [Calls -> {"idle", "verify", "delete", "scope", "run", "done"}] /\ stage'[c] = s
        /\ status' = status /\ status \in [Calls -> Responses]
        /\ \A d \in Calls : d # c => stage'[d] = stage[d] /\ status'[d] = status[d]
    BY <1>3, EntersFacts, Zenon
  <2>2. GatewayTypeOK'
    BY <1>0, <1>1, <1>3, <2>1, Zenon DEF GatewayTypeOK
  <2>3. StageInv(c)'
    BY <1>1, <1>2, <1>3, <2>1, Zenon DEF StageInv
  <2>4. EffectInv(c)'
    BY <1>0, <1>1, <1>2, <1>3, Zenon DEF EffectInv
  <2>5. \A d \in Calls : d # c => Alike(d)
    BY <1>1, <1>3, <2>1, Zenon DEF Alike
  <2>6. SessionsEndByVerdict'
    BY <1>0, <1>1, <1>3, VerdictKept, Zenon
  <2>. QED  BY <1>1, <1>3, <2>2, <2>3, <2>4, <2>5, <2>6, PlainStep, Zenon
<1>4. CASE VerifyRejects(c)
  <2>1. RoutingInv' /\ UNCHANGED <<pc, tries, applied, out>>
    BY <1>0, <1>4, RoutingKept, Zenon DEF VerifyRejects
  <2>2. refused' = refused \cup {c} /\ Enters(c, "delete") /\ refused \subseteq Calls
    BY <1>0, <1>4, Zenon DEF VerifyRejects, GatewayTypeOK
  <2>3. c \in conflict => pc'[c] = "done"
    BY <1>0, <2>1, Zenon DEF EffectInv
  <2>. QED  BY <1>3, <2>1, <2>2, <2>3, Zenon
<1>5. CASE Verified(c)
  <2>1. Begin(c) /\ Enters(c, "scope") /\ UNCHANGED refused
    BY <1>5, Zenon DEF Verified
  <2>2. RoutingInv' /\ pc[c] = "idle" /\ UNCHANGED <<tries, applied>>
    BY <1>0, <2>1, GotoStep, Zenon DEF Begin
  <2>3. \A d \in Calls : d # c => pc'[d] = pc[d]
    BY <1>0, <2>1, Zenon DEF Begin, Goto, RoutingInv, TypeOK
  <2>4. Len(tries[c]) <= 1
    BY <1>0, <2>2 DEF RoutingInv, CallInv, Dialled
  <2>5. c \notin conflict
    BY <1>0, <2>2, Zenon DEF EffectInv
  <2>6. refused' \subseteq Calls /\ refused \subseteq refused'
    BY <1>0, <2>1, Zenon DEF GatewayTypeOK
  <2>. QED  BY <1>3, <2>1, <2>2, <2>3, <2>4, <2>5, <2>6, Zenon
<1>. QED  BY <1>4, <1>5, Zenon

\* A step of the calls that reaches neither the handler nor the runtime's state.
LEMMA InnerStep ==
    ASSUME GatewayInv, NEW c \in Calls, RoutingInv', UNCHANGED gatewayVars, applied' = applied,
           \A d \in Calls : d # c => pc'[d] = pc[d] /\ tries'[d] = tries[d],
           stage[c] = "scope" => Len(tries'[c]) <= 1, c \in conflict => pc'[c] = "done"
    PROVE  GatewayInv'
<1>0. GatewayTypeOK /\ EffectInv(c) /\ StageInv(c) /\ SessionsEndByVerdict
  BY Zenon DEF GatewayInv
<1>1. UNCHANGED <<work, stage, bearer, refused, conflict, status, sessions, ledger, effects>>
  BY Zenon DEF gatewayVars, handlerVars
<1>2. GatewayTypeOK'
  BY <1>0, <1>1, Zenon DEF GatewayTypeOK
<1>3. StageInv(c)'
  BY <1>0, <1>1, Zenon DEF StageInv
<1>4. EffectInv(c)'
  BY <1>0, <1>1, Zenon DEF EffectInv
<1>5. \A d \in Calls : d # c => Alike(d)
  BY <1>1, Zenon DEF Alike
<1>6. SessionsEndByVerdict'
  BY <1>0, <1>1, VerdictKept, Zenon
<1>. QED  BY <1>1, <1>2, <1>3, <1>4, <1>5, <1>6, PlainStep, Zenon

\* The steps of a resolve leave the other calls and the effects alone.
LEMMA ResolveFacts ==
    ASSUME TypeOK, NEW c \in Calls,
           ResolveCached(c) \/ ResolveFetch(c) \/ FetchEnds(c, TRUE) \/ FetchFails(c)
    PROVE  /\ pc[c] \in {"resolve", "fetch"} /\ applied' = applied
           /\ \A d \in Calls : d # c => pc'[d] = pc[d] /\ tries'[d] = tries[d]
           /\ tries' = tries \/ \E a \in Assertions : tries' = [tries EXCEPT ![c] = Append(@, a)]
<1>1. pc[c] \in {"resolve", "fetch"} /\ applied' = applied
  BY Zenon DEF ResolveCached, ResolveFetch, FetchEnds, FetchFails
<1>2. tries' = tries \/ \E a \in Assertions : tries' = [tries EXCEPT ![c] = Append(@, a)]
  BY Zenon DEF ResolveCached, CacheUsable, ResolveFetch, FetchEnds, FetchFails, Dials, TypeOK
<1>3. \E q : pc' = [pc EXCEPT ![c] = q]
  BY Zenon DEF ResolveCached, ResolveFetch, FetchEnds, FetchFails, Dials, Goto, Return
<1>4. ASSUME NEW d \in Calls, d # c PROVE pc'[d] = pc[d] /\ tries'[d] = tries[d]
  BY <1>2, <1>3, <1>4, Zenon DEF TypeOK
<1>. QED  BY <1>1, <1>2, <1>4, Zenon

LEMMA ScopeResolveStep ==
    ASSUME GatewayInv, NEW c \in Calls, ScopeStep(c)
    PROVE  GatewayInv'
<1>0. RoutingInv /\ TypeOK /\ CallInv(c) /\ EffectInv(c)
  BY Zenon DEF GatewayInv, RoutingInv
<1>1. ResolveCached(c) \/ ResolveFetch(c) \/ FetchEnds(c, TRUE) \/ FetchFails(c)
  BY Zenon DEF ScopeStep
<1>2. /\ pc[c] \in {"resolve", "fetch"} /\ applied' = applied
      /\ \A d \in Calls : d # c => pc'[d] = pc[d] /\ tries'[d] = tries[d]
      /\ tries' = tries \/ \E a \in Assertions : tries' = [tries EXCEPT ![c] = Append(@, a)]
  BY <1>0, <1>1, ResolveFacts, Zenon
<1>3. RoutingInv'
  BY <1>0, <1>1, GotoStep, ResolveStep, Zenon
<1>4. Len(tries'[c]) <= 1
  <2>1. tries \in [Calls -> Seq(Assertions)] /\ tries[c] \in Seq(Assertions) /\ Len(tries[c]) = 0
    BY <1>0, <1>2, Zenon DEF TypeOK, CallInv, Dialled
  <2>2. CASE tries' = tries
    BY <2>1, <2>2
  <2>3. ASSUME NEW a \in Assertions, tries' = [tries EXCEPT ![c] = Append(@, a)] PROVE Len(tries'[c]) <= 1
    <3>1. tries'[c] = Append(tries[c], a)
      BY <2>1, <2>3, Zenon
    <3>2. Len(Append(tries[c], a)) = 0 + 1
      BY <2>1
    <3>. QED  BY <3>1, <3>2
  <2>. QED  BY <1>2, <2>2, <2>3, Zenon
<1>5. c \notin conflict
  BY <1>0, <1>2, Zenon DEF EffectInv
<1>. QED  BY <1>2, <1>3, <1>4, <1>5, InnerStep, Zenon DEF ScopeStep

\* The steps of WithOwnerRetry around its command.
LEMMA RouteStepKept ==
    ASSUME GatewayInv, NEW c \in Calls, RouteStep(c)
    PROVE  GatewayInv'
<1>0. RoutingInv /\ TypeOK /\ EffectInv(c) /\ stage[c] = "run" /\ UNCHANGED gatewayVars
  BY Zenon DEF GatewayInv, RoutingInv, RouteStep
<1>1. ASSUME RoutingInv', applied' = applied, pc[c] # "done",
             \A d \in Calls : d # c => pc'[d] = pc[d] /\ tries'[d] = tries[d]
      PROVE  GatewayInv'
  <2>1. c \notin conflict /\ stage[c] # "scope"
    BY <1>0, <1>1, Zenon DEF EffectInv
  <2>. QED  BY <1>0, <1>1, <2>1, InnerStep, Zenon
<1>2. CASE ResolveCached(c) \/ ResolveFetch(c) \/ FetchEnds(c, TRUE) \/ FetchFails(c)
  <2>1. RoutingInv'
    BY <1>0, <1>2, GotoStep, ResolveStep, Zenon
  <2>2. pc[c] \in {"resolve", "fetch"} /\ applied' = applied /\ \A d \in Calls : d # c => pc'[d] = pc[d] /\ tries'[d] = tries[d]
    BY <1>0, <1>2, ResolveFacts, Zenon
  <2>. QED  BY <1>1, <2>1, <2>2, Zenon
<1>3. CASE Invalidate(c) \/ LockMoved(c) \/ \E ok \in BOOLEAN : Dial(c, ok) \/ Auth(c, ok)
  <2>1. RoutingInv'
    BY <1>0, <1>3, GotoStep, Zenon
  <2>2. pc[c] # "done" /\ applied' = applied /\ tries' = tries
    BY <1>3, Zenon DEF Invalidate, LockMoved, Dial, Auth
  <2>3. \E q : pc' = [pc EXCEPT ![c] = q]
    BY <1>3, Zenon DEF Invalidate, LockMoved, Dial, Auth, Goto, Return
  <2>4. \A d \in Calls : d # c => pc'[d] = pc[d] /\ tries'[d] = tries[d]
    BY <1>0, <2>2, <2>3, Zenon DEF TypeOK
  <2>. QED  BY <1>1, <2>1, <2>2, <2>4, Zenon
<1>4. CASE \E epoch \in 1..MaxEpoch : CommandMoved(c, epoch, now)
  <2>1. PICK epoch \in 1..MaxEpoch : CommandMoved(c, epoch, now)
    BY <1>4, Zenon
  <2>2. epoch \in Nat /\ now \in Nat
    BY <1>0, RoutingAssumption DEF TypeOK
  <2>3. RoutingInv'
    BY <1>0, <2>1, <2>2, MovedStep, Zenon
  <2>4. pc[c] # "done" /\ applied' = applied /\ tries' = tries /\ \E q : pc' = [pc EXCEPT ![c] = q]
    BY <2>1, Zenon DEF CommandMoved, Goto, Return
  <2>5. \A d \in Calls : d # c => pc'[d] = pc[d] /\ tries'[d] = tries[d]
    BY <1>0, <2>4, Zenon DEF TypeOK
  <2>. QED  BY <1>1, <2>3, <2>4, <2>5, Zenon
<1>5. CASE AcceptMoved(c, TRUE)
  <2>1. RoutingInv'
    BY <1>0, <1>5, ResolveStep, Zenon
  <2>2. pc[c] # "done" /\ applied' = applied /\ (\E q : pc' = [pc EXCEPT ![c] = q])
        /\ (tries' = tries \/ \E t : tries' = [tries EXCEPT ![c] = t])
    BY <1>5, Zenon DEF AcceptMoved, Dials, Goto, Return
  <2>3. \A d \in Calls : d # c => pc'[d] = pc[d] /\ tries'[d] = tries[d]
    BY <1>0, <2>2, Zenon DEF TypeOK
  <2>. QED  BY <1>1, <2>1, <2>2, <2>3, Zenon
<1>6. CASE CommandFails(c, FALSE)
  <2>1. RoutingInv'
    BY <1>0, <1>6, CommandStep, Zenon
  <2>2. pc[c] # "done" /\ applied' = applied /\ tries' = tries /\ \E q : pc' = [pc EXCEPT ![c] = q]
    BY <1>6, Zenon DEF CommandFails, Return
  <2>3. \A d \in Calls : d # c => pc'[d] = pc[d] /\ tries'[d] = tries[d]
    BY <1>0, <2>2, Zenon DEF TypeOK
  <2>. QED  BY <1>1, <2>1, <2>2, <2>3, Zenon
<1>. QED  BY <1>2, <1>3, <1>4, <1>5, <1>6, Zenon DEF RouteStep

\* verifyScope has an owner: the identity is refused, or the command starts.
LEMMA ScopeKnownStep ==
    ASSUME GatewayInv, NEW c \in Calls, ScopeKnown(c)
    PROVE  GatewayInv'
<1>0. RoutingInv /\ TypeOK /\ CallInv(c) /\ GatewayTypeOK /\ EffectInv(c) /\ StageInv(c) /\ SessionsEndByVerdict
  BY Zenon DEF GatewayInv, RoutingInv
<1>1. /\ stage[c] = "scope" /\ pc[c] = "dial" /\ tries' = [tries EXCEPT ![c] = <<>>]
      /\ UNCHANGED <<now, owners, cached, mu, asked, reply, next, movedAt, applied,
                     work, sessions, bearer, ledger, effects, conflict>>
  BY Zenon DEF ScopeKnown
<1>2. PICK q \in {"resolve", "done"}, s \in {"run", "delete"} :
        /\ pc' = [pc EXCEPT ![c] = q] /\ Enters(c, s) /\ out' \in [Calls -> {"none", "ok", "error"}]
        /\ s = "run" => bearer[c].scope = Ours /\ refused' = refused
        /\ s = "delete" => refused' = refused \cup {c}
  <2>1. CASE bearer[c].scope = Ours /\ pc' = [pc EXCEPT ![c] = "resolve"] /\ Enters(c, "run") /\ UNCHANGED <<refused, out>>
    BY <1>0, <2>1, Zenon DEF TypeOK
  <2>2. CASE Return(c, "error") /\ refused' = refused \cup {c} /\ Enters(c, "delete")
    BY <1>0, <2>2, ReturnFacts, Zenon
  <2>. QED  BY <2>1, <2>2, Zenon DEF ScopeKnown
<1>3. /\ pc' \in [Calls -> Locations] /\ pc'[c] = q /\ \A d \in Calls : d # c => pc'[d] = pc[d]
  BY <1>0, <1>2, Zenon DEF TypeOK, Locations
<1>4. tries' \in [Calls -> Seq(Assertions)] /\ tries'[c] = <<>> /\ \A d \in Calls : d # c => tries'[d] = tries[d]
  <2>1. <<>> \in Seq(Assertions)
    OBVIOUS
  <2>. QED  BY <1>0, <1>1, <2>1, Zenon DEF TypeOK
<1>5. RoutingInv'
  <2>1. TypeOK'
    BY <1>0, <1>1, <1>2, <1>3, <1>4, Zenon DEF TypeOK
  <2>2. \A d \in Calls : d # c => Same(d)
    BY <1>1, <1>3, <1>4, Zenon DEF Same
  <2>3. Len(tries[c]) = 1
    <3>1. tries[c] \in Seq(Assertions)
      BY <1>0, Zenon DEF TypeOK
    <3>2. Len(tries[c]) > 0 /\ Len(tries[c]) <= 1
      BY <1>0, <1>1, Zenon DEF CallInv, Dialled, StageInv
    <3>3. Len(tries[c]) \in Nat
      BY <3>1
    <3>4. \A l \in Nat : l > 0 /\ l <= 1 => l = 1
      OBVIOUS
    <3>. QED  BY <3>2, <3>3, <3>4, Zenon
  <2>4. next[c] = 1 /\ movedAt[c] = 0
    BY <1>0, <1>1, <2>3 DEF CallInv, Progress
  <2>5. Dialled(q, <<>>)
    BY DEF Dialled
  <2>6. Progress(q, 0, 1, 0)
    BY RoutingAssumption DEF Progress
  <2>7. Counted(q, 0, 1, 0, applied[c])
    BY <1>0, <1>1, <2>3, <2>4 DEF CallInv, Counted
  <2>8. CallInv(c)'
    <3>1. Len(tries'[c]) = 0
      BY <1>4
    <3>. QED  BY <1>1, <1>3, <1>4, <2>4, <2>5, <2>6, <2>7, <3>1, Zenon DEF CallInv, InTime
  <2>. QED  BY <1>0, <1>1, <2>1, <2>2, <2>8, CallStep, Zenon
<1>6. /\ stage' \in [Calls -> {"idle", "verify", "delete", "scope", "run", "done"}] /\ stage'[c] = s
      /\ status' = status /\ status \in [Calls -> Responses]
      /\ \A d \in Calls : d # c => stage'[d] = stage[d] /\ status'[d] = status[d]
  BY <1>2, EntersFacts, Zenon
<1>7. refused \subseteq refused' /\ refused' \subseteq Calls
  BY <1>0, <1>2, Zenon DEF GatewayTypeOK
<1>8. GatewayTypeOK'
  BY <1>0, <1>1, <1>6, <1>7, Zenon DEF GatewayTypeOK
<1>9. StageInv(c)'
  BY <1>0, <1>1, <1>2, <1>6, Zenon DEF StageInv
<1>10. EffectInv(c)'
  BY <1>0, <1>1, Zenon DEF EffectInv
<1>11. \A d \in Calls : d # c => Alike(d)
  BY <1>1, <1>3, <1>4, <1>6, Zenon DEF Alike
<1>12. SessionsEndByVerdict'
  BY <1>0, <1>1, <1>7, VerdictKept, Zenon
<1>. QED  BY <1>1, <1>5, <1>7, <1>8, <1>9, <1>10, <1>11, <1>12, PlainStep, Zenon

-----------------------------------------------------------------------------
\* The key of a command is its intent, and a request at the runtime has one.
LEMMA KeyFacts ==
    ASSUME GatewayInv, NEW c \in Calls, stage[c] = "run"
    PROVE  Key(c) = Intent(c) /\ Intent(c) \in Intents
<1>1. Key(c) = Intent(c)
  BY Zenon DEF Key, DeriveKey, Intent
<1>2. bearer[c] \in Bearers /\ work \in Workloads
  BY Zenon DEF GatewayInv, GatewayTypeOK, StageInv
<1>3. PICK s \in Sessions : bearer[c] \in {SignIns[s][i] : i \in DOMAIN SignIns[s]}
  BY <1>2, Zenon DEF Bearers
<1>4. bearer[c].subject \in {b.subject : b \in {SignIns[s][i] : i \in DOMAIN SignIns[s]}}
  BY <1>3, Zenon
<1>5. bearer[c].subject \in Subjects
  <2>1. {b.subject : b \in {SignIns[s][i] : i \in DOMAIN SignIns[s]}}
          \in {{b.subject : b \in {SignIns[t][i] : i \in DOMAIN SignIns[t]}} : t \in Sessions}
    BY Zenon
  <2>. QED  BY <1>4, <2>1, Zenon DEF Subjects
<1>6. Intent(c) \in Intents
  <2>1. \E w \in Workloads, d \in Calls, u \in Subjects : Intent(c) = <<w[d].op, u, w[d].key>>
    BY <1>2, <1>5, Zenon DEF Intent
  <2>. QED  BY <2>1 DEF Intents
<1>. QED  BY <1>1, <1>6, Zenon

\* The only command of a request that is about to send it has had no effect yet.
LEMMA OneCommand ==
    ASSUME RoutingInv, NEW c \in Calls, pc[c] = "op"
    PROVE  next[c] = 1 /\ 1 \in 1..Commands /\ Commands = 1 /\ applied[c][1] = 0
<1>0. TypeOK /\ CallInv(c)
  BY Zenon DEF RoutingInv
<1>1. Commands = 1
  BY GatewayAssumption, Zenon
<1>2. next[c] = 1 /\ 1 \in 1..Commands
  BY <1>0, <1>1 DEF CallInv, Progress
<1>3. movedAt[c] \in Nat /\ movedAt[c] <= 1
  BY <1>0, <1>1, Zenon DEF TypeOK, CallInv, Progress
<1>4. applied[c][1] = (IF 1 < next[c] THEN 1 ELSE 0) + (IF Len(tries[c]) = 2 /\ 1 < movedAt[c] THEN 1 ELSE 0)
  BY <1>0, <1>2, Zenon DEF CallInv, Counted
<1>5. ~(1 < movedAt[c]) /\ ~(1 < next[c])
  BY <1>2, <1>3
<1>. QED  BY <1>1, <1>2, <1>4, <1>5

LEMMA ExecuteStep ==
    ASSUME GatewayInv, NEW c \in Calls, RuntimeExecutes(c)
    PROVE  GatewayInv'
<1>0. RoutingInv /\ TypeOK /\ GatewayTypeOK /\ EffectInv(c) /\ StageInv(c) /\ SessionsEndByVerdict /\ LedgerInv
  BY Zenon DEF GatewayInv, RoutingInv
<1>1. /\ stage[c] = "run" /\ Executes(c) /\ (CommandOk(c) \/ CommandFails(c, TRUE))
      /\ UNCHANGED <<work, stage, bearer, refused, conflict, status, sessions>>
  BY Zenon DEF RuntimeExecutes, handlerVars
<1>2. /\ pc[c] = "op" /\ tries' = tries /\ applied' = [applied EXCEPT ![c][next[c]] = @ + 1]
      /\ \E q : pc' = [pc EXCEPT ![c] = q]
  BY <1>1, Zenon DEF CommandOk, CommandFails, Goto, Return
<1>3. next[c] = 1 /\ 1 \in 1..Commands /\ Commands = 1 /\ applied[c][1] = 0
  BY <1>0, <1>2, OneCommand, Zenon
<1>4. applied'[c][1] = 1 /\ \A d \in Calls : d # c => applied'[d] = applied[d]
  <2>1. next[c] \in 1..Commands
    BY <1>3, Zenon
  <2>2. /\ applied'[c][next[c]] = applied[c][next[c]] + 1
        /\ \A d \in Calls : d # c => applied'[d] = applied[d]
    BY <1>0, <1>2, <2>1, AppliedFacts, Zenon
  <2>. QED  BY <1>3, <2>2
<1>5. RoutingInv'
  BY <1>0, <1>1, CommandStep, Zenon
<1>6. c \notin conflict
  BY <1>0, <1>2, Zenon DEF EffectInv
<1>7. \A d \in Calls : d # c => Alike(d)
  <2>1. \A d \in Calls : d # c => pc'[d] = pc[d]
    BY <1>0, <1>2, Zenon DEF TypeOK
  <2>. QED  BY <1>1, <1>2, <1>4, <2>1, Zenon DEF Alike
<1>8. StageInv(c)' /\ EffectInv(c)'
  <2>1. StageInv(c)'
    BY <1>0, <1>1, <1>2, Zenon DEF StageInv
  <2>2. bearer[c] # None /\ bearer[c].scope = Ours /\ status[c] = "none"
    BY <1>0, <1>1, Zenon DEF StageInv
  <2>3. EffectInv(c)'
    BY <1>1, <1>6, <2>2, Zenon DEF EffectInv
  <2>. QED  BY <2>1, <2>3, Zenon
<1>9. \A d \in Calls : StageInv(d)' /\ EffectInv(d)'
  <2>1. \A d \in Calls : StageInv(d) /\ EffectInv(d)
    BY Zenon DEF GatewayInv
  <2>2. refused \subseteq refused' /\ conflict' = conflict
    BY <1>1, Zenon
  <2>. QED  BY <1>7, <1>8, <2>1, <2>2, AlikeKept, Zenon
<1>10. SessionsEndByVerdict'
  BY <1>0, <1>1, VerdictKept, Zenon
<1>11. /\ \A d \in Calls : bearer[d] # None => bearer'[d] = bearer[d]
       /\ \A d \in Calls : applied[d][1] > 0 => applied'[d][1] > 0
  BY <1>1, <1>4
<1>12. /\ \A d \in Calls : \A k, x : Wrote(d, k, x) => Wrote(d, k, x)'
       /\ \A e \in conflict : \E d \in Calls :
              bearer'[d] # None /\ Intent(e)' = Intent(d)' /\ work'[e].arg # work'[d].arg /\ applied'[d][1] > 0
  BY <1>1, <1>11, WitnessKept, Zenon
<1>13. ConflictIsDeserved'
  BY <1>1, <1>12, Zenon DEF ConflictIsDeserved
<1>14. Key(c) = Intent(c) /\ Intent(c) \in Intents
  BY <1>1, KeyFacts, Zenon
<1>15. PICK y : y = Intent(c)
  BY Zenon
<1>16. PICK x : x = work[c].arg
  BY Zenon
<1>17. Wrote(c, y, x)'
  <2>1. Intent(c)' = y /\ bearer'[c] # None
    BY <1>0, <1>1, <1>15, Zenon DEF Intent, StageInv
  <2>. QED  BY <1>1, <1>4, <1>16, <2>1 DEF Wrote
<1>18. CASE Known(c)
  <2>1. ledger' = ledger /\ effects' = effects
    BY <1>1, <1>18, Zenon DEF Executes
  <2>2. GatewayTypeOK'
    BY <1>0, <1>1, <2>1, Zenon DEF GatewayTypeOK
  <2>3. ASSUME NEW k \in DOMAIN ledger PROVE \E d \in Calls : Wrote(d, k, ledger[k])'
    <3>1. PICK d \in Calls : Wrote(d, k, ledger[k])
      BY <1>0, Zenon DEF LedgerInv
    <3>2. PICK z : z = ledger[k]
      BY Zenon
    <3>3. Wrote(d, k, z)'
      BY <1>12, <3>1, <3>2, Zenon
    <3>4. z = ledger'[k]
      BY <2>1, <3>2, Zenon
    <3>. QED  BY <3>3, <3>4, Zenon DEF Wrote
  <2>4. LedgerInv'
    BY <1>0, <2>1, <2>3, Zenon DEF LedgerInv
  <2>. QED  BY <1>5, <1>9, <1>10, <1>13, <2>2, <2>4, Zenon DEF GatewayInv
<1>19. CASE ~Known(c)
  <2>0. /\ ledger' = [k \in DOMAIN ledger \cup {y} |-> IF k = y THEN x ELSE ledger[k]]
        /\ effects' = [effects EXCEPT ![y] = @ + 1] /\ y \in Intents /\ y \notin DOMAIN ledger
    BY <1>1, <1>14, <1>15, <1>16, <1>19, Zenon DEF Executes, Known
  <2>1. /\ DOMAIN ledger' = DOMAIN ledger \cup {y} /\ ledger'[y] = x
        /\ \A k \in DOMAIN ledger : ledger'[k] = ledger[k]
    BY <2>0, Zenon
  <2>2. effects \in [Intents -> Nat] /\ DOMAIN ledger \subseteq Intents /\ effects[y] = 0
    <3>1. effects[y] = IF y \in DOMAIN ledger THEN 1 ELSE 0
      BY <1>0, <2>0, Zenon DEF LedgerInv
    <3>. QED  BY <1>0, <2>0, <3>1, Zenon DEF GatewayTypeOK
  <2>3. effects' \in [Intents -> Nat] /\ effects'[y] = 1 /\ \A i \in Intents : i # y => effects'[i] = effects[i]
    BY <2>0, <2>2
  <2>4. GatewayTypeOK'
    <3>1. DOMAIN ledger' \subseteq Intents
      BY <2>0, <2>1, <2>2, Zenon
    <3>. QED  BY <1>0, <1>1, <2>3, <3>1, Zenon DEF GatewayTypeOK
  <2>5. \A i \in Intents : effects'[i] = IF i \in DOMAIN ledger' THEN 1 ELSE 0
    <3>1. \A i \in Intents : effects[i] = IF i \in DOMAIN ledger THEN 1 ELSE 0
      BY <1>0, Zenon DEF LedgerInv
    <3>. QED  BY <2>1, <2>3, <3>1, Zenon
  <2>6. ASSUME NEW k \in DOMAIN ledger' PROVE \E d \in Calls : Wrote(d, k, ledger[k])'
    <3>1. CASE k = y
      BY <1>17, <2>1, <3>1, Zenon DEF Wrote
    <3>2. CASE k \in DOMAIN ledger
      <4>1. PICK d \in Calls : Wrote(d, k, ledger[k])
        BY <1>0, <3>2, Zenon DEF LedgerInv
      <4>2. PICK z : z = ledger[k]
        BY Zenon
      <4>3. Wrote(d, k, z)'
        BY <1>12, <4>1, <4>2, Zenon
      <4>4. z = ledger'[k]
        BY <2>1, <3>2, <4>2, Zenon
      <4>. QED  BY <4>3, <4>4, Zenon DEF Wrote
    <3>. QED  BY <2>1, <3>1, <3>2, Zenon
  <2>7. LedgerInv'
    BY <2>5, <2>6, Zenon DEF LedgerInv
  <2>. QED  BY <1>5, <1>9, <1>10, <1>13, <2>4, <2>7, Zenon DEF GatewayInv
<1>. QED  BY <1>18, <1>19, Zenon

LEMMA ConflictStep ==
    ASSUME GatewayInv, NEW c \in Calls, RuntimeConflict(c)
    PROVE  GatewayInv'
<1>0. RoutingInv /\ TypeOK /\ GatewayTypeOK /\ EffectInv(c) /\ StageInv(c) /\ SessionsEndByVerdict /\ LedgerInv
  BY Zenon DEF GatewayInv, RoutingInv
<1>1. /\ stage[c] = "run" /\ pc[c] = "op" /\ Known(c) /\ ledger[Key(c)] # work[c].arg
      /\ CommandFails(c, FALSE) /\ conflict' = conflict \cup {c}
      /\ UNCHANGED <<work, stage, bearer, refused, status, sessions, ledger, effects>>
  BY Zenon DEF RuntimeConflict
<1>2. tries' = tries /\ applied' = applied /\ pc' = [pc EXCEPT ![c] = "done"]
  BY <1>1, Zenon DEF CommandFails, Return
<1>3. pc'[c] = "done" /\ \A d \in Calls : d # c => pc'[d] = pc[d]
  BY <1>0, <1>2, Zenon DEF TypeOK
<1>4. RoutingInv'
  BY <1>0, <1>1, CommandStep, Zenon
<1>5. GatewayTypeOK'
  BY <1>0, <1>1, Zenon DEF GatewayTypeOK
<1>6. applied[c][1] = 0 /\ bearer[c] # None
  BY <1>0, <1>1, OneCommand, Zenon DEF StageInv
<1>7. StageInv(c)' /\ EffectInv(c)'
  <2>1. StageInv(c)'
    BY <1>0, <1>1, <1>2, Zenon DEF StageInv
  <2>2. EffectInv(c)'
    BY <1>1, <1>2, <1>3, <1>6 DEF EffectInv
  <2>. QED  BY <2>1, <2>2, Zenon
<1>8. \A d \in Calls : StageInv(d)' /\ EffectInv(d)'
  <2>1. \A d \in Calls : d # c => Alike(d) /\ (d \in conflict' => d \in conflict)
    BY <1>1, <1>2, <1>3, Zenon DEF Alike
  <2>2. refused \subseteq refused' /\ \A d \in Calls : StageInv(d) /\ EffectInv(d)
    BY <1>1, Zenon DEF GatewayInv
  <2>. QED  BY <1>7, <2>1, <2>2, AlikeKept, Zenon
<1>9. /\ \A d \in Calls : bearer[d] # None => bearer'[d] = bearer[d]
      /\ \A d \in Calls : applied[d][1] > 0 => applied'[d][1] > 0
  BY <1>1, <1>2, Zenon
<1>10. /\ \A d \in Calls : \A k, x : Wrote(d, k, x) => Wrote(d, k, x)'
       /\ \A e \in conflict : \E d \in Calls :
              bearer'[d] # None /\ Intent(e)' = Intent(d)' /\ work'[e].arg # work'[d].arg /\ applied'[d][1] > 0
  BY <1>1, <1>9, WitnessKept, Zenon
<1>11. LedgerInv'
  <2>1. ASSUME NEW k \in DOMAIN ledger PROVE \E d \in Calls : Wrote(d, k, ledger[k])'
    <3>1. PICK d \in Calls : Wrote(d, k, ledger[k])
      BY <1>0, Zenon DEF LedgerInv
    <3>2. PICK z : z = ledger[k]
      BY Zenon
    <3>3. Wrote(d, k, z)'
      BY <1>10, <3>1, <3>2, Zenon
    <3>. QED  BY <1>1, <3>2, <3>3, Zenon DEF Wrote
  <2>. QED  BY <1>0, <1>1, <2>1, Zenon DEF LedgerInv
<1>12. ConflictIsDeserved'
  <2>1. \E d \in Calls :
          bearer'[d] # None /\ Intent(c)' = Intent(d)' /\ work'[c].arg # work'[d].arg /\ applied'[d][1] > 0
    <3>1. Key(c) = Intent(c)
      BY <1>1, KeyFacts, Zenon
    <3>2. PICK d \in Calls : Wrote(d, Key(c), ledger[Key(c)])
      BY <1>0, <1>1, Zenon DEF LedgerInv, Known
    <3>3. Intent(c)' = Intent(c) /\ Intent(d)' = Intent(d)
      BY <1>1, Zenon DEF Intent
    <3>. QED  BY <1>1, <1>2, <3>1, <3>2, <3>3, Zenon DEF Wrote
  <2>. QED  BY <1>1, <1>10, <2>1, Zenon DEF ConflictIsDeserved
<1>13. SessionsEndByVerdict'
  BY <1>0, <1>1, VerdictKept, Zenon
<1>. QED  BY <1>4, <1>5, <1>8, <1>11, <1>12, <1>13, Zenon DEF GatewayInv

-----------------------------------------------------------------------------
\* Control answers, ownership moves, the user signs in again.
LEMMA OutsideStep ==
    ASSUME GatewayInv, RoutingInv', UNCHANGED <<pc, tries, applied>>,
           UNCHANGED <<work, stage, bearer, refused, conflict, status, ledger, effects>>,
           GatewayTypeOK', SessionsEndByVerdict'
    PROVE  GatewayInv'
<1>1. \A d \in Calls : StageInv(d)' /\ EffectInv(d)'
  <2>1. \A d \in Calls : Alike(d)
    BY Zenon DEF Alike
  <2>2. refused \subseteq refused' /\ \A d \in Calls : StageInv(d) /\ EffectInv(d)
    BY Zenon DEF GatewayInv
  <2>. QED  BY <2>1, <2>2, AlikeKept, Zenon
<1>2. LedgerInv'
  BY Zenon DEF GatewayInv, LedgerInv, Wrote, Intent
<1>3. ConflictIsDeserved'
  BY Zenon DEF GatewayInv, ConflictIsDeserved, Intent
<1>. QED  BY <1>1, <1>2, <1>3, Zenon DEF GatewayInv

LEMMA ControlStep ==
    ASSUME GatewayInv, UNCHANGED gatewayVars,
           (\E c \in Calls : ControlAnswers(c, Lifetime)) \/ (\E i \in Instances : Move(i)) \/ UNCHANGED vars
    PROVE  GatewayInv'
<1>0. RoutingInv /\ GatewayTypeOK /\ SessionsEndByVerdict
  BY Zenon DEF GatewayInv
<1>1. UNCHANGED <<work, stage, bearer, refused, conflict, status, sessions, ledger, effects>>
  BY Zenon DEF gatewayVars, handlerVars
<1>2. UNCHANGED <<pc, tries, applied>>
  BY Zenon DEF ControlAnswers, Move, vars, callVars
<1>3. RoutingInv'
  <2>1. Lifetime \in Nat
    BY RoutingAssumption, Zenon
  <2>. QED  BY <1>0, <2>1, AnswerStep, MoveOwnerStep, RoutingKept, Zenon
<1>4. GatewayTypeOK'
  BY <1>0, <1>1, Zenon DEF GatewayTypeOK
<1>5. SessionsEndByVerdict'
  BY <1>0, <1>1, VerdictKept, Zenon
<1>. QED  BY <1>1, <1>2, <1>3, <1>4, <1>5, OutsideStep, Zenon

LEMMA RenewStep ==
    ASSUME GatewayInv, NEW s \in Sessions, Renew(s)
    PROVE  GatewayInv'
<1>0. RoutingInv /\ GatewayTypeOK /\ SessionsEndByVerdict
  BY Zenon DEF GatewayInv
<1>1. /\ UNCHANGED vars /\ UNCHANGED <<work, stage, bearer, refused, conflict, status, ledger, effects>>
      /\ sessions[s] \in 1..(Len(SignIns[s]) - 1) /\ sessions' = [sessions EXCEPT ![s] = @ + 1]
  BY Zenon DEF Renew, handlerVars
<1>2. RoutingInv' /\ UNCHANGED <<pc, tries, applied>>
  BY <1>0, <1>1, RoutingKept, Zenon
<1>3. sessions \in [Sessions -> Nat] /\ \A t \in Sessions : sessions[t] <= Len(SignIns[t])
  BY <1>0, Zenon DEF GatewayTypeOK
<1>4. sessions[s] + 1 \in Nat /\ sessions[s] + 1 <= Len(SignIns[s]) /\ sessions[s] + 1 # 0
  BY <1>1, GatewayAssumption
<1>5. /\ sessions' \in [Sessions -> Nat] /\ sessions'[s] = sessions[s] + 1
      /\ \A t \in Sessions : t # s => sessions'[t] = sessions[t]
  BY <1>1, <1>3, <1>4, Zenon
<1>6. \A t \in Sessions : sessions'[t] <= Len(SignIns[t])
  BY <1>3, <1>4, <1>5, Zenon
<1>7. GatewayTypeOK'
  BY <1>0, <1>1, <1>5, <1>6, Zenon DEF GatewayTypeOK
<1>8. SessionsEndByVerdict'
  BY <1>0, <1>1, <1>4, <1>5, Zenon DEF SessionsEndByVerdict
<1>. QED  BY <1>1, <1>2, <1>7, <1>8, OutsideStep, Zenon

LEMMA GatewayStep == GatewayInv /\ [GatewayNext]_allVars => GatewayInv'
<1>. SUFFICES ASSUME GatewayInv, [GatewayNext]_allVars PROVE GatewayInv'
  BY Zenon
<1>1. ASSUME NEW c \in Calls, RejectForeign(c) \/ RejectInput(c) \/ HandlerStep(c) PROVE GatewayInv'
  BY <1>1, RejectStep, VerdictStep, DeleteStep, ScopeResolveStep, ScopeKnownStep, RouteStepKept, ExecuteStep,
     ConflictStep, Zenon DEF HandlerStep
<1>2. CASE UNCHANGED allVars
  BY <1>2, ControlStep, Zenon DEF allVars
<1>. QED  BY <1>1, <1>2, ReadBearerStep, ControlStep, RenewStep, Zenon DEF GatewayNext

\* The invariant of the gateway: that of the calls it makes, what the stage of
\* a request says of its bearer and its effect, and the ledger of the runtime.
THEOREM GatewayInvariance == GatewaySpec => []GatewayInv
<1>1. GatewayInit => GatewayInv
  <2>. SUFFICES ASSUME GatewayInit PROVE GatewayInv
    BY Zenon
  <2>1. RoutingInv
    BY RoutingStarts, Zenon DEF GatewayInit
  <2>2. GatewayTypeOK
    <3>1. sessions \in [Sessions -> Nat] /\ \A s \in Sessions : sessions[s] <= Len(SignIns[s])
      BY GatewayAssumption DEF GatewayInit
    <3>2. bearer \in [Calls -> Bearers \cup {None}]
      BY Zenon DEF GatewayInit
    <3>3. stage \in [Calls -> {"idle", "verify", "delete", "scope", "run", "done"}] /\ status \in [Calls -> Responses]
      BY Zenon DEF GatewayInit, Responses
    <3>4. effects \in [Intents -> Nat] /\ DOMAIN ledger \subseteq Intents
      BY DEF GatewayInit
    <3>5. work \in Workloads /\ refused \subseteq Calls /\ conflict \subseteq Calls
      BY Zenon DEF GatewayInit
    <3>. QED  BY <3>1, <3>2, <3>3, <3>4, <3>5, Zenon DEF GatewayTypeOK
  <2>3. ASSUME NEW c \in Calls PROVE StageInv(c) /\ EffectInv(c)
    <3>1. StageInv(c)
      BY Zenon DEF GatewayInit, StageInv
    <3>2. ~(applied[c][1] > 0)
      BY GatewayAssumption DEF GatewayInit, Init
    <3>. QED  BY <3>1, <3>2, Zenon DEF GatewayInit, EffectInv
  <2>4. LedgerInv
    BY DEF GatewayInit, LedgerInv
  <2>5. ConflictIsDeserved /\ SessionsEndByVerdict
    BY DEF GatewayInit, ConflictIsDeserved, SessionsEndByVerdict
  <2>. QED  BY <2>1, <2>2, <2>3, <2>4, <2>5, Zenon DEF GatewayInv
<1>. QED  BY <1>1, GatewayStep, PTL DEF GatewaySpec

\* A command of a user takes effect at most once for each key.
THEOREM CommandsAppliedOnce == GatewaySpec => []AppliedOnce
<1>1. GatewayInv => AppliedOnce
  BY DEF GatewayInv, LedgerInv, AppliedOnce
<1>. QED  BY <1>1, GatewayInvariance, PTL

\* A request met a conflict only with another argument of the same user.
THEOREM ConflictsDeserved == GatewaySpec => []ConflictIsDeserved
<1>1. GatewayInv => ConflictIsDeserved
  BY Zenon DEF GatewayInv
<1>. QED  BY <1>1, GatewayInvariance, PTL

\* A refusal had no effect, and an effect came from the right scope.
THEOREM RefusalsAreClean == GatewaySpec => []RefusalMeansNothingDone
<1>1. GatewayInv => RefusalMeansNothingDone
  BY Zenon DEF GatewayInv, EffectInv, RefusalMeansNothingDone
<1>. QED  BY <1>1, GatewayInvariance, PTL

\* A session ends only on a verdict.
THEOREM VerdictsEndSessions == GatewaySpec => []SessionsEndByVerdict
<1>1. GatewayInv => SessionsEndByVerdict
  BY Zenon DEF GatewayInv
<1>. QED  BY <1>1, GatewayInvariance, PTL

\* The guarantees of the routing hold for the calls that the gateway makes,
\* whose resolver also serves the scope checks.
THEOREM GatewayRoutes == GatewaySpec => [](RetryAdvances /\ OnlyPrefixRepeats)
<1>1. GatewayInv => RetryAdvances /\ OnlyPrefixRepeats
  BY RoutingImplies, Zenon DEF GatewayInv
<1>. QED  BY <1>1, GatewayInvariance, PTL

-----------------------------------------------------------------------------
\* What no step of the gateway undoes: a bearer that was read, an entry of the
\* ledger, an effect; and where new outcomes and conflicts come from.
Lasting ==
    /\ UNCHANGED work
    /\ \A d \in Calls : bearer[d] # None => bearer'[d] = bearer[d]
    /\ \A k \in DOMAIN ledger : k \in DOMAIN ledger' /\ ledger'[k] = ledger[k]
    /\ \A d \in Calls : applied[d][1] > 0 => applied'[d][1] > 0
    /\ \A d \in Calls : out'[d] = "ok" => out[d] = "ok" \/ applied'[d][1] > 0
    /\ \A d \in Calls : d \in conflict' =>
          \/ d \in conflict
          \/ /\ bearer[d] # None /\ Intent(d) \in DOMAIN ledger
             /\ ledger[Intent(d)] # work[d].arg

\* A step that leaves the runtime's state alone and makes no call return ok.
LEMMA LastingPlain ==
    ASSUME GatewayInv, UNCHANGED <<work, ledger, conflict, applied>>, NEW c \in Calls,
           \A d \in Calls : bearer[d] # None => bearer'[d] = bearer[d],
           out' = out \/ out' = [out EXCEPT ![c] = "error"]
    PROVE  Lasting
<1>1. out \in [Calls -> {"none", "ok", "error"}]
  BY Zenon DEF GatewayInv, RoutingInv, TypeOK
<1>2. \A d \in Calls : out'[d] = "ok" => out[d] = "ok"
  BY <1>1, Zenon
<1>. QED  BY <1>2, Zenon DEF Lasting

\* The handler outside the calls.
LEMMA LastingHandler ==
    ASSUME GatewayInv, NEW c \in Calls,
           \/ RejectForeign(c) \/ RejectInput(c)
           \/ \E readable \in BOOLEAN : ReadBearer(c, readable)
           \/ Verified(c) \/ VerifyRejects(c) \/ VerifyFails(c)
           \/ \E deleted \in BOOLEAN : DeleteSession(c, deleted)
           \/ RespondLifecycle(c)
    PROVE  Lasting
<1>1. UNCHANGED <<work, ledger, conflict, applied, out>>
  BY Zenon DEF RejectForeign, RejectInput, Reject, ReadBearer, Verified, Begin, Goto, VerifyRejects,
         VerifyFails, DeleteSession, RespondLifecycle, vars, callVars
<1>2. \A d \in Calls : bearer[d] # None => bearer'[d] = bearer[d]
  <2>1. CASE \E readable \in BOOLEAN : ReadBearer(c, readable)
    <3>1. bearer[c] = None
      BY <2>1, Zenon DEF ReadBearer, GatewayInv, StageInv
    <3>2. \A d \in Calls : d # c => bearer'[d] = bearer[d]
      BY <2>1, Zenon DEF ReadBearer, GatewayInv, GatewayTypeOK
    <3>. QED  BY <3>1, <3>2, Zenon
  <2>2. CASE ~\E readable \in BOOLEAN : ReadBearer(c, readable)
    <3>1. UNCHANGED bearer
      BY <2>2, Zenon DEF RejectForeign, RejectInput, Reject, Verified, VerifyRejects, VerifyFails,
             DeleteSession, RespondLifecycle
    <3>. QED  BY <3>1, Zenon
  <2>. QED  BY <2>1, <2>2, Zenon
<1>. QED  BY <1>1, <1>2, LastingPlain, Zenon

\* The steps of the resolver and of the retry that execute no command.
LEMMA LastingRoute ==
    ASSUME GatewayInv, NEW c \in Calls,
           \/ ScopeStep(c) \/ ScopeKnown(c) \/ RouteStep(c)
           \/ ControlAnswers(c, Lifetime) /\ UNCHANGED gatewayVars
    PROVE  Lasting
<1>1. UNCHANGED <<work, ledger, conflict, bearer>>
  BY Zenon DEF ScopeStep, ScopeKnown, RouteStep, gatewayVars, handlerVars
<1>2. applied' = applied /\ (out' = out \/ out' = [out EXCEPT ![c] = "error"])
  <2>1. CASE ScopeStep(c) \/ ScopeKnown(c)
    BY <2>1, Zenon DEF ScopeStep, ScopeKnown, ResolveCached, ResolveFetch, FetchEnds, FetchFails, Dials,
           Goto, Return
  <2>2. CASE RouteStep(c)
    <3>1. CASE ResolveCached(c) \/ ResolveFetch(c) \/ FetchEnds(c, TRUE) \/ FetchFails(c)
      BY <3>1, Zenon DEF ResolveCached, ResolveFetch, FetchEnds, FetchFails, Dials, Goto, Return
    <3>2. CASE (\E ok \in BOOLEAN : Dial(c, ok) \/ Auth(c, ok)) \/ Invalidate(c)
      BY <3>2, Zenon DEF Dial, Auth, Invalidate, Goto, Return
    <3>3. CASE \E epoch \in 1..MaxEpoch : CommandMoved(c, epoch, now)
      BY <3>3, Zenon DEF CommandMoved, Goto, Return
    <3>4. CASE LockMoved(c) \/ AcceptMoved(c, TRUE) \/ CommandFails(c, FALSE)
      BY <3>4, Zenon DEF LockMoved, AcceptMoved, CommandFails, Dials, Goto, Return
    <3>. QED  BY <2>2, <3>1, <3>2, <3>3, <3>4, Zenon DEF RouteStep
  <2>3. CASE ControlAnswers(c, Lifetime)
    BY <2>3, Zenon DEF ControlAnswers
  <2>. QED  BY <2>1, <2>2, <2>3, Zenon
<1>. QED  BY <1>1, <1>2, LastingPlain, Zenon

\* What executing a command does: the ledger has its argument, now or before.
LEMMA ExecuteFacts ==
    ASSUME GatewayInv, NEW c \in Calls, RuntimeExecutes(c)
    PROVE  /\ UNCHANGED <<work, bearer, conflict, status>> /\ status[c] = "none"
           /\ bearer[c] # None /\ bearer[c].scope = Ours
           /\ applied[c][1] = 0 /\ applied'[c][1] = 1
           /\ \A d \in Calls : d # c => applied'[d] = applied[d] /\ out'[d] = out[d]
           /\ \/ /\ Intent(c) \notin DOMAIN ledger
                 /\ ledger' = [k \in DOMAIN ledger \cup {Intent(c)} |->
                                 IF k = Intent(c) THEN work[c].arg ELSE ledger[k]]
                 /\ effects' = [effects EXCEPT ![Intent(c)] = @ + 1]
              \/ /\ Intent(c) \in DOMAIN ledger /\ ledger[Intent(c)] = work[c].arg
                 /\ UNCHANGED <<ledger, effects>>
<1>0. RoutingInv /\ TypeOK /\ StageInv(c)
  BY Zenon DEF GatewayInv, RoutingInv
<1>1. /\ stage[c] = "run" /\ Executes(c) /\ (CommandOk(c) \/ CommandFails(c, TRUE))
      /\ UNCHANGED <<work, bearer, conflict, status>>
  BY Zenon DEF RuntimeExecutes, handlerVars
<1>2. /\ pc[c] = "op" /\ applied' = [applied EXCEPT ![c][next[c]] = @ + 1]
      /\ out' = out \/ \E q : out' = [out EXCEPT ![c] = q]
  BY <1>1, Zenon DEF CommandOk, CommandFails, Goto, Return
<1>3. next[c] = 1 /\ 1 \in 1..Commands /\ applied[c][1] = 0
  BY <1>0, <1>2, OneCommand, Zenon
<1>4. applied'[c][1] = 1 /\ \A d \in Calls : d # c => applied'[d] = applied[d]
  <2>1. next[c] \in 1..Commands
    BY <1>3, Zenon
  <2>2. /\ applied'[c][next[c]] = applied[c][next[c]] + 1
        /\ \A d \in Calls : d # c => applied'[d] = applied[d]
    BY <1>0, <1>2, <2>1, AppliedFacts, Zenon
  <2>. QED  BY <1>3, <2>2
<1>5. \A d \in Calls : d # c => out'[d] = out[d]
  BY <1>0, <1>2, Zenon DEF TypeOK
<1>6. status[c] = "none" /\ bearer[c] # None /\ bearer[c].scope = Ours
  BY <1>0, <1>1, Zenon DEF StageInv
<1>7. Key(c) = Intent(c)
  BY <1>1, KeyFacts, Zenon
<1>8. \/ /\ Intent(c) \notin DOMAIN ledger
         /\ ledger' = [k \in DOMAIN ledger \cup {Intent(c)} |->
                         IF k = Intent(c) THEN work[c].arg ELSE ledger[k]]
         /\ effects' = [effects EXCEPT ![Intent(c)] = @ + 1]
      \/ /\ Intent(c) \in DOMAIN ledger /\ ledger[Intent(c)] = work[c].arg
         /\ UNCHANGED <<ledger, effects>>
  BY <1>1, <1>7, Zenon DEF Executes, Known
<1>. QED  BY <1>1, <1>3, <1>4, <1>5, <1>6, <1>8, Zenon

\* The steps that reach the runtime's state.
LEMMA LastingRuntime ==
    ASSUME GatewayInv, NEW c \in Calls, RuntimeExecutes(c) \/ RuntimeConflict(c)
    PROVE  Lasting
<1>1. CASE RuntimeExecutes(c)
  <2>1. /\ UNCHANGED <<work, bearer, conflict>> /\ applied'[c][1] = 1
        /\ \A d \in Calls : d # c => applied'[d] = applied[d] /\ out'[d] = out[d]
    BY <1>1, ExecuteFacts, Zenon
  <2>2. \A k \in DOMAIN ledger : k \in DOMAIN ledger' /\ ledger'[k] = ledger[k]
    <3>1. CASE UNCHANGED ledger
      BY <3>1, Zenon
    <3>2. CASE /\ Intent(c) \notin DOMAIN ledger
               /\ ledger' = [k \in DOMAIN ledger \cup {Intent(c)} |->
                               IF k = Intent(c) THEN work[c].arg ELSE ledger[k]]
      BY <3>2, Zenon
    <3>. QED  BY <1>1, <3>1, <3>2, ExecuteFacts, Zenon
  <2>3. applied'[c][1] > 0
    BY <2>1
  <2>. QED  BY <2>1, <2>2, <2>3, Zenon DEF Lasting
<1>2. CASE RuntimeConflict(c)
  <2>1. /\ UNCHANGED <<work, bearer, ledger>> /\ conflict' = conflict \cup {c} /\ stage[c] = "run"
        /\ Key(c) \in DOMAIN ledger /\ ledger[Key(c)] # work[c].arg
    BY <1>2, Zenon DEF RuntimeConflict, Known
  <2>2. applied' = applied /\ out' = [out EXCEPT ![c] = "error"]
    BY <1>2, Zenon DEF RuntimeConflict, CommandFails, Return
  <2>3. Key(c) = Intent(c) /\ bearer[c] # None
    BY <2>1, KeyFacts, Zenon DEF GatewayInv, StageInv
  <2>4. \A d \in Calls : out'[d] = "ok" => out[d] = "ok"
    BY <2>2, Zenon DEF GatewayInv, RoutingInv, TypeOK
  <2>. QED  BY <2>1, <2>2, <2>3, <2>4, Zenon DEF Lasting
<1>. QED  BY <1>1, <1>2, Zenon

\* Every step is lasting.
LEMMA LastingStep ==
    ASSUME GatewayInv, [GatewayNext]_allVars
    PROVE  Lasting
<1>1. CASE UNCHANGED allVars
  <2>1. UNCHANGED <<work, bearer, ledger, applied, out, conflict>>
    BY <1>1, Zenon DEF allVars, vars, callVars, gatewayVars, handlerVars
  <2>. QED  BY <2>1, Zenon DEF Lasting
<1>2. ASSUME NEW s \in Sessions, Renew(s) PROVE Lasting
  <2>1. UNCHANGED <<work, bearer, ledger, applied, out, conflict>>
    BY <1>2, Zenon DEF Renew, vars, callVars, handlerVars
  <2>. QED  BY <2>1, Zenon DEF Lasting
<1>3. ASSUME NEW i \in Instances, Move(i) /\ UNCHANGED gatewayVars PROVE Lasting
  <2>1. UNCHANGED <<work, bearer, ledger, applied, out, conflict>>
    BY <1>3, Zenon DEF Move, callVars, gatewayVars, handlerVars
  <2>. QED  BY <2>1, Zenon DEF Lasting
<1>. QED
  BY <1>1, <1>2, <1>3, LastingHandler, LastingRoute, LastingRuntime, Zenon DEF GatewayNext, HandlerStep


\* A call that returned ok has executed its command, and a conflict stays one.
THEOREM TruthInvariance == GatewaySpec => []TruthInv
<1>1. GatewayInit => TruthInv
  BY Zenon DEF GatewayInit, Init, TruthInv
<1>2. GatewayInv /\ TruthInv /\ [GatewayNext]_allVars => TruthInv'
  <2>. SUFFICES ASSUME GatewayInv, TruthInv, Lasting, NEW c \in Calls
                PROVE  /\ out'[c] = "ok" => applied'[c][1] > 0
                       /\ c \in conflict' => /\ Intent(c)' \in DOMAIN ledger'
                                             /\ ledger'[Intent(c)'] # work'[c].arg
    BY LastingStep, Zenon DEF TruthInv
  <2>1. out'[c] = "ok" => applied'[c][1] > 0
    BY Zenon DEF TruthInv, Lasting
  <2>2. ASSUME c \in conflict' PROVE Intent(c)' \in DOMAIN ledger' /\ ledger'[Intent(c)'] # work'[c].arg
    <3>1. bearer[c] # None
      BY <2>2, Zenon DEF Lasting, GatewayInv, EffectInv
    <3>2. Intent(c)' = Intent(c) /\ work' = work
      BY <3>1, Zenon DEF Lasting, Intent
    <3>3. Intent(c) \in DOMAIN ledger /\ ledger[Intent(c)] # work[c].arg
      BY <2>2, Zenon DEF Lasting, TruthInv
    <3>4. Intent(c) \in DOMAIN ledger' /\ ledger'[Intent(c)] = ledger[Intent(c)]
      BY <3>3, Zenon DEF Lasting
    <3>. QED  BY <3>2, <3>3, <3>4, Zenon
  <2>. QED  BY <2>1, <2>2, Zenon
<1>. QED  BY <1>1, <1>2, GatewayInvariance, PTL DEF GatewaySpec

-----------------------------------------------------------------------------
promiseVars == <<Asked, ledger, effects, Did, status>>

\* The fields of what a request asks for.
LEMMA RequestFacts ==
    \A c \in Calls : /\ Request(c).by = c /\ Request(c).intent = Intent(c)
                     /\ Request(c).arg = work[c].arg /\ Request(c).scope = bearer[c].scope
BY DEF Request

\* The same requests ask for the same when no bearer is read, and the effects
\* are the same when none is added.
LEMMA SameAsked == ASSUME UNCHANGED <<work, bearer>> PROVE Asked' = Asked
BY Zenon DEF Asked, Request, Intent

LEMMA SameDid == ASSUME UNCHANGED applied PROVE Did' = Did
BY Zenon DEF Did

\* Answering a request that is told the truth.
LEMMA AnswerRefines ==
    ASSUME GatewayInv, NEW c \in Calls, NEW s \in Responses, Answer(c, s), s # "none",
           UNCHANGED <<work, bearer, ledger, effects, applied>>, stage[c] # "done",
           s = "ok" => applied[c][1] > 0,
           applied[c][1] > 0 => s \in {"ok", "runtime_unavailable"},
           s = "idempotency_conflict" =>
               bearer[c] # None /\ Intent(c) \in DOMAIN ledger /\ ledger[Intent(c)] # work[c].arg
    PROVE  Promise!Next
<1>1. Asked' = Asked /\ Did' = Did
  BY SameAsked, SameDid, Zenon
<1>2. status[c] = "none" /\ status' = [status EXCEPT ![c] = s] /\ status'[c] = s
  BY Zenon DEF Answer, GatewayInv, GatewayTypeOK, StageInv
<1>3. c \in Did <=> applied[c][1] > 0
  BY Zenon DEF Did
<1>4. ASSUME s = "idempotency_conflict"
      PROVE  \E a \in Asked : a.by = c /\ Promise!Conflicting(a)
  <2>1. Request(c) \in Asked
    BY <1>4, Zenon DEF Asked
  <2>2. Promise!Conflicting(Request(c))
    BY <1>4, RequestFacts, Zenon DEF Promise!Conflicting
  <2>. QED  BY <2>1, <2>2, RequestFacts, Zenon
<1>5. Promise!Tell(c, s)
  BY <1>1, <1>2, <1>3, <1>4, Zenon DEF Promise!Tell
<1>. QED  BY <1>2, <1>5, Zenon DEF Promise!Next

\* The bearer of a request is read: from now on it asks.
LEMMA ReadRefines ==
    ASSUME GatewayInv, NEW c \in Calls, NEW readable \in BOOLEAN, ReadBearer(c, readable)
    PROVE  Promise!Next
<1>0. /\ stage[c] = "idle" /\ bearer[c] = None /\ status[c] = "none" /\ ~(applied[c][1] > 0)
      /\ UNCHANGED <<work, ledger, effects, applied>>
  BY Zenon DEF ReadBearer, GatewayInv, StageInv, EffectInv, vars, callVars
<1>1. CASE Answer(c, "unauthenticated") /\ UNCHANGED bearer
  <2>1. "unauthenticated" \in Responses
    BY Zenon DEF Responses
  <2>. QED  BY <1>0, <1>1, <2>1, AnswerRefines, Zenon
<1>2. CASE ~(Answer(c, "unauthenticated") /\ UNCHANGED bearer)
  <2>1. PICK b : b = SignIns[work[c].session][sessions[work[c].session]]
    BY Zenon
  <2>2. bearer' = [bearer EXCEPT ![c] = b] /\ UNCHANGED status /\ sessions[work[c].session] # 0
    BY <1>2, <2>1, Zenon DEF ReadBearer, Enters
  <2>3. b # None
    <3>1. work[c].session \in Sessions /\ GatewayTypeOK
      BY GatewayAssumption, Zenon DEF GatewayInv, GatewayTypeOK
    <3>. QED  BY <2>1, <2>2, <3>1, BearerFacts, Zenon
  <2>4. bearer'[c] = b /\ \A d \in Calls : d # c => bearer'[d] = bearer[d]
    BY <2>2, Zenon DEF GatewayInv, GatewayTypeOK
  <2>5. PICK a : a = Request(c)'
    BY Zenon
  <2>6. a.by = c
    BY <2>5 DEF Request
  <2>7. Asked' = Asked \cup {a}
    <3>1. \A d \in Calls : d # c => Request(d)' = Request(d)
      BY <1>0, <2>4, Zenon DEF Request, Intent
    <3>2. ASSUME NEW x \in Asked' PROVE x \in Asked \cup {a}
      <4>1. PICK d \in Calls : bearer'[d] # None /\ x = Request(d)'
        BY <3>2, Zenon DEF Asked
      <4>. QED  BY <2>4, <2>5, <3>1, <4>1, Zenon DEF Asked
    <3>3. ASSUME NEW x \in Asked PROVE x \in Asked'
      <4>1. PICK d \in Calls : bearer[d] # None /\ x = Request(d)
        BY <3>3, Zenon DEF Asked
      <4>2. d # c
        BY <1>0, <4>1, Zenon
      <4>. QED  BY <2>4, <3>1, <4>1, <4>2, Zenon DEF Asked
    <3>4. a \in Asked'
      BY <2>3, <2>4, <2>5, Zenon DEF Asked
    <3>. QED  BY <3>2, <3>3, <3>4, Zenon
  <2>8. \A x \in Asked : x.by # a.by
    <3>1. ASSUME NEW x \in Asked PROVE x.by # c
      <4>1. PICK d \in Calls : bearer[d] # None /\ x = Request(d)
        BY <3>1, Zenon DEF Asked
      <4>. QED  BY <1>0, <4>1, RequestFacts, Zenon
    <3>. QED  BY <2>6, <3>1, Zenon
  <2>9. Promise!Ask(a)
    BY <1>0, <2>2, <2>6, <2>7, <2>8, SameDid, Zenon DEF Promise!Ask
  <2>. QED  BY <2>7, <2>9, Zenon DEF Promise!Next
<1>. QED  BY <1>1, <1>2, Zenon

\* The owner executes the command of a request.
LEMMA ExecuteRefines ==
    ASSUME GatewayInv, NEW c \in Calls, RuntimeExecutes(c)
    PROVE  Promise!Next
<1>1. PICK a : a = Request(c)
  BY Zenon
<1>2. /\ a.by = c /\ a.intent = Intent(c) /\ a.arg = work[c].arg /\ a.scope = bearer[c].scope
  BY <1>1, RequestFacts, Zenon
<1>3. /\ UNCHANGED <<work, bearer, status>> /\ status[c] = "none"
      /\ bearer[c] # None /\ bearer[c].scope = Ours
      /\ applied[c][1] = 0 /\ applied'[c][1] = 1
      /\ \A d \in Calls : d # c => applied'[d] = applied[d]
  BY ExecuteFacts, Zenon
<1>4. Asked' = Asked /\ a \in Asked
  BY <1>1, <1>3, SameAsked, Zenon DEF Asked
<1>5. c \notin Did /\ Did' = Did \cup {c}
  <2>1. ~(applied[c][1] > 0) /\ applied'[c][1] > 0
    BY <1>3
  <2>. QED  BY <1>3, <2>1, Zenon DEF Did
<1>6. \/ /\ a.intent \notin DOMAIN ledger
         /\ ledger' = [k \in DOMAIN ledger \cup {a.intent} |->
                         IF k = a.intent THEN a.arg ELSE ledger[k]]
         /\ effects' = [effects EXCEPT ![a.intent] = @ + 1]
      \/ /\ a.intent \in DOMAIN ledger /\ ledger[a.intent] = a.arg
         /\ UNCHANGED <<ledger, effects>>
  BY <1>2, ExecuteFacts
<1>7. Promise!CarryOut(a)
  BY <1>2, <1>3, <1>4, <1>5, <1>6, Zenon DEF Promise!CarryOut
<1>. QED  BY <1>4, <1>7, Zenon DEF Promise!Next


\* The answers to a request: refusals before the scope is known, and the
\* answer of the command.
LEMMA RefuseRefines ==
    ASSUME GatewayInv, NEW c \in Calls,
           \/ RejectForeign(c) \/ RejectInput(c) \/ VerifyFails(c)
           \/ \E deleted \in BOOLEAN : DeleteSession(c, deleted)
    PROVE  Promise!Next
<1>1. /\ stage[c] \in {"idle", "verify", "delete"}
      /\ UNCHANGED <<work, bearer, ledger, effects, applied>>
  BY Zenon DEF RejectForeign, RejectInput, Reject, VerifyFails, DeleteSession, vars, callVars
<1>2. \E s \in {"request_rejected", "invalid_request", "identity_unavailable", "unauthenticated"} :
         Answer(c, s)
  BY Zenon DEF RejectForeign, RejectInput, Reject, VerifyFails, DeleteSession
<1>3. PICK s \in {"request_rejected", "invalid_request", "identity_unavailable", "unauthenticated"} :
         Answer(c, s)
  BY <1>2, Zenon
<1>4. s \in Responses /\ s \notin {"none", "ok", "idempotency_conflict"}
  BY <1>3, Zenon DEF Responses
<1>5. ~(applied[c][1] > 0) /\ stage[c] # "done"
  BY <1>1, Zenon DEF GatewayInv, EffectInv
<1>. QED  BY <1>1, <1>3, <1>4, <1>5, AnswerRefines, Zenon

LEMMA RespondRefines ==
    ASSUME GatewayInv, TruthInv, NEW c \in Calls, RespondLifecycle(c)
    PROVE  Promise!Next
<1>1. PICK s : s = IF out[c] = "ok" THEN "ok"
                   ELSE IF c \in conflict THEN "idempotency_conflict" ELSE "runtime_unavailable"
  BY Zenon
<1>2. /\ Answer(c, s) /\ stage[c] # "done"
      /\ UNCHANGED <<work, bearer, ledger, effects, applied>>
  BY <1>1, Zenon DEF RespondLifecycle, vars, callVars
<1>3. s \in Responses /\ s # "none"
  BY <1>1, Zenon DEF Responses
<1>4. s = "ok" => applied[c][1] > 0
  BY <1>1, Zenon DEF TruthInv
<1>5. applied[c][1] > 0 => s \in {"ok", "runtime_unavailable"}
  BY <1>1, Zenon DEF GatewayInv, EffectInv
<1>6. s = "idempotency_conflict" =>
        bearer[c] # None /\ Intent(c) \in DOMAIN ledger /\ ledger[Intent(c)] # work[c].arg
  BY <1>1, Zenon DEF TruthInv, GatewayInv, EffectInv
<1>. QED  BY <1>2, <1>3, <1>4, <1>5, <1>6, AnswerRefines, Zenon

\* The other steps are invisible to the users of the endpoints.
LEMMA InvisibleStep ==
    ASSUME UNCHANGED <<work, bearer, ledger, effects, applied, status>>
    PROVE  UNCHANGED promiseVars
BY SameAsked, SameDid, Zenon DEF promiseVars

LEMMA RouteRefines ==
    ASSUME GatewayInv, NEW c \in Calls,
           \/ Verified(c) \/ VerifyRejects(c) \/ ScopeStep(c) \/ ScopeKnown(c)
           \/ RouteStep(c) \/ RuntimeConflict(c)
           \/ ControlAnswers(c, Lifetime) /\ UNCHANGED gatewayVars
    PROVE  UNCHANGED promiseVars
<1>1. UNCHANGED <<work, bearer, ledger, effects, status>>
  BY Zenon DEF Verified, VerifyRejects, ScopeStep, ScopeKnown, RouteStep, RuntimeConflict, Enters,
         gatewayVars, handlerVars
<1>2. UNCHANGED applied
  <2>1. CASE Verified(c) \/ VerifyRejects(c) \/ ScopeStep(c) \/ ScopeKnown(c)
    BY <2>1, Zenon DEF Verified, Begin, VerifyRejects, ScopeStep, ScopeKnown, ResolveCached, ResolveFetch,
           FetchEnds, FetchFails, Dials, Goto, Return, vars, callVars
  <2>2. CASE RouteStep(c)
    <3>1. CASE ResolveCached(c) \/ ResolveFetch(c) \/ FetchEnds(c, TRUE) \/ FetchFails(c)
      BY <3>1, Zenon DEF ResolveCached, ResolveFetch, FetchEnds, FetchFails, Dials, Goto, Return
    <3>2. CASE (\E ok \in BOOLEAN : Dial(c, ok) \/ Auth(c, ok)) \/ Invalidate(c)
      BY <3>2, Zenon DEF Dial, Auth, Invalidate, Goto, Return
    <3>3. CASE \E epoch \in 1..MaxEpoch : CommandMoved(c, epoch, now)
      BY <3>3, Zenon DEF CommandMoved, Goto, Return
    <3>4. CASE LockMoved(c) \/ AcceptMoved(c, TRUE) \/ CommandFails(c, FALSE)
      BY <3>4, Zenon DEF LockMoved, AcceptMoved, CommandFails, Dials, Goto, Return
    <3>. QED  BY <2>2, <3>1, <3>2, <3>3, <3>4, Zenon DEF RouteStep
  <2>3. CASE RuntimeConflict(c)
    BY <2>3, Zenon DEF RuntimeConflict, CommandFails, Return
  <2>4. CASE ControlAnswers(c, Lifetime)
    BY <2>4, Zenon DEF ControlAnswers
  <2>. QED  BY <2>1, <2>2, <2>3, <2>4, Zenon
<1>. QED  BY <1>1, <1>2, InvisibleStep, Zenon

\* Every step of the gateway is a step of the promise or leaves it alone.
LEMMA StepKeepsPromise ==
    ASSUME GatewayInv, TruthInv, [GatewayNext]_allVars
    PROVE  Promise!Next \/ UNCHANGED promiseVars
<1>1. CASE UNCHANGED allVars
  <2>1. UNCHANGED <<work, bearer, ledger, effects, applied, status>>
    BY <1>1, Zenon DEF allVars, vars, callVars, gatewayVars, handlerVars
  <2>. QED  BY <2>1, InvisibleStep, Zenon
<1>2. ASSUME NEW s \in Sessions, Renew(s) PROVE UNCHANGED promiseVars
  <2>1. UNCHANGED <<work, bearer, ledger, effects, applied, status>>
    BY <1>2, Zenon DEF Renew, vars, callVars, handlerVars
  <2>. QED  BY <2>1, InvisibleStep, Zenon
<1>3. ASSUME NEW i \in Instances, Move(i) /\ UNCHANGED gatewayVars PROVE UNCHANGED promiseVars
  <2>1. UNCHANGED <<work, bearer, ledger, effects, applied, status>>
    BY <1>3, Zenon DEF Move, callVars, gatewayVars, handlerVars
  <2>. QED  BY <2>1, InvisibleStep, Zenon
<1>4. ASSUME NEW c \in Calls, HandlerStep(c) PROVE Promise!Next \/ UNCHANGED promiseVars
  BY <1>4, RefuseRefines, RespondRefines, ExecuteRefines, RouteRefines, Zenon DEF HandlerStep
<1>. QED
  BY <1>1, <1>2, <1>3, <1>4, RefuseRefines, ReadRefines, RouteRefines, Zenon DEF GatewayNext

\* The handler over the resolver, the retry and the runtimes implements the
\* abstract specification of the lifecycle endpoints: for each user, operation
\* and idempotency key one effect with one argument, and true answers.
THEOREM RefinesKeyedCommands == GatewaySpec => ImplementsKeyedCommands
<1>1. GatewayInit => Promise!Init
  <2>. SUFFICES ASSUME GatewayInit PROVE Promise!Init
    OBVIOUS
  <2>1. /\ ledger = <<>> /\ effects = [i \in Intents |-> 0] /\ status = [c \in Calls |-> "none"]
        /\ bearer = [c \in Calls |-> None]
    BY Zenon DEF GatewayInit
  <2>2. Asked = {}
    BY <2>1, Zenon DEF Asked
  <2>3. Did = {}
    <3>1. 1 \in 1..Commands
      BY GatewayAssumption
    <3>2. ASSUME NEW c \in Calls PROVE ~(applied[c][1] > 0)
      <4>1. applied[c][1] = 0
        BY <3>1, Zenon DEF GatewayInit, Init
      <4>. QED  BY <4>1
    <3>. QED  BY <3>2, Zenon DEF Did
  <2>. QED  BY <2>1, <2>2, <2>3, Zenon DEF Promise!Init
<1>2. GatewayInv /\ TruthInv /\ [GatewayNext]_allVars
        => [Promise!Next]_<<Asked, ledger, effects, Did, status>>
  BY StepKeepsPromise, Zenon DEF promiseVars
<1>. QED
  BY <1>1, <1>2, GatewayInvariance, TruthInvariance, PTL DEF GatewaySpec, ImplementsKeyedCommands, Promise!Spec

=============================================================================
