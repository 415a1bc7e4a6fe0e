-------------------------- MODULE DevelopmentProofs --------------------------
(***************************************************************************)
(* Proofs about the development connector: the heartbeat goroutine keeps a *)
(* connection within its lease, for every choice of the timeouts, and the  *)
(* reader, the goroutines of the requests and the relay keep slots,        *)
(* identifiers and contexts straight, for every number of requests and     *)
(* generations.                                                            *)
(***************************************************************************)
EXTENDS DevelopmentConnector, DevelopmentLease, FiniteSetTheorems, TLAPS

-----------------------------------------------------------------------------
(* The heartbeat goroutine. *)

\* What min() returns (connector.go uses Go's built-in).
LEMMA LeastFacts ==
    ASSUME NEW a \in Int, NEW b \in Int
    PROVE  Least(a, b) \in Int /\ Least(a, b) <= a /\ Least(a, b) <= b
BY DEF Least

\* sessionRefreshAt never chooses a time past the end of the lease, unless
\* that time has come.
LEMMA RefreshFacts ==
    ASSUME NEW expires \in Nat, NEW at \in Nat
    PROVE  /\ SessionRefreshAt(expires, at) \in Int
           /\ SessionRefreshAt(expires, at) <= expires \/ SessionRefreshAt(expires, at) <= at
<1> DEFINE d == expires - at
           h == d \div 2
<1>1. d \in Int OBVIOUS
<1>2. h \in Int /\ (h <= d \/ h <= 0)
  <2> HIDE DEF d
  <2> QED BY <1>1
<1>3. RefreshPeriod \in Int BY LeaseAssumption
<1> HIDE DEF h
<1>4. Least(RefreshPeriod, h) \in Int /\ Least(RefreshPeriod, h) <= h
  BY <1>2, <1>3, LeastFacts, Zenon
<1>5. SessionRefreshAt(expires, at) = at + Least(RefreshPeriod, h)
  BY Zenon DEF SessionRefreshAt, h, d
<1> HIDE DEF d
<1>6. d = expires - at BY Zenon DEF d
<1> QED BY <1>1, <1>2, <1>4, <1>5, <1>6

\* The first session satisfies the invariant.
LEMMA LeaseStarts == LeaseInit => LeaseTypeOK /\ LeaseInv
<1> SUFFICES ASSUME LeaseInit PROVE LeaseTypeOK /\ LeaseInv BY Zenon
<1>1. now \in Nat /\ expiresAt \in Nat /\ Heartbeat \in Int BY LeaseAssumption DEF LeaseInit
<1>2. nextRefresh \in Int /\ (nextRefresh <= expiresAt \/ nextRefresh <= now)
  BY <1>1, RefreshFacts, Zenon DEF LeaseInit
<1>3. nextRefresh - now \in Int BY <1>1, <1>2
<1>4. timer \in Int /\ timer <= nextRefresh
  <2>1. Least(Heartbeat, nextRefresh - now) \in Int /\ Least(Heartbeat, nextRefresh - now) <= nextRefresh - now
    BY <1>1, <1>3, LeastFacts, Zenon
  <2>2. timer = now + Least(Heartbeat, nextRefresh - now) BY Zenon DEF LeaseInit
  <2> QED BY <1>1, <1>2, <2>1, <2>2
<1> QED BY <1>1, <1>2, <1>4 DEF LeaseInit, LeaseTypeOK, LeaseInv

\* Every step of the goroutine and of the clock preserves the invariant.
LEMMA LeaseStep == LeaseTypeOK /\ LeaseInv /\ [LeaseNext]_leaseVars => LeaseTypeOK' /\ LeaseInv'
<1> SUFFICES ASSUME LeaseTypeOK, LeaseInv, [LeaseNext]_leaseVars PROVE LeaseTypeOK' /\ LeaseInv' BY Zenon
<1> USE LeaseAssumption
<1>1. CASE StartPing
  <2>1. now + PingTimeout \in Int /\ expiresAt \in Int BY DEF LeaseTypeOK
  <2>2. deadline' \in Int /\ deadline' <= expiresAt BY <1>1, <2>1, LeastFacts, Zenon DEF StartPing
  <2> QED BY <1>1, <2>2, Zenon DEF StartPing, LeaseTypeOK, LeaseInv
<1>2. CASE Pong
  <2>1. CASE now < nextRefresh
    <3>1. nextRefresh - now \in Int /\ Heartbeat \in Int BY DEF LeaseTypeOK
    <3> DEFINE t == Least(Heartbeat, nextRefresh - now)
    <3>2. t \in Int /\ t <= nextRefresh - now BY <3>1, LeastFacts, Zenon
    <3>3. timer' = now + t BY <1>2, <2>1, Zenon DEF Pong, ResetTimer
    <3> HIDE DEF t
    <3> QED BY <1>2, <2>1, <3>2, <3>3 DEF Pong, LeaseTypeOK, LeaseInv
  <2>2. CASE ~(now < nextRefresh)
    <3>1. now + RefreshTimeout \in Int /\ expiresAt \in Int BY DEF LeaseTypeOK
    <3> DEFINE d == Least(expiresAt, now + RefreshTimeout)
    <3>2. d \in Int /\ d <= expiresAt BY <3>1, LeastFacts, Zenon
    <3>3. now <= d BY <1>2 DEF Least, LeaseTypeOK, LeaseInv, Pong
    <3>4. deadline' = d BY <1>2, <2>2, Zenon DEF Pong
    <3> HIDE DEF d
    <3> QED BY <1>2, <2>2, <3>2, <3>3, <3>4, Zenon DEF Pong, LeaseTypeOK, LeaseInv
  <2> QED BY <2>1, <2>2, Zenon
<1>3. CASE PingFails BY <1>3, Zenon DEF PingFails, End, LeaseTypeOK, LeaseInv
<1>4. ASSUME NEW expires \in 0..(MaxTime + MaxLease), NEW same \in BOOLEAN, Refreshed(expires, same)
      PROVE  LeaseTypeOK' /\ LeaseInv'
  BY <1>4 DEF Refreshed, End, LeaseTypeOK, LeaseInv
<1>5. ASSUME NEW permanent \in BOOLEAN, RefreshFails(permanent)
      PROVE  LeaseTypeOK' /\ LeaseInv'
  BY <1>5 DEF RefreshFails, End, LeaseTypeOK, LeaseInv
<1>6. CASE Authenticated
  <2>1. now \in Nat /\ next \in Nat /\ Heartbeat \in Int BY DEF LeaseTypeOK
  <2>2. nextRefresh' \in Int /\ (nextRefresh' <= next \/ nextRefresh' <= now)
    BY <1>6, <2>1, RefreshFacts, Zenon DEF Authenticated
  <2>3. nextRefresh' - now \in Int BY <2>1, <2>2
  <2>4. PICK t \in Int : timer' = now + t /\ t <= nextRefresh' - now
    BY <1>6, <2>1, <2>3, LeastFacts, Zenon DEF Authenticated, ResetTimer
  <2>5. /\ pc' = "wait" /\ expiresAt' = next
        /\ now' = now /\ deadline' = deadline /\ next' = next
    BY <1>6, Zenon DEF Authenticated
  <2>6. timer' \in Int /\ timer' <= nextRefresh'
    <3>1. ASSUME NEW r \in Int, NEW n \in Int, NEW d \in Int, d <= r - n
          PROVE  n + d \in Int /\ n + d <= r
      BY <3>1
    <3>2. now \in Int BY <2>1
    <3> QED BY <2>2, <2>4, <3>1, <3>2, Zenon
  <2>7. deadline \in Int BY Zenon DEF LeaseTypeOK
  <2>8. LeaseTypeOK' BY <2>1, <2>2, <2>5, <2>6, <2>7, Zenon DEF LeaseTypeOK
  <2>9. LeaseInv' BY <2>1, <2>2, <2>5, <2>6 DEF LeaseInv
  <2> QED BY <2>8, <2>9, Zenon
<1>7. CASE AuthenticateFails BY <1>7, Zenon DEF AuthenticateFails, End, LeaseTypeOK, LeaseInv
<1>8. CASE Tick BY <1>8 DEF Tick, LeaseTypeOK, LeaseInv
<1>9. CASE UNCHANGED leaseVars BY <1>9, Zenon DEF leaseVars, LeaseTypeOK, LeaseInv
<1> QED BY <1>1, <1>2, <1>3, <1>4, <1>5, <1>6, <1>7, <1>8, <1>9, Zenon DEF LeaseNext

\* The types and the inductive invariant hold in every reachable state.
THEOREM LeaseInvariance == LeaseSpec => [](LeaseTypeOK /\ LeaseInv)
BY LeaseStarts, LeaseStep, PTL DEF LeaseSpec

\* The connection never outlives its lease by more than one write of an
\* authenticate frame (the heartbeat goroutine of Connect).
THEOREM LeaseIsBounded == LeaseSpec => []LeaseBound
<1>1. LeaseTypeOK /\ LeaseInv => LeaseBound
  BY LeaseAssumption DEF LeaseTypeOK, LeaseInv, LeaseBound
<1> QED BY <1>1, LeaseInvariance, PTL

-----------------------------------------------------------------------------
(* The connector: facts about its records. *)

LEMMA CapacityFacts ==
    /\ MaxConcurrent \in Nat
    /\ \A s \in 0..MaxConcurrent : s # MaxConcurrent => s + 1 \in 0..MaxConcurrent
BY ConnectorAssumption

LEMMA HandlerFacts ==
    ASSUME TypeOK, NEW n \in Requests
    PROVE  /\ n \in Nat /\ n # None
           /\ handler[n] \in HandlerStates
           /\ handler[n].gen \in Nat
           /\ handler[n].id \in Ids \cup {None}
           /\ handler[n].pc \in {"none", "sent", "handling", "writing", "release", "delete", "done"}
<1>1. n \in Nat /\ n # None
  BY ConnectorAssumption DEF Requests
<1>2. handler[n] \in HandlerStates
  BY Zenon DEF TypeOK
<1>. QED  BY <1>1, <1>2, Zenon DEF HandlerStates

LEMMA FrameFacts ==
    ASSUME NEW f \in Frames
    PROVE  /\ f.kind \in {"request", "cancel", "other"}
           /\ f.kind # "other" => f.id \in Ids /\ f.n \in Requests
           /\ f.kind = "request" => f.inTime \in BOOLEAN
<1>1. CASE f \in RequestFrames
  BY <1>1, Zenon DEF RequestFrames
<1>2. CASE f \in CancelFrames
  BY <1>2, Zenon DEF CancelFrames
<1>3. CASE f \in [kind : {"other"}]
  BY <1>3, Zenon
<1>. QED  BY <1>1, <1>2, <1>3, Zenon DEF Frames

LEMMA WireFacts ==
    ASSUME TypeOK
    PROVE  /\ Len(wire) \in Nat
           /\ \A k \in 1..Len(wire) : wire[k] \in Frames
           /\ \A k \in 1..Len(wire) : wire[k].kind \in {"request", "cancel", "other"}
           /\ \A k \in 1..Len(wire) : wire[k].kind # "other" => wire[k].id \in Ids /\ wire[k].n \in Requests
<1>1. Len(wire) \in Nat /\ \A k \in 1..Len(wire) : wire[k] \in Frames
  BY DEF TypeOK
<1>. QED  BY <1>1, FrameFacts, Zenon

\* What is left on the wire when its first frame is taken.
LEMMA TailFacts ==
    ASSUME TypeOK, wire # <<>>, wire' = Tail(wire)
    PROVE  /\ wire' \in Seq(Frames)
           /\ Len(wire) >= 1 /\ Head(wire) = wire[1] /\ wire[1] \in Frames
           /\ Len(wire') = Len(wire) - 1
           /\ \A k \in 1..Len(wire') : k + 1 \in 1..Len(wire) /\ wire'[k] = wire[k + 1]
<1>1. wire \in Seq(Frames)
  BY Zenon DEF TypeOK
<1>. QED  BY <1>1

\* The wire after a frame is sent.
LEMMA AppendFacts ==
    ASSUME TypeOK, NEW f \in Frames, wire' = Append(wire, f)
    PROVE  /\ wire' \in Seq(Frames)
           /\ Len(wire') = Len(wire) + 1
           /\ \A k \in 1..Len(wire) : wire'[k] = wire[k]
           /\ wire'[Len(wire) + 1] = f
<1>1. wire \in Seq(Frames)
  BY Zenon DEF TypeOK
<1>. QED  BY <1>1

-----------------------------------------------------------------------------
(* Steps that move the reader along, or end contexts, and touch nothing else. *)

LEMMA RunKept ==
    ASSUME TypeOK, NumberingInv, ActiveInv, WaitingInv, SuccessionInv, WireInv, SlotsBalance,
           UNCHANGED <<gen, slots, active, handler, wire, waiting>>,
           run' \in {"dial", "ready"} => run \in {"dial", "ready"},
           run' = "reading" => run = "reading",
           run' = "returning" => run \in {"reading", "returning"},
           run' \notin {"reading", "returning", "closing"} => run \notin {"reading", "returning", "closing"}
    PROVE  NumberingInv' /\ ActiveInv' /\ WaitingInv' /\ SuccessionInv' /\ WireInv' /\ SlotsBalance'
<1>1. /\ gen' = gen /\ slots' = slots /\ active' = active /\ handler' = handler
      /\ wire' = wire /\ waiting' = waiting
  BY Zenon
<1>2. NumberingInv'
  BY <1>1, Zenon DEF NumberingInv, At
<1>3. ActiveInv'
  BY <1>1, Zenon DEF ActiveInv, Running
<1>4. WaitingInv'
  <2>1. \A i \in Ids : waiting[i] # None =>
         /\ handler[waiting[i]].id = i /\ handler[waiting[i]].gen = gen /\ ~At(waiting[i], "none")
         /\ \A m \in Requests : ~At(m, "none") /\ handler[m].gen = gen /\ handler[m].id = i => m <= waiting[i]
    BY Zenon DEF WaitingInv
  <2>2. run' \in {"reading", "returning"} => run \in {"reading", "returning"}
    BY Zenon
  <2>. QED  BY <1>1, <2>1, <2>2, Zenon DEF WaitingInv, At
<1>5. SuccessionInv'
  BY <1>1, Zenon DEF SuccessionInv, At
<1>6. FramesInv' /\ (CarriedInv => CarriedInv') /\ (CancelInv => CancelInv')
  <2>1. FramesInv'
    BY <1>1, Zenon DEF WireInv, FramesInv, Carries, At
  <2>2. CarriedInv => CarriedInv'
    BY <1>1, Zenon DEF CarriedInv, Carries, At
  <2>3. CancelInv => CancelInv'
    BY <1>1 DEF CancelInv, Carries, At
  <2>. QED  BY <2>1, <2>2, <2>3, Zenon
<1>7. WireInv'
  BY <1>6, Zenon DEF WireInv
<1>8. SlotsBalance'
  BY <1>1, Zenon DEF SlotsBalance, Running, At
<1>. QED  BY <1>2, <1>3, <1>4, <1>5, <1>7, <1>8, Zenon

\* The steps of Run and of the reader that only move along.
LEMMA MoveStep ==
    ASSUME ConnectorInv,
           \/ \E e \in Errors : SessionFails(e) \/ DialFails(e) \/ NotReady(e)
           \/ DialOk \/ ReadFails \/ BackoffEnds \/ PeerCloses
    PROVE  ConnectorInv'
<1>1. /\ UNCHANGED <<gen, slots, active, handler, wire, waiting>> /\ alive' = alive /\ stopped' = stopped
      /\ \/ run' = run
         \/ run \in {"session", "dial", "ready"} /\ run' = "closing"
         \/ run = "dial" /\ run' = "ready"
         \/ run = "reading" /\ run' = "returning"
         \/ run = "backoff" /\ run' \in {"session", "stopped"}
  BY Zenon DEF SessionFails, DialFails, NotReady, DialOk, ReadFails, BackoffEnds, PeerCloses, Fails,
               Return, runVars, relayVars
<1>2. TypeOK'
  <2>1. err' \in Errors \cup {"none"} /\ open' \in BOOLEAN /\ shutdown' = shutdown
    BY Zenon DEF SessionFails, DialFails, NotReady, DialOk, ReadFails, BackoffEnds, PeerCloses, Fails,
                 Return, runVars, relayVars, ConnectorInv, TypeOK, Errors
  <2>2. delay' \in Nat
    BY ConnectorAssumption DEF SessionFails, DialFails, NotReady, DialOk, ReadFails, BackoffEnds, PeerCloses,
                 runVars, ConnectorInv, TypeOK
  <2>3. run' \in {"session", "dial", "ready", "reading", "returning", "closing", "backoff", "stopped"}
    BY <1>1, Zenon DEF ConnectorInv, TypeOK
  <2>. QED  BY <1>1, <2>1, <2>2, <2>3, Zenon DEF ConnectorInv, TypeOK
<1>3. ContextInv'
  BY <1>1, Zenon DEF ConnectorInv, ContextInv, At
<1>4. NumberingInv' /\ ActiveInv' /\ WaitingInv' /\ SuccessionInv' /\ WireInv' /\ SlotsBalance'
  BY <1>1, RunKept, Zenon DEF ConnectorInv
<1>. QED  BY <1>2, <1>3, <1>4, Zenon DEF ConnectorInv

\* The steps that end contexts.
LEMMA CancelStep ==
    ASSUME ConnectorInv, CancelActive \/ Shutdown \/ HeartbeatEnds \/ \E n \in Requests : Expire(n)
    PROVE  ConnectorInv'
<1>1. /\ UNCHANGED <<gen, slots, active, handler, wire, waiting, err, delay>>
      /\ run' = run \/ (run = "returning" /\ run' = "closing")
  BY Zenon DEF CancelActive, Shutdown, HeartbeatEnds, EndGeneration, Expire, runVars, relayVars
<1>2. /\ stopped' \subseteq Requests /\ stopped \subseteq stopped'
      /\ \/ alive' = alive /\ run' = run
         \/ ~alive' /\ \A n \in Requests : At(n, "handling") /\ handler[n].gen = gen => n \in stopped'
  BY Zenon DEF CancelActive, Shutdown, HeartbeatEnds, EndGeneration, Expire, OfGeneration, At, ConnectorInv, TypeOK,
         runVars
<1>3. TypeOK'
  <2>1. open' \in BOOLEAN /\ alive' \in BOOLEAN /\ shutdown' \in BOOLEAN
    BY Zenon DEF CancelActive, Shutdown, HeartbeatEnds, EndGeneration, Expire, runVars, ConnectorInv, TypeOK
  <2>. QED  BY <1>1, <1>2, <2>1, Zenon DEF ConnectorInv, TypeOK
<1>4. ContextInv'
  <2>1. /\ handler' = handler /\ gen' = gen
        /\ \A n \in Requests : At(n, "handling") /\ n \notin stopped => alive /\ handler[n].gen = gen
    BY <1>1, Zenon DEF ConnectorInv, ContextInv
  <2>2. CASE alive' = alive /\ run' = run
    BY <1>2, <2>1, <2>2, Zenon DEF ConnectorInv, ContextInv, At
  <2>3. CASE ~alive' /\ \A n \in Requests : At(n, "handling") /\ handler[n].gen = gen => n \in stopped'
    BY <1>2, <2>1, <2>3, Zenon DEF ContextInv, At
  <2>. QED  BY <1>2, <2>2, <2>3, Zenon
<1>5. NumberingInv' /\ ActiveInv' /\ WaitingInv' /\ SuccessionInv' /\ WireInv' /\ SlotsBalance'
  BY <1>1, RunKept, Zenon DEF ConnectorInv
<1>. QED  BY <1>3, <1>4, <1>5, Zenon DEF ConnectorInv

\* A session begins a generation: no request belongs to it yet.
LEMMA SessionStep ==
    ASSUME ConnectorInv, SessionOk
    PROVE  ConnectorInv'
<1>. USE DEF SessionOk, relayVars, ConnectorInv
<1>1. TypeOK'
  BY DEF TypeOK
<1>2. \A n \in Requests : handler'[n].gen < gen'
  BY HandlerFacts DEF NumberingInv, TypeOK
<1>3. NumberingInv'
  BY <1>2, HandlerFacts DEF NumberingInv, At, TypeOK
<1>4. \A n \in Requests : handler'[n].gen # gen'
  BY <1>2, HandlerFacts DEF TypeOK
<1>5. ActiveInv'
  BY <1>4, Zenon DEF ActiveInv, Running
<1>6. ContextInv'
  BY Zenon DEF ContextInv, At
<1>7. wire' = <<>> /\ run' = "dial" /\ waiting' = waiting /\ \A i \in Ids : waiting[i] = None
  BY Zenon DEF WaitingInv
<1>8. WaitingInv'
  BY <1>4, <1>7, Zenon DEF WaitingInv
<1>9. SuccessionInv'
  BY <1>4, Zenon DEF SuccessionInv
<1>10. WireInv'
  BY <1>7 DEF WireInv, FramesInv
<1>11. SlotsBalance'
  BY Zenon DEF SlotsBalance, Running, At
<1>. QED  BY <1>1, <1>3, <1>5, <1>6, <1>8, <1>9, <1>10, <1>11, Zenon

\* The ready frame: the generation reads, and has no request yet.
LEMMA ReadyStep ==
    ASSUME ConnectorInv, Ready
    PROVE  ConnectorInv'
<1>. USE DEF Ready, relayVars, ConnectorInv
<1>1. TypeOK'
  BY Zenon DEF TypeOK
<1>2. \A n \in Requests : handler[n].gen # gen
  BY HandlerFacts DEF NumberingInv, TypeOK
<1>3. NumberingInv'
  BY Zenon DEF NumberingInv, At
<1>4. ActiveInv'
  BY Zenon DEF ActiveInv, Running
<1>5. ContextInv'
  BY Zenon DEF ContextInv, At
<1>6. wire' = <<>> /\ wire = <<>> /\ run' = "reading" /\ UNCHANGED <<handler, gen, waiting>>
      /\ \A i \in Ids : waiting[i] = None
  BY Zenon DEF WaitingInv
<1>7. WaitingInv'
  BY <1>2, <1>6, Zenon DEF WaitingInv
<1>8. SuccessionInv'
  BY <1>2, <1>6, Zenon DEF SuccessionInv
<1>9. WireInv'
  BY <1>2, <1>6 DEF WireInv, FramesInv, CarriedInv, CancelInv
<1>10. SlotsBalance'
  BY Zenon DEF SlotsBalance, Running, At
<1>. QED  BY <1>1, <1>3, <1>4, <1>5, <1>7, <1>8, <1>9, <1>10, Zenon

\* The connection is closed: the wire is empty and the relay waits for nothing.
LEMMA CloseStep ==
    ASSUME ConnectorInv, NEW lasted \in BOOLEAN, Close(lasted)
    PROVE  ConnectorInv'
<1>1. /\ UNCHANGED <<err, shutdown, gen, alive, slots, active, handler, stopped>>
      /\ run = "closing" /\ run' \in {"stopped", "backoff"} /\ wire' = <<>> /\ open' = FALSE
      /\ waiting' = [i \in Ids |-> None] /\ delay' \in {delay, ReconnectMin}
  BY Zenon DEF Close, RelayForgets
<1>2. TypeOK'
  <2>1. delay' \in Nat /\ wire' \in Seq(Frames) /\ waiting' \in [Ids -> Requests \cup {None}]
    BY <1>1, ConnectorAssumption DEF ConnectorInv, TypeOK
  <2>2. run' \in {"stopped", "backoff"} /\ open' \in BOOLEAN
    BY <1>1, Zenon
  <2>. QED  BY <1>1, <2>1, <2>2, Zenon DEF ConnectorInv, TypeOK
<1>3. NumberingInv'
  BY <1>1, Zenon DEF ConnectorInv, NumberingInv, At
<1>4. ActiveInv'
  BY <1>1, Zenon DEF ConnectorInv, ActiveInv, Running
<1>5. ContextInv'
  BY <1>1, Zenon DEF ConnectorInv, ContextInv, At
<1>6. WaitingInv'
  BY <1>1, Zenon DEF WaitingInv
<1>7. SuccessionInv'
  BY <1>1, Zenon DEF ConnectorInv, SuccessionInv, At
<1>8. WireInv'
  BY <1>1 DEF WireInv, FramesInv
<1>9. SlotsBalance'
  BY <1>1, Zenon DEF ConnectorInv, SlotsBalance, Running, At
<1>. QED  BY <1>2, <1>3, <1>4, <1>5, <1>6, <1>7, <1>8, <1>9, Zenon DEF ConnectorInv

-----------------------------------------------------------------------------
(* Frames are read. *)

\* The first frame is taken: the frames that are left are the frames they were,
\* whether or not the request that the first one carried has been started.
LEMMA WireTaken ==
    ASSUME TypeOK, WireInv, wire # <<>>, wire' = Tail(wire), gen' = gen,
           run' = "reading" => run = "reading",
           \A m \in Requests :
               /\ handler'[m].gen = handler[m].gen /\ handler'[m].id = handler[m].id
               /\ handler'[m].pc = "none" <=> At(m, "none")
               /\ At(m, "sent") /\ ~Carries(1, m) => handler'[m].pc = "sent"
               /\ run' = "reading" /\ handler'[m].pc = "sent" => At(m, "sent") /\ ~Carries(1, m)
    PROVE  WireInv'
<1>. DEFINE L == Len(wire)
<1>1. /\ L \in Nat /\ L >= 1 /\ Len(wire') = L - 1
      /\ \A k \in 1..(L - 1) : k + 1 \in 1..L /\ wire'[k] = wire[k + 1]
  BY TailFacts, WireFacts, Zenon
<1>2. \A k \in 1..L : wire[k].kind # "other" => wire[k].id \in Ids /\ wire[k].n \in Requests
  BY WireFacts, Zenon
<1>3. \A k \in 1..L : wire[k].kind # "other" =>
         handler[wire[k].n].gen = gen /\ handler[wire[k].n].id = wire[k].id /\ ~At(wire[k].n, "none")
  BY Zenon DEF WireInv, FramesInv, L
<1>4. \A k \in 1..L : wire[k].kind = "request" => At(wire[k].n, "sent")
  BY Zenon DEF WireInv, FramesInv, L
<1>5. \A j, k \in 1..L : wire[k].kind = "request" /\ Carries(j, wire[k].n) => j = k
  BY Zenon DEF WireInv, FramesInv, L
<1>6. run' = "reading" => CarriedInv /\ CancelInv
  BY Zenon DEF WireInv
<1>7. ASSUME NEW k \in 1..Len(wire')
      PROVE  k + 1 \in 1..L /\ wire'[k] = wire[k + 1]
  BY <1>1, Zenon
<1>8. ASSUME NEW j \in 1..L, j # 1
      PROVE  j - 1 \in 1..Len(wire') /\ wire'[j - 1] = wire[j]
  <2>1. j - 1 \in 1..(L - 1) /\ (j - 1) + 1 = j
    BY <1>1, <1>8
  <2>. QED  BY <1>1, <2>1, Zenon
<1>9. FramesInv'
  <2>1. ASSUME NEW k \in 1..Len(wire'), wire'[k].kind # "other"
        PROVE  /\ handler'[wire'[k].n].gen = gen' /\ handler'[wire'[k].n].id = wire'[k].id
               /\ handler'[wire'[k].n].pc # "none"
    BY <1>2, <1>3, <1>7, <2>1
  <2>2. ASSUME NEW k \in 1..Len(wire'), wire'[k].kind = "request"
        PROVE  handler'[wire'[k].n].pc = "sent"
    <3>1. /\ k + 1 \in 1..L /\ wire'[k] = wire[k + 1] /\ wire[k + 1].n \in Requests
          /\ At(wire[k + 1].n, "sent") /\ k + 1 # 1 /\ 1 \in 1..L
      BY <1>1, <1>2, <1>4, <1>7, <2>2
    <3>2. ~Carries(1, wire[k + 1].n)
      BY <1>5, <2>2, <3>1, Zenon
    <3>. QED  BY <3>1, <3>2, Zenon
  <2>3. ASSUME NEW j \in 1..Len(wire'), NEW k \in 1..Len(wire'), wire'[k].kind = "request",
               wire'[j].kind = "request", wire'[j].n = wire'[k].n
        PROVE  j = k
    <3>1. j + 1 \in 1..L /\ k + 1 \in 1..L /\ wire'[k] = wire[k + 1] /\ wire'[j] = wire[j + 1]
      BY <1>7, Zenon
    <3>2. j + 1 = k + 1
      BY <1>5, <2>3, <3>1, Zenon DEF Carries
    <3>. QED  BY <1>1, <3>2
  <2>. QED  BY <2>1, <2>2, <2>3, Zenon DEF FramesInv, Carries, At
<1>10. ASSUME run' = "reading" PROVE CarriedInv'
  <2>1. ASSUME NEW n \in Requests, handler'[n].gen = gen', handler'[n].pc = "sent"
        PROVE  \E j \in 1..Len(wire') : wire'[j].kind = "request" /\ wire'[j].n = n
    <3>1. handler[n].gen = gen /\ At(n, "sent") /\ ~Carries(1, n)
      BY <1>10, <2>1, Zenon
    <3>2. PICK j \in 1..L : Carries(j, n)
      BY <1>6, <1>10, <3>1, Zenon DEF CarriedInv, L
    <3>3. j - 1 \in 1..Len(wire') /\ wire'[j - 1] = wire[j]
      BY <1>8, <3>1, <3>2, Zenon
    <3>. QED  BY <3>2, <3>3, Zenon DEF Carries
  <2>. QED  BY <2>1, Zenon DEF CarriedInv, Carries, At
<1>11. ASSUME run' = "reading" PROVE CancelInv'
  <2>1. ASSUME NEW k \in 1..Len(wire'), wire'[k].kind = "cancel", handler'[wire'[k].n].pc = "sent"
        PROVE  \E j \in 1..(k - 1) : wire'[j].kind = "request" /\ wire'[j].n = wire'[k].n
    <3>. DEFINE n == wire[k + 1].n
    <3>1. k + 1 \in 1..L /\ wire'[k] = wire[k + 1] /\ n \in Requests
      BY <1>2, <1>7, <2>1, Zenon
    <3>2. At(n, "sent") /\ ~Carries(1, n)
      BY <1>11, <2>1, <3>1, Zenon
    <3>3. PICK j \in 1..((k + 1) - 1) : Carries(j, n)
      BY <1>6, <1>11, <2>1, <3>1, <3>2, Zenon DEF CancelInv, L
    <3>4. j \in 1..L /\ j # 1 /\ j - 1 \in 1..(k - 1)
      <4>1. j # 1
        BY <3>2, <3>3, Zenon
      <4>. QED  BY <1>1, <3>1, <3>3, <4>1
    <3>5. wire'[j - 1] = wire[j]
      BY <1>8, <3>4, Zenon
    <3>. QED  BY <3>1, <3>3, <3>4, <3>5, Zenon DEF Carries
  <2>2. ASSUME NEW k \in 1..Len(wire'), wire'[k].kind = "cancel",
               NEW m \in Requests, wire'[k].n < m, handler'[m].pc # "none",
               handler'[m].gen = gen', handler'[m].id = wire'[k].id
        PROVE  \E j \in (k + 1)..Len(wire') : wire'[j].kind = "request" /\ wire'[j].n = m
    <3>1. k + 1 \in 1..L /\ wire'[k] = wire[k + 1]
      BY <1>7, Zenon
    <3>2. ~At(m, "none") /\ handler[m].gen = gen /\ handler[m].id = wire[k + 1].id
      BY <2>2, <3>1, Zenon
    <3>3. PICK j \in ((k + 1) + 1)..L : Carries(j, m)
      BY <1>6, <1>11, <2>2, <3>1, <3>2, Zenon DEF CancelInv, L
    <3>4. j \in 1..L /\ j # 1 /\ j - 1 \in (k + 1)..Len(wire')
      BY <1>1, <3>1, <3>3
    <3>5. wire'[j - 1] = wire[j]
      BY <1>8, <3>4, Zenon
    <3>. QED  BY <3>3, <3>4, <3>5, Zenon DEF Carries
  <2>3. ASSUME NEW k \in 1..Len(wire'), wire'[k].kind = "cancel"
        PROVE  /\ handler'[wire'[k].n].pc = "sent" =>
                     \E j \in 1..(k - 1) : wire'[j].kind = "request" /\ wire'[j].n = wire'[k].n
               /\ \A m \in Requests :
                     /\ wire'[k].n < m /\ handler'[m].pc # "none"
                     /\ handler'[m].gen = gen' /\ handler'[m].id = wire'[k].id
                     => \E j \in (k + 1)..Len(wire') : wire'[j].kind = "request" /\ wire'[j].n = m
    <3>1. ASSUME handler'[wire'[k].n].pc = "sent"
          PROVE  \E j \in 1..(k - 1) : wire'[j].kind = "request" /\ wire'[j].n = wire'[k].n
      BY <2>1, <2>3, <3>1, Zenon
    <3>2. ASSUME NEW m \in Requests, wire'[k].n < m, handler'[m].pc # "none",
                 handler'[m].gen = gen', handler'[m].id = wire'[k].id
          PROVE  \E j \in (k + 1)..Len(wire') : wire'[j].kind = "request" /\ wire'[j].n = m
      BY <2>2, <2>3, <3>2, Zenon
    <3>. QED  BY <3>1, <3>2, Zenon
  <2>. QED  BY <2>3, Zenon DEF CancelInv, Carries, At
<1>. QED  BY <1>9, <1>10, <1>11, Zenon DEF WireInv

\* The first frame is taken and no request changes.
LEMMA TakenStep ==
    ASSUME TypeOK, NumberingInv, ActiveInv, WaitingInv, SuccessionInv, WireInv, SlotsBalance,
           wire # <<>>, wire' = Tail(wire), UNCHANGED <<gen, slots, active, handler, waiting>>,
           run = "reading", run' \in {"reading", "returning"},
           run' = "reading" => Head(wire).kind = "cancel"
    PROVE  NumberingInv' /\ ActiveInv' /\ WaitingInv' /\ SuccessionInv' /\ WireInv' /\ SlotsBalance'
<1>1. /\ gen' = gen /\ slots' = slots /\ active' = active /\ handler' = handler /\ waiting' = waiting
  BY Zenon
<1>2. NumberingInv'
  BY <1>1, Zenon DEF NumberingInv, At
<1>3. ActiveInv'
  BY <1>1 DEF ActiveInv, Running
<1>4. WaitingInv'
  BY <1>1 DEF WaitingInv, At
<1>5. SuccessionInv'
  BY <1>1 DEF SuccessionInv, At
<1>6. SlotsBalance'
  BY <1>1, Zenon DEF SlotsBalance, Running, At
<1>7. WireInv'
  <2>1. run' = "reading" => \A m \in Requests : ~Carries(1, m)
    BY TailFacts, Zenon DEF Carries
  <2>. QED  BY <1>1, <2>1, WireTaken, Zenon DEF At
<1>. QED  BY <1>2, <1>3, <1>4, <1>5, <1>6, <1>7, Zenon

LEMMA ReadStep ==
    ASSUME ConnectorInv, ReadOther \/ ReadCancel
    PROVE  ConnectorInv'
<1>1. /\ wire # <<>> /\ wire' = Tail(wire) /\ run = "reading" /\ run' \in {"reading", "returning"}
      /\ UNCHANGED <<gen, slots, active, handler, waiting, alive, open, shutdown, delay>>
      /\ run' = "reading" => Head(wire).kind = "cancel"
      /\ err' \in {err, "invalid"}
  BY Zenon DEF ReadOther, ReadCancel, Reads, Return, runVars
<1>2. stopped' \subseteq Requests /\ stopped \subseteq stopped'
  <2>1. CASE ReadOther
    BY <2>1, Zenon DEF ReadOther, ConnectorInv, TypeOK
  <2>2. CASE ReadCancel
    <3>1. Head(wire).id \in Ids
      BY <2>2, <1>1, TailFacts, FrameFacts, Zenon DEF ReadCancel, Reads, ConnectorInv
    <3>. QED  BY <2>2, <3>1, Zenon DEF ReadCancel, ConnectorInv, TypeOK
  <2>. QED  BY <2>1, <2>2, Zenon
<1>3. TypeOK'
  <2>1. wire' \in Seq(Frames)
    BY <1>1, TailFacts, Zenon DEF ConnectorInv
  <2>2. err' \in Errors \cup {"none"}
    BY <1>1, Zenon DEF ConnectorInv, TypeOK, Errors
  <2>. QED  BY <1>1, <1>2, <2>1, <2>2, Zenon DEF ConnectorInv, TypeOK
<1>4. ContextInv'
  BY <1>1, <1>2, Zenon DEF ConnectorInv, ContextInv, At
<1>. QED  BY <1>1, <1>3, <1>4, TakenStep, Zenon DEF ConnectorInv

-----------------------------------------------------------------------------
(* A request moves on. *)

\* handler' after the pc of one request has changed.
Moved(n, q) ==
    /\ handler' \in [Requests -> HandlerStates]
    /\ handler'[n].pc = q
    /\ \A m \in Requests : /\ handler'[m].gen = handler[m].gen
                           /\ handler'[m].id = handler[m].id
                           /\ m # n => handler'[m] = handler[m]

LEMMA MovedFacts ==
    ASSUME TypeOK, NEW n \in Requests,
           NEW q \in {"handling", "writing", "release", "delete", "done"},
           handler' = [handler EXCEPT ![n].pc = q]
    PROVE  Moved(n, q)
<1>. DEFINE h == [handler[n] EXCEPT !.pc = q]
<1>1. h \in HandlerStates /\ h.pc = q /\ h.gen = handler[n].gen /\ h.id = handler[n].id
  BY HandlerFacts, Zenon DEF HandlerStates
<1>2. handler' = [handler EXCEPT ![n] = h]
  BY Zenon
<1>. HIDE DEF h
<1>3. handler'[n] = h /\ \A m \in Requests : m # n => handler'[m] = handler[m]
  BY <1>2, Zenon DEF TypeOK
<1>. QED  BY <1>1, <1>2, <1>3, Zenon DEF Moved, TypeOK

\* The requests whose goroutines have a token.
Holding == {n \in Running : ~At(n, "delete")}

LEMMA HoldingFinite == IsFiniteSet(Holding)
<1>1. IsFiniteSet(Requests)
  BY FS_Interval, ConnectorAssumption DEF Requests
<1>2. Holding \subseteq Requests
  BY Zenon DEF Holding, Running
<1>. QED  BY <1>1, <1>2, FS_Subset, Zenon

\* A goroutine that takes a token, gives one back, or does neither.
LEMMA SlotTaken ==
    ASSUME TypeOK, SlotsBalance, NEW n \in Requests, At(n, "sent"), Moved(n, "handling"),
           slots' = slots + 1
    PROVE  SlotsBalance'
<1>1. n \notin Holding
  BY Zenon DEF Holding, Running, At
<1>2. Holding' = Holding \cup {n}
  BY Zenon DEF Holding, Running, At, Moved
<1>3. Cardinality(Holding \cup {n}) = Cardinality(Holding) + 1
  BY <1>1, HoldingFinite, FS_AddElement, Zenon
<1>. QED  BY <1>2, <1>3, Zenon DEF SlotsBalance, Holding

LEMMA SlotReleased ==
    ASSUME TypeOK, SlotsBalance, NEW n \in Requests, At(n, "release"), Moved(n, "delete"),
           slots' = slots - 1
    PROVE  SlotsBalance' /\ slots' \in 0..MaxConcurrent
<1>1. n \in Holding
  BY Zenon DEF Holding, Running, At
<1>2. Holding' = Holding \ {n}
  BY Zenon DEF Holding, Running, At, Moved
<1>3. Cardinality(Holding \ {n}) = Cardinality(Holding) - 1
  BY <1>1, HoldingFinite, FS_RemoveElement, Zenon
<1>4. Cardinality(Holding \ {n}) \in Nat
  BY HoldingFinite, FS_RemoveElement, FS_CardinalityType, Zenon
<1>5. slots' = Cardinality(Holding') /\ slots' \in Nat
  BY <1>2, <1>3, <1>4, Zenon DEF SlotsBalance, Holding
<1>. QED  BY <1>5, ConnectorAssumption DEF SlotsBalance, Holding, TypeOK

LEMMA SlotKept ==
    ASSUME SlotsBalance, NEW n \in Requests, NEW q, Moved(n, q), slots' = slots,
           handler[n].pc \in {"handling", "writing", "release"} <=> q \in {"handling", "writing", "release"}
    PROVE  SlotsBalance'
<1>1. Holding' = Holding
  BY DEF Holding, Running, At, Moved
<1>. QED  BY <1>1, Zenon DEF SlotsBalance, Holding

\* The pending requests of the relay survive a step that takes no request
\* back to a location before its response.
LEMMA WaitingCarried ==
    ASSUME TypeOK, WaitingInv, run' = run, gen' = gen, waiting' = waiting,
           wire' = wire \/ run = "reading",
           \A m \in Requests :
               /\ handler'[m].gen = handler[m].gen /\ handler'[m].id = handler[m].id
               /\ (handler'[m].pc = "none") <=> (handler[m].pc = "none")
               /\ handler'[m].pc \in {"sent", "handling", "writing"} =>
                     handler[m].pc \in {"sent", "handling", "writing"}
    PROVE  WaitingInv'
<1>1. ASSUME NEW i \in Ids, waiting[i] # None
      PROVE  /\ handler'[waiting[i]].id = i /\ handler'[waiting[i]].gen = gen
             /\ handler'[waiting[i]].pc # "none"
             /\ \A m \in Requests : handler'[m].pc # "none" /\ handler'[m].gen = gen /\ handler'[m].id = i
                   => m <= waiting[i]
  <2>1. PICK w \in Requests : waiting[i] = w
    BY <1>1, Zenon DEF TypeOK
  <2>2. handler[w].id = i /\ handler[w].gen = gen /\ handler[w].pc # "none"
    BY <1>1, <2>1, Zenon DEF WaitingInv, At
  <2>3. handler'[w].id = i /\ handler'[w].gen = gen /\ handler'[w].pc # "none"
    BY <2>2, Zenon
  <2>4. ASSUME NEW m \in Requests, handler'[m].pc # "none", handler'[m].gen = gen, handler'[m].id = i
        PROVE  m <= w
    <3>1. handler[m].pc # "none" /\ handler[m].gen = gen /\ handler[m].id = i
      BY <2>4, Zenon
    <3>. QED  BY <1>1, <2>1, <3>1, Zenon DEF WaitingInv, At
  <2>. QED  BY <2>1, <2>3, <2>4, Zenon
<1>2. ASSUME run \in {"reading", "returning"}, NEW m \in Requests, handler'[m].gen = gen,
             handler'[m].pc \in {"sent", "handling", "writing"}
      PROVE  waiting[handler'[m].id] = m
  <2>1. handler[m].gen = gen /\ handler'[m].id = handler[m].id /\ handler[m].pc \in {"sent", "handling", "writing"}
    BY <1>2, Zenon
  <2>. QED  BY <1>2, <2>1, Zenon DEF WaitingInv
<1>3. run \notin {"reading", "returning", "closing"} => wire' = <<>> /\ \A i \in Ids : waiting[i] = None
  BY Zenon DEF WaitingInv
<1>. QED  BY <1>1, <1>2, <1>3, Zenon DEF WaitingInv, At

\* A request frame is taken and its goroutine started.
LEMMA StartStep ==
    ASSUME ConnectorInv, wire # <<>>, wire' = Tail(wire), Head(wire).kind = "request",
           run = "reading", active[Head(wire).id] = None, slots # MaxConcurrent,
           slots' = slots + 1,
           active' = [active EXCEPT ![Head(wire).id] = Head(wire).n],
           handler' = [handler EXCEPT ![Head(wire).n].pc = "handling"],
           stopped' = IF alive THEN stopped ELSE stopped \cup {Head(wire).n},
           UNCHANGED <<run, err, delay, shutdown, gen, alive, open, waiting>>
    PROVE  ConnectorInv'
<1>1. TypeOK /\ NumberingInv /\ ActiveInv /\ ContextInv /\ WaitingInv /\ SuccessionInv /\ WireInv /\ SlotsBalance
  BY Zenon DEF ConnectorInv
<1>2. /\ 1 \in 1..Len(wire) /\ Head(wire) = wire[1] /\ wire' \in Seq(Frames)
      /\ Head(wire).n \in Requests /\ Head(wire).id \in Ids
  BY <1>1, TailFacts, WireFacts
<1>n. PICK n \in Requests, id \in Ids : Head(wire).n = n /\ Head(wire).id = id
  BY <1>2, Zenon
<1>3. At(n, "sent") /\ handler[n].gen = gen /\ handler[n].id = id
  BY <1>1, <1>2, <1>n, Zenon DEF WireInv, FramesInv
<1>4. Moved(n, "handling")
  BY <1>1, <1>n, MovedFacts, Zenon
<1>5. n # None /\ n \in Nat
  BY <1>1, HandlerFacts, Zenon
<1>6. /\ active' \in [Ids -> Requests \cup {None}] /\ active'[id] = n /\ active[id] = None
      /\ \A i \in Ids : i # id => active'[i] = active[i]
  BY <1>1, <1>n, Zenon DEF TypeOK
<1>7. TypeOK'
  <2>1. stopped' \subseteq Requests /\ slots' \in 0..MaxConcurrent
    <3>1. stopped' \subseteq Requests
      BY <1>1, <1>n, Zenon DEF TypeOK
    <3>2. slots' \in 0..MaxConcurrent
      <4>1. slots \in 0..MaxConcurrent
        BY <1>1, Zenon DEF TypeOK
      <4>. QED  BY <4>1, CapacityFacts, Zenon
    <3>. QED  BY <3>1, <3>2, Zenon
  <2>. QED  BY <1>1, <1>2, <1>4, <1>6, <2>1, Zenon DEF TypeOK, Moved
<1>8. NumberingInv'
  BY <1>1, <1>3, <1>4 DEF NumberingInv, Moved, At, TypeOK, Requests
<1>9. ActiveInv'
  <2>1. ASSUME NEW i \in Ids, active'[i] # None
        PROVE  active'[i] \in Running' /\ handler'[active'[i]].gen = gen' /\ handler'[active'[i]].id = i
    <3>1. CASE i = id
      BY <1>2, <1>3, <1>4, <1>6, <3>1 DEF Running, Moved, At
    <3>2. CASE i # id
      <4>1. /\ active'[i] = active[i] /\ active[i] \in Requests /\ active[i] \in Running
            /\ handler[active[i]].gen = gen /\ handler[active[i]].id = i
        BY <1>1, <1>6, <2>1, <3>2, Zenon DEF ActiveInv, Running
      <4>2. active[i] # n
        BY <1>3, <4>1, Zenon DEF Running, At
      <4>. QED  BY <1>4, <4>1, <4>2 DEF Moved, Running
    <3>. QED  BY <3>1, <3>2, Zenon
  <2>2. ASSUME NEW m \in Running', handler'[m].gen = gen'
        PROVE  active'[handler'[m].id] = m
    <3>1. CASE m = n
      BY <1>2, <1>3, <1>4, <1>6, <3>1, Zenon DEF Moved
    <3>2. CASE m # n
      <4>1. m \in Running /\ m \in Requests /\ handler'[m] = handler[m] /\ handler[m].gen = gen
        BY <1>4, <2>2, <3>2, Zenon DEF Running, Moved
      <4>2. active[handler[m].id] = m /\ handler[m].id \in Ids /\ m # None
        BY <1>1, <4>1, HandlerFacts, Zenon DEF ActiveInv, NumberingInv, Running, At
      <4>. QED  BY <1>6, <4>1, <4>2, Zenon
    <3>. QED  BY <3>1, <3>2, Zenon
  <2>. QED  BY <2>1, <2>2, Zenon DEF ActiveInv
<1>10. ContextInv'
  <2>1. ASSUME NEW m \in Requests, handler'[m].pc = "handling", m \notin stopped'
        PROVE  alive' /\ handler'[m].gen = gen'
    BY <1>1, <1>3, <1>4, <1>n, <2>1, Zenon DEF ContextInv, Moved, At
  <2>. QED  BY <1>1, <2>1, Zenon DEF ContextInv, At
<1>11. WaitingInv'
  <2>1. ASSUME NEW m \in Requests
        PROVE  /\ handler'[m].gen = handler[m].gen /\ handler'[m].id = handler[m].id
               /\ (handler'[m].pc = "none") <=> (handler[m].pc = "none")
               /\ handler'[m].pc \in {"sent", "handling", "writing"} =>
                     handler[m].pc \in {"sent", "handling", "writing"}
    <3>1. CASE m = n
      BY <1>3, <1>4, <3>1, Zenon DEF Moved, At
    <3>2. CASE m # n
      BY <1>4, <3>2, Zenon DEF Moved
    <3>. QED  BY <3>1, <3>2, Zenon
  <2>2. run' = run /\ gen' = gen /\ waiting' = waiting
    BY Zenon
  <2>. QED  BY <1>1, <2>1, <2>2, WaitingCarried, Zenon
<1>12. SuccessionInv'
  <2>1. ASSUME NEW a \in Requests, NEW b \in Requests, a < b, handler'[a].gen = gen', handler'[b].gen = gen',
               handler'[a].id = handler'[b].id, handler'[b].pc # "none"
        PROVE  /\ handler'[a].pc \in {"release", "delete", "done"}
               /\ handler'[b].pc # "sent" => handler'[a].pc = "done"
    <3>1. /\ handler[a].gen = gen /\ handler[b].gen = gen /\ handler[a].id = handler[b].id
          /\ handler[b].pc # "none"
      BY <1>3, <1>4, <2>1, Zenon DEF Moved, At
    <3>2. handler[a].pc \in {"release", "delete", "done"} /\ (handler[b].pc # "sent" => handler[a].pc = "done")
      BY <1>1, <2>1, <3>1, Zenon DEF SuccessionInv, At
    <3>3. a # n
      BY <1>3, <3>2, Zenon DEF At
    <3>4. b = n => handler[a].pc = "done"
      BY <1>1, <1>3, <1>6, <3>1, <3>2, HandlerFacts DEF ActiveInv, Running
    <3>. QED  BY <1>4, <3>2, <3>3, <3>4, Zenon DEF Moved
  <2>. QED  BY <2>1, Zenon DEF SuccessionInv, At
<1>13. WireInv'
  <2>1. Carries(1, n) /\ \A m \in Requests : Carries(1, m) => m = n
    BY <1>2, <1>n, Zenon DEF Carries
  <2>2. ASSUME NEW m \in Requests
        PROVE  /\ handler'[m].gen = handler[m].gen /\ handler'[m].id = handler[m].id
               /\ handler'[m].pc = "none" <=> At(m, "none")
               /\ At(m, "sent") /\ ~Carries(1, m) => handler'[m].pc = "sent"
               /\ handler'[m].pc = "sent" => At(m, "sent") /\ ~Carries(1, m)
    BY <1>3, <1>4, <2>1, Zenon DEF Moved, At
  <2>. QED  BY <1>1, <2>2, WireTaken, Zenon
<1>14. SlotsBalance'
  BY <1>1, <1>2, <1>3, <1>4, SlotTaken, Zenon
<1>. QED  BY <1>7, <1>8, <1>9, <1>10, <1>11, <1>12, <1>13, <1>14, Zenon DEF ConnectorInv

LEMMA RequestStep ==
    ASSUME ConnectorInv, ReadRequest
    PROVE  ConnectorInv'
<1>1. /\ wire # <<>> /\ wire' = Tail(wire) /\ run = "reading" /\ Head(wire).kind = "request"
      /\ UNCHANGED <<delay, shutdown, gen, alive, open, waiting>>
  BY Zenon DEF ReadRequest, Reads
<1>2. CASE /\ run' = "returning" /\ err' \in {"invalid", "unavailable"}
           /\ UNCHANGED <<slots, active, handler, stopped>>
  <2>1. TypeOK'
    <3>1. wire' \in Seq(Frames)
      BY <1>1, TailFacts, Zenon DEF ConnectorInv
    <3>. QED  BY <1>1, <1>2, <3>1, Zenon DEF ConnectorInv, TypeOK, Errors
  <2>2. ContextInv'
    BY <1>1, <1>2, Zenon DEF ConnectorInv, ContextInv, At
  <2>. QED  BY <1>1, <1>2, <2>1, <2>2, TakenStep, Zenon DEF ConnectorInv
<1>3. CASE /\ active[Head(wire).id] = None /\ slots # MaxConcurrent
           /\ slots' = slots + 1
           /\ active' = [active EXCEPT ![Head(wire).id] = Head(wire).n]
           /\ handler' = [handler EXCEPT ![Head(wire).n].pc = "handling"]
           /\ stopped' = (IF alive THEN stopped ELSE stopped \cup {Head(wire).n})
           /\ UNCHANGED <<run, err>>
  BY <1>1, <1>3, StartStep, Zenon
<1>. QED  BY <1>2, <1>3, Zenon DEF ReadRequest, Return

-----------------------------------------------------------------------------
(* The goroutine of a request, after its frame was read. *)

\* What a step of the goroutine keeps, whatever it does to contexts and slots.
LEMMA GoroutineKept ==
    ASSUME TypeOK, NumberingInv, SuccessionInv, WireInv, NEW n \in Requests,
           NEW q \in {"writing", "release", "delete", "done"}, Moved(n, q),
           handler[n].pc \notin {"none", "sent", "done"},
           handler[n].pc \in {"release", "delete"} => q \in {"release", "delete", "done"},
           UNCHANGED <<run, gen, wire>>
    PROVE  NumberingInv' /\ SuccessionInv' /\ WireInv'
<1>1. run' = run /\ gen' = gen /\ wire' = wire
  BY Zenon
<1>2. ASSUME NEW m \in Requests
      PROVE  /\ handler'[m].gen = handler[m].gen /\ handler'[m].id = handler[m].id
             /\ (handler'[m].pc = "none") <=> (handler[m].pc = "none")
             /\ (handler'[m].pc = "sent") <=> (handler[m].pc = "sent")
             /\ handler[m].pc = "done" => handler'[m].pc = "done"
             /\ handler[m].pc \in {"release", "delete", "done"} => handler'[m].pc \in {"release", "delete", "done"}
  BY <1>2, Zenon DEF Moved
<1>3. NumberingInv'
  <2>1. ASSUME NEW m \in Requests
        PROVE  /\ handler'[m].gen <= gen'
               /\ run' \in {"dial", "ready"} => handler'[m].gen < gen'
               /\ handler'[m].pc # "none" => handler'[m].id \in Ids /\ \A l \in 1..(m - 1) : handler'[l].pc # "none"
    <3>1. \A l \in 1..(m - 1) : l \in Requests
      BY ConnectorAssumption DEF Requests
    <3>. QED  BY <1>1, <1>2, <3>1, Zenon DEF NumberingInv, At
  <2>. QED  BY <2>1, Zenon DEF NumberingInv, At
<1>4. SuccessionInv'
  <2>1. ASSUME NEW a \in Requests, NEW b \in Requests, a < b, handler'[a].gen = gen', handler'[b].gen = gen',
               handler'[a].id = handler'[b].id, handler'[b].pc # "none"
        PROVE  /\ handler'[a].pc \in {"release", "delete", "done"}
               /\ handler'[b].pc # "sent" => handler'[a].pc = "done"
    <3>1. handler[a].pc \in {"release", "delete", "done"} /\ (handler[b].pc # "sent" => handler[a].pc = "done")
      BY <1>1, <1>2, <2>1, Zenon DEF SuccessionInv, At
    <3>. QED  BY <1>2, <3>1, Zenon
  <2>. QED  BY <2>1, Zenon DEF SuccessionInv, At
<1>5. \A k \in 1..Len(wire) : wire[k].kind # "other" => wire[k].n \in Requests
  BY WireFacts, Zenon
<1>6. FramesInv'
  <2>1. \A k \in 1..Len(wire) : wire[k].kind # "other" =>
           handler'[wire[k].n].gen = gen /\ handler'[wire[k].n].id = wire[k].id /\ handler'[wire[k].n].pc # "none"
    BY <1>2, <1>5 DEF WireInv, FramesInv, At
  <2>2. \A k \in 1..Len(wire) : wire[k].kind = "request" => handler'[wire[k].n].pc = "sent"
    BY <1>2, <1>5, Zenon DEF WireInv, FramesInv, At
  <2>. QED  BY <1>1, <2>1, <2>2 DEF WireInv, FramesInv, Carries, At
<1>7. run = "reading" => CarriedInv'
  BY <1>1, <1>2 DEF WireInv, CarriedInv, Carries, At
<1>8. run = "reading" => CancelInv'
  <2>. SUFFICES ASSUME CancelInv PROVE CancelInv'
    BY Zenon DEF WireInv
  <2>1. ASSUME NEW k \in 1..Len(wire), wire[k].kind = "cancel"
        PROVE  /\ handler'[wire[k].n].pc = "sent" => \E j \in 1..(k - 1) : Carries(j, wire[k].n)
               /\ \A m \in Requests :
                    /\ wire[k].n < m /\ handler'[m].pc # "none"
                    /\ handler'[m].gen = gen /\ handler'[m].id = wire[k].id
                    => \E j \in (k + 1)..Len(wire) : Carries(j, m)
    <3>1. wire[k].n \in Requests
      BY <1>5, <2>1, Zenon
    <3>. QED  BY <1>2, <2>1, <3>1, Zenon DEF CancelInv, At
  <2>. QED  BY <1>1, <2>1 DEF CancelInv, Carries, At
<1>. QED  BY <1>1, <1>3, <1>4, <1>6, <1>7, <1>8, Zenon DEF WireInv

LEMMA ActiveKept ==
    ASSUME ActiveInv, NEW n \in Requests, NEW q, Moved(n, q),
           handler[n].pc \in {"handling", "writing", "release", "delete"},
           q \in {"handling", "writing", "release", "delete"}, UNCHANGED <<active, gen>>
    PROVE  ActiveInv'
<1>1. Running' = Running
  BY Zenon DEF Running, Moved
<1>2. Running \subseteq Requests /\ active' = active /\ gen' = gen
  BY Zenon DEF Running
<1>. QED  BY <1>1, <1>2 DEF ActiveInv, Moved

LEMMA WaitingKept ==
    ASSUME TypeOK, WaitingInv, NEW n \in Requests, NEW q \in {"writing", "release", "delete", "done"}, Moved(n, q),
           handler[n].pc # "none", q = "writing" => handler[n].pc = "handling",
           UNCHANGED <<run, gen, wire, waiting>>
    PROVE  WaitingInv'
<1>1. run' = run /\ gen' = gen /\ wire' = wire /\ waiting' = waiting
  BY Zenon
<1>2. ASSUME NEW m \in Requests
      PROVE  /\ handler'[m].gen = handler[m].gen /\ handler'[m].id = handler[m].id
             /\ (handler'[m].pc = "none") <=> (handler[m].pc = "none")
             /\ handler'[m].pc \in {"sent", "handling", "writing"} => handler[m].pc \in {"sent", "handling", "writing"}
  BY DEF Moved
<1>. QED  BY <1>1, <1>2, WaitingCarried, Zenon

\* The handler returns, and the goroutine gives its token back.
LEMMA HandleStep ==
    ASSUME ConnectorInv, NEW n \in Requests, Handle(n) \/ Release(n)
    PROVE  ConnectorInv'
<1>0. TypeOK /\ NumberingInv /\ ActiveInv /\ ContextInv /\ WaitingInv /\ SuccessionInv /\ WireInv /\ SlotsBalance
  BY Zenon DEF ConnectorInv
<1>1. /\ UNCHANGED <<run, err, delay, shutdown, gen, alive, open, active, stopped, wire, waiting>>
      /\ \/ handler[n].pc = "handling" /\ handler' = [handler EXCEPT ![n].pc = "writing"] /\ slots' = slots
         \/ handler[n].pc = "release" /\ handler' = [handler EXCEPT ![n].pc = "delete"] /\ slots' = slots - 1
  BY Zenon DEF Handle, Release, Goto, At, runVars, relayVars
<1>2. PICK q \in {"writing", "delete"} :
         /\ Moved(n, q)
         /\ \/ q = "writing" /\ handler[n].pc = "handling" /\ slots' = slots
            \/ q = "delete" /\ handler[n].pc = "release" /\ slots' = slots - 1
  BY <1>0, <1>1, MovedFacts, Zenon
<1>3. SlotsBalance' /\ slots' \in 0..MaxConcurrent
  <2>1. CASE q = "writing"
    <3>1. slots' = slots /\ handler[n].pc = "handling"
      BY <1>2, <2>1, Zenon
    <3>2. SlotsBalance'
      BY <1>0, <1>2, <2>1, <3>1, SlotKept, Zenon
    <3>. QED  BY <1>0, <3>1, <3>2, Zenon DEF TypeOK
  <2>2. CASE q = "delete"
    BY <1>0, <1>2, <2>2, SlotReleased, Zenon DEF At
  <2>. QED  BY <2>1, <2>2, Zenon
<1>4. TypeOK'
  BY <1>0, <1>1, <1>2, <1>3, Zenon DEF TypeOK, Moved
<1>5. ActiveInv'
  BY <1>0, <1>1, <1>2, ActiveKept, Zenon
<1>6. ContextInv'
  BY <1>0, <1>1, <1>2 DEF ContextInv, Moved, At
<1>7. WaitingInv'
  BY <1>0, <1>1, <1>2, WaitingKept, Zenon
<1>8. NumberingInv' /\ SuccessionInv' /\ WireInv'
  BY <1>0, <1>1, <1>2, GoroutineKept, Zenon
<1>. QED  BY <1>3, <1>4, <1>5, <1>6, <1>7, <1>8, Zenon DEF ConnectorInv

\* The response is written, or the write fails and ends its generation.
LEMMA WriteStep ==
    ASSUME ConnectorInv, NEW n \in Requests, Write(n) \/ WriteFails(n)
    PROVE  ConnectorInv'
<1>0. TypeOK /\ NumberingInv /\ ActiveInv /\ ContextInv /\ WaitingInv /\ SuccessionInv /\ WireInv /\ SlotsBalance
  BY Zenon DEF ConnectorInv
<1>1. /\ UNCHANGED <<run, err, delay, shutdown, gen, slots, active, wire>>
      /\ handler[n].pc = "writing" /\ handler' = [handler EXCEPT ![n].pc = "release"]
  BY Zenon DEF Write, WriteFails, Goto, At, runVars, relayVars
<1>2. Moved(n, "release")
  BY <1>0, <1>1, MovedFacts, Zenon
<1>3. SlotsBalance'
  BY <1>0, <1>1, <1>2, SlotKept, Zenon
<1>4. ActiveInv'
  BY <1>0, <1>1, <1>2, ActiveKept, Zenon
<1>5. NumberingInv' /\ SuccessionInv' /\ WireInv'
  BY <1>0, <1>1, <1>2, GoroutineKept, Zenon
<1>6. CASE Write(n)
  <2>1. /\ alive /\ handler[n].gen = gen /\ UNCHANGED <<alive, open, stopped>>
        /\ waiting' = [waiting EXCEPT ![handler[n].id] = None]
    BY <1>6, Zenon DEF Write
  <2>2. handler[n].id \in Ids /\ waiting[handler[n].id] = n
    BY <1>0, <1>1, <2>1, Zenon DEF NumberingInv, At, ContextInv, WaitingInv
  <2>3. /\ waiting' \in [Ids -> Requests \cup {None}] /\ waiting'[handler[n].id] = None
        /\ \A i \in Ids : i # handler[n].id => waiting'[i] = waiting[i]
    BY <1>0, <2>1, <2>2, Zenon DEF TypeOK
  <2>4. TypeOK'
    BY <1>0, <1>1, <1>2, <2>1, <2>3, Zenon DEF TypeOK, Moved
  <2>5. ContextInv'
    BY <1>0, <1>1, <1>2, <2>1, Zenon DEF ContextInv, Moved, At
  <2>6. WaitingInv'
    <3>1. ASSUME NEW i \in Ids, waiting'[i] # None
          PROVE  /\ handler'[waiting'[i]].id = i /\ handler'[waiting'[i]].gen = gen'
                 /\ handler'[waiting'[i]].pc # "none"
                 /\ \A m \in Requests : handler'[m].pc # "none" /\ handler'[m].gen = gen' /\ handler'[m].id = i
                       => m <= waiting'[i]
      <4>1. i # handler[n].id /\ waiting'[i] = waiting[i] /\ waiting[i] \in Requests
        BY <1>0, <2>3, <3>1, Zenon DEF TypeOK
      <4>2. \A m \in Requests : /\ handler'[m].gen = handler[m].gen /\ handler'[m].id = handler[m].id
                                /\ (handler'[m].pc = "none") <=> (handler[m].pc = "none")
        BY <1>1, <1>2, Zenon DEF Moved
      <4>. QED  BY <1>0, <1>1, <3>1, <4>1, <4>2 DEF WaitingInv, At
    <3>2. ASSUME NEW m \in Requests, handler'[m].gen = gen', handler'[m].pc \in {"sent", "handling", "writing"}
          PROVE  waiting'[handler'[m].id] = m
      <4>1. m # n /\ handler'[m] = handler[m] /\ handler[m].gen = gen
        BY <1>1, <1>2, <3>2, Zenon DEF Moved
      <4>2. handler[m].id \in Ids /\ waiting[handler[m].id] = m
        BY <1>0, <2>1, <3>2, <4>1, Zenon DEF NumberingInv, At, ContextInv, WaitingInv
      <4>. QED  BY <2>2, <2>3, <4>1, <4>2, Zenon
    <3>3. run' \in {"reading", "returning"}
      BY <1>0, <1>1, <2>1, Zenon DEF ContextInv
    <3>. QED  BY <3>1, <3>2, <3>3, Zenon DEF WaitingInv, At
  <2>. QED  BY <1>3, <1>4, <1>5, <2>4, <2>5, <2>6, Zenon DEF ConnectorInv
<1>7. CASE WriteFails(n)
  <2>1. /\ waiting' = waiting
        /\ \/ handler[n].gen = gen /\ EndGeneration
           \/ handler[n].gen # gen /\ UNCHANGED <<alive, open, stopped>>
    BY <1>7, Zenon DEF WriteFails, relayVars
  <2>2. stopped' \subseteq Requests /\ alive' \in BOOLEAN /\ open' \in BOOLEAN
    BY <1>0, <2>1, Zenon DEF TypeOK, EndGeneration, OfGeneration
  <2>3. TypeOK'
    BY <1>0, <1>1, <1>2, <2>1, <2>2, Zenon DEF TypeOK, Moved
  <2>4. ContextInv'
    <3>1. CASE handler[n].gen = gen /\ EndGeneration
      BY <1>0, <1>1, <1>2, <3>1, Zenon DEF ContextInv, Moved, At, EndGeneration, OfGeneration
    <3>2. CASE UNCHANGED <<alive, open, stopped>>
      BY <1>0, <1>1, <1>2, <3>2, Zenon DEF ContextInv, Moved, At
    <3>. QED  BY <2>1, <3>1, <3>2, Zenon
  <2>5. WaitingInv'
    BY <1>0, <1>1, <1>2, <2>1, WaitingKept, Zenon
  <2>. QED  BY <1>3, <1>4, <1>5, <2>3, <2>4, <2>5, Zenon DEF ConnectorInv
<1>. QED  BY <1>6, <1>7, Zenon

\* The goroutine leaves the map, and ends.
LEMMA DeleteStep ==
    ASSUME ConnectorInv, NEW n \in Requests, Delete(n)
    PROVE  ConnectorInv'
<1>0. TypeOK /\ NumberingInv /\ ActiveInv /\ ContextInv /\ WaitingInv /\ SuccessionInv /\ WireInv /\ SlotsBalance
  BY Zenon DEF ConnectorInv
<1>1. /\ UNCHANGED <<run, err, delay, shutdown, gen, slots, alive, open, wire, waiting>>
      /\ handler[n].pc = "delete" /\ handler' = [handler EXCEPT ![n].pc = "done"]
      /\ active' = IF handler[n].gen = gen THEN [active EXCEPT ![handler[n].id] = None] ELSE active
      /\ stopped' = stopped \cup {n}
  BY Zenon DEF Delete, Goto, At, runVars, relayVars
<1>2. Moved(n, "done") /\ n \in Running
  BY <1>0, <1>1, MovedFacts, Zenon DEF Running
<1>3. SlotsBalance'
  BY <1>0, <1>1, <1>2, SlotKept, Zenon
<1>4. NumberingInv' /\ SuccessionInv' /\ WireInv'
  BY <1>0, <1>1, <1>2, GoroutineKept, Zenon
<1>5. WaitingInv'
  BY <1>0, <1>1, <1>2, WaitingKept, Zenon
<1>6. ContextInv'
  BY <1>0, <1>1, <1>2, Zenon DEF ContextInv, Moved, At
<1>7. handler[n].id \in Ids
  BY <1>0, <1>1, Zenon DEF NumberingInv, At
<1>8. /\ active' \in [Ids -> Requests \cup {None}]
      /\ \A i \in Ids : active'[i] \in {active[i], None} /\ active'[i] # n
      /\ \A i \in Ids : active[i] # n => active'[i] = active[i]
  <2>1. \A i \in Ids : active[i] = n => handler[n].gen = gen /\ handler[n].id = i
    BY <1>0, <1>2, HandlerFacts DEF ActiveInv
  <2>2. handler[n].gen = gen => active[handler[n].id] = n
    BY <1>0, <1>2, Zenon DEF ActiveInv
  <2>3. n # None
    BY <1>0, HandlerFacts, Zenon
  <2>. QED  BY <1>0, <1>1, <1>7, <2>1, <2>2, <2>3, Zenon DEF TypeOK
<1>9. TypeOK'
  <2>1. stopped' \subseteq Requests
    BY <1>0, <1>1, Zenon DEF TypeOK
  <2>. QED  BY <1>0, <1>1, <1>2, <1>8, <2>1, Zenon DEF TypeOK, Moved
<1>10. ActiveInv'
  <2>1. Running' = Running \ {n} /\ Running \subseteq Requests
    BY <1>1, <1>2, Zenon DEF Running, Moved
  <2>2. ASSUME NEW i \in Ids, active'[i] # None
        PROVE  active'[i] \in Running' /\ handler'[active'[i]].gen = gen' /\ handler'[active'[i]].id = i
    <3>1. active'[i] = active[i] /\ active[i] # n
      BY <1>8, <2>2, Zenon
    <3>2. active[i] \in Running /\ handler[active[i]].gen = gen /\ handler[active[i]].id = i
      BY <1>0, <2>2, <3>1, Zenon DEF ActiveInv
    <3>. QED  BY <1>1, <1>2, <2>1, <3>1, <3>2 DEF Moved
  <2>3. ASSUME NEW m \in Running', handler'[m].gen = gen'
        PROVE  active'[handler'[m].id] = m
    <3>1. m \in Running /\ m # n /\ m \in Requests /\ handler'[m] = handler[m] /\ handler[m].gen = gen
      BY <1>1, <1>2, <2>1, <2>3, Zenon DEF Moved
    <3>2. active[handler[m].id] = m /\ handler[m].id \in Ids
      BY <1>0, <3>1, Zenon DEF ActiveInv, NumberingInv, Running, At
    <3>. QED  BY <1>8, <3>1, <3>2, Zenon
  <2>. QED  BY <2>2, <2>3, Zenon DEF ActiveInv
<1>. QED  BY <1>3, <1>4, <1>5, <1>6, <1>9, <1>10, Zenon DEF ConnectorInv

-----------------------------------------------------------------------------
(* The relay. *)

\* A frame is sent: of a request that is new, or to cancel the last one with
\* its identifier.
LEMMA WireAppended ==
    ASSUME TypeOK, WireInv, NEW f \in Frames, wire' = Append(wire, f),
           run = "reading", run' = "reading", gen' = gen,
           \A m \in Requests : ~At(m, "none") => handler'[m] = handler[m],
           \A m \in Requests : At(m, "none") /\ handler'[m].pc # "none" => f.kind = "request" /\ f.n = m,
           f.kind # "other" =>
               handler'[f.n].gen = gen /\ handler'[f.n].id = f.id /\ handler'[f.n].pc # "none",
           f.kind = "request" => At(f.n, "none") /\ handler'[f.n].pc = "sent",
           f.kind = "cancel" =>
               /\ ~At(f.n, "none")
               /\ \A m \in Requests : ~(f.n < m /\ ~At(m, "none") /\ handler[m].gen = gen /\ handler[m].id = f.id)
    PROVE  WireInv'
<1>. DEFINE L == Len(wire)
<1>1. /\ L \in Nat /\ Len(wire') = L + 1 /\ wire'[L + 1] = f
      /\ \A k \in 1..L : wire'[k] = wire[k]
  BY AppendFacts, WireFacts, Zenon
<1>2. \A k \in 1..L : wire[k].kind # "other" => wire[k].id \in Ids /\ wire[k].n \in Requests
  BY WireFacts, Zenon
<1>3. /\ f.kind \in {"request", "cancel", "other"}
      /\ f.kind # "other" => f.id \in Ids /\ f.n \in Requests
  BY FrameFacts, Zenon
<1>4. \A k \in 1..L : wire[k].kind # "other" =>
         handler[wire[k].n].gen = gen /\ handler[wire[k].n].id = wire[k].id /\ ~At(wire[k].n, "none")
  BY Zenon DEF WireInv, FramesInv, L
<1>5. \A k \in 1..L : wire[k].kind = "request" => At(wire[k].n, "sent")
  BY Zenon DEF WireInv, FramesInv, L
<1>6. \A j, k \in 1..L : wire[k].kind = "request" /\ Carries(j, wire[k].n) => j = k
  BY Zenon DEF WireInv, FramesInv, L
<1>7. CarriedInv /\ CancelInv
  BY Zenon DEF WireInv
<1>8. ASSUME NEW k \in 1..Len(wire') PROVE (k \in 1..L /\ wire'[k] = wire[k]) \/ (k = L + 1 /\ wire'[k] = f)
  BY <1>1
<1>9. FramesInv'
  <2>1. ASSUME NEW k \in 1..Len(wire'), wire'[k].kind # "other"
        PROVE  /\ handler'[wire'[k].n].gen = gen' /\ handler'[wire'[k].n].id = wire'[k].id
               /\ handler'[wire'[k].n].pc # "none"
    <3>1. CASE k \in 1..L /\ wire'[k] = wire[k]
      BY <1>2, <1>4, <2>1, <3>1 DEF At
    <3>2. CASE k = L + 1 /\ wire'[k] = f
      BY <2>1, <3>2, Zenon
    <3>. QED  BY <1>8, <3>1, <3>2, Zenon
  <2>2. ASSUME NEW k \in 1..Len(wire'), wire'[k].kind = "request"
        PROVE  handler'[wire'[k].n].pc = "sent"
    <3>1. CASE k \in 1..L /\ wire'[k] = wire[k]
      BY <1>2, <1>5, <2>2, <3>1 DEF At
    <3>2. CASE k = L + 1 /\ wire'[k] = f
      BY <2>2, <3>2, Zenon
    <3>. QED  BY <1>8, <3>1, <3>2, Zenon
  <2>3. ASSUME NEW j \in 1..Len(wire'), NEW k \in 1..Len(wire'), wire'[k].kind = "request",
               wire'[j].kind = "request", wire'[j].n = wire'[k].n
        PROVE  j = k
    <3>1. CASE j \in 1..L /\ wire'[j] = wire[j] /\ k \in 1..L /\ wire'[k] = wire[k]
      BY <1>6, <2>3, <3>1, Zenon DEF Carries
    <3>2. CASE j \in 1..L /\ wire'[j] = wire[j] /\ k = L + 1 /\ wire'[k] = f
      BY <1>4, <2>3, <3>2 DEF At
    <3>3. CASE j = L + 1 /\ wire'[j] = f /\ k \in 1..L /\ wire'[k] = wire[k]
      BY <1>4, <2>3, <3>3 DEF At
    <3>4. CASE j = L + 1 /\ k = L + 1
      BY <3>4, Zenon
    <3>. QED  BY <1>8, <3>1, <3>2, <3>3, <3>4, Zenon
  <2>. QED  BY <2>1, <2>2, <2>3, Zenon DEF FramesInv, Carries, At
<1>10. CarriedInv'
  <2>1. ASSUME NEW n \in Requests, handler'[n].gen = gen', handler'[n].pc = "sent"
        PROVE  \E j \in 1..Len(wire') : wire'[j].kind = "request" /\ wire'[j].n = n
    <3>1. CASE At(n, "none")
      <4>1. f.kind = "request" /\ f.n = n /\ L + 1 \in 1..Len(wire')
        BY <1>1, <2>1, <3>1
      <4>. QED  BY <1>1, <4>1, Zenon
    <3>2. CASE ~At(n, "none")
      <4>1. PICK j \in 1..L : Carries(j, n)
        BY <1>7, <2>1, <3>2, Zenon DEF CarriedInv, At, L
      <4>2. j \in 1..Len(wire') /\ wire'[j] = wire[j]
        BY <1>1
      <4>. QED  BY <4>1, <4>2, Zenon DEF Carries
    <3>. QED  BY <3>1, <3>2, Zenon
  <2>. QED  BY <2>1, Zenon DEF CarriedInv, Carries, At
<1>11. CancelInv'
  <2>1. ASSUME NEW k \in 1..Len(wire'), wire'[k].kind = "cancel", handler'[wire'[k].n].pc = "sent"
        PROVE  \E j \in 1..(k - 1) : wire'[j].kind = "request" /\ wire'[j].n = wire'[k].n
    <3>1. CASE k \in 1..L /\ wire'[k] = wire[k]
      <4>1. At(wire[k].n, "sent")
        BY <1>2, <1>4, <2>1, <3>1, Zenon DEF At
      <4>2. PICK j \in 1..(k - 1) : Carries(j, wire[k].n)
        BY <1>7, <2>1, <3>1, <4>1, Zenon DEF CancelInv, L
      <4>3. wire'[j] = wire[j]
        BY <1>1, <3>1
      <4>. QED  BY <3>1, <4>2, <4>3, Zenon DEF Carries
    <3>2. CASE k = L + 1 /\ wire'[k] = f
      <4>1. f.n \in Requests /\ handler[f.n] = handler'[f.n] /\ handler'[f.n].gen = gen /\ At(f.n, "sent")
        BY <1>3, <2>1, <3>2, Zenon DEF At
      <4>2. PICK j \in 1..L : Carries(j, f.n)
        BY <1>7, <4>1, Zenon DEF CarriedInv, L
      <4>3. j \in 1..(k - 1) /\ wire'[j] = wire[j]
        BY <1>1, <3>2
      <4>. QED  BY <3>2, <4>2, <4>3, Zenon DEF Carries
    <3>. QED  BY <1>8, <3>1, <3>2, Zenon
  <2>2. ASSUME NEW k \in 1..Len(wire'), wire'[k].kind = "cancel",
               NEW m \in Requests, wire'[k].n < m, handler'[m].pc # "none",
               handler'[m].gen = gen', handler'[m].id = wire'[k].id
        PROVE  \E j \in (k + 1)..Len(wire') : wire'[j].kind = "request" /\ wire'[j].n = m
    <3>1. CASE At(m, "none")
      <4>1. f.kind = "request" /\ f.n = m
        BY <2>2, <3>1, Zenon
      <4>2. k # L + 1
        BY <1>1, <2>2, <4>1, Zenon
      <4>3. L + 1 \in (k + 1)..Len(wire')
        BY <1>1, <1>8, <4>2
      <4>. QED  BY <1>1, <4>1, <4>3, Zenon
    <3>2. CASE ~At(m, "none")
      <4>1. handler'[m] = handler[m]
        BY <3>2, Zenon
      <4>2. k \in 1..L /\ wire'[k] = wire[k]
        BY <1>8, <2>2, <3>2, <4>1, Zenon
      <4>3. PICK j \in (k + 1)..L : Carries(j, m)
        BY <1>7, <2>2, <3>2, <4>1, <4>2, Zenon DEF CancelInv, L
      <4>4. j \in (k + 1)..Len(wire') /\ wire'[j] = wire[j]
        BY <1>1, <4>2, <4>3
      <4>. QED  BY <4>3, <4>4, Zenon DEF Carries
    <3>. QED  BY <3>1, <3>2, Zenon
  <2>3. ASSUME NEW k \in 1..Len(wire'), wire'[k].kind = "cancel"
        PROVE  /\ handler'[wire'[k].n].pc = "sent" =>
                     \E j \in 1..(k - 1) : wire'[j].kind = "request" /\ wire'[j].n = wire'[k].n
               /\ \A m \in Requests :
                     /\ wire'[k].n < m /\ handler'[m].pc # "none"
                     /\ handler'[m].gen = gen' /\ handler'[m].id = wire'[k].id
                     => \E j \in (k + 1)..Len(wire') : wire'[j].kind = "request" /\ wire'[j].n = m
    <3>1. ASSUME handler'[wire'[k].n].pc = "sent"
          PROVE  \E j \in 1..(k - 1) : wire'[j].kind = "request" /\ wire'[j].n = wire'[k].n
      BY <2>1, <2>3, <3>1, Zenon
    <3>2. ASSUME NEW m \in Requests, wire'[k].n < m, handler'[m].pc # "none",
                 handler'[m].gen = gen', handler'[m].id = wire'[k].id
          PROVE  \E j \in (k + 1)..Len(wire') : wire'[j].kind = "request" /\ wire'[j].n = m
      BY <2>2, <2>3, <3>2, Zenon
    <3>. QED  BY <3>1, <3>2, Zenon
  <2>. QED  BY <2>3, Zenon DEF CancelInv, Carries, At
<1>. QED  BY <1>9, <1>10, <1>11, Zenon DEF WireInv

\* A cancel frame, or one that is neither.
LEMMA RelayCancelStep ==
    ASSUME ConnectorInv, RelayOther \/ \E id \in Ids : RelayCancel(id)
    PROVE  ConnectorInv'
<1>0. TypeOK /\ NumberingInv /\ ActiveInv /\ ContextInv /\ WaitingInv /\ SuccessionInv /\ WireInv /\ SlotsBalance
  BY Zenon DEF ConnectorInv
<1>1. /\ UNCHANGED <<run, err, delay, shutdown, gen, alive, open, slots, active, handler, stopped, waiting>>
      /\ run = "reading"
  BY Zenon DEF RelayOther, RelayCancel, CanSend, runVars
<1>2. PICK f \in Frames :
         /\ wire' = Append(wire, f)
         /\ f.kind # "request"
         /\ f.kind = "cancel" =>
              /\ handler[f.n].gen = gen /\ handler[f.n].id = f.id /\ ~At(f.n, "none")
              /\ \A m \in Requests : ~(f.n < m /\ ~At(m, "none") /\ handler[m].gen = gen /\ handler[m].id = f.id)
  <2>1. CASE RelayOther
    <3>1. [kind |-> "other"] \in Frames /\ [kind |-> "other"].kind = "other"
      BY Zenon DEF Frames
    <3>. QED  BY <2>1, <3>1, Zenon DEF RelayOther
  <2>2. ASSUME NEW id \in Ids, RelayCancel(id)
        PROVE  \E f \in Frames :
                  /\ wire' = Append(wire, f)
                  /\ f.kind # "request"
                  /\ f.kind = "cancel" =>
                       /\ handler[f.n].gen = gen /\ handler[f.n].id = f.id /\ ~At(f.n, "none")
                       /\ \A m \in Requests :
                            ~(f.n < m /\ ~At(m, "none") /\ handler[m].gen = gen /\ handler[m].id = f.id)
    <3>. DEFINE f == [kind |-> "cancel", id |-> id, n |-> waiting[id]]
    <3>1. waiting[id] \in Requests
      BY <1>0, <2>2, Zenon DEF RelayCancel, TypeOK
    <3>2. f \in Frames /\ f.kind = "cancel" /\ f.id = id /\ f.n = waiting[id] /\ wire' = Append(wire, f)
      BY <2>2, <3>1, Zenon DEF Frames, CancelFrames, RelayCancel
    <3>3. handler[waiting[id]].gen = gen /\ handler[waiting[id]].id = id /\ ~At(waiting[id], "none")
      BY <1>0, <2>2, Zenon DEF RelayCancel, WaitingInv
    <3>4. ASSUME NEW m \in Requests, ~At(m, "none"), handler[m].gen = gen, handler[m].id = id
          PROVE  ~(waiting[id] < m)
      <4>1. m <= waiting[id]
        BY <1>0, <2>2, <3>4, Zenon DEF RelayCancel, WaitingInv
      <4>. QED  BY <1>0, <3>1, <4>1, HandlerFacts
    <3>. HIDE DEF f
    <3>. QED  BY <3>2, <3>3, <3>4, Zenon
  <2>. QED  BY <2>1, <2>2, Zenon
<1>3. TypeOK'
  <2>1. wire' \in Seq(Frames)
    BY <1>0, <1>2, AppendFacts, Zenon
  <2>. QED  BY <1>0, <1>1, <2>1, Zenon DEF TypeOK
<1>4. WireInv'
  <2>1. f.kind \in {"cancel", "other"}
    BY <1>2, FrameFacts, Zenon
  <2>. QED  BY <1>0, <1>1, <1>2, <2>1, WireAppended, Zenon DEF At
<1>5. NumberingInv'
  BY <1>0, <1>1, Zenon DEF NumberingInv, At
<1>6. ActiveInv' /\ ContextInv'
  BY <1>0, <1>1, Zenon DEF ActiveInv, Running, ContextInv, At
<1>7. WaitingInv'
  BY <1>0, <1>1, Zenon DEF WaitingInv, At
<1>8. SuccessionInv' /\ SlotsBalance'
  BY <1>0, <1>1, Zenon DEF SuccessionInv, SlotsBalance, Running, At
<1>. QED  BY <1>3, <1>4, <1>5, <1>6, <1>7, <1>8, Zenon DEF ConnectorInv

\* A request is sent, under an identifier that the relay does not wait for.
LEMMA RelayRequestStep ==
    ASSUME ConnectorInv, NEW id \in Ids, NEW n \in Requests, NEW inTime \in BOOLEAN,
           RelayRequest(id, n, inTime)
    PROVE  ConnectorInv'
<1>0. TypeOK /\ NumberingInv /\ ActiveInv /\ ContextInv /\ WaitingInv /\ SuccessionInv /\ WireInv /\ SlotsBalance
  BY Zenon DEF ConnectorInv
<1>. DEFINE f == [kind |-> "request", id |-> id, n |-> n, inTime |-> inTime]
            h == [gen |-> gen, id |-> id, pc |-> "sent"]
<1>1. /\ UNCHANGED <<run, err, delay, shutdown, gen, alive, open, slots, active, stopped>>
      /\ run = "reading" /\ waiting[id] = None /\ At(n, "none") /\ \A m \in 1..(n - 1) : ~At(m, "none")
      /\ handler' = [handler EXCEPT ![n] = h]
      /\ waiting' = [waiting EXCEPT ![id] = n]
      /\ wire' = Append(wire, f)
  BY Zenon DEF RelayRequest, CanSend, runVars
<1>2. f \in Frames /\ f.kind = "request" /\ f.id = id /\ f.n = n
  BY Zenon DEF Frames, RequestFrames
<1>3. h \in HandlerStates /\ h.gen = gen /\ h.id = id /\ h.pc = "sent"
  BY <1>0, Zenon DEF HandlerStates, TypeOK
<1>. HIDE DEF f, h
<1>4. /\ handler' \in [Requests -> HandlerStates] /\ handler'[n] = h
      /\ \A m \in Requests : m # n => handler'[m] = handler[m]
  BY <1>0, <1>1, <1>3, Zenon DEF TypeOK
<1>5. /\ waiting' \in [Ids -> Requests \cup {None}] /\ waiting'[id] = n
      /\ \A i \in Ids : i # id => waiting'[i] = waiting[i]
  BY <1>0, <1>1, Zenon DEF TypeOK
<1>6. TypeOK'
  <2>1. wire' \in Seq(Frames)
    BY <1>0, <1>1, <1>2, AppendFacts, Zenon
  <2>. QED  BY <1>0, <1>1, <1>4, <1>5, <2>1, Zenon DEF TypeOK
<1>7. ASSUME NEW m \in Requests, ~At(m, "none") PROVE m < n /\ handler'[m] = handler[m] /\ m # n
  <2>1. m # n
    BY <1>1, <1>7, Zenon
  <2>2. ~(n < m)
    <3>1. n < m => n \in 1..(m - 1)
      BY ConnectorAssumption DEF Requests
    <3>. QED  BY <1>0, <1>1, <1>7, <3>1, Zenon DEF NumberingInv
  <2>3. m < n
    BY <1>0, <2>1, <2>2, HandlerFacts
  <2>. QED  BY <1>4, <2>1, <2>3, Zenon
<1>8. NumberingInv'
  <2>1. ASSUME NEW m \in Requests
        PROVE  /\ handler'[m].gen <= gen'
               /\ run' \in {"dial", "ready"} => handler'[m].gen < gen'
               /\ handler'[m].pc # "none" => handler'[m].id \in Ids /\ \A l \in 1..(m - 1) : handler'[l].pc # "none"
    <3>1. \A l \in 1..(m - 1) : l \in Requests
      BY ConnectorAssumption DEF Requests
    <3>2. CASE m = n
      BY <1>0, <1>1, <1>3, <1>4, <1>7, <3>1, <3>2 DEF At, TypeOK
    <3>3. CASE m # n
      BY <1>0, <1>1, <1>4, <1>7, <3>1, <3>3, Zenon DEF NumberingInv, At
    <3>. QED  BY <3>2, <3>3, Zenon
  <2>. QED  BY <2>1, Zenon DEF NumberingInv, At
<1>9. Running' = Running /\ n \notin Running
  BY <1>1, <1>3, <1>4, Zenon DEF Running, At
<1>10. ActiveInv'
  <2>1. \A m \in Running : m \in Requests /\ handler'[m] = handler[m]
    BY <1>4, <1>9, Zenon DEF Running
  <2>. QED  BY <1>0, <1>1, <1>9, <2>1 DEF ActiveInv
<1>11. ContextInv'
  BY <1>0, <1>1, <1>3, <1>4, Zenon DEF ContextInv, At
<1>12. WaitingInv'
  <2>1. ASSUME NEW i \in Ids, waiting'[i] # None
        PROVE  /\ handler'[waiting'[i]].id = i /\ handler'[waiting'[i]].gen = gen'
               /\ handler'[waiting'[i]].pc # "none"
               /\ \A m \in Requests : handler'[m].pc # "none" /\ handler'[m].gen = gen' /\ handler'[m].id = i
                     => m <= waiting'[i]
    <3>1. CASE i = id
      <4>1. ASSUME NEW m \in Requests, handler'[m].pc # "none" PROVE m <= n
        <5>1. m = n \/ m < n
          BY <1>4, <1>7, <4>1, Zenon DEF At
        <5>. QED  BY <1>0, <5>1, HandlerFacts
      <4>. QED  BY <1>1, <1>3, <1>4, <1>5, <3>1, <4>1, Zenon
    <3>2. CASE i # id
      <4>1. waiting'[i] = waiting[i] /\ waiting[i] \in Requests /\ waiting[i] # None
        BY <1>0, <1>5, <2>1, <3>2, Zenon DEF TypeOK
      <4>2. ~At(waiting[i], "none") /\ handler[waiting[i]].id = i /\ handler[waiting[i]].gen = gen
        BY <1>0, <4>1, Zenon DEF WaitingInv
      <4>3. handler'[waiting[i]] = handler[waiting[i]]
        BY <1>7, <4>1, <4>2, Zenon
      <4>4. ASSUME NEW m \in Requests, handler'[m].pc # "none", handler'[m].gen = gen', handler'[m].id = i
            PROVE  m <= waiting[i]
        <5>1. m # n
          BY <1>3, <1>4, <3>2, <4>4, Zenon
        <5>. QED  BY <1>0, <1>1, <1>4, <4>1, <4>4, <5>1 DEF WaitingInv, At
      <4>. QED  BY <1>1, <4>1, <4>2, <4>3, <4>4, Zenon DEF At
    <3>. QED  BY <3>1, <3>2, Zenon
  <2>2. ASSUME NEW m \in Requests, handler'[m].gen = gen', handler'[m].pc \in {"sent", "handling", "writing"}
        PROVE  waiting'[handler'[m].id] = m
    <3>1. CASE m = n
      BY <1>3, <1>4, <1>5, <3>1, Zenon
    <3>2. CASE m # n
      <4>1. handler'[m] = handler[m] /\ handler[m].gen = gen
        BY <1>1, <1>4, <2>2, <3>2, Zenon
      <4>2. handler[m].id \in Ids /\ waiting[handler[m].id] = m /\ m # None
        BY <1>0, <1>1, <2>2, <4>1, HandlerFacts, Zenon DEF NumberingInv, At, WaitingInv
      <4>. QED  BY <1>1, <1>5, <4>1, <4>2, Zenon
    <3>. QED  BY <3>1, <3>2, Zenon
  <2>. QED  BY <1>1, <2>1, <2>2, Zenon DEF WaitingInv, At
<1>13. SuccessionInv'
  <2>1. ASSUME NEW a \in Requests, NEW b \in Requests, a < b, handler'[a].gen = gen', handler'[b].gen = gen',
               handler'[a].id = handler'[b].id, handler'[b].pc # "none"
        PROVE  /\ handler'[a].pc \in {"release", "delete", "done"}
               /\ handler'[b].pc # "sent" => handler'[a].pc = "done"
    <3>1. CASE b = n
      <4>1. a \in 1..(n - 1) /\ a # n
        BY <2>1, <3>1 DEF Requests
      <4>2. handler'[a] = handler[a] /\ handler[a].gen = gen /\ handler[a].id = id /\ ~At(a, "none")
        BY <1>1, <1>3, <1>4, <2>1, <3>1, <4>1, Zenon
      <4>3. handler[a].pc \notin {"sent", "handling", "writing"}
        BY <1>0, <1>1, <4>2, HandlerFacts, Zenon DEF WaitingInv
      <4>. QED  BY <1>0, <1>3, <1>4, <3>1, <4>2, <4>3, HandlerFacts, Zenon DEF At
    <3>2. CASE b # n
      <4>1. handler'[b] = handler[b] /\ ~At(b, "none")
        BY <1>4, <2>1, <3>2, Zenon DEF At
      <4>2. a # n
        BY <1>0, <1>7, <2>1, <4>1, HandlerFacts
      <4>. QED  BY <1>0, <1>1, <1>4, <2>1, <4>1, <4>2, Zenon DEF SuccessionInv, At
    <3>. QED  BY <3>1, <3>2, Zenon
  <2>. QED  BY <2>1, Zenon DEF SuccessionInv, At
<1>14. WireInv'
  <2>1. \A m \in Requests : ~At(m, "none") => handler'[m] = handler[m]
    BY <1>7, Zenon
  <2>2. \A m \in Requests : At(m, "none") /\ handler'[m].pc # "none" => f.kind = "request" /\ f.n = m
    BY <1>2, <1>4, Zenon DEF At
  <2>3. /\ handler'[f.n].gen = gen /\ handler'[f.n].id = f.id /\ handler'[f.n].pc = "sent"
        /\ At(f.n, "none") /\ f.kind = "request"
    BY <1>1, <1>2, <1>3, <1>4, Zenon
  <2>. QED  BY <1>0, <1>1, <1>2, <2>1, <2>2, <2>3, WireAppended, Zenon
<1>15. SlotsBalance'
  <2>1. Holding' = Holding
    BY <1>4, <1>9, Zenon DEF Holding, At, Running
  <2>. QED  BY <1>0, <1>1, <2>1, Zenon DEF SlotsBalance, Holding
<1>. QED  BY <1>6, <1>8, <1>10, <1>11, <1>12, <1>13, <1>14, <1>15, Zenon DEF ConnectorInv

-----------------------------------------------------------------------------
\* Every step keeps the invariant of the connector.
LEMMA ConnectorStep == ConnectorInv /\ [Next]_vars => ConnectorInv'
<1>. SUFFICES ASSUME ConnectorInv, [Next]_vars PROVE ConnectorInv'
  BY Zenon
<1>1. CASE Connect
  BY <1>1, MoveStep, SessionStep, ReadyStep, Zenon DEF Connect
<1>2. CASE Reader
  BY <1>2, MoveStep, ReadStep, RequestStep, CancelStep, CloseStep, Zenon DEF Reader
<1>3. ASSUME NEW n \in Requests, Expire(n) \/ Goroutine(n) PROVE ConnectorInv'
  BY <1>3, CancelStep, HandleStep, WriteStep, DeleteStep, Zenon DEF Goroutine
<1>4. CASE Relay
  BY <1>4, RelayRequestStep, RelayCancelStep, Zenon DEF Relay
<1>5. CASE Shutdown \/ HeartbeatEnds \/ PeerCloses
  BY <1>5, CancelStep, MoveStep, Zenon
<1>6. CASE UNCHANGED vars
  <2>1. UNCHANGED <<run, err, delay, shutdown, gen, alive, open, slots, active, handler, stopped, wire, waiting>>
    BY <1>6, Zenon DEF vars
  <2>2. TypeOK'
    BY <2>1, Zenon DEF ConnectorInv, TypeOK
  <2>3. ContextInv'
    BY <2>1, Zenon DEF ConnectorInv, ContextInv, At
  <2>. QED  BY <2>1, <2>2, <2>3, RunKept, Zenon DEF ConnectorInv
<1>. QED  BY <1>1, <1>2, <1>3, <1>4, <1>5, <1>6, Zenon DEF Next

\* The invariant of the connector: its generations, the map of active requests,
\* their contexts, the slots, the relay's waits and the frames on the wire.
THEOREM ConnectorInvariance == Spec => []ConnectorInv
<1>1. Init => ConnectorInv
  <2>. SUFFICES ASSUME Init PROVE ConnectorInv
    BY Zenon
  <2>1. TypeOK
    <3>1. delay \in Nat /\ gen \in Nat /\ slots \in 0..MaxConcurrent
      BY CapacityFacts, ConnectorAssumption DEF Init
    <3>2. [gen |-> 0, id |-> None, pc |-> "none"] \in HandlerStates
      BY Zenon DEF HandlerStates
    <3>3. active \in [Ids -> Requests \cup {None}] /\ waiting \in [Ids -> Requests \cup {None}]
      BY Zenon DEF Init
    <3>4. handler \in [Requests -> HandlerStates]
      BY <3>2, Zenon DEF Init
    <3>5. wire \in Seq(Frames) /\ stopped \subseteq Requests
      BY DEF Init
    <3>6. {shutdown, alive, open} \subseteq BOOLEAN
      BY Zenon DEF Init
    <3>. QED  BY <3>1, <3>3, <3>4, <3>5, <3>6, Zenon DEF Init, TypeOK
  <2>2. NumberingInv
    BY DEF Init, NumberingInv, At, Requests
  <2>3. ActiveInv /\ ContextInv
    BY Zenon DEF Init, ActiveInv, ContextInv, Running, At
  <2>4. WaitingInv
    BY Zenon DEF Init, WaitingInv
  <2>5. SuccessionInv
    BY Zenon DEF Init, SuccessionInv, At
  <2>6. WireInv
    BY DEF Init, WireInv, FramesInv
  <2>7. SlotsBalance
    <3>1. Holding = {}
      BY Zenon DEF Init, Holding, Running
    <3>. QED  BY <3>1, FS_EmptySet, Zenon DEF Init, SlotsBalance, Holding
  <2>. QED  BY <2>1, <2>2, <2>3, <2>4, <2>5, <2>6, <2>7, Zenon DEF ConnectorInv
<1>. QED  BY <1>1, ConnectorStep, PTL DEF Spec

\* The tokens in the slots channel are the goroutines that hold one.
THEOREM SlotsAreBalanced == Spec => []SlotsBalance
<1>1. ConnectorInv => SlotsBalance
  BY Zenon DEF ConnectorInv
<1>. QED  BY <1>1, ConnectorInvariance, PTL

\* A cancel frame reaches the request it was sent for, or none.
THEOREM CancelsHit == Spec => []CancelHitsItsRequest
<1>1. ConnectorInv => CancelHitsItsRequest
  <2>. SUFFICES ASSUME ConnectorInv, run = "reading", wire # <<>>, Head(wire).kind = "cancel"
                PROVE  /\ active[Head(wire).id] \in {Head(wire).n, None}
                       /\ At(Head(wire).n, "handling") => active[Head(wire).id] = Head(wire).n
    BY Zenon DEF CancelHitsItsRequest
  <2>0. TypeOK /\ NumberingInv /\ ActiveInv /\ SuccessionInv /\ FramesInv /\ CancelInv
    BY Zenon DEF ConnectorInv, WireInv
  <2>1. Head(wire) = wire[1] /\ 1 \in 1..Len(wire) /\ Len(wire) \in Nat
    BY <2>0 DEF TypeOK
  <2>2. PICK n \in Requests, id \in Ids : wire[1].n = n /\ wire[1].id = id
    BY <2>0, <2>1, WireFacts, Zenon
  <2>3. handler[n].gen = gen /\ handler[n].id = id /\ ~At(n, "none")
    BY <2>0, <2>1, <2>2, Zenon DEF FramesInv
  <2>4. ~At(n, "sent")
    <3>1. At(n, "sent") => \E j \in 1..(1 - 1) : Carries(j, n)
      BY <2>0, <2>1, <2>2, Zenon DEF CancelInv
    <3>. QED  BY <3>1
  <2>5. At(n, "handling") => active[id] = n
    BY <2>0, <2>3, Zenon DEF ActiveInv, Running, At
  <2>6. ASSUME active[id] # None, active[id] # n PROVE FALSE
    <3>. DEFINE m == active[id]
    <3>1. m \in Requests /\ m \in Running /\ handler[m].gen = gen /\ handler[m].id = id
      BY <2>0, <2>6, Zenon DEF ActiveInv, Running
    <3>2. handler[m].pc \notin {"none", "sent", "done"}
      BY <3>1, Zenon DEF Running
    <3>. HIDE DEF m
    <3>3. CASE m < n
      BY <2>0, <2>3, <2>4, <3>1, <3>2, <3>3, Zenon DEF SuccessionInv, At
    <3>4. CASE n < m
      <4>1. PICK j \in (1 + 1)..Len(wire) : Carries(j, m)
        BY <2>0, <2>1, <2>2, <3>1, <3>2, <3>4, Zenon DEF CancelInv, At
      <4>2. j \in 1..Len(wire)
        BY <2>1
      <4>. QED  BY <2>0, <3>2, <4>1, <4>2, Zenon DEF FramesInv, Carries, At
    <3>. QED  BY <2>0, <2>6, <3>1, <3>3, <3>4, HandlerFacts DEF m
  <2>. QED  BY <2>1, <2>2, <2>5, <2>6, Zenon
<1>. QED  BY <1>1, ConnectorInvariance, PTL

\* Once Connect has returned, no handler it started has a live context.
THEOREM UnfinishedCanceled == Spec => []UnfinishedAreCanceled
<1>1. ConnectorInv => UnfinishedAreCanceled
  BY Zenon DEF ConnectorInv, ContextInv, UnfinishedAreCanceled
<1>. QED  BY <1>1, ConnectorInvariance, PTL

\* A response is written only on the connection that its request came from, and
\* ends the relay's wait for that request only.
THEOREM AwaitedResponses == Spec => ResponsesAreAwaited
<1>. DEFINE Awaited == \A n \in Requests :
          At(n, "writing") /\ handler'[n].pc = "release" /\ waiting' # waiting => waiting[handler[n].id] = n
<1>1. ConnectorInv /\ [Next]_vars => [Awaited]_vars
  <2>. SUFFICES ASSUME ConnectorInv, Next, NEW n \in Requests, At(n, "writing"), handler'[n].pc = "release",
                       waiting' # waiting
                PROVE  waiting[handler[n].id] = n
    BY Zenon
  <2>0. TypeOK /\ ContextInv /\ WaitingInv
    BY Zenon DEF ConnectorInv
  <2>1. handler' # handler
    BY Zenon DEF At
  <2>2. CASE \E m \in Requests : Write(m)
    <3>1. PICK m \in Requests : Write(m)
      BY <2>2, Zenon
    <3>2. m = n
      BY <2>0, <3>1, MovedFacts, Zenon DEF Write, Goto, Moved, At
    <3>. QED  BY <2>0, <3>1, <3>2, Zenon DEF Write, ContextInv, WaitingInv, At
  <2>3. CASE \E id \in Ids, m \in Requests, inTime \in BOOLEAN : RelayRequest(id, m, inTime)
    <3>1. PICK m \in Requests : At(m, "none") /\ \E h : handler' = [handler EXCEPT ![m] = h]
      BY <2>3, Zenon DEF RelayRequest
    <3>2. m # n
      BY <3>1, Zenon DEF At
    <3>3. handler'[n] = handler[n]
      BY <2>0, <3>1, <3>2, Zenon DEF TypeOK
    <3>. QED  BY <3>3, Zenon DEF At
  <2>4. CASE Connect \/ Reader \/ Shutdown \/ HeartbeatEnds \/ PeerCloses
    <3>1. waiting' = waiting \/ handler' = handler
      BY <2>4, Zenon DEF Connect, Reader, Shutdown, HeartbeatEnds, PeerCloses, SessionOk, SessionFails, DialOk,
           DialFails, Ready, NotReady, ReadFails, ReadOther, ReadCancel, ReadRequest, CancelActive, Close,
           BackoffEnds, EndGeneration, relayVars
    <3>. QED  BY <2>1, <3>1, Zenon
  <2>5. ASSUME NEW m \in Requests, Expire(m) \/ Handle(m) \/ WriteFails(m) \/ Release(m) \/ Delete(m) PROVE FALSE
    BY <2>5, Zenon DEF Expire, Handle, WriteFails, Release, Delete, relayVars
  <2>6. CASE RelayOther \/ \E id \in Ids : RelayCancel(id)
    BY <2>1, <2>6, Zenon DEF RelayOther, RelayCancel
  <2>. QED  BY <2>2, <2>3, <2>4, <2>5, <2>6, Zenon DEF Next, Goroutine, Relay
<1>2. [][Awaited]_vars => ResponsesAreAwaited
  BY Zenon DEF ResponsesAreAwaited
<1>. QED  BY <1>1, <1>2, ConnectorInvariance, PTL DEF Spec


-----------------------------------------------------------------------------
promiseVars == <<waiting, Phases, stopped>>

\* The phases of the promise, by the step of the goroutine.
LEMMA PhaseFacts ==
    /\ Phase["none"] = "new" /\ Phase["sent"] = "sent"
    /\ Phase["handling"] = "working" /\ Phase["writing"] = "answering"
    /\ Phase["release"] = "over" /\ Phase["delete"] = "over" /\ Phase["done"] = "over"
BY DEF Phase

\* A request is in the phase of its goroutine and of no other.
LEMMA PhaseOf ==
    ASSUME TypeOK, NEW n \in Requests
    PROVE  /\ Phases[n] = Phase[handler[n].pc]
           /\ Phases[n] = "working" => At(n, "handling")
           /\ Phases[n] = "answering" => At(n, "writing")
<1>1. Phases[n] = Phase[handler[n].pc]
  BY Zenon DEF Phases
<1>2. handler[n].pc \in {"none", "sent", "handling", "writing", "release", "delete", "done"}
  BY HandlerFacts, Zenon
<1>. QED  BY <1>1, <1>2, PhaseFacts, Zenon DEF At

\* One request goes on.
LEMMA PhaseMoves ==
    ASSUME TypeOK, NEW n \in Requests, NEW q, handler'[n].pc = q,
           \A m \in Requests : m # n => handler'[m] = handler[m]
    PROVE  Phases' = [Phases EXCEPT ![n] = Phase[q]]
<1>1. \A m \in Requests : m # n => Phase[handler'[m].pc] = Phase[handler[m].pc]
  BY Zenon
<1>. QED  BY <1>1, Zenon DEF Phases

LEMMA PhaseMoved ==
    ASSUME TypeOK, NEW n \in Requests, NEW q, Moved(n, q)
    PROVE  Phases' = [Phases EXCEPT ![n] = Phase[q]]
<1>1. handler'[n].pc = q /\ \A m \in Requests : m # n => handler'[m] = handler[m]
  BY Zenon DEF Moved
<1>. QED  BY <1>1, PhaseMoves, Zenon

LEMMA PhasesKept == ASSUME UNCHANGED handler PROVE Phases' = Phases
BY Zenon DEF Phases

\* A request that holds a slot is busy, so there is room for one more when a
\* slot is free.
LEMMA RoomForOne ==
    ASSUME TypeOK, SlotsBalance, slots # MaxConcurrent
    PROVE  Promise!Cardinality(Promise!Busy) < MaxConcurrent
<1>0. Promise!Cardinality(Promise!Busy) = Cardinality(Promise!Busy)
  BY DEF Promise!Cardinality, Cardinality
<1>1. Promise!Busy \subseteq Holding
  <2>. SUFFICES ASSUME NEW n \in Requests, Phases[n] \in {"working", "answering"} PROVE n \in Holding
    BY Zenon DEF Promise!Busy
  <2>1. At(n, "handling") \/ At(n, "writing")
    BY PhaseOf, Zenon
  <2>. QED  BY <2>1, Zenon DEF Holding, Running, At
<1>2. /\ Cardinality(Promise!Busy) \in Nat /\ Cardinality(Holding) \in Nat
      /\ Cardinality(Promise!Busy) <= Cardinality(Holding)
  BY <1>1, HoldingFinite, FS_Subset, FS_CardinalityType, Zenon
<1>3. slots = Cardinality(Holding)
  BY Zenon DEF SlotsBalance, Holding
<1>4. slots \in 0..MaxConcurrent /\ MaxConcurrent \in Nat
  BY ConnectorAssumption DEF TypeOK
<1>. QED  BY <1>0, <1>2, <1>3, <1>4

\* A step of the Connector that moves no request and keeps the relay waiting.
LEMMA QuietRefines ==
    ASSUME UNCHANGED <<handler, waiting>>, stopped \subseteq stopped'
    PROVE  Promise!Next
BY PhasesKept, Zenon DEF Promise!Next

\* The reader starts a goroutine, or refuses the frame.
LEMMA ReadRefines ==
    ASSUME ConnectorInv, ReadRequest
    PROVE  Promise!Next
<1>0. TypeOK /\ SlotsBalance /\ FramesInv
  BY Zenon DEF ConnectorInv, WireInv
<1>1. UNCHANGED waiting /\ stopped \subseteq stopped'
  BY Zenon DEF ReadRequest
<1>2. CASE UNCHANGED handler
  BY <1>1, <1>2, QuietRefines, Zenon
<1>3. CASE ~UNCHANGED handler
  <2>1. PICK f : f = Head(wire)
    BY Zenon
  <2>2. /\ f.kind = "request" /\ wire # <<>> /\ slots # MaxConcurrent
        /\ handler' = [handler EXCEPT ![f.n].pc = "handling"]
    BY <1>3, <2>1, Zenon DEF ReadRequest, Reads
  <2>3. f = wire[1] /\ 1 \in 1..Len(wire)
    <3>1. wire \in Seq(Frames)
      BY <1>0, Zenon DEF TypeOK
    <3>. QED  BY <2>1, <2>2, <3>1
  <2>4. f.n \in Requests /\ At(f.n, "sent")
    BY <1>0, <2>2, <2>3, WireFacts, Zenon DEF FramesInv
  <2>5. PICK n \in Requests : n = f.n
    BY <2>4, Zenon
  <2>6. Moved(n, "handling")
    BY <1>0, <2>2, <2>5, MovedFacts, Zenon
  <2>7. Phases' = [Phases EXCEPT ![n] = "working"] /\ Phases[n] = "sent"
    <3>1. Phases' = [Phases EXCEPT ![n] = Phase["handling"]]
      BY <1>0, <2>6, PhaseMoved, Zenon
    <3>2. Phases[n] = Phase["sent"]
      BY <1>0, <2>4, <2>5, PhaseOf, Zenon DEF At
    <3>. QED  BY <3>1, <3>2, PhaseFacts, Zenon
  <2>8. Promise!Work(n)
    BY <1>0, <1>1, <2>2, <2>7, RoomForOne, Zenon DEF Promise!Work, Promise!Becomes
  <2>. QED  BY <1>1, <2>8, Zenon DEF Promise!Next
<1>. QED  BY <1>2, <1>3, Zenon


\* The goroutine of a request goes from handling to writing, and from there on.
LEMMA GoroutineRefines ==
    ASSUME ConnectorInv, NEW n \in Requests, Goroutine(n)
    PROVE  Promise!Next
<1>0. TypeOK /\ ContextInv /\ WaitingInv
  BY Zenon DEF ConnectorInv
<1>1. CASE Handle(n)
  <2>1. At(n, "handling") /\ Moved(n, "writing") /\ UNCHANGED <<waiting, stopped>>
    BY <1>0, <1>1, MovedFacts, Zenon DEF Handle, Goto, relayVars
  <2>2. Phases' = [Phases EXCEPT ![n] = Phase["writing"]] /\ Phases[n] = Phase["handling"]
    BY <1>0, <2>1, PhaseMoved, PhaseOf, Zenon DEF At
  <2>3. Promise!Produce(n)
    BY <2>1, <2>2, PhaseFacts, Zenon DEF Promise!Produce, Promise!Becomes
  <2>. QED  BY <2>1, <2>3, Zenon DEF Promise!Next
<1>2. CASE Write(n)
  <2>1. /\ At(n, "writing") /\ Moved(n, "release") /\ UNCHANGED stopped
        /\ waiting' = [waiting EXCEPT ![handler[n].id] = None]
    BY <1>0, <1>2, MovedFacts, Zenon DEF Write, Goto
  <2>2. Phases' = [Phases EXCEPT ![n] = Phase["release"]] /\ Phases[n] = Phase["writing"]
    BY <1>0, <2>1, PhaseMoved, PhaseOf, Zenon DEF At
  <2>3. waiting[handler[n].id] = n
    BY <1>0, <1>2, Zenon DEF Write, ContextInv, WaitingInv, At
  <2>4. handler[n].id \in Ids
    BY <1>2, Zenon DEF ConnectorInv, NumberingInv, Write, At
  <2>5. Promise!Respond(handler[n].id, n)
    BY <2>1, <2>2, <2>3, PhaseFacts, Zenon DEF Promise!Respond, Promise!Becomes
  <2>. QED  BY <2>1, <2>4, <2>5, Zenon DEF Promise!Next
<1>3. CASE WriteFails(n)
  <2>1. At(n, "writing") /\ Moved(n, "release") /\ UNCHANGED waiting /\ stopped \subseteq stopped'
    BY <1>0, <1>3, MovedFacts, Zenon DEF WriteFails, Goto, EndGeneration, relayVars
  <2>2. Phases' = [Phases EXCEPT ![n] = Phase["release"]] /\ Phases[n] = Phase["writing"]
    BY <1>0, <2>1, PhaseMoved, PhaseOf, Zenon DEF At
  <2>3. Promise!Drop(n)
    BY <2>1, <2>2, PhaseFacts, Zenon DEF Promise!Drop, Promise!Becomes
  <2>. QED  BY <2>1, <2>3, Zenon DEF Promise!Next
<1>4. CASE Release(n) \/ Delete(n)
  <2>1. PICK q \in {"delete", "done"} : handler' = [handler EXCEPT ![n].pc = q]
    BY <1>4, Zenon DEF Release, Delete, Goto
  <2>2. Moved(n, q) /\ UNCHANGED waiting /\ stopped \subseteq stopped'
    BY <1>0, <1>4, <2>1, MovedFacts, Zenon DEF Release, Delete, relayVars
  <2>3. Phases' = [Phases EXCEPT ![n] = Phase[q]] /\ Phases[n] = "over" /\ Phase[q] = "over"
    <3>1. Phases' = [Phases EXCEPT ![n] = Phase[q]]
      BY <1>0, <2>2, PhaseMoved, Zenon
    <3>2. handler[n].pc = "release" \/ handler[n].pc = "delete"
      BY <1>4, Zenon DEF Release, Delete, At
    <3>3. Phases[n] = Phase[handler[n].pc]
      BY <1>0, PhaseOf, Zenon
    <3>4. Phases[n] = "over"
      BY <3>2, <3>3, PhaseFacts, Zenon
    <3>5. Phase[q] = "over"
      BY <2>1, PhaseFacts, Zenon
    <3>. QED  BY <3>1, <3>4, <3>5, Zenon
  <2>4. Phases' = Phases
    BY <2>3, Zenon DEF Phases
  <2>. QED  BY <2>2, <2>4, Zenon DEF Promise!Next
<1>. QED  BY <1>1, <1>2, <1>3, <1>4, Zenon DEF Goroutine

\* The relay sends a request.
LEMMA SendRefines ==
    ASSUME ConnectorInv, NEW i \in Ids, NEW n \in Requests, NEW inTime \in BOOLEAN,
           RelayRequest(i, n, inTime)
    PROVE  Promise!Next
<1>0. TypeOK
  BY Zenon DEF ConnectorInv
<1>1. PICK h : h = [gen |-> gen, id |-> i, pc |-> "sent"]
  BY Zenon
<1>2. /\ handler' = [handler EXCEPT ![n] = h] /\ At(n, "none") /\ waiting[i] = None
      /\ waiting' = [waiting EXCEPT ![i] = n] /\ UNCHANGED stopped
  BY <1>1, Zenon DEF RelayRequest
<1>3. h.pc = "sent"
  BY <1>1
<1>4. handler'[n].pc = "sent" /\ \A m \in Requests : m # n => handler'[m] = handler[m]
  BY <1>0, <1>2, <1>3, Zenon DEF TypeOK
<1>5. Phases' = [Phases EXCEPT ![n] = Phase["sent"]] /\ Phases[n] = Phase["none"]
  BY <1>0, <1>2, <1>4, PhaseMoves, PhaseOf, Zenon DEF At
<1>6. Promise!Send(i, n)
  BY <1>2, <1>5, PhaseFacts, Zenon DEF Promise!Send, Promise!Becomes
<1>. QED  BY <1>2, <1>6, Zenon DEF Promise!Next

\* The relay learns that the connection is gone: Connect has canceled what it
\* started.
LEMMA CloseRefines ==
    ASSUME ConnectorInv, NEW lasted \in BOOLEAN, Close(lasted)
    PROVE  Promise!Next
<1>0. TypeOK /\ ContextInv
  BY Zenon DEF ConnectorInv
<1>1. /\ run = "closing" /\ waiting' = [i \in Ids |-> None] /\ UNCHANGED <<handler, stopped>>
  BY Zenon DEF Close, RelayForgets
<1>2. ~alive
  BY <1>0, <1>1, Zenon DEF ContextInv
<1>3. \A n \in Requests : Phases[n] = "working" => n \in stopped
  BY <1>0, <1>2, PhaseOf, Zenon DEF ContextInv
<1>4. Promise!Disconnect
  BY <1>1, <1>3, PhasesKept, Zenon DEF Promise!Disconnect
<1>. QED  BY <1>1, <1>4, Zenon DEF Promise!Next

\* Every step of the Connector and of the relay is one of the promise.
LEMMA StepKeepsPromise ==
    ASSUME ConnectorInv, [Next]_vars
    PROVE  Promise!Next \/ UNCHANGED promiseVars
<1>1. CASE UNCHANGED vars
  <2>1. UNCHANGED <<handler, waiting>> /\ UNCHANGED stopped
    BY <1>1, Zenon DEF vars
  <2>. QED  BY <2>1, PhasesKept, Zenon DEF promiseVars
<1>2. CASE Connect
  <2>1. UNCHANGED <<handler, waiting>> /\ stopped \subseteq stopped'
    BY <1>2, Zenon DEF Connect, SessionOk, SessionFails, DialOk, DialFails, Ready, NotReady, relayVars
  <2>. QED  BY <2>1, QuietRefines, Zenon
<1>3. CASE ReadFails \/ ReadOther \/ ReadCancel \/ CancelActive \/ BackoffEnds
  <2>1. UNCHANGED <<handler, waiting>> /\ stopped \subseteq stopped'
    BY <1>3, Zenon DEF ReadFails, ReadOther, ReadCancel, CancelActive, BackoffEnds, relayVars
  <2>. QED  BY <2>1, QuietRefines, Zenon
<1>4. CASE Shutdown \/ HeartbeatEnds \/ PeerCloses
  <2>1. UNCHANGED <<handler, waiting>> /\ stopped \subseteq stopped'
    BY <1>4, Zenon DEF Shutdown, HeartbeatEnds, PeerCloses, EndGeneration, relayVars
  <2>. QED  BY <2>1, QuietRefines, Zenon
<1>5. CASE \E n \in Requests : Expire(n)
  <2>1. UNCHANGED <<handler, waiting>> /\ stopped \subseteq stopped'
    BY <1>5, Zenon DEF Expire, relayVars
  <2>. QED  BY <2>1, QuietRefines, Zenon
<1>6. CASE RelayOther \/ \E i \in Ids : RelayCancel(i)
  <2>1. UNCHANGED <<handler, waiting>> /\ stopped \subseteq stopped'
    BY <1>6, Zenon DEF RelayOther, RelayCancel
  <2>. QED  BY <2>1, QuietRefines, Zenon
<1>. QED
  BY <1>1, <1>2, <1>3, <1>4, <1>5, <1>6, ReadRefines, GoroutineRefines, SendRefines, CloseRefines, Zenon
     DEF Next, Reader, Relay

\* The Connector over all its connections, with the relay that drives it,
\* implements the abstract specification of what the relay is promised.
THEOREM RefinesRelayedRequests == Spec => ImplementsRelayedRequests
<1>1. Init => Promise!Init
  <2>. SUFFICES ASSUME Init PROVE Promise!Init
    OBVIOUS
  <2>1. \A n \in Requests : handler[n].pc = "none"
    BY DEF Init
  <2>2. Phases = [n \in Requests |-> "new"]
    BY <2>1, PhaseFacts, Zenon DEF Phases
  <2>. QED  BY <2>2, Zenon DEF Init, Promise!Init
<1>2. ConnectorInv /\ [Next]_vars => [Promise!Next]_<<waiting, Phases, stopped>>
  BY StepKeepsPromise, Zenon DEF promiseVars
<1>. QED
  BY <1>1, <1>2, ConnectorInvariance, PTL DEF Spec, ImplementsRelayedRequests, Promise!Spec

=============================================================================
