------------------------ MODULE DevelopmentConnector ------------------------
(***************************************************************************)
(* bridge/development/connector.go: Run reconnects a websocket to a relay; *)
(* Connect serves one connection (a generation).  Its reader starts one    *)
(* goroutine per request frame; the slots that bound those goroutines      *)
(* belong to the Connector and outlive a generation, the map of active     *)
(* requests and their contexts belong to the generation.                   *)
(*                                                                         *)
(* The relay is external.  It numbers its requests, uses an identifier for *)
(* one unanswered request at a time, and may cancel a request it waits     *)
(* for.  The heartbeat goroutine, modelled in DevelopmentLease, is here    *)
(* the action HeartbeatEnds.                                               *)
(***************************************************************************)
EXTENDS Integers, Sequences, FiniteSets

CONSTANTS
    Ids,            \* request identifiers
    MaxConcurrent,  \* capacity of Connector.slots
    ReconnectMin, ReconnectMax,
    MaxRequests,    \* bound on the request frames of a behaviour
    MaxGenerations, \* bound on the connections of a behaviour
    WireBound,      \* bound on the frames that wait to be read
    None

ASSUME ConnectorAssumption ==
    /\ MaxConcurrent \in 1..64
    /\ ReconnectMin \in Nat \ {0} /\ ReconnectMax \in Nat /\ ReconnectMin <= ReconnectMax
    /\ MaxRequests \in Nat /\ MaxGenerations \in Nat /\ WireBound \in Nat
    /\ None \notin Nat

VARIABLES
    run,       \* where Run and Connect are
    err,       \* the error Connect returns
    delay,     \* Run's reconnect delay
    shutdown,  \* the context of Run is done
    gen,       \* number of the current generation
    alive,     \* the context of the generation is not done
    open,      \* the websocket is open
    slots,     \* tokens in Connector.slots
    active,    \* the generation's map from identifiers to requests
    handler,   \* the goroutine of each request
    stopped,   \* the requests whose context is done
    wire,      \* frames the relay has sent on this connection
    waiting    \* the request the relay waits for, per identifier

vars == <<run, err, delay, shutdown, gen, alive, open, slots, active, handler,
          stopped, wire, waiting>>

runVars == <<run, err, delay, shutdown, gen>>
relayVars == <<wire, waiting>>

Requests == 1..MaxRequests
Errors == {"invalid", "unauthorized", "unavailable"}

\* The reader has a frame of this kind before it, by the verdict of DecodeFrame:
\* a request, a cancel or something else.
Reads(kind) == run = "reading" /\ open /\ wire # <<>> /\ Head(wire).kind = kind

\* The pc of a request is "none" when no frame with its number was sent and "sent"
\* when the frame is on the way or was refused; then come the steps of the goroutine.
Init ==
    /\ run = "session" /\ err = "none"
    /\ delay = ReconnectMin
    /\ shutdown = FALSE
    /\ gen = 0 /\ alive = FALSE /\ open = FALSE
    /\ slots = 0
    /\ active = [i \in Ids |-> None]
    /\ handler = [n \in Requests |-> [gen |-> 0, id |-> None, pc |-> "none"]]
    /\ stopped = {}
    /\ wire = <<>>
    /\ waiting = [i \in Ids |-> None]

-----------------------------------------------------------------------------
(* Run, and Connect up to the ready frame. *)

\* The requests whose goroutine derives its context from this generation.
OfGeneration == {n \in Requests : handler[n].gen = gen /\ handler[n].pc \notin {"none", "sent"}}

Fails(e) == run' = "closing" /\ err' = e

\* The connection is gone; the relay gives up what it waited for on it.
RelayForgets == wire' = <<>> /\ waiting' = [i \in Ids |-> None]

SessionOk ==
    /\ run = "session" /\ gen < MaxGenerations
    /\ run' = "dial" /\ err' = "none"
    /\ gen' = gen + 1
    /\ active' = [i \in Ids |-> None]
    /\ UNCHANGED <<delay, shutdown, alive, open, slots, handler, stopped, relayVars>>

\* The provider fails, or its session is not valid.
SessionFails(e) ==
    /\ run = "session"
    /\ Fails(e)
    /\ UNCHANGED <<delay, shutdown, gen, alive, open, slots, active, handler, stopped, relayVars>>

DialOk ==
    /\ run = "dial" /\ ~shutdown
    /\ run' = "ready" /\ open' = TRUE
    /\ UNCHANGED <<err, delay, shutdown, gen, alive, slots, active, handler, stopped, relayVars>>

\* 401 or 403, another failure, or the wrong subprotocol.
DialFails(e) ==
    /\ run = "dial"
    /\ Fails(e)
    /\ UNCHANGED <<delay, shutdown, gen, alive, open, slots, active, handler, stopped, relayVars>>

Ready ==
    /\ run = "ready" /\ open /\ ~shutdown
    /\ run' = "reading" /\ alive' = TRUE
    /\ UNCHANGED <<err, delay, shutdown, gen, open, slots, active, handler, stopped, relayVars>>

\* No frame in time, or a first frame that is not ready.
NotReady(e) ==
    /\ run = "ready" /\ e \in {"invalid", "unavailable"}
    /\ Fails(e)
    /\ UNCHANGED <<delay, shutdown, gen, alive, open, slots, active, handler, stopped, relayVars>>

-----------------------------------------------------------------------------
(* The reader of a generation. *)

Return(e) == run' = "returning" /\ err' = e

ReadFails ==
    /\ run = "reading" /\ (~open \/ ~alive)
    /\ Return("unavailable")
    /\ UNCHANGED <<delay, shutdown, gen, alive, open, slots, active, handler, stopped, relayVars>>

\* A frame that is not text, not decodable, or of another kind.
ReadOther ==
    /\ Reads("other")
    /\ wire' = Tail(wire)
    /\ Return("invalid")
    /\ UNCHANGED <<delay, shutdown, gen, alive, open, slots, active, handler, stopped, waiting>>

ReadCancel ==
    /\ Reads("cancel")
    /\ wire' = Tail(wire)
    /\ stopped' = stopped \cup ({active[Head(wire).id]} \ {None})
    /\ UNCHANGED <<runVars, alive, open, slots, active, handler, waiting>>

\* Mutant: an identifier that is still active is taken again.
ReadRequestReuses ==
    /\ Reads("request")
    /\ LET f == Head(wire) IN
       IF ~f.inTime
       THEN Return("invalid") /\ UNCHANGED <<slots, active, handler>>
       ELSE IF slots = MaxConcurrent
       THEN Return("unavailable") /\ UNCHANGED <<slots, active, handler>>
       ELSE /\ slots' = slots + 1
            /\ active' = [active EXCEPT ![f.id] = f.n]
            /\ handler' = [handler EXCEPT ![f.n].pc = "handling"]
            /\ UNCHANGED <<run, err>>
    /\ wire' = Tail(wire)
    /\ UNCHANGED <<delay, shutdown, gen, alive, open, stopped, waiting>>

\* The deadline is checked, then a slot is taken without waiting.  The context
\* of the request derives from that of the generation, done or not.
ReadRequest ==
    /\ Reads("request")
    /\ LET f == Head(wire) IN
       IF active[f.id] # None \/ ~f.inTime
       THEN Return("invalid") /\ UNCHANGED <<slots, active, handler, stopped>>
       ELSE IF slots = MaxConcurrent
       THEN Return("unavailable") /\ UNCHANGED <<slots, active, handler, stopped>>
       ELSE /\ slots' = slots + 1
            /\ active' = [active EXCEPT ![f.id] = f.n]
            /\ handler' = [handler EXCEPT ![f.n].pc = "handling"]
            /\ stopped' = IF alive THEN stopped ELSE stopped \cup {f.n}
            /\ UNCHANGED <<run, err>>
    /\ wire' = Tail(wire)
    /\ UNCHANGED <<delay, shutdown, gen, alive, open, waiting>>

\* Mutant: the goroutines are left to themselves.
CancelActiveNone ==
    /\ run = "returning"
    /\ run' = "closing"
    /\ alive' = FALSE
    /\ UNCHANGED <<err, delay, shutdown, gen, open, slots, active, handler, stopped, relayVars>>

\* The deferred functions of Connect: every active request and the context of
\* the generation are cancelled.
CancelActive ==
    /\ run = "returning"
    /\ run' = "closing"
    /\ alive' = FALSE
    /\ stopped' = stopped \cup {n \in Requests : \E i \in Ids : active[i] = n} \cup OfGeneration
    /\ UNCHANGED <<err, delay, shutdown, gen, open, slots, active, handler, relayVars>>

\* The websocket is closed.  Run looks at the error and chooses its delay,
\* short again when the connection lasted.
Close(lasted) ==
    /\ run = "closing"
    /\ open' = FALSE
    /\ RelayForgets
    /\ IF shutdown \/ err \in {"invalid", "unauthorized"}
       THEN run' = "stopped" /\ UNCHANGED delay
       ELSE /\ run' = "backoff"
            /\ delay' = IF lasted THEN ReconnectMin ELSE delay
    /\ UNCHANGED <<err, shutdown, gen, alive, slots, active, handler, stopped>>

\* The timer fires or Run's context is done.
BackoffEnds ==
    /\ run = "backoff"
    /\ IF shutdown THEN run' = "stopped" /\ UNCHANGED delay
       ELSE /\ run' = "session"
            /\ delay' = IF delay < ReconnectMax \div 2 THEN 2 * delay ELSE ReconnectMax
    /\ UNCHANGED <<err, shutdown, gen, alive, open, slots, active, handler, stopped, relayVars>>

-----------------------------------------------------------------------------
(* What ends a generation from outside its reader. *)

\* cancel() and CloseNow() of the current generation.
EndGeneration ==
    /\ alive' = FALSE /\ open' = FALSE
    /\ stopped' = stopped \cup OfGeneration

\* Run's context is cancelled, and with it every context below it.
Shutdown ==
    /\ ~shutdown /\ run # "stopped"
    /\ shutdown' = TRUE
    /\ alive' = FALSE
    /\ stopped' = stopped \cup {n \in Requests : handler[n].pc \notin {"none", "sent"}}
    /\ UNCHANGED <<run, err, delay, gen, open, slots, active, handler, relayVars>>

\* The heartbeat goroutine returns.
HeartbeatEnds ==
    /\ run = "reading" /\ open
    /\ EndGeneration
    /\ UNCHANGED <<runVars, slots, active, handler, relayVars>>

\* The connection breaks.
PeerCloses ==
    /\ open
    /\ open' = FALSE
    /\ UNCHANGED <<runVars, alive, slots, active, handler, stopped, relayVars>>

-----------------------------------------------------------------------------
(* The goroutine of a request. *)

At(n, location) == handler[n].pc = location
Goto(n, location) == handler' = [handler EXCEPT ![n].pc = location]

\* Mutant: the context of the request has no deadline.
ExpireNever(n) ==
    /\ At(n, "handling") /\ n \notin stopped /\ FALSE
    /\ UNCHANGED vars

\* The deadline of the request passes.
Expire(n) ==
    /\ At(n, "handling") /\ n \notin stopped
    /\ stopped' = stopped \cup {n}
    /\ UNCHANGED <<runVars, alive, open, slots, active, handler, relayVars>>

\* handle returns a response: the handler's, or 502 for one that is too large,
\* not JSON or lost in a panic.
Handle(n) ==
    /\ At(n, "handling")
    /\ Goto(n, "writing")
    /\ UNCHANGED <<runVars, alive, open, slots, active, stopped, relayVars>>

\* Mutant: the response goes to whichever connection is open.
WriteAnyConnection(n) ==
    /\ At(n, "writing") /\ alive /\ open
    /\ Goto(n, "release")
    /\ waiting' = [waiting EXCEPT ![handler[n].id] = None]
    /\ UNCHANGED <<runVars, alive, open, slots, active, stopped, wire>>

\* The response reaches the relay.
Write(n) ==
    /\ At(n, "writing") /\ handler[n].gen = gen /\ alive /\ open
    /\ Goto(n, "release")
    /\ waiting' = [waiting EXCEPT ![handler[n].id] = None]
    /\ UNCHANGED <<runVars, alive, open, slots, active, stopped, wire>>

\* Mutant: the early return after a failed write skips the slot.
WriteFailsLeaks(n) ==
    /\ At(n, "writing")
    /\ Goto(n, "delete")
    /\ IF handler[n].gen = gen THEN EndGeneration ELSE UNCHANGED <<alive, open, stopped>>
    /\ UNCHANGED <<runVars, slots, active, relayVars>>

\* The write fails: its connection is closed or it takes too long.  An earlier
\* generation is already closed.
WriteFails(n) ==
    /\ At(n, "writing")
    /\ Goto(n, "release")
    /\ IF handler[n].gen = gen THEN EndGeneration ELSE UNCHANGED <<alive, open, stopped>>
    /\ UNCHANGED <<runVars, slots, active, relayVars>>

Release(n) ==
    /\ At(n, "release")
    /\ Goto(n, "delete")
    /\ slots' = slots - 1
    /\ UNCHANGED <<runVars, alive, open, active, stopped, relayVars>>

\* The map of an earlier generation is no longer read by anyone.
Delete(n) ==
    /\ At(n, "delete")
    /\ Goto(n, "done")
    /\ active' = IF handler[n].gen = gen THEN [active EXCEPT ![handler[n].id] = None] ELSE active
    /\ stopped' = stopped \cup {n}
    /\ UNCHANGED <<runVars, alive, open, slots, relayVars>>

-----------------------------------------------------------------------------
(* The relay. *)

CanSend == run = "reading" /\ open /\ Len(wire) < WireBound

RelayRequest(id, n, inTime) ==
    /\ CanSend /\ waiting[id] = None
    /\ At(n, "none") /\ \A m \in 1..(n - 1) : ~At(m, "none")
    /\ handler' = [handler EXCEPT ![n] = [gen |-> gen, id |-> id, pc |-> "sent"]]
    /\ waiting' = [waiting EXCEPT ![id] = n]
    /\ wire' = Append(wire, [kind |-> "request", id |-> id, n |-> n, inTime |-> inTime])
    /\ UNCHANGED <<runVars, alive, open, slots, active, stopped>>

RelayCancel(id) ==
    /\ CanSend /\ waiting[id] # None
    /\ wire' = Append(wire, [kind |-> "cancel", id |-> id, n |-> waiting[id]])
    /\ UNCHANGED <<runVars, alive, open, slots, active, handler, stopped, waiting>>

RelayOther ==
    /\ CanSend
    /\ wire' = Append(wire, [kind |-> "other"])
    /\ UNCHANGED <<runVars, alive, open, slots, active, handler, stopped, waiting>>

-----------------------------------------------------------------------------
Connect ==
    \/ SessionOk \/ \E e \in Errors : SessionFails(e)
    \/ DialOk \/ \E e \in Errors : DialFails(e)
    \/ Ready \/ \E e \in Errors : NotReady(e)

Reader ==
    \/ ReadFails \/ ReadOther \/ ReadCancel \/ ReadRequest
    \/ CancelActive
    \/ \E lasted \in BOOLEAN : Close(lasted)
    \/ BackoffEnds

Goroutine(n) == Handle(n) \/ Write(n) \/ WriteFails(n) \/ Release(n) \/ Delete(n)

Relay ==
    \/ \E id \in Ids, n \in Requests, inTime \in BOOLEAN : RelayRequest(id, n, inTime)
    \/ \E id \in Ids : RelayCancel(id)
    \/ RelayOther

Next ==
    \/ Connect
    \/ Reader
    \/ \E n \in Requests : Expire(n) \/ Goroutine(n)
    \/ Relay
    \/ Shutdown \/ HeartbeatEnds \/ PeerCloses

Spec == Init /\ [][Next]_vars

(***************************************************************************)
(* The reader returns from every read it can, timers fire, and a handler   *)
(* returns once its context is done; before that it may run as long as it  *)
(* likes.  Writes, releases and deletions are not delayed for ever.        *)
(***************************************************************************)
FairSpec ==
    /\ Spec
    /\ WF_vars(Reader)
    /\ \A n \in Requests :
         /\ WF_vars(Expire(n))
         /\ WF_vars(n \in stopped /\ Handle(n))
         /\ WF_vars(Write(n) \/ WriteFails(n))
         /\ WF_vars(Release(n))
         /\ WF_vars(Delete(n))

-----------------------------------------------------------------------------
Running == {n \in Requests : handler[n].pc \in {"handling", "writing", "release", "delete"}}

\* Across reconnects, failed writes and cancellations, the tokens in the slots
\* channel are exactly the goroutines that have yet to give theirs back: none
\* is leaked, none is given back twice.
SlotsBalance == slots = Cardinality({n \in Running : ~At(n, "delete")})

\* A cancel frame that is read finds the request it was sent for, if that is
\* still being handled, and never another that has taken over its identifier.
CancelHitsItsRequest ==
    run = "reading" /\ wire # <<>> /\ Head(wire).kind = "cancel" =>
        LET f == Head(wire) IN
        /\ active[f.id] \in {f.n, None}
        /\ At(f.n, "handling") => active[f.id] = f.n

\* A response ends the relay's wait only for the very request it answers: not
\* for one that a later connection sent under the same identifier, and not for
\* the next one that reuses the identifier.
ResponsesAreAwaited ==
    [][\A n \in Requests :
          At(n, "writing") /\ handler'[n].pc = "release" /\ waiting' # waiting =>
              waiting[handler[n].id] = n]_vars

(***************************************************************************)
(* The Connector over all its connections implements RelayedRequests: a    *)
(* request is being worked on until handle returns and is over once its    *)
(* goroutine has tried to write the response.                              *)
(***************************************************************************)
Phase == [none |-> "new", sent |-> "sent", handling |-> "working", writing |-> "answering",
          release |-> "over", delete |-> "over", done |-> "over"]
Phases == [n \in Requests |-> Phase[handler[n].pc]]

Promise == INSTANCE RelayedRequests
             WITH Capacity <- MaxConcurrent, awaited <- waiting, phase <- Phases, canceled <- stopped

\* Over reconnects, cancellations, failed writes and shutdown, a request frame
\* is handled at most once and only while a slot is free; a response ends the
\* relay's wait only for the very request it answers, never for one of a later
\* connection or the next one with the same identifier; and when a connection
\* is gone every handler it started was canceled (Connect, handle).
ImplementsRelayedRequests == Promise!Spec

\* "All unfinished handlers are canceled when it ends": once Connect has
\* returned, no handler it started runs with a live context.
UnfinishedAreCanceled ==
    run \in {"session", "dial", "backoff", "stopped"} =>
        \A n \in Requests : At(n, "handling") => n \in stopped

\* Every goroutine ends and gives its slot back.
EverySlotReturns == \A n \in Requests : At(n, "handling") ~> At(n, "done")

-----------------------------------------------------------------------------
(***************************************************************************)
(* The inductive invariant.                                                *)
(***************************************************************************)

HandlerStates ==
    [gen : Nat, id : Ids \cup {None},
     pc : {"none", "sent", "handling", "writing", "release", "delete", "done"}]

RequestFrames == [kind : {"request"}, id : Ids, n : Requests, inTime : BOOLEAN]
CancelFrames == [kind : {"cancel"}, id : Ids, n : Requests]
Frames == RequestFrames \cup CancelFrames \cup [kind : {"other"}]

TypeOK ==
    /\ run \in {"session", "dial", "ready", "reading", "returning", "closing", "backoff", "stopped"}
    /\ err \in Errors \cup {"none"}
    /\ delay \in Nat
    /\ gen \in Nat
    /\ {shutdown, alive, open} \subseteq BOOLEAN
    /\ slots \in 0..MaxConcurrent
    /\ active \in [Ids -> Requests \cup {None}]
    /\ handler \in [Requests -> HandlerStates]
    /\ stopped \subseteq Requests
    /\ wire \in Seq(Frames)
    /\ waiting \in [Ids -> Requests \cup {None}]

\* Requests are numbered in the order they are sent, over all generations.
NumberingInv ==
    \A n \in Requests :
        /\ handler[n].gen <= gen
        /\ run \in {"dial", "ready"} => handler[n].gen < gen
        /\ ~At(n, "none") => handler[n].id \in Ids /\ \A m \in 1..(n - 1) : ~At(m, "none")

\* The map of the generation holds exactly its goroutines that have yet to
\* delete themselves from it.
ActiveInv ==
    /\ \A i \in Ids : active[i] # None =>
         active[i] \in Running /\ handler[active[i]].gen = gen /\ handler[active[i]].id = i
    /\ \A n \in Running : handler[n].gen = gen => active[handler[n].id] = n

\* A handler whose context is live belongs to a generation whose context is.
ContextInv ==
    /\ alive => run \in {"reading", "returning"}
    /\ \A n \in Requests : At(n, "handling") /\ n \notin stopped => alive /\ handler[n].gen = gen

\* While a generation reads, the relay waits for every request of it that is
\* unanswered, and for no other.
WaitingInv ==
    /\ run \notin {"reading", "returning", "closing"} => wire = <<>> /\ \A i \in Ids : waiting[i] = None
    /\ \A i \in Ids : waiting[i] # None =>
         /\ handler[waiting[i]].id = i /\ handler[waiting[i]].gen = gen /\ ~At(waiting[i], "none")
         /\ \A m \in Requests : ~At(m, "none") /\ handler[m].gen = gen /\ handler[m].id = i => m <= waiting[i]
    /\ run \in {"reading", "returning"} =>
         \A n \in Requests : handler[n].gen = gen /\ handler[n].pc \in {"sent", "handling", "writing"} =>
             waiting[handler[n].id] = n

\* Of two requests of a generation with one identifier, the earlier one was
\* answered before the later was sent, and was over before it was taken.
SuccessionInv ==
    \A m, n \in Requests :
        /\ m < n /\ handler[m].gen = gen /\ handler[n].gen = gen /\ handler[m].id = handler[n].id
        /\ ~At(n, "none")
        => /\ handler[m].pc \in {"release", "delete", "done"}
           /\ ~At(n, "sent") => At(m, "done")

\* Index j of the wire holds the frame of request n.
Carries(j, n) == wire[j].kind = "request" /\ wire[j].n = n

\* What the frames that wait to be read are about; a request has one frame.
FramesInv ==
    /\ \A k \in 1..Len(wire) : wire[k].kind # "other" =>
         handler[wire[k].n].gen = gen /\ handler[wire[k].n].id = wire[k].id /\ ~At(wire[k].n, "none")
    /\ \A k \in 1..Len(wire) : wire[k].kind = "request" => At(wire[k].n, "sent")
    /\ \A j, k \in 1..Len(wire) : wire[k].kind = "request" /\ Carries(j, wire[k].n) => j = k

\* A request that was sent and not yet read is on the wire.
CarriedInv ==
    \A n \in Requests : handler[n].gen = gen /\ At(n, "sent") => \E j \in 1..Len(wire) : Carries(j, n)

\* A cancel frame comes after the frame of its request, and before the frame
\* of any later request with its identifier.
CancelInv ==
    \A k \in 1..Len(wire) : wire[k].kind = "cancel" =>
        /\ At(wire[k].n, "sent") => \E j \in 1..(k - 1) : Carries(j, wire[k].n)
        /\ \A m \in Requests :
             /\ wire[k].n < m /\ ~At(m, "none")
             /\ handler[m].gen = gen /\ handler[m].id = wire[k].id
             => \E j \in (k + 1)..Len(wire) : Carries(j, m)

WireInv == FramesInv /\ (run = "reading" => CarriedInv /\ CancelInv)

ConnectorInv ==
    /\ TypeOK /\ NumberingInv /\ ActiveInv /\ ContextInv /\ WaitingInv /\ SuccessionInv
    /\ WireInv /\ SlotsBalance

=============================================================================
