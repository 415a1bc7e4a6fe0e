---------------------------- MODULE LwpConnection ---------------------------
(***************************************************************************)
(* lotor.Client: one pipelined LWP/1 connection.  Any number of goroutines *)
(* call do(), which registers a channel under a request id, writes a frame *)
(* and waits; one reader goroutine routes RESP frames to those channels    *)
(* and EVENT frames to the handlers of WATCH subscriptions.                *)
(*                                                                         *)
(* The calls of do() are numbered in the order in which they take the      *)
(* mutex to register.  A response is named by the number of the request it *)
(* answers, a watch id by the number of the WATCH request it was given to. *)
(* The wire carries the request id only: the number modulo IdSpace.        *)
(***************************************************************************)
EXTENDS Integers, Sequences, FiniteSets

CONSTANTS
    IdSpace,      \* number of request ids: 2^32, nextID is a uint32
    MaxRequests,  \* bound on the calls of do() in a behaviour
    MaxEvents     \* bound on the events the server pushes

ASSUME ConnectionAssumption ==
    /\ IdSpace \in Nat \ {0}
    /\ MaxRequests \in Nat \ {0}
    /\ MaxEvents \in Nat

VARIABLES
    nextID,    \* Client.nextID
    issued,    \* calls of do() that have registered
    pend,      \* Client.pend: the call whose channel waits under an id, or 0
    subs,      \* Client.subs: the call of Watch that stored a handler, or 0
    pc,        \* where each call of do() is
    asks,      \* what it asks for
    target,    \* the watch id that an UNWATCH names
    id,        \* its request id
    ch,        \* its channel, which has room for one frame
    ret,       \* what it returned: an error and the response
    reader,    \* where readLoop is
    held,      \* the call and the response readLoop is about to hand over
    swept,     \* calls that had registered when readLoop closed the channels
    conn,      \* the TCP connection
    stream,    \* frames from the server, in order
    inbox,     \* requests that reached the server
    status,    \* how the server answered each of them
    watches,   \* subscriptions the server keeps
    pushed,    \* events pushed so far
    handlers,  \* events for which a handler goroutine was started and has not run
    missed     \* events that found no handler although nobody had called Unwatch

callVars == <<pc, asks, target, id, ret>>
serverVars == <<inbox, status, watches, pushed>>
eventVars == <<handlers, missed>>
vars == <<nextID, issued, pend, subs, callVars, ch, reader, held, swept, conn,
          stream, serverVars, eventVars>>

Numbers == 1..MaxRequests
Ids == 0..(IdSpace - 1)
Nobody == 0   \* no entry in a map
Slots == 0..MaxRequests

Empty == 0    \* a channel nothing was sent to
Closed == -1  \* a closed channel
ChannelStates == -1..MaxRequests

Ops == {"hello", "call", "watch", "unwatch"}
Errors == {"none", "nil", "lwp", "failed"}  \* not returned, no error, ERR answer, other
Short == 0    \* an EVENT frame with fewer than five arguments
Pushes == Short..MaxEvents
Frame == [type : {"RESP", "EVENT"}, of : Numbers, event : Pushes]
Event == [watch : Numbers, event : Pushes]

TypeOK ==
    /\ nextID \in Ids
    /\ issued \in Slots
    /\ pend \in [Ids -> Slots]
    /\ subs \in [Numbers -> Slots]
    /\ pc \in [Numbers -> {"new", "write", "wait", "store", "done"}]
    /\ asks \in [Numbers -> Ops]
    /\ target \in [Numbers -> Slots]
    /\ id \in [Numbers -> Ids]
    /\ ch \in [Numbers -> ChannelStates]
    /\ ret \in [Numbers -> [err : Errors, of : Slots]]
    /\ reader \in {"read", "deliver", "close", "exited"}
    /\ held \in [call : Slots, of : Slots]
    /\ swept \in Slots
    /\ conn \in {"open", "broken"}
    /\ stream \in Seq(Frame)
    /\ inbox \in SUBSET Numbers
    /\ status \in [Numbers -> {"none", "OK", "ERR"}]
    /\ watches \in SUBSET Numbers
    /\ pushed \in Pushes
    /\ handlers \in SUBSET Event
    /\ missed \in SUBSET Event

NotReturned == [err |-> "none", of |-> 0]
Nothing == [call |-> 0, of |-> 0]

\* newClient, up to its HELLO.
Init ==
    /\ nextID = 0
    /\ issued = 0
    /\ pend = [i \in Ids |-> Nobody]
    /\ subs = [n \in Numbers |-> Nobody]
    /\ pc = [n \in Numbers |-> "new"]
    /\ asks = [n \in Numbers |-> IF n = 1 THEN "hello" ELSE "call"]
    /\ target = [n \in Numbers |-> Nobody]
    /\ id = [n \in Numbers |-> 0]
    /\ ch = [n \in Numbers |-> Empty]
    /\ ret = [n \in Numbers |-> NotReturned]
    /\ reader = "read"
    /\ held = Nothing
    /\ swept = 0
    /\ conn = "open"
    /\ stream = <<>>
    /\ inbox = {}
    /\ status = [n \in Numbers |-> "none"]
    /\ watches = {}
    /\ pushed = 0
    /\ handlers = {}
    /\ missed = {}

-----------------------------------------------------------------------------
\* nextID++ on a uint32.
Succ(i) == IF i = IdSpace - 1 THEN 0 ELSE i + 1

Goto(n, location) == pc' = [pc EXCEPT ![n] = location]

\* do() returns to the method that called it; when HELLO fails newClient
\* closes the connection.
Returns(n, err, of) ==
    /\ ret' = [ret EXCEPT ![n] = [err |-> err, of |-> of]]
    /\ Goto(n, IF asks[n] = "watch" /\ err = "nil" THEN "store" ELSE "done")
    /\ conn' = IF asks[n] = "hello" /\ err # "nil" THEN "broken" ELSE conn
    /\ UNCHANGED <<asks, target, id>>

(***************************************************************************)
(* do() takes the mutex, takes the next id and registers its channel under *)
(* it.  Requests other than HELLO follow a successful HELLO.  Unwatch      *)
(* deletes the handler, under the same mutex, right before its request     *)
(* registers: nothing but the dispatch of an event reads the handlers, so  *)
(* the two critical sections are one step.                                 *)
(***************************************************************************)
Register(kind, watch) ==
    LET n == issued + 1 IN
    /\ n <= MaxRequests
    /\ kind = "hello" <=> n = 1
    /\ n > 1 => ret[1].err = "nil"
    /\ IF kind = "unwatch"
       THEN /\ asks[watch] = "watch" /\ pc[watch] = "done" /\ ret[watch].err = "nil"
            /\ subs' = [subs EXCEPT ![watch] = Nobody]
            /\ target' = [target EXCEPT ![n] = watch]
       ELSE UNCHANGED <<subs, target>>
    /\ issued' = n
    /\ nextID' = Succ(nextID)
    /\ id' = [id EXCEPT ![n] = Succ(nextID)]
    /\ asks' = [asks EXCEPT ![n] = kind]
    /\ pend' = [pend EXCEPT ![Succ(nextID)] = n]
    /\ Goto(n, "write")
    /\ UNCHANGED <<ret, ch, reader, held, swept, conn, stream, serverVars, eventVars>>

\* The frame is written; it reaches the server unless the connection is
\* already broken, which a write need not notice.
Write(n) ==
    /\ pc[n] = "write"
    /\ Goto(n, "wait")
    /\ inbox' = IF conn = "open" THEN inbox \cup {n} ELSE inbox
    /\ UNCHANGED <<nextID, issued, pend, subs, asks, target, id, ret, ch, reader, held,
                   swept, conn, stream, status, watches, pushed, eventVars>>

\* The write fails and the channel is taken out of pend again.
WriteFails(n) ==
    /\ pc[n] = "write"
    /\ conn = "broken"
    /\ pend' = [pend EXCEPT ![id[n]] = Nobody]
    /\ Returns(n, "failed", 0)
    /\ UNCHANGED <<nextID, issued, subs, ch, reader, held, swept, stream, serverVars,
                   eventVars>>

\* The select of do(): a frame, or the channel was closed.  The error "lwp" is
\* an LWPError or, if the code in the frame is out of range, a plain error: no
\* caller in this module tells them apart.
Receive(n) ==
    /\ pc[n] = "wait"
    /\ ch[n] # Empty
    /\ IF ch[n] = Closed THEN Returns(n, "failed", 0)
       ELSE Returns(n, IF status[ch[n]] = "ERR" THEN "lwp" ELSE "nil", ch[n])
    /\ ch' = [ch EXCEPT ![n] = IF @ = Closed THEN Closed ELSE Empty]
    /\ UNCHANGED <<nextID, issued, pend, subs, reader, held, swept, stream, serverVars,
                   eventVars>>

\* Mutant: no timer, a call waits for its frame or for the close.
TimeoutNever(n) == FALSE

\* The select of do(): five seconds have passed.  The channel stays in pend.
Timeout(n) ==
    /\ pc[n] = "wait"
    /\ Returns(n, "failed", 0)
    /\ UNCHANGED <<nextID, issued, pend, subs, ch, reader, held, swept, stream,
                   serverVars, eventVars>>

\* Mutant: only the first handler of a client is stored.
StoreHandlerOnce(n) ==
    /\ pc[n] = "store"
    /\ Goto(n, "done")
    /\ subs' = IF \A w \in Numbers : subs[w] = Nobody
               THEN [subs EXCEPT ![ret[n].of] = n] ELSE subs
    /\ UNCHANGED <<nextID, issued, pend, asks, target, id, ret, ch, reader, held, swept,
                   conn, stream, serverVars, eventVars>>

\* Watch stores its handler under the watch id of the response.
StoreHandler(n) ==
    /\ pc[n] = "store"
    /\ Goto(n, "done")
    /\ subs' = IF asks[ret[n].of] = "watch" THEN [subs EXCEPT ![ret[n].of] = n] ELSE subs
    /\ UNCHANGED <<nextID, issued, pend, asks, target, id, ret, ch, reader, held, swept,
                   conn, stream, serverVars, eventVars>>

-----------------------------------------------------------------------------
\* Mutant: responses are taken to come in the order of the requests.
ReadResponseInOrder ==
    LET waiting == {n \in 1..issued : \E i \in Ids : pend[i] = n}
        oldest == CHOOSE n \in waiting : \A m \in waiting : n <= m
    IN  /\ reader = "read"
        /\ stream # <<>> /\ Head(stream).type = "RESP" /\ waiting # {}
        /\ pend' = [pend EXCEPT ![id[oldest]] = Nobody]
        /\ reader' = "deliver"
        /\ held' = [call |-> oldest, of |-> Head(stream).of]
        /\ stream' = Tail(stream)
        /\ UNCHANGED <<nextID, issued, subs, callVars, ch, swept, conn, serverVars,
                       eventVars>>

\* Mutant: the entry stays in pend.
ReadResponseKeeps ==
    /\ reader = "read"
    /\ stream # <<>> /\ Head(stream).type = "RESP"
    /\ pend[id[Head(stream).of]] # Nobody
    /\ reader' = "deliver"
    /\ held' = [call |-> pend[id[Head(stream).of]], of |-> Head(stream).of]
    /\ stream' = Tail(stream)
    /\ UNCHANGED <<nextID, issued, pend, subs, callVars, ch, swept, conn, serverVars,
                   eventVars>>

\* readLoop takes a RESP frame and, under the mutex, the channel it is for.
ReadResponse ==
    /\ reader = "read"
    /\ stream # <<>> /\ Head(stream).type = "RESP"
    /\ LET of == Head(stream).of
           call == pend[id[of]]
       IN  /\ pend' = [pend EXCEPT ![id[of]] = Nobody]
           /\ IF call = Nobody THEN UNCHANGED <<reader, held>>
              ELSE /\ reader' = "deliver"
                   /\ held' = [call |-> call, of |-> of]
    /\ stream' = Tail(stream)
    /\ UNCHANGED <<nextID, issued, subs, callVars, ch, swept, conn, serverVars, eventVars>>

\* readLoop sends the frame on the channel, which has room for it.
Deliver ==
    /\ reader = "deliver"
    /\ ch[held.call] = Empty
    /\ ch' = [ch EXCEPT ![held.call] = held.of]
    /\ reader' = "read"
    /\ held' = Nothing
    /\ UNCHANGED <<nextID, issued, pend, subs, callVars, swept, conn, stream, serverVars,
                   eventVars>>

\* Unwatch has been called for a watch id.
Unwatched(watch) == \E n \in 1..issued : asks[n] = "unwatch" /\ target[n] = watch

\* dispatchEvent drops a short frame; else it looks the handler up and starts it
\* in a goroutine.
DispatchEvent ==
    /\ reader = "read"
    /\ stream # <<>> /\ Head(stream).type = "EVENT"
    /\ LET watch == Head(stream).of
           event == Head(stream).event
       IN  IF event = Short THEN UNCHANGED eventVars
           ELSE IF subs[watch] # Nobody
           THEN /\ handlers' = handlers \cup {[watch |-> watch, event |-> event]}
                /\ UNCHANGED missed
           ELSE /\ missed' = IF Unwatched(watch) THEN missed
                             ELSE missed \cup {[watch |-> watch, event |-> event]}
                /\ UNCHANGED handlers
    /\ stream' = Tail(stream)
    /\ UNCHANGED <<nextID, issued, pend, subs, callVars, ch, reader, held, swept, conn,
                   serverVars>>

\* The read fails: the frames that are still on their way are lost, and
\* Done() is closed.
ReadFails ==
    /\ reader = "read"
    /\ conn = "broken"
    /\ reader' = "close"
    /\ UNCHANGED <<nextID, issued, pend, subs, callVars, ch, held, swept, conn, stream,
                   serverVars, eventVars>>

\* readLoop closes every channel in pend, under the mutex, and returns.
Sweep ==
    /\ reader = "close"
    /\ reader' = "exited"
    /\ ch' = [n \in Numbers |-> IF \E i \in Ids : pend[i] = n THEN Closed ELSE ch[n]]
    /\ pend' = [i \in Ids |-> Nobody]
    /\ swept' = issued
    /\ UNCHANGED <<nextID, issued, subs, callVars, held, conn, stream, serverVars,
                   eventVars>>

-----------------------------------------------------------------------------
(***************************************************************************)
(* The server, from how the client uses it: it answers each request at     *)
(* most once, in any order, and pushes the events of a watch after the     *)
(* response that created it.                                               *)
(***************************************************************************)
Answer(n, st) ==
    /\ conn = "open"
    /\ n \in inbox /\ status[n] = "none"
    /\ status' = [status EXCEPT ![n] = st]
    /\ stream' = Append(stream, [type |-> "RESP", of |-> n, event |-> 0])
    /\ watches' = CASE asks[n] = "watch" /\ st = "OK" -> watches \cup {n}
                    [] asks[n] = "unwatch" /\ st = "OK" -> watches \ {target[n]}
                    [] OTHER -> watches
    /\ UNCHANGED <<nextID, issued, pend, subs, callVars, ch, reader, held, swept, conn,
                   inbox, pushed, eventVars>>

Push(watch, event) ==
    /\ conn = "open"
    /\ watch \in watches
    /\ pushed < MaxEvents
    /\ pushed' = pushed + 1
    /\ event \in {Short, pushed + 1}
    /\ stream' = Append(stream, [type |-> "EVENT", of |-> watch, event |-> event])
    /\ UNCHANGED <<nextID, issued, pend, subs, callVars, ch, reader, held, swept, conn,
                   inbox, status, watches, eventVars>>

\* The connection breaks, or the caller calls Close.
Break ==
    /\ conn = "open"
    /\ conn' = "broken"
    /\ UNCHANGED <<nextID, issued, pend, subs, callVars, ch, reader, held, swept, stream,
                   serverVars, eventVars>>

\* A handler goroutine runs, at any time and in any order; what it calls are
\* calls of do() like everyone else's.
HandlerRuns(h) ==
    /\ h \in handlers
    /\ handlers' = handlers \ {h}
    /\ UNCHANGED <<nextID, issued, pend, subs, callVars, ch, reader, held, swept, conn,
                   stream, serverVars, missed>>

CallStep(n) ==
    Write(n) \/ WriteFails(n) \/ Receive(n) \/ Timeout(n) \/ StoreHandler(n)

ReaderStep == ReadResponse \/ Deliver \/ DispatchEvent \/ ReadFails \/ Sweep

ServerStep ==
    \/ \E n \in Numbers, st \in {"OK", "ERR"} : Answer(n, st)
    \/ \E watch \in Numbers, event \in Pushes : Push(watch, event)

Next ==
    \/ \E kind \in Ops, watch \in Numbers : Register(kind, watch)
    \/ \E n \in Numbers : CallStep(n)
    \/ ReaderStep
    \/ ServerStep
    \/ Break
    \/ \E h \in handlers : HandlerRuns(h)

Spec == Init /\ [][Next]_vars

\* A caller whose request is written is scheduled, and its timer fires.  Nothing
\* is assumed of conn.Write, which has no deadline, nor of the reader, the
\* server, the network or the handlers.
FairSpec ==
    Spec /\ \A n \in Numbers : WF_vars(Receive(n) \/ Timeout(n) \/ StoreHandler(n))

-----------------------------------------------------------------------------
\* do() returns the response to its own request.  A response that arrives
\* after its request timed out reaches another call only if that call is at
\* least IdSpace calls later: nextID has gone round while the answer was on
\* its way (readLoop, with the entry that a timeout leaves in pend).
ResponseMatchesRequest ==
    \A n \in Numbers :
        ret[n].of # 0 => ret[n].of = n \/ ret[n].of + IdSpace <= n

\* do() returns the response to its own request or none.  Holds as long as a
\* connection makes no more calls than there are request ids (do, readLoop).
OwnResponses == \A n \in Numbers : ret[n].of \in {0, n}

(***************************************************************************)
(* The client, its reader and the server implement RequestReply: a call is *)
(* open from its registration until do() returns, and what it got is the   *)
(* response it returned.                                                   *)
(***************************************************************************)
Phases == [n \in Numbers |-> IF pc[n] = "new" THEN "new"
                             ELSE IF pc[n] \in {"write", "wait"} THEN "open" ELSE "ended"]
Answered == {n \in Numbers : status[n] # "none"}
Got == [n \in Numbers |-> ret[n].of]

Promise == INSTANCE RequestReply
           WITH Requests <- Numbers, phase <- Phases, answered <- Answered, got <- Got

\* do() returns once, an error or a response; no response is returned by two
\* calls, although a call that timed out leaves its channel in pend, where a
\* later call finds the id and the answer to the first may come; and a call
\* returns the response to another request only if that one is at least
\* IdSpace calls older: nextID has gone round while the answer was on its way
\* (do, readLoop).
ImplementsRequestReply == Promise!Spec

\* The reader neither blocks on a full channel nor panics on a closed one,
\* whichever calls time out, fail to write or take over an id: one caller
\* never stalls the responses of the others (readLoop, `ch <- f').
ReaderCanDeliver == reader = "deliver" => ch[held.call] = Empty

\* When the reader is gone, a call waits on an open, empty channel only if it
\* registered after the sweep or if another call has used its id: all others
\* learn of the disconnect without waiting for the timeout.
SweepReachesEveryone ==
    reader = "exited" =>
        \A n \in Numbers :
            pc[n] = "wait" /\ ch[n] = Empty =>
                n > swept \/ \E m \in 1..issued : m # n /\ id[m] = id[n]

\* An event is missed only while the Watch call of its subscription has not
\* yet stored the handler (or was never given the watch id): once Watch has
\* returned, every event that is read before Unwatch is handled.
OnlyEarlyEventsAreMissed ==
    [][\A m \in missed' \ missed :
          ret[m.watch].err = "nil" /\ ret[m.watch].of = m.watch => pc[m.watch] = "store"]_vars

\* A call of do() whose request is written returns, whatever the server, the
\* connection and the reader do: there are at most MaxRequests calls, so that
\* each of them does if and only if there comes a time, again and again, when
\* none is waiting.
EveryCallEnds == []<>(\A n \in Numbers : pc[n] \in {"new", "write", "done"})

\* What the comment on Watch says: the handler of a subscription fires on
\* each matching EVENT.
HandlerFiresOnEachEvent == \A m \in missed : ret[m.watch].err # "nil"

-----------------------------------------------------------------------------
(***************************************************************************)
(* The inductive invariant behind the three safety properties.  Its heart  *)
(* is that an id in pend belongs to the latest call that was given it, and *)
(* that calls with one id are at least IdSpace apart.                      *)
(***************************************************************************)
Issued == 1..issued

\* The ids of the last IdSpace calls count back from nextID.
Window ==
    \A k \in Issued :
        issued - k < IdSpace =>
            id[k] = IF issued - k <= nextID THEN nextID - (issued - k)
                    ELSE nextID - (issued - k) + IdSpace

Spaced == \A m, n \in Issued : m < n /\ id[m] = id[n] => m + IdSpace <= n

\* The response of call m may be handed to call n.
MayAnswer(m, n) == m \in Issued /\ n \in Issued /\ id[m] = id[n] /\ m <= n

Pending ==
    \A i \in Ids :
        pend[i] # Nobody =>
            /\ pend[i] \in Issued
            /\ id[pend[i]] = i
            /\ ch[pend[i]] = Empty
            /\ \A m \in Issued : id[m] = i => m <= pend[i]

Delivering ==
    reader = "deliver" =>
        /\ MayAnswer(held.of, held.call)
        /\ ch[held.call] = Empty
        /\ \A i \in Ids : pend[i] # held.call

Answers ==
    \A n \in Numbers :
        /\ ch[n] > 0 => MayAnswer(ch[n], n)
        /\ ret[n].of # 0 => MayAnswer(ret[n].of, n)
        /\ n > issued => pc[n] = "new" /\ ch[n] = Empty

Arrived ==
    /\ inbox \subseteq Issued
    /\ \A k \in 1..Len(stream) : stream[k].type = "RESP" => stream[k].of \in Issued

SharesId(n) == \E m \in Issued : m # n /\ id[m] = id[n]

\* A call without a frame is reachable for the reader, or for its sweep.
Reachable(n) ==
    \/ SharesId(n)
    \/ reader # "exited" /\ pend[id[n]] = n
    \/ reader = "deliver" /\ held.call = n
    \/ reader = "exited" /\ n > swept

Waiters ==
    \A n \in Issued : pc[n] \in {"write", "wait"} /\ ch[n] = Empty => Reachable(n)

ConnectionInv ==
    /\ TypeOK
    /\ Window
    /\ Spaced
    /\ Pending
    /\ Delivering
    /\ Answers
    /\ Arrived
    /\ Waiters
    /\ swept <= issued

(***************************************************************************)
(* The invariant behind the missed events.  The server keeps and feeds     *)
(* only watches that a WATCH request asked for, and a Watch that was given *)
(* its own watch id is about to store its handler, has it stored, or was   *)
(* undone by Unwatch.                                                      *)
(***************************************************************************)
IsWatch(n) == n \in Issued /\ asks[n] = "watch"

Subscribed(w) == pc[w] = "store" \/ subs[w] # Nobody \/ Unwatched(w)

WatchInv ==
    /\ \A w \in watches : IsWatch(w)
    /\ \A k \in 1..Len(stream) : stream[k].type = "EVENT" => IsWatch(stream[k].of)
    /\ \A w \in Numbers : IsWatch(w) /\ ret[w].err = "nil" /\ ret[w].of = w => Subscribed(w)

(***************************************************************************)
(* The invariant behind the refinement of RequestReply: a response is on   *)
(* the wire, with the reader, in one channel or with one caller, in one    *)
(* copy and only after the server sent it.                                 *)
(***************************************************************************)
OnWire(m) == \E k \in 1..Len(stream) : stream[k].type = "RESP" /\ stream[k].of = m
WithReader(m) == reader = "deliver" /\ held.of = m
Queued(m) == \E n \in Numbers : ch[n] = m
Taken(m) == \E n \in Numbers : ret[n].of = m

SentOnce ==
    \A j, k \in 1..Len(stream) :
        stream[j].type = "RESP" /\ stream[k].type = "RESP" /\ stream[j].of = stream[k].of
            => j = k

OneHolder ==
    \A n, k \in Numbers :
        /\ ch[n] \in Numbers /\ ch[n] = ch[k] => n = k
        /\ ret[n].of \in Numbers /\ ret[n].of = ret[k].of => n = k

OnePlace ==
    \A m \in Numbers :
        /\ OnWire(m) => ~WithReader(m) /\ ~Queued(m) /\ ~Taken(m)
        /\ WithReader(m) => ~Queued(m) /\ ~Taken(m)
        /\ Queued(m) => ~Taken(m)
        /\ OnWire(m) \/ WithReader(m) \/ Queued(m) \/ Taken(m) => status[m] # "none"

\* A call that has registered and not returned has no response yet.
OpenCalls ==
    \A n \in Numbers :
        /\ pc[n] = "new" <=> n > issued
        /\ pc[n] \in {"new", "write", "wait"} => ret[n].of = 0

ExchangeInv == SentOnce /\ OneHolder /\ OnePlace /\ OpenCalls

=============================================================================
