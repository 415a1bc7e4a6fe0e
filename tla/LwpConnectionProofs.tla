------------------------ MODULE LwpConnectionProofs -------------------------
(***************************************************************************)
(* Proofs about LwpConnection, for every size of the id space and every    *)
(* number of calls and events: its types, the numbering of its calls, and  *)
(* who gets which frame.                                                   *)
(***************************************************************************)
EXTENDS LwpConnection, WireIntegers, TLAPS

\* What the small integer sets contain.
LEMMA SlotFacts ==
    /\ 0 \in Slots /\ Nobody = 0 /\ 0 \in Ids
    /\ \A n \in Numbers : n \in Slots
    /\ \A n \in Slots : n \in ChannelStates /\ (n # 0 => n \in Numbers)
    /\ Closed \in ChannelStates /\ Empty \in ChannelStates
    /\ \A n \in ChannelStates : n # Closed => n \in Slots
BY ConnectionAssumption
DEF Slots, Nobody, Ids, Numbers, ChannelStates, Closed, Empty

\* The first state satisfies the invariant.
LEMMA InitConnectionInv == Init => ConnectionInv
<1>. SUFFICES ASSUME Init PROVE ConnectionInv
  BY Zenon
<1>1. TypeOK
  BY ConnectionAssumption, SlotFacts
  DEF Init, TypeOK, Ops, Errors, NotReturned, Nothing, Pushes, Short
<1>2. Window /\ Spaced
  BY DEF Init, Window, Spaced, Issued
<1>3. Pending /\ Delivering /\ Waiters
  BY DEF Init, Pending, Delivering, Waiters, Issued
<1>4. Answers
  BY DEF Init, Answers, NotReturned, Empty
<1>5. Arrived /\ swept <= issued
  BY DEF Init, Arrived, Issued
<1>. QED  BY <1>1, <1>2, <1>3, <1>4, <1>5, Zenon DEF ConnectionInv

\* The types of the bookkeeping of a call, and of the rest.
CallsTyped ==
    /\ pc \in [Numbers -> {"new", "write", "wait", "store", "done"}]
    /\ asks \in [Numbers -> Ops]
    /\ target \in [Numbers -> Slots]
    /\ id \in [Numbers -> Ids]
    /\ ret \in [Numbers -> [err : Errors, of : Slots]]
    /\ conn \in {"open", "broken"}

\* Returning from do() keeps the types of the call.
LEMMA ReturnsTyped ==
    ASSUME TypeOK, NEW n \in Numbers, NEW err \in Errors, NEW of \in Slots,
           Returns(n, err, of)
    PROVE  CallsTyped'
<1>1. pc' \in [Numbers -> {"new", "write", "wait", "store", "done"}]
  BY Zenon DEF TypeOK, Returns, Goto
<1>2. ret' \in [Numbers -> [err : Errors, of : Slots]]
  <2>1. [err |-> err, of |-> of] \in [err : Errors, of : Slots]
    BY Zenon
  <2>. QED  BY <2>1, Zenon DEF TypeOK, Returns
<1>3. conn' \in {"open", "broken"}
  BY Zenon DEF TypeOK, Returns
<1>. QED  BY <1>1, <1>2, <1>3, Zenon DEF TypeOK, Returns, CallsTyped

\* Every step keeps the types.
LEMMA TypeStep ==
    ASSUME TypeOK, [Next]_vars
    PROVE  TypeOK'
<1>. USE SlotFacts DEF TypeOK
<1>1. ASSUME NEW kind \in Ops, NEW watch \in Numbers, Register(kind, watch)
      PROVE  TypeOK'
  <2>1. issued + 1 \in Numbers /\ Succ(nextID) \in Ids
    BY <1>1, ConnectionAssumption DEF Register, Succ, Numbers, Ids, Slots
  <2>2. pc' \in [Numbers -> {"new", "write", "wait", "store", "done"}]
    BY <1>1, <2>1, Zenon DEF Register, Goto
  <2>3. asks' \in [Numbers -> Ops] /\ id' \in [Numbers -> Ids]
    BY <1>1, <2>1, Zenon DEF Register
  <2>4. /\ subs' \in [Numbers -> Slots]
        /\ target' \in [Numbers -> Slots]
    <3>1. CASE kind = "unwatch"
      <4>1. /\ subs' = [subs EXCEPT ![watch] = 0]
            /\ target' = [target EXCEPT ![issued + 1] = watch]
        BY <1>1, <3>1, Zenon DEF Register
      <4>. QED  BY <2>1, <4>1, Zenon
    <3>2. CASE kind # "unwatch"
      BY <1>1, <3>2, Zenon DEF Register
    <3>. QED  BY <3>1, <3>2, Zenon
  <2>5. pend' \in [Ids -> Slots] /\ nextID' \in Ids /\ issued' \in Slots
    BY <1>1, <2>1, Zenon DEF Register
  <2>. QED  BY <1>1, <2>2, <2>3, <2>4, <2>5, Zenon DEF Register, serverVars, eventVars
<1>2. ASSUME NEW n \in Numbers, CallStep(n) PROVE TypeOK'
  <2>1. CASE Write(n)
    BY <2>1, Zenon DEF Write, Goto, eventVars
  <2>2. CASE WriteFails(n)
    <3>1. CallsTyped'
      BY <2>2, ReturnsTyped, Zenon DEF WriteFails, Errors
    <3>. QED  BY <2>2, <3>1, Zenon DEF WriteFails, CallsTyped, serverVars, eventVars
  <2>3. CASE Receive(n)
    <3>1. ch[n] # Closed => ch[n] \in Slots
      BY Zenon
    <3>2. CallsTyped'
      BY <2>3, <3>1, ReturnsTyped, Zenon DEF Receive, Errors
    <3>3. ch' \in [Numbers -> ChannelStates]
      BY <2>3, Zenon DEF Receive
    <3>. QED  BY <2>3, <3>2, <3>3, Zenon DEF Receive, CallsTyped, serverVars, eventVars
  <2>4. CASE Timeout(n)
    <3>1. CallsTyped'
      BY <2>4, ReturnsTyped, Zenon DEF Timeout, Errors
    <3>. QED  BY <2>4, <3>1, Zenon DEF Timeout, CallsTyped, serverVars, eventVars
  <2>5. CASE StoreHandler(n)
    <3>1. subs' \in [Numbers -> Slots]
      BY <2>5, Zenon DEF StoreHandler
    <3>2. pc' \in [Numbers -> {"new", "write", "wait", "store", "done"}]
      BY <2>5, Zenon DEF StoreHandler, Goto
    <3>. QED  BY <2>5, <3>1, <3>2, Zenon DEF StoreHandler, serverVars, eventVars
  <2>. QED  BY <1>2, <2>1, <2>2, <2>3, <2>4, <2>5, Zenon DEF CallStep
<1>3. ASSUME stream # <<>> PROVE Head(stream) \in Frame /\ Tail(stream) \in Seq(Frame)
  BY <1>3
<1>4. CASE ReadResponse
  <2>1. Head(stream).of \in Numbers /\ stream' \in Seq(Frame)
    BY <1>3, <1>4, Zenon DEF ReadResponse, Frame
  <2>2. pend' \in [Ids -> Slots]
    BY <1>4, <2>1, Zenon DEF ReadResponse
  <2>3. /\ held' \in [call : Slots, of : Slots]
        /\ reader' \in {"read", "deliver", "close", "exited"}
    BY <1>4, <2>1 DEF ReadResponse
  <2>. QED  BY <1>4, <2>1, <2>2, <2>3, Zenon DEF ReadResponse, callVars, serverVars, eventVars
<1>5. CASE Deliver
  <2>1. ch' \in [Numbers -> ChannelStates]
    BY <1>5, Zenon DEF Deliver
  <2>2. held' \in [call : Slots, of : Slots]
    BY <1>5, Zenon DEF Deliver, Nothing
  <2>. QED  BY <1>5, <2>1, <2>2, Zenon DEF Deliver, callVars, serverVars, eventVars
<1>6. CASE DispatchEvent
  <2>1. Head(stream) \in Frame /\ stream' \in Seq(Frame)
    BY <1>3, <1>6, Zenon DEF DispatchEvent
  <2>2. UNCHANGED <<nextID, issued, pend, subs, callVars, ch, reader, held, swept, conn, serverVars>>
    BY <1>6, Zenon DEF DispatchEvent
  <2>3. handlers' \in SUBSET Event /\ missed' \in SUBSET Event
    <3>. DEFINE watch == Head(stream).of
                event == Head(stream).event
    <3>1. watch \in Numbers /\ event \in Pushes
      BY <2>1, Zenon DEF Frame
    <3>2. [watch |-> watch, event |-> event] \in Event
      BY <3>1, Zenon DEF Event
    <3>3. \/ handlers' = handlers \cup {[watch |-> watch, event |-> event]}
          \/ UNCHANGED handlers
      BY <1>6, Zenon DEF DispatchEvent, eventVars
    <3>4. \/ missed' = missed \cup {[watch |-> watch, event |-> event]}
          \/ UNCHANGED missed
      BY <1>6, Zenon DEF DispatchEvent, eventVars
    <3>. HIDE DEF watch, event
    <3>. QED  BY <3>2, <3>3, <3>4, Zenon
  <2>. QED  BY <2>1, <2>2, <2>3, Zenon DEF callVars, serverVars
<1>7. CASE ReadFails
  BY <1>7, Zenon DEF ReadFails, callVars, serverVars, eventVars
<1>8. CASE Sweep
  <2>1. ch' \in [Numbers -> ChannelStates] /\ pend' \in [Ids -> Slots]
    BY <1>8, Zenon DEF Sweep
  <2>. QED  BY <1>8, <2>1, Zenon DEF Sweep, callVars, serverVars, eventVars
<1>9. ASSUME NEW n \in Numbers, NEW st \in {"OK", "ERR"}, Answer(n, st) PROVE TypeOK'
  <2>1. [type |-> "RESP", of |-> n, event |-> 0] \in Frame
    BY ConnectionAssumption DEF Frame, Pushes, Short
  <2>2. stream' \in Seq(Frame)
    BY <1>9, <2>1 DEF Answer
  <2>3. watches' \in SUBSET Numbers
    BY <1>9, Zenon DEF Answer
  <2>. QED  BY <1>9, <2>2, <2>3, Zenon DEF Answer, callVars, eventVars
<1>10. ASSUME NEW watch \in Numbers, NEW event \in Pushes, Push(watch, event) PROVE TypeOK'
  <2>1. pushed + 1 \in Pushes
    BY <1>10, ConnectionAssumption DEF Push, Pushes, Short
  <2>2. [type |-> "EVENT", of |-> watch, event |-> event] \in Frame
    BY <1>10, Zenon DEF Frame
  <2>3. stream' \in Seq(Frame)
    BY <1>10, <2>2 DEF Push
  <2>. QED  BY <1>10, <2>1, <2>3, Zenon DEF Push, callVars, eventVars
<1>11. CASE Break
  BY <1>11, Zenon DEF Break, callVars, serverVars, eventVars
<1>12. ASSUME NEW h \in handlers, HandlerRuns(h) PROVE TypeOK'
  <2>1. handlers' \in SUBSET Event
    BY <1>12, Zenon DEF HandlerRuns
  <2>. QED  BY <1>12, <2>1, Zenon DEF HandlerRuns, callVars, serverVars
<1>13. CASE UNCHANGED vars
  BY <1>13, Zenon DEF vars, callVars, serverVars, eventVars
<1>. QED
  BY <1>1, <1>2, <1>4, <1>5, <1>6, <1>7, <1>8, <1>9, <1>10, <1>11, <1>12, <1>13, Zenon
  DEF Next, ReaderStep, ServerStep

-----------------------------------------------------------------------------
\* What Register does to the numbering of the calls.
Numbered ==
    /\ issued + 1 \in Numbers
    /\ issued' = issued + 1
    /\ nextID' = Succ(nextID)
    /\ id' = [id EXCEPT ![issued + 1] = Succ(nextID)]
    /\ pend' = [pend EXCEPT ![Succ(nextID)] = issued + 1]
    /\ pc' = [pc EXCEPT ![issued + 1] = "write"]
    /\ UNCHANGED <<ret, ch, reader, held, swept, stream, inbox>>

\* do() numbers the next call and leaves the reader and the stream alone.
LEMMA RegisterFacts ==
    ASSUME TypeOK, NEW kind \in Ops, NEW watch \in Numbers, Register(kind, watch)
    PROVE  Numbered
<1>1. issued + 1 \in Numbers
  BY DEF TypeOK, Register, Numbers, Slots
<1>. QED  BY <1>1, Zenon DEF Register, Numbered, Goto, serverVars

\* Only Register numbers a call.
LEMMA StepCases ==
    ASSUME TypeOK, [Next]_vars
    PROVE  Numbered \/ UNCHANGED <<id, issued, nextID>>
<1>1. ASSUME NEW kind \in Ops, NEW watch \in Numbers, Register(kind, watch) PROVE Numbered
  BY <1>1, RegisterFacts, Zenon
<1>2. ASSUME NEW n \in Numbers, CallStep(n) PROVE UNCHANGED <<id, issued, nextID>>
  BY <1>2, Zenon DEF CallStep, Write, WriteFails, Receive, Timeout, StoreHandler, Returns
<1>3. CASE ReaderStep
  BY <1>3, Zenon DEF ReaderStep, ReadResponse, Deliver, DispatchEvent, ReadFails, Sweep, callVars
<1>4. CASE ServerStep
  BY <1>4, Zenon DEF ServerStep, Answer, Push, callVars
<1>5. CASE Break
  BY <1>5, Zenon DEF Break, callVars
<1>6. ASSUME NEW h \in handlers, HandlerRuns(h)
      PROVE  UNCHANGED <<id, issued, nextID>>
  BY <1>6, Zenon DEF HandlerRuns, callVars
<1>7. CASE UNCHANGED vars
  BY <1>7, Zenon DEF vars, callVars
<1>. QED  BY <1>1, <1>2, <1>3, <1>4, <1>5, <1>6, <1>7, Zenon DEF Next

\* The ids of recent calls differ: nextID counts through the whole id space
\* before it repeats one.
LEMMA NumberingStep ==
    ASSUME TypeOK, Window, Spaced, [Next]_vars
    PROVE  Window' /\ Spaced'
<1>1. CASE UNCHANGED <<id, issued, nextID>>
  BY <1>1, Zenon DEF Window, Spaced, Issued
<1>2. CASE Numbered
  <2>. DEFINE n == issued + 1
              s == Succ(nextID)
  <2>1. /\ issued \in Nat /\ nextID \in 0..(IdSpace - 1) /\ IdSpace \in Nat \ {0}
        /\ n \in Numbers /\ id \in [Numbers -> Ids] /\ issued' = n /\ nextID' = s
    BY <1>2, ConnectionAssumption DEF TypeOK, Numbered, Slots, Ids
  <2>2. s = IF nextID = IdSpace - 1 THEN 0 ELSE nextID + 1
    BY Zenon DEF Succ
  <2>. HIDE DEF s
  <2>3. id'[n] = s
    BY <1>2, <2>1, Zenon DEF Numbered, s
  <2>4. ASSUME NEW k \in 1..issued PROVE id'[k] = id[k] /\ k \in Numbers
    <3>1. k \in Numbers /\ k # n
      BY <2>1, ConnectionAssumption DEF Numbers
    <3>. QED  BY <1>2, <2>1, <3>1, Zenon DEF Numbered
  <2>5. ASSUME NEW k \in 1..n, n - k < IdSpace
        PROVE  id'[k] = IF n - k <= s THEN s - (n - k) ELSE s - (n - k) + IdSpace
    <3>1. CASE k = n
      BY <2>1, <2>2, <2>3, <3>1
    <3>2. CASE k # n
      <4>1. k \in 1..issued /\ issued - k < IdSpace
        BY <2>1, <2>5, <3>2
      <4>2. id[k] = IF issued - k <= nextID THEN nextID - (issued - k)
                    ELSE nextID - (issued - k) + IdSpace
        BY <4>1, Zenon DEF Window, Issued
      <4>. QED  BY <2>1, <2>2, <2>4, <2>5, <4>1, <4>2
    <3>. QED  BY <3>1, <3>2, Zenon
  <2>6. Window'
    BY <2>1, <2>5, Zenon DEF Window, Issued
  <2>7. ASSUME NEW m \in 1..n, NEW k \in 1..n, m < k, id'[m] = id'[k]
        PROVE  m + IdSpace <= k
    <3>1. CASE k = n
      <4>1. n - m < IdSpace => id'[m] = IF n - m <= s THEN s - (n - m)
                                        ELSE s - (n - m) + IdSpace
        BY <2>5, Zenon
      <4>. QED  BY <2>1, <2>2, <2>3, <2>7, <3>1, <4>1
    <3>2. CASE k # n
      <4>1. m \in 1..issued /\ k \in 1..issued
        BY <2>1, <2>7, <3>2
      <4>2. id[m] = id[k]
        BY <2>4, <2>7, <4>1, Zenon
      <4>. QED  BY <2>7, <4>1, <4>2, Zenon DEF Spaced, Issued
    <3>. QED  BY <3>1, <3>2, Zenon
  <2>8. Spaced'
    BY <2>1, <2>7, Zenon DEF Spaced, Issued
  <2>. QED  BY <2>6, <2>8, Zenon
<1>. QED  BY <1>1, <1>2, StepCases, Zenon

-----------------------------------------------------------------------------
\* The part of the invariant that is about who gets which frame.
Routing ==
    /\ Pending
    /\ Delivering
    /\ Answers
    /\ Arrived
    /\ Waiters
    /\ swept <= issued

Typed ==
    /\ issued \in Nat /\ swept \in Nat
    /\ Issued \subseteq Numbers
    /\ \A n \in Numbers : n \in Nat \ {0}
    /\ pend \in [Ids -> Slots] /\ id \in [Numbers -> Ids]
    /\ ch \in [Numbers -> ChannelStates]
    /\ \A n \in ChannelStates : n \in Int
    /\ \A n \in ChannelStates : n > 0 <=> n # Closed /\ n # Empty
    /\ Closed # Empty /\ Nobody \notin Numbers

\* The ranges of the connection's variables, as facts for arithmetic.
LEMMA TypedFacts ==
    ASSUME TypeOK
    PROVE  Typed
<1>1. /\ pend \in [Ids -> Slots] /\ id \in [Numbers -> Ids]
      /\ ch \in [Numbers -> ChannelStates] /\ issued \in Slots /\ swept \in Slots
  BY Zenon DEF TypeOK
<1>2. issued \in Nat /\ swept \in Nat /\ Issued \subseteq Numbers
  BY <1>1, ConnectionAssumption DEF Slots, Issued, Numbers
<1>3. /\ \A n \in Numbers : n \in Nat \ {0}
      /\ \A n \in ChannelStates : n \in Int
      /\ \A n \in ChannelStates : n > 0 <=> n # Closed /\ n # Empty
      /\ Closed # Empty /\ Nobody \notin Numbers
  BY ConnectionAssumption DEF Numbers, ChannelStates, Closed, Empty, Nobody
<1>. QED  BY <1>1, <1>2, <1>3, Zenon DEF Typed

\* A new call takes over its id; nobody else's frame changes hands.
LEMMA NumberedRouting ==
    ASSUME TypeOK, Routing, Numbered
    PROVE  Routing'
<1>. DEFINE n == issued + 1
            s == Succ(nextID)
<1>1. Typed /\ s \in Ids
  BY TypedFacts, ConnectionAssumption DEF TypeOK, Succ, Ids
<1>2. /\ n \in Numbers /\ n \in Nat /\ issued' = n
      /\ id' = [id EXCEPT ![n] = s] /\ pend' = [pend EXCEPT ![s] = n]
      /\ pc' = [pc EXCEPT ![n] = "write"]
      /\ UNCHANGED <<ret, ch, reader, held, swept, stream, inbox>>
  BY <1>1, Zenon DEF Numbered, Typed
<1>. HIDE DEF s
<1>3. \A k \in Issued : k \in Issued' /\ k # n /\ k \in Numbers /\ id'[k] = id[k] /\ pc'[k] = pc[k]
  BY <1>1, <1>2 DEF Issued, Typed, TypeOK
<1>4. id'[n] = s /\ n \in Issued' /\ \A k \in Issued' : k \in Issued \/ k = n
  BY <1>1, <1>2 DEF Issued, Typed
<1>5. ch[n] = Empty /\ \A k \in Numbers : k > n => ch[k] = Empty /\ pc[k] = "new"
  BY <1>1, <1>2 DEF Routing, Answers, Typed
<1>6. ASSUME NEW a, NEW b, MayAnswer(a, b) PROVE MayAnswer(a, b)'
  BY <1>3, <1>6, Zenon DEF MayAnswer
<1>7. Pending'
  <2>. SUFFICES ASSUME NEW i \in Ids, pend'[i] # Nobody
                PROVE  /\ pend'[i] \in Issued'
                       /\ id'[pend'[i]] = i
                       /\ ch'[pend'[i]] = Empty
                       /\ \A m \in Issued' : id'[m] = i => m <= pend'[i]
    BY Zenon DEF Pending
  <2>1. CASE i = s
    BY <1>1, <1>2, <1>3, <1>4, <1>5, <2>1 DEF Typed, Issued
  <2>2. CASE i # s
    <3>1. pend'[i] = pend[i]
      BY <1>1, <1>2, <2>2, Zenon DEF Typed
    <3>. QED  BY <1>2, <1>3, <1>4, <2>2, <3>1 DEF Routing, Pending
  <2>. QED  BY <2>1, <2>2, Zenon
<1>8. Delivering'
  <2>. SUFFICES ASSUME reader = "deliver"
                PROVE  /\ MayAnswer(held.of, held.call)'
                       /\ ch'[held'.call] = Empty
                       /\ \A i \in Ids : pend'[i] # held'.call
    BY <1>2, Zenon DEF Delivering
  <2>1. /\ MayAnswer(held.of, held.call) /\ ch[held.call] = Empty
        /\ \A i \in Ids : pend[i] # held.call
    BY Zenon DEF Routing, Delivering
  <2>2. held.call # n
    BY <1>3, <2>1, Zenon DEF MayAnswer
  <2>. QED  BY <1>1, <1>2, <1>3, <2>1, <2>2, Zenon DEF Typed, MayAnswer
<1>9. Answers'
  BY <1>1, <1>2, <1>3, <1>5, <1>6, SMTT(30) DEF Routing, Answers, Typed, MayAnswer, TypeOK
<1>10. Arrived'
  BY <1>2, <1>3, Zenon DEF Routing, Arrived
<1>11. Waiters'
  <2>. SUFFICES ASSUME NEW k \in Issued', pc'[k] \in {"write", "wait"}, ch[k] = Empty
                PROVE  Reachable(k)'
    BY <1>2, Zenon DEF Waiters
  <2>1. CASE k = n
    BY <1>1, <1>2, <1>4, <2>1 DEF Reachable, Typed, Routing
  <2>2. CASE k # n
    <3>1. k \in Issued /\ Reachable(k)
      BY <1>3, <1>4, <2>2, Zenon DEF Routing, Waiters
    <3>2. SharesId(k) => SharesId(k)'
      BY <1>3, <3>1, Zenon DEF SharesId
    <3>3. pend[id[k]] = k => SharesId(k)' \/ pend'[id'[k]] = k
      BY <1>1, <1>2, <1>3, <1>4, <2>2, <3>1, Zenon DEF SharesId, Typed
    <3>. QED  BY <1>2, <3>1, <3>2, <3>3, Zenon DEF Reachable
  <2>. QED  BY <2>1, <2>2, Zenon
<1>12. swept' <= issued'
  BY <1>1, <1>2 DEF Typed, Routing
<1>. QED  BY <1>7, <1>8, <1>9, <1>10, <1>11, <1>12, Zenon DEF Routing

\* A step that leaves the numbering alone keeps what responses may answer.
LEMMA SameNumbers ==
    ASSUME UNCHANGED <<id, issued>>
    PROVE  /\ Issued' = Issued
           /\ \A a, b : MayAnswer(a, b)' <=> MayAnswer(a, b)
           /\ \A n : SharesId(n)' <=> SharesId(n)
BY Zenon DEF Issued, MayAnswer, SharesId

\* The steps of a call other than registering.
LEMMA CallRouting ==
    ASSUME TypeOK, Routing, NEW n \in Numbers, CallStep(n)
    PROVE  Routing'
<1>1. Typed
  BY TypedFacts, Zenon
<1>2. UNCHANGED <<id, issued, reader, held, swept, stream>>
  BY Zenon DEF CallStep, Write, WriteFails, Receive, Timeout, StoreHandler, Returns
<1>3. n \in Issued
  <2>1. pc[n] # "new"
    BY Zenon DEF CallStep, Write, WriteFails, Receive, Timeout, StoreHandler
  <2>. QED  BY <1>1, <2>1, SMTT(30) DEF Routing, Answers, Typed, Issued
<1>4. /\ Issued' = Issued
      /\ \A a, b : MayAnswer(a, b)' <=> MayAnswer(a, b)
      /\ \A k : SharesId(k)' <=> SharesId(k)
  BY <1>2, SameNumbers, Zenon
<1>5. \A k \in Numbers : k # n => pc'[k] = pc[k]
  BY Zenon DEF CallStep, Write, WriteFails, Receive, Timeout, StoreHandler, Returns, Goto, TypeOK
<1>6. CASE Write(n)
  <2>1. UNCHANGED <<pend, ch, ret>> /\ pc[n] = "write" /\ inbox' \subseteq Issued
    BY <1>3, <1>6, Zenon DEF Write, Routing, Arrived
  <2>2. Answers'
    <3>1. ~(n > issued)
      BY <1>1, <1>3 DEF Typed, Issued
    <3>2. Answers
      BY Zenon DEF Routing
    <3>. QED  BY <1>2, <1>4, <1>5, <2>1, <3>1, <3>2, Zenon DEF Answers
  <2>3. Waiters'
    BY <1>1, <1>2, <1>4, <1>5, <2>1, Zenon DEF Routing, Waiters, Reachable, Typed
  <2>. QED  BY <1>2, <1>4, <2>1, <2>2, <2>3, Zenon DEF Routing, Pending, Delivering, Arrived
<1>7. CASE StoreHandler(n)
  <2>1. UNCHANGED <<pend, ch, ret, inbox>> /\ pc'[n] = "done"
    BY <1>7, Zenon DEF StoreHandler, Goto, TypeOK, serverVars
  <2>2. Answers'
    <3>1. ~(n > issued)
      BY <1>1, <1>3 DEF Typed, Issued
    <3>2. Answers
      BY Zenon DEF Routing
    <3>. QED  BY <1>2, <1>4, <1>5, <2>1, <3>1, <3>2, Zenon DEF Answers
  <2>3. Waiters'
    BY <1>1, <1>2, <1>4, <1>5, <2>1, Zenon DEF Routing, Waiters, Reachable, Typed
  <2>. QED  BY <1>2, <1>4, <2>1, <2>2, <2>3, Zenon DEF Routing, Pending, Delivering, Arrived
<1>8. ASSUME NEW err, NEW of, Returns(n, err, of),
             of = 0 \/ MayAnswer(of, n), inbox' = inbox,
             \/ UNCHANGED pend
             \/ pend' = [pend EXCEPT ![id[n]] = Nobody],
             \/ UNCHANGED ch
             \/ ch' = [ch EXCEPT ![n] = IF @ = Closed THEN Closed ELSE Empty]
      PROVE  Routing'
  <2>1. pc'[n] \in {"store", "done"}
    BY <1>8, Zenon DEF Returns, Goto, TypeOK
  <2>2. ret'[n].of = of /\ \A k \in Numbers : k # n => ret'[k] = ret[k]
    BY <1>8, Zenon DEF Returns, TypeOK
  <2>3. \A k \in Numbers : /\ k # n => ch'[k] = ch[k]
                           /\ ch[k] = Empty => ch'[k] = Empty
                           /\ ch'[k] = ch[k] \/ ch'[k] = Empty
    BY <1>1, <1>8, Zenon DEF Typed
  <2>4. \A i \in Ids : /\ i # id[n] => pend'[i] = pend[i]
                       /\ pend'[i] = pend[i] \/ pend'[i] = Nobody
    BY <1>1, <1>8, Zenon DEF Typed
  <2>5. Pending'
    BY <1>1, <1>2, <1>4, <2>3, <2>4 DEF Routing, Pending, Typed
  <2>6. Delivering'
    <3>. SUFFICES ASSUME reader = "deliver" PROVE Delivering'
      BY <1>2, Zenon DEF Delivering
    <3>1. MayAnswer(held.of, held.call) /\ held.call \in Numbers
      BY <1>1, Zenon DEF Routing, Delivering, MayAnswer, Typed
    <3>2. held.call # Nobody
      BY <1>1, <3>1, Zenon DEF Typed
    <3>. QED  BY <1>2, <1>4, <2>3, <2>4, <3>1, <3>2, Zenon DEF Routing, Delivering
  <2>7. Answers'
    <3>1. ASSUME NEW k \in Numbers
          PROVE  /\ ch'[k] > 0 => MayAnswer(ch'[k], k)
                 /\ k > issued => pc'[k] = "new" /\ ch'[k] = Empty
      BY <1>1, <1>3, <1>4, <1>5, <2>3, SMTT(30) DEF Routing, Answers, Typed, Issued, Empty
    <3>2. ASSUME NEW k \in Numbers, ret'[k].of # 0
          PROVE  MayAnswer(ret'[k].of, k)
      BY <1>4, <1>8, <2>2, <3>2, Zenon DEF Routing, Answers
    <3>. QED  BY <1>2, <1>4, <3>1, <3>2, Zenon DEF Answers, MayAnswer
  <2>8. Waiters'
    <3>. SUFFICES ASSUME NEW k \in Issued, pc'[k] \in {"write", "wait"}, ch'[k] = Empty
                  PROVE  Reachable(k)'
      BY <1>4, Zenon DEF Waiters
    <3>1. k # n /\ k \in Numbers /\ id[k] \in Ids
      BY <1>1, <2>1, Zenon DEF Typed
    <3>2. pc[k] \in {"write", "wait"} /\ ch[k] = Empty
      BY <1>5, <2>3, <3>1, Zenon
    <3>3. Reachable(k)
      BY <3>2, Zenon DEF Routing, Waiters
    <3>4. id[k] = id[n] => SharesId(k)
      BY <1>3, <3>1, Zenon DEF SharesId
    <3>5. pend[id[k]] = k => SharesId(k) \/ pend'[id[k]] = k
      BY <2>4, <3>1, <3>4, Zenon
    <3>. QED  BY <1>2, <1>4, <3>3, <3>5, Zenon DEF Reachable
  <2>. QED  BY <1>2, <1>4, <1>8, <2>5, <2>6, <2>7, <2>8, Zenon DEF Routing, Arrived
<1>9. CASE WriteFails(n)
  BY <1>8, <1>9, Zenon DEF WriteFails, serverVars
<1>10. CASE Receive(n)
  <2>1. ch[n] # Closed => MayAnswer(ch[n], n)
    BY <1>1, <1>10, Zenon DEF Receive, Routing, Answers, Typed
  <2>2. inbox' = inbox /\ UNCHANGED pend
        /\ ch' = [ch EXCEPT ![n] = IF @ = Closed THEN Closed ELSE Empty]
    BY <1>10, Zenon DEF Receive, serverVars
  <2>3. \/ Returns(n, "failed", 0)
        \/ ch[n] # Closed /\ Returns(n, IF status[ch[n]] = "ERR" THEN "lwp" ELSE "nil", ch[n])
    BY <1>10, Zenon DEF Receive
  <2>. QED  BY <1>8, <2>1, <2>2, <2>3, Zenon
<1>11. CASE Timeout(n)
  BY <1>8, <1>11, Zenon DEF Timeout, serverVars
<1>. QED  BY <1>6, <1>7, <1>9, <1>10, <1>11, Zenon DEF CallStep

\* The first frame of the stream, and what is left of it.
LEMMA StreamFacts ==
    ASSUME TypeOK, Routing, stream # <<>>
    PROVE  /\ Head(stream).type = "RESP" => Head(stream).of \in Issued
           /\ \A k \in 1..Len(Tail(stream)) :
                 Tail(stream)[k].type = "RESP" => Tail(stream)[k].of \in Issued
<1>1. stream \in Seq(Frame) /\ Len(stream) \in Nat /\ Len(stream) > 0
  BY DEF TypeOK
<1>2. Head(stream) = stream[1] /\ Len(Tail(stream)) = Len(stream) - 1
  BY <1>1
<1>3. \A k \in 1..Len(Tail(stream)) : Tail(stream)[k] = stream[k + 1]
  BY <1>1
<1>. QED  BY <1>1, <1>2, <1>3 DEF Routing, Arrived

\* Appending a frame that is not a response to an unknown call.
LEMMA AppendFacts ==
    ASSUME TypeOK, Routing, NEW f \in Frame, f.type = "RESP" => f.of \in Issued
    PROVE  \A k \in 1..Len(Append(stream, f)) :
              Append(stream, f)[k].type = "RESP" => Append(stream, f)[k].of \in Issued
<1>1. stream \in Seq(Frame) /\ Len(stream) \in Nat
  BY DEF TypeOK
<1>. QED  BY <1>1, SMTT(30) DEF Routing, Arrived

\* The steps of readLoop.
LEMMA ReaderRouting ==
    ASSUME TypeOK, Routing, ReaderStep
    PROVE  Routing'
<1>1. Typed
  BY TypedFacts, Zenon
<1>2. UNCHANGED <<id, issued, pc, ret, inbox>>
  BY Zenon DEF ReaderStep, ReadResponse, Deliver, DispatchEvent, ReadFails, Sweep, callVars, serverVars
<1>3. /\ Issued' = Issued
      /\ \A a, b : MayAnswer(a, b)' <=> MayAnswer(a, b)
      /\ \A k : SharesId(k)' <=> SharesId(k)
  BY <1>2, SameNumbers, Zenon
<1>4. CASE ReadResponse
  <2>. DEFINE of == Head(stream).of
              call == pend[id[of]]
  <2>1. of \in Issued /\ of \in Numbers /\ id[of] \in Ids
    BY <1>1, <1>4, StreamFacts, Zenon DEF ReadResponse, Typed
  <2>2. pend' = [pend EXCEPT ![id[of]] = Nobody] /\ UNCHANGED <<ch, swept>>
    BY <1>4, Zenon DEF ReadResponse
  <2>3. \/ call = Nobody /\ UNCHANGED <<reader, held>>
        \/ call # Nobody /\ reader' = "deliver" /\ held' = [call |-> call, of |-> of]
    BY <1>4, Zenon DEF ReadResponse
  <2>4. reader = "read" /\ stream' = Tail(stream) /\ stream # <<>>
    BY <1>4, Zenon DEF ReadResponse
  <2>5. call # Nobody => MayAnswer(of, call) /\ ch[call] = Empty
    BY <1>1, <2>1, Zenon DEF Routing, Pending, MayAnswer
  <2>. HIDE DEF of
  <2>6. \A i \in Ids : pend'[i] = IF i = id[of] THEN Nobody ELSE pend[i]
    BY <1>1, <2>1, <2>2, Zenon DEF Typed
  <2>7. Pending'
    BY <1>2, <1>3, <2>2, <2>6 DEF Routing, Pending
  <2>8. Delivering'
    <3>. SUFFICES ASSUME reader' = "deliver" PROVE Delivering'
      BY Zenon DEF Delivering
    <3>1. call # Nobody /\ held'.call = call /\ held'.of = of
      BY <2>3, <2>4, SMTT(30)
    <3>2. \A i \in Ids : pend'[i] # call
      BY <1>1, <2>1, <2>6, <3>1, SMTT(30) DEF Routing, Pending
    <3>3. MayAnswer(held'.of, held'.call)
      BY <2>5, <3>1, Zenon
    <3>. QED  BY <1>2, <1>3, <2>2, <2>5, <3>1, <3>2, <3>3, Zenon DEF Delivering, MayAnswer
  <2>9. Waiters'
    <3>. SUFFICES ASSUME NEW k \in Issued, pc[k] \in {"write", "wait"}, ch[k] = Empty
                  PROVE  Reachable(k)'
      BY <1>2, <1>3, <2>2, Zenon DEF Waiters
    <3>1. Reachable(k) /\ id[k] \in Ids /\ k # Nobody
      BY <1>1, Zenon DEF Routing, Waiters, Typed
    <3>2. SharesId(k) \/ pend[id[k]] = k
      BY <2>4, <3>1, Zenon DEF Reachable
    <3>3. reader' # "exited"
      BY <2>3, <2>4, Zenon
    <3>4. CASE pend[id[k]] = k /\ id[k] = id[of]
      BY <2>3, <3>1, <3>4, SMTT(30) DEF Reachable
    <3>5. CASE pend[id[k]] = k /\ id[k] # id[of]
      BY <1>2, <2>6, <3>1, <3>3, <3>5, Zenon DEF Reachable
    <3>. QED  BY <1>3, <3>2, <3>4, <3>5, Zenon DEF Reachable
  <2>10. Answers' /\ Arrived'
    BY <1>2, <1>3, <2>2, <2>4, StreamFacts, Zenon DEF Routing, Answers, Arrived
  <2>. QED  BY <1>2, <2>2, <2>7, <2>8, <2>9, <2>10, Zenon DEF Routing
<1>5. CASE Deliver
  <2>1. /\ MayAnswer(held.of, held.call) /\ \A i \in Ids : pend[i] # held.call
        /\ reader = "deliver" /\ reader' = "read"
        /\ ch' = [ch EXCEPT ![held.call] = held.of] /\ UNCHANGED <<pend, swept, stream>>
    BY <1>5, Zenon DEF Deliver, Routing, Delivering
  <2>2. held.call \in Numbers /\ held.of \in Numbers /\ held.of # Empty
    BY <1>1, <2>1, Zenon DEF MayAnswer, Typed, Empty
  <2>3. \A k \in Numbers : ch'[k] = IF k = held.call THEN held.of ELSE ch[k]
    BY <1>1, <2>1, <2>2, Zenon DEF Typed
  <2>4. Pending'
    BY <1>1, <1>2, <1>3, <2>1, <2>3, Zenon DEF Routing, Pending, Typed
  <2>5. Answers'
    <3>1. ASSUME NEW k \in Numbers
          PROVE  /\ ch'[k] > 0 => MayAnswer(ch'[k], k)
                 /\ k > issued => ch'[k] = Empty
      BY <1>1, <2>1, <2>3, SMTT(30) DEF Routing, Answers, MayAnswer, Typed, Issued
    <3>. QED  BY <1>2, <1>3, <3>1, Zenon DEF Routing, Answers, MayAnswer
  <2>6. Waiters'
    <3>. SUFFICES ASSUME NEW k \in Issued, pc[k] \in {"write", "wait"}, ch'[k] = Empty
                  PROVE  Reachable(k)'
      BY <1>2, <1>3, Zenon DEF Waiters
    <3>1. k # held.call /\ ch[k] = Empty
      BY <1>1, <2>2, <2>3, Zenon DEF Typed
    <3>. QED  BY <1>2, <1>3, <2>1, <3>1, Zenon DEF Routing, Waiters, Reachable
  <2>. QED  BY <1>2, <1>3, <2>1, <2>4, <2>5, <2>6, Zenon DEF Routing, Delivering, Arrived
<1>6. CASE DispatchEvent
  <2>1. UNCHANGED <<pend, ch, reader, held, swept>> /\ stream' = Tail(stream) /\ stream # <<>>
    BY <1>6, Zenon DEF DispatchEvent
  <2>2. Arrived'
    BY <1>2, <1>3, <2>1, StreamFacts, Zenon DEF Routing, Arrived
  <2>. QED
    BY <1>2, <1>3, <2>1, <2>2, Zenon DEF Routing, Pending, Delivering, Answers, Waiters, Reachable
<1>7. CASE ReadFails
  <2>1. UNCHANGED <<pend, ch, held, swept, stream>> /\ reader = "read" /\ reader' = "close"
    BY <1>7, Zenon DEF ReadFails
  <2>. QED
    BY <1>2, <1>3, <2>1, Zenon
    DEF Routing, Pending, Delivering, Answers, Waiters, Reachable, Arrived
<1>8. CASE Sweep
  <2>1. /\ reader = "close" /\ reader' = "exited" /\ swept' = issued /\ UNCHANGED stream
        /\ ch' = [k \in Numbers |-> IF \E i \in Ids : pend[i] = k THEN Closed ELSE ch[k]]
        /\ pend' = [i \in Ids |-> Nobody]
    BY <1>8, Zenon DEF Sweep
  <2>2. \A k \in Numbers : ch'[k] = ch[k] \/ ch'[k] = Closed
    BY <2>1, Zenon
  <2>3. Answers'
    <3>1. ASSUME NEW k \in Numbers
          PROVE  /\ ch'[k] > 0 => MayAnswer(ch'[k], k)
                 /\ k > issued => ch'[k] = Empty
      <4>1. k > issued => ch'[k] = ch[k]
        <5>. SUFFICES ASSUME NEW i \in Ids, pend[i] = k PROVE ~(k > issued)
          BY <2>1, Zenon
        <5>. QED  BY <1>1 DEF Routing, Pending, Typed, Issued
      <4>. QED  BY <1>1, <2>2, <4>1, SMTT(30) DEF Routing, Answers, Typed, Closed
    <3>. QED  BY <1>2, <1>3, <3>1, Zenon DEF Routing, Answers, MayAnswer
  <2>4. Waiters'
    <3>. SUFFICES ASSUME NEW k \in Issued, pc[k] \in {"write", "wait"}, ch'[k] = Empty
                  PROVE  SharesId(k)
      BY <1>2, <1>3, Zenon DEF Waiters, Reachable
    <3>1. k \in Numbers /\ id[k] \in Ids
      BY <1>1, Zenon DEF Typed
    <3>2. ch[k] = Empty /\ pend[id[k]] # k
      BY <1>1, <2>1, <3>1, Zenon DEF Typed
    <3>. QED  BY <2>1, <3>2, Zenon DEF Routing, Waiters, Reachable
  <2>5. Pending' /\ Delivering'
    BY <2>1, Zenon DEF Pending, Delivering
  <2>. QED  BY <1>1, <1>2, <1>3, <2>1, <2>3, <2>4, <2>5, SMTT(30) DEF Routing, Arrived, Typed
<1>. QED  BY <1>4, <1>5, <1>6, <1>7, <1>8, Zenon DEF ReaderStep

\* The steps of the server, the network and the handlers.
LEMMA EnvironmentRouting ==
    ASSUME TypeOK, Routing,
           \/ ServerStep
           \/ Break
           \/ \E h \in handlers : HandlerRuns(h)
           \/ UNCHANGED vars
    PROVE  Routing'
<1>1. UNCHANGED <<id, issued, pend, ch, pc, ret, reader, held, swept, inbox>>
  BY Zenon DEF ServerStep, Answer, Push, Break, HandlerRuns, vars, callVars,
         serverVars
<1>2. /\ Issued' = Issued
      /\ \A a, b : MayAnswer(a, b)' <=> MayAnswer(a, b)
      /\ \A k : SharesId(k)' <=> SharesId(k)
  BY <1>1, SameNumbers, Zenon
<1>3. \/ UNCHANGED stream
      \/ \E f \in Frame : /\ f.type = "RESP" => f.of \in Issued
                          /\ stream' = Append(stream, f)
  <2>1. ASSUME NEW n \in Numbers, NEW st, Answer(n, st)
        PROVE  \E f \in Frame : /\ f.type = "RESP" => f.of \in Issued
                                /\ stream' = Append(stream, f)
    <3>. DEFINE f == [type |-> "RESP", of |-> n, event |-> 0]
    <3>1. f \in Frame /\ f.of \in Issued /\ stream' = Append(stream, f)
      BY <2>1, ConnectionAssumption DEF Answer, Frame, Pushes, Short, Routing, Arrived
    <3>. QED  BY <3>1, Zenon
  <2>2. ASSUME NEW watch \in Numbers, NEW event \in Pushes, Push(watch, event)
        PROVE  \E f \in Frame : /\ f.type = "RESP" => f.of \in Issued
                                /\ stream' = Append(stream, f)
    <3>. DEFINE f == [type |-> "EVENT", of |-> watch, event |-> event]
    <3>1. f \in Frame /\ f.type # "RESP" /\ stream' = Append(stream, f)
      BY <2>2, Zenon DEF Push, Frame
    <3>. QED  BY <3>1, Zenon
  <2>. QED
    BY <2>1, <2>2, Zenon DEF ServerStep, Break, HandlerRuns, vars
<1>4. Arrived'
  BY <1>1, <1>2, <1>3, AppendFacts, Zenon DEF Routing, Arrived
<1>. QED
  BY <1>1, <1>2, <1>4, Zenon DEF Routing, Pending, Delivering, Answers, Waiters, Reachable

\* The invariant holds in every reachable state of the connection.
THEOREM ConnectionInvariance == Spec => []ConnectionInv
<1>1. Init => ConnectionInv
  BY InitConnectionInv, Zenon
<1>2. ConnectionInv /\ [Next]_vars => ConnectionInv'
  <2>. SUFFICES ASSUME ConnectionInv, [Next]_vars PROVE ConnectionInv'
    BY Zenon
  <2>1. TypeOK /\ Window /\ Spaced /\ Routing
    BY Zenon DEF ConnectionInv, Routing
  <2>2. TypeOK' /\ Window' /\ Spaced'
    BY <2>1, TypeStep, NumberingStep, Zenon
  <2>3. Routing'
    BY Zenon, <2>1, RegisterFacts, NumberedRouting, CallRouting, ReaderRouting,
       EnvironmentRouting DEF Next
  <2>. QED  BY <2>2, <2>3, Zenon DEF ConnectionInv, Routing
<1>. QED  BY <1>1, <1>2, PTL DEF Spec

\* do() returns the response to its own request, or to one that is at least
\* the whole id space older.
THEOREM Correlation == Spec => []ResponseMatchesRequest
<1>1. ConnectionInv => ResponseMatchesRequest
  <2>. SUFFICES ASSUME ConnectionInv, NEW n \in Numbers, ret[n].of # 0
                PROVE  ret[n].of = n \/ ret[n].of + IdSpace <= n
    BY Zenon DEF ResponseMatchesRequest
  <2>1. MayAnswer(ret[n].of, n)
    BY Zenon DEF ConnectionInv, Answers
  <2>2. issued \in Nat
    BY TypedFacts, Zenon DEF ConnectionInv, Typed
  <2>. QED  BY <2>1, <2>2 DEF ConnectionInv, Spaced, MayAnswer, Issued
<1>. QED  BY <1>1, ConnectionInvariance, PTL

\* A connection that makes no more calls than there are request ids never mixes
\* up two responses, whatever times out.
THEOREM OwnResponse == ASSUME MaxRequests <= IdSpace PROVE Spec => []OwnResponses
<1>1. TypeOK /\ ResponseMatchesRequest => OwnResponses
  <2>. SUFFICES ASSUME TypeOK, ResponseMatchesRequest, NEW n \in Numbers, ret[n].of # 0
                PROVE  ret[n].of = n
    BY Zenon DEF OwnResponses
  <2>1. ret[n].of \in Slots
    BY Zenon DEF TypeOK
  <2>2. ret[n].of = n \/ ret[n].of + IdSpace <= n
    BY Zenon DEF ResponseMatchesRequest
  <2>. QED  BY <2>1, <2>2, ConnectionAssumption DEF Slots, Numbers
<1>2. ConnectionInv => TypeOK
  BY Zenon DEF ConnectionInv
<1>. QED  BY <1>1, <1>2, Correlation, ConnectionInvariance, PTL

\* The reader never blocks on a channel and never sends on a closed one.
THEOREM ReaderNeverBlocks == Spec => []ReaderCanDeliver
<1>1. ConnectionInv => ReaderCanDeliver
  BY Zenon DEF ConnectionInv, Delivering, ReaderCanDeliver
<1>. QED  BY <1>1, ConnectionInvariance, PTL

\* The sweep of a broken connection wakes every call that is not cut off by
\* another call with the same id.
THEOREM SweepComplete == Spec => []SweepReachesEveryone
<1>1. ConnectionInv => SweepReachesEveryone
  <2>. SUFFICES ASSUME ConnectionInv, reader = "exited", NEW n \in Numbers,
                       pc[n] = "wait", ch[n] = Empty
                PROVE  n > swept \/ \E m \in 1..issued : m # n /\ id[m] = id[n]
    BY Zenon DEF SweepReachesEveryone
  <2>1. n \in Issued
    BY TypedFacts, SMTT(30) DEF ConnectionInv, Answers, Typed, Issued
  <2>. QED  BY <2>1, Zenon DEF ConnectionInv, Waiters, Reachable, SharesId, Issued
<1>. QED  BY <1>1, ConnectionInvariance, PTL

-----------------------------------------------------------------------------
\* Registering a call keeps the subscriptions: Unwatch takes a handler out
\* and is remembered by its request.
LEMMA WatchRegister ==
    ASSUME TypeOK, Answers, WatchInv, NEW kind \in Ops, NEW watch \in Numbers, Register(kind, watch)
    PROVE  WatchInv'
<1>. DEFINE n == issued + 1
<1>1. /\ n \in Numbers /\ issued' = n /\ Issued \subseteq Numbers
      /\ n \notin Issued /\ n \in Issued' /\ Issued \subseteq Issued'
      /\ \A k \in Issued' : k = n \/ k \in Issued
  <2>1. issued \in Nat /\ issued \in Slots
    BY TypedFacts, Zenon DEF Typed, TypeOK
  <2>2. n \in Numbers /\ issued' = n
    BY RegisterFacts, Zenon DEF Numbered
  <2>3. Issued = 1..issued /\ Issued' = 1..n
    BY <2>2, Zenon DEF Issued
  <2>4. /\ 1..issued \subseteq Numbers /\ n \notin 1..issued /\ n \in 1..n
        /\ 1..issued \subseteq 1..n /\ \A k \in 1..n : k = n \/ k \in 1..issued
    BY <2>1, <2>2, ConnectionAssumption DEF Numbers
  <2>. HIDE DEF n
  <2>. QED  BY <2>2, <2>3, <2>4, Zenon
<1>2. /\ asks \in [Numbers -> Ops] /\ target \in [Numbers -> Slots] /\ subs \in [Numbers -> Slots]
      /\ pc \in [Numbers -> {"new", "write", "wait", "store", "done"}]
  BY Zenon DEF TypeOK
<1>3. /\ asks' = [asks EXCEPT ![n] = kind] /\ pc' = [pc EXCEPT ![n] = "write"]
      /\ ret' = ret /\ stream' = stream /\ watches' = watches
      /\ \/ /\ kind = "unwatch" /\ subs' = [subs EXCEPT ![watch] = Nobody]
            /\ target' = [target EXCEPT ![n] = watch]
         \/ subs' = subs /\ target' = target
  BY Zenon DEF Register, Goto, serverVars
<1>. HIDE DEF n
<1>4. \A k \in Issued : asks'[k] = asks[k] /\ pc'[k] = pc[k] /\ target'[k] = target[k]
  BY <1>1, <1>2, <1>3, Zenon
<1>5. ret[n].of = 0
  BY <1>1, Zenon DEF Answers, MayAnswer
<1>6. ASSUME NEW w, Unwatched(w) PROVE Unwatched(w)'
  BY <1>1, <1>4, <1>6, Zenon DEF Unwatched, Issued
<1>7. ASSUME NEW w \in Numbers PROVE subs'[w] = subs[w] \/ Unwatched(w)'
  <2>1. CASE /\ kind = "unwatch" /\ subs' = [subs EXCEPT ![watch] = Nobody]
             /\ target' = [target EXCEPT ![n] = watch]
    <3>1. n \in 1..issued' /\ asks'[n] = "unwatch" /\ target'[n] = watch
      BY <1>1, <1>2, <1>3, <2>1, Zenon DEF Issued
    <3>2. Unwatched(watch)'
      BY <3>1, Zenon DEF Unwatched
    <3>. QED  BY <1>2, <2>1, <3>2, Zenon
  <2>. QED  BY <1>3, <2>1, Zenon
<1>8. ASSUME NEW w, IsWatch(w) PROVE IsWatch(w)'
  BY <1>1, <1>4, <1>8, Zenon DEF IsWatch
<1>9. ASSUME NEW w \in Numbers, IsWatch(w)', ret'[w].err = "nil", ret'[w].of = w
      PROVE  Subscribed(w)'
  <2>1. w # n
    <3>1. 0 \notin Numbers
      BY DEF Numbers
    <3>. QED  BY <1>3, <1>5, <1>9, <3>1, Zenon
  <2>2. w \in Issued /\ IsWatch(w)
    BY <1>1, <1>4, <1>9, <2>1, Zenon DEF IsWatch
  <2>3. Subscribed(w)
    BY <1>3, <1>9, <2>2, Zenon DEF WatchInv
  <2>. QED  BY <1>4, <1>6, <1>7, <2>2, <2>3, Zenon DEF Subscribed
<1>. QED  BY <1>3, <1>8, <1>9, Zenon DEF WatchInv

\* The other steps leave the requests of the calls alone.
LEMMA SameRequests ==
    ASSUME UNCHANGED <<issued, asks, target>>
    PROVE  /\ \A w : IsWatch(w)' <=> IsWatch(w)
           /\ \A w : Unwatched(w)' <=> Unwatched(w)
BY Zenon DEF IsWatch, Unwatched, Issued

\* The steps of a call: Watch goes to store its handler as it returns.
LEMMA WatchCall ==
    ASSUME TypeOK, WatchInv, NEW n \in Numbers, CallStep(n)
    PROVE  WatchInv'
<1>1. UNCHANGED <<issued, asks, target, stream, watches>>
  BY Zenon DEF CallStep, Write, WriteFails, Receive, Timeout, StoreHandler, Returns, serverVars
<1>2. /\ \A w : IsWatch(w)' <=> IsWatch(w)
      /\ \A w : Unwatched(w)' <=> Unwatched(w)
  BY <1>1, SameRequests, Zenon
<1>3. /\ pc \in [Numbers -> {"new", "write", "wait", "store", "done"}]
      /\ ret \in [Numbers -> [err : Errors, of : Slots]] /\ subs \in [Numbers -> Slots]
  BY Zenon DEF TypeOK
<1>4. ASSUME NEW w \in Numbers, IsWatch(w), ret'[w].err = "nil", ret'[w].of = w
      PROVE  Subscribed(w)'
  <2>1. CASE Write(n)
    <3>1. ret' = ret /\ subs' = subs /\ (pc[w] = "store" => pc'[w] = "store")
      BY <1>3, <2>1, Zenon DEF Write, Goto
    <3>. QED  BY <1>2, <1>4, <3>1, Zenon DEF WatchInv, Subscribed
  <2>2. CASE pc[n] \in {"write", "wait"} /\ subs' = subs /\ \E err, of : Returns(n, err, of)
    <3>1. PICK err, of : Returns(n, err, of)
      BY <2>2, Zenon
    <3>2. CASE w = n
      <4>1. /\ ret'[n] = [err |-> err, of |-> of]
            /\ pc'[n] = IF asks[n] = "watch" /\ err = "nil" THEN "store" ELSE "done"
        BY <1>3, <3>1, Zenon DEF Returns, Goto
      <4>2. err = "nil"
        BY <1>4, <3>2, <4>1
      <4>. QED  BY <1>4, <3>2, <4>1, <4>2, Zenon DEF IsWatch, Subscribed
    <3>3. CASE w # n
      <4>1. ret'[w] = ret[w] /\ pc'[w] = pc[w]
        BY <1>3, <3>1, <3>3, Zenon DEF Returns, Goto
      <4>. QED  BY <1>2, <1>4, <2>2, <4>1, Zenon DEF WatchInv, Subscribed
    <3>. QED  BY <3>2, <3>3, Zenon
  <2>3. CASE StoreHandler(n)
    <3>1. ret' = ret /\ Subscribed(w)
      BY <1>4, <2>3, Zenon DEF StoreHandler, WatchInv
    <3>2. n \notin {0} /\ Nobody = 0
      BY DEF Numbers, Nobody
    <3>3. CASE w = n
      <4>1. asks[ret[n].of] = "watch" /\ ret[n].of = n
        BY <1>4, <3>1, <3>3, Zenon DEF IsWatch
      <4>2. subs'[w] = n
        BY <1>3, <2>3, <3>3, <4>1, Zenon DEF StoreHandler
      <4>. QED  BY <3>2, <4>2, Zenon DEF Subscribed
    <3>4. CASE w # n
      <4>1. pc'[w] = pc[w] /\ (subs'[w] = subs[w] \/ subs'[w] = n)
        BY <1>3, <2>3, <3>4, Zenon DEF StoreHandler, Goto
      <4>. QED  BY <1>2, <3>1, <3>2, <4>1, Zenon DEF Subscribed
    <3>. QED  BY <3>3, <3>4, Zenon
  <2>. QED  BY <2>1, <2>2, <2>3, Zenon DEF CallStep, WriteFails, Receive, Timeout
<1>. QED  BY <1>1, <1>2, <1>4, Zenon DEF WatchInv

\* A frame is taken off the stream, or put on it.
LEMMA WatchStream ==
    ASSUME TypeOK, WatchInv
    PROVE  /\ stream # <<>> =>
                /\ Head(stream).type = "EVENT" => IsWatch(Head(stream).of)
                /\ \A k \in 1..Len(Tail(stream)) :
                      Tail(stream)[k].type = "EVENT" => IsWatch(Tail(stream)[k].of)
           /\ \A f \in Frame : (f.type = "EVENT" => IsWatch(f.of)) =>
                \A k \in 1..Len(Append(stream, f)) :
                      Append(stream, f)[k].type = "EVENT" => IsWatch(Append(stream, f)[k].of)
<1>1. stream \in Seq(Frame) /\ Len(stream) \in Nat
  BY DEF TypeOK
<1>2. \A k \in 1..Len(stream) : stream[k].type = "EVENT" => IsWatch(stream[k].of)
  BY Zenon DEF WatchInv
<1>3. ASSUME stream # <<>>
      PROVE  /\ 1 \in 1..Len(stream) /\ Head(stream) = stream[1]
             /\ \A k \in 1..Len(Tail(stream)) : k + 1 \in 1..Len(stream) /\ Tail(stream)[k] = stream[k + 1]
  BY <1>1, <1>3
<1>4. ASSUME NEW f \in Frame, NEW k \in 1..Len(Append(stream, f))
      PROVE  \/ k \in 1..Len(stream) /\ Append(stream, f)[k] = stream[k]
             \/ Append(stream, f)[k] = f
  BY <1>1
<1>5. ASSUME NEW f \in Frame, f.type = "EVENT" => IsWatch(f.of), NEW k \in 1..Len(Append(stream, f)),
             Append(stream, f)[k].type = "EVENT"
      PROVE  IsWatch(Append(stream, f)[k].of)
  BY <1>2, <1>4, <1>5, Zenon
<1>. QED  BY <1>2, <1>3, <1>5, Zenon

\* The reader, the server and the handlers do not touch the subscriptions.
LEMMA WatchOthers ==
    ASSUME TypeOK, Arrived, WatchInv,
           \/ ReaderStep
           \/ ServerStep
           \/ Break
           \/ \E h \in handlers : HandlerRuns(h)
           \/ UNCHANGED vars
    PROVE  WatchInv'
<1>1. UNCHANGED <<issued, asks, target, pc, ret, subs>>
  BY Zenon DEF ReaderStep, ReadResponse, Deliver, DispatchEvent, ReadFails, Sweep, ServerStep, Answer,
         Push, Break, HandlerRuns, vars, callVars
<1>2. /\ \A w : IsWatch(w)' <=> IsWatch(w)
      /\ \A w : Unwatched(w)' <=> Unwatched(w)
  BY <1>1, SameRequests, Zenon
<1>3. /\ \A w \in watches' : IsWatch(w)
      /\ \/ stream' = stream
         \/ stream # <<>> /\ stream' = Tail(stream)
         \/ \E f \in Frame : (f.type = "EVENT" => IsWatch(f.of)) /\ stream' = Append(stream, f)
  <2>0. \A w \in watches : IsWatch(w)
    BY Zenon DEF WatchInv
  <2>1. CASE ReaderStep
    BY <2>0, <2>1, Zenon DEF ReaderStep, ReadResponse, Deliver, DispatchEvent, ReadFails, Sweep, serverVars
  <2>2. ASSUME NEW n \in Numbers, NEW st \in {"OK", "ERR"}, Answer(n, st)
        PROVE  /\ \A w \in watches' : IsWatch(w)
               /\ \E f \in Frame : (f.type = "EVENT" => IsWatch(f.of)) /\ stream' = Append(stream, f)
    <3>. DEFINE f == [type |-> "RESP", of |-> n, event |-> 0]
    <3>1. 0 \in Pushes
      BY ConnectionAssumption DEF Pushes, Short
    <3>2. f \in Frame /\ f.type # "EVENT" /\ stream' = Append(stream, f)
      BY <2>2, <3>1, Zenon DEF Answer, Frame
    <3>3. n \in Issued
      BY <2>2, Zenon DEF Answer, Arrived
    <3>4. \A w \in watches' : w \in watches \/ (w = n /\ asks[n] = "watch")
      BY <2>2, Zenon DEF Answer
    <3>. HIDE DEF f
    <3>. QED  BY <2>0, <3>2, <3>3, <3>4, Zenon DEF IsWatch
  <2>3. ASSUME NEW watch \in Numbers, NEW event \in Pushes, Push(watch, event)
        PROVE  /\ \A w \in watches' : IsWatch(w)
               /\ \E f \in Frame : (f.type = "EVENT" => IsWatch(f.of)) /\ stream' = Append(stream, f)
    <3>. DEFINE f == [type |-> "EVENT", of |-> watch, event |-> event]
    <3>1. f \in Frame /\ f.of = watch /\ stream' = Append(stream, f)
      BY <2>3, Zenon DEF Push, Frame
    <3>2. watches' = watches /\ watch \in watches
      BY <2>3, Zenon DEF Push
    <3>. HIDE DEF f
    <3>. QED  BY <2>0, <3>1, <3>2, Zenon
  <2>4. CASE Break \/ (\E h \in handlers : HandlerRuns(h)) \/ UNCHANGED vars
    BY <2>0, <2>4, Zenon DEF Break, HandlerRuns, vars, serverVars
  <2>. QED  BY <2>1, <2>2, <2>3, <2>4, Zenon DEF ServerStep
<1>4. \A k \in 1..Len(stream') : stream'[k].type = "EVENT" => IsWatch(stream'[k].of)
  BY <1>3, WatchStream, Zenon DEF WatchInv
<1>5. ASSUME NEW w \in Numbers, IsWatch(w), ret'[w].err = "nil", ret'[w].of = w
      PROVE  Subscribed(w)'
  BY <1>1, <1>2, <1>5, Zenon DEF WatchInv, Subscribed
<1>. QED  BY <1>2, <1>3, <1>4, <1>5, Zenon DEF WatchInv

\* A Watch that was given its own watch id has its handler stored until
\* Unwatch, but for the moment between its response and the store.
THEOREM WatchInvariance == Spec => []WatchInv
<1>1. Init => WatchInv
  BY SMTT(30) DEF Init, WatchInv, NotReturned, IsWatch, Issued
<1>2. ConnectionInv /\ WatchInv /\ [Next]_vars => WatchInv'
  <2>. SUFFICES ASSUME ConnectionInv, WatchInv, [Next]_vars PROVE WatchInv'
    BY Zenon
  <2>1. TypeOK /\ Answers /\ Arrived
    BY Zenon DEF ConnectionInv
  <2>. QED  BY <2>1, WatchRegister, WatchCall, WatchOthers, Zenon DEF Next
<1>. QED  BY <1>1, <1>2, ConnectionInvariance, PTL DEF Spec

\* dispatchEvent misses an event only before Watch has stored its handler:
\* after Watch returned and before Unwatch, no event goes unhandled.
THEOREM MissedAreEarly == Spec => OnlyEarlyEventsAreMissed
<1>. DEFINE Early == \A m \in missed' \ missed :
                        ret[m.watch].err = "nil" /\ ret[m.watch].of = m.watch => pc[m.watch] = "store"
<1>1. ConnectionInv /\ WatchInv /\ [Next]_vars => [Early]_vars
  <2>. SUFFICES ASSUME ConnectionInv, WatchInv, Next, NEW m \in missed' \ missed,
                       ret[m.watch].err = "nil", ret[m.watch].of = m.watch
                PROVE  pc[m.watch] = "store"
    BY Zenon
  <2>1. DispatchEvent
    BY Zenon DEF Next, Register, CallStep, Write, WriteFails, Receive, Timeout, StoreHandler, ReaderStep,
           ReadResponse, Deliver, ReadFails, Sweep, ServerStep, Answer, Push, Break, HandlerRuns,
           eventVars
  <2>2. PICK w : w = Head(stream).of
    OBVIOUS
  <2>3. subs[w] = Nobody /\ ~Unwatched(w) /\ m.watch = w /\ Head(stream).type = "EVENT" /\ stream # <<>>
    <3>1. PICK e : e = Head(stream).event
      OBVIOUS
    <3>2. /\ subs[w] = Nobody /\ ~Unwatched(w) /\ Head(stream).type = "EVENT" /\ stream # <<>>
          /\ missed' = missed \cup {[watch |-> w, event |-> e]}
      BY <2>1, <2>2, <3>1, Zenon DEF DispatchEvent, eventVars
    <3>3. m = [watch |-> w, event |-> e]
      BY <3>2, Zenon
    <3>4. m.watch = w
      BY <3>3
    <3>. QED  BY <3>2, <3>4, Zenon
  <2>4. IsWatch(w) /\ w \in Numbers
    <3>1. IsWatch(w)
      BY <2>2, <2>3, WatchStream, Zenon DEF ConnectionInv
    <3>. QED  BY <3>1, TypedFacts, Zenon DEF ConnectionInv, Typed, IsWatch
  <2>5. Subscribed(w)
    BY <2>3, <2>4, Zenon DEF WatchInv
  <2>. QED  BY <2>3, <2>5, Zenon DEF Subscribed
<1>2. [][Early]_vars => OnlyEarlyEventsAreMissed
  BY Zenon DEF OnlyEarlyEventsAreMissed
<1>. QED  BY <1>1, <1>2, ConnectionInvariance, WatchInvariance, PTL DEF Spec

-----------------------------------------------------------------------------
\* The copies of the responses, without the calls.
Copies == SentOnce /\ OneHolder /\ OnePlace

\* A step that moves no response keeps the copies.
LEMMA SameCopies ==
    ASSUME Copies, UNCHANGED <<stream, reader, held, ch, status>>,
           \A n \in Numbers : ret'[n].of = ret[n].of
    PROVE  Copies'
<1>1. \A m : /\ OnWire(m)' <=> OnWire(m)
             /\ WithReader(m)' <=> WithReader(m)
             /\ Queued(m)' <=> Queued(m)
             /\ Taken(m)' <=> Taken(m)
  BY Zenon DEF OnWire, WithReader, Queued, Taken
<1>2. SentOnce' /\ OneHolder'
  BY Zenon DEF Copies, SentOnce, OneHolder
<1>3. OnePlace'
  BY <1>1, Zenon DEF Copies, OnePlace
<1>. QED  BY <1>2, <1>3, Zenon DEF Copies

\* A call is open from its registration until it returns.
LEMMA OpenCallsStep ==
    ASSUME TypeOK, OpenCalls, [Next]_vars
    PROVE  OpenCalls'
<1>1. ASSUME NEW kind \in Ops, NEW watch \in Numbers, Register(kind, watch) PROVE OpenCalls'
  <2>1. Numbered /\ Typed
    BY <1>1, RegisterFacts, TypedFacts, Zenon
  <2>2. ASSUME NEW k \in Numbers
        PROVE  /\ pc'[k] = "new" <=> k > issued'
               /\ pc'[k] \in {"new", "write", "wait"} => ret[k].of = 0
    <3>1. CASE k = issued + 1
      <4>1. pc'[k] = "write" /\ issued' = k
        BY <2>1, <3>1, Zenon DEF Numbered, TypeOK
      <4>2. k > issued /\ ~(k > k)
        BY <2>1, <3>1 DEF Typed
      <4>. QED  BY <4>1, <4>2, Zenon DEF OpenCalls
    <3>2. CASE k # issued + 1
      <4>1. pc'[k] = pc[k] /\ issued' = issued + 1
        BY <2>1, <3>2, Zenon DEF Numbered, TypeOK
      <4>2. k > issued <=> k > issued + 1
        BY <2>1, <3>2 DEF Typed
      <4>. QED  BY <4>1, <4>2, Zenon DEF OpenCalls
    <3>. QED  BY <3>1, <3>2, Zenon
  <2>3. ret' = ret
    BY <2>1, Zenon DEF Numbered
  <2>. QED  BY <2>2, <2>3, Zenon DEF OpenCalls
<1>2. ASSUME NEW n \in Numbers, CallStep(n) PROVE OpenCalls'
  <2>1. /\ issued' = issued /\ pc[n] # "new" /\ pc'[n] # "new"
        /\ \A k \in Numbers : k # n => pc'[k] = pc[k] /\ ret'[k] = ret[k]
    BY <1>2, Zenon DEF CallStep, Write, WriteFails, Receive, Timeout, StoreHandler, Returns, Goto, TypeOK
  <2>2. pc'[n] \in {"store", "done"} \/ (ret' = ret /\ pc[n] = "write")
    BY <1>2, Zenon DEF CallStep, Write, WriteFails, Receive, Timeout, StoreHandler, Returns, Goto, TypeOK
  <2>. QED  BY <2>1, <2>2, Zenon DEF OpenCalls
<1>3. CASE UNCHANGED <<pc, ret, issued>>
  BY <1>3, Zenon DEF OpenCalls
<1>4. CASE ReaderStep
  BY <1>3, <1>4, Zenon DEF ReaderStep, ReadResponse, Deliver, DispatchEvent, ReadFails, Sweep, callVars
<1>5. CASE ServerStep \/ Break
  BY <1>3, <1>5, Zenon DEF ServerStep, Answer, Push, Break, callVars
<1>6. CASE (\E h \in handlers : HandlerRuns(h)) \/ UNCHANGED vars
  BY <1>3, <1>6, Zenon DEF HandlerRuns, vars, callVars
<1>. QED  BY <1>1, <1>2, <1>4, <1>5, <1>6, Zenon DEF Next

\* do() takes a response out of its channel; its other ways to return carry
\* none.
LEMMA CallCopies ==
    ASSUME TypeOK, OpenCalls, Copies, NEW n \in Numbers, CallStep(n)
    PROVE  Copies'
<1>1. UNCHANGED <<stream, reader, held, status>> /\ Typed
  BY TypedFacts, Zenon DEF CallStep, Write, WriteFails, Receive, Timeout, StoreHandler, serverVars, Returns
<1>2. ASSUME NEW err, NEW of, Returns(n, err, of)
      PROVE  ret'[n].of = of /\ \A k \in Numbers : k # n => ret'[k].of = ret[k].of
  <2>1. ret'[n] = [err |-> err, of |-> of] /\ \A k \in Numbers : k # n => ret'[k] = ret[k]
    BY <1>2, Zenon DEF Returns, TypeOK
  <2>. QED  BY <2>1
<1>3. CASE Write(n) \/ StoreHandler(n)
  <2>1. UNCHANGED <<ch, ret>>
    BY <1>3, Zenon DEF Write, StoreHandler
  <2>. QED  BY <1>1, <2>1, SameCopies, Zenon
<1>4. CASE WriteFails(n) \/ Timeout(n)
  <2>1. UNCHANGED ch /\ ret[n].of = 0 /\ \E err : Returns(n, err, 0)
    BY <1>4, Zenon DEF WriteFails, Timeout, OpenCalls
  <2>2. \A k \in Numbers : ret'[k].of = ret[k].of
    BY <1>2, <2>1, Zenon
  <2>. QED  BY <1>1, <2>1, <2>2, SameCopies, Zenon
<1>5. CASE Receive(n) /\ ch[n] = Closed
  <2>1. ret[n].of = 0 /\ Returns(n, "failed", 0) /\ ch' = [ch EXCEPT ![n] = Closed]
    BY <1>5, Zenon DEF Receive, OpenCalls
  <2>2. ch' = ch
    BY <1>1, <1>5, <2>1, Zenon DEF Typed
  <2>3. \A k \in Numbers : ret'[k].of = ret[k].of
    BY <1>2, <2>1, Zenon
  <2>. QED  BY <1>1, <2>2, <2>3, SameCopies, Zenon
<1>6. CASE Receive(n) /\ ch[n] # Closed
  <2>1. PICK o : o = ch[n]
    OBVIOUS
  <2>2. o \in Numbers
    <3>1. ch[n] \in ChannelStates /\ ch[n] # Closed /\ ch[n] # Empty
      BY <1>1, <1>6, Zenon DEF Receive, Typed
    <3>. QED  BY <2>1, <3>1, SlotFacts, Zenon DEF Empty
  <2>3. ret'[n].of = o /\ \A k \in Numbers : k # n => ret'[k].of = ret[k].of
    BY <1>2, <1>6, <2>1, Zenon DEF Receive
  <2>4. ch'[n] = Empty /\ \A k \in Numbers : k # n => ch'[k] = ch[k]
    BY <1>1, <1>6, Zenon DEF Receive, Typed
  <2>5. Empty \notin Numbers
    BY DEF Empty, Numbers
  <2>6. ~OnWire(o) /\ ~WithReader(o) /\ ~Taken(o) /\ status[o] # "none"
    BY <2>1, <2>2, Zenon DEF Copies, OnePlace, Queued
  <2>7. \A m \in Numbers : /\ OnWire(m)' <=> OnWire(m)
                           /\ WithReader(m)' <=> WithReader(m)
    BY <1>1, Zenon DEF OnWire, WithReader
  <2>8. ASSUME NEW m \in Numbers, Queued(m)' PROVE Queued(m) /\ m # o
    <3>1. PICK k \in Numbers : ch'[k] = m
      BY <2>8, Zenon DEF Queued
    <3>2. k # n /\ ch[k] = m
      BY <2>4, <2>5, <3>1, Zenon
    <3>. QED  BY <2>1, <3>2, Zenon DEF Queued, Copies, OneHolder
  <2>9. ASSUME NEW m \in Numbers, Taken(m)' PROVE Taken(m) \/ m = o
    BY <2>3, <2>9, Zenon DEF Taken
  <2>10. OnePlace'
    <3>1. ASSUME NEW m \in Numbers
          PROVE  /\ OnWire(m)' => ~WithReader(m)' /\ ~Queued(m)' /\ ~Taken(m)'
                 /\ WithReader(m)' => ~Queued(m)' /\ ~Taken(m)'
                 /\ Queued(m)' => ~Taken(m)'
                 /\ OnWire(m)' \/ WithReader(m)' \/ Queued(m)' \/ Taken(m)' => status[m] # "none"
      BY <2>6, <2>7, <2>8, <2>9, Zenon DEF Copies, OnePlace
    <3>. QED  BY <1>1, <3>1, Zenon DEF OnePlace
  <2>11. OneHolder'
    <3>1. ASSUME NEW a \in Numbers, NEW b \in Numbers, ch'[a] \in Numbers, ch'[a] = ch'[b]
          PROVE  a = b
      <4>1. a # n /\ b # n
        BY <2>4, <2>5, <3>1, Zenon
      <4>2. ch[a] \in Numbers /\ ch[a] = ch[b]
        BY <2>4, <3>1, <4>1, Zenon
      <4>. QED  BY <4>2, Zenon DEF Copies, OneHolder
    <3>2. ASSUME NEW a \in Numbers, NEW b \in Numbers, ret'[a].of \in Numbers, ret'[a].of = ret'[b].of
          PROVE  a = b
      <4>1. \A k \in Numbers : ret[k].of # o
        BY <2>6, Zenon DEF Taken
      <4>2. CASE a = n \/ b = n
        BY <2>3, <3>2, <4>1, <4>2, Zenon
      <4>3. CASE a # n /\ b # n
        <5>1. ret[a].of \in Numbers /\ ret[a].of = ret[b].of
          BY <2>3, <3>2, <4>3, Zenon
        <5>. QED  BY <5>1, Zenon DEF Copies, OneHolder
      <4>. QED  BY <4>2, <4>3, Zenon
    <3>. QED  BY <3>1, <3>2, Zenon DEF OneHolder
  <2>12. SentOnce'
    BY <1>1, Zenon DEF Copies, SentOnce
  <2>. QED  BY <2>10, <2>11, <2>12, Zenon DEF Copies
<1>. QED  BY <1>3, <1>4, <1>5, <1>6, Zenon DEF CallStep


\* The first frame of the stream, if it is a response, is the only copy of it.
LEMMA HeadCopy ==
    ASSUME TypeOK, Copies, stream # <<>>, stream' = Tail(stream)
    PROVE  /\ SentOnce'
           /\ \A m \in Numbers : OnWire(m)' => OnWire(m)
           /\ \A o : Head(stream).type = "RESP" /\ o = Head(stream).of =>
                    o \in Numbers /\ OnWire(o) /\ ~OnWire(o)'
<1>1. stream \in Seq(Frame) /\ Len(stream) \in Nat
  BY DEF TypeOK
<1>2. /\ 1 \in 1..Len(stream) /\ Head(stream) = stream[1] /\ Head(stream) \in Frame
      /\ Len(Tail(stream)) \in Nat
      /\ \A k \in 1..Len(Tail(stream)) :
            k + 1 \in 1..Len(stream) /\ k + 1 # 1 /\ Tail(stream)[k] = stream[k + 1]
  BY <1>1
<1>3. \A j, k \in 1..Len(Tail(stream)) : j + 1 = k + 1 => j = k
  BY <1>2
<1>4. SentOnce'
  <2>1. ASSUME NEW j \in 1..Len(Tail(stream)), NEW k \in 1..Len(Tail(stream)),
               Tail(stream)[j].type = "RESP", Tail(stream)[k].type = "RESP",
               Tail(stream)[j].of = Tail(stream)[k].of
        PROVE  j + 1 = k + 1
    BY <1>2, <2>1, Zenon DEF Copies, SentOnce
  <2>. QED  BY <1>3, <2>1, Zenon DEF SentOnce
<1>5. \A m \in Numbers : OnWire(m)' => OnWire(m)
  BY <1>2, Zenon DEF OnWire
<1>6. ASSUME NEW o, Head(stream).type = "RESP", o = Head(stream).of
      PROVE  o \in Numbers /\ OnWire(o) /\ ~OnWire(o)'
  <2>1. o \in Numbers
    BY <1>2, <1>6, Zenon DEF Frame
  <2>2. OnWire(o)
    BY <1>2, <1>6, Zenon DEF OnWire
  <2>3. ASSUME NEW k \in 1..Len(Tail(stream)), Tail(stream)[k].type = "RESP", Tail(stream)[k].of = o
        PROVE  FALSE
    BY <1>2, <1>6, <2>3, Zenon DEF Copies, SentOnce
  <2>4. ~OnWire(o)'
    BY <2>3, Zenon DEF OnWire
  <2>. QED  BY <2>1, <2>2, <2>4, Zenon
<1>. QED  BY <1>4, <1>5, <1>6, Zenon

\* readLoop takes the one copy of a response from the wire to a channel, or
\* drops it.
LEMMA ReaderCopies ==
    ASSUME TypeOK, Routing, Copies, ReaderStep
    PROVE  Copies'
<1>1. UNCHANGED <<ret, status>> /\ Typed
  BY TypedFacts, Zenon
  DEF ReaderStep, ReadResponse, Deliver, DispatchEvent, ReadFails, Sweep, callVars, serverVars
<1>2. \A m \in Numbers : Taken(m)' <=> Taken(m)
  BY <1>1, Zenon DEF Taken
<1>3. Empty \notin Numbers /\ Closed \notin Numbers
  BY DEF Empty, Closed, Numbers
<1>4. ASSUME UNCHANGED ch PROVE OneHolder' /\ \A m \in Numbers : Queued(m)' <=> Queued(m)
  BY <1>1, <1>4, Zenon DEF Copies, OneHolder, Queued
<1>5. ASSUME SentOnce', OneHolder',
             \A m \in Numbers :
                /\ OnWire(m)' => ~WithReader(m)' /\ ~Queued(m)' /\ ~Taken(m)'
                /\ WithReader(m)' => ~Queued(m)' /\ ~Taken(m)'
                /\ Queued(m)' => ~Taken(m)'
                /\ OnWire(m)' \/ WithReader(m)' \/ Queued(m)' \/ Taken(m)' => status[m] # "none"
      PROVE  Copies'
  BY <1>1, <1>5, Zenon DEF Copies, OnePlace
<1>6. CASE ReadResponse
  <2>1. PICK o : o = Head(stream).of
    OBVIOUS
  <2>2. /\ reader = "read" /\ UNCHANGED ch
        /\ stream # <<>> /\ Head(stream).type = "RESP" /\ stream' = Tail(stream)
    BY <1>6, Zenon DEF ReadResponse
  <2>3. UNCHANGED <<reader, held>> \/ held'.of = o
    <3>1. PICK c : c = pend[id[o]]
      OBVIOUS
    <3>2. UNCHANGED <<reader, held>> \/ held' = [call |-> c, of |-> o]
      BY <1>6, <2>1, <3>1, Zenon DEF ReadResponse
    <3>. QED  BY <3>2
  <2>4. \A m \in Numbers : WithReader(m)' => m = o
    BY <2>2, <2>3, Zenon DEF WithReader
  <2>5. /\ SentOnce' /\ o \in Numbers /\ OnWire(o) /\ ~OnWire(o)'
        /\ \A m \in Numbers : OnWire(m)' => OnWire(m)
    BY <2>1, <2>2, HeadCopy, Zenon
  <2>6. ASSUME NEW m \in Numbers
        PROVE  /\ OnWire(m)' => ~WithReader(m)' /\ ~Queued(m)' /\ ~Taken(m)'
               /\ WithReader(m)' => ~Queued(m)' /\ ~Taken(m)'
               /\ Queued(m)' => ~Taken(m)'
               /\ OnWire(m)' \/ WithReader(m)' \/ Queued(m)' \/ Taken(m)' => status[m] # "none"
    BY <1>2, <1>4, <2>2, <2>4, <2>5, Zenon DEF Copies, OnePlace
  <2>. QED  BY <1>4, <1>5, <2>2, <2>5, <2>6, Zenon
<1>7. CASE DispatchEvent
  <2>1. /\ UNCHANGED <<ch, reader, held>> /\ stream # <<>> /\ stream' = Tail(stream)
    BY <1>7, Zenon DEF DispatchEvent
  <2>2. SentOnce' /\ \A m \in Numbers : OnWire(m)' => OnWire(m)
    BY <2>1, HeadCopy, Zenon
  <2>3. \A m \in Numbers : WithReader(m)' <=> WithReader(m)
    BY <2>1, Zenon DEF WithReader
  <2>4. ASSUME NEW m \in Numbers
        PROVE  /\ OnWire(m)' => ~WithReader(m)' /\ ~Queued(m)' /\ ~Taken(m)'
               /\ WithReader(m)' => ~Queued(m)' /\ ~Taken(m)'
               /\ Queued(m)' => ~Taken(m)'
               /\ OnWire(m)' \/ WithReader(m)' \/ Queued(m)' \/ Taken(m)' => status[m] # "none"
    BY <1>2, <1>4, <2>1, <2>2, <2>3, Zenon DEF Copies, OnePlace
  <2>. QED  BY <1>4, <1>5, <2>1, <2>2, <2>4, Zenon
<1>8. CASE Deliver
  <2>1. PICK c, o : c = held.call /\ o = held.of
    OBVIOUS
  <2>2. /\ reader = "deliver" /\ reader' = "read" /\ UNCHANGED stream
        /\ ch' = [ch EXCEPT ![c] = o]
    BY <1>8, <2>1, Zenon DEF Deliver
  <2>3. c \in Numbers /\ o \in Numbers
    BY <1>1, <2>1, <2>2, Zenon DEF Routing, Delivering, MayAnswer, Typed
  <2>4. ch'[c] = o /\ \A k \in Numbers : k # c => ch'[k] = ch[k]
    BY <1>1, <2>2, <2>3, Zenon DEF Typed
  <2>5. SentOnce' /\ \A m \in Numbers : (OnWire(m)' <=> OnWire(m)) /\ ~WithReader(m)'
    BY <2>2, Zenon DEF Copies, SentOnce, OnWire, WithReader
  <2>6. WithReader(o)
    BY <2>1, <2>2, Zenon DEF WithReader
  <2>7. ~OnWire(o) /\ ~Taken(o) /\ ~Queued(o) /\ status[o] # "none"
    BY <2>3, <2>6, Zenon DEF Copies, OnePlace
  <2>8. \A m \in Numbers : Queued(m)' => Queued(m) \/ m = o
    BY <2>4, Zenon DEF Queued
  <2>9. OneHolder'
    <3>1. ASSUME NEW a \in Numbers, NEW b \in Numbers, ch'[a] \in Numbers, ch'[a] = ch'[b]
          PROVE  a = b
      <4>1. \A k \in Numbers : ch[k] # o
        BY <2>7, Zenon DEF Queued
      <4>2. CASE a = c \/ b = c
        BY <2>4, <3>1, <4>1, <4>2, Zenon
      <4>3. CASE a # c /\ b # c
        <5>1. ch[a] \in Numbers /\ ch[a] = ch[b]
          BY <2>4, <3>1, <4>3, Zenon
        <5>. QED  BY <5>1, Zenon DEF Copies, OneHolder
      <4>. QED  BY <4>2, <4>3, Zenon
    <3>. QED  BY <1>1, <3>1, Zenon DEF Copies, OneHolder
  <2>10. ASSUME NEW m \in Numbers
         PROVE  /\ OnWire(m)' => ~WithReader(m)' /\ ~Queued(m)' /\ ~Taken(m)'
                /\ WithReader(m)' => ~Queued(m)' /\ ~Taken(m)'
                /\ Queued(m)' => ~Taken(m)'
                /\ OnWire(m)' \/ WithReader(m)' \/ Queued(m)' \/ Taken(m)' => status[m] # "none"
    BY <1>2, <2>5, <2>7, <2>8, Zenon DEF Copies, OnePlace
  <2>. QED  BY <1>5, <2>5, <2>9, <2>10, Zenon
<1>9. CASE ReadFails \/ Sweep
  <2>1. UNCHANGED stream /\ reader # "deliver" /\ reader' # "deliver"
    BY <1>9, Zenon DEF ReadFails, Sweep
  <2>2. SentOnce' /\ \A m \in Numbers : (OnWire(m)' <=> OnWire(m)) /\ ~WithReader(m)'
    BY <2>1, Zenon DEF Copies, SentOnce, OnWire, WithReader
  <2>3. \A k \in Numbers : ch'[k] = ch[k] \/ ch'[k] = Closed
    BY <1>9, Zenon DEF ReadFails, Sweep
  <2>4. \A m \in Numbers : Queued(m)' => Queued(m)
    BY <1>3, <2>3, Zenon DEF Queued
  <2>5. OneHolder'
    <3>1. ASSUME NEW a \in Numbers, NEW b \in Numbers, ch'[a] \in Numbers, ch'[a] = ch'[b]
          PROVE  a = b
      <4>1. ch[a] \in Numbers /\ ch[a] = ch[b]
        BY <1>3, <2>3, <3>1, Zenon
      <4>. QED  BY <4>1, Zenon DEF Copies, OneHolder
    <3>. QED  BY <1>1, <3>1, Zenon DEF Copies, OneHolder
  <2>6. ASSUME NEW m \in Numbers
        PROVE  /\ OnWire(m)' => ~WithReader(m)' /\ ~Queued(m)' /\ ~Taken(m)'
               /\ WithReader(m)' => ~Queued(m)' /\ ~Taken(m)'
               /\ Queued(m)' => ~Taken(m)'
               /\ OnWire(m)' \/ WithReader(m)' \/ Queued(m)' \/ Taken(m)' => status[m] # "none"
    BY <1>2, <2>2, <2>4, Zenon DEF Copies, OnePlace
  <2>. QED  BY <1>5, <2>2, <2>5, <2>6, Zenon
<1>. QED  BY <1>6, <1>7, <1>8, <1>9, Zenon DEF ReaderStep


\* The server sends a response once, and events do not count.
LEMMA ServerCopies ==
    ASSUME TypeOK, Copies, ServerStep
    PROVE  Copies'
<1>1. stream \in Seq(Frame) /\ Len(stream) \in Nat
  BY DEF TypeOK
<1>2. UNCHANGED <<reader, held, ch, ret>>
  BY Zenon DEF ServerStep, Answer, Push, callVars
<1>3. /\ OneHolder'
      /\ \A m \in Numbers : /\ WithReader(m)' <=> WithReader(m)
                            /\ Queued(m)' <=> Queued(m)
                            /\ Taken(m)' <=> Taken(m)
  BY <1>2, Zenon DEF Copies, OneHolder, WithReader, Queued, Taken
<1>4. ASSUME NEW f \in Frame, stream' = Append(stream, f)
      PROVE  \A k \in 1..Len(stream') :
                \/ k \in 1..Len(stream) /\ stream'[k] = stream[k]
                \/ k = Len(stream) + 1 /\ stream'[k] = f
  BY <1>1, <1>4
<1>5. ASSUME NEW n \in Numbers, NEW st \in {"OK", "ERR"}, Answer(n, st) PROVE Copies'
  <2>1. PICK f : f = [type |-> "RESP", of |-> n, event |-> 0]
    OBVIOUS
  <2>2. 0 \in Pushes
    BY ConnectionAssumption DEF Pushes, Short
  <2>3. f \in Frame /\ f.of = n
    BY <2>1, <2>2 DEF Frame
  <2>4. /\ stream' = Append(stream, f) /\ status[n] = "none"
        /\ status' = [status EXCEPT ![n] = st]
    BY <1>5, <2>1, Zenon DEF Answer
  <2>5. status'[n] # "none" /\ \A m \in Numbers : m # n => status'[m] = status[m]
    BY <1>5, <2>4, Zenon DEF TypeOK
  <2>6. ~OnWire(n) /\ ~WithReader(n) /\ ~Queued(n) /\ ~Taken(n)
    BY <2>4, Zenon DEF Copies, OnePlace
  <2>7. \A m \in Numbers : OnWire(m)' => OnWire(m) \/ m = n
    BY <1>4, <2>3, <2>4, Zenon DEF OnWire
  <2>8. SentOnce'
    <3>1. ASSUME NEW j \in 1..Len(stream'), NEW k \in 1..Len(stream'),
                 stream'[j].type = "RESP", stream'[k].type = "RESP", stream'[j].of = stream'[k].of
          PROVE  j = k
      <4>1. \A i \in 1..Len(stream) : stream[i].type = "RESP" => stream[i].of # n
        BY <2>6, Zenon DEF OnWire
      <4>2. /\ (j \in 1..Len(stream) /\ stream'[j] = stream[j]) \/ (j = Len(stream) + 1 /\ stream'[j].of = n)
            /\ (k \in 1..Len(stream) /\ stream'[k] = stream[k]) \/ (k = Len(stream) + 1 /\ stream'[k].of = n)
        BY <1>4, <2>3, <2>4, Zenon
      <4>3. CASE j = Len(stream) + 1 \/ k = Len(stream) + 1
        <5>1. ~(Len(stream) + 1 \in 1..Len(stream))
          BY <1>1
        <5>. QED  BY <3>1, <4>1, <4>2, <4>3, <5>1, Zenon
      <4>4. CASE j # Len(stream) + 1 /\ k # Len(stream) + 1
        BY <3>1, <4>2, <4>4, Zenon DEF Copies, SentOnce
      <4>. QED  BY <4>3, <4>4, Zenon
    <3>. QED  BY <3>1, Zenon DEF SentOnce
  <2>9. OnePlace'
    <3>1. ASSUME NEW m \in Numbers
          PROVE  /\ OnWire(m)' => ~WithReader(m)' /\ ~Queued(m)' /\ ~Taken(m)'
                 /\ WithReader(m)' => ~Queued(m)' /\ ~Taken(m)'
                 /\ Queued(m)' => ~Taken(m)'
                 /\ OnWire(m)' \/ WithReader(m)' \/ Queued(m)' \/ Taken(m)' => status'[m] # "none"
      BY <1>3, <2>5, <2>6, <2>7, Zenon DEF Copies, OnePlace
    <3>. QED  BY <3>1, Zenon DEF OnePlace
  <2>. QED  BY <1>3, <2>8, <2>9, Zenon DEF Copies
<1>6. ASSUME NEW watch \in Numbers, NEW event \in Pushes, Push(watch, event) PROVE Copies'
  <2>1. PICK f : f = [type |-> "EVENT", of |-> watch, event |-> event]
    OBVIOUS
  <2>2. f \in Frame /\ f.type # "RESP"
    BY <1>6, <2>1 DEF Frame
  <2>3. stream' = Append(stream, f) /\ UNCHANGED status
    BY <1>6, <2>1, Zenon DEF Push
  <2>4. \A m \in Numbers : OnWire(m)' => OnWire(m)
    BY <1>4, <2>2, <2>3, Zenon DEF OnWire
  <2>5. SentOnce'
    <3>1. ASSUME NEW j \in 1..Len(stream'), NEW k \in 1..Len(stream'),
                 stream'[j].type = "RESP", stream'[k].type = "RESP", stream'[j].of = stream'[k].of
          PROVE  j = k
      BY <1>4, <2>2, <2>3, <3>1, Zenon DEF Copies, SentOnce
    <3>. QED  BY <3>1, Zenon DEF SentOnce
  <2>6. OnePlace'
    BY <1>3, <2>3, <2>4, Zenon DEF Copies, OnePlace
  <2>. QED  BY <1>3, <2>5, <2>6, Zenon DEF Copies
<1>. QED  BY <1>5, <1>6, Zenon DEF ServerStep

\* A response exists in one copy, from the server to the caller it ends with.
THEOREM ExchangeInvariance == Spec => []ExchangeInv
<1>1. Init => ExchangeInv
  <2>. SUFFICES ASSUME Init PROVE ExchangeInv
    BY Zenon
  <2>1. Empty \notin Numbers /\ 0 \notin Numbers /\ 1..Len(stream) = {} /\ reader # "deliver"
    BY DEF Init, Empty, Numbers
  <2>2. \A n \in Numbers : pc[n] = "new" /\ ch[n] = Empty /\ ret[n].of = 0 /\ n > issued
    BY DEF Init, NotReturned, Numbers
  <2>3. SentOnce /\ OneHolder
    BY <2>1, <2>2, Zenon DEF SentOnce, OneHolder
  <2>4. OnePlace
    BY <2>1, <2>2, Zenon DEF OnePlace, OnWire, WithReader, Queued, Taken
  <2>5. OpenCalls
    BY <2>2, Zenon DEF OpenCalls
  <2>. QED  BY <2>3, <2>4, <2>5, Zenon DEF ExchangeInv
<1>2. ConnectionInv /\ ExchangeInv /\ [Next]_vars => ExchangeInv'
  <2>. SUFFICES ASSUME ConnectionInv, ExchangeInv, [Next]_vars PROVE ExchangeInv'
    BY Zenon
  <2>1. TypeOK /\ Routing /\ Copies /\ OpenCalls
    BY Zenon DEF ConnectionInv, ExchangeInv, Routing, Copies
  <2>2. ASSUME NEW kind \in Ops, NEW watch \in Numbers, Register(kind, watch) PROVE Copies'
    BY <2>1, <2>2, SameCopies, Zenon DEF Register, serverVars
  <2>3. ASSUME Break \/ (\E h \in handlers : HandlerRuns(h)) \/ UNCHANGED vars
        PROVE  Copies'
    <3>1. UNCHANGED <<stream, reader, held, ch, status, ret>>
      BY <2>3, Zenon DEF Break, HandlerRuns, vars, callVars, serverVars
    <3>. QED  BY <2>1, <3>1, SameCopies, Zenon
  <2>4. Copies'
    BY <2>1, <2>2, <2>3, CallCopies, ReaderCopies, ServerCopies, Zenon DEF Next
  <2>5. OpenCalls'
    BY <2>1, OpenCallsStep, Zenon
  <2>. QED  BY <2>4, <2>5, Zenon DEF ExchangeInv, Copies
<1>. QED  BY <1>1, <1>2, ConnectionInvariance, PTL DEF Spec

-----------------------------------------------------------------------------
\* A call that returns ends the request of RequestReply: with the response it
\* found in its channel, which nobody else has, or with an error.
LEMMA ReturnRefines ==
    ASSUME ConnectionInv, ExchangeInv, NEW n \in Numbers, NEW err, NEW of, Returns(n, err, of),
           pc[n] \in {"write", "wait"}, UNCHANGED status,
           of = 0 \/ (of = ch[n] /\ of \in Numbers)
    PROVE  Promise!Next
<1>1. /\ pc \in [Numbers -> {"new", "write", "wait", "store", "done"}]
      /\ ret \in [Numbers -> [err : Errors, of : Slots]]
  BY Zenon DEF ConnectionInv, TypeOK
<1>2. pc'[n] \in {"store", "done"} /\ \A k \in Numbers : k # n => pc'[k] = pc[k]
  BY <1>1, Zenon DEF Returns, Goto
<1>3. ret'[n].of = of /\ \A k \in Numbers : k # n => ret'[k].of = ret[k].of
  <2>1. ret'[n] = [err |-> err, of |-> of] /\ \A k \in Numbers : k # n => ret'[k] = ret[k]
    BY <1>1, Zenon DEF Returns
  <2>. QED  BY <2>1
<1>4. Phases[n] = "open" /\ Phases' = [Phases EXCEPT ![n] = "ended"] /\ Answered' = Answered
  BY <1>2, Zenon DEF Phases, Answered
<1>5. Got' = [Got EXCEPT ![n] = of]
  BY <1>3, Zenon DEF Got
<1>6. CASE of = 0
  <2>1. ret[n].of = 0
    BY Zenon DEF ExchangeInv, OpenCalls
  <2>2. Got' = Got
    BY <1>3, <1>6, <2>1, Zenon DEF Got
  <2>. QED  BY <1>4, <2>2, Zenon DEF Promise!Next, Promise!Fail
<1>7. CASE of = ch[n] /\ of \in Numbers
  <2>1. Queued(of)
    BY <1>7, Zenon DEF Queued
  <2>2. of \in Answered
    BY <1>7, <2>1, Zenon DEF ExchangeInv, OnePlace, Answered
  <2>3. \A k \in Numbers : Got[k] # of
    BY <1>7, <2>1, Zenon DEF ExchangeInv, OnePlace, Taken, Got
  <2>4. MayAnswer(of, n)
    <3>1. of > 0
      BY <1>7 DEF Numbers
    <3>. QED  BY <1>7, <3>1, Zenon DEF ConnectionInv, Answers
  <2>5. of = n \/ of + IdSpace <= n
    <3>1. issued \in Nat
      BY TypedFacts, Zenon DEF ConnectionInv, Typed
    <3>. QED  BY <2>4, <3>1 DEF ConnectionInv, Spaced, MayAnswer, Issued
  <2>6. Promise!Return(n, of)
    BY <1>4, <1>5, <2>2, <2>3, <2>5, Zenon DEF Promise!Return
  <2>. QED  BY <1>7, <2>6, Zenon DEF Promise!Next
<1>. QED  BY <1>6, <1>7, Zenon

\* Every step of the connection is a step of RequestReply, or a stutter.
LEMMA StepKeepsPromise ==
    ASSUME ConnectionInv, ExchangeInv, [Next]_vars
    PROVE  [Promise!Next]_<<Phases, Answered, Got>>
<1>1. CASE UNCHANGED <<pc, status, ret>>
  BY <1>1, Zenon DEF Phases, Answered, Got
<1>2. ASSUME NEW kind \in Ops, NEW watch \in Numbers, Register(kind, watch) PROVE Promise!Next
  <2>1. TypeOK /\ Typed
    BY TypedFacts, Zenon DEF ConnectionInv
  <2>2. PICK n : n = issued + 1
    OBVIOUS
  <2>3. n \in Numbers /\ pc' = [pc EXCEPT ![n] = "write"] /\ UNCHANGED <<ret, status>>
    BY <1>2, <2>1, <2>2, RegisterFacts, Zenon DEF Numbered, Register, serverVars
  <2>4. pc[n] = "new"
    <3>1. n > issued
      BY <2>1, <2>2 DEF Typed
    <3>. QED  BY <2>3, <3>1, Zenon DEF ExchangeInv, OpenCalls
  <2>5. Phases[n] = "new" /\ Phases' = [Phases EXCEPT ![n] = "open"]
    BY <2>1, <2>3, <2>4, Zenon DEF Phases, TypeOK
  <2>6. Promise!Ask(n)
    BY <2>3, <2>5, Zenon DEF Promise!Ask, Answered, Got
  <2>. QED  BY <2>3, <2>6, Zenon DEF Promise!Next
<1>3. ASSUME NEW n \in Numbers, CallStep(n) PROVE [Promise!Next]_<<Phases, Answered, Got>>
  <2>1. TypeOK
    BY Zenon DEF ConnectionInv
  <2>2. CASE Write(n) \/ StoreHandler(n)
    <3>1. Phases' = Phases
      BY <2>1, <2>2, Zenon DEF Write, StoreHandler, Goto, Phases, TypeOK
    <3>. QED  BY <2>2, <3>1, Zenon DEF Write, StoreHandler, Answered, Got, serverVars
  <2>3. CASE WriteFails(n)
    <3>1. Returns(n, "failed", 0) /\ pc[n] \in {"write", "wait"} /\ UNCHANGED status
      BY <2>3, Zenon DEF WriteFails, serverVars
    <3>. QED  BY <3>1, ReturnRefines, Zenon
  <2>4. CASE Timeout(n)
    <3>1. Returns(n, "failed", 0) /\ pc[n] \in {"write", "wait"} /\ UNCHANGED status
      BY <2>4, Zenon DEF Timeout, serverVars
    <3>. QED  BY <3>1, ReturnRefines, Zenon
  <2>5. CASE Receive(n)
    <3>1. ch[n] # Closed => ch[n] \in Numbers
      <4>1. ch[n] \in ChannelStates /\ ch[n] # Empty
        BY <2>1, <2>5, Zenon DEF Receive, TypeOK
      <4>. QED  BY <4>1, SlotFacts, Zenon DEF Empty
    <3>2. pc[n] \in {"write", "wait"} /\ UNCHANGED status
      BY <2>5, Zenon DEF Receive, serverVars
    <3>3. \E err, of : Returns(n, err, of) /\ (of = 0 \/ (of = ch[n] /\ of \in Numbers))
      BY <2>5, <3>1, Zenon DEF Receive
    <3>. QED  BY <3>2, <3>3, ReturnRefines, Zenon
  <2>. QED  BY <1>3, <2>2, <2>3, <2>4, <2>5, Zenon DEF CallStep
<1>4. ASSUME NEW n \in Numbers, NEW st \in {"OK", "ERR"}, Answer(n, st) PROVE Promise!Next
  <2>1. /\ n \in inbox /\ status[n] = "none" /\ status' = [status EXCEPT ![n] = st]
        /\ UNCHANGED <<pc, ret>>
    BY <1>4, Zenon DEF Answer, callVars
  <2>2. n \notin Answered /\ Answered' = Answered \cup {n}
    BY <2>1, Zenon DEF Answered, ConnectionInv, TypeOK
  <2>3. pc[n] # "new"
    <3>1. n \in Issued /\ Typed
      BY <2>1, TypedFacts, Zenon DEF ConnectionInv, Arrived
    <3>2. ~(n > issued)
      BY <3>1 DEF Issued, Typed
    <3>. QED  BY <3>2, Zenon DEF ExchangeInv, OpenCalls
  <2>4. Promise!Reply(n)
    BY <2>1, <2>2, <2>3, Zenon DEF Promise!Reply, Phases, Got
  <2>. QED  BY <2>4, Zenon DEF Promise!Next
<1>5. CASE ReaderStep \/ Break
  BY <1>1, <1>5, Zenon DEF ReaderStep, ReadResponse, Deliver, DispatchEvent, ReadFails, Sweep, Break,
         callVars, serverVars
<1>6. CASE \/ \E watch \in Numbers, event \in Pushes : Push(watch, event)
           \/ \E h \in handlers : HandlerRuns(h)
           \/ UNCHANGED vars
  BY <1>1, <1>6, Zenon DEF Push, HandlerRuns, vars, callVars, serverVars
<1>. QED  BY <1>2, <1>3, <1>4, <1>5, <1>6, Zenon DEF Next, ServerStep

\* lotor.Client implements RequestReply: a call ends once, and no response
\* ends two calls or strays to one that did not inherit its id.
THEOREM RefinesRequestReply == Spec => ImplementsRequestReply
<1>1. Init => Promise!Init
  <2>. SUFFICES ASSUME Init PROVE Promise!Init
    BY Zenon
  <2>1. \A n \in Numbers : ret[n].of = 0
    BY DEF Init, NotReturned
  <2>. QED  BY <2>1, Zenon DEF Init, Promise!Init, Phases, Answered, Got
<1>2. ConnectionInv /\ ExchangeInv /\ [Next]_vars => [Promise!Next]_<<Phases, Answered, Got>>
  BY StepKeepsPromise, Zenon
<1>. QED
  BY <1>1, <1>2, ConnectionInvariance, ExchangeInvariance, PTL
  DEF Spec, ImplementsRequestReply, Promise!Spec


-----------------------------------------------------------------------------
(* The integers on the wire, for every width. *)

\* encodeValue and decodeValue lose no signed integer: zigzag maps the integers
\* of every width one to one onto the unsigned ones of that width and unzigzag
\* takes them back, so that its guarded conversions never replace a value by 0.
THEOREM ZigzagInverse ==
    /\ \A v \in Int64 : Zigzag(v) \in Uint64 /\ Unzigzag(Zigzag(v)) = v
    /\ \A u \in Uint64 : Unzigzag(u) \in Int64 /\ Zigzag(Unzigzag(u)) = u
<1>. DEFINE M == MaxInt64
<1>0. M \in Nat /\ Int64 = -(M + 1)..M /\ Uint64 = 0..(2 * M + 1)
  BY WidthAssumption DEF Int64, Uint64
<1>. HIDE DEF M
<1>1. ASSUME NEW v \in Int64 PROVE Zigzag(v) \in Uint64 /\ Unzigzag(Zigzag(v)) = v
  <2>1. CASE v >= 0
    BY <1>0, <2>1 DEF Zigzag, Unzigzag, Uint64ToInt64, M
  <2>2. CASE v < 0
    BY <1>0, <2>2 DEF Zigzag, Unzigzag, Uint64ToInt64, NonNegativeInt64ToUint64, M
  <2>. QED  BY <1>0, <2>1, <2>2
<1>2. ASSUME NEW u \in Uint64 PROVE Unzigzag(u) \in Int64 /\ Zigzag(Unzigzag(u)) = u
  BY <1>0 DEF Zigzag, Unzigzag, Uint64ToInt64, NonNegativeInt64ToUint64, M
<1>. QED  BY <1>1, <1>2, Zenon

\* Quotient and remainder of a number of two digits.
LEMMA TwoDigits ==
    ASSUME NEW B \in Nat \ {0}, NEW n \in 0..(B * B - 1)
    PROVE  /\ (n \div B) * B + (n % B) = n
           /\ n % B \in 0..(B - 1) /\ n \div B \in 0..(B - 1)
OBVIOUS

\* A field of a frame header is read as it was written, and its bytes are
\* bytes, for every number that fits (encodeFrame, decodeFrame).
THEOREM FieldsRoundTrip ==
    \A n \in 0..(Base * Base - 1) :
        /\ Number(BigEndian(n), 1) = n
        /\ \A i \in 1..2 : BigEndian(n)[i] \in 0..(Base - 1)
<1>1. Base \in Nat \ {0}
  BY WidthAssumption DEF Base
<1>. SUFFICES ASSUME NEW n \in 0..(Base * Base - 1)
              PROVE  /\ Number(BigEndian(n), 1) = n
                     /\ \A i \in 1..2 : BigEndian(n)[i] \in 0..(Base - 1)
  BY Zenon
<1>2. /\ (n \div Base) * Base + (n % Base) = n
      /\ n % Base \in 0..(Base - 1) /\ n \div Base \in 0..(Base - 1)
  BY <1>1, TwoDigits, Zenon
<1>3. BigEndian(n)[1] = n \div Base /\ BigEndian(n)[1 + 1] = n % Base /\ BigEndian(n)[2] = n % Base
  BY DEF BigEndian
<1>4. Number(BigEndian(n), 1) = n
  BY <1>2, <1>3, Zenon DEF Number
<1>5. \A i \in 1..2 : i = 1 \/ i = 2
  OBVIOUS
<1>. QED  BY <1>2, <1>3, <1>4, <1>5, Zenon

=============================================================================
