------------------------ MODULE PayloadCustodyProofs ------------------------
(***************************************************************************)
(* Proofs about PayloadCustody: what Control's writers keep, what a call   *)
(* of WithPayloadCustody and the goroutines that use its cipher keep, and  *)
(* the three properties that follow.                                       *)
(***************************************************************************)
EXTENDS PayloadCustody, TLAPS

\* The fields of the records.
LEMMA CustodyFacts ==
    /\ \A m \in Manifests : m # None /\ m.version \in Versions /\ m.object \in Writers
                            /\ m.keyVersion \in KeyVersions
    /\ \A b \in Bindings : b # None /\ b.invocation \in Invocations /\ b.version \in Versions
                           /\ b.object \in Writers /\ b.keyVersion \in KeyVersions
    /\ \A k \in KeyVersions : k # None
    /\ \A i \in Invocations, m \in Manifests : BindingOf(i, m) \in Bindings
<1>1. \A m \in Manifests : m # None /\ m.version \in Versions /\ m.object \in Writers
                           /\ m.keyVersion \in KeyVersions
  BY NoneAssumption, Zenon DEF Manifests
<1>2. \A b \in Bindings : b # None /\ b.invocation \in Invocations /\ b.version \in Versions
                          /\ b.object \in Writers /\ b.keyVersion \in KeyVersions
  BY NoneAssumption, Zenon DEF Bindings
<1>3. \A k \in KeyVersions : k # None
  BY CustodyAssumption DEF KeyVersions
<1>4. \A i \in Invocations, m \in Manifests : BindingOf(i, m) \in Bindings
  BY <1>1, Zenon DEF BindingOf, Bindings
<1>. QED  BY <1>1, <1>2, <1>3, <1>4, Zenon

LEMMA CallFacts ==
    ASSUME TypeOK, NEW c \in Calls
    PROVE  /\ call[c] \in CallState
           /\ call[c].binding \in Bindings \cup {None}
           /\ call[c].manifest \in Manifests \cup {None}
           /\ call[c].planned \in Versions \cup {None}
           /\ call[c].lent \in BOOLEAN
<1>1. call[c] \in CallState
  BY Zenon DEF TypeOK
<1>. QED  BY <1>1, Zenon DEF CallState

LEMMA WorkerFacts ==
    ASSUME TypeOK, NEW g \in Workers
    PROVE  /\ worker[g] \in WorkerState
           /\ worker[g].pc \in {"idle", "waiting", "working", "sealed", "opened"}
           /\ worker[g].op \in Operations \cup {None}
<1>1. worker[g] \in WorkerState
  BY Zenon DEF TypeOK
<1>. QED  BY <1>1, Zenon DEF WorkerState

LEMMA OperationFacts ==
    ASSUME NEW op \in Operations
    PROVE  /\ op.cipher \in Calls /\ op.ctx \in Invocations
           /\ op.manifest \in Manifests \cup {None} /\ op.object \in Writers \cup {None}
BY Zenon DEF Operations

-----------------------------------------------------------------------------
\* What the writers and Control do: a manifest, once there, keeps its version
\* and its object.
KeepsObjects ==
    \A v \in Versions : payload[v] # None => payload'[v] # None /\ payload'[v].object = payload[v].object

LEMMA WriterStep ==
    ASSUME TypeOK, PayloadInv,
           Rewrap \/ \E w \in Writers : BeginUpload(w) \/ UploadObject(w) \/ Commit(w)
    PROVE  TypeOK' /\ PayloadInv' /\ KeepsObjects /\ UNCHANGED <<live, call, key, holder, worker, overtime>>
<1>1. CurrentKeyVersion \in KeyVersions /\ (head > 0 => head \in Versions /\ payload[head] \in Manifests)
  <2>1. head > 0 => head \in Versions /\ payload[head] \in Manifests
    BY DEF TypeOK, PayloadInv, Versions
  <2>2. 1 \in KeyVersions
    BY CustodyAssumption DEF KeyVersions
  <2>. QED  BY <2>1, <2>2, CustodyFacts DEF CurrentKeyVersion, TypeOK
<1>2. ASSUME NEW w \in Writers, BeginUpload(w)
      PROVE  TypeOK' /\ PayloadInv' /\ KeepsObjects /\ UNCHANGED <<live, call, key, holder, worker, overtime>>
  BY <1>2, CustodyAssumption DEF BeginUpload, TypeOK, PayloadInv, KeepsObjects, UploadState
<1>3. ASSUME NEW w \in Writers, UploadObject(w)
      PROVE  TypeOK' /\ PayloadInv' /\ KeepsObjects /\ UNCHANGED <<live, call, key, holder, worker, overtime>>
  BY <1>3 DEF UploadObject, Uploaded, TypeOK, PayloadInv, KeepsObjects, UploadState
<1>4. ASSUME NEW w \in Writers, Commit(w)
      PROVE  TypeOK' /\ PayloadInv' /\ KeepsObjects /\ UNCHANGED <<live, call, key, holder, worker, overtime>>
  <2>1. upload' \in [Writers -> UploadState]
    <3>1. PICK p \in {"committed", "failed"} : upload' = [upload EXCEPT ![w].pc = p]
      BY <1>4, Zenon DEF Commit
    <3>. QED  BY <3>1, Zenon DEF TypeOK, UploadState
  <2>. DEFINE m == [version |-> head + 1, object |-> w, keyVersion |-> CurrentKeyVersion]
  <2>2. CASE UNCHANGED <<payload, head>>
    BY <1>4, <2>1, <2>2 DEF Commit, TypeOK, PayloadInv, KeepsObjects
  <2>3. CASE head' = head + 1 /\ payload' = [payload EXCEPT ![head + 1] = m]
                /\ ExpectedPayloadVersion(w) = head
    <3>1. CASE head + 1 \in Versions
      <4>1. m \in Manifests /\ m.version = head + 1
        BY <1>1, <3>1 DEF Manifests
      <4>. HIDE DEF m
      <4>2. head' \in 0..MaxVersion
        BY <2>3, <3>1, CustodyAssumption DEF Versions, TypeOK
      <4>3. payload' \in [Versions -> Manifests \cup {None}] /\ payload'[head + 1] = m
            /\ \A v \in Versions : v # head + 1 => payload'[v] = payload[v]
        BY <2>3, <3>1, <4>1 DEF TypeOK
      <4>4. m # None
        BY <4>1, CustodyFacts
      <4>5. ~(head + 1 <= head)
        BY DEF TypeOK
      <4>6. PayloadInv'
        BY <2>3, <3>1, <4>1, <4>2, <4>3, <4>4 DEF PayloadInv, Versions, TypeOK
      <4>7. KeepsObjects
        BY <3>1, <4>3, <4>5, Zenon DEF PayloadInv, KeepsObjects
      <4>. QED  BY <1>4, <2>1, <4>2, <4>3, <4>6, <4>7 DEF Commit, TypeOK
    <3>2. head + 1 \in Versions
      <4>1. upload[w].expected \in 0..(MaxVersion - 1)
        BY DEF TypeOK, UploadState
      <4>. QED  BY <2>3, <4>1, CustodyAssumption DEF ExpectedPayloadVersion, Versions
    <3>. QED  BY <3>1, <3>2
  <2>. QED  BY <1>4, <2>2, <2>3 DEF Commit
<1>5. ASSUME Rewrap
      PROVE  TypeOK' /\ PayloadInv' /\ KeepsObjects /\ UNCHANGED <<live, call, key, holder, worker, overtime>>
  <2>1. head \in Versions /\ payload[head] \in Manifests
    BY <1>1, <1>5 DEF Rewrap
  <2>. DEFINE m == [payload[head] EXCEPT !.keyVersion = @ + 1]
  <2>2. payload[head].keyVersion + 1 \in KeyVersions
    BY <1>1, <1>5, <2>1, CustodyFacts, CustodyAssumption DEF Rewrap, CurrentKeyVersion, KeyVersions
  <2>3. m \in Manifests /\ m.version = payload[head].version /\ m.object = payload[head].object
    BY <2>1, <2>2 DEF Manifests
  <2>4. payload' = [payload EXCEPT ![head] = m]
    BY <1>5 DEF Rewrap
  <2>. HIDE DEF m
  <2>5. payload' \in [Versions -> Manifests \cup {None}] /\ payload'[head] = m
        /\ \A v \in Versions : v # head => payload'[v] = payload[v]
    BY <2>1, <2>3, <2>4, Zenon DEF TypeOK
  <2>6. head' = head /\ UNCHANGED <<live, upload, stored, call, key, holder, worker, overtime>>
    BY <1>5 DEF Rewrap
  <2>7. PayloadInv' /\ KeepsObjects
    BY <2>1, <2>3, <2>5, <2>6, CustodyFacts, Zenon DEF PayloadInv, KeepsObjects
  <2>. QED  BY <2>5, <2>6, <2>7 DEF TypeOK
<1>. QED  BY <1>2, <1>3, <1>4, <1>5

-----------------------------------------------------------------------------
\* What a step of a call leaves alone: the other calls, and what a lent cipher
\* is bound to.
OthersKept(c) ==
    /\ \A d \in Calls \ {c} : call'[d] = call[d] /\ key'[d] = key[d]
    /\ UNCHANGED <<live, controlVars, holder, worker, overtime>>

LentKept ==
    \A d \in Calls : call[d].lent =>
        /\ call'[d].lent
        /\ call'[d].binding = call[d].binding
        /\ call'[d].planned = call[d].planned
        /\ call'[d].invocation = call[d].invocation

\* What the step of call c must show of c itself, for all the calls to be right.
LEMMA CallKept ==
    ASSUME TypeOK, PayloadInv, CallInv, NEW c \in Calls, OthersKept(c),
           call' \in [Calls -> CallState], key' \in [Calls -> KeyVersions \cup {None}],
           call'[c].pc \in {"idle", "identify"} => call'[c].binding = None,
           call'[c].pc # "idle" => call'[c].invocation \in Invocations /\ call'[c].planned \in Versions,
           call'[c].pc \in {"open", "closing"} =>
               call'[c].binding # None /\ key'[c] = call'[c].binding.keyVersion,
           call'[c].pc \notin {"open", "closing"} => key'[c] = None,
           call'[c].lent => call'[c].pc \in {"open", "closing", "returned"},
           call'[c].pc = "provider" \/ call'[c].lent => BoundAsPlanned(c)'
    PROVE  TypeOK' /\ PayloadInv' /\ CallInv'
<1>1. TypeOK'
  BY Zenon DEF TypeOK, OthersKept, controlVars
<1>2. PayloadInv'
  BY Zenon DEF PayloadInv, OthersKept, controlVars
<1>3. ASSUME NEW d \in Calls, d # c, BoundAsPlanned(d) PROVE BoundAsPlanned(d)'
  BY <1>3, Zenon DEF BoundAsPlanned, OthersKept, controlVars
<1>4. ASSUME NEW d \in Calls, d # c PROVE call'[d] = call[d] /\ key'[d] = key[d]
  BY <1>4, Zenon DEF OthersKept
<1>5. CallInv'
  BY <1>3, <1>4, Zenon DEF CallInv
<1>. QED  BY <1>1, <1>2, <1>5

\* A step of a call.
CallSteps(c) ==
    \/ Begin(c) \/ Identify(c) \/ Fail(c) \/ Return(c) \/ Clear(c)
    \/ \E v \in 1..head : Access(c, payload[v])
    \/ \E d \in Calls : call[d].binding # None /\ Provide(c, call[d].binding)

LEMMA CallStep ==
    ASSUME TypeOK, PayloadInv, CallInv, NEW c \in Calls, CallSteps(c)
    PROVE  /\ TypeOK' /\ PayloadInv' /\ CallInv'
           /\ OthersKept(c) /\ LentKept
           /\ holder[c] # None /\ call[c].lent /\ key[c] # None => key'[c] # None
<1>. DEFINE Goal == /\ TypeOK' /\ PayloadInv' /\ CallInv'
                    /\ OthersKept(c) /\ LentKept
                    /\ holder[c] # None /\ call[c].lent /\ key[c] # None => key'[c] # None
<1>0. call[c] \in CallState /\ DOMAIN call = Calls /\ DOMAIN key = Calls
      /\ call \in [Calls -> CallState] /\ key \in [Calls -> KeyVersions \cup {None}]
  BY CallFacts, Zenon DEF TypeOK
<1>1. ASSUME NEW i \in Invocations, NEW v \in Versions, call[c].pc = "idle",
             call' = [call EXCEPT ![c] = [@ EXCEPT !.pc = "identify", !.invocation = i, !.planned = v]],
             UNCHANGED <<live, controlVars, key, holder, worker, overtime>>
      PROVE  Goal
  <2>. DEFINE k == [call[c] EXCEPT !.pc = "identify", !.invocation = i, !.planned = v]
  <2>1. call' = [call EXCEPT ![c] = k]
    BY <1>1, Zenon
  <2>2. /\ k \in CallState
        /\ k.pc = "identify" /\ k.invocation = i /\ k.planned = v
        /\ k.binding = call[c].binding /\ k.lent = call[c].lent
    BY <1>0, Zenon DEF CallState
  <2>. HIDE DEF k
  <2>3. OthersKept(c) /\ call'[c] = k /\ call' \in [Calls -> CallState]
    BY <1>0, <1>1, <2>1, <2>2, Zenon DEF OthersKept
  <2>4. call[c].binding = None /\ ~call[c].lent /\ key[c] = None
    BY <1>1 DEF CallInv
  <2>5. key' = key
    BY <1>1
  <2>6. LentKept
    BY <2>3, <2>4, Zenon DEF LentKept, OthersKept
  <2>7. TypeOK' /\ PayloadInv' /\ CallInv'
    BY <1>0, <2>2, <2>3, <2>4, <2>5, CallKept
  <2>. QED  BY <2>3, <2>4, <2>6, <2>7, Zenon
\* The steps that only move the call on.
<1>2. ASSUME NEW p \in {"access", "failed", "closing", "returned"},
             call' = [call EXCEPT ![c].pc = p],
             UNCHANGED <<live, controlVars, holder, worker, overtime>>,
             \/ key' = key /\ p = "access" /\ call[c].pc = "identify"
             \/ key' = key /\ p = "failed" /\ call[c].pc \in {"identify", "access", "provider"}
             \/ key' = key /\ p = "closing" /\ call[c].pc = "open"
             \/ /\ key' = [key EXCEPT ![c] = None] /\ p = "returned" /\ call[c].pc = "closing"
                /\ holder[c] = None
      PROVE  Goal
  <2>. DEFINE k == [call[c] EXCEPT !.pc = p]
  <2>1. call' = [call EXCEPT ![c] = k]
    BY <1>2, Zenon
  <2>2. /\ k \in CallState
        /\ k.pc = p /\ k.invocation = call[c].invocation /\ k.planned = call[c].planned
        /\ k.manifest = call[c].manifest /\ k.binding = call[c].binding /\ k.lent = call[c].lent
    BY <1>0, <1>2, Zenon DEF CallState
  <2>. HIDE DEF k
  <2>3. OthersKept(c) /\ call'[c] = k /\ call' \in [Calls -> CallState]
        /\ key' \in [Calls -> KeyVersions \cup {None}]
    BY <1>0, <1>2, <2>1, <2>2, Zenon DEF OthersKept
  <2>4. LentKept
    BY <2>2, <2>3, Zenon DEF LentKept, OthersKept
  <2>5. k.lent => p \in {"closing", "returned"}
    BY <1>2, <2>2 DEF CallInv
  <2>6. k.lent => BoundAsPlanned(c)'
    <3>1. call[c].lent => BoundAsPlanned(c)
      BY Zenon DEF CallInv
    <3>2. payload' = payload
      BY <1>2 DEF controlVars
    <3>. QED  BY <2>2, <2>3, <3>1, <3>2 DEF BoundAsPlanned
  <2>7. p \notin {"closing"} => key'[c] = None
    BY <1>0, <1>2 DEF CallInv
  <2>8. p = "closing" => k.binding # None /\ key'[c] = k.binding.keyVersion
    BY <1>2, <2>2 DEF CallInv
  <2>9. call[c].pc # "idle" /\ call[c].invocation \in Invocations /\ call[c].planned \in Versions
    BY <1>2 DEF CallInv
  <2>10. TypeOK' /\ PayloadInv' /\ CallInv'
    BY <1>2, <2>2, <2>3, <2>5, <2>6, <2>7, <2>8, <2>9, CallKept
  <2>11. holder[c] # None /\ key[c] # None => key'[c] # None
    BY <1>2, Zenon
  <2>. QED  BY <2>3, <2>4, <2>10, <2>11, Zenon
<1>3. ASSUME NEW v \in 1..head, Access(c, payload[v]) PROVE Goal
  <2>. DEFINE m == payload[v]
              b == BindingOf(call[c].invocation, payload[v])
              k == [call[c] EXCEPT !.pc = "provider", !.manifest = m, !.binding = b]
  <2>1. v \in Versions /\ m \in Manifests /\ m # None /\ m.version = v
    <3>1. v \in Versions /\ v <= head
      BY CustodyAssumption DEF Versions, TypeOK
    <3>. QED  BY <3>1, CustodyFacts, Zenon DEF TypeOK, PayloadInv
  <2>2. /\ call[c].pc = "access" /\ call[c].planned = v
        /\ call' = [call EXCEPT ![c] = k]
        /\ UNCHANGED <<live, controlVars, key, holder, worker, overtime>>
    BY <1>3, <2>1, Zenon DEF Access, AcceptsAccess
  <2>3. call[c].invocation \in Invocations /\ ~call[c].lent /\ key[c] = None
    BY <2>2 DEF CallInv
  <2>4. b \in Bindings /\ b # None /\ b.object = m.object
    BY <2>1, <2>3, CustodyFacts DEF BindingOf
  <2>. HIDE DEF m, b
  <2>5. /\ k \in CallState
        /\ k.pc = "provider" /\ k.invocation = call[c].invocation /\ k.planned = call[c].planned
        /\ k.manifest = m /\ k.binding = b /\ k.lent = call[c].lent
    BY <1>0, <2>1, <2>4, Zenon DEF CallState
  <2>. HIDE DEF k
  <2>6. OthersKept(c) /\ call'[c] = k /\ call' \in [Calls -> CallState] /\ key' = key
    BY <1>0, <2>2, <2>5, Zenon DEF OthersKept
  <2>7. LentKept
    BY <2>3, <2>6, Zenon DEF LentKept, OthersKept
  <2>8. BoundAsPlanned(c)'
    BY <2>1, <2>2, <2>4, <2>5, <2>6, Zenon DEF BoundAsPlanned, controlVars, m, b
  <2>9. TypeOK' /\ PayloadInv' /\ CallInv'
    BY <1>0, <2>1, <2>2, <2>3, <2>5, <2>6, <2>8, CallKept
  <2>. QED  BY <2>3, <2>6, <2>7, <2>9, Zenon
<1>4. ASSUME NEW d \in Calls, call[d].binding # None, Provide(c, call[d].binding) PROVE Goal
  <2>. DEFINE b == call[d].binding
              p == IF Lends(c, b) THEN "open" ELSE "closing"
              l == Lends(c, b)
              k == [call[c] EXCEPT !.pc = p, !.binding = b, !.lent = l]
  <2>1. b \in Bindings /\ b # None /\ b.keyVersion \in KeyVersions
    BY <1>4, CallFacts, CustodyFacts, Zenon
  <2>2. /\ call[c].pc = "provider"
        /\ key' = [key EXCEPT ![c] = b.keyVersion]
        /\ call' = [call EXCEPT ![c] = k]
        /\ UNCHANGED <<live, controlVars, holder, worker, overtime>>
    BY <1>4, Zenon DEF Provide
  <2>3. /\ call[c].invocation \in Invocations /\ call[c].planned \in Versions
        /\ ~call[c].lent /\ key[c] = None /\ BoundAsPlanned(c)
    BY <2>2 DEF CallInv
  <2>4. p \in {"open", "closing"} /\ l \in BOOLEAN /\ (l => b = call[c].binding)
    BY Zenon DEF Lends
  <2>. HIDE DEF b, p, l
  <2>5. /\ k \in CallState
        /\ k.pc = p /\ k.invocation = call[c].invocation /\ k.planned = call[c].planned
        /\ k.manifest = call[c].manifest /\ k.binding = b /\ k.lent = l
    BY <1>0, <2>1, <2>4, Zenon DEF CallState
  <2>. HIDE DEF k
  <2>6. /\ OthersKept(c) /\ call'[c] = k /\ call' \in [Calls -> CallState]
        /\ key'[c] = b.keyVersion /\ key' \in [Calls -> KeyVersions \cup {None}]
    BY <1>0, <2>1, <2>2, <2>5, Zenon DEF OthersKept
  <2>7. LentKept
    BY <2>3, <2>6, Zenon DEF LentKept, OthersKept
  <2>8. l => BoundAsPlanned(c)'
    BY <2>2, <2>3, <2>4, <2>5, <2>6, Zenon DEF BoundAsPlanned, controlVars
  <2>9. TypeOK' /\ PayloadInv' /\ CallInv'
    BY <2>1, <2>3, <2>4, <2>5, <2>6, <2>8, CallKept
  <2>. QED  BY <2>3, <2>6, <2>7, <2>9, Zenon
<1>5. CASE Begin(c)
  BY <1>1, <1>5, Zenon DEF Begin
<1>6. CASE Identify(c) \/ Fail(c) \/ Return(c) \/ Clear(c)
  BY <1>2, <1>6, Zenon DEF Identify, Fail, Return, Clear, MayClear
<1>. QED  BY <1>3, <1>4, <1>5, <1>6, Zenon DEF CallSteps

-----------------------------------------------------------------------------
\* The goroutines are not disturbed by a step that keeps what a lent cipher is
\* bound to, and the key that one of them works with.
LEMMA WorkersKept ==
    ASSUME TypeOK, WorkerInv, LentKept, UNCHANGED <<holder, worker>>,
           \A c \in Calls : holder[c] # None /\ call[c].lent /\ key[c] # None => key'[c] # None
    PROVE  WorkerInv'
<1>1. \A c \in Calls : holder'[c] # None =>
         worker'[holder'[c]].pc = "working" /\ worker'[holder'[c]].op.cipher = c
  BY Zenon DEF WorkerInv
<1>2. ASSUME NEW g \in Workers, worker'[g].pc # "idle"
      PROVE  UseInv(g)'
  <2>. DEFINE op == worker[g].op
  <2>1. worker' = worker /\ holder' = holder
    OBVIOUS
  <2>2. op \in Operations /\ op.cipher \in Calls /\ call[op.cipher].lent
    BY <1>2, <2>1, OperationFacts, Zenon DEF WorkerInv, UseInv, RightfulUse
  <2>3. call'[op.cipher].lent /\ call'[op.cipher].binding = call[op.cipher].binding
    BY <2>2, Zenon DEF LentKept
  <2>4. worker[g].pc = "working" => key'[op.cipher] # None
    <3>1. worker[g].pc = "working" => holder[op.cipher] = g /\ key[op.cipher] # None
      BY <1>2, <2>1, Zenon DEF WorkerInv, UseInv, RightfulUse
    <3>2. g # None
      BY CustodyAssumption
    <3>. QED  BY <2>2, <3>1, <3>2, Zenon
  <2>5. UseInv(g)
    BY <1>2, <2>1, Zenon DEF WorkerInv
  <2>. QED  BY <2>1, <2>2, <2>3, <2>4, <2>5 DEF UseInv, RightfulUse
<1>. QED  BY <1>1, <1>2, Zenon DEF WorkerInv

\* What the step of goroutine g must show of g itself.
LEMMA WorkerKept ==
    ASSUME TypeOK, CallInv, WorkerInv, NEW g \in Workers, NEW w \in WorkerState,
           worker' = [worker EXCEPT ![g] = w],
           holder' \in [Calls -> Workers \cup {None}], overtime' \in [Calls -> Nat],
           UNCHANGED <<live, controlVars, call, key>>,
           \A c \in Calls : holder'[c] = holder[c] \/ {holder[c], holder'[c]} = {g, None},
           \A c \in Calls : holder'[c] = g => w.pc = "working" /\ w.op.cipher = c,
           w.pc # "idle" => UseInv(g)'
    PROVE  TypeOK' /\ CallInv' /\ WorkerInv'
<1>1. worker' \in [Workers -> WorkerState] /\ worker'[g] = w
      /\ \A h \in Workers \ {g} : worker'[h] = worker[h]
  BY Zenon DEF TypeOK
<1>2. TypeOK'
  BY <1>1, Zenon DEF TypeOK, controlVars
<1>3. call' = call /\ key' = key /\ payload' = payload
  BY DEF controlVars
<1>4. CallInv'
  BY <1>3 DEF CallInv, BoundAsPlanned
<1>5. ASSUME NEW c \in Calls, holder'[c] # None
      PROVE  worker'[holder'[c]].pc = "working" /\ worker'[holder'[c]].op.cipher = c
  <2>1. CASE holder'[c] = g
    BY <1>1, <2>1, Zenon
  <2>2. CASE holder'[c] # g
    <3>1. holder'[c] = holder[c]
      BY <1>5, <2>2
    <3>2. holder[c] \in Workers \ {g}
      BY <1>5, <2>2, <3>1, Zenon DEF TypeOK
    <3>. QED  BY <1>1, <1>5, <3>1, <3>2 DEF WorkerInv
  <2>. QED  BY <2>1, <2>2
<1>6. ASSUME NEW h \in Workers, h # g, worker[h].pc = "working"
      PROVE  holder'[worker[h].op.cipher] = h
  <2>1. worker[h].op \in Operations /\ worker[h].op.cipher \in Calls /\ holder[worker[h].op.cipher] = h
    BY <1>6, OperationFacts, Zenon DEF WorkerInv, UseInv, RightfulUse
  <2>2. h # None
    BY CustodyAssumption
  <2>3. {holder[worker[h].op.cipher], holder'[worker[h].op.cipher]} # {g, None}
    BY <1>6, <2>1, <2>2, Zenon
  <2>. QED  BY <2>1, <2>3, Zenon
<1>7. WorkerInv'
  <2>1. ASSUME NEW h \in Workers, h # g, worker'[h].pc # "idle" PROVE UseInv(h)'
    <3>1. worker'[h] = worker[h]
      BY <1>1, <2>1, Zenon
    <3>2. UseInv(h)
      BY <2>1, <3>1, Zenon DEF WorkerInv
    <3>. DEFINE c == worker[h].op.cipher
    <3>3. worker[h].op \in Operations /\ call[c].lent /\ RightfulUse(h, worker[h], call[c].binding, key[c], holder[c])
      BY <3>2, Zenon DEF UseInv
    <3>4. RightfulUse(h, worker[h], call[c].binding, key[c], holder'[c])
      BY <1>6, <2>1, <3>3, Zenon DEF RightfulUse
    <3>. QED  BY <1>3, <3>1, <3>3, <3>4, Zenon DEF UseInv
  <2>. QED  BY <1>1, <1>5, <2>1, Zenon DEF WorkerInv
<1>. QED  BY <1>2, <1>4, <1>7

LEMMA UseStep ==
    ASSUME TypeOK, CallInv, WorkerInv, NEW g \in Workers, NEW op \in Operations, Use(g, op)
    PROVE  TypeOK' /\ CallInv' /\ WorkerInv'
<1>. DEFINE w == [pc |-> "waiting", op |-> op]
<1>1. w \in WorkerState /\ w.pc = "waiting" /\ w.op = op
  BY Zenon DEF WorkerState
<1>2. /\ worker[g].pc \notin {"waiting", "working"} /\ call[op.cipher].lent
      /\ worker' = [worker EXCEPT ![g] = w]
      /\ UNCHANGED <<live, controlVars, call, key, overtime>> /\ holder' = holder
  BY Zenon DEF Use
<1>. HIDE DEF w
<1>3. worker'[g] = w /\ call' = call
  BY <1>2, Zenon DEF TypeOK
<1>4. ASSUME NEW c \in Calls, holder'[c] = g PROVE w.pc = "working" /\ w.op.cipher = c
  <2>1. g # None
    BY CustodyAssumption
  <2>. QED  BY <1>2, <1>4, <2>1, Zenon DEF WorkerInv
<1>5. UseInv(g)'
  BY <1>1, <1>2, <1>3, Zenon DEF UseInv, RightfulUse
<1>6. holder' \in [Calls -> Workers \cup {None}] /\ overtime' \in [Calls -> Nat]
  BY <1>2, Zenon DEF TypeOK
<1>. QED  BY <1>1, <1>2, <1>4, <1>5, <1>6, WorkerKept, Zenon

LEMMA LockStep ==
    ASSUME TypeOK, CallInv, WorkerInv, NEW g \in Workers, Lock(g)
    PROVE  TypeOK' /\ CallInv' /\ WorkerInv'
<1>. DEFINE op == worker[g].op
            b == call[op.cipher].binding
            w == [worker[g] EXCEPT !.pc = "working"]
<1>1. /\ worker[g].pc = "waiting" /\ holder[op.cipher] = None
      /\ UNCHANGED <<live, controlVars, call, key>>
  BY Zenon DEF Lock
<1>2. op \in Operations /\ op.cipher \in Calls /\ op.ctx \in Invocations /\ call[op.cipher].lent
  BY <1>1, OperationFacts, Zenon DEF WorkerInv, UseInv, RightfulUse
<1>3. g # None /\ call' = call /\ key' = key
  BY <1>1, CustodyAssumption
<1>4. ASSUME NEW c \in Calls PROVE holder[c] # g
  BY <1>1, <1>3, Zenon DEF WorkerInv
<1>5. overtime' \in [Calls -> Nat]
  BY Zenon DEF Lock, TypeOK
<1>6. CASE Proceeds(op)
  <2>1. holder' = [holder EXCEPT ![op.cipher] = g] /\ worker' = [worker EXCEPT ![g] = w]
    BY <1>6, Zenon DEF Lock
  <2>2. key[op.cipher] # None /\ (op.manifest # None => op.object = b.object)
    BY <1>6, Zenon DEF Proceeds, Usable, ExactPayload
  <2>3. w \in WorkerState /\ w.pc = "working" /\ w.op = op
    BY <1>2, WorkerFacts, Zenon DEF WorkerState
  <2>. HIDE DEF w
  <2>4. /\ holder' \in [Calls -> Workers \cup {None}] /\ holder'[op.cipher] = g
        /\ \A c \in Calls : c # op.cipher => holder'[c] = holder[c]
        /\ worker'[g] = w
    BY <1>2, <2>1, Zenon DEF TypeOK
  <2>5. UseInv(g)'
    <3>. HIDE DEF op
    <3>. QED  BY <1>2, <1>3, <2>2, <2>3, <2>4, Zenon DEF UseInv, RightfulUse
  <2>6. ASSUME NEW c \in Calls
        PROVE  /\ holder'[c] = holder[c] \/ {holder[c], holder'[c]} = {g, None}
               /\ holder'[c] = g => w.pc = "working" /\ w.op.cipher = c
    BY <1>1, <1>4, <2>3, <2>4
  <2>7. /\ \A c \in Calls : holder'[c] = holder[c] \/ {holder[c], holder'[c]} = {g, None}
        /\ \A c \in Calls : holder'[c] = g => w.pc = "working" /\ w.op.cipher = c
    BY <2>6
  <2>. HIDE DEF op
  <2>8. w \in WorkerState /\ worker' = [worker EXCEPT ![g] = w]
        /\ holder' \in [Calls -> Workers \cup {None}] /\ UNCHANGED <<live, controlVars, call, key>>
    BY <1>1, <2>1, <2>3, <2>4, Zenon
  <2>. QED  BY <1>5, <2>5, <2>7, <2>8, WorkerKept, Zenon
<1>7. CASE ~Proceeds(op)
  <2>1. holder' = holder /\ worker' = [worker EXCEPT ![g] = Idle]
    BY <1>7, Zenon DEF Lock
  <2>2. Idle \in WorkerState /\ Idle.pc = "idle"
    BY Zenon DEF Idle, WorkerState
  <2>3. holder' \in [Calls -> Workers \cup {None}]
    BY <2>1, Zenon DEF TypeOK
  <2>. QED  BY <1>1, <1>4, <1>5, <2>1, <2>2, <2>3, WorkerKept, Zenon
<1>. QED  BY <1>6, <1>7

LEMMA FinishStep ==
    ASSUME TypeOK, CallInv, WorkerInv, NEW g \in Workers, NEW result, Finish(g, result)
    PROVE  TypeOK' /\ CallInv' /\ WorkerInv'
<1>. DEFINE op == worker[g].op
            b == call[op.cipher].binding
            w == IF result = "idle" THEN Idle ELSE [worker[g] EXCEPT !.pc = result]
<1>1. /\ worker[g].pc = "working" /\ result \in Results(op)
      /\ worker' = [worker EXCEPT ![g] = w]
      /\ holder' = [holder EXCEPT ![op.cipher] = None]
      /\ UNCHANGED <<live, controlVars, call, key>>
  BY Zenon DEF Finish, Unlocked
<1>2. /\ op \in Operations /\ op.cipher \in Calls /\ call[op.cipher].lent
      /\ holder[op.cipher] = g /\ key[op.cipher] # None
      /\ op.manifest # None => op.object = b.object
  BY <1>1, OperationFacts, Zenon DEF WorkerInv, UseInv, RightfulUse
<1>3. /\ result \in {"sealed", "opened", "idle"}
      /\ result = "opened" => op.manifest # None
  BY <1>1, Zenon DEF Results
<1>4. overtime' \in [Calls -> Nat]
  <2>1. overtime[op.cipher] + 1 \in Nat
    BY <1>2 DEF TypeOK
  <2>2. overtime' = overtime \/ overtime' = [overtime EXCEPT ![op.cipher] = overtime[op.cipher] + 1]
    BY Zenon DEF Finish
  <2>. QED  BY <2>1, <2>2, Zenon DEF TypeOK
<1>5. w \in WorkerState /\ w.pc = result /\ (w.pc # "idle" => w.op = op)
  <2>1. Idle \in WorkerState /\ Idle.pc = "idle"
    BY Zenon DEF Idle, WorkerState
  <2>2. result # "idle" => /\ [worker[g] EXCEPT !.pc = result] \in WorkerState
                           /\ [worker[g] EXCEPT !.pc = result].pc = result
                           /\ [worker[g] EXCEPT !.pc = result].op = op
    BY <1>3, WorkerFacts, Zenon DEF WorkerState
  <2>. QED  BY <2>1, <2>2, Zenon
<1>. HIDE DEF w
<1>6. g # None /\ call' = call /\ key' = key
  BY <1>1, CustodyAssumption
<1>7. /\ holder' \in [Calls -> Workers \cup {None}] /\ holder'[op.cipher] = None
      /\ \A c \in Calls : c # op.cipher => holder'[c] = holder[c]
      /\ worker'[g] = w
  BY <1>1, <1>2, Zenon DEF TypeOK
<1>8. w.pc # "idle" => UseInv(g)'
  <2>1. w.pc # "idle" => RightfulUse(g, w, b, key[op.cipher], holder'[op.cipher])
    BY <1>2, <1>3, <1>5 DEF RightfulUse
  <2>. QED  BY <1>2, <1>5, <1>6, <1>7, <2>1, Zenon DEF UseInv
<1>9. ASSUME NEW c \in Calls
      PROVE  /\ holder'[c] = holder[c] \/ {holder[c], holder'[c]} = {g, None}
             /\ holder'[c] # g
  <2>1. CASE c = op.cipher
    BY <1>2, <1>6, <1>7, <2>1
  <2>2. CASE c # op.cipher
    <3>1. holder[c] = g => worker[g].op.cipher = c
      BY <1>6, Zenon DEF WorkerInv
    <3>. QED  BY <1>7, <2>2, <3>1, Zenon
  <2>. QED  BY <2>1, <2>2
<1>. QED  BY <1>1, <1>4, <1>5, <1>7, <1>8, <1>9, WorkerKept, Zenon

-----------------------------------------------------------------------------
\* A step of nobody that the invariant speaks of.
LEMMA StateKept ==
    ASSUME PayloadInv, CallInv, WorkerInv,
           UNCHANGED <<payload, head, call, key, holder, worker>>
    PROVE  PayloadInv' /\ CallInv' /\ WorkerInv'
<1>1. /\ payload' = payload /\ head' = head /\ call' = call /\ key' = key
      /\ holder' = holder /\ worker' = worker
  OBVIOUS
<1>2. PayloadInv'
  BY <1>1, Zenon DEF PayloadInv
<1>3. CallInv'
  BY <1>1 DEF CallInv, BoundAsPlanned
<1>4. WorkerInv'
  BY <1>1 DEF WorkerInv, UseInv
<1>. QED  BY <1>2, <1>3, <1>4

\* What keeps the count of results after the end of an invocation right.
LEMMA OvertimeStays ==
    ASSUME OvertimeInv, UNCHANGED <<holder, overtime>>,
           \A c \in Calls : call[c].lent => call'[c].lent /\ call'[c].invocation = call[c].invocation,
           \A c \in Calls : call[c].lent /\ ~live[call[c].invocation] => ~live'[call[c].invocation]
    PROVE  OvertimeInv'
BY Zenon DEF OvertimeInv

\* A lent cipher is bound to the invocation of its call.
LEMMA LentBound ==
    ASSUME CallInv, NEW c \in Calls, call[c].lent
    PROVE  call[c].binding = BindingOf(call[c].invocation, call[c].manifest)
           /\ call[c].binding.invocation = call[c].invocation
<1>1. call[c].binding = BindingOf(call[c].invocation, call[c].manifest)
  BY Zenon DEF CallInv, BoundAsPlanned
<1>. QED  BY <1>1 DEF BindingOf

LEMMA OvertimeStep ==
    ASSUME TypeOK, CallInv, WorkerInv, OvertimeInv, NEW g \in Workers,
           Lock(g) \/ \E result \in {"idle", "sealed", "opened"} : Finish(g, result)
    PROVE  OvertimeInv'
<1>1. PICK op : op = worker[g].op
  OBVIOUS
<1>2. UNCHANGED <<live, call>> /\ worker[g].pc \in {"waiting", "working"}
  BY Zenon DEF Lock, Finish
<1>3. op \in Operations /\ op.cipher \in Calls /\ call[op.cipher].lent
  BY <1>1, <1>2, OperationFacts, Zenon DEF WorkerInv, UseInv
<1>4. CASE Lock(g) /\ Proceeds(op)
  <2>1. holder' = [holder EXCEPT ![op.cipher] = g] /\ UNCHANGED overtime
    BY <1>1, <1>4, Zenon DEF Lock
  <2>2. live[call[op.cipher].invocation]
    <3>1. MatchesInvocation(call[op.cipher].binding, op.ctx)
      BY <1>4, Zenon DEF Proceeds, Usable
    <3>. QED  BY <1>3, <3>1, LentBound, Zenon DEF MatchesInvocation
  <2>3. overtime[op.cipher] = 0
    BY <1>3, <2>2, Zenon DEF OvertimeInv
  <2>4. \A c \in Calls : c # op.cipher => holder'[c] = holder[c]
    BY <2>1, Zenon DEF TypeOK
  <2>. QED  BY <1>2, <2>1, <2>3, <2>4, Zenon DEF OvertimeInv
<1>5. CASE Lock(g) /\ ~Proceeds(op)
  <2>1. UNCHANGED <<holder, overtime>>
    BY <1>1, <1>5, Zenon DEF Lock
  <2>. QED  BY <1>2, <2>1, OvertimeStays, Zenon
<1>6. ASSUME NEW result, Finish(g, result) PROVE OvertimeInv'
  <2>1. /\ worker[g].pc = "working" /\ holder' = [holder EXCEPT ![op.cipher] = None]
        /\ \/ overtime' = overtime
           \/ /\ ~live[call[op.cipher].invocation]
              /\ overtime' = [overtime EXCEPT ![op.cipher] = overtime[op.cipher] + 1]
    BY <1>1, <1>6, Zenon DEF Finish, Unlocked
  <2>2. /\ holder'[op.cipher] = None /\ \A c \in Calls : c # op.cipher => holder'[c] = holder[c]
    BY <1>3, <2>1, Zenon DEF TypeOK
  <2>3. CASE overtime' = overtime
    BY <1>2, <2>2, <2>3, Zenon DEF OvertimeInv
  <2>4. CASE /\ ~live[call[op.cipher].invocation]
             /\ overtime' = [overtime EXCEPT ![op.cipher] = overtime[op.cipher] + 1]
    <3>1. holder[op.cipher] = g /\ g # None
      BY <1>1, <2>1, CustodyAssumption, Zenon DEF WorkerInv, UseInv, RightfulUse
    <3>2. overtime[op.cipher] = 0
      BY <1>3, <3>1, Zenon DEF OvertimeInv
    <3>3. /\ overtime'[op.cipher] = 0 + 1
          /\ \A c \in Calls : c # op.cipher => overtime'[c] = overtime[c]
      BY <1>3, <2>4, <3>2, Zenon DEF TypeOK
    <3>4. overtime'[op.cipher] <= 1
      BY <3>3
    <3>. QED  BY <1>2, <1>3, <2>2, <2>4, <3>3, <3>4, Zenon DEF OvertimeInv
  <2>. QED  BY <2>1, <2>3, <2>4, Zenon
<1>. QED  BY <1>4, <1>5, <1>6, Zenon

\* Every step keeps the invariant.
LEMMA CustodyStep == CustodyInv /\ [Next]_vars => CustodyInv'
<1>. SUFFICES ASSUME TypeOK, PayloadInv, CallInv, WorkerInv, OvertimeInv, [Next]_vars
              PROVE  TypeOK' /\ PayloadInv' /\ CallInv' /\ WorkerInv' /\ OvertimeInv'
  BY Zenon DEF CustodyInv
<1>1. CASE Rewrap \/ \E w \in Writers : BeginUpload(w) \/ UploadObject(w) \/ Commit(w)
  <2>1. /\ TypeOK' /\ PayloadInv' /\ KeepsObjects
        /\ call' = call /\ key' = key /\ holder' = holder /\ worker' = worker
        /\ live' = live /\ overtime' = overtime
    BY <1>1, WriterStep
  <2>2. ASSUME NEW c \in Calls, BoundAsPlanned(c) PROVE BoundAsPlanned(c)'
    BY <2>1, <2>2, Zenon DEF BoundAsPlanned, KeepsObjects
  <2>3. CallInv'
    BY <2>1, <2>2, Zenon DEF CallInv
  <2>4. WorkerInv'
    BY <2>1 DEF WorkerInv, UseInv
  <2>5. OvertimeInv'
    BY <2>1, OvertimeStays, Zenon
  <2>. QED  BY <2>1, <2>3, <2>4, <2>5
<1>2. ASSUME NEW c \in Calls, CallSteps(c) PROVE TypeOK' /\ PayloadInv' /\ CallInv' /\ WorkerInv' /\ OvertimeInv'
  <2>1. /\ TypeOK' /\ PayloadInv' /\ CallInv' /\ OthersKept(c) /\ LentKept
        /\ holder[c] # None /\ call[c].lent /\ key[c] # None => key'[c] # None
    BY <1>2, CallStep
  <2>2. /\ \A d \in Calls : holder[d] # None /\ call[d].lent /\ key[d] # None => key'[d] # None
        /\ UNCHANGED <<live, holder, worker, overtime>>
    BY <2>1, Zenon DEF OthersKept
  <2>3. OvertimeInv'
    BY <2>1, <2>2, OvertimeStays, Zenon DEF LentKept
  <2>. QED  BY <2>1, <2>2, <2>3, WorkersKept
<1>3. ASSUME NEW g \in Workers,
             \/ EncryptValue(g) \/ OpenPayload(g) \/ Lock(g)
             \/ \E result \in {"idle", "sealed", "opened"} : Finish(g, result)
      PROVE  TypeOK' /\ PayloadInv' /\ CallInv' /\ WorkerInv' /\ OvertimeInv'
  <2>1. UNCHANGED <<payload, head>>
    BY <1>3, Zenon DEF EncryptValue, OpenPayload, Use, Lock, Finish, controlVars
  <2>2. PayloadInv'
    BY <2>1, Zenon DEF PayloadInv
  <2>5. OvertimeInv'
    <3>1. CASE EncryptValue(g) \/ OpenPayload(g)
      <4>1. UNCHANGED <<live, call, holder, overtime>>
        BY <3>1, Zenon DEF EncryptValue, OpenPayload, Use
      <4>. QED  BY <4>1, OvertimeStays, Zenon
    <3>. QED  BY <1>3, <3>1, OvertimeStep, Zenon
  <2>3. CASE EncryptValue(g)
    <3>1. ASSUME NEW c \in Calls, NEW i \in Invocations
          PROVE  [cipher |-> c, ctx |-> i, manifest |-> None, object |-> None] \in Operations
      BY Zenon DEF Operations
    <3>. QED  BY <2>2, <2>3, <2>5, <3>1, UseStep, Zenon DEF EncryptValue
  <2>4. CASE OpenPayload(g)
    <3>1. ASSUME NEW c \in Calls, NEW i \in Invocations, NEW m \in Received, NEW lease \in Received,
                 NEW o \in Downloads(lease)
          PROVE  [cipher |-> c, ctx |-> i, manifest |-> m, object |-> o] \in Operations
      <4>1. m \in Manifests
        BY CallFacts, Zenon DEF Received
      <4>2. o \in Writers
        BY Zenon DEF Downloads, TypeOK
      <4>. QED  BY <4>1, <4>2, Zenon DEF Operations
    <3>. QED  BY <2>2, <2>4, <2>5, <3>1, UseStep, Zenon DEF OpenPayload
  <2>. QED  BY <1>3, <2>2, <2>3, <2>4, <2>5, LockStep, FinishStep, Zenon
<1>4. ASSUME NEW i \in Invocations, End(i) PROVE TypeOK' /\ PayloadInv' /\ CallInv' /\ WorkerInv' /\ OvertimeInv'
  <2>1. /\ UNCHANGED <<upload, stored, payload, head, call, key, holder, worker, overtime>>
        /\ live' \in [Invocations -> BOOLEAN]
    BY <1>4 DEF End, controlVars, TypeOK
  <2>2. \A j \in Invocations : ~live[j] => ~live'[j]
    BY <1>4, Zenon DEF End, TypeOK
  <2>3. \A c \in Calls : call[c].lent => call[c].invocation \in Invocations
    BY Zenon DEF CallInv
  <2>4. OvertimeInv'
    BY <2>1, <2>2, <2>3, OvertimeStays, Zenon
  <2>. QED  BY <2>1, <2>4, StateKept, Zenon DEF TypeOK
<1>5. CASE UNCHANGED vars
  BY <1>5, StateKept, OvertimeStays, Zenon DEF vars, controlVars, TypeOK
<1>. QED  BY <1>1, <1>2, <1>3, <1>4, <1>5, Zenon DEF Next, CallSteps

\* The invariant of Control's versions, of the calls and of the goroutines.
THEOREM CustodyInvariance == Spec => []CustodyInv
<1>1. Init => CustodyInv
  <2>. SUFFICES ASSUME Init PROVE CustodyInv
    OBVIOUS
  <2>1. 0 \in 0..MaxVersion /\ 0 \in 0..(MaxVersion - 1) /\ \A v \in Versions : ~(v <= 0)
    BY CustodyAssumption DEF Versions
  <2>2. TypeOK
    BY <2>1, Zenon DEF Init, TypeOK, UploadState, CallState, WorkerState, Idle
  <2>3. PayloadInv
    BY <2>1, Zenon DEF Init, PayloadInv
  <2>4. CallInv
    BY Zenon DEF Init, CallInv
  <2>5. WorkerInv
    BY Zenon DEF Init, WorkerInv, Idle
  <2>6. OvertimeInv
    <3>1. \A c \in Calls : overtime[c] = 0
      BY Zenon DEF Init
    <3>. QED  BY <3>1 DEF OvertimeInv
  <2>. QED  BY <2>2, <2>3, <2>4, <2>5, <2>6 DEF CustodyInv
<1>. QED  BY <1>1, CustodyStep, PTL DEF Spec

\* The key of a call is there while an operation works with it, under the
\* mutex, and gone for good once WithPayloadCustody has returned.
THEOREM KeyLifetime == Spec => []KeyLivesWithItsCall
<1>1. CustodyInv => KeyLivesWithItsCall
  <2>. SUFFICES ASSUME CustodyInv PROVE KeyLivesWithItsCall
    OBVIOUS
  <2>1. \A g \in Workers : worker[g].pc = "working" =>
          key[worker[g].op.cipher] # None /\ holder[worker[g].op.cipher] = g
    BY Zenon DEF CustodyInv, WorkerInv, UseInv, RightfulUse
  <2>2. ASSUME NEW c \in Calls, call[c].pc \in {"returned", "failed"}
        PROVE  key[c] = None /\ holder[c] = None
    <3>1. key[c] = None
      BY <2>2, Zenon DEF CustodyInv, CallInv
    <3>2. holder[c] # None => holder[c] \in Workers
      BY Zenon DEF CustodyInv, TypeOK
    <3>. QED  BY <2>1, <3>1, <3>2, Zenon DEF CustodyInv, WorkerInv
  <2>. QED  BY <2>1, <2>2, Zenon DEF KeyLivesWithItsCall
<1>. QED  BY <1>1, CustodyInvariance, PTL

\* After the end of an invocation each of its ciphers returns one result at
\* most, and what a cipher seals is bound to the call it was lent to.
THEOREM ServesItsCall == Spec => []CipherServesItsCall
<1>1. CustodyInv => CipherServesItsCall
  <2>. SUFFICES ASSUME CustodyInv PROVE CipherServesItsCall
    OBVIOUS
  <2>1. \A c \in Calls : overtime[c] <= 1
    BY Zenon DEF CustodyInv, OvertimeInv
  <2>2. ASSUME NEW g \in Workers, worker[g].pc = "sealed"
        PROVE  call[worker[g].op.cipher].binding =
                 BindingOf(call[worker[g].op.cipher].invocation, call[worker[g].op.cipher].manifest)
    <3>1. worker[g].op.cipher \in Calls /\ call[worker[g].op.cipher].lent
      BY <2>2, OperationFacts, Zenon DEF CustodyInv, WorkerInv, UseInv
    <3>. QED  BY <3>1, LentBound, Zenon DEF CustodyInv
  <2>. QED  BY <2>1, <2>2, Zenon DEF CipherServesItsCall
<1>. QED  BY <1>1, CustodyInvariance, PTL

\* OpenPayload under a call opens the object of the version it planned.
THEOREM PlannedOpened == Spec => []OpenedAsPlanned
<1>1. CustodyInv => OpenedAsPlanned
  <2>. SUFFICES ASSUME CustodyInv, NEW g \in Workers, worker[g].pc = "opened"
                PROVE  worker[g].op.object = payload[call[worker[g].op.cipher].planned].object
    BY Zenon DEF OpenedAsPlanned
  <2>1. /\ worker[g].op.cipher \in Calls /\ call[worker[g].op.cipher].lent
        /\ worker[g].op.object = call[worker[g].op.cipher].binding.object
    BY OperationFacts, Zenon DEF CustodyInv, WorkerInv, UseInv, RightfulUse
  <2>. QED  BY <2>1, Zenon DEF CustodyInv, CallInv, BoundAsPlanned
<1>. QED  BY <1>1, CustodyInvariance, PTL


-----------------------------------------------------------------------------
leaseVars == <<Held, holder, Over>>

\* The lease does not see what leaves the keys, the mutex and the place of
\* every call between start and end alone.
LEMMA SameHeld == ASSUME UNCHANGED key PROVE Held' = Held
BY Zenon DEF Held

LEMMA SameOver ==
    ASSUME \A c \in Calls : call'[c].pc \in {"returned", "failed"} <=> call[c].pc \in {"returned", "failed"}
    PROVE  Over' = Over
BY Zenon DEF Over

\* A call that moves alone.
LEMMA OneCallMoves ==
    ASSUME TypeOK, NEW c \in Calls, NEW s, call' = [call EXCEPT ![c] = s]
    PROVE  call'[c] = s /\ \A d \in Calls : d # c => call'[d] = call[d]
BY Zenon DEF TypeOK

\* The steps of a call before it has its key, and its callback's return.
LEMMA CallWaits ==
    ASSUME CustodyInv, NEW c \in Calls,
           \/ Begin(c) \/ Identify(c) \/ Return(c)
           \/ \E v \in 1..head : Access(c, payload[v])
    PROVE  UNCHANGED leaseVars
<1>0. TypeOK
  BY Zenon DEF CustodyInv
<1>1. UNCHANGED <<key, holder>>
  BY Zenon DEF Begin, Identify, Return, Access
<1>2. /\ call[c].pc \in {"idle", "identify", "access", "open"}
      /\ \E s : call' = [call EXCEPT ![c] = s] /\ s.pc \in {"identify", "access", "provider", "closing"}
  <2>1. call[c] \in CallState
    BY <1>0, Zenon DEF TypeOK
  <2>2. CASE Begin(c)
    <3>1. PICK i \in Invocations, v \in Versions :
            call' = [call EXCEPT ![c] = [call[c] EXCEPT !.pc = "identify", !.invocation = i, !.planned = v]]
      BY <2>2, Zenon DEF Begin
    <3>2. [call[c] EXCEPT !.pc = "identify", !.invocation = i, !.planned = v].pc = "identify"
      BY <2>1 DEF CallState
    <3>. QED  BY <2>2, <3>1, <3>2, Zenon DEF Begin
  <2>3. CASE Identify(c)
    <3>1. [call[c] EXCEPT !.pc = "access"].pc = "access"
      BY <2>1 DEF CallState
    <3>2. call' = [call EXCEPT ![c] = [call[c] EXCEPT !.pc = "access"]]
      BY <2>3, Zenon DEF Identify
    <3>. QED  BY <2>3, <3>1, <3>2, Zenon DEF Identify
  <2>4. CASE Return(c)
    <3>1. [call[c] EXCEPT !.pc = "closing"].pc = "closing"
      BY <2>1 DEF CallState
    <3>2. call' = [call EXCEPT ![c] = [call[c] EXCEPT !.pc = "closing"]]
      BY <2>4, Zenon DEF Return
    <3>. QED  BY <2>4, <3>1, <3>2, Zenon DEF Return
  <2>5. ASSUME NEW m, Access(c, m)
        PROVE  /\ call[c].pc = "access"
               /\ \E s : call' = [call EXCEPT ![c] = s] /\ s.pc = "provider"
    <3>1. PICK b : call' = [call EXCEPT ![c] = [call[c] EXCEPT !.pc = "provider", !.manifest = m, !.binding = b]]
      BY <2>5, Zenon DEF Access
    <3>2. [call[c] EXCEPT !.pc = "provider", !.manifest = m, !.binding = b].pc = "provider"
      BY <2>1 DEF CallState
    <3>. QED  BY <2>5, <3>1, <3>2, Zenon DEF Access
  <2>. QED  BY <2>2, <2>3, <2>4, <2>5, Zenon
<1>3. PICK s : call' = [call EXCEPT ![c] = s] /\ s.pc \in {"identify", "access", "provider", "closing"}
  BY <1>2, Zenon
<1>4. call'[c] = s /\ \A d \in Calls : d # c => call'[d] = call[d]
  BY <1>0, <1>3, OneCallMoves, Zenon
<1>5. Over' = Over
  <2>1. ASSUME NEW d \in Calls
        PROVE  call'[d].pc \in {"returned", "failed"} <=> call[d].pc \in {"returned", "failed"}
    <3>1. CASE d = c
      BY <1>2, <1>3, <1>4, <3>1, Zenon
    <3>2. CASE d # c
      BY <1>4, <3>2, Zenon
    <3>. QED  BY <3>1, <3>2, Zenon
  <2>. QED  BY <2>1, SameOver, Zenon
<1>. QED  BY <1>1, <1>5, SameHeld, Zenon DEF leaseVars

\* The call that ends, with or without its key.
LEMMA OverGrows ==
    ASSUME TypeOK, NEW c \in Calls, NEW q \in {"returned", "failed"},
           call' = [call EXCEPT ![c].pc = q]
    PROVE  Over' = Over \cup {c}
<1>1. call' = [call EXCEPT ![c] = [call[c] EXCEPT !.pc = q]]
  BY Zenon
<1>2. call[c] \in CallState
  BY Zenon DEF TypeOK
<1>3. [call[c] EXCEPT !.pc = q].pc = q
  BY <1>2 DEF CallState
<1>4. call'[c].pc = q /\ \A d \in Calls : d # c => call'[d] = call[d]
  BY <1>1, <1>3, OneCallMoves, Zenon
<1>. QED  BY <1>4, Zenon DEF Over


LEMMA CallRefines ==
    ASSUME CustodyInv, NEW c \in Calls,
           \/ Fail(c) \/ Clear(c)
           \/ \E d \in Calls : call[d].binding # None /\ Provide(c, call[d].binding)
    PROVE  Lease!Next
<1>0. TypeOK /\ CallInv /\ WorkerInv
  BY Zenon DEF CustodyInv
<1>1. CASE Fail(c)
  <2>1. /\ call[c].pc \in {"identify", "access", "provider"} /\ UNCHANGED <<key, holder>>
        /\ call' = [call EXCEPT ![c].pc = "failed"]
    BY <1>1, Zenon DEF Fail
  <2>2. key[c] = None
    BY <1>0, <2>1, Zenon DEF CallInv
  <2>3. c \notin Held \cup Over
    BY <2>1, <2>2, Zenon DEF Held, Over
  <2>4. Lease!Refuse(c)
    BY <1>0, <2>1, <2>3, OverGrows, SameHeld, Zenon DEF Lease!Refuse
  <2>. QED  BY <2>4, Zenon DEF Lease!Next
<1>2. CASE Clear(c)
  <2>1. /\ call[c].pc = "closing" /\ holder[c] = None /\ UNCHANGED holder
        /\ key' = [key EXCEPT ![c] = None] /\ call' = [call EXCEPT ![c].pc = "returned"]
    BY <1>2, Zenon DEF Clear, MayClear
  <2>2. key[c] # None
    <3>1. call[c].binding \in Bindings /\ key[c] = call[c].binding.keyVersion
      BY <1>0, <2>1, CallFacts, Zenon DEF CallInv
    <3>2. call[c].binding.keyVersion \in KeyVersions
      BY <3>1, Zenon DEF Bindings
    <3>. QED  BY <3>1, <3>2, CustodyAssumption DEF KeyVersions
  <2>3. Held' = Held \ {c} /\ c \in Held
    <3>1. key'[c] = None /\ \A d \in Calls : d # c => key'[d] = key[d]
      BY <1>0, <2>1, Zenon DEF TypeOK
    <3>. QED  BY <2>2, <3>1, Zenon DEF Held
  <2>4. Lease!Drop(c)
    BY <1>0, <2>1, <2>3, OverGrows, Zenon DEF Lease!Drop
  <2>. QED  BY <2>4, Zenon DEF Lease!Next
<1>3. ASSUME NEW d \in Calls, call[d].binding # None, Provide(c, call[d].binding) PROVE Lease!Next
  <2>1. PICK b : b = call[d].binding
    BY Zenon
  <2>2. /\ call[c].pc = "provider" /\ UNCHANGED holder
        /\ key' = [key EXCEPT ![c] = b.keyVersion]
        /\ call' = [call EXCEPT ![c] =
             [call[c] EXCEPT !.pc = IF Lends(c, b) THEN "open" ELSE "closing",
                             !.binding = b, !.lent = Lends(c, b)]]
    BY <1>3, <2>1, Zenon DEF Provide
  <2>3. b.keyVersion # None
    <3>1. b \in Bindings
      BY <1>0, <1>3, <2>1, CallFacts, Zenon
    <3>2. b.keyVersion \in KeyVersions
      BY <3>1, Zenon DEF Bindings
    <3>. QED  BY <3>2, CustodyAssumption DEF KeyVersions
  <2>4. Held' = Held \cup {c}
    <3>1. key'[c] = b.keyVersion /\ \A e \in Calls : e # c => key'[e] = key[e]
      BY <1>0, <2>2, Zenon DEF TypeOK
    <3>. QED  BY <2>3, <3>1, Zenon DEF Held
  <2>5. key[c] = None
    BY <1>0, <2>2, Zenon DEF CallInv
  <2>6. c \notin Held \cup Over
    BY <2>2, <2>5, Zenon DEF Held, Over
  <2>7. PICK s : s = [call[c] EXCEPT !.pc = IF Lends(c, b) THEN "open" ELSE "closing",
                                    !.binding = b, !.lent = Lends(c, b)]
    BY Zenon
  <2>8. s.pc \in {"open", "closing"}
    <3>1. call[c] \in CallState
      BY <1>0, Zenon DEF TypeOK
    <3>. QED  BY <2>7, <3>1 DEF CallState
  <2>9. call'[c] = s /\ \A e \in Calls : e # c => call'[e] = call[e]
    BY <1>0, <2>2, <2>7, OneCallMoves, Zenon
  <2>10. Over' = Over
    <3>1. ASSUME NEW e \in Calls
          PROVE  call'[e].pc \in {"returned", "failed"} <=> call[e].pc \in {"returned", "failed"}
      <4>1. CASE e = c
        BY <2>2, <2>8, <2>9, <4>1, Zenon
      <4>2. CASE e # c
        BY <2>9, <4>2, Zenon
      <4>. QED  BY <4>1, <4>2, Zenon
    <3>. QED  BY <3>1, SameOver, Zenon
  <2>11. Lease!Take(c)
    BY <2>2, <2>4, <2>6, <2>10, Zenon DEF Lease!Take
  <2>. QED  BY <2>11, Zenon DEF Lease!Next
<1>. QED  BY <1>1, <1>2, <1>3, Zenon

\* A goroutine takes the mutex, or gives it back.
LEMMA WorkerRefines ==
    ASSUME CustodyInv, NEW g \in Workers, Lock(g) \/ \E result \in {"idle", "sealed", "opened"} : Finish(g, result)
    PROVE  Lease!Next \/ UNCHANGED leaseVars
<1>0. TypeOK /\ CallInv /\ WorkerInv
  BY Zenon DEF CustodyInv
<1>1. PICK op : op = worker[g].op
  BY Zenon
<1>2. UNCHANGED <<call, key>> /\ worker[g].pc \in {"waiting", "working"}
  BY Zenon DEF Lock, Finish
<1>3. Held' = Held /\ Over' = Over
  BY <1>2, SameHeld, SameOver, Zenon
<1>4. op \in Operations /\ op.cipher \in Calls
  BY <1>0, <1>1, <1>2, OperationFacts, Zenon DEF WorkerInv, UseInv
<1>5. CASE Lock(g) /\ Proceeds(op)
  <2>1. /\ worker[g].pc = "waiting" /\ holder[op.cipher] = None
        /\ holder' = [holder EXCEPT ![op.cipher] = g]
    BY <1>1, <1>5, Zenon DEF Lock
  <2>2. op.cipher \in Held
    BY <1>4, <1>5, Zenon DEF Proceeds, Usable, Held
  <2>3. \A d \in Calls : holder[d] # g
    <3>. SUFFICES ASSUME NEW d \in Calls, holder[d] = g PROVE FALSE
      BY Zenon
    <3>1. g # None /\ "waiting" # "working"
      BY CustodyAssumption
    <3>2. worker[g].pc = "working"
      BY <1>0, <3>1, Zenon DEF WorkerInv
    <3>. QED  BY <2>1, <3>1, <3>2, Zenon
  <2>4. Lease!Use(op.cipher, g)
    BY <1>3, <2>1, <2>2, <2>3, Zenon DEF Lease!Use
  <2>. QED  BY <1>4, <2>4, Zenon DEF Lease!Next
<1>6. CASE Lock(g) /\ ~Proceeds(op)
  BY <1>1, <1>3, <1>6, Zenon DEF Lock, leaseVars
<1>7. CASE \E result \in {"idle", "sealed", "opened"} : Finish(g, result)
  <2>1. worker[g].pc = "working" /\ holder' = [holder EXCEPT ![op.cipher] = None]
    BY <1>1, <1>7, Zenon DEF Finish, Unlocked
  <2>2. holder[op.cipher] = g /\ key[op.cipher] # None
    BY <1>0, <1>1, <2>1, Zenon DEF WorkerInv, UseInv, RightfulUse
  <2>3. op.cipher \in Held
    BY <1>4, <2>2, Zenon DEF Held
  <2>4. Lease!Release(op.cipher, g)
    BY <1>3, <2>1, <2>2, <2>3, Zenon DEF Lease!Release
  <2>. QED  BY <1>4, <2>4, Zenon DEF Lease!Next
<1>. QED  BY <1>5, <1>6, <1>7, Zenon

\* Every step is a step of the lease or leaves it alone.
LEMMA StepKeepsLease ==
    ASSUME CustodyInv, [Next]_vars
    PROVE  Lease!Next \/ UNCHANGED leaseVars
<1>1. ASSUME UNCHANGED <<call, key, holder>> PROVE UNCHANGED leaseVars
  BY <1>1, SameHeld, SameOver, Zenon DEF leaseVars
<1>2. CASE UNCHANGED vars
  BY <1>1, <1>2, Zenon DEF vars
<1>3. CASE Rewrap \/ \E w \in Writers : BeginUpload(w) \/ UploadObject(w) \/ Commit(w)
  <2>1. UNCHANGED <<call, key, holder>>
    BY <1>3, Zenon DEF Rewrap, BeginUpload, UploadObject, Commit
  <2>. QED  BY <1>1, <2>1, Zenon
<1>4. CASE \E g \in Workers : EncryptValue(g) \/ OpenPayload(g)
  <2>1. UNCHANGED <<call, key, holder>>
    BY <1>4, Zenon DEF EncryptValue, OpenPayload, Use
  <2>. QED  BY <1>1, <2>1, Zenon
<1>5. CASE \E i \in Invocations : End(i)
  BY <1>1, <1>5, Zenon DEF End
<1>. QED
  BY <1>2, <1>3, <1>4, <1>5, CallWaits, CallRefines, WorkerRefines, Zenon DEF Next

\* The key state that the copies of a cipher share implements the abstract
\* lease of a key: one stretch of time for each call, one goroutine at a time.
THEOREM RefinesKeyLease == Spec => ImplementsKeyLease
<1>1. Init => Lease!Init
  <2>. SUFFICES ASSUME Init PROVE Lease!Init
    OBVIOUS
  <2>1. Held = {}
    BY Zenon DEF Init, Held
  <2>2. \A c \in Calls : call[c].pc = "idle"
    BY DEF Init
  <2>3. Over = {}
    BY <2>2, Zenon DEF Over
  <2>. QED  BY <2>1, <2>3, Zenon DEF Init, Lease!Init
<1>2. CustodyInv /\ [Next]_vars => [Lease!Next]_<<Held, holder, Over>>
  BY StepKeepsLease, Zenon DEF leaseVars
<1>. QED
  BY <1>1, <1>2, CustodyInvariance, PTL DEF Spec, ImplementsKeyLease, Lease!Spec

=============================================================================
