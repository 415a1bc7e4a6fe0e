--------------------------- MODULE PayloadCustody ---------------------------
(***************************************************************************)
(* Encrypted resource payloads: bridge.ResourceClient.WithPayloadCustody   *)
(* and the ResourceCipher it lends to a callback of a function handler,    *)
(* while writers upload new payload versions with lotorhttp.ControlClient  *)
(* and the payload key is rewrapped.  Control, the storage and the         *)
(* PayloadCustodian are external.                                          *)
(*                                                                         *)
(* A payload object is named after the writer that made it; the name       *)
(* stands for its content, its digest and the data key it is encrypted     *)
(* with.  A manifest's wrapped data key is that of its object, wrapped     *)
(* under the resource key of version keyVersion.                           *)
(*                                                                         *)
(* The callback may hand the cipher to goroutines (Workers) that outlive   *)
(* it, and these may use it with the context of another invocation.        *)
(***************************************************************************)
EXTENDS Integers, FiniteSets

CONSTANTS
    Calls,          \* calls of WithPayloadCustody
    Invocations,    \* invocations whose handlers make them
    Workers,        \* goroutines that use a cipher
    Writers,        \* payload uploads, one object each
    MaxVersion,     \* payload versions are 1..MaxVersion
    MaxKeyVersion,  \* resource key versions are 1..MaxKeyVersion
    None

ASSUME CustodyAssumption ==
    /\ MaxVersion \in Nat \ {0} /\ MaxKeyVersion \in Nat \ {0}
    /\ None \notin Calls \cup Workers \cup Writers \cup Nat

Versions == 1..MaxVersion
KeyVersions == 1..MaxKeyVersion

Manifests == [version : Versions, object : Writers, keyVersion : KeyVersions]

\* ResourceKeyBinding: a manifest, bound to the invocation it was given to.
Bindings == [invocation : Invocations, version : Versions, object : Writers,
             keyVersion : KeyVersions]

ASSUME NoneAssumption == None \notin Manifests \cup Bindings

VARIABLES
    live,       \* the context of an invocation is not done, its grant not expired
    upload,     \* an upload: where it is and the version it was begun at
    stored,     \* the objects that storage holds
    payload,    \* Control's manifest of each payload version
    head,       \* Control's current payload version
    call,       \* a call of WithPayloadCustody
    key,        \* resourceCipherState.key of a call: its version, or None
    holder,     \* the goroutine that holds resourceCipherState.mu of a call
    worker,     \* a goroutine: its operation, where it is, and what it returned
    overtime    \* the results of a call's cipher after its invocation has ended

controlVars == <<upload, stored, payload, head>>
vars == <<live, controlVars, call, key, holder, worker, overtime>>

Idle == [pc |-> "idle", op |-> None]

Init ==
    /\ live = [i \in Invocations |-> TRUE]
    /\ upload = [w \in Writers |-> [pc |-> "idle", expected |-> 0]]
    /\ stored = {}
    /\ head = 0
    /\ payload = [v \in Versions |-> None]
    /\ call = [c \in Calls |-> [pc |-> "idle", invocation |-> None, planned |-> None,
                                manifest |-> None, binding |-> None, lent |-> FALSE]]
    /\ key = [c \in Calls |-> None]
    /\ holder = [c \in Calls |-> None]
    /\ worker = [g \in Workers |-> Idle]
    /\ overtime = [c \in Calls |-> 0]

-----------------------------------------------------------------------------
(***************************************************************************)
(* Writers.  Every request to Control may also fail, before or after       *)
(* Control has acted on it.                                                *)
(***************************************************************************)

\* BeginResourcePayloadUpload: the intent names the version it replaces.
BeginUpload(w) ==
    /\ upload[w].pc = "idle"
    /\ head < MaxVersion
    /\ upload' = [upload EXCEPT ![w] = [pc |-> "begun", expected |-> head]]
    /\ UNCHANGED <<live, stored, payload, head, call, key, holder, worker, overtime>>

\* uploadResourcePayloadObject reports success only for a 2xx answer of the
\* storage; the object of an upload whose answer is lost may have arrived.
Uploaded(w, accepted) ==
    [upload EXCEPT ![w].pc = IF accepted THEN "uploaded" ELSE "failed"]

UploadObject(w) ==
    /\ upload[w].pc = "begun"
    /\ \E accepted \in BOOLEAN :
         /\ stored' \in (IF accepted THEN {} ELSE {stored}) \cup {stored \cup {w}}
         /\ upload' = Uploaded(w, accepted)
    /\ UNCHANGED <<live, payload, head, call, key, holder, worker, overtime>>

\* The expected_payload_version of CommitResourcePayload.
ExpectedPayloadVersion(w) == upload[w].expected

\* The key version a new payload is wrapped under: that of the payload it replaces.
CurrentKeyVersion == IF head = 0 THEN 1 ELSE payload[head].keyVersion

\* CommitResourcePayload: Control applies it if the expected version is current.
Commit(w) ==
    /\ upload[w].pc = "uploaded"
    /\ \/ /\ ExpectedPayloadVersion(w) = head
          /\ head' = head + 1
          /\ payload' = [payload EXCEPT ![head + 1] =
                           [version |-> head + 1, object |-> w, keyVersion |-> CurrentKeyVersion]]
          /\ \E pc \in {"committed", "failed"} : upload' = [upload EXCEPT ![w].pc = pc]
       \/ /\ upload' = [upload EXCEPT ![w].pc = "failed"]
          /\ UNCHANGED <<payload, head>>
    /\ UNCHANGED <<live, stored, call, key, holder, worker, overtime>>

\* RewrapResourcePayload: the data key of the current payload is wrapped under
\* the next key version; the object stays as it is.
Rewrap ==
    /\ head > 0
    /\ CurrentKeyVersion < MaxKeyVersion
    /\ payload' = [payload EXCEPT ![head].keyVersion = @ + 1]
    /\ UNCHANGED <<live, upload, stored, head, call, key, holder, worker, overtime>>

-----------------------------------------------------------------------------
(***************************************************************************)
(* WithPayloadCustody.                                                     *)
(***************************************************************************)

\* binding.matchesInvocation(ctx), for the context of invocation i
MatchesInvocation(b, i) == live[i] /\ b.invocation = i

Begin(c) ==
    /\ call[c].pc = "idle"
    /\ \E i \in Invocations, v \in Versions :
         call' = [call EXCEPT ![c] = [@ EXCEPT !.pc = "identify", !.invocation = i, !.planned = v]]
    /\ UNCHANGED <<live, controlVars, key, holder, worker, overtime>>

\* WorkloadContext answers with the identity of the grant.
Identify(c) ==
    /\ call[c].pc = "identify"
    /\ live[call[c].invocation]
    /\ call' = [call EXCEPT ![c].pc = "access"]
    /\ UNCHANGED <<live, controlVars, key, holder, worker, overtime>>

\* accessPayload accepts Control's answer only for the planned version and
\* with a lease that ends no later than the grant and has not expired.
AcceptsAccess(c, m) == m.version = call[c].planned /\ live[call[c].invocation]

\* The ResourceKeyBinding for an invocation and the manifest it was given.
BindingOf(i, m) ==
    [invocation |-> i, version |-> m.version, object |-> m.object, keyVersion |-> m.keyVersion]

Access(c, m) ==
    LET binding == BindingOf(call[c].invocation, m)
    IN  /\ call[c].pc = "access"
        /\ AcceptsAccess(c, m)
        /\ MatchesInvocation(binding, call[c].invocation)
        /\ call' = [call EXCEPT ![c] =
                      [@ EXCEPT !.pc = "provider", !.manifest = m, !.binding = binding]]
        /\ UNCHANGED <<live, controlVars, key, holder, worker, overtime>>

\* Any error on the way to the callback.
Fail(c) ==
    /\ call[c].pc \in {"identify", "access", "provider"}
    /\ call' = [call EXCEPT ![c].pc = "failed"]
    /\ UNCHANGED <<live, controlVars, key, holder, worker, overtime>>

\* The callback runs only with a cipher for the binding that was asked for.
Lends(c, b) == b = call[c].binding

\* UseResourceKey of the custodian reaches WithResourceKey, which copies the
\* key.  The custodian may name the binding of another call it has served.
Provide(c, b) ==
    /\ call[c].pc = "provider"
    /\ MatchesInvocation(b, call[c].invocation)
    /\ key' = [key EXCEPT ![c] = b.keyVersion]
    /\ call' = [call EXCEPT ![c] =
                  [@ EXCEPT !.pc = IF Lends(c, b) THEN "open" ELSE "closing",
                            !.binding = b, !.lent = Lends(c, b)]]
    /\ UNCHANGED <<live, controlVars, holder, worker, overtime>>

\* The callback returns or panics.
Return(c) ==
    /\ call[c].pc = "open"
    /\ call' = [call EXCEPT ![c].pc = "closing"]
    /\ UNCHANGED <<live, controlVars, key, holder, worker, overtime>>

\* Mutant: the key is cleared without the mutex.
MayClearUnlocked(c) == TRUE

\* The deferred function of WithResourceKey needs the mutex to clear the key.
MayClear(c) == holder[c] = None

Clear(c) ==
    /\ call[c].pc = "closing"
    /\ MayClear(c)
    /\ key' = [key EXCEPT ![c] = None]
    /\ call' = [call EXCEPT ![c].pc = "returned"]
    /\ UNCHANGED <<live, controlVars, holder, worker, overtime>>

-----------------------------------------------------------------------------
(***************************************************************************)
(* The operations of ResourceCipher.                                       *)
(***************************************************************************)

\* The manifests that the application has been given.
Received == {call[c].manifest : c \in Calls} \ {None}

\* The object that DownloadResourcePayloadObject returns for a lease: one
\* whose digest is the lease's.
Downloads(m) == {o \in stored : o = m.object}

\* The operation is called and waits for the mutex of the cipher's state.
Use(g, op) ==
    /\ worker[g].pc \notin {"waiting", "working"}
    /\ call[op.cipher].lent
    /\ worker' = [worker EXCEPT ![g] = [pc |-> "waiting", op |-> op]]
    /\ UNCHANGED <<live, controlVars, call, key, holder, overtime>>

EncryptValue(g) ==
    \E c \in Calls, i \in Invocations :
        Use(g, [cipher |-> c, ctx |-> i, manifest |-> None, object |-> None])

OpenPayload(g) ==
    \E c \in Calls, i \in Invocations, m \in Received, lease \in Received :
        \E o \in Downloads(lease) :
            Use(g, [cipher |-> c, ctx |-> i, manifest |-> m, object |-> o])

\* Mutant: the invocation is not looked at again.
UsableByKey(op) == key[op.cipher] # None

\* What both operations check once they hold the mutex.
Usable(op) ==
    key[op.cipher] # None /\ MatchesInvocation(call[op.cipher].binding, op.ctx)

\* Mutant: the object is compared with the manifest it came with only.
ExactObject(op) == op.object = op.manifest.object

\* What OpenPayload compares before it touches the key: the manifest with the
\* cipher's binding, and the object's digest with it.
ExactPayload(op) ==
    LET b == call[op.cipher].binding
    IN  /\ op.manifest = [version |-> b.version, object |-> b.object, keyVersion |-> b.keyVersion]
        /\ op.object = b.object

Proceeds(op) == Usable(op) /\ (op.manifest # None => ExactPayload(op))

\* The mutex is acquired; an operation that may not proceed returns its error.
Lock(g) ==
    LET op == worker[g].op
    IN  /\ worker[g].pc = "waiting"
        /\ holder[op.cipher] = None
        /\ IF Proceeds(op)
           THEN /\ holder' = [holder EXCEPT ![op.cipher] = g]
                /\ worker' = [worker EXCEPT ![g].pc = "working"]
           ELSE /\ worker' = [worker EXCEPT ![g] = Idle]
                /\ UNCHANGED holder
        /\ UNCHANGED <<live, controlVars, call, key, overtime>>

\* What an operation may return once it has passed its checks.  It may fail on
\* its way to the result.  OpenPayload unwraps the data key with the resource
\* key; the object must be encrypted with that data key.
Results(op) ==
    {"idle"} \cup
    IF op.manifest = None THEN {"sealed"}
    ELSE IF op.manifest.keyVersion = key[op.cipher] /\ op.manifest.object = op.object THEN {"opened"}
    ELSE {}

\* The deferred unlock of both operations.
Unlocked(op) == [holder EXCEPT ![op.cipher] = None]

\* The operation is done with the key and releases the mutex.
Finish(g, result) ==
    LET op == worker[g].op
    IN  /\ worker[g].pc = "working"
        /\ result \in Results(op)
        /\ worker' = [worker EXCEPT ![g] = IF result = "idle" THEN Idle ELSE [@ EXCEPT !.pc = result]]
        /\ overtime' = IF result = "idle" \/ live[call[op.cipher].invocation] THEN overtime
                       ELSE [overtime EXCEPT ![op.cipher] = @ + 1]
        /\ holder' = Unlocked(op)
        /\ UNCHANGED <<live, controlVars, call, key>>

-----------------------------------------------------------------------------
\* The caller of the function goes away, its time is up, or the grant expires.
End(i) ==
    /\ live[i]
    /\ live' = [live EXCEPT ![i] = FALSE]
    /\ UNCHANGED <<controlVars, call, key, holder, worker, overtime>>

Next ==
    \/ \E w \in Writers : BeginUpload(w) \/ UploadObject(w) \/ Commit(w)
    \/ Rewrap
    \/ \E c \in Calls :
         \/ Begin(c) \/ Identify(c) \/ Fail(c) \/ Return(c) \/ Clear(c)
         \/ \E v \in 1..head : Access(c, payload[v])
         \/ \E d \in Calls : call[d].binding # None /\ Provide(c, call[d].binding)
    \/ \E g \in Workers :
         \/ EncryptValue(g) \/ OpenPayload(g) \/ Lock(g)
         \/ \E result \in {"idle", "sealed", "opened"} : Finish(g, result)
    \/ \E i \in Invocations : End(i)

Spec == Init /\ [][Next]_vars

-----------------------------------------------------------------------------
\* The key of a call is in memory while an operation works with it, and once
\* WithPayloadCustody has returned, no copy of its cipher has or gets the key,
\* whoever was waiting for the mutex (custody.go: "Copies share the same
\* synchronized key state and callback lifetime").
KeyLivesWithItsCall ==
    /\ \A c \in Calls : call[c].pc \in {"returned", "failed"} => key[c] = None /\ holder[c] = None
    /\ \A g \in Workers : worker[g].pc = "working" =>
         key[worker[g].op.cipher] # None /\ holder[worker[g].op.cipher] = g

(***************************************************************************)
(* The key state that the copies of a cipher share implements KeyLease,    *)
(* with the goroutine that holds its mutex as the user of the key.         *)
(***************************************************************************)
Held == {c \in Calls : key[c] # None}
Over == {c \in Calls : call[c].pc \in {"returned", "failed"}}

Lease == INSTANCE KeyLease WITH held <- Held, user <- holder, over <- Over

\* A call has its key once and for one stretch, in which the goroutines take
\* turns with it: the key is never cleared under the hands of one, and whoever
\* still waits for the mutex when WithPayloadCustody returns does not get it
\* (WithResourceKey, EncryptValue, OpenPayload).
ImplementsKeyLease == Lease!Spec

\* A cipher serves its own call only (custody.go: "usable only during its
\* custody callback and original live invocation").  However many operations
\* its goroutines start or wait with, one at most still returns a result after
\* the invocation has ended: the one that had passed its checks by then, and
\* holds the mutex.  A value it seals is bound to the invocation of the call and
\* the manifest its callback was given, whichever binding the custodian named
\* (WithPayloadCustody, EncryptValue, OpenPayload).
CipherServesItsCall ==
    /\ \A c \in Calls : overtime[c] <= 1
    /\ \A g \in Workers : worker[g].pc = "sealed" =>
         LET c == worker[g].op.cipher
         IN  call[c].binding = BindingOf(call[c].invocation, call[c].manifest)

\* What OpenPayload returns under a call is the payload version the call asked
\* for, although other calls hold manifests and objects of other versions,
\* writers commit new ones, and the payload key is rewrapped meanwhile.
OpenedAsPlanned ==
    \A g \in Workers : worker[g].pc = "opened" =>
        worker[g].op.object = payload[call[worker[g].op.cipher].planned].object

-----------------------------------------------------------------------------
(***************************************************************************)
(* The inductive invariant.                                                *)
(***************************************************************************)

UploadState == [pc : {"idle", "begun", "uploaded", "committed", "failed"},
                expected : 0..(MaxVersion - 1)]

CallState ==
    [pc : {"idle", "identify", "access", "provider", "open", "closing", "returned", "failed"},
     invocation : Invocations \cup {None}, planned : Versions \cup {None},
     manifest : Manifests \cup {None}, binding : Bindings \cup {None}, lent : BOOLEAN]

Operations == [cipher : Calls, ctx : Invocations, manifest : Manifests \cup {None},
               object : Writers \cup {None}]

WorkerState ==
    [pc : {"idle", "waiting", "working", "sealed", "opened"}, op : Operations \cup {None}]

TypeOK ==
    /\ live \in [Invocations -> BOOLEAN]
    /\ upload \in [Writers -> UploadState]
    /\ stored \subseteq Writers
    /\ head \in 0..MaxVersion
    /\ payload \in [Versions -> Manifests \cup {None}]
    /\ call \in [Calls -> CallState]
    /\ key \in [Calls -> KeyVersions \cup {None}]
    /\ holder \in [Calls -> Workers \cup {None}]
    /\ worker \in [Workers -> WorkerState]
    /\ overtime \in [Calls -> Nat]

\* Control has a manifest of each version up to the current one, and no other.
PayloadInv ==
    \A v \in Versions :
        /\ v <= head => payload[v] # None
        /\ payload[v] # None => v <= head /\ payload[v].version = v

\* The binding of a call is that of the object of the version it planned.
BoundAsPlanned(c) ==
    /\ call[c].planned \in Versions
    /\ call[c].binding # None
    /\ payload[call[c].planned] # None
    /\ call[c].binding.object = payload[call[c].planned].object
    /\ call[c].binding = BindingOf(call[c].invocation, call[c].manifest)

\* A call holds the key of its binding from WithResourceKey until the deferred
\* function clears it, and lends a cipher only for what it planned.
CallInv ==
    \A c \in Calls :
        /\ call[c].pc \in {"idle", "identify"} => call[c].binding = None
        /\ call[c].pc # "idle" => call[c].invocation \in Invocations /\ call[c].planned \in Versions
        /\ call[c].pc \in {"open", "closing"} => call[c].binding # None /\ key[c] = call[c].binding.keyVersion
        /\ call[c].pc \notin {"open", "closing"} => key[c] = None
        /\ call[c].lent => call[c].pc \in {"open", "closing", "returned"}
        /\ call[c].pc = "provider" \/ call[c].lent => BoundAsPlanned(c)

\* What goroutine g, as w, may rely on: a cipher bound to b, its key k and the
\* holder h of its mutex.
RightfulUse(g, w, b, k, h) ==
    /\ w.pc = "working" =>
         /\ h = g /\ k # None
         /\ w.op.manifest # None => w.op.object = b.object
    /\ w.pc = "opened" => w.op.object = b.object

\* A goroutine that works with a key holds the mutex, and has found the key
\* and the binding to be those of its operation.
UseInv(g) ==
    LET c == worker[g].op.cipher
    IN  /\ worker[g].op \in Operations
        /\ call[c].lent
        /\ RightfulUse(g, worker[g], call[c].binding, key[c], holder[c])

WorkerInv ==
    /\ \A g \in Workers : worker[g].pc # "idle" => UseInv(g)
    /\ \A c \in Calls : holder[c] # None =>
         worker[holder[c]].pc = "working" /\ worker[holder[c]].op.cipher = c

\* The result of a cipher after the end of its invocation was the last use of
\* its mutex.
OvertimeInv ==
    \A c \in Calls :
        /\ overtime[c] <= 1
        /\ overtime[c] # 0 => holder[c] = None /\ call[c].lent /\ ~live[call[c].invocation]

CustodyInv == TypeOK /\ PayloadInv /\ CallInv /\ WorkerInv /\ OvertimeInv

=============================================================================
