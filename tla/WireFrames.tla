------------------------------ MODULE WireFrames ----------------------------
(***************************************************************************)
(* lotor/wire.go and the buffer of Client.readLoop: LWP/1 frames, encoded  *)
(* into bytes, cut into chunks by the connection and put together again by *)
(* the reader.  Widths are reduced as WireIntegers says.                   *)
(*                                                                         *)
(* The codecs and the buffer are functions of the bytes that have arrived; *)
(* LwpConnection, which has the goroutines, takes whole frames off the     *)
(* stream, which it may because GarbledTypes is empty.                     *)
(***************************************************************************)
EXTENDS WireIntegers, FiniteSets, Sequences, SequencesExt

CONSTANTS
    Streams     \* sequences of frames the peer may send

-----------------------------------------------------------------------------
RECURSIVE PutUvarint(_)
PutUvarint(v) ==
    IF v < Group THEN <<v>> ELSE <<Group + (v % Group)>> \o PutUvarint(v \div Group)

\* A decoder returns what it read and the position after it.
Read(x, at) == [ok |-> TRUE, it |-> x, at |-> at]
Bad == [ok |-> FALSE]

RECURSIVE ReadUvarintFrom(_, _, _, _)
ReadUvarintFrom(b, p, result, weight) ==
    IF p > Len(b) THEN Bad
    ELSE LET sum == (result + (b[p] % Group) * weight) % Modulus IN
         IF b[p] < Group THEN Read(sum, p + 1)
         ELSE ReadUvarintFrom(b, p + 1, sum, weight * Group)
ReadUvarint(b, p) == ReadUvarintFrom(b, p, 0, 1)

ReadBytes(b, p) ==
    LET n == ReadUvarint(b, p) IN
    IF ~n.ok THEN Bad
    ELSE IF n.it > MaxInt64 \/ n.it > Len(b) - (n.at - 1) THEN Bad
    ELSE Read(SubSeq(b, n.at, n.at + n.it - 1), n.at + n.it)

\* n items, one after the other, each read by decode.
ReadItems(decode(_, _), b, p, n) ==
    LET next(items, i) ==
          IF ~items.ok THEN Bad
          ELSE LET item == decode(b, items.at) IN
               IF ~item.ok THEN Bad ELSE Read(Append(items.it, item.it), item.at)
    IN FoldLeft(next, Read(<<>>, p), [i \in 1..n |-> i])

-----------------------------------------------------------------------------
\* Strings are sequences of bytes, in the order of sort.Strings.
LexLess(s, t) ==
    \/ IsStrictPrefix(s, t)
    \/ \E i \in 1..Len(s) :
          /\ i <= Len(t) /\ s[i] < t[i]
          /\ SubSeq(s, 1, i - 1) = SubSeq(t, 1, i - 1)

Bytes(s) == PutUvarint(Len(s)) \o s

Tag == [null |-> 0, bool |-> 1, u64 |-> 2, i64 |-> 3, str |-> 4, bytes |-> 5,
        addr |-> 6, list |-> 7, map |-> 8]

\* encodeValue.  A kind the codec does not know stands for one a newer peer
\* sends, with a tag of its own.
RECURSIVE EncodeValue(_)
EncodeValue(v) ==
    CASE v.kind = "null" -> <<Tag.null>>
      [] v.kind = "bool" -> <<Tag.bool, IF v.bool THEN 1 ELSE 0>>
      [] v.kind = "u64" -> <<Tag.u64>> \o PutUvarint(v.num)
      [] v.kind = "i64" -> <<Tag.i64>> \o PutUvarint(Zigzag(v.num))
      [] v.kind \in {"str", "addr", "bytes"} -> <<Tag[v.kind]>> \o Bytes(v.str)
      [] v.kind = "list" ->
           <<Tag.list>> \o PutUvarint(Len(v.list))
             \o FlattenSeq([i \in DOMAIN v.list |-> EncodeValue(v.list[i])])
      [] v.kind = "map" ->
           LET keys == SetToSortSeq(DOMAIN v.map, LexLess) IN
           <<Tag.map>> \o PutUvarint(Len(keys))
             \o FlattenSeq([i \in DOMAIN keys |-> Bytes(keys[i]) \o EncodeValue(v.map[keys[i]])])
      [] OTHER -> <<9>>

\* The value that is left when the decoding of a part of it fails or not.
Then(r, value(_)) == IF r.ok THEN Read(value(r.it), r.at) ELSE Bad

RECURSIVE DecodeValue(_, _)
DecodeValue(b, p) ==
    IF p > Len(b) THEN Bad
    ELSE LET tag == b[p]
             n == ReadUvarint(b, p + 1)
             pair(c, q) == LET key == ReadBytes(c, q) IN
                           IF ~key.ok THEN Bad
                           ELSE Then(DecodeValue(c, key.at), LAMBDA x : <<key.it, x>>)
         IN
         CASE tag = Tag.null -> Read([kind |-> "null"], p + 1)
           [] tag = Tag.bool -> IF p + 1 > Len(b) THEN Bad
                                ELSE Read([kind |-> "bool", bool |-> b[p + 1] # 0], p + 2)
           [] tag = Tag.u64 -> Then(n, LAMBDA x : [kind |-> "u64", num |-> x])
           [] tag = Tag.i64 -> Then(n, LAMBDA x : [kind |-> "i64", num |-> Unzigzag(x)])
           [] tag \in {Tag.str, Tag.addr, Tag.bytes} ->
                Then(ReadBytes(b, p + 1),
                     LAMBDA x : [kind |-> CHOOSE k \in DOMAIN Tag : Tag[k] = tag, str |-> x])
           [] tag = Tag.list ->
                IF ~n.ok THEN Bad
                ELSE Then(ReadItems(DecodeValue, b, n.at, n.it), LAMBDA x : [kind |-> "list", list |-> x])
           [] tag = Tag.map ->
                IF ~n.ok THEN Bad
                ELSE Then(ReadItems(pair, b, n.at, n.it),
                          LAMBDA x : [kind |-> "map",
                                      map |-> [k \in {x[i][1] : i \in DOMAIN x} |->
                                                 (x[CHOOSE i \in DOMAIN x :
                                                      /\ x[i][1] = k
                                                      /\ \A j \in DOMAIN x : j > i => x[j][1] # k])[2]]])
           [] OTHER -> Bad

-----------------------------------------------------------------------------
\* The types of the frames a server sends.
FrameType == [RESP |-> 2, EVENT |-> 3]

EncodeFrame(f) ==
    LET p == <<1, f.typ>> \o BigEndian(f.flags) \o BigEndian(f.reqID) \o BigEndian(f.opcode)
               \o PutUvarint(Len(f.args))
               \o FlattenSeq([i \in DOMAIN f.args |-> EncodeValue(f.args[i])])
    IN BigEndian(Len(p)) \o p

\* decodeFrame: the frame at the front of the buffer and the bytes consumed.
\* The version is skipped, and the arguments are read from the whole buffer.
DecodeFrame(b) ==
    IF Len(b) < 2 THEN Bad
    ELSE LET total == 2 + Number(b, 1) IN
         IF Len(b) < total THEN Bad
         ELSE LET n == ReadUvarint(b, 11)
                  args == ReadItems(DecodeValue, b, n.at, n.it)
              IN IF ~n.ok THEN Bad ELSE IF ~args.ok THEN Bad
                 ELSE Read([typ |-> b[4], flags |-> Number(b, 5), reqID |-> Number(b, 7),
                            opcode |-> Number(b, 9), args |-> args.it], total)

\* Mutant: one frame for each read.
DrainOne(b) ==
    LET f == DecodeFrame(b) IN
    IF ~f.ok THEN [frames |-> <<>>, left |-> b]
    ELSE [frames |-> <<f.it>>, left |-> SubSeq(b, f.at + 1, Len(b))]

\* The inner loop of readLoop: frames are taken off the buffer until none can
\* be decoded.
RECURSIVE Drain(_)
Drain(b) ==
    LET f == DecodeFrame(b) IN
    IF ~f.ok THEN [frames |-> <<>>, left |-> b]
    ELSE LET rest == Drain(SubSeq(b, f.at + 1, Len(b))) IN
         [frames |-> <<f.it>> \o rest.frames, left |-> rest.left]

\* readLoop appends what conn.Read returned to its buffer and dispatches the
\* frames it can take off: buf is what is left, got what was dispatched so far.
ReadChunk(loop, chunk) ==
    LET drained == Drain(loop.buf \o chunk) IN
    [buf |-> drained.left, got |-> loop.got \o drained.frames]

-----------------------------------------------------------------------------
\* A value of a kind the codec knows, in all its parts.
RECURSIVE KnownValue(_)
KnownValue(v) ==
    /\ v.kind \in DOMAIN Tag
    /\ v.kind = "list" => \A i \in DOMAIN v.list : KnownValue(v.list[i])
    /\ v.kind = "map" => \A k \in DOMAIN v.map : KnownValue(v.map[k])
KnownFrame(f) == \A i \in DOMAIN f.args : KnownValue(f.args[i])

\* What the reader must be like when the first k bytes of a stream have arrived:
\* it has dispatched the frames that have arrived with their last byte and have
\* no frame before them that the codec cannot read, and keeps all other bytes.
\* The code of a stream lists the bytes of its frames.
ReaderAfter(sent, code, k) ==
    LET complete == {n \in 1..Len(sent) : /\ Len(FlattenSeq(SubSeq(code, 1, n))) <= k
                                            /\ \A i \in 1..n : KnownFrame(sent[i])}
        count == Cardinality(complete)
    IN  [got |-> SubSeq(sent, 1, count),
         buf |-> SubSeq(FlattenSeq(code), Len(FlattenSeq(SubSeq(code, 1, count))) + 1, k)]

\* From any moment of a stream on, a chunk of any length leaves the reader as it
\* must be; by induction so does every sequence of chunks.
ReadIntact(sent) ==
    \E code \in {[i \in DOMAIN sent |-> EncodeFrame(sent[i])]} :
        LET bytes == FlattenSeq(code) IN
        \A k \in 0..Len(bytes) :
            \E loop \in {ReaderAfter(sent, code, k)} :
                \A m \in k..Len(bytes) :
                    ReadChunk(loop, SubSeq(bytes, k + 1, m)) = ReaderAfter(sent, code, m)

\* The types of the frames of the streams that some cut of their bytes spoils.
GarbledTypes == {[i \in DOMAIN sent |-> sent[i].typ] : sent \in {s \in Streams : ~ReadIntact(s)}}

=============================================================================
