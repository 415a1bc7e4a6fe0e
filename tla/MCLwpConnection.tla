-------------------------- MODULE MCLwpConnection ---------------------------
(***************************************************************************)
(* Small instances of LwpConnection and of the wire format below it: two   *)
(* frames in a row, with every kind of value, the bounds of both integers, *)
(* an empty and a nested container, and a kind that only a newer peer      *)
(* knows.                                                                  *)
(***************************************************************************)
EXTENDS LwpConnection, WireFrames

U64(n) == [kind |-> "u64", num |-> n]
I64(n) == [kind |-> "i64", num |-> n]
Str(s) == [kind |-> "str", str |-> s]
List(l) == [kind |-> "list", list |-> l]
Map(m) == [kind |-> "map", map |-> m]
Null == [kind |-> "null"]

Nested == List(<<U64(Modulus - 1), List(<<>>), Map([s \in {<<1>>, <<1, 0>>, <<>>} |-> I64(-1)])>>)

Values ==
    {Null, [kind |-> "bool", bool |-> TRUE],
     U64(0), U64(Group - 1), U64(Group), U64(Modulus - 1),
     I64(0), I64(-1), I64(MaxInt64), I64(-MaxInt64 - 1),
     Str(<<>>), [kind |-> "addr", str |-> <<Base - 1>>],
     [kind |-> "bytes", str |-> <<0, Group, 1, 2, 3, 4, 5, 6, 7>>],
     Nested, [kind |-> "newer"]}

FrameOf(type, requestID, args) ==
    [typ |-> FrameType[type], flags |-> 0, reqID |-> requestID, opcode |-> 1, args |-> args]

\* A frame without arguments, one with two, and one for each value.
Frames == {FrameOf("EVENT", 0, <<>>), FrameOf("RESP", 16, <<Str(<<1>>), Null>>)}
          \cup {FrameOf("RESP", 255, <<v>>) : v \in Values}

MCStreams == Frames \X Frames

-----------------------------------------------------------------------------
\* Whenever two frames follow each other on the connection, then whatever their
\* request ids and values are and however the connection cuts their bytes,
\* readLoop dispatches exactly those that have arrived, in order and with every
\* value intact: none waits for bytes of the next one, and a frame that cannot
\* be decoded holds back all that follow it (encodeFrame, decodeFrame, the codecs
\* of values and integers).
DispatchedIntact ==
    \A k \in 2..Len(stream) :
        <<FrameType[stream[k - 1].type], FrameType[stream[k].type]>> \notin GarbledTypes

=============================================================================
