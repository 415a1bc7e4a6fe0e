----------------------------- MODULE WireIntegers ---------------------------
(***************************************************************************)
(* The integers of lotor/wire.go: a byte has GroupBits + 1 bits, of which  *)
(* a varint uses GroupBits, and a 64-bit integer has Width bits, not a     *)
(* multiple of GroupBits.  A signed integer travels as an unsigned one     *)
(* (zigzag), through conversions that give 0 where they would overflow.    *)
(* The fields of a frame have a fixed size, most significant byte first.   *)
(***************************************************************************)
EXTENDS Integers

CONSTANTS
    GroupBits,  \* payload bits of a varint byte: 7
    Width       \* bits of an integer: 64

Group == 2^GroupBits
Base == 2 * Group
Modulus == 2^Width
MaxInt64 == 2^(Width - 1) - 1

\* What the proofs need to know of the powers of two.
ASSUME WidthAssumption ==
    /\ Group \in Nat \ {0}
    /\ MaxInt64 \in Nat
    /\ Modulus = 2 * (MaxInt64 + 1)

Int64 == -(MaxInt64 + 1)..MaxInt64
Uint64 == 0..(Modulus - 1)

-----------------------------------------------------------------------------
Uint64ToInt64(n) == IF n > MaxInt64 THEN 0 ELSE n

NonNegativeInt64ToUint64(n) == IF n < 0 THEN 0 ELSE n

Zigzag(v) == IF v >= 0 THEN 2 * v ELSE 2 * NonNegativeInt64ToUint64(-(v + 1)) + 1

Unzigzag(v) == LET half == v \div 2 IN
    IF v % 2 = 0 THEN Uint64ToInt64(half) ELSE -Uint64ToInt64(half) - 1

-----------------------------------------------------------------------------
\* Two-byte big-endian numbers stand for the fields of two and four bytes.
BigEndian(n) == <<n \div Base, n % Base>>
Number(b, p) == b[p] * Base + b[p + 1]

=============================================================================
