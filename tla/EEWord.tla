------------------------------ MODULE EEWord ------------------------------
(* Machine words of a scaled Emotion Engine and PowerPC.  A byte has BYTE   *)
(* bits (8 in the code), a word four bytes, an EE register two doublewords; *)
(* every constant of the code that depends on a width is written with these *)
(* names.                                                                   *)
EXTENDS Integers

CONSTANT LogByte  \* a byte has 2^LogByte bits; 3 in the code

ASSUME LogByteAssumption == LogByte \in Nat

BYTE == 2 ^ LogByte
HALF == 2 * BYTE
WORD == 4 * BYTE
DOUBLE == 8 * BYTE

Words == 0 .. 2 ^ WORD - 1
Doubles == 0 .. 2 ^ DOUBLE - 1

\* An n-bit value read as a two's complement number, and back.
Signed(n, v) == IF v < 2 ^ (n - 1) THEN v ELSE v - 2 ^ n
Wrap(n, v) == v % 2 ^ n

\* Widening with the sign from n to m bits: sext32() and the C conversions.
Sext(n, m, v) == Wrap(m, Signed(n, v))
Sext32(v) == Sext(WORD, DOUBLE, v)

High(v) == v \div 2 ^ WORD
Low(v) == v % 2 ^ WORD
Pair(high, low) == high * 2 ^ WORD + low

\* << and >> of an n-bit value; a shift by n or more leaves zero, or the sign.
ShiftLeft(n, v, k) == IF k >= n THEN 0 ELSE (v % 2 ^ (n - k)) * 2 ^ k
ShiftRight(v, k) == v \div 2 ^ k
ShiftArith(n, v, k) == Wrap(n, Signed(n, v) \div 2 ^ k)

\* C's truncating / and %.
Abs(x) == IF x < 0 THEN -x ELSE x
Quotient(a, b) == IF (a < 0) = (b < 0) THEN Abs(a) \div Abs(b) ELSE -(Abs(a) \div Abs(b))
Remainder(a, b) == a - Quotient(a, b) * b

\* PowerPC additions with the carry bit: addc, adde and, on complements,
\* subfc and subfe.
Complement(n, v) == 2 ^ n - 1 - v
Carrying(a, b, ca) == [v |-> Wrap(WORD, a + b + ca), ca |-> (a + b + ca) \div 2 ^ WORD]
=============================================================================
