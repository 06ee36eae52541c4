------------------------------- MODULE Leb128 -------------------------------
(***************************************************************************)
(* LEB128 values: AppendLEB128, the bytecode whose length the optimizer    *)
(* settles (CalcLen, Expand, Output), and WriteLEB128, SizeLEB128 and      *)
(* ReadLEB128.  The optimizer is the environment: it recomputes the value  *)
(* and calls Expand when the value has left the thresholds (see Optimizer). *)
(* The code has 256-bit integers, 64-bit words and a 32-bit int; here the  *)
(* widths are constants.                                                   *)
(***************************************************************************)
EXTENDS Integers, Sequences, FiniteSetsExt

CONSTANTS Values,           \* values an expression can have
          NativeSize,       \* IntNum::BITVECT_NATIVE_SIZE
          WordBits,         \* bits of a word of an APInt
          IntBits           \* bits of an int

VARIABLES phase,    \* "new", "fixed", "integer", "span" or "done"
          sign,     \* signed or unsigned form
          val,      \* the value of the expression in the current layout
          size, len,            \* m_value's size, and the length of the bytecode
          neg_thres, pos_thres, \* thresholds of the span
          out,      \* the bytes written
          warned    \* warn_negative_uleb128

vars == <<phase, sign, val, size, len, neg_thres, pos_thres, out, warned>>

-----------------------------------------------------------------------------
(* Bytes_leb128.cpp *)

\* The bits of v in an APInt of NativeSize bits, as a number.
BV(v) == v % 2^NativeSize
getActiveBits(v) == CHOOSE n \in 0..NativeSize : BV(v) < 2^n /\ (n > 0 => BV(v) >= 2^(n - 1))
getMinSignedBits(v) ==
    Min({n \in 1..NativeSize : -(2^(n - 1)) <= v /\ v < 2^(n - 1)})
NumBits(v, sgn) == IF sgn THEN getMinSignedBits(v) ELSE getActiveBits(v)

SizeLEB128(v, sgn) == IF v = 0 THEN 1 ELSE (NumBits(v, sgn) + 6) \div 7

\* Seven bits from lsb; the bits past the last word are whatever lies there.
Extract(v, lsb, junk) == ((BV(v) + junk * 2^NativeSize) \div 2^lsb) % 128

WriteLEB128(v, sgn, junk) ==
    LET n == IF v = 0 THEN 1
             ELSE 1 + Cardinality({i \in 0..(NumBits(v, sgn) - 8) : i % 7 = 0})
    IN  [k \in 1..n |-> Extract(v, 7 * (k - 1), junk) + IF k < n THEN 128 ELSE 0]

\* The words ReadLEB128 has assembled after k bytes.
WordsRead(bytes) ==
    LET read[k \in 0..Len(bytes)] ==
          IF k = 0 THEN <<0>>
          ELSE LET ws == read[k - 1]
                   n  == Len(ws)
                   i  == 7 * (k - 1)
                   v  == bytes[k] % 128
                   w  == [ws EXCEPT ![n] = (@ + v * 2^(i - WordBits * (n - 1))) % 2^WordBits]
               IN  IF i + 7 > WordBits * n THEN Append(w, v \div 2^(i + 7 - WordBits * n)) ELSE w
    IN  read[Len(bytes)]

\* The low bits of the words; negative if the top one is set and sgn.
ReadLEB128(bytes, sgn) ==
    LET ws   == WordsRead(bytes)
        bits == 2^(7 * Len(bytes))
        u    == MapThenSumSet(LAMBDA j : ws[j] * 2^(WordBits * (j - 1)), DOMAIN ws) % bits
    IN  IF sgn /\ 2 * u >= bits THEN u - bits ELSE u

-----------------------------------------------------------------------------
(* Leb128Bytecode.cpp *)

Junk == 0..(2^((7 - (NativeSize % 7)) % 7) - 1)

\* An expression that is an integer when it is appended becomes fixed bytes; any
\* other becomes a bytecode that starts with one byte and a span.
Append_(v, sgn, isInt) ==
    /\ phase = "new"
    /\ sign' = sgn
    /\ IF isInt
       THEN /\ phase' = "fixed" /\ val' = v
            /\ \E junk \in Junk : out' = WriteLEB128(v, sgn, junk)
            /\ warned' = (v < 0 /\ ~sgn)
            /\ len' = Len(out') /\ size' = 0
            /\ UNCHANGED <<neg_thres, pos_thres>>
       ELSE /\ phase' = "span" /\ val' = 0
            /\ size' = 1 /\ len' = 1
            /\ neg_thres' = IF sgn THEN -64 ELSE 0
            /\ pos_thres' = IF sgn THEN 63 ELSE 127
            /\ UNCHANGED <<out, warned>>

\* An expression that only the end of parsing makes an integer: no span.
CalcLenInt(v, sgn) ==
    /\ phase = "new"
    /\ phase' = "integer" /\ sign' = sgn /\ val' = v
    /\ size' = SizeLEB128(v, sgn) /\ len' = SizeLEB128(v, sgn)
    /\ UNCHANGED <<neg_thres, pos_thres, out, warned>>

\* 1 << n in int arithmetic; undefined for large n: the shift count is reduced as
\* the machine does, or the bits are lost.
Shl(n) == IF n < IntBits - 1 THEN {2^n} ELSE {2^(n % IntBits), 0}

Expand(v) ==
    LET s == SizeLEB128(v, sign) IN
    /\ IF s > size THEN size' = s /\ len' = len + s - size ELSE UNCHANGED <<size, len>>
    /\ IF sign
       THEN \E p, q \in Shl(s * 7 - 1) : neg_thres' = -p /\ pos_thres' = q - 1
       ELSE \E q \in Shl(s * 7) : neg_thres' = 0 /\ pos_thres' = q - 1

\* The optimizer has a new value for the span.
Recompute(v) ==
    /\ phase = "span" /\ v # val
    /\ val' = v
    /\ IF v < neg_thres \/ v > pos_thres THEN Expand(v)
       ELSE UNCHANGED <<size, len, neg_thres, pos_thres>>
    /\ UNCHANGED <<phase, sign, out, warned>>

\* The bytes that pad a value out to the size the bytecode has grown to.
Padding == [i \in 1..(size - SizeLEB128(val, sign)) |-> IF sign /\ val < 0 THEN 255 ELSE 128]

Output ==
    /\ phase \in {"integer", "span"}
    /\ phase' = "done"
    /\ warned' = (val < 0 /\ ~sign)
    /\ \E junk \in Junk : out' = Padding \o WriteLEB128(val, sign, junk)
    /\ UNCHANGED <<sign, val, size, len, neg_thres, pos_thres>>

-----------------------------------------------------------------------------
Init ==
    /\ phase = "new" /\ sign = FALSE /\ val = 0 /\ size = 0 /\ len = 0
    /\ neg_thres = 0 /\ pos_thres = 0 /\ out = << >> /\ warned = FALSE

Next ==
    \/ \E v \in Values, sgn, isInt \in BOOLEAN : Append_(v, sgn, isInt)
    \/ \E v \in Values, sgn \in BOOLEAN : CalcLenInt(v, sgn)
    \/ \E v \in Values : Recompute(v)
    \/ Output

Spec == Init /\ [][Next]_vars

-----------------------------------------------------------------------------
(* Properties *)

Written == phase \in {"fixed", "done"}

\* The number a sequence of LEB128 bytes stands for.
Decoded(bytes, sgn) ==
    LET n == Len(bytes)
        u == MapThenSumSet(LAMBDA k : (bytes[k] % 128) * 128^(k - 1), 1..n)
    IN  IF sgn /\ bytes[n] % 128 >= 64 THEN u - 128^n ELSE u


=============================================================================
