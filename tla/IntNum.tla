------------------------------- MODULE IntNum -------------------------------
(* IntNum: an integer of BITVECT_NATIVE_SIZE bits that is kept in a machine   *)
(* word (form SV) where the code thinks it fits, and in a bit vector (form    *)
(* BV) otherwise.  One number, the accumulator, is changed by the operations  *)
(* of the class; its operands are numbers that the class itself has made.     *)
(* The widths are parameters: SV_BITS is 63 and NativeSize is 256 in the code. *)
EXTENDS Integers, Sequences, SequencesExt, FiniteSetsExt

CONSTANTS SV_BITS,      \* bits of the machine word without its sign
          NativeSize,   \* BITVECT_NATIVE_SIZE
          Values,       \* values of the operands
          Strings,      \* pairs of a radix and a sequence of digits
          Shifts,       \* operands of SHL and SHR
          MaxOps        \* bound: operations on one number

VARIABLES acc,          \* the number: its form and its value
          call,         \* the last operation: its name and the operands' values
          ok,           \* what it returned
          ops

vars == <<acc, call, ok, ops>>

SV(v) == [type |-> "SV", val |-> v]
BV(v) == [type |-> "BV", val |-> v]

SV_MAX == 2^SV_BITS - 1
SV_MIN == -(2^SV_BITS)

\* Two's complement of the given width.
Wrap(v, width) == LET m == v % 2^width IN IF m >= 2^(width - 1) THEN m - 2^width ELSE m

Native(v)  == Wrap(v, NativeSize)
Machine(v) == Wrap(v, SV_BITS + 1)

\* Quotient rounded towards zero, and its remainder, as in C.
Abs(v)     == IF v < 0 THEN -v ELSE v
Quo(a, b)  == IF (a < 0) = (b < 0) THEN Abs(a) \div Abs(b) ELSE -(Abs(a) \div Abs(b))
Rem(a, b)  == a - b * Quo(a, b)
Truth(p)   == IF p THEN 1 ELSE 0

\* APInt: the bits that hold a value as a signed, or an unsigned, number.
getMinSignedBits(v) == Min({n \in 1..NativeSize : v \in -(2^(n - 1))..(2^(n - 1) - 1)})
getActiveBits(v)    == Min({n \in 0..NativeSize : v % 2^NativeSize < 2^n})

-----------------------------------------------------------------------------
(* Storing a result.                                                          *)

setBV(v) == IF getMinSignedBits(v) <= SV_BITS THEN SV(v) ELSE BV(v)

setUnsigned(v) == IF v > SV_MAX THEN BV(v) ELSE SV(v)

-----------------------------------------------------------------------------
(* Calc.  A bitwise operation is one on every pair of bits.                   *)

Bit(v, i) == (v \div 2^i) % 2
OnBits(a, b, width, F(_, _)) ==
    Wrap(FoldSet(LAMBDA i, sum : sum + 2^i * F(Bit(a, i), Bit(b, i)), 0, 0..(width - 1)), width)

BitAnd(x, y) == x * y
BitOr(x, y)  == x + y - x * y
BitXor(x, y) == (x + y) % 2

Logical == {"LOR", "LAND", "LXOR", "LXNOR", "LNOR", "EQ", "LT", "GT", "LE", "GE", "NE"}

Logic(op, a, b) ==
    Truth(CASE op = "LOR"   -> a # 0 \/ b # 0
            [] op = "LAND"  -> a # 0 /\ b # 0
            [] op = "LXOR"  -> (a # 0) # (b # 0)
            [] op = "LXNOR" -> (a # 0) = (b # 0)
            [] op = "LNOR"  -> a = 0 /\ b = 0
            [] op = "EQ" -> a = b [] op = "NE" -> a # b
            [] op = "LT" -> a < b [] op = "LE" -> a <= b
            [] op = "GT" -> a > b [] op = "GE" -> a >= b)

Bits(op, a, b, width) ==
    CASE op = "AND"  -> OnBits(a, b, width, BitAnd)
      [] op = "OR"   -> OnBits(a, b, width, BitOr)
      [] op = "NOR"  -> -1 - OnBits(a, b, width, BitOr)
      [] op = "XOR"  -> OnBits(a, b, width, BitXor)
      [] op = "XNOR" -> -1 - OnBits(a, b, width, BitXor)

Unary    == {"NEG", "NOT", "LNOT"}
BitOps   == {"AND", "OR", "NOR", "XOR", "XNOR"}
Division == {"DIV", "SIGNDIV", "MOD", "SIGNMOD"}

\* As if the range test looked at one operand only.
HandledOneSided(op, a, b) ==
    CASE op \in {"ADD", "SUB"} -> a \in (Quo(SV_MIN, 2) + 1)..(Quo(SV_MAX, 2) - 1)
      [] op = "MUL" -> Abs(a) < 2^(SV_BITS \div 2) /\ Abs(b) < 2^(SV_BITS \div 2)
      [] OTHER -> op # "SHL"

\* Whether CalcSmallValue handles the operation: the result stays in the word.
Handled(op, a, b) ==
    CASE op \in {"ADD", "SUB"} ->
             {a, b} \subseteq (Quo(SV_MIN, 2) + 1)..(Quo(SV_MAX, 2) - 1)
      [] op = "MUL" -> Abs(a) < 2^(SV_BITS \div 2) /\ Abs(b) < 2^(SV_BITS \div 2)
      [] OTHER -> op # "SHL"

\* Machine arithmetic; a shift by a negative or by a large count is undefined
\* and not among the operands.
CalcSmallValue(op, a, b) ==
    CASE op = "ADD" -> Machine(a + b)
      [] op = "SUB" -> Machine(a - b)
      [] op = "MUL" -> Machine(a * b)
      [] op \in {"DIV", "SIGNDIV"} -> Machine(Quo(a, b))
      [] op \in {"MOD", "SIGNMOD"} -> Rem(a, b)
      [] op = "NEG" -> Machine(-a)
      [] op = "NOT" -> -1 - a
      [] op \in BitOps -> Bits(op, a, b, SV_BITS + 1)
      [] op = "SHR" -> a \div 2^b
      [] op = "LNOT" -> Truth(a = 0)
      [] op \in Logical -> Logic(op, a, b)
      [] op = "IDENT" -> a

\* The computation with bit vectors.  DIV and MOD are unsigned here.
CalcBV(op, lhs, rhs) ==
    LET a == lhs.val
        b == rhs.val
        u(v) == v % 2^NativeSize
    IN  CASE op = "ADD" -> setBV(Native(a + b))
          [] op = "SUB" -> setBV(Native(a - b))
          [] op = "MUL" -> setBV(Native(a * b))
          [] op = "DIV" -> setBV(Native(u(a) \div u(b)))
          [] op = "MOD" -> setBV(Native(u(a) % u(b)))
          [] op = "SIGNDIV" -> setBV(Native(Quo(a, b)))
          [] op = "SIGNMOD" -> setBV(Rem(a, b))
          [] op = "NEG" -> setBV(Native(-a))
          [] op = "NOT" -> setBV(-1 - a)
          [] op \in BitOps -> setBV(Bits(op, a, b, NativeSize))
          [] op = "SHL" /\ rhs.type = "SV" -> setBV(Native(IF b >= 0 THEN a * 2^b ELSE a \div 2^(-b)))
          [] op = "SHR" /\ rhs.type = "SV" -> setBV(Native(IF b >= 0 THEN a \div 2^b ELSE a * 2^(-b)))
          [] op \in {"SHL", "SHR"} /\ rhs.type = "BV" -> setBV(0)
          [] op = "LNOT" -> SV(Truth(a = 0))
          [] op \in Logical -> SV(Logic(op, a, b))
          [] op = "IDENT" -> setBV(a)

CalcImpl(op, lhs, rhs) ==
    IF lhs.type = "SV" /\ rhs.type = "SV" /\ Handled(op, lhs.val, rhs.val)
    THEN SV(CalcSmallValue(op, lhs.val, rhs.val))
    ELSE CalcBV(op, lhs, rhs)

-----------------------------------------------------------------------------
(* setStr.                                                                    *)

\* The bits a string needs: exact for powers of two, an approximation for ten.
MinBits(radix, len) ==
    CASE radix = 2 -> len [] radix = 8 -> 3 * len [] radix = 16 -> 4 * len
      [] radix = 10 -> (len * 64) \div 22

Denoted(radix, digits) == FoldLeft(LAMBDA v, d : v * radix + d, 0, digits)

setStr(radix, digits) ==
    LET min == MinBits(radix, Len(digits))
        v   == Denoted(radix, digits)
    IN  CASE min > NativeSize -> [num |-> acc, ret |-> FALSE]
          [] min < SV_BITS    -> [num |-> SV(Machine(v)), ret |-> TRUE]
          [] OTHER -> [num |-> setBV(Native(v)), ret |-> v >= 2^NativeSize]

-----------------------------------------------------------------------------
(* Questions about a number.                                                  *)

getSign(n) ==
    IF n.type = "SV" THEN (IF n.val = 0 THEN 0 ELSE IF n.val < 0 THEN -1 ELSE 1)
    ELSE IF n.val < 0 THEN -1 ELSE 1

\* An unsigned long has one bit more than SV_BITS.
getUInt(n) ==
    CASE n.val < 0 -> 0
      [] n.val >= 0 /\ n.type = "SV" -> n.val
      [] OTHER -> IF getActiveBits(n.val) > SV_BITS + 1 THEN 2^(SV_BITS + 1) - 1 ELSE n.val

getInt(n) == IF n.type = "SV" THEN n.val ELSE IF n.val < 0 THEN SV_MIN ELSE SV_MAX

isInt(n) == n.type = "SV"

isZero(n) == n = SV(0)

isInRange(n, low, high) == n.type = "SV" /\ low <= n.val /\ n.val <= high

\* rangetype 0: unsigned, 1: signed, 2: either.
SmallOkSize(v, size, rangetype) ==
    LET neg == \/ size >= SV_BITS + 1
               \/ IF v = SV_MIN THEN size >= SV_BITS ELSE -v <= 2^(size - 1)
        pos(bits) == size >= bits \/ v < 2^(IF rangetype = 1 THEN size - 1 ELSE size)
    IN  CASE v < 0 -> rangetype # 0 /\ neg
          [] v >= 0 /\ rangetype = 1 -> pos(SV_BITS + 1)
          [] OTHER -> pos(SV_BITS)


BigOkSize(v, size, rangetype) ==
    IF rangetype = 1 \/ (rangetype = 2 /\ v < 0) THEN getMinSignedBits(v) <= size
    ELSE getActiveBits(v) <= size

isOkSize(n, size, rangetype) ==
    IF n.type = "SV" THEN SmallOkSize(n.val, size, rangetype)
    ELSE BigOkSize(n.val, size, rangetype)

-----------------------------------------------------------------------------
\* Numbers from setBV, and numbers from the constructors.
Operands == {setBV(v) : v \in Values} \cup {SV(v) : v \in Values \cap SV_MIN..SV_MAX}

Done(name, a, b, r, result) ==
    /\ ops < MaxOps /\ ops' = ops + 1
    /\ acc' = result /\ ok' = r
    /\ call' = [op |-> name, a |-> a, b |-> b]

Calc(op, rhs) ==
    /\ op \in Division => rhs.val # 0
    /\ Done(op, acc.val, rhs.val, TRUE, CalcImpl(op, acc, rhs))

\* Division by zero: reported, and the number is left as it is.
CalcDivideByZero(op) ==
    Done("error", acc.val, op, FALSE, acc)

CalcUnary(op) == Done(op, acc.val, 0, TRUE, CalcImpl(op, acc, SV(0)))

SignExtend(size) == Done("SignExtend", acc.val, size, TRUE, setBV(Wrap(acc.val, size)))

SetStr(s) ==
    LET r == setStr(s[1], s[2]) IN Done("setStr", s[1], s[2], r.ret, r.num)

Set(v) == Done("set", v, 0, TRUE, setUnsigned(v))

Increment ==
    Done("++", acc.val, 0, TRUE,
         IF acc.type = "SV" /\ acc.val < SV_MAX THEN SV(acc.val + 1) ELSE BV(Native(acc.val + 1)))

Decrement ==
    Done("--", acc.val, 0, TRUE,
         IF acc.type = "SV" /\ acc.val > SV_MIN THEN SV(acc.val - 1) ELSE BV(Native(acc.val - 1)))

Init == acc = SV(0) /\ call = [op |-> "none", a |-> 0, b |-> 0] /\ ok = TRUE /\ ops = 0

Next ==
    \/ \E v \in Values : v >= 0 /\ Set(v)
    \/ \E op \in {"ADD", "SUB", "MUL", "IDENT"} \cup Division \cup BitOps \cup Logical :
           \E rhs \in Operands : Calc(op, rhs)
    \/ \E op \in Division : CalcDivideByZero(op)
    \/ \E op \in {"SHL", "SHR"}, n \in Shifts : (op = "SHR" => n >= 0) /\ Calc(op, SV(n))
    \/ \E op \in Unary : CalcUnary(op)
    \/ SignExtend(SV_BITS) \/ \E s \in Strings : SetStr(s)
    \/ Increment \/ Decrement

Spec == Init /\ [][Next]_vars

-----------------------------------------------------------------------------
\* The operation on integers, as a number of NativeSize bits.
Exact(op, a, b) ==
    CASE op = "ADD" -> Native(a + b)
      [] op = "SUB" -> Native(a - b)
      [] op = "MUL" -> Native(a * b)
      [] op \in {"DIV", "SIGNDIV"} -> Native(Quo(a, b))
      [] op \in {"MOD", "SIGNMOD"} -> Rem(a, b)
      [] op = "NEG" -> Native(-a)
      [] op = "NOT" -> -1 - a
      [] op \in BitOps -> Bits(op, a, b, NativeSize)
      [] op = "SHL" -> Native(IF b >= 0 THEN a * 2^b ELSE a \div 2^(-b))
      [] op = "SHR" -> a \div 2^b
      [] op = "LNOT" -> Truth(a = 0)
      [] op \in Logical -> Logic(op, a, b)
      [] op = "SignExtend" -> Wrap(a, b)
      [] op = "++" -> Native(a + 1)
      [] op = "--" -> Native(a - 1)
      [] op = "setStr" -> Denoted(a, b)
      [] OTHER -> a

\* Negating the smallest word overflows it, DIV and MOD of negative numbers depend
\* on the form, and decimal strings are taken for shorter than they are.
Excepted(op, a, b) ==
    \/ op \in {"NEG", "SIGNDIV"} /\ a = SV_MIN
    \/ op \in {"DIV", "MOD"} /\ (a < 0 \/ b < 0)
    \/ op = "setStr" /\ (a = 10 \/ MinBits(a, Len(b)) >= NativeSize)

\* "We fall back to bitvect": whether the operands are words or bit vectors, and
\* whether CalcSmallValue or the bit vectors compute it, a result is the exact one.
CalcExact ==
    ~Excepted(call.op, call.a, call.b) => acc.val = Exact(call.op, call.a, call.b)

InRange(v, size, rangetype) ==
    v \in (IF rangetype = 0 THEN 0 ELSE -(2^(size - 1)))
          ..(IF rangetype = 1 THEN 2^(size - 1) - 1 ELSE 2^size - 1)

\* A word of these is a bit vector when setBV has made it.
Halfway(v) == v \in SV_MIN..SV_MAX /\ getMinSignedBits(v) > SV_BITS


=============================================================================
