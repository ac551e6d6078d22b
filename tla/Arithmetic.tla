----------------------------- MODULE Arithmetic -----------------------------
(***************************************************************************)
(* The number instructions of the interpreter (interpreter.cpp, the        *)
(* do_<op>_<type> handlers, chosen by instr_switch.cpp), run with the      *)
(* Sanitizer's check of divisors in front.                                 *)
(*                                                                         *)
(* A Sala variable is a block of 1, 2, 4 or 8 bytes with no type: each     *)
(* instruction says by its modifier how the bytes are read.  A block's     *)
(* content is therefore a bit pattern, the number 0 .. 2^w - 1 of w bits,  *)
(* and the handlers read it as signed, as unsigned or as floating.  A      *)
(* handler computes in C++: operands narrower than int are promoted to it, *)
(* and the result is cut to the size of the destination.                   *)
(*                                                                         *)
(* Width scales the sizes down (the code has 8 bits a byte).  What the     *)
(* properties need of it is only that a bigger size has more bits.         *)
(* Overflow of signed +, - and * is undefined in C++; each handler is a    *)
(* function of its own that loads, computes and stores, and what a build   *)
(* makes of it wraps.  A shift by more than the promoted width uses, in    *)
(* the same way, the count modulo that width.  Dividing the least signed   *)
(* number by -1 traps on x86 and wraps on other machines: both are         *)
(* modelled.  Floating numbers are compared, negated and tested; rounding  *)
(* (floating ADD .. DIV, F2I, I2F, EXTEND and TRUNCATE between floats) is  *)
(* left out.                                                               *)
(***************************************************************************)
EXTENDS Integers

CONSTANTS
    Local,      \* the local variables of the running function
    Size,       \* Size[l] is the number of bytes of the variable l
    Width,      \* Width[s] is the number of bits of a block of s bytes
    Constant,   \* Constant[s]: patterns of the program's constants of s bytes
    Fill        \* Fill[s]: what a new block of s bytes holds (0xcd in each)

Sizes == {1, 2, 4, 8}

\* The powers of two.
Pow2[n \in Nat] == IF n = 0 THEN 1 ELSE 2 * Pow2[n - 1]

ASSUME SizeAssumption == Size \in [Local -> Sizes]
ASSUME WidthAssumption ==
    /\ Width \in [Sizes -> Nat \ {0}]
    /\ \A s, t \in Sizes : s < t => Width[s] < Width[t]
ASSUME ConstantAssumption ==
    \A s \in Sizes : Constant[s] \subseteq 0 .. Pow2[Width[s]] - 1
ASSUME FillAssumption == \A s \in Sizes : Fill[s] \in 0 .. Pow2[Width[s]] - 1

VARIABLES
    mem,        \* the pattern in each local variable
    stage,      \* ExecState::Stage: EXECUTING, or FINISHED by a crash
    host        \* "up", or why the interpreter's own process trapped

vars == <<mem, stage, host>>

Patterns(s) == 0 .. Pow2[Width[s]] - 1

\* The values an operand of s bytes can have: a variable's or a constant's.
Operands(s) == {mem[l] : l \in {k \in Local : Size[k] = s}} \union Constant[s]

-----------------------------------------------------------------------------
(* Reading a pattern, and cutting a number to one (MemBlock::read, write). *)

IntSize == 4
PromotedWidth(s) == Width[IF s < IntSize THEN IntSize ELSE s]

Narrow(n, s) == n % Pow2[Width[s]]

SignBit(p, s) == p \div Pow2[Width[s] - 1]

Number(mod, p, s) ==
    IF mod = "SIGNED" THEN p - SignBit(p, s) * Pow2[Width[s]] ELSE p

\* The bits of a float below its sign order its values: the greatest are NaNs
\* and the one under them is infinity.
Magnitude(p, s) == p % Pow2[Width[s] - 1]
IsNan(p, s) == Magnitude(p, s) > Pow2[Width[s] - 1] - 2
Float(p, s) == IF SignBit(p, s) = 1 THEN -Magnitude(p, s) ELSE Magnitude(p, s)

Bits(p, s) == {i \in 0 .. Width[s] - 1 : (p \div Pow2[i]) % 2 = 1}
\* What the bits of b below each place add up to.
Below(b) ==
    LET to[n \in Nat] ==
            IF n = 0 THEN 0 ELSE to[n - 1] + IF n - 1 \in b THEN Pow2[n - 1] ELSE 0
    IN  to
FromBits(b, s) == Below(b)[Width[s]]

-----------------------------------------------------------------------------
(* The handlers, as the pattern each leaves in its destination. *)

Add(mod, s, p, q) == Narrow(Number(mod, p, s) + Number(mod, q, s), s)
Sub(mod, s, p, q) == Narrow(Number(mod, p, s) - Number(mod, q, s), s)
Mul(mod, s, p, q) == Narrow(Number(mod, p, s) * Number(mod, q, s), s)

\* C++ division truncates toward zero.
Quotient(x, y) ==
    LET Abs(z) == IF z < 0 THEN -z ELSE z
        n == Abs(x) \div Abs(y)
    IN  IF (x < 0) = (y < 0) THEN n ELSE -n

Div(mod, s, p, q) == Narrow(Quotient(Number(mod, p, s), Number(mod, q, s)), s)
\* Mutant of REM: the quotient rounded down instead of toward zero.
RemDown(mod, s, p, q) ==
    LET x == Number(mod, p, s)
        y == Number(mod, q, s)
    IN  Narrow(IF y > 0 THEN x % y ELSE -((-x) % (-y)), s)

Rem(mod, s, p, q) ==
    LET x == Number(mod, p, s)
        y == Number(mod, q, s)
    IN  Narrow(x - y * Quotient(x, y), s)

And(mod, s, p, q) == FromBits(Bits(p, s) \intersect Bits(q, s), s)
Or(mod, s, p, q) == FromBits(Bits(p, s) \union Bits(q, s), s)
Xor(mod, s, p, q) ==
    FromBits((Bits(p, s) \union Bits(q, s)) \ (Bits(p, s) \intersect Bits(q, s)), s)

\* The count is taken modulo the width the shifted operand is promoted to.
Shl(mod, s, p, q) == Narrow(p * Pow2[q % PromotedWidth(s)], s)
\* Mutant of SHR: do_shr_s* reads the unsigned type.
ShrZeros(mod, s, p, q) == Narrow(p \div Pow2[q % PromotedWidth(s)], s)

Shr(mod, s, p, q) ==
    Narrow(Number(mod, p, s) \div Pow2[Number(mod, q, s) % PromotedWidth(s)], s)

Neg(s, p) == (p + Pow2[Width[s] - 1]) % Pow2[Width[s]]

\* Mutant of EXTEND: do_extend_s* reads the unsigned type.
ExtendZeros(mod, from, to, p) == Narrow(p, to)

Extend(mod, from, to, p) == Narrow(Number(mod, p, from), to)
Truncate(to, p) == Narrow(p, to)

-----------------------------------------------------------------------------
(* Comparisons.  FLOATING is false of a NaN, but for !=, and               *)
(* FLOATING_UNORDERED is true of it.                                       *)

Floating == {"FLOATING", "FLOATING_UNORDERED"}
Unordered(mod, s, p, q) == mod \in Floating /\ (IsNan(p, s) \/ IsNan(q, s))
Value(mod, p, s) == IF mod \in Floating THEN Float(p, s) ELSE Number(mod, p, s)

Less(mod, s, p, q) ==
    IF Unordered(mod, s, p, q) THEN mod = "FLOATING_UNORDERED"
                               ELSE Value(mod, p, s) < Value(mod, q, s)
LessEqual(mod, s, p, q) ==
    IF Unordered(mod, s, p, q) THEN mod = "FLOATING_UNORDERED"
                               ELSE Value(mod, p, s) <= Value(mod, q, s)
Greater(mod, s, p, q) ==
    IF Unordered(mod, s, p, q) THEN mod = "FLOATING_UNORDERED"
                               ELSE Value(mod, p, s) > Value(mod, q, s)
\* Mutant of GREATER_EQUAL: do_greater_equal_w* forgets the NaN.
GreaterEqualPlain(mod, s, p, q) ==
    /\ ~Unordered(mod, s, p, q)
    /\ Value(mod, p, s) >= Value(mod, q, s)
GreaterEqual(mod, s, p, q) ==
    IF Unordered(mod, s, p, q) THEN mod = "FLOATING_UNORDERED"
                               ELSE Value(mod, p, s) >= Value(mod, q, s)
Equal(mod, s, p, q) ==
    IF Unordered(mod, s, p, q) THEN mod = "FLOATING_UNORDERED"
                               ELSE Value(mod, p, s) = Value(mod, q, s)
Unequal(mod, s, p, q) ==
    Unordered(mod, s, p, q) \/ Value(mod, p, s) # Value(mod, q, s)

-----------------------------------------------------------------------------
(* What the switch dispatches: a handler exists for these modifiers and    *)
(* sizes, any other instruction is unreachable.                            *)

Integral == {"SIGNED", "UNSIGNED"}
ComparesAs(mod) == IF mod \in Floating THEN {4, 8} ELSE Sizes
EqualityModifiers == {"UNSIGNED"} \union Floating
SignModifiers(op) == IF op = "SHR" THEN Integral ELSE {"NONE"}

Init ==
    /\ mem = [l \in Local |-> Fill[Size[l]]]
    /\ stage = "EXECUTING"
    /\ host = "up"

Running == stage = "EXECUTING" /\ host = "up"

\* An instruction that ends by writing the pattern p to the variable l.
Write(l, p) ==
    /\ mem' = [mem EXCEPT ![l] = p]
    /\ UNCHANGED <<stage, host>>

Copy ==
    /\ Running
    /\ \E l \in Local : \E p \in Operands(Size[l]) : Write(l, p)

AddSubMul ==
    /\ Running
    /\ \E l \in Local, mod \in Integral : \E p, q \in Operands(Size[l]) :
        \/ Write(l, Add(mod, Size[l], p, q))
        \/ Write(l, Sub(mod, Size[l], p, q))
        \/ Write(l, Mul(mod, Size[l], p, q))

AndOrXor ==
    /\ Running
    /\ \E l \in Local : \E p, q \in Operands(Size[l]) :
        \/ Write(l, And("NONE", Size[l], p, q))
        \/ Write(l, Or("NONE", Size[l], p, q))
        \/ Write(l, Xor("NONE", Size[l], p, q))

Shift ==
    /\ Running
    /\ \E l \in Local : \E p, q \in Operands(Size[l]) :
        \/ \E mod \in SignModifiers("SHL") : Write(l, Shl(mod, Size[l], p, q))
        \/ \E mod \in SignModifiers("SHR") : Write(l, Shr(mod, Size[l], p, q))

\* Sanitizer::do_div_*, do_rem_*: a zero divisor ends the run before the
\* interpreter's handler is called.
ZeroDivision(op, s, q) == q = 0

\* The quotient has no int (or 64-bit) representation; narrower operands are
\* promoted and always have one.
Overflows(mod, s, p, q) ==
    /\ mod = "SIGNED" /\ s >= IntSize
    /\ p = Pow2[Width[s] - 1] /\ q = Pow2[Width[s]] - 1

\* What the division instruction of the processor makes of its operands.
Trap(cause) ==
    /\ host' = cause
    /\ UNCHANGED <<mem, stage>>

Divide(op, Result(_, _, _, _)) ==
    \E l \in Local, mod \in Integral : \E p, q \in Operands(Size[l]) :
        /\ Running
        /\ \/ /\ ZeroDivision(op, Size[l], q)
              /\ stage' = "FINISHED"
              /\ UNCHANGED <<mem, host>>
           \/ /\ ~ZeroDivision(op, Size[l], q)
              /\ \/ /\ q = 0 \/ Overflows(mod, Size[l], p, q)
                    /\ Trap(IF q = 0 THEN "zero" ELSE "overflow")
                 \/ q # 0 /\ Write(l, Result(mod, Size[l], p, q))

DivRem == Divide("DIV", Div) \/ Divide("REM", Rem)

Negate ==
    /\ Running
    /\ \E l \in Local : \E p \in Operands(Size[l]) :
        /\ Size[l] \in {4, 8}
        /\ Write(l, Neg(Size[l], p))

Resize ==
    /\ Running
    /\ \E l \in Local, s \in Sizes : \E p \in Operands(s) :
        \/ /\ s < Size[l]
           /\ \E mod \in Integral : Write(l, Extend(mod, s, Size[l], p))
        \/ s > Size[l] /\ Write(l, Truncate(Size[l], p))

\* The result, 0 or 1, goes to a destination of one byte.
WriteTruth(l, holds) == Write(l, IF holds THEN 1 ELSE 0)

Order ==
    /\ Running
    /\ \E l \in Local, mod \in Integral \union Floating : \E s \in ComparesAs(mod) :
       \E p, q \in Operands(s) :
        /\ Size[l] = 1
        /\ \/ WriteTruth(l, Less(mod, s, p, q))
           \/ WriteTruth(l, LessEqual(mod, s, p, q))
           \/ WriteTruth(l, Greater(mod, s, p, q))
           \/ WriteTruth(l, GreaterEqual(mod, s, p, q))

Equality ==
    /\ Running
    /\ \E l \in Local, mod \in EqualityModifiers : \E s \in ComparesAs(mod) :
       \E p, q \in Operands(s) :
        /\ Size[l] = 1
        /\ \/ WriteTruth(l, Equal(mod, s, p, q))
           \/ WriteTruth(l, Unequal(mod, s, p, q))

\* do_isnan_w32, do_isnan_w64 read the last operand only.
TestNan ==
    /\ Running
    /\ \E l \in Local, s \in {4, 8} : \E p, q \in Operands(s) :
        /\ Size[l] = 1
        /\ WriteTruth(l, IsNan(q, s))

Next ==
    \/ Copy
    \/ AddSubMul
    \/ AndOrXor
    \/ Shift
    \/ DivRem
    \/ Negate
    \/ Resize
    \/ Order
    \/ Equality
    \/ TestNan

Spec == Init /\ [][Next]_vars

-----------------------------------------------------------------------------
(* Properties. *)

\* The program "d = DIV p q; r = REM p q; x = MUL d q; y = ADD x r" gives p
\* back, signed and unsigned, at every size and through every wrap, and the
\* remainder of signed operands is zero or has the sign of p: DIV and REM
\* agree with each other and with MUL and ADD.
DivisionIdentity ==
    \A s \in Sizes, mod \in Integral : \A p, q \in Operands(s) : q # 0 =>
        LET d == Div(mod, s, p, q)
            r == Rem(mod, s, p, q)
        IN  /\ Add(mod, s, Mul(mod, s, d, q), r) = p
            /\ r # 0 => (Number(mod, r, s) < 0) = (Number(mod, p, s) < 0)

\* Computing narrow is computing wide and truncating: whatever extension the
\* program used, ADD, SUB, MUL, AND, OR, XOR and SHL of a narrow size give
\* what TRUNCATE leaves of the wide ones, division and right shift do with
\* the extension of their own sign, and a comparison holds of two numbers iff
\* it holds of their extensions.  Of the shifts this is said for counts from 0 to
\* below the promoted width only: others are taken modulo that width, and the
\* sizes differ in it.
NarrowAsWide ==
    \A s, t \in Sizes, mod \in Integral : \A p, q \in Operands(s) : s < t =>
        LET P == Extend(mod, s, t, p)
            Q == Extend(mod, s, t, q)
        IN  /\ Add(mod, s, p, q) = Truncate(s, Add(mod, t, P, Q))
            /\ Sub(mod, s, p, q) = Truncate(s, Sub(mod, t, P, Q))
            /\ Mul(mod, s, p, q) = Truncate(s, Mul(mod, t, P, Q))
            /\ And(mod, s, p, q) = Truncate(s, And(mod, t, P, Q))
            /\ Or(mod, s, p, q) = Truncate(s, Or(mod, t, P, Q))
            /\ Xor(mod, s, p, q) = Truncate(s, Xor(mod, t, P, Q))
            /\ q # 0 => /\ Div(mod, s, p, q) = Truncate(s, Div(mod, t, P, Q))
                        /\ Rem(mod, s, p, q) = Truncate(s, Rem(mod, t, P, Q))
            /\ q < PromotedWidth(s) /\ Number(mod, q, s) >= 0 =>
                  /\ Shl(mod, s, p, q) = Truncate(s, Shl(mod, t, P, Q))
                  /\ Shr(mod, s, p, q) = Truncate(s, Shr(mod, t, P, Q))
            /\ Less(mod, s, p, q) = Less(mod, t, P, Q)
            /\ Equal(mod, s, p, q) = Equal(mod, t, P, Q)

\* The bit instructions agree with the numbers: a right shift is the division
\* by a power of two, rounded down, what it drops and what it keeps make up p
\* again, a sum is the exclusive or plus the carries, and XOR with -1 (how
\* Sala spells bitwise NOT) is -p - 1.
BitsAgreeWithNumbers ==
    \A s \in Sizes, mod \in Integral : \A p, q \in Operands(s) :
        LET ones == Pow2[Width[s]] - 1
        IN  /\ \A k \in 0 .. Width[s] - 1 : k < Pow2[Width[s] - 1] =>
                  LET down == Shr(mod, s, p, k)
                      rest == Number(mod, p, s) - Number(mod, down, s) * Pow2[k]
                  IN  /\ rest \in 0 .. Pow2[k] - 1
                      /\ Or(mod, s, Shl(mod, s, down, k), And(mod, s, p, Pow2[k] - 1)) = p
            /\ Add(mod, s, p, q) =
                  Add(mod, s, Xor(mod, s, p, q), Mul(mod, s, 2, And(mod, s, p, q)))
            /\ Xor(mod, s, p, ones) = Sub(mod, s, Sub(mod, s, 0, p), 1)

\* A condition and its negation: LESS and GREATER_EQUAL, LESS_EQUAL and
\* GREATER, EQUAL and UNEQUAL are opposite, for floats when one is ordered and
\* the other unordered, so a branch and the branch with the negated condition
\* go the same way even for a NaN, and negating both floats turns an order
\* round.
ComparisonsAgree ==
    \A s \in Sizes, mod \in Integral \union Floating :
    s \in ComparesAs(mod) => \A p, q \in Operands(s) :
        LET Opposite == CASE mod = "FLOATING" -> "FLOATING_UNORDERED"
                          [] mod = "FLOATING_UNORDERED" -> "FLOATING"
                          [] OTHER -> mod
        IN  /\ Less(mod, s, p, q) = ~GreaterEqual(Opposite, s, p, q)
            /\ Greater(mod, s, p, q) = ~LessEqual(Opposite, s, p, q)
            /\ mod # "FLOATING_UNORDERED" =>
                  Equal(mod, s, p, q) = ~Unequal(Opposite, s, p, q)
            /\ Less(mod, s, p, q) = Greater(mod, s, q, p)
            /\ LessEqual(mod, s, p, q) =
                  (Less(mod, s, p, q) \/ Equal(mod, s, p, q))
            /\ mod \in Floating =>
                  Less(mod, s, p, q) = Greater(mod, s, Neg(s, p), Neg(s, q))

\* README.md: the Sanitizer "can be used to prevent crash of the entire
\* Interpreter, if the execution would trigger a serious defect in the
\* program".
SanitizerPreventsCrash == host = "up"

-----------------------------------------------------------------------------
=============================================================================
