------------------------------ MODULE Formats ------------------------------
(***************************************************************************)
(* The number formats of ExtendedTypes.c on words of WIDTH bits: float     *)
(* (f16), bfloat (bf16) and fint (fi16), their arithmetic and what the     *)
(* conversions CIF .. CLD of CS_EXECUTE make of them.                      *)
(*                                                                         *)
(* A format has e exponent and m mantissa bits; f16 rounds what it packs   *)
(* below its smallest exponent, bf16 does not.  Single is the host's       *)
(* float, which has the exponents of bf16.  Where C leaves the outcome of  *)
(* a shift or a conversion open, an operator gives the set of what the     *)
(* builds of the Makefile do.                                              *)
(***************************************************************************)
EXTENDS Alu

CONSTANTS
  F16, BF16, FI16,       \* [e |-> 5, m |-> 10], [e |-> 8, m |-> 7], [e |-> 5, m |-> 10]
  SINGLE_M,              \* mantissa bits of a float, 23
  INT_WIDTH,             \* 32, the width of int and of what is shifted
  LONG_WIDTH             \* 64

\* Each format is a word; the largest int and the smallest f16 are floats, a
\* float's mantissa is an int, and the largest fint is a long long but no int.
ASSUME FormatAssumption ==
  /\ \A F \in {F16, BF16, FI16} :
       F \in [e : Nat, m : Nat] /\ F.e > 1 /\ F.m > 0 /\ 1 + F.e + F.m = WIDTH
  /\ SINGLE_M \in Nat /\ INT_WIDTH \in Nat /\ LONG_WIDTH \in Nat
  /\ SINGLE_M > F16.m /\ SINGLE_M > BF16.m
  /\ INT_WIDTH > WIDTH /\ LONG_WIDTH > INT_WIDTH /\ LONG_WIDTH >= 2 * WIDTH
  /\ INT_WIDTH > SINGLE_M /\ INT_WIDTH <= 2 ^ (BF16.e - 1)
  /\ 2 ^ (F16.e - 1) + F16.m <= 2 ^ (BF16.e - 1)
  /\ INT_WIDTH < 2 ^ FI16.e + FI16.m /\ 2 ^ FI16.e + FI16.m < LONG_WIDTH

Single == [e |-> BF16.e, m |-> SINGLE_M]

\* Exponentiation as in PowerAssumption, as far as exponents and widths go.
ASSUME FormatPowerAssumption ==
  \A n \in {2 ^ F.e + F.m : F \in {F16, BF16, FI16, Single}} \cup {2 * 2 ^ FI16.e, LONG_WIDTH} :
    \A i \in 0 .. n : 2 ^ (i + 1) = 2 * 2 ^ i

Bias(F)    == 2 ^ (F.e - 1) - 1
Top(F)     == 2 ^ F.e - 1
Negative(F) == 2 ^ (F.e + F.m)

\* The fields of a word and back.
sign(F, w)     == w \div Negative(F)
exponent(F, w) == (w % Negative(F)) \div 2 ^ F.m
mantissa(F, w) == w % 2 ^ F.m
Word(F, s, x, m) == s * Negative(F) + x * 2 ^ F.m + m

Zero(F, s)     == Word(F, s, 0, 0)
Infinity(F, s) == Word(F, s, Top(F), 0)
QuietNaN(F)    == Word(F, 0, Top(F), 2 ^ (F.m - 1))
Negated(F, w)  == (w + Negative(F)) % (2 * Negative(F))

Class(F, w) ==
  CASE exponent(F, w) = 0      -> IF mantissa(F, w) = 0 THEN "ZERO" ELSE "SUBNORMAL"
    [] exponent(F, w) = Top(F) -> IF mantissa(F, w) = 0 THEN "INF" ELSE "NAN"
    [] OTHER                   -> "NORMAL"

\* What unpack gives of a finite word.
Exp(F, w)  == IF Class(F, w) = "NORMAL" THEN exponent(F, w) - Bias(F) ELSE 1 - Bias(F)
Mant(F, w) == IF Class(F, w) = "NORMAL" THEN mantissa(F, w) + 2 ^ F.m ELSE mantissa(F, w)

\* The position of the highest bit.
Msb(n) == CHOOSE k \in 0 .. LONG_WIDTH : 2 ^ k <= n /\ n < 2 ^ (k + 1)

\* A right shift of an unsigned integer: with a count that is too large the
\* host takes the count modulo the width, and the compiler may know better.
ShiftedRight(n, count) ==
  IF count < INT_WIDTH THEN {n \div 2 ^ count} ELSE {n \div 2 ^ (count % INT_WIDTH), 0}

-----------------------------------------------------------------------------
(***************************************************************************)
(* f16 and bf16.                                                           *)
(***************************************************************************)
\* A mantissa rounded up to the smallest normal one loses that bit.
Below(F, m, shift) ==
  IF shift >= INT_WIDTH THEN 0
  ELSE ((m + (IF F = F16 THEN 2 ^ (shift - 1) ELSE 0)) \div 2 ^ shift) % 2 ^ F.m

\* The exponent of the packed number, and its mantissa's F.m + 1 bits.
Carry(F, mant) == Msb(mant) - F.m
Aligned(mant, carried) ==
  IF carried >= 0 THEN mant \div 2 ^ carried ELSE mant * 2 ^ (-carried)

\* Faulty: a sum that carries keeps its exponent.
Pack_NoCarry(F, s, exp, mant) ==
  LET carried == Carry(F, mant)
      x == IF carried > 0 THEN exp ELSE exp + carried
      m == Aligned(mant, carried)
  IN IF mant = 0 THEN Zero(F, s)
     ELSE CASE x > Bias(F)     -> Infinity(F, s)
            [] x < 1 - Bias(F) -> Word(F, s, 0, Below(F, m, 1 - Bias(F) - x))
            [] OTHER           -> Word(F, s, x + Bias(F), m % 2 ^ F.m)

Pack(F, s, exp, mant) ==
  LET carried == Carry(F, mant)
      x == exp + carried
      m == Aligned(mant, carried)
  IN IF mant = 0 THEN Zero(F, s)
     ELSE CASE x > Bias(F)     -> Infinity(F, s)
            [] x < 1 - Bias(F) -> Word(F, s, 0, Below(F, m, 1 - Bias(F) - x))
            [] OTHER           -> Word(F, s, x + Bias(F), m % 2 ^ F.m)

Classes(F, a, b) == {Class(F, a), Class(F, b)}
Signs(F, a, b)   == (sign(F, a) + sign(F, b)) % 2

\* The mantissas are aligned to the larger exponent; what is shifted out is lost.
SumOfFinite(F, a, b) ==
  LET x == IF Exp(F, a) > Exp(F, b) THEN Exp(F, a) ELSE Exp(F, b)
      Total(ma, mb) ==
        IF sign(F, a) = sign(F, b) THEN Pack(F, sign(F, a), x, ma + mb)
        ELSE IF ma >= mb THEN Pack(F, sign(F, a), x, ma - mb)
        ELSE Pack(F, sign(F, b), x, mb - ma)
  IN {Total(ma, mb) : ma \in ShiftedRight(Mant(F, a), x - Exp(F, a)),
                      mb \in ShiftedRight(Mant(F, b), x - Exp(F, b))}

Sums(F, a, b) ==
  IF "NAN" \in Classes(F, a, b) THEN {QuietNaN(F)}
  ELSE IF Classes(F, a, b) = {"INF"} /\ sign(F, a) # sign(F, b) THEN {QuietNaN(F)}
  ELSE IF Class(F, a) = "INF" THEN {Infinity(F, sign(F, a))}
  ELSE IF Class(F, b) = "INF" THEN {Infinity(F, sign(F, b))}
  ELSE IF Class(F, a) = "ZERO" THEN {b}
  ELSE IF Class(F, b) = "ZERO" THEN {a}
  ELSE SumOfFinite(F, a, b)

Differences(F, a, b) == Sums(F, a, Negated(F, b))

\* Faulty: the highest bit of the product is taken for granted.
ProductOfFinite_NoTop(F, a, b) ==
  Pack(F, Signs(F, a, b), Exp(F, a) + Exp(F, b), (Mant(F, a) * Mant(F, b)) \div 2 ^ (F.m + 1))

ProductOfFinite(F, a, b) ==
  LET product == Mant(F, a) * Mant(F, b)
      carried == IF product >= 2 ^ (2 * F.m + 1) THEN 1 ELSE 0
  IN Pack(F, Signs(F, a, b), Exp(F, a) + Exp(F, b) + carried, product \div 2 ^ (F.m + carried))

Product(F, a, b) ==
  IF "NAN" \in Classes(F, a, b) \/ Classes(F, a, b) = {"INF", "ZERO"} THEN QuietNaN(F)
  ELSE IF "INF" \in Classes(F, a, b) THEN Infinity(F, Signs(F, a, b))
  ELSE IF "ZERO" \in Classes(F, a, b) THEN Zero(F, Signs(F, a, b))
  ELSE ProductOfFinite(F, a, b)

\* The divisor is made normal first, the dividend is not.
QuotientOfFinite(F, a, b) ==
  LET shift == F.m - Msb(Mant(F, b))
  IN Pack(F, Signs(F, a, b), Exp(F, a) - Exp(F, b) - shift,
          (Mant(F, a) * 2 ^ (F.m + shift)) \div (Mant(F, b) * 2 ^ shift))

FloatQuotient(F, a, b) ==
  IF "NAN" \in Classes(F, a, b) \/ Classes(F, a, b) = {"INF"} THEN QuietNaN(F)
  ELSE IF Class(F, b) = "INF" THEN Zero(F, Signs(F, a, b))
  ELSE IF Class(F, a) = "INF" \/ Class(F, b) = "ZERO" THEN Infinity(F, Signs(F, a, b))
  ELSE IF Class(F, a) = "ZERO" THEN Zero(F, Signs(F, a, b))
  ELSE QuotientOfFinite(F, a, b)

-----------------------------------------------------------------------------
(***************************************************************************)
(* Conversions of f16 and bf16 from and to float.                          *)
(***************************************************************************)
DROPPED == SINGLE_M - F16.m        \* 13

\* Below the normal range the rounding bit is added far below the last bit that
\* is kept, and the count of the shift may be too large.
SubnormalFromFloat(f, x) ==
  LET m     == mantissa(Single, f) + 2 ^ SINGLE_M
      shift == 1 - x
  IN IF shift > SINGLE_M + 1 THEN {Zero(F16, sign(Single, f))}
     ELSE {Word(F16, sign(Single, f), 0, n % 2 ^ F16.m) :
             n \in ShiftedRight(m + 2 ^ (shift - 1), shift + DROPPED)}


\* Rounded to the nearest; a tie goes up.
NormalFromFloat(f, x) ==
  Word(F16, sign(Single, f), x, 0) + (mantissa(Single, f) + 2 ^ (DROPPED - 1)) \div 2 ^ DROPPED

f16_from_float(f) ==
  LET x == exponent(Single, f) - Bias(Single) + Bias(F16)
      s == sign(Single, f)
  IN IF Class(Single, f) \in {"ZERO", "SUBNORMAL"} THEN {Zero(F16, s)}
     ELSE IF Class(Single, f) = "NAN" THEN {Word(F16, s, Top(F16), 2 ^ (F16.m - 1))}
     ELSE IF x >= Top(F16) THEN {Infinity(F16, s)}
     ELSE IF x <= 0 THEN SubnormalFromFloat(f, x)
     ELSE {NormalFromFloat(f, x)}

float_from_f16(w) ==
  LET s     == sign(F16, w)
      shift == F16.m - Msb(Mant(F16, w))
  IN CASE Class(F16, w) = "ZERO"             -> Zero(Single, s)
       [] Class(F16, w) = "SUBNORMAL"        ->
            Word(Single, s, Bias(Single) + Exp(F16, w) - shift,
                 (Mant(F16, w) * 2 ^ shift - 2 ^ F16.m) * 2 ^ DROPPED)
       [] Class(F16, w) \in {"INF", "NAN"}   ->
            Word(Single, s, Top(Single), mantissa(F16, w) * 2 ^ DROPPED)
       [] OTHER                              ->
            Word(Single, s, Exp(F16, w) + Bias(Single), mantissa(F16, w) * 2 ^ DROPPED)

CUT == SINGLE_M - BF16.m           \* 16

\* The whole word is rounded to the nearest even one, its exponent and its sign
\* included if the carry gets there.
bf16_from_float(f) ==
  LET lsb == (f \div 2 ^ CUT) % 2
  IN ((f + 2 ^ (CUT - 1) - 1 + lsb) \div 2 ^ CUT) % WORDS

float_from_bf16(w) == w * 2 ^ CUT

\* A float and the integers: here every one has few enough digits to be exact.
FloatOfInt(i) ==
  LET n == Absolute(i)
  IN IF i = 0 THEN 0
     ELSE Word(Single, IF i < 0 THEN 1 ELSE 0, Msb(n) + Bias(Single),
               Aligned(n, Carry(Single, n)) - 2 ^ SINGLE_M)

\* (int) and (long long int) of a float: cut towards zero.  What does not fit is
\* the smallest integer or, on other hosts, the nearest one.
IntegersOf(f, width) ==
  LET limit == 2 ^ (width - 1)
      n     == Aligned(Mant(Single, f), SINGLE_M - Exp(Single, f))
      value == IF sign(Single, f) = 1 THEN -n ELSE n
  IN IF Class(Single, f) \in {"INF", "NAN"} THEN {-limit, limit - 1}
     ELSE IF value \in -limit .. limit - 1 THEN {value}
     ELSE {-limit, Clamp(value, -limit, limit - 1)}

-----------------------------------------------------------------------------
(***************************************************************************)
(* fi16: integers of F.m + 1 digits and an exponent, no infinity.          *)
(***************************************************************************)
\* An integer of so many bits after an overflow, which the compiler lets wrap.
InBits(i, width) ==
  LET half == 2 ^ (width - 1) IN ((i + half) % (2 * half)) - half

\* int_from_fi16 and long_long_from_fi16.
IntegerOf(w, width) ==
  LET m     == mantissa(FI16, w)
      n     == IF exponent(FI16, w) = 0 THEN m
               ELSE InBits((m + 2 ^ FI16.m) * 2 ^ (exponent(FI16, w) - 1), width)
  IN InBits(IF sign(FI16, w) = 1 THEN -n ELSE n, width)

\* The digits cut off.
Cut(i, n) ==
  LET position == Msb(Absolute(i))
      x == IF position < FI16.m THEN 0 ELSE position - FI16.m + 1
  IN [exponent |-> x, mantissa |-> IF x = 0 THEN n ELSE n \div 2 ^ (x - 1) - 2 ^ FI16.m]

\* The fields are joined by or: an exponent of too many bits runs into the sign.
Joined(i, c) ==
  Combine(Or, Combine(Or, IF i < 0 THEN SIGN ELSE 0, Wrap(c.exponent * 2 ^ FI16.m)), Wrap(c.mantissa))

\* The distance to the number that a word stands for, its sign included: for
\* negative numbers it is the sum, and the next word is nearer only when that
\* overflows.
Apart(n, w, width) ==
  LET d == InBits(n - IntegerOf(w, width), width) IN IF d < 0 THEN InBits(-d, width) ELSE d

\* Faulty: takes the word below.
Nearer_Cut(i, n, width) == Joined(i, Cut(i, n))

Nearer(i, n, width) ==
  LET c == Cut(i, n)
      w == Joined(i, c)
  IN IF /\ c.mantissa < 2 ^ FI16.m - 1 \/ c.exponent < Top(FI16)
        /\ Apart(n, Wrap(w + 1), width) < Apart(n, w, width)
     THEN Wrap(w + 1) ELSE w

\* fi16_from_int and fi16_from_long_long.  The smallest integer has no absolute
\* value: the compiler takes it for what it should be, or it stays negative,
\* and then fi16_from_long_long shifts it right until it is 0, for ever.
Smallest(width) == -(2 ^ (width - 1))
FintsFrom(i, width) ==
  CASE i = 0                                       -> {0}
    [] i = Smallest(width) /\ width = INT_WIDTH    -> {Nearer(i, -i, width), Nearer(i, i, width)}
    [] OTHER                                       -> {Nearer(i, Absolute(i), width)}
Hangs(i, width) == width = LONG_WIDTH /\ i = Smallest(width)

fexp(w)  == IF exponent(FI16, w) = 0 THEN 0 ELSE exponent(FI16, w) - 1
fmant(w) == IF exponent(FI16, w) = 0 THEN mantissa(FI16, w) ELSE mantissa(FI16, w) + 2 ^ FI16.m

\* Aligned to the larger exponent; what is shifted out is lost.
FintSum(a, b) ==
  LET x  == IF fexp(a) > fexp(b) THEN fexp(a) ELSE fexp(b)
      ma == fmant(a) \div 2 ^ (x - fexp(a))
      mb == fmant(b) \div 2 ^ (x - fexp(b))
      sa == sign(FI16, a)
      sb == sign(FI16, b)
      m  == IF sa = sb THEN ma + mb ELSE Absolute(ma - mb)
      n  == InBits(m * 2 ^ x, INT_WIDTH)
      s  == IF sa = sb \/ ma >= mb THEN sa ELSE sb
  IN InBits(IF s = 1 THEN -n ELSE n, INT_WIDTH)

FintProduct(a, b) ==
  LET n == InBits(fmant(a) * fmant(b) * 2 ^ (fexp(a) + fexp(b)), LONG_WIDTH)
  IN InBits(IF sign(FI16, a) # sign(FI16, b) THEN -n ELSE n, LONG_WIDTH)

\* The quotient of the absolute values, which is an integer again.
FintQuotients(a, b) ==
  LET na == IntegerOf(a % SIGN, INT_WIDTH)
      nb == IntegerOf(b % SIGN, INT_WIDTH)
      s  == sign(FI16, a) # sign(FI16, b)
      q  == IF nb = 0 THEN 0 ELSE Quotient(na, nb)
  IN IF b = 0 THEN {SIGN - 1 + SIGN * sign(FI16, a)}
     ELSE IF a = 0 THEN {0}
     ELSE IF nb = 0 THEN {IF s THEN WORDS - 1 ELSE SIGN - 1}
     ELSE FintsFrom(IF s THEN InBits(-q, INT_WIDTH) ELSE q, INT_WIDTH)

-----------------------------------------------------------------------------
(***************************************************************************)
(* intermediate.result, from the destination a and the source b.  CIL      *)
(* reads its operand without a sign.                                       *)
(***************************************************************************)
Words(integers) == {Wrap(i) : i \in integers}

FormatResults(m, a, b) ==
  CASE m = "ADDF" -> Sums(F16, a, b)
    [] m = "SUBF" -> Differences(F16, a, b)
    [] m = "MULF" -> {Product(F16, a, b)}
    [] m = "DIVF" -> {FloatQuotient(F16, a, b)}
    [] m = "ADDD" -> Sums(BF16, a, b)
    [] m = "SUBD" -> Differences(BF16, a, b)
    [] m = "MULD" -> {Product(BF16, a, b)}
    [] m = "DIVD" -> {FloatQuotient(BF16, a, b)}
    [] m = "ADDL" -> FintsFrom(FintSum(a, b), INT_WIDTH)
    [] m = "SUBL" -> FintsFrom(FintSum(a, Negated(FI16, b)), INT_WIDTH)
    [] m = "MULL" -> IF a = 0 \/ b = 0 THEN {0} ELSE FintsFrom(FintProduct(a, b), LONG_WIDTH)
    [] m = "DIVL" -> FintQuotients(a, b)
    [] m = "CIF"  -> f16_from_float(FloatOfInt(Signed(a)))
    [] m = "CID"  -> {bf16_from_float(FloatOfInt(Signed(a)))}
    [] m = "CIL"  -> FintsFrom(a, INT_WIDTH)
    [] m = "CFI"  -> Words(IntegersOf(float_from_f16(a), INT_WIDTH))
    [] m = "CFD"  -> {bf16_from_float(float_from_f16(a))}
    [] m = "CFL"  -> UNION {FintsFrom(i, LONG_WIDTH) : i \in IntegersOf(float_from_f16(a), LONG_WIDTH)}
    [] m = "CDI"  -> Words(IntegersOf(float_from_bf16(a), INT_WIDTH))
    [] m = "CDF"  -> f16_from_float(float_from_bf16(a))
    [] m = "CDL"  -> UNION {FintsFrom(i, LONG_WIDTH) : i \in IntegersOf(float_from_bf16(a), LONG_WIDTH)}
    [] m = "CLI"  -> {Wrap(IntegerOf(a, INT_WIDTH))}
    [] m = "CLF"  -> f16_from_float(FloatOfInt(IntegerOf(a, INT_WIDTH)))
    [] m = "CLD"  -> {bf16_from_float(FloatOfInt(IntegerOf(a, INT_WIDTH)))}

\* The calculations that may not end.
FormatHangs(m, a, b) ==
  CASE m = "MULL" -> a # 0 /\ b # 0 /\ Hangs(FintProduct(a, b), LONG_WIDTH)
    [] m = "CFL"  -> \E i \in IntegersOf(float_from_f16(a), LONG_WIDTH) : Hangs(i, LONG_WIDTH)
    [] m = "CDL"  -> \E i \in IntegersOf(float_from_bf16(a), LONG_WIDTH) : Hangs(i, LONG_WIDTH)
    [] OTHER      -> FALSE

\* A finite float as a multiple of the smallest one.
Multiple(F, w) ==
  LET n == Mant(F, w) * 2 ^ (Exp(F, w) - 1 + Bias(F)) IN IF sign(F, w) = 1 THEN -n ELSE n

\* Faulty: floats compared as integers.
LessFloat_Signed(F, a, b) == "NAN" \notin Classes(F, a, b) /\ Signed(a) < Signed(b)

\* < of the host on what float_from_f16 and float_from_bf16 give, which keep the
\* order; nothing is less than NaN, and NaN is not less than anything.
LessFloat(F, a, b) ==
  /\ "NAN" \notin Classes(F, a, b)
  /\ LET V(w) == IF Class(F, w) = "INF" THEN (1 - 2 * sign(F, w)) * 2 ^ (Top(F) + F.m)
                 ELSE Multiple(F, w)
     IN V(a) < V(b)

FormatLess(flag, a, b) ==
  CASE flag = "FL" -> LessFloat(F16, a, b)
    [] flag = "DL" -> LessFloat(BF16, a, b)
    [] flag = "LL" -> IntegerOf(a, LONG_WIDTH) < IntegerOf(b, LONG_WIDTH)
=============================================================================
