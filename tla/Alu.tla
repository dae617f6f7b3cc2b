-------------------------------- MODULE Alu --------------------------------
(***************************************************************************)
(* The arithmetic of CS_EXECUTE on words of WIDTH bits, with the C casts   *)
(* and conversions of the code: results are reduced to the width of        *)
(* intermediate.result, signed operands are read as two's complement.  The *)
(* number formats (float, bfloat, fint) are parameters.                    *)
(***************************************************************************)
EXTENDS Integers

CONSTANTS
  WIDTH,                  \* bits of a word, 16
  FloatResult(_, _, _),   \* mnemonic and operands of a float operation
  FloatLess(_, _, _)      \* "FL", "DL" or "LL" and the operands

ASSUME WidthAssumption == WIDTH \in Nat \ {0, 1} /\ WIDTH % 2 = 0

\* What exponentiation means, for the provers, which do not know it.
ASSUME PowerAssumption ==
  2 ^ 0 = 1 /\ \A i \in 0 .. 2 * WIDTH - 1 : 2 ^ (i + 1) = 2 * 2 ^ i

WORDS  == 2 ^ WIDTH
AWord  == 0 .. WORDS - 1
SIGN   == 2 ^ (WIDTH - 1)

Wrap(i)   == i % WORDS
Signed(w) == IF w < SIGN THEN w ELSE w - WORDS
Clamp(i, lo, hi) == IF i < lo THEN lo ELSE IF i > hi THEN hi ELSE i
\* Faulty: not clamped.
SignedClamp_Wrap(i) == Wrap(i)

SignedClamp(i) == Wrap(Clamp(i, -SIGN, SIGN - 1))

Bit(w, i) == (w \div 2 ^ i) % 2
Combine(f(_, _), a, b) ==
  CHOOSE w \in AWord : \A i \in 0 .. WIDTH - 1 : Bit(w, i) = f(Bit(a, i), Bit(b, i))
And(x, y) == x * y
Or(x, y)  == x + y - x * y
Xor(x, y) == (x + y) % 2

Absolute(i) == IF i < 0 THEN -i ELSE i
\* Faulty: rounds down.
Quotient_Floor(a, b) ==
  IF a < 0 <=> b < 0 THEN Absolute(a) \div Absolute(b)
  ELSE -((Absolute(a) + Absolute(b) - 1) \div Absolute(b))

\* C division truncates towards zero.
Quotient(a, b) ==
  LET q == Absolute(a) \div Absolute(b) IN IF a < 0 <=> b < 0 THEN q ELSE -q

\* Shifts are of 32-bit integers; a larger count is undefined, and the host
\* either takes it modulo 32 or shifts everything out.
Right(w, n) ==
  IF n < 2 * WIDTH THEN {w \div 2 ^ n} ELSE {w \div 2 ^ (n % (2 * WIDTH)), 0}
Left(w, n) ==
  IF n < 2 * WIDTH THEN {Wrap(w * 2 ^ n)} ELSE {Wrap(w * 2 ^ (n % (2 * WIDTH))), 0}

UbsResults(a, shift) == IF shift > 0 THEN Right(a, shift) ELSE Left(a, -shift)

\* Faulty: the mask is one bit short.
SbsResults_Short(a, shift) ==
  IF shift > 0
  THEN LET ones == WORDS - 2 ^ Clamp(WIDTH - shift + 1, 0, WIDTH)
       IN {Combine(Or, w, ones) : w \in Right(a, shift)}
  ELSE Left(a, -shift)

\* A right shift fills with ones whatever the sign is.
SbsResults(a, shift) ==
  IF shift > 0
  THEN LET ones == WORDS - 2 ^ Clamp(WIDTH - shift, 0, WIDTH)
       IN {Combine(Or, w, ones) : w \in Right(a, shift)}
  ELSE Left(a, -shift)

\* Faulty: the product is not reduced.
UsmResults_Unclamped(a, b) == {a * b}

\* The product is formed in 32 signed bits; where it does not fit, the code
\* is undefined: it wraps and counts as negative, or is cut to a word.
UsmResults(a, b) ==
  IF a * b < SIGN * WORDS THEN {Clamp(a * b, 0, WORDS - 1)} ELSE {0, Wrap(a * b)}

\* Sign extension of the low byte.
CbiResult(a) ==
  LET half == 2 ^ (WIDTH \div 2)
      low  == a % half
  IN IF low < half \div 2 THEN low ELSE Wrap(low - half)

carry(ao) == IF ao THEN 1 ELSE 0

\* intermediate.result, from the destination a, the source b and AO: the
\* operations that are defined for every operand.
AluResult(m, a, b, ao) ==
  CASE m = "ADD" -> Wrap(a + b)
    [] m = "ADC" -> Wrap(a + b + carry(ao))
    [] m = "SUB" -> Wrap(a - b)
    [] m = "SBC" -> Wrap(a - b - carry(ao))
    [] m = "MUL" -> Wrap(Signed(a) * Signed(b))
    [] m = "DIV" -> IF b = 0 THEN 0 ELSE Wrap(Quotient(Signed(a), Signed(b)))
    [] m = "NEG" -> Wrap(-a)
    [] m = "ABS" -> IF Signed(a) < 0 THEN Wrap(-a) ELSE a
    [] m = "INC" -> Wrap(a + 1)
    [] m = "DEC" -> Wrap(a - 1)
    [] m = "SSA" -> SignedClamp(Signed(a) + Signed(b))
    [] m = "SSS" -> SignedClamp(Signed(a) - Signed(b))
    [] m = "SSM" -> SignedClamp(Signed(a) * Signed(b))
    [] m = "USA" -> Clamp(a + b, 0, WORDS - 1)
    [] m = "USS" -> Clamp(a - b, 0, WORDS - 1)
    [] m = "AND" -> Combine(And, a, b)
    [] m = "OR"  -> Combine(Or, a, b)
    [] m = "XOR" -> Combine(Xor, a, b)
    [] m = "NOT" -> WORDS - 1 - a
    [] m = "CBI" -> CbiResult(a)
    [] OTHER     -> FloatResult(m, a, b)

AluResults(m, a, b, ao) ==
  CASE m = "UBS" -> UbsResults(a, Signed(b))
    [] m = "SBS" -> SbsResults(a, Signed(b))
    [] m = "USM" -> UsmResults(a, b)
    [] OTHER     -> {AluResult(m, a, b, ao)}

\* Faulty: unsigned and signed borrow confused.
AluOverflow_Signed(m, a, b, ao) ==
  CASE m = "ADD" -> Signed(a) + Signed(b) \notin -SIGN .. SIGN - 1
    [] m = "SUB" -> Signed(a) - Signed(b) \notin -SIGN .. SIGN - 1
    [] OTHER     -> ao

\* The AO flag afterwards.  ADC and SBC leave the carry they add out of it,
\* and a division sets it when the divisor is zero and never clears it.
AluOverflow(m, a, b, ao) ==
  CASE m \in {"ADD", "ADC"} -> a + b > WORDS - 1
    [] m \in {"SUB", "SBC"} -> a - b < 0
    [] m = "INC" -> a = WORDS - 1
    [] m = "DEC" -> a = 0
    [] m = "MUL" -> a * b > WORDS - 1
    [] m = "DIV" -> ao \/ b = 0
    [] m \in {"SSA", "SSS", "SSM", "USA", "USS", "USM"} -> FALSE
    [] OTHER -> ao

\* The flags a comparison sets.
CompareFlags(a, b) ==
  {f \in {"Z", "FZ", "L", "UL", "FL", "DL", "LL"} :
     CASE f = "Z"  -> a = b
       [] f = "FZ" -> a = b \/ (a % SIGN = 0 /\ b % SIGN = 0)
       [] f = "L"  -> Signed(a) < Signed(b)
       [] f = "UL" -> a < b
       [] OTHER    -> FloatLess(f, a, b)}

\* The flags a test sets; it leaves the others alone.
TestFlags(a) ==
  {f \in {"Z", "FZ", "L"} :
     CASE f = "Z"  -> a = 0
       [] f = "FZ" -> a % SIGN = 0
       [] f = "L"  -> a >= SIGN}
=============================================================================
