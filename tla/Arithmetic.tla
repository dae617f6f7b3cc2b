----------------------------- MODULE Arithmetic -----------------------------
(***************************************************************************)
(* One calculation of CS_EXECUTE: any operation or conversion on any two   *)
(* words with any state of AO, integers and the formats f16, bf16 and fi16 *)
(* alike.  The laws say what its result means as a number.                 *)
(***************************************************************************)
EXTENDS Formats, Instructions

VARIABLES
  op, destination, source, ao,   \* the instruction and what it reads
  status,                        \* "ready", "done", or "hung" in an endless loop
  result, overflow               \* what it leaves in the destination and in AO

arithmeticVars == <<op, destination, source, ao, status, result, overflow>>

OnFormats == FLOAT_OPS \cup CONVERSIONS

Init ==
  /\ op \in INTEGER_OPS \cup UNARY_OPS \cup OnFormats \cup {"CMP"}
  /\ destination \in AWord
  /\ source \in IF op \in UNARY_OPS \cup CONVERSIONS THEN {0} ELSE AWord
  /\ ao \in IF op \in OnFormats \cup {"CMP"} THEN {FALSE} ELSE BOOLEAN
  /\ status = "ready" /\ result = destination /\ overflow = ao

\* A comparison leaves its destination; its flags are CompareFlags.
Results ==
  IF op = "CMP" THEN {destination}
  ELSE IF op \in OnFormats THEN FormatResults(op, destination, source)
  ELSE AluResults(op, destination, source, ao)

Calculate ==
  /\ status = "ready" /\ status' = "done"
  /\ result' \in Results
  /\ overflow' = AluOverflow(op, destination, source, ao)
  /\ UNCHANGED <<op, destination, source, ao>>

Hang ==
  /\ status = "ready" /\ op \in OnFormats /\ FormatHangs(op, destination, source)
  /\ status' = "hung"
  /\ UNCHANGED <<op, destination, source, ao, result, overflow>>

Next == Calculate \/ Hang
Spec == Init /\ [][Next]_arithmeticVars
-----------------------------------------------------------------------------
TypeOK ==
  result \in AWord /\ overflow \in BOOLEAN /\ status \in {"ready", "done", "hung"}

\* The exact value of a signed or unsigned sum, difference or product.
SignedExact ==
  LET a == Signed(destination)  b == Signed(source)
  IN CASE op = "SSA" -> a + b [] op = "SSS" -> a - b [] OTHER -> a * b
UnsignedExact ==
  CASE op = "USA" -> destination + source [] op = "USM" -> destination * source
    [] OTHER -> destination - source
ProductFits == destination * source < SIGN * WORDS

Distance(x, y) == Absolute(x - y)

\* A saturating operation gives the representable number nearest to the exact
\* one, and so does USM where the product fits into the int32_t it is formed in
\* (SSA, SSS, SSM, USA, USS and USM in CS_EXECUTE).
Saturates ==
  status = "done" =>
    /\ op \in {"SSA", "SSS", "SSM"} =>
         \A w \in AWord :
           Distance(Signed(result), SignedExact) <= Distance(Signed(w), SignedExact)
    /\ op \in {"USA", "USS"} \/ (op = "USM" /\ ProductFits) =>
         \A w \in AWord :
           Distance(result, UnsignedExact) <= Distance(w, UnsignedExact)

\* Together with AO as a further digit the result is exact: what numbers of
\* several words rest on.  ADC and SBC leave the carry they add out of AO, so the
\* one sum, or difference, that only this carry takes over the end is excepted;
\* of MUL, AO says whether the result is the whole product (ADD, ADC, SUB, SBC,
\* INC, DEC and MUL in CS_EXECUTE).
CarryCompletes ==
  status = "done" =>
    LET digit == carry(overflow) * WORDS
    IN /\ op = "ADD" => destination + source = result + digit
       /\ op = "SUB" => destination - source = result - digit
       /\ op = "ADC" /\ (ao => destination + source # WORDS - 1) =>
            destination + source + carry(ao) = result + digit
       /\ op = "SBC" /\ (ao => destination # source) =>
            destination - source - carry(ao) = result - digit
       /\ op = "INC" => destination + 1 = result + digit
       /\ op = "DEC" => destination - 1 = result - digit
       /\ op = "MUL" => (overflow <=> result # destination * source)

\* Division truncates towards zero, and the remainder it leaves has the sign of
\* the dividend; the one quotient that is no signed word wraps (DIV).
DivisionLaw ==
  status = "done" /\ op = "DIV" /\ source # 0 =>
    LET a == Signed(destination)  b == Signed(source)
        rest == a - Signed(result) * b
    IN \/ a = -SIGN /\ b = -1 /\ Signed(result) = -SIGN
       \/ Absolute(rest) < Absolute(b) /\ (rest = 0 \/ (rest < 0 <=> a < 0))

\* A shift of x by so many places to the left, or to the right: of UBS as an
\* unsigned number, of SBS as a signed one, if it is negative.
ShiftsLeft(x, places, w)  == w = Wrap(x * 2 ^ places)
Divided(x, y, p)          == y * p <= x /\ x < (y + 1) * p
ShiftsRight(x, places, w) ==
  /\ op = "UBS" => Divided(x, w, 2 ^ places)
  /\ op = "SBS" /\ x >= SIGN => Divided(Signed(x), Signed(w), 2 ^ places)

\* A shift within the width of an int multiplies or divides by a power of two,
\* rounded down, and the opposite count shifts as far the other way (UBS and SBS
\* in CS_EXECUTE).
ShiftsScale ==
  LET n == Signed(source)  places == Absolute(n)
  IN status = "done" /\ op \in {"UBS", "SBS"} /\ places < 2 * WIDTH /\ places < SIGN =>
       \A w \in AluResults(op, destination, Wrap(-n), ao) :
         \/ ShiftsLeft(destination, places, result) /\ ShiftsRight(destination, places, w)
         \/ ShiftsRight(destination, places, result) /\ ShiftsLeft(destination, places, w)

\* As cpu_instructions.h:108-109 has it, UBS and SBS shift "left if src > 0".
LeftIfPositive ==
  LET n == Signed(source)
  IN status = "done" /\ op \in {"UBS", "SBS"} /\ n > 0 /\ n < 2 * WIDTH =>
       ShiftsLeft(destination, n, result)


\* The flags of CMP order the words: of less, equal and greater exactly one
\* holds, signed and unsigned, and the two orders differ where the signs do.  So
\* do the float flags with any two that are not NaN, zeros of either sign,
\* subnormal and infinite numbers included; there FZ is the test for equality.
ComparisonOrders ==
  op = "CMP" =>
    LET here  == CompareFlags(destination, source)
        there == CompareFlags(source, destination)
        signs == (destination >= SIGN) # (source >= SIGN)
        NaNs(F) == "NAN" \in Classes(F, destination, source)
        Orders(less, equal) ==
          less \notin here \cap there /\ (equal \in here <=> less \notin here \cup there)
    IN /\ Orders("L", "Z") /\ Orders("UL", "Z") /\ Orders("LL", "FZ")
       /\ ~NaNs(F16) => Orders("FL", "FZ")
       /\ ~NaNs(BF16) => Orders("DL", "FZ")
       /\ (("L" \in here) # ("UL" \in here)) <=> signs

-----------------------------------------------------------------------------
\* The format of op, which is one of f or of d.
FormatOf(f, d) == (IF op \in f THEN {F16} ELSE {}) \cup (IF op \in d THEN {BF16} ELSE {})
Finite(F, w)   == exponent(F, w) # Top(F)
\* The distance to the next number.
Unit(F, w)     == 2 ^ (Exp(F, w) - 1 + Bias(F))
Largest(F)     == Multiple(F, Infinity(F, 0) - 1)
Biggest(S)     == CHOOSE x \in S : \A y \in S : y <= x

\* Sums and differences of finite numbers are less than a unit of the largest of
\* the three numbers off, cancellation and subnormal numbers included, and only
\* what is too large becomes infinite (f16_add, bf16_add).
SumsClose ==
  \A F \in FormatOf({"ADDF", "SUBF"}, {"ADDD", "SUBD"}) :
    /\ status = "done" /\ Finite(F, destination) /\ Finite(F, source)
    /\ Absolute(Exp(F, destination) - Exp(F, source)) < INT_WIDTH
    => LET a == Multiple(F, destination)
           b == Multiple(F, source)
           exact == IF op \in {"ADDF", "ADDD"} THEN a + b ELSE a - b
       IN IF Finite(F, result)
          THEN Absolute(Multiple(F, result) - exact)
                 < Biggest({Unit(F, w) : w \in {destination, source, result}})
          ELSE Absolute(exact) > Largest(F) /\ result = Infinity(F, IF exact < 0 THEN 1 ELSE 0)

\* The product of normal numbers is cut to the number below in size, or is less
\* than a unit off; a quotient may be two units below.  What becomes infinite is
\* too large, and what becomes 0 is below the normal numbers (f16_mult, f16_div
\* and those of bf16).
ProductsClose ==
  \A F \in FormatOf({"MULF", "DIVF"}, {"MULD", "DIVD"}) :
    status = "done" /\ Classes(F, destination, source) = {"NORMAL"} =>
      LET a    == Absolute(Multiple(F, destination))
          b    == Absolute(Multiple(F, source))
          one  == 2 ^ (F.m + Bias(F) - 1)
          units == IF op \in {"MULF", "MULD"} THEN 1 ELSE 2
          \* what the result is compared with and what a unit of it is worth
          exact  == IF op \in {"MULF", "MULD"} THEN a * b ELSE a * one
          weight == IF op \in {"MULF", "MULD"} THEN one ELSE b
          off    == exact - Absolute(Multiple(F, result)) * weight
      IN /\ sign(F, result) = Signs(F, destination, source)
         /\ CASE Class(F, result) = "INF"       -> exact > Largest(F) * weight
              [] Class(F, result) = "ZERO"      -> exact < 2 ^ F.m * weight
              [] Class(F, result) = "SUBNORMAL" -> Absolute(off) < weight
              [] Class(F, result) = "NORMAL"    -> off \in 0 .. units * Unit(F, result) * weight - 1
              [] OTHER                          -> FALSE

FintValue(w) == IntegerOf(w, LONG_WIDTH)
MaxFint      == FintValue(SIGN - 1)
FintUnit(w)  == 2 ^ fexp(w)
IsInt(i)     == i \in -(2 ^ (INT_WIDTH - 1)) + 1 .. 2 ^ (INT_WIDTH - 1) - 1

\* Fint results are less than a unit off where the integers in between fit into
\* an int, doubled if they are negative, or the product into the format; positive
\* products and quotients are the nearest number there is (fi16_add, fi16_mult,
\* fi16_div).
FintsClose ==
  status = "done" /\ op \in {"ADDL", "SUBL", "MULL", "DIVL"} =>
    LET a == FintValue(destination)
        b == FintValue(source)
        exact == CASE op = "ADDL" -> a + b [] op = "SUBL" -> a - b [] op = "MULL" -> a * b
                   [] OTHER -> IF b = 0 THEN 0 ELSE Quotient(a, b)
        fits == IF op = "MULL" THEN Absolute(exact) <= MaxFint
                ELSE IsInt(a) /\ IsInt(b) /\ IsInt(exact) /\ (exact < 0 => IsInt(2 * exact))
        off  == Absolute(FintValue(result) - exact)
    IN fits /\ ~(op = "DIVL" /\ b = 0) =>
         /\ off < Biggest({FintUnit(w) : w \in {result} \cup
                             (IF op \in {"ADDL", "SUBL"} THEN {destination, source} ELSE {})})
         /\ op \in {"MULL", "DIVL"} /\ exact >= 0 =>
              \A w \in AWord : off <= Absolute(FintValue(w) - exact)

=============================================================================
