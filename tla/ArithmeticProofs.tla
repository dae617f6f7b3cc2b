-------------------------- MODULE ArithmeticProofs --------------------------
(***************************************************************************)
(* Proofs of the laws of the integer operations, of the comparisons and of *)
(* how floats and fints are rounded, and that every result is a word, for  *)
(* every width and every choice of the formats.                            *)
(***************************************************************************)
EXTENDS Arithmetic, AluProofs

\* The operands are words, and a result is the one they determine.
Done ==
  /\ op \in INTEGER_OPS \cup UNARY_OPS \cup OnFormats \cup {"CMP"}
  /\ destination \in AWord /\ source \in AWord /\ ao \in BOOLEAN
  /\ status = "done" => /\ result \in Results
                        /\ overflow = AluOverflow(op, destination, source, ao)

LEMMA DoneHolds == Spec => []Done
<1>1. Init => Done
  <2>1. 0 \in AWord
    BY WordFacts DEF AWord
  <2> QED BY <2>1 DEF Init, Done
<1>2. Done /\ [Next]_arithmeticVars => Done'
  <2> SUFFICES ASSUME Done, [Next]_arithmeticVars
               PROVE  Done'
    OBVIOUS
  <2>1. CASE Calculate
    BY <2>1 DEF Done, Calculate, Results
  <2>2. CASE Hang
    BY <2>2 DEF Done, Hang
  <2>3. CASE UNCHANGED arithmeticVars
    BY <2>3 DEF Done, arithmeticVars, Results
  <2> QED BY <2>1, <2>2, <2>3 DEF Next
<1> QED BY <1>1, <1>2, PTL DEF Spec

\* The integer operations go by AluResults.
LEMMA Plain ==
  ASSUME Done, op \notin OnFormats, op # "CMP"
  PROVE  Results = AluResults(op, destination, source, ao)
BY DEF Results

LEMMA Numbers ==
  ASSUME NEW a \in AWord
  PROVE  a \in Nat /\ a < WORDS /\ Signed(a) \in Int /\ -SIGN <= Signed(a) /\ Signed(a) < SIGN
BY WordFacts, SignedWords DEF AWord

LEMMA SignedWrap ==
  ASSUME NEW i \in Int, -SIGN <= i, i < SIGN
  PROVE  Signed(Wrap(i)) = i
<1>1. CASE i >= 0
  <2>1. i = 0 * WORDS + i /\ i \in 0 .. WORDS - 1
    BY <1>1, WordFacts
  <2>2. Wrap(i) = i
    BY <2>1, WordFacts, Division DEF Wrap
  <2> QED BY <2>2 DEF Signed
<1>2. CASE i < 0
  <2>1. i = (-1) * WORDS + (i + WORDS) /\ i + WORDS \in 0 .. WORDS - 1
    BY <1>2, WordFacts
  <2>2. Wrap(i) = i + WORDS
    BY <2>1, WordFacts, Division DEF Wrap
  <2> QED BY <1>2, <2>2, WordFacts DEF Signed
<1> QED BY <1>1, <1>2

\* A clamped number is the nearest one in the range.
LEMMA ClampNearest ==
  \A i, lo, hi \in Int : \A x \in lo .. hi :
    Distance(Clamp(i, lo, hi), i) <= Distance(x, i)
<1> SUFFICES ASSUME NEW i \in Int, NEW lo \in Int, NEW hi \in Int, NEW x \in lo .. hi
             PROVE  Distance(Clamp(i, lo, hi), i) <= Distance(x, i)
  OBVIOUS
<1>1. CASE i < lo
  BY <1>1 DEF Distance, Clamp, Absolute
<1>2. CASE i > hi
  BY <1>2 DEF Distance, Clamp, Absolute
<1>3. CASE lo <= i /\ i <= hi
  BY <1>3 DEF Distance, Clamp, Absolute
<1> QED BY <1>1, <1>2, <1>3

LEMMA Saturating ==
  ASSUME NEW i \in Int
  PROVE  \A w \in AWord :
           /\ Distance(Signed(SignedClamp(i)), i) <= Distance(Signed(w), i)
           /\ Distance(Clamp(i, 0, WORDS - 1), i) <= Distance(w, i)
<1> SUFFICES ASSUME NEW w \in AWord
             PROVE  /\ Distance(Signed(SignedClamp(i)), i) <= Distance(Signed(w), i)
                    /\ Distance(Clamp(i, 0, WORDS - 1), i) <= Distance(w, i)
  OBVIOUS
<1> DEFINE c == Clamp(i, -SIGN, SIGN - 1)
<1>1. c \in Int /\ -SIGN <= c /\ c < SIGN
  BY WordFacts DEF Clamp
<1> HIDE DEF c
<1>2. Signed(Wrap(c)) = c
  BY <1>1, SignedWrap
<1>3. Distance(c, i) <= Distance(Signed(w), i)
  BY SignedWords, WordFacts, ClampNearest DEF c
<1>4. Distance(Clamp(i, 0, WORDS - 1), i) <= Distance(w, i)
  <2> DEFINE hi == WORDS - 1
  <2>1. hi \in Int /\ w \in 0 .. hi
    BY WordFacts DEF AWord
  <2> HIDE DEF hi
  <2>2. Distance(Clamp(i, 0, hi), i) <= Distance(w, i)
    BY <2>1, ClampNearest
  <2> QED BY <2>2 DEF hi
<1> QED BY <1>2, <1>3, <1>4 DEF SignedClamp, c

\* A saturating operation gives the word nearest to the exact result, for every
\* width and all operands (SSA .. USM in CS_EXECUTE).
THEOREM NearestWord == Spec => []Saturates
<1>1. Done => Saturates
  <2> SUFFICES ASSUME Done, status = "done"
               PROVE  Saturates!2
    BY DEF Saturates
  <2> DEFINE a == destination
             b == source
  <2>1. a \in Int /\ b \in Int /\ Signed(a) \in Int /\ Signed(b) \in Int
    BY Numbers DEF Done
  <2>2. /\ Signed(a) + Signed(b) \in Int /\ Signed(a) - Signed(b) \in Int
        /\ Signed(a) * Signed(b) \in Int /\ a * b \in Int
    BY <2>1
  <2>3. result \in Results
    BY DEF Done
  <2>4. CASE op = "SSA"
    <3>1. result = SignedClamp(Signed(a) + Signed(b))
      BY <2>3, <2>4, Plain DEF AluResults, AluResult, OnFormats, FLOAT_OPS, CONVERSIONS
    <3> QED BY <2>2, <2>4, <3>1, Saturating DEF SignedExact
  <2>5. CASE op = "SSS"
    <3>1. result = SignedClamp(Signed(a) - Signed(b))
      BY <2>3, <2>5, Plain DEF AluResults, AluResult, OnFormats, FLOAT_OPS, CONVERSIONS
    <3> QED BY <2>2, <2>5, <3>1, Saturating DEF SignedExact
  <2>6. CASE op = "SSM"
    <3>1. result = SignedClamp(Signed(a) * Signed(b))
      BY <2>3, <2>6, Plain DEF AluResults, AluResult, OnFormats, FLOAT_OPS, CONVERSIONS
    <3> QED BY <2>2, <2>6, <3>1, Saturating DEF SignedExact
  <2>7. CASE op = "USA"
    <3>1. result = Clamp(a + b, 0, WORDS - 1)
      BY <2>3, <2>7, Plain DEF AluResults, AluResult, OnFormats, FLOAT_OPS, CONVERSIONS
    <3>2. a + b \in Int
      BY <2>1
    <3> QED BY <3>2, <2>7, <3>1, Saturating DEF UnsignedExact
  <2>8. CASE op = "USS"
    <3>1. result = Clamp(a - b, 0, WORDS - 1)
      BY <2>3, <2>8, Plain DEF AluResults, AluResult, OnFormats, FLOAT_OPS, CONVERSIONS
    <3>2. a - b \in Int
      BY <2>1
    <3> QED BY <3>2, <2>8, <3>1, Saturating DEF UnsignedExact
  <2>9. CASE op = "USM" /\ ProductFits
    <3>1. result = Clamp(a * b, 0, WORDS - 1)
      BY <2>3, <2>9, Plain DEF AluResults, UsmResults, ProductFits, OnFormats, FLOAT_OPS, CONVERSIONS
    <3> QED BY <2>2, <2>9, <3>1, Saturating DEF UnsignedExact
  <2> QED BY <2>4, <2>5, <2>6, <2>7, <2>8, <2>9
<1> QED BY <1>1, DoneHolds, PTL

\* The product of the signed operands is the product of the words, wrapped.
LEMMA SignedProduct ==
  ASSUME NEW a \in AWord, NEW b \in AWord, a * b < WORDS
  PROVE  Wrap(Signed(a) * Signed(b)) = a * b
<1>1. PICK n \in Nat \ {0} : n = WORDS
  BY WordFacts
<1>2. a \in Nat /\ b \in Nat
  BY Numbers
<1>3. PICK i \in {0, 1}, j \in {0, 1} : Signed(a) = a - i * n /\ Signed(b) = b - j * n
  <2>1. Signed(a) = a - 0 * n \/ Signed(a) = a - 1 * n
    BY <1>1, <1>2 DEF Signed
  <2>2. Signed(b) = b - 0 * n \/ Signed(b) = b - 1 * n
    BY <1>1, <1>2 DEF Signed
  <2> QED BY <2>1, <2>2
<1> DEFINE q == i * j * n - i * b - j * a
<1>4. PICK x \in Int, z \in 0 .. n - 1 : x = Signed(a) * Signed(b) /\ z = a * b
  <2>1. a * b \in Nat /\ Signed(a) * Signed(b) \in Int
    BY <1>2, <1>3
  <2> QED BY <1>1, <2>1
<1>5. q \in Int /\ x = q * n + z
  <2>1. (a - i * n) * (b - j * n) = q * n + a * b
    BY <1>2
  <2> QED BY <1>2, <1>3, <1>4, <2>1
<1> HIDE DEF q
<1>6. x % n = z
  BY <1>4, <1>5, Division
<1> QED BY <1>1, <1>4, <1>6 DEF Wrap

\* AO completes the result of an addition, a subtraction and a product to the
\* exact one, for every width (ADD, ADC, SUB, SBC, INC, DEC and MUL in CS_EXECUTE).
THEOREM CarryIsExact == Spec => []CarryCompletes
<1>1. Done => CarryCompletes
  <2> SUFFICES ASSUME Done, status = "done"
               PROVE  CarryCompletes
    BY DEF CarryCompletes
  <2> DEFINE a == destination
             b == source
  <2>1. a \in Nat /\ b \in Nat /\ a < WORDS /\ b < WORDS /\ WORDS \in Nat /\ WORDS > 1
    BY Numbers, WordFacts DEF Done
  <2>2. result \in Results /\ overflow = AluOverflow(op, a, b, ao)
    BY DEF Done
  <2> DEFINE digit == carry(overflow) * WORDS
  <2>9. (overflow = TRUE => digit = WORDS) /\ (overflow = FALSE => digit = 0)
    BY <2>1 DEF carry
  <2>3. ASSUME NEW i \in Int, 0 <= i, i < WORDS
        PROVE  /\ Wrap(i) = i
               /\ Wrap(i + WORDS) = i
               /\ Wrap(i - WORDS) = i
    <3>1. i = 0 * WORDS + i /\ i + WORDS = 1 * WORDS + i /\ i - WORDS = (-1) * WORDS + i
      BY <2>1, <2>3
    <3>2. i \in 0 .. WORDS - 1 /\ WORDS \in Nat \ {0}
      BY <2>1, <2>3
    <3>3. i + WORDS \in Int /\ i - WORDS \in Int
      BY <2>1
    <3> QED BY <3>1, <3>2, <3>3, Division DEF Wrap
  <2>10. /\ op = "ADD" => a + b = result + digit
         /\ op = "SUB" => a - b = result - digit
         /\ op = "ADC" /\ (ao => a + b # WORDS - 1) => a + b + carry(ao) = result + digit
         /\ op = "SBC" /\ (ao => a # b) => a - b - carry(ao) = result - digit
         /\ op = "INC" => a + 1 = result + digit
         /\ op = "DEC" => a - 1 = result - digit
         /\ op = "MUL" => (overflow <=> result # a * b)
         => CarryCompletes
    BY DEF CarryCompletes
  <2> HIDE DEF digit
  <2>4. CASE op = "ADD"
    <3>0. /\ a + b > WORDS - 1 => overflow = TRUE
          /\ ~(a + b > WORDS - 1) => overflow = FALSE
      <4>1. a + b > WORDS - 1 => AluOverflow(op, a, b, ao) = TRUE
        BY <2>4 DEF AluOverflow
      <4>2. ~(a + b > WORDS - 1) => AluOverflow(op, a, b, ao) = FALSE
        BY <2>4 DEF AluOverflow
      <4> QED BY <2>2, <4>1, <4>2
    <3>1. result = Wrap(a + b)
      BY <2>2, <2>4, Plain DEF AluResults, AluResult, OnFormats, FLOAT_OPS, CONVERSIONS
    <3>2. CASE a + b < WORDS
      BY <2>1, <2>3, <2>4, <3>0, <3>1, <3>2, <2>9, <2>10
    <3>3. CASE a + b >= WORDS
      <4>1. Wrap((a + b - WORDS) + WORDS) = a + b - WORDS
        BY <2>1, <2>3, <3>3
      <4>2. (a + b - WORDS) + WORDS = a + b
        BY <2>1
      <4>3. result = a + b - WORDS
        BY <3>1, <4>1, <4>2
      <4> QED BY <2>1, <2>4, <3>0, <3>1, <3>3, <4>3, <2>9, <2>10
    <3> QED BY <2>1, <3>2, <3>3
  <2>5. CASE op = "SUB"
    <3>0. /\ a - b < 0 => overflow = TRUE
          /\ ~(a - b < 0) => overflow = FALSE
      <4>1. a - b < 0 => AluOverflow(op, a, b, ao) = TRUE
        BY <2>5 DEF AluOverflow
      <4>2. ~(a - b < 0) => AluOverflow(op, a, b, ao) = FALSE
        BY <2>5 DEF AluOverflow
      <4> QED BY <2>2, <4>1, <4>2
    <3>1. result = Wrap(a - b)
      BY <2>2, <2>5, Plain DEF AluResults, AluResult, OnFormats, FLOAT_OPS, CONVERSIONS
    <3>2. CASE a - b >= 0
      BY <2>1, <2>3, <2>5, <3>0, <3>1, <3>2, <2>9, <2>10
    <3>3. CASE a - b < 0
      <4>1. Wrap((a - b + WORDS) - WORDS) = a - b + WORDS
        BY <2>1, <2>3, <3>3
      <4>2. (a - b + WORDS) - WORDS = a - b
        BY <2>1
      <4>3. result = a - b + WORDS
        BY <3>1, <4>1, <4>2
      <4> QED BY <2>1, <2>5, <3>0, <3>1, <3>3, <4>3, <2>9, <2>10
    <3> QED BY <2>1, <3>2, <3>3
  <2>6. CASE op = "INC"
    <3>0. /\ a = WORDS - 1 => overflow = TRUE
          /\ ~(a = WORDS - 1) => overflow = FALSE
      BY <2>2, <2>6 DEF AluOverflow
    <3>1. result = Wrap(a + 1)
      BY <2>2, <2>6, Plain DEF AluResults, AluResult, OnFormats, FLOAT_OPS, CONVERSIONS
    <3>2. CASE a # WORDS - 1
      <4>1. Wrap(a + 1) = a + 1
        BY <2>1, <2>3, <3>2
      <4> QED BY <2>1, <2>6, <3>0, <3>1, <3>2, <4>1, <2>9, <2>10
    <3>3. CASE a = WORDS - 1
      <4>1. Wrap(0 + WORDS) = 0 /\ a + 1 = 0 + WORDS
        BY <2>1, <2>3, <3>3
      <4> QED BY <2>1, <2>6, <3>0, <3>1, <3>3, <4>1, <2>9, <2>10
    <3> QED BY <3>2, <3>3
  <2>7. CASE op = "DEC"
    <3>0. /\ a = 0 => overflow = TRUE
          /\ ~(a = 0) => overflow = FALSE
      BY <2>2, <2>7 DEF AluOverflow
    <3>1. result = Wrap(a - 1)
      BY <2>2, <2>7, Plain DEF AluResults, AluResult, OnFormats, FLOAT_OPS, CONVERSIONS
    <3>2. CASE a # 0
      <4>1. Wrap(a - 1) = a - 1
        BY <2>1, <2>3, <3>2
      <4> QED BY <2>1, <2>7, <3>0, <3>1, <3>2, <4>1, <2>9, <2>10
    <3>3. CASE a = 0
      <4>1. Wrap((WORDS - 1) - WORDS) = WORDS - 1 /\ (WORDS - 1) - WORDS = a - 1
        BY <2>1, <2>3, <3>3
      <4> QED BY <2>1, <2>7, <3>0, <3>1, <3>3, <4>1, <2>9, <2>10
    <3> QED BY <3>2, <3>3
  <2>11. PICK c \in {0, 1} : c = carry(ao) /\ (ao <=> c = 1)
    BY DEF Done, carry
  <2>12. CASE op = "ADC"
    <3> SUFFICES ASSUME c = 0 \/ a + b # WORDS - 1
                 PROVE  a + b + c = result + digit
      BY <2>10, <2>11, <2>12
    <3>0. /\ a + b > WORDS - 1 => overflow = TRUE
          /\ ~(a + b > WORDS - 1) => overflow = FALSE
      <4>1. a + b > WORDS - 1 => AluOverflow(op, a, b, ao) = TRUE
        BY <2>12 DEF AluOverflow
      <4>2. ~(a + b > WORDS - 1) => AluOverflow(op, a, b, ao) = FALSE
        BY <2>12 DEF AluOverflow
      <4> QED BY <2>2, <4>1, <4>2
    <3>1. result = Wrap(a + b + c)
      BY <2>2, <2>11, <2>12, Plain DEF AluResults, AluResult, OnFormats, FLOAT_OPS, CONVERSIONS
    <3>2. CASE a + b < WORDS
      <4>1. Wrap(a + b + c) = a + b + c
        BY <2>1, <2>3, <3>2
      <4> QED BY <2>1, <3>0, <3>1, <3>2, <4>1, <2>9
    <3>3. CASE a + b >= WORDS
      <4>1. Wrap((a + b + c - WORDS) + WORDS) = a + b + c - WORDS
        BY <2>1, <2>3, <3>3
      <4>2. (a + b + c - WORDS) + WORDS = a + b + c
        BY <2>1
      <4>3. result = a + b + c - WORDS
        BY <3>1, <4>1, <4>2
      <4> QED BY <2>1, <3>0, <3>3, <4>3, <2>9
    <3> QED BY <2>1, <3>2, <3>3
  <2>13. CASE op = "SBC"
    <3> SUFFICES ASSUME c = 0 \/ a # b
                 PROVE  a - b - c = result - digit
      BY <2>10, <2>11, <2>13
    <3>0. /\ a - b < 0 => overflow = TRUE
          /\ ~(a - b < 0) => overflow = FALSE
      <4>1. a - b < 0 => AluOverflow(op, a, b, ao) = TRUE
        BY <2>13 DEF AluOverflow
      <4>2. ~(a - b < 0) => AluOverflow(op, a, b, ao) = FALSE
        BY <2>13 DEF AluOverflow
      <4> QED BY <2>2, <4>1, <4>2
    <3>1. result = Wrap(a - b - c)
      BY <2>2, <2>11, <2>13, Plain DEF AluResults, AluResult, OnFormats, FLOAT_OPS, CONVERSIONS
    <3>2. CASE a - b >= 0
      <4>1. Wrap(a - b - c) = a - b - c
        BY <2>1, <2>3, <3>2
      <4> QED BY <2>1, <3>0, <3>1, <3>2, <4>1, <2>9
    <3>3. CASE a - b < 0
      <4>1. Wrap((a - b - c + WORDS) - WORDS) = a - b - c + WORDS
        BY <2>1, <2>3, <3>3
      <4>2. (a - b - c + WORDS) - WORDS = a - b - c
        BY <2>1
      <4>3. result = a - b - c + WORDS
        BY <3>1, <4>1, <4>2
      <4> QED BY <2>1, <3>0, <3>3, <4>3, <2>9
    <3> QED BY <2>1, <3>2, <3>3
  <2>14. CASE op = "MUL"
    <3>1. result = Wrap(Signed(a) * Signed(b))
      BY <2>2, <2>14, Plain DEF AluResults, AluResult, OnFormats, FLOAT_OPS, CONVERSIONS
    <3>2. /\ a * b > WORDS - 1 => overflow = TRUE
          /\ ~(a * b > WORDS - 1) => overflow = FALSE
      <4>1. a * b > WORDS - 1 => AluOverflow(op, a, b, ao) = TRUE
        BY <2>14 DEF AluOverflow
      <4>2. ~(a * b > WORDS - 1) => AluOverflow(op, a, b, ao) = FALSE
        BY <2>14 DEF AluOverflow
      <4> QED BY <2>2, <4>1, <4>2
    <3>3. PICK p \in Nat : p = a * b
      BY <2>1
    <3>4. p < WORDS => result = p
      BY <3>1, <3>3, SignedProduct DEF Done
    <3>5. result \in Nat /\ result < WORDS
      <4>1. Signed(a) * Signed(b) \in Int
        BY Numbers DEF Done
      <4>2. result \in AWord
        BY <3>1, <4>1, Wrapping
      <4> QED BY <4>2, Numbers
    <3>6. overflow <=> result # p
      BY <2>1, <3>2, <3>3, <3>4, <3>5
    <3> QED BY <2>10, <2>14, <3>3, <3>6
  <2>8. CASE op \notin {"ADD", "SUB", "ADC", "SBC", "INC", "DEC", "MUL"}
    BY <2>8, <2>10
  <2> QED BY <2>4, <2>5, <2>6, <2>7, <2>8, <2>12, <2>13, <2>14
<1> QED BY <1>1, DoneHolds, PTL

LEMMA Remainders ==
  ASSUME NEW a \in Int, NEW b \in Int, b # 0
  PROVE  LET q == Quotient(a, b)
             rest == a - q * b
         IN /\ q \in Int
            /\ Absolute(rest) < Absolute(b)
            /\ rest = 0 \/ (rest < 0 <=> a < 0)
<1> DEFINE x == Absolute(a)
           y == Absolute(b)
           p == x \div y
           r == x % y
<1>1. x \in Nat /\ y \in Nat \ {0}
  BY DEF Absolute
<1> HIDE DEF x, y
<1>2. p \in Int /\ r \in 0 .. y - 1 /\ x = p * y + r
  BY <1>1
<1> HIDE DEF p, r
<1>3. Quotient(a, b) = IF a < 0 <=> b < 0 THEN p ELSE -p
  BY DEF Quotient, p, x, y
<1>4. CASE a >= 0 /\ b >= 0
  <2>1. Quotient(a, b) = p /\ a - p * b = r /\ y = b /\ x = a
    BY <1>1, <1>2, <1>3, <1>4 DEF x, y, Absolute
  <2> QED BY <1>1, <1>2, <1>4, <2>1 DEF Absolute
<1>5. CASE a >= 0 /\ b < 0
  <2>1. Quotient(a, b) = -p /\ y = -b /\ x = a
    BY <1>1, <1>2, <1>3, <1>5 DEF x, y, Absolute
  <2>2. a - (-p) * b = r
    BY <1>2, <2>1
  <2> QED BY <1>1, <1>2, <1>5, <2>1, <2>2 DEF Absolute
<1>6. CASE a < 0 /\ b >= 0
  <2>1. Quotient(a, b) = -p /\ y = b /\ x = -a
    BY <1>1, <1>2, <1>3, <1>6 DEF x, y, Absolute
  <2>2. a - (-p) * b = -r
    BY <1>2, <2>1
  <2> QED BY <1>1, <1>2, <1>6, <2>1, <2>2 DEF Absolute
<1>7. CASE a < 0 /\ b < 0
  <2>1. Quotient(a, b) = p /\ y = -b /\ x = -a
    BY <1>1, <1>2, <1>3, <1>7 DEF x, y, Absolute
  <2>2. a - p * b = -r
    BY <1>2, <2>1
  <2> QED BY <1>1, <1>2, <1>7, <2>1, <2>2 DEF Absolute
<1> QED BY <1>4, <1>5, <1>6, <1>7

\* Only the smallest word divided by -1 has a quotient that is no signed word.
LEMMA QuotientFits ==
  ASSUME NEW a \in Int, NEW b \in Int, b # 0, -SIGN <= a, a < SIGN
  PROVE  LET q == Quotient(a, b)
         IN \/ -SIGN <= q /\ q < SIGN
            \/ a = -SIGN /\ b = -1 /\ q = SIGN
<1> DEFINE x == Absolute(a)
           y == Absolute(b)
           p == x \div y
<1>1. x \in Nat /\ y \in Nat \ {0} /\ x <= SIGN
  BY WordFacts DEF Absolute
<1>2. Quotient(a, b) = IF a < 0 <=> b < 0 THEN p ELSE -p
  BY DEF Quotient
<1>3. CASE y = 1
  <2>1. p = x
    BY <1>1, <1>3
  <2> QED BY <1>2, <1>3, <2>1, WordFacts DEF Absolute
<1>4. CASE y > 1
  <2>1. p \in Nat /\ p < SIGN
    <3> HIDE DEF x, y
    <3>1. PICK r \in 0 .. y - 1 : x = p * y + r
      BY <1>1
    <3>2. p \in Nat
      BY <1>1
    <3> HIDE DEF p
    <3>3. p * y >= p * 2
      BY <1>1, <1>4, <3>2
    <3> QED BY <1>1, <3>1, <3>2, <3>3, WordFacts
  <2> QED BY <1>2, <2>1, WordFacts
<1> QED BY <1>1, <1>3, <1>4

\* Division truncates towards zero for every width and all operands, but for the
\* one quotient that is no word (DIV in CS_EXECUTE).
THEOREM DivisionTruncates == Spec => []DivisionLaw
<1>1. Done => DivisionLaw
  <2> SUFFICES ASSUME Done, status = "done", op = "DIV", source # 0
               PROVE  DivisionLaw
    BY DEF DivisionLaw
  <2> DEFINE a == Signed(destination)
             b == Signed(source)
             q == Quotient(a, b)
  <2>1. a \in Int /\ b \in Int /\ -SIGN <= a /\ a < SIGN
    BY Numbers DEF Done
  <2>2. b # 0
    BY WordFacts DEF Done, Signed, AWord
  <2>3. result = Wrap(q)
    <3>1. result \in Results
      BY DEF Done
    <3> QED BY <3>1, Plain DEF AluResults, AluResult, OnFormats, FLOAT_OPS, CONVERSIONS
  <2> HIDE DEF a, b
  <2>4. /\ q \in Int /\ Absolute(a - q * b) < Absolute(b)
        /\ a - q * b = 0 \/ (a - q * b < 0 <=> a < 0)
    BY <2>1, <2>2, Remainders
  <2>5. \/ -SIGN <= q /\ q < SIGN
        \/ a = -SIGN /\ b = -1 /\ q = SIGN
    BY <2>1, <2>2, QuotientFits
  <2> HIDE DEF q
  <2>6. CASE -SIGN <= q /\ q < SIGN
    <3>1. Signed(result) = q
      BY <2>3, <2>4, <2>6, SignedWrap
    <3> QED BY <2>4, <3>1 DEF DivisionLaw, a, b
  <2>7. CASE a = -SIGN /\ b = -1 /\ q = SIGN
    <3>1. Wrap(SIGN) = SIGN
      <4>1. SIGN = 0 * WORDS + SIGN /\ SIGN \in 0 .. WORDS - 1 /\ WORDS \in Nat \ {0}
        BY WordFacts
      <4> QED BY <4>1, Division DEF Wrap
    <3>2. Signed(result) = -SIGN
      BY <2>3, <2>7, <3>1, WordFacts DEF Signed
    <3> QED BY <2>7, <3>2 DEF DivisionLaw, a, b
  <2> QED BY <2>5, <2>6, <2>7
<1> QED BY <1>1, DoneHolds, PTL

\* A count that is not positive shifts to the left.
LEMMA LeftShift ==
  ASSUME op \in {"UBS", "SBS"}, NEW a \in AWord, NEW b \in AWord, Signed(b) <= 0,
         -Signed(b) < 2 * WIDTH, NEW x \in BOOLEAN, NEW w \in AluResults(op, a, b, x)
  PROVE  ShiftsLeft(a, -Signed(b), w)
<1>1. PICK n \in Int : n = Signed(b)
  BY Numbers
<1>2. ~(n > 0) /\ -n < 2 * WIDTH
  BY <1>1
<1>3. w \in Left(a, -n)
  BY <1>1, <1>2 DEF AluResults, UbsResults, SbsResults
<1>4. Left(a, -n) = {Wrap(a * 2 ^ (-n))}
  BY <1>2 DEF Left
<1> QED BY <1>1, <1>3, <1>4 DEF ShiftsLeft

\* A positive count shifts to the right, SBS filling with ones.
LEMMA RightShift ==
  ASSUME op \in {"UBS", "SBS"}, NEW a \in AWord, NEW b \in AWord, Signed(b) > 0,
         Signed(b) < 2 * WIDTH, NEW x \in BOOLEAN, NEW w \in AluResults(op, a, b, x)
  PROVE  ShiftsRight(a, Signed(b), w)
<1>1. PICK n \in Int : n = Signed(b) /\ n > 0 /\ n < 2 * WIDTH
  BY Numbers
<1>2. a \in Nat /\ a < WORDS
  BY Numbers
<1>3. op = "UBS" => w \in Right(a, n)
  BY <1>1 DEF AluResults, UbsResults
<1>4. op = "SBS" => w \in SbsResults(a, n)
  BY <1>1 DEF AluResults
<1>5. PICK p \in Nat \ {0} : p = 2 ^ n
  <2>1. n \in 0 .. 2 * WIDTH
    BY <1>1, WordFacts
  <2> QED BY <2>1, Powers
<1>6. Right(a, n) = {a \div p}
  BY <1>1, <1>5 DEF Right
<1> DEFINE q == a \div p
<1>7. q \in Nat /\ q * p <= a /\ a < (q + 1) * p
  <2>1. q \in Nat /\ a = q * p + (a % p) /\ a % p \in 0 .. p - 1
    BY <1>1, <1>2
  <2> HIDE DEF q
  <2>2. (q + 1) * p = q * p + p
    BY <2>1
  <2> QED BY <1>1, <1>2, <2>1, <2>2
<1> HIDE DEF q
<1>8. op = "UBS" => Divided(a, w, p)
  <2>1. op = "UBS" => w = q
    BY <1>3, <1>1, <1>6 DEF q
  <2> QED BY <1>7, <2>1 DEF Divided
<1>9. ASSUME op = "SBS", a >= SIGN
      PROVE  Divided(Signed(a), Signed(w), p)
  <2> DEFINE k == Clamp(WIDTH - n, 0, WIDTH)
             ones == WORDS - 2 ^ k
  <2>1. w = Combine(Or, q, ones)
    BY <1>4, <1>1, <1>6, <1>9 DEF SbsResults, q
  <2>2. k \in 0 .. WIDTH - 1
    BY <1>1, <1>2, WordFacts DEF Clamp
  <2>3. Signed(a) = a - WORDS
    BY <1>1, <1>2, <1>9, WordFacts DEF Signed
  <2>4. PICK t \in Nat \ {0} : t = 2 ^ k /\ 2 * t <= WORDS
    <3>1. k \in 0 .. 2 * WIDTH - 1 /\ k \in 0 .. 2 * WIDTH /\ k + 1 \in 0 .. 2 * WIDTH
          /\ WIDTH \in 0 .. 2 * WIDTH /\ k + 1 <= WIDTH
      BY <2>2, WordFacts
    <3> HIDE DEF k
    <3>2. 2 ^ (k + 1) = 2 * 2 ^ k /\ 2 ^ k \in Nat \ {0}
      BY <3>1, Powers, PowerAssumption
    <3>3. 2 ^ (k + 1) <= WORDS
      BY <3>1, PowersRise DEF WORDS
    <3> QED BY <3>2, <3>3
  <2>5. /\ q < t
        /\ (q - t) * p <= a - WORDS
        /\ a - WORDS < (q - t + 1) * p
    <3>1. CASE n <= WIDTH
      <4>1. k = WIDTH - n /\ k \in Nat /\ n \in Nat /\ k + n = WIDTH /\ k + n <= 2 * WIDTH
        BY <1>1, <1>2, <3>1, WordFacts DEF Clamp
      <4>2. t * p = WORDS
        BY <4>1, <1>5, <2>4, PowersAdd DEF WORDS
      <4>3. q < t
        <5>1. q >= t => q * p >= t * p
          BY <1>7
        <5> QED BY <1>1, <1>2, <1>7, <4>2, <5>1, WordFacts
      <4>4. (q - t) * p = q * p - t * p /\ (q - t + 1) * p = (q + 1) * p - t * p
        BY <1>7
      <4> QED BY <1>1, <1>2, <1>7, <4>2, <4>3, <4>4, WordFacts
    <3>2. CASE n > WIDTH
      <4>1. k = 0 /\ n \in 0 .. 2 * WIDTH /\ WIDTH \in 0 .. 2 * WIDTH /\ WIDTH <= n
        BY <1>1, <1>2, <3>2, WordFacts DEF Clamp
      <4>2. t = 1
        BY <2>4, <4>1, PowerAssumption
      <4>3. p >= WORDS
        BY <1>5, <4>1, PowersRise DEF WORDS
      <4>4. q = 0
        <5>1. q >= 1 => q * p >= p
          BY <1>7
        <5> QED BY <1>1, <1>2, <1>7, <4>3, <5>1, WordFacts
      <4> QED BY <1>1, <1>2, <4>2, <4>3, <4>4, WordFacts
    <3> QED BY <1>1, <1>2, <3>1, <3>2, WordFacts
  <2>6. w = q + WORDS - t
    <3>1. k \in 0 .. WIDTH /\ q \in 0 .. 2 ^ k - 1
      BY <1>7, <2>2, <2>4, <2>5, WordFacts
    <3> HIDE DEF k
    <3> QED BY <2>1, <2>4, <3>1, Filling
  <2>7. Signed(w) = q - t
    <3>1. w >= SIGN
      BY <1>7, <2>4, <2>6, WordFacts
    <3> QED BY <1>7, <2>6, <3>1, WordFacts DEF Signed
  <2> QED BY <2>3, <2>5, <2>7 DEF Divided
<1> QED BY <1>1, <1>5, <1>8, <1>9 DEF ShiftsRight

\* A shift multiplies or divides by a power of two, and the opposite count goes
\* as far the other way, for every width and all operands (UBS and SBS in
\* CS_EXECUTE).
THEOREM OppositeShifts == Spec => []ShiftsScale
<1>1. Done => ShiftsScale
  <2> DEFINE n == Signed(source)
             back == Wrap(-n)
  <2> SUFFICES ASSUME Done, status = "done", op \in {"UBS", "SBS"}, Absolute(n) < 2 * WIDTH,
                      Absolute(n) < SIGN, NEW w \in AluResults(op, destination, back, ao)
               PROVE  \/ ShiftsLeft(destination, Absolute(n), result) /\ ShiftsRight(destination, Absolute(n), w)
                      \/ ShiftsRight(destination, Absolute(n), result) /\ ShiftsLeft(destination, Absolute(n), w)
    BY DEF ShiftsScale
  <2>1. destination \in AWord /\ source \in AWord /\ ao \in BOOLEAN /\ n \in Int
    BY Numbers DEF Done
  <2>2. result \in AluResults(op, destination, source, ao)
    BY Plain DEF Done, OnFormats, FLOAT_OPS, CONVERSIONS
  <2>3. back \in AWord /\ Signed(back) = -n
    <3>1. -n \in Int /\ -SIGN <= -n /\ -n < SIGN
      BY <2>1, WordFacts DEF Absolute
    <3> QED BY <3>1, Wrapping, SignedWrap
  <2> HIDE DEF back
  <2>4. CASE n > 0
    <3>1. Absolute(n) = n /\ -(-n) = n /\ -n <= 0 /\ n < 2 * WIDTH
      BY <2>1, <2>4 DEF Absolute
    <3>2. ShiftsRight(destination, n, result)
      BY <2>1, <2>2, <2>4, <3>1, RightShift
    <3>3. ShiftsLeft(destination, n, w)
      BY <2>1, <2>3, <3>1, LeftShift
    <3> QED BY <3>1, <3>2, <3>3
  <2>5. CASE n < 0
    <3>1. Absolute(n) = -n /\ -n > 0 /\ n <= 0 /\ -n < 2 * WIDTH
      BY <2>1, <2>5 DEF Absolute
    <3>2. ShiftsLeft(destination, -n, result)
      BY <2>1, <2>2, <3>1, LeftShift
    <3>3. ShiftsRight(destination, -n, w)
      BY <2>1, <2>3, <3>1, RightShift
    <3> QED BY <3>1, <3>2, <3>3
  <2>6. CASE n = 0
    <3>1. n <= 0 /\ -n = n /\ -n < 2 * WIDTH
      <4>1. \A k \in Int : k <= 0 /\ k >= 0 => -k = k
        OBVIOUS
      <4>2. n \in Int /\ n <= 0 /\ n >= 0
        BY <2>1, <2>6
      <4> HIDE DEF n
      <4>3. -n = n
        BY <4>1, <4>2
      <4> QED BY <4>2, <4>3, WordFacts
    <3>2. 2 ^ n = 1
      BY <2>6, PowerAssumption
    <3>3. ShiftsLeft(destination, n, result) /\ ShiftsLeft(destination, n, w)
      <4>1. ShiftsLeft(destination, -n, result)
        BY <2>1, <2>2, <3>1, LeftShift
      <4>2. ShiftsLeft(destination, -Signed(back), w)
        BY <2>1, <2>3, <3>1, LeftShift
      <4> QED BY <2>3, <3>1, <4>1, <4>2
    <3>4. ShiftsRight(destination, n, result)
      <4>1. destination * 1 = destination /\ destination \in Int
        BY <2>1, Numbers
      <4>2. result = destination
        BY <2>1, <3>2, <3>3, <4>1, WrapWord DEF ShiftsLeft
      <4> QED BY <2>1, <3>2, <4>2, Numbers DEF ShiftsRight, Divided
    <3>5. Absolute(n) = n
      BY <2>6 DEF Absolute
    <3> QED BY <3>3, <3>4, <3>5
  <2> QED BY <2>1, <2>4, <2>5, <2>6
<1> QED BY <1>1, DoneHolds, PTL
-----------------------------------------------------------------------------
(***************************************************************************)
(* The order of the numbers that words stand for, in the three formats.    *)
(***************************************************************************)

\* Powers as far as exponentiation is known.
LEMMA PowersUpTo ==
  ASSUME NEW N \in Nat, \A i \in 0 .. N : 2 ^ (i + 1) = 2 * 2 ^ i
  PROVE  \A i \in 0 .. N + 1 : 2 ^ i \in Nat \ {0}
<1> DEFINE S == {i \in Nat : i <= N + 1 => 2 ^ i \in Nat \ {0}}
<1>1. 0 \in S
  BY PowerAssumption
<1>2. \A n \in Nat : n \in S => n + 1 \in S
  OBVIOUS
<1> HIDE DEF S
<1>3. Nat \subseteq S
  BY <1>1, <1>2, Induction
<1> QED BY <1>3 DEF S

LEMMA PowersAddUpTo ==
  ASSUME NEW N \in Nat, \A i \in 0 .. N : 2 ^ (i + 1) = 2 * 2 ^ i
  PROVE  \A i, j \in Nat : i + j <= N + 1 => 2 ^ (i + j) = 2 ^ i * 2 ^ j
<1> SUFFICES ASSUME NEW i \in Nat
             PROVE  \A j \in Nat : i + j <= N + 1 => 2 ^ (i + j) = 2 ^ i * 2 ^ j
  OBVIOUS
<1> DEFINE S == {j \in Nat : i + j <= N + 1 => 2 ^ (i + j) = 2 ^ i * 2 ^ j}
<1>1. 0 \in S
  <2>1. i <= N + 1 => 2 ^ i \in Nat
    BY PowersUpTo
  <2> QED BY <2>1, PowerAssumption
<1>2. ASSUME NEW j \in Nat, j \in S
      PROVE  j + 1 \in S
  <2> SUFFICES ASSUME i + (j + 1) <= N + 1
               PROVE  2 ^ (i + (j + 1)) = 2 ^ i * 2 ^ (j + 1)
    OBVIOUS
  <2>1. /\ i + j \in 0 .. N /\ j \in 0 .. N /\ i \in 0 .. N + 1 /\ j \in 0 .. N + 1
        /\ i + (j + 1) = (i + j) + 1
    OBVIOUS
  <2>2. 2 ^ (i + (j + 1)) = 2 * 2 ^ (i + j) /\ 2 ^ (j + 1) = 2 * 2 ^ j
    BY <2>1
  <2>3. 2 ^ (i + j) = 2 ^ i * 2 ^ j
    BY <1>2, <2>1
  <2>4. 2 ^ i \in Nat /\ 2 ^ j \in Nat
    BY <2>1, PowersUpTo
  <2>5. \A x, y \in Nat : 2 * (x * y) = x * (2 * y)
    OBVIOUS
  <2> QED BY <2>2, <2>3, <2>4, <2>5
<1> HIDE DEF S
<1>3. Nat \subseteq S
  BY <1>1, <1>2, Induction
<1> QED BY <1>3 DEF S

AnyFormat == {F16, BF16, FI16}

\* What is known of a format: its powers, and that it fills a word.
LEMMA FormatFacts ==
  ASSUME NEW F \in AnyFormat
  PROVE  /\ F.e \in Nat /\ F.m \in Nat /\ F.e > 1 /\ F.m > 0
         /\ Top(F) \in Nat /\ Top(F) > 0
         /\ 2 ^ F.m \in Nat \ {0} /\ 2 ^ F.e \in Nat \ {0} /\ 2 ^ F.e = Top(F) + 1
         /\ SIGN = 2 ^ F.e * 2 ^ F.m /\ Negative(F) = SIGN /\ Bias(F) \in Nat
         /\ \A i \in 0 .. Top(F) + F.m + 1 : 2 ^ i \in Nat \ {0}
         /\ \A i, j \in Nat : i + j <= Top(F) + F.m + 1 => 2 ^ (i + j) = 2 ^ i * 2 ^ j
<1>1. F.e \in Nat /\ F.m \in Nat /\ F.e > 1 /\ F.m > 0 /\ 1 + F.e + F.m = WIDTH
  BY FormatAssumption DEF AnyFormat
<1>2. /\ F.e \in 0 .. 2 * WIDTH /\ F.m \in 0 .. 2 * WIDTH /\ F.e - 1 \in 0 .. 2 * WIDTH
      /\ 1 \in 0 .. 2 * WIDTH /\ F.e + F.m = WIDTH - 1 /\ F.e + F.m <= 2 * WIDTH
      /\ (F.e - 1) + 1 = F.e /\ F.e - 1 \in 0 .. 2 * WIDTH - 1
  BY <1>1, WordFacts
<1>3. /\ 2 ^ F.e \in Nat \ {0} /\ 2 ^ F.m \in Nat \ {0} /\ 2 ^ (F.e - 1) \in Nat \ {0}
      /\ 2 ^ F.e = 2 * 2 ^ (F.e - 1)
  <2>1. 2 ^ F.e \in Nat \ {0} /\ 2 ^ F.m \in Nat \ {0} /\ 2 ^ (F.e - 1) \in Nat \ {0}
    BY <1>2, Powers
  <2>2. 2 ^ ((F.e - 1) + 1) = 2 * 2 ^ (F.e - 1)
    BY <1>2, PowerAssumption
  <2> QED BY <1>2, <2>1, <2>2
<1>4. 2 ^ (F.e + F.m) = 2 ^ F.e * 2 ^ F.m
  BY <1>1, <1>2, PowersAdd
<1>5. SIGN = 2 ^ F.e * 2 ^ F.m /\ Negative(F) = SIGN
  BY <1>2, <1>4 DEF SIGN, Negative
<1>6. Top(F) \in Nat /\ Top(F) > 0 /\ 2 ^ F.e = Top(F) + 1 /\ Bias(F) \in Nat
  BY <1>3 DEF Top, Bias
<1>7. PICK N \in Nat : N = 2 ^ F.e + F.m
  BY <1>1, <1>3
<1>8. \A i \in 0 .. N : 2 ^ (i + 1) = 2 * 2 ^ i
  BY <1>7, FormatPowerAssumption DEF AnyFormat
<1>9. /\ \A i \in 0 .. N + 1 : 2 ^ i \in Nat \ {0}
      /\ \A i, j \in Nat : i + j <= N + 1 => 2 ^ (i + j) = 2 ^ i * 2 ^ j
  BY <1>8, PowersUpTo, PowersAddUpTo
<1>10. Top(F) + F.m + 1 = N
  BY <1>1, <1>6, <1>7
<1>11. /\ \A i \in 0 .. Top(F) + F.m + 1 : 2 ^ i \in Nat \ {0}
       /\ \A i, j \in Nat : i + j <= Top(F) + F.m + 1 => 2 ^ (i + j) = 2 ^ i * 2 ^ j
  BY <1>9, <1>10
<1> QED BY <1>1, <1>3, <1>5, <1>6, <1>11

\* A word is its sign, exponent and mantissa.
LEMMA Fields ==
  ASSUME NEW F \in AnyFormat, NEW w \in AWord
  PROVE  /\ sign(F, w) \in {0, 1} /\ exponent(F, w) \in 0 .. Top(F)
         /\ mantissa(F, w) \in 0 .. 2 ^ F.m - 1
         /\ w = sign(F, w) * SIGN + exponent(F, w) * 2 ^ F.m + mantissa(F, w)
         /\ w % SIGN = exponent(F, w) * 2 ^ F.m + mantissa(F, w)
<1>1. PICK p \in Nat \ {0}, t \in Nat \ {0} :
        p = 2 ^ F.m /\ t = 2 ^ F.e /\ t = Top(F) + 1 /\ SIGN = t * p /\ Negative(F) = t * p
  BY FormatFacts
<1>2. w \in 0 .. 2 * SIGN - 1 /\ SIGN \in Nat \ {0} /\ Top(F) \in Nat
  BY WordFacts, FormatFacts DEF AWord
<1>3. w = (w \div SIGN) * SIGN + (w % SIGN) /\ w \div SIGN \in {0, 1} /\ w % SIGN \in 0 .. SIGN - 1
  BY <1>2
<1>4. PICK r \in 0 .. SIGN - 1, d \in {0, 1} : r = w % SIGN /\ d = w \div SIGN /\ w = d * SIGN + r
  BY <1>3
<1>5. r = (r \div p) * p + (r % p) /\ r \div p \in Nat /\ r % p \in 0 .. p - 1
  <2>1. r \in Nat
    BY <1>2
  <2>2. \A n \in Nat : n = (n \div p) * p + (n % p) /\ n \div p \in Nat /\ n % p \in 0 .. p - 1
    OBVIOUS
  <2> QED BY <2>1, <2>2
<1>6. PICK x \in Nat, m \in 0 .. p - 1 : x = r \div p /\ m = r % p /\ r = x * p + m
  BY <1>5
<1>7. x <= Top(F)
  <2> SUFFICES ASSUME x >= t
               PROVE  FALSE
    BY <1>1, <1>2
  <2>1. x * p >= t * p
    BY <1>1, <1>6
  <2>2. x * p \in Int /\ t * p \in Int /\ r < t * p
    BY <1>1, <1>2
  <2> QED BY <1>6, <2>1, <2>2
<1>8. w % p = m
  <2>1. CASE d = 0
    BY <1>2, <1>4, <1>6, <2>1
  <2>2. CASE d = 1
    <3>1. w = (t + x) * p + m
      <4>1. (t + x) * p = t * p + x * p
        OBVIOUS
      <4>2. w = SIGN + r
        BY <1>2, <1>4, <2>2
      <4>3. w = t * p + (x * p + m) /\ t * p \in Nat /\ x * p \in Nat
        <5>1. t * p \in Nat /\ x * p \in Nat
          OBVIOUS
        <5>2. SIGN = t * p
          BY <1>1
        <5> QED BY <1>6, <4>2, <5>1, <5>2
      <4> QED BY <4>1, <4>3
    <3>2. t + x \in Int /\ w \in Int
      BY <1>2
    <3> QED BY <3>1, <3>2, Division
  <2> QED BY <2>1, <2>2
<1>9. sign(F, w) = d /\ exponent(F, w) = x /\ mantissa(F, w) = m
  BY <1>1, <1>4, <1>6, <1>8 DEF sign, exponent, mantissa
<1>10. d * SIGN \in Nat /\ x * p \in Nat
  BY <1>2
<1>11. w = d * SIGN + x * p + m
  BY <1>4, <1>6, <1>10
<1>12. w % SIGN = x * p + m
  BY <1>4, <1>6
<1>13. x \in 0 .. Top(F)
  BY <1>2, <1>7
<1> HIDE DEF sign, exponent, mantissa
<1> QED BY <1>1, <1>9, <1>11, <1>12, <1>13

\* The size of a number in units of the smallest one.
Magnitude(F, x, m) == IF x = 0 THEN m ELSE (m + 2 ^ F.m) * 2 ^ (x - 1)

\* A number of exponent x is below every one of a larger exponent.
LEMMA MagnitudeBounds ==
  ASSUME NEW F \in AnyFormat, NEW x \in 0 .. Top(F), NEW m \in 0 .. 2 ^ F.m - 1
  PROVE  /\ Magnitude(F, x, m) \in Nat
         /\ Magnitude(F, x, m) < 2 ^ F.m * 2 ^ x
         /\ x > 0 => Magnitude(F, x, m) >= 2 ^ F.m * 2 ^ (x - 1)
<1>1. PICK p \in Nat \ {0} : p = 2 ^ F.m
  BY FormatFacts
<1>2. Top(F) \in Nat /\ F.m \in Nat
  BY FormatFacts
<1>3. CASE x = 0
  BY <1>1, <1>3, PowerAssumption DEF Magnitude
<1>4. CASE x > 0
  <2>1. x - 1 \in 0 .. Top(F) + F.m + 1 /\ x - 1 \in Nat /\ 1 \in Nat /\ x = (x - 1) + 1
        /\ (x - 1) + 1 <= Top(F) + F.m + 1
    BY <1>2, <1>4
  <2>2. PICK q \in Nat \ {0} : q = 2 ^ (x - 1)
    BY <2>1, FormatFacts
  <2>3. 2 ^ ((x - 1) + 1) = 2 ^ (x - 1) * 2 ^ 1
    BY <2>1, FormatFacts
  <2>4. 2 ^ 1 = 2
    BY PowerAssumption, WordFacts
  <2>5. 2 ^ x = 2 * q
    BY <2>1, <2>2, <2>3, <2>4
  <2>6. Magnitude(F, x, m) = (m + p) * q
    BY <1>1, <1>4, <2>2 DEF Magnitude
  <2>7. m \in Nat /\ m < p
    BY <1>1
  <2>8. (m + p) * q < p * (2 * q) /\ (m + p) * q >= p * q /\ (m + p) * q \in Nat
    <3>1. (m + p) * q = m * q + p * q /\ p * (2 * q) = p * q + p * q
      BY <2>7
    <3>2. m * q < p * q
      BY <2>7
    <3>3. m * q \in Nat /\ p * q \in Nat
      BY <2>7
    <3> QED BY <3>1, <3>2, <3>3
  <2> QED BY <1>1, <2>2, <2>5, <2>6, <2>8
<1> QED BY <1>2, <1>3, <1>4

\* The words of a sign are ordered as their numbers.
LEMMA MagnitudeRises ==
  ASSUME NEW F \in AnyFormat, NEW x \in 0 .. Top(F), NEW m \in 0 .. 2 ^ F.m - 1,
         NEW y \in 0 .. Top(F), NEW k \in 0 .. 2 ^ F.m - 1,
         x < y \/ (x = y /\ m < k)
  PROVE  Magnitude(F, x, m) < Magnitude(F, y, k)
<1>1. PICK p \in Nat \ {0} : p = 2 ^ F.m
  BY FormatFacts
<1>2. Top(F) \in Nat /\ F.m \in Nat
  BY FormatFacts
<1>3. CASE x < y
  <2>1. x \in Nat /\ y - 1 - x \in Nat /\ x + (y - 1 - x) = y - 1 /\ y - 1 <= Top(F) + F.m + 1
        /\ x \in 0 .. Top(F) + F.m + 1 /\ y - 1 - x \in 0 .. Top(F) + F.m + 1
    BY <1>2, <1>3
  <2>2. 2 ^ (x + (y - 1 - x)) = 2 ^ x * 2 ^ (y - 1 - x)
    BY <2>1, FormatFacts
  <2>3. PICK q \in Nat \ {0}, r \in Nat \ {0} : q = 2 ^ x /\ r = 2 ^ (y - 1 - x)
    BY <2>1, FormatFacts
  <2>4. 2 ^ (y - 1) = q * r
    BY <2>1, <2>2, <2>3
  <2>5. Magnitude(F, x, m) < p * q /\ Magnitude(F, y, k) >= p * (q * r)
        /\ Magnitude(F, x, m) \in Nat /\ Magnitude(F, y, k) \in Nat
    <3>1. y > 0
      BY <1>2, <1>3
    <3>2. Magnitude(F, x, m) \in Nat /\ Magnitude(F, x, m) < 2 ^ F.m * 2 ^ x
      BY MagnitudeBounds
    <3>3. Magnitude(F, y, k) \in Nat /\ Magnitude(F, y, k) >= 2 ^ F.m * 2 ^ (y - 1)
      BY <3>1, MagnitudeBounds
    <3> QED BY <1>1, <2>3, <2>4, <3>2, <3>3
  <2>6. p * q <= p * (q * r) /\ p * q \in Nat /\ p * (q * r) \in Nat
    <3>1. q * r >= q /\ q * r \in Nat
      OBVIOUS
    <3> QED BY <3>1
  <2> QED BY <2>5, <2>6
<1>4. CASE x = y /\ m < k /\ x = 0
  BY <1>4 DEF Magnitude
<1>5. CASE x = y /\ m < k /\ x > 0
  <2>1. x - 1 \in 0 .. Top(F) + F.m + 1
    BY <1>2, <1>5
  <2>2. PICK q \in Nat \ {0} : q = 2 ^ (x - 1)
    BY <2>1, FormatFacts
  <2>3. Magnitude(F, x, m) = (m + p) * q /\ Magnitude(F, y, k) = (k + p) * q
    BY <1>1, <1>5, <2>2 DEF Magnitude
  <2>4. (m + p) * q < (k + p) * q
    BY <1>1, <1>5
  <2> QED BY <2>3, <2>4
<1> QED BY <1>2, <1>3, <1>4, <1>5
\* What tells two words apart in a comparison: the number, in units of the
\* smallest one, with infinity for a number.  float and fint may have
\* the same format, so that the kind is apart.
Size(F, kind, w) ==
  IF kind = "float" /\ Class(F, w) = "INF" THEN 2 ^ (Top(F) + F.m)
  ELSE Magnitude(F, exponent(F, w), mantissa(F, w))
Value(F, kind, w) == IF sign(F, w) = 1 THEN -Size(F, kind, w) ELSE Size(F, kind, w)
\* As a fint every word is a number.
IsNumber(F, kind, w) == kind = "fint" \/ Class(F, w) # "NAN"

LEMMA Sizes ==
  ASSUME NEW F \in AnyFormat, NEW kind \in {"float", "fint"},
         NEW a \in AWord, NEW b \in AWord,
         IsNumber(F, kind, a), IsNumber(F, kind, b)
  PROVE  /\ Size(F, kind, a) \in Nat
         /\ a % SIGN < b % SIGN => Size(F, kind, a) < Size(F, kind, b)
<1> DEFINE x(w) == exponent(F, w)
           m(w) == mantissa(F, w)
           M(w) == Magnitude(F, x(w), m(w))
           Inf(w) == kind = "float" /\ x(w) = Top(F)
<1>1. PICK p \in Nat \ {0} : p = 2 ^ F.m
  BY FormatFacts
<1>2. Top(F) \in Nat /\ Top(F) > 0 /\ F.m \in Nat
  BY FormatFacts
<1>3. \A w \in {a, b} : x(w) \in 0 .. Top(F) /\ m(w) \in 0 .. p - 1 /\ w % SIGN = x(w) * p + m(w)
  BY <1>1, Fields
<1>4. PICK q \in Nat \ {0} : q = 2 ^ Top(F)
  BY <1>2, FormatFacts
<1>5. 2 ^ (Top(F) + F.m) = q * p
  <2>1. Top(F) + F.m <= Top(F) + F.m + 1 /\ Top(F) \in Nat /\ F.m \in Nat
    BY <1>2
  <2>2. 2 ^ (Top(F) + F.m) = 2 ^ Top(F) * 2 ^ F.m
    BY <2>1, FormatFacts
  <2> QED BY <1>1, <1>4, <2>2
<1>6. \A w \in {a, b} : /\ Inf(w) => Size(F, kind, w) = q * p /\ m(w) = 0
                        /\ ~Inf(w) => Size(F, kind, w) = M(w)
  BY <1>2, <1>5 DEF Size, Class, IsNumber
<1>7. \A w \in {a, b} : M(w) \in Nat /\ (x(w) < Top(F) => M(w) < q * p)
  <2> SUFFICES ASSUME NEW w \in {a, b}
               PROVE  M(w) \in Nat /\ (x(w) < Top(F) => M(w) < q * p)
    OBVIOUS
  <2>1. x(w) \in 0 .. Top(F) /\ m(w) \in 0 .. p - 1
    BY <1>3
  <2>2. M(w) \in Nat /\ M(w) < p * 2 ^ x(w)
    BY <1>1, <2>1, MagnitudeBounds
  <2>3. x(w) < Top(F) => M(w) < q * p
    <3> SUFFICES ASSUME x(w) < Top(F)
                 PROVE  M(w) < q * p
      OBVIOUS
    <3>1. 0 \in 0 .. 2 ^ F.m - 1 /\ Top(F) \in 0 .. Top(F) /\ m(w) \in 0 .. 2 ^ F.m - 1
      BY <1>1, <1>2, <2>1
    <3>2. M(w) < Magnitude(F, Top(F), 0)
      BY <2>1, <3>1, MagnitudeRises
    <3>3. Magnitude(F, Top(F), 0) \in Nat /\ Magnitude(F, Top(F), 0) < p * q
      BY <1>1, <1>4, <3>1, MagnitudeBounds
    <3> QED BY <2>2, <3>2, <3>3
  <2> QED BY <2>2, <2>3
<1> HIDE DEF x, m, M, Inf
<1>8. q * p \in Nat
  OBVIOUS
<1>9. Size(F, kind, a) \in Nat /\ Size(F, kind, b) \in Nat
  BY <1>6, <1>7, <1>8
<1>10. ASSUME a % SIGN < b % SIGN
       PROVE  x(a) < x(b) \/ (x(a) = x(b) /\ m(a) < m(b))
  <2>1. PICK u \in Nat, v \in Nat, c \in 0 .. p - 1, d \in 0 .. p - 1 :
          u = x(a) /\ v = x(b) /\ c = m(a) /\ d = m(b) /\ u * p + c < v * p + d
    BY <1>2, <1>3, <1>10
  <2>2. ASSUME v < u
        PROVE  FALSE
    <3>1. u * p >= (v + 1) * p /\ (v + 1) * p = v * p + p
      BY <2>2
    <3>2. u * p \in Nat /\ v * p \in Nat
      OBVIOUS
    <3> QED BY <2>1, <3>1, <3>2
  <2> QED BY <2>1, <2>2
<1>11. ASSUME x(a) < x(b) \/ (x(a) = x(b) /\ m(a) < m(b))
       PROVE  M(a) < M(b)
  BY <1>1, <1>3, <1>11, MagnitudeRises DEF M
<1>12. ASSUME a % SIGN < b % SIGN
       PROVE  Size(F, kind, a) < Size(F, kind, b)
  <2>1. x(a) \in Nat /\ x(b) \in Nat /\ x(a) <= Top(F) /\ x(b) <= Top(F) /\ m(b) \in Nat /\ m(a) \in Nat
    BY <1>2, <1>3
  <2>2. M(a) < M(b) /\ (x(a) < x(b) \/ (x(a) = x(b) /\ m(a) < m(b)))
    BY <1>10, <1>11, <1>12
  <2>3. CASE Inf(a)
    BY <1>2, <1>6, <2>1, <2>2, <2>3 DEF Inf
  <2>4. CASE ~Inf(a) /\ Inf(b)
    <3>1. x(a) < Top(F)
      BY <1>2, <2>1, <2>4 DEF Inf
    <3> QED BY <1>6, <1>7, <2>4, <3>1
  <2>5. CASE ~Inf(a) /\ ~Inf(b)
    BY <1>6, <2>2, <2>5
  <2> QED BY <2>3, <2>4, <2>5
<1> QED BY <1>9, <1>12

LEMMA ZeroIsNumber ==
  ASSUME NEW F \in AnyFormat, NEW kind \in {"float", "fint"}
  PROVE  IsNumber(F, kind, 0)
<1>1. 2 ^ F.m \in Nat \ {0} /\ Top(F) \in Nat /\ Top(F) > 0 /\ Negative(F) \in Nat \ {0}
  BY FormatFacts, WordFacts
<1>2. exponent(F, 0) = 0
  BY <1>1 DEF exponent
<1> QED BY <1>1, <1>2 DEF IsNumber, Class

\* Two words stand for the same number only where they are equal or both zero.
LEMMA ValuesDiffer ==
  ASSUME NEW F \in AnyFormat, NEW kind \in {"float", "fint"},
         NEW a \in AWord, NEW b \in AWord,
         IsNumber(F, kind, a), IsNumber(F, kind, b)
  PROVE  /\ Value(F, kind, a) \in Int /\ Value(F, kind, b) \in Int
         /\ Value(F, kind, a) = Value(F, kind, b) <=> a = b \/ (a % SIGN = 0 /\ b % SIGN = 0)
<1>1. Size(F, kind, a) \in Nat /\ Size(F, kind, b) \in Nat
  BY Sizes
<1>2. a % SIGN < b % SIGN => Size(F, kind, a) < Size(F, kind, b)
  BY Sizes
<1>3. b % SIGN < a % SIGN => Size(F, kind, b) < Size(F, kind, a)
  BY Sizes
<1>4. \A w \in {a, b} : w % SIGN = 0 => Size(F, kind, w) = 0
  <2> SUFFICES ASSUME NEW w \in {a, b}, w % SIGN = 0
               PROVE  Size(F, kind, w) = 0
    OBVIOUS
  <2>1. PICK p \in Nat \ {0} : p = 2 ^ F.m
    BY FormatFacts
  <2>2. exponent(F, w) \in 0 .. Top(F) /\ mantissa(F, w) \in 0 .. p - 1
        /\ 0 = exponent(F, w) * p + mantissa(F, w) /\ Top(F) \in Nat /\ Top(F) > 0
    BY <2>1, Fields, FormatFacts
  <2>3. exponent(F, w) = 0 /\ mantissa(F, w) = 0
    <3>1. PICK x \in Nat, m \in Nat : x = exponent(F, w) /\ m = mantissa(F, w) /\ 0 = x * p + m
      BY <2>2
    <3>2. x * p >= x /\ x * p \in Nat
      OBVIOUS
    <3> QED BY <3>1, <3>2
  <2> QED BY <2>2, <2>3 DEF Size, Class, Magnitude
<1>5. a % SIGN > 0 => Size(F, kind, a) > 0
  <2> SUFFICES ASSUME a % SIGN > 0
               PROVE  Size(F, kind, a) > 0
    OBVIOUS
  <2>1. 0 \in AWord /\ 0 % SIGN = 0
    BY WordFacts DEF AWord
  <2>2. IsNumber(F, kind, 0)
    BY ZeroIsNumber
  <2>3. Size(F, kind, 0) \in Nat /\ (0 % SIGN < a % SIGN => Size(F, kind, 0) < Size(F, kind, a))
    BY <2>1, <2>2, Sizes
  <2> QED BY <1>1, <2>1, <2>3
<1>6. PICK c \in Nat, d \in Nat, s \in {0, 1}, t \in {0, 1} :
        /\ c = a % SIGN /\ d = b % SIGN /\ s = sign(F, a) /\ t = sign(F, b)
        /\ a = s * SIGN + c /\ b = t * SIGN + d
  <2>1. \A w \in AWord : w % SIGN \in Nat /\ w = (w \div SIGN) * SIGN + (w % SIGN)
                         /\ w \div SIGN \in {0, 1}
    BY WordFacts DEF AWord
  <2>2. \A w \in AWord : sign(F, w) = w \div SIGN
    BY FormatFacts DEF sign
  <2> QED BY <2>1, <2>2
<1>7. Value(F, kind, a) \in Int /\ Value(F, kind, b) \in Int
  BY <1>1 DEF Value
<1>8. ASSUME a = b \/ (c = 0 /\ d = 0)
      PROVE  Value(F, kind, a) = Value(F, kind, b)
  BY <1>4, <1>6, <1>8 DEF Value
<1>9. ASSUME Value(F, kind, a) = Value(F, kind, b)
      PROVE  a = b \/ (c = 0 /\ d = 0)
  <2>1. Size(F, kind, a) = Size(F, kind, b)
    BY <1>1, <1>9 DEF Value
  <2>2. c = d
    BY <1>1, <1>2, <1>3, <1>6, <2>1
  <2>3. CASE s = t
    BY <1>6, <2>2, <2>3
  <2>4. CASE s # t
    <3>1. Size(F, kind, a) = 0
      BY <1>1, <1>6, <1>9, <2>1, <2>4 DEF Value
    <3>2. c = 0
      BY <1>5, <1>6, <3>1
    <3> QED BY <2>2, <3>2
  <2> QED BY <2>3, <2>4
<1> QED BY <1>6, <1>7, <1>8, <1>9
\* The comparison of floats is that of the numbers.
LEMMA FloatsCompared ==
  ASSUME NEW F \in {F16, BF16}, NEW a \in AWord, NEW b \in AWord, "NAN" \notin Classes(F, a, b)
  PROVE  LessFloat(F, a, b) <=> Value(F, "float", a) < Value(F, "float", b)
<1> DEFINE V(w) == IF Class(F, w) = "INF" THEN (1 - 2 * sign(F, w)) * 2 ^ (Top(F) + F.m)
                   ELSE Multiple(F, w)
<1>1. F \in AnyFormat
  BY DEF AnyFormat
<1>2. ASSUME NEW w \in {a, b}
      PROVE  V(w) = Value(F, "float", w)
  <2>1. Class(F, w) # "NAN" /\ w \in AWord
    BY DEF Classes
  <2>2. sign(F, w) \in {0, 1} /\ exponent(F, w) \in 0 .. Top(F) /\ mantissa(F, w) \in 0 .. 2 ^ F.m - 1
    BY <1>1, <2>1, Fields
  <2>3. Top(F) \in Nat /\ Top(F) > 0 /\ F.m \in Nat /\ 2 ^ F.m \in Nat \ {0} /\ Bias(F) \in Nat
        /\ 2 ^ (Top(F) + F.m) \in Nat
    <3>1. Top(F) \in Nat /\ F.m \in Nat
      BY <1>1, FormatFacts
    <3>2. Top(F) + F.m \in 0 .. Top(F) + F.m + 1
      BY <3>1
    <3> QED BY <1>1, <3>1, <3>2, FormatFacts
  <2>4. CASE Class(F, w) = "INF"
    <3>1. Size(F, "float", w) = 2 ^ (Top(F) + F.m)
      BY <2>4 DEF Size
    <3>2. PICK n \in Nat : n = 2 ^ (Top(F) + F.m)
      BY <2>3
    <3>3. V(w) = (1 - 2 * sign(F, w)) * n /\ Value(F, "float", w) = IF sign(F, w) = 1 THEN -n ELSE n
      BY <2>4, <3>1, <3>2 DEF Value
    <3>4. sign(F, w) = 0 \/ sign(F, w) = 1
      BY <2>2
    <3> HIDE DEF V
    <3>5. CASE sign(F, w) = 0
      <4>1. (1 - 2 * sign(F, w)) * n = n
        BY <3>5
      <4>2. sign(F, w) # 1
        BY <3>5
      <4> QED BY <3>3, <4>1, <4>2, Zenon
    <3>6. CASE sign(F, w) = 1
      <4>1. (1 - 2 * sign(F, w)) * n = -n
        BY <3>6
      <4> QED BY <3>3, <3>6, <4>1, Zenon
    <3> QED BY <3>4, <3>5, <3>6
  <2>5. CASE Class(F, w) # "INF"
    <3>1. Mant(F, w) * 2 ^ (Exp(F, w) - 1 + Bias(F)) = Magnitude(F, exponent(F, w), mantissa(F, w))
      <4>1. CASE exponent(F, w) = 0
        <5>1. Class(F, w) # "NORMAL"
          BY <4>1 DEF Class
        <5>2. Mant(F, w) = mantissa(F, w) /\ Exp(F, w) - 1 + Bias(F) = 0
          BY <2>3, <5>1 DEF Mant, Exp
        <5>3. 2 ^ (Exp(F, w) - 1 + Bias(F)) = 1
          BY <5>2, PowerAssumption
        <5>4. mantissa(F, w) \in Int
          BY <2>2, <2>3
        <5>5. Magnitude(F, exponent(F, w), mantissa(F, w)) = mantissa(F, w)
          BY <4>1 DEF Magnitude
        <5> QED BY <5>2, <5>3, <5>4, <5>5
      <4>2. CASE exponent(F, w) # 0
        <5>1. exponent(F, w) # Top(F)
          BY <2>1, <2>5, <4>2 DEF Class
        <5>2. Class(F, w) = "NORMAL"
          BY <4>2, <5>1 DEF Class
        <5>3. /\ Mant(F, w) = mantissa(F, w) + 2 ^ F.m
              /\ Exp(F, w) - 1 + Bias(F) = exponent(F, w) - 1
          BY <2>2, <2>3, <5>2 DEF Mant, Exp
        <5> QED BY <4>2, <5>3 DEF Magnitude
      <4> QED BY <4>1, <4>2
    <3>2. Multiple(F, w) = Value(F, "float", w)
      BY <2>5, <3>1 DEF Multiple, Value, Size
    <3> QED BY <2>5, <3>2
  <2> QED BY <2>4, <2>5
<1>3. LessFloat(F, a, b) <=> V(a) < V(b)
  BY DEF LessFloat
<1> QED BY <1>2, <1>3

\* A fint fits into a long long.
LEMMA FintsFit ==
  ASSUME NEW w \in AWord
  PROVE  IntegerOf(w, LONG_WIDTH) = Value(FI16, "fint", w)
<1> DEFINE half == 2 ^ (LONG_WIDTH - 1)
           x == exponent(FI16, w)
           m == mantissa(FI16, w)
           n == Magnitude(FI16, x, m)
<1>1. FI16 \in AnyFormat
  BY DEF AnyFormat
<1>2. Top(FI16) \in Nat /\ FI16.m \in Nat /\ 2 ^ FI16.e = Top(FI16) + 1
  BY <1>1, FormatFacts
<1>3. x \in 0 .. Top(FI16) /\ m \in 0 .. 2 ^ FI16.m - 1 /\ sign(FI16, w) \in {0, 1}
  BY <1>1, Fields
<1>4. n \in Nat /\ n < 2 ^ FI16.m * 2 ^ x
  BY <1>1, <1>3, MagnitudeBounds
<1>5. PICK N \in Nat : N = LONG_WIDTH /\ Top(FI16) + FI16.m < N
  BY <1>2, FormatAssumption
<1>6. /\ \A i \in 0 .. N + 1 : 2 ^ i \in Nat \ {0}
      /\ \A i, j \in Nat : i + j <= N + 1 => 2 ^ (i + j) = 2 ^ i * 2 ^ j
  <2>1. \A i \in 0 .. N : 2 ^ (i + 1) = 2 * 2 ^ i
    BY <1>5, FormatPowerAssumption
  <2> QED BY <2>1, PowersUpTo, PowersAddUpTo
<1>7. half \in Nat \ {0} /\ n < half
  <2>1. PICK u \in Nat, v \in Nat, r \in Nat :
          u = FI16.m /\ v = x /\ r = N - 1 - (u + v) /\ (u + v) + r = N - 1
    <3>1. x \in Nat /\ x <= Top(FI16)
      BY <1>2, <1>3
    <3> QED BY <1>2, <1>5, <3>1
  <2>2. u + v <= N + 1 /\ (u + v) + r <= N + 1 /\ u + v \in Nat
    BY <2>1
  <2>3. 2 ^ (u + v) = 2 ^ u * 2 ^ v /\ 2 ^ ((u + v) + r) = 2 ^ (u + v) * 2 ^ r
    BY <1>6, <2>2
  <2>4. /\ u \in 0 .. N + 1 /\ v \in 0 .. N + 1 /\ r \in 0 .. N + 1
        /\ u + v \in 0 .. N + 1 /\ N - 1 \in 0 .. N + 1
    BY <2>1, <2>2
  <2>5. PICK p \in Nat \ {0}, q \in Nat \ {0} : p = 2 ^ (u + v) /\ q = 2 ^ r
    BY <1>6, <2>4
  <2>6. p <= p * q /\ p * q \in Nat \ {0}
    OBVIOUS
  <2>7. half = p * q
    BY <1>5, <2>1, <2>3, <2>5
  <2>8. n < p
    BY <1>4, <2>1, <2>3, <2>5
  <2> HIDE DEF half, n
  <2> QED BY <1>4, <2>6, <2>7, <2>8
<1>8. ASSUME NEW i \in Int, -half <= i, i < half
      PROVE  InBits(i, LONG_WIDTH) = i
  <2>1. PICK h \in Nat \ {0} : h = half
    BY <1>7
  <2>2. (i + h) % (2 * h) = i + h
    <3>1. i + h = 0 * (2 * h) + (i + h) /\ i + h \in 0 .. 2 * h - 1 /\ 2 * h \in Nat \ {0} /\ i + h \in Int
      BY <1>8, <2>1
    <3> QED BY <3>1, Division
  <2> QED BY <2>1, <2>2 DEF InBits
<1>9. Size(FI16, "fint", w) = n
  BY DEF Size
<1> DEFINE read == IF x = 0 THEN m ELSE InBits((m + 2 ^ FI16.m) * 2 ^ (x - 1), LONG_WIDTH)
<1>10. read = n
  <2>1. -half <= n /\ n < half /\ n \in Int
    <3> HIDE DEF half, n
    <3> QED BY <1>4, <1>7
  <2>2. InBits(n, LONG_WIDTH) = n
    <3> HIDE DEF n
    <3> QED BY <1>8, <2>1
  <2>3. x # 0 => n = (m + 2 ^ FI16.m) * 2 ^ (x - 1)
    BY DEF Magnitude
  <2>4. x = 0 => n = m
    BY DEF Magnitude
  <2> QED BY <2>2, <2>3, <2>4
<1>11. IntegerOf(w, LONG_WIDTH) = InBits(IF sign(FI16, w) = 1 THEN -read ELSE read, LONG_WIDTH)
  BY DEF IntegerOf
<1> HIDE DEF read, n, half
<1>12. -half <= n /\ n < half /\ -half <= -n /\ -n < half /\ n \in Int /\ -n \in Int
  BY <1>4, <1>7
<1>13. InBits(n, LONG_WIDTH) = n /\ InBits(-n, LONG_WIDTH) = -n
  BY <1>8, <1>12
<1> QED BY <1>9, <1>10, <1>11, <1>13 DEF Value

\* The comparisons of the number formats are those of Formats.
FormatsCompared ==
  \A a, b \in AWord : \A f \in {"FL", "DL", "LL"} : FloatLess(f, a, b) <=> FormatLess(f, a, b)

LEMMA ZeroFlag ==
  ASSUME NEW F \in AnyFormat, NEW kind \in {"float", "fint"}, NEW a \in AWord, NEW b \in AWord,
         IsNumber(F, kind, a), IsNumber(F, kind, b), NEW f \in {"FL", "DL", "LL"},
         FloatLess(f, a, b) <=> Value(F, kind, a) < Value(F, kind, b),
         FloatLess(f, b, a) <=> Value(F, kind, b) < Value(F, kind, a)
  PROVE  LET here == CompareFlags(a, b)
             there == CompareFlags(b, a)
         IN f \notin here \cap there /\ ("FZ" \in here <=> f \notin here \cup there)
<1>1. /\ Value(F, kind, a) \in Int /\ Value(F, kind, b) \in Int
      /\ Value(F, kind, a) = Value(F, kind, b) <=> a = b \/ (a % SIGN = 0 /\ b % SIGN = 0)
  BY ValuesDiffer
<1>2. /\ f \in CompareFlags(a, b) <=> FloatLess(f, a, b)
      /\ f \in CompareFlags(b, a) <=> FloatLess(f, b, a)
      /\ "FZ" \in CompareFlags(a, b) <=> a = b \/ (a % SIGN = 0 /\ b % SIGN = 0)
  BY DEF CompareFlags
<1> QED BY <1>1, <1>2

LEMMA FloatFlags ==
  ASSUME FormatsCompared, NEW F \in {F16, BF16}, NEW f \in {"FL", "DL"},
         NEW a \in AWord, NEW b \in AWord, "NAN" \notin Classes(F, a, b),
         \A u, v \in AWord : FormatLess(f, u, v) <=> LessFloat(F, u, v)
  PROVE  LET here == CompareFlags(a, b)
             there == CompareFlags(b, a)
         IN f \notin here \cap there /\ ("FZ" \in here <=> f \notin here \cup there)
<1>1. "NAN" \notin Classes(F, b, a)
  BY DEF Classes
<1>2. /\ FloatLess(f, a, b) <=> LessFloat(F, a, b)
      /\ FloatLess(f, b, a) <=> LessFloat(F, b, a)
  BY DEF FormatsCompared
<1>3. /\ FloatLess(f, a, b) <=> Value(F, "float", a) < Value(F, "float", b)
      /\ FloatLess(f, b, a) <=> Value(F, "float", b) < Value(F, "float", a)
  BY <1>1, <1>2, FloatsCompared
<1>4. IsNumber(F, "float", a) /\ IsNumber(F, "float", b)
  BY DEF IsNumber, Classes
<1>5. F \in AnyFormat
  BY DEF AnyFormat
<1>6. f \in {"FL", "DL", "LL"}
  OBVIOUS
<1> QED BY <1>3, <1>4, <1>5, <1>6, ZeroFlag

\* The flags of CMP are total orders of the words, for every width and every
\* choice of the formats: signed, unsigned and as fint of all words, as float and
\* bfloat of those that are not NaN.
THEOREM ComparisonsOrder ==
  ASSUME FormatsCompared
  PROVE  Spec => []ComparisonOrders
<1>1. Done => ComparisonOrders
  <2> SUFFICES ASSUME Done, op = "CMP"
               PROVE  ComparisonOrders!2
    BY DEF ComparisonOrders
  <2> DEFINE a == destination
             b == source
             here == CompareFlags(a, b)
             there == CompareFlags(b, a)
             NaNs(F) == "NAN" \in Classes(F, a, b)
             Orders(less, equal) ==
               less \notin here \cap there /\ (equal \in here <=> less \notin here \cup there)
  <2>1. a \in AWord /\ b \in AWord
    BY DEF Done
  <2>2. /\ "Z" \in here <=> a = b
        /\ "L" \in here <=> Signed(a) < Signed(b)
        /\ "L" \in there <=> Signed(b) < Signed(a)
        /\ "UL" \in here <=> a < b
        /\ "UL" \in there <=> b < a
    BY DEF CompareFlags
  <2>3. a \in Nat /\ b \in Nat /\ a < 2 * SIGN /\ b < 2 * SIGN /\ SIGN \in Nat
    BY <2>1, WordFacts DEF AWord
  <2>4. /\ Signed(a) = IF a < SIGN THEN a ELSE a - 2 * SIGN
        /\ Signed(b) = IF b < SIGN THEN b ELSE b - 2 * SIGN
    BY WordFacts DEF Signed
  <2>5. FI16 \in AnyFormat /\ F16 \in AnyFormat /\ BF16 \in AnyFormat
    BY DEF AnyFormat
  <2>6. Orders("L", "Z") /\ Orders("UL", "Z")
    BY <2>2, <2>3, <2>4
  <2>7. (("L" \in here) # ("UL" \in here)) <=> ((a >= SIGN) # (b >= SIGN))
    BY <2>2, <2>3, <2>4
  <2>8. Orders("LL", "FZ")
    <3>1. /\ FloatLess("LL", a, b) <=> Value(FI16, "fint", a) < Value(FI16, "fint", b)
          /\ FloatLess("LL", b, a) <=> Value(FI16, "fint", b) < Value(FI16, "fint", a)
      BY <2>1, FintsFit DEF FormatsCompared, FormatLess
    <3>2. IsNumber(FI16, "fint", a) /\ IsNumber(FI16, "fint", b)
      BY DEF IsNumber
    <3> QED BY <2>1, <2>5, <3>1, <3>2, ZeroFlag
  <2>9. ASSUME NEW F \in {F16, BF16}, NEW f \in {"FL", "DL"}, ~NaNs(F),
               \A u, v \in AWord : FormatLess(f, u, v) <=> LessFloat(F, u, v)
        PROVE  Orders(f, "FZ")
    BY <2>1, <2>9, FloatFlags
  <2>10. /\ \A u, v \in AWord : FormatLess("FL", u, v) <=> LessFloat(F16, u, v)
         /\ \A u, v \in AWord : FormatLess("DL", u, v) <=> LessFloat(BF16, u, v)
    BY DEF FormatLess
  <2>11. /\ ~NaNs(F16) => Orders("FL", "FZ")
         /\ ~NaNs(BF16) => Orders("DL", "FZ")
    <3> HIDE DEF NaNs, Orders
    <3> QED BY <2>9, <2>10
  <2> QED BY <2>6, <2>7, <2>8, <2>11
<1> QED BY <1>1, DoneHolds, PTL
-----------------------------------------------------------------------------
(***************************************************************************)
(* How far a sum, product or quotient of floats is off the exact one.      *)
(***************************************************************************)

\* The exponents up to which exponentiation is known.
KnownPower(i) ==
  \E n \in {2 ^ F.e + F.m : F \in {F16, BF16, FI16, Single}} \cup {2 * 2 ^ FI16.e, LONG_WIDTH} :
    n \in Nat /\ i \in 0 .. n + 1

\* Known powers add up.
LEMMA PowersKnown ==
  /\ \A i : KnownPower(i) => i \in Nat /\ 2 ^ i \in Nat \ {0}
  /\ \A i, j \in Nat : KnownPower(i + j) =>
       KnownPower(i) /\ KnownPower(j) /\ 2 ^ (i + j) = 2 ^ i * 2 ^ j
<1>1. ASSUME NEW i, KnownPower(i)
      PROVE  i \in Nat /\ 2 ^ i \in Nat \ {0}
  <2>1. PICK n \in Nat : i \in 0 .. n + 1 /\ \A k \in 0 .. n : 2 ^ (k + 1) = 2 * 2 ^ k
    BY <1>1, FormatPowerAssumption DEF KnownPower
  <2> QED BY <2>1, PowersUpTo
<1>2. ASSUME NEW i \in Nat, NEW j \in Nat, KnownPower(i + j)
      PROVE  KnownPower(i) /\ KnownPower(j) /\ 2 ^ (i + j) = 2 ^ i * 2 ^ j
  <2>1. PICK n \in {2 ^ F.e + F.m : F \in {F16, BF16, FI16, Single}} \cup {2 * 2 ^ FI16.e, LONG_WIDTH} :
          n \in Nat /\ i + j \in 0 .. n + 1
    BY <1>2 DEF KnownPower
  <2>2. \A k \in 0 .. n : 2 ^ (k + 1) = 2 * 2 ^ k
    BY FormatPowerAssumption
  <2>3. i + j <= n + 1 /\ i \in 0 .. n + 1 /\ j \in 0 .. n + 1
    BY <2>1
  <2>4. KnownPower(i) /\ KnownPower(j)
    BY <2>1, <2>3 DEF KnownPower
  <2>5. 2 ^ (i + j) = 2 ^ i * 2 ^ j
    BY <2>1, <2>2, <2>3, PowersAddUpTo
  <2> QED BY <2>4, <2>5
<1> QED BY <1>1, <1>2

\* A larger exponent gives the larger power.
LEMMA PowersOrdered ==
  ASSUME NEW i \in Nat, NEW j \in Nat, i <= j, KnownPower(j)
  PROVE  KnownPower(i) /\ 2 ^ i <= 2 ^ j
<1>1. j - i \in Nat /\ i + (j - i) = j
  OBVIOUS
<1>2. KnownPower(i) /\ KnownPower(j - i) /\ 2 ^ j = 2 ^ i * 2 ^ (j - i)
  BY <1>1, PowersKnown
<1>3. PICK x \in Nat \ {0}, y \in Nat \ {0} : x = 2 ^ i /\ y = 2 ^ (j - i)
  BY <1>2, PowersKnown
<1>4. x <= x * y
  OBVIOUS
<1> QED BY <1>2, <1>3, <1>4

\* Every positive number of a long has a highest bit.
LEMMA HighestBit ==
  ASSUME NEW n \in Nat \ {0}, NEW k \in 0 .. LONG_WIDTH - 1, n < 2 ^ (k + 1)
  PROVE  Msb(n) \in 0 .. k /\ 2 ^ Msb(n) <= n /\ n < 2 ^ (Msb(n) + 1)
<1> DEFINE Highest(h) == 2 ^ h <= n /\ n < 2 ^ (h + 1)
           S == {j \in Nat : j < LONG_WIDTH /\ n < 2 ^ (j + 1) => \E h \in 0 .. j : Highest(h)}
<1>1. LONG_WIDTH \in Nat /\ \A i \in 0 .. LONG_WIDTH + 1 : KnownPower(i)
  BY FormatAssumption DEF KnownPower
<1>2. 2 ^ 0 = 1
  BY PowerAssumption
<1>3. 0 \in S
  <2>1. n < 2 ^ (0 + 1) => Highest(0)
    BY <1>2
  <2> HIDE DEF Highest
  <2>2. 0 \in 0 .. 0
    OBVIOUS
  <2> QED BY <2>1, <2>2
<1>4. ASSUME NEW j \in Nat, j \in S
      PROVE  j + 1 \in S
  <2> SUFFICES ASSUME j + 1 < LONG_WIDTH, n < 2 ^ (j + 1 + 1)
               PROVE  \E h \in 0 .. j + 1 : Highest(h)
    OBVIOUS
  <2>1. j + 1 \in 0 .. LONG_WIDTH + 1
    BY <1>1
  <2>2. 2 ^ (j + 1) \in Nat
    BY <1>1, <2>1, PowersKnown
  <2>3. CASE n < 2 ^ (j + 1)
    BY <1>1, <1>4, <2>3
  <2>4. CASE ~(n < 2 ^ (j + 1))
    BY <2>2, <2>4
  <2> QED BY <2>3, <2>4
<1> HIDE DEF S
<1>5. k \in S
  BY <1>1, <1>3, <1>4, Induction
<1>6. \E h \in 0 .. LONG_WIDTH : Highest(h)
  BY <1>1, <1>5 DEF S
<1>7. Msb(n) \in 0 .. LONG_WIDTH /\ Highest(Msb(n))
  <2>1. Msb(n) = CHOOSE h \in 0 .. LONG_WIDTH : Highest(h)
    BY DEF Msb
  <2> HIDE DEF Highest
  <2> QED BY <1>6, <2>1
<1>8. ASSUME Msb(n) > k
      PROVE  FALSE
  <2>1. k + 1 \in Nat /\ Msb(n) \in Nat /\ k + 1 <= Msb(n) /\ KnownPower(Msb(n))
    BY <1>1, <1>7, <1>8
  <2>2. 2 ^ (k + 1) <= 2 ^ Msb(n) /\ 2 ^ (k + 1) \in Nat /\ 2 ^ Msb(n) \in Nat
    BY <2>1, PowersOrdered, PowersKnown
  <2> QED BY <1>7, <2>2
<1> QED BY <1>1, <1>7, <1>8

\* A format of the floating point numbers, in numbers of it.
LEMMA FloatFacts ==
  ASSUME NEW F \in {F16, BF16}
  PROVE  /\ F.m \in Nat \ {0} /\ Bias(F) \in Nat \ {0} /\ Top(F) = 2 * Bias(F) + 1
         /\ 2 ^ F.m \in Nat \ {0} /\ 2 ^ F.e = 2 * (Bias(F) + 1)
         /\ SIGN = (Top(F) + 1) * 2 ^ F.m /\ Negative(F) = SIGN
         /\ F.m < INT_WIDTH /\ F.m + 2 <= LONG_WIDTH /\ INT_WIDTH \in Nat /\ LONG_WIDTH \in Nat
         /\ \A i \in 0 .. LONG_WIDTH + 1 : KnownPower(i)
         /\ \A i \in 0 .. Top(F) + F.m + 1 : KnownPower(i)
<1>1. F \in AnyFormat
  BY DEF AnyFormat
<1>2. /\ F.e \in Nat /\ F.m \in Nat /\ F.e > 1 /\ F.m > 0 /\ 1 + F.e + F.m = WIDTH
      /\ INT_WIDTH \in Nat /\ LONG_WIDTH \in Nat /\ INT_WIDTH > WIDTH /\ LONG_WIDTH > INT_WIDTH
  BY FormatAssumption
<1>3. /\ F.e - 2 \in 0 .. 2 * WIDTH - 1 /\ F.e - 1 \in 0 .. 2 * WIDTH - 1
      /\ (F.e - 2) + 1 = F.e - 1 /\ (F.e - 1) + 1 = F.e /\ F.e - 2 \in 0 .. 2 * WIDTH
  BY <1>2, WordFacts
<1>4. 2 ^ (F.e - 1) = 2 * 2 ^ (F.e - 2) /\ 2 ^ F.e = 2 * 2 ^ (F.e - 1) /\ 2 ^ (F.e - 2) \in Nat \ {0}
  <2>1. 2 ^ ((F.e - 2) + 1) = 2 * 2 ^ (F.e - 2) /\ 2 ^ ((F.e - 1) + 1) = 2 * 2 ^ (F.e - 1)
    BY <1>3, PowerAssumption
  <2>2. 2 ^ (F.e - 2) \in Nat \ {0}
    BY <1>3, Powers
  <2> QED BY <1>3, <2>1, <2>2
<1>5. Bias(F) \in Nat \ {0} /\ Top(F) = 2 * Bias(F) + 1 /\ 2 ^ F.e = 2 * (Bias(F) + 1)
  <2>1. PICK q \in Nat \ {0} : q = 2 ^ (F.e - 2) /\ 2 ^ (F.e - 1) = 2 * q /\ 2 ^ F.e = 2 * (2 * q)
    BY <1>4
  <2>2. Bias(F) = 2 * q - 1 /\ Top(F) = 2 * (2 * q) - 1
    BY <2>1 DEF Bias, Top
  <2> QED BY <2>1, <2>2
<1>6. 2 ^ F.m \in Nat \ {0} /\ SIGN = (Top(F) + 1) * 2 ^ F.m /\ Negative(F) = SIGN
  BY <1>1, FormatFacts
<1>7. \A i \in 0 .. LONG_WIDTH + 1 : KnownPower(i)
  BY <1>2 DEF KnownPower
<1>8. \A i \in 0 .. Top(F) + F.m + 1 : KnownPower(i)
  <2>1. 2 ^ F.e + F.m \in Nat /\ Top(F) + F.m + 1 = 2 ^ F.e + F.m
    BY <1>2, <1>5
  <2> QED BY <2>1 DEF KnownPower
<1> QED BY <1>2, <1>5, <1>6, <1>7, <1>8

\* Three fields make a word, and are found in it again.
LEMMA WordOfFields ==
  ASSUME NEW F \in {F16, BF16}, NEW s \in {0, 1}, NEW x \in 0 .. Top(F), NEW m \in 0 .. 2 ^ F.m - 1
  PROVE  /\ Word(F, s, x, m) \in AWord
         /\ sign(F, Word(F, s, x, m)) = s
         /\ exponent(F, Word(F, s, x, m)) = x
         /\ mantissa(F, Word(F, s, x, m)) = m
<1>1. PICK p \in Nat \ {0}, t \in Nat :
        /\ p = 2 ^ F.m /\ t = Top(F) /\ SIGN = (t + 1) * p /\ Negative(F) = SIGN
  BY FloatFacts
<1>2. x \in Nat /\ x <= t /\ m \in Nat /\ m < p
  BY <1>1
<1>3. PICK r \in Nat : r = x * p + m
  BY <1>2
<1>4. r < SIGN
  <2>1. x * p <= t * p /\ x * p \in Nat /\ t * p \in Nat /\ (t + 1) * p = t * p + p
    BY <1>2
  <2> QED BY <1>1, <1>2, <1>3, <2>1
<1>5. SIGN \in Nat \ {0} /\ WORDS = 2 * SIGN
  BY WordFacts
<1>6. PICK w : w = Word(F, s, x, m)
  OBVIOUS
<1>7. w = s * SIGN + r /\ w \in AWord
  <2>1. w = s * SIGN + x * p + m
    BY <1>1, <1>6 DEF Word
  <2>2. s * SIGN \in Nat /\ x * p \in Nat /\ s * SIGN <= SIGN
    BY <1>2, <1>5
  <2>3. w = s * SIGN + r
    BY <1>2, <1>3, <2>1, <2>2
  <2>4. s * SIGN + r < 2 * SIGN
    BY <1>4, <1>5, <2>2
  <2> QED BY <1>5, <2>2, <2>3, <2>4 DEF AWord
<1>8. w \div SIGN = s /\ w % SIGN = r
  <2>1. r \in 0 .. SIGN - 1 /\ s \in Int /\ w \in Int
    BY <1>4, <1>5, <1>7 DEF AWord
  <2> QED BY <1>5, <1>7, <2>1, Division
<1>9. r \div p = x /\ r % p = m
  <2>1. m \in 0 .. p - 1 /\ x \in Int /\ r \in Int
    BY <1>2
  <2> QED BY <1>3, <2>1, Division
<1>10. w % p = m
  <2>1. w = (s * (t + 1) + x) * p + m
    <3>1. s * ((t + 1) * p) = (s * (t + 1)) * p
      OBVIOUS
    <3>2. (s * (t + 1) + x) * p = (s * (t + 1)) * p + x * p
      BY <1>2
    <3>3. s * (t + 1) \in Nat
      OBVIOUS
    <3>4. (s * (t + 1)) * p \in Nat /\ x * p \in Nat
      BY <1>2, <3>3
    <3> QED BY <1>1, <1>2, <1>3, <1>7, <3>1, <3>2, <3>4
  <2>2. s * (t + 1) + x \in Int /\ w \in Int
    BY <1>2, <1>5, <1>7 DEF AWord
  <2>3. m \in 0 .. p - 1
    BY <1>2
  <2> QED BY <2>1, <2>2, <2>3, Division
<1> QED BY <1>1, <1>6, <1>7, <1>8, <1>9, <1>10 DEF sign, exponent, mantissa

\* A finite word, in units of the smallest number: its mantissa times the unit.
LEMMA Unpacked ==
  ASSUME NEW F \in {F16, BF16}, NEW w \in AWord, exponent(F, w) # Top(F)
  PROVE  /\ Exp(F, w) \in 1 - Bias(F) .. Bias(F)
         /\ Exp(F, w) = (IF exponent(F, w) = 0 THEN 1 ELSE exponent(F, w)) - Bias(F)
         /\ Mant(F, w) = (IF exponent(F, w) = 0 THEN 0 ELSE 2 ^ F.m) + mantissa(F, w)
         /\ Mant(F, w) \in 0 .. 2 * 2 ^ F.m - 1
         /\ Class(F, w) = "ZERO" <=> Mant(F, w) = 0
         /\ Class(F, w) \in {"ZERO", "SUBNORMAL", "NORMAL"}
         /\ Exp(F, w) - 1 + Bias(F) \in 0 .. Top(F) - 2
         /\ Unit(F, w) \in Nat \ {0}
         /\ Multiple(F, w) = IF sign(F, w) = 1 THEN -(Mant(F, w) * Unit(F, w)) ELSE Mant(F, w) * Unit(F, w)
<1>1. PICK p \in Nat \ {0}, b \in Nat \ {0} : p = 2 ^ F.m /\ b = Bias(F) /\ Top(F) = 2 * b + 1
  BY FloatFacts
<1>2. PICK x \in 0 .. 2 * b, m \in 0 .. p - 1 : x = exponent(F, w) /\ m = mantissa(F, w)
  <2>1. F \in AnyFormat
    BY DEF AnyFormat
  <2> QED BY <1>1, <2>1, Fields
<1>3. /\ Class(F, w) = IF x = 0 THEN IF m = 0 THEN "ZERO" ELSE "SUBNORMAL" ELSE "NORMAL"
      /\ Exp(F, w) = (IF x = 0 THEN 1 ELSE x) - b
      /\ Mant(F, w) = (IF x = 0 THEN 0 ELSE p) + m
  BY <1>1, <1>2 DEF Class, Exp, Mant
<1>4. Exp(F, w) - 1 + b \in 0 .. 2 * b - 1 /\ Exp(F, w) \in 1 - b .. b
  BY <1>2, <1>3
<1>5. Unit(F, w) \in Nat \ {0}
  <2>1. F.m \in Nat /\ Exp(F, w) - 1 + b \in 0 .. Top(F) + F.m + 1
    BY <1>1, <1>4, FloatFacts
  <2>2. KnownPower(Exp(F, w) - 1 + b)
    BY <2>1, FloatFacts
  <2> QED BY <1>1, <2>2, PowersKnown DEF Unit
<1>6. Multiple(F, w) = IF sign(F, w) = 1 THEN -(Mant(F, w) * Unit(F, w)) ELSE Mant(F, w) * Unit(F, w)
  BY DEF Multiple, Unit
<1> QED BY <1>1, <1>2, <1>3, <1>4, <1>5, <1>6

\* Aligning a mantissa moves its highest bit to where a normal number has it.
LEMMA Aligning ==
  ASSUME NEW F \in {F16, BF16, FI16, Single}, NEW n \in Nat \ {0}, n < 2 ^ LONG_WIDTH
  PROVE  LET c == Carry(F, n) IN
         /\ c \in Int /\ -F.m <= c /\ c < LONG_WIDTH
         /\ Aligned(n, c) \in 2 ^ F.m .. 2 * 2 ^ F.m - 1
         /\ c >= 0 => /\ 2 ^ c \in Nat \ {0}
                      /\ n \in Aligned(n, c) * 2 ^ c .. Aligned(n, c) * 2 ^ c + 2 ^ c - 1
         /\ c < 0 => 2 ^ (-c) \in Nat \ {0} /\ Aligned(n, c) = n * 2 ^ (-c)
<1>1. /\ F.m \in Nat /\ LONG_WIDTH \in Nat \ {0} /\ F.m <= LONG_WIDTH
      /\ \A i \in 0 .. LONG_WIDTH + 1 : KnownPower(i)
  <2>1. CASE F \in {FI16, Single}
    BY <2>1, FloatFacts, FormatAssumption, WidthAssumption DEF Single
  <2>2. CASE F \notin {FI16, Single}
    BY <2>2, FloatFacts
  <2> QED BY <2>1, <2>2
<1>2. PICK p \in Nat \ {0} : p = 2 ^ F.m
  <2>1. KnownPower(F.m)
    BY <1>1
  <2> QED BY <2>1, PowersKnown
<1>3. PICK h \in 0 .. LONG_WIDTH - 1 : h = Msb(n) /\ 2 ^ h <= n /\ n < 2 ^ (h + 1)
  <2>1. LONG_WIDTH - 1 \in 0 .. LONG_WIDTH - 1 /\ (LONG_WIDTH - 1) + 1 = LONG_WIDTH
    BY <1>1
  <2> QED BY <2>1, HighestBit
<1>4. PICK c \in Int : c = h - F.m /\ c = Carry(F, n) /\ -F.m <= c /\ c < LONG_WIDTH
  BY <1>1, <1>3 DEF Carry
<1>5. 2 ^ h \in Nat \ {0} /\ 2 ^ (h + 1) = 2 * 2 ^ h
  <2>1. KnownPower(h) /\ KnownPower(h + 1) /\ h \in Nat /\ 1 \in Nat
    BY <1>1, <1>3
  <2>2. 2 ^ (h + 1) = 2 ^ h * 2 ^ 1 /\ 2 ^ h \in Nat \ {0}
    BY <2>1, PowersKnown
  <2>3. 2 ^ 1 = 2
    BY PowerAssumption, WordFacts
  <2> QED BY <2>2, <2>3
<1>6. CASE c >= 0
  <2>1. c \in Nat /\ F.m \in Nat /\ F.m + c = h /\ KnownPower(F.m + c)
    BY <1>1, <1>3, <1>4, <1>6
  <2>2. PICK q \in Nat \ {0} : q = 2 ^ c /\ 2 ^ h = p * q
    BY <1>2, <2>1, PowersKnown
  <2>3. PICK a \in Nat, r \in 0 .. q - 1 : a = n \div q /\ n = a * q + r
    <3>1. n = (n \div q) * q + (n % q) /\ n \div q \in Nat /\ n % q \in 0 .. q - 1
      OBVIOUS
    <3> QED BY <3>1
  <2>4. a >= p
    <3> SUFFICES ASSUME a + 1 <= p
                 PROVE  FALSE
      BY <1>2
    <3>1. (a + 1) * q <= p * q /\ (a + 1) * q = a * q + q
      OBVIOUS
    <3>2. a * q \in Nat /\ p * q \in Nat
      OBVIOUS
    <3> QED BY <1>3, <2>2, <2>3, <3>1, <3>2
  <2>5. a < 2 * p
    <3> SUFFICES ASSUME a >= 2 * p
                 PROVE  FALSE
      BY <1>2
    <3>1. a * q >= 2 * (p * q)
      OBVIOUS
    <3>2. a * q \in Nat /\ p * q \in Nat
      OBVIOUS
    <3> QED BY <1>3, <1>5, <2>2, <2>3, <3>1, <3>2
  <2>6. Aligned(n, c) = a
    BY <1>6, <2>2, <2>3 DEF Aligned
  <2>7. n \in a * q .. a * q + q - 1
    <3>1. a * q \in Nat
      OBVIOUS
    <3> QED BY <2>3, <3>1
  <2> QED BY <1>2, <1>4, <1>6, <2>2, <2>4, <2>5, <2>6, <2>7
<1>7. CASE c < 0
  <2>1. -c \in Nat /\ h \in Nat /\ h + (-c) = F.m /\ KnownPower(h + (-c))
    BY <1>1, <1>3, <1>4, <1>7
  <2>2. PICK q \in Nat \ {0}, b \in Nat \ {0} : q = 2 ^ (-c) /\ b = 2 ^ h /\ p = b * q
    BY <1>2, <1>5, <2>1, PowersKnown
  <2>3. Aligned(n, c) = n * q
    BY <1>7, <2>2 DEF Aligned
  <2>4. n * q >= p /\ n * q < 2 * p /\ n * q \in Nat
    <3>1. b <= n /\ n < 2 * b
      BY <1>3, <1>5, <2>2
    <3>2. b * q <= n * q /\ n * q < (2 * b) * q
      BY <3>1
    <3>3. (2 * b) * q = 2 * (b * q) /\ n * q \in Nat /\ b * q \in Nat
      OBVIOUS
    <3> QED BY <2>2, <3>2, <3>3
  <2> QED BY <1>2, <1>4, <1>7, <2>2, <2>3, <2>4
<1> QED BY <1>4, <1>6, <1>7

\* What is packed below the normal numbers is a mantissa.
LEMMA BelowFits ==
  ASSUME NEW F \in {F16, BF16}, NEW m \in Nat, NEW shift \in Nat \ {0}
  PROVE  Below(F, m, shift) \in 0 .. 2 ^ F.m - 1
<1>1. PICK p \in Nat \ {0} : p = 2 ^ F.m
  BY FloatFacts
<1>2. CASE shift >= INT_WIDTH
  BY <1>1, <1>2 DEF Below
<1>3. CASE ~(shift >= INT_WIDTH)
  <2>1. INT_WIDTH \in Nat /\ LONG_WIDTH \in Nat /\ LONG_WIDTH > INT_WIDTH
    BY FormatAssumption
  <2>2. KnownPower(shift) /\ KnownPower(shift - 1)
    BY <1>3, <2>1, FloatFacts
  <2>3. PICK q \in Nat \ {0}, r \in Nat : q = 2 ^ shift /\ r = IF F = F16 THEN 2 ^ (shift - 1) ELSE 0
    BY <2>2, PowersKnown
  <2>4. ((m + r) \div q) % p \in 0 .. p - 1
    OBVIOUS
  <2> QED BY <1>1, <1>3, <2>3, <2>4 DEF Below
<1> QED BY <1>2, <1>3

\* What Pack makes of a mantissa that fits into a long, field by field.
LEMMA Packing ==
  ASSUME NEW F \in {F16, BF16}, NEW s \in {0, 1}, NEW X \in Int,
         NEW n \in Nat \ {0}, n < 2 ^ LONG_WIDTH
  PROVE  LET w == Pack(F, s, X, n)
             x == X + Carry(F, n)
             a == Aligned(n, Carry(F, n))
         IN /\ w \in AWord /\ sign(F, w) = s
            /\ x > Bias(F) => w = Infinity(F, s) /\ exponent(F, w) = Top(F)
            /\ x \in 1 - Bias(F) .. Bias(F) =>
                 exponent(F, w) = x + Bias(F) /\ mantissa(F, w) = a - 2 ^ F.m
            /\ x < 1 - Bias(F) =>
                 exponent(F, w) = 0 /\ mantissa(F, w) = Below(F, a, 1 - Bias(F) - x)
<1>1. PICK p \in Nat \ {0}, b \in Nat \ {0} : p = 2 ^ F.m /\ b = Bias(F) /\ Top(F) = 2 * b + 1
  BY FloatFacts
<1>2. PICK c \in Int, a \in p .. 2 * p - 1 : c = Carry(F, n) /\ a = Aligned(n, c)
  BY <1>1, Aligning
<1>3. PICK w : w = Pack(F, s, X, n)
  OBVIOUS
<1>4. w = CASE X + c > b     -> Infinity(F, s)
            [] X + c < 1 - b -> Word(F, s, 0, Below(F, a, 1 - b - (X + c)))
            [] OTHER         -> Word(F, s, X + c + b, a % p)
  BY <1>1, <1>2, <1>3 DEF Pack
<1>5. a % p = a - p
  <2>1. a = 1 * p + (a - p) /\ a - p \in 0 .. p - 1 /\ a \in Int /\ 1 \in Int
    BY <1>2
  <2> QED BY <2>1, Division
<1>6. CASE X + c > b
  <2>1. w = Word(F, s, Top(F), 0)
    BY <1>4, <1>6 DEF Infinity
  <2>2. Top(F) \in 0 .. Top(F) /\ 0 \in 0 .. 2 ^ F.m - 1
    BY <1>1
  <2>3. w \in AWord /\ sign(F, w) = s /\ exponent(F, w) = Top(F)
    BY <2>1, <2>2, WordOfFields
  <2>4. w = Infinity(F, s)
    BY <2>1 DEF Infinity
  <2> QED BY <1>1, <1>2, <1>3, <1>6, <2>3, <2>4
<1>7. CASE X + c < 1 - b
  <2>1. 1 - b - (X + c) \in Nat \ {0} /\ a \in Nat
    BY <1>2, <1>7
  <2>2. PICK z : z = Below(F, a, 1 - b - (X + c))
    OBVIOUS
  <2>3. z \in 0 .. 2 ^ F.m - 1 /\ 0 \in 0 .. Top(F)
    <3>1. Below(F, a, 1 - b - (X + c)) \in 0 .. 2 ^ F.m - 1
      BY <2>1, BelowFits
    <3> QED BY <1>1, <2>2, <3>1
  <2>4. w = Word(F, s, 0, z)
    BY <1>4, <1>7, <2>2
  <2>5. w \in AWord /\ sign(F, w) = s /\ exponent(F, w) = 0 /\ mantissa(F, w) = z
    BY <2>3, <2>4, WordOfFields
  <2> QED BY <1>1, <1>2, <1>3, <1>7, <2>2, <2>5
<1>8. CASE X + c \in 1 - b .. b
  <2>1. X + c + b \in 0 .. Top(F) /\ a - p \in 0 .. 2 ^ F.m - 1
    BY <1>1, <1>2, <1>8
  <2>2. w = Word(F, s, X + c + b, a - p)
    BY <1>4, <1>5, <1>8
  <2>3. w \in AWord /\ sign(F, w) = s /\ exponent(F, w) = X + c + b /\ mantissa(F, w) = a - p
    BY <2>1, <2>2, WordOfFields
  <2> QED BY <1>1, <1>2, <1>3, <1>8, <2>3
<1>9. X + c > b \/ X + c < 1 - b \/ X + c \in 1 - b .. b
  OBVIOUS
<1> QED BY <1>6, <1>7, <1>8, <1>9

\* What Pack makes of a sum of two mantissas, in units of the smallest number:
\* exactly that, but for a last bit that a carry cuts off.
LEMMA PackedSum ==
  ASSUME NEW F \in {F16, BF16}, NEW s \in {0, 1}, NEW X \in 1 - Bias(F) .. Bias(F),
         NEW t \in 0 .. 4 * 2 ^ F.m - 1
  PROVE  LET w == Pack(F, s, X, t)
             u == 2 ^ (X - 1 + Bias(F))
         IN /\ w \in AWord /\ sign(F, w) = s /\ u \in Nat \ {0}
            /\ t < 2 * 2 ^ F.m => exponent(F, w) # Top(F) /\ Mant(F, w) * Unit(F, w) = t * u
            /\ t >= 2 * 2 ^ F.m /\ X < Bias(F) =>
                 /\ exponent(F, w) # Top(F) /\ Unit(F, w) = 2 * u
                 /\ 2 * Mant(F, w) \in {t, t - 1}
            /\ t >= 2 * 2 ^ F.m /\ X = Bias(F) => w = Infinity(F, s) /\ exponent(F, w) = Top(F)
<1>1. PICK p \in Nat \ {0}, b \in Nat \ {0}, m \in Nat :
        p = 2 ^ F.m /\ b = Bias(F) /\ Top(F) = 2 * b + 1 /\ m = F.m
  BY FloatFacts
<1>2. PICK w : w = Pack(F, s, X, t)
  OBVIOUS
<1>3. PICK K \in 0 .. 2 * b - 1 : K = X - 1 + b
  BY <1>1
<1>4. \A i \in 0 .. Top(F) + F.m + 1 : KnownPower(i)
  BY FloatFacts
<1>5. KnownPower(K) /\ KnownPower(K + 1) /\ K \in Nat
  BY <1>1, <1>3, <1>4
<1>6. PICK u \in Nat \ {0} : u = 2 ^ K /\ 2 ^ (K + 1) = 2 * u
  <2>1. 2 ^ K \in Nat \ {0} /\ 2 ^ (K + 1) = 2 ^ K * 2 ^ 1
    BY <1>5, PowersKnown
  <2>2. 2 ^ 1 = 2
    BY PowerAssumption, WordFacts
  <2> QED BY <2>1, <2>2
<1>7. CASE t = 0
  <2>1. w = Word(F, s, 0, 0)
    BY <1>2, <1>7 DEF Pack, Zero
  <2>2. 0 \in 0 .. Top(F) /\ 0 \in 0 .. 2 ^ F.m - 1
    BY <1>1
  <2>3. w \in AWord /\ sign(F, w) = s /\ exponent(F, w) = 0 /\ mantissa(F, w) = 0
    BY <2>1, <2>2, WordOfFields
  <2>4. exponent(F, w) # Top(F)
    BY <1>1, <2>3
  <2>5. Mant(F, w) = 0 /\ Unit(F, w) \in Nat
    BY <2>3, <2>4, Unpacked
  <2>6. Mant(F, w) * Unit(F, w) = 0 /\ t * u = 0
    BY <1>7, <2>5
  <2> QED BY <1>1, <1>2, <1>3, <1>6, <1>7, <2>3, <2>4, <2>6
<1> SUFFICES ASSUME t # 0
             PROVE  LET v == 2 ^ (X - 1 + Bias(F))
                    IN /\ w \in AWord /\ sign(F, w) = s /\ v \in Nat \ {0}
                       /\ t < 2 * p => exponent(F, w) # Top(F) /\ Mant(F, w) * Unit(F, w) = t * v
                       /\ t >= 2 * p /\ X < b =>
                            /\ exponent(F, w) # Top(F) /\ Unit(F, w) = 2 * v
                            /\ 2 * Mant(F, w) \in {t, t - 1}
                       /\ t >= 2 * p /\ X = b => w = Infinity(F, s) /\ exponent(F, w) = Top(F)
  BY <1>1, <1>2, <1>7
<1>8. t \in Nat \ {0} /\ t < 4 * p
  BY <1>1
<1>9. t < 2 ^ LONG_WIDTH
  <2>1. F.m \in Nat /\ 2 \in Nat /\ F.m + 2 <= LONG_WIDTH /\ LONG_WIDTH \in Nat
        /\ \A i \in 0 .. LONG_WIDTH + 1 : KnownPower(i)
    BY FloatFacts
  <2>2. F.m + 2 \in Nat /\ KnownPower(LONG_WIDTH) /\ KnownPower(F.m + 2)
    BY <2>1
  <2>3. 2 ^ (F.m + 2) <= 2 ^ LONG_WIDTH
    BY <2>1, <2>2, PowersOrdered
  <2>4. 2 ^ (F.m + 2) = 2 ^ F.m * 2 ^ 2
    BY <2>1, <2>2, PowersKnown
  <2>5. 2 ^ (1 + 1) = 2 * 2 ^ 1 /\ 2 ^ (0 + 1) = 2 * 2 ^ 0 /\ 2 ^ 0 = 1
    BY PowerAssumption, WordFacts
  <2>6. 2 ^ 2 = 4
    BY <2>5
  <2>7. 2 ^ LONG_WIDTH \in Nat
    BY <2>2, PowersKnown
  <2> QED BY <1>1, <1>8, <2>3, <2>4, <2>6, <2>7
<1>10. PICK c \in Int, a \in p .. 2 * p - 1 :
         /\ c = Carry(F, t) /\ a = Aligned(t, c) /\ -m <= c /\ c < LONG_WIDTH
         /\ c >= 0 => 2 ^ c \in Nat \ {0} /\ t \in a * 2 ^ c .. a * 2 ^ c + 2 ^ c - 1
         /\ c < 0 => 2 ^ (-c) \in Nat \ {0} /\ a = t * 2 ^ (-c)
  BY <1>1, <1>8, <1>9, Aligning
<1>11. /\ w \in AWord /\ sign(F, w) = s
       /\ X + c > b => w = Infinity(F, s) /\ exponent(F, w) = Top(F)
       /\ X + c \in 1 - b .. b =>
            exponent(F, w) = X + c + b /\ mantissa(F, w) = a - p
       /\ X + c < 1 - b =>
            exponent(F, w) = 0 /\ mantissa(F, w) = Below(F, a, 1 - b - (X + c))
  BY SMTT(40), <1>1, <1>2, <1>8, <1>9, <1>10, Packing
<1>12. X \in 1 - b .. b /\ K + 1 = X + b
  BY <1>1, <1>3
<1>13. ASSUME X + c \in 1 - b .. b
       PROVE  exponent(F, w) # Top(F) /\ Mant(F, w) = a /\ Unit(F, w) = 2 ^ (K + c)
  <2>1. exponent(F, w) = X + c + b /\ mantissa(F, w) = a - p /\ X + c + b # 0 /\ X + c + b # Top(F)
    BY <1>1, <1>11, <1>13
  <2>2. Mant(F, w) = a /\ Exp(F, w) = X + c
    <3>1. /\ Exp(F, w) = (IF exponent(F, w) = 0 THEN 1 ELSE exponent(F, w)) - Bias(F)
          /\ Mant(F, w) = (IF exponent(F, w) = 0 THEN 0 ELSE 2 ^ F.m) + mantissa(F, w)
      BY <1>11, <2>1, Unpacked
    <3> QED BY <1>1, <1>10, <1>12, <2>1, <3>1
  <2>3. (X + c) - 1 + b = K + c
    BY <1>3
  <2> QED BY <1>1, <2>1, <2>2, <2>3 DEF Unit
<1>14. c > 1 => FALSE
  <2> SUFFICES ASSUME c > 1
               PROVE  FALSE
    OBVIOUS
  <2>1. c \in Nat /\ 2 \in Nat /\ 2 <= c /\ KnownPower(c)
    <3>1. LONG_WIDTH \in Nat /\ \A i \in 0 .. LONG_WIDTH + 1 : KnownPower(i)
      BY FloatFacts
    <3> QED BY <1>10, <3>1
  <2>2. 2 ^ 2 <= 2 ^ c
    BY <2>1, PowersOrdered
  <2>3. 2 ^ (1 + 1) = 2 * 2 ^ 1 /\ 2 ^ (0 + 1) = 2 * 2 ^ 0 /\ 2 ^ 0 = 1
    BY PowerAssumption, WordFacts
  <2>4. 2 ^ 2 = 4
    BY <2>3
  <2>5. PICK q \in Nat \ {0} : q = 2 ^ c /\ q >= 4 /\ t >= a * q
    <3>1. 2 ^ c \in Nat \ {0} /\ t >= a * 2 ^ c
      <4>1. 2 ^ c \in Nat \ {0} /\ t \in a * 2 ^ c .. a * 2 ^ c + 2 ^ c - 1
        BY <1>10, <2>1
      <4> QED BY <4>1
    <3> QED BY <2>2, <2>4, <3>1
  <2>6. a * q >= a * 4 /\ a >= p
    BY <1>10, <2>5
  <2> QED BY <1>8, <1>10, <2>5, <2>6
<1>15. 2 ^ 0 = 1 /\ 2 ^ 1 = 2
  BY PowerAssumption, WordFacts
<1>16. CASE c = 1
  <2>1. t \in 2 * a .. 2 * a + 1
    BY <1>10, <1>15, <1>16
  <2>2. t >= 2 * p
    BY <1>10, <2>1
  <2>3. CASE X < b
    <3>1. exponent(F, w) # Top(F) /\ Mant(F, w) = a /\ Unit(F, w) = 2 ^ (K + 1)
      BY <1>12, <1>13, <1>16, <2>3
    <3> QED BY <1>1, <1>3, <1>6, <1>11, <1>12, <2>1, <2>2, <2>3, <3>1
  <2>4. CASE X = b
    BY <1>1, <1>3, <1>6, <1>11, <1>12, <1>16, <2>2, <2>4
  <2> QED BY <1>12, <2>3, <2>4
<1>17. CASE c <= 0
  <2>1. PICK d \in Nat, q \in Nat \ {0} : d = 0 - c /\ q = 2 ^ d /\ a = t * q /\ d <= m
    <3>1. CASE c = 0
      <4>1. t \in a * 1 .. a * 1 + 1 - 1
        BY <1>10, <1>15, <3>1
      <4>2. t = a
        BY <1>10, <4>1
      <4>3. t * 1 = t /\ 1 \in Nat \ {0} /\ 0 \in Nat /\ 0 <= m
        BY <1>8
      <4>4. 0 - c = 0
        BY <3>1
      <4> QED BY <1>15, <4>2, <4>3, <4>4
    <3>2. CASE c < 0
      <4>1. -c \in Nat /\ -c <= m /\ -c = 0 - c
        BY <1>1, <1>10, <3>2
      <4> QED BY <1>10, <3>2, <4>1
    <3>3. c = 0 \/ c < 0
      BY <1>17
    <3> QED BY <3>1, <3>2, <3>3
  <2>2. t < 2 * p
    <3>1. t <= t * q
      BY <1>8
    <3> QED BY <1>10, <2>1, <3>1
  <2>3. CASE d <= K
    <3>1. X + c \in 1 - b .. b /\ K + c = K - d
      BY <1>3, <1>12, <2>1, <2>3
    <3>2. exponent(F, w) # Top(F) /\ Mant(F, w) = a /\ Unit(F, w) = 2 ^ (K - d)
      BY <1>13, <3>1
    <3>3. K - d \in Nat /\ (K - d) + d = K /\ KnownPower((K - d) + d)
      BY <1>5, <2>1, <2>3
    <3>4. PICK v \in Nat \ {0} : v = 2 ^ (K - d) /\ u = v * q
      <4>1. 2 ^ ((K - d) + d) = 2 ^ (K - d) * 2 ^ d /\ KnownPower(K - d)
        BY <2>1, <3>3, PowersKnown
      <4>2. 2 ^ (K - d) \in Nat \ {0}
        BY <4>1, PowersKnown
      <4> QED BY <1>6, <2>1, <3>3, <4>1, <4>2
    <3>5. (t * q) * v = t * (v * q)
      BY <1>8
    <3>6. Mant(F, w) * Unit(F, w) = t * u
      BY <2>1, <3>2, <3>4, <3>5
    <3> QED BY <1>1, <1>3, <1>6, <1>11, <2>2, <3>2, <3>6
  <2>4. CASE d > K
    <3>1. X + c < 1 - b /\ 1 - b - (X + c) = d - K
      BY <1>3, <1>12, <2>1, <2>4
    <3>2. PICK e \in Nat \ {0} : e = d - K /\ K + e = d /\ e < INT_WIDTH
      <4>1. m < INT_WIDTH /\ INT_WIDTH \in Nat
        BY <1>1, FloatFacts
      <4> QED BY <1>3, <2>1, <2>4, <4>1
    <3>3. KnownPower(K + e) /\ KnownPower((e - 1) + 1) /\ e - 1 \in Nat /\ (e - 1) + 1 = e
      <4>1. K + e \in 0 .. Top(F) + F.m + 1 /\ e \in 0 .. Top(F) + F.m + 1
        BY <1>1, <1>3, <2>1, <3>2
      <4> QED BY <1>4, <3>2, <4>1
    <3>4. PICK v \in Nat \ {0}, h \in Nat \ {0} : v = 2 ^ e /\ q = u * v /\ h = 2 ^ (e - 1) /\ v = h * 2
      <4>1. 2 ^ (K + e) = 2 ^ K * 2 ^ e /\ KnownPower(e)
        BY <1>5, <3>2, <3>3, PowersKnown
      <4>2. 2 ^ ((e - 1) + 1) = 2 ^ (e - 1) * 2 ^ 1 /\ KnownPower(e - 1)
        <5>1. 1 \in Nat
          OBVIOUS
        <5> QED BY <3>3, <5>1, PowersKnown
      <4>3. 2 ^ e \in Nat \ {0} /\ 2 ^ (e - 1) \in Nat \ {0}
        BY <4>1, <4>2, PowersKnown
      <4> QED BY <1>6, <1>15, <2>1, <3>2, <3>3, <4>1, <4>2, <4>3
    <3>5. PICK g \in Nat : g = t * u /\ a = g * v
      <4>1. t * (u * v) = (t * u) * v
        BY <1>8
      <4>2. t * u \in Nat
        BY <1>8
      <4> QED BY <2>1, <3>4, <4>1, <4>2
    <3>6. g < p
      <4>1. g * (h * 2) = 2 * (g * h) /\ g * h >= g /\ g * h \in Nat
        OBVIOUS
      <4> QED BY <1>10, <3>4, <3>5, <4>1
    <3>7. Below(F, a, e) = g
      <4> DEFINE round == IF F = F16 THEN 2 ^ (e - 1) ELSE 0
      <4>1. round \in 0 .. v - 1
        BY <3>4
      <4>2. (a + round) \div v = g
        <5>1. a + round = g * v + round /\ g \in Int /\ a + round \in Int
          BY <1>10, <3>5, <4>1
        <5> HIDE DEF round
        <5> QED BY <4>1, <5>1, Division
      <4>3. g % p = g
        BY <3>6
      <4>4. ~(e >= INT_WIDTH)
        <5>1. INT_WIDTH \in Nat
          BY FloatFacts
        <5> QED BY <3>2, <5>1
      <4> QED BY <1>1, <3>4, <4>2, <4>3, <4>4 DEF Below
    <3>8. exponent(F, w) = 0 /\ mantissa(F, w) = g
      BY <1>11, <3>1, <3>2, <3>7
    <3>9. exponent(F, w) # Top(F)
      BY <1>1, <3>8
    <3>10. Mant(F, w) = g /\ Unit(F, w) = 1
      <4>1. /\ Exp(F, w) = (IF exponent(F, w) = 0 THEN 1 ELSE exponent(F, w)) - Bias(F)
            /\ Mant(F, w) = (IF exponent(F, w) = 0 THEN 0 ELSE 2 ^ F.m) + mantissa(F, w)
        BY <1>11, <3>9, Unpacked
      <4>2. Exp(F, w) - 1 + Bias(F) = 0
        BY <1>1, <3>8, <4>1
      <4>3. Mant(F, w) = 0 + g
        BY <3>8, <4>1
      <4>4. Unit(F, w) = 2 ^ (Exp(F, w) - 1 + Bias(F))
        BY DEF Unit
      <4>5. Mant(F, w) = g
        BY <4>3
      <4> QED BY <1>15, <4>2, <4>4, <4>5
    <3>11. Mant(F, w) * Unit(F, w) = t * u
      BY <3>5, <3>10
    <3> QED BY <1>1, <1>3, <1>6, <1>11, <2>2, <3>9, <3>11
  <2> QED BY <1>3, <2>1, <2>3, <2>4
<1> QED BY <1>10, <1>14, <1>16, <1>17

\* The largest number of a format.
LEMMA LargestIs ==
  ASSUME NEW F \in {F16, BF16}
  PROVE  Largest(F) = (2 * 2 ^ F.m - 1) * 2 ^ (Top(F) - 2)
<1>1. PICK p \in Nat \ {0}, t \in Nat : p = 2 ^ F.m /\ t = Top(F) /\ t >= 3
  BY FloatFacts
<1>2. Infinity(F, 0) - 1 = Word(F, 0, t - 1, p - 1)
  <2>1. Infinity(F, 0) = 0 * Negative(F) + t * p + 0 /\ Negative(F) \in Nat
    BY <1>1, FloatFacts, WordFacts DEF Infinity, Word
  <2>2. Word(F, 0, t - 1, p - 1) = 0 * Negative(F) + (t - 1) * p + (p - 1)
    BY <1>1 DEF Word
  <2>3. (t - 1) * p = t * p - p /\ t * p \in Nat
    OBVIOUS
  <2> QED BY <2>1, <2>2, <2>3
<1>3. PICK w : w = Word(F, 0, t - 1, p - 1)
  OBVIOUS
<1>4. t - 1 \in 0 .. Top(F) /\ p - 1 \in 0 .. 2 ^ F.m - 1 /\ 0 \in {0, 1}
  BY <1>1
<1>5. w \in AWord /\ sign(F, w) = 0 /\ exponent(F, w) = t - 1 /\ mantissa(F, w) = p - 1
  BY <1>3, <1>4, WordOfFields
<1>6. exponent(F, w) # Top(F) /\ exponent(F, w) # 0
  BY <1>1, <1>5
<1>7. /\ Exp(F, w) = (IF exponent(F, w) = 0 THEN 1 ELSE exponent(F, w)) - Bias(F)
      /\ Mant(F, w) = (IF exponent(F, w) = 0 THEN 0 ELSE 2 ^ F.m) + mantissa(F, w)
      /\ Multiple(F, w) = IF sign(F, w) = 1 THEN -(Mant(F, w) * Unit(F, w)) ELSE Mant(F, w) * Unit(F, w)
  BY <1>5, <1>6, Unpacked
<1>8. Mant(F, w) = 2 * p - 1
  BY <1>1, <1>5, <1>6, <1>7
<1>9. Unit(F, w) = 2 ^ (t - 2)
  <2>1. Exp(F, w) - 1 + Bias(F) = t - 2
    BY <1>1, <1>5, <1>6, <1>7, FloatFacts
  <2> QED BY <2>1 DEF Unit
<1>10. Multiple(F, w) = (2 * p - 1) * 2 ^ (t - 2)
  BY <1>5, <1>7, <1>8, <1>9
<1> QED BY <1>1, <1>2, <1>3, <1>10 DEF Largest

\* An operand shifted to a larger exponent loses less than a unit of that.
AlignedTo(F, a, X, u) ==
  \E m \in 0 .. 2 * 2 ^ F.m - 1 : \E e \in 0 .. u - 1 :
    /\ ShiftedRight(Mant(F, a), X - Exp(F, a)) = {m}
    /\ Mant(F, a) * Unit(F, a) = m * u + e
    /\ X = Exp(F, a) => e = 0 /\ u = Unit(F, a)

\* An operand within the width of an int of the larger exponent is shifted to it.
LEMMA AlignedOperand ==
  ASSUME NEW F \in {F16, BF16}, NEW a \in AWord, exponent(F, a) # Top(F),
         NEW X \in 1 - Bias(F) .. Bias(F), X >= Exp(F, a), X - Exp(F, a) < INT_WIDTH
  PROVE  AlignedTo(F, a, X, 2 ^ (X - 1 + Bias(F)))
<1>0. PICK u : u = 2 ^ (X - 1 + Bias(F))
  OBVIOUS
<1>1. PICK b \in Nat \ {0}, p \in Nat \ {0} : b = Bias(F) /\ p = 2 ^ F.m /\ Top(F) = 2 * b + 1
  BY FloatFacts
<1>2. /\ Exp(F, a) \in 1 - b .. b /\ Mant(F, a) \in 0 .. 2 * p - 1
      /\ Unit(F, a) \in Nat \ {0}
  BY <1>1, Unpacked
<1>3. PICK k \in Nat, d \in Nat : k = Exp(F, a) - 1 + b /\ d = X - Exp(F, a) /\ k + d = X - 1 + b
  BY <1>1, <1>2
<1>4. KnownPower(k + d)
  <2>1. F.m \in Nat /\ k + d \in 0 .. Top(F) + F.m + 1
    BY <1>1, <1>3, FloatFacts
  <2> QED BY <2>1, FloatFacts
<1>5. 2 ^ (k + d) = 2 ^ k * 2 ^ d /\ KnownPower(k) /\ KnownPower(d)
  BY <1>3, <1>4, PowersKnown
<1>6. PICK v \in Nat \ {0}, q \in Nat \ {0} : v = 2 ^ k /\ q = 2 ^ d
  BY <1>5, PowersKnown
<1>7. u = v * q /\ v = Unit(F, a) /\ u \in Nat
  <2>1. u = v * q /\ v * q \in Nat
    BY <1>0, <1>1, <1>3, <1>5, <1>6
  <2> QED BY <1>1, <1>3, <1>6, <2>1 DEF Unit
<1>8. PICK n \in Nat : n = Mant(F, a) /\ n < 2 * p
  BY <1>2
<1>9. PICK m \in Nat, r \in 0 .. q - 1 : m = n \div q /\ n = m * q + r
  <2>1. n = (n \div q) * q + (n % q) /\ n \div q \in Nat /\ n % q \in 0 .. q - 1
    OBVIOUS
  <2> QED BY <2>1
<1>10. ShiftedRight(n, d) = {m}
  BY <1>3, <1>6, <1>9 DEF ShiftedRight
<1>11. m < 2 * p
  <2>1. m <= m * q /\ m * q \in Nat
    OBVIOUS
  <2> QED BY <1>8, <1>9, <2>1
<1>12. n * v = m * u + r * v
  <2>1. (m * q + r) * v = m * (v * q) + r * v
    OBVIOUS
  <2> QED BY <1>7, <1>9, <2>1
<1>13. r * v \in 0 .. u - 1
  <2>1. r <= q - 1 /\ r \in Nat
    OBVIOUS
  <2>2. r * v <= (q - 1) * v /\ (q - 1) * v = v * q - v /\ r * v \in Nat /\ v * q \in Nat
    BY <2>1
  <2> QED BY <1>7, <2>2
<1>14. ASSUME X = Exp(F, a)
       PROVE  r * v = 0 /\ u = v
  <2>1. d = 0
    BY <1>2, <1>3, <1>14
  <2>2. q = 1
    BY <1>6, <2>1, PowerAssumption
  <2> QED BY <1>7, <1>9, <2>2
<1>15. m \in 0 .. 2 * 2 ^ F.m - 1
  BY <1>1, <1>11
<1>16. /\ ShiftedRight(Mant(F, a), X - Exp(F, a)) = {m}
       /\ Mant(F, a) * Unit(F, a) = m * u + r * v
       /\ X = Exp(F, a) => r * v = 0 /\ u = Unit(F, a)
  BY <1>3, <1>7, <1>8, <1>10, <1>12, <1>14
<1> QED BY <1>0, <1>13, <1>15, <1>16 DEF AlignedTo

\* A sum that is less than a unit off.
Near(F, a, b, exact, w) ==
  IF Finite(F, w) THEN Absolute(Multiple(F, w) - exact) < Biggest({Unit(F, v) : v \in {a, b, w}})
  ELSE Absolute(exact) > Largest(F) /\ w = Infinity(F, IF exact < 0 THEN 1 ELSE 0)

\* The biggest of three units.
LEMMA BiggestUnit ==
  ASSUME NEW F, NEW a, NEW b, NEW w,
         Unit(F, a) \in Nat, Unit(F, b) \in Nat, Unit(F, w) \in Nat
  PROVE  LET most == Biggest({Unit(F, v) : v \in {a, b, w}})
         IN most \in Nat /\ Unit(F, a) <= most /\ Unit(F, b) <= most /\ Unit(F, w) <= most
<1> DEFINE S == {Unit(F, v) : v \in {a, b, w}}
<1>1. S = {Unit(F, a), Unit(F, b), Unit(F, w)}
  OBVIOUS
<1>2. \E x \in S : \A y \in S : y <= x
  <2> HIDE DEF S
  <2>1. PICK i \in Nat, j \in Nat, k \in Nat : S = {i, j, k}
    BY <1>1
  <2>2. CASE j <= i /\ k <= i
    BY <2>1, <2>2
  <2>3. CASE i <= j /\ k <= j
    BY <2>1, <2>3
  <2>4. CASE i <= k /\ j <= k
    BY <2>1, <2>4
  <2> QED BY <2>2, <2>3, <2>4
<1>3. Biggest(S) \in S /\ \A y \in S : y <= Biggest(S)
  <2> HIDE DEF S
  <2> QED BY <1>2 DEF Biggest
<1>4. Unit(F, a) \in S /\ Unit(F, b) \in S /\ Unit(F, w) \in S /\ \A y \in S : y \in Nat
  BY <1>1
<1> HIDE DEF S
<1>5. Biggest(S) \in Nat /\ Unit(F, a) <= Biggest(S) /\ Unit(F, b) <= Biggest(S) /\ Unit(F, w) <= Biggest(S)
  BY <1>3, <1>4
<1> QED BY <1>5 DEF S

\* A number with its sign.
Signal(s, n) == IF s = 1 THEN -n ELSE n

\* The sum of two aligned mantissas is packed to what is near the exact sum.
LEMMA SumsOfFinite ==
  ASSUME NEW F \in {F16, BF16}, NEW a \in AWord, NEW b \in AWord,
         Finite(F, a), Finite(F, b), Absolute(Exp(F, a) - Exp(F, b)) < INT_WIDTH,
         NEW w \in SumOfFinite(F, a, b)
  PROVE  w \in AWord /\ Near(F, a, b, Multiple(F, a) + Multiple(F, b), w)
<1>1. PICK p \in Nat \ {0}, c \in Nat \ {0} : p = 2 ^ F.m /\ c = Bias(F) /\ Top(F) = 2 * c + 1
  BY FloatFacts
<1>2. /\ exponent(F, a) # Top(F) /\ exponent(F, b) # Top(F)
      /\ Exp(F, a) \in 1 - c .. c /\ Exp(F, b) \in 1 - c .. c
      /\ Unit(F, a) \in Nat \ {0} /\ Unit(F, b) \in Nat \ {0}
  BY <1>1, Unpacked DEF Finite
<1>3. PICK X \in 1 - c .. c :
        /\ X = IF Exp(F, a) > Exp(F, b) THEN Exp(F, a) ELSE Exp(F, b)
        /\ X >= Exp(F, a) /\ X >= Exp(F, b) /\ (X = Exp(F, a) \/ X = Exp(F, b))
        /\ X - Exp(F, a) < INT_WIDTH /\ X - Exp(F, b) < INT_WIDTH
  <2>1. INT_WIDTH \in Nat /\ INT_WIDTH > 0
    BY FormatAssumption, WordFacts
  <2> QED BY <1>2, <2>1 DEF Absolute
<1>4. PICK u : u = 2 ^ (X - 1 + Bias(F))
  OBVIOUS
<1>5. PICK ma \in 0 .. 2 * p - 1, ea \in 0 .. u - 1 :
        /\ ShiftedRight(Mant(F, a), X - Exp(F, a)) = {ma}
        /\ Mant(F, a) * Unit(F, a) = ma * u + ea
        /\ X = Exp(F, a) => ea = 0 /\ u = Unit(F, a)
  <2>1. X \in 1 - Bias(F) .. Bias(F)
    BY <1>1
  <2>2. exponent(F, a) # Top(F) /\ X >= Exp(F, a) /\ X - Exp(F, a) < INT_WIDTH
    BY <1>2, <1>3
  <2>3. AlignedTo(F, a, X, u)
    BY <1>4, <2>1, <2>2, AlignedOperand
  <2> QED BY <1>1, <2>3 DEF AlignedTo
<1>6. PICK mb \in 0 .. 2 * p - 1, eb \in 0 .. u - 1 :
        /\ ShiftedRight(Mant(F, b), X - Exp(F, b)) = {mb}
        /\ Mant(F, b) * Unit(F, b) = mb * u + eb
        /\ X = Exp(F, b) => eb = 0 /\ u = Unit(F, b)
  <2>1. X \in 1 - Bias(F) .. Bias(F)
    BY <1>1
  <2>2. exponent(F, b) # Top(F) /\ X >= Exp(F, b) /\ X - Exp(F, b) < INT_WIDTH
    BY <1>2, <1>3
  <2>3. AlignedTo(F, b, X, u)
    BY <1>4, <2>1, <2>2, AlignedOperand
  <2> QED BY <1>1, <2>3 DEF AlignedTo
<1>7. u \in Nat \ {0} /\ (u = Unit(F, a) \/ u = Unit(F, b)) /\ (ea = 0 \/ eb = 0)
  BY <1>2, <1>3, <1>5, <1>6
<1>8. PICK sa \in {0, 1}, sb \in {0, 1} : sa = sign(F, a) /\ sb = sign(F, b)
  <2>1. F \in AnyFormat
    BY DEF AnyFormat
  <2> QED BY <2>1, Fields
<1>9. PICK A \in Nat, B \in Nat : A = ma * u /\ B = mb * u
  BY <1>7
<1>10. /\ Multiple(F, a) = Signal(sa, A + ea) /\ Multiple(F, b) = Signal(sb, B + eb)
  BY <1>1, <1>2, <1>5, <1>6, <1>8, <1>9, Unpacked DEF Signal
<1>11. PICK exact \in Int : exact = Multiple(F, a) + Multiple(F, b)
  BY <1>5, <1>6, <1>7, <1>8, <1>9, <1>10 DEF Signal
<1>12. w = IF sa = sb THEN Pack(F, sa, X, ma + mb)
           ELSE IF ma >= mb THEN Pack(F, sa, X, ma - mb)
           ELSE Pack(F, sb, X, mb - ma)
  BY <1>3, <1>5, <1>6, <1>8 DEF SumOfFinite
<1>13. PICK s \in {0, 1}, t \in 0 .. 4 * p - 1 :
         /\ w = Pack(F, s, X, t)
         /\ IF sa = sb THEN s = sa /\ t = ma + mb
            ELSE IF ma >= mb THEN s = sa /\ t = ma - mb
            ELSE s = sb /\ t = mb - ma
  <2>1. CASE sa = sb
    <3>1. ma + mb \in 0 .. 4 * p - 1
      OBVIOUS
    <3> QED BY <1>12, <2>1, <3>1
  <2>2. CASE sa # sb /\ ma >= mb
    <3>1. ma - mb \in 0 .. 4 * p - 1
      BY <2>2
    <3> QED BY <1>12, <2>2, <3>1
  <2>3. CASE sa # sb /\ ~(ma >= mb)
    <3>1. mb - ma \in 0 .. 4 * p - 1
      BY <2>3
    <3> QED BY <1>12, <2>3, <3>1
  <2> QED BY <2>1, <2>2, <2>3
<1>14. PICK T \in Nat : T = t * u /\ T = IF sa = sb THEN A + B ELSE IF ma >= mb THEN A - B ELSE B - A
  <2>1. /\ (ma + mb) * u = ma * u + mb * u
        /\ (ma - mb) * u = ma * u - mb * u
        /\ (mb - ma) * u = mb * u - ma * u
    BY <1>7
  <2>2. t * u \in Nat
    BY <1>7
  <2> QED BY <1>9, <1>13, <2>1, <2>2
<1>15. /\ w \in AWord /\ sign(F, w) = s
       /\ t < 2 * p => exponent(F, w) # Top(F) /\ Mant(F, w) * Unit(F, w) = T
       /\ t >= 2 * p /\ X < c =>
            /\ exponent(F, w) # Top(F) /\ Unit(F, w) = 2 * u
            /\ 2 * Mant(F, w) \in {t, t - 1}
       /\ t >= 2 * p /\ X = c => w = Infinity(F, s) /\ exponent(F, w) = Top(F)
  BY <1>1, <1>4, <1>13, <1>14, PackedSum
<1>16. CASE t < 2 * p
  <2>1. Unit(F, w) \in Nat /\ Multiple(F, w) = Signal(s, T) /\ Finite(F, w)
    BY <1>15, <1>16, Unpacked DEF Signal, Finite
  <2>2. Absolute(Signal(s, T) - exact) < u
    BY <1>5, <1>6, <1>7, <1>8, <1>9, <1>10, <1>11, <1>13, <1>14 DEF Signal, Absolute
  <2>3. Absolute(Signal(s, T) - exact) \in Int
    BY <1>8, <1>13, <1>14 DEF Signal, Absolute
  <2> DEFINE most == Biggest({Unit(F, v) : v \in {a, b, w}})
  <2>4. most \in Nat /\ Unit(F, a) <= most /\ Unit(F, b) <= most
    BY <1>2, <2>1, BiggestUnit
  <2>5. Absolute(Signal(s, T) - exact) < most
    BY <1>2, <1>7, <2>2, <2>3, <2>4
  <2> QED BY <1>11, <1>15, <2>1, <2>5 DEF Near
<1>17. ASSUME t >= 2 * p
       PROVE  sa = sb /\ s = sa /\ T = A + B
  BY <1>13, <1>14, <1>17
<1>18. CASE t >= 2 * p /\ X < c
  <2>1. /\ Unit(F, w) = 2 * u /\ exponent(F, w) # Top(F) /\ Mant(F, w) \in Nat
        /\ Multiple(F, w) = Signal(s, Mant(F, w) * Unit(F, w)) /\ Finite(F, w)
    <3>1. exponent(F, w) # Top(F) /\ w \in AWord /\ sign(F, w) = s
      BY <1>15, <1>18
    <3>2. Mant(F, w) \in Nat
      BY <1>1, <3>1, Unpacked
    <3> QED BY <1>15, <1>18, <3>1, <3>2, Unpacked DEF Signal, Finite
  <2>2. PICK M \in Nat : M = Mant(F, w) * Unit(F, w) /\ M \in {T, T - u}
    <3>1. PICK n \in Nat : n = Mant(F, w) /\ 2 * n \in {t, t - 1}
      BY <1>15, <1>18, <2>1
    <3>2. n * (2 * u) = (2 * n) * u /\ (t - 1) * u = t * u - u /\ n * (2 * u) \in Nat
      BY <1>7, <3>1
    <3> QED BY <1>14, <2>1, <3>1, <3>2
  <2>3. Absolute(Signal(s, M) - exact) < 2 * u
    BY <1>5, <1>6, <1>7, <1>8, <1>9, <1>10, <1>11, <1>17, <1>18, <2>2 DEF Signal, Absolute
  <2>4. Absolute(Signal(s, M) - exact) \in Int
    BY <1>8, <1>13, <2>2 DEF Signal, Absolute
  <2> DEFINE most == Biggest({Unit(F, v) : v \in {a, b, w}})
  <2>5. most \in Nat /\ 2 * u <= most
    <3>1. Unit(F, w) \in Nat
      BY <1>7, <2>1
    <3>2. most \in Nat /\ Unit(F, w) <= most
      BY <1>2, <3>1, BiggestUnit
    <3> QED BY <2>1, <3>2
  <2>6. Absolute(Signal(s, M) - exact) < most
    BY <1>7, <2>3, <2>4, <2>5
  <2> QED BY <1>11, <1>15, <2>1, <2>2, <2>6 DEF Near
<1>19. CASE t >= 2 * p /\ X = c
  <2>1. w = Infinity(F, s) /\ ~Finite(F, w)
    BY <1>15, <1>19 DEF Finite
  <2>2. PICK L \in Int : L = Largest(F) /\ L < (2 * p) * u
    <3>1. X - 1 + Bias(F) = Top(F) - 2
      BY <1>1, <1>19
    <3>2. Largest(F) = (2 * p - 1) * u
      BY <1>1, <1>4, <3>1, LargestIs
    <3>3. (2 * p - 1) * u = (2 * p) * u - u /\ (2 * p) * u \in Nat
      BY <1>7
    <3> QED BY <1>7, <3>2, <3>3
  <2>3. (2 * p) * u <= T /\ (2 * p) * u \in Nat
    BY <1>7, <1>14, <1>19
  <2>4. exact = Signal(s, T + ea + eb) /\ T > 0
    <3>1. T > 0
      <4>1. (2 * p) * u > 0
        BY <1>7
      <4> QED BY <1>14, <2>3, <4>1
    <3> QED BY <1>8, <1>10, <1>11, <1>17, <1>19, <3>1 DEF Signal
  <2>5. Absolute(exact) > L /\ s = IF exact < 0 THEN 1 ELSE 0
    BY <1>13, <2>2, <2>3, <2>4 DEF Signal, Absolute
  <2> QED BY <1>11, <1>15, <2>1, <2>2, <2>5 DEF Near
<1>20. t < 2 * p \/ t >= 2 * p
  OBVIOUS
<1> QED BY <1>16, <1>18, <1>19, <1>20

\* Half a turn more, and a whole one.
LEMMA TurnedRound ==
  ASSUME NEW z \in Nat \ {0}, NEW r \in 0 .. z - 1
  PROVE  (z + r) % (2 * z) = z + r /\ (2 * z + r) % (2 * z) = r
<1>1. PICK m \in Nat \ {0}, g \in Nat, h \in Nat :
        m = 2 * z /\ g = z + r /\ h = 2 * z + r /\ g \in 0 .. m - 1 /\ r \in 0 .. m - 1
  OBVIOUS
<1>2. g % m = g
  <2>1. PICK q \in Int : q = 0 /\ g = q * m + g
    OBVIOUS
  <2> QED BY <1>1, <2>1, Division
<1>3. h % m = r
  <2>1. PICK q \in Int : q = 1 /\ h = q * m + r
    BY <1>1
  <2> QED BY <1>1, <2>1, Division
<1> QED BY <1>1, <1>2, <1>3

\* The sign bit is all that tells a number from its negative.
LEMMA Negating ==
  ASSUME NEW F \in {F16, BF16}, NEW b \in AWord
  PROVE  LET n == Negated(F, b)
         IN /\ n \in AWord /\ exponent(F, n) = exponent(F, b)
            /\ mantissa(F, n) = mantissa(F, b) /\ sign(F, n) = 1 - sign(F, b)
<1>1. F \in AnyFormat
  BY DEF AnyFormat
<1>2. PICK s \in {0, 1}, x \in 0 .. Top(F), m \in 0 .. 2 ^ F.m - 1 :
        /\ s = sign(F, b) /\ x = exponent(F, b) /\ m = mantissa(F, b)
        /\ b = s * SIGN + x * 2 ^ F.m + m /\ b % SIGN = x * 2 ^ F.m + m
  BY <1>1, Fields
<1>3. PICK z \in Nat, y \in Nat : /\ z = SIGN /\ z > 1 /\ WORDS = 2 * z /\ Negative(F) = z
                                /\ y = x * 2 ^ F.m /\ m \in Nat
  <2>1. PICK p \in Nat : p = 2 ^ F.m
    BY FloatFacts
  <2>2. x \in Nat /\ m \in Nat
    BY <2>1, FloatFacts
  <2>3. x * p \in Nat
    BY <2>2
  <2> QED BY <2>1, <2>2, <2>3, FloatFacts, WordFacts
<1>4. PICK r \in 0 .. z - 1 : r = x * 2 ^ F.m + m /\ b = s * z + r
  <2>1. b % z \in 0 .. z - 1
    BY <1>3 DEF AWord
  <2>2. s * z \in Nat
    BY <1>3
  <2>3. b = s * z + (x * 2 ^ F.m + m)
    BY <1>2, <1>3, <2>2
  <2> QED BY <1>2, <1>3, <2>1, <2>3
<1>5. (b + z) % (2 * z) = (1 - s) * z + r
  <2>1. s = 0 => b + z = z + r
    BY <1>3, <1>4
  <2>2. s = 1 => b + z = 2 * z + r
    BY <1>3, <1>4
  <2>3. (z + r) % (2 * z) = z + r /\ (2 * z + r) % (2 * z) = r /\ z \in Nat /\ r \in Nat
    <3>1. z \in Nat \ {0} /\ r \in 0 .. z - 1
      BY <1>3, <1>4
    <3>2. r \in Nat
      BY <3>1
    <3> QED BY <3>1, <3>2, TurnedRound
  <2>4. CASE s = 0
    BY <1>3, <2>1, <2>3, <2>4
  <2>5. CASE s = 1
    BY <1>3, <2>2, <2>3, <2>5
  <2> QED BY <2>4, <2>5
<1>6. Negated(F, b) = Word(F, 1 - s, x, m)
  <2>1. Negated(F, b) = (1 - s) * z + r
    BY <1>3, <1>5 DEF Negated
  <2>2. Word(F, 1 - s, x, m) = (1 - s) * z + x * 2 ^ F.m + m
    BY <1>3 DEF Word
  <2>3. (1 - s) * z \in Nat
    BY <1>3
  <2> QED BY <1>3, <1>4, <2>1, <2>2, <2>3
<1>7. 1 - s \in {0, 1}
  OBVIOUS
<1> QED BY <1>2, <1>6, <1>7, WordOfFields

\* The negated word is the negative number.
LEMMA NegatedNumber ==
  ASSUME NEW F \in {F16, BF16}, NEW b \in AWord, Finite(F, b)
  PROVE  LET n == Negated(F, b)
         IN /\ n \in AWord /\ Finite(F, n) /\ Exp(F, n) = Exp(F, b)
            /\ Unit(F, n) = Unit(F, b) /\ Multiple(F, n) = -Multiple(F, b)
<1>1. PICK n \in AWord :
        /\ n = Negated(F, b) /\ exponent(F, n) = exponent(F, b)
        /\ mantissa(F, n) = mantissa(F, b) /\ sign(F, n) = 1 - sign(F, b)
  BY Negating
<1>2. Class(F, n) = Class(F, b)
  BY <1>1 DEF Class
<1>3. Exp(F, n) = Exp(F, b) /\ Mant(F, n) = Mant(F, b)
  BY <1>1, <1>2 DEF Exp, Mant
<1>4. Unit(F, n) = Unit(F, b)
  BY <1>3 DEF Unit
<1>5. PICK M \in Nat : M = Mant(F, b) * Unit(F, b) /\ M = Mant(F, n) * Unit(F, n)
  <2>1. Mant(F, b) \in Nat /\ Unit(F, b) \in Nat
    BY Unpacked, FloatFacts DEF Finite
  <2> QED BY <1>3, <1>4, <2>1
<1>6. Finite(F, n) /\ exponent(F, b) # Top(F) /\ exponent(F, n) # Top(F)
  BY <1>1 DEF Finite
<1>7. /\ Multiple(F, b) = IF sign(F, b) = 1 THEN -M ELSE M
      /\ Multiple(F, n) = IF sign(F, n) = 1 THEN -M ELSE M
  BY <1>5, <1>6, Unpacked
<1>8. sign(F, b) \in {0, 1}
  <2>1. F \in AnyFormat
    BY DEF AnyFormat
  <2> QED BY <2>1, Fields
<1>9. Multiple(F, n) = -Multiple(F, b)
  BY <1>1, <1>7, <1>8
<1> QED BY <1>1, <1>3, <1>4, <1>6, <1>9

\* The law of sums, from the classes of the operands.
LEMMA SumsNear ==
  ASSUME NEW F \in {F16, BF16}, NEW a \in AWord, NEW b \in AWord,
         Finite(F, a), Finite(F, b), Absolute(Exp(F, a) - Exp(F, b)) < INT_WIDTH,
         NEW w \in Sums(F, a, b)
  PROVE  Near(F, a, b, Multiple(F, a) + Multiple(F, b), w)
<1>1. \A v \in {a, b} : /\ Class(F, v) \in {"ZERO", "SUBNORMAL", "NORMAL"}
                        /\ Unit(F, v) \in Nat \ {0} /\ Multiple(F, v) \in Int
                        /\ Class(F, v) = "ZERO" => Multiple(F, v) = 0
  <2> SUFFICES ASSUME NEW v \in {a, b}
               PROVE  /\ Class(F, v) \in {"ZERO", "SUBNORMAL", "NORMAL"}
                      /\ Unit(F, v) \in Nat \ {0} /\ Multiple(F, v) \in Int
                      /\ Class(F, v) = "ZERO" => Multiple(F, v) = 0
    OBVIOUS
  <2>1. v \in AWord /\ exponent(F, v) # Top(F)
    BY DEF Finite
  <2>2. PICK n \in Nat, u \in Nat \ {0} :
          /\ n = Mant(F, v) /\ u = Unit(F, v)
          /\ Class(F, v) = "ZERO" <=> n = 0
          /\ Class(F, v) \in {"ZERO", "SUBNORMAL", "NORMAL"}
          /\ Multiple(F, v) = IF sign(F, v) = 1 THEN -(n * u) ELSE n * u
    <3>1. Mant(F, v) \in Nat
      BY <2>1, Unpacked, FloatFacts
    <3> QED BY <2>1, <3>1, Unpacked
  <2>3. n * u \in Nat /\ (n = 0 => n * u = 0)
    OBVIOUS
  <2> QED BY <2>2, <2>3
<1>2. ASSUME NEW v \in {a, b}, w = v, Multiple(F, v) = Multiple(F, a) + Multiple(F, b)
      PROVE  Near(F, a, b, Multiple(F, a) + Multiple(F, b), w)
  <2>1. Finite(F, w) /\ Unit(F, w) \in Nat \ {0}
    BY <1>1, <1>2
  <2>2. Absolute(Multiple(F, w) - (Multiple(F, a) + Multiple(F, b))) = 0
    BY <1>1, <1>2 DEF Absolute
  <2> DEFINE most == Biggest({Unit(F, z) : z \in {a, b, w}})
  <2>3. most \in Nat /\ Unit(F, w) <= most
    BY <1>1, <2>1, BiggestUnit
  <2>4. 0 < most
    BY <2>1, <2>3
  <2> QED BY <2>1, <2>2, <2>4 DEF Near
<1>3. ~("NAN" \in Classes(F, a, b)) /\ Class(F, a) # "INF" /\ Class(F, b) # "INF"
  BY <1>1 DEF Classes
<1>4. ~(Classes(F, a, b) = {"INF"})
  BY <1>3 DEF Classes
<1>5. CASE Class(F, a) = "ZERO"
  <2>1. w = b
    BY <1>3, <1>4, <1>5 DEF Sums
  <2> QED BY <1>1, <1>2, <1>5, <2>1
<1>6. CASE Class(F, a) # "ZERO" /\ Class(F, b) = "ZERO"
  <2>1. w = a
    BY <1>3, <1>4, <1>6 DEF Sums
  <2> QED BY <1>1, <1>2, <1>6, <2>1
<1>7. CASE Class(F, a) # "ZERO" /\ Class(F, b) # "ZERO"
  <2>1. w \in SumOfFinite(F, a, b)
    BY <1>3, <1>4, <1>7 DEF Sums
  <2> QED BY <2>1, SumsOfFinite
<1> QED BY <1>5, <1>6, <1>7

\* Sums and differences of two finite floats or bfloats are less than a unit of
\* the largest of the three numbers off, and infinite only where the exact sum is
\* too large, for every width and choice of the formats (f16_add, bf16_add).
THEOREM SumsAreNear == Spec => []SumsClose
<1>1. Done => SumsClose
  <2> SUFFICES ASSUME Done, status = "done",
                      NEW F \in FormatOf({"ADDF", "SUBF"}, {"ADDD", "SUBD"}),
                      Finite(F, destination), Finite(F, source),
                      Absolute(Exp(F, destination) - Exp(F, source)) < INT_WIDTH
               PROVE  Near(F, destination, source,
                           IF op \in {"ADDF", "ADDD"} THEN Multiple(F, destination) + Multiple(F, source)
                           ELSE Multiple(F, destination) - Multiple(F, source), result)
    BY DEF SumsClose, Near
  <2>1. destination \in AWord /\ source \in AWord /\ result \in Results
    BY DEF Done
  <2>2. /\ F \in {F16, BF16} /\ op \in {"ADDF", "SUBF", "ADDD", "SUBD"}
        /\ op \in {"ADDF", "SUBF"} => F = F16
        /\ op \in {"ADDD", "SUBD"} => F = BF16
    BY DEF FormatOf
  <2>3. Results = FormatResults(op, destination, source)
    BY <2>2 DEF Results, OnFormats, FLOAT_OPS
  <2>4. CASE op \in {"ADDF", "ADDD"}
    <3>1. result \in Sums(F, destination, source)
      BY <2>1, <2>2, <2>3, <2>4 DEF FormatResults
    <3> QED BY <2>1, <2>2, <2>4, <3>1, SumsNear
  <2>5. CASE op \in {"SUBF", "SUBD"}
    <3>1. result \in Sums(F, destination, Negated(F, source))
      BY <2>1, <2>2, <2>3, <2>5 DEF FormatResults, Differences
    <3>2. PICK n \in AWord :
            /\ n = Negated(F, source) /\ Finite(F, n) /\ Exp(F, n) = Exp(F, source)
            /\ Unit(F, n) = Unit(F, source) /\ Multiple(F, n) = -Multiple(F, source)
      BY <2>1, <2>2, NegatedNumber
    <3>3. Near(F, destination, n, Multiple(F, destination) + Multiple(F, n), result)
      BY <2>1, <2>2, <3>1, <3>2, SumsNear
    <3>4. {Unit(F, v) : v \in {destination, n, result}} = {Unit(F, v) : v \in {destination, source, result}}
      BY <3>2
    <3>5. Multiple(F, destination) + Multiple(F, n) = Multiple(F, destination) - Multiple(F, source)
      <4>1. \A v \in AWord : Finite(F, v) => Multiple(F, v) \in Int
        <5> SUFFICES ASSUME NEW v \in AWord, Finite(F, v)
                     PROVE  Multiple(F, v) \in Int
          OBVIOUS
        <5>1. Mant(F, v) \in Nat /\ Unit(F, v) \in Nat
          BY <2>2, Unpacked, FloatFacts DEF Finite
        <5>2. PICK M \in Nat : M = Mant(F, v) * Unit(F, v)
          BY <5>1
        <5> QED BY <2>2, <5>2, Unpacked DEF Finite
      <4> QED BY <2>1, <3>2, <4>1
    <3> QED BY <2>2, <2>5, <3>3, <3>4, <3>5 DEF Near
  <2> QED BY <2>2, <2>4, <2>5
<1> QED BY <1>1, DoneHolds, PTL
-----------------------------------------------------------------------------
\* How far a product or quotient of size n, in units of 1 / weight, may be off.
Rounded(F, w, n, weight, units) ==
  LET off == n - Absolute(Multiple(F, w)) * weight
  IN CASE Class(F, w) = "INF"       -> n > Largest(F) * weight
       [] Class(F, w) = "ZERO"      -> n < 2 ^ F.m * weight
       [] Class(F, w) = "SUBNORMAL" -> Absolute(off) < weight
       [] Class(F, w) = "NORMAL"    -> off \in 0 .. units * Unit(F, w) * weight - 1
       [] OTHER                     -> FALSE

\* n is a * scale, or less than so many units more.
Scaled(n, a, scale, units) == n \in a * scale .. a * scale + units * scale - 1

\* Quotient and remainder.
LEMMA DividedParts ==
  ASSUME NEW x \in Nat, NEW y \in Nat \ {0}
  PROVE  x = (x \div y) * y + (x % y) /\ x \div y \in Nat /\ x % y \in 0 .. y - 1
OBVIOUS

\* Below the normal numbers: what is left of the mantissa a.
Kept(p, a, h, r, W, n) ==
  LET g == (a + r) \div (2 * h) IN n < p * W /\ g \in 0 .. p /\ Absolute(n - g * W) < W

\* Cutting a mantissa, with half a unit added or not, loses less than a unit.
LEMMA RoundedBelow ==
  ASSUME NEW p \in Nat \ {0}, NEW a \in 0 .. 2 * p - 1, NEW h \in Nat \ {0}, NEW r \in {0, h},
         NEW W \in Nat \ {0}, NEW n \in Nat, NEW u \in {1, 2}, u = 2 => a % 2 = 0,
         Scaled(n * (2 * h), a, W, u)
  PROVE  Kept(p, a, h, r, W, n)
<1>1. PICK rho \in 0 .. u * W - 1 : n * (2 * h) = a * W + rho
  <2>1. a * W \in Nat /\ u * W \in Nat /\ n * (2 * h) \in Nat
    OBVIOUS
  <2>2. n * (2 * h) - a * W \in 0 .. u * W - 1
    BY <2>1 DEF Scaled
  <2>3. n * (2 * h) = a * W + (n * (2 * h) - a * W)
    BY <2>1
  <2> QED BY <2>2, <2>3
<1>2. a + u <= 2 * p
  <2>1. CASE u = 1
    BY <2>1
  <2>2. CASE u = 2
    BY <2>2
  <2> QED BY <2>1, <2>2
<1>3. n < p * W
  <2>1. n * (2 * h) < (2 * p) * W
    <3>1. (a + u) * W <= (2 * p) * W
      BY <1>2
    <3>2. (a + u) * W = a * W + u * W /\ a * W \in Nat /\ u * W \in Nat /\ (2 * p) * W \in Nat
      OBVIOUS
    <3> QED BY <1>1, <3>1, <3>2
  <2>2. n * (2 * h) = 2 * (n * h) /\ (2 * p) * W = 2 * (p * W) /\ n * h >= n
        /\ n * h \in Nat /\ p * W \in Nat
    OBVIOUS
  <2> QED BY <2>1, <2>2
<1>4. PICK g \in Nat, q \in 0 .. 2 * h - 1 : g = (a + r) \div (2 * h) /\ a + r = g * (2 * h) + q
  <2>1. PICK x \in Nat, S \in Nat \ {0} : x = a + r /\ S = 2 * h
    OBVIOUS
  <2>2. x = (x \div S) * S + (x % S) /\ x \div S \in Nat /\ x % S \in 0 .. S - 1
    BY DividedParts
  <2> QED BY <2>1, <2>2
<1>5. g <= p
  <2> SUFFICES ASSUME g >= p + 1
               PROVE  FALSE
    OBVIOUS
  <2>1. g * (2 * h) >= (p + 1) * (2 * h)
    OBVIOUS
  <2>2. (p + 1) * (2 * h) = 2 * (p * h) + 2 * h /\ p * h >= p /\ p * h \in Nat
    OBVIOUS
  <2>3. g * (2 * h) \in Nat
    OBVIOUS
  <2> QED BY <1>4, <2>1, <2>2, <2>3
<1>6. PICK d \in Int : d = n - g * W
  OBVIOUS
<1>7. d * (2 * h) = (q - r) * W + rho
  <2>1. d * (2 * h) = n * (2 * h) - (g * W) * (2 * h)
    BY <1>6
  <2>2. (g * W) * (2 * h) = (g * (2 * h)) * W
    OBVIOUS
  <2>3. g * (2 * h) = a + r - q
    <3>1. PICK y \in Nat : y = g * (2 * h)
      OBVIOUS
    <3>2. a \in Int /\ r \in Int /\ q \in Int /\ a + r = y + q
      BY <1>4, <3>1
    <3>3. y = a + r - q
      BY <3>2
    <3> QED BY <3>1, <3>3
  <2>4. (a + r - q) * W = a * W - (q - r) * W
    OBVIOUS
  <2>5. a * W \in Int /\ (q - r) * W \in Int /\ n * (2 * h) \in Int /\ d * (2 * h) \in Int
    OBVIOUS
  <2> QED BY <1>1, <2>1, <2>2, <2>3, <2>4, <2>5
<1>8. (q - r) + u <= 2 * h
  <2>1. CASE u = 1
    BY <2>1
  <2>2. CASE u = 2 /\ r = h
    BY <2>2
  <2>3. CASE u = 2 /\ r = 0
    <3>1. a % 2 = 0 /\ a = 2 * (g * h) + q /\ g * h \in Nat
      BY <1>4, <2>3
    <3>2. q # 2 * h - 1
      BY <3>1
    <3> QED BY <2>3, <3>2
  <2> QED BY <2>1, <2>2, <2>3
<1>9. d * (2 * h) < W * (2 * h)
  <2>1. ((q - r) + u) * W <= (2 * h) * W
    BY <1>8
  <2>2. ((q - r) + u) * W = (q - r) * W + u * W /\ (2 * h) * W = W * (2 * h)
    OBVIOUS
  <2>3. (q - r) * W \in Int /\ u * W \in Int /\ (2 * h) * W \in Int
    OBVIOUS
  <2> QED BY <1>1, <1>7, <2>1, <2>2, <2>3
<1>10. d * (2 * h) > (-W) * (2 * h)
  <2>1. (q - r) * W >= (-h) * W
    OBVIOUS
  <2>2. (-h) * W = -(h * W) /\ (-W) * (2 * h) = -(h * W) - (h * W) /\ h * W \in Nat \ {0}
        /\ (q - r) * W \in Int
    OBVIOUS
  <2> QED BY <1>1, <1>7, <2>1, <2>2
<1>11. d < W
  <2> SUFFICES ASSUME d >= W
               PROVE  FALSE
    OBVIOUS
  <2>1. d * (2 * h) >= W * (2 * h)
    OBVIOUS
  <2> QED BY <1>9, <2>1
<1>12. d > -W
  <2> SUFFICES ASSUME d <= -W
               PROVE  FALSE
    OBVIOUS
  <2>1. d * (2 * h) <= (-W) * (2 * h)
    OBVIOUS
  <2> QED BY <1>10, <2>1
<1>13. Absolute(n - g * W) < W
  BY <1>6, <1>11, <1>12 DEF Absolute
<1> QED BY <1>3, <1>4, <1>5, <1>13 DEF Kept

\* The packed number has the sign s and is near v / W.
PackedIs(F, s, X, n, v, W, u) ==
  LET w == Pack(F, s, X, n) IN w \in AWord /\ sign(F, w) = s /\ Rounded(F, w, v, W, u)

\* What Pack makes of a product or quotient.  The mantissa n stands for v, cut
\* to at most two of its last places.
LEMMA RoundedPack ==
  ASSUME NEW F \in {F16, BF16}, NEW s \in {0, 1}, NEW X \in Int,
         NEW n \in Nat \ {0}, n < 2 ^ LONG_WIDTH,
         NEW v \in Nat, NEW W \in Nat \ {0}, NEW u \in {1, 2}, NEW x, NEW a,
         x = X + Carry(F, n), a = Aligned(n, Carry(F, n)), u = 2 => a % 2 = 0,
         x > Bias(F) => v >= (2 * 2 ^ F.m) * (2 ^ (Top(F) - 2) * W),
         x \in 1 - Bias(F) .. Bias(F) => Scaled(v, a, 2 ^ (x - 1 + Bias(F)) * W, u),
         x < 1 - Bias(F) => KnownPower(1 - Bias(F) - x) /\ Scaled(v * 2 ^ (1 - Bias(F) - x), a, W, u)
  PROVE  PackedIs(F, s, X, n, v, W, u)
<1> USE DEF PackedIs
<1>1. PICK p \in Nat \ {0}, b \in Nat \ {0}, t \in Nat :
        p = 2 ^ F.m /\ b = Bias(F) /\ t = Top(F) /\ t = 2 * b + 1
  BY FloatFacts
<1>2. a \in p .. 2 * p - 1 /\ x \in Int
  BY <1>1, Aligning
<1>3. PICK w : w = Pack(F, s, X, n)
  OBVIOUS
<1>4. /\ w \in AWord /\ sign(F, w) = s
      /\ x > b => w = Infinity(F, s) /\ exponent(F, w) = t
      /\ x \in 1 - b .. b => exponent(F, w) = x + b /\ mantissa(F, w) = a - p
      /\ x < 1 - b => exponent(F, w) = 0 /\ mantissa(F, w) = Below(F, a, 1 - b - x)
  <2>1. /\ w \in AWord /\ sign(F, w) = s
        /\ x > Bias(F) => w = Infinity(F, s) /\ exponent(F, w) = Top(F)
        /\ x \in 1 - Bias(F) .. Bias(F) =>
             exponent(F, w) = x + Bias(F) /\ mantissa(F, w) = a - 2 ^ F.m
        /\ x < 1 - Bias(F) =>
             exponent(F, w) = 0 /\ mantissa(F, w) = Below(F, a, 1 - Bias(F) - x)
    BY <1>3, Packing
  <2> QED BY <1>1, <2>1
<1>5. CASE x > b
  <2>1. w = Word(F, s, t, 0)
    BY <1>1, <1>4, <1>5 DEF Infinity
  <2>2. t \in 0 .. Top(F) /\ 0 \in 0 .. 2 ^ F.m - 1
    BY <1>1
  <2>3. exponent(F, w) = t /\ mantissa(F, w) = 0
    BY <2>1, <2>2, WordOfFields
  <2>4. Class(F, w) = "INF"
    BY <1>1, <2>3 DEF Class
  <2>5. PICK U \in Nat \ {0} : U = 2 ^ (t - 2)
    <3>1. t - 2 \in 0 .. Top(F) + F.m + 1
      BY <1>1, FloatFacts
    <3> QED BY <3>1, FloatFacts, PowersKnown
  <2>6. Largest(F) = (2 * p - 1) * U /\ v >= (2 * p) * (U * W)
    BY <1>1, <1>5, <2>5, LargestIs
  <2>7. v > ((2 * p - 1) * U) * W
    <3>1. ((2 * p - 1) * U) * W = (2 * p) * (U * W) - U * W /\ U * W \in Nat \ {0}
          /\ (2 * p) * (U * W) \in Nat
      OBVIOUS
    <3> QED BY <2>6, <3>1
  <2> QED BY <1>3, <1>4, <2>4, <2>6, <2>7 DEF Rounded
<1>6. CASE x \in 1 - b .. b
  <2>1. exponent(F, w) = x + b /\ mantissa(F, w) = a - p /\ x + b # 0 /\ x + b # t
    BY <1>1, <1>4, <1>6
  <2>2. Class(F, w) = "NORMAL" /\ exponent(F, w) # Top(F)
    BY <1>1, <2>1 DEF Class
  <2>3. Mant(F, w) = a /\ Exp(F, w) = x
    <3>1. /\ Exp(F, w) = (IF exponent(F, w) = 0 THEN 1 ELSE exponent(F, w)) - Bias(F)
          /\ Mant(F, w) = (IF exponent(F, w) = 0 THEN 0 ELSE 2 ^ F.m) + mantissa(F, w)
      BY <1>4, <2>2, Unpacked
    <3> QED BY <1>1, <1>2, <2>1, <3>1
  <2>4. PICK U \in Nat \ {0} : U = Unit(F, w) /\ U = 2 ^ (x - 1 + b)
    <3>1. Unit(F, w) \in Nat \ {0}
      BY <1>4, <2>2, Unpacked
    <3> QED BY <1>1, <2>3, <3>1 DEF Unit
  <2>5. PICK M \in Nat : M = a * U /\ Multiple(F, w) = IF s = 1 THEN -M ELSE M
    <3>1. a * U \in Nat
      BY <1>2
    <3> QED BY <1>4, <2>2, <2>3, <2>4, <3>1, Unpacked
  <2>6. Absolute(Multiple(F, w)) = M
    BY <2>5 DEF Absolute
  <2>7. v - M * W \in 0 .. u * U * W - 1
    <3>1. v \in a * (U * W) .. a * (U * W) + u * (U * W) - 1
      BY <1>1, <1>6, <2>4 DEF Scaled
    <3>2. /\ a * (U * W) = M * W /\ u * (U * W) = u * U * W
          /\ M * W \in Nat /\ u * U * W \in Nat
      BY <1>2, <2>5
    <3> QED BY <3>1, <3>2
  <2>8. v - Absolute(Multiple(F, w)) * W \in 0 .. u * Unit(F, w) * W - 1
    BY <2>4, <2>6, <2>7
  <2> QED BY <1>3, <1>4, <2>2, <2>8 DEF Rounded
<1>7. CASE x < 1 - b
  <2>1. PICK e \in Nat \ {0} : e = 1 - b - x /\ e = 1 - Bias(F) - x
    BY <1>1, <1>2, <1>7
  <2>2. PICK h \in Nat \ {0} : 2 ^ e = 2 * h /\ 2 ^ (e - 1) = h
    <3>1. e - 1 \in Nat /\ 1 \in Nat /\ (e - 1) + 1 = e /\ KnownPower((e - 1) + 1)
      BY <1>1, <1>7, <2>1
    <3>2. 2 ^ ((e - 1) + 1) = 2 ^ (e - 1) * 2 ^ 1 /\ KnownPower(e - 1)
      BY <3>1, PowersKnown
    <3>3. 2 ^ (e - 1) \in Nat \ {0} /\ 2 ^ 1 = 2
      BY <3>2, PowersKnown, PowerAssumption, WordFacts
    <3> QED BY <3>1, <3>2, <3>3
  <2>3. Scaled(v * (2 * h), a, W, u)
    BY <1>1, <1>7, <2>1, <2>2
  <2>4. PICK r \in {0, h} : r = IF F = F16 THEN 2 ^ (e - 1) ELSE 0
    BY <2>2
  <2>5. PICK g \in 0 .. p : /\ g = (a + r) \div (2 * h)
                           /\ v < p * W /\ Absolute(v - g * W) < W
    <3>1. a \in 0 .. 2 * p - 1
      BY <1>2
    <3>2. /\ v < p * W /\ (a + r) \div (2 * h) \in 0 .. p
          /\ Absolute(v - ((a + r) \div (2 * h)) * W) < W
      <4>1. Kept(p, a, h, r, W, v)
        BY <2>3, <3>1, RoundedBelow
      <4> QED BY <4>1 DEF Kept
    <3> QED BY <3>2
  <2>6. PICK z \in 0 .. p - 1 : z = mantissa(F, w) /\ z = Below(F, a, e) /\ (z = 0 \/ z = g)
    <3>1. mantissa(F, w) = Below(F, a, e) /\ Below(F, a, e) \in 0 .. p - 1
      <4>1. mantissa(F, w) = Below(F, a, e)
        BY <1>4, <1>7, <2>1
      <4>2. a \in Nat
        BY <1>2
      <4>3. Below(F, a, e) \in 0 .. 2 ^ F.m - 1
        BY <4>2, BelowFits
      <4> QED BY <1>1, <4>1, <4>3
    <3>2. Below(F, a, e) = IF e >= INT_WIDTH THEN 0 ELSE g % p
      BY <1>1, <2>2, <2>4, <2>5 DEF Below
    <3>3. g % p = IF g = p THEN 0 ELSE g
      <4>1. g \in 0 .. p
        BY <2>5
      <4>2. CASE g = p
        BY <4>1, <4>2
      <4>3. CASE g # p
        BY <4>1, <4>3
      <4> QED BY <4>2, <4>3
    <3> QED BY <3>1, <3>2, <3>3
  <2>7. exponent(F, w) = 0 /\ exponent(F, w) # Top(F)
    BY <1>1, <1>4, <1>7
  <2>8. CASE z = 0
    <3>1. Class(F, w) = "ZERO"
      BY <2>6, <2>7, <2>8 DEF Class
    <3> QED BY <1>1, <1>3, <1>4, <2>5, <3>1 DEF Rounded
  <2>9. CASE z # 0
    <3>1. Class(F, w) = "SUBNORMAL"
      BY <2>6, <2>7, <2>9 DEF Class
    <3>2. Mant(F, w) = z /\ Unit(F, w) = 1
      <4>1. /\ Exp(F, w) = (IF exponent(F, w) = 0 THEN 1 ELSE exponent(F, w)) - Bias(F)
            /\ Mant(F, w) = (IF exponent(F, w) = 0 THEN 0 ELSE 2 ^ F.m) + mantissa(F, w)
        BY <1>4, <2>7, Unpacked
      <4>2. Exp(F, w) - 1 + Bias(F) = 0
        BY <1>1, <2>7, <4>1
      <4>3. Unit(F, w) = 2 ^ (Exp(F, w) - 1 + Bias(F)) /\ 2 ^ 0 = 1
        BY PowerAssumption DEF Unit
      <4>4. Mant(F, w) = 0 + z
        BY <2>6, <2>7, <4>1
      <4>5. Mant(F, w) = z
        BY <4>4
      <4> QED BY <4>2, <4>3, <4>5
    <3>3. Multiple(F, w) = IF s = 1 THEN -z ELSE z
      <4>1. z * 1 = z
        OBVIOUS
      <4> QED BY <1>4, <2>7, <3>2, <4>1, Unpacked
    <3>4. Absolute(Multiple(F, w)) = g
      BY <2>6, <2>9, <3>3 DEF Absolute
    <3>5. Absolute(v - Absolute(Multiple(F, w)) * W) < W
      BY <2>5, <3>4
    <3> QED BY <1>3, <1>4, <3>1, <3>5 DEF Rounded
  <2> QED BY <2>8, <2>9
<1>8. x > b \/ x \in 1 - b .. b \/ x < 1 - b
  BY <1>2
<1> QED BY <1>5, <1>6, <1>7, <1>8

\* Two powers of 2 that weigh as much as two others.
Balanced(i, j, k, l) == 2 ^ i * 2 ^ j = 2 ^ k * 2 ^ l

\* So they do when the exponents have the same sum.
LEMMA PowersBalance ==
  ASSUME NEW i \in Nat, NEW j \in Nat, NEW k \in Nat, NEW l \in Nat, i + j = k + l,
         KnownPower(i), KnownPower(j), KnownPower(k), KnownPower(l)
  PROVE  Balanced(i, j, k, l)
<1> USE DEF Balanced
<1>1. PICK x \in Nat, y \in Nat, z \in Nat, w \in Nat : x = 2 ^ i /\ y = 2 ^ j /\ z = 2 ^ k /\ w = 2 ^ l
  BY PowersKnown
<1>2. CASE i <= k
  <2>1. k - i \in Nat /\ i + (k - i) = k /\ l + (k - i) = j
    BY <1>2
  <2>2. PICK d : d = k - i
    OBVIOUS
  <2>3. 2 ^ k = 2 ^ i * 2 ^ d /\ 2 ^ j = 2 ^ l * 2 ^ d /\ KnownPower(d)
    BY ZenonT(60), <2>1, <2>2, PowersKnown
  <2>4. PICK v \in Nat : v = 2 ^ d
    BY <2>3, PowersKnown
  <2>5. x * (w * v) = (x * v) * w
    OBVIOUS
  <2> QED BY <1>1, <2>3, <2>4, <2>5
<1>3. CASE k <= i
  <2>1. i - k \in Nat /\ k + (i - k) = i /\ j + (i - k) = l
    BY <1>3
  <2>2. PICK d : d = i - k
    OBVIOUS
  <2>3. 2 ^ i = 2 ^ k * 2 ^ d /\ 2 ^ l = 2 ^ j * 2 ^ d /\ KnownPower(d)
    BY <2>1, <2>2, PowersKnown
  <2>4. PICK v \in Nat : v = 2 ^ d
    BY <2>3, PowersKnown
  <2>5. (z * v) * y = z * (y * v)
    OBVIOUS
  <2> QED BY <1>1, <2>3, <2>4, <2>5
<1> QED BY <1>2, <1>3

\* Mantissas as long as those of normal numbers, and those a bit shorter.
LEMMA Carries ==
  ASSUME NEW F \in {F16, BF16}, NEW n \in Nat \ {0}
  PROVE  /\ n < 2 * 2 ^ F.m => n < 2 ^ LONG_WIDTH
         /\ n \in 2 ^ F.m .. 2 * 2 ^ F.m - 1 => Carry(F, n) = 0 /\ Aligned(n, 0) = n
         /\ n < 2 ^ F.m /\ 2 * n >= 2 ^ F.m => Carry(F, n) = -1 /\ Aligned(n, -1) = 2 * n
<1>1. PICK p \in Nat \ {0} : p = 2 ^ F.m
  BY FloatFacts
<1>2. 2 ^ 0 = 1 /\ 2 ^ 1 = 2
  BY PowerAssumption, WordFacts
<1>3. ASSUME n < 2 * p
      PROVE  n < 2 ^ LONG_WIDTH
  <2>1. /\ F.m \in Nat /\ 1 \in Nat /\ F.m + 1 \in Nat /\ F.m + 1 <= LONG_WIDTH /\ LONG_WIDTH \in Nat
        /\ KnownPower(LONG_WIDTH) /\ KnownPower(F.m + 1)
    <3>1. F.m \in Nat /\ F.m + 2 <= LONG_WIDTH /\ LONG_WIDTH \in Nat
          /\ \A i \in 0 .. LONG_WIDTH + 1 : KnownPower(i)
      BY FloatFacts
    <3> QED BY <3>1
  <2>2. 2 ^ (F.m + 1) <= 2 ^ LONG_WIDTH /\ 2 ^ (F.m + 1) = 2 ^ F.m * 2 ^ 1 /\ 2 ^ LONG_WIDTH \in Nat
    BY <2>1, PowersOrdered, PowersKnown
  <2> QED BY <1>1, <1>2, <1>3, <2>2
<1>4. ASSUME n < 2 * p
      PROVE  \E c \in Int, a \in p .. 2 * p - 1 :
               /\ c = Carry(F, n) /\ a = Aligned(n, c) /\ c < LONG_WIDTH /\ -F.m <= c
               /\ c >= 0 => 2 ^ c \in Nat \ {0} /\ n \in a * 2 ^ c .. a * 2 ^ c + 2 ^ c - 1
               /\ c < 0 => 2 ^ (-c) \in Nat \ {0} /\ a = n * 2 ^ (-c)
  BY <1>1, <1>3, <1>4, Aligning
<1>5. \A c \in Nat : c > 0 /\ c <= LONG_WIDTH => 2 ^ c \in Nat /\ 2 ^ c >= 2
  <2> SUFFICES ASSUME NEW c \in Nat, c > 0, c <= LONG_WIDTH
               PROVE  2 ^ c \in Nat /\ 2 ^ c >= 2
    OBVIOUS
  <2>1. KnownPower(c) /\ 1 \in Nat /\ 1 <= c
    BY FloatFacts
  <2> QED BY <1>2, <2>1, PowersOrdered, PowersKnown
<1>6. F.m \in Nat /\ F.m <= LONG_WIDTH /\ LONG_WIDTH \in Nat
  BY FloatFacts
<1>7. ASSUME n \in p .. 2 * p - 1
      PROVE  Carry(F, n) = 0 /\ Aligned(n, 0) = n
  <2>1. PICK c \in Int, a \in p .. 2 * p - 1 :
               /\ c = Carry(F, n) /\ a = Aligned(n, c) /\ c < LONG_WIDTH /\ -F.m <= c
               /\ c >= 0 => 2 ^ c \in Nat \ {0} /\ n \in a * 2 ^ c .. a * 2 ^ c + 2 ^ c - 1
               /\ c < 0 => 2 ^ (-c) \in Nat \ {0} /\ a = n * 2 ^ (-c)
    BY <1>4, <1>7
  <2>2. ASSUME c > 0
        PROVE  FALSE
    <3>1. PICK q \in Nat : q = 2 ^ c /\ q >= 2 /\ n >= a * q
      <4>1. c \in Nat /\ c <= LONG_WIDTH /\ c > 0 /\ c >= 0
        BY <1>6, <2>1, <2>2
      <4> QED BY <1>5, <2>1, <4>1
    <3>2. a * q >= a * 2
      BY <3>1
    <3> QED BY <1>7, <2>1, <3>1, <3>2
  <2>3. ASSUME c < 0
        PROVE  FALSE
    <3>1. PICK d \in Nat : d = -c /\ d > 0 /\ d <= LONG_WIDTH
      BY <1>6, <2>1, <2>3
    <3>2. PICK q \in Nat : q = 2 ^ d /\ q >= 2 /\ a = n * q
      BY <1>5, <2>1, <2>3, <3>1
    <3>3. n * q >= n * 2
      BY <3>2
    <3> QED BY <1>7, <2>1, <3>2, <3>3
  <2>4. c = 0
    BY <2>2, <2>3
  <2>5. n \in a * 1 .. a * 1 + 1 - 1
    BY <1>2, <2>1, <2>4
  <2>6. n = a
    BY <2>1, <2>5
  <2> QED BY <2>1, <2>4, <2>6
<1>8. ASSUME n < p, 2 * n >= p
      PROVE  Carry(F, n) = -1 /\ Aligned(n, -1) = 2 * n
  <2>1. PICK c \in Int, a \in p .. 2 * p - 1 :
               /\ c = Carry(F, n) /\ a = Aligned(n, c) /\ c < LONG_WIDTH /\ -F.m <= c
               /\ c >= 0 => 2 ^ c \in Nat \ {0} /\ n \in a * 2 ^ c .. a * 2 ^ c + 2 ^ c - 1
               /\ c < 0 => 2 ^ (-c) \in Nat \ {0} /\ a = n * 2 ^ (-c)
    <3>1. n < 2 * p
      BY <1>8
    <3> QED BY <1>4, <3>1
  <2>2. ASSUME c >= 0
        PROVE  FALSE
    <3>1. PICK q \in Nat \ {0} : q = 2 ^ c /\ n >= a * q
      <4>1. 2 ^ c \in Nat \ {0} /\ n \in a * 2 ^ c .. a * 2 ^ c + 2 ^ c - 1
        BY <2>1, <2>2
      <4> QED BY <4>1
    <3>2. a * q >= a
      BY <2>1
    <3> QED BY <1>8, <2>1, <3>1, <3>2
  <2>3. ASSUME c < -1
        PROVE  FALSE
    <3>1. PICK d \in Nat : d = -c /\ d > 1 /\ d - 1 \in Nat /\ d - 1 > 0 /\ d <= LONG_WIDTH /\ (d - 1) + 1 = d
      BY <1>6, <2>1, <2>3
    <3>2. PICK q \in Nat : q = 2 ^ (d - 1) /\ q >= 2
      BY <1>5, <1>6, <3>1
    <3>3. KnownPower((d - 1) + 1) /\ 1 \in Nat
      BY <1>6, <3>1, FloatFacts
    <3>4. 2 ^ ((d - 1) + 1) = 2 ^ (d - 1) * 2 ^ 1
      BY <3>1, <3>3, PowersKnown
    <3>5. a = n * (q * 2)
      BY <1>2, <2>1, <2>3, <3>1, <3>2, <3>4
    <3>6. n * (q * 2) = (2 * n) * q /\ (2 * n) * q >= (2 * n) * 2
      BY <3>2
    <3> QED BY <1>8, <2>1, <3>5, <3>6
  <2>4. c = -1 /\ c < 0
    BY <2>1, <2>2, <2>3
  <2>5. PICK d \in Nat : d = -c /\ d = 1
    BY <2>4
  <2>6. a = n * 2 ^ d
    BY <2>1, <2>4, <2>5
  <2>7. a = n * 2
    BY <1>2, <2>5, <2>6
  <2> QED BY <2>1, <2>4, <2>7
<1> QED BY <1>1, <1>3, <1>7, <1>8

\* A normal number and its parts.
NormalParts(F, w, M, k) ==
  /\ w \in AWord /\ M \in 2 ^ F.m .. 2 * 2 ^ F.m - 1 /\ k \in 0 .. Top(F) - 2
  /\ M = Mant(F, w) /\ Exp(F, w) \in Int /\ k = Exp(F, w) - 1 + Bias(F)
  /\ Absolute(Multiple(F, w)) = M * 2 ^ k

\* Every normal number has these parts.
LEMMA Normal ==
  ASSUME NEW F \in {F16, BF16}, NEW w \in AWord, Class(F, w) = "NORMAL"
  PROVE  \E M, k \in Nat : NormalParts(F, w, M, k)
<1>1. exponent(F, w) # 0 /\ exponent(F, w) # Top(F)
  BY FloatFacts DEF Class
<1>2. PICK p \in Nat \ {0}, b \in Nat \ {0} : p = 2 ^ F.m /\ b = Bias(F) /\ Top(F) = 2 * b + 1
  BY FloatFacts
<1>3. F \in AnyFormat
  BY DEF AnyFormat
<1>4. mantissa(F, w) \in 0 .. p - 1 /\ exponent(F, w) \in 0 .. Top(F)
  BY <1>2, <1>3, Fields
<1>5. /\ Mant(F, w) = p + mantissa(F, w) /\ Exp(F, w) = exponent(F, w) - b
      /\ Unit(F, w) \in Nat \ {0}
      /\ Multiple(F, w) = IF sign(F, w) = 1 THEN -(Mant(F, w) * Unit(F, w)) ELSE Mant(F, w) * Unit(F, w)
  BY <1>1, <1>2, Unpacked
<1>6. PICK M \in p .. 2 * p - 1, k \in 0 .. Top(F) - 2 : M = Mant(F, w) /\ k = Exp(F, w) - 1 + b
  BY <1>1, <1>2, <1>4, <1>5
<1>7. M \in Nat /\ k \in Nat
  BY <1>6
<1>8. Unit(F, w) = 2 ^ k
  BY <1>2, <1>6 DEF Unit
<1>9. PICK n \in Nat : n = M * 2 ^ k /\ Multiple(F, w) = IF sign(F, w) = 1 THEN -n ELSE n
  BY <1>5, <1>6, <1>7, <1>8
<1>10. Absolute(Multiple(F, w)) = n
  BY <1>9 DEF Absolute
<1>11. Exp(F, w) \in Int
  BY <1>2, <1>4, <1>5
<1> QED BY <1>2, <1>6, <1>7, <1>9, <1>10, <1>11 DEF NormalParts

\* n is a multiple of G and a rest, times any factor.
ScaledUp(n, a, G, u) == Scaled(n, a, G, u) /\ \A y \in Nat \ {0} : Scaled(n * y, a, G * y, u)

\* A rest of less than u times G leaves it so.
LEMMA ScaledBy ==
  ASSUME NEW a \in Nat, NEW r \in Nat, NEW G \in Nat \ {0}, NEW n \in Nat, NEW u \in Nat \ {0},
         n = a * G + r, r < u * G
  PROVE  ScaledUp(n, a, G, u)
<1>1. PICK A \in Nat, U \in Nat : A = a * G /\ U = u * G
  OBVIOUS
<1>2. Scaled(n, a, G, u)
  <2>1. n \in A .. A + U - 1
    BY <1>1
  <2> QED BY <1>1, <2>1 DEF Scaled
<1>3. ASSUME NEW y \in Nat \ {0}
      PROVE  Scaled(n * y, a, G * y, u)
  <2>1. n * y = A * y + r * y
    BY <1>1
  <2>2. r + 1 <= U
    BY <1>1
  <2>3. (r + 1) * y <= U * y
    BY <2>2
  <2>4. (r + 1) * y = r * y + y /\ A * y \in Nat /\ r * y \in Nat /\ U * y \in Nat
    OBVIOUS
  <2>5. a * (G * y) = A * y /\ u * (G * y) = U * y
    BY <1>1
  <2>6. n * y \in A * y .. A * y + U * y - 1
    BY <2>1, <2>3, <2>4
  <2> QED BY <2>5, <2>6 DEF Scaled
<1> QED BY <1>2, <1>3 DEF ScaledUp

\* The law of products, for normal operands.
LEMMA ProductRounded ==
  ASSUME NEW F \in {F16, BF16}, NEW a \in AWord, NEW b \in AWord,
         Class(F, a) = "NORMAL", Class(F, b) = "NORMAL", NEW w, w = ProductOfFinite(F, a, b)
  PROVE  /\ w \in AWord /\ sign(F, w) = Signs(F, a, b)
         /\ Rounded(F, w, Absolute(Multiple(F, a)) * Absolute(Multiple(F, b)), 2 ^ (F.m + Bias(F) - 1), 1)
<1>1. PICK p \in Nat \ {0}, B \in Nat \ {0}, m \in Nat \ {0} :
        p = 2 ^ F.m /\ B = Bias(F) /\ m = F.m /\ Top(F) = 2 * B + 1
  BY FloatFacts
<1>2. PICK Ma \in p .. 2 * p - 1, ka \in 0 .. 2 * B - 1 : NormalParts(F, a, Ma, ka)
  BY <1>1, Normal DEF NormalParts
<1>3. PICK Mb \in p .. 2 * p - 1, kb \in 0 .. 2 * B - 1 : NormalParts(F, b, Mb, kb)
  BY <1>1, Normal DEF NormalParts
<1>4. \A i \in Nat : i <= 2 * B + m + 2 => KnownPower(i)
  BY <1>1, FloatFacts
<1>5. PICK n \in Nat : n = Ma * Mb /\ n >= p * p /\ n < (2 * p) * (2 * p)
  <2>1. p * p <= Ma * Mb /\ Ma * Mb < (2 * p) * (2 * p)
    <3>1. Ma * Mb >= p * Mb /\ p * Mb >= p * p
      OBVIOUS
    <3>2. Ma * Mb <= (2 * p) * Mb /\ (2 * p) * Mb < (2 * p) * (2 * p)
      OBVIOUS
    <3> QED BY <3>1, <3>2
  <2> QED BY <2>1
<1>6. 2 ^ (2 * m + 1) = 2 * (p * p)
  <2>1. m + m \in Nat /\ 1 \in Nat /\ KnownPower((m + m) + 1)
    <3>1. (m + m) + 1 <= LONG_WIDTH + 1 /\ LONG_WIDTH \in Nat
      <4>1. 1 + F.e + F.m = WIDTH /\ F.e \in Nat /\ LONG_WIDTH >= 2 * WIDTH /\ LONG_WIDTH \in Nat
        BY FormatAssumption
      <4> QED BY <1>1, <4>1
    <3> QED BY <3>1, FloatFacts
  <2>2. 2 ^ ((m + m) + 1) = 2 ^ (m + m) * 2 ^ 1 /\ KnownPower(m + m)
    BY <2>1, PowersKnown
  <2>3. 2 ^ (m + m) = 2 ^ m * 2 ^ m
    BY <2>2, PowersKnown
  <2>4. 2 ^ 1 = 2 /\ (m + m) + 1 = 2 * m + 1 /\ (p * p) * 2 = 2 * (p * p)
    BY PowerAssumption, WordFacts
  <2> QED BY <1>1, <2>2, <2>3, <2>4
<1>7. PICK c \in {0, 1}, C \in {1, 2} :
        /\ c = (IF n >= 2 * (p * p) THEN 1 ELSE 0) /\ C = c + 1 /\ C = 2 ^ c
        /\ 2 ^ (m + c) = p * C
  <2>1. 2 ^ 0 = 1 /\ 2 ^ 1 = 2
    BY PowerAssumption, WordFacts
  <2>2. \A c \in {0, 1} : c \in Nat /\ KnownPower(m + c)
    BY <1>1, <1>4
  <2>3. \A c \in {0, 1} : 2 ^ (m + c) = 2 ^ m * 2 ^ c
    BY <1>1, <2>2, PowersKnown
  <2>4. PICK c \in {0, 1} : c = IF n >= 2 * (p * p) THEN 1 ELSE 0
    OBVIOUS
  <2> QED BY <1>1, <2>1, <2>3, <2>4
<1>8. PICK q \in Nat \ {0} : q = p * C
  <2>1. p * C >= p
    OBVIOUS
  <2> QED BY <2>1
<1>9. PICK A \in Nat, r \in 0 .. q - 1 : A = n \div q /\ n = A * q + r
  <2>1. n = (n \div q) * q + (n % q) /\ n \div q \in Nat /\ n % q \in 0 .. q - 1
    BY DividedParts
  <2> QED BY <2>1
<1>10. A \in p .. 2 * p - 1
  <2>1. p * q <= n /\ n < (2 * p) * q
    <3>1. CASE c = 0
      <4>1. q = p /\ ~(n >= 2 * (p * p))
        BY <1>7, <1>8, <3>1
      <4>2. (2 * p) * p = 2 * (p * p) /\ p * p \in Nat
        OBVIOUS
      <4> QED BY <1>5, <4>1, <4>2
    <3>2. CASE c = 1
      <4>1. q = p * 2 /\ n >= 2 * (p * p)
        BY <1>7, <1>8, <3>2
      <4>2. (2 * p) * (p * 2) = (2 * p) * (2 * p) /\ p * (p * 2) = 2 * (p * p) /\ p * p \in Nat
        OBVIOUS
      <4> QED BY <1>5, <4>1, <4>2
    <3> QED BY <3>1, <3>2
  <2>2. A >= p
    <3> SUFFICES ASSUME A + 1 <= p
                 PROVE  FALSE
      OBVIOUS
    <3>1. (A + 1) * q <= p * q /\ (A + 1) * q = A * q + q /\ A * q \in Nat /\ p * q \in Nat
      OBVIOUS
    <3> QED BY <1>9, <2>1, <3>1
  <2>3. A < 2 * p
    <3> SUFFICES ASSUME A >= 2 * p
                 PROVE  FALSE
      OBVIOUS
    <3>1. A * q >= (2 * p) * q /\ A * q \in Nat /\ (2 * p) * q \in Nat
      OBVIOUS
    <3> QED BY <1>9, <2>1, <3>1
  <2> QED BY <2>2, <2>3
<1>11. PICK s \in {0, 1} : s = Signs(F, a, b)
  <2>1. F \in AnyFormat
    BY DEF AnyFormat
  <2>2. sign(F, a) \in {0, 1} /\ sign(F, b) \in {0, 1}
    BY <2>1, Fields
  <2> QED BY <2>2 DEF Signs
<1>12. PICK x \in Int : x = Exp(F, a) + Exp(F, b) + c /\ x = ka + kb + c + 2 - 2 * B
  <2>1. Exp(F, a) \in Int /\ Exp(F, b) \in Int
    BY <1>2, <1>3 DEF NormalParts
  <2>2. ka = Exp(F, a) - 1 + B /\ kb = Exp(F, b) - 1 + B
    BY <1>1, <1>2, <1>3 DEF NormalParts
  <2>3. Exp(F, a) = ka + 1 - B /\ Exp(F, b) = kb + 1 - B
    BY <2>1, <2>2
  <2> QED BY <2>3
<1>13. w = Pack(F, s, x, A)
  BY <1>1, <1>2, <1>3, <1>5, <1>6, <1>7, <1>8, <1>9, <1>11, <1>12 DEF ProductOfFinite, NormalParts
<1>14. A \in Nat \ {0} /\ A < 2 ^ LONG_WIDTH /\ Carry(F, A) = 0 /\ Aligned(A, 0) = A
  <2>1. A \in Nat \ {0} /\ A < 2 * 2 ^ F.m /\ A \in 2 ^ F.m .. 2 * 2 ^ F.m - 1
    BY <1>1, <1>10
  <2> QED BY <2>1, Carries
<1>15. PICK j \in Nat, h \in Nat :
         /\ j = ka + c /\ h = B - 1
         /\ KnownPower(j) /\ KnownPower(kb) /\ KnownPower(h) /\ ka \in Nat /\ kb \in Nat /\ c \in Nat
  <2>1. ka + c \in Nat /\ kb \in Nat /\ B - 1 \in Nat /\ ka \in Nat /\ c \in Nat
    OBVIOUS
  <2>2. ka + c <= 2 * B + m + 2 /\ kb <= 2 * B + m + 2 /\ B - 1 <= 2 * B + m + 2
    OBVIOUS
  <2> QED BY <1>4, <2>1, <2>2
<1>16. PICK Ua \in Nat \ {0}, Ub \in Nat \ {0}, V \in Nat \ {0}, H \in Nat \ {0} :
         /\ Ua = 2 ^ ka /\ Ub = 2 ^ kb /\ V = 2 ^ j /\ V = Ua * C /\ H = 2 ^ h
  <2>1. 2 ^ j = 2 ^ ka * 2 ^ c /\ KnownPower(ka)
    BY <1>15, PowersKnown
  <2> QED BY <1>7, <1>15, <2>1, PowersKnown
<1>17. PICK v \in Nat : v = (Ma * Ua) * (Mb * Ub)
                       /\ v = Absolute(Multiple(F, a)) * Absolute(Multiple(F, b))
  <2>1. Ma * Ua \in Nat /\ Mb * Ub \in Nat
    OBVIOUS
  <2>2. (Ma * Ua) * (Mb * Ub) \in Nat
    BY <2>1
  <2> QED BY <1>2, <1>3, <1>16, <2>2 DEF NormalParts
<1>18. PICK W \in Nat \ {0} : W = 2 ^ (F.m + Bias(F) - 1) /\ W = p * H
  <2>1. m + h \in Nat /\ m + h <= 2 * B + m + 2 /\ m + h = F.m + Bias(F) - 1
    BY <1>1, <1>15
  <2>2. 2 ^ (m + h) = 2 ^ m * 2 ^ h /\ 2 ^ (m + h) \in Nat \ {0}
    BY <1>4, <1>15, <2>1, PowersKnown
  <2> QED BY <1>1, <1>16, <2>1, <2>2
<1>19. PICK G \in Nat \ {0} : G = p * (V * Ub) /\ G = q * (Ua * Ub)
  <2>1. p * (V * Ub) = (p * C) * (Ua * Ub) /\ p * (V * Ub) \in Nat \ {0}
    BY <1>16
  <2> QED BY <1>8, <2>1
<1>20. ScaledUp(v, A, G, 1) /\ v >= A * G
  <2>1. PICK z \in Nat \ {0} : z = Ua * Ub
    OBVIOUS
  <2>2. v = n * z
    <3>1. (Ma * Ua) * (Mb * Ub) = (Ma * Mb) * (Ua * Ub)
      OBVIOUS
    <3> QED BY <1>5, <1>17, <2>1, <3>1
  <2>3. n * z = A * (q * z) + r * z
    <3>1. (A * q + r) * z = A * (q * z) + r * z
      OBVIOUS
    <3> QED BY <1>9, <3>1
  <2>4. r * z \in Nat /\ r * z < 1 * (q * z)
    <3>1. r * z < q * z
      OBVIOUS
    <3> QED BY <3>1
  <2>5. PICK o \in Nat : o = r * z
    BY <2>4
  <2>6. v = A * G + o /\ o < 1 * G
    BY <1>19, <2>1, <2>2, <2>3, <2>4, <2>5
  <2>7. v >= A * G
    <3>1. A * G \in Nat
      OBVIOUS
    <3> QED BY <2>6, <3>1
  <2>8. 1 \in Nat \ {0}
    OBVIOUS
  <2> QED BY <2>6, <2>7, <2>8, ScaledBy
<1>21. ASSUME x > Bias(F)
       PROVE  v >= (2 * 2 ^ F.m) * (2 ^ (Top(F) - 2) * W)
  <2>1. PICK e \in Nat : e = ka + c + kb - (3 * B - 1) /\ e <= B
    BY <1>1, <1>12, <1>21
  <2>2. PICK g \in Nat, l \in Nat :
          /\ g = h + e /\ l = 2 * B /\ j + kb = l + g
          /\ l <= 2 * B + m + 2 /\ g <= 2 * B + m + 2 /\ h <= g
    BY <1>15, <2>1
  <2>3. KnownPower(l) /\ KnownPower(g)
    BY <1>4, <2>2
  <2>4. Balanced(j, kb, l, g)
    BY <1>15, <2>2, <2>3, PowersBalance
  <2>5. 2 ^ g >= H /\ 2 ^ g \in Nat /\ 2 ^ l \in Nat
    BY <1>15, <1>16, <2>2, <2>3, PowersOrdered, PowersKnown
  <2>6. PICK L \in Nat \ {0} : L = 2 ^ (Top(F) - 2) /\ 2 ^ l = 2 * L
    <3>1. Top(F) - 2 \in Nat /\ 1 \in Nat /\ (Top(F) - 2) + 1 = l
      BY <1>1, <2>2
    <3>2. 2 ^ ((Top(F) - 2) + 1) = 2 ^ (Top(F) - 2) * 2 ^ 1 /\ KnownPower(Top(F) - 2)
      BY <2>3, <3>1, PowersKnown
    <3>3. 2 ^ 1 = 2
      BY PowerAssumption, WordFacts
    <3>4. 2 ^ (Top(F) - 2) \in Nat \ {0}
      BY <3>1, <3>2, PowersKnown
    <3> QED BY <3>1, <3>2, <3>3, <3>4
  <2>7. PICK y \in Nat : y = 2 ^ g /\ y >= H /\ V * Ub = (2 * L) * y
    BY <1>16, <2>4, <2>5, <2>6 DEF Balanced
  <2>8. A * G >= (2 * p) * (L * W)
    <3>1. (2 * L) * y >= (2 * L) * H
      BY <2>7
    <3>2. G >= p * ((2 * L) * H)
      BY <1>19, <2>7, <3>1
    <3>3. p * ((2 * L) * H) = (2 * L) * W
      BY <1>18
    <3>4. A * G >= p * G
      BY <1>10
    <3>5. p * G >= p * ((2 * L) * W)
      BY <3>2, <3>3
    <3>6. p * ((2 * L) * W) = (2 * p) * (L * W)
      OBVIOUS
    <3>7. A * G \in Nat /\ p * G \in Nat /\ (2 * p) * (L * W) \in Nat
      OBVIOUS
    <3> QED BY <3>4, <3>5, <3>6, <3>7
  <2> QED BY <1>1, <1>20, <2>6, <2>8
<1>22. ASSUME x \in 1 - Bias(F) .. Bias(F)
       PROVE  Scaled(v, A, 2 ^ (x - 1 + Bias(F)) * W, 1)
  <2>1. PICK k \in Nat : k = x - 1 + Bias(F) /\ j + kb = k + h /\ k <= 2 * B + m + 2
    BY <1>1, <1>12, <1>15, <1>22
  <2>2. Balanced(j, kb, k, h)
    BY <1>4, <1>15, <2>1, PowersBalance
  <2>3. PICK K \in Nat : K = 2 ^ k /\ V * Ub = K * H
    BY <1>4, <1>16, <2>1, <2>2, PowersKnown DEF Balanced
  <2>4. G = K * W
    <3>1. p * (K * H) = K * (p * H)
      OBVIOUS
    <3> QED BY <1>18, <1>19, <2>3, <3>1
  <2> QED BY <1>20, <2>1, <2>3, <2>4 DEF ScaledUp
<1>23. ASSUME x < 1 - Bias(F)
       PROVE  KnownPower(1 - Bias(F) - x) /\ Scaled(v * 2 ^ (1 - Bias(F) - x), A, W, 1)
  <2>1. PICK e \in Nat : e = 1 - Bias(F) - x /\ e + (j + kb) = h
    BY <1>1, <1>12, <1>15, <1>23
  <2>2. j + kb \in Nat /\ KnownPower(e + (j + kb))
    BY <1>15, <2>1
  <2>3. /\ 2 ^ (e + (j + kb)) = 2 ^ e * 2 ^ (j + kb)
        /\ KnownPower(e) /\ KnownPower(j + kb)
    BY <2>2, PowersKnown
  <2>4. 2 ^ (j + kb) = 2 ^ j * 2 ^ kb
    BY <1>15, <2>3, PowersKnown
  <2>5. PICK y \in Nat \ {0} : y = 2 ^ e /\ H = y * (V * Ub)
    BY <1>16, <2>1, <2>3, <2>4, PowersKnown
  <2>6. G * y = W
    <3>1. (p * (V * Ub)) * y = p * (y * (V * Ub))
      OBVIOUS
    <3> QED BY <1>18, <1>19, <2>5, <3>1
  <2> QED BY <1>20, <2>1, <2>3, <2>5, <2>6 DEF ScaledUp
<1>24. x = x + Carry(F, A) /\ A = Aligned(A, Carry(F, A)) /\ 1 \in {1, 2} /\ 1 # 2
  BY <1>12, <1>14
<1>25. PackedIs(F, s, x, A, v, W, 1)
  BY ZenonT(60), <1>14, <1>21, <1>22, <1>23, <1>24, RoundedPack
<1> QED BY <1>11, <1>13, <1>17, <1>18, <1>25 DEF PackedIs

\* The law of quotients, for normal operands: one more bit is lost where the
\* mantissa of the dividend is the smaller one.
LEMMA QuotientRounded ==
  ASSUME NEW F \in {F16, BF16}, NEW a \in AWord, NEW b \in AWord,
         Class(F, a) = "NORMAL", Class(F, b) = "NORMAL", NEW w, w = QuotientOfFinite(F, a, b)
  PROVE  /\ w \in AWord /\ sign(F, w) = Signs(F, a, b)
         /\ \E u \in {1, 2} :
              Rounded(F, w, Absolute(Multiple(F, a)) * 2 ^ (F.m + Bias(F) - 1), Absolute(Multiple(F, b)), u)
<1>1. PICK p \in Nat \ {0}, B \in Nat \ {0}, m \in Nat \ {0} :
        p = 2 ^ F.m /\ B = Bias(F) /\ m = F.m /\ Top(F) = 2 * B + 1
  BY FloatFacts
<1>2. PICK Ma \in p .. 2 * p - 1, ka \in 0 .. 2 * B - 1 : NormalParts(F, a, Ma, ka)
  BY <1>1, Normal DEF NormalParts
<1>3. PICK Mb \in p .. 2 * p - 1, kb \in 0 .. 2 * B - 1 : NormalParts(F, b, Mb, kb)
  BY <1>1, Normal DEF NormalParts
<1>4. \A i \in Nat : i <= 2 * B + m + 2 => KnownPower(i)
  BY <1>1, FloatFacts
<1>5. PICK P \in Nat \ {0} : p = 2 * P
  <2>1. m - 1 \in Nat /\ (m - 1) + 1 = m /\ KnownPower(m) /\ 1 \in Nat
    <3>1. m <= 2 * B + m + 2 /\ m - 1 \in Nat /\ (m - 1) + 1 = m
      OBVIOUS
    <3> QED BY <1>4, <3>1
  <2>2. KnownPower((m - 1) + 1)
    BY <2>1
  <2>3. 2 ^ ((m - 1) + 1) = 2 ^ (m - 1) * 2 ^ 1 /\ KnownPower(m - 1)
    BY <2>1, <2>2, PowersKnown
  <2>4. 2 ^ 1 = 2 /\ 2 ^ (m - 1) \in Nat \ {0}
    BY <2>1, <2>3, PowerAssumption, WordFacts, PowersKnown
  <2> QED BY <1>1, <2>1, <2>3, <2>4
<1>6. PICK n \in Nat : n = Ma * p /\ n >= p * p /\ n < (2 * p) * p
  <2>1. p * p <= Ma * p /\ Ma * p < (2 * p) * p
    OBVIOUS
  <2> QED BY <2>1
<1>7. PICK q \in Nat, r \in 0 .. Mb - 1 : q = n \div Mb /\ n = q * Mb + r
  <2>1. Mb \in Nat \ {0}
    OBVIOUS
  <2>2. n = (n \div Mb) * Mb + (n % Mb) /\ n \div Mb \in Nat /\ n % Mb \in 0 .. Mb - 1
    BY <2>1, DividedParts
  <2> QED BY <2>2
<1>8. q < 2 * p
  <2> SUFFICES ASSUME q >= 2 * p
               PROVE  FALSE
    OBVIOUS
  <2>1. q * Mb >= (2 * p) * Mb
    OBVIOUS
  <2>2. (2 * p) * Mb >= (2 * p) * p
    OBVIOUS
  <2>3. q * Mb \in Nat /\ (2 * p) * Mb \in Nat /\ (2 * p) * p \in Nat
    OBVIOUS
  <2> QED BY <1>6, <1>7, <2>1, <2>2, <2>3
<1>9. q >= P
  <2> SUFFICES ASSUME q + 1 <= P
               PROVE  FALSE
    OBVIOUS
  <2>1. (q + 1) * Mb <= P * Mb
    OBVIOUS
  <2>2. P * Mb < P * (2 * p)
    OBVIOUS
  <2>3. P * (2 * p) = p * p * 1
    <3>1. P * (2 * p) = (2 * P) * p
      OBVIOUS
    <3> QED BY <1>5, <3>1
  <2>4. (q + 1) * Mb = q * Mb + Mb /\ q * Mb \in Nat /\ P * Mb \in Nat /\ P * (2 * p) \in Nat /\ p * p \in Nat
    OBVIOUS
  <2> QED BY <1>6, <1>7, <2>1, <2>2, <2>3, <2>4
<1>10. PICK d \in {0, 1}, D \in {1, 2}, A \in p .. 2 * p - 1 :
         /\ d = (IF q >= p THEN 0 ELSE 1) /\ D = d + 1 /\ D = 2 ^ d /\ A = q * D
  <2>1. 2 ^ 0 = 1 /\ 2 ^ 1 = 2
    BY PowerAssumption, WordFacts
  <2> QED BY <1>5, <1>8, <1>9, <2>1
<1>11. PICK s \in {0, 1} : s = Signs(F, a, b)
  <2>1. F \in AnyFormat
    BY DEF AnyFormat
  <2>2. sign(F, a) \in {0, 1} /\ sign(F, b) \in {0, 1}
    BY <2>1, Fields
  <2> QED BY <2>2 DEF Signs
<1>12. PICK X \in Int : X = Exp(F, a) - Exp(F, b) /\ X = ka - kb
  <2>1. Exp(F, a) \in Int /\ Exp(F, b) \in Int
    BY <1>2, <1>3 DEF NormalParts
  <2>2. ka = Exp(F, a) - 1 + B /\ kb = Exp(F, b) - 1 + B
    BY <1>1, <1>2, <1>3 DEF NormalParts
  <2> QED BY <2>1, <2>2
<1>13. w = Pack(F, s, X, q)
  <2>1. Mb \in Nat \ {0} /\ Mb \in 2 ^ F.m .. 2 * 2 ^ F.m - 1
    BY <1>1
  <2>2. Carry(F, Mb) = 0
    BY <2>1, Carries
  <2>3. Msb(Mb) = m
    <3>1. Mb < 2 ^ LONG_WIDTH
      BY <1>1, <2>1, Carries
    <3>2. PICK k \in 0 .. LONG_WIDTH - 1 : k + 1 = LONG_WIDTH
      BY FormatAssumption, WidthAssumption
    <3>3. Mb < 2 ^ (k + 1)
      BY <3>1, <3>2
    <3>4. Msb(Mb) \in 0 .. k
      BY <2>1, <3>3, HighestBit
    <3>5. PICK z \in Nat : z = Msb(Mb)
      BY <3>4
    <3>6. z - m = 0
      BY <1>1, <2>2, <3>5 DEF Carry
    <3> QED BY <3>5, <3>6
  <2>4. F.m - Msb(Mant(F, b)) = 0
    <3>1. m - m = 0 /\ Mb = Mant(F, b)
      BY <1>3 DEF NormalParts
    <3> QED BY <1>1, <2>3, <3>1
  <2>5. F.m + 0 = m /\ 2 ^ 0 = 1
    <3>1. m + 0 = m
      OBVIOUS
    <3> QED BY <1>1, <3>1, PowerAssumption
  <2>6. Mb * 1 = Mb /\ X - 0 = X
    OBVIOUS
  <2>7. w = Pack(F, s, X - 0, (Ma * p) \div (Mb * 1))
    BY <1>1, <1>2, <1>3, <1>11, <1>12, <2>4, <2>5 DEF QuotientOfFinite, NormalParts
  <2> QED BY <1>6, <1>7, <2>6, <2>7
<1>14. q \in Nat \ {0} /\ q < 2 ^ LONG_WIDTH /\ Carry(F, q) = 0 - d /\ Aligned(q, Carry(F, q)) = A
  <2>1. q \in Nat \ {0}
    BY <1>9
  <2>2. q < 2 ^ LONG_WIDTH
    BY <1>1, <1>8, <2>1, Carries
  <2>3. CASE d = 0
    <3>1. q \in 2 ^ F.m .. 2 * 2 ^ F.m - 1 /\ A = q
      BY <1>1, <1>8, <1>10, <2>3
    <3> QED BY <2>1, <2>2, <2>3, <3>1, Carries
  <2>4. CASE d = 1
    <3>1. q < 2 ^ F.m /\ 2 * q >= 2 ^ F.m /\ A = 2 * q
      BY <1>1, <1>5, <1>9, <1>10, <2>4
    <3>2. Carry(F, q) = -1 /\ Aligned(q, Carry(F, q)) = A
      BY <2>1, <3>1, Carries
    <3>3. -1 = 0 - d
      BY <2>4
    <3> QED BY <2>1, <2>2, <3>2, <3>3
  <2> QED BY <2>3, <2>4
<1>15. PICK x \in Int : x = X + Carry(F, q) /\ x = ka - kb - d
  <2>1. X + (0 - d) \in Int /\ X + (0 - d) = ka - kb - d
    BY <1>12
  <2> QED BY <1>14, <2>1
<1>16. PICK j \in Nat, h \in Nat :
         /\ j = kb + d /\ h = B - 1
         /\ KnownPower(j) /\ KnownPower(ka) /\ KnownPower(h) /\ ka \in Nat /\ kb \in Nat /\ d \in Nat
  <2>1. kb + d \in Nat /\ kb \in Nat /\ B - 1 \in Nat /\ ka \in Nat /\ d \in Nat
    OBVIOUS
  <2>2. kb + d <= 2 * B + m + 2 /\ ka <= 2 * B + m + 2 /\ B - 1 <= 2 * B + m + 2
    OBVIOUS
  <2> QED BY <1>4, <2>1, <2>2
<1>17. PICK Ua \in Nat \ {0}, Ub \in Nat \ {0}, H \in Nat \ {0} :
         Ua = 2 ^ ka /\ Ub = 2 ^ kb /\ 2 ^ j = Ub * D /\ H = 2 ^ h
  <2>1. 2 ^ j = 2 ^ kb * 2 ^ d /\ KnownPower(kb)
    BY <1>16, PowersKnown
  <2> QED BY <1>10, <1>16, <2>1, PowersKnown
<1>18. 2 ^ (F.m + Bias(F) - 1) = p * H
  <2>1. m + h \in Nat /\ m + h <= 2 * B + m + 2 /\ m + h = F.m + Bias(F) - 1
    BY <1>1, <1>16
  <2>2. 2 ^ (m + h) = 2 ^ m * 2 ^ h
    BY <1>4, <1>16, <2>1, PowersKnown
  <2> QED BY <1>1, <1>17, <2>1, <2>2
<1>19. PICK v \in Nat : v = (Ma * Ua) * (p * H)
                       /\ v = Absolute(Multiple(F, a)) * 2 ^ (F.m + Bias(F) - 1)
  <2>1. Ma * Ua \in Nat /\ p * H \in Nat
    OBVIOUS
  <2>2. (Ma * Ua) * (p * H) \in Nat
    BY <2>1
  <2> QED BY <1>2, <1>17, <1>18, <2>2 DEF NormalParts
<1>20. PICK W \in Nat \ {0} : W = Mb * Ub /\ W = Absolute(Multiple(F, b))
  <2>1. Mb * Ub \in Nat \ {0}
    OBVIOUS
  <2> QED BY <1>3, <1>17, <2>1 DEF NormalParts
<1>21. ASSUME NEW y \in Nat \ {0}, NEW Y \in Nat \ {0}, (Ua * H) * y = (Ub * D) * Y
       PROVE  Scaled(v * y, A, Y * W, D) /\ v * y >= A * (Y * W)
  <2>1. v * y = (Ma * p) * ((Ua * H) * y)
    BY <1>19
  <2>2. PICK z \in Nat \ {0} : z = (Ub * D) * Y
    OBVIOUS
  <2>3. v * y = (q * Mb + r) * z
    BY <1>6, <1>7, <1>21, <2>1, <2>2
  <2>4. (q * Mb + r) * z = (q * Mb) * z + r * z
    OBVIOUS
  <2>5. (q * Mb) * z = A * (Y * W)
    <3>1. (q * Mb) * ((Ub * D) * Y) = (q * D) * (Y * (Mb * Ub))
      OBVIOUS
    <3> QED BY <1>10, <1>20, <2>2, <3>1
  <2>6. PICK G \in Nat \ {0} : G = Y * W
    <3>1. Y * W \in Nat \ {0}
      OBVIOUS
    <3> QED BY <3>1
  <2>7. Mb * z = D * G
    <3>1. Mb * ((Ub * D) * Y) = D * (Y * (Mb * Ub))
      OBVIOUS
    <3> QED BY <1>20, <2>2, <2>6, <3>1
  <2>8. r * z < D * G /\ r * z \in Nat
    <3>1. r * z < Mb * z /\ r * z \in Nat
      OBVIOUS
    <3> QED BY <2>7, <3>1
  <2>9. A \in Nat
    OBVIOUS
  <2>10. PICK S \in Nat, T \in Nat, o \in Nat : S = A * G /\ T = D * G /\ o = r * z
    BY <2>8, <2>9
  <2>11. v * y = S + o /\ o < T
    BY <2>3, <2>4, <2>5, <2>6, <2>8, <2>10
  <2>12. v * y \in S .. S + T - 1 /\ v * y >= S
    BY <2>11
  <2> QED BY <2>6, <2>10, <2>12 DEF Scaled
<1>22. ASSUME x > Bias(F)
       PROVE  v >= (2 * 2 ^ F.m) * (2 ^ (Top(F) - 2) * W)
  <2>1. PICK e \in Nat : e = ka - kb - d - B - 1 /\ e <= B
    BY <1>1, <1>15, <1>22
  <2>2. PICK g \in Nat, l \in Nat :
          /\ g = j + e /\ l = 2 * B /\ ka + h = l + g
          /\ l <= 2 * B + m + 2 /\ g <= 2 * B + m + 2
    BY <1>16, <2>1
  <2>3. KnownPower(l) /\ KnownPower(g)
    BY <1>4, <2>2
  <2>4. Balanced(ka, h, l, g)
    BY <1>16, <2>2, <2>3, PowersBalance
  <2>5. 2 ^ g = 2 ^ j * 2 ^ e /\ KnownPower(e) /\ 2 ^ l \in Nat
    BY <1>16, <2>1, <2>2, <2>3, PowersKnown
  <2>6. PICK L \in Nat \ {0} : L = 2 ^ (Top(F) - 2) /\ 2 ^ l = 2 * L
    <3>1. Top(F) - 2 \in Nat /\ 1 \in Nat /\ (Top(F) - 2) + 1 = l
      BY <1>1, <2>2
    <3>2. 2 ^ ((Top(F) - 2) + 1) = 2 ^ (Top(F) - 2) * 2 ^ 1 /\ KnownPower(Top(F) - 2)
      BY <2>3, <3>1, PowersKnown
    <3>3. 2 ^ 1 = 2
      BY PowerAssumption, WordFacts
    <3>4. 2 ^ (Top(F) - 2) \in Nat \ {0}
      BY <3>1, <3>2, PowersKnown
    <3> QED BY <3>1, <3>2, <3>3, <3>4
  <2>7. PICK z \in Nat \ {0} : z = 2 ^ e /\ Ua * H = (2 * L) * ((Ub * D) * z)
    <3>1. 2 ^ e \in Nat \ {0}
      BY <2>1, <2>5, PowersKnown
    <3> QED BY <1>17, <2>4, <2>5, <2>6, <3>1 DEF Balanced
  <2>8. PICK Y \in Nat \ {0} : Y = (2 * L) * z /\ Y >= 2 * L
    <3>1. (2 * L) * z >= 2 * L /\ (2 * L) * z \in Nat
      OBVIOUS
    <3> QED BY <3>1
  <2>9. (Ua * H) * 1 = (Ub * D) * Y
    <3>1. (2 * L) * ((Ub * D) * z) = (Ub * D) * ((2 * L) * z) /\ (Ua * H) * 1 = Ua * H
      OBVIOUS
    <3> QED BY <2>7, <2>8, <3>1
  <2>10. v >= A * (Y * W)
    <3>1. 1 \in Nat \ {0} /\ v * 1 = v
      OBVIOUS
    <3> QED BY <1>21, <2>9, <3>1
  <2>11. A * (Y * W) >= (2 * p) * (L * W)
    <3>1. PICK E \in Nat, J \in Nat : E = Y * W /\ J = (2 * L) * W /\ E >= J
      <4>1. Y * W >= (2 * L) * W /\ Y * W \in Nat /\ (2 * L) * W \in Nat
        BY <2>8
      <4> QED BY <4>1
    <3>2. A * E >= p * E /\ p * E >= p * J /\ A * E \in Nat /\ p * E \in Nat /\ p * J \in Nat
      BY <3>1
    <3>3. p * ((2 * L) * W) = (2 * p) * (L * W)
      OBVIOUS
    <3> QED BY <3>1, <3>2, <3>3
  <2>12. A * (Y * W) \in Nat /\ (2 * p) * (L * W) \in Nat
    <3>1. A \in Nat /\ Y * W \in Nat /\ L * W \in Nat /\ 2 * p \in Nat
      OBVIOUS
    <3> QED BY <3>1
  <2> QED BY <1>1, <2>6, <2>10, <2>11, <2>12
<1>23. ASSUME x \in 1 - Bias(F) .. Bias(F)
       PROVE  Scaled(v, A, 2 ^ (x - 1 + Bias(F)) * W, D)
  <2>1. PICK k \in Nat : k = x - 1 + Bias(F) /\ ka + h = j + k /\ k <= 2 * B + m + 2
    BY <1>1, <1>15, <1>16, <1>23
  <2>2. Balanced(ka, h, j, k)
    BY <1>4, <1>16, <2>1, PowersBalance
  <2>3. PICK K \in Nat \ {0} : K = 2 ^ k /\ Ua * H = (Ub * D) * K
    BY <1>4, <1>17, <2>1, <2>2, PowersKnown DEF Balanced
  <2>4. (Ua * H) * 1 = (Ub * D) * K /\ 1 \in Nat \ {0} /\ v * 1 = v
    BY <2>3
  <2> QED BY <1>21, <2>1, <2>3, <2>4
<1>24. ASSUME x < 1 - Bias(F)
       PROVE  KnownPower(1 - Bias(F) - x) /\ Scaled(v * 2 ^ (1 - Bias(F) - x), A, W, D)
  <2>1. PICK e \in Nat, g \in Nat : e = 1 - Bias(F) - x /\ g = ka + h /\ e + g = j
    BY <1>1, <1>15, <1>16, <1>24
  <2>2. 2 ^ j = 2 ^ e * 2 ^ g /\ KnownPower(e) /\ KnownPower(g)
    BY <1>16, <2>1, PowersKnown
  <2>3. 2 ^ g = 2 ^ ka * 2 ^ h
    BY <1>16, <2>1, <2>2, PowersKnown
  <2>4. PICK y \in Nat \ {0} : y = 2 ^ e /\ Ub * D = y * (Ua * H)
    BY <1>17, <2>1, <2>2, <2>3, PowersKnown
  <2>5. (Ua * H) * y = (Ub * D) * 1 /\ 1 \in Nat \ {0} /\ 1 * W = W
    <3>1. (Ua * H) * y = y * (Ua * H) /\ (Ub * D) * 1 = Ub * D
      OBVIOUS
    <3> QED BY <2>4, <3>1
  <2> QED BY <1>21, <2>1, <2>2, <2>4, <2>5
<1>25. D = 2 => A % 2 = 0
  <2> SUFFICES ASSUME D = 2
               PROVE  A % 2 = 0
    OBVIOUS
  <2>1. A = q * 2
    BY <1>10
  <2> QED BY <2>1
<1>26. PackedIs(F, s, X, q, v, W, D)
  <2>1. A = Aligned(q, Carry(F, q)) /\ x = X + Carry(F, q)
    BY <1>14, <1>15
  <2>2. q \in Nat \ {0} /\ q < 2 ^ LONG_WIDTH
    BY <1>14
  <2>3. x > Bias(F) => v >= (2 * 2 ^ F.m) * (2 ^ (Top(F) - 2) * W)
    BY <1>22
  <2>4. x \in 1 - Bias(F) .. Bias(F) => Scaled(v, A, 2 ^ (x - 1 + Bias(F)) * W, D)
    BY <1>23
  <2>5. x < 1 - Bias(F) => KnownPower(1 - Bias(F) - x) /\ Scaled(v * 2 ^ (1 - Bias(F) - x), A, W, D)
    BY <1>24
  <2> QED BY SMTT(40), <1>25, <2>1, <2>2, <2>3, <2>4, <2>5, RoundedPack
<1> QED BY <1>10, <1>11, <1>13, <1>19, <1>20, <1>26 DEF PackedIs

\* The size of a normal number, in units of the smallest number.
LEMMA NormalSize ==
  ASSUME NEW F \in {F16, BF16}, NEW w \in AWord, Class(F, w) = "NORMAL"
  PROVE  Absolute(Multiple(F, w)) \in Nat \ {0}
<1>1. PICK M \in Nat, k \in Nat : NormalParts(F, w, M, k)
  BY Normal
<1>2. PICK p \in Nat \ {0}, B \in Nat \ {0}, m \in Nat \ {0} :
        p = 2 ^ F.m /\ m = F.m /\ Top(F) = 2 * B + 1
  BY FloatFacts
<1>3. M \in Nat \ {0} /\ k \in 0 .. Top(F) + F.m + 1
  BY <1>1, <1>2 DEF NormalParts
<1>4. KnownPower(k)
  BY <1>3, FloatFacts
<1>5. 2 ^ k \in Nat \ {0}
  BY <1>4, PowersKnown
<1> QED BY <1>1, <1>3, <1>5 DEF NormalParts

\* A result that is off by less than a unit is off by less than two.
LEMMA Loosened ==
  ASSUME NEW F \in {F16, BF16}, NEW w \in AWord, NEW v \in Nat, NEW W \in Nat \ {0}, NEW u \in {1, 2},
         Rounded(F, w, v, W, u)
  PROVE  Rounded(F, w, v, W, 2)
<1>1. CASE Class(F, w) = "NORMAL"
  <2>1. exponent(F, w) # Top(F)
    BY <1>1, FloatFacts DEF Class
  <2>2. PICK U \in Nat \ {0} : U = Unit(F, w)
    BY <2>1, Unpacked
  <2>3. PICK E \in Nat : E = U * W
    OBVIOUS
  <2>4. 1 * U * W = E /\ 2 * U * W = 2 * E
    BY <2>3
  <2>5. v - Absolute(Multiple(F, w)) * W \in 0 .. u * Unit(F, w) * W - 1
    BY <1>1 DEF Rounded
  <2>6. v - Absolute(Multiple(F, w)) * W \in 0 .. 2 * E - 1
    BY <2>2, <2>4, <2>5
  <2> QED BY <1>1, <2>2, <2>4, <2>6 DEF Rounded
<1>2. CASE Class(F, w) # "NORMAL"
  BY <1>2 DEF Rounded
<1> QED BY <1>1, <1>2

\* A product of normal numbers is the number below the exact product or less than
\* a unit off, and a quotient less than two; only what is too large becomes
\* infinite and only what is too small 0, for every width and choice of the
\* formats (f16_mult, f16_div and those of bf16).
THEOREM ProductsAreNear == Spec => []ProductsClose
<1>1. Done => ProductsClose
  <2> SUFFICES ASSUME Done, status = "done",
                      NEW F \in FormatOf({"MULF", "DIVF"}, {"MULD", "DIVD"}),
                      Classes(F, destination, source) = {"NORMAL"}
               PROVE  /\ sign(F, result) = Signs(F, destination, source)
                      /\ IF op \in {"MULF", "MULD"}
                         THEN Rounded(F, result, Absolute(Multiple(F, destination)) * Absolute(Multiple(F, source)),
                                      2 ^ (F.m + Bias(F) - 1), 1)
                         ELSE Rounded(F, result, Absolute(Multiple(F, destination)) * 2 ^ (F.m + Bias(F) - 1),
                                      Absolute(Multiple(F, source)), 2)
    BY DEF ProductsClose, Rounded
  <2>1. destination \in AWord /\ source \in AWord /\ result \in Results
    BY DEF Done
  <2>2. /\ F \in {F16, BF16} /\ op \in {"MULF", "DIVF", "MULD", "DIVD"}
        /\ op \in {"MULF", "DIVF"} => F = F16
        /\ op \in {"MULD", "DIVD"} => F = BF16
    BY DEF FormatOf
  <2>3. Results = FormatResults(op, destination, source)
    BY <2>2 DEF Results, OnFormats, FLOAT_OPS
  <2>4. Class(F, destination) = "NORMAL" /\ Class(F, source) = "NORMAL"
    BY DEF Classes
  <2>5. CASE op \in {"MULF", "MULD"}
    <3>1. result = Product(F, destination, source)
      BY <2>1, <2>2, <2>3, <2>5 DEF FormatResults
    <3>2. result = ProductOfFinite(F, destination, source)
      BY <2>4, <3>1 DEF Product, Classes
    <3> QED BY <2>1, <2>2, <2>4, <2>5, <3>2, ProductRounded
  <2>6. CASE op \in {"DIVF", "DIVD"}
    <3>1. result = FloatQuotient(F, destination, source)
      BY <2>1, <2>2, <2>3, <2>6 DEF FormatResults
    <3>2. result = QuotientOfFinite(F, destination, source)
      BY <2>4, <3>1 DEF FloatQuotient, Classes
    <3>3. /\ result \in AWord /\ sign(F, result) = Signs(F, destination, source)
          /\ \E u \in {1, 2} :
               Rounded(F, result, Absolute(Multiple(F, destination)) * 2 ^ (F.m + Bias(F) - 1),
                       Absolute(Multiple(F, source)), u)
      BY <2>1, <2>2, <2>4, <3>2, QuotientRounded
    <3>4. Absolute(Multiple(F, source)) \in Nat \ {0}
      BY <2>1, <2>2, <2>4, NormalSize
    <3>5. Absolute(Multiple(F, destination)) * 2 ^ (F.m + Bias(F) - 1) \in Nat
      <4>1. Absolute(Multiple(F, destination)) \in Nat \ {0}
        BY <2>1, <2>2, <2>4, NormalSize
      <4>2. F.m + Bias(F) - 1 \in Nat /\ KnownPower(F.m + Bias(F) - 1)
        BY <2>2, FloatFacts
      <4>3. 2 ^ (F.m + Bias(F) - 1) \in Nat
        BY <4>2, PowersKnown
      <4> QED BY <4>1, <4>3
    <3>6. Rounded(F, result, Absolute(Multiple(F, destination)) * 2 ^ (F.m + Bias(F) - 1),
                  Absolute(Multiple(F, source)), 2)
      BY <2>2, <3>3, <3>4, <3>5, Loosened
    <3> QED BY <2>6, <3>3, <3>6
  <2> QED BY <2>2, <2>5, <2>6
<1> QED BY <1>1, DoneHolds, PTL

-----------------------------------------------------------------------------
(***************************************************************************)
(* The results of every calculation are words.                             *)
(***************************************************************************)
\* The first powers.
LEMMA FirstPowers == 2 ^ 0 = 1 /\ 2 ^ 1 = 2 /\ 2 ^ 2 = 4
<1>1. 0 \in 0 .. 2 * WIDTH - 1 /\ 1 \in 0 .. 2 * WIDTH - 1
  BY WordFacts
<1>2. 2 ^ (0 + 1) = 2 * 2 ^ 0 /\ 2 ^ (1 + 1) = 2 * 2 ^ 1 /\ 2 ^ 0 = 1
  BY <1>1, PowerAssumption
<1> QED BY <1>2

\* The powers that fit into a long.
LEMMA LongPowers ==
  /\ LONG_WIDTH \in Nat /\ INT_WIDTH \in Nat /\ 0 < INT_WIDTH /\ INT_WIDTH < LONG_WIDTH
  /\ \A i \in 0 .. LONG_WIDTH : KnownPower(i) /\ 2 ^ i \in Nat \ {0} /\ 2 ^ i <= 2 ^ LONG_WIDTH
<1>1. /\ LONG_WIDTH \in Nat /\ INT_WIDTH \in Nat /\ 0 < INT_WIDTH /\ INT_WIDTH < LONG_WIDTH
  BY FormatAssumption, WidthAssumption
<1>2. ASSUME NEW i \in 0 .. LONG_WIDTH
      PROVE  KnownPower(i) /\ 2 ^ i \in Nat \ {0} /\ 2 ^ i <= 2 ^ LONG_WIDTH
  <2>1. KnownPower(i) /\ KnownPower(LONG_WIDTH)
    <3>1. i \in 0 .. LONG_WIDTH + 1 /\ LONG_WIDTH \in 0 .. LONG_WIDTH + 1
      BY <1>1
    <3> QED BY <3>1, FloatFacts
  <2>2. i \in Nat /\ i <= LONG_WIDTH
    BY <1>1
  <2> QED BY <1>1, <2>1, <2>2, PowersKnown, PowersOrdered
<1> QED BY <1>1, <1>2

\* What is shifted right does not grow.
LEMMA ShiftedDown ==
  ASSUME NEW n \in Nat, NEW count \in Nat
  PROVE  ShiftedRight(n, count) \subseteq 0 .. n
<1>1. ASSUME NEW i \in Nat, i < INT_WIDTH
      PROVE  n \div 2 ^ i \in 0 .. n
  <2>1. PICK q \in Nat \ {0} : q = 2 ^ i
    BY <1>1, LongPowers
  <2>2. n = (n \div q) * q + (n % q) /\ n \div q \in Nat /\ n % q \in 0 .. q - 1
    BY DividedParts
  <2>3. PICK d \in Nat : d = n \div q
    BY <2>2
  <2>4. d * q >= d /\ d * q \in Nat
    OBVIOUS
  <2>5. n \div q <= n
    BY <2>2, <2>3, <2>4
  <2> QED BY <2>1, <2>2, <2>5
<1>2. count % INT_WIDTH \in Nat /\ count % INT_WIDTH < INT_WIDTH
  BY LongPowers
<1>3. CASE count < INT_WIDTH
  BY <1>1, <1>3 DEF ShiftedRight
<1>4. CASE ~(count < INT_WIDTH)
  <2>1. n \div 2 ^ (count % INT_WIDTH) \in 0 .. n
    BY <1>1, <1>2
  <2>2. ShiftedRight(n, count) = {n \div 2 ^ (count % INT_WIDTH), 0}
    BY <1>4 DEF ShiftedRight
  <2> QED BY <2>1, <2>2
<1> QED BY <1>3, <1>4

\* The square of twice a mantissa's range fits into a long.
LEMMA SquaresFit ==
  ASSUME NEW F \in {F16, BF16}
  PROVE  LET p == 2 ^ F.m IN
         /\ p \in Nat \ {0} /\ 4 * (p * p) <= 2 ^ LONG_WIDTH /\ 4 * p <= 4 * (p * p)
         /\ 2 ^ LONG_WIDTH \in Nat
<1>1. PICK p \in Nat \ {0}, m \in Nat : p = 2 ^ F.m /\ m = F.m
  BY FloatFacts
<1>2. 2 * m + 2 <= LONG_WIDTH /\ LONG_WIDTH \in Nat
  <2>1. 1 + F.e + F.m = WIDTH /\ F.e \in Nat /\ F.e > 1 /\ LONG_WIDTH >= 2 * WIDTH /\ LONG_WIDTH \in Nat
    BY FormatAssumption
  <2> QED BY <1>1, <2>1
<1>3. PICK k \in Nat, l \in Nat : k = m + m /\ l = k + 2 /\ l <= LONG_WIDTH
  BY <1>2
<1>4. KnownPower(l) /\ 2 ^ l <= 2 ^ LONG_WIDTH /\ 2 ^ LONG_WIDTH \in Nat
  BY <1>2, <1>3, LongPowers
<1>5. 2 ^ l = 2 ^ k * 2 ^ 2 /\ KnownPower(k)
  BY <1>3, <1>4, PowersKnown
<1>6. 2 ^ k = 2 ^ m * 2 ^ m
  BY <1>3, <1>5, PowersKnown
<1>7. 2 ^ 2 = 4
  BY FirstPowers
<1>8. p * p \in Nat /\ p <= p * p /\ (p * p) * 4 = 4 * (p * p)
  <2>1. p <= p * p
    OBVIOUS
  <2> QED BY <2>1
<1> QED BY <1>1, <1>4, <1>5, <1>6, <1>7, <1>8

\* Whatever is packed is a word.
LEMMA PackedWord ==
  ASSUME NEW F \in {F16, BF16}, NEW s \in {0, 1}, NEW X \in Int, NEW n \in Nat, n < 2 ^ LONG_WIDTH
  PROVE  Pack(F, s, X, n) \in AWord
<1>1. CASE n = 0
  <2>1. 0 \in 0 .. Top(F) /\ 0 \in 0 .. 2 ^ F.m - 1
    BY FloatFacts
  <2>2. Word(F, s, 0, 0) \in AWord
    BY <2>1, WordOfFields
  <2> QED BY <1>1, <2>2 DEF Pack, Zero
<1>2. CASE n # 0
  BY <1>2, Packing
<1> QED BY <1>1, <1>2

\* The words that stand for no finite number, and the zeros.
LEMMA SpecialWords ==
  ASSUME NEW F \in {F16, BF16}
  PROVE  /\ QuietNaN(F) \in AWord
         /\ \A s \in {0, 1} : Zero(F, s) \in AWord /\ Infinity(F, s) \in AWord
         /\ \A s \in {0, 1} : Word(F, s, Top(F), 2 ^ (F.m - 1)) \in AWord
<1>1. 0 \in 0 .. Top(F) /\ Top(F) \in 0 .. Top(F) /\ 0 \in 0 .. 2 ^ F.m - 1
  BY FloatFacts
<1>2. 2 ^ (F.m - 1) \in 0 .. 2 ^ F.m - 1
  <2>1. PICK h \in Nat : h = F.m - 1 /\ h + 1 = F.m /\ KnownPower(h + 1) /\ 1 \in Nat
    <3>1. F.m \in Nat \ {0} /\ F.m \in 0 .. Top(F) + F.m + 1
      BY FloatFacts
    <3>2. KnownPower(F.m)
      BY <3>1, FloatFacts
    <3> QED BY <3>1, <3>2
  <2>2. 2 ^ (h + 1) = 2 ^ h * 2 ^ 1 /\ KnownPower(h)
    BY <2>1, PowersKnown
  <2>3. PICK q \in Nat \ {0} : q = 2 ^ h
    BY <2>2, PowersKnown
  <2> QED BY <2>1, <2>2, <2>3, FirstPowers
<1>3. ASSUME NEW s \in {0, 1}
      PROVE  /\ Word(F, s, 0, 0) \in AWord /\ Word(F, s, Top(F), 0) \in AWord
             /\ Word(F, s, Top(F), 2 ^ (F.m - 1)) \in AWord
  BY <1>1, <1>2, WordOfFields
<1> QED BY <1>3 DEF QuietNaN, Zero, Infinity

\* What a finite float is made of.
LEMMA FiniteParts ==
  ASSUME NEW F \in {F16, BF16}, NEW w \in AWord, Class(F, w) \notin {"INF", "NAN"}
  PROVE  /\ exponent(F, w) # Top(F) /\ Exp(F, w) \in Int /\ Mant(F, w) \in 0 .. 2 * 2 ^ F.m - 1
         /\ Class(F, w) = "ZERO" <=> Mant(F, w) = 0
<1>1. exponent(F, w) # Top(F)
  BY FloatFacts DEF Class
<1>2. Bias(F) \in Nat
  BY FloatFacts
<1> QED BY <1>1, <1>2, Unpacked

\* The sign of a product.
LEMMA SignsOf ==
  ASSUME NEW F \in {F16, BF16}, NEW a \in AWord, NEW b \in AWord
  PROVE  sign(F, a) \in {0, 1} /\ sign(F, b) \in {0, 1} /\ Signs(F, a, b) \in {0, 1}
<1>1. sign(F, a) \in {0, 1} /\ sign(F, b) \in {0, 1}
  BY Fields DEF AnyFormat
<1> QED BY <1>1 DEF Signs

\* Sums are words, whatever the shifts of the mantissas do.
LEMMA SumWords ==
  ASSUME NEW F \in {F16, BF16}, NEW a \in AWord, NEW b \in AWord
  PROVE  Sums(F, a, b) \subseteq AWord
<1>1. ASSUME Class(F, a) \notin {"INF", "NAN"}, Class(F, b) \notin {"INF", "NAN"}
      PROVE  SumOfFinite(F, a, b) \subseteq AWord
  <2>1. PICK p \in Nat \ {0} : p = 2 ^ F.m /\ 4 * p <= 2 ^ LONG_WIDTH /\ 2 ^ LONG_WIDTH \in Nat
    <3>1. PICK p \in Nat \ {0} : p = 2 ^ F.m /\ 4 * (p * p) <= 2 ^ LONG_WIDTH /\ 4 * p <= 4 * (p * p)
      BY SquaresFit
    <3>2. p * p \in Nat /\ 2 ^ LONG_WIDTH \in Nat
      BY SquaresFit
    <3> QED BY <3>1, <3>2
  <2>2. /\ Exp(F, a) \in Int /\ Exp(F, b) \in Int
        /\ Mant(F, a) \in 0 .. 2 * p - 1 /\ Mant(F, b) \in 0 .. 2 * p - 1
    BY <1>1, <2>1, FiniteParts
  <2>3. PICK x \in Int : /\ x = IF Exp(F, a) > Exp(F, b) THEN Exp(F, a) ELSE Exp(F, b)
                        /\ x - Exp(F, a) \in Nat /\ x - Exp(F, b) \in Nat
    BY <2>2
  <2>4. /\ ShiftedRight(Mant(F, a), x - Exp(F, a)) \subseteq 0 .. Mant(F, a)
        /\ ShiftedRight(Mant(F, b), x - Exp(F, b)) \subseteq 0 .. Mant(F, b)
    BY <2>2, <2>3, ShiftedDown
  <2> SUFFICES ASSUME NEW ma \in ShiftedRight(Mant(F, a), x - Exp(F, a)),
                      NEW mb \in ShiftedRight(Mant(F, b), x - Exp(F, b))
               PROVE  /\ Pack(F, sign(F, a), x, ma + mb) \in AWord
                      /\ ma >= mb => Pack(F, sign(F, a), x, ma - mb) \in AWord
                      /\ ~(ma >= mb) => Pack(F, sign(F, b), x, mb - ma) \in AWord
    BY <2>3 DEF SumOfFinite
  <2>5. ma \in 0 .. 2 * p - 1 /\ mb \in 0 .. 2 * p - 1
    BY <2>2, <2>4
  <2>6. /\ ma + mb \in Nat /\ ma + mb < 2 ^ LONG_WIDTH
        /\ ma >= mb => ma - mb \in Nat /\ ma - mb < 2 ^ LONG_WIDTH
        /\ ~(ma >= mb) => mb - ma \in Nat /\ mb - ma < 2 ^ LONG_WIDTH
    BY <2>1, <2>5
  <2> QED BY <2>3, <2>6, SignsOf, PackedWord
<1>2. "NAN" \notin Classes(F, a, b) => Class(F, a) # "NAN" /\ Class(F, b) # "NAN"
  BY DEF Classes
<1> QED BY <1>1, <1>2, SpecialWords, SignsOf DEF Sums

\* Products and quotients are words.
LEMMA ProductWords ==
  ASSUME NEW F \in {F16, BF16}, NEW a \in AWord, NEW b \in AWord
  PROVE  Product(F, a, b) \in AWord /\ FloatQuotient(F, a, b) \in AWord
<1>1. PICK p \in Nat \ {0}, m \in Nat, L \in Nat :
        p = 2 ^ F.m /\ m = F.m /\ L = 2 ^ LONG_WIDTH /\ 4 * (p * p) <= L
  BY SquaresFit, FloatFacts
<1>2. PICK s \in {0, 1} : s = Signs(F, a, b)
  BY SignsOf
<1>3. ASSUME Class(F, a) \notin {"INF", "NAN"}, Class(F, b) \notin {"INF", "NAN"}
      PROVE  ProductOfFinite(F, a, b) \in AWord
  <2>1. PICK x \in Int, y \in Int, Ma \in 0 .. 2 * p - 1, Mb \in 0 .. 2 * p - 1 :
          x = Exp(F, a) /\ y = Exp(F, b) /\ Ma = Mant(F, a) /\ Mb = Mant(F, b)
    BY <1>1, <1>3, FiniteParts
  <2>2. PICK n \in Nat : n = Ma * Mb /\ n < 4 * (p * p)
    <3>1. Ma * Mb <= (2 * p) * Mb /\ (2 * p) * Mb < (2 * p) * (2 * p) /\ (2 * p) * (2 * p) = 4 * (p * p)
      OBVIOUS
    <3>2. Ma * Mb \in Nat /\ (2 * p) * Mb \in Nat /\ 4 * (p * p) \in Nat
      OBVIOUS
    <3> QED BY <3>1, <3>2
  <2>3. PICK c \in {0, 1} : c = IF n >= 2 ^ (2 * m + 1) THEN 1 ELSE 0
    OBVIOUS
  <2>4. PICK q \in Nat \ {0} : q = 2 ^ (m + c)
    <3>1. m + c \in 0 .. LONG_WIDTH
      BY <1>1, FloatFacts
    <3> QED BY <3>1, LongPowers
  <2>5. n \div q \in Nat /\ n \div q <= n
    <3>1. n = (n \div q) * q + (n % q) /\ n \div q \in Nat /\ n % q \in 0 .. q - 1
      BY DividedParts
    <3>2. PICK d \in Nat : d = n \div q
      BY <3>1
    <3>3. d * q >= d /\ d * q \in Nat
      OBVIOUS
    <3> QED BY <3>1, <3>2, <3>3
  <2>6. n \div q < 2 ^ LONG_WIDTH
    <3>1. 4 * (p * p) \in Nat
      OBVIOUS
    <3> QED BY <1>1, <2>2, <2>5, <3>1
  <2>7. Pack(F, s, x + y + c, n \div q) \in AWord
    <3>1. x + y + c \in Int
      OBVIOUS
    <3> QED BY <2>5, <2>6, <3>1, PackedWord
  <2> QED BY <1>1, <1>2, <2>1, <2>2, <2>3, <2>4, <2>7 DEF ProductOfFinite
<1>4. ASSUME Class(F, a) \notin {"INF", "NAN"}, Class(F, b) \notin {"INF", "NAN", "ZERO"}
      PROVE  QuotientOfFinite(F, a, b) \in AWord
  <2>1. PICK x \in Int, y \in Int, Ma \in 0 .. 2 * p - 1, Mb \in 1 .. 2 * p - 1 :
          x = Exp(F, a) /\ y = Exp(F, b) /\ Ma = Mant(F, a) /\ Mb = Mant(F, b)
    <3>1. Mant(F, b) # 0
      BY <1>4, FiniteParts
    <3> QED BY <1>1, <1>4, <3>1, FiniteParts
  <2>2. PICK h \in 0 .. m : h = Msb(Mb) /\ 2 ^ h <= Mb
    <3>1. m \in 0 .. LONG_WIDTH - 1 /\ 2 ^ (m + 1) = 2 * p
      <4>1. m \in Nat /\ 1 \in Nat /\ m \in 0 .. LONG_WIDTH - 1 /\ m + 1 \in 0 .. LONG_WIDTH
        BY <1>1, FloatFacts
      <4>2. KnownPower(m + 1)
        BY <4>1, LongPowers
      <4>3. 2 ^ (m + 1) = 2 ^ m * 2 ^ 1
        BY <4>1, <4>2, PowersKnown
      <4> QED BY <1>1, <4>1, <4>3, FirstPowers
    <3>2. Mb \in Nat \ {0} /\ Mb < 2 ^ (m + 1)
      BY <3>1
    <3>3. Msb(Mb) \in 0 .. m /\ 2 ^ Msb(Mb) <= Mb
      BY <3>1, <3>2, HighestBit
    <3> QED BY <3>3
  <2>3. PICK k \in Nat : k = m - h /\ k + h = m
    OBVIOUS
  <2>4. PICK u \in Nat \ {0}, v \in Nat \ {0} :
          u = 2 ^ k /\ v = 2 ^ h /\ p = u * v /\ 2 ^ (m + k) = p * u
    <3>1. k + h = m /\ m \in 0 .. LONG_WIDTH /\ m + k \in 0 .. LONG_WIDTH /\ h \in Nat
      <4>1. 1 + F.e + F.m = WIDTH /\ F.e \in Nat /\ LONG_WIDTH >= 2 * WIDTH /\ LONG_WIDTH \in Nat
        BY FormatAssumption
      <4> QED BY <1>1, <2>3, <4>1
    <3>2. KnownPower(k + h) /\ KnownPower(m + k)
      BY <3>1, LongPowers
    <3>3. 2 ^ (k + h) = 2 ^ k * 2 ^ h /\ 2 ^ (m + k) = 2 ^ m * 2 ^ k /\ KnownPower(k) /\ KnownPower(h)
      BY <3>1, <3>2, PowersKnown
    <3> QED BY <1>1, <3>1, <3>3, PowersKnown
  <2>5. PICK N \in Nat, D \in Nat \ {0} : N = Ma * (p * u) /\ D = Mb * u
    <3>1. Mb * u \in Nat \ {0} /\ Ma * (p * u) \in Nat
      OBVIOUS
    <3> QED BY <3>1
  <2>6. N \div D \in Nat /\ N \div D < 4 * (p * p)
    <3>1. N = (N \div D) * D + (N % D) /\ N \div D \in Nat /\ N % D \in 0 .. D - 1
      BY DividedParts
    <3>2. PICK q \in Nat : q = N \div D
      BY <3>1
    <3>3. q * D <= N /\ q * D \in Nat
      BY <3>1, <3>2
    <3>4. D >= p
      <4>1. Mb * u >= v * u /\ v * u = u * v
        BY <2>2, <2>4
      <4> QED BY <2>4, <2>5, <4>1
    <3>5. q <= q * D
      OBVIOUS
    <3>6. q * p <= q * D
      BY <3>4
    <3>7. N = (Ma * u) * p
      BY <2>5
    <3>8. q <= Ma * u
      <4> SUFFICES ASSUME q >= Ma * u + 1
                   PROVE  FALSE
        <5>1. Ma * u \in Nat
          OBVIOUS
        <5> QED BY <5>1
      <4>1. q * p >= (Ma * u + 1) * p /\ (Ma * u + 1) * p = (Ma * u) * p + p
        OBVIOUS
      <4>2. q * p \in Nat /\ (Ma * u) * p \in Nat
        OBVIOUS
      <4> QED BY <3>3, <3>6, <3>7, <4>1, <4>2
    <3>9. u <= p
      <4>1. u * v >= u
        OBVIOUS
      <4> QED BY <2>4, <4>1
    <3>10. Ma * u <= (2 * p) * p
      <4>1. Ma * u <= (2 * p) * u /\ (2 * p) * u <= (2 * p) * p
        BY <3>9
      <4>2. Ma * u \in Nat /\ (2 * p) * u \in Nat /\ (2 * p) * p \in Nat
        OBVIOUS
      <4> QED BY <4>1, <4>2
    <3>11. (2 * p) * p < 4 * (p * p) /\ (2 * p) * p \in Nat /\ 4 * (p * p) \in Nat /\ Ma * u \in Nat
      <4>1. p * p \in Nat \ {0} /\ (2 * p) * p = 2 * (p * p) /\ Ma * u \in Nat
        OBVIOUS
      <4> QED BY <4>1
    <3> QED BY <3>1, <3>2, <3>8, <3>10, <3>11
  <2>7. N \div D < 2 ^ LONG_WIDTH
    <3>1. 4 * (p * p) \in Nat
      OBVIOUS
    <3> QED BY <1>1, <2>6, <3>1
  <2>8. Pack(F, s, x - y - k, N \div D) \in AWord
    <3>1. x - y - k \in Int
      OBVIOUS
    <3> QED BY <2>6, <2>7, <3>1, PackedWord
  <2> QED BY <1>1, <1>2, <2>1, <2>2, <2>3, <2>4, <2>5, <2>8 DEF QuotientOfFinite
<1>5. Product(F, a, b) \in AWord
  <2>1. "NAN" \notin Classes(F, a, b) => Class(F, a) # "NAN" /\ Class(F, b) # "NAN"
    BY DEF Classes
  <2>2. "INF" \notin Classes(F, a, b) => Class(F, a) # "INF" /\ Class(F, b) # "INF"
    BY DEF Classes
  <2> QED BY <1>2, <1>3, <2>1, <2>2, SpecialWords DEF Product
<1>6. FloatQuotient(F, a, b) \in AWord
  <2>1. "NAN" \notin Classes(F, a, b) => Class(F, a) # "NAN" /\ Class(F, b) # "NAN"
    BY DEF Classes
  <2> QED BY <1>2, <1>4, <2>1, SpecialWords DEF FloatQuotient
<1> QED BY <1>5, <1>6

\* Integers of so many bits.
Longs == -(2 ^ (LONG_WIDTH - 1)) .. 2 ^ (LONG_WIDTH - 1)

\* What wraps in an int or a long fits into a long.
LEMMA InBitsFit ==
  ASSUME NEW i \in Int, NEW width \in {INT_WIDTH, LONG_WIDTH}
  PROVE  /\ InBits(i, width) \in Int /\ InBits(i, width) \in Longs
         /\ InBits(i, width) \in -(2 ^ (width - 1)) .. 2 ^ (width - 1) - 1
<1>1. width - 1 \in 0 .. LONG_WIDTH /\ LONG_WIDTH - 1 \in 0 .. LONG_WIDTH /\ width - 1 <= LONG_WIDTH - 1
  BY LongPowers
<1>2. PICK h \in Nat \ {0}, H \in Nat \ {0} : h = 2 ^ (width - 1) /\ H = 2 ^ (LONG_WIDTH - 1) /\ h <= H
  <2>1. KnownPower(LONG_WIDTH - 1) /\ width - 1 \in Nat /\ LONG_WIDTH - 1 \in Nat
    BY <1>1, LongPowers
  <2> QED BY <1>1, <2>1, LongPowers, PowersOrdered
<1>3. PICK r \in 0 .. 2 * h - 1 : r = (i + h) % (2 * h)
  <2>1. 2 * h \in Nat \ {0} /\ i + h \in Int
    OBVIOUS
  <2>2. (i + h) % (2 * h) \in 0 .. 2 * h - 1
    BY <2>1
  <2> QED BY <2>2
<1>4. InBits(i, width) = r - h
  BY <1>2, <1>3 DEF InBits
<1>5. r - h \in Int /\ r - h \in -H .. H /\ r - h \in -h .. h - 1
  BY <1>2
<1> QED BY <1>2, <1>4, <1>5 DEF Longs

\* The highest bit of an integer other than 0.
LEMMA BitOfInteger ==
  ASSUME NEW i \in Longs, i # 0
  PROVE  Absolute(i) \in Nat \ {0} /\ Absolute(i) < 2 ^ LONG_WIDTH /\ Msb(Absolute(i)) \in 0 .. LONG_WIDTH - 1
<1>1. PICK k \in 0 .. LONG_WIDTH - 1 : k = LONG_WIDTH - 1 /\ k + 1 = LONG_WIDTH /\ k \in Nat
  BY LongPowers
<1>2. PICK H \in Nat \ {0} : H = 2 ^ k /\ 2 ^ (k + 1) = H * 2
  <2>1. k \in 0 .. LONG_WIDTH /\ k + 1 \in 0 .. LONG_WIDTH /\ 1 \in Nat
    BY <1>1, LongPowers
  <2>2. KnownPower(k + 1) /\ 2 ^ k \in Nat \ {0}
    BY <2>1, LongPowers
  <2>3. 2 ^ (k + 1) = 2 ^ k * 2 ^ 1
    BY <1>1, <2>1, <2>2, PowersKnown
  <2> QED BY <2>2, <2>3, FirstPowers
<1>3. i \in Int /\ -H <= i /\ i <= H
  BY <1>1, <1>2 DEF Longs
<1>4. PICK n \in Nat \ {0} : n = Absolute(i) /\ n < 2 ^ (k + 1)
  BY <1>2, <1>3 DEF Absolute
<1>5. Msb(n) \in 0 .. k
  BY <1>4, HighestBit
<1> QED BY <1>1, <1>4, <1>5

\* The word that is chosen for an integer.
LEMMA NearerWord ==
  ASSUME NEW i \in Longs, i # 0, NEW n \in Int, NEW width
  PROVE  Nearer(i, n, width) \in AWord
<1>1. FI16.m \in Nat /\ 2 ^ FI16.m \in Nat
  BY FormatFacts DEF AnyFormat
<1>2. PICK h \in 0 .. LONG_WIDTH - 1 : h = Msb(Absolute(i))
  BY BitOfInteger
<1>3. PICK x \in Nat : x = (IF h < FI16.m THEN 0 ELSE h - FI16.m + 1) /\ x <= LONG_WIDTH
  BY <1>1, LongPowers
<1>4. PICK k \in Int : k = IF x = 0 THEN n ELSE n \div 2 ^ (x - 1) - 2 ^ FI16.m
  <2>1. CASE x = 0
    BY <2>1
  <2>2. CASE x # 0
    <3>1. x - 1 \in 0 .. LONG_WIDTH
      BY <1>3, <2>2, LongPowers
    <3>2. PICK q \in Nat \ {0} : q = 2 ^ (x - 1)
      BY <3>1, LongPowers
    <3>3. n \div q \in Int
      OBVIOUS
    <3> QED BY <1>1, <2>2, <3>2, <3>3
  <2> QED BY <2>1, <2>2
<1>5. Cut(i, n).exponent = x /\ Cut(i, n).mantissa = k
  BY <1>2, <1>3, <1>4 DEF Cut
<1>6. Joined(i, Cut(i, n)) \in AWord
  <2>1. Wrap(x * 2 ^ FI16.m) \in Int /\ Wrap(k) \in Int
    <3>1. x * 2 ^ FI16.m \in Int
      BY <1>1
    <3> QED BY <3>1, Wrapping DEF AWord
  <2>2. PICK g \in Int : g = IF i < 0 THEN SIGN ELSE 0
    BY WordFacts
  <2>3. Combine(Or, g, Wrap(x * 2 ^ FI16.m)) \in Int
    BY <2>1, Combining DEF AWord
  <2>4. Combine(Or, Combine(Or, g, Wrap(x * 2 ^ FI16.m)), Wrap(k)) \in AWord
    BY <2>1, <2>3, Combining
  <2> QED BY <1>5, <2>2, <2>4 DEF Joined
<1>7. Wrap(Joined(i, Cut(i, n)) + 1) \in AWord
  BY <1>6, Wrapping DEF AWord
<1> QED BY <1>6, <1>7 DEF Nearer

\* What fi16_from_int and fi16_from_long_long return.
LEMMA FintsWords ==
  ASSUME NEW i \in Longs, NEW width \in {INT_WIDTH, LONG_WIDTH}
  PROVE  FintsFrom(i, width) \subseteq AWord
<1>1. i \in Int
  BY LongPowers DEF Longs
<1>2. CASE i = 0
  <2>1. 0 \in AWord
    BY WordFacts DEF AWord
  <2>2. PICK h \in Nat \ {0} : h = 2 ^ (width - 1)
    <3>1. width - 1 \in 0 .. LONG_WIDTH
      BY LongPowers
    <3> QED BY <3>1, LongPowers
  <2>3. i # Smallest(width)
    BY <1>2, <2>2 DEF Smallest
  <2> QED BY <1>2, <2>1, <2>3 DEF FintsFrom
<1>3. CASE i # 0
  <2>1. Absolute(i) \in Int /\ -i \in Int
    BY <1>1 DEF Absolute
  <2>2. /\ Nearer(i, i, width) \in AWord /\ Nearer(i, -i, width) \in AWord
        /\ Nearer(i, Absolute(i), width) \in AWord
    BY <1>1, <1>3, <2>1, NearerWord
  <2>3. \/ FintsFrom(i, width) = {Nearer(i, -i, width), Nearer(i, i, width)}
        \/ FintsFrom(i, width) = {Nearer(i, Absolute(i), width)}
    BY <1>3 DEF FintsFrom
  <2> QED BY <2>2, <2>3
<1> QED BY <1>2, <1>3

\* What a fint stands for is an integer that wraps in its width.
LEMMA FintIntegers ==
  ASSUME NEW w \in AWord, NEW width \in {INT_WIDTH, LONG_WIDTH}
  PROVE  /\ IntegerOf(w, width) \in Int /\ IntegerOf(w, width) \in Longs
         /\ IntegerOf(w, width) \in -(2 ^ (width - 1)) .. 2 ^ (width - 1) - 1
<1>1. FI16 \in AnyFormat
  BY DEF AnyFormat
<1>2. PICK p \in Nat, x \in 0 .. Top(FI16), m \in Nat :
        p = 2 ^ FI16.m /\ x = exponent(FI16, w) /\ m = mantissa(FI16, w)
  BY <1>1, FormatFacts, Fields
<1>3. PICK n \in Int : n = IF x = 0 THEN m ELSE InBits((m + 2 ^ FI16.m) * 2 ^ (x - 1), width)
  <2>1. CASE x = 0
    BY <2>1
  <2>2. CASE x # 0
    <3>1. x - 1 \in 0 .. Top(FI16) + FI16.m + 1
      BY <1>1, <2>2, FormatFacts
    <3>2. PICK q \in Nat : q = 2 ^ (x - 1)
      BY <1>1, <3>1, FormatFacts
    <3>3. (m + p) * q \in Int
      OBVIOUS
    <3>4. InBits((m + p) * q, width) \in Int
      BY <3>3, InBitsFit
    <3> QED BY <1>2, <2>2, <3>2, <3>4
  <2> QED BY <2>1, <2>2
<1>4. IntegerOf(w, width) = InBits(IF sign(FI16, w) = 1 THEN -n ELSE n, width)
  BY <1>2, <1>3 DEF IntegerOf
<1> QED BY <1>4, InBitsFit

\* Exponents and mantissas of fints.
LEMMA FintParts ==
  ASSUME NEW w \in AWord
  PROVE  fexp(w) \in 0 .. 2 ^ FI16.e /\ fmant(w) \in Nat /\ 2 ^ FI16.e \in Nat
<1>1. FI16 \in AnyFormat
  BY DEF AnyFormat
<1>2. PICK p \in Nat, x \in 0 .. Top(FI16), m \in Nat :
        p = 2 ^ FI16.m /\ x = exponent(FI16, w) /\ m = mantissa(FI16, w)
  BY <1>1, FormatFacts, Fields
<1>3. Top(FI16) \in Nat /\ 2 ^ FI16.e = Top(FI16) + 1
  BY <1>1, FormatFacts
<1> QED BY <1>2, <1>3 DEF fexp, fmant

\* Powers up to the largest exponent of a product of fints.
LEMMA FintPowers ==
  \A i \in 0 .. 2 * 2 ^ FI16.e : 2 ^ i \in Nat \ {0}
<1>1. 2 * 2 ^ FI16.e \in Nat
  BY FormatFacts DEF AnyFormat
<1>2. ASSUME NEW i \in 0 .. 2 * 2 ^ FI16.e
      PROVE  2 ^ i \in Nat \ {0}
  <2>1. KnownPower(i)
    BY <1>1 DEF KnownPower
  <2> QED BY <2>1, PowersKnown
<1> QED BY <1>2

\* Sums, products and quotients of fints are words.
LEMMA FintResults ==
  ASSUME NEW a \in AWord, NEW b \in AWord
  PROVE  /\ FintsFrom(FintSum(a, b), INT_WIDTH) \subseteq AWord
         /\ FintsFrom(FintProduct(a, b), LONG_WIDTH) \subseteq AWord
         /\ FintQuotients(a, b) \subseteq AWord
<1>1. PICK E \in Nat : E = 2 ^ FI16.e
  BY FintParts
<1>2. PICK xa \in 0 .. E, xb \in 0 .. E, na \in Nat, nb \in Nat :
        xa = fexp(a) /\ xb = fexp(b) /\ na = fmant(a) /\ nb = fmant(b)
  BY <1>1, FintParts
<1>3. FintSum(a, b) \in Longs
  <2>1. PICK x \in 0 .. E : x = (IF xa > xb THEN xa ELSE xb) /\ xa <= x /\ xb <= x
    OBVIOUS
  <2>2. x - xa \in 0 .. 2 * E /\ x - xb \in 0 .. 2 * E /\ x \in 0 .. 2 * E
    BY <2>1
  <2>3. PICK q \in Nat \ {0}, r \in Nat \ {0}, u \in Nat \ {0} :
          q = 2 ^ (x - xa) /\ r = 2 ^ (x - xb) /\ u = 2 ^ x
    BY <1>1, <2>2, FintPowers
  <2>4. PICK ma \in Int, mb \in Int : ma = na \div q /\ mb = nb \div r
    OBVIOUS
  <2>5. PICK m \in Int : m = IF sign(FI16, a) = sign(FI16, b) THEN ma + mb ELSE Absolute(ma - mb)
    <3>1. ma + mb \in Int /\ Absolute(ma - mb) \in Int
      BY DEF Absolute
    <3> QED BY <3>1
  <2>6. m * u \in Int
    OBVIOUS
  <2>7. PICK n \in Int : n = InBits(m * u, INT_WIDTH)
    BY <2>6, InBitsFit
  <2>8. PICK s : s = IF sign(FI16, a) = sign(FI16, b) \/ ma >= mb THEN sign(FI16, a) ELSE sign(FI16, b)
    OBVIOUS
  <2>9. FintSum(a, b) = InBits(IF s = 1 THEN -n ELSE n, INT_WIDTH)
    BY <1>2, <2>1, <2>3, <2>4, <2>5, <2>7, <2>8 DEF FintSum
  <2> QED BY <2>7, <2>9, InBitsFit
<1>4. FintProduct(a, b) \in Longs
  <2>1. xa + xb \in 0 .. 2 * E
    OBVIOUS
  <2>2. PICK u \in Nat : u = 2 ^ (xa + xb)
    BY <1>1, <2>1, FintPowers
  <2>3. na * nb * u \in Int
    OBVIOUS
  <2>4. PICK n \in Int : n = InBits(na * nb * u, LONG_WIDTH)
    BY <2>3, InBitsFit
  <2>5. FintProduct(a, b) = InBits(IF sign(FI16, a) # sign(FI16, b) THEN -n ELSE n, LONG_WIDTH)
    BY <1>2, <2>2, <2>4 DEF FintProduct
  <2> QED BY <2>4, <2>5, InBitsFit
<1>5. FintQuotients(a, b) \subseteq AWord
  <2>1. a % SIGN \in AWord /\ b % SIGN \in AWord
    <3>1. a \in Nat /\ b \in Nat /\ SIGN \in Nat \ {0} /\ WORDS = 2 * SIGN
      BY WordFacts DEF AWord
    <3>2. a % SIGN \in 0 .. SIGN - 1 /\ b % SIGN \in 0 .. SIGN - 1
      BY <3>1
    <3> QED BY <3>1, <3>2 DEF AWord
  <2>2. PICK ia \in Longs, ib \in Int :
          ia = IntegerOf(a % SIGN, INT_WIDTH) /\ ib = IntegerOf(b % SIGN, INT_WIDTH) /\ ia \in Int
    BY <2>1, FintIntegers
  <2>3. PICK q \in Longs : q = (IF ib = 0 THEN 0 ELSE Quotient(ia, ib)) /\ q \in Int
    <3>1. PICK H \in Nat \ {0} : H = 2 ^ (LONG_WIDTH - 1)
      <4>1. LONG_WIDTH - 1 \in 0 .. LONG_WIDTH
        BY LongPowers
      <4> QED BY <4>1, LongPowers
    <3>2. CASE ib = 0
      BY <3>1, <3>2 DEF Longs
    <3>3. CASE ib # 0
      <4>1. PICK x \in Nat, y \in Nat \ {0} : x = Absolute(ia) /\ y = Absolute(ib)
        BY <2>2, <3>3 DEF Absolute
      <4>2. x = (x \div y) * y + (x % y) /\ x \div y \in Nat /\ x % y \in 0 .. y - 1
        BY DividedParts
      <4>3. PICK d \in Nat : d = x \div y
        BY <4>2
      <4>4. d * y >= d /\ d * y \in Nat
        OBVIOUS
      <4>5. d <= x
        BY <4>2, <4>3, <4>4
      <4>6. x <= H
        BY <2>2, <3>1, <4>1 DEF Longs, Absolute
      <4>7. Quotient(ia, ib) = d \/ Quotient(ia, ib) = -d
        BY <4>1, <4>3 DEF Quotient
      <4>8. d \in -H .. H /\ -d \in -H .. H
        BY <4>5, <4>6
      <4> QED BY <3>1, <3>3, <4>7, <4>8 DEF Longs
    <3> QED BY <3>2, <3>3
  <2>4. InBits(-q, INT_WIDTH) \in Longs
    BY <2>3, InBitsFit
  <2>5. \A s \in {0, 1} : SIGN - 1 + SIGN * s \in AWord
    BY WordFacts DEF AWord
  <2>6. 0 \in AWord /\ WORDS - 1 \in AWord /\ SIGN - 1 \in AWord
    BY WordFacts DEF AWord
  <2>7. sign(FI16, a) \in {0, 1}
    BY Fields DEF AnyFormat
  <2>8. /\ FintsFrom(InBits(-q, INT_WIDTH), INT_WIDTH) \subseteq AWord
        /\ FintsFrom(q, INT_WIDTH) \subseteq AWord
    BY <2>3, <2>4, FintsWords
  <2> QED BY <2>2, <2>3, <2>5, <2>6, <2>7, <2>8 DEF FintQuotients
<1> QED BY <1>3, <1>4, <1>5, FintsWords

\* Fields next to each other.
AreFields(p, t, N, s, x, m, w) ==
  /\ N \in Nat \ {0} /\ w \in 0 .. 2 * N - 1
  /\ w \div N = s /\ (w % N) \div p = x /\ w % p = m

LEMMA JoinFields ==
  ASSUME NEW p \in Nat \ {0}, NEW t \in Nat, NEW N, N = (t + 1) * p,
         NEW s \in {0, 1}, NEW x \in 0 .. t, NEW m \in 0 .. p - 1, NEW w, w = s * N + x * p + m
  PROVE  AreFields(p, t, N, s, x, m, w)
<1>1. PICK r \in Nat : r = x * p + m
  OBVIOUS
<1>2. N \in Nat \ {0} /\ r \in 0 .. N - 1
  <2>1. x * p <= t * p /\ (t + 1) * p = t * p + p /\ t * p \in Nat /\ x * p \in Nat
    OBVIOUS
  <2> QED BY <1>1, <2>1
<1>3. w = s * N + r /\ w \in 0 .. 2 * N - 1
  BY <1>1, <1>2
<1>4. w \div N = s /\ w % N = r
  BY <1>2, <1>3, Division
<1>5. r \div p = x
  BY <1>1, Division
<1>6. w % p = m
  <2>1. w = (s * (t + 1) + x) * p + m
    <3>1. (s * (t + 1) + x) * p = (s * (t + 1)) * p + x * p
      OBVIOUS
    <3>2. (s * (t + 1)) * p = s * ((t + 1) * p)
      OBVIOUS
    <3> QED BY <3>1, <3>2
  <2>2. s * (t + 1) + x \in Int /\ w \in Int
    BY <1>2, <1>3
  <2> QED BY <2>1, <2>2, Division
<1> QED BY <1>2, <1>3, <1>4, <1>5, <1>6 DEF AreFields

\* Fields next to each other, taken apart.
ArePartsOf(w, p, t, N) ==
  /\ w \div N \in {0, 1} /\ (w % N) \div p \in 0 .. t /\ w % p \in 0 .. p - 1
  /\ w = (w \div N) * N + ((w % N) \div p) * p + (w % p)

LEMMA SplitFields ==
  ASSUME NEW p \in Nat \ {0}, NEW t \in Nat, NEW N \in Nat \ {0}, N = (t + 1) * p, NEW w \in 0 .. 2 * N - 1
  PROVE  ArePartsOf(w, p, t, N)
<1>1. w = (w \div N) * N + (w % N) /\ w \div N \in {0, 1} /\ w % N \in 0 .. N - 1
  OBVIOUS
<1>2. PICK s \in {0, 1}, r \in Nat : s = w \div N /\ r = w % N /\ w = s * N + r /\ r < N
  BY <1>1
<1>3. PICK x \in Nat, m \in 0 .. p - 1 : x = r \div p /\ r = x * p + m
  <2>1. r = (r \div p) * p + (r % p) /\ r \div p \in Nat /\ r % p \in 0 .. p - 1
    BY DividedParts
  <2> QED BY <2>1
<1>4. x <= t
  <2> SUFFICES ASSUME x >= t + 1
               PROVE  FALSE
    OBVIOUS
  <2>1. x * p >= (t + 1) * p /\ x * p \in Nat
    OBVIOUS
  <2> QED BY <1>2, <1>3, <2>1
<1>5. w = s * N + x * p + m /\ x \in 0 .. t
  <2>1. x * p \in Nat
    OBVIOUS
  <2> QED BY <1>2, <1>3, <1>4, <2>1
<1>6. w % p = m
  BY <1>5, JoinFields DEF AreFields
<1>7. w \div N = s /\ (w % N) \div p = x /\ w % p = m
  BY <1>2, <1>3, <1>6
<1> QED BY <1>5, <1>7 DEF ArePartsOf

\* The words of float.
ASingle == 0 .. 2 * Negative(Single) - 1

\* float has the exponents of bf16 and every int.
LEMMA SingleFacts ==
  /\ Top(Single) = Top(BF16) /\ Bias(Single) = Bias(BF16) /\ Single.m = SINGLE_M /\ SINGLE_M \in Nat
  /\ 2 ^ SINGLE_M \in Nat \ {0} /\ Negative(Single) = (Top(Single) + 1) * 2 ^ SINGLE_M
  /\ INT_WIDTH <= Bias(BF16) + 1 /\ Bias(F16) + F16.m <= Bias(BF16)
  /\ \A i \in 0 .. Top(Single) + SINGLE_M + 1 : KnownPower(i)
<1>1. Single.e = BF16.e /\ Single.m = SINGLE_M /\ SINGLE_M \in Nat /\ BF16.e \in Nat
  BY FormatAssumption DEF Single
<1>2. Top(Single) = Top(BF16) /\ Bias(Single) = Bias(BF16)
  BY <1>1 DEF Top, Bias
<1>3. PICK t \in Nat : t = Top(BF16) /\ 2 ^ BF16.e = t + 1
  BY FormatFacts DEF AnyFormat
<1>4. \A i \in 0 .. t + SINGLE_M + 1 : KnownPower(i)
  <2>1. 2 ^ Single.e + Single.m \in Nat /\ t + SINGLE_M + 1 = 2 ^ Single.e + Single.m
    BY <1>1, <1>3
  <2> QED BY <2>1 DEF KnownPower
<1>5. 2 ^ SINGLE_M \in Nat \ {0}
  <2>1. SINGLE_M \in 0 .. t + SINGLE_M + 1
    BY <1>1
  <2> QED BY <1>4, <2>1, PowersKnown
<1>6. Negative(Single) = (t + 1) * 2 ^ SINGLE_M
  <2>1. KnownPower(BF16.e + SINGLE_M)
    <3>1. BF16.e \in Nat /\ BF16.e <= t + 1
      <4>1. BF16.e < WIDTH /\ WIDTH < INT_WIDTH /\ INT_WIDTH <= 2 ^ (BF16.e - 1)
            /\ BF16.e > 1 /\ WIDTH \in Nat /\ INT_WIDTH \in Nat
        BY <1>1, FormatAssumption, WidthAssumption
      <4>2. PICK b \in Nat : b = Bias(BF16) /\ t = 2 * b + 1
        BY <1>3, FloatFacts
      <4>3. 2 ^ (BF16.e - 1) = b + 1
        <5>1. BF16.e - 1 \in 0 .. 2 * WIDTH
          BY <1>1, <4>1
        <5>2. 2 ^ (BF16.e - 1) \in Nat
          BY <5>1, Powers
        <5> QED BY <4>2, <5>2 DEF Bias
      <4> QED BY <1>1, <4>1, <4>2, <4>3
    <3>2. BF16.e + SINGLE_M \in 0 .. t + SINGLE_M + 1
      BY <1>1, <3>1
    <3> QED BY <1>4, <3>2
  <2>2. 2 ^ (BF16.e + SINGLE_M) = 2 ^ BF16.e * 2 ^ SINGLE_M
    BY <1>1, <2>1, PowersKnown
  <2> QED BY <1>1, <1>3, <2>2 DEF Negative
<1>7. INT_WIDTH <= Bias(BF16) + 1 /\ Bias(F16) + F16.m <= Bias(BF16)
  <2>1. /\ INT_WIDTH <= 2 ^ (BF16.e - 1) /\ INT_WIDTH \in Nat /\ F16.m \in Nat
        /\ 2 ^ (F16.e - 1) + F16.m <= 2 ^ (BF16.e - 1)
    BY FormatAssumption
  <2>2. \A F \in {F16, BF16} : 2 ^ (F.e - 1) \in Nat
    <3>1. \A F \in {F16, BF16} : F.e - 1 \in 0 .. 2 * WIDTH
      BY FormatAssumption, WidthAssumption
    <3> QED BY <3>1, Powers
  <2>3. PICK u \in Nat, v \in Nat : u = 2 ^ (F16.e - 1) /\ v = 2 ^ (BF16.e - 1)
    BY <2>2
  <2>4. Bias(F16) = u - 1 /\ Bias(BF16) = v - 1
    BY <2>3 DEF Bias
  <2> QED BY <2>1, <2>3, <2>4
<1> QED BY <1>1, <1>2, <1>3, <1>4, <1>5, <1>6, <1>7

\* Floats are their fields.
LEMMA SingleFields ==
  ASSUME NEW f \in ASingle
  PROVE  /\ sign(Single, f) \in {0, 1} /\ exponent(Single, f) \in 0 .. Top(Single)
         /\ mantissa(Single, f) \in 0 .. 2 ^ SINGLE_M - 1
         /\ f = Word(Single, sign(Single, f), exponent(Single, f), mantissa(Single, f))
<1>1. PICK p \in Nat \ {0}, t \in Nat : p = 2 ^ SINGLE_M /\ t = Top(Single) /\ Negative(Single) = (t + 1) * p
  BY SingleFacts, FloatFacts
<1>2. PICK N \in Nat \ {0} : N = Negative(Single) /\ N = (t + 1) * p
  <2>1. (t + 1) * p \in Nat \ {0}
    OBVIOUS
  <2> QED BY <1>1, <2>1
<1>3. f \in 0 .. 2 * N - 1
  BY <1>2 DEF ASingle
<1>4. /\ f \div N \in {0, 1} /\ (f % N) \div p \in 0 .. t /\ f % p \in 0 .. p - 1
      /\ f = (f \div N) * N + ((f % N) \div p) * p + (f % p)
  <2>1. ArePartsOf(f, p, t, N)
    BY <1>2, <1>3, SplitFields
  <2> QED BY <2>1 DEF ArePartsOf
<1>5. sign(Single, f) = f \div N /\ exponent(Single, f) = (f % N) \div p /\ mantissa(Single, f) = f % p
  BY <1>1, <1>2, SingleFacts DEF sign, exponent, mantissa
<1>6. f = sign(Single, f) * Negative(Single) + exponent(Single, f) * 2 ^ Single.m + mantissa(Single, f)
  BY <1>1, <1>2, <1>4, <1>5, SingleFacts
<1> QED BY <1>1, <1>4, <1>5, <1>6 DEF Word

\* A float joined from its fields.
LEMMA SingleWord ==
  ASSUME NEW s \in {0, 1}, NEW x \in 0 .. Top(Single), NEW m \in 0 .. 2 ^ SINGLE_M - 1, NEW f, f = Word(Single, s, x, m)
  PROVE  f \in ASingle /\ sign(Single, f) = s /\ exponent(Single, f) = x /\ mantissa(Single, f) = m
<1>1. PICK p \in Nat \ {0}, t \in Nat : p = 2 ^ SINGLE_M /\ t = Top(Single) /\ Negative(Single) = (t + 1) * p
  BY SingleFacts, FloatFacts
<1>2. PICK N \in Nat \ {0} : N = Negative(Single) /\ N = (t + 1) * p
  <2>1. (t + 1) * p \in Nat \ {0}
    OBVIOUS
  <2> QED BY <1>1, <2>1
<1>3. f = s * N + x * p + m /\ x \in 0 .. t /\ m \in 0 .. p - 1
  BY <1>1, <1>2, SingleFacts DEF Word
<1>4. /\ N \in Nat \ {0} /\ f \in 0 .. 2 * N - 1
      /\ f \div N = s /\ (f % N) \div p = x /\ f % p = m
  <2>1. PICK k \in 0 .. t, l \in 0 .. p - 1, g \in Int :
          k = x /\ l = m /\ g = f /\ g = s * N + k * p + l
    BY <1>3
  <2>2. AreFields(p, t, N, s, k, l, g)
    BY <1>2, <2>1, JoinFields
  <2> QED BY <2>1, <2>2 DEF AreFields
<1> QED BY <1>1, <1>2, <1>4, SingleFacts DEF ASingle, sign, exponent, mantissa

\* A float cut to an integer of so many bits.
LEMMA CutFloats ==
  ASSUME NEW f \in ASingle, NEW width \in {INT_WIDTH, LONG_WIDTH}
  PROVE  IntegersOf(f, width) \subseteq Longs /\ IntegersOf(f, width) \subseteq Int
<1>1. PICK M \in Nat, p \in Nat \ {0}, b \in Nat, t \in Nat :
        /\ M = SINGLE_M /\ p = 2 ^ M /\ b = Bias(Single) /\ t = Top(Single) /\ t = 2 * b + 1
        /\ M = Single.m /\ \A i \in 0 .. t + M + 1 : KnownPower(i)
  BY SMTT(40), SingleFacts, FloatFacts
<1>2. /\ sign(Single, f) \in {0, 1} /\ exponent(Single, f) \in 0 .. t
      /\ mantissa(Single, f) \in 0 .. p - 1
  BY <1>1, SingleFields
<1>3. PICK n \in Nat : n = Mant(Single, f)
  BY <1>1, <1>2 DEF Mant
<1>4. PICK x \in Int : x = Exp(Single, f) /\ 1 - b <= x /\ x <= t
  BY <1>1, <1>2 DEF Exp, Class
<1>5. PICK c \in Int : c = M - x /\ c <= t + M + 1 /\ -c <= t + M + 1
  BY <1>1, <1>4
<1>6. PICK v \in Int : v = Aligned(n, c)
  <2>1. CASE c >= 0
    <3>1. PICK q \in Nat \ {0} : q = 2 ^ c
      <4>1. c \in 0 .. t + M + 1
        BY <1>5, <2>1
      <4> QED BY <1>1, <4>1, PowersKnown
    <3>2. n \div q \in Int
      OBVIOUS
    <3> QED BY <2>1, <3>1, <3>2 DEF Aligned
  <2>2. CASE ~(c >= 0)
    <3>1. PICK q \in Nat \ {0} : q = 2 ^ (-c)
      <4>1. -c \in 0 .. t + M + 1
        BY <1>5, <2>2
      <4> QED BY <1>1, <4>1, PowersKnown
    <3>2. n * q \in Int
      OBVIOUS
    <3> QED BY <2>2, <3>1, <3>2 DEF Aligned
  <2> QED BY <2>1, <2>2
<1>7. PICK h \in Nat, H \in Nat : h = 2 ^ (width - 1) /\ H = 2 ^ (LONG_WIDTH - 1) /\ h <= H /\ h > 0
  <2>1. width - 1 \in Nat /\ LONG_WIDTH - 1 \in 0 .. LONG_WIDTH /\ width - 1 <= LONG_WIDTH - 1
    BY LongPowers
  <2>2. KnownPower(LONG_WIDTH - 1) /\ KnownPower(width - 1) /\ 2 ^ (width - 1) <= 2 ^ (LONG_WIDTH - 1)
    BY <2>1, LongPowers, PowersOrdered
  <2> QED BY <2>2, PowersKnown
<1>8. PICK i \in Int : i = IF sign(Single, f) = 1 THEN -v ELSE v
  OBVIOUS
<1>9. IntegersOf(f, width) \subseteq -h .. h
  <2>1. Clamp(i, -h, h - 1) \in -h .. h
    BY <1>7 DEF Clamp
  <2> QED BY <1>1, <1>3, <1>4, <1>5, <1>6, <1>7, <1>8, <2>1 DEF IntegersOf
<1> QED BY <1>7, <1>9 DEF Longs

\* The integers that are converted to float.
Ints == -(2 ^ (INT_WIDTH - 1)) .. 2 ^ (INT_WIDTH - 1)

\* Every int has a float.
LEMMA FloatsOfInts ==
  ASSUME NEW i \in Ints
  PROVE  FloatOfInt(i) \in ASingle
<1>1. PICK M \in Nat, p \in Nat \ {0}, b \in Nat, t \in Nat :
        /\ M = SINGLE_M /\ p = 2 ^ M /\ b = Bias(Single) /\ t = Top(Single) /\ t = 2 * b + 1
        /\ M = Single.m /\ INT_WIDTH <= b + 1
  BY SingleFacts, FloatFacts
<1>2. CASE i = 0
  <2>1. Word(Single, 0, 0, 0) = 0
    <3>1. Negative(Single) \in Nat /\ 2 ^ Single.m \in Nat
      <4>1. (t + 1) * p \in Nat
        OBVIOUS
      <4> QED BY <1>1, <4>1, SingleFacts
    <3> QED BY <3>1 DEF Word
  <2>2. 0 \in 0 .. Top(Single) /\ 0 \in 0 .. 2 ^ SINGLE_M - 1
    BY <1>1
  <2>3. Word(Single, 0, 0, 0) \in ASingle
    BY <2>2, SingleWord
  <2> QED BY <1>2, <2>1, <2>3 DEF FloatOfInt
<1>3. CASE i # 0
  <2>1. PICK k \in Nat : k = INT_WIDTH - 1 /\ k + 1 \in 0 .. LONG_WIDTH /\ k \in 0 .. LONG_WIDTH - 1 /\ k <= b
    BY <1>1, LongPowers
  <2>2. PICK h \in Nat \ {0} : h = 2 ^ k /\ 2 ^ (k + 1) = 2 * h /\ 2 * h <= 2 ^ LONG_WIDTH
    <3>1. 2 ^ (k + 1) = 2 ^ k * 2 ^ 1 /\ 2 ^ (k + 1) <= 2 ^ LONG_WIDTH /\ 2 ^ k \in Nat \ {0}
      <4>1. KnownPower(k + 1) /\ 2 ^ (k + 1) <= 2 ^ LONG_WIDTH /\ 1 \in Nat /\ 2 ^ k \in Nat \ {0}
        BY <2>1, LongPowers
      <4> QED BY <4>1, PowersKnown
    <3> QED BY <3>1, FirstPowers
  <2>3. PICK n \in Nat \ {0} : n = Absolute(i) /\ n < 2 ^ (k + 1) /\ n < 2 ^ LONG_WIDTH
    <3>1. 2 ^ LONG_WIDTH \in Nat
      BY LongPowers
    <3>2. i \in -h .. h
      BY <2>1, <2>2 DEF Ints
    <3> QED BY <1>3, <2>2, <3>1, <3>2 DEF Absolute
  <2>4. PICK y \in 0 .. k : y = Msb(n)
    BY <2>1, <2>3, HighestBit
  <2>5. PICK a \in p .. 2 * p - 1 : a = Aligned(n, Carry(Single, n))
    BY <1>1, <2>3, Aligning
  <2>6. PICK s \in {0, 1} : s = IF i < 0 THEN 1 ELSE 0
    OBVIOUS
  <2>7. y + b \in 0 .. Top(Single) /\ a - p \in 0 .. 2 ^ SINGLE_M - 1
    BY <1>1, <2>1
  <2>8. Word(Single, s, y + b, a - p) \in ASingle
    BY <2>7, SingleWord
  <2> QED BY <1>1, <1>3, <2>3, <2>4, <2>5, <2>6, <2>8 DEF FloatOfInt
<1> QED BY <1>2, <1>3

\* A mantissa's digits are a format's and those that are dropped.
LEMMA DroppedDigits ==
  ASSUME NEW F \in {F16, BF16}
  PROVE  \E d \in Nat \ {0} : /\ d = 2 ^ (SINGLE_M - F.m) /\ 2 ^ SINGLE_M = 2 ^ F.m * d
                              /\ \E h \in Nat \ {0} : h = 2 ^ (SINGLE_M - F.m - 1) /\ d = 2 * h
<1>1. PICK M \in Nat, m \in Nat, r \in Nat : M = SINGLE_M /\ m = F.m /\ r = M - m - 1 /\ M = m + (r + 1)
  BY SMTT(40), FormatAssumption, FloatFacts
<1>2. KnownPower(M)
  <2>1. M \in 0 .. Top(Single) + SINGLE_M + 1
    BY <1>1, SingleFacts, FloatFacts
  <2> QED BY <2>1, SingleFacts
<1>3. 2 ^ M = 2 ^ m * 2 ^ (r + 1) /\ KnownPower(r + 1)
  BY <1>1, <1>2, PowersKnown
<1>4. 2 ^ (r + 1) = 2 ^ r * 2 ^ 1 /\ KnownPower(r)
  BY <1>3, PowersKnown
<1>5. PICK h \in Nat \ {0} : h = 2 ^ r
  BY <1>4, PowersKnown
<1>6. 2 ^ (r + 1) = 2 * h /\ 2 * h \in Nat \ {0} /\ SINGLE_M - F.m = r + 1 /\ SINGLE_M - F.m - 1 = r
  BY <1>1, <1>4, <1>5, FirstPowers
<1> QED BY <1>1, <1>3, <1>5, <1>6

\* Every f16 is a float.
LEMMA FloatsOfF16 ==
  ASSUME NEW w \in AWord
  PROVE  float_from_f16(w) \in ASingle
<1>1. PICK m \in Nat \ {0}, p \in Nat \ {0}, b \in Nat \ {0}, B \in Nat \ {0} :
        /\ m = F16.m /\ p = 2 ^ m /\ b = Bias(F16) /\ Top(F16) = 2 * b + 1
        /\ B = Bias(Single) /\ Top(Single) = 2 * B + 1 /\ b + m <= B
  BY SingleFacts, FloatFacts
<1>2. PICK d \in Nat \ {0} : d = 2 ^ DROPPED /\ 2 ^ SINGLE_M = p * d
  BY <1>1, DroppedDigits DEF DROPPED
<1>3. PICK s \in {0, 1}, x \in 0 .. 2 * b + 1, l \in 0 .. p - 1 :
        s = sign(F16, w) /\ x = exponent(F16, w) /\ l = mantissa(F16, w)
  BY <1>1, Fields DEF AnyFormat
<1>4. ASSUME NEW k \in 0 .. p - 1
      PROVE  k * d \in 0 .. 2 ^ SINGLE_M - 1
  <2>1. k * d <= (p - 1) * d /\ (p - 1) * d = p * d - d /\ k * d \in Nat /\ p * d \in Nat
    OBVIOUS
  <2> QED BY <1>2, <2>1
<1>5. CASE Class(F16, w) = "ZERO"
  <2>1. 0 \in 0 .. Top(Single) /\ 0 \in 0 .. 2 ^ SINGLE_M - 1
    BY <1>1, SingleFacts
  <2>2. Word(Single, s, 0, 0) \in ASingle
    BY <2>1, SingleWord
  <2> QED BY <1>3, <1>5, <2>2 DEF float_from_f16, Zero
<1>6. CASE Class(F16, w) = "SUBNORMAL"
  <2>1. x = 0 /\ l # 0 /\ Mant(F16, w) = l /\ Exp(F16, w) = 1 - b
    BY <1>1, <1>3, <1>6 DEF Class, Mant, Exp
  <2>2. PICK n \in Nat \ {0} : n = l /\ n < p
    BY <2>1
  <2>3. PICK h \in 0 .. m - 1 : h = Msb(n)
    <3>1. m - 1 \in 0 .. LONG_WIDTH - 1 /\ n < 2 ^ ((m - 1) + 1)
      BY <1>1, <2>2, FloatFacts
    <3>2. Msb(n) \in 0 .. m - 1
      BY <3>1, HighestBit
    <3> QED BY <3>2
  <2>4. PICK u \in Nat \ {0} : u = 2 ^ (m - h) /\ n * u \in p .. 2 * p - 1
    <3>1. n < 2 ^ LONG_WIDTH
      BY <1>1, <2>2, Carries
    <3>2. Carry(F16, n) = h - m /\ h - m < 0 /\ -(h - m) = m - h
      BY <1>1, <2>3 DEF Carry
    <3>3. /\ Aligned(n, Carry(F16, n)) \in p .. 2 * p - 1
          /\ 2 ^ (-Carry(F16, n)) \in Nat \ {0} /\ Aligned(n, Carry(F16, n)) = n * 2 ^ (-Carry(F16, n))
      BY <1>1, <3>1, <3>2, Aligning
    <3> QED BY <3>2, <3>3
  <2>5. PICK k \in 0 .. p - 1 : k = n * u - p
    BY <2>4
  <2>6. B + (1 - b) - (m - h) \in 0 .. Top(Single) /\ k * d \in 0 .. 2 ^ SINGLE_M - 1
    BY <1>1, <1>4
  <2>7. Word(Single, s, B + (1 - b) - (m - h), k * d) \in ASingle
    BY <2>6, SingleWord
  <2> QED BY <1>1, <1>2, <1>3, <1>6, <2>1, <2>2, <2>3, <2>4, <2>5, <2>7 DEF float_from_f16
<1>7. CASE Class(F16, w) \in {"INF", "NAN"}
  <2>1. Top(Single) \in 0 .. Top(Single) /\ l * d \in 0 .. 2 ^ SINGLE_M - 1
    BY <1>1, <1>4
  <2>2. Word(Single, s, Top(Single), l * d) \in ASingle
    BY <2>1, SingleWord
  <2> QED BY <1>2, <1>3, <1>7, <2>2 DEF float_from_f16
<1>8. CASE Class(F16, w) = "NORMAL"
  <2>1. Exp(F16, w) = x - b /\ x # 2 * b + 1
    BY <1>1, <1>3, <1>8 DEF Class, Exp
  <2>2. (x - b) + B \in 0 .. Top(Single) /\ l * d \in 0 .. 2 ^ SINGLE_M - 1
    BY <1>1, <1>4, <2>1
  <2>3. Word(Single, s, (x - b) + B, l * d) \in ASingle
    BY <2>2, SingleWord
  <2> QED BY <1>1, <1>2, <1>3, <1>8, <2>1, <2>3 DEF float_from_f16
<1> QED BY <1>5, <1>6, <1>7, <1>8 DEF Class

\* Every bf16 is a float, and every float is rounded to one.
LEMMA FloatsOfBf16 ==
  /\ \A w \in AWord : float_from_bf16(w) \in ASingle
  /\ \A f \in ASingle : bf16_from_float(f) \in AWord
<1>1. PICK p \in Nat \ {0}, t \in Nat, d \in Nat \ {0}, h \in Nat \ {0} :
        /\ p = 2 ^ BF16.m /\ t = Top(BF16) /\ d = 2 ^ CUT /\ h = 2 ^ (CUT - 1)
        /\ 2 ^ SINGLE_M = p * d /\ SIGN = (t + 1) * p /\ Negative(Single) = (t + 1) * (p * d)
  <2>1. PICK d \in Nat \ {0} : /\ d = 2 ^ (SINGLE_M - BF16.m) /\ 2 ^ SINGLE_M = 2 ^ BF16.m * d
                              /\ \E h \in Nat \ {0} : h = 2 ^ (SINGLE_M - BF16.m - 1) /\ d = 2 * h
    BY DroppedDigits
  <2>2. PICK h \in Nat \ {0} : h = 2 ^ (SINGLE_M - BF16.m - 1)
    BY <2>1
  <2>3. PICK p \in Nat \ {0}, t \in Nat : p = 2 ^ BF16.m /\ t = Top(BF16) /\ SIGN = (t + 1) * p
    BY FloatFacts
  <2> QED BY <2>1, <2>2, <2>3, SingleFacts DEF CUT
<1>2. PICK S \in Nat \ {0} : S = SIGN /\ Negative(Single) = S * d /\ WORDS = 2 * S
  <2>1. (t + 1) * (p * d) = ((t + 1) * p) * d
    OBVIOUS
  <2> QED BY <1>1, <2>1, WordFacts
<1>3. PICK N \in Nat : N = Negative(Single) /\ N = S * d
  BY <1>2
<1>4. ASSUME NEW w \in AWord
      PROVE  float_from_bf16(w) \in ASingle
  <2>1. w \in 0 .. 2 * S - 1
    BY <1>2 DEF AWord
  <2>2. w * d <= (2 * S - 1) * d /\ (2 * S - 1) * d = 2 * (S * d) - d /\ w * d \in Nat /\ S * d \in Nat
    BY <2>1
  <2>3. w * d \in 0 .. 2 * N - 1
    BY <1>3, <2>2
  <2> QED BY <1>1, <1>3, <2>3 DEF float_from_bf16, ASingle
<1>5. ASSUME NEW f \in ASingle
      PROVE  bf16_from_float(f) \in AWord
  <2>1. f \in Int
    BY <1>3 DEF ASingle
  <2>2. f \div d \in Int
    BY <2>1
  <2>3. PICK lsb \in {0, 1} : lsb = (f \div d) % 2
    BY <2>2
  <2>4. PICK n \in Int : n = f + h - 1 + lsb
    BY <2>1
  <2>5. n \div d \in Int
    OBVIOUS
  <2>6. PICK q \in Int : q = n \div d
    BY <2>5
  <2>7. q % (2 * S) \in 0 .. 2 * S - 1
    OBVIOUS
  <2>8. bf16_from_float(f) = q % (2 * S)
    BY <1>1, <1>2, <2>3, <2>4, <2>6 DEF bf16_from_float
  <2> QED BY <1>2, <2>7, <2>8 DEF AWord
<1> QED BY <1>4, <1>5

\* Every float is rounded to an f16.
LEMMA F16OfFloats ==
  ASSUME NEW f \in ASingle
  PROVE  f16_from_float(f) \subseteq AWord
<1>1. PICK m \in Nat \ {0}, p \in Nat \ {0}, b \in Nat \ {0}, B \in Nat \ {0}, M \in Nat, P \in Nat \ {0} :
        /\ m = F16.m /\ p = 2 ^ m /\ b = Bias(F16) /\ Top(F16) = 2 * b + 1
        /\ B = Bias(Single) /\ Top(Single) = 2 * B + 1 /\ M = SINGLE_M /\ P = 2 ^ M
  BY SingleFacts, FloatFacts
<1>2. PICK d \in Nat \ {0}, h \in Nat \ {0} : d = 2 ^ DROPPED /\ P = p * d /\ h = 2 ^ (DROPPED - 1) /\ d = 2 * h
  <2>1. PICK d \in Nat \ {0} : /\ d = 2 ^ (SINGLE_M - F16.m) /\ 2 ^ SINGLE_M = 2 ^ F16.m * d
                              /\ \E h \in Nat \ {0} : h = 2 ^ (SINGLE_M - F16.m - 1) /\ d = 2 * h
    BY DroppedDigits
  <2>2. PICK h \in Nat \ {0} : h = 2 ^ (SINGLE_M - F16.m - 1) /\ d = 2 * h
    BY <2>1
  <2> QED BY <1>1, <2>1, <2>2 DEF DROPPED
<1>3. PICK s \in {0, 1}, y \in 0 .. 2 * B + 1, l \in 0 .. P - 1 :
        s = sign(Single, f) /\ y = exponent(Single, f) /\ l = mantissa(Single, f)
  BY <1>1, SingleFields
<1>4. PICK x \in Int : x = y - B + b
  OBVIOUS
<1>5. ASSUME x <= 0
      PROVE  SubnormalFromFloat(f, x) \subseteq AWord
  <2>1. PICK shift \in Nat \ {0} : shift = 1 - x
    BY <1>5
  <2>2. CASE shift > M + 1
    BY <1>1, <1>3, <2>1, <2>2, SpecialWords DEF SubnormalFromFloat
  <2>3. CASE ~(shift > M + 1)
    <3>1. PICK r \in Nat \ {0} : r = 2 ^ (shift - 1)
      <4>1. shift - 1 \in 0 .. Top(Single) + SINGLE_M + 1
        BY <1>1, <2>3
      <4>2. KnownPower(shift - 1)
        BY <4>1, SingleFacts
      <4> QED BY <4>2, PowersKnown
    <3>2. PICK u \in Nat, c \in Nat : u = l + P + r /\ c = shift + DROPPED
      <4>1. DROPPED \in Nat
        BY FormatAssumption, FloatFacts DEF DROPPED
      <4> QED BY <4>1
    <3>3. ShiftedRight(u, c) \subseteq 0 .. u
      BY ShiftedDown
    <3>4. ASSUME NEW n \in ShiftedRight(u, c)
          PROVE  Word(F16, s, 0, n % p) \in AWord
      <4>1. n \in Nat
        BY <3>3, <3>4
      <4>2. n % p \in 0 .. p - 1 /\ 0 \in 0 .. Top(F16)
        BY <1>1, <4>1
      <4> QED BY <1>1, <4>2, WordOfFields
    <3> QED BY <1>1, <1>3, <2>1, <2>3, <3>1, <3>2, <3>4 DEF SubnormalFromFloat
  <2> QED BY <2>2, <2>3
<1>6. ASSUME x > 0, x < 2 * b + 1
      PROVE  NormalFromFloat(f, x) \in AWord
  <2>1. PICK q \in Nat : q = (l + h) \div d /\ q <= p
    <3>1. PICK g \in Nat : g = l + h
      OBVIOUS
    <3>2. PICK k \in Nat : k = g \div d /\ k * d <= g
      <4>1. g = (g \div d) * d + (g % d) /\ g \div d \in Nat /\ g % d \in 0 .. d - 1
        BY DividedParts
      <4>2. PICK k \in Nat, r \in Nat : k = g \div d /\ r = g % d /\ g = k * d + r
        BY <4>1
      <4>3. k * d \in Nat
        OBVIOUS
      <4> QED BY <4>2, <4>3
    <3>3. k * d < (p + 1) * d
      <4>1. (p + 1) * d = p * d + d /\ k * d \in Nat /\ p * d \in Nat
        OBVIOUS
      <4>2. g < p * d + d
        BY <1>2, <1>3, <3>1, <4>1
      <4> QED BY <3>2, <4>1, <4>2
    <3>4. k <= p
      <4> SUFFICES ASSUME k >= p + 1
                   PROVE  FALSE
        OBVIOUS
      <4>1. k * d >= (p + 1) * d /\ k * d \in Nat /\ (p + 1) * d \in Nat
        OBVIOUS
      <4> QED BY <3>3, <4>1
    <3> QED BY <3>1, <3>2, <3>4
  <2>2. PICK S \in Nat : S = SIGN /\ S = (2 * b + 2) * p /\ WORDS = 2 * S /\ Negative(F16) = S
    BY <1>1, FloatFacts, WordFacts
  <2>3. x * p + q \in 0 .. S - 1
    <3>1. x * p <= (2 * b) * p /\ S = (2 * b) * p + 2 * p /\ x * p \in Nat /\ (2 * b) * p \in Nat
      BY <1>6, <2>2
    <3> QED BY <2>1, <3>1
  <2>4. PICK z \in 0 .. S - 1 : z = x * p + q
    BY <2>3
  <2>5. NormalFromFloat(f, x) = s * S + z
    <3>1. NormalFromFloat(f, x) = s * S + x * p + 0 + q
      BY <1>1, <1>2, <1>3, <2>1, <2>2 DEF NormalFromFloat, Word
    <3>2. x * p \in Int /\ s * S \in Int
      OBVIOUS
    <3> QED BY <2>4, <3>1, <3>2
  <2>6. s * S + z \in 0 .. 2 * S - 1
    OBVIOUS
  <2> QED BY <2>2, <2>5, <2>6 DEF AWord
<1>7. f16_from_float(f) \in
        {{Zero(F16, s)}, {Word(F16, s, Top(F16), 2 ^ (F16.m - 1))}, {Infinity(F16, s)}}
        \cup (IF x <= 0 THEN {SubnormalFromFloat(f, x)}
              ELSE IF x < 2 * b + 1 THEN {{NormalFromFloat(f, x)}} ELSE {})
  BY <1>1, <1>3, <1>4 DEF f16_from_float
<1> QED BY <1>5, <1>6, <1>7, SpecialWords

\* Conversions and calculations on formats give words.
LEMMA FormatWords ==
  ASSUME NEW m \in FLOAT_OPS \cup CONVERSIONS, NEW a \in AWord, NEW b \in AWord
  PROVE  FormatResults(m, a, b) \subseteq AWord
<1>1. 0 \in AWord /\ Negated(F16, b) \in AWord /\ Negated(BF16, b) \in AWord
  BY WordFacts, Negating DEF AWord
<1>2. Negated(FI16, b) \in AWord
  <2>1. Negative(FI16) = SIGN
    BY FormatFacts DEF AnyFormat
  <2>2. PICK S \in Nat \ {0} : S = SIGN /\ WORDS = 2 * S
    BY WordFacts
  <2>3. (b + S) % (2 * S) \in 0 .. 2 * S - 1
    BY <2>2 DEF AWord
  <2> QED BY <2>1, <2>2, <2>3 DEF Negated, AWord
<1>3. /\ Signed(a) \in Ints /\ IntegerOf(a, INT_WIDTH) \in Ints /\ a \in Longs
      /\ Signed(a) \in Int /\ IntegerOf(a, INT_WIDTH) \in Int
  <2>1. /\ INT_WIDTH - 1 \in Nat /\ WIDTH - 1 \in Nat /\ WIDTH \in Nat /\ LONG_WIDTH - 1 \in 0 .. LONG_WIDTH
        /\ WIDTH - 1 <= INT_WIDTH - 1 /\ WIDTH <= LONG_WIDTH - 1 /\ INT_WIDTH - 1 \in 0 .. LONG_WIDTH
    BY LongPowers, FormatAssumption, WidthAssumption
  <2>2. 2 ^ (WIDTH - 1) <= 2 ^ (INT_WIDTH - 1) /\ 2 ^ WIDTH <= 2 ^ (LONG_WIDTH - 1)
    BY <2>1, LongPowers, PowersOrdered
  <2>3. PICK i \in Nat, l \in Nat : i = 2 ^ (INT_WIDTH - 1) /\ l = 2 ^ (LONG_WIDTH - 1)
    BY <2>1, LongPowers
  <2>4. SIGN <= i /\ WORDS <= l /\ SIGN \in Nat /\ WORDS \in Nat
    BY <2>2, <2>3, WordFacts DEF SIGN, WORDS
  <2>5. Signed(a) \in -i .. i /\ Signed(a) \in Int
    BY <2>4, Numbers
  <2>6. IntegerOf(a, INT_WIDTH) \in -i .. i - 1
    BY <2>3, FintIntegers
  <2>7. a \in -l .. l
    BY <2>4 DEF AWord
  <2> QED BY <2>3, <2>5, <2>6, <2>7 DEF Ints, Longs
<1>4. \A i \in Int : Wrap(i) \in AWord
  <2>1. PICK W \in Nat \ {0} : W = WORDS
    BY WordFacts
  <2> QED BY <2>1 DEF Wrap, AWord
<1>5. \A X \in SUBSET Int : Words(X) \subseteq AWord
  BY <1>4 DEF Words
<1>6. float_from_f16(a) \in ASingle /\ float_from_bf16(a) \in ASingle
  BY FloatsOfF16, FloatsOfBf16
<1>7. FloatOfInt(Signed(a)) \in ASingle /\ FloatOfInt(IntegerOf(a, INT_WIDTH)) \in ASingle
  BY <1>3, FloatsOfInts
<1>8. CASE m \in {"ADDF", "SUBF", "ADDD", "SUBD"}
  BY <1>1, <1>8, SumWords DEF FormatResults, Differences
<1>9. CASE m \in {"MULF", "DIVF", "MULD", "DIVD"}
  BY <1>9, ProductWords DEF FormatResults
<1>10. CASE m \in {"ADDL", "SUBL", "MULL", "DIVL"}
  BY <1>1, <1>2, <1>10, FintResults DEF FormatResults
<1>11. CASE m \in {"CIF", "CDF", "CLF"}
  BY <1>6, <1>7, <1>11, F16OfFloats DEF FormatResults
<1>12. CASE m \in {"CID", "CFD", "CLD"}
  BY <1>6, <1>7, <1>12, FloatsOfBf16 DEF FormatResults
<1>13. CASE m \in {"CFI", "CDI", "CLI"}
  <2>1. /\ IntegersOf(float_from_f16(a), INT_WIDTH) \in SUBSET Int
        /\ IntegersOf(float_from_bf16(a), INT_WIDTH) \in SUBSET Int
    BY <1>6, CutFloats
  <2> QED BY <1>3, <1>4, <1>5, <1>13, <2>1 DEF FormatResults
<1>14. CASE m \in {"CIL", "CFL", "CDL"}
  <2>1. /\ \A i \in IntegersOf(float_from_f16(a), LONG_WIDTH) : FintsFrom(i, LONG_WIDTH) \subseteq AWord
        /\ \A i \in IntegersOf(float_from_bf16(a), LONG_WIDTH) : FintsFrom(i, LONG_WIDTH) \subseteq AWord
    BY <1>6, CutFloats, FintsWords
  <2>2. FintsFrom(a, INT_WIDTH) \subseteq AWord
    BY <1>3, FintsWords
  <2> QED BY <1>14, <2>1, <2>2 DEF FormatResults
<1> QED BY <1>8, <1>9, <1>10, <1>11, <1>12, <1>13, <1>14 DEF FLOAT_OPS, CONVERSIONS

\* Every calculation of CS_EXECUTE on words, whatever the operation or conversion
\* and whatever the mantissas are shifted by, leaves a word in the destination
\* and a truth value in AO.
THEOREM ResultsAreWords == Spec => []TypeOK
<1>1. Done => Results \subseteq AWord
  <2> SUFFICES ASSUME Done
               PROVE  Results \subseteq AWord
    OBVIOUS
  <2>1. CASE op = "CMP"
    BY <2>1 DEF Results, Done
  <2>2. CASE op # "CMP" /\ op \in OnFormats
    BY <2>2, FormatWords DEF Results, Done, OnFormats
  <2>3. CASE op # "CMP" /\ op \notin OnFormats
    <3>1. op \in INTEGER_OPS \cup UNARY_OPS
      BY <2>3 DEF Done
    <3>2. AluResults(op, destination, source, ao) \subseteq AWord
      BY <3>1, AluWords DEF Done
    <3> QED BY <2>3, <3>2, Plain
  <2> QED BY <2>1, <2>2, <2>3
<1>2. Init => Done /\ TypeOK
  <2> SUFFICES ASSUME Init
               PROVE  Done /\ TypeOK
    OBVIOUS
  <2>1. 0 \in AWord
    BY WordFacts DEF AWord
  <2> QED BY <2>1 DEF Init, Done, TypeOK
<1>3. Done /\ Done' /\ TypeOK /\ [Next]_arithmeticVars => TypeOK'
  <2> SUFFICES ASSUME Done, TypeOK, [Next]_arithmeticVars
               PROVE  TypeOK'
    OBVIOUS
  <2>1. CASE Calculate
    <3>1. AluOverflow(op, destination, source, ao) \in BOOLEAN
      BY AluAo DEF Done
    <3> QED BY <1>1, <2>1, <3>1 DEF Calculate, TypeOK
  <2>2. CASE Hang
    BY <2>2 DEF Hang, TypeOK
  <2>3. CASE UNCHANGED arithmeticVars
    BY <2>3 DEF arithmeticVars, TypeOK
  <2> QED BY <2>1, <2>2, <2>3 DEF Next
<1> QED BY <1>2, <1>3, DoneHolds, PTL DEF Spec

-----------------------------------------------------------------------------
(***************************************************************************)
(* How far a result of the fint unit is off the exact one.                 *)
(***************************************************************************)

\* Where two words have no bit in common, or is their sum.
LEMMA JoinedBits ==
  ASSUME NEW k \in 0 .. WIDTH, NEW P \in Nat \ {0}, P = 2 ^ k, NEW q \in Nat, NEW r \in 0 .. P - 1,
         NEW w \in AWord, w = q * P + r
  PROVE  Combine(Or, q * P, r) = w
<1>1. PICK a \in Nat : a = q * P
  OBVIOUS
<1>2. w \in Nat /\ w = a + r /\ WIDTH \in Nat
  BY <1>1, WordFacts DEF AWord
<1>3. ASSUME NEW i \in 0 .. WIDTH - 1
      PROVE  Bit(w, i) = Or(Bit(a, i), Bit(r, i))
  <2>1. PICK I \in Nat \ {0} : I = 2 ^ i
    <3>1. i \in 0 .. 2 * WIDTH
      BY <1>2
    <3> QED BY <3>1, Powers
  <2>2. CASE i < k
    <3>1. PICK j \in Nat : k = i + (j + 1) /\ i + (j + 1) <= 2 * WIDTH /\ j + 1 <= 2 * WIDTH /\ i \in Nat
      <4>1. k - i - 1 \in Nat /\ k = i + ((k - i - 1) + 1)
        BY <1>2, <2>2
      <4> QED BY <1>2, <4>1
    <3>2. 2 ^ k = 2 ^ i * 2 ^ (j + 1) /\ 2 ^ (j + 1) = 2 ^ j * 2 ^ 1
      <4>1. j + 1 \in Nat /\ 1 \in Nat
        OBVIOUS
      <4> QED BY <3>1, <4>1, PowersAdd
    <3>3. PICK J \in Nat : J = 2 ^ j /\ P = I * (2 * J)
      <4>1. j \in 0 .. 2 * WIDTH
        BY <1>2, <3>1
      <4> QED BY <2>1, <3>2, <4>1, Powers, FirstPowers
    <3>4. PICK e \in Nat, f \in 0 .. I - 1 : e = r \div I /\ r = e * I + f
      <4> r \in Nat
        OBVIOUS
      <4>1. r = (r \div I) * I + (r % I) /\ r \div I \in Nat /\ r % I \in 0 .. I - 1
        BY DividedParts
      <4> QED BY <4>1
    <3>5. PICK c \in Nat : c = q * J
      OBVIOUS
    <3>6. a = (2 * c) * I + 0
      BY <1>1, <3>3, <3>5
    <3>7. PICK g \in Nat : g = 2 * c + e /\ w = g * I + f
      <4>1. (2 * c + e) * I = (2 * c) * I + e * I
        OBVIOUS
      <4> QED BY <1>2, <3>4, <3>6, <4>1
    <3>8. a \div I = 2 * c /\ w \div I = g
      <4>1. 2 * c \in Int /\ 0 \in 0 .. I - 1
        OBVIOUS
      <4>2. a \div I = 2 * c
        BY <3>6, <4>1, Division
      <4>3. w \div I = g
        BY <1>2, <3>7, <4>1, Division
      <4> QED BY <4>2, <4>3
    <3>9. (2 * c) % 2 = 0 /\ g % 2 = e % 2 /\ e % 2 \in Int
      BY <3>7
    <3>10. Bit(a, i) = 0 /\ Bit(w, i) = e % 2 /\ Bit(r, i) = e % 2
      BY <2>1, <3>4, <3>8, <3>9 DEF Bit
    <3> QED BY <3>9, <3>10 DEF Or
  <2>3. CASE ~(i < k)
    <3>1. PICK j \in Nat : i = k + j /\ k + j <= 2 * WIDTH /\ k \in Nat
      <4>1. i - k \in Nat /\ i = k + (i - k)
        BY <1>2, <2>3
      <4> QED BY <1>2, <4>1
    <3>2. PICK J \in Nat \ {0} : J = 2 ^ j /\ I = P * J
      <4>1. j \in 0 .. 2 * WIDTH
        BY <1>2, <3>1
      <4> QED BY <2>1, <3>1, <4>1, Powers, PowersAdd
    <3>3. PICK c \in Nat, d \in 0 .. J - 1 : q = c * J + d
      <4>1. q = (q \div J) * J + (q % J) /\ q \div J \in Nat /\ q % J \in 0 .. J - 1
        BY DividedParts
      <4> QED BY <4>1
    <3>4. PICK g \in Nat : g = d * P /\ g + r < I
      <4>1. d * P <= (J - 1) * P /\ (J - 1) * P = P * J - P /\ d * P \in Nat /\ P * J \in Nat
        OBVIOUS
      <4> QED BY <3>2, <4>1
    <3>5. a = c * I + g /\ w = c * I + (g + r)
      <4>1. (c * J + d) * P = (c * J) * P + d * P /\ (c * J) * P = c * (P * J)
        OBVIOUS
      <4>2. a = c * I + g
        BY <1>1, <3>2, <3>3, <3>4, <4>1
      <4>3. c * I \in Nat
        OBVIOUS
      <4> QED BY <1>2, <4>2, <4>3
    <3>6. a \div I = c /\ w \div I = c
      <4>1. g \in 0 .. I - 1 /\ g + r \in 0 .. I - 1
        BY <3>4
      <4>2. a \div I = c
        BY <3>5, <4>1, Division
      <4>3. w \div I = c
        BY <1>2, <3>5, <4>1, Division
      <4> QED BY <4>2, <4>3
    <3>7. r \div I = 0
      <4>1. r = 0 * I + r /\ r \in 0 .. I - 1 /\ r \in Int
        BY <3>4
      <4> QED BY <4>1, Division
    <3>8. c % 2 \in Int
      OBVIOUS
    <3> QED BY <2>1, <3>6, <3>7, <3>8 DEF Bit, Or
  <2> QED BY <2>2, <2>3
<1>4. \A v \in AWord : (\A i \in 0 .. WIDTH - 1 : Bit(v, i) = Bit(w, i)) => v = w
  <2>1. WIDTH \in 0 .. 2 * WIDTH
    BY <1>2
  <2> QED BY <2>1, BitsDecide DEF AWord, WORDS
<1>5. Combine(Or, a, r) = w
  <2> DEFINE G(v) == \A i \in 0 .. WIDTH - 1 : Bit(v, i) = Or(Bit(a, i), Bit(r, i))
  <2>1. G(w)
    BY <1>3
  <2>2. \A v \in AWord : G(v) => v = w
    BY <1>3, <1>4
  <2>3. Combine(Or, a, r) = CHOOSE v \in AWord : G(v)
    BY DEF Combine
  <2> HIDE DEF G
  <2> QED BY <2>1, <2>2, <2>3
<1> QED BY <1>1, <1>5

\* The parts of FI16.
LEMMA FintBasics ==
  \E p \in Nat \ {0}, t \in Nat, m \in Nat \ {0} :
    /\ p = 2 ^ FI16.m /\ t = Top(FI16) /\ t > 0 /\ m = FI16.m /\ 2 ^ FI16.e = t + 1
    /\ SIGN = (t + 1) * p /\ Negative(FI16) = SIGN
<1>1. FI16 \in AnyFormat
  BY DEF AnyFormat
<1>2. PICK p \in Nat \ {0}, t \in Nat, m \in Nat \ {0} : p = 2 ^ FI16.m /\ t = Top(FI16) /\ t > 0 /\ m = FI16.m
  BY <1>1, FormatFacts
<1>3. 2 ^ FI16.e = t + 1 /\ SIGN = 2 ^ FI16.e * 2 ^ FI16.m /\ Negative(FI16) = SIGN
  BY <1>1, <1>2, FormatFacts
<1> QED BY <1>2, <1>3

\* The powers of two that occur with fints.
LEMMA FintFacts ==
  \E p, t, T \in Nat :
    /\ p = 2 ^ FI16.m /\ p > 1 /\ t = Top(FI16) /\ t > 0 /\ T = t + FI16.m /\ FI16.m \in Nat \ {0}
    /\ SIGN = (t + 1) * p /\ Negative(FI16) = SIGN
    /\ INT_WIDTH <= T /\ T < LONG_WIDTH - 1
    /\ 2 ^ T = p * 2 ^ t
<1>1. PICK p \in Nat \ {0}, t \in Nat, m \in Nat \ {0} :
        /\ p = 2 ^ FI16.m /\ t = Top(FI16) /\ t > 0 /\ m = FI16.m /\ 2 ^ FI16.e = t + 1
        /\ SIGN = (t + 1) * p /\ Negative(FI16) = SIGN
  BY FintBasics
<1>2. INT_WIDTH <= t + m /\ t + m < LONG_WIDTH - 1
  BY <1>1, LongPowers, FormatAssumption
<1>3. KnownPower(m + t)
  <2>1. m + t \in 0 .. LONG_WIDTH
    BY <1>1, <1>2, LongPowers
  <2> QED BY <2>1, LongPowers
<1>4. 2 ^ (m + t) = 2 ^ m * 2 ^ t /\ KnownPower(m)
  BY <1>1, <1>3, PowersKnown
<1>5. p > 1
  <2>1. PICK k \in Nat : m = k + 1
    <3>1. m - 1 \in Nat
      OBVIOUS
    <3> QED BY <3>1
  <2>2. 2 ^ (k + 1) = 2 ^ k * 2 ^ 1 /\ KnownPower(k)
    BY <1>4, <2>1, PowersKnown
  <2>3. PICK q \in Nat \ {0} : q = 2 ^ k
    BY <2>2, PowersKnown
  <2> QED BY <1>1, <2>1, <2>2, <2>3, FirstPowers
<1>6. t + m \in Nat /\ t + m = m + t
  OBVIOUS
<1> QED BY <1>1, <1>2, <1>4, <1>5, <1>6

\* A fint joined from its fields.
LEMMA FintWord ==
  ASSUME NEW s \in {0, 1}, NEW x \in 0 .. Top(FI16), NEW l \in 0 .. 2 ^ FI16.m - 1
  PROVE  LET w == Word(FI16, s, x, l) IN
         /\ w \in AWord /\ sign(FI16, w) = s /\ exponent(FI16, w) = x /\ mantissa(FI16, w) = l
         /\ w = s * SIGN + x * 2 ^ FI16.m + l
<1>1. PICK p \in Nat \ {0}, t \in Nat : p = 2 ^ FI16.m /\ t = Top(FI16) /\ SIGN = (t + 1) * p /\ Negative(FI16) = SIGN
  BY FintBasics
<1>2. PICK S \in Nat \ {0} : S = SIGN /\ S = (t + 1) * p
  BY <1>1, WordFacts
<1>3. PICK y \in 0 .. t, k \in 0 .. p - 1 : y = x /\ k = l
  BY <1>1
<1>4. PICK w \in Int : w = s * S + y * p + k
  OBVIOUS
<1>5. w \in 0 .. 2 * S - 1 /\ w \div S = s /\ (w % S) \div p = y /\ w % p = k
  <2>1. AreFields(p, t, S, s, y, k, w)
    BY <1>2, <1>4, JoinFields
  <2> QED BY <2>1 DEF AreFields
<1>6. w = Word(FI16, s, x, l)
  BY <1>1, <1>2, <1>3, <1>4 DEF Word
<1>7. w \in AWord /\ sign(FI16, w) = s /\ exponent(FI16, w) = x /\ mantissa(FI16, w) = l
  BY <1>1, <1>2, <1>3, <1>5, WordFacts DEF AWord, sign, exponent, mantissa
<1> QED BY <1>1, <1>2, <1>3, <1>4, <1>6, <1>7

\* What the or of the fields is, as long as the exponent has no bit too many.
LEMMA JoinedFields ==
  ASSUME NEW s \in {0, 1}, NEW i \in Int, s = 1 <=> i < 0,
         NEW x \in 0 .. Top(FI16), NEW l \in 0 .. 2 ^ FI16.m - 1
  PROVE  Joined(i, [exponent |-> x, mantissa |-> l]) = Word(FI16, s, x, l)
<1>1. PICK p \in Nat \ {0}, t \in Nat, m \in Nat :
        p = 2 ^ m /\ m = FI16.m /\ t = Top(FI16) /\ SIGN = (t + 1) * p /\ m < WIDTH
  <2>1. FI16.m < WIDTH
    BY FormatAssumption, WidthAssumption
  <2> QED BY <2>1, FintBasics
<1>2. PICK S \in Nat \ {0} : S = SIGN /\ S = (t + 1) * p /\ WORDS = 2 * S
  BY <1>1, WordFacts
<1>3. PICK y \in 0 .. t, k \in 0 .. p - 1 : y = x /\ k = l
  BY <1>1
<1>4. PICK w \in AWord : w = Word(FI16, s, x, l) /\ w = s * S + y * p + k
  <2>1. Word(FI16, s, x, l) \in AWord /\ Word(FI16, s, x, l) = s * SIGN + x * 2 ^ FI16.m + l
    BY FintWord
  <2> QED BY <1>1, <1>2, <1>3, <2>1
<1>5. PICK v \in AWord : v = s * S + y * p
  <2>1. 0 \in 0 .. 2 ^ FI16.m - 1
    BY <1>1
  <2>2. Word(FI16, s, x, 0) \in AWord /\ Word(FI16, s, x, 0) = s * SIGN + x * 2 ^ FI16.m + 0
    BY <2>1, FintWord
  <2>3. s * S + y * p + 0 = s * S + y * p
    <3>1. s * S \in Int /\ y * p \in Int
      OBVIOUS
    <3> QED BY <3>1
  <2> QED BY <1>1, <1>2, <1>3, <2>2, <2>3
<1>6. Combine(Or, s * S, y * p) = v
  <2>1. PICK r \in 0 .. S - 1 : r = y * p
    <3>1. y * p <= t * p /\ (t + 1) * p = t * p + p /\ y * p \in Nat /\ t * p \in Nat
      OBVIOUS
    <3> QED BY <1>2, <3>1
  <2>2. WIDTH - 1 \in 0 .. WIDTH /\ S = 2 ^ (WIDTH - 1)
    BY <1>2, WordFacts DEF SIGN
  <2>3. v = s * S + r /\ s \in Nat
    BY <1>5, <2>1
  <2>4. Combine(Or, s * S, r) = v
    BY <2>2, <2>3, JoinedBits
  <2> QED BY <2>1, <2>4
<1>7. Combine(Or, v, k) = w
  <2>1. PICK q \in Nat : q = s * (t + 1) + y /\ v = q * p
    <3>1. (s * (t + 1) + y) * p = (s * (t + 1)) * p + y * p /\ (s * (t + 1)) * p = s * ((t + 1) * p)
      OBVIOUS
    <3>2. s * (t + 1) + y \in Nat
      OBVIOUS
    <3> QED BY <1>2, <1>5, <3>1, <3>2
  <2>2. m \in 0 .. WIDTH
    BY <1>1, WordFacts
  <2>3. w = q * p + k
    BY <1>4, <1>5, <2>1
  <2>4. Combine(Or, q * p, k) = w
    BY <1>1, <2>2, <2>3, JoinedBits
  <2> QED BY <2>1, <2>4
<1>8. y * p \in AWord /\ k \in AWord
  <2>1. y * p <= t * p /\ (t + 1) * p = t * p + p /\ y * p \in Nat /\ t * p \in Nat
    OBVIOUS
  <2> QED BY <1>2, <2>1 DEF AWord
<1>9. Wrap(y * p) = y * p /\ Wrap(k) = k
  BY <1>8, WrapWord
<1>10. (IF i < 0 THEN SIGN ELSE 0) = s * S
  BY <1>2
<1> QED BY <1>1, <1>3, <1>4, <1>6, <1>7, <1>9, <1>10 DEF Joined

\* What a fint is in units of its last digit.
FintSize(w) == fmant(w) * FintUnit(w)

IsFint(w) ==
  /\ sign(FI16, w) \in {0, 1} /\ fexp(w) \in 0 .. Top(FI16) /\ FintUnit(w) \in Nat \ {0}
  /\ fmant(w) \in 0 .. 2 * 2 ^ FI16.m - 1 /\ (fexp(w) > 0 => fmant(w) >= 2 ^ FI16.m)
  /\ FintSize(w) \in Nat /\ FintSize(w) = Size(FI16, "fint", w)
  /\ FintValue(w) = Signal(sign(FI16, w), FintSize(w))

LEMMA FintNumber ==
  ASSUME NEW w \in AWord
  PROVE  IsFint(w)
<1>1. PICK p \in Nat \ {0}, t \in Nat : p = 2 ^ FI16.m /\ t = Top(FI16)
  BY FintBasics
<1>2. FI16 \in AnyFormat
  BY DEF AnyFormat
<1>3. PICK x \in 0 .. t, l \in 0 .. p - 1 : x = exponent(FI16, w) /\ l = mantissa(FI16, w)
  BY <1>1, <1>2, Fields
<1>4. sign(FI16, w) \in {0, 1}
  BY <1>2, Fields
<1>5. PICK y \in 0 .. t : y = fexp(w) /\ y = IF x = 0 THEN 0 ELSE x - 1
  BY <1>3 DEF fexp
<1>6. PICK u \in Nat \ {0} : u = 2 ^ y
  <2>1. y \in 0 .. Top(FI16) + FI16.m + 1
    BY <1>1, <1>2, FormatFacts
  <2> QED BY <1>2, <2>1, FormatFacts
<1>7. PICK f \in 0 .. 2 * p - 1 : f = fmant(w) /\ f = (IF x = 0 THEN l ELSE l + p) /\ (y > 0 => f >= p)
  <2>1. fmant(w) = IF x = 0 THEN l ELSE l + p
    BY <1>1, <1>3 DEF fmant
  <2> QED BY <1>5, <2>1
<1>8. FintUnit(w) = u /\ FintSize(w) = f * u /\ f * u \in Nat
  <2>1. f * u \in Nat
    OBVIOUS
  <2>2. FintUnit(w) = u
    BY <1>5, <1>6 DEF FintUnit
  <2>3. fmant(w) = f
    BY <1>7
  <2> QED BY <2>1, <2>2, <2>3 DEF FintSize
<1>9. Size(FI16, "fint", w) = f * u
  <2>1. Size(FI16, "fint", w) = IF x = 0 THEN l ELSE (l + p) * 2 ^ (x - 1)
    BY <1>1, <1>3 DEF Size, Magnitude
  <2>2. CASE x = 0
    <3>1. u = 1 /\ f = l
      BY <1>5, <1>6, <1>7, <2>2, FirstPowers
    <3> QED BY <2>1, <2>2, <3>1
  <2>3. CASE x # 0
    <3>1. u = 2 ^ (x - 1) /\ f = l + p
      BY <1>5, <1>6, <1>7, <2>3
    <3> QED BY <2>1, <2>3, <3>1
  <2> QED BY <2>2, <2>3
<1>10. FintValue(w) = Signal(sign(FI16, w), FintSize(w))
  BY <1>8, <1>9, FintsFit DEF FintValue, Value, Signal
<1>11. fexp(w) \in 0 .. Top(FI16) /\ FintUnit(w) \in Nat \ {0}
  BY <1>1, <1>5, <1>8
<1>12. fmant(w) \in 0 .. 2 * 2 ^ FI16.m - 1 /\ (fexp(w) > 0 => fmant(w) >= 2 ^ FI16.m)
  BY <1>1, <1>5, <1>7
<1>13. FintSize(w) \in Nat /\ FintSize(w) = Size(FI16, "fint", w)
  BY <1>8, <1>9
<1> QED BY <1>4, <1>10, <1>11, <1>12, <1>13 DEF IsFint

\* The word after a fint, where there is one of its sign.
IsNext(w, v) ==
  /\ v \in AWord /\ v = Wrap(w + 1) /\ sign(FI16, v) = sign(FI16, w) /\ v % SIGN = (w % SIGN) + 1
  /\ FintSize(v) = FintSize(w) + FintUnit(w) /\ FintUnit(w) <= FintUnit(v)

LEMMA NextFint ==
  ASSUME NEW w \in AWord, mantissa(FI16, w) < 2 ^ FI16.m - 1 \/ exponent(FI16, w) < Top(FI16)
  PROVE  IsNext(w, w + 1)
<1>1. PICK p \in Nat \ {0}, t \in Nat : p = 2 ^ FI16.m /\ t = Top(FI16)
  BY FintBasics
<1>2. FI16 \in AnyFormat
  BY DEF AnyFormat
<1>3. PICK x \in 0 .. t, l \in 0 .. p - 1, s \in {0, 1} :
        x = exponent(FI16, w) /\ l = mantissa(FI16, w) /\ s = sign(FI16, w)
  BY <1>1, <1>2, Fields
<1>4. PICK S \in Nat, g \in Nat : S = s * SIGN /\ g = x * p /\ w = S + g + l /\ w % SIGN = g + l /\ w \in Nat
  <2>1. w = s * SIGN + x * p + l /\ w % SIGN = x * p + l
    BY <1>1, <1>2, <1>3, Fields
  <2>2. s * SIGN \in Nat /\ x * p \in Nat
    BY WordFacts
  <2>3. w \in Nat
    BY WordFacts DEF AWord
  <2> QED BY <2>1, <2>2, <2>3
<1>5. PICK v \in Nat, y \in 0 .. t, k \in 0 .. p - 1 :
        /\ v = Word(FI16, s, y, k) /\ v = w + 1
        /\ IF l < p - 1 THEN y = x /\ k = l + 1 ELSE y = x + 1 /\ k = 0
  <2>1. CASE l < p - 1
    <3>1. l + 1 \in 0 .. p - 1
      BY <2>1
    <3>2. Word(FI16, s, x, l + 1) = s * SIGN + x * p + (l + 1)
      BY <1>1, <1>3, <3>1, FintWord
    <3>3. Word(FI16, s, x, l + 1) = w + 1 /\ w + 1 \in Nat
      BY <1>4, <3>2
    <3> QED BY <2>1, <3>1, <3>3
  <2>2. CASE ~(l < p - 1)
    <3>1. l = p - 1 /\ x + 1 \in 0 .. t /\ 0 \in 0 .. p - 1
      BY <1>1, <1>3, <2>2
    <3>2. Word(FI16, s, x + 1, 0) = s * SIGN + (x + 1) * p + 0
      BY <1>1, <3>1, FintWord
    <3>3. (x + 1) * p = x * p + p
      OBVIOUS
    <3>4. Word(FI16, s, x + 1, 0) = w + 1 /\ w + 1 \in Nat
      BY <1>4, <3>1, <3>2, <3>3
    <3> QED BY <2>2, <3>1, <3>4
  <2> QED BY <2>1, <2>2
<1>6. v \in AWord /\ sign(FI16, v) = s /\ exponent(FI16, v) = y /\ mantissa(FI16, v) = k
  <2>1. y \in 0 .. Top(FI16) /\ k \in 0 .. 2 ^ FI16.m - 1 /\ v = Word(FI16, s, y, k)
    BY <1>1, <1>5
  <2> QED BY <2>1, FintWord
<1>7. v = Wrap(w + 1)
  BY <1>5, <1>6, WrapWord
<1>8. v % SIGN = (w % SIGN) + 1
  <2>1. v % SIGN = y * p + k
    BY <1>1, <1>2, <1>6, Fields
  <2>2. (x + 1) * p = x * p + p
    OBVIOUS
  <2> QED BY <1>4, <1>5, <2>1, <2>2
<1>9. /\ FintSize(v) = FintSize(w) + FintUnit(w) /\ FintUnit(w) <= FintUnit(v)
  <2>1. PICK u \in Nat \ {0}, f \in Nat : u = FintUnit(w) /\ f = fmant(w) /\ FintSize(w) = f * u
    BY FintNumber DEF IsFint, FintSize
  <2>2. CASE l < p - 1
    <3>1. fexp(v) = fexp(w) /\ fmant(v) = f + 1
      BY <1>1, <1>3, <1>5, <1>6, <2>1, <2>2 DEF fexp, fmant
    <3>2. FintUnit(v) = u
      BY <2>1, <3>1 DEF FintUnit
    <3>3. (f + 1) * u = f * u + u
      OBVIOUS
    <3> QED BY <2>1, <3>1, <3>2, <3>3 DEF FintSize
  <2>3. CASE ~(l < p - 1) /\ x = 0
    <3>1. fexp(v) = 0 /\ fexp(w) = 0 /\ fmant(v) = f + 1
      BY <1>1, <1>3, <1>5, <1>6, <2>1, <2>3 DEF fexp, fmant
    <3>2. FintUnit(v) = u
      BY <2>1, <3>1 DEF FintUnit
    <3>3. (f + 1) * u = f * u + u
      OBVIOUS
    <3> QED BY <2>1, <3>1, <3>2, <3>3 DEF FintSize
  <2>4. CASE ~(l < p - 1) /\ x # 0
    <3>1. PICK j \in Nat : j = x - 1 /\ j + 1 = x
      BY <2>4
    <3>2. fexp(v) = j + 1 /\ fexp(w) = j /\ fmant(v) = p /\ f = 2 * p - 1
      BY <1>1, <1>3, <1>5, <1>6, <2>1, <2>4, <3>1 DEF fexp, fmant
    <3>3. 2 ^ (j + 1) = 2 ^ j * 2 ^ 1
      <4>1. KnownPower(j + 1)
        <5>1. j + 1 \in 0 .. 2 * 2 ^ FI16.e /\ 2 * 2 ^ FI16.e \in Nat
          BY <1>1, <3>1, FintBasics
        <5> QED BY <5>1 DEF KnownPower
      <4> QED BY <4>1, PowersKnown
    <3>4. FintUnit(v) = 2 * u
      BY <2>1, <3>2, <3>3, FirstPowers DEF FintUnit
    <3>5. p * (2 * u) = (2 * p - 1) * u + u
      OBVIOUS
    <3> QED BY <2>1, <3>2, <3>4, <3>5 DEF FintSize
  <2> QED BY <2>2, <2>3, <2>4
<1> QED BY <1>3, <1>5, <1>6, <1>7, <1>8, <1>9 DEF IsNext

\* Half the range of an integer of so many bits.
Half(width) == 2 ^ (width - 1)

LEMMA Halves ==
  ASSUME NEW width \in {INT_WIDTH, LONG_WIDTH}
  PROVE  Half(width) \in Nat \ {0} /\ KnownPower(width - 1)
<1>1. width - 1 \in 0 .. LONG_WIDTH
  BY LongPowers
<1> QED BY <1>1, LongPowers DEF Half

\* What fits is kept, and whole turns make no difference.
LEMMA InBitsWrap ==
  ASSUME NEW width \in {INT_WIDTH, LONG_WIDTH}, NEW i \in Int
  PROVE  /\ -Half(width) <= i /\ i < Half(width) => InBits(i, width) = i
         /\ i = Half(width) => InBits(i, width) = -Half(width)
         /\ \A k \in Int : InBits(i + k * (2 * Half(width)), width) = InBits(i, width)
<1>1. PICK h \in Nat \ {0} : h = Half(width)
  BY Halves
<1>2. \A a : InBits(a, width) = ((a + h) % (2 * h)) - h
  BY <1>1 DEF InBits, Half
<1>3. ASSUME -h <= i, i < h
      PROVE  InBits(i, width) = i
  <2>1. i + h = 0 * (2 * h) + (i + h) /\ i + h \in 0 .. 2 * h - 1 /\ 2 * h \in Nat \ {0} /\ i + h \in Int
    BY <1>3
  <2>2. (i + h) % (2 * h) = i + h
    BY <2>1, Division
  <2> QED BY <1>2, <2>2
<1>4. ASSUME i = h
      PROVE  InBits(i, width) = -h
  <2>1. i + h = 1 * (2 * h) + 0 /\ 0 \in 0 .. 2 * h - 1 /\ 2 * h \in Nat \ {0} /\ i + h \in Int
    BY <1>4
  <2>2. (i + h) % (2 * h) = 0
    BY <2>1, Division
  <2> QED BY <1>2, <2>2
<1>5. ASSUME NEW k \in Int
      PROVE  InBits(i + k * (2 * h), width) = InBits(i, width)
  <2>1. PICK m \in Nat \ {0}, a \in Int, b \in Int : m = 2 * h /\ a = i + h /\ b = a + k * m
    <3>1. 2 * h \in Nat \ {0} /\ i + h \in Int /\ (i + h) + k * (2 * h) \in Int
      OBVIOUS
    <3> QED BY <3>1
  <2>2. PICK q \in Int, r \in 0 .. m - 1 : a = q * m + r
    <3>1. a = (a \div m) * m + (a % m) /\ a \div m \in Int /\ a % m \in 0 .. m - 1
      OBVIOUS
    <3> QED BY <3>1
  <2>3. b = (q + k) * m + r
    <3>1. (q + k) * m = q * m + k * m
      OBVIOUS
    <3> QED BY <2>1, <2>2, <3>1
  <2>4. a % m = r
    BY <2>2, Division
  <2>5. PICK c \in Int : c = q + k
    OBVIOUS
  <2>6. b % m = r
    BY <2>2, <2>3, <2>5, Division
  <2>7. (i + k * (2 * h)) + h = b
    BY <2>1
  <2> QED BY <1>2, <2>1, <2>4, <2>6, <2>7
<1> QED BY <1>1, <1>3, <1>4, <1>5

\* Wrapping before subtracting changes nothing.
LEMMA InBitsAgain ==
  ASSUME NEW width \in {INT_WIDTH, LONG_WIDTH}, NEW i \in Int, NEW j \in Int
  PROVE  /\ InBits(j - InBits(i, width), width) = InBits(j - i, width)
         /\ InBits(j + InBits(i, width), width) = InBits(j + i, width)
<1>1. PICK h \in Nat \ {0} : h = Half(width)
  BY Halves
<1>2. PICK k \in Int : InBits(i, width) = i - k * (2 * h)
  <2>1. PICK m \in Nat \ {0}, a \in Int : m = 2 * h /\ a = i + h
    OBVIOUS
  <2>2. a = (a \div m) * m + (a % m) /\ a \div m \in Int
    OBVIOUS
  <2>3. InBits(i, width) = (a % m) - h
    BY <1>1, <2>1 DEF InBits, Half
  <2>4. PICK q \in Int, r \in Int : q = a \div m /\ r = a % m
    OBVIOUS
  <2>5. a = q * m + r /\ InBits(i, width) = r - h
    BY <2>2, <2>3, <2>4
  <2>6. InBits(i, width) = i - q * m
    BY <2>1, <2>5
  <2> QED BY <2>1, <2>6
<1>3. PICK g \in Int, l \in Int : g = k * (2 * h) /\ l = (-k) * (2 * h) /\ l = -g
  OBVIOUS
<1>4. j - InBits(i, width) = (j - i) + g /\ j + InBits(i, width) = (j + i) + l
  BY <1>2, <1>3
<1>5. /\ InBits((j - i) + g, width) = InBits(j - i, width)
      /\ InBits((j + i) + l, width) = InBits(j + i, width)
  <2>1. PICK a \in Int, b \in Int, c \in Int : a = j - i /\ b = j + i /\ c = -k /\ l = c * (2 * h)
    BY <1>3
  <2>2. /\ InBits(a + k * (2 * Half(width)), width) = InBits(a, width)
        /\ InBits(b + c * (2 * Half(width)), width) = InBits(b, width)
    BY InBitsWrap
  <2>3. InBits(a + k * (2 * h), width) = InBits(a, width) /\ InBits(b + c * (2 * h), width) = InBits(b, width)
    BY <1>1, <2>2
  <2> QED BY <1>3, <2>1, <2>3
<1> QED BY <1>4, <1>5

\* An integer made from a fint is its value, in so many bits.
LEMMA IntegerWraps ==
  ASSUME NEW w \in AWord, NEW width \in {INT_WIDTH, LONG_WIDTH}
  PROVE  IntegerOf(w, width) = InBits(FintValue(w), width) /\ FintValue(w) \in Int
<1>1. PICK n \in Nat, s \in {0, 1} : n = FintSize(w) /\ s = sign(FI16, w) /\ FintValue(w) = Signal(s, n)
  BY FintNumber DEF IsFint
<1>2. PICK k \in Int :
        /\ k = n \/ k = InBits(n, width)
        /\ IntegerOf(w, width) = InBits(IF s = 1 THEN -k ELSE k, width)
  <2>1. CASE exponent(FI16, w) = 0
    <3>1. fmant(w) = mantissa(FI16, w) /\ FintUnit(w) = 1
      BY <2>1, FirstPowers DEF fmant, fexp, FintUnit
    <3>2. mantissa(FI16, w) = n
      <4>1. fmant(w) \in Nat
        BY FintParts
      <4> QED BY <1>1, <3>1, <4>1 DEF FintSize
    <3> QED BY <1>1, <2>1, <3>2 DEF IntegerOf
  <2>2. CASE exponent(FI16, w) # 0
    <3>1. (mantissa(FI16, w) + 2 ^ FI16.m) * 2 ^ (exponent(FI16, w) - 1) = n
      BY <1>1, <2>2 DEF fmant, fexp, FintUnit, FintSize
    <3>2. InBits(n, width) \in Int
      BY InBitsFit
    <3> QED BY <1>1, <2>2, <3>1, <3>2 DEF IntegerOf
  <2> QED BY <2>1, <2>2
<1>3. InBits(0 - InBits(n, width), width) = InBits(0 - n, width) /\ InBits(0 + InBits(n, width), width) = InBits(0 + n, width)
  <2>1. 0 \in Int /\ n \in Int
    OBVIOUS
  <2> QED BY <2>1, InBitsAgain
<1>4. PICK g \in Int : g = InBits(n, width)
  BY InBitsFit
<1>5. 0 - g = -g /\ 0 + g = g /\ 0 - n = -n /\ 0 + n = n
  OBVIOUS
<1>6. InBits(-g, width) = InBits(-n, width) /\ InBits(g, width) = InBits(n, width)
  BY <1>3, <1>4, <1>5
<1>7. FintValue(w) \in Int /\ FintValue(w) = IF s = 1 THEN -n ELSE n
  BY <1>1 DEF Signal
<1> QED BY <1>2, <1>4, <1>6, <1>7

\* How far a word is, as Nearer counts.
LEMMA ApartIs ==
  ASSUME NEW w \in AWord, NEW n \in Int, NEW width \in {INT_WIDTH, LONG_WIDTH}
  PROVE  LET d == n - FintValue(w) IN
         /\ d \in Int /\ Apart(n, w, width) \in Int /\ Apart(n, w, width) >= -Half(width)
         /\ d > -Half(width) /\ d < Half(width) => Apart(n, w, width) = Absolute(d)
         /\ d = Half(width) => Apart(n, w, width) = -Half(width)
<1>1. PICK h \in Nat \ {0}, v \in Int, d \in Int : h = Half(width) /\ v = FintValue(w) /\ d = n - v
  BY Halves, IntegerWraps
<1>2. InBits(n - IntegerOf(w, width), width) = InBits(d, width)
  <2>1. IntegerOf(w, width) = InBits(v, width)
    BY <1>1, IntegerWraps
  <2>2. InBits(n - InBits(v, width), width) = InBits(n - v, width)
    BY InBitsAgain
  <2> QED BY <1>1, <2>1, <2>2
<1>3. PICK e \in Int : e = InBits(d, width) /\ e \in -h .. h - 1
  BY <1>1, InBitsFit DEF Half
<1>4. PICK f \in Int : f = InBits(-e, width) /\ f \in -h .. h - 1
  <2>1. -e \in Int
    OBVIOUS
  <2> QED BY <1>1, <2>1, InBitsFit DEF Half
<1>5. Apart(n, w, width) = IF e < 0 THEN f ELSE e
  BY <1>2, <1>3, <1>4 DEF Apart
<1>6. ASSUME d > -h, d < h
      PROVE  Apart(n, w, width) = Absolute(d)
  <2>1. e = d
    BY <1>1, <1>3, <1>6, InBitsWrap
  <2>2. d < 0 => f = -d
    <3>1. -d \in Int /\ (d < 0 => -h <= -d /\ -d < h)
      BY <1>6
    <3> QED BY <1>1, <1>4, <2>1, <3>1, InBitsWrap
  <2> QED BY <1>5, <2>1, <2>2 DEF Absolute
<1>7. ASSUME d = h
      PROVE  Apart(n, w, width) = -h
  <2>1. e = -h
    BY <1>1, <1>3, <1>7, InBitsWrap
  <2>2. f = -h
    BY <1>1, <1>4, <1>7, <2>1, InBitsWrap
  <2> QED BY <1>5, <2>1, <2>2
<1> QED BY <1>1, <1>3, <1>4, <1>5, <1>6, <1>7

\* The sizes of fints rise with the word.
LEMMA FintOrder ==
  ASSUME NEW v \in AWord, NEW w \in AWord, v % SIGN <= w % SIGN
  PROVE  FintSize(v) <= FintSize(w) /\ FintSize(v) \in Nat /\ FintSize(w) \in Nat
<1>1. PICK p \in Nat \ {0}, t \in Nat : p = 2 ^ FI16.m /\ t = Top(FI16)
  BY FintBasics
<1>2. FI16 \in AnyFormat
  BY DEF AnyFormat
<1>3. FintSize(v) \in Nat /\ FintSize(w) \in Nat /\ FintSize(v) = Size(FI16, "fint", v) /\ FintSize(w) = Size(FI16, "fint", w)
  BY FintNumber DEF IsFint
<1>4. CASE v % SIGN < w % SIGN
  <2>1. IsNumber(FI16, "fint", v) /\ IsNumber(FI16, "fint", w)
    BY DEF IsNumber
  <2>2. Size(FI16, "fint", v) < Size(FI16, "fint", w)
    BY <1>2, <1>4, <2>1, Sizes
  <2> QED BY <1>3, <2>2
<1>5. CASE v % SIGN = w % SIGN
  <2>1. PICK x \in 0 .. t, l \in 0 .. p - 1 : x = exponent(FI16, v) /\ l = mantissa(FI16, v) /\ v % SIGN = x * p + l
    BY <1>1, <1>2, Fields
  <2>2. PICK y \in 0 .. t, k \in 0 .. p - 1 : y = exponent(FI16, w) /\ k = mantissa(FI16, w) /\ w % SIGN = y * p + k
    BY <1>1, <1>2, Fields
  <2>3. PICK g \in Int : g = x * p + l /\ g = y * p + k
    BY <1>5, <2>1, <2>2
  <2>4. g \div p = x /\ g % p = l /\ g \div p = y /\ g % p = k
    BY <2>3, Division
  <2>5. fexp(v) = fexp(w) /\ fmant(v) = fmant(w)
    BY <2>1, <2>2, <2>4 DEF fexp, fmant
  <2> QED BY <1>3, <2>5 DEF FintSize, FintUnit
<1>6. v % SIGN \in Int /\ w % SIGN \in Int
  BY WordFacts DEF AWord
<1> QED BY <1>3, <1>4, <1>5, <1>6

\* The digits of an integer that are kept, as a fint.
IsCut(i, n, s, w) ==
  /\ w \in AWord /\ sign(FI16, w) = s
  /\ FintSize(w) <= n /\ n < FintSize(w) + FintUnit(w) /\ FintUnit(w) <= n
  /\ Cut(i, n) = [exponent |-> exponent(FI16, w), mantissa |-> mantissa(FI16, w)]

LEMMA Cutting ==
  ASSUME NEW n \in Nat \ {0}, n < 2 ^ (Top(FI16) + FI16.m), NEW s \in {0, 1}, NEW i, i = Signal(s, n)
  PROVE  IsCut(i, n, s, Joined(i, Cut(i, n)))
<1>1. PICK p \in Nat \ {0}, t \in Nat, m \in Nat \ {0} :
        p = 2 ^ m /\ t = Top(FI16) /\ t > 0 /\ m = FI16.m
  BY FintBasics
<1>2. t + m \in Nat /\ t + m < LONG_WIDTH - 1 /\ LONG_WIDTH \in Nat
  BY <1>1, FintFacts, LongPowers
<1>3. i \in Int /\ Absolute(i) = n /\ (s = 1 <=> i < 0)
  BY DEF Signal, Absolute
<1>4. n < 2 ^ LONG_WIDTH
  <2>1. 2 ^ (t + m) <= 2 ^ LONG_WIDTH /\ 2 ^ (t + m) \in Nat /\ 2 ^ LONG_WIDTH \in Nat
    <3>1. t + m \in 0 .. LONG_WIDTH
      BY <1>2
    <3> QED BY <1>2, <3>1, LongPowers
  <2> QED BY <1>1, <2>1
<1>5. PICK h \in 0 .. t + m - 1 : h = Msb(n) /\ 2 ^ h <= n /\ n < 2 ^ (h + 1)
  <2>1. PICK k \in Nat : k = t + m - 1 /\ k + 1 = t + m /\ k \in 0 .. LONG_WIDTH - 1
    <3>1. t + m - 1 \in Nat
      BY <1>1
    <3> QED BY <1>2, <3>1
  <2>2. n < 2 ^ (k + 1)
    BY <1>1, <2>1
  <2>3. Msb(n) \in 0 .. k /\ 2 ^ Msb(n) <= n /\ n < 2 ^ (Msb(n) + 1)
    BY <2>1, <2>2, HighestBit
  <2> QED BY <2>1, <2>3
<1>6. ASSUME NEW x \in 0 .. t, NEW l \in 0 .. p - 1, Cut(i, n) = [exponent |-> x, mantissa |-> l],
             NEW a \in Nat, NEW u \in Nat \ {0},
             a = (IF x = 0 THEN l ELSE l + p), u = 2 ^ (IF x = 0 THEN 0 ELSE x - 1),
             a * u <= n, n < a * u + u, u <= n
      PROVE  IsCut(i, n, s, Joined(i, Cut(i, n)))
  <2>1. PICK w : w = Word(FI16, s, x, l)
    OBVIOUS
  <2>2. Joined(i, Cut(i, n)) = w
    BY <1>1, <1>3, <1>6, <2>1, JoinedFields
  <2>3. w \in AWord /\ sign(FI16, w) = s /\ exponent(FI16, w) = x /\ mantissa(FI16, w) = l
    BY <1>1, <2>1, FintWord
  <2>4. fmant(w) = a /\ fexp(w) = IF x = 0 THEN 0 ELSE x - 1
    BY <1>1, <1>6, <2>3 DEF fmant, fexp
  <2>5. FintUnit(w) = u
    BY <1>6, <2>4 DEF FintUnit
  <2>6. FintSize(w) = a * u
    BY <2>4, <2>5 DEF FintSize
  <2> QED BY <1>6, <2>2, <2>3, <2>5, <2>6 DEF IsCut
<1>7. CASE h < m
  <2>1. Cut(i, n) = [exponent |-> 0, mantissa |-> n]
    BY <1>1, <1>3, <1>5, <1>7 DEF Cut
  <2>2. n \in 0 .. p - 1
    <3>1. h + 1 \in Nat /\ h + 1 <= m /\ m \in 0 .. LONG_WIDTH
      BY <1>2, <1>5, <1>7
    <3>2. 2 ^ (h + 1) <= p /\ KnownPower(h + 1)
      BY <1>1, <3>1, LongPowers, PowersOrdered
    <3>3. 2 ^ (h + 1) \in Nat
      BY <3>2, PowersKnown
    <3> QED BY <1>5, <3>2, <3>3
  <2>3. 2 ^ 0 = 1 /\ n * 1 <= n /\ n < n * 1 + 1 /\ 1 <= n
    BY FirstPowers
  <2>4. 0 \in 0 .. t
    OBVIOUS
  <2> QED BY <1>6, <2>1, <2>2, <2>3, <2>4
<1>8. CASE ~(h < m)
  <2>1. PICK c \in Nat : c = h - m /\ c + 1 \in 0 .. t /\ c + 1 # 0 /\ (c + 1) - 1 = c
    <3>1. h - m \in Nat
      BY <1>5, <1>8
    <3> QED BY <1>5, <3>1
  <2>2. c = Carry(FI16, n)
    BY <1>1, <1>5, <2>1 DEF Carry
  <2>3. PICK u \in Nat \ {0}, a \in p .. 2 * p - 1 : u = 2 ^ c /\ a = Aligned(n, c) /\ n \in a * u .. a * u + u - 1
    <3>1. /\ Aligned(n, c) \in p .. 2 * p - 1 /\ 2 ^ c \in Nat \ {0}
          /\ n \in Aligned(n, c) * 2 ^ c .. Aligned(n, c) * 2 ^ c + 2 ^ c - 1
      BY <1>1, <1>4, <2>1, <2>2, Aligning
    <3> QED BY <3>1
  <2>4. a = n \div u
    BY <2>1, <2>3 DEF Aligned
  <2>5. PICK l \in 0 .. p - 1 : l = a - p
    OBVIOUS
  <2>6. Cut(i, n) = [exponent |-> c + 1, mantissa |-> l]
    BY <1>1, <1>3, <1>5, <1>8, <2>1, <2>3, <2>4, <2>5 DEF Cut
  <2>7. a * u \in Nat /\ a * u <= n /\ n < a * u + u /\ u <= n
    <3>1. a * u >= u /\ a * u \in Nat
      OBVIOUS
    <3> QED BY <2>3, <3>1
  <2>8. a = l + p /\ a \in Nat
    BY <2>5
  <2> QED BY <1>6, <2>1, <2>3, <2>5, <2>6, <2>7, <2>8
<1> QED BY <1>7, <1>8

\* The fint that an integer becomes: the one below it in size, or the next if
\* that is nearer, and for a positive integer no fint is nearer.
IsNearer(n, s, r) ==
  /\ r \in AWord /\ sign(FI16, r) = s /\ Absolute(FintSize(r) - n) < FintUnit(r)
  /\ \E w \in AWord :
       /\ FintSize(w) <= n /\ n < FintSize(w) + FintUnit(w) /\ FintUnit(w) <= FintUnit(r)
       /\ r = w \/ (FintSize(w) # n /\ FintSize(r) = FintSize(w) + FintUnit(w))
  /\ s = 0 => \A v \in AWord : Absolute(FintValue(r) - n) <= Absolute(FintValue(v) - n)

\* A power of two that is less than half the range divides it.
LEMMA HalfParts ==
  ASSUME NEW width \in {INT_WIDTH, LONG_WIDTH}, NEW y \in Nat, KnownPower(y), 2 ^ y < Half(width)
  PROVE  \E J \in Nat \ {0} : Half(width) = (2 * 2 ^ y) * J
<1>1. PICK u \in Nat \ {0}, H \in Nat \ {0}, k \in Nat :
        u = 2 ^ y /\ H = Half(width) /\ k = width - 1 /\ H = 2 ^ k /\ KnownPower(k)
  <2>1. width - 1 \in Nat
    BY LongPowers
  <2> QED BY <2>1, PowersKnown, Halves DEF Half
<1>2. y + 1 <= k
  <2> SUFFICES ASSUME k <= y
               PROVE  FALSE
    OBVIOUS
  <2>1. 2 ^ k <= 2 ^ y
    BY PowersOrdered
  <2> QED BY <1>1, <2>1
<1>3. PICK j \in Nat : (y + 1) + j = k
  <2>1. k - (y + 1) \in Nat /\ (y + 1) + (k - (y + 1)) = k
    BY <1>2
  <2> QED BY <2>1
<1>4. H = 2 ^ (y + 1) * 2 ^ j /\ KnownPower(y + 1) /\ KnownPower(j)
  <2>1. y + 1 \in Nat /\ KnownPower((y + 1) + j) /\ H = 2 ^ ((y + 1) + j)
    BY <1>1, <1>3
  <2> QED BY <2>1, PowersKnown
<1>5. 2 ^ (y + 1) = 2 ^ y * 2 ^ 1
  <2>1. 1 \in Nat
    OBVIOUS
  <2> QED BY <1>4, <2>1, PowersKnown
<1>6. 2 ^ (y + 1) = u * 2
  BY <1>1, <1>5, FirstPowers
<1>7. PICK J \in Nat \ {0} : J = 2 ^ j
  BY <1>4, PowersKnown
<1>8. u * 2 = 2 * u
  OBVIOUS
<1>9. H = (2 * u) * J
  BY <1>4, <1>6, <1>7, <1>8
<1> QED BY <1>1, <1>9

\* A multiple of a power of two that is less than half of another stays so when
\* half of the power is added.
LEMMA RoomAbove ==
  ASSUME NEW width \in {INT_WIDTH, LONG_WIDTH}, NEW y \in Nat, KnownPower(y), NEW f \in Nat \ {0},
         2 * (f * 2 ^ y) < Half(width)
  PROVE  2 * (f * 2 ^ y) + 2 ^ y < Half(width)
<1>1. PICK u \in Nat \ {0}, H \in Nat \ {0} : u = 2 ^ y /\ H = Half(width)
  BY PowersKnown, Halves
<1>2. f * u >= u /\ f * u \in Nat
  OBVIOUS
<1>3. PICK J \in Nat \ {0} : H = (2 * u) * J
  <2>1. 2 ^ y < Half(width)
    BY <1>1, <1>2
  <2>2. \E J \in Nat \ {0} : Half(width) = (2 * 2 ^ y) * J
    BY <2>1, HalfParts
  <2> QED BY <1>1, <2>2
<1>4. f < J
  <2> SUFFICES ASSUME f >= J
               PROVE  FALSE
    OBVIOUS
  <2>1. (2 * u) * f >= (2 * u) * J /\ (2 * u) * f = 2 * (f * u)
    OBVIOUS
  <2> QED BY <1>1, <1>3, <2>1
<1>5. (2 * u) * (f + 1) <= H /\ (2 * u) * (f + 1) = 2 * (f * u) + 2 * u
  <2>1. (2 * u) * (f + 1) <= (2 * u) * J
    BY <1>4
  <2> QED BY <1>3, <2>1
<1> QED BY <1>1, <1>2, <1>5

LEMMA NearerNumber ==
  ASSUME NEW n \in Nat \ {0}, n < 2 ^ (Top(FI16) + FI16.m), NEW s \in {0, 1}, NEW i, i = Signal(s, n),
         NEW width \in {INT_WIDTH, LONG_WIDTH}, s = 0 => n < Half(width), s = 1 => 2 * n <= Half(width)
  PROVE  IsNearer(n, s, Nearer(i, n, width))
<1>1. PICK w \in AWord, H \in Nat \ {0} : w = Joined(i, Cut(i, n)) /\ IsCut(i, n, s, w) /\ H = Half(width)
  <2>1. IsCut(i, n, s, Joined(i, Cut(i, n)))
    BY Cutting
  <2>2. Joined(i, Cut(i, n)) \in AWord
    BY <2>1 DEF IsCut
  <2> QED BY <2>1, <2>2, Halves
<1>2. PICK a \in Nat, u \in Nat \ {0} :
        /\ a = FintSize(w) /\ u = FintUnit(w) /\ a <= n /\ n < a + u /\ u <= n
        /\ w \in AWord /\ sign(FI16, w) = s /\ FintValue(w) = IF s = 1 THEN -a ELSE a
  BY <1>1, FintNumber DEF IsCut, IsFint, Signal
<1>3. PICK r : r = Nearer(i, n, width)
  OBVIOUS
<1> DEFINE Goes == mantissa(FI16, w) < 2 ^ FI16.m - 1 \/ exponent(FI16, w) < Top(FI16)
<1>4. r = IF Goes /\ Apart(n, Wrap(w + 1), width) < Apart(n, w, width) THEN Wrap(w + 1) ELSE w
  BY <1>1, <1>3 DEF Nearer, IsCut
<1>5. \A v \in AWord : FintValue(v) \in Int /\ (sign(FI16, v) = 1 => FintValue(v) <= 0)
                       /\ (sign(FI16, v) # 1 => FintValue(v) = FintSize(v)) /\ FintSize(v) \in Nat
  BY FintNumber DEF IsFint, Signal
<1>6. ASSUME r = w, s = 0 => \A v \in AWord : Absolute(a - n) <= Absolute(FintValue(v) - n)
      PROVE  IsNearer(n, s, r)
  <2>1. Absolute(a - n) < u
    BY <1>2 DEF Absolute
  <2> QED BY <1>2, <1>6, <2>1 DEF IsNearer
<1>7. CASE ~Goes
  <2>1. r = w
    BY <1>4, <1>7
  <2>2. \A v \in AWord : FintSize(v) <= a
    <3>1. PICK p \in Nat \ {0}, t \in Nat, S \in Nat : p = 2 ^ FI16.m /\ t = Top(FI16) /\ SIGN = (t + 1) * p /\ S = SIGN
      BY FintBasics, WordFacts
    <3>2. FI16 \in AnyFormat
      BY DEF AnyFormat
    <3>3. exponent(FI16, w) = t /\ mantissa(FI16, w) = p - 1
      <4>1. exponent(FI16, w) \in 0 .. t /\ mantissa(FI16, w) \in 0 .. p - 1
        BY <1>2, <3>1, <3>2, Fields
      <4>2. ~(mantissa(FI16, w) < p - 1) /\ ~(exponent(FI16, w) < t)
        BY <1>7, <3>1
      <4> QED BY <4>1, <4>2
    <3>4. w % SIGN = t * p + (p - 1)
      BY <1>2, <3>1, <3>2, <3>3, Fields
    <3>5. w % SIGN = SIGN - 1
      <4>1. (t + 1) * p = t * p + p /\ t * p \in Nat
        OBVIOUS
      <4> QED BY <3>1, <3>4, <4>1
    <3>6. \A v \in AWord : v % SIGN <= SIGN - 1
      BY WordFacts DEF AWord
    <3> QED BY <1>2, <3>5, <3>6, FintOrder
  <2>3. ASSUME s = 0, NEW v \in AWord
        PROVE  Absolute(a - n) <= Absolute(FintValue(v) - n)
    <3>1. FintValue(v) \in Int /\ FintValue(v) <= a
      BY <1>5, <2>2
    <3> QED BY <1>2, <3>1 DEF Absolute
  <2> QED BY <1>3, <1>6, <2>1, <2>3
<1>8. CASE Goes
  <2>1. PICK z \in AWord, b \in Nat :
          /\ z = Wrap(w + 1) /\ sign(FI16, z) = s /\ z % SIGN = (w % SIGN) + 1
          /\ b = FintSize(z) /\ b = a + u /\ u <= FintUnit(z)
          /\ FintValue(z) = IF s = 1 THEN -b ELSE b
    <3>1. IsNext(w, w + 1)
      BY <1>2, <1>8, NextFint
    <3>2. a + u \in Nat
      OBVIOUS
    <3>3. w + 1 \in AWord /\ w + 1 = Wrap(w + 1) /\ sign(FI16, w + 1) = s /\ (w + 1) % SIGN = (w % SIGN) + 1
          /\ FintSize(w + 1) = a + u /\ u <= FintUnit(w + 1)
      BY <1>2, <3>1 DEF IsNext
    <3>4. FintValue(w + 1) = IF s = 1 THEN -(a + u) ELSE a + u
      BY <3>3, FintNumber DEF IsFint, Signal
    <3> QED BY <3>2, <3>3, <3>4
  <2>2. FintUnit(z) \in Nat \ {0}
    BY FintNumber DEF IsFint
  <2>3. r = IF Apart(n, z, width) < Apart(n, w, width) THEN z ELSE w
    BY <1>4, <1>8, <2>1
  <2>4. CASE s = 0
    <3>1. Apart(n, w, width) = n - a
      <4>1. n - a > -H /\ n - a < H /\ Absolute(n - a) = n - a /\ FintValue(w) = a
        BY <1>1, <1>2, <2>4 DEF Absolute
      <4>2. /\ n - FintValue(w) > -Half(width) /\ n - FintValue(w) < Half(width) /\ n \in Int
            /\ Absolute(n - FintValue(w)) = n - a
        BY <1>1, <4>1
      <4> QED BY <4>2, ApartIs
    <3>2. Apart(n, z, width) = b - n
      <4>1. n - b > -H /\ n - b < H /\ Absolute(n - b) = b - n /\ FintValue(z) = b
        BY <1>1, <1>2, <2>1, <2>4 DEF Absolute
      <4>2. /\ n - FintValue(z) > -Half(width) /\ n - FintValue(z) < Half(width) /\ n \in Int
            /\ Absolute(n - FintValue(z)) = b - n
        BY <1>1, <4>1
      <4> QED BY <4>2, ApartIs
    <3>3. ASSUME NEW v \in AWord
          PROVE  FintValue(v) \in Int /\ (FintValue(v) <= a \/ FintValue(v) >= b)
      <4>1. CASE sign(FI16, v) = 1
        BY <1>2, <1>5, <4>1
      <4>2. CASE sign(FI16, v) # 1 /\ v % SIGN <= w % SIGN
        <5>1. FintSize(v) <= a
          BY <1>2, <4>2, FintOrder
        <5> QED BY <1>5, <4>2, <5>1
      <4>3. CASE sign(FI16, v) # 1 /\ ~(v % SIGN <= w % SIGN)
        <5>1. v % SIGN \in Int /\ w % SIGN \in Int
          BY <1>2, WordFacts DEF AWord
        <5>2. z % SIGN <= v % SIGN
          BY <2>1, <4>3, <5>1
        <5>3. b <= FintSize(v)
          BY <2>1, <5>2, FintOrder
        <5> QED BY <1>5, <4>3, <5>3
      <4> QED BY <4>1, <4>2, <4>3
    <3>4. CASE b - n < n - a
      <4>1. r = z
        BY <2>3, <3>1, <3>2, <3>4
      <4>2. a # n /\ Absolute(b - n) < FintUnit(z) /\ FintValue(z) = b
        BY <1>2, <2>1, <2>2, <2>4, <3>4 DEF Absolute
      <4>3. \A v \in AWord : Absolute(b - n) <= Absolute(FintValue(v) - n)
        <5> SUFFICES ASSUME NEW v \in AWord
                     PROVE  Absolute(b - n) <= Absolute(FintValue(v) - n)
          OBVIOUS
        <5> QED BY <1>2, <2>1, <3>3, <3>4 DEF Absolute
      <4> QED BY <1>2, <1>3, <2>1, <4>1, <4>2, <4>3 DEF IsNearer
    <3>5. CASE ~(b - n < n - a)
      <4>1. r = w
        BY <2>3, <3>1, <3>2, <3>5
      <4>2. \A v \in AWord : Absolute(a - n) <= Absolute(FintValue(v) - n)
        <5> SUFFICES ASSUME NEW v \in AWord
                     PROVE  Absolute(a - n) <= Absolute(FintValue(v) - n)
          OBVIOUS
        <5> QED BY <1>2, <2>1, <3>3, <3>5 DEF Absolute
      <4> QED BY <1>3, <1>6, <4>1, <4>2
    <3> QED BY <3>4, <3>5
  <2>5. CASE s = 1
    <3>1. CASE r = w
      BY <1>3, <1>6, <2>5, <3>1
    <3>2. CASE r # w
      <4>1. r = z /\ Apart(n, z, width) < Apart(n, w, width)
        BY <2>3, <3>2
      <4>2. a # n
        <5> SUFFICES ASSUME a = n
                     PROVE  FALSE
          OBVIOUS
        <5>1. FintValue(w) = -n /\ FintValue(z) = -(n + u)
          BY <1>2, <2>1, <2>5
        <5>2. n - FintValue(w) = 2 * n /\ n - FintValue(z) = 2 * n + u
          BY <5>1
        <5>3. CASE 2 * n = H
          <6>1. Apart(n, w, width) = -H
            <7>1. n - FintValue(w) = Half(width) /\ n \in Int
              BY <1>1, <5>2, <5>3
            <7>2. Apart(n, w, width) = -Half(width)
              BY <7>1, ApartIs
            <7> QED BY <1>1, <7>2
          <6>2. Apart(n, z, width) >= -H /\ Apart(n, z, width) \in Int
            BY <1>1, ApartIs
          <6> QED BY <4>1, <6>1, <6>2
        <5>4. CASE 2 * n < H
          <6>1. 2 * n + u < H
            <7>1. PICK y \in Nat, f \in Nat \ {0} : y = fexp(w) /\ f = fmant(w) /\ u = 2 ^ y /\ n = f * 2 ^ y /\ KnownPower(y)
              <8>1. fexp(w) \in Nat /\ fmant(w) \in Nat /\ KnownPower(fexp(w))
                <9>1. fexp(w) \in 0 .. 2 * 2 ^ FI16.e /\ 2 * 2 ^ FI16.e \in Nat
                  BY <1>2, FintParts
                <9> QED BY <1>2, <9>1, FintParts DEF KnownPower
              <8>2. u = 2 ^ fexp(w) /\ n = fmant(w) * u
                BY <1>2 DEF FintUnit, FintSize
              <8>3. fmant(w) # 0
                BY <8>2
              <8> QED BY <8>1, <8>2, <8>3
            <7>2. 2 * (f * 2 ^ y) < Half(width)
              BY <1>1, <5>4, <7>1
            <7>3. 2 * (f * 2 ^ y) + 2 ^ y < Half(width)
              BY <7>1, <7>2, RoomAbove
            <7> QED BY <1>1, <7>1, <7>3
          <6>2. Absolute(2 * n) = 2 * n /\ Absolute(2 * n + u) = 2 * n + u
            BY DEF Absolute
          <6>3. Apart(n, w, width) = 2 * n
            <7>1. n - FintValue(w) > -Half(width) /\ n - FintValue(w) < Half(width) /\ n \in Int
              BY <1>1, <5>2, <5>4
            <7>2. Apart(n, w, width) = Absolute(n - FintValue(w))
              BY <7>1, ApartIs
            <7> QED BY <5>2, <6>2, <7>2
          <6>4. Apart(n, z, width) = 2 * n + u
            BY <1>1, <5>2, <6>1, <6>2, ApartIs
          <6> QED BY <4>1, <6>3, <6>4
        <5> QED BY <1>1, <2>5, <5>3, <5>4
      <4>3. Absolute(b - n) < FintUnit(z)
        BY <1>2, <2>1, <2>2, <4>2 DEF Absolute
      <4> QED BY <1>2, <1>3, <2>1, <2>5, <4>1, <4>2, <4>3 DEF IsNearer
    <3> QED BY <3>1, <3>2
  <2> QED BY <2>4, <2>5
<1> QED BY <1>7, <1>8

\* No fint is larger than its exponents allow.
LEMMA FintRange ==
  ASSUME NEW w \in AWord
  PROVE  FintSize(w) < 2 ^ (Top(FI16) + FI16.m) /\ KnownPower(fexp(w))
<1>1. PICK p \in Nat \ {0}, t \in Nat : p = 2 ^ FI16.m /\ t = Top(FI16) /\ t > 0
  BY FintBasics
<1>2. 2 ^ (t + FI16.m) = p * 2 ^ t
  BY <1>1, FintFacts
<1>3. PICK y \in Nat, f \in 0 .. 2 * p - 1 : y = fexp(w) /\ f = fmant(w) /\ y + 1 <= t
  <2>1. fmant(w) \in 0 .. 2 * p - 1
    BY <1>1, FintNumber DEF IsFint
  <2>2. exponent(FI16, w) \in 0 .. t
    <3>1. FI16 \in AnyFormat
      BY DEF AnyFormat
    <3> QED BY <1>1, <3>1, Fields
  <2>3. fexp(w) \in Nat /\ fexp(w) + 1 <= t
    BY <1>1, <2>2 DEF fexp
  <2> QED BY <2>1, <2>3
<1>4. KnownPower(t)
  <2>1. t \in 0 .. 2 * 2 ^ FI16.e + 1 /\ 2 * 2 ^ FI16.e \in Nat
    BY <1>1, FintBasics
  <2> QED BY <2>1 DEF KnownPower
<1>5. KnownPower(y + 1)
  BY <1>3, <1>4, PowersOrdered
<1>6. PICK u \in Nat \ {0}, P \in Nat \ {0} : u = 2 ^ y /\ P = 2 ^ t /\ 2 * u <= P
  <2>1. 2 ^ (y + 1) = 2 ^ y * 2 ^ 1 /\ KnownPower(y)
    <3>1. 1 \in Nat
      OBVIOUS
    <3> QED BY <1>3, <1>5, <3>1, PowersKnown
  <2>2. 2 ^ (y + 1) <= 2 ^ t
    BY <1>3, <1>4, PowersOrdered
  <2>3. PICK u \in Nat \ {0}, P \in Nat \ {0} : u = 2 ^ y /\ P = 2 ^ t
    BY <1>4, <2>1, PowersKnown
  <2> QED BY <2>1, <2>2, <2>3, FirstPowers
<1>7. f * u < p * P
  <2>1. f * u <= (2 * p - 1) * u /\ (2 * p - 1) * u = p * (2 * u) - u
    OBVIOUS
  <2>2. p * (2 * u) <= p * P
    BY <1>6
  <2>3. f * u \in Nat /\ p * (2 * u) \in Nat /\ p * P \in Nat
    OBVIOUS
  <2> QED BY <2>1, <2>2, <2>3
<1>8. FintSize(w) = f * u
  BY <1>3, <1>6 DEF FintSize, FintUnit
<1>9. KnownPower(fexp(w))
  <2>1. y <= y + 1 /\ y + 1 \in Nat
    OBVIOUS
  <2> QED BY <1>3, <1>5, <2>1, PowersOrdered
<1> QED BY <1>1, <1>2, <1>6, <1>7, <1>8, <1>9

\* A fint that is near an integer, and nearest if that is positive.
IsClose(i, r) ==
  /\ r \in AWord /\ FintValue(r) \in Int /\ FintUnit(r) \in Nat \ {0}
  /\ Absolute(FintValue(r) - i) < FintUnit(r)
  /\ i >= 0 => \A v \in AWord : Absolute(FintValue(r) - i) <= Absolute(FintValue(v) - i)

\* What an integer becomes is near it.
LEMMA FintsNear ==
  ASSUME NEW width \in {INT_WIDTH, LONG_WIDTH}, NEW i \in Int, Absolute(i) < Half(width),
         Absolute(i) < 2 ^ (Top(FI16) + FI16.m), i < 0 => 2 * Absolute(i) <= Half(width),
         NEW r \in FintsFrom(i, width)
  PROVE  /\ IsClose(i, r) /\ (i = 0 => FintValue(r) = 0)
         /\ i # 0 => IsNearer(Absolute(i), IF i < 0 THEN 1 ELSE 0, r)
<1>1. CASE i = 0
  <2>1. r = 0
    <3>1. i # Smallest(width)
      BY <1>1, Halves DEF Smallest, Half
    <3>2. FintsFrom(i, width) = {0}
      BY <1>1, <3>1 DEF FintsFrom
    <3> QED BY <3>2
  <2>2. 0 \in AWord
    BY WordFacts DEF AWord
  <2>3. FintValue(0) = 0 /\ FintUnit(0) \in Nat \ {0}
    <3>1. PICK p \in Nat \ {0}, t \in Nat : p = 2 ^ FI16.m /\ t = Top(FI16) /\ t > 0
      BY FintBasics
    <3>2. 0 \in 0 .. t /\ 0 \in 0 .. p - 1 /\ 0 * SIGN + 0 * p + 0 = 0
      BY <3>1, WordFacts
    <3>3. Word(FI16, 0, 0, 0) = 0 /\ exponent(FI16, 0) = 0 /\ mantissa(FI16, 0) = 0
      BY <3>1, <3>2, FintWord
    <3>4. fmant(0) = 0
      BY <3>3 DEF fmant
    <3>5. FintUnit(0) \in Nat \ {0} /\ FintValue(0) = Signal(sign(FI16, 0), FintSize(0))
      BY <2>2, FintNumber DEF IsFint
    <3>6. FintSize(0) = 0
      BY <3>4, <3>5 DEF FintSize
    <3> QED BY <3>5, <3>6 DEF Signal
  <2>4. Absolute(FintValue(r) - i) = 0
    BY <1>1, <2>1, <2>3 DEF Absolute
  <2>5. \A v \in AWord : Absolute(FintValue(v) - i) \in Nat
    <3>1. \A v \in AWord : FintValue(v) \in Int
      BY IntegerWraps
    <3> QED BY <3>1 DEF Absolute
  <2> QED BY <1>1, <2>1, <2>2, <2>3, <2>4, <2>5 DEF IsClose
<1>2. CASE i # 0
  <2>1. PICK n \in Nat \ {0}, s \in {0, 1} :
          n = Absolute(i) /\ s = (IF i < 0 THEN 1 ELSE 0) /\ i = Signal(s, n)
    BY <1>2 DEF Absolute, Signal
  <2>2. PICK H \in Nat \ {0} : H = Half(width) /\ n < H /\ (s = 1 => 2 * n <= H)
    BY <2>1, Halves
  <2>3. FintsFrom(i, width) = {Nearer(i, n, width)}
    <3>1. i # Smallest(width)
      BY <2>1, <2>2 DEF Smallest, Half, Absolute
    <3> QED BY <1>2, <2>1, <3>1 DEF FintsFrom
  <2>4. IsNearer(n, s, Nearer(i, n, width))
    BY <2>1, <2>2, NearerNumber
  <2>5. IsNearer(n, s, r)
    BY <2>3, <2>4
  <2>6. r \in AWord /\ sign(FI16, r) = s /\ Absolute(FintSize(r) - n) < FintUnit(r)
    BY <2>5 DEF IsNearer
  <2>7. FintUnit(r) \in Nat \ {0} /\ FintSize(r) \in Nat /\ FintValue(r) = Signal(s, FintSize(r))
    BY <2>6, FintNumber DEF IsFint
  <2>8. Absolute(FintValue(r) - i) = Absolute(FintSize(r) - n) /\ FintValue(r) \in Int
    BY <2>1, <2>7 DEF Signal, Absolute
  <2>9. ASSUME i >= 0, NEW v \in AWord
        PROVE  Absolute(FintValue(r) - i) <= Absolute(FintValue(v) - i)
    <3>1. s = 0 /\ i = n
      BY <2>1, <2>9 DEF Absolute
    <3> QED BY <2>5, <2>9, <3>1 DEF IsNearer
  <2> QED BY <1>2, <2>1, <2>5, <2>6, <2>7, <2>8, <2>9 DEF IsClose
<1> QED BY <1>1, <1>2

\* The fint below a number of few digits is that number; one digit more than a
\* fint has may be lost.
IsBelow(k, J, p, w) ==
  \/ FintSize(w) = k * J
  \/ k >= 2 * p /\ FintUnit(w) = 2 * J /\ FintSize(w) = k * J - J

LEMMA CutMultiple ==
  ASSUME NEW j \in Nat, KnownPower(j + 1), NEW J, J = 2 ^ j, NEW p, p = 2 ^ FI16.m,
         NEW k \in 0 .. 4 * p - 1, NEW w \in AWord,
         FintSize(w) <= k * J, k * J < FintSize(w) + FintUnit(w)
  PROVE  IsBelow(k, J, p, w)
<1>1. PICK q \in Nat \ {0}, G \in Nat \ {0} : q = p /\ G = J /\ 2 ^ (j + 1) = 2 * G /\ KnownPower(j)
  <2>1. 2 ^ (j + 1) = 2 ^ j * 2 ^ 1 /\ KnownPower(j)
    <3>1. 1 \in Nat
      OBVIOUS
    <3> QED BY <3>1, PowersKnown
  <2>2. 2 ^ j \in Nat \ {0}
    BY <2>1, PowersKnown
  <2> QED BY <2>1, <2>2, FintBasics, FirstPowers
<1>2. PICK y \in Nat, f \in 0 .. 2 * q - 1, u \in Nat \ {0} :
        /\ y = fexp(w) /\ f = fmant(w) /\ u = 2 ^ y /\ u = FintUnit(w) /\ KnownPower(y)
        /\ FintSize(w) = f * u /\ (y > 0 => f >= q)
  <2>1. fexp(w) \in Nat /\ FintUnit(w) \in Nat \ {0} /\ fmant(w) \in 0 .. 2 * q - 1 /\ (fexp(w) > 0 => fmant(w) >= q)
    BY <1>1, FintNumber, FintParts DEF IsFint
  <2>2. KnownPower(fexp(w))
    BY FintRange
  <2> QED BY <2>1, <2>2 DEF FintSize, FintUnit
<1>3. PICK n \in Nat, a \in Nat : n = k * G /\ a = f * u /\ a <= n /\ n < a + u
  <2>1. k \in Nat
    BY <1>1
  <2>2. k * G \in Nat /\ f * u \in Nat
    BY <2>1
  <2> QED BY <1>1, <1>2, <2>2
<1>4. CASE y <= j
  <2>1. PICK d \in Nat : j = y + d
    <3>1. j - y \in Nat /\ j = y + (j - y)
      BY <1>4
    <3> QED BY <3>1
  <2>2. PICK D \in Nat \ {0} : G = u * D
    <3>1. G = 2 ^ y * 2 ^ d /\ KnownPower(d)
      BY <1>1, <2>1, PowersKnown
    <3> QED BY <1>2, <3>1, PowersKnown
  <2>3. PICK c \in Int : c = k * D /\ n = c * u
    <3>1. k * (u * D) = (k * D) * u /\ k * D \in Int
      OBVIOUS
    <3> QED BY <1>3, <2>2, <3>1
  <2>4. c = f
    <3>1. ~(c >= f + 1)
      <4> SUFFICES ASSUME c >= f + 1 PROVE FALSE
        OBVIOUS
      <4>1. c * u >= (f + 1) * u /\ (f + 1) * u = f * u + u
        OBVIOUS
      <4> QED BY <1>3, <2>3, <4>1
    <3>2. ~(c <= f - 1)
      <4> SUFFICES ASSUME c <= f - 1 PROVE FALSE
        OBVIOUS
      <4>1. c * u <= (f - 1) * u /\ (f - 1) * u = f * u - u
        OBVIOUS
      <4> QED BY <1>3, <2>3, <4>1
    <3> QED BY <3>1, <3>2
  <2> QED BY <1>1, <1>2, <1>3, <2>3, <2>4 DEF IsBelow
<1>5. CASE y = j + 1
  <2>1. u = 2 * G /\ f >= q
    BY <1>1, <1>2, <1>5
  <2>2. PICK b \in Nat : b = 2 * f /\ a = b * G
    <3>1. f * (2 * G) = (2 * f) * G
      OBVIOUS
    <3> QED BY <1>3, <2>1, <3>1
  <2>3. k >= b
    <3> SUFFICES ASSUME k <= b - 1 PROVE FALSE
      OBVIOUS
    <3>1. k * G <= (b - 1) * G /\ (b - 1) * G = b * G - G
      OBVIOUS
    <3> QED BY <1>3, <2>2, <3>1
  <2>4. k <= b + 1
    <3> SUFFICES ASSUME k >= b + 2 PROVE FALSE
      OBVIOUS
    <3>1. k * G >= (b + 2) * G /\ (b + 2) * G = b * G + 2 * G
      OBVIOUS
    <3> QED BY <1>3, <2>1, <2>2, <3>1
  <2>5. CASE k = b
    BY <1>1, <1>2, <1>3, <2>2, <2>5 DEF IsBelow
  <2>6. CASE k = b + 1
    <3>1. (b + 1) * G = b * G + G
      OBVIOUS
    <3>2. a = n - G /\ k >= 2 * q
      BY <1>3, <2>1, <2>2, <2>6, <3>1
    <3> QED BY <1>1, <1>2, <1>3, <2>1, <3>2 DEF IsBelow
  <2> QED BY <2>3, <2>4, <2>5, <2>6
<1>6. CASE y > j + 1
  <2>1. PICK h \in Nat : y = (j + 1) + (h + 1)
    <3>1. y - j - 2 \in Nat /\ y = (j + 1) + ((y - j - 2) + 1)
      BY <1>6
    <3> QED BY <3>1
  <2>2. PICK D \in Nat \ {0} : u = (2 * G) * (2 * D)
    <3>1. 2 ^ y = 2 ^ (j + 1) * 2 ^ (h + 1) /\ KnownPower(h + 1)
      <4>1. j + 1 \in Nat /\ h + 1 \in Nat /\ KnownPower((j + 1) + (h + 1))
        BY <1>2, <2>1
      <4> QED BY <2>1, <4>1, PowersKnown
    <3>2. 2 ^ (h + 1) = 2 ^ h * 2 ^ 1 /\ KnownPower(h)
      <4>1. 1 \in Nat
        OBVIOUS
      <4> QED BY <3>1, <4>1, PowersKnown
    <3>3. PICK D \in Nat \ {0} : D = 2 ^ h
      BY <3>2, PowersKnown
    <3>4. D * 2 = 2 * D
      OBVIOUS
    <3> QED BY <1>1, <1>2, <3>1, <3>2, <3>3, <3>4, FirstPowers
  <2>3. u >= 4 * G
    <3>1. (2 * G) * (2 * D) = (4 * G) * D /\ (4 * G) * D >= 4 * G
      OBVIOUS
    <3> QED BY <2>2, <3>1
  <2>4. f * u >= q * u /\ q * u >= q * (4 * G) /\ q * (4 * G) = (4 * q) * G
    BY <1>2, <1>6, <2>3
  <2>5. k * G < (4 * q) * G
    BY <1>1
  <2> QED BY <1>3, <2>4, <2>5
<1> QED BY <1>4, <1>5, <1>6

\* A fint aligned to an exponent that is not smaller: what is shifted out is lost.
IsAlignedFint(w, x, m) ==
  /\ m \in 0 .. 2 * 2 ^ FI16.m - 1 /\ m * 2 ^ x <= FintSize(w) /\ FintSize(w) < m * 2 ^ x + 2 ^ x
  /\ fexp(w) = x => FintSize(w) = m * 2 ^ x

LEMMA AlignedFint ==
  ASSUME NEW w \in AWord, NEW x \in Nat, fexp(w) <= x, KnownPower(x)
  PROVE  IsAlignedFint(w, x, fmant(w) \div 2 ^ (x - fexp(w)))
<1>1. PICK p \in Nat \ {0}, y \in Nat, f \in Nat, u \in Nat \ {0} :
        /\ p = 2 ^ FI16.m /\ y = fexp(w) /\ f = fmant(w) /\ u = 2 ^ y /\ FintSize(w) = f * u /\ f < 2 * p
  <2>1. PICK p \in Nat \ {0} : p = 2 ^ FI16.m
    BY FintBasics
  <2>2. fexp(w) \in Nat /\ FintUnit(w) \in Nat \ {0} /\ fmant(w) \in 0 .. 2 * p - 1
    BY <2>1, FintNumber, FintParts DEF IsFint
  <2>3. fmant(w) \in Nat /\ fmant(w) < 2 * p
    BY <2>2
  <2> QED BY <2>1, <2>2, <2>3 DEF FintSize, FintUnit
<1>2. PICK d \in Nat : d = x - y /\ x = y + d
  <2>1. x - y \in Nat /\ x = y + (x - y)
    BY <1>1
  <2> QED BY <2>1
<1>3. PICK D \in Nat \ {0}, X \in Nat \ {0} : D = 2 ^ d /\ X = 2 ^ x /\ X = u * D
  <2>1. 2 ^ x = 2 ^ y * 2 ^ d /\ KnownPower(d)
    BY <1>2, PowersKnown
  <2>2. 2 ^ d \in Nat \ {0} /\ 2 ^ x \in Nat \ {0}
    BY <2>1, PowersKnown
  <2> QED BY <1>1, <2>1, <2>2
<1>4. PICK m \in Nat, r \in 0 .. D - 1 : m = f \div D /\ f = m * D + r
  <2>1. f = (f \div D) * D + (f % D) /\ f \div D \in Nat /\ f % D \in 0 .. D - 1
    BY DividedParts
  <2> QED BY <2>1
<1>5. m <= f
  <2>1. m * D >= m /\ m * D \in Nat
    OBVIOUS
  <2> QED BY <1>4, <2>1
<1>6. PICK M \in Nat, R \in Nat : M = m * X /\ R = r * u /\ f * u = M + R /\ R < X
  <2>1. (m * D + r) * u = m * (u * D) + r * u
    OBVIOUS
  <2>2. r * u <= (D - 1) * u /\ (D - 1) * u = u * D - u /\ r * u \in Nat /\ m * X \in Nat
    OBVIOUS
  <2> QED BY <1>3, <1>4, <2>1, <2>2
<1>7. ASSUME y = x
      PROVE  R = 0
  <2>1. D = 1
    BY <1>2, <1>3, <1>7, FirstPowers
  <2> QED BY <1>6, <2>1
<1>8. fmant(w) \div 2 ^ (x - fexp(w)) = m
  BY <1>1, <1>2, <1>3, <1>4
<1>9. m \in 0 .. 2 * p - 1
  BY <1>1, <1>5
<1> QED BY <1>1, <1>3, <1>6, <1>7, <1>8, <1>9 DEF IsAlignedFint

\* The difference of two numbers of which one lost less than X.
IsDifference(A, B, X, H, n) ==
  /\ n < H /\ Absolute((A - B) - n) < X
  /\ n > 0 => A > B
  /\ n > 0 /\ 2 * (A - B) < H => 2 * n <= H

LEMMA Difference ==
  ASSUME NEW X \in Nat \ {0}, NEW H \in Nat \ {0}, NEW A \in Nat, NEW B \in Nat, A < H, B < H,
         NEW k \in Nat, NEW l \in Nat, l <= k,
         k * X <= A, A < k * X + X, l * X <= B, B < l * X + X, A = k * X \/ B = l * X,
         X < H => \E J \in Nat \ {0} : H = (2 * X) * J
  PROVE  IsDifference(A, B, X, H, (k - l) * X)
<1>1. PICK P \in Nat, Q \in Nat, m \in Nat, n \in Nat : P = k * X /\ Q = l * X /\ m = k - l /\ n = m * X /\ P = Q + n
  <2>1. k * X = l * X + (k - l) * X /\ k * X \in Nat /\ l * X \in Nat /\ k - l \in Nat
    OBVIOUS
  <2>2. (k - l) * X \in Nat
    BY <2>1
  <2> QED BY <2>1, <2>2
<1>2. n < H /\ Absolute((A - B) - n) < X
  BY <1>1 DEF Absolute
<1>3. n > 0 => n >= X
  <2>1. CASE m = 0
    BY <1>1, <2>1
  <2>2. CASE m > 0
    <3>1. m * X >= X
      BY <2>2
    <3> QED BY <1>1, <3>1
  <2> QED BY <2>1, <2>2
<1>4. n > 0 => A > B
  BY <1>1, <1>3
<1>5. ASSUME n > 0, 2 * (A - B) < H
      PROVE  2 * n <= H
  <2>1. PICK J \in Nat \ {0} : H = (2 * X) * J
    BY <1>2, <1>3, <1>5
  <2>2. 2 * n < H + 2 * X
    BY <1>1, <1>5
  <2>3. m <= J
    <3> SUFFICES ASSUME m >= J + 1
                 PROVE  FALSE
      OBVIOUS
    <3>1. (2 * X) * m >= (2 * X) * (J + 1) /\ (2 * X) * m = 2 * (m * X) /\ (2 * X) * (J + 1) = (2 * X) * J + 2 * X
      OBVIOUS
    <3> QED BY <1>1, <2>1, <2>2, <3>1
  <2>4. (2 * X) * m <= (2 * X) * J /\ (2 * X) * m = 2 * (m * X)
    BY <2>3
  <2> QED BY <1>1, <2>1, <2>4
<1> QED BY <1>1, <1>2, <1>4, <1>5 DEF IsDifference

\* What fi16_add hands on: the sum as far as its digits go.
IsSum(a, b, exact, i) ==
  \E x \in Nat, k \in Nat, s \in {0, 1}, p \in Nat \ {0}, X \in Nat \ {0} :
    /\ p = 2 ^ FI16.m /\ X = 2 ^ x /\ KnownPower(x + 1) /\ (X = FintUnit(a) \/ X = FintUnit(b))
    /\ i = Signal(s, k * X) /\ k < 4 * p /\ k * X < Half(INT_WIDTH)
    /\ s = 1 => 2 * (k * X) <= Half(INT_WIDTH)
    /\ \/ k < 2 * p /\ Absolute(i - exact) < X
       \/ \E E \in Nat : exact = Signal(s, E) /\ k * X <= E /\ E < k * X + X

LEMMA FintSums ==
  ASSUME NEW a \in AWord, NEW b \in AWord,
         NEW exact, exact = FintValue(a) + FintValue(b),
         IsInt(FintValue(a)), IsInt(FintValue(b)), IsInt(exact), exact < 0 => IsInt(2 * exact)
  PROVE  IsSum(a, b, exact, FintSum(a, b))
<1>1. PICK p \in Nat \ {0}, H \in Nat \ {0} : p = 2 ^ FI16.m /\ H = Half(INT_WIDTH)
  BY FintBasics, Halves
<1>2. PICK A \in Nat, B \in Nat, sa \in {0, 1}, sb \in {0, 1} :
        /\ A = FintSize(a) /\ B = FintSize(b) /\ sa = sign(FI16, a) /\ sb = sign(FI16, b)
        /\ FintValue(a) = Signal(sa, A) /\ FintValue(b) = Signal(sb, B)
  BY FintNumber DEF IsFint
<1>3. /\ A < H /\ B < H /\ exact = Signal(sa, A) + Signal(sb, B) /\ exact < H /\ exact \in Int
      /\ exact < 0 => 2 * exact > -H
  BY <1>1, <1>2 DEF IsInt, Half, Signal
<1>4. PICK x \in Nat, X \in Nat \ {0} :
        /\ x = IF fexp(a) > fexp(b) THEN fexp(a) ELSE fexp(b)
        /\ X = 2 ^ x /\ KnownPower(x) /\ KnownPower(x + 1)
        /\ fexp(a) <= x /\ fexp(b) <= x /\ (x = fexp(a) \/ x = fexp(b))
  <2>1. fexp(a) \in 0 .. 2 ^ FI16.e /\ fexp(b) \in 0 .. 2 ^ FI16.e /\ 2 ^ FI16.e \in Nat
    BY FintParts
  <2>2. \A y \in 0 .. 2 ^ FI16.e : KnownPower(y) /\ KnownPower(y + 1)
    <3>1. \A y \in 0 .. 2 ^ FI16.e : y \in 0 .. 2 * 2 ^ FI16.e + 1 /\ y + 1 \in 0 .. 2 * 2 ^ FI16.e + 1
      BY <2>1
    <3>2. 2 * 2 ^ FI16.e \in Nat
      BY <2>1
    <3> QED BY <3>1, <3>2 DEF KnownPower
  <2>3. PICK x \in 0 .. 2 ^ FI16.e : x = IF fexp(a) > fexp(b) THEN fexp(a) ELSE fexp(b)
    BY <2>1
  <2>4. x \in Nat /\ KnownPower(x) /\ KnownPower(x + 1)
    BY <2>1, <2>2, <2>3
  <2>5. 2 ^ x \in Nat \ {0}
    BY <2>4, PowersKnown
  <2> QED BY <2>1, <2>3, <2>4, <2>5
<1>5. PICK k \in Nat, l \in Nat :
        /\ k = fmant(a) \div 2 ^ (x - fexp(a)) /\ l = fmant(b) \div 2 ^ (x - fexp(b))
        /\ k < 2 * p /\ l < 2 * p
        /\ k * X <= A /\ A < k * X + X /\ l * X <= B /\ B < l * X + X
        /\ A = k * X \/ B = l * X
  <2>1. /\ IsAlignedFint(a, x, fmant(a) \div 2 ^ (x - fexp(a)))
        /\ IsAlignedFint(b, x, fmant(b) \div 2 ^ (x - fexp(b)))
    BY <1>4, AlignedFint
  <2>2. PICK k, l : k = fmant(a) \div 2 ^ (x - fexp(a)) /\ l = fmant(b) \div 2 ^ (x - fexp(b))
    OBVIOUS
  <2>3. k \in 0 .. 2 * p - 1 /\ l \in 0 .. 2 * p - 1
    BY <1>1, <2>1, <2>2 DEF IsAlignedFint
  <2>4. k \in Nat /\ l \in Nat /\ k < 2 * p /\ l < 2 * p
    BY <2>3
  <2> QED BY <1>2, <1>4, <2>1, <2>2, <2>4 DEF IsAlignedFint
<1>6. X < H => \E J \in Nat \ {0} : H = (2 * X) * J
  BY <1>1, <1>4, HalfParts
<1>7. PICK m \in Nat, s \in {0, 1} :
        m = (IF sa = sb THEN k + l ELSE Absolute(k - l)) /\ s = (IF sa = sb \/ k >= l THEN sa ELSE sb)
  <2>1. k + l \in Nat /\ Absolute(k - l) \in Nat
    BY DEF Absolute
  <2> QED BY <2>1
<1>8. FintSum(a, b) = LET n == InBits(m * X, INT_WIDTH) IN InBits(IF s = 1 THEN -n ELSE n, INT_WIDTH)
  <2> HIDE DEF InBits
  <2> QED BY <1>2, <1>4, <1>5, <1>7 DEF FintSum
<1>9. PICK n \in Nat : n = m * X
  OBVIOUS
<1>10. ASSUME n < H
       PROVE  FintSum(a, b) = Signal(s, n)
  <2>1. /\ n \in Int /\ -n \in Int /\ -Half(INT_WIDTH) <= n /\ n < Half(INT_WIDTH)
        /\ -Half(INT_WIDTH) <= -n /\ -n < Half(INT_WIDTH)
    BY <1>1, <1>10
  <2>2. InBits(n, INT_WIDTH) = n /\ InBits(-n, INT_WIDTH) = -n
    BY <2>1, InBitsWrap
  <2> QED BY <1>8, <1>9, <2>2 DEF Signal
<1>11. CASE sa = sb
  <2>1. m = k + l /\ s = sa
    BY <1>7, <1>11
  <2>2. n <= A + B /\ A + B < n + X
    <3>1. (k + l) * X = k * X + l * X /\ k * X \in Nat /\ l * X \in Nat
      OBVIOUS
    <3> QED BY <1>5, <1>9, <2>1, <3>1
  <2>3. exact = Signal(s, A + B) /\ A + B \in Nat
    BY <1>3, <1>11, <2>1 DEF Signal
  <2>4. n < H /\ (s = 1 => 2 * n <= H)
    BY <1>3, <2>2, <2>3 DEF Signal
  <2>5. m < 4 * p
    BY <1>5, <2>1
  <2> QED BY <1>1, <1>4, <1>9, <1>10, <2>2, <2>3, <2>4, <2>5 DEF IsSum, FintUnit
<1>12. CASE sa # sb /\ k >= l
  <2>1. m = k - l /\ s = sa /\ m < 4 * p /\ m < 2 * p
    BY <1>5, <1>7, <1>12 DEF Absolute
  <2>2. IsDifference(A, B, X, H, n)
    BY <1>3, <1>5, <1>6, <1>9, <1>12, <2>1, Difference
  <2>3. n < H /\ Absolute((A - B) - n) < X /\ (n > 0 => A > B) /\ (n > 0 /\ 2 * (A - B) < H => 2 * n <= H)
    BY <2>2 DEF IsDifference
  <2>4. exact = Signal(s, A - B) /\ FintSum(a, b) = Signal(s, n)
    BY <1>3, <1>10, <1>12, <2>1, <2>3 DEF Signal
  <2>5. Absolute(FintSum(a, b) - exact) < X
    BY <2>3, <2>4 DEF Signal, Absolute
  <2>6. s = 1 => 2 * n <= H
    BY <1>3, <2>3, <2>4 DEF Signal
  <2> QED BY <1>1, <1>4, <1>9, <2>1, <2>3, <2>4, <2>5, <2>6 DEF IsSum, FintUnit
<1>13. CASE sa # sb /\ k < l
  <2>1. m = l - k /\ s = sb /\ m < 4 * p /\ m < 2 * p
    BY <1>5, <1>7, <1>13 DEF Absolute
  <2>2. IsDifference(B, A, X, H, n)
    <3>1. k <= l /\ (B = l * X \/ A = k * X) /\ n = (l - k) * X
      BY <1>5, <1>9, <1>13, <2>1
    <3>2. IsDifference(B, A, X, H, (l - k) * X)
      BY <1>3, <1>5, <1>6, <3>1, Difference
    <3> QED BY <3>1, <3>2
  <2>3. n < H /\ Absolute((B - A) - n) < X /\ (n > 0 => B > A) /\ (n > 0 /\ 2 * (B - A) < H => 2 * n <= H)
    BY <2>2 DEF IsDifference
  <2>4. exact = Signal(s, B - A) /\ FintSum(a, b) = Signal(s, n)
    BY <1>3, <1>10, <1>13, <2>1, <2>3 DEF Signal
  <2>5. Absolute(FintSum(a, b) - exact) < X
    BY <2>3, <2>4 DEF Signal, Absolute
  <2>6. s = 1 => 2 * n <= H
    BY <1>3, <2>3, <2>4 DEF Signal
  <2> QED BY <1>1, <1>4, <1>9, <2>1, <2>3, <2>4, <2>5, <2>6 DEF IsSum, FintUnit
<1> QED BY <1>11, <1>12, <1>13

\* Near an exact result by a unit of one of three fints.
WithinUnit(a, b, r, exact) ==
  /\ r \in AWord /\ FintValue(r) \in Int
  /\ \E u \in {FintUnit(a), FintUnit(b), FintUnit(r)} : Absolute(FintValue(r) - exact) < u

\* The law of sums: where the digits that are kept are those of a fint nothing
\* more is lost, and where they are one more the unit of the result is larger.
LEMMA FintSumNear ==
  ASSUME NEW a \in AWord, NEW b \in AWord, NEW exact \in Int, NEW i, IsSum(a, b, exact, i),
         NEW r \in FintsFrom(i, INT_WIDTH)
  PROVE  WithinUnit(a, b, r, exact)
<1>1. PICK x \in Nat, k \in Nat, s \in {0, 1}, p \in Nat \ {0}, X \in Nat \ {0} :
        /\ p = 2 ^ FI16.m /\ X = 2 ^ x /\ KnownPower(x + 1) /\ (X = FintUnit(a) \/ X = FintUnit(b))
        /\ i = Signal(s, k * X) /\ k < 4 * p /\ k * X < Half(INT_WIDTH)
        /\ s = 1 => 2 * (k * X) <= Half(INT_WIDTH)
        /\ \/ k < 2 * p /\ Absolute(i - exact) < X
           \/ \E E \in Nat : exact = Signal(s, E) /\ k * X <= E /\ E < k * X + X
  BY DEF IsSum
<1>2. PICK n \in Nat, H \in Nat \ {0} :
        n = k * X /\ H = Half(INT_WIDTH) /\ n < H /\ (s = 1 => 2 * n <= H) /\ i = Signal(s, n)
  <2>1. k * X \in Nat
    OBVIOUS
  <2> QED BY <1>1, <2>1, Halves
<1>3. n < 2 ^ (Top(FI16) + FI16.m)
  <2>1. PICK T \in Nat : T = Top(FI16) + FI16.m /\ INT_WIDTH <= T /\ T < LONG_WIDTH - 1
    <3>1. Top(FI16) + FI16.m \in Nat
      BY FintBasics
    <3> QED BY <3>1, FintFacts
  <2>2. INT_WIDTH - 1 \in Nat /\ INT_WIDTH - 1 <= T /\ T \in 0 .. LONG_WIDTH
    BY <2>1, LongPowers
  <2>3. H <= 2 ^ T
    BY <1>2, <2>1, <2>2, LongPowers, PowersOrdered DEF Half
  <2>4. 2 ^ T \in Nat
    BY <2>2, LongPowers
  <2> QED BY <1>2, <2>1, <2>3, <2>4
<1>4. i \in Int /\ Absolute(i) = n /\ (i < 0 => s = 1)
  BY <1>2 DEF Signal, Absolute
<1>5. /\ IsClose(i, r) /\ (i = 0 => FintValue(r) = 0)
      /\ i # 0 => IsNearer(n, IF i < 0 THEN 1 ELSE 0, r)
  BY <1>2, <1>3, <1>4, FintsNear
<1>6. r \in AWord /\ FintValue(r) \in Int /\ FintUnit(r) \in Nat \ {0}
  BY <1>5 DEF IsClose
<1>7. CASE n = 0
  <2>1. FintValue(r) = 0 /\ i = 0
    BY <1>2, <1>5, <1>7 DEF Signal
  <2>2. Absolute(i - exact) < X
    <3>1. ASSUME NEW E \in Nat, exact = Signal(s, E), k * X <= E, E < k * X + X
          PROVE  Absolute(i - exact) < X
      <4>1. E < X
        BY <1>2, <1>7, <3>1
      <4> QED BY <2>1, <3>1, <4>1 DEF Signal, Absolute
    <3> QED BY <1>1, <3>1
  <2> QED BY <1>1, <1>6, <2>1, <2>2 DEF WithinUnit
<1>8. CASE n # 0
  <2>1. IsNearer(n, s, r)
    <3>1. i # 0 /\ s = IF i < 0 THEN 1 ELSE 0
      BY <1>2, <1>8 DEF Signal
    <3> QED BY <1>5, <3>1
  <2>2. PICK w \in AWord :
          /\ FintSize(w) <= n /\ n < FintSize(w) + FintUnit(w) /\ FintUnit(w) <= FintUnit(r)
          /\ r = w \/ (FintSize(w) # n /\ FintSize(r) = FintSize(w) + FintUnit(w))
    BY <2>1 DEF IsNearer
  <2>3. PICK R \in Nat : R = FintSize(r) /\ FintValue(r) = Signal(s, R)
    <3>1. sign(FI16, r) = s
      BY <2>1 DEF IsNearer
    <3> QED BY <1>6, <3>1, FintNumber DEF IsFint
  <2>4. IsBelow(k, X, p, w)
    <3>1. k \in 0 .. 4 * p - 1
      BY <1>1
    <3> QED BY <1>1, <1>2, <2>2, <3>1, CutMultiple
  <2>5. FintSize(w) \in Nat /\ FintUnit(w) \in Nat \ {0}
    BY FintNumber DEF IsFint
  <2>6. CASE FintSize(w) = n
    <3>1. R = n /\ FintValue(r) = i
      BY <1>2, <2>2, <2>3, <2>6
    <3>2. Absolute(i - exact) < X
      <4>1. ASSUME NEW E \in Nat, exact = Signal(s, E), k * X <= E, E < k * X + X
            PROVE  Absolute(i - exact) < X
        BY <1>2, <4>1 DEF Signal, Absolute
      <4> QED BY <1>1, <4>1
    <3> QED BY <1>1, <1>6, <3>1, <3>2 DEF WithinUnit
  <2>7. CASE FintSize(w) # n
    <3>1. k >= 2 * p /\ FintUnit(w) = 2 * X /\ FintSize(w) = n - X
      BY <1>2, <2>4, <2>7 DEF IsBelow
    <3>2. PICK E \in Nat : exact = Signal(s, E) /\ n <= E /\ E < n + X
      BY <1>1, <1>2, <3>1
    <3>3. (R = n - X \/ R = n + X) /\ FintUnit(r) >= 2 * X
      BY <1>2, <1>6, <2>2, <2>3, <3>1
    <3>4. Absolute(FintValue(r) - exact) < FintUnit(r)
      BY <1>2, <1>6, <2>3, <3>2, <3>3 DEF Signal, Absolute
    <3> QED BY <1>6, <3>4 DEF WithinUnit
  <2> QED BY <2>6, <2>7
<1> QED BY <1>7, <1>8

\* The word for the negative number.
LEMMA NegatedFint ==
  ASSUME NEW b \in AWord
  PROVE  /\ Negated(FI16, b) \in AWord /\ FintUnit(Negated(FI16, b)) = FintUnit(b)
         /\ FintValue(Negated(FI16, b)) = -FintValue(b)
<1>1. PICK n \in AWord :
        /\ n = Negated(FI16, b) /\ exponent(FI16, n) = exponent(FI16, b)
        /\ mantissa(FI16, n) = mantissa(FI16, b) /\ sign(FI16, n) = 1 - sign(FI16, b)
  <2>1. FI16 \in AnyFormat
    BY DEF AnyFormat
  <2>2. PICK s \in {0, 1}, x \in 0 .. Top(FI16), m \in 0 .. 2 ^ FI16.m - 1 :
          /\ s = sign(FI16, b) /\ x = exponent(FI16, b) /\ m = mantissa(FI16, b)
          /\ b = s * SIGN + x * 2 ^ FI16.m + m /\ b % SIGN = x * 2 ^ FI16.m + m
    BY <2>1, Fields
  <2>3. PICK z \in Nat \ {0}, r \in Nat : /\ z = SIGN /\ WORDS = 2 * z /\ Negative(FI16) = z
                                           /\ r = b % SIGN /\ r < z /\ b = s * z + r
    <3>1. PICK z \in Nat \ {0} : z = SIGN /\ WORDS = 2 * z /\ Negative(FI16) = z
      BY FintBasics, WordFacts
    <3>2. b % z \in Nat /\ b % z < z /\ b \in Nat
      BY <3>1 DEF AWord
    <3>3. PICK g \in Nat, h \in Nat : g = x * 2 ^ FI16.m /\ h = s * z
      <4>1. PICK p \in Nat \ {0} : p = 2 ^ FI16.m
        BY FintBasics
      <4>2. x \in Nat
        BY FintBasics
      <4>3. x * p \in Nat /\ s * z \in Nat
        BY <4>2
      <4> QED BY <4>1, <4>3
    <3>4. m \in Nat
      BY FintBasics
    <3> QED BY <2>2, <3>1, <3>2, <3>3, <3>4
  <2>4. Negated(FI16, b) = (1 - s) * z + r
    <3>1. Negated(FI16, b) = (b + z) % (2 * z)
      BY <2>3 DEF Negated
    <3>2. s = 0 => b + z = z + r
      BY <2>3
    <3>3. s = 1 => b + z = 2 * z + r
      BY <2>3
    <3> QED BY <2>3, <3>1, <3>2, <3>3, TurnedRound
  <2>5. 1 - s \in {0, 1}
    OBVIOUS
  <2>6. Word(FI16, 1 - s, x, m) = (1 - s) * z + r
    <3>1. Word(FI16, 1 - s, x, m) = (1 - s) * z + x * 2 ^ FI16.m + m
      BY <2>3 DEF Word
    <3>2. PICK g \in Nat, h \in Nat, l \in Nat : g = x * 2 ^ FI16.m /\ h = (1 - s) * z /\ l = m
      <4>1. PICK p \in Nat \ {0} : p = 2 ^ FI16.m
        BY FintBasics
      <4>2. x \in Nat /\ m \in Nat
        BY FintBasics
      <4>3. x * p \in Nat /\ (1 - s) * z \in Nat
        BY <4>2
      <4> QED BY <4>1, <4>2, <4>3
    <3> QED BY <2>2, <2>3, <3>1, <3>2
  <2> QED BY <2>2, <2>4, <2>5, <2>6, FintWord
<1>2. fexp(n) = fexp(b) /\ fmant(n) = fmant(b)
  BY <1>1 DEF fexp, fmant
<1>3. FintUnit(n) = FintUnit(b) /\ FintSize(n) = FintSize(b)
  BY <1>2 DEF FintUnit, FintSize
<1>4. /\ FintValue(n) = Signal(sign(FI16, n), FintSize(n)) /\ FintValue(b) = Signal(sign(FI16, b), FintSize(b))
      /\ sign(FI16, b) \in {0, 1} /\ FintSize(b) \in Nat
  BY FintNumber DEF IsFint
<1>5. FintValue(n) = -FintValue(b)
  BY <1>1, <1>3, <1>4 DEF Signal
<1> QED BY <1>1, <1>3, <1>5

\* The word 0 is the fint 0, and the only one made from it.
LEMMA ZeroFint ==
  ASSUME NEW width \in {INT_WIDTH, LONG_WIDTH}
  PROVE  0 \in AWord /\ FintValue(0) = 0 /\ FintsFrom(0, width) = {0} /\ IsClose(0, 0)
<1>1. Smallest(width) # 0
  BY Halves DEF Smallest, Half
<1>2. FintsFrom(0, width) = {0}
  BY <1>1 DEF FintsFrom
<1>3. 0 < 2 ^ (Top(FI16) + FI16.m) /\ 0 < Half(width) /\ Absolute(0) = 0
  <2>1. PICK T \in Nat : T = Top(FI16) + FI16.m /\ T < LONG_WIDTH - 1
    <3>1. Top(FI16) + FI16.m \in Nat
      BY FintBasics
    <3> QED BY <3>1, FintFacts
  <2>2. T \in 0 .. LONG_WIDTH
    BY <2>1, LongPowers
  <2> QED BY <2>1, <2>2, LongPowers, Halves DEF Absolute
<1>4. IsClose(0, 0) /\ FintValue(0) = 0
  BY <1>2, <1>3, FintsNear
<1> QED BY <1>2, <1>4 DEF IsClose

\* The law of products: what fits into the format is formed without loss.
LEMMA FintProductNear ==
  ASSUME NEW a \in AWord, NEW b \in AWord, Absolute(FintValue(a) * FintValue(b)) <= MaxFint,
         NEW r \in FintsFrom(FintProduct(a, b), LONG_WIDTH)
  PROVE  IsClose(FintValue(a) * FintValue(b), r)
<1>1. PICK A \in Nat, B \in Nat, sa \in {0, 1}, sb \in {0, 1} :
        /\ A = FintSize(a) /\ B = FintSize(b) /\ sa = sign(FI16, a) /\ sb = sign(FI16, b)
        /\ FintValue(a) = Signal(sa, A) /\ FintValue(b) = Signal(sb, B)
  BY FintNumber DEF IsFint
<1>2. PICK n \in Nat, s \in {0, 1} :
        n = A * B /\ s = (IF sa = sb THEN 0 ELSE 1) /\ FintValue(a) * FintValue(b) = Signal(s, n)
  <2>1. A * B \in Nat /\ (-A) * B = -(A * B) /\ A * (-B) = -(A * B) /\ (-A) * (-B) = A * B
    OBVIOUS
  <2> QED BY <1>1, <2>1 DEF Signal
<1>3. PICK T \in Nat, G \in Nat : /\ T = Top(FI16) + FI16.m /\ G = 2 ^ T /\ 2 * G <= Half(LONG_WIDTH)
  <2>1. PICK T \in Nat : T = Top(FI16) + FI16.m /\ T < LONG_WIDTH - 1
    <3>1. Top(FI16) + FI16.m \in Nat
      BY FintBasics
    <3> QED BY <3>1, FintFacts
  <2>2. LONG_WIDTH - 1 \in Nat /\ T + 1 \in Nat /\ 1 \in Nat /\ T + 1 <= LONG_WIDTH - 1 /\ KnownPower(LONG_WIDTH - 1)
    BY <2>1, LongPowers
  <2>3. KnownPower(T + 1) /\ 2 ^ (T + 1) <= 2 ^ (LONG_WIDTH - 1)
    BY <2>2, PowersOrdered
  <2>4. 2 ^ (T + 1) = 2 ^ T * 2 ^ 1 /\ KnownPower(T)
    BY <2>2, <2>3, PowersKnown
  <2>5. PICK G \in Nat : G = 2 ^ T
    BY <2>4, PowersKnown
  <2>6. Half(LONG_WIDTH) \in Nat
    BY Halves
  <2> QED BY <2>1, <2>3, <2>4, <2>5, <2>6, FirstPowers DEF Half
<1>4. n < G
  <2>1. SIGN - 1 \in AWord
    BY WordFacts DEF AWord
  <2>2. MaxFint = Signal(sign(FI16, SIGN - 1), FintSize(SIGN - 1)) /\ FintSize(SIGN - 1) \in Nat
    BY <2>1, FintNumber DEF IsFint, MaxFint
  <2>3. FintSize(SIGN - 1) < G
    BY <1>3, <2>1, FintRange
  <2>4. MaxFint < G
    BY <1>3, <2>2, <2>3 DEF Signal
  <2>5. Absolute(FintValue(a) * FintValue(b)) = n /\ MaxFint \in Int
    BY <1>2, <2>2 DEF Signal, Absolute
  <2> QED BY <1>3, <2>4, <2>5
<1>5. fmant(a) * fmant(b) * 2 ^ (fexp(a) + fexp(b)) = n
  <2>1. PICK f \in Nat, g \in Nat, x \in Nat, y \in Nat :
          f = fmant(a) /\ g = fmant(b) /\ x = fexp(a) /\ y = fexp(b)
          /\ x <= 2 ^ FI16.e /\ y <= 2 ^ FI16.e /\ 2 ^ FI16.e \in Nat
    BY FintParts
  <2>2. KnownPower(x + y)
    <3>1. x + y \in 0 .. 2 * 2 ^ FI16.e + 1 /\ 2 * 2 ^ FI16.e \in Nat
      BY <2>1
    <3> QED BY <3>1 DEF KnownPower
  <2>3. PICK u \in Nat, v \in Nat : u = 2 ^ x /\ v = 2 ^ y /\ 2 ^ (x + y) = u * v
    <3>1. 2 ^ (x + y) = 2 ^ x * 2 ^ y /\ KnownPower(x) /\ KnownPower(y)
      BY <2>2, PowersKnown
    <3>2. 2 ^ x \in Nat /\ 2 ^ y \in Nat
      BY <3>1, PowersKnown
    <3> QED BY <3>1, <3>2
  <2>4. A = f * u /\ B = g * v
    BY <1>1, <2>1, <2>3 DEF FintSize, FintUnit
  <2>5. f * g * (u * v) = (f * u) * (g * v)
    OBVIOUS
  <2> QED BY <1>2, <2>1, <2>3, <2>4, <2>5
<1>6. FintProduct(a, b) = Signal(s, n)
  <2>1. PICK H \in Nat : H = Half(LONG_WIDTH) /\ n < H
    BY <1>3, <1>4, Halves
  <2>2. /\ n \in Int /\ -n \in Int /\ -Half(LONG_WIDTH) <= n /\ n < Half(LONG_WIDTH)
        /\ -Half(LONG_WIDTH) <= -n /\ -n < Half(LONG_WIDTH)
    BY <2>1
  <2>3. InBits(n, LONG_WIDTH) = n /\ InBits(-n, LONG_WIDTH) = -n
    BY <2>2, InBitsWrap
  <2>4. FintProduct(a, b) = LET m == InBits(n, LONG_WIDTH)
                            IN InBits(IF sign(FI16, a) # sign(FI16, b) THEN -m ELSE m, LONG_WIDTH)
    BY <1>5 DEF FintProduct
  <2> QED BY <1>1, <1>2, <2>3, <2>4 DEF Signal
<1>7. PICK i \in Int : i = Signal(s, n) /\ Absolute(i) = n
  BY DEF Signal, Absolute
<1>8. Absolute(i) < Half(LONG_WIDTH) /\ Absolute(i) < 2 ^ (Top(FI16) + FI16.m) /\ 2 * Absolute(i) <= Half(LONG_WIDTH)
  BY <1>3, <1>4, <1>7, Halves
<1>9. IsClose(i, r)
  BY <1>6, <1>7, <1>8, FintsNear
<1> QED BY <1>2, <1>7, <1>9

\* The law of quotients, of integers that are formed without loss.
LEMMA FintQuotientNear ==
  ASSUME NEW a \in AWord, NEW b \in AWord, FintValue(b) # 0,
         NEW exact, exact = Quotient(FintValue(a), FintValue(b)),
         IsInt(FintValue(a)), IsInt(FintValue(b)), exact < 0 => IsInt(2 * exact),
         NEW r \in FintQuotients(a, b)
  PROVE  IsClose(exact, r)
<1>1. PICK A \in Nat, B \in Nat, sa \in {0, 1}, sb \in {0, 1} :
        /\ A = FintSize(a) /\ B = FintSize(b) /\ sa = sign(FI16, a) /\ sb = sign(FI16, b)
        /\ FintValue(a) = Signal(sa, A) /\ FintValue(b) = Signal(sb, B)
  BY FintNumber DEF IsFint
<1>2. PICK H \in Nat \ {0} : H = Half(INT_WIDTH) /\ A < H /\ B < H
  BY <1>1, Halves DEF IsInt, Half, Signal
<1>3. B # 0 /\ b # 0
  BY <1>1, ZeroFint DEF Signal
<1>4. ASSUME NEW w \in AWord, FintSize(w) < H
      PROVE  IntegerOf(w % SIGN, INT_WIDTH) = FintSize(w)
  <2>1. PICK v : v = w % SIGN
    OBVIOUS
  <2>2. v \in AWord /\ v % SIGN = v /\ sign(FI16, v) = 0
    <3>1. PICK z \in Nat \ {0} : z = SIGN /\ WORDS = 2 * z /\ Negative(FI16) = z
      BY FintBasics, WordFacts
    <3>2. w % z \in 0 .. z - 1
      BY <3>1 DEF AWord
    <3>3. v \in 0 .. z - 1
      BY <2>1, <3>1, <3>2
    <3>4. v = 0 * z + v /\ v \in Int /\ 0 \in Int
      BY <3>3
    <3>5. v % z = v /\ v \div z = 0
      BY <3>3, <3>4, Division
    <3> QED BY <3>1, <3>3, <3>5 DEF AWord, sign
  <2>3. FintSize(v) = FintSize(w)
    <3>1. v % SIGN <= w % SIGN /\ w % SIGN <= v % SIGN
      BY <2>1, <2>2, WordFacts DEF AWord
    <3>2. FintSize(v) <= FintSize(w) /\ FintSize(w) <= FintSize(v) /\ FintSize(v) \in Nat /\ FintSize(w) \in Nat
      BY <2>2, <3>1, FintOrder
    <3> QED BY <3>2
  <2>4. FintValue(v) = FintSize(w) /\ FintSize(w) \in Nat
    BY <2>2, <2>3, FintNumber DEF IsFint, Signal
  <2>5. IntegerOf(v, INT_WIDTH) = InBits(FintSize(w), INT_WIDTH)
    BY <2>2, <2>4, IntegerWraps
  <2>6. -Half(INT_WIDTH) <= FintSize(w) /\ FintSize(w) < Half(INT_WIDTH) /\ FintSize(w) \in Int
    BY <1>2, <1>4, <2>4
  <2>7. InBits(FintSize(w), INT_WIDTH) = FintSize(w)
    BY <2>6, InBitsWrap
  <2> QED BY <2>1, <2>5, <2>7
<1>5. IntegerOf(a % SIGN, INT_WIDTH) = A /\ IntegerOf(b % SIGN, INT_WIDTH) = B
  BY <1>1, <1>2, <1>4
<1>6. PICK q \in Nat : q = A \div B /\ q <= A
  <2>1. A \div B \in Nat /\ (A \div B) * B <= A
    <3>1. A = (A \div B) * B + (A % B) /\ A \div B \in Nat /\ A % B \in Nat
      BY <1>3, DividedParts
    <3>2. PICK q \in Nat, c \in Nat : q = A \div B /\ c = A % B
      BY <3>1
    <3>3. q * B \in Nat
      OBVIOUS
    <3> QED BY <3>1, <3>2, <3>3
  <2>2. PICK q \in Nat : q = A \div B
    BY <2>1
  <2>3. q * B >= q /\ q * B \in Nat
    BY <1>3
  <2> QED BY <2>1, <2>2, <2>3
<1>7. q = Quotient(A, B)
  BY <1>6 DEF Quotient, Absolute
<1>8. CASE A = 0
  <2>1. q = 0
    BY <1>6, <1>8
  <2>2. q <= 0
    BY <2>1
  <2>3. exact = 0
    <3>1. \A k \in Nat : k <= 0 => -k = k
      OBVIOUS
    <3>2. FintValue(a) = A /\ Absolute(FintValue(a)) = A
      <4>1. A <= 0
        BY <1>8
      <4>2. -A = A
        BY <3>1, <4>1
      <4> QED BY <1>1, <4>2 DEF Signal, Absolute
    <3>3. Absolute(FintValue(b)) = B
      BY <1>1 DEF Signal, Absolute
    <3>4. exact = q \/ exact = -q
      BY <1>6, <1>8, <3>2, <3>3 DEF Quotient
    <3>5. -q = q
      BY <2>2, <3>1
    <3> QED BY <2>1, <3>4, <3>5
  <2>4. r = 0
    <3>1. InBits(0, INT_WIDTH) = 0
      <4>1. -Half(INT_WIDTH) <= 0 /\ 0 < Half(INT_WIDTH)
        BY <1>2
      <4> QED BY <4>1, InBitsWrap
    <3>2. -q = q
      BY <2>2
    <3>3. a = 0 \/ r \in FintsFrom(0, INT_WIDTH)
      <4>1. InBits(-q, INT_WIDTH) = 0
        BY <2>1, <3>1, <3>2
      <4> QED BY <1>3, <1>5, <1>7, <2>1, <4>1 DEF FintQuotients
    <3>4. a = 0 => r = 0
      BY <1>3 DEF FintQuotients
    <3> QED BY <3>3, <3>4, ZeroFint
  <2> QED BY <2>3, <2>4, ZeroFint
<1>9. CASE A # 0
  <2>1. a # 0
    BY <1>1, <1>9, ZeroFint DEF Signal
  <2>2. PICK s \in {0, 1} : s = (IF sa = sb THEN 0 ELSE 1)
    OBVIOUS
  <2>3. exact = Signal(s, q)
    <3>1. /\ Absolute(FintValue(a)) = A /\ Absolute(FintValue(b)) = B
          /\ (FintValue(a) < 0 <=> sa = 1) /\ (FintValue(b) < 0 <=> sb = 1)
      BY <1>1, <1>3, <1>9 DEF Signal, Absolute
    <3>2. exact = IF FintValue(a) < 0 <=> FintValue(b) < 0 THEN q ELSE -q
      BY <1>6, <3>1 DEF Quotient
    <3> QED BY <2>2, <3>1, <3>2 DEF Signal
  <2>4. InBits(-q, INT_WIDTH) = -q
    <3>1. -q \in Int /\ -Half(INT_WIDTH) <= -q /\ -q < Half(INT_WIDTH)
      BY <1>2, <1>6
    <3> QED BY <3>1, InBitsWrap
  <2>5. r \in FintsFrom(exact, INT_WIDTH)
    <3>1. r \in FintsFrom(IF sign(FI16, a) # sign(FI16, b) THEN InBits(-q, INT_WIDTH) ELSE q, INT_WIDTH)
      BY <1>3, <1>5, <1>7, <2>1 DEF FintQuotients
    <3> QED BY <1>1, <2>2, <2>3, <2>4, <3>1 DEF Signal
  <2>6. exact \in Int /\ Absolute(exact) = q /\ (exact < 0 => s = 1)
    BY <2>3 DEF Signal, Absolute
  <2>7. exact < 0 => 2 * q <= H
    <3> SUFFICES ASSUME exact < 0
                 PROVE  2 * q <= H
      OBVIOUS
    <3>1. exact = -q /\ 2 * exact >= -H
      BY <1>2, <2>3, <2>6 DEF IsInt, Half, Signal
    <3> QED BY <1>2, <3>1
  <2>8. q < 2 ^ (Top(FI16) + FI16.m)
    <3>1. A < 2 ^ (Top(FI16) + FI16.m) /\ 2 ^ (Top(FI16) + FI16.m) \in Nat
      <4>1. PICK T \in Nat : T = Top(FI16) + FI16.m /\ T < LONG_WIDTH - 1
        <5>1. Top(FI16) + FI16.m \in Nat
          BY FintBasics
        <5> QED BY <5>1, FintFacts
      <4>2. T \in 0 .. LONG_WIDTH
        BY <4>1, LongPowers
      <4> QED BY <1>1, <4>1, <4>2, LongPowers, FintRange
    <3> QED BY <1>6, <3>1
  <2>9. q < H
    BY <1>2, <1>6
  <2> QED BY <1>2, <2>5, <2>6, <2>7, <2>8, <2>9, FintsNear
<1> QED BY <1>8, <1>9

\* The biggest unit is no smaller than any.
LEMMA BiggestFintUnit ==
  ASSUME NEW x \in AWord, NEW y \in AWord, NEW z \in AWord, NEW w \in {x, y, z}
  PROVE  LET most == Biggest({FintUnit(v) : v \in {x, y, z}})
         IN most \in Nat /\ FintUnit(w) <= most
<1> DEFINE U == {FintUnit(v) : v \in {x, y, z}}
<1>2. PICK i \in Nat, j \in Nat, k \in Nat : i = FintUnit(x) /\ j = FintUnit(y) /\ k = FintUnit(z)
  BY FintNumber DEF IsFint
<1>3. U = {i, j, k} /\ FintUnit(w) \in U
  BY <1>2
<1> HIDE DEF U
<1>4. \E g \in U : \A h \in U : h <= g
  <2>1. CASE j <= i /\ k <= i
    BY <1>3, <2>1
  <2>2. CASE i <= j /\ k <= j
    BY <1>3, <2>2
  <2>3. CASE i <= k /\ j <= k
    BY <1>3, <2>3
  <2> QED BY <2>1, <2>2, <2>3
<1>5. Biggest(U) \in U /\ \A h \in U : h <= Biggest(U)
  BY <1>4 DEF Biggest
<1>6. Biggest(U) \in Nat /\ FintUnit(w) <= Biggest(U)
  BY <1>3, <1>5
<1> QED BY <1>6 DEF U

\* Results of fint operations are less than a unit off where the integers in
\* between fit into an int, doubled if they are negative, or the product into the
\* format, and positive products and quotients are the nearest fint there is, for
\* every width and choice of the formats (fi16_add, fi16_mult, fi16_div).
THEOREM FintsAreNear == Spec => []FintsClose
<1>1. Done => FintsClose
  <2> SUFFICES ASSUME Done, status = "done", op \in {"ADDL", "SUBL", "MULL", "DIVL"}
               PROVE  FintsClose
    BY DEF FintsClose
  <2> DEFINE a == FintValue(destination)
             b == FintValue(source)
             exact == CASE op = "ADDL" -> a + b [] op = "SUBL" -> a - b [] op = "MULL" -> a * b
                        [] OTHER -> IF b = 0 THEN 0 ELSE Quotient(a, b)
             fits == IF op = "MULL" THEN Absolute(exact) <= MaxFint
                     ELSE IsInt(a) /\ IsInt(b) /\ IsInt(exact) /\ (exact < 0 => IsInt(2 * exact))
             S == {result} \cup (IF op \in {"ADDL", "SUBL"} THEN {destination, source} ELSE {})
  <2> SUFFICES ASSUME fits, ~(op = "DIVL" /\ b = 0)
               PROVE  /\ Absolute(FintValue(result) - exact) < Biggest({FintUnit(w) : w \in S})
                      /\ op \in {"MULL", "DIVL"} /\ exact >= 0 =>
                           \A w \in AWord : Absolute(FintValue(result) - exact) <= Absolute(FintValue(w) - exact)
    BY DEF FintsClose
  <2>1. destination \in AWord /\ source \in AWord /\ result \in Results
    BY DEF Done
  <2>2. Results = FormatResults(op, destination, source)
    BY DEF Results, OnFormats, FLOAT_OPS
  <2>3. a \in Int /\ b \in Int
    BY <2>1, IntegerWraps
  <2>4. ASSUME NEW w \in S, S \subseteq AWord, FintValue(result) \in Int, exact \in Int,
               Absolute(FintValue(result) - exact) < FintUnit(w)
        PROVE  Absolute(FintValue(result) - exact) < Biggest({FintUnit(v) : v \in S})
    <3>1. PICK y \in AWord, z \in AWord : S = {result, y, z} /\ result \in AWord
      <4>1. result \in AWord
        BY <2>4
      <4>2. S = {result, result, result} \/ S = {result, destination, source}
        OBVIOUS
      <4> QED BY <2>1, <4>1, <4>2
    <3>2. PICK most \in Nat : most = Biggest({FintUnit(v) : v \in S}) /\ FintUnit(w) <= most
      <4> DEFINE most == Biggest({FintUnit(v) : v \in {result, y, z}})
      <4>1. w \in {result, y, z}
        BY <3>1
      <4>2. most \in Nat /\ FintUnit(w) <= most
        BY <3>1, <4>1, BiggestFintUnit
      <4> HIDE DEF S
      <4> QED BY <3>1, <4>2
    <3>3. FintUnit(w) \in Nat /\ Absolute(FintValue(result) - exact) \in Nat
      <4>1. FintUnit(w) \in Nat
        BY <2>4, FintNumber DEF IsFint
      <4> QED BY <2>4, <4>1 DEF Absolute
    <3> QED BY <2>4, <3>2, <3>3
  <2>5. CASE op = "ADDL"
    <3>1. exact = a + b /\ IsInt(a) /\ IsInt(b) /\ IsInt(exact) /\ (exact < 0 => IsInt(2 * exact))
      BY <2>5
    <3>2. result \in FintsFrom(FintSum(destination, source), INT_WIDTH)
      BY <2>1, <2>2, <2>5 DEF FormatResults
    <3>3. exact \in Int
      BY <2>3, <3>1
    <3> HIDE DEF exact
    <3>4. WithinUnit(destination, source, result, exact)
      BY <2>1, <3>1, <3>2, <3>3, FintSums, FintSumNear
    <3>5. S = {result, destination, source}
      BY <2>5
    <3>6. \E w \in S : Absolute(FintValue(result) - exact) < FintUnit(w)
      BY <3>4, <3>5 DEF WithinUnit
    <3> QED BY <2>1, <2>4, <2>5, <3>3, <3>4, <3>5, <3>6 DEF WithinUnit
  <2>6. CASE op = "SUBL"
    <3>1. exact = a - b /\ IsInt(a) /\ IsInt(b) /\ IsInt(exact) /\ (exact < 0 => IsInt(2 * exact))
      BY <2>6
    <3>2. PICK n \in AWord : n = Negated(FI16, source) /\ FintUnit(n) = FintUnit(source) /\ FintValue(n) = -b
      BY <2>1, NegatedFint
    <3>3. result \in FintsFrom(FintSum(destination, n), INT_WIDTH)
      BY <2>1, <2>2, <2>6, <3>2 DEF FormatResults
    <3>4. exact \in Int /\ exact = a + FintValue(n)
      BY <2>3, <3>1, <3>2
    <3>5. IsInt(FintValue(n))
      <4>1. PICK H \in Nat : H = 2 ^ (INT_WIDTH - 1)
        BY Halves DEF Half
      <4> QED BY <2>3, <3>1, <3>2, <4>1 DEF IsInt
    <3> HIDE DEF exact
    <3>6. WithinUnit(destination, n, result, exact)
      BY <2>1, <3>1, <3>2, <3>3, <3>4, <3>5, FintSums, FintSumNear
    <3>7. S = {result, destination, source}
      BY <2>6
    <3>8. \E w \in S : Absolute(FintValue(result) - exact) < FintUnit(w)
      BY <3>2, <3>6, <3>7 DEF WithinUnit
    <3> QED BY <2>1, <2>4, <2>6, <3>4, <3>6, <3>7, <3>8 DEF WithinUnit
  <2>7. CASE op \in {"MULL", "DIVL"}
    <3>1. IsClose(exact, result) /\ exact \in Int
      <4>1. CASE op = "MULL"
        <5>1. exact = a * b /\ Absolute(exact) <= MaxFint /\ a * b \in Int
          BY <2>3, <4>1
        <5>2. CASE destination = 0 \/ source = 0
          <6>1. result = 0
            BY <2>1, <2>2, <4>1, <5>2 DEF FormatResults
          <6>2. a = 0 \/ b = 0
            BY <5>2, ZeroFint
          <6>3. exact = 0
            BY <2>3, <5>1, <6>2
          <6> QED BY <6>1, <6>3, ZeroFint
        <5>3. CASE ~(destination = 0 \/ source = 0)
          <6>1. result \in FintsFrom(FintProduct(destination, source), LONG_WIDTH)
            BY <2>1, <2>2, <4>1, <5>3 DEF FormatResults
          <6> QED BY <2>1, <5>1, <6>1, FintProductNear
        <5> QED BY <5>2, <5>3
      <4>2. CASE op = "DIVL"
        <5>1. /\ exact = Quotient(a, b) /\ IsInt(a) /\ IsInt(b) /\ IsInt(exact)
              /\ exact < 0 => IsInt(2 * exact)
          BY <4>2
        <5>2. result \in FintQuotients(destination, source) /\ b # 0
          BY <2>1, <2>2, <4>2 DEF FormatResults
        <5>3. exact \in Int
          BY <5>1 DEF IsInt
        <5> HIDE DEF exact
        <5> QED BY <2>1, <5>1, <5>2, <5>3, FintQuotientNear
      <4> QED BY <2>7, <4>1, <4>2
    <3> HIDE DEF exact
    <3>2. S = {result}
      BY <2>7
    <3>3. result \in AWord /\ FintValue(result) \in Int /\ Absolute(FintValue(result) - exact) < FintUnit(result)
      BY <3>1 DEF IsClose
    <3>4. Absolute(FintValue(result) - exact) < Biggest({FintUnit(w) : w \in S})
      BY <2>4, <3>1, <3>2, <3>3
    <3>5. exact >= 0 => \A w \in AWord : Absolute(FintValue(result) - exact) <= Absolute(FintValue(w) - exact)
      BY <3>1 DEF IsClose
    <3> QED BY <3>4, <3>5
  <2> QED BY <2>5, <2>6, <2>7
<1> QED BY <1>1, DoneHolds, PTL
=============================================================================
