----------------------------- MODULE AluProofs -----------------------------
(***************************************************************************)
(* The arithmetic gives words: what the other proofs need to know of it.   *)
(***************************************************************************)
EXTENDS Alu, Instructions, TLAPS, WellFoundedInduction

\* Induction over the natural numbers, for a set instead of a predicate.
LEMMA Induction ==
  ASSUME NEW S, 0 \in S, \A n \in Nat : n \in S => n + 1 \in S
  PROVE  Nat \subseteq S
<1> SUFFICES ASSUME Nat \ S # {}
             PROVE  FALSE
  OBVIOUS
<1>1. PICK n \in Nat \ S : \A m \in Nat \ S : ~(<<m, n>> \in OpToRel(<, Nat))
  <2>1. IsWellFoundedOn(OpToRel(<, Nat), Nat)
    BY NatLessThanWellFounded
  <2>2. Nat \ S \subseteq Nat
    OBVIOUS
  <2> HIDE DEF OpToRel
  <2> QED BY <2>1, <2>2, WFMin, Zenon
<1>2. n # 0 /\ n - 1 \in Nat /\ n - 1 < n
  OBVIOUS
<1>3. <<n - 1, n>> \in OpToRel(<, Nat)
  BY <1>2 DEF OpToRel
<1>4. n - 1 \in S
  BY <1>1, <1>2, <1>3
<1> QED BY <1>2, <1>4

LEMMA Powers ==
  \A i \in 0 .. 2 * WIDTH : 2 ^ i \in Nat \ {0}
<1> DEFINE S == {i \in Nat : i <= 2 * WIDTH => 2 ^ i \in Nat \ {0}}
<1>1. 0 \in S
  BY PowerAssumption
<1>2. \A n \in Nat : n \in S => n + 1 \in S
  BY PowerAssumption, WidthAssumption
<1> HIDE DEF S
<1>3. Nat \subseteq S
  BY <1>1, <1>2, Induction
<1> QED BY <1>3, WidthAssumption DEF S

LEMMA PowersAdd ==
  \A i, j \in Nat : i + j <= 2 * WIDTH => 2 ^ (i + j) = 2 ^ i * 2 ^ j
<1> SUFFICES ASSUME NEW i \in Nat
             PROVE  \A j \in Nat : i + j <= 2 * WIDTH => 2 ^ (i + j) = 2 ^ i * 2 ^ j
  OBVIOUS
<1> DEFINE S == {j \in Nat : i + j <= 2 * WIDTH => 2 ^ (i + j) = 2 ^ i * 2 ^ j}
<1>1. 0 \in S
  <2>1. i <= 2 * WIDTH => 2 ^ i \in Nat
    BY Powers, WidthAssumption
  <2> QED BY <2>1, PowerAssumption
<1>2. ASSUME NEW j \in Nat, j \in S
      PROVE  j + 1 \in S
  <2> SUFFICES ASSUME i + (j + 1) <= 2 * WIDTH
               PROVE  2 ^ (i + (j + 1)) = 2 ^ i * 2 ^ (j + 1)
    OBVIOUS
  <2>1. /\ i + j \in 0 .. 2 * WIDTH - 1 /\ j \in 0 .. 2 * WIDTH - 1 /\ i \in 0 .. 2 * WIDTH
        /\ i + (j + 1) = (i + j) + 1
    BY WidthAssumption
  <2>2. 2 ^ (i + (j + 1)) = 2 * 2 ^ (i + j) /\ 2 ^ (j + 1) = 2 * 2 ^ j
    BY <2>1, PowerAssumption
  <2>3. 2 ^ (i + j) = 2 ^ i * 2 ^ j
    <3>1. i + j <= 2 * WIDTH
      BY <2>1, WidthAssumption
    <3> QED BY <1>2, <3>1
  <2>4. 2 ^ i \in Nat /\ 2 ^ j \in Nat
    BY <2>1, Powers, WidthAssumption
  <2>5. \A x, y \in Nat : 2 * (x * y) = x * (2 * y)
    OBVIOUS
  <2> QED BY <2>2, <2>3, <2>4, <2>5
<1> HIDE DEF S
<1>3. Nat \subseteq S
  BY <1>1, <1>2, Induction
<1> QED BY <1>3 DEF S

LEMMA PowersRise ==
  \A i, j \in 0 .. 2 * WIDTH : i <= j => 2 ^ i <= 2 ^ j
<1> SUFFICES ASSUME NEW i \in 0 .. 2 * WIDTH, NEW j \in 0 .. 2 * WIDTH, i <= j
             PROVE  2 ^ i <= 2 ^ j
  OBVIOUS
<1>1. i \in Nat /\ j - i \in Nat /\ i + (j - i) = j /\ j <= 2 * WIDTH
  BY WidthAssumption
<1>2. 2 ^ j = 2 ^ i * 2 ^ (j - i)
  BY <1>1, PowersAdd
<1>3. 2 ^ i \in Nat \ {0} /\ 2 ^ (j - i) \in Nat \ {0}
  <2>1. j - i \in 0 .. 2 * WIDTH
    BY <1>1, WidthAssumption
  <2> QED BY <2>1, Powers
<1>4. \A x, y \in Nat \ {0} : x <= x * y
  OBVIOUS
<1> QED BY <1>2, <1>3, <1>4

LEMMA WordFacts ==
  /\ WORDS \in Nat /\ SIGN \in Nat /\ SIGN > 1 /\ WORDS = 2 * SIGN
  /\ WIDTH \in Nat /\ WIDTH > 1 /\ 2 * WIDTH \in Nat
<1>1. WIDTH - 1 \in 0 .. 2 * WIDTH - 1 /\ WIDTH - 2 \in 0 .. 2 * WIDTH - 1
  BY WidthAssumption
<1>2. 2 ^ (WIDTH - 2) \in Nat \ {0}
  BY <1>1, Powers, WidthAssumption
<1>3. 2 ^ (WIDTH - 1) = 2 * 2 ^ (WIDTH - 2)
  <2>1. 2 ^ ((WIDTH - 2) + 1) = 2 * 2 ^ (WIDTH - 2)
    BY <1>1, PowerAssumption
  <2>2. (WIDTH - 2) + 1 = WIDTH - 1
    BY WidthAssumption
  <2> QED BY <2>1, <2>2
<1>4. 2 ^ WIDTH = 2 * 2 ^ (WIDTH - 1)
  <2>1. 2 ^ ((WIDTH - 1) + 1) = 2 * 2 ^ (WIDTH - 1)
    BY <1>1, PowerAssumption
  <2>2. (WIDTH - 1) + 1 = WIDTH
    BY WidthAssumption
  <2> QED BY <2>1, <2>2
<1> QED BY <1>2, <1>3, <1>4, WidthAssumption DEF WORDS, SIGN

\* Quotient and remainder are determined by what they satisfy.
LEMMA Division ==
  ASSUME NEW a \in Int, NEW p \in Nat \ {0}, NEW q \in Int, NEW r \in 0 .. p - 1,
         a = q * p + r
  PROVE  a \div p = q /\ a % p = r
OBVIOUS

\* Wrapping round once is enough.
LEMMA WrapTwice == \A i, j \in Int : Wrap(Wrap(i) + j) = Wrap(i + j)
<1> SUFFICES ASSUME NEW i \in Int, NEW j \in Int
             PROVE  Wrap(Wrap(i) + j) = Wrap(i + j)
  OBVIOUS
<1>1. PICK n \in Nat \ {0} : n = WORDS
  BY WordFacts
<1>2. PICK q \in Int, r \in 0 .. n - 1 : i = q * n + r
  <2>1. i = (i \div n) * n + (i % n) /\ i \div n \in Int /\ i % n \in 0 .. n - 1
    OBVIOUS
  <2> QED BY <2>1
<1>3. PICK p \in Int, s \in 0 .. n - 1 : r + j = p * n + s
  <2>1. r + j \in Int
    OBVIOUS
  <2>2. r + j = ((r + j) \div n) * n + ((r + j) % n)
        /\ (r + j) \div n \in Int /\ (r + j) % n \in 0 .. n - 1
    BY <2>1
  <2> QED BY <2>2
<1>4. i + j = (q + p) * n + s
  <2>1. (q + p) * n = q * n + p * n
    OBVIOUS
  <2> QED BY <1>2, <1>3, <2>1
<1>5. i % n = r /\ (r + j) % n = s /\ (i + j) % n = s
  <2>1. i % n = r
    BY <1>2, Division
  <2>2. r + j \in Int /\ i + j \in Int /\ q + p \in Int
    OBVIOUS
  <2>3. ASSUME NEW x \in Int, NEW k \in Int, x = k * n + s
        PROVE  x % n = s
    BY <2>3, Division
  <2> QED BY <1>3, <1>4, <2>1, <2>2, <2>3
<1> QED BY <1>1, <1>5 DEF Wrap

\* A word does not wrap round.
LEMMA WrapWord == \A w \in AWord : Wrap(w) = w
<1> SUFFICES ASSUME NEW w \in AWord
             PROVE  Wrap(w) = w
  OBVIOUS
<1>1. WORDS \in Nat \ {0}
  BY WordFacts
<1> QED BY <1>1 DEF Wrap, AWord

\* A digit more at the low end moves every bit up by one.
LEMMA HigherBits ==
  ASSUME NEW w \in Nat, NEW s \in {0, 1}, NEW i \in 0 .. 2 * WIDTH - 1
  PROVE  Bit(2 * w + s, i + 1) = Bit(w, i)
<1>1. 2 ^ i \in Nat \ {0} /\ 2 ^ (i + 1) = 2 * 2 ^ i
  BY Powers, PowerAssumption, WordFacts
<1>2. PICK p \in Nat \ {0} : p = 2 ^ i
  BY <1>1
<1> DEFINE v == 2 * w + s
           q == w \div p
           r == w % p
<1>3. q \in Int /\ r \in 0 .. p - 1 /\ w = q * p + r
  OBVIOUS
<1> HIDE DEF q, r
<1>4. v = q * (2 * p) + (2 * r + s)
  BY <1>3
<1>5. 2 * r + s \in 0 .. 2 * p - 1
  BY <1>3
<1>6. v \in Int /\ 2 * p \in Nat \ {0}
  OBVIOUS
<1> HIDE DEF v
<1>7. v \div (2 * p) = q
  BY <1>3, <1>4, <1>5, <1>6, Division
<1> QED BY <1>1, <1>2, <1>7 DEF Bit, v, q

LEMMA LowestBit ==
  ASSUME NEW w \in Nat, NEW s \in {0, 1}
  PROVE  Bit(2 * w + s, 0) = s
BY PowerAssumption DEF Bit

LEMMA Bits ==
  \A n \in 0 .. 2 * WIDTH : \A S \in SUBSET Nat :
    \E w \in 0 .. 2 ^ n - 1 : \A i \in 0 .. n - 1 : Bit(w, i) = 1 <=> i \in S
<1> DEFINE Has(n, S) == \E w \in 0 .. 2 ^ n - 1 :
                          \A i \in 0 .. n - 1 : Bit(w, i) = 1 <=> i \in S
           N == {n \in Nat : n <= 2 * WIDTH => \A S \in SUBSET Nat : Has(n, S)}
<1>1. 0 \in N
  BY PowerAssumption
<1>2. ASSUME NEW n \in Nat, n \in N
      PROVE  n + 1 \in N
  <2> SUFFICES ASSUME n + 1 <= 2 * WIDTH, NEW S \in SUBSET Nat
               PROVE  Has(n + 1, S)
    OBVIOUS
  <2> DEFINE T == {i \in Nat : i + 1 \in S}
             s == IF 0 \in S THEN 1 ELSE 0
  <2>1. PICK w \in 0 .. 2 ^ n - 1 : \A i \in 0 .. n - 1 : Bit(w, i) = 1 <=> i \in T
    <3>1. T \in SUBSET Nat /\ n <= 2 * WIDTH
      BY WordFacts
    <3> HIDE DEF T
    <3> QED BY <1>2, <3>1
  <2>2. 2 ^ n \in Nat \ {0} /\ 2 ^ (n + 1) = 2 * 2 ^ n
    BY Powers, PowerAssumption, WordFacts
  <2> DEFINE v == 2 * w + s
  <2>3. v \in 0 .. 2 ^ (n + 1) - 1
    BY <2>2
  <2>4. Bit(v, 0) = s
    BY PowerAssumption DEF Bit
  <2>5. \A i \in 0 .. n - 1 : Bit(v, i + 1) = Bit(w, i)
    <3> SUFFICES ASSUME NEW i \in 0 .. n - 1
                 PROVE  Bit(v, i + 1) = Bit(w, i)
      OBVIOUS
    <3>1. i \in 0 .. 2 * WIDTH - 1 /\ w \in Nat /\ s \in {0, 1}
      BY <2>2, WordFacts
    <3> QED BY <3>1, HigherBits
  <2>6. ASSUME NEW i \in 0 .. (n + 1) - 1
        PROVE  Bit(v, i) = 1 <=> i \in S
    <3>1. CASE i = 0
      BY <3>1, <2>4
    <3>2. CASE i # 0
      <4>1. i - 1 \in 0 .. n - 1 /\ (i - 1) + 1 = i
        BY <3>2
      <4>2. Bit(v, i) = Bit(w, i - 1)
        BY <4>1, <2>5
      <4> QED BY <4>1, <4>2, <2>1
    <3> QED BY <3>1, <3>2
  <2> QED BY <2>3, <2>6
<1> HIDE DEF N
<1>3. Nat \subseteq N
  BY <1>1, <1>2, Induction
<1> QED BY <1>3, WordFacts DEF N

\* The bits determine the word.
LEMMA BitsDecide ==
  \A n \in 0 .. 2 * WIDTH : \A v, w \in 0 .. 2 ^ n - 1 :
    (\A i \in 0 .. n - 1 : Bit(v, i) = Bit(w, i)) => v = w
<1> DEFINE Same(n, v, w) == \A i \in 0 .. n - 1 : Bit(v, i) = Bit(w, i)
           N == {n \in Nat : n <= 2 * WIDTH =>
                   \A v, w \in 0 .. 2 ^ n - 1 : Same(n, v, w) => v = w}
<1>1. 0 \in N
  BY PowerAssumption
<1>2. ASSUME NEW n \in Nat, n \in N
      PROVE  n + 1 \in N
  <2> SUFFICES ASSUME n + 1 <= 2 * WIDTH, NEW v \in 0 .. 2 ^ (n + 1) - 1,
                      NEW w \in 0 .. 2 ^ (n + 1) - 1, Same(n + 1, v, w)
               PROVE  v = w
    OBVIOUS
  <2>1. 2 ^ n \in Nat \ {0} /\ 2 ^ (n + 1) = 2 * 2 ^ n
    BY Powers, PowerAssumption, WordFacts
  <2>2. v \in Nat /\ w \in Nat
    BY <2>1
  <2>3. PICK x \in Nat, s \in {0, 1} : v = 2 * x + s
    <3>1. v \div 2 \in Nat /\ v % 2 \in {0, 1} /\ v = 2 * (v \div 2) + (v % 2)
      BY <2>2
    <3> QED BY <3>1
  <2>4. PICK y \in Nat, t \in {0, 1} : w = 2 * y + t
    <3>1. w \div 2 \in Nat /\ w % 2 \in {0, 1} /\ w = 2 * (w \div 2) + (w % 2)
      BY <2>2
    <3> QED BY <3>1
  <2>5. s = t
    <3>1. Bit(v, 0) = Bit(w, 0)
      OBVIOUS
    <3> QED BY <3>1, <2>3, <2>4, LowestBit
  <2>6. Same(n, x, y)
    <3> SUFFICES ASSUME NEW i \in 0 .. n - 1
                 PROVE  Bit(x, i) = Bit(y, i)
      OBVIOUS
    <3>1. i \in 0 .. 2 * WIDTH - 1 /\ i + 1 \in 0 .. (n + 1) - 1
      BY WordFacts
    <3>2. Bit(v, i + 1) = Bit(w, i + 1)
      BY <3>1
    <3>3. Bit(v, i + 1) = Bit(x, i) /\ Bit(w, i + 1) = Bit(y, i)
      BY <3>1, <2>3, <2>4, HigherBits
    <3> QED BY <3>2, <3>3
  <2>7. x \in 0 .. 2 ^ n - 1 /\ y \in 0 .. 2 ^ n - 1
    BY <2>1, <2>3, <2>4
  <2>8. x = y
    <3>1. n <= 2 * WIDTH
      BY WordFacts
    <3> HIDE DEF Same
    <3>2. \A k, l \in 0 .. 2 ^ n - 1 : Same(n, k, l) => k = l
      BY <1>2, <3>1
    <3> QED BY <2>6, <2>7, <3>2
  <2> QED BY <2>3, <2>4, <2>5, <2>8
<1> HIDE DEF N
<1>3. Nat \subseteq N
  BY <1>1, <1>2, Induction
<1> QED BY <1>3, WordFacts DEF N

\* A number of k bits below ones: the bits of the number, and ones above it.
LEMMA BelowOnes ==
  \A n \in 0 .. 2 * WIDTH : \A k \in 0 .. n : \A w \in 0 .. 2 ^ k - 1 :
    \A i \in 0 .. n - 1 :
      Bit(w + 2 ^ n - 2 ^ k, i) = IF i < k THEN Bit(w, i) ELSE 1
<1> DEFINE Filled(n, k, w) ==
             \A i \in 0 .. n - 1 : Bit(w + 2 ^ n - 2 ^ k, i) = IF i < k THEN Bit(w, i) ELSE 1
           N == {n \in Nat : n <= 2 * WIDTH =>
                   \A k \in 0 .. n : \A w \in 0 .. 2 ^ k - 1 : Filled(n, k, w)}
<1>1. 0 \in N
  OBVIOUS
<1>2. ASSUME NEW n \in Nat, n \in N
      PROVE  n + 1 \in N
  <2> SUFFICES ASSUME n + 1 <= 2 * WIDTH, NEW k \in 0 .. n + 1, NEW w \in 0 .. 2 ^ k - 1
               PROVE  Filled(n + 1, k, w)
    OBVIOUS
  <2>1. n <= 2 * WIDTH
    BY WordFacts
  <2> HIDE DEF Filled
  <2>2. \A l \in 0 .. n : \A x \in 0 .. 2 ^ l - 1 : Filled(n, l, x)
    BY <1>2, <2>1
  <2> HIDE DEF N
  <2>3. 2 ^ n \in Nat \ {0} /\ 2 ^ (n + 1) = 2 * 2 ^ n
    BY Powers, PowerAssumption, WordFacts
  <2>4. \E l \in 0 .. n : \E x \in 0 .. 2 ^ l - 1 : \E s \in {0, 1} :
          /\ w + 2 ^ (n + 1) - 2 ^ k = 2 * (x + 2 ^ n - 2 ^ l) + s
          /\ x + 2 ^ n - 2 ^ l \in Nat
          /\ k = 0 => l = 0 /\ s = 1
          /\ k # 0 => l = k - 1 /\ w = 2 * x + s
    <3>1. CASE k = 0
      <4>1. w = 0 /\ 2 ^ k = 1 /\ 0 \in 0 .. 2 ^ 0 - 1 /\ 0 \in 0 .. n /\ 2 ^ 0 = 1
        BY <3>1, PowerAssumption
      <4>2. /\ w + 2 ^ (n + 1) - 2 ^ k = 2 * (0 + 2 ^ n - 2 ^ 0) + 1
            /\ 0 + 2 ^ n - 2 ^ 0 \in Nat
        BY <4>1, <2>3
      <4> QED BY <3>1, <4>1, <4>2
    <3>2. CASE k # 0
      <4>1. k - 1 \in 0 .. n /\ k - 1 \in 0 .. 2 * WIDTH - 1 /\ (k - 1) + 1 = k
        BY <3>2, WordFacts
      <4>2. 2 ^ (k - 1) \in Nat \ {0} /\ 2 ^ k = 2 * 2 ^ (k - 1)
        BY <4>1, Powers, PowerAssumption, WordFacts
      <4>3. PICK x \in Nat, s \in {0, 1} : w = 2 * x + s
        <5>1. w \in Nat
          BY <4>2
        <5>2. w \div 2 \in Nat /\ w % 2 \in {0, 1} /\ w = 2 * (w \div 2) + (w % 2)
          BY <5>1
        <5> QED BY <5>2
      <4>4. x \in 0 .. 2 ^ (k - 1) - 1
        BY <4>2, <4>3
      <4>5. 2 ^ (k - 1) <= 2 ^ n
        <5>1. k - 1 \in 0 .. 2 * WIDTH /\ n \in 0 .. 2 * WIDTH /\ k - 1 <= n
          BY <4>1, <2>1, WordFacts
        <5> QED BY <5>1, PowersRise
      <4>6. /\ w + 2 ^ (n + 1) - 2 ^ k = 2 * (x + 2 ^ n - 2 ^ (k - 1)) + s
            /\ x + 2 ^ n - 2 ^ (k - 1) \in Nat
        BY <2>3, <4>2, <4>3, <4>5
      <4> QED BY <3>2, <4>1, <4>3, <4>4, <4>6
    <3> QED BY <3>1, <3>2
  <2> DEFINE Split(l, x, s) ==
               /\ w + 2 ^ (n + 1) - 2 ^ k = 2 * (x + 2 ^ n - 2 ^ l) + s
               /\ x + 2 ^ n - 2 ^ l \in Nat
               /\ k = 0 => l = 0 /\ s = 1
               /\ k # 0 => l = k - 1 /\ w = 2 * x + s
  <2>9. PICK l \in 0 .. n : \E x \in 0 .. 2 ^ l - 1 : \E s \in {0, 1} : Split(l, x, s)
    BY <2>4
  <2>5. PICK x \in 0 .. 2 ^ l - 1, s \in {0, 1} :
          /\ w + 2 ^ (n + 1) - 2 ^ k = 2 * (x + 2 ^ n - 2 ^ l) + s
          /\ x + 2 ^ n - 2 ^ l \in Nat
          /\ k = 0 => l = 0 /\ s = 1
          /\ k # 0 => l = k - 1 /\ w = 2 * x + s
    BY <2>9
  <2> DEFINE v == x + 2 ^ n - 2 ^ l
  <2>6. Filled(n, l, x)
    BY <2>2
  <2>7. ASSUME NEW i \in 0 .. (n + 1) - 1
        PROVE  Bit(w + 2 ^ (n + 1) - 2 ^ k, i) = IF i < k THEN Bit(w, i) ELSE 1
    <3>1. w + 2 ^ (n + 1) - 2 ^ k = 2 * v + s /\ v \in Nat
      BY <2>5
    <3>2. x \in Nat
      <4>1. 2 ^ l \in Nat
        BY <2>1, Powers, WordFacts
      <4> QED BY <4>1
    <3> HIDE DEF v
    <3>3. CASE i = 0
      <4>1. Bit(2 * v + s, i) = s
        BY <3>1, <3>3, LowestBit
      <4>2. k # 0 => Bit(w, i) = s
        BY <2>5, <3>2, <3>3, LowestBit
      <4> QED BY <2>5, <3>1, <3>3, <4>1, <4>2
    <3>4. CASE i # 0
      <4>1. i - 1 \in 0 .. n - 1 /\ i - 1 \in 0 .. 2 * WIDTH - 1 /\ (i - 1) + 1 = i
        BY <3>4, WordFacts
      <4>2. Bit(2 * v + s, i) = Bit(v, i - 1)
        BY <3>1, <4>1, HigherBits
      <4>3. Bit(v, i - 1) = IF i - 1 < l THEN Bit(x, i - 1) ELSE 1
        BY <2>6, <4>1 DEF Filled, v
      <4>4. k # 0 => Bit(w, i) = Bit(x, i - 1)
        BY <2>5, <3>2, <4>1, HigherBits
      <4>5. i < k <=> k # 0 /\ i - 1 < l
        BY <2>5, <3>4
      <4>6. Bit(w + 2 ^ (n + 1) - 2 ^ k, i) = IF i - 1 < l THEN Bit(x, i - 1) ELSE 1
        BY <3>1, <4>2, <4>3
      <4>7. CASE i < k
        <5>1. k # 0 /\ i - 1 < l
          BY <4>5, <4>7
        <5> QED BY <4>4, <4>6, <4>7, <5>1
      <4>8. CASE ~(i < k)
        <5>1. ~(i - 1 < l)
          BY <2>5, <3>4, <4>8
        <5> QED BY <4>6, <4>8, <5>1
      <4> QED BY <4>7, <4>8
    <3> QED BY <3>3, <3>4
  <2> QED BY <2>7 DEF Filled
<1> HIDE DEF N
<1>3. Nat \subseteq N
  BY <1>1, <1>2, Induction
<1> SUFFICES ASSUME NEW n \in 0 .. 2 * WIDTH, NEW k \in 0 .. n, NEW w \in 0 .. 2 ^ k - 1
             PROVE  Filled(n, k, w)
  OBVIOUS
<1>4. n \in Nat /\ n <= 2 * WIDTH /\ n \in N
  BY <1>3, WordFacts
<1> HIDE DEF Filled
<1> QED BY <1>4 DEF N

LEMMA BitIsBit ==
  ASSUME NEW a \in Int, NEW i \in 0 .. WIDTH - 1
  PROVE  Bit(a, i) \in {0, 1}
<1>1. 2 ^ i \in Nat \ {0}
  BY Powers, WordFacts
<1>2. a \div 2 ^ i \in Int
  BY <1>1
<1> QED BY <1>2 DEF Bit

\* Every choice of bits is that of a word.
LEMMA SomeWord ==
  ASSUME NEW S \in SUBSET Nat
  PROVE  \E w \in AWord : \A i \in 0 .. WIDTH - 1 : Bit(w, i) = 1 <=> i \in S
<1>1. WIDTH \in 0 .. 2 * WIDTH
  BY WordFacts
<1> QED BY <1>1, Bits DEF AWord, WORDS

\* Bit by bit, two words make a word.
LEMMA Combining ==
  ASSUME NEW a \in Int, NEW b \in Int
  PROVE  /\ Combine(And, a, b) \in AWord
         /\ Combine(Or, a, b) \in AWord
         /\ Combine(Xor, a, b) \in AWord
<1> DEFINE Places == 0 .. WIDTH - 1
<1>1. \A x, y \in {0, 1} : And(x, y) \in {0, 1} /\ Or(x, y) \in {0, 1} /\ Xor(x, y) \in {0, 1}
  BY DEF And, Or, Xor
<1>2. \A i \in Places : Bit(a, i) \in {0, 1} /\ Bit(b, i) \in {0, 1}
  BY BitIsBit
<1>3. \A w \in AWord : \A i \in Places : Bit(w, i) \in {0, 1}
  BY BitIsBit DEF AWord
<1>4. ASSUME NEW g, \A i \in Places : g[i] \in {0, 1}
      PROVE  \E w \in AWord : \A i \in Places : Bit(w, i) = g[i]
  <2>1. {i \in Places : g[i] = 1} \in SUBSET Nat
    BY WordFacts
  <2>2. PICK w \in AWord : \A i \in Places : Bit(w, i) = 1 <=> i \in {j \in Places : g[j] = 1}
    BY <2>1, SomeWord
  <2> QED BY <2>2, <1>3, <1>4
<1>5. \E w \in AWord : \A i \in Places : Bit(w, i) = And(Bit(a, i), Bit(b, i))
  <2> DEFINE g == [i \in Places |-> And(Bit(a, i), Bit(b, i))]
  <2>1. \A i \in Places : g[i] \in {0, 1}
    BY <1>1, <1>2
  <2> QED BY <2>1, <1>4
<1>6. \E w \in AWord : \A i \in Places : Bit(w, i) = Or(Bit(a, i), Bit(b, i))
  <2> DEFINE g == [i \in Places |-> Or(Bit(a, i), Bit(b, i))]
  <2>1. \A i \in Places : g[i] \in {0, 1}
    BY <1>1, <1>2
  <2> QED BY <2>1, <1>4
<1>7. \E w \in AWord : \A i \in Places : Bit(w, i) = Xor(Bit(a, i), Bit(b, i))
  <2> DEFINE g == [i \in Places |-> Xor(Bit(a, i), Bit(b, i))]
  <2>1. \A i \in Places : g[i] \in {0, 1}
    BY <1>1, <1>2
  <2> QED BY <2>1, <1>4
<1> QED BY <1>5, <1>6, <1>7, Zenon DEF Combine

\* Filling up with ones is adding them.
LEMMA Filling ==
  ASSUME NEW k \in 0 .. WIDTH, NEW w \in 0 .. 2 ^ k - 1
  PROVE  /\ Combine(Or, w, WORDS - 2 ^ k) = w + WORDS - 2 ^ k
         /\ w + WORDS - 2 ^ k \in AWord
<1> DEFINE Places == 0 .. WIDTH - 1
           v == w + WORDS - 2 ^ k
           ones == WORDS - 2 ^ k
           Fits(x) == \A i \in Places : Bit(x, i) = Or(Bit(w, i), Bit(ones, i))
<1>1. k \in 0 .. 2 * WIDTH /\ WIDTH \in 0 .. 2 * WIDTH /\ 0 \in 0 .. 2 ^ k - 1
  <2>1. k \in 0 .. 2 * WIDTH /\ WIDTH \in 0 .. 2 * WIDTH
    BY WordFacts
  <2> QED BY <2>1, Powers
<1>2. 2 ^ k \in Nat \ {0} /\ 2 ^ k <= WORDS
  BY <1>1, Powers, PowersRise, WordFacts DEF WORDS
<1>3. v \in AWord
  BY <1>2, WordFacts DEF AWord
<1>4. \A i \in Places : Bit(v, i) = IF i < k THEN Bit(w, i) ELSE 1
  BY <1>1, BelowOnes DEF WORDS
<1>5. \A i \in Places : Bit(ones, i) = IF i < k THEN 0 ELSE 1
  <2> SUFFICES ASSUME NEW i \in Places
               PROVE  Bit(ones, i) = IF i < k THEN 0 ELSE 1
    OBVIOUS
  <2>1. Bit(0 + 2 ^ WIDTH - 2 ^ k, i) = IF i < k THEN Bit(0, i) ELSE 1
    BY <1>1, BelowOnes
  <2>2. 0 + 2 ^ WIDTH - 2 ^ k = ones
    BY <1>2, WordFacts DEF WORDS
  <2>3. Bit(0, i) = 0
    <3>1. 2 ^ i \in Nat \ {0}
      BY Powers, WordFacts
    <3> QED BY <3>1 DEF Bit
  <2> QED BY <2>1, <2>2, <2>3
<1>6. \A i \in Places : i >= k => Bit(w, i) = 0
  <2> SUFFICES ASSUME NEW i \in Places, i >= k
               PROVE  Bit(w, i) = 0
    OBVIOUS
  <2>1. i \in 0 .. 2 * WIDTH /\ k <= i
    BY WordFacts
  <2>2. PICK p \in Nat \ {0} : p = 2 ^ i
    BY <2>1, Powers
  <2>3. w \in Nat /\ w < p
    BY <1>1, <1>2, <2>1, <2>2, PowersRise
  <2>4. w = 0 * p + w /\ w \in 0 .. p - 1
    BY <2>3
  <2>5. w \div p = 0
    BY <2>3, <2>4, Division
  <2> QED BY <2>2, <2>5 DEF Bit
<1>7. \A i \in Places : Bit(w, i) \in {0, 1}
  BY <1>2, BitIsBit
<1> HIDE DEF v, ones
<1>8. Fits(v)
  <2> SUFFICES ASSUME NEW i \in Places
               PROVE  Bit(v, i) = Or(Bit(w, i), Bit(ones, i))
    OBVIOUS
  <2>1. i \in Int /\ k \in Int
    OBVIOUS
  <2>2. CASE i < k
    BY <2>2, <1>4, <1>5, <1>7 DEF Or
  <2>3. CASE ~(i < k)
    BY <2>1, <2>3, <1>4, <1>5, <1>6 DEF Or
  <2> QED BY <2>2, <2>3
<1>9. \A x \in AWord : Fits(x) => x = v
  <2> SUFFICES ASSUME NEW x \in AWord, Fits(x)
               PROVE  x = v
    OBVIOUS
  <2>1. \A i \in Places : Bit(x, i) = Bit(v, i)
    BY <1>8
  <2> QED BY <1>1, <1>3, <2>1, BitsDecide DEF AWord, WORDS
<1>10. Combine(Or, w, ones) = CHOOSE x \in AWord : Fits(x)
  BY DEF Combine
<1> HIDE DEF Fits
<1>11. (CHOOSE x \in AWord : Fits(x)) = v
  BY <1>3, <1>8, <1>9
<1> QED BY <1>3, <1>10, <1>11 DEF v, ones

LEMMA Wrapping == \A i \in Int : Wrap(i) \in AWord
BY WordFacts DEF Wrap, AWord

LEMMA SignedWords ==
  \A a \in AWord : Signed(a) \in -SIGN .. SIGN - 1
BY WordFacts DEF Signed, AWord

LEMMA Clamping ==
  \A i \in Int : /\ Clamp(i, 0, WORDS - 1) \in AWord
                 /\ SignedClamp(i) \in AWord
BY WordFacts, Wrapping DEF Clamp, SignedClamp, AWord

LEMMA Quotients ==
  \A a, b \in Int : b # 0 => Quotient(a, b) \in Int
BY DEF Quotient, Absolute

LEMMA Shifts ==
  ASSUME NEW a \in AWord, NEW n \in Int
  PROVE  /\ n > 0 => Right(a, n) \subseteq AWord
         /\ n >= 0 => Left(a, n) \subseteq AWord
<1> DEFINE M == 2 * WIDTH
<1>1. \A k \in 0 .. M - 1 : a \div 2 ^ k \in AWord /\ Wrap(a * 2 ^ k) \in AWord
  <2> SUFFICES ASSUME NEW k \in 0 .. M - 1
               PROVE  a \div 2 ^ k \in AWord /\ Wrap(a * 2 ^ k) \in AWord
    OBVIOUS
  <2>1. PICK p \in Nat \ {0} : p = 2 ^ k
    BY Powers, WordFacts
  <2>2. a \div p \in AWord
    BY WordFacts DEF AWord
  <2>3. a * p \in Int
    BY DEF AWord
  <2> QED BY <2>1, <2>2, <2>3, Wrapping
<1>2. n % M \in 0 .. M - 1
  BY WordFacts
<1>3. 0 \in AWord
  BY WordFacts DEF AWord
<1>4. n > 0 => Right(a, n) \subseteq AWord
  BY <1>1, <1>2, <1>3, WordFacts DEF Right
<1>5. n >= 0 => Left(a, n) \subseteq AWord
  BY <1>1, <1>2, <1>3, WordFacts DEF Left
<1> QED BY <1>4, <1>5

\* intermediate.result is a word, whatever the operands are, when those of the
\* number formats are.
LEMMA AluWords ==
  ASSUME NEW m, NEW a \in AWord, NEW b \in AWord, NEW ao \in BOOLEAN,
         m \in INTEGER_OPS \cup UNARY_OPS \/ FloatResult(m, a, b) \in AWord
  PROVE  AluResults(m, a, b, ao) \subseteq AWord
<1>1. a \in Int /\ b \in Int /\ Signed(a) \in Int /\ Signed(b) \in Int /\ carry(ao) \in Int
  BY SignedWords, WordFacts DEF carry, AWord
<1>2. CASE m = "UBS"
  BY <1>1, <1>2, Shifts DEF AluResults, UbsResults
<1>3. CASE m = "SBS"
  <2>1. CASE Signed(b) > 0
    <3> DEFINE k == Clamp(WIDTH - Signed(b), 0, WIDTH)
    <3>1. k \in 0 .. 2 * WIDTH
      BY <1>1, WordFacts DEF Clamp
    <3> HIDE DEF k
    <3>2. WORDS - 2 ^ k \in Int
      BY <3>1, Powers, WordFacts
    <3>3. \A w \in Right(a, Signed(b)) : w \in Int
      BY <1>1, <2>1, Shifts DEF AWord
    <3>4. \A w \in Right(a, Signed(b)) : Combine(Or, w, WORDS - 2 ^ k) \in AWord
      BY <3>2, <3>3, Combining
    <3> QED BY <1>3, <2>1, <3>4 DEF AluResults, SbsResults, k
  <2>2. CASE ~(Signed(b) > 0)
    BY <1>1, <1>3, <2>2, Shifts DEF AluResults, SbsResults
  <2> QED BY <2>1, <2>2
<1>4. CASE m = "USM"
  <2>1. a * b \in Int /\ 0 \in AWord
    BY <1>1, WordFacts DEF AWord
  <2> QED BY <1>4, <2>1, Wrapping, Clamping DEF AluResults, UsmResults
<1>5. CASE m \notin {"UBS", "SBS", "USM"}
  <2> SUFFICES AluResult(m, a, b, ao) \in AWord
    BY <1>5 DEF AluResults
  <2>1. CASE m \in {"ADD", "ADC", "SUB", "SBC", "NEG", "ABS", "INC", "DEC"}
    BY <1>1, <2>1, Wrapping DEF AluResult
  <2>2. CASE m = "MUL"
    <3>1. Signed(a) * Signed(b) \in Int
      BY <1>1
    <3> QED BY <2>2, <3>1, Wrapping DEF AluResult
  <2>3. CASE m = "DIV"
    <3>1. CASE b = 0
      BY <2>3, <3>1, WordFacts DEF AluResult, AWord
    <3>2. CASE b # 0
      <4>1. Signed(b) # 0
        BY <3>2, WordFacts DEF Signed, AWord
      <4> QED BY <1>1, <2>3, <3>2, <4>1, Quotients, Wrapping DEF AluResult
    <3> QED BY <3>1, <3>2
  <2>4. CASE m \in {"SSA", "SSS", "SSM", "USA", "USS"}
    <3>1. /\ SignedClamp(Signed(a) + Signed(b)) \in AWord
          /\ SignedClamp(Signed(a) - Signed(b)) \in AWord
          /\ Clamp(a + b, 0, WORDS - 1) \in AWord
          /\ Clamp(a - b, 0, WORDS - 1) \in AWord
      BY <1>1, Clamping
    <3>2. SignedClamp(Signed(a) * Signed(b)) \in AWord
      <4>1. Signed(a) * Signed(b) \in Int
        BY <1>1
      <4> QED BY <4>1, Clamping
    <3> QED BY <2>4, <3>1, <3>2 DEF AluResult
  <2>5. CASE m \in {"AND", "OR", "XOR"}
    <3>1. /\ Combine(And, a, b) \in AWord /\ Combine(Or, a, b) \in AWord
          /\ Combine(Xor, a, b) \in AWord
      BY <1>1, Combining
    <3>2. CASE m = "AND"
      BY <3>1, <3>2 DEF AluResult
    <3>3. CASE m = "OR"
      BY <3>1, <3>3 DEF AluResult
    <3>4. CASE m = "XOR"
      BY <3>1, <3>4 DEF AluResult
    <3> QED BY <2>5, <3>2, <3>3, <3>4
  <2>6. CASE m = "NOT"
    <3>1. WORDS - 1 - a \in AWord
      BY WordFacts DEF AWord
    <3> QED BY <2>6, <3>1 DEF AluResult
  <2>7. CASE m = "CBI"
    <3>1. WIDTH \div 2 \in 0 .. 2 * WIDTH
      BY WordFacts
    <3>2. PICK h \in Nat \ {0} : h = 2 ^ (WIDTH \div 2)
      BY <3>1, Powers
    <3>3. a % h \in AWord /\ (a % h) - h \in Int
      BY <1>1, WordFacts DEF AWord
    <3>4. Wrap((a % h) - h) \in AWord
      BY <3>3, Wrapping
    <3>5. CbiResult(a) \in AWord
      BY <3>2, <3>3, <3>4 DEF CbiResult
    <3> QED BY <2>7, <3>5 DEF AluResult
  <2>8. CASE m \notin {"ADD", "ADC", "SUB", "SBC", "NEG", "ABS", "INC", "DEC", "MUL", "DIV",
                       "SSA", "SSS", "SSM", "USA", "USS", "AND", "OR", "XOR", "NOT", "CBI"}
    BY <1>5, <2>8 DEF AluResult, INTEGER_OPS, UNARY_OPS
  <2> QED BY <2>1, <2>2, <2>3, <2>4, <2>5, <2>6, <2>7, <2>8
<1> QED BY <1>2, <1>3, <1>4, <1>5

LEMMA AluAo ==
  ASSUME NEW m, NEW a, NEW b, NEW ao \in BOOLEAN
  PROVE  AluOverflow(m, a, b, ao) \in BOOLEAN
<1>1. CASE m \in {"ADD", "ADC"}
  <2>1. a + b > WORDS - 1 => AluOverflow(m, a, b, ao) = TRUE
    BY <1>1 DEF AluOverflow
  <2>2. ~(a + b > WORDS - 1) => AluOverflow(m, a, b, ao) = FALSE
    BY <1>1 DEF AluOverflow
  <2> QED BY <2>1, <2>2, Zenon
<1>2. CASE m \in {"SUB", "SBC"}
  <2>1. a - b < 0 => AluOverflow(m, a, b, ao) = TRUE
    BY <1>2 DEF AluOverflow
  <2>2. ~(a - b < 0) => AluOverflow(m, a, b, ao) = FALSE
    BY <1>2 DEF AluOverflow
  <2> QED BY <2>1, <2>2, Zenon
<1>3. CASE m = "INC"
  <2>1. AluOverflow(m, a, b, ao) = (a = WORDS - 1)
    BY <1>3 DEF AluOverflow
  <2> QED BY <2>1, Zenon
<1>4. CASE m = "DEC"
  <2>1. AluOverflow(m, a, b, ao) = (a = 0)
    BY <1>4 DEF AluOverflow
  <2> QED BY <2>1, Zenon
<1>5. CASE m = "MUL"
  <2>1. a * b > WORDS - 1 => AluOverflow(m, a, b, ao) = TRUE
    BY <1>5 DEF AluOverflow
  <2>2. ~(a * b > WORDS - 1) => AluOverflow(m, a, b, ao) = FALSE
    BY <1>5 DEF AluOverflow
  <2> QED BY <2>1, <2>2, Zenon
<1>6. CASE m = "DIV"
  <2>1. AluOverflow(m, a, b, ao) = (ao \/ b = 0)
    BY <1>6 DEF AluOverflow
  <2> QED BY <2>1, Zenon
<1>7. CASE m \in {"SSA", "SSS", "SSM", "USA", "USS", "USM"}
  <2>1. AluOverflow(m, a, b, ao) = FALSE
    BY <1>7 DEF AluOverflow
  <2> QED BY <2>1, Zenon
<1>8. CASE m \notin {"ADD", "ADC", "SUB", "SBC", "INC", "DEC", "MUL", "DIV",
                    "SSA", "SSS", "SSM", "USA", "USS", "USM"}
  <2>1. AluOverflow(m, a, b, ao) = ao
    BY <1>8 DEF AluOverflow
  <2> QED BY <2>1, Zenon
<1> QED BY <1>1, <1>2, <1>3, <1>4, <1>5, <1>6, <1>7, <1>8, Zenon
=============================================================================
