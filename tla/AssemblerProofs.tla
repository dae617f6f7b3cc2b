--------------------------- MODULE AssemblerProofs --------------------------
(***************************************************************************)
(* What the assembler writes. Every byte of the image is one that an entry *)
(* put there, the options decide which when two entries claim it, and the  *)
(* bytes of an instruction that nothing has overwritten are those that the *)
(* processor decodes as that instruction; all of it for every program,     *)
(* table of opcodes and set of options.                                    *)
(*                                                                         *)
(* The invariant says of every address of the image which entry wrote      *)
(* which of its bytes there, and of every entry before this one that what  *)
(* it claims is there.  It does not speak of the first pass.  Two others   *)
(* do, for labels: what byte_index was before every entry and from which   *)
(* of them a label was counted, and where the last pass went from every    *)
(* entry.  Where both count the same bytes, a label is its place.          *)
(*                                                                         *)
(* At the end, the optimizer: whatever it removes and inserts, no jump and *)
(* no label is lost or passed.                                             *)
(***************************************************************************)
EXTENDS Assembler, Optimizer, AluProofs, SequenceTheorems, FiniteSetTheorems

Padding == "PAD_SEGMENT_BREACH_WITH_ZERO" \in options
Refusing == "ERROR_ON_OVERLAP" \in options
Replacing == "OVERWRITE_ON_OVERLAP" \in options

ImageType(i) == DOMAIN i \subseteq Address /\ i = [a \in DOMAIN i |-> i[a]]

\* Addresses are words.
LEMMA Places ==
  /\ Address = AWord /\ WORDS \in Nat \ {0} /\ ADDRESS_SPACE = WORDS
  /\ SEGMENT_CODE_END \in Nat /\ 0 \in Address
  /\ \A i \in Int : Wrap(i) \in Address
  /\ \A a \in Address : a \in Int /\ Wrap(a) = a
<1>1. Address = AWord /\ WORDS \in Nat \ {0} /\ ADDRESS_SPACE = WORDS
  BY WordFacts, EncodingAssumption DEF Address, AWord
<1>2. \A i \in Int : Wrap(i) \in AWord
  BY <1>1 DEF Wrap, AWord
<1> QED BY <1>1, <1>2, WrapWord, SegmentAssumption DEF AWord

\* Different addresses within one round.
LEMMA FarApart ==
  \A i \in Int : \A k, l \in 0 .. WORDS - 1 : Wrap(i + k) = Wrap(i + l) => k = l
<1> SUFFICES ASSUME NEW i \in Int, NEW k \in 0 .. WORDS - 1, NEW l \in 0 .. WORDS - 1,
                    Wrap(i + k) = Wrap(i + l), k <= l
             PROVE  k = l
  BY Places
<1>1. PICK n \in Nat \ {0} : n = WORDS
  BY Places
<1>2. PICK p \in Int, q \in Int : i + k = p * n + Wrap(i + k) /\ i + l = q * n + Wrap(i + l)
  <2>1. i + k = ((i + k) \div n) * n + ((i + k) % n) /\ i + l = ((i + l) \div n) * n + ((i + l) % n)
        /\ (i + k) \div n \in Int /\ (i + l) \div n \in Int
    BY <1>1
  <2> QED BY <1>1, <2>1 DEF Wrap
<1>3. l - k = (q - p) * n
  <2>1. (q - p) * n = q * n - p * n
    OBVIOUS
  <2>2. Wrap(i + k) \in Int
    BY Places
  <2> QED BY <1>1, <1>2, <2>1, <2>2
<1>4. l - k \in 0 .. n - 1
  BY <1>1
<1>5. (l - k) % n = l - k
  BY <1>4
<1>6. ((q - p) * n + 0) % n = 0
  <2> DEFINE a == (q - p) * n + 0
  <2>1. a \in Int /\ q - p \in Int /\ 0 \in 0 .. n - 1 /\ a = (q - p) * n + 0
    OBVIOUS
  <2> HIDE DEF a
  <2>2. a % n = 0
    BY <2>1, Division
  <2> QED BY <2>2 DEF a
<1> QED BY <1>3, <1>4, <1>5, <1>6

Cursor(i, m, e) == [index |-> i, image |-> m, error |-> e]

\* One byte.
LEMMA OneWrite ==
  ASSUME NEW i, NEW m, NEW e, NEW b
  PROVE  SafeWrite(Cursor(i, m, e), b) =
           IF i \in DOMAIN m
           THEN IF Refusing THEN Cursor(Wrap(i + 1), m, 1)
                ELSE IF Replacing THEN Cursor(Wrap(i + 1), Put(m, i, [byte |-> b, from |-> item]), e)
                ELSE Cursor(Wrap(i + 1), m, e)
           ELSE IF Padding /\ i > SEGMENT_CODE_END THEN Cursor(Wrap(i + 1), m, 1)
           ELSE Cursor(Wrap(i + 1), Put(m, i, [byte |-> b, from |-> item]), e)
<1> DEFINE w == Cursor(i, m, e)
           next == [w EXCEPT !.index = Wrap(@ + 1)]
           written == [next EXCEPT !.image = Put(@, w.index, [byte |-> b, from |-> item])]
           failed == [next EXCEPT !.error = 1]
<1>1. next = Cursor(Wrap(i + 1), m, e) /\ w.index = i /\ w.image = m
  BY DEF Cursor
<1>4. SafeWrite(w, b) = IF w.index \in DOMAIN w.image
          THEN IF Refusing THEN failed ELSE IF Replacing THEN written ELSE next
          ELSE IF Padding /\ w.index > SEGMENT_CODE_END THEN failed ELSE written
  BY DEF SafeWrite, Padding, Refusing, Replacing
<1> HIDE DEF w
<1>2. written = Cursor(Wrap(i + 1), Put(m, i, [byte |-> b, from |-> item]), e)
  <2> HIDE DEF next
  <2> QED BY <1>1 DEF Cursor
<1>3. failed = Cursor(Wrap(i + 1), m, 1)
  <2> HIDE DEF next
  <2> QED BY <1>1 DEF Cursor
<1> HIDE DEF written, failed, next
<1> QED BY <1>1, <1>2, <1>3, <1>4 DEF w
\* The writing of bytes, unrolled.
LEMMA Unrolled ==
  ASSUME NEW bytes, Len(bytes) \in Nat
  PROVE  \E w : /\ w = [n \in 0 .. Len(bytes) |->
                          IF n = 0 THEN [index |-> index, image |-> image, error |-> error]
                          ELSE SafeWrite(w[n - 1], bytes[n])]
                /\ Written(bytes) = w[Len(bytes)]
<1> DEFINE first == [index |-> index, image |-> image, error |-> error]
           Is(w, m) == w = [n \in 0 .. m |->
                              IF n = 0 THEN first ELSE SafeWrite(w[n - 1], bytes[n])]
           S == {m \in Nat : \E w : Is(w, m)}
<1>1. 0 \in S
  <2> DEFINE w == [n \in 0 .. 0 |-> first]
  <2>1. Is(w, 0)
    <3>1. DOMAIN w = 0 .. 0
      OBVIOUS
    <3> HIDE DEF first
    <3> QED BY <3>1
  <2> HIDE DEF w, Is
  <2> QED BY <2>1
<1>2. ASSUME NEW m \in Nat, m \in S
      PROVE  m + 1 \in S
  <2>1. PICK w : Is(w, m)
    BY <1>2
  <2> DEFINE x == [n \in 0 .. m + 1 |-> IF n = m + 1 THEN SafeWrite(w[m], bytes[m + 1]) ELSE w[n]]
  <2> HIDE DEF first, SafeWrite
  <2>2. \A n \in 0 .. m + 1 :
          x[n] = IF n = 0 THEN first ELSE SafeWrite(x[n - 1], bytes[n])
    <3> SUFFICES ASSUME NEW n \in 0 .. m + 1
                 PROVE  x[n] = IF n = 0 THEN first ELSE SafeWrite(x[n - 1], bytes[n])
      OBVIOUS
    <3>1. CASE n = m + 1
      <4>1. x[n - 1] = w[m] /\ n # 0
        BY <3>1
      <4> QED BY <3>1, <4>1
    <3>2. CASE n # m + 1
      <4>1. n \in 0 .. m
        BY <3>2
      <4>2. w[n] = IF n = 0 THEN first ELSE SafeWrite(w[n - 1], bytes[n])
        BY <2>1, <4>1
      <4>3. n # 0 => n - 1 \in 0 .. m + 1 /\ n - 1 # m + 1
        BY <4>1
      <4>4. n # 0 => x[n - 1] = w[n - 1]
        BY <4>3
      <4> QED BY <3>2, <4>2, <4>4
    <3> QED BY <3>1, <3>2
  <2>3. x = [n \in 0 .. m + 1 |-> x[n]]
    OBVIOUS
  <2> HIDE DEF x
  <2>4. Is(x, m + 1)
    BY <2>2, <2>3
  <2> QED BY <2>4
<1> HIDE DEF S
<1>3. Len(bytes) \in S
  BY <1>1, <1>2, Induction
<1>4. \E w : Is(w, Len(bytes))
  BY <1>3 DEF S
<1>5. Written(bytes) = (CHOOSE w : Is(w, Len(bytes)))[Len(bytes)]
  BY DEF Written
<1> HIDE DEF Is
<1>6. Is(CHOOSE w : Is(w, Len(bytes)), Len(bytes))
  BY <1>4
<1> QED BY <1>5, <1>6 DEF Is

\* Where byte k of what is written goes.
To(k) == Wrap(index + k - 1)

\* What n bytes have led to.
Sofar(bytes, n, x) ==
  /\ x = Cursor(Wrap(index + n), x.image, x.error)
  /\ ImageType(x.image) /\ x.error \in {0, 1} /\ (error = 1 => x.error = 1)
  /\ DOMAIN image \subseteq DOMAIN x.image
  /\ \A a \in DOMAIN x.image :
       \/ a \in DOMAIN image /\ x.image[a] = image[a]
       \/ \E k \in 1 .. n : a = To(k) /\ x.image[a] = [byte |-> bytes[k], from |-> item]
  /\ \A k \in 1 .. n : To(k) \in DOMAIN x.image \/ (Padding /\ To(k) > SEGMENT_CODE_END)
  /\ Padding => \A a \in DOMAIN x.image : a \in DOMAIN image \/ a <= SEGMENT_CODE_END
  /\ Refusing \/ ~Replacing => \A a \in DOMAIN image : x.image[a] = image[a]
  /\ Refusing /\ x.error = 0 => \A k \in 1 .. n : To(k) \notin DOMAIN image
  /\ ~Refusing /\ Replacing =>
       \A k \in 1 .. n : To(k) \in DOMAIN x.image => x.image[To(k)].from = item

LEMMA Started ==
  ASSUME NEW bytes, index \in Address, ImageType(image), error \in {0, 1}
  PROVE  Sofar(bytes, 0, Cursor(index, image, error))
<1>1. Wrap(index + 0) = index
  BY Places
<1>2. Cursor(index, image, error).image = image /\ Cursor(index, image, error).error = error
  BY DEF Cursor
<1> QED BY <1>1, <1>2 DEF Sofar

\* One byte more: what its place i and the image q and the error f after it have to be.
OneMore(m, e, i, v, q, f) ==
  /\ ImageType(q) /\ f \in {0, 1} /\ (e = 1 => f = 1)
  /\ DOMAIN m \subseteq DOMAIN q
  /\ \A a \in DOMAIN q : (a \in DOMAIN m /\ q[a] = m[a]) \/ (a = i /\ q[a] = v)
  /\ i \in DOMAIN q \/ (Padding /\ i > SEGMENT_CODE_END)
  /\ Padding => \A a \in DOMAIN q : a \in DOMAIN m \/ a <= SEGMENT_CODE_END
  /\ Refusing \/ ~Replacing => \A a \in DOMAIN m : q[a] = m[a]
  /\ Refusing /\ f = 0 => i \notin DOMAIN m /\ e = 0
  /\ ~Refusing /\ Replacing /\ i \in DOMAIN q => q[i].from = item

LEMMA SofarGrows ==
  ASSUME NEW bytes, NEW n \in Nat, NEW x, Sofar(bytes, n, x), NEW q, NEW f,
         OneMore(x.image, x.error, To(n + 1), [byte |-> bytes[n + 1], from |-> item], q, f)
  PROVE  Sofar(bytes, n + 1, Cursor(Wrap(index + (n + 1)), q, f))
<1> DEFINE m == x.image
           e == x.error
           i == To(n + 1)
           v == [byte |-> bytes[n + 1], from |-> item]
           y == Cursor(Wrap(index + (n + 1)), q, f)
<1>1. \A k \in 1 .. n + 1 : k \in 1 .. n \/ k = n + 1
  OBVIOUS
<1>2. 1 .. n \subseteq 1 .. n + 1 /\ n + 1 \in 1 .. n + 1
  OBVIOUS
<1>3. y.image = q /\ y.error = f /\ y = Cursor(Wrap(index + (n + 1)), y.image, y.error)
  BY DEF Cursor
<1>4. v.from = item
  OBVIOUS
<1> HIDE DEF y, v, i, m, e
<1>5. ImageType(q) /\ f \in {0, 1} /\ (error = 1 => f = 1) /\ DOMAIN image \subseteq DOMAIN q
  BY DEF Sofar, OneMore, m, e
<1>6. ASSUME NEW a \in DOMAIN q
      PROVE  \/ a \in DOMAIN image /\ q[a] = image[a]
             \/ \E k \in 1 .. n + 1 : a = To(k) /\ q[a] = [byte |-> bytes[k], from |-> item]
  <2>1. CASE a = i /\ q[a] = v
    BY <1>2, <2>1 DEF i, v
  <2>2. CASE a \in DOMAIN m /\ q[a] = m[a]
    <3>1. \/ a \in DOMAIN image /\ m[a] = image[a]
          \/ \E k \in 1 .. n : a = To(k) /\ m[a] = [byte |-> bytes[k], from |-> item]
      BY <2>2 DEF Sofar, m
    <3> QED BY <1>2, <2>2, <3>1
  <2> QED BY <2>1, <2>2 DEF OneMore, m, i, v
<1>7. ASSUME NEW k \in 1 .. n + 1
      PROVE  To(k) \in DOMAIN q \/ (Padding /\ To(k) > SEGMENT_CODE_END)
  <2>1. CASE k = n + 1
    BY <2>1 DEF OneMore
  <2>2. CASE k \in 1 .. n
    <3>1. To(k) \in DOMAIN m \/ (Padding /\ To(k) > SEGMENT_CODE_END)
      BY <2>2 DEF Sofar, m
    <3> QED BY <3>1 DEF OneMore, m
  <2> QED BY <1>1, <2>1, <2>2
<1>8. ASSUME Padding, NEW a \in DOMAIN q
      PROVE  a \in DOMAIN image \/ a <= SEGMENT_CODE_END
  <2>1. a \in DOMAIN m \/ a <= SEGMENT_CODE_END
    BY <1>8 DEF OneMore, m
  <2>2. a \in DOMAIN m => a \in DOMAIN image \/ a <= SEGMENT_CODE_END
    BY <1>8 DEF Sofar, m
  <2> QED BY <2>1, <2>2
<1>9. ASSUME Refusing \/ ~Replacing, NEW a \in DOMAIN image
      PROVE  q[a] = image[a]
  <2>1. a \in DOMAIN m /\ m[a] = image[a]
    BY <1>9 DEF Sofar, m
  <2> QED BY <1>9, <2>1 DEF OneMore, m
<1>10. ASSUME Refusing, f = 0, NEW k \in 1 .. n + 1
       PROVE  To(k) \notin DOMAIN image
  <2>1. i \notin DOMAIN m /\ e = 0
    BY <1>10 DEF OneMore, i, m, e
  <2>2. k \in 1 .. n => To(k) \notin DOMAIN image
    BY <1>10, <2>1 DEF Sofar, e
  <2>3. DOMAIN image \subseteq DOMAIN m
    BY DEF Sofar, m
  <2> QED BY <1>1, <2>1, <2>2, <2>3 DEF i
<1>11. ASSUME ~Refusing, Replacing, NEW k \in 1 .. n + 1, To(k) \in DOMAIN q
       PROVE  q[To(k)].from = item
  <2>1. CASE To(k) = i
    BY <1>11, <2>1 DEF OneMore, i
  <2>2. CASE To(k) # i
    <3>1. k \in 1 .. n
      BY <1>1, <2>2 DEF i
    <3>2. To(k) \in DOMAIN m /\ q[To(k)] = m[To(k)]
      BY <1>11, <2>2 DEF OneMore, i, m
    <3>3. m[To(k)].from = item
      BY <1>11, <3>1, <3>2 DEF Sofar, m
    <3> QED BY <3>2, <3>3
  <2> QED BY <2>1, <2>2
<1>12. Sofar(bytes, n + 1, y)
  BY <1>3, <1>5, <1>6, <1>7, <1>8, <1>9, <1>10, <1>11 DEF Sofar
<1> QED BY <1>12 DEF y

LEMMA GoesOn ==
  ASSUME NEW bytes, NEW n \in Nat, NEW x, Sofar(bytes, n, x), index \in Address
  PROVE  Sofar(bytes, n + 1, SafeWrite(x, bytes[n + 1]))
<1> DEFINE i == Wrap(index + n)
           m == x.image
           e == x.error
           v == [byte |-> bytes[n + 1], from |-> item]
           p == Put(m, i, v)
           j == Wrap(index + (n + 1))
<1>1. /\ i \in Address /\ Wrap(i + 1) = j /\ i = To(n + 1) /\ i \in Int
      /\ SEGMENT_CODE_END \in Int
  <2>1. n + 1 \in Int /\ n \in Int /\ index \in Int /\ index + n \in Int /\ 1 \in Int
    BY Places
  <2>2. Wrap(Wrap(index + n) + 1) = Wrap((index + n) + 1)
    BY <2>1, WrapTwice
  <2>3. (index + n) + 1 = index + (n + 1) /\ index + (n + 1) - 1 = index + n
    BY <2>1
  <2>4. i \in Address /\ i \in Int
    BY <2>1, Places
  <2>5. To(n + 1) = i
    BY <2>3 DEF To
  <2>6. Wrap(i + 1) = j
    BY <2>2, <2>3
  <2> QED BY <2>4, <2>5, <2>6, Places
<1>2. x = Cursor(i, m, e) /\ ImageType(m) /\ e \in {0, 1}
  BY DEF Sofar
<1>3. /\ ImageType(p) /\ DOMAIN p = DOMAIN m \cup {i} /\ p[i] = v
      /\ \A a \in DOMAIN m : a # i => p[a] = m[a]
  <2>1. i \in Address /\ ImageType(m)
    BY <1>1, <1>2
  <2> HIDE DEF m, v, i, p
  <2>2. p = [a \in DOMAIN m \cup {i} |-> IF a = i THEN v ELSE m[a]]
    BY DEF p, Put
  <2>3. DOMAIN p = DOMAIN m \cup {i}
    BY <2>2
  <2>4. ImageType(p)
    BY <2>1, <2>2, <2>3 DEF ImageType
  <2> QED BY <2>2, <2>3, <2>4
<1>4. SafeWrite(x, bytes[n + 1]) =
           IF i \in DOMAIN m
           THEN IF Refusing THEN Cursor(j, m, 1)
                ELSE IF Replacing THEN Cursor(j, p, e) ELSE Cursor(j, m, e)
           ELSE IF Padding /\ i > SEGMENT_CODE_END THEN Cursor(j, m, 1)
           ELSE Cursor(j, p, e)
  BY <1>1, <1>2, OneWrite
<1>5. v.from = item
  OBVIOUS
<1> HIDE DEF p
<1>6. ASSUME NEW q, NEW f, OneMore(m, e, i, v, q, f)
      PROVE  Sofar(bytes, n + 1, Cursor(j, q, f))
  BY <1>1, <1>6, SofarGrows
<1> HIDE DEF v, m, e, i, j
<1>7. CASE i \in DOMAIN m /\ Refusing
  <2>1. OneMore(m, e, i, v, m, 1)
    BY <1>1, <1>2, <1>7 DEF OneMore
  <2> QED BY <1>1, <1>4, <1>6, <1>7, <2>1
<1>8. CASE i \in DOMAIN m /\ ~Refusing /\ Replacing
  <2>1. OneMore(m, e, i, v, p, e)
    BY <1>1, <1>2, <1>3, <1>5, <1>8 DEF OneMore
  <2> QED BY <1>1, <1>4, <1>6, <1>8, <2>1
<1>9. CASE i \in DOMAIN m /\ ~Refusing /\ ~Replacing
  <2>1. OneMore(m, e, i, v, m, e)
    BY <1>1, <1>2, <1>9 DEF OneMore
  <2> QED BY <1>1, <1>4, <1>6, <1>9, <2>1
<1>10. CASE i \notin DOMAIN m /\ Padding /\ i > SEGMENT_CODE_END
  <2>1. OneMore(m, e, i, v, m, 1)
    BY <1>1, <1>2, <1>10 DEF OneMore
  <2> QED BY <1>1, <1>4, <1>6, <1>10, <2>1
<1>11. CASE i \notin DOMAIN m /\ ~(Padding /\ i > SEGMENT_CODE_END)
  <2>1. OneMore(m, e, i, v, p, e)
    BY <1>1, <1>2, <1>3, <1>5, <1>11 DEF OneMore
  <2> QED BY <1>1, <1>4, <1>6, <1>11, <2>1
<1> QED BY <1>7, <1>8, <1>9, <1>10, <1>11

\* What the bytes of an entry have led to.
LEMMA AllWritten ==
  ASSUME NEW bytes, Len(bytes) \in Nat, index \in Address, ImageType(image), error \in {0, 1}
  PROVE  Sofar(bytes, Len(bytes), Written(bytes))
<1>1. PICK w : /\ w = [n \in 0 .. Len(bytes) |->
                         IF n = 0 THEN [index |-> index, image |-> image, error |-> error]
                         ELSE SafeWrite(w[n - 1], bytes[n])]
               /\ Written(bytes) = w[Len(bytes)]
  BY Unrolled
<1> DEFINE S == {n \in Nat : n <= Len(bytes) => Sofar(bytes, n, w[n])}
<1>2. 0 \in S
  <2>1. w[0] = Cursor(index, image, error)
    BY <1>1 DEF Cursor
  <2> QED BY <2>1, Started
<1>3. ASSUME NEW n \in Nat, n \in S
      PROVE  n + 1 \in S
  <2> SUFFICES ASSUME n + 1 <= Len(bytes)
               PROVE  Sofar(bytes, n + 1, w[n + 1])
    OBVIOUS
  <2>1. n <= Len(bytes) /\ n + 1 \in 0 .. Len(bytes) /\ n + 1 # 0 /\ (n + 1) - 1 = n
    OBVIOUS
  <2>2. w[n + 1] = SafeWrite(w[n], bytes[n + 1])
    BY <1>1, <2>1
  <2>3. Sofar(bytes, n, w[n])
    BY <1>3, <2>1
  <2> QED BY <2>2, <2>3, GoesOn
<1> HIDE DEF S
<1>4. Len(bytes) \in S
  BY <1>2, <1>3, Induction
<1> QED BY <1>1, <1>4 DEF S

-----------------------------------------------------------------------------
(***************************************************************************)
(* Sequences as tuples: what is concatenated and appended, part by part.   *)
(***************************************************************************)
\* A tuple of n parts.
Tuple(s, n) == n \in Nat /\ s = [i \in 1 .. n |-> s[i]]

LEMMA TupleSeq ==
  ASSUME NEW s, NEW n, Tuple(s, n)
  PROVE  Len(s) = n /\ DOMAIN s = 1 .. n /\ s \in Seq({s[i] : i \in 1 .. n})
<1>1. n \in Nat /\ DOMAIN s = 1 .. n
  BY DEF Tuple
<1>2. s \in [1 .. n -> {s[i] : i \in 1 .. n}]
  BY DEF Tuple
<1>3. s \in Seq({s[i] : i \in 1 .. n})
  BY <1>1, <1>2, SeqDef
<1> QED BY <1>1, <1>3

LEMMA SeqTuple ==
  ASSUME NEW S, NEW s \in Seq(S)
  PROVE  Tuple(s, Len(s))
<1>1. Len(s) \in Nat /\ s \in [1 .. Len(s) -> S]
  BY LenProperties
<1> QED BY <1>1 DEF Tuple

\* c is s, of n parts, and then t, of m parts.
IsConcat(c, s, t) == c = s \o t
Joins(c, s, n, t, m) ==
  /\ Tuple(c, n + m)
  /\ \A i \in 1 .. n : c[i] = s[i]
  /\ \A i \in 1 .. m : c[n + i] = t[i]

LEMMA Join ==
  ASSUME NEW s, NEW n, Tuple(s, n), NEW t, NEW m, Tuple(t, m), NEW c, IsConcat(c, s, t)
  PROVE  Joins(c, s, n, t, m)
<1> DEFINE S == {s[i] : i \in 1 .. n} \cup {t[i] : i \in 1 .. m}
<1>1. s \in Seq(S) /\ t \in Seq(S) /\ Len(s) = n /\ Len(t) = m
  <2>1. s \in Seq({s[i] : i \in 1 .. n}) /\ t \in Seq({t[i] : i \in 1 .. m})
        /\ Len(s) = n /\ Len(t) = m
    BY TupleSeq
  <2>2. DOMAIN s = 1 .. n /\ DOMAIN t = 1 .. m
    BY TupleSeq
  <2>3. n \in Nat /\ m \in Nat
    BY DEF Tuple
  <2>4. s \in [1 .. n -> S] /\ t \in [1 .. m -> S]
    BY <2>2, <2>3 DEF Tuple
  <2> QED BY <2>1, <2>3, <2>4, SeqDef
<1> HIDE DEF S
<1>2. s \o t \in Seq(S) /\ Len(s \o t) = n + m
      /\ \A i \in 1 .. n + m : (s \o t)[i] = IF i <= n THEN s[i] ELSE t[i - n]
  BY <1>1, ConcatProperties
<1>3. n \in Nat /\ m \in Nat /\ n + m \in Nat
  BY DEF Tuple
<1>4. c \in Seq(S) /\ Len(c) = n + m
      /\ \A i \in 1 .. n + m : c[i] = IF i <= n THEN s[i] ELSE t[i - n]
  BY <1>2 DEF IsConcat
<1>5. Tuple(c, n + m)
  BY <1>4, SeqTuple
<1>6. \A i \in 1 .. n : c[i] = s[i]
  BY <1>3, <1>4
<1>7. ASSUME NEW i \in 1 .. m
      PROVE  c[n + i] = t[i]
  <2>1. n + i \in 1 .. n + m /\ ~(n + i <= n) /\ (n + i) - n = i
    BY <1>3
  <2> QED BY <1>4, <2>1
<1> QED BY <1>5, <1>6, <1>7 DEF Joins

\* c is s, of n parts, and then x.
IsAppend(c, s, x) == c = Append(s, x)
Appends(c, s, n, x) ==
  Tuple(c, n + 1) /\ c[n + 1] = x /\ \A i \in 1 .. n : c[i] = s[i]

LEMMA TupleAppend ==
  ASSUME NEW s, NEW n, Tuple(s, n), NEW x, NEW c, IsAppend(c, s, x)
  PROVE  Appends(c, s, n, x)
<1> DEFINE S == {s[i] : i \in 1 .. n} \cup {x}
<1>1. n \in Nat /\ DOMAIN s = 1 .. n /\ Len(s) = n
  BY TupleSeq DEF Tuple
<1>2. s \in Seq(S) /\ x \in S
  <2>1. s \in [1 .. n -> S]
    BY <1>1 DEF Tuple
  <2> QED BY <1>1, <2>1, SeqDef
<1> HIDE DEF S
<1>3. /\ Append(s, x) \in Seq(S) /\ Len(Append(s, x)) = n + 1
      /\ \A i \in 1 .. n : Append(s, x)[i] = s[i]
      /\ Append(s, x)[n + 1] = x
  BY <1>1, <1>2, AppendProperties
<1>4. c \in Seq(S) /\ Len(c) = n + 1 /\ c[n + 1] = x /\ \A i \in 1 .. n : c[i] = s[i]
  BY <1>1, <1>3 DEF IsAppend
<1>5. Tuple(c, n + 1)
  BY <1>4, SeqTuple
<1> QED BY <1>4, <1>5 DEF Appends

\* The statements that entries can have.
Known == Statements \cup {Ending[i] : i \in DOMAIN Ending} \cup {Directive("DB", i) : i \in Nat}

LEMMA KnownIs ==
  ASSUME NEW s \in Known
  PROVE  /\ s.kind \in StatementKind /\ s.value \in Nat
         /\ s.kind = "INSTRUCTION" => Encodable(s) /\ s.no_cache \in BOOLEAN
         /\ s.kind # "INSTRUCTION" => s.op = "NOP" /\ Operands(s) = 0
         /\ s.kind = "LABEL" => s.name # ""
         /\ Refers(s.src, s.admx) /\ Refers(s.dst, s.admr)
<1>1. CASE s \in Statements \cup {Ending[i] : i \in DOMAIN Ending}
  BY <1>1, AssemblerAssumption
<1>2. CASE s \in {Directive("DB", i) : i \in Nat}
  <2>1. PICK i \in Nat : s = Directive("DB", i)
    BY <1>2
  <2>2. /\ s.kind = "DB" /\ s.value = i /\ s.op = "NOP" /\ s.admx.kind = "NONE" /\ s.admr.kind = "NONE"
        /\ s.src = NoArguments /\ s.dst = NoArguments
    BY <2>1 DEF Directive
  <2>3. Operands(s) = 0
    BY <2>2 DEF Operands, mode_bytes
  <2>4. s.src.name = "" /\ s.dst.name = ""
    <3>1. NoArguments.name = ""
      BY DEF NoArguments, Argument
    <3> QED BY <2>2, <3>1
  <2> QED BY <2>2, <2>3, <2>4 DEF StatementKind, Refers
<1> QED BY <1>1, <1>2 DEF Known

\* The word that operand t stands for, if it is one number or one label.
Meaning(slot, t) == IF t.name = "" THEN t.imm ELSE Target(slot, t)
OneWord(slot, t) == Meaning(slot, t) \in AWord /\ (t.name # "" => t.imm = 0)

\* The bytes of an operand.
LEMMA ArgumentTuple ==
  ASSUME NEW slot, NEW m, NEW t
  PROVE  /\ mode_bytes(m) \in {0, 2, 3} /\ Tuple(ArgumentBytes(slot, m, t), mode_bytes(m))
         /\ OneWord(slot, t) /\ mode_bytes(m) # 0 =>
              /\ ArgumentBytes(slot, m, t)[1] = Low(Meaning(slot, t))
              /\ ArgumentBytes(slot, m, t)[2] = High(Meaning(slot, t))
<1> DEFINE v == IF t.name = "" THEN 0 ELSE Target(slot, t)
           one == (Low(t.imm) + Low(v)) % BYTE_RANGE
           two == (High(t.imm) + High(v)) % BYTE_RANGE
           args == CASE mode_bytes(m) = 0 -> <<>>
                     [] mode_bytes(m) = 2 -> <<one, two>>
                     [] mode_bytes(m) = 3 -> Append(<<one, two>>, t.scale)
<1>1. ArgumentBytes(slot, m, t) = args
  BY DEF ArgumentBytes
<1>2. mode_bytes(m) \in {0, 2, 3}
  BY DEF mode_bytes
<1>3. ASSUME OneWord(slot, t)
      PROVE  one = Low(Meaning(slot, t)) /\ two = High(Meaning(slot, t))
  <2>1. PICK w \in AWord : w = Meaning(slot, t)
    BY <1>3 DEF OneWord
  <2>2. PICK r \in Nat : r = BYTE_RANGE /\ r > 1 /\ WORDS = r * r
    BY WordAssumption, EncodingAssumption
  <2>3. Low(0) = 0 /\ High(0) = 0
    BY <2>2 DEF Low, High
  <2>4. w \in Nat /\ w < r * r
    <3>1. w \in 0 .. WORDS - 1
      BY DEF AWord
    <3> QED BY <2>2, <3>1
  <2>5. w % r \in 0 .. r - 1
    BY <2>2, <2>4
  <2>6. w \div r \in 0 .. r - 1
    <3>1. PICK q \in Int, k \in 0 .. r - 1 : w = q * r + k /\ q = w \div r
      <4>1. \A i \in Nat : i = (i \div r) * r + (i % r) /\ i \div r \in Int /\ i % r \in 0 .. r - 1
        BY <2>2
      <4> QED BY <2>4, <4>1
    <3>2. q >= 0
      BY <2>4, <3>1
    <3>3. q < r
      <4> SUFFICES ASSUME q >= r
                   PROVE  FALSE
        BY <3>1
      <4>1. q * r >= r * r
        BY <2>2, <3>1
      <4> QED BY <2>4, <3>1, <4>1
    <3> QED BY <3>1, <3>2, <3>3
  <2>7. /\ ((w % r) + 0) % r = w % r /\ ((w \div r) + 0) % r = w \div r
        /\ (0 + (w % r)) % r = w % r /\ (0 + (w \div r)) % r = w \div r
    BY <2>2, <2>5, <2>6
  <2>8. /\ (Low(w) + Low(0)) % BYTE_RANGE = Low(w) /\ (High(w) + High(0)) % BYTE_RANGE = High(w)
        /\ (Low(0) + Low(w)) % BYTE_RANGE = Low(w) /\ (High(0) + High(w)) % BYTE_RANGE = High(w)
    BY <2>2, <2>3, <2>7 DEF Low, High
  <2>9. CASE t.name = ""
    BY <2>1, <2>8, <2>9 DEF Meaning
  <2>10. CASE t.name # ""
    <3>1. t.imm = 0 /\ v = w
      BY <1>3, <2>1, <2>10 DEF OneWord, Meaning
    <3> QED BY <2>1, <2>8, <3>1
  <2> QED BY <2>9, <2>10
<1> HIDE DEF one, two
<1>4. CASE mode_bytes(m) = 0
  <2>1. args = <<>>
    BY <1>4
  <2>2. Tuple(<<>>, 0)
    BY DEF Tuple
  <2> QED BY <1>1, <1>2, <1>4, <2>1, <2>2
<1>5. Tuple(<<one, two>>, 2) /\ <<one, two>>[1] = one /\ <<one, two>>[2] = two
  BY DEF Tuple
<1>6. CASE mode_bytes(m) = 2
  <2>1. args = <<one, two>>
    BY <1>6
  <2> QED BY <1>1, <1>2, <1>3, <1>5, <1>6, <2>1
<1>7. CASE mode_bytes(m) = 3
  <2>1. PICK w, c : w = <<one, two>> /\ c = args
    OBVIOUS
  <2>2. args = Append(<<one, two>>, t.scale)
    BY <1>7
  <2>3. IsAppend(c, w, t.scale)
    BY <2>1, <2>2 DEF IsAppend
  <2> HIDE DEF args
  <2>4. Tuple(w, 2) /\ w[1] = one /\ w[2] = two
    BY <1>5, <2>1
  <2>5. Appends(c, w, 2, t.scale)
    BY <2>3, <2>4, TupleAppend
  <2>6. 1 \in 1 .. 2 /\ 2 \in 1 .. 2 /\ 2 + 1 = 3
    OBVIOUS
  <2>7. Tuple(c, 3) /\ c[1] = w[1] /\ c[2] = w[2]
    BY <2>5, <2>6 DEF Appends
  <2> QED BY <1>1, <1>2, <1>3, <1>7, <2>1, <2>4, <2>7
<1> QED BY <1>2, <1>4, <1>6, <1>7

\* a are the k bytes of argument t.
OperandBytes(a, k, slot, t) ==
  /\ k \in {0, 2, 3} /\ Tuple(a, k)
  /\ OneWord(slot, t) /\ k # 0 => a[1] = Low(Meaning(slot, t)) /\ a[2] = High(Meaning(slot, t))

LEMMA OperandIs ==
  ASSUME NEW slot, NEW m, NEW t
  PROVE  OperandBytes(ArgumentBytes(slot, m, t), mode_bytes(m), slot, t)
BY ArgumentTuple DEF OperandBytes

-----------------------------------------------------------------------------
(***************************************************************************)
(* The bytes of an instruction.                                            *)
(***************************************************************************)
\* Four tuples, one after the other.
Joined(b, p, x, r, head, one, ext, red) ==
  /\ Tuple(b, p + 1 + x + r)
  /\ \A i \in 1 .. p : b[i] = head[i]
  /\ b[p + 1] = one[1]
  /\ x # 0 => b[p + 2] = ext[1] /\ b[p + 3] = ext[2]
  /\ r # 0 => b[p + 2 + x] = red[1] /\ b[p + 3 + x] = red[2]

LEMMA JoinFour ==
  ASSUME NEW p \in Nat, p > 0, NEW x \in {0, 2, 3}, NEW r \in {0, 2, 3},
         NEW head, Tuple(head, p), NEW one, Tuple(one, 1), NEW ext, Tuple(ext, x),
         NEW red, Tuple(red, r), NEW b, IsConcat(b, head, one \o ext \o red)
  PROVE  Joined(b, p, x, r, head, one, ext, red)
<1>1. PICK front, tail : front = one \o ext /\ tail = front \o red
  OBVIOUS
<1>2. IsConcat(front, one, ext) /\ IsConcat(tail, front, red) /\ IsConcat(b, head, tail)
  BY <1>1 DEF IsConcat
<1>3. Joins(front, one, 1, ext, x)
  BY <1>2, Join
<1>4. Joins(tail, front, 1 + x, red, r)
  <2>1. Tuple(front, 1 + x)
    BY <1>3 DEF Joins
  <2> QED BY <1>2, <2>1, Join
<1>5. Joins(b, head, p, tail, (1 + x) + r)
  <2>1. Tuple(tail, (1 + x) + r)
    BY <1>4 DEF Joins
  <2> QED BY <1>2, <2>1, Join
<1>6. Tuple(b, p + 1 + x + r)
  <2>1. p + ((1 + x) + r) = p + 1 + x + r
    OBVIOUS
  <2> QED BY <1>5, <2>1 DEF Joins
<1>7. b[p + 1] = one[1]
  <2>1. 1 \in 1 .. (1 + x) + r /\ 1 \in 1 .. 1 + x /\ 1 \in 1 .. 1
    OBVIOUS
  <2>2. b[p + 1] = tail[1] /\ tail[1] = front[1] /\ front[1] = one[1]
    BY <1>3, <1>4, <1>5, <2>1 DEF Joins
  <2> QED BY <2>2
<1>8. ASSUME x # 0
      PROVE  b[p + 2] = ext[1] /\ b[p + 3] = ext[2]
  <2>1. 2 \in 1 .. (1 + x) + r /\ 3 \in 1 .. (1 + x) + r /\ 2 \in 1 .. 1 + x /\ 3 \in 1 .. 1 + x
        /\ 1 \in 1 .. x /\ 2 \in 1 .. x /\ 1 + 1 = 2 /\ 1 + 2 = 3
    BY <1>8
  <2>2. b[p + 2] = tail[2] /\ b[p + 3] = tail[3] /\ tail[2] = front[2] /\ tail[3] = front[3]
    BY <1>4, <1>5, <2>1 DEF Joins
  <2>3. front[1 + 1] = ext[1] /\ front[1 + 2] = ext[2]
    BY <1>3, <2>1 DEF Joins
  <2> QED BY <2>1, <2>2, <2>3
<1>9. ASSUME r # 0
      PROVE  b[p + 2 + x] = red[1] /\ b[p + 3 + x] = red[2]
  <2>1. 2 + x \in 1 .. (1 + x) + r /\ 3 + x \in 1 .. (1 + x) + r /\ 1 \in 1 .. r /\ 2 \in 1 .. r
        /\ (1 + x) + 1 = 2 + x /\ (1 + x) + 2 = 3 + x
        /\ p + (2 + x) = p + 2 + x /\ p + (3 + x) = p + 3 + x
    BY <1>9
  <2>2. b[p + (2 + x)] = tail[2 + x] /\ b[p + (3 + x)] = tail[3 + x]
    BY <1>5, <2>1 DEF Joins
  <2>3. tail[(1 + x) + 1] = red[1] /\ tail[(1 + x) + 2] = red[2]
    BY <1>4, <2>1 DEF Joins
  <2> QED BY <2>1, <2>2, <2>3
<1> QED BY <1>5, <1>6, <1>7, <1>8, <1>9 DEF Joins, Joined

\* The prefixes and the mnemonic.
LEMMA Leading ==
  ASSUME NEW s, Encodable(s), s.no_cache \in BOOLEAN, NEW p, p = PageOf(s.op), NEW head,
         head = [i \in 1 .. p |-> OpcodeByte(IF i = p THEN p ELSE 1,
                                             IF i = p THEN s.op ELSE "EXT", s.no_cache)]
  PROVE  /\ p \in 1 .. Len(Opcode) /\ p \in Nat /\ p > 0 /\ Len(Opcode) \in Nat /\ Tuple(head, p)
         /\ \A i \in 1 .. p - 1 : /\ head[i] \in BYTE /\ Opcode[1][head[i]] = "EXT"
                                  /\ (head[i] \in NoCache <=> s.no_cache)
         /\ head[p] \in BYTE /\ Opcode[p][head[p]] = s.op /\ (head[p] \in NoCache <=> s.no_cache)
<1>1. p \in 1 .. Len(Opcode) /\ Len(Opcode) \in Nat /\ p \in Nat /\ p > 0
  <2>1. Len(Opcode) \in Nat /\ DOMAIN Opcode = 1 .. Len(Opcode)
    BY EncodingAssumption
  <2>2. PageOf(s.op) \in DOMAIN Opcode
    BY DEF PageOf, Encodable
  <2> QED BY <2>1, <2>2
<1>4. Tuple(head, p)
  BY <1>1 DEF Tuple
<1>6. ASSUME NEW i \in 1 .. p - 1
      PROVE  head[i] \in BYTE /\ Opcode[1][head[i]] = "EXT" /\ (head[i] \in NoCache <=> s.no_cache)
  <2>1. i \in 1 .. p /\ i # p /\ PageOf(s.op) > 1
    BY <1>1
  <2>2. head[i] = OpcodeByte(1, "EXT", s.no_cache)
    BY <2>1
  <2>3. \E b \in BYTE : Opcode[1][b] = "EXT" /\ (b \in NoCache <=> s.no_cache)
    BY <2>1 DEF Encodable
  <2> QED BY <2>2, <2>3 DEF OpcodeByte
<1>7. head[p] \in BYTE /\ Opcode[p][head[p]] = s.op /\ (head[p] \in NoCache <=> s.no_cache)
  <2>1. head[p] = OpcodeByte(p, s.op, s.no_cache)
    BY <1>1
  <2>2. \E b \in BYTE : Opcode[p][b] = s.op /\ (b \in NoCache <=> s.no_cache)
    BY DEF Encodable
  <2> QED BY <2>1, <2>2 DEF OpcodeByte
<1> QED BY <1>1, <1>4, <1>6, <1>7

InstructionLength(s) ==
  PageOf(s.op) + (IF OneByte(s.op) THEN 0 ELSE 1 + mode_bytes(s.admx) + mode_bytes(s.admr))

\* The bytes b of instruction s in slot, with p - 1 prefixes and operands of x and
\* r bytes.
Laid(slot, s, p, x, r, b) ==
  /\ p = PageOf(s.op) /\ x = mode_bytes(s.admx) /\ r = mode_bytes(s.admr)
  /\ p \in 1 .. Len(Opcode) /\ p \in Nat /\ Len(Opcode) \in Nat
  /\ x \in {0, 2, 3} /\ r \in {0, 2, 3}
  /\ Tuple(b, IF OneByte(s.op) THEN p ELSE p + 1 + x + r)
  /\ \A i \in 1 .. p - 1 : b[i] \in BYTE /\ Opcode[1][b[i]] = "EXT" /\ (b[i] \in NoCache <=> s.no_cache)
  /\ b[p] \in BYTE /\ Opcode[p][b[p]] = s.op /\ (b[p] \in NoCache <=> s.no_cache)
  /\ ~OneByte(s.op) =>
       /\ AddressingMode[b[p + 1]] = [admr |-> s.admr, admx |-> s.admx]
       /\ OneWord(slot, s.src) /\ x # 0 =>
            b[p + 2] = Low(Meaning(slot, s.src)) /\ b[p + 3] = High(Meaning(slot, s.src))
       /\ OneWord(slot, s.dst) /\ r # 0 =>
            b[p + 2 + x] = Low(Meaning(slot, s.dst)) /\ b[p + 3 + x] = High(Meaning(slot, s.dst))

\* The bytes of an instruction.
LEMMA Layout ==
  ASSUME NEW slot, NEW s, s = slot.statement, Encodable(s), s.no_cache \in BOOLEAN
  PROVE  \E p, x, r : Laid(slot, s, p, x, r, InstructionBytes(slot))
<1>1. PICK p, x, r, b, head, one, ext, red :
        /\ p = PageOf(s.op) /\ x = mode_bytes(s.admx) /\ r = mode_bytes(s.admr)
        /\ b = InstructionBytes(slot)
        /\ head = [i \in 1 .. p |-> OpcodeByte(IF i = p THEN p ELSE 1,
                                               IF i = p THEN s.op ELSE "EXT", s.no_cache)]
        /\ one = <<ModeByte(s)>>
        /\ ext = ArgumentBytes(slot, s.admx, s.src) /\ red = ArgumentBytes(slot, s.admr, s.dst)
  OBVIOUS
<1>2. /\ p \in 1 .. Len(Opcode) /\ p \in Nat /\ p > 0 /\ Len(Opcode) \in Nat /\ Tuple(head, p)
      /\ \A i \in 1 .. p - 1 : /\ head[i] \in BYTE /\ Opcode[1][head[i]] = "EXT"
                                  /\ (head[i] \in NoCache <=> s.no_cache)
      /\ head[p] \in BYTE /\ Opcode[p][head[p]] = s.op /\ (head[p] \in NoCache <=> s.no_cache)
  BY SMTT(40), <1>1, Leading
<1>4. /\ x \in {0, 2, 3} /\ Tuple(ext, x)
      /\ OneWord(slot, s.src) /\ x # 0 =>
           ext[1] = Low(Meaning(slot, s.src)) /\ ext[2] = High(Meaning(slot, s.src))
  <2>1. OperandBytes(ArgumentBytes(slot, s.admx, s.src), mode_bytes(s.admx), slot, s.src)
    BY OperandIs
  <2> QED BY <1>1, <2>1 DEF OperandBytes
<1>5. /\ r \in {0, 2, 3} /\ Tuple(red, r)
      /\ OneWord(slot, s.dst) /\ r # 0 =>
           red[1] = Low(Meaning(slot, s.dst)) /\ red[2] = High(Meaning(slot, s.dst))
  <2>1. OperandBytes(ArgumentBytes(slot, s.admr, s.dst), mode_bytes(s.admr), slot, s.dst)
    BY OperandIs
  <2> QED BY <1>1, <2>1 DEF OperandBytes
<1>6. Tuple(one, 1) /\ one[1] = ModeByte(s)
  BY <1>1 DEF Tuple
<1>7. ~OneByte(s.op) => AddressingMode[one[1]] = [admr |-> s.admr, admx |-> s.admx]
  <2>1. ~OneByte(s.op) => AddressingMode[ModeByte(s)] = [admr |-> s.admr, admx |-> s.admx]
    BY DEF ModeByte, Encodable
  <2> QED BY <1>6, <2>1
<1>8. b = head \o (IF OneByte(s.op) THEN <<>> ELSE one \o ext \o red)
  BY <1>1 DEF InstructionBytes
<1>9. ASSUME OneByte(s.op)
      PROVE  Laid(slot, s, p, x, r, b)
  <2>1. PICK none : none = <<>>
    OBVIOUS
  <2>2. IsConcat(b, head, none) /\ Tuple(none, 0)
    BY <1>8, <1>9, <2>1 DEF Tuple, IsConcat
  <2>3. Joins(b, head, p, none, 0)
    BY <1>2, <2>2, Join
  <2>4. p + 0 = p /\ p \in 1 .. p /\ \A i \in 1 .. p - 1 : i \in 1 .. p
    BY <1>2
  <2>5. Tuple(b, p)
    BY <2>3, <2>4 DEF Joins
  <2>6. b[p] = head[p] /\ \A i \in 1 .. p - 1 : b[i] = head[i]
    BY <2>3, <2>4 DEF Joins
  <2>7. Tuple(b, IF OneByte(s.op) THEN p ELSE p + 1 + x + r)
    BY <1>9, <2>5
  <2>8. \A i \in 1 .. p - 1 : b[i] \in BYTE /\ Opcode[1][b[i]] = "EXT" /\ (b[i] \in NoCache <=> s.no_cache)
    BY <1>2, <2>6
  <2>9. b[p] \in BYTE /\ Opcode[p][b[p]] = s.op /\ (b[p] \in NoCache <=> s.no_cache)
    BY <1>2, <2>6
  <2> QED BY <1>1, <1>2, <1>4, <1>5, <1>9, <2>7, <2>8, <2>9 DEF Laid
<1>10. ASSUME ~OneByte(s.op)
       PROVE  Laid(slot, s, p, x, r, b)
  <2>1. IsConcat(b, head, one \o ext \o red)
    BY <1>8, <1>10 DEF IsConcat
  <2>2. Joined(b, p, x, r, head, one, ext, red)
    BY <1>2, <1>4, <1>5, <1>6, <2>1, JoinFour
  <2>3. p \in 1 .. p /\ \A i \in 1 .. p - 1 : i \in 1 .. p
    BY <1>2
  <2>4. b[p] = head[p] /\ \A i \in 1 .. p - 1 : b[i] = head[i]
    BY <2>2, <2>3 DEF Joined
  <2>5. Tuple(b, IF OneByte(s.op) THEN p ELSE p + 1 + x + r)
    BY <1>10, <2>2 DEF Joined
  <2>6. \A i \in 1 .. p - 1 : b[i] \in BYTE /\ Opcode[1][b[i]] = "EXT" /\ (b[i] \in NoCache <=> s.no_cache)
    BY <1>2, <2>4
  <2>7. b[p] \in BYTE /\ Opcode[p][b[p]] = s.op /\ (b[p] \in NoCache <=> s.no_cache)
    BY <1>2, <2>4
  <2>8. AddressingMode[b[p + 1]] = [admr |-> s.admr, admx |-> s.admx]
    BY <1>7, <1>10, <2>2 DEF Joined
  <2>9. OneWord(slot, s.src) /\ x # 0 =>
            b[p + 2] = Low(Meaning(slot, s.src)) /\ b[p + 3] = High(Meaning(slot, s.src))
    BY <1>4, <2>2 DEF Joined
  <2>10. OneWord(slot, s.dst) /\ r # 0 =>
            b[p + 2 + x] = Low(Meaning(slot, s.dst)) /\ b[p + 3 + x] = High(Meaning(slot, s.dst))
    BY <1>5, <2>2 DEF Joined
  <2> QED BY <1>1, <1>2, <1>4, <1>5, <2>5, <2>6, <2>7, <2>8, <2>9, <2>10 DEF Laid
<1>11. Laid(slot, s, p, x, r, b)
  BY <1>9, <1>10
<1> QED BY <1>1, <1>11

\* The bytes of an entry are finite in number.
LEMMA BytesFinite ==
  ASSUME NEW slot, slot.statement \in Known,
         slot.statement.kind \in {"INSTRUCTION", "DW", "DB", "DEREF", "INCBIN"}
  PROVE  Len(Bytes(slot)) \in Nat
<1>1. PICK s, bytes : s = slot.statement /\ bytes = Bytes(slot)
  OBVIOUS
<1>2. CASE s.kind = "INSTRUCTION"
  <2>1. Encodable(s) /\ s.no_cache \in BOOLEAN
    BY <1>1, <1>2, KnownIs
  <2>2. bytes = InstructionBytes(slot)
    BY <1>1, <1>2 DEF Bytes
  <2>3. \E n : Tuple(bytes, n)
    <3>1. PICK p, x, r : Laid(slot, s, p, x, r, InstructionBytes(slot))
      BY <1>1, <2>1, Layout
    <3> QED BY <2>2, <3>1 DEF Laid
  <2>4. PICK n : Tuple(bytes, n)
    BY <2>3
  <2>5. Len(bytes) = n /\ n \in Nat
    BY <2>4, TupleSeq DEF Tuple
  <2> QED BY <1>1, <2>5
<1>3. CASE s.kind = "DW"
  BY <1>1, <1>3 DEF Bytes
<1>4. CASE s.kind = "DB"
  BY <1>1, <1>4 DEF Bytes
<1>5. CASE s.kind = "DEREF"
  <2>1. bytes = <<Low(Wrap(Value(s.name))), High(Wrap(Value(s.name)))>>
    BY <1>1, <1>5 DEF Bytes
  <2> QED BY <1>1, <2>1
<1>6. CASE s.kind = "INCBIN"
  <2>1. s.value \in Nat
    BY <1>1, KnownIs
  <2>2. bytes = [i \in 1 .. s.value |-> i]
    BY <1>1, <1>6 DEF Bytes
  <2>3. Tuple(bytes, s.value)
    BY <2>1, <2>2 DEF Tuple
  <2> QED BY <1>1, <2>1, <2>3, TupleSeq
<1> QED BY <1>1, <1>2, <1>3, <1>4, <1>5, <1>6

-----------------------------------------------------------------------------
(***************************************************************************)
(* The types of what the passes keep.                                      *)
(***************************************************************************)
\* The entries, and what has been done with them.
EntriesOK ==
  /\ Tuple(slots, Len(slots)) /\ \A i \in 1 .. Len(slots) : slots[i].statement \in Known
  /\ item \in 1 .. Len(slots) + 1 /\ Tuple(place, item - 1)
  /\ \A i \in 1 .. item - 1 : place[i] \in Address
  /\ phase = "parse" => item = 1 /\ image = <<>>
  /\ phase = "image" => item = Len(slots) + 1

\* Where to write, and what has been written.
OutputOK ==
  /\ index \in Address /\ stashed_address \in Address /\ binary_size \in Nat
  /\ error \in {0, 1} /\ ImageType(image)

AsmType == EntriesOK /\ OutputOK

LEMMA SourcesKnown ==
  /\ \A s \in Statements \cup Remaining : s \in Known
  /\ \A i \in Nat : Directive("DB", i) \in Known
  BY DEF Known, Remaining

LEMMA AsmInit == Init => AsmType
<1> SUFFICES ASSUME Init
             PROVE  AsmType
  OBVIOUS
<1>1. Tuple(<<>>, 0)
  BY DEF Tuple
<1>2. Len(<<>>) = 0
  BY <1>1, TupleSeq
<1>3. EntriesOK
  BY <1>1, <1>2 DEF Init, EntriesOK
<1>4. OutputOK
  BY Places DEF Init, OutputOK, ImageType
<1> QED BY <1>3, <1>4 DEF AsmType

\* What the first pass adds.
Grown == /\ phase = "parse" /\ phase' = phase
         /\ Tuple(slots', Len(slots')) /\ \A i \in 1 .. Len(slots') : slots'[i].statement \in Known

LEMMA AddGrows ==
  ASSUME NEW s \in Known, NEW address, EntriesOK, Add(s, address)
  PROVE  Tuple(slots', Len(slots')) /\ \A i \in 1 .. Len(slots') : slots'[i].statement \in Known
<1>1. PICK n : n = Len(slots)
  OBVIOUS
<1>2. Tuple(slots, n) /\ n \in Nat /\ \A i \in 1 .. n : slots[i].statement \in Known
  BY <1>1 DEF EntriesOK, Tuple
<1>3. PICK c, x : c = Append(slots, x) /\ x = Slot(s, address) /\ x.statement = s /\ slots' = c
  BY DEF Add, Slot
<1>4. /\ Tuple(c, n + 1) /\ c[n + 1] = x
      /\ \A i \in 1 .. n : c[i] = slots[i]
  <2>1. IsAppend(c, slots, x)
    BY <1>3 DEF IsAppend
  <2>2. Appends(c, slots, n, x)
    BY <1>2, <2>1, TupleAppend
  <2> QED BY <2>2 DEF Appends
<1>5. Len(c) = n + 1
  BY <1>4, TupleSeq
<1>6. \A i \in 1 .. n + 1 : i \in 1 .. n \/ i = n + 1
  BY <1>2
<1> QED BY <1>2, <1>3, <1>4, <1>5, <1>6

LEMMA ParseGrows ==
  ASSUME NEW s \in Statements \cup Remaining, phase = "parse", EntriesOK, Statement(s),
         phase' = phase
  PROVE  Grown /\ UNCHANGED emitVars
<1>1. s \in Known /\ s.kind \in StatementKind
  BY SourcesKnown, KnownIs
<1>2. ASSUME \E address : Add(s, address)
      PROVE  Grown
  BY <1>1, <1>2, AddGrows DEF Grown
<1>3. CASE s.kind = "LABEL"
  <2>1. Label(s)
    BY <1>3 DEF Statement
  <2>2. Add(s, 0) /\ UNCHANGED emitVars
    BY <2>1 DEF Label, Stop
  <2> QED BY <1>2, <2>2
<1>4. CASE s.kind = "ADDRESS"
  BY <1>2, <1>4 DEF Statement, SetAddress
<1>5. CASE s.kind = "PAD"
  BY <1>2, <1>5 DEF Statement, Pad
<1>6. CASE s.kind = "RESERVE"
  <2>1. Reserve(s)
    BY <1>6 DEF Statement
  <2> QED BY <1>2, <2>1 DEF Reserve
<1>7. CASE s.kind = "INSTRUCTION"
  <2>1. Instruct(s)
    BY <1>7 DEF Statement
  <2> QED BY <1>2, <2>1 DEF Instruct
<1>8. CASE s.kind \in {"STORE_ADDRESS", "RESTORE_ADDRESS"}
  <2>1. StoreOrRestore(s)
    BY <1>8 DEF Statement
  <2> QED BY <1>2, <2>1 DEF StoreOrRestore
<1>9. CASE s.kind \in {"SEGMENT_CODE", "SEGMENT_DATA"}
  <2>1. Segment(s)
    BY <1>9 DEF Statement
  <2> QED BY <1>2, <2>1 DEF Segment
<1>10. CASE s.kind \in {"DW", "DB", "DEREF", "INCBIN"}
  <2>1. Data(s)
    BY <1>10 DEF Statement
  <2>2. (\E address : Add(s, address)) /\ UNCHANGED emitVars
    BY <2>1 DEF Data, Stop
  <2> QED BY <1>2, <2>2
<1>11. CASE s.kind = "TEXT"
  <2>1. Text(s)
    BY <1>11 DEF Statement
  <2>2. PICK n, m, t, c : /\ n = Len(slots) /\ m = s.value /\ c = slots \o t /\ slots' = c
                          /\ t = [i \in 1 .. m |-> Slot(Directive("DB", i), 0)]
                          /\ UNCHANGED emitVars
    BY <2>1 DEF Text, Stop
  <2>3. Tuple(slots, n) /\ n \in Nat /\ m \in Nat /\ Tuple(t, m)
    BY <1>1, <2>2, KnownIs DEF EntriesOK, Tuple
  <2>4. Joins(c, slots, n, t, m)
    BY <2>2, <2>3, Join DEF IsConcat
  <2>5. Tuple(c, n + m) /\ Len(c) = n + m
    BY <2>4, TupleSeq DEF Joins
  <2>6. \A i \in 1 .. m : t[i].statement \in Known
    <3> SUFFICES ASSUME NEW i \in 1 .. m
                 PROVE  t[i].statement \in Known
      OBVIOUS
    <3>1. t[i] = Slot(Directive("DB", i), 0)
      BY <2>2
    <3>2. t[i].statement = Directive("DB", i) /\ i \in Nat
      BY <2>3, <3>1 DEF Slot
    <3> QED BY <3>2, SourcesKnown
  <2>7. \A i \in 1 .. n + m : i \in 1 .. n \/ \E j \in 1 .. m : i = n + j
    <3> SUFFICES ASSUME NEW i \in 1 .. n + m, i \notin 1 .. n
                 PROVE  \E j \in 1 .. m : i = n + j
      OBVIOUS
    <3>1. i - n \in 1 .. m /\ i = n + (i - n)
      BY <2>3
    <3> QED BY <3>1
  <2>8. \A i \in 1 .. n : slots[i].statement \in Known
    BY <2>2 DEF EntriesOK
  <2>9. \A i \in 1 .. n + m : c[i].statement \in Known
    BY <2>4, <2>6, <2>7, <2>8 DEF Joins
  <2> QED BY <2>2, <2>5, <2>9 DEF Grown
<1> QED BY <1>1, <1>3, <1>4, <1>5, <1>6, <1>7, <1>8, <1>9, <1>10, <1>11 DEF StatementKind

\* Where Reach goes.
LEMMA Reaching ==
  ASSUME NEW i \in Address, OutputOK, Reach(i)
  PROVE  index' = i /\ binary_size' \in Nat /\ binary_size' >= i /\ binary_size' >= binary_size
<1>1. i \in Nat /\ binary_size \in Nat
  BY Places DEF OutputOK, Address
<1> QED BY <1>1 DEF Reach

\* The next entry is this one.
LEMMA EntryKnown ==
  ASSUME EntriesOK, Advance
  PROVE  /\ item \in 1 .. Len(slots) /\ Entry \in Known /\ Entry.kind \in StatementKind
         /\ Entry.value \in Nat /\ Entry.value \in Int
<1>1. item \in 1 .. Len(slots)
  BY DEF EntriesOK, Advance, Tuple
<1>2. Entry \in Known
  BY <1>1 DEF EntriesOK, Entry
<1>3. Entry.kind \in StatementKind /\ Entry.value \in Nat
  BY <1>2, KnownIs
<1> QED BY <1>1, <1>2, <1>3

\* One entry has been met here.
LEMMA Advances ==
  ASSUME EntriesOK, OutputOK, Advance, UNCHANGED <<slots, phase>>
  PROVE  EntriesOK' /\ item' = item + 1 /\ item \in 1 .. Len(slots) /\ place'[item] = index
         /\ \A i \in 1 .. item - 1 : place'[i] = place[i]
<1>1. PICK n : n = Len(slots)
  OBVIOUS
<1>2. n \in Nat /\ item \in 1 .. n /\ item' = item + 1 /\ phase = "emit" /\ index \in Address
      /\ Len(slots') = n
  BY <1>1 DEF EntriesOK, Advance, Tuple, OutputOK
<1>3. /\ Tuple(place', (item - 1) + 1) /\ place'[(item - 1) + 1] = index
      /\ \A i \in 1 .. item - 1 : place'[i] = place[i]
  <2>1. PICK k, c : k = item - 1 /\ c = place'
    OBVIOUS
  <2>2. Tuple(place, k) /\ IsAppend(c, place, index)
    BY <2>1 DEF EntriesOK, Advance, IsAppend
  <2>3. Appends(c, place, k, index)
    BY <2>2, TupleAppend
  <2> QED BY <2>1, <2>3 DEF Appends
<1>4. (item - 1) + 1 = item /\ item' - 1 = item /\ \A i \in 1 .. item : i \in 1 .. item - 1 \/ i = item
  BY <1>2
<1>5. \A i \in 1 .. item' - 1 : place'[i] \in Address
  BY <1>2, <1>3, <1>4 DEF EntriesOK
<1>6. item' \in 1 .. Len(slots') + 1
  BY <1>2
<1>7. Tuple(place', item' - 1)
  BY <1>3, <1>4
<1>8. Tuple(slots', Len(slots')) /\ \A i \in 1 .. Len(slots') : slots'[i].statement \in Known
  BY <1>2, <1>1 DEF EntriesOK
<1> QED BY <1>2, <1>3, <1>4, <1>5, <1>6, <1>7, <1>8 DEF EntriesOK

-----------------------------------------------------------------------------
(***************************************************************************)
(* Which entry wrote what.                                                 *)
(***************************************************************************)
\* What an entry is does not change once the program is read.
LEMMA BytesStay ==
  ASSUME UNCHANGED labels
  PROVE  \A slot : Bytes(slot)' = Bytes(slot)
<1>1. \A name : Definitions(name)' = Definitions(name)
  BY DEF Definitions
<1>2. \A name : Value(name)' = Value(name)
  BY <1>1 DEF Value
<1>3. \A slot, t : Target(slot, t)' = Target(slot, t)
  BY <1>2 DEF Target
<1>4. \A slot, m, t : ArgumentBytes(slot, m, t)' = ArgumentBytes(slot, m, t)
  BY <1>3 DEF ArgumentBytes
<1>5. \A slot : InstructionBytes(slot)' = InstructionBytes(slot)
  BY <1>4 DEF InstructionBytes
<1> QED BY <1>2, <1>5 DEF Bytes

\* Entry i has byte b for address a, which it does not drop.
Wrote(i, a, b) ==
  /\ IsItem(i) /\ (Padding \/ ~Dropped(i))
  /\ \E k \in 1 .. Len(Bytes(slots[i])) : a = Wrap(place[i] + k - 1) /\ b = Bytes(slots[i])[k]
Claims(i, a) == \E b : Wrote(i, a, b)

LEMMA WroteStays ==
  ASSUME UNCHANGED <<options, slots, labels>>, NEW i, place'[i] = place[i]
  PROVE  /\ \A a, b : Wrote(i, a, b)' <=> Wrote(i, a, b)
         /\ \A a : Claims(i, a)' <=> Claims(i, a)
<1>1. Bytes(slots[i])' = Bytes(slots[i])
  <2>1. PICK slot : slot = slots[i]
    OBVIOUS
  <2>2. Bytes(slot)' = Bytes(slot)
    BY BytesStay
  <2> QED BY <2>1, <2>2
<1>2. \A a, b : Wrote(i, a, b)' <=> Wrote(i, a, b)
  BY <1>1 DEF Wrote, IsItem, Dropped, Kind, Padding
<1> QED BY <1>2 DEF Claims

-----------------------------------------------------------------------------
(***************************************************************************)
(* What the image has of every entry that was written.                     *)
(***************************************************************************)
\* Every byte of the image is one that its entry wrote there.
FromAnItem ==
  \A a \in DOMAIN image :
    /\ image[a].from \in 1 .. item - 1
    /\ Wrote(image[a].from, a, image[a].byte)

\* What was written is there, unless it is beyond what is padded.
AllThere ==
  \A i \in 1 .. item - 1 : \A a :
    Claims(i, a) => a \in DOMAIN image \/ (Padding /\ a > SEGMENT_CODE_END)

InSegment == Padding => \A a \in DOMAIN image : a <= SEGMENT_CODE_END

\* Of two entries that claim a byte the options say which has it.
OverlapsKept ==
  \A a \in DOMAIN image : \A i \in 1 .. item - 1 : Claims(i, a) =>
    /\ Refusing /\ error = 0 => i = image[a].from
    /\ ~Refusing /\ Replacing => i <= image[a].from
    /\ ~Refusing /\ ~Replacing => image[a].from <= i

NotRefused == phase = "image" /\ Refusing => error = 0

ImageInv == FromAnItem /\ AllThere /\ InSegment /\ OverlapsKept /\ NotRefused

\* An entry that writes nothing.
LEMMA NothingWritten ==
  ASSUME AsmType, ImageInv, Advance, UNCHANGED <<options, slots, labels, phase, image>>,
         error' = error \/ error' = 1,
         ~IsItem(item) \/ (~Padding /\ index > SEGMENT_CODE_END)
  PROVE  ImageInv'
<1>0. PICK j : j = item
  OBVIOUS
<1>1. /\ item' = item + 1 /\ item \in 1 .. Len(slots) /\ j = item /\ place'[j] = index
      /\ \A i \in 1 .. item - 1 : place'[i] = place[i]
  BY <1>0, Advances DEF AsmType
<1>2. \A i \in 1 .. item' - 1 : i \in 1 .. item - 1 \/ i = j
  BY <1>1 DEF AsmType, EntriesOK, Tuple
<1>3. 1 .. item - 1 \subseteq 1 .. item' - 1
  BY <1>1 DEF AsmType, EntriesOK, Tuple
<1>4. \A i \in 1 .. item - 1 : /\ \A a, b : Wrote(i, a, b)' <=> Wrote(i, a, b)
                               /\ \A a : Claims(i, a)' <=> Claims(i, a)
  BY <1>1, WroteStays
<1>5. \A a : ~Claims(j, a)'
  <2>1. ~IsItem(j)' \/ (~Padding' /\ Dropped(j)')
    BY <1>1 DEF IsItem, Dropped, Padding, Kind
  <2> QED BY <2>1 DEF Claims, Wrote
<1>6. Padding' = Padding /\ Refusing' = Refusing /\ Replacing' = Replacing
      /\ image' = image /\ (error' = 0 => error = 0) /\ phase # "image" /\ phase' = phase
  BY DEF Padding, Refusing, Replacing, AsmType, OutputOK, Advance
<1>7. FromAnItem'
  BY <1>3, <1>4, <1>6 DEF ImageInv, FromAnItem
<1>8. AllThere'
  BY <1>2, <1>4, <1>5, <1>6 DEF ImageInv, AllThere
<1>9. InSegment'
  BY <1>6 DEF ImageInv, InSegment
<1>10. OverlapsKept'
  BY <1>2, <1>4, <1>5, <1>6 DEF ImageInv, OverlapsKept
<1>11. NotRefused'
  BY <1>6 DEF NotRefused
<1> QED BY <1>7, <1>8, <1>9, <1>10, <1>11 DEF ImageInv

\* Where the bytes of the entry go, and what it leads to.
LEMMA WriteIs ==
  ASSUME AsmType, Write
  PROVE  \E bytes, n, w :
           /\ bytes = Bytes(slots[item]) /\ n = Len(bytes) /\ n \in Nat /\ w = Written(bytes)
           /\ Sofar(bytes, n, w) /\ image' = w.image /\ error' = w.error
           /\ w.index = Wrap(index + n) /\ w.index \in Address
<1>1. PICK slot, bytes, n, w : slot = slots[item] /\ bytes = Bytes(slot) /\ n = Len(bytes)
                               /\ w = Written(bytes)
  OBVIOUS
<1>2. slot.statement \in Known
      /\ slot.statement.kind \in {"INSTRUCTION", "DW", "DB", "DEREF", "INCBIN"}
  <2>1. Advance
    BY DEF Write
  <2>2. Entry \in Known
    BY <2>1, EntryKnown DEF AsmType
  <2> QED BY <1>1, <2>2 DEF Write, Entry
<1>3. n \in Nat
  BY <1>1, <1>2, BytesFinite
<1>4. Sofar(bytes, n, w)
  BY <1>1, <1>3, AllWritten DEF AsmType, OutputOK
<1>5. image' = w.image /\ error' = w.error
  BY <1>1 DEF Write
<1>6. w.index = Wrap(index + n)
  <2>1. w = Cursor(Wrap(index + n), w.image, w.error)
    BY <1>4 DEF Sofar
  <2>2. PICK j, m, e : j = Wrap(index + n) /\ m = w.image /\ e = w.error
    OBVIOUS
  <2>3. w = Cursor(j, m, e)
    BY <2>1, <2>2
  <2> QED BY <2>2, <2>3 DEF Cursor
<1>7. Wrap(index + n) \in Address
  <2>1. index + n \in Int
    BY <1>3, Places DEF AsmType, OutputOK
  <2> QED BY <2>1, Places
<1> QED BY <1>1, <1>3, <1>4, <1>5, <1>6, <1>7

\* An entry that is written.
LEMMA ItemWritten ==
  ASSUME AsmType, ImageInv, Write
  PROVE  ImageInv'
<1>0. PICK j : j = item
  OBVIOUS
<1>1. /\ Advance /\ UNCHANGED <<options, slots, labels, phase>> /\ IsItem(item)
      /\ (Padding \/ ~(index > SEGMENT_CODE_END))
  BY DEF Write, Entry, IsItem, Kind, parseVars, Padding, Outside
<1>2. /\ item' = item + 1 /\ item \in 1 .. Len(slots) /\ j = item /\ place'[j] = index
      /\ \A i \in 1 .. item - 1 : place'[i] = place[i]
  BY <1>0, <1>1, Advances DEF AsmType
<1>3. /\ \A i \in 1 .. item' - 1 : i \in 1 .. item - 1 \/ i = j
      /\ 1 .. item - 1 \subseteq 1 .. item' - 1 /\ j \in 1 .. item' - 1
      /\ \A i \in 1 .. item - 1 : i <= j /\ i # j /\ i \in Int
      /\ j \in Int
  BY <1>2 DEF AsmType, EntriesOK, Tuple
<1>4. \A i \in 1 .. item - 1 : /\ \A a, b : Wrote(i, a, b)' <=> Wrote(i, a, b)
                               /\ \A a : Claims(i, a)' <=> Claims(i, a)
  BY <1>1, <1>2, WroteStays
<1>5. PICK bytes, n, w :
           /\ bytes = Bytes(slots[item]) /\ n = Len(bytes) /\ n \in Nat
           /\ Sofar(bytes, n, w) /\ image' = w.image /\ error' = w.error
  BY WriteIs
<1>6. Padding' = Padding /\ Refusing' = Refusing /\ Replacing' = Replacing
      /\ phase # "image" /\ phase' = phase
  BY <1>1 DEF Padding, Refusing, Replacing, Advance
<1>7. \A a, b : Wrote(j, a, b)' <=> \E k \in 1 .. n : a = To(k) /\ b = bytes[k]
  <2>1. Bytes(slots[j])' = bytes
    <3>1. PICK slot : slot = slots[j]
      OBVIOUS
    <3>2. Bytes(slot)' = Bytes(slot)
      BY <1>1, BytesStay
    <3> QED BY <1>1, <1>2, <1>5, <3>1, <3>2
  <2>2. IsItem(j)' /\ (Padding' \/ ~Dropped(j)')
    BY <1>1, <1>2 DEF IsItem, Kind, Dropped, Padding
  <2> QED BY <1>2, <1>5, <2>1, <2>2 DEF Wrote, To
<1>8. \A a : Claims(j, a)' <=> \E k \in 1 .. n : a = To(k)
  BY <1>7 DEF Claims
<1>9. /\ DOMAIN image \subseteq DOMAIN image'
      /\ error' = 0 => error = 0
      /\ \A a \in DOMAIN image' :
         \/ a \in DOMAIN image /\ image'[a] = image[a]
         \/ \E k \in 1 .. n : a = To(k) /\ image'[a] = [byte |-> bytes[k], from |-> j]
  BY <1>2, <1>5 DEF Sofar, AsmType, OutputOK
<1>10. \A a \in DOMAIN image' :
         \/ a \in DOMAIN image /\ image'[a] = image[a]
         \/ /\ \E k \in 1 .. n : a = To(k) /\ image'[a].byte = bytes[k]
            /\ image'[a].from = j
  BY <1>9
<1>11. FromAnItem'
  <2>1. ASSUME NEW a \in DOMAIN image', NEW i, i = image'[a].from, NEW b, b = image'[a].byte
        PROVE  i \in 1 .. item' - 1 /\ Wrote(i, a, b)'
    <3>1. CASE a \in DOMAIN image /\ image'[a] = image[a]
      <4>1. i \in 1 .. item - 1 /\ Wrote(i, a, b)
        BY <2>1, <3>1 DEF ImageInv, FromAnItem
      <4> QED BY <1>3, <1>4, <4>1
    <3>2. CASE /\ \E k \in 1 .. n : a = To(k) /\ image'[a].byte = bytes[k]
               /\ image'[a].from = j
      <4>1. i = j /\ Wrote(j, a, b)'
        BY <1>7, <2>1, <3>2
      <4> QED BY <1>3, <4>1
    <3> QED BY <1>10, <3>1, <3>2
  <2> QED BY <2>1 DEF FromAnItem
<1>12. AllThere'
  <2> SUFFICES ASSUME NEW i \in 1 .. item' - 1, NEW a, Claims(i, a)'
               PROVE  a \in DOMAIN image' \/ (Padding /\ a > SEGMENT_CODE_END)
    BY <1>6 DEF AllThere
  <2>1. CASE i \in 1 .. item - 1
    BY <1>4, <1>9, <2>1 DEF ImageInv, AllThere
  <2>2. CASE i = j
    <3>1. PICK k \in 1 .. n : a = To(k)
      BY <1>8, <2>2
    <3> QED BY <1>5, <3>1 DEF Sofar
  <2> QED BY <1>3, <2>1, <2>2
<1>13. InSegment'
  BY <1>5, <1>6 DEF Sofar, ImageInv, InSegment
<1>14. OverlapsKept'
  <2> SUFFICES ASSUME NEW a \in DOMAIN image', NEW i \in 1 .. item' - 1, Claims(i, a)'
               PROVE  /\ Refusing /\ error' = 0 => i = image'[a].from
                      /\ ~Refusing /\ Replacing => i <= image'[a].from
                      /\ ~Refusing /\ ~Replacing => image'[a].from <= i
    BY <1>6 DEF OverlapsKept
  <2>1. CASE i \in 1 .. item - 1 /\ a \in DOMAIN image /\ image'[a] = image[a]
    BY <1>4, <1>9, <2>1 DEF ImageInv, OverlapsKept
  <2>2. CASE i \in 1 .. item - 1 /\ image'[a].from = j
    <3>1. PICK q : q = image'[a].from
      OBVIOUS
    <3>2. Claims(i, a)
      BY <1>4, <2>2
    <3>3. a \in DOMAIN image \/ (Padding /\ a > SEGMENT_CODE_END)
      BY <2>2, <3>2 DEF ImageInv, AllThere
    <3>4. a \in DOMAIN image
      <4>1. a \in Int /\ SEGMENT_CODE_END \in Int
        BY <1>5, Places DEF Sofar, ImageType
      <4> QED BY <1>5, <3>3, <4>1 DEF Sofar
    <3>5. Refusing \/ ~Replacing => image'[a] = image[a]
      BY <1>5, <3>4 DEF Sofar
    <3>6. image[a].from \in 1 .. item - 1
      BY <3>4 DEF ImageInv, FromAnItem
    <3>7. ~Refusing /\ Replacing
      BY <1>3, <2>2, <3>5, <3>6
    <3> QED BY <1>3, <2>2, <3>7
  <2>3. CASE i = j
    <3>1. PICK k \in 1 .. n : a = To(k)
      BY <1>8, <2>3
    <3>2. ~Refusing /\ Replacing => image'[a].from = j
      BY <1>2, <1>5, <3>1 DEF Sofar
    <3>3. Refusing /\ error' = 0 => a \notin DOMAIN image
      BY <1>5, <3>1 DEF Sofar
    <3>4. Refusing /\ error' = 0 => image'[a].from = j
      BY <1>10, <3>3
    <3>5. image'[a].from \in 1 .. item - 1 \/ image'[a].from = j
      BY <1>10 DEF ImageInv, FromAnItem
    <3> QED BY <1>3, <2>3, <3>2, <3>4, <3>5
  <2> QED BY <1>3, <1>10, <2>1, <2>2, <2>3
<1>15. NotRefused'
  BY <1>6 DEF NotRefused
<1> QED BY <1>11, <1>12, <1>13, <1>14, <1>15 DEF ImageInv

-----------------------------------------------------------------------------
(***************************************************************************)
(* The invariant is kept by every step.                                    *)
(***************************************************************************)
\* What holds between any two steps.
AsmInv == AsmType /\ ImageInv

LEMMA ImageStays ==
  ASSUME ImageInv, UNCHANGED <<options, slots, labels, item, place, image, error>>
  PROVE  (FromAnItem /\ AllThere /\ InSegment /\ OverlapsKept)'
<1>1. \A i : /\ \A a, b : Wrote(i, a, b)' <=> Wrote(i, a, b)
             /\ \A a : Claims(i, a)' <=> Claims(i, a)
  BY WroteStays
<1>2. Padding' = Padding /\ Refusing' = Refusing /\ Replacing' = Replacing
  BY DEF Padding, Refusing, Replacing
<1>3. FromAnItem'
  BY <1>1 DEF ImageInv, FromAnItem
<1>4. AllThere'
  BY <1>1, <1>2 DEF ImageInv, AllThere
<1>5. InSegment'
  BY <1>2 DEF ImageInv, InSegment
<1>6. OverlapsKept'
  BY <1>1, <1>2 DEF ImageInv, OverlapsKept
<1> QED BY <1>3, <1>4, <1>5, <1>6

\* The assembler ends, or goes on to the next pass.
LEMMA StopKeeps ==
  ASSUME AsmInv, NEW how, Stop(how), how # "parse",
         how = "image" => item = Len(slots) + 1 /\ (Refusing => error = 0)
  PROVE  AsmInv'
<1>1. UNCHANGED <<options, slots, labels, item, place, image, error>> /\ phase' = how
      /\ UNCHANGED <<index, stashed_address, binary_size>>
  BY DEF Stop, parseVars, emitVars
<1>2. EntriesOK'
  BY <1>1 DEF AsmInv, AsmType, EntriesOK
<1>3. OutputOK'
  BY <1>1 DEF AsmInv, AsmType, OutputOK
<1>4. NotRefused'
  BY <1>1 DEF NotRefused, Refusing
<1>5. (FromAnItem /\ AllThere /\ InSegment /\ OverlapsKept)'
  BY <1>1, ImageStays DEF AsmInv
<1> QED BY <1>2, <1>3, <1>4, <1>5 DEF AsmInv, AsmType, ImageInv

\* A statement that does not end the assembler is followed by others.
LEMMA StatementGoesOn ==
  ASSUME NEW s \in Statements \cup Remaining, Statement(s), ~(\E how \in {"null", "exit"} : Stop(how))
  PROVE  phase' = phase
<1>1. s \in Known /\ s.kind \in StatementKind
  BY SourcesKnown, KnownIs
<1>2. CASE s.kind = "LABEL"
  BY <1>2 DEF Statement, Label
<1>3. CASE s.kind = "ADDRESS"
  BY <1>3 DEF Statement, SetAddress
<1>4. CASE s.kind = "PAD"
  BY <1>4 DEF Statement, Pad
<1>5. CASE s.kind = "RESERVE"
  BY <1>5 DEF Statement, Reserve
<1>6. CASE s.kind = "TEXT"
  BY <1>6 DEF Statement, Text
<1>7. CASE s.kind = "INSTRUCTION"
  BY <1>7 DEF Statement, Instruct
<1>8. CASE s.kind \in {"STORE_ADDRESS", "RESTORE_ADDRESS"}
  BY <1>8 DEF Statement, StoreOrRestore
<1>9. CASE s.kind \in {"SEGMENT_CODE", "SEGMENT_DATA"}
  BY <1>9 DEF Statement, Segment
<1>10. CASE s.kind \in {"DW", "DB", "DEREF", "INCBIN"}
  BY <1>10 DEF Statement, Data
<1> QED BY <1>1, <1>2, <1>3, <1>4, <1>5, <1>6, <1>7, <1>8, <1>9, <1>10 DEF StatementKind

LEMMA ParseKeeps ==
  ASSUME AsmInv, Parse
  PROVE  AsmInv'
<1>1. PICK s \in Statements \cup Remaining : IF Breach THEN Stop("null") ELSE Statement(s)
  BY DEF Parse
<1>2. CASE \E how \in {"null", "exit"} : Stop(how)
  BY <1>2, StopKeeps
<1>3. CASE Statement(s) /\ phase' = phase
  <2>1. Grown /\ UNCHANGED emitVars
    BY <1>3, ParseGrows DEF Parse, AsmInv, AsmType
  <2>2. phase = "parse" /\ item = 1 /\ image = <<>> /\ item' = 1 /\ image' = <<>>
        /\ phase' = "parse" /\ Tuple(place, 0) /\ place' = place
    BY <2>1 DEF Grown, emitVars, AsmInv, AsmType, EntriesOK
  <2>3. PICK n : n = Len(slots') /\ n \in Nat
    BY <2>1 DEF Grown, Tuple
  <2>4. item' \in 1 .. Len(slots') + 1 /\ Tuple(place', item' - 1)
    BY <2>2, <2>3
  <2>5. EntriesOK'
    BY <2>1, <2>2, <2>4 DEF EntriesOK, Grown
  <2>6. OutputOK'
    BY <2>1 DEF emitVars, AsmInv, AsmType, OutputOK
  <2>7. DOMAIN image' = {} /\ 1 .. item' - 1 = {} /\ phase' # "image"
    BY <2>2
  <2>8. ImageInv'
    BY <2>7 DEF ImageInv, FromAnItem, AllThere, InSegment, OverlapsKept, NotRefused
  <2> QED BY <2>5, <2>6, <2>8 DEF AsmInv, AsmType
<1> QED BY <1>1, <1>2, <1>3, StatementGoesOn

\* An entry that only moves the place to write at.
LEMMA MovesKeep ==
  ASSUME AsmInv, Advance, Entry.kind \notin {"INSTRUCTION", "DW", "DB", "DEREF", "INCBIN"},
         UNCHANGED <<options, phase, slots, labels, image>>, error' = error \/ error' = 1,
         index' \in Address, binary_size' \in Nat, stashed_address' \in Address
  PROVE  AsmInv'
<1>1. EntriesOK'
  BY Advances DEF AsmInv, AsmType
<1>2. OutputOK'
  BY DEF AsmInv, AsmType, OutputOK
<1>3. ~IsItem(item)
  BY DEF IsItem, Kind, Entry
<1>4. ImageInv'
  BY <1>3, NothingWritten DEF AsmInv
<1> QED BY <1>1, <1>2, <1>4 DEF AsmInv, AsmType

LEMMA AsmNext == AsmInv /\ [Next]_asmVars => AsmInv'
<1> SUFFICES ASSUME AsmInv, [Next]_asmVars
             PROVE  AsmInv'
  OBVIOUS
<1> USE DEF AsmInv
<1>1. AsmType /\ EntriesOK /\ OutputOK /\ index \in Address /\ index \in Int
      /\ stashed_address \in Address /\ error \in {0, 1} /\ binary_size \in Nat
  BY Places DEF AsmType, OutputOK
<1>2. CASE Parse
  BY <1>2, ParseKeeps
<1>3. CASE Resolve
  <2>1. PICK how \in {"emit", "exit"} : Stop(how)
    BY <1>3 DEF Resolve, Stop
  <2> QED BY <2>1, StopKeeps
<1>4. CASE ChangeAddress
  <2>1. Advance /\ Entry.value \in Int
    BY <1>1, <1>4, EntryKnown DEF ChangeAddress
  <2>2. PICK i \in Address : Reach(i)
    <3>1. Wrap(Entry.value) \in Address /\ Wrap(index + Entry.value) \in Address
      <4>1. index + Entry.value \in Int
        BY <1>1, <2>1
      <4> QED BY <2>1, <4>1, Places
    <3> QED BY <1>4, <3>1 DEF ChangeAddress
  <2>3. index' \in Address /\ binary_size' \in Nat
    BY <1>1, <2>2, Reaching
  <2> QED BY <1>1, <1>4, <2>1, <2>3, MovesKeep DEF ChangeAddress, parseVars
<1>5. CASE PadAddress
  <2>1. Advance /\ Entry.value \in Nat
    BY <1>1, <1>5, EntryKnown DEF PadAddress
  <2>2. Padded(index, Entry.value) \in Address
    <3>1. PICK v \in Nat \ {0} : v = Entry.value
      <4>1. PICK i \in 0 .. WIDTH - 1 : Entry.value = 2 ^ i
        BY <1>5 DEF PadAddress, IsPowerOf2
      <4>2. i \in 0 .. 2 * WIDTH
        BY WidthAssumption
      <4> QED BY <4>1, <4>2, Powers
    <3>2. (index - 1) \div v \in Int
      BY <1>1
    <3>3. ((index - 1) \div v) * v + v \in Int
      BY <3>2
    <3>4. Wrap(((index - 1) \div v) * v + v) \in Address
      BY <3>3, Places
    <3> QED BY <3>1, <3>4 DEF Padded
  <2>3. PICK i \in Address : Reach(i)
    BY <1>5, <2>2 DEF PadAddress
  <2>4. index' \in Address /\ binary_size' \in Nat
    BY <1>1, <2>3, Reaching
  <2> QED BY <1>1, <1>5, <2>1, <2>4, MovesKeep DEF PadAddress, parseVars
<1>6. CASE StoreAddress
  <2>1. index' \in Address /\ binary_size' \in Nat /\ Advance
    BY <1>1, <1>6, Reaching DEF StoreAddress
  <2>2. error' = error \/ error' = 1
    BY <1>6 DEF StoreAddress
  <2> QED BY <1>1, <1>6, <2>1, <2>2, MovesKeep DEF StoreAddress, parseVars
<1>7. CASE RestoreAddress
  <2>1. index' \in Address /\ binary_size' \in Nat /\ Advance
    BY <1>1, <1>7, Reaching DEF RestoreAddress
  <2> QED BY <1>1, <1>7, <2>1, MovesKeep DEF RestoreAddress, parseVars
<1>8. CASE Skip
  <2>1. Advance /\ UNCHANGED <<options, phase, slots, labels, image, index, stashed_address, error>>
    BY <1>8 DEF Skip, parseVars
  <2>2. EntriesOK'
    BY <1>1, <2>1, Advances
  <2>3. index \in Nat /\ binary_size' \in Nat
    BY <1>1, <1>8 DEF Skip, Address
  <2>4. OutputOK'
    BY <1>1, <2>1, <2>3 DEF OutputOK
  <2>5. ~IsItem(item) \/ (~Padding /\ index > SEGMENT_CODE_END)
    BY <1>8 DEF Skip, Outside, IsItem, Kind, Entry, Padding
  <2>6. ImageInv'
    BY <1>1, <2>1, <2>5, NothingWritten
  <2> QED BY <2>2, <2>4, <2>6 DEF AsmType
<1>9. CASE Write
  <2>1. Advance /\ UNCHANGED <<options, phase, slots, labels, stashed_address>>
    BY <1>9 DEF Write, parseVars
  <2>2. EntriesOK'
    BY <1>1, <2>1, Advances
  <2>3. PICK bytes, n, w : /\ bytes = Bytes(slots[item]) /\ n = Len(bytes) /\ n \in Nat /\ w = Written(bytes)
                           /\ Sofar(bytes, n, w) /\ image' = w.image /\ error' = w.error
                           /\ w.index = Wrap(index + n) /\ w.index \in Address
    BY <1>1, <1>9, WriteIs
  <2>4. index' = w.index /\ binary_size' \in Nat
    <3>1. CASE Reach(w.index)
      BY <1>1, <2>3, <3>1, Reaching
    <3>2. CASE index' = w.index /\ binary_size' = ADDRESS_SPACE - 1
      BY <3>2, Places
    <3>3. Reach(w.index) \/ (index' = w.index /\ binary_size' = ADDRESS_SPACE - 1)
      BY <1>9, <2>3 DEF Write
    <3> QED BY <3>1, <3>2, <3>3
  <2>5. OutputOK'
    BY <1>1, <2>1, <2>3, <2>4 DEF OutputOK, Sofar
  <2> QED BY <1>1, <1>9, <2>2, <2>5, ItemWritten DEF AsmType
<1>10. CASE BadPad
  BY <1>10, StopKeeps DEF BadPad
<1>11. CASE Finish
  <2>1. PICK how \in {"null", "image"} : Stop(how) /\ (how = "image" => ~(error = 1 /\ Refusing))
    BY <1>11 DEF Finish, Refusing
  <2>2. item = Len(slots) + 1
    BY <1>1, <1>11 DEF Finish, EntriesOK, Tuple
  <2> QED BY <1>1, <2>1, <2>2, StopKeeps
<1>12. CASE UNCHANGED asmVars
  <2>1. UNCHANGED <<options, phase, slots, labels, item, place, image, error, index, stashed_address, binary_size>>
    BY <1>12 DEF asmVars, parseVars, emitVars
  <2>2. EntriesOK'
    BY <1>1, <2>1 DEF EntriesOK
  <2>3. OutputOK'
    BY <1>1, <2>1 DEF OutputOK
  <2>4. NotRefused'
    BY <2>1 DEF ImageInv, NotRefused, Refusing
  <2>5. (FromAnItem /\ AllThere /\ InSegment /\ OverlapsKept)'
    BY <2>1, ImageStays
  <2> QED BY <2>2, <2>3, <2>4, <2>5 DEF AsmType, ImageInv
<1> QED BY <1>2, <1>3, <1>4, <1>5, <1>6, <1>7, <1>8, <1>9, <1>10, <1>11, <1>12 DEF Next

LEMMA AsmStart == Init => AsmInv
<1> SUFFICES ASSUME Init
             PROVE  AsmInv
  OBVIOUS
<1>1. DOMAIN image = {} /\ 1 .. item - 1 = {} /\ phase # "image"
  BY DEF Init
<1>2. ImageInv
  BY <1>1 DEF ImageInv, FromAnItem, AllThere, InSegment, OverlapsKept, NotRefused
<1> QED BY <1>2, AsmInit DEF AsmInv

\* Every step keeps the types and what the image has (assembler_parse_expression,
\* assembler_resolve_labels, assembler_parse_instruction).
THEOREM AsmInvariant == Spec => []AsmInv
<1>1. Init => AsmInv
  BY AsmStart
<1>2. AsmInv /\ [Next]_asmVars => AsmInv'
  BY AsmNext
<1> QED BY <1>1, <1>2, PTL DEF Spec

-----------------------------------------------------------------------------
(***************************************************************************)
(* Overlaps are decided as the options say, and the file has the image.    *)
(***************************************************************************)
\* The bytes that an entry claims are its extent.
LEMMA ClaimsExtent ==
  ASSUME AsmType, phase = "image", NEW i \in DOMAIN slots, NEW a
  PROVE  Claims(i, a) <=> IsItem(i) /\ a \in Extent(i) /\ (~Padding => ~Dropped(i))
<1>1. CASE ~IsItem(i)
  BY <1>1 DEF Claims, Wrote
<1>2. CASE IsItem(i)
  <2>1. i \in 1 .. Len(slots) /\ Len(slots) \in Nat /\ item - 1 = Len(slots)
    BY TupleSeq DEF AsmType, EntriesOK, Tuple
  <2>2. PICK slot, n, p : slot = slots[i] /\ n = Len(Bytes(slot)) /\ p = place[i]
    OBVIOUS
  <2>3. n \in Nat
    BY <1>2, <2>1, <2>2, BytesFinite DEF AsmType, EntriesOK, IsItem, Kind
  <2>4. p \in Int
    BY <2>1, <2>2, Places DEF AsmType, EntriesOK
  <2>5. (\E k \in 1 .. n : a = Wrap(p + k - 1)) <=> (\E k \in 0 .. n - 1 : a = Wrap(p + k))
    <3>1. ASSUME NEW k \in 1 .. n, a = Wrap(p + k - 1)
          PROVE  \E l \in 0 .. n - 1 : a = Wrap(p + l)
      <4>1. k - 1 \in 0 .. n - 1 /\ p + k - 1 = p + (k - 1)
        BY <2>3, <2>4
      <4> QED BY <3>1, <4>1
    <3>2. ASSUME NEW k \in 0 .. n - 1, a = Wrap(p + k)
          PROVE  \E l \in 1 .. n : a = Wrap(p + l - 1)
      <4>1. k + 1 \in 1 .. n /\ p + (k + 1) - 1 = p + k
        BY <2>3, <2>4
      <4> QED BY <3>2, <4>1
    <3> QED BY <3>1, <3>2
  <2> QED BY <1>2, <2>2, <2>5 DEF Claims, Wrote, Extent
<1> QED BY <1>1, <1>2

\* Which claim of a byte counts, by the options.
Claimed(a) ==
  /\ Refusing => Cardinality(Claimants(a)) = 1
  /\ Replacing => image[a].from = Max(Claimants(a))
  /\ ~Replacing => image[a].from = Min(Claimants(a))

LEMMA ByteDecided ==
  ASSUME AsmInv, phase = "image", NEW a \in DOMAIN image
  PROVE  Claimed(a)
<1> DEFINE claims == Claimants(a)
<1>1. DOMAIN slots = 1 .. Len(slots) /\ Len(slots) \in Nat /\ item - 1 = Len(slots)
  BY TupleSeq DEF AsmInv, AsmType, EntriesOK, Tuple
<1>2. \A i : i \in claims <=> i \in 1 .. Len(slots) /\ Claims(i, a)
  BY <1>1, ClaimsExtent DEF AsmInv, Padding, Claimants
<1> HIDE DEF claims
<1>3. PICK f : f = image[a].from
  OBVIOUS
<1>4. f \in claims /\ f \in Int /\ \A i \in claims : i \in Int
  BY <1>1, <1>2, <1>3 DEF AsmInv, ImageInv, FromAnItem, Claims
<1>5. \A i \in claims : /\ Refusing /\ error = 0 => i = f
                        /\ ~Refusing /\ Replacing => i <= f
                        /\ ~Refusing /\ ~Replacing => f <= i
  BY <1>1, <1>2, <1>3 DEF AsmInv, ImageInv, OverlapsKept
<1>6. Refusing => claims = {f}
  BY <1>4, <1>5 DEF AsmInv, ImageInv, NotRefused
<1>7. Refusing => Cardinality(claims) = 1
  BY <1>6, FS_Singleton
<1>8. Replacing => Max(claims) = f
  <2> SUFFICES ASSUME Replacing
               PROVE  Max(claims) = f
    OBVIOUS
  <2>1. \A i \in claims : f >= i
    BY <1>4, <1>5, <1>6
  <2>2. \A x \in claims : (\A y \in claims : x >= y) => x = f
    BY <1>4, <2>1
  <2> QED BY <1>4, <2>1, <2>2 DEF Max
<1>9. ~Replacing => Min(claims) = f
  <2> SUFFICES ASSUME ~Replacing
               PROVE  Min(claims) = f
    OBVIOUS
  <2>1. \A i \in claims : f <= i
    BY <1>4, <1>5, <1>6
  <2>2. \A x \in claims : (\A y \in claims : x <= y) => x = f
    BY <1>4, <2>1
  <2> QED BY <1>4, <2>1, <2>2 DEF Min
<1> QED BY <1>3, <1>7, <1>8, <1>9 DEF Claimed, claims

LEMMA Decided == AsmInv => OverlapDecided
<1> SUFFICES ASSUME AsmInv, phase = "image"
             PROVE  OverlapDecided
  BY DEF OverlapDecided
<1>1. \A a \in DOMAIN image : Claimed(a)
  BY ByteDecided
<1>2. CASE Replacing
  BY <1>1, <1>2 DEF OverlapDecided, Claimed, Refusing
<1>3. CASE ~Replacing
  BY <1>1, <1>3 DEF OverlapDecided, Claimed, Refusing
<1> QED BY <1>2, <1>3

\* Two items never share a byte unknown to the user: the image is refused, or one
\* rule says who has every byte (safe_write).
THEOREM OverlapsAreDecided == Spec => []OverlapDecided
  BY AsmInvariant, Decided, PTL

\* Nothing is written at or past the last address, and so nothing goes on at
\* address 0: what is there is not counted in the size of the file.
WritesFit == [][Write => index + Len(Bytes(slots[item])) < ADDRESS_SPACE]_asmVars

LEMMA FileStart == Init => ImageInFile
  BY DEF Init, ImageInFile

LEMMA FileNext ==
  AsmInv /\ AsmInv' /\ ImageInFile /\ [Next]_asmVars
    /\ [Write => index + Len(Bytes(slots[item])) < ADDRESS_SPACE]_asmVars => ImageInFile'
<1> SUFFICES ASSUME AsmInv, AsmInv', ImageInFile, [Next]_asmVars,
                    [Write => index + Len(Bytes(slots[item])) < ADDRESS_SPACE]_asmVars
             PROVE  ImageInFile'
  OBVIOUS
<1>1. \A a \in DOMAIN image' : "PAD_SEGMENT_BREACH_WITH_ZERO" \in options' => a <= SEGMENT_CODE_END
  BY DEF AsmInv, ImageInv, InSegment, Padding
<1>2. AsmType /\ OutputOK /\ index \in Address /\ index \in Nat /\ stashed_address \in Address
      /\ binary_size \in Nat /\ \A a \in DOMAIN image : a \in Int /\ a < binary_size
  BY Places DEF AsmInv, AsmType, OutputOK, Address, ImageType, ImageInFile
<1>3. ASSUME image' = image, binary_size' \in Nat, binary_size' >= binary_size
      PROVE  ImageInFile'
  BY <1>1, <1>2, <1>3 DEF ImageInFile
<1>4. CASE image' = image /\ binary_size' = binary_size
  BY <1>2, <1>3, <1>4
<1>5. CASE image' = image /\ \E i : Reach(i)
  <2>1. PICK i : Reach(i)
    BY <1>5
  <2>2. i \in Address
    BY <2>1 DEF Reach, AsmInv, AsmType, OutputOK
  <2> QED BY <1>2, <1>3, <1>5, <2>1, <2>2, Reaching
<1>6. CASE Write
  <2>1. PICK bytes, n, w : /\ bytes = Bytes(slots[item]) /\ n = Len(bytes) /\ n \in Nat /\ w = Written(bytes)
                           /\ Sofar(bytes, n, w) /\ image' = w.image
                           /\ w.index = Wrap(index + n) /\ w.index \in Address
    BY <1>2, <1>6, WriteIs
  <2>2. index + n < WORDS
    <3>1. item' # item
      BY <1>6 DEF Write, Advance, AsmInv, AsmType, EntriesOK
    <3> QED BY <1>6, <2>1, <3>1, Places DEF asmVars, emitVars
  <2>3. w.index = index + n
    BY <1>2, <2>1, <2>2, WrapWord, Places DEF AWord
  <2>4. Reach(w.index)
    <3>1. ~(index + n >= ADDRESS_SPACE)
      BY <1>2, <2>1, <2>2, Places
    <3> QED BY <1>6, <2>1, <3>1 DEF Write
  <2>5. binary_size' \in Nat /\ binary_size' >= index + n /\ binary_size' >= binary_size
    BY <1>2, <2>1, <2>3, <2>4, Reaching
  <2>6. ASSUME NEW k \in 1 .. n
        PROVE  To(k) = index + k - 1
    <3>1. index + k - 1 \in AWord
      BY <1>2, <2>1, <2>2, Places DEF AWord
    <3> QED BY <3>1, WrapWord DEF To
  <2>7. \A a \in DOMAIN image' : a \in DOMAIN image \/ \E k \in 1 .. n : a = index + k - 1
    <3>1. \A a \in DOMAIN image' : a \in DOMAIN image \/ \E k \in 1 .. n : a = To(k)
      BY ZenonT(60), <2>1 DEF Sofar
    <3> QED BY <2>6, <3>1
  <2>8. ASSUME NEW a \in DOMAIN image'
        PROVE  a < binary_size'
    <3>1. CASE a \in DOMAIN image
      <4>1. a \in Int /\ a < binary_size /\ binary_size \in Nat
        BY <1>2, <3>1
      <4> QED BY <2>5, <4>1
    <3>2. CASE \E k \in 1 .. n : a = index + k - 1
      <4>1. index \in Nat
        BY <1>2, Places
      <4> QED BY <2>1, <2>5, <3>2, <4>1
    <3> QED BY <2>7, <3>1, <3>2
  <2> QED BY <1>1, <2>8 DEF ImageInFile
<1>7. CASE Parse \/ Resolve \/ BadPad \/ Finish
  <2>1. Resolve \/ BadPad \/ Finish => image' = image /\ binary_size' = binary_size
    BY DEF Resolve, BadPad, Finish, Stop, emitVars
  <2>2. Parse => image' = image /\ binary_size' = binary_size
    <3> SUFFICES ASSUME Parse
                 PROVE  UNCHANGED emitVars
      BY DEF emitVars
    <3>1. PICK s \in Statements \cup Remaining : IF Breach THEN Stop("null") ELSE Statement(s)
      BY DEF Parse
    <3>2. CASE \E how : Stop(how)
      BY <3>2 DEF Stop
    <3>3. CASE Statement(s) /\ phase' = phase
      BY <3>3, ParseGrows DEF Parse, AsmInv, AsmType
    <3> QED BY <3>1, <3>2, <3>3, StatementGoesOn
  <2> QED BY <1>4, <1>7, <2>1, <2>2
<1>8. CASE Skip
  BY <1>2, <1>3, <1>8 DEF Skip
<1>9. CASE ChangeAddress \/ PadAddress \/ StoreAddress \/ RestoreAddress
  BY <1>5, <1>9 DEF ChangeAddress, PadAddress, StoreAddress, RestoreAddress
<1>10. CASE UNCHANGED asmVars
  BY <1>4, <1>10 DEF asmVars, emitVars
<1> QED BY <1>4, <1>5, <1>6, <1>7, <1>8, <1>9, <1>10 DEF Next

\* All that was written is in the file, whose size is binary_size
\* (assembler_parse_instruction), when it fits into the memory.
THEOREM FileHasImage == Spec /\ WritesFit => []ImageInFile
<1>1. Init => ImageInFile
  BY FileStart
<1>2. AsmInv /\ AsmInv' /\ ImageInFile /\ [Next]_asmVars
        /\ [Write => index + Len(Bytes(slots[item])) < ADDRESS_SPACE]_asmVars => ImageInFile'
  BY FileNext
<1>3. Spec => []AsmInv
  BY AsmInvariant
<1> QED BY <1>1, <1>2, <1>3, PTL DEF Spec, WritesFit

-----------------------------------------------------------------------------
(***************************************************************************)
(* What the processor reads where an instruction was written.              *)
(***************************************************************************)
\* The processor's copy of the instruction set has the operators of this one.
LEMMA TwinTables ==
  /\ Processor!JUMPS = JUMPS /\ Processor!REL_JUMPS = REL_JUMPS /\ Processor!CMOVES = CMOVES
  /\ Processor!FLOAT_OPS = FLOAT_OPS /\ Processor!CONVERSIONS = CONVERSIONS
  /\ Processor!INTEGER_OPS = INTEGER_OPS /\ Processor!UNARY_OPS = UNARY_OPS
BY DEF FlagTable, Processor!FlagTable, Column, Processor!Column, JUMPS, Processor!JUMPS,
       REL_JUMPS, Processor!REL_JUMPS, CMOVES, Processor!CMOVES, FLOAT_OPS,
       Processor!FLOAT_OPS, CONVERSIONS, Processor!CONVERSIONS, INTEGER_OPS,
       Processor!INTEGER_OPS, UNARY_OPS, Processor!UNARY_OPS

LEMMA TwinOperators ==
  /\ \A i : Processor!Wrap(i) = Wrap(i)
  /\ \A lo, hi : Processor!WordOf(lo, hi) = WordOf(lo, hi)
  /\ \A m : Processor!argument_count(m) = argument_count(m)
  /\ \A x : Processor!mode_bytes(x) = mode_bytes(x)
  /\ \A m, admr, admx : Processor!argument_bytes(m, admr, admx) = argument_bytes(m, admr, admx)
  /\ \A n, b : Processor!Decoded(n, b) = Decoded(n, b)
<1>1. /\ Processor!ReadArgument = ReadArgument
      /\ Processor!WriteArgument = WriteArgument
      /\ Processor!TwoArguments = TwoArguments
  BY TwinTables DEF ReadArgument, Processor!ReadArgument, WriteArgument,
       Processor!WriteArgument, TwoArguments, Processor!TwoArguments
<1>2. \A x : Processor!mode_bytes(x) = mode_bytes(x)
  BY DEF mode_bytes, Processor!mode_bytes
<1>3. /\ \A n, b : Processor!Decoded(n, b) = Decoded(n, b)
      /\ \A lo, hi : Processor!WordOf(lo, hi) = WordOf(lo, hi)
      /\ \A i : Processor!Wrap(i) = Wrap(i)
  BY DEF Decoded, Processor!Decoded, WordOf, Processor!WordOf, Wrap, Processor!Wrap,
         WORDS, Processor!WORDS
<1> QED BY <1>1, <1>2, <1>3
    DEF argument_count, Processor!argument_count, single_operant_writeback,
        Processor!single_operant_writeback, argument_bytes, Processor!argument_bytes

\* So many prefixes and then another opcode.
LEMMA Prefixed ==
  ASSUME NEW st, NEW n \in Nat, n < Len(Opcode),
         \A k \in 0 .. n - 1 : Processor!IsPrefix(st, k), ~Processor!IsPrefix(st, n)
  PROVE  Processor!Prefixes(st) = n
<1>1. Len(Opcode) \in Nat
  BY EncodingAssumption
<1>2. \A m \in 0 .. Len(Opcode) :
        /\ \A k \in 0 .. m - 1 : Processor!IsPrefix(st, k)
        /\ m < Len(Opcode) => ~Processor!IsPrefix(st, m)
        => m = n
  <2> SUFFICES ASSUME NEW m \in 0 .. Len(Opcode),
                      \A k \in 0 .. m - 1 : Processor!IsPrefix(st, k),
                      m < Len(Opcode) => ~Processor!IsPrefix(st, m)
               PROVE  m = n
    OBVIOUS
  <2>1. ~(n < m)
    BY <1>1
  <2>2. ~(m < n)
    BY <1>1
  <2> QED BY <1>1, <2>1, <2>2
<1>3. n \in 0 .. Len(Opcode)
  BY <1>1
<1> QED BY <1>2, <1>3 DEF Processor!Prefixes

\* The bytes are in memory from the program counter on.
InMemory(st, b, n) == \A k \in 1 .. n : st.mem[Wrap(st.pc + k - 1)] = b[k]

\* A whole instruction is in the memory that its image is loaded into.
LEMMA WholeLoaded ==
  ASSUME AsmInv, phase = "image", NEW i \in DOMAIN slots, Whole(i), NEW b, b = Bytes(slots[i]),
         NEW n, n = Len(b), n \in Nat, n <= WORDS, NEW st, st = Loaded(i)
  PROVE  st.pc = place[i] /\ place[i] \in Address /\ InMemory(st, b, n)
<1>1. i \in 1 .. item - 1 /\ place[i] \in Address /\ place[i] \in Int
  <2>1. DOMAIN slots = 1 .. Len(slots) /\ item - 1 = Len(slots)
    BY TupleSeq DEF AsmInv, AsmType, EntriesOK, Tuple
  <2> QED BY <2>1, Places DEF AsmInv, AsmType, EntriesOK
<1>2. st.pc = place[i] /\ st.mem = [a \in Address |-> IF a \in DOMAIN image THEN image[a].byte ELSE 0]
  BY DEF Loaded
<1>3. ASSUME NEW k \in 1 .. n
      PROVE  st.mem[Wrap(st.pc + k - 1)] = b[k]
  <2>1. PICK a, p : a = Wrap(p + (k - 1)) /\ p = place[i]
    OBVIOUS
  <2>2. k - 1 \in 0 .. n - 1 /\ k - 1 \in 0 .. WORDS - 1 /\ p + (k - 1) = st.pc + k - 1
        /\ p + (k - 1) \in Int
    BY <1>1, <1>2, <2>1, Places
  <2>3. a \in Extent(i) /\ a \in Address
    BY <2>1, <2>2, Places DEF Extent
  <2>4. a \in DOMAIN image /\ image[a].from = i
    BY <2>3 DEF Whole
  <2>5. Wrote(i, a, image[a].byte)
    BY <2>4 DEF AsmInv, ImageInv, FromAnItem
  <2>6. PICK l \in 1 .. n : a = Wrap(p + l - 1) /\ image[a].byte = b[l]
    BY <2>1, <2>5 DEF Wrote
  <2>7. l - 1 \in 0 .. WORDS - 1 /\ p + l - 1 = p + (l - 1)
    BY <1>1, <2>1, Places
  <2>8. k - 1 = l - 1
    BY <1>1, <2>1, <2>2, <2>6, <2>7, FarApart
  <2>9. k = l
    BY <2>8
  <2>10. st.mem[a] = image[a].byte
    BY <1>2, <2>3, <2>4
  <2> QED BY <2>1, <2>2, <2>6, <2>9, <2>10
<1> QED BY <1>1, <1>2, <1>3 DEF InMemory

\* A word is its two bytes.
LEMMA Halved == \A w \in AWord : WordOf(Low(w), High(w)) = w
<1>1. PICK r \in Nat : r = BYTE_RANGE /\ r > 1
  BY WordAssumption, EncodingAssumption
<1>2. \A w \in Nat : w = (w % r) + r * (w \div r)
  BY <1>1
<1>3. \A w \in AWord : w \in Nat
  BY Places DEF AWord
<1> QED BY <1>1, <1>2, <1>3 DEF WordOf, Low, High

\* The prefixes that the processor counts are those that were written.
LEMMA PrefixesRead ==
  ASSUME NEW slot, NEW s, Encodable(s), NEW p, NEW x, NEW r, NEW b, NEW n, Laid(slot, s, p, x, r, b),
         NEW st, st.pc \in Int, InMemory(st, b, n), p <= n, n \in Nat
  PROVE  Processor!Prefixes(st) = p - 1
<1>1. p \in 1 .. Len(Opcode) /\ p \in Nat /\ Len(Opcode) \in Nat /\ p - 1 \in Nat /\ p - 1 < Len(Opcode)
  <2>1. p \in 1 .. Len(Opcode) /\ p \in Nat /\ Len(Opcode) \in Nat
    BY DEF Laid
  <2> QED BY <2>1
<1>2. ASSUME NEW k \in 0 .. p - 1
      PROVE  st.mem[Wrap(st.pc + k)] = b[k + 1]
  <2>1. k + 1 \in 1 .. n /\ st.pc + (k + 1) - 1 = st.pc + k
    BY <1>1
  <2> QED BY <2>1 DEF InMemory
<1>3. ASSUME NEW k \in 0 .. (p - 1) - 1
      PROVE  Processor!IsPrefix(st, k)
  <2>1. k \in 0 .. p - 1 /\ k + 1 \in 1 .. p - 1
    BY <1>1
  <2>2. Opcode[1][b[k + 1]] = "EXT"
    BY <2>1 DEF Laid
  <2> QED BY <1>2, <2>1, <2>2, TwinOperators DEF Processor!IsPrefix
<1>4. ~Processor!IsPrefix(st, p - 1)
  <2>1. p - 1 \in 0 .. p - 1 /\ (p - 1) + 1 = p
    BY <1>1
  <2>2. st.mem[Wrap(st.pc + (p - 1))] = b[p]
    BY <1>2, <2>1
  <2>3. b[p] \in BYTE /\ Opcode[p][b[p]] \notin {"EXT", "ILLEGAL"} /\ p \in DOMAIN Opcode
    <3>1. b[p] \in BYTE /\ Opcode[p][b[p]] = s.op
      BY DEF Laid
    <3>2. s.op \notin {"EXT", "ILLEGAL"}
      BY DEF Encodable
    <3>3. DOMAIN Opcode = 1 .. Len(Opcode)
      BY EncodingAssumption
    <3> QED BY <1>1, <3>1, <3>2, <3>3
  <2>4. Opcode[1][b[p]] # "EXT"
    BY <2>3, AssemblerAssumption
  <2> QED BY <2>2, <2>4, TwinOperators DEF Processor!IsPrefix
<1> QED BY <1>1, <1>3, <1>4, Prefixed

\* The parts of the instruction that the processor reads.
LEMMA PartsRead ==
  ASSUME NEW st, NEW q, q = Processor!Prefixes(st)
  PROVE  LET code == st.mem[Wrap(st.pc + q)]
             m    == Decoded(q, code)
             modes == AddressingMode[st.mem[Wrap(st.pc + q + 1)]]
             args == st.pc + q + 2
         IN /\ Processor!Instruction(st).m = m
            /\ Processor!Instruction(st).admr = modes.admr
            /\ Processor!Instruction(st).admx = modes.admx
            /\ Processor!Instruction(st).no_cache = IF code \in NoCache THEN {"NC"} ELSE {}
            /\ Processor!Instruction(st).extended = Wrap(args)
            /\ Processor!Instruction(st).reduced = Wrap(args + mode_bytes(modes.admx))
            /\ Processor!Instruction(st).next =
                 Wrap(IF argument_count(m) = 0 THEN args - 1
                      ELSE args + argument_bytes(m, modes.admr, modes.admx))
<1> DEFINE code == st.mem[Wrap(st.pc + q)]
           m    == Decoded(q, code)
           modes == AddressingMode[st.mem[Wrap(st.pc + q + 1)]]
           args == st.pc + q + 2
           d    == [m |-> m, admr |-> modes.admr, admx |-> modes.admx,
                    no_cache |-> IF code \in NoCache THEN {"NC"} ELSE {},
                    extended |-> Wrap(args),
                    reduced |-> Wrap(args + mode_bytes(modes.admx)),
                    next |-> Wrap(IF argument_count(m) = 0 THEN args - 1
                                  ELSE args + argument_bytes(m, modes.admr, modes.admx))]
<1>1. Processor!Instruction(st) = d
  BY TwinOperators DEF Processor!Instruction
<1> HIDE DEF code, m, modes, args
<1>2. /\ d.m = m /\ d.admr = modes.admr /\ d.admx = modes.admx
      /\ d.no_cache = IF code \in NoCache THEN {"NC"} ELSE {}
      /\ d.extended = Wrap(args) /\ d.reduced = Wrap(args + mode_bytes(modes.admx))
      /\ d.next = Wrap(IF argument_count(m) = 0 THEN args - 1
                       ELSE args + argument_bytes(m, modes.admr, modes.admx))
  OBVIOUS
<1> HIDE DEF d
<1> QED BY <1>1, <1>2 DEF code, m, modes, args

\* The number at k, with its bytes in memory.
LEMMA WordRead ==
  ASSUME NEW st, st.pc \in Int, NEW k \in Nat, NEW w \in AWord,
         st.mem[Wrap(st.pc + k)] = Low(w), st.mem[Wrap(st.pc + k + 1)] = High(w),
         NEW a, a = Wrap(st.pc + k)
  PROVE  Processor!Word(st, a) = w
<1>1. Wrap(a + 1) = Wrap(st.pc + k + 1)
  <2>1. st.pc + k \in Int /\ 1 \in Int
    OBVIOUS
  <2>2. Wrap(Wrap(st.pc + k) + 1) = Wrap((st.pc + k) + 1)
    BY <2>1, WrapTwice
  <2> QED BY <2>2
<1>2. Processor!Word(st, a) = WordOf(st.mem[a], st.mem[Wrap(a + 1)])
  BY TwinOperators DEF Processor!Word
<1> QED BY <1>1, <1>2, Halved

\* d is instruction s of n bytes in slot, at the program counter of st.
DecodedAs(slot, s, d, st, n) ==
  /\ d.m = s.op /\ d.next = Wrap(st.pc + n)
  /\ (d.no_cache # {}) = s.no_cache
  /\ ~OneByte(s.op) => d.admx = s.admx /\ d.admr = s.admr
  /\ OneWord(slot, s.src) /\ mode_bytes(s.admx) > 0 =>
       Processor!Word(st, d.extended) = Meaning(slot, s.src)
  /\ OneWord(slot, s.dst) /\ mode_bytes(s.admr) > 0 =>
       Processor!Word(st, d.reduced) = Meaning(slot, s.dst)

\* What is in memory is decoded as it was written.
LEMMA Decodes ==
  ASSUME NEW slot, NEW s, Encodable(s), NEW p, NEW x, NEW r, NEW b, NEW n, Laid(slot, s, p, x, r, b),
         Tuple(b, n), NEW st, st.pc \in Int, InMemory(st, b, n), s.no_cache \in BOOLEAN,
         NEW d, d = Processor!Instruction(st)
  PROVE  DecodedAs(slot, s, d, st, n)
<1>1. /\ p \in 1 .. Len(Opcode) /\ p \in Nat /\ Len(Opcode) \in Nat
      /\ x = mode_bytes(s.admx) /\ r = mode_bytes(s.admr) /\ x \in {0, 2, 3} /\ r \in {0, 2, 3}
      /\ n \in Nat
  BY DEF Laid, Tuple
<1>2. n = IF OneByte(s.op) THEN p ELSE p + 1 + x + r
  <2>1. PICK l : l = IF OneByte(s.op) THEN p ELSE p + 1 + x + r
    OBVIOUS
  <2>2. Tuple(b, l)
    BY <2>1 DEF Laid
  <2>3. Len(b) = n /\ Len(b) = l
    BY <2>2, TupleSeq
  <2> QED BY <2>1, <2>3
<1>3. p <= n
  BY <1>1, <1>2
<1>4. Processor!Prefixes(st) = p - 1
  BY <1>1, <1>3, PrefixesRead
<1>5. ASSUME NEW k \in Nat, k < n
      PROVE  st.mem[Wrap(st.pc + k)] = b[k + 1]
  <2>1. k + 1 \in 1 .. n /\ st.pc + (k + 1) - 1 = st.pc + k
    BY <1>1, <1>5
  <2> QED BY <2>1 DEF InMemory
<1>6. PICK q, code, m, modes, args :
        /\ q = p - 1 /\ code = st.mem[Wrap(st.pc + q)] /\ m = Decoded(q, code)
        /\ modes = AddressingMode[st.mem[Wrap(st.pc + q + 1)]] /\ args = st.pc + q + 2
  OBVIOUS
<1>7. /\ d.m = m /\ d.admr = modes.admr /\ d.admx = modes.admx
      /\ d.no_cache = IF code \in NoCache THEN {"NC"} ELSE {}
      /\ d.extended = Wrap(args) /\ d.reduced = Wrap(args + mode_bytes(modes.admx))
      /\ d.next = Wrap(IF argument_count(m) = 0 THEN args - 1
                       ELSE args + argument_bytes(m, modes.admr, modes.admx))
  BY SMTT(40), <1>4, <1>6, PartsRead
<1>8. code = b[p] /\ code \in BYTE /\ Opcode[p][code] = s.op /\ (code \in NoCache <=> s.no_cache)
  <2>1. q \in Nat /\ q < n /\ q + 1 = p
    BY <1>1, <1>3, <1>6
  <2>2. code = b[p]
    BY <1>5, <1>6, <2>1
  <2>3. b[p] \in BYTE /\ Opcode[p][b[p]] = s.op /\ (b[p] \in NoCache <=> s.no_cache)
    BY DEF Laid
  <2> QED BY <2>2, <2>3
<1>9. m = s.op
  BY <1>1, <1>6, <1>8 DEF Decoded
<1>10. (d.no_cache # {}) = s.no_cache
  BY <1>7, <1>8
<1>11. args = st.pc + (p + 1) /\ args - 1 = st.pc + p
  BY <1>1, <1>6
<1>12. CASE OneByte(s.op)
  <2>1. d.next = Wrap(st.pc + n)
    BY <1>2, <1>7, <1>9, <1>11, <1>12 DEF OneByte
  <2>2. mode_bytes(s.admx) = 0 /\ mode_bytes(s.admr) = 0
    BY <1>12 DEF Encodable
  <2> QED BY <1>7, <1>9, <1>10, <1>12, <2>1, <2>2 DEF DecodedAs
<1>13. CASE ~OneByte(s.op)
  <2>0. PICK c \in Int : /\ c = st.pc /\ n = p + 1 + x + r /\ args = c + (p + 1)
                         /\ p \in Nat /\ x \in Nat /\ r \in Nat /\ (x # 0 => x >= 2) /\ (r # 0 => r >= 2)
    <3>1. n = p + 1 + x + r
      BY <1>2, <1>13
    <3>2. p \in Nat /\ x \in Nat /\ r \in Nat /\ (x # 0 => x >= 2) /\ (r # 0 => r >= 2)
      BY <1>1
    <3> QED BY <1>11, <3>1, <3>2
  <2>1. modes = [admr |-> s.admr, admx |-> s.admx]
    <3>1. p \in Nat /\ p < n /\ st.pc + q + 1 = st.pc + p
      BY SMTT(40), <1>1, <1>2, <1>6, <1>13
    <3>2. st.mem[Wrap(st.pc + q + 1)] = b[p + 1]
      BY <1>5, <3>1
    <3>3. AddressingMode[b[p + 1]] = [admr |-> s.admr, admx |-> s.admx]
      BY <1>13 DEF Laid
    <3> QED BY <1>6, <3>2, <3>3
  <2>2. modes.admr = s.admr /\ modes.admx = s.admx
    BY <2>1
  <2>3. d.next = Wrap(st.pc + n)
    <3>1. argument_count(m) # 0 /\ (m \in TwoArguments \/ m \in ReadArgument \/ m \in WriteArgument)
      BY <1>9, <1>13 DEF OneByte, argument_count
    <3>2. argument_bytes(m, s.admr, s.admx) = x + r
      <4>1. m \in ReadArgument => r = 0
        BY <1>1, <1>9 DEF Encodable
      <4>2. m \in WriteArgument => x = 0
        BY <1>1, <1>9 DEF Encodable
      <4> QED BY <1>1, <3>1, <4>1, <4>2 DEF argument_bytes, single_operant_writeback
    <3>3. args + (x + r) = st.pc + n
      BY <2>0
    <3> QED BY <1>7, <2>2, <3>1, <3>2, <3>3
  <2>4. ASSUME OneWord(slot, s.src), mode_bytes(s.admx) > 0
        PROVE  Processor!Word(st, d.extended) = Meaning(slot, s.src)
    <3>1. x # 0 /\ p + 1 \in Nat /\ p + 1 < n /\ p + 2 < n /\ p + 2 \in Nat
          /\ (p + 1) + 1 = p + 2 /\ (p + 2) + 1 = p + 3 /\ st.pc + (p + 1) + 1 = st.pc + (p + 2)
      <4>1. x # 0
        <5>1. x = mode_bytes(s.admx)
          BY <1>1
        <5>2. x > 0
          BY <2>4, <5>1
        <5> QED BY <5>2
      <4> QED BY <2>0, <4>1
    <3>2. b[p + 2] = Low(Meaning(slot, s.src)) /\ b[p + 3] = High(Meaning(slot, s.src))
      BY <1>13, <2>4, <3>1 DEF Laid
    <3>3. st.mem[Wrap(st.pc + (p + 1))] = b[p + 2] /\ st.mem[Wrap(st.pc + (p + 2))] = b[p + 3]
      BY <1>5, <3>1
    <3>4. Meaning(slot, s.src) \in AWord
      BY <2>4 DEF OneWord
    <3>5. d.extended = Wrap(st.pc + (p + 1))
      BY <1>7, <1>11
    <3> QED BY <3>1, <3>2, <3>3, <3>4, <3>5, WordRead
  <2>5. ASSUME OneWord(slot, s.dst), mode_bytes(s.admr) > 0
        PROVE  Processor!Word(st, d.reduced) = Meaning(slot, s.dst)
    <3> DEFINE k == p + 1 + x
    <3>1. r # 0 /\ k \in Nat /\ k < n /\ k + 1 < n /\ k + 1 \in Nat
          /\ k + 1 = p + 2 + x /\ (k + 1) + 1 = p + 3 + x /\ st.pc + k + 1 = st.pc + (k + 1)
          /\ args + x = st.pc + k
      <4>1. r # 0
        <5>1. r = mode_bytes(s.admr)
          BY <1>1
        <5>2. r > 0
          BY <2>5, <5>1
        <5> QED BY <5>2
      <4> QED BY <2>0, <4>1
    <3>2. b[p + 2 + x] = Low(Meaning(slot, s.dst)) /\ b[p + 3 + x] = High(Meaning(slot, s.dst))
      BY <1>13, <2>5, <3>1 DEF Laid
    <3> HIDE DEF k
    <3>3. st.mem[Wrap(st.pc + k)] = b[k + 1] /\ st.mem[Wrap(st.pc + (k + 1))] = b[(k + 1) + 1]
      BY <1>5, <3>1
    <3>4. Meaning(slot, s.dst) \in AWord
      BY <2>5 DEF OneWord
    <3>5. d.reduced = Wrap(st.pc + k)
      BY <1>1, <1>7, <2>2, <3>1
    <3>6. /\ st.mem[Wrap(st.pc + k)] = Low(Meaning(slot, s.dst))
          /\ st.mem[Wrap(st.pc + k + 1)] = High(Meaning(slot, s.dst))
      BY <3>1, <3>2, <3>3
    <3> QED BY <3>1, <3>4, <3>5, <3>6, WordRead
  <2> QED BY <1>7, <1>9, <1>10, <2>2, <2>3, <2>4, <2>5 DEF DecodedAs
<1> QED BY <1>12, <1>13

\* Whole instructions are decoded as they were written.
LEMMA WholeDecoded ==
  ASSUME AsmInv, phase = "image", NEW i \in DOMAIN slots, Kind(i) = "INSTRUCTION", Whole(i)
  PROVE  /\ DecodedAs(slots[i], slots[i].statement, Processor!Instruction(Loaded(i)), Loaded(i),
                      Len(Bytes(slots[i])))
         /\ Loaded(i).pc = place[i] /\ slots[i].statement \in Known /\ Encodable(slots[i].statement)
<1>0. PICK s, d : s = slots[i].statement /\ d = Processor!Instruction(Loaded(i))
  OBVIOUS
<1>1. PICK slot, b, st : slot = slots[i] /\ b = Bytes(slot) /\ st = Loaded(i)
  OBVIOUS
<1>2. s = slot.statement /\ s \in Known /\ s.kind = "INSTRUCTION" /\ Encodable(s) /\ s.no_cache \in BOOLEAN
  <2>1. s \in Known
    BY <1>0, TupleSeq DEF AsmInv, AsmType, EntriesOK
  <2> QED BY <1>0, <1>1, <2>1, KnownIs DEF Kind
<1>3. b = InstructionBytes(slot)
  BY <1>1, <1>2 DEF Bytes
<1>4. PICK p, x, r : Laid(slot, s, p, x, r, b)
  BY <1>2, <1>3, Layout
<1>5. PICK n : n = (IF OneByte(s.op) THEN p ELSE p + 1 + x + r)
  OBVIOUS
<1>6. Tuple(b, n) /\ n \in Nat /\ n <= WORDS /\ Len(b) = n
  <2>1. Tuple(b, n)
    BY <1>4, <1>5 DEF Laid
  <2>2. n \in Nat /\ Len(b) = n
    BY <2>1, TupleSeq DEF Tuple
  <2>3. p \in 1 .. Len(Opcode) /\ Len(Opcode) \in Nat /\ x \in {0, 2, 3} /\ r \in {0, 2, 3}
    BY <1>4 DEF Laid
  <2>4. Len(Opcode) + 7 <= WORDS
    BY AssemblerAssumption, Places
  <2> QED BY <1>5, <2>1, <2>2, <2>3, <2>4, Places
<1>7. st.pc = place[i] /\ place[i] \in Address /\ InMemory(st, b, n)
  BY <1>1, <1>6, WholeLoaded
<1>8. st.pc \in Int
  BY <1>7, Places
<1>9. DecodedAs(slot, s, d, st, n)
  <2>1. d = Processor!Instruction(st)
    BY <1>0, <1>1
  <2> QED BY <1>2, <1>4, <1>6, <1>7, <1>8, <2>1, Decodes
<1> QED BY <1>0, <1>1, <1>2, <1>6, <1>7, <1>9

LEMMA Assembled == AsmInv => AssembledIsDecoded
<1> SUFFICES ASSUME AsmInv, phase = "image", NEW i \in DOMAIN slots, Kind(i) = "INSTRUCTION", Whole(i)
             PROVE  LET s == slots[i].statement
                        d == Processor!Instruction(Loaded(i))
                    IN /\ d.m = s.op /\ d.next = Wrap(place[i] + Len(Bytes(slots[i])))
                       /\ (d.no_cache # {}) = s.no_cache
                       /\ ~OneByte(s.op) => d.admx = s.admx /\ d.admr = s.admr
                       /\ s.src.name = "" /\ mode_bytes(s.admx) > 0 =>
                            Processor!Word(Loaded(i), d.extended) = s.src.imm
                       /\ s.dst.name = "" /\ mode_bytes(s.admr) > 0 =>
                            Processor!Word(Loaded(i), d.reduced) = s.dst.imm
  BY DEF AssembledIsDecoded
<1>1. PICK slot, s, d, st, n : /\ slot = slots[i] /\ s = slots[i].statement /\ st = Loaded(i)
                               /\ n = Len(Bytes(slots[i])) /\ d = Processor!Instruction(Loaded(i))
  OBVIOUS
<1>2. DecodedAs(slot, s, d, st, n) /\ st.pc = place[i] /\ Encodable(s)
  BY <1>1, WholeDecoded
<1>3. \A t : t.name = "" /\ t.imm \in AWord => OneWord(slot, t) /\ Meaning(slot, t) = t.imm
  BY DEF OneWord, Meaning
<1>4. s.src.imm \in AWord /\ s.dst.imm \in AWord
  BY <1>2 DEF Encodable
<1> QED BY <1>1, <1>2, <1>3, <1>4 DEF DecodedAs

\* What is assembled is what the processor decodes (assembler_parse_instruction
\* against the fetch of cpu_clock).
THEOREM AssemblyIsDecoded == Spec => []AssembledIsDecoded
  BY AsmInvariant, Assembled, PTL

-----------------------------------------------------------------------------
(***************************************************************************)
(* What the first pass counts: byte_index before and after every entry,    *)
(* and what a label is given.                                              *)
(***************************************************************************)
\* byte_index is p before statement s, with its address, and q after it.
CountsAs(s, address, in_data, p, q) ==
  /\ s.kind # "TEXT"
  /\ s.kind = "INSTRUCTION" =>
       address = p /\ q = p + (Operands(s) + (IF OneByte(s.op) THEN 1 ELSE 2))
  /\ s.kind = "ADDRESS" => address = s.value /\ q = s.value
  /\ s.kind = "RESERVE" => address = q /\ q \in {p + s.value, p + Signed(s.value)}
  /\ s.kind \in {"SEGMENT_CODE", "SEGMENT_DATA"} \/ (s.kind = "LABEL" /\ ~in_data) => q = p
  /\ s.kind = "DW" => q = p + 2
  /\ s.kind = "DB" => q = p + 1

Counts(k, p, q) == CountsAs(slots[k].statement, slots[k].address, InData(k), p, q)

Tally(b) ==
  /\ Tuple(b, Len(slots) + 1) /\ b[1] = 0 /\ b[Len(slots) + 1] = byte_index
  /\ \A k \in 1 .. Len(slots) : Counts(k, b[k], b[k + 1])

\* Where the counting for a label at entry j begins.
ChangesBefore(j) == {k \in 1 .. j - 1 : Kind(k) \in AddressChange}
From(j) == IF ChangesBefore(j) = {} THEN 1 ELSE Max(ChangesBefore(j))

AfterData(a, s) ==
  CASE s.kind = "ADDRESS" -> s.value
    [] s.kind \in {"LABEL", "SEGMENT_CODE", "SEGMENT_DATA"} -> a
    [] s.kind \in {"DW", "DEREF"} -> a + 2
    [] s.kind = "DB" -> a + 1
    [] OTHER -> a + 1 + Operands(s) + PageOf(s.op) - (IF OneByte(s.op) THEN 1 ELSE 0)

\* v is counted for a label at entry j of s: from entry first on, the last change
\* of the address if there is one, as f does it entry by entry.
CountedTo(v, s, j, in_data, changed, first) ==
  \E f :
    /\ v = f[j - 1]
    /\ in_data => \A k \in 0 .. j - 1 :
         /\ k < first /\ ~changed => f[k] = 0
         /\ ~(k < first) => f[k] = AfterData(f[k - 1], s[k].statement)
    /\ ~in_data => \A k \in 0 .. j - 1 :
         f[k] = IF k < first THEN IF changed THEN s[first].address - 2 ELSE 0
                ELSE f[k - 1] + CodeCount(s[k].statement)

LabelIs(j, v) == CountedTo(v, slots, j, InData(j), ChangesBefore(j) # {}, From(j))

\* Label r is defined by entry at[r].
LabelsAt(at) ==
  /\ Tuple(labels, Len(labels)) /\ Tuple(at, Len(labels))
  /\ \A r \in 1 .. Len(labels) :
       /\ at[r] \in 1 .. Len(slots) /\ Kind(at[r]) = "LABEL"
       /\ labels[r].name = slots[at[r]].statement.name
       /\ LabelIs(at[r], labels[r].value)
  /\ \A r, q \in 1 .. Len(labels) : r < q => at[r] < at[q]
  /\ \A j \in 1 .. Len(slots) : Kind(j) = "LABEL" => \E r \in 1 .. Len(labels) : at[r] = j

CountInv ==
  /\ byte_index \in Int /\ \A k \in 1 .. Len(slots) : slots[k].address \in Int
  /\ (IF InData(Len(slots) + 1) THEN "DATA" ELSE "CODE") = mode
  /\ \E b : Tally(b)
  /\ \E at : LabelsAt(at)
  /\ phase \in {"emit", "image"} => Resolvable

\* The last of some entries, and the first.
LEMMA LastOne ==
  ASSUME NEW n \in Nat, NEW S, S \subseteq 1 .. n, S # {}
  PROVE  Max(S) \in S /\ \A k \in S : Max(S) >= k
<1> DEFINE T == {m \in Nat : \A R : R # {} /\ R \subseteq 1 .. m => \E x \in R : \A y \in R : x >= y}
<1>1. 0 \in T
  <2>1. 1 .. 0 = {}
    OBVIOUS
  <2> QED BY <2>1
<1>2. ASSUME NEW m \in Nat, m \in T
      PROVE  m + 1 \in T
  <2> SUFFICES ASSUME NEW R, R # {}, R \subseteq 1 .. m + 1
               PROVE  \E x \in R : \A y \in R : x >= y
    OBVIOUS
  <2>1. CASE m + 1 \in R
    <3>1. \A y \in R : m + 1 >= y
      OBVIOUS
    <3> QED BY <2>1, <3>1
  <2>2. CASE m + 1 \notin R
    <3>1. R \subseteq 1 .. m
      BY <2>2
    <3> QED BY <1>2, <3>1
  <2> QED BY <2>1, <2>2
<1> HIDE DEF T
<1>3. n \in T
  BY <1>1, <1>2, Induction
<1>4. \E x \in S : \A y \in S : x >= y
  BY <1>3 DEF T
<1> QED BY <1>4 DEF Max

LEMMA FirstOne ==
  ASSUME NEW n \in Nat, NEW S, S \subseteq 1 .. n, S # {}
  PROVE  Min(S) \in S /\ \A k \in S : k >= Min(S)
<1> DEFINE T == {(n + 1) - k : k \in S}
<1>1. T \subseteq 1 .. n /\ T # {}
  <2>1. \A k \in S : (n + 1) - k \in 1 .. n
    OBVIOUS
  <2> QED BY <2>1
<1>2. Max(T) \in T /\ \A k \in T : Max(T) >= k
  BY <1>1, LastOne
<1>3. PICK x \in S : Max(T) = (n + 1) - x
  BY <1>2
<1>4. \A k \in S : k >= x
  <2> SUFFICES ASSUME NEW k \in S
               PROVE  k >= x
    OBVIOUS
  <2>1. (n + 1) - x >= (n + 1) - k
    BY <1>2, <1>3
  <2>2. k \in Int /\ x \in Int
    OBVIOUS
  <2> QED BY <2>1, <2>2
<1>5. \E y \in S : \A k \in S : k >= y
  BY <1>4
<1> QED BY <1>5 DEF Min

\* Entries are added, and those before stay.
Extended(n, m) ==
  /\ n \in Nat /\ m \in Nat /\ n = Len(slots) /\ n + m = Len(slots') /\ Tuple(slots', n + m)
  /\ \A k \in 1 .. n : slots'[k] = slots[k]

LEMMA SameCount ==
  ASSUME NEW s, NEW t, NEW j \in Nat, \A k \in 1 .. j - 1 : s[k] = t[k],
         NEW v, NEW in_data, NEW changed, NEW first \in Nat \ {0}, changed => first \in 1 .. j - 1,
         CountedTo(v, s, j, in_data, changed, first)
  PROVE  CountedTo(v, t, j, in_data, changed, first)
<1>1. PICK f :
        /\ v = f[j - 1]
        /\ in_data => \A k \in 0 .. j - 1 :
             /\ k < first /\ ~changed => f[k] = 0
             /\ ~(k < first) => f[k] = AfterData(f[k - 1], s[k].statement)
        /\ ~in_data => \A k \in 0 .. j - 1 :
             f[k] = IF k < first THEN IF changed THEN s[first].address - 2 ELSE 0
                    ELSE f[k - 1] + CodeCount(s[k].statement)
  BY DEF CountedTo
<1>2. \A k \in 0 .. j - 1 : ~(k < first) => s[k] = t[k]
  <2>1. \A k \in 0 .. j - 1 : ~(k < first) => k \in 1 .. j - 1
    OBVIOUS
  <2> QED BY <2>1
<1>3. in_data => \A k \in 0 .. j - 1 :
        /\ k < first /\ ~changed => f[k] = 0
        /\ ~(k < first) => f[k] = AfterData(f[k - 1], t[k].statement)
  BY <1>1, <1>2
<1>4. ~in_data => \A k \in 0 .. j - 1 :
        f[k] = IF k < first THEN IF changed THEN t[first].address - 2 ELSE 0
               ELSE f[k - 1] + CodeCount(t[k].statement)
  BY <1>1, <1>2
<1> QED BY <1>1, <1>3, <1>4 DEF CountedTo

LEMMA EarlierStay ==
  ASSUME NEW n, NEW m, Extended(n, m)
  PROVE  /\ \A k \in 1 .. n : Kind(k)' = Kind(k)
         /\ \A k \in 1 .. n + 1 : InData(k)' = InData(k)
         /\ \A k \in 1 .. n + 1 : ChangesBefore(k)' = ChangesBefore(k) /\ From(k)' = From(k)
         /\ \A k \in 1 .. n : \A p, q : Counts(k, p, q)' <=> Counts(k, p, q)
         /\ \A k \in 1 .. n : \A v : LabelIs(k, v)' <=> LabelIs(k, v)
         /\ \A v : LabelIs(n + 1, v)' <=> LabelIs(n + 1, v)
<1>1. n \in Nat /\ \A k \in 1 .. n : slots'[k] = slots[k] /\ Kind(k)' = Kind(k)
  BY DEF Extended, Kind
<1>2. ASSUME NEW k \in 1 .. n + 1
      PROVE  Marks(k)' = Marks(k) /\ ChangesBefore(k)' = ChangesBefore(k)
  <2>1. \A i \in 1 .. k - 1 : Kind(i)' = Kind(i)
    BY <1>1
  <2> QED BY <2>1 DEF Marks, ChangesBefore
<1>3. ASSUME NEW k \in 1 .. n + 1
      PROVE  InData(k)' = InData(k)
  <2>1. CASE Marks(k) = {}
    BY <1>2, <2>1 DEF InData
  <2>2. CASE Marks(k) # {}
    <3>1. Max(Marks(k)) \in Marks(k)
      BY <1>1, <2>2, LastOne DEF Marks
    <3>2. Kind(Max(Marks(k)))' = Kind(Max(Marks(k)))
      <4>1. PICK i : i = Max(Marks(k)) /\ i = Max(Marks(k))'
        BY <1>2
      <4>2. i \in 1 .. n
        BY <1>1, <3>1, <4>1 DEF Marks
      <4> QED BY <1>1, <4>1, <4>2 DEF Kind
    <3> QED BY <1>2, <3>2 DEF InData
  <2> QED BY <2>1, <2>2
<1>4. \A k \in 1 .. n + 1 : From(k)' = From(k)
  BY <1>2 DEF From
<1>5. \A k \in 1 .. n : \A p, q : Counts(k, p, q)' <=> Counts(k, p, q)
  BY <1>1, <1>3 DEF Counts
<1>6. ASSUME NEW k \in 1 .. n + 1
      PROVE  From(k) \in Nat \ {0} /\ (ChangesBefore(k) # {} => From(k) \in 1 .. k - 1)
  <2>1. k - 1 \in Nat /\ ChangesBefore(k) \subseteq 1 .. k - 1
    BY <1>1 DEF ChangesBefore
  <2> QED BY <2>1, LastOne DEF From
<1>7. ASSUME NEW k \in 1 .. n + 1, NEW v
      PROVE  LabelIs(k, v)' <=> LabelIs(k, v)
  <2>1. PICK s, t, in_data, changed, first :
          /\ s = slots /\ t = slots' /\ in_data = InData(k) /\ changed = (ChangesBefore(k) # {})
          /\ first = From(k) 
    OBVIOUS
  <2>2. k \in Nat /\ \A i \in 1 .. k - 1 : s[i] = t[i]
    BY <1>1, <2>1
  <2>3. first \in Nat \ {0} /\ (changed => first \in 1 .. k - 1)
    BY <1>6, <2>1
  <2>4. CountedTo(v, s, k, in_data, changed, first) <=> CountedTo(v, t, k, in_data, changed, first)
    BY <2>2, <2>3, SameCount
  <2>5. InData(k)' = in_data /\ (ChangesBefore(k) # {})' = changed /\ From(k)' = first
    BY <1>1, <1>2, <1>3, <1>4, <2>1
  <2> QED BY <2>1, <2>4, <2>5 DEF LabelIs
<1>8. n + 1 \in 1 .. n + 1 /\ \A k \in 1 .. n : k \in 1 .. n + 1
  BY <1>1
<1> QED BY <1>1, <1>2, <1>3, <1>4, <1>5, <1>7, <1>8

-----------------------------------------------------------------------------
\* One entry, for a label in a code segment or in a data segment.
OneStep(code, x, slot) == IF code THEN x + CodeCount(slot.statement) ELSE DataStep(x, slot)

Iteration(f, s, n, first, start, code) ==
  f = [k \in 0 .. n |-> IF k < first THEN start ELSE OneStep(code, f[k - 1], s[k])]

LEMMA Iterated ==
  ASSUME NEW s, NEW n \in Nat, NEW first \in Nat \ {0}, NEW start, NEW code
  PROVE  \E f : Iteration(f, s, n, first, start, code)
<1> DEFINE Is(f, m) == f = [k \in 0 .. m |-> IF k < first THEN start ELSE OneStep(code, f[k - 1], s[k])]
           S == {m \in Nat : \E f : Is(f, m)}
<1>1. 0 \in S
  <2> DEFINE f == [k \in 0 .. 0 |-> start]
  <2>1. Is(f, 0)
    <3>1. DOMAIN f = 0 .. 0 /\ \A k \in 0 .. 0 : k < first
      OBVIOUS
    <3> QED BY <3>1
  <2> HIDE DEF f, Is
  <2> QED BY <2>1
<1>2. ASSUME NEW m \in Nat, m \in S
      PROVE  m + 1 \in S
  <2>1. PICK f : Is(f, m)
    BY <1>2
  <2> DEFINE last == IF m + 1 < first THEN start ELSE OneStep(code, f[m], s[m + 1])
             g == [k \in 0 .. m + 1 |-> IF k = m + 1 THEN last ELSE f[k]]
  <2>2. \A k \in 0 .. m + 1 : g[k] = IF k < first THEN start ELSE OneStep(code, g[k - 1], s[k])
    <3> SUFFICES ASSUME NEW k \in 0 .. m + 1
                 PROVE  g[k] = IF k < first THEN start ELSE OneStep(code, g[k - 1], s[k])
      OBVIOUS
    <3>1. CASE k = m + 1
      <4>1. g[k - 1] = f[m] /\ g[k] = last
        BY <3>1
      <4> QED BY <3>1, <4>1
    <3>2. CASE k # m + 1
      <4>1. k \in 0 .. m
        BY <3>2
      <4>2. f[k] = IF k < first THEN start ELSE OneStep(code, f[k - 1], s[k])
        BY <2>1, <4>1
      <4>3. ~(k < first) => k - 1 \in 0 .. m + 1 /\ k - 1 # m + 1
        BY <4>1
      <4>4. ~(k < first) => g[k - 1] = f[k - 1]
        BY <4>3
      <4> QED BY <3>2, <4>2, <4>4
    <3> QED BY <3>1, <3>2
  <2>3. g = [k \in 0 .. m + 1 |-> g[k]]
    OBVIOUS
  <2> HIDE DEF g
  <2>4. Is(g, m + 1)
    BY <2>2, <2>3
  <2> QED BY <2>4
<1> HIDE DEF S
<1>3. n \in S
  BY <1>1, <1>2, Induction
<1> QED BY <1>3 DEF S, Iteration

\* What a label is given where it is met.
LEMMA CodeCounted ==
  ASSUME NEW n, n = Len(slots), Tuple(slots, n)
  PROVE  /\ Changes = ChangesBefore(n + 1) /\ Since = From(n + 1) /\ Since \in Nat \ {0}
         /\ CountedTo(CodeLabel, slots, n + 1, FALSE, ChangesBefore(n + 1) # {}, From(n + 1))
<1>1. n \in Nat /\ DOMAIN slots = 1 .. n /\ (n + 1) - 1 = n
  BY TupleSeq DEF Tuple
<1>2. Changes = ChangesBefore(n + 1)
  BY <1>1 DEF Changes, ChangesBefore, Kind
<1>3. Since = From(n + 1)
  BY <1>2 DEF Since, From
<1>4. Since \in Nat \ {0}
  <2>1. Changes \subseteq 1 .. n
    BY <1>1 DEF Changes
  <2>2. CASE Changes = {}
    BY <2>2 DEF Since
  <2>3. CASE Changes # {}
    <3>1. Max(Changes) \in Changes
      BY <1>1, <2>1, <2>3, LastOne
    <3>2. Since \in 1 .. n
      BY <2>1, <2>3, <3>1 DEF Since
    <3> QED BY <1>1, <3>2
  <2> QED BY <2>2, <2>3
<1>5. PICK first, from : first = Since /\ from = IF Changes = {} THEN 0 ELSE slots[Since].address - 2
  OBVIOUS
<1> DEFINE Is(f) == f = [k \in 0 .. n |->
                           IF k < first THEN from ELSE f[k - 1] + CodeCount(slots[k].statement)]
<1>6. \E f : Is(f)
  <2>1. PICK s, code : s = slots /\ code = TRUE
    OBVIOUS
  <2>2. PICK f : Iteration(f, s, n, first, from, code)
    <3>1. first \in Nat \ {0}
      BY <1>4, <1>5
    <3> QED BY <1>1, <3>1, Iterated
  <2>3. Is(f)
    BY <2>1, <2>2 DEF OneStep, Iteration
  <2> QED BY <2>3
<1>7. CodeLabel = (CHOOSE f : Is(f))[n]
  BY <1>5 DEF CodeLabel
<1> HIDE DEF Is
<1>8. PICK f : Is(f) /\ CodeLabel = f[n]
  BY <1>6, <1>7
<1>9. \A k \in 0 .. n : f[k] = IF k < first THEN from ELSE f[k - 1] + CodeCount(slots[k].statement)
  BY <1>8 DEF Is
<1>10. CountedTo(CodeLabel, slots, n + 1, FALSE, ChangesBefore(n + 1) # {}, From(n + 1))
  BY <1>1, <1>2, <1>3, <1>5, <1>8, <1>9 DEF CountedTo
<1> QED BY <1>2, <1>3, <1>4, <1>10

LEMMA KnownCounts ==
  ASSUME NEW s \in Known
  PROVE  s.value \in Nat /\ Operands(s) \in Nat /\ PageOf(s.op) \in Nat \ {0}
<1>1. Operands(s) \in Nat
  BY DEF Operands, mode_bytes
<1>2. \E p \in DOMAIN Opcode : \E b \in BYTE : Opcode[p][b] = s.op
  <2>1. CASE s.kind = "INSTRUCTION"
    BY <2>1, KnownIs DEF Encodable
  <2>2. CASE s.kind # "INSTRUCTION"
    <3>1. s.op = "NOP"
      BY <2>2, KnownIs
    <3>2. \E p \in DOMAIN Opcode : \E b \in BYTE : Opcode[p][b] = "NOP"
      BY AssemblerAssumption
    <3> QED BY <3>1, <3>2
  <2> QED BY <2>1, <2>2
<1>3. PageOf(s.op) \in DOMAIN Opcode
  BY <1>2 DEF PageOf
<1>4. DOMAIN Opcode = 1 .. Len(Opcode) /\ Len(Opcode) \in Nat
  BY EncodingAssumption
<1>5. PageOf(s.op) \in Nat \ {0}
  BY <1>3, <1>4
<1> QED BY <1>1, <1>5, KnownIs

LEMMA StepTyped ==
  ASSUME NEW x, x.address \in Int, x.byte_index \in Int, NEW slot, slot.statement \in Known
  PROVE  DataStep(x, slot).address \in Int /\ DataStep(x, slot).byte_index \in Int
<1>1. PICK s : s = slot.statement /\ s.value \in Nat /\ Operands(s) \in Nat /\ PageOf(s.op) \in Nat
  BY KnownCounts
<1>2. PICK d : d = DataStep(x, slot)
  OBVIOUS
<1>3. CASE s.kind = "ADDRESS"
  <2>1. d = [address |-> s.value, byte_index |-> x.byte_index]
    BY <1>1, <1>2, <1>3 DEF DataStep
  <2> QED BY <1>1, <1>2, <2>1
<1>4. CASE s.kind \in {"LABEL", "SEGMENT_CODE", "SEGMENT_DATA"}
  <2>1. d = x
    BY <1>1, <1>2, <1>4 DEF DataStep
  <2> QED BY <1>2, <2>1
<1>5. CASE s.kind \in {"DW", "DEREF"}
  <2>1. d = [address |-> x.address + 2, byte_index |-> x.byte_index]
    BY <1>1, <1>2, <1>5 DEF DataStep
  <2> QED BY <1>2, <2>1
<1>6. CASE s.kind = "DB"
  <2>1. d = [address |-> x.address + 1, byte_index |-> x.byte_index]
    BY <1>1, <1>2, <1>6 DEF DataStep
  <2> QED BY <1>2, <2>1
<1>7. CASE s.kind \notin {"ADDRESS", "LABEL", "SEGMENT_CODE", "SEGMENT_DATA", "DW", "DEREF", "DB"}
  <2>1. PICK a : a = x.address + 1 + Operands(s) + PageOf(s.op) - (IF OneByte(s.op) THEN 1 ELSE 0)
    OBVIOUS
  <2>2. d = [address |-> a, byte_index |-> a]
    BY <1>1, <1>2, <1>7, <2>1 DEF DataStep
  <2>3. a \in Int
    BY <1>1, <2>1
  <2> QED BY <1>2, <2>2, <2>3
<1> QED BY <1>3, <1>4, <1>5, <1>6, <1>7

LEMMA DataCounted ==
  ASSUME NEW n, n = Len(slots), Tuple(slots, n)
  PROVE  /\ (/\ byte_index \in Int
             /\ \A k \in 1 .. n : slots[k].statement \in Known /\ slots[k].address \in Int)
              => DataLabel.byte_index \in Int
         /\ CountedTo(DataLabel.address, slots, n + 1, TRUE, ChangesBefore(n + 1) # {}, From(n + 1))
<1>1. n \in Nat /\ DOMAIN slots = 1 .. n /\ (n + 1) - 1 = n
  BY TupleSeq DEF Tuple
<1>2. Changes = ChangesBefore(n + 1) /\ Since = From(n + 1) /\ Since \in Nat \ {0}
  BY CodeCounted
<1>3. PICK first, from, c :
        /\ first = Since /\ c = byte_index
        /\ from = IF Changes = {} THEN 0
                  ELSE slots[Since].address - 2 + (IF OneByte(Numbered[Since]) THEN 1 ELSE 0)
  OBVIOUS
<1> DEFINE Is(w) == w = [k \in 0 .. n |-> IF k < first THEN [address |-> from, byte_index |-> c]
                                          ELSE DataStep(w[k - 1], slots[k])]
<1>4. \E w : Is(w)
  <2>1. PICK s, start, code : s = slots /\ start = [address |-> from, byte_index |-> c] /\ code = FALSE
    OBVIOUS
  <2>2. PICK w : Iteration(w, s, n, first, start, code)
    <3>1. first \in Nat \ {0}
      BY <1>2, <1>3
    <3> QED BY <1>1, <3>1, Iterated
  <2>3. Is(w)
    BY <2>1, <2>2 DEF OneStep, Iteration
  <2> QED BY <2>3
<1>5. DataLabel = (CHOOSE w : Is(w))[n]
  BY <1>3 DEF DataLabel
<1> HIDE DEF Is
<1>6. PICK w : Is(w) /\ DataLabel = w[n]
  BY <1>4, <1>5
<1>7. \A k \in 0 .. n : w[k] = IF k < first THEN [address |-> from, byte_index |-> c]
                               ELSE DataStep(w[k - 1], slots[k])
  BY <1>6 DEF Is
<1>8. \A x, slot : DataStep(x, slot).address = AfterData(x.address, slot.statement)
  BY DEF DataStep, AfterData
<1>9. PICK f : f = [k \in -1 .. n |-> w[k].address]
  OBVIOUS
<1>10. ASSUME NEW k \in 0 .. n
       PROVE  /\ k < first /\ Changes = {} => f[k] = 0
              /\ ~(k < first) => f[k] = AfterData(f[k - 1], slots[k].statement)
  <2>1. k \in -1 .. n /\ k - 1 \in -1 .. n
    BY <1>1
  <2>2. f[k] = w[k].address /\ f[k - 1] = w[k - 1].address
    BY <1>9, <2>1
  <2>3. k < first => w[k].address = from
    BY <1>7
  <2>4. ~(k < first) => w[k].address = AfterData(w[k - 1].address, slots[k].statement)
    BY <1>7, <1>8
  <2> QED BY <1>3, <2>2, <2>3, <2>4
<1>11. DataLabel.address = f[n]
  <2>1. n \in -1 .. n
    BY <1>1
  <2> QED BY <1>6, <1>9, <2>1
<1>12. ASSUME byte_index \in Int,
              \A k \in 1 .. n : slots[k].statement \in Known /\ slots[k].address \in Int
       PROVE  w[n].byte_index \in Int
  <2>1. from \in Int /\ c \in Int
    <3>1. CASE Changes = {}
      BY <1>3, <1>12, <3>1
    <3>2. CASE Changes # {}
      <4>1. Since \in 1 .. n
        <5>1. Changes \subseteq 1 .. n
          BY <1>1 DEF Changes
        <5> QED BY <1>1, <3>2, <5>1, LastOne DEF Since
      <4>2. slots[Since].address \in Int
        BY <1>12, <4>1
      <4> QED BY <1>3, <1>12, <3>2, <4>2
    <3> QED BY <3>1, <3>2
  <2> DEFINE S == {k \in Nat : k <= n => w[k].address \in Int /\ w[k].byte_index \in Int}
  <2>2. ASSUME NEW k \in 0 .. n, k < first
        PROVE  w[k].address \in Int /\ w[k].byte_index \in Int
    <3>1. w[k] = [address |-> from, byte_index |-> c]
      BY <1>7, <2>2
    <3> QED BY <2>1, <3>1
  <2>3. 0 \in S
    <3>1. 0 \in 0 .. n /\ 0 < first
      BY <1>1, <1>2, <1>3
    <3> QED BY <2>2, <3>1
  <2>4. ASSUME NEW k \in Nat, k \in S
        PROVE  k + 1 \in S
    <3> SUFFICES ASSUME k + 1 <= n, ~(k + 1 < first)
                 PROVE  w[k + 1].address \in Int /\ w[k + 1].byte_index \in Int
      <4>1. k + 1 <= n => k + 1 \in 0 .. n
        BY <1>1
      <4> QED BY <2>2, <4>1
    <3>1. k + 1 \in 0 .. n /\ k + 1 \in 1 .. n /\ (k + 1) - 1 = k
      BY <1>1
    <3>2. PICK x, slot : x = w[k] /\ slot = slots[k + 1]
      OBVIOUS
    <3>3. w[k + 1] = DataStep(x, slot)
      BY <1>7, <3>1, <3>2
    <3>4. x.address \in Int /\ x.byte_index \in Int /\ slot.statement \in Known
      BY <1>1, <1>12, <2>4, <3>1, <3>2
    <3> QED BY <3>3, <3>4, StepTyped
  <2> HIDE DEF S
  <2>5. n \in S
    BY <1>1, <2>3, <2>4, Induction
  <2> QED BY <1>1, <2>5 DEF S
<1> QED BY <1>1, <1>2, <1>3, <1>6, <1>10, <1>11, <1>12 DEF CountedTo

-----------------------------------------------------------------------------
\* What follows a mark is in its segment.
LEMMA SegmentAfter ==
  ASSUME NEW k \in Nat \ {0}
  PROVE  InData(k + 1)' <=> \/ Kind(k)' = "SEGMENT_DATA"
                            \/ Kind(k)' \notin {"SEGMENT_CODE", "INSTRUCTION"} /\ InData(k)'
<1> DEFINE mark == Kind(k)' \in {"SEGMENT_CODE", "SEGMENT_DATA", "INSTRUCTION"}
<1>1. PICK before, after : before = Marks(k)' /\ after = Marks(k + 1)'
  OBVIOUS
<1>2. before \subseteq 1 .. k - 1 /\ after = before \cup (IF mark THEN {k} ELSE {})
  <2>1. \A i : i \in 1 .. (k + 1) - 1 <=> i \in 1 .. k - 1 \/ i = k
    OBVIOUS
  <2> QED BY <1>1, <2>1 DEF Marks
<1>3. CASE mark
  <2>1. k \in after /\ \A i \in after : k >= i /\ i \in Int
    BY <1>2, <1>3
  <2>2. \A x \in after : (\A y \in after : x >= y) => x = k
    BY <2>1
  <2>3. Max(after) = k
    BY <2>1, <2>2 DEF Max
  <2>4. InData(k + 1)' <=> Kind(k)' = "SEGMENT_DATA"
    BY <1>1, <2>1, <2>3 DEF InData, Kind
  <2> QED BY <1>3, <2>4
<1>4. CASE ~mark
  <2>1. after = before
    BY <1>2, <1>4
  <2>2. InData(k + 1)' <=> InData(k)'
    BY <1>1, <2>1 DEF InData, Kind
  <2> QED BY <1>4, <2>2
<1> QED BY <1>3, <1>4

\* Entries that are counted one by one.
LEMMA TallyGrows ==
  ASSUME NEW n, NEW m, Extended(n, m), NEW b, Tally(b), NEW c,
         c[0] = byte_index, c[m] = byte_index',
         \A i \in 1 .. m : Counts(n + i, c[i - 1], c[i])'
  PROVE  \E d : Tally(d)'
<1>1. n \in Nat /\ m \in Nat /\ n = Len(slots) /\ n + m = Len(slots')
  BY DEF Extended
<1>2. PICK d : d = [k \in 1 .. (n + m) + 1 |-> IF k <= n + 1 THEN b[k] ELSE c[k - (n + 1)]]
  OBVIOUS
<1>3. Tuple(d, (n + m) + 1)
  BY <1>1, <1>2 DEF Tuple
<1>4. b[1] = 0 /\ b[n + 1] = byte_index
  BY <1>1 DEF Tally
<1>5. \A k \in 1 .. n + 1 : d[k] = b[k]
  BY <1>1, <1>2
<1>6. \A i \in 0 .. m : d[(n + 1) + i] = c[i]
  <2> SUFFICES ASSUME NEW i \in 0 .. m
               PROVE  d[(n + 1) + i] = c[i]
    OBVIOUS
  <2>1. (n + 1) + i \in 1 .. (n + m) + 1 /\ ((n + 1) + i) - (n + 1) = i
    BY <1>1
  <2>2. CASE i = 0
    BY <1>1, <1>2, <1>4, <2>1, <2>2
  <2>3. CASE i # 0
    <3>1. ~((n + 1) + i <= n + 1)
      BY <1>1, <2>3
    <3> QED BY <1>2, <2>1, <3>1
  <2> QED BY <2>2, <2>3
<1>7. d[1] = 0 /\ d[(n + m) + 1] = byte_index'
  <2>1. 1 \in 1 .. n + 1 /\ m \in 0 .. m /\ (n + 1) + m = (n + m) + 1
    BY <1>1
  <2> QED BY <1>4, <1>5, <1>6, <2>1
<1>8. ASSUME NEW k \in 1 .. n + m
      PROVE  Counts(k, d[k], d[k + 1])'
  <2>1. CASE k <= n
    <3>1. k \in 1 .. n /\ k \in 1 .. n + 1 /\ k + 1 \in 1 .. n + 1
      BY <1>1, <2>1
    <3>2. d[k] = b[k] /\ d[k + 1] = b[k + 1]
      BY <1>5, <3>1
    <3>3. PICK p, q : p = d[k] /\ q = d[k + 1]
      OBVIOUS
    <3>4. Counts(k, p, q)
      BY <1>1, <3>1, <3>2, <3>3 DEF Tally
    <3>5. Counts(k, p, q)' <=> Counts(k, p, q)
      BY <3>1, EarlierStay
    <3> QED BY <3>3, <3>4, <3>5
  <2>2. CASE ~(k <= n)
    <3>1. PICK i \in 1 .. m : k = n + i
      <4>1. k - n \in 1 .. m /\ k = n + (k - n)
        BY <1>1, <2>2
      <4> QED BY <4>1
    <3>2. i - 1 \in 0 .. m /\ i \in 0 .. m /\ (n + 1) + (i - 1) = k /\ (n + 1) + i = k + 1
      BY <1>1, <3>1
    <3>3. d[k] = c[i - 1] /\ d[k + 1] = c[i]
      BY <1>6, <3>2
    <3>4. Counts(n + i, c[i - 1], c[i])'
      OBVIOUS
    <3> QED BY <3>1, <3>3, <3>4
  <2> QED BY <2>1, <2>2
<1>9. Tally(d)'
  BY <1>1, <1>3, <1>7, <1>8 DEF Tally
<1> QED BY <1>9

\* Labels keep their entries, and what they were given.
LEMMA LabelsStay ==
  ASSUME NEW n, NEW m, Extended(n, m), NEW at, LabelsAt(at), labels' = labels,
         \A i \in 1 .. m : Kind(n + i)' # "LABEL"
  PROVE  LabelsAt(at)'
<1>1. n \in Nat /\ m \in Nat /\ n = Len(slots) /\ n + m = Len(slots')
  BY DEF Extended
<1>2. PICK l : l = Len(labels) /\ l = Len(labels') /\ l \in Nat
  BY DEF LabelsAt, Tuple
<1>3. ASSUME NEW r \in 1 .. l
      PROVE  /\ at[r] \in 1 .. n + m /\ Kind(at[r])' = "LABEL"
             /\ labels'[r].name = slots'[at[r]].statement.name
             /\ LabelIs(at[r], labels[r].value)'
  <2>1. PICK j, v : j = at[r] /\ v = labels[r].value
    OBVIOUS
  <2>2. j \in 1 .. n /\ Kind(j) = "LABEL" /\ labels[r].name = slots[j].statement.name /\ LabelIs(j, v)
    BY <1>1, <1>2, <2>1 DEF LabelsAt
  <2>3. Kind(j)' = Kind(j) /\ slots'[j] = slots[j] /\ (LabelIs(j, v)' <=> LabelIs(j, v))
    BY <2>2, EarlierStay DEF Extended
  <2>4. j \in 1 .. n + m
    BY <1>1, <2>2
  <2> QED BY <2>1, <2>2, <2>3, <2>4
<1>4. \A r, q \in 1 .. l : r < q => at[r] < at[q]
  BY <1>2 DEF LabelsAt
<1>5. ASSUME NEW j \in 1 .. n + m, Kind(j)' = "LABEL"
      PROVE  \E r \in 1 .. l : at[r] = j
  <2>1. CASE j <= n
    <3>1. j \in 1 .. n
      BY <1>1, <2>1
    <3>2. Kind(j) = "LABEL"
      BY <1>5, <3>1, EarlierStay
    <3> QED BY <1>1, <1>2, <3>1, <3>2 DEF LabelsAt
  <2>2. CASE ~(j <= n)
    <3>1. PICK i \in 1 .. m : j = n + i
      <4>1. j - n \in 1 .. m /\ j = n + (j - n)
        BY <1>1, <2>2
      <4> QED BY <4>1
    <3> QED BY <1>5, <3>1
  <2> QED BY <2>1, <2>2
<1>6. Tuple(labels', l) /\ Tuple(at, l)
  BY <1>2 DEF LabelsAt
<1> QED BY <1>1, <1>2, <1>3, <1>4, <1>5, <1>6 DEF LabelsAt

\* A label more.
LEMMA LabelAdded ==
  ASSUME NEW n, Extended(n, 1), NEW at, LabelsAt(at), NEW name, NEW value,
         labels' = Append(labels, [name |-> name, value |-> value]),
         Kind(n + 1)' = "LABEL", slots'[n + 1].statement.name = name,
         LabelIs(n + 1, value)'
  PROVE  \E d : LabelsAt(d)'
<1>1. n \in Nat /\ n = Len(slots) /\ n + 1 = Len(slots')
  BY DEF Extended
<1>2. PICK l : l = Len(labels) /\ l \in Nat /\ Tuple(labels, l) /\ Tuple(at, l)
  BY DEF LabelsAt, Tuple
<1>3. PICK x, c : x = [name |-> name, value |-> value] /\ c = labels' /\ c = Append(labels, x)
  OBVIOUS
<1>4. Appends(c, labels, l, x)
  BY <1>2, <1>3, TupleAppend DEF IsAppend
<1>5. Tuple(c, l + 1) /\ c[l + 1] = x /\ (\A r \in 1 .. l : c[r] = labels[r]) /\ Len(c) = l + 1
  BY <1>4, TupleSeq DEF Appends
<1>6. PICK d : d = [r \in 1 .. l + 1 |-> IF r = l + 1 THEN n + 1 ELSE at[r]]
  OBVIOUS
<1>7. Tuple(d, l + 1) /\ d[l + 1] = n + 1 /\ \A r \in 1 .. l : d[r] = at[r]
  BY <1>2, <1>6 DEF Tuple
<1>8. \A r \in 1 .. l + 1 : r \in 1 .. l \/ r = l + 1
  BY <1>2
<1>9. ASSUME NEW r \in 1 .. l
      PROVE  d[r] \in 1 .. n /\ Kind(d[r]) = "LABEL" /\ labels[r].name = slots[d[r]].statement.name
             /\ LabelIs(d[r], labels[r].value)
  BY <1>1, <1>2, <1>7 DEF LabelsAt
<1>10. ASSUME NEW r \in 1 .. l + 1
       PROVE  /\ d[r] \in 1 .. n + 1 /\ Kind(d[r])' = "LABEL"
              /\ labels'[r].name = slots'[d[r]].statement.name
              /\ LabelIs(d[r], labels[r].value)'
  <2>1. CASE r = l + 1
    <3>1. d[r] = n + 1 /\ labels'[r] = x
      BY <1>3, <1>5, <1>7, <2>1
    <3>2. x.name = name /\ x.value = value
      BY <1>3
    <3>3. n + 1 \in 1 .. n + 1
      BY <1>1
    <3> QED BY <3>1, <3>2, <3>3
  <2>2. CASE r \in 1 .. l
    <3>1. PICK j, v : j = d[r] /\ v = labels[r].value
      OBVIOUS
    <3>2. j \in 1 .. n /\ Kind(j) = "LABEL" /\ labels[r].name = slots[j].statement.name /\ LabelIs(j, v)
      BY <1>9, <2>2, <3>1
    <3>3. Kind(j)' = Kind(j) /\ slots'[j] = slots[j] /\ (LabelIs(j, v)' <=> LabelIs(j, v))
      BY <3>2, EarlierStay DEF Extended
    <3>4. j \in 1 .. n + 1 /\ labels'[r] = labels[r]
      BY <1>1, <1>3, <1>5, <2>2, <3>2
    <3> QED BY <3>1, <3>2, <3>3, <3>4
  <2> QED BY <1>8, <2>1, <2>2
<1>11. ASSUME NEW r \in 1 .. l + 1, NEW q \in 1 .. l + 1, r < q
       PROVE  d[r] < d[q]
  <2>1. r \in 1 .. l
    BY <1>2, <1>11
  <2>2. CASE q = l + 1
    <3>1. d[r] \in 1 .. n /\ d[q] = n + 1
      BY <1>7, <1>9, <2>1, <2>2
    <3> QED BY <1>1, <3>1
  <2>3. CASE q \in 1 .. l
    BY <1>2, <1>7, <1>11, <2>1, <2>3 DEF LabelsAt
  <2> QED BY <1>8, <2>2, <2>3
<1>12. ASSUME NEW j \in 1 .. n + 1, Kind(j)' = "LABEL"
       PROVE  \E r \in 1 .. l + 1 : d[r] = j
  <2>1. CASE j = n + 1
    <3>1. l + 1 \in 1 .. l + 1
      BY <1>2
    <3> QED BY <1>7, <2>1, <3>1
  <2>2. CASE j # n + 1
    <3>1. j \in 1 .. n
      BY <1>1, <2>2
    <3>2. Kind(j) = "LABEL"
      BY <1>12, <3>1, EarlierStay
    <3>3. PICK r \in 1 .. l : at[r] = j
      BY <1>1, <1>2, <3>1, <3>2 DEF LabelsAt
    <3>4. r \in 1 .. l + 1 /\ d[r] = j
      BY <1>2, <1>7, <3>3
    <3> QED BY <3>4
  <2> QED BY <2>1, <2>2
<1>13. LabelsAt(d)'
  <2>1. Len(labels') = l + 1 /\ Len(slots') = n + 1 /\ Tuple(labels', l + 1) /\ Tuple(d, l + 1)
    BY <1>1, <1>3, <1>5, <1>7
  <2>2. \A r \in 1 .. l + 1 :
          /\ d[r] \in 1 .. n + 1 /\ Kind(d[r])' = "LABEL"
          /\ labels'[r].name = slots'[d[r]].statement.name
          /\ LabelIs(d[r], labels[r].value)'
    BY <1>10
  <2>3. \A r, q \in 1 .. l + 1 : r < q => d[r] < d[q]
    BY <1>11
  <2>4. \A j \in 1 .. n + 1 : Kind(j)' = "LABEL" => \E r \in 1 .. l + 1 : d[r] = j
    BY <1>12
  <2> QED BY <2>1, <2>2, <2>3, <2>4 DEF LabelsAt
<1> QED BY <1>13
-----------------------------------------------------------------------------
(***************************************************************************)
(* The first pass.                                                         *)
(***************************************************************************)
Marking == {"SEGMENT_CODE", "SEGMENT_DATA", "INSTRUCTION"}

\* Entries that mark no segment leave it.
LEMMA SegmentKept ==
  ASSUME NEW n, NEW m, Extended(n, m), \A i \in 1 .. m : Kind(n + i)' \notin Marking
  PROVE  InData((n + m) + 1)' <=> InData(n + 1)
<1>1. n \in Nat /\ m \in Nat
  BY DEF Extended
<1>2. PICK before, after : before = Marks(n + 1)' /\ after = Marks((n + m) + 1)'
  OBVIOUS
<1>3. after = before
  <2>1. ASSUME NEW j \in 1 .. n + m, Kind(j)' \in Marking
        PROVE  j \in 1 .. n
    <3> SUFFICES ASSUME j \notin 1 .. n
                 PROVE  FALSE
      OBVIOUS
    <3>1. j - n \in 1 .. m /\ n + (j - n) = j
      BY <1>1
    <3>2. PICK i \in 1 .. m : n + i = j
      BY <3>1
    <3> QED BY <2>1, <3>2
  <2>2. ((n + m) + 1) - 1 = n + m /\ (n + 1) - 1 = n /\ \A j \in 1 .. n : j \in 1 .. n + m
    BY <1>1
  <2>3. /\ after = {j \in 1 .. ((n + m) + 1) - 1 : Kind(j)' \in Marking}
        /\ before = {j \in 1 .. (n + 1) - 1 : Kind(j)' \in Marking}
    BY <1>2 DEF Marks, Marking
  <2> QED BY <2>1, <2>2, <2>3
<1>4. InData((n + m) + 1)' <=> InData(n + 1)'
  BY <1>2, <1>3 DEF InData, Kind
<1>5. InData(n + 1)' = InData(n + 1)
  <2>1. n + 1 \in 1 .. n + 1
    BY <1>1
  <2> QED BY <2>1, EarlierStay
<1> QED BY <1>4, <1>5

\* One entry more.
LEMMA AddExtends ==
  ASSUME NEW s \in Known, NEW address, EntriesOK, Add(s, address)
  PROVE  \E n : /\ Extended(n, 1) /\ slots'[n + 1] = Slot(s, address)
                /\ slots'[n + 1].statement = s /\ slots'[n + 1].address = address
                /\ Kind(n + 1)' = s.kind
<1>1. PICK n, c, x : n = Len(slots) /\ x = Slot(s, address) /\ c = slots' /\ c = Append(slots, x)
  BY DEF Add
<1>2. Tuple(slots, n) /\ n \in Nat
  BY <1>1 DEF EntriesOK, Tuple
<1>3. Appends(c, slots, n, x)
  BY <1>1, <1>2, TupleAppend DEF IsAppend
<1>4. Tuple(c, n + 1) /\ c[n + 1] = x /\ (\A i \in 1 .. n : c[i] = slots[i]) /\ Len(c) = n + 1
  BY <1>3, TupleSeq DEF Appends
<1>5. Extended(n, 1)
  BY <1>1, <1>2, <1>4 DEF Extended
<1>6. x.statement = s /\ x.address = address
  BY <1>1 DEF Slot
<1> QED BY <1>1, <1>4, <1>5, <1>6 DEF Kind

\* Once a statement is read.
LEMMA EntryCounted ==
  ASSUME CountInv, NEW n, Extended(n, 1), NEW p, NEW q, p = byte_index, q = byte_index',
         q \in Int, slots'[n + 1].address \in Int, Counts(n + 1, p, q)', phase' = "parse",
         mode' = CASE Kind(n + 1)' = "SEGMENT_DATA" -> "DATA"
                   [] Kind(n + 1)' \in {"SEGMENT_CODE", "INSTRUCTION"} -> "CODE"
                   [] OTHER -> mode,
         \E at : LabelsAt(at)'
  PROVE  CountInv'
<1>1. n \in Nat /\ n = Len(slots) /\ n + 1 = Len(slots')
  BY DEF Extended
<1>2. (IF InData((n + 1) + 1)' THEN "DATA" ELSE "CODE") = mode'
  <2>1. InData((n + 1) + 1)' <=> \/ Kind(n + 1)' = "SEGMENT_DATA"
                                 \/ Kind(n + 1)' \notin {"SEGMENT_CODE", "INSTRUCTION"} /\ InData(n + 1)'
    BY <1>1, SegmentAfter
  <2>2. InData(n + 1)' = InData(n + 1)
    <3>1. n + 1 \in 1 .. n + 1
      BY <1>1
    <3> QED BY <3>1, EarlierStay
  <2>3. (IF InData(n + 1) THEN "DATA" ELSE "CODE") = mode
    BY <1>1 DEF CountInv
  <2>4. CASE Kind(n + 1)' = "SEGMENT_DATA"
    BY <2>1, <2>4
  <2>5. CASE Kind(n + 1)' \in {"SEGMENT_CODE", "INSTRUCTION"}
    BY <2>1, <2>5
  <2>6. CASE Kind(n + 1)' \notin {"SEGMENT_CODE", "INSTRUCTION", "SEGMENT_DATA"}
    <3>1. mode' = mode
      BY <2>6
    <3> QED BY <2>1, <2>2, <2>3, <2>6, <3>1
  <2> QED BY <2>4, <2>5, <2>6
<1>3. \E d : Tally(d)'
  <2>1. PICK b : Tally(b)
    BY DEF CountInv
  <2>2. PICK c : c = [i \in 0 .. 1 |-> IF i = 0 THEN p ELSE q]
    OBVIOUS
  <2>3. c[0] = byte_index /\ c[1] = byte_index'
    BY <2>2
  <2>4. \A i \in 1 .. 1 : Counts(n + i, c[i - 1], c[i])'
    <3> SUFFICES ASSUME NEW i \in 1 .. 1
                 PROVE  Counts(n + i, c[i - 1], c[i])'
      OBVIOUS
    <3>1. i = 1 /\ i - 1 = 0
      OBVIOUS
    <3>2. n + i = n + 1 /\ c[i - 1] = p /\ c[i] = q
      BY <2>2, <3>1
    <3> QED BY <3>2
  <2> QED BY <2>1, <2>3, <2>4, TallyGrows
<1>4. Resolvable' \/ phase' \notin {"emit", "image"}
  OBVIOUS
<1>5. \A k \in 1 .. n + 1 : slots'[k].address \in Int
  <2>1. \A k \in 1 .. n + 1 : k \in 1 .. n \/ k = n + 1
    BY <1>1
  <2> QED BY <1>1, <2>1 DEF CountInv, Extended
<1> QED BY <1>1, <1>2, <1>3, <1>4, <1>5 DEF CountInv
ModeAfter(kind) ==
  CASE kind = "SEGMENT_DATA" -> "DATA"
    [] kind \in {"SEGMENT_CODE", "INSTRUCTION"} -> "CODE"
    [] OTHER -> mode

LEMMA EntryAdded ==
  ASSUME EntriesOK, CountInv, NEW s \in Known, s.kind # "LABEL", NEW address, Add(s, address),
         NEW p, NEW q, p = byte_index, q = byte_index', q \in Int, address \in Int,
         CountsAs(s, address, FALSE, p, q),
         mode' = ModeAfter(s.kind), labels' = labels, phase' = "parse"
  PROVE  CountInv'
<1>1. PICK n : /\ Extended(n, 1) /\ slots'[n + 1].statement = s /\ slots'[n + 1].address = address
               /\ Kind(n + 1)' = s.kind
  BY AddExtends
<1>2. Counts(n + 1, p, q)'
  <2>1. \A in_data : CountsAs(s, address, in_data, p, q)
    BY DEF CountsAs
  <2> QED BY <1>1, <2>1 DEF Counts
<1>3. \E at : LabelsAt(at)'
  <2>1. PICK at : LabelsAt(at)
    BY DEF CountInv
  <2>2. \A i \in 1 .. 1 : Kind(n + i)' # "LABEL"
    <3> SUFFICES ASSUME NEW i \in 1 .. 1
                 PROVE  Kind(n + i)' # "LABEL"
      OBVIOUS
    <3>1. i = 1
      OBVIOUS
    <3> QED BY <1>1, <3>1
  <2>3. LabelsAt(at)'
    BY <1>1, <2>1, <2>2, LabelsStay
  <2> QED BY <2>3
<1>4. mode' = CASE Kind(n + 1)' = "SEGMENT_DATA" -> "DATA"
                [] Kind(n + 1)' \in {"SEGMENT_CODE", "INSTRUCTION"} -> "CODE"
                [] OTHER -> mode
  BY <1>1 DEF ModeAfter
<1> QED BY <1>1, <1>2, <1>3, <1>4, EntryCounted

\* A label.
LEMMA LabelCounts ==
  ASSUME EntriesOK, CountInv, NEW s \in Known, s.kind = "LABEL", phase = "parse", Label(s), phase' = phase
  PROVE  CountInv'
<1>1. /\ Add(s, 0) /\ mode' = mode
      /\ labels' = Append(labels, [name |-> s.name,
                                   value |-> IF mode = "CODE" THEN CodeLabel ELSE DataLabel.address])
      /\ byte_index' = IF mode = "CODE" THEN byte_index ELSE DataLabel.byte_index
  BY DEF Label, Stop
<1>2. PICK n : /\ Extended(n, 1) /\ slots'[n + 1].statement = s /\ slots'[n + 1].address = 0
               /\ Kind(n + 1)' = s.kind
  BY <1>1, AddExtends
<1>3. n = Len(slots) /\ n \in Nat /\ Tuple(slots, n) /\ n + 1 \in Nat /\ n + 1 \in 1 .. n + 1
  BY <1>2 DEF Extended, EntriesOK
<1>4. PICK value, name : /\ value = (IF mode = "CODE" THEN CodeLabel ELSE DataLabel.address) /\ name = s.name
                         /\ labels' = Append(labels, [name |-> name, value |-> value])
  BY <1>1
<1>5. (IF InData(n + 1) THEN "DATA" ELSE "CODE") = mode
  BY <1>3 DEF CountInv
<1>6. LabelIs(n + 1, value)
  <2>1. CASE InData(n + 1)
    <3>1. value = DataLabel.address
      BY <1>4, <1>5, <2>1
    <3>2. CountedTo(value, slots, n + 1, TRUE, ChangesBefore(n + 1) # {}, From(n + 1))
      BY <1>3, <3>1, DataCounted
    <3>3. CountedTo(value, slots, n + 1, InData(n + 1), ChangesBefore(n + 1) # {}, From(n + 1))
      BY <2>1, <3>2 DEF CountedTo
    <3> QED BY <3>3 DEF LabelIs
  <2>2. CASE ~InData(n + 1)
    <3>1. value = CodeLabel
      BY <1>4, <1>5, <2>2
    <3>2. CountedTo(value, slots, n + 1, FALSE, ChangesBefore(n + 1) # {}, From(n + 1))
      BY <1>3, <3>1, CodeCounted
    <3>3. CountedTo(value, slots, n + 1, InData(n + 1), ChangesBefore(n + 1) # {}, From(n + 1))
      BY <2>2, <3>2 DEF CountedTo
    <3> QED BY <3>3 DEF LabelIs
  <2> QED BY <2>1, <2>2
<1>7. LabelIs(n + 1, value)'
  BY <1>2, <1>6, EarlierStay
<1>8. PICK at : LabelsAt(at)
  BY DEF CountInv
<1>9. \E d : LabelsAt(d)'
  <2>1. Kind(n + 1)' = "LABEL" /\ slots'[n + 1].statement.name = name
    BY <1>2, <1>4
  <2> QED BY <1>2, <1>4, <1>7, <1>8, <2>1, LabelAdded
<1>10. PICK p, q : p = byte_index /\ q = byte_index'
  OBVIOUS
<1>11. Counts(n + 1, p, q)'
  <2>1. InData(n + 1)' = InData(n + 1)
    BY <1>2, <1>3, EarlierStay
  <2>2. ~InData(n + 1) => q = p
    BY <1>1, <1>5, <1>10
  <2>3. CountsAs(s, 0, InData(n + 1), p, q)
    BY <2>2 DEF CountsAs
  <2> QED BY <1>2, <2>1, <2>3 DEF Counts
<1>12. mode' = CASE Kind(n + 1)' = "SEGMENT_DATA" -> "DATA"
                 [] Kind(n + 1)' \in {"SEGMENT_CODE", "INSTRUCTION"} -> "CODE"
                 [] OTHER -> mode
  BY <1>1, <1>2
<1>13. q \in Int /\ slots'[n + 1].address \in Int
  <2>1. /\ byte_index \in Int
        /\ \A k \in 1 .. n : slots[k].statement \in Known /\ slots[k].address \in Int
    BY <1>3 DEF CountInv, EntriesOK
  <2>2. DataLabel.byte_index \in Int
    BY <1>3, <2>1, DataCounted
  <2> QED BY <1>1, <1>2, <1>10, <2>1, <2>2
<1> QED BY <1>2, <1>9, <1>10, <1>11, <1>12, <1>13, EntryCounted

\* A text.
LEMMA TextCounts ==
  ASSUME EntriesOK, CountInv, NEW s \in Known, s.kind = "TEXT", phase = "parse", Text(s), phase' = phase
  PROVE  CountInv'
<1>1. /\ slots' = slots \o [i \in 1 .. s.value |-> Slot(Directive("DB", i), 0)]
      /\ byte_index' = byte_index + s.value /\ mode' = mode /\ labels' = labels
  BY DEF Text, Stop
<1>2. PICK n, m, t, c : /\ n = Len(slots) /\ m = s.value /\ c = slots \o t /\ slots' = c
                        /\ t = [i \in 1 .. m |-> Slot(Directive("DB", i), 0)]
  BY <1>1
<1>3. Tuple(slots, n) /\ n \in Nat /\ m \in Nat /\ Tuple(t, m)
  BY <1>2, KnownIs DEF EntriesOK, Tuple
<1>4. Joins(c, slots, n, t, m)
  BY <1>2, <1>3, Join DEF IsConcat
<1>5. Extended(n, m)
  <2>1. Tuple(c, n + m) /\ Len(c) = n + m
    BY <1>4, TupleSeq DEF Joins
  <2> QED BY <1>2, <1>3, <1>4, <2>1 DEF Extended, Joins
<1>6. \A i \in 1 .. m : slots'[n + i].statement.kind = "DB" /\ Kind(n + i)' = "DB"
  <2> SUFFICES ASSUME NEW i \in 1 .. m
               PROVE  slots'[n + i].statement.kind = "DB" /\ Kind(n + i)' = "DB"
    OBVIOUS
  <2>1. slots'[n + i] = Slot(Directive("DB", i), 0)
    BY <1>2, <1>4 DEF Joins
  <2>2. slots'[n + i].statement.kind = "DB"
    <3>1. Directive("DB", i).kind = "DB"
      BY DEF Directive
    <3>2. slots'[n + i].statement = Directive("DB", i)
      BY <2>1 DEF Slot
    <3> QED BY <3>1, <3>2
  <2> QED BY <2>2 DEF Kind
<1>7. \E at : LabelsAt(at)'
  <2>1. PICK at : LabelsAt(at)
    BY DEF CountInv
  <2>2. LabelsAt(at)'
    BY <1>1, <1>5, <1>6, <2>1, LabelsStay
  <2> QED BY <2>2
<1>8. \E d : Tally(d)'
  <2>1. PICK b : Tally(b)
    BY DEF CountInv
  <2>2. PICK c0 : c0 = [i \in 0 .. m |-> byte_index + i]
    OBVIOUS
  <2>3. byte_index + 0 = byte_index
    <3>1. byte_index \in Int
      BY DEF CountInv
    <3> QED BY <3>1
  <2>4. c0[0] = byte_index /\ c0[m] = byte_index'
    BY <1>1, <1>2, <1>3, <2>2, <2>3
  <2>5. ASSUME NEW i \in 1 .. m
        PROVE  Counts(n + i, c0[i - 1], c0[i])'
    <3>1. PICK p, q : p = c0[i - 1] /\ q = c0[i]
      OBVIOUS
    <3>2. q = p + 1
      <4>1. i - 1 \in 0 .. m /\ i \in 0 .. m
        BY <1>3
      <4>2. byte_index \in Int
        BY DEF CountInv
      <4> QED BY <2>2, <3>1, <4>1, <4>2
    <3>3. \A x, address, in_data : x.kind = "DB" => CountsAs(x, address, in_data, p, q)
      BY <3>2 DEF CountsAs
    <3> QED BY <1>6, <3>1, <3>3 DEF Counts
  <2>6. \A i \in 1 .. m : Counts(n + i, c0[i - 1], c0[i])'
    BY <2>5
  <2> QED BY <1>5, <2>1, <2>4, <2>6, TallyGrows
<1>9. (IF InData((n + m) + 1)' THEN "DATA" ELSE "CODE") = mode'
  <2>1. \A i \in 1 .. m : Kind(n + i)' \notin Marking
    BY <1>6 DEF Marking
  <2>2. InData((n + m) + 1)' <=> InData(n + 1)
    BY <1>5, <2>1, SegmentKept
  <2> QED BY <1>1, <1>2, <2>2 DEF CountInv
<1>10. n + m = Len(slots') /\ byte_index' \in Int
  BY <1>1, <1>2, <1>3, <1>5 DEF Extended, CountInv
<1>11. \A k \in 1 .. n + m : slots'[k].address \in Int
  <2> SUFFICES ASSUME NEW k \in 1 .. n + m
               PROVE  slots'[k].address \in Int
    OBVIOUS
  <2>1. CASE k \in 1 .. n
    BY <1>2, <1>5, <2>1 DEF Extended, CountInv
  <2>2. CASE k \notin 1 .. n
    <3>1. k - n \in 1 .. m /\ n + (k - n) = k
      BY <1>3, <2>2
    <3>2. PICK i \in 1 .. m : k = n + i
      BY <3>1
    <3>3. slots'[k] = Slot(Directive("DB", i), 0)
      BY <1>2, <1>4, <3>2 DEF Joins
    <3> QED BY <3>3 DEF Slot
  <2> QED BY <2>1, <2>2
<1> QED BY <1>7, <1>8, <1>9, <1>10, <1>11 DEF CountInv
\* Every statement keeps the count.
LEMMA StatementCounts ==
  ASSUME EntriesOK, CountInv, NEW s \in Statements \cup Remaining, phase = "parse", Statement(s),
         phase' = phase
  PROVE  CountInv'
<1>1. s \in Known /\ s.kind \in StatementKind
  BY SourcesKnown, KnownIs
<1>2. s.value \in Nat /\ Operands(s) \in Nat
  BY <1>1, KnownCounts
<1>3. PICK p, q : p = byte_index /\ q = byte_index'
  OBVIOUS
<1>4. p \in Int
  BY <1>3 DEF CountInv
<1>5. CASE s.kind = "LABEL"
  BY <1>1, <1>5, LabelCounts DEF Statement
<1>6. CASE s.kind = "TEXT"
  BY <1>1, <1>6, TextCounts DEF Statement
<1>7. CASE s.kind = "ADDRESS"
  <2>1. Add(s, s.value) /\ q = s.value /\ mode' = mode /\ labels' = labels
    BY <1>3, <1>7 DEF Statement, SetAddress
  <2>2. CountsAs(s, s.value, FALSE, p, q)
    BY <1>7, <2>1 DEF CountsAs
  <2>3. mode' = ModeAfter(s.kind)
    BY <1>7, <2>1 DEF ModeAfter
  <2>4. s.value \in Int /\ q \in Int /\ s.kind # "LABEL" /\ phase' = "parse"
    BY <1>2, <1>7, <2>1
  <2> QED BY <1>1, <1>3, <2>1, <2>2, <2>3, <2>4, EntryAdded
<1>8. CASE s.kind = "PAD"
  <2>1. Add(s, s.value) /\ q = p /\ mode' = mode /\ labels' = labels
    BY <1>3, <1>8 DEF Statement, Pad
  <2>2. CountsAs(s, s.value, FALSE, p, q)
    BY <1>8, <2>1 DEF CountsAs
  <2>3. mode' = ModeAfter(s.kind)
    BY <1>8, <2>1 DEF ModeAfter
  <2>4. s.value \in Int /\ q \in Int /\ s.kind # "LABEL" /\ phase' = "parse"
    BY <1>2, <1>4, <1>8, <2>1
  <2> QED BY <1>1, <1>3, <2>1, <2>2, <2>3, <2>4, EntryAdded
<1>9. CASE s.kind = "RESERVE"
  <2>1. Add(s, q) /\ q \in {p + s.value, p + Signed(s.value)} /\ mode' = mode /\ labels' = labels
    <3>1. Reserve(s)
      BY <1>9 DEF Statement
    <3> QED BY <1>3, <3>1 DEF Reserve
  <2>2. CountsAs(s, q, FALSE, p, q)
    BY <1>9, <2>1 DEF CountsAs
  <2>3. mode' = ModeAfter(s.kind)
    BY <1>9, <2>1 DEF ModeAfter
  <2>4. q \in Int /\ s.kind # "LABEL" /\ phase' = "parse"
    <3>1. Signed(s.value) \in Int
      BY <1>2, WordFacts DEF Signed
    <3> QED BY <1>2, <1>4, <1>9, <2>1, <3>1
  <2> QED BY <1>1, <1>3, <2>1, <2>2, <2>3, <2>4, EntryAdded
<1>10. CASE s.kind = "INSTRUCTION"
  <2>1. /\ Add(s, p) /\ q = p + (Operands(s) + (IF OneByte(s.op) THEN 1 ELSE 2))
        /\ mode' = "CODE" /\ labels' = labels
    <3>1. Instruct(s)
      BY <1>10 DEF Statement
    <3> QED BY <1>3, <3>1 DEF Instruct
  <2>2. CountsAs(s, p, FALSE, p, q)
    BY <1>10, <2>1 DEF CountsAs
  <2>3. mode' = ModeAfter(s.kind)
    BY <1>10, <2>1 DEF ModeAfter
  <2>4. q \in Int /\ s.kind # "LABEL" /\ phase' = "parse"
    BY <1>2, <1>4, <1>10, <2>1
  <2> QED BY <1>1, <1>3, <1>4, <2>1, <2>2, <2>3, <2>4, EntryAdded
<1>11. CASE s.kind \in {"STORE_ADDRESS", "RESTORE_ADDRESS"}
  <2>1. Add(s, 0) /\ q = p /\ mode' = mode /\ labels' = labels
    <3>1. StoreOrRestore(s)
      BY <1>11 DEF Statement
    <3> QED BY <1>3, <3>1 DEF StoreOrRestore
  <2>2. CountsAs(s, 0, FALSE, p, q)
    BY <1>11, <2>1 DEF CountsAs
  <2>3. mode' = ModeAfter(s.kind)
    BY <1>11, <2>1 DEF ModeAfter
  <2>4. 0 \in Int /\ q \in Int /\ s.kind # "LABEL" /\ phase' = "parse"
    BY <1>4, <1>11, <2>1
  <2> QED BY <1>1, <1>3, <2>1, <2>2, <2>3, <2>4, EntryAdded
<1>12. CASE s.kind \in {"SEGMENT_CODE", "SEGMENT_DATA"}
  <2>1. Add(s, 0) /\ q = p /\ mode' = (IF s.kind = "SEGMENT_DATA" THEN "DATA" ELSE "CODE") /\ labels' = labels
    <3>1. Segment(s)
      BY <1>12 DEF Statement
    <3> QED BY <1>3, <3>1 DEF Segment
  <2>2. CountsAs(s, 0, FALSE, p, q)
    BY <1>12, <2>1 DEF CountsAs
  <2>3. mode' = ModeAfter(s.kind)
    BY <1>12, <2>1 DEF ModeAfter
  <2>4. 0 \in Int /\ q \in Int /\ s.kind # "LABEL" /\ phase' = "parse"
    BY <1>4, <1>12, <2>1
  <2> QED BY <1>1, <1>3, <2>1, <2>2, <2>3, <2>4, EntryAdded
<1>13. CASE s.kind \in {"DW", "DB", "DEREF", "INCBIN"}
  <2>1. PICK a : a = IF s.kind = "INCBIN" THEN p ELSE 0
    OBVIOUS
  <2>2. /\ Add(s, a) /\ mode' = mode /\ labels' = labels
        /\ q = p + (CASE s.kind = "DW" -> 2 [] s.kind = "DB" -> 1 [] OTHER -> 0)
    <3>1. Data(s)
      BY <1>13 DEF Statement
    <3> QED BY <1>3, <2>1, <3>1 DEF Data, Stop
  <2>3. CountsAs(s, a, FALSE, p, q)
    BY <1>13, <2>2 DEF CountsAs
  <2>4. mode' = ModeAfter(s.kind)
    BY <1>13, <2>2 DEF ModeAfter
  <2>5. a \in Int /\ q \in Int /\ s.kind # "LABEL" /\ phase' = "parse"
    BY <1>4, <1>13, <2>1, <2>2
  <2> QED BY <1>1, <1>3, <2>2, <2>3, <2>4, <2>5, EntryAdded
<1> QED BY <1>1, <1>5, <1>6, <1>7, <1>8, <1>9, <1>10, <1>11, <1>12, <1>13 DEF StatementKind

\* Nothing else changes it.
LEMMA CountStays ==
  ASSUME EntriesOK, CountInv, UNCHANGED parseVars, phase' \in {"emit", "image"} => Resolvable
  PROVE  CountInv'
<1>1. PICK n : n = Len(slots)
  OBVIOUS
<1>2. slots' = slots /\ labels' = labels /\ byte_index' = byte_index /\ mode' = mode
  BY DEF parseVars
<1>3. Extended(n, 0)
  BY <1>1, <1>2 DEF EntriesOK, Extended, Tuple
<1>4. n \in Nat /\ n + 1 \in 1 .. n + 1 /\ Len(slots') = n
  BY <1>1, <1>2, <1>3 DEF Extended
<1>5. (IF InData(n + 1)' THEN "DATA" ELSE "CODE") = mode'
  <2>1. InData(n + 1)' = InData(n + 1)
    BY <1>3, <1>4, EarlierStay
  <2> QED BY <1>1, <1>2, <2>1 DEF CountInv
<1>6. \E b : Tally(b)'
  <2>1. PICK b : Tally(b)
    BY DEF CountInv
  <2>2. \A k \in 1 .. n : Counts(k, b[k], b[k + 1])'
    <3> SUFFICES ASSUME NEW k \in 1 .. n
                 PROVE  Counts(k, b[k], b[k + 1])'
      OBVIOUS
    <3>1. PICK p, q : p = b[k] /\ q = b[k + 1]
      OBVIOUS
    <3>2. Counts(k, p, q)
      BY <1>1, <2>1, <3>1 DEF Tally
    <3>3. Counts(k, p, q)'
      BY <1>3, <3>2, EarlierStay
    <3> QED BY <3>1, <3>3
  <2>3. Tally(b)'
    BY <1>1, <1>2, <1>4, <2>1, <2>2 DEF Tally
  <2> QED BY <2>3
<1>7. \E at : LabelsAt(at)'
  <2>1. PICK at : LabelsAt(at)
    BY DEF CountInv
  <2>2. \A i \in 1 .. 0 : Kind(n + i)' # "LABEL"
    OBVIOUS
  <2>3. LabelsAt(at)'
    BY <1>2, <1>3, <2>1, <2>2, LabelsStay
  <2> QED BY <2>3
<1>8. phase' \in {"emit", "image"} => Resolvable'
  BY <1>2 DEF Resolvable, Definitions
<1>9. byte_index' \in Int /\ \A k \in 1 .. n : slots'[k].address \in Int
  BY <1>1, <1>2 DEF CountInv
<1> QED BY <1>4, <1>5, <1>6, <1>7, <1>8, <1>9 DEF CountInv

LEMMA CountNext == AsmInv /\ CountInv /\ [Next]_asmVars => CountInv'
<1> SUFFICES ASSUME AsmInv, CountInv, [Next]_asmVars
             PROVE  CountInv'
  OBVIOUS
<1>1. EntriesOK
  BY DEF AsmInv, AsmType
<1>2. CASE Parse
  <2>1. PICK s \in Statements \cup Remaining : IF Breach THEN Stop("null") ELSE Statement(s)
    BY <1>2 DEF Parse
  <2>2. CASE \E how \in {"null", "exit"} : Stop(how)
    BY <1>1, <2>2, CountStays DEF Stop
  <2>3. CASE Statement(s) /\ phase' = phase
    BY <1>1, <1>2, <2>3, StatementCounts DEF Parse
  <2> QED BY <2>1, <2>2, <2>3, StatementGoesOn
<1>3. CASE Resolve
  BY <1>1, <1>3, CountStays DEF Resolve
<1>4. CASE UNCHANGED parseVars /\ (phase' = phase \/ phase = "emit")
  BY <1>1, <1>4, CountStays DEF CountInv
<1>5. CASE ChangeAddress \/ PadAddress \/ StoreAddress \/ RestoreAddress \/ Skip \/ Write \/ BadPad \/ Finish
  BY <1>4, <1>5 DEF ChangeAddress, PadAddress, StoreAddress, RestoreAddress, Skip, Write, BadPad,
                    Finish, Stop
<1>6. CASE UNCHANGED asmVars
  BY <1>4, <1>6 DEF asmVars
<1> QED BY <1>2, <1>3, <1>5, <1>6 DEF Next

LEMMA CountStart == Init => CountInv
<1> SUFFICES ASSUME Init
             PROVE  CountInv
  OBVIOUS
<1>1. PICK none : none = <<>>
  OBVIOUS
<1>2. Tuple(none, 0) /\ slots = none /\ labels = none /\ Len(none) = 0 /\ 1 .. 0 = {} /\ 0 + 1 = 1
  <2>1. Tuple(none, 0)
    BY <1>1 DEF Tuple
  <2> QED BY <1>1, <2>1, TupleSeq DEF Init
<1>3. ~InData(0 + 1)
  <2>1. Marks(0 + 1) = {}
    BY <1>2 DEF Marks
  <2> QED BY <2>1 DEF InData
<1>4. \E b : Tally(b)
  <2>1. PICK b : b = [i \in 1 .. 1 |-> 0]
    OBVIOUS
  <2>2. Tuple(b, 1) /\ b[1] = 0
    BY <2>1 DEF Tuple
  <2>3. byte_index = 0
    BY DEF Init
  <2>4. Tally(b)
    BY <1>2, <2>2, <2>3 DEF Tally
  <2> QED BY <2>4
<1>5. LabelsAt(none)
  BY <1>2 DEF LabelsAt
<1> QED BY <1>2, <1>3, <1>4, <1>5 DEF CountInv, Init
-----------------------------------------------------------------------------
(***************************************************************************)
(* Where the last pass goes from entry to entry.                           *)
(***************************************************************************)
\* Entry k is met at p and the next one at q.
Moves(k, p, q) ==
  LET s == slots[k].statement
  IN /\ s.kind \in {"LABEL", "SEGMENT_CODE", "SEGMENT_DATA"} => q = p
     /\ s.kind = "ADDRESS" => q = Wrap(s.value)
     /\ s.kind = "RESERVE" => q = Wrap(p + s.value)
     /\ IsItem(k) /\ ~(p > SEGMENT_CODE_END) => q = Wrap(p + Len(Bytes(slots[k])))

PlaceAfter(k) == IF k < item - 1 THEN place[k + 1] ELSE index

PlaceInv ==
  /\ (IF item = 1 THEN index ELSE place[1]) = 0
  /\ \A k \in 1 .. item - 1 : Moves(k, place[k], PlaceAfter(k))

LEMMA PlaceMoves ==
  ASSUME EntriesOK, OutputOK, PlaceInv, Advance, UNCHANGED <<slots, labels, phase>>,
         NEW p, NEW q, p = index, q = index', Moves(item, p, q)
  PROVE  PlaceInv'
<1>1. PICK n : n = item
  OBVIOUS
<1>2. n \in Nat \ {0} /\ item' = n + 1 /\ place'[n] = p /\ \A i \in 1 .. n - 1 : place'[i] = place[i]
  BY <1>1, Advances DEF EntriesOK, Tuple
<1>3. \A slot : Bytes(slot)' = Bytes(slot)
  BY BytesStay
<1>4. \A k, x, y : Moves(k, x, y)' <=> Moves(k, x, y)
  BY <1>3 DEF Moves, IsItem, Kind
<1>5. place'[1] = 0
  <2>1. CASE n = 1
    BY <1>1, <1>2, <2>1 DEF PlaceInv
  <2>2. CASE n # 1
    <3>1. 1 \in 1 .. n - 1
      BY <1>2, <2>2
    <3> QED BY <1>1, <1>2, <2>2, <3>1 DEF PlaceInv
  <2> QED BY <2>1, <2>2
<1>6. ASSUME NEW k \in 1 .. n
      PROVE  Moves(k, place[k], PlaceAfter(k))'
  <2>1. PICK x, y : x = place'[k] /\ y = PlaceAfter(k)'
    OBVIOUS
  <2>2. PlaceAfter(k)' = IF k < n THEN place'[k + 1] ELSE q
    <3>1. item' - 1 = n
      BY <1>2
    <3> QED BY <3>1 DEF PlaceAfter
  <2>3. CASE k = n
    <3>1. x = p /\ y = q
      BY <1>2, <2>1, <2>2, <2>3
    <3>2. Moves(k, x, y)
      BY <1>1, <2>3, <3>1
    <3> QED BY <1>4, <2>1, <3>2
  <2>4. CASE k # n
    <3>1. k \in 1 .. n - 1 /\ k < n
      BY <1>2, <2>4
    <3>2. x = place[k]
      BY <1>2, <2>1, <3>1
    <3>3. y = PlaceAfter(k)
      <4>1. CASE k = n - 1
        <5>1. ~(k < n - 1) /\ k + 1 = n
          BY <1>2, <4>1
        <5>2. PlaceAfter(k) = p
          BY <1>1, <5>1 DEF PlaceAfter
        <5> QED BY <1>2, <2>1, <2>2, <3>1, <5>1, <5>2
      <4>2. CASE k # n - 1
        <5>1. k < n - 1 /\ k + 1 \in 1 .. n - 1
          BY <1>2, <3>1, <4>2
        <5>2. PlaceAfter(k) = place[k + 1]
          BY <1>1, <5>1 DEF PlaceAfter
        <5> QED BY <1>2, <2>1, <2>2, <3>1, <5>1, <5>2
      <4> QED BY <4>1, <4>2
    <3>4. Moves(k, x, y)
      BY <1>1, <3>1, <3>2, <3>3 DEF PlaceInv
    <3> QED BY <1>4, <2>1, <3>4
  <2> QED BY <2>3, <2>4
<1>7. item' - 1 = n /\ item' # 1
  BY <1>2
<1> QED BY <1>5, <1>6, <1>7 DEF PlaceInv

LEMMA PlaceStays ==
  ASSUME PlaceInv, UNCHANGED <<item, place, index, slots, labels>>
  PROVE  PlaceInv'
<1>1. \A slot : Bytes(slot)' = Bytes(slot)
  BY BytesStay
<1>2. \A k, x, y : Moves(k, x, y)' <=> Moves(k, x, y)
  BY <1>1 DEF Moves, IsItem, Kind
<1>3. \A k : PlaceAfter(k)' = PlaceAfter(k)
  BY DEF PlaceAfter
<1> QED BY <1>2, <1>3 DEF PlaceInv

LEMMA PlaceNext == AsmInv /\ PlaceInv /\ [Next]_asmVars => PlaceInv'
<1> SUFFICES ASSUME AsmInv, PlaceInv, [Next]_asmVars
             PROVE  PlaceInv'
  OBVIOUS
<1>1. EntriesOK /\ OutputOK /\ AsmType
  BY DEF AsmInv, AsmType
<1>2. PICK p, q : p = index /\ q = index'
  OBVIOUS
<1>3. CASE UNCHANGED <<item, place, index, slots, labels>>
  BY <1>3, PlaceStays
<1>4. CASE Parse
  <2>1. PICK s \in Statements \cup Remaining : IF Breach THEN Stop("null") ELSE Statement(s)
    BY <1>4 DEF Parse
  <2>2. CASE \E how \in {"null", "exit"} : Stop(how)
    BY <1>3, <2>2 DEF Stop, parseVars, emitVars
  <2>3. CASE Statement(s) /\ phase' = phase
    <3>1. phase = "parse" /\ UNCHANGED emitVars
      BY <1>1, <1>4, <2>3, ParseGrows DEF Parse
    <3>2. item' = 1 /\ item = 1 /\ index' = index
      BY <1>1, <3>1 DEF EntriesOK, emitVars
    <3>3. 1 .. item' - 1 = {}
      BY <3>2
    <3> QED BY <3>2, <3>3 DEF PlaceInv
  <2> QED BY <2>1, <2>2, <2>3, StatementGoesOn
<1>5. CASE Resolve
  BY <1>3, <1>5 DEF Resolve, parseVars, emitVars
<1>6. CASE ChangeAddress
  <2>1. Advance /\ UNCHANGED <<slots, labels, phase>>
    BY <1>6 DEF ChangeAddress, parseVars
  <2>2. Moves(item, p, q)
    <3>1. Entry.kind \in {"ADDRESS", "RESERVE"}
          /\ q = IF Entry.kind = "ADDRESS" THEN Wrap(Entry.value) ELSE Wrap(p + Entry.value)
      BY <1>2, <1>6 DEF ChangeAddress, Reach
    <3> QED BY <3>1 DEF Moves, Entry, IsItem, Kind
  <2> QED BY <1>1, <1>2, <2>1, <2>2, PlaceMoves
<1>7. CASE PadAddress \/ StoreAddress \/ RestoreAddress
  <2>1. /\ Advance /\ UNCHANGED <<slots, labels, phase>>
        /\ Entry.kind \in {"PAD", "STORE_ADDRESS", "RESTORE_ADDRESS"}
    BY <1>7 DEF PadAddress, StoreAddress, RestoreAddress, parseVars
  <2>2. Moves(item, p, q)
    BY <2>1 DEF Moves, Entry, IsItem, Kind
  <2> QED BY <1>1, <1>2, <2>1, <2>2, PlaceMoves
<1>8. CASE Skip
  <2>1. Advance /\ UNCHANGED <<slots, labels, phase>> /\ q = p
    BY <1>2, <1>8 DEF Skip, parseVars
  <2>2. Moves(item, p, q)
    <3>1. \/ Entry.kind \in {"LABEL", "SEGMENT_CODE", "SEGMENT_DATA"}
          \/ Entry.kind \in {"INSTRUCTION", "DW", "DB", "DEREF", "INCBIN"} /\ p > SEGMENT_CODE_END
      BY <1>2, <1>8 DEF Skip, Outside
    <3> QED BY <2>1, <3>1 DEF Moves, Entry, IsItem, Kind
  <2> QED BY <1>1, <1>2, <2>1, <2>2, PlaceMoves
<1>9. CASE Write
  <2>1. Advance /\ UNCHANGED <<slots, labels, phase>>
    BY <1>9 DEF Write, parseVars
  <2>2. PICK bytes, n, w : /\ bytes = Bytes(slots[item]) /\ n = Len(bytes) /\ n \in Nat /\ w = Written(bytes)
                           /\ w.index = Wrap(index + n) /\ w.index \in Address
    BY <1>1, <1>9, WriteIs
  <2>3. q = w.index
    BY <1>2, <1>9, <2>2 DEF Write, Reach
  <2>4. Moves(item, p, q)
    <3>1. Entry.kind \in {"INSTRUCTION", "DW", "DB", "DEREF", "INCBIN"}
      BY <1>9 DEF Write
    <3> QED BY <1>2, <2>2, <2>3, <3>1 DEF Moves, Entry
  <2> QED BY <1>1, <1>2, <2>1, <2>4, PlaceMoves
<1>10. CASE BadPad \/ Finish
  BY <1>3, <1>10 DEF BadPad, Finish, Stop, parseVars, emitVars
<1>11. CASE UNCHANGED asmVars
  BY <1>3, <1>11 DEF asmVars, parseVars, emitVars
<1> QED BY <1>4, <1>5, <1>6, <1>7, <1>8, <1>9, <1>10, <1>11 DEF Next

LEMMA PlaceStart == Init => PlaceInv
<1> SUFFICES ASSUME Init
             PROVE  PlaceInv
  OBVIOUS
<1>1. item = 1 /\ index = 0 /\ 1 .. item - 1 = {}
  BY DEF Init
<1> QED BY <1>1 DEF PlaceInv
-----------------------------------------------------------------------------
(***************************************************************************)
(* The two passes agree.                                                   *)
(***************************************************************************)
\* The bytes of an entry in number.
LEMMA Lengths ==
  ASSUME NEW slot, NEW s, s = slot.statement, s \in Known
  PROVE  /\ s.kind = "INSTRUCTION" =>
              Len(Bytes(slot)) = PageOf(s.op) + Operands(s) + (IF OneByte(s.op) THEN 0 ELSE 1)
         /\ s.kind \in {"DW", "DEREF"} => Len(Bytes(slot)) = 2
         /\ s.kind = "DB" => Len(Bytes(slot)) = 1
<1>1. CASE s.kind = "INSTRUCTION"
  <2>1. Encodable(s) /\ s.no_cache \in BOOLEAN
    BY <1>1, KnownIs
  <2>2. PICK b : b = Bytes(slot) /\ b = InstructionBytes(slot)
    BY <1>1 DEF Bytes
  <2>3. PICK p, x, r : Laid(slot, s, p, x, r, b)
    BY <2>1, <2>2, Layout
  <2>4. PICK n : Tuple(b, n) /\ n = IF OneByte(s.op) THEN p ELSE p + 1 + x + r
    BY <2>3 DEF Laid
  <2>5. Len(b) = n
    <3>1. Tuple(b, n)
      BY <2>4
    <3> QED BY <3>1, TupleSeq
  <2>6. p = PageOf(s.op) /\ Operands(s) = x + r /\ x \in Nat /\ r \in Nat /\ p \in Nat
    BY <2>3 DEF Laid, Operands
  <2>7. OneByte(s.op) => x = 0 /\ r = 0
    BY <2>1, <2>3 DEF Encodable, Laid
  <2> QED BY <1>1, <2>2, <2>4, <2>5, <2>6, <2>7
<1>2. CASE s.kind \in {"DW", "DEREF"}
  <2>1. PICK x, y : Bytes(slot) = <<x, y>>
    BY <1>2 DEF Bytes
  <2> QED BY <1>2, <2>1
<1>3. CASE s.kind = "DB"
  <2>1. Bytes(slot) = <<s.value>>
    BY <1>3 DEF Bytes
  <2> QED BY <1>3, <2>1
<1> QED BY <1>1, <1>2, <1>3

\* One round less is the same address.
LEMMA WrapRound == \A i \in Int : Wrap(i - WORDS) = Wrap(i)
<1> SUFFICES ASSUME NEW i \in Int
             PROVE  Wrap(i - WORDS) = Wrap(i)
  OBVIOUS
<1>1. PICK n \in Nat \ {0} : n = WORDS
  BY Places
<1>2. PICK q, r : q = i \div n /\ r = i % n /\ q \in Int /\ r \in 0 .. n - 1 /\ i = q * n + r
  <2>1. i \div n \in Int /\ i % n \in 0 .. n - 1 /\ i = (i \div n) * n + (i % n)
    BY <1>1
  <2> QED BY <2>1
<1>3. PICK a, k : k = q - 1 /\ k \in Int /\ a = i - n /\ a \in Int /\ a = k * n + r
  <2>1. (q - 1) * n = q * n - n
    BY <1>1, <1>2
  <2>2. i - n = (q - 1) * n + r /\ q - 1 \in Int /\ i - n \in Int
    BY <1>1, <1>2, <2>1
  <2> QED BY <2>2
<1>4. a % n = r
  <2>1. a \in Int /\ n \in Nat \ {0} /\ k \in Int /\ r \in 0 .. n - 1 /\ a = k * n + r
    BY <1>2, <1>3
  <2>2. \A x, y : y \in 0 .. n - 1 /\ x = k * n + y /\ x \in Int => x % n = y
    BY <2>1, Division
  <2> QED BY <2>1, <2>2
<1> QED BY <1>1, <1>2, <1>3, <1>4 DEF Wrap

\* The same number added at a place and at a count for it.
LEMMA Together ==
  \A b, d \in Int : \A p : Wrap(b) = p => b + d \in Int /\ Wrap(b + d) = Wrap(p + d)
BY WrapTwice

LEMMA RoundTrip ==
  ASSUME NEW a \in Int, NEW v \in Int, NEW w, w = Wrap(v - a - 4)
  PROVE  Wrap(Wrap(a + 4) + w) = Wrap(v)
<1>1. PICK x, y : x = a + 4 /\ y = v - a - 4 /\ x \in Int /\ y \in Int /\ x + y = v
  OBVIOUS
<1>2. Wrap(y) \in Int
  BY <1>1, Places
<1>3. Wrap(Wrap(x) + Wrap(y)) = Wrap(x + Wrap(y))
  BY <1>1, <1>2, WrapTwice
<1>4. x + Wrap(y) = Wrap(y) + x /\ y + x = v
  BY <1>1, <1>2
<1>5. Wrap(Wrap(y) + x) = Wrap(y + x)
  BY <1>1, WrapTwice
<1> QED BY <1>1, <1>3, <1>4, <1>5

\* At the end.
LEMMA AtTheEnd ==
  ASSUME AsmInv, PlaceInv, phase = "image", NEW n, n = Len(slots)
  PROVE  /\ n \in Nat /\ item = n + 1 /\ DOMAIN slots = 1 .. n
         /\ n > 0 => place[1] = 0
         /\ \A k \in 1 .. n : place[k] \in Address /\ slots[k].statement \in Known
         /\ \A k \in 1 .. n - 1 : Moves(k, place[k], place[k + 1])
<1>1. n \in Nat /\ item = n + 1 /\ item - 1 = n /\ DOMAIN slots = 1 .. n
  BY TupleSeq DEF AsmInv, AsmType, EntriesOK, Tuple
<1>2. \A k \in 1 .. n : place[k] \in Address /\ slots[k].statement \in Known
  BY <1>1 DEF AsmInv, AsmType, EntriesOK
<1>3. \A k \in 1 .. n - 1 : Moves(k, place[k], place[k + 1])
  <2> SUFFICES ASSUME NEW k \in 1 .. n - 1
               PROVE  Moves(k, place[k], place[k + 1])
    OBVIOUS
  <2>1. k < n /\ k \in 1 .. n
    BY <1>1
  <2>2. PlaceAfter(k) = place[k + 1]
    BY <1>1, <2>1 DEF PlaceAfter
  <2> QED BY <1>1, <2>1, <2>2 DEF PlaceInv
<1>4. n > 0 => place[1] = 0
  BY <1>1 DEF PlaceInv
<1> QED BY <1>1, <1>2, <1>3, <1>4

\* From one entry to the next byte_index goes where the last pass goes.
LEMMA CountedMove ==
  ASSUME AsmInv, PlaceInv, phase = "image", NEW b, Tally(b), NEW k \in 1 .. Len(slots) - 1,
         Kind(k) \notin {"PAD", "STORE_ADDRESS", "RESTORE_ADDRESS", "DEREF", "INCBIN"},
         Kind(k) = "INSTRUCTION" => PageOf(slots[k].statement.op) = 1,
         ~Dropped(k), Kind(k) = "LABEL" => ~InData(k),
         Kind(k) # "ADDRESS" => b[k] \in Int /\ Wrap(b[k]) = place[k]
  PROVE  b[k + 1] \in Int /\ Wrap(b[k + 1]) = place[k + 1]
<1>1. PICK n : n = Len(slots)
  OBVIOUS
<1>2. n \in Nat /\ k \in 1 .. n - 1 /\ k \in 1 .. n
  BY <1>1, AtTheEnd
<1>3. PICK s, p, q, x, y : /\ s = slots[k].statement /\ p = b[k] /\ q = b[k + 1]
                           /\ x = place[k] /\ y = place[k + 1]
  OBVIOUS
<1>4. s \in Known /\ s.kind \in StatementKind /\ s.value \in Nat /\ Kind(k) = s.kind
  BY <1>1, <1>2, <1>3, AtTheEnd, KnownIs DEF Kind
<1>5. Moves(k, x, y) /\ x \in Address
  BY <1>1, <1>2, <1>3, AtTheEnd
<1>6. CountsAs(s, slots[k].address, InData(k), p, q)
  <2>1. Counts(k, p, q)
    BY <1>1, <1>2, <1>3 DEF Tally
  <2> QED BY <1>3, <2>1 DEF Counts
<1>7. IsItem(k) => y = Wrap(x + Len(Bytes(slots[k])))
  BY <1>3, <1>5 DEF Moves, Dropped
<1>8. CASE s.kind = "ADDRESS"
  <2>1. q = s.value /\ y = Wrap(s.value)
    BY <1>3, <1>5, <1>6, <1>8 DEF CountsAs, Moves
  <2> QED BY <1>3, <1>4, <2>1
<1>9. ASSUME s.kind # "ADDRESS"
      PROVE  p \in Int /\ Wrap(p) = x
  BY <1>3, <1>4, <1>9
<1>10. CASE s.kind = "RESERVE"
  <2>1. q \in {p + s.value, p + Signed(s.value)} /\ y = Wrap(x + s.value)
    BY <1>3, <1>5, <1>6, <1>10 DEF CountsAs, Moves
  <2>2. p \in Int /\ p + s.value \in Int /\ Wrap(p + s.value) = y
    <3>1. p \in Int /\ Wrap(p) = x /\ s.value \in Int
      BY <1>4, <1>9, <1>10
    <3> QED BY <2>1, <3>1, Together
  <2>3. CASE Signed(s.value) = s.value
    BY <1>3, <2>1, <2>2, <2>3
  <2>4. CASE Signed(s.value) = s.value - WORDS
    <3>1. p + Signed(s.value) = (p + s.value) - WORDS /\ (p + s.value) - WORDS \in Int
      BY SMTT(40), <1>4, <2>2, <2>4, Places
    <3> QED BY <1>3, <2>1, <2>2, <3>1, WrapRound
  <2> QED BY <2>3, <2>4 DEF Signed
<1>11. CASE s.kind \in {"LABEL", "SEGMENT_CODE", "SEGMENT_DATA"}
  <2>1. q = p
    BY <1>4, <1>6, <1>11 DEF CountsAs
  <2>2. y = x
    BY <1>3, <1>5, <1>11 DEF Moves
  <2> QED BY <1>3, <1>9, <1>11, <2>1, <2>2
<1>12. CASE s.kind \in {"INSTRUCTION", "DW", "DB"}
  <2>1. PICK d : d = Len(Bytes(slots[k]))
    OBVIOUS
  <2>2. q = p + d /\ d \in Int
    <3>1. CASE s.kind = "INSTRUCTION"
      <4>1. d = 1 + Operands(s) + (IF OneByte(s.op) THEN 0 ELSE 1)
        BY <1>3, <1>4, <2>1, <3>1, Lengths
      <4>2. q = p + (Operands(s) + (IF OneByte(s.op) THEN 1 ELSE 2)) /\ Operands(s) \in Nat
        BY <1>4, <1>6, <3>1, KnownCounts DEF CountsAs
      <4> QED BY <4>1, <4>2
    <3>2. CASE s.kind = "DW"
      <4>1. d = 2
        BY <1>3, <1>4, <2>1, <3>2, Lengths
      <4>2. q = p + 2
        BY <1>6, <3>2 DEF CountsAs
      <4> QED BY <4>1, <4>2
    <3>3. CASE s.kind = "DB"
      <4>1. d = 1
        BY <1>3, <1>4, <2>1, <3>3, Lengths
      <4>2. q = p + 1
        BY <1>6, <3>3 DEF CountsAs
      <4> QED BY <4>1, <4>2
    <3> QED BY <1>12, <3>1, <3>2, <3>3
  <2>3. y = Wrap(x + d)
    BY <1>4, <1>7, <1>12, <2>1 DEF IsItem
  <2>4. p \in Int /\ Wrap(p) = x
    BY <1>9, <1>12
  <2>5. p + d \in Int /\ Wrap(p + d) = Wrap(x + d)
    BY <2>2, <2>4, Together
  <2> QED BY <1>3, <2>2, <2>3, <2>5
<1>13. s.kind \notin {"PAD", "STORE_ADDRESS", "RESTORE_ADDRESS", "DEREF", "INCBIN", "TEXT"}
  BY <1>4, <1>6 DEF CountsAs
<1> QED BY <1>4, <1>8, <1>10, <1>11, <1>12, <1>13 DEF StatementKind

\* Where entry i is tracked, byte_index was its place.
LEMMA TrackedPlace ==
  ASSUME AsmInv, PlaceInv, phase = "image", NEW b, Tally(b), NEW i \in 1 .. Len(slots), Tracked(i)
  PROVE  b[i] \in Int /\ Wrap(b[i]) = place[i]
<1>1. PICK n : n = Len(slots)
  OBVIOUS
<1>2. n \in Nat /\ i \in 1 .. n /\ i \in Nat /\ n > 0 /\ place[1] = 0 /\ b[1] = 0
  BY <1>1, AtTheEnd DEF Tally
<1>3. PICK jumps, from : /\ jumps = {j \in 1 .. i - 1 : Kind(j) = "ADDRESS"}
                         /\ from = IF jumps = {} THEN 1 ELSE Max(jumps)
  OBVIOUS
<1>4. \A j \in from .. i - 1 :
        /\ Kind(j) \notin {"PAD", "STORE_ADDRESS", "RESTORE_ADDRESS", "DEREF", "INCBIN"}
        /\ PageOf(slots[j].statement.op) = 1 /\ ~Dropped(j)
        /\ Kind(j) = "LABEL" => ~InData(j)
  BY <1>3 DEF Tracked
<1>5. from \in Nat \ {0} /\ (jumps # {} => from \in 1 .. i - 1 /\ Kind(from) = "ADDRESS")
  <2>1. jumps \subseteq 1 .. i - 1 /\ i - 1 \in Nat
    BY <1>2, <1>3
  <2>2. CASE jumps = {}
    BY <1>3, <2>2
  <2>3. CASE jumps # {}
    <3>1. Max(jumps) \in jumps
      BY <2>1, <2>3, LastOne
    <3>2. from \in jumps /\ from \in 1 .. i - 1
      BY <1>3, <2>1, <2>3, <3>1
    <3> QED BY <1>2, <1>3, <3>2
  <2> QED BY <2>2, <2>3
<1>6. ASSUME NEW k \in from .. i - 1, Kind(k) # "ADDRESS" => b[k] \in Int /\ Wrap(b[k]) = place[k]
      PROVE  b[k + 1] \in Int /\ Wrap(b[k + 1]) = place[k + 1]
  <2>1. k \in 1 .. Len(slots) - 1
    BY <1>1, <1>2, <1>5
  <2> QED BY <1>4, <1>6, <2>1, CountedMove
<1>7. PICK start : start = IF jumps = {} THEN 1 ELSE from + 1
  OBVIOUS
<1>8. start \in from .. i /\ start \in Nat /\ b[start] \in Int /\ Wrap(b[start]) = place[start]
  <2>1. CASE jumps = {}
    <3>1. start = 1 /\ from = 1
      BY <1>3, <1>7, <2>1
    <3>2. Wrap(0) = 0
      BY Places
    <3> QED BY <1>2, <3>1, <3>2
  <2>2. CASE jumps # {}
    <3>1. start = from + 1 /\ from \in 1 .. i - 1 /\ from \in from .. i - 1 /\ Kind(from) = "ADDRESS"
      BY <1>2, <1>5, <1>7, <2>2
    <3> QED BY <1>2, <1>6, <3>1
  <2> QED BY <2>1, <2>2
<1> DEFINE S == {m \in Nat : start + m <= i => b[start + m] \in Int /\ Wrap(b[start + m]) = place[start + m]}
<1>9. 0 \in S
  BY <1>8
<1>10. ASSUME NEW m \in Nat, m \in S
       PROVE  m + 1 \in S
  <2> SUFFICES ASSUME start + (m + 1) <= i
               PROVE  b[start + (m + 1)] \in Int /\ Wrap(b[start + (m + 1)]) = place[start + (m + 1)]
    OBVIOUS
  <2>1. PICK k : k = start + m
    OBVIOUS
  <2>2. k \in from .. i - 1 /\ k + 1 = start + (m + 1) /\ start + m <= i
    BY <1>2, <1>5, <1>8, <2>1
  <2>3. b[k] \in Int /\ Wrap(b[k]) = place[k]
    BY <1>10, <2>1, <2>2
  <2> QED BY <1>6, <2>2, <2>3
<1> HIDE DEF S
<1>11. PICK m \in Nat : start + m = i
  <2>1. i - start \in Nat /\ start + (i - start) = i
    BY <1>2, <1>5, <1>8
  <2> QED BY <2>1
<1>12. m \in S
  BY <1>9, <1>10, Induction
<1> QED BY <1>2, <1>11, <1>12 DEF S
\* What is counted for an entry is its length, for a label in a code segment.
LEMMA CodeMove ==
  ASSUME NEW k, NEW s, s = slots[k].statement, s \in Known, NEW x, NEW y, Moves(k, x, y),
         ~(IsItem(k) /\ x > SEGMENT_CODE_END),
         s.kind \in {"INSTRUCTION", "LABEL", "SEGMENT_CODE", "SEGMENT_DATA"},
         s.kind = "INSTRUCTION" => s.op # "NOP",
         NEW u \in Int, Wrap(u) = x, NEW v, v = u + CodeCount(s)
  PROVE  v \in Int /\ Wrap(v) = y
<1>1. CASE s.kind = "INSTRUCTION"
  <2>1. PICK d : d = Len(Bytes(slots[k]))
    OBVIOUS
  <2>2. d = PageOf(s.op) + Operands(s) + (IF OneByte(s.op) THEN 0 ELSE 1)
    BY <1>1, <2>1, Lengths
  <2>3. PageOf(s.op) \in Nat /\ Operands(s) \in Nat
    BY KnownCounts
  <2>4. CodeCount(s) = Operands(s) + (PageOf(s.op) + (IF OneByte(s.op) THEN 0 ELSE 1))
    BY <1>1 DEF CodeCount
  <2>5. d \in Int /\ v = u + d
    BY <2>2, <2>3, <2>4
  <2>6. y = Wrap(x + d)
    BY <1>1, <2>1 DEF Moves, IsItem, Kind
  <2>7. u + d \in Int /\ Wrap(u + d) = Wrap(x + d)
    BY <2>5, Together
  <2> QED BY <2>5, <2>6, <2>7
<1>2. CASE s.kind \in {"LABEL", "SEGMENT_CODE", "SEGMENT_DATA"}
  <2>1. CodeCount(s) = 0
    BY <1>2 DEF CodeCount
  <2>2. y = x
    BY <1>2 DEF Moves
  <2> QED BY <2>1, <2>2
<1> QED BY <1>1, <1>2

\* The same in a data segment.
LEMMA DataMove ==
  ASSUME NEW k, NEW s, s = slots[k].statement, s \in Known, NEW x, NEW y, Moves(k, x, y),
         ~(IsItem(k) /\ x > SEGMENT_CODE_END),
         s.kind \in {"INSTRUCTION", "LABEL", "SEGMENT_CODE", "SEGMENT_DATA", "DW", "DB", "DEREF"},
         NEW u \in Int, Wrap(u) = x, NEW v, v = AfterData(u, s)
  PROVE  v \in Int /\ Wrap(v) = y
<1>1. PICK d : d = Len(Bytes(slots[k]))
  OBVIOUS
<1>2. ASSUME s.kind \in {"INSTRUCTION", "DW", "DB", "DEREF"}, d \in Int, v = u + d
      PROVE  v \in Int /\ Wrap(v) = y
  <2>1. y = Wrap(x + d)
    BY <1>1, <1>2 DEF Moves, IsItem, Kind
  <2>2. u + d \in Int /\ Wrap(u + d) = Wrap(x + d)
    BY <1>2, Together
  <2> QED BY <1>2, <2>1, <2>2
<1>3. CASE s.kind = "INSTRUCTION"
  <2>1. d = PageOf(s.op) + Operands(s) + (IF OneByte(s.op) THEN 0 ELSE 1)
    BY <1>1, <1>3, Lengths
  <2>2. PageOf(s.op) \in Nat /\ Operands(s) \in Nat
    BY KnownCounts
  <2>3. v = u + 1 + Operands(s) + PageOf(s.op) - (IF OneByte(s.op) THEN 1 ELSE 0)
    BY <1>3 DEF AfterData
  <2>4. d \in Int /\ v = u + d
    BY <2>1, <2>2, <2>3
  <2> QED BY <1>2, <1>3, <2>4
<1>4. CASE s.kind \in {"DW", "DEREF"}
  <2>1. d = 2
    BY <1>1, <1>4, Lengths
  <2>2. v = u + 2
    BY <1>4 DEF AfterData
  <2> QED BY <1>2, <1>4, <2>1, <2>2
<1>5. CASE s.kind = "DB"
  <2>1. d = 1
    BY <1>1, <1>5, Lengths
  <2>2. v = u + 1
    BY <1>5 DEF AfterData
  <2> QED BY <1>2, <1>5, <2>1, <2>2
<1>6. CASE s.kind \in {"LABEL", "SEGMENT_CODE", "SEGMENT_DATA"}
  <2>1. v = u
    BY <1>6 DEF AfterData
  <2>2. y = x
    BY <1>6 DEF Moves
  <2> QED BY <2>1, <2>2
<1> QED BY <1>3, <1>4, <1>5, <1>6

\* What an exact label is given is where its entry is met.
LEMMA ExactPlace ==
  ASSUME AsmInv, CountInv, PlaceInv, phase = "image", NEW j \in 1 .. Len(slots), Exact(j),
         NEW v, LabelIs(j, v)
  PROVE  v \in Int /\ Wrap(v) = place[j]
<1>1. PICK n, changes, from, data :
        /\ n = Len(slots) /\ changes = ChangesBefore(j) /\ from = From(j) /\ data = InData(j)
  OBVIOUS
<1>2. n \in Nat /\ j \in 1 .. n /\ j \in Nat /\ n > 0 /\ place[1] = 0 /\ j - 1 \in Nat
  BY <1>1, AtTheEnd
<1>3. /\ changes = {} => from = 1
      /\ changes # {} => /\ from \in 1 .. j - 1 /\ Kind(from) \in AddressChange
                         /\ \A k \in changes : from >= k
  <2>1. changes \subseteq 1 .. j - 1 /\ from = IF changes = {} THEN 1 ELSE Max(changes)
    BY <1>1 DEF ChangesBefore, From
  <2>2. CASE changes # {}
    <3>1. Max(changes) \in changes /\ \A k \in changes : Max(changes) >= k
      BY <1>2, <2>1, <2>2, LastOne
    <3>2. from \in changes
      BY <2>1, <2>2, <3>1
    <3>3. Kind(from) \in AddressChange
      BY <1>1, <3>2 DEF ChangesBefore
    <3> QED BY <2>1, <2>2, <3>1, <3>2, <3>3
  <2> QED BY <2>1, <2>2
<1>4. from \in Nat \ {0}
  BY <1>2, <1>3
<1>5. /\ changes = {} \/ Kind(from) = "ADDRESS" \/ (Kind(from) = "RESERVE" /\ Tracked(from) /\ ~data)
      /\ \A k \in from .. j - 1 :
           /\ ~Dropped(k) /\ Kind(k) # "INCBIN"
           /\ ~data => /\ Kind(k) \notin {"DW", "DB", "DEREF"}
                       /\ Kind(k) = "INSTRUCTION" => slots[k].statement.op # "NOP"
  BY <1>1 DEF Exact, ChangesBefore, From
<1>6. PICK f :
        /\ v = f[j - 1]
        /\ data => \A k \in 0 .. j - 1 :
             /\ k < from /\ changes = {} => f[k] = 0
             /\ ~(k < from) => f[k] = AfterData(f[k - 1], slots[k].statement)
        /\ ~data => \A k \in 0 .. j - 1 :
             f[k] = IF k < from THEN IF changes # {} THEN slots[from].address - 2 ELSE 0
                    ELSE f[k - 1] + CodeCount(slots[k].statement)
  BY <1>1 DEF LabelIs, CountedTo
<1>7. PICK b : Tally(b)
  BY DEF CountInv
<1>8. \A k \in 1 .. j - 1 : /\ k \in 1 .. n /\ k \in 1 .. n - 1 /\ Moves(k, place[k], place[k + 1])
                            /\ slots[k].statement \in Known
  <2>1. \A k \in 1 .. j - 1 : k \in 1 .. n /\ k \in 1 .. n - 1
    BY <1>2
  <2> QED BY <1>1, <2>1, AtTheEnd
<1> DEFINE At(k) == f[k] \in Int /\ Wrap(f[k]) = place[k + 1]
<1>9. ASSUME NEW k \in 1 .. j - 1, from <= k, k \notin changes, At(k - 1)
      PROVE  At(k)
  <2>1. PICK s, x, y, u, w : /\ s = slots[k].statement /\ x = place[k] /\ y = place[k + 1]
                             /\ u = f[k - 1] /\ w = f[k]
    OBVIOUS
  <2>2. s \in Known /\ Moves(k, x, y)
    BY <1>8, <2>1
  <2>3. u \in Int /\ Wrap(u) = x
    <3>1. (k - 1) + 1 = k
      BY <1>2
    <3> QED BY <1>9, <2>1, <3>1
  <2>4. k \in from .. j - 1 /\ k \in 0 .. j - 1 /\ ~(k < from)
    BY <1>2, <1>4, <1>9
  <2>5. ~(IsItem(k) /\ x > SEGMENT_CODE_END)
    BY <1>5, <2>1, <2>4 DEF Dropped
  <2>6. s.kind \in {"INSTRUCTION", "LABEL", "SEGMENT_CODE", "SEGMENT_DATA", "DW", "DB", "DEREF"}
    <3>1. s.kind \in StatementKind
      BY <2>2, KnownIs
    <3>2. s.kind \notin AddressChange /\ s.kind # "INCBIN"
      BY <1>1, <1>5, <1>9, <2>1, <2>4 DEF ChangesBefore, Kind
    <3>3. s.kind # "TEXT"
      <4>1. Counts(k, b[k], b[k + 1])
        BY <1>1, <1>7, <1>8 DEF Tally
      <4> QED BY <2>1, <4>1 DEF Counts, CountsAs
    <3> QED BY <3>1, <3>2, <3>3 DEF StatementKind, AddressChange
  <2>7. CASE data
    <3>1. w = AfterData(u, s)
      BY <1>6, <2>1, <2>4, <2>7
    <3>2. w \in Int /\ Wrap(w) = y
      BY <2>1, <2>2, <2>3, <2>5, <2>6, <3>1, DataMove
    <3> QED BY <2>1, <3>2
  <2>8. CASE ~data
    <3>1. w = u + CodeCount(s)
      BY <1>6, <2>1, <2>4, <2>8
    <3>2. s.kind \notin {"DW", "DB", "DEREF"} /\ (s.kind = "INSTRUCTION" => s.op # "NOP")
      BY <1>5, <2>1, <2>4, <2>8 DEF Kind
    <3>3. s.kind \in {"INSTRUCTION", "LABEL", "SEGMENT_CODE", "SEGMENT_DATA"}
      BY <2>6, <3>2
    <3>4. w \in Int /\ Wrap(w) = y
      BY <2>1, <2>2, <2>3, <2>5, <3>1, <3>2, <3>3, CodeMove
    <3> QED BY <2>1, <3>4
  <2> QED BY <2>7, <2>8
<1>10. PICK start : start = IF changes = {} THEN 0 ELSE from
  OBVIOUS
<1>11. start \in 0 .. j - 1 /\ start \in Nat /\ At(start)
  <2>1. CASE changes = {}
    <3>1. start = 0 /\ from = 1 /\ 0 < from /\ 0 \in 0 .. j - 1
      BY <1>2, <1>3, <1>10, <2>1
    <3>2. f[0] = 0
      BY <1>6, <2>1, <3>1
    <3>3. Wrap(0) = 0
      BY Places
    <3> QED BY <1>2, <3>1, <3>2, <3>3
  <2>2. CASE changes # {}
    <3>1. /\ start = from /\ from \in 1 .. j - 1 /\ from \in 0 .. j - 1 /\ ~(from < from)
          /\ from - 1 \in 0 .. j - 1 /\ from - 1 < from /\ Kind(from) \in {"ADDRESS", "RESERVE"}
      BY <1>2, <1>3, <1>5, <1>10, <2>2
    <3>2. PICK s, a : s = slots[from].statement /\ a = slots[from].address
      OBVIOUS
    <3>3. s \in Known /\ Moves(from, place[from], place[from + 1]) /\ Counts(from, b[from], b[from + 1])
      BY <1>1, <1>7, <1>8, <3>1, <3>2 DEF Tally
    <3>4. a \in Int /\ s.kind = Kind(from) /\ s.op = "NOP" /\ Operands(s) = 0 /\ s.value \in Nat
      <4>1. a \in Int
        BY <1>1, <1>8, <3>1, <3>2 DEF CountInv
      <4> QED BY <3>1, <3>2, <3>3, <4>1, KnownIs DEF Kind
    <3>5. ASSUME ~data
          PROVE  f[from] = a
      <4>1. f[from - 1] = a - 2
        BY <1>6, <2>2, <3>1, <3>2, <3>5
      <4>2. f[from] = f[from - 1] + CodeCount(s)
        BY <1>6, <3>1, <3>2, <3>5
      <4>3. CodeCount(s) = 2
        BY <3>1, <3>4 DEF CodeCount
      <4> QED BY <3>4, <4>1, <4>2, <4>3
    <3>6. CASE Kind(from) = "ADDRESS"
      <4>1. place[from + 1] = Wrap(s.value) /\ a = s.value
        BY <3>2, <3>3, <3>4, <3>6 DEF Moves, Counts, CountsAs
      <4>2. f[from] = s.value
        <5>1. CASE data
          <6>1. f[from] = AfterData(f[from - 1], s)
            BY <1>6, <3>1, <3>2, <5>1
          <6> QED BY <3>4, <3>6, <6>1 DEF AfterData
        <5>2. CASE ~data
          BY <3>5, <4>1, <5>2
        <5> QED BY <5>1, <5>2
      <4> QED BY <3>1, <3>4, <4>1, <4>2
    <3>7. CASE Kind(from) = "RESERVE"
      <4>1. ~data /\ Tracked(from)
        BY <1>5, <2>2, <3>7
      <4>2. from \in 1 .. Len(slots) /\ from \in 1 .. Len(slots) - 1
        BY <1>1, <1>8, <3>1
      <4>3. b[from] \in Int /\ Wrap(b[from]) = place[from]
        BY <1>7, <4>1, <4>2, TrackedPlace
      <4>4. ~Dropped(from)
        BY <3>7 DEF Dropped, IsItem
      <4>5. b[from + 1] \in Int /\ Wrap(b[from + 1]) = place[from + 1]
        BY <1>7, <3>7, <4>2, <4>3, <4>4, CountedMove
      <4>6. a = b[from + 1]
        BY <3>2, <3>3, <3>4, <3>7 DEF Counts, CountsAs
      <4> QED BY <3>1, <3>5, <4>1, <4>5, <4>6
    <3> QED BY <3>1, <3>6, <3>7
  <2> QED BY <2>1, <2>2
<1>12. \A k \in 1 .. j - 1 : k > start => from <= k /\ k \notin changes
  <2>1. CASE changes = {}
    BY <1>3, <2>1
  <2>2. CASE changes # {}
    <3>1. start = from /\ from \in Nat /\ \A k \in changes : ~(k > from)
      <4>1. \A k \in changes : k \in Nat
        BY <1>1, <1>2 DEF ChangesBefore
      <4> QED BY <1>3, <1>4, <1>10, <2>2, <4>1
    <3> QED BY <1>2, <3>1
  <2> QED BY <2>1, <2>2
<1> DEFINE S == {m \in Nat : start + m <= j - 1 => At(start + m)}
<1> HIDE DEF At
<1>13. 0 \in S
  BY <1>11
<1>14. ASSUME NEW m \in Nat, m \in S
       PROVE  m + 1 \in S
  <2> SUFFICES ASSUME start + (m + 1) <= j - 1
               PROVE  At(start + (m + 1))
    OBVIOUS
  <2>1. PICK k : k = start + (m + 1)
    OBVIOUS
  <2>2. k \in 1 .. j - 1 /\ k > start /\ k - 1 = start + m /\ start + m <= j - 1
    BY <1>2, <1>11, <2>1
  <2>3. At(k - 1)
    BY <1>14, <2>2
  <2>4. At(k)
    BY <1>9, <1>12, <2>2, <2>3
  <2> QED BY <2>1, <2>4
<1> HIDE DEF S
<1>15. PICK m \in Nat : start + m = j - 1
  <2>1. (j - 1) - start \in Nat /\ start + ((j - 1) - start) = j - 1
    BY <1>2, <1>11
  <2> QED BY <2>1
<1>16. At(j - 1)
  <2>1. m \in S
    BY <1>13, <1>14, Induction
  <2> QED BY <1>2, <1>15, <2>1 DEF S
<1>17. (j - 1) + 1 = j
  BY <1>2
<1> QED BY <1>6, <1>16, <1>17 DEF At
LEMMA Before ==
  \A n \in Nat : \A j, k \in 1 .. n :
    /\ k >= j => k = j \/ j < k
    /\ j < k => j \in 1 .. k - 1
    /\ j < k => k # j /\ ~(k < j)
    /\ \A h \in 1 .. k - 1 : h \in 1 .. n /\ h < k
OBVIOUS

\* The entry that defines a label, and the value that it has been given.
LEMMA Resolved ==
  ASSUME AsmInv, CountInv, phase = "image", NEW i \in DOMAIN slots, NEW s, s = slots[i].statement,
         (s.src.name = "") # (s.dst.name = ""),
         NEW name, name # "", name \in {s.src.name, s.dst.name}
  PROVE  Definition(i) \in 1 .. Len(slots) /\ LabelIs(Definition(i), Value(name))
<1>1. PICK n : n = Len(slots) /\ n \in Nat /\ DOMAIN slots = 1 .. n /\ i \in 1 .. n
  BY TupleSeq DEF AsmInv, AsmType, EntriesOK, Tuple
<1>2. PICK at : LabelsAt(at)
  BY DEF CountInv
<1>3. PICK l : l = Len(labels) /\ l \in Nat /\ DOMAIN labels = 1 .. l
  BY <1>2, TupleSeq DEF LabelsAt, Tuple
<1>4. PICK D : D = Definitions(name)
  OBVIOUS
<1>5. D \subseteq 1 .. l /\ D # {} /\ \A r \in 1 .. l : r \in D <=> labels[r].name = name
  <2>1. Resolvable
    BY DEF CountInv
  <2>2. name \in Mentions(s)
    BY DEF Mentions
  <2> QED BY <1>1, <1>3, <1>4, <2>1, <2>2 DEF Resolvable, Definitions
<1>6. PICK first : first = Min(D) /\ first \in D /\ \A r \in D : r >= first
  BY <1>3, <1>5, FirstOne
<1>7. PICK j : j = at[first]
  OBVIOUS
<1>8. /\ j \in 1 .. n /\ Kind(j) = "LABEL" /\ slots[j].statement.name = name
      /\ LabelIs(j, labels[first].value)
  BY <1>1, <1>2, <1>3, <1>5, <1>6, <1>7 DEF LabelsAt
<1>15. n \in Nat /\ j \in 1 .. n /\ l \in Nat /\ first \in 1 .. l
  BY <1>1, <1>3, <1>5, <1>6, <1>8
<1>9. ASSUME NEW k \in 1 .. n, Kind(k) = "LABEL", slots[k].statement.name = name
      PROVE  k = j \/ j < k
  <2>1. PICK r \in 1 .. l : at[r] = k
    BY <1>1, <1>2, <1>3, <1>9 DEF LabelsAt
  <2>2. r \in D
    BY <1>2, <1>3, <1>5, <1>9, <2>1 DEF LabelsAt
  <2>3. first \in 1 .. l /\ (r = first \/ first < r)
    <3>1. r >= first
      BY <1>6, <2>2
    <3> QED BY <1>15, <3>1, Before
  <2> QED BY <1>2, <1>3, <1>7, <2>1, <2>3 DEF LabelsAt
<1> DEFINE Defines(k) ==
      /\ Kind(k) = "LABEL" /\ slots[k].statement.name \in {s.src.name, s.dst.name}
      /\ \A h \in 1 .. k - 1 : Kind(h) = "LABEL" => slots[h].statement.name # slots[k].statement.name
<1>10. ASSUME NEW k \in 1 .. n, Kind(k) = "LABEL", slots[k].statement.name \in {s.src.name, s.dst.name}
       PROVE  slots[k].statement.name = name
  <2>1. slots[k].statement \in Known /\ slots[k].statement.kind = "LABEL"
    BY <1>1, <1>10 DEF AsmInv, AsmType, EntriesOK, Kind
  <2>2. slots[k].statement.name # ""
    BY <2>1, KnownIs
  <2> QED BY <1>10, <2>2
<1>11. \A k \in 1 .. n : Defines(k) <=> k = j
  <2> SUFFICES ASSUME NEW k \in 1 .. n
               PROVE  Defines(k) <=> k = j
    OBVIOUS
  <2>1. ASSUME Defines(k), k # j
        PROVE  FALSE
    <3>1. slots[k].statement.name = name /\ j < k
      BY <1>9, <1>10, <2>1
    <3>2. j \in 1 .. k - 1
      BY <1>15, <3>1, Before
    <3> QED BY <1>8, <2>1, <3>1, <3>2
  <2>2. ASSUME k = j
        PROVE  Defines(k)
    <3>1. ASSUME NEW h \in 1 .. k - 1, Kind(h) = "LABEL", slots[h].statement.name = name
          PROVE  FALSE
      <4>1. h \in 1 .. n /\ h < j
        BY <1>15, <2>2, Before
      <4>2. h = j \/ j < h
        BY <1>9, <3>1, <4>1
      <4> QED BY <1>15, <4>1, <4>2, Before
    <3> QED BY <1>8, <2>2, <3>1
  <2> QED BY <2>1, <2>2
<1>12. Definition(i) = CHOOSE k \in 1 .. n : Defines(k)
  BY <1>1 DEF Definition
<1> HIDE DEF Defines
<1>13. Definition(i) = j
  BY <1>8, <1>11, <1>12
<1>14. Value(name) = labels[first].value
  BY <1>4, <1>6 DEF Value
<1> QED BY <1>1, <1>8, <1>13, <1>14

\* What an operand of a whole instruction means.
LEMMA Resolving == AsmInv /\ CountInv /\ PlaceInv => LabelsResolve
<1> SUFFICES ASSUME AsmInv, CountInv, PlaceInv, phase = "image", NEW i \in Uses,
                    NEW j, j = Definition(i), Exact(j),
                    Relative(slots[i].statement, slots[i].statement.src) =>
                      Tracked(i) /\ PageOf(slots[i].statement.op) = 1
             PROVE  Meant(i) = place[j]
  BY DEF LabelsResolve
<1>1. PICK slot, s, d, st, n : /\ slot = slots[i] /\ s = slots[i].statement /\ st = Loaded(i)
                               /\ n = Len(Bytes(slots[i])) /\ d = Processor!Instruction(Loaded(i))
  OBVIOUS
<1>2. /\ i \in DOMAIN slots /\ Kind(i) = "INSTRUCTION" /\ Whole(i)
      /\ (s.src.name = "") # (s.dst.name = "") /\ ~s.src.sum /\ ~s.dst.sum
  BY <1>1 DEF Uses
<1>3. DecodedAs(slot, s, d, st, n) /\ st.pc = place[i] /\ s \in Known /\ Encodable(s)
  BY <1>1, <1>2, WholeDecoded
<1>4. Refers(s.src, s.admx) /\ Refers(s.dst, s.admr)
  BY <1>3, KnownIs
<1>5. PICK a : a = place[j]
  OBVIOUS
<1>6. ASSUME NEW name, name # "", name \in {s.src.name, s.dst.name}
      PROVE  Value(name) \in Int /\ Wrap(Value(name)) = a
  <2>1. j \in 1 .. Len(slots) /\ LabelIs(j, Value(name))
    BY <1>1, <1>2, <1>6, Resolved
  <2> QED BY <1>5, <2>1, ExactPlace
<1>7. CASE s.src.name = ""
  <2>1. PICK v, t : v = Value(t.name) /\ t = s.dst
    OBVIOUS
  <2>2. t.name # "" /\ v \in Int /\ Wrap(v) = a
    BY <1>2, <1>6, <1>7, <2>1
  <2>3. ~Relative(s, t)
    BY <1>7, <2>1, <2>2 DEF Relative
  <2>4. Meaning(slot, t) = a
    BY <1>1, <2>1, <2>2, <2>3 DEF Meaning, Target
  <2>5. OneWord(slot, t) /\ mode_bytes(s.admr) > 0
    <3>1. a \in AWord
      BY <2>2, Places
    <3> QED BY <1>2, <1>4, <2>1, <2>2, <2>4, <3>1 DEF OneWord, Refers
  <2>6. Processor!Word(st, d.reduced) = a
    BY <1>3, <2>1, <2>4, <2>5 DEF DecodedAs
  <2> QED BY <1>1, <1>5, <1>7, <2>6 DEF Meant
<1>8. CASE s.src.name # ""
  <2>1. PICK v, t, w : v = Value(t.name) /\ t = s.src /\ w = Meaning(slot, t)
    OBVIOUS
  <2>2. t.name # "" /\ v \in Int /\ Wrap(v) = a /\ w = Target(slot, t)
    BY <1>6, <1>8, <2>1 DEF Meaning
  <2>3. slot.address \in Int
    BY <1>1, <1>2, TupleSeq DEF CountInv, AsmInv, AsmType, EntriesOK
  <2>4. w = IF Relative(s, t) THEN Wrap(v - slot.address - 4) ELSE Wrap(v)
    BY <1>1, <1>2, <2>1, <2>2 DEF Target
  <2>5. OneWord(slot, t) /\ mode_bytes(s.admx) > 0
    <3>1. w \in AWord
      <4>1. v - slot.address - 4 \in Int
        <5>1. \A x, y \in Int : y - x - 4 \in Int
          OBVIOUS
        <5> QED BY <2>2, <2>3, <5>1
      <4> QED BY <2>2, <2>4, <4>1, Places
    <3> QED BY <1>2, <1>4, <2>1, <2>2, <3>1 DEF OneWord, Refers
  <2>6. Processor!Word(st, d.extended) = w
    BY <1>3, <2>1, <2>5 DEF DecodedAs
  <2>7. Meant(i) = IF Relative(s, t) THEN Wrap(d.next + w) ELSE w
    BY <1>1, <1>8, <2>1, <2>6 DEF Meant
  <2>8. CASE ~Relative(s, t)
    BY <1>5, <2>2, <2>4, <2>7, <2>8
  <2>9. CASE Relative(s, t)
    <3>1. Tracked(i) /\ PageOf(s.op) = 1
      BY <1>1, <2>1, <2>9
    <3>2. PICK p : p = place[i] /\ i \in 1 .. Len(slots) /\ p \in Int
      <4>1. i \in 1 .. Len(slots)
        BY <1>2, AtTheEnd
      <4> QED BY <4>1, AtTheEnd, Places
    <3>3. slot.address \in Int /\ Wrap(slot.address) = p
      <4>1. PICK b : Tally(b)
        BY DEF CountInv
      <4>2. b[i] \in Int /\ Wrap(b[i]) = p
        BY <3>1, <3>2, <4>1, TrackedPlace
      <4>3. Counts(i, b[i], b[i + 1])
        BY <3>2, <4>1 DEF Tally
      <4>4. slot.address = b[i]
        BY <1>1, <1>2, <4>3 DEF Counts, CountsAs, Kind
      <4> QED BY <4>2, <4>4
    <3>4. n = 4
      <4>1. s.op \in REL_JUMPS \cup {"RCALL"} /\ s.admx.kind = "IMM16"
        BY <2>9 DEF Relative
      <4>2. s.op \in ReadArgument
        BY <4>1 DEF ReadArgument
      <4>3. mode_bytes(s.admr) = 0 /\ mode_bytes(s.admx) = 2
        BY <1>3, <4>1, <4>2 DEF Encodable, mode_bytes
      <4>4. ~OneByte(s.op)
        BY <4>2 DEF OneByte, argument_count
      <4>5. n = PageOf(s.op) + Operands(s) + (IF OneByte(s.op) THEN 0 ELSE 1)
        BY <1>1, <1>2, <1>3, Lengths DEF Kind
      <4> QED BY <3>1, <4>3, <4>4, <4>5 DEF Operands
    <3>5. d.next = Wrap(slot.address + 4)
      <4>1. d.next = Wrap(p + 4)
        BY <1>3, <3>2, <3>4 DEF DecodedAs
      <4>2. 4 \in Int
        OBVIOUS
      <4>3. Wrap(slot.address + 4) = Wrap(p + 4)
        BY <3>3, <4>2, Together
      <4> QED BY <4>1, <4>3
    <3>6. Wrap(d.next + w) = Wrap(v)
      <4>1. PICK u : u = slot.address
        OBVIOUS
      <4>2. u \in Int /\ v \in Int /\ w = Wrap(v - u - 4) /\ d.next = Wrap(u + 4)
        BY <2>2, <2>4, <2>9, <3>3, <3>5, <4>1
      <4>3. Wrap(Wrap(u + 4) + w) = Wrap(v)
        BY ZenonT(60), <4>2, RoundTrip
      <4> QED BY <4>2, <4>3
    <3> QED BY <1>5, <2>2, <2>7, <2>9, <3>6
  <2> QED BY <2>8, <2>9
<1> QED BY <1>7, <1>8

\* A label in an operand is where what follows it was written
\* (assembler_parse_expression, assembler_resolve_labels and
\* assembler_parse_instruction together).
THEOREM LabelsAreResolved == Spec => []LabelsResolve
<1> DEFINE Inv == AsmInv /\ CountInv /\ PlaceInv
<1>1. Init => Inv
  BY AsmStart, CountStart, PlaceStart
<1>2. Inv /\ [Next]_asmVars => Inv'
  BY AsmNext, CountNext, PlaceNext
<1>3. Inv => LabelsResolve
  BY Resolving
<1> QED BY <1>1, <1>2, <1>3, PTL DEF Spec

-----------------------------------------------------------------------------
(***************************************************************************)
(* The optimizer: whatever a rule removes, inserts or changes is no jump,  *)
(* call, return, HLT or label.  That the lines which a rule changes are    *)
(* none of these follows from their mnemonics, but for the line that       *)
(* MergeLea removes: of that one it reads only the operands, and what      *)
(* excludes a jump there is that a jump has none to write to.              *)
(***************************************************************************)
\* A line with its fields, which writes no register if it is a transfer.
Proper(i) ==
  /\ DOMAIN i = {"op", "admr", "admx", "names_label", "dst", "src"}
  /\ Transfers(i) => i.admr.kind # "REG"

Program(p) == Tuple(p, Len(p)) /\ \A k \in 1 .. Len(p) : Proper(p[k])

\* q is a program with the transfers of p.
Keeps(p, q) == Program(q) /\ Control(q) = Control(p)

\* The transfers among the first n lines.
Among(p, b) ==
  b = [n \in 0 .. Len(p) |->
         IF n = 0 THEN <<>>
         ELSE IF Transfers(p[n]) THEN Append(b[n - 1], p[n]) ELSE b[n - 1]]

LEMMA AmongExists ==
  ASSUME NEW p, Len(p) \in Nat
  PROVE  \E b : Among(p, b) /\ Control(p) = b[Len(p)]
<1> DEFINE Step(b, n) == IF Transfers(p[n]) THEN Append(b[n - 1], p[n]) ELSE b[n - 1]
           Is(b, m) == b = [n \in 0 .. m |-> IF n = 0 THEN <<>> ELSE Step(b, n)]
           S == {m \in Nat : \E b : Is(b, m)}
<1>1. 0 \in S
  <2> DEFINE b == [n \in 0 .. 0 |-> <<>>]
  <2>1. Is(b, 0)
    <3>1. DOMAIN b = 0 .. 0
      OBVIOUS
    <3> QED BY <3>1
  <2> HIDE DEF b, Is
  <2> QED BY <2>1
<1>2. ASSUME NEW m \in Nat, m \in S
      PROVE  m + 1 \in S
  <2>1. PICK b : Is(b, m)
    BY <1>2
  <2> DEFINE x == IF Transfers(p[m + 1]) THEN Append(b[m], p[m + 1]) ELSE b[m]
             c == [n \in 0 .. m + 1 |-> IF n = m + 1 THEN x ELSE b[n]]
  <2>2. x = IF Transfers(p[m + 1]) THEN Append(b[m], p[m + 1]) ELSE b[m]
    OBVIOUS
  <2> HIDE DEF x, Transfers
  <2>3. \A n \in 0 .. m + 1 : c[n] = IF n = 0 THEN <<>> ELSE Step(c, n)
    <3> SUFFICES ASSUME NEW n \in 0 .. m + 1
                 PROVE  c[n] = IF n = 0 THEN <<>> ELSE Step(c, n)
      OBVIOUS
    <3>1. CASE n = m + 1
      <4>1. c[n - 1] = b[m] /\ n # 0 /\ c[n] = x
        BY <3>1
      <4> QED BY <2>2, <3>1, <4>1
    <3>2. CASE n # m + 1
      <4>1. n \in 0 .. m /\ c[n] = b[n]
        BY <3>2
      <4>2. b[n] = IF n = 0 THEN <<>> ELSE Step(b, n)
        BY <2>1, <4>1
      <4>3. n # 0 => n - 1 \in 0 .. m + 1 /\ n - 1 # m + 1
        BY <4>1
      <4>4. n # 0 => c[n - 1] = b[n - 1]
        BY <4>3
      <4> QED BY <4>1, <4>2, <4>4
    <3> QED BY <3>1, <3>2
  <2>4. c = [n \in 0 .. m + 1 |-> c[n]]
    OBVIOUS
  <2> HIDE DEF c
  <2>5. Is(c, m + 1)
    BY <2>3, <2>4
  <2> QED BY <2>5
<1> HIDE DEF S
<1>3. Len(p) \in S
  BY <1>1, <1>2, Induction
<1>4. \E b : Is(b, Len(p))
  BY <1>3 DEF S
<1>5. Control(p) = (CHOOSE b : Is(b, Len(p)))[Len(p)]
  BY DEF Control
<1> HIDE DEF Is
<1>6. Is(CHOOSE b : Is(b, Len(p)), Len(p))
  BY <1>4
<1> QED BY <1>5, <1>6 DEF Is, Among

\* What comes before and after one more line.
LEMMA AmongStep ==
  ASSUME NEW p, NEW b, Among(p, b), Len(p) \in Nat
  PROVE  /\ b[0] = <<>>
         /\ \A n \in 1 .. Len(p) :
              b[n] = IF Transfers(p[n]) THEN Append(b[n - 1], p[n]) ELSE b[n - 1]
<1>1. b[0] = <<>>
  <2>1. 0 \in 0 .. Len(p)
    OBVIOUS
  <2> HIDE DEF Transfers
  <2> QED BY <2>1, Zenon DEF Among
<1>2. ASSUME NEW n \in 1 .. Len(p)
      PROVE  b[n] = IF Transfers(p[n]) THEN Append(b[n - 1], p[n]) ELSE b[n - 1]
  <2>1. n \in 0 .. Len(p) /\ n # 0
    OBVIOUS
  <2>2. b[n] = IF n = 0 THEN <<>>
               ELSE IF Transfers(p[n]) THEN Append(b[n - 1], p[n]) ELSE b[n - 1]
    BY <2>1, Zenon DEF Among
  <2> QED BY <2>1, <2>2
<1> QED BY <1>1, <1>2

\* Lines are changed in operand, none of them a transfer before or after.
LEMMA ChangeKeeps ==
  ASSUME NEW p, Program(p), NEW q, Tuple(q, Len(p)),
         \A k \in 1 .. Len(p) :
           \/ q[k] = p[k]
           \/ Proper(q[k]) /\ ~Transfers(p[k]) /\ ~Transfers(q[k])
  PROVE  Keeps(p, q) /\ Len(q) = Len(p)
<1>1. Len(p) \in Nat /\ Len(q) = Len(p)
  BY TupleSeq DEF Program, Tuple
<1>2. Program(q)
  BY <1>1 DEF Program
<1>3. PICK b : Among(p, b) /\ Control(p) = b[Len(p)]
  BY <1>1, AmongExists
<1>4. PICK c : Among(q, c) /\ Control(q) = c[Len(q)]
  BY <1>1, AmongExists
<1> DEFINE S == {n \in Nat : n <= Len(p) => c[n] = b[n]}
<1>5. 0 \in S
  BY <1>1, <1>3, <1>4, AmongStep
<1>6. ASSUME NEW n \in Nat, n \in S
      PROVE  n + 1 \in S
  <2> SUFFICES ASSUME n + 1 <= Len(p)
               PROVE  c[n + 1] = b[n + 1]
    OBVIOUS
  <2>1. n + 1 \in 1 .. Len(p) /\ (n + 1) - 1 = n /\ c[n] = b[n]
    BY <1>1, <1>6
  <2>2. b[n + 1] = IF Transfers(p[n + 1]) THEN Append(b[n], p[n + 1]) ELSE b[n]
    BY <1>1, <1>3, <2>1, AmongStep
  <2>3. c[n + 1] = IF Transfers(q[n + 1]) THEN Append(c[n], q[n + 1]) ELSE c[n]
    BY <1>1, <1>4, <2>1, AmongStep
  <2> QED BY <2>1, <2>2, <2>3
<1>7. Len(p) \in S
  <2> HIDE DEF S
  <2> QED BY <1>1, <1>5, <1>6, Induction
<1> QED BY <1>1, <1>2, <1>3, <1>4, <1>7 DEF Keeps

\* ParsedLine i of p is left out.
Without(p, i, q) ==
  /\ Tuple(q, Len(p) - 1) /\ Len(q) = Len(p) - 1
  /\ \A k \in 1 .. i - 1 : q[k] = p[k]
  /\ \A k \in i .. Len(p) - 1 : q[k] = p[k + 1]

\* The transfers of q when line i, which is none of them, makes it p.
LEMMA WithoutControl ==
  ASSUME NEW p, Len(p) \in Nat, NEW i \in 1 .. Len(p), ~Transfers(p[i]), NEW q, Without(p, i, q)
  PROVE  Control(q) = Control(p)
<1>1. Len(q) = Len(p) - 1 /\ Len(q) \in Nat
  BY DEF Without
<1>3. PICK b : Among(p, b) /\ Control(p) = b[Len(p)]
  BY <1>1, AmongExists
<1>4. PICK c : Among(q, c) /\ Control(q) = c[Len(q)]
  BY <1>1, AmongExists
<1> DEFINE S == {n \in Nat : n <= Len(q) => c[n] = IF n < i THEN b[n] ELSE b[n + 1]}
<1>a. \A n \in 1 .. Len(p) :
        b[n] = IF Transfers(p[n]) THEN Append(b[n - 1], p[n]) ELSE b[n - 1]
  BY <1>1, <1>3, AmongStep
<1>5. 0 \in S
  <2>1. b[0] = <<>> /\ c[0] = <<>>
    BY <1>1, <1>3, <1>4, AmongStep
  <2> QED BY <2>1
<1>6. ASSUME NEW n \in Nat, n \in S
      PROVE  n + 1 \in S
  <2> SUFFICES ASSUME n + 1 <= Len(q)
               PROVE  c[n + 1] = IF n + 1 < i THEN b[n + 1] ELSE b[n + 2]
    OBVIOUS
  <2>1. /\ n + 1 \in 1 .. Len(q) /\ n + 1 \in 1 .. Len(p) /\ n + 2 \in 1 .. Len(p)
        /\ (n + 1) - 1 = n /\ (n + 2) - 1 = n + 1 /\ (n + 1) + 1 = n + 2
    BY <1>1
  <2>2. c[n] = IF n < i THEN b[n] ELSE b[n + 1]
    BY <1>6
  <2>3. c[n + 1] = IF Transfers(q[n + 1]) THEN Append(c[n], q[n + 1]) ELSE c[n]
    BY <1>1, <1>4, <2>1, AmongStep
  <2>4. CASE n + 1 < i
    <3>1. q[n + 1] = p[n + 1] /\ n < i
      BY <2>1, <2>4 DEF Without
    <3>2. b[n + 1] = IF Transfers(p[n + 1]) THEN Append(b[n], p[n + 1]) ELSE b[n]
      BY <1>a, <2>1
    <3> QED BY <2>2, <2>3, <2>4, <3>1, <3>2
  <2>5. CASE ~(n + 1 < i)
    <3>1. q[n + 1] = p[n + 2]
      <4>1. n + 1 \in i .. Len(p) - 1
        BY <1>1, <2>1, <2>5
      <4> QED BY <2>1, <4>1 DEF Without
    <3>2. b[n + 2] = IF Transfers(p[n + 2]) THEN Append(b[n + 1], p[n + 2]) ELSE b[n + 1]
      BY <1>a, <2>1
    <3>3. c[n] = b[n + 1]
      <4>1. CASE n < i
        <5>1. i = n + 1
          BY <2>5, <4>1
        <5>2. b[n + 1] = b[n]
          BY <1>a, <2>1, <5>1
        <5> QED BY <2>2, <4>1, <5>2
      <4>2. CASE ~(n < i)
        BY <2>2, <4>2
      <4> QED BY <4>1, <4>2
    <3> QED BY <2>3, <2>5, <3>1, <3>2, <3>3
  <2> QED BY <2>4, <2>5
<1>7. Len(q) \in S
  <2> HIDE DEF S
  <2> QED BY <1>1, <1>5, <1>6, Induction
<1>8. c[Len(q)] = b[Len(p)]
  <2>1. CASE Len(q) < i
    <3>1. i = Len(p) /\ Len(p) - 1 = Len(q)
      BY <1>1, <2>1
    <3>2. b[Len(p)] = b[Len(p) - 1]
      BY <1>a, <3>1
    <3> QED BY <1>7, <2>1, <3>1, <3>2
  <2>2. CASE ~(Len(q) < i)
    <3>1. Len(q) + 1 = Len(p)
      BY <1>1
    <3> QED BY <1>1, <1>7, <2>2, <3>1
  <2> QED BY <2>1, <2>2
<1> QED BY <1>3, <1>4, <1>8

LEMMA RemoveAtIs ==
  ASSUME NEW p, Tuple(p, Len(p)), NEW i \in 1 .. Len(p)
  PROVE  Without(p, i, RemoveAt(p, i))
<1> DEFINE S == {p[k] : k \in 1 .. Len(p)}
           s == SubSeq(p, 1, i - 1)
           t == SubSeq(p, i + 1, Len(p))
<1>1. p \in Seq(S) /\ Len(p) \in Nat
  BY TupleSeq DEF Tuple
<1> HIDE DEF S
<1>2. Tuple(s, i - 1) /\ \A k \in 1 .. i - 1 : s[k] = p[k]
  <2>1. s \in Seq(S) /\ Len(s) = i - 1 /\ \A k \in 1 .. Len(s) : s[k] = p[1 + k - 1]
    BY <1>1, SubSeqProperties
  <2>2. Tuple(s, i - 1)
    BY <2>1, SeqTuple
  <2> HIDE DEF s
  <2> QED BY <2>1, <2>2
<1>3. Tuple(t, Len(p) - i) /\ \A k \in 1 .. Len(p) - i : t[k] = p[i + k]
  <2>1. /\ t \in Seq(S) /\ Len(t) = Len(p) - i
        /\ \A k \in 1 .. Len(t) : t[k] = p[i + 1 + k - 1]
    <3>1. CASE i = Len(p)
      BY <1>1, <3>1, SubSeqProperties
    <3>2. CASE i < Len(p)
      BY <1>1, <3>2, SubSeqProperties
    <3> QED BY <1>1, <3>1, <3>2
  <2>2. Tuple(t, Len(p) - i)
    BY <2>1, SeqTuple
  <2>3. \A k \in 1 .. Len(p) - i : i + 1 + k - 1 = i + k
    BY <1>1
  <2> HIDE DEF t
  <2> QED BY <2>1, <2>2, <2>3
<1>4. IsConcat(RemoveAt(p, i), s, t)
  BY DEF RemoveAt, IsConcat
<1> HIDE DEF s, t
<1>5. Joins(RemoveAt(p, i), s, i - 1, t, Len(p) - i)
  BY <1>2, <1>3, <1>4, Join
<1> DEFINE q == RemoveAt(p, i)
<1> HIDE DEF q
<1>6. Tuple(q, Len(p) - 1)
  <2>1. (i - 1) + (Len(p) - i) = Len(p) - 1
    BY <1>1
  <2> QED BY <1>5, <2>1 DEF Joins, q
<1>7. ASSUME NEW k \in i .. Len(p) - 1
      PROVE  q[k] = p[k + 1]
  <2>1. k - (i - 1) \in 1 .. Len(p) - i /\ (i - 1) + (k - (i - 1)) = k
        /\ i + (k - (i - 1)) = k + 1
    BY <1>1
  <2>2. q[(i - 1) + (k - (i - 1))] = t[k - (i - 1)]
    BY <1>5, <2>1 DEF Joins, q
  <2> QED BY <1>3, <2>1, <2>2
<1>8. \A k \in 1 .. i - 1 : q[k] = p[k]
  BY <1>2, <1>5 DEF Joins, q
<1>9. Len(q) = Len(p) - 1
  BY <1>6, TupleSeq
<1> QED BY <1>6, <1>7, <1>8, <1>9 DEF Without, q

LEMMA RemoveKeeps ==
  ASSUME NEW p, Program(p), NEW i \in 1 .. Len(p), ~Transfers(p[i])
  PROVE  Keeps(p, RemoveAt(p, i)) /\ Without(p, i, RemoveAt(p, i))
<1> DEFINE q == RemoveAt(p, i)
<1>1. Len(p) \in Nat /\ Without(p, i, q)
  BY RemoveAtIs DEF Program, Tuple
<1> HIDE DEF q
<1>2. Control(q) = Control(p)
  BY <1>1, WithoutControl
<1>3. Program(q)
  <2>1. ASSUME NEW k \in 1 .. Len(q)
        PROVE  Proper(q[k])
    <3>1. CASE k < i
      <4>1. k \in 1 .. i - 1 /\ k \in 1 .. Len(p)
        BY <1>1, <3>1 DEF Without
      <4> QED BY <1>1, <4>1 DEF Without, Program
    <3>2. CASE ~(k < i)
      <4>1. k \in i .. Len(p) - 1 /\ k + 1 \in 1 .. Len(p)
        BY <1>1, <3>2 DEF Without
      <4> QED BY <1>1, <4>1 DEF Without, Program
    <3> QED BY <3>1, <3>2
  <2> QED BY <1>1, <2>1 DEF Without, Program
<1> QED BY <1>1, <1>2, <1>3 DEF Keeps, q

\* x is put in after line i of p.
LEMMA InsertAfterKeeps ==
  ASSUME NEW p, Program(p), NEW i \in 1 .. Len(p), NEW x, Proper(x), ~Transfers(x)
  PROVE  /\ Keeps(p, InsertAfter(p, i, x))
         /\ Len(InsertAfter(p, i, x)) \in {Len(p), Len(p) + 1}
         /\ \A k \in 1 .. i : InsertAfter(p, i, x)[k] = p[k]
<1>0. Len(p) \in Nat
  BY DEF Program, Tuple
<1>1. CASE ~(i < Len(p))
  BY <1>1 DEF InsertAfter, Keeps
<1>2. CASE i < Len(p)
  <2> DEFINE S == {p[k] : k \in 1 .. Len(p)}
             q == InsertAfter(p, i, x)
             s == SubSeq(p, 1, i)
             t == SubSeq(p, i + 1, Len(p))
             u == s \o <<x>>
  <2>1. p \in Seq(S)
    BY TupleSeq DEF Program
  <2> HIDE DEF S
  <2>2. Tuple(s, i) /\ \A k \in 1 .. i : s[k] = p[k]
    <3>1. s \in Seq(S) /\ Len(s) = i /\ \A k \in 1 .. Len(s) : s[k] = p[1 + k - 1]
      BY <1>0, <2>1, SubSeqProperties
    <3>2. Tuple(s, i)
      BY <3>1, SeqTuple
    <3> HIDE DEF s
    <3> QED BY <3>1, <3>2
  <2>3. Tuple(t, Len(p) - i) /\ \A k \in 1 .. Len(p) - i : t[k] = p[i + k]
    <3>1. /\ t \in Seq(S) /\ Len(t) = Len(p) - i
          /\ \A k \in 1 .. Len(t) : t[k] = p[i + 1 + k - 1]
      BY <1>0, <1>2, <2>1, SubSeqProperties
    <3>2. Tuple(t, Len(p) - i)
      BY <3>1, SeqTuple
    <3>3. \A k \in 1 .. Len(p) - i : i + 1 + k - 1 = i + k
      BY <1>0
    <3> HIDE DEF t
    <3> QED BY <3>1, <3>2, <3>3
  <2>4. Tuple(<<x>>, 1) /\ <<x>>[1] = x
    BY DEF Tuple
  <2>5. q = u \o t
    <3>1. q = SubSeq(p, 1, (i + 1) - 1) \o <<x>> \o t
      BY <1>2 DEF InsertAfter, InsertAt
    <3>2. (i + 1) - 1 = i
      BY <1>0
    <3> QED BY <3>1, <3>2
  <2>6. IsConcat(u, s, <<x>>) /\ IsConcat(q, u, t)
    BY <2>5 DEF IsConcat
  <2> HIDE DEF s, t, u, q
  <2>7. Joins(u, s, i, <<x>>, 1)
    BY <2>2, <2>4, <2>6, Join
  <2>8. Joins(q, u, i + 1, t, Len(p) - i)
    <3>1. Tuple(u, i + 1)
      BY <2>7 DEF Joins
    <3> QED BY <2>3, <2>6, <3>1, Join
  <2>9. Tuple(q, Len(p) + 1) /\ Len(q) = Len(p) + 1
    <3>1. (i + 1) + (Len(p) - i) = Len(p) + 1
      BY <1>0
    <3>2. Tuple(q, Len(p) + 1)
      BY <2>8, <3>1 DEF Joins
    <3> QED BY <3>2, TupleSeq
  <2>10. \A k \in 1 .. i : q[k] = p[k]
    <3> SUFFICES ASSUME NEW k \in 1 .. i
                 PROVE  q[k] = p[k]
      OBVIOUS
    <3>1. k \in 1 .. i + 1
      OBVIOUS
    <3> QED BY <2>2, <2>7, <2>8, <3>1 DEF Joins
  <2>11. q[i + 1] = x
    <3>1. i + 1 \in 1 .. i + 1 /\ 1 \in 1 .. 1
      OBVIOUS
    <3> QED BY <2>4, <2>7, <2>8, <3>1 DEF Joins
  <2>12. ASSUME NEW k \in i + 1 .. Len(p)
         PROVE  q[k + 1] = p[k]
    <3>1. k - i \in 1 .. Len(p) - i /\ (i + 1) + (k - i) = k + 1 /\ i + (k - i) = k
      BY <1>0
    <3>2. q[(i + 1) + (k - i)] = t[k - i] /\ t[k - i] = p[i + (k - i)]
      BY <2>3, <2>8, <3>1 DEF Joins
    <3> QED BY <3>1, <3>2
  <2>13. Without(q, i + 1, p)
    <3>1. Tuple(p, Len(q) - 1) /\ Len(p) = Len(q) - 1
      BY <1>0, <2>9 DEF Program
    <3>2. \A k \in 1 .. (i + 1) - 1 : p[k] = q[k]
      BY <2>10
    <3>3. \A k \in i + 1 .. Len(q) - 1 : p[k] = q[k + 1]
      BY <2>9, <2>12, <1>0
    <3> QED BY <3>1, <3>2, <3>3 DEF Without
  <2>14. Control(p) = Control(q)
    <3>1. i + 1 \in 1 .. Len(q) /\ Len(q) \in Nat
      BY <1>0, <2>9
    <3> QED BY <2>11, <2>13, <3>1, WithoutControl
  <2>15. Program(q)
    <3>1. ASSUME NEW k \in 1 .. Len(q)
          PROVE  Proper(q[k])
      <4>1. CASE k <= i
        <5>1. k \in 1 .. i /\ k \in 1 .. Len(p)
          BY <4>1, <1>0
        <5> QED BY <2>10, <5>1 DEF Program
      <4>2. CASE k = i + 1
        BY <2>11, <4>2
      <4>3. CASE k > i + 1
        <5>1. k - 1 \in i + 1 .. Len(p) /\ k - 1 \in 1 .. Len(p) /\ (k - 1) + 1 = k
          BY <4>3, <1>0, <2>9
        <5> QED BY <2>12, <5>1 DEF Program
      <4> QED BY <4>1, <4>2, <4>3
    <3> QED BY <2>9, <3>1 DEF Program
  <2> QED BY <2>9, <2>10, <2>14, <2>15 DEF Keeps, q
<1> QED BY <1>1, <1>2

LEMMA KeepsBoth ==
  ASSUME NEW p, NEW q, NEW r, Keeps(p, q), Keeps(q, r)
  PROVE  Keeps(p, r)
BY DEF Keeps

\* The mnemonics that rules look for are no transfers.
Straight == {"MOV", "LEA", "ADD", "SUB", "MUL", "DIV", "AND", "OR", "XOR", "SBS", "UBS",
             "INC", "DEC", "CBI", "CMP", "PUSH", "POP", "PUSHSR", "POPSR", "SEAO"}
              \cup FLOAT_OPS \cup CONVERSIONS

LEMMA NoTransfers ==
  ASSUME NEW i, i.op \in Straight
  PROVE  ~Transfers(i)
<1>1. ASSUME NEW row \in FlagTable
      PROVE  {row[2], row[3], row[4], row[5]} \cap Straight = {}
  <2> DEFINE Apart(r) == {r[2], r[3], r[4], r[5]} \cap Straight = {}
  <2>1. Apart(<<"Z", "JZ", "JNZ", "RJZ", "RJNZ", "CMOVZ", "CMOVNZ", "CLZ", "SEZ">>)
    BY DEF Straight, FLOAT_OPS, CONVERSIONS
  <2>2. Apart(<<"FZ", "JFZ", "JNFZ", "RJFZ", "RJNFZ", "CMOVFZ", "CMOVNFZ", "CLFZ", "SEFZ">>)
    BY DEF Straight, FLOAT_OPS, CONVERSIONS
  <2>3. Apart(<<"L", "JL", "JNL", "RJL", "RJNL", "CMOVL", "CMOVNL", "CLL", "SEL">>)
    BY DEF Straight, FLOAT_OPS, CONVERSIONS
  <2>4. Apart(<<"UL", "JUL", "JNUL", "RJUL", "RJNUL", "CMOVUL", "CMOVNUL", "CLUL", "SEUL">>)
    BY DEF Straight, FLOAT_OPS, CONVERSIONS
  <2>5. Apart(<<"FL", "JFL", "JNFL", "RJFL", "RJNFL", "CMOVFL", "CMOVNFL", "CLFL", "SEFL">>)
    BY DEF Straight, FLOAT_OPS, CONVERSIONS
  <2>6. Apart(<<"DL", "JDL", "JNDL", "RJDL", "RJNDL", "CMOVDL", "CMOVNDL", "CLDL", "SEDL">>)
    BY DEF Straight, FLOAT_OPS, CONVERSIONS
  <2>7. Apart(<<"LL", "JLL", "JNLL", "RJLL", "RJNLL", "CMOVLL", "CMOVNLL", "CLLL", "SELL">>)
    BY DEF Straight, FLOAT_OPS, CONVERSIONS
  <2>8. Apart(<<"AO", "JAO", "JNAO", "RJAO", "RJNAO", "CMOVAO", "CMOVNAO", "CLAO", "SEAO">>)
    BY DEF Straight, FLOAT_OPS, CONVERSIONS
  <2>9. Apart(<<"MI", "", "", "", "", "CMOVMI", "CMOVNMI", "CLMI", "SEMI">>)
    BY DEF Straight, FLOAT_OPS, CONVERSIONS
  <2> HIDE DEF Apart
  <2>10. Apart(row)
    BY <2>1, <2>2, <2>3, <2>4, <2>5, <2>6, <2>7, <2>8, <2>9 DEF FlagTable
  <2> QED BY <2>10 DEF Apart
<1>2. i.op \notin JUMPS \cup REL_JUMPS
  <2>1. Straight \cap {"JMP", "RJMP"} = {}
    BY DEF Straight, FLOAT_OPS, CONVERSIONS
  <2> HIDE DEF FlagTable, Straight
  <2> QED BY <1>1, <2>1 DEF JUMPS, REL_JUMPS, Column
<1>3. i.op \notin {"CALL", "RET", "RCALL", "HLT", "LABEL"}
  BY DEF Straight, FLOAT_OPS, CONVERSIONS
<1> QED BY <1>2, <1>3 DEF Transfers, Leaves, IsJump

\* Another line in the operand of line i.
LEMMA Edit ==
  ASSUME NEW p, Program(p), NEW i \in 1 .. Len(p), p[i].op \in Straight,
         NEW x, DOMAIN x = DOMAIN p[i], x.op \in Straight,
         NEW q, q = [p EXCEPT ![i] = x]
  PROVE  Keeps(p, q) /\ Len(q) = Len(p) /\ q[i] = x /\ \A k \in 1 .. Len(p) \ {i} : q[k] = p[k]
<1>1. Len(p) \in Nat /\ DOMAIN p = 1 .. Len(p)
  BY TupleSeq DEF Program, Tuple
<1>2. Tuple(q, Len(p)) /\ q[i] = x /\ \A k \in 1 .. Len(p) \ {i} : q[k] = p[k]
  BY <1>1 DEF Tuple
<1>3. ~Transfers(p[i]) /\ ~Transfers(x)
  BY NoTransfers
<1>4. Proper(x)
  <2>1. Proper(p[i])
    BY DEF Program
  <2> QED BY <1>3, <2>1 DEF Proper
<1>5. Keeps(p, q) /\ Len(q) = Len(p)
  BY <1>2, <1>3, <1>4, ChangeKeeps
<1> QED BY <1>2, <1>5

\* The rules that only leave out a line which they look at.
LEMMA RemovalsKeep ==
  ASSUME NEW p, Program(p), NEW i \in 1 .. Len(p),
         NEW q \in OverwrittenMove(p, i) \cup MoveBack(p, i) \cup AddOfZero(p, i) \cup MoveToItself(p, i)
                    \cup Neutral(p, i) \cup OverwrittenNext(p, i) \cup NeutralMask(p, i)
  PROVE  Keeps(p, q)
<1>1. \/ q = RemoveAt(p, i) /\ p[i].op \in Straight
      \/ i + 1 <= Len(p) /\ q = RemoveAt(p, i + 1) /\ p[i + 1].op \in Straight
  <2>1. CASE q \in OverwrittenMove(p, i)
    BY <2>1 DEF OverwrittenMove, MovLea, Straight
  <2>2. CASE q \in MoveBack(p, i)
    BY <2>2 DEF MoveBack, Straight
  <2>3. CASE q \in AddOfZero(p, i)
    BY <2>3 DEF AddOfZero, Straight
  <2>4. CASE q \in MoveToItself(p, i)
    BY <2>4 DEF MoveToItself, Straight
  <2>5. CASE q \in Neutral(p, i)
    BY <2>5 DEF Neutral, Straight, FLOAT_OPS
  <2>6. CASE q \in OverwrittenNext(p, i)
    BY <2>6 DEF OverwrittenNext, Straight
  <2>7. CASE q \in NeutralMask(p, i)
    BY <2>7 DEF NeutralMask, Straight
  <2> QED BY <2>1, <2>2, <2>3, <2>4, <2>5, <2>6, <2>7
<1>2. Len(p) \in Nat
  BY DEF Program, Tuple
<1>3. CASE q = RemoveAt(p, i) /\ p[i].op \in Straight
  BY <1>3, NoTransfers, RemoveKeeps
<1>4. CASE i + 1 <= Len(p) /\ q = RemoveAt(p, i + 1) /\ p[i + 1].op \in Straight
  <2>1. i + 1 \in 1 .. Len(p)
    BY <1>2, <1>4
  <2> QED BY <1>4, <2>1, NoTransfers, RemoveKeeps
<1> QED BY <1>1, <1>3, <1>4

\* The rules that change one line.
LEMMA EditsKeep ==
  ASSUME NEW p, Program(p), NEW i \in 1 .. Len(p),
         NEW q \in StoreThroughImmediate(p, i) \cup LeaToMove(p, i) \cup ZeroByXor(p, i)
  PROVE  Keeps(p, q)
<1>1. Len(p) \in Nat /\ DOMAIN p = 1 .. Len(p)
  BY TupleSeq DEF Program, Tuple
<1>2. CASE q \in StoreThroughImmediate(p, i)
  <2> DEFINE operand == [p[i].src EXCEPT !.kind = "IND16"]
             x == [p[i + 1] EXCEPT !.dst = operand, !.admr = [kind |-> "IND16", reg |-> "R0"]]
  <2>1. i + 1 \in 1 .. Len(p) /\ p[i + 1].op = "MOV" /\ i + 2 <= Len(p)
    BY <1>1, <1>2 DEF StoreThroughImmediate
  <2>2. q = [p EXCEPT ![i + 1] = x]
    BY <1>1, <1>2, <2>1 DEF StoreThroughImmediate
  <2>3. DOMAIN x = DOMAIN p[i + 1] /\ x.op = "MOV"
    BY <2>1 DEF Program, Proper
  <2>4. p[i + 1].op \in Straight /\ x.op \in Straight /\ DOMAIN x = DOMAIN p[i + 1]
    BY <2>1, <2>3 DEF Straight
  <2>5. PICK j \in 1 .. Len(p) : j = i + 1
    BY <2>1
  <2> HIDE DEF x
  <2>6. p[j].op \in Straight /\ DOMAIN x = DOMAIN p[j] /\ q = [p EXCEPT ![j] = x]
    BY <2>2, <2>4, <2>5
  <2> QED BY <2>4, <2>6, Edit
<1>3. CASE q \in LeaToMove(p, i)
  <2> DEFINE y == [p[i].src EXCEPT !.kind = IF @ = "IND16" THEN "IMM16" ELSE "REG"]
             x == [WithSource(p[i], y) EXCEPT !.op = "MOV", !.names_label = y.label]
  <2>1. p[i].op = "LEA" /\ q = [p EXCEPT ![i] = x]
    BY <1>1, <1>3 DEF LeaToMove
  <2>2. DOMAIN x = DOMAIN p[i] /\ x.op = "MOV"
    BY DEF Program, Proper, WithSource
  <2>3. "MOV" \in Straight /\ "LEA" \in Straight
    BY DEF Straight
  <2> HIDE DEF x
  <2> QED BY ZenonT(60), <2>1, <2>2, <2>3, Edit
<1>4. CASE q \in ZeroByXor(p, i)
  <2> DEFINE x == WithSource([p[i] EXCEPT !.op = "XOR"], p[i].dst)
  <2>1. p[i].op = "MOV" /\ q = [p EXCEPT ![i] = x]
    BY <1>1, <1>4 DEF ZeroByXor
  <2>2. DOMAIN x = DOMAIN p[i] /\ x.op = "XOR"
    BY DEF Program, Proper, WithSource
  <2>3. "MOV" \in Straight /\ "XOR" \in Straight
    BY DEF Straight
  <2> HIDE DEF x
  <2> QED BY ZenonT(60), <2>1, <2>2, <2>3, Edit
<1> QED BY <1>2, <1>3, <1>4

\* ParsedLine i becomes x, and line j is left out.
LEMMA EditAndRemove ==
  ASSUME NEW p, Program(p), NEW i \in 1 .. Len(p), p[i].op \in Straight,
         NEW x, DOMAIN x = DOMAIN p[i], x.op \in Straight,
         NEW j \in 1 .. Len(p), ~Transfers(p[j])
  PROVE  Keeps(p, RemoveAt([p EXCEPT ![i] = x], j))
<1> DEFINE c == [p EXCEPT ![i] = x]
<1>1. Keeps(p, c) /\ Len(c) = Len(p) /\ c[i] = x /\ \A k \in 1 .. Len(p) \ {i} : c[k] = p[k]
  BY Edit
<1> HIDE DEF c
<1>2. ~Transfers(c[j])
  <2>1. ~Transfers(x)
    BY NoTransfers
  <2> QED BY <1>1, <2>1
<1>3. Keeps(c, RemoveAt(c, j))
  BY <1>1, <1>2, RemoveKeeps DEF Keeps
<1> QED BY <1>1, <1>3, KeepsBoth DEF c

\* The rules that change one line and leave out another one.
LEMMA MergersKeep ==
  ASSUME NEW p, Program(p), NEW i \in 1 .. Len(p),
         NEW q \in AddToZero(p, i) \cup LoadEffective(p, i) \cup ForwardOnce(p, i) \cup AddToLea(p, i)
                    \cup AddToLabel(p, i) \cup PushPlace(p, i) \cup MergeLea(p, i) \cup ForwardMove(p, i)
  PROVE  Keeps(p, q)
<1>1. Len(p) \in Nat /\ DOMAIN p = 1 .. Len(p)
  BY TupleSeq DEF Program, Tuple
<1>2. CASE q \in AddToZero(p, i)
  <2> DEFINE x == [p[i + 1] EXCEPT !.op = "MOV"]
  <2>1. i + 1 \in 1 .. Len(p) /\ p[i].op = "MOV" /\ p[i + 1].op = "ADD"
    BY <1>1, <1>2 DEF AddToZero
  <2>2. q = RemoveAt([p EXCEPT ![i + 1] = x], i)
    BY <1>1, <1>2, <2>1 DEF AddToZero
  <2>3. DOMAIN x = DOMAIN p[i + 1] /\ x.op = "MOV"
    BY <2>1 DEF Program, Proper
  <2>4. {"MOV", "ADD"} \subseteq Straight
    BY DEF Straight
  <2> HIDE DEF x
  <2> QED BY <2>1, <2>2, <2>3, <2>4, NoTransfers, EditAndRemove
<1>3. CASE q \in LoadEffective(p, i)
  <2> DEFINE x == [p[i] EXCEPT !.op = "MOV"]
  <2>1. i + 1 \in 1 .. Len(p) /\ p[i].op = "LEA" /\ p[i + 1].op = "MOV"
    BY <1>1, <1>3 DEF LoadEffective
  <2>2. q = RemoveAt([p EXCEPT ![i] = x], i + 1)
    BY <1>1, <1>3, <2>1 DEF LoadEffective
  <2>3. DOMAIN x = DOMAIN p[i] /\ x.op = "MOV"
    BY <2>1 DEF Program, Proper
  <2>4. {"MOV", "LEA"} \subseteq Straight
    BY DEF Straight
  <2> HIDE DEF x
  <2> QED BY <2>1, <2>2, <2>3, <2>4, NoTransfers, EditAndRemove
<1>4. CASE q \in ForwardOnce(p, i)
  <2> DEFINE x == [p[i + 1] EXCEPT !.admx = p[i].admx, !.names_label = p[i].names_label]
  <2>1. i + 1 \in 1 .. Len(p) /\ p[i].op = "MOV" /\ p[i + 1].op \in Straight
    BY <1>1, <1>4 DEF ForwardOnce, Straight, FLOAT_OPS
  <2>2. q = RemoveAt([p EXCEPT ![i + 1] = x], i)
    BY <1>1, <1>4, <2>1 DEF ForwardOnce
  <2>3. DOMAIN x = DOMAIN p[i + 1] /\ x.op = p[i + 1].op
    BY <2>1 DEF Program, Proper
  <2>4. "MOV" \in Straight
    BY DEF Straight
  <2> HIDE DEF x
  <2> QED BY <2>1, <2>2, <2>3, <2>4, NoTransfers, EditAndRemove
<1>5. CASE q \in AddToLea(p, i)
  <2> DEFINE o == Offset(p[i + 1].op, Parsed(p[i + 1].src))
             x == [p[i] EXCEPT !.op = "LEA", !.admx.kind = "OFFSET16", !.src = OFFSET16(o, @.reg)]
  <2>1. i + 1 \in 1 .. Len(p) /\ p[i].op = "MOV" /\ p[i + 1].op \in {"ADD", "SUB"}
    BY <1>1, <1>5 DEF AddToLea
  <2>2. q = RemoveAt([p EXCEPT ![i] = x], i + 1)
    BY <1>1, <1>5, <2>1 DEF AddToLea
  <2>3. DOMAIN x = DOMAIN p[i] /\ x.op = "LEA"
    BY <2>1 DEF Program, Proper
  <2>4. {"MOV", "LEA", "ADD", "SUB"} \subseteq Straight
    BY DEF Straight
  <2> HIDE DEF x
  <2> QED BY <2>1, <2>2, <2>3, <2>4, NoTransfers, EditAndRemove
<1>6. CASE q \in AddToLabel(p, i)
  <2> DEFINE x == [p[i] EXCEPT !.op = "LEA", !.admx.kind = "IND16",
                     !.src = [@ EXCEPT !.kind = "IND16", !.imm = Parsed(p[i + 1].src)]]
  <2>1. i + 1 \in 1 .. Len(p) /\ p[i].op = "MOV" /\ p[i + 1].op = "ADD"
    BY <1>1, <1>6 DEF AddToLabel
  <2>2. q = RemoveAt([p EXCEPT ![i] = x], i + 1)
    BY <1>1, <1>6, <2>1 DEF AddToLabel
  <2>3. DOMAIN x = DOMAIN p[i] /\ x.op = "LEA"
    BY <2>1 DEF Program, Proper
  <2>4. {"MOV", "LEA", "ADD"} \subseteq Straight
    BY DEF Straight
  <2> HIDE DEF x
  <2> QED BY <2>1, <2>2, <2>3, <2>4, NoTransfers, EditAndRemove
<1>7. CASE q \in PushPlace(p, i)
  <2> DEFINE y == p[i].src
             operand == CASE y.kind = "IMM16" -> [y EXCEPT !.kind = "IND16"]
                        [] y.kind = "REG"   -> [y EXCEPT !.kind = "IND"]
                        [] OTHER            -> [y EXCEPT !.kind = "BAD"]
             x == [p[i + 1] EXCEPT !.src = operand]
  <2>1. i + 1 \in 1 .. Len(p) /\ p[i].op = "MOV" /\ p[i + 1].op = "PUSH"
    BY <1>1, <1>7 DEF PushPlace
  <2>2. q = RemoveAt([p EXCEPT ![i + 1] = x], i)
    BY <1>1, <1>7, <2>1 DEF PushPlace
  <2>3. DOMAIN x = DOMAIN p[i + 1] /\ x.op = "PUSH"
    BY <2>1 DEF Program, Proper
  <2>4. {"MOV", "PUSH"} \subseteq Straight
    BY DEF Straight
  <2> HIDE DEF x
  <2> QED BY <2>1, <2>2, <2>3, <2>4, NoTransfers, EditAndRemove
<1>8. CASE q \in MergeLea(p, i)
  <2> DEFINE x == [p[i] EXCEPT !.src.imm = Wrap(@ + p[i + 1].src.imm)]
  <2>1. /\ i + 2 \in 1 .. Len(p) /\ p[i].op = "LEA"
        /\ p[i + 2].admr.kind = "REG"
    BY <1>1, <1>8 DEF MergeLea, is_register
  <2>2. q = RemoveAt([p EXCEPT ![i] = x], i + 2)
    BY <1>1, <1>8, <2>1 DEF MergeLea
  <2>3. DOMAIN x = DOMAIN p[i] /\ x.op = "LEA"
    BY <2>1 DEF Program, Proper
  <2>4. "LEA" \in Straight
    BY DEF Straight
  <2>5. ~Transfers(p[i + 2])
    BY <2>1 DEF Program, Proper
  <2> HIDE DEF x
  <2> QED BY <2>1, <2>2, <2>3, <2>4, <2>5, EditAndRemove
<1>9. CASE q \in ForwardMove(p, i)
  <2>1. PICK j \in i + 1 .. Len(p) - 1 :
          /\ p[i].op = "MOV" /\ p[j].op \in MovLea
          /\ q = RemoveAt([p EXCEPT ![j].admx = p[i].admx, ![j].src = p[i].src], i)
    BY <1>9 DEF ForwardMove
  <2> DEFINE x == [p[j] EXCEPT !.admx = p[i].admx, !.src = p[i].src]
  <2>2. j \in 1 .. Len(p) /\ j # i
    BY <1>1, <2>1
  <2>3. q = RemoveAt([p EXCEPT ![j] = x], i)
    BY <1>1, <2>1, <2>2
  <2>4. DOMAIN x = DOMAIN p[j] /\ x.op = p[j].op
    BY <2>2 DEF Program, Proper
  <2>5. {"MOV", "LEA"} \subseteq Straight
    BY DEF Straight
  <2> HIDE DEF x
  <2> QED BY <2>1, <2>2, <2>3, <2>4, <2>5, NoTransfers, EditAndRemove DEF MovLea
<1> QED BY <1>2, <1>3, <1>4, <1>5, <1>6, <1>7, <1>8, <1>9

\* The rules that do more.
LEMMA PrecomputeKeeps ==
  ASSUME NEW p, Program(p), NEW i \in 1 .. Len(p), NEW q \in Precompute(p, i)
  PROVE  Keeps(p, q)
<1>1. Len(p) \in Nat /\ DOMAIN p = 1 .. Len(p)
  BY TupleSeq DEF Program, Tuple
<1> DEFINE x == [p[i] EXCEPT !.src = IMM(Precomputed(p[i + 1].op, Parsed(p[i].src), Parsed(p[i + 1].src)))]
           moved == RemoveAt([p EXCEPT ![i] = x], i + 1)
<1>2. i + 1 \in 1 .. Len(p) /\ p[i].op = "MOV" /\ is_arithmetic_operation(p[i + 1].op)
  BY <1>1 DEF Precompute
<1>3. q = moved \/ q = InsertAfter(moved, i, Plain("SEAO"))
  <2>1. RemoveAt([p EXCEPT ![i].src = IMM(Precomputed(p[i + 1].op, Parsed(p[i].src), Parsed(p[i + 1].src)))], i + 1)
          = moved
    BY <1>1
  <2> HIDE DEF moved
  <2> QED BY <2>1 DEF Precompute
<1>4. DOMAIN x = DOMAIN p[i] /\ x.op = "MOV" /\ "MOV" \in Straight
  <2> DEFINE v == IMM(Precomputed(p[i + 1].op, Parsed(p[i].src), Parsed(p[i + 1].src)))
  <2> HIDE DEF v
  <2>1. DOMAIN [p[i] EXCEPT !.src = v] = DOMAIN p[i] /\ [p[i] EXCEPT !.src = v].op = "MOV"
    BY <1>2 DEF Program, Proper
  <2> QED BY <2>1 DEF v, Straight
<1>5. p[i + 1].op \in Straight
  BY <1>2 DEF is_arithmetic_operation, Straight
<1> HIDE DEF x
<1>6. Keeps(p, moved)
  BY <1>2, <1>4, <1>5, NoTransfers, EditAndRemove
<1>7. i \in 1 .. Len(moved) \/ Len(moved) = 0
  <2> DEFINE c == [p EXCEPT ![i] = x]
  <2>1. Len(c) = Len(p) /\ Tuple(c, Len(c))
    BY <1>2, <1>4, Edit DEF Keeps, Program
  <2> HIDE DEF c
  <2>2. Without(c, i + 1, RemoveAt(c, i + 1))
    BY <1>2, <2>1, RemoveAtIs
  <2>3. Len(RemoveAt(c, i + 1)) = Len(p) - 1
    BY <2>1, <2>2 DEF Without
  <2> QED BY <1>1, <1>2, <2>3 DEF c
<1> HIDE DEF moved
<1>8. CASE q = InsertAfter(moved, i, Plain("SEAO"))
  <2> DEFINE seao == Plain("SEAO")
  <2>1. DOMAIN seao = {"op", "admr", "admx", "names_label", "dst", "src"} /\ seao.op = "SEAO"
    BY DEF Plain, TwoOperands
  <2> HIDE DEF seao
  <2>2. ~Transfers(seao) /\ Proper(seao)
    <3>1. seao.op \in Straight
      BY <2>1 DEF Straight
    <3>2. ~Transfers(seao)
      BY <3>1, NoTransfers
    <3> QED BY <2>1, <3>2 DEF Proper
  <2>3. CASE i \in 1 .. Len(moved)
    <3>1. Keeps(moved, q)
      BY <1>6, <1>8, <2>2, <2>3, InsertAfterKeeps DEF Keeps, seao
    <3> QED BY <1>6, <3>1, KeepsBoth
  <2>4. CASE Len(moved) = 0
    <3>1. q = moved
      BY <1>8, <2>4 DEF InsertAfter
    <3> QED BY <1>6, <3>1
  <2> QED BY <1>7, <2>3, <2>4
<1> QED BY <1>3, <1>6, <1>8

LEMMA StackToPushKeeps ==
  ASSUME NEW p, Program(p), NEW i \in 1 .. Len(p), NEW q \in StackToPush(p, i)
  PROVE  Keeps(p, q)
<1>1. Len(p) \in Nat /\ DOMAIN p = 1 .. Len(p)
  BY TupleSeq DEF Program, Tuple
<1> DEFINE x == [p[i] EXCEPT !.src = IMM(Wrap(Parsed(p[i].src) - 2))]
           y(j) == [p[j + 1] EXCEPT !.op = "PUSH", !.dst = Absent]
<1>2. p[i].op = "SUB"
  BY DEF StackToPush
<1>3. PICK j \in i + 1 .. Len(p) - 2 :
        /\ StoresBelow(p, j)
        /\ q = RemoveAt([p EXCEPT ![i].src = IMM(Wrap(Parsed(p[i].src) - 2)),
                                  ![j + 1].op = "PUSH", ![j + 1].dst = Absent], j)
  BY DEF StackToPush
<1>4. j \in 1 .. Len(p) /\ j + 1 \in 1 .. Len(p) /\ j + 1 # i /\ j # i
  BY <1>1, <1>3
<1> DEFINE c == [p EXCEPT ![i] = x]
           d == [c EXCEPT ![j + 1] = y(j)]
<1>5. q = RemoveAt(d, j)
  BY <1>1, <1>3, <1>4
<1>6. DOMAIN x = DOMAIN p[i] /\ x.op = "SUB"
  BY <1>2 DEF Program, Proper
<1>7. DOMAIN y(j) = DOMAIN p[j + 1] /\ y(j).op = "PUSH"
  BY <1>4 DEF Program, Proper
<1>8. {"SUB", "PUSH", "MOV"} \subseteq Straight
  BY DEF Straight
<1>9. p[j].op = "MOV" /\ p[j + 1].op = "MOV"
  BY <1>3 DEF StoresBelow
<1> HIDE DEF x, y
<1>10. Keeps(p, c) /\ Len(c) = Len(p) /\ \A k \in 1 .. Len(p) \ {i} : c[k] = p[k]
  BY <1>2, <1>6, <1>8, Edit
<1>11. c[j] = p[j] /\ c[j + 1] = p[j + 1]
  BY <1>4, <1>10
<1> HIDE DEF c
<1>12. Keeps(c, RemoveAt(d, j))
  <2>1. Program(c) /\ j \in 1 .. Len(c)
    BY <1>4, <1>10 DEF Keeps
  <2>2. PICK k \in 1 .. Len(c) : k = j + 1
    BY <1>4, <1>10
  <2>3. c[k].op \in Straight /\ DOMAIN y(j) = DOMAIN c[k] /\ y(j).op \in Straight
    BY <1>7, <1>8, <1>9, <1>11, <2>2
  <2>4. ~Transfers(c[j])
    BY <1>8, <1>9, <1>11, NoTransfers
  <2>5. Keeps(c, RemoveAt([c EXCEPT ![k] = y(j)], j))
    BY <2>1, <2>3, <2>4, EditAndRemove
  <2> QED BY <2>2, <2>5
<1> QED BY <1>5, <1>10, <1>12, KeepsBoth

LEMMA PushPopKeeps ==
  ASSUME NEW p, Program(p), NEW i \in 1 .. Len(p), NEW q \in PushPop(p, i)
  PROVE  Keeps(p, q)
<1>1. Len(p) \in Nat
  BY DEF Program, Tuple
<1> DEFINE c == RemoveAt(p, i + 1)
<1>2. i + 1 \in 1 .. Len(p) /\ p[i].op \in Straight /\ p[i + 1].op \in Straight /\ q = RemoveAt(c, i)
  BY <1>1 DEF PushPop, Straight
<1>3. Keeps(p, c) /\ Without(p, i + 1, c)
  BY <1>2, NoTransfers, RemoveKeeps
<1> HIDE DEF c
<1>4. i \in 1 .. Len(c) /\ c[i] = p[i]
  <2>1. i \in 1 .. (i + 1) - 1 /\ i \in 1 .. Len(p) - 1
    BY <1>1, <1>2
  <2> QED BY <1>3, <2>1 DEF Without
<1>5. Keeps(c, q)
  BY <1>2, <1>3, <1>4, NoTransfers, RemoveKeeps DEF Keeps
<1> QED BY <1>3, <1>5, KeepsBoth

LEMMA DelayLoadKeeps ==
  ASSUME NEW p, Program(p), NEW i \in 1 .. Len(p), NEW q \in DelayLoad(p, i)
  PROVE  Keeps(p, q)
<1>1. Len(p) \in Nat /\ DOMAIN p = 1 .. Len(p)
  BY TupleSeq DEF Program, Tuple
<1> DEFINE x == [p[i + 2] EXCEPT !.admx.kind = "IND", !.src = [@ EXCEPT !.kind = "IND"]]
           c == [p EXCEPT ![i + 2] = x]
           d == InsertAfter(c, i + 2, p[i])
<1>2. i + 2 \in 1 .. Len(p) /\ p[i].op = "MOV" /\ p[i + 2].op = "MOV" /\ q = RemoveAt(d, i)
  <2>1. i + 2 <= Len(p) /\ p[i].op = "MOV" /\ p[i + 2].op = "MOV"
    BY Zenon DEF DelayLoad
  <2>2. q = RemoveAt(d, i)
    BY Zenon DEF DelayLoad
  <2> QED BY <1>1, <2>1, <2>2
<1>3. DOMAIN x = DOMAIN p[i + 2] /\ x.op = "MOV"
  BY <1>2 DEF Program, Proper
<1>4. "MOV" \in Straight
  BY DEF Straight
<1>5. Keeps(p, c) /\ Len(c) = Len(p) /\ c[i] = p[i]
  <2>1. PICK j \in 1 .. Len(p) : j = i + 2
    BY <1>2
  <2> HIDE DEF x
  <2>2. p[j].op \in Straight /\ DOMAIN x = DOMAIN p[j] /\ x.op \in Straight
    BY <1>2, <1>3, <1>4, <2>1
  <2> DEFINE y == [p EXCEPT ![j] = x]
  <2>4. Keeps(p, y) /\ Len(y) = Len(p) /\ \A k \in 1 .. Len(p) \ {j} : y[k] = p[k]
    BY <2>2, Edit
  <2>5. y = c
    BY <2>1
  <2> HIDE DEF c, y
  <2>3. Keeps(p, c) /\ Len(c) = Len(p) /\ \A k \in 1 .. Len(p) \ {j} : c[k] = p[k]
    BY <2>4, <2>5
  <2> QED BY <1>1, <2>1, <2>3
<1> HIDE DEF c
<1>6. Proper(p[i]) /\ ~Transfers(p[i])
  BY <1>2, <1>4, NoTransfers DEF Program
<1>7. /\ Keeps(c, d) /\ Len(d) \in {Len(c), Len(c) + 1}
      /\ \A k \in 1 .. i + 2 : d[k] = c[k]
  <2>1. i + 2 \in 1 .. Len(c) /\ Program(c)
    BY <1>2, <1>5 DEF Keeps
  <2> QED BY <1>6, <2>1, InsertAfterKeeps
<1> HIDE DEF d
<1>8. i \in 1 .. Len(d) /\ d[i] = p[i]
  BY <1>1, <1>5, <1>7
<1>9. Keeps(d, q)
  BY <1>2, <1>6, <1>7, <1>8, RemoveKeeps DEF Keeps
<1> QED BY <1>5, <1>7, <1>9, KeepsBoth

\* Every rule at every operand.
LEMMA RewritesKeep ==
  ASSUME NEW p, Program(p), NEW i \in 1 .. Len(p),
         NEW rule \in {Rules[k] : k \in DOMAIN Rules} \cup {"ZeroByXor"},
         NEW q \in Rewritten(rule, p, i)
  PROVE  Keeps(p, q)
<1> DEFINE Removals == OverwrittenMove(p, i) \cup MoveBack(p, i) \cup AddOfZero(p, i) \cup MoveToItself(p, i)
                         \cup Neutral(p, i) \cup OverwrittenNext(p, i) \cup NeutralMask(p, i)
           Edits == StoreThroughImmediate(p, i) \cup LeaToMove(p, i) \cup ZeroByXor(p, i)
           Mergers == AddToZero(p, i) \cup LoadEffective(p, i) \cup ForwardOnce(p, i) \cup AddToLea(p, i)
                        \cup AddToLabel(p, i) \cup PushPlace(p, i) \cup MergeLea(p, i) \cup ForwardMove(p, i)
           Others == Precompute(p, i) \cup StackToPush(p, i) \cup PushPop(p, i) \cup DelayLoad(p, i)
<1>1. rule \in {"OverwrittenMove", "StoreThroughImmediate", "AddToZero", "MoveBack",
                "AddOfZero", "LoadEffective", "ForwardOnce", "AddToLea", "AddToLabel",
                "Precompute", "PushPlace", "StackToPush", "DelayLoad", "MergeLea",
                "ForwardMove", "MoveToItself", "Neutral", "OverwrittenNext",
                "LeaToMove", "PushPop", "NeutralMask", "ZeroByXor"}
  <2>1. DOMAIN Rules = 1 .. 21
    BY DEF Rules
  <2> QED BY <2>1 DEF Rules
<1>2. q \in Removals \cup Edits \cup Mergers \cup Others
  BY <1>1 DEF Rewritten
<1> HIDE DEF Removals, Edits, Mergers, Others
<1>3. CASE q \in Removals
  BY <1>3, RemovalsKeep DEF Removals
<1>4. CASE q \in Edits
  BY <1>4, EditsKeep DEF Edits
<1>5. CASE q \in Mergers
  BY <1>5, MergersKeep DEF Mergers
<1>6. CASE q \in Others
  BY <1>6, PrecomputeKeeps, StackToPushKeeps, PushPopKeeps, DelayLoadKeeps DEF Others
<1> QED BY <1>2, <1>3, <1>4, <1>5, <1>6

OptimizerInv == Program(source) /\ Keeps(source, program)

LEMMA OptimizerStart == OptimizerInit => OptimizerInv
<1> SUFFICES ASSUME OptimizerInit
             PROVE  OptimizerInv
  OBVIOUS
<1>1. PICK body \in [1 .. LINES -> Lines] : source = body \o LastLines
  BY DEF OptimizerInit
<1>2. Tuple(body, LINES)
  BY OptimizerAssumption DEF Tuple
<1>3. Tuple(LastLines, Len(LastLines)) /\ Len(LastLines) \in Nat /\ DOMAIN LastLines = 1 .. Len(LastLines)
      /\ \A k \in 1 .. Len(LastLines) : LastLines[k] \in ParsedLine
  <2>1. Tuple(LastLines, Len(LastLines))
    BY OptimizerAssumption, SeqTuple
  <2> QED BY <2>1, TupleSeq, OptimizerAssumption, LenProperties, ElementOfSeq DEF Tuple
<1>4. Joins(source, body, LINES, LastLines, Len(LastLines))
  <2>1. IsConcat(source, body, LastLines)
    BY <1>1 DEF IsConcat
  <2> QED BY <1>2, <1>3, <2>1, Join
<1>5. \A l \in Lines \cup {LastLines[k] : k \in DOMAIN LastLines} : Proper(l)
  <2> SUFFICES ASSUME NEW l \in Lines \cup {LastLines[k] : k \in DOMAIN LastLines}
               PROVE  Proper(l)
    OBVIOUS
  <2>1. l \in ParsedLine
    BY <1>3, OptimizerAssumption
  <2>2. DOMAIN l = {"op", "admr", "admx", "names_label", "dst", "src"}
    BY <2>1 DEF ParsedLine
  <2>3. Transfers(l) => l.admr = ModeOf(Absent)
    BY OptimizerAssumption
  <2>4. ModeOf(Absent).kind = "NONE"
    BY DEF ModeOf, Absent
  <2> QED BY <2>2, <2>3, <2>4 DEF Proper
<1>6. Len(source) = LINES + Len(LastLines) /\ Tuple(source, Len(source))
  BY <1>4, TupleSeq DEF Joins
<1>7. ASSUME NEW k \in 1 .. Len(source)
      PROVE  Proper(source[k])
  <2>1. CASE k <= LINES
    <3>1. k \in 1 .. LINES
      BY <2>1, OptimizerAssumption
    <3> QED BY <1>4, <1>5, <3>1 DEF Joins
  <2>2. CASE k > LINES
    <3>1. k - LINES \in 1 .. Len(LastLines) /\ LINES + (k - LINES) = k
      BY <1>3, <1>6, <2>2, OptimizerAssumption
    <3> QED BY <1>3, <1>4, <1>5, <3>1 DEF Joins
  <2> QED BY <2>1, <2>2, OptimizerAssumption, <1>6
<1>8. Program(source)
  BY <1>6, <1>7 DEF Program
<1> QED BY <1>8 DEF OptimizerInit, OptimizerInv, Keeps

LEMMA OptimizerStep == OptimizerInv /\ [OptimizerNext]_optVars => OptimizerInv'
<1> SUFFICES ASSUME OptimizerInv, [OptimizerNext]_optVars
             PROVE  OptimizerInv'
  OBVIOUS
<1>1. DOMAIN program = 1 .. Len(program) /\ Program(program)
  BY TupleSeq DEF OptimizerInv, Keeps, Program
<1>2. ASSUME NEW rules \in {Rules, LowRules}, Apply(rules)
      PROVE  OptimizerInv'
  <2>1. PICK i \in DOMAIN program, k \in DOMAIN rules :
          program' \in Rewritten(rules[k], program, i) /\ source' = source
    BY <1>2, Zenon DEF Apply
  <2>2. rules[k] \in {Rules[l] : l \in DOMAIN Rules} \cup {"ZeroByXor"}
    <3>1. CASE rules = Rules
      BY <3>1
    <3>2. CASE rules = LowRules
      BY <3>2 DEF LowRules
    <3> QED BY <3>1, <3>2
  <2>3. Keeps(program, program')
    BY <1>1, <2>1, <2>2, RewritesKeep
  <2>4. Keeps(source, program')
    BY <2>3, KeepsBoth DEF OptimizerInv
  <2> QED BY <2>1, <2>4 DEF OptimizerInv
<1>3. CASE Optimize \/ OptimizeLow
  BY <1>2, <1>3 DEF Optimize, OptimizeLow
<1>4. CASE TurnLow \/ Reconstruct \/ UNCHANGED optVars
  BY <1>4 DEF TurnLow, Reconstruct, Turn, optVars, OptimizerInv
<1> QED BY <1>3, <1>4 DEF OptimizerNext

\* The optimizer keeps every jump, call, return, HLT and label, in their order,
\* of every program of any length, whichever rules apply at which places
\* (optimizer_compile).
THEOREM TransfersAreKept == OptimizerSpec => []ControlKept
<1>1. OptimizerInv => ControlKept
  BY DEF OptimizerInv, Keeps, ControlKept
<1> QED BY <1>1, OptimizerStart, OptimizerStep, PTL DEF OptimizerSpec
=============================================================================
