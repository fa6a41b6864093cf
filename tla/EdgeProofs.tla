----------------------------- MODULE EdgeProofs -----------------------------
(***************************************************************************)
(* The safety of Edge for every number of requests, all timeouts and all   *)
(* rule lists, checked by TLAPS: which requests a timer may cut off, what  *)
(* can bring the process down, whom a clean exit has left behind, and, for *)
(* words of any width, whom the IP filter admits.                          *)
(***************************************************************************)
EXTENDS Edge, FiniteSetTheorems, WellFoundedInduction, TLAPS

-----------------------------------------------------------------------------
(* Powers of two                                                            *)

\* A nonempty set of natural numbers has a least element.
LEMMA LeastNatural ==
    ASSUME NEW S \in SUBSET Nat, S # {}
    PROVE  \E s \in S : \A u \in S : s <= u
<1>1. S \subseteq Nat
  OBVIOUS
<1>2. PICK s \in S : \A u \in S : ~(<<u, s>> \in OpToRel(<, Nat))
  BY <1>1, NatLessThanWellFounded, WFMin, Zenon
<1>3. \A u \in S : ~(u < s)
  BY <1>1, <1>2, Zenon DEF OpToRel
<1> QED
  BY <1>1, <1>3

\* 1..n has 2^n subsets, which is all that is known of powers of two.
LEMMA Subsets ==
    ASSUME NEW n \in Nat
    PROVE  /\ 2^n \in Nat \ {0}
           /\ IsFiniteSet(SUBSET (1..n)) /\ Cardinality(SUBSET (1..n)) = 2^n
<1>1. IsFiniteSet(1..n) /\ Cardinality(1..n) = n
  BY FS_Interval
<1>2. IsFiniteSet(SUBSET (1..n)) /\ Cardinality(SUBSET (1..n)) = 2^n
  BY <1>1, FS_SUBSET
<1>3. 2^n \in Nat
  BY <1>2, FS_CardinalityType
<1>4. 2^n # 0
  <2>1. {} \in SUBSET (1..n)
    OBVIOUS
  <2> QED
    BY <1>2, <2>1, FS_EmptySet
<1> QED
  BY <1>2, <1>3, <1>4

\* The first power of two.
LEMMA PowerOfZero == 2^0 = 1
<1>1. SUBSET (1..0) = {{}}
  OBVIOUS
<1>2. Cardinality(SUBSET (1..0)) = 1
  BY <1>1, FS_Singleton
<1> QED
  BY <1>2, Subsets

\* A subset of 1..n+1 holds n+1 or it does not.
LEMMA PowerOfSuccessor ==
    ASSUME NEW n \in Nat
    PROVE  2^(n + 1) = 2 * 2^n
<1> DEFINE A == SUBSET (1..n)
           With(T) == T \cup {n + 1}
           B == {With(T) : T \in A}
           f == [T \in A |-> With(T)]
<1>1. IsFiniteSet(A) /\ Cardinality(A) = 2^n /\ 2^n \in Nat
  BY Subsets
<1>2. Cardinality(SUBSET (1..n + 1)) = 2^(n + 1)
  BY Subsets
<1>3. IsFiniteSet(B) /\ Cardinality(B) = Cardinality(A)
  <2>1. f \in Bijection(A, B)
    <3>1. f \in [A -> B] /\ \A b \in B : \E T \in A : f[T] = b
      OBVIOUS
    <3>2. ASSUME NEW T \in A, NEW U \in A, f[T] = f[U] PROVE T = U
      <4>1. n + 1 \notin T /\ n + 1 \notin U
        OBVIOUS
      <4>2. T \cup {n + 1} = U \cup {n + 1}
        BY <3>2
      <4> QED
        BY <4>1, <4>2
    <3> HIDE DEF f, A, B
    <3> QED
      BY <3>1, <3>2 DEF Bijection, Injection, IsInjective, Surjection
  <2>2. ExistsBijection(A, B)
    BY <2>1 DEF ExistsBijection
  <2> HIDE DEF A, B
  <2> QED
    BY <1>1, <2>2, FS_Bijection
<1>4. A \cup B = SUBSET (1..n + 1)
  <2>1. ASSUME NEW T \in SUBSET (1..n + 1), T \notin A PROVE T \in B
    <3>1. n + 1 \in T
      BY <2>1
    <3>2. T \ {n + 1} \in A
      <4>1. \A x \in T \ {n + 1} : x \in 1..n
        OBVIOUS
      <4> QED
        BY <4>1
    <3>3. T = With(T \ {n + 1})
      BY <3>1
    <3> QED
      BY <3>2, <3>3
  <2>2. \A T \in A : T \in SUBSET (1..n + 1) /\ With(T) \in SUBSET (1..n + 1)
    OBVIOUS
  <2> HIDE DEF With
  <2> QED
    BY <2>1, <2>2
<1>5. A \cap B = {}
  <2>1. \A T \in A : n + 1 \notin T
    OBVIOUS
  <2>2. \A T \in B : n + 1 \in T
    OBVIOUS
  <2> QED
    BY <2>1, <2>2
<1>6. Cardinality(A \cup B) = Cardinality(A) + Cardinality(B)
  <2>1. Cardinality(A \cap B) = 0
    BY <1>5, FS_EmptySet
  <2> HIDE DEF A, B
  <2> QED
    BY <1>1, <1>3, <2>1, FS_Union
<1>7. 2^(n + 1) = Cardinality(A \cup B)
  BY <1>2, <1>4, Zenon
<1> DEFINE p == 2^n
<1>8. Cardinality(A \cup B) = p + p /\ p \in Nat
  BY <1>1, <1>3, <1>6
<1> HIDE DEF A, B, p
<1>9. Cardinality(A \cup B) = 2 * p
  BY <1>8
<1> QED
  BY <1>7, <1>9, Zenon DEF p

\* The weight of the last bit of a prefix is a positive number.
LEMMA ShiftType ==
    ASSUME NEW n \in 0..Width
    PROVE  Width - n \in Nat /\ 2^(Width - n) \in Nat \ {0}
<1>1. Width - n \in Nat
  BY IpFilterAssumption
<1> QED
  BY <1>1, Subsets

\* Powers of two multiply.
LEMMA PowerSum ==
    ASSUME NEW m \in Nat, NEW n \in Nat
    PROVE  2^(m + n) = 2^m * 2^n
<1> DEFINE S == {i \in Nat : 2^(m + i) # 2^m * 2^i}
<1>1. SUFFICES S = {}
  BY <1>1
<1>2. SUFFICES ASSUME S # {} PROVE FALSE
  OBVIOUS
<1>3. PICK i \in S : \A j \in S : i <= j
  <2>1. S \in SUBSET Nat
    OBVIOUS
  <2> HIDE DEF S
  <2> QED
    BY <1>2, <2>1, LeastNatural
<1> DEFINE p == 2^m
<1>4. p \in Nat
  BY Subsets
<1>5. i # 0
  <2>1. m + 0 = m /\ p * 1 = p
    BY <1>4
  <2>2. 2^(m + 0) = 2^m * 2^0
    BY <2>1, PowerOfZero
  <2> QED
    BY <1>3, <2>2
<1> DEFINE j == i - 1
<1>6. j \in Nat /\ i = j + 1 /\ m + i = (m + j) + 1 /\ m + j \in Nat /\ ~(i <= j)
  BY <1>3, <1>5
<1>7. 2^(m + j) = p * 2^j
  <2>1. j \notin S
    BY <1>3, <1>6
  <2> QED
    BY <1>6, <2>1
<1> DEFINE q == 2^j
<1>8. q \in Nat
  BY <1>6, Subsets
<1>9. 2^(m + i) = 2 * (p * q) /\ 2^i = 2 * q
  BY <1>6, <1>7, PowerOfSuccessor
<1>10. 2 * (p * q) = p * (2 * q)
  <2> HIDE DEF p, q
  <2> QED
    BY <1>4, <1>8
<1> QED
  BY <1>3, <1>9, <1>10

-----------------------------------------------------------------------------
(* Bits                                                                     *)

\* Division with remainder.
LEMMA DivFacts ==
    ASSUME NEW x \in Int, NEW d \in Nat \ {0}
    PROVE  /\ x \div d \in Int /\ x % d \in Nat /\ x % d < d
           /\ x = d * (x \div d) + (x % d)
<1>1. x \div d \in Int
  OBVIOUS
<1>2. x % d \in 0..d - 1
  OBVIOUS
<1>3. x = d * (x \div d) + (x % d)
  OBVIOUS
<1> QED
  BY <1>1, <1>2, <1>3

\* There is but one quotient.
LEMMA DivIs ==
    ASSUME NEW x \in Int, NEW d \in Nat \ {0}, NEW q \in Int, NEW r \in Nat, r < d,
           x = d * q + r
    PROVE  x \div d = q /\ x % d = r
<1> DEFINE e == x \div d
           s == x % d
<1>1. e \in Int /\ s \in Nat /\ s < d /\ x = d * e + s
  BY DivFacts
<1> HIDE DEF e, s
<1>2. ASSUME NEW a \in Int, NEW b \in Int, NEW u \in Nat, NEW v \in Nat, v < d,
             d * a + u = d * b + v
      PROVE  ~(a < b /\ u < d)
  <2> SUFFICES ASSUME a < b, u < d PROVE FALSE
    OBVIOUS
  <2>1. PICK c \in Nat : b = a + 1 + c
    <3>1. b - a - 1 \in Nat /\ b = a + 1 + (b - a - 1)
      OBVIOUS
    <3> QED
      BY <3>1
  <2>2. d * b = d * a + d + d * c /\ d * c \in Nat /\ d * a \in Int
    BY <2>1
  <2> QED
    BY <1>2, <2>2
<1>3. ~(e < q) /\ ~(q < e)
  BY <1>1, <1>2
<1>4. e = q
  BY <1>1, <1>3
<1>5. s = r
  <2>1. d * q \in Int /\ d * q + s = d * q + r
    BY <1>1, <1>4
  <2> QED
    BY <1>1, <2>1
<1> QED
  BY <1>4, <1>5 DEF e, s

\* All bits of -1 are set.
LEMMA MinusOneIsOdd == \E q \in Int : q + 1 = 0 /\ q % 2 = 1
<1>1. PICK q \in Int : q + 1 = 0
  <2>1. 0 - 1 \in Int /\ (0 - 1) + 1 = 0
    OBVIOUS
  <2> QED
    BY <2>1
<1>2. q = 2 * q + 1 /\ 2 \in Nat \ {0} /\ 1 \in Nat /\ 1 < 2
  BY <1>1
<1>3. q % 2 = 1
  BY <1>2, DivIs
<1> QED
  BY <1>1, <1>3

\* The last bit of an even number, and of numbers an even number apart.
LEMMA Parity ==
    ASSUME NEW i \in Int, NEW j \in Int
    PROVE  /\ (2 * i) % 2 = 0
           /\ (i - 2 * j) % 2 = i % 2 /\ i % 2 \in {0, 1}
<1>1. (2 * i) % 2 = 0
  OBVIOUS
<1>3. i % 2 \in {0, 1}
  OBVIOUS
<1> DEFINE q == i \div 2
<1>4. q \in Int /\ i = 2 * q + (i % 2)
  OBVIOUS
<1> HIDE DEF q
<1>5. (i - 2 * j) % 2 = i % 2
  <2>1. i - 2 * j = 2 * (q - j) + (i % 2) /\ q - j \in Int /\ i - 2 * j \in Int
    BY <1>3, <1>4
  <2>2. 2 \in Nat \ {0} /\ i % 2 \in Nat /\ i % 2 < 2
    BY <1>3
  <2> QED
    BY <2>1, <2>2, DivIs
<1> QED
  BY <1>1, <1>3, <1>5

\* What a power is made of.
LEMMA PowersFactor ==
    ASSUME NEW m \in Nat, NEW n \in Nat, m <= n
    PROVE  \E c \in Nat \ {0} : /\ 2^n = 2^m * c /\ 2^m <= 2^n
                                /\ m < n => \E e \in Nat : c = 2 * e
<1> DEFINE k == n - m
           c == 2^k
           p == 2^m
<1>1. k \in Nat /\ m + k = n
  OBVIOUS
<1>2. c \in Nat \ {0} /\ p \in Nat \ {0}
  BY <1>1, Subsets
<1>3. 2^n = p * c
  BY <1>1, PowerSum
<1>4. p <= p * c
  <2> HIDE DEF p, c
  <2>1. PICK f \in Nat : c = f + 1
    <3>1. c - 1 \in Nat /\ c = (c - 1) + 1
      BY <1>2
    <3> QED
      BY <3>1
  <2>2. p * c = p * f + p /\ p * f \in Nat
    BY <1>2, <2>1
  <2> QED
    BY <1>2, <2>2
<1>5. ASSUME m < n PROVE \E e \in Nat : c = 2 * e
  <2>1. k - 1 \in Nat /\ k = (k - 1) + 1
    BY <1>5
  <2>2. c = 2 * 2^(k - 1) /\ 2^(k - 1) \in Nat
    <3>1. 2^((k - 1) + 1) = 2 * 2^(k - 1) /\ 2^(k - 1) \in Nat
      BY <2>1, PowerOfSuccessor, Subsets
    <3> QED
      BY <2>1, <3>1
  <2> QED
    BY <2>2
<1> HIDE DEF c
<1> QED
  BY <1>2, <1>3, <1>4, <1>5

\* A power divides a greater one an even number of times.
LEMMA EvenFactor ==
    ASSUME NEW m \in Nat, NEW n \in Nat, m < n
    PROVE  \E e \in Nat : 2^n = 2^m * (2 * e)
<1>1. m <= n
  OBVIOUS
<1>2. PICK c \in Nat \ {0} : /\ 2^n = 2^m * c /\ 2^m <= 2^n
                             /\ m < n => \E e \in Nat : c = 2 * e
  BY <1>1, PowersFactor
<1>3. PICK e \in Nat : c = 2 * e
  BY <1>2
<1> QED
  BY <1>2, <1>3

\* A bit is 0 or 1.
LEMMA BitType ==
    ASSUME NEW x \in Int, NEW n \in 1..Width
    PROVE  Bit(x, n) \in {0, 1}
<1> DEFINE d == 2^(Width - n)
<1>1. d \in Nat \ {0}
  BY ShiftType
<1>2. x \div d \in Int
  <2> HIDE DEF d
  <2> QED
    BY <1>1, DivFacts
<1>3. Bit(x, n) = (x \div d) % 2
  BY DEF Bit
<1> HIDE DEF d
<1> QED
  BY <1>2, <1>3, Parity

\* 0.0.0.0 is a quad of any width.
LEMMA ZeroIsQuad == 0 \in Quads
<1>1. 2^Width \in Nat \ {0}
  BY IpFilterAssumption, Subsets
<1> QED
  BY <1>1 DEF Quads

\* The signed word of a quad.
LEMMA ToIntFacts ==
    ASSUME NEW x \in Quads
    PROVE  /\ ToInt(x) \in Words /\ x \in Int /\ Words \subseteq Int
           /\ \A n \in 1..Width : Bit(ToInt(x), n) = Bit(x, n)
<1> DEFINE h == 2^(Width - 1)
           p == 2^Width
<1>1. Width \in Nat /\ Width - 1 \in Nat /\ Width = (Width - 1) + 1
  BY IpFilterAssumption
<1>2. h \in Nat \ {0} /\ p \in Nat
  BY <1>1, Subsets
<1>3. p = 2 * h
  <2>1. 2^((Width - 1) + 1) = 2 * 2^(Width - 1)
    BY <1>1, PowerOfSuccessor
  <2> QED
    BY <1>1, <2>1
<1>4. /\ x \in 0..p - 1 /\ Words = -h .. h - 1
      /\ ToInt(x) = IF x < h THEN x ELSE x - p
  BY DEF Quads, Words, ToInt
<1>5. ToInt(x) \in Words /\ x \in Int /\ Words \subseteq Int
  <2> HIDE DEF h, p
  <2> QED
    BY <1>2, <1>3, <1>4
<1>6. ASSUME NEW n \in 1..Width PROVE Bit(ToInt(x), n) = Bit(x, n)
  <2> DEFINE d == 2^(Width - n)
  <2>1. d \in Nat \ {0} /\ Width - n \in Nat /\ Width - n < Width
    BY <1>1, ShiftType
  <2>2. PICK e \in Nat : p = d * (2 * e)
    BY <1>1, <2>1, EvenFactor
  <2>3. Bit(ToInt(x), n) = (ToInt(x) \div d) % 2 /\ Bit(x, n) = (x \div d) % 2
    BY DEF Bit
  <2> HIDE DEF d, p, h
  <2> DEFINE q == x \div d
             r == x % d
  <2>4. q \in Int /\ r \in Nat /\ r < d /\ x = d * q + r
    BY <1>5, <2>1, DivFacts
  <2> HIDE DEF q, r
  <2>5. CASE ToInt(x) = x
    BY <2>3, <2>5
  <2>6. CASE ToInt(x) = x - p
    <3>1. x - p = d * (q - 2 * e) + r /\ x - p \in Int /\ q - 2 * e \in Int
      <4>1. d * (q - 2 * e) = d * q - d * (2 * e)
        BY <2>1, <2>2, <2>4
      <4>2. d * q \in Int /\ d * (2 * e) \in Int
        BY <2>1, <2>2, <2>4
      <4> QED
        BY <2>2, <2>4, <4>1, <4>2
    <3>2. (x - p) \div d = q - 2 * e
      BY <2>1, <2>4, <3>1, DivIs
    <3>3. (q - 2 * e) % 2 = q % 2
      BY <2>2, <2>4, Parity
    <3> QED
      BY <2>3, <2>6, <3>2, <3>3 DEF q
  <2> QED
    BY <1>4, <2>5, <2>6
<1> QED
  BY <1>5, <1>6

\* The mask of a range keeps its first bits.
LEMMA MaskBits ==
    ASSUME NEW b \in {NaN} \cup 1..Width, NEW n \in 1..Width
    PROVE  /\ Leading(b) \in 1..Width
           /\ Bit(Mask(b), n) = IF n <= Leading(b) THEN 1 ELSE 0
<1> DEFINE k == Leading(b)
           D == 2^(Width - k)
           d == 2^(Width - n)
<1>1. k \in 1..Width /\ Width \in Nat
  BY IpFilterAssumption DEF Leading
<1>2. D \in Nat \ {0} /\ d \in Nat \ {0} /\ Width - k \in Nat /\ Width - n \in Nat
  BY <1>1, ShiftType
<1>3. Mask(b) = -D
  <2>1. CASE b = NaN
    <3>1. Width - k = 0
      BY <1>1, <2>1 DEF Leading
    <3>2. D = 1
      BY <3>1, PowerOfZero
    <3>3. Mask(b) = -0 - 1
      BY <2>1 DEF Mask, Not
    <3> QED
      BY <3>2, <3>3
  <2>2. CASE b # NaN
    <3>1. Mask(b) = -(D - 1) - 1
      BY <2>2 DEF Mask, Not, Leading
    <3> HIDE DEF D
    <3> QED
      BY <1>2, <3>1
  <2> QED
    BY <2>1, <2>2
<1>4. Bit(Mask(b), n) = ((-D) \div d) % 2
  <2>1. Bit(Mask(b), n) = (Mask(b) \div d) % 2
    BY DEF Bit
  <2> HIDE DEF D, d
  <2> QED
    BY <1>3, <2>1
<1>5. CASE n <= k
  <2>1. D <= d
    BY <1>1, <1>2, <1>5, PowersFactor
  <2>2. PICK q \in Int : q + 1 = 0 /\ q % 2 = 1
    BY MinusOneIsOdd
  <2> HIDE DEF D, d
  <2>3. d * q + d = 0
    <3>1. d * q + d = d * (q + 1)
      BY <1>2
    <3>2. d * 0 = 0
      BY <1>2
    <3> QED
      BY <2>2, <3>1, <3>2
  <2>4. d * q \in Int
    BY <1>2
  <2>5. -D = d * q + (d - D) /\ d - D \in Nat /\ d - D < d /\ -D \in Int
    BY <1>2, <2>1, <2>3, <2>4
  <2>6. (-D) \div d = q
    BY <1>2, <2>5, DivIs
  <2> QED
    BY <1>1, <1>4, <1>5, <2>2, <2>6
<1>6. CASE ~(n <= k)
  <2>1. Width - n < Width - k
    BY <1>1, <1>6
  <2>2. PICK e \in Nat : D = d * (2 * e)
    BY <1>2, <2>1, EvenFactor
  <2> HIDE DEF D, d
  <2> DEFINE f == 0 - e
             g == 2 * f
  <2>3. 2 * e \in Nat /\ g = 0 - (2 * e) /\ f \in Int /\ g \in Int
    OBVIOUS
  <2>4. g \in Int /\ f \in Int
    OBVIOUS
  <2>5. d * g = 0 - d * (2 * e)
    BY <1>2, <2>3
  <2>6. -D = d * g + 0 /\ -D \in Int /\ 0 \in Nat /\ 0 < d
    BY <1>2, <2>2, <2>5
  <2>7. g % 2 = 0
    BY <2>4, Parity
  <2> HIDE DEF f, g
  <2>8. (-D) \div d = g
    BY <1>2, <2>4, <2>6, DivIs
  <2> QED
    BY <1>1, <1>4, <1>6, <2>7, <2>8
<1> QED
  BY <1>1, <1>5, <1>6

\* A word without its last Width - k bits is a word, and has the other bits.
LEMMA Prefix ==
    ASSUME NEW x \in Words, NEW k \in 1..Width
    PROVE  \E z \in Words : \A n \in 1..Width : Bit(z, n) = IF n <= k THEN Bit(x, n) ELSE 0
<1> DEFINE D == 2^(Width - k)
           h == 2^(Width - 1)
           i == x \div D
           z == D * i
           s == x % D
<1>1. /\ D \in Nat \ {0} /\ h \in Nat \ {0} /\ Words = -h .. h - 1 /\ x \in Int
      /\ Width \in Nat /\ Width - k \in Nat /\ Width - 1 \in Nat
  <2>1. D \in Nat \ {0} /\ Width - k \in Nat /\ Width - 1 \in Nat /\ Width \in Nat
    BY ShiftType, IpFilterAssumption
  <2>2. h \in Nat \ {0}
    BY <2>1, Subsets
  <2> HIDE DEF D
  <2> QED
    BY <2>1, <2>2 DEF Words
<1>2. i \in Int /\ s \in Nat /\ s < D /\ x = z + s /\ z \in Int
  <2> HIDE DEF D, h
  <2>1. i \in Int /\ s \in Nat /\ s < D /\ x = D * i + s
    BY <1>1, DivFacts
  <2> HIDE DEF i, s
  <2> QED
    BY <1>1, <2>1
<1>3. z \in Words
  <2>1. PICK e \in Nat \ {0} : h = D * e
    <3>1. Width - k <= Width - 1
      BY <1>1
    <3> QED
      BY <1>1, <3>1, PowersFactor
  <2> HIDE DEF D, h, i, s
  <2>2. ~(i < -e)
    <3> SUFFICES ASSUME i < -e PROVE FALSE
      OBVIOUS
    <3>1. PICK c \in Nat : i = -e - 1 - c
      <4>1. -e - 1 - i \in Nat /\ i = -e - 1 - (-e - 1 - i)
        BY <1>2
      <4> QED
        BY <4>1
    <3>2. D * i = -(D * e) - D - D * c /\ D * e \in Nat /\ D * c \in Nat
      BY <1>1, <3>1
    <3> QED
      BY <1>1, <1>2, <2>1, <3>2
  <2>3. PICK c \in Nat : i = c - e
    <3>1. i + e \in Nat /\ i = (i + e) - e
      BY <1>2, <2>2
    <3> QED
      BY <3>1
  <2>4. D * i = D * c - D * e /\ D * c \in Nat /\ D * e \in Nat
    BY <1>1, <2>3
  <2> QED
    BY <1>1, <1>2, <2>1, <2>4
<1>4. ASSUME NEW n \in 1..Width PROVE Bit(z, n) = IF n <= k THEN Bit(x, n) ELSE 0
  <2> DEFINE d == 2^(Width - n)
  <2>1. d \in Nat \ {0} /\ Width - n \in Nat
    BY ShiftType
  <2>2. Bit(z, n) = (z \div d) % 2 /\ Bit(x, n) = (x \div d) % 2
    BY DEF Bit
  <2>3. CASE n <= k
    <3>1. PICK c \in Nat \ {0} : d = D * c
      <4>1. Width - k <= Width - n
        BY <1>1, <2>3
      <4> QED
        BY <1>1, <2>1, <4>1, PowersFactor
    <3> HIDE DEF D, h, d
    <3> DEFINE q == x \div d
               r == x % d
               u == r \div D
               v == r % D
    <3>2. q \in Int /\ r \in Nat /\ r < d /\ x = d * q + r
      BY <1>1, <2>1, DivFacts
    <3> HIDE DEF q, r
    <3>3. u \in Int /\ v \in Nat /\ v < D /\ r = D * u + v
      BY <1>1, <3>2, DivFacts
    <3> HIDE DEF u, v
    <3>4. d * q = D * (c * q) /\ c * q \in Int /\ d * q \in Int
      BY <1>1, <3>1, <3>2
    <3> DEFINE w == c * q
    <3> HIDE DEF w
    <3>5. D * (w + u) = D * w + D * u /\ w + u \in Int /\ D * u \in Int /\ D * w \in Int
      BY <1>1, <3>3, <3>4 DEF w
    <3>6. x = D * (w + u) + v
      BY <3>2, <3>3, <3>4, <3>5 DEF w
    <3>7. i = w + u
      BY <1>1, <3>3, <3>5, <3>6, DivIs DEF i
    <3>8. z = d * q + (r - v)
      BY <3>3, <3>4, <3>5, <3>7 DEF w
    <3>9. r - v \in Nat /\ r - v < d
      <4>1. ~(u < 0)
        <5> SUFFICES ASSUME u < 0 PROVE FALSE
          OBVIOUS
        <5>1. PICK g \in Nat : u = -1 - g
          <6>1. -1 - u \in Nat /\ u = -1 - (-1 - u)
            BY <3>3
          <6> QED
            BY <6>1
        <5>2. D * u = -D - D * g /\ D * g \in Nat
          BY <1>1, <5>1
        <5> QED
          BY <1>1, <3>2, <3>3, <5>2
      <4>2. D * u \in Nat
        BY <1>1, <3>3, <4>1
      <4>3. r - v = D * u
        BY <3>2, <3>3, <4>2
      <4> QED
        BY <2>1, <3>2, <3>3, <4>2, <4>3
    <3>10. z \div d = q
      BY <1>2, <2>1, <3>2, <3>8, <3>9, DivIs
    <3> QED
      BY <2>2, <2>3, <3>10 DEF q
  <2>4. CASE ~(n <= k)
    <3>1. PICK e \in Nat : D = d * (2 * e)
      <4>1. Width - n < Width - k
        BY <1>1, <2>4
      <4> QED
        BY <1>1, <2>1, <4>1, EvenFactor
    <3> HIDE DEF D, h, d, i
    <3> DEFINE g == 2 * (e * i)
    <3>2. z = d * g + 0 /\ g \in Int /\ e * i \in Int /\ 0 \in Nat /\ 0 < d
      <4>1. (d * (2 * e)) * i = d * (2 * (e * i)) /\ e * i \in Int
        BY <1>2, <2>1
      <4>2. 2 * (e * i) \in Int /\ d * (2 * (e * i)) \in Int
        BY <2>1, <4>1
      <4> QED
        BY <2>1, <3>1, <4>1, <4>2
    <3>3. g % 2 = 0
      BY <3>2, Parity
    <3> HIDE DEF g
    <3>4. z \div d = g
      BY <1>2, <2>1, <3>2, DivIs
    <3> QED
      BY <2>2, <2>4, <3>3, <3>4
  <2> QED
    BY <2>3, <2>4
<1> HIDE DEF z
<1> QED
  BY <1>3, <1>4

\* Masked words are equal exactly when the first bits are.
LEMMA MaskedAgree ==
    ASSUME NEW x \in Words, NEW y \in Words, NEW b \in {NaN} \cup 1..Width
    PROVE  And(x, Mask(b)) = And(y, Mask(b))
             <=> \A n \in 1..Leading(b) : Bit(x, n) = Bit(y, n)
<1> DEFINE k == Leading(b)
           Masked(u) == [n \in 1..Width |-> Bit(u, n) * Bit(Mask(b), n)]
           First(u) == [n \in 1..Width |-> IF n <= k THEN Bit(u, n) ELSE 0]
<1>1. k \in 1..Width
  BY MaskBits, IpFilterAssumption
<1>2. Words \subseteq Int
  BY ZeroIsQuad, ToIntFacts
<1>3. ASSUME NEW u \in Words PROVE And(u, Mask(b)) = WordOf(First(u))
  <2>1. ASSUME NEW n \in 1..Width
        PROVE  Bit(u, n) * Bit(Mask(b), n) = IF n <= k THEN Bit(u, n) ELSE 0
    <3>1. Bit(u, n) \in {0, 1}
      BY <1>2, BitType
    <3>2. Bit(Mask(b), n) = IF n <= k THEN 1 ELSE 0
      BY MaskBits
    <3> QED
      BY <3>1, <3>2
  <2>2. Masked(u) = First(u)
    BY <2>1, Zenon
  <2> QED
    BY <2>2 DEF And
<1>4. ASSUME NEW u \in Words, NEW n \in 1..k PROVE Bit(WordOf(First(u)), n) = Bit(u, n)
  <2>1. n \in 1..Width /\ n <= k
    BY <1>1, IpFilterAssumption
  <2>2. \E z \in Words : \A m \in 1..Width : Bit(z, m) = IF m <= k THEN Bit(u, m) ELSE 0
    BY <1>1, Prefix
  <2>3. \E z \in Words : \A m \in 1..Width : Bit(z, m) = First(u)[m]
    BY <2>2, Zenon
  <2> HIDE DEF First
  <2>4. \A m \in 1..Width : Bit(WordOf(First(u)), m) = First(u)[m]
    BY <2>3 DEF WordOf
  <2> QED
    BY <2>1, <2>4 DEF First
<1>5. ASSUME \A n \in 1..k : Bit(x, n) = Bit(y, n)
      PROVE  And(x, Mask(b)) = And(y, Mask(b))
  <2>1. \A n \in 1..Width : n <= k => n \in 1..k
    BY <1>1
  <2>2. First(x) = First(y)
    BY <1>5, <2>1
  <2> HIDE DEF First
  <2> QED
    BY <1>3, <2>2
<1>6. ASSUME And(x, Mask(b)) = And(y, Mask(b)), NEW n \in 1..k
      PROVE  Bit(x, n) = Bit(y, n)
  <2> HIDE DEF First
  <2> QED
    BY <1>3, <1>4, <1>6
<1> QED
  BY <1>5, <1>6

\* ipMatchesRule matches what the rule covers.
LEMMA MatchesIffCovers ==
    ASSUME NEW a \in Addresses, NEW rule, IsRule(rule)
    PROVE  Matches(a, rule) <=> Covers(a, rule)
<1>1. CASE rule.kind = "range"
  <2> DEFINE s == rule.subnet
             b == rule.bits
  <2>1. ASSUME b \in {NaN} \cup 1..Width, a \in Quads, s \in Quads
        PROVE  InRange(a, s, b) <=> \A n \in 1..Leading(b) : Bit(a, n) = Bit(s, n)
    <3>1. Leading(b) \in 1..Width
      BY <2>1, IpFilterAssumption DEF Leading
    <3>2. \A n \in 1..Leading(b) : n \in 1..Width
      BY <3>1, IpFilterAssumption
    <3>3. \A n \in 1..Leading(b) : Bit(ToInt(a), n) = Bit(a, n) /\ Bit(ToInt(s), n) = Bit(s, n)
      BY <2>1, <3>2, ToIntFacts
    <3>4. And(ToInt(a), Mask(b)) = And(ToInt(s), Mask(b))
            <=> \A n \in 1..Leading(b) : Bit(ToInt(a), n) = Bit(ToInt(s), n)
      BY <2>1, ToIntFacts, MaskedAgree
    <3> QED
      BY <2>1, <3>3, <3>4, Zenon DEF InRange
  <2>2. Matches(a, rule) <=> InRange(a, s, b)
    BY <1>1 DEF Matches
  <2>3. InRange(a, s, b) => b \in {NaN} \cup 1..Width /\ a \in Quads /\ s \in Quads
    BY DEF InRange
  <2>4. Covers(a, rule) <=> /\ b \in {NaN} \cup 1..Width /\ a \in Quads /\ s \in Quads
                            /\ \A n \in 1..Leading(b) : Bit(a, n) = Bit(s, n)
    BY <1>1, Zenon DEF Covers
  <2> QED
    BY <2>1, <2>2, <2>3, <2>4, Zenon
<1>2. CASE rule.kind = "wildcard" \/ rule.kind = "exact"
  BY <1>2 DEF Matches, Covers
<1> QED
  BY <1>1, <1>2 DEF IsRule

-----------------------------------------------------------------------------
(* Types                                                                    *)

\* Only a request with a route gets through the stack unanswered; the stack
\* never answers 408 and never speaks for the upstream.
LEMMA VerdictFacts ==
    ASSUME NEW k \in Kinds, NEW a
    PROVE  /\ Verdict(k, a) \in {"none", "413", "403", "400", "204", "own", "404"}
           /\ Verdict(k, a) = "none" => k \in {"bodiless", "json", "raw"}
BY DEF Verdict, OverSize, Malformed, IsPreflight, HasEndpoint, HasRoute, Kinds

\* Whatever the arrival of a request sets is of its type.
LEMMA ArriveTyped ==
    ASSUME TypeOK, NEW r \in Reqs, NEW a \in Arrivals, Arrive(r, a[1], a[2])
    PROVE  TypeOK'
<1> DEFINE k == a[1]
           v == Verdict(k, a[2])
<1>1. k \in Kinds /\ a[2] \in Addresses
  BY EdgeAssumption
<1>2. v \in {"none", "413", "403", "400", "204", "own", "404"}
  BY <1>1, VerdictFacts
<1>3. /\ stage' = [stage EXCEPT ![r] = IF v # "none" THEN "over"
                                       ELSE IF k = "json" THEN "parsing" ELSE "upstream"]
      /\ body' = [body EXCEPT ![r] = IF k \in {"json", "raw"} THEN "open" ELSE "complete"]
      /\ armed' = [armed EXCEPT ![r] = v = "none" /\ k # "bodiless"]
      /\ answer' = [answer EXCEPT ![r] = v]
      /\ kind' = [kind EXCEPT ![r] = k] /\ ip' = [ip EXCEPT ![r] = a[2]]
      /\ UNCHANGED <<deny, allow, client, age, quiet, idle, process, drained, dying>>
  BY DEF Arrive, configVars, clocks, processVars
<1> HIDE DEF k, v
<1>4. /\ stage' \in [Reqs -> Stages] /\ armed' \in [Reqs -> BOOLEAN]
      /\ body' \in [Reqs -> {"open", "complete"}]
  BY <1>3 DEF TypeOK, Stages
<1> QED
  BY <1>1, <1>2, <1>3, <1>4 DEF TypeOK

\* Whatever a step of a request sets is of its type.
LEMMA ExchangeTyped ==
    ASSUME TypeOK, NEW r \in Reqs, Exchange(r)
    PROVE  TypeOK'
<1>1. 0 \in -1..BodyTimeout /\ 0 \in 0..SocketTimeout
  BY EdgeAssumption
<1>2. CASE \E a \in Arrivals : Arrive(r, a[1], a[2])
  BY <1>2, ArriveTyped
<1>3. CASE Chunk(r)
  BY <1>1, <1>3 DEF Chunk, Active, TypeOK, configVars, arrivalVars, processVars
<1>4. CASE BodyEnds(r)
  BY <1>1, <1>4 DEF BodyEnds, Active, TypeOK, Stages, configVars, arrivalVars, processVars
<1>5. CASE ParserRefuses(r)
  BY <1>1, <1>5 DEF ParserRefuses, EndsWith, Active, TypeOK, Stages, configVars, arrivalVars,
                    processVars
<1>6. CASE Responds(r)
  BY <1>1, <1>6 DEF Responds, Active, TypeOK, Stages, configVars, arrivalVars
<1>7. CASE Streams(r)
  BY <1>1, <1>7 DEF Streams, Active, TypeOK, configVars, arrivalVars, processVars
<1>8. CASE Fails(r)
  BY <1>8 DEF Fails, EndsWith, TypeOK, Stages, configVars, arrivalVars, clocks, processVars
<1>9. CASE Finishes(r)
  BY <1>9 DEF Finishes, EndsWith, TypeOK, Stages, configVars, arrivalVars, clocks, processVars
<1>10. CASE TimerFires(r) \/ SocketTimesOut(r) \/ Leaves(r)
  <2>1. PICK how \in {"gone", "cut"}, a \in {answer[r], "408"} :
          Disconnected(r, how) /\ answer' = [answer EXCEPT ![r] = a]
    <3>1. answer = [answer EXCEPT ![r] = answer[r]]
      BY DEF TypeOK
    <3> QED
      BY <1>10, <3>1 DEF TimerFires, SocketTimesOut, Leaves
  <2> QED
    BY <2>1 DEF Disconnected, TypeOK, Stages, configVars, arrivalVars, clocks, processVars
<1> QED
  BY <1>2, <1>3, <1>4, <1>5, <1>6, <1>7, <1>8, <1>9, <1>10 DEF Exchange

\* A signal, an exit, a tick: the counters stop at their bounds.
LEMMA ProcessTyped ==
    ASSUME TypeOK, Shutdown \/ Tick
    PROVE  TypeOK'
<1>1. CASE Shutdown
  BY <1>1 DEF Shutdown, Sigterm, ServerCloses, QuitsRedis, DrainTimerFires, DiesOfException,
              TypeOK, Exits, configVars, exchangeVars, arrivalVars, clocks
<1>2. CASE Tick
  <2>1. /\ UNCHANGED <<deny, allow, stage, kind, ip, body, answer, client, armed, process, dying>>
        /\ process = "up" \/ drained < DrainTimeout
        /\ drained' = IF process = "up" THEN 0 ELSE drained + 1
        /\ age' = [r \in Reqs |-> IF Connected(r) THEN CapAt(age[r], HeaderTimeout) ELSE age[r]]
        /\ quiet' = [r \in Reqs |-> IF Connected(r) /\ quiet[r] >= 0
                                    THEN CapAt(quiet[r], BodyTimeout) ELSE quiet[r]]
        /\ idle' = [r \in Reqs |-> IF Connected(r) THEN CapAt(idle[r], SocketTimeout)
                                   ELSE idle[r]]
    BY <1>2 DEF Tick, configVars, arrivalVars
  <2>2. drained' \in 0..DrainTimeout
    BY <2>1, EdgeAssumption DEF TypeOK
  <2>3. age' \in [Reqs -> 0..HeaderTimeout]
    BY <2>1, EdgeAssumption DEF TypeOK, CapAt
  <2>4. quiet' \in [Reqs -> -1..BodyTimeout]
    BY <2>1, EdgeAssumption DEF TypeOK, CapAt
  <2>5. idle' \in [Reqs -> 0..SocketTimeout]
    BY <2>1, EdgeAssumption DEF TypeOK, CapAt
  <2> QED
    BY <2>1, <2>2, <2>3, <2>4, <2>5 DEF TypeOK
<1> QED
  BY <1>1, <1>2

\* Every variable of the stack and of the process stays in its type.
THEOREM TypeCorrect == Spec => []TypeOK
<1>1. Init => TypeOK
  <2>1. 0 \in 0..HeaderTimeout /\ -1 \in -1..BodyTimeout /\ 0 \in 0..DrainTimeout
        /\ 0 \in 0..SocketTimeout
    BY EdgeAssumption
  <2> SUFFICES ASSUME Init PROVE TypeOK
    OBVIOUS
  <2>2. /\ ip \in [Reqs -> Addresses] /\ age \in [Reqs -> 0..HeaderTimeout]
        /\ quiet \in [Reqs -> -1..BodyTimeout] /\ idle \in [Reqs -> 0..SocketTimeout]
        /\ drained \in 0..DrainTimeout
    BY <2>1, ZeroIsQuad DEF Init, Addresses
  <2>3. /\ deny \in RuleLists /\ allow \in RuleLists /\ dying \in BOOLEAN
        /\ stage \in [Reqs -> Stages] /\ kind \in [Reqs -> Kinds]
        /\ process \in {"up", "draining", "closed", "stuck"} \cup Exits
        /\ armed \in [Reqs -> BOOLEAN]
    BY DEF Init, Stages, Kinds
  <2>4. /\ body \in [Reqs -> {"open", "complete"}]
        /\ client \in [Reqs -> {"there", "gone", "cut"}]
        /\ answer \in [Reqs -> {"none", "413", "403", "400", "204", "own", "404",
                                "408", "500", "upstream", "502"}]
    BY DEF Init
  <2> QED
    BY <2>2, <2>3, <2>4 DEF TypeOK
<1>2. TypeOK /\ [Next]_vars => TypeOK'
  <2>1. TypeOK /\ UNCHANGED vars => TypeOK'
    BY DEF TypeOK, vars
  <2> QED
    BY <2>1, ExchangeTyped, ProcessTyped DEF Next
<1> QED
  BY <1>1, <1>2, PTL DEF Spec

-----------------------------------------------------------------------------
(* Exchanges and the shutdown                                               *)

\* What a request k in stage s can be, with body b, answer a, client c, timers
\* t and idle clock i: a timer runs for an open body of a client that is
\* there; only a body that nobody waits for is open while the upstream is
\* asked; and the clock of a socket that was cut off stands.
Fits(k, s, b, a, c, t, i) ==
    /\ t => b = "open" /\ c = "there"
    /\ s \in {"new", "over"} => ~t
    /\ s \in {"new", "parsing"} => a = "none" /\ c = "there"
    /\ s = "upstream" => /\ a \in {"none", "408"}
                         /\ b = "open" => k = "raw"
                         /\ a = "408" => k = "raw"
    /\ s = "streaming" => a # "408"
    /\ a = "408" => b = "open" /\ c = "cut"
    /\ b = "complete" /\ c = "cut" => i >= SocketTimeout

Account(r) ==
    Fits(kind[r], stage[r], body[r], answer[r], client[r], armed[r], idle[r])

IndInv ==
    /\ \A r \in Reqs : Account(r)
    /\ FallsOnlyToSlowUpload
    /\ process \in {"closed", "stuck", "exit0"} => \A r \in Reqs : ~Connected(r)

\* A step that makes this of r, and nothing of the others.
Becomes(r, k, s, b, a, c, t, i) ==
    /\ kind' = [kind EXCEPT ![r] = k] /\ stage' = [stage EXCEPT ![r] = s]
    /\ body' = [body EXCEPT ![r] = b] /\ answer' = [answer EXCEPT ![r] = a]
    /\ client' = [client EXCEPT ![r] = c] /\ armed' = [armed EXCEPT ![r] = t]
    /\ idle' = [idle EXCEPT ![r] = i]

\* A step of a request that is not over keeps the invariant if what it makes
\* of the request fits, and the request is not newly connected to a closed
\* server.
LEMMA OneRequest ==
    ASSUME TypeOK, IndInv, NEW r \in Reqs, stage[r] # "over",
           NEW k, NEW s, NEW b, NEW a, NEW c, NEW t, NEW i,
           Becomes(r, k, s, b, a, c, t, i), Fits(k, s, b, a, c, t, i), process' = process,
           dying' = dying \/ (k = "raw" /\ a = "408" /\ s = "over"),
           c = "there" => Connected(r) \/ process \in {"up", "draining"}
    PROVE  IndInv'
<1>1. /\ kind'[r] = k /\ stage'[r] = s /\ body'[r] = b /\ answer'[r] = a
      /\ client'[r] = c /\ armed'[r] = t /\ idle'[r] = i
      /\ \A q \in Reqs \ {r} : /\ kind'[q] = kind[q] /\ stage'[q] = stage[q]
                               /\ body'[q] = body[q] /\ answer'[q] = answer[q]
                               /\ client'[q] = client[q] /\ armed'[q] = armed[q]
                               /\ idle'[q] = idle[q]
  BY DEF Becomes, TypeOK
<1>2. \A q \in Reqs : Account(q)'
  BY <1>1 DEF IndInv, Account
<1>3. FallsOnlyToSlowUpload'
  <2>1. CASE dying' = dying
    BY <1>1, <2>1 DEF IndInv, FallsOnlyToSlowUpload
  <2>2. CASE k = "raw" /\ a = "408" /\ s = "over"
    BY <1>1, <2>2 DEF FallsOnlyToSlowUpload
  <2> QED
    BY <2>1, <2>2
<1>4. ASSUME process' \in {"closed", "stuck", "exit0"}, NEW q \in Reqs
      PROVE  ~Connected(q)'
  BY <1>1, <1>4 DEF IndInv, Connected, InFlight
<1> QED
  BY <1>2, <1>3, <1>4 DEF IndInv

\* A new request starts its account with the verdict of the stack.
LEMMA ArriveKeeps ==
    ASSUME TypeOK, IndInv, NEW r \in Reqs, NEW a \in Arrivals, Arrive(r, a[1], a[2])
    PROVE  IndInv'
<1> DEFINE k == a[1]
           v == Verdict(k, a[2])
           s == IF v # "none" THEN "over" ELSE IF k = "json" THEN "parsing" ELSE "upstream"
           b == IF k \in {"json", "raw"} THEN "open" ELSE "complete"
           t == v = "none" /\ k # "bodiless"
<1>1. /\ stage[r] = "new" /\ process \in {"up", "draining"}
      /\ kind' = [kind EXCEPT ![r] = k] /\ answer' = [answer EXCEPT ![r] = v]
      /\ stage' = [stage EXCEPT ![r] = s] /\ body' = [body EXCEPT ![r] = b]
      /\ armed' = [armed EXCEPT ![r] = t]
      /\ client' = client /\ idle' = idle /\ process' = process /\ dying' = dying
  BY DEF Arrive, clocks, processVars
<1>2. /\ v \in {"none", "413", "403", "400", "204", "own", "404"}
      /\ v = "none" => k \in {"bodiless", "json", "raw"}
  BY EdgeAssumption, VerdictFacts
<1>3. Becomes(r, k, s, b, v, "there", t, idle[r])
  <2>1. client[r] = "there"
    BY <1>1 DEF IndInv, Account, Fits
  <2> QED
    BY <1>1, <2>1 DEF Becomes, TypeOK
<1>4. Fits(k, s, b, v, "there", t, idle[r])
  BY <1>2 DEF Fits
<1> HIDE DEF k, v, s, b, t
<1> QED
  BY <1>1, <1>3, <1>4, OneRequest

\* The steps of a request in flight.
LEMMA ExchangeKeeps ==
    ASSUME TypeOK, IndInv, NEW r \in Reqs,
           \/ Chunk(r) \/ BodyEnds(r) \/ ParserRefuses(r) \/ Responds(r) \/ Streams(r)
           \/ Fails(r) \/ Finishes(r) \/ TimerFires(r) \/ SocketTimesOut(r) \/ Leaves(r)
    PROVE  IndInv'
<1>1. /\ InFlight(r) /\ process' = process /\ kind' = kind
      /\ Fits(kind[r], stage[r], body[r], answer[r], client[r], armed[r], idle[r])
  <2>1. Fits(kind[r], stage[r], body[r], answer[r], client[r], armed[r], idle[r])
    BY DEF IndInv, Account
  <2>2. process' = process /\ kind' = kind
    BY DEF Chunk, BodyEnds, ParserRefuses, Responds, Streams, Fails, Finishes, TimerFires,
           SocketTimesOut, Leaves, Disconnected, processVars, arrivalVars
  <2>3. CASE TimerFires(r)
    <3>1. client[r] = "there" /\ armed[r]
      BY <2>1, <2>3 DEF TimerFires, Due, Fits
    <3>2. stage[r] \in Stages /\ stage[r] \notin {"new", "over"}
      BY <2>1, <3>1 DEF Fits, TypeOK
    <3> QED
      BY <2>1, <2>2, <3>2 DEF InFlight, Stages
  <2> QED
    BY <2>1, <2>2, <2>3 DEF InFlight, Connected, Idle, Chunk, BodyEnds, ParserRefuses, Responds,
       Streams, Fails, Finishes, SocketTimesOut, Leaves
<1>2. /\ kind = [kind EXCEPT ![r] = kind[r]] /\ stage = [stage EXCEPT ![r] = stage[r]]
      /\ body = [body EXCEPT ![r] = body[r]] /\ answer = [answer EXCEPT ![r] = answer[r]]
      /\ client = [client EXCEPT ![r] = client[r]] /\ armed = [armed EXCEPT ![r] = armed[r]]
      /\ idle = [idle EXCEPT ![r] = idle[r]]
      /\ stage[r] # "over" /\ (client[r] = "there" => Connected(r))
  BY <1>1 DEF TypeOK, InFlight, Connected
<1>3. CASE Chunk(r) \/ Streams(r)
  <2>1. /\ client[r] = "there" /\ idle' = [idle EXCEPT ![r] = 0]
        /\ UNCHANGED <<stage, body, answer, client, armed, dying>>
    BY <1>3 DEF Chunk, Streams, Active, Connected, processVars
  <2>2. Fits(kind[r], stage[r], body[r], answer[r], client[r], armed[r], 0)
    BY <1>1, <2>1 DEF Fits
  <2>3. Becomes(r, kind[r], stage[r], body[r], answer[r], client[r], armed[r], 0)
    BY <1>1, <1>2, <2>1 DEF Becomes
  <2> QED
    BY <1>1, <1>2, <2>1, <2>2, <2>3, OneRequest
<1>4. CASE BodyEnds(r)
  <2> DEFINE s == IF stage[r] = "parsing" THEN "upstream" ELSE stage[r]
  <2>1. /\ client[r] = "there" /\ body[r] = "open"
        /\ body' = [body EXCEPT ![r] = "complete"] /\ armed' = [armed EXCEPT ![r] = FALSE]
        /\ stage' = [stage EXCEPT ![r] = s] /\ idle' = [idle EXCEPT ![r] = 0]
        /\ UNCHANGED <<answer, client, dying>>
    BY <1>4 DEF BodyEnds, Active, Connected, processVars
  <2>2. Fits(kind[r], s, "complete", answer[r], client[r], FALSE, 0)
    BY <1>1, <2>1 DEF Fits
  <2>3. Becomes(r, kind[r], s, "complete", answer[r], client[r], FALSE, 0)
    BY <1>1, <1>2, <2>1 DEF Becomes
  <2> HIDE DEF s
  <2> QED
    BY <1>1, <1>2, <2>1, <2>2, <2>3, OneRequest
<1>5. CASE ParserRefuses(r)
  <2> DEFINE a == IF answer[r] = "none" THEN "500" ELSE answer[r]
  <2>1. PICK b \in {"open", "complete"} : body' = [body EXCEPT ![r] = b]
    BY <1>5 DEF ParserRefuses
  <2>2. /\ client[r] = "there" /\ armed' = [armed EXCEPT ![r] = FALSE]
        /\ stage' = [stage EXCEPT ![r] = "over"] /\ answer' = [answer EXCEPT ![r] = a]
        /\ idle' = [idle EXCEPT ![r] = 0]
        /\ UNCHANGED <<client, dying>>
    BY <1>5 DEF ParserRefuses, EndsWith, Active, Connected, processVars
  <2>3. Fits(kind[r], "over", b, a, client[r], FALSE, 0)
    BY <1>1, <2>2 DEF Fits
  <2>4. Becomes(r, kind[r], "over", b, a, client[r], FALSE, 0)
    BY <1>1, <1>2, <2>1, <2>2 DEF Becomes
  <2> HIDE DEF a
  <2> QED
    BY <1>1, <1>2, <2>1, <2>2, <2>3, <2>4, OneRequest
<1>6. CASE Responds(r) /\ answer[r] = "none"
  <2> DEFINE i == IF client[r] = "there" THEN 0 ELSE idle[r]
  <2>1. /\ stage' = [stage EXCEPT ![r] = "streaming"]
        /\ answer' = [answer EXCEPT ![r] = "upstream"] /\ idle' = [idle EXCEPT ![r] = i]
        /\ UNCHANGED <<body, client, armed, dying>>
    BY <1>6 DEF Responds, Active
  <2>2. Fits(kind[r], "streaming", body[r], "upstream", client[r], armed[r], i)
    BY <1>1 DEF Fits
  <2>3. Becomes(r, kind[r], "streaming", body[r], "upstream", client[r], armed[r], i)
    BY <1>1, <1>2, <2>1 DEF Becomes
  <2> HIDE DEF i
  <2> QED
    BY <1>1, <1>2, <2>1, <2>2, <2>3, OneRequest
<1>7. CASE Responds(r) /\ answer[r] # "none"
  <2>1. /\ stage' = [stage EXCEPT ![r] = "over"] /\ stage[r] = "upstream"
        /\ UNCHANGED <<body, answer, client, armed, idle>>
    BY <1>7 DEF Responds
  <2>2. /\ Fits(kind[r], "over", body[r], answer[r], client[r], armed[r], idle[r])
        /\ kind[r] = "raw" /\ answer[r] = "408"
    BY <1>1, <1>7, <2>1 DEF Fits
  <2>3. Becomes(r, kind[r], "over", body[r], answer[r], client[r], armed[r], idle[r])
    BY <1>1, <1>2, <2>1 DEF Becomes
  <2> QED
    BY <1>1, <1>2, <2>1, <2>2, <2>3, OneRequest
<1>8. CASE Fails(r) \/ Finishes(r)
  <2>1. PICK a \in {answer[r], "502", "none"} :
          answer' = [answer EXCEPT ![r] = a]
    BY <1>8 DEF Fails, Finishes, EndsWith
  <2>2. /\ stage' = [stage EXCEPT ![r] = "over"] /\ armed' = [armed EXCEPT ![r] = FALSE]
        /\ UNCHANGED <<body, client, idle, dying>>
    BY <1>8 DEF Fails, Finishes, EndsWith, clocks, processVars
  <2>3. Fits(kind[r], "over", body[r], a, client[r], FALSE, idle[r])
    BY <1>1 DEF Fits
  <2>4. Becomes(r, kind[r], "over", body[r], a, client[r], FALSE, idle[r])
    BY <1>1, <1>2, <2>1, <2>2 DEF Becomes
  <2> QED
    BY <1>1, <1>2, <2>2, <2>3, <2>4, OneRequest
<1>9. CASE TimerFires(r) \/ SocketTimesOut(r) \/ Leaves(r)
  <2> DEFINE s == IF stage[r] = "upstream" THEN stage[r] ELSE "over"
  <2>1. PICK c \in {"gone", "cut"}, a \in {answer[r], "408"} :
          /\ Disconnected(r, c) /\ answer' = [answer EXCEPT ![r] = a]
          /\ a # answer[r] => armed[r] /\ c = "cut" /\ answer[r] = "none"
          /\ c = "cut" => armed[r] \/ idle[r] >= SocketTimeout
          /\ armed[r] \/ client[r] = "there"
    BY <1>2, <1>9 DEF TimerFires, SocketTimesOut, Leaves, Due, Idle, Connected
  <2>2. /\ stage' = [stage EXCEPT ![r] = s] /\ armed' = [armed EXCEPT ![r] = FALSE]
        /\ client' = [client EXCEPT ![r] = c]
        /\ UNCHANGED <<body, idle, dying>>
    BY <2>1 DEF Disconnected, clocks, processVars
  <2>3. Fits(kind[r], s, body[r], a, c, FALSE, idle[r])
    <3>1. client[r] = "there" /\ answer[r] # "408"
      BY <1>1, <2>1 DEF Fits
    <3>2. (a = "408" => body[r] = "open" /\ c = "cut")
      BY <1>1, <2>1, <3>1 DEF Fits
    <3>3. s = "upstream" => /\ a \in {"none", "408"}
                            /\ body[r] = "open" => kind[r] = "raw"
                            /\ a = "408" => kind[r] = "raw"
      BY <1>1, <2>1, <3>1 DEF Fits
    <3> QED
      BY <1>1, <2>1, <3>2, <3>3 DEF Fits
  <2>4. Becomes(r, kind[r], s, body[r], a, c, FALSE, idle[r])
    BY <1>1, <1>2, <2>1, <2>2 DEF Becomes
  <2> HIDE DEF s
  <2> QED
    BY <1>1, <1>2, <2>1, <2>2, <2>3, <2>4, OneRequest
<1> QED
  BY <1>3, <1>4, <1>5, <1>6, <1>7, <1>8, <1>9

\* Neither the shutdown nor the clock touches an exchange, but for the idle
\* time of who is connected; the server closes when nobody is.
LEMMA ProcessKeeps ==
    ASSUME TypeOK, IndInv, Shutdown \/ Tick
    PROVE  IndInv'
<1>1. UNCHANGED <<stage, kind, body, answer, client, armed, dying>>
  BY DEF Shutdown, Sigterm, ServerCloses, QuitsRedis, DrainTimerFires,
         DiesOfException, Tick, exchangeVars, arrivalVars
<1>2. process' \in {"closed", "stuck", "exit0"} => \A r \in Reqs : ~Connected(r)
  BY DEF Shutdown, Sigterm, ServerCloses, QuitsRedis, DrainTimerFires,
         DiesOfException, Tick, IndInv
<1>3. \A r \in Reqs : Connected(r)' <=> Connected(r)
  BY <1>1 DEF Connected, InFlight
<1>4. \A r \in Reqs : client[r] = "cut" => idle'[r] = idle[r]
  BY DEF Shutdown, Sigterm, ServerCloses, QuitsRedis, DrainTimerFires, DiesOfException, Tick,
         exchangeVars, clocks, Connected
<1>5. ASSUME NEW r \in Reqs PROVE Account(r)'
  BY <1>1, <1>4 DEF IndInv, Account, Fits
<1> QED
  BY <1>1, <1>2, <1>3, <1>5 DEF IndInv, FallsOnlyToSlowUpload

\* Nothing is connected at first.
LEMMA InitHolds == Init => IndInv
BY DEF Init, IndInv, Account, Fits, FallsOnlyToSlowUpload

\* The invariant always holds.
LEMMA Inductive == Spec => []IndInv
<1>1. TypeOK /\ IndInv /\ [Next]_vars => IndInv'
  <2> SUFFICES ASSUME TypeOK, IndInv, [Next]_vars
               PROVE  IndInv'
    OBVIOUS
  <2>1. ASSUME NEW r \in Reqs, Exchange(r)
        PROVE  IndInv'
    BY <2>1, ArriveKeeps, ExchangeKeeps DEF Exchange
  <2>2. CASE Shutdown \/ Tick
    BY <2>2, ProcessKeeps
  <2>3. CASE UNCHANGED vars
    BY <2>3 DEF vars, arrivalVars, IndInv, Account, FallsOnlyToSlowUpload, Connected, InFlight
  <2> QED
    BY <2>1, <2>2, <2>3 DEF Next
<1> QED
  BY <1>1, InitHolds, TypeCorrect, PTL DEF Spec

\* slowRequestProtection leaves a request alone once its body has arrived, and
\* what else may cut it off is an idle socket.
THEOREM CompleteIsCutOnlyIdleHolds == Spec => []CompleteIsCutOnlyIdle
<1>1. IndInv => CompleteIsCutOnlyIdle
  BY DEF IndInv, Account, Fits, CompleteIsCutOnlyIdle
<1> QED
  BY <1>1, Inductive, PTL

\* The second writeHead that ends the process needs an upload that is neither
\* JSON nor a form and slower than a timer.
THEOREM FallsOnlyToSlowUploadHolds == Spec => []FallsOnlyToSlowUpload
<1>1. IndInv => FallsOnlyToSlowUpload
  BY DEF IndInv
<1> QED
  BY <1>1, Inductive, PTL

\* shutdown() exits with 0 only when every connection has gone.
THEOREM ExitZeroMeansDrainedHolds == Spec => []ExitZeroMeansDrained
<1>1. IndInv => ExitZeroMeansDrained
  BY DEF IndInv, ExitZeroMeansDrained
<1> QED
  BY <1>1, Inductive, PTL

-----------------------------------------------------------------------------
(* The filter                                                               *)

\* Whoever is past the stack has been admitted, by lists that never change.
Filtered == \A r \in Reqs : InFlight(r) => Admitted(ip[r], deny, allow)

\* Only Arrive lets a request in, and it asks the filter.
LEMMA FilteredKept ==
    ASSUME TypeOK, Filtered, [Next]_vars
    PROVE  Filtered'
<1>1. deny' = deny /\ allow' = allow
  BY DEF Next, vars, Exchange, Arrive, Chunk, BodyEnds, ParserRefuses, Responds, Streams,
         Fails, Finishes, TimerFires, SocketTimesOut, Leaves, Disconnected,
         Shutdown, Sigterm, ServerCloses, QuitsRedis, DrainTimerFires, DiesOfException, Tick,
         configVars
<1>2. ASSUME NEW r \in Reqs, InFlight(r)' PROVE Admitted(ip[r], deny, allow)'
  <2>1. CASE \E a \in Arrivals : Arrive(r, a[1], a[2])
    <3>1. PICK a \in Arrivals : Arrive(r, a[1], a[2])
      BY <2>1
    <3> DEFINE v == Verdict(a[1], a[2])
    <3>2. /\ stage' = [stage EXCEPT ![r] = IF v # "none" THEN "over"
                                          ELSE IF a[1] = "json" THEN "parsing" ELSE "upstream"]
          /\ ip' = [ip EXCEPT ![r] = a[2]]
      BY <3>1 DEF Arrive
    <3>3. v = "none"
      <4> HIDE DEF v
      <4> QED
        BY <1>2, <3>2 DEF InFlight, TypeOK
    <3>4. Admitted(a[2], deny, allow)
      BY <3>3 DEF Verdict
    <3>5. ip'[r] = a[2]
      BY <3>2 DEF TypeOK
    <3> QED
      BY <1>1, <3>4, <3>5 DEF Admitted
  <2>2. CASE ~\E a \in Arrivals : Arrive(r, a[1], a[2])
    <3>1. ip'[r] = ip[r]
      BY <2>2 DEF TypeOK, Next, vars, Exchange, Arrive, Chunk, BodyEnds, ParserRefuses,
                  Responds, Streams, Fails, Finishes, TimerFires, SocketTimesOut, Leaves,
                  Disconnected, Shutdown, Sigterm, ServerCloses, QuitsRedis, DrainTimerFires,
                  DiesOfException, Tick, arrivalVars, exchangeVars
    <3>2. InFlight(r)' => InFlight(r)
      BY <2>2 DEF TypeOK, Next, vars, Exchange, Arrive, Chunk, BodyEnds, ParserRefuses,
                  EndsWith, Responds, Streams, Fails, Finishes, TimerFires, SocketTimesOut,
                  Leaves, Disconnected, Connected, InFlight, Shutdown, Sigterm, ServerCloses,
                  QuitsRedis, DrainTimerFires, DiesOfException, Tick, exchangeVars
    <3> QED
      BY <1>1, <1>2, <3>1, <3>2 DEF Filtered, Admitted
  <2> QED
    BY <2>1, <2>2
<1> QED
  BY <1>2 DEF Filtered

\* ipFilter, with the signed words of ipMatchesRule: no request in flight is
\* covered by a rule of the denylist, and each by one of the allowlist, if it
\* has any, whatever range, wildcard or address the rules are.
THEOREM AdmittedByRangeHolds == Spec => []AdmittedByRange
<1>1. TypeOK /\ Filtered => AdmittedByRange
  <2> SUFFICES ASSUME TypeOK, Filtered, NEW r \in Reqs, InFlight(r)
               PROVE  /\ ~\E rule \in deny : Covers(ip[r], rule)
                      /\ allow # {} => \E rule \in allow : Covers(ip[r], rule)
    BY DEF AdmittedByRange
  <2>1. ip[r] \in Addresses /\ \A rule \in deny \cup allow : IsRule(rule)
    BY EdgeAssumption DEF TypeOK
  <2>2. \A rule \in deny \cup allow : Matches(ip[r], rule) <=> Covers(ip[r], rule)
    BY <2>1, MatchesIffCovers
  <2> QED
    BY <2>2 DEF Filtered, Admitted
<1>2. Init => Filtered
  BY DEF Init, Filtered, InFlight
<1>3. TypeOK /\ Filtered /\ [Next]_vars => Filtered'
  BY FilteredKept
<1> QED
  BY <1>1, <1>2, <1>3, TypeCorrect, PTL DEF Spec
=============================================================================
