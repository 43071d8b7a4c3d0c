------------------------ MODULE RegisterFields_proofs ------------------------
(* Proofs about RegisterFields, for registers of any width and every       *)
(* layout of fields that do not overlap, and about CoreFields, for the     *)
(* masks of every core and any elements of its arrays.                     *)
EXTENDS DeviceFields, FiniteSetTheorems, WellFoundedInduction, TLAPS

-----------------------------------------------------------------------------
(* Numbers.                                                                *)
-----------------------------------------------------------------------------
\* The least number of a set: the sets 0 .. n-1 are well founded.
LEMMA Least ==
  ASSUME NEW T, T \subseteq Nat, T # {}
  PROVE  \E n \in T : \A m \in T : n <= m
<1> DEFINE F == {0 .. n-1 : n \in T}
<1>1. F \subseteq FiniteSubsetsOf(Nat)
  <2>1. \A n \in Nat : IsFiniteSet(0 .. n-1)
    BY FS_Interval
  <2>2. \A n \in Nat : 0 .. n-1 \subseteq Nat
    OBVIOUS
  <2>3. QED
    BY <2>1, <2>2 DEF FiniteSubsetsOf
<1>2. PICK x \in F : \A y \in F : ~ <<y, x>> \in StrictSubsetOrdering(Nat)
  <2>1. F # {}
    OBVIOUS
  <2> HIDE DEF F
  <2>2. QED
    BY <1>1, <2>1, FS_StrictSubsetOrderingWellFounded, WFMin
<1>3. PICK n \in T : x = 0 .. n-1
  OBVIOUS
<1>4. ASSUME NEW m \in T, m < n PROVE FALSE
  <2>1. 0 .. m-1 \in F
    OBVIOUS
  <2>2. 0 .. m-1 \subseteq x /\ 0 .. m-1 # x /\ x \in SUBSET Nat /\ 0 .. m-1 \in SUBSET Nat
    BY <1>3, <1>4
  <2>3. <<0 .. m-1, x>> \in StrictSubsetOrdering(Nat)
    BY <2>2 DEF StrictSubsetOrdering
  <2>4. QED
    BY <1>2, <2>1, <2>3
<1>5. QED
  BY <1>3, <1>4

\* Induction, over the numbers of a set.
LEMMA SetInduction ==
  ASSUME NEW S, 0 \in S, \A n \in Nat : n \in S => n + 1 \in S
  PROVE  Nat \subseteq S
<1> SUFFICES ASSUME Nat \ S # {} PROVE FALSE
  OBVIOUS
<1>1. PICK n \in Nat \ S : \A m \in Nat \ S : n <= m
  BY Least
<1>2. n - 1 \in Nat /\ n - 1 \in S
  BY <1>1
<1>3. QED
  BY <1>2

\* The powers of two, which count the sets of bits.
LEMMA PowZero == 2^0 = 1
<1>1. SUBSET {} = {{}}
  OBVIOUS
<1>2. Cardinality(SUBSET {}) = 2^0
  BY FS_SUBSET, FS_EmptySet
<1>3. QED
  BY <1>1, <1>2, FS_Singleton

LEMMA PowType == \A n \in Nat : 2^n \in Nat \ {0}
<1> SUFFICES ASSUME NEW n \in Nat PROVE 2^n \in Nat \ {0}
  OBVIOUS
<1>1. IsFiniteSet(1 .. n) /\ Cardinality(1 .. n) = n
  BY FS_Interval
<1>2. IsFiniteSet(SUBSET (1 .. n)) /\ Cardinality(SUBSET (1 .. n)) = 2^n
  BY <1>1, FS_SUBSET
<1>3. 2^n \in Nat
  BY <1>2, FS_CardinalityType
<1>4. SUBSET (1 .. n) # {}
  OBVIOUS
<1>5. QED
  BY <1>2, <1>3, <1>4, FS_EmptySet

LEMMA PowNext == \A n \in Nat : 2^(n+1) = 2 * 2^n
<1> SUFFICES ASSUME NEW n \in Nat PROVE 2^(n+1) = 2 * 2^n
  OBVIOUS
<1> DEFINE S == 1 .. n
           A == SUBSET S
           B == {T \cup {n+1} : T \in A}
<1>1. IsFiniteSet(S) /\ Cardinality(S) = n /\ IsFiniteSet(1 .. n+1) /\ Cardinality(1 .. n+1) = n+1
  BY FS_Interval
<1>2. /\ IsFiniteSet(A) /\ Cardinality(A) = 2^n
      /\ Cardinality(SUBSET (1 .. n+1)) = 2^(n+1)
  BY <1>1, FS_SUBSET
<1>3. SUBSET (1 .. n+1) = A \cup B
  <2>1. ASSUME NEW T \in SUBSET (1 .. n+1) PROVE T \in A \cup B
    <3>1. CASE n+1 \in T
      <4>1. T \ {n+1} \in A /\ T = (T \ {n+1}) \cup {n+1}
        BY <3>1
      <4>2. QED
        BY <4>1
    <3>2. CASE n+1 \notin T
      BY <3>2
    <3>3. QED
      BY <3>1, <3>2
  <2>2. n+1 \in 1 .. n+1 /\ 1 .. n \subseteq 1 .. n+1
    OBVIOUS
  <2>3. A \subseteq SUBSET (1 .. n+1) /\ B \subseteq SUBSET (1 .. n+1)
    BY <2>2, Zenon
  <2>4. QED
    BY <2>1, <2>3
<1>4. A \cap B = {}
  BY n+1 \notin S
<1>5. IsFiniteSet(B) /\ Cardinality(B) = 2^n
  <2> DEFINE f == [T \in A |-> T \cup {n+1}]
  <2>1. f \in [A -> B] /\ (\A y \in B : \E x \in A : f[x] = y)
    OBVIOUS
  <2>2. ASSUME NEW x \in A, NEW y \in A, f[x] = f[y] PROVE x = y
    <3>1. x \cup {n+1} = y \cup {n+1} /\ n+1 \notin x /\ n+1 \notin y
      BY <2>2, n+1 \notin S
    <3>2. QED
      BY <3>1
  <2> HIDE DEF f, A, B
  <2>3. f \in Bijection(A, B)
    BY <2>1, <2>2 DEF Bijection, Injection, IsInjective, Surjection
  <2>4. QED
    BY <1>2, <2>3, FS_Bijection DEF ExistsBijection
<1> HIDE DEF A, B
<1>6. Cardinality(A \cup B) = 2^n + 2^n
  <2>1. Cardinality(A \cup B) = Cardinality(A) + Cardinality(B) - Cardinality(A \cap B)
    BY <1>2, <1>5, FS_Union
  <2>2. Cardinality(A \cap B) = 0
    BY <1>4, FS_EmptySet
  <2>3. QED
    BY <1>2, <1>5, <2>1, <2>2, PowType
<1>7. 2^n \in Nat
  BY PowType
<1>8. 2^(n+1) = 2^n + 2^n
  BY <1>2, <1>3, <1>6, Zenon
<1>9. QED
  BY <1>7, <1>8

LEMMA PowSum == \A m, n \in Nat : 2^(m+n) = 2^m * 2^n
<1> SUFFICES ASSUME NEW m \in Nat PROVE \A n \in Nat : 2^(m+n) = 2^m * 2^n
  OBVIOUS
<1> DEFINE S == {n \in Nat : 2^(m+n) = 2^m * 2^n}
<1>1. 0 \in S
  BY PowZero, PowType
<1>2. ASSUME NEW n \in Nat, n \in S PROVE n + 1 \in S
  <2>1. 2^((m+n)+1) = 2 * 2^(m+n) /\ 2^(n+1) = 2 * 2^n /\ 2^m \in Nat /\ 2^n \in Nat
    BY PowNext, PowType
  <2>2. 2^(m+(n+1)) = 2 * (2^m * 2^n)
    BY <1>2, <2>1
  <2>3. QED
    BY <2>1, <2>2
<1> HIDE DEF S
<1>3. Nat \subseteq S
  BY <1>1, <1>2, SetInduction
<1>4. QED
  BY <1>3 DEF S

-----------------------------------------------------------------------------
(* Quotients.                                                              *)
-----------------------------------------------------------------------------
LEMMA RoomBetween == \A a, b, c \in Nat : a < b => a*c + c <= b*c
OBVIOUS

LEMMA ProductMonotone == \A a, b, c \in Nat : a <= b => c*a <= c*b
<1> SUFFICES ASSUME NEW a \in Nat, NEW b \in Nat, NEW c \in Nat, a <= b PROVE c*a <= c*b
  OBVIOUS
<1>1. PICK d \in Nat : b = a + d
  <2>1. b - a \in Nat /\ b = a + (b - a)
    OBVIOUS
  <2>2. QED
    BY <2>1
<1>2. c*b = c*a + c*d
  BY <1>1
<1>3. c*a \in Nat /\ c*d \in Nat
  OBVIOUS
<1>4. QED
  BY <1>2, <1>3

LEMMA ProductType == \A a, b \in Nat : a*b \in Nat
OBVIOUS

LEMMA ProductPositive == \A a, b \in Nat \ {0} : a*b \in Nat \ {0}
OBVIOUS

LEMMA QuotientIs ==
  ASSUME NEW c \in Nat \ {0}, NEW j \in Nat, NEW k \in 0 .. c-1
  PROVE  (k + c*j) \div c = j /\ (k + c*j) % c = k
OBVIOUS

LEMMA RestRange ==
  ASSUME NEW c \in Nat \ {0}, NEW n \in Int
  PROVE  n % c \in Nat /\ n % c \in 0 .. c-1
OBVIOUS

LEMMA Divided ==
  ASSUME NEW c \in Nat \ {0}, NEW n \in Nat
  PROVE  \E k \in 0 .. c-1, m \in Nat : n = k + c*m /\ k = n % c /\ m = n \div c
<1>1. n \div c \in Nat
  OBVIOUS
<1>2. n = (n % c) + c * (n \div c)
  OBVIOUS
<1>3. PICK k \in 0 .. c-1 : k = n % c
  BY RestRange
<1>4. PICK m \in Nat : m = n \div c
  BY <1>1
<1>5. n = k + c*m
  BY <1>2, <1>3, <1>4
<1>6. QED
  BY <1>3, <1>4, <1>5

\* A place in a block of a table of blocks.
LEMMA PlaceInBlock ==
  ASSUME NEW c \in Nat \ {0}, NEW d \in Nat, NEW k \in 0 .. c-1, NEW j \in 0 .. d-1
  PROVE  k + c*j \in 0 .. c*d - 1
<1>1. j*c + c <= d*c /\ c*j = j*c /\ c*d = d*c
  BY RoomBetween
<1>2. c*j \in Nat /\ c*d \in Nat
  BY ProductType
<1>3. QED
  BY <1>1, <1>2

LEMMA QuotientOfQuotient ==
  ASSUME NEW c \in Nat \ {0}, NEW d \in Nat \ {0}, NEW n \in Nat
  PROVE  n \div (c*d) = (n \div c) \div d
<1>1. PICK k \in 0 .. c-1, m \in Nat : n = k + c*m /\ k = n % c /\ m = n \div c
  BY Divided
<1>2. PICK j \in 0 .. d-1, q \in Nat : m = j + d*q /\ j = m % d /\ q = m \div d
  BY Divided
<1>3. n = (k + c*j) + (c*d)*q
  <2>1. c*(j + d*q) = c*j + c*(d*q) /\ c*(d*q) = (c*d)*q
    OBVIOUS
  <2>2. c*j \in Nat /\ c*(d*q) \in Nat
    BY ProductType
  <2>3. n = k + (c*j + (c*d)*q)
    BY <1>1, <1>2, <2>1
  <2>4. QED
    BY <2>1, <2>2, <2>3
<1>4. k + c*j \in 0 .. c*d - 1 /\ c*d \in Nat \ {0}
  BY PlaceInBlock, ProductPositive
<1>5. n \div (c*d) = q
  BY <1>3, <1>4, QuotientIs
<1>6. QED
  BY <1>1, <1>2, <1>5

\* A number has three parts, of A and of D values and the rest of them.  Put another
\* in place of the middle one, and the others stay.
Replaced(A, D, K, n, u) ==
  \E new \in Nat :
    /\ new = n - ((n \div A) % D) * A + u * A
    /\ new < (A*D)*K
    /\ (new \div A) % D = u
    /\ new % A = n % A
    /\ new \div (A*D) = n \div (A*D)

LEMMA MiddleReplaced ==
  ASSUME NEW A \in Nat \ {0}, NEW D \in Nat \ {0}, NEW K \in Nat,
         NEW n \in Nat, n < (A*D)*K, NEW u \in Nat, u < D
  PROVE  Replaced(A, D, K, n, u)
<1>1. PICK lo \in 0 .. A-1, m \in Nat : n = lo + A*m /\ lo = n % A /\ m = n \div A
  BY Divided
<1>2. PICK b \in 0 .. D-1, hi \in Nat : m = b + D*hi /\ b = m % D /\ hi = m \div D
  BY Divided
<1>3. PICK v \in Nat : v = u + D*hi
  BY ProductType
<1>4. PICK new \in Nat : new = lo + A*v
  BY ProductType
<1>5. new = n - b*A + u*A
  <2>1. n = lo + A*m /\ m = b + D*hi
    BY <1>1, <1>2
  <2>2. A*(b + D*hi) = b*A + A*(D*hi) /\ A*(u + D*hi) = u*A + A*(D*hi)
    OBVIOUS
  <2>3. PICK p \in Nat, r \in Nat, t \in Nat : p = b*A /\ r = u*A /\ t = A*(D*hi)
    BY ProductType
  <2>4. A*m = p + t /\ A*v = r + t
    BY <1>3, <2>1, <2>2, <2>3
  <2>5. QED
    BY <1>4, <2>1, <2>3, <2>4
<1>6. /\ new \div A = v /\ new % A = lo
      /\ v \div D = hi /\ v % D = u
  <2>1. new \div A = v /\ new % A = lo
    BY <1>4, QuotientIs
  <2>2. u \in 0 .. D-1
    OBVIOUS
  <2>3. QED
    BY <1>3, <2>1, <2>2, QuotientIs
<1>7. new \div (A*D) = hi /\ n \div (A*D) = hi
  <2>1. new \div (A*D) = (new \div A) \div D /\ n \div (A*D) = (n \div A) \div D
    BY QuotientOfQuotient
  <2>2. QED
    BY <1>1, <1>2, <1>6, <2>1
<1>8. new < (A*D)*K
  <2>1. PICK C \in Nat \ {0} : C = A*D
    BY ProductPositive
  <2>2. PICK r \in 0 .. C-1, q \in Nat : new = r + C*q /\ r = new % C /\ q = new \div C
    BY Divided
  <2>3. PICK s \in 0 .. C-1, t \in Nat : n = s + C*t /\ s = n % C /\ t = n \div C
    BY Divided
  <2>4. q = hi /\ t = hi
    BY <1>7, <2>1, <2>2, <2>3
  <2>5. new = r + C*hi /\ n = s + C*hi
    BY <2>2, <2>3, <2>4
  <2>6. hi < K
    <3>1. SUFFICES ASSUME K <= hi PROVE FALSE
      OBVIOUS
    <3>2. C*K <= C*hi
      <4>1. C \in Nat
        OBVIOUS
      <4>2. QED
        BY <3>1, <4>1, ProductMonotone, Zenon
    <3>3. C*K \in Nat /\ C*hi \in Nat
      BY ProductType
    <3>4. n < C*K
      BY <2>1
    <3>5. QED
      BY <2>5, <3>2, <3>3, <3>4
  <2>7. r + C*hi \in 0 .. C*K - 1
    BY <2>6, PlaceInBlock
  <2>8. C*K \in Nat
    BY ProductType
  <2>9. QED
    BY <2>1, <2>5, <2>7, <2>8
<1>9. b = (n \div A) % D
  BY <1>1, <1>2
<1>10. QED
  BY <1>1, <1>5, <1>6, <1>7, <1>8, <1>9 DEF Replaced

\* A middle part is a part of what is below all of them.
Middle(n, C, D) == (n \div C) % D
HasMiddle(n, A, C, D) == Middle(n, C, D) = Middle(n % A, C, D)
LEMMA MiddleBelow ==
  ASSUME NEW C \in Nat \ {0}, NEW D \in Nat \ {0}, NEW K \in Nat \ {0}, NEW n \in Nat,
         NEW A \in Nat \ {0}
  PROVE  A = (C*D)*K => HasMiddle(n, A, C, D)
<1>0. SUFFICES ASSUME A = (C*D)*K
               PROVE  HasMiddle(n, A, C, D)
  OBVIOUS
<1>1. PICK lo \in 0 .. A-1, X \in Nat : n = lo + A*X /\ lo = n % A /\ X = n \div A
  BY Divided
<1>2. PICK lr \in 0 .. C-1, lq \in Nat : lo = lr + C*lq /\ lr = lo % C /\ lq = lo \div C
  BY Divided
<1>3. PICK s \in 0 .. D-1, t \in Nat : lq = s + D*t /\ s = lq % D /\ t = lq \div D
  BY Divided
<1>4. PICK Y \in Nat : Y = K*X
  BY ProductType
<1>5. A*X = C*(D*Y)
  <2>1. ((C*D)*K)*X = C*(D*(K*X))
    OBVIOUS
  <2>2. QED
    BY <1>0, <1>4, <2>1
<1>6. PICK p \in Nat, v \in Nat : p = D*Y /\ v = lq + p
  BY ProductType
<1>7. n = lr + C*v
  <2>1. n = lo + A*X /\ lo = lr + C*lq
    BY <1>1, <1>2
  <2>2. C*(lq + p) = C*lq + C*p
    OBVIOUS
  <2>3. C*lq \in Nat /\ C*p \in Nat
    BY ProductType
  <2>4. A*X = C*p
    BY <1>5, <1>6
  <2>5. n = (lr + C*lq) + C*p
    BY <2>1, <2>4
  <2>6. QED
    BY <1>6, <2>2, <2>3, <2>5
<1>8. PICK w \in Nat : w = t + Y
  OBVIOUS
<1>9. v = s + D*w
  <2>1. lq = s + D*t
    BY <1>3
  <2>2. D*(t + Y) = D*t + D*Y
    OBVIOUS
  <2>3. D*t \in Nat /\ D*Y \in Nat
    BY ProductType
  <2>4. v = (s + D*t) + D*Y
    BY <1>6, <2>1
  <2>5. QED
    BY <1>8, <2>2, <2>3, <2>4
<1>10. n \div C = v /\ v % D = s
  BY <1>7, <1>9, QuotientIs
<1>11. (n \div C) % D = ((n % A) \div C) % D
  BY <1>1, <1>2, <1>3, <1>10
<1>12. QED
  BY <1>11, Zenon DEF HasMiddle, Middle

-----------------------------------------------------------------------------
(* Fields of a word.                                                       *)
-----------------------------------------------------------------------------
LEMMA PowSplit ==
  ASSUME NEW low \in Nat, NEW width \in Nat, NEW top \in Nat, low + width <= top
  PROVE  2^top = (2^low * 2^width) * 2^(top - (low + width))
<1>1. PICK d \in Nat : d = top - (low + width) /\ top = (low + width) + d
  OBVIOUS
<1>2. 2^((low + width) + d) = 2^(low + width) * 2^d /\ 2^(low + width) = 2^low * 2^width
  BY PowSum
<1>3. 2^top = 2^((low + width) + d)
  BY <1>1, Zenon
<1>4. top - (low + width) = d
  BY <1>1
<1>5. QED
  BY <1>2, <1>3, <1>4, Zenon

\* A word is what is below a field, the field, and what is above it; put another number
\* in the field and the rest of it stays.
Inserted(word, low, width, u) ==
  \E new \in Nat :
    /\ new = word - Bits(word, low, width) * 2^low + u * 2^low
    /\ new < 2^W
    /\ Bits(new, low, width) = u
    /\ new % 2^low = word % 2^low
    /\ new \div 2^(low + width) = word \div 2^(low + width)

LEMMA InsertedWord ==
  ASSUME NEW word \in Nat, word < 2^W, NEW low \in Nat, NEW width \in Nat, low + width <= W,
         NEW u \in Nat, u < 2^width
  PROVE  Inserted(word, low, width, u)
<1>1. /\ W \in Nat /\ 2^W \in Nat
      /\ 2^(low + width) = 2^low * 2^width
      /\ 2^W = (2^low * 2^width) * 2^(W - (low + width))
  <2>1. W \in Nat
    BY CodecAssumption
  <2>2. 2^W = (2^low * 2^width) * 2^(W - (low + width))
    BY <2>1, PowSplit, Zenon
  <2>3. 2^(low + width) = 2^low * 2^width
    BY PowSum, Zenon
  <2>4. 2^W \in Nat
    BY <2>1, PowType
  <2>5. QED
    BY <2>1, <2>2, <2>3, <2>4, Zenon
<1>2. PICK A \in Nat \ {0} : A = 2^low
  BY PowType
<1>3. PICK D \in Nat \ {0} : D = 2^width
  BY PowType
<1>4. PICK K \in Nat : K = 2^(W - (low + width))
  <2>1. W - (low + width) \in Nat
    BY <1>1
  <2>2. QED
    BY <2>1, PowType
<1>5. 2^W = (A*D)*K
  BY <1>1, <1>2, <1>3, <1>4
<1>6. PICK new \in Nat :
        /\ new = word - ((word \div A) % D) * A + u * A
        /\ new < (A*D)*K
        /\ (new \div A) % D = u
        /\ new % A = word % A
        /\ new \div (A*D) = word \div (A*D)
  <2>1. word < (A*D)*K /\ u < D
    BY <1>3, <1>5
  <2>2. Replaced(A, D, K, word, u)
    BY <2>1, MiddleReplaced
  <2>3. QED
    BY <2>2, Zenon DEF Replaced
<1>7. /\ Bits(word, low, width) = (word \div A) % D /\ Bits(new, low, width) = u
  BY <1>2, <1>3, <1>6 DEF Bits
<1>8. new = word - Bits(word, low, width) * 2^low + u * 2^low
  BY <1>2, <1>6, <1>7, Zenon
<1>9. new < 2^W
  BY <1>5, <1>6, Zenon
<1>10. new % 2^low = word % 2^low
  BY <1>2, <1>6, Zenon
<1>11. new \div 2^(low + width) = word \div 2^(low + width)
  BY <1>1, <1>2, <1>3, <1>6, Zenon
<1>12. QED
  BY <1>7, <1>8, <1>9, <1>10, <1>11, Zenon DEF Inserted

\* A field below another is made of what is below the other ...
LEMMA FieldBelow ==
  ASSUME NEW word \in Nat, NEW low \in Nat, NEW width \in Nat, NEW top \in Nat,
         low + width <= top
  PROVE  Bits(word, low, width) = Bits(word % 2^top, low, width)
<1>1. PICK C \in Nat \ {0} : C = 2^low
  BY PowType
<1>2. PICK D \in Nat \ {0} : D = 2^width
  BY PowType
<1>3. PICK K \in Nat \ {0} : K = 2^(top - (low + width))
  <2>1. top - (low + width) \in Nat
    OBVIOUS
  <2>2. QED
    BY <2>1, PowType
<1>4. 2^top = (C*D)*K
  <2>1. 2^top = (2^low * 2^width) * 2^(top - (low + width))
    BY PowSplit, Zenon
  <2>2. QED
    BY <1>1, <1>2, <1>3, <2>1, Zenon
<1>5. PICK A \in Nat \ {0} : A = 2^top
  BY PowType
<1>6. A = (C*D)*K
  BY <1>4, <1>5, Zenon
<1>7. HasMiddle(word, A, C, D)
  BY <1>6, MiddleBelow
<1>8. QED
  BY <1>1, <1>2, <1>5, <1>7, Zenon DEF Bits, HasMiddle, Middle

\* ... and a field above it of what is above the other.
LEMMA FieldAbove ==
  ASSUME NEW word \in Nat, NEW low \in Nat, NEW width \in Nat, NEW top \in Nat, top <= low
  PROVE  Bits(word, low, width) = Bits(word \div 2^top, low - top, width)
<1>1. PICK d \in Nat : d = low - top /\ low = top + d
  OBVIOUS
<1>2. PICK A \in Nat \ {0} : A = 2^top
  BY PowType
<1>3. PICK D \in Nat \ {0} : D = 2^d
  BY PowType
<1>4. 2^low = A * D
  BY <1>1, <1>2, <1>3, PowSum
<1>5. word \div (A * D) = (word \div A) \div D
  BY QuotientOfQuotient
<1>6. QED
  BY <1>1, <1>2, <1>3, <1>4, <1>5 DEF Bits

LEMMA BitsType ==
  ASSUME NEW word \in Nat, NEW low \in Nat, NEW width \in Nat
  PROVE  Bits(word, low, width) \in 0 .. 2^width - 1
<1>1. PICK C \in Nat \ {0} : C = 2^low
  BY PowType
<1>2. PICK D \in Nat \ {0} : D = 2^width
  BY PowType
<1>3. PICK k \in 0 .. C-1, m \in Nat : m = word \div C
  BY Divided
<1>4. m % D \in 0 .. D-1
  BY RestRange
<1>5. QED
  BY <1>1, <1>2, <1>3, <1>4 DEF Bits

-----------------------------------------------------------------------------
(* What a field holds.                                                     *)
-----------------------------------------------------------------------------
LEMMA WholeQuotient ==
  ASSUME NEW c \in Nat \ {0}, NEW j \in Int, NEW k \in 0 .. c-1
  PROVE  (k + c*j) \div c = j /\ (k + c*j) % c = k
OBVIOUS

LEMMA WholeDivided ==
  ASSUME NEW c \in Nat \ {0}, NEW n \in Int
  PROVE  \E k \in 0 .. c-1, m \in Int : n = k + c*m /\ k = n % c /\ m = n \div c
<1>1. n \div c \in Int
  OBVIOUS
<1>2. n = (n % c) + c * (n \div c)
  OBVIOUS
<1>3. PICK k \in 0 .. c-1 : k = n % c
  BY RestRange
<1>4. PICK m \in Int : m = n \div c
  BY <1>1
<1>5. n = k + c*m
  BY <1>2, <1>3, <1>4
<1>6. QED
  BY <1>3, <1>4, <1>5

\* The low bits of a number are those of its low bits.
LEMMA RestOfRest ==
  ASSUME NEW P \in Nat \ {0}, NEW K \in Nat \ {0}, NEW v \in Int
  PROVE  (v % (P*K)) % P = v % P
<1>1. PICK A \in Nat \ {0} : A = P*K
  BY ProductPositive
<1>2. PICK r \in 0 .. A-1, q \in Int : v = r + A*q /\ r = v % A /\ q = v \div A
  BY WholeDivided
<1>3. PICK k \in 0 .. P-1, j \in Int : r = k + P*j /\ k = r % P /\ j = r \div P
  BY WholeDivided
<1>4. PICK t \in Int : t = j + K*q
  OBVIOUS
<1>5. v = k + P*t
  <2>1. A*q = P*(K*q)
    BY <1>1
  <2>2. PICK y \in Int : y = K*q
    OBVIOUS
  <2>3. P*(j + y) = P*j + P*y /\ P*j \in Int /\ P*y \in Int
    OBVIOUS
  <2>4. v = (k + P*j) + P*y
    BY <1>2, <1>3, <2>1, <2>2
  <2>5. t = j + y
    BY <1>4, <2>2
  <2>6. QED
    BY <2>3, <2>4, <2>5
<1>6. v % P = k
  BY <1>5, WholeQuotient
<1>7. QED
  BY <1>1, <1>2, <1>3, <1>6

LEMMA SmallRest ==
  ASSUME NEW P \in Nat \ {0}, NEW v \in Int
  PROVE  /\ 0 <= v /\ v < P => v % P = v
         /\ v < 0 /\ -P <= v => v % P = v + P
<1>1. ASSUME 0 <= v, v < P PROVE v % P = v
  <2>1. v \in 0 .. P-1 /\ v = v + P*0
    BY <1>1
  <2>2. (v + P*0) % P = v
    BY <2>1, WholeQuotient
  <2>3. QED
    BY <2>1, <2>2
<1>2. ASSUME v < 0, -P <= v PROVE v % P = v + P
  <2>1. PICK k \in 0 .. P-1 : k = v + P
    BY <1>2
  <2>2. v = k + P*(-1)
    BY <2>1
  <2>3. QED
    BY <2>1, <2>2, WholeQuotient
<1>3. QED
  BY <1>1, <1>2

LEMMA EncodedIs ==
  ASSUME NEW P \in Nat \ {0}, NEW v \in Int, -P <= v, v < P
  PROVE  v % P = IF v < 0 THEN v + P ELSE v
BY SmallRest

\* The halves: the place of the sign, and the room of a narrower field.
LEMMA Halves ==
  ASSUME NEW width \in Nat \ {0}, width <= W
  PROVE  \E T \in Nat \ {0}, H \in Nat \ {0} :
           /\ T = 2^(width-1) /\ 2^width = 2*T
           /\ H = 2^(W-1) /\ 2^W = 2*H /\ H > 1
           /\ IntMax = H - 1 /\ IntMin = -H
           /\ T <= H
           /\ width < W => 2*T <= H
<1>1. PICK T \in Nat \ {0} : T = 2^(width-1)
  <2>1. width - 1 \in Nat
    OBVIOUS
  <2>2. QED
    BY <2>1, PowType
<1>2. PICK H \in Nat \ {0} : H = 2^(W-1)
  <2>1. W - 1 \in Nat
    BY CodecAssumption
  <2>2. QED
    BY <2>1, PowType
<1>3. \A n \in Nat \ {0} : 2^n = 2 * 2^(n-1)
  <2>1. SUFFICES ASSUME NEW n \in Nat \ {0} PROVE 2^n = 2 * 2^(n-1)
    OBVIOUS
  <2>2. PICK m \in Nat : m = n - 1 /\ n = m + 1
    OBVIOUS
  <2>3. QED
    BY <2>2, PowNext
<1>4. 2^width = 2*T /\ 2^W = 2*H
  BY <1>1, <1>2, <1>3, CodecAssumption
<1>5. H > 1
  <2>1. W - 1 \in Nat \ {0} /\ (W - 1) - 1 \in Nat
    BY CodecAssumption
  <2>2. PICK G \in Nat \ {0} : G = 2^((W-1)-1)
    BY <2>1, PowType
  <2>3. H = 2 * G
    BY <1>2, <1>3, <2>1, <2>2
  <2>4. QED
    BY <2>3
<1>6. ASSUME NEW a \in Nat, NEW b \in Nat, a <= b PROVE 2^a <= 2^b
  <2>1. PICK d \in Nat : d = b - a /\ b = a + d
    BY <1>6
  <2>2. PICK x \in Nat \ {0} : x = 2^a
    BY PowType
  <2>3. PICK y \in Nat \ {0} : y = 2^d
    BY PowType
  <2>4. 2^b = x*y
    BY <2>1, <2>2, <2>3, PowSum
  <2>5. x*1 <= x*y
    <3>1. 1 <= y /\ x \in Nat /\ y \in Nat
      OBVIOUS
    <3>2. QED
      BY <3>1, ProductMonotone, Zenon
  <2>6. QED
    BY <2>2, <2>4, <2>5
<1>7. T <= H
  <2>1. width - 1 \in Nat /\ W - 1 \in Nat /\ width - 1 <= W - 1
    BY CodecAssumption
  <2>2. QED
    BY <1>1, <1>2, <1>6, <2>1
<1>8. ASSUME width < W PROVE 2*T <= H
  <2>1. width \in Nat /\ W - 1 \in Nat /\ width <= W - 1
    BY <1>8, CodecAssumption
  <2>2. 2^width <= 2^(W-1)
    BY <1>6, <2>1
  <2>3. QED
    BY <1>2, <1>4, <2>2
<1>9. IntMax = H - 1 /\ IntMin = -H
  BY <1>2 DEF IntMax, IntMin
<1>10. QED
  BY <1>1, <1>2, <1>4, <1>5, <1>7, <1>8, <1>9

\* A field takes the low bits of a number.
LEMMA LowBits ==
  ASSUME NEW n \in Int, NEW width \in Nat, width <= W
  PROVE  ToUint(n) % 2^width = n % 2^width
<1>1. PICK P \in Nat \ {0} : P = 2^width
  BY PowType
<1>2. PICK d \in Nat : d = W - width /\ W = width + d
  <2>1. W \in Nat
    BY CodecAssumption
  <2>2. W - width \in Nat /\ W = width + (W - width)
    BY <2>1
  <2>3. QED
    BY <2>2
<1>3. PICK K \in Nat \ {0} : K = 2^d
  BY PowType
<1>4. 2^W = P*K
  BY <1>1, <1>2, <1>3, PowSum
<1>5. (n % (P*K)) % P = n % P
  BY RestOfRest
<1>6. QED
  BY <1>1, <1>4, <1>5 DEF ToUint

\* A number that fits with its sign is read back where the sign is extended ...
LEMMA SignedBack ==
  ASSUME NEW n \in Int, NEW width \in Nat \ {0}, width <= W,
         -(2^(width-1)) <= n, n < 2^(width-1)
  PROVE  SignExtend(ToUint(n) % 2^width, width) = n
<1>1. PICK T \in Nat \ {0} : T = 2^(width-1) /\ 2^width = 2*T
  BY Halves
<1>2. PICK P \in Nat \ {0} : P = 2*T /\ P = 2^width
  BY <1>1
<1>3. PICK u \in Int : u = n % P /\ u = ToUint(n) % 2^width
  <2>1. PICK u \in 0 .. P-1 : u = n % P
    BY RestRange
  <2>2. ToUint(n) % 2^width = n % 2^width
    BY LowBits
  <2>3. QED
    BY <1>2, <2>1, <2>2
<1>4. u = IF n < 0 THEN n + P ELSE n
  <2>1. -P <= n /\ n < P
    BY <1>1, <1>2
  <2>2. n % P = IF n < 0 THEN n + P ELSE n
    BY <2>1, EncodedIs, Zenon
  <2>3. QED
    BY <1>3, <2>2
<1>5. SignExtend(u, width) = IF u >= T THEN u - P ELSE u
  BY <1>1, <1>2 DEF SignExtend
<1>6. QED
  BY <1>1, <1>2, <1>3, <1>4, <1>5

\* ... one that has a whole register, as any int32_t ...
LEMMA FullBack ==
  ASSUME NEW n \in Int, IntMin <= n, n <= IntMax
  PROVE  ToInt(ToUint(n) % 2^W) = n
<1>1. W \in Nat \ {0} /\ W <= W
  BY CodecAssumption
<1>2. PICK H \in Nat \ {0} : 2^W = 2*H /\ IntMax = H - 1 /\ IntMin = -H
  BY <1>1, Halves
<1>3. -H <= n /\ n < H
  BY <1>2
<1>4. PICK P \in Nat \ {0} : P = 2*H /\ P = 2^W
  BY <1>2
<1>5. PICK u \in Int : u = n % P /\ u = ToUint(n) % 2^W
  <2>1. PICK u \in 0 .. P-1 : u = n % P
    BY RestRange
  <2>2. ToUint(n) % 2^W = n % 2^W
    BY <1>1, <1>3, LowBits
  <2>3. QED
    BY <1>4, <2>1, <2>2
<1>6. u = IF n < 0 THEN n + P ELSE n
  <2>1. -P <= n /\ n < P
    BY <1>3, <1>4
  <2>2. n % P = IF n < 0 THEN n + P ELSE n
    BY <2>1, EncodedIs, Zenon
  <2>3. QED
    BY <1>5, <2>2
<1>7. ToInt(u) = IF u > H - 1 THEN u - P ELSE u
  BY <1>2, <1>4 DEF ToInt
<1>8. QED
  BY <1>3, <1>4, <1>5, <1>6, <1>7

LEMMA EncodedInField ==
  ASSUME NEW n \in Int, NEW width \in Nat \ {0}, width <= W, -(2^width) <= n, n < 2^width
  PROVE  ToUint(n) % 2^width = IF n < 0 THEN n + 2^width ELSE n
<1>1. PICK P \in Nat \ {0} : P = 2^width
  BY PowType
<1>2. ToUint(n) % P = n % P
  BY <1>1, LowBits
<1>3. n % P = IF n < 0 THEN n + P ELSE n
  <2>1. -P <= n /\ n < P
    BY <1>1
  <2>2. QED
    BY <2>1, EncodedIs, Zenon
<1>4. QED
  BY <1>1, <1>2, <1>3

\* ... and one without a sign, in less than a register.
LEMMA NaturalBack ==
  ASSUME NEW n \in Nat, NEW width \in Nat \ {0}, width < W, n < 2^width
  PROVE  ToInt(n) = n
<1>1. PICK T \in Nat \ {0}, H \in Nat \ {0} : 2^width = 2*T /\ IntMax = H - 1 /\ 2*T <= H
  <2>1. width <= W
    BY CodecAssumption
  <2>2. QED
    BY <2>1, Halves
<1>2. n <= IntMax
  BY <1>1
<1>3. QED
  BY <1>1, <1>2 DEF ToInt

\* What clear_and_insert accepts, in numbers.
LEMMA AcceptsRange ==
  ASSUME NEW n \in Int, NEW width \in Nat \ {0}, width <= W
  PROVE  /\ InsertAccepts(n, width, TRUE) <=> -(2^(width-1)) <= n /\ n < 2^(width-1)
         /\ IntMin <= n /\ n <= IntMax /\ width = W
              => (InsertAccepts(n, width, FALSE) <=> -(2^(width-1)) <= n /\ n < 2^(width-1))
         /\ IntMin <= n /\ n <= IntMax /\ width < W
              => (InsertAccepts(n, width, FALSE) <=> 0 <= n /\ n < 2 * 2^(width-1))
<1>1. PICK T \in Nat \ {0}, H \in Nat \ {0} :
        /\ T = 2^(width-1) /\ 2^width = 2*T
        /\ H = 2^(W-1) /\ 2^W = 2*H
        /\ IntMax = H - 1 /\ IntMin = -H
        /\ T <= H
        /\ width < W => 2*T <= H
  BY Halves
<1>2. InsertAccepts(n, width, TRUE) <=> -T <= n /\ n < T
  <2>1. (2*T - 1) \div 2 = T - 1
    OBVIOUS
  <2>2. QED
    BY <1>1, <2>1 DEF InsertAccepts
<1>3. PICK P \in Nat \ {0} : P = 2*H /\ P = 2^W
  BY <1>1
<1>4. PICK r \in 0 .. P-1 : r = n % P
  BY RestRange
<1>5. InsertAccepts(n, width, FALSE) <=> r <= 2*T - 1
  BY <1>1, <1>3, <1>4 DEF InsertAccepts, ToUint
<1>6. ASSUME IntMin <= n, n <= IntMax
      PROVE  -H <= n /\ n < H /\ r = IF n < 0 THEN n + P ELSE n
  <2>1. -H <= n /\ n < H
    BY <1>1, <1>6
  <2>2. -P <= n /\ n < P
    BY <1>3, <2>1
  <2>3. n % P = IF n < 0 THEN n + P ELSE n
    BY <2>2, EncodedIs, Zenon
  <2>4. QED
    BY <1>4, <2>1, <2>3
<1>7. ASSUME IntMin <= n, n <= IntMax, width = W
      PROVE  InsertAccepts(n, width, FALSE) <=> -T <= n /\ n < T
  <2>1. T = H
    BY <1>1, <1>7
  <2>2. -H <= n /\ n < H /\ r = IF n < 0 THEN n + P ELSE n
    BY <1>6, <1>7
  <2>3. r <= 2*T - 1 <=> -T <= n /\ n < T
    BY <1>3, <2>1, <2>2
  <2>4. QED
    BY <1>5, <2>3
<1>8. ASSUME IntMin <= n, n <= IntMax, width < W
      PROVE  InsertAccepts(n, width, FALSE) <=> 0 <= n /\ n < 2*T
  <2>1. 2*T <= H
    BY <1>1, <1>8
  <2>2. -H <= n /\ n < H /\ r = IF n < 0 THEN n + P ELSE n
    BY <1>6, <1>8
  <2>3. r <= 2*T - 1 <=> 0 <= n /\ n < 2*T
    BY <1>3, <2>1, <2>2
  <2>4. QED
    BY <1>5, <2>3
<1>9. QED
  BY <1>1, <1>2, <1>7, <1>8

\* A number is between two multiples only, of which the lower and the upper are known.
LEMMA RoomBetweenInts == \A a, b \in Int, c \in Nat : a < b => a*c + c <= b*c
<1> SUFFICES ASSUME NEW a \in Int, NEW b \in Int, NEW c \in Nat, a < b PROVE a*c + c <= b*c
  OBVIOUS
<1>1. PICK d \in Nat : b = a + d + 1
  <2>1. b - a - 1 \in Nat /\ b = a + (b - a - 1) + 1
    OBVIOUS
  <2>2. QED
    BY <2>1
<1>2. b*c = a*c + d*c + c
  BY <1>1
<1>3. a*c \in Int /\ d*c \in Nat /\ b*c \in Int
  OBVIOUS
<1>4. QED
  BY <1>2, <1>3

LEMMA OneMultiple ==
  ASSUME NEW U \in Nat \ {0}, NEW v \in Int, NEW m \in Int, NEW n \in Int
  PROVE  /\ m*U <= v /\ v < m*U + U /\ n*U <= v /\ v < n*U + U => m = n
         /\ m*U >= v /\ v > m*U - U /\ n*U >= v /\ v > n*U - U => m = n
<1>1. PICK x \in Int : x = m*U
  OBVIOUS
<1>2. PICK y \in Int : y = n*U
  OBVIOUS
<1>3. (m < n => x + U <= y) /\ (n < m => y + U <= x)
  <2>1. (m < n => m*U + U <= n*U) /\ (n < m => n*U + U <= m*U)
    <3>1. U \in Nat
      OBVIOUS
    <3>2. QED
      BY <3>1, RoomBetweenInts, Zenon
  <2>2. QED
    BY <1>1, <1>2, <2>1
<1>4. (m <= n /\ n <= m) => m = n
  OBVIOUS
<1>5. QED
  BY <1>1, <1>2, <1>3

\* Truncate rounds to 0, and not beyond the bounds that the number is between.
RoundsTo0(v, U, L, M) ==
  \E n \in Int :
    /\ n = Truncate(v, U) /\ -L <= n /\ n <= M
    /\ IF v >= 0 THEN n*U <= v /\ v < n*U + U ELSE n*U >= v /\ v > n*U - U
    /\ v >= 0 => n >= 0
    /\ v = 0 => n = 0

LEMMA Truncated ==
  ASSUME NEW U \in Nat \ {0}, NEW M \in Nat, NEW L \in Nat, NEW v \in Int,
         -(L*U) <= v, v <= M*U
  PROVE  RoundsTo0(v, U, L, M)
<1>1. ASSUME NEW a \in Nat, NEW B \in Nat, a <= B*U
      PROVE  \E q \in Nat : q = a \div U /\ q <= B /\ q*U <= a /\ a < q*U + U
  <2>1. PICK k \in 0 .. U-1, q \in Nat : a = k + U*q /\ k = a % U /\ q = a \div U
    BY Divided
  <2>2. PICK y \in Nat : y = q*U
    BY ProductType
  <2>3. a = k + y
    BY <2>1, <2>2
  <2>4. q <= B
    <3>1. SUFFICES ASSUME B < q PROVE FALSE
      OBVIOUS
    <3>2. PICK x \in Nat : x = B*U
      BY ProductType
    <3>3. B*U + U <= q*U
      <4>1. U \in Nat
        OBVIOUS
      <4>2. QED
        BY <3>1, <4>1, RoomBetween, Zenon
    <3>4. QED
      BY <1>1, <2>2, <2>3, <3>2, <3>3
  <2>5. QED
    BY <2>1, <2>2, <2>3, <2>4
<1>2. CASE v >= 0
  <2>1. PICK q \in Nat : q = v \div U /\ q <= M /\ q*U <= v /\ v < q*U + U
    BY <1>1, <1>2
  <2>2. Truncate(v, U) = q
    BY <1>2, <2>1 DEF Truncate
  <2>3. v = 0 => q = 0
    <3>1. 0 \in 0 .. U-1 /\ 0 = 0 + U*0
      OBVIOUS
    <3>2. 0 \div U = 0
      BY <3>1, QuotientIs
    <3>3. QED
      BY <2>1, <3>2
  <2>4. QED
    BY <1>2, <2>1, <2>2, <2>3 DEF RoundsTo0
<1>3. CASE v < 0
  <2>1. PICK a \in Nat : a = -v
    BY <1>3
  <2>2. a <= L*U
    <3>1. PICK y \in Nat : y = L*U
      BY ProductType
    <3>2. QED
      BY <2>1, <3>1
  <2>3. PICK q \in Nat : q = a \div U /\ q <= L /\ q*U <= a /\ a < q*U + U
    BY <1>1, <2>2
  <2>4. PICK n \in Int : n = -q
    OBVIOUS
  <2>5. Truncate(v, U) = n
    BY <1>3, <2>1, <2>3, <2>4 DEF Truncate
  <2>6. PICK y \in Nat : y = q*U
    BY ProductType
  <2>7. n*U = -y
    BY <2>4, <2>6
  <2>8. n*U >= v /\ v > n*U - U /\ -L <= n /\ n <= M
    BY <2>1, <2>3, <2>4, <2>6, <2>7
  <2>9. QED
    BY <1>3, <2>5, <2>8 DEF RoundsTo0
<1>4. QED
  BY <1>2, <1>3

\* float2fixed gives the multiple that the bank of fields names: it saturates, and
\* rounds to 0.
LEMMA NearestIs ==
  ASSUME NEW s, s.pos \in 0 .. Scale, NEW v \in Int
  PROVE  \E n \in Int :
           /\ n = FloatToFixed(v, s.pos) /\ IntMin <= n /\ n <= IntMax
           /\ Nearest(s, v) = n * Unit(s) /\ FixedToFloat(n, s.pos) = n * Unit(s)
           /\ (n * Unit(s)) \div Unit(s) = n
           /\ v >= 0 => n >= 0
           /\ v = 0 => n = 0
<1>1. PICK U \in Nat \ {0} : U = Unit(s) /\ U = 2^(Scale - s.pos)
  <2>1. Scale - s.pos \in Nat
    BY CodecAssumption
  <2>2. QED
    BY <2>1, PowType DEF Unit
<1>0. PICK L \in Nat : L > 1 /\ IntMax = L - 1 /\ IntMin = -L
  <2>1. W \in Nat \ {0} /\ W <= W
    BY CodecAssumption
  <2>2. QED
    BY <2>1, Halves
<1>2. PICK M \in Nat : M = IntMax /\ -L = IntMin /\ M > 0 /\ L > 0
  BY <1>0
<1>3. PICK MU \in Nat : MU = M*U /\ MU > 0
  <2>1. M \in Nat \ {0}
    BY <1>2
  <2>2. QED
    BY <2>1, ProductPositive
<1>4. PICK LU \in Nat : LU = L*U /\ LU > 0 /\ -LU = (-L)*U
  <2>1. L \in Nat \ {0} /\ (-L)*U = -(L*U)
    BY <1>2
  <2>2. QED
    BY <2>1, ProductPositive
<1>5. FloatToFixed(v, s.pos) =
        IF v >= MU THEN M ELSE IF v <= -LU THEN -L ELSE Truncate(v, U)
  BY <1>1, <1>2, <1>3, <1>4 DEF FloatToFixed, FixedToFloat
<1> DEFINE Close(x) == IF v > MU THEN x = MU
                       ELSE IF v < -LU THEN x = -LU
                       ELSE IF v >= 0 THEN x <= v /\ v < x + U ELSE x >= v /\ v > x - U
<1>6. PICK n \in Int :
        /\ n = FloatToFixed(v, s.pos) /\ -L <= n /\ n <= M
        /\ Close(n*U)
        /\ v >= 0 => n >= 0
        /\ v = 0 => n = 0
  <2>1. CASE v >= MU
    <3>1. M \in Int /\ Close(M*U) /\ v >= 0 /\ v # 0
      BY <1>3, <2>1
    <3>2. M = FloatToFixed(v, s.pos) /\ -L <= M /\ M >= 0
      BY <1>5, <2>1
    <3>3. QED
      BY <3>1, <3>2
  <2>2. CASE v <= -LU
    <3>1. -L \in Int /\ v < 0 /\ v < MU
      BY <1>3, <1>4, <2>2
    <3>2. Close((-L)*U)
      BY <1>3, <1>4, <2>2, <3>1
    <3>3. -L = FloatToFixed(v, s.pos) /\ -L <= M
      BY <1>5, <2>2, <3>1
    <3>4. QED
      BY <3>1, <3>2, <3>3
  <2>3. CASE -LU < v /\ v < MU
    <3>1. -(L*U) <= v /\ v <= M*U
      BY <1>3, <1>4, <2>3
    <3>2. PICK n \in Int :
            /\ n = Truncate(v, U) /\ -L <= n /\ n <= M
            /\ IF v >= 0 THEN n*U <= v /\ v < n*U + U ELSE n*U >= v /\ v > n*U - U
            /\ v >= 0 => n >= 0
            /\ v = 0 => n = 0
      <4>1. RoundsTo0(v, U, L, M)
        BY <3>1, Truncated
      <4>2. QED
        BY <4>1, Zenon DEF RoundsTo0
    <3>3. n = FloatToFixed(v, s.pos)
      BY <1>5, <2>3, <3>2
    <3>4. Close(n*U)
      BY <2>3, <3>2
    <3>5. QED
      BY <3>2, <3>3, <3>4
  <2>4. QED
    BY <2>1, <2>2, <2>3
<1> DEFINE Multiples == {m * Unit(s) : m \in IntMin .. IntMax}
<1>7. n*U \in Multiples
  <2>1. n \in IntMin .. IntMax
    BY <1>2, <1>6
  <2>2. QED
    BY <1>1, <2>1
<1>8. ASSUME NEW x \in Multiples, Close(x) PROVE x = n*U
  <2>1. PICK m \in Int : x = m*U
    BY <1>1, <1>2
  <2>2. PICK y \in Int : y = n*U
    OBVIOUS
  <2>3. CASE v > MU \/ v < -LU
    BY <1>6, <1>8, <2>2, <2>3
  <2>4. CASE -LU <= v /\ v <= MU
    <3>1. CASE v >= 0
      <4>1. m*U <= v /\ v < m*U + U /\ n*U <= v /\ v < n*U + U
        BY <1>6, <1>8, <2>1, <2>4, <3>1
      <4>2. QED
        BY <2>1, <4>1, OneMultiple
    <3>2. CASE v < 0
      <4>1. m*U >= v /\ v > m*U - U /\ n*U >= v /\ v > n*U - U
        BY <1>6, <1>8, <2>1, <2>4, <3>2
      <4>2. QED
        BY <2>1, <4>1, OneMultiple
    <3>3. QED
      BY <3>1, <3>2
  <2>5. QED
    BY <2>3, <2>4
<1>9. Nearest(s, v) = CHOOSE x \in Multiples : Close(x)
  <2>1. IntMax * Unit(s) = MU /\ IntMin * Unit(s) = -LU
    BY <1>1, <1>2, <1>3, <1>4
  <2>2. QED
    BY <1>1, <2>1, Zenon DEF Nearest
<1> HIDE DEF Close, Multiples
<1>10. Nearest(s, v) = n*U
  BY <1>6, <1>7, <1>8, <1>9, Zenon
<1>11. FixedToFloat(n, s.pos) = n*U
  BY <1>1 DEF FixedToFloat
<1>12. (n*U) \div U = n
  <2>1. 0 \in 0 .. U-1 /\ n*U = 0 + U*n
    OBVIOUS
  <2>2. QED
    BY <2>1, WholeQuotient
<1>13. QED
  BY <1>1, <1>2, <1>6, <1>10, <1>11, <1>12

-----------------------------------------------------------------------------
(* Fields of a layout.                                                     *)
-----------------------------------------------------------------------------
LEMMA LayoutFacts ==
  ASSUME NEW f \in Fields
  PROVE  /\ Layout(f).reg \in Registers /\ Layout(f).low \in Nat
         /\ Layout(f).width \in Nat \ {0} /\ Layout(f).low + Layout(f).width <= W
         /\ Layout(f).width <= W
         /\ Layout(f).multibit \in BOOLEAN /\ Layout(f).extended \in BOOLEAN
         /\ Layout(f).fixed \in BOOLEAN /\ Layout(f).pos \in Int
         /\ Layout(f).multibit <=> Layout(f).width > 1
         /\ Layout(f).fixed => Layout(f).multibit /\ Layout(f).pos \in 0 .. Scale
<1>1. /\ Layout(f).reg \in Registers /\ Layout(f).low \in Nat
      /\ Layout(f).width \in Nat \ {0} /\ Layout(f).low + Layout(f).width <= W
      /\ Layout(f).multibit \in BOOLEAN /\ Layout(f).extended \in BOOLEAN
      /\ Layout(f).fixed \in BOOLEAN /\ Layout(f).pos \in Int
      /\ Layout(f).multibit <=> Layout(f).width > 1
      /\ Layout(f).fixed => Layout(f).multibit /\ Layout(f).pos \in 0 .. Scale
  BY FieldsAssumption
<1>2. Layout(f).width <= W
  BY <1>1, CodecAssumption
<1>3. QED
  BY <1>1, <1>2

\* The numbers that a client gives to a field.
Suitable(f, v) ==
  /\ v \in Int
  /\ ~ Layout(f).fixed => IntMin <= v /\ v <= IntMax

LEMMA InputsSuitable == \A f \in Fields : \A v \in Inputs(f) : Suitable(f, v)
<1> SUFFICES ASSUME NEW f \in Fields, NEW v \in Inputs(f) PROVE Suitable(f, v)
  OBVIOUS
<1>1. /\ v \in Int
      /\ ~ Layout(f).fixed => v \in IntMin .. IntMax
  BY InputsAssumption
<1>2. PICK H \in Nat \ {0} : IntMax = H - 1 /\ IntMin = -H
  <2>1. W \in Nat \ {0} /\ W <= W
    BY CodecAssumption
  <2>2. QED
    BY <2>1, Halves
<1>3. QED
  BY <1>1, <1>2 DEF Suitable

LEMMA ZeroSuitable == \A f \in Fields : Suitable(f, 0)
<1>1. PICK H \in Nat \ {0} : IntMax = H - 1 /\ IntMin = -H
  <2>1. W \in Nat \ {0} /\ W <= W
    BY CodecAssumption
  <2>2. QED
    BY <2>1, Halves
<1>2. QED
  BY <1>1 DEF Suitable

\* The bits of a number, and the number that bits mean.
Code(s, v) == IF s.multibit THEN ToUint(Raw(s, v)) % 2^s.width ELSE IF v = 0 THEN 0 ELSE 1
Plain(s, b) ==
  IF s.multibit THEN IF s.extended THEN SignExtend(b, s.width) ELSE ToInt(b) ELSE b
Meaning(s, b) == IF s.fixed THEN FixedToFloat(Plain(s, b), s.pos) ELSE Plain(s, b)

LEMMA ValueOfBits ==
  ASSUME NEW f \in Fields, NEW words
  PROVE  Value(f, words) =
           Meaning(Layout(f), Bits(words[Layout(f).reg], Layout(f).low, Layout(f).width))
<1>1. PICK s : s = Layout(f)
  OBVIOUS
<1>2. s.multibit \in BOOLEAN /\ s.extended \in BOOLEAN /\ s.fixed \in BOOLEAN
  BY <1>1, LayoutFacts
<1>3. ~ s.multibit => s.width = 1
  BY <1>1, LayoutFacts
<1>4. PICK word : word = words[s.reg]
  OBVIOUS
<1>5. Plain(s, Bits(word, s.low, s.width)) =
        IF s.multibit THEN ExtractValue(word, s.low, s.width, s.extended) ELSE GetBit(word, s.low)
  BY <1>2, <1>3 DEF Plain, ExtractValue, GetBit
<1>6. Value(f, words) =
        IF s.fixed THEN FixedToFloat(Plain(s, Bits(word, s.low, s.width)), s.pos)
                   ELSE Plain(s, Bits(word, s.low, s.width))
  BY <1>1, <1>4, <1>5 DEF Value
<1>7. QED
  BY <1>1, <1>4, <1>6 DEF Meaning

\* A field that loses the sign holds the number that the same bits make without it.
HeldRaw(s, n) == IF n < 0 /\ LosesSign(s) THEN n + 2^s.width ELSE n

\* A number with its bits: the raw number of a multibit field.
LEMMA RawIs ==
  ASSUME NEW f \in Fields, NEW v, Suitable(f, v), Layout(f).multibit
  PROVE  \E n \in Int :
           /\ n = Raw(Layout(f), v) /\ IntMin <= n /\ n <= IntMax
           /\ Layout(f).fixed =>
                /\ Nearest(Layout(f), v) = n * Unit(Layout(f))
                /\ BankHolds(f, v) = HeldRaw(Layout(f), n) * Unit(Layout(f))
                /\ (n * Unit(Layout(f))) \div Unit(Layout(f)) = n
           /\ ~ Layout(f).fixed => BankHolds(f, v) = v /\ n = v
           /\ v = 0 => n = 0
<1>1. PICK s : s = Layout(f)
  OBVIOUS
<1>2. s.multibit /\ s.fixed \in BOOLEAN
  BY <1>1, LayoutFacts
<1>3. v \in Int
  BY DEF Suitable
<1>4. CASE s.fixed
  <2>1. PICK n \in Int :
           /\ n = FloatToFixed(v, s.pos) /\ IntMin <= n /\ n <= IntMax
           /\ Nearest(s, v) = n * Unit(s) /\ FixedToFloat(n, s.pos) = n * Unit(s)
           /\ (n * Unit(s)) \div Unit(s) = n
           /\ v >= 0 => n >= 0
           /\ v = 0 => n = 0
    <3>1. s.pos \in 0 .. Scale
      BY <1>1, <1>4, LayoutFacts
    <3>2. QED
      BY <1>3, <3>1, NearestIs
  <2>2. BankHolds(f, v) = HeldRaw(s, n) * Unit(s)
    <3>1. BankHolds(f, v) = HeldNearest(s, v)
      BY <1>1, <1>2, <1>4, Zenon DEF BankHolds
    <3>2. PICK U \in Nat \ {0} : U = Unit(s)
      <4>1. Scale - s.pos \in Nat
        BY <1>1, <1>4, LayoutFacts, CodecAssumption
      <4>2. QED
        BY <4>1, PowType DEF Unit
    <3>3. PICK P \in Nat \ {0} : P = 2^s.width
      BY <1>1, LayoutFacts, PowType
    <3>4. PICK x \in Int : x = n * U /\ Nearest(s, v) = x
      BY <2>1, <3>2
    <3>5. x < 0 <=> n < 0
      <4>1. n >= 0 => n * U >= 0
        OBVIOUS
      <4>2. n < 0 => n * U + U <= 0 * U
        <5>1. U \in Nat /\ 0 \in Int
          OBVIOUS
        <5>2. QED
          BY <5>1, RoomBetweenInts, Zenon
      <4>3. 0 * U = 0
        OBVIOUS
      <4>4. QED
        BY <3>4, <4>1, <4>2, <4>3
    <3>6. (n + P) * U = x + P * U
      <4>1. (n + P) * U = n * U + P * U
        OBVIOUS
      <4>2. QED
        BY <3>4, <4>1
    <3>7. CASE n < 0 /\ LosesSign(s)
      <4>1. HeldNearest(s, v) = x + P * U
        BY <3>2, <3>3, <3>4, <3>5, <3>7 DEF HeldNearest
      <4>2. HeldRaw(s, n) = n + P
        BY <3>3, <3>7 DEF HeldRaw
      <4>3. QED
        BY <3>1, <3>2, <3>6, <4>1, <4>2
    <3>8. CASE ~ (n < 0 /\ LosesSign(s))
      <4>1. HeldNearest(s, v) = x
        BY <3>4, <3>5, <3>8 DEF HeldNearest
      <4>2. HeldRaw(s, n) = n
        BY <3>8 DEF HeldRaw
      <4>3. QED
        BY <3>1, <3>2, <3>4, <4>1, <4>2
    <3>9. QED
      BY <3>7, <3>8
  <2>3. n = Raw(s, v)
    BY <1>4, <2>1 DEF Raw
  <2>4. QED
    BY <1>1, <1>4, <2>1, <2>2, <2>3
<1>5. CASE ~ s.fixed
  <2>1. BankHolds(f, v) = v
    BY <1>1, <1>2, <1>5, Zenon DEF BankHolds
  <2>2. Raw(s, v) = v
    BY <1>5 DEF Raw
  <2>3. IntMin <= v /\ v <= IntMax
    BY <1>1, <1>5 DEF Suitable
  <2>4. QED
    BY <1>1, <1>3, <1>5, <2>1, <2>2, <2>3
<1>6. QED
  BY <1>2, <1>4, <1>5

\* clear_and_insert takes the numbers that the bank accepts.
LEMMA FitsAccepts ==
  ASSUME NEW f \in Fields, NEW v, Suitable(f, v)
  PROVE  /\ Fits(Layout(f), v) \in BOOLEAN /\ BankAccepts(f, v) \in BOOLEAN
         /\ Fits(Layout(f), v) <=> BankAccepts(f, v)
<1>1. PICK s : s = Layout(f)
  OBVIOUS
<1>2. /\ s.multibit \in BOOLEAN /\ s.extended \in BOOLEAN /\ s.fixed \in BOOLEAN
      /\ s.width \in Nat \ {0} /\ s.width <= W
  BY <1>1, LayoutFacts
<1>3. CASE ~ s.multibit
  <2>1. BankAccepts(f, v) = TRUE
    BY <1>1, <1>3, Zenon DEF BankAccepts
  <2>2. Fits(s, v) = TRUE
    BY <1>3 DEF Fits
  <2>3. QED
    BY <1>1, <2>1, <2>2
<1>4. CASE s.multibit
  <2>1. PICK n \in Int :
          /\ n = Raw(s, v) /\ IntMin <= n /\ n <= IntMax
          /\ s.fixed => Nearest(s, v) = n * Unit(s) /\ (n * Unit(s)) \div Unit(s) = n
          /\ ~ s.fixed => n = v
    BY <1>1, <1>4, RawIs
  <2>2. n = IF s.fixed THEN Nearest(s, v) \div Unit(s) ELSE v
    BY <1>2, <2>1
  <2>3. PICK T \in Int : T = 2^(s.width - 1)
    BY <1>2, Halves
  <2>4. PICK signed \in BOOLEAN : signed = IsSigned(s)
    BY <1>2 DEF IsSigned
  <2>5. PICK fits \in BOOLEAN : fits = InsertAccepts(n, s.width, signed)
    <3>1. /\ InsertAccepts(n, s.width, TRUE) \in BOOLEAN
          /\ InsertAccepts(n, s.width, FALSE) \in BOOLEAN
      BY DEF InsertAccepts
    <3>2. InsertAccepts(n, s.width, signed) \in BOOLEAN
      BY <2>4, <3>1
    <3>3. QED
      BY <3>2, Zenon
  <2>6. Fits(s, v) = fits
    BY <1>4, <2>1, <2>4, <2>5 DEF Fits
  <2>7. CASE signed \/ s.width = W
    <3>1. fits <=> -T <= n /\ n < T
      <4>1. CASE signed
        BY <1>2, <2>3, <2>5, <4>1, AcceptsRange
      <4>2. CASE ~ signed /\ s.width = W
        BY <1>2, <2>1, <2>3, <2>5, <4>2, AcceptsRange
      <4>3. QED
        BY <2>7, <4>1, <4>2
    <3>2. BankAccepts(f, v) = (-T <= n /\ n < T)
      <4>1. s.multibit /\ (IsSigned(s) \/ FullWidth(s))
        BY <1>4, <2>4, <2>7 DEF FullWidth
      <4>2. QED
        BY <1>1, <2>2, <2>3, <4>1, Zenon DEF BankAccepts
    <3>3. QED
      BY <1>1, <2>6, <3>1, <3>2
  <2>8. CASE ~ (signed \/ s.width = W)
    <3>1. s.width < W
      BY <1>2, <2>8, CodecAssumption
    <3>2. fits <=> 0 <= n /\ n < 2 * T
      BY <1>2, <2>1, <2>3, <2>5, <2>8, <3>1, AcceptsRange
    <3>3. BankAccepts(f, v) = (0 <= n /\ n < 2 * T)
      <4>1. s.multibit /\ ~ (IsSigned(s) \/ FullWidth(s))
        BY <1>4, <2>4, <2>8 DEF FullWidth
      <4>2. QED
        BY <1>1, <2>2, <2>3, <4>1, Zenon DEF BankAccepts
    <3>4. QED
      BY <1>1, <2>6, <3>2, <3>3
  <2>9. QED
    BY <2>7, <2>8
<1>5. QED
  BY <1>2, <1>3, <1>4

\* A number that is accepted is read back as the bank has it.
LEMMA CodeMeans ==
  ASSUME NEW f \in Fields, NEW v, Suitable(f, v), Fits(Layout(f), v)
  PROVE  Meaning(Layout(f), Code(Layout(f), v)) = BankHolds(f, v)
<1>1. PICK s : s = Layout(f)
  OBVIOUS
<1>2. /\ s.multibit \in BOOLEAN /\ s.extended \in BOOLEAN /\ s.fixed \in BOOLEAN
      /\ s.width \in Nat \ {0} /\ s.width <= W
      /\ s.fixed => s.multibit
  BY <1>1, LayoutFacts
<1>3. CASE ~ s.multibit
  <2>1. BankHolds(f, v) = IF v = 0 THEN 0 ELSE 1
    BY <1>1, <1>3, Zenon DEF BankHolds
  <2>2. Meaning(s, Code(s, v)) = IF v = 0 THEN 0 ELSE 1
    BY <1>2, <1>3 DEF Meaning, Plain, Code
  <2>3. QED
    BY <1>1, <2>1, <2>2
<1>4. CASE s.multibit
  <2>1. PICK n \in Int :
          /\ n = Raw(s, v) /\ IntMin <= n /\ n <= IntMax
          /\ s.fixed => BankHolds(f, v) = HeldRaw(s, n) * Unit(s)
          /\ ~ s.fixed => BankHolds(f, v) = v /\ n = v
    BY <1>1, <1>4, RawIs
  <2>2. PICK T \in Int : T = 2^(s.width - 1) /\ 2^s.width = 2*T
    BY <1>2, Halves
  <2>3. InsertAccepts(n, s.width, IsSigned(s))
    BY <1>1, <1>4, <2>1 DEF Fits
  <2>4. IsSigned(s) => -T <= n /\ n < T
    <3>1. ASSUME IsSigned(s) PROVE -T <= n /\ n < T
      <4>1. IsSigned(s) = TRUE
        BY <1>2, <3>1 DEF IsSigned
      <4>2. InsertAccepts(n, s.width, TRUE)
        BY <2>3, <4>1
      <4>3. QED
        BY <1>2, <2>2, <4>2, AcceptsRange
    <3>2. QED
      BY <3>1
  <2>5. Plain(s, Code(s, v)) = IF s.fixed THEN HeldRaw(s, n) ELSE n
    <3>0. HeldRaw(s, n) = IF n < 0 /\ ~ s.extended /\ s.width # W THEN n + 2*T ELSE n
      BY <2>2 DEF HeldRaw, LosesSign, FullWidth
    <3>1. Code(s, v) = ToUint(n) % 2^s.width
      BY <1>4, <2>1 DEF Code
    <3>2. CASE s.extended
      <4>1. -T <= n /\ n < T
        BY <2>4, <3>2 DEF IsSigned
      <4>2. SignExtend(ToUint(n) % 2^s.width, s.width) = n
        BY <1>2, <2>2, <4>1, SignedBack
      <4>3. QED
        BY <1>4, <3>0, <3>1, <3>2, <4>2 DEF Plain
    <3>3. CASE ~ s.extended /\ s.width = W
      <4>1. ToInt(ToUint(n) % 2^W) = n
        BY <2>1, FullBack
      <4>2. QED
        BY <1>4, <3>0, <3>1, <3>3, <4>1 DEF Plain
    <3>4. CASE ~ s.extended /\ s.width < W
      <4>1. PICK h \in Nat :
              /\ h = IF s.fixed THEN HeldRaw(s, n) ELSE n
              /\ h < 2*T /\ ToUint(n) % 2^s.width = h
        <5>1. CASE s.fixed
          <6>1. -T <= n /\ n < T
            BY <2>4, <5>1 DEF IsSigned
          <6>2. PICK h \in Nat : h = HeldRaw(s, n) /\ h < 2*T /\ h = IF n < 0 THEN n + 2*T ELSE n
            BY <1>2, <2>2, <3>0, <3>4, <6>1, CodecAssumption
          <6>3. ToUint(n) % 2^s.width = h
            BY <1>2, <2>2, <6>1, <6>2, EncodedInField
          <6>4. QED
            BY <5>1, <6>2, <6>3
        <5>2. CASE ~ s.fixed
          <6>1. IsSigned(s) = FALSE
            BY <1>2, <3>4, <5>2 DEF IsSigned
          <6>2. InsertAccepts(n, s.width, FALSE)
            BY <2>3, <6>1
          <6>3. 0 <= n /\ n < 2*T
            BY <1>2, <2>1, <2>2, <3>4, <6>2, AcceptsRange
          <6>4. PICK h \in Nat : h = n /\ h < 2*T
            BY <6>3
          <6>5. ToUint(n) % 2^s.width = h
            BY <1>2, <2>2, <6>4, EncodedInField
          <6>6. QED
            BY <5>2, <6>4, <6>5
        <5>3. QED
          BY <1>2, <5>1, <5>2
      <4>2. h < 2^s.width
        BY <2>2, <4>1
      <4>3. ToInt(h) = h
        BY <1>2, <3>4, <4>2, NaturalBack
      <4>4. QED
        BY <1>4, <3>1, <3>4, <4>1, <4>3 DEF Plain
    <3>5. QED
      BY <1>2, <3>2, <3>3, <3>4, CodecAssumption
  <2>6. Meaning(s, Code(s, v)) = BankHolds(f, v)
    BY <1>2, <2>1, <2>5 DEF Meaning, FixedToFloat, Unit
  <2>7. QED
    BY <1>1, <2>6
<1>5. QED
  BY <1>2, <1>3, <1>4

LEMMA TwoIs == 2^1 = 2
<1>1. 0 \in Nat /\ 0 + 1 = 1
  OBVIOUS
<1>2. 2^(0+1) = 2 * 2^0
  BY <1>1, PowNext
<1>3. QED
  BY <1>1, <1>2, PowZero

\* write_internal puts a number's code in the place of the field.
LEMMA CodeIsPut ==
  ASSUME NEW f \in Fields, NEW v, Suitable(f, v), NEW word
  PROVE  \E code \in Nat :
           /\ code = Code(Layout(f), v) /\ code < 2^Layout(f).width
           /\ (IF Layout(f).multibit
                 THEN ClearAndInsert(word, Raw(Layout(f), v), Layout(f).low, Layout(f).width)
                 ELSE InsertBit(word, v, Layout(f).low))
                = word - Bits(word, Layout(f).low, Layout(f).width) * 2^Layout(f).low
                       + code * 2^Layout(f).low
<1>1. PICK s : s = Layout(f)
  OBVIOUS
<1>2. s.multibit \in BOOLEAN /\ s.width \in Nat \ {0} /\ s.width <= W
  BY <1>1, LayoutFacts
<1>3. PICK P \in Nat \ {0} : P = 2^s.width
  BY <1>2, PowType
<1>4. CASE s.multibit
  <2>1. PICK n \in Int : n = Raw(s, v)
    BY <1>1, <1>4, RawIs
  <2>2. PICK k \in 0 .. P-1 : k = n % P
    BY RestRange
  <2>3. ToUint(n) % 2^s.width = k
    <3>1. s.width \in Nat
      BY <1>2
    <3>2. ToUint(n) % 2^s.width = n % 2^s.width
      BY <1>2, <3>1, LowBits
    <3>3. QED
      BY <1>3, <2>2, <3>2
  <2>4. k = Code(s, v)
    BY <1>4, <2>1, <2>3 DEF Code
  <2>5. ClearAndInsert(word, Raw(s, v), s.low, s.width)
          = word - Bits(word, s.low, s.width) * 2^s.low + k * 2^s.low
    BY <2>1, <2>3 DEF ClearAndInsert
  <2>6. k \in Nat /\ k < 2^s.width
    BY <1>3
  <2>7. QED
    BY <1>1, <1>4, <2>4, <2>5, <2>6
<1>5. CASE ~ s.multibit
  <2>0. s.width = 1
    BY <1>1, <1>5, LayoutFacts
  <2>1. s.width = 1 /\ P = 2
    BY <1>3, <2>0, TwoIs, Zenon
  <2>2. PICK k \in Nat : k = (IF v = 0 THEN 0 ELSE 1) /\ k < 2
    OBVIOUS
  <2>3. ToUint(k) % 2^1 = k
    <3>1. 1 <= W /\ 1 \in Nat /\ k \in Int
      BY CodecAssumption
    <3>2. ToUint(k) % 2^1 = k % 2^1
      BY <3>1, LowBits, Zenon
    <3>3. k % 2 = k
      BY <2>2
    <3>4. QED
      BY <3>2, <3>3, TwoIs
  <2>4. InsertBit(word, v, s.low) = word - Bits(word, s.low, 1) * 2^s.low + k * 2^s.low
    BY <2>2, <2>3 DEF InsertBit, ClearAndInsert
  <2>5. k = Code(s, v)
    BY <1>5, <2>2 DEF Code
  <2>6. QED
    BY <1>1, <1>3, <1>5, <2>1, <2>2, <2>4, <2>5
<1>6. QED
  BY <1>2, <1>4, <1>5

\* The bits of a field in the registers.
At(words, f) == Bits(words[Layout(f).reg], Layout(f).low, Layout(f).width)

\* A write sets the field's own bits, and no other's.
LEMMA WrittenIs ==
  ASSUME NEW f \in Fields, NEW v, Suitable(f, v), NEW words \in [Registers -> Words]
  PROVE  /\ Written(words, Layout(f), v) \in [Registers -> Words]
         /\ At(Written(words, Layout(f), v), f) = Code(Layout(f), v)
         /\ \A g \in Fields : g # f => At(Written(words, Layout(f), v), g) = At(words, g)
<1>1. PICK s : s = Layout(f)
  OBVIOUS
<1>2. /\ s.reg \in Registers /\ s.low \in Nat /\ s.width \in Nat \ {0} /\ s.width \in Nat
      /\ s.low + s.width <= W
  BY <1>1, LayoutFacts
<1>3. PICK N \in Nat \ {0} : N = 2^W
  BY CodecAssumption, PowType
<1>4. PICK word \in Nat : word = words[s.reg] /\ word < 2^W
  <2>1. words[s.reg] \in 0 .. N-1
    BY <1>2, <1>3 DEF Words
  <2>2. QED
    BY <1>3, <2>1
<1>5. PICK code \in Nat :
        /\ code = Code(s, v) /\ code < 2^s.width
        /\ (IF s.multibit THEN ClearAndInsert(word, Raw(s, v), s.low, s.width)
                          ELSE InsertBit(word, v, s.low))
             = word - Bits(word, s.low, s.width) * 2^s.low + code * 2^s.low
  BY <1>1, CodeIsPut
<1>6. PICK low \in Nat : low = s.low
  BY <1>2
<1>7. PICK width \in Nat : width = s.width
  BY <1>2
<1>8. PICK new \in Nat :
        /\ new = word - Bits(word, low, width) * 2^low + code * 2^low
        /\ new < 2^W
        /\ Bits(new, low, width) = code
        /\ new % 2^low = word % 2^low
        /\ new \div 2^(low + width) = word \div 2^(low + width)
  <2>1. low + width <= W /\ code < 2^width
    BY <1>2, <1>5, <1>6, <1>7
  <2>2. Inserted(word, low, width, code)
    BY <1>4, <2>1, InsertedWord
  <2>3. QED
    BY <2>2, Zenon DEF Inserted
<1>9. PICK result : result = Written(words, s, v) /\ result = [words EXCEPT ![s.reg] = new]
  BY <1>4, <1>5, <1>6, <1>7, <1>8, Zenon DEF Written
<1>10. result \in [Registers -> Words]
  <2>1. new \in Words
    BY <1>3, <1>8 DEF Words
  <2>2. QED
    BY <1>9, <2>1
<1>11. result[s.reg] = new /\ \A r \in Registers : r # s.reg => result[r] = words[r]
  BY <1>2, <1>9
<1>12. At(result, f) = code
  BY <1>1, <1>6, <1>7, <1>8, <1>11 DEF At
<1>13. ASSUME NEW g \in Fields, g # f PROVE At(result, g) = At(words, g)
  <2>1. PICK t : t = Layout(g)
    OBVIOUS
  <2>2. t.reg \in Registers /\ t.low \in Nat /\ t.width \in Nat
    BY <2>1, LayoutFacts
  <2>3. CASE t.reg # s.reg
    BY <1>11, <2>1, <2>2, <2>3 DEF At
  <2>4. CASE t.reg = s.reg
    <3>1. PICK l \in Nat : l = t.low
      BY <2>2
    <3>2. PICK w \in Nat : w = t.width
      BY <2>2
    <3>3. low + width <= l \/ l + w <= low
      <4>1. ~ Overlap(s, t)
        BY <1>1, <1>13, <2>1, FieldsAssumption
      <4>2. QED
        BY <1>6, <1>7, <2>4, <3>1, <3>2, <4>1 DEF Overlap
    <3>4. Bits(new, l, w) = Bits(word, l, w)
      <4>1. CASE low + width <= l
        <5>1. PICK top \in Nat : top = low + width
          OBVIOUS
        <5>2. top <= l
          BY <4>1, <5>1
        <5>3. Bits(new, l, w) = Bits(new \div 2^top, l - top, w)
          BY <5>2, FieldAbove
        <5>4. Bits(word, l, w) = Bits(word \div 2^top, l - top, w)
          BY <5>2, FieldAbove
        <5>5. QED
          BY <1>8, <5>1, <5>3, <5>4
      <4>2. CASE l + w <= low
        <5>1. Bits(new, l, w) = Bits(new % 2^low, l, w)
          BY <4>2, FieldBelow
        <5>2. Bits(word, l, w) = Bits(word % 2^low, l, w)
          BY <4>2, FieldBelow
        <5>3. QED
          BY <1>8, <5>1, <5>2
      <4>3. QED
        BY <3>3, <4>1, <4>2
    <3>5. result[t.reg] = new /\ words[t.reg] = word
      BY <1>4, <1>11, <2>4
    <3>6. QED
      BY <2>1, <3>1, <3>2, <3>4, <3>5 DEF At
  <2>5. QED
    BY <2>3, <2>4
<1>14. QED
  BY <1>1, <1>5, <1>9, <1>10, <1>12, <1>13

-----------------------------------------------------------------------------
(* Values of fields.                                                       *)
-----------------------------------------------------------------------------
\* What is written is what the field then has, and the others keep theirs.
LEMMA WriteHolds ==
  ASSUME NEW f \in Fields, NEW v, Suitable(f, v), Fits(Layout(f), v),
         NEW words \in [Registers -> Words]
  PROVE  /\ Written(words, Layout(f), v) \in [Registers -> Words]
         /\ Value(f, Written(words, Layout(f), v)) = BankHolds(f, v)
         /\ \A g \in Fields :
              g # f => Value(g, Written(words, Layout(f), v)) = Value(g, words)
<1>1. PICK new : new = Written(words, Layout(f), v)
  OBVIOUS
<1>2. /\ new \in [Registers -> Words]
      /\ At(new, f) = Code(Layout(f), v)
      /\ \A g \in Fields : g # f => At(new, g) = At(words, g)
  BY <1>1, WrittenIs
<1>3. \A g \in Fields : \A w : Value(g, w) = Meaning(Layout(g), At(w, g))
  BY ValueOfBits DEF At
<1>4. Value(f, new) = BankHolds(f, v)
  BY <1>2, <1>3, CodeMeans
<1>5. \A g \in Fields : g # f => Value(g, new) = Value(g, words)
  BY <1>2, <1>3
<1>6. QED
  BY <1>1, <1>2, <1>4, <1>5

\* A command that is unset has the value 0.
LEMMA ZeroHolds ==
  ASSUME NEW f \in Fields
  PROVE  Suitable(f, 0) /\ Fits(Layout(f), 0) /\ BankHolds(f, 0) = 0
<1>1. Suitable(f, 0)
  BY ZeroSuitable
<1>2. PICK s : s = Layout(f)
  OBVIOUS
<1>3. /\ s.multibit \in BOOLEAN /\ s.fixed \in BOOLEAN /\ s.extended \in BOOLEAN
      /\ s.width \in Nat \ {0} /\ s.width <= W /\ (s.fixed => s.pos \in 0 .. Scale)
  BY <1>2, LayoutFacts
<1>4. CASE ~ s.multibit
  <2>1. BankHolds(f, 0) = 0
    BY <1>2, <1>4, Zenon DEF BankHolds
  <2>2. QED
    BY <1>1, <1>2, <1>4, <2>1 DEF Fits
<1>5. CASE s.multibit
  <2>1. PICK n \in Int :
          /\ n = Raw(s, 0)
          /\ s.fixed => Nearest(s, 0) = n * Unit(s) /\ BankHolds(f, 0) = HeldRaw(s, n) * Unit(s)
          /\ ~ s.fixed => BankHolds(f, 0) = 0
          /\ n = 0
    BY <1>1, <1>2, <1>5, RawIs
  <2>2. BankHolds(f, 0) = 0
    <3>1. CASE s.fixed
      <4>1. Scale - s.pos \in Nat
        BY <1>3, <3>1, CodecAssumption
      <4>2. PICK U \in Nat : U = Unit(s)
        BY <4>1, PowType DEF Unit
      <4>3. HeldRaw(s, n) = 0
        BY <2>1 DEF HeldRaw
      <4>4. QED
        BY <2>1, <3>1, <4>2, <4>3
    <3>2. QED
      BY <1>3, <2>1, <3>1
  <2>3. PICK T \in Nat \ {0} : T = 2^(s.width - 1)
    BY <1>3, Halves
  <2>4. BankAccepts(f, 0)
    <3>1. (IF s.fixed THEN Nearest(s, 0) \div Unit(s) ELSE 0) = 0
      <4>1. CASE s.fixed
        <5>1. Scale - s.pos \in Nat
          BY <1>3, <4>1, CodecAssumption
        <5>2. PICK U \in Nat \ {0} : U = Unit(s)
          BY <5>1, PowType DEF Unit
        <5>3. 0 \in 0 .. U-1 /\ 0 = 0 + U*0
          OBVIOUS
        <5>4. 0 \div U = 0
          BY <5>3, QuotientIs
        <5>5. Nearest(s, 0) = 0
          BY <2>1, <4>1, <5>2
        <5>6. QED
          BY <4>1, <5>2, <5>4, <5>5
      <4>2. QED
        BY <1>3, <4>1
    <3>2. (-T <= 0 /\ 0 < T) = TRUE /\ (0 <= 0 /\ 0 < 2 * T) = TRUE
      OBVIOUS
    <3>3. CASE IsSigned(s) \/ FullWidth(s)
      BY <1>2, <1>5, <2>3, <3>1, <3>2, <3>3, Zenon DEF BankAccepts
    <3>4. CASE ~ (IsSigned(s) \/ FullWidth(s))
      BY <1>2, <1>5, <2>3, <3>1, <3>2, <3>4, Zenon DEF BankAccepts
    <3>5. QED
      BY <3>3, <3>4
  <2>5. QED
    BY <1>1, <2>2, <2>4, FitsAccepts
<1>6. QED
  BY <1>3, <1>4, <1>5

LEMMA NothingSet ==
  ASSUME NEW f \in Fields, NEW words, words[Layout(f).reg] = 0
  PROVE  Value(f, words) = 0
<1>1. PICK s : s = Layout(f)
  OBVIOUS
<1>2. /\ s.multibit \in BOOLEAN /\ s.fixed \in BOOLEAN /\ s.extended \in BOOLEAN
      /\ s.low \in Nat /\ s.width \in Nat \ {0} /\ s.width \in Nat /\ s.width <= W
      /\ (s.fixed => s.pos \in 0 .. Scale)
  BY <1>1, LayoutFacts
<1>3. Bits(0, s.low, s.width) = 0
  <2>1. PICK C \in Nat \ {0} : C = 2^s.low
    BY <1>2, PowType
  <2>2. PICK D \in Nat \ {0} : D = 2^s.width
    BY <1>2, PowType
  <2>3. 0 \in 0 .. C-1 /\ 0 = 0 + C*0 /\ 0 \in 0 .. D-1 /\ 0 = 0 + D*0
    OBVIOUS
  <2>4. 0 \div C = 0 /\ 0 % D = 0
    BY <2>3, QuotientIs
  <2>5. QED
    BY <2>1, <2>2, <2>4 DEF Bits
<1>4. PICK T \in Nat \ {0}, H \in Nat \ {0} : T = 2^(s.width - 1) /\ IntMax = H - 1
  BY <1>2, Halves
<1>5. Plain(s, 0) = 0
  BY <1>2, <1>4 DEF Plain, SignExtend, ToInt
<1>6. Meaning(s, 0) = 0
  <2>1. CASE s.fixed
    <3>1. Scale - s.pos \in Nat
      BY <1>2, <2>1, CodecAssumption
    <3>2. PICK U \in Nat : U = 2^(Scale - s.pos)
      BY <3>1, PowType
    <3>3. QED
      BY <1>5, <2>1, <3>2 DEF Meaning, FixedToFloat
  <2>2. QED
    BY <1>2, <1>5, <2>1 DEF Meaning
<1>7. QED
  BY <1>1, <1>3, <1>6, ValueOfBits

LEMMA ValueType ==
  ASSUME NEW f \in Fields, NEW words \in [Registers -> Words]
  PROVE  Value(f, words) \in Int
<1>1. PICK s : s = Layout(f)
  OBVIOUS
<1>2. /\ s.reg \in Registers
      /\ s.multibit \in BOOLEAN /\ s.fixed \in BOOLEAN /\ s.extended \in BOOLEAN
      /\ s.low \in Nat /\ s.width \in Nat \ {0} /\ s.width \in Nat /\ s.width <= W
      /\ (s.fixed => s.pos \in 0 .. Scale)
  BY <1>1, LayoutFacts
<1>3. PICK b \in Nat : b = Bits(words[s.reg], s.low, s.width)
  <2>1. PICK N \in Nat \ {0} : N = 2^W
    BY CodecAssumption, PowType
  <2>2. PICK word \in Nat : word = words[s.reg]
    BY <1>2, <2>1 DEF Words
  <2>3. PICK P \in Nat \ {0} : P = 2^s.width
    BY <1>2, PowType
  <2>4. Bits(word, s.low, s.width) \in 0 .. P-1
    BY <1>2, <2>3, BitsType
  <2>5. QED
    BY <2>2, <2>4
<1>4. PICK T \in Nat \ {0}, H \in Nat \ {0} :
        T = 2^(s.width - 1) /\ 2^s.width = 2*T /\ 2^W = 2*H /\ IntMax = H - 1
  BY <1>2, Halves
<1>5. Plain(s, b) \in Int
  BY <1>2, <1>4 DEF Plain, SignExtend, ToInt
<1>6. Meaning(s, b) \in Int
  <2>1. CASE s.fixed
    <3>1. Scale - s.pos \in Nat
      BY <1>2, <2>1, CodecAssumption
    <3>2. PICK U \in Nat : U = 2^(Scale - s.pos)
      BY <3>1, PowType
    <3>3. PICK p \in Int : p = Plain(s, b)
      BY <1>5
    <3>4. Meaning(s, b) = p * U
      BY <2>1, <3>2, <3>3 DEF Meaning, FixedToFloat
    <3>5. QED
      BY <3>4
  <2>2. QED
    BY <1>2, <1>5, <2>1 DEF Meaning
<1>7. QED
  BY <1>1, <1>3, <1>6, ValueOfBits

-----------------------------------------------------------------------------
(* Commands that are unset.                                                *)
-----------------------------------------------------------------------------
One(T) == CHOOSE f \in T : TRUE
UnsetOf(words, rest, T) == IF T = {} THEN words ELSE UnsetOne(rest[T \ {One(T)}], One(T))
IsUnset(words, rest) == rest = [T \in SUBSET Commands |-> UnsetOf(words, rest, T)]

LEMMA UnsetIs ==
  ASSUME NEW words
  PROVE  FoldSet(LAMBDA f, w : UnsetOne(w, f), words, Commands) =
           (CHOOSE rest : IsUnset(words, rest))[Commands]
BY DEF FoldSet, MapThenFoldSet, IsUnset, UnsetOf, One

Upto(n) == {T \in SUBSET Commands : Cardinality(T) <= n}

LEMMA CommandSets ==
  /\ Commands \subseteq Fields
  /\ \A T \in SUBSET Commands : IsFiniteSet(T) /\ Cardinality(T) \in Nat
  /\ \A T \in Upto(0) : T = {}
  /\ \A n \in Nat : \A T \in Upto(n+1) :
       T # {} => One(T) \in T /\ T \ {One(T)} \in Upto(n) /\ T \ {One(T)} \in Upto(n+1)
  /\ \E n \in Nat : Upto(n) = SUBSET Commands
<1>1. Commands \subseteq Fields /\ IsFiniteSet(Commands)
  BY FieldsAssumption
<1>2. \A T \in SUBSET Commands :
        IsFiniteSet(T) /\ Cardinality(T) \in Nat /\ Cardinality(T) <= Cardinality(Commands)
  BY <1>1, FS_Subset, FS_CardinalityType
<1>3. ASSUME NEW T \in Upto(0) PROVE T = {}
  <2>1. T \in SUBSET Commands /\ Cardinality(T) <= 0
    BY DEF Upto
  <2>2. IsFiniteSet(T) /\ Cardinality(T) = 0
    BY <1>2, <2>1
  <2>3. QED
    BY <2>2, FS_EmptySet
<1>4. ASSUME NEW n \in Nat, NEW T \in Upto(n+1), T # {}
      PROVE  One(T) \in T /\ T \ {One(T)} \in Upto(n) /\ T \ {One(T)} \in Upto(n+1)
  <2>1. T \in SUBSET Commands /\ Cardinality(T) <= n+1
    BY DEF Upto
  <2>2. PICK x \in T : x = One(T)
    BY <1>4, Zenon DEF One
  <2>3. Cardinality(T \ {x}) = Cardinality(T) - 1
    BY <1>2, <2>1, FS_RemoveElement
  <2>4. T \ {x} \in SUBSET Commands /\ Cardinality(T \ {x}) <= n /\ Cardinality(T \ {x}) <= n+1
    BY <1>2, <2>1, <2>3
  <2>5. QED
    BY <2>2, <2>4 DEF Upto
<1>5. \E n \in Nat : Upto(n) = SUBSET Commands
  <2>1. PICK n \in Nat : n = Cardinality(Commands)
    BY <1>1, FS_CardinalityType
  <2>2. Upto(n) = SUBSET Commands
    BY <1>2, <2>1 DEF Upto
  <2>3. QED
    BY <2>2
<1>6. QED
  BY <1>1, <1>2, <1>3, <1>4, <1>5

\* The function that the fold is of exists, and so is the one that it chooses.
LEMMA UnsetExists ==
  ASSUME NEW words
  PROVE  \E rest : IsUnset(words, rest)
<1> DEFINE S == {n \in Nat : \E rest : rest = [T \in Upto(n) |-> UnsetOf(words, rest, T)]}
<1>1. 0 \in S
  <2>1. PICK rest : rest = [T \in Upto(0) |-> words]
    OBVIOUS
  <2>2. \A T \in Upto(0) : UnsetOf(words, rest, T) = words
    BY CommandSets DEF UnsetOf
  <2>3. rest = [T \in Upto(0) |-> UnsetOf(words, rest, T)]
    BY <2>1, <2>2
  <2>4. QED
    BY <2>3
<1>2. ASSUME NEW n \in Nat, n \in S PROVE n + 1 \in S
  <2>1. PICK rest : rest = [T \in Upto(n) |-> UnsetOf(words, rest, T)]
    BY <1>2
  <2>2. PICK new : new = [T \in Upto(n+1) |-> UnsetOf(words, rest, T)]
    OBVIOUS
  <2>3. ASSUME NEW T \in Upto(n+1) PROVE UnsetOf(words, new, T) = UnsetOf(words, rest, T)
    <3>1. CASE T = {}
      BY <3>1 DEF UnsetOf
    <3>2. CASE T # {}
      <4>1. PICK less : less = T \ {One(T)} /\ less \in Upto(n) /\ less \in Upto(n+1)
        BY <3>2, CommandSets
      <4>2. new[less] = UnsetOf(words, rest, less) /\ rest[less] = UnsetOf(words, rest, less)
        <5>1. new[less] = UnsetOf(words, rest, less)
          BY <2>2, <4>1
        <5>2. rest[less] = [U \in Upto(n) |-> UnsetOf(words, rest, U)][less]
          BY <2>1, Zenon
        <5>3. QED
          BY <4>1, <5>1, <5>2
      <4>3. new[T \ {One(T)}] = rest[T \ {One(T)}]
        BY <4>1, <4>2
      <4>4. QED
        BY <3>2, <4>3, Zenon DEF UnsetOf
    <3>3. QED
      BY <3>1, <3>2
  <2>4. new = [T \in Upto(n+1) |-> UnsetOf(words, new, T)]
    BY <2>2, <2>3
  <2>5. QED
    BY <2>4
<1> HIDE DEF S
<1>3. Nat \subseteq S
  BY <1>1, <1>2, SetInduction
<1>4. PICK n \in Nat : Upto(n) = SUBSET Commands
  BY CommandSets
<1>5. \E rest : rest = [T \in Upto(n) |-> UnsetOf(words, rest, T)]
  BY <1>3 DEF S
<1>6. QED
  BY <1>4, <1>5, Zenon DEF IsUnset

\* Each command of a set is unset once the fold has been over it, and nothing else is.
UnsetRight(words, new, T) ==
  /\ new \in [Registers -> Words]
  /\ \A f \in Fields : Value(f, new) = IF f \in T THEN 0 ELSE Value(f, words)

LEMMA UnsetHolds ==
  ASSUME NEW words \in [Registers -> Words], NEW rest, IsUnset(words, rest)
  PROVE  UnsetRight(words, rest[Commands], Commands)
<1> DEFINE S == {n \in Nat : \A T \in Upto(n) : UnsetRight(words, rest[T], T)}
<1>1. \A T \in SUBSET Commands : rest[T] = UnsetOf(words, rest, T)
  <2>1. ASSUME NEW T \in SUBSET Commands PROVE rest[T] = UnsetOf(words, rest, T)
    <3>1. rest[T] = [U \in SUBSET Commands |-> UnsetOf(words, rest, U)][T]
      BY Zenon DEF IsUnset
    <3>2. QED
      BY <3>1
  <2>2. QED
    BY <2>1
<1>2. UnsetRight(words, rest[{}], {})
  <2>1. rest[{}] = words
    BY <1>1 DEF UnsetOf
  <2>2. QED
    BY <2>1 DEF UnsetRight
<1>3. 0 \in S
  BY <1>2, CommandSets
<1>4. ASSUME NEW n \in Nat, n \in S PROVE n + 1 \in S
  <2>1. ASSUME NEW T \in Upto(n+1) PROVE UnsetRight(words, rest[T], T)
    <3>1. CASE T = {}
      BY <1>2, <3>1
    <3>2. CASE T # {}
      <4>1. PICK x \in T : x = One(T) /\ T \ {x} \in Upto(n)
        BY <3>2, CommandSets
      <4>2. T \in SUBSET Commands /\ x \in Fields
        BY CommandSets DEF Upto
      <4>3. PICK old : old = rest[T \ {x}]
        OBVIOUS
      <4>4. UnsetRight(words, old, T \ {x})
        BY <1>4, <4>1, <4>3
      <4>5. rest[T] = Written(old, Layout(x), 0)
        <5>1. rest[T] = UnsetOf(words, rest, T)
          BY <1>1, <4>2
        <5>2. UnsetOf(words, rest, T) = UnsetOne(old, x)
          BY <3>2, <4>1, <4>3, Zenon DEF UnsetOf
        <5>3. QED
          BY <5>1, <5>2 DEF UnsetOne
      <4>6. /\ rest[T] \in [Registers -> Words]
            /\ Value(x, rest[T]) = 0
            /\ \A g \in Fields : g # x => Value(g, rest[T]) = Value(g, old)
        <5>1. old \in [Registers -> Words]
          BY <4>4 DEF UnsetRight
        <5>2. Suitable(x, 0) /\ Fits(Layout(x), 0) /\ BankHolds(x, 0) = 0
          BY <4>2, ZeroHolds
        <5>3. QED
          BY <4>2, <4>5, <5>1, <5>2, WriteHolds
      <4>7. ASSUME NEW f \in Fields
            PROVE  Value(f, rest[T]) = IF f \in T THEN 0 ELSE Value(f, words)
        BY <4>1, <4>4, <4>6 DEF UnsetRight
      <4>8. QED
        BY <4>6, <4>7 DEF UnsetRight
    <3>3. QED
      BY <3>1, <3>2
  <2>2. QED
    BY <2>1
<1> HIDE DEF S
<1>5. Nat \subseteq S
  BY <1>3, <1>4, SetInduction
<1>6. PICK n \in Nat : Upto(n) = SUBSET Commands
  BY CommandSets
<1>7. Commands \in Upto(n)
  BY <1>6
<1>8. QED
  BY <1>5, <1>7 DEF S

\* unset_commands clears the commands, the registers that it sets to 0 whole included,
\* and no other field.
LEMMA UnsetClears ==
  ASSUME NEW words \in [Registers -> Words]
  PROVE  UnsetRight(words, Unset(words), Commands)
<1>1. PICK rest : IsUnset(words, rest) /\ rest = CHOOSE r : IsUnset(words, r)
  BY UnsetExists, Zenon
<1>2. PICK unset : unset = rest[Commands]
  OBVIOUS
<1>3. UnsetRight(words, unset, Commands)
  BY <1>1, <1>2, UnsetHolds
<1>4. PICK new : new = [r \in Registers |-> IF r \in ClearedRegs THEN 0 ELSE unset[r]]
  OBVIOUS
<1>5. Unset(words) = new
  <2>1. FoldSet(LAMBDA f, w : UnsetOne(w, f), words, Commands) = unset
    BY <1>1, <1>2, UnsetIs, Zenon
  <2>2. QED
    BY <1>4, <2>1, Zenon DEF Unset
<1>6. new \in [Registers -> Words]
  <2>1. 0 \in Words
    <3>1. PICK N \in Nat \ {0} : N = 2^W
      BY CodecAssumption, PowType
    <3>2. QED
      BY <3>1 DEF Words
  <2>2. unset \in [Registers -> Words]
    BY <1>3 DEF UnsetRight
  <2>3. QED
    BY <1>4, <2>1, <2>2
<1>7. ASSUME NEW f \in Fields
      PROVE  Value(f, new) = IF f \in Commands THEN 0 ELSE Value(f, words)
  <2>1. Layout(f).reg \in Registers
    BY LayoutFacts
  <2>2. CASE Layout(f).reg \in ClearedRegs
    <3>1. new[Layout(f).reg] = 0
      BY <1>4, <2>1, <2>2
    <3>2. f \in Commands
      BY <2>2, FieldsAssumption
    <3>3. QED
      BY <3>1, <3>2, NothingSet
  <2>3. CASE Layout(f).reg \notin ClearedRegs
    <3>1. new[Layout(f).reg] = unset[Layout(f).reg]
      BY <1>4, <2>1, <2>3
    <3>2. Value(f, new) = Value(f, unset)
      BY <3>1, ValueOfBits
    <3>3. QED
      BY <1>3, <3>2 DEF UnsetRight
  <2>4. QED
    BY <2>2, <2>3
<1>8. QED
  BY <1>5, <1>6, <1>7 DEF UnsetRight

-----------------------------------------------------------------------------
(* Theorems.                                                               *)
-----------------------------------------------------------------------------
\* A write of a field throws exactly when the field cannot hold the number, or when
\* nothing has been decoded (clear_and_insert, write_internal), whatever the register.
THEOREM RefusedRight == Spec => RefusalsRight
<1>1. ASSUME [Next]_vars
      PROVE  [\A f \in Fields : \A v \in Inputs(f) :
                WriteField(f, v) => (refused' <=> ~ (known /\ BankAccepts(f, v)))]_vars
  <2>1. ASSUME NEW f \in Fields, NEW v \in Inputs(f), WriteField(f, v)
        PROVE  refused' <=> ~ (known /\ BankAccepts(f, v))
    <3>1. Fits(Layout(f), v) <=> BankAccepts(f, v)
      BY InputsSuitable, FitsAccepts
    <3>2. CASE known /\ Fits(Layout(f), v)
      BY <2>1, <3>1, <3>2 DEF WriteField
    <3>3. CASE ~ (known /\ Fits(Layout(f), v))
      BY <2>1, <3>1, <3>3 DEF WriteField
    <3>4. QED
      BY <3>2, <3>3
  <2>2. QED
    BY <2>1
<1>2. QED
  BY <1>1, PTL DEF Spec, RefusalsRight

\* Both copies of the registers are words, whatever is written to them.
WordsOK == hw \in [Registers -> Words] /\ shadow \in [Registers -> Words]

LEMMA NothingWritten == [r \in Registers |-> 0] \in [Registers -> Words]
<1>1. PICK N \in Nat \ {0} : N = 2^W
  BY CodecAssumption, PowType
<1>2. 0 \in Words
  BY <1>1 DEF Words
<1>3. QED
  BY <1>2

LEMMA WordsAlways == Spec => []WordsOK
<1>1. Init => WordsOK
  BY NothingWritten, FieldsAssumption DEF Init, WordsOK
<1>2. WordsOK /\ [Next]_vars => WordsOK'
  <2> SUFFICES ASSUME WordsOK, [Next]_vars PROVE WordsOK'
    OBVIOUS
  <2>1. CASE SetDevinfo
    BY <2>1 DEF SetDevinfo, WordsOK
  <2>2. CASE WriteParams
    <3>1. PICK old : old = shadow /\ old \in [Registers -> Words]
      BY DEF WordsOK
    <3>2. Unset(old) \in [Registers -> Words]
      BY <3>1, UnsetClears DEF UnsetRight
    <3>3. QED
      BY <2>2, <3>1, <3>2 DEF WriteParams, WordsOK
  <2>3. ASSUME NEW f \in Fields, NEW v \in Inputs(f), WriteField(f, v) PROVE WordsOK'
    <3>1. PICK old : old = shadow /\ old \in [Registers -> Words]
      BY DEF WordsOK
    <3>2. Written(old, Layout(f), v) \in [Registers -> Words]
      BY <3>1, InputsSuitable, WrittenIs
    <3>3. QED
      BY <2>3, <3>1, <3>2 DEF WriteField, WordsOK
  <2>4. CASE UNCHANGED vars
    BY <2>4 DEF vars, WordsOK
  <2>5. QED
    BY <2>1, <2>2, <2>3, <2>4 DEF Next
<1>3. QED
  BY <1>1, <1>2, PTL DEF Spec

\* The values of the fields in a copy of the registers.
Values(words) == [f \in Fields |-> Value(f, words)]

LEMMA BankCommits ==
  ASSUME NEW words \in [Registers -> Words]
  PROVE  Values(Unset(words)) = [f \in Fields |-> IF f \in Commands THEN 0 ELSE Values(words)[f]]
<1>1. \A f \in Fields : Value(f, Unset(words)) = IF f \in Commands THEN 0 ELSE Value(f, words)
  BY UnsetClears DEF UnsetRight
<1>2. QED
  BY <1>1 DEF Values

LEMMA BankWrites ==
  ASSUME NEW words \in [Registers -> Words], NEW f \in Fields, NEW v, Suitable(f, v),
         Fits(Layout(f), v)
  PROVE  Values(Written(words, Layout(f), v)) = [Values(words) EXCEPT ![f] = BankHolds(f, v)]
<1>1. PICK new : new = Written(words, Layout(f), v)
  OBVIOUS
<1>2. Value(f, new) = BankHolds(f, v) /\ \A g \in Fields : g # f => Value(g, new) = Value(g, words)
  BY <1>1, WriteHolds
<1>3. QED
  BY <1>1, <1>2 DEF Values

\* The controller implements the bank of fields: every step of it writes one named value,
\* or commits all of them, or is invisible there (controllers.h, decoders.cc).
THEOREM ImplementsBank == Spec => BankSpec
<1>1. Init => Bank!Init
  <2> SUFFICES ASSUME Init PROVE Bank!Init
    OBVIOUS
  <2>1. \A f \in Fields : Value(f, shadow) = 0
    <3>1. ASSUME NEW f \in Fields PROVE Value(f, shadow) = 0
      <4>1. shadow[Layout(f).reg] = 0
        BY LayoutFacts DEF Init
      <4>2. PICK w : w = shadow
        OBVIOUS
      <4>3. QED
        BY <4>1, <4>2, NothingSet
    <3>2. QED
      BY <3>1
  <2>2. \A f \in Fields : Value(f, hw) \in Int
    <3>1. PICK w : w = hw /\ w \in [Registers -> Words]
      BY FieldsAssumption DEF Init
    <3>2. QED
      BY <3>1, ValueType
  <2>3. QED
    BY <2>1, <2>2 DEF Bank!Init
<1>2. WordsOK /\ [Next]_vars => [Bank!Next]_<<Values(shadow), Values(hw)>>
  <2> SUFFICES ASSUME WordsOK, [Next]_vars
               PROVE  Bank!Next \/ UNCHANGED <<Values(shadow), Values(hw)>>
    OBVIOUS
  <2>1. PICK old, dev : old = shadow /\ dev = hw /\ old \in [Registers -> Words]
    BY DEF WordsOK
  <2>2. PICK new, got : new = shadow' /\ got = hw'
    OBVIOUS
  <2>3. CASE SetDevinfo \/ UNCHANGED vars
    BY <2>3 DEF SetDevinfo, vars, Values
  <2>4. CASE WriteParams
    <3>1. CASE known
      <4>1. Values(got) = Values(old)
        BY <2>1, <2>2, <2>4, <3>1 DEF WriteParams
      <4>2. Values(new) = [f \in Fields |-> IF f \in Commands THEN 0 ELSE Values(old)[f]]
        BY <2>1, <2>2, <2>4, <3>1, BankCommits DEF WriteParams
      <4>3. Bank!Commit
        BY <2>1, <2>2, <4>1, <4>2 DEF Bank!Commit, Values
      <4>4. QED
        BY <4>3 DEF Bank!Next
    <3>2. CASE ~ known
      BY <2>4, <3>2 DEF WriteParams, Values
    <3>3. QED
      BY <3>1, <3>2
  <2>5. ASSUME NEW f \in Fields, NEW v \in Inputs(f), WriteField(f, v)
        PROVE  Bank!Next \/ UNCHANGED <<Values(shadow), Values(hw)>>
    <3>1. Suitable(f, v) /\ (Fits(Layout(f), v) <=> BankAccepts(f, v))
      BY InputsSuitable, FitsAccepts
    <3>2. CASE known /\ Fits(Layout(f), v)
      <4>1. new = Written(old, Layout(f), v) /\ got = dev
        BY <2>1, <2>2, <2>5, <3>2 DEF WriteField
      <4>2. Values(new) = [Values(old) EXCEPT ![f] = BankHolds(f, v)]
        BY <2>1, <3>1, <3>2, <4>1, BankWrites
      <4>3. Bank!Write(f, v)
        BY <2>1, <2>2, <3>1, <3>2, <4>1, <4>2 DEF Bank!Write, Values
      <4>4. QED
        BY <4>3 DEF Bank!Next
    <3>3. CASE ~ (known /\ Fits(Layout(f), v))
      BY <2>5, <3>3 DEF WriteField, Values
    <3>4. QED
      BY <3>2, <3>3
  <2>6. QED
    BY <2>3, <2>4, <2>5 DEF Next
<1>3. WordsOK /\ [Next]_vars =>
        [Bank!Next]_<<[f \in Fields |-> Value(f, shadow)], [f \in Fields |-> Value(f, hw)]>>
  BY <1>2 DEF Values
<1>4. QED
  BY <1>1, <1>3, WordsAlways, PTL DEF Spec, BankSpec, Bank!Spec

-----------------------------------------------------------------------------
(* Where the cores have their fields: from the masks, for arrays of any    *)
(* elements.                                                               *)

\* A field that is in one word, of the bytes from .. to - 1 of the core.
Placed(f, from, to) ==
  /\ {"ch", "at", "low", "width"} \subseteq DOMAIN f
  /\ f.at \in Nat /\ f.low \in Nat /\ f.width \in Nat /\ f.low + f.width <= 32
  /\ from <= f.at /\ f.at < to

Clear(f, g) ==
  f.at # g.at \/ f.low + f.width <= g.low \/ g.low + g.width <= f.low

\* Fields that a client sets and values that the core reports, in a part of the core.
LaidOut(fields, status, from, to) ==
  /\ \A f \in fields \cup status : Placed(f, from, to)
  /\ \A f, g \in fields : f = g \/ Clear(f, g)
  /\ \A f, g \in status : f = g \/ Clear(f, g)
  /\ \A f \in fields, g \in status : Clear(f, g)

\* Two parts of a core, one after the other, are a part.
LEMMA Joined ==
  ASSUME NEW F, NEW S, NEW G, NEW T,
         NEW a \in Int, NEW b \in Int, NEW c \in Int, NEW d \in Int, a <= c, b <= c, b <= d,
         LaidOut(F, S, a, b), LaidOut(G, T, c, d)
  PROVE  LaidOut(F \cup G, S \cup T, a, d)
<1>1. \A f \in F \cup S : Placed(f, a, d) /\ f.at \in Int /\ f.at < b
  BY DEF LaidOut, Placed
<1>2. \A f \in G \cup T : Placed(f, a, d) /\ f.at \in Int /\ c <= f.at
  BY DEF LaidOut, Placed
<1>3. \A f \in F \cup S, g \in G \cup T : Clear(f, g) /\ Clear(g, f)
  BY <1>1, <1>2 DEF Clear
<1>4. QED
  BY <1>1, <1>2, <1>3 DEF LaidOut

\* Where one of them has nothing but fields, or nothing but values that the core reports.
LEMMA JoinedFields ==
  ASSUME NEW F, NEW S, NEW G,
         NEW a \in Int, NEW b \in Int, NEW c \in Int, NEW d \in Int, a <= c, b <= c, b <= d
  PROVE  /\ LaidOut(F, S, a, b) /\ LaidOut(G, {}, c, d) => LaidOut(F \cup G, S, a, d)
         /\ LaidOut(F, {}, a, b) /\ LaidOut(G, S, c, d) => LaidOut(F \cup G, S, a, d)
<1> PICK empty : empty = {}
  OBVIOUS
<1>1. empty = {} /\ S \cup empty = S /\ empty \cup S = S
  OBVIOUS
<1>2. LaidOut(F, S, a, b) /\ LaidOut(G, empty, c, d) => LaidOut(F \cup G, S \cup empty, a, d)
  BY Joined
<1>3. LaidOut(F, empty, a, b) /\ LaidOut(G, S, c, d) => LaidOut(F \cup G, empty \cup S, a, d)
  BY Joined
<1>4. QED
  BY <1>1, <1>2, <1>3, Zenon

LEMMA JoinedStatus ==
  ASSUME NEW F, NEW S, NEW T,
         NEW a \in Int, NEW b \in Int, NEW c \in Int, NEW d \in Int, a <= c, b <= c, b <= d
  PROVE  /\ LaidOut(F, S, a, b) /\ LaidOut({}, T, c, d) => LaidOut(F, S \cup T, a, d)
         /\ LaidOut({}, S, a, b) /\ LaidOut(F, T, c, d) => LaidOut(F, S \cup T, a, d)
<1> PICK empty : empty = {}
  OBVIOUS
<1>1. empty = {} /\ F \cup empty = F /\ empty \cup F = F
  OBVIOUS
<1>2. LaidOut(F, S, a, b) /\ LaidOut(empty, T, c, d) => LaidOut(F \cup empty, S \cup T, a, d)
  BY Joined
<1>3. LaidOut(empty, S, a, b) /\ LaidOut(F, T, c, d) => LaidOut(empty \cup F, S \cup T, a, d)
  BY Joined
<1>4. QED
  BY <1>1, <1>2, <1>3, Zenon

\* What one channel has of a part of a core has, once for each channel, a part of it too,
\* if a channel takes no more than the stride.
LEMMA ArrayLaid ==
  ASSUME NEW F, NEW S, NEW n \in 1 .. LongestArray, NEW stride \in Nat,
         NEW from \in Int, NEW to \in Int, from <= to, to - from <= stride,
         LaidOut(F, S, from, to), NEW last \in Int, to + (n - 1) * stride <= last
  PROVE  LaidOut(Cores!Channels(F, n, stride), Cores!Channels(S, n, stride), from, last)
<1> DEFINE By(c) == c * stride
           Of(f, c) == Cores!OfChannel(f, c, stride)
<1>1. \A G : \A f \in Cores!Channels(G, n, stride) : \E g \in G, c \in 0 .. n - 1 : f = Of(g, c)
  <2>1. Elements(n) \subseteq 0 .. n - 1
    BY ElementsAssumption
  <2>2. QED
    BY <2>1 DEF Cores!Channels
<1>2. \A c \in 0 .. n - 1 : By(c) \in Int /\ 0 <= By(c) /\ to + By(c) <= last
  BY DEF LongestArray
<1>3. \A c, d \in 0 .. n - 1 : c < d => By(c) + stride <= By(d)
  BY DEF LongestArray
<1>4. ASSUME NEW f \in F \cup S, NEW c \in 0 .. n - 1
      PROVE  /\ Placed(Of(f, c), from, last)
             /\ Of(f, c).at = f.at + By(c) /\ Of(f, c).low = f.low /\ Of(f, c).width = f.width
  <2>1. PICK x \in Int : x = By(c) /\ 0 <= x /\ to + x <= last
    BY <1>2
  <2>2. PICK y \in Nat : y = f.at /\ from <= y /\ y < to
    BY DEF LaidOut, Placed
  <2>3. /\ Of(f, c).at = y + x /\ Of(f, c).low = f.low /\ Of(f, c).width = f.width
        /\ DOMAIN Of(f, c) = DOMAIN f
    BY <2>1, <2>2 DEF LaidOut, Placed, Cores!OfChannel
  <2>4. y + x \in Nat /\ from <= y + x /\ y + x < last
    BY <2>1, <2>2
  <2>5. QED
    BY <2>1, <2>2, <2>3, <2>4 DEF LaidOut, Placed
<1>5. ASSUME NEW f \in F \cup S, NEW g \in F \cup S,
             NEW c \in 0 .. n - 1, NEW d \in 0 .. n - 1, c # d \/ Clear(f, g)
      PROVE  Clear(Of(f, c), Of(g, d))
  <2>1. PICK x \in Int, y \in Int : /\ x = By(c) /\ y = By(d)
                                  /\ \/ c = d /\ x = y
                                     \/ x + stride <= y
                                     \/ y + stride <= x
    BY <1>2, <1>3
  <2>2. /\ f.at \in Int /\ from <= f.at /\ f.at < to
        /\ g.at \in Int /\ from <= g.at /\ g.at < to
    BY DEF LaidOut, Placed
  <2>3. /\ Of(f, c).at = f.at + x /\ Of(f, c).low = f.low /\ Of(f, c).width = f.width
        /\ Of(g, d).at = g.at + y /\ Of(g, d).low = g.low /\ Of(g, d).width = g.width
    BY <1>4, <2>1
  <2>4. QED
    BY <1>5, <2>1, <2>2, <2>3 DEF Clear
<1> HIDE DEF By
<1>6. QED
  BY <1>1, <1>4, <1>5 DEF LaidOut

LEMMA Lengths == {2, 3, 4, 8, 12, 18, 24, 256} \subseteq 1 .. LongestArray
BY DEF LongestArray

LEMMA ChannelsSplit ==
  ASSUME NEW F, NEW G, NEW n, NEW stride
  PROVE  Cores!Channels(F \cup G, n, stride)
           = Cores!Channels(F, n, stride) \cup Cores!Channels(G, n, stride)
BY DEF Cores!Channels

LEMMA NoChannels == \A n, stride : Cores!Channels({}, n, stride) = {}
BY DEF Cores!Channels

\* A field is where its mask is.
Has(f, mask) ==
  /\ f.at = mask.at /\ f.low = mask.low /\ f.width = mask.width
  /\ {"ch", "at", "low", "width"} \subseteq DOMAIN f

LEMMA HasMask ==
  \A name, mask : /\ Has(Cores!Field(name, mask), mask)
                  /\ Has(Cores!Command(Cores!Field(name, mask)), mask)
                  /\ \A v : Has(Cores!Since(v, Cores!Field(name, mask)), mask)
                  /\ \A v : Has([Cores!Field(name, mask) EXCEPT !.command = v], mask)
                  /\ \A v : Has([Cores!Field(name, mask) EXCEPT !.ch = v], mask)
<1>1. \A name, mask : Has(Cores!Field(name, mask), mask)
  BY DEF Has, Cores!Field
<1>2. \A name, mask, v : Has([Cores!Field(name, mask) EXCEPT !.command = v], mask)
  BY DEF Has, Cores!Field
<1>3. \A name, mask : Has(Cores!Command(Cores!Field(name, mask)), mask)
  BY DEF Has, Cores!Field, Cores!Command
<1>4. \A name, mask, v : Has(Cores!Since(v, Cores!Field(name, mask)), mask)
  BY DEF Has, Cores!Field, Cores!Since
<1>5. \A name, mask, v : Has([Cores!Field(name, mask) EXCEPT !.ch = v], mask)
  BY DEF Has, Cores!Field
<1>6. QED
  BY <1>1, <1>2, <1>3, <1>4, <1>5

\* Fields that are decoded under some of the names of the masks.
LEMMA SomeNames ==
  ASSUME NEW masks, NEW N
  PROVE  /\ {f \in Cores!SameNames(masks) : f.name \in N}
              = {Cores!Field(n, masks[n]) : n \in DOMAIN masks \cap N}
         /\ {f \in Cores!SameNames(masks) : f.name \notin N}
              = {Cores!Field(n, masks[n]) : n \in DOMAIN masks \ N}
<1>1. \A n : Cores!Field(n, masks[n]).name = n
  BY DEF Cores!Field
<1>2. QED
  BY <1>1 DEF Cores!SameNames

-----------------------------------------------------------------------------
(* Cores with single fields, or one array.                                 *)

LEMMA AdcCommonLaid ==
  LaidOut(Cores!AdcCommon, Cores!SameNames(Cores!FMC_ADC_STATUS), 0, 12)
BY HasMask
  DEF Cores!AdcCommon, Cores!SameNames, Cores!FMC_ADC_COMMON, Cores!FMC_ADC_STATUS, Cores!Mask,
      Cores!BitAt, Cores!Register, Has, LaidOut, Clear, Placed

LEMMA ActiveClkLaid ==
  LaidOut(Cores!ActiveClk, Cores!SameNames(Cores!FMC_ACTIVE_CLK_STA), 0, 4)
BY HasMask
  DEF Cores!ActiveClk, Cores!SameNames, Cores!FMC_ACTIVE_CLK, Cores!FMC_ACTIVE_CLK_STA,
      Cores!Mask, Cores!BitAt, Cores!Register, Has, LaidOut, Clear, Placed

LEMMA Adc250mLaid == LaidOut(Cores!Adc250m, {}, 0, 8)
BY HasMask
  DEF Cores!Adc250m, Cores!SameNames, Cores!FMC_250M_ADC_CTL, Cores!Mask, Cores!BitAt,
      Cores!Register, Has, LaidOut, Clear, Placed

LEMMA Si57xLaid == LaidOut(Cores!Si57x, Cores!SameNames(Cores!SI57X_STA), 0, 24)
BY HasMask
  DEF Cores!Si57x, Cores!SameNames, Cores!SI57X_CTRL, Cores!SI57X_STA, Cores!Mask, Cores!BitAt,
      Cores!Register, Has, LaidOut, Clear, Placed

LEMMA BpmSwapLaid == LaidOut(Cores!BpmSwap, {}, 0, 8)
BY HasMask
  DEF Cores!BpmSwap, Cores!BPM_SWAP, Cores!Mask, Cores!BitAt, Cores!Register, Has, LaidOut,
      Clear, Placed

LEMMA TriggerMuxLaid == LaidOut(Cores!TriggerMux, {}, 0, 192)
<1>1. LaidOut(Cores!SameNames(Cores!TRIG_MUX_CH0), {}, 0, 4)
  BY HasMask
    DEF Cores!SameNames, Cores!TRIG_MUX_CH0, Cores!Mask, Cores!BitAt, Cores!Register, Has,
        LaidOut, Clear, Placed
<1>2. QED
  BY <1>1, ArrayLaid, NoChannels, Lengths DEF Cores!TriggerMux

LEMMA TriggerIfaceLaid == LaidOut(Cores!TriggerIface, Cores!TriggerIfaceStatus, 0, 288)
<1> DEFINE fields == {[f EXCEPT !.command = f.name \in {"RCV_COUNT_RST", "TRANSM_COUNT_RST"}] :
                        f \in Cores!SameNames(Cores!TRIG_IFACE_CH0)}
           status == Cores!SameNames(Cores!TRIG_IFACE_COUNT)
<1>1. LaidOut(fields, status, 0, 12)
  BY HasMask
    DEF Cores!SameNames, Cores!TRIG_IFACE_CH0, Cores!TRIG_IFACE_COUNT, Cores!Mask, Cores!BitAt,
        Cores!Register, Has, LaidOut, Clear, Placed
<1>2. /\ Cores!TriggerIface = Cores!Channels(fields, 24, 12)
      /\ Cores!TriggerIfaceStatus = Cores!Channels(status, 24, 12)
  BY DEF Cores!TriggerIface, Cores!TriggerIfaceStatus
<1> HIDE DEF fields, status
<1>3. QED
  BY <1>1, <1>2, ArrayLaid, Lengths

LEMMA PicoLaid == LaidOut(Cores!Pico, {}, 8, 12) /\ LaidOut(Cores!Pico, Cores!PicoStatus, 0, 28)
<1> DEFINE present == {Cores!Field("PRSNT", Cores!FMCPICO1M.PRSNT)}
           first == {Cores!Field("DATA", Cores!FMCPICO1M.DATA0)}
           data == Cores!Channels(first, 4, 4)
<1>1. LaidOut({}, present, 0, 4)
  BY HasMask
    DEF Cores!FMCPICO1M, Cores!Mask, Cores!BitAt, Cores!Register, Has, LaidOut, Clear, Placed
<1>2. LaidOut(Cores!Pico, {}, 8, 12)
  BY HasMask
    DEF Cores!Pico, Cores!FMCPICO1M_RNG_CTL, Cores!Mask, Cores!BitAt, Cores!Register, Has,
        LaidOut, Clear, Placed
<1>3. LaidOut({}, first, 12, 16)
  BY HasMask
    DEF Cores!FMCPICO1M, Cores!Mask, Cores!BitAt, Cores!Register, Has, LaidOut, Clear, Placed
<1>4. Cores!PicoStatus = present \cup data
  BY DEF Cores!PicoStatus
<1> HIDE DEF present, first
<1>5. LaidOut({}, data, 12, 28)
  BY <1>3, ArrayLaid, NoChannels, Lengths
<1> HIDE DEF data
<1>6. LaidOut(Cores!Pico, present, 0, 12)
  BY <1>1, <1>2, JoinedStatus, JoinedFields
<1>7. LaidOut(Cores!Pico, present \cup data, 0, 28)
  BY <1>5, <1>6, JoinedStatus
<1>8. QED
  BY <1>2, <1>4, <1>7

-----------------------------------------------------------------------------
(* Cores with several parts.                                               *)

LEMMA LampLaid == LaidOut(Cores!Lamp, Cores!LampStatus, 0, 2048)
<1> DEFINE m == Cores!RTMLAMP_CH
           sta == Cores!SameNames(Cores!RTMLAMP_CH_STA)
           mode == {Cores!Field("AMP_EN", m.AMP_EN), Cores!Field("MODE", m.MODE),
                    Cores!Since(1, Cores!Field("TRIG_EN", m.TRIG_EN)),
                    Cores!Command(Cores!Field("RST_LATCH", m.RST_LATCH_STS)),
                    Cores!Field("PI_KP", m.PI_KP)}
           loop == {Cores!Field("PI_TI", m.PI_TI), Cores!Field("PI_SP", m.PI_SP),
                    Cores!Field("DAC", m.DAC), Cores!Field("LIMIT_A", m.LIM_A),
                    Cores!Field("LIMIT_B", m.LIM_B), Cores!Field("CNT", m.CNT),
                    Cores!Field("ADC_INST", m.ADC), Cores!Field("SP_EFF", m.SP)}
           eff == {Cores!Field("DAC_EFF", Cores!RTMLAMP_CH_EFF.DAC)}
           power == {Cores!Field("PS_STATUS", Cores!RTMLAMP_STA.PS_STATUS)}
           Array(S) == Cores!Channels(S, 12, 64)
           fields == Array(mode \cup loop)
           status == power \cup Array(sta \cup eff)
<1>1. LaidOut({}, power, 0, 4)
  BY HasMask
    DEF Cores!RTMLAMP_STA, Cores!Mask, Cores!BitAt, Cores!Register, Has, LaidOut, Clear, Placed
<1>2. LaidOut(mode, sta, 1024, 1036)
  BY HasMask
    DEF Cores!SameNames, Cores!RTMLAMP_CH, Cores!RTMLAMP_CH_STA, Cores!Mask, Cores!BitAt,
        Cores!Register, Has, LaidOut, Clear, Placed
<1>3. LaidOut(loop, eff, 1036, 1088)
  BY HasMask
    DEF Cores!RTMLAMP_CH, Cores!RTMLAMP_CH_EFF, Cores!Mask, Cores!BitAt, Cores!Register, Has,
        LaidOut, Clear, Placed
<1>4. fields = Cores!Lamp /\ status = Cores!LampStatus
  <2>1. m.SIZE = 64
    BY DEF Cores!RTMLAMP_CH
  <2>2. QED
    BY <2>1 DEF Cores!Lamp, Cores!LampStatus
<1> HIDE DEF power, mode, loop, eff, sta
<1>5. LaidOut(mode \cup loop, sta \cup eff, 1024, 1088)
  BY <1>2, <1>3, Joined
<1>6. LaidOut(Array(mode \cup loop), Array(sta \cup eff), 1024, 2048)
  BY <1>5, ArrayLaid, Lengths
<1>7. LaidOut(fields, status, 0, 2048)
  BY <1>1, <1>6, JoinedStatus
<1> HIDE DEF fields, status
<1>8. QED
  BY <1>4, <1>7

LEMMA TimingLaid == LaidOut(Cores!Timing, Cores!TimingStatus, 0, 504)
<1> DEFINE m == Cores!TIMING_RTM
           t == Cores!TIMING_AMC0
           r == Cores!TIMING_REG
           d == Cores!TIMING_DBG
           sta == Cores!TIMING_STAT
           link == {Cores!Field("EVREN", sta.EVREN),
                    Cores!Command(Cores!Field("RST_LOCKED_LTCS", sta.RST_LOCKED_LTCS))}
           locks == Cores!SameNames(Cores!TIMING_LOCKS)
           alive == {Cores!Field("ALIVE", r.ALIVE)}
           dividers == {Cores!Field("RFREQ_HI", [r.RTM_RFREQ_HI EXCEPT !.width = 18]),
                        Cores!Field("RFREQ_LO", [r.RTM_RFREQ_LO EXCEPT !.width = 20]),
                        Cores!Field("N1", m.N1), Cores!Field("HS_DIV", m.HS_DIV)}
           loop == {Cores!Field("FREQ_KP", m.FREQ_KP), Cores!Field("FREQ_KI", m.FREQ_KI),
                    Cores!Field("PHASE_KP", m.PHASE_KP), Cores!Field("PHASE_KI", m.PHASE_KI),
                    Cores!Field("MAF_NAVG", m.MAF_NAVG),
                    Cores!Field("MAF_DIV_EXP", m.MAF_DIV_EXP)}
           enable == {Cores!Field("CH_EN", t.EN), Cores!Field("CH_POL", t.POL),
                      Cores!Field("CH_LOG", t.LOG), Cores!Field("CH_ITL", t.ITL),
                      Cores!Field("CH_SRC", t.SRC), Cores!Field("CH_DIR", t.DIR),
                      Cores!Command(Cores!Field("CH_COUNT_RST", t.COUNT_RST))}
           pulses == {Cores!Field("CH_PULSES", r.AMC0_PULSES),
                      Cores!Field("CH_EVT", r.AMC0_EVT), Cores!Field("CH_DLY", r.AMC0_DLY),
                      Cores!Field("CH_WDT", r.AMC0_WDT)}
           count == {Cores!Field("CH_COUNT", r.AMC0_COUNT)}
           debug == {Cores!Field("DBG_EN", d.EN),
                     Cores!Command(Cores!Field("DBG_COUNTER_RST", d.COUNTER_RST)),
                     Cores!Field("DBG_EVT_DS_START", d.EVT_DS_START),
                     Cores!Field("DBG_EVT_US", d.EVT_US),
                     Cores!Field("DBG_EVT_SPACING", d.EVT_SPACING),
                     Cores!Field("DBG_EVT_REPS", Cores!TIMING_REG_DBG.CFG_2)}
           counter == {Cores!Field("DBG_COUNTER", Cores!TIMING_REG_DBG.STA)}
           Clocks(S) == Cores!Channels(S, 2, 24)
           Triggers(S) == Cores!Channels(S, 18, 24)
           first == locks \cup alive
           clocks == Clocks(dividers \cup loop)
           triggers == Triggers(enable \cup pulses)
           counts == Triggers(count)
           fields == ((link \cup clocks) \cup triggers) \cup debug
           status == (first \cup counts) \cup counter
<1>1. LaidOut(link, first, 0, 8)
  <2>1. LaidOut(link, locks, 0, 4)
    BY HasMask
      DEF Cores!SameNames, Cores!TIMING_STAT, Cores!TIMING_LOCKS, Cores!Mask, Cores!BitAt,
          Cores!Register, Has, LaidOut, Clear, Placed
  <2>2. LaidOut({}, alive, 4, 8)
    BY HasMask
      DEF Cores!TIMING_REG, Cores!Mask, Cores!BitAt, Cores!Register, Has, LaidOut, Clear, Placed
  <2> HIDE DEF link, locks, alive
  <2>3. QED
    BY <2>1, <2>2, JoinedStatus
<1>2. LaidOut(dividers, {}, 8, 20)
  BY HasMask
    DEF Cores!TIMING_RTM, Cores!TIMING_REG, Cores!Mask, Cores!BitAt, Cores!Register, Has,
        LaidOut, Clear, Placed
<1>3. LaidOut(loop, {}, 20, 32)
  BY HasMask
    DEF Cores!TIMING_RTM, Cores!Mask, Cores!BitAt, Cores!Register, Has, LaidOut, Clear, Placed
<1>4. LaidOut(enable, {}, 56, 60)
  BY HasMask
    DEF Cores!TIMING_AMC0, Cores!Mask, Cores!BitAt, Cores!Register, Has, LaidOut, Clear, Placed
<1>5. LaidOut(pulses, count, 60, 80)
  BY HasMask
    DEF Cores!TIMING_REG, Cores!Mask, Cores!BitAt, Cores!Register, Has, LaidOut, Clear, Placed
<1>6. LaidOut(debug, counter, 488, 504)
  BY HasMask
    DEF Cores!TIMING_DBG, Cores!TIMING_REG_DBG, Cores!Mask, Cores!BitAt, Cores!Register, Has,
        LaidOut, Clear, Placed
<1>7. fields = Cores!Timing /\ status = Cores!TimingStatus
  <2>1. r.AFC_RFREQ_HI.at - r.RTM_RFREQ_HI.at = 24 /\ r.AMC1.at - r.AMC0.at = 24
    BY DEF Cores!TIMING_REG, Cores!Register, Cores!Mask
  <2>2. Clocks(dividers \cup loop) = Cores!TimingClocks
    BY <2>1 DEF Cores!TimingClocks
  <2>3. Triggers(enable \cup pulses) = Cores!TimingTriggers
    BY <2>1 DEF Cores!TimingTriggers
  <2>4. fields = Cores!Timing
    BY <2>2, <2>3 DEF Cores!Timing
  <2>5. status = Cores!TimingStatus
    BY <2>1 DEF Cores!TimingStatus
  <2>6. QED
    BY <2>4, <2>5
<1> HIDE DEF link, locks, alive, dividers, loop, enable, pulses, count, debug, counter
<1>8. LaidOut(clocks, {}, 8, 56)
  <2>1. LaidOut(dividers \cup loop, {}, 8, 32)
    BY <1>2, <1>3, JoinedFields
  <2>2. QED
    BY <2>1, ArrayLaid, Lengths, NoChannels
<1>9. LaidOut(triggers, counts, 56, 488)
  <2>1. LaidOut(enable \cup pulses, count, 56, 80)
    BY <1>4, <1>5, JoinedFields
  <2>2. QED
    BY <2>1, ArrayLaid, Lengths
<1> HIDE DEF first, clocks, triggers, counts
<1>10. LaidOut(link \cup clocks, first, 0, 56)
  BY <1>1, <1>8, JoinedFields
<1>11. LaidOut((link \cup clocks) \cup triggers, first \cup counts, 0, 488)
  BY <1>9, <1>10, Joined
<1>12. LaidOut(fields, status, 0, 504)
  BY <1>6, <1>11, Joined
<1> HIDE DEF fields, status
<1>13. QED
  BY <1>7, <1>12

LEMMA OrbitIntlkLaid ==
  LaidOut(Cores!OrbitIntlk,
          Cores!SameNames(Cores!ORBIT_INTLK_STS) \cup Cores!SameNames(Cores!ORBIT_INTLK_DIFF),
          0, 60)
<1> DEFINE control == {[f EXCEPT !.command = f.name \in {"CLR", "TRANS_CLR", "ANG_CLR"}] :
                         f \in Cores!SameNames(Cores!ORBIT_INTLK_CTRL)}
           limits == Cores!SameNames(Cores!ORBIT_INTLK_REG)
           sta == Cores!SameNames(Cores!ORBIT_INTLK_STS)
           diff == Cores!SameNames(Cores!ORBIT_INTLK_DIFF)
<1>1. LaidOut(control, {}, 0, 4)
  BY HasMask
    DEF Cores!SameNames, Cores!ORBIT_INTLK_CTRL, Cores!Mask, Cores!BitAt, Cores!Register, Has,
        LaidOut, Clear, Placed
<1>2. LaidOut({}, sta, 4, 8)
  BY HasMask
    DEF Cores!SameNames, Cores!ORBIT_INTLK_STS, Cores!Mask, Cores!BitAt, Cores!Register, Has,
        LaidOut, Clear, Placed
<1>3. LaidOut(limits, {}, 8, 44)
  BY HasMask
    DEF Cores!SameNames, Cores!ORBIT_INTLK_REG, Cores!Mask, Cores!BitAt, Cores!Register, Has,
        LaidOut, Clear, Placed
<1>4. LaidOut({}, diff, 44, 60)
  BY HasMask
    DEF Cores!SameNames, Cores!ORBIT_INTLK_DIFF, Cores!Mask, Cores!BitAt, Cores!Register, Has,
        LaidOut, Clear, Placed
<1>5. Cores!OrbitIntlk = control \cup limits
  BY DEF Cores!OrbitIntlk
<1> HIDE DEF control, limits, sta, diff
<1>6. LaidOut(control, sta, 0, 8)
  BY <1>1, <1>2, JoinedStatus
<1>7. LaidOut(control \cup limits, sta, 0, 44)
  BY <1>3, <1>6, JoinedFields
<1>8. LaidOut(control \cup limits, sta \cup diff, 0, 60)
  BY <1>4, <1>7, JoinedStatus
<1>9. QED
  BY <1>5, <1>8 DEF sta, diff

LEMMA SpiCoreLaid == LaidOut(Cores!SpiCore, {}, 0, 48)
<1> DEFINE m == Cores!SPI_PROTO
           x == {Cores!Field("X", m.TX0)}
           control == {f \in Cores!SameNames(m) : f.name \notin {"TX0", "RX0_SINGLE"}}
           single == {Cores!Field("RX_SINGLE", m.RX0_SINGLE)}
           words == Cores!Channels(x, 4, 4)
           singles == Cores!Channels(single, 4, 4)
<1>1. LaidOut(x, {}, 0, 4)
  BY HasMask
    DEF Cores!SPI_PROTO, Cores!Mask, Cores!BitAt, Cores!Register, Has, LaidOut, Clear, Placed
<1>2. LaidOut(control, {}, 16, 32)
  <2>1. control = {Cores!Field("CHARLEN", m.CHARLEN), Cores!Field("BSY", m.BSY),
                   Cores!Field("RXNEG", m.RXNEG), Cores!Field("TXNEG", m.TXNEG),
                   Cores!Field("LSB", m.LSB), Cores!Field("IE", m.IE),
                   Cores!Field("ASS", m.ASS), Cores!Field("DIVIDER", m.DIVIDER),
                   Cores!Field("SS", m.SS), Cores!Field("BIDIR_CHARLEN", m.BIDIR_CHARLEN),
                   Cores!Field("BIDIR_EN", m.BIDIR_EN)}
    <3> DEFINE Others == {"TX0", "RX0_SINGLE"}
    <3>1. control = {Cores!Field(n, m[n]) : n \in DOMAIN m \ Others}
      <4> HIDE DEF Others, m
      <4>1. {f \in Cores!SameNames(m) : f.name \notin Others}
              = {Cores!Field(n, m[n]) : n \in DOMAIN m \ Others}
        BY SomeNames
      <4>2. QED
        BY <4>1 DEF Others
    <3>2. DOMAIN m \ Others
            = {"CHARLEN", "BSY", "RXNEG", "TXNEG", "LSB", "IE", "ASS", "DIVIDER", "SS",
               "BIDIR_CHARLEN", "BIDIR_EN"}
      BY DEF Cores!SPI_PROTO
    <3> HIDE DEF control, m
    <3>3. QED
      BY <3>1, <3>2
  <2> HIDE DEF control
  <2>2. QED
    BY <2>1, HasMask
      DEF Cores!SPI_PROTO, Cores!Mask, Cores!BitAt, Cores!Register, Has, LaidOut, Clear, Placed
<1>3. LaidOut(single, {}, 32, 36)
  BY HasMask
    DEF Cores!SPI_PROTO, Cores!Mask, Cores!BitAt, Cores!Register, Has, LaidOut, Clear, Placed
<1>4. Cores!SpiCore = (words \cup control) \cup singles
  BY ChannelsSplit DEF Cores!SpiCore
<1> HIDE DEF x, control, single
<1>5. LaidOut(words, {}, 0, 16)
  BY <1>1, ArrayLaid, NoChannels, Lengths
<1>6. LaidOut(singles, {}, 32, 48)
  BY <1>3, ArrayLaid, NoChannels, Lengths
<1> HIDE DEF words, singles
<1>7. LaidOut(words \cup control, {}, 0, 32)
  BY <1>2, <1>5, JoinedFields
<1>8. LaidOut((words \cup control) \cup singles, {}, 0, 48)
  BY <1>6, <1>7, JoinedFields
<1>9. QED
  BY <1>4, <1>8

LEMMA AcqLaid == LaidOut({}, Cores!AcqStatus, 0, 252)
<1> DEFINE ctl == Cores!SameNames(Cores!ACQ_CORE_CTL)
           sta == Cores!SameNames(Cores!ACQ_CORE_STA)
           trig == Cores!SameNames(Cores!ACQ_CORE_TRIG_CFG)
           shots == Cores!SameNames(Cores!ACQ_CORE_SHOTS)
           chan == Cores!SameNames(Cores!ACQ_CORE_ACQ_CHAN_CTL)
           regs0 == Cores!SameNames(Cores!ACQ_CORE)
           single == ((((ctl \cup sta) \cup trig) \cup shots) \cup chan) \cup regs0
           desc == Cores!SameNames(Cores!ACQ_CORE_CH0_DESC)
           descs == Cores!Channels(desc, 24, 8)
<1>1. LaidOut({}, single, 0, 60)
  BY HasMask, SMTT(30)
    DEF Cores!SameNames, Cores!ACQ_CORE_CTL, Cores!ACQ_CORE_STA, Cores!ACQ_CORE_TRIG_CFG,
        Cores!ACQ_CORE_SHOTS, Cores!ACQ_CORE_ACQ_CHAN_CTL, Cores!ACQ_CORE, Cores!Mask,
        Cores!BitAt, Cores!Register, Has, LaidOut, Clear, Placed
<1>2. LaidOut({}, desc, 60, 68)
  BY HasMask
    DEF Cores!SameNames, Cores!ACQ_CORE_CH0_DESC, Cores!Mask, Cores!BitAt, Cores!Register, Has,
        LaidOut, Clear, Placed
<1>3. Cores!AcqStatus = single \cup descs
  BY DEF Cores!AcqStatus
<1> HIDE DEF single, desc
<1>4. LaidOut({}, descs, 60, 252)
  BY <1>2, ArrayLaid, NoChannels, Lengths
<1> HIDE DEF descs
<1>5. LaidOut({}, single \cup descs, 0, 252)
  BY <1>1, <1>4, JoinedStatus
<1>6. QED
  BY <1>3, <1>5

\* What read and write_params of pos_calc transfer, block by block.
LEMMA PosCalcLaid ==
  \E scales, test, rest :
    /\ Cores!PosCalc = (scales \cup test) \cup rest
    /\ LaidOut(scales, {}, 12, 24) /\ LaidOut(test, {}, 44, 48) /\ LaidOut(rest, {}, 232, 352)
<1> DEFINE s == Cores!POS_CALC_SW
           t == Cores!POS_CALC_TBT
           a == Cores!POS_CALC_ADC
           scales == {Cores!Field("KX", Cores!POS_CALC_K.KX),
                      Cores!Field("KY", Cores!POS_CALC_K.KY),
                      Cores!Field("KSUM", Cores!POS_CALC_K.KSUM)}
           test == {Cores!Field("TEST_DATA", Cores!POS_CALC_DDS_CFG.TEST_DATA)}
           sync == {Cores!Field("FOFB_SYNC_EN", s.TAG_EN),
                    Cores!Command(Cores!Field("FOFB_DESYNC_CNT_RST", s.DESYNC_CNT_RST)),
                    Cores!Field("FOFB_DESYNC_CNT", s.DESYNC_CNT),
                    Cores!Field("FOFB_DATA_MASK_EN", s.DATA_MASK_EN),
                    Cores!Field("FOFB_DATA_MASK_SAMPLES", s.DATA_MASK_SAMPLES)}
           rate == {Cores!Field("SYNC_EN", t.TAG_EN), Cores!Field("SYNC_DLY", t.TAG_DLY),
                    Cores!Command(Cores!Field("DESYNC_CNT_RST", t.DESYNC_CNT_RST)),
                    Cores!Field("DESYNC_CNT", t.DESYNC_CNT),
                    Cores!Field("DATA_MASK_EN", t.DATA_MASK_EN),
                    Cores!Field("DATA_MASK_SAMPLES_BEG", t.SAMPLES_BEG),
                    Cores!Field("DATA_MASK_SAMPLES_END", t.SAMPLES_END)}
           offsets == {Cores!Field("OFFSET_X", a.OFFSET_X), Cores!Field("OFFSET_Y", a.OFFSET_Y),
                       Cores!Field("ADC_GAINS_FIXED_POINT_POS", a.GAINS_FIXED_POINT_POS)}
           invGain == {Cores!Field("ADC_SWCLK_INV_GAIN", a.SWCLK_0_GAIN)}
           dirGain == {Cores!Field("ADC_SWCLK_DIR_GAIN", a.SWCLK_1_GAIN)}
           invOffset == {Cores!Since(1, Cores!Field("ADC_SWCLK_INV_OFFSET", a.SWCLK_0_OFFSET))}
           dirOffset == {Cores!Since(1, Cores!Field("ADC_SWCLK_DIR_OFFSET", a.SWCLK_1_OFFSET))}
           rates == Cores!Channels(rate, 3, 12)
           invGains == Cores!Channels(invGain, 4, 4)
           dirGains == Cores!Channels(dirGain, 4, 4)
           invOffsets == Cores!Channels(invOffset, 4, 4)
           dirOffsets == Cores!Channels(dirOffset, 4, 4)
           rest == ((((sync \cup rates) \cup offsets) \cup invGains) \cup dirGains)
                   \cup (invOffsets \cup dirOffsets)
<1>1. LaidOut(scales, {}, 12, 24)
  BY HasMask
    DEF Cores!POS_CALC_K, Cores!Mask, Cores!BitAt, Cores!Register, Has, LaidOut, Clear, Placed
<1>2. LaidOut(test, {}, 44, 48)
  BY HasMask
    DEF Cores!POS_CALC_DDS_CFG, Cores!Mask, Cores!BitAt, Cores!Register, Has, LaidOut, Clear,
        Placed
<1>3. LaidOut(sync, {}, 232, 240)
  BY HasMask
    DEF Cores!POS_CALC_SW, Cores!Mask, Cores!BitAt, Cores!Register, Has, LaidOut, Clear, Placed
<1>4. LaidOut(rate, {}, 240, 252)
  BY HasMask
    DEF Cores!POS_CALC_TBT, Cores!Mask, Cores!BitAt, Cores!Register, Has, LaidOut, Clear, Placed
<1>5. LaidOut(offsets, {}, 276, 288)
  BY HasMask
    DEF Cores!POS_CALC_ADC, Cores!Mask, Cores!BitAt, Cores!Register, Has, LaidOut, Clear, Placed
<1>6. LaidOut(invGain, {}, 288, 292) /\ LaidOut(dirGain, {}, 304, 308)
  BY HasMask
    DEF Cores!POS_CALC_ADC, Cores!Mask, Cores!BitAt, Cores!Register, Has, LaidOut, Clear, Placed
<1>7. LaidOut(invOffset, {}, 320, 324) /\ LaidOut(dirOffset, {}, 336, 340)
  BY HasMask
    DEF Cores!POS_CALC_ADC, Cores!Mask, Cores!BitAt, Cores!Register, Has, LaidOut, Clear, Placed
<1>8. Cores!PosCalc = (scales \cup test) \cup rest
  <2>1. Cores!PosCalcRates = rates
    BY DEF Cores!PosCalcRates
  <2>2. Cores!PosCalcGains = invGains \cup dirGains
    BY ChannelsSplit DEF Cores!PosCalcGains
  <2>3. Cores!PosCalcOffsets = invOffsets \cup dirOffsets
    BY ChannelsSplit DEF Cores!PosCalcOffsets
  <2> HIDE DEF rates, invGains, dirGains, invOffsets, dirOffsets
  <2>4. QED
    BY <2>1, <2>2, <2>3 DEF Cores!PosCalc
<1> HIDE DEF scales, test, sync, rate, offsets, invGain, dirGain, invOffset, dirOffset
<1>9. LaidOut(rates, {}, 240, 276)
  BY <1>4, ArrayLaid, NoChannels, Lengths
<1>10. LaidOut(invGains, {}, 288, 304) /\ LaidOut(dirGains, {}, 304, 320)
  BY <1>6, ArrayLaid, NoChannels, Lengths
<1>11. LaidOut(invOffsets, {}, 320, 336) /\ LaidOut(dirOffsets, {}, 336, 352)
  BY <1>7, ArrayLaid, NoChannels, Lengths
<1> HIDE DEF rates, invGains, dirGains, invOffsets, dirOffsets
<1>12. LaidOut((sync \cup rates) \cup offsets, {}, 232, 288)
  <2>1. LaidOut(sync \cup rates, {}, 232, 276)
    BY <1>3, <1>9, JoinedFields
  <2>2. QED
    BY <2>1, <1>5, JoinedFields
<1>13. LaidOut(((sync \cup rates) \cup offsets) \cup invGains, {}, 232, 304)
  BY <1>10, <1>12, JoinedFields
<1>14. LaidOut((((sync \cup rates) \cup offsets) \cup invGains) \cup dirGains, {}, 232, 320)
  BY <1>10, <1>13, JoinedFields
<1>15. LaidOut(invOffsets \cup dirOffsets, {}, 320, 352)
  BY <1>11, JoinedFields
<1>16. LaidOut(rest, {}, 232, 352)
  BY <1>14, <1>15, JoinedFields
<1> HIDE DEF rest
<1> WITNESS scales, test, rest
<1>17. QED
  BY <1>1, <1>2, <1>8, <1>16

LEMMA SysIdLaid == LaidOut(Cores!SysId, Cores!SysIdStatus, 0, 8192)
<1> DEFINE m == Cores!FOFB_SYS_ID
           ids == {Cores!Field("BASE_BPM_ID", m.BASE_BPM_ID)}
           cte == Cores!FOFB_SYS_ID_CTE
           number == {Cores!Field("MAX_NUM_CTE", cte.MAX_NUM_CTE)}
           prbs == {Cores!Field("RST", m.RST), Cores!Field("STEP_DURATION", m.STEP_DURATION),
                    Cores!Field("LFSR_LENGTH", m.LFSR_LENGTH),
                    Cores!Field("BPM_POS_DISTORT_EN", m.BPM_POS_DISTORT_EN),
                    Cores!Field("SP_DISTORT_EN", m.SP_DISTORT_EN),
                    Cores!Field("NUM_TAPS_SEL", m.NUM_TAPS_SEL)}
           taps == {Cores!Field("SP_DISTORT_MOV_AVG_MAX_NUM_TAPS_SEL_CTE", cte.MAX_NUM_TAPS_SEL)}
           sp == {Cores!Field("SP_PRBS_0", m.SP_LEVEL_0),
                  Cores!Field("SP_PRBS_1", m.SP_LEVEL_1)}
           Ram(name, mask, half) == Cores!Field(name, [mask EXCEPT !.at = @ + half * 256 * 4])
           x == {Ram("X_PRBS_0", m.RAM_LEVEL_0, 0), Ram("X_PRBS_1", m.RAM_LEVEL_1, 0)}
           y == {Ram("Y_PRBS_0", m.RAM_LEVEL_0, 1), Ram("Y_PRBS_1", m.RAM_LEVEL_1, 1)}
           sps == Cores!Channels(sp, 12, 4)
           xs == Cores!Channels(x, 256, 4)
           ys == Cores!Channels(y, 256, 4)
<1>1. LaidOut(ids, number, 0, 8)
  BY HasMask
    DEF Cores!FOFB_SYS_ID, Cores!FOFB_SYS_ID_CTE, Cores!Mask, Cores!BitAt, Cores!Register, Has,
        LaidOut, Clear, Placed
<1>2. LaidOut(prbs, taps, 4096, 4104)
  BY HasMask
    DEF Cores!FOFB_SYS_ID, Cores!FOFB_SYS_ID_CTE, Cores!Mask, Cores!BitAt, Cores!Register, Has,
        LaidOut, Clear, Placed
<1>3. LaidOut(sp, {}, 4160, 4164)
  BY HasMask
    DEF Cores!FOFB_SYS_ID, Cores!Mask, Cores!BitAt, Cores!Register, Has, LaidOut, Clear, Placed
<1>4. LaidOut(x, {}, 6144, 6148) /\ LaidOut(y, {}, 7168, 7172)
  BY HasMask
    DEF Cores!FOFB_SYS_ID, Cores!Mask, Cores!BitAt, Cores!Register, Has, LaidOut, Clear, Placed
<1>5. Cores!SysId = (((ids \cup prbs) \cup sps) \cup xs) \cup ys
  <2> DEFINE plain ==
               {f \in Cores!SameNames(m) :
                  f.name \in {"BASE_BPM_ID", "RST", "STEP_DURATION", "LFSR_LENGTH",
                              "BPM_POS_DISTORT_EN", "SP_DISTORT_EN", "NUM_TAPS_SEL"}}
             ram == {Ram("X_PRBS_0", m.RAM_LEVEL_0, 0), Ram("X_PRBS_1", m.RAM_LEVEL_1, 0),
                     Ram("Y_PRBS_0", m.RAM_LEVEL_0, 1), Ram("Y_PRBS_1", m.RAM_LEVEL_1, 1)}
  <2>1. plain = ids \cup prbs
    <3> DEFINE Wanted == {"BASE_BPM_ID", "RST", "STEP_DURATION", "LFSR_LENGTH",
                         "BPM_POS_DISTORT_EN", "SP_DISTORT_EN", "NUM_TAPS_SEL"}
    <3>1. plain = {Cores!Field(n, m[n]) : n \in DOMAIN m \cap Wanted}
      <4> HIDE DEF Wanted, m
      <4>1. {f \in Cores!SameNames(m) : f.name \in Wanted}
              = {Cores!Field(n, m[n]) : n \in DOMAIN m \cap Wanted}
        <5> PICK masks, names : masks = m /\ names = Wanted
          OBVIOUS
        <5>1. {f \in Cores!SameNames(masks) : f.name \in names}
                = {Cores!Field(n, masks[n]) : n \in DOMAIN masks \cap names}
          BY ONLY SomeNames
        <5>2. QED
          BY <5>1
      <4>2. QED
        BY <4>1 DEF Wanted
    <3>2. DOMAIN m \cap Wanted = Wanted
      BY DEF Cores!FOFB_SYS_ID
    <3> HIDE DEF plain, m
    <3>3. QED
      BY <3>1, <3>2
  <2>2. Cores!SysId = (plain \cup sps) \cup Cores!Channels(ram, 256, 4)
    BY Zenon DEF Cores!SysId
  <2>3. ram = x \cup y
    OBVIOUS
  <2> HIDE DEF plain, ids, prbs, ram, x, y
  <2>4. Cores!Channels(ram, 256, 4) = xs \cup ys
    BY <2>3, ChannelsSplit
  <2> HIDE DEF sps, xs, ys
  <2>5. QED
    BY <2>1, <2>2, <2>4
<1>6. Cores!SysIdStatus = number \cup taps
  BY DEF Cores!SysIdStatus
<1> HIDE DEF ids, number, prbs, taps, sp, x, y
<1>7. LaidOut(sps, {}, 4160, 4208)
  BY <1>3, ArrayLaid, NoChannels, Lengths
<1>8. LaidOut(xs, {}, 6144, 7168) /\ LaidOut(ys, {}, 7168, 8192)
  BY <1>4, ArrayLaid, NoChannels, Lengths
<1> HIDE DEF sps, xs, ys
<1>9. LaidOut(ids \cup prbs, number \cup taps, 0, 4104)
  BY <1>1, <1>2, Joined
<1>10. LaidOut((ids \cup prbs) \cup sps, number \cup taps, 0, 4208)
  BY <1>7, <1>9, JoinedFields
<1>11. LaidOut(((ids \cup prbs) \cup sps) \cup xs, number \cup taps, 0, 7168)
  BY <1>8, <1>10, JoinedFields
<1>12. LaidOut((((ids \cup prbs) \cup sps) \cup xs) \cup ys, number \cup taps, 0, 8192)
  BY <1>8, <1>11, JoinedFields
<1>13. QED
  BY <1>5, <1>6, <1>12

\* And which words read_monitors reads.
LEMMA ProcessingLaid ==
  /\ LaidOut(Cores!Processing, Cores!ProcessingStatus, 0, 53248)
  /\ \E consts, most, sta, decims :
       /\ Cores!ProcessingStatus = (consts \cup most) \cup (sta \cup decims)
       /\ Cores!Monitors("fofb_processing") = sta \cup decims
       /\ LaidOut({}, consts, 0, 8) /\ LaidOut({}, most, 128, 132)
       /\ LaidOut({}, sta, 68, 72) /\ LaidOut({}, decims, 4096, 53248)
<1> DEFINE m == Cores!FOFB_PROCESSING
           s == Cores!FOFB_PROCESSING_STA
           consts == {Cores!Field("FIXED_POINT_POS_COEFF", s.COEFF),
                      Cores!Field("FIXED_POINT_POS_GAINS", s.ACCS_GAINS)}
           most == {Cores!Field("SP_DECIM_RATIO_MAX", s.SP_DECIM_RATIO_MAX)}
           sta == {Cores!Field("INTLK_STA_ORB_DISTORT", s.ORB_DISTORT),
                   Cores!Field("INTLK_STA_PACKET_LOSS", s.PACKET_LOSS)}
           decim == {Cores!Field("CH_SP_DECIM_DATA", s.CH_SP_DECIM_DATA)}
           control == {Cores!Command(Cores!Field("STA_CLR", m.STA_CLR)),
                       Cores!Field("EN_ORB_DISTORT", m.EN_ORB_DISTORT),
                       Cores!Field("EN_PACKET_LOSS", m.EN_PACKET_LOSS)}
           limits == {Cores!Field("ORB_DISTORT_LIMIT", m.ORB_DISTORT_LIMIT),
                      Cores!Field("MIN_NUM_PACKETS", m.MIN_NUM_PKTS)}
           Y(mask) == [mask EXCEPT !.at = @ + 256 * 4]
           Last(mask) == [mask EXCEPT !.at = @ + 255 * 4]
           TwoOf(first, last, mask) == {Cores!Field(first, mask), Cores!Field(last, Last(mask))}
           orbits == TwoOf("REF_ORB_X_0", "REF_ORB_X_255", m.SPS_RAM_BANK)
                     \cup TwoOf("REF_ORB_Y_0", "REF_ORB_Y_255", Y(m.SPS_RAM_BANK))
           coeffs == TwoOf("COEFF_X_0", "COEFF_X_255", m.COEFF_RAM_BANK)
                     \cup TwoOf("COEFF_Y_0", "COEFF_Y_255", Y(m.COEFF_RAM_BANK))
           acc == {Cores!Command(Cores!Field("ACC_CLEAR", m.CLEAR)),
                   Cores!Field("ACC_FREEZE", m.FREEZE), Cores!Field("ACC_GAIN", m.GAIN),
                   Cores!Field("LIMIT_MAX", m.MAX), Cores!Field("LIMIT_MIN", m.MIN),
                   Cores!Field("RATIO", m.RATIO)}
           channel == coeffs \cup acc
           channels == Cores!Channels(channel, 12, 4096)
           decims == Cores!Channels(decim, 12, 4096)
<1>1. LaidOut({}, consts, 0, 8)
  BY HasMask
    DEF Cores!FOFB_PROCESSING_STA, Cores!Mask, Cores!BitAt, Cores!Register, Has, LaidOut, Clear,
        Placed
<1>2. LaidOut(control, {}, 64, 68)
  BY HasMask
    DEF Cores!FOFB_PROCESSING, Cores!Mask, Cores!BitAt, Cores!Register, Has, LaidOut, Clear,
        Placed
<1>3. LaidOut({}, sta, 68, 72)
  BY HasMask
    DEF Cores!FOFB_PROCESSING_STA, Cores!Mask, Cores!BitAt, Cores!Register, Has, LaidOut, Clear,
        Placed
<1>4. LaidOut(limits, {}, 72, 80)
  BY HasMask
    DEF Cores!FOFB_PROCESSING, Cores!Mask, Cores!BitAt, Cores!Register, Has, LaidOut, Clear,
        Placed
<1>5. LaidOut({}, most, 128, 132)
  BY HasMask
    DEF Cores!FOFB_PROCESSING_STA, Cores!Mask, Cores!BitAt, Cores!Register, Has, LaidOut, Clear,
        Placed
<1>6. LaidOut(orbits, {}, 2048, 4096)
  <2>1. m.SPS_RAM_BANK = Cores!Register(2048)
    BY DEF Cores!FOFB_PROCESSING
  <2>2. Y(m.SPS_RAM_BANK) = Cores!Register(3072)
    BY <2>1 DEF Cores!Register, Cores!Mask
  <2>3. \A at \in Nat : Last(Cores!Register(at)) = Cores!Register(at + 1020)
    BY DEF Cores!Register, Cores!Mask
  <2> HIDE DEF m, Y, Last
  <2>4. /\ Last(m.SPS_RAM_BANK) = Cores!Register(3068)
        /\ Last(Y(m.SPS_RAM_BANK)) = Cores!Register(4092)
    BY <2>1, <2>2, <2>3
  <2>5. QED
    BY <2>1, <2>2, <2>4, HasMask DEF Cores!Mask, Cores!Register, Has, LaidOut, Clear, Placed
<1>7. LaidOut(coeffs, {}, 4096, 6144)
  <2>1. m.COEFF_RAM_BANK = Cores!Register(4096)
    BY DEF Cores!FOFB_PROCESSING
  <2>2. Y(m.COEFF_RAM_BANK) = Cores!Register(5120)
    BY <2>1 DEF Cores!Register, Cores!Mask
  <2>3. \A at \in Nat : Last(Cores!Register(at)) = Cores!Register(at + 1020)
    BY DEF Cores!Register, Cores!Mask
  <2> HIDE DEF m, Y, Last
  <2>4. /\ Last(m.COEFF_RAM_BANK) = Cores!Register(5116)
        /\ Last(Y(m.COEFF_RAM_BANK)) = Cores!Register(6140)
    BY <2>1, <2>2, <2>3
  <2>5. QED
    BY <2>1, <2>2, <2>4, HasMask DEF Cores!Mask, Cores!Register, Has, LaidOut, Clear, Placed
<1>8. LaidOut(acc, decim, 6144, 6192) /\ LaidOut({}, decim, 6144, 6192)
  BY HasMask
    DEF Cores!FOFB_PROCESSING, Cores!FOFB_PROCESSING_STA, Cores!Mask, Cores!BitAt,
        Cores!Register, Has, LaidOut, Clear, Placed
<1>9. m.CH_SIZE = 4096
  BY DEF Cores!FOFB_PROCESSING
<1>10. Cores!Monitors("fofb_processing") = sta \cup decims
  BY <1>9 DEF Cores!Monitors
<1>11. Cores!ProcessingStatus = (consts \cup most) \cup (sta \cup decims)
  <2> HIDE DEF decims, sta
  <2>1. QED
    BY <1>10 DEF Cores!ProcessingStatus
<1>12. Cores!Processing = ((control \cup limits) \cup orbits) \cup channels
  <2> DEFINE x == TwoOf("COEFF_X_0", "COEFF_X_255", m.COEFF_RAM_BANK)
             y == TwoOf("COEFF_Y_0", "COEFF_Y_255", Y(m.COEFF_RAM_BANK))
             u == TwoOf("REF_ORB_X_0", "REF_ORB_X_255", m.SPS_RAM_BANK)
             v == TwoOf("REF_ORB_Y_0", "REF_ORB_Y_255", Y(m.SPS_RAM_BANK))
             first == {Cores!Command(Cores!Field("STA_CLR", m.STA_CLR)),
                       Cores!Field("EN_ORB_DISTORT", m.EN_ORB_DISTORT),
                       Cores!Field("EN_PACKET_LOSS", m.EN_PACKET_LOSS),
                       Cores!Field("ORB_DISTORT_LIMIT", m.ORB_DISTORT_LIMIT),
                       Cores!Field("MIN_NUM_PACKETS", m.MIN_NUM_PKTS)}
  <2>1. Cores!Processing
          = ((first \cup u) \cup v) \cup Cores!Channels((acc \cup x) \cup y, 12, m.CH_SIZE)
    BY Zenon DEF Cores!Processing
  <2>2. first = control \cup limits
    OBVIOUS
  <2> HIDE DEF first, control, limits, acc, x, y, u, v
  <2>3. (acc \cup x) \cup y = channel
    BY DEF x, y
  <2>4. u \cup v = orbits
    BY DEF u, v
  <2> HIDE DEF channel, orbits
  <2>5. QED
    BY <2>1, <2>2, <2>3, <2>4, <1>9
<1> HIDE DEF consts, most, sta, decim, control, limits, orbits, coeffs, acc
<1>13. LaidOut(channel, decim, 4096, 6192)
  BY <1>7, <1>8, JoinedFields
<1> HIDE DEF channel
<1>14. LaidOut(channels, decims, 4096, 53248)
  BY <1>13, ArrayLaid, Lengths
<1>15. LaidOut({}, decims, 4096, 53248)
  BY <1>14 DEF LaidOut
<1> HIDE DEF channels, decims
<1>16. LaidOut(control, consts, 0, 68)
  BY <1>1, <1>2, JoinedFields
<1>17. LaidOut(control, consts \cup sta, 0, 72)
  BY <1>3, <1>16, JoinedStatus
<1>18. LaidOut(control \cup limits, consts \cup sta, 0, 80)
  BY <1>4, <1>17, JoinedFields
<1>19. LaidOut(control \cup limits, (consts \cup sta) \cup most, 0, 132)
  BY <1>5, <1>18, JoinedStatus
<1>20. LaidOut((control \cup limits) \cup orbits, (consts \cup sta) \cup most, 0, 4096)
  BY <1>6, <1>19, JoinedFields
<1>21. LaidOut(((control \cup limits) \cup orbits) \cup channels,
               ((consts \cup sta) \cup most) \cup decims, 0, 53248)
  BY <1>14, <1>20, Joined
<1>22. ((consts \cup sta) \cup most) \cup decims = (consts \cup most) \cup (sta \cup decims)
  OBVIOUS
<1>23. LaidOut(Cores!Processing, Cores!ProcessingStatus, 0, 53248)
  BY <1>11, <1>12, <1>21, <1>22
<1>24. \E consts_1, most_1, sta_1, decims_1 :
       /\ Cores!ProcessingStatus = (consts_1 \cup most_1) \cup (sta_1 \cup decims_1)
       /\ Cores!Monitors("fofb_processing") = sta_1 \cup decims_1
       /\ LaidOut({}, consts_1, 0, 8) /\ LaidOut({}, most_1, 128, 132)
       /\ LaidOut({}, sta_1, 68, 72) /\ LaidOut({}, decims_1, 4096, 53248)
  <2> WITNESS consts, most, sta, decims
  <2>1. QED
    BY <1>1, <1>3, <1>5, <1>10, <1>11, <1>15
<1>25. QED
  BY <1>23, <1>24

\* Eight registers, one after the other.
LEMMA EightLaid ==
  ASSUME NEW name, NEW at \in Nat
  PROVE  LaidOut({}, Cores!Channels({Cores!Field(name, Cores!Register(at))}, 8, 4), at, at + 32)
<1> DEFINE one == {Cores!Field(name, Cores!Register(at))}
<1>1. LaidOut({}, one, at, at + 4)
  BY HasMask DEF Cores!Mask, Cores!Register, Has, LaidOut, Clear, Placed
<1> HIDE DEF one
<1>2. LaidOut({}, Cores!Channels(one, 8, 4), at, at + 32)
  BY <1>1, ArrayLaid, NoChannels, Lengths
<1>3. QED
  BY <1>2 DEF one

\* What each part of fofb_cc's read transfers, and that its second write changes nothing
\* that has a name.
LEMMA CcLaid ==
  \E data, sta :
    /\ Cores!CcStatus = data \cup sta
    /\ LaidOut(Cores!CcRegs, data, 0, 32) /\ LaidOut(Cores!CcRam, {}, 8192, 8236)
    /\ LaidOut({}, sta, 11264, 12288)
    /\ \A f \in Cores!CcRegs \cup data : Clear(f, Cores!FOFB_CC.ACT_PART)
<1> DEFINE m == Cores!FOFB_CC
           Sta(offset) == [m.RAM_REG EXCEPT !.at = @ + 4 * (3 * 256 + offset)]
           RamAt(offset) == [m.RAM_REG EXCEPT !.at = @ + 4 * offset]
           data == Cores!SameNames(Cores!FOFB_CC_DATA)
           links == {Cores!Field("LINK_UP", Sta(9)), Cores!Field("TIME_FRAME_CNT", Sta(10))}
           system == {Cores!Field("SYS_STATUS", Sta(0))}
           others == {Cores!Field("FOD_PROCESS_TIME", Sta(51)), Cores!Field("BPM_CNT", Sta(52)),
                      Cores!Field("FIRMWARE_VER", Sta(255))}
           Eight(one) == Cores!Channels(one, 8, 4)
           partner1 == {Cores!Field("LINK_PARTNER", Sta(1))}
           hard1 == {Cores!Field("HARD_ERR_CNT", Sta(11))}
           soft1 == {Cores!Field("SOFT_ERR_CNT", Sta(19))}
           frame1 == {Cores!Field("FRAME_ERR_CNT", Sta(27))}
           rx1 == {Cores!Field("RX_PCK_CNT", Sta(35))}
           tx1 == {Cores!Field("TX_PCK_CNT", Sta(43))}
           partner == Eight(partner1)
           hard == Eight(hard1)
           soft == Eight(soft1)
           frame == Eight(frame1)
           rx == Eight(rx1)
           tx == Eight(tx1)
           counts == (((hard \cup soft) \cup frame) \cup rx) \cup tx
           sta == (((system \cup partner) \cup links) \cup counts) \cup others
<1>1. m.RAM_REG = Cores!Register(8192)
  BY DEF Cores!FOFB_CC
<1>2. \A offset, at \in Nat : /\ at = 11264 + 4 * offset => Sta(offset) = Cores!Register(at)
                              /\ at = 8192 + 4 * offset => RamAt(offset) = Cores!Register(at)
  BY <1>1 DEF Cores!Register, Cores!Mask
<1>3. LaidOut(Cores!CcRegs, data, 0, 32) /\ \A f \in Cores!CcRegs \cup data : Clear(f, m.ACT_PART)
  <2> DEFINE own == {Cores!Field("ERR_CLR", m.ERR_CLR), Cores!Field("CC_ENABLE", m.CC_ENABLE),
                     Cores!Field("TFS_OVERRIDE", m.TFS_OVERRIDE),
                     Cores!Field("TOA_RD_EN", m.TOA_RD_EN),
                     Cores!Field("TOA_RD_STR", m.TOA_RD_STR),
                     Cores!Field("RCB_RD_EN", m.RCB_RD_EN),
                     Cores!Field("RCB_RD_STR", m.RCB_RD_STR)}
             Of(fields) ==
               {[f EXCEPT !.command = f.name \in {"ERR_CLR", "TOA_RD_STR", "RCB_RD_STR"}] :
                  f \in fields}
             named == {g \in Cores!SameNames(m) :
                         g.name \notin {"ACT_PART", "XY_BUFF_DATA_LSB", "RAM_REG"}}
  <2>1. named = own
    <3> DEFINE Others == {"ACT_PART", "XY_BUFF_DATA_LSB", "RAM_REG"}
    <3>1. named = {Cores!Field(n, m[n]) : n \in DOMAIN m \ Others}
      <4> HIDE DEF Others, m
      <4>1. {f \in Cores!SameNames(m) : f.name \notin Others}
              = {Cores!Field(n, m[n]) : n \in DOMAIN m \ Others}
        BY SomeNames
      <4>2. QED
        BY <4>1 DEF Others
    <3>2. DOMAIN m \ Others = {"ERR_CLR", "CC_ENABLE", "TFS_OVERRIDE", "TOA_RD_EN",
                               "TOA_RD_STR", "RCB_RD_EN", "RCB_RD_STR"}
      BY DEF Cores!FOFB_CC
    <3> HIDE DEF named, m
    <3>3. QED
      BY <3>1, <3>2
  <2>2. Cores!CcRegs = Of(named)
    BY Zenon DEF Cores!CcRegs
  <2>3. Cores!CcRegs = Of(own)
    <3> HIDE DEF named, own
    <3>1. QED
      BY <2>1, <2>2
  <2>4. LaidOut(Of(own), data, 0, 32)
    BY HasMask
      DEF Cores!SameNames, Cores!FOFB_CC, Cores!FOFB_CC_DATA, Cores!Mask, Cores!BitAt,
          Cores!Register, Has, LaidOut, Clear, Placed
  <2>5. \A f \in Of(own) \cup data : Clear(f, m.ACT_PART)
    BY HasMask
      DEF Cores!SameNames, Cores!FOFB_CC, Cores!FOFB_CC_DATA, Cores!Mask, Cores!BitAt,
          Cores!Register, Has, LaidOut, Clear, Placed
  <2> HIDE DEF Of, own, data
  <2>6. QED
    BY <2>3, <2>4, <2>5
<1>5. LaidOut(Cores!CcRam, {}, 8192, 8236)
  <2> DEFINE ram(id, b, c, d, e, f, g, h) ==
               {Cores!Field("BPM_ID", id), Cores!Field("TIME_FRAME_LEN", b),
                Cores!Field("MGT_POWERDOWN", c), Cores!Field("MGT_LOOPBACK", d),
                Cores!Field("TIME_FRAME_DLY", e), Cores!Field("RX_POLARITY", f),
                Cores!Field("PAYLOAD_SEL", g), Cores!Field("FOFB_DATA_SEL", h)}
  <2>1. Cores!CcRam = ram([RamAt(0) EXCEPT !.width = 9], RamAt(1), RamAt(2), RamAt(3),
                          RamAt(4), RamAt(8), RamAt(9), RamAt(10))
    BY Zenon DEF Cores!CcRam
  <2> HIDE DEF RamAt
  <2>2. [RamAt(0) EXCEPT !.width = 9] = Cores!Mask(8192, 0, 9)
    <3>1. RamAt(0) = Cores!Register(8192)
      BY <1>2
    <3>2. QED
      BY <3>1 DEF Cores!Register, Cores!Mask
  <2>3. /\ RamAt(1) = Cores!Register(8196) /\ RamAt(2) = Cores!Register(8200)
        /\ RamAt(3) = Cores!Register(8204) /\ RamAt(4) = Cores!Register(8208)
        /\ RamAt(8) = Cores!Register(8224) /\ RamAt(9) = Cores!Register(8228)
        /\ RamAt(10) = Cores!Register(8232)
    BY <1>2
  <2>4. LaidOut(ram(Cores!Mask(8192, 0, 9), Cores!Register(8196), Cores!Register(8200),
                    Cores!Register(8204), Cores!Register(8208), Cores!Register(8224),
                    Cores!Register(8228), Cores!Register(8232)), {}, 8192, 8236)
    BY HasMask DEF Cores!Mask, Cores!Register, Has, LaidOut, Clear, Placed
  <2> HIDE DEF ram
  <2>5. QED
    BY <2>1, <2>2, <2>3, <2>4
<1>6. LaidOut({}, system, 11264, 11268) /\ LaidOut({}, links, 11300, 11308)
      /\ LaidOut({}, others, 11468, 12288)
  <2> HIDE DEF Sta
  <2>1. /\ Sta(0) = Cores!Register(11264) /\ Sta(9) = Cores!Register(11300)
        /\ Sta(10) = Cores!Register(11304) /\ Sta(51) = Cores!Register(11468)
        /\ Sta(52) = Cores!Register(11472) /\ Sta(255) = Cores!Register(12284)
    BY <1>2
  <2>2. QED
    BY <2>1, HasMask DEF Cores!Mask, Cores!Register, Has, LaidOut, Clear, Placed
<1>7. /\ LaidOut({}, partner, 11268, 11300) /\ LaidOut({}, hard, 11308, 11340)
      /\ LaidOut({}, soft, 11340, 11372) /\ LaidOut({}, frame, 11372, 11404)
      /\ LaidOut({}, rx, 11404, 11436) /\ LaidOut({}, tx, 11436, 11468)
  <2> HIDE DEF Sta
  <2>1. /\ Sta(1) = Cores!Register(11268) /\ Sta(11) = Cores!Register(11308)
        /\ Sta(19) = Cores!Register(11340) /\ Sta(27) = Cores!Register(11372)
        /\ Sta(35) = Cores!Register(11404) /\ Sta(43) = Cores!Register(11436)
    BY <1>2
  <2>2. \A name : \A at \in Nat :
          LaidOut({}, Eight({Cores!Field(name, Cores!Register(at))}), at, at + 32)
    BY EightLaid
  <2> HIDE DEF Eight
  <2>3. QED
    BY <2>1, <2>2
<1>8. Cores!CcStatus = data \cup sta
  <2> DEFINE first == {Cores!Field("SYS_STATUS", Sta(0)), Cores!Field("LINK_UP", Sta(9)),
                       Cores!Field("TIME_FRAME_CNT", Sta(10)),
                       Cores!Field("FOD_PROCESS_TIME", Sta(51)),
                       Cores!Field("BPM_CNT", Sta(52)), Cores!Field("FIRMWARE_VER", Sta(255))}
             six == {Cores!Field("LINK_PARTNER", Sta(1)), Cores!Field("HARD_ERR_CNT", Sta(11)),
                     Cores!Field("SOFT_ERR_CNT", Sta(19)),
                     Cores!Field("FRAME_ERR_CNT", Sta(27)), Cores!Field("RX_PCK_CNT", Sta(35)),
                     Cores!Field("TX_PCK_CNT", Sta(43))}
  <2>1. Cores!CcStatus = (data \cup first) \cup Cores!Channels(six, 8, 4)
    BY Zenon DEF Cores!CcStatus
  <2>2. first = (system \cup links) \cup others
    OBVIOUS
  <2>3. six = ((((partner1 \cup hard1) \cup soft1) \cup frame1) \cup rx1) \cup tx1
    OBVIOUS
  <2> HIDE DEF first, six, data, system, links, others, partner1, hard1, soft1, frame1, rx1, tx1
  <2>4. Eight(six) = ((((partner \cup hard) \cup soft) \cup frame) \cup rx) \cup tx
    <3>1. \A F, G : Eight(F \cup G) = Eight(F) \cup Eight(G)
      BY ChannelsSplit
    <3> HIDE DEF Eight
    <3> DEFINE two == partner1 \cup hard1
               three == two \cup soft1
               four == three \cup frame1
               five == four \cup rx1
    <3>2. /\ Eight(two) = partner \cup hard /\ Eight(three) = Eight(two) \cup soft
          /\ Eight(four) = Eight(three) \cup frame /\ Eight(five) = Eight(four) \cup rx
          /\ Eight(six) = Eight(five) \cup tx
      BY <2>3, <3>1, Zenon
    <3> HIDE DEF two, three, four, five
    <3>3. QED
      BY <3>2
  <2>5. Cores!Channels(six, 8, 4) = partner \cup counts
    BY <2>4
  <2> HIDE DEF partner, hard, soft, frame, rx, tx, counts, Eight
  <2>6. QED
    BY <2>1, <2>2, <2>5
<1> HIDE DEF data, system, links, others, partner, hard, soft, frame, rx, tx,
             partner1, hard1, soft1, frame1, rx1, tx1
<1>9. LaidOut({}, hard \cup soft, 11308, 11372)
  BY <1>7, JoinedStatus
<1>10. LaidOut({}, (hard \cup soft) \cup frame, 11308, 11404)
  BY <1>7, <1>9, JoinedStatus
<1>11. LaidOut({}, ((hard \cup soft) \cup frame) \cup rx, 11308, 11436)
  BY <1>7, <1>10, JoinedStatus
<1>12. LaidOut({}, counts, 11308, 11468)
  BY <1>7, <1>11, JoinedStatus
<1> HIDE DEF counts
<1>13. LaidOut({}, system \cup partner, 11264, 11300)
  BY <1>6, <1>7, JoinedStatus
<1>14. LaidOut({}, (system \cup partner) \cup links, 11264, 11308)
  BY <1>6, <1>13, JoinedStatus
<1>15. LaidOut({}, ((system \cup partner) \cup links) \cup counts, 11264, 11468)
  BY <1>12, <1>14, JoinedStatus
<1>16. LaidOut({}, sta, 11264, 12288)
  BY <1>6, <1>15, JoinedStatus
<1> HIDE DEF sta
<1> WITNESS data, sta
<1>17. QED
  BY <1>3, <1>5, <1>8, <1>16

-----------------------------------------------------------------------------
(* What decode, read and write_params of each core agree on.               *)

\* Fields that are clear of each other meet in no bit.
LEMMA ClearApart ==
  \A f, g : f.low \in Nat /\ f.width \in Nat /\ g.low \in Nat /\ g.width \in Nat /\ Clear(f, g)
              => ~ Cores!Meet(f, g)
BY DEF Clear, Cores!Meet, Cores!Bits

LEMMA LaidApart ==
  ASSUME NEW F, NEW S, NEW a \in Int, NEW b \in Int, LaidOut(F, S, a, b)
  PROVE  /\ Cores!Apart(F, S)
         /\ \A f \in F \cup S :
              Cores!Bits(f) \subseteq 0 .. 31 /\ f.at \in Int /\ a <= f.at /\ f.at < b
<1>1. \A f \in F \cup S : f.low \in Nat /\ f.width \in Nat /\ f.low + f.width <= 32
  BY DEF LaidOut, Placed
<1>2. Cores!Apart(F, S)
  BY <1>1, ClearApart DEF LaidOut, Cores!Apart
<1>3. \A f \in F \cup S : Cores!Bits(f) \subseteq 0 .. 31
  BY <1>1 DEF Cores!Bits
<1>4. QED
  BY <1>2, <1>3 DEF LaidOut, Placed

\* A word of a block that is accessed is accessed.
LEMMA InBlock ==
  \A w, from, to \in Int : from <= w /\ w < to =>
    \A blocks : Cores!Block(from, to) \in blocks => Cores!In(w, blocks)
BY DEF Cores!In, Cores!Block

\* A core that is read and written as a whole.
LEMMA WholeLayout ==
  ASSUME NEW c, c \notin {"pos_calc", "fmcpico1m_4ch", "fofb_processing", "fofb_cc"},
         Cores!Size(c) \in Int, LaidOut(Cores!FieldsOf(c), Cores!Status(c), 0, Cores!Size(c))
  PROVE  Cores!LayoutOf(c)
<1>1. /\ Cores!Reads(c) = {Cores!Block(0, Cores!Size(c))}
      /\ Cores!Writes(c) = {Cores!Block(0, Cores!Size(c))}
  BY DEF Cores!Reads, Cores!Writes
<1>2. /\ Cores!SecondWrite(c) = {} /\ Cores!Monitors(c) = {}
      /\ Cores!Harmful(c, "read") = {} /\ Cores!Harmful(c, "write") = {}
  BY DEF Cores!SecondWrite, Cores!Monitors, Cores!Harmful
<1>3. Cores!ReadsMonitors(c) = {}
  BY <1>2 DEF Cores!ReadsMonitors
<1>4. \A w : ~ Cores!In(w, {})
  BY DEF Cores!In
<1>5. /\ Cores!Apart(Cores!FieldsOf(c), Cores!Status(c))
      /\ \A f \in Cores!FieldsOf(c) \cup Cores!Status(c) :
           /\ Cores!Bits(f) \subseteq 0 .. 31
           /\ Cores!In(f.at, {Cores!Block(0, Cores!Size(c))})
  BY LaidApart, InBlock
<1>6. QED
  BY <1>1, <1>2, <1>3, <1>4, <1>5 DEF Cores!LayoutOf

LEMMA PicoLayout == Cores!LayoutOf("fmcpico1m_4ch")
<1> DEFINE c == "fmcpico1m_4ch"
<1>1. /\ Cores!Reads(c) = {Cores!Block(0, 28)} /\ Cores!Writes(c) = {Cores!Block(8, 12)}
      /\ Cores!FieldsOf(c) = Cores!Pico /\ Cores!Status(c) = Cores!PicoStatus
  BY DEF Cores!Reads, Cores!Writes, Cores!FieldsOf, Cores!Status, Cores!Size
<1>2. /\ Cores!SecondWrite(c) = {} /\ Cores!Monitors(c) = {}
      /\ Cores!Harmful(c, "read") = {} /\ Cores!Harmful(c, "write") = {24}
  BY DEF Cores!SecondWrite, Cores!Monitors, Cores!Harmful
<1>3. Cores!ReadsMonitors(c) = {}
  BY <1>2 DEF Cores!ReadsMonitors
<1>4. ~ Cores!In(24, {Cores!Block(8, 12)}) /\ \A w : ~ Cores!In(w, {})
  BY DEF Cores!In, Cores!Block
<1>5. /\ Cores!Apart(Cores!Pico, Cores!PicoStatus)
      /\ \A f \in Cores!Pico \cup Cores!PicoStatus :
           /\ Cores!Bits(f) \subseteq 0 .. 31
           /\ Cores!In(f.at, {Cores!Block(0, 28)})
  BY PicoLaid, LaidApart, InBlock
<1>6. \A f \in Cores!Pico : Cores!In(f.at, {Cores!Block(8, 12)})
  BY PicoLaid, LaidApart, InBlock
<1> HIDE DEF c
<1>7. Cores!LayoutOf(c)
  BY <1>1, <1>2, <1>3, <1>4, <1>5, <1>6 DEF Cores!LayoutOf
<1>8. QED
  BY <1>7 DEF c

LEMMA PosCalcLayout == Cores!LayoutOf("pos_calc")
<1> DEFINE c == "pos_calc"
<1>1. /\ Cores!Reads(c) = Cores!PosCalcBlocks /\ Cores!Writes(c) = Cores!PosCalcBlocks
      /\ Cores!FieldsOf(c) = Cores!PosCalc /\ Cores!Status(c) = {}
  BY DEF Cores!Reads, Cores!Writes, Cores!FieldsOf, Cores!Status
<1>2. /\ Cores!SecondWrite(c) = {} /\ Cores!Monitors(c) = {} /\ Cores!Harmful(c, "write") = {}
  BY DEF Cores!SecondWrite, Cores!Monitors, Cores!Harmful
<1>3. Cores!ReadsMonitors(c) = {}
  BY <1>2 DEF Cores!ReadsMonitors
<1>4. \A w \in Cores!Harmful(c, "read") : ~ Cores!In(w, Cores!PosCalcBlocks)
  <2>1. \A w \in Cores!Harmful(c, "read") : w \in 152 .. 224
    BY DEF Cores!Harmful, Cores!POS_CALC_AMPFIFO, Cores!Register, Cores!Mask
  <2>2. QED
    BY <2>1 DEF Cores!In, Cores!PosCalcBlocks, Cores!Block
<1>5. PICK scales, test, rest :
        /\ Cores!PosCalc = (scales \cup test) \cup rest
        /\ LaidOut(scales, {}, 12, 24) /\ LaidOut(test, {}, 44, 48) /\ LaidOut(rest, {}, 232, 352)
  BY PosCalcLaid
<1>6. Cores!Apart(Cores!PosCalc, {})
      /\ \A f \in Cores!PosCalc : Cores!Bits(f) \subseteq 0 .. 31
  <2>1. LaidOut(scales \cup test, {}, 12, 48)
    BY <1>5, JoinedFields
  <2>2. LaidOut((scales \cup test) \cup rest, {}, 12, 352)
    BY <1>5, <2>1, JoinedFields
  <2>3. QED
    BY <1>5, <2>2, LaidApart
<1>7. \A f \in Cores!PosCalc : Cores!In(f.at, Cores!PosCalcBlocks)
  <2>1. {Cores!Block(12, 24), Cores!Block(44, 48), Cores!Block(232, 352)}
          \subseteq Cores!PosCalcBlocks
    BY DEF Cores!PosCalcBlocks
  <2>2. QED
    BY <1>5, <2>1, LaidApart, InBlock
<1>8. \A w : ~ Cores!In(w, {})
  BY DEF Cores!In
<1>9. Cores!PosCalcBlocks \cup {} = Cores!PosCalcBlocks /\ Cores!PosCalc \cup {} = Cores!PosCalc
  OBVIOUS
<1> HIDE DEF c
<1>10. Cores!LayoutOf(c)
  BY <1>1, <1>2, <1>3, <1>4, <1>6, <1>7, <1>8, <1>9 DEF Cores!LayoutOf
<1>11. QED
  BY <1>10 DEF c

LEMMA CcLayout == Cores!LayoutOf("fofb_cc")
<1> DEFINE c == "fofb_cc"
           fields == Cores!CcRegs \cup Cores!CcRam
           act == Cores!FOFB_CC.ACT_PART
<1>1. /\ Cores!Reads(c) = Cores!CcBlocks /\ Cores!Writes(c) = {Cores!Block(0, 16384)}
      /\ Cores!FieldsOf(c) = fields /\ Cores!Status(c) = Cores!CcStatus
  BY DEF Cores!Reads, Cores!Writes, Cores!FieldsOf, Cores!Status, Cores!Size
<1>2. /\ Cores!SecondWrite(c) = {act} /\ Cores!Monitors(c) = {}
      /\ Cores!Harmful(c, "read") = {} /\ Cores!Harmful(c, "write") = {}
  BY DEF Cores!SecondWrite, Cores!Monitors, Cores!Harmful
<1>3. Cores!ReadsMonitors(c) = {}
  BY <1>2 DEF Cores!ReadsMonitors
<1>4. \A w : ~ Cores!In(w, {})
  BY DEF Cores!In
<1>5. PICK data, sta :
        /\ Cores!CcStatus = data \cup sta
        /\ LaidOut(Cores!CcRegs, data, 0, 32) /\ LaidOut(Cores!CcRam, {}, 8192, 8236)
        /\ LaidOut({}, sta, 11264, 12288)
        /\ \A f \in Cores!CcRegs \cup data : Clear(f, act)
  BY CcLaid
<1>6. act = Cores!BitAt(0, 0)
  BY DEF Cores!FOFB_CC
<1> HIDE DEF act
<1>7. LaidOut(fields, data \cup sta, 0, 12288)
  <2>1. LaidOut(fields, data, 0, 8236)
    BY <1>5, JoinedFields
  <2> HIDE DEF fields
  <2>2. QED
    BY <1>5, <2>1, JoinedStatus
<1>8. Cores!Apart(fields, Cores!CcStatus)
      /\ \A f \in fields \cup Cores!CcStatus : Cores!Bits(f) \subseteq 0 .. 31
  BY <1>5, <1>7, LaidApart
<1>9. \A f \in fields \cup Cores!CcStatus : Cores!In(f.at, Cores!CcBlocks)
  <2>1. Cores!CcBlocks = {Cores!Block(0, 32), Cores!Block(8192, 8236), Cores!Block(11264, 15360)}
    BY DEF Cores!CcBlocks, Cores!FOFB_CC, Cores!Register, Cores!Mask
  <2>2. \A f \in Cores!CcRegs \cup data : Cores!In(f.at, Cores!CcBlocks)
    <3>1. \A f \in Cores!CcRegs \cup data : f.at \in Int /\ 0 <= f.at /\ f.at < 32
      BY <1>5, LaidApart
    <3>2. QED
      BY <2>1, <3>1, InBlock
  <2>3. \A f \in Cores!CcRam : Cores!In(f.at, Cores!CcBlocks)
    <3>1. \A f \in Cores!CcRam : f.at \in Int /\ 8192 <= f.at /\ f.at < 8236
      BY <1>5, LaidApart
    <3>2. QED
      BY <2>1, <3>1, InBlock
  <2>4. \A f \in sta : Cores!In(f.at, Cores!CcBlocks)
    <3>1. \A f \in sta : f.at \in Int /\ 11264 <= f.at /\ f.at < 15360
      BY <1>5, LaidApart
    <3>2. QED
      BY <2>1, <3>1, InBlock
  <2>5. QED
    BY <1>5, <2>2, <2>3, <2>4
<1>10. \A f \in fields : Cores!In(f.at, {Cores!Block(0, 16384)})
  <2>1. \A f \in fields : f.at \in Int /\ 0 <= f.at /\ f.at < 16384
    BY <1>7, LaidApart
  <2>2. QED
    BY <2>1, InBlock
<1>11. \A f \in fields \cup Cores!CcStatus : ~ Cores!Meet(f, act)
  <2>1. act.at = 0 /\ act.low = 0 /\ act.width = 1
    BY <1>6 DEF Cores!BitAt, Cores!Mask
  <2>2. \A f \in fields \cup Cores!CcStatus : Clear(f, act)
    <3>1. \A f \in Cores!CcRam \cup sta : f.at # 0
      BY <1>5, LaidApart
    <3>2. QED
      BY <1>5, <2>1, <3>1 DEF Clear
  <2>3. \A f \in fields \cup Cores!CcStatus : f.low \in Nat /\ f.width \in Nat
    BY <1>5, <1>7 DEF LaidOut, Placed
  <2>4. QED
    BY <2>1, <2>2, <2>3, ClearApart
<1> HIDE DEF c, fields
<1>12. Cores!LayoutOf(c)
  BY <1>1, <1>2, <1>3, <1>4, <1>8, <1>9, <1>10, <1>11 DEF Cores!LayoutOf
<1>13. QED
  BY <1>12 DEF c

LEMMA ProcessingLayout == Cores!LayoutOf("fofb_processing")
<1> DEFINE c == "fofb_processing"
<1>1. /\ Cores!Reads(c) = {Cores!Block(0, 53248)} /\ Cores!Writes(c) = {Cores!Block(0, 53248)}
      /\ Cores!FieldsOf(c) = Cores!Processing /\ Cores!Status(c) = Cores!ProcessingStatus
  BY DEF Cores!Reads, Cores!Writes, Cores!FieldsOf, Cores!Status, Cores!Size
<1>2. /\ Cores!SecondWrite(c) = {}
      /\ Cores!Harmful(c, "read") = {} /\ Cores!Harmful(c, "write") = {}
  BY DEF Cores!SecondWrite, Cores!Harmful
<1>3. PICK consts, most, sta, decims :
        /\ Cores!ProcessingStatus = (consts \cup most) \cup (sta \cup decims)
        /\ Cores!Monitors(c) = sta \cup decims
        /\ LaidOut({}, consts, 0, 8) /\ LaidOut({}, most, 128, 132)
        /\ LaidOut({}, sta, 68, 72) /\ LaidOut({}, decims, 4096, 53248)
  BY ProcessingLaid
<1>4. /\ Cores!Apart(Cores!Processing, Cores!ProcessingStatus)
      /\ \A f \in Cores!Processing \cup Cores!ProcessingStatus :
           /\ Cores!Bits(f) \subseteq 0 .. 31
           /\ Cores!In(f.at, {Cores!Block(0, 53248)})
  BY ProcessingLaid, LaidApart, InBlock
<1> HIDE DEF c
<1>5. \A f \in Cores!Monitors(c) : Cores!In(f.at, Cores!ReadsMonitors(c))
  <2>1. TAKE f \in Cores!Monitors(c)
  <2>2. f.at \in Int
    BY <1>3, LaidApart
  <2>3. Cores!Block(f.at, f.at + 4) \in Cores!ReadsMonitors(c)
    BY DEF Cores!ReadsMonitors
  <2>4. QED
    BY <2>2, <2>3, InBlock
<1>6. \A f \in consts \cup most : ~ Cores!In(f.at, Cores!ReadsMonitors(c))
  <2>1. TAKE f \in consts \cup most
  <2>2. f.at \in Int /\ (f.at < 8 \/ (128 <= f.at /\ f.at < 132))
    BY <1>3, LaidApart
  <2>3. \A g \in Cores!Monitors(c) : g.at \in Int /\ ((68 <= g.at /\ g.at < 72) \/ 4096 <= g.at)
    BY <1>3, LaidApart
  <2>4. QED
    BY <2>2, <2>3 DEF Cores!In, Cores!ReadsMonitors, Cores!Block
<1>7. \A f \in Cores!ProcessingStatus :
        Cores!In(f.at, Cores!ReadsMonitors(c)) <=> f \in Cores!Monitors(c)
  <2>1. Cores!ProcessingStatus = (consts \cup most) \cup Cores!Monitors(c)
    BY <1>3
  <2>2. \A f \in consts \cup most : f \notin Cores!Monitors(c)
    BY <1>5, <1>6
  <2>3. QED
    BY <1>5, <1>6, <2>1, <2>2
<1>8. Cores!LayoutOf(c)
  <2>1. Cores!Monitors(c) \subseteq Cores!Status(c)
    BY <1>1, <1>3
  <2>2. /\ \A w \in Cores!Harmful(c, "read") :
               ~ Cores!In(w, Cores!Reads(c) \cup Cores!ReadsMonitors(c))
        /\ \A w \in Cores!Harmful(c, "write") : ~ Cores!In(w, Cores!Writes(c))
        /\ \A f : \A act \in Cores!SecondWrite(c) : ~ Cores!Meet(f, act)
    BY <1>2
  <2>3. /\ Cores!Apart(Cores!FieldsOf(c), Cores!Status(c))
        /\ \A f \in Cores!FieldsOf(c) \cup Cores!Status(c) :
             Cores!Bits(f) \subseteq 0 .. 31 /\ Cores!In(f.at, Cores!Reads(c))
        /\ \A f \in Cores!FieldsOf(c) : Cores!In(f.at, Cores!Writes(c))
    BY <1>1, <1>4
  <2>4. \A f \in Cores!Status(c) :
          Cores!In(f.at, Cores!ReadsMonitors(c)) <=> f \in Cores!Monitors(c)
    BY <1>1, <1>7
  <2>5. QED
    BY <2>1, <2>2, <2>3, <2>4, Zenon DEF Cores!LayoutOf
<1>9. QED
  BY <1>8 DEF c

\* Every core's.
LEMMA EveryLayout == \A c \in Cores!AllCores : Cores!LayoutOf(c)
<1>1. Cores!LayoutOf("lamp")
  BY LampLaid, WholeLayout DEF Cores!FieldsOf, Cores!Status, Cores!Size
<1>2. Cores!LayoutOf("afc_timing")
  BY TimingLaid, WholeLayout DEF Cores!FieldsOf, Cores!Status, Cores!Size
<1>3. Cores!LayoutOf("fmc_adc_common")
  BY AdcCommonLaid, WholeLayout DEF Cores!FieldsOf, Cores!Status, Cores!Size
<1>4. Cores!LayoutOf("fmc_active_clk")
  BY ActiveClkLaid, WholeLayout DEF Cores!FieldsOf, Cores!Status, Cores!Size
<1>5. Cores!LayoutOf("fmc250m_4ch")
  BY Adc250mLaid, WholeLayout DEF Cores!FieldsOf, Cores!Status, Cores!Size
<1>6. Cores!LayoutOf("spi")
  BY SpiCoreLaid, WholeLayout DEF Cores!FieldsOf, Cores!Status, Cores!Size
<1>7. Cores!LayoutOf("si57x_ctrl")
  BY Si57xLaid, WholeLayout DEF Cores!FieldsOf, Cores!Status, Cores!Size
<1>8. Cores!LayoutOf("acq")
  BY AcqLaid, WholeLayout DEF Cores!FieldsOf, Cores!Status, Cores!Size
<1>9. Cores!LayoutOf("bpm_swap")
  BY BpmSwapLaid, WholeLayout DEF Cores!FieldsOf, Cores!Status, Cores!Size
<1>10. Cores!LayoutOf("orbit_intlk")
  BY OrbitIntlkLaid, WholeLayout DEF Cores!FieldsOf, Cores!Status, Cores!Size
<1>11. Cores!LayoutOf("sys_id")
  BY SysIdLaid, WholeLayout DEF Cores!FieldsOf, Cores!Status, Cores!Size
<1>12. Cores!LayoutOf("trigger_mux")
  BY TriggerMuxLaid, WholeLayout DEF Cores!FieldsOf, Cores!Status, Cores!Size
<1>13. Cores!LayoutOf("trigger_iface")
  BY TriggerIfaceLaid, WholeLayout DEF Cores!FieldsOf, Cores!Status, Cores!Size
<1>14. QED
  BY <1>1, <1>2, <1>3, <1>4, <1>5, <1>6, <1>7, <1>8, <1>9, <1>10, <1>11, <1>12, <1>13,
     PicoLayout, PosCalcLayout, ProcessingLayout, CcLayout
  DEF Cores!AllCores, Cores!ParamCores, Cores!ReadsAtStart, Cores!ReadsFirst

-----------------------------------------------------------------------------
(* The cores.                                                              *)
\* A core stays what it is, and where it has its fields is right.
LEMMA LayoutOfCore ==
  /\ core \in Cores!AllCores => LayoutRight
  /\ LayoutRight /\ core' = core => LayoutRight'
<1>1. \A c : c \in Cores!AllCores <=> c \in RightlyLaid
  BY EveryLayout DEF RightlyLaid
<1>2. QED
  BY <1>1 DEF LayoutRight

\* What LayoutRight says of bits.
LEMMA BitsApart ==
  ASSUME LayoutRight, NEW b
  PROVE  /\ \A f, g \in Cores!FieldsOf(core) :
              b \in Cores!Bits(f) /\ b \in Cores!Bits(g) /\ f.at = g.at => f = g
         /\ \A f, g \in Cores!Status(core) :
              b \in Cores!Bits(f) /\ b \in Cores!Bits(g) /\ f.at = g.at => f = g
         /\ \A f \in Cores!FieldsOf(core), g \in Cores!Status(core) :
              ~ (b \in Cores!Bits(f) /\ b \in Cores!Bits(g) /\ f.at = g.at)
         /\ \A f \in Cores!FieldsOf(core) \cup Cores!Status(core) :
              \A g \in Cores!SecondWrite(core) :
                ~ (b \in Cores!Bits(f) /\ b \in Cores!Bits(g) /\ f.at = g.at)
         /\ \A f \in Cores!Status(core) : b \in Cores!Bits(f) => b \in 0 .. 31
BY Zenon DEF LayoutRight, RightlyLaid, Cores!LayoutOf, Cores!Apart, Cores!Meet

LEMMA Transferred ==
  ASSUME LayoutRight
  PROVE  /\ \A f \in Cores!FieldsOf(core) :
              Cores!In(f.at, Cores!Reads(core)) /\ Cores!In(f.at, Cores!Writes(core))
         /\ \A f \in Cores!Status(core) :
              /\ Cores!In(f.at, Cores!Reads(core))
              /\ Cores!In(f.at, Cores!ReadsMonitors(core)) <=> f \in Cores!Monitors(core)
         /\ Cores!Monitors(core) \subseteq Cores!Status(core)
BY DEF LayoutRight, RightlyLaid, Cores!LayoutOf

\* A bit of a field is one of a set of fields exactly if the field is in the set.
LEMMA BitOf ==
  ASSUME LayoutRight, NEW f \in Cores!FieldsOf(core), NEW b \in Cores!Bits(f)
  PROVE  /\ \A F \in SUBSET Cores!FieldsOf(core) : b \in Cores!BitsAt(F, f.at) <=> f \in F
         /\ \A S \in SUBSET Cores!Status(core) : b \notin Cores!BitsAt(S, f.at)
         /\ b \notin Cores!BitsAt(Cores!SecondWrite(core), f.at)
<1>1. \A F : b \in Cores!BitsAt(F, f.at) <=> \E g \in F : g.at = f.at /\ b \in Cores!Bits(g)
  BY Zenon DEF Cores!BitsAt
<1>2. QED
  BY <1>1, BitsApart

LEMMA StatusBitOf ==
  ASSUME LayoutRight, NEW f \in Cores!Status(core), NEW b \in Cores!Bits(f)
  PROVE  /\ \A S \in SUBSET Cores!Status(core) : b \in Cores!BitsAt(S, f.at) <=> f \in S
         /\ \A F \in SUBSET Cores!FieldsOf(core) : b \notin Cores!BitsAt(F, f.at)
<1>1. \A F : b \in Cores!BitsAt(F, f.at) <=> \E g \in F : g.at = f.at /\ b \in Cores!Bits(g)
  BY Zenon DEF Cores!BitsAt
<1>2. QED
  BY <1>1, BitsApart

\* The value that a core reports at first has all of its bits, or none.
LEMMA FirstStatus ==
  ASSUME LayoutRight, began \in {{}, 0 .. 31}, NEW f \in Cores!Status(core)
  PROVE  \A b \in Cores!Bits(f) : b \in Cores!AtFirst(f.at) <=> began # {}
<1> SUFFICES ASSUME NEW b \in Cores!Bits(f)
             PROVE  b \in Cores!AtFirst(f.at) <=> began # {}
  OBVIOUS
<1> DEFINE Zero == {g \in Cores!FieldsOf(core) : g.command \/ g.name = "CH_SRC"}
<1>1. b \notin Cores!BitsAt(Zero, f.at)
  BY StatusBitOf
<1>2. b \in 0 .. 31
  BY BitsApart
<1>3. QED
  BY <1>1, <1>2 DEF Cores!AtFirst

-----------------------------------------------------------------------------
(* Their invariant.                                                        *)
CoreShape ==
  /\ began \in {{}, 0 .. 31}
  /\ DOMAIN coreHw = Cores!Words(core) /\ DOMAIN regs = Cores!Words(core)
  /\ DOMAIN dec = Cores!Words(core)
  /\ on \subseteq Cores!Known /\ set \subseteq Cores!Known
  /\ shown \subseteq Cores!Status(core)

\* A member that has a value keeps it, unless it is a command.
MembersKept ==
  core \in Cores!ParamCores => on \subseteq set /\ sent \subseteq set \cup Cores!KnownCommands

\* The controller's registers are what the client has written to them.
RegsWritten ==
  core \notin Cores!ParamCores =>
    \A f \in Cores!Known : \A b \in Cores!Bits(f) : b \in regs[f.at] <=> f \in on

\* The core's fields are what was sent, or what they were at first.
FieldsSent ==
  \A f \in Cores!Known : \A b \in Cores!Bits(f) :
    b \in coreHw[f.at] <=> f \in sent \/ (f \in kept /\ b \in Cores!AtFirst(f.at))

FieldsRead ==
  read = "fresh" =>
    \A f \in Cores!Known : \A b \in Cores!Bits(f) : b \in dec[f.at] <=> b \in coreHw[f.at]

\* A client's writes leave what the core reports as it is.
StatusReported ==
  \A f \in Cores!Status(core) : \A b \in Cores!Bits(f) :
    b \in coreHw[f.at] <=> (f \in reported <=> began = {})

StatusRead ==
  \A f \in shown : \A b \in Cores!Bits(f) :
    b \in dec[f.at] <=> (f \in changed <=> began = {})

CoreInv ==
  /\ LayoutRight /\ CoreShape
  /\ MembersKept /\ RegsWritten /\ FieldsSent /\ FieldsRead /\ StatusReported /\ StatusRead

-----------------------------------------------------------------------------
(* The cores' invariant holds at first.                                    *)
LEMMA CoreAtFirst == Cores!Init => CoreInv
<1> SUFFICES ASSUME Cores!Init
             PROVE  CoreInv
  OBVIOUS
<1> USE DEF Cores!Init
<1> LayoutRight
  BY LayoutOfCore
<1>1. CoreShape
  BY DEF CoreShape
<1>2. Cores!ReadsAtStart \subseteq Cores!ParamCores
  BY DEF Cores!ParamCores
<1>3. MembersKept /\ RegsWritten
  <2>1. ASSUME core \notin Cores!ParamCores, NEW f \in Cores!Known
        PROVE  regs[f.at] = {}
    BY <1>2, <2>1 DEF Cores!Known, Cores!Words
  <2>2. QED
    BY <2>1 DEF MembersKept, RegsWritten
<1>4. \A f \in Cores!FieldsOf(core) \cup Cores!Status(core) : coreHw[f.at] = Cores!AtFirst(f.at)
  BY DEF Cores!Words
<1>5. FieldsSent /\ FieldsRead
  BY <1>4 DEF FieldsSent, FieldsRead, Cores!Known
<1>6. StatusReported /\ StatusRead
  BY <1>4, FirstStatus DEF StatusReported, StatusRead
<1>7. QED
  BY <1>1, <1>3, <1>5, <1>6 DEF CoreInv

-----------------------------------------------------------------------------
(* Every step keeps it.                                                    *)
LEMMA LayoutStays ==
  ASSUME CoreInv, core' = core, minor' = minor, began' = began
  PROVE  /\ LayoutRight'
         /\ Cores!Known' = Cores!Known /\ Cores!KnownCommands' = Cores!KnownCommands
         /\ Cores!Words(core)' = Cores!Words(core) /\ Cores!Status(core)' = Cores!Status(core)
         /\ \A w : Cores!AtFirst(w)' = Cores!AtFirst(w)
<1>1. LayoutRight'
  BY LayoutOfCore DEF CoreInv
<1>2. Cores!Known' = Cores!Known
  BY DEF Cores!Known
<1>3. QED
  BY <1>1, <1>2 DEF Cores!KnownCommands, Cores!AtFirst

LEMMA WriteFieldKeeps ==
  ASSUME CoreInv, NEW f \in Cores!Known, NEW value \in BOOLEAN, Cores!WriteField(f, value)
  PROVE  CoreInv'
<1> USE DEF Cores!WriteField, Cores!statusVars
<1>1. LayoutRight /\ CoreShape /\ f \in Cores!FieldsOf(core)
  BY DEF CoreInv, Cores!Known
<1>2. f.at \in DOMAIN regs
  BY <1>1 DEF CoreShape, Cores!Words
<1>3. core' = core /\ minor' = minor /\ began' = began
  OBVIOUS
<1> HIDE DEF Cores!WriteField
<1>4. /\ LayoutRight'
      /\ Cores!Known' = Cores!Known /\ Cores!KnownCommands' = Cores!KnownCommands
      /\ Cores!Words(core)' = Cores!Words(core) /\ Cores!Status(core)' = Cores!Status(core)
      /\ \A w : Cores!AtFirst(w)' = Cores!AtFirst(w)
  BY <1>3, LayoutStays
<1>5. CoreShape'
  BY <1>1, <1>4 DEF CoreShape, Cores!WriteField
<1>6. MembersKept'
  BY <1>4 DEF CoreInv, MembersKept, Cores!WriteField
<1>7. RegsWritten'
  <2> SUFFICES ASSUME core \notin Cores!ParamCores, NEW g \in Cores!Known, NEW b \in Cores!Bits(g)
               PROVE  b \in regs'[g.at] <=> g \in on'
    BY <1>3, <1>4 DEF RegsWritten
  <2>1. b \in regs[g.at] <=> g \in on
    BY DEF CoreInv, RegsWritten
  <2>2. regs' = [regs EXCEPT ![f.at] = IF value THEN @ \cup Cores!Bits(f) ELSE @ \ Cores!Bits(f)]
    BY DEF Cores!WriteField
  <2>3. on' = IF value THEN on \cup {f} ELSE on \ {f}
    BY DEF Cores!WriteField
  <2>4. f # g /\ f.at = g.at => b \notin Cores!Bits(f)
    BY <1>1, BitsApart DEF Cores!Known
  <2>5. CASE f = g
    BY <1>2, <2>2, <2>3, <2>5
  <2>6. CASE f # g /\ f.at = g.at
    BY <1>2, <2>1, <2>2, <2>3, <2>4, <2>6
  <2>7. CASE f # g /\ f.at # g.at
    BY <1>2, <2>1, <2>2, <2>3, <2>7
  <2>8. QED
    BY <2>5, <2>6, <2>7
<1>8. /\ coreHw' = coreHw /\ dec' = dec /\ sent' = sent /\ kept' = kept /\ read' = read
      /\ reported' = reported /\ shown' = shown /\ changed' = changed
  BY DEF Cores!WriteField
<1>9. FieldsSent' /\ FieldsRead'
  BY <1>4, <1>8 DEF CoreInv, FieldsSent, FieldsRead
<1>10. StatusReported' /\ StatusRead'
  BY <1>3, <1>4, <1>8 DEF CoreInv, StatusReported, StatusRead
<1>11. QED
  BY <1>4, <1>5, <1>6, <1>7, <1>9, <1>10 DEF CoreInv

LEMMA ReportKeeps ==
  ASSUME CoreInv, NEW f \in Cores!Status(core), Cores!Report(f)
  PROVE  CoreInv'
<1>1. LayoutRight /\ CoreShape /\ f.at \in DOMAIN coreHw
  BY DEF CoreInv, CoreShape, Cores!Words
<1>2. /\ core' = core /\ minor' = minor /\ began' = began /\ regs' = regs /\ dec' = dec
      /\ set' = set /\ on' = on /\ kept' = kept /\ sent' = sent /\ read' = read
      /\ shown' = shown /\ changed' = changed
  BY DEF Cores!Report
<1>3. /\ LayoutRight'
      /\ Cores!Known' = Cores!Known /\ Cores!KnownCommands' = Cores!KnownCommands
      /\ Cores!Words(core)' = Cores!Words(core) /\ Cores!Status(core)' = Cores!Status(core)
      /\ \A w : Cores!AtFirst(w)' = Cores!AtFirst(w)
  BY <1>2, LayoutStays
<1>4. coreHw' = [coreHw EXCEPT ![f.at] = IF Cores!Bits(f) \subseteq @ THEN @ \ Cores!Bits(f)
                                                                     ELSE @ \cup Cores!Bits(f)]
  BY DEF Cores!Report
<1>5. CoreShape'
  BY <1>1, <1>2, <1>3, <1>4 DEF CoreShape
<1>6. MembersKept' /\ RegsWritten' /\ StatusRead'
  BY <1>2, <1>3 DEF CoreInv, MembersKept, RegsWritten, StatusRead
<1>7. \A g \in Cores!Known : \A b \in Cores!Bits(g) : b \in coreHw'[g.at] <=> b \in coreHw[g.at]
  <2> SUFFICES ASSUME NEW g \in Cores!Known, NEW b \in Cores!Bits(g)
               PROVE  b \in coreHw'[g.at] <=> b \in coreHw[g.at]
    OBVIOUS
  <2>1. g.at = f.at => b \notin Cores!Bits(f)
    BY <1>1, BitsApart DEF Cores!Known
  <2>2. CASE g.at = f.at
    BY <1>1, <1>4, <2>1, <2>2
  <2>3. CASE g.at # f.at
    BY <1>1, <1>4, <2>3
  <2>4. QED
    BY <2>2, <2>3
<1>8. FieldsSent' /\ FieldsRead'
  BY <1>2, <1>3, <1>7 DEF CoreInv, FieldsSent, FieldsRead
<1>9. StatusReported'
  <2> SUFFICES ASSUME NEW g \in Cores!Status(core), NEW b \in Cores!Bits(g)
               PROVE  b \in coreHw'[g.at] <=> (g \in reported' <=> began = {})
    BY <1>2, <1>3 DEF StatusReported
  <2>1. \A h \in Cores!Status(core) : \A c \in Cores!Bits(h) :
          c \in coreHw[h.at] <=> (h \in reported <=> began = {})
    BY DEF CoreInv, StatusReported
  <2>2. reported' = IF f \in reported THEN reported \ {f} ELSE reported \cup {f}
    BY DEF Cores!Report
  <2>3. f # g /\ f.at = g.at => b \notin Cores!Bits(f)
    BY <1>1, BitsApart
  <2>4. CASE f = g
    <3>1. Cores!Bits(f) \subseteq coreHw[f.at] <=> b \in coreHw[f.at]
      BY <2>1, <2>4
    <3>2. b \in coreHw'[f.at] <=> ~ (b \in coreHw[f.at])
      BY <1>1, <1>4, <2>4, <3>1
    <3>3. f \in reported' <=> ~ (f \in reported)
      BY <2>2
    <3>4. b \in coreHw[f.at] <=> (f \in reported <=> began = {})
      BY <2>1, <2>4
    <3>5. QED
      BY <2>4, <3>2, <3>3, <3>4
  <2>5. CASE f # g /\ f.at = g.at
    BY <1>1, <1>4, <2>1, <2>2, <2>3, <2>5
  <2>6. CASE f # g /\ f.at # g.at
    BY <1>1, <1>4, <2>1, <2>2, <2>6
  <2>7. QED
    BY <2>4, <2>5, <2>6
<1>10. QED
  BY <1>3, <1>5, <1>6, <1>8, <1>9 DEF CoreInv

\* What encode_params makes of a field's bit, and of one that the core reports.
LEMMA BitEncoded ==
  ASSUME CoreInv, core \in Cores!ParamCores, NEW f \in Cores!Known, NEW b \in Cores!Bits(f)
  PROVE  b \in Cores!Encoded(f.at)
           <=> f \in on \/ (/\ core \in Cores!ReadsFirst /\ f \notin set /\ ~ f.command
                            /\ b \in coreHw[f.at])
<1>1. /\ LayoutRight /\ f \in Cores!FieldsOf(core)
      /\ on \subseteq Cores!Known /\ set \subseteq Cores!Known
      /\ Cores!Known \subseteq Cores!FieldsOf(core)
      /\ Cores!KnownCommands \subseteq Cores!FieldsOf(core)
      /\ f \in Cores!KnownCommands <=> f.command
  BY DEF CoreInv, CoreShape, Cores!Known, Cores!KnownCommands
<1>2. \A F \in SUBSET Cores!FieldsOf(core) : b \in Cores!BitsAt(F, f.at) <=> f \in F
  BY <1>1, BitOf
<1>3. /\ b \in Cores!BitsAt(on, f.at) <=> f \in on
      /\ b \in Cores!BitsAt(set, f.at) <=> f \in set
      /\ b \in Cores!BitsAt(Cores!Known, f.at)
      /\ b \in Cores!BitsAt(Cores!KnownCommands, f.at) <=> f.command
  BY <1>1, <1>2
<1>4. CASE core \in Cores!ReadsFirst
  <2>1. Cores!Encoded(f.at) = ((coreHw[f.at] \ Cores!BitsAt(Cores!KnownCommands, f.at))
                                 \ Cores!BitsAt(set, f.at)) \cup Cores!BitsAt(on, f.at)
    BY <1>4 DEF Cores!Encoded, Cores!Given
  <2>2. QED
    BY <1>3, <1>4, <2>1
<1>5. CASE core \notin Cores!ReadsFirst
  <2>1. Cores!Encoded(f.at) = (regs[f.at] \ Cores!BitsAt(Cores!Known, f.at))
                                \cup Cores!BitsAt(on, f.at)
    BY <1>5 DEF Cores!Encoded, Cores!Given
  <2>2. QED
    BY <1>3, <1>5, <2>1
<1>6. QED
  BY <1>4, <1>5

LEMMA WriteParamsKeeps ==
  ASSUME CoreInv, Cores!WriteParams
  PROVE  CoreInv'
<1> DEFINE Encoded(w) == IF core \in Cores!ParamCores THEN Cores!Encoded(w) ELSE regs[w]
           Kept(w) == Cores!BitsAt(Cores!Status(core), w)
           Applied(w) == Encoded(w) \cup Cores!BitsAt(Cores!SecondWrite(core), w)
<1>1. LayoutRight /\ CoreShape
  BY DEF CoreInv
<1>2. /\ core' = core /\ minor' = minor /\ began' = began /\ dec' = dec
      /\ reported' = reported /\ shown' = shown /\ changed' = changed
      /\ set' = set \ Cores!KnownCommands /\ on' = on \ Cores!KnownCommands
      /\ kept' = kept \ Cores!Given /\ sent' = on /\ read' = "stale"
  BY DEF Cores!WriteParams, Cores!statusVars
<1>3. /\ DOMAIN coreHw' = Cores!Words(core) /\ DOMAIN regs' = Cores!Words(core)
      /\ \A w \in Cores!Words(core) :
           coreHw'[w] = IF Cores!In(w, Cores!Writes(core))
                        THEN (Applied(w) \ Kept(w)) \cup (coreHw[w] \cap Kept(w))
                        ELSE coreHw[w]
      /\ \A w \in Cores!Words(core) :
           regs'[w] = IF core \in Cores!ParamCores THEN Encoded(w)
                      ELSE Encoded(w) \ Cores!BitsAt(Cores!KnownCommands, w)
  BY <1>1 DEF Cores!WriteParams, CoreShape
<1>4. /\ LayoutRight'
      /\ Cores!Known' = Cores!Known /\ Cores!KnownCommands' = Cores!KnownCommands
      /\ Cores!Words(core)' = Cores!Words(core) /\ Cores!Status(core)' = Cores!Status(core)
      /\ \A w : Cores!AtFirst(w)' = Cores!AtFirst(w)
  BY <1>2, LayoutStays
<1>5. CoreShape'
  BY <1>1, <1>2, <1>3, <1>4 DEF CoreShape
<1>6. MembersKept'
  BY <1>2, <1>4 DEF CoreInv, MembersKept
<1> HIDE DEF Encoded, Kept, Applied
<1>7. RegsWritten'
  <2> SUFFICES ASSUME core \notin Cores!ParamCores, NEW f \in Cores!Known, NEW b \in Cores!Bits(f)
               PROVE  b \in regs'[f.at] <=> f \in on'
    BY <1>2, <1>4 DEF RegsWritten
  <2>1. b \in regs[f.at] <=> f \in on
    BY DEF CoreInv, RegsWritten
  <2>2. f \in Cores!FieldsOf(core) /\ Cores!KnownCommands \in SUBSET Cores!FieldsOf(core)
    BY DEF Cores!Known, Cores!KnownCommands
  <2>3. b \in Cores!BitsAt(Cores!KnownCommands, f.at) <=> f \in Cores!KnownCommands
    BY <1>1, <2>2, BitOf
  <2>4. regs'[f.at] = regs[f.at] \ Cores!BitsAt(Cores!KnownCommands, f.at)
    BY <1>3, <2>2 DEF Encoded, Cores!Words
  <2>5. QED
    BY <1>2, <2>1, <2>3, <2>4
<1>8. FieldsSent'
  <2> SUFFICES ASSUME NEW f \in Cores!Known, NEW b \in Cores!Bits(f)
               PROVE  b \in coreHw'[f.at] <=> f \in on \/ (f \in kept' /\ b \in Cores!AtFirst(f.at))
    BY <1>2, <1>4 DEF FieldsSent
  <2>1. f \in Cores!FieldsOf(core) /\ f.at \in Cores!Words(core)
    BY DEF Cores!Known, Cores!Words
  <2>2. Cores!In(f.at, Cores!Writes(core))
    BY <1>1, <2>1, Transferred
  <2>3. b \notin Kept(f.at) /\ b \notin Cores!BitsAt(Cores!SecondWrite(core), f.at)
    BY <1>1, <2>1, BitOf DEF Kept
  <2>4. b \in coreHw'[f.at] <=> b \in Encoded(f.at)
    <3>1. coreHw'[f.at] = (Applied(f.at) \ Kept(f.at)) \cup (coreHw[f.at] \cap Kept(f.at))
      BY <1>3, <2>1, <2>2
    <3>2. b \in Applied(f.at) <=> b \in Encoded(f.at)
      BY <2>3 DEF Applied
    <3>3. QED
      BY <2>3, <3>1, <3>2
  <2>5. CASE core \in Cores!ReadsFirst
    <3>1. core \in Cores!ParamCores /\ Cores!Given = set
      BY <2>5 DEF Cores!ParamCores, Cores!Given
    <3>2. b \in Encoded(f.at) <=>
            f \in on \/ (f \notin set /\ ~ f.command /\ b \in coreHw[f.at])
      BY <2>5, <3>1, BitEncoded DEF Encoded
    <3>3. b \in coreHw[f.at] <=> f \in sent \/ (f \in kept /\ b \in Cores!AtFirst(f.at))
      BY DEF CoreInv, FieldsSent
    <3>4. /\ f \in on => f \in set
          /\ f \in sent => f \in set \/ f \in Cores!KnownCommands
      BY <3>1 DEF CoreInv, MembersKept
    <3>5. f \in Cores!KnownCommands <=> f.command
      BY DEF Cores!KnownCommands
    <3>6. f.command => b \notin Cores!AtFirst(f.at)
      <4>1. DEFINE Zero == {g \in Cores!FieldsOf(core) : g.command \/ g.name = "CH_SRC"}
      <4>2. f.command => f \in Zero
        BY <2>1
      <4>3. f.command => b \in Cores!BitsAt(Zero, f.at)
        BY <1>1, <2>1, <4>2, BitOf
      <4>4. QED
        BY <4>3 DEF Cores!AtFirst
    <3>7. f \in kept' <=> f \in kept /\ f \notin set
      BY <1>2, <3>1
    <3>8. QED
      BY <2>4, <3>2, <3>3, <3>4, <3>5, <3>6, <3>7
  <2>6. CASE core \notin Cores!ReadsFirst
    <3>1. f \notin kept'
      BY <1>2, <2>6 DEF Cores!Given
    <3>2. CASE core \in Cores!ParamCores
      <4>1. b \in Encoded(f.at) <=> f \in on
        BY <2>6, <3>2, BitEncoded DEF Encoded
      <4>2. QED
        BY <2>4, <3>1, <4>1
    <3>3. CASE core \notin Cores!ParamCores
      <4>1. b \in Encoded(f.at) <=> f \in on
        BY <3>3 DEF CoreInv, RegsWritten, Encoded
      <4>2. QED
        BY <2>4, <3>1, <4>1
    <3>4. QED
      BY <3>2, <3>3
  <2>7. QED
    BY <2>5, <2>6
<1>9. FieldsRead'
  BY <1>2 DEF FieldsRead
<1>10. StatusReported'
  <2> SUFFICES ASSUME NEW f \in Cores!Status(core), NEW b \in Cores!Bits(f)
               PROVE  b \in coreHw'[f.at] <=> (f \in reported <=> began = {})
    BY <1>2, <1>4 DEF StatusReported
  <2>1. b \in Kept(f.at)
    BY <1>1, StatusBitOf DEF Kept
  <2>2. f.at \in Cores!Words(core)
    BY DEF Cores!Words
  <2>3. b \in coreHw'[f.at] <=> b \in coreHw[f.at]
    BY <1>3, <2>1, <2>2
  <2>4. QED
    BY <2>3 DEF CoreInv, StatusReported
<1>11. StatusRead'
  BY <1>2, <1>4 DEF CoreInv, StatusRead
<1>12. QED
  BY <1>4, <1>5, <1>6, <1>7, <1>8, <1>9, <1>10, <1>11 DEF CoreInv

\* A read of some of the core's words.
LEMMA DecodedKeeps ==
  ASSUME CoreInv, NEW blocks, Cores!Decoded(blocks), shown' \subseteq Cores!Status(core),
         read' = "fresh" => read = "fresh" \/ \A f \in Cores!Known : Cores!In(f.at, blocks),
         \A f \in shown' : IF Cores!In(f.at, blocks) THEN f \in changed' <=> f \in reported
                           ELSE f \in shown /\ (f \in changed' <=> f \in changed)
  PROVE  CoreInv'
<1>1. LayoutRight /\ CoreShape
  BY DEF CoreInv
<1>2. /\ core' = core /\ minor' = minor /\ began' = began /\ coreHw' = coreHw /\ regs' = regs
      /\ set' = set /\ on' = on /\ kept' = kept /\ sent' = sent /\ reported' = reported
  BY DEF Cores!Decoded
<1>3. /\ DOMAIN dec' = Cores!Words(core)
      /\ \A w \in Cores!Words(core) :
           dec'[w] = IF Cores!In(w, blocks) THEN coreHw[w] ELSE dec[w]
  BY <1>1 DEF Cores!Decoded, CoreShape
<1>4. /\ LayoutRight'
      /\ Cores!Known' = Cores!Known /\ Cores!KnownCommands' = Cores!KnownCommands
      /\ Cores!Words(core)' = Cores!Words(core) /\ Cores!Status(core)' = Cores!Status(core)
      /\ \A w : Cores!AtFirst(w)' = Cores!AtFirst(w)
  BY <1>2, LayoutStays
<1>5. CoreShape'
  BY <1>1, <1>2, <1>3, <1>4 DEF CoreShape
<1>6. MembersKept' /\ RegsWritten' /\ FieldsSent' /\ StatusReported'
  BY <1>2, <1>4 DEF CoreInv, MembersKept, RegsWritten, FieldsSent, StatusReported
<1>7. FieldsRead'
  <2> SUFFICES ASSUME read' = "fresh", NEW f \in Cores!Known, NEW b \in Cores!Bits(f)
               PROVE  b \in dec'[f.at] <=> b \in coreHw[f.at]
    BY <1>2, <1>4 DEF FieldsRead
  <2>1. f.at \in Cores!Words(core)
    BY DEF Cores!Known, Cores!Words
  <2>2. CASE Cores!In(f.at, blocks)
    BY <1>3, <2>1, <2>2
  <2>3. CASE ~ Cores!In(f.at, blocks)
    <3>1. b \in dec[f.at] <=> b \in coreHw[f.at]
      BY <2>3 DEF CoreInv, FieldsRead
    <3>2. QED
      BY <1>3, <2>1, <2>3, <3>1
  <2>4. QED
    BY <2>2, <2>3
<1>8. StatusRead'
  <2> SUFFICES ASSUME NEW f \in shown', NEW b \in Cores!Bits(f)
               PROVE  b \in dec'[f.at] <=> (f \in changed' <=> began = {})
    BY <1>2 DEF StatusRead
  <2>1. f \in Cores!Status(core) /\ f.at \in Cores!Words(core)
    BY DEF Cores!Words
  <2>2. CASE Cores!In(f.at, blocks)
    <3>1. b \in coreHw[f.at] <=> (f \in reported <=> began = {})
      BY <2>1 DEF CoreInv, StatusReported
    <3>2. QED
      BY <1>3, <2>1, <2>2, <3>1
  <2>3. CASE ~ Cores!In(f.at, blocks)
    <3>1. b \in dec[f.at] <=> (f \in changed <=> began = {})
      BY <2>3 DEF CoreInv, StatusRead
    <3>2. QED
      BY <1>3, <2>1, <2>3, <3>1
  <2>4. QED
    BY <2>2, <2>3
<1>9. QED
  BY <1>4, <1>5, <1>6, <1>7, <1>8 DEF CoreInv

LEMMA GetDataKeeps == CoreInv /\ Cores!GetData => CoreInv'
<1> SUFFICES ASSUME CoreInv, Cores!GetData
             PROVE  CoreInv'
  OBVIOUS
<1>1. /\ Cores!Decoded(Cores!Reads(core)) /\ shown' = Cores!Status(core) /\ changed' = reported
  BY DEF Cores!GetData
<1>2. \A f \in Cores!FieldsOf(core) \cup Cores!Status(core) : Cores!In(f.at, Cores!Reads(core))
  BY Transferred DEF CoreInv
<1>3. QED
  BY <1>1, <1>2, DecodedKeeps DEF Cores!Known

LEMMA GetMonitorsKeeps == CoreInv /\ Cores!GetMonitors => CoreInv'
<1> SUFFICES ASSUME CoreInv, Cores!GetMonitors
             PROVE  CoreInv'
  OBVIOUS
<1>1. /\ Cores!Decoded(Cores!ReadsMonitors(core)) /\ read' = read
      /\ shown' = shown \cup Cores!Monitors(core)
      /\ changed' = (changed \ Cores!Monitors(core)) \cup (reported \cap Cores!Monitors(core))
  BY DEF Cores!GetMonitors
<1>2. /\ Cores!Monitors(core) \subseteq Cores!Status(core)
      /\ \A f \in Cores!Status(core) :
           Cores!In(f.at, Cores!ReadsMonitors(core)) <=> f \in Cores!Monitors(core)
  BY Transferred DEF CoreInv
<1>3. shown \subseteq Cores!Status(core)
  BY DEF CoreInv, CoreShape
<1>4. QED
  BY <1>1, <1>2, <1>3, DecodedKeeps

LEMMA CoreInvKept == CoreInv /\ [Cores!Next]_coreVars => CoreInv'
<1>1. CoreInv /\ UNCHANGED coreVars => CoreInv'
  <2> SUFFICES ASSUME CoreInv, UNCHANGED coreVars
               PROVE  CoreInv'
    OBVIOUS
  <2>1. /\ core' = core /\ minor' = minor /\ began' = began /\ coreHw' = coreHw /\ regs' = regs
        /\ dec' = dec /\ set' = set /\ on' = on /\ kept' = kept /\ sent' = sent /\ read' = read
        /\ reported' = reported /\ shown' = shown /\ changed' = changed
    BY DEF coreVars
  <2>2. /\ LayoutRight'
        /\ Cores!Known' = Cores!Known /\ Cores!KnownCommands' = Cores!KnownCommands
        /\ Cores!Words(core)' = Cores!Words(core) /\ Cores!Status(core)' = Cores!Status(core)
        /\ \A w : Cores!AtFirst(w)' = Cores!AtFirst(w)
    BY <2>1, LayoutStays
  <2>3. CoreShape' /\ MembersKept' /\ RegsWritten'
    BY <2>1, <2>2 DEF CoreInv, CoreShape, MembersKept, RegsWritten
  <2>4. FieldsSent' /\ FieldsRead' /\ StatusReported' /\ StatusRead'
    BY <2>1, <2>2 DEF CoreInv, FieldsSent, FieldsRead, StatusReported, StatusRead
  <2>5. QED
    BY <2>2, <2>3, <2>4 DEF CoreInv
<1>2. QED
  BY <1>1, WriteFieldKeeps, ReportKeeps, WriteParamsKeeps, GetDataKeeps, GetMonitorsKeeps
  DEF Cores!Next

-----------------------------------------------------------------------------
(* What the cores' invariant gives.                                        *)
LEMMA CoreInvGives == CoreInv => NamedArrives /\ StatusShown
<1> SUFFICES ASSUME CoreInv
             PROVE  NamedArrives /\ StatusShown
  OBVIOUS
<1>1. ASSUME read = "fresh", NEW f \in Cores!Known
      PROVE  dec[f.at] \cap Cores!Bits(f) =
               IF f \in sent THEN Cores!Bits(f)
               ELSE IF f \in kept THEN Cores!AtFirst(f.at) \cap Cores!Bits(f) ELSE {}
  <2>1. \A b \in Cores!Bits(f) :
          b \in dec[f.at] <=> f \in sent \/ (f \in kept /\ b \in Cores!AtFirst(f.at))
    BY <1>1 DEF CoreInv, FieldsRead, FieldsSent
  <2>2. QED
    BY <2>1
<1>2. ASSUME NEW f \in shown
      PROVE  dec[f.at] \cap Cores!Bits(f) =
               IF f \in changed THEN Cores!Bits(f) \ Cores!AtFirst(f.at)
                                ELSE Cores!Bits(f) \cap Cores!AtFirst(f.at)
  <2>1. \A b \in Cores!Bits(f) : b \in dec[f.at] <=> (f \in changed <=> began = {})
    BY DEF CoreInv, StatusRead
  <2>2. \A b \in Cores!Bits(f) : b \in Cores!AtFirst(f.at) <=> began # {}
    BY FirstStatus DEF CoreInv, CoreShape
  <2>3. QED
    BY <2>1, <2>2
<1>3. QED
  BY <1>1, <1>2 DEF NamedArrives, Cores!NamedArrives, StatusShown, Cores!StatusShown

\* The invariant holds of every core.
LEMMA CoreAlways == Cores!Spec => []CoreInv
<1>1. CoreInv /\ [Cores!Next]_<<core, minor, coreHw, regs, dec, set, on, aborted, began, kept,
                                sent, read, reported, shown, changed>> => CoreInv'
  BY CoreInvKept DEF coreVars
<1>2. Cores!Spec <=>
        Cores!Init /\ [][Cores!Next]_<<core, minor, coreHw, regs, dec, set, on, aborted, began,
                                       kept, sent, read, reported, shown, changed>>
  BY DEF Cores!Spec, Cores!vars
<1>3. QED
  BY <1>1, <1>2, CoreAtFirst, PTL

\* Of the masks of every core, for any elements of its arrays, and whatever the client does
\* with the core: no two values share a bit, read and write_params transfer all that a client
\* sets and decode shows, and neither accesses a word that does something else.
THEOREM LayoutHolds == Cores!Spec => []LayoutRight
<1>1. CoreInv => LayoutRight
  BY DEF CoreInv
<1>2. QED
  BY <1>1, CoreAlways, PTL

\* In every core, in whatever order the client writes fields, sends them and reads them and
\* the core reports new values: what the client has set is in the core after the next
\* write_params and is what the decoder then shows; every other field is as the class leaves it.
THEOREM Arrives == Cores!Spec => []NamedArrives
BY CoreAlways, CoreInvGives, PTL

\* In every core the decoder shows what the core reported at the last get_data that read it,
\* whatever the client has written in the same words.
THEOREM Shown == Cores!Spec => []StatusShown
BY CoreAlways, CoreInvGives, PTL
==============================================================================
