----------------------- MODULE DistanceInjectorProofs -----------------------
(***************************************************************************)
(* Theorems about DistanceInjector, for every element size, bit depth,     *)
(* number of elements and set of distances.  The count is in bytes and in  *)
(* bits by turns, and truncates; counted in elements it is exact, and the  *)
(* truncation loses less than one element between two faults.              *)
(***************************************************************************)
EXTENDS DistanceInjector, TLAPS

(***************************************************************************)
(* Arithmetic.                                                             *)
(***************************************************************************)
LEMMA Division ==
  ASSUME NEW m \in Nat \ {0}, NEW n \in Int
  PROVE  /\ n \div m \in Int /\ n % m \in 0 .. (m - 1)
         /\ n = (m * (n \div m)) + (n % m)
OBVIOUS

LEMMA Sizes == /\ DataSize \in Nat \ {0} /\ DataSize \in Int
               /\ BitDepth \in Nat \ {0} /\ BitDepth \in Int
               /\ Count \in Nat \ {0} /\ Distances \subseteq Nat
BY DistanceAssumption

\* Multiples keep the order of what they are multiples of.
LEMMA MultiplesOrdered ==
  ASSUME NEW m \in Nat \ {0}, NEW j \in Int, NEW k \in Int
  PROVE  /\ m * j \in Int
         /\ j < k => m * j + m <= m * k
         /\ m * j = m * k => j = k
         /\ m * j <= m * k => j <= k
<1>1. m * j \in Int /\ m * k \in Int
  OBVIOUS
<1>2. ASSUME NEW x \in Int, NEW y \in Int, x < y PROVE m * x + m <= m * y
  <2>1. m * (x + 1) <= m * y
    BY <1>2
  <2>2. m * (x + 1) = m * x + m
    OBVIOUS
  <2> QED BY <2>1, <2>2
<1>3. j < k => m * j + m <= m * k
  BY <1>2
<1>4. k < j => m * k + m <= m * j
  BY <1>2
<1>5. j < k \/ j = k \/ k < j
  OBVIOUS
<1> QED BY <1>1, <1>3, <1>4, <1>5

\* Division that truncates towards zero.
LEMMA QuotientBounds ==
  ASSUME NEW m \in Nat \ {0}, NEW n \in Int
  PROVE  /\ Quotient(n, m) \in Int
         /\ n - m * Quotient(n, m) \in (1 - m) .. (m - 1)
         /\ 0 <= n => 0 <= Quotient(n, m)
<1> DEFINE q == Absolute(n) \div m
           r == Absolute(n) % m
<1>1. Absolute(n) \in Nat /\ (n < 0 => Absolute(n) = -n) /\ (0 <= n => Absolute(n) = n)
  BY DEF Absolute
<1>2. q \in Int /\ r \in 0 .. (m - 1) /\ Absolute(n) = (m * q) + r
  <2>1. Absolute(n) \in Int
    BY <1>1
  <2> QED BY <2>1, Division
<1>3. Quotient(n, m) = IF n < 0 THEN -q ELSE q
  BY <1>1 DEF Quotient
<1> HIDE DEF q, r
<1>4. 0 <= q
  <2>1. ASSUME q < 0 PROVE FALSE
    <3>1. m * q + m <= m * 0
      BY <1>2, <2>1, MultiplesOrdered
    <3>2. m * q \in Int /\ m * 0 = 0
      BY <1>2
    <3> QED BY <1>1, <1>2, <3>1, <3>2
  <2> QED BY <1>2, <2>1
<1>5. CASE n < 0
  <2>1. m * (-q) = -(m * q) /\ m * q \in Int
    BY <1>2
  <2> QED BY <1>1, <1>2, <1>3, <1>4, <1>5, <2>1
<1>6. CASE 0 <= n
  <2>1. m * q \in Int
    BY <1>2
  <2> QED BY <1>1, <1>2, <1>3, <1>4, <1>6, <2>1
<1> QED BY <1>5, <1>6

LEMMA QuotientOfMultiple ==
  ASSUME NEW m \in Nat \ {0}, NEW k \in Int
  PROVE  Quotient(m * k, m) = k
<1> DEFINE q == Quotient(m * k, m)
<1>1. m * k \in Int
  OBVIOUS
<1>2. q \in Int /\ (m * k) - (m * q) \in (1 - m) .. (m - 1)
  BY <1>1, QuotientBounds
<1> HIDE DEF q
<1>3. m * q \in Int
  BY <1>2
<1>4. (q < k => m * q + m <= m * k) /\ (k < q => m * k + m <= m * q)
  BY <1>2, MultiplesOrdered
<1>5. ~(q < k) /\ ~(k < q)
  BY <1>1, <1>2, <1>3, <1>4
<1> QED BY <1>2, <1>5 DEF q

\* It never passes a multiple on its way to zero.
LEMMA QuotientFrom ==
  ASSUME NEW m \in Nat \ {0}, NEW n \in Int, NEW k \in Int, k < 0, m * k <= n
  PROVE  k <= Quotient(n, m)
<1> DEFINE q == Quotient(n, m)
           p == Absolute(n) \div m
<1>1. q \in Int /\ (0 <= n => 0 <= q)
  BY QuotientBounds
<1>2. CASE 0 <= n
  BY <1>1, <1>2
<1>3. CASE n < 0
  <2>1. Absolute(n) = -n /\ Absolute(n) \in Int /\ q = -p
    BY <1>3 DEF Absolute, Quotient
  <2>2. p \in Int /\ Absolute(n) % m \in 0 .. (m - 1) /\ -n = (m * p) + (Absolute(n) % m)
    BY <2>1, Division
  <2> HIDE DEF p, q
  <2>3. m * p \in Int /\ m * k \in Int /\ m * (-k) = -(m * k)
    BY <2>2
  <2>4. m * p <= m * (-k)
    BY <2>2, <2>3
  <2>5. p <= -k
    BY <2>2, <2>4, MultiplesOrdered
  <2> QED BY <2>1, <2>2, <2>5 DEF q
<1> QED BY <1>2, <1>3

LEMMA RemainderBounds ==
  ASSUME NEW m \in Nat \ {0}, NEW n \in Int
  PROVE  Absolute(Remainder(n, m)) \in 0 .. (m - 1)
<1>1. Remainder(n, m) \in (1 - m) .. (m - 1)
  BY QuotientBounds DEF Remainder
<1> QED BY <1>1 DEF Absolute

-----------------------------------------------------------------------------
(***************************************************************************)
(* The next distance, in elements.                                         *)
(***************************************************************************)
\* A number of elements is a number of bits, to less than one element.
Near(elements, bits) == Absolute(elements * BitDepth - bits) < BitDepth

\* From a distance of k elements, the record after bits more are drawn.
LEMMA UpdateCounts ==
  ASSUME NEW k \in Int, NEW bits \in Distances
  PROVE  \E j \in Int :
           /\ Update(DataSize * k, bits).nextErrorDistance = DataSize * j
           /\ Update(DataSize * k, bits).injectionBit \in 0 .. (BitDepth - 1)
           /\ Update(DataSize * k, bits) \in [nextErrorDistance : Int, injectionBit : 0 .. (BitDepth - 1)]
           /\ Near(j - k, bits)
           /\ k < 0 => k <= j
           /\ 0 <= k => 0 <= j
<1> DEFINE x == NextDistanceInBits(DataSize * k, bits)
           j == Quotient(x, BitDepth)
           u == Update(DataSize * k, bits)
<1>1. DataSize \in Nat \ {0} /\ BitDepth \in Nat \ {0} /\ bits \in Nat
  BY Sizes
<1>2. x = k * BitDepth + bits
  <2>1. Quotient(DataSize * k, DataSize) = k
    BY <1>1, QuotientOfMultiple
  <2> QED BY <2>1 DEF NextDistanceInBits
<1>3. k * BitDepth \in Int /\ BitDepth * k = k * BitDepth
  BY <1>1
<1> HIDE DEF x
<1>4. x \in Int
  BY <1>1, <1>2, <1>3
<1>5. j \in Int /\ x - BitDepth * j \in (1 - BitDepth) .. (BitDepth - 1) /\ (0 <= x => 0 <= j)
  BY <1>1, <1>4, QuotientBounds
<1>6. k < 0 => k <= j
  <2>1. BitDepth * k <= x
    BY <1>1, <1>2, <1>3
  <2> QED BY <1>1, <1>4, <2>1, QuotientFrom
<1>7. 0 <= k => 0 <= j
  <2>1. 0 <= k => 0 <= k * BitDepth
    <3>1. 0 < k => BitDepth * 0 + BitDepth <= BitDepth * k
      BY <1>1, MultiplesOrdered
    <3>2. BitDepth * 0 = 0
      BY <1>1
    <3> QED BY <1>1, <1>3, <3>1, <3>2
  <2> QED BY <1>1, <1>2, <1>3, <1>5, <2>1
<1>8. u = [nextErrorDistance |-> j * DataSize, injectionBit |-> Absolute(Remainder(x, BitDepth))]
  BY DEF Update, InjectionBit, x
<1>9. Absolute(Remainder(x, BitDepth)) \in 0 .. (BitDepth - 1)
  BY <1>1, <1>4, RemainderBounds
<1> HIDE DEF j, u
<1>10. j * DataSize = DataSize * j /\ DataSize * j \in Int
  BY <1>1, <1>5
<1>11. Near(j - k, bits)
  <2>1. (j - k) * BitDepth = BitDepth * j - BitDepth * k /\ BitDepth * j \in Int
    BY <1>1, <1>5
  <2>2. (j - k) * BitDepth - bits = -(x - BitDepth * j)
    BY <1>1, <1>2, <1>3, <1>5, <2>1
  <2>3. (j - k) * BitDepth - bits \in (1 - BitDepth) .. (BitDepth - 1)
    BY <1>1, <1>4, <1>5, <2>1, <2>2
  <2> QED BY <1>1, <2>3 DEF Near, Absolute
<1> QED BY <1>5, <1>6, <1>7, <1>8, <1>9, <1>10, <1>11 DEF u

-----------------------------------------------------------------------------
(***************************************************************************)
(* The inductive invariant, counted in elements.                           *)
(***************************************************************************)
Record == [nextErrorDistance : Int, injectionBit : 0 .. (BitDepth - 1)]

\* Only the category being injected may have come to its fault.
Counted ==
  /\ records \in [Categories -> Record]
  /\ category \in Categories
  /\ drawn \in [Categories -> Distances] /\ passed \in [Categories -> Nat]
  /\ \A c \in Categories : \E k \in Int : Distance(c) = DataSize * k
  /\ \A c \in Categories \ {category} : 0 <= Distance(c)

\* The access is of the elements first .. last, the count has come to element
\* p of them, and the next fault, if it is in the access, not behind p.
Covers(first, last, p) ==
  /\ DOMAIN flipped = first .. last
  /\ access = (first * DataSize) .. (last * DataSize + DataSize - 1)
  /\ data = DataSize * p /\ size = DataSize * (last + 1 - p)
  /\ first <= p
  /\ \A k \in Int : Distance(category) = DataSize * k /\ k < 0 => p <= last + 1 + k

Located == \E first, last, p \in Int : Covers(first, last, p)

\* Elements passed since the last fault and elements to go make up what was
\* drawn: during an injection the access counts in full.
Spaced ==
  /\ \A c \in Categories, k \in Int :
       Distance(c) = DataSize * k /\ 0 <= k => Near(passed[c] + k, drawn[c])
  /\ \A k, n \in Int :
       Distance(category) = DataSize * k /\ k < 0 /\ size = DataSize * n =>
         Near(passed[category] + n + k, drawn[category])
  /\ Near(spacing.elements, spacing.bits)

\* Behind data nothing has been flipped yet, and a read has a backup of data if
\* it has any.
Saved ==
  /\ flipped = [e \in DOMAIN flipped |-> flipped[e]]
  /\ \A e \in DOMAIN flipped : flipped[e] \subseteq 0 .. (BitDepth - 1)
  /\ DOMAIN backups \subseteq DOMAIN flipped
  /\ \A e \in DOMAIN backups : backups[e] = {}
  /\ \A e \in DOMAIN flipped : data < DataSize * e => flipped[e] = {}
  /\ category = "read" =>
       /\ \A e \in DOMAIN flipped : flipped[e] # {} => e \in DOMAIN backups
       /\ DOMAIN backups # {} => \E e \in DOMAIN backups : data = DataSize * e

IInv == Counted /\ Located /\ Spaced /\ Saved

LEMMA Signs ==
  ASSUME NEW k \in Int
  PROVE  /\ DataSize * k < 0 <=> k < 0
         /\ DataSize * k \in Int
<1>1. DataSize \in Nat \ {0} /\ DataSize * 0 = 0
  BY Sizes
<1>2. DataSize * k \in Int
  BY <1>1
<1>3. k < 0 => DataSize * k + DataSize <= 0
  BY <1>1, MultiplesOrdered
<1>4. 0 <= k => 0 <= DataSize * k
  <2>1. 0 < k => DataSize * 0 + DataSize <= DataSize * k
    BY <1>1, MultiplesOrdered
  <2> QED BY <1>1, <2>1
<1> QED BY <1>1, <1>2, <1>3, <1>4

LEMMA InitIInv == Init => IInv
<1> SUFFICES ASSUME Init PROVE IInv
  OBVIOUS
<1>1. DataSize \in Nat \ {0} /\ BitDepth \in Nat \ {0} /\ DataSize * 0 = 0 /\ Distances \subseteq Nat
  BY Sizes
<1>2. ASSUME NEW c \in Categories
      PROVE  /\ records[c] \in Record
             /\ \E k \in Int : Distance(c) = DataSize * k /\ 0 <= k /\ Near(k, drawn[c])
  <2>1. records[c] = Update(DataSize * 0, drawn[c]) /\ drawn[c] \in Distances
    BY <1>1 DEF Init
  <2>2. PICK k \in Int :
          /\ Update(DataSize * 0, drawn[c]).nextErrorDistance = DataSize * k
          /\ Update(DataSize * 0, drawn[c]) \in Record
          /\ Near(k - 0, drawn[c]) /\ 0 <= k
    BY <2>1, UpdateCounts DEF Record
  <2>3. k - 0 = k
    OBVIOUS
  <2> QED BY <2>1, <2>2, <2>3 DEF Distance
<1>3. \A c \in Categories : 0 <= Distance(c)
  <2> SUFFICES ASSUME NEW c \in Categories PROVE 0 <= Distance(c)
    OBVIOUS
  <2>1. PICK k \in Int : Distance(c) = DataSize * k /\ 0 <= k
    BY <1>2
  <2>2. ~(DataSize * k < 0) /\ DataSize * k \in Int
    BY <2>1, Signs
  <2> QED BY <2>1, <2>2
<1>4. category \in Categories
  BY DEF Init, Categories
<1>5. Counted
  <2>1. records \in [Categories -> Record]
    BY <1>2 DEF Init
  <2>2. drawn \in [Categories -> Distances] /\ passed \in [Categories -> Nat]
    BY DEF Init
  <2>3. \A c \in Categories : \E k \in Int : Distance(c) = DataSize * k
    BY <1>2
  <2> QED BY <1>3, <1>4, <2>1, <2>2, <2>3 DEF Counted
<1>6. Located
  <2>1. 0 * DataSize = 0 /\ (-1) * DataSize = -DataSize /\ -1 + 1 - 0 = 0
    BY <1>1
  <2>2. 0 .. (-1) = {} /\ (0 * DataSize) .. ((-1) * DataSize + DataSize - 1) = {}
    BY <1>1, <2>1
  <2>3. DOMAIN flipped = {} /\ access = {} /\ data = 0 /\ size = 0
    BY DEF Init
  <2>4. \A k \in Int : Distance(category) = DataSize * k /\ k < 0 => FALSE
    <3> SUFFICES ASSUME NEW k \in Int, Distance(category) = DataSize * k, k < 0 PROVE FALSE
      OBVIOUS
    <3>1. DataSize * k < 0 /\ DataSize * k \in Int
      BY Signs
    <3> QED BY <1>3, <1>4, <3>1
  <2>5. Covers(0, -1, 0)
    BY <1>1, <2>1, <2>2, <2>3, <2>4 DEF Covers
  <2> QED BY <2>5 DEF Located
<1>7. Spaced
  <2>1. ASSUME NEW c \in Categories, NEW k \in Int, Distance(c) = DataSize * k
        PROVE  Near(passed[c] + k, drawn[c])
    <3>1. PICK j \in Int : Distance(c) = DataSize * j /\ Near(j, drawn[c])
      BY <1>2
    <3>2. j = k
      BY <1>1, <2>1, <3>1, MultiplesOrdered
    <3>3. passed[c] + k = k
      BY DEF Init
    <3> QED BY <3>1, <3>2, <3>3
  <2>2. ASSUME NEW k \in Int, Distance(category) = DataSize * k, k < 0 PROVE FALSE
    <3>1. DataSize * k < 0 /\ DataSize * k \in Int
      BY <2>2, Signs
    <3> QED BY <1>3, <1>4, <2>2, <3>1
  <2>3. Near(spacing.elements, spacing.bits)
    <3>1. spacing.elements = 0 /\ spacing.bits = 0
      BY DEF Init
    <3>2. 0 * BitDepth - 0 = 0
      BY <1>1
    <3> QED BY <1>1, <3>1, <3>2 DEF Near, Absolute
  <2> QED BY <2>1, <2>2, <2>3 DEF Spaced
<1>8. Saved
  BY DEF Init, Saved
<1> QED BY <1>5, <1>6, <1>7, <1>8 DEF IInv
-----------------------------------------------------------------------------
(***************************************************************************)
(* The start of an injection.                                              *)
(***************************************************************************)
\* Every category counts a number of elements, and its own only.
LEMMA Elementwise ==
  ASSUME IInv, NEW c \in Categories
  PROVE  /\ \E k \in Int : Distance(c) = DataSize * k
         /\ Distance(c) < 0 => c = category
         /\ records[c].injectionBit \in 0 .. (BitDepth - 1)
<1>1. \E k \in Int : Distance(c) = DataSize * k
  BY DEF IInv, Counted
<1>2. Distance(c) < 0 => c = category
  <2> SUFFICES ASSUME Distance(c) < 0, c # category PROVE FALSE
    OBVIOUS
  <2>1. 0 <= Distance(c)
    BY DEF IInv, Counted
  <2>2. Distance(c) \in Int
    BY <1>1, Signs
  <2> QED BY <2>1, <2>2
<1>3. records[c] \in Record
  BY DEF IInv, Counted
<1> QED BY <1>1, <1>2, <1>3 DEF Record

LEMMA StartKeeps ==
  ASSUME IInv, NEW c \in Categories, NEW first \in Elements, NEW last \in Elements,
         first <= last, StartInjection(c, first, last)
  PROVE  IInv'
<1> DEFINE m == last - first + 1
<1>1. /\ DataSize \in Nat \ {0} /\ BitDepth \in Nat \ {0} /\ Count \in Nat \ {0}
      /\ first \in Nat /\ last \in Nat /\ m \in Nat \ {0}
  BY Sizes DEF Elements
<1>2. PICK k \in Int : Distance(c) = DataSize * k
  BY DEF IInv, Counted
<1>3. 0 <= k
  <2> SUFFICES ASSUME k < 0 PROVE FALSE
    BY <1>2
  <2>1. Distance(c) < 0
    BY <1>2, Signs
  <2>2. c = category
    BY <2>1, Elementwise
  <2> QED BY <2>1, <2>2 DEF StartInjection, Injecting
<1>4. \A d \in Categories : d # c => records'[d] = records[d] /\ passed'[d] = passed[d]
  BY DEF StartInjection, IInv, Counted
<1>5. /\ records' = [records EXCEPT ![c].nextErrorDistance = @ - DataSize * m]
      /\ category' = c /\ drawn' = drawn /\ spacing' = spacing
      /\ access' = (first * DataSize) .. (last * DataSize + DataSize - 1)
      /\ data' = first * DataSize /\ size' = DataSize * m
      /\ flipped' = [e \in first .. last |-> {}]
      /\ backups' = [e \in {} |-> {}]
      /\ passed' = IF Distance(c) < size' THEN passed ELSE [passed EXCEPT ![c] = @ + m]
  BY DEF StartInjection
<1> HIDE DEF m
<1>6. DataSize * k - DataSize * m = DataSize * (k - m) /\ DataSize * (k - m) \in Int
  BY <1>1
<1>7. Distance(c)' = DataSize * (k - m) /\ records' \in [Categories -> Record]
  <2>1. records \in [Categories -> Record] /\ records[c].nextErrorDistance = DataSize * k
    BY <1>2 DEF IInv, Counted, Distance
  <2>2. /\ records'[c].nextErrorDistance = DataSize * (k - m)
        /\ records'[c].injectionBit = records[c].injectionBit
        /\ records'[c] = [records[c] EXCEPT !.nextErrorDistance = DataSize * (k - m)]
    BY <1>5, <1>6, <2>1 DEF Record
  <2>3. records'[c] \in Record
    BY <1>6, <2>1, <2>2 DEF Record
  <2>4. records' \in [Categories -> Record]
    BY <1>5, <2>1, <2>3
  <2> QED BY <2>2, <2>4 DEF Distance
<1>8. \A d \in Categories : d # c => Distance(d)' = Distance(d) /\ 0 <= Distance(d)
  <2> SUFFICES ASSUME NEW d \in Categories, d # c
               PROVE  Distance(d)' = Distance(d) /\ 0 <= Distance(d)
    OBVIOUS
  <2>1. Distance(d)' = Distance(d)
    BY <1>4 DEF Distance
  <2>2. Distance(d) \in Int
    BY Elementwise, Signs
  <2>3. ~(Distance(d) < 0)
    BY Elementwise DEF StartInjection, Injecting
  <2> QED BY <2>1, <2>2, <2>3
<1>9. \A i \in Int : Distance(c)' = DataSize * i => i = k - m
  BY <1>1, <1>7, MultiplesOrdered
<1>10. Counted'
  <2>1. passed' \in [Categories -> Nat]
    <3>1. passed \in [Categories -> Nat]
      BY DEF IInv, Counted
    <3>2. \A x \in Nat : x + m \in Nat
      BY <1>1
    <3>3. passed' \in {passed, [passed EXCEPT ![c] = @ + m]}
      BY <1>5
    <3> QED BY <3>1, <3>2, <3>3
  <2>2. \A d \in Categories : \E i \in Int : Distance(d)' = DataSize * i
    <3> SUFFICES ASSUME NEW d \in Categories PROVE \E i \in Int : Distance(d)' = DataSize * i
      OBVIOUS
    <3>1. CASE d = c
      BY <1>1, <1>7, <3>1
    <3>2. CASE d # c
      BY <1>8, <3>2, Elementwise
    <3> QED BY <3>1, <3>2
  <2>3. \A d \in Categories \ {category'} : 0 <= Distance(d)'
    BY <1>5, <1>8
  <2>4. category' \in Categories /\ drawn' \in [Categories -> Distances]
    BY <1>5 DEF IInv, Counted
  <2> QED BY <1>7, <2>1, <2>2, <2>3, <2>4 DEF Counted
<1>11. Located'
  <2>1. first * DataSize = DataSize * first /\ m = last + 1 - first
    BY <1>1 DEF m
  <2>2. ASSUME NEW i \in Int, Distance(c)' = DataSize * i PROVE first <= last + 1 + i
    <3>1. i = k - m
      BY <1>9, <2>2
    <3> QED BY <1>1, <1>3, <3>1 DEF m
  <2>3. Covers(first, last, first)'
    BY <1>1, <1>5, <2>1, <2>2 DEF Covers
  <2> QED BY <1>1, <2>3 DEF Located
<1>12. Near(passed[c] + k, drawn[c])
  BY <1>2, <1>3 DEF IInv, Spaced
<1>13. passed[c] \in Nat
  BY DEF IInv, Counted
<1>14. Spaced'
  <2>1. ASSUME NEW d \in Categories, NEW i \in Int, Distance(d)' = DataSize * i, 0 <= i
        PROVE  Near(passed'[d] + i, drawn'[d])
    <3>1. CASE d # c
      <4>1. Distance(d) = DataSize * i /\ passed'[d] = passed[d]
        BY <1>4, <1>8, <2>1, <3>1
      <4>2. Near(passed[d] + i, drawn[d])
        BY <2>1, <4>1 DEF IInv, Spaced
      <4> QED BY <1>5, <4>1, <4>2
    <3>2. CASE d = c
      <4>1. i = k - m
        BY <1>9, <2>1, <3>2
      <4>2. m <= k
        BY <1>1, <2>1, <4>1
      <4>3. ~(DataSize * k < DataSize * m)
        <5> SUFFICES ASSUME DataSize * k < DataSize * m PROVE FALSE
          OBVIOUS
        <5>1. DataSize * k \in Int /\ DataSize * m \in Int
          BY <1>1
        <5>2. k <= m /\ k # m
          BY <1>1, <5>1, MultiplesOrdered
        <5> QED BY <1>1, <4>2, <5>2
      <4>4. passed'[c] = passed[c] + m
        BY <1>2, <1>5, <4>3 DEF IInv, Counted
      <4>5. passed'[c] + i = passed[c] + k
        BY <1>1, <1>13, <4>1, <4>4
      <4> QED BY <1>5, <1>12, <3>2, <4>5
    <3> QED BY <3>1, <3>2
  <2>2. ASSUME NEW i \in Int, NEW n \in Int, Distance(c)' = DataSize * i, i < 0, size' = DataSize * n
        PROVE  Near(passed'[c] + n + i, drawn'[c])
    <3>1. i = k - m
      BY <1>9, <2>2
    <3>2. n = m
      BY <1>1, <1>5, <2>2, MultiplesOrdered
    <3>3. k < m
      BY <1>1, <2>2, <3>1
    <3>4. DataSize * k < DataSize * m
      <4>1. DataSize * k + DataSize <= DataSize * m
        BY <1>1, <3>3, MultiplesOrdered
      <4>2. DataSize * k \in Int /\ DataSize * m \in Int
        BY <1>1
      <4> QED BY <1>1, <4>1, <4>2
    <3>5. passed' = passed
      BY <1>2, <1>5, <3>4
    <3>6. passed'[c] + n + i = passed[c] + k
      BY <1>1, <1>13, <3>1, <3>2, <3>5
    <3> QED BY <1>5, <1>12, <3>6
  <2>3. Near(spacing'.elements, spacing'.bits)
    BY <1>5 DEF IInv, Spaced
  <2> QED BY <1>5, <2>1, <2>2, <2>3 DEF Spaced
<1>15. Saved'
  BY <1>5 DEF Saved
<1> QED BY <1>10, <1>11, <1>14, <1>15 DEF IInv
-----------------------------------------------------------------------------
(***************************************************************************)
(* A fault of an injection.                                                *)
(***************************************************************************)
\* What a fault does to the element e it hits when the distance is k elements,
\* and the next distance j.
FaultAt(e, k, j, bits) ==
  /\ data' = DataSize * e /\ size' = DataSize * (-k)
  /\ records' \in [Categories -> Record]
  /\ records'[category].nextErrorDistance = DataSize * j
  /\ \A d \in Categories : d # category => records'[d] = records[d]
  /\ backups' = Backup(e)
  /\ flipped' = [flipped EXCEPT ![e] = (@ \union {records[category].injectionBit})
                                         \ (@ \intersect {records[category].injectionBit})]
  /\ drawn' = [drawn EXCEPT ![category] = bits]
  /\ passed' = [passed EXCEPT ![category] = IF j < 0 THEN 0 ELSE -k]
  /\ category' = category /\ access' = access

LEMMA InjectFaultAt ==
  ASSUME IInv, NEW bits \in Distances, InjectFault(bits),
         NEW first \in Int, NEW last \in Int, NEW p \in Int, Covers(first, last, p)
  PROVE  \E k, j \in Int :
           /\ Distance(category) = DataSize * k /\ k < 0 /\ k <= j /\ Near(j - k, bits)
           /\ p <= last + 1 + k
           /\ FaultAt(last + 1 + k, k, j, bits)
           /\ spacing' = [elements |-> passed[category] + (last + 1 - p + k), bits |-> drawn[category]]
<1>1. DataSize \in Nat \ {0} /\ category \in Categories /\ records \in [Categories -> Record]
  BY Sizes DEF IInv, Counted
<1>2. PICK k \in Int : Distance(category) = DataSize * k
  BY <1>1 DEF IInv, Counted
<1>3. k < 0
  BY <1>2, Signs DEF InjectFault, Injecting
<1>4. PICK j \in Int :
        /\ Update(DataSize * k, bits).nextErrorDistance = DataSize * j
        /\ Update(DataSize * k, bits) \in Record
        /\ Near(j - k, bits)
        /\ k < 0 => k <= j
  BY UpdateCounts DEF Record
<1> DEFINE e == last + 1 + k
           n == last + 1 - p + k
<1>5. p <= e
  BY <1>2, <1>3 DEF Covers
<1>6. -(DataSize * k) = DataSize * (-k) /\ DataSize * (-k) \in Int
  BY <1>1
<1>7. data + size - DataSize * (-k) = DataSize * e
  <2>1. data = DataSize * p /\ size = DataSize * (last + 1 - p)
    BY DEF Covers
  <2> QED BY <1>1, <2>1
<1>8. size - DataSize * (-k) = DataSize * n
  <2>1. size = DataSize * (last + 1 - p)
    BY DEF Covers
  <2> QED BY <1>1, <2>1
<1>9. e \in Int /\ n \in Int /\ -k \in Int
  OBVIOUS
<1> HIDE DEF e, n
<1>10. /\ Quotient(DataSize * e, DataSize) = e
       /\ Quotient(DataSize * n, DataSize) = n
       /\ Quotient(DataSize * (-k), DataSize) = -k
  BY <1>1, <1>9, QuotientOfMultiple
<1>11. DataSize * j < 0 <=> j < 0
  BY Signs
<1> DEFINE u == Update(DataSize * k, bits)
<1>12. /\ data' = DataSize * e /\ size' = DataSize * (-k)
       /\ records' = [records EXCEPT ![category] = u]
       /\ backups' = Backup(e)
       /\ flipped' = [flipped EXCEPT ![e] = (@ \union {records[category].injectionBit})
                                              \ (@ \intersect {records[category].injectionBit})]
       /\ drawn' = [drawn EXCEPT ![category] = bits]
       /\ passed' = [passed EXCEPT ![category] = IF u.nextErrorDistance < 0 THEN 0 ELSE -k]
       /\ spacing' = [elements |-> passed[category] + n, bits |-> drawn[category]]
       /\ category' = category /\ access' = access
  BY <1>2, <1>6, <1>7, <1>8, <1>10 DEF InjectFault
<1>13. u.nextErrorDistance = DataSize * j /\ u \in Record
  BY <1>4
<1> HIDE DEF u
<1>14. /\ records' \in [Categories -> Record]
       /\ records'[category].nextErrorDistance = DataSize * j
       /\ \A d \in Categories : d # category => records'[d] = records[d]
  BY <1>1, <1>12, <1>13
<1>15. passed' = [passed EXCEPT ![category] = IF j < 0 THEN 0 ELSE -k]
  BY <1>11, <1>12, <1>13
<1>16. FaultAt(e, k, j, bits)
  BY <1>12, <1>14, <1>15 DEF FaultAt
<1>17. spacing' = [elements |-> passed[category] + n, bits |-> drawn[category]]
  BY <1>12
<1> QED BY <1>2, <1>3, <1>4, <1>5, <1>16, <1>17 DEF e, n

LEMMA FaultKeeps ==
  ASSUME IInv, NEW bits \in Distances, InjectFault(bits)
  PROVE  IInv'
<1>1. PICK first, last, p \in Int : Covers(first, last, p)
  BY DEF IInv, Located
<1>2. PICK k, j \in Int :
        /\ Distance(category) = DataSize * k /\ k < 0 /\ k <= j /\ Near(j - k, bits)
        /\ p <= last + 1 + k
        /\ FaultAt(last + 1 + k, k, j, bits)
        /\ spacing' = [elements |-> passed[category] + (last + 1 - p + k), bits |-> drawn[category]]
  BY <1>1, InjectFaultAt
<1> DEFINE e == last + 1 + k
<1>3. e \in Int /\ first <= p /\ p <= e /\ e <= last /\ e \in first .. last /\ -k = last + 1 - e
  BY <1>1, <1>2 DEF Covers
<1>4. FaultAt(e, k, j, bits)
  BY <1>2
<1> HIDE DEF e
<1>5. /\ DataSize \in Nat \ {0} /\ bits \in Distances /\ category \in Categories
      /\ drawn \in [Categories -> Distances] /\ passed \in [Categories -> Nat]
      /\ DOMAIN flipped = first .. last
  BY <1>1, Sizes DEF IInv, Counted, Covers
<1>6. /\ Distance(category)' = DataSize * j
      /\ \A d \in Categories : d # category => Distance(d)' = Distance(d)
  BY <1>4 DEF FaultAt, Distance
<1>7. passed' \in [Categories -> Nat] /\ drawn' \in [Categories -> Distances]
  <2>1. (IF j < 0 THEN 0 ELSE -k) \in Nat
    BY <1>2
  <2> QED BY <1>4, <1>5, <2>1 DEF FaultAt
<1>8. \A i \in Int : Distance(category)' = DataSize * i => i = j
  BY <1>5, <1>6, MultiplesOrdered
<1>9. Counted'
  <2>1. records' \in [Categories -> Record] /\ category' = category
    BY <1>4 DEF FaultAt
  <2>2. \A d \in Categories : \E i \in Int : Distance(d)' = DataSize * i
    <3> SUFFICES ASSUME NEW d \in Categories PROVE \E i \in Int : Distance(d)' = DataSize * i
      OBVIOUS
    <3>1. CASE d = category
      BY <1>4, <1>6, <3>1 DEF Distance, FaultAt
    <3>2. CASE d # category
      BY <1>6, <3>2, Elementwise
    <3> QED BY <3>1, <3>2
  <2>3. \A d \in Categories \ {category} : 0 <= Distance(d)'
    BY <1>6 DEF IInv, Counted
  <2> QED BY <1>5, <1>7, <2>1, <2>2, <2>3 DEF Counted
<1>10. Located'
  <2>1. DOMAIN flipped' = first .. last
    BY <1>4, <1>5 DEF FaultAt
  <2>2. access' = (first * DataSize) .. (last * DataSize + DataSize - 1)
    BY <1>1, <1>4 DEF FaultAt, Covers
  <2>3. data' = DataSize * e /\ size' = DataSize * (last + 1 - e) /\ category' = category
    BY <1>3, <1>4 DEF FaultAt
  <2>4. ASSUME NEW i \in Int, Distance(category)' = DataSize * i PROVE e <= last + 1 + i
    <3>1. i = j
      BY <1>8, <2>4
    <3> QED BY <1>2, <1>3, <3>1
  <2>5. first <= e
    BY <1>3
  <2>6. Covers(first, last, e)'
    BY <2>1, <2>2, <2>3, <2>4, <2>5 DEF Covers
  <2> QED BY <1>3, <2>6 DEF Located
<1>11. Spaced'
  <2>1. ASSUME NEW d \in Categories, NEW i \in Int, Distance(d)' = DataSize * i, 0 <= i
        PROVE  Near(passed'[d] + i, drawn'[d])
    <3>1. CASE d # category
      <4>1. Distance(d) = DataSize * i /\ passed'[d] = passed[d] /\ drawn'[d] = drawn[d]
        BY <1>4, <1>5, <1>6, <2>1, <3>1 DEF FaultAt
      <4>2. Near(passed[d] + i, drawn[d])
        BY <2>1, <4>1 DEF IInv, Spaced
      <4> QED BY <4>1, <4>2
    <3>2. CASE d = category
      <4>1. i = j
        <5>1. Distance(d)' = Distance(category)'
          BY <1>4, <3>2 DEF Distance, FaultAt
        <5> QED BY <1>8, <2>1, <5>1
      <4>2. passed'[d] = -k /\ drawn'[d] = bits
        BY <1>4, <1>5, <2>1, <3>2, <4>1 DEF FaultAt
      <4>3. -k + i = j - k
        BY <4>1
      <4> QED BY <1>2, <4>2, <4>3
    <3> QED BY <3>1, <3>2
  <2>2. ASSUME NEW i \in Int, NEW n \in Int, Distance(category)' = DataSize * i, i < 0, size' = DataSize * n
        PROVE  Near(passed'[category] + n + i, drawn'[category])
    <3>1. i = j
      BY <1>8, <2>2
    <3>2. size' = DataSize * (-k)
      BY <1>4 DEF FaultAt
    <3>3. n = -k
      BY <1>5, <2>2, <3>2, MultiplesOrdered
    <3>4. passed'[category] = 0 /\ drawn'[category] = bits
      BY <1>4, <1>5, <2>2, <3>1 DEF FaultAt
    <3>5. 0 + n + i = j - k
      BY <3>1, <3>3
    <3> QED BY <1>2, <3>4, <3>5
  <2>3. Near(spacing'.elements, spacing'.bits)
    <3>1. size = DataSize * (last + 1 - p) /\ last + 1 - p \in Int
      BY <1>1 DEF Covers
    <3>2. Near(passed[category] + (last + 1 - p) + k, drawn[category])
      BY <1>2, <3>1 DEF IInv, Spaced
    <3>3. passed[category] + (last + 1 - p + k) = passed[category] + (last + 1 - p) + k
      <4>1. passed[category] \in Nat
        BY <1>5
      <4> QED BY <4>1
    <3> QED BY <1>2, <3>2, <3>3
  <2>4. category' = category
    BY <1>4 DEF FaultAt
  <2> QED BY <2>1, <2>2, <2>3, <2>4 DEF Spaced
<1>12. data = DataSize * p
  BY <1>1 DEF Covers
<1>13. data # DataSize * e => data < DataSize * e
  <2> SUFFICES ASSUME data # DataSize * e PROVE data < DataSize * e
    OBVIOUS
  <2>1. p < e
    BY <1>3, <1>12
  <2>2. DataSize * p + DataSize <= DataSize * e
    BY <1>3, <1>5, <2>1, MultiplesOrdered
  <2>3. DataSize * p \in Int /\ DataSize * e \in Int
    BY <1>3, <1>5
  <2> QED BY <1>5, <1>12, <2>2, <2>3
<1>14. /\ data' = DataSize * e /\ category' = category /\ backups' = Backup(e)
       /\ flipped' = [flipped EXCEPT ![e] = (@ \union {records[category].injectionBit})
                                              \ (@ \intersect {records[category].injectionBit})]
  BY <1>4 DEF FaultAt
<1>15. records[category].injectionBit \in 0 .. (BitDepth - 1)
  BY <1>5, Elementwise
<1>16. e \in DOMAIN flipped /\ DataSize * e = e * DataSize
  BY <1>3, <1>5
<1>17. Saved
  BY DEF IInv
<1>18. Saved'
  <2>1. /\ DOMAIN flipped' = DOMAIN flipped
        /\ \A x \in DOMAIN flipped : x # e => flipped'[x] = flipped[x]
        /\ flipped'[e] \subseteq flipped[e] \union {records[category].injectionBit}
    BY <1>14, <1>16
  <2>2. flipped' = [x \in DOMAIN flipped' |-> flipped'[x]]
    BY <1>14
  <2>3. \A x \in DOMAIN flipped' : flipped'[x] \subseteq 0 .. (BitDepth - 1)
    BY <1>15, <1>16, <1>17, <2>1 DEF Saved
  <2>6. \A x \in DOMAIN flipped' : DataSize * e < DataSize * x => flipped'[x] = {}
    <3> SUFFICES ASSUME NEW x \in DOMAIN flipped', DataSize * e < DataSize * x
                 PROVE  flipped'[x] = {}
      OBVIOUS
    <3>1. x \in Int /\ x \in DOMAIN flipped
      BY <1>5, <2>1
    <3>2. DataSize * x \in Int /\ DataSize * e \in Int /\ DataSize * p \in Int
      BY <1>3, <1>5, <3>1
    <3>3. x # e
      BY <3>2
    <3>4. data < DataSize * x
      <4> DEFINE de == DataSize * e
                 dx == DataSize * x
                 dp == DataSize * p
      <4>1. de \in Int /\ dx \in Int /\ dp \in Int /\ data = dp /\ de < dx
        BY <1>12, <3>2
      <4>2. dp # de => dp < de
        BY <1>12, <1>13
      <4> HIDE DEF de, dx, dp
      <4>3. dp < dx
        BY <4>1, <4>2
      <4> QED BY <4>1, <4>3 DEF dx
    <3> QED BY <1>17, <2>1, <3>1, <3>3, <3>4 DEF Saved
  <2>4. CASE category # "read"
    <3>1. backups' = backups
      BY <1>14, <2>4 DEF Backup
    <3> QED BY <1>14, <1>17, <2>1, <2>2, <2>3, <2>4, <2>6, <3>1 DEF Saved
  <2>5. CASE category = "read"
    <3>1. /\ DOMAIN backups' = DOMAIN backups \union {e}
          /\ \A x \in DOMAIN backups' : backups'[x] = {}
      <4>1. CASE DOMAIN backups = {} \/ data # DataSize * e
        <5>1. flipped[e] = {}
          BY <1>13, <1>16, <1>17, <2>5, <4>1 DEF Saved
        <5>2. backups' = [x \in DOMAIN backups \union {e} |-> IF x = e THEN flipped[x] ELSE backups[x]]
          BY <1>14, <1>16, <2>5, <4>1 DEF Backup
        <5> QED BY <1>17, <5>1, <5>2 DEF Saved
      <4>2. CASE DOMAIN backups # {} /\ data = DataSize * e
        <5>1. backups' = backups
          BY <1>14, <1>16, <2>5, <4>2 DEF Backup
        <5>2. PICK y \in DOMAIN backups : data = DataSize * y
          BY <1>17, <2>5, <4>2 DEF Saved
        <5>3. y \in Int
          BY <1>5, <1>17, <5>2 DEF Saved
        <5>4. y = e
          BY <1>3, <1>5, <4>2, <5>2, <5>3, MultiplesOrdered
        <5> QED BY <1>17, <5>1, <5>2, <5>4 DEF Saved
      <4> QED BY <4>1, <4>2
    <3>3. DOMAIN backups' \subseteq DOMAIN flipped'
      BY <1>16, <1>17, <2>1, <3>1 DEF Saved
    <3>4. \A x \in DOMAIN flipped' : flipped'[x] # {} => x \in DOMAIN backups'
      BY <1>17, <2>1, <2>5, <3>1 DEF Saved
    <3>5. \E x \in DOMAIN backups' : data' = DataSize * x
      BY <1>14, <3>1
    <3> QED BY <1>14, <2>2, <2>3, <2>6, <3>1, <3>3, <3>4, <3>5 DEF Saved
  <2> QED BY <2>4, <2>5
<1> QED BY <1>9, <1>10, <1>11, <1>18 DEF IInv
-----------------------------------------------------------------------------
(***************************************************************************)
(* Every step, and the theorems.                                           *)
(***************************************************************************)
LEMMA NextIInv == IInv /\ [Next]_vars => IInv'
<1> SUFFICES ASSUME IInv, [Next]_vars PROVE IInv'
  OBVIOUS
<1>1. ASSUME NEW first \in Elements, NEW last \in Elements, first <= last,
             StartInjection("read", first, last)
      PROVE  IInv'
  BY <1>1, StartKeeps DEF Categories
<1>2. ASSUME NEW e \in Elements, StartInjection("write", e, e) PROVE IInv'
  <2>1. e <= e
    BY Sizes DEF Elements
  <2> QED BY <1>2, <2>1, StartKeeps DEF Categories
<1>3. ASSUME NEW bits \in Distances, InjectFault(bits) PROVE IInv'
  BY <1>3, FaultKeeps
<1>4. CASE UNCHANGED vars
  BY <1>4 DEF vars, IInv, Counted, Located, Covers, Spaced, Saved, Distance
<1> QED BY <1>1, <1>2, <1>3, <1>4 DEF Next

LEMMA SpecIInv == Spec => []IInv
BY InitIInv, NextIInv, PTL DEF Spec

\* What an injection hits is an element of the access.
LEMMA HitInside ==
  ASSUME IInv, Injecting
  PROVE  data + size + Distance(category) \in access
<1>1. PICK first, last, p \in Int : Covers(first, last, p)
  BY DEF IInv, Located
<1>2. PICK k \in Int : Distance(category) = DataSize * k
  BY DEF IInv, Counted
<1>3. DataSize \in Nat \ {0} /\ k < 0
  BY <1>2, Sizes, Signs DEF Injecting
<1> DEFINE e == last + 1 + k
<1>4. e \in Int /\ first <= e /\ e <= last
  BY <1>1, <1>2, <1>3 DEF Covers
<1>5. data + size + Distance(category) = DataSize * e
  <2>1. data = DataSize * p /\ size = DataSize * (last + 1 - p)
    BY <1>1 DEF Covers
  <2> QED BY <1>2, <1>3, <2>1
<1>6. access = (first * DataSize) .. (last * DataSize + DataSize - 1)
  BY <1>1 DEF Covers
<1> HIDE DEF e
<1>7. /\ first * DataSize = DataSize * first /\ last * DataSize = DataSize * last
      /\ DataSize * first \in Int /\ DataSize * last \in Int /\ DataSize * e \in Int
  BY <1>3, <1>4
<1>8. DataSize * first <= DataSize * e /\ DataSize * e <= DataSize * last
  <2>1. ASSUME NEW x \in Int, NEW y \in Int, x <= y PROVE DataSize * x <= DataSize * y
    <3>1. DataSize * x \in Int /\ DataSize * y \in Int
      BY <1>3
    <3>2. x < y => DataSize * x + DataSize <= DataSize * y
      BY <1>3, MultiplesOrdered
    <3>3. x = y \/ x < y
      BY <2>1
    <3> QED BY <1>3, <3>1, <3>2, <3>3
  <2> QED BY <1>4, <2>1
<1> QED BY <1>3, <1>5, <1>6, <1>7, <1>8

LEMMA MultiplesDivide ==
  ASSUME NEW k \in Int
  PROVE  (DataSize * k) % DataSize = 0
<1> DEFINE n == DataSize * k
           q == n \div DataSize
           r == n % DataSize
<1>1. DataSize \in Nat \ {0} /\ n \in Int
  BY Sizes
<1>2. q \in Int /\ r \in 0 .. (DataSize - 1) /\ n = (DataSize * q) + r
  BY <1>1, Division
<1> HIDE DEF q, r
<1>3. (q < k => DataSize * q + DataSize <= n) /\ (k < q => n + DataSize <= DataSize * q)
  BY <1>1, <1>2, MultiplesOrdered
<1>4. DataSize * q \in Int
  BY <1>1, <1>2
<1> HIDE DEF n
<1>5. q = k
  BY <1>1, <1>2, <1>3, <1>4
<1>6. r = 0
  BY <1>1, <1>2, <1>4, <1>5 DEF n
<1> QED BY <1>6 DEF r, n

\* Whatever is drawn and however the accesses fall, the distances stay whole
\* elements, only the category being injected comes to its fault, and the fault
\* is inside the access: nothing but accessed elements is flipped or backed up.
THEOREM InjectorTypeCorrect == Spec => []TypeOK
<1>1. IInv => TypeOK
  <2> SUFFICES ASSUME IInv PROVE TypeOK
    OBVIOUS
  <2>1. ASSUME NEW c \in Categories
        PROVE  /\ Distance(c) % DataSize = 0
               /\ Distance(c) < 0 => c = category
               /\ records[c].injectionBit \in 0 .. (BitDepth - 1)
    BY Elementwise, MultiplesDivide
  <2>2. Injecting => data + size + Distance(category) \in access
    BY HitInside
  <2> QED BY <2>1, <2>2 DEF TypeOK, IInv, Counted, Saved
<1> QED BY <1>1, SpecIInv, PTL

\* However many faults a read gets, and on whichever of its elements, each
\* element that differs was backed up before the first of them.
THEOREM FaultsUndone == Spec => []FaultsCanBeUndone
<1>1. IInv => FaultsCanBeUndone
  BY DEF IInv, Saved, FaultsCanBeUndone, Range
<1> QED BY <1>1, SpecIInv, PTL

\* Two consecutive faults of a category are as far apart as was drawn, to less
\* than one element, however the elements in between were divided into accesses.
THEOREM FaultsSpaced == Spec => []FaultsAsFarAsDrawn
<1>1. IInv => FaultsAsFarAsDrawn
  BY DEF IInv, Spaced, Near, FaultsAsFarAsDrawn
<1> QED BY <1>1, SpecIInv, PTL
=============================================================================
