------------------------ MODULE LongTermBufferProofs ------------------------
(***************************************************************************)
(* Theorems about LongTermBuffer, for every range, element size, bit depth *)
(* and set of values: its types and what retirement leaves in the records, *)
(* for every set of accesses; what it does to the memory, and that it      *)
(* implements the exact contract of ApproximateMemory, for every set of    *)
(* accesses of whole elements.                                             *)
(***************************************************************************)
EXTENDS LongTermBuffer, TLAPS

(***************************************************************************)
(* Indexes and addresses.                                                  *)
(***************************************************************************)
LEMMA Division ==
  ASSUME NEW D \in Nat \ {0}, NEW x \in Int
  PROVE  /\ x \div D \in Int /\ x % D \in 0 .. (D - 1)
         /\ x = (D * (x \div D)) + (x % D)
OBVIOUS

\* Quotients are ordered as the multiples they are the quotients of.
LEMMA QuotientBelow ==
  ASSUME NEW D \in Nat \ {0}, NEW q \in Int, NEW p \in Int, NEW r \in 0 .. (D - 1)
  PROVE  /\ (D * q) + r < D * p <=> q < p
         /\ D * p <= (D * q) + r <=> p <= q
<1>1. CASE q < p
  <2>1. D * (q + 1) <= D * p
    BY <1>1
  <2>2. D * (q + 1) = (D * q) + D
    OBVIOUS
  <2>3. (D * q) + r < D * p
    BY <2>1, <2>2
  <2> QED BY <1>1, <2>3
<1>2. CASE p <= q
  <2>1. D * p <= D * q
    BY <1>2
  <2>2. D * p <= (D * q) + r
    BY <2>1
  <2> QED BY <1>2, <2>2
<1> QED BY <1>1, <1>2

LEMMA QuotientOfMultiple ==
  ASSUME NEW D \in Nat \ {0}, NEW q \in Int, NEW r \in 0 .. (D - 1)
  PROVE  ((D * q) + r) \div D = q
<1> DEFINE x == (D * q) + r
           p == x \div D
           m == x % D
<1>1. x \in Int
  OBVIOUS
<1> HIDE DEF x
<1>2. p \in Int /\ m \in 0 .. (D - 1) /\ x = (D * p) + m
  BY <1>1, Division
<1> HIDE DEF p, m
<1>3. (D * p) + m = (D * q) + r
  BY <1>2 DEF x
<1>4. ~(q < p)
  <2>1. (D * q) + r < D * p <=> q < p
    BY <1>2, QuotientBelow
  <2>2. D * p \in Int /\ D * q \in Int
    BY <1>2
  <2> QED BY <1>2, <1>3, <2>1, <2>2
<1>5. ~(p < q)
  <2>1. (D * p) + m < D * q <=> p < q
    BY <1>2, QuotientBelow
  <2>2. D * p \in Int /\ D * q \in Int
    BY <1>2
  <2> QED BY <1>2, <1>3, <2>1, <2>2
<1>6. p = q
  BY <1>2, <1>4, <1>5
<1> QED BY <1>6 DEF p, x

LEMMA Sizes ==
  /\ DataSize \in Nat \ {0} /\ FirstAddress \in Int /\ FinalAddress \in Int
  /\ BackupSize \in 1 .. DataSize
  /\ NumberOfElements \in Int /\ FinalAddress = FirstAddress + (DataSize * NumberOfElements)
<1>1. /\ DataSize \in Nat \ {0} /\ FirstAddress \in Int /\ FinalAddress \in Int
      /\ BackupSize \in 1 .. DataSize
  BY BufferAssumption
<1> DEFINE x == FinalAddress - FirstAddress
<1>2. x \in Int /\ x % DataSize = 0
  BY <1>1, WholeElements
<1>3. x \div DataSize \in Int /\ x = (DataSize * (x \div DataSize)) + (x % DataSize)
  <2> HIDE DEF x
  <2> QED BY <1>1, <1>2, Division
<1>4. NumberOfElements = x \div DataSize
  BY DEF NumberOfElements
<1>5. x = (DataSize * NumberOfElements) + 0
  BY <1>2, <1>3, <1>4
<1>6. NumberOfElements \in Int
  BY <1>3, <1>4
<1> QED BY <1>1, <1>5, <1>6

ElementBytesOf(i) == AddressOf(i) .. (AddressOf(i) + DataSize - 1)

\* The bytes of the element with index i are those whose index is i.
LEMMA IndexOfByte ==
  ASSUME NEW b \in Int
  PROVE  /\ IndexOf(b) \in Int
         /\ b \in ElementBytesOf(IndexOf(b))
         /\ ~IsMisaligned(b) <=> b = AddressOf(IndexOf(b))
<1> DEFINE x == b - FirstAddress
           q == x \div DataSize
           r == x % DataSize
<1>1. DataSize \in Nat \ {0} /\ FirstAddress \in Int /\ x \in Int
  BY Sizes
<1>2. q \in Int /\ r \in 0 .. (DataSize - 1) /\ x = (DataSize * q) + r
  <2> HIDE DEF x
  <2> QED BY <1>1, Division
<1>3. IndexOf(b) = q /\ (IsMisaligned(b) <=> r # 0)
  BY DEF IndexOf, IsMisaligned, AlignmentOffset
<1>4. b = FirstAddress + x
  BY <1>1
<1>5. AddressOf(q) = FirstAddress + (DataSize * q) /\ DataSize * q \in Int
  BY <1>1, <1>2 DEF AddressOf
<1> HIDE DEF x, q, r
<1>6. b = AddressOf(q) + r /\ AddressOf(q) \in Int
  BY <1>1, <1>2, <1>4, <1>5
<1>7. b \in ElementBytesOf(q) /\ (r = 0 <=> b = AddressOf(q))
  BY <1>1, <1>2, <1>6 DEF ElementBytesOf
<1> QED BY <1>2, <1>3, <1>7

LEMMA ByteOfIndex ==
  ASSUME NEW i \in Int, NEW b \in ElementBytesOf(i)
  PROVE  b \in Int /\ IndexOf(b) = i
<1>1. DataSize \in Nat \ {0} /\ FirstAddress \in Int
  BY Sizes
<1>2. AddressOf(i) = FirstAddress + (DataSize * i) /\ DataSize * i \in Int
  BY <1>1 DEF AddressOf
<1> DEFINE m == DataSize * i
           r == b - AddressOf(i)
<1>3. b \in Int /\ r \in 0 .. (DataSize - 1) /\ b - FirstAddress = m + r
  <2> HIDE DEF m
  <2>1. AddressOf(i) = FirstAddress + m /\ m \in Int
    BY <1>2 DEF m
  <2> QED BY <1>1, <2>1 DEF ElementBytesOf
<1>4. (m + r) \div DataSize = i
  <2> HIDE DEF r
  <2> QED BY <1>1, <1>3, QuotientOfMultiple DEF m
<1> QED BY <1>3, <1>4 DEF IndexOf

LEMMA MemoryIndex ==
  ASSUME NEW b \in Int
  PROVE  b \in Memory <=> IndexOf(b) \in Indexes
<1> DEFINE q == IndexOf(b)
           N == NumberOfElements
           r == b - AddressOf(q)
<1>1. /\ DataSize \in Nat \ {0} /\ FirstAddress \in Int /\ N \in Int
      /\ FinalAddress = FirstAddress + (DataSize * N)
  BY Sizes
<1>2. q \in Int /\ b \in ElementBytesOf(q)
  BY IndexOfByte
<1>3. AddressOf(q) = FirstAddress + (DataSize * q) /\ DataSize * q \in Int /\ DataSize * N \in Int
  BY <1>1, <1>2 DEF AddressOf
<1> HIDE DEF q, N
<1>4. r \in 0 .. (DataSize - 1) /\ b - FirstAddress = (DataSize * q) + r
  BY <1>1, <1>2, <1>3 DEF ElementBytesOf
<1> HIDE DEF r
<1>5. /\ (DataSize * q) + r < DataSize * N <=> q < N
      /\ DataSize * 0 <= (DataSize * q) + r <=> 0 <= q
  BY <1>1, <1>2, <1>4, QuotientBelow
<1>6. b \in Memory <=> FirstAddress <= b /\ b < FinalAddress
  BY <1>1, <1>3 DEF Memory
<1>7. FirstAddress <= b <=> 0 <= q
  BY <1>1, <1>3, <1>4, <1>5
<1>8. b < FinalAddress <=> q < N
  BY <1>1, <1>3, <1>4, <1>5
<1>9. q \in Indexes <=> 0 <= q /\ q < N
  BY <1>1, <1>2 DEF Indexes, N
<1> QED BY <1>6, <1>7, <1>8, <1>9 DEF q

LEMMA MemoryInt == Memory \subseteq Int
BY Sizes DEF Memory

\* What the proofs use of elements: they are the aligned addresses of memory,
\* and a byte belongs to the element of its index only.
LEMMA ElementIndex ==
  ASSUME NEW i \in Indexes
  PROVE  /\ AddressOf(i) \in Elements /\ IndexOf(AddressOf(i)) = i
         /\ ElementBytesOf(i) \subseteq Memory
         /\ \A b \in ElementBytesOf(i) : IndexOf(b) = i
         /\ \A j \in 0 .. (BackupSize - 1) : AddressOf(i) + j \in ElementBytesOf(i)
<1>1. i \in Int /\ AddressOf(i) \in Int
  BY Sizes DEF Indexes, AddressOf
<1>2. \A b \in ElementBytesOf(i) : b \in Int /\ IndexOf(b) = i
  BY <1>1, ByteOfIndex
<1>3. ElementBytesOf(i) \subseteq Memory
  BY <1>2, MemoryIndex
<1>4. AddressOf(i) \in ElementBytesOf(i)
  BY <1>1, Sizes DEF ElementBytesOf
<1>5. \A j \in 0 .. (BackupSize - 1) : AddressOf(i) + j \in ElementBytesOf(i)
  BY <1>1, Sizes DEF ElementBytesOf
<1> QED BY <1>2, <1>3, <1>4, <1>5 DEF Elements

LEMMA ElementShape ==
  ASSUME NEW e \in Elements
  PROVE  /\ IndexOf(e) \in Indexes /\ AddressOf(IndexOf(e)) = e /\ e \in Int
         /\ ElementBytes(e) \subseteq Memory
         /\ Span(e) \subseteq ElementBytes(e) /\ e \in Span(e)
         /\ \A j \in 0 .. (DataSize - 1) : e + j \in ElementBytes(e)
<1>1. PICK i \in Indexes : e = AddressOf(i)
  BY DEF Elements
<1>2. IndexOf(e) = i /\ ElementBytes(e) = ElementBytesOf(i)
  BY <1>1, ElementIndex DEF ElementBytes, ElementBytesOf
<1>3. e \in Int
  BY <1>1, Sizes DEF AddressOf, Indexes
<1>4. /\ Span(e) \subseteq ElementBytes(e) /\ e \in Span(e)
      /\ \A j \in 0 .. (DataSize - 1) : e + j \in ElementBytes(e)
  BY <1>3, Sizes DEF Span, ElementBytes
<1> QED BY <1>1, <1>2, <1>3, <1>4, ElementIndex

LEMMA ElementOfByte ==
  ASSUME NEW e \in Elements, NEW b
  PROVE  b \in ElementBytes(e) <=> b \in Memory /\ IndexOf(b) = IndexOf(e)
<1>1. IndexOf(e) \in Indexes /\ AddressOf(IndexOf(e)) = e
  BY ElementShape
<1>2. ElementBytes(e) = ElementBytesOf(IndexOf(e))
  BY <1>1 DEF ElementBytes, ElementBytesOf
<1>3. b \in Memory => b \in ElementBytesOf(IndexOf(b))
  BY MemoryInt, IndexOfByte
<1> QED BY <1>1, <1>2, <1>3, ElementIndex

LEMMA AlignedIsElement ==
  ASSUME NEW a \in Memory, ~IsMisaligned(a)
  PROVE  a \in Elements
<1>1. a \in Int
  BY MemoryInt
<1>2. a = AddressOf(IndexOf(a)) /\ IndexOf(a) \in Indexes
  BY <1>1, IndexOfByte, MemoryIndex
<1> QED BY <1>2 DEF Elements
-----------------------------------------------------------------------------
(***************************************************************************)
(* Types, and what retirement leaves in the records.                       *)
(***************************************************************************)
IsBuffer(s) ==
  /\ s.memory \in [Memory -> Byte]
  /\ s.status \in [Indexes -> ErrorStatus]
  /\ s.backups \in [Indexes -> Backup \union {Garbage}]
  /\ \A i \in Indexes : s.status[i] = "Read" => s.backups[i] \in Backup

\* The addresses the handlers may be called with.
IsKeySet(K) == K \subseteq Memory /\ SpanOf(K) \subseteq Memory

LEMMA KeyIndex ==
  ASSUME NEW K, IsKeySet(K), NEW a \in K
  PROVE  /\ IndexOf(a) \in Indexes /\ a \in Int
         /\ \A j \in 0 .. (BackupSize - 1) : a + j \in Memory
         /\ \A b \in Span(a) : b - a \in 0 .. (BackupSize - 1)
<1>1. a \in Int
  BY MemoryInt DEF IsKeySet
<1>2. \A j \in 0 .. (BackupSize - 1) : a + j \in Span(a)
  BY <1>1, Sizes DEF Span
<1>3. \A b \in Span(a) : b - a \in 0 .. (BackupSize - 1)
  BY <1>1, Sizes DEF Span
<1>4. Span(a) \subseteq Memory
  BY DEF IsKeySet, SpanOf
<1>5. IndexOf(a) \in Indexes
  BY <1>1, MemoryIndex DEF IsKeySet
<1> QED BY <1>1, <1>2, <1>3, <1>4, <1>5

LEMMA FaultyByte ==
  ASSUME NEW c \in Byte, NEW kind \in FaultKinds
  PROVE  [c EXCEPT !.faults = @ \union {kind}] \in Byte
BY DEF Byte

LEMMA InjectFaultType ==
  ASSUME NEW mem \in [Memory -> Byte], NEW hit, NEW kind \in FaultKinds
  PROVE  InjectFault(mem, hit, kind) \in [Memory -> Byte]
BY FaultyByte DEF InjectFault

LEMMA ReverseFaultyReadType ==
  ASSUME NEW s, IsBuffer(s), NEW K, IsKeySet(K), \A a \in K : s.status[IndexOf(a)] = "Read"
  PROVE  ReverseFaultyRead(s, K) \in [Memory -> Byte]
<1> SUFFICES ASSUME NEW b \in Memory PROVE ReverseFaultyRead(s, K)[b] \in Byte
  BY DEF ReverseFaultyRead
<1>1. CASE b \in SpanOf(K)
  <2> DEFINE k == CHOOSE a \in K : b \in Span(a)
  <2>1. k \in K /\ b \in Span(k)
    BY <1>1 DEF SpanOf
  <2>2. ReverseFaultyRead(s, K)[b] = s.backups[IndexOf(k)][b - k]
    BY <1>1 DEF ReverseFaultyRead
  <2> HIDE DEF k
  <2>3. IndexOf(k) \in Indexes /\ b - k \in 0 .. (BackupSize - 1)
    BY <2>1, KeyIndex
  <2>4. s.backups[IndexOf(k)] \in Backup
    BY <2>1, <2>3 DEF IsBuffer
  <2> QED BY <2>2, <2>3, <2>4 DEF Backup
<1>2. CASE b \notin SpanOf(K)
  BY <1>2 DEF ReverseFaultyRead, IsBuffer
<1> QED BY <1>1, <1>2

LEMMA AfterReadType ==
  ASSUME NEW s, IsBuffer(s), NEW K, IsKeySet(K), NEW wh, NEW rh
  PROVE  IsBuffer(AfterRead(s, K, wh, rh))
<1> DEFINE R       == WithStatus(s, K, "Read")
           restored == ReverseFaultyRead(s, R)
           settled == InjectFault(restored, wh, "write")
           hit     == {a \in K : Span(a) \intersect rh # {}}
           t       == AfterRead(s, K, wh, rh)
<1>1. IsKeySet(R) /\ \A a \in R : s.status[IndexOf(a)] = "Read"
  BY DEF IsKeySet, WithStatus, SpanOf
<1>2. "read" \in FaultKinds /\ "write" \in FaultKinds
  BY DEF FaultKinds
<1> HIDE DEF R
<1>3. restored \in [Memory -> Byte]
  BY <1>1, ReverseFaultyReadType
<1> HIDE DEF restored
<1>4. settled \in [Memory -> Byte]
  BY <1>2, <1>3, InjectFaultType
<1> HIDE DEF settled
<1>5. InjectFault(settled, rh, "read") \in [Memory -> Byte]
  BY <1>2, <1>4, InjectFaultType
<1>6. hit \subseteq K
  OBVIOUS
<1>7. /\ t.memory = InjectFault(settled, rh, "read")
      /\ t.status = StatusAfterRead(s, K, hit)
      /\ t.backups = BackupReadData(s, settled, hit)
  BY DEF AfterRead, settled, restored, R
<1> HIDE DEF hit, t
<1>8. t.status \in [Indexes -> ErrorStatus]
  BY <1>7 DEF StatusAfterRead, ErrorStatus, IsBuffer
<1>9. ASSUME NEW i \in Indexes
      PROVE  \/ t.backups[i] = s.backups[i] /\ i \notin IndexesOf(hit)
             \/ t.backups[i] \in Backup
  <2>1. CASE i \in IndexesOf(hit)
    <3> DEFINE k == CHOOSE a \in hit : IndexOf(a) = i
    <3>1. k \in hit
      BY <2>1 DEF IndexesOf
    <3>2. t.backups[i] = [j \in 0 .. (BackupSize - 1) |-> settled[k + j]]
      BY <1>7, <2>1 DEF BackupReadData
    <3> HIDE DEF k
    <3>3. \A j \in 0 .. (BackupSize - 1) : k + j \in Memory
      BY <1>6, <3>1, KeyIndex
    <3> QED BY <1>4, <3>2, <3>3 DEF Backup
  <2>2. CASE i \notin IndexesOf(hit)
    BY <1>7, <2>2 DEF BackupReadData
  <2> QED BY <2>1, <2>2
<1>10. t.backups \in [Indexes -> Backup \union {Garbage}]
  <2>1. t.backups = [i \in Indexes |-> t.backups[i]]
    BY <1>7 DEF BackupReadData
  <2>2. \A i \in Indexes : t.backups[i] \in Backup \union {Garbage}
    BY <1>9 DEF IsBuffer
  <2> QED BY <2>1, <2>2
<1>11. \A i \in Indexes : t.status[i] = "Read" /\ i \notin IndexesOf(hit) => s.status[i] = "Read"
  BY <1>7 DEF StatusAfterRead
<1>12. \A i \in Indexes : t.status[i] = "Read" => t.backups[i] \in Backup
  BY <1>9, <1>11 DEF IsBuffer
<1> QED BY <1>5, <1>7, <1>8, <1>10, <1>12 DEF IsBuffer, t

LEMMA AccessKeys ==
  ASSUME NEW acc \in Accesses
  PROVE  IsKeySet(KeysOf(acc)) /\ IsKeySet({acc.address})
<1>1. BytesOf(acc) \subseteq Memory /\ acc.address \in Memory /\ SpanOf(KeysOf(acc)) \subseteq Memory
  BY AccessesAssumption
<1>2. KeysOf(acc) \subseteq Memory
  BY <1>1 DEF KeysOf, ElementsOf
<1>3. acc.address \in KeysOf(acc)
  <2>1. acc.address \in Int /\ acc.size \in Nat \ {0} /\ DataSize \in Nat \ {0}
    BY <1>1, MemoryInt, AccessesAssumption, Sizes
  <2>2. acc.address \in ElementsOf(acc)
    BY <2>1 DEF ElementsOf, BytesOf
  <2> QED BY <2>2 DEF KeysOf
<1> QED BY <1>1, <1>2, <1>3 DEF IsKeySet, SpanOf

LEMMA GatherKeys ==
  ASSUME NEW g \in Gathers, NEW i \in 1 .. 2
  PROVE  /\ IsKeySet({g[i]}) /\ g[i] \in Memory
         /\ g[i] .. (g[i] + DataSize - 1) \subseteq Memory
<1>1. g[i] \in Memory /\ g[i] .. (g[i] + DataSize - 1) \subseteq Memory
  BY GathersAssumption
<1>2. \A a \in Int : Span(a) \subseteq a .. (a + DataSize - 1)
  BY Sizes DEF Span
<1>3. Span(g[i]) \subseteq g[i] .. (g[i] + DataSize - 1)
  BY <1>1, <1>2, MemoryInt
<1> QED BY <1>1, <1>3 DEF IsKeySet, SpanOf

AllElements == {AddressOf(i) : i \in Indexes}

LEMMA AllKeys == IsKeySet(AllElements) /\ AllElements = Elements /\ IndexesOf(AllElements) = Indexes
<1>1. AllElements = Elements
  BY DEF AllElements, Elements
<1>2. \A e \in Elements : e \in Memory /\ Span(e) \subseteq Memory
  BY ElementShape
<1>3. \A i \in Indexes : IndexOf(AddressOf(i)) = i
  BY ElementIndex
<1>4. IndexesOf(AllElements) = Indexes
  BY <1>3 DEF IndexesOf, AllElements
<1> QED BY <1>1, <1>2, <1>4 DEF IsKeySet, SpanOf

IInv == TypeOK /\ RetiredRecordsAreNone

LEMMA TypeOKBuffer ==
  TypeOK <=> IsBuffer(Buffer) /\ isActive \in 0 .. 1 /\ stored \in [Memory -> Values]
BY DEF TypeOK, IsBuffer, Buffer

LEMMA BecomeType ==
  ASSUME NEW s, IsBuffer(s), Become(s)
  PROVE  IsBuffer(Buffer')
BY DEF IsBuffer, Become, Buffer

LEMMA InitIInv == Init => IInv
<1> SUFFICES ASSUME Init PROVE IInv
  OBVIOUS
<1>1. \A b \in Memory : Clean(stored[b]) \in Byte
  BY DEF Init, Clean, Byte
<1> QED BY <1>1 DEF Init, IInv, TypeOK, RetiredRecordsAreNone, ErrorStatus

LEMMA StoreType ==
  ASSUME TypeOK, NEW bytes, NEW v \in Values, Store(bytes, v)
  PROVE  memory' \in [Memory -> Byte] /\ stored' \in [Memory -> Values] /\ isActive' \in 0 .. 1
<1>1. Clean(v) \in Byte
  BY DEF Clean, Byte
<1> QED BY <1>1 DEF TypeOK, Store, StoreBytes

LEMMA MarkWrittenType ==
  ASSUME TypeOK, NEW I, NEW inject \in BOOLEAN, MarkWritten(I, inject), NEW bytes, NEW v \in Values, Store(bytes, v)
  PROVE  TypeOK'
<1>1. memory' \in [Memory -> Byte] /\ stored' \in [Memory -> Values] /\ isActive' \in 0 .. 1
  BY StoreType
<1>2. errorStatus' \in [Indexes -> ErrorStatus]
  BY DEF MarkWritten, TypeOK, ErrorStatus
<1>3. \A i \in Indexes : errorStatus'[i] = "Read" => errorStatus[i] = "Read"
  BY DEF MarkWritten
<1> QED BY <1>1, <1>2, <1>3 DEF TypeOK, MarkWritten

LEMMA NextIInv == IInv /\ [Next]_vars => IInv'
<1> SUFFICES ASSUME IInv, [Next]_vars PROVE IInv'
  OBVIOUS
<1>1. IsBuffer(Buffer) /\ isActive \in 0 .. 1 /\ stored \in [Memory -> Values] /\ TypeOK
  BY TypeOKBuffer DEF IInv
<1>2. ASSUME NEW acc \in Accesses, NEW inject \in BOOLEAN, Read(acc, inject) PROVE IInv'
  <2>1. PICK w \in WriteHits(Buffer, KeysOf(acc)), r \in ReadHits(inject, KeysOf(acc)) :
          Become(AfterRead(Buffer, KeysOf(acc), w, r))
    BY <1>2 DEF Read
  <2>2. IsBuffer(AfterRead(Buffer, KeysOf(acc), w, r))
    BY <1>1, AccessKeys, AfterReadType
  <2>3. IsBuffer(Buffer')
    BY <2>1, <2>2, BecomeType
  <2>4. isActive' = isActive /\ stored' = stored /\ isActive >= 1
    BY <1>2 DEF Read
  <2> QED BY <1>1, <2>3, <2>4 DEF IInv, TypeOK, IsBuffer, Buffer, RetiredRecordsAreNone
<1>3. ASSUME NEW g \in Gathers, NEW inject \in BOOLEAN, ReadScattered(g, inject) PROVE IInv'
  <2>1. PICK w1 \in WriteHits(Buffer, {g[1]}), r1 \in ReadHits(inject, {g[1]}) :
          LET s == AfterRead(Buffer, {g[1]}, w1, r1) IN
          \E w2 \in WriteHits(s, {g[2]}), r2 \in ReadHits(inject, {g[2]}) :
            Become(AfterRead(s, {g[2]}, w2, r2))
    BY <1>3 DEF ReadScattered
  <2> DEFINE s == AfterRead(Buffer, {g[1]}, w1, r1)
  <2>2. PICK w2 \in WriteHits(s, {g[2]}), r2 \in ReadHits(inject, {g[2]}) :
          Become(AfterRead(s, {g[2]}, w2, r2))
    BY <2>1
  <2>3. IsKeySet({g[1]}) /\ IsKeySet({g[2]})
    BY GatherKeys
  <2>4. IsBuffer(s)
    BY <1>1, <2>3, AfterReadType
  <2> HIDE DEF s
  <2>5. IsBuffer(AfterRead(s, {g[2]}, w2, r2))
    BY <2>3, <2>4, AfterReadType
  <2>6. IsBuffer(Buffer')
    BY <2>2, <2>5, BecomeType
  <2>7. isActive' = isActive /\ stored' = stored /\ isActive >= 1
    BY <1>3 DEF ReadScattered
  <2> QED BY <1>1, <2>6, <2>7 DEF IInv, TypeOK, IsBuffer, Buffer, RetiredRecordsAreNone
<1>4. ASSUME NEW acc \in Accesses, NEW v \in Values, NEW inject \in BOOLEAN, Write(acc, v, inject)
      PROVE  IInv'
  <2>1. MarkWritten(WrittenIndexes(acc), inject) /\ Store(BytesOf(acc), v) /\ isActive >= 1
    BY <1>4 DEF Write
  <2>2. TypeOK'
    BY <1>1, <2>1, MarkWrittenType
  <2> QED BY <1>1, <2>1, <2>2 DEF IInv, RetiredRecordsAreNone, Store
<1>5. ASSUME NEW g \in Gathers, NEW v \in Values, NEW inject \in BOOLEAN, WriteScattered(g, v, inject)
      PROVE  IInv'
  <2> DEFINE bytes == g[1] .. (g[1] + DataSize - 1) \union g[2] .. (g[2] + DataSize - 1)
             I == {IndexOf(g[1]), IndexOf(g[2])}
  <2>1. MarkWritten(I, inject) /\ Store(bytes, v) /\ isActive >= 1
    BY <1>5 DEF WriteScattered
  <2> HIDE DEF bytes, I
  <2>2. TypeOK'
    BY <1>1, <2>1, MarkWrittenType
  <2> QED BY <1>1, <2>1, <2>2 DEF IInv, RetiredRecordsAreNone, Store
<1>6. ASSUME NEW acc \in Accesses, NEW v \in Values, WriteUnseen(acc, v) PROVE IInv'
  <2>1. Store(BytesOf(acc), v) /\ UNCHANGED <<errorStatus, readBackups>> /\ isActive' = isActive
    BY <1>6 DEF WriteUnseen, Store
  <2>2. memory' \in [Memory -> Byte] /\ stored' \in [Memory -> Values]
    BY <1>1, <2>1, StoreType
  <2> QED BY <2>1, <2>2 DEF IInv, TypeOK, RetiredRecordsAreNone
<1>7. ASSUME RetireBuffer PROVE IInv'
  <2> DEFINE t(w) == AfterRead(Buffer, AllElements, w, {})
  <2>1. PICK w \in WriteHits(Buffer, AllElements) : Become(t(w))
    BY <1>7 DEF RetireBuffer, AllElements
  <2>2. IsBuffer(t(w))
    BY <1>1, AllKeys, AfterReadType
  <2>3. IsBuffer(Buffer')
    <3> HIDE DEF t
    <3> QED BY <2>1, <2>2, BecomeType
  <2>4. errorStatus' = StatusAfterRead(Buffer, AllElements, {a \in AllElements : Span(a) \intersect {} # {}})
    BY <2>1 DEF Become, AfterRead
  <2>5. \A i \in Indexes : errorStatus'[i] = "None"
    BY <2>4, AllKeys DEF StatusAfterRead, IndexesOf
  <2>6. isActive' = 0 /\ stored' = stored
    BY <1>7 DEF RetireBuffer
  <2> QED BY <1>1, <2>3, <2>5, <2>6 DEF IInv, TypeOK, IsBuffer, Buffer, RetiredRecordsAreNone
<1>8. ASSUME ReactivateBuffer PROVE IInv'
  <2>1. \A i \in Indexes : errorStatus[i] = "None"
    BY <1>8 DEF ReactivateBuffer, IInv, RetiredRecordsAreNone
  <2> QED BY <1>8, <2>1 DEF ReactivateBuffer, IInv, TypeOK, RetiredRecordsAreNone
<1>9. CASE UNCHANGED vars
  BY <1>9 DEF vars, IInv, TypeOK, RetiredRecordsAreNone
<1> QED BY <1>2, <1>3, <1>4, <1>5, <1>6, <1>7, <1>8, <1>9 DEF Next

LEMMA SpecIInv == Spec => []IInv
BY InitIInv, NextIInv, PTL DEF Spec

\* Whatever the program accesses and in whatever way, aligned or not, the
\* records and backups stay well formed: no handler reads a backup that is
\* what malloc or the buffer before it left in the array.
THEOREM LongTermTypeCorrect == Spec => []TypeOK
BY SpecIInv, PTL DEF IInv

\* Whatever the accesses, a retired buffer gives its records back all None, so
\* that the next buffer that borrows them needs no clearing.
THEOREM RecordsGivenBackClear == Spec => []RetiredRecordsAreNone
BY SpecIInv, PTL DEF IInv
-----------------------------------------------------------------------------
(***************************************************************************)
(* What a read does to a byte.  Backups are exact: they hold the bytes of  *)
(* their element without its read faults; and no byte with a read fault is *)
(* without one.  So a read takes the read faults off the elements it reads *)
(* and changes no other byte.                                              *)
(***************************************************************************)
WithoutRead(c) == [c EXCEPT !.faults = @ \ {"read"}]

BackupsExact(s) ==
  \A i \in Indexes, j \in 0 .. (BackupSize - 1) :
    s.status[i] = "Read" => s.backups[i][j] = WithoutRead(s.memory[AddressOf(i) + j])

ReadFaultsCovered(s) ==
  \A b \in Memory : "read" \in s.memory[b].faults =>
    s.status[IndexOf(b)] = "Read" /\ b \in Span(AddressOf(IndexOf(b)))

Sound(s) == IsBuffer(s) /\ BackupsExact(s) /\ ReadFaultsCovered(s)

LEMMA WithoutReadByte ==
  ASSUME NEW c \in Byte
  PROVE  /\ WithoutRead(c) = [value |-> c.value, faults |-> c.faults \ {"read"}]
         /\ WithoutRead(c) \in Byte
         /\ "read" \notin c.faults => WithoutRead(c) = c
BY DEF WithoutRead, Byte

LEMMA FaultyByteIs ==
  ASSUME NEW c \in Byte, NEW kind
  PROVE  [c EXCEPT !.faults = @ \union {kind}] = [value |-> c.value, faults |-> c.faults \union {kind}]
BY DEF Byte

\* A byte of the span of an element has the index of the element.
LEMMA SpanIndex ==
  ASSUME NEW K, K \subseteq Elements, NEW b \in SpanOf(K)
  PROVE  /\ b \in Memory /\ IndexOf(b) \in IndexesOf(K)
         /\ AddressOf(IndexOf(b)) \in K /\ b \in Span(AddressOf(IndexOf(b)))
<1>1. PICK k \in K : b \in Span(k)
  BY DEF SpanOf
<1>2. k \in Elements /\ b \in ElementBytes(k) /\ AddressOf(IndexOf(k)) = k
  BY <1>1, ElementShape
<1>3. b \in Memory /\ IndexOf(b) = IndexOf(k)
  BY <1>2, ElementOfByte
<1> QED BY <1>1, <1>2, <1>3 DEF IndexesOf

LEMMA ElementsAreKeys ==
  ASSUME NEW K, K \subseteq Elements
  PROVE  IsKeySet(K)
BY ElementShape DEF IsKeySet, SpanOf

LEMMA RestoredByte ==
  ASSUME NEW s, Sound(s), NEW K, K \subseteq Elements, NEW b \in Memory
  PROVE  ReverseFaultyRead(s, WithStatus(s, K, "Read"))[b] =
           IF IndexOf(b) \in IndexesOf(K) THEN WithoutRead(s.memory[b]) ELSE s.memory[b]
<1> DEFINE R == WithStatus(s, K, "Read")
<1>1. s.memory[b] \in Byte
  BY DEF Sound, IsBuffer
<1>2. R \subseteq K /\ \A a \in R : s.status[IndexOf(a)] = "Read"
  BY DEF WithStatus
<1>3. CASE b \in SpanOf(R)
  <2> DEFINE k == CHOOSE a \in R : b \in Span(a)
  <2>1. k \in R /\ b \in Span(k)
    BY <1>3 DEF SpanOf
  <2>2. ReverseFaultyRead(s, R)[b] = s.backups[IndexOf(k)][b - k]
    BY <1>3 DEF ReverseFaultyRead
  <2> HIDE DEF k, R
  <2>3. k \in Elements /\ k \in K /\ s.status[IndexOf(k)] = "Read"
    BY <1>2, <2>1
  <2>4. IndexOf(k) \in Indexes /\ AddressOf(IndexOf(k)) = k /\ k \in Int /\ b \in ElementBytes(k)
    BY <2>1, <2>3, ElementShape
  <2>5. b - k \in 0 .. (BackupSize - 1) /\ k + (b - k) = b
    BY <2>1, <2>4, MemoryInt, Sizes DEF Span
  <2>6. s.backups[IndexOf(k)][b - k] = WithoutRead(s.memory[AddressOf(IndexOf(k)) + (b - k)])
    BY <2>3, <2>4, <2>5 DEF Sound, BackupsExact
  <2>7. IndexOf(b) = IndexOf(k)
    BY <2>3, <2>4, ElementOfByte
  <2>8. IndexOf(b) \in IndexesOf(K)
    BY <2>3, <2>7 DEF IndexesOf
  <2> QED BY <2>2, <2>4, <2>5, <2>6, <2>8 DEF R
<1>4. CASE b \notin SpanOf(R)
  <2>1. ReverseFaultyRead(s, R)[b] = s.memory[b]
    BY <1>4 DEF ReverseFaultyRead
  <2>2. ASSUME IndexOf(b) \in IndexesOf(K), "read" \in s.memory[b].faults PROVE FALSE
    <3>1. s.status[IndexOf(b)] = "Read" /\ b \in Span(AddressOf(IndexOf(b)))
      BY <2>2 DEF Sound, ReadFaultsCovered
    <3>2. PICK k \in K : IndexOf(b) = IndexOf(k)
      BY <2>2 DEF IndexesOf
    <3>3. AddressOf(IndexOf(b)) = k
      BY <3>2, ElementShape
    <3>4. k \in R
      BY <3>1, <3>2 DEF WithStatus
    <3> QED BY <1>4, <3>1, <3>3, <3>4 DEF SpanOf
  <2>3. IndexOf(b) \in IndexesOf(K) => WithoutRead(s.memory[b]) = s.memory[b]
    BY <1>1, <2>2, WithoutReadByte
  <2> QED BY <2>1, <2>3
<1> QED BY <1>3, <1>4

\* The faults of a byte before the read faults of this read.
SettledFaults(s, K, wh, b) ==
  (IF IndexOf(b) \in IndexesOf(K) THEN s.memory[b].faults \ {"read"} ELSE s.memory[b].faults)
    \union (IF b \in wh THEN {"write"} ELSE {})

SettledByte(s, K, wh, b) ==
  [value |-> s.memory[b].value, faults |-> SettledFaults(s, K, wh, b)]

ReadByte(s, K, wh, rh, b) ==
  [value  |-> s.memory[b].value,
   faults |-> SettledFaults(s, K, wh, b) \union (IF b \in rh THEN {"read"} ELSE {})]

Settled(s, K, wh) == InjectFault(ReverseFaultyRead(s, WithStatus(s, K, "Read")), wh, "write")

LEMMA SettledIs ==
  ASSUME NEW s, Sound(s), NEW K, K \subseteq Elements, NEW wh, NEW b \in Memory
  PROVE  Settled(s, K, wh)[b] = SettledByte(s, K, wh, b) /\ Settled(s, K, wh)[b] \in Byte
<1> DEFINE c == ReverseFaultyRead(s, WithStatus(s, K, "Read"))[b]
           f == IF IndexOf(b) \in IndexesOf(K) THEN s.memory[b].faults \ {"read"} ELSE s.memory[b].faults
<1>1. s.memory[b] \in Byte
  BY DEF Sound, IsBuffer
<1>2. c = IF IndexOf(b) \in IndexesOf(K) THEN WithoutRead(s.memory[b]) ELSE s.memory[b]
  BY RestoredByte
<1>3. s.memory[b] = [value |-> s.memory[b].value, faults |-> s.memory[b].faults]
  BY <1>1 DEF Byte
<1>4. /\ WithoutRead(s.memory[b]) = [value |-> s.memory[b].value, faults |-> s.memory[b].faults \ {"read"}]
      /\ WithoutRead(s.memory[b]) \in Byte
  BY <1>1, WithoutReadByte
<1>5. Settled(s, K, wh)[b] = IF b \in wh THEN [c EXCEPT !.faults = @ \union {"write"}] ELSE c
  BY DEF Settled, InjectFault
<1>6. SettledByte(s, K, wh, b) =
        [value |-> s.memory[b].value, faults |-> f \union (IF b \in wh THEN {"write"} ELSE {})]
  BY DEF SettledByte, SettledFaults
<1> HIDE DEF c
<1>7. c = [value |-> s.memory[b].value, faults |-> f] /\ c \in Byte
  BY <1>1, <1>2, <1>3, <1>4
<1> HIDE DEF f
<1>8. CASE b \in wh
  <2>1. [c EXCEPT !.faults = @ \union {"write"}] = [value |-> c.value, faults |-> c.faults \union {"write"}]
    BY <1>7, FaultyByteIs
  <2>2. [c EXCEPT !.faults = @ \union {"write"}] \in Byte
    BY <1>7, FaultyByte DEF FaultKinds
  <2> QED BY <1>5, <1>6, <1>7, <1>8, <2>1, <2>2
<1>9. CASE b \notin wh
  BY <1>5, <1>6, <1>7, <1>9
<1> QED BY <1>8, <1>9

LEMMA AfterReadMemory ==
  ASSUME NEW s, Sound(s), NEW K, K \subseteq Elements, NEW wh, NEW rh, NEW b \in Memory
  PROVE  AfterRead(s, K, wh, rh).memory[b] = ReadByte(s, K, wh, rh, b)
<1> DEFINE c == Settled(s, K, wh)[b]
<1>1. c = SettledByte(s, K, wh, b) /\ c \in Byte
  BY SettledIs
<1>2. AfterRead(s, K, wh, rh).memory[b] = IF b \in rh THEN [c EXCEPT !.faults = @ \union {"read"}] ELSE c
  BY DEF AfterRead, Settled, InjectFault
<1> HIDE DEF c
<1>3. [c EXCEPT !.faults = @ \union {"read"}] = [value |-> c.value, faults |-> c.faults \union {"read"}]
  BY <1>1, FaultyByteIs
<1> QED BY <1>1, <1>2, <1>3 DEF SettledByte, ReadByte

\* The status and the backup of an element after a read.
HitAt(rh, i) == \E b \in rh : IndexOf(b) = i

RecordRead(t, s, K, wh, rh, i) ==
  /\ t.status[i] = IF HitAt(rh, i) THEN "Read" ELSE IF i \in IndexesOf(K) THEN "None" ELSE s.status[i]
  /\ HitAt(rh, i) => i \in IndexesOf(K)
  /\ HitAt(rh, i) => t.backups[i] = [j \in 0 .. (BackupSize - 1) |-> Settled(s, K, wh)[AddressOf(i) + j]]
  /\ ~HitAt(rh, i) => t.backups[i] = s.backups[i]

LEMMA AfterReadRecords ==
  ASSUME NEW s, NEW K, NEW wh, NEW rh, K \subseteq Elements, rh \subseteq SpanOf(K), NEW i \in Indexes
  PROVE  RecordRead(AfterRead(s, K, wh, rh), s, K, wh, rh, i)
<1> DEFINE t    == AfterRead(s, K, wh, rh)
           H    == {a \in K : Span(a) \intersect rh # {}}
           hit  == \E b \in rh : IndexOf(b) = i
<1>1. t.status = StatusAfterRead(s, K, H) /\ t.backups = BackupReadData(s, Settled(s, K, wh), H)
  BY DEF AfterRead, Settled
<1>2. ASSUME hit PROVE i \in IndexesOf(H) /\ i \in IndexesOf(K)
  <2>1. PICK b \in rh : IndexOf(b) = i
    BY <1>2
  <2>2. AddressOf(i) \in K /\ b \in Span(AddressOf(i)) /\ i \in IndexesOf(K)
    BY <2>1, SpanIndex
  <2>3. AddressOf(i) \in H /\ IndexOf(AddressOf(i)) = i
    BY <2>1, <2>2, ElementIndex
  <2> QED BY <2>2, <2>3 DEF IndexesOf
<1>3. ASSUME NEW a \in H, IndexOf(a) = i PROVE hit /\ a = AddressOf(i)
  <2>1. PICK b \in rh : b \in Span(a)
    OBVIOUS
  <2>2. a \in Elements
    OBVIOUS
  <2>3. AddressOf(i) = a /\ b \in ElementBytes(a)
    BY <1>3, <2>1, <2>2, ElementShape
  <2>4. IndexOf(b) = i
    BY <1>3, <2>2, <2>3, ElementOfByte
  <2> QED BY <2>1, <2>3, <2>4
<1>4. hit <=> i \in IndexesOf(H)
  BY <1>2, <1>3 DEF IndexesOf
<1>5. hit => (CHOOSE a \in H : IndexOf(a) = i) = AddressOf(i)
  <2> SUFFICES ASSUME hit PROVE (CHOOSE a \in H : IndexOf(a) = i) = AddressOf(i)
    OBVIOUS
  <2>1. \E a \in H : IndexOf(a) = i
    BY <1>2 DEF IndexesOf
  <2> DEFINE k == CHOOSE a \in H : IndexOf(a) = i
  <2>2. k \in H /\ IndexOf(k) = i
    BY <2>1
  <2> HIDE DEF k, hit, H
  <2>3. k = AddressOf(i)
    BY <1>3, <2>2
  <2> QED BY <2>3 DEF k
<1> HIDE DEF t, H
<1>6. t.status[i] = IF hit THEN "Read" ELSE IF i \in IndexesOf(K) THEN "None" ELSE s.status[i]
  BY <1>1, <1>4 DEF StatusAfterRead
<1>7. hit => t.backups[i] = [j \in 0 .. (BackupSize - 1) |-> Settled(s, K, wh)[AddressOf(i) + j]]
  <2> SUFFICES ASSUME hit
               PROVE  t.backups[i] = [j \in 0 .. (BackupSize - 1) |-> Settled(s, K, wh)[AddressOf(i) + j]]
    OBVIOUS
  <2> DEFINE k == CHOOSE a \in H : IndexOf(a) = i
             M == Settled(s, K, wh)
  <2>1. t.backups[i] = [j \in 0 .. (BackupSize - 1) |-> M[k + j]]
    <3> HIDE DEF hit, M
    <3> QED BY <1>1, <1>4 DEF BackupReadData, M
  <2>2. k = AddressOf(i)
    BY <1>5
  <2> HIDE DEF k, M
  <2> QED BY <2>1, <2>2 DEF M
<1>8. ~hit => t.backups[i] = s.backups[i]
  BY <1>1, <1>4 DEF BackupReadData
<1> HIDE DEF t
<1>9. RecordRead(t, s, K, wh, rh, i)
  BY <1>2, <1>6, <1>7, <1>8 DEF RecordRead, HitAt
<1> QED BY <1>9 DEF t

LEMMA AfterReadSound ==
  ASSUME NEW s, Sound(s), NEW K, K \subseteq Elements,
         NEW wh, wh \subseteq SpanOf(K), NEW rh, rh \subseteq SpanOf(K)
  PROVE  Sound(AfterRead(s, K, wh, rh))
<1> DEFINE t == AfterRead(s, K, wh, rh)
           hit(i) == \E b \in rh : IndexOf(b) = i
<1>1. IsBuffer(t)
  <2>1. IsKeySet(K)
    BY ElementsAreKeys
  <2> QED BY <2>1, AfterReadType DEF Sound
<1>2. \A b \in Memory : t.memory[b] = ReadByte(s, K, wh, rh, b)
  BY AfterReadMemory
<1>3. ASSUME NEW i \in Indexes
      PROVE  /\ t.status[i] = IF hit(i) THEN "Read" ELSE IF i \in IndexesOf(K) THEN "None" ELSE s.status[i]
             /\ hit(i) => i \in IndexesOf(K)
             /\ hit(i) => t.backups[i] = [j \in 0 .. (BackupSize - 1) |-> Settled(s, K, wh)[AddressOf(i) + j]]
             /\ ~hit(i) => t.backups[i] = s.backups[i]
  <2>1. RecordRead(t, s, K, wh, rh, i)
    BY AfterReadRecords
  <2> HIDE DEF t
  <2> QED BY <2>1 DEF RecordRead, HitAt
<1> HIDE DEF t
<1>4. ASSUME NEW i \in Indexes, NEW j \in 0 .. (BackupSize - 1), t.status[i] = "Read"
      PROVE  t.backups[i][j] = WithoutRead(t.memory[AddressOf(i) + j])
  <2> DEFINE b == AddressOf(i) + j
  <2>1. b \in ElementBytesOf(i) /\ b \in Memory /\ IndexOf(b) = i
    BY ElementIndex
  <2>2. t.memory[b] = ReadByte(s, K, wh, rh, b) /\ t.memory[b] \in Byte
    BY <1>1, <1>2, <2>1 DEF IsBuffer
  <2>3. CASE hit(i)
    <3> HIDE DEF hit
    <3>1. t.backups[i][j] = Settled(s, K, wh)[b] /\ i \in IndexesOf(K)
      BY <1>3, <2>3
    <3> HIDE DEF b
    <3>2. Settled(s, K, wh)[b] = SettledByte(s, K, wh, b)
      BY <2>1, SettledIs
    <3>3. WithoutRead(t.memory[b]) = [value |-> t.memory[b].value, faults |-> t.memory[b].faults \ {"read"}]
      BY <2>2, WithoutReadByte
    <3>4. t.memory[b].value = s.memory[b].value
      BY <2>2 DEF ReadByte
    <3>5. t.memory[b].faults \ {"read"} = SettledFaults(s, K, wh, b)
      <4>1. "read" \notin SettledFaults(s, K, wh, b)
        BY <2>1, <3>1 DEF SettledFaults
      <4> QED BY <2>2, <4>1 DEF ReadByte
    <3> QED BY <3>1, <3>2, <3>3, <3>4, <3>5 DEF SettledByte, b
  <2>4. CASE ~hit(i)
    <3>1. i \notin IndexesOf(K) /\ s.status[i] = "Read" /\ t.backups[i] = s.backups[i]
      BY <1>3, <1>4, <2>4
    <3>2. s.backups[i][j] = WithoutRead(s.memory[b])
      BY <3>1 DEF Sound, BackupsExact
    <3> HIDE DEF b, hit
    <3>3. b \notin SpanOf(K)
      BY <2>1, <3>1, SpanIndex
    <3>4. b \notin wh /\ b \notin rh
      BY <3>3
    <3>5. s.memory[b] = [value |-> s.memory[b].value, faults |-> s.memory[b].faults]
      BY <2>1 DEF Sound, IsBuffer, Byte
    <3>6. t.memory[b] = s.memory[b]
      BY <2>1, <2>2, <3>1, <3>4, <3>5 DEF ReadByte, SettledFaults
    <3> QED BY <3>1, <3>2, <3>6 DEF b
  <2> QED BY <2>3, <2>4
<1>5. ASSUME NEW b \in Memory, "read" \in t.memory[b].faults
      PROVE  t.status[IndexOf(b)] = "Read" /\ b \in Span(AddressOf(IndexOf(b)))
  <2>1. IndexOf(b) \in Indexes
    BY MemoryInt, MemoryIndex
  <2>2. CASE b \in rh
    <3>1. b \in Span(AddressOf(IndexOf(b)))
      BY <2>2, SpanIndex
    <3>2. hit(IndexOf(b))
      BY <2>2
    <3> HIDE DEF hit
    <3> QED BY <1>3, <2>1, <3>1, <3>2
  <2>3. CASE b \notin rh
    <3>1. t.memory[b] = ReadByte(s, K, wh, rh, b)
      BY <1>2
    <3>2. "read" \in s.memory[b].faults /\ IndexOf(b) \notin IndexesOf(K)
      BY <1>5, <2>3, <3>1 DEF ReadByte, SettledFaults
    <3>3. s.status[IndexOf(b)] = "Read" /\ b \in Span(AddressOf(IndexOf(b)))
      BY <3>2 DEF Sound, ReadFaultsCovered
    <3> HIDE DEF hit
    <3> QED BY <1>3, <2>1, <3>2, <3>3
  <2> QED BY <2>2, <2>3
<1> QED BY <1>1, <1>4, <1>5 DEF Sound, BackupsExact, ReadFaultsCovered, t
-----------------------------------------------------------------------------
(***************************************************************************)
(* Accesses of whole elements.  A read or a write deals with the elements  *)
(* its bytes belong to, and with no other.                                 *)
(***************************************************************************)
\* The bytes of the elements in K.
Covers(bytes, K) ==
  /\ K \subseteq Elements
  /\ bytes \subseteq Memory
  /\ \A b \in Memory : b \in bytes <=> IndexOf(b) \in IndexesOf(K)

LEMMA DivisionOfMultiple ==
  ASSUME NEW D \in Nat \ {0}, NEW x \in Int, x % D = 0
  PROVE  x \div D \in Int /\ x = D * (x \div D)
<1>1. x \div D \in Int /\ x = (D * (x \div D)) + (x % D)
  BY Division
<1> QED BY <1>1

LEMMA SumOfMultiples ==
  ASSUME NEW D \in Nat \ {0}, NEW x \in Int, NEW y \in Int, x % D = 0, y % D = 0
  PROVE  (x + y) % D = 0
<1> DEFINE q == x \div D
           r == y \div D
<1>1. q \in Int /\ r \in Int /\ x = D * q /\ y = D * r
  BY DivisionOfMultiple
<1> HIDE DEF q, r
<1>2. x + y = D * (q + r) /\ q + r \in Int
  BY <1>1
<1>3. \A k \in Int : (D * k) % D = 0
  OBVIOUS
<1> QED BY <1>2, <1>3

LEMMA AccessShape ==
  ASSUME WholeElementAccesses, NEW acc \in Accesses
  PROVE  /\ acc.address \in Elements /\ acc.address \in Int
         /\ acc.size \in Nat \ {0} /\ acc.size % DataSize = 0 /\ BytesOf(acc) \subseteq Memory
<1>1. acc.address \in Memory /\ acc.size \in Nat \ {0} /\ BytesOf(acc) \subseteq Memory
  BY AccessesAssumption
<1>2. ~IsMisaligned(acc.address) /\ acc.size % DataSize = 0
  BY DEF WholeElementAccesses
<1> QED BY <1>1, <1>2, AlignedIsElement, MemoryInt

\* The bytes of an access are those with the indexes it marks when it writes.
LEMMA WrittenElements ==
  ASSUME WholeElementAccesses, NEW acc \in Accesses, NEW b \in Memory
  PROVE  b \in BytesOf(acc) <=> IndexOf(b) \in WrittenIndexes(acc)
<1> DEFINE p == IndexOf(acc.address)
           n == acc.size \div DataSize
           q == IndexOf(b)
           r == b - AddressOf(q)
           D == DataSize
<1>1. /\ D \in Nat \ {0} /\ FirstAddress \in Int /\ b \in Int
      /\ acc.address \in Elements /\ acc.size \in Nat \ {0} /\ acc.size % D = 0
  BY Sizes, MemoryInt, AccessShape
<1>2. n \in Int /\ acc.size = D * n
  <2>1. acc.size \in Int
    BY <1>1
  <2> QED BY <1>1, <2>1, DivisionOfMultiple
<1>3. p \in Int /\ acc.address = AddressOf(p)
  BY <1>1, ElementShape DEF Indexes
<1>4. q \in Int /\ b \in ElementBytesOf(q)
  BY <1>1, IndexOfByte
<1>5. WrittenIndexes(acc) = IF IsSIMD(acc) THEN p .. (p + n - 1) ELSE {p}
  BY DEF WrittenIndexes
<1> HIDE DEF p, n, q
<1>6. AddressOf(p) = FirstAddress + (D * p) /\ AddressOf(q) = FirstAddress + (D * q)
  BY <1>1, <1>3, <1>4 DEF AddressOf
<1>7. D * p \in Int /\ D * q \in Int /\ D * n \in Int
  BY <1>1, <1>2, <1>3, <1>4
<1>8. r \in 0 .. (D - 1) /\ b = FirstAddress + ((D * q) + r)
  BY <1>1, <1>4, <1>6, <1>7 DEF ElementBytesOf
<1> HIDE DEF r, D
<1>9. D * (p + n) = (D * p) + (D * n) /\ p + n \in Int
  BY <1>1, <1>2, <1>3
<1>10. /\ D * p <= (D * q) + r <=> p <= q
       /\ (D * q) + r < D * (p + n) <=> q < p + n
  BY <1>1, <1>3, <1>4, <1>8, <1>9, QuotientBelow
<1>11. b \in BytesOf(acc) <=> acc.address <= b /\ b < acc.address + acc.size
  BY <1>1, <1>3, <1>6, <1>7 DEF BytesOf
<1>12. acc.address <= b <=> p <= q
  BY <1>1, <1>3, <1>6, <1>7, <1>8, <1>10
<1>13. b < acc.address + acc.size <=> q < p + n
  BY <1>1, <1>2, <1>3, <1>6, <1>7, <1>8, <1>9, <1>10
<1>14. b \in BytesOf(acc) <=> q \in p .. (p + n - 1)
  BY <1>2, <1>3, <1>4, <1>11, <1>12, <1>13
<1>15. CASE IsSIMD(acc)
  BY <1>5, <1>14, <1>15 DEF q
<1>16. CASE ~IsSIMD(acc)
  <2>1. D * n <= D
    BY <1>1, <1>2, <1>16 DEF IsSIMD, D
  <2>2. n = 1
    <3>1. ASSUME n <= 0 PROVE FALSE
      <4>1. D * n <= D * 0
        BY <1>1, <1>2, <3>1
      <4> QED BY <1>1, <1>2, <1>7, <4>1
    <3>2. ASSUME 2 <= n PROVE FALSE
      <4>1. D * 2 <= D * n
        BY <1>1, <1>2, <3>2
      <4> QED BY <1>1, <1>7, <2>1, <4>1
    <3> QED BY <1>2, <3>1, <3>2
  <2> QED BY <1>3, <1>4, <1>5, <1>14, <1>16, <2>2 DEF q
<1> QED BY <1>15, <1>16

LEMMA AccessCovers ==
  ASSUME WholeElementAccesses, NEW acc \in Accesses
  PROVE  /\ Covers(BytesOf(acc), KeysOf(acc))
         /\ WrittenIndexes(acc) = IndexesOf(KeysOf(acc))
<1>1. /\ acc.address \in Elements /\ acc.address \in Int /\ ~IsMisaligned(acc.address)
      /\ acc.size \in Nat \ {0} /\ acc.size % DataSize = 0
      /\ BytesOf(acc) \subseteq Memory /\ DataSize \in Nat \ {0} /\ FirstAddress \in Int
  BY Sizes, AccessShape DEF WholeElementAccesses
<1>2. ASSUME NEW a \in ElementsOf(acc) PROVE a \in Elements
  <2>1. a \in Memory /\ a \in Int /\ (a - acc.address) % DataSize = 0
    BY <1>1, MemoryInt DEF ElementsOf
  <2>2. (acc.address - FirstAddress) % DataSize = 0
    BY <1>1 DEF IsMisaligned, AlignmentOffset
  <2>3. ((a - acc.address) + (acc.address - FirstAddress)) % DataSize = 0
    BY <1>1, <2>1, <2>2, SumOfMultiples
  <2>4. (a - acc.address) + (acc.address - FirstAddress) = a - FirstAddress
    BY <1>1, <2>1
  <2>5. ~IsMisaligned(a)
    BY <2>3, <2>4 DEF IsMisaligned, AlignmentOffset
  <2> QED BY <2>1, <2>5, AlignedIsElement
<1>3. KeysOf(acc) \subseteq Elements
  BY <1>1, <1>2 DEF KeysOf
<1>4. \A b \in Memory : b \in BytesOf(acc) <=> IndexOf(b) \in WrittenIndexes(acc)
  BY WrittenElements
<1>5. acc.address \in BytesOf(acc)
  BY <1>1 DEF BytesOf
<1>6. KeysOf(acc) \subseteq BytesOf(acc)
  BY <1>5 DEF KeysOf, ElementsOf
<1>7. IndexesOf(KeysOf(acc)) \subseteq WrittenIndexes(acc)
  BY <1>1, <1>4, <1>6 DEF IndexesOf
<1>8. ASSUME NEW i \in WrittenIndexes(acc) PROVE i \in IndexesOf(KeysOf(acc))
  <2>1. CASE IsSIMD(acc)
    <3> DEFINE a == AddressOf(i)
               p == IndexOf(acc.address)
               n == acc.size \div DataSize
    <3>1. i \in p .. (p + n - 1)
      BY <2>1 DEF WrittenIndexes
    <3>2. p \in Indexes /\ p \in Int /\ AddressOf(p) = acc.address
      BY <1>1, ElementShape DEF Indexes
    <3>3. n \in Int /\ acc.size = DataSize * n
      <4>1. acc.size \in Int
        BY <1>1
      <4> QED BY <1>1, <4>1, DivisionOfMultiple
    <3> HIDE DEF p, n
    <3>4. i \in Int /\ p <= i /\ i < p + n /\ i - p \in Int
      BY <3>1, <3>2, <3>3
    <3>5. /\ AddressOf(i) = FirstAddress + (DataSize * i) /\ DataSize * i \in Int
          /\ acc.address = FirstAddress + (DataSize * p) /\ DataSize * p \in Int
      BY <1>1, <3>2, <3>4 DEF AddressOf
    <3>6. a - acc.address = DataSize * (i - p)
      BY <1>1, <3>2, <3>4, <3>5
    <3>7. (a - acc.address) % DataSize = 0
      <4>1. \A D \in Nat \ {0}, k \in Int : (D * k) % D = 0
        OBVIOUS
      <4> QED BY <1>1, <3>4, <3>6, <4>1
    <3>8. a \in BytesOf(acc)
      <4>1. DataSize * p <= DataSize * i
        BY <1>1, <3>2, <3>4
      <4>2. DataSize * (i + 1) <= DataSize * (p + n)
        BY <1>1, <3>2, <3>3, <3>4
      <4>3. DataSize * (i + 1) = (DataSize * i) + DataSize
        BY <1>1, <3>4
      <4>4. DataSize * (p + n) = (DataSize * p) + (DataSize * n) /\ DataSize * n \in Int
        BY <1>1, <3>2, <3>3
      <4> DEFINE P == DataSize * p
                 Q == DataSize * i
                 M == DataSize * n
      <4>5. P <= Q /\ Q + DataSize <= P + M /\ P \in Int /\ Q \in Int /\ M \in Int
        BY <3>5, <4>1, <4>2, <4>3, <4>4
      <4>6. a = FirstAddress + Q /\ acc.address = FirstAddress + P /\ acc.size = M
        BY <3>3, <3>5
      <4> HIDE DEF P, Q, M, a
      <4>7. acc.address <= a /\ a <= acc.address + acc.size - 1 /\ a \in Int
        BY <1>1, <4>5, <4>6
      <4> QED BY <1>1, <4>7 DEF BytesOf
    <3>9. a \in KeysOf(acc)
      BY <2>1, <3>7, <3>8 DEF KeysOf, ElementsOf
    <3>10. IndexOf(a) = i
      BY <3>4, ByteOfIndex, Sizes DEF ElementBytesOf, AddressOf
    <3> QED BY <3>9, <3>10 DEF IndexesOf
  <2>2. CASE ~IsSIMD(acc)
    BY <2>2 DEF WrittenIndexes, KeysOf, IndexesOf
  <2> QED BY <2>1, <2>2
<1>9. WrittenIndexes(acc) = IndexesOf(KeysOf(acc))
  BY <1>7, <1>8
<1> QED BY <1>1, <1>3, <1>4, <1>9 DEF Covers

LEMMA GatherCovers ==
  ASSUME WholeElementAccesses, NEW g \in Gathers
  PROVE  /\ g[1] \in Elements /\ g[2] \in Elements
         /\ Covers(g[1] .. (g[1] + DataSize - 1) \union g[2] .. (g[2] + DataSize - 1), {g[1], g[2]})
         /\ {IndexOf(g[1]), IndexOf(g[2])} = IndexesOf({g[1], g[2]})
<1>1. g[1] \in Memory /\ g[2] \in Memory /\ ~IsMisaligned(g[1]) /\ ~IsMisaligned(g[2])
  <2>1. \A i \in 1 .. 2 : g[i] \in Memory /\ ~IsMisaligned(g[i])
    BY GatherKeys DEF WholeElementAccesses
  <2>2. 1 \in 1 .. 2 /\ 2 \in 1 .. 2
    OBVIOUS
  <2> QED BY <2>1, <2>2
<1>2. g[1] \in Elements /\ g[2] \in Elements
  BY <1>1, AlignedIsElement
<1>3. g[1] .. (g[1] + DataSize - 1) = ElementBytes(g[1]) /\ g[2] .. (g[2] + DataSize - 1) = ElementBytes(g[2])
  BY DEF ElementBytes
<1>4. ElementBytes(g[1]) \subseteq Memory /\ ElementBytes(g[2]) \subseteq Memory
  BY <1>2, ElementShape
<1>5. \A b \in Memory : b \in ElementBytes(g[1]) <=> IndexOf(b) = IndexOf(g[1])
  BY <1>2, ElementOfByte
<1>6. \A b \in Memory : b \in ElementBytes(g[2]) <=> IndexOf(b) = IndexOf(g[2])
  BY <1>2, ElementOfByte
<1>7. {IndexOf(g[1]), IndexOf(g[2])} = IndexesOf({g[1], g[2]})
  BY DEF IndexesOf
<1> QED BY <1>2, <1>3, <1>4, <1>5, <1>6, <1>7 DEF Covers
-----------------------------------------------------------------------------
(***************************************************************************)
(* The invariant of the memory.                                            *)
(***************************************************************************)
HoldsStored(s, last) == \A b \in Memory : s.memory[b].value = last[b]

MemoryInv == IInv /\ Sound(Buffer) /\ HoldsStored(Buffer, stored)

LEMMA AfterReadValues ==
  ASSUME NEW s, Sound(s), NEW last, HoldsStored(s, last), NEW K, K \subseteq Elements, NEW wh, NEW rh
  PROVE  HoldsStored(AfterRead(s, K, wh, rh), last)
<1> SUFFICES ASSUME NEW b \in Memory
             PROVE  AfterRead(s, K, wh, rh).memory[b].value = last[b]
  BY DEF HoldsStored
<1>1. AfterRead(s, K, wh, rh).memory[b] = ReadByte(s, K, wh, rh, b)
  BY AfterReadMemory
<1>2. ReadByte(s, K, wh, rh, b).value = s.memory[b].value
  BY DEF ReadByte
<1> QED BY <1>1, <1>2 DEF HoldsStored

LEMMA HitsInKeys ==
  ASSUME NEW s, NEW K, K \subseteq Elements,
         NEW wh \in WriteHits(s, K), NEW inject, NEW rh \in ReadHits(inject, K)
  PROVE  /\ wh \subseteq SpanOf(WithStatus(s, K, "Write")) /\ wh \subseteq SpanOf(K)
         /\ rh \subseteq SpanOf(K) /\ (~inject => rh = {})
BY DEF WriteHits, ReadHits, WithStatus, SpanOf

\* The record of the state, after a step that makes it s.
LEMMA BecomeIs ==
  ASSUME NEW s, Become(s)
  PROVE  Buffer'.memory = s.memory /\ Buffer'.status = s.status /\ Buffer'.backups = s.backups
BY DEF Become, Buffer

LEMMA SameSound ==
  ASSUME NEW s, NEW t, NEW last, Sound(s), HoldsStored(s, last),
         t.memory = s.memory, t.status = s.status, t.backups = s.backups
  PROVE  Sound(t) /\ HoldsStored(t, last)
BY DEF Sound, HoldsStored, IsBuffer, BackupsExact, ReadFaultsCovered

LEMMA BecomeSound ==
  ASSUME NEW s, Sound(s), HoldsStored(s, stored), Become(s), stored' = stored
  PROVE  Sound(Buffer') /\ HoldsStored(Buffer', stored')
<1> DEFINE t == Buffer'
<1>1. t.memory = s.memory /\ t.status = s.status /\ t.backups = s.backups
  BY BecomeIs
<1> HIDE DEF t
<1>2. Sound(t) /\ HoldsStored(t, stored)
  BY <1>1, SameSound
<1> QED BY <1>2 DEF t

\* A store, with the records of its elements marked before it.
LEMMA StoreSound ==
  ASSUME IsBuffer(Buffer'), Sound(Buffer), HoldsStored(Buffer, stored), NEW bytes, NEW K, Covers(bytes, K),
         NEW v \in Values, Store(bytes, v), readBackups' = readBackups,
         \A i \in Indexes : errorStatus'[i] = "Read" => i \notin IndexesOf(K),
         \A i \in Indexes : i \notin IndexesOf(K) => errorStatus'[i] = errorStatus[i]
  PROVE  Sound(Buffer') /\ HoldsStored(Buffer', stored')
<1>1. ASSUME NEW b \in Memory
      PROVE  /\ memory'[b] = IF b \in bytes THEN Clean(v) ELSE memory[b]
             /\ stored'[b] = IF b \in bytes THEN v ELSE stored[b]
             /\ memory[b].value = stored[b]
  BY DEF Store, StoreBytes, HoldsStored, Buffer
<1>2. HoldsStored(Buffer', stored')
  BY <1>1 DEF HoldsStored, Clean, Buffer
<1>3. ASSUME NEW i \in Indexes, NEW j \in 0 .. (BackupSize - 1), errorStatus'[i] = "Read"
      PROVE  readBackups'[i][j] = WithoutRead(memory'[AddressOf(i) + j])
  <2>1. AddressOf(i) + j \in Memory /\ IndexOf(AddressOf(i) + j) = i
    BY ElementIndex
  <2>2. i \notin IndexesOf(K) /\ errorStatus[i] = "Read"
    BY <1>3
  <2>3. AddressOf(i) + j \notin bytes
    BY <2>1, <2>2 DEF Covers
  <2>4. memory'[AddressOf(i) + j] = memory[AddressOf(i) + j]
    BY <1>1, <2>1, <2>3
  <2>5. readBackups[i][j] = WithoutRead(memory[AddressOf(i) + j])
    BY <2>2 DEF Sound, BackupsExact, Buffer
  <2> QED BY <2>4, <2>5
<1>4. ASSUME NEW b \in Memory, "read" \in memory'[b].faults
      PROVE  errorStatus'[IndexOf(b)] = "Read" /\ b \in Span(AddressOf(IndexOf(b)))
  <2>1. b \notin bytes /\ memory'[b] = memory[b]
    BY <1>1, <1>4 DEF Clean
  <2>2. IndexOf(b) \notin IndexesOf(K) /\ IndexOf(b) \in Indexes
    BY <2>1, MemoryInt, MemoryIndex DEF Covers
  <2>3. errorStatus[IndexOf(b)] = "Read" /\ b \in Span(AddressOf(IndexOf(b)))
    BY <1>4, <2>1 DEF Sound, ReadFaultsCovered, Buffer
  <2> QED BY <2>2, <2>3
<1>5. BackupsExact(Buffer')
  BY <1>3 DEF BackupsExact, Buffer
<1>6. ReadFaultsCovered(Buffer')
  BY <1>4 DEF ReadFaultsCovered, Buffer
<1> QED BY <1>2, <1>5, <1>6 DEF Sound

\* A store the buffer takes no notice of comes while it is retired.
LEMMA UnseenWhileRetired ==
  ASSUME WholeElementAccesses, NEW acc \in Accesses, NEW v, WriteUnseen(acc, v)
  PROVE  isActive = 0
BY DEF WriteUnseen, IsIgnored, IsIgnorableMisaligned, WholeElementAccesses

LEMMA InitSound == Init => Sound(Buffer) /\ HoldsStored(Buffer, stored)
<1> SUFFICES ASSUME Init PROVE Sound(Buffer) /\ HoldsStored(Buffer, stored)
  OBVIOUS
<1>1. IsBuffer(Buffer)
  BY InitIInv, TypeOKBuffer DEF IInv
<1>2. \A b \in Memory : memory[b].value = stored[b] /\ memory[b].faults = {}
  BY DEF Init, Clean
<1>3. \A i \in Indexes : errorStatus[i] = "None"
  BY DEF Init
<1> QED BY <1>1, <1>2, <1>3 DEF Sound, HoldsStored, BackupsExact, ReadFaultsCovered, Buffer

LEMMA NextSound ==
  ASSUME WholeElementAccesses
  PROVE  MemoryInv /\ [Next]_vars => Sound(Buffer') /\ HoldsStored(Buffer', stored')
<1> SUFFICES ASSUME MemoryInv, [Next]_vars
             PROVE  Sound(Buffer') /\ HoldsStored(Buffer', stored')
  OBVIOUS
<1>1. IInv /\ IInv' /\ Sound(Buffer) /\ HoldsStored(Buffer, stored)
  BY NextIInv DEF MemoryInv
<1>2. IsBuffer(Buffer')
  BY <1>1 DEF IInv, TypeOK, IsBuffer, Buffer
<1>3. ASSUME NEW K, K \subseteq Elements, NEW wh \in WriteHits(Buffer, K),
             NEW inject \in BOOLEAN, NEW rh \in ReadHits(inject, K),
             Become(AfterRead(Buffer, K, wh, rh)), stored' = stored
      PROVE  Sound(Buffer') /\ HoldsStored(Buffer', stored')
  <2>1. wh \subseteq SpanOf(K) /\ rh \subseteq SpanOf(K)
    BY <1>3, HitsInKeys
  <2>2. Sound(AfterRead(Buffer, K, wh, rh))
    BY <1>1, <1>3, <2>1, AfterReadSound
  <2>3. HoldsStored(AfterRead(Buffer, K, wh, rh), stored)
    BY <1>1, <1>3, AfterReadValues
  <2> QED BY <1>3, <2>2, <2>3, BecomeSound
<1>4. ASSUME NEW acc \in Accesses, NEW inject \in BOOLEAN, Read(acc, inject)
      PROVE  Sound(Buffer') /\ HoldsStored(Buffer', stored')
  <2>1. PICK w \in WriteHits(Buffer, KeysOf(acc)), r \in ReadHits(inject, KeysOf(acc)) :
          Become(AfterRead(Buffer, KeysOf(acc), w, r))
    BY <1>4 DEF Read
  <2>2. KeysOf(acc) \subseteq Elements /\ stored' = stored
    BY <1>4, AccessCovers DEF Covers, Read
  <2> QED BY <1>3, <2>1, <2>2
<1>5. ASSUME NEW g \in Gathers, NEW inject \in BOOLEAN, ReadScattered(g, inject)
      PROVE  Sound(Buffer') /\ HoldsStored(Buffer', stored')
  <2>1. PICK w1 \in WriteHits(Buffer, {g[1]}), r1 \in ReadHits(inject, {g[1]}) :
          LET s == AfterRead(Buffer, {g[1]}, w1, r1) IN
          \E w2 \in WriteHits(s, {g[2]}), r2 \in ReadHits(inject, {g[2]}) :
            Become(AfterRead(s, {g[2]}, w2, r2))
    BY <1>5 DEF ReadScattered
  <2> DEFINE s == AfterRead(Buffer, {g[1]}, w1, r1)
  <2>2. PICK w2 \in WriteHits(s, {g[2]}), r2 \in ReadHits(inject, {g[2]}) :
          Become(AfterRead(s, {g[2]}, w2, r2))
    BY <2>1
  <2>3. {g[1]} \subseteq Elements /\ {g[2]} \subseteq Elements
    BY GatherCovers
  <2>4. w1 \subseteq SpanOf({g[1]}) /\ r1 \subseteq SpanOf({g[1]})
    BY <2>3, HitsInKeys
  <2>5. Sound(s)
    BY <1>1, <2>3, <2>4, AfterReadSound
  <2>6. HoldsStored(s, stored)
    BY <1>1, <2>3, AfterReadValues
  <2> HIDE DEF s
  <2>7. w2 \subseteq SpanOf({g[2]}) /\ r2 \subseteq SpanOf({g[2]})
    BY <2>3, HitsInKeys
  <2>8. Sound(AfterRead(s, {g[2]}, w2, r2))
    BY <2>3, <2>5, <2>7, AfterReadSound
  <2>9. HoldsStored(AfterRead(s, {g[2]}, w2, r2), stored)
    BY <2>3, <2>5, <2>6, AfterReadValues
  <2>10. stored' = stored
    BY <1>5 DEF ReadScattered
  <2> QED BY <2>2, <2>8, <2>9, <2>10, BecomeSound
<1>6. ASSUME NEW bytes, NEW K, Covers(bytes, K), NEW v \in Values, NEW inject \in BOOLEAN,
             MarkWritten(IndexesOf(K), inject), Store(bytes, v)
      PROVE  Sound(Buffer') /\ HoldsStored(Buffer', stored')
  <2>1. /\ readBackups' = readBackups
        /\ \A i \in Indexes : errorStatus'[i] = "Read" => i \notin IndexesOf(K)
        /\ \A i \in Indexes : i \notin IndexesOf(K) => errorStatus'[i] = errorStatus[i]
    BY <1>6 DEF MarkWritten
  <2> QED BY <1>1, <1>2, <1>6, <2>1, StoreSound
<1>7. ASSUME NEW acc \in Accesses, NEW v \in Values, NEW inject \in BOOLEAN, Write(acc, v, inject)
      PROVE  Sound(Buffer') /\ HoldsStored(Buffer', stored')
  BY <1>6, <1>7, AccessCovers DEF Write
<1>8. ASSUME NEW g \in Gathers, NEW v \in Values, NEW inject \in BOOLEAN, WriteScattered(g, v, inject)
      PROVE  Sound(Buffer') /\ HoldsStored(Buffer', stored')
  BY <1>6, <1>8, GatherCovers DEF WriteScattered
<1>9. ASSUME NEW acc \in Accesses, NEW v \in Values, WriteUnseen(acc, v)
      PROVE  Sound(Buffer') /\ HoldsStored(Buffer', stored')
  <2>1. \A i \in Indexes : errorStatus[i] = "None"
    BY <1>1, <1>9, UnseenWhileRetired DEF IInv, RetiredRecordsAreNone
  <2>2. Store(BytesOf(acc), v) /\ readBackups' = readBackups /\ errorStatus' = errorStatus
    BY <1>9 DEF WriteUnseen
  <2>3. Covers(BytesOf(acc), KeysOf(acc))
    BY AccessCovers
  <2>4. /\ \A i \in Indexes : errorStatus'[i] = "Read" => i \notin IndexesOf(KeysOf(acc))
        /\ \A i \in Indexes : i \notin IndexesOf(KeysOf(acc)) => errorStatus'[i] = errorStatus[i]
    BY <2>1, <2>2
  <2> QED BY <1>1, <1>2, <2>2, <2>3, <2>4, StoreSound
<1>10. ASSUME RetireBuffer
       PROVE  Sound(Buffer') /\ HoldsStored(Buffer', stored')
  <2>1. PICK w \in WriteHits(Buffer, AllElements) : Become(AfterRead(Buffer, AllElements, w, {}))
    BY <1>10 DEF RetireBuffer, AllElements
  <2>2. AllElements \subseteq Elements /\ stored' = stored
    BY <1>10, AllKeys DEF RetireBuffer
  <2>3. {} \in ReadHits(FALSE, AllElements)
    BY DEF ReadHits
  <2> QED BY <1>3, <2>1, <2>2, <2>3
<1>11. ASSUME ReactivateBuffer
       PROVE  Sound(Buffer') /\ HoldsStored(Buffer', stored')
  <2>1. \A i \in Indexes : errorStatus'[i] = "None"
    BY <1>1, <1>11 DEF IInv, RetiredRecordsAreNone, ReactivateBuffer
  <2>2. memory' = memory /\ stored' = stored
    BY <1>11 DEF ReactivateBuffer
  <2>3. \A b \in Memory : "read" \notin memory'[b].faults
    <3>1. \A b \in Memory : IndexOf(b) \in Indexes
      BY MemoryInt, MemoryIndex
    <3>2. \A i \in Indexes : errorStatus[i] = "None"
      BY <1>11, <2>1 DEF ReactivateBuffer
    <3> QED BY <1>1, <2>2, <3>1, <3>2 DEF Sound, ReadFaultsCovered, Buffer
  <2> QED BY <1>1, <1>2, <2>1, <2>2, <2>3 DEF Sound, HoldsStored, BackupsExact, ReadFaultsCovered, Buffer
<1>12. CASE UNCHANGED vars
  <2>1. Buffer' = Buffer /\ stored' = stored
    BY <1>12 DEF vars, Buffer
  <2> QED BY <1>1, <2>1
<1> QED BY <1>4, <1>5, <1>7, <1>8, <1>9, <1>10, <1>11, <1>12 DEF Next

LEMMA SpecMemoryInv ==
  ASSUME WholeElementAccesses
  PROVE  Spec => []MemoryInv
<1>1. Init => MemoryInv
  BY InitIInv, InitSound DEF MemoryInv
<1>2. MemoryInv /\ [Next]_vars => MemoryInv'
  BY NextIInv, NextSound DEF MemoryInv
<1> QED BY <1>1, <1>2, PTL DEF Spec

LEMMA SoundBuffer == MemoryInv => StoredDataSurvives /\ ReadFaultsReversible
<1> SUFFICES ASSUME MemoryInv PROVE StoredDataSurvives /\ ReadFaultsReversible
  OBVIOUS
<1>1. \A b \in Memory : memory[b].value = stored[b] /\ memory[b] \in Byte
  BY DEF MemoryInv, HoldsStored, Sound, IsBuffer, Buffer
<1>2. ASSUME NEW i \in Indexes, NEW j \in 0 .. (BackupSize - 1), errorStatus[i] = "Read"
      PROVE  readBackups[i][j] = WithoutRead(memory[AddressOf(i) + j])
  BY <1>2 DEF MemoryInv, Sound, BackupsExact, Buffer
<1>3. ASSUME NEW i \in Indexes, NEW j \in 0 .. (BackupSize - 1), errorStatus[i] = "Read"
      PROVE  readBackups[i][j].value = stored[AddressOf(i) + j]
  <2>1. AddressOf(i) + j \in Memory
    BY ElementIndex
  <2> QED BY <1>1, <1>2, <1>3, <2>1, WithoutReadByte
<1>4. ASSUME NEW b \in Memory, "read" \in memory[b].faults
      PROVE  /\ errorStatus[IndexOf(b)] = "Read"
             /\ b \in Span(AddressOf(IndexOf(b)))
             /\ readBackups[IndexOf(b)][b - AddressOf(IndexOf(b))] = WithoutRead(memory[b])
  <2>1. errorStatus[IndexOf(b)] = "Read" /\ b \in Span(AddressOf(IndexOf(b)))
    BY <1>4 DEF MemoryInv, Sound, ReadFaultsCovered, Buffer
  <2>2. IndexOf(b) \in Indexes /\ b \in Int
    BY MemoryInt, MemoryIndex
  <2> DEFINE a == AddressOf(IndexOf(b))
  <2>3. a \in Int
    BY <2>2, Sizes DEF AddressOf, Indexes
  <2> HIDE DEF a
  <2>4. b - a \in 0 .. (BackupSize - 1) /\ a + (b - a) = b
    BY <2>1, <2>2, <2>3, Sizes DEF Span, a
  <2> QED BY <1>2, <2>1, <2>2, <2>4 DEF a
<1> QED BY <1>1, <1>3, <1>4 DEF StoredDataSurvives, ReadFaultsReversible, WithoutRead

\* For accesses of whole elements, nothing the buffer restores is older than
\* what the program stored last.
THEOREM LongTermDataKept ==
  ASSUME WholeElementAccesses
  PROVE  Spec => []StoredDataSurvives
BY SpecMemoryInv, SoundBuffer, PTL

\* For accesses of whole elements, no read fault stays in memory for good: the
\* record of its element says Read, and the backup undoes that fault alone.
THEOREM LongTermReadFaultsReversed ==
  ASSUME WholeElementAccesses
  PROVE  Spec => []ReadFaultsReversible
BY SpecMemoryInv, SoundBuffer, PTL
-----------------------------------------------------------------------------
(***************************************************************************)
(* The state the exact contract sees, for any memory and records.  As the  *)
(* backups are exact, putting them all back is taking all read faults off. *)
(***************************************************************************)
RestoredOf(s) == ReverseFaultyRead(s, WithStatus(s, Elements, "Read"))

DatumOf(s, e) ==
  [content |-> [i \in 0 .. (DataSize - 1) |-> RestoredOf(s)[e + i].value],
   faulty  |-> \E b \in ElementBytes(e) : "write" \in RestoredOf(s)[b].faults]

UndecidedIn(s) == WithStatus(s, Elements, "Write")

ReadFaulty(s, e) == \E b \in ElementBytes(e) : "read" \in s.memory[b].faults

ExposedIn(s) == {e \in Elements : ReadFaulty(s, e)}

ContentOf(s, e) == [i \in 0 .. (DataSize - 1) |-> s.memory[e + i].value]

WriteFaulty(s, e) == \E b \in ElementBytes(e) : "write" \in s.memory[b].faults

LEMMA DatumIs ==
  ASSUME NEW s, Sound(s), NEW e \in Elements
  PROVE  DatumOf(s, e) = [content |-> ContentOf(s, e), faulty |-> WriteFaulty(s, e)]
<1>1. ASSUME NEW b \in Memory
      PROVE  /\ RestoredOf(s)[b].value = s.memory[b].value
             /\ "write" \in RestoredOf(s)[b].faults <=> "write" \in s.memory[b].faults
  <2>1. RestoredOf(s)[b] = IF IndexOf(b) \in IndexesOf(Elements) THEN WithoutRead(s.memory[b]) ELSE s.memory[b]
    BY RestoredByte DEF RestoredOf
  <2>2. s.memory[b] \in Byte
    BY DEF Sound, IsBuffer
  <2> QED BY <2>1, <2>2 DEF WithoutRead, Byte
<1>2. [i \in 0 .. (DataSize - 1) |-> RestoredOf(s)[e + i].value] = ContentOf(s, e)
  <2>1. \A i \in 0 .. (DataSize - 1) : e + i \in Memory
    BY ElementShape
  <2> QED BY <1>1, <2>1 DEF ContentOf
<1>3. (\E b \in ElementBytes(e) : "write" \in RestoredOf(s)[b].faults) = WriteFaulty(s, e)
  BY <1>1, ElementShape DEF WriteFaulty
<1> QED BY <1>2, <1>3 DEF DatumOf

\* The contract's state, before and after a step.
LEMMA ContractState ==
  /\ [e \in Elements |-> Datum(e)] = [e \in Elements |-> DatumOf(Buffer, e)]
  /\ [e \in Elements |-> Datum(e)]' = [e \in Elements |-> DatumOf(Buffer', e)]
  /\ WithStatus(Buffer, Elements, "Write") = UndecidedIn(Buffer)
  /\ WithStatus(Buffer, Elements, "Write")' = UndecidedIn(Buffer')
  /\ {e \in Elements : \E b \in ElementBytes(e) : "read" \in memory[b].faults} = ExposedIn(Buffer)
  /\ {e \in Elements : \E b \in ElementBytes(e) : "read" \in memory[b].faults}' = ExposedIn(Buffer')
<1>1. \A e \in Elements : Datum(e) = DatumOf(Buffer, e) /\ Datum(e)' = DatumOf(Buffer', e)
  BY DEF Datum, DatumOf, Restored, RestoredOf
<1>2. /\ WithStatus(Buffer, Elements, "Write") = UndecidedIn(Buffer)
      /\ WithStatus(Buffer, Elements, "Write")' = UndecidedIn(Buffer')
  BY DEF UndecidedIn
<1> QED BY <1>1, <1>2 DEF ExposedIn, ReadFaulty, Buffer

Faulted(d) == [d EXCEPT !.faulty = TRUE]

LEMMA FaultedDatum ==
  ASSUME NEW c, NEW f
  PROVE  Faulted([content |-> c, faulty |-> f]) = [content |-> c, faulty |-> TRUE]
<1>1. \A v : [[content |-> c, faulty |-> f] EXCEPT !.faulty = v] = [content |-> c, faulty |-> v]
  OBVIOUS
<1> QED BY Zenon, <1>1 DEF Faulted

\* What the steps of the contract are for this buffer.
LEMMA ContractRead ==
  ASSUME NEW E \in SUBSET Elements, NEW approximate \in BOOLEAN,
         NEW seen \in IF approximate THEN SUBSET E ELSE {{}},
         ExposedIn(Buffer') = (ExposedIn(Buffer) \ E) \union seen,
         NEW hit \in SUBSET E, hit \subseteq UndecidedIn(Buffer),
         UndecidedIn(Buffer') = UndecidedIn(Buffer) \ E,
         \A e \in Elements : DatumOf(Buffer', e) =
           IF e \in hit THEN Faulted(DatumOf(Buffer, e)) ELSE DatumOf(Buffer, e)
  PROVE  Contract!AbsNext
<1> DEFINE data      == [e \in Elements |-> Datum(e)]
           undecided == WithStatus(Buffer, Elements, "Write")
           exposed   == {e \in Elements : \E b \in ElementBytes(e) : "read" \in memory[b].faults}
           T         == undecided \intersect E
<1>1. exposed' = (exposed \ E) \union seen
  BY ContractState
<1>2. data' = [e \in Elements |-> IF e \in hit THEN [data[e] EXCEPT !.faulty = TRUE] ELSE data[e]]
  BY ContractState DEF Faulted
<1>3. undecided' = undecided \ T /\ hit \in SUBSET T
  BY ContractState
<1>4. Contract!Decide(T, hit)
  BY <1>2, <1>3 DEF Contract!Decide
<1>5. T \in SUBSET undecided /\ E \intersect undecided \subseteq T /\ T \subseteq E
  OBVIOUS
<1>6. Contract!AbsRead(E, approximate)
  BY <1>1, <1>3, <1>4, <1>5 DEF Contract!AbsRead
<1> QED BY <1>6 DEF Contract!AbsNext

LEMMA ContractWrite ==
  ASSUME NEW E \in SUBSET Elements, NEW v \in Values, NEW approximate \in BOOLEAN,
         ExposedIn(Buffer') = ExposedIn(Buffer) \ E,
         UndecidedIn(Buffer') = IF approximate THEN UndecidedIn(Buffer) \union E ELSE UndecidedIn(Buffer) \ E,
         \A e \in Elements : DatumOf(Buffer', e) =
           IF e \in E THEN [content |-> [i \in 0 .. (DataSize - 1) |-> v], faulty |-> FALSE]
           ELSE DatumOf(Buffer, e)
  PROVE  Contract!AbsNext
<1> DEFINE data      == [e \in Elements |-> Datum(e)]
           undecided == WithStatus(Buffer, Elements, "Write")
           exposed   == {e \in Elements : \E b \in ElementBytes(e) : "read" \in memory[b].faults}
           c         == [i \in 0 .. (DataSize - 1) |-> v]
<1>1. exposed' = exposed \ E
  BY ContractState
<1>2. data' = [e \in Elements |-> IF e \in E THEN [content |-> c, faulty |-> FALSE] ELSE data[e]]
  BY ContractState
<1>3. c \in [0 .. (DataSize - 1) -> Values]
  OBVIOUS
<1>4. undecided' = IF approximate THEN undecided \union E ELSE undecided \ E
  BY ContractState
<1>5. undecided \ E = (undecided \ E) \union {}
  OBVIOUS
<1> HIDE DEF c
<1>6. Contract!AbsWrite(E, c, approximate)
  BY <1>1, <1>2, <1>4, <1>5 DEF Contract!AbsWrite
<1> QED BY <1>3, <1>6 DEF Contract!AbsNext
-----------------------------------------------------------------------------
(***************************************************************************)
(* Reads, as the contract sees them.                                       *)
(***************************************************************************)
\* From s to t the undecided writes of K are decided, those in hit with a fault.
ReadsAs(s, t, K, hit) ==
  /\ hit \subseteq UndecidedIn(s) \intersect K
  /\ UndecidedIn(t) = UndecidedIn(s) \ K
  /\ \A e \in Elements : DatumOf(t, e) = IF e \in hit THEN Faulted(DatumOf(s, e)) ELSE DatumOf(s, e)
  /\ \A e \in Elements \ K : ReadFaulty(t, e) <=> ReadFaulty(s, e)

HitElements(wh) == {e \in Elements : \E b \in ElementBytes(e) : b \in wh}

LEMMA ReadDatum ==
  ASSUME NEW s, Sound(s), NEW K, K \subseteq Elements, NEW wh, NEW rh,
         Sound(AfterRead(s, K, wh, rh)), NEW e \in Elements
  PROVE  DatumOf(AfterRead(s, K, wh, rh), e) =
           IF e \in HitElements(wh) THEN Faulted(DatumOf(s, e)) ELSE DatumOf(s, e)
<1> DEFINE t == AfterRead(s, K, wh, rh)
<1>1. ASSUME NEW b \in Memory
      PROVE  /\ t.memory[b].value = s.memory[b].value
             /\ "write" \in t.memory[b].faults <=> "write" \in s.memory[b].faults \/ b \in wh
  <2>1. t.memory[b] = ReadByte(s, K, wh, rh, b)
    BY AfterReadMemory
  <2> HIDE DEF t
  <2> QED BY <2>1 DEF ReadByte, SettledFaults
<1> HIDE DEF t
<1>2. Sound(t)
  BY DEF t
<1>3. /\ DatumOf(t, e) = [content |-> ContentOf(t, e), faulty |-> WriteFaulty(t, e)]
      /\ DatumOf(s, e) = [content |-> ContentOf(s, e), faulty |-> WriteFaulty(s, e)]
  BY <1>2, DatumIs
<1>4. ContentOf(t, e) = ContentOf(s, e)
  BY <1>1, ElementShape DEF ContentOf
<1>5. CASE e \in HitElements(wh)
  <2>1. WriteFaulty(t, e) = TRUE
    BY <1>1, <1>5, ElementShape DEF WriteFaulty, HitElements
  <2>2. DatumOf(t, e) = [content |-> ContentOf(s, e), faulty |-> TRUE]
    BY <1>3, <1>4, <2>1
  <2>3. Faulted(DatumOf(s, e)) = [content |-> ContentOf(s, e), faulty |-> TRUE]
    BY <1>3, FaultedDatum
  <2> QED BY <1>5, <2>2, <2>3 DEF t
<1>6. CASE e \notin HitElements(wh)
  <2>1. WriteFaulty(t, e) = WriteFaulty(s, e)
    BY <1>1, <1>6, ElementShape DEF WriteFaulty, HitElements
  <2> QED BY <1>3, <1>4, <1>6, <2>1 DEF t
<1> QED BY <1>5, <1>6

LEMMA ReadReadsAs ==
  ASSUME NEW s, Sound(s), NEW K, K \subseteq Elements,
         NEW wh, wh \subseteq SpanOf(WithStatus(s, K, "Write")), NEW rh, rh \subseteq SpanOf(K)
  PROVE  /\ Sound(AfterRead(s, K, wh, rh))
         /\ ReadsAs(s, AfterRead(s, K, wh, rh), K, HitElements(wh))
         /\ rh = {} => \A e \in K : ~ReadFaulty(AfterRead(s, K, wh, rh), e)
<1> DEFINE t == AfterRead(s, K, wh, rh)
           W == WithStatus(s, K, "Write")
           hit(i) == \E b \in rh : IndexOf(b) = i
<1>1. W \subseteq K /\ W = UndecidedIn(s) \intersect K
  BY DEF WithStatus, UndecidedIn
<1>2. wh \subseteq SpanOf(K)
  BY DEF WithStatus, SpanOf
<1>3. Sound(t)
  BY <1>2, AfterReadSound
<1>4. \A e \in Elements : DatumOf(t, e) = IF e \in HitElements(wh) THEN Faulted(DatumOf(s, e)) ELSE DatumOf(s, e)
  BY <1>3, ReadDatum
<1>5. \A b \in Memory : t.memory[b] = ReadByte(s, K, wh, rh, b)
  BY AfterReadMemory
<1>6. ASSUME NEW i \in Indexes
      PROVE  /\ t.status[i] = IF hit(i) THEN "Read" ELSE IF i \in IndexesOf(K) THEN "None" ELSE s.status[i]
             /\ hit(i) => i \in IndexesOf(K)
             /\ hit(i) => t.backups[i] = [j \in 0 .. (BackupSize - 1) |-> Settled(s, K, wh)[AddressOf(i) + j]]
             /\ ~hit(i) => t.backups[i] = s.backups[i]
  <2>1. RecordRead(t, s, K, wh, rh, i)
    BY AfterReadRecords
  <2> HIDE DEF t
  <2> QED BY <2>1 DEF RecordRead, HitAt
<1>7. \A e \in Elements : IndexOf(e) \in Indexes /\ (IndexOf(e) \in IndexesOf(K) <=> e \in K)
  <2> SUFFICES ASSUME NEW e \in Elements
               PROVE  IndexOf(e) \in Indexes /\ (IndexOf(e) \in IndexesOf(K) <=> e \in K)
    OBVIOUS
  <2>1. ASSUME NEW k \in K, IndexOf(e) = IndexOf(k) PROVE e = k
    BY <2>1, ElementShape
  <2> QED BY <2>1, ElementShape DEF IndexesOf
<1> HIDE DEF t, W, hit
<1>8. HitElements(wh) \subseteq UndecidedIn(s) \intersect K
  <2> SUFFICES ASSUME NEW e \in Elements, NEW b \in ElementBytes(e), b \in wh PROVE e \in W
    BY <1>1 DEF HitElements
  <2>1. W \subseteq Elements /\ b \in SpanOf(W)
    BY <1>1 DEF W
  <2>2. AddressOf(IndexOf(b)) \in W
    BY <2>1, SpanIndex
  <2>3. IndexOf(b) = IndexOf(e)
    BY ElementOfByte
  <2> QED BY <2>2, <2>3, ElementShape
<1>9. UndecidedIn(t) = UndecidedIn(s) \ K
  <2>1. \A e \in Elements : t.status[IndexOf(e)] = "Write" <=> s.status[IndexOf(e)] = "Write" /\ e \notin K
    BY <1>6, <1>7
  <2> QED BY <2>1 DEF UndecidedIn, WithStatus
<1>10. ASSUME NEW e \in Elements \ K PROVE ReadFaulty(t, e) <=> ReadFaulty(s, e)
  <2>1. ASSUME NEW b \in ElementBytes(e)
        PROVE  "read" \in t.memory[b].faults <=> "read" \in s.memory[b].faults
    <3>1. b \in Memory /\ IndexOf(b) = IndexOf(e)
      BY ElementOfByte
    <3>2. IndexOf(b) \notin IndexesOf(K)
      BY <1>7, <3>1
    <3>3. b \notin rh
      BY <3>2, SpanIndex
    <3>4. t.memory[b] = ReadByte(s, K, wh, rh, b)
      BY <1>5, <3>1
    <3> QED BY <3>2, <3>3, <3>4 DEF ReadByte, SettledFaults
  <2> QED BY <2>1 DEF ReadFaulty
<1>11. ASSUME rh = {}, NEW e \in K PROVE ~ReadFaulty(t, e)
  <2>1. ASSUME NEW b \in ElementBytes(e) PROVE "read" \notin t.memory[b].faults
    <3>1. b \in Memory /\ IndexOf(b) = IndexOf(e)
      BY ElementOfByte
    <3>2. IndexOf(b) \in IndexesOf(K)
      BY <1>7, <3>1
    <3>3. t.memory[b] = ReadByte(s, K, wh, rh, b)
      BY <1>5, <3>1
    <3> QED BY <1>11, <3>2, <3>3 DEF ReadByte, SettledFaults
  <2> QED BY <2>1 DEF ReadFaulty
<1> QED BY <1>3, <1>4, <1>8, <1>9, <1>10, <1>11 DEF ReadsAs, t

LEMMA BecomeAfterRead ==
  ASSUME NEW s, NEW K, NEW wh, NEW rh, Become(AfterRead(s, K, wh, rh))
  PROVE  Buffer' = AfterRead(s, K, wh, rh)
BY DEF Become, AfterRead, Buffer

\* A step that reads as the contract wants it is a step of the contract.
LEMMA ReadRefines ==
  ASSUME NEW K, K \subseteq Elements, NEW hit, ReadsAs(Buffer, Buffer', K, hit),
         NEW inject \in BOOLEAN, ~inject => \A e \in K : ~ReadFaulty(Buffer', e)
  PROVE  Contract!AbsNext
<1> DEFINE u    == Buffer'
           seen == {e \in K : ReadFaulty(u, e)}
<1> HIDE DEF u
<1>1. ReadsAs(Buffer, u, K, hit)
  BY DEF u
<1>2. K \in SUBSET Elements /\ hit \in SUBSET K /\ hit \subseteq UndecidedIn(Buffer)
  BY <1>1 DEF ReadsAs
<1>3. ExposedIn(u) = (ExposedIn(Buffer) \ K) \union seen
  BY <1>1 DEF ExposedIn, ReadsAs
<1>4. seen \in IF inject THEN SUBSET K ELSE {{}}
  <2>1. seen \subseteq K /\ (~inject => seen = {})
    BY DEF u
  <2> HIDE DEF seen
  <2> QED BY <2>1
<1> HIDE DEF seen
<1>5. /\ ExposedIn(Buffer') = (ExposedIn(Buffer) \ K) \union seen
      /\ UndecidedIn(Buffer') = UndecidedIn(Buffer) \ K
      /\ \A e \in Elements : DatumOf(Buffer', e) = IF e \in hit THEN Faulted(DatumOf(Buffer, e)) ELSE DatumOf(Buffer, e)
  BY <1>1, <1>3 DEF ReadsAs, u
<1> QED BY <1>2, <1>4, <1>5, ContractRead

\* Two reads in a row are one, of the elements of both.
LEMMA ReadsCompose ==
  ASSUME NEW s, NEW t, NEW u, NEW K, NEW L, NEW h, NEW k, K \subseteq Elements, L \subseteq Elements,
         ReadsAs(s, t, K, h), ReadsAs(t, u, L, k)
  PROVE  ReadsAs(s, u, K \union L, h \union k)
<1>1. h \subseteq UndecidedIn(s) \intersect K /\ k \subseteq (UndecidedIn(s) \ K) \intersect L
  BY DEF ReadsAs
<1>2. UndecidedIn(u) = UndecidedIn(s) \ (K \union L)
  BY DEF ReadsAs
<1>3. ASSUME NEW e \in Elements
      PROVE  DatumOf(u, e) = IF e \in h \union k THEN Faulted(DatumOf(s, e)) ELSE DatumOf(s, e)
  <2>1. /\ DatumOf(t, e) = IF e \in h THEN Faulted(DatumOf(s, e)) ELSE DatumOf(s, e)
        /\ DatumOf(u, e) = IF e \in k THEN Faulted(DatumOf(t, e)) ELSE DatumOf(t, e)
    BY DEF ReadsAs
  <2>2. ~(e \in h /\ e \in k)
    BY <1>1
  <2> QED BY <2>1, <2>2
<1>4. \A e \in Elements \ (K \union L) : ReadFaulty(u, e) <=> ReadFaulty(s, e)
  BY DEF ReadsAs
<1> QED BY <1>1, <1>2, <1>3, <1>4 DEF ReadsAs
-----------------------------------------------------------------------------
(***************************************************************************)
(* Writes, as the contract sees them, and the theorem.                     *)
(***************************************************************************)
LEMMA StoreRefines ==
  ASSUME Sound(Buffer), Sound(Buffer'), NEW bytes, NEW K, Covers(bytes, K), NEW v \in Values, Store(bytes, v)
  PROVE  /\ ExposedIn(Buffer') = ExposedIn(Buffer) \ K
         /\ \A e \in Elements : DatumOf(Buffer', e) =
              IF e \in K THEN [content |-> [i \in 0 .. (DataSize - 1) |-> v], faulty |-> FALSE]
              ELSE DatumOf(Buffer, e)
<1>1. \A b \in Memory : Buffer'.memory[b] = IF b \in bytes THEN Clean(v) ELSE Buffer.memory[b]
  BY DEF Store, StoreBytes, Buffer
<1>2. ASSUME NEW e \in Elements, NEW b \in ElementBytes(e)
      PROVE  b \in Memory /\ (b \in bytes <=> e \in K)
  <2>1. b \in Memory /\ IndexOf(b) = IndexOf(e)
    BY ElementOfByte
  <2>2. b \in bytes <=> IndexOf(e) \in IndexesOf(K)
    BY <2>1 DEF Covers
  <2>3. ASSUME NEW k \in K, IndexOf(e) = IndexOf(k) PROVE e = k
    BY <2>3, ElementShape DEF Covers
  <2> QED BY <2>1, <2>2, <2>3 DEF IndexesOf
<1>3. ASSUME NEW e \in Elements
      PROVE  /\ DatumOf(Buffer', e) = [content |-> ContentOf(Buffer', e), faulty |-> WriteFaulty(Buffer', e)]
             /\ DatumOf(Buffer, e) = [content |-> ContentOf(Buffer, e), faulty |-> WriteFaulty(Buffer, e)]
  BY DatumIs
<1>4. ASSUME NEW e \in Elements, e \notin K
      PROVE  DatumOf(Buffer', e) = DatumOf(Buffer, e) /\ (ReadFaulty(Buffer', e) <=> ReadFaulty(Buffer, e))
  <2>0. \A b \in ElementBytes(e) : Buffer'.memory[b] = Buffer.memory[b]
    BY <1>1, <1>2, <1>4
  <2>1. ContentOf(Buffer', e) = ContentOf(Buffer, e)
    BY <2>0, ElementShape DEF ContentOf
  <2>2. WriteFaulty(Buffer', e) = WriteFaulty(Buffer, e)
    BY <2>0 DEF WriteFaulty
  <2>3. ReadFaulty(Buffer', e) <=> ReadFaulty(Buffer, e)
    BY <2>0 DEF ReadFaulty
  <2> QED BY <1>3, <2>1, <2>2, <2>3
<1>5. ASSUME NEW e \in K
      PROVE  /\ DatumOf(Buffer', e) = [content |-> [i \in 0 .. (DataSize - 1) |-> v], faulty |-> FALSE]
             /\ ~ReadFaulty(Buffer', e)
  <2>0. e \in Elements
    BY DEF Covers
  <2>1. \A b \in ElementBytes(e) : Buffer'.memory[b] = Clean(v)
    BY <1>1, <1>2, <2>0
  <2>2. ContentOf(Buffer', e) = [i \in 0 .. (DataSize - 1) |-> v]
    BY <2>0, <2>1, ElementShape DEF ContentOf, Clean
  <2>3. WriteFaulty(Buffer', e) = FALSE /\ ~ReadFaulty(Buffer', e)
    BY <2>1 DEF WriteFaulty, ReadFaulty, Clean
  <2> QED BY <1>3, <2>0, <2>2, <2>3
<1>6. ExposedIn(Buffer') = ExposedIn(Buffer) \ K
  BY <1>4, <1>5 DEF ExposedIn
<1> QED BY <1>4, <1>5, <1>6

\* A write settles the records of exactly the elements it stores to.
LEMMA WriteRefines ==
  ASSUME Sound(Buffer), Sound(Buffer'), NEW bytes, NEW K, Covers(bytes, K), NEW v \in Values,
         NEW inject \in BOOLEAN, MarkWritten(IndexesOf(K), inject), Store(bytes, v)
  PROVE  Contract!AbsNext
<1> DEFINE u == Buffer'
<1>1. /\ ExposedIn(u) = ExposedIn(Buffer) \ K
      /\ \A e \in Elements : DatumOf(u, e) =
           IF e \in K THEN [content |-> [i \in 0 .. (DataSize - 1) |-> v], faulty |-> FALSE]
           ELSE DatumOf(Buffer, e)
  BY StoreRefines
<1>2. K \in SUBSET Elements
  BY DEF Covers
<1>3. ASSUME NEW e \in Elements
      PROVE  u.status[IndexOf(e)] = IF e \in K THEN (IF inject THEN "Write" ELSE "None") ELSE Buffer.status[IndexOf(e)]
  <2>1. ASSUME NEW k \in K, IndexOf(e) = IndexOf(k) PROVE e = k
    BY <1>2, <2>1, ElementShape
  <2>2. IndexOf(e) \in Indexes /\ (IndexOf(e) \in IndexesOf(K) <=> e \in K)
    BY <2>1, ElementShape DEF IndexesOf
  <2> QED BY <2>2 DEF MarkWritten, Buffer
<1> HIDE DEF u
<1>4. UndecidedIn(u) = IF inject THEN UndecidedIn(Buffer) \union K ELSE UndecidedIn(Buffer) \ K
  BY <1>2, <1>3 DEF UndecidedIn, WithStatus
<1> QED BY <1>1, <1>2, <1>4, ContractWrite DEF u

\* While the buffer is retired no record is set, and a store is a precise write.
LEMMA UnseenRefines ==
  ASSUME WholeElementAccesses, MemoryInv, Sound(Buffer'),
         NEW acc \in Accesses, NEW v \in Values, WriteUnseen(acc, v)
  PROVE  Contract!AbsNext
<1> DEFINE K      == KeysOf(acc)
           inject == FALSE
<1>1. Store(BytesOf(acc), v) /\ errorStatus' = errorStatus /\ readBackups' = readBackups
  BY DEF WriteUnseen
<1>2. \A i \in Indexes : errorStatus[i] = "None"
  BY UnseenWhileRetired DEF MemoryInv, IInv, RetiredRecordsAreNone
<1>3. errorStatus = [i \in Indexes |-> errorStatus[i]]
  BY DEF MemoryInv, IInv, TypeOK
<1>4. MarkWritten(IndexesOf(K), inject)
  <2>1. \A i \in Indexes : errorStatus[i] =
          IF i \in IndexesOf(K) THEN (IF inject THEN "Write" ELSE "None") ELSE errorStatus[i]
    BY <1>2
  <2> HIDE DEF K, inject
  <2> QED BY <1>1, <1>3, <2>1 DEF MarkWritten
<1>5. Covers(BytesOf(acc), K) /\ Sound(Buffer) /\ inject \in BOOLEAN
  BY AccessCovers DEF MemoryInv
<1> HIDE DEF K, inject
<1> QED BY <1>1, <1>4, <1>5, WriteRefines

LEMMA InitRefines == Init => Contract!AbsInit
<1> SUFFICES ASSUME Init PROVE Contract!AbsInit
  OBVIOUS
<1> DEFINE data      == [e \in Elements |-> Datum(e)]
           undecided == WithStatus(Buffer, Elements, "Write")
           exposed   == {e \in Elements : \E b \in ElementBytes(e) : "read" \in memory[b].faults}
<1>1. \A i \in Indexes : errorStatus[i] = "None"
  BY DEF Init
<1>2. \A e \in Elements : IndexOf(e) \in Indexes
  BY ElementShape
<1>3. undecided = {}
  BY <1>1, <1>2 DEF WithStatus, Buffer
<1>4. ASSUME NEW b \in Memory
      PROVE  memory[b].value \in Values /\ memory[b].faults = {}
  BY DEF Init, Clean
<1>5. Sound(Buffer)
  BY InitSound
<1>6. ASSUME NEW e \in Elements, NEW b \in ElementBytes(e) PROVE b \in Memory /\ memory[b].faults = {}
  BY <1>4, ElementShape
<1>7. exposed = {}
  BY <1>6
<1>8. ASSUME NEW e \in Elements
      PROVE  /\ data[e] = [content |-> ContentOf(Buffer, e), faulty |-> WriteFaulty(Buffer, e)]
             /\ ContentOf(Buffer, e) \in [0 .. (DataSize - 1) -> Values]
             /\ WriteFaulty(Buffer, e) = FALSE
  <2>1. data[e] = DatumOf(Buffer, e)
    BY ContractState
  <2>2. DatumOf(Buffer, e) = [content |-> ContentOf(Buffer, e), faulty |-> WriteFaulty(Buffer, e)]
    BY <1>5, DatumIs
  <2>3. Buffer.memory = memory
    BY DEF Buffer
  <2>4. \A i \in 0 .. (DataSize - 1) : memory[e + i].value \in Values
    BY <1>4, ElementShape
  <2>5. ContentOf(Buffer, e) \in [0 .. (DataSize - 1) -> Values]
    BY <2>3, <2>4 DEF ContentOf
  <2>6. WriteFaulty(Buffer, e) = FALSE
    BY <1>6, <2>3 DEF WriteFaulty
  <2> QED BY <2>1, <2>2, <2>5, <2>6
<1>9. ASSUME NEW e \in Elements
      PROVE  data[e] \in [content : [0 .. (DataSize - 1) -> Values], faulty : {FALSE}]
  <2> DEFINE c == ContentOf(Buffer, e)
             C == [0 .. (DataSize - 1) -> Values]
  <2>1. data[e] = [content |-> c, faulty |-> FALSE] /\ c \in C
    <3> HIDE DEF data
    <3> QED BY <1>8
  <2> HIDE DEF data, c, C
  <2>2. [content |-> c, faulty |-> FALSE] \in [content : C, faulty : {FALSE}]
    BY <2>1
  <2> QED BY <2>1, <2>2 DEF C
<1>10. data \in [Elements -> [content : [0 .. (DataSize - 1) -> Values], faulty : {FALSE}]]
  BY <1>9
<1> HIDE DEF data, exposed, undecided
<1> QED BY <1>3, <1>7, <1>10 DEF Contract!AbsInit, data, exposed, undecided

\* The contract looks at no backup that is not in use.
LEMMA Stutters ==
  ASSUME Sound(Buffer), Sound(Buffer'), memory' = memory, errorStatus' = errorStatus
  PROVE  UNCHANGED Contract!absVars
<1> DEFINE u == Buffer'
<1>1. u.memory = Buffer.memory /\ u.status = Buffer.status /\ Sound(u)
  BY DEF Buffer
<1> HIDE DEF u
<1>2. \A e \in Elements : ContentOf(u, e) = ContentOf(Buffer, e) /\ WriteFaulty(u, e) = WriteFaulty(Buffer, e)
  BY <1>1 DEF ContentOf, WriteFaulty
<1>3. \A e \in Elements : DatumOf(u, e) = DatumOf(Buffer, e)
  BY <1>1, <1>2, DatumIs
<1>4. [e \in Elements |-> DatumOf(u, e)] = [e \in Elements |-> DatumOf(Buffer, e)]
  BY <1>3
<1>5. ExposedIn(u) = ExposedIn(Buffer) /\ UndecidedIn(u) = UndecidedIn(Buffer)
  BY <1>1 DEF ExposedIn, ReadFaulty, UndecidedIn, WithStatus
<1> QED BY <1>4, <1>5, ContractState DEF Contract!absVars, u

LEMMA StepRefines ==
  ASSUME WholeElementAccesses
  PROVE  MemoryInv /\ [Next]_vars => [Contract!AbsNext]_(Contract!absVars)
<1> SUFFICES ASSUME MemoryInv, [Next]_vars PROVE [Contract!AbsNext]_(Contract!absVars)
  OBVIOUS
<1>1. Sound(Buffer) /\ Sound(Buffer')
  BY NextSound DEF MemoryInv
<1>2. ASSUME NEW K, K \subseteq Elements, NEW wh \in WriteHits(Buffer, K),
             NEW inject \in BOOLEAN, NEW rh \in ReadHits(inject, K),
             Become(AfterRead(Buffer, K, wh, rh))
      PROVE  Contract!AbsNext
  <2> DEFINE t == AfterRead(Buffer, K, wh, rh)
             h == HitElements(wh)
  <2>1. wh \subseteq SpanOf(WithStatus(Buffer, K, "Write")) /\ rh \subseteq SpanOf(K) /\ (~inject => rh = {})
    BY <1>2, HitsInKeys
  <2>2. ReadsAs(Buffer, t, K, h) /\ (rh = {} => \A e \in K : ~ReadFaulty(t, e))
    BY <1>1, <1>2, <2>1, ReadReadsAs
  <2>3. Buffer' = t
    BY <1>2, BecomeAfterRead
  <2> HIDE DEF t, h
  <2>4. ReadsAs(Buffer, Buffer', K, h) /\ (~inject => \A e \in K : ~ReadFaulty(Buffer', e))
    BY <2>1, <2>2, <2>3
  <2> QED BY <1>2, <2>4, ReadRefines
<1>3. ASSUME NEW acc \in Accesses, NEW inject \in BOOLEAN, Read(acc, inject) PROVE Contract!AbsNext
  <2>1. PICK w \in WriteHits(Buffer, KeysOf(acc)), r \in ReadHits(inject, KeysOf(acc)) :
          Become(AfterRead(Buffer, KeysOf(acc), w, r))
    BY <1>3 DEF Read
  <2>2. KeysOf(acc) \subseteq Elements
    BY AccessCovers DEF Covers
  <2> QED BY <1>2, <2>1, <2>2
<1>4. ASSUME NEW g \in Gathers, NEW inject \in BOOLEAN, ReadScattered(g, inject) PROVE Contract!AbsNext
  <2>1. PICK w1 \in WriteHits(Buffer, {g[1]}), r1 \in ReadHits(inject, {g[1]}) :
          LET s == AfterRead(Buffer, {g[1]}, w1, r1) IN
          \E w2 \in WriteHits(s, {g[2]}), r2 \in ReadHits(inject, {g[2]}) :
            Become(AfterRead(s, {g[2]}, w2, r2))
    BY <1>4 DEF ReadScattered
  <2> DEFINE s == AfterRead(Buffer, {g[1]}, w1, r1)
  <2>2. PICK w2 \in WriteHits(s, {g[2]}), r2 \in ReadHits(inject, {g[2]}) :
          Become(AfterRead(s, {g[2]}, w2, r2))
    BY <2>1
  <2> DEFINE t  == AfterRead(s, {g[2]}, w2, r2)
             K  == {g[1]}
             L  == {g[2]}
             h1 == HitElements(w1)
             h2 == HitElements(w2)
  <2>3. K \subseteq Elements /\ L \subseteq Elements
    BY GatherCovers
  <2>4. /\ w1 \subseteq SpanOf(WithStatus(Buffer, K, "Write")) /\ r1 \subseteq SpanOf(K)
        /\ ~inject => r1 = {}
    BY <2>3, HitsInKeys
  <2>5. Sound(s) /\ ReadsAs(Buffer, s, K, h1) /\ (r1 = {} => \A e \in K : ~ReadFaulty(s, e))
    BY <1>1, <2>3, <2>4, ReadReadsAs
  <2>6. Buffer' = t
    BY <2>2, BecomeAfterRead
  <2> HIDE DEF s
  <2>7. /\ w2 \subseteq SpanOf(WithStatus(s, L, "Write")) /\ r2 \subseteq SpanOf(L)
        /\ ~inject => r2 = {}
    BY <2>3, HitsInKeys
  <2>8. ReadsAs(s, t, L, h2) /\ (r2 = {} => \A e \in L : ~ReadFaulty(t, e))
    BY <2>3, <2>5, <2>7, ReadReadsAs
  <2> HIDE DEF t, K, L, h1, h2
  <2>9. ReadsAs(Buffer, t, K \union L, h1 \union h2)
    BY <2>3, <2>5, <2>8, ReadsCompose
  <2>10. ~inject => \A e \in K \union L : ~ReadFaulty(t, e)
    <3> SUFFICES ASSUME ~inject, NEW e \in K \union L PROVE ~ReadFaulty(t, e)
      OBVIOUS
    <3>1. CASE e \in L
      BY <2>7, <2>8, <3>1
    <3>2. CASE e \notin L
      <4>1. e \in K /\ ~ReadFaulty(s, e)
        BY <2>4, <2>5, <3>2
      <4> QED BY <2>3, <2>8, <3>2, <4>1 DEF ReadsAs
    <3> QED BY <3>1, <3>2
  <2>11. K \union L \subseteq Elements
    BY <2>3
  <2>12. /\ ReadsAs(Buffer, Buffer', K \union L, h1 \union h2)
         /\ ~inject => \A e \in K \union L : ~ReadFaulty(Buffer', e)
    BY <2>6, <2>9, <2>10
  <2> QED BY <2>11, <2>12, ReadRefines
<1>5. ASSUME NEW acc \in Accesses, NEW v \in Values, NEW inject \in BOOLEAN, Write(acc, v, inject)
      PROVE  Contract!AbsNext
  BY <1>1, <1>5, AccessCovers, WriteRefines DEF Write
<1>6. ASSUME NEW g \in Gathers, NEW v \in Values, NEW inject \in BOOLEAN, WriteScattered(g, v, inject)
      PROVE  Contract!AbsNext
  BY <1>1, <1>6, GatherCovers, WriteRefines DEF WriteScattered
<1>7. ASSUME NEW acc \in Accesses, NEW v \in Values, WriteUnseen(acc, v) PROVE Contract!AbsNext
  BY <1>1, <1>7, UnseenRefines
<1>8. ASSUME RetireBuffer PROVE Contract!AbsNext
  <2>1. PICK w \in WriteHits(Buffer, AllElements) : Become(AfterRead(Buffer, AllElements, w, {}))
    BY <1>8 DEF RetireBuffer, AllElements
  <2>2. AllElements \subseteq Elements /\ {} \in ReadHits(FALSE, AllElements)
    BY AllKeys DEF ReadHits
  <2> QED BY <1>2, <2>1, <2>2
<1>9. ASSUME ReactivateBuffer \/ UNCHANGED vars PROVE UNCHANGED Contract!absVars
  BY <1>1, <1>9, Stutters DEF ReactivateBuffer, vars
<1> QED BY <1>3, <1>4, <1>5, <1>6, <1>7, <1>8, <1>9 DEF Next

\* For accesses of whole elements the buffer keeps the exact contract: a write
\* gets its fault when its own element is read, or on retirement, or never;
\* a precise write forgets it; and no read fault outlives the next access.
THEOREM ExactContractImplemented ==
  ASSUME WholeElementAccesses
  PROVE  Spec => ImplementsExactContract
<1>1. Init => Contract!AbsInit
  BY InitRefines
<1>2. MemoryInv /\ [Next]_vars => [Contract!AbsNext]_(Contract!absVars)
  BY StepRefines
<1>3. Spec => []MemoryInv
  BY SpecMemoryInv
<1> QED BY <1>1, <1>2, <1>3, PTL DEF Spec, ImplementsExactContract, Contract!AbsSpec
=============================================================================
