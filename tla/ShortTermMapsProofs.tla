------------------------- MODULE ShortTermMapsProofs -------------------------
(***************************************************************************)
(* What the operators of BufferMemory and ShortTermMaps return, and what   *)
(* they preserve.  The theorems about ShortTermBuffer and about            *)
(* LockedAccess rest on these lemmas.                                      *)
(***************************************************************************)
EXTENDS ShortTermMaps, TLAPS

(***************************************************************************)
(* What the operators on memory and on the maps return.                    *)
(***************************************************************************)
\* Fault injection and stores keep the memory a memory.
LEMMA InjectFaultType ==
  ASSUME NEW mem \in [Memory -> Byte], NEW hit, NEW kind \in FaultKinds
  PROVE  InjectFault(mem, hit, kind) \in [Memory -> Byte]
BY DEF InjectFault, Byte

LEMMA StoreBytesType ==
  ASSUME NEW mem \in [Memory -> Byte], NEW bytes, NEW v \in Values
  PROVE  StoreBytes(mem, bytes, v) \in [Memory -> Byte]
BY DEF StoreBytes, Clean, Byte, FaultKinds

\* A map of backups: each key is the address of an element of the buffer.
IsReads(reads) ==
  /\ DOMAIN reads \subseteq Keys
  /\ \A a \in DOMAIN reads : reads[a] \in Backup
  /\ reads = [a \in DOMAIN reads |-> reads[a]]

\* Restoring backups keeps the memory a memory.
LEMMA ReverseFaultyReadType ==
  ASSUME NEW mem \in [Memory -> Byte], NEW reads, IsReads(reads),
         NEW K, K \subseteq DOMAIN reads
  PROVE  ReverseFaultyRead(mem, reads, K) \in [Memory -> Byte]
<1> SUFFICES ASSUME NEW b \in Memory, \E a \in K : IsLastOver(a, b, K)
             PROVE  reads[CHOOSE a \in K : IsLastOver(a, b, K)]
                         [b - (CHOOSE a \in K : IsLastOver(a, b, K))] \in Byte
  BY DEF ReverseFaultyRead
<1> DEFINE k == CHOOSE a \in K : IsLastOver(a, b, K)
<1>1. k \in K /\ IsLastOver(k, b, K)
  OBVIOUS
<1> HIDE DEF k
<1>2. reads[k] \in Backup
  BY <1>1 DEF IsReads
<1>3. k \in Int /\ b \in Int
  BY <1>1, BufferAssumption DEF IsReads, Keys, Memory
<1>4. b - k \in 0 .. (BackupSize - 1)
  BY <1>1, <1>3, BufferAssumption DEF IsLastOver, Span
<1> QED BY <1>2, <1>4 DEF Backup, k

\* Dropping keys and adding backups keeps the map a map, and says which keys
\* it has.
LEMMA DropReads ==
  ASSUME NEW reads, IsReads(reads), NEW K
  PROVE  /\ IsReads(Drop(reads, K))
         /\ DOMAIN Drop(reads, K) = DOMAIN reads \ K
BY DEF IsReads, Drop

LEMMA BackupReads ==
  ASSUME NEW reads, IsReads(reads), NEW mem \in [Memory -> Byte],
         NEW K, K \subseteq Keys
  PROVE  /\ IsReads(BackupReadData(reads, mem, K))
         /\ DOMAIN BackupReadData(reads, mem, K) = DOMAIN reads \union K
<1> DEFINE taken == BackupReadData(reads, mem, K)
<1>1. DOMAIN taken = DOMAIN reads \union K
  BY DEF BackupReadData
<1>2. ASSUME NEW a \in DOMAIN taken PROVE taken[a] \in Backup
  <2>1. CASE a \in DOMAIN reads
    BY <2>1, <1>1 DEF IsReads, BackupReadData
  <2>2. CASE a \notin DOMAIN reads
    <3>0. a \in K
      BY <2>2, <1>1
    <3>1. a \in K /\ a \in Int /\ Span(a) \subseteq Memory
      BY <3>0, BufferAssumption DEF Keys, Memory
    <3>2. ASSUME NEW i \in 0 .. (BackupSize - 1) PROVE mem[a + i] \in Byte
      BY <3>1, BufferAssumption DEF Span
    <3>3. taken[a] = [i \in 0 .. (BackupSize - 1) |-> mem[a + i]]
      BY <2>2, <3>1, <1>1 DEF BackupReadData
    <3> QED BY <3>2, <3>3 DEF Backup
  <2> QED BY <2>1, <2>2
<1>3. taken = [a \in DOMAIN taken |-> taken[a]]
  BY DEF BackupReadData
<1> QED BY <1>1, <1>2, <1>3 DEF IsReads

\* The entry lower_bound finds for a pending address is that address.
LEMMA LowerBoundFinds ==
  ASSUME NEW K, K \subseteq Int, NEW a \in Int, a \in K
  PROVE  a \in LowerBound(K, a)
BY DEF LowerBound

-----------------------------------------------------------------------------
(***************************************************************************)
(* The buffer as the handlers pass it along: the memory and the maps, of   *)
(* any access, aligned or not.                                             *)
(***************************************************************************)
\* The addresses an access is recorded under are keys of the maps.
LEMMA KeysOfAccess ==
  ASSUME NEW acc \in Accesses
  PROVE  /\ KeysOf(acc) \subseteq Keys
         /\ BytesOf(acc) \subseteq Memory
         /\ acc.address \in Memory
<1>1. SpanOf(KeysOf(acc)) \subseteq Memory /\ BytesOf(acc) \subseteq Memory /\ acc.address \in Memory
  BY AccessesAssumption
<1>2. ASSUME NEW a \in KeysOf(acc) PROVE Span(a) \subseteq Memory /\ a \in Memory
  BY <1>1, <1>2 DEF SpanOf, KeysOf, ElementsOf
<1> QED BY <1>1, <1>2 DEF Keys

\* The state of the maps and of the memory that the handlers pass along.
IsBuffer(s) ==
  /\ s.memory \in [Memory -> Byte]
  /\ IsReads(s.reads)
  /\ s.writes \subseteq Keys

\* What a read that restores the backups at R, applies the writes A and
\* injects at the addresses K makes of s: the addresses read may gain a backup,
\* those restored lose theirs, and the writes applied are gone.
IsRead(t, s, R, A, K) ==
  /\ IsBuffer(t)
  /\ DOMAIN t.reads \subseteq (DOMAIN s.reads \ R) \union K
  /\ t.writes = s.writes \ A

LEMMA AfterReadType ==
  ASSUME NEW s, IsBuffer(s), NEW R, R \subseteq DOMAIN s.reads, NEW A,
         NEW K, K \subseteq Keys, NEW wh, NEW rh
  PROVE  IsRead(AfterRead(s, R, A, K, wh, rh), s, R, A, K)
<1> DEFINE t == AfterRead(s, R, A, K, wh, rh)
<1> DEFINE restored == ReverseFaultyRead(s.memory, s.reads, R)
           settled == InjectFault(restored, wh, "write")
           hitKeys == {a \in K : Span(a) \intersect rh # {}}
           dropped == Drop(s.reads, R)
<1>1. restored \in [Memory -> Byte]
  BY ReverseFaultyReadType DEF IsBuffer
<1>2. settled \in [Memory -> Byte]
  <2> "write" \in FaultKinds
    BY DEF FaultKinds
  <2> HIDE DEF restored
  <2> QED BY <1>1, InjectFaultType
<1>3. InjectFault(settled, rh, "read") \in [Memory -> Byte]
  <2> "read" \in FaultKinds
    BY DEF FaultKinds
  <2> HIDE DEF settled
  <2> QED BY <1>2, InjectFaultType
<1>4. IsReads(dropped) /\ DOMAIN dropped = DOMAIN s.reads \ R
  BY DropReads DEF IsBuffer
<1>5. hitKeys \subseteq K /\ hitKeys \subseteq Keys
  OBVIOUS
<1>6. /\ IsReads(BackupReadData(dropped, settled, hitKeys))
      /\ DOMAIN BackupReadData(dropped, settled, hitKeys) = DOMAIN dropped \union hitKeys
  <2> HIDE DEF settled, dropped, hitKeys
  <2> QED BY <1>2, <1>4, <1>5, BackupReads
<1>7. t = [memory |-> InjectFault(settled, rh, "read"),
           reads  |-> BackupReadData(dropped, settled, hitKeys),
           writes |-> s.writes \ A]
  BY DEF AfterRead
<1> HIDE DEF settled, dropped, hitKeys, t
<1>8. IsBuffer(t)
  BY <1>3, <1>6, <1>7 DEF IsBuffer
<1>9. DOMAIN t.reads \subseteq (DOMAIN s.reads \ R) \union K /\ t.writes = s.writes \ A
  BY <1>4, <1>5, <1>6, <1>7
<1> QED BY <1>8, <1>9 DEF IsRead, t

\* A step that becomes s leaves the maps and the memory as they are in s.
LEMMA BecomeBuffer ==
  ASSUME NEW s, Become(s), IsBuffer(s)
  PROVE  /\ memory' \in [Memory -> Byte]
         /\ IsReads(remainingReads')
         /\ pendingWrites' \subseteq Keys
BY DEF Become, IsBuffer

\* Before the steps: reading at the keys K, having restored every backup at K
\* and applied every pending write at K, leaves the two maps disjoint.
LEMMA AfterReadDisjoint ==
  ASSUME NEW s, DOMAIN s.reads \intersect s.writes = {}, NEW t, NEW R, NEW A,
         NEW K, K \intersect s.writes \subseteq A, IsRead(t, s, R, A, K)
  PROVE  DOMAIN t.reads \intersect t.writes = {}
BY DEF IsRead

\* Every key read is among the writes applied, when it is pending: the range
\* of a SIMD access holds its elements, and lower_bound of a pending address
\* finds that address.
LEMMA AppliedCoversKeys ==
  ASSUME pendingWrites \subseteq Keys, NEW acc \in Accesses
  PROVE  KeysOf(acc) \intersect pendingWrites \subseteq AppliedBy(acc)
<1>1. CASE IsSIMD(acc)
  BY <1>1 DEF KeysOf, ElementsOf, AppliedBy
<1>2. CASE ~IsSIMD(acc)
  <2>1. KeysOf(acc) = {acc.address} /\ AppliedBy(acc) = LowerBound(pendingWrites, acc.address)
    BY <1>2 DEF KeysOf, AppliedBy
  <2>2. pendingWrites \subseteq Int
    BY BufferAssumption DEF Keys, Memory
  <2> QED BY <2>1, <2>2, LowerBoundFinds
<1> QED BY <1>1, <1>2

-----------------------------------------------------------------------------
(***************************************************************************)
(* Elements.  Multiples of the element size are an element size apart, so  *)
(* that two elements have no byte in common.                               *)
(***************************************************************************)
LEMMA Division ==
  ASSUME NEW D \in Nat \ {0}, NEW x \in Int
  PROVE  x = (D * (x \div D)) + (x % D)
OBVIOUS

LEMMA MultiplesApart ==
  ASSUME NEW D \in Nat \ {0}, NEW x \in Int, NEW y \in Int, x % D = 0, y % D = 0, x < y
  PROVE  x + D <= y
<1> DEFINE q == x \div D
           r == y \div D
<1>1. q \in Int /\ r \in Int /\ x = D * q /\ y = D * r
  BY Division
<1> HIDE DEF q, r
<1>2. q < r
  <2>1. ASSUME r <= q PROVE FALSE
    <3>1. D * r <= D * q
      BY <1>1, <2>1
    <3> QED BY <1>1, <3>1
  <2> QED BY <1>1, <2>1
<1>3. D * (q + 1) <= D * r
  BY <1>1, <1>2
<1>4. D * (q + 1) = D * q + D
  BY <1>1
<1> QED BY <1>1, <1>3, <1>4

LEMMA DifferenceOfMultiples ==
  ASSUME NEW D \in Nat \ {0}, NEW x \in Int, NEW y \in Int, x % D = 0, y % D = 0
  PROVE  (x - y) % D = 0
<1> DEFINE q == x \div D
           r == y \div D
<1>1. q \in Int /\ r \in Int /\ x = D * q /\ y = D * r
  BY Division
<1> HIDE DEF q, r
<1>2. x - y = D * (q - r) /\ q - r \in Int
  BY <1>1
<1>3. \A k \in Int : (D * k) % D = 0
  OBVIOUS
<1> QED BY <1>2, <1>3

LEMMA SumOfMultiples ==
  ASSUME NEW D \in Nat \ {0}, NEW x \in Int, NEW y \in Int, x % D = 0, y % D = 0
  PROVE  (x + y) % D = 0
<1> DEFINE q == x \div D
           r == y \div D
<1>1. q \in Int /\ r \in Int /\ x = D * q /\ y = D * r
  BY Division
<1> HIDE DEF q, r
<1>2. x + y = D * (q + r) /\ q + r \in Int
  BY <1>1
<1>3. \A k \in Int : (D * k) % D = 0
  OBVIOUS
<1> QED BY <1>2, <1>3

LEMMA MemoryInt == Memory \subseteq Int
BY BufferAssumption DEF Memory

LEMMA AccessShape ==
  ASSUME NEW acc \in Accesses
  PROVE  /\ acc.address \in Memory /\ acc.address \in Int
         /\ acc.size \in Nat \ {0} /\ acc.simd \in BOOLEAN
         /\ BytesOf(acc) \subseteq Memory
<1>1. /\ acc.address \in Memory /\ acc.size \in Nat \ {0} /\ acc.simd \in BOOLEAN
      /\ BytesOf(acc) \subseteq Memory
  BY AccessesAssumption
<1> QED BY <1>1, MemoryInt

\* The addresses of whole elements that faults of theirs stay inside the buffer.
AlignedKeys == {a \in Keys : ~IsMisaligned(a)}

LEMMA ElementsApart ==
  ASSUME NEW a \in Int, NEW c \in Int, ~IsMisaligned(a), ~IsMisaligned(c),
         NEW b \in Int, b \in ElementBytes(a), b \in ElementBytes(c)
  PROVE  a = c
<1>1. DataSize \in Nat \ {0} /\ FirstAddress \in Int
  BY BufferAssumption
<1> DEFINE x == a - FirstAddress
           y == c - FirstAddress
<1>2. x \in Int /\ y \in Int /\ x % DataSize = 0 /\ y % DataSize = 0
  BY <1>1 DEF IsMisaligned, AlignmentOffset
<1>3. a <= b /\ b < a + DataSize /\ c <= b /\ b < c + DataSize
  BY <1>1 DEF ElementBytes
<1>4. ~(x + DataSize <= y) /\ ~(y + DataSize <= x)
  BY <1>1, <1>3
<1>5. (a < c => x < y) /\ (c < a => y < x)
  BY <1>1
<1> HIDE DEF x, y
<1>6. ~(x < y) /\ ~(y < x)
  BY <1>1, <1>2, <1>4, MultiplesApart
<1> QED BY <1>5, <1>6

LEMMA SpanInElement ==
  ASSUME NEW a \in Int
  PROVE  Span(a) \subseteq ElementBytes(a) /\ a \in Span(a)
BY BufferAssumption DEF Span, ElementBytes

\* The spans of two aligned keys have no byte in common.
LEMMA SpansApart ==
  ASSUME NEW a \in AlignedKeys, NEW c \in AlignedKeys,
         NEW b, b \in Span(a), b \in Span(c)
  PROVE  a = c
<1>1. a \in Int /\ c \in Int /\ ~IsMisaligned(a) /\ ~IsMisaligned(c)
  BY MemoryInt DEF AlignedKeys, Keys
<1>2. b \in ElementBytes(a) /\ b \in ElementBytes(c)
  BY <1>1, SpanInElement
<1>3. b \in Int
  BY <1>1, <1>2, BufferAssumption DEF ElementBytes
<1> QED BY <1>1, <1>2, <1>3, ElementsApart

-----------------------------------------------------------------------------
(***************************************************************************)
(* The stored values.  What a read restores is never older than the last   *)
(* store, because every backup under an aligned store is forgotten.        *)
(***************************************************************************)
HoldsStored(s, last) ==
  /\ \A b \in Memory : s.memory[b].value = last[b]
  /\ \A a \in DOMAIN s.reads, i \in 0 .. (BackupSize - 1) : s.reads[a][i].value = last[a + i]

LEMMA InjectFaultValue ==
  ASSUME NEW mem \in [Memory -> Byte], NEW hit, NEW kind, NEW b \in Memory
  PROVE  InjectFault(mem, hit, kind)[b].value = mem[b].value
BY DEF InjectFault, Byte

LEMMA RestoredValue ==
  ASSUME NEW s, IsBuffer(s), NEW last, HoldsStored(s, last),
         NEW K, K \subseteq DOMAIN s.reads, NEW b \in Memory
  PROVE  ReverseFaultyRead(s.memory, s.reads, K)[b].value = last[b]
<1>1. CASE \E a \in K : IsLastOver(a, b, K)
  <2> DEFINE k == CHOOSE a \in K : IsLastOver(a, b, K)
  <2>1. k \in K /\ IsLastOver(k, b, K)
    BY <1>1
  <2>2. ReverseFaultyRead(s.memory, s.reads, K)[b] = s.reads[k][b - k]
    BY <1>1 DEF ReverseFaultyRead
  <2> HIDE DEF k
  <2>3. k \in DOMAIN s.reads /\ k \in Int /\ b \in Int
    BY <2>1, MemoryInt DEF IsBuffer, IsReads, Keys
  <2>4. b - k \in 0 .. (BackupSize - 1) /\ k + (b - k) = b
    BY <2>1, <2>3, BufferAssumption DEF IsLastOver, Span
  <2> QED BY <2>2, <2>3, <2>4 DEF HoldsStored
<1>2. CASE ~(\E a \in K : IsLastOver(a, b, K))
  BY <1>2 DEF ReverseFaultyRead, HoldsStored
<1> QED BY <1>1, <1>2

LEMMA AfterReadValues ==
  ASSUME NEW s, IsBuffer(s), NEW last, HoldsStored(s, last),
         NEW R, R \subseteq DOMAIN s.reads, NEW A,
         NEW K, K \subseteq Keys, NEW wh, NEW rh
  PROVE  HoldsStored(AfterRead(s, R, A, K, wh, rh), last)
<1> DEFINE restored == ReverseFaultyRead(s.memory, s.reads, R)
           settled == InjectFault(restored, wh, "write")
           faulty  == InjectFault(settled, rh, "read")
           hitKeys == {a \in K : Span(a) \intersect rh # {}}
           dropped == Drop(s.reads, R)
           t == AfterRead(s, R, A, K, wh, rh)
<1>1. restored \in [Memory -> Byte] /\ \A b \in Memory : restored[b].value = last[b]
  <2>1. restored \in [Memory -> Byte]
    BY ReverseFaultyReadType DEF IsBuffer
  <2>2. \A b \in Memory : restored[b].value = last[b]
    BY RestoredValue
  <2> QED BY <2>1, <2>2
<1> HIDE DEF restored
<1>2. settled \in [Memory -> Byte] /\ \A b \in Memory : settled[b].value = last[b]
  <2> "write" \in FaultKinds
    BY DEF FaultKinds
  <2> QED BY <1>1, InjectFaultType, InjectFaultValue
<1> HIDE DEF settled
<1>3. \A b \in Memory : faulty[b].value = last[b]
  BY <1>2, InjectFaultValue
<1>4. t.memory = faulty /\ t.reads = BackupReadData(dropped, settled, hitKeys)
  BY DEF AfterRead, settled, restored
<1> HIDE DEF t, faulty
<1>5. ASSUME NEW a \in DOMAIN t.reads, NEW i \in 0 .. (BackupSize - 1)
      PROVE  t.reads[a][i].value = last[a + i]
  <2>1. CASE a \in DOMAIN dropped
    <3>1. t.reads[a] = dropped[a]
      BY <1>4, <2>1 DEF BackupReadData
    <3>2. a \in DOMAIN s.reads /\ dropped[a] = s.reads[a]
      BY <2>1 DEF Drop
    <3> QED BY <3>1, <3>2 DEF HoldsStored
  <2>2. CASE a \notin DOMAIN dropped
    <3>1. a \in K /\ t.reads[a] = [j \in 0 .. (BackupSize - 1) |-> settled[a + j]]
      BY <1>4, <1>5, <2>2 DEF BackupReadData
    <3>2. a \in Int /\ Span(a) \subseteq Memory
      BY <3>1, MemoryInt DEF Keys
    <3>3. a + i \in Memory
      BY <3>2, BufferAssumption DEF Span
    <3> QED BY <1>2, <3>1, <3>3
  <2> QED BY <2>1, <2>2
<1> QED BY <1>3, <1>4, <1>5 DEF HoldsStored, t

\* An aligned access that writes erases every backup it would make stale.
LEMMA KeysUnderWrite ==
  ASSUME AccessesAligned, NEW acc \in Accesses,
         NEW a \in AlignedKeys, NEW b \in BytesOf(acc), b \in Span(a)
  PROVE  IF IsSIMD(acc) THEN a \in BytesOf(acc) ELSE a = acc.address
<1> DEFINE first == acc.address
           x == a - FirstAddress
           y == first - FirstAddress
<1>1. /\ DataSize \in Nat \ {0} /\ FirstAddress \in Int /\ first \in Int
      /\ a \in Int /\ b \in Int /\ acc.size \in Nat
  <2>1. first \in Int /\ acc.size \in Nat /\ b \in Memory
    BY AccessShape
  <2> QED BY <2>1, BufferAssumption, MemoryInt DEF AlignedKeys, Keys
<1>2. x \in Int /\ y \in Int /\ x % DataSize = 0 /\ y % DataSize = 0
  BY <1>1 DEF AccessesAligned, AlignedKeys, IsMisaligned, AlignmentOffset
<1>3. a <= b /\ b < a + DataSize /\ first <= b /\ b < first + acc.size
  BY <1>1, BufferAssumption DEF Span, BytesOf
<1>4. ~(x + DataSize <= y)
  BY <1>1, <1>3
<1>5. ~(x < y)
  BY <1>1, <1>2, <1>4, MultiplesApart
<1>6. first <= a /\ a < first + acc.size
  BY <1>1, <1>3, <1>5
<1>7. CASE IsSIMD(acc)
  BY <1>1, <1>6, <1>7 DEF BytesOf
<1>8. CASE ~IsSIMD(acc)
  <2>1. acc.size <= DataSize
    BY <1>1, <1>8 DEF IsSIMD
  <2>2. ~(y + DataSize <= x)
    BY <1>1, <1>6, <2>1
  <2>3. ~(y < x)
    BY <1>1, <1>2, <2>2, MultiplesApart
  <2> QED BY <1>1, <1>5, <1>8, <2>3
<1> QED BY <1>7, <1>8

\* The addresses aligned accesses are recorded under are aligned, too.
LEMMA AlignedAccessKeys ==
  ASSUME AccessesAligned, NEW acc \in Accesses
  PROVE  KeysOf(acc) \subseteq AlignedKeys
<1>1. KeysOf(acc) \subseteq Keys
  BY KeysOfAccess
<1>2. /\ DataSize \in Nat \ {0} /\ FirstAddress \in Int /\ acc.address \in Int
      /\ ~IsMisaligned(acc.address)
  BY BufferAssumption, AccessShape DEF AccessesAligned
<1>3. ASSUME NEW a \in ElementsOf(acc) PROVE ~IsMisaligned(a)
  <2>1. a \in Int /\ (a - acc.address) % DataSize = 0
    BY <1>2, AccessShape DEF ElementsOf, BytesOf
  <2>2. (acc.address - FirstAddress) % DataSize = 0
    BY <1>2 DEF IsMisaligned, AlignmentOffset
  <2>3. ((a - acc.address) + (acc.address - FirstAddress)) % DataSize = 0
    BY <1>2, <2>1, <2>2, SumOfMultiples
  <2>4. (a - acc.address) + (acc.address - FirstAddress) = a - FirstAddress
    BY <1>2, <2>1
  <2> QED BY <2>3, <2>4 DEF IsMisaligned, AlignmentOffset
<1> QED BY <1>1, <1>2, <1>3 DEF KeysOf, AlignedKeys

LEMMA BecomeValues ==
  ASSUME NEW s, NEW last, HoldsStored(s, last), Become(s)
  PROVE  HoldsStored(Buffer', last)
BY DEF Become, Buffer, HoldsStored

-----------------------------------------------------------------------------
(***************************************************************************)
(* The faults.  A backup is exactly what lies over it without the read     *)
(* faults, every read fault lies under a backup, and no write fault where  *)
(* one is pending.  Each part needs the others: the backup a read takes is *)
(* exact because the read has restored all faults from the element first,  *)
(* and an injected write reaches no element that a backup is kept of,      *)
(* because no key is in both maps and no two spans meet.                   *)
(***************************************************************************)
WithoutRead(byte) == [byte EXCEPT !.faults = @ \ {"read"}]

BackupsExact(s) ==
  \A a \in DOMAIN s.reads : \A b \in Span(a) : s.reads[a][b - a] = WithoutRead(s.memory[b])

ReadFaultsCovered(s) ==
  \A b \in Memory : "read" \in s.memory[b].faults => \E a \in DOMAIN s.reads : b \in Span(a)

WritesFresh(s) ==
  \A a \in s.writes : \A b \in Span(a) : "write" \notin s.memory[b].faults

Sound(s) ==
  /\ IsBuffer(s)
  /\ DOMAIN s.reads \subseteq AlignedKeys
  /\ s.writes \subseteq AlignedKeys
  /\ DOMAIN s.reads \intersect s.writes = {}
  /\ BackupsExact(s)
  /\ ReadFaultsCovered(s)
  /\ WritesFresh(s)

LEMMA SpanInMemory ==
  ASSUME NEW a \in AlignedKeys
  PROVE  a \in Int /\ Span(a) \subseteq Memory /\ a \in Memory
BY MemoryInt DEF AlignedKeys, Keys

\* Restoring exact backups takes the read faults off their spans and leaves
\* the rest of the memory alone.
LEMMA RestoreExact ==
  ASSUME NEW s, Sound(s), NEW K, K \subseteq DOMAIN s.reads, NEW b \in Memory
  PROVE  ReverseFaultyRead(s.memory, s.reads, K)[b] =
           IF b \in SpanOf(K) THEN WithoutRead(s.memory[b]) ELSE s.memory[b]
<1>1. CASE b \in SpanOf(K)
  <2>1. PICK a \in K : b \in Span(a)
    BY <1>1 DEF SpanOf
  <2>2. \A c \in K : b \in Span(c) => c = a
    BY <2>1, SpansApart DEF Sound
  <2>3. a \in Int
    BY <2>1, SpanInMemory DEF Sound
  <2>4. IsLastOver(a, b, K)
    BY <2>1, <2>2, <2>3 DEF IsLastOver
  <2> DEFINE k == CHOOSE c \in K : IsLastOver(c, b, K)
  <2>5. k \in K /\ IsLastOver(k, b, K)
    BY <2>1, <2>4
  <2>6. ReverseFaultyRead(s.memory, s.reads, K)[b] = s.reads[k][b - k]
    BY <2>1, <2>4 DEF ReverseFaultyRead
  <2> HIDE DEF k
  <2>7. k \in DOMAIN s.reads /\ b \in Span(k)
    BY <2>5 DEF IsLastOver
  <2> QED BY <1>1, <2>6, <2>7 DEF Sound, BackupsExact
<1>2. CASE b \notin SpanOf(K)
  <2>1. ~(\E a \in K : IsLastOver(a, b, K))
    BY <1>2 DEF IsLastOver, SpanOf
  <2> QED BY <1>2, <2>1 DEF ReverseFaultyRead
<1> QED BY <1>1, <1>2

\* The faults of a byte once restored elements are restored and writes injected.
SettledFaults(s, R, wh, b) ==
  (IF b \in SpanOf(R) THEN s.memory[b].faults \ {"read"} ELSE s.memory[b].faults)
    \union (IF b \in wh THEN {"write"} ELSE {})

SettledByte(s, R, wh, b) == [value |-> s.memory[b].value, faults |-> SettledFaults(s, R, wh, b)]

\* And once read faults are injected as well.
ReadByte(s, R, wh, rh, b) ==
  [value  |-> s.memory[b].value,
   faults |-> SettledFaults(s, R, wh, b) \union (IF b \in rh THEN {"read"} ELSE {})]

\* The backups of t over b are those of s that were not restored and new ones.
BackupsTaken(t, s, R, wh, b) ==
  \A a \in DOMAIN t.reads :
    /\ a \in DOMAIN s.reads \ R => t.reads[a] = s.reads[a]
    /\ a \notin DOMAIN s.reads \ R /\ b \in Span(a) => t.reads[a][b - a] = SettledByte(s, R, wh, b)

\* What a read leaves in each byte: the read faults of the restored elements
\* go, the bytes hit by a write or by a read gain that fault.
LEMMA AfterReadMemory ==
  ASSUME NEW s, Sound(s), NEW R, R \subseteq DOMAIN s.reads, NEW A, NEW K, K \subseteq Keys,
         NEW wh, NEW rh, NEW b \in Memory
  PROVE  /\ AfterRead(s, R, A, K, wh, rh).memory[b] = ReadByte(s, R, wh, rh, b)
         /\ BackupsTaken(AfterRead(s, R, A, K, wh, rh), s, R, wh, b)
<1> DEFINE restored == ReverseFaultyRead(s.memory, s.reads, R)
           settled == InjectFault(restored, wh, "write")
           faulty  == InjectFault(settled, rh, "read")
           hitKeys == {a \in K : Span(a) \intersect rh # {}}
           dropped == Drop(s.reads, R)
           t == AfterRead(s, R, A, K, wh, rh)
           rest == IF b \in SpanOf(R) THEN s.memory[b].faults \ {"read"} ELSE s.memory[b].faults
           old == rest \union (IF b \in wh THEN {"write"} ELSE {})
<1>1. s.memory[b] \in Byte
  BY DEF Sound, IsBuffer
<1>2. restored[b] = [value |-> s.memory[b].value, faults |-> rest]
  <2>1. restored[b] = IF b \in SpanOf(R) THEN WithoutRead(s.memory[b]) ELSE s.memory[b]
    BY RestoreExact
  <2> HIDE DEF restored
  <2> QED BY <1>1, <2>1 DEF WithoutRead, Byte
<1> HIDE DEF restored, rest
<1>3. settled[b] = [value |-> s.memory[b].value, faults |-> old]
  <2>1. settled[b] = IF b \in wh THEN [restored[b] EXCEPT !.faults = @ \union {"write"}] ELSE restored[b]
    BY DEF InjectFault
  <2> QED BY <1>2, <2>1
<1> HIDE DEF settled, old
<1>4. faulty[b] = [value |-> s.memory[b].value, faults |-> old \union (IF b \in rh THEN {"read"} ELSE {})]
  <2>1. faulty[b] = IF b \in rh THEN [settled[b] EXCEPT !.faults = @ \union {"read"}] ELSE settled[b]
    BY DEF InjectFault
  <2> QED BY <1>3, <2>1
<1>5. t.memory = faulty /\ t.reads = BackupReadData(dropped, settled, hitKeys)
  BY DEF AfterRead, settled, restored
<1> HIDE DEF t, faulty
<1>6. DOMAIN dropped = DOMAIN s.reads \ R /\ \A a \in DOMAIN dropped : dropped[a] = s.reads[a]
  BY DEF Drop
<1>7. ASSUME NEW a \in DOMAIN t.reads
      PROVE  /\ a \in DOMAIN s.reads \ R => t.reads[a] = s.reads[a]
             /\ a \notin DOMAIN s.reads \ R /\ b \in Span(a) => t.reads[a][b - a] = settled[b]
  <2>1. CASE a \in DOMAIN dropped
    BY <1>5, <1>6, <2>1 DEF BackupReadData
  <2>2. CASE a \notin DOMAIN dropped
    <3>1. a \in K /\ t.reads[a] = [j \in 0 .. (BackupSize - 1) |-> settled[a + j]]
      BY <1>5, <1>7, <2>2 DEF BackupReadData
    <3>2. ASSUME b \in Span(a) PROVE t.reads[a][b - a] = settled[b]
      <4>1. a \in Int /\ b \in Int
        BY <3>1, MemoryInt DEF Keys
      <4>2. b - a \in 0 .. (BackupSize - 1) /\ a + (b - a) = b
        BY <3>2, <4>1, BufferAssumption DEF Span
      <4> QED BY <3>1, <4>2
    <3> QED BY <1>6, <2>2, <3>2
  <2> QED BY <2>1, <2>2
<1>8. old = SettledFaults(s, R, wh, b)
  BY DEF old, rest, SettledFaults
<1> QED BY <1>3, <1>4, <1>5, <1>7, <1>8 DEF t, SettledByte, ReadByte, BackupsTaken

LEMMA AfterReadKeys ==
  ASSUME NEW s, NEW R, NEW A, NEW K, NEW wh, NEW rh
  PROVE  DOMAIN AfterRead(s, R, A, K, wh, rh).reads
           = (DOMAIN s.reads \ R) \union {a \in K : Span(a) \intersect rh # {}}
BY DEF AfterRead, BackupReadData, Drop

\* A read at the keys K that restores every backup it has there and injects
\* every pending write it has there keeps the buffer sound.
LEMMA AfterReadSound ==
  ASSUME NEW s, Sound(s),
         NEW K, K \subseteq AlignedKeys,
         NEW R, R \subseteq DOMAIN s.reads, K \intersect DOMAIN s.reads \subseteq R,
         NEW A, A \subseteq s.writes, K \intersect s.writes \subseteq A,
         NEW wh, wh \subseteq SpanOf(A), NEW rh, rh \subseteq SpanOf(K)
  PROVE  Sound(AfterRead(s, R, A, K, wh, rh))
<1> DEFINE t == AfterRead(s, R, A, K, wh, rh)
<1>1. K \subseteq Keys /\ A \subseteq AlignedKeys /\ R \subseteq AlignedKeys
  BY DEF AlignedKeys, Sound
<1>2. IsRead(t, s, R, A, K)
  BY <1>1, AfterReadType DEF Sound
<1>3. ASSUME NEW b \in Memory
      PROVE  /\ t.memory[b] = ReadByte(s, R, wh, rh, b)
             /\ BackupsTaken(t, s, R, wh, b)
  BY <1>1, <1>3, AfterReadMemory
<1>4. DOMAIN t.reads = (DOMAIN s.reads \ R) \union {a \in K : Span(a) \intersect rh # {}}
  BY AfterReadKeys
<1> HIDE DEF t
<1>5. DOMAIN t.reads \subseteq AlignedKeys /\ t.writes \subseteq AlignedKeys /\ t.writes = s.writes \ A
  BY <1>2, <1>4 DEF IsRead, Sound
<1>6. DOMAIN t.reads \intersect t.writes = {}
  BY <1>2, AfterReadDisjoint DEF Sound
<1>7. BackupsExact(t)
  <2> SUFFICES ASSUME NEW a \in DOMAIN t.reads, NEW b \in Span(a)
               PROVE  t.reads[a][b - a] = WithoutRead(t.memory[b])
    BY DEF BackupsExact
  <2>1. a \in AlignedKeys /\ b \in Memory
    BY <1>5, SpanInMemory
  <2>2. CASE a \in DOMAIN s.reads \ R
    <3>1. b \notin rh
      <4>1. ASSUME b \in rh PROVE FALSE
        <5>1. PICK k \in K : b \in Span(k)
          BY <4>1 DEF SpanOf
        <5>2. k = a
          BY <2>1, <5>1, SpansApart
        <5> QED BY <2>2, <5>2
      <4> QED BY <4>1
    <3>2. b \notin wh
      <4>1. ASSUME b \in wh PROVE FALSE
        <5>1. PICK k \in A : b \in Span(k)
          BY <4>1 DEF SpanOf
        <5>2. k = a
          BY <1>1, <2>1, <5>1, SpansApart
        <5> QED BY <2>2, <5>1, <5>2 DEF Sound
      <4> QED BY <4>1
    <3>3. b \notin SpanOf(R)
      <4>1. ASSUME b \in SpanOf(R) PROVE FALSE
        <5>1. PICK k \in R : b \in Span(k)
          BY <4>1 DEF SpanOf
        <5>2. k = a
          BY <1>1, <2>1, <5>1, SpansApart
        <5> QED BY <2>2, <5>1, <5>2
      <4> QED BY <4>1
    <3>4. t.memory[b] = s.memory[b]
      <4>1. s.memory[b] \in Byte
        BY <2>1 DEF Sound, IsBuffer
      <4>2. t.memory[b] = [value |-> s.memory[b].value, faults |-> s.memory[b].faults]
        BY <1>3, <2>1, <3>1, <3>2, <3>3 DEF SettledFaults, ReadByte
      <4> QED BY <4>1, <4>2 DEF Byte
    <3>5. t.reads[a] = s.reads[a]
      BY <1>3, <2>1, <2>2 DEF BackupsTaken
    <3> QED BY <2>2, <3>4, <3>5 DEF Sound, BackupsExact
  <2>3. CASE a \notin DOMAIN s.reads \ R
    <3>1. a \in K
      BY <1>4, <2>3
    <3>2. "read" \notin SettledFaults(s, R, wh, b)
      <4>1. CASE b \in SpanOf(R)
        BY <4>1 DEF SettledFaults
      <4>2. CASE b \notin SpanOf(R)
        <5>1. ASSUME "read" \in s.memory[b].faults PROVE FALSE
          <6>1. PICK c \in DOMAIN s.reads : b \in Span(c)
            BY <2>1, <5>1 DEF Sound, ReadFaultsCovered
          <6>2. c = a
            BY <2>1, <6>1, SpansApart DEF Sound
          <6> QED BY <3>1, <4>2, <6>1, <6>2 DEF SpanOf
        <5> QED BY <4>2, <5>1 DEF SettledFaults
      <4> QED BY <4>1, <4>2
    <3>3. t.memory[b] = ReadByte(s, R, wh, rh, b)
      BY <1>3, <2>1
    <3>4. t.reads[a][b - a] = SettledByte(s, R, wh, b)
      BY <1>3, <2>1, <2>3 DEF BackupsTaken
    <3>5. WithoutRead(t.memory[b]) = SettledByte(s, R, wh, b)
      <4>1. (SettledFaults(s, R, wh, b) \union (IF b \in rh THEN {"read"} ELSE {})) \ {"read"}
              = SettledFaults(s, R, wh, b)
        BY <3>2
      <4> QED BY <3>3, <4>1 DEF WithoutRead, ReadByte, SettledByte
    <3> QED BY <3>4, <3>5
  <2> QED BY <2>2, <2>3
<1>8. ReadFaultsCovered(t)
  <2> SUFFICES ASSUME NEW b \in Memory, "read" \in t.memory[b].faults
               PROVE  \E a \in DOMAIN t.reads : b \in Span(a)
    BY DEF ReadFaultsCovered
  <2>1. CASE b \in rh
    <3>1. PICK k \in K : b \in Span(k)
      BY <2>1 DEF SpanOf
    <3>2. k \in DOMAIN t.reads
      BY <1>4, <2>1, <3>1
    <3> QED BY <3>1, <3>2
  <2>2. CASE b \notin rh
    <3>1. "read" \in s.memory[b].faults /\ b \notin SpanOf(R)
      <4>1. t.memory[b].faults = SettledFaults(s, R, wh, b)
        <5>1. t.memory[b] = ReadByte(s, R, wh, rh, b)
          BY <1>3
        <5>2. ReadByte(s, R, wh, rh, b).faults = SettledFaults(s, R, wh, b)
          BY <2>2 DEF ReadByte
        <5> QED BY <5>1, <5>2
      <4> QED BY <4>1 DEF SettledFaults
    <3>2. PICK a \in DOMAIN s.reads : b \in Span(a)
      BY <3>1 DEF Sound, ReadFaultsCovered
    <3> QED BY <1>4, <3>1, <3>2 DEF SpanOf
  <2> QED BY <2>1, <2>2
<1>9. WritesFresh(t)
  <2> SUFFICES ASSUME NEW a \in t.writes, NEW b \in Span(a)
               PROVE  "write" \notin t.memory[b].faults
    BY DEF WritesFresh
  <2>1. a \in s.writes /\ a \notin A /\ a \in AlignedKeys /\ b \in Memory
    BY <1>5, SpanInMemory
  <2>2. b \notin wh
    <3>1. ASSUME b \in wh PROVE FALSE
      <4>1. PICK k \in A : b \in Span(k)
        BY <3>1 DEF SpanOf
      <4>2. k = a
        BY <1>1, <2>1, <4>1, SpansApart
      <4> QED BY <2>1, <4>1, <4>2
    <3> QED BY <3>1
  <2>3. "write" \notin s.memory[b].faults
    BY <2>1 DEF Sound, WritesFresh
  <2>4. "write" \notin SettledFaults(s, R, wh, b)
    BY <2>2, <2>3 DEF SettledFaults
  <2>5. t.memory[b] = ReadByte(s, R, wh, rh, b)
    BY <1>3, <2>1
  <2>6. "write" \notin ReadByte(s, R, wh, rh, b).faults
    BY <2>4 DEF ReadByte
  <2> QED BY <2>5, <2>6
<1>10. IsBuffer(t)
  BY <1>2 DEF IsRead
<1> QED BY <1>5, <1>6, <1>7, <1>8, <1>9, <1>10 DEF Sound, t

\* What a precise read sees: the elements at its keys are free of read faults.
LEMMA PreciseKeysClean ==
  ASSUME NEW s, Sound(s),
         NEW K, K \subseteq AlignedKeys,
         NEW R, R \subseteq DOMAIN s.reads, K \intersect DOMAIN s.reads \subseteq R,
         NEW A, NEW wh, NEW k \in K, NEW b \in Memory, b \in ElementBytes(k)
  PROVE  "read" \notin AfterRead(s, R, A, K, wh, {}).memory[b].faults
<1> DEFINE t == AfterRead(s, R, A, K, wh, {})
<1>1. t.memory[b].faults = SettledFaults(s, R, wh, b)
  <2>1. K \subseteq Keys
    BY DEF AlignedKeys
  <2>2. t.memory[b] = ReadByte(s, R, wh, {}, b)
    BY <2>1, AfterReadMemory
  <2> QED BY <2>2 DEF ReadByte
<1> HIDE DEF t
<1>2. ASSUME "read" \in s.memory[b].faults PROVE b \in SpanOf(R)
  <2>1. PICK a \in DOMAIN s.reads : b \in Span(a)
    BY <1>2 DEF Sound, ReadFaultsCovered
  <2>2. a \in Int /\ k \in Int /\ b \in Int /\ ~IsMisaligned(a) /\ ~IsMisaligned(k)
    BY <2>1, MemoryInt, SpanInMemory DEF Sound, AlignedKeys
  <2>3. a = k
    BY <2>1, <2>2, SpanInElement, ElementsApart
  <2> QED BY <2>1, <2>3 DEF SpanOf
<1> QED BY <1>1, <1>2 DEF t, SettledFaults

-----------------------------------------------------------------------------
(***************************************************************************)
(* Accesses of whole elements: their bytes are those of the elements at    *)
(* their keys, and what they look up in the maps is what the maps have at  *)
(* their keys.                                                             *)
(***************************************************************************)
LEMMA WholeKeys ==
  ASSUME AccessesWhole, NEW acc \in Accesses
  PROVE  /\ KeysOf(acc) \subseteq AlignedKeys
         /\ \A b \in BytesOf(acc) : \E k \in KeysOf(acc) : b \in ElementBytes(k)
         /\ \A k \in KeysOf(acc) : Span(k) \subseteq BytesOf(acc) /\ ElementBytes(k) \subseteq BytesOf(acc)
         /\ AlignedKeys \intersect (IF IsSIMD(acc) THEN BytesOf(acc) ELSE {acc.address}) = KeysOf(acc)
<1> DEFINE first == acc.address
           D == DataSize
<1>1. AccessesAligned
  BY DEF AccessesWhole
<1>2. /\ D \in Nat \ {0} /\ FirstAddress \in Int /\ first \in Int
      /\ acc.size \in Nat \ {0} /\ acc.size % D = 0
      /\ (first - FirstAddress) % D = 0
  <2>1. first \in Int /\ acc.size \in Nat \ {0}
    BY AccessShape
  <2> QED BY <1>1, <2>1, BufferAssumption
        DEF AccessesWhole, AccessesAligned, IsMisaligned, AlignmentOffset
<1>3. KeysOf(acc) \subseteq AlignedKeys
  BY <1>1, AlignedAccessKeys
<1>4. ASSUME NEW a \in AlignedKeys PROVE a \in Int /\ (a - first) % D = 0
  <2>1. a \in Int /\ (a - FirstAddress) % D = 0
    BY SpanInMemory DEF AlignedKeys, IsMisaligned, AlignmentOffset
  <2>2. ((a - FirstAddress) - (first - FirstAddress)) % D = 0
    BY <1>2, <2>1, DifferenceOfMultiples
  <2>3. \A x, y, z \in Int : (x - z) - (y - z) = x - y
    OBVIOUS
  <2>4. (a - FirstAddress) - (first - FirstAddress) = a - first
    BY <1>2, <2>1, <2>3
  <2> QED BY <2>1, <2>2, <2>4
<1>5. ~IsSIMD(acc) => acc.size = D
  <2>1. ASSUME acc.size < D PROVE FALSE
    <3>1. 0 % D = 0 /\ 0 \in Int
      BY <1>2
    <3>2. 0 + D <= acc.size
      BY <1>2, <3>1, MultiplesApart
    <3> QED BY <1>2, <2>1, <3>2
  <2>2. D \in Nat /\ acc.size \in Nat
    BY <1>2
  <2>3. ~IsSIMD(acc) => ~(acc.size > D)
    BY DEF IsSIMD
  <2> HIDE DEF D
  <2> QED BY <2>1, <2>2, <2>3
<1>6. AlignedKeys \intersect (IF IsSIMD(acc) THEN BytesOf(acc) ELSE {first}) = KeysOf(acc)
  BY <1>3, <1>4 DEF KeysOf, ElementsOf
<1>7. ASSUME NEW b \in BytesOf(acc) PROVE \E k \in KeysOf(acc) : b \in ElementBytes(k)
  <2>1. b \in Int /\ first <= b /\ b < first + acc.size
    BY <1>2 DEF BytesOf
  <2>2. CASE ~IsSIMD(acc)
    BY <1>2, <1>5, <2>1, <2>2 DEF KeysOf, ElementBytes
  <2>3. CASE IsSIMD(acc)
    <3> DEFINE r == (b - first) % D
               q == (b - first) \div D
               k == first + D * q
    <3>0. D \in Nat \ {0} /\ b - first \in Int
      BY <1>2, <2>1
    <3> HIDE DEF D
    <3>1. r \in 0 .. D - 1 /\ q \in Int /\ b - first = (D * q) + r
      <4>1. r \in 0 .. D - 1 /\ q \in Int
        BY <3>0
      <4>2. b - first = (D * q) + r
        BY <3>0, Division
      <4> QED BY <4>1, <4>2
    <3>2. D * q \in Int /\ (D * q) % D = 0
      <4>1. \A j \in Int : D * j \in Int /\ (D * j) % D = 0
        BY <3>0
      <4> QED BY <3>1, <4>1
    <3>3. 0 <= D * q
      <4>1. ASSUME D * q < 0 PROVE FALSE
        <5>1. 0 % D = 0
          BY <1>2
        <5>2. D * q + D <= 0
          BY <1>2, <3>2, <4>1, <5>1, MultiplesApart
        <5> QED BY <1>2, <2>1, <3>1, <3>2, <5>2
      <4> QED BY <3>2, <4>1
    <3> HIDE DEF r, q
    <3>4. k \in Int /\ k - first = D * q /\ k <= b /\ b < k + D /\ first <= k
      BY <1>2, <2>1, <3>1, <3>2, <3>3
    <3> HIDE DEF k
    <3>5. k \in BytesOf(acc) /\ (k - first) % D = 0
      BY <1>2, <2>1, <3>2, <3>4 DEF BytesOf
    <3>6. k \in KeysOf(acc)
      BY <2>3, <3>5 DEF KeysOf, ElementsOf, D
    <3> QED BY <1>2, <2>1, <3>4, <3>6 DEF ElementBytes, D
  <2> QED BY <2>2, <2>3
<1>8. ASSUME NEW k \in KeysOf(acc)
      PROVE  Span(k) \subseteq BytesOf(acc) /\ ElementBytes(k) \subseteq BytesOf(acc)
  <2>1. k \in Int /\ (k - first) % D = 0
    BY <1>3, <1>4
  <2>2. first <= k /\ k < first + acc.size
    BY <1>2, <2>1 DEF KeysOf, ElementsOf, BytesOf
  <2>3. (k - first) + D <= acc.size
    BY <1>2, <2>1, <2>2, MultiplesApart
  <2> QED BY <1>2, <2>1, <2>2, <2>3, BufferAssumption DEF Span, BytesOf, ElementBytes
<1> QED BY <1>3, <1>6, <1>7, <1>8

LEMMA BecomeSound ==
  ASSUME NEW s, Sound(s), Become(s)
  PROVE  Sound(Buffer')
<1>1. /\ Buffer'.memory = s.memory /\ Buffer'.reads = s.reads /\ Buffer'.writes = s.writes
  BY DEF Become, Buffer
<1> QED BY <1>1 DEF Sound, IsBuffer, BackupsExact, ReadFaultsCovered, WritesFresh

\* The lookups of a single element.
LEMMA LowerBoundSubset ==
  ASSUME NEW W, NEW a
  PROVE  LowerBound(W, a) \subseteq W
BY DEF LowerBound

LEMMA AppliedSubset ==
  ASSUME NEW acc
  PROVE  AppliedBy(acc) \subseteq pendingWrites
BY LowerBoundSubset DEF AppliedBy

LEMMA ReadHitsInSpans ==
  ASSUME NEW K, NEW inject, NEW rh \in ReadHits(inject, K)
  PROVE  rh \subseteq SpanOf(K)
BY DEF ReadHits
==============================================================================
