----------------------- MODULE ShortTermBufferProofs -----------------------
(***************************************************************************)
(* Theorems about ShortTermBuffer, for every range, element size, bit      *)
(* depth, set of values and set of accesses: the types of its maps for any *)
(* accesses at all; what it does to the memory for aligned accesses, of    *)
(* whole elements where that is needed; and that it implements             *)
(* ApproximateMemory.                                                      *)
(***************************************************************************)
EXTENDS ShortTermBuffer, ShortTermMapsProofs

(***************************************************************************)
(* Type correctness and the keys of the maps, for any accesses.            *)
(***************************************************************************)
LEMMA HypothesisParts ==
  /\ AlignedAccesses => AccessesAligned
  /\ WholeElementAccesses => AccessesWhole /\ AlignedAccesses
BY DEF AlignedAccesses, WholeElementAccesses

LEMMA KeysOfGather ==
  ASSUME NEW g \in Gathers
  PROVE  /\ g[1] \in Keys /\ g[2] \in Keys
         /\ g[1] .. (g[1] + DataSize - 1) \subseteq Memory
         /\ g[2] .. (g[2] + DataSize - 1) \subseteq Memory
<1>1. ASSUME NEW i \in 1 .. 2
      PROVE  g[i] \in Memory /\ g[i] .. (g[i] + DataSize - 1) \subseteq Memory
  BY GathersAssumption
<1>2. ASSUME NEW i \in 1 .. 2 PROVE Span(g[i]) \subseteq g[i] .. (g[i] + DataSize - 1)
  BY <1>1, BufferAssumption DEF Span, Memory
<1> QED BY <1>1, <1>2 DEF Keys

\* The types of the maps and of the memory, in the form the lemmas use.
LEMMA TypeOKBuffer ==
  TypeOK <=> /\ IsBuffer(Buffer)
             /\ isActive \in 0 .. 1
             /\ stored \in [Memory -> Values]
             /\ unread \subseteq Memory
BY DEF TypeOK, IsBuffer, IsReads, Buffer

LEMMA InitType == Init => TypeOK
<1> SUFFICES ASSUME Init PROVE TypeOK
  OBVIOUS
<1>1. \A b \in Memory : Clean(stored[b]) \in Byte
  BY DEF Init, Clean, Byte
<1> QED BY <1>1 DEF Init, TypeOK, NoReads

LEMMA ReadStep ==
  ASSUME TypeOK, KeysDisjoint, NEW acc \in Accesses, NEW inject \in BOOLEAN, Read(acc, inject)
  PROVE  TypeOK' /\ KeysDisjoint'
<1>1. PICK wh \in SUBSET SpanOf(AppliedBy(acc)), rh \in ReadHits(inject, KeysOf(acc)) :
        Become(AfterRead(Buffer, ReversedBy(acc), AppliedBy(acc), KeysOf(acc), wh, rh))
  BY DEF Read
<1> DEFINE t == AfterRead(Buffer, ReversedBy(acc), AppliedBy(acc), KeysOf(acc), wh, rh)
<1>2. IsBuffer(Buffer) /\ DOMAIN Buffer.reads \intersect Buffer.writes = {}
  BY TypeOKBuffer DEF KeysDisjoint, Buffer
<1>3. ReversedBy(acc) \subseteq DOMAIN Buffer.reads
  BY DEF ReversedBy, Buffer
<1>4. KeysOf(acc) \subseteq Keys
  BY KeysOfAccess
<1>5. KeysOf(acc) \intersect Buffer.writes \subseteq AppliedBy(acc)
  BY AppliedCoversKeys DEF TypeOK, Buffer
<1>6. IsRead(t, Buffer, ReversedBy(acc), AppliedBy(acc), KeysOf(acc))
  BY <1>2, <1>3, <1>4, AfterReadType
<1> HIDE DEF t
<1>7. IsBuffer(t) /\ DOMAIN t.reads \intersect t.writes = {}
  BY <1>2, <1>5, <1>6, AfterReadDisjoint DEF IsRead
<1>8. memory' \in [Memory -> Byte] /\ IsReads(remainingReads') /\ pendingWrites' \subseteq Keys
  BY <1>1, <1>7, BecomeBuffer DEF t
<1>9. DOMAIN remainingReads' \intersect pendingWrites' = {}
  BY <1>1, <1>7 DEF t, Become
<1> QED BY <1>8, <1>9 DEF Read, TypeOK, IsReads, KeysDisjoint

LEMMA ReadElementType ==
  ASSUME NEW s, IsBuffer(s), DOMAIN s.reads \intersect s.writes = {},
         NEW a \in Keys, NEW wh, NEW rh
  PROVE  /\ IsBuffer(ReadElement(s, a, wh, rh))
         /\ DOMAIN ReadElement(s, a, wh, rh).reads
              \intersect ReadElement(s, a, wh, rh).writes = {}
<1> DEFINE R == DOMAIN s.reads \intersect {a}
           A == LowerBound(s.writes, a)
           t == ReadElement(s, a, wh, rh)
<1>1. s.writes \subseteq Int /\ a \in Int
  BY BufferAssumption DEF IsBuffer, Keys, Memory
<1>2. {a} \intersect s.writes \subseteq A
  BY <1>1, LowerBoundFinds
<1>3. {a} \subseteq Keys /\ R \subseteq DOMAIN s.reads
  OBVIOUS
<1>4. t = AfterRead(s, R, A, {a}, wh, rh)
  BY DEF ReadElement
<1> HIDE DEF R, A, t
<1>5. IsRead(t, s, R, A, {a})
  BY <1>3, <1>4, AfterReadType
<1>6. IsBuffer(t) /\ DOMAIN t.reads \intersect t.writes = {}
  BY <1>2, <1>5, AfterReadDisjoint DEF IsRead
<1> QED BY <1>6 DEF t

LEMMA ReadScatteredStep ==
  ASSUME TypeOK, KeysDisjoint, NEW g \in Gathers, NEW inject \in BOOLEAN, ReadScattered(g, inject)
  PROVE  TypeOK' /\ KeysDisjoint'
<1>1. PICK w1 \in SUBSET SpanOf(LowerBound(pendingWrites, g[1])), r1 \in ReadHits(inject, {g[1]}) :
        LET s == ReadElement(Buffer, g[1], w1, r1) IN
        \E w2 \in SUBSET SpanOf(LowerBound(s.writes, g[2])), r2 \in ReadHits(inject, {g[2]}) :
          Become(ReadElement(s, g[2], w2, r2))
  BY DEF ReadScattered
<1> DEFINE s == ReadElement(Buffer, g[1], w1, r1)
<1>2. PICK w2 \in SUBSET SpanOf(LowerBound(s.writes, g[2])), r2 \in ReadHits(inject, {g[2]}) :
        Become(ReadElement(s, g[2], w2, r2))
  BY <1>1
<1> DEFINE t == ReadElement(s, g[2], w2, r2)
<1>3. g[1] \in Keys /\ g[2] \in Keys
  BY KeysOfGather
<1>4. IsBuffer(Buffer) /\ DOMAIN Buffer.reads \intersect Buffer.writes = {}
  BY TypeOKBuffer DEF KeysDisjoint, Buffer
<1>5. IsBuffer(s) /\ DOMAIN s.reads \intersect s.writes = {}
  BY <1>3, <1>4, ReadElementType
<1> HIDE DEF s
<1>6. IsBuffer(t) /\ DOMAIN t.reads \intersect t.writes = {}
  BY <1>3, <1>5, ReadElementType
<1>7. Become(t)
  BY <1>2
<1> HIDE DEF t
<1>8. memory' \in [Memory -> Byte] /\ IsReads(remainingReads') /\ pendingWrites' \subseteq Keys
  BY <1>6, <1>7, BecomeBuffer
<1>9. DOMAIN remainingReads' \intersect pendingWrites' = {}
  BY <1>6, <1>7 DEF Become
<1> QED BY <1>8, <1>9 DEF ReadScattered, TypeOK, IsReads, KeysDisjoint

\* What a write step does to the bytes is well typed.
LEMMA StoreStep ==
  ASSUME TypeOK, NEW bytes, bytes \subseteq Memory, NEW v \in Values, Store(bytes, v)
  PROVE  /\ memory' \in [Memory -> Byte]
         /\ isActive' \in 0 .. 1
         /\ stored' \in [Memory -> Values]
         /\ unread' \subseteq Memory
BY StoreBytesType DEF Store, TypeOK

\* A write erases the backups at the keys it records.
LEMMA RecordWriteStep ==
  ASSUME TypeOK, KeysDisjoint, NEW I, NEW K, K \subseteq I, K \subseteq Keys,
         NEW inject \in BOOLEAN, RecordWrite(I, K, inject)
  PROVE  /\ IsReads(remainingReads')
         /\ pendingWrites' \subseteq Keys
         /\ KeysDisjoint'
<1>1. IsReads(remainingReads)
  BY DEF TypeOK, IsReads
<1>2. IsReads(remainingReads') /\ DOMAIN remainingReads' = DOMAIN remainingReads \ I
  BY <1>1, DropReads DEF RecordWrite
<1>3. pendingWrites' \subseteq pendingWrites \union K
  BY DEF RecordWrite
<1> QED BY <1>2, <1>3 DEF TypeOK, KeysDisjoint

LEMMA WriteStep ==
  ASSUME TypeOK, KeysDisjoint, NEW acc \in Accesses, NEW v \in Values, NEW inject \in BOOLEAN,
         Write(acc, v, inject)
  PROVE  TypeOK' /\ KeysDisjoint'
<1> DEFINE I == IF IsSIMD(acc) THEN BytesOf(acc) ELSE {acc.address}
<1>1. KeysOf(acc) \subseteq I /\ KeysOf(acc) \subseteq Keys /\ BytesOf(acc) \subseteq Memory
  BY KeysOfAccess DEF KeysOf, ElementsOf
<1>2. RecordWrite(I, KeysOf(acc), inject) /\ Store(BytesOf(acc), v)
  BY DEF Write
<1> HIDE DEF I
<1>3. IsReads(remainingReads') /\ pendingWrites' \subseteq Keys /\ KeysDisjoint'
  BY <1>1, <1>2, RecordWriteStep
<1>4. /\ memory' \in [Memory -> Byte] /\ isActive' \in 0 .. 1
      /\ stored' \in [Memory -> Values] /\ unread' \subseteq Memory
  BY <1>1, <1>2, StoreStep
<1> QED BY <1>3, <1>4 DEF TypeOK, IsReads

LEMMA WriteScatteredStep ==
  ASSUME TypeOK, KeysDisjoint, NEW g \in Gathers, NEW v \in Values, NEW inject \in BOOLEAN,
         WriteScattered(g, v, inject)
  PROVE  TypeOK' /\ KeysDisjoint'
<1> DEFINE K == {g[1], g[2]}
           bytes == g[1] .. (g[1] + DataSize - 1) \union g[2] .. (g[2] + DataSize - 1)
<1>1. K \subseteq Keys /\ bytes \subseteq Memory
  BY KeysOfGather
<1>2. RecordWrite(K, K, inject) /\ Store(bytes, v)
  BY DEF WriteScattered
<1> HIDE DEF K, bytes
<1>3. IsReads(remainingReads') /\ pendingWrites' \subseteq Keys /\ KeysDisjoint'
  BY <1>1, <1>2, RecordWriteStep
<1>4. /\ memory' \in [Memory -> Byte] /\ isActive' \in 0 .. 1
      /\ stored' \in [Memory -> Values] /\ unread' \subseteq Memory
  BY <1>1, <1>2, StoreStep
<1> QED BY <1>3, <1>4 DEF TypeOK, IsReads

LEMMA RetireStep ==
  ASSUME TypeOK, KeysDisjoint, RetireBuffer
  PROVE  TypeOK' /\ KeysDisjoint' /\ DOMAIN remainingReads' = {} /\ pendingWrites' = {}
<1>1. PICK wh \in SUBSET SpanOf(pendingWrites) :
        Become(AfterRead(Buffer, DOMAIN remainingReads, pendingWrites, {}, wh, {}))
  BY DEF RetireBuffer
<1> DEFINE t == AfterRead(Buffer, DOMAIN remainingReads, pendingWrites, {}, wh, {})
<1>2. IsBuffer(Buffer) /\ DOMAIN remainingReads \subseteq DOMAIN Buffer.reads
  BY TypeOKBuffer DEF Buffer
<1>3. IsRead(t, Buffer, DOMAIN remainingReads, pendingWrites, {})
  BY <1>2, AfterReadType
<1>4. Become(t)
  BY <1>1
<1> HIDE DEF t
<1>5. memory' \in [Memory -> Byte] /\ IsReads(remainingReads') /\ pendingWrites' \subseteq Keys
  BY <1>3, <1>4, BecomeBuffer DEF IsRead
<1>6. DOMAIN remainingReads' = {} /\ pendingWrites' = {}
  BY <1>3, <1>4 DEF IsRead, Become, Buffer
<1> QED BY <1>5, <1>6 DEF RetireBuffer, TypeOK, IsReads, KeysDisjoint

-----------------------------------------------------------------------------
(***************************************************************************)
(* The inductive invariant.  KeysDisjoint needs the types of the maps; the *)
(* last part needs nothing but the two actions that change isActive, since *)
(* every operation that fills a map requires an active buffer.             *)
(***************************************************************************)
IInv == TypeOK /\ KeysDisjoint /\ RetiredOwesNothing

LEMMA InitIInv == Init => IInv
BY InitType DEF IInv, Init, KeysDisjoint, RetiredOwesNothing, NoReads

LEMMA NextIInv == IInv /\ [Next]_vars => IInv'
<1> SUFFICES ASSUME TypeOK, KeysDisjoint, RetiredOwesNothing, [Next]_vars
             PROVE  TypeOK' /\ KeysDisjoint' /\ RetiredOwesNothing'
  BY DEF IInv
<1>1. ASSUME NEW acc \in Accesses, NEW inject \in BOOLEAN, Read(acc, inject)
      PROVE  TypeOK' /\ KeysDisjoint' /\ RetiredOwesNothing'
  <2>1. RetiredOwesNothing'
    BY <1>1 DEF Read, RetiredOwesNothing
  <2> QED BY <1>1, <2>1, ReadStep
<1>2. ASSUME NEW g \in Gathers, NEW inject \in BOOLEAN, ReadScattered(g, inject)
      PROVE  TypeOK' /\ KeysDisjoint' /\ RetiredOwesNothing'
  <2>1. RetiredOwesNothing'
    BY <1>2 DEF ReadScattered, RetiredOwesNothing
  <2> QED BY <1>2, <2>1, ReadScatteredStep
<1>3. ASSUME NEW acc \in Accesses, NEW v \in Values, NEW inject \in BOOLEAN, Write(acc, v, inject)
      PROVE  TypeOK' /\ KeysDisjoint' /\ RetiredOwesNothing'
  <2>1. RetiredOwesNothing'
    BY <1>3 DEF Write, Store, RetiredOwesNothing
  <2> QED BY <1>3, <2>1, WriteStep
<1>4. ASSUME NEW g \in Gathers, NEW v \in Values, NEW inject \in BOOLEAN, WriteScattered(g, v, inject)
      PROVE  TypeOK' /\ KeysDisjoint' /\ RetiredOwesNothing'
  <2>1. RetiredOwesNothing'
    BY <1>4 DEF WriteScattered, Store, RetiredOwesNothing
  <2> QED BY <1>4, <2>1, WriteScatteredStep
<1>5. ASSUME NEW acc \in Accesses, NEW v \in Values, WriteUnseen(acc, v)
      PROVE  TypeOK' /\ KeysDisjoint' /\ RetiredOwesNothing'
  <2>1. BytesOf(acc) \subseteq Memory
    BY KeysOfAccess
  <2>2. /\ memory' \in [Memory -> Byte] /\ isActive' \in 0 .. 1
        /\ stored' \in [Memory -> Values] /\ unread' \subseteq Memory
    BY <1>5, <2>1, StoreStep DEF WriteUnseen
  <2>3. UNCHANGED <<remainingReads, pendingWrites, isActive>>
    BY <1>5 DEF WriteUnseen, Store
  <2> QED BY <2>2, <2>3 DEF TypeOK, KeysDisjoint, RetiredOwesNothing
<1>6. ASSUME RetireBuffer
      PROVE  TypeOK' /\ KeysDisjoint' /\ RetiredOwesNothing'
  BY <1>6, RetireStep DEF RetiredOwesNothing
<1>7. ASSUME ReactivateBuffer
      PROVE  TypeOK' /\ KeysDisjoint' /\ RetiredOwesNothing'
  BY <1>7 DEF ReactivateBuffer, TypeOK, KeysDisjoint, RetiredOwesNothing
<1>8. ASSUME UNCHANGED vars
      PROVE  TypeOK' /\ KeysDisjoint' /\ RetiredOwesNothing'
  BY <1>8 DEF vars, TypeOK, KeysDisjoint, RetiredOwesNothing
<1> QED BY <1>1, <1>2, <1>3, <1>4, <1>5, <1>6, <1>7, <1>8 DEF Next

LEMMA Invariance == Spec => []IInv
<1> QED BY InitIInv, NextIInv, PTL DEF Spec

\* The maps only ever hold elements of the buffer, and the memory keeps one
\* well-formed byte per address, whatever the program accesses.
THEOREM TypeCorrect == Spec => []TypeOK
<1>1. IInv => TypeOK
  BY DEF IInv
<1> QED BY <1>1, Invariance, PTL

\* No address waits at once for its backup and for its write fault: the order
\* in which RetireBuffer and the read handlers take the two maps is immaterial,
\* for every alignment and size of the accesses.
THEOREM ReadsAndWritesDisjoint == Spec => []KeysDisjoint
<1>1. IInv => KeysDisjoint
  BY DEF IInv
<1> QED BY <1>1, Invariance, PTL

\* A retired buffer holds no backup and no pending write, so that reactivation
\* starts afresh although it clears nothing.
THEOREM RetirementSettles == Spec => []RetiredOwesNothing
<1>1. IInv => RetiredOwesNothing
  BY DEF IInv
<1> QED BY <1>1, Invariance, PTL

-----------------------------------------------------------------------------
(***************************************************************************)
(* The stored values.  What a read restores is never older than the last   *)
(* store, because every backup under an aligned store is forgotten.        *)
(***************************************************************************)
\* The invariant of the stored values, for aligned accesses.
ValuesInv ==
  /\ IInv
  /\ DOMAIN remainingReads \subseteq AlignedKeys
  /\ HoldsStored(Buffer, stored)

LEMMA HoldsStoredDef == HoldsStored(Buffer, stored) <=> StoredDataSurvives
BY DEF HoldsStored, StoredDataSurvives, Buffer

LEMMA AlignedGatherKeys ==
  ASSUME AlignedAccesses, NEW g \in Gathers
  PROVE  g[1] \in AlignedKeys /\ g[2] \in AlignedKeys
BY KeysOfGather DEF AlignedAccesses, AlignedKeys

LEMMA StoreValues ==
  ASSUME ValuesInv, NEW bytes, NEW v \in Values, NEW I,
         Store(bytes, v), remainingReads' = Drop(remainingReads, I),
         \A a \in AlignedKeys, b \in bytes : b \in Span(a) => a \in I
  PROVE  HoldsStored(Buffer', stored')
<1>1. \A b \in Memory : Buffer'.memory[b].value = stored'[b]
  BY DEF Store, StoreBytes, Clean, ValuesInv, HoldsStored, Buffer
<1>2. ASSUME NEW a \in DOMAIN remainingReads', NEW i \in 0 .. (BackupSize - 1)
      PROVE  remainingReads'[a][i].value = stored'[a + i]
  <2>1. a \in DOMAIN remainingReads /\ a \notin I /\ remainingReads'[a] = remainingReads[a]
    BY <1>2 DEF Drop
  <2>2. a \in AlignedKeys /\ a \in Int /\ Span(a) \subseteq Memory
    BY <2>1, MemoryInt DEF ValuesInv, AlignedKeys, Keys
  <2>3. a + i \in Span(a)
    BY <2>2, BufferAssumption DEF Span
  <2>4. a + i \in Memory /\ a + i \notin bytes
    BY <2>1, <2>2, <2>3
  <2>5. stored'[a + i] = stored[a + i]
    BY <2>4 DEF Store
  <2>6. remainingReads[a][i].value = stored[a + i]
    BY <2>1 DEF ValuesInv, HoldsStored, Buffer
  <2> QED BY <2>1, <2>5, <2>6
<1> QED BY <1>1, <1>2 DEF HoldsStored, Buffer

LEMMA ReadValues ==
  ASSUME AlignedAccesses, ValuesInv, NEW acc \in Accesses, NEW inject \in BOOLEAN, Read(acc, inject)
  PROVE  DOMAIN remainingReads' \subseteq AlignedKeys /\ HoldsStored(Buffer', stored')
<1>1. PICK wh \in SUBSET SpanOf(AppliedBy(acc)), rh \in ReadHits(inject, KeysOf(acc)) :
        Become(AfterRead(Buffer, ReversedBy(acc), AppliedBy(acc), KeysOf(acc), wh, rh))
  BY DEF Read
<1> DEFINE t == AfterRead(Buffer, ReversedBy(acc), AppliedBy(acc), KeysOf(acc), wh, rh)
<1>2. IsBuffer(Buffer) /\ HoldsStored(Buffer, stored) /\ ReversedBy(acc) \subseteq DOMAIN Buffer.reads
  BY TypeOKBuffer DEF ValuesInv, IInv, ReversedBy, Buffer
<1>3. KeysOf(acc) \subseteq Keys /\ KeysOf(acc) \subseteq AlignedKeys
  BY KeysOfAccess, AlignedAccessKeys, HypothesisParts
<1>4. HoldsStored(t, stored)
  BY <1>2, <1>3, AfterReadValues
<1>5. IsRead(t, Buffer, ReversedBy(acc), AppliedBy(acc), KeysOf(acc))
  BY <1>2, <1>3, AfterReadType
<1>6. Become(t) /\ stored' = stored
  BY <1>1 DEF Read
<1> HIDE DEF t
<1>7. DOMAIN remainingReads' \subseteq AlignedKeys
  BY <1>3, <1>5, <1>6 DEF IsRead, Become, ValuesInv, Buffer
<1> QED BY <1>4, <1>6, <1>7, BecomeValues

LEMMA ReadElementValues ==
  ASSUME NEW s, IsBuffer(s), NEW last, HoldsStored(s, last), DOMAIN s.reads \subseteq AlignedKeys,
         NEW a \in AlignedKeys, NEW wh, NEW rh
  PROVE  /\ IsBuffer(ReadElement(s, a, wh, rh))
         /\ HoldsStored(ReadElement(s, a, wh, rh), last)
         /\ DOMAIN ReadElement(s, a, wh, rh).reads \subseteq AlignedKeys
<1> DEFINE R == DOMAIN s.reads \intersect {a}
           A == LowerBound(s.writes, a)
           t == ReadElement(s, a, wh, rh)
<1>1. {a} \subseteq Keys /\ R \subseteq DOMAIN s.reads
  BY DEF AlignedKeys
<1>2. t = AfterRead(s, R, A, {a}, wh, rh)
  BY DEF ReadElement
<1> HIDE DEF R, A, t
<1>3. IsRead(t, s, R, A, {a})
  BY <1>1, <1>2, AfterReadType
<1>4. HoldsStored(t, last)
  BY <1>1, <1>2, AfterReadValues
<1>5. DOMAIN t.reads \subseteq AlignedKeys
  BY <1>3 DEF IsRead
<1> QED BY <1>3, <1>4, <1>5 DEF t, IsRead

LEMMA ReadScatteredValues ==
  ASSUME AlignedAccesses, ValuesInv, NEW g \in Gathers, NEW inject \in BOOLEAN, ReadScattered(g, inject)
  PROVE  DOMAIN remainingReads' \subseteq AlignedKeys /\ HoldsStored(Buffer', stored')
<1>1. PICK w1 \in SUBSET SpanOf(LowerBound(pendingWrites, g[1])), r1 \in ReadHits(inject, {g[1]}) :
        LET s == ReadElement(Buffer, g[1], w1, r1) IN
        \E w2 \in SUBSET SpanOf(LowerBound(s.writes, g[2])), r2 \in ReadHits(inject, {g[2]}) :
          Become(ReadElement(s, g[2], w2, r2))
  BY DEF ReadScattered
<1> DEFINE s == ReadElement(Buffer, g[1], w1, r1)
<1>2. PICK w2 \in SUBSET SpanOf(LowerBound(s.writes, g[2])), r2 \in ReadHits(inject, {g[2]}) :
        Become(ReadElement(s, g[2], w2, r2))
  BY <1>1
<1> DEFINE t == ReadElement(s, g[2], w2, r2)
<1>3. g[1] \in AlignedKeys /\ g[2] \in AlignedKeys
  BY AlignedGatherKeys
<1>4. /\ IsBuffer(Buffer) /\ HoldsStored(Buffer, stored)
      /\ DOMAIN Buffer.reads \subseteq AlignedKeys
  BY TypeOKBuffer DEF ValuesInv, IInv, Buffer
<1>5. IsBuffer(s) /\ HoldsStored(s, stored) /\ DOMAIN s.reads \subseteq AlignedKeys
  BY <1>3, <1>4, ReadElementValues
<1>6. Become(t) /\ stored' = stored
  BY <1>2 DEF ReadScattered
<1> HIDE DEF s
<1>7. HoldsStored(t, stored) /\ DOMAIN t.reads \subseteq AlignedKeys
  BY <1>3, <1>5, ReadElementValues
<1> HIDE DEF t
<1>8. DOMAIN remainingReads' \subseteq AlignedKeys
  BY <1>6, <1>7 DEF Become
<1> QED BY <1>6, <1>7, <1>8, BecomeValues

LEMMA WriteValues ==
  ASSUME AlignedAccesses, ValuesInv, NEW acc \in Accesses, NEW v \in Values, NEW inject \in BOOLEAN,
         Write(acc, v, inject)
  PROVE  DOMAIN remainingReads' \subseteq AlignedKeys /\ HoldsStored(Buffer', stored')
<1> DEFINE I == IF IsSIMD(acc) THEN BytesOf(acc) ELSE {acc.address}
<1>1. remainingReads' = Drop(remainingReads, I) /\ Store(BytesOf(acc), v)
  BY DEF Write, RecordWrite
<1>2. \A a \in AlignedKeys, b \in BytesOf(acc) : b \in Span(a) => a \in I
  BY KeysUnderWrite, HypothesisParts
<1> HIDE DEF I
<1>3. HoldsStored(Buffer', stored')
  BY <1>1, <1>2, StoreValues
<1>4. DOMAIN remainingReads' \subseteq AlignedKeys
  BY <1>1 DEF Drop, ValuesInv
<1> QED BY <1>3, <1>4

LEMMA WriteScatteredValues ==
  ASSUME AlignedAccesses, ValuesInv, NEW g \in Gathers, NEW v \in Values, NEW inject \in BOOLEAN,
         WriteScattered(g, v, inject)
  PROVE  DOMAIN remainingReads' \subseteq AlignedKeys /\ HoldsStored(Buffer', stored')
<1> DEFINE I == {g[1], g[2]}
           bytes == g[1] .. (g[1] + DataSize - 1) \union g[2] .. (g[2] + DataSize - 1)
<1>1. remainingReads' = Drop(remainingReads, I) /\ Store(bytes, v)
  BY DEF WriteScattered, RecordWrite
<1>2. ASSUME NEW a \in AlignedKeys, NEW b \in bytes, b \in Span(a) PROVE a \in I
  <2>1. g[1] \in AlignedKeys /\ g[2] \in AlignedKeys
    BY AlignedGatherKeys
  <2>2. /\ a \in Int /\ g[1] \in Int /\ g[2] \in Int
        /\ ~IsMisaligned(a) /\ ~IsMisaligned(g[1]) /\ ~IsMisaligned(g[2])
    BY <2>1, MemoryInt DEF AlignedKeys, Keys
  <2>3. b \in Int /\ b \in ElementBytes(a) /\ (b \in ElementBytes(g[1]) \/ b \in ElementBytes(g[2]))
    BY <1>2, <2>2, BufferAssumption, SpanInElement DEF ElementBytes, Span
  <2>4. a = g[1] \/ a = g[2]
    BY <2>2, <2>3, ElementsApart
  <2> QED BY <2>4
<1> HIDE DEF I, bytes
<1>3. HoldsStored(Buffer', stored')
  BY <1>1, <1>2, StoreValues
<1>4. DOMAIN remainingReads' \subseteq AlignedKeys
  BY <1>1 DEF Drop, ValuesInv
<1> QED BY <1>3, <1>4

\* A store the buffer does not see happens only while it holds no backup.
LEMMA UnseenWhileRetired ==
  ASSUME AlignedAccesses, IInv, NEW acc \in Accesses, NEW v \in Values, WriteUnseen(acc, v)
  PROVE  DOMAIN remainingReads = {} /\ pendingWrites = {}
<1>1. ~IsIgnored(acc)
  BY DEF AlignedAccesses, AccessesAligned, IsIgnored, IsIgnorableMisaligned
<1> QED BY <1>1 DEF WriteUnseen, IInv, RetiredOwesNothing

LEMMA RetireValues ==
  ASSUME ValuesInv, RetireBuffer
  PROVE  HoldsStored(Buffer', stored')
<1>1. PICK wh \in SUBSET SpanOf(pendingWrites) :
        Become(AfterRead(Buffer, DOMAIN remainingReads, pendingWrites, {}, wh, {}))
  BY DEF RetireBuffer
<1> DEFINE t == AfterRead(Buffer, DOMAIN remainingReads, pendingWrites, {}, wh, {})
<1>2. IsBuffer(Buffer) /\ HoldsStored(Buffer, stored) /\ DOMAIN remainingReads \subseteq DOMAIN Buffer.reads
  BY TypeOKBuffer DEF ValuesInv, IInv, Buffer
<1>3. HoldsStored(t, stored)
  BY <1>2, AfterReadValues
<1>4. Become(t) /\ stored' = stored
  BY <1>1 DEF RetireBuffer
<1> HIDE DEF t
<1> QED BY <1>3, <1>4, BecomeValues

LEMMA InitValuesInv == Init => ValuesInv
<1> SUFFICES ASSUME Init PROVE ValuesInv
  OBVIOUS
<1>1. DOMAIN remainingReads = {} /\ memory = [b \in Memory |-> Clean(stored[b])]
  BY DEF Init, NoReads
<1>2. HoldsStored(Buffer, stored)
  BY <1>1 DEF HoldsStored, Buffer, Clean
<1> QED BY <1>1, <1>2, InitIInv DEF ValuesInv

LEMMA NextValuesInv ==
  ASSUME AlignedAccesses
  PROVE  ValuesInv /\ [Next]_vars => ValuesInv'
<1> SUFFICES ASSUME ValuesInv, [Next]_vars PROVE ValuesInv'
  OBVIOUS
<1>1. IInv /\ IInv'
  BY NextIInv DEF ValuesInv
<1> DEFINE Holds == DOMAIN remainingReads' \subseteq AlignedKeys /\ HoldsStored(Buffer', stored')
<1>2. ASSUME Holds PROVE ValuesInv'
  BY <1>1, <1>2 DEF ValuesInv
<1>3. ASSUME NEW acc \in Accesses, NEW inject \in BOOLEAN, Read(acc, inject) PROVE Holds
  BY <1>3, ReadValues
<1>4. ASSUME NEW g \in Gathers, NEW inject \in BOOLEAN, ReadScattered(g, inject) PROVE Holds
  BY <1>4, ReadScatteredValues
<1>5. ASSUME NEW acc \in Accesses, NEW v \in Values, NEW inject \in BOOLEAN, Write(acc, v, inject)
      PROVE  Holds
  BY <1>5, WriteValues
<1>6. ASSUME NEW g \in Gathers, NEW v \in Values, NEW inject \in BOOLEAN, WriteScattered(g, v, inject)
      PROVE  Holds
  BY <1>6, WriteScatteredValues
<1>7. ASSUME NEW acc \in Accesses, NEW v \in Values, WriteUnseen(acc, v) PROVE Holds
  <2>1. DOMAIN remainingReads = {} /\ remainingReads' = remainingReads /\ Store(BytesOf(acc), v)
    BY <1>1, <1>7, UnseenWhileRetired DEF WriteUnseen
  <2>2. \A b \in Memory : memory'[b].value = stored'[b]
    BY <2>1 DEF Store, StoreBytes, Clean, ValuesInv, HoldsStored, Buffer
  <2> QED BY <2>1, <2>2 DEF HoldsStored, Buffer
<1>8. ASSUME RetireBuffer PROVE Holds
  <2>1. DOMAIN remainingReads' = {}
    BY <1>1, <1>8, RetireStep DEF IInv
  <2> QED BY <1>8, <2>1, RetireValues
<1>9. ASSUME ReactivateBuffer PROVE Holds
  BY <1>9 DEF ReactivateBuffer, ValuesInv, HoldsStored, Buffer
<1>10. ASSUME UNCHANGED vars PROVE Holds
  BY <1>10 DEF vars, ValuesInv, HoldsStored, Buffer
<1> HIDE DEF Holds
<1> QED BY <1>2, <1>3, <1>4, <1>5, <1>6, <1>7, <1>8, <1>9, <1>10 DEF Next

\* If every access is aligned, even one that ends inside an element, no byte
\* in memory or in a backup has another value than the one stored last.
THEOREM StoredDataKept ==
  ASSUME AlignedAccesses
  PROVE  Spec => []StoredDataSurvives
<1>1. ValuesInv => StoredDataSurvives
  BY HoldsStoredDef DEF ValuesInv
<1> QED BY <1>1, InitValuesInv, NextValuesInv, PTL DEF Spec

-----------------------------------------------------------------------------
(***************************************************************************)
(* The faults.  The buffer stays Sound: a backup is exactly what lies over *)
(* it without the read faults, every read fault lies under a backup, and no *)
(* write fault where one is pending.                                       *)
(***************************************************************************)
\* A sound buffer gives back every read fault and injects every write once.
LEMMA SoundMeans ==
  ASSUME TypeOK, Sound(Buffer)
  PROVE  ReadFaultsReversible /\ WriteInjectedOnce
<1>1. WriteInjectedOnce
  BY DEF Sound, WritesFresh, WriteInjectedOnce, Buffer
<1>2. ReadFaultsReversible
  BY DEF Sound, ReadFaultsCovered, BackupsExact, WithoutRead, ReadFaultsReversible, Buffer
<1> QED BY <1>1, <1>2

LEMMA GatherBytes ==
  ASSUME NEW g \in Gathers
  PROVE  /\ g[1] .. (g[1] + DataSize - 1) = ElementBytes(g[1])
         /\ g[2] .. (g[2] + DataSize - 1) = ElementBytes(g[2])
BY DEF ElementBytes

LEMMA ReadSound ==
  ASSUME WholeElementAccesses, IInv, Sound(Buffer),
         NEW acc \in Accesses, NEW inject \in BOOLEAN, Read(acc, inject)
  PROVE  Sound(Buffer')
<1>1. PICK wh \in SUBSET SpanOf(AppliedBy(acc)), rh \in ReadHits(inject, KeysOf(acc)) :
        Become(AfterRead(Buffer, ReversedBy(acc), AppliedBy(acc), KeysOf(acc), wh, rh))
  BY DEF Read
<1> DEFINE K == KeysOf(acc)
           R == ReversedBy(acc)
           A == AppliedBy(acc)
           t == AfterRead(Buffer, R, A, K, wh, rh)
<1>2. K \subseteq AlignedKeys
  BY WholeKeys, HypothesisParts
<1>3. R \subseteq DOMAIN Buffer.reads /\ K \intersect DOMAIN Buffer.reads \subseteq R
  <2>1. AlignedKeys \intersect (IF IsSIMD(acc) THEN BytesOf(acc) ELSE {acc.address}) = K
    BY WholeKeys, HypothesisParts
  <2> QED BY <2>1 DEF ReversedBy, Buffer
<1>4. A \subseteq Buffer.writes /\ K \intersect Buffer.writes \subseteq A
  BY AppliedSubset, AppliedCoversKeys DEF IInv, TypeOK, Buffer
<1>5. wh \subseteq SpanOf(A) /\ rh \subseteq SpanOf(K)
  BY ReadHitsInSpans
<1> HIDE DEF K, R, A
<1>6. Sound(t)
  BY <1>2, <1>3, <1>4, <1>5, AfterReadSound
<1>7. Become(t)
  BY <1>1 DEF K, R, A
<1> HIDE DEF t
<1> QED BY <1>6, <1>7, BecomeSound

LEMMA ReadElementSound ==
  ASSUME NEW s, Sound(s), NEW a \in AlignedKeys,
         NEW wh \in SUBSET SpanOf(LowerBound(s.writes, a)), NEW rh, rh \subseteq SpanOf({a})
  PROVE  Sound(ReadElement(s, a, wh, rh))
<1> DEFINE R == DOMAIN s.reads \intersect {a}
           A == LowerBound(s.writes, a)
           K == {a}
<1>1. K \subseteq AlignedKeys /\ R \subseteq DOMAIN s.reads /\ K \intersect DOMAIN s.reads \subseteq R
  OBVIOUS
<1>2. A \subseteq s.writes
  BY LowerBoundSubset
<1>3. K \intersect s.writes \subseteq A
  <2>1. a \in Int
    BY SpanInMemory
  <2>2. s.writes \subseteq Int
    BY MemoryInt DEF Sound, AlignedKeys, Keys
  <2> QED BY <2>1, <2>2, LowerBoundFinds
<1>4. wh \subseteq SpanOf(A) /\ rh \subseteq SpanOf(K)
  OBVIOUS
<1>5. ReadElement(s, a, wh, rh) = AfterRead(s, R, A, K, wh, rh)
  BY DEF ReadElement
<1> HIDE DEF R, A, K
<1>6. Sound(AfterRead(s, R, A, K, wh, rh))
  BY <1>1, <1>2, <1>3, <1>4, AfterReadSound
<1> QED BY <1>5, <1>6

LEMMA ReadScatteredSound ==
  ASSUME WholeElementAccesses, IInv, Sound(Buffer),
         NEW g \in Gathers, NEW inject \in BOOLEAN, ReadScattered(g, inject)
  PROVE  Sound(Buffer')
<1>1. PICK w1 \in SUBSET SpanOf(LowerBound(pendingWrites, g[1])), r1 \in ReadHits(inject, {g[1]}) :
        LET s == ReadElement(Buffer, g[1], w1, r1) IN
        \E w2 \in SUBSET SpanOf(LowerBound(s.writes, g[2])), r2 \in ReadHits(inject, {g[2]}) :
          Become(ReadElement(s, g[2], w2, r2))
  BY DEF ReadScattered
<1> DEFINE s == ReadElement(Buffer, g[1], w1, r1)
<1>2. PICK w2 \in SUBSET SpanOf(LowerBound(s.writes, g[2])), r2 \in ReadHits(inject, {g[2]}) :
        Become(ReadElement(s, g[2], w2, r2))
  BY <1>1
<1>3. g[1] \in AlignedKeys /\ g[2] \in AlignedKeys
  BY AlignedGatherKeys DEF WholeElementAccesses
<1>4. r1 \subseteq SpanOf({g[1]}) /\ r2 \subseteq SpanOf({g[2]})
  BY ReadHitsInSpans
<1>5. w1 \in SUBSET SpanOf(LowerBound(Buffer.writes, g[1]))
  BY DEF Buffer
<1>6. Sound(s)
  BY <1>3, <1>4, <1>5, ReadElementSound
<1> HIDE DEF s
<1>7. Sound(ReadElement(s, g[2], w2, r2))
  BY <1>3, <1>4, <1>6, ReadElementSound
<1> QED BY <1>2, <1>7, BecomeSound

\* A write of whole elements: no byte of a key that stays is written, and
\* every key recorded is written anew.
LEMMA WriteSound ==
  ASSUME Sound(Buffer), TypeOK', NEW bytes, NEW v \in Values, NEW I, NEW K, K \subseteq AlignedKeys,
         K \subseteq I, NEW inject \in BOOLEAN, RecordWrite(I, K, inject), Store(bytes, v),
         \A a \in AlignedKeys, b \in bytes : b \in Span(a) => a \in I,
         \A a \in AlignedKeys : a \in I => Span(a) \subseteq bytes
  PROVE  Sound(Buffer')
<1>1. /\ remainingReads' = Drop(remainingReads, I)
      /\ pendingWrites' \subseteq pendingWrites \union K
      /\ \A b \in Memory : memory'[b] = IF b \in bytes THEN Clean(v) ELSE memory[b]
  BY DEF RecordWrite, Store, StoreBytes
<1>2. /\ DOMAIN remainingReads \subseteq AlignedKeys /\ pendingWrites \subseteq AlignedKeys
      /\ DOMAIN remainingReads \intersect pendingWrites = {}
  BY DEF Sound, Buffer
<1>3. IsBuffer(Buffer')
  BY DEF TypeOK, IsBuffer, IsReads, Buffer
<1>4. DOMAIN remainingReads' = DOMAIN remainingReads \ I
      /\ \A a \in DOMAIN remainingReads' : remainingReads'[a] = remainingReads[a]
  BY <1>1 DEF Drop
<1>5. BackupsExact(Buffer')
  <2> SUFFICES ASSUME NEW a \in DOMAIN remainingReads', NEW b \in Span(a)
               PROVE  remainingReads'[a][b - a] = WithoutRead(memory'[b])
    BY DEF BackupsExact, Buffer
  <2>1. a \in DOMAIN remainingReads /\ a \notin I /\ a \in AlignedKeys
    BY <1>2, <1>4
  <2>2. b \in Memory /\ b \notin bytes
    BY <2>1, SpanInMemory
  <2>3. remainingReads[a][b - a] = WithoutRead(memory[b])
    BY <2>1 DEF Sound, BackupsExact, Buffer
  <2> QED BY <1>1, <1>4, <2>2, <2>3
<1>6. ReadFaultsCovered(Buffer')
  <2> SUFFICES ASSUME NEW b \in Memory, "read" \in memory'[b].faults
               PROVE  \E a \in DOMAIN remainingReads' : b \in Span(a)
    BY DEF ReadFaultsCovered, Buffer
  <2>1. b \notin bytes /\ "read" \in memory[b].faults
    BY <1>1 DEF Clean
  <2>2. PICK a \in DOMAIN remainingReads : b \in Span(a)
    BY <2>1 DEF Sound, ReadFaultsCovered, Buffer
  <2> QED BY <1>2, <1>4, <2>1, <2>2
<1>7. WritesFresh(Buffer')
  <2> SUFFICES ASSUME NEW a \in pendingWrites', NEW b \in Span(a)
               PROVE  "write" \notin memory'[b].faults
    BY DEF WritesFresh, Buffer
  <2>1. a \in AlignedKeys /\ b \in Memory
    BY <1>1, <1>2, SpanInMemory
  <2>2. CASE b \in bytes
    BY <1>1, <2>1, <2>2 DEF Clean
  <2>3. CASE b \notin bytes
    <3>1. a \in pendingWrites
      BY <1>1, <2>1, <2>3
    <3>2. "write" \notin memory[b].faults
      BY <3>1 DEF Sound, WritesFresh, Buffer
    <3> QED BY <1>1, <2>1, <2>3, <3>2
  <2> QED BY <2>2, <2>3
<1>8. /\ DOMAIN remainingReads' \subseteq AlignedKeys /\ pendingWrites' \subseteq AlignedKeys
      /\ DOMAIN remainingReads' \intersect pendingWrites' = {}
  BY <1>1, <1>2, <1>4
<1> QED BY <1>3, <1>5, <1>6, <1>7, <1>8 DEF Sound, Buffer

LEMMA RetireSound ==
  ASSUME IInv, Sound(Buffer), RetireBuffer
  PROVE  Sound(Buffer')
<1>1. PICK wh \in SUBSET SpanOf(pendingWrites) :
        Become(AfterRead(Buffer, DOMAIN remainingReads, pendingWrites, {}, wh, {}))
  BY DEF RetireBuffer
<1> DEFINE R == DOMAIN remainingReads
           A == pendingWrites
           K == {}
           rh == {}
           t == AfterRead(Buffer, R, A, K, wh, rh)
<1>2. /\ R \subseteq DOMAIN Buffer.reads /\ K \intersect DOMAIN Buffer.reads \subseteq R
      /\ A \subseteq Buffer.writes /\ K \intersect Buffer.writes \subseteq A
      /\ K \subseteq AlignedKeys /\ wh \subseteq SpanOf(A) /\ rh \subseteq SpanOf(K)
  BY DEF Buffer
<1>3. Become(t)
  BY <1>1
<1> HIDE DEF R, A, K, rh
<1>4. Sound(t)
  BY <1>2, AfterReadSound
<1> HIDE DEF t
<1> QED BY <1>3, <1>4, BecomeSound

LEMMA InitSound == Init => Sound(Buffer)
<1> SUFFICES ASSUME Init PROVE Sound(Buffer)
  OBVIOUS
<1>1. TypeOK
  BY InitType
<1>2. IsBuffer(Buffer)
  BY <1>1, TypeOKBuffer
<1>3. DOMAIN remainingReads = {} /\ pendingWrites = {} /\ \A b \in Memory : memory[b].faults = {}
  BY DEF Init, NoReads, Clean
<1> QED BY <1>2, <1>3 DEF Sound, BackupsExact, ReadFaultsCovered, WritesFresh, Buffer

LEMMA NextSound ==
  ASSUME WholeElementAccesses
  PROVE  IInv /\ Sound(Buffer) /\ [Next]_vars => Sound(Buffer')
<1> SUFFICES ASSUME IInv, Sound(Buffer), [Next]_vars PROVE Sound(Buffer')
  OBVIOUS
<1>1. IInv' /\ TypeOK'
  BY NextIInv DEF IInv
<1>2. AlignedAccesses
  BY DEF WholeElementAccesses
<1>3. ASSUME NEW acc \in Accesses, NEW inject \in BOOLEAN, Read(acc, inject) PROVE Sound(Buffer')
  BY <1>3, ReadSound
<1>4. ASSUME NEW g \in Gathers, NEW inject \in BOOLEAN, ReadScattered(g, inject) PROVE Sound(Buffer')
  BY <1>4, ReadScatteredSound
<1>5. ASSUME NEW acc \in Accesses, NEW v \in Values, NEW inject \in BOOLEAN, Write(acc, v, inject)
      PROVE  Sound(Buffer')
  <2> DEFINE I == IF IsSIMD(acc) THEN BytesOf(acc) ELSE {acc.address}
             K == KeysOf(acc)
             bytes == BytesOf(acc)
  <2>1. RecordWrite(I, K, inject) /\ Store(bytes, v)
    BY <1>5 DEF Write
  <2>2. /\ K \subseteq AlignedKeys /\ AlignedKeys \intersect I = K
        /\ \A k \in K : Span(k) \subseteq bytes
    BY WholeKeys, HypothesisParts
  <2>3. \A a \in AlignedKeys, b \in bytes : b \in Span(a) => a \in I
    BY <1>2, KeysUnderWrite, HypothesisParts
  <2> HIDE DEF I, K, bytes
  <2>4. K \subseteq I /\ \A a \in AlignedKeys : a \in I => Span(a) \subseteq bytes
    BY <2>2
  <2> QED BY <1>1, <2>1, <2>2, <2>3, <2>4, WriteSound
<1>6. ASSUME NEW g \in Gathers, NEW v \in Values, NEW inject \in BOOLEAN, WriteScattered(g, v, inject)
      PROVE  Sound(Buffer')
  <2> DEFINE K == {g[1], g[2]}
             bytes == g[1] .. (g[1] + DataSize - 1) \union g[2] .. (g[2] + DataSize - 1)
  <2>1. RecordWrite(K, K, inject) /\ Store(bytes, v)
    BY <1>6 DEF WriteScattered
  <2>2. g[1] \in AlignedKeys /\ g[2] \in AlignedKeys
    BY <1>2, AlignedGatherKeys
  <2>3. bytes = ElementBytes(g[1]) \union ElementBytes(g[2])
    BY GatherBytes
  <2>4. ASSUME NEW a \in AlignedKeys, NEW b \in bytes, b \in Span(a) PROVE a \in K
    <3>1. /\ a \in Int /\ g[1] \in Int /\ g[2] \in Int
          /\ ~IsMisaligned(a) /\ ~IsMisaligned(g[1]) /\ ~IsMisaligned(g[2])
      BY <2>2, SpanInMemory DEF AlignedKeys
    <3>2. b \in Int /\ b \in ElementBytes(a) /\ (b \in ElementBytes(g[1]) \/ b \in ElementBytes(g[2]))
      BY <2>3, <2>4, <3>1, SpanInMemory, MemoryInt, SpanInElement
    <3>3. a = g[1] \/ a = g[2]
      BY <3>1, <3>2, ElementsApart
    <3> QED BY <3>3
  <2>5. ASSUME NEW a \in AlignedKeys, a \in K PROVE Span(a) \subseteq bytes
    <3>1. a = g[1] \/ a = g[2]
      BY <2>5
    <3>2. Span(a) \subseteq ElementBytes(a)
      BY SpanInMemory, SpanInElement
    <3> QED BY <2>3, <3>1, <3>2
  <2>6. K \subseteq AlignedKeys
    BY <2>2
  <2> HIDE DEF K, bytes
  <2> QED BY <1>1, <2>1, <2>4, <2>5, <2>6, WriteSound
<1>7. ASSUME NEW acc \in Accesses, NEW v \in Values, WriteUnseen(acc, v) PROVE Sound(Buffer')
  <2>1. /\ DOMAIN remainingReads = {} /\ pendingWrites = {} /\ Store(BytesOf(acc), v)
        /\ remainingReads' = remainingReads /\ pendingWrites' = pendingWrites
    BY <1>2, <1>7, UnseenWhileRetired DEF WriteUnseen
  <2>2. \A b \in Memory : memory'[b] = IF b \in BytesOf(acc) THEN Clean(v) ELSE memory[b]
    BY <2>1 DEF Store, StoreBytes
  <2>3. \A b \in Memory : "read" \notin memory[b].faults
    BY <2>1 DEF Sound, ReadFaultsCovered, Buffer
  <2>4. \A b \in Memory : "read" \notin memory'[b].faults
    BY <2>2, <2>3 DEF Clean
  <2>5. IsBuffer(Buffer')
    BY <1>1 DEF TypeOK, IsBuffer, IsReads, Buffer
  <2> QED BY <2>1, <2>4, <2>5 DEF Sound, BackupsExact, ReadFaultsCovered, WritesFresh, Buffer
<1>8. ASSUME RetireBuffer PROVE Sound(Buffer')
  BY <1>8, RetireSound
<1>9. ASSUME UNCHANGED <<memory, remainingReads, pendingWrites>> PROVE Sound(Buffer')
  <2>1. Buffer' = Buffer
    BY <1>9 DEF Buffer
  <2> QED BY <2>1 DEF Sound, IsBuffer, BackupsExact, ReadFaultsCovered, WritesFresh
<1>10. ASSUME ReactivateBuffer PROVE Sound(Buffer')
  BY <1>9, <1>10 DEF ReactivateBuffer
<1>11. ASSUME UNCHANGED vars PROVE Sound(Buffer')
  BY <1>9, <1>11 DEF vars
<1> QED BY <1>3, <1>4, <1>5, <1>6, <1>7, <1>8, <1>10, <1>11 DEF Next

MemoryInv == IInv /\ Sound(Buffer)

LEMMA SpecMemoryInv ==
  ASSUME WholeElementAccesses
  PROVE  Spec => []MemoryInv
<1>1. Init => MemoryInv
  BY InitIInv, InitSound DEF MemoryInv
<1>2. MemoryInv /\ [Next]_vars => MemoryInv'
  <2>1. IInv /\ [Next]_vars => IInv'
    BY NextIInv
  <2>2. IInv /\ Sound(Buffer) /\ [Next]_vars => Sound(Buffer')
    BY NextSound
  <2>3. Sound(Buffer') => Sound(Buffer)'
    BY DEF Sound, IsBuffer, BackupsExact, ReadFaultsCovered, WritesFresh, SpanOf
  <2> QED BY <2>1, <2>2, <2>3 DEF MemoryInv
<1> QED BY <1>1, <1>2, PTL DEF Spec

\* For accesses of whole elements, whatever is injected, every read fault in
\* memory is under a backup that differs from the byte in that fault alone.
THEOREM ReadFaultsCanBeReversed ==
  ASSUME WholeElementAccesses
  PROVE  Spec => []ReadFaultsReversible
<1>1. MemoryInv => ReadFaultsReversible
  BY SoundMeans DEF MemoryInv, IInv
<1> QED BY <1>1, SpecMemoryInv, PTL

\* For accesses of whole elements no write is injected twice.
THEOREM NoWriteInjectedTwice ==
  ASSUME WholeElementAccesses
  PROVE  Spec => []WriteInjectedOnce
<1>1. MemoryInv => WriteInjectedOnce
  BY SoundMeans DEF MemoryInv, IInv
<1> QED BY <1>1, SpecMemoryInv, PTL

\* For accesses of whole elements a read with injection off, which restores
\* what it finds at its keys alone, loads no read fault.
THEOREM PreciseReadsAreClean ==
  ASSUME WholeElementAccesses
  PROVE  Spec => PreciseReadIsClean
<1> DEFINE CleanRead == \A acc \in Accesses : Read(acc, FALSE) =>
                          \A b \in BytesOf(acc) : "read" \notin memory'[b].faults
<1>1. ASSUME MemoryInv, NEW acc \in Accesses, Read(acc, FALSE), NEW b \in BytesOf(acc)
      PROVE  "read" \notin memory'[b].faults
  <2>1. PICK wh \in SUBSET SpanOf(AppliedBy(acc)), rh \in ReadHits(FALSE, KeysOf(acc)) :
          Become(AfterRead(Buffer, ReversedBy(acc), AppliedBy(acc), KeysOf(acc), wh, rh))
    BY <1>1 DEF Read
  <2> DEFINE K == KeysOf(acc)
             R == ReversedBy(acc)
             A == AppliedBy(acc)
  <2>2. rh = {}
    BY DEF ReadHits
  <2>3. memory' = AfterRead(Buffer, R, A, K, wh, {}).memory
    BY <2>1, <2>2 DEF Become
  <2>4. K \subseteq AlignedKeys
    BY WholeKeys, HypothesisParts
  <2>5. R \subseteq DOMAIN Buffer.reads /\ K \intersect DOMAIN Buffer.reads \subseteq R
    <3>1. AlignedKeys \intersect (IF IsSIMD(acc) THEN BytesOf(acc) ELSE {acc.address}) = K
      BY WholeKeys, HypothesisParts
    <3> QED BY <3>1 DEF ReversedBy, Buffer
  <2>6. PICK k \in K : b \in ElementBytes(k)
    BY WholeKeys, HypothesisParts
  <2>7. b \in Memory
    BY AccessShape
  <2>8. Sound(Buffer)
    BY <1>1 DEF MemoryInv
  <2> HIDE DEF K, R, A
  <2>9. "read" \notin AfterRead(Buffer, R, A, K, wh, {}).memory[b].faults
    BY <2>4, <2>5, <2>6, <2>7, <2>8, PreciseKeysClean
  <2> QED BY <2>3, <2>9
<1>2. MemoryInv => CleanRead
  BY <1>1
<1>3. MemoryInv => [CleanRead]_vars
  BY <1>2
<1>4. Spec => [][CleanRead]_vars
  BY <1>3, SpecMemoryInv, PTL DEF Spec
<1> QED BY <1>4 DEF PreciseReadIsClean

-----------------------------------------------------------------------------
(***************************************************************************)
(* The refinement.  The state the contract sees, for any memory and maps:  *)
(* since backups are exact and cover every read fault, putting them all    *)
(* back is the same as taking all read faults off.                         *)
(***************************************************************************)
RestoredOf(s) == ReverseFaultyRead(s.memory, s.reads, DOMAIN s.reads)

DatumOf(s, e) ==
  [content |-> [i \in 0 .. (DataSize - 1) |-> RestoredOf(s)[e + i].value],
   faulty  |-> \E b \in ElementBytes(e) : "write" \in RestoredOf(s)[b].faults]

ContentOf(s, e) == [i \in 0 .. (DataSize - 1) |-> s.memory[e + i].value]

WriteFaulty(s, e) == \E b \in ElementBytes(e) : "write" \in s.memory[b].faults

ReadFaulty(s, e) == \E b \in ElementBytes(e) : "read" \in s.memory[b].faults

ExposedIn(s) == {e \in Elements : ReadFaulty(s, e)}

LEMMA ElementShape ==
  ASSUME NEW e \in Elements
  PROVE  /\ e \in Int /\ ~IsMisaligned(e) /\ ElementBytes(e) \subseteq Memory
         /\ e \in AlignedKeys /\ Span(e) \subseteq ElementBytes(e)
         /\ \A i \in 0 .. (DataSize - 1) : e + i \in ElementBytes(e)
<1>1. e \in Memory /\ e \in Int /\ ~IsMisaligned(e) /\ e + DataSize <= FinalAddress
  BY MemoryInt DEF Elements
<1>2. ElementBytes(e) \subseteq Memory /\ \A i \in 0 .. (DataSize - 1) : e + i \in ElementBytes(e)
  BY <1>1, BufferAssumption DEF Memory, ElementBytes
<1>3. Span(e) \subseteq ElementBytes(e)
  BY <1>1, SpanInElement
<1> QED BY <1>1, <1>2, <1>3 DEF AlignedKeys, Keys

LEMMA ElementsDisjoint ==
  ASSUME NEW e \in Elements, NEW f \in Elements, NEW b, b \in ElementBytes(e), b \in ElementBytes(f)
  PROVE  e = f
<1>1. b \in Int
  BY ElementShape, MemoryInt
<1> QED BY <1>1, ElementShape, ElementsApart

\* The data of an element of a sound buffer are what memory holds, the read
\* faults aside.
LEMMA DatumIs ==
  ASSUME NEW s, Sound(s), NEW e \in Elements
  PROVE  DatumOf(s, e) = [content |-> ContentOf(s, e), faulty |-> WriteFaulty(s, e)]
<1>1. ASSUME NEW b \in Memory
      PROVE  /\ RestoredOf(s)[b].value = s.memory[b].value
             /\ "write" \in RestoredOf(s)[b].faults <=> "write" \in s.memory[b].faults
  <2>1. RestoredOf(s)[b] = IF b \in SpanOf(DOMAIN s.reads) THEN WithoutRead(s.memory[b]) ELSE s.memory[b]
    BY RestoreExact DEF RestoredOf
  <2>2. s.memory[b] \in Byte
    BY DEF Sound, IsBuffer
  <2> QED BY <2>1, <2>2 DEF WithoutRead, Byte
<1>2. [i \in 0 .. (DataSize - 1) |-> RestoredOf(s)[e + i].value] = ContentOf(s, e)
  <2>1. \A i \in 0 .. (DataSize - 1) : e + i \in Memory
    BY ElementShape
  <2> QED BY <1>1, <2>1 DEF ContentOf
<1>3. (\E b \in ElementBytes(e) : "write" \in RestoredOf(s)[b].faults) = WriteFaulty(s, e)
  BY <1>1, ElementShape DEF WriteFaulty
<1> QED BY <1>2, <1>3 DEF DatumOf

\* The contract's state, before and after a step.
LEMMA ContractState ==
  /\ [e \in Elements |-> Datum(e)] = [e \in Elements |-> DatumOf(Buffer, e)]
  /\ [e \in Elements |-> Datum(e)]' = [e \in Elements |-> DatumOf(Buffer', e)]
  /\ {e \in Elements : \E b \in ElementBytes(e) : "read" \in memory[b].faults} = ExposedIn(Buffer)
  /\ {e \in Elements : \E b \in ElementBytes(e) : "read" \in memory[b].faults}' = ExposedIn(Buffer')
<1>1. \A e \in Elements : Datum(e) = DatumOf(Buffer, e) /\ Datum(e)' = DatumOf(Buffer', e)
  BY DEF Datum, DatumOf, Restored, RestoredOf, Buffer, ElementBytes
<1> QED BY <1>1 DEF ExposedIn, ReadFaulty, Buffer, ElementBytes

Faulted(d) == [d EXCEPT !.faulty = TRUE]

LEMMA FaultedDatum ==
  ASSUME NEW c, NEW f
  PROVE  Faulted([content |-> c, faulty |-> f]) = [content |-> c, faulty |-> TRUE]
<1>1. \A v : [[content |-> c, faulty |-> f] EXCEPT !.faulty = v] = [content |-> c, faulty |-> v]
  OBVIOUS
<1> QED BY Zenon, <1>1 DEF Faulted

\* What the steps of the contract are for this buffer.
LEMMA ContractRead ==
  ASSUME NEW E \in SUBSET Elements, NEW approximate \in BOOLEAN,
         NEW seen \in IF approximate THEN SUBSET E ELSE {{}},
         ExposedIn(Buffer') = (ExposedIn(Buffer) \ E) \union seen,
         NEW T \in SUBSET pendingWrites, E \intersect pendingWrites \subseteq T,
         NEW hit \in SUBSET T,
         pendingWrites' = pendingWrites \ T,
         \A e \in Elements : DatumOf(Buffer', e) =
           IF e \in hit THEN Faulted(DatumOf(Buffer, e)) ELSE DatumOf(Buffer, e)
  PROVE  Contract!AbsNext
<1> DEFINE data    == [e \in Elements |-> Datum(e)]
           exposed == {e \in Elements : \E b \in ElementBytes(e) : "read" \in memory[b].faults}
<1>1. exposed' = (exposed \ E) \union seen
  BY ContractState
<1>2. data' = [e \in Elements |-> IF e \in hit THEN [data[e] EXCEPT !.faulty = TRUE] ELSE data[e]]
  BY ContractState DEF Faulted
<1>3. Contract!Decide(T, hit)
  BY <1>2 DEF Contract!Decide
<1>4. Contract!AbsRead(E, approximate)
  BY <1>1, <1>3 DEF Contract!AbsRead
<1> QED BY <1>4 DEF Contract!AbsNext

LEMMA ContractWrite ==
  ASSUME NEW E \in SUBSET Elements, NEW v \in Values, NEW approximate \in BOOLEAN,
         ExposedIn(Buffer') = ExposedIn(Buffer) \ E,
         NEW kept \in SUBSET (pendingWrites \intersect E),
         pendingWrites' = IF approximate THEN pendingWrites \union E ELSE (pendingWrites \ E) \union kept,
         \A e \in Elements : DatumOf(Buffer', e) =
           IF e \in E THEN [content |-> [i \in 0 .. (DataSize - 1) |-> v], faulty |-> FALSE]
           ELSE DatumOf(Buffer, e)
  PROVE  Contract!AbsNext
<1> DEFINE data    == [e \in Elements |-> Datum(e)]
           exposed == {e \in Elements : \E b \in ElementBytes(e) : "read" \in memory[b].faults}
           c       == [i \in 0 .. (DataSize - 1) |-> v]
<1>1. exposed' = exposed \ E
  BY ContractState
<1>2. data' = [e \in Elements |-> IF e \in E THEN [content |-> c, faulty |-> FALSE] ELSE data[e]]
  BY ContractState
<1>3. c \in [0 .. (DataSize - 1) -> Values]
  OBVIOUS
<1> HIDE DEF c
<1>4. Contract!AbsWrite(E, c, approximate)
  BY <1>1, <1>2 DEF Contract!AbsWrite
<1> QED BY <1>3, <1>4 DEF Contract!AbsNext

LEMMA ContractRetire ==
  ASSUME ExposedIn(Buffer') = {}, pendingWrites' = {}, NEW hit \in SUBSET pendingWrites,
         \A e \in Elements : DatumOf(Buffer', e) =
           IF e \in hit THEN Faulted(DatumOf(Buffer, e)) ELSE DatumOf(Buffer, e)
  PROVE  Contract!AbsNext
<1> DEFINE data    == [e \in Elements |-> Datum(e)]
           exposed == {e \in Elements : \E b \in ElementBytes(e) : "read" \in memory[b].faults}
<1>1. exposed' = {}
  BY ContractState
<1>2. data' = [e \in Elements |-> IF e \in hit THEN [data[e] EXCEPT !.faulty = TRUE] ELSE data[e]]
  BY ContractState DEF Faulted
<1>3. pendingWrites' = pendingWrites \ pendingWrites
  OBVIOUS
<1>4. Contract!Decide(pendingWrites, hit)
  BY <1>2, <1>3 DEF Contract!Decide
<1>5. Contract!AbsRetire
  BY <1>1, <1>4 DEF Contract!AbsRetire
<1> QED BY <1>5 DEF Contract!AbsNext

\* Records with the same memory and maps have the same data.
SameState(s, t) == s.memory = t.memory /\ s.reads = t.reads /\ s.writes = t.writes

LEMMA SameDatum ==
  ASSUME NEW s, NEW t, SameState(s, t)
  PROVE  /\ \A e \in Elements : DatumOf(s, e) = DatumOf(t, e)
         /\ \A e \in Elements : ReadFaulty(s, e) <=> ReadFaulty(t, e)
BY DEF SameState, DatumOf, RestoredOf, ReadFaulty

-----------------------------------------------------------------------------
(***************************************************************************)
(* One read as the contract sees it: the elements with a hit byte get a    *)
(* write fault, and no element but those read changes its exposure.        *)
(***************************************************************************)
HitElements(wh) == {e \in Elements : \E b \in ElementBytes(e) : b \in wh}

LEMMA HitsAreApplied ==
  ASSUME NEW A, A \subseteq Elements, NEW wh, wh \subseteq SpanOf(A)
  PROVE  HitElements(wh) \subseteq A
<1> SUFFICES ASSUME NEW e \in Elements, NEW b \in ElementBytes(e), b \in wh PROVE e \in A
  BY DEF HitElements
<1>1. PICK a \in A : b \in Span(a)
  BY DEF SpanOf
<1>2. a \in Elements /\ b \in ElementBytes(a)
  BY <1>1, ElementShape
<1>3. a = e
  BY <1>2, ElementsDisjoint
<1> QED BY <1>3

LEMMA ReadDatum ==
  ASSUME NEW s, Sound(s), NEW R, R \subseteq DOMAIN s.reads, NEW A, NEW K, K \subseteq Keys,
         NEW wh, NEW rh, Sound(AfterRead(s, R, A, K, wh, rh)), NEW e \in Elements
  PROVE  DatumOf(AfterRead(s, R, A, K, wh, rh), e) =
           IF e \in HitElements(wh) THEN Faulted(DatumOf(s, e)) ELSE DatumOf(s, e)
<1> DEFINE t == AfterRead(s, R, A, K, wh, rh)
<1>1. ASSUME NEW b \in Memory
      PROVE  /\ t.memory[b].value = s.memory[b].value
             /\ "write" \in t.memory[b].faults <=> "write" \in s.memory[b].faults \/ b \in wh
  <2>1. t.memory[b] = ReadByte(s, R, wh, rh, b)
    BY AfterReadMemory
  <2> HIDE DEF t
  <2> QED BY <2>1 DEF ReadByte, SettledFaults
<1> HIDE DEF t
<1>2. Sound(t)
  BY DEF t
<1>3. /\ DatumOf(t, e) = [content |-> ContentOf(t, e), faulty |-> WriteFaulty(t, e)]
      /\ DatumOf(s, e) = [content |-> ContentOf(s, e), faulty |-> WriteFaulty(s, e)]
  BY <1>2, DatumIs
<1>4. ContentOf(t, e) = ContentOf(s, e)
  BY <1>1, ElementShape DEF ContentOf
<1>5. CASE e \in HitElements(wh)
  <2>1. WriteFaulty(t, e) = TRUE
    BY <1>1, <1>5, ElementShape DEF WriteFaulty, HitElements
  <2>2. DatumOf(t, e) = [content |-> ContentOf(s, e), faulty |-> TRUE]
    BY <1>3, <1>4, <2>1
  <2>3. Faulted(DatumOf(s, e)) = [content |-> ContentOf(s, e), faulty |-> TRUE]
    BY <1>3, FaultedDatum
  <2> QED BY <1>5, <2>2, <2>3 DEF t
<1>6. CASE e \notin HitElements(wh)
  <2>1. WriteFaulty(t, e) = WriteFaulty(s, e)
    BY <1>1, <1>6, ElementShape DEF WriteFaulty, HitElements
  <2> QED BY <1>3, <1>4, <1>6, <2>1 DEF t
<1> QED BY <1>5, <1>6

LEMMA ReadExposed ==
  ASSUME NEW s, Sound(s), NEW K, K \subseteq Elements,
         NEW R, R \subseteq DOMAIN s.reads, R \subseteq K, NEW A,
         NEW wh, NEW rh, rh \subseteq SpanOf(K), NEW e \in Elements, e \notin K
  PROVE  ReadFaulty(AfterRead(s, R, A, K, wh, rh), e) <=> ReadFaulty(s, e)
<1> DEFINE t == AfterRead(s, R, A, K, wh, rh)
<1>1. ASSUME NEW b \in ElementBytes(e)
      PROVE  "read" \in t.memory[b].faults <=> "read" \in s.memory[b].faults
  <2>1. b \in Memory
    BY ElementShape
  <2>2. t.memory[b] = ReadByte(s, R, wh, rh, b)
    <3>1. K \subseteq Keys
      BY ElementShape DEF AlignedKeys
    <3> QED BY <2>1, <3>1, AfterReadMemory
  <2>3. b \notin SpanOf(K)
    <3>1. ASSUME NEW k \in K, b \in Span(k) PROVE FALSE
      <4>1. k \in Elements /\ b \in ElementBytes(k)
        BY <3>1, ElementShape
      <4> QED BY <4>1, ElementsDisjoint
    <3> QED BY <3>1 DEF SpanOf
  <2>4. b \notin rh /\ b \notin SpanOf(R)
    BY <2>3 DEF SpanOf
  <2> HIDE DEF t
  <2> QED BY <2>2, <2>4 DEF ReadByte, SettledFaults
<1> QED BY <1>1 DEF t, ReadFaulty

LEMMA PreciseReadExposed ==
  ASSUME NEW s, Sound(s), NEW K, K \subseteq Elements,
         NEW R, R \subseteq DOMAIN s.reads, K \intersect DOMAIN s.reads \subseteq R, NEW A,
         NEW wh, NEW e \in K
  PROVE  ~ReadFaulty(AfterRead(s, R, A, K, wh, {}), e)
<1>1. K \subseteq AlignedKeys
  BY ElementShape
<1>2. ASSUME NEW b \in ElementBytes(e) PROVE "read" \notin AfterRead(s, R, A, K, wh, {}).memory[b].faults
  <2>1. b \in Memory
    BY ElementShape
  <2> QED BY <1>1, <2>1, PreciseKeysClean
<1> QED BY <1>2 DEF ReadFaulty

-----------------------------------------------------------------------------
(***************************************************************************)
(* The maps hold whole elements only.                                      *)
(***************************************************************************)
KeysInElements == DOMAIN remainingReads \subseteq Elements /\ pendingWrites \subseteq Elements

LEMMA ElementKeys ==
  ASSUME WholeElementAccesses, NEW acc \in Accesses
  PROVE  KeysOf(acc) \subseteq Elements
<1> SUFFICES ASSUME NEW k \in KeysOf(acc) PROVE k \in Elements
  OBVIOUS
<1>1. k \in AlignedKeys /\ ElementBytes(k) \subseteq BytesOf(acc)
  BY WholeKeys, HypothesisParts
<1>2. BytesOf(acc) \subseteq Memory
  BY AccessShape
<1>3. k \in Int /\ k \in Memory
  BY <1>1, SpanInMemory
<1>4. k + (DataSize - 1) \in ElementBytes(k)
  BY <1>3, BufferAssumption DEF ElementBytes
<1>5. k + (DataSize - 1) \in Memory
  BY <1>1, <1>2, <1>4
<1>6. k + DataSize <= FinalAddress
  BY <1>3, <1>5, BufferAssumption DEF Memory
<1> QED BY <1>1, <1>3, <1>6 DEF Elements, AlignedKeys

LEMMA ElementGatherKeys ==
  ASSUME WholeElementAccesses, NEW g \in Gathers
  PROVE  g[1] \in Elements /\ g[2] \in Elements
<1> SUFFICES ASSUME NEW i \in 1 .. 2 PROVE g[i] \in Elements
  OBVIOUS
<1>1. g[i] \in Memory /\ g[i] .. (g[i] + DataSize - 1) \subseteq Memory /\ ~IsMisaligned(g[i])
  BY GathersAssumption DEF WholeElementAccesses, AlignedAccesses
<1>2. g[i] \in Int
  BY <1>1, MemoryInt
<1>3. g[i] + DataSize - 1 \in Memory
  BY <1>1, <1>2, BufferAssumption
<1>4. g[i] + DataSize <= FinalAddress
  BY <1>2, <1>3, BufferAssumption DEF Memory
<1> QED BY <1>1, <1>4 DEF Elements

\* The arguments with which the read handlers call AfterRead.
Reading(s, K, R, A, wh, rh) ==
  /\ K \subseteq Elements
  /\ R = K \intersect DOMAIN s.reads
  /\ A \subseteq s.writes /\ K \intersect s.writes \subseteq A
  /\ wh \subseteq SpanOf(A) /\ rh \subseteq SpanOf(K)

\* What such a read makes of s.
ReadsAs(t, s, K, A, wh, rh) ==
  /\ Sound(t)
  /\ t.writes = s.writes \ A
  /\ DOMAIN t.reads \subseteq Elements
  /\ HitElements(wh) \subseteq A
  /\ \A e \in Elements : DatumOf(t, e) =
       IF e \in HitElements(wh) THEN Faulted(DatumOf(s, e)) ELSE DatumOf(s, e)
  /\ \A e \in Elements \ K : ReadFaulty(t, e) <=> ReadFaulty(s, e)
  /\ rh = {} => \A e \in K : ~ReadFaulty(t, e)

LEMMA ReadingElements ==
  ASSUME NEW s, Sound(s), s.writes \subseteq Elements, DOMAIN s.reads \subseteq Elements,
         NEW K, NEW R, NEW A, NEW wh, NEW rh, Reading(s, K, R, A, wh, rh)
  PROVE  ReadsAs(AfterRead(s, R, A, K, wh, rh), s, K, A, wh, rh)
<1> DEFINE t == AfterRead(s, R, A, K, wh, rh)
<1>1. /\ K \subseteq Elements /\ K \subseteq AlignedKeys /\ K \subseteq Keys
      /\ R \subseteq DOMAIN s.reads /\ R \subseteq K /\ K \intersect DOMAIN s.reads \subseteq R
      /\ A \subseteq s.writes /\ K \intersect s.writes \subseteq A /\ A \subseteq Elements
      /\ wh \subseteq SpanOf(A) /\ rh \subseteq SpanOf(K)
  BY ElementShape DEF Reading, AlignedKeys
<1>2. Sound(t)
  BY <1>1, AfterReadSound
<1>3. DOMAIN t.reads \subseteq Elements /\ t.writes = s.writes \ A
  <2>1. IsBuffer(s)
    BY DEF Sound
  <2>2. IsRead(t, s, R, A, K)
    BY <1>1, <2>1, AfterReadType
  <2> HIDE DEF t
  <2> QED BY <1>1, <2>2 DEF IsRead
<1>4. HitElements(wh) \subseteq A
  BY <1>1, HitsAreApplied
<1>5. ASSUME NEW e \in Elements
      PROVE  DatumOf(t, e) = IF e \in HitElements(wh) THEN Faulted(DatumOf(s, e)) ELSE DatumOf(s, e)
  BY <1>1, <1>2, ReadDatum
<1>6. ASSUME NEW e \in Elements \ K PROVE ReadFaulty(t, e) <=> ReadFaulty(s, e)
  BY <1>1, ReadExposed
<1>7. ASSUME rh = {}, NEW e \in K PROVE ~ReadFaulty(t, e)
  BY <1>1, <1>7, PreciseReadExposed
<1> HIDE DEF t
<1> QED BY <1>2, <1>3, <1>4, <1>5, <1>6, <1>7 DEF ReadsAs, t

ContractInv == MemoryInv /\ KeysInElements

LEMMA ReadStepRefines ==
  ASSUME WholeElementAccesses, ContractInv, NEW acc \in Accesses, NEW inject \in BOOLEAN, Read(acc, inject)
  PROVE  Contract!AbsNext /\ KeysInElements'
<1>1. PICK wh \in SUBSET SpanOf(AppliedBy(acc)), rh \in ReadHits(inject, KeysOf(acc)) :
        Become(AfterRead(Buffer, ReversedBy(acc), AppliedBy(acc), KeysOf(acc), wh, rh))
  BY DEF Read
<1> DEFINE K == KeysOf(acc)
           R == ReversedBy(acc)
           A == AppliedBy(acc)
           t == AfterRead(Buffer, R, A, K, wh, rh)
           hit == HitElements(wh)
           seen == ExposedIn(Buffer') \intersect K
<1>2. Sound(Buffer) /\ Buffer.writes \subseteq Elements /\ DOMAIN Buffer.reads \subseteq Elements /\ IInv
  BY DEF ContractInv, MemoryInv, KeysInElements, Buffer
<1>3. Reading(Buffer, K, R, A, wh, rh)
  <2>1. K \subseteq Elements
    BY ElementKeys
  <2>2. R = K \intersect DOMAIN Buffer.reads
    <3>1. AlignedKeys \intersect (IF IsSIMD(acc) THEN BytesOf(acc) ELSE {acc.address}) = K
      BY WholeKeys, HypothesisParts
    <3>2. DOMAIN Buffer.reads \subseteq AlignedKeys
      BY <1>2 DEF Sound
    <3> QED BY <3>1, <3>2 DEF ReversedBy, Buffer
  <2>3. A \subseteq Buffer.writes /\ K \intersect Buffer.writes \subseteq A
    BY <1>2, AppliedSubset, AppliedCoversKeys DEF IInv, TypeOK, Buffer
  <2>4. wh \subseteq SpanOf(A) /\ rh \subseteq SpanOf(K)
    BY ReadHitsInSpans
  <2> QED BY <2>1, <2>2, <2>3, <2>4 DEF Reading
<1>4. Become(t) /\ (~inject => rh = {})
  BY <1>1 DEF ReadHits
<1> HIDE DEF K, R, A
<1>5. /\ t.writes = Buffer.writes \ A /\ DOMAIN t.reads \subseteq Elements /\ hit \subseteq A
      /\ \A e \in Elements : DatumOf(t, e) =
           IF e \in hit THEN Faulted(DatumOf(Buffer, e)) ELSE DatumOf(Buffer, e)
      /\ \A e \in Elements \ K : ReadFaulty(t, e) <=> ReadFaulty(Buffer, e)
      /\ rh = {} => \A e \in K : ~ReadFaulty(t, e)
  <2>1. ReadsAs(t, Buffer, K, A, wh, rh)
    BY <1>2, <1>3, ReadingElements
  <2> HIDE DEF t
  <2> QED BY <2>1 DEF ReadsAs
<1> HIDE DEF t, hit
<1>6. SameState(Buffer', t)
  BY <1>4 DEF Become, Buffer, SameState
<1>7. /\ \A e \in Elements : DatumOf(Buffer', e) = DatumOf(t, e)
      /\ \A e \in Elements : ReadFaulty(Buffer', e) <=> ReadFaulty(t, e)
  BY <1>6, SameDatum
<1>8. K \in SUBSET Elements /\ A \in SUBSET pendingWrites /\ K \intersect pendingWrites \subseteq A
  BY <1>3 DEF Reading, Buffer
<1>9. pendingWrites' = pendingWrites \ A
  BY <1>4, <1>5 DEF Become, Buffer
<1>10. ExposedIn(Buffer') = (ExposedIn(Buffer) \ K) \union seen
  BY <1>5, <1>7, <1>8 DEF ExposedIn
<1>11. seen \in IF inject THEN SUBSET K ELSE {{}}
  <2>1. seen \subseteq K
    OBVIOUS
  <2>2. ~inject => seen = {}
    BY <1>4, <1>5, <1>7, <1>8 DEF ExposedIn
  <2> QED BY <2>1, <2>2
<1>12. \A e \in Elements : DatumOf(Buffer', e) =
           IF e \in hit THEN Faulted(DatumOf(Buffer, e)) ELSE DatumOf(Buffer, e)
  BY <1>5, <1>7
<1>13. hit \in SUBSET A
  BY <1>5
<1> HIDE DEF seen
<1>14. Contract!AbsNext
  BY <1>8, <1>9, <1>10, <1>11, <1>12, <1>13, ContractRead
<1>15. KeysInElements'
  BY <1>2, <1>4, <1>5, <1>9 DEF KeysInElements, Become, Buffer
<1> QED BY <1>14, <1>15

LEMMA ReadElementReading ==
  ASSUME NEW s, Sound(s), NEW a \in Elements,
         NEW wh \in SUBSET SpanOf(LowerBound(s.writes, a)), NEW rh, rh \subseteq SpanOf({a})
  PROVE  Reading(s, {a}, DOMAIN s.reads \intersect {a}, LowerBound(s.writes, a), wh, rh)
<1>1. {a} \intersect s.writes \subseteq LowerBound(s.writes, a)
  <2>1. a \in Int
    BY ElementShape
  <2>2. s.writes \subseteq Int
    BY MemoryInt DEF Sound, AlignedKeys, Keys
  <2> QED BY <2>1, <2>2, LowerBoundFinds
<1> QED BY <1>1, LowerBoundSubset DEF Reading

\* The iterations of a scattered read are one read of the contract: an element
\* hit in the second is not decided in the first, and an element that is not
\* hit by the second keeps what the first exposed.
LEMMA ReadScatteredStepRefines ==
  ASSUME WholeElementAccesses, ContractInv, NEW g \in Gathers, NEW inject \in BOOLEAN, ReadScattered(g, inject)
  PROVE  Contract!AbsNext /\ KeysInElements'
<1>1. PICK w1 \in SUBSET SpanOf(LowerBound(pendingWrites, g[1])), r1 \in ReadHits(inject, {g[1]}) :
        LET s == ReadElement(Buffer, g[1], w1, r1) IN
        \E w2 \in SUBSET SpanOf(LowerBound(s.writes, g[2])), r2 \in ReadHits(inject, {g[2]}) :
          Become(ReadElement(s, g[2], w2, r2))
  BY DEF ReadScattered
<1> DEFINE s  == ReadElement(Buffer, g[1], w1, r1)
<1>2. PICK w2 \in SUBSET SpanOf(LowerBound(s.writes, g[2])), r2 \in ReadHits(inject, {g[2]}) :
        Become(ReadElement(s, g[2], w2, r2))
  BY <1>1
<1> DEFINE t  == ReadElement(s, g[2], w2, r2)
           A1 == LowerBound(Buffer.writes, g[1])
           A2 == LowerBound(s.writes, g[2])
           R1 == DOMAIN Buffer.reads \intersect {g[1]}
           R2 == DOMAIN s.reads \intersect {g[2]}
           K  == {g[1], g[2]}
           T  == A1 \union A2
           h1 == HitElements(w1)
           h2 == HitElements(w2)
           seen == ExposedIn(Buffer') \intersect K
<1>3. Sound(Buffer) /\ Buffer.writes \subseteq Elements /\ DOMAIN Buffer.reads \subseteq Elements
  BY DEF ContractInv, MemoryInv, KeysInElements, Buffer
<1>4. g[1] \in Elements /\ g[2] \in Elements
  BY ElementGatherKeys
<1>5. r1 \subseteq SpanOf({g[1]}) /\ r2 \subseteq SpanOf({g[2]}) /\ (~inject => r1 = {} /\ r2 = {})
  BY ReadHitsInSpans DEF ReadHits
<1>6. /\ Sound(s) /\ s.writes = Buffer.writes \ A1 /\ DOMAIN s.reads \subseteq Elements /\ h1 \subseteq A1
      /\ \A e \in Elements : DatumOf(s, e) =
           IF e \in h1 THEN Faulted(DatumOf(Buffer, e)) ELSE DatumOf(Buffer, e)
      /\ \A e \in Elements \ {g[1]} : ReadFaulty(s, e) <=> ReadFaulty(Buffer, e)
      /\ r1 = {} => ~ReadFaulty(s, g[1])
  <2>1. w1 \in SUBSET SpanOf(A1)
    BY DEF Buffer
  <2>2. Reading(Buffer, {g[1]}, R1, A1, w1, r1)
    BY <1>3, <1>4, <1>5, <2>1, ReadElementReading
  <2>3. s = AfterRead(Buffer, R1, A1, {g[1]}, w1, r1)
    BY DEF ReadElement
  <2> HIDE DEF R1, A1, s, h1
  <2>4. ReadsAs(s, Buffer, {g[1]}, A1, w1, r1)
    BY <1>3, <2>2, <2>3, ReadingElements
  <2> QED BY <2>4 DEF ReadsAs, h1
<1>7. s.writes \subseteq Elements
  BY <1>3, <1>6
<1> HIDE DEF s, A1, R1, h1
<1>8. /\ t.writes = s.writes \ A2 /\ DOMAIN t.reads \subseteq Elements /\ h2 \subseteq A2 /\ A2 \subseteq s.writes
      /\ g[2] \in s.writes => g[2] \in A2
      /\ \A e \in Elements : DatumOf(t, e) =
           IF e \in h2 THEN Faulted(DatumOf(s, e)) ELSE DatumOf(s, e)
      /\ \A e \in Elements \ {g[2]} : ReadFaulty(t, e) <=> ReadFaulty(s, e)
      /\ r2 = {} => ~ReadFaulty(t, g[2])
  <2>2. Reading(s, {g[2]}, R2, A2, w2, r2)
    BY <1>4, <1>5, <1>6, ReadElementReading
  <2>3. t = AfterRead(s, R2, A2, {g[2]}, w2, r2)
    BY DEF ReadElement
  <2>5. A2 \subseteq s.writes /\ (g[2] \in s.writes => g[2] \in A2)
    BY <2>2 DEF Reading
  <2> HIDE DEF R2, A2, t, h2
  <2>4. ReadsAs(t, s, {g[2]}, A2, w2, r2)
    BY <1>6, <1>7, <2>2, <2>3, ReadingElements
  <2> QED BY <2>4, <2>5 DEF ReadsAs, h2
<1>9. A1 \subseteq Buffer.writes /\ (g[1] \in Buffer.writes => g[1] \in A1)
  <2>1. Reading(Buffer, {g[1]}, R1, A1, {}, {})
    BY <1>3, <1>4, ReadElementReading DEF R1, A1
  <2> QED BY <2>1 DEF Reading
<1> HIDE DEF A2, R2, h2
<1>10. Become(t)
  BY <1>2
<1> HIDE DEF t
<1>11. SameState(Buffer', t)
  BY <1>10 DEF Become, Buffer, SameState
<1>12. /\ \A e \in Elements : DatumOf(Buffer', e) = DatumOf(t, e)
       /\ \A e \in Elements : ReadFaulty(Buffer', e) <=> ReadFaulty(t, e)
  BY <1>11, SameDatum
<1>13. K \in SUBSET Elements /\ T \in SUBSET pendingWrites /\ K \intersect pendingWrites \subseteq T
  BY <1>4, <1>6, <1>8, <1>9 DEF Buffer
<1>14. pendingWrites' = pendingWrites \ T
  BY <1>6, <1>8, <1>10 DEF Become, Buffer
<1>15. \A e \in Elements \ K : ReadFaulty(Buffer', e) <=> ReadFaulty(Buffer, e)
  BY <1>6, <1>8, <1>12
<1>16. ~inject => \A e \in K : ~ReadFaulty(Buffer', e)
  <2>1. CASE g[1] = g[2]
    BY <1>4, <1>5, <1>8, <1>12, <2>1
  <2>2. CASE g[1] # g[2]
    BY <1>4, <1>5, <1>6, <1>8, <1>12, <2>2
  <2> QED BY <2>1, <2>2
<1>17. ExposedIn(Buffer') = (ExposedIn(Buffer) \ K) \union seen
  BY <1>13, <1>15 DEF ExposedIn
<1>18. seen \in IF inject THEN SUBSET K ELSE {{}}
  <2>1. seen \subseteq K
    OBVIOUS
  <2>2. ~inject => seen = {}
    BY <1>16 DEF ExposedIn
  <2> QED BY <2>1, <2>2
<1>19. \A e \in Elements : DatumOf(Buffer', e) =
           IF e \in h1 \union h2 THEN Faulted(DatumOf(Buffer, e)) ELSE DatumOf(Buffer, e)
  <2> SUFFICES ASSUME NEW e \in Elements
               PROVE  DatumOf(Buffer', e) =
                        IF e \in h1 \union h2 THEN Faulted(DatumOf(Buffer, e)) ELSE DatumOf(Buffer, e)
    OBVIOUS
  <2>1. e \in h2 => e \notin h1
    BY <1>6, <1>8
  <2> QED BY <1>6, <1>8, <1>12, <2>1
<1>20. h1 \union h2 \in SUBSET T
  BY <1>6, <1>8
<1> HIDE DEF seen, K, T
<1>21. Contract!AbsNext
  BY <1>13, <1>14, <1>17, <1>18, <1>19, <1>20, ContractRead
<1>22. KeysInElements'
  BY <1>7, <1>8, <1>10 DEF KeysInElements, Become, Buffer
<1> QED BY <1>21, <1>22

-----------------------------------------------------------------------------
(***************************************************************************)
(* Writes, retirement and the theorem.                                     *)
(***************************************************************************)
\* The bytes of the elements in K, and of no other element.
Covers(bytes, K) ==
  /\ K \subseteq Elements
  /\ \A e \in K : ElementBytes(e) \subseteq bytes
  /\ \A b \in bytes : \E e \in K : b \in ElementBytes(e)

LEMMA StoreRefines ==
  ASSUME Sound(Buffer), Sound(Buffer'), NEW bytes, NEW K, Covers(bytes, K), NEW v \in Values, Store(bytes, v)
  PROVE  /\ ExposedIn(Buffer') = ExposedIn(Buffer) \ K
         /\ \A e \in Elements : DatumOf(Buffer', e) =
              IF e \in K THEN [content |-> [i \in 0 .. (DataSize - 1) |-> v], faulty |-> FALSE]
              ELSE DatumOf(Buffer, e)
<1>1. \A b \in Memory : Buffer'.memory[b] = IF b \in bytes THEN Clean(v) ELSE Buffer.memory[b]
  BY DEF Store, StoreBytes, Buffer
<1>2. ASSUME NEW e \in Elements, e \notin K
      PROVE  \A b \in ElementBytes(e) : b \in Memory /\ Buffer'.memory[b] = Buffer.memory[b]
  <2>1. ASSUME NEW b \in ElementBytes(e), b \in bytes PROVE FALSE
    <3>1. PICK f \in K : b \in ElementBytes(f)
      BY <2>1 DEF Covers
    <3>2. f = e
      BY <3>1, ElementsDisjoint DEF Covers
    <3> QED BY <1>2, <3>2
  <2> QED BY <1>1, <2>1, ElementShape
<1>3. ASSUME NEW e \in K
      PROVE  \A b \in ElementBytes(e) : b \in Memory /\ Buffer'.memory[b] = Clean(v)
  BY <1>1, ElementShape DEF Covers
<1>4. ASSUME NEW e \in Elements
      PROVE  /\ DatumOf(Buffer', e) = [content |-> ContentOf(Buffer', e), faulty |-> WriteFaulty(Buffer', e)]
             /\ DatumOf(Buffer, e) = [content |-> ContentOf(Buffer, e), faulty |-> WriteFaulty(Buffer, e)]
  BY DatumIs
<1>5. ASSUME NEW e \in Elements, e \notin K
      PROVE  DatumOf(Buffer', e) = DatumOf(Buffer, e) /\ (ReadFaulty(Buffer', e) <=> ReadFaulty(Buffer, e))
  <2>1. ContentOf(Buffer', e) = ContentOf(Buffer, e)
    BY <1>2, <1>5, ElementShape DEF ContentOf
  <2>2. WriteFaulty(Buffer', e) = WriteFaulty(Buffer, e)
    BY <1>2, <1>5 DEF WriteFaulty
  <2>3. ReadFaulty(Buffer', e) <=> ReadFaulty(Buffer, e)
    BY <1>2, <1>5 DEF ReadFaulty
  <2> QED BY <1>4, <2>1, <2>2, <2>3
<1>6. ASSUME NEW e \in K
      PROVE  /\ DatumOf(Buffer', e) = [content |-> [i \in 0 .. (DataSize - 1) |-> v], faulty |-> FALSE]
             /\ ~ReadFaulty(Buffer', e)
  <2>0. e \in Elements
    BY DEF Covers
  <2>1. ContentOf(Buffer', e) = [i \in 0 .. (DataSize - 1) |-> v]
    BY <1>3, <2>0, ElementShape DEF ContentOf, Clean
  <2>2. WriteFaulty(Buffer', e) = FALSE /\ ~ReadFaulty(Buffer', e)
    BY <1>3 DEF WriteFaulty, ReadFaulty, Clean
  <2> QED BY <1>4, <2>0, <2>1, <2>2
<1>7. ExposedIn(Buffer') = ExposedIn(Buffer) \ K
  BY <1>5, <1>6 DEF ExposedIn
<1> QED BY <1>5, <1>6, <1>7

LEMMA AccessCovers ==
  ASSUME WholeElementAccesses, NEW acc \in Accesses
  PROVE  Covers(BytesOf(acc), KeysOf(acc))
BY WholeKeys, HypothesisParts, ElementKeys DEF Covers

LEMMA GatherCovers ==
  ASSUME WholeElementAccesses, NEW g \in Gathers
  PROVE  Covers(g[1] .. (g[1] + DataSize - 1) \union g[2] .. (g[2] + DataSize - 1), {g[1], g[2]})
BY ElementGatherKeys, GatherBytes DEF Covers

LEMMA WriteRefines ==
  ASSUME Sound(Buffer), Sound(Buffer'), KeysInElements, NEW bytes, NEW K, Covers(bytes, K), NEW I,
         NEW v \in Values, NEW inject \in BOOLEAN, RecordWrite(I, K, inject), Store(bytes, v)
  PROVE  Contract!AbsNext /\ KeysInElements'
<1> DEFINE kept == pendingWrites \intersect K
<1>1. /\ ExposedIn(Buffer') = ExposedIn(Buffer) \ K
      /\ \A e \in Elements : DatumOf(Buffer', e) =
           IF e \in K THEN [content |-> [i \in 0 .. (DataSize - 1) |-> v], faulty |-> FALSE]
           ELSE DatumOf(Buffer, e)
  BY StoreRefines
<1>2. K \in SUBSET Elements
  BY DEF Covers
<1>3. pendingWrites' = IF inject THEN pendingWrites \union K ELSE (pendingWrites \ K) \union kept
  BY DEF RecordWrite
<1>4. kept \in SUBSET (pendingWrites \intersect K)
  OBVIOUS
<1> HIDE DEF kept
<1>5. Contract!AbsNext
  BY <1>1, <1>2, <1>3, <1>4, ContractWrite
<1>6. KeysInElements'
  BY <1>2 DEF KeysInElements, RecordWrite, Drop
<1> QED BY <1>5, <1>6

LEMMA UnseenRefines ==
  ASSUME WholeElementAccesses, ContractInv, Sound(Buffer'),
         NEW acc \in Accesses, NEW v \in Values, WriteUnseen(acc, v)
  PROVE  Contract!AbsNext /\ KeysInElements'
<1> DEFINE K == KeysOf(acc)
           kept == {}
           inject == FALSE
<1>1. /\ Store(BytesOf(acc), v) /\ pendingWrites = {} /\ pendingWrites' = {}
      /\ remainingReads' = remainingReads
  BY UnseenWhileRetired DEF WriteUnseen, WholeElementAccesses, ContractInv, MemoryInv
<1>2. Sound(Buffer) /\ Covers(BytesOf(acc), K)
  BY AccessCovers DEF ContractInv, MemoryInv
<1>3. /\ ExposedIn(Buffer') = ExposedIn(Buffer) \ K
      /\ \A e \in Elements : DatumOf(Buffer', e) =
           IF e \in K THEN [content |-> [i \in 0 .. (DataSize - 1) |-> v], faulty |-> FALSE]
           ELSE DatumOf(Buffer, e)
  <2> HIDE DEF K
  <2> QED BY <1>1, <1>2, StoreRefines
<1>4. K \in SUBSET Elements
  BY <1>2 DEF Covers
<1>5. /\ pendingWrites' = IF inject THEN pendingWrites \union K ELSE (pendingWrites \ K) \union kept
      /\ kept \in SUBSET (pendingWrites \intersect K) /\ inject \in BOOLEAN
  BY <1>1
<1> HIDE DEF K, kept, inject
<1>6. Contract!AbsNext
  BY <1>3, <1>4, <1>5, ContractWrite
<1>7. KeysInElements'
  BY <1>1 DEF KeysInElements, ContractInv
<1> QED BY <1>6, <1>7

LEMMA RetireRefines ==
  ASSUME ContractInv, RetireBuffer
  PROVE  Contract!AbsNext /\ KeysInElements'
<1>1. PICK wh \in SUBSET SpanOf(pendingWrites) :
        Become(AfterRead(Buffer, DOMAIN remainingReads, pendingWrites, {}, wh, {}))
  BY DEF RetireBuffer
<1> DEFINE R == DOMAIN remainingReads
           A == pendingWrites
           K == {}
           rh == {}
           t == AfterRead(Buffer, R, A, K, wh, rh)
           hit == HitElements(wh)
<1>2. /\ Sound(Buffer) /\ R \subseteq DOMAIN Buffer.reads /\ K \intersect DOMAIN Buffer.reads \subseteq R
      /\ A \subseteq Buffer.writes /\ K \intersect Buffer.writes \subseteq A /\ A \subseteq Elements
      /\ K \subseteq AlignedKeys /\ K \subseteq Keys /\ wh \subseteq SpanOf(A) /\ rh \subseteq SpanOf(K)
  BY DEF Buffer, ContractInv, MemoryInv, KeysInElements
<1>3. DOMAIN remainingReads' = {} /\ pendingWrites' = {}
  BY RetireStep DEF ContractInv, MemoryInv, IInv
<1>4. Become(t)
  BY <1>1
<1> HIDE DEF R, A, K, rh
<1>5. Sound(t)
  BY <1>2, AfterReadSound
<1>6. ASSUME NEW e \in Elements
      PROVE  DatumOf(t, e) = IF e \in hit THEN Faulted(DatumOf(Buffer, e)) ELSE DatumOf(Buffer, e)
  BY <1>2, <1>5, ReadDatum
<1>7. hit \in SUBSET pendingWrites
  BY <1>2, HitsAreApplied DEF A
<1> HIDE DEF t, hit
<1>8. SameState(Buffer', t)
  BY <1>4 DEF Become, Buffer, SameState
<1>9. \A e \in Elements : DatumOf(Buffer', e) =
        IF e \in hit THEN Faulted(DatumOf(Buffer, e)) ELSE DatumOf(Buffer, e)
  BY <1>6, <1>8, SameDatum
<1>10. ExposedIn(Buffer') = {}
  <2>1. \A b \in Memory : "read" \notin t.memory[b].faults
    BY <1>3, <1>4, <1>5 DEF Sound, ReadFaultsCovered, Become
  <2> QED BY <1>4, <2>1, ElementShape DEF ExposedIn, ReadFaulty, Become, Buffer
<1>11. Contract!AbsNext
  BY <1>3, <1>7, <1>9, <1>10, ContractRetire
<1> QED BY <1>3, <1>11 DEF KeysInElements

LEMMA InitRefines == Init => Contract!AbsInit /\ KeysInElements
<1> SUFFICES ASSUME Init PROVE Contract!AbsInit /\ KeysInElements
  OBVIOUS
<1> DEFINE data    == [e \in Elements |-> Datum(e)]
           exposed == {e \in Elements : \E b \in ElementBytes(e) : "read" \in memory[b].faults}
<1>1. DOMAIN remainingReads = {} /\ pendingWrites = {} /\ stored \in [Memory -> Values]
  BY DEF Init, NoReads
<1>2. ASSUME NEW b \in Memory
      PROVE  memory[b].value = stored[b] /\ memory[b].faults = {} /\ stored[b] \in Values
  <2>1. memory[b] = Clean(stored[b])
    BY DEF Init
  <2> QED BY <1>1, <2>1 DEF Clean
<1>3. Sound(Buffer)
  BY InitSound
<1>4. ASSUME NEW e \in Elements, NEW b \in ElementBytes(e) PROVE b \in Memory /\ memory[b].faults = {}
  BY <1>2, ElementShape
<1>5. exposed = {}
  BY <1>4
<1>6. ASSUME NEW e \in Elements
      PROVE  /\ data[e] = [content |-> ContentOf(Buffer, e), faulty |-> WriteFaulty(Buffer, e)]
             /\ ContentOf(Buffer, e) \in [0 .. (DataSize - 1) -> Values]
             /\ WriteFaulty(Buffer, e) = FALSE
  <2>1. Datum(e) = DatumOf(Buffer, e)
    BY DEF Datum, DatumOf, Restored, RestoredOf, Buffer, ElementBytes
  <2>2. DatumOf(Buffer, e) = [content |-> ContentOf(Buffer, e), faulty |-> WriteFaulty(Buffer, e)]
    BY <1>3, DatumIs
  <2>3. Buffer.memory = memory
    BY DEF Buffer
  <2>4. ASSUME NEW i \in 0 .. (DataSize - 1) PROVE memory[e + i].value \in Values
    <3>1. e + i \in Memory
      BY ElementShape
    <3> HIDE <1>1
    <3>2. memory[e + i].value = stored[e + i] /\ stored[e + i] \in Values
      BY <1>2, <3>1
    <3> QED BY <3>2
  <2>5. ContentOf(Buffer, e) \in [0 .. (DataSize - 1) -> Values]
    BY <2>3, <2>4 DEF ContentOf
  <2>6. WriteFaulty(Buffer, e) = FALSE
    BY <1>4, <2>3 DEF WriteFaulty
  <2> QED BY <2>1, <2>2, <2>5, <2>6
<1>7. ASSUME NEW e \in Elements
      PROVE  data[e] \in [content : [0 .. (DataSize - 1) -> Values], faulty : {FALSE}]
  <2> DEFINE c == ContentOf(Buffer, e)
             C == [0 .. (DataSize - 1) -> Values]
  <2>1. data[e] = [content |-> c, faulty |-> FALSE] /\ c \in C
    <3> HIDE DEF data
    <3> QED BY <1>6
  <2> HIDE DEF data, c, C
  <2>2. [content |-> c, faulty |-> FALSE] \in [content : C, faulty : {FALSE}]
    BY <2>1
  <2> QED BY <2>1, <2>2 DEF C
<1>8. data \in [Elements -> [content : [0 .. (DataSize - 1) -> Values], faulty : {FALSE}]]
  BY <1>7
<1> HIDE DEF data, exposed
<1>9. Contract!AbsInit
  BY <1>1, <1>5, <1>8 DEF Contract!AbsInit, data, exposed
<1> QED BY <1>1, <1>9 DEF KeysInElements

LEMMA Stutters ==
  ASSUME ContractInv, UNCHANGED <<memory, remainingReads, pendingWrites>>
  PROVE  UNCHANGED Contract!absVars /\ KeysInElements'
<1>1. \A e \in Elements : Datum(e)' = Datum(e)
  BY DEF Datum, Restored
<1>2. UNCHANGED Contract!absVars
  BY <1>1 DEF Contract!absVars
<1> QED BY <1>2 DEF ContractInv, KeysInElements

LEMMA StepRefines ==
  ASSUME WholeElementAccesses
  PROVE  ContractInv /\ [Next]_vars => [Contract!AbsNext]_(Contract!absVars) /\ KeysInElements'
<1> SUFFICES ASSUME ContractInv, [Next]_vars
             PROVE  [Contract!AbsNext]_(Contract!absVars) /\ KeysInElements'
  OBVIOUS
<1>1. Sound(Buffer) /\ Sound(Buffer') /\ KeysInElements
  BY NextSound DEF ContractInv, MemoryInv
<1>2. ASSUME NEW acc \in Accesses, NEW inject \in BOOLEAN, Read(acc, inject)
      PROVE  Contract!AbsNext /\ KeysInElements'
  BY <1>2, ReadStepRefines
<1>3. ASSUME NEW g \in Gathers, NEW inject \in BOOLEAN, ReadScattered(g, inject)
      PROVE  Contract!AbsNext /\ KeysInElements'
  BY <1>3, ReadScatteredStepRefines
<1>4. ASSUME NEW acc \in Accesses, NEW v \in Values, NEW inject \in BOOLEAN, Write(acc, v, inject)
      PROVE  Contract!AbsNext /\ KeysInElements'
  <2> DEFINE I == IF IsSIMD(acc) THEN BytesOf(acc) ELSE {acc.address}
             K == KeysOf(acc)
             bytes == BytesOf(acc)
  <2>1. RecordWrite(I, K, inject) /\ Store(bytes, v)
    BY <1>4 DEF Write
  <2>2. Covers(bytes, K)
    BY AccessCovers
  <2> HIDE DEF I, K, bytes
  <2> QED BY <1>1, <2>1, <2>2, WriteRefines
<1>5. ASSUME NEW g \in Gathers, NEW v \in Values, NEW inject \in BOOLEAN, WriteScattered(g, v, inject)
      PROVE  Contract!AbsNext /\ KeysInElements'
  <2> DEFINE K == {g[1], g[2]}
             bytes == g[1] .. (g[1] + DataSize - 1) \union g[2] .. (g[2] + DataSize - 1)
  <2>1. RecordWrite(K, K, inject) /\ Store(bytes, v)
    BY <1>5 DEF WriteScattered
  <2>2. Covers(bytes, K)
    BY GatherCovers
  <2> HIDE DEF K, bytes
  <2> QED BY <1>1, <2>1, <2>2, WriteRefines
<1>6. ASSUME NEW acc \in Accesses, NEW v \in Values, WriteUnseen(acc, v)
      PROVE  Contract!AbsNext /\ KeysInElements'
  BY <1>1, <1>6, UnseenRefines
<1>7. ASSUME RetireBuffer PROVE Contract!AbsNext /\ KeysInElements'
  BY <1>7, RetireRefines
<1>8. ASSUME ReactivateBuffer \/ UNCHANGED vars
      PROVE  UNCHANGED Contract!absVars /\ KeysInElements'
  BY <1>8, Stutters DEF ReactivateBuffer, vars
<1> QED BY <1>2, <1>3, <1>4, <1>5, <1>6, <1>7, <1>8 DEF Next

LEMMA SpecContractInv ==
  ASSUME WholeElementAccesses
  PROVE  Spec => []ContractInv
<1>1. Init => KeysInElements
  BY InitRefines
<1>2. MemoryInv /\ KeysInElements /\ [Next]_vars => KeysInElements'
  BY StepRefines DEF ContractInv
<1>3. Spec => []MemoryInv
  BY SpecMemoryInv
<1>4. MemoryInv /\ KeysInElements <=> ContractInv
  BY DEF ContractInv
<1> QED BY <1>1, <1>2, <1>3, <1>4, PTL DEF Spec

\* For accesses of whole elements, whatever is injected and whenever the
\* buffer retires and comes back, its steps are steps of the eager contract:
\* the stored data only ever gain the fault of their own write, once, and not
\* after their element is read, and a read fault leaves with the next access.
THEOREM EagerContractImplemented ==
  ASSUME WholeElementAccesses
  PROVE  Spec => ImplementsEagerContract
<1>1. Init => Contract!AbsInit
  BY InitRefines
<1>2. ContractInv /\ [Next]_vars => [Contract!AbsNext]_(Contract!absVars)
  BY StepRefines
<1>3. Spec => []ContractInv
  BY SpecContractInv
<1> QED BY <1>1, <1>2, <1>3, PTL DEF Spec, ImplementsEagerContract, Contract!AbsSpec
=============================================================================
