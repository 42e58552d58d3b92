--------------------------- MODULE LongTermBuffer ---------------------------
(***************************************************************************)
(* LongTermApproximateBuffer (approximate-buffer.cpp 776-1154), the buffer *)
(* of the builds with LONG_TERM_BUFFER.  In place of ordered maps it has   *)
(* arrays with an entry per element: its error status and room for the     *)
(* backup of a faulty read.  The arrays are borrowed from pools that all   *)
(* buffers share and given back on retirement without being cleared.       *)
(*                                                                         *)
(* As in ShortTermBuffer, a step is a handler followed by the load or      *)
(* store of the instruction it instruments.                                *)
(***************************************************************************)
EXTENDS BufferMemory

CONSTANTS
  Gathers,  \* the element addresses of the two-element gathers and scatters
  Garbage   \* the content of a borrowed backup array, as far as it is known

\* The array indexes stop at the last whole element: the program is assumed
\* to lay out buffers of whole elements, as the handlers do.
ASSUME WholeElements == (FinalAddress - FirstAddress) % DataSize = 0

ASSUME GathersAssumption ==
  \A g \in Gathers : \A i \in 1 .. 2 :
    g[i] \in Memory /\ g[i] .. (g[i] + DataSize - 1) \subseteq Memory

VARIABLES
  memory,       \* the bytes of the buffer, as the program would load them
  errorStatus,  \* m_records: index -> ErrorStatus
  readBackups,  \* m_readBackups: index -> backup, stale unless the status is Read
  isActive,     \* m_isActive
  stored        \* history: the value the program last stored in each byte

vars == <<memory, errorStatus, readBackups, isActive, stored>>

NumberOfElements == (FinalAddress - FirstAddress) \div DataSize

Indexes == 0 .. (NumberOfElements - 1)

\* GetIndexFromAddress.
IndexOf(a) == (a - FirstAddress) \div DataSize

AddressOf(i) == FirstAddress + i * DataSize

ErrorStatus == {"None", "Read", "Write"}

Backup == [0 .. (BackupSize - 1) -> Byte]

(***************************************************************************)
(* The body of the read handlers: ProcessReadMemoryElement at each of the  *)
(* addresses in K, whose elements are distinct.  Where the status is Read  *)
(* the backup is restored, where it is Write the fault is injected, and    *)
(* then read faults are injected with a new backup for each element hit.   *)
(***************************************************************************)
Buffer == [memory |-> memory, status |-> errorStatus, backups |-> readBackups]

WithStatus(s, K, st) == {a \in K : s.status[IndexOf(a)] = st}

ReverseFaultyRead(s, K) ==
  [b \in Memory |->
     IF b \in SpanOf(K)
     THEN LET a == CHOOSE a \in K : b \in Span(a) IN s.backups[IndexOf(a)][b - a]
     ELSE s.memory[b]]

IndexesOf(K) == {IndexOf(a) : a \in K}

\* (Defect: the status of an element is kept when its fault is dealt with.)
StatusKept(s, K, hit) ==
  [i \in Indexes |-> IF i \in IndexesOf(hit) THEN "Read" ELSE s.status[i]]

StatusAfterRead(s, K, hit) ==
  [i \in Indexes |-> IF i \in IndexesOf(hit) THEN "Read"
                     ELSE IF i \in IndexesOf(K) THEN "None" ELSE s.status[i]]

\* BackupReadData at each of the addresses in hit.
BackupReadData(s, mem, hit) ==
  [i \in Indexes |->
     IF i \in IndexesOf(hit)
     THEN LET a == CHOOSE a \in hit : IndexOf(a) = i
          IN  [j \in 0 .. (BackupSize - 1) |-> mem[a + j]]
     ELSE s.backups[i]]

AfterRead(s, K, writeHit, readHit) ==
  LET settled == InjectFault(ReverseFaultyRead(s, WithStatus(s, K, "Read")), writeHit, "write")
      hit     == {a \in K : Span(a) \intersect readHit # {}}
  IN  [memory  |-> InjectFault(settled, readHit, "read"),
       status  |-> StatusAfterRead(s, K, hit),
       backups |-> BackupReadData(s, settled, hit)]

WriteHits(s, K) == SUBSET SpanOf(WithStatus(s, K, "Write"))

ReadHits(inject, K) == IF inject THEN SUBSET SpanOf(K) ELSE {{}}

Become(s) ==
  /\ memory' = s.memory
  /\ errorStatus' = s.status
  /\ readBackups' = s.backups

(***************************************************************************)
(* Operations.                                                             *)
(***************************************************************************)
\* New records have status None; new backups are whatever malloc returned.
Init ==
  /\ stored \in [Memory -> Values]
  /\ memory = [b \in Memory |-> Clean(stored[b])]
  /\ errorStatus = [i \in Indexes |-> "None"]
  /\ readBackups = [i \in Indexes |-> Garbage]
  /\ isActive = 1

\* HandleMemoryReadSIMD and HandleMemoryReadSingleElementSafe.
Read(acc, inject) ==
  /\ isActive >= 1
  /\ ~IsIgnored(acc)
  /\ \E w \in WriteHits(Buffer, KeysOf(acc)), r \in ReadHits(inject, KeysOf(acc)) :
       Become(AfterRead(Buffer, KeysOf(acc), w, r))
  /\ UNCHANGED <<isActive, stored>>

\* HandleMemoryReadScattered for an operand of two elements.
ReadScattered(g, inject) ==
  /\ isActive >= 1
  /\ \E w1 \in WriteHits(Buffer, {g[1]}), r1 \in ReadHits(inject, {g[1]}) :
       LET s == AfterRead(Buffer, {g[1]}, w1, r1) IN
       \E w2 \in WriteHits(s, {g[2]}), r2 \in ReadHits(inject, {g[2]}) :
         Become(AfterRead(s, {g[2]}, w2, r2))
  /\ UNCHANGED <<isActive, stored>>

\* (Defect: the end index is marked as well.)
WrittenIndexesInclusive(acc) ==
  IF IsSIMD(acc)
  THEN IndexOf(acc.address) .. (IndexOf(acc.address) + acc.size \div DataSize)
  ELSE {IndexOf(acc.address)}

\* The indexes HandleMemoryWriteSIMD marks, counted in whole elements.
WrittenIndexes(acc) ==
  IF IsSIMD(acc)
  THEN IndexOf(acc.address) .. (IndexOf(acc.address) + acc.size \div DataSize - 1)
  ELSE {IndexOf(acc.address)}

\* (Defect: a precise write leaves the status of the element.)
MarkWrittenIfInjected(I, inject) ==
  /\ errorStatus' = [i \in Indexes |-> IF i \in I /\ inject THEN "Write" ELSE errorStatus[i]]
  /\ UNCHANGED readBackups

\* ProcessWrittenMemoryElement.
MarkWritten(I, inject) ==
  /\ errorStatus' = [i \in Indexes |->
                       IF i \in I THEN (IF inject THEN "Write" ELSE "None") ELSE errorStatus[i]]
  /\ UNCHANGED readBackups

\* The store of the instruction.
Store(bytes, v) ==
  /\ memory' = StoreBytes(memory, bytes, v)
  /\ stored' = [b \in Memory |-> IF b \in bytes THEN v ELSE stored[b]]
  /\ UNCHANGED isActive

\* HandleMemoryWriteSIMD and HandleMemoryWriteSingleElementSafe.
Write(acc, v, inject) ==
  /\ isActive >= 1
  /\ ~IsIgnored(acc)
  /\ MarkWritten(WrittenIndexes(acc), inject)
  /\ Store(BytesOf(acc), v)

\* HandleMemoryWriteScattered.
WriteScattered(g, v, inject) ==
  /\ isActive >= 1
  /\ MarkWritten({IndexOf(g[1]), IndexOf(g[2])}, inject)
  /\ Store(g[1] .. (g[1] + DataSize - 1) \union g[2] .. (g[2] + DataSize - 1), v)

\* A store the buffer takes no notice of.
WriteUnseen(acc, v) ==
  /\ isActive = 0 \/ IsIgnored(acc)
  /\ Store(BytesOf(acc), v)
  /\ UNCHANGED <<errorStatus, readBackups>>

\* (Defect: the loop of RetireBuffer stops one element short.)
RetireBufferShort ==
  LET all == {AddressOf(i) : i \in Indexes \ {NumberOfElements - 1}} IN
  /\ isActive = 1
  /\ isActive' = 0
  /\ \E w \in WriteHits(Buffer, all) : Become(AfterRead(Buffer, all, w, {}))
  /\ UNCHANGED stored

\* RetireBuffer by the last holder; the arrays go to the pools as they are.
RetireBuffer ==
  LET all == {AddressOf(i) : i \in Indexes} IN
  /\ isActive = 1
  /\ isActive' = 0
  /\ \E w \in WriteHits(Buffer, all) : Become(AfterRead(Buffer, all, w, {}))
  /\ UNCHANGED stored

\* ReactivateBuffer: the arrays are new, or borrowed from a buffer that was
\* retired, perhaps another one.  Borrowed records are not cleared; they have
\* the status that retirement left in them.
ReactivateBuffer ==
  /\ isActive = 0
  /\ isActive' = 1
  /\ readBackups' = [i \in Indexes |-> Garbage]
  /\ UNCHANGED <<memory, errorStatus, stored>>

Next ==
  \/ \E acc \in Accesses, inject \in BOOLEAN : Read(acc, inject)
  \/ \E g \in Gathers, inject \in BOOLEAN : ReadScattered(g, inject)
  \/ \E acc \in Accesses, v \in Values, inject \in BOOLEAN : Write(acc, v, inject)
  \/ \E g \in Gathers, v \in Values, inject \in BOOLEAN : WriteScattered(g, v, inject)
  \/ \E acc \in Accesses, v \in Values : WriteUnseen(acc, v)
  \/ RetireBuffer
  \/ ReactivateBuffer

Spec == Init /\ [][Next]_vars

\* The accesses for which the properties of the memory hold: the loops and the
\* record of an access count in whole elements, from an address of an element.
WholeElementAccesses ==
  /\ \A acc \in Accesses : ~IsMisaligned(acc.address) /\ acc.size % DataSize = 0
  /\ \A g \in Gathers : \A i \in 1 .. 2 : ~IsMisaligned(g[i])
-----------------------------------------------------------------------------
(***************************************************************************)
(* Properties.                                                             *)
(***************************************************************************)
\* Backups are well formed whenever the status says they are in use.
TypeOK ==
  /\ memory \in [Memory -> Byte]
  /\ errorStatus \in [Indexes -> ErrorStatus]
  /\ readBackups \in [Indexes -> Backup \union {Garbage}]
  /\ \A i \in Indexes : errorStatus[i] = "Read" => readBackups[i] \in Backup
  /\ isActive \in 0 .. 1
  /\ stored \in [Memory -> Values]

\* Retirement leaves every record at None, which is what makes handing the
\* uncleared array to another buffer through the pool harmless.
RetiredRecordsAreNone == isActive = 0 => \A i \in Indexes : errorStatus[i] = "None"

\* The value of every byte, in memory and in every backup in use, is the one
\* the program stored last: no restore brings an overwritten value back.
StoredDataSurvives ==
  /\ \A b \in Memory : memory[b].value = stored[b]
  /\ \A i \in Indexes, j \in 0 .. (BackupSize - 1) :
       errorStatus[i] = "Read" => readBackups[i][j].value = stored[AddressOf(i) + j]

\* Every read fault in memory can be undone: the element has status Read, and
\* its backup differs from the byte in that fault alone.
ReadFaultsReversible ==
  \A b \in Memory : "read" \in memory[b].faults =>
    LET i == IndexOf(b) IN
    /\ errorStatus[i] = "Read"
    /\ b \in Span(AddressOf(i))
    /\ readBackups[i][b - AddressOf(i)] = [memory[b] EXCEPT !.faults = @ \ {"read"}]
-----------------------------------------------------------------------------
(***************************************************************************)
(* The refinement of ApproximateMemory, for aligned accesses of whole      *)
(* elements.                                                               *)
(***************************************************************************)
Elements == {AddressOf(i) : i \in Indexes}

Restored == ReverseFaultyRead(Buffer, WithStatus(Buffer, Elements, "Read"))

Datum(e) ==
  [content |-> [i \in 0 .. (DataSize - 1) |-> Restored[e + i].value],
   faulty  |-> \E b \in ElementBytes(e) : "write" \in Restored[b].faults]

Contract == INSTANCE ApproximateMemory WITH
  Contents  <- [0 .. (DataSize - 1) -> Values],
  Exact     <- TRUE,
  data      <- [e \in Elements |-> Datum(e)],
  undecided <- WithStatus(Buffer, Elements, "Write"),
  exposed   <- {e \in Elements : \E b \in ElementBytes(e) : "read" \in memory[b].faults}

\* The long-term buffer keeps the exact contract: a write is injected when its
\* own element is read, or on retirement, and a precise write or a later
\* approximate one takes its place.
ImplementsExactContract == Contract!AbsSpec
=============================================================================
