-------------------------- MODULE ShortTermBuffer --------------------------
(***************************************************************************)
(* ShortTermApproximateBuffer (approximate-buffer.cpp 403-770), the buffer *)
(* of the default build: the operations on the two maps of ShortTermMaps.  *)
(*                                                                         *)
(* An instrumented instruction is one step: its handler runs (IPOINT_      *)
(* BEFORE) and then its own load or store happens.  In the build without   *)
(* PIN_LOCKED the target has one thread, so nothing comes in between.  An  *)
(* instruction that reads and writes one operand is a read step followed   *)
(* by a write step.                                                        *)
(*                                                                         *)
(* inject stands for GetShouldInject: injection is enabled in the thread   *)
(* and the configuration has a bit error rate for that kind of access.     *)
(***************************************************************************)
EXTENDS ShortTermMaps

CONSTANT Gathers  \* the element addresses of the two-element gathers and scatters

ASSUME GathersAssumption ==
  \A g \in Gathers : \A i \in 1 .. 2 :
    g[i] \in Memory /\ g[i] .. (g[i] + DataSize - 1) \subseteq Memory

VARIABLES
  isActive,        \* m_isActive
  stored,          \* history: the value the program last stored in each byte
  unread           \* history: bytes stored, then neither loaded nor retired

vars == <<memory, remainingReads, pendingWrites, isActive, stored, unread>>

(***************************************************************************)
(* Operations.                                                             *)
(***************************************************************************)
Init ==
  /\ stored \in [Memory -> Values]
  /\ memory = [b \in Memory |-> Clean(stored[b])]
  /\ remainingReads = NoReads
  /\ pendingWrites = {}
  /\ isActive = 1
  /\ unread = {}

\* HandleMemoryReadSIMD and HandleMemoryReadSingleElementSafe.
Read(acc, inject) ==
  /\ isActive >= 1
  /\ ~IsIgnored(acc)
  /\ \E writeHit \in SUBSET SpanOf(AppliedBy(acc)), readHit \in ReadHits(inject, KeysOf(acc)) :
       Become(AfterRead(Buffer, ReversedBy(acc), AppliedBy(acc), KeysOf(acc), writeHit, readHit))
  /\ unread' = unread \ BytesOf(acc)
  /\ UNCHANGED <<isActive, stored>>

\* One iteration of HandleMemoryReadScattered.
ReadElement(s, a, writeHit, readHit) ==
  AfterRead(s, DOMAIN s.reads \intersect {a}, LowerBound(s.writes, a), {a}, writeHit, readHit)

\* HandleMemoryReadScattered for an operand of two elements.
ReadScattered(g, inject) ==
  /\ isActive >= 1
  /\ \E w1 \in SUBSET SpanOf(LowerBound(pendingWrites, g[1])), r1 \in ReadHits(inject, {g[1]}) :
       LET s == ReadElement(Buffer, g[1], w1, r1) IN
       \E w2 \in SUBSET SpanOf(LowerBound(s.writes, g[2])), r2 \in ReadHits(inject, {g[2]}) :
         Become(ReadElement(s, g[2], w2, r2))
  /\ unread' = unread \ (g[1] .. (g[1] + DataSize - 1) \union g[2] .. (g[2] + DataSize - 1))
  /\ UNCHANGED <<isActive, stored>>

\* What every write step does to the bytes and to the history.
Store(bytes, v) ==
  /\ memory' = StoreBytes(memory, bytes, v)
  /\ stored' = [b \in Memory |-> IF b \in bytes THEN v ELSE stored[b]]
  /\ unread' = unread \union bytes
  /\ UNCHANGED isActive

\* (Defect: the backups under a write are kept.)
RecordWriteKeepBackups(invalidated, keys, inject) ==
  /\ remainingReads' = remainingReads
  /\ pendingWrites' = IF inject THEN pendingWrites \union keys ELSE pendingWrites

\* The write handlers forget the backups under the access and record its
\* elements when they are to be injected.  They never erase a pending write.
RecordWrite(invalidated, keys, inject) ==
  /\ remainingReads' = Drop(remainingReads, invalidated)
  /\ pendingWrites' = IF inject THEN pendingWrites \union keys ELSE pendingWrites

\* HandleMemoryWriteSIMD and HandleMemoryWriteSingleElementSafe.
Write(acc, v, inject) ==
  /\ isActive >= 1
  /\ ~IsIgnored(acc)
  /\ RecordWrite(IF IsSIMD(acc) THEN BytesOf(acc) ELSE {acc.address}, KeysOf(acc), inject)
  /\ Store(BytesOf(acc), v)

\* HandleMemoryWriteScattered: the iterations only erase and insert keys.
WriteScattered(g, v, inject) ==
  /\ isActive >= 1
  /\ RecordWrite({g[1], g[2]}, {g[1], g[2]}, inject)
  /\ Store(g[1] .. (g[1] + DataSize - 1) \union g[2] .. (g[2] + DataSize - 1), v)

\* A store the buffer takes no notice of: a small misaligned one, or any while
\* the buffer is retired.
WriteUnseen(acc, v) ==
  /\ isActive = 0 \/ IsIgnored(acc)
  /\ Store(BytesOf(acc), v)
  /\ UNCHANGED <<remainingReads, pendingWrites>>

\* (Defect: no failsafe against repeated retirements.)
RetireBufferRepeated ==
  /\ isActive' = isActive - 1
  /\ isActive >= 0
  /\ \E writeHit \in SUBSET SpanOf(pendingWrites) :
       Become(AfterRead(Buffer, DOMAIN remainingReads, pendingWrites, {}, writeHit, {}))
  /\ unread' = {}
  /\ UNCHANGED stored

\* (Defect: ApplyAllWriteErrors is left out.)
RetireBufferKeepWrites ==
  /\ isActive = 1
  /\ isActive' = 0
  /\ Become(AfterRead(Buffer, DOMAIN remainingReads, {}, {}, {}, {}))
  /\ unread' = {}
  /\ UNCHANGED stored

\* RetireBuffer by the last holder: ReverseAllReadErrors, ApplyAllWriteErrors.
RetireBuffer ==
  /\ isActive = 1
  /\ isActive' = 0
  /\ \E writeHit \in SUBSET SpanOf(pendingWrites) :
       Become(AfterRead(Buffer, DOMAIN remainingReads, pendingWrites, {}, writeHit, {}))
  /\ unread' = {}
  /\ UNCHANGED stored

\* ReactivateBuffer: the maps are taken as retirement left them.
ReactivateBuffer ==
  /\ isActive = 0
  /\ isActive' = 1
  /\ UNCHANGED <<memory, remainingReads, pendingWrites, stored, unread>>

Next ==
  \/ \E acc \in Accesses, inject \in BOOLEAN : Read(acc, inject)
  \/ \E g \in Gathers, inject \in BOOLEAN : ReadScattered(g, inject)
  \/ \E acc \in Accesses, v \in Values, inject \in BOOLEAN : Write(acc, v, inject)
  \/ \E g \in Gathers, v \in Values, inject \in BOOLEAN : WriteScattered(g, v, inject)
  \/ \E acc \in Accesses, v \in Values : WriteUnseen(acc, v)
  \/ RetireBuffer
  \/ ReactivateBuffer

Spec == Init /\ [][Next]_vars
-----------------------------------------------------------------------------
(***************************************************************************)
(* The accesses for which the properties of the memory hold.  Handlers keep*)
(* what they know of an element under its address, so an access inside an  *)
(* element escapes them; one that writes a part of an element forgets the  *)
(* backup of the whole.                                                    *)
(***************************************************************************)
AlignedAccesses ==
  /\ AccessesAligned
  /\ \A g \in Gathers : \A i \in 1 .. 2 : ~IsMisaligned(g[i])

WholeElementAccesses == AlignedAccesses /\ AccessesWhole
-----------------------------------------------------------------------------
(***************************************************************************)
(* Properties.                                                             *)
(***************************************************************************)
\* Backups and pending writes are kept at addresses whose element lies in the
\* buffer; the memory and the history have a value for every byte.
TypeOK ==
  /\ memory \in [Memory -> Byte]
  /\ DOMAIN remainingReads \subseteq Keys
  /\ \A a \in DOMAIN remainingReads : remainingReads[a] \in Backup
  /\ remainingReads = [a \in DOMAIN remainingReads |-> remainingReads[a]]
  /\ pendingWrites \subseteq Keys
  /\ isActive \in 0 .. 1
  /\ stored \in [Memory -> Values]
  /\ unread \subseteq Memory

\* No address waits both for its backup to be restored and for its write fault
\* to be injected, whatever the accesses: otherwise restoring the backup would
\* put back the bytes from before the write (RetireBuffer does both in a row).
KeysDisjoint == DOMAIN remainingReads \intersect pendingWrites = {}

\* A retired buffer owes nothing to the memory: reactivation and the program's
\* unseen stores in between start from empty maps, so that no backup taken in
\* an earlier activation can be written over newer data.
RetiredOwesNothing == isActive = 0 => DOMAIN remainingReads = {} /\ pendingWrites = {}

\* The value of every byte, in memory and in every backup, is the one the
\* program stored last: no restore brings an overwritten value back.
StoredDataSurvives ==
  /\ \A b \in Memory : memory[b].value = stored[b]
  /\ \A a \in DOMAIN remainingReads, i \in 0 .. (BackupSize - 1) :
       remainingReads[a][i].value = stored[a + i]

\* Every read fault in memory can still be undone: the byte is under a backup
\* that differs from it in that fault alone.
ReadFaultsReversible ==
  \A b \in Memory : "read" \in memory[b].faults =>
    \E a \in DOMAIN remainingReads :
      /\ b \in Span(a)
      /\ remainingReads[a][b - a] = [memory[b] EXCEPT !.faults = @ \ {"read"}]

\* A write is injected at most once: bytes that still have a pending write do
\* not carry its fault already.
WriteInjectedOnce ==
  \A a \in pendingWrites : \A b \in Span(a) : "write" \notin memory[b].faults

\* A read with injection off restores what earlier approximate reads left: the
\* program then loads bytes without read faults.
PreciseReadIsClean ==
  [][\A acc \in Accesses : Read(acc, FALSE) =>
       \A b \in BytesOf(acc) : "read" \notin memory'[b].faults]_vars

\* README, LOG_FAULTS: "Writes that are overwritten before being read are not
\* injected".  A byte about to be overwritten, and not loaded since it was
\* stored, carries no write fault.
OverwrittenWritesNotInjected ==
  [][\A acc \in Accesses, v \in Values, inject \in BOOLEAN : Write(acc, v, inject) =>
       \A b \in BytesOf(acc) \intersect unread : "write" \notin memory[b].faults]_vars
-----------------------------------------------------------------------------
(***************************************************************************)
(* The refinement of ApproximateMemory, for aligned accesses of whole      *)
(* elements.  An element's data are its bytes with the backups put back.   *)
(***************************************************************************)
Elements == {a \in Memory : ~IsMisaligned(a) /\ a + DataSize <= FinalAddress}

Restored == ReverseFaultyRead(memory, remainingReads, DOMAIN remainingReads)

Datum(e) ==
  [content |-> [i \in 0 .. (DataSize - 1) |-> Restored[e + i].value],
   faulty  |-> \E b \in ElementBytes(e) : "write" \in Restored[b].faults]

Contract == INSTANCE ApproximateMemory WITH
  Contents  <- [0 .. (DataSize - 1) -> Values],
  Exact     <- FALSE,
  data      <- [e \in Elements |-> Datum(e)],
  undecided <- pendingWrites,
  exposed   <- {e \in Elements : \E b \in ElementBytes(e) : "read" \in memory[b].faults}

\* The short-term buffer keeps the eager contract: every write is injected at
\* most once and not after its element is read, and reads leave the stored
\* data alone.
ImplementsEagerContract == Contract!AbsSpec
=============================================================================
