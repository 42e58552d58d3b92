--------------------------- MODULE ShortTermMaps ---------------------------
(***************************************************************************)
(* The two ordered maps of ShortTermApproximateBuffer, keyed by address,   *)
(* and what its handlers do to them and to the memory: remainingReads      *)
(* holds the bytes that a faulty read overwrote, so that the next access   *)
(* can put them back; pendingWrites holds the approximate writes whose     *)
(* fault has not been injected yet.  ShortTermBuffer runs each handler     *)
(* together with its instruction, LockedAccess interleaves them.           *)
(***************************************************************************)
EXTENDS BufferMemory

VARIABLES
  memory,          \* the bytes of the buffer, as the program would load them
  remainingReads,  \* m_remainingReads: address -> backup of a faulty read
  pendingWrites    \* m_pendingWrites: addresses of writes not yet injected

Backup == [0 .. (BackupSize - 1) -> Byte]

Keys == {a \in Memory : Span(a) \subseteq Memory}

(***************************************************************************)
(* The maps.                                                               *)
(***************************************************************************)
NoReads == [a \in {} |-> a]

Drop(reads, K) == [a \in DOMAIN reads \ K |-> reads[a]]

\* map::lower_bound: the least key not below a, if there is one.
LowerBound(K, a) ==
  {b \in K : b >= a /\ \A c \in K : c >= a => b <= c}

\* Writes the backups of the keys in K back, in ascending order: where two
\* backups overlap, the byte comes from the one at the higher address.
IsLastOver(a, b, K) ==
  /\ a \in K /\ b \in Span(a)
  /\ \A c \in K : b \in Span(c) => c <= a

ReverseFaultyRead(mem, reads, K) ==
  [b \in Memory |->
     IF \E a \in K : IsLastOver(a, b, K)
     THEN LET a == CHOOSE a \in K : IsLastOver(a, b, K) IN reads[a][b - a]
     ELSE mem[b]]

\* map::insert, which keeps the entry of a key that is already there.
BackupReadData(reads, mem, K) ==
  [a \in DOMAIN reads \union K |->
     IF a \in DOMAIN reads THEN reads[a]
     ELSE [i \in 0 .. (BackupSize - 1) |-> mem[a + i]]]

(***************************************************************************)
(* The body every read handler has: restore the backups in reversed, then  *)
(* inject the pending writes in applied (writeHit are the bytes hit), then *)
(* inject read faults at keys (readHit), backing up each element hit.      *)
(***************************************************************************)
Buffer == [memory |-> memory, reads |-> remainingReads, writes |-> pendingWrites]

\* (Defect: the backup is taken after the injection.)
AfterReadBackupLate(s, reversed, applied, keys, writeHit, readHit) ==
  LET settled == InjectFault(ReverseFaultyRead(s.memory, s.reads, reversed), writeHit, "write")
      faulty  == InjectFault(settled, readHit, "read")
      hitKeys == {a \in keys : Span(a) \intersect readHit # {}}
  IN  [memory |-> faulty,
       reads  |-> BackupReadData(Drop(s.reads, reversed), faulty, hitKeys),
       writes |-> s.writes \ applied]

\* (Defect: a pending write is not erased once it is injected.)
AfterReadKeepWrites(s, reversed, applied, keys, writeHit, readHit) ==
  LET settled == InjectFault(ReverseFaultyRead(s.memory, s.reads, reversed), writeHit, "write")
      hitKeys == {a \in keys : Span(a) \intersect readHit # {}}
  IN  [memory |-> InjectFault(settled, readHit, "read"),
       reads  |-> BackupReadData(Drop(s.reads, reversed), settled, hitKeys),
       writes |-> s.writes]

AfterRead(s, reversed, applied, keys, writeHit, readHit) ==
  LET settled == InjectFault(ReverseFaultyRead(s.memory, s.reads, reversed), writeHit, "write")
      hitKeys == {a \in keys : Span(a) \intersect readHit # {}}
  IN  [memory |-> InjectFault(settled, readHit, "read"),
       reads  |-> BackupReadData(Drop(s.reads, reversed), settled, hitKeys),
       writes |-> s.writes \ applied]

Become(s) ==
  /\ memory' = s.memory
  /\ remainingReads' = s.reads
  /\ pendingWrites' = s.writes

ReadHits(inject, keys) == IF inject THEN SUBSET SpanOf(keys) ELSE {{}}

\* (Defect: only the first element of a SIMD read is restored.)
ReversedByFirst(acc) == DOMAIN remainingReads \intersect {acc.address}

\* ReverseFaultyRead looks one address up, or walks the range of a SIMD access.
ReversedBy(acc) ==
  DOMAIN remainingReads \intersect (IF IsSIMD(acc) THEN BytesOf(acc) ELSE {acc.address})

\* (Defect: upper_bound in place of lower_bound.)
AppliedByUpperBound(acc) ==
  IF IsSIMD(acc) THEN pendingWrites \intersect BytesOf(acc)
                 ELSE LowerBound(pendingWrites, acc.address + 1)

\* ApplyFaultyWrite walks the range of a SIMD access; for one element it takes
\* whatever lower_bound finds.
AppliedBy(acc) ==
  IF IsSIMD(acc) THEN pendingWrites \intersect BytesOf(acc)
                 ELSE LowerBound(pendingWrites, acc.address)
=============================================================================
