---------------------------- MODULE BufferMemory ----------------------------
(***************************************************************************)
(* What every approximate buffer shares (class ApproximateBuffer and the   *)
(* class Range it derives from): the address range, the division of that   *)
(* range into elements, which accesses a buffer ignores, and what fault    *)
(* injection does to the memory of the target application.                 *)
(*                                                                         *)
(* A byte of memory is abstracted to the value the program last stored in  *)
(* it (or an older one, if something restored an older one) and the kinds  *)
(* of faults injected into it since it was stored.                         *)
(***************************************************************************)
EXTENDS Integers

CONSTANTS
  FirstAddress,  \* m_initialAddress, inclusive
  FinalAddress,  \* m_finalAddress, exclusive
  DataSize,      \* m_dataSizeInBytes
  BackupSize,    \* m_minimumReadBackupSize: the bit depth, in whole bytes
  Values,        \* what the program may store in a byte
  Accesses       \* the contiguous accesses the program makes

\* The checks of the constructor: the bit depth fits an element, the range is
\* not reversed and holds at least one element.
ASSUME BufferAssumption ==
  /\ FirstAddress \in Nat /\ FinalAddress \in Nat
  /\ DataSize \in Nat \ {0}
  /\ BackupSize \in 1 .. DataSize
  /\ FirstAddress + DataSize <= FinalAddress

ASSUME ValuesAssumption == Values # {}

Memory == FirstAddress .. (FinalAddress - 1)

FaultKinds == {"read", "write"}

Byte == [value : Values, faults : SUBSET FaultKinds]

Clean(v) == [value |-> v, faults |-> {}]

(***************************************************************************)
(* An access is the operand of one instruction.  simd tells the operands   *)
(* with several elements, whose handlers are the ...SIMD ones, from the    *)
(* others, which go through the ...SingleElementSafe handlers.             *)
(***************************************************************************)
BytesOf(acc) == acc.address .. (acc.address + acc.size - 1)

AlignmentOffset(a) == (a - FirstAddress) % DataSize

IsMisaligned(a) == AlignmentOffset(a) # 0

IsIgnorableMisaligned(acc) == IsMisaligned(acc.address) /\ acc.size < DataSize

\* Single-element handlers drop small misaligned accesses and pass the large
\* ones on to the SIMD handlers.
IsIgnored(acc) == ~acc.simd /\ IsIgnorableMisaligned(acc)

IsSIMD(acc) == acc.simd \/ acc.size > DataSize

\* The element addresses the SIMD loops step through.
ElementsOf(acc) == {a \in BytesOf(acc) : (a - acc.address) % DataSize = 0}

\* The addresses at which an access records writes, injects and backs up.
KeysOf(acc) == IF IsSIMD(acc) THEN ElementsOf(acc) ELSE {acc.address}

ElementBytes(a) == a .. (a + DataSize - 1)

\* The bytes of the element at address a that faults can reach, which are
\* also the bytes its backup holds.
Span(a) == a .. (a + BackupSize - 1)

SpanOf(K) == UNION {Span(a) : a \in K}

\* The program's own accesses stay inside the buffer, and so do the spans of
\* the elements they start.
ASSUME AccessesAssumption ==
  \A acc \in Accesses :
    /\ acc.address \in Memory
    /\ acc.size \in Nat \ {0}
    /\ acc.simd \in BOOLEAN
    /\ BytesOf(acc) \subseteq Memory
    /\ SpanOf(KeysOf(acc)) \subseteq Memory

\* Accesses that start at an element, and those of whole elements.
AccessesAligned == \A acc \in Accesses : ~IsMisaligned(acc.address)

AccessesWhole == AccessesAligned /\ \A acc \in Accesses : acc.size % DataSize = 0

\* FaultInjector::InjectFault on the bytes that were hit.
InjectFault(mem, hit, kind) ==
  [b \in Memory |->
     IF b \in hit THEN [mem[b] EXCEPT !.faults = @ \union {kind}] ELSE mem[b]]

\* The store of the instrumented instruction itself, after its handler ran.
StoreBytes(mem, bytes, v) ==
  [b \in Memory |-> IF b \in bytes THEN Clean(v) ELSE mem[b]]
=============================================================================
