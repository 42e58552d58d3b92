-------------------------- MODULE DistanceInjector --------------------------
(***************************************************************************)
(* The injector of the build with DISTANCE_BASED_FAULT_INJECTOR            *)
(* (fault-injector.cpp 171-297).  Instead of deciding bit by bit it draws  *)
(* the distance to the next fault, in bits, and counts it down in bytes    *)
(* over the accesses of a category, small and large; an access larger than *)
(* the distance gets its fault, and then as many more as it still has room *)
(* for.                                                                    *)
(*                                                                         *)
(* The start of an injection and each fault of its loop are steps.  Reads  *)
(* may cover several elements and back up what they hit; a write is        *)
(* injected element by element, when it is first read, without a backup.   *)
(* Before an access is injected its elements hold no read fault, since the *)
(* handlers restore them first, so only the bits flipped by this injection *)
(* are kept.  One rate for each category, which is not zero.               *)
(***************************************************************************)
EXTENDS Integers, Functions

CONSTANTS
  DataSize,   \* m_dataSizeInBytes
  BitDepth,   \* GetBitDepth
  Count,      \* the elements of the buffer
  Distances   \* bound: the distances drawn from the normal distribution, made positive

ASSUME DistanceAssumption ==
  /\ DataSize \in Nat \ {0} /\ BitDepth \in 1 .. (8 * DataSize)
  /\ Count \in Nat \ {0} /\ Distances \subseteq Nat

VARIABLES
  records,    \* m_record: what each category counts down
  category,   \* of the injection, or of the last one
  access,     \* the bytes of the access being injected
  data,       \* data: where the count has come to, in bytes from the start of the buffer
  size,       \* accessSizeInBytes: the bytes of the access from data on
  flipped,    \* the bits in which each element differs from its content before the injection
  backups,    \* what BackupReadData saved of an element: the bits that were wrong then
  drawn,      \* history: the distance each category drew last
  passed,     \* history: elements from the last fault of the category to data
  spacing     \* history: elements between the last two faults of a category, bits drawn

vars == <<records, category, access, data, size, flipped, backups, drawn, passed, spacing>>

Categories == {"read", "write"}

Elements == 0 .. (Count - 1)

(***************************************************************************)
(* Integer division truncates towards zero.                                *)
(***************************************************************************)
Absolute(n) == IF n < 0 THEN -n ELSE n

Quotient(n, m) == IF n < 0 THEN -(Absolute(n) \div m) ELSE n \div m

Remainder(n, m) == n - m * Quotient(n, m)

\* (Defect: the next distance does not start from the fault but from the end
\* of the access.)
NextDistanceInBitsFromEnd(distance, bits) == bits

NextDistanceInBits(distance, bits) == Quotient(distance, DataSize) * BitDepth + bits

\* (Defect: the remainder keeps its sign.)
InjectionBitSigned(distanceInBits) == Remainder(distanceInBits, BitDepth)

InjectionBit(distanceInBits) == Absolute(Remainder(distanceInBits, BitDepth))

\* UpdateErrorDistanceAndInjectionBit.
Update(distance, bits) ==
  LET next == NextDistanceInBits(distance, bits)
  IN  [nextErrorDistance |-> Quotient(next, BitDepth) * DataSize, injectionBit |-> InjectionBit(next)]

\* The constructors, and an injection of nothing.
Init ==
  /\ drawn \in [Categories -> Distances]
  /\ records = [c \in Categories |-> Update(0, drawn[c])]
  /\ category = "read"
  /\ access = {}
  /\ data = 0
  /\ size = 0
  /\ flipped = [e \in {} |-> {}]
  /\ backups = [e \in {} |-> {}]
  /\ passed = [c \in Categories |-> 0]
  /\ spacing = [elements |-> 0, bits |-> 0]

Distance(c) == records[c].nextErrorDistance

\* The distance has come to an element of the access.
Injecting == Distance(category) < 0

\* The access of elements first .. last is counted.
StartInjection(c, first, last) ==
  /\ ~Injecting
  /\ category' = c
  /\ access' = (first * DataSize) .. (last * DataSize + DataSize - 1)
  /\ records' = [records EXCEPT ![c].nextErrorDistance = @ - DataSize * (last - first + 1)]
  /\ data' = first * DataSize
  /\ size' = DataSize * (last - first + 1)
  /\ flipped' = [e \in first .. last |-> {}]
  /\ backups' = [e \in {} |-> {}]
  /\ passed' = IF Distance(c) < size' THEN passed
               ELSE [passed EXCEPT ![c] = @ + (last - first + 1)]
  /\ UNCHANGED <<drawn, spacing>>

\* (Defect: what was backed up last is forgotten.)
BackupEach(element) ==
  IF category = "read"
  THEN [e \in DOMAIN backups \union {element} |-> IF e = element THEN flipped[e] ELSE backups[e]]
  ELSE backups

\* BackupReadData, which overwrites the backup the element has, unless the
\* fault is where the one before it was.
Backup(element) ==
  IF category = "read" /\ (DOMAIN backups = {} \/ data # element * DataSize)
  THEN [e \in DOMAIN backups \union {element} |-> IF e = element THEN flipped[e] ELSE backups[e]]
  ELSE backups

\* An iteration of the loop of InjectFault: a fault, and the next distance.
InjectFault(bits) ==
  LET left    == -Distance(category)
      hit     == data + size - left
      element == Quotient(hit, DataSize)
      bit     == records[category].injectionBit
      next    == Update(Distance(category), bits)
  IN  /\ Injecting
      /\ data' = hit
      /\ backups' = Backup(element)
      /\ flipped' = [flipped EXCEPT ![element] = (@ \union {bit}) \ (@ \intersect {bit})]
      /\ size' = left
      /\ records' = [records EXCEPT ![category] = next]
      /\ drawn' = [drawn EXCEPT ![category] = bits]
      /\ passed' = [passed EXCEPT ![category] =
                      IF next.nextErrorDistance < 0 THEN 0 ELSE Quotient(left, DataSize)]
      /\ spacing' = [elements |-> passed[category] + Quotient(size - left, DataSize),
                     bits     |-> drawn[category]]
      /\ UNCHANGED <<category, access>>

\* A read of some elements, or the write of one.
Next ==
  \/ \E first, last \in Elements : first <= last /\ StartInjection("read", first, last)
  \/ \E e \in Elements : StartInjection("write", e, e)
  \/ \E bits \in Distances : InjectFault(bits)

Spec == Init /\ [][Next]_vars
-----------------------------------------------------------------------------
(***************************************************************************)
(* Properties.                                                             *)
(***************************************************************************)
\* A distance is one of whole elements and the bit one of an element; while
\* there are faults to come the next one falls inside the access, so that
\* nothing but accessed elements is ever flipped or backed up.
TypeOK ==
  /\ category \in Categories
  /\ \A c \in Categories :
       /\ Distance(c) % DataSize = 0
       /\ Distance(c) < 0 => c = category
       /\ records[c].injectionBit \in 0 .. (BitDepth - 1)
  /\ Injecting => data + size + Distance(category) \in access
  /\ \A e \in DOMAIN flipped : flipped[e] \subseteq 0 .. (BitDepth - 1)
  /\ DOMAIN backups \subseteq DOMAIN flipped
  /\ passed \in [Categories -> Nat]

\* However many faults an access gets, the buffer can undo those of a read:
\* each element that differs was backed up, with the content it had before the
\* first of them.
FaultsCanBeUndone ==
  category = "read" =>
    /\ \A e \in DOMAIN flipped : flipped[e] # {} => e \in DOMAIN backups
    /\ Range(backups) \subseteq {{}}

\* README.md:63, "For every bit accessed, a counter for the next error is
\* decremented": two consecutive faults of a category are as many elements
\* apart as were drawn, to less than one element, however the elements in
\* between were divided into accesses.
FaultsAsFarAsDrawn ==
  Absolute(spacing.elements * BitDepth - spacing.bits) < BitDepth
=============================================================================
