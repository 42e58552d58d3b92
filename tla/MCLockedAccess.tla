--------------------------- MODULE MCLockedAccess ---------------------------
(***************************************************************************)
(* Two threads that share a buffer of two elements of one byte: accesses   *)
(* of the second element, the first one's address escaping the buffer.     *)
(***************************************************************************)
EXTENDS LockedAccess

CONSTANTS t1, t2, v1, v2

MCThreads == {t1, t2}

MCValues == {v1, v2}

ElementAccesses == {[address |-> 1, size |-> 1, simd |-> FALSE]}

ASSUME InstanceAssumption == WholeElementAccesses
=============================================================================
