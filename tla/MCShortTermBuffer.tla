------------------------- MODULE MCShortTermBuffer -------------------------
(***************************************************************************)
(* Instance of ShortTermBuffer: three elements of one byte, accessed one   *)
(* by one, by vector and scattered.                                        *)
(***************************************************************************)
EXTENDS ShortTermBuffer

CONSTANTS v1, v2

MCValues == {v1, v2}

Access(a, n, s) == [address |-> a, size |-> n, simd |-> s]

\* Every aligned access of whole elements of one byte in a buffer of three.
ElementAccesses ==
  {Access(a, 1, FALSE) : a \in 0 .. 2} \union {Access(0, 2, TRUE), Access(1, 2, TRUE), Access(0, 3, TRUE)}

ElementGathers == {<<2, 0>>, <<0, 1>>, <<1, 1>>}

\* The hypothesis of the theorems about the memory, which this instance meets.
ASSUME InstanceAssumption == WholeElementAccesses
=============================================================================
