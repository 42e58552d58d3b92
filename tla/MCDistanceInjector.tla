------------------------- MODULE MCDistanceInjector -------------------------
(***************************************************************************)
(* Four elements of two bytes with three bits each.  The distances go from *)
(* none to beyond the largest access, with every remainder.                *)
(***************************************************************************)
EXTENDS DistanceInjector

MCDistances == {0, 1, 3, 5, 7, 14}
=============================================================================
