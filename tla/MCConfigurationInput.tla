------------------------ MODULE MCConfigurationInput ------------------------
(***************************************************************************)
(* Two entries with two identifiers, one or two rates in a line, and       *)
(* profiles with one or two values for each category.                      *)
(***************************************************************************)
EXTENDS ConfigurationInput

MCIds == {0, 1}

MCDepthValues == {0, 2}

MCLSBValues == {1, 8}

Rate(count, value) == [count |-> count, value |-> value]

\* No rate at all, a rate out of range, none, one for each bit, two rates.
MCRateLines ==
  { <<>>, <<Rate(1, "outside")>>, <<Rate(1, "zero")>>, <<Rate(2, "positive")>>,
    <<Rate(1, "positive"), Rate(1, "zero")>> }

Counts == [{"read", "write"} -> 1 .. 2]

MCProfiles ==
  [id : MCIds, values : UNION {[D -> Counts] : D \in {{"approximate"}, {"approximate", "reference"}}}]
=============================================================================
