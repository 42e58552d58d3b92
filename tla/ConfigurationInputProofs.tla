---------------------- MODULE ConfigurationInputProofs ----------------------
(***************************************************************************)
(* Proofs about ConfigurationInput, for any identifiers, values, rate      *)
(* lines and profiles, and any number of entries.                          *)
(***************************************************************************)
EXTENDS ConfigurationInput, TLAPS

Fields == {"id", "bitDepth", "lsbDropped"} \union Categories

\* The rate lines that are taken have a rate.
NonEmptyLines == {line \in RateLines : Len(line) >= 1}

\* What a line gives for its field.
GivenFor(f) ==
  {v \in Ids : f = "id"} \union {d \in Int : f = "bitDepth" /\ d > 0}
  \union {n \in Nat : f = "lsbDropped"}
  \union {line \in [rates : NonEmptyLines, depth : Nat \ {0}] : f \in Categories}

\* What an entry can have said.
Lines == {g \in UNION {[D -> UNION {GivenFor(f) : f \in Fields}] : D \in SUBSET Fields} :
            \A f \in DOMAIN g : g[f] \in GivenFor(f)}

\* The entry being read is what its lines so far mean, whatever their order.
EntryAsGiven ==
  /\ given \in Lines
  /\ entry = Meaning(given)

FinishedOK ==
  /\ finished \in Seq(Lines)
  /\ Len(finished) <= MaxEntries

EntryAt(i) == Meaning(finished[i])

\* Profiles are taken once all the configurations are there, against the
\* configuration that has their identifier.
ProfilesMatch ==
  /\ \A id \in DOMAIN profiles : \A values \in Range(profiles[id]) : CountsMatch(values, configurations[id])
  /\ phase = "ready" /\ energy => DOMAIN configurations \subseteq DOMAIN profiles

IInv ==
  TypeOK /\ EntryAsGiven /\ FinishedOK /\ ConfigurationsAsWritten /\ ProfilesMatch
-----------------------------------------------------------------------------
(***************************************************************************)
(* What the lines of an entry mean.                                        *)
(***************************************************************************)
DepthIn(lines) == IF "bitDepth" \in DOMAIN lines THEN lines["bitDepth"] ELSE 8

RatesIn(lines) ==
  [c \in Categories |->
     IF c \in DOMAIN lines THEN RateLengths(lines[c].rates, lines[c].depth) ELSE <<NoRate>>]

LEMMA MeaningFields ==
  ASSUME NEW lines
  PROVE  Meaning(lines) =
           [id |-> IF "id" \in DOMAIN lines THEN lines["id"] ELSE 0, bitDepth |-> DepthIn(lines),
            lsbDropped |-> IF "lsbDropped" \in DOMAIN lines THEN lines["lsbDropped"] ELSE 0,
            rates |-> RatesIn(lines)]
BY DEF Meaning, DepthIn, RatesIn

LEMMA LineFor ==
  ASSUME NEW lines \in Lines
  PROVE  /\ "id" \in DOMAIN lines => lines["id"] \in Ids
         /\ "bitDepth" \in DOMAIN lines => lines["bitDepth"] \in Nat \ {0}
         /\ "lsbDropped" \in DOMAIN lines => lines["lsbDropped"] \in Nat
         /\ \A c \in Categories :
              c \in DOMAIN lines => lines[c].rates \in NonEmptyLines /\ lines[c].depth \in Nat
BY DEF Lines, GivenFor, Categories

\* Every rate has no array, or one for the bit depth it was read at.
LEMMA RateLengthsType ==
  ASSUME NEW line \in NonEmptyLines, NEW depth \in Nat
  PROVE  RateLengths(line, depth) \in Seq(Nat) /\ Len(RateLengths(line, depth)) >= 1
<1>1. line \in Seq([count : Nat \ {0}, value : {"zero", "positive", "outside"}])
  BY InputAssumption DEF NonEmptyLines
<1>2. DOMAIN line = 1 .. Len(line) /\ Len(line) \in Nat /\ Len(line) >= 1
  BY <1>1 DEF NonEmptyLines
<1>3. RateLengths(line, depth) \in [1 .. Len(line) -> Nat]
  BY <1>2 DEF RateLengths, RateLength, NoRate
<1> HIDE DEF NonEmptyLines
<1> QED BY <1>2, <1>3

LEMMA MeaningType ==
  ASSUME NEW lines \in Lines
  PROVE  IsConfiguration(Meaning(lines))
<1>1. DepthIn(lines) \in Nat \ {0}
  BY LineFor DEF DepthIn
<1>2. ASSUME NEW c \in Categories PROVE RatesIn(lines)[c] \in Seq(Nat) /\ Len(RatesIn(lines)[c]) >= 1
  <2>1. CASE c \in DOMAIN lines
    <3>1. RatesIn(lines)[c] = RateLengths(lines[c].rates, lines[c].depth)
      BY <2>1 DEF RatesIn
    <3>2. lines[c].rates \in NonEmptyLines /\ lines[c].depth \in Nat
      BY <2>1, LineFor
    <3> QED BY <3>1, <3>2, RateLengthsType
  <2>2. CASE c \notin DOMAIN lines
    <3>1. RatesIn(lines)[c] = <<NoRate>>
      BY <2>2 DEF RatesIn
    <3>2. <<NoRate>> \in Seq(Nat) /\ Len(<<NoRate>>) = 1
      BY DEF NoRate
    <3> QED BY <3>1, <3>2
  <2> QED BY <2>1, <2>2
<1> DEFINE i == IF "id" \in DOMAIN lines THEN lines["id"] ELSE 0
           n == IF "lsbDropped" \in DOMAIN lines THEN lines["lsbDropped"] ELSE 0
<1>3. i \in Ids /\ n \in Nat
  BY LineFor, InputAssumption
<1>4. Meaning(lines) = [id |-> i, bitDepth |-> DepthIn(lines), lsbDropped |-> n, rates |-> RatesIn(lines)]
  BY MeaningFields
<1> HIDE DEF i, n
<1> QED BY <1>1, <1>2, <1>3, <1>4 DEF IsConfiguration

Taking(lines, field, value) == [f \in DOMAIN lines \union {field} |-> IF f = field THEN value ELSE lines[f]]

LEMMA TakingType ==
  ASSUME NEW lines \in Lines, NEW field \in Fields, NEW value \in GivenFor(field)
  PROVE  Taking(lines, field, value) \in Lines
<1>1. DOMAIN Taking(lines, field, value) = DOMAIN lines \union {field}
  BY DEF Taking
<1>2. DOMAIN lines \subseteq Fields
  BY DEF Lines
<1>3. \A f \in DOMAIN lines \union {field} : Taking(lines, field, value)[f] \in GivenFor(f)
  BY DEF Taking, Lines
<1>4. Taking(lines, field, value)
        \in [DOMAIN lines \union {field} -> UNION {GivenFor(f) : f \in Fields}]
  BY <1>2, <1>3 DEF Taking
<1>5. DOMAIN lines \union {field} \in SUBSET Fields
  BY <1>2
<1> QED BY <1>1, <1>3, <1>4, <1>5 DEF Lines

LEMMA EmptyMeaning == Nothing \in Lines /\ Meaning(Nothing) = NewConfiguration
<1>1. DOMAIN Nothing = {} /\ Nothing \in [{} -> UNION {GivenFor(f) : f \in Fields}]
  BY DEF Nothing
<1>2. Nothing \in Lines
  BY <1>1 DEF Lines
<1>3. Meaning(Nothing) = NewConfiguration
  BY <1>1, MeaningFields DEF NewConfiguration, DepthIn, RatesIn
<1> QED BY <1>2, <1>3
-----------------------------------------------------------------------------
(***************************************************************************)
(* Lines.                                                                  *)
(***************************************************************************)
\* What the invariant says of state that does not change.
LEMMA EntryKept ==
  ASSUME EntryAsGiven, UNCHANGED <<entry, given>>
  PROVE  EntryAsGiven'
BY DEF EntryAsGiven

LEMMA FinishedKept ==
  ASSUME IInv, UNCHANGED <<configurations, finished>>
  PROVE  FinishedOK' /\ ConfigurationsAsWritten'
<1>1. FinishedOK'
  BY DEF IInv, FinishedOK
<1>2. ConfigurationsAsWritten'
  <2>1. ConfigurationsAsWritten
    BY DEF IInv
  <2> QED BY <2>1 DEF ConfigurationsAsWritten
<1> QED BY <1>1, <1>2

\* Only the entry and what was given change with a line that is taken in.
LEMMA TakeIInv ==
  ASSUME IInv, NEW field \in Fields, NEW value \in GivenFor(field), NEW new, Take(new, field, value),
         new = Meaning(Taking(given, field, value))
  PROVE  IInv'
<1>1. /\ entry' = new /\ given' = Taking(given, field, value)
      /\ UNCHANGED <<phase, energy, configurations, profiles, finished>>
  BY DEF Take, Taking
<1>2. given' \in Lines
  BY <1>1, TakingType DEF IInv, EntryAsGiven
<1>3. EntryAsGiven' /\ IsConfiguration(entry')
  BY <1>1, <1>2, MeaningType DEF EntryAsGiven
<1>4. TypeOK'
  BY <1>1, <1>3 DEF IInv, TypeOK
<1>5. FinishedOK' /\ ConfigurationsAsWritten'
  BY <1>1, FinishedKept
<1>6. ProfilesMatch'
  BY <1>1 DEF IInv, ProfilesMatch
<1> QED BY <1>3, <1>4, <1>5, <1>6 DEF IInv

LEMMA ExitIInv ==
  ASSUME IInv, Exit
  PROVE  IInv'
<1>1. phase' = "exited" /\ UNCHANGED <<energy, entry, configurations, profiles, given, finished>>
  BY DEF Exit
<1>2. TypeOK'
  BY <1>1 DEF IInv, TypeOK
<1>3. EntryAsGiven' /\ FinishedOK' /\ ConfigurationsAsWritten'
  BY <1>1, EntryKept, FinishedKept DEF IInv
<1>4. ProfilesMatch'
  BY <1>1 DEF IInv, ProfilesMatch
<1> QED BY <1>2, <1>3, <1>4 DEF IInv

\* The entry by its fields.
EntryFields ==
  entry = [id |-> entry.id, bitDepth |-> entry.bitDepth, lsbDropped |-> entry.lsbDropped, rates |-> entry.rates]

LEMMA EntryIs ==
  ASSUME IInv
  PROVE  /\ entry.id = (IF "id" \in DOMAIN given THEN given["id"] ELSE 0)
         /\ entry.bitDepth = DepthIn(given)
         /\ entry.lsbDropped = (IF "lsbDropped" \in DOMAIN given THEN given["lsbDropped"] ELSE 0)
         /\ entry.rates = RatesIn(given)
         /\ EntryFields
<1>1. entry = [id |-> IF "id" \in DOMAIN given THEN given["id"] ELSE 0, bitDepth |-> DepthIn(given),
               lsbDropped |-> IF "lsbDropped" \in DOMAIN given THEN given["lsbDropped"] ELSE 0,
               rates |-> RatesIn(given)]
  BY MeaningFields DEF IInv, EntryAsGiven
<1> QED BY <1>1 DEF EntryFields

LEMMA ReadIdIInv ==
  ASSUME IInv, NEW id \in Ids, ReadConfigurationId(id)
  PROVE  IInv'
<1> DEFINE new   == [entry EXCEPT !.id = id]
           lines == Taking(given, "id", id)
<1>1. Take(new, "id", id) /\ "id" \in Fields /\ id \in GivenFor("id")
  BY DEF ReadConfigurationId, Fields, GivenFor
<1>2. /\ "id" \in DOMAIN lines /\ lines["id"] = id
      /\ DepthIn(lines) = DepthIn(given) /\ RatesIn(lines) = RatesIn(given)
      /\ "lsbDropped" \in DOMAIN lines <=> "lsbDropped" \in DOMAIN given
      /\ "lsbDropped" \in DOMAIN given => lines["lsbDropped"] = given["lsbDropped"]
  BY DEF Taking, DepthIn, RatesIn, Categories
<1>3. new = [id |-> id, bitDepth |-> entry.bitDepth, lsbDropped |-> entry.lsbDropped, rates |-> entry.rates]
  BY EntryIs DEF EntryFields
<1> HIDE DEF new, lines
<1>4. new = Meaning(lines)
  BY <1>2, <1>3, EntryIs, MeaningFields
<1> QED BY <1>1, <1>4, TakeIInv DEF lines

LEMMA ReadBitDepthIInv ==
  ASSUME IInv, NEW depth \in DepthValues, ReadBitDepth(depth)
  PROVE  IInv'
<1> DEFINE new   == [entry EXCEPT !.bitDepth = depth]
           lines == Taking(given, "bitDepth", depth)
<1>1. CASE IsDepth(depth)
  <2>1. Take(new, "bitDepth", depth) /\ "bitDepth" \in Fields /\ depth \in GivenFor("bitDepth")
    BY <1>1, InputAssumption DEF ReadBitDepth, IsDepth, Fields, GivenFor
  <2>2. /\ DepthIn(lines) = depth
        /\ "id" \in DOMAIN lines <=> "id" \in DOMAIN given
        /\ "id" \in DOMAIN given => lines["id"] = given["id"]
        /\ "lsbDropped" \in DOMAIN lines <=> "lsbDropped" \in DOMAIN given
        /\ "lsbDropped" \in DOMAIN given => lines["lsbDropped"] = given["lsbDropped"]
    BY DEF Taking, DepthIn
  <2>3. RatesIn(lines) = RatesIn(given)
    <3>1. \A c \in Categories :
            /\ c \in DOMAIN lines <=> c \in DOMAIN given
            /\ c \in DOMAIN given => lines[c] = given[c]
      BY DEF Taking, Categories
    <3> QED BY <3>1 DEF RatesIn
  <2>4. new = [id |-> entry.id, bitDepth |-> depth, lsbDropped |-> entry.lsbDropped, rates |-> entry.rates]
    BY EntryIs DEF EntryFields
  <2> HIDE DEF new, lines
  <2>5. new = Meaning(lines)
    BY <2>2, <2>3, <2>4, EntryIs, MeaningFields
  <2> QED BY <2>1, <2>5, TakeIInv DEF lines
<1>2. CASE ~IsDepth(depth)
  BY <1>2, ExitIInv DEF ReadBitDepth
<1> QED BY <1>1, <1>2

LEMMA ReadLSBDroppedIInv ==
  ASSUME IInv, NEW n \in LSBValues, ReadLSBDropped(n)
  PROVE  IInv'
<1> DEFINE new   == [entry EXCEPT !.lsbDropped = n]
           lines == Taking(given, "lsbDropped", n)
<1>1. CASE IsDroppable(n)
  <2>1. n \in Nat
    BY <1>1, InputAssumption DEF IsDroppable, BYTE_SIZE
  <2>2. Take(new, "lsbDropped", n) /\ "lsbDropped" \in Fields /\ n \in GivenFor("lsbDropped")
    BY <1>1, <2>1 DEF ReadLSBDropped, Fields, GivenFor
  <2>3. /\ "lsbDropped" \in DOMAIN lines /\ lines["lsbDropped"] = n
        /\ DepthIn(lines) = DepthIn(given) /\ RatesIn(lines) = RatesIn(given)
        /\ "id" \in DOMAIN lines <=> "id" \in DOMAIN given
        /\ "id" \in DOMAIN given => lines["id"] = given["id"]
    BY DEF Taking, DepthIn, RatesIn, Categories
  <2>4. new = [id |-> entry.id, bitDepth |-> entry.bitDepth, lsbDropped |-> n, rates |-> entry.rates]
    BY EntryIs DEF EntryFields
  <2> HIDE DEF new, lines
  <2>5. new = Meaning(lines)
    BY <2>3, <2>4, EntryIs, MeaningFields
  <2> QED BY <2>2, <2>5, TakeIInv DEF lines
<1>2. CASE ~IsDroppable(n)
  BY <1>2, ExitIInv DEF ReadLSBDropped
<1> QED BY <1>1, <1>2

LEMMA ReadBerIInv ==
  ASSUME IInv, NEW category \in Categories, NEW line \in RateLines, ReadBer(category, line)
  PROVE  IInv'
<1> DEFINE new     == [entry EXCEPT !.rates[category] = RateLengths(line, entry.bitDepth)]
           value   == [rates |-> line, depth |-> entry.bitDepth]
           lines   == Taking(given, category, value)
           lengths == RateLengths(line, entry.bitDepth)
<1>1. CASE Take(new, category, value) /\ Len(line) >= 1
  <2>1. category \in Fields /\ value \in GivenFor(category)
    <3>1. entry.bitDepth \in Nat \ {0}
      BY DEF IInv, TypeOK, IsConfiguration
    <3>2. line \in NonEmptyLines
      BY <1>1 DEF NonEmptyLines
    <3> QED BY <3>1, <3>2 DEF Fields, GivenFor, Categories
  <2>2. /\ DepthIn(lines) = DepthIn(given)
        /\ "id" \in DOMAIN lines <=> "id" \in DOMAIN given
        /\ "id" \in DOMAIN given => lines["id"] = given["id"]
        /\ "lsbDropped" \in DOMAIN lines <=> "lsbDropped" \in DOMAIN given
        /\ "lsbDropped" \in DOMAIN given => lines["lsbDropped"] = given["lsbDropped"]
    BY DEF Taking, DepthIn, Categories
  <2>3. RatesIn(lines) = [entry.rates EXCEPT ![category] = lengths]
    <3>1. entry.rates = RatesIn(given) /\ entry.bitDepth = DepthIn(given)
      BY EntryIs
    <3>2. \A c \in Categories : RatesIn(lines)[c] = IF c = category THEN lengths ELSE RatesIn(given)[c]
      BY <2>2, <3>1 DEF Taking, RatesIn
    <3> HIDE DEF lengths
    <3> QED BY <3>1, <3>2 DEF RatesIn
  <2>4. new = [id |-> entry.id, bitDepth |-> entry.bitDepth, lsbDropped |-> entry.lsbDropped,
               rates |-> [entry.rates EXCEPT ![category] = lengths]]
    <3> HIDE DEF lengths
    <3>1. \A v : [entry EXCEPT !.rates = v]
                   = [id |-> entry.id, bitDepth |-> entry.bitDepth, lsbDropped |-> entry.lsbDropped, rates |-> v]
      BY EntryIs DEF EntryFields
    <3>2. new = [entry EXCEPT !.rates = [entry.rates EXCEPT ![category] = lengths]]
      BY DEF lengths
    <3> QED BY <3>1, <3>2
  <2> HIDE DEF new, lines, lengths
  <2>5. new = Meaning(lines)
    BY <2>2, <2>3, <2>4, EntryIs, MeaningFields
  <2> QED BY <1>1, <2>1, <2>5, TakeIInv DEF lines
<1>2. CASE Exit
  BY <1>2, ExitIInv
<1> QED BY <1>1, <1>2 DEF ReadBer
-----------------------------------------------------------------------------
(***************************************************************************)
(* Entries and profiles.                                                   *)
(***************************************************************************)
LEMMA AddBufferIInv ==
  ASSUME IInv, ADD_BUFFER
  PROVE  IInv'
<1>1. /\ configurations' = Registered /\ entry' = NewConfiguration /\ finished' = Append(finished, given)
      /\ given' = Nothing /\ UNCHANGED <<phase, energy, profiles>>
      /\ phase = "configurations" /\ Len(finished) < MaxEntries
  BY DEF ADD_BUFFER, EntryAfterAdd, Reading
<1>2. /\ DOMAIN configurations' = DOMAIN configurations \union {entry.id}
      /\ \A id \in DOMAIN configurations : configurations'[id] = configurations[id]
      /\ entry.id \notin DOMAIN configurations => configurations'[entry.id] = entry
  BY <1>1 DEF Registered
<1>3. EntryAsGiven'
  BY <1>1, EmptyMeaning DEF EntryAsGiven
<1> DEFINE n == Len(finished)
<1>4. /\ finished \in Seq(Lines) /\ n \in Nat /\ DOMAIN finished = 1 .. n
      /\ given \in Lines /\ n <= MaxEntries /\ MaxEntries \in Nat
  BY InputAssumption DEF IInv, FinishedOK, EntryAsGiven
<1>5. /\ finished' \in Seq(Lines) /\ Len(finished') = n + 1 /\ DOMAIN finished' = 1 .. (n + 1)
      /\ \A i \in 1 .. n : finished'[i] = finished[i]
      /\ finished'[n + 1] = given
  BY <1>1, <1>4
<1>6. FinishedOK'
  BY <1>1, <1>4, <1>5 DEF FinishedOK
<1>7. TypeOK'
  <2>1. IsConfiguration(entry')
    BY <1>1, EmptyMeaning, MeaningType
  <2>2. \A id \in DOMAIN configurations' :
          IsConfiguration(configurations'[id]) /\ configurations'[id].id = id
    BY <1>2 DEF IInv, TypeOK
  <2> QED BY <1>1, <1>2, <1>6, <2>1, <2>2 DEF IInv, TypeOK, FinishedOK
<1>8. ConfigurationsAsWritten'
  <2> DEFINE entries == [i \in DOMAIN finished |-> Meaning(finished[i])]
             entries1 == [i \in DOMAIN finished' |-> Meaning(finished'[i])]
  <2>1. /\ DOMAIN configurations = {entries[i].id : i \in DOMAIN entries}
        /\ \A i \in DOMAIN entries :
             (\A j \in 1 .. (i - 1) : entries[j].id # entries[i].id) =>
               configurations[entries[i].id] = entries[i]
    BY DEF IInv, ConfigurationsAsWritten
  <2>2. /\ DOMAIN entries = 1 .. n /\ DOMAIN entries1 = 1 .. (n + 1)
        /\ \A i \in 1 .. n : entries1[i] = entries[i]
        /\ entries1[n + 1] = entry
    BY <1>4, <1>5 DEF IInv, EntryAsGiven
  <2> HIDE DEF entries, entries1, n
  <2>3. DOMAIN configurations' = {entries1[i].id : i \in DOMAIN entries1}
    <3>1. \A i \in 1 .. (n + 1) : i \in 1 .. n \/ i = n + 1
      BY <1>4
    <3>2. 1 .. n \subseteq 1 .. (n + 1) /\ n + 1 \in 1 .. (n + 1)
      BY <1>4
    <3> QED BY <1>2, <2>1, <2>2, <3>1, <3>2
  <2>4. ASSUME NEW i \in 1 .. (n + 1), \A j \in 1 .. (i - 1) : entries1[j].id # entries1[i].id
        PROVE  configurations'[entries1[i].id] = entries1[i]
    <3>1. CASE i \in 1 .. n
      <4>1. 1 .. (i - 1) \subseteq 1 .. n
        BY <1>4, <3>1
      <4>2. \A j \in 1 .. (i - 1) : entries[j].id # entries[i].id
        BY <2>2, <2>4, <3>1, <4>1
      <4>3. entries[i].id \in DOMAIN configurations /\ configurations[entries[i].id] = entries[i]
        BY <2>1, <2>2, <3>1, <4>2
      <4> QED BY <1>2, <2>2, <3>1, <4>3
    <3>2. CASE i = n + 1
      <4>1. \A j \in 1 .. n : entries[j].id # entry.id
        <5>1. i - 1 = n
          BY <1>4, <3>2
        <5> QED BY <2>2, <2>4, <3>2, <5>1
      <4>2. entry.id \notin DOMAIN configurations
        BY <2>1, <2>2, <4>1
      <4> QED BY <1>2, <2>2, <3>2, <4>2
    <3> QED BY <1>4, <3>1, <3>2
  <2> QED BY <2>2, <2>3, <2>4 DEF ConfigurationsAsWritten, entries1
<1>9. ProfilesMatch'
  <2>1. \A id \in DOMAIN profiles : configurations'[id] = configurations[id]
    BY <1>2 DEF IInv, TypeOK
  <2> QED BY <1>1, <2>1 DEF IInv, ProfilesMatch
<1> QED BY <1>3, <1>6, <1>7, <1>8, <1>9 DEF IInv

LEMMA ReadProfileIInv ==
  ASSUME IInv, NEW profile \in Profiles, ReadProfile(profile)
  PROVE  IInv'
<1>1. CASE /\ profile.id \in DOMAIN configurations
           /\ \A values \in Range(profile.values) : CountsMatch(values, configurations[profile.id])
           /\ profiles' = [id \in DOMAIN profiles \union {profile.id} |->
                             IF id \in DOMAIN profiles THEN profiles[id] ELSE profile.values]
           /\ UNCHANGED <<phase, energy, entry, configurations, given, finished>>
  <2>1. /\ DOMAIN profiles' = DOMAIN profiles \union {profile.id}
        /\ \A id \in DOMAIN profiles : profiles'[id] = profiles[id]
        /\ profile.id \notin DOMAIN profiles => profiles'[profile.id] = profile.values
    BY <1>1
  <2>2. phase = "profiles"
    BY DEF ReadProfile
  <2>3. TypeOK'
    BY <1>1, <2>1 DEF IInv, TypeOK
  <2>4. EntryAsGiven' /\ FinishedOK' /\ ConfigurationsAsWritten'
    BY <1>1, EntryKept, FinishedKept DEF IInv
  <2>5. ProfilesMatch'
    BY <1>1, <2>1, <2>2 DEF IInv, ProfilesMatch
  <2> QED BY <2>3, <2>4, <2>5 DEF IInv
<1>2. CASE Exit
  BY <1>2, ExitIInv
<1> QED BY <1>1, <1>2 DEF ReadProfile

LEMMA EndsIInv ==
  ASSUME IInv, EndOfConfigurations \/ EndOfProfiles
  PROVE  IInv'
<1>1. /\ UNCHANGED <<energy, entry, configurations, profiles, given, finished>>
      /\ phase' \in {"profiles", "ready", "exited"}
      /\ phase' = "ready" /\ energy => DOMAIN configurations \subseteq DOMAIN profiles
  BY DEF EndOfConfigurations, EndOfProfiles
<1>2. TypeOK'
  BY <1>1 DEF IInv, TypeOK
<1>3. EntryAsGiven' /\ FinishedOK' /\ ConfigurationsAsWritten'
  BY <1>1, EntryKept, FinishedKept DEF IInv
<1>4. ProfilesMatch'
  BY <1>1 DEF IInv, ProfilesMatch
<1> QED BY <1>2, <1>3, <1>4 DEF IInv
-----------------------------------------------------------------------------
(***************************************************************************)
(* The inductive invariant, and the theorems.                              *)
(***************************************************************************)
LEMMA InitIInv == Init => IInv
<1> SUFFICES ASSUME Init PROVE IInv
  OBVIOUS
<1>1. /\ phase = "configurations" /\ energy \in BOOLEAN /\ entry = NewConfiguration
      /\ DOMAIN configurations = {} /\ DOMAIN profiles = {} /\ given = Nothing /\ finished = <<>>
  BY DEF Init, Nothing
<1>2. EntryAsGiven /\ IsConfiguration(entry)
  BY <1>1, EmptyMeaning, MeaningType DEF EntryAsGiven
<1>3. FinishedOK /\ DOMAIN finished = {} /\ Len(finished) <= MaxEntries
  BY <1>1, InputAssumption DEF FinishedOK
<1>4. TypeOK
  BY <1>1, <1>2, <1>3 DEF TypeOK
<1>5. ConfigurationsAsWritten
  BY <1>1, <1>3 DEF ConfigurationsAsWritten
<1>6. ProfilesMatch
  BY <1>1 DEF ProfilesMatch
<1> QED BY <1>2, <1>3, <1>4, <1>5, <1>6 DEF IInv

LEMMA NextIInv == IInv /\ [Next]_vars => IInv'
<1> SUFFICES ASSUME IInv, [Next]_vars PROVE IInv'
  OBVIOUS
<1>1. ASSUME NEW id \in Ids, ReadConfigurationId(id) PROVE IInv'
  BY <1>1, ReadIdIInv
<1>2. ASSUME NEW depth \in DepthValues, ReadBitDepth(depth) PROVE IInv'
  BY <1>2, ReadBitDepthIInv
<1>3. ASSUME NEW n \in LSBValues, ReadLSBDropped(n) PROVE IInv'
  BY <1>3, ReadLSBDroppedIInv
<1>4. ASSUME NEW category \in Categories, NEW line \in RateLines, ReadBer(category, line) PROVE IInv'
  BY <1>4, ReadBerIInv
<1>5. ASSUME ADD_BUFFER PROVE IInv'
  BY <1>5, AddBufferIInv
<1>6. ASSUME EndOfConfigurations \/ EndOfProfiles PROVE IInv'
  BY <1>6, EndsIInv
<1>7. ASSUME ReadMalformed PROVE IInv'
  BY <1>7, ExitIInv DEF ReadMalformed
<1>8. ASSUME NEW profile \in Profiles, ReadProfile(profile) PROVE IInv'
  BY <1>8, ReadProfileIInv
<1>9. ASSUME UNCHANGED vars PROVE IInv'
  <2>1. EntryAsGiven' /\ FinishedOK' /\ ConfigurationsAsWritten'
    BY <1>9, EntryKept, FinishedKept DEF vars, IInv
  <2>2. TypeOK' /\ ProfilesMatch'
    BY <1>9 DEF vars, IInv, TypeOK, ProfilesMatch
  <2> QED BY <2>1, <2>2 DEF IInv
<1> QED BY <1>1, <1>2, <1>3, <1>4, <1>5, <1>6, <1>7, <1>8, <1>9 DEF Next

LEMMA SpecIInv == Spec => []IInv
BY InitIInv, NextIInv, PTL DEF Spec

\* Every configuration, and the entry being read, has at least one bit and at
\* least one rate in each category, for any lines in any order.
THEOREM InputTypeCorrect == Spec => []TypeOK
<1>1. IInv => TypeOK
  BY DEF IInv
<1> QED BY <1>1, SpecIInv, PTL

\* Each configuration is what the lines of its own entry mean, nothing left
\* over from the entry before, and a repeated identifier keeps the first.
THEOREM EntriesTakenAsWritten == Spec => []ConfigurationsAsWritten
<1>1. IInv => ConfigurationsAsWritten
  BY DEF IInv
<1> QED BY <1>1, SpecIInv, PTL

\* A target that starts with energy profiles finds a consumption value at the
\* index of every rate of every configuration.
THEOREM ConsumptionForEveryRate == Spec => []EveryRateHasItsConsumption
<1>1. ASSUME IInv PROVE EveryRateHasItsConsumption
  <2> SUFFICES ASSUME phase = "ready" /\ energy, NEW id \in DOMAIN configurations
               PROVE  /\ id \in DOMAIN profiles
                      /\ \A values \in Range(profiles[id]), c \in Categories :
                           DOMAIN configurations[id].rates[c] = 1 .. values[c]
    BY DEF EveryRateHasItsConsumption
  <2>1. id \in DOMAIN profiles
    BY <1>1 DEF IInv, ProfilesMatch
  <2>2. ASSUME NEW values \in Range(profiles[id]), NEW c \in Categories
        PROVE  DOMAIN configurations[id].rates[c] = 1 .. values[c]
    <3>1. values[c] = Len(configurations[id].rates[c])
      BY <1>1, <2>1 DEF IInv, ProfilesMatch, CountsMatch
    <3>2. configurations[id].rates[c] \in Seq(Nat)
      BY <1>1 DEF IInv, TypeOK, IsConfiguration
    <3>3. DOMAIN configurations[id].rates[c] = 1 .. Len(configurations[id].rates[c])
      BY <3>2
    <3> QED BY <3>1, <3>3
  <2> QED BY <2>1, <2>2
<1>2. IInv => EveryRateHasItsConsumption
  BY <1>1
<1> QED BY <1>2, SpecIInv, PTL
=============================================================================
