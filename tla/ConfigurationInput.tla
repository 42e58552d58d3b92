------------------------- MODULE ConfigurationInput -------------------------
(***************************************************************************)
(* What ApproxSS makes of its two input files before the target starts     *)
(* (PintoolInput of configuration-input.cpp): the configurations of the    *)
(* fault injector, an entry of several lines each, and the energy          *)
(* consumption profiles, one for each configuration.                       *)
(*                                                                         *)
(* A line is one step, which changes the entry that is being read or ends  *)
(* the program; a profile is one step.  A rate line is known by its rates, *)
(* between semicolons: how many values a rate lists, and whether they are  *)
(* all zero, or one is outside [0, 1).  What a rate becomes is known by    *)
(* the length of its array, 0 for the null pointer; it is the bit depth    *)
(* that the entry has when the line is read, and stays so if a BitDepth    *)
(* line follows.                                                           *)
(*                                                                         *)
(* The build is one with a rate for each bit (MULTIPLE_BER_ELEMENT) and    *)
(* with LS_BIT_DROPPING, both on by default.                               *)
(***************************************************************************)
EXTENDS Integers, Sequences, Functions

CONSTANTS
  Ids,          \* the identifiers the files use, 0 among them
  DepthValues,  \* the values BitDepth lines give
  LSBValues,    \* the values LSBDropped lines give
  RateLines,    \* what ReadBer and WriteBer lines give
  Profiles,     \* the energy profiles the second file may have
  MultipleBer,  \* MULTIPLE_BER_CONFIGURATION
  MaxEntries    \* bound: entries of the first file

ASSUME InputAssumption ==
  /\ 0 \in Ids /\ DepthValues \subseteq Int /\ LSBValues \subseteq Int
  /\ RateLines \subseteq Seq([count : Nat \ {0}, value : {"zero", "positive", "outside"}])
  /\ MultipleBer \in BOOLEAN /\ MaxEntries \in Nat

VARIABLES
  phase,           \* the file being read, or how reading ended
  energy,          \* whether an energy profile file was given
  entry,           \* injectorCfg, the entry being read
  configurations,  \* g_injectorConfigurations
  profiles,        \* g_consumptionProfiles
  given,           \* history: what the lines of the entry have said, a rate
                   \* line with the bit depth it was read at
  finished         \* history: what those of the entries before it had said

vars == <<phase, energy, entry, configurations, profiles, given, finished>>

Categories == {"read", "write"}

BYTE_SIZE == 8

NoRate == 0

(***************************************************************************)
(* The injector configurations.                                            *)
(***************************************************************************)
\* The constructor of InjectionConfigurationReference.
NewConfiguration ==
  [id |-> 0, bitDepth |-> 8, lsbDropped |-> 0, rates |-> [c \in Categories |-> <<NoRate>>]]

\* What is read into after ADD_BUFFER.
EntryAfterAdd == NewConfiguration

Nothing == [f \in {} |-> f]

Init ==
  /\ phase = "configurations"
  /\ energy \in BOOLEAN
  /\ entry = NewConfiguration
  /\ configurations = Nothing
  /\ profiles = Nothing
  /\ given = Nothing
  /\ finished = <<>>

Reading == phase = "configurations" /\ Len(finished) < MaxEntries

\* PIN_ExitProcess.
Exit ==
  /\ phase' = "exited"
  /\ UNCHANGED <<energy, entry, configurations, profiles, given, finished>>

\* A line is taken in: the entry changes, and so does what was given.
Take(newEntry, field, value) ==
  /\ entry' = newEntry
  /\ given' = [f \in DOMAIN given \union {field} |-> IF f = field THEN value ELSE given[f]]
  /\ UNCHANGED <<phase, energy, configurations, profiles, finished>>

ReadConfigurationId(id) ==
  /\ Reading
  /\ Take([entry EXCEPT !.id = id], "id", id)

\* (Defect: no bits at all are let through.)
IsDepthOrNone(depth) == depth >= 0

IsDepth(depth) == depth > 0

\* The arrays of rates that were given before stay as they are.
ReadBitDepth(depth) ==
  /\ Reading
  /\ IF IsDepth(depth) THEN Take([entry EXCEPT !.bitDepth = depth], "bitDepth", depth) ELSE Exit

\* The checks of the line and of SetLSBDropped; above the bit depth only warns.
IsDroppable(n) == 0 <= n /\ n < BYTE_SIZE

ReadLSBDropped(n) ==
  /\ Reading
  /\ IF IsDroppable(n) THEN Take([entry EXCEPT !.lsbDropped = n], "lsbDropped", n) ELSE Exit

\* ProcessBerConfiguration of one rate: one value is for all the bits, and if
\* it is zero there is no array.
IsRate(rate, depth) == rate.value # "outside" /\ rate.count \in {1, depth}

RateLength(rate, depth) ==
  IF rate.count = 1 /\ rate.value = "zero" THEN NoRate ELSE depth

RateLengths(line, depth) == [i \in DOMAIN line |-> RateLength(line[i], depth)]

\* ProcessBerConfiguration of a line.
ReadBer(category, line) ==
  /\ Reading
  /\ IF /\ Len(line) >= 1
        /\ Len(line) = 1 \/ MultipleBer
        /\ \A i \in DOMAIN line : IsRate(line[i], entry.bitDepth)
     THEN Take([entry EXCEPT !.rates[category] = RateLengths(line, entry.bitDepth)], category,
               [rates |-> line, depth |-> entry.bitDepth])
     ELSE Exit

\* (Defect: the map takes the new entry in place of the one it has.)
RegisteredLast ==
  [id \in DOMAIN configurations \union {entry.id} |->
     IF id = entry.id THEN entry ELSE configurations[id]]

\* emplace_hint, unless the identifier is taken.
Registered ==
  [id \in DOMAIN configurations \union {entry.id} |->
     IF id \in DOMAIN configurations THEN configurations[id] ELSE entry]

ADD_BUFFER ==
  /\ Reading
  /\ configurations' = Registered
  /\ entry' = EntryAfterAdd
  /\ finished' = Append(finished, given)
  /\ given' = Nothing
  /\ UNCHANGED <<phase, energy, profiles>>

\* The end of the file; an entry that was not added is dropped.
EndOfConfigurations ==
  /\ phase = "configurations"
  /\ phase' = IF energy THEN "profiles" ELSE "ready"
  /\ UNCHANGED <<energy, entry, configurations, profiles, given, finished>>

\* An unknown field, or a value that cannot be parsed.
ReadMalformed ==
  /\ phase \in {"configurations", "profiles"}
  /\ Exit

(***************************************************************************)
(* The energy profiles.                                                    *)
(***************************************************************************)
\* (Defect: the values of both categories are counted against the read rates.)
CountsMatchReads(values, configuration) ==
  \A c \in Categories : values[c] = Len(configuration.rates["read"])

\* ProcessConsumptionValue: as many values as the category has rates.
CountsMatch(values, configuration) ==
  \A c \in Categories : values[c] = Len(configuration.rates[c])

\* A profile has the number of values of each category for the approximate
\* memory, and for the reference memory if it has one.
ReadProfile(profile) ==
  /\ phase = "profiles"
  /\ IF /\ profile.id \in DOMAIN configurations
        /\ \A values \in Range(profile.values) : CountsMatch(values, configurations[profile.id])
     THEN /\ profiles' = [id \in DOMAIN profiles \union {profile.id} |->
                            IF id \in DOMAIN profiles THEN profiles[id] ELSE profile.values]
          /\ UNCHANGED <<phase, energy, entry, configurations, given, finished>>
     ELSE Exit

EndOfProfiles ==
  /\ phase = "profiles"
  /\ phase' = IF DOMAIN configurations \subseteq DOMAIN profiles THEN "ready" ELSE "exited"
  /\ UNCHANGED <<energy, entry, configurations, profiles, given, finished>>

Next ==
  \/ \E id \in Ids : ReadConfigurationId(id)
  \/ \E depth \in DepthValues : ReadBitDepth(depth)
  \/ \E n \in LSBValues : ReadLSBDropped(n)
  \/ \E category \in Categories, line \in RateLines : ReadBer(category, line)
  \/ ADD_BUFFER
  \/ EndOfConfigurations
  \/ ReadMalformed
  \/ \E profile \in Profiles : ReadProfile(profile)
  \/ EndOfProfiles

Spec == Init /\ [][Next]_vars
-----------------------------------------------------------------------------
(***************************************************************************)
(* Properties.                                                             *)
(***************************************************************************)
IsConfiguration(c) ==
  /\ c.id \in Ids
  /\ c.bitDepth \in Nat \ {0}
  /\ c.lsbDropped \in Nat
  /\ \A category \in Categories : c.rates[category] \in Seq(Nat) /\ Len(c.rates[category]) >= 1

\* The entry being read and all the configurations have at least one bit, and
\* at least one rate in each category for the periods to go through (GetBer
\* takes the period modulo their number); profiles are of configurations.
TypeOK ==
  /\ phase \in {"configurations", "profiles", "ready", "exited"}
  /\ energy \in BOOLEAN
  /\ IsConfiguration(entry)
  /\ \A id \in DOMAIN configurations : IsConfiguration(configurations[id]) /\ configurations[id].id = id
  /\ DOMAIN profiles \subseteq DOMAIN configurations
  /\ Len(finished) <= MaxEntries

\* What an entry means, all its lines taken together: what the last line of a
\* field gives, or the default where no line does; a rate is for the bit depth
\* its line was read at.
Meaning(lines) ==
  LET Field(f, default) == IF f \in DOMAIN lines THEN lines[f] ELSE default
  IN  [id |-> Field("id", 0), bitDepth |-> Field("bitDepth", 8), lsbDropped |-> Field("lsbDropped", 0),
       rates |-> [c \in Categories |->
                    IF c \in DOMAIN lines THEN RateLengths(lines[c].rates, lines[c].depth) ELSE <<NoRate>>]]

\* The configurations are the entries the file adds, each by its own lines
\* alone, and of those with one identifier the first; README.md:213, "If any
\* are repeated, their configuration will be ignored".
ConfigurationsAsWritten ==
  LET entries == [i \in DOMAIN finished |-> Meaning(finished[i])]
  IN  /\ DOMAIN configurations = {entries[i].id : i \in DOMAIN entries}
      /\ \A i \in DOMAIN entries :
           (\A j \in 1 .. (i - 1) : entries[j].id # entries[i].id) =>
             configurations[entries[i].id] = entries[i]

\* Once the target starts with an energy profile file, every configuration has
\* a consumption value at the index of each of its rates, as the estimate for
\* any period of any buffer will look one up.
EveryRateHasItsConsumption ==
  phase = "ready" /\ energy =>
    \A id \in DOMAIN configurations :
      /\ id \in DOMAIN profiles
      /\ \A values \in Range(profiles[id]), c \in Categories :
           DOMAIN configurations[id].rates[c] = 1 .. values[c]
=============================================================================
