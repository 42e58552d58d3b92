------------------------ MODULE PintoolControlProofs ------------------------
(***************************************************************************)
(* Theorems about PintoolControl, for all threads, requests, addresses and *)
(* bounds.                                                                 *)
(***************************************************************************)
EXTENDS PintoolControl, FiniteSetTheorems, WellFoundedInduction, TLAPS

(***************************************************************************)
(* Ranges and maps.                                                        *)
(***************************************************************************)
LEMMA RangeType ==
  ASSUME NEW r \in Ranges
  PROVE  r.first \in Int /\ r.final \in Int /\ r.first < r.final
BY RequestsAssumption DEF Ranges

\* A map takes ranges of requests to requests.
LEMMA MapDef ==
  ASSUME NEW K, NEW V, NEW map
  PROVE  map \in Map(K, V) <=> /\ DOMAIN map \subseteq K
                               /\ map = [k \in DOMAIN map |-> map[k]]
                               /\ \A k \in DOMAIN map : map[k] \in V
<1>1. ASSUME map \in Map(K, V)
      PROVE  /\ DOMAIN map \subseteq K
             /\ map = [k \in DOMAIN map |-> map[k]]
             /\ \A k \in DOMAIN map : map[k] \in V
  <2>1. PICK D \in SUBSET K : map \in [D -> V]
    BY <1>1 DEF Map
  <2> QED BY <2>1
<1>2. ASSUME DOMAIN map \subseteq K, map = [k \in DOMAIN map |-> map[k]],
             \A k \in DOMAIN map : map[k] \in V
      PROVE  map \in Map(K, V)
  <2>1. map \in [DOMAIN map -> V]
    BY <1>2
  <2> QED BY <1>2, <2>1 DEF Map
<1> QED BY <1>1, <1>2

LEMMA EmptyMapType == EmptyMap \in Map(Ranges, Requests)
<1>1. DOMAIN EmptyMap = {} /\ EmptyMap = [k \in DOMAIN EmptyMap |-> EmptyMap[k]]
  BY DEF EmptyMap
<1> QED BY <1>1, MapDef

LEMMA InsertMap ==
  ASSUME NEW map \in Map(Ranges, Requests), NEW r \in Ranges, NEW b \in Requests
  PROVE  /\ Insert(map, r, b) \in Map(Ranges, Requests)
         /\ DOMAIN Insert(map, r, b) = DOMAIN map \union {r}
         /\ \A q \in DOMAIN map \union {r} : Insert(map, r, b)[q] = IF q = r THEN b ELSE map[q]
<1> DEFINE new == Insert(map, r, b)
<1>1. /\ DOMAIN map \subseteq Ranges
      /\ \A q \in DOMAIN map : map[q] \in Requests
  BY MapDef
<1>2. /\ DOMAIN new = DOMAIN map \union {r}
      /\ \A q \in DOMAIN map \union {r} : new[q] = IF q = r THEN b ELSE map[q]
      /\ new = [q \in DOMAIN new |-> new[q]]
  BY DEF Insert
<1> HIDE DEF new
<1>3. new \in Map(Ranges, Requests)
  <2>1. DOMAIN new \subseteq Ranges /\ \A q \in DOMAIN new : new[q] \in Requests
    BY <1>1, <1>2
  <2> QED BY <1>2, <2>1, MapDef
<1> QED BY <1>2, <1>3 DEF new

LEMMA EraseMap ==
  ASSUME NEW map \in Map(Ranges, Requests), NEW r
  PROVE  /\ Erase(map, r) \in Map(Ranges, Requests)
         /\ DOMAIN Erase(map, r) = DOMAIN map \ {r}
         /\ \A q \in DOMAIN map \ {r} : Erase(map, r)[q] = map[q]
<1> DEFINE new == Erase(map, r)
<1>1. /\ DOMAIN map \subseteq Ranges
      /\ \A q \in DOMAIN map : map[q] \in Requests
  BY MapDef
<1>2. /\ DOMAIN new = DOMAIN map \ {r}
      /\ \A q \in DOMAIN map \ {r} : new[q] = map[q]
      /\ new = [q \in DOMAIN new |-> new[q]]
  BY DEF Erase
<1> HIDE DEF new
<1>3. new \in Map(Ranges, Requests)
  <2>1. DOMAIN new \subseteq Ranges /\ \A q \in DOMAIN new : new[q] \in Requests
    BY <1>1, <1>2
  <2> QED BY <1>2, <2>1, MapDef
<1> QED BY <1>2, <1>3 DEF new

(***************************************************************************)
(* map::find.  A key is a range, or a point, the range without addresses   *)
(* that accesses are looked up by.                                         *)
(***************************************************************************)
IsKey(k) == k.first \in Int /\ k.final \in Int /\ k.first <= k.final

\* No two ranges of the map overlap.
Disjoint(map) ==
  \A r, q \in DOMAIN map : r # q => r.final <= q.first \/ q.final <= r.first

\* A set of integers that is bounded below has a least element.
LEMMA LeastInteger ==
  ASSUME NEW S, S \subseteq Int, S # {}, NEW low \in Int, \A n \in S : low <= n
  PROVE  \E n \in S : \A m \in S : n <= m
<1> DEFINE T == {k \in Nat : k + low \in S}
           R == OpToRel(<, Nat)
<1>1. T \subseteq Nat /\ T # {}
  <2>1. PICK n \in S : TRUE
    OBVIOUS
  <2>2. n - low \in Nat /\ (n - low) + low = n
    BY <2>1
  <2>3. n - low \in T
    BY <2>1, <2>2
  <2> QED BY <2>3
<1>2. IsWellFoundedOn(R, Nat)
  BY NatLessThanWellFounded
<1> HIDE DEF R, T
<1>3. PICK x \in T : \A y \in T : ~ (<<y, x>> \in R)
  BY <1>1, <1>2, WFMin
<1>4. ASSUME NEW y \in T PROVE x <= y
  <2>1. x \in Nat /\ y \in Nat
    BY <1>1
  <2>2. ~(y < x)
    BY <1>3, <2>1 DEF R, OpToRel
  <2> QED BY <2>1, <2>2
<1>5. ASSUME NEW m \in S PROVE x + low <= m
  <2>1. m - low \in Nat /\ (m - low) + low = m
    BY <1>5
  <2>2. m - low \in T
    BY <2>1 DEF T
  <2> QED BY <1>1, <1>4, <2>1, <2>2
<1> QED BY <1>5 DEF T

\* find finds a range when the map has one that is equivalent to the key, and
\* it finds nothing else.
LEMMA FindSome ==
  ASSUME NEW map \in Map(Ranges, Requests), Disjoint(map), NEW key, IsKey(key),
         NEW r \in DOMAIN map, Equivalent(r, key)
  PROVE  Find(map, key) # {}
<1>1. DOMAIN map \subseteq Ranges
  BY MapDef
<1>2. \A q \in DOMAIN map : q.first \in Int /\ q.final \in Int /\ q.first < q.final
  BY <1>1, RangeType
<1>3. CASE \E q \in DOMAIN map : Equivalent(q, key) /\ q.first < key.first
  <2>1. PICK q \in DOMAIN map : Equivalent(q, key) /\ q.first < key.first
    BY <1>3
  <2>2. ASSUME NEW p \in DOMAIN map, Equivalent(p, key) PROVE q.first <= p.first
    BY <2>1, <2>2, <1>2 DEF Disjoint, Equivalent, Before, IsKey
  <2>3. q \in Find(map, key)
    BY <2>1, <2>2 DEF Find
  <2> QED BY <2>3
<1>4. CASE \A q \in DOMAIN map : Equivalent(q, key) => key.first <= q.first
  <2> DEFINE S == {q.first : q \in {p \in DOMAIN map : Equivalent(p, key)}}
  <2>1. S \subseteq Int /\ S # {} /\ key.first \in Int /\ \A n \in S : key.first <= n
    BY <1>2, <1>4 DEF IsKey
  <2> HIDE DEF S
  <2>2. PICK n \in S : \A m \in S : n <= m
    BY <2>1, LeastInteger
  <2>3. PICK q \in DOMAIN map : Equivalent(q, key) /\ q.first = n
    BY <2>2 DEF S
  <2>4. \A p \in DOMAIN map : Equivalent(p, key) => q.first <= p.first
    BY <2>2, <2>3 DEF S
  <2>5. q \in Find(map, key)
    BY <2>3, <2>4 DEF Find
  <2> QED BY <2>5
<1> QED BY <1>2, <1>3, <1>4 DEF IsKey

\* A point is in at most one range, which is the one find finds.
LEMMA FindPoint ==
  ASSUME NEW map \in Map(Ranges, Requests), Disjoint(map), NEW a \in Int
  PROVE  Find(map, Point(a)) = {r \in DOMAIN map : r.first < a /\ a < r.final}
<1>1. DOMAIN map \subseteq Ranges
  BY MapDef
<1>2. \A q \in DOMAIN map : q.first \in Int /\ q.final \in Int /\ q.first < q.final
  BY <1>1, RangeType
<1>3. \A q \in DOMAIN map : Equivalent(q, Point(a)) <=> q.first < a /\ a < q.final
  BY <1>2 DEF Equivalent, Before, Point
<1>4. ASSUME NEW r \in DOMAIN map, r.first < a, a < r.final
      PROVE  \A q \in DOMAIN map : Equivalent(q, Point(a)) => r.first <= q.first
  BY <1>2, <1>3, <1>4 DEF Disjoint
<1> QED BY <1>3, <1>4 DEF Find

\* Inserting a range that find does not meet keeps the ranges disjoint.
LEMMA InsertDisjoint ==
  ASSUME NEW map \in Map(Ranges, Requests), Disjoint(map),
         NEW r \in Ranges, Find(map, r) = {}, NEW b \in Requests
  PROVE  Disjoint(Insert(map, r, b))
<1>1. DOMAIN map \subseteq Ranges
  BY MapDef
<1>2. \A q \in DOMAIN map \union {r} : q.first \in Int /\ q.final \in Int /\ q.first < q.final
  BY <1>1, RangeType
<1>3. ASSUME NEW q \in DOMAIN map PROVE q.final <= r.first \/ r.final <= q.first
  <2>1. IsKey(r)
    BY <1>2 DEF IsKey
  <2>2. ~Equivalent(q, r)
    BY <2>1, FindSome
  <2> QED BY <2>2 DEF Equivalent, Before
<1> HIDE DEF Disjoint
<1>4. DOMAIN Insert(map, r, b) = DOMAIN map \union {r}
  BY InsertMap
<1> QED BY <1>3, <1>4 DEF Disjoint

LEMMA EraseDisjoint ==
  ASSUME NEW map \in Map(Ranges, Requests), Disjoint(map), NEW r
  PROVE  Disjoint(Erase(map, r))
BY EraseMap DEF Disjoint
-----------------------------------------------------------------------------
(***************************************************************************)
(* The buffers that a map lists, and the one a request is served by.       *)
(***************************************************************************)
LEMMA MapsTyped ==
  ASSUME TypeOK, NEW c \in Controls
  PROVE  /\ activeBuffers[c] \in Map(Ranges, Requests)
         /\ DOMAIN activeBuffers[c] \subseteq Ranges
         /\ \A r \in DOMAIN activeBuffers[c] : activeBuffers[c][r] \in Requests
<1>1. activeBuffers[c] \in Map(Ranges, Requests)
  BY DEF TypeOK
<1> QED BY <1>1, MapDef

LEMMA DisjointMaps ==
  ActiveRangesDisjoint <=> \A c \in Controls : Disjoint(activeBuffers[c])
BY DEF ActiveRangesDisjoint, Disjoint

\* A request that meets nothing is served by the buffer it describes, one that
\* meets a buffer of the main map by that buffer.
LEMMA BufferForRequest ==
  ASSUME TypeOK, NEW request \in Requests
  PROVE  /\ request.range \in Ranges
         /\ BufferFor(request) \in Requests
         /\ MetBy(request) = {} => BufferFor(request) = request
         /\ MetBy(request) # {} =>
              \E r \in DOMAIN activeBuffers[Main] :
                 /\ Equivalent(r, request.range)
                 /\ BufferFor(request) = activeBuffers[Main][r]
<1>1. request.range \in Ranges
  BY DEF Ranges
<1>2. MetBy(request) = {} => BufferFor(request) = request
  BY DEF BufferFor
<1>3. ASSUME MetBy(request) # {}
      PROVE  \E r \in DOMAIN activeBuffers[Main] :
               /\ Equivalent(r, request.range)
               /\ BufferFor(request) = activeBuffers[Main][r]
  <2> DEFINE r == CHOOSE r \in MetBy(request) : TRUE
  <2>1. r \in MetBy(request)
    BY <1>3
  <2>2. BufferFor(request) = activeBuffers[Main][r]
    BY <1>3 DEF BufferFor
  <2> HIDE DEF r
  <2>3. r \in DOMAIN activeBuffers[Main] /\ Equivalent(r, request.range)
    BY <2>1 DEF MetBy, Find
  <2> QED BY <2>2, <2>3
<1>4. Main \in Controls
  BY DEF Controls
<1>5. BufferFor(request) \in Requests
  BY <1>2, <1>3, <1>4, MapsTyped
<1> QED BY <1>1, <1>2, <1>3, <1>5
-----------------------------------------------------------------------------
(***************************************************************************)
(* The inductive invariant of both builds.  Where an overlap in a map could*)
(* come about is add_approx, which asks find, and find is sure to find an  *)
(* overlapping range only if the map has none so far.                      *)
(***************************************************************************)
\* Until Fini, the entries of the maps are buffers generalBuffers owns, and the
\* main map has each under its own range.
EntriesOwned ==
  ~ended => \A c \in Controls : \A r \in DOMAIN activeBuffers[c] :
    LET b == activeBuffers[c][r] IN b \in generalBuffers /\ (c = Main => r = b.range)

IInv == TypeOK /\ ActiveRangesDisjoint /\ EntriesOwned

LEMMA InitIInv == Init => IInv
<1> SUFFICES ASSUME Init PROVE IInv
  OBVIOUS
<1>1. activeBuffers \in [Controls -> Map(Ranges, Requests)]
  BY EmptyMapType DEF Init
<1>2. TypeOK
  <2>1. level \in [Controls -> LeastLevel .. MaxLevel] /\ isActive \in [Requests -> 0 .. MaxActive]
    BY ControlAssumption DEF Init
  <2>2. /\ currentPeriod \in Periods /\ logPeriod \in [Requests -> Periods]
        /\ ended \in BOOLEAN
    <3>1. 0 \in Periods
      BY ControlAssumption DEF Periods
    <3> QED BY <3>1 DEF Init
  <2>4. running \subseteq Threads
    BY DEF Init
  <2>3. /\ loaded \in [Threads -> {NotLoaded} \union 0 .. MaxActive]
        /\ injectionEnabled \in [Controls -> BOOLEAN]
        /\ generalBuffers \subseteq Requests
        /\ bufferLogs \in [Requests -> SUBSET Periods]
        /\ report \in [Requests -> SUBSET Periods]
        /\ activeIn \in [Requests -> SUBSET Periods]
        /\ astray \subseteq Requests
    BY DEF Init
  <2> QED BY <1>1, <2>1, <2>2, <2>3, <2>4 DEF TypeOK
<1>3. \A c \in Controls : DOMAIN activeBuffers[c] = {}
  BY DEF Init, EmptyMap
<1> QED BY <1>2, <1>3 DEF IInv, ActiveRangesDisjoint, EntriesOwned

\* RecordActive keeps the history one of periods.
LEMMA RecordActiveType ==
  ASSUME TypeOK, RecordActive, currentPeriod' \in Periods
  PROVE  activeIn' \in [Requests -> SUBSET Periods]
BY DEF RecordActive, TypeOK

LEMMA AddStep ==
  ASSUME IInv, ~ended, NEW t \in Threads, NEW request \in Requests, add_approx(t, request)
  PROVE  IInv'
<1> DEFINE range   == request.range
           b       == BufferFor(request)
           toMain  == MetBy(request) = {}
           toLocal == PinLocked /\ Find(activeBuffers[t], range) = {}
           Gets(c) == (c = Main /\ toMain) \/ (c = t /\ toLocal)
<1>1. TypeOK /\ ActiveRangesDisjoint /\ EntriesOwned
  BY DEF IInv
<1>2. range \in Ranges /\ b \in Requests
  BY <1>1, BufferForRequest
<1>3. t \in Controls /\ Main \in Controls /\ t # Main
  BY ControlAssumption DEF Controls
<1>4. activeBuffers' = [c \in Controls |->
         IF Gets(c) THEN Insert(activeBuffers[c], range, b) ELSE activeBuffers[c]]
  BY DEF add_approx
<1>5. ASSUME NEW c \in Controls, Gets(c) PROVE Find(activeBuffers[c], range) = {}
  BY <1>5 DEF MetBy
<1>6. ended' = ended /\ generalBuffers' = IF toMain THEN generalBuffers \union {b} ELSE generalBuffers
  BY DEF add_approx
<1>7. /\ UNCHANGED <<running, level, injectionEnabled, loaded, currentPeriod, report>>
      /\ RecordActive
      /\ isActive' = [isActive EXCEPT ![b] = @ + (Count(toMain) + Count(toLocal))]
      /\ isActive'[b] <= MaxActive
      /\ logPeriod' \in [Requests -> Periods] /\ bufferLogs' \in [Requests -> SUBSET Periods]
  <2>1. Reactivate(b, Count(toMain) + Count(toLocal))
    BY DEF add_approx
  <2>2. logPeriod' \in [Requests -> Periods] /\ bufferLogs' \in [Requests -> SUBSET Periods]
    BY <1>1, <2>1 DEF Reactivate, TypeOK
  <2> QED BY <2>1, <2>2 DEF add_approx, Reactivate, controls
<1> HIDE DEF range, b, toMain, toLocal
<1>8. ASSUME NEW c \in Controls
      PROVE  activeBuffers'[c] \in Map(Ranges, Requests) /\ Disjoint(activeBuffers'[c])
  <2>1. activeBuffers[c] \in Map(Ranges, Requests) /\ Disjoint(activeBuffers[c])
    BY <1>1, MapsTyped, DisjointMaps
  <2>2. CASE Gets(c)
    <3>1. activeBuffers'[c] = Insert(activeBuffers[c], range, b)
      BY <1>4, <2>2
    <3>2. Find(activeBuffers[c], range) = {}
      BY <1>5, <2>2
    <3>3. Insert(activeBuffers[c], range, b) \in Map(Ranges, Requests)
      BY <1>2, <2>1, InsertMap
    <3>4. Disjoint(Insert(activeBuffers[c], range, b))
      BY <1>2, <2>1, <3>2, InsertDisjoint
    <3> QED BY <3>1, <3>3, <3>4
  <2>3. CASE ~Gets(c)
    BY <1>4, <2>1, <2>3
  <2> QED BY <2>2, <2>3
<1>9. TypeOK'
  <2>1. activeBuffers' \in [Controls -> Map(Ranges, Requests)]
    BY <1>4, <1>8
  <2>2. isActive' \in [Requests -> 0 .. MaxActive]
    <3>1. isActive[b] + (Count(toMain) + Count(toLocal)) \in 0 .. MaxActive
      BY <1>1, <1>2, <1>7, ControlAssumption DEF TypeOK, Count
    <3> QED BY <1>1, <1>7, <3>1 DEF TypeOK
  <2>3. activeIn' \in [Requests -> SUBSET Periods]
    BY <1>1, <1>7, RecordActiveType DEF TypeOK
  <2>4. astray' \subseteq Requests
    BY <1>1, <1>2 DEF add_approx, TypeOK, b
  <2> QED BY <1>1, <1>2, <1>6, <1>7, <2>1, <2>2, <2>3, <2>4 DEF TypeOK
<1>10. EntriesOwned'
  <2> SUFFICES ASSUME NEW c \in Controls, NEW r \in DOMAIN activeBuffers'[c]
               PROVE  LET e == activeBuffers'[c][r] IN e \in generalBuffers' /\ (c = Main => r = e.range)
    BY DEF EntriesOwned
  <2>1. CASE r \in DOMAIN activeBuffers[c] /\ activeBuffers'[c][r] = activeBuffers[c][r]
    BY <1>1, <1>6, <2>1 DEF EntriesOwned
  <2>2. CASE Gets(c) /\ r = range /\ activeBuffers'[c][r] = b
    <3>1. CASE toMain
      <4>1. b = request
        BY <1>1, <3>1, BufferForRequest DEF b, toMain
      <4> QED BY <1>6, <2>2, <3>1, <4>1 DEF range
    <3>2. CASE ~toMain
      <4>1. PICK q \in DOMAIN activeBuffers[Main] : Equivalent(q, range) /\ b = activeBuffers[Main][q]
        BY <1>1, <3>2, BufferForRequest DEF b, toMain, range
      <4>2. b \in generalBuffers
        BY <1>1, <1>3, <4>1 DEF EntriesOwned
      <4> QED BY <1>3, <1>6, <2>2, <3>2, <4>2
    <3> QED BY <3>1, <3>2
  <2>3. \/ r \in DOMAIN activeBuffers[c] /\ activeBuffers'[c][r] = activeBuffers[c][r]
        \/ Gets(c) /\ r = range /\ activeBuffers'[c][r] = b
    <3>1. CASE Gets(c)
      <4>1. activeBuffers[c] \in Map(Ranges, Requests)
        BY <1>1, MapsTyped
      <4>2. activeBuffers'[c] = Insert(activeBuffers[c], range, b)
        BY <1>4, <3>1
      <4>3. /\ DOMAIN Insert(activeBuffers[c], range, b) = DOMAIN activeBuffers[c] \union {range}
            /\ \A q \in DOMAIN activeBuffers[c] \union {range} :
                 Insert(activeBuffers[c], range, b)[q] = IF q = range THEN b ELSE activeBuffers[c][q]
        BY DEF Insert
      <4> QED BY <3>1, <4>2, <4>3
    <3>2. CASE ~Gets(c)
      BY <1>4, <3>2
    <3> QED BY <3>1, <3>2
  <2> QED BY <2>1, <2>2, <2>3
<1> QED BY <1>8, <1>9, <1>10, DisjointMaps DEF IInv, ActiveRangesDisjoint, Disjoint

\* What a step that erases entries, at most one from each map, and leaves the
\* rest of the registry as it is does to the maps.
LEMMA EraseStep ==
  ASSUME IInv, NEW E, NEW range,
         activeBuffers' = [c \in Controls |->
            IF c \in E THEN Erase(activeBuffers[c], range) ELSE activeBuffers[c]],
         ended' = ended, generalBuffers' = generalBuffers
  PROVE  /\ activeBuffers' \in [Controls -> Map(Ranges, Requests)]
         /\ ActiveRangesDisjoint'
         /\ EntriesOwned'
<1>1. TypeOK /\ ActiveRangesDisjoint /\ EntriesOwned
  BY DEF IInv
<1>2. ASSUME NEW c \in Controls
      PROVE  /\ activeBuffers'[c] \in Map(Ranges, Requests)
             /\ Disjoint(activeBuffers'[c])
             /\ \A r \in DOMAIN activeBuffers'[c] :
                  r \in DOMAIN activeBuffers[c] /\ activeBuffers'[c][r] = activeBuffers[c][r]
  <2>1. activeBuffers[c] \in Map(Ranges, Requests) /\ Disjoint(activeBuffers[c])
    BY <1>1, MapsTyped, DisjointMaps
  <2>2. CASE c \in E
    <3>1. activeBuffers'[c] = Erase(activeBuffers[c], range)
      BY <2>2
    <3>2. Disjoint(Erase(activeBuffers[c], range))
      BY <2>1, EraseDisjoint
    <3>3. Erase(activeBuffers[c], range) \in Map(Ranges, Requests)
      BY <2>1, EraseMap
    <3>4. \A r \in DOMAIN Erase(activeBuffers[c], range) :
            r \in DOMAIN activeBuffers[c] /\ Erase(activeBuffers[c], range)[r] = activeBuffers[c][r]
      BY DEF Erase
    <3> QED BY <3>1, <3>2, <3>3, <3>4
  <2>3. CASE c \notin E
    BY <2>1, <2>3
  <2> QED BY <2>2, <2>3
<1>3. activeBuffers' \in [Controls -> Map(Ranges, Requests)]
  BY <1>2
<1>4. ActiveRangesDisjoint'
  BY <1>2 DEF ActiveRangesDisjoint, Disjoint
<1>5. EntriesOwned'
  BY <1>1, <1>2 DEF EntriesOwned
<1> QED BY <1>3, <1>4, <1>5

LEMMA RemoveStep ==
  ASSUME IInv, ~ended, NEW t \in Threads, NEW range \in Ranges, remove_approx(t, range)
  PROVE  IInv'
<1> DEFINE inLocal == PinLocked /\ HasRange(activeBuffers[t], range)
           inMain  == HasRange(activeBuffers[Main], range)
           times   == [b \in Requests |-> Count(inLocal /\ activeBuffers[t][range] = b)
                                          + Count(inMain /\ activeBuffers[Main][range] = b)]
           E       == {c \in Controls : \/ c = t /\ inLocal
                                        \/ c = Main /\ inMain /\ IsRetired(activeBuffers[Main][range])}
<1>1. TypeOK
  BY DEF IInv
<1>2. /\ isActive' = LeftActive(times) /\ bufferLogs' = LogsLeft(times)
      /\ activeBuffers' = [c \in Controls |->
            IF c \in E THEN Erase(activeBuffers[c], range) ELSE activeBuffers[c]]
      /\ UNCHANGED <<running, level, injectionEnabled, loaded, generalBuffers, currentPeriod,
                     logPeriod, report, ended, activeIn, astray>>
  BY DEF remove_approx, controls
<1>3. \A b \in Requests : times[b] \in Nat
  BY DEF Count
<1> HIDE DEF times, E
<1>4. isActive' \in [Requests -> 0 .. MaxActive]
  BY <1>1, <1>2, <1>3, ControlAssumption DEF TypeOK, LeftActive
<1>5. bufferLogs' \in [Requests -> SUBSET Periods]
  BY <1>1, <1>2 DEF TypeOK, LogsLeft
<1>6. activeBuffers' \in [Controls -> Map(Ranges, Requests)] /\ ActiveRangesDisjoint' /\ EntriesOwned'
  BY <1>2, EraseStep
<1> QED BY <1>1, <1>2, <1>4, <1>5, <1>6 DEF IInv, TypeOK

LEMMA ThreadFiniStoreStep ==
  ASSUME IInv, ~ended, NEW t \in Threads, ThreadFiniStore(t)
  PROVE  IInv'
<1>1. TypeOK
  BY DEF IInv
<1>2. PICK r \in DOMAIN activeBuffers[t] :
        LET b == activeBuffers[t][r] IN
        /\ isActive' = IF loaded[t] >= 1 THEN [isActive EXCEPT ![b] = loaded[t] - 1] ELSE isActive
        /\ bufferLogs' = IF loaded[t] = 1
                         THEN [bufferLogs EXCEPT ![b] = @ \union {logPeriod[b]}] ELSE bufferLogs
        /\ activeBuffers' = [activeBuffers EXCEPT ![t] = Erase(@, r)]
  BY DEF ThreadFiniStore
<1>3. /\ loaded' = [loaded EXCEPT ![t] = NotLoaded]
      /\ UNCHANGED <<running, level, injectionEnabled, generalBuffers, currentPeriod,
                     logPeriod, report, ended, activeIn>>
  BY DEF ThreadFiniStore
<1>4. t \in Controls /\ activeBuffers[t][r] \in Requests
  BY <1>1, MapsTyped DEF Controls
<1>5. isActive' \in [Requests -> 0 .. MaxActive]
  BY <1>1, <1>2, <1>4, ControlAssumption DEF TypeOK, NotLoaded
<1>6. bufferLogs' \in [Requests -> SUBSET Periods]
  BY <1>1, <1>2, <1>4 DEF TypeOK
<1>7. loaded' \in [Threads -> {NotLoaded} \union 0 .. MaxActive] /\ astray' \subseteq Requests
  <2>1. astray' \subseteq Requests
    BY <1>1, MapsTyped DEF ThreadFiniStore, TypeOK, Controls
  <2> QED BY <1>1, <1>3, <2>1 DEF TypeOK
<1> DEFINE E == {t}
<1>8. activeBuffers' = [c \in Controls |->
            IF c \in E THEN Erase(activeBuffers[c], r) ELSE activeBuffers[c]]
  BY <1>1, <1>2, <1>4 DEF TypeOK
<1> HIDE DEF E
<1>9. activeBuffers' \in [Controls -> Map(Ranges, Requests)] /\ ActiveRangesDisjoint' /\ EntriesOwned'
  BY <1>3, <1>8, EraseStep
<1> QED BY <1>1, <1>3, <1>5, <1>6, <1>7, <1>9 DEF IInv, TypeOK

LEMMA FiniStep ==
  ASSUME IInv, ~ended, Fini
  PROVE  IInv'
<1> DEFINE times == [b \in Requests |-> Cardinality({c \in Destroyed : b \in Listed(c)})]
<1>1. TypeOK /\ ActiveRangesDisjoint
  BY DEF IInv
<1>2. /\ activeBuffers' = [c \in Controls |-> IF c \in Destroyed THEN EmptyMap ELSE activeBuffers[c]]
      /\ report' = [b \in Requests |-> IF b \in generalBuffers THEN LogsLeft(times)[b] ELSE {}]
      /\ generalBuffers' = {} /\ isActive' = [b \in Requests |-> 0]
      /\ bufferLogs' = [b \in Requests |-> {}] /\ running' = {} /\ ended' = TRUE
      /\ UNCHANGED <<level, injectionEnabled, loaded, currentPeriod, logPeriod, activeIn, astray>>
  BY DEF Fini
<1> HIDE DEF times
<1>3. activeBuffers' \in [Controls -> Map(Ranges, Requests)]
  BY <1>1, <1>2, EmptyMapType DEF TypeOK
<1>4. ActiveRangesDisjoint'
  <2>1. DOMAIN EmptyMap = {}
    BY DEF EmptyMap
  <2> QED BY <1>1, <1>2, <2>1 DEF ActiveRangesDisjoint
<1>5. report' \in [Requests -> SUBSET Periods]
  BY <1>1, <1>2 DEF TypeOK, LogsLeft
<1>6. isActive' \in [Requests -> 0 .. MaxActive]
  BY <1>2, ControlAssumption
<1>7. EntriesOwned'
  BY <1>2 DEF EntriesOwned
<1> QED BY <1>1, <1>2, <1>3, <1>4, <1>5, <1>6, <1>7 DEF IInv, TypeOK

LEMMA NextPeriodStep ==
  ASSUME IInv, NextPeriod
  PROVE  IInv'
<1>1. TypeOK /\ ActiveRangesDisjoint /\ EntriesOwned
  BY DEF IInv
<1>2. currentPeriod' \in Periods
  BY <1>1, ControlAssumption DEF NextPeriod, TypeOK, Periods
<1>3. activeIn' \in [Requests -> SUBSET Periods]
  BY <1>1, <1>2, RecordActiveType DEF NextPeriod
<1>4. logPeriod' \in [Requests -> Periods] /\ bufferLogs' \in [Requests -> SUBSET Periods]
  BY <1>1, <1>2 DEF NextPeriod, TypeOK
<1>5. UNCHANGED <<running, level, injectionEnabled, loaded, activeBuffers, generalBuffers,
                  isActive, report, ended, astray>>
  BY DEF NextPeriod, controls
<1> QED BY <1>1, <1>2, <1>3, <1>4, <1>5 DEF IInv, TypeOK, ActiveRangesDisjoint, EntriesOwned

LEMMA NextIInv == IInv /\ [Next]_vars => IInv'
<1> SUFFICES ASSUME IInv, [Next]_vars PROVE IInv'
  OBVIOUS
<1>0. TypeOK /\ ActiveRangesDisjoint /\ EntriesOwned
  BY DEF IInv
<1> DEFINE Same == UNCHANGED <<activeBuffers, generalBuffers, ended>>
<1>1. ASSUME Same PROVE ActiveRangesDisjoint' /\ EntriesOwned'
  BY <1>0, <1>1 DEF ActiveRangesDisjoint, EntriesOwned
<1>2. ASSUME ~ended, NEW t \in running, Routine(t) PROVE IInv'
  <2>1. t \in Threads /\ Control(t) \in Controls
    BY <1>0 DEF TypeOK, Control, Controls
  <2>2. ASSUME NEW enabled \in BOOLEAN, SetInjection(t, enabled) PROVE IInv'
    <3>1. TypeOK' /\ Same
      BY <1>0, <2>1, <2>2 DEF SetInjection, TypeOK, buffers
    <3> QED BY <1>1, <3>1 DEF IInv
  <2>3. ASSUME NEW step \in {-1, 1}, ChangeLevel(t, step) PROVE IInv'
    <3>1. TypeOK' /\ Same
      BY <1>0, <2>1, <2>3 DEF ChangeLevel, TypeOK, buffers
    <3> QED BY <1>1, <3>1 DEF IInv
  <2>4. CASE NextPeriod
    BY <2>4, NextPeriodStep
  <2>5. ASSUME NEW request \in Requests, add_approx(t, request) PROVE IInv'
    BY <1>2, <2>1, <2>5, AddStep
  <2>6. ASSUME NEW range \in Ranges, remove_approx(t, range) PROVE IInv'
    BY <1>2, <2>1, <2>6, RemoveStep
  <2> QED BY <1>2, <2>2, <2>3, <2>4, <2>5, <2>6 DEF Routine
<1>3. ASSUME NEW t \in Threads, ThreadStart(t) PROVE IInv'
  <2>1. TypeOK' /\ Same
    <3>1. 0 \in LeastLevel .. MaxLevel /\ t \in Controls
      BY ControlAssumption DEF Controls
    <3>2. level' \in [Controls -> LeastLevel .. MaxLevel]
      BY <1>0, <1>3, <3>1 DEF ThreadStart, TypeOK
    <3> QED BY <1>0, <1>3, <3>1, <3>2 DEF ThreadStart, TypeOK, buffers
  <2> QED BY <1>1, <2>1 DEF IInv
<1>4. ASSUME NEW t \in Threads, ThreadFini(t) PROVE IInv'
  <2>1. TypeOK' /\ Same
    BY <1>0, <1>4 DEF ThreadFini, TypeOK, buffers
  <2> QED BY <1>1, <2>1 DEF IInv
<1>5. ASSUME NEW t \in Threads, ThreadFiniLoad(t) PROVE IInv'
  <2>1. PICK r \in DOMAIN activeBuffers[t] : loaded' = [loaded EXCEPT ![t] = isActive[activeBuffers[t][r]]]
    BY <1>5 DEF ThreadFiniLoad
  <2>2. activeBuffers[t][r] \in Requests
    BY <1>0, MapsTyped DEF Controls
  <2>3. loaded' \in [Threads -> {NotLoaded} \union 0 .. MaxActive]
    BY <1>0, <2>1, <2>2 DEF TypeOK
  <2>4. TypeOK' /\ Same
    BY <1>0, <1>5, <2>3 DEF ThreadFiniLoad, TypeOK, buffers
  <2> QED BY <1>1, <2>4 DEF IInv
<1>6. CASE UNCHANGED vars
  <2>1. TypeOK' /\ Same
    BY <1>0, <1>6 DEF vars, controls, buffers, TypeOK
  <2> QED BY <1>1, <2>1 DEF IInv
<1> QED BY <1>2, <1>3, <1>4, <1>5, <1>6, ThreadFiniStoreStep, FiniStep DEF Next

LEMMA SpecIInv == Spec => []IInv
BY InitIInv, NextIInv, PTL DEF Spec

\* Every variable has its type, in both builds: no routine counts below zero
\* or past a bound, and every map is one of ranges to buffers.
THEOREM ControlTypeCorrect == Spec => []TypeOK
<1>1. IInv => TypeOK
  BY DEF IInv
<1> QED BY <1>1, SpecIInv, PTL

\* The ranges of an active map never overlap, in both builds: add_approx meets
\* every range it would overlap, although RangeCompare orders only ranges that
\* do not.
THEOREM RangesStayDisjoint == Spec => []ActiveRangesDisjoint
<1>1. IInv => ActiveRangesDisjoint
  BY DEF IInv
<1> QED BY <1>1, SpecIInv, PTL

\* CheckAndForward forwards an access to the active buffer the address lies
\* in, the first address excepted, and to no other.
THEOREM AccessForwarded == Spec => []ForwardedToItsBuffer
<1>1. ASSUME IInv PROVE ForwardedToItsBuffer
  <2> SUFFICES ASSUME ~ended, NEW a \in Addresses
               PROVE  Forwarded(a) = {b \in Listed(Main) : b.range.first < a /\ a < b.range.final}
    BY DEF ForwardedToItsBuffer
  <2> DEFINE map == activeBuffers[Main]
  <2>1. TypeOK /\ ActiveRangesDisjoint /\ EntriesOwned /\ Main \in Controls /\ a \in Int
    BY <1>1, ControlAssumption DEF IInv, Controls
  <2>2. map \in Map(Ranges, Requests) /\ Disjoint(map)
    BY <2>1, MapsTyped, DisjointMaps
  <2>3. \A r \in DOMAIN map : map[r].range = r
    BY <2>1 DEF EntriesOwned
  <2> HIDE DEF map
  <2>4. Find(map, Point(a)) = {r \in DOMAIN map : r.first < a /\ a < r.final}
    BY <2>1, <2>2, FindPoint
  <2> QED BY <2>3, <2>4 DEF map, Forwarded, Listed
<1> QED BY <1>1, SpecIInv, PTL

-----------------------------------------------------------------------------
(***************************************************************************)
(* The count of users against the main map.  remove_approx retires a       *)
(* buffer for the thread and for the main map by one range, and erases the *)
(* main entry only if it finds it by that range; so the count reaches 0    *)
(* with the entry in place only if a thread has the buffer under another.  *)
(***************************************************************************)
UnderOwnRange(b) ==
  \A t \in Threads : \A r \in DOMAIN activeBuffers[t] : activeBuffers[t][r] = b => r = b.range

InUse(b) == isActive[b] >= 1 <=> b \in Listed(Main)

SharedInv ==
  IInv /\ (~ended => \A b \in Requests \ astray : UnderOwnRange(b) /\ InUse(b))

\* The main map has a buffer only under the buffer's own range, where find
\* finds it.
LEMMA ListedUnderRange ==
  ASSUME IInv, ~ended, NEW b \in Requests, b \in Listed(Main)
  PROVE  /\ b.range \in DOMAIN activeBuffers[Main]
         /\ activeBuffers[Main][b.range] = b
         /\ HasRange(activeBuffers[Main], b.range)
<1> DEFINE map == activeBuffers[Main]
<1>1. TypeOK /\ ActiveRangesDisjoint /\ EntriesOwned /\ Main \in Controls
  BY DEF IInv, Controls
<1>2. map \in Map(Ranges, Requests) /\ Disjoint(map) /\ DOMAIN map \subseteq Ranges
  BY <1>1, MapsTyped, DisjointMaps
<1>3. b.range \in DOMAIN map /\ map[b.range] = b
  BY <1>1 DEF EntriesOwned, Listed
<1> HIDE DEF map
<1>4. \A q \in DOMAIN map : q.first \in Int /\ q.final \in Int /\ q.first < q.final
  BY <1>2, RangeType
<1>5. b.range \in Find(map, b.range)
  <2>1. Equivalent(b.range, b.range)
    BY <1>3, <1>4 DEF Equivalent, Before
  <2>2. ASSUME NEW q \in DOMAIN map, Equivalent(q, b.range) PROVE q = b.range
    BY <1>2, <1>3, <1>4, <2>2 DEF Disjoint, Equivalent, Before
  <2> QED BY <1>3, <1>4, <2>1, <2>2 DEF Find
<1> QED BY <1>3, <1>5 DEF map, HasRange

LEMMA SharedAdd ==
  ASSUME SharedInv, ~ended, NEW t \in Threads, NEW request \in Requests, add_approx(t, request),
         NEW b \in Requests \ astray'
  PROVE  (UnderOwnRange(b) /\ InUse(b))'
<1> DEFINE buffer  == BufferFor(request)
           toMain  == MetBy(request) = {}
           toLocal == PinLocked /\ Find(activeBuffers[t], request.range) = {}
<1>1. IInv /\ TypeOK /\ EntriesOwned /\ t # Main /\ Main \in Controls /\ t \in Controls
  BY ControlAssumption DEF SharedInv, IInv, Controls
<1>2. /\ activeBuffers' = [c \in Controls |->
            IF (c = Main /\ toMain) \/ (c = t /\ toLocal)
            THEN Insert(activeBuffers[c], request.range, buffer) ELSE activeBuffers[c]]
      /\ isActive' = [isActive EXCEPT ![buffer] = @ + (Count(toMain) + Count(toLocal))]
      /\ astray' = IF toLocal /\ request.range # buffer.range THEN astray \union {buffer} ELSE astray
  BY DEF add_approx, Reactivate
<1>3. /\ buffer \in Requests
      /\ toMain => buffer = request
      /\ ~toMain => buffer \in Listed(Main)
  <2>1. ~toMain => buffer \in Listed(Main)
    BY <1>1, BufferForRequest DEF Listed
  <2> QED BY <1>1, <2>1, BufferForRequest
<1>4. b \notin astray /\ UnderOwnRange(b) /\ InUse(b)
  BY <1>2 DEF SharedInv
<1>5. toLocal /\ buffer = b => request.range = b.range
  BY <1>2
<1>6. isActive[b] \in Nat /\ isActive[buffer] \in Nat
  BY <1>1, <1>3 DEF TypeOK
<1> HIDE DEF buffer, toMain, toLocal
<1>7. UnderOwnRange(b)'
  <2> SUFFICES ASSUME NEW u \in Threads, NEW r \in DOMAIN activeBuffers'[u], activeBuffers'[u][r] = b
               PROVE  r = b.range
    BY DEF UnderOwnRange
  <2>1. u \in Controls /\ u # Main
    BY ControlAssumption DEF Controls
  <2>2. CASE u = t /\ toLocal
    <3>1. activeBuffers'[u] = Insert(activeBuffers[u], request.range, buffer)
      BY <1>2, <2>1, <2>2
    <3>2. \/ r = request.range /\ buffer = b
          \/ r \in DOMAIN activeBuffers[u] /\ activeBuffers[u][r] = b
      BY <3>1 DEF Insert
    <3> QED BY <1>4, <1>5, <2>2, <3>2 DEF UnderOwnRange
  <2>3. CASE ~(u = t /\ toLocal)
    <3>1. activeBuffers'[u] = activeBuffers[u]
      BY <1>2, <2>1, <2>3
    <3> QED BY <1>4, <3>1 DEF UnderOwnRange
  <2> QED BY <2>2, <2>3
<1>8. InUse(b)'
  <2>1. b \in Listed(Main)' <=> b \in Listed(Main) \/ (toMain /\ buffer = b)
    <3>1. CASE toMain
      <4>1. activeBuffers'[Main] = Insert(activeBuffers[Main], request.range, buffer)
        BY <1>1, <1>2, <3>1
      <4>2. request.range \notin DOMAIN activeBuffers[Main]
        <5>1. ASSUME request.range \in DOMAIN activeBuffers[Main] PROVE FALSE
          <6>1. activeBuffers[Main][request.range].range = request.range
            BY <1>1, <5>1 DEF EntriesOwned
          <6>2. /\ activeBuffers[Main][request.range] \in Requests
                /\ activeBuffers[Main][request.range] \in Listed(Main)
            BY <1>1, <5>1, MapsTyped DEF Listed
          <6>3. request.range \in MetBy(request)
            BY <1>1, <6>1, <6>2, ListedUnderRange DEF HasRange, MetBy
          <6> QED BY <3>1, <6>3 DEF toMain
        <5> QED BY <5>1
      <4>3. Listed(Main)' = Listed(Main) \union {buffer}
        BY <4>1, <4>2 DEF Listed, Insert
      <4> QED BY <3>1, <4>3
    <3>2. CASE ~toMain
      <4>1. activeBuffers'[Main] = activeBuffers[Main]
        BY <1>1, <1>2, <3>2
      <4> QED BY <3>2, <4>1 DEF Listed
    <3> QED BY <3>1, <3>2
  <2>2. CASE b = buffer
    <3>1. isActive'[b] = isActive[b] + (Count(toMain) + Count(toLocal))
      BY <1>1, <1>2, <2>2 DEF TypeOK
    <3>2. toMain => isActive'[b] >= 1
      BY <1>6, <3>1 DEF Count
    <3>3. ~toMain => isActive'[b] >= isActive[b] /\ b \in Listed(Main)
      BY <1>3, <1>6, <2>2, <3>1 DEF Count
    <3>4. isActive'[b] \in Nat
      BY <1>6, <3>1 DEF Count
    <3> QED BY <1>4, <1>6, <2>1, <2>2, <3>2, <3>3, <3>4 DEF InUse
  <2>3. CASE b # buffer
    <3>1. isActive'[b] = isActive[b]
      BY <1>1, <1>2, <2>3 DEF TypeOK
    <3> QED BY <1>4, <2>1, <2>3, <3>1 DEF InUse
  <2> QED BY <2>2, <2>3
<1> QED BY <1>7, <1>8

LEMMA SharedRemove ==
  ASSUME SharedInv, ~ended, NEW t \in Threads, NEW range \in Ranges, remove_approx(t, range),
         NEW b \in Requests \ astray'
  PROVE  (UnderOwnRange(b) /\ InUse(b))'
<1> DEFINE inLocal == PinLocked /\ HasRange(activeBuffers[t], range)
           inMain  == HasRange(activeBuffers[Main], range)
           times   == [c \in Requests |-> Count(inLocal /\ activeBuffers[t][range] = c)
                                          + Count(inMain /\ activeBuffers[Main][range] = c)]
           erased  == inMain /\ IsRetired(activeBuffers[Main][range])
<1>1. IInv /\ TypeOK /\ EntriesOwned /\ t # Main /\ Main \in Controls /\ t \in Controls
  BY ControlAssumption DEF SharedInv, IInv, Controls
<1>2. /\ isActive' = LeftActive(times)
      /\ activeBuffers' = [c \in Controls |->
            IF (c = t /\ inLocal) \/ (c = Main /\ inMain /\ IsRetired(activeBuffers[Main][range]))
            THEN Erase(activeBuffers[c], range) ELSE activeBuffers[c]]
      /\ astray' = astray
  BY DEF remove_approx
<1>3. UnderOwnRange(b) /\ InUse(b)
  BY <1>2 DEF SharedInv
<1>4. isActive[b] \in Nat
  BY <1>1 DEF TypeOK
<1>5. times[b] = Count(inLocal /\ activeBuffers[t][range] = b) + Count(inMain /\ activeBuffers[Main][range] = b)
  OBVIOUS
<1>6. inLocal => range \in DOMAIN activeBuffers[t]
  BY DEF HasRange, Find
<1>7. inMain => range \in DOMAIN activeBuffers[Main]
  BY DEF HasRange, Find
<1>8. isActive'[b] = IF isActive[b] > times[b] THEN isActive[b] - times[b] ELSE 0
  BY <1>2 DEF LeftActive
<1> HIDE DEF inLocal, inMain, times
<1>9. UnderOwnRange(b)'
  <2> SUFFICES ASSUME NEW u \in Threads, NEW r \in DOMAIN activeBuffers'[u], activeBuffers'[u][r] = b
               PROVE  r = b.range
    BY DEF UnderOwnRange
  <2>1. u \in Controls
    BY DEF Controls
  <2>2. \/ activeBuffers'[u] = Erase(activeBuffers[u], range)
        \/ activeBuffers'[u] = activeBuffers[u]
    BY <1>2, <2>1
  <2>3. r \in DOMAIN activeBuffers[u] /\ activeBuffers[u][r] = b
    BY <2>2 DEF Erase
  <2> QED BY <1>3, <2>3 DEF UnderOwnRange
<1>10. b \in Listed(Main)' <=> b \in Listed(Main) /\ ~(erased /\ activeBuffers[Main][range] = b)
  <2>1. CASE erased
    <3>1. activeBuffers'[Main] = Erase(activeBuffers[Main], range)
      BY <1>1, <1>2, <2>1
    <3>2. \A r \in DOMAIN activeBuffers[Main] : activeBuffers[Main][r].range = r
      BY <1>1 DEF EntriesOwned
    <3>3. b \in Listed(Main)' <=> \E r \in DOMAIN activeBuffers[Main] \ {range} : activeBuffers[Main][r] = b
      BY <3>1 DEF Listed, Erase
    <3>4. range \in DOMAIN activeBuffers[Main]
      BY <1>7, <2>1
    <3>5. b \in Listed(Main) <=> \E r \in DOMAIN activeBuffers[Main] : activeBuffers[Main][r] = b
      BY DEF Listed
    <3> QED BY <2>1, <3>2, <3>3, <3>4, <3>5
  <2>2. CASE ~erased
    <3>1. activeBuffers'[Main] = activeBuffers[Main]
      BY <1>1, <1>2, <2>2
    <3> QED BY <2>2, <3>1 DEF Listed
  <2> QED BY <2>1, <2>2
<1>11. CASE times[b] = 0
  <2>1. ~(inMain /\ activeBuffers[Main][range] = b)
    BY <1>5, <1>11 DEF Count
  <2>2. isActive'[b] = isActive[b]
    BY <1>4, <1>8, <1>11
  <2>3. b \in Listed(Main)' <=> b \in Listed(Main)
    BY <1>10, <2>1
  <2> QED BY <1>3, <1>9, <2>2, <2>3 DEF InUse
<1>12. CASE inMain /\ activeBuffers[Main][range] = b
  <2>1. b \in Listed(Main)
    BY <1>7, <1>12 DEF Listed
  <2>2. b \in Listed(Main)' <=> ~(isActive'[b] = 0)
    BY <1>10, <1>12, <2>1 DEF IsRetired
  <2>3. isActive'[b] \in Nat
    <3>1. times[b] \in Nat
      BY <1>5 DEF Count
    <3> QED BY <1>4, <1>8, <3>1
  <2> QED BY <1>9, <2>2, <2>3 DEF InUse
<1>13. CASE inLocal /\ activeBuffers[t][range] = b /\ ~(inMain /\ activeBuffers[Main][range] = b)
  <2>1. range = b.range
    BY <1>3, <1>6, <1>13 DEF UnderOwnRange
  <2>2. b \notin Listed(Main)
    BY <1>1, <1>13, <2>1, ListedUnderRange DEF inMain
  <2>3. isActive[b] = 0
    BY <1>3, <1>4, <2>2 DEF InUse
  <2>4. isActive'[b] = 0
    BY <1>5, <1>8, <2>3 DEF Count
  <2> QED BY <1>9, <1>10, <2>2, <2>4 DEF InUse
<1>14. times[b] = 0 \/ (inLocal /\ activeBuffers[t][range] = b) \/ (inMain /\ activeBuffers[Main][range] = b)
  BY <1>5 DEF Count
<1> QED BY <1>11, <1>12, <1>13, <1>14

LEMMA SharedFiniStore ==
  ASSUME SharedInv, ~ended, NEW t \in Threads, ThreadFiniStore(t), NEW b \in Requests \ astray'
  PROVE  (UnderOwnRange(b) /\ InUse(b))'
<1>1. TypeOK /\ t \in Controls /\ t # Main
  BY ControlAssumption DEF SharedInv, IInv, Controls
<1>2. PICK r \in DOMAIN activeBuffers[t] :
        LET e == activeBuffers[t][r] IN
        /\ isActive' = IF loaded[t] >= 1 THEN [isActive EXCEPT ![e] = loaded[t] - 1] ELSE isActive
        /\ astray' = IF loaded[t] = 1 \/ (loaded[t] > 1 /\ loaded[t] # isActive[e])
                     THEN astray \union {e} ELSE astray
        /\ activeBuffers' = [activeBuffers EXCEPT ![t] = Erase(@, r)]
  BY DEF ThreadFiniStore
<1> DEFINE e == activeBuffers[t][r]
<1>3. UnderOwnRange(b) /\ InUse(b)
  BY <1>2 DEF SharedInv
<1>4. e \in Requests /\ isActive[b] \in Nat /\ loaded[t] \in Int
  BY <1>1, MapsTyped, ControlAssumption DEF TypeOK, NotLoaded
<1>5. isActive'[b] >= 1 <=> isActive[b] >= 1
  <2>1. CASE b = e /\ loaded[t] >= 1
    <3>1. loaded[t] > 1 /\ loaded[t] = isActive[b]
      BY <1>2, <1>4, <2>1
    <3>2. isActive'[b] = loaded[t] - 1
      BY <1>1, <1>2, <2>1 DEF TypeOK
    <3> QED BY <1>4, <3>1, <3>2
  <2>2. CASE ~(b = e /\ loaded[t] >= 1)
    <3>1. isActive'[b] = isActive[b]
      BY <1>1, <1>2, <2>2 DEF TypeOK
    <3> QED BY <3>1
  <2> QED BY <2>1, <2>2
<1> HIDE DEF e
<1>6. \A c \in Controls : activeBuffers'[c] = IF c = t THEN Erase(activeBuffers[c], r) ELSE activeBuffers[c]
  BY <1>1, <1>2 DEF TypeOK
<1>7. Listed(Main)' = Listed(Main)
  BY <1>1, <1>6 DEF Listed, Controls
<1>8. UnderOwnRange(b)'
  <2> SUFFICES ASSUME NEW u \in Threads, NEW q \in DOMAIN activeBuffers'[u], activeBuffers'[u][q] = b
               PROVE  q = b.range
    BY DEF UnderOwnRange
  <2>1. u \in Controls
    BY DEF Controls
  <2>2. \/ activeBuffers'[u] = Erase(activeBuffers[u], r)
        \/ activeBuffers'[u] = activeBuffers[u]
    BY <1>6, <2>1
  <2>3. q \in DOMAIN activeBuffers[u] /\ activeBuffers[u][q] = b
    BY <2>2 DEF Erase
  <2> QED BY <1>3, <2>3 DEF UnderOwnRange
<1> QED BY <1>3, <1>5, <1>7, <1>8 DEF InUse

LEMMA InitSharedInv == Init => SharedInv
<1> SUFFICES ASSUME Init PROVE SharedInv
  OBVIOUS
<1>1. \A c \in Controls : DOMAIN activeBuffers[c] = {}
  BY DEF Init, EmptyMap
<1>2. ASSUME NEW b \in Requests PROVE UnderOwnRange(b) /\ InUse(b)
  <2>1. UnderOwnRange(b)
    BY <1>1 DEF UnderOwnRange, Controls
  <2>2. b \notin Listed(Main) /\ isActive[b] = 0
    BY <1>1 DEF Listed, Controls, Init
  <2> QED BY <2>1, <2>2 DEF InUse
<1> QED BY <1>2, InitIInv DEF SharedInv

LEMMA NextSharedInv == SharedInv /\ [Next]_vars => SharedInv'
<1> SUFFICES ASSUME SharedInv, [Next]_vars PROVE SharedInv'
  OBVIOUS
<1>1. IInv'
  BY NextIInv DEF SharedInv
<1>2. TypeOK
  BY DEF SharedInv, IInv
<1>3. ASSUME UNCHANGED <<activeBuffers, isActive, astray, ended>> PROVE SharedInv'
  BY <1>1, <1>3 DEF SharedInv, UnderOwnRange, InUse, Listed
<1>4. ASSUME ended' = ended, \A b \in Requests \ astray' : (UnderOwnRange(b) /\ InUse(b))' PROVE SharedInv'
  BY <1>1, <1>4 DEF SharedInv
<1>5. ASSUME ~ended, NEW t \in running, Routine(t) PROVE SharedInv'
  <2>1. t \in Threads
    BY <1>2 DEF TypeOK
  <2>2. ASSUME NEW enabled \in BOOLEAN, SetInjection(t, enabled) PROVE SharedInv'
    BY <1>3, <2>2 DEF SetInjection, buffers
  <2>3. ASSUME NEW step \in {-1, 1}, ChangeLevel(t, step) PROVE SharedInv'
    BY <1>3, <2>3 DEF ChangeLevel, buffers
  <2>4. CASE NextPeriod
    BY <1>3, <2>4 DEF NextPeriod
  <2>5. ASSUME NEW request \in Requests, add_approx(t, request) PROVE SharedInv'
    <3>1. ended' = ended
      BY <2>5 DEF add_approx
    <3> QED BY <1>4, <1>5, <2>1, <2>5, <3>1, SharedAdd
  <2>6. ASSUME NEW range \in Ranges, remove_approx(t, range) PROVE SharedInv'
    <3>1. ended' = ended
      BY <2>6 DEF remove_approx
    <3> QED BY <1>4, <1>5, <2>1, <2>6, <3>1, SharedRemove
  <2> QED BY <1>5, <2>2, <2>3, <2>4, <2>5, <2>6 DEF Routine
<1>6. ASSUME NEW t \in Threads, ThreadStart(t) \/ ThreadFini(t) \/ ThreadFiniLoad(t) PROVE SharedInv'
  BY <1>3, <1>6 DEF ThreadStart, ThreadFini, ThreadFiniLoad, buffers
<1>7. ASSUME ~ended, NEW t \in Threads, ThreadFiniStore(t) PROVE SharedInv'
  <2>1. ended' = ended
    BY <1>7 DEF ThreadFiniStore
  <2> QED BY <1>4, <1>7, <2>1, SharedFiniStore
<1>8. ASSUME Fini PROVE SharedInv'
  BY <1>1, <1>8 DEF Fini, SharedInv
<1>9. CASE UNCHANGED vars
  BY <1>3, <1>9 DEF vars, buffers
<1> QED BY <1>5, <1>6, <1>7, <1>8, <1>9 DEF Next

LEMMA SpecSharedInv == Spec => []SharedInv
BY InitSharedInv, NextSharedInv, PTL DEF Spec

\* Both builds: a buffer has users exactly while the main map has it, whatever
\* threads add, share and remove, unless one has entered it under another
\* range or has miscounted or retired it in ThreadFini.
THEOREM ListedExactlyWhileInUse == Spec => []ListedWhileInUse
<1>1. SharedInv => ListedWhileInUse
  BY DEF SharedInv, InUse, ListedWhileInUse
<1> QED BY <1>1, SpecSharedInv, PTL

\* The PIN_LOCKED build: a thread is injected in the buffers it has added and
\* in no other, as long as all of them are in use and under their own ranges.
THEOREM InjectedWhereBufferAdded == Spec => []InjectedWhereAdded
<1>1. ASSUME SharedInv PROVE InjectedWhereAdded
  <2> SUFFICES ASSUME PinLocked, ~ended, NEW t \in running, NEW a \in Addresses,
                      \A b \in Listed(t) : isActive[b] >= 1 /\ b \notin astray
               PROVE  MayInject(t, a) <=>
                        isThreadInjectionEnabled(t) /\ Forwarded(a) \intersect Listed(t) # {}
    BY DEF InjectedWhereAdded
  <2> DEFINE map == activeBuffers[Main]
             own == activeBuffers[t]
  <2>1. /\ IInv /\ TypeOK /\ ActiveRangesDisjoint /\ EntriesOwned /\ t \in Threads
        /\ t \in Controls /\ Main \in Controls /\ a \in Int
    BY <1>1, ControlAssumption DEF SharedInv, IInv, TypeOK, Controls
  <2>2. map \in Map(Ranges, Requests) /\ Disjoint(map) /\ own \in Map(Ranges, Requests) /\ Disjoint(own)
    BY <2>1, MapsTyped, DisjointMaps
  <2>3. \A r \in DOMAIN own : own[r] \in Requests /\ own[r] \in Listed(t)
    BY <2>1, MapsTyped DEF Listed
  <2>4. \A r \in DOMAIN own : r = own[r].range /\ own[r] \in Listed(Main)
    BY <1>1, <2>1, <2>3 DEF SharedInv, UnderOwnRange, InUse
  <2>5. \A r \in DOMAIN own : r \in DOMAIN map /\ map[r] = own[r]
    BY <2>1, <2>3, <2>4, ListedUnderRange
  <2> HIDE DEF map, own
  <2>6. Find(map, Point(a)) = {r \in DOMAIN map : r.first < a /\ a < r.final}
    BY <2>1, <2>2, FindPoint
  <2>7. Find(own, Point(a)) = {r \in DOMAIN own : r.first < a /\ a < r.final}
    BY <2>1, <2>2, FindPoint
  <2>8. Forwarded(a) = {map[r] : r \in Find(map, Point(a))}
    BY DEF Forwarded, map
  <2>9. Listed(t) = {own[r] : r \in DOMAIN own}
    BY DEF Listed, own
  <2>10. MayInject(t, a) <=> /\ Forwarded(a) # {} /\ isThreadInjectionEnabled(t)
                             /\ Find(own, Point(a)) # {}
    BY DEF MayInject, own
  <2>11. ASSUME Find(own, Point(a)) # {} PROVE Forwarded(a) \intersect Listed(t) # {}
    <3>1. PICK r \in DOMAIN own : r.first < a /\ a < r.final
      BY <2>7, <2>11
    <3>2. r \in Find(map, Point(a)) /\ map[r] = own[r]
      BY <2>5, <2>6, <3>1
    <3> QED BY <2>8, <2>9, <3>1, <3>2
  <2>12. ASSUME Forwarded(a) \intersect Listed(t) # {} PROVE Find(own, Point(a)) # {} /\ Forwarded(a) # {}
    <3>1. PICK r \in Find(map, Point(a)) : map[r] \in Listed(t)
      BY <2>8, <2>12
    <3>2. PICK q \in DOMAIN own : own[q] = map[r]
      BY <2>9, <3>1
    <3>3. r = map[r].range
      BY <2>1, <2>6, <3>1 DEF EntriesOwned, map
    <3>4. q = r
      BY <2>4, <3>2, <3>3
    <3>5. q \in Find(own, Point(a))
      BY <2>6, <2>7, <3>1, <3>4
    <3> QED BY <2>12, <3>5
  <2> QED BY <2>10, <2>11, <2>12
<1> QED BY <1>1, SpecSharedInv, PTL
-----------------------------------------------------------------------------
(***************************************************************************)
(* The default build.  Its threads have no maps, and every buffer is in    *)
(* one of two situations: the main map has it, it is active once and all   *)
(* its periods but the current one are stored; or it is retired and all    *)
(* are.  A buffer retired in the current period must have its log under    *)
(* that period, or ReactivateBuffer would open another one.                *)
(***************************************************************************)
ThreadMapsEmpty == \A t \in Threads : DOMAIN activeBuffers[t] = {}

InPeriod(b) ==
  IF b \in Listed(Main)
  THEN /\ isActive[b] = 1
       /\ logPeriod[b] = currentPeriod
       /\ currentPeriod \in activeIn[b]
       /\ bufferLogs[b] = activeIn[b] \ {currentPeriod}
  ELSE /\ isActive[b] = 0
       /\ currentPeriod \in bufferLogs[b] => logPeriod[b] = currentPeriod
       /\ bufferLogs[b] = activeIn[b]

\* No period but those so far, and no period without an owner.
PeriodsSoFar(b) ==
  /\ activeIn[b] \subseteq 0 .. currentPeriod
  /\ activeIn[b] # {} => b \in generalBuffers

DefaultInv ==
  /\ IInv
  /\ ThreadMapsEmpty
  /\ ~ended => \A b \in Requests : InPeriod(b) /\ PeriodsSoFar(b)
  /\ ReportComplete

\* A buffer of the main map is there once, under its own range.
LEMMA ListedMain ==
  ASSUME IInv, ~ended, NEW b \in Requests
  PROVE  b \in Listed(Main) <=> /\ b.range \in DOMAIN activeBuffers[Main]
                                /\ activeBuffers[Main][b.range] = b
BY DEF IInv, EntriesOwned, Listed, Controls

LEMMA RecordActiveIs ==
  ASSUME RecordActive, NEW b \in Requests
  PROVE  activeIn'[b] = IF b \in Listed(Main)' THEN activeIn[b] \union {currentPeriod'}
                        ELSE activeIn[b]
BY DEF RecordActive, Listed

LEMMA InitDefaultInv == Init => DefaultInv
<1> SUFFICES ASSUME Init PROVE DefaultInv
  OBVIOUS
<1>1. \A c \in Controls : DOMAIN activeBuffers[c] = {}
  BY DEF Init, EmptyMap
<1>2. ThreadMapsEmpty
  BY <1>1 DEF ThreadMapsEmpty, Controls
<1>3. Listed(Main) = {}
  BY <1>1 DEF Listed, Controls
<1>4. ASSUME NEW b \in Requests PROVE InPeriod(b) /\ PeriodsSoFar(b)
  BY <1>3 DEF InPeriod, PeriodsSoFar, Init
<1>5. ReportComplete
  BY DEF Init, ReportComplete
<1> QED BY <1>2, <1>4, <1>5, InitIInv DEF DefaultInv

LEMMA DefaultNextPeriod ==
  ASSUME DefaultInv, ~ended, NextPeriod, NEW b \in Requests
  PROVE  (InPeriod(b) /\ PeriodsSoFar(b))'
<1>1. IInv /\ InPeriod(b) /\ PeriodsSoFar(b) /\ currentPeriod \in Nat /\ TypeOK
  BY ControlAssumption DEF DefaultInv, IInv, TypeOK, Periods
<1>2. /\ currentPeriod' = currentPeriod + 1
      /\ bufferLogs'[b] = IF b \in Listed(Main) THEN bufferLogs[b] \union {logPeriod[b]} ELSE bufferLogs[b]
      /\ logPeriod'[b] = IF b \in Listed(Main) THEN currentPeriod + 1 ELSE logPeriod[b]
      /\ isActive' = isActive /\ generalBuffers' = generalBuffers
  BY DEF NextPeriod
<1>3. Listed(Main)' = Listed(Main)
  BY DEF NextPeriod, Listed
<1>4. activeIn'[b] = IF b \in Listed(Main) THEN activeIn[b] \union {currentPeriod + 1} ELSE activeIn[b]
  BY <1>2, <1>3, RecordActiveIs DEF NextPeriod
<1>5. currentPeriod + 1 \notin activeIn[b] /\ activeIn'[b] \subseteq 0 .. currentPeriod'
  BY <1>1, <1>2, <1>4 DEF PeriodsSoFar
<1>6. InPeriod(b)'
  BY <1>1, <1>2, <1>3, <1>4, <1>5 DEF InPeriod
<1>7. activeIn'[b] # {} => b \in generalBuffers
  BY <1>1, <1>2, <1>4 DEF InPeriod, PeriodsSoFar
<1> QED BY <1>2, <1>5, <1>6, <1>7 DEF PeriodsSoFar

LEMMA DefaultAdd ==
  ASSUME ~PinLocked, DefaultInv, ~ended, NEW t \in Threads, NEW request \in Requests,
         add_approx(t, request), NEW b \in Requests
  PROVE  (InPeriod(b) /\ PeriodsSoFar(b))'
<1> DEFINE buffer == BufferFor(request)
           toMain == MetBy(request) = {}
           map    == activeBuffers[Main]
<1>1. /\ IInv /\ TypeOK /\ currentPeriod \in Nat
      /\ InPeriod(b) /\ PeriodsSoFar(b)
  BY ControlAssumption DEF DefaultInv, IInv, TypeOK, Periods
<1>2. /\ activeBuffers'[Main] = IF toMain THEN Insert(map, request.range, buffer) ELSE map
      /\ generalBuffers' = IF toMain THEN generalBuffers \union {buffer} ELSE generalBuffers
      /\ Reactivate(buffer, Count(toMain) + Count(FALSE))
      /\ currentPeriod' = currentPeriod /\ RecordActive
  BY ControlAssumption DEF add_approx, Controls
<1>3. buffer \in Requests /\ request.range \in Ranges /\ (toMain => buffer = request)
  BY <1>1, BufferForRequest
<1>4. map \in Map(Ranges, Requests) /\ Disjoint(map) /\ DOMAIN map \subseteq Ranges
  BY <1>1, MapsTyped, DisjointMaps DEF IInv, Controls
<1>5. activeIn'[b] = IF b \in Listed(Main)' THEN activeIn[b] \union {currentPeriod} ELSE activeIn[b]
  BY <1>2, RecordActiveIs
<1>6. CASE ~toMain
  <2>1. /\ isActive'[b] = isActive[b]
        /\ bufferLogs' = bufferLogs /\ logPeriod' = logPeriod
    BY <1>1, <1>2, <1>3, <1>6 DEF Reactivate, Count, TypeOK
  <2>2. Listed(Main)' = Listed(Main)
    BY <1>2, <1>6 DEF Listed
  <2>3. activeIn'[b] = activeIn[b]
    BY <1>1, <1>5, <2>2 DEF InPeriod
  <2>4. InPeriod(b)'
    BY <1>1, <1>2, <2>1, <2>2, <2>3 DEF InPeriod
  <2> QED BY <1>1, <1>2, <1>6, <2>3, <2>4 DEF PeriodsSoFar
<1>7. CASE toMain
  <2>1. request \notin Listed(Main)
    <3>1. ASSUME request \in Listed(Main) PROVE FALSE
      <4>1. request.range \in DOMAIN map
        BY <1>1, <3>1, ListedMain
      <4>2. IsKey(request.range) /\ Equivalent(request.range, request.range)
        BY <1>3, RangeType DEF IsKey, Equivalent, Before
      <4> HIDE DEF map
      <4>3. Find(map, request.range) # {}
        BY <1>4, <4>1, <4>2, FindSome
      <4> QED BY <1>7, <4>3 DEF MetBy, map
    <3> QED BY <3>1
  <2>2. isActive[request] = 0
    BY <1>1, <2>1 DEF DefaultInv, InPeriod
  <2>3. /\ isActive'[b] = IF b = request THEN 1 ELSE isActive[b]
        /\ bufferLogs'[b] = IF b = request THEN bufferLogs[b] \ {currentPeriod} ELSE bufferLogs[b]
        /\ logPeriod'[b] = IF b = request /\ currentPeriod \notin bufferLogs[b]
                           THEN currentPeriod ELSE logPeriod[b]
    BY <1>1, <1>2, <1>3, <1>7, <2>2 DEF Reactivate, Count, TypeOK
  <2>4. request.range \notin DOMAIN map
    <3>1. ASSUME request.range \in DOMAIN map PROVE FALSE
      <4>2. IsKey(request.range) /\ Equivalent(request.range, request.range)
        BY <1>3, RangeType DEF IsKey, Equivalent, Before
      <4> HIDE DEF map
      <4>3. Find(map, request.range) # {}
        BY <1>4, <3>1, <4>2, FindSome
      <4> QED BY <1>7, <4>3 DEF MetBy, map
    <3> QED BY <3>1
  <2>5. Listed(Main)' = Listed(Main) \union {request}
    <3>1. activeBuffers'[Main] = Insert(map, request.range, request)
      BY <1>2, <1>3, <1>7
    <3> HIDE DEF map
    <3>2. /\ DOMAIN Insert(map, request.range, request) = DOMAIN map \union {request.range}
          /\ \A q \in DOMAIN map \union {request.range} :
               Insert(map, request.range, request)[q] = IF q = request.range THEN request ELSE map[q]
      BY DEF Insert
    <3>3. Listed(Main)' = {activeBuffers'[Main][r] : r \in DOMAIN map \union {request.range}}
      BY <3>1, <3>2 DEF Listed
    <3>4. Listed(Main) = {map[r] : r \in DOMAIN map}
      BY DEF Listed, map
    <3> QED BY <2>4, <3>1, <3>2, <3>3, <3>4
  <2>6. InPeriod(b)'
    <3>1. CASE b = request
      BY <1>1, <1>2, <1>5, <2>1, <2>3, <2>5, <3>1 DEF InPeriod
    <3>2. CASE b # request
      <4>1. activeIn'[b] = activeIn[b]
        BY <1>1, <1>5, <2>5, <3>2 DEF InPeriod
      <4> QED BY <1>1, <1>2, <2>3, <2>5, <3>2, <4>1 DEF InPeriod
    <3> QED BY <3>1, <3>2
  <2>7. PeriodsSoFar(b)'
    <3>1. activeIn'[b] \subseteq 0 .. currentPeriod
      BY <1>1, <1>5 DEF PeriodsSoFar
    <3>2. activeIn'[b] # {} => b \in generalBuffers'
      BY <1>1, <1>2, <1>3, <1>5, <1>7, <2>5 DEF PeriodsSoFar, InPeriod
    <3> QED BY <1>2, <3>1, <3>2 DEF PeriodsSoFar
  <2> QED BY <2>6, <2>7
<1> QED BY <1>6, <1>7

LEMMA DefaultRemove ==
  ASSUME ~PinLocked, DefaultInv, ~ended, NEW t \in Threads, NEW range \in Ranges,
         remove_approx(t, range), NEW b \in Requests
  PROVE  (InPeriod(b) /\ PeriodsSoFar(b))'
<1> DEFINE map    == activeBuffers[Main]
           inMain == HasRange(map, range)
           e      == map[range]
           times  == [c \in Requests |-> Count(FALSE /\ activeBuffers[t][range] = c)
                                         + Count(inMain /\ e = c)]
<1>1. /\ IInv /\ TypeOK /\ EntriesOwned /\ InPeriod(b) /\ PeriodsSoFar(b)
      /\ Main \in Controls /\ t # Main
  BY ControlAssumption DEF DefaultInv, IInv, Controls
<1>2. /\ isActive' = LeftActive(times) /\ bufferLogs' = LogsLeft(times)
      /\ activeBuffers'[Main] = IF inMain /\ isActive'[e] = 0 THEN Erase(map, range) ELSE map
      /\ UNCHANGED <<generalBuffers, currentPeriod, logPeriod, activeIn>>
  BY <1>1 DEF remove_approx, IsRetired
<1>3. times[b] = IF inMain /\ e = b THEN 1 ELSE 0
  BY DEF Count
<1>4. inMain => range \in DOMAIN map /\ e \in Requests /\ e \in Listed(Main) /\ e.range = range
  <2>1. inMain => range \in DOMAIN map
    BY DEF HasRange, Find
  <2>2. range \in DOMAIN map => e \in Requests
    BY <1>1, MapsTyped
  <2> QED BY <1>1, <2>1, <2>2 DEF EntriesOwned, Listed
<1>5. inMain => times[e] = 1 /\ isActive[e] = 1
  BY <1>1, <1>4 DEF Count, DefaultInv, InPeriod
<1>6. /\ isActive'[b] = IF isActive[b] > times[b] THEN isActive[b] - times[b] ELSE 0
      /\ bufferLogs'[b] = IF isActive[b] >= 1 /\ isActive[b] <= times[b]
                          THEN bufferLogs[b] \union {logPeriod[b]} ELSE bufferLogs[b]
      /\ inMain => isActive'[e] = 0
  BY <1>2, <1>4, <1>5 DEF LeftActive, LogsLeft
<1>7. Listed(Main)' = IF inMain THEN Listed(Main) \ {e} ELSE Listed(Main)
  <2>1. CASE inMain
    <3>1. activeBuffers'[Main] = Erase(map, range)
      BY <1>2, <1>6, <2>1
    <3>2. \A q \in DOMAIN map : q # range => map[q] # e
      BY <1>1, <1>4, <2>1 DEF EntriesOwned
    <3>3. Listed(Main) = {map[r] : r \in DOMAIN map}
      BY DEF Listed
    <3>4. range \in DOMAIN map
      BY <1>4, <2>1
    <3>5. Listed(Main)' = {Erase(map, range)[r] : r \in DOMAIN Erase(map, range)}
      BY <3>1 DEF Listed
    <3> HIDE DEF map
    <3>6. /\ DOMAIN Erase(map, range) = DOMAIN map \ {range}
          /\ \A q \in DOMAIN map \ {range} : Erase(map, range)[q] = map[q]
      BY DEF Erase
    <3> QED BY <2>1, <3>2, <3>3, <3>4, <3>5, <3>6
  <2>2. CASE ~inMain
    BY <1>2, <2>2 DEF Listed
  <2> QED BY <2>1, <2>2
<1> HIDE DEF map, inMain, e, times
<1>8. InPeriod(b)'
  <2>1. CASE inMain /\ e = b
    <3>1. b \in Listed(Main) /\ b \notin Listed(Main)'
      BY <1>4, <1>7, <2>1
    <3>2. /\ isActive[b] = 1 /\ logPeriod[b] = currentPeriod /\ currentPeriod \in activeIn[b]
          /\ bufferLogs[b] = activeIn[b] \ {currentPeriod}
      BY <1>1, <3>1 DEF InPeriod
    <3>3. isActive'[b] = 0 /\ bufferLogs'[b] = activeIn[b]
      BY <1>3, <1>6, <2>1, <3>2
    <3> QED BY <1>2, <3>1, <3>2, <3>3 DEF InPeriod
  <2>2. CASE ~(inMain /\ e = b)
    <3>1. times[b] = 0 /\ (b \in Listed(Main)' <=> b \in Listed(Main))
      BY <1>3, <1>7, <2>2
    <3> QED BY <1>1, <1>2, <1>6, <3>1 DEF InPeriod
  <2> QED BY <2>1, <2>2
<1>9. PeriodsSoFar(b)'
  BY <1>1, <1>2 DEF PeriodsSoFar
<1> QED BY <1>8, <1>9

LEMMA DefaultFini ==
  ASSUME ~PinLocked, DefaultInv, ~ended, Fini
  PROVE  ReportComplete' /\ ThreadMapsEmpty'
<1> DEFINE times == [b \in Requests |-> Cardinality({c \in Destroyed : b \in Listed(c)})]
<1>1. TypeOK /\ Destroyed = {Main}
  BY DEF DefaultInv, IInv, Destroyed
<1>2. /\ activeBuffers' = [c \in Controls |-> IF c \in Destroyed THEN EmptyMap ELSE activeBuffers[c]]
      /\ report' = [b \in Requests |-> IF b \in generalBuffers THEN LogsLeft(times)[b] ELSE {}]
      /\ activeIn' = activeIn
  BY DEF Fini
<1>3. ASSUME NEW b \in Requests PROVE times[b] = IF b \in Listed(Main) THEN 1 ELSE 0
  <2>1. {c \in Destroyed : b \in Listed(c)} = IF b \in Listed(Main) THEN {Main} ELSE {}
    BY <1>1
  <2> QED BY <2>1, FS_Singleton, FS_EmptySet
<1> HIDE DEF times
<1>4. ASSUME NEW b \in Requests PROVE report'[b] = activeIn[b]
  <2>1. InPeriod(b) /\ PeriodsSoFar(b)
    BY DEF DefaultInv
  <2>2. LogsLeft(times)[b] = activeIn[b]
    BY <1>3, <2>1 DEF LogsLeft, InPeriod
  <2> QED BY <1>2, <2>1, <2>2 DEF PeriodsSoFar
<1>5. report' = activeIn
  BY <1>1, <1>2, <1>4 DEF TypeOK
<1>6. ReportComplete'
  BY <1>2, <1>5 DEF ReportComplete
<1>7. ThreadMapsEmpty'
  BY <1>1, <1>2, ControlAssumption DEF ThreadMapsEmpty, DefaultInv, Controls, EmptyMap
<1> QED BY <1>6, <1>7

LEMMA NextDefaultInv ==
  ASSUME ~PinLocked
  PROVE  DefaultInv /\ [Next]_vars => DefaultInv'
<1> SUFFICES ASSUME DefaultInv, [Next]_vars PROVE DefaultInv'
  OBVIOUS
<1>1. IInv'
  BY NextIInv DEF DefaultInv
<1>2. TypeOK /\ TypeOK'
  BY <1>1 DEF DefaultInv, IInv
<1> DEFINE Same == UNCHANGED <<buffers, currentPeriod, report, ended>>
<1>3. ASSUME Same PROVE DefaultInv'
  BY <1>1, <1>3 DEF DefaultInv, ThreadMapsEmpty, InPeriod, PeriodsSoFar, ReportComplete, Listed, buffers
<1> DEFINE Goes == /\ ~ended /\ ~ended'
                   /\ \A t \in Threads : activeBuffers'[t] = activeBuffers[t]
<1>4. ASSUME Goes, \A b \in Requests : (InPeriod(b) /\ PeriodsSoFar(b))' PROVE DefaultInv'
  BY <1>1, <1>4 DEF DefaultInv, ThreadMapsEmpty, ReportComplete
<1>5. ASSUME ~ended, NEW t \in running, Routine(t) PROVE DefaultInv'
  <2>1. t \in Threads /\ t # Main
    BY <1>2, ControlAssumption DEF TypeOK
  <2>2. ASSUME NEW enabled \in BOOLEAN, SetInjection(t, enabled) PROVE DefaultInv'
    BY <1>3, <2>2 DEF SetInjection
  <2>3. ASSUME NEW step \in {-1, 1}, ChangeLevel(t, step) PROVE DefaultInv'
    BY <1>3, <2>3 DEF ChangeLevel
  <2>4. CASE NextPeriod
    <3>1. Goes
      BY <1>5, <2>4 DEF NextPeriod
    <3>2. \A b \in Requests : (InPeriod(b) /\ PeriodsSoFar(b))'
      BY <1>5, <2>4, DefaultNextPeriod
    <3> QED BY <1>4, <3>1, <3>2
  <2>5. ASSUME NEW request \in Requests, add_approx(t, request) PROVE DefaultInv'
    <3>1. Goes
      BY <1>5, <2>5, ControlAssumption DEF add_approx, Controls
    <3>2. \A b \in Requests : (InPeriod(b) /\ PeriodsSoFar(b))'
      BY <1>5, <2>1, <2>5, DefaultAdd
    <3> QED BY <1>4, <3>1, <3>2
  <2>6. ASSUME NEW range \in Ranges, remove_approx(t, range) PROVE DefaultInv'
    <3>1. Goes
      BY <1>5, <2>6, ControlAssumption DEF remove_approx, Controls
    <3>2. \A b \in Requests : (InPeriod(b) /\ PeriodsSoFar(b))'
      BY <1>5, <2>1, <2>6, DefaultRemove
    <3> QED BY <1>4, <3>1, <3>2
  <2> QED BY <1>5, <2>2, <2>3, <2>4, <2>5, <2>6 DEF Routine
<1>6. ASSUME NEW t \in Threads, \/ ThreadStart(t) \/ ThreadFini(t)
                                \/ ThreadFiniLoad(t) \/ ThreadFiniStore(t)
      PROVE  FALSE
  BY <1>6 DEF ThreadStart, ThreadFini, ThreadFiniLoad, ThreadFiniStore, DefaultInv, ThreadMapsEmpty
<1>7. ASSUME ~ended, Fini PROVE DefaultInv'
  <2>1. ended'
    BY <1>7 DEF Fini
  <2> QED BY <1>1, <1>7, <2>1, DefaultFini DEF DefaultInv
<1>8. CASE UNCHANGED vars
  BY <1>3, <1>8 DEF vars
<1> QED BY <1>5, <1>6, <1>7, <1>8 DEF Next

LEMMA SpecDefaultInv ==
  ASSUME ~PinLocked
  PROVE  Spec => []DefaultInv
BY InitDefaultInv, NextDefaultInv, PTL DEF Spec

\* The default build: a buffer is active exactly while the main map has it.
THEOREM ActiveExactlyWhileListed ==
  ASSUME ~PinLocked
  PROVE  Spec => []ActiveWhileListed
<1>1. DefaultInv => ActiveWhileListed
  BY DEF DefaultInv, InPeriod, ActiveWhileListed, Count
<1> QED BY <1>1, SpecDefaultInv, PTL

\* The default build: no period a buffer was active in is lost or stored
\* twice, whatever is added, removed, added again and counted.
THEOREM NoPeriodLost ==
  ASSUME ~PinLocked
  PROVE  Spec => []PeriodsLogged
<1>1. DefaultInv => PeriodsLogged
  BY DEF DefaultInv, InPeriod, PeriodsLogged
<1> QED BY <1>1, SpecDefaultInv, PTL

\* The default build: the access log Fini writes has all those periods.
THEOREM ReportIsComplete ==
  ASSUME ~PinLocked
  PROVE  Spec => []ReportComplete
<1>1. DefaultInv => ReportComplete
  BY DEF DefaultInv
<1> QED BY <1>1, SpecDefaultInv, PTL
=============================================================================
