-------------------------- MODULE PeriodLogsProofs --------------------------
(***************************************************************************)
(* Proofs about PeriodLogs, for any number of elements, arrays, periods,   *)
(* accesses and rates.  The properties the model checker runs on are       *)
(* inductive together with two more: what a retired buffer keeps           *)
(* (RetiredLog), on which a resumption in the same period rests, and a     *)
(* budget of faults (FaultsBudgeted): a period has at most as many faults, *)
(* counted or still pending, as accesses made with injection enabled.      *)
(***************************************************************************)
EXTENDS PeriodLogs, FiniteSetTheorems, TLAPS

LEMMA FinitePeriods == IsFiniteSet(Periods)
<1>1. 0 \in Int /\ MaxPeriod \in Int
  BY BoundsAssumption
<1>2. IsFiniteSet(0 .. MaxPeriod)
  BY <1>1, FS_Interval
<1> QED BY <1>2 DEF Periods

PendingOf(p) == {a \in DOMAIN pendingWrites : writtenIn[a] = p}

\* How many faults the accesses of a period may cause.
Budget(p) == made[p][TRUE]

\* How many of the writes in F are charged to an array, or were made in a period.
ChargedAmong(F, array) == Cardinality({a \in F : pendingWrites[a].array = array})

MadeAmong(F, p) == Cardinality({a \in F : writtenIn[a] = p})

\* A retired buffer has the log of its last period stored, and m_periodLog
\* still has the same accesses and the same counts.
RetiredLog ==
  /\ periodLog.period <= currentPeriod
  /\ \A p \in DOMAIN bufferLogs : p <= periodLog.period
  /\ isActive = 0 =>
       /\ periodLog.period \in DOMAIN bufferLogs
       /\ periodLog.accesses = bufferLogs[periodLog.period].accesses
       /\ counts[periodLog.array] = counts[bufferLogs[periodLog.period].array]
       /\ DOMAIN pendingWrites = {}

MadeBounded ==
  /\ made \in [Periods -> [BOOLEAN -> Nat]]
  /\ \A p \in Periods, enabled \in BOOLEAN : made[p][enabled] <= MaxAccesses[enabled]

FaultsBudgeted ==
  /\ caused \in [Periods -> Nat]
  /\ IsFiniteSet(DOMAIN pendingWrites)
  /\ \A p \in Periods : caused[p] + Cardinality(PendingOf(p)) <= Budget(p)

Accounts ==
  /\ LogsOwnTheirArrays /\ WritesChargedToTheirPeriod
  /\ OpenPeriodNotStored /\ RetiredLog
  /\ AccessesConserved /\ FaultsConserved
  /\ MadeBounded /\ FaultsBudgeted

Rates == RatesFollowPeriods /\ RatesAsLogged

IInv == TypeOK /\ Accounts /\ Rates
-----------------------------------------------------------------------------
(***************************************************************************)
(* Operators.                                                              *)
(***************************************************************************)
LEMMA AmountBounds ==
  ASSUME NEW n \in Nat, n <= MaxAccesses[TRUE] \/ n <= MaxAccesses[FALSE]
  PROVE  n \in Amount
<1>1. MaxAccesses[TRUE] \in Nat /\ MaxAccesses[FALSE] \in Nat
  BY BoundsAssumption
<1> HIDE DEF Amount
<1>2. ASSUME NEW x \in Nat, NEW y \in Nat, n <= x \/ n <= y PROVE n \in 0 .. (x + y)
  BY <1>2
<1> QED BY <1>1, <1>2 DEF Amount

LEMMA AmountIsInt == Amount \subseteq Int /\ 0 \in Amount
<1>1. MaxAccesses[TRUE] \in Nat /\ MaxAccesses[FALSE] \in Nat
  BY BoundsAssumption
<1>2. \A x, y \in Nat : 0 .. (x + y) \subseteq Int /\ 0 \in 0 .. (x + y)
  OBVIOUS
<1> QED BY <1>1, <1>2 DEF Amount

LEMMA BersType ==
  ASSUME NEW period \in Periods, NEW creation \in Periods
  PROVE  /\ BersOf(period, creation) \in [Categories -> Nat]
         /\ \A category \in Categories :
              /\ BersOf(period, creation)[category] = (period - creation) % BerCount[category]
              /\ BersOf(period, creation)[category] \in Ber(category)
         /\ \A category \in Categories : BersOf(period, period)[category] = 0
<1>1. \A category \in Categories : BerCount[category] \in Nat \ {0}
  BY BoundsAssumption DEF Categories
<1>2. period \in Int /\ creation \in Int
  BY BoundsAssumption DEF Periods
<1>3. \A m \in Int, n \in Nat \ {0} : m % n \in 0 .. (n - 1) /\ 0 % n = 0
  OBVIOUS
<1>4. ASSUME NEW category \in Categories
      PROVE  (period - creation) % BerCount[category] \in 0 .. (BerCount[category] - 1)
             /\ (period - period) % BerCount[category] = 0
  <2>1. period - creation \in Int /\ period - period = 0
    BY <1>2
  <2> QED BY <1>1, <1>3, <2>1
<1> QED BY <1>1, <1>4 DEF BersOf, Ber

\* Logs of different periods have different arrays.
LEMMA OneLogAnArray ==
  ASSUME LogsOwnTheirArrays, NEW p, NEW q, HasLog(p), HasLog(q), LogOf(p).array = LogOf(q).array
  PROVE  p = q
BY DEF LogsOwnTheirArrays, HasLog, LogOf

LEMMA LogsAreLive ==
  ASSUME LogsOwnTheirArrays, NEW p, HasLog(p)
  PROVE  LogOf(p).array \in live
BY DEF LogsOwnTheirArrays, HasLog, LogOf

\* The writes charged to a log's array are those made in its period.
LEMMA ChargedSets ==
  ASSUME LogsOwnTheirArrays, WritesChargedToTheirPeriod, NEW faulty, faulty \subseteq DOMAIN pendingWrites
  PROVE  /\ \A p : HasLog(p) =>
              {a \in faulty : pendingWrites[a].array = LogOf(p).array} = {a \in faulty : writtenIn[a] = p}
         /\ \A p : ~HasLog(p) => {a \in faulty : writtenIn[a] = p} = {}
         /\ \A array : (\A p : HasLog(p) => array # LogOf(p).array)
              => {a \in faulty : pendingWrites[a].array = array} = {}
<1>1. \A a \in faulty : HasLog(writtenIn[a]) /\ pendingWrites[a].array = LogOf(writtenIn[a]).array
  BY DEF WritesChargedToTheirPeriod
<1>2. ASSUME NEW p, HasLog(p), NEW a \in faulty
      PROVE  pendingWrites[a].array = LogOf(p).array <=> writtenIn[a] = p
  BY <1>1, <1>2, OneLogAnArray
<1> QED BY <1>1, <1>2

\* Injecting some of the pending writes moves them from pending to caused.
LEMMA FaultBudget ==
  ASSUME NEW S, IsFiniteSet(S), NEW X, X \subseteq S, NEW F, F \subseteq X
  PROVE  Cardinality(F) + Cardinality(S \ X) <= Cardinality(S)
         /\ Cardinality(F) \in Nat /\ Cardinality(S \ X) \in Nat /\ Cardinality(S) \in Nat
<1>1. IsFiniteSet(F) /\ IsFiniteSet(S \ X) /\ IsFiniteSet(F \union (S \ X))
  BY FS_Subset, FS_Union
<1>2. F \intersect (S \ X) = {} /\ F \union (S \ X) \in SUBSET S
  OBVIOUS
<1>3. Cardinality(F) \in Nat /\ Cardinality(S \ X) \in Nat /\ Cardinality(S) \in Nat
  BY <1>1, FS_CardinalityType
<1>4. Cardinality(F \union (S \ X)) = Cardinality(F) + Cardinality(S \ X) - Cardinality(F \intersect (S \ X))
  BY <1>1, FS_Union
<1>5. Cardinality(F \union (S \ X)) <= Cardinality(S)
  BY <1>2, FS_Subset
<1>6. Cardinality(F \intersect (S \ X)) = 0
  BY <1>2, FS_EmptySet
<1> QED BY <1>3, <1>4, <1>5, <1>6
-----------------------------------------------------------------------------
(***************************************************************************)
(* Accesses.                                                               *)
(***************************************************************************)
LEMMA ActiveLog ==
  ASSUME TypeOK, OpenPeriodNotStored, isActive >= 1
  PROVE  isActive = 1 /\ HasLog(currentPeriod) /\ LogOf(currentPeriod) = periodLog
         /\ currentPeriod \in Periods /\ periodLog \in Log
<1>1. isActive = 1 /\ currentPeriod \in Periods /\ periodLog \in Log
  BY DEF TypeOK
<1> QED BY <1>1 DEF OpenPeriodNotStored, HasLog, LogOf

\* An access is counted in the log of the current period and in no other.
LEMMA AccessMade ==
  ASSUME TypeOK, Accounts, NEW enabled \in BOOLEAN, IncreaseAccess(enabled),
         UNCHANGED <<currentPeriod, isActive, bufferLogs>>
  PROVE  /\ periodLog' \in Log
         /\ periodLog'.period = periodLog.period /\ periodLog'.array = periodLog.array
         /\ periodLog'.berIndex = periodLog.berIndex
         /\ MadeBounded' /\ AccessesConserved' /\ OpenPeriodNotStored'
         /\ \A p : HasLog(p)' = HasLog(p)
         /\ \A p : LogOf(p)'.array = LogOf(p).array /\ LogOf(p)'.berIndex = LogOf(p).berIndex
<1>1. isActive = 1 /\ HasLog(currentPeriod) /\ LogOf(currentPeriod) = periodLog
      /\ currentPeriod \in Periods /\ periodLog \in Log /\ periodLog.period = currentPeriod
      /\ currentPeriod \notin DOMAIN bufferLogs
  <2>1. isActive >= 1
    BY DEF IncreaseAccess
  <2> QED BY <2>1, ActiveLog DEF Accounts, OpenPeriodNotStored
<1> DEFINE m == made[currentPeriod]
           m1 == [m EXCEPT ![enabled] = @ + 1]
<1>2. made \in [Periods -> [BOOLEAN -> Nat]] /\ m \in [BOOLEAN -> Nat]
  BY <1>1 DEF Accounts, MadeBounded
<1>3. periodLog.accesses = m
  BY <1>1 DEF Accounts, AccessesConserved
<1>4. /\ m[enabled] < MaxAccesses[enabled]
      /\ made' = [made EXCEPT ![currentPeriod] = m1]
      /\ periodLog' = [periodLog EXCEPT !.accesses = m1]
  BY <1>3 DEF IncreaseAccess
<1>5. m1 \in [BOOLEAN -> Nat] /\ \A e \in BOOLEAN : m1[e] <= MaxAccesses[e]
  <2>1. m1 \in [BOOLEAN -> Nat]
    BY <1>2
  <2>2. MaxAccesses \in [BOOLEAN -> Nat]
    BY BoundsAssumption
  <2>3. ASSUME NEW e \in BOOLEAN PROVE m1[e] <= MaxAccesses[e]
    <3>1. m[e] \in Nat /\ MaxAccesses[e] \in Nat /\ m[e] <= MaxAccesses[e]
      BY <1>1, <1>2, <2>2 DEF Accounts, MadeBounded
    <3>2. m[enabled] \in Nat /\ m[enabled] + 1 <= MaxAccesses[enabled]
      BY <1>2, <1>4, <2>2
    <3>3. m1[e] = IF e = enabled THEN m[enabled] + 1 ELSE m[e]
      BY <1>2
    <3> QED BY <3>1, <3>2, <3>3
  <2> QED BY <2>1, <2>3
<1>6. m1 \in [BOOLEAN -> Amount]
  <2>1. \A e \in BOOLEAN : m1[e] \in Amount
    BY <1>5, AmountBounds
  <2> QED BY <1>2, <2>1
<1> HIDE DEF m1, m
<1>7. /\ periodLog' \in Log /\ periodLog'.accesses = m1
      /\ periodLog'.period = periodLog.period /\ periodLog'.array = periodLog.array
      /\ periodLog'.berIndex = periodLog.berIndex
  BY <1>1, <1>4, <1>6 DEF Log
<1>8. \A p : HasLog(p)' = HasLog(p)
  BY <1>7 DEF HasLog
<1>9. \A p : LogOf(p)' = IF p \in DOMAIN bufferLogs THEN LogOf(p) ELSE periodLog'
  BY DEF LogOf
<1>10. \A p : LogOf(p)'.array = LogOf(p).array /\ LogOf(p)'.berIndex = LogOf(p).berIndex
  BY <1>7 DEF LogOf
<1>11. MadeBounded'
  BY <1>1, <1>2, <1>4, <1>5 DEF Accounts, MadeBounded
<1>12. AccessesConserved'
  <2> SUFFICES ASSUME NEW p \in Periods
               PROVE  IF HasLog(p)' THEN LogOf(p)'.accesses = made'[p] ELSE made'[p] = NoAccesses
    BY DEF AccessesConserved
  <2>1. CASE p = currentPeriod
    BY <1>1, <1>2, <1>4, <1>7, <1>8, <1>9, <2>1
  <2>2. CASE p # currentPeriod
    <3>1. made'[p] = made[p]
      BY <1>2, <1>4, <2>2
    <3>2. HasLog(p) => LogOf(p)' = LogOf(p)
      BY <1>1, <1>9, <2>2 DEF HasLog
    <3> QED BY <1>8, <3>1, <3>2 DEF Accounts, AccessesConserved
  <2> QED BY <2>1, <2>2
<1>13. OpenPeriodNotStored'
  BY <1>1, <1>7 DEF OpenPeriodNotStored
<1> QED BY <1>7, <1>8, <1>10, <1>11, <1>12, <1>13

\* What no access changes.
LEMMA AccessKeeps ==
  ASSUME IInv, NEW enabled \in BOOLEAN, IncreaseAccess(enabled),
         UNCHANGED <<currentPeriod, isActive, bufferLogs, live, configuration>>
  PROVE  LogsOwnTheirArrays' /\ RetiredLog' /\ RatesFollowPeriods'
<1>1. /\ periodLog'.period = periodLog.period /\ periodLog'.array = periodLog.array
  BY AccessMade DEF IInv
<1>2. LogsOwnTheirArrays'
  BY <1>1 DEF LogsOwnTheirArrays, IInv, Accounts
<1>3. RetiredLog'
  <2>1. isActive' # 0
    BY DEF IncreaseAccess, IInv, TypeOK
  <2> QED BY <1>1, <2>1 DEF RetiredLog, IInv, Accounts
<1>4. RatesFollowPeriods'
  BY DEF RatesFollowPeriods, IInv, Rates, configuration
<1> QED BY <1>2, <1>3, <1>4

\* What the current period's rates are called in its log.
LEMMA NamedAfterAccess ==
  ASSUME NEW p, NEW category, NEW ber, NamedInLog(p, category, ber),
         LogOf(p)'.berIndex = LogOf(p).berIndex, UNCHANGED <<creationPeriod, resumed>>
  PROVE  NamedInLog(p, category, ber)'
BY DEF NamedInLog

\* The rates of the current period are still named after an access.
LEMMA RatesNamed ==
  ASSUME RatesAsLogged, UNCHANGED <<isActive, currentPeriod, creationPeriod, bers, resumed>>,
         \A p : LogOf(p)'.berIndex = LogOf(p).berIndex,
         \A b \in DOMAIN pendingWrites' : \A p, ber :
           p = writtenIn'[b] /\ ber = pendingWrites'[b].ber => NamedInLog(p, "write", ber)'
  PROVE  RatesAsLogged'
<1> SUFFICES ASSUME isActive' = 1 PROVE
       /\ \A category \in Categories : NamedInLog(currentPeriod, category, bers[category])'
       /\ \A b \in DOMAIN pendingWrites' : NamedInLog(writtenIn[b], "write", WriteBer(b))'
  BY DEF RatesAsLogged
<1>1. ASSUME NEW category \in Categories PROVE NamedInLog(currentPeriod, category, bers[category])'
  <2>1. NamedInLog(currentPeriod, category, bers[category])
    BY DEF RatesAsLogged
  <2> QED BY <2>1 DEF NamedInLog
<1>2. ASSUME NEW b \in DOMAIN pendingWrites' PROVE NamedInLog(writtenIn[b], "write", WriteBer(b))'
  <2>1. ASSUME NEW p, NEW ber, p = writtenIn'[b], ber = pendingWrites'[b].ber
        PROVE  NamedInLog(p, "write", ber)'
    BY <2>1
  <2> QED BY <2>1 DEF NamedInLog, WriteBer
<1> QED BY <1>1, <1>2

LEMMA CardinalityOfMore ==
  ASSUME NEW S, IsFiniteSet(S), NEW x, NEW T, T \in SUBSET (S \union {x})
  PROVE  Cardinality(T) <= Cardinality(S) + 1
<1>1. IsFiniteSet(S \union {x}) /\ Cardinality(S \union {x}) = IF x \in S THEN Cardinality(S) ELSE Cardinality(S) + 1
  BY FS_AddElement
<1>2. IsFiniteSet(T) /\ Cardinality(T) <= Cardinality(S \union {x})
  BY <1>1, FS_Subset
<1>3. Cardinality(S) \in Nat /\ Cardinality(T) \in Nat /\ Cardinality(S \union {x}) \in Nat
  BY <1>1, <1>2, FS_CardinalityType
<1> QED BY <1>1, <1>2, <1>3

LEMMA BudgetSpent ==
  ASSUME NEW c \in Nat, NEW k \in Nat, NEW m \in Nat, c + k <= m, NEW l \in Nat
  PROVE  (l <= k + 1 => c + l <= m + 1) /\ (l <= k => c + l <= m)
OBVIOUS

\* A number within the budget of a period is an amount.
LEMMA WithinBudget ==
  ASSUME NEW b \in Nat, b <= MaxAccesses[TRUE]
  PROVE  \A n \in Nat : n <= b => n \in Amount
<1> DEFINE most == MaxAccesses[TRUE]
<1>1. most \in Nat /\ b <= most /\ \A n \in Nat : n <= most => n \in Amount
  BY AmountBounds, BoundsAssumption
<1> HIDE DEF most
<1>2. \A n \in Nat : n <= b => n <= most
  BY <1>1
<1> QED BY <1>1, <1>2

LEMMA BudgetIs ==
  ASSUME MadeBounded, NEW p \in Periods
  PROVE  Budget(p) \in Nat /\ \A n \in Nat : n <= Budget(p) => n \in Amount
<1>1. Budget(p) \in Nat /\ Budget(p) <= MaxAccesses[TRUE]
  BY DEF MadeBounded, Budget
<1> QED BY <1>1, WithinBudget

LEMMA BudgetIsAfter ==
  ASSUME MadeBounded', NEW p \in Periods
  PROVE  Budget(p)' \in Nat /\ \A n \in Nat : n <= Budget(p)' => n \in Amount
<1>1. Budget(p)' \in Nat /\ Budget(p)' <= MaxAccesses[TRUE]
  BY DEF MadeBounded, Budget
<1> QED BY <1>1, WithinBudget

\* An access with injection enabled adds one to the budget of its period.
LEMMA BudgetAfter ==
  ASSUME MadeBounded, currentPeriod \in Periods, NEW enabled \in BOOLEAN, IncreaseAccess(enabled), NEW p \in Periods
  PROVE  Budget(p)' = IF p = currentPeriod /\ enabled THEN Budget(p) + 1 ELSE Budget(p)
<1>1. made \in [Periods -> [BOOLEAN -> Nat]]
  BY DEF MadeBounded
<1>2. made' = [made EXCEPT ![currentPeriod] = [made[currentPeriod] EXCEPT ![enabled] = @ + 1]]
  BY DEF IncreaseAccess
<1>3. CASE enabled = TRUE
  <2>1. made' = [made EXCEPT ![currentPeriod] = [made[currentPeriod] EXCEPT ![TRUE] = @ + 1]]
    BY <1>2, <1>3
  <2> QED BY <1>1, <1>3, <2>1 DEF Budget
<1>4. CASE enabled = FALSE
  <2>1. made' = [made EXCEPT ![currentPeriod] = [made[currentPeriod] EXCEPT ![FALSE] = @ + 1]]
    BY <1>2, <1>4
  <2> QED BY <1>1, <1>4, <2>1 DEF Budget
<1> QED BY <1>3, <1>4

LEMMA WriteIInv ==
  ASSUME IInv, NEW a \in Addresses, NEW enabled \in BOOLEAN, Write(a, enabled)
  PROVE  IInv'
<1>1. /\ IncreaseAccess(enabled)
      /\ UNCHANGED <<currentPeriod, isActive, bufferLogs, live, configuration>>
      /\ UNCHANGED <<counts, caused, resumed, creationPeriod, bers>>
  BY DEF Write, configuration
<1>2. /\ periodLog' \in Log
      /\ periodLog'.period = periodLog.period /\ periodLog'.array = periodLog.array
      /\ periodLog'.berIndex = periodLog.berIndex
      /\ MadeBounded' /\ AccessesConserved' /\ OpenPeriodNotStored'
      /\ \A p : HasLog(p)' = HasLog(p)
      /\ \A p : LogOf(p)'.array = LogOf(p).array /\ LogOf(p)'.berIndex = LogOf(p).berIndex
  BY <1>1, AccessMade DEF IInv
<1>3. LogsOwnTheirArrays' /\ RetiredLog' /\ RatesFollowPeriods'
  BY <1>1, AccessKeeps
<1>4. isActive = 1 /\ HasLog(currentPeriod) /\ LogOf(currentPeriod) = periodLog
      /\ currentPeriod \in Periods /\ periodLog \in Log
  <2>1. isActive >= 1
    BY <1>1 DEF IncreaseAccess
  <2> QED BY <2>1, ActiveLog DEF IInv, Accounts
<1>5. FaultsConserved'
  BY <1>1, <1>2 DEF FaultsConserved, IInv, Accounts
<1>6. CASE ~enabled
  <2>1. UNCHANGED <<pendingWrites, writtenIn>>
    BY <1>6 DEF Write
  <2>2. TypeOK'
    BY <1>1, <1>2, <2>1 DEF TypeOK, IInv
  <2>3. WritesChargedToTheirPeriod'
    BY <1>2, <2>1 DEF WritesChargedToTheirPeriod, IInv, Accounts
  <2>4. FaultsBudgeted'
    <3>1. \A p \in Periods : Budget(p)' = Budget(p)
      BY <1>1, <1>4, <1>6, BudgetAfter DEF IInv, Accounts
    <3>2. \A p : PendingOf(p)' = PendingOf(p)
      BY <2>1 DEF PendingOf
    <3> QED BY <1>1, <2>1, <3>1, <3>2 DEF FaultsBudgeted, IInv, Accounts
  <2>5. RatesAsLogged'
    BY <1>1, <1>2, <2>1 DEF RatesAsLogged, NamedInLog, WriteBer, IInv, Rates
  <2> QED BY <1>2, <1>3, <1>5, <2>2, <2>3, <2>4, <2>5 DEF IInv, Accounts, Rates
<1>7. CASE enabled
  <2> DEFINE w == [ber |-> bers["write"], array |-> periodLog.array]
  <2>1. /\ DOMAIN pendingWrites' = DOMAIN pendingWrites \union {a}
        /\ DOMAIN writtenIn' = DOMAIN writtenIn \union {a}
        /\ DOMAIN writtenIn = DOMAIN pendingWrites
        /\ pendingWrites'[a] = w /\ writtenIn'[a] = currentPeriod
        /\ \A b \in DOMAIN pendingWrites : b # a =>
             pendingWrites'[b] = pendingWrites[b] /\ writtenIn'[b] = writtenIn[b]
    BY <1>7 DEF Write, Update, IInv, TypeOK
  <2>2. w \in [ber : Ber("write"), array : Arrays] /\ w.ber = bers["write"] /\ w.array = periodLog.array
    BY <1>4 DEF IInv, TypeOK, Log, Categories
  <2> HIDE DEF w
  <2>3. TypeOK'
    <3>1. \A b \in DOMAIN pendingWrites' :
            pendingWrites'[b] \in [ber : Ber("write"), array : Arrays] /\ writtenIn'[b] \in Periods
      BY <1>4, <2>1, <2>2 DEF IInv, TypeOK
    <3>2. DOMAIN pendingWrites' \subseteq Addresses /\ DOMAIN writtenIn' = DOMAIN pendingWrites'
      BY <2>1 DEF IInv, TypeOK
    <3> QED BY <1>1, <1>2, <3>1, <3>2 DEF IInv, TypeOK
  <2>4. WritesChargedToTheirPeriod'
    <3> SUFFICES ASSUME NEW b \in DOMAIN pendingWrites', NEW p, p = writtenIn'[b]
                 PROVE  HasLog(p)' /\ pendingWrites'[b].array = LogOf(p)'.array
      BY DEF WritesChargedToTheirPeriod
    <3>1. CASE b = a
      BY <1>2, <1>4, <2>1, <2>2, <3>1
    <3>2. CASE b # a
      <4>1. b \in DOMAIN pendingWrites /\ pendingWrites'[b] = pendingWrites[b] /\ p = writtenIn[b]
        BY <2>1, <3>2
      <4>2. HasLog(p) /\ pendingWrites[b].array = LogOf(p).array
        BY <4>1 DEF WritesChargedToTheirPeriod, IInv, Accounts
      <4> QED BY <1>2, <4>1, <4>2
    <3> QED BY <3>1, <3>2
  <2>5. FaultsBudgeted'
    <3>1. caused \in [Periods -> Nat]
      BY DEF IInv, Accounts, FaultsBudgeted
    <3>2. \A p \in Periods : Budget(p)' = IF p = currentPeriod THEN Budget(p) + 1 ELSE Budget(p)
      BY <1>1, <1>4, <1>7, BudgetAfter DEF IInv, Accounts
    <3>3. IsFiniteSet(DOMAIN pendingWrites) /\ IsFiniteSet(DOMAIN pendingWrites')
      BY <2>1, FS_AddElement DEF IInv, Accounts, FaultsBudgeted
    <3>4. ASSUME NEW p \in Periods PROVE caused'[p] + Cardinality(PendingOf(p)') <= Budget(p)'
      <4>1. IsFiniteSet(PendingOf(p)) /\ IsFiniteSet(PendingOf(p)')
        <5>1. PendingOf(p) \in SUBSET DOMAIN pendingWrites /\ PendingOf(p)' \in SUBSET DOMAIN pendingWrites'
          BY DEF PendingOf
        <5> QED BY <3>3, <5>1, FS_Subset
      <4>2. Cardinality(PendingOf(p)) \in Nat /\ Cardinality(PendingOf(p)') \in Nat
        BY <4>1, FS_CardinalityType
      <4>3. caused'[p] = caused[p] /\ caused[p] \in Nat /\ Budget(p) \in Nat
            /\ caused[p] + Cardinality(PendingOf(p)) <= Budget(p)
        BY <1>1, <3>1, BudgetIs DEF IInv, Accounts, FaultsBudgeted
      <4>4. CASE p = currentPeriod
        <5>1. PendingOf(p)' \in SUBSET (PendingOf(p) \union {a})
          BY <2>1 DEF PendingOf
        <5>2. Cardinality(PendingOf(p)') <= Cardinality(PendingOf(p)) + 1
          BY <4>1, <5>1, CardinalityOfMore
        <5>3. Budget(p)' = Budget(p) + 1
          BY <3>2, <4>4
        <5>4. caused[p] + Cardinality(PendingOf(p)') <= Budget(p) + 1
          BY <4>2, <4>3, <5>2, BudgetSpent
        <5> QED BY <4>3, <5>3, <5>4
      <4>5. CASE p # currentPeriod
        <5>1. PendingOf(p)' \in SUBSET PendingOf(p)
          BY <2>1, <4>5 DEF PendingOf
        <5>2. Cardinality(PendingOf(p)') <= Cardinality(PendingOf(p))
          BY <4>1, <5>1, FS_Subset
        <5>3. Budget(p)' = Budget(p)
          BY <3>2, <4>5
        <5>4. caused[p] + Cardinality(PendingOf(p)') <= Budget(p)
          BY <4>2, <4>3, <5>2, BudgetSpent
        <5> QED BY <4>3, <5>3, <5>4
      <4> QED BY <4>4, <4>5
    <3> QED BY <1>1, <3>1, <3>3, <3>4 DEF FaultsBudgeted
  <2>6. RatesAsLogged'
    <3>1. ASSUME NEW b \in DOMAIN pendingWrites', NEW p, p = writtenIn'[b], NEW ber, ber = pendingWrites'[b].ber
          PROVE  NamedInLog(p, "write", ber)'
      <4>1. NamedInLog(p, "write", ber)
        <5>1. CASE b = a
          BY <1>4, <2>1, <2>2, <3>1, <5>1 DEF IInv, Rates, RatesAsLogged, Categories
        <5>2. CASE b # a
          <6>1. b \in DOMAIN pendingWrites /\ ber = pendingWrites[b].ber /\ p = writtenIn[b]
            BY <2>1, <3>1, <5>2
          <6> QED BY <1>4, <6>1 DEF IInv, Rates, RatesAsLogged, WriteBer
        <5> QED BY <5>1, <5>2
      <4> QED BY <1>1, <1>2, <4>1, NamedAfterAccess
    <3> QED BY <1>1, <1>2, <1>4, <3>1, RatesNamed DEF IInv, Rates
  <2> QED BY <1>2, <1>3, <1>5, <2>3, <2>4, <2>5, <2>6 DEF IInv, Accounts, Rates
<1> QED BY <1>6, <1>7

\* What injecting some of the pending writes adds to the counts and the history.
LEMMA Injected ==
  ASSUME IInv, NEW applied, applied \subseteq DOMAIN pendingWrites, NEW faulty, faulty \subseteq applied
  PROVE  /\ \A p : HasLog(p) => ChargedAmong(faulty, LogOf(p).array) = MadeAmong(faulty, p)
         /\ \A p : ~HasLog(p) => MadeAmong(faulty, p) = 0
         /\ \A array : (\A p : HasLog(p) => array # LogOf(p).array) => ChargedAmong(faulty, array) = 0
         /\ \A p \in Periods :
              /\ MadeAmong(faulty, p) \in Nat /\ Cardinality(PendingOf(p) \ applied) \in Nat
              /\ caused[p] + MadeAmong(faulty, p) + Cardinality(PendingOf(p) \ applied) <= Budget(p)
<1>1. LogsOwnTheirArrays /\ WritesChargedToTheirPeriod /\ FaultsBudgeted /\ MadeBounded
  BY DEF IInv, Accounts
<1>2. faulty \subseteq DOMAIN pendingWrites
  OBVIOUS
<1>3. Cardinality({}) = 0
  BY FS_EmptySet
<1>4. ASSUME NEW p, HasLog(p) PROVE ChargedAmong(faulty, LogOf(p).array) = MadeAmong(faulty, p)
  <2>1. {a \in faulty : pendingWrites[a].array = LogOf(p).array} = {a \in faulty : writtenIn[a] = p}
    BY <1>1, <1>2, <1>4, ChargedSets
  <2> QED BY <2>1 DEF ChargedAmong, MadeAmong
<1>5. ASSUME NEW p, ~HasLog(p) PROVE MadeAmong(faulty, p) = 0
  <2>1. {a \in faulty : writtenIn[a] = p} = {}
    BY <1>1, <1>2, <1>5, ChargedSets
  <2> QED BY <1>3, <2>1 DEF MadeAmong
<1>6. ASSUME NEW array, \A p : HasLog(p) => array # LogOf(p).array PROVE ChargedAmong(faulty, array) = 0
  <2>1. {a \in faulty : pendingWrites[a].array = array} = {}
    BY <1>1, <1>2, <1>6, ChargedSets
  <2> QED BY <1>3, <2>1 DEF ChargedAmong
<1>7. ASSUME NEW p \in Periods
      PROVE  /\ MadeAmong(faulty, p) \in Nat /\ Cardinality(PendingOf(p) \ applied) \in Nat
             /\ caused[p] + MadeAmong(faulty, p) + Cardinality(PendingOf(p) \ applied) <= Budget(p)
  <2> DEFINE S == PendingOf(p)
             X == {a \in applied : writtenIn[a] = p}
             F == {a \in faulty : writtenIn[a] = p}
             c == caused[p]
  <2>1. S \in SUBSET DOMAIN pendingWrites /\ X \subseteq S /\ F \subseteq X /\ S \ X = S \ applied
    BY DEF PendingOf
  <2>2. IsFiniteSet(DOMAIN pendingWrites) /\ c + Cardinality(S) <= Budget(p) /\ c \in Nat
    BY <1>1 DEF FaultsBudgeted
  <2>3. Budget(p) \in Nat
    BY <1>1, BudgetIs
  <2>4. MadeAmong(faulty, p) = Cardinality(F)
    BY DEF MadeAmong
  <2> HIDE DEF S, X, F, c
  <2>5. IsFiniteSet(S)
    BY <2>1, <2>2, FS_Subset
  <2>6. Cardinality(F) + Cardinality(S \ X) <= Cardinality(S)
        /\ Cardinality(F) \in Nat /\ Cardinality(S \ X) \in Nat /\ Cardinality(S) \in Nat
    BY <2>1, <2>5, FaultBudget
  <2>7. c + Cardinality(F) + Cardinality(S \ X) <= Budget(p)
    BY <2>2, <2>3, <2>6
  <2> QED BY <2>1, <2>4, <2>6, <2>7 DEF S, c
<1> QED BY <1>4, <1>5, <1>6, <1>7

\* A period that has a log is one of the periods.
LEMMA LoggedPeriod ==
  ASSUME TypeOK, NEW p, HasLog(p)
  PROVE  p \in Periods
BY DEF TypeOK, HasLog, Log

LEMMA ReadIInv ==
  ASSUME IInv, NEW a \in Addresses, NEW enabled \in BOOLEAN, Read(a, enabled)
  PROVE  IInv'
<1> DEFINE applied == LowerBound(DOMAIN pendingWrites, a)
<1>1. PICK faulty \in SUBSET applied, rf \in IF enabled THEN 0 .. 1 ELSE {0} :
        CountFaults(applied, faulty, rf)
  BY DEF Read
<1>2. /\ IncreaseAccess(enabled)
      /\ UNCHANGED <<currentPeriod, isActive, bufferLogs, live, configuration>>
      /\ UNCHANGED <<resumed, creationPeriod, bers>>
  BY <1>1 DEF Read, configuration, CountFaults
<1>3. applied \subseteq DOMAIN pendingWrites /\ faulty \subseteq applied
  BY DEF LowerBound
<1>4. rf \in 0 .. 1 /\ (~enabled => rf = 0)
  OBVIOUS
<1> HIDE DEF applied
<1>5. /\ periodLog' \in Log
      /\ periodLog'.period = periodLog.period /\ periodLog'.array = periodLog.array
      /\ periodLog'.berIndex = periodLog.berIndex
      /\ MadeBounded' /\ AccessesConserved' /\ OpenPeriodNotStored'
      /\ \A p : HasLog(p)' = HasLog(p)
      /\ \A p : LogOf(p)'.array = LogOf(p).array /\ LogOf(p)'.berIndex = LogOf(p).berIndex
  BY <1>2, AccessMade DEF IInv
<1>6. LogsOwnTheirArrays' /\ RetiredLog' /\ RatesFollowPeriods'
  BY <1>2, AccessKeeps
<1>7. isActive = 1 /\ HasLog(currentPeriod) /\ LogOf(currentPeriod) = periodLog
      /\ currentPeriod \in Periods /\ periodLog \in Log
  <2>1. isActive >= 1
    BY <1>2 DEF IncreaseAccess
  <2> QED BY <2>1, ActiveLog DEF IInv, Accounts
<1>8. /\ DOMAIN pendingWrites' = DOMAIN pendingWrites \ applied
      /\ DOMAIN writtenIn' = DOMAIN writtenIn \ applied
      /\ DOMAIN writtenIn = DOMAIN pendingWrites
      /\ \A b \in DOMAIN pendingWrites' :
           pendingWrites'[b] = pendingWrites[b] /\ writtenIn'[b] = writtenIn[b]
  BY <1>1 DEF CountFaults, Drop, IInv, TypeOK
<1>9. /\ counts' \in [Arrays -> {counts'[array] : array \in Arrays}]
      /\ caused' \in [Periods -> {caused'[p] : p \in Periods}]
      /\ \A array \in Arrays :
           counts'[array] = counts[array] + ChargedAmong(faulty, array)
                              + IF array = periodLog.array THEN rf ELSE 0
      /\ \A p \in Periods :
           caused'[p] = caused[p] + MadeAmong(faulty, p) + IF p = currentPeriod THEN rf ELSE 0
  BY <1>1 DEF CountFaults, ChargedAmong, MadeAmong
<1> DEFINE Left(p) == Cardinality(PendingOf(p) \ applied)
<1>10. /\ \A p : HasLog(p) => ChargedAmong(faulty, LogOf(p).array) = MadeAmong(faulty, p)
       /\ \A p : ~HasLog(p) => MadeAmong(faulty, p) = 0
       /\ \A array : (\A p : HasLog(p) => array # LogOf(p).array) => ChargedAmong(faulty, array) = 0
       /\ \A p \in Periods : /\ MadeAmong(faulty, p) \in Nat /\ Left(p) \in Nat
                             /\ caused[p] + MadeAmong(faulty, p) + Left(p) <= Budget(p)
  BY <1>3, Injected
<1> HIDE DEF Left
<1>11. /\ counts \in [Arrays -> Amount] /\ caused \in [Periods -> Nat]
       /\ \A p \in Periods : Budget(p) \in Nat
       /\ \A p : HasLog(p) => LogOf(p).array \in Arrays /\ p \in Periods
  BY LoggedPeriod, LogsAreLive, BudgetIs DEF IInv, Accounts, FaultsBudgeted, TypeOK
<1>12. \A p \in Periods : Budget(p)' = IF p = currentPeriod /\ enabled THEN Budget(p) + 1 ELSE Budget(p)
  BY <1>2, <1>7, BudgetAfter DEF IInv, Accounts
<1>13. ASSUME NEW p \in Periods
       PROVE  caused'[p] \in Nat /\ caused'[p] + Left(p) <= Budget(p)'
  <2>1. caused[p] \in Nat /\ MadeAmong(faulty, p) \in Nat /\ Left(p) \in Nat /\ Budget(p) \in Nat
        /\ caused[p] + MadeAmong(faulty, p) + Left(p) <= Budget(p)
    BY <1>10, <1>11
  <2>2. CASE p = currentPeriod /\ rf = 1
    <3>1. caused'[p] = caused[p] + MadeAmong(faulty, p) + 1 /\ Budget(p)' = Budget(p) + 1
      BY <1>4, <1>9, <1>12, <2>2
    <3> QED BY <2>1, <3>1
  <2>3. CASE p # currentPeriod \/ rf = 0
    <3>1. caused'[p] = caused[p] + MadeAmong(faulty, p) + 0
      BY <1>9, <2>3
    <3>2. Budget(p)' = Budget(p) \/ Budget(p)' = Budget(p) + 1
      BY <1>12
    <3> QED BY <2>1, <3>1, <3>2
  <2>4. rf = 0 \/ rf = 1
    BY <1>4
  <2> QED BY <2>2, <2>3, <2>4
<1>14. FaultsBudgeted'
  <2>1. \A p : PendingOf(p)' = PendingOf(p) \ applied
    BY <1>8 DEF PendingOf
  <2>2. IsFiniteSet(DOMAIN pendingWrites')
    <3>1. IsFiniteSet(DOMAIN pendingWrites) /\ DOMAIN pendingWrites' \in SUBSET DOMAIN pendingWrites
      BY <1>8 DEF IInv, Accounts, FaultsBudgeted
    <3> QED BY <3>1, FS_Subset
  <2>3. \A p \in Periods : caused'[p] + Cardinality(PendingOf(p)') <= Budget(p)'
    BY <1>13, <2>1 DEF Left
  <2>4. caused' \in [Periods -> Nat]
    BY <1>9, <1>13
  <2> QED BY <2>2, <2>3, <2>4 DEF FaultsBudgeted
<1>15. FaultsConserved'
  <2> SUFFICES ASSUME NEW p \in Periods
               PROVE  IF HasLog(p)' THEN counts'[LogOf(p)'.array] = caused'[p] ELSE caused'[p] = 0
    BY DEF FaultsConserved
  <2>1. CASE HasLog(p)
    <3>1. counts[LogOf(p).array] = caused[p]
      BY <2>1 DEF IInv, Accounts, FaultsConserved
    <3>2. LogOf(p).array = periodLog.array <=> p = currentPeriod
      BY <1>7, <2>1, OneLogAnArray DEF IInv, Accounts
    <3>3. counts'[LogOf(p).array] = caused'[p]
      BY <1>9, <1>10, <1>11, <2>1, <3>1, <3>2
    <3> QED BY <1>5, <2>1, <3>3
  <2>2. CASE ~HasLog(p)
    <3>1. caused[p] = 0 /\ p # currentPeriod /\ MadeAmong(faulty, p) = 0
      BY <1>7, <1>10, <2>2 DEF IInv, Accounts, FaultsConserved
    <3>2. caused'[p] = 0
      BY <1>9, <3>1
    <3> QED BY <1>5, <2>2, <3>2
  <2> QED BY <2>1, <2>2
<1>16. TypeOK'
  <2>1. ASSUME NEW array \in Arrays PROVE counts'[array] \in Amount
    <3>1. CASE \E p : HasLog(p) /\ array = LogOf(p).array
      <4>1. PICK p : HasLog(p) /\ array = LogOf(p).array
        BY <3>1
      <4>2. p \in Periods
        BY <1>11, <4>1
      <4>3. counts'[array] = caused'[p]
        BY <1>5, <1>15, <4>1, <4>2 DEF FaultsConserved
      <4>4. caused'[p] \in Nat /\ Left(p) \in Nat /\ caused'[p] + Left(p) <= Budget(p)'
        BY <1>10, <1>13, <4>2
      <4>5. Budget(p)' \in Nat /\ \A n \in Nat : n <= Budget(p)' => n \in Amount
        BY <1>5, <4>2, BudgetIsAfter
      <4>6. caused'[p] <= Budget(p)'
        BY <4>4, <4>5
      <4> QED BY <4>3, <4>4, <4>5, <4>6
    <3>2. CASE ~\E p : HasLog(p) /\ array = LogOf(p).array
      <4>1. array # periodLog.array /\ ChargedAmong(faulty, array) = 0
        BY <1>7, <1>10, <3>2
      <4>2. counts[array] \in Int
        BY <1>11, AmountIsInt
      <4>3. counts'[array] = counts[array] + 0 + 0
        BY <1>9, <4>1
      <4>4. counts'[array] = counts[array]
        BY <4>2, <4>3
      <4> QED BY <1>11, <4>4
    <3> QED BY <3>1, <3>2
  <2>2. counts' \in [Arrays -> Amount]
    BY <1>9, <2>1
  <2>3. /\ DOMAIN pendingWrites' \subseteq Addresses /\ DOMAIN writtenIn' = DOMAIN pendingWrites'
        /\ \A b \in DOMAIN pendingWrites' :
             pendingWrites'[b] \in [ber : Ber("write"), array : Arrays] /\ writtenIn'[b] \in Periods
    BY <1>8 DEF IInv, TypeOK
  <2> QED BY <1>2, <1>5, <2>2, <2>3 DEF IInv, TypeOK
<1>17. WritesChargedToTheirPeriod'
  <2> SUFFICES ASSUME NEW b \in DOMAIN pendingWrites', NEW p, p = writtenIn'[b]
               PROVE  HasLog(p)' /\ pendingWrites'[b].array = LogOf(p)'.array
    BY DEF WritesChargedToTheirPeriod
  <2>1. b \in DOMAIN pendingWrites /\ pendingWrites'[b] = pendingWrites[b] /\ p = writtenIn[b]
    BY <1>8
  <2>2. HasLog(p) /\ pendingWrites[b].array = LogOf(p).array
    BY <2>1 DEF WritesChargedToTheirPeriod, IInv, Accounts
  <2> QED BY <1>5, <2>1, <2>2
<1>18. RatesAsLogged'
  <2>1. ASSUME NEW b \in DOMAIN pendingWrites', NEW p, p = writtenIn'[b], NEW ber, ber = pendingWrites'[b].ber
        PROVE  NamedInLog(p, "write", ber)'
    <3>1. b \in DOMAIN pendingWrites /\ ber = pendingWrites[b].ber /\ p = writtenIn[b]
      BY <1>8, <2>1
    <3>2. NamedInLog(p, "write", ber)
      BY <1>7, <3>1 DEF IInv, Rates, RatesAsLogged, WriteBer
    <3> QED BY <1>2, <1>5, <3>2, NamedAfterAccess
  <2> QED BY <1>2, <1>5, <2>1, RatesNamed DEF IInv, Rates
<1> QED BY <1>5, <1>6, <1>14, <1>15, <1>16, <1>17, <1>18 DEF IInv, Accounts, Rates
-----------------------------------------------------------------------------
(***************************************************************************)
(* The end of a period.                                                    *)
(***************************************************************************)
\* An open period's log is stored under its own array, and a new array goes on.
LEMMA LogStored ==
  ASSUME TypeOK, Accounts, isActive = 1, NEW new \in Free, StoreCurrentPeriodLog(new)
  PROVE  /\ DOMAIN bufferLogs' = DOMAIN bufferLogs \union {currentPeriod}
         /\ bufferLogs'[currentPeriod] = periodLog
         /\ \A p \in DOMAIN bufferLogs : bufferLogs'[p] = bufferLogs[p]
         /\ live' = live \union {new} /\ new \in Arrays /\ new \notin live
         /\ \A p \in DOMAIN bufferLogs' : bufferLogs'[p] \in Log
         /\ Cardinality(live') = Cardinality(DOMAIN bufferLogs') + 1
<1>1. periodLog.period = currentPeriod /\ currentPeriod \notin DOMAIN bufferLogs /\ currentPeriod \in Periods
      /\ periodLog \in Log
  BY DEF Accounts, OpenPeriodNotStored, TypeOK
<1>2. [periodLog EXCEPT !.array = CopyLog(new).stored] = periodLog
  BY <1>1 DEF CopyLog, Log
<1>3. bufferLogs' = Update(bufferLogs, {currentPeriod}, periodLog) /\ live' = live \union {new}
  BY <1>1, <1>2 DEF StoreCurrentPeriodLog
<1>4. /\ DOMAIN bufferLogs' = DOMAIN bufferLogs \union {currentPeriod}
      /\ bufferLogs'[currentPeriod] = periodLog
      /\ \A p \in DOMAIN bufferLogs : bufferLogs'[p] = bufferLogs[p]
  BY <1>1, <1>3 DEF Update
<1>5. new \in Arrays /\ new \notin live
  BY DEF Free
<1>6. Cardinality(live') = Cardinality(DOMAIN bufferLogs') + 1
  <2>1. IsFiniteSet(live) /\ IsFiniteSet(DOMAIN bufferLogs)
    <3>1. IsFiniteSet(Arrays) /\ live \in SUBSET Arrays
      BY BoundsAssumption DEF TypeOK
    <3>2. IsFiniteSet(Periods) /\ DOMAIN bufferLogs \in SUBSET Periods
      BY FinitePeriods DEF TypeOK
    <3> QED BY <3>1, <3>2, FS_Subset
  <2>2. Cardinality(live) \in Nat /\ Cardinality(DOMAIN bufferLogs) \in Nat
    BY <2>1, FS_CardinalityType
  <2>3. Cardinality(live') = Cardinality(live) + 1
    BY <1>3, <1>5, <2>1, FS_AddElement
  <2>4. Cardinality(DOMAIN bufferLogs') = Cardinality(DOMAIN bufferLogs) + 1
    BY <1>1, <1>4, <2>1, FS_AddElement
  <2>5. Cardinality(live) = Cardinality(DOMAIN bufferLogs) + 1
    BY DEF Accounts, LogsOwnTheirArrays
  <2> QED BY <2>2, <2>3, <2>4, <2>5
<1> QED BY <1>1, <1>3, <1>4, <1>5, <1>6 DEF TypeOK

LEMMA NextPeriodIInv ==
  ASSUME IInv, NextPeriod
  PROVE  IInv'
<1>1. isActive = 1 /\ HasLog(currentPeriod) /\ LogOf(currentPeriod) = periodLog
      /\ currentPeriod \in Periods /\ periodLog \in Log /\ periodLog.period = currentPeriod
      /\ currentPeriod \notin DOMAIN bufferLogs
  <2>1. isActive >= 1
    BY DEF NextPeriod
  <2> QED BY <2>1, ActiveLog DEF IInv, Accounts, OpenPeriodNotStored
<1> PICK next : next = currentPeriod'
  OBVIOUS
<1>2. /\ next = currentPeriod + 1 /\ next \in Periods /\ next = currentPeriod'
      /\ UNCHANGED <<isActive, pendingWrites, creationPeriod>>
      /\ UNCHANGED <<made, caused, writtenIn, resumed>>
      /\ bers' = BersOf(currentPeriod', creationPeriod)
  BY <1>1, BoundsAssumption DEF NextPeriod, history, AdvanceBerIndex, Periods
<1>3. PICK new \in Free :
        /\ StoreCurrentPeriodLog(new)
        /\ periodLog' = StartedAt(currentPeriod', CopyLog(new).open, creationPeriod)
        /\ counts' = [CountsAfterCopy(new) EXCEPT ![CopyLog(new).open] = 0]
  BY DEF NextPeriod
<1>4. /\ DOMAIN bufferLogs' = DOMAIN bufferLogs \union {currentPeriod}
      /\ bufferLogs'[currentPeriod] = periodLog
      /\ \A p \in DOMAIN bufferLogs : bufferLogs'[p] = bufferLogs[p]
      /\ live' = live \union {new} /\ new \in Arrays /\ new \notin live
      /\ \A p \in DOMAIN bufferLogs' : bufferLogs'[p] \in Log
      /\ Cardinality(live') = Cardinality(DOMAIN bufferLogs') + 1
  BY <1>1, <1>3, LogStored DEF IInv
<1>5. /\ periodLog'.period = next /\ periodLog'.accesses = NoAccesses
      /\ periodLog'.array = new /\ periodLog'.berIndex = bers'
  BY <1>2, <1>3 DEF StartedAt, CopyLog
<1>20. /\ counts' \in [Arrays -> Amount] /\ counts'[new] = 0
       /\ \A array \in Arrays : array # new => counts'[array] = counts[array]
  <2>1. counts' = [[counts EXCEPT ![new] = counts[periodLog.array]] EXCEPT ![new] = 0]
    BY <1>3 DEF CountsAfterCopy, CopyLog
  <2>2. counts \in [Arrays -> Amount] /\ 0 \in Amount /\ periodLog.array \in Arrays
    BY <1>1, AmountIsInt DEF IInv, TypeOK, Log
  <2> QED BY <1>4, <2>1, <2>2
<1>6. periodLog' \in Log /\ \A category \in Categories : bers'[category] \in Ber(category)
  <2>1. creationPeriod \in Periods
    BY DEF IInv, TypeOK
  <2>2. bers' \in [Categories -> Nat] /\ \A category \in Categories : bers'[category] \in Ber(category)
    BY <1>2, <2>1, BersType
  <2>3. NoAccesses \in [BOOLEAN -> Amount]
    BY AmountIsInt DEF NoAccesses
  <2> QED BY <1>2, <1>3, <1>4, <1>5, <2>2, <2>3 DEF Log, StartedAt
<1>7. \A p : HasLog(p)' <=> HasLog(p) \/ p = next
  BY <1>1, <1>2, <1>4, <1>5 DEF HasLog
<1>8. \A p : HasLog(p) => LogOf(p)' = LogOf(p) /\ p # next /\ p \in Periods
  <2> SUFFICES ASSUME NEW p, HasLog(p) PROVE LogOf(p)' = LogOf(p) /\ p # next /\ p \in Periods
    OBVIOUS
  <2>1. p \in Periods
    BY LoggedPeriod DEF IInv
  <2>2. p <= currentPeriod
    BY <1>1, <2>1 DEF HasLog, IInv, Accounts, RetiredLog, Periods
  <2>3. p # next
    BY <1>1, <1>2, <2>1, <2>2 DEF Periods
  <2>4. p \in DOMAIN bufferLogs \/ p = currentPeriod
    BY <1>1 DEF HasLog
  <2> QED BY <1>1, <1>4, <2>1, <2>3, <2>4 DEF LogOf
<1>9. LogOf(next)' = periodLog' /\ ~HasLog(next) /\ next \notin DOMAIN bufferLogs'
  <2>1. ~HasLog(next)
    BY <1>8
  <2>2. next \notin DOMAIN bufferLogs'
    BY <1>1, <1>2, <1>4, <2>1 DEF HasLog, Periods
  <2> QED BY <2>1, <2>2 DEF LogOf
<1>10. TypeOK'
  BY <1>2, <1>4, <1>6, <1>20 DEF IInv, TypeOK
<1>11. LogsOwnTheirArrays'
  <2>1. \A p \in DOMAIN bufferLogs : bufferLogs[p].array \in live /\ bufferLogs[p].array # periodLog.array
    BY DEF IInv, Accounts, LogsOwnTheirArrays
  <2>2. periodLog.array \in live
    BY DEF IInv, Accounts, LogsOwnTheirArrays
  <2>3. \A p, q \in DOMAIN bufferLogs' : bufferLogs'[p].array = bufferLogs'[q].array => p = q
    BY <1>4, <2>1 DEF IInv, Accounts, LogsOwnTheirArrays
  <2> QED BY <1>4, <1>5, <2>1, <2>2, <2>3 DEF LogsOwnTheirArrays
<1>12. WritesChargedToTheirPeriod'
  BY <1>2, <1>7, <1>8 DEF IInv, Accounts, WritesChargedToTheirPeriod
<1>13. OpenPeriodNotStored'
  BY <1>2, <1>5, <1>9 DEF OpenPeriodNotStored
<1>14. RetiredLog'
  <2>1. \A p \in DOMAIN bufferLogs' : p \in Periods /\ p <= currentPeriod
    BY <1>1, <1>4 DEF IInv, Accounts, RetiredLog, TypeOK, Periods
  <2>2. \A p \in DOMAIN bufferLogs' : p <= next
    BY <1>1, <1>2, <2>1 DEF Periods
  <2>3. periodLog'.period <= currentPeriod' /\ isActive' = 1
    <3>1. next \in Int
      BY <1>2 DEF Periods
    <3>2. next <= next
      BY <3>1
    <3> QED BY <1>1, <1>2, <1>5, <3>2
  <2> QED BY <1>5, <2>2, <2>3 DEF RetiredLog
<1>15. AccessesConserved'
  <2> SUFFICES ASSUME NEW p \in Periods
               PROVE  IF HasLog(p)' THEN LogOf(p)'.accesses = made'[p] ELSE made'[p] = NoAccesses
    BY DEF AccessesConserved
  <2>1. CASE p = next
    BY <1>2, <1>5, <1>7, <1>9, <2>1 DEF IInv, Accounts, AccessesConserved
  <2>2. CASE p # next
    BY <1>2, <1>7, <1>8, <2>2 DEF IInv, Accounts, AccessesConserved
  <2> QED BY <2>1, <2>2
<1>16. FaultsConserved'
  <2> SUFFICES ASSUME NEW p \in Periods
               PROVE  IF HasLog(p)' THEN counts'[LogOf(p)'.array] = caused'[p] ELSE caused'[p] = 0
    BY DEF FaultsConserved
  <2>1. CASE p = next
    BY <1>2, <1>5, <1>7, <1>9, <1>20, <2>1 DEF IInv, Accounts, FaultsConserved
  <2>2. CASE p # next
    <3>1. HasLog(p) => LogOf(p).array \in Arrays /\ LogOf(p).array # new
      BY <1>4, LogsAreLive DEF IInv, Accounts, TypeOK
    <3> QED BY <1>2, <1>7, <1>8, <1>20, <2>2, <3>1 DEF IInv, Accounts, FaultsConserved
  <2> QED BY <2>1, <2>2
<1>17. MadeBounded' /\ FaultsBudgeted'
  <2>1. \A p : PendingOf(p)' = PendingOf(p) /\ Budget(p)' = Budget(p)
    BY <1>2 DEF PendingOf, Budget
  <2> QED BY <1>2, <2>1 DEF IInv, Accounts, MadeBounded, FaultsBudgeted
<1>18. RatesFollowPeriods'
  <2>1. creationPeriod \in Periods
    BY DEF IInv, TypeOK
  <2> QED BY <1>2, <2>1, BersType DEF RatesFollowPeriods
<1>19. RatesAsLogged'
  <2>1. \A category \in Categories : NamedInLog(currentPeriod, category, bers[category])'
    BY <1>2, <1>5, <1>9 DEF NamedInLog
  <2>2. ASSUME NEW b \in DOMAIN pendingWrites' PROVE NamedInLog(writtenIn[b], "write", WriteBer(b))'
    <3>1. b \in DOMAIN pendingWrites /\ pendingWrites'[b] = pendingWrites[b] /\ writtenIn'[b] = writtenIn[b]
      BY <1>2, <2>2
    <3>2. NamedInLog(writtenIn[b], "write", pendingWrites[b].ber) /\ HasLog(writtenIn[b])
      BY <1>1, <3>1 DEF IInv, Accounts, WritesChargedToTheirPeriod, Rates, RatesAsLogged, WriteBer
    <3> QED BY <1>2, <1>8, <3>1, <3>2 DEF NamedInLog, WriteBer
  <2> QED BY <2>1, <2>2 DEF RatesAsLogged
<1> QED BY <1>10, <1>11, <1>12, <1>13, <1>14, <1>15, <1>16, <1>17, <1>18, <1>19 DEF IInv, Accounts, Rates

LEMMA NextPeriodRetiredIInv ==
  ASSUME IInv, NextPeriodRetired
  PROVE  IInv'
<1>1. /\ isActive = 0 /\ currentPeriod' = currentPeriod + 1 /\ currentPeriod' \in Periods
      /\ UNCHANGED <<isActive, periodLog, bufferLogs, counts, live, pendingWrites>>
      /\ UNCHANGED <<made, caused, writtenIn, resumed, creationPeriod, bers>>
  BY BoundsAssumption DEF NextPeriodRetired, configuration, history, IInv, TypeOK, Periods
<1>2. TypeOK'
  BY <1>1 DEF IInv, TypeOK
<1>3. \A p : HasLog(p)' = HasLog(p) /\ LogOf(p)' = LogOf(p) /\ PendingOf(p)' = PendingOf(p)
             /\ Budget(p)' = Budget(p)
  BY <1>1 DEF HasLog, LogOf, PendingOf, Budget
<1>4. LogsOwnTheirArrays' /\ OpenPeriodNotStored'
  BY <1>1 DEF LogsOwnTheirArrays, OpenPeriodNotStored, IInv, Accounts
<1>5. WritesChargedToTheirPeriod'
  BY <1>1 DEF WritesChargedToTheirPeriod, IInv, Accounts, RetiredLog
<1>6. RetiredLog'
  <2>1. currentPeriod \in Int /\ periodLog.period \in Int /\ periodLog.period <= currentPeriod
    BY DEF IInv, Accounts, RetiredLog, TypeOK, Log, Periods
  <2>2. periodLog.period <= currentPeriod + 1
    BY <2>1
  <2> QED BY <1>1, <2>2 DEF RetiredLog, IInv, Accounts
<1>7. AccessesConserved' /\ FaultsConserved' /\ MadeBounded' /\ FaultsBudgeted'
  BY <1>1, <1>3 DEF AccessesConserved, FaultsConserved, MadeBounded, FaultsBudgeted, IInv, Accounts
<1>8. RatesFollowPeriods' /\ RatesAsLogged'
  BY <1>1 DEF RatesFollowPeriods, RatesAsLogged
<1> QED BY <1>2, <1>4, <1>5, <1>6, <1>7, <1>8 DEF IInv, Accounts, Rates
-----------------------------------------------------------------------------
(***************************************************************************)
(* Retirement and reactivation.                                            *)
(***************************************************************************)
LEMMA RetireIInv ==
  ASSUME IInv, RetireBuffer
  PROVE  IInv'
<1>1. isActive = 1 /\ HasLog(currentPeriod) /\ LogOf(currentPeriod) = periodLog
      /\ currentPeriod \in Periods /\ periodLog \in Log /\ periodLog.period = currentPeriod
      /\ currentPeriod \notin DOMAIN bufferLogs
  <2>1. isActive >= 1
    BY DEF RetireBuffer, LastHolder
  <2> QED BY <2>1, ActiveLog DEF IInv, Accounts, OpenPeriodNotStored
<1> DEFINE applied == DOMAIN pendingWrites
<1>2. PICK new \in Free, faulty \in SUBSET applied :
        /\ StoreCurrentPeriodLog(new)
        /\ periodLog' = [periodLog EXCEPT !.array = CopyLog(new).open]
        /\ counts' = [array \in Arrays |->
                        ChargedTo(IF array = new THEN periodLog.array ELSE array, faulty)]
        /\ caused' = [p \in Periods |-> caused[p] + Cardinality({a \in faulty : writtenIn[a] = p})]
  BY DEF RetireBuffer, AppliedOnRetire
<1>3. /\ isActive' = 0 /\ DOMAIN pendingWrites' = {} /\ DOMAIN writtenIn' = {}
      /\ UNCHANGED <<currentPeriod, made, resumed, creationPeriod, bers>>
  <2>1. DOMAIN writtenIn = DOMAIN pendingWrites
    BY DEF IInv, TypeOK
  <2> QED BY <1>1, <2>1 DEF RetireBuffer, AppliedOnRetire, Drop, configuration
<1>4. /\ DOMAIN bufferLogs' = DOMAIN bufferLogs \union {currentPeriod}
      /\ bufferLogs'[currentPeriod] = periodLog
      /\ \A p \in DOMAIN bufferLogs : bufferLogs'[p] = bufferLogs[p]
      /\ live' = live \union {new} /\ new \in Arrays /\ new \notin live
      /\ \A p \in DOMAIN bufferLogs' : bufferLogs'[p] \in Log
      /\ Cardinality(live') = Cardinality(DOMAIN bufferLogs') + 1
  BY <1>1, <1>2, LogStored DEF IInv
<1>5. /\ periodLog'.period = periodLog.period /\ periodLog'.accesses = periodLog.accesses
      /\ periodLog'.array = new /\ periodLog' \in Log
  BY <1>1, <1>2, <1>4 DEF CopyLog, Log
<1>6. /\ \A array \in Arrays : array # new => counts'[array] = counts[array] + ChargedAmong(faulty, array)
      /\ counts'[new] = counts[periodLog.array] + ChargedAmong(faulty, periodLog.array)
      /\ \A p \in Periods : caused'[p] = caused[p] + MadeAmong(faulty, p)
      /\ counts' = [array \in Arrays |-> counts'[array]]
      /\ caused' = [p \in Periods |-> caused'[p]]
  <2>1. \A array \in Arrays :
          counts'[array] = ChargedTo(IF array = new THEN periodLog.array ELSE array, faulty)
    BY <1>2
  <2>2. \A array : ChargedTo(array, faulty) = counts[array] + ChargedAmong(faulty, array)
    BY DEF ChargedTo, ChargedAmong
  <2>3. /\ counts' = [array \in Arrays |-> counts'[array]]
        /\ caused' = [p \in Periods |-> caused'[p]]
        /\ \A p \in Periods : caused'[p] = caused[p] + MadeAmong(faulty, p)
    BY <1>2 DEF MadeAmong
  <2> QED BY <1>4, <2>1, <2>2, <2>3
<1> DEFINE Left(p) == Cardinality(PendingOf(p) \ applied)
<1>7. /\ \A p : HasLog(p) => ChargedAmong(faulty, LogOf(p).array) = MadeAmong(faulty, p)
      /\ \A p : ~HasLog(p) => MadeAmong(faulty, p) = 0
      /\ \A array : (\A p : HasLog(p) => array # LogOf(p).array) => ChargedAmong(faulty, array) = 0
      /\ \A p \in Periods : /\ MadeAmong(faulty, p) \in Nat /\ Left(p) \in Nat
                            /\ caused[p] + MadeAmong(faulty, p) + Left(p) <= Budget(p)
  BY Injected
<1> HIDE DEF Left, applied
<1>8. /\ counts \in [Arrays -> Amount] /\ caused \in [Periods -> Nat]
      /\ \A p \in Periods : Budget(p) \in Nat
      /\ \A p : HasLog(p) => LogOf(p).array \in Arrays /\ LogOf(p).array # new /\ p \in Periods
  BY <1>4, LoggedPeriod, LogsAreLive, BudgetIs DEF IInv, Accounts, FaultsBudgeted, TypeOK
<1>9. ASSUME NEW p \in Periods PROVE caused'[p] \in Nat /\ caused'[p] <= Budget(p)
  <2>1. caused[p] \in Nat /\ MadeAmong(faulty, p) \in Nat /\ Left(p) \in Nat /\ Budget(p) \in Nat
        /\ caused[p] + MadeAmong(faulty, p) + Left(p) <= Budget(p)
    BY <1>7, <1>8
  <2>2. caused'[p] = caused[p] + MadeAmong(faulty, p)
    BY <1>6
  <2> QED BY <2>1, <2>2
<1>10. \A p : HasLog(p)' <=> HasLog(p)
  BY <1>1, <1>3, <1>4 DEF HasLog
<1>11. \A p : HasLog(p) => LogOf(p)' = LogOf(p)
  BY <1>1, <1>4 DEF HasLog, LogOf
<1>12. FaultsConserved'
  <2> SUFFICES ASSUME NEW p \in Periods
               PROVE  IF HasLog(p)' THEN counts'[LogOf(p)'.array] = caused'[p] ELSE caused'[p] = 0
    BY DEF FaultsConserved
  <2>1. CASE HasLog(p)
    <3>1. counts[LogOf(p).array] = caused[p]
      BY <2>1 DEF IInv, Accounts, FaultsConserved
    <3>2. counts'[LogOf(p).array] = caused'[p]
      BY <1>6, <1>7, <1>8, <2>1, <3>1
    <3> QED BY <1>10, <1>11, <2>1, <3>2
  <2>2. CASE ~HasLog(p)
    <3>1. caused[p] = 0 /\ MadeAmong(faulty, p) = 0
      BY <1>7, <2>2 DEF IInv, Accounts, FaultsConserved
    <3>2. caused'[p] = 0
      BY <1>6, <3>1
    <3> QED BY <1>10, <2>2, <3>2
  <2> QED BY <2>1, <2>2
<1>13. counts'[new] = counts'[periodLog.array]
  BY <1>1, <1>4, <1>6, <1>8
<1>14. TypeOK'
  <2>1. ASSUME NEW array \in Arrays, NEW p, HasLog(p), array = LogOf(p).array
        PROVE  counts'[array] \in Amount
    <3>1. p \in Periods /\ counts'[array] = caused'[p]
      BY <1>8, <1>10, <1>11, <1>12, <2>1 DEF FaultsConserved
    <3>2. \A n \in Nat : n <= Budget(p) => n \in Amount
      BY <3>1, BudgetIs DEF IInv, Accounts
    <3> QED BY <1>9, <3>1, <3>2
  <2>2. ASSUME NEW array \in Arrays, array # new, \A p : HasLog(p) => array # LogOf(p).array
        PROVE  counts'[array] \in Amount
    <3>1. counts[array] \in Int /\ counts'[array] = counts[array] + 0
      BY <1>6, <1>7, <1>8, <2>2, AmountIsInt
    <3>2. counts'[array] = counts[array]
      BY <3>1
    <3> QED BY <1>8, <3>2
  <2>3. counts'[new] \in Amount
    BY <1>1, <1>8, <1>13, <2>1
  <2>4. counts' \in [Arrays -> Amount]
    BY <1>6, <2>1, <2>2, <2>3
  <2> QED BY <1>1, <1>3, <1>4, <1>5, <2>4 DEF IInv, TypeOK
<1>15. LogsOwnTheirArrays'
  <2>1. \A p \in DOMAIN bufferLogs : bufferLogs[p].array \in live /\ bufferLogs[p].array # periodLog.array
    BY DEF IInv, Accounts, LogsOwnTheirArrays
  <2>2. periodLog.array \in live
    BY DEF IInv, Accounts, LogsOwnTheirArrays
  <2>3. \A p, q \in DOMAIN bufferLogs' : bufferLogs'[p].array = bufferLogs'[q].array => p = q
    BY <1>4, <2>1 DEF IInv, Accounts, LogsOwnTheirArrays
  <2> QED BY <1>4, <1>5, <2>1, <2>2, <2>3 DEF LogsOwnTheirArrays
<1>16. WritesChargedToTheirPeriod' /\ OpenPeriodNotStored' /\ RatesFollowPeriods' /\ RatesAsLogged'
  BY <1>3 DEF WritesChargedToTheirPeriod, OpenPeriodNotStored, RatesFollowPeriods, RatesAsLogged
<1>17. RetiredLog'
  <2>1. /\ periodLog.period \in DOMAIN bufferLogs'
        /\ periodLog.accesses = bufferLogs'[periodLog.period].accesses
        /\ counts'[new] = counts'[bufferLogs'[periodLog.period].array]
    BY <1>1, <1>4, <1>13
  <2>2. \A p \in DOMAIN bufferLogs' : p <= periodLog.period
    <3>1. currentPeriod <= currentPeriod
      BY <1>1 DEF Periods
    <3> QED BY <1>1, <1>4, <3>1 DEF IInv, Accounts, RetiredLog
  <2>3. periodLog.period <= currentPeriod'
    BY <1>1, <1>3 DEF IInv, Accounts, RetiredLog
  <2> QED BY <1>3, <1>5, <2>1, <2>2, <2>3 DEF RetiredLog
<1>18. AccessesConserved'
  BY <1>3, <1>10, <1>11 DEF AccessesConserved, IInv, Accounts
<1>19. MadeBounded'
  BY <1>3 DEF MadeBounded, IInv, Accounts
<1>20. FaultsBudgeted'
  <2>1. \A p : PendingOf(p)' = {} /\ Budget(p)' = Budget(p)
    BY <1>3 DEF PendingOf, Budget
  <2>2. Cardinality({}) = 0 /\ IsFiniteSet(DOMAIN pendingWrites')
    BY <1>3, FS_EmptySet
  <2>3. ASSUME NEW p \in Periods PROVE caused'[p] + Cardinality(PendingOf(p)') <= Budget(p)'
    <3>1. caused'[p] + 0 <= Budget(p)
      BY <1>8, <1>9
    <3> QED BY <2>1, <2>2, <3>1
  <2>4. caused' \in [Periods -> Nat]
    BY <1>6, <1>9
  <2> QED BY <2>2, <2>3, <2>4 DEF FaultsBudgeted
<1> QED BY <1>12, <1>14, <1>15, <1>16, <1>17, <1>18, <1>19, <1>20 DEF IInv, Accounts, Rates

\* The rates of a buffer that comes back, and what is the same whether it
\* resumes the log of the period or starts one.
LEMMA BackAtFirstRates ==
  ASSUME IInv, ReactivateBuffer
  PROVE  /\ isActive = 0 /\ isActive' = 1 /\ creationPeriod' = currentPeriod
         /\ UNCHANGED <<currentPeriod, pendingWrites, made, caused, writtenIn>>
         /\ DOMAIN pendingWrites = {} /\ DOMAIN writtenIn = {} /\ currentPeriod \in Periods
         /\ bers' = BersOf(currentPeriod, currentPeriod)
         /\ \A category \in Categories : bers'[category] \in Ber(category) /\ bers'[category] = 0
         /\ resumed' = (currentPeriod \in DOMAIN bufferLogs)
         /\ RatesFollowPeriods' /\ WritesChargedToTheirPeriod' /\ MadeBounded' /\ FaultsBudgeted'
<1>1. /\ isActive = 0 /\ isActive' = 1 /\ creationPeriod' = currentPeriod
      /\ UNCHANGED <<currentPeriod, pendingWrites, made, caused, writtenIn>>
      /\ bers' = BersOf(currentPeriod, currentPeriod)
      /\ resumed' = (currentPeriod \in DOMAIN bufferLogs)
  BY DEF ReactivateBuffer, ResetBerIndex
<1>2. currentPeriod \in Periods /\ DOMAIN pendingWrites = {} /\ DOMAIN writtenIn = {}
  BY <1>1 DEF IInv, TypeOK, Accounts, RetiredLog
<1>3. \A category \in Categories :
        /\ bers'[category] \in Ber(category) /\ bers'[category] = 0
        /\ bers'[category] = (currentPeriod - currentPeriod) % BerCount[category]
  BY <1>1, <1>2, BersType
<1>4. RatesFollowPeriods' /\ WritesChargedToTheirPeriod'
  BY <1>1, <1>2, <1>3 DEF RatesFollowPeriods, WritesChargedToTheirPeriod
<1>5. MadeBounded' /\ FaultsBudgeted'
  <2>1. \A p : PendingOf(p)' = PendingOf(p) /\ Budget(p)' = Budget(p)
    BY <1>1 DEF PendingOf, Budget
  <2> QED BY <1>1, <2>1 DEF IInv, Accounts, MadeBounded, FaultsBudgeted
<1> QED BY <1>1, <1>2, <1>3, <1>4, <1>5

LEMMA ResumeIInv ==
  ASSUME IInv, ReactivateBuffer, currentPeriod \in DOMAIN bufferLogs
  PROVE  IInv'
<1>1. /\ isActive = 0 /\ isActive' = 1 /\ creationPeriod' = currentPeriod
      /\ UNCHANGED <<currentPeriod, pendingWrites, made, caused, writtenIn>>
      /\ DOMAIN pendingWrites = {} /\ DOMAIN writtenIn = {} /\ currentPeriod \in Periods
      /\ \A category \in Categories : bers'[category] \in Ber(category) /\ bers'[category] = 0
      /\ resumed' = TRUE
      /\ RatesFollowPeriods' /\ WritesChargedToTheirPeriod' /\ MadeBounded' /\ FaultsBudgeted'
  BY BackAtFirstRates
<1>2. /\ bufferLogs' = Drop(bufferLogs, {currentPeriod})
      /\ live' = live \ {bufferLogs[currentPeriod].array}
      /\ UNCHANGED <<periodLog, counts>>
  BY DEF ReactivateBuffer
<1>3. /\ DOMAIN bufferLogs' = DOMAIN bufferLogs \ {currentPeriod}
      /\ \A p \in DOMAIN bufferLogs' : bufferLogs'[p] = bufferLogs[p]
  BY <1>2 DEF Drop
<1>4. /\ periodLog.period = currentPeriod
      /\ periodLog.accesses = bufferLogs[currentPeriod].accesses
      /\ counts[periodLog.array] = counts[bufferLogs[currentPeriod].array]
  <2>1. periodLog.period <= currentPeriod /\ currentPeriod <= periodLog.period
        /\ periodLog.period \in Int /\ currentPeriod \in Int
    BY DEF IInv, Accounts, RetiredLog, TypeOK, Log, Periods
  <2>2. periodLog.period = currentPeriod
    BY <2>1
  <2> QED BY <1>1, <2>2 DEF IInv, Accounts, RetiredLog
<1>5. LogsOwnTheirArrays
  BY DEF IInv, Accounts
<1>6. LogsOwnTheirArrays'
  <2>1. IsFiniteSet(live) /\ IsFiniteSet(DOMAIN bufferLogs)
    <3>1. IsFiniteSet(Arrays) /\ live \in SUBSET Arrays
      BY BoundsAssumption DEF IInv, TypeOK
    <3>2. IsFiniteSet(Periods) /\ DOMAIN bufferLogs \in SUBSET Periods
      BY FinitePeriods DEF IInv, TypeOK
    <3> QED BY <3>1, <3>2, FS_Subset
  <2>2. Cardinality(live) \in Nat /\ Cardinality(DOMAIN bufferLogs) \in Nat
    BY <2>1, FS_CardinalityType
  <2>3. bufferLogs[currentPeriod].array \in live
    BY <1>5 DEF LogsOwnTheirArrays
  <2>4. Cardinality(live') = Cardinality(live) - 1
    BY <1>2, <2>1, <2>3, FS_RemoveElement
  <2>5. Cardinality(DOMAIN bufferLogs') = Cardinality(DOMAIN bufferLogs) - 1
    BY <1>3, <2>1, FS_RemoveElement
  <2>6. Cardinality(live') = Cardinality(DOMAIN bufferLogs') + 1
    BY <1>5, <2>2, <2>4, <2>5 DEF LogsOwnTheirArrays
  <2>7. \A p \in DOMAIN bufferLogs' : bufferLogs'[p].array \in live'
    BY <1>2, <1>3, <1>5 DEF LogsOwnTheirArrays
  <2>8. periodLog.array \in live'
    BY <1>2, <1>5 DEF LogsOwnTheirArrays
  <2> QED BY <1>2, <1>3, <1>5, <2>6, <2>7, <2>8 DEF LogsOwnTheirArrays
<1>7. \A p : HasLog(p)' <=> HasLog(p)
  BY <1>1, <1>2, <1>3, <1>4 DEF HasLog
<1>8. \A p : HasLog(p) =>
        LogOf(p)'.accesses = LogOf(p).accesses /\ counts[LogOf(p)'.array] = counts[LogOf(p).array]
  BY <1>1, <1>2, <1>3, <1>4 DEF HasLog, LogOf
<1>9. AccessesConserved' /\ FaultsConserved'
  BY <1>1, <1>2, <1>7, <1>8 DEF AccessesConserved, FaultsConserved, IInv, Accounts
<1>10. OpenPeriodNotStored'
  BY <1>1, <1>2, <1>3, <1>4 DEF OpenPeriodNotStored
<1>11. RetiredLog'
  BY <1>1, <1>2, <1>3 DEF RetiredLog, IInv, Accounts
<1>12. RatesAsLogged'
  BY <1>1 DEF RatesAsLogged, NamedInLog
<1>13. TypeOK'
  <2>1. /\ DOMAIN bufferLogs' \subseteq Periods /\ live' \subseteq Arrays
        /\ \A p \in DOMAIN bufferLogs' : bufferLogs'[p] \in Log
    BY <1>2, <1>3 DEF TypeOK, IInv
  <2>2. periodLog' \in Log /\ counts' \in [Arrays -> Amount]
    BY <1>2 DEF TypeOK, IInv
  <2>3. currentPeriod' \in Periods /\ isActive' \in 0 .. 1 /\ creationPeriod' \in Periods
    BY <1>1
  <2>4. /\ DOMAIN pendingWrites' = {} /\ DOMAIN writtenIn' = {}
        /\ \A category \in Categories : bers'[category] \in Ber(category)
    BY <1>1
  <2> QED BY <2>1, <2>2, <2>3, <2>4 DEF TypeOK
<1> QED BY <1>1, <1>6, <1>9, <1>10, <1>11, <1>12, <1>13 DEF IInv, Accounts, Rates

LEMMA StartIInv ==
  ASSUME IInv, ReactivateBuffer, currentPeriod \notin DOMAIN bufferLogs
  PROVE  IInv'
<1>1. /\ isActive = 0 /\ isActive' = 1 /\ creationPeriod' = currentPeriod
      /\ UNCHANGED <<currentPeriod, pendingWrites, made, caused, writtenIn>>
      /\ DOMAIN pendingWrites = {} /\ DOMAIN writtenIn = {} /\ currentPeriod \in Periods
      /\ bers' = BersOf(currentPeriod, currentPeriod)
      /\ \A category \in Categories : bers'[category] \in Ber(category) /\ bers'[category] = 0
      /\ RatesFollowPeriods' /\ WritesChargedToTheirPeriod' /\ MadeBounded' /\ FaultsBudgeted'
  BY BackAtFirstRates
<1>2. /\ periodLog' = StartedAt(currentPeriod, periodLog.array, currentPeriod)
      /\ counts' = [counts EXCEPT ![periodLog.array] = 0]
      /\ UNCHANGED <<bufferLogs, live>>
  BY DEF ReactivateBuffer
<1>3. /\ periodLog'.period = currentPeriod /\ periodLog'.accesses = NoAccesses
      /\ periodLog'.array = periodLog.array /\ periodLog'.berIndex = bers'
  BY <1>1, <1>2 DEF StartedAt
<1>4. periodLog' \in Log
  <2>1. BersOf(currentPeriod, currentPeriod) \in [Categories -> Nat]
    BY <1>1, BersType
  <2>2. NoAccesses \in [BOOLEAN -> Amount]
    BY AmountIsInt DEF NoAccesses
  <2>3. periodLog.array \in Arrays
    BY DEF IInv, TypeOK, Log
  <2> QED BY <1>1, <1>2, <2>1, <2>2, <2>3 DEF Log, StartedAt
<1>5. /\ counts' \in [Arrays -> Amount] /\ counts'[periodLog.array] = 0
      /\ \A array \in Arrays : array # periodLog.array => counts'[array] = counts[array]
  BY <1>2, AmountIsInt DEF IInv, TypeOK, Log
<1>6. LogsOwnTheirArrays'
  BY <1>2, <1>3 DEF LogsOwnTheirArrays, IInv, Accounts
<1>7. /\ \A p : HasLog(p) <=> p \in DOMAIN bufferLogs
      /\ \A p : HasLog(p)' <=> p \in DOMAIN bufferLogs \/ p = currentPeriod
      /\ LogOf(currentPeriod)' = periodLog'
      /\ \A p \in DOMAIN bufferLogs : LogOf(p) = bufferLogs[p] /\ LogOf(p)' = bufferLogs[p]
  BY <1>1, <1>2, <1>3 DEF HasLog, LogOf
<1>8. \A p \in DOMAIN bufferLogs : bufferLogs[p].array \in Arrays /\ bufferLogs[p].array # periodLog.array
  BY DEF IInv, Accounts, LogsOwnTheirArrays, TypeOK
<1>9. AccessesConserved'
  <2> SUFFICES ASSUME NEW p \in Periods
               PROVE  IF HasLog(p)' THEN LogOf(p)'.accesses = made'[p] ELSE made'[p] = NoAccesses
    BY DEF AccessesConserved
  <2>1. CASE p = currentPeriod
    BY <1>1, <1>3, <1>7, <2>1 DEF AccessesConserved, IInv, Accounts
  <2>2. CASE p # currentPeriod
    BY <1>1, <1>7, <2>2 DEF AccessesConserved, IInv, Accounts
  <2> QED BY <2>1, <2>2
<1>10. FaultsConserved'
  <2> SUFFICES ASSUME NEW p \in Periods
               PROVE  IF HasLog(p)' THEN counts'[LogOf(p)'.array] = caused'[p] ELSE caused'[p] = 0
    BY DEF FaultsConserved
  <2>1. CASE p = currentPeriod
    BY <1>1, <1>3, <1>5, <1>7, <2>1 DEF FaultsConserved, IInv, Accounts
  <2>2. CASE p # currentPeriod
    BY <1>1, <1>5, <1>7, <1>8, <2>2 DEF FaultsConserved, IInv, Accounts
  <2> QED BY <2>1, <2>2
<1>11. OpenPeriodNotStored'
  BY <1>1, <1>2, <1>3 DEF OpenPeriodNotStored
<1>12. RetiredLog'
  <2>1. currentPeriod \in Int /\ periodLog.period \in Int /\ periodLog.period <= currentPeriod
    BY <1>1 DEF IInv, Accounts, RetiredLog, TypeOK, Log, Periods
  <2>2. currentPeriod <= currentPeriod
    BY <2>1
  <2>3. \A p \in DOMAIN bufferLogs : p <= currentPeriod
    <3>1. \A p \in DOMAIN bufferLogs : p \in Int /\ p <= periodLog.period
      BY DEF IInv, Accounts, RetiredLog, TypeOK, Periods
    <3> QED BY <2>1, <3>1
  <2> QED BY <1>1, <1>2, <1>3, <2>2, <2>3 DEF RetiredLog
<1>13. RatesAsLogged'
  BY <1>1, <1>3, <1>7 DEF RatesAsLogged, NamedInLog
<1>14. TypeOK'
  BY <1>1, <1>2, <1>4, <1>5 DEF TypeOK, IInv
<1> QED BY <1>1, <1>6, <1>9, <1>10, <1>11, <1>12, <1>13, <1>14 DEF IInv, Accounts, Rates
-----------------------------------------------------------------------------
(***************************************************************************)
(* The inductive invariant.                                                *)
(***************************************************************************)
LEMMA InitIInv == Init => IInv
<1> SUFFICES ASSUME Init PROVE IInv
  OBVIOUS
<1>1. PICK array \in Arrays : periodLog = StartedAt(0, array, 0) /\ live = {array}
  BY DEF Init
<1>2. 0 \in Periods /\ \A p \in Periods : p \in Int
  BY BoundsAssumption DEF Periods
<1>3. /\ currentPeriod = 0 /\ isActive = 1 /\ DOMAIN bufferLogs = {} /\ DOMAIN pendingWrites = {}
      /\ DOMAIN writtenIn = {} /\ counts = [c \in Arrays |-> 0] /\ creationPeriod = 0
      /\ bers = BersOf(0, 0) /\ made = [p \in Periods |-> NoAccesses] /\ caused = [p \in Periods |-> 0]
  BY DEF Init
<1>4. /\ periodLog.period = 0 /\ periodLog.accesses = NoAccesses /\ periodLog.array = array
      /\ periodLog.berIndex = bers
  BY <1>1, <1>3 DEF StartedAt
<1>5. /\ BersOf(0, 0) \in [Categories -> Nat]
      /\ \A category \in Categories : bers[category] = (0 - 0) % BerCount[category]
                                      /\ bers[category] \in Ber(category)
  BY <1>2, <1>3, BersType
<1>6. NoAccesses \in [BOOLEAN -> Amount] /\ NoAccesses \in [BOOLEAN -> Nat] /\ 0 \in Amount
  BY AmountIsInt DEF NoAccesses
<1>7. TypeOK
  <2>1. periodLog \in Log
    BY <1>1, <1>2, <1>5, <1>6 DEF Log, StartedAt
  <2> QED BY <1>1, <1>2, <1>3, <1>5, <1>6, <2>1 DEF TypeOK
<1>8. LogsOwnTheirArrays
  <2>1. Cardinality(live) = 1 /\ Cardinality(DOMAIN bufferLogs) = 0
    BY <1>1, <1>3, FS_Singleton, FS_EmptySet
  <2> QED BY <1>1, <1>3, <1>4, <2>1 DEF LogsOwnTheirArrays
<1>9. WritesChargedToTheirPeriod /\ OpenPeriodNotStored
  BY <1>3, <1>4 DEF WritesChargedToTheirPeriod, OpenPeriodNotStored
<1>10. RetiredLog
  BY <1>3, <1>4 DEF RetiredLog
<1>11. AccessesConserved /\ FaultsConserved
  BY <1>1, <1>3, <1>4 DEF AccessesConserved, FaultsConserved, HasLog, LogOf
<1>12. MadeBounded
  <2>1. \A enabled \in BOOLEAN : NoAccesses[enabled] <= MaxAccesses[enabled]
    BY BoundsAssumption DEF NoAccesses
  <2> QED BY <1>3, <1>6, <2>1 DEF MadeBounded
<1>13. FaultsBudgeted
  <2>1. IsFiniteSet(DOMAIN pendingWrites) /\ Cardinality({}) = 0 /\ \A p : PendingOf(p) = {}
    BY <1>3, FS_EmptySet DEF PendingOf
  <2>2. \A p \in Periods : Budget(p) = 0
    BY <1>3 DEF Budget, NoAccesses
  <2>3. ASSUME NEW p \in Periods PROVE caused[p] + Cardinality(PendingOf(p)) <= Budget(p)
    <3>1. caused[p] = 0 /\ Cardinality(PendingOf(p)) = 0 /\ Budget(p) = 0
      BY <1>3, <2>1, <2>2
    <3> QED BY <3>1
  <2>4. caused \in [Periods -> Nat]
    BY <1>3
  <2> QED BY <2>1, <2>3, <2>4 DEF FaultsBudgeted
<1>14. RatesFollowPeriods /\ RatesAsLogged
  BY <1>3, <1>4, <1>5 DEF RatesFollowPeriods, RatesAsLogged, NamedInLog, LogOf
<1> QED BY <1>7, <1>8, <1>9, <1>10, <1>11, <1>12, <1>13, <1>14 DEF IInv, Accounts, Rates

LEMMA NextIInv == IInv /\ [Next]_vars => IInv'
<1> SUFFICES ASSUME IInv, [Next]_vars PROVE IInv'
  OBVIOUS
<1>1. ASSUME NEW a \in Addresses, NEW enabled \in BOOLEAN, Write(a, enabled) PROVE IInv'
  BY <1>1, WriteIInv
<1>2. ASSUME NEW a \in Addresses, NEW enabled \in BOOLEAN, Read(a, enabled) PROVE IInv'
  BY <1>2, ReadIInv
<1>3. ASSUME ReactivateBuffer PROVE IInv'
  BY <1>3, ResumeIInv, StartIInv
<1>4. ASSUME UNCHANGED vars PROVE IInv'
  <2>1. \A p : HasLog(p)' = HasLog(p) /\ LogOf(p)' = LogOf(p) /\ PendingOf(p)' = PendingOf(p)
               /\ Budget(p)' = Budget(p)
    BY <1>4 DEF vars, history, HasLog, LogOf, PendingOf, Budget
  <2>2. TypeOK' /\ LogsOwnTheirArrays' /\ OpenPeriodNotStored' /\ RetiredLog'
    BY <1>4 DEF vars, configuration, history, TypeOK, LogsOwnTheirArrays, OpenPeriodNotStored, RetiredLog,
                IInv, Accounts
  <2>3. WritesChargedToTheirPeriod' /\ AccessesConserved' /\ FaultsConserved'
    BY <1>4, <2>1 DEF vars, history, WritesChargedToTheirPeriod, AccessesConserved, FaultsConserved,
                      IInv, Accounts
  <2>4. MadeBounded' /\ FaultsBudgeted'
    BY <1>4, <2>1 DEF vars, history, MadeBounded, FaultsBudgeted, IInv, Accounts
  <2>5. RatesFollowPeriods' /\ RatesAsLogged'
    BY <1>4, <2>1 DEF vars, configuration, history, RatesFollowPeriods, RatesAsLogged, NamedInLog, WriteBer,
                      IInv, Rates
  <2> QED BY <2>2, <2>3, <2>4, <2>5 DEF IInv, Accounts, Rates
<1> QED BY <1>1, <1>2, <1>3, <1>4, NextPeriodIInv, NextPeriodRetiredIInv, RetireIInv DEF Next

LEMMA SpecIInv == Spec => []IInv
BY InitIInv, NextIInv, PTL DEF Spec
-----------------------------------------------------------------------------
(***************************************************************************)
(* Theorems.                                                               *)
(***************************************************************************)
\* The accounts are well formed; in particular no array of counters exceeds
\* the accesses of one period, since each fault has an access of its own.
THEOREM LogsTypeCorrect == Spec => []TypeOK
<1>1. IInv => TypeOK
  BY DEF IInv
<1> QED BY <1>1, SpecIInv, PTL

\* No two logs count in one array and none in freed memory, through every copy
\* and swap of StoreCurrentPeriodLog and every erasure of ReactivateBuffer, and
\* there is no array that no log owns.
THEOREM ArraysOwned == Spec => []LogsOwnTheirArrays
<1>1. IInv => LogsOwnTheirArrays
  BY DEF IInv, Accounts
<1> QED BY <1>1, SpecIInv, PTL

\* The pointer a pending write carries stays the array of the log of its period
\* however many periods end before it is injected.
THEOREM PointersStayValid == Spec => []WritesChargedToTheirPeriod
<1>1. IInv => WritesChargedToTheirPeriod
  BY DEF IInv, Accounts
<1> QED BY <1>1, SpecIInv, PTL

\* Storing the log of a period never finds the period taken.
THEOREM PeriodStoredOnce == Spec => []OpenPeriodNotStored
<1>1. IInv => OpenPeriodNotStored
  BY DEF IInv, Accounts
<1> QED BY <1>1, SpecIInv, PTL

\* Every access is in the log of its period, once, through retirements and
\* reactivations in the same period or later.
THEOREM EveryAccessLogged == Spec => []AccessesConserved
<1>1. IInv => AccessesConserved
  BY DEF IInv, Accounts
<1> QED BY <1>1, SpecIInv, PTL

\* Every injected fault is in the log of the period of its access, once.
THEOREM EveryFaultLogged == Spec => []FaultsConserved
<1>1. IInv => FaultsConserved
  BY DEF IInv, Accounts
<1> QED BY <1>1, SpecIInv, PTL

\* With any number of rates, an active buffer uses those of its period.
THEOREM RatesStepWithPeriods == Spec => []RatesFollowPeriods
<1>1. IInv => RatesFollowPeriods
  BY DEF IInv, Rates
<1> QED BY <1>1, SpecIInv, PTL

\* The log of a period names the rate its faults are drawn at, periods later
\* too, unless the buffer came back in the period it was retired in.
THEOREM RatesNamedInLogs == Spec => []RatesAsLogged
<1>1. IInv => RatesAsLogged
  BY DEF IInv, Rates
<1> QED BY <1>1, SpecIInv, PTL
=============================================================================
