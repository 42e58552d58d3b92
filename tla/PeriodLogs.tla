----------------------------- MODULE PeriodLogs -----------------------------
(***************************************************************************)
(* The accounts an approximate buffer keeps (class PeriodLog, and the      *)
(* parts of ApproximateBuffer and ShortTermApproximateBuffer that keep     *)
(* them): m_periodLog counts the current period, m_bufferLogs holds the    *)
(* logs of the periods before.  A pending write carries a pointer to the   *)
(* array of counters of the period it was made in, so that the faults      *)
(* injected for it later are charged to that period.  The pointer is to an *)
(* array that a log owns, so it must outlive every copy, reset and erasure *)
(* of logs until the write is injected.                                    *)
(*                                                                         *)
(* An array stands for the counters of a log, one per error category and   *)
(* bit in the code; here their sum.  Accesses are of single elements.      *)
(*                                                                         *)
(* With MULTIPLE_BER_CONFIGURATION each period has error rates of its own: *)
(* InjectionConfigurationLocal steps an index through the rates of the     *)
(* configuration, a pending write also carries the rate of its period, and *)
(* each log names the index its period used.  A rate stands for its index. *)
(* One rate for each category is the build without the option.             *)
(***************************************************************************)
EXTENDS Integers, FiniteSets

CONSTANTS
  Addresses,   \* the addresses of the elements
  Arrays,      \* the arrays of counters an allocation can return
  BerCount,    \* GetBerCount: how many rates each error category has
  MaxPeriod,   \* bound: periods counted by g_currentPeriod
  MaxAccesses  \* bound: accesses in one period, by injection enabled

ASSUME BoundsAssumption ==
  /\ Addresses \subseteq Int
  /\ BerCount \in [{"read", "write"} -> Nat \ {0}]
  /\ MaxPeriod \in Nat /\ MaxAccesses \in [BOOLEAN -> Nat]
  /\ IsFiniteSet(Arrays) /\ Cardinality(Arrays) >= MaxPeriod + 2

VARIABLES
  currentPeriod,  \* g_currentPeriod
  isActive,       \* m_isActive
  periodLog,      \* m_periodLog
  bufferLogs,     \* m_bufferLogs: period -> log
  counts,         \* what each array of counters adds up to
  live,           \* the arrays some log owns
  pendingWrites,  \* m_pendingWrites: address -> rate to use and array to charge
  creationPeriod, \* m_creationPeriod of the injector's configuration
  bers,           \* m_bers of the injector's configuration: the rates in use
  made,           \* history: accesses made in each period, by injection enabled
  caused,         \* history: faults injected for the accesses made in each period
  writtenIn,      \* history: the period of each pending write
  resumed         \* history: it last came back in the period it was retired in

configuration == <<creationPeriod, bers>>
history == <<made, caused, writtenIn, resumed>>
vars == <<currentPeriod, isActive, periodLog, bufferLogs, counts, live, pendingWrites,
          configuration, history>>

Periods == 0 .. MaxPeriod

NoAccesses == [enabled \in BOOLEAN |-> 0]

\* At most as many accesses, or faults, as the bound lets the program make.
Amount == 0 .. (MaxAccesses[TRUE] + MaxAccesses[FALSE])

Categories == {"read", "write"}

\* The index of a rate of a category.
Ber(category) == 0 .. (BerCount[category] - 1)

Log == [period : Periods, accesses : [BOOLEAN -> Amount], array : Arrays,
        berIndex : [Categories -> Nat]]

Update(f, K, x) == [k \in DOMAIN f \union K |-> IF k \in K THEN x ELSE f[k]]

Drop(f, K) == [k \in DOMAIN f \ K |-> f[k]]

LowerBound(K, a) == {b \in K : b >= a /\ \A c \in K : c >= a => b <= c}

(***************************************************************************)
(* The logs.                                                               *)
(***************************************************************************)
\* GetBerCurrentIndex and UpdateBers: the rates of a period, those of the buffer
\* created or brought back in period creation.
BersOf(period, creation) ==
  [category \in Categories |-> (period - creation) % BerCount[category]]

\* An allocation returns any array that no log owns.
Free == Arrays \ live

\* ResetCounts: the counters of a log that starts are zero, it notes the rates
\* of its period, and the array it had is kept.
StartedAt(period, array, creation) ==
  [period |-> period, accesses |-> NoAccesses, array |-> array,
   berIndex |-> BersOf(period, creation)]

\* (Defect: the arrays are not swapped.)
UnswappedCopy(new) == [stored |-> new, open |-> periodLog.array]

\* The copy constructor of PeriodLog copies the counts to a new array and swaps
\* the two: the stored log keeps the array that pending writes point to, and
\* m_periodLog stays open with the new one.
CopyLog(new) == [stored |-> periodLog.array, open |-> new]

CountsAfterCopy(new) == [counts EXCEPT ![new] = counts[periodLog.array]]

\* StoreCurrentPeriodLog.  If the period has a log already, emplace destroys
\* the copy it was given, and the array of the copy with it.
StoreCurrentPeriodLog(new) ==
  IF periodLog.period \notin DOMAIN bufferLogs
  THEN /\ bufferLogs' = Update(bufferLogs, {periodLog.period},
                               [periodLog EXCEPT !.array = CopyLog(new).stored])
       /\ live' = live \union {new}
  ELSE /\ UNCHANGED bufferLogs
       /\ live' = (live \union {new}) \ {CopyLog(new).stored}

(***************************************************************************)
(* Operations.                                                             *)
(***************************************************************************)
Init ==
  /\ currentPeriod = 0
  /\ isActive = 1
  /\ \E array \in Arrays :
       /\ periodLog = StartedAt(0, array, 0)
       /\ live = {array}
  /\ bufferLogs = [p \in {} |-> p]
  /\ counts = [array \in Arrays |-> 0]
  /\ pendingWrites = [a \in {} |-> a]
  /\ creationPeriod = 0
  /\ bers = BersOf(0, 0)
  /\ made = [p \in Periods |-> NoAccesses]
  /\ caused = [p \in Periods |-> 0]
  /\ writtenIn = [a \in {} |-> a]
  /\ resumed = FALSE

\* PeriodLog::IncreaseAccess, up to the bound on accesses.
IncreaseAccess(enabled) ==
  /\ isActive >= 1
  /\ made[currentPeriod][enabled] < MaxAccesses[enabled]
  /\ periodLog' = [periodLog EXCEPT !.accesses[enabled] = @ + 1]
  /\ made' = [made EXCEPT ![currentPeriod][enabled] = @ + 1]

\* A single-element write: RecordFaultyWrite notes the rate to inject it with,
\* and charges it to the current array.
Write(a, enabled) ==
  /\ IncreaseAccess(enabled)
  /\ IF enabled
     THEN /\ pendingWrites' = Update(pendingWrites, {a},
                                     [ber |-> bers["write"], array |-> periodLog.array])
          /\ writtenIn' = Update(writtenIn, {a}, currentPeriod)
     ELSE UNCHANGED <<pendingWrites, writtenIn>>
  /\ UNCHANGED <<currentPeriod, isActive, bufferLogs, counts, live, caused, resumed,
                 configuration>>

\* (Defect: a write is injected with the rate in use at its injection.)
CurrentWriteBer(a) == bers["write"]

\* GetWriteBerFromIterator.
WriteBer(a) == pendingWrites[a].ber

\* The faults of the writes in faulty, a part of those applied, are counted
\* through the pointers the writes carry, and readFaults in the current array.
CountFaults(applied, faulty, readFaults) ==
  /\ counts' = [array \in Arrays |->
                  counts[array]
                  + Cardinality({a \in faulty : pendingWrites[a].array = array})
                  + IF array = periodLog.array THEN readFaults ELSE 0]
  /\ caused' = [p \in Periods |->
                  caused[p]
                  + Cardinality({a \in faulty : writtenIn[a] = p})
                  + IF p = currentPeriod THEN readFaults ELSE 0]
  /\ pendingWrites' = Drop(pendingWrites, applied)
  /\ writtenIn' = Drop(writtenIn, applied)
  /\ UNCHANGED resumed

\* A single-element read: it injects the write lower_bound finds, if any, and
\* a read fault when injection is enabled.
Read(a, enabled) ==
  LET applied == LowerBound(DOMAIN pendingWrites, a) IN
  /\ IncreaseAccess(enabled)
  /\ \E faulty \in SUBSET applied, readFaults \in IF enabled THEN 0 .. 1 ELSE {0} :
       CountFaults(applied, faulty, readFaults)
  /\ UNCHANGED <<currentPeriod, isActive, bufferLogs, live, configuration>>

\* (Defect: AdvanceBerIndex runs before g_currentPeriod moves.)
AdvanceBerIndexEarly == bers' = BersOf(currentPeriod, creationPeriod)

\* AdvanceBerIndex, after g_currentPeriod has moved.
AdvanceBerIndex == bers' = BersOf(currentPeriod', creationPeriod)

\* next_period while the buffer is active: ApproximateBuffer::NextPeriod.
NextPeriod ==
  /\ isActive >= 1
  /\ currentPeriod < MaxPeriod
  /\ currentPeriod' = currentPeriod + 1
  /\ \E new \in Free :
       /\ StoreCurrentPeriodLog(new)
       /\ periodLog' = StartedAt(currentPeriod', CopyLog(new).open, creationPeriod)
       /\ counts' = [CountsAfterCopy(new) EXCEPT ![CopyLog(new).open] = 0]
  /\ AdvanceBerIndex
  /\ UNCHANGED <<isActive, pendingWrites, creationPeriod, history>>

\* next_period while the buffer is retired only moves the clock.
NextPeriodRetired ==
  /\ isActive = 0
  /\ currentPeriod < MaxPeriod
  /\ currentPeriod' = currentPeriod + 1
  /\ UNCHANGED <<isActive, periodLog, bufferLogs, counts, live, pendingWrites,
                 configuration, history>>

\* (Defect: no failsafe against repeated retirements.)
LastHolderAnyway == isActive >= 0

LastHolder == isActive = 1

AppliedOnRetire == DOMAIN pendingWrites

ChargedTo(array, faulty) ==
  counts[array] + Cardinality({a \in faulty : pendingWrites[a].array = array})

\* RetireBuffer.  ApplyAllWriteErrors runs first, through the pointers of the
\* writes; then the log of the period is stored, and m_periodLog keeps the
\* period, the accesses and a copy of the counts.
RetireBuffer ==
  /\ LastHolder
  /\ isActive' = isActive - 1
  /\ \E new \in Free, faulty \in SUBSET AppliedOnRetire :
       /\ StoreCurrentPeriodLog(new)
       /\ periodLog' = [periodLog EXCEPT !.array = CopyLog(new).open]
       /\ counts' = [array \in Arrays |->
                       ChargedTo(IF array = new THEN periodLog.array ELSE array, faulty)]
       /\ caused' = [p \in Periods |-> caused[p] + Cardinality({a \in faulty : writtenIn[a] = p})]
  /\ pendingWrites' = Drop(pendingWrites, AppliedOnRetire)
  /\ writtenIn' = Drop(writtenIn, AppliedOnRetire)
  /\ UNCHANGED <<currentPeriod, made, resumed, configuration>>

\* ResetBerIndex: a buffer that comes back starts again at its first rates.
ResetBerIndex ==
  /\ creationPeriod' = currentPeriod
  /\ bers' = BersOf(currentPeriod, currentPeriod)

\* (Defect: the stored log of the period is left when the buffer comes back.)
ReactivateBufferKeepLog ==
  /\ isActive = 0
  /\ isActive' = 1
  /\ ResetBerIndex
  /\ IF currentPeriod \in DOMAIN bufferLogs
     THEN UNCHANGED <<periodLog, counts, bufferLogs, live>>
     ELSE /\ periodLog' = StartedAt(currentPeriod, periodLog.array, currentPeriod)
          /\ counts' = [counts EXCEPT ![periodLog.array] = 0]
          /\ UNCHANGED <<bufferLogs, live>>
  /\ resumed' = (currentPeriod \in DOMAIN bufferLogs)
  /\ UNCHANGED <<currentPeriod, pendingWrites, made, caused, writtenIn>>

\* (Defect: the counts are reset in every case.)
ReactivateBufferReset ==
  /\ isActive = 0
  /\ isActive' = 1
  /\ ResetBerIndex
  /\ bufferLogs' = Drop(bufferLogs, {currentPeriod})
  /\ live' = live \ {bufferLogs[p].array : p \in DOMAIN bufferLogs \intersect {currentPeriod}}
  /\ periodLog' = StartedAt(currentPeriod, periodLog.array, currentPeriod)
  /\ counts' = [counts EXCEPT ![periodLog.array] = 0]
  /\ resumed' = (currentPeriod \in DOMAIN bufferLogs)
  /\ UNCHANGED <<currentPeriod, pendingWrites, made, caused, writtenIn>>

\* (Defect: m_periodLog takes the array of the log it erases.)
ReactivateBufferDangling ==
  /\ isActive = 0
  /\ isActive' = 1
  /\ ResetBerIndex
  /\ IF currentPeriod \in DOMAIN bufferLogs
     THEN /\ periodLog' = bufferLogs[currentPeriod]
          /\ bufferLogs' = Drop(bufferLogs, {currentPeriod})
          /\ live' = live \ {bufferLogs[currentPeriod].array}
          /\ UNCHANGED counts
     ELSE /\ periodLog' = StartedAt(currentPeriod, periodLog.array, currentPeriod)
          /\ counts' = [counts EXCEPT ![periodLog.array] = 0]
          /\ UNCHANGED <<bufferLogs, live>>
  /\ resumed' = (currentPeriod \in DOMAIN bufferLogs)
  /\ UNCHANGED <<currentPeriod, pendingWrites, made, caused, writtenIn>>

\* ReactivateBuffer: if the period has a log already the buffer was retired in
\* this period, and m_periodLog, which still has its counts and the indexes of
\* its rates, is resumed.
ReactivateBuffer ==
  /\ isActive = 0
  /\ isActive' = 1
  /\ ResetBerIndex
  /\ IF currentPeriod \in DOMAIN bufferLogs
     THEN /\ bufferLogs' = Drop(bufferLogs, {currentPeriod})
          /\ live' = live \ {bufferLogs[currentPeriod].array}
          /\ UNCHANGED <<periodLog, counts>>
     ELSE /\ periodLog' = StartedAt(currentPeriod, periodLog.array, currentPeriod)
          /\ counts' = [counts EXCEPT ![periodLog.array] = 0]
          /\ UNCHANGED <<bufferLogs, live>>
  /\ resumed' = (currentPeriod \in DOMAIN bufferLogs)
  /\ UNCHANGED <<currentPeriod, pendingWrites, made, caused, writtenIn>>

Next ==
  \/ \E a \in Addresses, enabled \in BOOLEAN : Write(a, enabled) \/ Read(a, enabled)
  \/ NextPeriod
  \/ NextPeriodRetired
  \/ RetireBuffer
  \/ ReactivateBuffer

Spec == Init /\ [][Next]_vars
-----------------------------------------------------------------------------
(***************************************************************************)
(* Properties.                                                             *)
(***************************************************************************)
TypeOK ==
  /\ currentPeriod \in Periods
  /\ isActive \in 0 .. 1
  /\ periodLog \in Log
  /\ DOMAIN bufferLogs \subseteq Periods
  /\ \A p \in DOMAIN bufferLogs : bufferLogs[p] \in Log
  /\ counts \in [Arrays -> Amount]
  /\ live \subseteq Arrays
  /\ DOMAIN pendingWrites \subseteq Addresses /\ DOMAIN writtenIn = DOMAIN pendingWrites
  /\ \A a \in DOMAIN pendingWrites :
       /\ pendingWrites[a] \in [ber : Ber("write"), array : Arrays]
       /\ writtenIn[a] \in Periods
  /\ creationPeriod \in Periods
  /\ \A category \in Categories : bers[category] \in Ber(category)

\* The log of period p that the output will show: the stored one, or the
\* current one when it is still open.
HasLog(p) == p \in DOMAIN bufferLogs \/ (isActive = 1 /\ periodLog.period = p)

LogOf(p) == IF p \in DOMAIN bufferLogs THEN bufferLogs[p] ELSE periodLog

\* Every array a log uses is its own and is allocated: no two logs count in
\* one array, and none counts in freed memory.
LogsOwnTheirArrays ==
  /\ periodLog.array \in live
  /\ \A p \in DOMAIN bufferLogs :
       /\ bufferLogs[p].array \in live
       /\ bufferLogs[p].array # periodLog.array
       /\ \A q \in DOMAIN bufferLogs : bufferLogs[p].array = bufferLogs[q].array => p = q
  /\ Cardinality(live) = Cardinality(DOMAIN bufferLogs) + 1

\* A pending write points to the counters of the log of the period it was made
\* in, however many periods ago, and never to freed memory.
WritesChargedToTheirPeriod ==
  \A a \in DOMAIN pendingWrites :
    /\ HasLog(writtenIn[a])
    /\ pendingWrites[a].array = LogOf(writtenIn[a]).array

\* While the buffer is active its current period has no stored log, so that
\* storing one never finds the period taken (emplace would drop the log).
OpenPeriodNotStored == isActive = 1 =>
  periodLog.period = currentPeriod /\ currentPeriod \notin DOMAIN bufferLogs

\* Every access made is in the log of its period, once, whatever retirements
\* and reactivations there were in the period.
AccessesConserved ==
  \A p \in Periods :
    IF HasLog(p) THEN LogOf(p).accesses = made[p] ELSE made[p] = NoAccesses

\* Every fault injected so far is in the log of the period of the access that
\* brought it, once.
FaultsConserved ==
  \A p \in Periods :
    IF HasLog(p) THEN counts[LogOf(p).array] = caused[p] ELSE caused[p] = 0

\* The rates in use by an active buffer are those of the period, counted from
\* its last activation: they step once for each next_period, whatever periods
\* the buffer sat out, and start again at the first when it comes back.
RatesFollowPeriods == isActive = 1 =>
  \A category \in Categories :
    bers[category] = (currentPeriod - creationPeriod) % BerCount[category]

\* The log of a period names the rate its faults are drawn at, whether a write is
\* injected at once, periods later or at retirement, so that the energy of the
\* period can be told from the log.  Only a buffer that came back in the period
\* it was retired in draws at its first rate again, while the log it resumes
\* keeps the index from before.
NamedInLog(p, category, ber) ==
  \/ ber = LogOf(p).berIndex[category]
  \/ p = creationPeriod /\ resumed /\ ber = 0

RatesAsLogged == isActive = 1 =>
  /\ \A category \in Categories : NamedInLog(currentPeriod, category, bers[category])
  /\ \A a \in DOMAIN pendingWrites : NamedInLog(writtenIn[a], "write", WriteBer(a))
=============================================================================
