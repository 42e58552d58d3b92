--------------------------- MODULE PintoolControl ---------------------------
(***************************************************************************)
(* The registry of approximate buffers and the marker routines that work   *)
(* on it (namespace PintoolControl of approxss.cpp, with ThreadControl,    *)
(* RangeCompare and PintoolOutput::Fini).                                  *)
(*                                                                         *)
(* generalBuffers owns every buffer ever added; an active map takes a      *)
(* range to the buffer that serves it.  The default build has one          *)
(* ThreadControl, Main.  The PIN_LOCKED build has one more per thread, and *)
(* a buffer shared by threads counts in m_isActive how often it was added. *)
(*                                                                         *)
(* A marker routine holds g_pinLock from beginning to end, so it is one    *)
(* step.  ThreadFini retires the buffers of its thread without that lock,  *)
(* so its use of m_isActive takes a step to load and a step to store.      *)
(*                                                                         *)
(* What a buffer does when it is retired or reactivated is here only as    *)
(* far as its log goes: m_periodLog and m_bufferLogs are known by their    *)
(* periods.                                                                *)
(***************************************************************************)
EXTENDS Integers, FiniteSets

CONSTANTS
  Threads,    \* the threads of the target application
  Main,       \* stands for g_mainThreadControl
  Requests,   \* buffers the program may add: a range and its other parameters
  Addresses,  \* addresses the program accesses
  LeastLevel, \* bound: levels ended but not started
  MaxLevel,   \* bound: levels started
  MaxPeriod,  \* bound: periods counted by g_currentPeriod
  MaxActive,  \* bound: users counted by m_isActive
  PinLocked,  \* whether the build is the PIN_LOCKED one
  OnlyOwn     \* whether a thread removes only ranges it has added

ASSUME RequestsAssumption ==
  \A b \in Requests : /\ b.range.first \in Int /\ b.range.final \in Int
                      /\ b.range.first < b.range.final

ASSUME ControlAssumption ==
  /\ Main \notin Threads /\ IsFiniteSet(Threads)
  /\ LeastLevel \in Int /\ LeastLevel <= 0 /\ MaxLevel \in Nat /\ MaxPeriod \in Nat /\ MaxActive \in Nat
  /\ PinLocked \in BOOLEAN /\ OnlyOwn \in BOOLEAN
  /\ Addresses \subseteq Int

VARIABLES
  running,           \* the threads that have started and not ended
  level,             \* m_level of each control
  injectionEnabled,  \* m_injectionEnabled of each control
  activeBuffers,     \* m_activeBuffers of each control: range -> buffer
  generalBuffers,    \* the buffers generalBuffers owns
  isActive,          \* m_isActive of each buffer
  loaded,            \* m_isActive as a thread that ends has loaded it
  currentPeriod,     \* g_currentPeriod
  logPeriod,         \* m_periodLog.m_period of each buffer
  bufferLogs,        \* the periods of m_bufferLogs of each buffer
  report,            \* the periods written to the access log for each buffer
  ended,             \* Fini has run
  activeIn,          \* history: the periods each buffer was in the main map
  astray             \* history: the buffers some thread has under another range
                     \* than their own, or ThreadFini has miscounted or retired

controls == <<running, level, injectionEnabled, loaded>>
buffers == <<activeBuffers, generalBuffers, isActive, logPeriod, bufferLogs, activeIn, astray>>
vars == <<controls, buffers, currentPeriod, report, ended>>

Controls == Threads \union {Main}

Ranges == {b.range : b \in Requests}

Periods == 0 .. MaxPeriod

NotLoaded == -1

(***************************************************************************)
(* Ranges and the active maps.                                             *)
(***************************************************************************)
\* (Defect: the final address counts as part of the range.)
BeforeStrictly(l, r) == l.final < r.first

\* (Defect: ranges are ordered by their first address.)
BeforeByFirst(l, r) == l.first < r.first

\* RangeCompare: ranges neither of which is before the other are one key.
Before(l, r) == l.final <= r.first

Equivalent(l, r) == ~Before(l, r) /\ ~Before(r, l)

\* map::find, and lower_bound as add_approx tests it: the first key that is
\* equivalent, if there is one.
Find(map, key) ==
  {r \in DOMAIN map : /\ Equivalent(r, key)
                      /\ \A q \in DOMAIN map : Equivalent(q, key) => r.first <= q.first}

\* Range::IsEqual on what find returns.
HasRange(map, r) == r \in Find(map, r)

EmptyMap == [r \in {} |-> r]

Insert(map, r, b) == [q \in DOMAIN map \union {r} |-> IF q = r THEN b ELSE map[q]]

Erase(map, r) == [q \in DOMAIN map \ {r} |-> map[q]]

Listed(c) == {activeBuffers[c][r] : r \in DOMAIN activeBuffers[c]}

(***************************************************************************)
(* Accesses.                                                               *)
(***************************************************************************)
\* The key CheckAndForward looks an address up by: a range without addresses.
Point(a) == [first |-> a, final |-> a]

\* The buffer whose handler gets an access to a.
Forwarded(a) == {activeBuffers[Main][r] : r \in Find(activeBuffers[Main], Point(a))}

\* The control that decides for thread t.
Control(t) == IF PinLocked THEN t ELSE Main

isThreadInjectionEnabled(t) == level[Control(t)] # 0 /\ injectionEnabled[Control(t)]

\* Whether the handler may inject for an access to a by thread t: the thread is
\* asked for a range around a only, not for the buffer of the main map.
MayInject(t, a) ==
  /\ Forwarded(a) # {}
  /\ isThreadInjectionEnabled(t)
  /\ PinLocked => Find(activeBuffers[t], Point(a)) # {}

(***************************************************************************)
(* Retirement and reactivation of buffers, times[b] times for buffer b.    *)
(***************************************************************************)
\* (Defect: no failsafe against repeated retirements.)
LeftActiveAnyway(times) == [b \in Requests |-> isActive[b] - times[b]]

LeftActive(times) ==
  [b \in Requests |-> IF isActive[b] > times[b] THEN isActive[b] - times[b] ELSE 0]

\* RetireBuffer: the one that takes m_isActive to 0 stores the log.
LogsLeft(times) ==
  [b \in Requests |-> IF isActive[b] >= 1 /\ isActive[b] <= times[b]
                      THEN bufferLogs[b] \union {logPeriod[b]} ELSE bufferLogs[b]]

\* (Defect: the new user is not counted.)
ReactivateUncounted(b, times) ==
  /\ bufferLogs' = [bufferLogs EXCEPT ![b] = @ \ {currentPeriod}]
  /\ logPeriod' = [logPeriod EXCEPT ![b] = currentPeriod]
  /\ UNCHANGED isActive

\* (Defect: the log stored in this period is not opened again.)
ReactivateKeepLog(b, times) ==
  /\ isActive' = [isActive EXCEPT ![b] = @ + times]
  /\ logPeriod' = IF times > 0 THEN [logPeriod EXCEPT ![b] = currentPeriod] ELSE logPeriod
  /\ UNCHANGED bufferLogs

\* ReactivateBuffer, or the constructor for a buffer that does not exist.
\* Only a buffer that is not active starts anew: its log of this period, if
\* it has one, is open again.
Reactivate(b, times) ==
  /\ isActive' = [isActive EXCEPT ![b] = @ + times]
  /\ IF isActive[b] = 0 /\ times > 0
     THEN /\ bufferLogs' = [bufferLogs EXCEPT ![b] = @ \ {currentPeriod}]
          /\ logPeriod' = [logPeriod EXCEPT ![b] =
                             IF currentPeriod \in bufferLogs[b] THEN @ ELSE currentPeriod]
     ELSE UNCHANGED <<bufferLogs, logPeriod>>

Count(x) == IF x THEN 1 ELSE 0

RecordActive ==
  activeIn' = [b \in Requests |->
                 IF \E r \in DOMAIN activeBuffers'[Main] : activeBuffers'[Main][r] = b
                 THEN activeIn[b] \union {currentPeriod'} ELSE activeIn[b]]

(***************************************************************************)
(* Operations.                                                             *)
(***************************************************************************)
Init ==
  /\ running = IF PinLocked THEN {} ELSE Threads
  /\ level = [c \in Controls |-> 0]
  /\ injectionEnabled = [c \in Controls |-> TRUE]
  /\ activeBuffers = [c \in Controls |-> EmptyMap]
  /\ generalBuffers = {}
  /\ isActive = [b \in Requests |-> 0]
  /\ loaded = [t \in Threads |-> NotLoaded]
  /\ currentPeriod = 0
  /\ logPeriod = [b \in Requests |-> 0]
  /\ bufferLogs = [b \in Requests |-> {}]
  /\ report = [b \in Requests |-> {}]
  /\ ended = FALSE
  /\ activeIn = [b \in Requests |-> {}]
  /\ astray = {}

\* enable_global_injection and disable_global_injection.
SetInjection(t, enabled) ==
  /\ injectionEnabled' = [injectionEnabled EXCEPT ![Control(t)] = enabled]
  /\ UNCHANGED <<running, level, loaded, buffers, currentPeriod, report, ended>>

\* start_level and end_level.
ChangeLevel(t, step) ==
  /\ level[Control(t)] + step \in LeastLevel .. MaxLevel
  /\ level' = [level EXCEPT ![Control(t)] = @ + step]
  /\ UNCHANGED <<running, injectionEnabled, loaded, buffers, currentPeriod, report, ended>>

\* next_period: every buffer of the main map stores its log and starts another.
NextPeriod ==
  /\ currentPeriod < MaxPeriod
  /\ currentPeriod' = currentPeriod + 1
  /\ bufferLogs' = [b \in Requests |-> IF b \in Listed(Main)
                                       THEN bufferLogs[b] \union {logPeriod[b]} ELSE bufferLogs[b]]
  /\ logPeriod' = [b \in Requests |-> IF b \in Listed(Main) THEN currentPeriod' ELSE logPeriod[b]]
  /\ UNCHANGED activeBuffers
  /\ RecordActive
  /\ UNCHANGED <<controls, generalBuffers, isActive, report, ended, astray>>

MetBy(request) == Find(activeBuffers[Main], request.range)

\* The buffer a request is served by: the one it meets in the main map, or else
\* the one of the same range and parameters, which may exist already.
BufferFor(request) ==
  IF MetBy(request) = {} THEN request
  ELSE activeBuffers[Main][CHOOSE r \in MetBy(request) : TRUE]

\* add_approx.  Unless its range meets one that is active, the main map gets
\* the buffer, an old one if it is the same in all; then, in the PIN_LOCKED
\* build, so does the map of the thread, or else the buffer that was met.
add_approx(t, request) ==
  LET range   == request.range
      buffer  == BufferFor(request)
      toMain  == MetBy(request) = {}
      toLocal == PinLocked /\ Find(activeBuffers[t], range) = {}
  IN  /\ generalBuffers' = IF toMain THEN generalBuffers \union {buffer} ELSE generalBuffers
      /\ activeBuffers' =
           [c \in Controls |->
              IF (c = Main /\ toMain) \/ (c = t /\ toLocal)
              THEN Insert(activeBuffers[c], range, buffer) ELSE activeBuffers[c]]
      /\ Reactivate(buffer, Count(toMain) + Count(toLocal))
      /\ isActive'[buffer] <= MaxActive
      /\ astray' = IF toLocal /\ range # buffer.range THEN astray \union {buffer} ELSE astray
      /\ UNCHANGED currentPeriod
      /\ RecordActive
      /\ UNCHANGED <<controls, report, ended>>

\* (Defect: the main entry is erased whatever RetireBuffer returns.)
IsRetiredAnyway(b) == TRUE

\* What RetireBuffer returns.
IsRetired(b) == isActive'[b] = 0

\* remove_approx.  In the PIN_LOCKED build the thread retires what its own map
\* has, and then, like the other build, what the main map has, which is erased
\* if that leaves the buffer without users.
remove_approx(t, range) ==
  LET inLocal == PinLocked /\ HasRange(activeBuffers[t], range)
      inMain  == HasRange(activeBuffers[Main], range)
      times   == [b \in Requests |-> Count(inLocal /\ activeBuffers[t][range] = b)
                                     + Count(inMain /\ activeBuffers[Main][range] = b)]
  IN  /\ OnlyOwn => inLocal \/ ~PinLocked
      /\ isActive' = LeftActive(times)
      /\ bufferLogs' = LogsLeft(times)
      /\ activeBuffers' =
           [c \in Controls |->
              IF \/ c = t /\ inLocal
                 \/ c = Main /\ inMain /\ IsRetired(activeBuffers[Main][range])
              THEN Erase(activeBuffers[c], range) ELSE activeBuffers[c]]
      /\ UNCHANGED <<controls, generalBuffers, currentPeriod, logPeriod, report, ended, activeIn, astray>>

ThreadStart(t) ==
  /\ PinLocked /\ t \notin running
  /\ activeBuffers[t] = EmptyMap
  /\ running' = running \union {t}
  /\ level' = [level EXCEPT ![t] = 0]
  /\ injectionEnabled' = [injectionEnabled EXCEPT ![t] = TRUE]
  /\ UNCHANGED <<loaded, buffers, currentPeriod, report, ended>>

\* ThreadFini: the thread makes no more calls, and ~ThreadControl retires its
\* buffers in the order of their ranges, erasing each from its map.
ThreadFini(t) ==
  /\ PinLocked /\ t \in running
  /\ running' = running \ {t}
  /\ UNCHANGED <<level, injectionEnabled, loaded, buffers, currentPeriod, report, ended>>

IsFirst(map, r) == r \in DOMAIN map /\ \A q \in DOMAIN map : r.first <= q.first

ThreadFiniLoad(t) ==
  /\ t \notin running /\ loaded[t] = NotLoaded
  /\ \E r \in DOMAIN activeBuffers[t] :
       /\ IsFirst(activeBuffers[t], r)
       /\ loaded' = [loaded EXCEPT ![t] = isActive[activeBuffers[t][r]]]
  /\ UNCHANGED <<running, level, injectionEnabled, buffers, currentPeriod, report, ended>>

ThreadFiniStore(t) ==
  /\ loaded[t] # NotLoaded
  /\ \E r \in DOMAIN activeBuffers[t] :
       LET b == activeBuffers[t][r] IN
       /\ IsFirst(activeBuffers[t], r)
       /\ isActive' = IF loaded[t] >= 1 THEN [isActive EXCEPT ![b] = loaded[t] - 1] ELSE isActive
       /\ bufferLogs' = IF loaded[t] = 1
                        THEN [bufferLogs EXCEPT ![b] = @ \union {logPeriod[b]}] ELSE bufferLogs
       /\ astray' = IF loaded[t] = 1 \/ (loaded[t] > 1 /\ loaded[t] # isActive[b])
                    THEN astray \union {b} ELSE astray
       /\ activeBuffers' = [activeBuffers EXCEPT ![t] = Erase(@, r)]
  /\ loaded' = [loaded EXCEPT ![t] = NotLoaded]
  /\ UNCHANGED <<running, level, injectionEnabled, generalBuffers, currentPeriod,
                 logPeriod, report, ended, activeIn>>

\* Fini, when every thread that ended is gone: the controls that are left are
\* destroyed, which retires what their maps hold, the access log is written
\* from generalBuffers, and then the buffers are destroyed.
\* (Defect: the main control is not destroyed.)
DestroyedThreads == running

Destroyed == IF PinLocked THEN running ELSE {Main}

Fini ==
  LET times == [b \in Requests |-> Cardinality({c \in Destroyed : b \in Listed(c)})]
  IN  /\ \A t \in Threads \ running : activeBuffers[t] = EmptyMap
      /\ activeBuffers' = [c \in Controls |-> IF c \in Destroyed THEN EmptyMap ELSE activeBuffers[c]]
      /\ report' = [b \in Requests |-> IF b \in generalBuffers THEN LogsLeft(times)[b] ELSE {}]
      /\ generalBuffers' = {}
      /\ isActive' = [b \in Requests |-> 0]
      /\ bufferLogs' = [b \in Requests |-> {}]
      /\ running' = {}
      /\ ended' = TRUE
      /\ UNCHANGED <<level, injectionEnabled, loaded, currentPeriod, logPeriod, activeIn, astray>>

Routine(t) ==
  \/ \E enabled \in BOOLEAN : SetInjection(t, enabled)
  \/ \E step \in {-1, 1} : ChangeLevel(t, step)
  \/ NextPeriod
  \/ \E request \in Requests : add_approx(t, request)
  \/ \E range \in Ranges : remove_approx(t, range)

Next ==
  /\ ~ended
  /\ \/ \E t \in running : Routine(t)
     \/ \E t \in Threads : \/ ThreadStart(t)
                           \/ ThreadFini(t)
                           \/ ThreadFiniLoad(t)
                           \/ ThreadFiniStore(t)
     \/ Fini

Spec == Init /\ [][Next]_vars
-----------------------------------------------------------------------------
(***************************************************************************)
(* Properties.                                                             *)
(***************************************************************************)
Map(K, V) == UNION {[D -> V] : D \in SUBSET K}

TypeOK ==
  /\ ended \in BOOLEAN
  /\ running \subseteq Threads
  /\ level \in [Controls -> LeastLevel .. MaxLevel]
  /\ injectionEnabled \in [Controls -> BOOLEAN]
  /\ activeBuffers \in [Controls -> Map(Ranges, Requests)]
  /\ generalBuffers \subseteq Requests
  /\ isActive \in [Requests -> 0 .. MaxActive]
  /\ loaded \in [Threads -> {NotLoaded} \union 0 .. MaxActive]
  /\ currentPeriod \in Periods
  /\ logPeriod \in [Requests -> Periods]
  /\ bufferLogs \in [Requests -> SUBSET Periods]
  /\ report \in [Requests -> SUBSET Periods]
  /\ activeIn \in [Requests -> SUBSET Periods]
  /\ astray \subseteq Requests

\* In no active map do two ranges overlap, so that overlapping ranges really
\* are one key and an address has at most one buffer.
ActiveRangesDisjoint ==
  \A c \in Controls : \A r, q \in DOMAIN activeBuffers[c] : r # q => r.final <= q.first \/ q.final <= r.first

\* In the default build a buffer is active, once, while the main map has it,
\* and is retired otherwise, whatever was added, ignored, removed and added
\* again.
ActiveWhileListed ==
  ~ended => \A b \in Requests : isActive[b] = Count(b \in Listed(Main))

\* In the default build a buffer of the main map counts in the current period,
\* which it has not stored yet, and all the other periods it was active in
\* have a stored log; so has every period it was active in once it is removed.
PeriodsLogged ==
  ~ended => \A b \in Requests :
    IF b \in Listed(Main)
    THEN logPeriod[b] = currentPeriod /\ bufferLogs[b] = activeIn[b] \ {currentPeriod}
    ELSE bufferLogs[b] = activeIn[b]

\* In the default build the access log has, for each buffer, exactly the
\* periods it was active in, the one Fini interrupts included.
ReportComplete == ended => report = activeIn

\* An access is forwarded to no buffer but the active one that its address
\* lies in, and to that one wherever in the range, the first address excepted.
ForwardedToItsBuffer ==
  ~ended => \A a \in Addresses :
    Forwarded(a) = {b \in Listed(Main) : b.range.first < a /\ a < b.range.final}

\* In the PIN_LOCKED build, where threads share a buffer and count it twice or
\* once, a buffer has users exactly while the main map has it, so that no access
\* is served by a retired buffer and no range is kept from being added by one.
\* Not so for a buffer that a thread has entered under another range, which
\* remove_approx will not find in the main map, nor after ThreadFini, without
\* the lock, has overwritten another update of the count or has taken it to 0.
ListedWhileInUse ==
  ~ended => \A b \in Requests \ astray : isActive[b] >= 1 <=> b \in Listed(Main)

\* In the PIN_LOCKED build the handler takes the buffer from the main map and
\* looks only for a range in the thread's own; still a thread is injected in
\* the buffers it has added itself, wherever in them, and in no other, as long
\* as all of those are in use and under their own ranges.  (The removals of
\* another thread may retire one of them; see AddedBufferIsActive.)
InjectedWhereAdded ==
  PinLocked /\ ~ended => \A t \in running, a \in Addresses :
    (\A b \in Listed(t) : isActive[b] >= 1 /\ b \notin astray) =>
      (MayInject(t, a) <=> isThreadInjectionEnabled(t) /\ Forwarded(a) \intersect Listed(t) # {})
-----------------------------------------------------------------------------
(***************************************************************************)
(* What the documentation says and the code does not do.                   *)
(***************************************************************************)
\* README.md:65: two or more threads can have the same approximate buffer, so
\* the buffer a running thread has added and not removed is active.
AddedBufferIsActive ==
  ~ended => \A t \in running : \A b \in Listed(t) : isActive[b] >= 1
=============================================================================
