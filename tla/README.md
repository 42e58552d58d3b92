# Formal models of ApproxSS

ApproxSS is a tool for the Pin instrumentation framework. It simulates
*approximate memory*: the target program marks address ranges as approximate
buffers, and ApproxSS injects bit errors into what the program reads from and
writes to them. These modules model the parts of ApproxSS that keep state:
the buffers, their logs, and the registry of buffers that the marker routines
change. The models follow `src/source/` line by line of control;
`PROJECT.json` maps every definition to the lines it stands for. Paths below
are relative to `src/source/` unless they start otherwise; `README.md` in this
text is the repository's own `src/README.md`.

## 1. The system

### 1.1 Components

| Component | State | Operations | Modelled in |
|---|---|---|---|
| **PintoolControl**, ThreadControl (`approxss.cpp` 45-385) | `g_currentPeriod`; per control `m_level`, `m_injectionEnabled`, `m_activeBuffers`; `generalBuffers` | `add_approx`, `remove_approx`, `next_period`, `start_level`/`end_level`, `enable`/`disable_global_injection`, `ThreadStart`, `ThreadFini` | `PintoolControl` |
| **AccessHandler** (`approxss.cpp` 386-520) | none of its own; `g_pinLock` | find the buffer of an address, decide whether it may inject, call the handler | `PintoolControl` (the look-up and the decision), `LockedAccess` (the lock, the handler and the instruction of each thread) |
| **TargetInstrumentation** (`approxss.cpp`) | none at run time | put a handler before each operand and a call at each marker | `BufferMemory` (which handler an operand gets), actions of `PintoolControl` |
| **PintoolOutput** (`approxss.cpp`) | output files | `Fini` writes the access log | `PintoolControl!Fini`; text left out |
| **ApproximateBuffer** (`approximate-buffer.h/.cpp`) | range, element size, `m_isActive`, `m_periodLog`, `m_bufferLogs` | `RetireBuffer`, `ReactivateBuffer`, `NextPeriod`, `StoreCurrentPeriodLog`, alignment tests | `BufferMemory`, `PeriodLogs` |
| **ShortTermApproximateBuffer** (default build) | `m_remainingReads`, `m_pendingWrites` | read and write handlers for one element, a vector, a gather or scatter; retire, reactivate | `ShortTermMaps`, `ShortTermBuffer`, `PeriodLogs` |
| **LongTermApproximateBuffer** | `m_records`, `m_readBackups` | the same | `LongTermBuffer` |
| **BorrowedMemory** | pools of arrays shared by all buffers | borrow, give away | only what a borrower may find (`LongTermBuffer!ReactivateBuffer`) |
| **PeriodLog** (`period-log.*`) | counters of accesses and faults | count, copy, reset | `PeriodLogs`; energy figures left out |
| **FaultInjector** (three variants) | random generator; distance to next fault | `InjectFault` | `BufferMemory!InjectFault`: any of the bytes may be hit; `DistanceInjector` |
| **InjectionConfiguration** | error rates per bit and per period, the period they start from | `UpdateBers`, `ResetBerIndex` and look-ups | `PeriodLogs` (which rate a period has), `ConfigurationInput` (what a configuration is) |
| **ConsumptionProfile** | energy factors read from a file | look-up | `ConfigurationInput`: which factors there are; the floating-point products left out |
| **PintoolInput** (`configuration-input.*`) | configurations and profiles by identifier | parse the two input files | `ConfigurationInput` |
| compile options | flags | | constants `PinLocked`, `BackupSize`; one module per buffer class |
| markers, test application, examples | none | empty routines, inputs | no |

### 1.2 How they interact

The target program drives everything. Pin calls an analysis routine before an
instrumented instruction (`IPOINT_BEFORE`) or at the entry of a marker routine;
ApproxSS has no thread, timer or queue of its own.

* *Access*: `AccessHandler` looks the address up in the main control's active
  map and calls a handler of the buffer found. The handler restores earlier read
  faults, injects pending write faults, injects new read faults after backing
  the element up, or (for a write) notes that a fault is owed. Then the
  instruction's own load or store happens. The handler shares the bytes of the
  program's memory with the program.
* *Marker*: changes the registry and retires or reactivates buffers. Retiring
  reverses all read faults, applies all owed write faults and stores the log of
  the current period. Reactivating resumes the log, if it is of the same period.
* *Log*: a pending write holds a pointer into the counters of the log of its
  period, so logs and pending writes share memory that copies, swaps and
  erasures of logs must respect.
* *PIN_LOCKED build*: a control per thread besides the main one. Marker routines
  and handlers take `g_pinLock`; `ThreadFini` retires the buffers of its thread
  without it, and leaves them in the main map. A handler releases the lock before
  the instruction it prepared runs.
* *Input files* are read once, before the target starts; all that is left of
  them are the configurations, by identifier, and the profiles.

### 1.3 What is hard here

1. The order of restore, inject and back up, in every sequence of overlapping
   element, vector and scattered accesses: one slip and a restore puts
   overwritten data back into the program's memory.
2. State that outlives its owner: maps taken over at reactivation, borrowed
   arrays that nobody clears, a pointer from a pending write into a log that has
   since been copied, stored or erased.
3. Several activations within one period, and several periods without the buffer.
4. Overlapping ranges: the registry decides by the equivalence of an ordered map.
5. In the PIN_LOCKED build, counting the users of a shared buffer through adds,
   removals and ends of threads, some of them outside the lock.
6. In the same build, handlers, instructions, markers and ends of threads in any
   order, since only handlers and markers are under the lock.
7. Counters that must agree although they move at different times: the period,
   the rate in use, the rate a pending write carries, the rate a log names; and
   the distance to the next fault over accesses of different sizes.

`PROJECT.json`, "hazards", lists these line by line with the properties that
cover each, and those that nothing covers yet.

## 2. Modules

| Module | What it is |
|---|---|
| `BufferMemory` | Shared vocabulary: range, elements, alignment, which accesses are ignored or taken as vectors, `InjectFault`, the store. |
| `ShortTermMaps` | The two maps of the default buffer, remaining reads and pending writes, and what a handler does to them and to the memory. |
| `ShortTermBuffer` | The default buffer: one action for each kind of handler, plus retire and reactivate. Extends `ShortTermMaps`. |
| `LongTermBuffer` | The array buffer: the same operations over `m_records` and `m_readBackups`. |
| `ApproximateMemory` | Abstract specification: what any buffer promises the program. |
| `PeriodLogs` | The log of the current period, the stored ones, the arrays of counters they own and the pending writes that point into them; the error rates of each period. |
| `PintoolControl` | The registry, both builds (`PinLocked`), every marker, start and end of threads, `Fini`. |
| `LockedAccess` | Threads that share one buffer in the PIN_LOCKED build: handlers over the same `ShortTermMaps`, instructions, markers and `ThreadFini`, interleaved around `g_pinLock` and outside it. |
| `ConfigurationInput` | The two input files, line by line, and what they leave. |
| `DistanceInjector` | The distance-based injector: the distances it carries over accesses, its faults and its backups. |
| `ShortTermMapsProofs` | Lemmas on the operators of `BufferMemory` and `ShortTermMaps`, for the two modules that follow. |
| `ShortTermBufferProofs`, `LockedAccessProofs` | Theorems about the module named, for all constants (section 4). |
| `LongTermBufferProofs`, `PeriodLogsProofs`, `PintoolControlProofs`, `ConfigurationInputProofs`, `DistanceInjectorProofs` | The same. |
| `MC...` | Constants for TLC. |

### 2.1 Correspondence and abstraction

* **One instruction, one step.** In the builds without PIN_LOCKED the target has
  one thread, so nothing runs between a handler and the instruction it
  precedes. `Read` is handler and load, `Write` is handler and store. An
  instruction that reads and writes one operand is a read, then a write.
* **Bytes.** A byte is the value last stored in it (or an older one, if
  something restored an older one) and the set of kinds of fault in it.
  `InjectFault` may hit any set of bytes within the bit depth of an element,
  which covers each injector, its random numbers, and the dropping of
  least-significant bits (counted as a hit).
* **inject.** The handlers' `GetShouldInject`: injection is enabled and the
  configuration has an error rate for the kind of access. It is free at each
  access: the program can switch it between any two.
* **Accesses** are any the constants list, within the buffer
  (`AccessesAssumption`). The buffer modules take the registry to forward every
  access to the range, as the build without MULTIPLE_ACTIVE_BUFFERS does; the
  look-up of the other build is in `PintoolControl`.
* **Counters.** `PeriodLogs` adds the fault counters of a log up into one number
  per array, and keeps the arrays apart by identity, which is what the pointers
  are about. `made`, `caused` and `writtenIn` are history variables.
* **Histories.** `stored`, `unread` (`ShortTermBuffer`, `LongTermBuffer`) and
  `activeIn` (`PintoolControl`) record what the program did, and no guard reads
  them. Nor does any read `astray` (`PintoolControl`), `overtaken` and `unlocked`
  (`LockedAccess`), which record that something went wrong in the code (3.2, 3.3):
  the properties of the PIN_LOCKED build say what holds until then, or elsewhere.
* **Registry.** An active map takes ranges to buffers. `Find` is `map::find`
  under `RangeCompare`: ranges that overlap are one key, and an address is an
  empty range. A buffer is known by its range and its other parameters, the
  comparison `add_approx` makes. Requests are those the constructor accepts
  (others end Pin).
* **Locks.** A marker holds `g_pinLock` throughout, so it is one step.
  `ThreadFini` runs without it, so each decrement of `m_isActive` is a load
  (`ThreadFiniLoad`) and a store (`ThreadFiniStore`) with any marker between.
* **Threads.** `LockedAccess` composes what the handlers do (`ShortTermMaps`, which
  `ShortTermBuffer` has too) with the lock, the active maps and the instructions. An
  access is four steps: the unlocked test for an active buffer (`Begin`), two
  halves of the handler under the lock (`Enter`, `Leave`), the instruction
  (`Execute`); a marker works on the map of its thread and on the main map, a part
  for each (`Enter`, `RetireMain`, `Leave`). Between its halves a handler is injecting,
  so that a lock that does not exclude shows, and so does a store of another thread,
  which needs no lock: it may be overwritten by the byte the injection has loaded
  before (`Execute`; `overtaken` keeps which). Level and injection status are free.
  The target has no data race of its own, and that is all that is assumed of it
  (`Compatible`): a store is not under way together with another access to the same
  bytes. Accesses to other elements, and removals, are free to come at any point.
* **Ends of threads.** `ThreadFini` is three steps in `LockedAccess`: it loads
  `m_isActive` (`ThreadFiniLoad`); it stores one less, or its store is lost because a
  marker routine under the lock stores after it what it had loaded before
  (`ThreadFiniStore`); and, if it loaded a 1, it retires the buffer
  (`ThreadFiniRetire`). The main map keeps the buffer, and handlers do not look at
  `m_isActive`, so they go on in a retired one. The decrement is a single load
  followed by a single store, as the test and the decrement of
  `approximate-buffer.cpp:419-420` are when the compiler keeps the value in between.
  A retirement while another thread is inside a handler or a marker routine has two
  threads change one `std::map`, which has no meaning; it is left out, so
  `ThreadFiniRetire` waits for the lock to be free.
* **Rates** (MULTIPLE_BER_CONFIGURATION) are their indexes. A pending write
  keeps the rate of its period; each log names the indexes of its own.
* **Input lines** are records of what they say: how many values a rate has, and
  whether they are zero or out of range. A rate becomes the length of its array.
  Lines may come in any order and be repeated. A BitDepth line may follow the rates;
  their arrays keep the length of the bit depth they were read at.
* **Distances.** Those drawn are from a set of naturals, 0 included. C++ division
  truncates towards zero, which `Quotient` and `Remainder` do. Accesses are of
  whole elements. The category is enabled.
* **Fini** waits for `ThreadFini` of the threads that have ended, and may come
  while others run.
* A definition marked *(Defect: ...)* is a plausible mistake in the definition
  that follows it. No action uses it. Each property names one that it refutes
  (`PROJECT.json`, "mutants").

### 2.2 Not modelled

* ENABLE_PASSIVE_INJECTION with its markers, OVERCHARGE_BER,
  NARROW_ACCESS_INSTRUMENTATION, and the registry without
  MULTIPLE_ACTIVE_BUFFERS: options that are off (or, for the last, on) by default.
* BorrowedMemory's pools: what matters to a buffer is that it may get any array
  an earlier owner gave away, which `LongTermBuffer!ReactivateBuffer` has.
* The energy figures (products of floating-point numbers) and all text.
* `Fini` ends with the access log: the destructors that follow, which run the
  base destructor twice, are not modelled.
* Misaligned accesses are in the operators and in the proofs, but in no run's
  constants. The long-term buffer is modelled for a range of whole elements
  (`WholeElements`).
* Two threads in one `std::map` at once, and which value a race on it leaves (2.1, ends
  of threads). `LockedAccess` has one buffer; several are in `PintoolControl`.
* `LockedAccess` leaves gathers and scatters out: the handler of one takes the
  same lock in the same way. It leaves out the misaligned accesses that a handler
  returns from at once (`HandledAccesses`), which `ShortTermBuffer` has.

## 3. What TLC checks

ApproxSS has no thread, timer or queue of its own, and the target may stop between
any two calls, so most properties are safety properties of specifications
without fairness. The exception is the PIN_LOCKED build, where every access and
every marker may have to wait for `g_pinLock`: `LockedAccess` states that each gets
through (`EveryCallReturns`). It assumes weak fairness of `RetireMain \/ Leave` and of `Execute` (a
thread inside its handler or its marker routine, or past it, is not blocked by
anything, and the operating system runs it), and strong fairness of `Enter \/ Miss`: other threads may
take the lock again and again, so that a waiting thread finds it free only now and
then, and `PIN_GetLock` is taken to be fair. Nothing is assumed of `Begin` or of the ends of
threads: the target need not make another access, and no thread need end.

Deadlock is checked in the buffer, log, injector and thread runs, where the
program can always go on; the registry runs and the input run switch it off because
`Fini`, and the end of the files, really are the end.

### 3.1 Runs that pass

**short_term** - three one-byte elements, two values, every access to one
element, every vector of two or three, and three gathers (one of them of one
element twice), in every order, with and without injection, across retirements
and reactivations. No bound is in a guard: the state space is complete.

* `StoredDataSurvives`: memory and backups hold the value stored last, so no
  restore ever undoes a store.
* `ReadFaultsReversible`: each read fault lies under a backup that differs from
  the byte in that fault alone.
* `WriteInjectedOnce`: an element that still has a pending write does not carry
  its fault yet.
* `KeysDisjoint`: no address has both a backup and a pending write.
* `RetiredOwesNothing`: reactivation, which clears nothing, starts from empty maps.
* `PreciseReadIsClean`: with injection off, the program loads no read fault.

* `ImplementsEagerContract`: the buffer implements `ApproximateMemory` with
  `Exact = FALSE`. Under the refinement mapping an element's data are its bytes
  with all backups put back. Data the program stored change by write faults only,
  an approximate write is decided once and no later than the first read of its
  element, and read faults are only ever on view.

Three elements are the fewest where `lower_bound` can pass over an element and
where vectors overlap in part. Two values tell an old byte from a new one.

**long_term** - two elements of two bytes, of which the bit depth reaches one:
`StoredDataSurvives`, `ReadFaultsReversible`, and `ImplementsExactContract`
(`Exact = TRUE`: a write is decided when its own element is read, and a precise
write cancels it). `RetiredRecordsAreNone` is why an array from the pool needs
no clearing; reactivation replaces the backups by `Garbage`, and the properties
show that none of it reaches memory.

**period_logs** - two elements, three periods, two accesses with injection and one
without in a period, four arrays (one for each stored log and one for the open one).
Every access (`AccessesConserved`) and every fault (`FaultsConserved`) is in the
log of its period once; a pending write points to the counters of its period's
log however many periods later (`WritesChargedToTheirPeriod`); logs own distinct
arrays and none is leaked (`LogsOwnTheirArrays`); a period is never stored twice
(`OpenPeriodNotStored`, without which `emplace` would lose a log). Three periods
let a write be injected two periods late, and let a buffer be away for one.
Reads have two rates and writes three, so that the indexes wrap around apart.
`RatesFollowPeriods`: the rates in use are those of the current period counted from
the last return of the buffer. `RatesAsLogged`: the rate a pending write will be
injected with is the one its period's log names, unless the buffer came back within
the period (see 3.3).

**pintool_control** - the default build: four requests (two of one range with
different parameters, one that overlaps it, one that touches it), three periods,
levels -1 to 1. Ranges of a map are disjoint (`ActiveRangesDisjoint`); each
listed buffer is active once and others not at all (`ActiveWhileListed`); the
logs stored are those of the periods the buffer was active in
(`PeriodsLogged`), and so is the output (`ReportComplete`); an address is
forwarded to the buffer it lies in, the first address excepted
(`ForwardedToItsBuffer`).

**pintool_locked** - the PIN_LOCKED build: two threads, two overlapping requests,
up to three users of a buffer, levels 0 and 1, in one period (periods are
the other run's subject), with markers between any load and store of `ThreadFini`.
Threads are symmetric.

* `ListedWhileInUse`: a buffer has users exactly while the main map has it, although
  a thread counts a buffer twice when it adds the first and once later, and counts
  it down twice or once. Not so for a buffer that some thread has under a range other
  than the buffer's (an overlapping add, 3.3), nor after `ThreadFini` has miscounted
  or retired it; `astray` holds those.
* `InjectedWhereAdded`: a thread with injection enabled is injected at an address if
  and only if it has added the buffer there, although the code takes the buffer from
  the main map and asks the thread only for some range around the address. This is
  for a thread whose own buffers are all in use and none of them astray: an entry of
  the thread whose buffer is gone from the main map (which the removals of another
  thread can bring about, 3.2) lets it be injected in whatever is there now.

**locked_access** - the PIN_LOCKED build from inside: two threads, a buffer of two
bytes, loads and stores of the second one (an access at the first address is never
forwarded, 3.3), all interleavings of handlers, instructions, adds, removals and
ends of threads.

* `RetiredOwesNothing`: a retired buffer owes nothing though a handler's test for an
  active one may be old. Until a thread that ends is the last user (`unlocked`); what
  happens then is the run locked_thread_end.
* `ReadFaultsReversible` and `StoredDataSurvives`: read faults stay reversible, and
  stored data survive, whatever another thread does between a handler and its
  instruction. Both except the bytes whose last store was overtaken by the injection of
  a write fault (3.3), and hold until `unlocked`: so these two are the only ways to
  lose a store or to keep a fault for good.
* `EveryCallReturns`: every access and every marker that waits for the lock returns.

Two threads are enough for each step to come between any two of another's. One
access is enough to have every handler against every other, since all that two
accesses add, elements restored or injected for a neighbour, is in `short_term` and in
the proofs, which are for any accesses. Larger instances (a single element with a vector
over two, `MaxActive` 1; two single elements) were checked without the liveness
property too, and hold, but take longer than a run should. `MaxActive` is 2: a thread
begins to add only while fewer are counted, which lets both add at once, a thread add
what the other one has left half counted, and the count reach 4; without a bound the
lost updates of `ThreadFini` could add to it for ever.

**configuration_input** - two entries with two identifiers, lines with one value, one
for each bit, none, two rates, or a rate out of range, in any order and repeated, the bit
depth before, between or after the rates; profiles with and without
reference values, one or two for each category. `ConfigurationsAsWritten`: the
configurations are the first entries of each identifier, each what its own lines say
or the default, and each rate is for the bit depth its line was read at. `EveryRateHasItsConsumption`: if the target starts with a profile
file, every rate of every configuration has a consumption value at its index.
Two entries are enough for a repetition and for an entry to leak into the next;
`MaxEntries` is the bound.

**distance_injector** - four elements of two bytes, three bits deep, distances from
0 to beyond the largest access with every remainder. `TypeOK` says that faults fall
into the access and into the bit depth; `FaultsCanBeUndone` that each element hit by
a read was backed up before its first fault and not after; `FaultsAsFarAsDrawn`
that consecutive faults are as many elements apart as drawn, to less than one element,
however the elements in between were divided into accesses.

`MaxPeriod`, `MaxAccesses`, `LeastLevel`, `MaxLevel`, `MaxActive` and `MaxEntries` are
the only bounds in guards. `MaxActive` is above what the properties allow in the default
build (2, where `ActiveWhileListed` says 0 or 1), so it hides nothing there. The
theorems have each bound as a constant, so they hold for any.

### 3.2 Runs that find a violation

Each shows what a document says and the code does not do.

| Run | The document | The code |
|---|---|---|
| short_term_neighbour_read | `README.md:48`: writes overwritten before being read are not injected | `approximate-buffer.cpp:517`: a read of one element takes what `lower_bound` finds, and so injects the next higher pending write |
| pintool_shared_buffer | `README.md:65`: threads can have the same buffer | `approxss.cpp:322`: removals are counted once more than adds of a buffer the main map has already |
| locked_precise_read | `README.md:65`: one thread can access the data precisely and another approximately | `approxss.cpp:432`: the lock is released before the load that the handler prepared, so another thread's read fault can come in between |
| locked_thread_end | `README.md:96`: retiring a buffer reverses read errors and applies outstanding write errors | `approxss.cpp:92`: `ThreadFini` retires the buffer but leaves it in the main map, where handlers go on in it |

In the trace of **locked_precise_read** one thread has added the buffer and the other has
not. Both make a load of the element. The handler of the thread that has not finds
nothing to restore and releases the lock; the other thread's handler then injects its
read fault; then the first thread's load runs, and loads that fault.

In the trace of **locked_thread_end** a thread adds the buffer (2 users counted), and the other
one, which has not, removes it (1: the main map's count goes down whoever asks). The
first thread ends and loads that 1; the other adds the buffer (2); the first stores 0
and retires it, while the main map and the other thread still have it. A store (or a load)
of the other thread now leaves a pending write (or a backup) in the retired buffer, and
its removal finds a count of 0, does nothing, and takes the buffer out of both maps.
`RemovedOwesNothing` looks at the state in which no thread is at anything and no map has the
buffer.

### 3.3 Differences without a run

Met while modelling, and described here only:

* `README.md:96` says that retirement reverses residual read errors. A single-element
  write at an element's address drops the backup of the whole element even if it
  stores a part of it (`approximate-buffer.cpp:668`).
* `README.md:113` says that the level must be above 0; any level but 0 enables injection
  (`approxss.cpp:85`).
* `README.md:65` says that PIN_LOCKED "enables safe approximation of multithreaded target
  applications". A handler injects under `g_pinLock`, but the stores of the target do not
  take it, and reading one element may inject the pending write of another
  (`approximate-buffer.cpp:517`), as a removal injects them all. An injection loads a byte,
  flips bits in it and stores it (`fault-injector.cpp:84`); the store of another thread, which has
  left its handler, may come in between and be lost. The target has no race there; the
  race is the tool's own. `Execute` has it, and `StoredDataSurvives` excepts just those bytes.
* `README.md:85` says that a buffer which crosses the range of an active one "will be ignored
  and will not be added". In the PIN_LOCKED build it is entered in the map of the
  thread, under the range asked for, served by the active buffer and counted
  (`approxss.cpp:269-274`). If t1 adds (1,4) and t2 adds (2,6), t2 has the buffer of (1,4) under
  (2,6). When t1 removes (1,4), one user is left, so the main entry stays; when t2
  removes (2,6), the count comes to 0 and the buffer is retired, but find gives the main
  map's entry of (1,4), which is not equal, and so is not erased: accesses go on being
  handled by a retired buffer, until someone removes (1,4) once more. `add_approx` of
  `PintoolControl` does all this; `ListedWhileInUse` and `InjectedWhereAdded` except such a
  buffer (`astray`).
* `README.md:83` says that the starting address of a buffer is inclusive. An access to it is
  looked up as an empty range, which counts as before the buffer, and is not forwarded
  (`approxss.cpp:414`); `ForwardedToItsBuffer` excepts that address.
* `README.md:48` says that writes overwritten before being read are not injected. Besides the
  route that short_term_neighbour_read shows, a pending write is not erased by a later precise write of its
  element (`approximate-buffer.cpp:676`) and is injected at the next read. The eager contract
  admits both; the exact one, which the long-term buffer keeps, admits neither.
* A vector access that starts at the first address of a buffer is not forwarded, as no
  access there is, although it covers further elements whose backups and pending
  writes then are stale.
* A buffer that is retired and comes back in one period starts again at its first
  rates, while the resumed log keeps the indexes it had
  (`approximate-buffer.cpp:123`, `injector-configuration.cpp:273`).
* With MULTIPLE_BER_CONFIGURATION the constructor of the local configuration does not
  copy the number of dropped bits (`injector-configuration.cpp:220`), and
  passive injection with several rates is switched off silently (line 246).
* `README.md:211` allows up to 8 dropped bits; `SetLSBDropped` ends the program at 8.
* A BitDepth line after the rates of its entry leaves their arrays at the old length
  (`configuration-input.cpp:332`), while `InjectFault` walks them by the new bit depth
  (`fault-injector.cpp:74`); `README.md` gives the other order, and nothing checks it. The model
  takes such lines, and `ConfigurationsAsWritten` says which length is left.
* `README.md:63` says that the distance counts every bit. Within an access larger than the
  distance, `UpdateErrorDistanceAndInjectionBit` truncates a negative number of bits
  towards zero, so that further faults fall into the next higher element and at a
  mirrored bit; over the end of an access the bits left in the element of the last
  fault are not counted. `FaultsAsFarAsDrawn` holds to less than one element.
* With MULTIPLE_BER_CONFIGURATION `DistanceBasedFaultInjector::AdvanceBerIndex`
  (`fault-injector.cpp:217`) does not call that of its base class, so whether a
  category injects at all stays as it was in the first period.

## 4. What is proved

TLAPS checks every theorem below, for every value of the constants that the named
assumptions admit. Every property that a passing run checks is a theorem, except
`EveryCallReturns`.

### 4.1 Assumptions

The named `ASSUME`s of the modules say what the code checks or the program declares:
the checks of the constructors (`BufferAssumption`, `RequestsAssumption`,
`DistanceAssumption`), accesses inside the buffer (`AccessesAssumption`,
`GathersAssumption`), a long-term buffer of whole elements (`WholeElements`), and what
the constants stand for (`BoundsAssumption`, `ControlAssumption`, `InputAssumption`,
`ThreadsAssumption`). `BoundsAssumption` also has an array for each log that can
exist, that is, that allocation succeeds. TLC evaluates all of them on the instances.

Some theorems have a hypothesis besides:

* `AlignedAccesses`, `WholeElementAccesses`: the accesses start at elements; they are of
  whole elements. The theorems on memory are about these because the code is right only
  for them: a handler keys its maps by addresses of elements, ignores a small access that
  starts elsewhere, and drops the backup of the whole element at a store to a part of
  it, whose rest then keeps a fault that nothing undoes (3.3). Typed arrays
  declared with their element size are accessed so. The hypothesis is only as strong as
  each theorem needs: the types, `KeysDisjoint`, `RetiredOwesNothing` and
  `RetiredRecordsAreNone` hold for any accesses, and that the short-term buffer takes no
  store back holds for aligned ones of any size. In `LockedAccess` the hypothesis also excludes a
  vector at the first address, which escapes the buffer but goes on into other elements (3.3).
  What its theorems except besides, `unlocked` and `overtaken`, is in the properties themselves.
* `PinLocked` or `~PinLocked`: the build a theorem is about.

The MC modules of the three buffer specifications assert that their instances meet
`WholeElementAccesses`, so the runs and the theorems are about the same accesses.

### 4.2 Theorems

| Module | Theorem | Property | For |
|---|---|---|---|
| `ShortTermBufferProofs` | `TypeCorrect` | `TypeOK` | any accesses |
| | `ReadsAndWritesDisjoint` | `KeysDisjoint` | any accesses |
| | `RetirementSettles` | `RetiredOwesNothing` | any accesses |
| | `StoredDataKept` | `StoredDataSurvives` | aligned accesses |
| | `ReadFaultsCanBeReversed` | `ReadFaultsReversible` | whole elements |
| | `NoWriteInjectedTwice` | `WriteInjectedOnce` | whole elements |
| | `PreciseReadsAreClean` | `PreciseReadIsClean`, an action property | whole elements |
| | `EagerContractImplemented` | `ImplementsEagerContract`, the refinement | whole elements |
| `LongTermBufferProofs` | `LongTermTypeCorrect` | `TypeOK` | any accesses |
| | `RecordsGivenBackClear` | `RetiredRecordsAreNone` | any accesses |
| | `LongTermDataKept` | `StoredDataSurvives` | whole elements |
| | `LongTermReadFaultsReversed` | `ReadFaultsReversible` | whole elements |
| | `ExactContractImplemented` | `ImplementsExactContract`, the refinement | whole elements |
| `PeriodLogsProofs` | `LogsTypeCorrect` | `TypeOK` | all |
| | `ArraysOwned` | `LogsOwnTheirArrays` | all |
| | `PointersStayValid` | `WritesChargedToTheirPeriod` | all |
| | `PeriodStoredOnce` | `OpenPeriodNotStored` | all |
| | `EveryAccessLogged` | `AccessesConserved` | all |
| | `EveryFaultLogged` | `FaultsConserved` | all |
| | `RatesStepWithPeriods` | `RatesFollowPeriods` | all |
| | `RatesNamedInLogs` | `RatesAsLogged` | all |
| `PintoolControlProofs` | `ControlTypeCorrect` | `TypeOK` | both builds |
| | `RangesStayDisjoint` | `ActiveRangesDisjoint` | both builds |
| | `AccessForwarded` | `ForwardedToItsBuffer` | both builds |
| | `ListedExactlyWhileInUse` | `ListedWhileInUse` | both builds |
| | `InjectedWhereBufferAdded` | `InjectedWhereAdded` | PIN_LOCKED |
| | `ActiveExactlyWhileListed` | `ActiveWhileListed` | default build |
| | `NoPeriodLost` | `PeriodsLogged` | default build |
| | `ReportIsComplete` | `ReportComplete` | default build |
| `LockedAccessProofs` | `LockedTypeCorrect` | `TypeOK` | any accesses |
| | `LateHandlersLeaveNothing` | `RetiredOwesNothing` | any accesses |
| | `LockedDataKept` | `StoredDataSurvives` | whole elements |
| | `LockedReadFaultsReversed` | `ReadFaultsReversible` | whole elements |
| `ConfigurationInputProofs` | `InputTypeCorrect` | `TypeOK` | all |
| | `EntriesTakenAsWritten` | `ConfigurationsAsWritten` | all |
| | `ConsumptionForEveryRate` | `EveryRateHasItsConsumption` | all |
| `DistanceInjectorProofs` | `InjectorTypeCorrect` | `TypeOK` | all |
| | `FaultsUndone` | `FaultsCanBeUndone` | all |
| | `FaultsSpaced` | `FaultsAsFarAsDrawn` | all |

### 4.3 The arguments

Each module states an inductive invariant, has a lemma for each action, joins them
with one step per action, and concludes with PTL.

* **Short-term buffer.** `IInv == TypeOK /\ KeysDisjoint /\ RetiredOwesNothing`.
  `KeysDisjoint` is not inductive alone: a read backs up the elements it hits, and their
  pending writes are gone only because `lower_bound` finds a key that is present
  (`LowerBoundFinds`), which needs `TypeOK`. For the memory, `Sound(Buffer)` is added: keys
  are elements; a backup differs from the bytes of its element in their read faults
  alone (`BackupsExact`); each read fault is under a backup (`ReadFaultsCovered`); what
  has a pending write does not carry its fault (`WritesFresh`). `Sound` is a predicate of
  any buffer, so that the lemmas on the steps of a handler (`ShortTermMapsProofs`) are
  stated once and used for both modules that have the maps. That memory and backups hold
  what was stored last is kept by `ValuesInv`, which needs aligned accesses only.
* **Refinements.** The invariant (`ContractInv`) shows that putting all backups back gives
  what the contract calls data. Each step is then a step of `AbsNext` or leaves the
  abstract state alone; retirement and reactivation are such, since they end what is on
  view and change no datum but by the write faults owed.
* **Long-term buffer.** `IInv == TypeOK /\ RetiredRecordsAreNone`; with `Sound`, which says the
  same of records and the array of backups, and `HoldsStored`. A borrowed array
  never matters because `Sound` constrains a backup only where the record says Read.
* **Logs.** The properties need two more: `RetiredLog` (a retired buffer has the log of
  its last period stored with the very counts of `m_periodLog`, so that taking up
  either is the same), and `FaultsBudgeted` (a period has at most as many faults, counted
  or pending, as accesses made with injection), which keeps counters within their type.
  That an array is free when a log is copied is a count: fewer logs than arrays.
* **Registry.** `TypeOK`, `ActiveRangesDisjoint` and `EntriesOwned` (every entry is an owned
  buffer; in the main map, under its own range) are inductive
  together: `add_approx` finds each range it would overlap only because those in the map
  are disjoint, and replaces no entry. `SharedInv` adds, of each buffer that is not astray,
  that all threads have it under its own range and that it is in use exactly while listed:
  then one range finds it in every map, so that the removal that takes the count to 0 also
  erases the main entry. `InjectedWhereAdded` follows since two entries around one
  address, one of the thread and one of the main map, overlap, and a buffer in use
  under its own range is the one the main map has there. In the default build `DefaultInv` adds what a
  buffer's log knows of the period (`InPeriod`, `PeriodsSoFar`).
* **Threads.** `Placed` says where the threads are: inside exactly while they hold the lock, no
  two at what `Compatible` excludes, and the last user on record (`unlocked`) before it
  retires the buffer. `Typed` is about the maps and the bytes being injected. `Registered`, until
  `unlocked`, says how the main map and the count of users agree between the parts of
  a marker, and that a buffer without users, or not in the main map, is empty. A handler that
  tested for an active buffer before the buffer was retired leaves nothing because it
  repeats the look-up under the lock; a decrement of `ThreadFini` cannot take the count to
  0 without `unlocked`, because it stores 0 only if it loaded 1. The memory is not `Sound` while a handler waits
  for its other half, or an instruction for its turn. `MemoryHolds`, until `unlocked`, says what
  is left (`Agree`): no backup is kept of bytes whose store is on its way; backups and bytes
  agree but for bytes overtaken; each read fault, and each byte about to get one, is under a
  backup unless its store is on its way or was overtaken; and memory holds what was stored
  last but for bytes overtaken.
* **Input.** The entry being read is what its lines so far mean, in whatever order
  they came, each rate with the bit depth at its line (`EntryAsGiven`); the configurations are the meanings of the finished
  entries that are first of their identifier; profiles match them (`ProfilesMatch`).
* **Distances.** The code counts in bytes and in bits by turns, with a division that
  truncates towards zero. Counted in elements it is exact, which the invariant says:
  each distance is that of a number of elements (`Counted`); the access is of whole
  elements, and the next fault is not behind `data` (`Located`); elements passed and
  elements to go make up what was drawn, to less than one element (`Spaced`); and nothing
  is flipped yet from `data` on, but what was backed up (`Saved`).

### 4.4 Model-checked only

`EveryCallReturns` is liveness under fairness, which is beyond the prover, as is
ENABLED. The runs that find a violation refute and prove nothing. No definition here
needs induction over data: no module has a RECURSIVE operator, and the sequences of
`ConfigurationInput` are compared index by index.

## 5. Plan

Done, in this order: `BufferMemory` and `ShortTermBuffer`, `ApproximateMemory`,
`LongTermBuffer`, `PeriodLogs`, `PintoolControl`, error rates in `PeriodLogs`,
`LockedAccess`, `ConfigurationInput`, `DistanceInjector`, and a module of proofs for
each but the abstract one. `ShortTermMaps` was split off when the proofs of two modules
needed the same lemmas.

To model next: several buffers in `LockedAccess`; misaligned and partial accesses in the buffer runs, with
properties that say what still holds; the pools and the passive markers that borrowers
inherit (ENABLE_PASSIVE_INJECTION); gathers and scatters in `LockedAccess`.

To prove next: what holds of the memory for misaligned accesses (which bytes a stale
backup may still reach); that the elements a precise write cancels in the long-term
buffer are those of the store, as an action property; and that `LockedAccess` with one
thread implements the eager contract.

## 6. Running

In this directory, with TLC and TLAPS installed:

    tlc -workers 2 -config MCShortTermBuffer.cfg MCShortTermBuffer
    tlapm ShortTermBufferProofs.tla

`PROJECT.json`, "runs", gives the module and configuration of each run. Each
takes about a minute or less, and each proof module a few minutes.
