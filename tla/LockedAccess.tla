---------------------------- MODULE LockedAccess ----------------------------
(***************************************************************************)
(* Threads that use one approximate buffer in the PIN_LOCKED build: how    *)
(* AccessHandler::CheckAndForward, add_approx and remove_approx share      *)
(* g_pinLock, what ThreadFini does without it, and where they interleave.  *)
(*                                                                         *)
(* An access takes four steps.  The main map is tested for emptiness       *)
(* before the lock is asked for; the handler runs under the lock, in two   *)
(* halves, between which it is injecting faults; the load or store of the  *)
(* instruction itself comes after the lock is released.  A marker routine  *)
(* works on the map of its thread and on the main map, a part for each,    *)
(* all of it under the lock.                                               *)
(*                                                                         *)
(* ThreadFini retires the thread's buffer under tcMap_lock only, so no two *)
(* threads end at once.  It loads m_isActive in one step, stores it in     *)
(* another, and retires the buffer in a third if that was the last user.   *)
(* A retirement while another thread is under g_pinLock, so that two work  *)
(* on one std::map, has no meaning and is left out.                        *)
(*                                                                         *)
(* What a handler does to the buffer is in ShortTermMaps.  Operands are    *)
(* contiguous; those of gathers and scatters take the lock likewise.       *)
(***************************************************************************)
EXTENDS ShortTermMaps

CONSTANTS
  Threads,   \* the threads of the target application
  NoThread,  \* the holder of a lock that is free
  MaxActive  \* bound: users counted, or loaded as counted, when a thread adds

ASSUME ThreadsAssumption == NoThread \notin Threads /\ MaxActive \in Nat

\* Accesses that the handlers take no notice of are left out.
ASSUME HandledAccesses == \A acc \in Accesses : ~IsIgnored(acc)

VARIABLES
  isActive,        \* m_isActive
  stored,          \* history: the value the program last stored in each byte
  inMain,          \* whether the active map of g_mainThreadControl has the buffer
  inThread,        \* whether the active map of each thread has it
  lock,            \* the thread that holds g_pinLock
  pc,              \* where each thread is in what it does
  op,              \* what each thread does
  hit,             \* the bytes the handler a thread is in has yet to make faulty
  injecting,       \* the bytes each thread is injecting write faults into
  seen,            \* m_isActive as a thread that ends has loaded it
  overtaken,       \* history: the bytes whose last store came while another
                   \* thread was injecting a write fault into them
  unlocked         \* history: whether a thread that ended was the last user

buffer == <<memory, remainingReads, pendingWrites, isActive>>
handlers == <<hit, injecting>>
histories == <<stored, overtaken, unlocked>>
vars == <<buffer, inMain, inThread, lock, pc, op, seen, handlers, histories>>

Loads == [kind : {"load"}, acc : Accesses]

Stores == [kind : {"store"}, acc : Accesses]

Markers == [kind : {"add", "remove"}]

End == [kind |-> "end"]

Idle == [kind |-> "none"]

IsAccess(o) == o.kind \in {"load", "store"}

(***************************************************************************)
(* The target application has no data races of its own: a store is never   *)
(* under way together with another access to the same bytes.               *)
(***************************************************************************)
Compatible(o, p) ==
  {o.kind, p.kind} \in {{"store"}, {"load", "store"}} => BytesOf(o.acc) \intersect BytesOf(p.acc) = {}

(***************************************************************************)
(* Retirement by thread t, once: the last user's puts back the backups and *)
(* injects the pending writes.                                             *)
(***************************************************************************)
Settle(t) ==
  \E writeHit \in SUBSET SpanOf(pendingWrites) :
    /\ Become(AfterRead(Buffer, DOMAIN remainingReads, pendingWrites, {}, writeHit, {}))
    /\ injecting' = [injecting EXCEPT ![t] = writeHit]

KeepBuffer(t) ==
  /\ UNCHANGED <<memory, remainingReads, pendingWrites>>
  /\ injecting' = [injecting EXCEPT ![t] = {}]

\* (Defect: no failsafe against repeated retirements.)
LeftAnyway(users) == users - 1

Left(users) == IF users >= 1 THEN users - 1 ELSE 0

RetireBuffer(t) ==
  /\ isActive' = Left(isActive)
  /\ IF isActive = 1 THEN Settle(t) ELSE KeepBuffer(t)

\* ReactivateBuffer, or the constructor, unless b.
ReactivateUnless(b) ==
  /\ isActive' = IF b THEN isActive ELSE isActive + 1
  /\ UNCHANGED <<memory, remainingReads, pendingWrites>>

(***************************************************************************)
(* Steps.                                                                  *)
(***************************************************************************)
\* The program has cleared the buffer before its threads start.
InitialValue == CHOOSE v \in Values : TRUE

Init ==
  /\ stored = [b \in Memory |-> InitialValue]
  /\ memory = [b \in Memory |-> Clean(InitialValue)]
  /\ remainingReads = NoReads
  /\ pendingWrites = {}
  /\ isActive = 0
  /\ inMain = FALSE
  /\ inThread = [t \in Threads |-> FALSE]
  /\ lock = NoThread
  /\ pc = [t \in Threads |-> "idle"]
  /\ op = [t \in Threads |-> Idle]
  /\ hit = [t \in Threads |-> {}]
  /\ injecting = [t \in Threads |-> {}]
  /\ seen = [t \in Threads |-> 0]
  /\ overtaken = {}
  /\ unlocked = FALSE

Goto(t, place) == pc' = [pc EXCEPT ![t] = place]

\* (Defect: the test is made on the map of the thread.)
HasActiveBufferOfThread(t) == inThread[t]

\* g_mainThreadControl.HasActiveBuffer(), read without the lock.
HasActiveBuffer(t) == inMain

\* The instruction or the marker routine begins.  A thread that has ended may
\* begin again as another one with its identifier.
Begin(t, o) ==
  /\ pc[t] = "idle"
  /\ \A u \in Threads \ {t} : Compatible(o, op[u])
  /\ o.kind = "add" => isActive < MaxActive /\ \A u \in Threads : seen[u] < MaxActive
  /\ op' = [op EXCEPT ![t] = o]
  /\ Goto(t, IF IsAccess(o) /\ ~HasActiveBuffer(t) THEN "unhandled" ELSE "waiting")
  /\ UNCHANGED <<buffer, inMain, inThread, lock, seen, handlers, histories>>

\* (Defect: the lock does not exclude.)
LockFreeAlways == TRUE

LockFree == lock = NoThread

\* (Defect: the buffer is taken to be there as it was before the lock.)
FoundBefore(acc) == TRUE

\* What find says of the main map, under the lock.  In the order of RangeCompare
\* the first address of a buffer comes before the buffer.
Found(acc) == inMain /\ acc.address # FirstAddress

\* (Defect: a path on which the lock is not released.)
HolderAfterMissHeld(t) == t

HolderAfterMiss(t) == NoThread

\* An access whose buffer the main map no longer has: lock, find, release.
Miss(t) ==
  /\ pc[t] = "waiting" /\ IsAccess(op[t])
  /\ LockFree /\ ~Found(op[t].acc)
  /\ lock' = HolderAfterMiss(t)
  /\ Goto(t, "unhandled")
  /\ UNCHANGED <<buffer, inMain, inThread, op, seen, handlers, histories>>

\* What GetShouldInject may be: the level and the injection status of a thread,
\* which only its own markers change, are left open; its map is not.
ShouldInject(t) == IF inThread[t] THEN BOOLEAN ELSE {FALSE}

\* The handler of a read restores, injects the writes, and backs up the
\* elements it is about to inject read faults into.
EnterLoad(t) ==
  LET acc     == op[t].acc
      applied == AppliedBy(acc)
  IN  /\ op[t].kind = "load" /\ Found(acc)
      /\ \E inject \in ShouldInject(t), writeHit \in SUBSET SpanOf(applied) :
         \E readHit \in ReadHits(inject, KeysOf(acc)) :
           /\ Become([AfterRead(Buffer, ReversedBy(acc), applied, KeysOf(acc), writeHit, readHit)
                      EXCEPT !.memory = InjectFault(
                        ReverseFaultyRead(memory, remainingReads, ReversedBy(acc)),
                        writeHit, "write")])
           /\ hit' = [hit EXCEPT ![t] = readHit]
           /\ injecting' = [injecting EXCEPT ![t] = writeHit]
      /\ UNCHANGED <<isActive, inMain, inThread>>

\* The handler of a write drops the backups under the access.
EnterStore(t) ==
  /\ op[t].kind = "store" /\ Found(op[t].acc)
  /\ remainingReads' = Drop(remainingReads, ReversedBy(op[t].acc))
  /\ UNCHANGED <<memory, pendingWrites, isActive, inMain, inThread, handlers>>

\* add_approx puts the buffer in the main map, unless it is there.
EnterAdd(t) ==
  /\ op[t].kind = "add"
  /\ ReactivateUnless(inMain)
  /\ inMain' = TRUE
  /\ UNCHANGED <<inThread, handlers>>

\* remove_approx takes the buffer from the map of the thread, if it is there.
EnterRemove(t) ==
  /\ op[t].kind = "remove"
  /\ IF inThread[t] THEN RetireBuffer(t) ELSE UNCHANGED <<buffer, injecting>>
  /\ inThread' = [inThread EXCEPT ![t] = FALSE]
  /\ UNCHANGED <<inMain, hit>>

Enter(t) ==
  /\ pc[t] = "waiting" /\ LockFree
  /\ lock' = t
  /\ Goto(t, "inside")
  /\ EnterLoad(t) \/ EnterStore(t) \/ EnterAdd(t) \/ EnterRemove(t)
  /\ UNCHANGED <<op, seen, histories>>

\* remove_approx retires the buffer of the main map as well, whether or not the
\* thread had it, and erases it if that leaves no user.
RetireMain(t) ==
  /\ pc[t] = "inside" /\ op[t].kind = "remove"
  /\ IF inMain THEN RetireBuffer(t) ELSE (UNCHANGED isActive /\ KeepBuffer(t))
  /\ inMain' = (inMain /\ isActive' # 0)
  /\ Goto(t, "leaving")
  /\ UNCHANGED <<inThread, lock, op, hit, seen, histories>>

Done(t, place) ==
  /\ lock' = NoThread
  /\ Goto(t, place)
  /\ op' = IF place = "idle" THEN [op EXCEPT ![t] = Idle] ELSE op
  /\ hit' = [hit EXCEPT ![t] = {}]
  /\ injecting' = [injecting EXCEPT ![t] = {}]

\* The faults of a read.
LeaveLoad(t) ==
  /\ pc[t] = "inside" /\ op[t].kind = "load"
  /\ memory' = InjectFault(memory, hit[t], "read")
  /\ Done(t, "handled")
  /\ UNCHANGED <<remainingReads, pendingWrites, isActive, inMain, inThread>>

\* A write is recorded, to be injected later.
LeaveStore(t) ==
  /\ pc[t] = "inside" /\ op[t].kind = "store"
  /\ \E inject \in ShouldInject(t) :
       pendingWrites' = pendingWrites \union IF inject THEN KeysOf(op[t].acc) ELSE {}
  /\ Done(t, "handled")
  /\ UNCHANGED <<memory, remainingReads, isActive, inMain, inThread>>

\* add_approx puts the buffer in the map of the thread, unless it is there.
LeaveAdd(t) ==
  /\ pc[t] = "inside" /\ op[t].kind = "add"
  /\ ReactivateUnless(inThread[t])
  /\ inThread' = [inThread EXCEPT ![t] = TRUE]
  /\ Done(t, "idle")
  /\ UNCHANGED inMain

LeaveRemove(t) ==
  /\ pc[t] = "leaving"
  /\ Done(t, "idle")
  /\ UNCHANGED <<buffer, inMain, inThread>>

Leave(t) ==
  /\ LeaveLoad(t) \/ LeaveStore(t) \/ LeaveAdd(t) \/ LeaveRemove(t)
  /\ UNCHANGED <<seen, histories>>

\* The load or store of the instruction, after its handler or without one.  A
\* store that comes while another thread is injecting a write fault into one of
\* its bytes, which is a load and a store of that byte, may be overwritten.
Execute(t) ==
  LET bytes  == BytesOf(op[t].acc)
      raced  == bytes \intersect UNION {injecting[u] : u \in Threads \ {t}}
  IN  /\ pc[t] \in {"unhandled", "handled"}
      /\ IF op[t].kind = "store"
         THEN /\ \E v \in Values, late \in SUBSET raced :
                   /\ memory' = StoreBytes(memory, bytes \ late, v)
                   /\ stored' = [b \in Memory |-> IF b \in bytes THEN v ELSE stored[b]]
              /\ overtaken' = (overtaken \ bytes) \union raced
         ELSE UNCHANGED <<memory, stored, overtaken>>
      /\ Goto(t, "idle")
      /\ op' = [op EXCEPT ![t] = Idle]
      /\ UNCHANGED <<remainingReads, pendingWrites, isActive, inMain, inThread, lock, seen, handlers,
                     unlocked>>

(***************************************************************************)
(* ThreadFini of a thread that has the buffer.  The main map keeps it.     *)
(***************************************************************************)
Erased(t) == inThread' = [inThread EXCEPT ![t] = FALSE]

\* RetireBuffer loads m_isActive; if that is 0 there is nothing else to do.
ThreadFiniLoad(t) ==
  /\ pc[t] = "idle" /\ inThread[t]
  /\ \A u \in Threads : op[u] # End
  /\ IF isActive = 0
     THEN /\ Erased(t)
          /\ UNCHANGED <<pc, op, seen>>
     ELSE /\ seen' = [seen EXCEPT ![t] = isActive]
          /\ op' = [op EXCEPT ![t] = End]
          /\ Goto(t, "ending")
          /\ UNCHANGED inThread
  /\ UNCHANGED <<buffer, inMain, lock, handlers, histories>>

\* It stores one less, unless a marker routine that has loaded the old count
\* stores its own after it.
ThreadFiniStore(t) ==
  /\ pc[t] = "ending"
  /\ \/ isActive' = seen[t] - 1
     \/ lock # NoThread /\ op[lock] \in Markers /\ isActive' = isActive
  /\ IF seen[t] = 1
     THEN /\ unlocked' = TRUE
          /\ Goto(t, "retiring")
          /\ UNCHANGED <<inThread, op>>
     ELSE /\ Erased(t)
          /\ Goto(t, "idle")
          /\ op' = [op EXCEPT ![t] = Idle]
          /\ UNCHANGED unlocked
  /\ seen' = [seen EXCEPT ![t] = 0]
  /\ UNCHANGED <<memory, remainingReads, pendingWrites, inMain, lock, handlers, stored, overtaken>>

\* The last user puts back the backups and injects the pending writes.
ThreadFiniRetire(t) ==
  /\ pc[t] = "retiring" /\ lock = NoThread
  /\ \E writeHit \in SUBSET SpanOf(pendingWrites) :
       Become(AfterRead(Buffer, DOMAIN remainingReads, pendingWrites, {}, writeHit, {}))
  /\ Erased(t)
  /\ Goto(t, "idle")
  /\ op' = [op EXCEPT ![t] = Idle]
  /\ UNCHANGED <<isActive, inMain, lock, seen, handlers, histories>>

Next ==
  \E t \in Threads :
    \/ \E o \in Loads \union Stores \union Markers : Begin(t, o)
    \/ Miss(t)
    \/ Enter(t)
    \/ RetireMain(t)
    \/ Leave(t)
    \/ Execute(t)
    \/ ThreadFiniLoad(t)
    \/ ThreadFiniStore(t)
    \/ ThreadFiniRetire(t)

\* A thread that holds the lock or has left its handler goes on; PIN_GetLock is
\* taken to be fair: it does not pass over a thread that waits for ever.
Fairness ==
  \A t \in Threads :
    /\ WF_vars(RetireMain(t) \/ Leave(t))
    /\ WF_vars(Execute(t))
    /\ SF_vars(Enter(t) \/ Miss(t))

Spec == Init /\ [][Next]_vars /\ Fairness
-----------------------------------------------------------------------------
(***************************************************************************)
(* The accesses for which the properties of the memory hold.  One that     *)
(* starts at the first address escapes the buffer, so that it must not go  *)
(* on into other elements.                                                 *)
(***************************************************************************)
WholeElementAccesses ==
  /\ AccessesWhole
  /\ \A acc \in Accesses : acc.address = FirstAddress => ~IsSIMD(acc)
-----------------------------------------------------------------------------
(***************************************************************************)
(* Properties.                                                             *)
(***************************************************************************)
TypeOK ==
  /\ memory \in [Memory -> Byte]
  /\ DOMAIN remainingReads \subseteq Memory
  /\ pendingWrites \subseteq Memory
  /\ isActive \in Nat
  /\ stored \in [Memory -> Values]
  /\ inMain \in BOOLEAN /\ inThread \in [Threads -> BOOLEAN]
  /\ lock \in Threads \union {NoThread}
  /\ \A t \in Threads :
       /\ pc[t] \in {"idle", "waiting", "inside", "leaving", "unhandled", "handled", "ending", "retiring"}
       /\ op[t] \in {Idle, End} \union Loads \union Stores \union Markers
       /\ pc[t] = "idle" <=> op[t] = Idle
       /\ pc[t] = "ending" <=> seen[t] >= 1
       /\ hit[t] \subseteq Memory /\ injecting[t] \subseteq Memory /\ seen[t] \in Nat
  /\ overtaken \subseteq Memory /\ unlocked \in BOOLEAN

\* A retired buffer holds no backup and no pending write of a thread that came
\* late, though the test for an active buffer is made before the lock is taken;
\* not so once the last user was a thread that ended, since the main map keeps
\* the retired buffer and handlers do not look at m_isActive.
RetiredOwesNothing ==
  ~unlocked /\ isActive = 0 => DOMAIN remainingReads = {} /\ pendingWrites = {}

\* The bytes a thread is about to store to, its handler done.
OnTheirWay ==
  UNION {BytesOf(op[t].acc) : t \in {u \in Threads : op[u].kind = "store" /\ pc[u] # "waiting"}}

\* Whatever the threads' handlers do in between, a read fault in memory can be
\* undone: its byte is under a backup that differs in that fault alone, or is
\* about to be overwritten, or had its last store overtaken by an injection.
ReadFaultsReversible ==
  ~unlocked => \A b \in Memory \ (OnTheirWay \union overtaken) : "read" \in memory[b].faults =>
    \E a \in DOMAIN remainingReads :
      /\ b \in Span(a)
      /\ remainingReads[a][b - a] = [memory[b] EXCEPT !.faults = @ \ {"read"}]

\* No handler and no removal takes a store back, of its own thread or another,
\* of one that has added the buffer or not, however late it comes; the one way
\* to lose a store is an injection of a write fault under it at that moment.
StoredDataSurvives ==
  ~unlocked => \A b \in Memory \ overtaken : memory[b].value = stored[b]

\* Every access and every marker routine that waits for the lock gets through,
\* whatever the other threads do.
EveryCallReturns == \A t \in Threads : pc[t] = "waiting" ~> pc[t] = "idle"
-----------------------------------------------------------------------------
(***************************************************************************)
(* What the documentation says and the code does not do.                   *)
(***************************************************************************)
\* README.md:65: one thread can access the data precisely while another does
\* approximately.  A load of a thread that has not added the buffer, which has
\* been through the handler, finds no read fault.
PreciseThreadLoadsClean ==
  [][\A t \in Threads :
       Execute(t) /\ op[t].kind = "load" /\ pc[t] = "handled" /\ ~inThread[t] =>
         \A b \in BytesOf(op[t].acc) : "read" \notin memory[b].faults]_vars

\* README.md:96: retiring a buffer implies reversing residual read errors and
\* applying outstanding write errors, so that none is left of a buffer that is
\* in no map, once every thread is done.
RemovedOwesNothing ==
  ~inMain /\ (\A t \in Threads : ~inThread[t] /\ op[t] = Idle) =>
    DOMAIN remainingReads = {} /\ pendingWrites = {}
=============================================================================
