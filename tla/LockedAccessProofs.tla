------------------------- MODULE LockedAccessProofs -------------------------
(***************************************************************************)
(* Theorems about LockedAccess, for any number of threads, any range,      *)
(* element size and bit depth, and any set of values: the types and what a *)
(* retired buffer owes for any accesses at all, what the memory holds for  *)
(* accesses of whole elements.                                             *)
(***************************************************************************)
EXTENDS LockedAccess, ShortTermMapsProofs

(***************************************************************************)
(* Where the threads are.                                                  *)
(***************************************************************************)
Ops == {Idle, End} \union Loads \union Stores \union Markers

Places ==
  {"idle", "waiting", "inside", "leaving", "unhandled", "handled", "ending", "retiring"}

\* What the steps of one thread keep of the places, the operations and the
\* counts loaded by threads that end.
Going ==
  /\ pc \in [Threads -> Places]
  /\ op \in [Threads -> Ops]
  /\ seen \in [Threads -> Nat]
  /\ \A t \in Threads : pc[t] = "idle" <=> op[t] = Idle
  /\ \A t \in Threads : pc[t] = "ending" <=> seen[t] >= 1
  /\ \A t, u \in Threads : t # u => Compatible(op[t], op[u])

\* The lock excludes: a thread is inside a handler or a marker routine exactly
\* while it holds the lock, and only the handler of a load has faults to inject.
Locked ==
  /\ lock \in Threads \union {NoThread}
  /\ hit \in [Threads -> SUBSET Memory]
  /\ \A t \in Threads : pc[t] \in {"inside", "leaving"} <=> lock = t
  /\ \A t \in Threads : hit[t] # {} => lock = t /\ op[t].kind = "load"
  /\ \A t \in Threads : pc[t] = "leaving" => op[t].kind = "remove"

\* A thread that ended as the last user is on record before it retires.
Recorded ==
  /\ isActive \in Nat
  /\ unlocked \in BOOLEAN
  /\ \A t \in Threads : pc[t] = "retiring" => unlocked
  /\ \A t \in Threads : pc[t] \in {"ending", "retiring"} => op[t] = End

Placed == Going /\ Locked /\ Recorded

LEMMA OpShape ==
  ASSUME NEW o \in Ops
  PROVE  /\ o.kind \in {"none", "end", "load", "store", "add", "remove"}
         /\ IsAccess(o) => o.acc \in Accesses
         /\ o.kind = "none" <=> o = Idle
<1>1. CASE o = Idle
  BY <1>1 DEF Idle, IsAccess
<1>2. CASE o \in Loads
  BY <1>2 DEF Loads, Idle, IsAccess
<1>3. CASE o \in Stores
  BY <1>3 DEF Stores, Idle, IsAccess
<1>4. CASE o \in Markers
  BY <1>4 DEF Markers, Idle, IsAccess
<1>5. CASE o = End
  BY <1>5 DEF End, Idle, IsAccess
<1> QED BY <1>1, <1>2, <1>3, <1>4, <1>5 DEF Ops

LEMMA CompatibleSymmetric ==
  ASSUME NEW o, NEW p, Compatible(o, p)
  PROVE  Compatible(p, o)
<1>1. {o.kind, p.kind} = {p.kind, o.kind}
      /\ BytesOf(o.acc) \intersect BytesOf(p.acc) = BytesOf(p.acc) \intersect BytesOf(o.acc)
  OBVIOUS
<1> QED BY <1>1, Zenon DEF Compatible

LEMMA QuietCompatible ==
  ASSUME NEW o, NEW p, p.kind \in {"none", "end"}
  PROVE  Compatible(p, o) /\ Compatible(o, p)
<1>1. p.kind \in {o.kind, p.kind} /\ p.kind \in {p.kind, o.kind}
  OBVIOUS
<1>2. p.kind # "store" /\ p.kind # "load"
  OBVIOUS
<1> QED BY <1>1, <1>2 DEF Compatible

\* A store shares no byte with another load or store under way.
LEMMA CompatibleStore ==
  ASSUME NEW o, NEW p, Compatible(o, p), p.kind = "store", o.kind \in {"load", "store"}
  PROVE  BytesOf(o.acc) \intersect BytesOf(p.acc) = {}
<1>1. CASE o.kind = "store"
  <2>1. {o.kind, p.kind} = {"store"}
    BY <1>1
  <2> QED BY <2>1 DEF Compatible
<1>2. CASE o.kind = "load"
  <2>1. {o.kind, p.kind} = {"load", "store"}
    BY <1>2
  <2> QED BY <2>1 DEF Compatible
<1> QED BY <1>1, <1>2

\* Thread t goes to the place p and does o from now on; nobody else moves.
LEMMA Moved ==
  ASSUME Going, NEW t \in Threads, NEW o \in Ops, NEW p \in Places, NEW n \in Nat,
         p = "idle" <=> o = Idle, p = "ending" <=> n >= 1,
         pc' = [pc EXCEPT ![t] = p], op' = [op EXCEPT ![t] = o],
         seen' = [seen EXCEPT ![t] = n],
         \A u \in Threads \ {t} : Compatible(o, op[u])
  PROVE  Going'
<1>1. pc' \in [Threads -> Places] /\ op' \in [Threads -> Ops] /\ seen' \in [Threads -> Nat]
  BY DEF Going
<1>2. /\ pc'[t] = p /\ op'[t] = o /\ seen'[t] = n
      /\ \A u \in Threads \ {t} : pc'[u] = pc[u] /\ op'[u] = op[u] /\ seen'[u] = seen[u]
  BY DEF Going
<1>3. \A u \in Threads : pc'[u] = "idle" <=> op'[u] = Idle
  BY <1>2 DEF Going
<1>4. \A u \in Threads : pc'[u] = "ending" <=> seen'[u] >= 1
  BY <1>2 DEF Going
<1>5. ASSUME NEW u \in Threads, NEW w \in Threads, u # w PROVE Compatible(op'[u], op'[w])
  <2>1. CASE u = t
    BY <1>2, <1>5, <2>1
  <2>2. CASE w = t
    BY <1>2, <1>5, <2>2, CompatibleSymmetric
  <2>3. CASE u # t /\ w # t
    BY <1>2, <1>5, <2>3 DEF Going
  <2> QED BY <2>1, <2>2, <2>3
<1> QED BY <1>1, <1>3, <1>4, <1>5 DEF Going

\* The same when it goes on with what it does.
LEMMA MovedOn ==
  ASSUME Going, NEW t \in Threads, op[t] # Idle, pc[t] # "ending",
         NEW p \in {"waiting", "inside", "leaving", "unhandled", "handled"},
         pc' = [pc EXCEPT ![t] = p], op' = op, seen' = seen
  PROVE  Going'
<1>1. /\ op[t] \in Ops /\ seen[t] \in Nat /\ p \in Places
      /\ op' = [op EXCEPT ![t] = op[t]] /\ seen' = [seen EXCEPT ![t] = seen[t]]
  BY DEF Going, Places
<1>2. (p = "idle" <=> op[t] = Idle) /\ (p = "ending" <=> seen[t] >= 1)
  BY DEF Going
<1>3. \A u \in Threads \ {t} : Compatible(op[t], op[u])
  BY DEF Going
<1> QED BY <1>1, <1>2, <1>3, Moved

\* And when it has done what it did.
LEMMA MovedOff ==
  ASSUME Going, NEW t \in Threads,
         (pc[t] # "ending" /\ seen' = seen) \/ seen' = [seen EXCEPT ![t] = 0],
         pc' = [pc EXCEPT ![t] = "idle"], op' = [op EXCEPT ![t] = Idle]
  PROVE  Going'
<1>1. Idle \in Ops /\ "idle" \in Places /\ Idle.kind = "none"
  BY DEF Ops, Places, Idle
<1>2. \A u \in Threads \ {t} : Compatible(Idle, op[u])
  BY <1>1, QuietCompatible
<1>3. PICK n \in Nat : seen' = [seen EXCEPT ![t] = n] /\ ~(n >= 1)
  <2>1. CASE seen' = [seen EXCEPT ![t] = 0]
    <3>1. 0 \in Nat /\ ~(0 >= 1)
      OBVIOUS
    <3> QED BY <2>1, <3>1
  <2>2. CASE pc[t] # "ending" /\ seen' = seen
    <3>1. seen[t] \in Nat /\ ~(seen[t] >= 1) /\ seen' = [seen EXCEPT ![t] = seen[t]]
      BY <2>2 DEF Going
    <3> QED BY <3>1
  <2> QED BY <2>1, <2>2
<1>4. "idle" # "ending"
  OBVIOUS
<1> QED BY <1>1, <1>2, <1>3, <1>4, Moved

\* A step that leaves the lock, to a place where it is not held.
LEMMA LockedElsewhere ==
  ASSUME Locked, Going, NEW t \in Threads, lock # t, NEW p, p \notin {"inside", "leaving"},
         pc' = [pc EXCEPT ![t] = p], \A u \in Threads \ {t} : op'[u] = op[u],
         lock' = lock, hit' = hit
  PROVE  Locked'
<1>1. pc'[t] = p /\ \A u \in Threads \ {t} : pc'[u] = pc[u]
  BY DEF Going
<1>2. \A u \in Threads : pc'[u] \in {"inside", "leaving"} <=> lock' = u
  BY <1>1 DEF Locked
<1>3. \A u \in Threads : hit'[u] # {} => lock' = u /\ op'[u].kind = "load"
  BY DEF Locked
<1>4. \A u \in Threads : pc'[u] = "leaving" => op'[u].kind = "remove"
  BY <1>1 DEF Locked
<1>5. lock' \in Threads \union {NoThread} /\ hit' \in [Threads -> SUBSET Memory]
  BY DEF Locked
<1> QED BY <1>2, <1>3, <1>4, <1>5 DEF Locked

\* A step that retires nothing without the lock.
LEMMA SameRecord ==
  ASSUME Recorded, Going, NEW t \in Threads, NEW p, p \notin {"ending", "retiring"},
         pc' = [pc EXCEPT ![t] = p], \A u \in Threads \ {t} : op'[u] = op[u],
         unlocked' = unlocked, isActive' \in Nat
  PROVE  Recorded'
BY DEF Recorded, Going

LEMMA InitPlaced == Init => Placed
<1> SUFFICES ASSUME Init PROVE Placed
  OBVIOUS
<1>1. Idle \in Ops /\ Idle.kind = "none" /\ "idle" \in Places
  BY DEF Ops, Places, Idle
<1>2. \A t, u \in Threads : Compatible(op[t], op[u])
  BY <1>1, QuietCompatible DEF Init
<1>3. Going
  BY <1>1, <1>2 DEF Init, Going
<1>4. Locked
  BY ThreadsAssumption DEF Init, Locked
<1>5. Recorded
  BY DEF Init, Recorded
<1> QED BY <1>3, <1>4, <1>5 DEF Placed

LEMMA BeginPlaced ==
  ASSUME Placed, NEW t \in Threads, NEW o \in Loads \union Stores \union Markers, Begin(t, o)
  PROVE  Placed'
<1> USE DEF Placed
<1> DEFINE p == IF IsAccess(o) /\ ~HasActiveBuffer(t) THEN "unhandled" ELSE "waiting"
<1>1. p \in Places /\ p # "idle" /\ p # "ending" /\ p \notin {"ending", "retiring"}
      /\ p \notin {"inside", "leaving"}
  BY DEF Places
<1>2. /\ pc' = [pc EXCEPT ![t] = p] /\ op' = [op EXCEPT ![t] = o]
      /\ \A u \in Threads \ {t} : Compatible(o, op[u])
      /\ pc[t] = "idle" /\ lock' = lock /\ hit' = hit /\ seen' = seen
      /\ isActive' = isActive /\ unlocked' = unlocked
  BY DEF Begin, Goto, buffer, handlers, histories
<1>3. o \in Ops /\ o # Idle
  <2>1. o.kind # "none"
    BY DEF Loads, Stores, Markers
  <2> QED BY <2>1 DEF Ops, Idle
<1> HIDE DEF p
<1>4. seen[t] \in Nat /\ seen' = [seen EXCEPT ![t] = seen[t]] /\ ~(seen[t] >= 1) /\ lock # t
  BY <1>2 DEF Going, Locked
<1>5. Going'
  BY <1>1, <1>2, <1>3, <1>4, Moved
<1>6. \A u \in Threads \ {t} : op'[u] = op[u]
  BY <1>2 DEF Going
<1>7. Locked'
  BY <1>1, <1>2, <1>4, <1>6, LockedElsewhere
<1>8. Recorded'
  BY <1>1, <1>2, <1>6, SameRecord DEF Recorded
<1> QED BY <1>5, <1>7, <1>8

LEMMA MissPlaced ==
  ASSUME Placed, NEW t \in Threads, Miss(t)
  PROVE  Placed'
<1> USE DEF Placed
<1>1. /\ pc' = [pc EXCEPT ![t] = "unhandled"] /\ op' = op /\ hit' = hit /\ seen' = seen
      /\ pc[t] = "waiting" /\ lock = NoThread /\ lock' = NoThread
      /\ isActive' = isActive /\ unlocked' = unlocked
  BY DEF Miss, Goto, LockFree, HolderAfterMiss, buffer, handlers, histories
<1>2. op[t] # Idle /\ lock # t
  BY <1>1, ThreadsAssumption DEF Going
<1>3. Going'
  BY <1>1, <1>2, MovedOn
<1>4. Locked'
  BY <1>1, <1>2, LockedElsewhere
<1>5. Recorded'
  BY <1>1, SameRecord DEF Recorded
<1> QED BY <1>3, <1>4, <1>5

\* What entering the handler of a load does: a read in two halves, of which
\* the faults of the read are the second.
LoadEntered(t, wh, rh) ==
  LET acc   == op[t].acc
      after == AfterRead(Buffer, ReversedBy(acc), AppliedBy(acc), KeysOf(acc), wh, rh)
  IN  /\ wh \subseteq SpanOf(AppliedBy(acc)) /\ rh \subseteq SpanOf(KeysOf(acc))
      /\ hit' = [hit EXCEPT ![t] = rh]
      /\ injecting' = [injecting EXCEPT ![t] = wh]
      /\ memory' = InjectFault(ReverseFaultyRead(memory, remainingReads, ReversedBy(acc)), wh, "write")
      /\ InjectFault(memory', rh, "read") = after.memory
      /\ remainingReads' = after.reads
      /\ pendingWrites' = after.writes

LEMMA EnterLoadEnters ==
  ASSUME NEW t \in Threads, EnterLoad(t)
  PROVE  \E wh, rh : LoadEntered(t, wh, rh)
<1> DEFINE acc == op[t].acc
           restored == ReverseFaultyRead(memory, remainingReads, ReversedBy(acc))
<1>0. PICK inject \in ShouldInject(t), wh \in SUBSET SpanOf(AppliedBy(acc)) :
        \E rh \in ReadHits(inject, KeysOf(acc)) :
          /\ Become([AfterRead(Buffer, ReversedBy(acc), AppliedBy(acc), KeysOf(acc), wh, rh)
                     EXCEPT !.memory = InjectFault(restored, wh, "write")])
          /\ hit' = [hit EXCEPT ![t] = rh]
          /\ injecting' = [injecting EXCEPT ![t] = wh]
  BY DEF EnterLoad
<1>1. PICK rh \in ReadHits(inject, KeysOf(acc)) :
        /\ Become([AfterRead(Buffer, ReversedBy(acc), AppliedBy(acc), KeysOf(acc), wh, rh)
                   EXCEPT !.memory = InjectFault(restored, wh, "write")])
        /\ hit' = [hit EXCEPT ![t] = rh]
        /\ injecting' = [injecting EXCEPT ![t] = wh]
  BY <1>0
<1> DEFINE after == AfterRead(Buffer, ReversedBy(acc), AppliedBy(acc), KeysOf(acc), wh, rh)
           settled == InjectFault(restored, wh, "write")
<1>2. rh \subseteq SpanOf(KeysOf(acc))
  BY ReadHitsInSpans
<1>3. after.memory = InjectFault(settled, rh, "read")
  BY DEF AfterRead, Buffer
<1>4. /\ [after EXCEPT !.memory = settled].memory = settled
      /\ [after EXCEPT !.memory = settled].reads = after.reads
      /\ [after EXCEPT !.memory = settled].writes = after.writes
  BY DEF AfterRead
<1>5. memory' = settled /\ remainingReads' = after.reads /\ pendingWrites' = after.writes
  BY <1>1, <1>4 DEF Become
<1>6. LoadEntered(t, wh, rh)
  BY <1>1, <1>2, <1>3, <1>5 DEF LoadEntered
<1> QED BY <1>6

LEMMA AccessOf ==
  ASSUME Going, NEW t \in Threads, op[t].kind \in {"load", "store"}
  PROVE  op[t].acc \in Accesses
<1>1. op[t] \in Ops
  BY DEF Going
<1>2. IsAccess(op[t])
  BY DEF IsAccess
<1> QED BY <1>1, <1>2, OpShape

\* Retirement keeps the count a number and lowers it.
LEMMA RetiredCount ==
  ASSUME isActive \in Nat, NEW t, RetireBuffer(t)
  PROVE  isActive' \in Nat /\ isActive' = Left(isActive)
BY DEF RetireBuffer, Left

\* What entering does to the places of the threads, and to the count.
LEMMA EnterPlaced ==
  ASSUME Placed, NEW t \in Threads, Enter(t)
  PROVE  Placed'
<1> USE DEF Placed
<1>1. /\ pc' = [pc EXCEPT ![t] = "inside"] /\ op' = op /\ seen' = seen /\ unlocked' = unlocked
      /\ pc[t] = "waiting" /\ lock = NoThread /\ lock' = t
  BY DEF Enter, Goto, LockFree, histories
<1>2. op[t] # Idle
  BY <1>1 DEF Going
<1>3. Going'
  BY <1>1, <1>2, MovedOn
<1>4. \A u \in Threads : pc'[u] \in {"inside", "leaving"} <=> lock' = u
  BY <1>1, ThreadsAssumption DEF Going, Locked
<1>5. \A u \in Threads : hit[u] = {}
  BY <1>1, ThreadsAssumption DEF Locked
<1>6. isActive' \in Nat
  <2>1. CASE EnterLoad(t) \/ EnterStore(t)
    BY <2>1 DEF EnterLoad, EnterStore, Recorded
  <2>2. CASE EnterAdd(t)
    BY <2>2 DEF EnterAdd, ReactivateUnless, Recorded
  <2>3. CASE EnterRemove(t)
    <3>1. RetireBuffer(t) \/ isActive' = isActive
      BY <2>3 DEF EnterRemove, buffer
    <3> QED BY <3>1, RetiredCount DEF Recorded
  <2> QED BY <2>1, <2>2, <2>3 DEF Enter
<1>7. \/ hit' = hit
      \/ op[t].kind = "load" /\ \E rh \in SUBSET Memory : hit' = [hit EXCEPT ![t] = rh]
  <2>1. CASE EnterLoad(t)
    <3>1. PICK wh, rh : LoadEntered(t, wh, rh)
      BY <2>1, EnterLoadEnters
    <3>2. rh \subseteq SpanOf(KeysOf(op[t].acc)) /\ hit' = [hit EXCEPT ![t] = rh]
      BY <3>1 DEF LoadEntered
    <3>3. op[t].kind = "load"
      BY <2>1 DEF EnterLoad
    <3>4. op[t].acc \in Accesses
      BY <3>3, AccessOf
    <3>5. SpanOf(KeysOf(op[t].acc)) \subseteq Memory
      BY <3>4, AccessesAssumption
    <3> QED BY <3>2, <3>3, <3>5
  <2>2. CASE EnterStore(t) \/ EnterAdd(t) \/ EnterRemove(t)
    BY <2>2 DEF EnterStore, EnterAdd, EnterRemove, handlers
  <2> QED BY <2>1, <2>2 DEF Enter
<1>8. hit' \in [Threads -> SUBSET Memory]
  BY <1>7 DEF Locked
<1>9. \A u \in Threads : hit'[u] # {} => lock' = u /\ op'[u].kind = "load"
  BY <1>1, <1>5, <1>7 DEF Locked
<1>10. \A u \in Threads : pc'[u] = "leaving" => op'[u].kind = "remove"
  BY <1>1 DEF Going, Locked
<1>11. Locked'
  BY <1>1, <1>4, <1>8, <1>9, <1>10 DEF Locked
<1>12. Recorded'
  BY <1>1, <1>6, SameRecord
<1> QED BY <1>3, <1>11, <1>12

LEMMA RetireMainPlaced ==
  ASSUME Placed, NEW t \in Threads, RetireMain(t)
  PROVE  Placed'
<1> USE DEF Placed
<1>1. /\ pc' = [pc EXCEPT ![t] = "leaving"] /\ op' = op /\ seen' = seen /\ unlocked' = unlocked
      /\ pc[t] = "inside" /\ op[t].kind = "remove" /\ lock' = lock /\ hit' = hit
  BY DEF RetireMain, Goto, histories
<1>2. op[t] # Idle
  BY <1>1 DEF Idle
<1>3. Going'
  BY <1>1, <1>2, MovedOn
<1>4. \A u \in Threads : pc'[u] \in {"inside", "leaving"} <=> lock' = u
  BY <1>1 DEF Going, Locked
<1>5. \A u \in Threads : pc'[u] = "leaving" => op'[u].kind = "remove"
  BY <1>1 DEF Going, Locked
<1>6. Locked'
  BY <1>1, <1>4, <1>5 DEF Locked
<1>7. RetireBuffer(t) \/ isActive' = isActive
  BY DEF RetireMain
<1>8. isActive' \in Nat
  BY <1>7, RetiredCount DEF Recorded
<1>9. Recorded'
  BY <1>1, <1>8, SameRecord
<1> QED BY <1>3, <1>6, <1>9

LEMMA LeavePlaced ==
  ASSUME Placed, NEW t \in Threads, Leave(t)
  PROVE  Placed'
<1> USE DEF Placed
<1>1. PICK place \in {"idle", "handled"} : Done(t, place)
  BY DEF Leave, LeaveLoad, LeaveStore, LeaveAdd, LeaveRemove
<1>2. /\ pc' = [pc EXCEPT ![t] = place] /\ lock' = NoThread /\ pc[t] \in {"inside", "leaving"}
      /\ hit' = [hit EXCEPT ![t] = {}] /\ seen' = seen /\ unlocked' = unlocked
  BY <1>1 DEF Done, Goto, Leave, LeaveLoad, LeaveStore, LeaveAdd, LeaveRemove, histories
<1>3. op[t] # Idle /\ lock = t /\ pc[t] # "ending"
  BY <1>2 DEF Going, Locked
<1>4. Going'
  <2>1. CASE place = "idle"
    <3>1. op' = [op EXCEPT ![t] = Idle] /\ pc' = [pc EXCEPT ![t] = "idle"]
      BY <1>1, <1>2, <2>1 DEF Done
    <3> QED BY <1>2, <1>3, <3>1, MovedOff
  <2>2. CASE place = "handled"
    <3>1. op' = op /\ pc' = [pc EXCEPT ![t] = "handled"]
      BY <1>1, <1>2, <2>2 DEF Done
    <3> QED BY <1>2, <1>3, <3>1, MovedOn
  <2> QED BY <2>1, <2>2
<1>5. \A u \in Threads : pc'[u] \notin {"inside", "leaving"} /\ lock' # u
  BY <1>2, <1>3, ThreadsAssumption DEF Going, Locked
<1>6. hit' \in [Threads -> SUBSET Memory] /\ \A u \in Threads : hit'[u] = {}
  BY <1>2, <1>3 DEF Locked
<1>7. Locked'
  BY <1>2, <1>5, <1>6 DEF Locked
<1>8. isActive' = isActive \/ isActive' = isActive + 1
  BY DEF Leave, LeaveLoad, LeaveStore, LeaveAdd, LeaveRemove, ReactivateUnless, buffer
<1>9. Recorded'
  <2>1. \A u \in Threads \ {t} : op'[u] = op[u]
    BY <1>1 DEF Done, Going
  <2> QED BY <1>1, <1>2, <1>8, <2>1, SameRecord DEF Recorded
<1> QED BY <1>4, <1>7, <1>9

LEMMA ExecutePlaced ==
  ASSUME Placed, NEW t \in Threads, Execute(t)
  PROVE  Placed'
<1> USE DEF Placed
<1>1. /\ pc' = [pc EXCEPT ![t] = "idle"] /\ op' = [op EXCEPT ![t] = Idle] /\ seen' = seen
      /\ pc[t] \in {"unhandled", "handled"} /\ lock' = lock /\ hit' = hit
      /\ isActive' = isActive /\ unlocked' = unlocked
  BY DEF Execute, Goto, handlers
<1>2. lock # t /\ pc[t] # "ending" /\ \A u \in Threads \ {t} : op'[u] = op[u]
  BY <1>1 DEF Going, Locked
<1>3. Going'
  BY <1>1, <1>2, MovedOff
<1>4. Locked'
  BY <1>1, <1>2, LockedElsewhere
<1>5. Recorded'
  BY <1>1, <1>2, SameRecord DEF Recorded
<1> QED BY <1>3, <1>4, <1>5

LEMMA ThreadFiniLoadPlaced ==
  ASSUME Placed, NEW t \in Threads, ThreadFiniLoad(t)
  PROVE  Placed'
<1> USE DEF Placed
<1>1. lock' = lock /\ hit' = hit /\ isActive' = isActive /\ unlocked' = unlocked /\ pc[t] = "idle"
  BY DEF ThreadFiniLoad, buffer, handlers, histories
<1>2. CASE isActive = 0
  <2>1. pc' = pc /\ op' = op /\ seen' = seen
    BY <1>2 DEF ThreadFiniLoad
  <2> QED BY <1>1, <2>1 DEF Going, Locked, Recorded
<1>3. CASE isActive # 0
  <2>1. /\ pc' = [pc EXCEPT ![t] = "ending"] /\ op' = [op EXCEPT ![t] = End]
        /\ seen' = [seen EXCEPT ![t] = isActive]
    BY <1>3 DEF ThreadFiniLoad, Goto
  <2>2. End \in Ops /\ "ending" \in Places /\ End # Idle /\ End.kind = "end"
    BY DEF Ops, Places, End, Idle
  <2>3. \A u \in Threads \ {t} : Compatible(End, op[u])
    BY <2>2, QuietCompatible
  <2>4. isActive \in Nat /\ isActive >= 1
    BY <1>3 DEF Recorded
  <2>5. Going'
    BY <2>1, <2>2, <2>3, <2>4, Moved
  <2>6. lock # t /\ \A u \in Threads \ {t} : op'[u] = op[u]
    BY <1>1, <2>1 DEF Going, Locked
  <2>7. Locked'
    BY <1>1, <2>1, <2>6, LockedElsewhere
  <2>8. Recorded'
    BY <1>1, <2>1, <2>4 DEF Recorded, Going
  <2> QED BY <2>5, <2>7, <2>8
<1> QED BY <1>2, <1>3

LEMMA ThreadFiniStorePlaced ==
  ASSUME Placed, NEW t \in Threads, ThreadFiniStore(t)
  PROVE  Placed'
<1> USE DEF Placed
<1>1. lock' = lock /\ hit' = hit /\ seen' = [seen EXCEPT ![t] = 0] /\ pc[t] = "ending"
      /\ (isActive' = seen[t] - 1 \/ isActive' = isActive)
  BY DEF ThreadFiniStore, handlers
<1>2. /\ op[t] # Idle /\ lock # t /\ seen[t] \in Nat /\ seen[t] >= 1 /\ isActive' \in Nat
      /\ op[t] \in Ops
  <2>1. op[t] # Idle /\ lock # t /\ seen[t] \in Nat /\ seen[t] >= 1 /\ op[t] \in Ops
    BY <1>1 DEF Going, Locked
  <2> QED BY <1>1, <2>1 DEF Recorded
<1>3. CASE seen[t] = 1
  <2>1. pc' = [pc EXCEPT ![t] = "retiring"] /\ op' = op /\ unlocked' = TRUE
    BY <1>3 DEF ThreadFiniStore, Goto
  <2>2. op' = [op EXCEPT ![t] = op[t]] /\ "retiring" \in Places /\ 0 \in Nat /\ ~(0 >= 1)
        /\ \A u \in Threads \ {t} : Compatible(op[t], op[u])
    BY <2>1 DEF Going, Places
  <2>3. Going'
    BY <1>1, <1>2, <2>1, <2>2, Moved
  <2>4. Locked'
    BY <1>1, <1>2, <2>1, LockedElsewhere
  <2>5. Recorded'
    BY <1>1, <1>2, <2>1 DEF Recorded, Going
  <2> QED BY <2>3, <2>4, <2>5
<1>4. CASE seen[t] # 1
  <2>1. /\ pc' = [pc EXCEPT ![t] = "idle"] /\ op' = [op EXCEPT ![t] = Idle]
        /\ unlocked' = unlocked
    BY <1>4 DEF ThreadFiniStore, Goto
  <2>2. Going'
    BY <1>1, <2>1, MovedOff
  <2>3. \A u \in Threads \ {t} : op'[u] = op[u]
    BY <2>1 DEF Going
  <2>4. Locked'
    BY <1>1, <1>2, <2>1, <2>3, LockedElsewhere
  <2>5. Recorded'
    BY <1>2, <2>1, <2>3, SameRecord
  <2> QED BY <2>2, <2>4, <2>5
<1> QED BY <1>3, <1>4

LEMMA ThreadFiniRetirePlaced ==
  ASSUME Placed, NEW t \in Threads, ThreadFiniRetire(t)
  PROVE  Placed'
<1> USE DEF Placed
<1>1. /\ pc' = [pc EXCEPT ![t] = "idle"] /\ op' = [op EXCEPT ![t] = Idle] /\ seen' = seen
      /\ pc[t] = "retiring" /\ lock' = lock /\ hit' = hit
      /\ isActive' = isActive /\ unlocked' = unlocked
  BY DEF ThreadFiniRetire, Goto, handlers, histories
<1>2. lock # t /\ pc[t] # "ending" /\ \A u \in Threads \ {t} : op'[u] = op[u]
  BY <1>1 DEF Going, Locked
<1>3. Going'
  BY <1>1, <1>2, MovedOff
<1>4. Locked'
  BY <1>1, <1>2, LockedElsewhere
<1>5. Recorded'
  BY <1>1, <1>2, SameRecord DEF Recorded
<1> QED BY <1>3, <1>4, <1>5

LEMMA NextPlaced == Placed /\ [Next]_vars => Placed'
<1> SUFFICES ASSUME Placed, [Next]_vars PROVE Placed'
  OBVIOUS
<1>1. ASSUME UNCHANGED vars PROVE Placed'
  BY <1>1 DEF vars, buffer, handlers, histories, Placed, Going, Locked, Recorded
<1> QED BY <1>1, BeginPlaced, MissPlaced, EnterPlaced, RetireMainPlaced, LeavePlaced, ExecutePlaced,
           ThreadFiniLoadPlaced, ThreadFiniStorePlaced, ThreadFiniRetirePlaced DEF Next
-----------------------------------------------------------------------------
(***************************************************************************)
(* Where the buffer is registered, and what it holds.  Until a thread that *)
(* ended has been its last user, the count of users is zero only while the *)
(* buffer is in no map, or being removed by the thread that has the lock:  *)
(* a handler that finds it runs on one in use.                             *)
(***************************************************************************)
Empty == DOMAIN remainingReads = {} /\ pendingWrites = {}

Typed ==
  /\ IsBuffer(Buffer)
  /\ stored \in [Memory -> Values]
  /\ inMain \in BOOLEAN
  /\ inThread \in [Threads -> BOOLEAN]
  /\ injecting \in [Threads -> SUBSET Memory]
  /\ overtaken \subseteq Memory

Registered ==
  ~unlocked =>
    /\ ~inMain => Empty
    /\ isActive = 0 => Empty
    /\ lock \in Threads /\ op[lock].kind # "remove" => inMain
    /\ inMain /\ isActive = 0 => lock \in Threads /\ op[lock].kind = "remove" /\ pc[lock] = "inside"

LEMMA TypedMaps ==
  ASSUME Typed
  PROVE  /\ memory \in [Memory -> Byte] /\ IsReads(remainingReads) /\ pendingWrites \subseteq Keys
         /\ Buffer.memory = memory /\ Buffer.reads = remainingReads /\ Buffer.writes = pendingWrites
         /\ IsBuffer(Buffer)
BY DEF Typed, IsBuffer, Buffer

LEMMA BufferMaps ==
  ASSUME memory' \in [Memory -> Byte], IsReads(remainingReads'), pendingWrites' \subseteq Keys
  PROVE  IsBuffer(Buffer')
<1>1. Buffer'.memory = memory' /\ Buffer'.reads = remainingReads' /\ Buffer'.writes = pendingWrites'
  BY DEF Buffer
<1> QED BY <1>1 DEF IsBuffer

\* What is hit lies in the buffer.
LEMMA SpansInMemory ==
  ASSUME NEW K, K \subseteq Keys, NEW h, h \subseteq SpanOf(K)
  PROVE  h \subseteq Memory
BY DEF SpanOf, Keys

\* The last retirement empties the maps.
LEMMA SettleKeeps ==
  ASSUME Typed, NEW t \in Threads, Settle(t)
  PROVE  IsBuffer(Buffer') /\ injecting' \in [Threads -> SUBSET Memory] /\ Empty'
<1>1. PICK wh \in SUBSET SpanOf(pendingWrites) :
        /\ Become(AfterRead(Buffer, DOMAIN remainingReads, pendingWrites, {}, wh, {}))
        /\ injecting' = [injecting EXCEPT ![t] = wh]
  BY DEF Settle
<1> DEFINE s == AfterRead(Buffer, DOMAIN remainingReads, pendingWrites, {}, wh, {})
<1>2. IsRead(s, Buffer, DOMAIN remainingReads, pendingWrites, {})
  BY TypedMaps, AfterReadType
<1>3. Become(s)
  BY <1>1
<1> HIDE DEF s
<1>4. IsBuffer(s) /\ DOMAIN s.reads = {} /\ s.writes = {}
  BY <1>2, TypedMaps DEF IsRead
<1>5. /\ memory' \in [Memory -> Byte] /\ IsReads(remainingReads') /\ pendingWrites' \subseteq Keys
  BY <1>3, <1>4, BecomeBuffer
<1>6. Empty'
  BY <1>3, <1>4 DEF Become, Empty
<1>7. wh \subseteq Memory
  BY TypedMaps, SpansInMemory
<1> QED BY <1>1, <1>5, <1>6, <1>7, BufferMaps DEF Typed

LEMMA KeepKeeps ==
  ASSUME Typed, NEW t \in Threads, KeepBuffer(t)
  PROVE  IsBuffer(Buffer') /\ injecting' \in [Threads -> SUBSET Memory] /\ (Empty => Empty')
<1>1. UNCHANGED <<memory, remainingReads, pendingWrites>> /\ injecting' = [injecting EXCEPT ![t] = {}]
  BY DEF KeepBuffer
<1>2. IsBuffer(Buffer')
  BY <1>1, TypedMaps, BufferMaps
<1> QED BY <1>1, <1>2 DEF Typed, Empty

LEMMA RetireKeeps ==
  ASSUME Typed, isActive \in Nat, NEW t \in Threads, RetireBuffer(t)
  PROVE  /\ IsBuffer(Buffer') /\ injecting' \in [Threads -> SUBSET Memory]
         /\ isActive' = 0 /\ isActive # 0 => Empty'
         /\ Empty => Empty'
         /\ isActive = 0 => isActive' = 0
<1>1. CASE isActive = 1
  BY <1>1, SettleKeeps DEF RetireBuffer
<1>2. CASE isActive # 1
  <2>1. KeepBuffer(t) /\ isActive' = Left(isActive)
    BY <1>2 DEF RetireBuffer
  <2> QED BY <1>2, <2>1, KeepKeeps DEF Left
<1> QED BY <1>1, <1>2

\* A step that leaves the buffer and its registration alone.
LEMMA SameRegistered ==
  ASSUME Typed, Registered, UNCHANGED <<memory, remainingReads, pendingWrites, isActive>>,
         UNCHANGED <<stored, inMain, inThread, injecting, overtaken, unlocked, lock>>,
         lock \in Threads => op'[lock] = op[lock] /\ pc'[lock] = pc[lock]
  PROVE  Typed' /\ Registered'
<1>1. IsBuffer(Buffer')
  BY TypedMaps, BufferMaps
<1>2. Typed'
  BY <1>1 DEF Typed
<1>3. Registered'
  BY DEF Registered, Empty
<1> QED BY <1>2, <1>3

LEMMA InitRegistered == Init => Typed /\ Registered
<1> SUFFICES ASSUME Init PROVE Typed /\ Registered
  OBVIOUS
<1>1. InitialValue \in Values
  BY ValuesAssumption DEF InitialValue
<1>2. memory \in [Memory -> Byte] /\ stored \in [Memory -> Values]
  BY <1>1 DEF Init, Clean, Byte, FaultKinds
<1>3. IsReads(remainingReads) /\ DOMAIN remainingReads = {} /\ pendingWrites = {}
  BY DEF Init, IsReads, NoReads
<1>4. IsBuffer(Buffer)
  BY <1>2, <1>3 DEF IsBuffer, Buffer
<1>5. Typed
  BY <1>2, <1>4 DEF Typed, Init
<1>6. Registered
  BY <1>3, ThreadsAssumption DEF Init, Registered, Empty
<1> QED BY <1>5, <1>6

LEMMA BeginRegistered ==
  ASSUME Placed, Typed, Registered, NEW t \in Threads,
         NEW o \in Loads \union Stores \union Markers, Begin(t, o)
  PROVE  Typed' /\ Registered'
<1>1. /\ UNCHANGED <<memory, remainingReads, pendingWrites, isActive>>
      /\ UNCHANGED <<stored, inMain, inThread, injecting, overtaken, unlocked, lock>>
      /\ pc[t] = "idle"
  BY DEF Begin, buffer, handlers, histories
<1>2. lock # t
  BY <1>1 DEF Placed, Locked
<1>3. lock \in Threads => op'[lock] = op[lock] /\ pc'[lock] = pc[lock]
  BY <1>2 DEF Begin, Goto, Placed, Going
<1> QED BY <1>1, <1>3, SameRegistered

LEMMA MissRegistered ==
  ASSUME Placed, Typed, Registered, NEW t \in Threads, Miss(t)
  PROVE  Typed' /\ Registered'
<1>1. /\ UNCHANGED <<memory, remainingReads, pendingWrites, isActive>>
      /\ UNCHANGED <<stored, inMain, inThread, injecting, overtaken, unlocked, lock>>
      /\ lock = NoThread
  BY DEF Miss, buffer, handlers, histories, LockFree, HolderAfterMiss
<1> QED BY <1>1, ThreadsAssumption, SameRegistered

LEMMA EnterRegistered ==
  ASSUME Placed, Typed, Registered, NEW t \in Threads, Enter(t)
  PROVE  Typed' /\ Registered'
<1>1. /\ lock = NoThread /\ lock' = t /\ op' = op /\ pc'[t] = "inside"
      /\ UNCHANGED <<stored, overtaken, unlocked>>
  BY DEF Enter, LockFree, Goto, histories, Placed, Going
<1>2. ~unlocked /\ inMain => isActive # 0
  BY <1>1, ThreadsAssumption DEF Registered
<1>3. isActive \in Nat
  BY DEF Placed, Recorded
<1>4. CASE EnterLoad(t)
  <2>1. op[t].kind = "load" /\ inMain /\ UNCHANGED <<isActive, inMain, inThread>>
    BY <1>4 DEF EnterLoad, Found
  <2>2. Registered'
    BY <1>1, <1>2, <2>1 DEF Registered
  <2>3. PICK wh, rh : LoadEntered(t, wh, rh)
    BY <1>4, EnterLoadEnters
  <2> DEFINE acc == op[t].acc
             after == AfterRead(Buffer, ReversedBy(acc), AppliedBy(acc), KeysOf(acc), wh, rh)
             restored == ReverseFaultyRead(memory, remainingReads, ReversedBy(acc))
  <2>4. KeysOf(acc) \subseteq Keys /\ ReversedBy(acc) \subseteq DOMAIN remainingReads
        /\ AppliedBy(acc) \subseteq Keys
    <3>1. acc \in Accesses
      BY <2>1, AccessOf DEF Placed
    <3>2. AppliedBy(acc) \subseteq pendingWrites /\ pendingWrites \subseteq Keys
      BY AppliedSubset, TypedMaps
    <3> QED BY <3>1, <3>2, KeysOfAccess DEF ReversedBy
  <2>5. IsRead(after, Buffer, ReversedBy(acc), AppliedBy(acc), KeysOf(acc))
    BY <2>4, TypedMaps, AfterReadType
  <2>6. restored \in [Memory -> Byte]
    BY <2>4, TypedMaps, ReverseFaultyReadType
  <2> HIDE DEF after, restored
  <2>7. /\ memory' = InjectFault(restored, wh, "write")
        /\ remainingReads' = after.reads /\ pendingWrites' = after.writes
        /\ injecting' = [injecting EXCEPT ![t] = wh] /\ wh \subseteq SpanOf(AppliedBy(acc))
    BY <2>3 DEF LoadEntered, after, restored
  <2>8. memory' \in [Memory -> Byte]
    <3> "write" \in FaultKinds
      BY DEF FaultKinds
    <3> QED BY <2>6, <2>7, InjectFaultType
  <2>9. IsReads(remainingReads') /\ pendingWrites' \subseteq Keys
    BY <2>5, <2>7 DEF IsRead, IsBuffer
  <2>10. IsBuffer(Buffer')
    BY <2>8, <2>9, BufferMaps
  <2>11. wh \subseteq Memory
    BY <2>4, <2>7, SpansInMemory
  <2>12. Typed'
    BY <1>1, <2>1, <2>7, <2>10, <2>11 DEF Typed
  <2> QED BY <2>2, <2>12
<1>5. CASE EnterStore(t)
  <2>1. /\ op[t].kind = "store" /\ inMain /\ UNCHANGED <<isActive, inMain, inThread, injecting>>
        /\ remainingReads' = Drop(remainingReads, ReversedBy(op[t].acc))
        /\ memory' = memory /\ pendingWrites' = pendingWrites
    BY <1>5 DEF EnterStore, Found, handlers
  <2>2. Registered'
    BY <1>1, <1>2, <2>1 DEF Registered
  <2>3. IsReads(remainingReads')
    BY <2>1, TypedMaps, DropReads
  <2>4. IsBuffer(Buffer')
    BY <2>1, <2>3, TypedMaps, BufferMaps
  <2>5. Typed'
    BY <1>1, <2>1, <2>4 DEF Typed
  <2> QED BY <2>2, <2>5
<1>6. CASE EnterAdd(t)
  <2>1. /\ op[t].kind = "add" /\ inMain' = TRUE /\ UNCHANGED <<inThread, injecting>>
        /\ UNCHANGED <<memory, remainingReads, pendingWrites>>
        /\ isActive' = IF inMain THEN isActive ELSE isActive + 1
    BY <1>6 DEF EnterAdd, ReactivateUnless, handlers
  <2>2. IsBuffer(Buffer')
    BY <2>1, TypedMaps, BufferMaps
  <2>3. Typed'
    BY <1>1, <2>1, <2>2 DEF Typed
  <2>4. ~unlocked => isActive' # 0
    BY <1>2, <1>3, <2>1
  <2>5. Registered'
    BY <1>1, <2>1, <2>4 DEF Registered
  <2> QED BY <2>3, <2>5
<1>7. CASE EnterRemove(t)
  <2>1. op[t].kind = "remove" /\ inMain' = inMain /\ inThread' = [inThread EXCEPT ![t] = FALSE]
    BY <1>7 DEF EnterRemove
  <2>2. /\ IsBuffer(Buffer') /\ injecting' \in [Threads -> SUBSET Memory]
        /\ isActive' = 0 /\ isActive # 0 => Empty'
        /\ Empty => Empty'
    <3>1. CASE inThread[t]
      BY <1>3, <1>7, <3>1, RetireKeeps DEF EnterRemove
    <3>2. CASE ~inThread[t]
      <4>1. UNCHANGED <<memory, remainingReads, pendingWrites, isActive, injecting>>
        BY <1>7, <3>2 DEF EnterRemove, buffer
      <4>2. IsBuffer(Buffer')
        BY <4>1, TypedMaps, BufferMaps
      <4> QED BY <4>1, <4>2 DEF Typed, Empty
    <3> QED BY <3>1, <3>2
  <2>3. Typed'
    BY <1>1, <2>1, <2>2 DEF Typed
  <2>4. Registered'
    BY <1>1, <2>1, <2>2 DEF Registered
  <2> QED BY <2>3, <2>4
<1> QED BY <1>4, <1>5, <1>6, <1>7 DEF Enter

LEMMA RetireMainRegistered ==
  ASSUME Placed, Typed, Registered, NEW t \in Threads, RetireMain(t)
  PROVE  Typed' /\ Registered'
<1>1. /\ pc[t] = "inside" /\ op[t].kind = "remove" /\ inMain' = (inMain /\ isActive' # 0)
      /\ UNCHANGED <<inThread, lock, op, stored, overtaken, unlocked>>
  BY DEF RetireMain, histories
<1>2. lock = t /\ isActive \in Nat
  BY <1>1 DEF Placed, Locked, Recorded
<1>3. /\ IsBuffer(Buffer') /\ injecting' \in [Threads -> SUBSET Memory]
      /\ isActive' = 0 /\ isActive # 0 => Empty'
      /\ Empty => Empty'
  <2>1. CASE inMain
    BY <1>2, <2>1, RetireKeeps DEF RetireMain
  <2>2. CASE ~inMain
    BY <1>2, <2>2, KeepKeeps DEF RetireMain
  <2> QED BY <2>1, <2>2
<1>4. Typed'
  BY <1>1, <1>3 DEF Typed
<1>5. Registered'
  BY <1>1, <1>2, <1>3 DEF Registered
<1> QED BY <1>4, <1>5

LEMMA LeaveRegistered ==
  ASSUME Placed, Typed, Registered, NEW t \in Threads, Leave(t)
  PROVE  Typed' /\ Registered'
<1>1. lock = t /\ UNCHANGED <<stored, overtaken, unlocked>>
  BY DEF Leave, LeaveLoad, LeaveStore, LeaveAdd, LeaveRemove, histories, Placed, Locked
<1>2. lock' = NoThread /\ injecting' = [injecting EXCEPT ![t] = {}]
  BY DEF Leave, LeaveLoad, LeaveStore, LeaveAdd, LeaveRemove, Done
<1>3. isActive \in Nat
  BY DEF Placed, Recorded
<1>4. ~unlocked /\ op[t].kind # "remove" => inMain /\ isActive # 0
  BY <1>1 DEF Registered
<1>5. injecting' \in [Threads -> SUBSET Memory]
  BY <1>2 DEF Typed
<1>6. ASSUME op[t].kind # "remove", inMain' = inMain, isActive' = isActive \/ isActive' = isActive + 1
      PROVE  Registered'
  BY <1>1, <1>2, <1>3, <1>4, <1>6, ThreadsAssumption DEF Registered
<1>7. CASE LeaveLoad(t)
  <2>1. /\ op[t].kind = "load" /\ memory' = InjectFault(memory, hit[t], "read")
        /\ UNCHANGED <<remainingReads, pendingWrites, isActive, inMain, inThread>>
    BY <1>7 DEF LeaveLoad
  <2>2. memory' \in [Memory -> Byte]
    <3> "read" \in FaultKinds
      BY DEF FaultKinds
    <3> QED BY <2>1, TypedMaps, InjectFaultType
  <2>3. IsBuffer(Buffer')
    BY <2>1, <2>2, TypedMaps, BufferMaps
  <2>4. Typed'
    BY <1>1, <1>5, <2>1, <2>3 DEF Typed
  <2>5. op[t].kind # "remove"
    BY <2>1
  <2> QED BY <1>6, <2>1, <2>4, <2>5
<1>8. CASE LeaveStore(t)
  <2>1. /\ op[t].kind = "store" /\ UNCHANGED <<memory, remainingReads, isActive, inMain, inThread>>
        /\ \/ pendingWrites' = pendingWrites
           \/ pendingWrites' = pendingWrites \union KeysOf(op[t].acc)
    BY <1>8 DEF LeaveStore
  <2>2. KeysOf(op[t].acc) \subseteq Keys
    BY <2>1, AccessOf, KeysOfAccess DEF Placed
  <2>3. IsBuffer(Buffer')
    BY <2>1, <2>2, TypedMaps, BufferMaps
  <2>4. Typed'
    BY <1>1, <1>5, <2>1, <2>3 DEF Typed
  <2>5. op[t].kind # "remove"
    BY <2>1
  <2> QED BY <1>6, <2>1, <2>4, <2>5
<1>9. CASE LeaveAdd(t)
  <2>1. /\ op[t].kind = "add" /\ inMain' = inMain /\ inThread' = [inThread EXCEPT ![t] = TRUE]
        /\ UNCHANGED <<memory, remainingReads, pendingWrites>>
        /\ (isActive' = isActive \/ isActive' = isActive + 1)
    BY <1>9 DEF LeaveAdd, ReactivateUnless
  <2>2. IsBuffer(Buffer')
    BY <2>1, TypedMaps, BufferMaps
  <2>3. Typed'
    BY <1>1, <1>5, <2>1, <2>2 DEF Typed
  <2>4. op[t].kind # "remove"
    BY <2>1
  <2> QED BY <1>6, <2>1, <2>3, <2>4
<1>10. CASE LeaveRemove(t)
  <2>1. /\ pc[t] = "leaving" /\ UNCHANGED <<memory, remainingReads, pendingWrites, isActive>>
        /\ UNCHANGED <<inMain, inThread>>
    BY <1>10 DEF LeaveRemove, buffer
  <2>2. IsBuffer(Buffer')
    BY <2>1, TypedMaps, BufferMaps
  <2>3. Typed'
    BY <1>1, <1>5, <2>1, <2>2 DEF Typed
  <2>4. ~unlocked => ~(inMain /\ isActive = 0)
    BY <1>1, <2>1 DEF Registered
  <2>5. Registered'
    BY <1>1, <1>2, <2>1, <2>4, ThreadsAssumption DEF Registered, Empty
  <2> QED BY <2>3, <2>5
<1> QED BY <1>7, <1>8, <1>9, <1>10 DEF Leave

LEMMA ExecuteRegistered ==
  ASSUME Placed, Typed, Registered, NEW t \in Threads, Execute(t)
  PROVE  Typed' /\ Registered'
<1>1. /\ UNCHANGED <<remainingReads, pendingWrites, isActive, inMain, inThread, lock, unlocked>>
      /\ injecting' = injecting /\ pc[t] \in {"unhandled", "handled"}
      /\ op' = [op EXCEPT ![t] = Idle] /\ pc' = [pc EXCEPT ![t] = "idle"]
  BY DEF Execute, Goto, handlers
<1>2. lock # t
  BY <1>1 DEF Placed, Locked
<1>3. lock \in Threads => op'[lock] = op[lock] /\ pc'[lock] = pc[lock]
  BY <1>1, <1>2 DEF Placed, Going
<1>4. Registered'
  BY <1>1, <1>3 DEF Registered, Empty
<1>5. memory' \in [Memory -> Byte] /\ stored' \in [Memory -> Values] /\ overtaken' \subseteq Memory
  <2>1. memory \in [Memory -> Byte] /\ stored \in [Memory -> Values] /\ overtaken \subseteq Memory
    BY TypedMaps DEF Typed
  <2>2. CASE op[t].kind = "store"
    <3> DEFINE bytes == BytesOf(op[t].acc)
               raced == bytes \intersect UNION {injecting[u] : u \in Threads \ {t}}
    <3>1. /\ \E v \in Values, late \in SUBSET raced :
                /\ memory' = StoreBytes(memory, bytes \ late, v)
                /\ stored' = [b \in Memory |-> IF b \in bytes THEN v ELSE stored[b]]
          /\ overtaken' = (overtaken \ bytes) \union raced
      BY <2>2 DEF Execute
    <3>2. bytes \subseteq Memory
      BY <2>2, AccessOf, KeysOfAccess DEF Placed
    <3> HIDE DEF bytes
    <3>3. overtaken' \subseteq Memory
      BY <2>1, <3>1, <3>2
    <3> HIDE DEF raced
    <3>4. PICK v \in Values, late \in SUBSET raced :
            /\ memory' = StoreBytes(memory, bytes \ late, v)
            /\ stored' = [b \in Memory |-> IF b \in bytes THEN v ELSE stored[b]]
      BY <3>1
    <3>5. memory' \in [Memory -> Byte]
      BY <2>1, <3>4, StoreBytesType
    <3>6. stored' \in [Memory -> Values]
      BY <2>1, <3>4
    <3> QED BY <3>3, <3>5, <3>6
  <2>3. CASE op[t].kind # "store"
    BY <2>1, <2>3 DEF Execute
  <2> QED BY <2>2, <2>3
<1>6. IsBuffer(Buffer')
  BY <1>1, <1>5, TypedMaps, BufferMaps
<1>7. Typed'
  BY <1>1, <1>5, <1>6 DEF Typed
<1> QED BY <1>4, <1>7

LEMMA ThreadFiniLoadRegistered ==
  ASSUME Placed, Typed, Registered, NEW t \in Threads, ThreadFiniLoad(t)
  PROVE  Typed' /\ Registered'
<1>1. /\ UNCHANGED <<memory, remainingReads, pendingWrites, isActive, stored, inMain>>
      /\ UNCHANGED <<injecting, overtaken, unlocked, lock>>
      /\ pc[t] = "idle"
      /\ (inThread' = inThread \/ inThread' = [inThread EXCEPT ![t] = FALSE])
  BY DEF ThreadFiniLoad, Erased, buffer, handlers, histories
<1>2. lock # t
  BY <1>1 DEF Placed, Locked
<1>3. lock \in Threads => op'[lock] = op[lock] /\ pc'[lock] = pc[lock]
  BY <1>2 DEF ThreadFiniLoad, Goto, Placed, Going
<1>4. Registered'
  BY <1>1, <1>3 DEF Registered, Empty
<1>5. IsBuffer(Buffer')
  BY <1>1, TypedMaps, BufferMaps
<1>6. Typed'
  BY <1>1, <1>5 DEF Typed
<1> QED BY <1>4, <1>6

\* The count that a thread stores is that of a buffer others use, unless it
\* was the last user, and then it is on record.
LEMMA ThreadFiniStoreRegistered ==
  ASSUME Placed, Typed, Registered, NEW t \in Threads, ThreadFiniStore(t)
  PROVE  Typed' /\ Registered'
<1>1. /\ UNCHANGED <<memory, remainingReads, pendingWrites, stored, inMain>>
      /\ UNCHANGED <<injecting, overtaken, lock>>
      /\ pc[t] = "ending"
      /\ (isActive' = isActive \/ isActive' = seen[t] - 1)
      /\ (seen[t] = 1 /\ unlocked' = TRUE) \/ (seen[t] # 1 /\ unlocked' = unlocked)
      /\ (inThread' = inThread \/ inThread' = [inThread EXCEPT ![t] = FALSE])
  BY DEF ThreadFiniStore, Erased, handlers
<1>2. lock # t /\ seen[t] \in Nat /\ seen[t] >= 1
  BY <1>1 DEF Placed, Locked, Going
<1>3. lock \in Threads => op'[lock] = op[lock] /\ pc'[lock] = pc[lock]
  BY <1>2 DEF ThreadFiniStore, Goto, Placed, Going
<1>4. Registered'
  <2>1. CASE unlocked'
    BY <2>1 DEF Registered
  <2>2. CASE ~unlocked'
    <3>1. ~unlocked /\ (isActive' = isActive \/ isActive' # 0)
      BY <1>1, <1>2, <2>2
    <3> QED BY <1>1, <1>3, <3>1 DEF Registered, Empty
  <2> QED BY <2>1, <2>2
<1>5. IsBuffer(Buffer')
  BY <1>1, TypedMaps, BufferMaps
<1>6. Typed'
  BY <1>1, <1>5 DEF Typed
<1> QED BY <1>4, <1>6

LEMMA ThreadFiniRetireRegistered ==
  ASSUME Placed, Typed, Registered, NEW t \in Threads, ThreadFiniRetire(t)
  PROVE  Typed' /\ Registered'
<1>1. /\ UNCHANGED <<stored, inMain, injecting, overtaken, unlocked>>
      /\ pc[t] = "retiring" /\ inThread' = [inThread EXCEPT ![t] = FALSE]
  BY DEF ThreadFiniRetire, Erased, handlers, histories
<1>2. unlocked'
  BY <1>1 DEF Placed, Recorded
<1>3. PICK wh \in SUBSET SpanOf(pendingWrites) :
        Become(AfterRead(Buffer, DOMAIN remainingReads, pendingWrites, {}, wh, {}))
  BY DEF ThreadFiniRetire
<1> DEFINE s == AfterRead(Buffer, DOMAIN remainingReads, pendingWrites, {}, wh, {})
<1>4. IsRead(s, Buffer, DOMAIN remainingReads, pendingWrites, {})
  BY TypedMaps, AfterReadType
<1>5. Become(s)
  BY <1>3
<1> HIDE DEF s
<1>6. IsBuffer(Buffer')
  BY <1>4, <1>5, BecomeBuffer, BufferMaps DEF IsRead
<1>7. Typed'
  BY <1>1, <1>6 DEF Typed
<1> QED BY <1>2, <1>7 DEF Registered

IInv == Placed /\ Typed /\ Registered

LEMMA InitIInv == Init => IInv
BY InitPlaced, InitRegistered DEF IInv

LEMMA NextIInv == IInv /\ [Next]_vars => IInv'
<1> SUFFICES ASSUME IInv, [Next]_vars PROVE IInv'
  OBVIOUS
<1>1. Placed /\ Typed /\ Registered
  BY DEF IInv
<1>2. Placed'
  BY <1>1, NextPlaced
<1>3. ASSUME UNCHANGED vars PROVE Typed' /\ Registered'
  <2>1. /\ UNCHANGED <<memory, remainingReads, pendingWrites, isActive>>
        /\ UNCHANGED <<stored, inMain, inThread, injecting, overtaken, unlocked, lock>>
        /\ op' = op /\ pc' = pc
    BY <1>3 DEF vars, buffer, handlers, histories
  <2> QED BY <1>1, <2>1, SameRegistered
<1>4. ASSUME NEW t \in Threads, NEW o \in Loads \union Stores \union Markers, Begin(t, o)
      PROVE  Typed' /\ Registered'
  BY <1>1, <1>4, BeginRegistered
<1>5. ASSUME NEW t \in Threads, Miss(t) PROVE Typed' /\ Registered'
  BY <1>1, <1>5, MissRegistered
<1>6. ASSUME NEW t \in Threads, Enter(t) PROVE Typed' /\ Registered'
  BY <1>1, <1>6, EnterRegistered
<1>7. ASSUME NEW t \in Threads, RetireMain(t) PROVE Typed' /\ Registered'
  BY <1>1, <1>7, RetireMainRegistered
<1>8. ASSUME NEW t \in Threads, Leave(t) PROVE Typed' /\ Registered'
  BY <1>1, <1>8, LeaveRegistered
<1>9. ASSUME NEW t \in Threads, Execute(t) PROVE Typed' /\ Registered'
  BY <1>1, <1>9, ExecuteRegistered
<1>10. ASSUME NEW t \in Threads, ThreadFiniLoad(t) PROVE Typed' /\ Registered'
  BY <1>1, <1>10, ThreadFiniLoadRegistered
<1>11. ASSUME NEW t \in Threads, ThreadFiniStore(t) PROVE Typed' /\ Registered'
  BY <1>1, <1>11, ThreadFiniStoreRegistered
<1>12. ASSUME NEW t \in Threads, ThreadFiniRetire(t) PROVE Typed' /\ Registered'
  BY <1>1, <1>12, ThreadFiniRetireRegistered
<1>13. Typed' /\ Registered'
  BY <1>3, <1>4, <1>5, <1>6, <1>7, <1>8, <1>9, <1>10, <1>11, <1>12 DEF Next
<1> QED BY <1>2, <1>13 DEF IInv

LEMMA SpecIInv == Spec => []IInv
<1>1. Init => IInv
  BY InitIInv
<1>2. IInv /\ [Next]_vars => IInv'
  BY NextIInv
<1> QED BY <1>1, <1>2, PTL DEF Spec

\* The types of the buffer, of the threads and of the lock, that a thread has
\* something to do exactly when it is not idle, and that one that ends holds a
\* count it has loaded until it stores it.
THEOREM LockedTypeCorrect == Spec => []TypeOK
<1>1. IInv => TypeOK
  <2> SUFFICES ASSUME IInv PROVE TypeOK
    OBVIOUS
  <2>1. DOMAIN remainingReads \subseteq Memory /\ pendingWrites \subseteq Memory
        /\ memory \in [Memory -> Byte]
    BY DEF IInv, Typed, IsBuffer, IsReads, Buffer, Keys
  <2>2. /\ stored \in [Memory -> Values] /\ inMain \in BOOLEAN /\ inThread \in [Threads -> BOOLEAN]
        /\ overtaken \subseteq Memory /\ injecting \in [Threads -> SUBSET Memory]
    BY DEF IInv, Typed
  <2>3. /\ isActive \in Nat /\ unlocked \in BOOLEAN /\ lock \in Threads \union {NoThread}
        /\ hit \in [Threads -> SUBSET Memory]
    BY DEF IInv, Placed, Locked, Recorded
  <2>4. ASSUME NEW t \in Threads
        PROVE  /\ pc[t] \in {"idle", "waiting", "inside", "leaving", "unhandled", "handled", "ending", "retiring"}
               /\ op[t] \in {Idle, End} \union Loads \union Stores \union Markers
               /\ pc[t] = "idle" <=> op[t] = Idle
               /\ pc[t] = "ending" <=> seen[t] >= 1
               /\ seen[t] \in Nat
    BY DEF IInv, Placed, Going, Ops, Places
  <2>5. ASSUME NEW t \in Threads PROVE hit[t] \subseteq Memory /\ injecting[t] \subseteq Memory
    BY <2>2, <2>3
  <2> QED BY <2>1, <2>2, <2>3, <2>4, <2>5 DEF TypeOK
<1> QED BY <1>1, SpecIInv, PTL

\* No handler leaves a backup or a pending write in a buffer that has been
\* retired under the lock, though the test for an active buffer is made before
\* the lock is taken, and though threads that end retire it without the lock,
\* as long as none of them has been its last user.
THEOREM LateHandlersLeaveNothing == Spec => []RetiredOwesNothing
<1>1. IInv => RetiredOwesNothing
  BY DEF IInv, Registered, Empty, RetiredOwesNothing
<1> QED BY <1>1, SpecIInv, PTL
-----------------------------------------------------------------------------
(***************************************************************************)
(* The memory.  Its faults need not agree with the maps in the bytes that  *)
(* a thread is on its way to store, nor in those whose last store came     *)
(* while another thread was injecting into them, nor between the two       *)
(* halves of a load's handler.  Elsewhere a backup is what lies over it    *)
(* without the read faults, and every read fault, also one the handler is  *)
(* about to inject, lies under a backup.                                   *)
(***************************************************************************)
Agree(mem, reads, writes, last, way, lost, hits) ==
  /\ mem \in [Memory -> Byte]
  /\ IsReads(reads)
  /\ DOMAIN reads \subseteq AlignedKeys /\ writes \subseteq AlignedKeys
  /\ DOMAIN reads \intersect writes = {}
  /\ FirstAddress \notin DOMAIN reads
  /\ \A a \in DOMAIN reads : Span(a) \intersect way = {}
  /\ \A a \in DOMAIN reads : \A b \in Span(a) \ lost : reads[a][b - a] = WithoutRead(mem[b])
  /\ \A b \in Memory \ (way \union lost) :
       "read" \in mem[b].faults => \E a \in DOMAIN reads : b \in Span(a)
  /\ \A b \in hits : \E a \in DOMAIN reads : b \in Span(a)
  /\ \A b \in Memory \ lost : mem[b].value = last[b]

\* Restoring takes the read faults off the spans of the keys restored.
LEMMA RestoredByte ==
  ASSUME NEW mem, NEW reads, NEW writes, NEW last, NEW way, NEW lost, NEW hits,
         Agree(mem, reads, writes, last, way, lost, hits),
         NEW K, K \subseteq DOMAIN reads, NEW b \in Memory \ lost
  PROVE  ReverseFaultyRead(mem, reads, K)[b] = IF b \in SpanOf(K) THEN WithoutRead(mem[b]) ELSE mem[b]
<1>0. DOMAIN reads \subseteq AlignedKeys
  BY DEF Agree
<1>1. CASE b \in SpanOf(K)
  <2>1. PICK a \in K : b \in Span(a)
    BY <1>1 DEF SpanOf
  <2>2. \A c \in K : b \in Span(c) => c = a
    BY <1>0, <2>1, SpansApart
  <2>3. a \in Int
    BY <1>0, <2>1, SpanInMemory
  <2>4. IsLastOver(a, b, K)
    BY <2>1, <2>2, <2>3 DEF IsLastOver
  <2> DEFINE k == CHOOSE c \in K : IsLastOver(c, b, K)
  <2>5. k \in K /\ IsLastOver(k, b, K)
    BY <2>1, <2>4
  <2>6. ReverseFaultyRead(mem, reads, K)[b] = reads[k][b - k]
    BY <2>1, <2>4 DEF ReverseFaultyRead
  <2> HIDE DEF k
  <2>7. k \in DOMAIN reads /\ b \in Span(k) \ lost
    BY <2>5 DEF IsLastOver
  <2>8. reads[k][b - k] = WithoutRead(mem[b])
    BY <2>7 DEF Agree
  <2> QED BY <1>1, <2>6, <2>8
<1>2. CASE b \notin SpanOf(K)
  <2>1. ~(\E a \in K : IsLastOver(a, b, K))
    BY <1>2 DEF IsLastOver, SpanOf
  <2> QED BY <1>2, <2>1 DEF ReverseFaultyRead
<1> QED BY <1>1, <1>2

LEMMA ByteWithout ==
  ASSUME NEW m \in Byte
  PROVE  /\ WithoutRead(m) \in Byte /\ WithoutRead(m).value = m.value
         /\ "read" \notin WithoutRead(m).faults
         /\ "read" \notin m.faults => WithoutRead(m) = m
         /\ WithoutRead(WithoutRead(m)) = WithoutRead(m)
         /\ WithoutRead([m EXCEPT !.faults = @ \union {"read"}]) = WithoutRead(m)
<1>1. m = [value |-> m.value, faults |-> m.faults]
  BY DEF Byte
<1>2. WithoutRead(m) = [value |-> m.value, faults |-> m.faults \ {"read"}]
  BY <1>1 DEF WithoutRead
<1>3. (m.faults \ {"read"}) \ {"read"} = m.faults \ {"read"}
      /\ (m.faults \union {"read"}) \ {"read"} = m.faults \ {"read"}
      /\ ("read" \notin m.faults => m.faults \ {"read"} = m.faults)
  OBVIOUS
<1>4. WithoutRead(m) \in Byte
  BY <1>2 DEF Byte
<1>5. WithoutRead(WithoutRead(m)) = WithoutRead(m)
  BY <1>2, <1>3 DEF WithoutRead
<1>6. WithoutRead([m EXCEPT !.faults = @ \union {"read"}]) = WithoutRead(m)
  BY <1>1, <1>3 DEF WithoutRead
<1>7. "read" \notin m.faults => WithoutRead(m) = m
  BY <1>1, <1>2, <1>3
<1> QED BY <1>2, <1>4, <1>5, <1>6, <1>7

\* A handler that restores the backups at R, injects the writes A and backs up
\* the elements at K it is about to hit, all that it reads there being in R and
\* A and none of K on its way.
LEMMA ReadAgrees ==
  ASSUME NEW mem, NEW reads, NEW writes, NEW last, NEW way, NEW lost,
         Agree(mem, reads, writes, last, way, lost, {}),
         NEW K, K \subseteq AlignedKeys, FirstAddress \notin K,
         \A k \in K : Span(k) \intersect way = {},
         NEW R, R \subseteq DOMAIN reads, K \intersect DOMAIN reads \subseteq R,
         NEW A, A \subseteq writes, K \intersect writes \subseteq A,
         NEW wh, wh \subseteq SpanOf(A), NEW rh, rh \subseteq SpanOf(K),
         NEW s, s = [memory |-> mem, reads |-> reads, writes |-> writes],
         NEW m, m = InjectFault(ReverseFaultyRead(mem, reads, R), wh, "write"),
         NEW r, r = AfterRead(s, R, A, K, wh, rh).reads
  PROVE  Agree(m, r, writes \ A, last, way, lost, rh)
<1> DEFINE hitKeys == {a \in K : Span(a) \intersect rh # {}}
           restored == ReverseFaultyRead(mem, reads, R)
<1>1. /\ mem \in [Memory -> Byte] /\ IsReads(reads)
      /\ DOMAIN reads \subseteq AlignedKeys /\ writes \subseteq AlignedKeys
      /\ DOMAIN reads \intersect writes = {} /\ FirstAddress \notin DOMAIN reads
  BY DEF Agree
<1>2. restored \in [Memory -> Byte]
  BY <1>1, ReverseFaultyReadType
<1>3. m \in [Memory -> Byte]
  <2> "write" \in FaultKinds
    BY DEF FaultKinds
  <2> HIDE DEF restored
  <2>1. m = InjectFault(restored, wh, "write")
    BY DEF restored
  <2> QED BY <1>2, <2>1, InjectFaultType
<1>4. \A b \in Memory : m[b] = IF b \in wh THEN [restored[b] EXCEPT !.faults = @ \union {"write"}]
                                           ELSE restored[b]
  BY DEF InjectFault
<1>5. ASSUME NEW b \in Memory \ lost
      PROVE  restored[b] = IF b \in SpanOf(R) THEN WithoutRead(mem[b]) ELSE mem[b]
  BY <1>5, RestoredByte
<1>6. \A b \in Memory : mem[b] \in Byte /\ restored[b] \in Byte
  BY <1>1, <1>2
<1>7. r = BackupReadData(Drop(reads, R), m, hitKeys)
  BY DEF AfterRead
<1> HIDE DEF restored
<1>8. IsReads(Drop(reads, R)) /\ DOMAIN Drop(reads, R) = DOMAIN reads \ R
  BY <1>1, DropReads
<1>9. hitKeys \subseteq K /\ hitKeys \subseteq Keys
  BY DEF AlignedKeys
<1>10. IsReads(r) /\ DOMAIN r = (DOMAIN reads \ R) \union hitKeys
  <2> DEFINE d == Drop(reads, R)
  <2>1. IsReads(d) /\ DOMAIN d = DOMAIN reads \ R /\ r = BackupReadData(d, m, hitKeys)
    BY <1>7, <1>8
  <2> HIDE DEF hitKeys, d
  <2>2. /\ IsReads(BackupReadData(d, m, hitKeys))
        /\ DOMAIN BackupReadData(d, m, hitKeys) = DOMAIN d \union hitKeys
    BY <1>3, <1>9, <2>1, BackupReads
  <2> QED BY <2>1, <2>2
<1>11. \A a \in DOMAIN r : a \in DOMAIN reads \ R => r[a] = reads[a]
  BY <1>7, <1>8, <1>10 DEF BackupReadData, Drop
<1>12. \A a \in DOMAIN r : a \notin DOMAIN reads \ R => r[a] = [i \in 0 .. (BackupSize - 1) |-> m[a + i]]
  BY <1>7, <1>8, <1>10 DEF BackupReadData
<1>13. DOMAIN r \subseteq AlignedKeys /\ writes \ A \subseteq AlignedKeys
       /\ DOMAIN r \intersect (writes \ A) = {} /\ FirstAddress \notin DOMAIN r
  BY <1>1, <1>9, <1>10
<1>14. ASSUME NEW a \in DOMAIN r PROVE Span(a) \intersect way = {}
  BY <1>9, <1>10 DEF Agree
<1>15. ASSUME NEW b \in Memory, "read" \in m[b].faults PROVE "read" \in restored[b].faults
  <2>1. restored[b] \in Byte
    BY <1>6
  <2>2. [restored[b] EXCEPT !.faults = @ \union {"write"}].faults = restored[b].faults \union {"write"}
    BY <2>1 DEF Byte
  <2>3. m[b].faults = restored[b].faults \/ m[b].faults = restored[b].faults \union {"write"}
    BY <1>4, <2>2
  <2> QED BY <1>15, <2>3
<1>16. ASSUME NEW b \in Memory \ lost, "read" \in m[b].faults
       PROVE  "read" \in mem[b].faults /\ b \notin SpanOf(R)
  BY <1>5, <1>6, <1>15, <1>16, ByteWithout
<1>17. ASSUME NEW a \in DOMAIN r, NEW b \in Span(a) \ lost
       PROVE  r[a][b - a] = WithoutRead(m[b])
  <2>1. a \in AlignedKeys /\ b \in Memory \ lost /\ a \in Int /\ b \in Int
    BY <1>13, SpanInMemory, MemoryInt
  <2>2. CASE a \in DOMAIN reads \ R
    <3>1. b \notin wh
      <4>1. ASSUME b \in wh PROVE FALSE
        <5>1. PICK k \in A : b \in Span(k)
          BY <4>1 DEF SpanOf
        <5>2. k = a
          BY <1>1, <2>1, <5>1, SpansApart
        <5> QED BY <1>1, <2>2, <5>1, <5>2
      <4> QED BY <4>1
    <3>2. b \notin SpanOf(R)
      <4>1. ASSUME b \in SpanOf(R) PROVE FALSE
        <5>1. PICK k \in R : b \in Span(k)
          BY <4>1 DEF SpanOf
        <5>2. k = a
          BY <1>1, <2>1, <5>1, SpansApart
        <5> QED BY <2>2, <5>2
      <4> QED BY <4>1
    <3>3. m[b] = mem[b]
      BY <1>4, <1>5, <2>1, <3>1, <3>2
    <3>4. reads[a][b - a] = WithoutRead(mem[b])
      BY <2>2 DEF Agree
    <3> QED BY <1>11, <2>2, <3>3, <3>4
  <2>3. CASE a \notin DOMAIN reads \ R
    <3>1. a \in K
      BY <1>9, <1>10, <2>3
    <3>2. r[a][b - a] = m[b]
      <4>1. b - a \in 0 .. (BackupSize - 1) /\ a + (b - a) = b
        BY <2>1, BufferAssumption DEF Span
      <4> HIDE DEF hitKeys
      <4>2. r[a] = [i \in 0 .. (BackupSize - 1) |-> m[a + i]]
        BY <1>12, <2>3
      <4> QED BY <4>1, <4>2
    <3>3. "read" \notin m[b].faults
      <4>1. ASSUME "read" \in m[b].faults PROVE FALSE
        <5>1. "read" \in mem[b].faults /\ b \notin SpanOf(R)
          BY <1>16, <2>1, <4>1
        <5>2. b \notin way
          BY <3>1
        <5>3. PICK c \in DOMAIN reads : b \in Span(c)
          BY <2>1, <5>1, <5>2 DEF Agree
        <5>4. c = a
          BY <1>1, <2>1, <5>3, SpansApart
        <5> QED BY <3>1, <5>1, <5>3, <5>4 DEF SpanOf
      <4> QED BY <4>1
    <3>4. WithoutRead(m[b]) = m[b]
      BY <1>3, <2>1, <3>3, ByteWithout
    <3> QED BY <3>2, <3>4
  <2> QED BY <2>2, <2>3
<1>18. ASSUME NEW b \in Memory \ (way \union lost), "read" \in m[b].faults
       PROVE  \E a \in DOMAIN r : b \in Span(a)
  <2>1. "read" \in mem[b].faults /\ b \notin SpanOf(R)
    BY <1>16, <1>18
  <2>2. PICK c \in DOMAIN reads : b \in Span(c)
    BY <2>1 DEF Agree
  <2>3. c \notin R
    BY <2>1, <2>2 DEF SpanOf
  <2> QED BY <1>10, <2>2, <2>3
<1>19. ASSUME NEW b \in rh PROVE \E a \in DOMAIN r : b \in Span(a)
  <2>1. PICK k \in K : b \in Span(k)
    BY <1>19 DEF SpanOf
  <2>2. k \in hitKeys
    BY <1>19, <2>1
  <2> QED BY <1>10, <2>1, <2>2
<1>20. ASSUME NEW b \in Memory \ lost PROVE m[b].value = last[b]
  <2>1. m[b].value = restored[b].value
    BY <1>4, <1>6 DEF Byte
  <2>2. restored[b].value = mem[b].value
    BY <1>5, <1>6, ByteWithout
  <2>3. mem[b].value = last[b]
    BY DEF Agree
  <2> QED BY <2>1, <2>2, <2>3
<1> HIDE DEF hitKeys
<1> QED BY <1>3, <1>10, <1>13, <1>14, <1>17, <1>18, <1>19, <1>20 DEF Agree

\* The faults a handler was about to inject are injected.
LEMMA HitAgrees ==
  ASSUME NEW mem, NEW reads, NEW writes, NEW last, NEW way, NEW lost, NEW hits,
         Agree(mem, reads, writes, last, way, lost, hits),
         NEW m, m = InjectFault(mem, hits, "read")
  PROVE  Agree(m, reads, writes, last, way, lost, {})
<1>1. mem \in [Memory -> Byte] /\ DOMAIN reads \subseteq AlignedKeys
  BY DEF Agree
<1>2. m \in [Memory -> Byte]
  BY <1>1, InjectFaultType DEF FaultKinds
<1>3. \A b \in Memory : m[b] = IF b \in hits THEN [mem[b] EXCEPT !.faults = @ \union {"read"}] ELSE mem[b]
  BY DEF InjectFault
<1>4. ASSUME NEW b \in Memory
      PROVE  m[b].value = mem[b].value /\ WithoutRead(m[b]) = WithoutRead(mem[b])
  <2>1. mem[b] \in Byte
    BY <1>1
  <2>2. /\ WithoutRead([mem[b] EXCEPT !.faults = @ \union {"read"}]) = WithoutRead(mem[b])
        /\ [mem[b] EXCEPT !.faults = @ \union {"read"}].value = mem[b].value
    BY <2>1, ByteWithout DEF Byte
  <2> QED BY <1>3, <2>2
<1>5. ASSUME NEW a \in DOMAIN reads, NEW b \in Span(a) \ lost
      PROVE  reads[a][b - a] = WithoutRead(m[b])
  <2>1. b \in Memory
    BY <1>1, SpanInMemory
  <2>2. reads[a][b - a] = WithoutRead(mem[b])
    BY DEF Agree
  <2> QED BY <1>4, <2>1, <2>2
<1>6. ASSUME NEW b \in Memory \ (way \union lost), "read" \in m[b].faults
      PROVE  \E a \in DOMAIN reads : b \in Span(a)
  <2>1. CASE b \in hits
    BY <2>1 DEF Agree
  <2>2. CASE b \notin hits
    <3>1. "read" \in mem[b].faults
      BY <1>3, <1>6, <2>2
    <3> QED BY <3>1 DEF Agree
  <2> QED BY <2>1, <2>2
<1> QED BY <1>2, <1>4, <1>5, <1>6 DEF Agree

\* The bytes at B come on their way, and the backups at R, all of them over B,
\* are dropped.
LEMMA WayAgrees ==
  ASSUME NEW mem, NEW reads, NEW writes, NEW last, NEW way, NEW lost,
         NEW hits, Agree(mem, reads, writes, last, way, lost, hits),
         NEW B, NEW R, hits = {} \/ DOMAIN reads \intersect R = {},
         \A a \in DOMAIN reads \intersect R : Span(a) \subseteq B,
         \A a \in DOMAIN reads \ R : Span(a) \intersect B = {}
  PROVE  Agree(mem, Drop(reads, R), writes, last, way \union B, lost, hits)
<1> DEFINE r == Drop(reads, R)
<1>1. IsReads(r) /\ DOMAIN r = DOMAIN reads \ R
  BY DropReads DEF Agree
<1>2. \A a \in DOMAIN r : r[a] = reads[a]
  BY DEF Drop
<1> HIDE DEF r
<1>3. \A a \in DOMAIN r : Span(a) \intersect (way \union B) = {}
  <2>1. ASSUME NEW a \in DOMAIN r PROVE Span(a) \intersect (way \union B) = {}
    <3>1. Span(a) \intersect way = {} /\ Span(a) \intersect B = {}
      BY <1>1 DEF Agree
    <3> QED BY <3>1
  <2> QED BY <2>1
<1>4. ASSUME NEW b \in Memory \ ((way \union B) \union lost), "read" \in mem[b].faults
      PROVE  \E a \in DOMAIN r : b \in Span(a)
  <2>1. PICK a \in DOMAIN reads : b \in Span(a)
    BY <1>4 DEF Agree
  <2>2. a \notin R
    BY <2>1
  <2> QED BY <1>1, <2>1, <2>2
<1>5. ASSUME NEW b \in hits PROVE \E a \in DOMAIN r : b \in Span(a)
  <2>1. DOMAIN r = DOMAIN reads
    BY <1>1, <1>5
  <2> QED BY <2>1 DEF Agree
<1>6. \A a \in DOMAIN r : \A b \in Span(a) \ lost : r[a][b - a] = WithoutRead(mem[b])
  BY <1>1, <1>2 DEF Agree
<1> QED BY <1>1, <1>3, <1>4, <1>5, <1>6 DEF Agree, r

\* A write is recorded while its bytes are on their way.
LEMMA RecordAgrees ==
  ASSUME NEW mem, NEW reads, NEW writes, NEW last, NEW way, NEW lost, NEW hits,
         Agree(mem, reads, writes, last, way, lost, hits),
         NEW K, K \subseteq AlignedKeys, \A k \in K : Span(k) \subseteq way
  PROVE  Agree(mem, reads, writes \union K, last, way, lost, hits)
<1>1. ASSUME NEW a \in DOMAIN reads, a \in K PROVE FALSE
  <2>1. a \in Span(a)
    BY <1>1, SpanInMemory, SpanInElement
  <2>2. Span(a) \intersect way = {}
    BY DEF Agree
  <2> QED BY <1>1, <2>1, <2>2
<1> QED BY <1>1 DEF Agree

StoredLast(last, B, v) == [b \in Memory |-> IF b \in B THEN v ELSE last[b]]

\* The bytes at B, on their way, are stored, but for those that come late.
LEMMA StoreAgrees ==
  ASSUME NEW mem, NEW reads, NEW writes, NEW last, NEW way, NEW lost, NEW hits,
         NEW B, way \intersect B = {},
         Agree(mem, reads, writes, last, way \union B, lost, hits),
         NEW v \in Values, NEW raced, raced \subseteq B, NEW late, late \subseteq raced,
         NEW m, m = StoreBytes(mem, B \ late, v),
         NEW l, l = StoredLast(last, B, v)
  PROVE  Agree(m, reads, writes, l, way, (lost \ B) \union raced, hits)
<1>1. mem \in [Memory -> Byte] /\ DOMAIN reads \subseteq AlignedKeys
  BY DEF Agree
<1>2. m \in [Memory -> Byte]
  BY <1>1, StoreBytesType
<1>3. \A b \in Memory : /\ b \notin B => m[b] = mem[b] /\ l[b] = last[b]
                        /\ b \in B \ raced => m[b] = Clean(v) /\ l[b] = v
  BY DEF StoreBytes, StoredLast
<1>4. ASSUME NEW a \in DOMAIN reads
      PROVE  Span(a) \intersect way = {} /\ Span(a) \intersect B = {} /\ Span(a) \subseteq Memory
  <2>1. Span(a) \intersect (way \union B) = {}
    BY DEF Agree
  <2> QED BY <1>1, <2>1, SpanInMemory
<1>5. ASSUME NEW a \in DOMAIN reads, NEW b \in Span(a) \ ((lost \ B) \union raced)
      PROVE  reads[a][b - a] = WithoutRead(m[b])
  <2>1. b \in Memory /\ b \notin B /\ b \in Span(a) \ lost
    BY <1>4
  <2>2. reads[a][b - a] = WithoutRead(mem[b])
    BY <2>1 DEF Agree
  <2> QED BY <1>3, <2>1, <2>2
<1>6. ASSUME NEW b \in Memory \ (way \union ((lost \ B) \union raced)), "read" \in m[b].faults
      PROVE  \E a \in DOMAIN reads : b \in Span(a)
  <2>1. b \notin B
    <3>1. ASSUME b \in B PROVE FALSE
      <4>1. m[b] = Clean(v)
        BY <1>3, <3>1
      <4>2. m[b].faults = {}
        BY <4>1 DEF Clean
      <4> QED BY <1>6, <4>2
    <3> QED BY <3>1
  <2>2. b \in Memory \ ((way \union B) \union lost) /\ "read" \in mem[b].faults
    BY <1>3, <1>6, <2>1
  <2> QED BY <2>2 DEF Agree
<1>7. ASSUME NEW b \in Memory \ ((lost \ B) \union raced) PROVE m[b].value = l[b]
  <2>1. CASE b \in B
    BY <1>3, <2>1 DEF Clean
  <2>2. CASE b \notin B
    <3>1. mem[b].value = last[b]
      BY <2>2 DEF Agree
    <3> QED BY <1>3, <2>2, <3>1
  <2> QED BY <2>1, <2>2
<1> QED BY <1>2, <1>4, <1>5, <1>6, <1>7 DEF Agree

-----------------------------------------------------------------------------
(***************************************************************************)
(* The bytes that are on their way to be stored, and those that the        *)
(* handler of a load has yet to hit.                                       *)
(***************************************************************************)
WayBytes(ops, places) ==
  UNION {BytesOf(ops[t].acc) : t \in {u \in Threads : ops[u].kind = "store" /\ places[u] # "waiting"}}

HitUnion(h) == UNION {h[t] : t \in Threads}

MemoryHolds ==
  ~unlocked => Agree(memory, remainingReads, pendingWrites, stored,
                     WayBytes(op, pc), overtaken, HitUnion(hit))

\* The bytes on their way, of thread t and of the others.
OwnWay(o, p) == IF o.kind = "store" /\ p # "waiting" THEN BytesOf(o.acc) ELSE {}

OthersWay(ops, places, t) == UNION {OwnWay(ops[u], places[u]) : u \in Threads \ {t}}

LEMMA WayOfAll ==
  ASSUME NEW ops, NEW places, NEW t \in Threads
  PROVE  WayBytes(ops, places) = OthersWay(ops, places, t) \union OwnWay(ops[t], places[t])
<1> DEFINE W == WayBytes(ops, places)
           O == OthersWay(ops, places, t)
<1>1. ASSUME NEW b \in W PROVE b \in O \union OwnWay(ops[t], places[t])
  <2>1. PICK u \in Threads : ops[u].kind = "store" /\ places[u] # "waiting" /\ b \in BytesOf(ops[u].acc)
    BY <1>1 DEF WayBytes
  <2>2. b \in OwnWay(ops[u], places[u])
    BY <2>1 DEF OwnWay
  <2>3. CASE u = t
    BY <2>2, <2>3
  <2>4. CASE u # t
    BY <2>1, <2>2, <2>4 DEF OthersWay
  <2> QED BY <2>3, <2>4
<1>2. ASSUME NEW u \in Threads, NEW b \in OwnWay(ops[u], places[u]) PROVE b \in W
  BY <1>2 DEF OwnWay, WayBytes
<1>3. O \subseteq W
  BY <1>2 DEF OthersWay
<1>4. OwnWay(ops[t], places[t]) \subseteq W
  BY <1>2
<1> QED BY <1>1, <1>3, <1>4

\* What the steps of a thread make of them.
LEMMA WayStep ==
  ASSUME Going, NEW t \in Threads, NEW o, NEW p,
         op' = [op EXCEPT ![t] = o], pc' = [pc EXCEPT ![t] = p]
  PROVE  /\ WayBytes(op, pc) = OthersWay(op, pc, t) \union OwnWay(op[t], pc[t])
         /\ WayBytes(op', pc') = OthersWay(op, pc, t) \union OwnWay(o, p)
<1>1. op'[t] = o /\ pc'[t] = p
  BY DEF Going
<1>2. \A u \in Threads \ {t} : op'[u] = op[u] /\ pc'[u] = pc[u]
  BY DEF Going
<1>3. WayBytes(op', pc') = OthersWay(op, pc, t) \union OwnWay(op'[t], pc'[t])
  <2>1. WayBytes(op', pc') = OthersWay(op', pc', t) \union OwnWay(op'[t], pc'[t])
    BY WayOfAll
  <2>2. OthersWay(op', pc', t) = OthersWay(op, pc, t)
    BY <1>2 DEF OthersWay
  <2> QED BY <2>1, <2>2
<1>4. WayBytes(op, pc) = OthersWay(op, pc, t) \union OwnWay(op[t], pc[t])
  BY WayOfAll
<1> QED BY <1>1, <1>3, <1>4

LEMMA WayStepOn ==
  ASSUME Going, NEW t \in Threads, NEW p, op' = op, pc' = [pc EXCEPT ![t] = p]
  PROVE  /\ WayBytes(op, pc) = OthersWay(op, pc, t) \union OwnWay(op[t], pc[t])
         /\ WayBytes(op', pc') = OthersWay(op, pc, t) \union OwnWay(op[t], p)
<1>1. op' = [op EXCEPT ![t] = op[t]]
  BY DEF Going
<1> QED BY <1>1, WayStep

\* A thread that does not store, before and after, changes nothing about them.
LEMMA WaySame ==
  ASSUME Going, NEW t \in Threads, NEW o, NEW p, op[t].kind # "store", o.kind # "store",
         op' = [op EXCEPT ![t] = o], pc' = [pc EXCEPT ![t] = p]
  PROVE  WayBytes(op', pc') = WayBytes(op, pc)
<1>1. OwnWay(op[t], pc[t]) = {} /\ OwnWay(o, p) = {}
  BY DEF OwnWay
<1> QED BY <1>1, WayStep

LEMMA WaySameOn ==
  ASSUME Going, NEW t \in Threads, NEW p, op[t].kind # "store",
         op' = op, pc' = [pc EXCEPT ![t] = p]
  PROVE  WayBytes(op', pc') = WayBytes(op, pc)
<1>1. OwnWay(op[t], pc[t]) = {} /\ OwnWay(op[t], p) = {}
  BY DEF OwnWay
<1> QED BY <1>1, WayStepOn

\* The target has no races: nothing a thread loads is on its way, nor does
\* another thread store what it stores.
LEMMA OthersElsewhere ==
  ASSUME Going, NEW t \in Threads, op[t].kind \in {"load", "store"}
  PROVE  OthersWay(op, pc, t) \intersect BytesOf(op[t].acc) = {}
<1>1. ASSUME NEW u \in Threads \ {t}, NEW b \in OwnWay(op[u], pc[u]) PROVE b \notin BytesOf(op[t].acc)
  <2>1. op[u].kind = "store" /\ b \in BytesOf(op[u].acc)
    BY <1>1 DEF OwnWay
  <2>2. Compatible(op[t], op[u])
    BY DEF Going
  <2>3. BytesOf(op[t].acc) \intersect BytesOf(op[u].acc) = {}
    BY <2>1, <2>2, CompatibleStore
  <2> QED BY <2>1, <2>3
<1> QED BY <1>1 DEF OthersWay

LEMMA LoadsElsewhere ==
  ASSUME Going, NEW t \in Threads, op[t].kind = "load"
  PROVE  WayBytes(op, pc) \intersect BytesOf(op[t].acc) = {}
<1>1. OwnWay(op[t], pc[t]) = {}
  BY DEF OwnWay
<1>2. WayBytes(op, pc) = OthersWay(op, pc, t)
  BY <1>1, WayOfAll
<1> QED BY <1>2, OthersElsewhere

\* Only the load that has the lock has bytes to hit.
LEMMA NoHits ==
  ASSUME Locked, lock \in Threads => op[lock].kind # "load"
  PROVE  HitUnion(hit) = {}
BY DEF Locked, HitUnion

LEMMA HitsOfOne ==
  ASSUME Locked, NEW t \in Threads, lock = t
  PROVE  HitUnion(hit) = hit[t]
BY DEF Locked, HitUnion

\* A step that leaves the memory, the maps and what is about to be.
LEMMA SameMemory ==
  ASSUME MemoryHolds, WayBytes(op', pc') = WayBytes(op, pc), HitUnion(hit') = HitUnion(hit),
         UNCHANGED <<memory, remainingReads, pendingWrites, stored, overtaken>>,
         ~unlocked' => ~unlocked
  PROVE  MemoryHolds'
<1>1. CASE unlocked'
  BY <1>1 DEF MemoryHolds
<1>2. CASE ~unlocked'
  BY <1>2 DEF MemoryHolds
<1> QED BY <1>1, <1>2

LEMMA DropNothing ==
  ASSUME NEW reads, IsReads(reads), NEW R, DOMAIN reads \intersect R = {}
  PROVE  Drop(reads, R) = reads
<1>1. DOMAIN reads \ R = DOMAIN reads
  OBVIOUS
<1>2. Drop(reads, R) = [a \in DOMAIN reads |-> reads[a]]
  BY <1>1 DEF Drop
<1> QED BY <1>2 DEF IsReads

\* What a store is about to overwrite, if no backup meets it, may come on its
\* way as it is.
LEMMA StoreUnhandled ==
  ASSUME MemoryHolds, NEW B,
         WayBytes(op', pc') = WayBytes(op, pc) \union B,
         HitUnion(hit') = HitUnion(hit),
         UNCHANGED <<memory, stored, remainingReads, pendingWrites, overtaken, unlocked>>,
         ~unlocked => \A a \in DOMAIN remainingReads : Span(a) \intersect B = {}
  PROVE  MemoryHolds'
<1> SUFFICES ASSUME ~unlocked
             PROVE  Agree(memory, remainingReads, pendingWrites, stored,
                          WayBytes(op, pc) \union B, overtaken, HitUnion(hit))
  BY DEF MemoryHolds
<1>1. Agree(memory, remainingReads, pendingWrites, stored,
            WayBytes(op, pc), overtaken, HitUnion(hit))
  BY DEF MemoryHolds
<1>2. IsReads(remainingReads) /\ DOMAIN remainingReads \intersect {} = {}
  BY <1>1 DEF Agree
<1>3. Drop(remainingReads, {}) = remainingReads
  BY <1>2, DropNothing
<1>4. /\ \A a \in DOMAIN remainingReads \intersect {} : Span(a) \subseteq B
      /\ \A a \in DOMAIN remainingReads \ {} : Span(a) \intersect B = {}
  OBVIOUS
<1>5. Agree(memory, Drop(remainingReads, {}), pendingWrites, stored,
            WayBytes(op, pc) \union B, overtaken, HitUnion(hit))
  BY <1>1, <1>2, <1>4, WayAgrees
<1> QED BY <1>3, <1>5

LEMMA BeginMemory ==
  ASSUME Placed, Registered, MemoryHolds, NEW t \in Threads,
         NEW o \in Loads \union Stores \union Markers, Begin(t, o)
  PROVE  MemoryHolds'
<1> DEFINE p == IF IsAccess(o) /\ ~HasActiveBuffer(t) THEN "unhandled" ELSE "waiting"
<1>1. /\ UNCHANGED <<memory, remainingReads, pendingWrites, stored, overtaken, unlocked>>
      /\ hit' = hit
      /\ op' = [op EXCEPT ![t] = o] /\ pc' = [pc EXCEPT ![t] = p] /\ pc[t] = "idle"
  BY DEF Begin, buffer, handlers, histories, Goto
<1>2. p = "waiting" \/ ~inMain
  BY DEF HasActiveBuffer
<1> HIDE DEF p
<1>3. OwnWay(op[t], pc[t]) = {} /\ Going
  <2>1. op[t] = Idle /\ Going
    BY <1>1 DEF Placed, Going
  <2> QED BY <2>1 DEF OwnWay, Idle
<1>4. WayBytes(op', pc') = WayBytes(op, pc) \union OwnWay(o, p)
  BY <1>1, <1>3, WayStep
<1>5. CASE p = "waiting"
  <2>1. WayBytes(op', pc') = WayBytes(op, pc)
    BY <1>4, <1>5 DEF OwnWay
  <2> QED BY <1>1, <2>1, SameMemory
<1>6. CASE ~inMain
  <2>1. ~unlocked => \A a \in DOMAIN remainingReads : Span(a) \intersect OwnWay(o, p) = {}
    BY <1>6 DEF Registered, Empty
  <2> QED BY <1>1, <1>4, <2>1, StoreUnhandled
<1> QED BY <1>2, <1>5, <1>6

LEMMA MissMemory ==
  ASSUME WholeElementAccesses, Placed, Registered, MemoryHolds, NEW t \in Threads, Miss(t)
  PROVE  MemoryHolds'
<1>1. /\ UNCHANGED <<memory, remainingReads, pendingWrites, stored, overtaken, unlocked>>
      /\ op' = op /\ hit' = hit /\ pc' = [pc EXCEPT ![t] = "unhandled"] /\ pc[t] = "waiting"
      /\ inMain => op[t].acc.address = FirstAddress
  BY DEF Miss, buffer, handlers, histories, Goto, Found
<1>2. OwnWay(op[t], pc[t]) = {} /\ Going
  BY <1>1 DEF OwnWay, Placed
<1>3. WayBytes(op', pc') = WayBytes(op, pc) \union OwnWay(op[t], "unhandled")
  BY <1>1, <1>2, WayStepOn
<1>4. CASE op[t].kind = "store"
  <2>1. OwnWay(op[t], "unhandled") = BytesOf(op[t].acc)
    BY <1>4 DEF OwnWay
  <2>2. op[t].acc \in Accesses
    BY <1>2, <1>4, AccessOf
  <2>3. ASSUME ~unlocked, NEW a \in DOMAIN remainingReads, NEW b \in Span(a), b \in BytesOf(op[t].acc)
        PROVE  FALSE
    <3>1. inMain
      BY <2>3 DEF Registered, Empty
    <3>2. a \in AlignedKeys /\ FirstAddress \notin DOMAIN remainingReads
      BY <2>3 DEF MemoryHolds, Agree
    <3>3. AccessesAligned /\ ~IsSIMD(op[t].acc)
      BY <1>1, <2>2, <3>1 DEF WholeElementAccesses, AccessesWhole
    <3>4. a = op[t].acc.address
      BY <2>2, <2>3, <3>2, <3>3, KeysUnderWrite
    <3> QED BY <1>1, <3>1, <3>2, <3>4
  <2>4. ~unlocked => \A a \in DOMAIN remainingReads : Span(a) \intersect OwnWay(op[t], "unhandled") = {}
    BY <2>1, <2>3
  <2> QED BY <1>1, <1>3, <2>4, StoreUnhandled
<1>5. CASE op[t].kind # "store"
  <2>1. WayBytes(op', pc') = WayBytes(op, pc)
    BY <1>3, <1>5 DEF OwnWay
  <2> QED BY <1>1, <2>1, SameMemory
<1> QED BY <1>4, <1>5

\* Retirement, of whatever is on its way, with nothing to hit.
LEMMA SettleMemory ==
  ASSUME Typed, MemoryHolds, NEW t \in Threads, Settle(t),
         UNCHANGED <<stored, overtaken, unlocked>>,
         HitUnion(hit) = {}, HitUnion(hit') = {}, WayBytes(op', pc') = WayBytes(op, pc)
  PROVE  MemoryHolds'
<1> SUFFICES ASSUME ~unlocked
             PROVE  Agree(memory', remainingReads', pendingWrites', stored,
                          WayBytes(op, pc), overtaken, {})
  BY DEF MemoryHolds
<1>1. PICK wh \in SUBSET SpanOf(pendingWrites) :
        Become(AfterRead(Buffer, DOMAIN remainingReads, pendingWrites, {}, wh, {}))
  BY DEF Settle
<1> DEFINE after == AfterRead(Buffer, DOMAIN remainingReads, pendingWrites, {}, wh, {})
           m == InjectFault(ReverseFaultyRead(memory, remainingReads, DOMAIN remainingReads), wh, "write")
<1>2. Agree(memory, remainingReads, pendingWrites, stored, WayBytes(op, pc), overtaken, {})
  BY DEF MemoryHolds
<1>3. m \in [Memory -> Byte]
  <2> DEFINE restored == ReverseFaultyRead(memory, remainingReads, DOMAIN remainingReads)
  <2>1. restored \in [Memory -> Byte]
    BY TypedMaps, ReverseFaultyReadType
  <2> HIDE DEF restored
  <2>2. InjectFault(restored, wh, "write") \in [Memory -> Byte]
    BY <2>1, InjectFaultType DEF FaultKinds
  <2> QED BY <2>2 DEF restored
<1>4. after.memory = InjectFault(m, {}, "read") /\ after.writes = pendingWrites \ pendingWrites
  BY DEF AfterRead, Buffer
<1>5. memory' = after.memory /\ remainingReads' = after.reads /\ pendingWrites' = after.writes
  BY <1>1 DEF Become
<1>6. Agree(m, after.reads, pendingWrites \ pendingWrites, stored, WayBytes(op, pc), overtaken, {})
  <2>1. /\ {} \subseteq AlignedKeys /\ FirstAddress \notin {} /\ {} \subseteq SpanOf({})
        /\ \A k \in {} : Span(k) \intersect WayBytes(op, pc) = {}
        /\ {} \intersect DOMAIN remainingReads \subseteq DOMAIN remainingReads
        /\ {} \intersect pendingWrites \subseteq pendingWrites
        /\ DOMAIN remainingReads \subseteq DOMAIN remainingReads
        /\ pendingWrites \subseteq pendingWrites /\ wh \subseteq SpanOf(pendingWrites)
    OBVIOUS
  <2>2. Buffer = [memory |-> memory, reads |-> remainingReads, writes |-> pendingWrites]
    BY DEF Buffer
  <2>3. \A mm, rr :
          /\ mm = InjectFault(ReverseFaultyRead(memory, remainingReads, DOMAIN remainingReads), wh, "write")
          /\ rr = AfterRead(Buffer, DOMAIN remainingReads, pendingWrites, {}, wh, {}).reads
          => Agree(mm, rr, pendingWrites \ pendingWrites, stored, WayBytes(op, pc), overtaken, {})
    BY <1>2, <2>1, <2>2, ReadAgrees
  <2> QED BY <2>3
<1> HIDE DEF m, after
<1>7. InjectFault(m, {}, "read") = m
  BY <1>3 DEF InjectFault
<1> QED BY <1>4, <1>5, <1>6, <1>7

\* What the handler of a load looks up covers the elements it reads.
LEMMA LookedUp ==
  ASSUME WholeElementAccesses, Typed, NEW acc \in Accesses
  PROVE  /\ KeysOf(acc) \subseteq AlignedKeys
         /\ ReversedBy(acc) \subseteq DOMAIN remainingReads
         /\ KeysOf(acc) \intersect DOMAIN remainingReads \subseteq ReversedBy(acc)
         /\ AppliedBy(acc) \subseteq pendingWrites
         /\ KeysOf(acc) \intersect pendingWrites \subseteq AppliedBy(acc)
<1>1. AccessesWhole
  BY DEF WholeElementAccesses
<1>2. /\ KeysOf(acc) \subseteq AlignedKeys
      /\ KeysOf(acc) \subseteq IF IsSIMD(acc) THEN BytesOf(acc) ELSE {acc.address}
  BY <1>1, WholeKeys
<1>3. KeysOf(acc) \intersect pendingWrites \subseteq AppliedBy(acc)
  BY TypedMaps, AppliedCoversKeys
<1>4. ReversedBy(acc) \subseteq DOMAIN remainingReads
      /\ KeysOf(acc) \intersect DOMAIN remainingReads \subseteq ReversedBy(acc)
  BY <1>2 DEF ReversedBy
<1> QED BY <1>2, <1>3, <1>4, AppliedSubset

LEMMA KeysNotFirst ==
  ASSUME NEW acc \in Accesses, acc.address # FirstAddress
  PROVE  FirstAddress \notin KeysOf(acc)
<1>1. acc.address \in Memory /\ acc.address \in Int
  BY AccessShape
<1>2. FirstAddress < acc.address
  BY <1>1, BufferAssumption DEF Memory
<1>3. \A a \in KeysOf(acc) : acc.address <= a
  BY <1>1, AccessShape DEF KeysOf, ElementsOf, BytesOf
<1> QED BY <1>1, <1>2, <1>3, BufferAssumption

LEMMA EnterLoadMemory ==
  ASSUME WholeElementAccesses, Placed, Typed, MemoryHolds,
         NEW t \in Threads, Enter(t), EnterLoad(t)
  PROVE  MemoryHolds'
<1> DEFINE acc == op[t].acc
           W == WayBytes(op, pc)
<1>1. /\ op' = op /\ pc' = [pc EXCEPT ![t] = "inside"]
      /\ UNCHANGED <<stored, overtaken, unlocked>>
      /\ op[t].kind = "load" /\ acc.address # FirstAddress /\ lock = NoThread
  BY DEF Enter, EnterLoad, Goto, Found, LockFree, histories
<1>2. acc \in Accesses
  BY <1>1, AccessOf DEF Placed
<1>3. WayBytes(op', pc') = W /\ W \intersect BytesOf(acc) = {}
  BY <1>1, WaySameOn, LoadsElsewhere DEF Placed
<1>4. \A u \in Threads : hit[u] = {}
  BY <1>1, ThreadsAssumption DEF Placed, Locked
<1>5. HitUnion(hit) = {}
  BY <1>4 DEF HitUnion
<1>6. PICK wh, rh : LoadEntered(t, wh, rh)
  BY EnterLoadEnters
<1> DEFINE after == AfterRead(Buffer, ReversedBy(acc), AppliedBy(acc), KeysOf(acc), wh, rh)
<1>7. /\ wh \subseteq SpanOf(AppliedBy(acc)) /\ rh \subseteq SpanOf(KeysOf(acc))
      /\ hit' = [hit EXCEPT ![t] = rh]
      /\ memory' = InjectFault(ReverseFaultyRead(memory, remainingReads, ReversedBy(acc)), wh, "write")
      /\ remainingReads' = after.reads
      /\ pendingWrites' = after.writes
  BY <1>6 DEF LoadEntered
<1>8. HitUnion(hit') = rh
  <2>1. hit'[t] = rh /\ \A u \in Threads \ {t} : hit'[u] = {}
    BY <1>4, <1>7 DEF Placed, Locked
  <2> QED BY <2>1 DEF HitUnion
<1>9. after.writes = pendingWrites \ AppliedBy(acc)
  BY DEF AfterRead, Buffer
<1>10. /\ KeysOf(acc) \subseteq AlignedKeys
       /\ ReversedBy(acc) \subseteq DOMAIN remainingReads
       /\ KeysOf(acc) \intersect DOMAIN remainingReads \subseteq ReversedBy(acc)
       /\ AppliedBy(acc) \subseteq pendingWrites
       /\ KeysOf(acc) \intersect pendingWrites \subseteq AppliedBy(acc)
  <2> HIDE DEF acc
  <2> QED BY <1>2, LookedUp
<1>11. FirstAddress \notin KeysOf(acc)
  BY <1>1, <1>2, KeysNotFirst
<1>12. ASSUME NEW k \in KeysOf(acc) PROVE Span(k) \intersect W = {}
  <2> HIDE DEF acc, W
  <2>1. AccessesWhole
    BY DEF WholeElementAccesses
  <2>2. Span(k) \subseteq BytesOf(acc)
    BY <1>2, <2>1, WholeKeys
  <2> QED BY <1>3, <2>2
<1> HIDE DEF acc, W
<1> SUFFICES ASSUME ~unlocked
             PROVE  Agree(memory', remainingReads', pendingWrites', stored, W, overtaken, rh)
  BY <1>1, <1>3, <1>8 DEF MemoryHolds
<1>13. Agree(memory, remainingReads, pendingWrites, stored, W, overtaken, {})
  BY <1>5 DEF MemoryHolds, W
<1>14. Buffer = [memory |-> memory, reads |-> remainingReads, writes |-> pendingWrites]
  BY DEF Buffer
<1>15. \A mm, rr :
         /\ mm = InjectFault(ReverseFaultyRead(memory, remainingReads, ReversedBy(acc)), wh, "write")
         /\ rr = AfterRead(Buffer, ReversedBy(acc), AppliedBy(acc), KeysOf(acc), wh, rh).reads
         => Agree(mm, rr, pendingWrites \ AppliedBy(acc), stored, W, overtaken, rh)
  BY <1>7, <1>10, <1>11, <1>12, <1>13, <1>14, ReadAgrees
<1> QED BY <1>7, <1>9, <1>15

LEMMA EnterStoreMemory ==
  ASSUME WholeElementAccesses, Placed, Typed, MemoryHolds,
         NEW t \in Threads, Enter(t), EnterStore(t)
  PROVE  MemoryHolds'
<1> DEFINE acc == op[t].acc
           B == BytesOf(acc)
           R == ReversedBy(acc)
<1>1. /\ op' = op /\ pc' = [pc EXCEPT ![t] = "inside"] /\ pc[t] = "waiting" /\ lock = NoThread
      /\ op[t].kind = "store" /\ hit' = hit
      /\ UNCHANGED <<memory, stored, pendingWrites, overtaken, unlocked>>
      /\ remainingReads' = Drop(remainingReads, R)
  BY DEF Enter, EnterStore, Goto, LockFree, handlers, histories
<1>2. acc \in Accesses
  BY <1>1, AccessOf DEF Placed
<1>3. WayBytes(op', pc') = WayBytes(op, pc) \union B
  <2>1. OwnWay(op[t], pc[t]) = {} /\ OwnWay(op[t], "inside") = B
    BY <1>1 DEF OwnWay
  <2>2. WayBytes(op, pc) = OthersWay(op, pc, t) \union OwnWay(op[t], pc[t])
        /\ WayBytes(op', pc') = OthersWay(op, pc, t) \union OwnWay(op[t], "inside")
    BY <1>1, WayStepOn DEF Placed
  <2> HIDE DEF B
  <2> QED BY <2>1, <2>2
<1>4. HitUnion(hit) = {}
  BY <1>1, NoHits, ThreadsAssumption DEF Placed
<1> SUFFICES ASSUME ~unlocked
             PROVE  Agree(memory, Drop(remainingReads, R), pendingWrites, stored,
                          WayBytes(op, pc) \union B, overtaken, HitUnion(hit))
  BY <1>1, <1>3 DEF MemoryHolds
<1>5. Agree(memory, remainingReads, pendingWrites, stored,
            WayBytes(op, pc), overtaken, HitUnion(hit))
  BY DEF MemoryHolds
<1>6. DOMAIN remainingReads \subseteq AlignedKeys
  BY <1>5 DEF Agree
<1>7. AccessesWhole /\ AccessesAligned
  BY DEF WholeElementAccesses, AccessesWhole
<1> HIDE DEF acc
<1>8. \A a \in DOMAIN remainingReads \intersect R : Span(a) \subseteq B
  <2>1. ASSUME NEW a \in DOMAIN remainingReads, a \in R PROVE Span(a) \subseteq B
    <3>1. a \in AlignedKeys \intersect (IF IsSIMD(acc) THEN BytesOf(acc) ELSE {acc.address})
      BY <1>6, <2>1 DEF ReversedBy
    <3>2. a \in KeysOf(acc)
      BY <1>2, <1>7, <3>1, WholeKeys
    <3> QED BY <1>2, <1>7, <3>2, WholeKeys
  <2> QED BY <2>1
<1>9. \A a \in DOMAIN remainingReads \ R : Span(a) \intersect B = {}
  <2>1. ASSUME NEW a \in DOMAIN remainingReads \ R, NEW b \in Span(a), b \in B PROVE FALSE
    <3>1. IF IsSIMD(acc) THEN a \in BytesOf(acc) ELSE a = acc.address
      BY <1>2, <1>6, <1>7, <2>1, KeysUnderWrite
    <3> QED BY <3>1 DEF ReversedBy
  <2> QED BY <2>1
<1> HIDE DEF B, R
<1> QED BY <1>4, <1>5, <1>8, <1>9, WayAgrees

\* Retirement under the lock by a thread that removes the buffer.
LEMMA RetireMemory ==
  ASSUME Typed, MemoryHolds, NEW t \in Threads, RetireBuffer(t) \/ KeepBuffer(t),
         UNCHANGED <<stored, overtaken, unlocked>>,
         HitUnion(hit) = {}, HitUnion(hit') = {}, WayBytes(op', pc') = WayBytes(op, pc)
  PROVE  MemoryHolds'
<1>1. CASE Settle(t)
  BY <1>1, SettleMemory
<1>2. CASE KeepBuffer(t)
  <2>1. UNCHANGED <<memory, remainingReads, pendingWrites>>
    BY <1>2 DEF KeepBuffer
  <2> QED BY <2>1, SameMemory
<1> QED BY <1>1, <1>2 DEF RetireBuffer

LEMMA EnterMemory ==
  ASSUME WholeElementAccesses, Placed, Typed, MemoryHolds, NEW t \in Threads, Enter(t)
  PROVE  MemoryHolds'
<1>1. /\ op' = op /\ pc' = [pc EXCEPT ![t] = "inside"] /\ lock = NoThread
      /\ UNCHANGED <<stored, overtaken, unlocked>>
  BY DEF Enter, Goto, LockFree, histories
<1>2. ASSUME op[t].kind \in {"add", "remove"} PROVE WayBytes(op', pc') = WayBytes(op, pc)
  BY <1>1, <1>2, WaySameOn DEF Placed
<1>3. CASE EnterAdd(t)
  <2>1. op[t].kind = "add" /\ UNCHANGED <<memory, remainingReads, pendingWrites>> /\ hit' = hit
    BY <1>3 DEF EnterAdd, ReactivateUnless, handlers
  <2> QED BY <1>1, <1>2, <2>1, SameMemory
<1>4. CASE EnterRemove(t)
  <2>1. op[t].kind = "remove" /\ hit' = hit
    BY <1>4 DEF EnterRemove
  <2>2. HitUnion(hit) = {} /\ HitUnion(hit') = {}
    BY <1>1, <2>1, NoHits, ThreadsAssumption DEF Placed
  <2>3. CASE inThread[t]
    BY <1>1, <1>2, <1>4, <2>1, <2>2, <2>3, RetireMemory DEF EnterRemove
  <2>4. CASE ~inThread[t]
    <3>1. UNCHANGED <<memory, remainingReads, pendingWrites>>
      BY <1>4, <2>4 DEF EnterRemove, buffer
    <3> QED BY <1>1, <1>2, <2>1, <3>1, SameMemory
  <2> QED BY <2>3, <2>4
<1> QED BY <1>3, <1>4, EnterLoadMemory, EnterStoreMemory DEF Enter

LEMMA RetireMainMemory ==
  ASSUME Placed, Typed, MemoryHolds, NEW t \in Threads, RetireMain(t)
  PROVE  MemoryHolds'
<1>1. /\ op' = op /\ pc' = [pc EXCEPT ![t] = "leaving"] /\ hit' = hit
      /\ op[t].kind = "remove" /\ pc[t] = "inside"
      /\ UNCHANGED <<stored, overtaken, unlocked>>
      /\ (RetireBuffer(t) \/ KeepBuffer(t))
  BY DEF RetireMain, Goto, histories
<1>2. WayBytes(op', pc') = WayBytes(op, pc)
  BY <1>1, WaySameOn DEF Placed
<1>3. lock = t
  BY <1>1 DEF Placed, Locked
<1>4. HitUnion(hit) = {} /\ HitUnion(hit') = {}
  BY <1>1, <1>3, NoHits DEF Placed
<1> QED BY <1>1, <1>2, <1>4, RetireMemory

LEMMA LeaveLoadMemory ==
  ASSUME Placed, Typed, MemoryHolds, NEW t \in Threads, Leave(t), LeaveLoad(t)
  PROVE  MemoryHolds'
<1>1. /\ op' = op /\ pc' = [pc EXCEPT ![t] = "handled"] /\ pc[t] = "inside"
      /\ op[t].kind = "load" /\ memory' = InjectFault(memory, hit[t], "read")
      /\ hit' = [hit EXCEPT ![t] = {}]
      /\ UNCHANGED <<remainingReads, pendingWrites, stored, overtaken, unlocked>>
  BY DEF Leave, LeaveLoad, Done, Goto, histories
<1>2. WayBytes(op', pc') = WayBytes(op, pc)
  BY <1>1, WaySameOn DEF Placed
<1>3. lock = t
  BY <1>1 DEF Placed, Locked
<1>4. HitUnion(hit) = hit[t]
  BY <1>3, HitsOfOne DEF Placed
<1>5. HitUnion(hit') = {}
  BY <1>1, <1>3 DEF Placed, Locked, HitUnion
<1> SUFFICES ASSUME ~unlocked
             PROVE  Agree(memory', remainingReads, pendingWrites, stored,
                          WayBytes(op, pc), overtaken, {})
  BY <1>1, <1>2, <1>5 DEF MemoryHolds
<1>6. Agree(memory, remainingReads, pendingWrites, stored, WayBytes(op, pc), overtaken, HitUnion(hit))
  BY DEF MemoryHolds
<1> QED BY <1>1, <1>4, <1>6, HitAgrees

LEMMA LeaveStoreMemory ==
  ASSUME WholeElementAccesses, Placed, Typed, MemoryHolds,
         NEW t \in Threads, Leave(t), LeaveStore(t)
  PROVE  MemoryHolds'
<1> DEFINE K == KeysOf(op[t].acc)
           W == WayBytes(op, pc)
<1>1. /\ op' = op /\ pc' = [pc EXCEPT ![t] = "handled"] /\ pc[t] = "inside"
      /\ op[t].kind = "store" /\ hit' = [hit EXCEPT ![t] = {}]
      /\ UNCHANGED <<memory, remainingReads, stored, overtaken, unlocked>>
      /\ (pendingWrites' = pendingWrites \/ pendingWrites' = pendingWrites \union K)
  BY DEF Leave, LeaveStore, Done, Goto, histories
<1>2. op[t].acc \in Accesses
  BY <1>1, AccessOf DEF Placed
<1>3. WayBytes(op', pc') = W /\ BytesOf(op[t].acc) \subseteq W
  <2>1. OwnWay(op[t], "inside") = BytesOf(op[t].acc) /\ OwnWay(op[t], "handled") = BytesOf(op[t].acc)
    BY <1>1 DEF OwnWay
  <2> QED BY <1>1, <2>1, WayStepOn DEF Placed
<1>4. HitUnion(hit') = {} /\ HitUnion(hit) = {}
  <2>1. lock = t
    BY <1>1 DEF Placed, Locked
  <2>2. HitUnion(hit) = {}
    BY <1>1, <2>1, NoHits DEF Placed
  <2>3. HitUnion(hit') = {}
    BY <1>1, <2>1 DEF HitUnion, Placed, Locked
  <2> QED BY <2>2, <2>3
<1>5. K \subseteq AlignedKeys /\ \A k \in K : Span(k) \subseteq W
  <2>1. AccessesWhole
    BY DEF WholeElementAccesses
  <2>2. K \subseteq AlignedKeys /\ \A k \in K : Span(k) \subseteq BytesOf(op[t].acc)
    BY <1>2, <2>1, WholeKeys
  <2> QED BY <1>3, <2>2
<1> HIDE DEF W, K
<1> SUFFICES ASSUME ~unlocked
             PROVE  Agree(memory, remainingReads, pendingWrites', stored, W, overtaken, {})
  BY <1>1, <1>3, <1>4 DEF MemoryHolds
<1>6. Agree(memory, remainingReads, pendingWrites, stored, W, overtaken, {})
  BY <1>4 DEF MemoryHolds, W
<1>7. Agree(memory, remainingReads, pendingWrites \union K, stored, W, overtaken, {})
  BY <1>5, <1>6, RecordAgrees
<1> QED BY <1>1, <1>6, <1>7

LEMMA LeaveMemory ==
  ASSUME WholeElementAccesses, Placed, Typed, MemoryHolds, NEW t \in Threads, Leave(t)
  PROVE  MemoryHolds'
<1>1. lock = t /\ UNCHANGED <<stored, overtaken, unlocked>>
  BY DEF Leave, LeaveLoad, LeaveStore, LeaveAdd, LeaveRemove, histories, Placed, Locked
<1>2. CASE LeaveAdd(t) \/ LeaveRemove(t)
  <2>1. op[t].kind \in {"add", "remove"} /\ Done(t, "idle")
        /\ UNCHANGED <<memory, remainingReads, pendingWrites>>
    BY <1>2 DEF LeaveAdd, LeaveRemove, ReactivateUnless, buffer, Placed, Locked
  <2>2. /\ op' = [op EXCEPT ![t] = Idle] /\ pc' = [pc EXCEPT ![t] = "idle"]
        /\ hit' = [hit EXCEPT ![t] = {}]
    BY <2>1 DEF Done, Goto
  <2>3. WayBytes(op', pc') = WayBytes(op, pc)
    <3>1. op[t].kind # "store" /\ Idle.kind # "store"
      BY <2>1 DEF Idle
    <3> QED BY <2>2, <3>1, WaySame DEF Placed
  <2>4. HitUnion(hit') = HitUnion(hit)
    <3>1. HitUnion(hit) = {}
      BY <1>1, <2>1, NoHits DEF Placed
    <3>2. HitUnion(hit') = {}
      BY <2>2, <3>1 DEF HitUnion, Placed, Locked
    <3> QED BY <3>1, <3>2
  <2> QED BY <1>1, <2>1, <2>3, <2>4, SameMemory
<1> QED BY <1>2, LeaveLoadMemory, LeaveStoreMemory DEF Leave

LEMMA ExecuteMemory ==
  ASSUME Placed, Typed, MemoryHolds, NEW t \in Threads, Execute(t)
  PROVE  MemoryHolds'
<1>1. /\ op' = [op EXCEPT ![t] = Idle] /\ pc' = [pc EXCEPT ![t] = "idle"]
      /\ pc[t] \in {"unhandled", "handled"}
      /\ UNCHANGED <<remainingReads, pendingWrites, unlocked>> /\ hit' = hit
  BY DEF Execute, Goto, handlers
<1>2. WayBytes(op, pc) = OthersWay(op, pc, t) \union OwnWay(op[t], pc[t])
      /\ WayBytes(op', pc') = OthersWay(op, pc, t)
  <2>1. OwnWay(Idle, "idle") = {}
    BY DEF OwnWay, Idle
  <2>2. WayBytes(op, pc) = OthersWay(op, pc, t) \union OwnWay(op[t], pc[t])
        /\ WayBytes(op', pc') = OthersWay(op, pc, t) \union OwnWay(Idle, "idle")
    BY <1>1, WayStep DEF Placed
  <2> QED BY <2>1, <2>2
<1>3. CASE op[t].kind = "store"
  <2> DEFINE B == BytesOf(op[t].acc)
             raced == B \intersect UNION {injecting[u] : u \in Threads \ {t}}
             O == OthersWay(op, pc, t)
  <2>1. /\ \E v \in Values, late \in SUBSET raced :
              /\ memory' = StoreBytes(memory, B \ late, v)
              /\ stored' = [b \in Memory |-> IF b \in B THEN v ELSE stored[b]]
        /\ overtaken' = (overtaken \ B) \union raced
    BY <1>3 DEF Execute
  <2>2. WayBytes(op, pc) = O \union B /\ O \intersect B = {}
    <3>1. OwnWay(op[t], pc[t]) = B
      BY <1>1, <1>3 DEF OwnWay
    <3>2. O \intersect B = {}
      BY <1>3, OthersElsewhere DEF Placed
    <3> QED BY <1>2, <3>1, <3>2
  <2>3. raced \subseteq B
    OBVIOUS
  <2> HIDE DEF B, raced, O
  <2>4. PICK v \in Values, late \in SUBSET raced :
              /\ memory' = StoreBytes(memory, B \ late, v)
              /\ stored' = StoredLast(stored, B, v)
    BY <2>1 DEF StoredLast
  <2> SUFFICES ASSUME ~unlocked
               PROVE  Agree(memory', remainingReads, pendingWrites, stored', O,
                            (overtaken \ B) \union raced, HitUnion(hit))
    BY <1>1, <1>2, <2>1 DEF MemoryHolds, O
  <2>5. Agree(memory, remainingReads, pendingWrites, stored, O \union B, overtaken, HitUnion(hit))
    BY <2>2 DEF MemoryHolds
  <2>6. late \subseteq raced
    OBVIOUS
  <2>7. \A m, l : m = StoreBytes(memory, B \ late, v) /\ l = StoredLast(stored, B, v) =>
                     Agree(m, remainingReads, pendingWrites, l, O, (overtaken \ B) \union raced, HitUnion(hit))
    BY <2>2, <2>3, <2>5, <2>6, StoreAgrees
  <2> QED BY <2>4, <2>7
<1>4. CASE op[t].kind # "store"
  <2>1. OwnWay(op[t], pc[t]) = {}
    BY <1>4 DEF OwnWay
  <2>2. WayBytes(op', pc') = WayBytes(op, pc)
    BY <1>2, <2>1
  <2>3. UNCHANGED <<memory, stored, overtaken>>
    BY <1>4 DEF Execute
  <2> QED BY <1>1, <2>2, <2>3, SameMemory
<1> QED BY <1>3, <1>4

\* What a thread that ends does before it retires the buffer.
LEMMA ThreadFiniMemory ==
  ASSUME Placed, MemoryHolds, NEW t \in Threads, ThreadFiniLoad(t) \/ ThreadFiniStore(t)
  PROVE  MemoryHolds'
<1>1. /\ UNCHANGED <<memory, remainingReads, pendingWrites, stored, overtaken>> /\ hit' = hit
      /\ ~unlocked' => ~unlocked
  BY DEF ThreadFiniLoad, ThreadFiniStore, buffer, handlers, histories
<1>2. Going /\ End.kind # "store" /\ Idle.kind # "store"
  BY DEF Placed, End, Idle
<1>3. op[t].kind # "store"
  <2>1. CASE ThreadFiniLoad(t)
    <3>1. op[t] = Idle
      BY <1>2, <2>1 DEF ThreadFiniLoad, Going
    <3> QED BY <1>2, <3>1
  <2>2. CASE ThreadFiniStore(t)
    <3>1. op[t] = End
      BY <2>2 DEF ThreadFiniStore, Placed, Recorded
    <3> QED BY <1>2, <3>1
  <2> QED BY <2>1, <2>2
<1>4. WayBytes(op', pc') = WayBytes(op, pc)
  <2>1. CASE pc' = pc /\ op' = op
    BY <2>1
  <2>2. CASE op' = op /\ pc' = [pc EXCEPT ![t] = "retiring"]
    BY <1>2, <1>3, <2>2, WaySameOn
  <2>3. CASE op' = [op EXCEPT ![t] = End] /\ pc' = [pc EXCEPT ![t] = "ending"]
    BY <1>2, <1>3, <2>3, WaySame
  <2>4. CASE op' = [op EXCEPT ![t] = Idle] /\ pc' = [pc EXCEPT ![t] = "idle"]
    BY <1>2, <1>3, <2>4, WaySame
  <2> QED BY <2>1, <2>2, <2>3, <2>4 DEF ThreadFiniLoad, ThreadFiniStore, Goto
<1> QED BY <1>1, <1>4, SameMemory

LEMMA InitMemory == Init => MemoryHolds
<1> SUFFICES ASSUME Init PROVE MemoryHolds
  OBVIOUS
<1>1. WayBytes(op, pc) = {} /\ HitUnion(hit) = {}
  BY DEF Init, WayBytes, HitUnion, Idle
<1>2. memory \in [Memory -> Byte] /\ IsReads(remainingReads)
  BY InitRegistered, TypedMaps
<1>3. /\ DOMAIN remainingReads = {} /\ pendingWrites = {} /\ overtaken = {}
      /\ \A b \in Memory : memory[b].value = stored[b] /\ memory[b].faults = {}
  BY DEF Init, NoReads, Clean
<1> QED BY <1>1, <1>2, <1>3 DEF MemoryHolds, Agree

MemoryInv == IInv /\ MemoryHolds

LEMMA NextMemoryInv ==
  ASSUME WholeElementAccesses
  PROVE  MemoryInv /\ [Next]_vars => MemoryInv'
<1> SUFFICES ASSUME MemoryInv, [Next]_vars PROVE MemoryInv'
  OBVIOUS
<1>1. Placed /\ Typed /\ Registered /\ MemoryHolds
  BY DEF MemoryInv, IInv
<1>2. IInv'
  BY NextIInv DEF MemoryInv
<1>3. ASSUME UNCHANGED vars PROVE MemoryHolds'
  <2>1. /\ UNCHANGED <<memory, remainingReads, pendingWrites, stored, overtaken, unlocked>>
        /\ op' = op /\ pc' = pc /\ hit' = hit
    BY <1>3 DEF vars, buffer, handlers, histories
  <2> QED BY <1>1, <2>1, SameMemory
<1>4. ASSUME NEW t \in Threads, NEW o \in Loads \union Stores \union Markers, Begin(t, o)
      PROVE  MemoryHolds'
  BY <1>1, <1>4, BeginMemory
<1>5. ASSUME NEW t \in Threads, Miss(t) PROVE MemoryHolds'
  BY <1>1, <1>5, MissMemory
<1>6. ASSUME NEW t \in Threads, Enter(t) PROVE MemoryHolds'
  BY <1>1, <1>6, EnterMemory
<1>7. ASSUME NEW t \in Threads, RetireMain(t) PROVE MemoryHolds'
  BY <1>1, <1>7, RetireMainMemory
<1>8. ASSUME NEW t \in Threads, Leave(t) PROVE MemoryHolds'
  BY <1>1, <1>8, LeaveMemory
<1>9. ASSUME NEW t \in Threads, Execute(t) PROVE MemoryHolds'
  BY <1>1, <1>9, ExecuteMemory
<1>10. ASSUME NEW t \in Threads, ThreadFiniLoad(t) \/ ThreadFiniStore(t) PROVE MemoryHolds'
  BY <1>1, <1>10, ThreadFiniMemory
<1>11. ASSUME NEW t \in Threads, ThreadFiniRetire(t) PROVE MemoryHolds'
  <2>1. unlocked'
    BY <1>1, <1>11 DEF ThreadFiniRetire, histories, Placed, Recorded
  <2> QED BY <2>1 DEF MemoryHolds
<1>12. MemoryHolds'
  BY <1>3, <1>4, <1>5, <1>6, <1>7, <1>8, <1>9, <1>10, <1>11 DEF Next
<1> QED BY <1>2, <1>12 DEF MemoryInv

LEMMA SpecMemoryInv ==
  ASSUME WholeElementAccesses
  PROVE  Spec => []MemoryInv
<1>1. Init => MemoryInv
  BY InitIInv, InitMemory DEF MemoryInv
<1>2. MemoryInv /\ [Next]_vars => MemoryInv'
  BY NextMemoryInv
<1> QED BY <1>1, <1>2, PTL DEF Spec

\* No handler and no removal of any thread takes a store back, whatever the
\* other threads' handlers, loads, stores and endings do in between, until one
\* of them retires the buffer without the lock, and except where a write fault
\* is being injected under the store.
THEOREM LockedDataKept ==
  ASSUME WholeElementAccesses
  PROVE  Spec => []StoredDataSurvives
<1>1. MemoryInv => StoredDataSurvives
  BY DEF MemoryInv, MemoryHolds, Agree, StoredDataSurvives
<1> QED BY <1>1, SpecMemoryInv, PTL

\* A read fault in memory is under a backup that differs in that fault alone,
\* between any two steps of any threads, until one of them retires the buffer
\* without the lock, unless a store to it is on its way or was overtaken by an
\* injection.
THEOREM LockedReadFaultsReversed ==
  ASSUME WholeElementAccesses
  PROVE  Spec => []ReadFaultsReversible
<1>1. MemoryInv => ReadFaultsReversible
  <2> SUFFICES ASSUME MemoryInv, ~unlocked,
                      NEW b \in Memory \ (OnTheirWay \union overtaken), "read" \in memory[b].faults
               PROVE  \E a \in DOMAIN remainingReads :
                        /\ b \in Span(a)
                        /\ remainingReads[a][b - a] = [memory[b] EXCEPT !.faults = @ \ {"read"}]
    BY DEF ReadFaultsReversible
  <2>1. Agree(memory, remainingReads, pendingWrites, stored, WayBytes(op, pc), overtaken, HitUnion(hit))
    BY DEF MemoryInv, MemoryHolds
  <2>2. b \in Memory \ (WayBytes(op, pc) \union overtaken)
    BY DEF WayBytes, OnTheirWay
  <2>3. PICK a \in DOMAIN remainingReads : b \in Span(a)
    BY <2>1, <2>2 DEF Agree
  <2>4. b \in Span(a) \ overtaken
    BY <2>3
  <2>5. remainingReads[a][b - a] = WithoutRead(memory[b])
    BY <2>1, <2>4 DEF Agree
  <2> QED BY <2>3, <2>5 DEF WithoutRead
<1> QED BY <1>1, SpecMemoryInv, PTL
=============================================================================
