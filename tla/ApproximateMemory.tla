------------------------- MODULE ApproximateMemory -------------------------
(***************************************************************************)
(* What an approximate buffer promises the program that uses it, whatever  *)
(* it keeps to do so.  The data the program stored are only changed by     *)
(* write faults; each approximate write gets its fault at most once, no    *)
(* later than the first read of the element; read faults are on view only, *)
(* and go when the element is next read or written or the buffer retires.  *)
(*                                                                         *)
(* Exact distinguishes the two implementations.  An exact buffer injects a *)
(* write when its own element is read, and forgets it when the element is  *)
(* written precisely.  An eager one may inject it sooner and may keep it.  *)
(***************************************************************************)
EXTENDS Integers

CONSTANTS
  Elements,  \* the elements of the buffer
  Contents,  \* what the program may store in an element
  Exact      \* a Boolean: whether reads and precise writes settle exactly their elements

VARIABLES
  data,       \* what each element holds and whether a write fault is in it
  undecided,  \* elements whose last write may still be injected
  exposed     \* elements whose content on view carries read faults

absVars == <<data, undecided, exposed>>

Datum == [content : Contents, faulty : BOOLEAN]

AbsTypeOK ==
  /\ data \in [Elements -> Datum]
  /\ undecided \subseteq Elements
  /\ exposed \subseteq Elements

AbsInit ==
  /\ data \in [Elements -> [content : Contents, faulty : {FALSE}]]
  /\ undecided = {}
  /\ exposed = {}

\* The undecided writes of the elements in T are decided: those in hit, a part
\* of them, get a fault.
Decide(T, hit) ==
  /\ undecided' = undecided \ T
  /\ data' = [e \in Elements |-> IF e \in hit THEN [data[e] EXCEPT !.faulty = TRUE] ELSE data[e]]

AbsRead(E, approximate) ==
  /\ \E seen \in IF approximate THEN SUBSET E ELSE {{}} : exposed' = (exposed \ E) \union seen
  /\ \E T \in SUBSET undecided :
       /\ E \intersect undecided \subseteq T
       /\ Exact => T \subseteq E
       /\ \E hit \in SUBSET T : Decide(T, hit)

AbsWrite(E, c, approximate) ==
  /\ exposed' = exposed \ E
  /\ IF approximate THEN undecided' = undecided \union E
     ELSE \E kept \in IF Exact THEN {{}} ELSE SUBSET (undecided \intersect E) :
            undecided' = (undecided \ E) \union kept
  /\ data' = [e \in Elements |-> IF e \in E THEN [content |-> c, faulty |-> FALSE] ELSE data[e]]

AbsRetire ==
  /\ exposed' = {}
  /\ \E hit \in SUBSET undecided : Decide(undecided, hit)

AbsNext ==
  \/ \E E \in SUBSET Elements, approximate \in BOOLEAN : AbsRead(E, approximate)
  \/ \E E \in SUBSET Elements, c \in Contents, approximate \in BOOLEAN : AbsWrite(E, c, approximate)
  \/ AbsRetire

AbsSpec == AbsInit /\ [][AbsNext]_absVars
=============================================================================
