----------------------------- MODULE PeripheralList -----------------------------
(***************************************************************************)
(* The linked list of BasePeripheral objects: what constructor and         *)
(* destructor do to it, pointer by pointer, and the walks over it.         *)
(*                                                                         *)
(* The constructor does not set _nextPeripheral: an object starts with     *)
(* whatever is in its memory, which is NULL for objects with static        *)
(* storage.  Memory that is used again is left as the last object had it.  *)
(***************************************************************************)
EXTENDS Naturals, Sequences, FiniteSets

CONSTANTS Object,  \* places in memory for peripheral objects
          NULL

ObjectAssumption == IsFiniteSet(Object) /\ NULL \notin Object

VARIABLES firstPeripheral,  \* _firstPeripheral
          nextPeripheral,   \* nextPeripheral[o]: _nextPeripheral in the memory of o
          alive,            \* the constructed objects, oldest first
          initialized,      \* Makernet.initialize() has been called
          configured,       \* the objects whose configure() has been called
          outlived          \* history: how many of the constructed objects, the oldest
                            \* ones, have seen a younger one destroyed

vars == <<firstPeripheral, nextPeripheral, alive, initialized, configured, outlived>>

Pointer == Object \cup {NULL}
Living == {alive[k] : k \in DOMAIN alive}

TypeOK == /\ firstPeripheral \in Pointer
          /\ nextPeripheral \in [Object -> Pointer]
          /\ \E n \in 0..Cardinality(Object) : alive \in [1..n -> Object]
          /\ initialized \in BOOLEAN
          /\ configured \subseteq Object
          /\ outlived \in 0..Len(alive)

Init == /\ firstPeripheral = NULL
        /\ nextPeripheral = [o \in Object |-> NULL]
        /\ alive = <<>>
        /\ initialized = FALSE
        /\ configured = {}
        /\ outlived = 0

(* The pointer after k steps from the first one; at[k] = NULL beyond the   *)
(* end.  Cardinality(Object) steps reach everything that can be reached.   *)
Walk == LET at[k \in 0..Cardinality(Object)] ==
              IF k = 0 THEN firstPeripheral
              ELSE IF at[k - 1] = NULL THEN NULL ELSE nextPeripheral[at[k - 1]]
        IN  at

Reached == {Walk[k] : k \in DOMAIN Walk} \ {NULL}

(* The constructor goes to the end of the list; there it writes itself     *)
(* over the NULL it has found.  In a list that has no end it stays for     *)
(* ever.                                                                   *)
Link(o) ==
  IF firstPeripheral = NULL THEN firstPeripheral' = o /\ UNCHANGED nextPeripheral
  ELSE /\ \E last \in Reached :
             /\ nextPeripheral[last] = NULL
             /\ nextPeripheral' = [nextPeripheral EXCEPT ![last] = o]
       /\ UNCHANGED firstPeripheral

Construct(o) ==
  /\ o \notin Living
  /\ Link(o)
  /\ alive' = [k \in 1..(Len(alive) + 1) |-> IF k \in DOMAIN alive THEN alive[k] ELSE o]
  /\ UNCHANGED <<initialized, configured, outlived>>

(* The destructor: the walk finds the object, but prev is still NULL then, *)
(* so the object's successor becomes the first one.                        *)
NotUnlinked(o) == firstPeripheral  \* mutant: the object stays in the list
FirstWithout(o) == IF o \in Reached THEN nextPeripheral[o] ELSE firstPeripheral

Destroy(o) ==
  /\ o \in Living
  /\ firstPeripheral' = FirstWithout(o)
  /\ LET age == CHOOSE k \in DOMAIN alive : alive[k] = o
     IN  /\ alive' = [k \in 1..(Len(alive) - 1) |-> IF k < age THEN alive[k] ELSE alive[k + 1]]
         /\ outlived' = (IF age > outlived THEN age ELSE outlived) - 1
  /\ configured' = configured \ {o}
  /\ UNCHANGED <<nextPeripheral, initialized>>

(* initializeAllPeripherals(), once: configure() registers the services of *)
(* an object, without which no packet reaches it.                          *)
Initialize ==
  /\ ~initialized
  /\ initialized' = TRUE
  /\ configured' = Reached
  /\ UNCHANGED <<firstPeripheral, nextPeripheral, alive, outlived>>

Next == Initialize \/ \E o \in Object : Construct(o) \/ Destroy(o)

Spec == Init /\ [][Next]_vars

(* Objects that start in memory that is zero, as those with static storage *)
(* do; they are destroyed in any order, the reverse of the order of their  *)
(* construction, which is the language's, included.                        *)
ZeroedNext == \/ Initialize
              \/ \E o \in Object : (nextPeripheral[o] = NULL /\ Construct(o)) \/ Destroy(o)

ZeroedSpec == Init /\ [][ZeroedNext]_vars

-------------------------------------------------------------------------------
(* Properties.                                                             *)

(* What the destructor may cost: an object is in the list unless a younger *)
(* one has been destroyed, so an object constructed later always is, and   *)
(* all are until the first is destroyed; and every walk goes from older    *)
(* living objects to younger ones, so it meets no destroyed one and ends   *)
(* (BasePeripheral.cpp 20-36, 83-95, 122-172).                             *)
ListInOrder ==
  /\ \A k \in DOMAIN alive : k > outlived => alive[k] \in Reached
  /\ \A k \in DOMAIN Walk : Walk[k] # NULL =>
        \E j \in DOMAIN alive : /\ Walk[k] = alive[j]
                               /\ k > 0 => \E i \in 1..(j - 1) : Walk[k - 1] = alive[i]

-------------------------------------------------------------------------------
(* What the documents promise and TLC refutes (the README names the        *)
(* instances).                                                             *)

(* "The constructor and destructor have been designed to automatically     *)
(* maintain a global linked list of all object instances"                  *)
(* (BasePeripheral.h 23-25): what a walk finds is the objects that live.   *)
ListsAllInstances == Reached = Living

(* ... "so that no additional action from the end-user is needed to handle *)
(* dispatch and discovery" (BasePeripheral.h 25-26): an object in the list *)
(* of a running framework is configured.                                   *)
NoFurtherAction == initialized => Reached \subseteq configured
===============================================================================
