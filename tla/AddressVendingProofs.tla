------------------------- MODULE AddressVendingProofs -------------------------
(***************************************************************************)
(* Proofs about AddressVending, for any number of devices, proxies and     *)
(* power cycles: its type invariant, and that every device is routed to    *)
(* the one proxy that is bound to it.                                      *)
(***************************************************************************)
EXTENDS AddressVending, FiniteSetTheorems, TLAPS

-------------------------------------------------------------------------------
(* Type correctness.                                                       *)

(* Nobody's hardware ID and address are of the types of the others.        *)
LEMMA Unassigned == HWID_UNASSIGNED \in Word /\ ADDR_UNASSIGNED \in Address
BY DEF HWID_UNASSIGNED, Word, ADDR_UNASSIGNED, Address

LEMMA InitTypeOK == Init => TypeOK
<1> SUFFICES ASSUME Init PROVE TypeOK
  OBVIOUS
<1> USE VendingBounds, Unassigned DEF Init
<1>1. /\ connectedDevice \in [Proxy -> [connected : BOOLEAN, hardwareID : Word,
                                        address : Address]]
      /\ nextAddressToVend \in Address /\ isResettingBus \in BOOLEAN
  BY DEF NoDevice, FirstAddress, Address
<1>2. /\ reply \in SUBSET Assign /\ Cardinality(reply) <= 1
      /\ heardRequest \in SUBSET Request /\ Cardinality(heardRequest) <= 1
  BY FS_EmptySet
<1>3. /\ heardFrame \in [Device -> SUBSET (Assign \cup BusReset)]
      /\ \A d \in Device : Cardinality(heardFrame[d]) <= 1
  BY FS_EmptySet
<1>4. /\ address \in [Device -> Address] /\ due \in [Device -> BOOLEAN]
      /\ joined \in [Device -> 0..MaxBoots]
      /\ boots \in 1..MaxBoots /\ restarts \in 0..MaxRestarts
  OBVIOUS
<1> QED
  BY <1>1, <1>2, <1>3, <1>4 DEF TypeOK

(* A radio that hears a broadcast holds it and nothing else.               *)
LEMMA BroadcastType ==
  ASSUME TypeOK, NEW f \in Assign \cup BusReset, Broadcast(f)
  PROVE  /\ heardFrame' \in [Device -> SUBSET (Assign \cup BusReset)]
         /\ \A d \in Device : Cardinality(heardFrame'[d]) <= 1
<1>1. PICK S \in SUBSET {d \in Device : heardFrame[d] = {}} :
        heardFrame' = [d \in Device |-> IF d \in S THEN {f} ELSE heardFrame[d]]
  BY DEF Broadcast
<1>2. Cardinality({f}) = 1
  BY FS_Singleton
<1>3. /\ heardFrame \in [Device -> SUBSET (Assign \cup BusReset)]
      /\ \A d \in Device : Cardinality(heardFrame[d]) <= 1
  BY DEF TypeOK
<1>4. ASSUME NEW d \in Device
      PROVE  heardFrame'[d] \in {{f}, heardFrame[d]}
  BY <1>1
<1>5. heardFrame' \in [Device -> SUBSET (Assign \cup BusReset)]
  BY <1>1, <1>3
<1>6. ASSUME NEW d \in Device
      PROVE  Cardinality(heardFrame'[d]) <= 1
  BY <1>2, <1>3, <1>4
<1> QED
  BY <1>5, <1>6

(* A device's poll leaves at most one request in the controller's radio.   *)
LEMMA PollDeviceType ==
  ASSUME TypeOK, NEW d \in Device, NEW a, PollDevice(d, a)
  PROVE  /\ due' \in [Device -> BOOLEAN]
         /\ heardRequest' \in SUBSET Request /\ Cardinality(heardRequest') <= 1
<1>1. [command |-> "REQUEST_ADDRESS", device |-> d] \in Request
  BY DEF Request
<1>2. Cardinality({[command |-> "REQUEST_ADDRESS", device |-> d]}) = 1
  BY FS_Singleton
<1>3. heardRequest \in SUBSET Request /\ Cardinality(heardRequest) <= 1 /\ due \in [Device -> BOOLEAN]
  BY DEF TypeOK
<1>4. heardRequest' \in {heardRequest, {[command |-> "REQUEST_ADDRESS", device |-> d]}}
  BY DEF PollDevice
<1>5. due' \in [Device -> BOOLEAN]
  BY <1>3 DEF PollDevice
<1> QED
  BY <1>1, <1>2, <1>3, <1>4, <1>5

LEMMA BindType == TypeOK /\ Bind => TypeOK'
<1> SUFFICES ASSUME TypeOK, Bind PROVE TypeOK'
  OBVIOUS
<1>1. PICK f \in heardRequest, i \in Proxy :
        /\ nextAddressToVend' = CounterAfter(i)
        /\ connectedDevice' = [connectedDevice EXCEPT ![i] =
              [connected |-> TRUE, hardwareID |-> HardwareID[f.device],
               address |-> AddressFor(i)]]
        /\ reply' = {[command |-> "ASSIGN_ADDRESS", hardwareID |-> HardwareID[f.device],
                      address |-> AddressFor(i), boot |-> boots]}
  BY DEF Bind
<1>2. HardwareID[f.device] \in Word
  BY DeviceAssumption DEF TypeOK, Request
<1>3. AddressFor(i) \in Address /\ CounterAfter(i) \in Address
  <2>1. nextAddressToVend \in Address /\ connectedDevice[i].address \in Address
    BY DEF TypeOK
  <2>2. (nextAddressToVend + 1) % 256 \in Address
    BY <2>1 DEF Address
  <2> QED
    BY <2>1, <2>2 DEF AddressFor, CounterAfter
<1>4. reply' \in SUBSET Assign /\ Cardinality(reply') <= 1
  <2> DEFINE r == [command |-> "ASSIGN_ADDRESS", hardwareID |-> HardwareID[f.device],
                   address |-> AddressFor(i), boot |-> boots]
  <2>1. r \in Assign
    BY <1>2, <1>3 DEF Assign, TypeOK
  <2>2. Cardinality({r}) = 1
    BY FS_Singleton
  <2> QED
    BY <1>1, <2>1, <2>2
<1>5. connectedDevice' \in [Proxy -> [connected : BOOLEAN, hardwareID : Word,
                                      address : Address]]
  BY <1>1, <1>2, <1>3 DEF TypeOK
<1>6. heardRequest' \in SUBSET Request /\ Cardinality(heardRequest') <= 1
  BY FS_EmptySet DEF Bind
<1> QED
  BY <1>1, <1>3, <1>4, <1>5, <1>6 DEF TypeOK, Bind

(* An accepted assignment has an address and a power-on.                   *)
LEMMA AcceptedType ==
  ASSUME TypeOK, NEW d \in Device, NEW f \in heardFrame[d]
  PROVE  /\ AddressAfter(d, f) \in Address
         /\ Accepts(d, f) => f \in Assign
<1>1. f \in Assign \cup BusReset
  BY DEF TypeOK
<1>2. Accepts(d, f) => f \in Assign
  BY <1>1 DEF Accepts, BusReset
<1> QED
  BY <1>2 DEF AddressAfter, Assign, TypeOK, Address, ADDR_UNASSIGNED

LEMMA HandleFrameType ==
  ASSUME TypeOK, NEW d \in Device, HandleFrame(d)
  PROVE  TypeOK'
<1>1. PICK f \in heardFrame[d] :
        /\ address' = [address EXCEPT ![d] = AddressAfter(d, f)]
        /\ joined' = IF Accepts(d, f) THEN [joined EXCEPT ![d] = f.boot] ELSE joined
        /\ PollDevice(d, AddressAfter(d, f))
  BY DEF HandleFrame
<1>2. AddressAfter(d, f) \in Address /\ (Accepts(d, f) => f \in Assign)
  BY AcceptedType
<1>3. address' \in [Device -> Address]
  BY <1>1, <1>2 DEF TypeOK
<1>4. joined' \in [Device -> 0..MaxBoots]
  BY <1>1, <1>2, VendingBounds DEF TypeOK, Assign
<1>5. /\ heardFrame' \in [Device -> SUBSET (Assign \cup BusReset)]
      /\ \A e \in Device : Cardinality(heardFrame'[e]) <= 1
  BY FS_EmptySet DEF HandleFrame, TypeOK
<1>6. /\ due' \in [Device -> BOOLEAN]
      /\ heardRequest' \in SUBSET Request /\ Cardinality(heardRequest') <= 1
  BY <1>1, PollDeviceType
<1> QED
  BY <1>3, <1>4, <1>5, <1>6 DEF TypeOK, HandleFrame

LEMMA NextTypeOK == TypeOK /\ [Next]_vars => TypeOK'
<1> SUFFICES ASSUME TypeOK, [Next]_vars PROVE TypeOK'
  OBVIOUS
<1>1. CASE SendReply
  <2>1. PICK f \in Assign : Broadcast(f)
    BY <1>1 DEF SendReply, TypeOK
  <2> QED
    BY <1>1, <2>1, BroadcastType, FS_EmptySet DEF SendReply, TypeOK
<1>2. CASE Bind
  BY <1>2, BindType
<1>3. CASE PollController
  <2>1. [command |-> "BUS_RESET"] \in BusReset
    BY DEF BusReset
  <2>2. /\ heardFrame' \in [Device -> SUBSET (Assign \cup BusReset)]
        /\ \A d \in Device : Cardinality(heardFrame'[d]) <= 1
    BY <1>3, <2>1, BroadcastType DEF PollController, TypeOK
  <2> QED
    BY <1>3, <2>2, FS_EmptySet DEF PollController, TypeOK
<1>4. CASE RestartController
  <2>1. connectedDevice' \in [Proxy -> [connected : BOOLEAN, hardwareID : Word,
                                        address : Address]]
    BY <1>4, Unassigned DEF RestartController, NoDevice
  <2>2. boots' \in 1..MaxBoots /\ nextAddressToVend' \in Address
    BY <1>4, VendingBounds DEF RestartController, TypeOK, Address, FirstAddress
  <2>3. Cardinality(reply') <= 1 /\ Cardinality(heardRequest') <= 1
    BY <1>4, FS_EmptySet DEF RestartController
  <2> QED
    BY <1>4, <2>1, <2>2, <2>3 DEF RestartController, TypeOK
<1>5. ASSUME NEW d \in Device, HandleFrame(d) PROVE TypeOK'
  BY <1>5, HandleFrameType
<1>6. ASSUME NEW d \in Device, AskForAddress(d) PROVE TypeOK'
  BY <1>6, PollDeviceType DEF AskForAddress, TypeOK
<1>7. ASSUME NEW d \in Device, RestartDevice(d) PROVE TypeOK'
  <2>1. /\ heardFrame' \in [Device -> SUBSET (Assign \cup BusReset)]
        /\ \A e \in Device : Cardinality(heardFrame'[e]) <= 1
    BY <1>7, FS_EmptySet DEF RestartDevice, TypeOK
  <2> QED
    BY <1>7, <2>1, VendingBounds DEF RestartDevice, TypeOK, Address, ADDR_UNASSIGNED
<1>8. ASSUME NEW d \in Device, Elapse(d) PROVE TypeOK'
  BY <1>8 DEF Elapse, TypeOK
<1>9. CASE UNCHANGED vars
  BY <1>9 DEF vars, TypeOK
<1> QED
  BY <1>1, <1>2, <1>3, <1>4, <1>5, <1>6, <1>7, <1>8, <1>9 DEF Next, LoopController, LoopDevice

(* Addresses stay in a byte, power-ons are counted, and no radio, request  *)
(* or reply buffer ever holds two frames (Network.cpp 125-155).            *)
THEOREM VendingTypeCorrect == Spec => []TypeOK
BY InitTypeOK, NextTypeOK, PTL DEF Spec

-------------------------------------------------------------------------------
(* The inductive invariant.                                                *)

(* The counter does not reach the broadcast address, let alone wrap: every *)
(* proxy can get an address of its own.  A controller has a handful.       *)
EnoughAddresses == FirstAddress + NumProxies <= 255

(* Hardware IDs tell devices apart.                                        *)
DistinctIDs == \A d, e \in Device : HardwareID[d] = HardwareID[e] => d = e

(* Of a proxy that is not bound there is room in the counter.              *)
LEMMA CounterRoom ==
  ASSUME TypeOK, NEW i \in Proxy
  PROVE  /\ IsFiniteSet(BoundProxies) /\ Cardinality(BoundProxies) \in Nat
         /\ i \notin BoundProxies =>
               /\ Cardinality(BoundProxies \cup {i}) = Cardinality(BoundProxies) + 1
               /\ Cardinality(BoundProxies) + 1 <= NumProxies
<1>1. NumProxies \in Nat
  BY DeviceAssumption
<1>2. IsFiniteSet(Proxy) /\ Cardinality(Proxy) = NumProxies
  BY <1>1, FS_Interval DEF Proxy
<1>3. BoundProxies \subseteq Proxy
  BY DEF BoundProxies
<1>4. IsFiniteSet(BoundProxies)
  BY <1>2, <1>3, FS_Subset
<1>5. Cardinality(BoundProxies) \in Nat
  BY <1>4, FS_CardinalityType
<1>6. ASSUME i \notin BoundProxies
      PROVE  Cardinality(BoundProxies \cup {i}) = Cardinality(BoundProxies) + 1
  BY <1>4, <1>6, FS_AddElement
<1>7. Cardinality(BoundProxies \cup {i}) <= Cardinality(Proxy)
  BY <1>2, <1>3, FS_Subset
<1> QED
  BY <1>2, <1>4, <1>5, <1>6, <1>7

LEMMA InitIndInv == Init => IndInv
<1> SUFFICES ASSUME Init PROVE IndInv
  OBVIOUS
<1>1. TypeOK
  BY InitTypeOK
<1>2. BoundProxies = {}
  BY DEF Init, BoundProxies, NoDevice
<1>3. BindingInv
  BY <1>2 DEF BindingInv, Init
<1>4. CounterInv
  BY <1>2, FS_EmptySet DEF CounterInv, Init, FirstAddress
<1>5. ProxiesDisjoint
  BY DEF ProxiesDisjoint, Init, NoDevice
<1>6. Assignments = {}
  BY DEF Assignments, Init, Assigned
<1> QED
  BY <1>1, <1>3, <1>4, <1>5, <1>6 DEF IndInv, AssignmentInv, VendedOnce

(* What an assignment is.                                                  *)
LEMMA AssignmentsAre ==
  \A f : f \in Assignments <=>
         \/ f.command = "ASSIGN_ADDRESS" /\ (f \in reply \/ \E d \in Device : f \in heardFrame[d])
         \/ \E d \in Device : Assigned(d) /\ f = Holding(d)
  BY DEF Assignments

(* A step that binds no proxy and makes no assignment keeps the invariant. *)
LEMMA NothingVended ==
  ASSUME IndInv, TypeOK', Assignments' \subseteq Assignments,
         UNCHANGED <<connectedDevice, nextAddressToVend, boots>>
  PROVE  IndInv'
<1>1. BindingInv' /\ CounterInv' /\ ProxiesDisjoint'
  BY DEF IndInv, BindingInv, CounterInv, ProxiesDisjoint, BoundProxies
<1>2. AssignmentInv' /\ VendedOnce'
  BY DEF IndInv, AssignmentInv, VendedOnce, BoundProxies
<1> QED
  BY <1>1, <1>2 DEF IndInv

(* What the controller's transmissions, a device's turn, its power cycle   *)
(* and time do to the assignments there are: none of them makes one.       *)
LEMMA ControllerMakesNone ==
  ASSUME TypeOK, SendReply \/ PollController
  PROVE  Assignments' \subseteq Assignments
<1> SUFFICES ASSUME NEW f \in Assignments' PROVE f \in Assignments
  OBVIOUS
<1>1. \A d \in Device : heardFrame'[d] \subseteq heardFrame[d] \cup reply \cup BusReset
  <2>1. ASSUME NEW r, Broadcast(r), NEW d \in Device
        PROVE  heardFrame'[d] \subseteq heardFrame[d] \cup {r}
    BY <2>1 DEF Broadcast
  <2>2. [command |-> "BUS_RESET"] \in BusReset
    BY DEF BusReset
  <2>3. CASE SendReply
    BY <2>1, <2>3 DEF SendReply
  <2>4. CASE PollController
    BY <2>1, <2>2, <2>4 DEF PollController
  <2> QED
    BY <2>3, <2>4
<1>2. address' = address /\ joined' = joined /\ reply' \subseteq reply
  BY DEF SendReply, PollController
<1>3. CASE f.command = "ASSIGN_ADDRESS" /\ f \in reply'
  BY <1>2, <1>3, AssignmentsAre
<1>4. ASSUME f.command = "ASSIGN_ADDRESS", NEW d \in Device, f \in heardFrame'[d]
      PROVE  f \in Assignments
  <2>1. f \notin BusReset
    BY <1>4 DEF BusReset
  <2> QED
    BY <1>1, <1>4, <2>1, AssignmentsAre
<1>5. ASSUME NEW d \in Device, Assigned(d)', f = Holding(d)'
      PROVE  f \in Assignments
  BY <1>2, <1>5, AssignmentsAre DEF Assigned, Holding
<1> QED
  BY <1>3, <1>4, <1>5 DEF Assignments

LEMMA HandleFrameMakesNone ==
  ASSUME TypeOK, NEW d \in Device, HandleFrame(d)
  PROVE  Assignments' \subseteq Assignments
<1> SUFFICES ASSUME NEW f \in Assignments' PROVE f \in Assignments
  OBVIOUS
<1>1. PICK r \in heardFrame[d] :
        /\ address' = [address EXCEPT ![d] = AddressAfter(d, r)]
        /\ joined' = IF Accepts(d, r) THEN [joined EXCEPT ![d] = r.boot] ELSE joined
  BY DEF HandleFrame
<1>2. reply' = reply /\ heardFrame' = [heardFrame EXCEPT ![d] = {}]
  BY DEF HandleFrame
<1>3. CASE f.command = "ASSIGN_ADDRESS" /\ f \in reply'
  BY <1>2, <1>3, AssignmentsAre
<1>4. ASSUME f.command = "ASSIGN_ADDRESS", NEW e \in Device, f \in heardFrame'[e]
      PROVE  f \in Assignments
  <2>1. f \in heardFrame[e]
    BY <1>2, <1>4 DEF TypeOK
  <2> QED
    BY <1>4, <2>1, AssignmentsAre
<1>5. ASSUME NEW e \in Device, Assigned(e)', f = Holding(e)'
      PROVE  f \in Assignments
  <2>1. CASE e = d /\ Accepts(d, r)
    <3>1. r \in Assign
      BY AcceptedType, <2>1
    <3>2. address'[d] = r.address /\ joined'[d] = r.boot
      BY <1>1, <2>1 DEF TypeOK, AddressAfter, Accepts
    <3>3. f = [command |-> "ASSIGN_ADDRESS", hardwareID |-> r.hardwareID,
               address |-> r.address, boot |-> r.boot]
      BY <1>5, <2>1, <3>2 DEF Holding, Accepts
    <3>4. f = r
      BY <3>1, <3>3 DEF Assign
    <3> QED
      BY <2>1, <3>4, AssignmentsAre DEF Accepts
  <2>2. CASE e # d \/ ~Accepts(d, r)
    <3>1. joined'[e] = joined[e]
      BY <1>1, <2>2 DEF TypeOK
    <3>2. address'[e] \in {address[e], ADDR_UNASSIGNED}
      BY <1>1, <2>2 DEF TypeOK, AddressAfter
    <3>3. address'[e] = address[e] /\ Assigned(e)
      BY <1>5, <3>2 DEF Assigned
    <3> QED
      BY <1>5, <3>1, <3>3, AssignmentsAre DEF Holding
  <2> QED
    BY <2>1, <2>2
<1> QED
  BY <1>3, <1>4, <1>5 DEF Assignments

LEMMA RestartMakesNone ==
  ASSUME TypeOK, NEW d \in Device, RestartDevice(d)
  PROVE  Assignments' \subseteq Assignments
<1> SUFFICES ASSUME NEW f \in Assignments' PROVE f \in Assignments
  OBVIOUS
<1>1. /\ address' = [address EXCEPT ![d] = ADDR_UNASSIGNED]
      /\ heardFrame' = [heardFrame EXCEPT ![d] = {}]
      /\ reply' = reply /\ joined' = joined
  BY DEF RestartDevice
<1>2. ASSUME f.command = "ASSIGN_ADDRESS", NEW e \in Device, f \in heardFrame'[e]
      PROVE  f \in heardFrame[e]
  BY <1>1, <1>2 DEF TypeOK
<1>3. ASSUME NEW e \in Device, Assigned(e)', f = Holding(e)'
      PROVE  Assigned(e) /\ f = Holding(e)
  BY <1>1, <1>3 DEF TypeOK, Assigned, Holding
<1>4. \/ f.command = "ASSIGN_ADDRESS" /\ (f \in reply' \/ \E e \in Device : f \in heardFrame'[e])
      \/ \E e \in Device : Assigned(e)' /\ f = Holding(e)'
  BY DEF Assignments
<1> QED
  BY <1>1, <1>2, <1>3, <1>4, AssignmentsAre

(* A power-on leaves only assignments of the past.                         *)
LEMMA RestartControllerIndInv ==
  ASSUME IndInv, TypeOK', RestartController
  PROVE  IndInv'
<1>1. /\ connectedDevice' = [i \in Proxy |-> NoDevice] /\ nextAddressToVend' = FirstAddress
      /\ boots' = boots + 1 /\ reply' = {}
      /\ UNCHANGED <<address, joined, heardFrame>>
  BY DEF RestartController
<1>2. BoundProxies' = {}
  BY <1>1 DEF BoundProxies, NoDevice
<1>3. BindingInv' /\ ProxiesDisjoint'
  BY <1>1, <1>2 DEF BindingInv, ProxiesDisjoint, NoDevice
<1>4. CounterInv'
  <2>1. nextAddressToVend' = FirstAddress + 0
    BY <1>1 DEF FirstAddress
  <2> QED
    BY <1>2, <2>1, FS_EmptySet DEF CounterInv
<1>5. Assignments' \subseteq Assignments
  BY <1>1 DEF Assignments, Assigned, Holding
<1>6. boots \in Nat
  BY VendingBounds DEF IndInv, TypeOK
<1>7. AssignmentInv'
  <2>1. \A f \in Assignments' : f.boot \in 1..boots /\ f.address # ADDR_UNASSIGNED
    BY <1>5 DEF IndInv, AssignmentInv
  <2>2. \A f \in Assignments' : f.boot \in 1..boots' /\ f.boot # boots'
    BY <1>1, <1>5, <1>6, <2>1
  <2> QED
    BY <2>1, <2>2 DEF AssignmentInv
<1>8. VendedOnce'
  BY <1>5 DEF IndInv, VendedOnce
<1> QED
  BY <1>3, <1>4, <1>7, <1>8 DEF IndInv

(* What a binding does, for a device that returns and for a new one.       *)
LEMMA BindMeans ==
  ASSUME IndInv, Bind, EnoughAddresses
  PROVE  \E i \in Proxy, n \in Assign :
           /\ Assignments' \subseteq Assignments \cup {n}
           /\ n.boot = boots
           /\ connectedDevice' = [connectedDevice EXCEPT ![i] =
                 [connected |-> TRUE, hardwareID |-> n.hardwareID, address |-> n.address]]
           /\ n.hardwareID # HWID_UNASSIGNED
           /\ \/ /\ i \in BoundProxies
                 /\ n.hardwareID = connectedDevice[i].hardwareID
                 /\ n.address = connectedDevice[i].address
                 /\ connectedDevice' = connectedDevice
                 /\ nextAddressToVend' = nextAddressToVend
              \/ /\ i \notin BoundProxies
                 /\ \A j \in BoundProxies : connectedDevice[j].hardwareID # n.hardwareID
                 /\ n.address = nextAddressToVend
                 /\ nextAddressToVend' = nextAddressToVend + 1
<1> USE DEF IndInv
<1>1. PICK f \in heardRequest, i \in Proxy :
        /\ First(Candidates(f.device), i)
        /\ nextAddressToVend' = CounterAfter(i)
        /\ connectedDevice' = [connectedDevice EXCEPT ![i] =
              [connected |-> TRUE, hardwareID |-> HardwareID[f.device],
               address |-> AddressFor(i)]]
        /\ reply' = {[command |-> "ASSIGN_ADDRESS", hardwareID |-> HardwareID[f.device],
                      address |-> AddressFor(i), boot |-> boots]}
  BY DEF Bind
<1>2. UNCHANGED <<boots, address, joined, heardFrame>> /\ reply = {}
  BY DEF Bind
<1>3. PICK n : n = [command |-> "ASSIGN_ADDRESS", hardwareID |-> HardwareID[f.device],
                    address |-> AddressFor(i), boot |-> boots]
  OBVIOUS
<1>4. n \in Assign
  <2>1. TypeOK'
    BY BindType
  <2> QED
    BY <1>1, <1>3, <2>1 DEF TypeOK
<1>5. Assignments' \subseteq Assignments \cup {n}
  BY <1>1, <1>2, <1>3 DEF Assignments, Assigned, Holding
<1>6. HardwareID[f.device] \in Word \ {HWID_UNASSIGNED}
  BY DeviceAssumption DEF TypeOK, Request
<1>7. i \in Candidates(f.device)
  BY <1>1 DEF First
<1>8. CASE connectedDevice[i].hardwareID = HardwareID[f.device]
  <2>1. i \in BoundProxies
    BY <1>6, <1>8 DEF BindingInv, NoDevice
  <2>2. connectedDevice[i].connected = TRUE
    BY <2>1 DEF BoundProxies, TypeOK
  <2>3. connectedDevice[i].address # ADDR_UNASSIGNED
    BY <2>2 DEF ProxiesDisjoint, FirstAddress, ADDR_UNASSIGNED
  <2>4. AddressFor(i) = connectedDevice[i].address /\ CounterAfter(i) = nextAddressToVend
    BY <2>3 DEF AddressFor, CounterAfter, IsNew
  <2>5. connectedDevice[i] = [connected |-> TRUE, hardwareID |-> HardwareID[f.device],
                              address |-> AddressFor(i)]
    BY <1>8, <2>2, <2>4 DEF TypeOK
  <2>6. connectedDevice' = connectedDevice
    BY <1>1, <2>5 DEF TypeOK
  <2> QED
    BY <1>1, <1>3, <1>4, <1>5, <1>6, <1>8, <2>1, <2>4, <2>6
<1>9. CASE connectedDevice[i].hardwareID # HardwareID[f.device]
  <2>1. /\ \A j \in Proxy : connectedDevice[j].hardwareID # HardwareID[f.device]
        /\ ~connectedDevice[i].connected
    BY <1>7, <1>9 DEF Candidates
  <2>2. i \notin BoundProxies
    BY <2>1 DEF BoundProxies
  <2>3. connectedDevice[i].address = ADDR_UNASSIGNED
    BY <2>2 DEF BindingInv, NoDevice
  <2>4. AddressFor(i) = nextAddressToVend /\ CounterAfter(i) = (nextAddressToVend + 1) % 256
    BY <2>3 DEF AddressFor, CounterAfter, IsNew
  <2>5. nextAddressToVend + 1 \in 0..255
    <3>1. Cardinality(BoundProxies) \in Nat /\ Cardinality(BoundProxies) + 1 <= NumProxies
      BY <2>2, CounterRoom
    <3>2. NumProxies \in Nat
      BY DeviceAssumption
    <3> QED
      BY <3>1, <3>2 DEF CounterInv, EnoughAddresses, FirstAddress
  <2>6. (nextAddressToVend + 1) % 256 = nextAddressToVend + 1
    BY <2>5
  <2>7. \A j \in BoundProxies : connectedDevice[j].hardwareID # HardwareID[f.device]
    BY <2>1 DEF BoundProxies
  <2> QED
    BY <1>1, <1>3, <1>4, <1>5, <1>6, <2>2, <2>4, <2>6, <2>7
<1> QED
  BY <1>8, <1>9

LEMMA BindIndInv ==
  ASSUME IndInv, TypeOK', Bind, EnoughAddresses
  PROVE  IndInv'
<1> USE DEF IndInv
<1>1. PICK i \in Proxy, n \in Assign :
        /\ Assignments' \subseteq Assignments \cup {n}
        /\ n.boot = boots
        /\ connectedDevice' = [connectedDevice EXCEPT ![i] =
              [connected |-> TRUE, hardwareID |-> n.hardwareID, address |-> n.address]]
        /\ n.hardwareID # HWID_UNASSIGNED
        /\ \/ /\ i \in BoundProxies
              /\ n.hardwareID = connectedDevice[i].hardwareID
              /\ n.address = connectedDevice[i].address
              /\ connectedDevice' = connectedDevice
              /\ nextAddressToVend' = nextAddressToVend
           \/ /\ i \notin BoundProxies
              /\ \A j \in BoundProxies : connectedDevice[j].hardwareID # n.hardwareID
              /\ n.address = nextAddressToVend
              /\ nextAddressToVend' = nextAddressToVend + 1
  BY BindMeans
<1>2. boots' = boots
  BY DEF Bind
<1>3. \A j \in BoundProxies : j \in Proxy /\ connectedDevice[j].address \in FirstAddress..(nextAddressToVend - 1)
  BY DEF ProxiesDisjoint, BoundProxies
<1>4. \A j, k \in BoundProxies : connectedDevice[j].address = connectedDevice[k].address => j = k
  BY DEF ProxiesDisjoint, BoundProxies
(* The new assignment against those of this power-on.                      *)
<1>5. \A g \in Assignments : g.boot = boots /\ g.address = n.address => g.hardwareID = n.hardwareID
  <2> SUFFICES ASSUME NEW g \in Assignments, g.boot = boots, g.address = n.address
               PROVE  g.hardwareID = n.hardwareID
    OBVIOUS
  <2>1. PICK j \in BoundProxies : /\ connectedDevice[j].hardwareID = g.hardwareID
                                  /\ connectedDevice[j].address = g.address
    BY DEF AssignmentInv
  <2>2. CASE i \in BoundProxies /\ n.hardwareID = connectedDevice[i].hardwareID
                                /\ n.address = connectedDevice[i].address
    BY <1>4, <2>1, <2>2
  <2>3. CASE n.address = nextAddressToVend
    <3>1. nextAddressToVend \in Nat
      BY DEF TypeOK, Address
    <3> QED
      BY <1>3, <2>1, <2>3, <3>1 DEF FirstAddress
  <2> QED
    BY <1>1, <2>2, <2>3
<1>6. VendedOnce'
  BY <1>1, <1>5 DEF VendedOnce
<1>7. \A j \in Proxy : connectedDevice'[j] =
         IF j = i THEN [connected |-> TRUE, hardwareID |-> n.hardwareID, address |-> n.address]
         ELSE connectedDevice[j]
  BY <1>1 DEF TypeOK
<1>8. BoundProxies' = BoundProxies \cup {i}
  BY <1>7 DEF BoundProxies
<1>9. BindingInv'
  BY <1>1, <1>7, <1>8 DEF BindingInv
<1>10. n.address # ADDR_UNASSIGNED
  <2>1. nextAddressToVend \in Nat
    BY DEF TypeOK, Address
  <2>2. Cardinality(BoundProxies) \in Nat
    BY CounterRoom
  <2> QED
    BY <1>1, <1>3, <2>1, <2>2 DEF CounterInv, FirstAddress, ADDR_UNASSIGNED
<1>11. AssignmentInv'
  <2>1. ASSUME NEW f \in Assignments
        PROVE  /\ f.boot \in 1..boots' /\ f.address # ADDR_UNASSIGNED
               /\ f.boot = boots' => \E j \in BoundProxies' :
                     /\ connectedDevice'[j].hardwareID = f.hardwareID
                     /\ connectedDevice'[j].address = f.address
    <3>1. f.boot \in 1..boots' /\ f.address # ADDR_UNASSIGNED
      BY <1>2 DEF AssignmentInv
    <3>2. ASSUME f.boot = boots
          PROVE  \E j \in BoundProxies' : /\ connectedDevice'[j].hardwareID = f.hardwareID
                                          /\ connectedDevice'[j].address = f.address
      <4>1. PICK j \in BoundProxies : /\ connectedDevice[j].hardwareID = f.hardwareID
                                      /\ connectedDevice[j].address = f.address
        BY <3>2 DEF AssignmentInv
      <4>2. j \in BoundProxies' /\ j \in Proxy
        BY <1>3, <1>8
      <4>3. connectedDevice'[j] = connectedDevice[j] \/ connectedDevice' = connectedDevice
        BY <1>1, <1>7, <4>2
      <4> QED
        BY <4>1, <4>2, <4>3
    <3> QED
      BY <1>2, <3>1, <3>2
  <2>2. /\ n.boot \in 1..boots' /\ n.address # ADDR_UNASSIGNED
        /\ i \in BoundProxies' /\ connectedDevice'[i].hardwareID = n.hardwareID
        /\ connectedDevice'[i].address = n.address
    <3>1. boots \in 1..boots
      BY VendingBounds DEF TypeOK
    <3>2. n.boot \in 1..boots'
      BY <1>1, <1>2, <3>1
    <3> QED
      BY <1>1, <1>7, <1>8, <1>10, <3>2
  <2> QED
    BY <1>1, <2>1, <2>2 DEF AssignmentInv
<1>12. CASE connectedDevice' = connectedDevice /\ nextAddressToVend' = nextAddressToVend
  BY <1>12, <1>6, <1>9, <1>11 DEF CounterInv, ProxiesDisjoint, BoundProxies
<1>13. CASE /\ i \notin BoundProxies
            /\ \A j \in BoundProxies : connectedDevice[j].hardwareID # n.hardwareID
            /\ n.address = nextAddressToVend
            /\ nextAddressToVend' = nextAddressToVend + 1
  <2>1. /\ Cardinality(BoundProxies) \in Nat
        /\ Cardinality(BoundProxies \cup {i}) = Cardinality(BoundProxies) + 1
    BY <1>13, CounterRoom
  <2>2. CounterInv'
    <3>1. Cardinality(BoundProxies') = Cardinality(BoundProxies) + 1
      BY <1>8, <2>1
    <3> QED
      BY <1>13, <2>1, <3>1 DEF CounterInv, FirstAddress
  <2>3. nextAddressToVend \in Nat /\ FirstAddress \in Nat /\ FirstAddress <= nextAddressToVend
    BY <2>1 DEF CounterInv, FirstAddress
  <2>4. ASSUME NEW j \in BoundProxies
        PROVE  /\ j \in Proxy /\ j # i /\ connectedDevice'[j] = connectedDevice[j]
               /\ connectedDevice[j].address # n.address
               /\ connectedDevice[j].hardwareID # n.hardwareID
               /\ connectedDevice[j].address \in FirstAddress..(nextAddressToVend' - 1)
    BY <1>3, <1>7, <1>13, <2>3, <2>4
  <2>5. /\ connectedDevice'[i].address = n.address /\ connectedDevice'[i].hardwareID = n.hardwareID
        /\ n.address \in FirstAddress..(nextAddressToVend' - 1)
    BY <1>7, <1>13, <2>3
  <2>6. ASSUME NEW j \in Proxy, NEW k \in Proxy, j # k, j \in BoundProxies', k \in BoundProxies'
        PROVE  /\ connectedDevice'[j].address # connectedDevice'[k].address
               /\ connectedDevice'[j].hardwareID # connectedDevice'[k].hardwareID
    <3>1. CASE j = i
      BY <1>8, <2>4, <2>5, <2>6, <3>1
    <3>2. CASE k = i
      BY <1>8, <2>4, <2>5, <2>6, <3>2
    <3>3. CASE j # i /\ k # i
      <4>1. j \in BoundProxies /\ k \in BoundProxies
        BY <1>8, <2>6, <3>3
      <4> QED
        BY <2>4, <2>6, <4>1 DEF ProxiesDisjoint, BoundProxies
    <3> QED
      BY <3>1, <3>2, <3>3
  <2>7. ASSUME NEW j \in BoundProxies'
        PROVE  connectedDevice'[j].address \in FirstAddress..(nextAddressToVend' - 1)
    BY <1>8, <2>4, <2>5, <2>7
  <2>8. ProxiesDisjoint'
    BY <2>6, <2>7 DEF ProxiesDisjoint, BoundProxies
  <2> QED
    BY <1>6, <1>9, <1>11, <2>2, <2>8
<1> QED
  BY <1>1, <1>12, <1>13

LEMMA NextIndInv ==
  ASSUME IndInv, [Next]_vars, EnoughAddresses
  PROVE  IndInv'
<1>1. TypeOK /\ TypeOK'
  BY NextTypeOK DEF IndInv
<1>2. CASE SendReply \/ PollController
  BY <1>1, <1>2, ControllerMakesNone, NothingVended DEF SendReply, PollController
<1>3. CASE Bind
  BY <1>1, <1>3, BindIndInv
<1>4. CASE RestartController
  BY <1>1, <1>4, RestartControllerIndInv
<1>5. ASSUME NEW d \in Device, HandleFrame(d) PROVE IndInv'
  BY <1>1, <1>5, HandleFrameMakesNone, NothingVended DEF HandleFrame
<1>6. ASSUME NEW d \in Device, RestartDevice(d) PROVE IndInv'
  BY <1>1, <1>6, RestartMakesNone, NothingVended DEF RestartDevice
<1>7. ASSUME UNCHANGED <<connectedDevice, nextAddressToVend, reply, boots, address, joined,
                         heardFrame>>
      PROVE  IndInv'
  <2>1. Assignments' \subseteq Assignments
    BY <1>7 DEF Assignments, Assigned, Holding
  <2> QED
    BY <1>1, <1>7, <2>1, NothingVended
<1>8. ASSUME NEW d \in Device, AskForAddress(d) \/ Elapse(d) PROVE IndInv'
  BY <1>7, <1>8 DEF AskForAddress, Elapse
<1>9. CASE UNCHANGED vars
  BY <1>7, <1>9 DEF vars
<1> QED
  BY <1>2, <1>3, <1>4, <1>5, <1>6, <1>8, <1>9 DEF Next, LoopController, LoopDevice

(* The inductive invariant holds of every controller whose proxies do not  *)
(* use up the addresses.                                                   *)
THEOREM VendingInvariant ==
  ASSUME EnoughAddresses
  PROVE  Spec => []IndInv
<1>1. IndInv /\ [Next]_vars => IndInv'
  BY NextIndInv
<1> QED
  BY InitIndInv, <1>1, PTL DEF Spec

(* No two proxies are bound to one device or one address, and what they    *)
(* are bound to has been vended (DeviceControlService.cpp 80-88).          *)
THEOREM ProxiesStayDisjoint ==
  ASSUME EnoughAddresses
  PROVE  Spec => []ProxiesDisjoint
<1>1. IndInv => ProxiesDisjoint
  BY DEF IndInv
<1> QED
  BY VendingInvariant, <1>1, PTL

(* The packets of a device of the present power-on get to the one proxy    *)
(* that is bound to it, through lost and late assignments, repeated        *)
(* requests and power cycles (Network.cpp 222-230).                        *)
THEOREM PacketsReachOwnProxy ==
  ASSUME EnoughAddresses
  PROVE  Spec => []RoutedToOwnProxy
<1>1. IndInv => RoutedToOwnProxy
  <2> SUFFICES ASSUME IndInv, NEW d \in Device, Current(d)
               PROVE  \E i \in Proxy : /\ FindByAddress(address[d], i)
                                       /\ connectedDevice[i].hardwareID = HardwareID[d]
    BY DEF RoutedToOwnProxy
  <2>1. Holding(d) \in Assignments /\ Holding(d).boot = boots
    BY AssignmentsAre DEF Current, Holding
  <2>2. PICK i \in BoundProxies : /\ connectedDevice[i].hardwareID = Holding(d).hardwareID
                                  /\ connectedDevice[i].address = Holding(d).address
    BY <2>1 DEF IndInv, AssignmentInv
  <2>3. /\ connectedDevice[i].hardwareID = HardwareID[d]
        /\ connectedDevice[i].address = address[d] /\ address[d] # ADDR_UNASSIGNED
    BY <2>2 DEF Holding, Current, Assigned
  <2>4. ASSUME NEW j \in Proxy, connectedDevice[j].address = address[d]
        PROVE  j = i
    <3>1. j \in BoundProxies
      BY <2>3, <2>4 DEF IndInv, BindingInv, NoDevice
    <3> QED
      BY <2>2, <2>3, <2>4, <3>1 DEF IndInv, ProxiesDisjoint, BoundProxies
  <2>5. i \in Proxy /\ i <= i
    BY <2>2, DeviceAssumption DEF BoundProxies, Proxy
  <2> QED
    BY <2>3, <2>4, <2>5 DEF FindByAddress, First
<1> QED
  BY VendingInvariant, <1>1, PTL

(* Devices with different hardware IDs that were connected by the same     *)
(* power-on of the controller have different addresses, for good           *)
(* ("each will receive its own bus address", README.md 44).                *)
THEOREM AddressesDiffer ==
  ASSUME EnoughAddresses, DistinctIDs
  PROVE  Spec => []OwnAddress
<1>1. IndInv => OwnAddress
  <2> SUFFICES ASSUME IndInv, NEW d \in Device, NEW e \in Device, Assigned(d), Assigned(e),
                      joined[d] = joined[e], address[d] = address[e]
               PROVE  d = e
    BY DEF OwnAddress
  <2>1. Holding(d) \in Assignments /\ Holding(e) \in Assignments
    BY AssignmentsAre
  <2>2. Holding(d).hardwareID = Holding(e).hardwareID
    BY <2>1 DEF IndInv, VendedOnce, Holding
  <2> QED
    BY <2>2 DEF Holding, DistinctIDs
<1> QED
  BY VendingInvariant, <1>1, PTL

(* What a proxy is bound to changes with a power-on of the controller only *)
(* (BasePeripheral.cpp 160-164, DeviceControlService.cpp 80-85).           *)
THEOREM BindingsAreKept ==
  ASSUME EnoughAddresses
  PROVE  Spec => BindingIsKept
<1>1. ASSUME IndInv, [Next]_vars
      PROVE  [\A i \in Proxy : connectedDevice[i].connected /\ boots' = boots
                 => connectedDevice[i]' = connectedDevice[i]]_vars
  <2>1. CASE Bind
    <3>1. PICK i \in Proxy, n \in Assign :
            /\ connectedDevice' = [connectedDevice EXCEPT ![i] =
                 [connected |-> TRUE, hardwareID |-> n.hardwareID, address |-> n.address]]
            /\ connectedDevice' = connectedDevice \/ i \notin BoundProxies
      BY <1>1, <2>1, BindMeans
    <3>2. \A j \in BoundProxies : connectedDevice'[j] = connectedDevice[j]
      BY <1>1, <3>1 DEF IndInv, TypeOK, BoundProxies
    <3> QED
      BY <3>2 DEF BoundProxies
  <2>2. CASE RestartController
    <3>1. boots' # boots
      BY <1>1, <2>2, VendingBounds DEF RestartController, IndInv, TypeOK
    <3> QED
      BY <3>1
  <2>3. CASE connectedDevice' = connectedDevice
    BY <2>3
  <2>4. ~Bind /\ ~RestartController => connectedDevice' = connectedDevice
    BY <1>1 DEF Next, LoopController, LoopDevice, SendReply, PollController, HandleFrame,
       AskForAddress, RestartDevice, Elapse, vars
  <2> QED
    BY <2>1, <2>2, <2>3, <2>4
<1> QED
  BY VendingInvariant, <1>1, PTL DEF Spec, BindingIsKept
===============================================================================
