---------------------------- MODULE AddressVending ----------------------------
(***************************************************************************)
(* How the controller's DeviceControlService binds devices to proxy        *)
(* objects (BasePeripheral) and vends them addresses over the packet       *)
(* radio, with power cycles of either side.                                *)
(*                                                                         *)
(* Every node runs Network::loop() for ever and holds at most one received *)
(* frame and, the controller only, one deferred reply.  A broadcast        *)
(* reaches any subset of the nodes that can take a frame.  DCS_GENERAL_POLL *)
(* frames and the requests of other devices change nothing at a node that  *)
(* receives them and are left out.                                         *)
(***************************************************************************)
EXTENDS Naturals, FiniteSets

CONSTANTS Device,      \* the devices
          HardwareID,  \* HardwareID[d]: what getHardwareID() returns on d
          DeviceType,  \* DeviceType[d]: the type d's firmware registers
          ProxyType,   \* ProxyType[i]: _deviceType of the i-th BasePeripheral
          NumProxies,  \* length of the controller's list of BasePeripherals
          MaxBoots,    \* bound: power-ons of the controller
          MaxRestarts  \* bound: power cycles of devices

Word == 0..65535  \* uint16_t
ADDR_UNASSIGNED == 0
HWID_UNASSIGNED == 0
FirstAddress == 160

Proxy == 1..NumProxies

ASSUME DeviceAssumption ==
  /\ HardwareID \in [Device -> Word \ {HWID_UNASSIGNED}]
  /\ DOMAIN DeviceType = Device
  /\ NumProxies \in Nat /\ DOMAIN ProxyType = Proxy
ASSUME VendingBounds == MaxBoots \in Nat \ {0} /\ MaxRestarts \in Nat

VARIABLES connectedDevice,    \* connectedDevice[i]: the profile bound to proxy i
          nextAddressToVend,
          isResettingBus,
          reply,              \* the controller's deferred reply, if any
          heardRequest,       \* the frame in the controller's radio, if any
          address,            \* address[d]: Makernet.network.address on device d
          due,                \* due[d]: d's polling timer has passed
          heardFrame,         \* heardFrame[d]: the frame in d's radio, if any
          boots,              \* power-ons of the controller so far
          restarts,           \* power cycles of devices so far
          joined              \* history: the boot that d's last assignment is of

vars == <<connectedDevice, nextAddressToVend, isResettingBus, reply, boots,
          address, due, restarts, joined, heardRequest, heardFrame>>

Address == 0..255
Request == [command : {"REQUEST_ADDRESS"}, device : Device]
Assign == [command : {"ASSIGN_ADDRESS"}, hardwareID : Word, address : Address,
           boot : 1..MaxBoots]
BusReset == [command : {"BUS_RESET"}]

(* DeviceProfile::reset().                                                 *)
NoDevice == [connected |-> FALSE, hardwareID |-> HWID_UNASSIGNED, address |-> ADDR_UNASSIGNED]

TypeOK == /\ connectedDevice \in [Proxy -> [connected : BOOLEAN, hardwareID : Word,
                                            address : Address]]
          /\ nextAddressToVend \in Address
          /\ isResettingBus \in BOOLEAN
          /\ reply \in SUBSET Assign /\ Cardinality(reply) <= 1
          /\ heardRequest \in SUBSET Request /\ Cardinality(heardRequest) <= 1
          /\ address \in [Device -> Address]
          /\ due \in [Device -> BOOLEAN]
          /\ heardFrame \in [Device -> SUBSET (Assign \cup BusReset)]
          /\ \A d \in Device : Cardinality(heardFrame[d]) <= 1
          /\ boots \in 1..MaxBoots
          /\ restarts \in 0..MaxRestarts
          /\ joined \in [Device -> 0..MaxBoots]

(* Everything has just been switched on; _Makernet::initialize() of the    *)
(* controller has reset the proxies and asked for a bus reset.             *)
Init == /\ connectedDevice = [i \in Proxy |-> NoDevice]
        /\ nextAddressToVend = FirstAddress
        /\ isResettingBus = TRUE
        /\ reply = {}
        /\ boots = 1
        /\ address = [d \in Device |-> ADDR_UNASSIGNED]
        /\ due = [d \in Device |-> TRUE]
        /\ restarts = 0
        /\ joined = [d \in Device |-> 0]
        /\ heardRequest = {}
        /\ heardFrame = [d \in Device |-> {}]

(* A power cycle of the controller: all it knew is gone.                   *)
RestartController ==
  /\ boots < MaxBoots
  /\ boots' = boots + 1
  /\ connectedDevice' = [i \in Proxy |-> NoDevice]
  /\ nextAddressToVend' = FirstAddress
  /\ isResettingBus' = TRUE
  /\ reply' = {} /\ heardRequest' = {}
  /\ UNCHANGED <<address, due, restarts, joined, heardFrame>>

(* A power cycle of device d: Makernet.initialize() clears its address.    *)
RestartDevice(d) ==
  /\ restarts < MaxRestarts
  /\ restarts' = restarts + 1
  /\ address' = [address EXCEPT ![d] = ADDR_UNASSIGNED]
  /\ due' = [due EXCEPT ![d] = TRUE]
  /\ heardFrame' = [heardFrame EXCEPT ![d] = {}]
  /\ UNCHANGED <<connectedDevice, nextAddressToVend, isResettingBus, reply, boots,
                 joined, heardRequest>>

-------------------------------------------------------------------------------
(* The controller.                                                         *)

(* findPeripheralObjectForDevice(): the proxies that may serve d, of which *)
(* the first in the list is taken.  One that is bound to the hardware ID   *)
(* comes before all others, whatever its type.                             *)
UnboundOnly(d) == {i \in Proxy : ~connectedDevice[i].connected /\ ProxyType[i] = DeviceType[d]}
                  \* mutant: no search for the hardware ID
Candidates(d) ==
  LET known == {i \in Proxy : connectedDevice[i].hardwareID = HardwareID[d]}
      free == {i \in Proxy : ~connectedDevice[i].connected /\ ProxyType[i] = DeviceType[d]}
  IN  IF known # {} THEN known ELSE free

First(S, i) == i \in S /\ \A j \in S : i <= j

(* A broadcast of the controller reaches some of the devices in S.         *)
BroadcastQueues(f) ==  \* mutant: a radio that queues what it receives
  \E S \in SUBSET Device :
     heardFrame' = [d \in Device |-> IF d \in S THEN heardFrame[d] \cup {f} ELSE heardFrame[d]]
Broadcast(f) ==
  \E S \in SUBSET {d \in Device : heardFrame[d] = {}} :
     heardFrame' = [d \in Device |-> IF d \in S THEN {f} ELSE heardFrame[d]]

SendReply ==
  /\ \E f \in reply : Broadcast(f)
  /\ reply' = {}
  /\ UNCHANGED <<connectedDevice, nextAddressToVend, isResettingBus, boots,
                 address, due, restarts, joined, heardRequest>>

(* The address that proxy i gives to its device: its own, or a new one.    *)
AlwaysNew(i) == TRUE  \* mutant: the address of the proxy is not looked at
IsNew(i) == connectedDevice[i].address = ADDR_UNASSIGNED

AddressFor(i) == IF IsNew(i) THEN nextAddressToVend ELSE connectedDevice[i].address

CounterStays(i) == nextAddressToVend  \* mutant: no ++ after vending
CounterAfter(i) == IF IsNew(i) THEN (nextAddressToVend + 1) % 256 ELSE nextAddressToVend

(* handlePacket() of a request that a proxy can serve: the device is bound *)
(* to the proxy, and the assignment waits for the next call of loop().     *)
Bind ==
  /\ reply = {}
  /\ \E f \in heardRequest : \E i \in Proxy :
        LET hwid == HardwareID[f.device]
        IN  /\ First(Candidates(f.device), i)
            /\ nextAddressToVend' = CounterAfter(i)
            /\ connectedDevice' = [connectedDevice EXCEPT ![i] =
                  [connected |-> TRUE, hardwareID |-> hwid, address |-> AddressFor(i)]]
            /\ reply' = {[command |-> "ASSIGN_ADDRESS", hardwareID |-> hwid,
                          address |-> AddressFor(i), boot |-> boots]}
  /\ heardRequest' = {}
  /\ UNCHANGED <<isResettingBus, boots, address, due, restarts, joined, heardFrame>>

(* pollPacket(): the bus reset asked for is sent once.                     *)
PollController ==
  /\ reply = {}
  /\ \A f \in heardRequest : Candidates(f.device) = {}
  /\ heardRequest' = {}
  /\ isResettingBus' = FALSE
  /\ IF isResettingBus THEN Broadcast([command |-> "BUS_RESET"]) ELSE UNCHANGED heardFrame
  /\ UNCHANGED <<connectedDevice, nextAddressToVend, reply, boots, address, due,
                 restarts, joined>>

LoopController == SendReply \/ Bind \/ PollController

-------------------------------------------------------------------------------
(* A device.                                                               *)

AcceptsAny(d, f) == f.command = "ASSIGN_ADDRESS" /\ address[d] = ADDR_UNASSIGNED
                    \* mutant: the hardware ID is not compared
Accepts(d, f) == /\ f.command = "ASSIGN_ADDRESS"
                 /\ address[d] = ADDR_UNASSIGNED
                 /\ f.hardwareID = HardwareID[d]

(* The address of d after it has handled frame f.                          *)
AddressAfter(d, f) == IF f.command = "BUS_RESET" THEN ADDR_UNASSIGNED
                      ELSE IF Accepts(d, f) THEN f.address ELSE address[d]

(* pollPacket() of a device that has address a, after it has taken what    *)
(* its radio held: without an address it asks for one every period.        *)
PollDevice(d, a) ==
  IF a = ADDR_UNASSIGNED /\ due[d]
  THEN /\ due' = [due EXCEPT ![d] = FALSE]
       /\ heardRequest' \in {heardRequest, IF heardRequest # {} THEN heardRequest
                              ELSE {[command |-> "REQUEST_ADDRESS", device |-> d]}}
  ELSE UNCHANGED <<due, heardRequest>>

HandleFrame(d) ==
  /\ \E f \in heardFrame[d] :
        /\ address' = [address EXCEPT ![d] = AddressAfter(d, f)]
        /\ joined' = IF Accepts(d, f) THEN [joined EXCEPT ![d] = f.boot] ELSE joined
        /\ PollDevice(d, AddressAfter(d, f))
  /\ heardFrame' = [heardFrame EXCEPT ![d] = {}]
  /\ UNCHANGED <<connectedDevice, nextAddressToVend, isResettingBus, reply, boots, restarts>>

AskForAddress(d) ==
  /\ heardFrame[d] = {}
  /\ PollDevice(d, address[d])
  /\ UNCHANGED <<connectedDevice, nextAddressToVend, isResettingBus, reply, boots,
                 address, restarts, joined, heardFrame>>

LoopDevice(d) == HandleFrame(d) \/ AskForAddress(d)

(* The polling period of d is over.                                        *)
Elapse(d) ==
  /\ ~due[d]
  /\ due' = [due EXCEPT ![d] = TRUE]
  /\ UNCHANGED <<connectedDevice, nextAddressToVend, isResettingBus, reply, boots,
                 address, restarts, joined, heardRequest, heardFrame>>

-------------------------------------------------------------------------------
Next == \/ LoopController
        \/ RestartController
        \/ \E d \in Device : LoopDevice(d) \/ RestartDevice(d) \/ Elapse(d)

Spec == Init /\ [][Next]_vars

(* Devices that look into their radio between any two frames of the        *)
(* controller: a turn of a device's loop() is short against the seconds    *)
(* between two polling periods.                                            *)
PromptNext == \/ SendReply /\ \A d \in Device : heardFrame[d] = {}
              \/ Bind \/ PollController \/ RestartController
              \/ \E d \in Device : LoopDevice(d) \/ RestartDevice(d) \/ Elapse(d)

(* All loops run for ever, all clocks tick, and the air is fair to the     *)
(* requests of each device and to the assignments made for it.             *)
RequestArrives(d) == LoopDevice(d) /\ heardRequest = {} /\ heardRequest' # {}

AssignArrives(d) == /\ \E f \in reply : f.hardwareID = HardwareID[d]
                    /\ SendReply
                    /\ heardFrame[d] = {} /\ heardFrame'[d] # {}

Fairness == /\ WF_vars(LoopController)
            /\ \A d \in Device : /\ WF_vars(LoopDevice(d))
                                 /\ WF_vars(Elapse(d))
                                 /\ SF_vars(RequestArrives(d))
                                 /\ SF_vars(AssignArrives(d))

FairSpec == Init /\ [][PromptNext]_vars /\ Fairness

-------------------------------------------------------------------------------
(* Properties.                                                             *)

(* findByAddress(): the proxy that gets the packets device d sends.        *)
FindByAddress(a, i) == First({j \in Proxy : connectedDevice[j].address = a}, i)

Assigned(d) == address[d] # ADDR_UNASSIGNED
Current(d) == Assigned(d) /\ joined[d] = boots

(* Packets of a device that got its address from the running controller    *)
(* are routed to the one proxy that is bound to it and addresses it back   *)
(* (routePacket, Network.cpp 222-230; handlePacket,                        *)
(* DeviceControlService.cpp 80-88), through retried requests, late         *)
(* assignments and power cycles of either side.                            *)
RoutedToOwnProxy ==
  \A d \in Device : Current(d) =>
    \E i \in Proxy : /\ FindByAddress(address[d], i)
                     /\ connectedDevice[i].hardwareID = HardwareID[d]

(* Two devices that got their addresses from the same power-on of the      *)
(* controller never share one ("each will receive its own bus address",    *)
(* README.md 44).                                                          *)
OwnAddress == \A d, e \in Device :
                d # e /\ Assigned(d) /\ Assigned(e) /\ joined[d] = joined[e]
                   => address[d] # address[e]

(* The proxies partition what has been vended: no two are bound to the     *)
(* same device or address, every bound one has an address that has been    *)
(* vended, and none of them is a reserved address                          *)
(* (DeviceControlService.cpp 80-88, BasePeripheral.cpp 158-172).           *)
ProxiesDisjoint ==
  /\ \A i, j \in Proxy :
        /\ connectedDevice[i].connected /\ connectedDevice[j].connected /\ i # j
        => /\ connectedDevice[i].address # connectedDevice[j].address
           /\ connectedDevice[i].hardwareID # connectedDevice[j].hardwareID
  /\ \A i \in Proxy : connectedDevice[i].connected =>
        connectedDevice[i].address \in FirstAddress..(nextAddressToVend - 1)

(* A binding is kept until the controller is switched off: a device that   *)
(* is power-cycled or asks again gets the address it had                   *)
(* (BasePeripheral.cpp 160-164, DeviceControlService.cpp 80-85).           *)
BindingIsKept ==
  [][\A i \in Proxy : connectedDevice[i].connected /\ boots' = boots
        => connectedDevice[i]' = connectedDevice[i]]_vars

(* "If the packet is dropped, subsequent REQUEST_ADDRESS requests will     *)
(* re-establish" the link (Architecture.md 99): every device that a proxy  *)
(* can serve ends up with an address its proxy knows, and keeps it.        *)
EveryoneConnects == \A d \in Device : <>[](Current(d) /\ RoutedToOwnProxy)

-------------------------------------------------------------------------------
(* The inductive invariant of the proofs (AddressVendingProofs).           *)

(* An address that device d has is an assignment, too.                     *)
Holding(d) == [command |-> "ASSIGN_ADDRESS", hardwareID |-> HardwareID[d],
               address |-> address[d], boot |-> joined[d]]

(* Every assignment there is: on its way, or taken.                        *)
Assignments == {f \in reply \cup UNION {heardFrame[d] : d \in Device} :
                  f.command = "ASSIGN_ADDRESS"}
               \cup {Holding(d) : d \in {e \in Device : Assigned(e)}}

BoundProxies == {i \in Proxy : connectedDevice[i].connected}

(* A proxy is bound altogether or not at all.                              *)
BindingInv ==
  \A i \in Proxy : IF i \in BoundProxies THEN connectedDevice[i].hardwareID # HWID_UNASSIGNED
                   ELSE connectedDevice[i] = NoDevice

(* As many addresses were vended as proxies are bound.                     *)
CounterInv == nextAddressToVend = FirstAddress + Cardinality(BoundProxies)

(* An assignment of this power-on is what a proxy is bound to.             *)
AssignmentInv ==
  \A f \in Assignments :
     /\ f.boot \in 1..boots /\ f.address # ADDR_UNASSIGNED
     /\ f.boot = boots => \E i \in BoundProxies : /\ connectedDevice[i].hardwareID = f.hardwareID
                                                /\ connectedDevice[i].address = f.address

(* Of one power-on, no two hardware IDs have got the same address.         *)
VendedOnce ==
  \A f, g \in Assignments :
     f.boot = g.boot /\ f.address = g.address => f.hardwareID = g.hardwareID

IndInv == /\ TypeOK
          /\ BindingInv
          /\ CounterInv
          /\ ProxiesDisjoint
          /\ AssignmentInv
          /\ VendedOnce

-------------------------------------------------------------------------------
(* What the documents promise and TLC refutes (the README names the        *)
(* instances).                                                             *)

(* Each will receive its own bus address (README.md 44, 74): no two        *)
(* devices that have an address have the same one.                         *)
UniqueAddresses == \A d, e \in Device :
                     d # e /\ Assigned(d) /\ Assigned(e) => address[d] # address[e]

(* "Also emits some random numbers that if changed cause all devices to    *)
(* reset" (Architecture.md 278): a device whose address is of an earlier   *)
(* power-on of the controller gives it up in the end.                      *)
StaleAddressIsLeft ==
  \A d \in Device : (Assigned(d) /\ joined[d] # boots) ~> ~(Assigned(d) /\ joined[d] # boots)
===============================================================================
