------------------------------- MODULE Connection -------------------------------
(***************************************************************************)
(* The controller with its proxies, the devices, and one mailbox on each   *)
(* side: how device control (AddressVending) and mailboxes (SmallMailbox)  *)
(* work together.  A binding resets the mailboxes of the proxy, an         *)
(* assignment or a bus reset those of the device, the address of a packet  *)
(* decides which proxy gets it, and a proxy without a device is silent.    *)
(*                                                                         *)
(* As in the modules it is composed of, a node holds at most one received  *)
(* frame and one deferred reply.  A transmission of the controller fills   *)
(* any subset of the empty radios, whoever it is addressed to; devices do  *)
(* not hear each other (a frame they drop is as good as a lost one).  The  *)
(* clocks are past the first retry period.                                 *)
(***************************************************************************)
EXTENDS Naturals, FiniteSets, SmallMailbox

CONSTANTS Device, HardwareID, DeviceType, ProxyType, NumProxies, MaxBoots, MaxRestarts

ASSUME ValueAssumption == Value \subseteq Nat

VARIABLES connectedDevice, nextAddressToVend, isResettingBus, boots,
          address, due, restarts, joined,  \* as in AddressVending
          controllerReply,  \* the controller's deferred reply, if any
          controllerRadio,  \* the frame in the controller's radio, if any
          deviceReply,      \* deviceReply[d], deviceRadio[d]: the same of device d
          deviceRadio,
          proxyBox,         \* proxyBox[i]: the mailbox of proxy i
          deviceBox,        \* deviceBox[d]: the mailbox of device d
          proxyStored,      \* history: the values the applications stored
          deviceStored

vending == <<connectedDevice, nextAddressToVend, isResettingBus, boots>>
membership == <<address, due, restarts, joined>>
vars == <<vending, membership, controllerReply, controllerRadio, deviceReply,
          deviceRadio, proxyBox, deviceBox, proxyStored, deviceStored>>

(* Device control as it looks without the mailboxes: frames that carry     *)
(* mailbox updates are not there.                                          *)
Only(frames, commands) == {f \in frames : f.command \in commands}

V == INSTANCE AddressVending WITH
       reply <- Only(controllerReply, {"ASSIGN_ADDRESS"}),
       heardRequest <- Only(controllerRadio, {"REQUEST_ADDRESS"}),
       heardFrame <- [d \in Device |-> Only(deviceRadio[d], {"ASSIGN_ADDRESS", "BUS_RESET"})]

ASSUME VendingAssumption == V!DeviceAssumption /\ V!VendingBounds

Unassigned == V!ADDR_UNASSIGNED
ADDR_CONTROLLER == 1

Mail == [command : Command, src : V!Address, dest : V!Address, value : Value]

TypeOK ==
  /\ V!TypeOK
  /\ controllerReply \in SUBSET (V!Assign \cup Mail) /\ Cardinality(controllerReply) <= 1
  /\ controllerRadio \in SUBSET (V!Request \cup Mail) /\ Cardinality(controllerRadio) <= 1
  /\ deviceReply \in [Device -> SUBSET Mail]
  /\ deviceRadio \in [Device -> SUBSET (V!Assign \cup V!BusReset \cup Mail)]
  /\ \A d \in Device : Cardinality(deviceReply[d]) <= 1 /\ Cardinality(deviceRadio[d]) <= 1
  /\ proxyBox \in [V!Proxy -> Mailbox] /\ deviceBox \in [Device -> Mailbox]
  /\ proxyStored \in [V!Proxy -> SUBSET Value] /\ deviceStored \in [Device -> SUBSET Value]

Init == /\ connectedDevice = [i \in V!Proxy |-> V!NoDevice]
        /\ nextAddressToVend = V!FirstAddress
        /\ isResettingBus = TRUE
        /\ boots = 1
        /\ address = [d \in Device |-> Unassigned]
        /\ due = [d \in Device |-> TRUE]
        /\ restarts = 0
        /\ joined = [d \in Device |-> 0]
        /\ controllerReply = {} /\ controllerRadio = {}
        /\ deviceReply = [d \in Device |-> {}]
        /\ deviceRadio = [d \in Device |-> {}]
        /\ proxyBox = [i \in V!Proxy |-> NewMailbox]
        /\ deviceBox = [d \in Device |-> NewMailbox]
        /\ proxyStored = [i \in V!Proxy |-> {}]
        /\ deviceStored = [d \in Device |-> {}]

-------------------------------------------------------------------------------
(* The applications.  Every value is larger than all that were stored      *)
(* before: values that come back are the subject of MailboxSync.           *)
Fresh(v) == /\ v > Zero
            /\ \A i \in V!Proxy : \A u \in proxyStored[i] : u < v
            /\ \A d \in Device : \A u \in deviceStored[d] : u < v

SetProxy(i, v) ==
  /\ Fresh(v)
  /\ proxyBox' = [proxyBox EXCEPT ![i] = SetLong(@, v)]
  /\ proxyStored' = [proxyStored EXCEPT ![i] = @ \cup {v}]
  /\ UNCHANGED <<vending, membership, controllerReply, controllerRadio, deviceReply,
                 deviceRadio, deviceBox, deviceStored>>

SetDevice(d, v) ==
  /\ Fresh(v)
  /\ deviceBox' = [deviceBox EXCEPT ![d] = SetLong(@, v)]
  /\ deviceStored' = [deviceStored EXCEPT ![d] = @ \cup {v}]
  /\ UNCHANGED <<vending, membership, controllerReply, controllerRadio, deviceReply,
                 deviceRadio, proxyBox, proxyStored>>

(* Power cycles: nothing of what a node knew is kept, its mailboxes are    *)
(* constructed anew.  The applications start with nothing to store.        *)
RestartController ==
  /\ boots < MaxBoots
  /\ boots' = boots + 1
  /\ connectedDevice' = [i \in V!Proxy |-> V!NoDevice]
  /\ nextAddressToVend' = V!FirstAddress
  /\ isResettingBus' = TRUE
  /\ controllerReply' = {} /\ controllerRadio' = {}
  /\ proxyBox' = [i \in V!Proxy |-> NewMailbox]
  /\ UNCHANGED <<membership, deviceReply, deviceRadio, deviceBox, proxyStored, deviceStored>>

RestartDevice(d) ==
  /\ restarts < MaxRestarts
  /\ restarts' = restarts + 1
  /\ address' = [address EXCEPT ![d] = Unassigned]
  /\ due' = [due EXCEPT ![d] = TRUE]
  /\ deviceReply' = [deviceReply EXCEPT ![d] = {}]
  /\ deviceRadio' = [deviceRadio EXCEPT ![d] = {}]
  /\ deviceBox' = [deviceBox EXCEPT ![d] = NewMailbox]
  /\ UNCHANGED <<vending, joined, controllerReply, controllerRadio, proxyBox,
                 proxyStored, deviceStored>>

(* Time: a retry period of a mailbox, or the polling period of d, is over. *)
ElapseProxy(i) ==
  /\ proxyBox[i].waiting
  /\ proxyBox' = [proxyBox EXCEPT ![i].waiting = FALSE]
  /\ UNCHANGED <<vending, membership, controllerReply, controllerRadio, deviceReply,
                 deviceRadio, deviceBox, proxyStored, deviceStored>>

ElapseDevice(d) ==
  /\ deviceBox[d].waiting
  /\ deviceBox' = [deviceBox EXCEPT ![d].waiting = FALSE]
  /\ UNCHANGED <<vending, membership, controllerReply, controllerRadio, deviceReply,
                 deviceRadio, proxyBox, proxyStored, deviceStored>>

ElapsePolling(d) ==
  /\ ~due[d]
  /\ due' = [due EXCEPT ![d] = TRUE]
  /\ UNCHANGED <<vending, address, restarts, joined, controllerReply, controllerRadio,
                 deviceReply, deviceRadio, proxyBox, deviceBox, proxyStored, deviceStored>>

-------------------------------------------------------------------------------
(* The controller.                                                         *)

TransmitQueues(f) ==  \* mutant: a radio that queues what it receives
  \E S \in SUBSET Device :
     deviceRadio' = [d \in Device |-> deviceRadio[d] \cup IF d \in S THEN {f} ELSE {}]
Transmit(f) ==
  \E S \in SUBSET {d \in Device : deviceRadio[d] = {}} :
     deviceRadio' = [d \in Device |-> IF d \in S THEN {f} ELSE deviceRadio[d]]

SendReply ==
  /\ \E f \in controllerReply : Transmit(f)
  /\ controllerReply' = {}
  /\ UNCHANGED <<vending, membership, controllerRadio, deviceReply, proxyBox, deviceBox,
                 proxyStored, deviceStored>>

(* pointPacketToEndpoint(): from whom and to whom proxy i writes.          *)
FromProxy(i, command, value) ==
  [command |-> command, src |-> ADDR_CONTROLLER, dest |-> connectedDevice[i].address,
   value |-> value]

KeepBox(m) == m  \* mutant: the proxy is not reset when it is bound
ResetProxy(m) == BusReset(m)

(* handlePacket() of a request: a new or returning device is bound, and    *)
(* what was set for it has to be pushed again.                             *)
Bind ==
  /\ controllerReply = {}
  /\ \E f \in Only(controllerRadio, {"REQUEST_ADDRESS"}) : \E i \in V!Proxy :
        /\ V!First(V!Candidates(f.device), i)
        /\ nextAddressToVend' = V!CounterAfter(i)
        /\ connectedDevice' = [connectedDevice EXCEPT ![i] =
              [connected |-> TRUE, hardwareID |-> HardwareID[f.device],
               address |-> V!AddressFor(i)]]
        /\ proxyBox' = [proxyBox EXCEPT ![i] = ResetProxy(@)]
        /\ controllerReply' = {[command |-> "ASSIGN_ADDRESS", boot |-> boots,
                                hardwareID |-> HardwareID[f.device],
                                address |-> V!AddressFor(i)]}
  /\ controllerRadio' = {}
  /\ UNCHANGED <<isResettingBus, boots, membership, deviceReply, deviceRadio, deviceBox,
                 proxyStored, deviceStored>>

(* routePacket(): the proxy that gets mail f, if any.                      *)
RoutedTo(f, i) == f.src # Unassigned /\ V!FindByAddress(f.src, i)

(* A value from a device: disregarded or accepted, acknowledged next time. *)
TakeValue ==
  /\ controllerReply = {}
  /\ \E f \in Only(controllerRadio, Command) : \E i \in V!Proxy :
        /\ IsValue(f) /\ RoutedTo(f, i)
        /\ proxyBox' = [proxyBox EXCEPT ![i] = IF Contended("master", @) THEN AfterDisregard(@)
                                               ELSE AfterAccept(@, f.value)]
        /\ controllerReply' = {FromProxy(i, "ACK_VALUE", f.value)}
  /\ controllerRadio' = {}
  /\ UNCHANGED <<vending, membership, deviceReply, deviceRadio, deviceBox,
                 proxyStored, deviceStored>>

(* pollPacket() with the proxies' mailboxes as in pb: a bus reset that was *)
(* asked for, or the first mailbox that is due and has somebody to go to.  *)
Silent(i) == connectedDevice[i].address = Unassigned

DueProxies(pb) == {i \in V!Proxy : HasPendingChanges(pb[i], TRUE) /\ ~Silent(i)}

PollController(pb) ==
  \/ /\ isResettingBus
     /\ isResettingBus' = FALSE
     /\ Transmit([command |-> "BUS_RESET"])
     /\ proxyBox' = pb
  \/ /\ ~isResettingBus
     /\ UNCHANGED isResettingBus
     /\ \/ DueProxies(pb) = {} /\ proxyBox' = pb /\ UNCHANGED deviceRadio
        \/ \E i \in DueProxies(pb) :
              /\ V!First(DueProxies(pb), i)
              /\ proxyBox' = [pb EXCEPT ![i] = AfterGenerate(@)]
              /\ Transmit(FromProxy(i, GeneratedCommand(pb[i]), pb[i].contents))

(* Everything else a radio can hold needs no reply: an acknowledgement, a  *)
(* packet of nobody's, a request no proxy can serve.  The call polls on.   *)
Unserved(f) == IF f.command = "REQUEST_ADDRESS" THEN V!Candidates(f.device) = {}
               ELSE \A i \in V!Proxy : ~RoutedTo(f, i)

TakeAckOrPoll ==
  /\ controllerReply = {}
  /\ \/ /\ \A f \in controllerRadio : Unserved(f)
        /\ PollController(proxyBox)
     \/ \E f \in Only(controllerRadio, {"ACK_VALUE"}) : \E i \in V!Proxy :
           /\ RoutedTo(f, i)
           /\ PollController([proxyBox EXCEPT ![i] = AfterAck(@, f.value)])
  /\ controllerRadio' = {}
  /\ UNCHANGED <<connectedDevice, nextAddressToVend, boots, membership, controllerReply,
                 deviceReply, deviceBox, proxyStored, deviceStored>>

LoopController == SendReply \/ Bind \/ TakeValue \/ TakeAckOrPoll

-------------------------------------------------------------------------------
(* A device.                                                               *)

(* A frame of d reaches the controller's radio, or it does not.            *)
ToController(f) ==
  controllerRadio' \in {controllerRadio, IF controllerRadio = {} THEN {f} ELSE controllerRadio}

Anonymous(a, command, value) ==  \* mutant: the source is left cleared
  [command |-> command, src |-> Unassigned, dest |-> ADDR_CONTROLLER, value |-> value]
FromDevice(a, command, value) ==
  [command |-> command, src |-> a, dest |-> ADDR_CONTROLLER, value |-> value]

SendDeviceReply(d) ==
  /\ \E f \in deviceReply[d] : ToController(f)
  /\ deviceReply' = [deviceReply EXCEPT ![d] = {}]
  /\ UNCHANGED <<vending, membership, controllerReply, deviceRadio, proxyBox, deviceBox,
                 proxyStored, deviceStored>>

(* pollPacket() of device d with address a and mailbox m: device control   *)
(* goes first, so the mailbox waits while an address is asked for.         *)
PollDevice(d, a, m) ==
  IF a = Unassigned /\ due[d]
  THEN /\ due' = [due EXCEPT ![d] = FALSE]
       /\ ToController([command |-> "REQUEST_ADDRESS", device |-> d])
       /\ deviceBox' = [deviceBox EXCEPT ![d] = m]
  ELSE /\ UNCHANGED due
       /\ IF HasPendingChanges(m, TRUE)
          THEN /\ deviceBox' = [deviceBox EXCEPT ![d] = AfterGenerate(m)]
               /\ ToController(FromDevice(a, GeneratedCommand(m), m.contents))
          ELSE /\ deviceBox' = [deviceBox EXCEPT ![d] = m]
               /\ UNCHANGED controllerRadio

(* An assignment for d, or a bus reset: the whole framework is reset, then *)
(* the address is set.  Assignments for others change nothing.             *)
AssignThenReset(d, f) == Unassigned  \* mutant: the reset comes after the assignment
NewAddress(d, f) == V!AddressAfter(d, f)

ResetsDevice(d, f) == f.command = "BUS_RESET" \/ V!Accepts(d, f)

TakeControl(d) ==
  /\ deviceReply[d] = {}
  /\ \E f \in Only(deviceRadio[d], {"ASSIGN_ADDRESS", "BUS_RESET"}) :
        /\ address' = [address EXCEPT ![d] = NewAddress(d, f)]
        /\ joined' = IF V!Accepts(d, f) THEN [joined EXCEPT ![d] = f.boot] ELSE joined
        /\ PollDevice(d, NewAddress(d, f),
                      IF ResetsDevice(d, f) THEN BusReset(deviceBox[d]) ELSE deviceBox[d])
  /\ deviceRadio' = [deviceRadio EXCEPT ![d] = {}]
  /\ UNCHANGED <<vending, restarts, controllerReply, deviceReply, proxyBox,
                 proxyStored, deviceStored>>

(* handleFrame(): no broadcast, so it has to be d's own address.           *)
AnyMail(d, f) == address[d] # Unassigned  \* mutant: the destination is not compared
ForMe(d, f) == address[d] # Unassigned /\ f.dest = address[d]

(* A value for d is accepted: only a master can disregard one.             *)
TakeDeviceValue(d) ==
  /\ deviceReply[d] = {}
  /\ \E f \in Only(deviceRadio[d], Command) :
        /\ IsValue(f) /\ ForMe(d, f)
        /\ deviceBox' = [deviceBox EXCEPT ![d] = AfterAccept(@, f.value)]
        /\ deviceReply' = [deviceReply EXCEPT ![d] =
              {FromDevice(address[d], "ACK_VALUE", f.value)}]
  /\ deviceRadio' = [deviceRadio EXCEPT ![d] = {}]
  /\ UNCHANGED <<vending, membership, controllerReply, controllerRadio, proxyBox,
                 proxyStored, deviceStored>>

(* An acknowledgement for d, mail that is not for d, or nothing: d polls.  *)
TakeDeviceAckOrPoll(d) ==
  /\ deviceReply[d] = {}
  /\ \/ /\ \A f \in deviceRadio[d] : f.command \in Command /\ ~ForMe(d, f)
        /\ PollDevice(d, address[d], deviceBox[d])
     \/ \E f \in Only(deviceRadio[d], {"ACK_VALUE"}) :
           /\ ForMe(d, f)
           /\ PollDevice(d, address[d], AfterAck(deviceBox[d], f.value))
  /\ deviceRadio' = [deviceRadio EXCEPT ![d] = {}]
  /\ UNCHANGED <<vending, address, restarts, joined, controllerReply, deviceReply, proxyBox,
                 proxyStored, deviceStored>>

LoopDevice(d) == \/ SendDeviceReply(d) \/ TakeControl(d)
                 \/ TakeDeviceValue(d) \/ TakeDeviceAckOrPoll(d)

-------------------------------------------------------------------------------
Next == \/ LoopController \/ RestartController
        \/ \E i \in V!Proxy : ElapseProxy(i) \/ \E v \in Value : SetProxy(i, v)
        \/ \E d \in Device : \/ LoopDevice(d) \/ RestartDevice(d)
                             \/ ElapseDevice(d) \/ ElapsePolling(d)
                             \/ \E v \in Value : SetDevice(d, v)

Spec == Init /\ [][Next]_vars

(* Scheduling.  All loops and clocks run for ever; the periods are long    *)
(* against a turn of loop(), so they end while no frame is being dealt     *)
(* with; and the air does not lose every frame of one kind.                *)
Kinds == {{"REQUEST_ADDRESS"}, {"ASSIGN_ADDRESS"}, {"ACK_VALUE"},
          {"SEND_VALUE", "SEND_VALUE_CHANGE"}}

Quiet == /\ controllerReply = {} /\ controllerRadio = {}
         /\ \A d \in Device : deviceReply[d] = {} /\ deviceRadio[d] = {}

Elapse == \/ \E i \in V!Proxy : ElapseProxy(i)
          \/ \E d \in Device : ElapseDevice(d) \/ ElapsePolling(d)

DeviceHears(d, kind) == LoopController /\ Only(deviceRadio[d], kind) = {}
                                       /\ Only(deviceRadio'[d], kind) # {}

ControllerHears(d, kind) == LoopDevice(d) /\ controllerRadio = {}
                                          /\ Only(controllerRadio', kind) # {}

Fairness ==
  /\ WF_vars(LoopController)
  /\ \A i \in V!Proxy : SF_vars(Quiet /\ ElapseProxy(i))
  /\ \A d \in Device : /\ WF_vars(LoopDevice(d))
                       /\ SF_vars(Quiet /\ ElapseDevice(d))
                       /\ SF_vars(Quiet /\ ElapsePolling(d))
                       /\ \A kind \in Kinds : /\ SF_vars(DeviceHears(d, kind))
                                              /\ SF_vars(ControllerHears(d, kind))

FairSpec == Init /\ [][Next /\ (Elapse => Quiet)]_vars /\ Fairness

-------------------------------------------------------------------------------
(* Properties.                                                             *)

(* Device control is not disturbed by the mailboxes that share its frame   *)
(* buffers, radios and turns of loop(): whatever they do, the vending of   *)
(* addresses is one that AddressVending allows, and so has its invariants  *)
(* (the deferred reply, Network.cpp 125-144, the order of polling 60-79).  *)
ImplementsVending == V!Spec

(* The proxy that serves d, and d knows it: d has the proxy's address.     *)
Connected(d, i) == /\ connectedDevice[i].connected
                   /\ connectedDevice[i].hardwareID = HardwareID[d]
                   /\ address[d] = connectedDevice[i].address
                   /\ joined[d] = boots

(* "A device can be fully reset and then recover its configuration when    *)
(* reconnection occurs" (Mailbox.h 39-41): a connected device whose        *)
(* controller regards the value it set as delivered holds that value, or   *)
(* is pushing one of its own, however often the device was power-cycled    *)
(* since the value was acknowledged (DeviceControlService.cpp 100).        *)
ConfigurationIsHeld ==
  \A d \in Device, i \in V!Proxy :
     Connected(d, i) /\ proxyBox[i].callerChanged /\ proxyBox[i].synchronized
       => deviceBox[d].contents = proxyBox[i].contents \/ ~deviceBox[d].synchronized

(* ... "without any further intervention or knowledge of the user's        *)
(* logic": when applications and power switches have come to rest, every   *)
(* device ends up connected, with the value that was set for it, through   *)
(* lost assignments, lost values and repeated bindings.                    *)
Recovers ==
  \A d \in Device : <>[](\E i \in V!Proxy :
     /\ Connected(d, i)
     /\ proxyBox[i].synchronized /\ deviceBox[d].synchronized
     /\ proxyBox[i].callerChanged => deviceBox[d].contents = proxyBox[i].contents)

(* Mailboxes are kept "in sync between two different nodes"                *)
(* (MailboxService.h 20-22) and never with a third one: what a mailbox     *)
(* holds was stored by its own node or by the one it is bound to, although *)
(* all nodes share the air (routePacket, Network.cpp 224-230; handleFrame, *)
(* 309-313).                                                               *)
Isolated ==
  \A d \in Device, i \in V!Proxy :
     /\ deviceBox[d].contents \in deviceStored[d] \cup {Zero} \cup
           UNION {proxyStored[j] : j \in {j \in V!Proxy :
                     connectedDevice[j].hardwareID = HardwareID[d]}}
     /\ proxyBox[i].contents \in proxyStored[i] \cup {Zero} \cup
           UNION {deviceStored[e] : e \in {e \in Device :
                     HardwareID[e] = connectedDevice[i].hardwareID}}

-------------------------------------------------------------------------------
(* What the documents promise and TLC refutes (the README names the        *)
(* instances).                                                             *)

(* Mailboxes "remain in sync between two different nodes"                  *)
(* (MailboxService.h 20-22): when a connected device and its proxy have    *)
(* nothing to push and nothing is on its way, they hold the same value.    *)
RejoinedInSync ==
  \A d \in Device, i \in V!Proxy :
     /\ Quiet /\ Connected(d, i)
     /\ proxyBox[i].synchronized /\ deviceBox[d].synchronized
     => deviceBox[d].contents = proxyBox[i].contents
===============================================================================
