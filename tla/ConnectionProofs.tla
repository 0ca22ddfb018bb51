---------------------------- MODULE ConnectionProofs ----------------------------
(***************************************************************************)
(* Proofs about Connection: that it implements AddressVending, that its    *)
(* state has the type it should have, and that mailboxes stay apart.       *)
(***************************************************************************)
EXTENDS Connection, FiniteSetTheorems, TLAPS

(* What the simulation needs to know of the buffers: a radio and a reply   *)
(* buffer hold one frame, and a device replies with acknowledgements only. *)
Buffers ==
  /\ isResettingBus \in BOOLEAN
  /\ \A f, g \in controllerRadio : f = g
  /\ \A f, g \in controllerReply : f = g
  /\ \A f \in controllerReply : f.command \in {"ASSIGN_ADDRESS", "ACK_VALUE"}
  /\ deviceRadio = [d \in Device |-> deviceRadio[d]]
  /\ deviceReply = [d \in Device |-> deviceReply[d]]
  /\ \A d \in Device : /\ \A f, g \in deviceRadio[d] : f = g
                       /\ \A f, g \in deviceReply[d] : f = g
                       /\ \A f \in deviceReply[d] : f.command = "ACK_VALUE"

(* The buffers without mail: what AddressVending sees of them.             *)
Reply == Only(controllerReply, {"ASSIGN_ADDRESS"})
HeardRequest == Only(controllerRadio, {"REQUEST_ADDRESS"})
HeardFrame == [d \in Device |-> Only(deviceRadio[d], {"ASSIGN_ADDRESS", "BUS_RESET"})]

-------------------------------------------------------------------------------
(* The buffers.                                                            *)

LEMMA InitBuffers == Init => Buffers
BY DEF Init, Buffers

LEMMA GeneratesMail == \A m : GeneratedCommand(m) \in Command
BY DEF GeneratedCommand, Command

LEMMA TransmitBuffers ==
  ASSUME Buffers, NEW STATE f, Transmit(f)
  PROVE  /\ deviceRadio' = [d \in Device |-> deviceRadio'[d]]
         /\ \A d \in Device : \A x, y \in deviceRadio'[d] : x = y
BY DEF Buffers, Transmit

LEMMA ToControllerBuffers ==
  ASSUME Buffers, NEW STATE f, ToController(f)
  PROVE  \A x, y \in controllerRadio' : x = y
BY DEF Buffers, ToController

LEMMA PollBuffers ==
  ASSUME Buffers, NEW d \in Device, NEW STATE a, NEW STATE m, PollDevice(d, a, m)
  PROVE  \A x, y \in controllerRadio' : x = y
<1>1. CASE UNCHANGED controllerRadio
  BY <1>1 DEF Buffers
<1>2. ASSUME NEW STATE f, ToController(f)
      PROVE  \A x, y \in controllerRadio' : x = y
  BY <1>2, ToControllerBuffers
<1> QED
  BY <1>1, <1>2 DEF PollDevice

LEMMA NextBuffers == Buffers /\ [Next]_vars => Buffers'
<1> SUFFICES ASSUME Buffers, [Next]_vars
             PROVE  Buffers'
  OBVIOUS
<1> USE DEF vending, membership
<1>1. CASE SendReply
  <2>1. PICK f \in controllerReply : Transmit(f)
    BY <1>1 DEF SendReply
  <2>2. /\ deviceRadio' = [d \in Device |-> deviceRadio'[d]]
        /\ \A d \in Device : \A x, y \in deviceRadio'[d] : x = y
    BY <2>1, TransmitBuffers
  <2>3. UNCHANGED <<isResettingBus, controllerRadio, deviceReply>> /\ controllerReply' = {}
    BY <1>1 DEF SendReply
  <2> QED
    BY <2>2, <2>3 DEF Buffers
<1>2. CASE Bind
  <2>1. /\ UNCHANGED <<isResettingBus, deviceRadio, deviceReply>> /\ controllerRadio' = {}
        /\ \A f \in controllerReply' : f.command = "ASSIGN_ADDRESS"
        /\ \A f, g \in controllerReply' : f = g
    BY <1>2 DEF Bind
  <2> QED
    BY <2>1 DEF Buffers
<1>3. CASE TakeValue
  <2>1. /\ UNCHANGED <<isResettingBus, deviceRadio, deviceReply>> /\ controllerRadio' = {}
        /\ \A f \in controllerReply' : f.command = "ACK_VALUE"
        /\ \A f, g \in controllerReply' : f = g
    BY <1>3 DEF TakeValue, FromProxy
  <2> QED
    BY <2>1 DEF Buffers
<1>4. CASE TakeAckOrPoll
  <2>1. PICK pb : PollController(pb)
    BY <1>4 DEF TakeAckOrPoll
  <2>2. isResettingBus' \in BOOLEAN
    BY <2>1 DEF PollController, Buffers
  <2>3. /\ deviceRadio' = [d \in Device |-> deviceRadio'[d]]
        /\ \A d \in Device : \A x, y \in deviceRadio'[d] : x = y
    <3>1. CASE UNCHANGED deviceRadio
      BY <3>1 DEF Buffers
    <3>2. CASE Transmit([command |-> "BUS_RESET"])
      BY <3>2, TransmitBuffers
    <3>3. ASSUME NEW i \in V!Proxy, Transmit(FromProxy(i, GeneratedCommand(pb[i]), pb[i].contents))
          PROVE  /\ deviceRadio' = [d \in Device |-> deviceRadio'[d]]
                 /\ \A d \in Device : \A x, y \in deviceRadio'[d] : x = y
      BY <3>3, TransmitBuffers
    <3> QED
      BY <2>1, <3>1, <3>2, <3>3 DEF PollController, DueProxies
  <2>4. UNCHANGED <<controllerReply, deviceReply>> /\ controllerRadio' = {}
    BY <1>4 DEF TakeAckOrPoll
  <2> QED
    BY <2>2, <2>3, <2>4 DEF Buffers
<1>5. CASE RestartController
  <2>1. UNCHANGED <<deviceReply, deviceRadio>> /\ controllerReply' = {} /\ controllerRadio' = {}
        /\ isResettingBus' = TRUE
    BY <1>5 DEF RestartController
  <2> QED
    BY <2>1 DEF Buffers
<1>6. ASSUME NEW i \in V!Proxy, ElapseProxy(i) \/ \E v \in Value : SetProxy(i, v)
      PROVE  Buffers'
  <2>1. UNCHANGED <<isResettingBus, controllerReply, controllerRadio, deviceReply, deviceRadio>>
    BY <1>6 DEF ElapseProxy, SetProxy
  <2> QED
    BY <2>1 DEF Buffers
<1>7. ASSUME NEW d \in Device, SendDeviceReply(d)
      PROVE  Buffers'
  <2>1. PICK f \in deviceReply[d] : ToController(f)
    BY <1>7 DEF SendDeviceReply
  <2>2. \A x, y \in controllerRadio' : x = y
    BY <2>1, ToControllerBuffers
  <2>3. /\ UNCHANGED <<isResettingBus, controllerReply, deviceRadio>>
        /\ deviceReply' = [deviceReply EXCEPT ![d] = {}]
    BY <1>7 DEF SendDeviceReply
  <2> QED
    BY <2>2, <2>3 DEF Buffers
<1>8. ASSUME NEW d \in Device, TakeControl(d)
      PROVE  Buffers'
  <2>1. PICK a, m : PollDevice(d, a, m)
    BY <1>8 DEF TakeControl
  <2>2. \A x, y \in controllerRadio' : x = y
    BY <2>1, PollBuffers
  <2>3. /\ UNCHANGED <<isResettingBus, controllerReply, deviceReply>>
        /\ deviceRadio' = [deviceRadio EXCEPT ![d] = {}]
    BY <1>8 DEF TakeControl
  <2> QED
    BY <2>2, <2>3 DEF Buffers
<1>9. ASSUME NEW d \in Device, TakeDeviceValue(d)
      PROVE  Buffers'
  <2>1. PICK f : deviceReply' = [deviceReply EXCEPT ![d] =
                                   {FromDevice(address[d], "ACK_VALUE", f.value)}]
    BY <1>9 DEF TakeDeviceValue
  <2>2. /\ UNCHANGED <<isResettingBus, controllerReply, controllerRadio>>
        /\ deviceRadio' = [deviceRadio EXCEPT ![d] = {}]
    BY <1>9 DEF TakeDeviceValue
  <2>3. deviceReply' = [e \in Device |-> deviceReply'[e]]
    BY <2>1 DEF Buffers
  <2>4. ASSUME NEW e \in Device, NEW x \in deviceReply'[e]
        PROVE  x.command = "ACK_VALUE" /\ \A y \in deviceReply'[e] : x = y
    BY <2>1, <2>4 DEF Buffers, FromDevice
  <2>5. /\ deviceRadio' = [e \in Device |-> deviceRadio'[e]]
        /\ \A e \in Device : \A x, y \in deviceRadio'[e] : x = y
    BY <2>2 DEF Buffers
  <2> QED
    BY <2>2, <2>3, <2>4, <2>5 DEF Buffers
<1>10. ASSUME NEW d \in Device, TakeDeviceAckOrPoll(d)
       PROVE  Buffers'
  <2>1. PICK m : PollDevice(d, address[d], m)
    BY <1>10 DEF TakeDeviceAckOrPoll
  <2>2. \A x, y \in controllerRadio' : x = y
    BY <2>1, PollBuffers
  <2>3. /\ UNCHANGED <<isResettingBus, controllerReply, deviceReply>>
        /\ deviceRadio' = [deviceRadio EXCEPT ![d] = {}]
    BY <1>10 DEF TakeDeviceAckOrPoll
  <2> QED
    BY <2>2, <2>3 DEF Buffers
<1>11. ASSUME NEW d \in Device, RestartDevice(d)
       PROVE  Buffers'
  <2>1. /\ UNCHANGED <<isResettingBus, controllerReply, controllerRadio>>
        /\ deviceRadio' = [deviceRadio EXCEPT ![d] = {}]
        /\ deviceReply' = [deviceReply EXCEPT ![d] = {}]
    BY <1>11 DEF RestartDevice
  <2> QED
    BY <2>1 DEF Buffers
<1>12. ASSUME NEW d \in Device,
              ElapseDevice(d) \/ ElapsePolling(d) \/ \E v \in Value : SetDevice(d, v)
       PROVE  Buffers'
  <2>1. UNCHANGED <<isResettingBus, controllerReply, controllerRadio, deviceReply, deviceRadio>>
    BY <1>12 DEF ElapseDevice, ElapsePolling, SetDevice
  <2> QED
    BY <2>1 DEF Buffers
<1>13. CASE UNCHANGED vars
  BY <1>13 DEF vars, Buffers
<1> QED
  BY <1>1, <1>2, <1>3, <1>4, <1>5, <1>6, <1>7, <1>8, <1>9, <1>10, <1>11, <1>12, <1>13
  DEF Next, LoopController, LoopDevice

-------------------------------------------------------------------------------
(* The simulation.                                                         *)

LEMMA HearsAssignment ==
  ASSUME NEW STATE f, f.command \in {"ASSIGN_ADDRESS", "BUS_RESET"}, Transmit(f)
  PROVE  V!Broadcast(f)
<1>1. PICK S \in SUBSET {d \in Device : deviceRadio[d] = {}} :
         deviceRadio' = [d \in Device |-> IF d \in S THEN {f} ELSE deviceRadio[d]]
  BY DEF Transmit
<1>2. S \in SUBSET {d \in Device : HeardFrame[d] = {}}
  BY DEF HeardFrame, Only
<1>3. ASSUME NEW d \in Device
      PROVE  HeardFrame'[d] = IF d \in S THEN {f} ELSE HeardFrame[d]
  BY <1>1 DEF HeardFrame, Only
<1>4. HeardFrame' = [d \in Device |-> IF d \in S THEN {f} ELSE HeardFrame[d]]
  BY <1>3 DEF HeardFrame
<1> QED
  BY <1>2, <1>4 DEF V!Broadcast, HeardFrame

LEMMA MissesMail ==
  ASSUME NEW STATE f, f.command \in Command, Transmit(f)
  PROVE  HeardFrame' = HeardFrame
<1>1. PICK S \in SUBSET {d \in Device : deviceRadio[d] = {}} :
         deviceRadio' = [d \in Device |-> IF d \in S THEN {f} ELSE deviceRadio[d]]
  BY DEF Transmit
<1>2. ASSUME NEW d \in Device
      PROVE  Only(deviceRadio'[d], {"ASSIGN_ADDRESS", "BUS_RESET"})
                = Only(deviceRadio[d], {"ASSIGN_ADDRESS", "BUS_RESET"})
  BY <1>1 DEF Only, Command
<1> QED
  BY <1>2 DEF HeardFrame

LEMMA MissesDeviceMail ==
  ASSUME NEW STATE f, f.command \in Command, ToController(f)
  PROVE  HeardRequest' = HeardRequest
BY DEF ToController, HeardRequest, Only, Command

LEMMA DevicePolls ==
  ASSUME NEW d \in Device, NEW STATE a, NEW STATE m, PollDevice(d, a, m)
  PROVE  V!PollDevice(d, a)
<1> DEFINE f == [command |-> "REQUEST_ADDRESS", device |-> d]
<1>1. CASE a = Unassigned /\ due[d]
  <2>1. due' = [due EXCEPT ![d] = FALSE] /\ ToController(f)
    BY <1>1 DEF PollDevice
  <2>2. HeardRequest' \in {HeardRequest, IF HeardRequest # {} THEN HeardRequest ELSE {f}}
    BY <2>1 DEF ToController, HeardRequest, Only
  <2> QED
    BY <1>1, <2>1, <2>2 DEF V!PollDevice, HeardRequest, Unassigned
<1>2. CASE ~(a = Unassigned /\ due[d])
  <2>1. due' = due
    BY <1>2 DEF PollDevice
  <2>2. HeardRequest' = HeardRequest
    <3>1. CASE UNCHANGED controllerRadio
      BY <3>1 DEF HeardRequest
    <3>2. CASE ToController(FromDevice(a, GeneratedCommand(m), m.contents))
      <4>1. FromDevice(a, GeneratedCommand(m), m.contents).command \in Command
        BY GeneratesMail DEF FromDevice
      <4> QED
        BY <3>2, <4>1, MissesDeviceMail
    <3> QED
      BY <1>2, <3>1, <3>2 DEF PollDevice
  <2> QED
    BY <1>2, <2>1, <2>2 DEF V!PollDevice, HeardRequest, Unassigned
<1> QED
  BY <1>1, <1>2

LEMMA SendReplySimulates ==
  ASSUME Buffers, SendReply
  PROVE  V!SendReply \/ UNCHANGED V!vars
<1>1. PICK f \in controllerReply : Transmit(f)
  BY DEF SendReply
<1>2. /\ Reply' = {} /\ HeardRequest' = HeardRequest
      /\ UNCHANGED <<vending, membership>>
  BY DEF SendReply, Reply, HeardRequest, Only
<1>3. CASE f.command = "ASSIGN_ADDRESS"
  <2>1. f \in Reply
    BY <1>3 DEF Reply, Only
  <2>2. V!Broadcast(f)
    BY <1>1, <1>3, HearsAssignment
  <2> QED
    BY <1>2, <2>1, <2>2 DEF V!SendReply, Reply, HeardRequest, vending, membership
<1>4. CASE f.command # "ASSIGN_ADDRESS"
  <2>1. f.command \in Command
    BY <1>4 DEF Buffers, Command
  <2>2. HeardFrame' = HeardFrame
    BY <1>1, <2>1, MissesMail
  <2>3. Reply' = Reply
    BY <1>2, <1>4 DEF Reply, Only, Buffers
  <2> QED
    BY <1>2, <2>2, <2>3 DEF V!vars, Reply, HeardRequest, HeardFrame, vending, membership
<1> QED
  BY <1>3, <1>4

LEMMA BindSimulates ==
  ASSUME Bind
  PROVE  V!Bind
<1>1. PICK f \in HeardRequest : \E i \in V!Proxy :
        /\ V!First(V!Candidates(f.device), i)
        /\ nextAddressToVend' = V!CounterAfter(i)
        /\ connectedDevice' = [connectedDevice EXCEPT ![i] =
              [connected |-> TRUE, hardwareID |-> HardwareID[f.device],
               address |-> V!AddressFor(i)]]
        /\ controllerReply' = {[command |-> "ASSIGN_ADDRESS", boot |-> boots,
                                hardwareID |-> HardwareID[f.device],
                                address |-> V!AddressFor(i)]}
  BY DEF Bind, HeardRequest
<1>2. PICK i \in V!Proxy :
        /\ V!First(V!Candidates(f.device), i)
        /\ nextAddressToVend' = V!CounterAfter(i)
        /\ connectedDevice' = [connectedDevice EXCEPT ![i] =
              [connected |-> TRUE, hardwareID |-> HardwareID[f.device],
               address |-> V!AddressFor(i)]]
        /\ controllerReply' = {[command |-> "ASSIGN_ADDRESS", boot |-> boots,
                                hardwareID |-> HardwareID[f.device],
                                address |-> V!AddressFor(i)]}
  BY <1>1
<1>3. Reply' = {[command |-> "ASSIGN_ADDRESS", hardwareID |-> HardwareID[f.device],
                 address |-> V!AddressFor(i), boot |-> boots]}
  BY <1>2 DEF Reply, Only
<1>4. /\ Reply = {} /\ HeardRequest' = {} /\ HeardFrame' = HeardFrame
      /\ UNCHANGED <<isResettingBus, boots, membership>>
  BY DEF Bind, Reply, HeardRequest, HeardFrame, Only
<1> QED
  BY <1>2, <1>3, <1>4 DEF V!Bind, Reply, HeardRequest, HeardFrame, membership

LEMMA TakeValueSimulates ==
  ASSUME Buffers, TakeValue
  PROVE  UNCHANGED V!vars
<1>1. PICK f \in controllerRadio : f.command \in Command
  BY DEF TakeValue, Only
<1>2. HeardRequest = {} /\ HeardRequest' = {}
  BY <1>1 DEF TakeValue, HeardRequest, Only, Buffers, Command
<1>3. Reply = {} /\ Reply' = {}
  BY DEF TakeValue, Reply, Only, FromProxy
<1>4. HeardFrame' = HeardFrame /\ UNCHANGED <<vending, membership>>
  BY DEF TakeValue, HeardFrame
<1> QED
  BY <1>2, <1>3, <1>4 DEF V!vars, Reply, HeardRequest, HeardFrame, vending, membership

LEMMA ControllerPollSimulates ==
  ASSUME Buffers, TakeAckOrPoll
  PROVE  V!PollController
<1>1. PICK pb : PollController(pb)
  BY DEF TakeAckOrPoll
<1>2. \A f \in HeardRequest : V!Candidates(f.device) = {}
  <2>1. CASE \A f \in controllerRadio : Unserved(f)
    BY <2>1 DEF HeardRequest, Only, Unserved
  <2>2. CASE \E f \in Only(controllerRadio, {"ACK_VALUE"}) : TRUE
    BY <2>2 DEF HeardRequest, Only, Buffers
  <2> QED
    BY <2>1, <2>2 DEF TakeAckOrPoll
<1>3. /\ isResettingBus' = FALSE
      /\ IF isResettingBus THEN V!Broadcast([command |-> "BUS_RESET"])
         ELSE HeardFrame' = HeardFrame
  <2>1. CASE isResettingBus
    BY <1>1, <2>1, HearsAssignment DEF PollController
  <2>2. CASE ~isResettingBus
    <3>1. isResettingBus' = FALSE
      BY <1>1, <2>2 DEF PollController, Buffers
    <3>2. CASE UNCHANGED deviceRadio
      BY <2>2, <3>1, <3>2 DEF HeardFrame
    <3>3. ASSUME NEW i \in V!Proxy,
                 Transmit(FromProxy(i, GeneratedCommand(pb[i]), pb[i].contents))
          PROVE  HeardFrame' = HeardFrame
      <4>1. FromProxy(i, GeneratedCommand(pb[i]), pb[i].contents).command \in Command
        BY GeneratesMail DEF FromProxy
      <4> QED
        BY <3>3, <4>1, MissesMail
    <3> QED
      BY <1>1, <2>2, <3>1, <3>2, <3>3 DEF PollController, DueProxies
  <2> QED
    BY <2>1, <2>2
<1>4. /\ Reply = {} /\ Reply' = {} /\ HeardRequest' = {}
      /\ UNCHANGED <<connectedDevice, nextAddressToVend, boots, membership>>
  BY DEF TakeAckOrPoll, Reply, HeardRequest, Only
<1> QED
  BY <1>2, <1>3, <1>4 DEF V!PollController, Reply, HeardRequest, HeardFrame, membership

LEMMA ControlSimulates ==
  ASSUME Buffers, NEW d \in Device, TakeControl(d)
  PROVE  V!HandleFrame(d)
<1>1. PICK f \in Only(deviceRadio[d], {"ASSIGN_ADDRESS", "BUS_RESET"}) :
        /\ address' = [address EXCEPT ![d] = NewAddress(d, f)]
        /\ joined' = IF V!Accepts(d, f) THEN [joined EXCEPT ![d] = f.boot] ELSE joined
        /\ PollDevice(d, NewAddress(d, f),
                      IF ResetsDevice(d, f) THEN BusReset(deviceBox[d]) ELSE deviceBox[d])
  BY DEF TakeControl
<1>2. /\ f \in HeardFrame[d]
      /\ NewAddress(d, f) = V!AddressAfter(d, f)
      /\ V!PollDevice(d, NewAddress(d, f))
  BY <1>1, DevicePolls DEF HeardFrame, NewAddress
<1>3. HeardFrame' = [HeardFrame EXCEPT ![d] = {}]
  <2>1. deviceRadio' = [deviceRadio EXCEPT ![d] = {}]
    BY DEF TakeControl
  <2>2. deviceRadio = [e \in Device |-> deviceRadio[e]]
    BY DEF Buffers
  <2> QED
    BY <2>1, <2>2 DEF HeardFrame, Only
<1>4. Reply' = Reply /\ UNCHANGED <<vending, restarts>>
  BY DEF TakeControl, Reply
<1> QED
  BY <1>1, <1>2, <1>3, <1>4 DEF V!HandleFrame, Reply, HeardFrame, vending

LEMMA DeviceMailSimulates ==
  ASSUME Buffers, NEW d \in Device, SendDeviceReply(d) \/ TakeDeviceValue(d)
  PROVE  UNCHANGED V!vars
<1>1. CASE SendDeviceReply(d)
  <2>1. PICK f \in deviceReply[d] : ToController(f)
    BY <1>1 DEF SendDeviceReply
  <2>2. HeardRequest' = HeardRequest
    BY <2>1, MissesDeviceMail DEF Buffers, Command
  <2>3. Reply' = Reply /\ HeardFrame' = HeardFrame /\ UNCHANGED <<vending, membership>>
    BY <1>1 DEF SendDeviceReply, Reply, HeardFrame
  <2> QED
    BY <2>2, <2>3 DEF V!vars, Reply, HeardRequest, HeardFrame, vending, membership
<1>2. CASE TakeDeviceValue(d)
  <2>1. PICK f \in deviceRadio[d] : f.command \in Command
    BY <1>2 DEF TakeDeviceValue, Only
  <2>2. deviceRadio' = [deviceRadio EXCEPT ![d] = {}]
    BY <1>2 DEF TakeDeviceValue
  <2>3. HeardFrame' = HeardFrame
    BY <2>1, <2>2 DEF HeardFrame, Only, Buffers, Command
  <2>4. /\ Reply' = Reply /\ HeardRequest' = HeardRequest
        /\ UNCHANGED <<vending, membership>>
    BY <1>2 DEF TakeDeviceValue, Reply, HeardRequest
  <2> QED
    BY <2>3, <2>4 DEF V!vars, Reply, HeardRequest, HeardFrame, vending, membership
<1> QED
  BY <1>1, <1>2

LEMMA DevicePollSimulates ==
  ASSUME Buffers, NEW d \in Device, TakeDeviceAckOrPoll(d)
  PROVE  V!AskForAddress(d)
<1>1. PICK m : PollDevice(d, address[d], m)
  BY DEF TakeDeviceAckOrPoll
<1>2. V!PollDevice(d, address[d])
  BY <1>1, DevicePolls
<1>3. HeardFrame[d] = {}
  <2>1. CASE \A f \in deviceRadio[d] : f.command \in Command
    BY <2>1 DEF HeardFrame, Only, Command
  <2>2. CASE \E f \in Only(deviceRadio[d], {"ACK_VALUE"}) : TRUE
    BY <2>2 DEF HeardFrame, Only, Buffers
  <2> QED
    BY <2>1, <2>2 DEF TakeDeviceAckOrPoll
<1>4. deviceRadio' = [deviceRadio EXCEPT ![d] = {}]
  BY DEF TakeDeviceAckOrPoll
<1>5. HeardFrame' = HeardFrame
  <2>1. deviceRadio = [e \in Device |-> deviceRadio[e]]
    BY DEF Buffers
  <2> QED
    BY <1>3, <1>4, <2>1 DEF HeardFrame, Only
<1>6. Reply' = Reply /\ UNCHANGED <<vending, address, restarts, joined>>
  BY DEF TakeDeviceAckOrPoll, Reply
<1> QED
  BY <1>2, <1>3, <1>5, <1>6 DEF V!AskForAddress, Reply, HeardFrame, vending

LEMMA RestartsSimulate ==
  ASSUME Buffers
  PROVE  /\ RestartController => V!RestartController
         /\ \A d \in Device : RestartDevice(d) => V!RestartDevice(d)
<1>1. ASSUME RestartController PROVE V!RestartController
  <2>1. Reply' = {} /\ HeardRequest' = {} /\ HeardFrame' = HeardFrame
    BY <1>1 DEF RestartController, Reply, HeardRequest, HeardFrame, Only
  <2> QED
    BY <1>1, <2>1 DEF RestartController, V!RestartController, Reply, HeardRequest, HeardFrame,
       membership
<1>2. ASSUME NEW d \in Device, RestartDevice(d) PROVE V!RestartDevice(d)
  <2>1. /\ Reply' = Reply /\ HeardRequest' = HeardRequest
        /\ deviceRadio' = [deviceRadio EXCEPT ![d] = {}]
    BY <1>2 DEF RestartDevice, Reply, HeardRequest
  <2>2. HeardFrame' = [HeardFrame EXCEPT ![d] = {}]
    <3>1. deviceRadio = [e \in Device |-> deviceRadio[e]]
      BY DEF Buffers
    <3> QED
      BY <2>1, <3>1 DEF HeardFrame, Only
  <2> QED
    BY <1>2, <2>1, <2>2 DEF RestartDevice, V!RestartDevice, Reply, HeardRequest, HeardFrame,
       vending, Unassigned
<1> QED
  BY <1>1, <1>2

LEMMA NextSimulates == Buffers /\ [Next]_vars => [V!Next]_(V!vars)
<1> SUFFICES ASSUME Buffers, [Next]_vars
             PROVE  V!Next \/ UNCHANGED V!vars
  OBVIOUS
<1>1. CASE LoopController
  <2>1. V!LoopController \/ UNCHANGED V!vars
    BY <1>1, SendReplySimulates, BindSimulates, TakeValueSimulates, ControllerPollSimulates
    DEF LoopController, V!LoopController
  <2> QED
    BY <2>1 DEF V!Next
<1>2. CASE RestartController
  BY <1>2, RestartsSimulate DEF V!Next
<1>3. ASSUME NEW d \in Device, LoopDevice(d)
      PROVE  V!Next \/ UNCHANGED V!vars
  <2>1. V!LoopDevice(d) \/ UNCHANGED V!vars
    BY <1>3, ControlSimulates, DeviceMailSimulates, DevicePollSimulates
    DEF LoopDevice, V!LoopDevice
  <2> QED
    BY <2>1 DEF V!Next
<1>4. ASSUME NEW d \in Device, RestartDevice(d)
      PROVE  V!Next
  BY <1>4, RestartsSimulate DEF V!Next
<1>5. ASSUME NEW d \in Device, ElapsePolling(d)
      PROVE  V!Next
  <2>1. V!Elapse(d)
    BY <1>5 DEF ElapsePolling, V!Elapse, vending
  <2> QED
    BY <2>1 DEF V!Next
<1>6. CASE \/ \E i \in V!Proxy : ElapseProxy(i) \/ \E v \in Value : SetProxy(i, v)
           \/ \E d \in Device : ElapseDevice(d) \/ \E v \in Value : SetDevice(d, v)
           \/ UNCHANGED vars
  <2>1. UNCHANGED <<vending, membership, controllerReply, controllerRadio, deviceRadio>>
    BY <1>6 DEF ElapseProxy, SetProxy, ElapseDevice, SetDevice, vars
  <2> QED
    BY <2>1 DEF V!vars, vending, membership
<1> QED
  BY <1>1, <1>2, <1>3, <1>4, <1>5, <1>6 DEF Next

LEMMA InitSimulates == Init => V!Init
BY DEF Init, V!Init, Only, Unassigned, V!NoDevice, V!FirstAddress, V!ADDR_UNASSIGNED, V!Proxy

LEMMA BuffersHold == Spec => []Buffers
BY InitBuffers, NextBuffers, PTL DEF Spec

(* Whatever the mailboxes do, device control behaves as AddressVending     *)
(* allows: mail that shares its frame buffers, radios and turns of loop()  *)
(* can delay a request or an assignment and never replaces one             *)
(* (Network.cpp 60-79, 125-155).                                           *)
THEOREM MailDoesNotDisturb == Spec => ImplementsVending
BY InitSimulates, NextSimulates, BuffersHold, PTL DEF Spec, ImplementsVending, V!Spec

-------------------------------------------------------------------------------
(* Through the simulation: what is proved of AddressVending.               *)

VP == INSTANCE AddressVendingProofs WITH
        reply <- Only(controllerReply, {"ASSIGN_ADDRESS"}),
        heardRequest <- Only(controllerRadio, {"REQUEST_ADDRESS"}),
        heardFrame <- [d \in Device |-> Only(deviceRadio[d], {"ASSIGN_ADDRESS", "BUS_RESET"})]

(* The two instances are of one module.                                    *)
LEMMA SameAssumptions ==
  /\ HardwareID \in [Device -> VP!Word \ {VP!HWID_UNASSIGNED}]
  /\ DOMAIN DeviceType = Device
  /\ NumProxies \in Nat /\ DOMAIN ProxyType = VP!Proxy
<1>1. V!Word = VP!Word
  BY DEF V!Word, VP!Word
<1>2. V!HWID_UNASSIGNED = VP!HWID_UNASSIGNED
  BY DEF V!HWID_UNASSIGNED, VP!HWID_UNASSIGNED
<1>3. V!Proxy = VP!Proxy
  BY DEF V!Proxy, VP!Proxy
<1> QED
  BY <1>1, <1>2, <1>3, VendingAssumption DEF V!DeviceAssumption

LEMMA SameBounds == MaxBoots \in Nat \ {0} /\ MaxRestarts \in Nat
BY VendingAssumption DEF V!VendingBounds

LEMMA SameInit == V!Init <=> VP!Init
BY DEF V!Init, VP!Init, V!NoDevice, VP!NoDevice, V!FirstAddress, VP!FirstAddress,
   V!ADDR_UNASSIGNED, VP!ADDR_UNASSIGNED, V!HWID_UNASSIGNED, VP!HWID_UNASSIGNED, V!Proxy, VP!Proxy

LEMMA SameNext == [V!Next]_(V!vars) <=> [VP!Next]_(VP!vars)
BY DEF V!Next, VP!Next, V!vars, VP!vars, V!LoopController, VP!LoopController,
   V!RestartController, VP!RestartController, V!LoopDevice, VP!LoopDevice,
   V!RestartDevice, VP!RestartDevice, V!Elapse, VP!Elapse, V!HandleFrame, VP!HandleFrame,
   V!AskForAddress, VP!AskForAddress, V!PollDevice, VP!PollDevice, V!Accepts, VP!Accepts,
   V!AddressAfter, VP!AddressAfter, V!ADDR_UNASSIGNED, VP!ADDR_UNASSIGNED,
   V!HWID_UNASSIGNED, VP!HWID_UNASSIGNED, V!SendReply, VP!SendReply,
   V!Broadcast, VP!Broadcast, V!Bind, VP!Bind, V!PollController, VP!PollController,
   V!First, VP!First, V!Candidates, VP!Candidates, V!CounterAfter, VP!CounterAfter,
   V!IsNew, VP!IsNew, V!AddressFor, VP!AddressFor, V!NoDevice, VP!NoDevice,
   V!FirstAddress, VP!FirstAddress, V!Proxy, VP!Proxy

LEMMA SameTypeOK == V!TypeOK <=> VP!TypeOK
<1>1. V!Proxy = VP!Proxy /\ V!Word = VP!Word /\ V!Address = VP!Address
  BY DEF V!Proxy, VP!Proxy, V!Word, VP!Word, V!Address, VP!Address
<1>2. V!Request = VP!Request /\ V!BusReset = VP!BusReset
  BY DEF V!Request, VP!Request, V!BusReset, VP!BusReset
<1>3. V!Assign = VP!Assign
  BY <1>1 DEF V!Assign, VP!Assign
<1>4. \A S : V!Cardinality(S) = VP!Cardinality(S)
  BY DEF V!Cardinality, VP!Cardinality
<1> QED
  BY <1>1, <1>2, <1>3, <1>4 DEF V!TypeOK, VP!TypeOK

LEMMA VendingIsTyped == Spec => []V!TypeOK
<1>1. VP!Spec => []VP!TypeOK
  BY VP!VendingTypeCorrect, SameAssumptions, SameBounds
<1> QED
  BY <1>1, MailDoesNotDisturb, SameInit, SameNext, SameTypeOK, PTL
  DEF ImplementsVending, V!Spec, VP!Spec

(* The invariant of AddressVending holds of the composition.               *)
LEMMA VendingInvariantHolds ==
  ASSUME VP!EnoughAddresses
  PROVE  Spec => []VP!IndInv
<1>1. VP!Spec => []VP!IndInv
  BY VP!VendingInvariant, SameAssumptions, SameBounds
<1> QED
  BY <1>1, MailDoesNotDisturb, SameInit, SameNext, PTL
  DEF ImplementsVending, V!Spec, VP!Spec

-------------------------------------------------------------------------------
(* Type correctness.                                                       *)

(* A frame is one of device control or a mail, and every mailbox holds a   *)
(* value.                                                                  *)
MailTypeOK ==
  /\ \A f \in controllerReply : f.command = "ASSIGN_ADDRESS" \/ f \in Mail
  /\ \A f \in controllerRadio : f.command = "REQUEST_ADDRESS" \/ f \in Mail
  /\ \A d \in Device : /\ deviceReply[d] \subseteq Mail
                       /\ \A f \in deviceRadio[d] :
                             f.command \in {"ASSIGN_ADDRESS", "BUS_RESET"} \/ f \in Mail
  /\ proxyBox \in [V!Proxy -> Mailbox] /\ deviceBox \in [Device -> Mailbox]
  /\ proxyStored \in [V!Proxy -> SUBSET Value] /\ deviceStored \in [Device -> SUBSET Value]

(* What the methods of a mailbox leave of its contents.                    *)
LEMMA BoxOperators ==
  ASSUME NEW m \in Mailbox, NEW v \in Value
  PROVE  /\ SetLong(m, v) \in Mailbox /\ SetLong(m, v).contents = v
         /\ BusReset(m) \in Mailbox /\ BusReset(m).contents = m.contents
         /\ AfterGenerate(m) \in Mailbox /\ AfterGenerate(m).contents = m.contents
         /\ AfterDisregard(m) \in Mailbox /\ AfterDisregard(m).contents = m.contents
         /\ AfterAccept(m, v) \in Mailbox /\ AfterAccept(m, v).contents = v
         /\ AfterAck(m, v) \in Mailbox /\ AfterAck(m, v).contents = m.contents
         /\ [m EXCEPT !.waiting = FALSE] \in Mailbox
         /\ [m EXCEPT !.waiting = FALSE].contents = m.contents
         /\ m.contents \in Value
BY DEF Mailbox, SetLong, BusReset, AfterGenerate, AfterDisregard, AfterAccept, AfterAck

LEMMA NewMailboxType == NewMailbox \in Mailbox /\ NewMailbox.contents = Zero
BY ZeroAssumption DEF NewMailbox, Mailbox

(* What the radios hold after a transmission, heard by anybody or not.     *)
LEMMA TransmitHears ==
  ASSUME NEW STATE f, Transmit(f), NEW d \in Device
  PROVE  deviceRadio'[d] \in {deviceRadio[d], {f}}
BY DEF Transmit

LEMMA ToControllerHears ==
  ASSUME NEW STATE f, ToController(f)
  PROVE  controllerRadio' \in {controllerRadio, {f}}
BY DEF ToController

(* The controller and the devices write mail.                              *)
LEMMA FromProxyIsMail ==
  ASSUME V!TypeOK, NEW STATE i, i \in V!Proxy, NEW STATE c, c \in Command,
         NEW STATE v, v \in Value
  PROVE  FromProxy(i, c, v) \in Mail
BY DEF FromProxy, Mail, V!TypeOK, ADDR_CONTROLLER, V!Address

LEMMA FromDeviceIsMail ==
  ASSUME NEW STATE a, a \in V!Address, NEW STATE c, c \in Command,
         NEW STATE v, v \in Value
  PROVE  FromDevice(a, c, v) \in Mail
BY DEF FromDevice, Mail, ADDR_CONTROLLER, V!Address

(* A turn of polling, of the controller and of a device: which mailboxes   *)
(* and which frames there are afterwards.                                  *)
LEMMA ControllerPolls ==
  ASSUME V!TypeOK, NEW STATE pb, pb \in [V!Proxy -> Mailbox], PollController(pb)
  PROVE  /\ proxyBox' \in [V!Proxy -> Mailbox]
         /\ \A i \in V!Proxy : proxyBox'[i].contents = pb[i].contents
         /\ \A d \in Device : \A f \in deviceRadio'[d] :
               \/ f \in deviceRadio[d]
               \/ f = [command |-> "BUS_RESET"]
               \/ \E i \in V!Proxy : /\ f = FromProxy(i, GeneratedCommand(pb[i]), pb[i].contents)
                                     /\ ~Silent(i) /\ f \in Mail
<1>1. CASE isResettingBus
  BY <1>1, TransmitHears DEF PollController
<1>2. CASE ~isResettingBus /\ proxyBox' = pb /\ UNCHANGED deviceRadio
  BY <1>2
<1>3. ASSUME NEW i \in DueProxies(pb), proxyBox' = [pb EXCEPT ![i] = AfterGenerate(@)],
             Transmit(FromProxy(i, GeneratedCommand(pb[i]), pb[i].contents))
      PROVE  /\ proxyBox' \in [V!Proxy -> Mailbox]
             /\ \A j \in V!Proxy : proxyBox'[j].contents = pb[j].contents
             /\ \A d \in Device : \A f \in deviceRadio'[d] :
                   \/ f \in deviceRadio[d]
                   \/ \E j \in V!Proxy :
                         /\ f = FromProxy(j, GeneratedCommand(pb[j]), pb[j].contents)
                         /\ ~Silent(j) /\ f \in Mail
  <2>1. i \in V!Proxy /\ ~Silent(i)
    BY DEF DueProxies
  <2>2. /\ AfterGenerate(pb[i]) \in Mailbox
        /\ AfterGenerate(pb[i]).contents = pb[i].contents /\ pb[i].contents \in Value
    BY <2>1, BoxOperators, ZeroAssumption
  <2>3. proxyBox' \in [V!Proxy -> Mailbox] /\ \A j \in V!Proxy : proxyBox'[j].contents = pb[j].contents
    BY <1>3, <2>1, <2>2
  <2>4. FromProxy(i, GeneratedCommand(pb[i]), pb[i].contents) \in Mail
    BY <2>1, <2>2, GeneratesMail, FromProxyIsMail
  <2> QED
    BY <1>3, <2>1, <2>3, <2>4, TransmitHears
<1> QED
  BY <1>1, <1>2, <1>3 DEF PollController

LEMMA DeviceTurn ==
  ASSUME NEW STATE d, d \in Device, NEW STATE a, a \in V!Address, NEW STATE m, m \in Mailbox,
         deviceBox \in [Device -> Mailbox], PollDevice(d, a, m)
  PROVE  /\ deviceBox' \in [Device -> Mailbox]
         /\ \A e \in Device : deviceBox'[e].contents = IF e = d THEN m.contents
                                                       ELSE deviceBox[e].contents
         /\ \A f \in controllerRadio' :
               \/ f \in controllerRadio
               \/ f.command = "REQUEST_ADDRESS"
               \/ f = FromDevice(a, GeneratedCommand(m), m.contents) /\ f \in Mail
<1>1. m.contents \in Value /\ AfterGenerate(m) \in Mailbox /\ AfterGenerate(m).contents = m.contents
  BY BoxOperators, ZeroAssumption
<1>2. deviceBox' \in {[deviceBox EXCEPT ![d] = m], [deviceBox EXCEPT ![d] = AfterGenerate(m)]}
  BY DEF PollDevice
<1>3. /\ deviceBox' \in [Device -> Mailbox]
      /\ \A e \in Device : deviceBox'[e].contents = IF e = d THEN m.contents
                                                    ELSE deviceBox[e].contents
  BY <1>1, <1>2
<1>4. CASE ToController([command |-> "REQUEST_ADDRESS", device |-> d])
  BY <1>3, <1>4, ToControllerHears
<1>5. CASE ToController(FromDevice(a, GeneratedCommand(m), m.contents))
  <2>1. FromDevice(a, GeneratedCommand(m), m.contents) \in Mail
    BY <1>1, GeneratesMail, FromDeviceIsMail
  <2> QED
    BY <1>3, <1>5, <2>1, ToControllerHears
<1>6. CASE UNCHANGED controllerRadio
  BY <1>3, <1>6
<1> QED
  BY <1>4, <1>5, <1>6 DEF PollDevice

(* Mail in a radio is of its type, and what a device takes from one.       *)
LEMMA MailIsTyped ==
  ASSUME MailTypeOK
  PROVE  /\ \A f \in Only(controllerRadio, Command) : f \in Mail
         /\ \A d \in Device : \A f \in Only(deviceRadio[d], Command) : f \in Mail
BY DEF MailTypeOK, Only, Command

LEMMA NewAddressType ==
  ASSUME V!TypeOK, NEW d \in Device,
         NEW f \in Only(deviceRadio[d], {"ASSIGN_ADDRESS", "BUS_RESET"})
  PROVE  /\ NewAddress(d, f) \in V!Address
         /\ V!Accepts(d, f) => f \in V!Assign
<1>1. f \in V!Assign \cup V!BusReset
  BY DEF V!TypeOK
<1>2. V!Accepts(d, f) => f \in V!Assign
  BY <1>1 DEF V!Accepts, V!BusReset
<1> QED
  BY <1>2 DEF NewAddress, V!AddressAfter, V!Assign, V!TypeOK, V!Address, V!ADDR_UNASSIGNED

LEMMA InitMailTypeOK == Init => MailTypeOK
BY NewMailboxType DEF Init, MailTypeOK

LEMMA ControllerMailTypeOK ==
  ASSUME V!TypeOK, Buffers, MailTypeOK, LoopController
  PROVE  MailTypeOK'
<1>1. CASE SendReply
  <2>1. PICK f \in controllerReply : Transmit(f)
    BY <1>1 DEF SendReply
  <2>2. \A d \in Device : \A g \in deviceRadio'[d] : g \in deviceRadio[d] \/ g = f
    BY <2>1, TransmitHears
  <2>3. f.command = "ASSIGN_ADDRESS" \/ f \in Mail
    BY DEF MailTypeOK
  <2> QED
    BY <1>1, <2>2, <2>3 DEF SendReply, MailTypeOK
<1>2. CASE Bind
  <2>1. PICK f \in Only(controllerRadio, {"REQUEST_ADDRESS"}), i \in V!Proxy :
          /\ proxyBox' = [proxyBox EXCEPT ![i] = ResetProxy(@)]
          /\ controllerReply' = {[command |-> "ASSIGN_ADDRESS", boot |-> boots,
                                  hardwareID |-> HardwareID[f.device],
                                  address |-> V!AddressFor(i)]}
    BY <1>2 DEF Bind
  <2>2. proxyBox' \in [V!Proxy -> Mailbox]
    BY <2>1, BoxOperators, ZeroAssumption DEF MailTypeOK, ResetProxy
  <2> QED
    BY <1>2, <2>1, <2>2 DEF Bind, MailTypeOK
<1>3. CASE TakeValue
  <2>1. PICK f \in Only(controllerRadio, Command), i \in V!Proxy :
          /\ proxyBox' = [proxyBox EXCEPT ![i] = IF Contended("master", @) THEN AfterDisregard(@)
                                                 ELSE AfterAccept(@, f.value)]
          /\ controllerReply' = {FromProxy(i, "ACK_VALUE", f.value)}
    BY <1>3 DEF TakeValue
  <2>2. f.value \in Value
    BY MailIsTyped DEF Mail
  <2>3. proxyBox' \in [V!Proxy -> Mailbox]
    BY <2>1, <2>2, BoxOperators DEF MailTypeOK
  <2>4. FromProxy(i, "ACK_VALUE", f.value) \in Mail
    BY <2>2, FromProxyIsMail DEF Command
  <2> QED
    BY <1>3, <2>1, <2>3, <2>4 DEF TakeValue, MailTypeOK
<1>4. CASE TakeAckOrPoll
  <2>1. PICK pb \in [V!Proxy -> Mailbox] : PollController(pb)
    <3>1. CASE PollController(proxyBox)
      BY <3>1 DEF MailTypeOK
    <3>2. ASSUME NEW f \in Only(controllerRadio, {"ACK_VALUE"}), NEW i \in V!Proxy,
                 PollController([proxyBox EXCEPT ![i] = AfterAck(@, f.value)])
          PROVE  \E pb \in [V!Proxy -> Mailbox] : PollController(pb)
      <4>1. f \in Only(controllerRadio, Command)
        BY DEF Only, Command
      <4>2. f.value \in Value
        BY <4>1, MailIsTyped DEF Mail
      <4>3. [proxyBox EXCEPT ![i] = AfterAck(@, f.value)] \in [V!Proxy -> Mailbox]
        BY <4>2, BoxOperators DEF MailTypeOK
      <4> QED
        BY <3>2, <4>3
    <3> QED
      BY <1>4, <3>1, <3>2 DEF TakeAckOrPoll
  <2>2. /\ proxyBox' \in [V!Proxy -> Mailbox]
        /\ \A d \in Device : \A f \in deviceRadio'[d] :
              f \in deviceRadio[d] \/ f.command = "BUS_RESET" \/ f \in Mail
    BY <2>1, ControllerPolls
  <2> QED
    BY <1>4, <2>2 DEF TakeAckOrPoll, MailTypeOK
<1> QED
  BY <1>1, <1>2, <1>3, <1>4 DEF LoopController

LEMMA DeviceMailTypeOK ==
  ASSUME V!TypeOK, Buffers, MailTypeOK, NEW d \in Device, LoopDevice(d)
  PROVE  MailTypeOK'
<1>1. CASE SendDeviceReply(d)
  <2>1. PICK f \in deviceReply[d] : ToController(f)
    BY <1>1 DEF SendDeviceReply
  <2>2. \A g \in controllerRadio' : g \in controllerRadio \/ g \in Mail
    BY <2>1, ToControllerHears DEF MailTypeOK
  <2>3. \A e \in Device : deviceReply'[e] \subseteq Mail
    BY <1>1 DEF SendDeviceReply, MailTypeOK, Buffers
  <2> QED
    BY <1>1, <2>2, <2>3 DEF SendDeviceReply, MailTypeOK
<1>2. ASSUME NEW a \in V!Address, NEW m \in Mailbox, PollDevice(d, a, m),
             deviceRadio' = [deviceRadio EXCEPT ![d] = {}],
             UNCHANGED <<controllerReply, deviceReply, proxyBox, proxyStored, deviceStored>>
      PROVE  MailTypeOK'
  <2>1. deviceBox \in [Device -> Mailbox]
    BY DEF MailTypeOK
  <2>2. /\ deviceBox' \in [Device -> Mailbox]
        /\ \A f \in controllerRadio' : f \in controllerRadio \/ f.command = "REQUEST_ADDRESS"
                                       \/ f \in Mail
    BY <1>2, <2>1, DeviceTurn
  <2>3. \A e \in Device : deviceRadio'[e] \subseteq deviceRadio[e]
    BY <1>2 DEF Buffers
  <2> QED
    BY <1>2, <2>2, <2>3 DEF MailTypeOK
<1>3. deviceBox[d] \in Mailbox
  BY DEF MailTypeOK
<1>4. CASE TakeControl(d)
  <2>1. PICK f \in Only(deviceRadio[d], {"ASSIGN_ADDRESS", "BUS_RESET"}) :
          PollDevice(d, NewAddress(d, f),
                     IF ResetsDevice(d, f) THEN BusReset(deviceBox[d]) ELSE deviceBox[d])
    BY <1>4 DEF TakeControl
  <2>2. NewAddress(d, f) \in V!Address
    BY NewAddressType
  <2>3. (IF ResetsDevice(d, f) THEN BusReset(deviceBox[d]) ELSE deviceBox[d]) \in Mailbox
    BY <1>3, BoxOperators, ZeroAssumption
  <2> QED
    BY <1>2, <1>4, <2>1, <2>2, <2>3 DEF TakeControl
<1>5. CASE TakeDeviceValue(d)
  <2>1. PICK f \in Only(deviceRadio[d], Command) :
          /\ deviceBox' = [deviceBox EXCEPT ![d] = AfterAccept(@, f.value)]
          /\ deviceReply' = [deviceReply EXCEPT ![d] =
                {FromDevice(address[d], "ACK_VALUE", f.value)}]
    BY <1>5 DEF TakeDeviceValue
  <2>2. f.value \in Value /\ address[d] \in V!Address
    BY MailIsTyped DEF Mail, V!TypeOK
  <2>3. FromDevice(address[d], "ACK_VALUE", f.value) \in Mail
    BY <2>2, FromDeviceIsMail DEF Command
  <2>4. \A e \in Device : deviceReply'[e] \subseteq Mail
    BY <2>1, <2>3 DEF MailTypeOK, Buffers
  <2>5. deviceBox' \in [Device -> Mailbox]
    BY <2>1, <2>2, BoxOperators DEF MailTypeOK
  <2>6. \A e \in Device : deviceRadio'[e] \subseteq deviceRadio[e]
    BY <1>5 DEF TakeDeviceValue, Buffers
  <2> QED
    BY <1>5, <2>4, <2>5, <2>6 DEF TakeDeviceValue, MailTypeOK
<1>6. CASE TakeDeviceAckOrPoll(d)
  <2>1. address[d] \in V!Address
    BY DEF V!TypeOK
  <2>2. PICK m \in Mailbox : PollDevice(d, address[d], m)
    <3>1. CASE PollDevice(d, address[d], deviceBox[d])
      BY <1>3, <3>1
    <3>2. ASSUME NEW f \in Only(deviceRadio[d], {"ACK_VALUE"}),
                 PollDevice(d, address[d], AfterAck(deviceBox[d], f.value))
          PROVE  \E m \in Mailbox : PollDevice(d, address[d], m)
      <4>1. f \in Only(deviceRadio[d], Command)
        BY DEF Only, Command
      <4>2. f.value \in Value
        BY <4>1, MailIsTyped DEF Mail
      <4> QED
        BY <1>3, <3>2, <4>2, BoxOperators
    <3> QED
      BY <1>6, <3>1, <3>2 DEF TakeDeviceAckOrPoll
  <2> QED
    BY <1>2, <1>6, <2>1, <2>2 DEF TakeDeviceAckOrPoll
<1> QED
  BY <1>1, <1>4, <1>5, <1>6 DEF LoopDevice

LEMMA NextMailTypeOK ==
  ASSUME V!TypeOK, Buffers, MailTypeOK, [Next]_vars
  PROVE  MailTypeOK'
<1>1. CASE RestartController
  <2>1. proxyBox' \in [V!Proxy -> Mailbox]
    BY <1>1, NewMailboxType DEF RestartController
  <2> QED
    BY <1>1, <2>1 DEF RestartController, MailTypeOK
<1>2. ASSUME NEW i \in V!Proxy, ElapseProxy(i) \/ \E v \in Value : SetProxy(i, v)
      PROVE  MailTypeOK'
  <2>1. /\ proxyBox' \in [V!Proxy -> Mailbox]
        /\ proxyStored' \in [V!Proxy -> SUBSET Value]
    <3>1. CASE ElapseProxy(i)
      BY <3>1, BoxOperators, ZeroAssumption DEF ElapseProxy, MailTypeOK
    <3>2. ASSUME NEW v \in Value, SetProxy(i, v)
          PROVE  /\ proxyBox' \in [V!Proxy -> Mailbox]
                 /\ proxyStored' \in [V!Proxy -> SUBSET Value]
      BY <3>2, BoxOperators DEF SetProxy, MailTypeOK
    <3> QED
      BY <1>2, <3>1, <3>2
  <2>2. UNCHANGED <<controllerReply, controllerRadio, deviceReply, deviceRadio, deviceBox,
                    deviceStored>>
    BY <1>2 DEF ElapseProxy, SetProxy
  <2> QED
    BY <2>1, <2>2 DEF MailTypeOK
<1>3. ASSUME NEW d \in Device, ElapseDevice(d) \/ ElapsePolling(d) \/ \E v \in Value : SetDevice(d, v)
      PROVE  MailTypeOK'
  <2>1. /\ deviceBox' \in [Device -> Mailbox]
        /\ deviceStored' \in [Device -> SUBSET Value]
    <3>1. CASE ElapseDevice(d)
      BY <3>1, BoxOperators, ZeroAssumption DEF ElapseDevice, MailTypeOK
    <3>2. CASE ElapsePolling(d)
      BY <3>2 DEF ElapsePolling, MailTypeOK
    <3>3. ASSUME NEW v \in Value, SetDevice(d, v)
          PROVE  /\ deviceBox' \in [Device -> Mailbox]
                 /\ deviceStored' \in [Device -> SUBSET Value]
      BY <3>3, BoxOperators DEF SetDevice, MailTypeOK
    <3> QED
      BY <1>3, <3>1, <3>2, <3>3
  <2>2. UNCHANGED <<controllerReply, controllerRadio, deviceReply, deviceRadio, proxyBox,
                    proxyStored>>
    BY <1>3 DEF ElapseDevice, ElapsePolling, SetDevice
  <2> QED
    BY <2>1, <2>2 DEF MailTypeOK
<1>4. ASSUME NEW d \in Device, RestartDevice(d)
      PROVE  MailTypeOK'
  <2>1. deviceBox' \in [Device -> Mailbox]
    BY <1>4, NewMailboxType DEF RestartDevice, MailTypeOK
  <2>2. \A e \in Device : /\ deviceReply'[e] \subseteq deviceReply[e]
                          /\ deviceRadio'[e] \subseteq deviceRadio[e]
    BY <1>4 DEF RestartDevice, Buffers
  <2> QED
    BY <1>4, <2>1, <2>2 DEF RestartDevice, MailTypeOK
<1>5. CASE UNCHANGED vars
  BY <1>5 DEF vars, MailTypeOK
<1> QED
  BY <1>1, <1>2, <1>3, <1>4, <1>5, ControllerMailTypeOK, DeviceMailTypeOK DEF Next

(* A set whose members are all the same.                                   *)
LEMMA AtMostOne ==
  ASSUME NEW S, \A x, y \in S : x = y
  PROVE  Cardinality(S) <= 1
<1>1. CASE S = {}
  BY <1>1, FS_EmptySet
<1>2. CASE S # {}
  <2>1. PICK x : S = {x}
    BY <1>2
  <2> QED
    BY <2>1, FS_Singleton
<1> QED
  BY <1>1, <1>2

LEMMA TypedTogether ==
  ASSUME V!TypeOK, Buffers, MailTypeOK
  PROVE  TypeOK
<1>1. controllerReply \in SUBSET (V!Assign \cup Mail) /\ Cardinality(controllerReply) <= 1
  <2>1. ASSUME NEW f \in controllerReply, f.command = "ASSIGN_ADDRESS"
        PROVE  f \in V!Assign
    BY <2>1 DEF V!TypeOK, Only
  <2> QED
    BY <2>1, AtMostOne DEF MailTypeOK, Buffers
<1>2. controllerRadio \in SUBSET (V!Request \cup Mail) /\ Cardinality(controllerRadio) <= 1
  <2>1. ASSUME NEW f \in controllerRadio, f.command = "REQUEST_ADDRESS"
        PROVE  f \in V!Request
    BY <2>1 DEF V!TypeOK, Only
  <2> QED
    BY <2>1, AtMostOne DEF MailTypeOK, Buffers
<1>3. deviceReply \in [Device -> SUBSET Mail]
  BY DEF MailTypeOK, Buffers
<1>4. deviceRadio \in [Device -> SUBSET (V!Assign \cup V!BusReset \cup Mail)]
  <2>1. ASSUME NEW d \in Device, NEW f \in deviceRadio[d],
               f.command \in {"ASSIGN_ADDRESS", "BUS_RESET"}
        PROVE  f \in V!Assign \cup V!BusReset
    BY <2>1 DEF V!TypeOK, Only
  <2>2. \A d \in Device : deviceRadio[d] \subseteq V!Assign \cup V!BusReset \cup Mail
    BY <2>1 DEF MailTypeOK
  <2>3. deviceRadio = [d \in Device |-> deviceRadio[d]]
    BY DEF Buffers
  <2> QED
    BY <2>2, <2>3
<1>5. \A d \in Device : Cardinality(deviceReply[d]) <= 1 /\ Cardinality(deviceRadio[d]) <= 1
  BY AtMostOne DEF Buffers
<1> QED
  BY <1>1, <1>2, <1>3, <1>4, <1>5 DEF TypeOK, MailTypeOK

LEMMA MailIsTypedAlways == Spec => []MailTypeOK
BY InitMailTypeOK, NextMailTypeOK, VendingIsTyped, BuffersHold, PTL DEF Spec

(* Addresses stay in a byte, no radio and no reply buffer ever holds two   *)
(* frames, and what they hold is a frame of device control or a mail with  *)
(* a value, for any devices and any number of power cycles (Network.cpp    *)
(* 125-155).                                                               *)
THEOREM ConnectionTypeCorrect == Spec => []TypeOK
BY TypedTogether, MailIsTypedAlways, VendingIsTyped, BuffersHold, PTL

-------------------------------------------------------------------------------
(* Isolation.                                                              *)

(* What the mailbox of proxy i, of device d may hold: Isolated says that   *)
(* it does.                                                                *)
ProxyMay(i) ==
  proxyStored[i] \cup {Zero} \cup
     UNION {deviceStored[e] : e \in {e \in Device :
               HardwareID[e] = connectedDevice[i].hardwareID}}

DeviceMay(d) ==
  deviceStored[d] \cup {Zero} \cup
     UNION {proxyStored[j] : j \in {j \in V!Proxy :
               connectedDevice[j].hardwareID = HardwareID[d]}}

(* A bound proxy has address a and may hold v.                             *)
Vouched(a, v) == \E i \in V!Proxy : /\ connectedDevice[i].connected
                                    /\ connectedDevice[i].address = a
                                    /\ v \in ProxyMay(i)

(* Mail to an address carries what the proxy that has it may hold, and so  *)
(* does mail from an address.                                              *)
ToDevices == {f \in controllerReply \cup UNION {deviceRadio[d] : d \in Device} :
                f.command \in Command}
ToProxies == {f \in controllerRadio \cup UNION {deviceReply[d] : d \in Device} :
                f.command \in Command}

MailInv == /\ \A f \in ToDevices : Vouched(f.dest, f.value)
           /\ \A f \in ToProxies : f.src # Unassigned => Vouched(f.src, f.value)

ContentsInv == /\ \A i \in V!Proxy : proxyBox[i].contents \in ProxyMay(i)
               /\ \A d \in Device : deviceBox[d].contents \in DeviceMay(d)

(* What is needed of the bindings while the controller stays on: proxies   *)
(* that are bound differ, and an address that a device has or is about to  *)
(* take is the one of the proxy bound to it.                               *)
BoundTo(i, hwid, a) == /\ connectedDevice[i].connected
                       /\ connectedDevice[i].hardwareID = hwid
                       /\ connectedDevice[i].address = a

Bindings ==
  /\ \A i \in V!Proxy :
        IF connectedDevice[i].connected
        THEN \A j \in V!Proxy : /\ connectedDevice[j].connected
                                /\ \/ connectedDevice[i].address = connectedDevice[j].address
                                   \/ connectedDevice[i].hardwareID = connectedDevice[j].hardwareID
                                => i = j
        ELSE /\ connectedDevice[i].address = Unassigned
             /\ \A d \in Device : connectedDevice[i].hardwareID # HardwareID[d]
  /\ \A d \in Device :
        /\ address[d] # Unassigned => \E i \in V!Proxy : BoundTo(i, HardwareID[d], address[d])
        /\ \A f \in deviceRadio[d] : f.command = "ASSIGN_ADDRESS" =>
              \E i \in V!Proxy : BoundTo(i, f.hardwareID, f.address)

LEMMA BindingsHold ==
  ASSUME MaxBoots = 1, V!TypeOK, VP!IndInv
  PROVE  Bindings
<1>1. V!Proxy = VP!Proxy /\ Unassigned = VP!ADDR_UNASSIGNED
  BY DEF V!Proxy, VP!Proxy, Unassigned, V!ADDR_UNASSIGNED, VP!ADDR_UNASSIGNED
<1>2. boots = 1
  BY DEF V!TypeOK
<1>3. ASSUME NEW f \in VP!Assignments
      PROVE  \E i \in V!Proxy : BoundTo(i, f.hardwareID, f.address)
  <2>1. f.boot = boots
    BY <1>2 DEF VP!IndInv, VP!AssignmentInv
  <2>2. PICK i \in VP!BoundProxies : /\ connectedDevice[i].hardwareID = f.hardwareID
                                     /\ connectedDevice[i].address = f.address
    BY <2>1 DEF VP!IndInv, VP!AssignmentInv
  <2> QED
    BY <1>1, <2>2 DEF VP!BoundProxies, BoundTo
<1>4. ASSUME NEW d \in Device, address[d] # Unassigned
      PROVE  \E i \in V!Proxy : BoundTo(i, HardwareID[d], address[d])
  <2>1. VP!Holding(d) \in VP!Assignments
    BY <1>1, <1>4 DEF VP!Assignments, VP!Assigned
  <2> QED
    BY <1>3, <2>1 DEF VP!Holding
<1>5. ASSUME NEW d \in Device, NEW f \in deviceRadio[d], f.command = "ASSIGN_ADDRESS"
      PROVE  \E i \in V!Proxy : BoundTo(i, f.hardwareID, f.address)
  <2>1. f \in VP!Assignments
    BY <1>5 DEF VP!Assignments, Only
  <2> QED
    BY <1>3, <2>1
<1>6. ASSUME NEW i \in V!Proxy, ~connectedDevice[i].connected
      PROVE  /\ connectedDevice[i].address = Unassigned
             /\ \A d \in Device : connectedDevice[i].hardwareID # HardwareID[d]
  <2>1. connectedDevice[i] = VP!NoDevice
    BY <1>1, <1>6 DEF VP!IndInv, VP!BindingInv, VP!BoundProxies
  <2> QED
    BY <1>1, <2>1, SameAssumptions DEF VP!NoDevice
<1>7. ASSUME NEW i \in V!Proxy, NEW j \in V!Proxy,
             connectedDevice[i].connected, connectedDevice[j].connected,
             \/ connectedDevice[i].address = connectedDevice[j].address
             \/ connectedDevice[i].hardwareID = connectedDevice[j].hardwareID
      PROVE  i = j
  BY <1>1, <1>7 DEF VP!IndInv, VP!ProxiesDisjoint
<1> QED
  BY <1>4, <1>5, <1>6, <1>7 DEF Bindings

(* A binding lasts while the controller stays on.                          *)
LEMMA BindingsLast ==
  ASSUME MaxBoots = 1, VP!EnoughAddresses, V!TypeOK, Buffers, VP!IndInv, [Next]_vars
  PROVE  \A i \in V!Proxy : connectedDevice[i].connected => connectedDevice'[i] = connectedDevice[i]
<1>1. ASSUME Bind
      PROVE  \A i \in V!Proxy : connectedDevice[i].connected =>
                connectedDevice'[i] = connectedDevice[i]
  <2>1. V!Proxy = VP!Proxy
    BY DEF V!Proxy, VP!Proxy
  <2>2. V!Bind
    BY <1>1, BindSimulates
  <2>3. VP!Bind
    BY <2>2 DEF V!Bind, VP!Bind, V!First, VP!First, V!Candidates, VP!Candidates,
       V!CounterAfter, VP!CounterAfter, V!IsNew, VP!IsNew, V!AddressFor, VP!AddressFor,
       V!ADDR_UNASSIGNED, VP!ADDR_UNASSIGNED, V!Proxy, VP!Proxy
  <2>4. PICK i \in VP!Proxy, n \in VP!Assign :
          /\ connectedDevice' = [connectedDevice EXCEPT ![i] =
                [connected |-> TRUE, hardwareID |-> n.hardwareID, address |-> n.address]]
          /\ connectedDevice' = connectedDevice \/ i \notin VP!BoundProxies
    BY <2>3, VP!BindMeans, SameAssumptions, SameBounds
  <2>5. \A j \in VP!BoundProxies : connectedDevice'[j] = connectedDevice[j]
    BY <2>1, <2>4 DEF V!TypeOK, VP!BoundProxies
  <2> QED
    BY <2>1, <2>5 DEF VP!BoundProxies
<1>2. ~RestartController
  BY DEF RestartController, V!TypeOK
<1>3. CASE ~Bind
  BY <1>2, <1>3 DEF Next, LoopController, LoopDevice, vars, vending, SendReply, TakeValue,
     TakeAckOrPoll, ElapseProxy, SetProxy, SendDeviceReply, TakeControl, TakeDeviceValue,
     TakeDeviceAckOrPoll, RestartDevice, ElapseDevice, ElapsePolling, SetDevice
<1> QED
  BY <1>1, <1>3

(* What proxies and devices may hold only grows.                           *)
Growth == /\ \A i \in V!Proxy : connectedDevice[i].connected =>
                connectedDevice'[i] = connectedDevice[i]
          /\ \A i \in V!Proxy : proxyStored[i] \subseteq proxyStored'[i]
          /\ \A d \in Device : deviceStored[d] \subseteq deviceStored'[d]

LEMMA MayGrows ==
  ASSUME Bindings, Growth
  PROVE  /\ \A i \in V!Proxy : ProxyMay(i) \subseteq ProxyMay(i)'
         /\ \A d \in Device : DeviceMay(d) \subseteq DeviceMay(d)'
         /\ \A a, v : Vouched(a, v) => Vouched(a, v)'
<1>1. ASSUME NEW i \in V!Proxy, NEW d \in Device, connectedDevice[i].hardwareID = HardwareID[d]
      PROVE  connectedDevice'[i].hardwareID = HardwareID[d]
  BY <1>1 DEF Bindings, Growth
<1>2. ASSUME NEW i \in V!Proxy
      PROVE  ProxyMay(i) \subseteq ProxyMay(i)'
  BY <1>1 DEF ProxyMay, Growth
<1>3. ASSUME NEW d \in Device
      PROVE  DeviceMay(d) \subseteq DeviceMay(d)'
  BY <1>1 DEF DeviceMay, Growth
<1>4. ASSUME NEW a, NEW v, Vouched(a, v)
      PROVE  Vouched(a, v)'
  BY <1>2, <1>4 DEF Vouched, Growth
<1> QED
  BY <1>2, <1>3, <1>4

(* So a step keeps the invariant if what it moves was allowed before it,   *)
(* or is being stored by it.                                               *)
LEMMA MovesOnly ==
  ASSUME Bindings, Growth,
         \A i \in V!Proxy : proxyBox'[i].contents \in ProxyMay(i) \cup proxyStored'[i],
         \A d \in Device : deviceBox'[d].contents \in DeviceMay(d) \cup deviceStored'[d],
         \A f \in ToDevices' : Vouched(f.dest, f.value),
         \A f \in ToProxies' : f.src # Unassigned => Vouched(f.src, f.value)
  PROVE  ContentsInv' /\ MailInv'
<1>1. \A i \in V!Proxy : proxyBox'[i].contents \in ProxyMay(i)'
  BY MayGrows DEF ProxyMay
<1>2. \A d \in Device : deviceBox'[d].contents \in DeviceMay(d)'
  BY MayGrows DEF DeviceMay
<1>3. V!Proxy' = V!Proxy /\ Unassigned' = Unassigned
  BY DEF V!Proxy, Unassigned, V!ADDR_UNASSIGNED
<1>4. MailInv'
  BY <1>3, MayGrows DEF MailInv
<1> QED
  BY <1>1, <1>2, <1>3, <1>4 DEF ContentsInv

(* A device and the proxy bound to it may hold the same.                   *)
LEMMA MaySame ==
  ASSUME Bindings, VP!DistinctIDs, NEW STATE d, d \in Device, NEW STATE i, i \in V!Proxy,
         connectedDevice[i].connected, connectedDevice[i].hardwareID = HardwareID[d]
  PROVE  ProxyMay(i) = DeviceMay(d)
<1>1. \A e \in Device : HardwareID[e] = connectedDevice[i].hardwareID <=> e = d
  BY DEF VP!DistinctIDs
<1>2. \A j \in V!Proxy : connectedDevice[j].hardwareID = HardwareID[d] <=> j = i
  BY DEF Bindings
<1>3. UNION {deviceStored[e] : e \in {e \in Device : HardwareID[e] = connectedDevice[i].hardwareID}}
        = deviceStored[d]
  BY <1>1
<1>4. UNION {proxyStored[j] : j \in {j \in V!Proxy : connectedDevice[j].hardwareID = HardwareID[d]}}
        = proxyStored[i]
  BY <1>2
<1> QED
  BY <1>3, <1>4 DEF ProxyMay, DeviceMay

(* What a device has, or takes, as its address is that of its proxy.       *)
LEMMA OwnerVouches ==
  ASSUME Bindings, VP!DistinctIDs, NEW STATE d, d \in Device, NEW STATE a, a # Unassigned,
         \E i \in V!Proxy : BoundTo(i, HardwareID[d], a)
  PROVE  \A v : Vouched(a, v) <=> v \in DeviceMay(d)
<1>1. PICK i \in V!Proxy : BoundTo(i, HardwareID[d], a)
  OBVIOUS
<1>2. ProxyMay(i) = DeviceMay(d)
  BY <1>1, MaySame DEF BoundTo
<1>3. \A j \in V!Proxy : connectedDevice[j].connected /\ connectedDevice[j].address = a => j = i
  BY <1>1 DEF BoundTo, Bindings
<1> QED
  BY <1>1, <1>2, <1>3 DEF Vouched, BoundTo

(* What is routed to a proxy may be stored by it, and what it writes is    *)
(* vouched for.                                                            *)
LEMMA ProxyVouches ==
  ASSUME Bindings, NEW STATE i, i \in V!Proxy, ~Silent(i)
  PROVE  \A v : Vouched(connectedDevice[i].address, v) <=> v \in ProxyMay(i)
<1>1. connectedDevice[i].connected
  BY DEF Silent, Bindings
<1>2. \A j \in V!Proxy : /\ connectedDevice[j].connected
                         /\ connectedDevice[j].address = connectedDevice[i].address
                         => j = i
  BY <1>1 DEF Bindings
<1> QED
  BY <1>1, <1>2 DEF Vouched

LEMMA ControllerIsolated ==
  ASSUME V!TypeOK, Buffers, MailTypeOK, Bindings, Growth, ContentsInv, MailInv, LoopController
  PROVE  ContentsInv' /\ MailInv'
<1>1. UNCHANGED <<deviceReply, deviceBox, proxyStored, deviceStored>>
  BY DEF LoopController, SendReply, Bind, TakeValue, TakeAckOrPoll
<1>2. controllerRadio' \subseteq controllerRadio
  BY DEF LoopController, SendReply, Bind, TakeValue, TakeAckOrPoll
<1>3. \A f \in ToProxies' : f.src # Unassigned => Vouched(f.src, f.value)
  BY <1>1, <1>2 DEF ToProxies, MailInv
<1>4. \A d \in Device : deviceBox'[d].contents \in DeviceMay(d)
  BY <1>1 DEF ContentsInv
<1>5. SUFFICES /\ \A i \in V!Proxy : proxyBox'[i].contents \in ProxyMay(i)
               /\ \A f \in ToDevices' : Vouched(f.dest, f.value)
  BY <1>3, <1>4, MovesOnly
<1>6. CASE SendReply
  <2>1. PICK f \in controllerReply : Transmit(f)
    BY <1>6 DEF SendReply
  <2>2. \A d \in Device : \A g \in deviceRadio'[d] : g \in deviceRadio[d] \/ g = f
    BY <2>1, TransmitHears
  <2>3. ToDevices' \subseteq ToDevices
    BY <1>6, <2>1, <2>2 DEF SendReply, ToDevices
  <2> QED
    BY <1>6, <2>3 DEF SendReply, ContentsInv, MailInv
<1>7. CASE Bind
  <2>1. PICK i \in V!Proxy : proxyBox' = [proxyBox EXCEPT ![i] = ResetProxy(@)]
    BY <1>7 DEF Bind
  <2>2. \A j \in V!Proxy : proxyBox'[j].contents = proxyBox[j].contents
    BY <2>1, BoxOperators, ZeroAssumption DEF ResetProxy, MailTypeOK
  <2>3. deviceRadio' = deviceRadio /\ \A f \in controllerReply' : f.command \notin Command
    BY <1>7 DEF Bind, Command
  <2>4. ToDevices' \subseteq ToDevices
    BY <2>3 DEF ToDevices
  <2> QED
    BY <2>2, <2>4 DEF ContentsInv, MailInv
<1>8. CASE TakeValue
  <2>1. PICK f \in Only(controllerRadio, Command), i \in V!Proxy :
          /\ RoutedTo(f, i)
          /\ proxyBox' = [proxyBox EXCEPT ![i] = IF Contended("master", @) THEN AfterDisregard(@)
                                                 ELSE AfterAccept(@, f.value)]
          /\ controllerReply' = {FromProxy(i, "ACK_VALUE", f.value)}
    BY <1>8 DEF TakeValue
  <2>2. connectedDevice[i].address = f.src /\ f.src # Unassigned
    BY <2>1 DEF RoutedTo, V!FindByAddress, V!First
  <2>3. f \in ToProxies
    BY DEF Only, ToProxies
  <2>4. Vouched(f.src, f.value)
    BY <2>2, <2>3 DEF MailInv
  <2>5. f.value \in ProxyMay(i)
    BY <2>2, <2>4, ProxyVouches DEF Silent
  <2>6. f.value \in Value
    BY MailIsTyped DEF Mail
  <2>7. proxyBox'[i].contents \in {proxyBox[i].contents, f.value}
    <3>1. proxyBox[i] \in Mailbox
      BY DEF MailTypeOK
    <3> QED
      BY <2>1, <2>6, <3>1, BoxOperators DEF MailTypeOK
  <2>8. \A j \in V!Proxy : j # i => proxyBox'[j] = proxyBox[j]
    BY <2>1 DEF MailTypeOK
  <2>9. \A j \in V!Proxy : proxyBox'[j].contents \in ProxyMay(j)
    BY <2>5, <2>7, <2>8 DEF ContentsInv
  <2>10. deviceRadio' = deviceRadio
    BY <1>8 DEF TakeValue
  <2>11. \A g \in ToDevices' : \/ g \in ToDevices
                               \/ g.dest = f.src /\ g.value = f.value
    BY <2>1, <2>2, <2>10 DEF ToDevices, FromProxy
  <2> QED
    BY <2>4, <2>9, <2>11 DEF MailInv
<1>9. CASE TakeAckOrPoll
  <2>1. PICK pb \in [V!Proxy -> Mailbox] :
          /\ PollController(pb)
          /\ \A i \in V!Proxy : pb[i].contents = proxyBox[i].contents
    <3>1. CASE PollController(proxyBox)
      BY <3>1 DEF MailTypeOK
    <3>2. ASSUME NEW f \in Only(controllerRadio, {"ACK_VALUE"}), NEW i \in V!Proxy,
                 PollController([proxyBox EXCEPT ![i] = AfterAck(@, f.value)])
          PROVE  \E pb \in [V!Proxy -> Mailbox] :
                    /\ PollController(pb)
                    /\ \A j \in V!Proxy : pb[j].contents = proxyBox[j].contents
      <4>1. f \in Only(controllerRadio, Command)
        BY DEF Only, Command
      <4>2. f.value \in Value
        BY <4>1, MailIsTyped DEF Mail
      <4>3. /\ [proxyBox EXCEPT ![i] = AfterAck(@, f.value)] \in [V!Proxy -> Mailbox]
            /\ \A j \in V!Proxy : [proxyBox EXCEPT ![i] = AfterAck(@, f.value)][j].contents
                                     = proxyBox[j].contents
        <5>1. proxyBox \in [V!Proxy -> Mailbox]
          BY DEF MailTypeOK
        <5>2. /\ AfterAck(proxyBox[i], f.value) \in Mailbox
              /\ AfterAck(proxyBox[i], f.value).contents = proxyBox[i].contents
          BY <4>2, <5>1, BoxOperators
        <5> QED
          BY <5>1, <5>2
      <4> QED
        BY <3>2, <4>3
    <3> QED
      BY <1>9, <3>1, <3>2 DEF TakeAckOrPoll
  <2>2. /\ \A i \in V!Proxy : proxyBox'[i].contents = proxyBox[i].contents
        /\ \A d \in Device : \A f \in deviceRadio'[d] :
              \/ f \in deviceRadio[d]
              \/ f = [command |-> "BUS_RESET"]
              \/ \E i \in V!Proxy :
                    /\ f = FromProxy(i, GeneratedCommand(pb[i]), pb[i].contents)
                    /\ ~Silent(i)
    BY <2>1, ControllerPolls
  <2>3. ASSUME NEW f \in ToDevices'
        PROVE  \/ f \in ToDevices
               \/ \E i \in V!Proxy : /\ ~Silent(i) /\ f.dest = connectedDevice[i].address
                                     /\ f.value = proxyBox[i].contents
    <3>1. f \in controllerReply' \/ \E d \in Device : f \in deviceRadio'[d]
      BY DEF ToDevices
    <3>2. f.command \in Command
      BY DEF ToDevices
    <3>3. controllerReply' = controllerReply
      BY <1>9 DEF TakeAckOrPoll
    <3>4. f # [command |-> "BUS_RESET"]
      BY <3>2 DEF Command
    <3>5. \/ f \in ToDevices
          \/ \E i \in V!Proxy : /\ f = FromProxy(i, GeneratedCommand(pb[i]), pb[i].contents)
                                /\ ~Silent(i)
      BY <2>2, <3>1, <3>2, <3>3, <3>4 DEF ToDevices
    <3> QED
      BY <2>1, <3>5 DEF FromProxy
  <2>4. \A f \in ToDevices' : Vouched(f.dest, f.value)
    BY <2>3, ProxyVouches DEF MailInv, ContentsInv
  <2> QED
    BY <2>2, <2>4 DEF ContentsInv
<1> QED
  BY <1>6, <1>7, <1>8, <1>9 DEF LoopController

(* A turn of d's polling, with the contents of its mailbox as they were.   *)
LEMMA DevicePollIsolated ==
  ASSUME V!TypeOK, Buffers, MailTypeOK, Bindings, Growth, ContentsInv, MailInv,
         VP!DistinctIDs,
         NEW STATE d, d \in Device, NEW STATE a, a \in V!Address, NEW STATE m, m \in Mailbox,
         m.contents = deviceBox[d].contents, PollDevice(d, a, m),
         a # Unassigned => \E i \in V!Proxy : BoundTo(i, HardwareID[d], a),
         deviceRadio' = [deviceRadio EXCEPT ![d] = {}],
         UNCHANGED <<controllerReply, deviceReply, proxyBox>>
  PROVE  ContentsInv' /\ MailInv'
<1>1. /\ \A e \in Device : deviceBox'[e].contents = deviceBox[e].contents
      /\ \A f \in controllerRadio' :
            \/ f \in controllerRadio
            \/ f.command = "REQUEST_ADDRESS"
            \/ f = FromDevice(a, GeneratedCommand(m), m.contents)
  BY DeviceTurn DEF MailTypeOK
<1>2. \A e \in Device : deviceRadio'[e] \subseteq deviceRadio[e]
  BY DEF Buffers
<1>3. \A f \in ToDevices' : Vouched(f.dest, f.value)
  BY <1>2 DEF ToDevices, MailInv
<1>4. ASSUME NEW f \in ToProxies', f.src # Unassigned
      PROVE  Vouched(f.src, f.value)
  <2>1. f \in ToProxies \/ f = FromDevice(a, GeneratedCommand(m), m.contents)
    BY <1>1 DEF ToProxies, Command
  <2>2. CASE f = FromDevice(a, GeneratedCommand(m), m.contents)
    <3>1. f.src = a /\ f.value = deviceBox[d].contents
      BY <2>2 DEF FromDevice
    <3>2. deviceBox[d].contents \in DeviceMay(d)
      BY DEF ContentsInv
    <3> QED
      BY <1>4, <3>1, <3>2, OwnerVouches
  <2> QED
    BY <1>4, <2>1, <2>2 DEF MailInv
<1>5. /\ \A i \in V!Proxy : proxyBox'[i].contents \in ProxyMay(i)
      /\ \A e \in Device : deviceBox'[e].contents \in DeviceMay(e)
  BY <1>1 DEF ContentsInv
<1> QED
  BY <1>3, <1>4, <1>5, MovesOnly

LEMMA DeviceIsolated ==
  ASSUME V!TypeOK, Buffers, MailTypeOK, Bindings, Growth, ContentsInv, MailInv,
         VP!DistinctIDs, NEW d \in Device, LoopDevice(d)
  PROVE  ContentsInv' /\ MailInv'
<1>1. deviceBox[d] \in Mailbox
  BY DEF MailTypeOK
<1>2. CASE SendDeviceReply(d)
  <2>1. PICK f \in deviceReply[d] : ToController(f)
    BY <1>2 DEF SendDeviceReply
  <2>2. \A g \in controllerRadio' : g \in controllerRadio \/ g = f
    BY <2>1, ToControllerHears
  <2>3. \A e \in Device : deviceReply'[e] \subseteq deviceReply[e]
    BY <1>2 DEF SendDeviceReply, Buffers
  <2>4. ToProxies' \subseteq ToProxies
    BY <2>1, <2>2, <2>3 DEF ToProxies
  <2>5. UNCHANGED <<controllerReply, deviceRadio, proxyBox, deviceBox>>
    BY <1>2 DEF SendDeviceReply
  <2>6. ToDevices' = ToDevices
    BY <2>5 DEF ToDevices
  <2> QED
    BY <2>4, <2>5, <2>6, MovesOnly DEF ContentsInv, MailInv
<1>3. CASE TakeControl(d)
  <2>1. PICK f \in Only(deviceRadio[d], {"ASSIGN_ADDRESS", "BUS_RESET"}) :
          PollDevice(d, NewAddress(d, f),
                     IF ResetsDevice(d, f) THEN BusReset(deviceBox[d]) ELSE deviceBox[d])
    BY <1>3 DEF TakeControl
  <2>2. NewAddress(d, f) \in V!Address
    BY NewAddressType
  <2>3. PICK m \in Mailbox :
          /\ m = IF ResetsDevice(d, f) THEN BusReset(deviceBox[d]) ELSE deviceBox[d]
          /\ m.contents = deviceBox[d].contents
    BY <1>1, BoxOperators, ZeroAssumption
  <2>4. ASSUME NewAddress(d, f) # Unassigned
        PROVE  \E i \in V!Proxy : BoundTo(i, HardwareID[d], NewAddress(d, f))
    <3>1. f \in deviceRadio[d]
      BY DEF Only
    <3>2. CASE V!Accepts(d, f)
      <4>1. NewAddress(d, f) = f.address
        BY <3>2 DEF NewAddress, V!AddressAfter, V!Accepts
      <4> QED
        BY <3>1, <3>2, <4>1 DEF Bindings, V!Accepts
    <3>3. CASE ~V!Accepts(d, f)
      <4>1. NewAddress(d, f) = address[d]
        BY <2>4, <3>3 DEF NewAddress, V!AddressAfter, Unassigned
      <4> QED
        BY <2>4, <4>1 DEF Bindings
    <3> QED
      BY <3>2, <3>3
  <2>5. /\ deviceRadio' = [deviceRadio EXCEPT ![d] = {}]
        /\ UNCHANGED <<controllerReply, deviceReply, proxyBox>>
    BY <1>3 DEF TakeControl
  <2> QED
    BY <2>1, <2>2, <2>3, <2>4, <2>5, DevicePollIsolated
<1>4. CASE TakeDeviceValue(d)
  <2>1. PICK f \in Only(deviceRadio[d], Command) :
          /\ ForMe(d, f)
          /\ deviceBox' = [deviceBox EXCEPT ![d] = AfterAccept(@, f.value)]
          /\ deviceReply' = [deviceReply EXCEPT ![d] =
                {FromDevice(address[d], "ACK_VALUE", f.value)}]
    BY <1>4 DEF TakeDeviceValue
  <2>2. f \in ToDevices /\ f.value \in Value
    BY MailIsTyped DEF Only, ToDevices, Mail
  <2>3. Vouched(address[d], f.value)
    BY <2>1, <2>2 DEF MailInv, ForMe
  <2>4. f.value \in DeviceMay(d)
    BY <2>1, <2>3, OwnerVouches DEF ForMe, Bindings
  <2>5. deviceBox'[d].contents = f.value /\ \A e \in Device : e # d => deviceBox'[e] = deviceBox[e]
    BY <1>1, <2>1, <2>2, BoxOperators DEF MailTypeOK
  <2>6. \A e \in Device : deviceBox'[e].contents \in DeviceMay(e)
    BY <2>4, <2>5 DEF ContentsInv
  <2>7. \A e \in Device : \A g \in deviceReply'[e] :
           g \in deviceReply[e] \/ (g.src = address[d] /\ g.value = f.value)
    <3>1. ASSUME NEW e \in Device, NEW g \in deviceReply'[e]
          PROVE  g \in deviceReply[e] \/ g = FromDevice(address[d], "ACK_VALUE", f.value)
      BY <2>1 DEF Buffers
    <3> QED
      BY <3>1 DEF FromDevice
  <2>8. UNCHANGED <<controllerReply, controllerRadio, proxyBox>>
    BY <1>4 DEF TakeDeviceValue
  <2>9. \A g \in ToProxies' : g.src # Unassigned => Vouched(g.src, g.value)
    BY <2>3, <2>7, <2>8 DEF ToProxies, MailInv
  <2>10. \A e \in Device : deviceRadio'[e] \subseteq deviceRadio[e]
    BY <1>4 DEF TakeDeviceValue, Buffers
  <2>11. ToDevices' \subseteq ToDevices
    BY <2>8, <2>10 DEF ToDevices
  <2> QED
    BY <2>6, <2>8, <2>9, <2>11, MovesOnly DEF ContentsInv, MailInv
<1>5. CASE TakeDeviceAckOrPoll(d)
  <2>1. address[d] \in V!Address
    BY DEF V!TypeOK
  <2>2. PICK m \in Mailbox : PollDevice(d, address[d], m) /\ m.contents = deviceBox[d].contents
    <3>1. CASE PollDevice(d, address[d], deviceBox[d])
      BY <1>1, <3>1
    <3>2. ASSUME NEW f \in Only(deviceRadio[d], {"ACK_VALUE"}),
                 PollDevice(d, address[d], AfterAck(deviceBox[d], f.value))
          PROVE  \E m \in Mailbox : /\ PollDevice(d, address[d], m)
                                    /\ m.contents = deviceBox[d].contents
      <4>1. f \in Only(deviceRadio[d], Command)
        BY DEF Only, Command
      <4>2. f.value \in Value
        BY <4>1, MailIsTyped DEF Mail
      <4>3. /\ AfterAck(deviceBox[d], f.value) \in Mailbox
            /\ AfterAck(deviceBox[d], f.value).contents = deviceBox[d].contents
        BY <1>1, <4>2, BoxOperators
      <4> QED
        BY <3>2, <4>3
    <3> QED
      BY <1>5, <3>1, <3>2 DEF TakeDeviceAckOrPoll
  <2>3. /\ deviceRadio' = [deviceRadio EXCEPT ![d] = {}]
        /\ UNCHANGED <<controllerReply, deviceReply, proxyBox>>
    BY <1>5 DEF TakeDeviceAckOrPoll
  <2>4. address[d] # Unassigned => \E i \in V!Proxy : BoundTo(i, HardwareID[d], address[d])
    BY DEF Bindings
  <2> QED
    BY <2>1, <2>2, <2>3, <2>4, DevicePollIsolated
<1> QED
  BY <1>2, <1>3, <1>4, <1>5 DEF LoopDevice

LEMMA NextIsolated ==
  ASSUME MaxBoots = 1, VP!EnoughAddresses, VP!DistinctIDs,
         V!TypeOK, Buffers, MailTypeOK, VP!IndInv, ContentsInv, MailInv, [Next]_vars
  PROVE  ContentsInv' /\ MailInv'
<1>1. Bindings
  BY BindingsHold
<1>2. \A i \in V!Proxy : connectedDevice[i].connected => connectedDevice'[i] = connectedDevice[i]
  BY BindingsLast
<1>3. ASSUME NEW i \in V!Proxy, NEW v \in Value, SetProxy(i, v)
      PROVE  ContentsInv' /\ MailInv'
  <2>1. /\ proxyBox' = [proxyBox EXCEPT ![i] = SetLong(@, v)]
        /\ proxyStored' = [proxyStored EXCEPT ![i] = @ \cup {v}]
        /\ UNCHANGED <<controllerReply, controllerRadio, deviceReply, deviceRadio, deviceBox,
                       deviceStored>>
    BY <1>3 DEF SetProxy
  <2>2. proxyBox'[i].contents = v /\ \A j \in V!Proxy : j # i => proxyBox'[j] = proxyBox[j]
    <3>1. proxyBox[i] \in Mailbox
      BY DEF MailTypeOK
    <3> QED
      BY <2>1, <3>1, BoxOperators DEF MailTypeOK
  <2>3. v \in proxyStored'[i] /\ \A j \in V!Proxy : proxyStored[j] \subseteq proxyStored'[j]
    BY <2>1 DEF MailTypeOK
  <2>4. Growth
    BY <1>2, <2>1, <2>3 DEF Growth
  <2>5. \A j \in V!Proxy : proxyBox'[j].contents \in ProxyMay(j) \cup proxyStored'[j]
    BY <2>2, <2>3 DEF ContentsInv
  <2>6. ToDevices' = ToDevices /\ ToProxies' = ToProxies
    BY <2>1 DEF ToDevices, ToProxies
  <2> QED
    BY <1>1, <2>1, <2>4, <2>5, <2>6, MovesOnly DEF ContentsInv, MailInv
<1>4. ASSUME NEW d \in Device, NEW v \in Value, SetDevice(d, v)
      PROVE  ContentsInv' /\ MailInv'
  <2>1. /\ deviceBox' = [deviceBox EXCEPT ![d] = SetLong(@, v)]
        /\ deviceStored' = [deviceStored EXCEPT ![d] = @ \cup {v}]
        /\ UNCHANGED <<controllerReply, controllerRadio, deviceReply, deviceRadio, proxyBox,
                       proxyStored>>
    BY <1>4 DEF SetDevice
  <2>2. deviceBox'[d].contents = v /\ \A e \in Device : e # d => deviceBox'[e] = deviceBox[e]
    <3>1. deviceBox[d] \in Mailbox
      BY DEF MailTypeOK
    <3> QED
      BY <2>1, <3>1, BoxOperators DEF MailTypeOK
  <2>3. v \in deviceStored'[d] /\ \A e \in Device : deviceStored[e] \subseteq deviceStored'[e]
    BY <2>1 DEF MailTypeOK
  <2>4. Growth
    BY <1>2, <2>1, <2>3 DEF Growth
  <2>5. \A e \in Device : deviceBox'[e].contents \in DeviceMay(e) \cup deviceStored'[e]
    BY <2>2, <2>3 DEF ContentsInv
  <2>6. ToDevices' = ToDevices /\ ToProxies' = ToProxies
    BY <2>1 DEF ToDevices, ToProxies
  <2> QED
    BY <1>1, <2>1, <2>4, <2>5, <2>6, MovesOnly DEF ContentsInv, MailInv
<1>5. ASSUME UNCHANGED <<proxyStored, deviceStored>>
      PROVE  Growth
  BY <1>2, <1>5 DEF Growth
<1>6. CASE LoopController
  <2>1. Growth
    BY <1>5, <1>6 DEF LoopController, SendReply, Bind, TakeValue, TakeAckOrPoll
  <2> QED
    BY <1>1, <1>6, <2>1, ControllerIsolated
<1>7. ASSUME NEW d \in Device, LoopDevice(d)
      PROVE  ContentsInv' /\ MailInv'
  <2>1. Growth
    BY <1>5, <1>7 DEF LoopDevice, SendDeviceReply, TakeControl, TakeDeviceValue,
       TakeDeviceAckOrPoll
  <2> QED
    BY <1>1, <1>7, <2>1, DeviceIsolated
<1>8. ASSUME NEW d \in Device, RestartDevice(d)
      PROVE  ContentsInv' /\ MailInv'
  <2>1. /\ deviceBox' = [deviceBox EXCEPT ![d] = NewMailbox]
        /\ UNCHANGED <<controllerReply, controllerRadio, proxyBox, proxyStored, deviceStored>>
    BY <1>8 DEF RestartDevice
  <2>2. \A e \in Device : deviceBox'[e].contents \in DeviceMay(e)
    BY <2>1, NewMailboxType DEF ContentsInv, DeviceMay, MailTypeOK
  <2>3. \A e \in Device : /\ deviceReply'[e] \subseteq deviceReply[e]
                          /\ deviceRadio'[e] \subseteq deviceRadio[e]
    BY <1>8 DEF RestartDevice, Buffers
  <2>4. ToDevices' \subseteq ToDevices /\ ToProxies' \subseteq ToProxies
    BY <2>1, <2>3 DEF ToDevices, ToProxies
  <2> QED
    BY <1>1, <1>5, <2>1, <2>2, <2>4, MovesOnly DEF ContentsInv, MailInv
<1>9. CASE \/ \E i \in V!Proxy : ElapseProxy(i)
           \/ \E d \in Device : ElapseDevice(d) \/ ElapsePolling(d)
           \/ UNCHANGED vars
  <2>1. UNCHANGED <<controllerReply, controllerRadio, deviceReply, deviceRadio,
                    proxyStored, deviceStored>>
    BY <1>9 DEF ElapseProxy, ElapseDevice, ElapsePolling, vars
  <2>2. /\ \A i \in V!Proxy : proxyBox'[i].contents = proxyBox[i].contents
        /\ \A d \in Device : deviceBox'[d].contents = deviceBox[d].contents
    <3>1. /\ \A i \in V!Proxy : proxyBox[i] \in Mailbox
          /\ \A d \in Device : deviceBox[d] \in Mailbox
      BY DEF MailTypeOK
    <3>2. CASE \E i \in V!Proxy : ElapseProxy(i)
      BY <3>1, <3>2, BoxOperators, ZeroAssumption DEF ElapseProxy, MailTypeOK
    <3>3. CASE \E d \in Device : ElapseDevice(d)
      BY <3>1, <3>3, BoxOperators, ZeroAssumption DEF ElapseDevice, MailTypeOK
    <3>4. CASE (\E d \in Device : ElapsePolling(d)) \/ UNCHANGED vars
      BY <3>4 DEF ElapsePolling, vars
    <3> QED
      BY <1>9, <3>2, <3>3, <3>4
  <2>3. ToDevices' = ToDevices /\ ToProxies' = ToProxies
    BY <2>1 DEF ToDevices, ToProxies
  <2> QED
    BY <1>1, <1>5, <2>1, <2>2, <2>3, MovesOnly DEF ContentsInv, MailInv
<1>10. ~RestartController
  BY DEF RestartController, V!TypeOK
<1> QED
  BY <1>3, <1>4, <1>6, <1>7, <1>8, <1>9, <1>10 DEF Next

LEMMA InitIsolated == Init => ContentsInv /\ MailInv
BY NewMailboxType DEF Init, ContentsInv, MailInv, ProxyMay, DeviceMay, ToDevices, ToProxies

(* As long as the controller stays on, nothing that was stored on one pair *)
(* of nodes ever shows up on another: whatever is lost, retried or         *)
(* power-cycled on the devices' side, a frame leads to the mailbox of the  *)
(* node that it was written for (Network.cpp 222-230, 309-313).            *)
THEOREM MailboxesAreIsolated ==
  ASSUME MaxBoots = 1, VP!EnoughAddresses, VP!DistinctIDs
  PROVE  Spec => []Isolated
<1>1. Spec => [](ContentsInv /\ MailInv)
  BY InitIsolated, NextIsolated, VendingIsTyped, VendingInvariantHolds, BuffersHold,
     MailIsTypedAlways, PTL DEF Spec
<1>2. ContentsInv => Isolated
  BY DEF ContentsInv, Isolated, ProxyMay, DeviceMay
<1> QED
  BY <1>1, <1>2, PTL

===============================================================================
