-------------------------- MODULE ConfigurationProofs --------------------------
(***************************************************************************)
(* Proof that a device which is power-cycled recovers its configuration    *)
(* (ConfigurationIsHeld of Connection), for any proxies, values and power  *)
(* cycles.                                                                 *)
(***************************************************************************)
EXTENDS ConnectionProofs

-------------------------------------------------------------------------------
(* The invariant.                                                          *)

(* Proxy i is bound to device d; and d has the address of i.               *)
Serves(i, d) == connectedDevice[i].connected /\ connectedDevice[i].hardwareID = HardwareID[d]
Member(d, i) == Serves(i, d) /\ address[d] = connectedDevice[i].address

(* No device has, of an earlier power-on of the controller, an address     *)
(* that a proxy is bound to now.                                           *)
NoOldAddress ==
  \A d \in Device, i \in V!Proxy :
     connectedDevice[i].connected /\ address[d] = connectedDevice[i].address => joined[d] = boots

(* What follows for the bindings.                                          *)
Wired ==
  /\ \A i \in V!Proxy :
        IF connectedDevice[i].connected
        THEN /\ connectedDevice[i].address # Unassigned
             /\ \A j \in V!Proxy : /\ connectedDevice[j].connected
                                   /\ \/ connectedDevice[i].address = connectedDevice[j].address
                                      \/ connectedDevice[i].hardwareID = connectedDevice[j].hardwareID
                                   => i = j
        ELSE connectedDevice[i].address = Unassigned
  /\ \A d \in Device, i \in V!Proxy :
        connectedDevice[i].connected /\ address[d] = connectedDevice[i].address
          => Member(d, i) /\ joined[d] = boots
  /\ \A d \in Device : address[d] # Unassigned /\ joined[d] = boots
                          => \E i \in V!Proxy : Member(d, i)

(* Values come from applications, or are zero.                             *)
Stored == {Zero} \cup (UNION {proxyStored[i] : i \in V!Proxy})
                 \cup (UNION {deviceStored[d] : d \in Device})

KnownInv == /\ \A f \in ToDevices \cup ToProxies : f.value \in Stored
            /\ \A i \in V!Proxy : proxyBox[i].contents \in Stored
            /\ \A d \in Device : deviceBox[d].contents \in Stored

(* Only a device with an address replies, from that address.               *)
ReplyInv == \A d \in Device : \A f \in deviceReply[d] :
               f.command = "ACK_VALUE" /\ f.src = address[d] /\ address[d] # Unassigned

(* While a device's request or an assignment for it is on its way, it is   *)
(* not dealing with a value.                                               *)
AssignFor(d, f) == f.command = "ASSIGN_ADDRESS" /\ f.hardwareID = HardwareID[d]
Assigning(d) == \E f \in controllerReply \cup deviceRadio[d] : AssignFor(d, f)
Asking(d) == \E f \in controllerRadio : f.command = "REQUEST_ADDRESS" /\ f.device = d

Calm == \A d \in Device : Asking(d) \/ Assigning(d) =>
           deviceReply[d] = {} /\ \A f \in deviceRadio[d] : ~IsValue(f)

(* What proxy i holds has been acknowledged, or will be.                   *)
Acked(i) == \/ proxyBox[i].synchronized
            \/ \E f \in controllerRadio \cup UNION {deviceReply[d] : d \in Device} :
                  /\ f.command = "ACK_VALUE"
                  /\ f.src = connectedDevice[i].address
                  /\ f.value = proxyBox[i].contents

(* A proxy pushes its value, of which no acknowledgement is on its way,    *)
(* while an assignment is on its way to its device.                        *)
Pushed == \A d \in Device, i \in V!Proxy :
             Assigning(d) /\ Serves(i, d) /\ proxyBox[i].callerChanged => ~Acked(i)

(* Device d has nothing to push, or will not when it has taken what is on  *)
(* its way.                                                                *)
Settled(d) == \/ deviceBox[d].synchronized
              \/ \E f \in controllerReply \cup deviceRadio[d] :
                    /\ f.command = "ACK_VALUE"
                    /\ f.dest = address[d]
                    /\ f.value = deviceBox[d].contents

(* A value set while a reply is deferred is not sent before it.            *)
Unsent == \A d \in Device :
   deviceReply[d] # {} /\ deviceBox[d].callerChanged /\ (\E i \in V!Proxy : Member(d, i)) =>
     /\ ~Settled(d)
     /\ \A f \in controllerRadio :
           ~(IsValue(f) /\ f.src = address[d] /\ f.value = deviceBox[d].contents)

(* A device whose proxy has the acknowledgement, or will have it, holds    *)
(* the value, or pushes its own; and no other value is on its way to it.   *)
HeldInv == \A d \in Device, i \in V!Proxy :
   Member(d, i) /\ proxyBox[i].callerChanged /\ Acked(i) =>
     /\ \/ deviceBox[d].contents = proxyBox[i].contents
        \/ deviceBox[d].callerChanged /\ ~Settled(d)
     /\ \A f \in deviceRadio[d] :
           IsValue(f) /\ f.dest = address[d] => f.value = proxyBox[i].contents

AckInv == Pushed /\ Unsent /\ HeldInv

-------------------------------------------------------------------------------
(* Bindings, and mailboxes.                                                *)

LEMMA WiredHolds ==
  ASSUME VP!DistinctIDs, V!TypeOK, VP!IndInv, NoOldAddress
  PROVE  Wired
<1>1. V!Proxy = VP!Proxy /\ Unassigned = VP!ADDR_UNASSIGNED
  BY DEF V!Proxy, VP!Proxy, Unassigned, V!ADDR_UNASSIGNED, VP!ADDR_UNASSIGNED
<1>2. ASSUME NEW d \in Device, address[d] # Unassigned, joined[d] = boots
      PROVE  \E i \in V!Proxy : Member(d, i)
  <2>1. VP!Holding(d) \in VP!Assignments
    BY <1>1, <1>2 DEF VP!Assignments, VP!Assigned
  <2>2. PICK i \in VP!BoundProxies : /\ connectedDevice[i].hardwareID = VP!Holding(d).hardwareID
                                     /\ connectedDevice[i].address = VP!Holding(d).address
    BY <1>2, <2>1 DEF VP!IndInv, VP!AssignmentInv, VP!Holding
  <2> QED
    BY <1>1, <2>2 DEF VP!Holding, VP!BoundProxies, Member, Serves
<1>3. ASSUME NEW i \in V!Proxy, ~connectedDevice[i].connected
      PROVE  connectedDevice[i].address = Unassigned
  BY <1>1, <1>3 DEF VP!IndInv, VP!BindingInv, VP!BoundProxies, VP!NoDevice
<1>4. ASSUME NEW i \in V!Proxy, connectedDevice[i].connected
      PROVE  connectedDevice[i].address # Unassigned
  BY <1>1, <1>4 DEF VP!IndInv, VP!ProxiesDisjoint, VP!FirstAddress, VP!ADDR_UNASSIGNED
<1>5. ASSUME NEW i \in V!Proxy, NEW j \in V!Proxy,
             connectedDevice[i].connected, connectedDevice[j].connected,
             \/ connectedDevice[i].address = connectedDevice[j].address
             \/ connectedDevice[i].hardwareID = connectedDevice[j].hardwareID
      PROVE  i = j
  BY <1>1, <1>5 DEF VP!IndInv, VP!ProxiesDisjoint
<1>6. ASSUME NEW d \in Device, NEW i \in V!Proxy, connectedDevice[i].connected,
             address[d] = connectedDevice[i].address
      PROVE  Member(d, i) /\ joined[d] = boots
  <2>1. joined[d] = boots
    BY <1>6 DEF NoOldAddress
  <2>2. PICK j \in V!Proxy : Member(d, j)
    BY <1>2, <1>4, <1>6, <2>1
  <2>3. j = i
    BY <1>5, <1>6, <2>2 DEF Member, Serves
  <2> QED
    BY <2>1, <2>2, <2>3
<1> QED
  BY <1>2, <1>3, <1>4, <1>5, <1>6 DEF Wired

(* One device, one proxy.                                                  *)
LEMMA OneToOne ==
  ASSUME VP!DistinctIDs, Wired, NEW STATE d, d \in Device, NEW STATE e, e \in Device,
         NEW STATE i, i \in V!Proxy, NEW STATE j, j \in V!Proxy
  PROVE  /\ Serves(i, d) /\ Serves(i, e) => d = e
         /\ Serves(i, d) /\ Serves(j, d) => i = j
         /\ Member(d, i) /\ address[e] = address[d] => d = e
         /\ Member(d, i) => address[d] # Unassigned
BY DEF VP!DistinctIDs, Wired, Serves, Member

(* What the methods do to the fields that matter here.                     *)
LEMMA BoxFields ==
  ASSUME NEW m \in Mailbox, NEW v \in Value
  PROVE  /\ SetLong(m, v).contents = v
         /\ SetLong(m, v).synchronized = FALSE /\ SetLong(m, v).callerChanged = TRUE
         /\ BusReset(m).contents = m.contents /\ BusReset(m).callerChanged = m.callerChanged
         /\ AfterGenerate(m).contents = m.contents
         /\ AfterGenerate(m).callerChanged = m.callerChanged
         /\ AfterGenerate(m).synchronized = m.synchronized
         /\ AfterDisregard(m).contents = m.contents
         /\ AfterDisregard(m).callerChanged = m.callerChanged
         /\ AfterDisregard(m).synchronized = FALSE
         /\ AfterAccept(m, v).contents = v /\ AfterAccept(m, v).callerChanged = FALSE
         /\ [m EXCEPT !.waiting = FALSE].contents = m.contents
         /\ [m EXCEPT !.waiting = FALSE].callerChanged = m.callerChanged
         /\ [m EXCEPT !.waiting = FALSE].synchronized = m.synchronized
         /\ m.synchronized \in BOOLEAN /\ m.callerChanged \in BOOLEAN
BY DEF Mailbox, SetLong, BusReset, AfterGenerate, AfterDisregard, AfterAccept, AfterAck

LEMMA ResetFields ==
  ASSUME NEW m \in Mailbox
  PROVE  BusReset(m).callerChanged => ~BusReset(m).synchronized
BY DEF Mailbox, BusReset

LEMMA AckFields ==
  ASSUME NEW m \in Mailbox, NEW v \in Value
  PROVE  /\ AfterAck(m, v).contents = m.contents
         /\ AfterAck(m, v).callerChanged = m.callerChanged
         /\ AfterAck(m, v).synchronized => m.synchronized \/ v = m.contents
BY DEF Mailbox, AfterAck

LEMMA GeneratedIsValue == \A m : GeneratedCommand(m) \in {"SEND_VALUE", "SEND_VALUE_CHANGE"}
BY DEF GeneratedCommand

-------------------------------------------------------------------------------
(* Steps that take nothing back.                                           *)

(* Nobody stores or accepts a value and no proxy is bound; frames move,    *)
(* are lost, or carry what the proxies hold; devices may lose or get their *)
(* address, if they are not dealing with a value.                          *)
Quieter ==
  /\ UNCHANGED connectedDevice
  /\ \A i \in V!Proxy : /\ proxyBox'[i].contents = proxyBox[i].contents
                        /\ proxyBox'[i].callerChanged = proxyBox[i].callerChanged
                        /\ Acked(i)' => Acked(i)
  /\ \A d \in Device :
        /\ \A f \in controllerReply' \cup deviceRadio'[d] :
              f.command \in {"ASSIGN_ADDRESS", "ACK_VALUE"} => f \in controllerReply \cup deviceRadio[d]
        /\ \A f \in deviceRadio'[d] : IsValue(f) =>
              \/ f \in deviceRadio[d]
              \/ \E i \in V!Proxy : /\ connectedDevice[i].connected
                                    /\ f.dest = connectedDevice[i].address
                                    /\ f.value = proxyBox[i].contents
        /\ \/ /\ address'[d] = address[d]
              /\ deviceReply'[d] # {} => deviceReply[d] # {}
              /\ deviceBox'[d].contents = deviceBox[d].contents
              /\ deviceBox'[d].callerChanged = deviceBox[d].callerChanged
              /\ Settled(d)' => Settled(d)
           \/ /\ deviceReply'[d] = {}
              /\ \A i \in V!Proxy : Member(d, i)' /\ proxyBox[i].callerChanged => ~Acked(i)
  /\ \A f \in controllerRadio' : IsValue(f) =>
        f \in controllerRadio \/ \E d \in Device : f.src = address'[d] /\ deviceReply'[d] = {}

LEMMA QuieterKeeps ==
  ASSUME VP!DistinctIDs, Wired, Wired', AckInv, Quieter
  PROVE  AckInv'
<1>0. \A i \in V!Proxy, d \in Device : Serves(i, d)' <=> Serves(i, d)
  BY DEF Quieter, Serves
<1>1. Pushed'
  <2> SUFFICES ASSUME NEW d \in Device, NEW i \in V!Proxy,
                      Assigning(d)', Serves(i, d)', proxyBox'[i].callerChanged
               PROVE  ~Acked(i)'
    BY DEF Pushed, V!Proxy
  <2>1. Assigning(d)
    BY DEF Quieter, Assigning, AssignFor
  <2>2. Serves(i, d) /\ proxyBox[i].callerChanged
    BY <1>0 DEF Quieter
  <2>3. ~Acked(i)
    BY <2>1, <2>2 DEF AckInv, Pushed
  <2> QED
    BY <2>3 DEF Quieter
<1>2. Unsent'
  <2> SUFFICES ASSUME NEW d \in Device, NEW i \in V!Proxy, Member(d, i)',
                      deviceReply'[d] # {}, deviceBox'[d].callerChanged
               PROVE  /\ ~Settled(d)'
                      /\ \A f \in controllerRadio' :
                            ~(IsValue(f) /\ f.src = address'[d] /\ f.value = deviceBox'[d].contents)
    BY DEF Unsent, V!Proxy
  <2>1. /\ address'[d] = address[d] /\ deviceReply[d] # {}
        /\ deviceBox'[d].contents = deviceBox[d].contents
        /\ deviceBox[d].callerChanged
        /\ Settled(d)' => Settled(d)
    BY DEF Quieter
  <2>2. Member(d, i)
    BY <1>0, <2>1 DEF Member, Quieter
  <2>3. /\ ~Settled(d)
        /\ \A f \in controllerRadio :
              ~(IsValue(f) /\ f.src = address[d] /\ f.value = deviceBox[d].contents)
    BY <2>1, <2>2 DEF AckInv, Unsent
  <2>4. \A e \in Device : address'[e] = address'[d] => e = d
    <3> SUFFICES ASSUME NEW e \in Device, address'[e] = address'[d] PROVE e = d
      OBVIOUS
    <3>1. connectedDevice'[i].connected /\ address'[e] = connectedDevice'[i].address
      BY DEF Member, Serves
    <3>2. Member(e, i)'
      BY <3>1 DEF Wired, V!Proxy
    <3> QED
      BY <3>2 DEF Member, Serves, VP!DistinctIDs
  <2>5. ASSUME NEW f \in controllerRadio', IsValue(f), f.src = address'[d],
               f.value = deviceBox'[d].contents
        PROVE  FALSE
    <3>1. f \notin controllerRadio
      BY <2>1, <2>3, <2>5
    <3>2. PICK e \in Device : f.src = address'[e] /\ deviceReply'[e] = {}
      BY <2>5, <3>1 DEF Quieter
    <3> QED
      BY <2>4, <2>5, <3>2
  <2> QED
    BY <2>1, <2>3, <2>5
<1>3. HeldInv'
  <2> SUFFICES ASSUME NEW d \in Device, NEW i \in V!Proxy, Member(d, i)',
                      proxyBox'[i].callerChanged, Acked(i)'
               PROVE  /\ \/ deviceBox'[d].contents = proxyBox'[i].contents
                         \/ deviceBox'[d].callerChanged /\ ~Settled(d)'
                      /\ \A f \in deviceRadio'[d] :
                            IsValue(f) /\ f.dest = address'[d] => f.value = proxyBox'[i].contents
    BY DEF HeldInv, V!Proxy
  <2>1. Acked(i) /\ proxyBox[i].callerChanged /\ proxyBox'[i].contents = proxyBox[i].contents
    BY DEF Quieter
  <2>2. /\ address'[d] = address[d]
        /\ deviceBox'[d].contents = deviceBox[d].contents
        /\ deviceBox'[d].callerChanged = deviceBox[d].callerChanged
        /\ Settled(d)' => Settled(d)
    BY <2>1 DEF Quieter
  <2>3. Member(d, i)
    BY <1>0, <2>2 DEF Member, Quieter
  <2>4. /\ \/ deviceBox[d].contents = proxyBox[i].contents
           \/ deviceBox[d].callerChanged /\ ~Settled(d)
        /\ \A f \in deviceRadio[d] :
              IsValue(f) /\ f.dest = address[d] => f.value = proxyBox[i].contents
    BY <2>1, <2>3 DEF AckInv, HeldInv
  <2>5. ASSUME NEW f \in deviceRadio'[d], IsValue(f), f.dest = address'[d]
        PROVE  f.value = proxyBox[i].contents
    <3>1. CASE f \in deviceRadio[d]
      BY <2>2, <2>4, <2>5, <3>1
    <3>2. ASSUME NEW j \in V!Proxy, connectedDevice[j].connected,
                 f.dest = connectedDevice[j].address, f.value = proxyBox[j].contents
          PROVE  f.value = proxyBox[i].contents
      <4>1. j = i
        BY <2>2, <2>3, <2>5, <3>2 DEF Member, Serves, Wired
      <4> QED
        BY <3>2, <4>1
    <3> QED
      BY <2>5, <3>1, <3>2 DEF Quieter
  <2> QED
    BY <2>1, <2>2, <2>4, <2>5
<1> QED
  BY <1>1, <1>2, <1>3 DEF AckInv

-------------------------------------------------------------------------------
(* Turns.                                                                  *)

(* A turn of the controller in which it takes nothing, or an               *)
(* acknowledgement, and polls.                                             *)
LEMMA ControllerTurn ==
  ASSUME V!TypeOK, Buffers, MailTypeOK, TakeAckOrPoll
  PROVE  /\ \A i \in V!Proxy :
               /\ proxyBox'[i].contents = proxyBox[i].contents
               /\ proxyBox'[i].callerChanged = proxyBox[i].callerChanged
               /\ proxyBox'[i].synchronized => Acked(i)
         /\ \A d \in Device : \A f \in deviceRadio'[d] :
               \/ f \in deviceRadio[d]
               \/ f = [command |-> "BUS_RESET"]
               \/ \E i \in V!Proxy : /\ ~Silent(i) /\ IsValue(f)
                                     /\ f.dest = connectedDevice[i].address
                                     /\ f.value = proxyBox[i].contents
<1>1. PICK pb \in [V!Proxy -> Mailbox] :
        /\ PollController(pb)
        /\ \A i \in V!Proxy : /\ pb[i].contents = proxyBox[i].contents
                              /\ pb[i].callerChanged = proxyBox[i].callerChanged
                              /\ pb[i].synchronized => Acked(i)
  <2>1. CASE PollController(proxyBox)
    BY <2>1 DEF MailTypeOK, Acked
  <2>2. ASSUME NEW f \in Only(controllerRadio, {"ACK_VALUE"}), NEW i \in V!Proxy, RoutedTo(f, i),
               PollController([proxyBox EXCEPT ![i] = AfterAck(@, f.value)])
        PROVE  \E pb \in [V!Proxy -> Mailbox] :
                 /\ PollController(pb)
                 /\ \A j \in V!Proxy : /\ pb[j].contents = proxyBox[j].contents
                                       /\ pb[j].callerChanged = proxyBox[j].callerChanged
                                       /\ pb[j].synchronized => Acked(j)
    <3>1. f \in controllerRadio /\ f.command = "ACK_VALUE" /\ f \in Only(controllerRadio, Command)
      BY DEF Only, Command
    <3>2. f.value \in Value
      BY <3>1, MailIsTyped DEF Mail
    <3>3. f.src = connectedDevice[i].address
      BY <2>2 DEF RoutedTo, V!FindByAddress, V!First
    <3>4. proxyBox \in [V!Proxy -> Mailbox]
      BY DEF MailTypeOK
    <3>5. /\ AfterAck(proxyBox[i], f.value) \in Mailbox
          /\ AfterAck(proxyBox[i], f.value).contents = proxyBox[i].contents
          /\ AfterAck(proxyBox[i], f.value).callerChanged = proxyBox[i].callerChanged
          /\ AfterAck(proxyBox[i], f.value).synchronized
                => proxyBox[i].synchronized \/ f.value = proxyBox[i].contents
      <4>1. proxyBox[i] \in Mailbox
        BY <3>4
      <4>2. AfterAck(proxyBox[i], f.value) \in Mailbox
        BY <3>2, <4>1, BoxOperators
      <4> QED
        BY <3>2, <4>1, <4>2, AckFields
    <3>6. AfterAck(proxyBox[i], f.value).synchronized => Acked(i)
      <4>1. f.value = proxyBox[i].contents => Acked(i)
        BY <3>1, <3>3 DEF Acked
      <4>2. proxyBox[i].synchronized => Acked(i)
        BY DEF Acked
      <4> QED
        BY <3>5, <4>1, <4>2
    <3>7. \A j \in V!Proxy : proxyBox[j].synchronized => Acked(j)
      BY DEF Acked
    <3> DEFINE pb == [proxyBox EXCEPT ![i] = AfterAck(@, f.value)]
    <3>8. pb \in [V!Proxy -> Mailbox] /\ pb[i] = AfterAck(proxyBox[i], f.value)
          /\ \A j \in V!Proxy : j # i => pb[j] = proxyBox[j]
      BY <3>4, <3>5
    <3>9. PollController(pb)
      BY <2>2
    <3> HIDE DEF pb
    <3>10. \A j \in V!Proxy : /\ pb[j].contents = proxyBox[j].contents
                              /\ pb[j].callerChanged = proxyBox[j].callerChanged
                              /\ pb[j].synchronized => Acked(j)
      BY <3>5, <3>6, <3>7, <3>8
    <3> QED
      BY <3>8, <3>9, <3>10
  <2> QED
    BY <2>1, <2>2 DEF TakeAckOrPoll
<1>2. \A i \in V!Proxy : /\ proxyBox'[i].contents = pb[i].contents
                         /\ proxyBox'[i].callerChanged = pb[i].callerChanged
                         /\ proxyBox'[i].synchronized = pb[i].synchronized
  <2>1. ASSUME NEW i \in V!Proxy
        PROVE  /\ AfterGenerate(pb[i]).contents = pb[i].contents
               /\ AfterGenerate(pb[i]).callerChanged = pb[i].callerChanged
               /\ AfterGenerate(pb[i]).synchronized = pb[i].synchronized
    BY <1>1, BoxFields, ZeroAssumption
  <2>2. proxyBox' = pb \/ \E j \in V!Proxy : proxyBox' = [pb EXCEPT ![j] = AfterGenerate(@)]
    BY <1>1 DEF PollController, DueProxies
  <2> QED
    BY <1>1, <2>1, <2>2
<1>3. \A d \in Device : \A f \in deviceRadio'[d] :
         \/ f \in deviceRadio[d]
         \/ f = [command |-> "BUS_RESET"]
         \/ \E i \in V!Proxy : /\ f = FromProxy(i, GeneratedCommand(pb[i]), pb[i].contents)
                               /\ ~Silent(i)
  BY <1>1, ControllerPolls
<1>4. \A i \in V!Proxy : \A f :
         f = FromProxy(i, GeneratedCommand(pb[i]), pb[i].contents)
           => IsValue(f) /\ f.dest = connectedDevice[i].address /\ f.value = proxyBox[i].contents
  BY <1>1, GeneratedIsValue DEF FromProxy, IsValue
<1> QED
  BY <1>1, <1>2, <1>3, <1>4

(* A turn of device d with address a and mailbox m, in which it polls.     *)
LEMMA PollTurn ==
  ASSUME NEW STATE d, d \in Device, NEW STATE a, NEW STATE m, m \in Mailbox,
         deviceBox \in [Device -> Mailbox], PollDevice(d, a, m)
  PROVE  /\ \A e \in Device : e # d => deviceBox'[e] = deviceBox[e]
         /\ deviceBox'[d].contents = m.contents
         /\ deviceBox'[d].callerChanged = m.callerChanged
         /\ deviceBox'[d].synchronized = m.synchronized
         /\ \A f \in controllerRadio' :
               \/ f \in controllerRadio
               \/ a = Unassigned /\ f = [command |-> "REQUEST_ADDRESS", device |-> d]
               \/ IsValue(f) /\ f.src = a /\ f.value = m.contents
<1>1. /\ AfterGenerate(m).contents = m.contents
      /\ AfterGenerate(m).callerChanged = m.callerChanged
      /\ AfterGenerate(m).synchronized = m.synchronized
  BY BoxFields, ZeroAssumption
<1>2. deviceBox' \in {[deviceBox EXCEPT ![d] = m], [deviceBox EXCEPT ![d] = AfterGenerate(m)]}
  BY DEF PollDevice
<1>3. /\ \A e \in Device : e # d => deviceBox'[e] = deviceBox[e]
      /\ deviceBox'[d].contents = m.contents
      /\ deviceBox'[d].callerChanged = m.callerChanged
      /\ deviceBox'[d].synchronized = m.synchronized
  BY <1>1, <1>2
<1>4. CASE a = Unassigned /\ ToController([command |-> "REQUEST_ADDRESS", device |-> d])
  BY <1>3, <1>4, ToControllerHears
<1>5. CASE ToController(FromDevice(a, GeneratedCommand(m), m.contents))
  <2>1. \A f : f = FromDevice(a, GeneratedCommand(m), m.contents)
                 => IsValue(f) /\ f.src = a /\ f.value = m.contents
    BY GeneratedIsValue DEF FromDevice, IsValue
  <2> QED
    BY <1>3, <1>5, <2>1, ToControllerHears
<1>6. CASE UNCHANGED controllerRadio
  BY <1>3, <1>6
<1> QED
  BY <1>4, <1>5, <1>6 DEF PollDevice

(* The mailbox that device d polls with when it has taken an               *)
(* acknowledgement or nothing: only an acknowledgement of its contents     *)
(* makes a difference.                                                     *)
LEMMA AckOrNothing ==
  ASSUME MailTypeOK, NEW STATE d, d \in Device, TakeDeviceAckOrPoll(d)
  PROVE  \E m \in Mailbox : /\ PollDevice(d, address[d], m)
                            /\ m.contents = deviceBox[d].contents
                            /\ m.callerChanged = deviceBox[d].callerChanged
                            /\ m.synchronized => Settled(d)
<1>1. deviceBox[d] \in Mailbox
  BY DEF MailTypeOK
<1>2. CASE PollDevice(d, address[d], deviceBox[d])
  BY <1>1, <1>2 DEF Settled
<1>3. ASSUME NEW f \in Only(deviceRadio[d], {"ACK_VALUE"}), ForMe(d, f),
             PollDevice(d, address[d], AfterAck(deviceBox[d], f.value))
      PROVE  \E m \in Mailbox : /\ PollDevice(d, address[d], m)
                                /\ m.contents = deviceBox[d].contents
                                /\ m.callerChanged = deviceBox[d].callerChanged
                                /\ m.synchronized => Settled(d)
  <2>1. f \in deviceRadio[d] /\ f.command = "ACK_VALUE" /\ f \in Only(deviceRadio[d], Command)
    BY DEF Only, Command
  <2>2. f.value \in Value
    BY <2>1, MailIsTyped DEF Mail
  <2>3. /\ AfterAck(deviceBox[d], f.value) \in Mailbox
        /\ AfterAck(deviceBox[d], f.value).contents = deviceBox[d].contents
        /\ AfterAck(deviceBox[d], f.value).callerChanged = deviceBox[d].callerChanged
        /\ AfterAck(deviceBox[d], f.value).synchronized
              => deviceBox[d].synchronized \/ f.value = deviceBox[d].contents
    <3>1. AfterAck(deviceBox[d], f.value) \in Mailbox
      BY <1>1, <2>2, BoxOperators
    <3> QED
      BY <1>1, <2>2, <3>1, AckFields
  <2>4. AfterAck(deviceBox[d], f.value).synchronized => Settled(d)
    <3>1. f.value = deviceBox[d].contents => Settled(d)
      BY <1>3, <2>1 DEF Settled, ForMe
    <3>2. deviceBox[d].synchronized => Settled(d)
      BY DEF Settled
    <3> QED
      BY <2>3, <3>1, <3>2
  <2> QED
    BY <1>3, <2>3, <2>4
<1> QED
  BY <1>2, <1>3 DEF TakeDeviceAckOrPoll

(* The same after a frame of device control.                               *)
LEMMA AfterControl ==
  ASSUME MailTypeOK, V!TypeOK, NEW STATE d, d \in Device, TakeControl(d)
  PROVE  \E f \in deviceRadio[d], m \in Mailbox :
           /\ f.command \in {"ASSIGN_ADDRESS", "BUS_RESET"}
           /\ PollDevice(d, address'[d], m)
           /\ m.contents = deviceBox[d].contents
           /\ address' = [address EXCEPT ![d] = address'[d]]
           /\ \/ AssignFor(d, f)
                 /\ address'[d] = f.address /\ joined' = [joined EXCEPT ![d] = f.boot]
              \/ address'[d] = Unassigned /\ joined' = joined
              \/ /\ address' = address /\ joined' = joined
                 /\ m = deviceBox[d]
<1>1. PICK f \in Only(deviceRadio[d], {"ASSIGN_ADDRESS", "BUS_RESET"}) :
        /\ address' = [address EXCEPT ![d] = NewAddress(d, f)]
        /\ joined' = IF V!Accepts(d, f) THEN [joined EXCEPT ![d] = f.boot] ELSE joined
        /\ PollDevice(d, NewAddress(d, f),
                      IF ResetsDevice(d, f) THEN BusReset(deviceBox[d]) ELSE deviceBox[d])
  BY DEF TakeControl
<1>2. f \in deviceRadio[d] /\ f.command \in {"ASSIGN_ADDRESS", "BUS_RESET"}
  BY DEF Only
<1>3. /\ address'[d] = NewAddress(d, f)
      /\ address' = [address EXCEPT ![d] = address'[d]]
  BY <1>1 DEF V!TypeOK
<1>4. deviceBox[d] \in Mailbox /\ BusReset(deviceBox[d]) \in Mailbox
      /\ BusReset(deviceBox[d]).contents = deviceBox[d].contents
  BY BoxOperators, ZeroAssumption DEF MailTypeOK
<1>5. CASE V!Accepts(d, f)
  <2>1. AssignFor(d, f) /\ NewAddress(d, f) = f.address
    BY <1>5 DEF V!Accepts, AssignFor, NewAddress, V!AddressAfter
  <2>2. PollDevice(d, address'[d], BusReset(deviceBox[d]))
    BY <1>1, <1>3, <1>5 DEF ResetsDevice
  <2> QED
    BY <1>1, <1>2, <1>3, <1>4, <1>5, <2>1, <2>2
<1>6. CASE f.command = "BUS_RESET"
  <2>1. ~V!Accepts(d, f) /\ NewAddress(d, f) = Unassigned
    BY <1>6 DEF V!Accepts, NewAddress, V!AddressAfter, Unassigned
  <2>2. PollDevice(d, address'[d], BusReset(deviceBox[d]))
    BY <1>1, <1>3, <1>6 DEF ResetsDevice
  <2> QED
    BY <1>1, <1>2, <1>3, <1>4, <2>1, <2>2
<1>7. CASE f.command # "BUS_RESET" /\ ~V!Accepts(d, f)
  <2>1. NewAddress(d, f) = address[d]
    BY <1>7 DEF NewAddress, V!AddressAfter
  <2>2. PollDevice(d, address'[d], deviceBox[d])
    BY <1>1, <1>3, <1>7 DEF ResetsDevice
  <2>3. address' = address
    BY <1>1, <2>1 DEF V!TypeOK
  <2> QED
    BY <1>1, <1>2, <1>3, <1>4, <1>7, <2>2, <2>3
<1> QED
  BY <1>5, <1>6, <1>7

-------------------------------------------------------------------------------
(* Which steps take nothing back.                                          *)

(* The simple case: bindings, addresses and mailboxes are left alone.      *)
LEMMA FramesMove ==
  ASSUME Buffers,
         UNCHANGED <<connectedDevice, address>>,
         \A i \in V!Proxy : /\ proxyBox'[i].contents = proxyBox[i].contents
                            /\ proxyBox'[i].callerChanged = proxyBox[i].callerChanged
                            /\ proxyBox'[i].synchronized = proxyBox[i].synchronized,
         \A d \in Device : /\ deviceBox'[d].contents = deviceBox[d].contents
                           /\ deviceBox'[d].callerChanged = deviceBox[d].callerChanged
                           /\ deviceBox'[d].synchronized = deviceBox[d].synchronized,
         \A f \in controllerRadio' \cup UNION {deviceReply'[d] : d \in Device} :
            f \in controllerRadio \cup UNION {deviceReply[d] : d \in Device},
         \A f \in controllerRadio' : IsValue(f) => f \in controllerRadio,
         \A d \in Device : /\ deviceReply'[d] # {} => deviceReply[d] # {}
                           /\ controllerReply' \cup deviceRadio'[d]
                                 \subseteq controllerReply \cup deviceRadio[d]
  PROVE  Quieter
<1>1. ASSUME NEW i \in V!Proxy, Acked(i)'
      PROVE  Acked(i)
  <2>1. CASE proxyBox'[i].synchronized
    BY <2>1 DEF Acked
  <2>2. CASE ~proxyBox'[i].synchronized
    <3>1. PICK f \in controllerRadio' \cup UNION {deviceReply'[d] : d \in Device} :
            /\ f.command = "ACK_VALUE"
            /\ f.src = connectedDevice'[i].address
            /\ f.value = proxyBox'[i].contents
      BY <1>1, <2>2 DEF Acked
    <3>2. f \in controllerRadio \cup UNION {deviceReply[d] : d \in Device}
      OBVIOUS
    <3> QED
      BY <3>1, <3>2 DEF Acked
  <2> QED
    BY <2>1, <2>2
<1>2. ASSUME NEW d \in Device, Settled(d)'
      PROVE  Settled(d)
  <2>1. CASE deviceBox'[d].synchronized
    BY <2>1 DEF Settled
  <2>2. CASE ~deviceBox'[d].synchronized
    <3>1. PICK f \in controllerReply' \cup deviceRadio'[d] :
            /\ f.command = "ACK_VALUE"
            /\ f.dest = address'[d]
            /\ f.value = deviceBox'[d].contents
      BY <1>2, <2>2 DEF Settled
    <3>2. f \in controllerReply \cup deviceRadio[d]
      OBVIOUS
    <3> QED
      BY <3>1, <3>2 DEF Settled
  <2> QED
    BY <2>1, <2>2
<1>3. ASSUME NEW d \in Device, NEW f \in deviceRadio'[d], IsValue(f)
      PROVE  f \in deviceRadio[d]
  BY <1>3 DEF Buffers, IsValue
<1> QED
  BY <1>1, <1>2, <1>3 DEF Quieter

LEMMA SendReplyQuieter == ASSUME Buffers, SendReply PROVE Quieter
<1>1. PICK f \in controllerReply : Transmit(f)
  BY DEF SendReply
<1>2. \A d \in Device : \A g \in deviceRadio'[d] : g \in deviceRadio[d] \/ g = f
  BY <1>1, TransmitHears
<1>3. /\ controllerReply' = {}
      /\ UNCHANGED <<connectedDevice, address, controllerRadio, deviceReply, proxyBox, deviceBox>>
  BY DEF SendReply, vending, membership
<1> QED
  BY <1>2, <1>3, FramesMove

LEMMA SendDeviceReplyQuieter ==
  ASSUME Buffers, NEW d \in Device, SendDeviceReply(d)
  PROVE  Quieter
<1>1. PICK f \in deviceReply[d] : ToController(f)
  BY DEF SendDeviceReply
<1>2. \A g \in controllerRadio' : g \in controllerRadio \/ g = f
  BY <1>1, ToControllerHears
<1>3. ~IsValue(f)
  BY DEF Buffers, IsValue
<1>4. /\ deviceReply' = [deviceReply EXCEPT ![d] = {}]
      /\ UNCHANGED <<connectedDevice, address, controllerReply, deviceRadio, proxyBox, deviceBox>>
  BY DEF SendDeviceReply, vending, membership
<1>5. \A e \in Device : deviceReply'[e] \subseteq deviceReply[e]
  BY <1>4 DEF Buffers
<1>6. \A g \in controllerRadio' \cup UNION {deviceReply'[e] : e \in Device} :
         g \in controllerRadio \cup UNION {deviceReply[e] : e \in Device}
  BY <1>2, <1>5
<1>7. \A g \in controllerRadio' : IsValue(g) => g \in controllerRadio
  BY <1>2, <1>3
<1> QED
  BY <1>4, <1>5, <1>6, <1>7, FramesMove

LEMMA TimeKeeps ==
  ASSUME MailTypeOK,
         \/ \E i \in V!Proxy : ElapseProxy(i)
         \/ \E d \in Device : ElapseDevice(d) \/ ElapsePolling(d)
         \/ UNCHANGED vars
  PROVE  /\ \A i \in V!Proxy : /\ proxyBox'[i].contents = proxyBox[i].contents
                               /\ proxyBox'[i].callerChanged = proxyBox[i].callerChanged
                               /\ proxyBox'[i].synchronized = proxyBox[i].synchronized
         /\ \A d \in Device : /\ deviceBox'[d].contents = deviceBox[d].contents
                              /\ deviceBox'[d].callerChanged = deviceBox[d].callerChanged
                              /\ deviceBox'[d].synchronized = deviceBox[d].synchronized
<1>1. \A i \in V!Proxy : /\ proxyBox'[i].contents = proxyBox[i].contents
                         /\ proxyBox'[i].callerChanged = proxyBox[i].callerChanged
                         /\ proxyBox'[i].synchronized = proxyBox[i].synchronized
  <2>1. proxyBox' = proxyBox \/ \E j \in V!Proxy : proxyBox' = [proxyBox EXCEPT ![j].waiting = FALSE]
    BY DEF ElapseProxy, ElapseDevice, ElapsePolling, vars
  <2>2. ASSUME NEW j \in V!Proxy, proxyBox' = [proxyBox EXCEPT ![j].waiting = FALSE], NEW i \in V!Proxy
        PROVE  /\ proxyBox'[i].contents = proxyBox[i].contents
               /\ proxyBox'[i].callerChanged = proxyBox[i].callerChanged
               /\ proxyBox'[i].synchronized = proxyBox[i].synchronized
    <3>1. proxyBox[i] \in Mailbox /\ proxyBox \in [V!Proxy -> Mailbox]
      BY DEF MailTypeOK
    <3>2. proxyBox'[i] \in {proxyBox[i], [proxyBox[i] EXCEPT !.waiting = FALSE]}
      BY <2>2, <3>1
    <3> QED
      BY <3>1, <3>2 DEF Mailbox
  <2> QED
    BY <2>1, <2>2
<1>2. \A d \in Device : /\ deviceBox'[d].contents = deviceBox[d].contents
                        /\ deviceBox'[d].callerChanged = deviceBox[d].callerChanged
                        /\ deviceBox'[d].synchronized = deviceBox[d].synchronized
  <2>1. deviceBox' = deviceBox \/ \E e \in Device : deviceBox' = [deviceBox EXCEPT ![e].waiting = FALSE]
    BY DEF ElapseProxy, ElapseDevice, ElapsePolling, vars
  <2>2. ASSUME NEW e \in Device, deviceBox' = [deviceBox EXCEPT ![e].waiting = FALSE], NEW d \in Device
        PROVE  /\ deviceBox'[d].contents = deviceBox[d].contents
               /\ deviceBox'[d].callerChanged = deviceBox[d].callerChanged
               /\ deviceBox'[d].synchronized = deviceBox[d].synchronized
    <3>1. deviceBox[d] \in Mailbox /\ deviceBox \in [Device -> Mailbox]
      BY DEF MailTypeOK
    <3>2. deviceBox'[d] \in {deviceBox[d], [deviceBox[d] EXCEPT !.waiting = FALSE]}
      BY <2>2, <3>1
    <3> QED
      BY <3>1, <3>2 DEF Mailbox
  <2> QED
    BY <2>1, <2>2
<1> QED
  BY <1>1, <1>2

LEMMA TimeQuieter ==
  ASSUME Buffers, MailTypeOK,
         \/ \E i \in V!Proxy : ElapseProxy(i)
         \/ \E d \in Device : ElapseDevice(d) \/ ElapsePolling(d)
         \/ UNCHANGED vars
  PROVE  Quieter
<1>1. UNCHANGED <<connectedDevice, address, controllerReply, controllerRadio, deviceReply,
                  deviceRadio>>
  BY DEF ElapseProxy, ElapseDevice, ElapsePolling, vars, vending, membership
<1> QED
  BY <1>1, TimeKeeps, FramesMove

LEMMA ControllerTurnQuieter ==
  ASSUME V!TypeOK, Buffers, MailTypeOK, Wired, TakeAckOrPoll
  PROVE  Quieter
<1>1. /\ controllerReply = {} /\ controllerReply' = {} /\ controllerRadio' = {}
      /\ UNCHANGED <<connectedDevice, address, deviceReply, deviceBox>>
  BY DEF TakeAckOrPoll, membership
<1>2. /\ \A i \in V!Proxy :
            /\ proxyBox'[i].contents = proxyBox[i].contents
            /\ proxyBox'[i].callerChanged = proxyBox[i].callerChanged
            /\ proxyBox'[i].synchronized => Acked(i)
      /\ \A d \in Device : \A f \in deviceRadio'[d] :
            \/ f \in deviceRadio[d]
            \/ f = [command |-> "BUS_RESET"]
            \/ \E i \in V!Proxy : /\ ~Silent(i) /\ IsValue(f)
                                  /\ f.dest = connectedDevice[i].address
                                  /\ f.value = proxyBox[i].contents
  BY ControllerTurn
<1>3. ASSUME NEW i \in V!Proxy, Acked(i)'
      PROVE  Acked(i)
  <2>1. CASE ~proxyBox'[i].synchronized
    <3>1. PICK f \in UNION {deviceReply[d] : d \in Device} :
            /\ f.command = "ACK_VALUE"
            /\ f.src = connectedDevice[i].address
            /\ f.value = proxyBox[i].contents
      BY <1>1, <1>2, <1>3, <2>1 DEF Acked
    <3> QED
      BY <3>1 DEF Acked
  <2> QED
    BY <1>2, <2>1
<1>4. ASSUME NEW d \in Device, NEW f \in deviceRadio'[d], f \notin deviceRadio[d]
      PROVE  /\ f.command \notin {"ASSIGN_ADDRESS", "ACK_VALUE"}
             /\ IsValue(f) => \E i \in V!Proxy : /\ connectedDevice[i].connected
                                                 /\ f.dest = connectedDevice[i].address
                                                 /\ f.value = proxyBox[i].contents
  <2>1. CASE f = [command |-> "BUS_RESET"]
    BY <2>1 DEF IsValue
  <2>2. ASSUME NEW i \in V!Proxy, ~Silent(i), IsValue(f), f.dest = connectedDevice[i].address,
               f.value = proxyBox[i].contents
        PROVE  /\ connectedDevice[i].connected
               /\ f.command \notin {"ASSIGN_ADDRESS", "ACK_VALUE"}
    BY <2>2 DEF Silent, Wired, IsValue
  <2> QED
    BY <1>2, <1>4, <2>1, <2>2
<1>5. ASSUME NEW d \in Device, Settled(d)'
      PROVE  Settled(d)
  <2>1. CASE ~deviceBox'[d].synchronized
    <3>1. PICK f \in deviceRadio'[d] :
            f.command = "ACK_VALUE" /\ f.dest = address[d] /\ f.value = deviceBox[d].contents
      BY <1>1, <1>5, <2>1 DEF Settled
    <3>2. f \in deviceRadio[d]
      BY <1>4, <3>1
    <3> QED
      BY <3>1, <3>2 DEF Settled
  <2> QED
    BY <1>1, <2>1 DEF Settled
<1> QED
  BY <1>1, <1>2, <1>3, <1>4, <1>5 DEF Quieter

(* A device that leaves its radio and its reply buffer empty.              *)
LEMMA DeviceMoves ==
  ASSUME Buffers, NEW d \in Device,
         UNCHANGED <<connectedDevice, controllerReply, proxyBox>>,
         \A e \in Device : e # d => /\ address'[e] = address[e]
                                    /\ deviceReply'[e] = deviceReply[e]
                                    /\ deviceRadio'[e] = deviceRadio[e]
                                    /\ deviceBox'[e] = deviceBox[e],
         deviceReply'[d] = {}, deviceRadio'[d] = {},
         \A f \in controllerRadio' : /\ f.command = "ACK_VALUE" => f \in controllerRadio
                                     /\ IsValue(f) => f \in controllerRadio \/ f.src = address'[d],
         \/ /\ address'[d] = address[d]
            /\ deviceBox'[d].contents = deviceBox[d].contents
            /\ deviceBox'[d].callerChanged = deviceBox[d].callerChanged
            /\ deviceBox'[d].synchronized => Settled(d)
         \/ \A i \in V!Proxy : Member(d, i)' /\ proxyBox[i].callerChanged => ~Acked(i)
  PROVE  Quieter
<1>1. ASSUME NEW i \in V!Proxy, Acked(i)'
      PROVE  Acked(i)
  <2>1. CASE ~proxyBox[i].synchronized
    <3>1. PICK f \in controllerRadio' \cup UNION {deviceReply'[e] : e \in Device} :
            /\ f.command = "ACK_VALUE"
            /\ f.src = connectedDevice[i].address
            /\ f.value = proxyBox[i].contents
      BY <1>1, <2>1 DEF Acked
    <3>2. f \in controllerRadio \cup UNION {deviceReply[e] : e \in Device}
      BY <3>1
    <3> QED
      BY <3>1, <3>2 DEF Acked
  <2> QED
    BY <2>1 DEF Acked
<1>2. ASSUME NEW e \in Device, e # d, Settled(e)'
      PROVE  Settled(e)
  BY <1>2 DEF Settled
<1>3. ASSUME deviceBox'[d].synchronized => Settled(d), address'[d] = address[d],
             deviceBox'[d].contents = deviceBox[d].contents, Settled(d)'
      PROVE  Settled(d)
  <2>1. CASE ~deviceBox'[d].synchronized
    <3>1. PICK f \in controllerReply : /\ f.command = "ACK_VALUE"
                                       /\ f.dest = address[d]
                                       /\ f.value = deviceBox[d].contents
      BY <1>3, <2>1 DEF Settled
    <3> QED
      BY <3>1 DEF Settled
  <2> QED
    BY <1>3, <2>1
<1>4. \A e \in Device : deviceRadio'[e] \subseteq deviceRadio[e]
  OBVIOUS
<1>5. \A e \in Device :
         \/ /\ address'[e] = address[e]
            /\ deviceReply'[e] # {} => deviceReply[e] # {}
            /\ deviceBox'[e].contents = deviceBox[e].contents
            /\ deviceBox'[e].callerChanged = deviceBox[e].callerChanged
            /\ Settled(e)' => Settled(e)
         \/ /\ deviceReply'[e] = {}
            /\ \A i \in V!Proxy : Member(e, i)' /\ proxyBox[i].callerChanged => ~Acked(i)
  BY <1>2, <1>3
<1>6. \A f \in controllerRadio' : IsValue(f) =>
         f \in controllerRadio \/ \E e \in Device : f.src = address'[e] /\ deviceReply'[e] = {}
  OBVIOUS
<1> QED
  BY <1>1, <1>4, <1>5, <1>6 DEF Quieter

LEMMA RestartDeviceQuieter ==
  ASSUME V!TypeOK, Buffers, MailTypeOK, Wired, NEW d \in Device, RestartDevice(d)
  PROVE  Quieter
<1>1. UNCHANGED <<connectedDevice, controllerReply, controllerRadio, proxyBox>>
  BY DEF RestartDevice, vending
<1>2. address'[d] = Unassigned /\ deviceReply'[d] = {} /\ deviceRadio'[d] = {}
  BY DEF RestartDevice, Buffers, V!TypeOK
<1>3. \A e \in Device : e # d => /\ address'[e] = address[e]
                                 /\ deviceReply'[e] = deviceReply[e]
                                 /\ deviceRadio'[e] = deviceRadio[e]
                                 /\ deviceBox'[e] = deviceBox[e]
  BY DEF RestartDevice, Buffers, V!TypeOK, MailTypeOK
<1>4. \A i \in V!Proxy : ~Member(d, i)'
  BY <1>1, <1>2 DEF Member, Serves, Wired
<1> QED
  BY <1>1, <1>2, <1>3, <1>4, DeviceMoves

(* What a turn with polling adds to the controller's radio.                *)
LEMMA PollAdds ==
  ASSUME NEW STATE d, NEW STATE a,
         \A f \in controllerRadio' :
               \/ f \in controllerRadio
               \/ a = Unassigned /\ f = [command |-> "REQUEST_ADDRESS", device |-> d]
               \/ IsValue(f) /\ f.src = a
  PROVE  \A f \in controllerRadio' :
            /\ f.command = "ACK_VALUE" => f \in controllerRadio
            /\ IsValue(f) => f \in controllerRadio \/ f.src = a
BY DEF IsValue

LEMMA DeviceTurnQuieter ==
  ASSUME V!TypeOK, Buffers, MailTypeOK, NEW d \in Device, TakeDeviceAckOrPoll(d)
  PROVE  Quieter
<1>1. PICK m \in Mailbox : /\ PollDevice(d, address[d], m)
                           /\ m.contents = deviceBox[d].contents
                           /\ m.callerChanged = deviceBox[d].callerChanged
                           /\ m.synchronized => Settled(d)
  BY AckOrNothing
<1>2. deviceBox \in [Device -> Mailbox]
  BY DEF MailTypeOK
<1>3. /\ \A e \in Device : e # d => deviceBox'[e] = deviceBox[e]
      /\ deviceBox'[d].contents = m.contents
      /\ deviceBox'[d].callerChanged = m.callerChanged
      /\ deviceBox'[d].synchronized = m.synchronized
      /\ \A f \in controllerRadio' :
            \/ f \in controllerRadio
            \/ address[d] = Unassigned /\ f = [command |-> "REQUEST_ADDRESS", device |-> d]
            \/ IsValue(f) /\ f.src = address[d]
  BY <1>1, <1>2, PollTurn
<1>4. /\ UNCHANGED <<connectedDevice, address, controllerReply, proxyBox, deviceReply>>
      /\ deviceReply[d] = {} /\ deviceRadio' = [deviceRadio EXCEPT ![d] = {}]
  BY DEF TakeDeviceAckOrPoll, vending
<1>5. \A e \in Device : deviceRadio'[e] = IF e = d THEN {} ELSE deviceRadio[e]
  BY <1>4 DEF Buffers
<1>6. \A f \in controllerRadio' :
         /\ f.command = "ACK_VALUE" => f \in controllerRadio
         /\ IsValue(f) => f \in controllerRadio \/ f.src = address'[d]
  BY <1>3, <1>4, PollAdds
<1> QED
  BY <1>1, <1>3, <1>4, <1>5, <1>6, DeviceMoves

LEMMA ControlQuieter ==
  ASSUME V!TypeOK, Buffers, MailTypeOK, Wired, Pushed, NEW d \in Device, TakeControl(d)
  PROVE  Quieter
<1>1. PICK f \in deviceRadio[d], m \in Mailbox :
        /\ PollDevice(d, address'[d], m)
        /\ m.contents = deviceBox[d].contents
        /\ address' = [address EXCEPT ![d] = address'[d]]
        /\ \/ AssignFor(d, f)
           \/ address'[d] = Unassigned
           \/ address' = address /\ m = deviceBox[d]
  BY AfterControl
<1>2. deviceBox \in [Device -> Mailbox]
  BY DEF MailTypeOK
<1>3. /\ \A e \in Device : e # d => deviceBox'[e] = deviceBox[e]
      /\ deviceBox'[d].contents = m.contents
      /\ deviceBox'[d].callerChanged = m.callerChanged
      /\ deviceBox'[d].synchronized = m.synchronized
      /\ \A g \in controllerRadio' :
            \/ g \in controllerRadio
            \/ address'[d] = Unassigned /\ g = [command |-> "REQUEST_ADDRESS", device |-> d]
            \/ IsValue(g) /\ g.src = address'[d]
  BY <1>1, <1>2, PollTurn
<1>4. /\ UNCHANGED <<connectedDevice, controllerReply, proxyBox, deviceReply>>
      /\ deviceReply[d] = {} /\ deviceRadio' = [deviceRadio EXCEPT ![d] = {}]
  BY DEF TakeControl, vending
<1>5. \A e \in Device : /\ deviceRadio'[e] = IF e = d THEN {} ELSE deviceRadio[e]
                        /\ e # d => address'[e] = address[e]
  BY <1>1, <1>4 DEF Buffers, V!TypeOK
<1>6. \A g \in controllerRadio' :
         /\ g.command = "ACK_VALUE" => g \in controllerRadio
         /\ IsValue(g) => g \in controllerRadio \/ g.src = address'[d]
  BY <1>3, PollAdds
<1>7. \/ /\ address'[d] = address[d]
         /\ deviceBox'[d].contents = deviceBox[d].contents
         /\ deviceBox'[d].callerChanged = deviceBox[d].callerChanged
         /\ deviceBox'[d].synchronized => Settled(d)
      \/ \A i \in V!Proxy : Member(d, i)' /\ proxyBox[i].callerChanged => ~Acked(i)
  <2>1. CASE AssignFor(d, f)
    <3>1. Assigning(d)
      BY <2>1 DEF Assigning
    <3>2. \A i \in V!Proxy : Member(d, i)' => Serves(i, d)
      BY <1>4 DEF Member, Serves
    <3> QED
      BY <3>1, <3>2 DEF Pushed
  <2>2. CASE address'[d] = Unassigned
    BY <1>4, <2>2 DEF Member, Serves, Wired
  <2>3. CASE address' = address /\ m = deviceBox[d]
    BY <1>3, <2>3 DEF Settled
  <2> QED
    BY <1>1, <2>1, <2>2, <2>3
<1> QED
  BY <1>3, <1>4, <1>5, <1>6, <1>7, DeviceMoves

-------------------------------------------------------------------------------
(* The other steps.                                                        *)

(* A new value has not been seen before.                                   *)
LEMMA FreshIsNew ==
  ASSUME MailTypeOK, NEW v \in Value, Fresh(v)
  PROVE  v \notin Stored
<1>1. v \in Nat /\ Zero \in Nat
  BY ValueAssumption, ZeroAssumption
<1>2. \A i \in V!Proxy : \A u \in proxyStored[i] : u \in Nat /\ u < v
  BY ValueAssumption DEF MailTypeOK, Fresh
<1>3. \A d \in Device : \A u \in deviceStored[d] : u \in Nat /\ u < v
  BY ValueAssumption DEF MailTypeOK, Fresh
<1>4. v # Zero
  <2>1. v > Zero
    BY DEF Fresh
  <2> QED
    BY <1>1, <2>1
<1>5. v \notin UNION {proxyStored[i] : i \in V!Proxy}
  <2> SUFFICES ASSUME NEW i \in V!Proxy, v \in proxyStored[i] PROVE FALSE
    OBVIOUS
  <2> QED
    BY <1>1, <1>2
<1>6. v \notin UNION {deviceStored[d] : d \in Device}
  <2> SUFFICES ASSUME NEW d \in Device, v \in deviceStored[d] PROVE FALSE
    OBVIOUS
  <2> QED
    BY <1>1, <1>3
<1> QED
  BY <1>4, <1>5, <1>6 DEF Stored

(* An acknowledgement of any proxy's value, or of any device's, is of a    *)
(* value that has been seen.                                               *)
LEMMA AcksAreKnown ==
  ASSUME KnownInv
  PROVE  /\ \A f \in controllerRadio \cup UNION {deviceReply[d] : d \in Device} :
               f.command \in Command => f.value \in Stored
         /\ \A d \in Device : \A f \in controllerReply \cup deviceRadio[d] :
               f.command \in Command => f.value \in Stored
BY DEF KnownInv, ToDevices, ToProxies

LEMMA SetProxyAckInv ==
  ASSUME MailTypeOK, KnownInv, AckInv, NEW i \in V!Proxy, NEW v \in Value, SetProxy(i, v)
  PROVE  AckInv'
<1>1. /\ proxyBox' = [proxyBox EXCEPT ![i] = SetLong(@, v)]
      /\ UNCHANGED <<connectedDevice, address, controllerReply, controllerRadio, deviceReply,
                     deviceRadio, deviceBox>>
  BY DEF SetProxy, vending, membership
<1>2. /\ proxyBox'[i].contents = v /\ proxyBox'[i].synchronized = FALSE
      /\ \A j \in V!Proxy : j # i => proxyBox'[j] = proxyBox[j]
  <2>1. proxyBox[i] \in Mailbox /\ proxyBox \in [V!Proxy -> Mailbox]
    BY DEF MailTypeOK
  <2>2. proxyBox'[i] = SetLong(proxyBox[i], v) /\ \A j \in V!Proxy : j # i => proxyBox'[j] = proxyBox[j]
    BY <1>1, <2>1
  <2> QED
    BY <2>1, <2>2 DEF SetLong, Mailbox
<1>3. v \notin Stored
  BY FreshIsNew DEF SetProxy
<1>4. ~Acked(i)'
  <2>1. \A f \in controllerRadio \cup UNION {deviceReply[d] : d \in Device} :
           f.command = "ACK_VALUE" => f.value # v
    BY <1>3, AcksAreKnown DEF Command
  <2> QED
    BY <1>1, <1>2, <2>1 DEF Acked
<1>5. \A j \in V!Proxy : j # i => (Acked(j)' <=> Acked(j))
  BY <1>1, <1>2 DEF Acked
<1>6. \A d \in Device, j \in V!Proxy : /\ Member(d, j)' <=> Member(d, j)
                                       /\ Serves(j, d)' <=> Serves(j, d)
                                       /\ Assigning(d)' <=> Assigning(d)
                                       /\ Settled(d)' <=> Settled(d)
  BY <1>1 DEF Member, Serves, Assigning, Settled
<1>7. Pushed'
  BY <1>2, <1>4, <1>5, <1>6 DEF AckInv, Pushed
<1>8. Unsent'
  BY <1>1, <1>6 DEF AckInv, Unsent
<1>9. HeldInv'
  <2> SUFFICES ASSUME NEW d \in Device, NEW j \in V!Proxy, Member(d, j)',
                      proxyBox'[j].callerChanged, Acked(j)'
               PROVE  /\ \/ deviceBox'[d].contents = proxyBox'[j].contents
                         \/ deviceBox'[d].callerChanged /\ ~Settled(d)'
                      /\ \A f \in deviceRadio'[d] :
                            IsValue(f) /\ f.dest = address'[d] => f.value = proxyBox'[j].contents
    BY DEF HeldInv, V!Proxy
  <2>1. j # i /\ proxyBox'[j] = proxyBox[j] /\ Acked(j) /\ Member(d, j)
    BY <1>2, <1>4, <1>5, <1>6
  <2>2. /\ \/ deviceBox[d].contents = proxyBox[j].contents
           \/ deviceBox[d].callerChanged /\ ~Settled(d)
        /\ \A f \in deviceRadio[d] :
              IsValue(f) /\ f.dest = address[d] => f.value = proxyBox[j].contents
    BY <2>1 DEF AckInv, HeldInv
  <2> QED
    BY <1>1, <1>6, <2>1, <2>2
<1> QED
  BY <1>7, <1>8, <1>9 DEF AckInv

LEMMA SetDeviceAckInv ==
  ASSUME MailTypeOK, KnownInv, AckInv, NEW d \in Device, NEW v \in Value, SetDevice(d, v)
  PROVE  AckInv'
<1>1. /\ deviceBox' = [deviceBox EXCEPT ![d] = SetLong(@, v)]
      /\ UNCHANGED <<connectedDevice, address, controllerReply, controllerRadio, deviceReply,
                     deviceRadio, proxyBox>>
  BY DEF SetDevice, vending, membership
<1>2. /\ deviceBox'[d].contents = v /\ deviceBox'[d].synchronized = FALSE
      /\ deviceBox'[d].callerChanged = TRUE
      /\ \A e \in Device : e # d => deviceBox'[e] = deviceBox[e]
  <2>1. deviceBox[d] \in Mailbox /\ deviceBox \in [Device -> Mailbox]
    BY DEF MailTypeOK
  <2>2. deviceBox'[d] = SetLong(deviceBox[d], v) /\ \A j \in Device : j # d => deviceBox'[j] = deviceBox[j]
    BY <1>1, <2>1
  <2> QED
    BY <2>1, <2>2 DEF SetLong, Mailbox
<1>3. v \notin Stored
  BY FreshIsNew DEF SetDevice
<1>4. ~Settled(d)'
  <2>1. \A f \in controllerReply \cup deviceRadio[d] : f.command = "ACK_VALUE" => f.value # v
    BY <1>3, AcksAreKnown DEF Command
  <2> QED
    BY <1>1, <1>2, <2>1 DEF Settled
<1>5. \A f \in controllerRadio : IsValue(f) => f.value # v
  BY <1>3, AcksAreKnown DEF Command, IsValue
<1>6. \A e \in Device, i \in V!Proxy : /\ Member(e, i)' <=> Member(e, i)
                                       /\ Serves(i, e)' <=> Serves(i, e)
                                       /\ Assigning(e)' <=> Assigning(e)
                                       /\ Acked(i)' <=> Acked(i)
  BY <1>1 DEF Member, Serves, Assigning, Acked
<1>7. \A e \in Device : e # d => (Settled(e)' <=> Settled(e))
  BY <1>1, <1>2 DEF Settled
<1>8. Pushed'
  BY <1>1, <1>6 DEF AckInv, Pushed
<1>9. Unsent'
  <2> SUFFICES ASSUME NEW e \in Device, NEW i \in V!Proxy, Member(e, i)',
                      deviceReply'[e] # {}, deviceBox'[e].callerChanged
               PROVE  /\ ~Settled(e)'
                      /\ \A f \in controllerRadio' :
                            ~(IsValue(f) /\ f.src = address'[e] /\ f.value = deviceBox'[e].contents)
    BY DEF Unsent, V!Proxy
  <2>1. CASE e = d
    BY <1>1, <1>2, <1>4, <1>5, <2>1
  <2>2. CASE e # d
    BY <1>1, <1>2, <1>6, <1>7, <2>2 DEF AckInv, Unsent
  <2> QED
    BY <2>1, <2>2
<1>10. HeldInv'
  <2> SUFFICES ASSUME NEW e \in Device, NEW i \in V!Proxy, Member(e, i)',
                      proxyBox'[i].callerChanged, Acked(i)'
               PROVE  /\ \/ deviceBox'[e].contents = proxyBox'[i].contents
                         \/ deviceBox'[e].callerChanged /\ ~Settled(e)'
                      /\ \A f \in deviceRadio'[e] :
                            IsValue(f) /\ f.dest = address'[e] => f.value = proxyBox'[i].contents
    BY DEF HeldInv, V!Proxy
  <2>1. /\ \/ deviceBox[e].contents = proxyBox[i].contents
           \/ deviceBox[e].callerChanged /\ ~Settled(e)
        /\ \A f \in deviceRadio[e] :
              IsValue(f) /\ f.dest = address[e] => f.value = proxyBox[i].contents
    BY <1>1, <1>6 DEF AckInv, HeldInv
  <2>2. CASE e = d
    BY <1>1, <1>2, <1>4, <2>1, <2>2
  <2>3. CASE e # d
    BY <1>1, <1>2, <1>7, <2>1, <2>3
  <2> QED
    BY <2>2, <2>3
<1> QED
  BY <1>8, <1>9, <1>10 DEF AckInv

LEMMA TakeDeviceValueAckInv ==
  ASSUME VP!DistinctIDs, Buffers, MailTypeOK, Wired, Calm, AckInv,
         NEW d \in Device, TakeDeviceValue(d)
  PROVE  AckInv'
<1>1. PICK f \in Only(deviceRadio[d], Command) :
        /\ IsValue(f) /\ ForMe(d, f)
        /\ deviceBox' = [deviceBox EXCEPT ![d] = AfterAccept(@, f.value)]
        /\ deviceReply' = [deviceReply EXCEPT ![d] = {FromDevice(address[d], "ACK_VALUE", f.value)}]
  BY DEF TakeDeviceValue
<1>2. /\ UNCHANGED <<connectedDevice, address, controllerReply, controllerRadio, proxyBox>>
      /\ deviceRadio' = [deviceRadio EXCEPT ![d] = {}]
  BY DEF TakeDeviceValue, vending, membership
<1>3. f \in deviceRadio[d] /\ f.dest = address[d] /\ address[d] # Unassigned
  BY <1>1 DEF Only, ForMe
<1>4. f.value \in Value
  BY MailIsTyped DEF Mail
<1>5. /\ deviceBox'[d].contents = f.value /\ deviceBox'[d].callerChanged = FALSE
      /\ \A e \in Device : e # d => deviceBox'[e] = deviceBox[e]
  <2>1. deviceBox[d] \in Mailbox /\ deviceBox \in [Device -> Mailbox]
    BY DEF MailTypeOK
  <2>2. deviceBox'[d] = AfterAccept(deviceBox[d], f.value)
        /\ \A e \in Device : e # d => deviceBox'[e] = deviceBox[e]
    BY <1>1, <2>1
  <2> QED
    BY <2>1, <2>2 DEF AfterAccept, Mailbox
<1>6. \A e \in Device : deviceRadio'[e] = IF e = d THEN {} ELSE deviceRadio[e]
  BY <1>2 DEF Buffers
<1>7. \A e \in Device : deviceReply'[e] = IF e = d THEN {FromDevice(address[d], "ACK_VALUE", f.value)}
                                          ELSE deviceReply[e]
  BY <1>1 DEF Buffers
<1>8. \A e \in Device, i \in V!Proxy : /\ Member(e, i)' <=> Member(e, i)
                                       /\ Serves(i, e)' <=> Serves(i, e)
  BY <1>2 DEF Member, Serves
(* Only the device's own proxy can take the new acknowledgement.           *)
<1>9. ASSUME NEW i \in V!Proxy, connectedDevice[i].connected, Acked(i)'
      PROVE  Acked(i) \/ (Member(d, i) /\ f.value = proxyBox[i].contents)
  <2>1. CASE ~proxyBox[i].synchronized
    <3>1. PICK g \in controllerRadio \cup UNION {deviceReply'[e] : e \in Device} :
            /\ g.command = "ACK_VALUE"
            /\ g.src = connectedDevice[i].address
            /\ g.value = proxyBox[i].contents
      BY <1>2, <1>9, <2>1 DEF Acked
    <3>2. CASE g \in controllerRadio \cup UNION {deviceReply[e] : e \in Device}
      <4>1. Acked(i)
        BY <3>1, <3>2 DEF Acked
      <4> QED
        BY <4>1
    <3>3. CASE g = FromDevice(address[d], "ACK_VALUE", f.value)
      <4>1. g.src = address[d] /\ g.value = f.value
        BY <3>3 DEF FromDevice
      <4>2. Member(d, i)
        BY <1>9, <3>1, <4>1 DEF Wired
      <4> QED
        BY <3>1, <4>1, <4>2
    <3> QED
      BY <1>7, <3>1, <3>2, <3>3
  <2>2. CASE proxyBox[i].synchronized
    <3>1. Acked(i)
      BY <2>2 DEF Acked
    <3> QED
      BY <3>1
  <2> QED
    BY <2>1, <2>2
<1>10. ~Assigning(d)
  BY <1>1, <1>3 DEF Calm
<1>11. Pushed'
  <2> SUFFICES ASSUME NEW e \in Device, NEW i \in V!Proxy, Assigning(e)', Serves(i, e)',
                      proxyBox'[i].callerChanged, Acked(i)'
               PROVE  FALSE
    BY DEF Pushed, V!Proxy
  <2>1. Assigning(e) /\ Serves(i, e) /\ proxyBox[i].callerChanged
    BY <1>2, <1>6, <1>8 DEF Assigning
  <2>2. ~Acked(i)
    BY <2>1 DEF AckInv, Pushed
  <2>3. Member(d, i)
    BY <1>9, <2>1, <2>2 DEF Serves
  <2>4. d = e
    BY <2>1, <2>3, OneToOne DEF Member
  <2> QED
    BY <1>10, <2>1, <2>4
<1>12. \A e \in Device : e # d => (Settled(e)' => Settled(e))
  BY <1>2, <1>5, <1>6 DEF Settled
<1>13. Unsent'
  <2> SUFFICES ASSUME NEW e \in Device, NEW i \in V!Proxy, Member(e, i)',
                      deviceReply'[e] # {}, deviceBox'[e].callerChanged
               PROVE  /\ ~Settled(e)'
                      /\ \A g \in controllerRadio' :
                            ~(IsValue(g) /\ g.src = address'[e] /\ g.value = deviceBox'[e].contents)
    BY DEF Unsent, V!Proxy
  <2>1. e # d
    BY <1>5
  <2>2. Member(e, i) /\ deviceReply[e] # {} /\ deviceBox[e].callerChanged
    BY <1>5, <1>7, <1>8, <2>1
  <2>3. /\ ~Settled(e)
        /\ \A g \in controllerRadio :
              ~(IsValue(g) /\ g.src = address[e] /\ g.value = deviceBox[e].contents)
    BY <2>2 DEF AckInv, Unsent
  <2> QED
    BY <1>2, <1>5, <1>12, <2>1, <2>3
<1>14. HeldInv'
  <2> SUFFICES ASSUME NEW e \in Device, NEW i \in V!Proxy, Member(e, i)',
                      proxyBox'[i].callerChanged, Acked(i)'
               PROVE  /\ \/ deviceBox'[e].contents = proxyBox'[i].contents
                         \/ deviceBox'[e].callerChanged /\ ~Settled(e)'
                      /\ \A g \in deviceRadio'[e] :
                            IsValue(g) /\ g.dest = address'[e] => g.value = proxyBox'[i].contents
    BY DEF HeldInv, V!Proxy
  <2>1. Member(e, i) /\ proxyBox[i].callerChanged /\ proxyBox' = proxyBox
    BY <1>2, <1>8
  <2>2. Acked(i) \/ (Member(d, i) /\ f.value = proxyBox[i].contents)
    BY <1>9, <2>1 DEF Member, Serves
  <2>3. Acked(i) =>
          /\ \/ deviceBox[e].contents = proxyBox[i].contents
             \/ deviceBox[e].callerChanged /\ ~Settled(e)
          /\ \A g \in deviceRadio[e] :
                IsValue(g) /\ g.dest = address[e] => g.value = proxyBox[i].contents
    BY <2>1 DEF AckInv, HeldInv
  <2>4. CASE e = d
    <3>1. f.value = proxyBox[i].contents
      BY <1>1, <1>3, <2>2, <2>3, <2>4
    <3> QED
      BY <1>5, <1>6, <2>1, <2>4, <3>1
  <2>5. CASE e # d
    <3>1. ~Member(d, i)
      BY <2>1, <2>5, OneToOne DEF Member
    <3> QED
      BY <1>2, <1>5, <1>6, <1>12, <2>1, <2>2, <2>3, <2>5, <3>1
  <2> QED
    BY <2>4, <2>5
<1> QED
  BY <1>11, <1>13, <1>14 DEF AckInv

LEMMA TakeValueAckInv ==
  ASSUME VP!DistinctIDs, Buffers, MailTypeOK, Wired, ReplyInv, AckInv, TakeValue
  PROVE  AckInv'
<1>1. PICK f \in Only(controllerRadio, Command), i \in V!Proxy :
        /\ IsValue(f) /\ RoutedTo(f, i)
        /\ proxyBox' = [proxyBox EXCEPT ![i] = IF Contended("master", @) THEN AfterDisregard(@)
                                               ELSE AfterAccept(@, f.value)]
        /\ controllerReply' = {FromProxy(i, "ACK_VALUE", f.value)}
  BY DEF TakeValue
<1>2. /\ controllerReply = {} /\ controllerRadio' = {}
      /\ UNCHANGED <<connectedDevice, address, deviceReply, deviceRadio, deviceBox>>
  BY DEF TakeValue, vending, membership
<1>3. f \in controllerRadio /\ f.value \in Value
  BY MailIsTyped DEF Mail, Only
<1>4. f.src = connectedDevice[i].address /\ connectedDevice[i].connected
  BY <1>1 DEF RoutedTo, V!FindByAddress, V!First, Wired
(* What the proxy had set is kept, not acknowledged; or it has set nothing.*)
<1>5. /\ \A j \in V!Proxy : j # i => proxyBox'[j] = proxyBox[j]
      /\ proxyBox'[i].callerChanged =>
            /\ proxyBox[i].callerChanged /\ proxyBox'[i].contents = proxyBox[i].contents
            /\ ~proxyBox'[i].synchronized
  <2>1. proxyBox[i] \in Mailbox /\ proxyBox \in [V!Proxy -> Mailbox]
    BY DEF MailTypeOK
  <2>2. /\ proxyBox'[i] = IF Contended("master", proxyBox[i]) THEN AfterDisregard(proxyBox[i])
                          ELSE AfterAccept(proxyBox[i], f.value)
        /\ \A j \in V!Proxy : j # i => proxyBox'[j] = proxyBox[j]
    BY <1>1, <2>1
  <2>3. CASE Contended("master", proxyBox[i])
    BY <2>1, <2>2, <2>3 DEF AfterDisregard, Contended, Mailbox
  <2>4. CASE ~Contended("master", proxyBox[i])
    <3>1. proxyBox'[i].callerChanged = FALSE
      BY <2>1, <2>2, <2>4 DEF AfterAccept, Mailbox
    <3> QED
      BY <2>2, <3>1
  <2> QED
    BY <2>3, <2>4
<1>6. ASSUME NEW j \in V!Proxy, proxyBox'[j].callerChanged, Acked(j)'
      PROVE  /\ Acked(j) /\ proxyBox[j].callerChanged
             /\ proxyBox'[j].contents = proxyBox[j].contents
             /\ j = i => \E d \in Device : \E g \in deviceReply[d] :
                           g.src = connectedDevice[i].address
  <2>1. /\ proxyBox[j].callerChanged /\ proxyBox'[j].contents = proxyBox[j].contents
        /\ j = i => ~proxyBox'[j].synchronized
        /\ j # i => proxyBox'[j] = proxyBox[j]
    BY <1>5, <1>6
  <2>2. CASE ~proxyBox'[j].synchronized
    <3>1. PICK g \in UNION {deviceReply[d] : d \in Device} :
            /\ g.command = "ACK_VALUE"
            /\ g.src = connectedDevice[j].address
            /\ g.value = proxyBox[j].contents
      BY <1>2, <1>6, <2>1, <2>2 DEF Acked
    <3>2. Acked(j)
      BY <3>1 DEF Acked
    <3> QED
      BY <2>1, <3>1, <3>2
  <2>3. CASE proxyBox'[j].synchronized
    <3>1. j # i /\ proxyBox[j].synchronized
      BY <2>1, <2>3
    <3>2. Acked(j)
      BY <3>1 DEF Acked
    <3> QED
      BY <2>1, <3>1, <3>2
  <2> QED
    BY <2>2, <2>3
<1>7. \A d \in Device, j \in V!Proxy : /\ Member(d, j)' <=> Member(d, j)
                                       /\ Serves(j, d)' <=> Serves(j, d)
  BY <1>2 DEF Member, Serves
<1>8. \A d \in Device : Assigning(d)' => Assigning(d)
  BY <1>1, <1>2 DEF Assigning, AssignFor, FromProxy
<1>9. ASSUME NEW d \in Device, Settled(d)', ~Settled(d)
      PROVE  address[d] = connectedDevice[i].address /\ f.value = deviceBox[d].contents
  <2>1. PICK g \in controllerReply' \cup deviceRadio[d] :
          /\ g.command = "ACK_VALUE" /\ g.dest = address[d] /\ g.value = deviceBox[d].contents
    BY <1>2, <1>9 DEF Settled
  <2>2. g \notin deviceRadio[d]
    BY <1>9, <2>1 DEF Settled
  <2>3. g = FromProxy(i, "ACK_VALUE", f.value)
    BY <1>1, <2>1, <2>2
  <2>4. g.dest = connectedDevice[i].address /\ g.value = f.value
    BY <2>3 DEF FromProxy
  <2> QED
    BY <2>1, <2>4
<1>10. Pushed'
  BY <1>6, <1>7, <1>8 DEF AckInv, Pushed
<1>11. Unsent'
  <2> SUFFICES ASSUME NEW d \in Device, NEW j \in V!Proxy, Member(d, j)',
                      deviceReply'[d] # {}, deviceBox'[d].callerChanged
               PROVE  /\ ~Settled(d)'
                      /\ \A g \in controllerRadio' :
                            ~(IsValue(g) /\ g.src = address'[d] /\ g.value = deviceBox'[d].contents)
    BY DEF Unsent, V!Proxy
  <2>1. Member(d, j) /\ deviceReply[d] # {} /\ deviceBox[d].callerChanged
    BY <1>2, <1>7
  <2>2. /\ ~Settled(d)
        /\ ~(IsValue(f) /\ f.src = address[d] /\ f.value = deviceBox[d].contents)
    BY <1>3, <2>1 DEF AckInv, Unsent
  <2>3. ~Settled(d)'
    BY <1>1, <1>4, <1>9, <2>2
  <2> QED
    BY <1>2, <2>3
<1>12. HeldInv'
  <2> SUFFICES ASSUME NEW d \in Device, NEW j \in V!Proxy, Member(d, j)',
                      proxyBox'[j].callerChanged, Acked(j)'
               PROVE  /\ \/ deviceBox'[d].contents = proxyBox'[j].contents
                         \/ deviceBox'[d].callerChanged /\ ~Settled(d)'
                      /\ \A g \in deviceRadio'[d] :
                            IsValue(g) /\ g.dest = address'[d] => g.value = proxyBox'[j].contents
    BY DEF HeldInv, V!Proxy
  <2>1. /\ Member(d, j) /\ Acked(j) /\ proxyBox[j].callerChanged
        /\ proxyBox'[j].contents = proxyBox[j].contents
        /\ j = i => \E e \in Device : \E g \in deviceReply[e] : g.src = connectedDevice[i].address
    BY <1>6, <1>7
  <2>2. /\ \/ deviceBox[d].contents = proxyBox[j].contents
           \/ deviceBox[d].callerChanged /\ ~Settled(d)
        /\ \A g \in deviceRadio[d] :
              IsValue(g) /\ g.dest = address[d] => g.value = proxyBox[j].contents
    BY <2>1 DEF AckInv, HeldInv
  <2>3. ASSUME deviceBox[d].callerChanged, ~Settled(d), Settled(d)'
        PROVE  FALSE
    <3>1. address[d] = connectedDevice[i].address
      BY <1>9, <2>3
    <3>2. Member(d, i)
      BY <1>4, <3>1 DEF Wired
    <3>3. j = i
      BY <2>1, <3>2, OneToOne DEF Member
    <3>4. PICK e \in Device : \E g \in deviceReply[e] : g.src = connectedDevice[i].address
      BY <2>1, <3>3
    <3>5. address[e] = address[d]
      BY <3>1, <3>4 DEF ReplyInv
    <3>6. e = d
      BY <3>2, <3>5, OneToOne
    <3>7. deviceReply'[d] # {} /\ deviceBox'[d].callerChanged /\ Member(d, j)'
      BY <1>2, <2>3, <3>4, <3>6
    <3> QED
      BY <1>11, <2>3, <3>7 DEF Unsent
  <2> QED
    BY <1>2, <2>1, <2>2, <2>3
<1> QED
  BY <1>10, <1>11, <1>12 DEF AckInv

(* A proxy is bound to the device that asked, and no other changes.        *)
LEMMA BindsOne ==
  ASSUME Bind, V!TypeOK, MailTypeOK
  PROVE  \E d \in Device, i \in V!Proxy :
           /\ Asking(d)
           /\ connectedDevice'[i].connected /\ connectedDevice'[i].hardwareID = HardwareID[d]
           /\ \A j \in V!Proxy : j # i => /\ connectedDevice'[j] = connectedDevice[j]
                                          /\ proxyBox'[j] = proxyBox[j]
           /\ proxyBox'[i].callerChanged => ~proxyBox'[i].synchronized
           /\ \A f \in controllerReply' : /\ f.command = "ASSIGN_ADDRESS"
                                          /\ f.hardwareID = HardwareID[d]
                                          /\ f.boot = boots
<1>1. PICK f \in Only(controllerRadio, {"REQUEST_ADDRESS"}), i \in V!Proxy :
        /\ connectedDevice' = [connectedDevice EXCEPT ![i] =
              [connected |-> TRUE, hardwareID |-> HardwareID[f.device],
               address |-> V!AddressFor(i)]]
        /\ proxyBox' = [proxyBox EXCEPT ![i] = ResetProxy(@)]
        /\ controllerReply' = {[command |-> "ASSIGN_ADDRESS", boot |-> boots,
                                hardwareID |-> HardwareID[f.device],
                                address |-> V!AddressFor(i)]}
  BY DEF Bind
<1>2. f \in controllerRadio /\ f.command = "REQUEST_ADDRESS" /\ f.device \in Device
  BY DEF Only, V!TypeOK, V!Request
<1>3. Asking(f.device)
  BY <1>2 DEF Asking
<1>4. /\ connectedDevice'[i].connected
      /\ connectedDevice'[i].hardwareID = HardwareID[f.device]
      /\ \A j \in V!Proxy : j # i => connectedDevice'[j] = connectedDevice[j]
  BY <1>1 DEF V!TypeOK
<1>5. /\ \A j \in V!Proxy : j # i => proxyBox'[j] = proxyBox[j]
      /\ proxyBox'[i] = BusReset(proxyBox[i])
  BY <1>1 DEF MailTypeOK, ResetProxy
<1>6. proxyBox'[i].callerChanged => ~proxyBox'[i].synchronized
  <2>1. proxyBox[i] \in Mailbox
    BY DEF MailTypeOK
  <2> QED
    BY <1>5, <2>1, ResetFields
<1> QED
  BY <1>1, <1>2, <1>3, <1>4, <1>5, <1>6

LEMMA BindAckInv ==
  ASSUME VP!DistinctIDs, V!TypeOK, Buffers, MailTypeOK, Wired, Wired', ReplyInv, Calm, AckInv, Bind
  PROVE  AckInv'
<1>1. PICK d \in Device, i \in V!Proxy :
        /\ Asking(d)
        /\ connectedDevice'[i].connected /\ connectedDevice'[i].hardwareID = HardwareID[d]
        /\ \A j \in V!Proxy : j # i => /\ connectedDevice'[j] = connectedDevice[j]
                                       /\ proxyBox'[j] = proxyBox[j]
        /\ proxyBox'[i].callerChanged => ~proxyBox'[i].synchronized
        /\ \A f \in controllerReply' : /\ f.command = "ASSIGN_ADDRESS"
                                       /\ f.hardwareID = HardwareID[d]
  BY BindsOne
<1>2. /\ controllerReply = {} /\ controllerRadio' = {}
      /\ UNCHANGED <<address, joined, boots, deviceReply, deviceRadio, deviceBox>>
  BY DEF Bind, membership
<1>3. deviceReply[d] = {}
  BY <1>1 DEF Calm
(* The proxy that is bound pushes what it holds.                           *)
<1>4. ASSUME proxyBox'[i].callerChanged, connectedDevice'[i].connected, Acked(i)'
      PROVE  FALSE
  <2>1. PICK e \in Device : \E g \in deviceReply[e] : g.src = connectedDevice'[i].address
    BY <1>1, <1>2, <1>4 DEF Acked
  <2>2. address'[e] = connectedDevice'[i].address
    BY <1>2, <2>1 DEF ReplyInv
  <2>3. Member(e, i)'
    BY <1>4, <2>2 DEF Wired, V!Proxy
  <2>4. e = d
    BY <1>1, <2>3 DEF Member, Serves, VP!DistinctIDs
  <2> QED
    BY <1>3, <2>1, <2>4
<1>5. \A j \in V!Proxy, e \in Device : j # i =>
         /\ Serves(j, e)' <=> Serves(j, e)
         /\ Member(e, j)' <=> Member(e, j)
         /\ Acked(j)' => Acked(j)
  <2> SUFFICES ASSUME NEW j \in V!Proxy, NEW e \in Device, j # i
               PROVE  /\ Serves(j, e)' <=> Serves(j, e)
                      /\ Member(e, j)' <=> Member(e, j)
                      /\ Acked(j)' => Acked(j)
    OBVIOUS
  <2>1. connectedDevice'[j] = connectedDevice[j] /\ proxyBox'[j] = proxyBox[j]
    BY <1>1
  <2>2. Acked(j)' => Acked(j)
    BY <1>2, <2>1 DEF Acked
  <2> QED
    BY <1>2, <2>1, <2>2 DEF Serves, Member
<1>6. \A e \in Device : Settled(e)' => Settled(e)
  BY <1>1, <1>2 DEF Settled
<1>7. Pushed'
  <2> SUFFICES ASSUME NEW e \in Device, NEW j \in V!Proxy, Assigning(e)', Serves(j, e)',
                      proxyBox'[j].callerChanged, Acked(j)'
               PROVE  FALSE
    BY DEF Pushed, V!Proxy
  <2>1. j # i
    BY <1>4 DEF Serves
  <2>2. Serves(j, e) /\ proxyBox[j].callerChanged /\ Acked(j)
    BY <1>1, <1>5, <2>1
  <2>3. ~Assigning(e)
    BY <2>2 DEF AckInv, Pushed
  <2>4. HardwareID[e] = HardwareID[d]
    BY <1>1, <1>2, <2>3 DEF Assigning, AssignFor
  <2>5. connectedDevice'[j].hardwareID = connectedDevice'[i].hardwareID
    BY <1>1, <2>4 DEF Serves
  <2>6. connectedDevice'[j].connected /\ connectedDevice'[j].address # Unassigned
    BY DEF Serves, Wired, V!Proxy
  <2> QED
    BY <1>1, <2>1, <2>5, <2>6 DEF Wired, V!Proxy
<1>8. Unsent'
  <2> SUFFICES ASSUME NEW e \in Device, NEW j \in V!Proxy, Member(e, j)',
                      deviceReply'[e] # {}, deviceBox'[e].callerChanged
               PROVE  /\ ~Settled(e)'
                      /\ \A g \in controllerRadio' :
                            ~(IsValue(g) /\ g.src = address'[e] /\ g.value = deviceBox'[e].contents)
    BY DEF Unsent, V!Proxy
  <2>1. address[e] # Unassigned /\ joined[e] = boots
    BY <1>2 DEF Member, Serves, Wired, V!Proxy
  <2>2. \E k \in V!Proxy : Member(e, k)
    BY <2>1 DEF Wired
  <2>3. ~Settled(e)
    BY <1>2, <2>2 DEF AckInv, Unsent
  <2> QED
    BY <1>2, <1>6, <2>3
<1>9. HeldInv'
  <2> SUFFICES ASSUME NEW e \in Device, NEW j \in V!Proxy, Member(e, j)',
                      proxyBox'[j].callerChanged, Acked(j)'
               PROVE  /\ \/ deviceBox'[e].contents = proxyBox'[j].contents
                         \/ deviceBox'[e].callerChanged /\ ~Settled(e)'
                      /\ \A g \in deviceRadio'[e] :
                            IsValue(g) /\ g.dest = address'[e] => g.value = proxyBox'[j].contents
    BY DEF HeldInv, V!Proxy
  <2>1. j # i
    BY <1>4 DEF Member, Serves
  <2>2. Member(e, j) /\ Acked(j) /\ proxyBox'[j] = proxyBox[j]
    BY <1>1, <1>5, <2>1
  <2>3. /\ \/ deviceBox[e].contents = proxyBox[j].contents
           \/ deviceBox[e].callerChanged /\ ~Settled(e)
        /\ \A g \in deviceRadio[e] :
              IsValue(g) /\ g.dest = address[e] => g.value = proxyBox[j].contents
    BY <2>2 DEF AckInv, HeldInv
  <2> QED
    BY <1>2, <1>6, <2>2, <2>3
<1> QED
  BY <1>7, <1>8, <1>9 DEF AckInv

LEMMA RestartAckInv == ASSUME RestartController PROVE AckInv'
<1>1. \A i \in V!Proxy : ~connectedDevice'[i].connected
  BY DEF RestartController, V!NoDevice
<1> QED
  BY <1>1 DEF AckInv, Pushed, Unsent, HeldInv, Member, Serves, V!Proxy

LEMMA NextAckInv ==
  ASSUME VP!DistinctIDs, V!TypeOK, Buffers, MailTypeOK, Wired, Wired',
         KnownInv, ReplyInv, Calm, AckInv, [Next]_vars
  PROVE  AckInv'
<1>1. CASE SendReply \/ TakeAckOrPoll
  BY <1>1, SendReplyQuieter, ControllerTurnQuieter, QuieterKeeps
<1>2. CASE Bind
  BY <1>2, BindAckInv
<1>3. CASE TakeValue
  BY <1>3, TakeValueAckInv
<1>4. CASE RestartController
  BY <1>4, RestartAckInv
<1>5. CASE \/ \E i \in V!Proxy : ElapseProxy(i)
           \/ \E d \in Device : ElapseDevice(d) \/ ElapsePolling(d)
           \/ UNCHANGED vars
  BY <1>5, TimeQuieter, QuieterKeeps
<1>6. ASSUME NEW i \in V!Proxy, NEW v \in Value, SetProxy(i, v)
      PROVE  AckInv'
  BY <1>6, SetProxyAckInv
<1>7. ASSUME NEW d \in Device, NEW v \in Value, SetDevice(d, v)
      PROVE  AckInv'
  BY <1>7, SetDeviceAckInv
<1>8. ASSUME NEW d \in Device, SendDeviceReply(d) \/ TakeDeviceAckOrPoll(d) \/ RestartDevice(d)
      PROVE  AckInv'
  BY <1>8, SendDeviceReplyQuieter, DeviceTurnQuieter, RestartDeviceQuieter, QuieterKeeps
<1>9. ASSUME NEW d \in Device, TakeControl(d)
      PROVE  AckInv'
  <2>1. Pushed
    BY DEF AckInv
  <2> QED
    BY <1>9, <2>1, ControlQuieter, QuieterKeeps
<1>10. ASSUME NEW d \in Device, TakeDeviceValue(d)
       PROVE  AckInv'
  BY <1>10, TakeDeviceValueAckInv
<1> QED
  BY <1>1, <1>2, <1>3, <1>4, <1>5, <1>6, <1>7, <1>8, <1>9, <1>10
  DEF Next, LoopController, LoopDevice

-------------------------------------------------------------------------------
(* The values that are on their way.                                       *)

Known(f) == f.command \in Command => f.value \in Stored

LEMMA KnownFrames ==
  KnownInv <=> /\ \A f \in controllerReply : Known(f)
               /\ \A f \in controllerRadio : Known(f)
               /\ \A d \in Device : \A f \in deviceReply[d] : Known(f)
               /\ \A d \in Device : \A f \in deviceRadio[d] : Known(f)
               /\ \A i \in V!Proxy : proxyBox[i].contents \in Stored
               /\ \A d \in Device : deviceBox[d].contents \in Stored
BY DEF KnownInv, Known, ToDevices, ToProxies

LEMMA InitKnownInv == Init => KnownInv
BY NewMailboxType DEF Init, KnownInv, ToDevices, ToProxies, Stored

(* As long as the applications store nothing, frames that were there and   *)
(* frames with a known value are known.                                    *)
LEMMA KnownStays ==
  ASSUME KnownInv, UNCHANGED <<proxyStored, deviceStored>>,
         \A f \in controllerReply' : f \in controllerReply \/ Known(f),
         \A f \in controllerRadio' : f \in controllerRadio \/ Known(f)
                                     \/ \E d \in Device : f \in deviceReply[d],
         \A d \in Device : \A f \in deviceReply'[d] : f \in deviceReply[d] \/ Known(f),
         \A d \in Device : \A f \in deviceRadio'[d] : f \in deviceRadio[d] \/ Known(f)
                                                      \/ f \in controllerReply,
         \A i \in V!Proxy : proxyBox'[i].contents \in Stored,
         \A d \in Device : deviceBox'[d].contents \in Stored
  PROVE  KnownInv'
<1>1. Stored' = Stored
  BY DEF Stored, V!Proxy
<1>2. /\ \A f \in controllerReply : Known(f)
      /\ \A f \in controllerRadio : Known(f)
      /\ \A d \in Device : \A f \in deviceReply[d] : Known(f)
      /\ \A d \in Device : \A f \in deviceRadio[d] : Known(f)
  BY KnownFrames
<1>3. \A f : Known(f)' <=> Known(f)
  BY <1>1 DEF Known
<1>4. /\ \A f \in controllerReply' : Known(f)
      /\ \A f \in controllerRadio' : Known(f)
      /\ \A d \in Device : \A f \in deviceReply'[d] : Known(f)
      /\ \A d \in Device : \A f \in deviceRadio'[d] : Known(f)
  BY <1>2
<1>5. /\ \A f \in ToDevices' : Known(f)
      /\ \A f \in ToProxies' : Known(f)
  BY <1>4 DEF ToDevices, ToProxies
<1>6. \A f \in ToDevices' \cup ToProxies' : f.value \in Stored'
  BY <1>1, <1>5 DEF Known, ToDevices, ToProxies
<1> QED
  BY <1>1, <1>6 DEF KnownInv, V!Proxy

LEMMA ControllerKnownInv ==
  ASSUME V!TypeOK, Buffers, MailTypeOK, KnownInv, LoopController
  PROVE  KnownInv'
<1>1. /\ \A i \in V!Proxy : proxyBox[i].contents \in Stored
      /\ \A d \in Device : deviceBox[d].contents \in Stored
      /\ \A f \in controllerRadio : Known(f)
  BY KnownFrames
<1>2. CASE SendReply
  <2>1. PICK f \in controllerReply : Transmit(f)
    BY <1>2 DEF SendReply
  <2>2. \A d \in Device : \A g \in deviceRadio'[d] : g \in deviceRadio[d] \/ g = f
    BY <2>1, TransmitHears
  <2>3. /\ controllerReply' = {}
        /\ UNCHANGED <<controllerRadio, deviceReply, proxyBox, deviceBox, proxyStored, deviceStored>>
    BY <1>2 DEF SendReply
  <2> QED
    BY <1>1, <2>2, <2>3, KnownStays
<1>3. CASE Bind
  <2>1. PICK i \in V!Proxy :
          /\ proxyBox' = [proxyBox EXCEPT ![i] = ResetProxy(@)]
          /\ \E f, a : controllerReply' = {[command |-> "ASSIGN_ADDRESS", boot |-> boots,
                                            hardwareID |-> f, address |-> a]}
    BY <1>3 DEF Bind
  <2>2. \A f \in controllerReply' : Known(f)
    BY <2>1 DEF Known, Command
  <2>3. \A j \in V!Proxy : proxyBox'[j].contents = proxyBox[j].contents
    BY <2>1, BoxOperators, ZeroAssumption DEF MailTypeOK, ResetProxy
  <2>4. /\ controllerRadio' = {}
        /\ UNCHANGED <<deviceReply, deviceRadio, deviceBox, proxyStored, deviceStored>>
    BY <1>3 DEF Bind
  <2> QED
    BY <1>1, <2>2, <2>3, <2>4, KnownStays
<1>4. CASE TakeValue
  <2>1. PICK f \in Only(controllerRadio, Command), i \in V!Proxy :
          /\ proxyBox' = [proxyBox EXCEPT ![i] = IF Contended("master", @) THEN AfterDisregard(@)
                                                 ELSE AfterAccept(@, f.value)]
          /\ controllerReply' = {FromProxy(i, "ACK_VALUE", f.value)}
    BY <1>4 DEF TakeValue
  <2>2. f.value \in Value /\ f.value \in Stored
    BY <1>1, MailIsTyped DEF Mail, Only, Known
  <2>3. \A g \in controllerReply' : Known(g)
    BY <2>1, <2>2 DEF Known, FromProxy
  <2>4. \A j \in V!Proxy : proxyBox'[j].contents \in {proxyBox[j].contents, f.value}
    <3>1. proxyBox[i] \in Mailbox /\ proxyBox \in [V!Proxy -> Mailbox]
      BY DEF MailTypeOK
    <3>2. /\ AfterDisregard(proxyBox[i]).contents = proxyBox[i].contents
          /\ AfterAccept(proxyBox[i], f.value).contents = f.value
      BY <2>2, <3>1, BoxOperators
    <3>3. /\ proxyBox'[i] \in {AfterDisregard(proxyBox[i]), AfterAccept(proxyBox[i], f.value)}
          /\ \A j \in V!Proxy : j # i => proxyBox'[j] = proxyBox[j]
      BY <2>1, <3>1
    <3> QED
      BY <3>2, <3>3
  <2>5. /\ controllerRadio' = {}
        /\ UNCHANGED <<deviceReply, deviceRadio, deviceBox, proxyStored, deviceStored>>
    BY <1>4 DEF TakeValue
  <2> QED
    BY <1>1, <2>2, <2>3, <2>4, <2>5, KnownStays
<1>5. CASE TakeAckOrPoll
  <2>1. /\ \A i \in V!Proxy : proxyBox'[i].contents = proxyBox[i].contents
        /\ \A d \in Device : \A f \in deviceRadio'[d] :
              \/ f \in deviceRadio[d]
              \/ f = [command |-> "BUS_RESET"]
              \/ \E i \in V!Proxy : f.value = proxyBox[i].contents
    BY <1>5, ControllerTurn
  <2>2. \A d \in Device : \A f \in deviceRadio'[d] : f \in deviceRadio[d] \/ Known(f)
    BY <1>1, <2>1 DEF Known, Command
  <2>3. /\ controllerRadio' = {} /\ controllerReply' = controllerReply
        /\ UNCHANGED <<deviceReply, deviceBox, proxyStored, deviceStored>>
    BY <1>5 DEF TakeAckOrPoll
  <2> QED
    BY <1>1, <2>1, <2>2, <2>3, KnownStays
<1> QED
  BY <1>2, <1>3, <1>4, <1>5 DEF LoopController

LEMMA DeviceKnownInv ==
  ASSUME V!TypeOK, Buffers, MailTypeOK, KnownInv, NEW d \in Device, LoopDevice(d)
  PROVE  KnownInv'
<1>1. /\ \A i \in V!Proxy : proxyBox[i].contents \in Stored
      /\ \A e \in Device : deviceBox[e].contents \in Stored
      /\ \A e \in Device : \A f \in deviceRadio[e] : Known(f)
  BY KnownFrames
<1>2. CASE SendDeviceReply(d)
  <2>1. PICK f \in deviceReply[d] : ToController(f)
    BY <1>2 DEF SendDeviceReply
  <2>2. \A g \in controllerRadio' : g \in controllerRadio \/ g = f
    BY <2>1, ToControllerHears
  <2>3. /\ \A e \in Device : deviceReply'[e] \subseteq deviceReply[e]
        /\ UNCHANGED <<controllerReply, deviceRadio, proxyBox, deviceBox, proxyStored, deviceStored>>
    BY <1>2 DEF SendDeviceReply, Buffers
  <2> QED
    BY <1>1, <2>2, <2>3, KnownStays
(* A turn with polling.                                                    *)
<1>3. ASSUME NEW STATE a, NEW STATE m, m \in Mailbox, PollDevice(d, a, m),
             m.contents = deviceBox[d].contents,
             deviceRadio' = [deviceRadio EXCEPT ![d] = {}],
             UNCHANGED <<controllerReply, deviceReply, proxyBox, proxyStored, deviceStored>>
      PROVE  KnownInv'
  <2>1. deviceBox \in [Device -> Mailbox]
    BY DEF MailTypeOK
  <2>2. /\ \A e \in Device : e # d => deviceBox'[e] = deviceBox[e]
        /\ deviceBox'[d].contents = m.contents
        /\ \A f \in controllerRadio' :
              \/ f \in controllerRadio
              \/ f = [command |-> "REQUEST_ADDRESS", device |-> d]
              \/ f.value = m.contents
    BY <1>3, <2>1, PollTurn
  <2>3. \A f \in controllerRadio' : f \in controllerRadio \/ Known(f)
    BY <1>1, <1>3, <2>2 DEF Known, Command
  <2>4. \A e \in Device : deviceBox'[e].contents \in Stored
    BY <1>1, <1>3, <2>2
  <2>5. \A e \in Device : deviceRadio'[e] \subseteq deviceRadio[e]
    BY <1>3 DEF Buffers
  <2> QED
    BY <1>1, <1>3, <2>3, <2>4, <2>5, KnownStays
<1>4. CASE TakeControl(d)
  <2>1. PICK m \in Mailbox : /\ PollDevice(d, address'[d], m)
                             /\ m.contents = deviceBox[d].contents
    BY <1>4, AfterControl
  <2>2. /\ deviceRadio' = [deviceRadio EXCEPT ![d] = {}]
        /\ UNCHANGED <<controllerReply, deviceReply, proxyBox, proxyStored, deviceStored>>
    BY <1>4 DEF TakeControl
  <2> QED
    BY <1>3, <2>1, <2>2
<1>5. CASE TakeDeviceAckOrPoll(d)
  <2>1. PICK m \in Mailbox : /\ PollDevice(d, address[d], m)
                             /\ m.contents = deviceBox[d].contents
    BY <1>5, AckOrNothing
  <2>2. /\ deviceRadio' = [deviceRadio EXCEPT ![d] = {}]
        /\ UNCHANGED <<controllerReply, deviceReply, proxyBox, proxyStored, deviceStored>>
    BY <1>5 DEF TakeDeviceAckOrPoll
  <2> QED
    BY <1>3, <2>1, <2>2
<1>6. CASE TakeDeviceValue(d)
  <2>1. PICK f \in Only(deviceRadio[d], Command) :
          /\ deviceBox' = [deviceBox EXCEPT ![d] = AfterAccept(@, f.value)]
          /\ deviceReply' = [deviceReply EXCEPT ![d] =
                {FromDevice(address[d], "ACK_VALUE", f.value)}]
    BY <1>6 DEF TakeDeviceValue
  <2>2. f.value \in Value /\ f.value \in Stored
    BY <1>1, MailIsTyped DEF Mail, Only, Known
  <2>3. \A e \in Device : \A g \in deviceReply'[e] : g \in deviceReply[e] \/ Known(g)
    <3>1. Known(FromDevice(address[d], "ACK_VALUE", f.value))
      BY <2>2 DEF Known, FromDevice
    <3>2. \A e \in Device : \A g \in deviceReply'[e] :
             g \in deviceReply[e] \/ g = FromDevice(address[d], "ACK_VALUE", f.value)
      BY <2>1 DEF Buffers
    <3> QED
      BY <3>1, <3>2
  <2>4. \A e \in Device : deviceBox'[e].contents \in Stored
    <3>1. deviceBox[d] \in Mailbox /\ deviceBox \in [Device -> Mailbox]
      BY DEF MailTypeOK
    <3>2. AfterAccept(deviceBox[d], f.value).contents = f.value
      BY <2>2, <3>1, BoxOperators
    <3>3. /\ deviceBox'[d] = AfterAccept(deviceBox[d], f.value)
          /\ \A e \in Device : e # d => deviceBox'[e] = deviceBox[e]
      BY <2>1, <3>1
    <3> QED
      BY <1>1, <2>2, <3>2, <3>3
  <2>5. /\ \A e \in Device : deviceRadio'[e] \subseteq deviceRadio[e]
        /\ UNCHANGED <<controllerReply, controllerRadio, proxyBox, proxyStored, deviceStored>>
    BY <1>6 DEF TakeDeviceValue, Buffers
  <2> QED
    BY <1>1, <2>3, <2>4, <2>5, KnownStays
<1> QED
  BY <1>2, <1>4, <1>5, <1>6 DEF LoopDevice

LEMMA NextKnownInv ==
  ASSUME V!TypeOK, Buffers, MailTypeOK, KnownInv, [Next]_vars
  PROVE  KnownInv'
<1>1. /\ \A i \in V!Proxy : proxyBox[i].contents \in Stored
      /\ \A d \in Device : deviceBox[d].contents \in Stored
      /\ Zero \in Stored
  BY KnownFrames DEF Stored
<1>2. CASE RestartController
  <2>1. /\ \A i \in V!Proxy : proxyBox'[i].contents = Zero
        /\ controllerReply' = {} /\ controllerRadio' = {}
        /\ UNCHANGED <<deviceReply, deviceRadio, deviceBox, proxyStored, deviceStored>>
    BY <1>2, NewMailboxType DEF RestartController
  <2> QED
    BY <1>1, <2>1, KnownStays
<1>3. ASSUME NEW d \in Device, RestartDevice(d)
      PROVE  KnownInv'
  <2>1. \A e \in Device : deviceBox'[e].contents \in {Zero, deviceBox[e].contents}
    BY <1>3, NewMailboxType DEF RestartDevice, MailTypeOK
  <2>2. /\ \A e \in Device : /\ deviceReply'[e] \subseteq deviceReply[e]
                             /\ deviceRadio'[e] \subseteq deviceRadio[e]
        /\ UNCHANGED <<controllerReply, controllerRadio, proxyBox, proxyStored, deviceStored>>
    BY <1>3 DEF RestartDevice, Buffers
  <2> QED
    BY <1>1, <2>1, <2>2, KnownStays
<1>4. CASE \/ \E i \in V!Proxy : ElapseProxy(i)
           \/ \E d \in Device : ElapseDevice(d) \/ ElapsePolling(d)
           \/ UNCHANGED vars
  <2>1. UNCHANGED <<controllerReply, controllerRadio, deviceReply, deviceRadio, proxyStored,
                    deviceStored>>
    BY <1>4 DEF ElapseProxy, ElapseDevice, ElapsePolling, vars
  <2>2. /\ \A i \in V!Proxy : proxyBox'[i].contents = proxyBox[i].contents
        /\ \A d \in Device : deviceBox'[d].contents = deviceBox[d].contents
    BY <1>4, TimeKeeps
  <2> QED
    BY <1>1, <2>1, <2>2, KnownStays
(* A value that is stored is known from then on.                           *)
<1>5. ASSUME Stored \subseteq Stored',
             UNCHANGED <<controllerReply, controllerRadio, deviceReply, deviceRadio>>,
             \A i \in V!Proxy : proxyBox'[i].contents \in Stored',
             \A d \in Device : deviceBox'[d].contents \in Stored'
      PROVE  KnownInv'
  <2>1. ToDevices' = ToDevices /\ ToProxies' = ToProxies
    BY <1>5 DEF ToDevices, ToProxies
  <2> QED
    BY <1>5, <2>1 DEF KnownInv, V!Proxy
<1>6. ASSUME NEW i \in V!Proxy, NEW v \in Value, SetProxy(i, v)
      PROVE  KnownInv'
  <2>1. /\ proxyBox' = [proxyBox EXCEPT ![i] = SetLong(@, v)]
        /\ proxyStored' = [proxyStored EXCEPT ![i] = @ \cup {v}]
        /\ UNCHANGED <<controllerReply, controllerRadio, deviceReply, deviceRadio, deviceBox,
                       deviceStored>>
    BY <1>6 DEF SetProxy
  <2>2. v \in proxyStored'[i] /\ \A j \in V!Proxy : proxyStored[j] \subseteq proxyStored'[j]
    BY <2>1 DEF MailTypeOK
  <2>3. Stored \subseteq Stored' /\ v \in Stored'
    BY <2>1, <2>2 DEF Stored, V!Proxy
  <2>4. \A j \in V!Proxy : proxyBox'[j].contents \in {v, proxyBox[j].contents}
    <3>1. proxyBox[i] \in Mailbox /\ proxyBox \in [V!Proxy -> Mailbox]
      BY DEF MailTypeOK
    <3> QED
      BY <2>1, <3>1, BoxOperators
  <2> QED
    BY <1>1, <1>5, <2>1, <2>3, <2>4
<1>7. ASSUME NEW d \in Device, NEW v \in Value, SetDevice(d, v)
      PROVE  KnownInv'
  <2>1. /\ deviceBox' = [deviceBox EXCEPT ![d] = SetLong(@, v)]
        /\ deviceStored' = [deviceStored EXCEPT ![d] = @ \cup {v}]
        /\ UNCHANGED <<controllerReply, controllerRadio, deviceReply, deviceRadio, proxyBox,
                       proxyStored>>
    BY <1>7 DEF SetDevice
  <2>2. v \in deviceStored'[d] /\ \A e \in Device : deviceStored[e] \subseteq deviceStored'[e]
    BY <2>1 DEF MailTypeOK
  <2>3. Stored \subseteq Stored' /\ v \in Stored'
    BY <2>1, <2>2 DEF Stored, V!Proxy
  <2>4. \A e \in Device : deviceBox'[e].contents \in {v, deviceBox[e].contents}
    <3>1. deviceBox[d] \in Mailbox /\ deviceBox \in [Device -> Mailbox]
      BY DEF MailTypeOK
    <3> QED
      BY <2>1, <3>1, BoxOperators
  <2> QED
    BY <1>1, <1>5, <2>1, <2>3, <2>4
<1> QED
  BY <1>2, <1>3, <1>4, <1>6, <1>7, ControllerKnownInv, DeviceKnownInv DEF Next

-------------------------------------------------------------------------------
(* Devices that are being connected have nothing to do with values.        *)

LEMMA InitCalm == Init => ReplyInv /\ Calm
BY DEF Init, ReplyInv, Calm

LEMMA CalmStays ==
  ASSUME ReplyInv, Calm,
         \A d \in Device :
            \/ deviceReply'[d] = {} /\ deviceRadio'[d] = {}
            \/ /\ address'[d] = address[d] /\ deviceReply'[d] \subseteq deviceReply[d]
               /\ Asking(d)' \/ Assigning(d)' =>
                     /\ Asking(d) \/ Assigning(d)
                     /\ \A f \in deviceRadio'[d] : IsValue(f) => f \in deviceRadio[d]
  PROVE  ReplyInv' /\ Calm'
<1>1. ReplyInv'
  BY DEF ReplyInv
<1>2. ASSUME NEW d \in Device, Asking(d)' \/ Assigning(d)'
      PROVE  deviceReply'[d] = {} /\ \A f \in deviceRadio'[d] : ~IsValue(f)
  <2>1. CASE deviceReply'[d] = {} /\ deviceRadio'[d] = {}
    BY <2>1
  <2>2. CASE /\ Asking(d) \/ Assigning(d)
             /\ deviceReply'[d] \subseteq deviceReply[d]
             /\ \A f \in deviceRadio'[d] : IsValue(f) => f \in deviceRadio[d]
    BY <2>2 DEF Calm
  <2> QED
    BY <1>2, <2>1, <2>2
<1> QED
  BY <1>1, <1>2 DEF Calm

LEMMA ControllerCalm ==
  ASSUME VP!DistinctIDs, V!TypeOK, Buffers, Buffers', MailTypeOK, ReplyInv, Calm, LoopController
  PROVE  ReplyInv' /\ Calm'
<1>1. CASE SendReply
  <2>1. PICK f \in controllerReply : Transmit(f)
    BY <1>1 DEF SendReply
  <2>2. \A d \in Device : \A g \in deviceRadio'[d] : g \in deviceRadio[d] \/ g = f
    BY <2>1, TransmitHears
  <2>3. ~IsValue(f)
    BY DEF Buffers, IsValue
  <2>4. controllerReply' = {} /\ UNCHANGED <<address, controllerRadio, deviceReply>>
    BY <1>1 DEF SendReply, membership
  <2>5. \A d \in Device : /\ Asking(d)' => Asking(d)
                          /\ Assigning(d)' => Assigning(d)
    BY <2>2, <2>4 DEF Asking, Assigning, AssignFor
  <2> QED
    BY <2>2, <2>3, <2>4, <2>5, CalmStays
<1>2. CASE Bind
  <2>1. PICK d \in Device : /\ Asking(d)
                            /\ \A f \in controllerReply' : f.hardwareID = HardwareID[d]
    BY <1>2, BindsOne
  <2>2. controllerRadio' = {} /\ UNCHANGED <<address, deviceReply, deviceRadio>>
    BY <1>2 DEF Bind, membership
  <2>3. ASSUME NEW e \in Device, Asking(e)' \/ Assigning(e)'
        PROVE  Asking(e) \/ Assigning(e)
    <3>1. PICK f \in controllerReply' \cup deviceRadio[e] : AssignFor(e, f)
      BY <2>2, <2>3 DEF Asking, Assigning, AssignFor
    <3>2. CASE f \in deviceRadio[e]
      BY <3>1, <3>2 DEF Assigning
    <3>3. CASE f \in controllerReply'
      <4>1. e = d
        BY <2>1, <3>1, <3>3 DEF AssignFor, VP!DistinctIDs
      <4> QED
        BY <2>1, <4>1
    <3> QED
      BY <3>1, <3>2, <3>3
  <2> QED
    BY <2>2, <2>3, CalmStays
<1>3. CASE TakeValue
  <2>1. /\ \A f \in controllerReply' : f.command = "ACK_VALUE"
        /\ controllerRadio' = {} /\ UNCHANGED <<address, deviceReply, deviceRadio>>
    BY <1>3 DEF TakeValue, FromProxy, membership
  <2>2. \A d \in Device : Asking(d)' \/ Assigning(d)' => Assigning(d)
    BY <2>1 DEF Asking, Assigning, AssignFor
  <2> QED
    BY <2>1, <2>2, CalmStays
<1>4. CASE TakeAckOrPoll
  <2>1. controllerReply' = {} /\ controllerRadio' = {} /\ UNCHANGED <<address, deviceReply>>
    BY <1>4 DEF TakeAckOrPoll, membership
  <2>2. \A d \in Device : \A f \in deviceRadio'[d] :
           f \in deviceRadio[d] \/ f = [command |-> "BUS_RESET"] \/ IsValue(f)
    BY <1>4, ControllerTurn
  <2>3. ASSUME NEW d \in Device, Asking(d)' \/ Assigning(d)'
        PROVE  /\ Assigning(d)
               /\ \A f \in deviceRadio'[d] : ~IsValue(f)
    <3>1. PICK f \in deviceRadio'[d] : f.command = "ASSIGN_ADDRESS" /\ AssignFor(d, f)
      BY <2>1, <2>3 DEF Asking, Assigning, AssignFor
    <3>2. ~IsValue(f) /\ f # [command |-> "BUS_RESET"]
      BY <3>1 DEF IsValue
    <3>3. f \in deviceRadio[d]
      BY <2>2, <3>2
    <3>4. \A g \in deviceRadio'[d] : g = f
      BY DEF Buffers
    <3> QED
      BY <3>1, <3>2, <3>3, <3>4 DEF Assigning
  <2> QED
    BY <2>1, <2>3, CalmStays
<1> QED
  BY <1>1, <1>2, <1>3, <1>4 DEF LoopController

(* Device d leaves its buffers empty, or sends its reply; whatever else it *)
(* sends, it asks for no other device.                                     *)
LEMMA DeviceCalm ==
  ASSUME V!TypeOK, Buffers, MailTypeOK, ReplyInv, Calm, NEW d \in Device, LoopDevice(d)
  PROVE  ReplyInv' /\ Calm'
<1>1. CASE SendDeviceReply(d)
  <2>1. PICK f \in deviceReply[d] : ToController(f)
    BY <1>1 DEF SendDeviceReply
  <2>2. \A g \in controllerRadio' : g \in controllerRadio \/ g = f
    BY <2>1, ToControllerHears
  <2>3. f.command = "ACK_VALUE"
    BY DEF Buffers
  <2>4. /\ \A e \in Device : deviceReply'[e] \subseteq deviceReply[e]
        /\ UNCHANGED <<address, controllerReply, deviceRadio>>
    BY <1>1 DEF SendDeviceReply, Buffers, membership
  <2>5. \A e \in Device : /\ Asking(e)' => Asking(e)
                          /\ Assigning(e)' => Assigning(e)
    BY <2>2, <2>3, <2>4 DEF Asking, Assigning
  <2> QED
    BY <2>4, <2>5, CalmStays
<1>2. ASSUME NEW STATE a, NEW STATE m, m \in Mailbox, PollDevice(d, a, m),
             \A e \in Device : e # d => address'[e] = address[e],
             deviceRadio' = [deviceRadio EXCEPT ![d] = {}],
             deviceReply[d] = {}, UNCHANGED <<controllerReply, deviceReply>>
      PROVE  ReplyInv' /\ Calm'
  <2>1. deviceBox \in [Device -> Mailbox]
    BY DEF MailTypeOK
  <2>2. \A f \in controllerRadio' :
           \/ f \in controllerRadio
           \/ f = [command |-> "REQUEST_ADDRESS", device |-> d]
           \/ IsValue(f)
    BY <1>2, <2>1, PollTurn
  <2>3. \A e \in Device : deviceRadio'[e] = IF e = d THEN {} ELSE deviceRadio[e]
    BY <1>2 DEF Buffers
  <2>4. ASSUME NEW e \in Device, e # d
        PROVE  /\ Asking(e)' => Asking(e)
               /\ Assigning(e)' => Assigning(e)
    BY <1>2, <2>2, <2>3, <2>4 DEF Asking, Assigning, IsValue
  <2>5. \A e \in Device :
            \/ deviceReply'[e] = {} /\ deviceRadio'[e] = {}
            \/ /\ address'[e] = address[e] /\ deviceReply'[e] \subseteq deviceReply[e]
               /\ Asking(e)' \/ Assigning(e)' =>
                     /\ Asking(e) \/ Assigning(e)
                     /\ \A f \in deviceRadio'[e] : IsValue(f) => f \in deviceRadio[e]
    BY <1>2, <2>3, <2>4
  <2> QED
    BY <2>5, CalmStays
<1>3. CASE TakeControl(d)
  <2>1. PICK m \in Mailbox : /\ PollDevice(d, address'[d], m)
                             /\ address' = [address EXCEPT ![d] = address'[d]]
    BY <1>3, AfterControl
  <2>2. /\ deviceRadio' = [deviceRadio EXCEPT ![d] = {}] /\ deviceReply[d] = {}
        /\ UNCHANGED <<controllerReply, deviceReply>>
    BY <1>3 DEF TakeControl
  <2>3. \A e \in Device : e # d => address'[e] = address[e]
    BY <2>1 DEF V!TypeOK
  <2> QED
    BY <1>2, <2>1, <2>2, <2>3
<1>4. CASE TakeDeviceAckOrPoll(d)
  <2>1. PICK m \in Mailbox : PollDevice(d, address[d], m)
    BY <1>4, AckOrNothing
  <2>2. /\ deviceRadio' = [deviceRadio EXCEPT ![d] = {}] /\ deviceReply[d] = {}
        /\ UNCHANGED <<address, controllerReply, deviceReply>>
    BY <1>4 DEF TakeDeviceAckOrPoll
  <2> QED
    BY <1>2, <2>1, <2>2
(* A device that takes a value was not being connected.                    *)
<1>5. CASE TakeDeviceValue(d)
  <2>1. PICK f \in deviceRadio[d] :
          /\ IsValue(f) /\ ForMe(d, f)
          /\ deviceReply' = [deviceReply EXCEPT ![d] = {FromDevice(address[d], "ACK_VALUE", f.value)}]
    BY <1>5 DEF TakeDeviceValue, Only
  <2>2. /\ deviceRadio' = [deviceRadio EXCEPT ![d] = {}]
        /\ UNCHANGED <<address, controllerReply, controllerRadio>>
    BY <1>5 DEF TakeDeviceValue, membership
  <2>3. \A e \in Device :
           /\ deviceRadio'[e] = IF e = d THEN {} ELSE deviceRadio[e]
           /\ deviceReply'[e] = IF e = d THEN {FromDevice(address[d], "ACK_VALUE", f.value)}
                                ELSE deviceReply[e]
    BY <2>1, <2>2 DEF Buffers
  <2>4. ReplyInv'
    BY <2>1, <2>2, <2>3 DEF ReplyInv, FromDevice, ForMe
  <2>5. ~Asking(d) /\ ~Assigning(d)
    BY <2>1 DEF Calm
  <2>6. \A e \in Device : /\ Asking(e)' => Asking(e)
                          /\ Assigning(e)' => Assigning(e)
    BY <2>2, <2>3 DEF Asking, Assigning
  <2>7. Calm'
    BY <2>3, <2>5, <2>6 DEF Calm
  <2> QED
    BY <2>4, <2>7
<1> QED
  BY <1>1, <1>3, <1>4, <1>5 DEF LoopDevice

LEMMA NextCalm ==
  ASSUME VP!DistinctIDs, V!TypeOK, Buffers, Buffers', MailTypeOK, ReplyInv, Calm, [Next]_vars
  PROVE  ReplyInv' /\ Calm'
<1>1. CASE RestartController
  <2>1. /\ controllerReply' = {} /\ controllerRadio' = {}
        /\ UNCHANGED <<address, deviceReply, deviceRadio>>
    BY <1>1 DEF RestartController, membership
  <2>2. \A d \in Device : Asking(d)' \/ Assigning(d)' => Assigning(d)
    BY <2>1 DEF Asking, Assigning
  <2> QED
    BY <2>1, <2>2, CalmStays
<1>2. ASSUME NEW d \in Device, RestartDevice(d)
      PROVE  ReplyInv' /\ Calm'
  <2>1. UNCHANGED <<controllerReply, controllerRadio>>
    BY <1>2 DEF RestartDevice
  <2>2. /\ deviceReply'[d] = {} /\ deviceRadio'[d] = {}
        /\ \A e \in Device : e # d => /\ address'[e] = address[e]
                                      /\ deviceReply'[e] = deviceReply[e]
                                      /\ deviceRadio'[e] = deviceRadio[e]
    BY <1>2 DEF RestartDevice, Buffers, V!TypeOK
  <2>3. \A e \in Device : e # d => /\ Asking(e)' => Asking(e)
                                   /\ Assigning(e)' => Assigning(e)
    BY <2>1, <2>2 DEF Asking, Assigning
  <2>4. \A e \in Device :
            \/ deviceReply'[e] = {} /\ deviceRadio'[e] = {}
            \/ /\ address'[e] = address[e] /\ deviceReply'[e] \subseteq deviceReply[e]
               /\ Asking(e)' \/ Assigning(e)' =>
                     /\ Asking(e) \/ Assigning(e)
                     /\ \A f \in deviceRadio'[e] : IsValue(f) => f \in deviceRadio[e]
    BY <2>2, <2>3
  <2> QED
    BY <2>4, CalmStays
<1>3. ASSUME UNCHANGED <<address, controllerReply, controllerRadio, deviceReply, deviceRadio>>
      PROVE  ReplyInv' /\ Calm'
  BY <1>3, CalmStays DEF Asking, Assigning
<1>4. CASE \/ \E i \in V!Proxy : ElapseProxy(i) \/ \E v \in Value : SetProxy(i, v)
           \/ \E d \in Device : ElapseDevice(d) \/ ElapsePolling(d) \/ \E v \in Value : SetDevice(d, v)
           \/ UNCHANGED vars
  BY <1>3, <1>4 DEF ElapseProxy, SetProxy, ElapseDevice, ElapsePolling, SetDevice, vars, membership
<1> QED
  BY <1>1, <1>2, <1>4, ControllerCalm, DeviceCalm DEF Next

-------------------------------------------------------------------------------
(* The invariant implies the property.                                     *)

LEMMA InitAckInv == Init => AckInv
<1> SUFFICES ASSUME Init PROVE AckInv
  OBVIOUS
<1>1. \A i \in V!Proxy : ~connectedDevice[i].connected
  BY DEF Init, V!NoDevice
<1> QED
  BY <1>1 DEF AckInv, Pushed, Unsent, HeldInv, Member, Serves

LEMMA AckInvMeans == AckInv => ConfigurationIsHeld
<1> SUFFICES ASSUME AckInv, NEW d \in Device, NEW i \in V!Proxy, Connected(d, i),
                    proxyBox[i].callerChanged, proxyBox[i].synchronized
             PROVE  deviceBox[d].contents = proxyBox[i].contents \/ ~deviceBox[d].synchronized
  BY DEF ConfigurationIsHeld
<1>1. Member(d, i)
  BY DEF Connected, Member, Serves
<1>2. Acked(i)
  BY DEF Acked
<1>3. \/ deviceBox[d].contents = proxyBox[i].contents
      \/ deviceBox[d].callerChanged /\ ~Settled(d)
  BY <1>1, <1>2 DEF AckInv, HeldInv
<1> QED
  BY <1>3 DEF Settled

(* As long as no device still has, of an earlier power-on of the           *)
(* controller, an address that is in use again, a connected device holds   *)
(* the configuration that its controller regards as delivered: through     *)
(* lost frames, late acknowledgements, repeated bindings and power cycles, *)
(* for any devices and proxies (Mailbox.h 39-41).                          *)
THEOREM RecoveryWithoutOldAddresses ==
  ASSUME VP!EnoughAddresses, VP!DistinctIDs
  PROVE  Spec /\ []NoOldAddress => []ConfigurationIsHeld
<1> DEFINE Typed == V!TypeOK /\ Buffers /\ MailTypeOK
           I == KnownInv /\ ReplyInv /\ Calm /\ AckInv
<1>1. Spec => []Typed
  BY VendingIsTyped, BuffersHold, MailIsTypedAlways, PTL
<1>2. Typed /\ VP!IndInv /\ NoOldAddress => Wired
  BY WiredHolds
<1>3. Init => I
  BY InitKnownInv, InitCalm, InitAckInv
<1>4. Typed /\ Typed' /\ Wired /\ Wired' /\ I /\ [Next]_vars => I'
  BY NextKnownInv, NextCalm, NextAckInv
<1>5. I => ConfigurationIsHeld
  BY AckInvMeans
<1> QED
  BY <1>1, <1>2, <1>3, <1>4, <1>5, VendingInvariantHolds, PTL DEF Spec

-------------------------------------------------------------------------------
(* No old addresses.                                                       *)

(* Device d has, or is about to take, an address of an earlier power-on.   *)
Old(d) == \/ address[d] # Unassigned /\ joined[d] # boots
          \/ \E f \in deviceRadio[d] : AssignFor(d, f) /\ f.boot # boots

(* It does not ask the present power-on for one, which has not bound it.   *)
OldInv == /\ \A d \in Device : Old(d) => ~Asking(d) /\ \A i \in V!Proxy : ~Serves(i, d)
          /\ \A f \in controllerReply : f.command = "ASSIGN_ADDRESS" => f.boot = boots
          /\ \A i \in V!Proxy : connectedDevice[i].connected => \E d \in Device : Serves(i, d)

LEMMA InitOldInv == Init => OldInv
BY DEF Init, OldInv, Old, V!NoDevice

(* A step that does not bind or make an address old.                       *)
LEMMA OldStays ==
  ASSUME OldInv, UNCHANGED <<connectedDevice, boots>>,
         \A d \in Device : \/ ~Old(d)'
                           \/ (Old(d)' => Old(d)) /\ (Asking(d)' => Asking(d)),
         \A f \in controllerReply' : f.command = "ASSIGN_ADDRESS" => f \in controllerReply
  PROVE  OldInv'
<1>1. \A d \in Device, i \in V!Proxy : Serves(i, d)' <=> Serves(i, d)
  BY DEF Serves
<1> QED
  BY <1>1 DEF OldInv, V!Proxy

(* The radio of device d is empty after the step.                          *)
LEMMA OldDevice ==
  ASSUME Buffers, MailTypeOK, OldInv, NEW d \in Device,
         UNCHANGED <<connectedDevice, boots, controllerReply>>,
         \A e \in Device : e # d => /\ address'[e] = address[e] /\ joined'[e] = joined[e]
                                    /\ deviceRadio'[e] = deviceRadio[e]
                                    /\ Asking(e)' => Asking(e),
         deviceRadio'[d] = {},
         \/ address'[d] = Unassigned \/ joined'[d] = boots
         \/ (Old(d)' => Old(d)) /\ (Asking(d)' => Asking(d))
  PROVE  OldInv'
<1>1. \A e \in Device : e # d => (Old(e)' => Old(e))
  BY DEF Old, AssignFor
<1>2. address'[d] = Unassigned \/ joined'[d] = boots => ~Old(d)'
  BY DEF Old
<1>3. \A e \in Device : \/ ~Old(e)'
                        \/ (Old(e)' => Old(e)) /\ (Asking(e)' => Asking(e))
  BY <1>1, <1>2
<1> QED
  BY <1>3, OldStays

LEMMA DeviceOldInv ==
  ASSUME V!TypeOK, Buffers, MailTypeOK, OldInv, NEW d \in Device, LoopDevice(d) \/ RestartDevice(d)
  PROVE  OldInv'
<1>1. CASE SendDeviceReply(d)
  <2>1. PICK f \in deviceReply[d] : ToController(f)
    BY <1>1 DEF SendDeviceReply
  <2>2. \A g \in controllerRadio' : g \in controllerRadio \/ g = f
    BY <2>1, ToControllerHears
  <2>3. f.command = "ACK_VALUE"
    BY DEF Buffers
  <2>4. UNCHANGED <<connectedDevice, boots, address, joined, controllerReply, deviceRadio>>
    BY <1>1 DEF SendDeviceReply, vending, membership
  <2>5. \A e \in Device : (Old(e)' => Old(e)) /\ (Asking(e)' => Asking(e))
    BY <2>2, <2>3, <2>4 DEF Old, AssignFor, Asking
  <2> QED
    BY <2>4, <2>5, OldStays
(* A turn with polling.                                                    *)
<1>2. ASSUME NEW STATE a, NEW STATE m, m \in Mailbox, PollDevice(d, a, m)
      PROVE  /\ \A e \in Device : e # d => (Asking(e)' => Asking(e))
             /\ a # Unassigned => (Asking(d)' => Asking(d))
  <2>1. deviceBox \in [Device -> Mailbox]
    BY DEF MailTypeOK
  <2>2. \A f \in controllerRadio' :
           \/ f \in controllerRadio
           \/ a = Unassigned /\ f = [command |-> "REQUEST_ADDRESS", device |-> d]
           \/ IsValue(f)
    BY <1>2, <2>1, PollTurn
  <2> QED
    BY <2>2 DEF Asking, IsValue
<1>3. CASE TakeControl(d)
  <2>1. PICK f \in deviceRadio[d], m \in Mailbox :
          /\ f.command \in {"ASSIGN_ADDRESS", "BUS_RESET"}
          /\ PollDevice(d, address'[d], m)
          /\ address' = [address EXCEPT ![d] = address'[d]]
          /\ \/ AssignFor(d, f)
                /\ address'[d] = f.address /\ joined' = [joined EXCEPT ![d] = f.boot]
             \/ address'[d] = Unassigned /\ joined' = joined
             \/ address' = address /\ joined' = joined
    BY <1>3, AfterControl
  <2>2. /\ UNCHANGED <<connectedDevice, boots, controllerReply>>
        /\ deviceRadio' = [deviceRadio EXCEPT ![d] = {}]
    BY <1>3 DEF TakeControl, vending
  <2>3. \A e \in Device : /\ deviceRadio'[e] = IF e = d THEN {} ELSE deviceRadio[e]
                          /\ e # d => /\ address'[e] = address[e] /\ joined'[e] = joined[e]
                                      /\ Asking(e)' => Asking(e)
    BY <1>2, <2>1, <2>2 DEF Buffers, V!TypeOK
  <2>4. address'[d] # Unassigned => (Asking(d)' => Asking(d))
    BY <1>2, <2>1
  <2>5. CASE AssignFor(d, f) /\ joined' = [joined EXCEPT ![d] = f.boot]
    <3>1. joined'[d] = f.boot
      BY <2>5 DEF V!TypeOK
    <3>2. f.boot # boots => Old(d)
      BY <2>5 DEF Old
    <3> QED
      BY <2>2, <2>3, <2>4, <3>1, <3>2, OldDevice
  <2>6. CASE address'[d] = Unassigned
    BY <2>2, <2>3, <2>6, OldDevice
  <2>7. CASE address' = address /\ joined' = joined
    <3>1. Old(d)' => Old(d)
      BY <2>2, <2>3, <2>7 DEF Old
    <3> QED
      BY <2>2, <2>3, <2>4, <3>1, OldDevice
  <2> QED
    BY <2>1, <2>5, <2>6, <2>7
<1>4. CASE TakeDeviceAckOrPoll(d)
  <2>1. PICK m \in Mailbox : PollDevice(d, address[d], m)
    BY <1>4, AckOrNothing
  <2>2. /\ UNCHANGED <<connectedDevice, boots, address, joined, controllerReply>>
        /\ deviceRadio' = [deviceRadio EXCEPT ![d] = {}]
    BY <1>4 DEF TakeDeviceAckOrPoll, vending
  <2>3. \A e \in Device : /\ deviceRadio'[e] = IF e = d THEN {} ELSE deviceRadio[e]
                          /\ e # d => (Asking(e)' => Asking(e))
    BY <1>2, <2>1, <2>2 DEF Buffers
  <2>4. address[d] # Unassigned => (Asking(d)' => Asking(d))
    BY <1>2, <2>1
  <2>5. Old(d)' => Old(d)
    BY <2>2, <2>3 DEF Old
  <2> QED
    BY <2>2, <2>3, <2>4, <2>5, OldDevice
<1>5. CASE TakeDeviceValue(d) \/ RestartDevice(d)
  <2>1. /\ UNCHANGED <<connectedDevice, boots, joined, controllerReply, controllerRadio>>
        /\ deviceRadio' = [deviceRadio EXCEPT ![d] = {}]
        /\ address' = address \/ address' = [address EXCEPT ![d] = Unassigned]
    BY <1>5 DEF TakeDeviceValue, RestartDevice, vending, membership
  <2>2. \A e \in Device : /\ deviceRadio'[e] = IF e = d THEN {} ELSE deviceRadio[e]
                          /\ e # d => address'[e] = address[e]
                          /\ Asking(e)' => Asking(e)
    BY <2>1 DEF Buffers, V!TypeOK, Asking
  <2>3. address'[d] = Unassigned \/ (Old(d)' => Old(d))
    BY <2>1, <2>2 DEF Old, V!TypeOK
  <2> QED
    BY <2>1, <2>2, <2>3, OldDevice
<1> QED
  BY <1>1, <1>3, <1>4, <1>5 DEF LoopDevice

LEMMA ControllerOldInv ==
  ASSUME VP!DistinctIDs, V!TypeOK, Buffers, MailTypeOK, OldInv, LoopController
  PROVE  OldInv'
<1>1. CASE SendReply
  <2>1. PICK f \in controllerReply : Transmit(f)
    BY <1>1 DEF SendReply
  <2>2. \A d \in Device : \A g \in deviceRadio'[d] : g \in deviceRadio[d] \/ g = f
    BY <2>1, TransmitHears
  <2>3. /\ controllerReply' = {}
        /\ UNCHANGED <<connectedDevice, boots, address, joined, controllerRadio>>
    BY <1>1 DEF SendReply, vending, membership
  <2>4. f.command = "ASSIGN_ADDRESS" => f.boot = boots
    BY DEF OldInv
  <2>5. \A d \in Device : (Old(d)' => Old(d)) /\ (Asking(d)' => Asking(d))
    BY <2>2, <2>3, <2>4 DEF Old, AssignFor, Asking
  <2> QED
    BY <2>3, <2>5, OldStays
(* Who asks has no old address.                                            *)
<1>2. CASE Bind
  <2>1. PICK d \in Device, i \in V!Proxy :
          /\ Asking(d)
          /\ connectedDevice'[i].connected /\ connectedDevice'[i].hardwareID = HardwareID[d]
          /\ \A j \in V!Proxy : j # i => connectedDevice'[j] = connectedDevice[j]
          /\ \A f \in controllerReply' : f.boot = boots
    BY <1>2, BindsOne
  <2>2. /\ controllerRadio' = {}
        /\ UNCHANGED <<boots, address, joined, deviceRadio>>
    BY <1>2 DEF Bind, membership
  <2>3. \A e \in Device : (Old(e)' <=> Old(e)) /\ ~Asking(e)'
    BY <2>2 DEF Old, AssignFor, Asking
  <2>4. ASSUME NEW e \in Device, Old(e), NEW j \in V!Proxy, Serves(j, e)'
        PROVE  FALSE
    <3>1. e # d
      BY <2>1, <2>4 DEF OldInv
    <3>2. j # i
      BY <2>1, <2>4, <3>1 DEF Serves, VP!DistinctIDs
    <3> QED
      BY <2>1, <2>4, <3>2 DEF Serves, OldInv
  <2>5. ASSUME NEW j \in V!Proxy, connectedDevice'[j].connected
        PROVE  \E e \in Device : Serves(j, e)'
    BY <2>1, <2>5 DEF Serves, OldInv
  <2> QED
    BY <2>1, <2>2, <2>3, <2>4, <2>5 DEF OldInv, V!Proxy
<1>3. CASE TakeValue
  <2>1. /\ \A f \in controllerReply' : f.command = "ACK_VALUE"
        /\ controllerRadio' = {}
        /\ UNCHANGED <<connectedDevice, boots, address, joined, deviceRadio>>
    BY <1>3 DEF TakeValue, FromProxy, vending, membership
  <2>2. \A d \in Device : (Old(d)' => Old(d)) /\ ~Asking(d)'
    BY <2>1 DEF Old, AssignFor, Asking
  <2> QED
    BY <2>1, <2>2, OldStays
<1>4. CASE TakeAckOrPoll
  <2>1. /\ controllerReply' = {} /\ controllerRadio' = {}
        /\ UNCHANGED <<connectedDevice, boots, address, joined>>
    BY <1>4 DEF TakeAckOrPoll, membership
  <2>2. \A d \in Device : \A f \in deviceRadio'[d] :
           f \in deviceRadio[d] \/ f = [command |-> "BUS_RESET"] \/ IsValue(f)
    BY <1>4, ControllerTurn
  <2>3. \A d \in Device : (Old(d)' => Old(d)) /\ ~Asking(d)'
    BY <2>1, <2>2 DEF Old, AssignFor, Asking, IsValue
  <2> QED
    BY <2>1, <2>3, OldStays
<1> QED
  BY <1>1, <1>2, <1>3, <1>4 DEF LoopController

LEMMA NextOldInv ==
  ASSUME VP!DistinctIDs, V!TypeOK, Buffers, MailTypeOK, OldInv, [Next]_vars
  PROVE  OldInv'
<1>1. CASE RestartController
  <2>1. /\ controllerReply' = {} /\ controllerRadio' = {}
        /\ \A i \in V!Proxy : ~connectedDevice'[i].connected
    BY <1>1 DEF RestartController, V!NoDevice
  <2> QED
    BY <2>1 DEF OldInv, Asking, Serves, V!Proxy
<1>2. CASE \/ \E i \in V!Proxy : ElapseProxy(i) \/ \E v \in Value : SetProxy(i, v)
           \/ \E d \in Device : ElapseDevice(d) \/ ElapsePolling(d) \/ \E v \in Value : SetDevice(d, v)
           \/ UNCHANGED vars
  <2>1. UNCHANGED <<connectedDevice, boots, address, joined, controllerReply, controllerRadio,
                    deviceRadio>>
    BY <1>2 DEF ElapseProxy, SetProxy, ElapseDevice, ElapsePolling, SetDevice, vars, vending,
       membership
  <2>2. \A d \in Device : (Old(d)' => Old(d)) /\ (Asking(d)' => Asking(d))
    BY <2>1 DEF Old, Asking
  <2> QED
    BY <2>1, <2>2, OldStays
<1> QED
  BY <1>1, <1>2, ControllerOldInv, DeviceOldInv DEF Next

LEMMA OldInvMeans ==
  ASSUME MaxBoots = 1 \/ \A d, e \in Device : d = e, V!TypeOK, VP!IndInv, OldInv
  PROVE  NoOldAddress
<1> SUFFICES ASSUME NEW d \in Device, NEW i \in V!Proxy, connectedDevice[i].connected,
                    address[d] = connectedDevice[i].address, joined[d] # boots
             PROVE  FALSE
  BY DEF NoOldAddress
<1>1. V!Proxy = VP!Proxy /\ Unassigned = VP!ADDR_UNASSIGNED
  BY DEF V!Proxy, VP!Proxy, Unassigned, V!ADDR_UNASSIGNED, VP!ADDR_UNASSIGNED
<1>2. address[d] # Unassigned
  BY <1>1 DEF VP!IndInv, VP!ProxiesDisjoint, VP!FirstAddress, VP!ADDR_UNASSIGNED
<1>3. CASE MaxBoots = 1
  <2>1. VP!Holding(d) \in VP!Assignments
    BY <1>1, <1>2 DEF VP!Assignments, VP!Assigned
  <2>2. VP!Holding(d).boot \in 1..boots
    BY <2>1 DEF VP!IndInv, VP!AssignmentInv
  <2>3. boots = 1 /\ joined[d] \in 1..boots
    BY <1>3, <2>2 DEF V!TypeOK, VP!Holding
  <2> QED
    BY <2>3
<1>4. CASE \A e, g \in Device : e = g
  <2>1. Old(d)
    BY <1>2 DEF Old
  <2>2. PICK e \in Device : Serves(i, e)
    BY DEF OldInv
  <2> QED
    BY <1>4, <2>1, <2>2 DEF OldInv
<1> QED
  BY <1>3, <1>4

(* "A device can be fully reset and then recover its configuration when    *)
(* reconnection occurs" (Mailbox.h 39-41): whatever any number of devices  *)
(* and their controller store, lose on the air and forget in power cycles, *)
(* a value that the controller regards as delivered is what the connected  *)
(* device holds, or the device pushes a newer one.  Of several devices the *)
(* controller stays on; with one device it may be power-cycled, too.       *)
THEOREM ConfigurationIsAlwaysHeld ==
  ASSUME VP!EnoughAddresses, VP!DistinctIDs, MaxBoots = 1 \/ \A d, e \in Device : d = e
  PROVE  Spec => []ConfigurationIsHeld
<1> DEFINE Typed == V!TypeOK /\ Buffers /\ MailTypeOK
<1>1. Spec => []Typed
  BY VendingIsTyped, BuffersHold, MailIsTypedAlways, PTL
<1>2. Typed /\ OldInv /\ [Next]_vars => OldInv'
  BY NextOldInv
<1>3. Typed /\ VP!IndInv /\ OldInv => NoOldAddress
  BY OldInvMeans
<1>4. Spec => []NoOldAddress
  BY <1>1, <1>2, <1>3, InitOldInv, VendingInvariantHolds, PTL DEF Spec
<1> QED
  BY <1>4, RecoveryWithoutOldAddresses, PTL
===============================================================================
