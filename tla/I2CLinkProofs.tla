----------------------------- MODULE I2CLinkProofs -----------------------------
(***************************************************************************)
(* Proofs about I2CLink: what the interrupts can do to a frame.            *)
(***************************************************************************)
EXTENDS I2CLink, TLAPS

(* The values there are: no other is ever found in a mailbox or a frame,   *)
(* be it whole, half-made or overwritten.                                  *)
Known == {Zero} \cup raised["master"] \cup raised["slave"]

Boxes(K) == [contents : K, synchronized : BOOLEAN, callerChanged : BOOLEAN,
             changeTrigger : BOOLEAN, waiting : BOOLEAN]
Dest == {"none", "master", "slave", "all"}
Packets(K) == [dest : Dest, src : {"none", "master", "slave"},
               command : Command \cup {"GENERAL_POLL"}, value : K]

HoldsKnown == /\ mb \in [Node -> Boxes(Known)]
              /\ frameBuffer \in [packet : Packets(Known), crc : Packets(Known)]
              /\ sum \in Packets(Known)
              /\ setting \in Known
              /\ reply \in SUBSET Known
              /\ queued \in SUBSET Packets(Known)

Control == /\ returnFrame \in BOOLEAN /\ pendingPacket \in BOOLEAN /\ deferred \in BOOLEAN
           /\ pc \in MainAt
           /\ stage \in {"idle", "replying", "polling"}
           /\ raised \in [Node -> SUBSET Value]

(* Once the controller's application has set the mailbox, contention keeps *)
(* whatever arrives out of it.                                             *)
OwnIsKept == /\ raised["master"] # {} => mb["master"].callerChanged
             /\ mb["master"].callerChanged => mb["master"].contents \in raised["master"]

IndInv == HoldsKnown /\ Control /\ OwnIsKept

-------------------------------------------------------------------------------
(* The operators on mailboxes and packets.                                 *)

LEMMA BoxesKept ==
  ASSUME NEW K, NEW m \in Boxes(K), NEW v \in K
  PROVE  /\ AfterGenerate(m) \in Boxes(K) /\ AfterDisregard(m) \in Boxes(K)
         /\ AfterAccept(m, v) \in Boxes(K) /\ AfterAck(m, v) \in Boxes(K)
         /\ SetLong(m, v) \in Boxes(K)
BY DEF Boxes, AfterGenerate, AfterDisregard, AfterAccept, AfterAck, SetLong

LEMMA BoxesGrow ==
  ASSUME NEW K, NEW L, K \subseteq L
  PROVE  Boxes(K) \subseteq Boxes(L) /\ Packets(K) \subseteq Packets(L)
BY DEF Boxes, Packets

LEMMA PacketMade ==
  ASSUME NEW K, NEW v \in K, NEW d \in Dest, NEW c \in Command \cup {"GENERAL_POLL"}
  PROVE  Packed(d, c, v) \in Packets(K)
BY DEF Packed, Packets, Sender, Dest

LEMMA MailCommand == /\ \A m : GeneratedCommand(m) \in Command \cup {"GENERAL_POLL"}
                     /\ "ACK_VALUE" \in Command \cup {"GENERAL_POLL"}
BY DEF GeneratedCommand, Command

LEMMA StoresAre == /\ Len(Stores) = 5 /\ DOMAIN Stores = 1..5
                   /\ Stores[1] = "contents" /\ Stores[2] = "synchronized"
                   /\ Stores[3] = "callerChanged" /\ Stores[4] = "changeTrigger"
                   /\ Stores[5] = "waiting"
BY DEF Stores

LEMMA Places == MainAt = {"top", "clear", "address", "ready", "poll", "blank", "source", "endpoint",
                          "writeCommand", "writeContents", "reset", "sum", "seal", "queue",
                          "done", "contents", "synchronized", "callerChanged",
                          "changeTrigger", "waiting"}
<1>1. Range(Stores) = {"contents", "synchronized", "callerChanged", "changeTrigger", "waiting"}
  BY StoresAre DEF Range
<1> QED
  BY <1>1 DEF MainAt

LEMMA InitIndInv == Init => IndInv
<1> SUFFICES ASSUME Init PROVE IndInv
  OBVIOUS
<1>1. Zero \in Known
  BY DEF Known
<1>2. NewMailbox \in Boxes(Known) /\ ~NewMailbox.callerChanged
  BY <1>1 DEF NewMailbox, Boxes
<1>3. Nothing \in Packets(Known)
  BY <1>1 DEF Nothing, Packed, Packets, Sender, Dest
<1>4. HoldsKnown
  BY <1>1, <1>2, <1>3 DEF Init, HoldsKnown, Node
<1>5. Control
  BY Places DEF Init, Control, Node
<1>6. OwnIsKept
  BY <1>2 DEF Init, OwnIsKept, Node
<1> QED
  BY <1>4, <1>5, <1>6 DEF IndInv

-------------------------------------------------------------------------------
(* The steps.                                                              *)

LEMMA LoopIs ==
  ASSUME Loop
  PROVE  /\ UNCHANGED <<setting, stage, reply, raised>>
         /\ mb' = mb \/ mb' = [mb EXCEPT !["slave"] = AfterGenerate(@)]
         /\ pc # "contents" /\ pc' # "contents" /\ pc # "synchronized" /\ pc' # "synchronized"
BY DEF interrupts, At, Loop, Top, Clear, ClearHeader, SetAddress, SetSource,
     PollTimer, PollMailbox, Generate, Blank, WriteSource, WriteEndpoint, WriteCommand,
     WriteContents, ResetTimer, Sum, Seal, Queue, Done

LEMMA HeaderCleared ==
  ASSUME NEW K, frameBuffer \in [packet : Packets(K), crc : Packets(K)],
         NEW here, NEW there, ClearHeader(here, there)
  PROVE  /\ frameBuffer' \in [packet : Packets(K), crc : Packets(K)]
         /\ frameBuffer'.crc = frameBuffer.crc
         /\ frameBuffer'.packet.dest = "none"
         /\ frameBuffer'.packet.command = frameBuffer.packet.command
         /\ frameBuffer'.packet.value = frameBuffer.packet.value
<1> DEFINE p == frameBuffer.packet
           q == [p EXCEPT !.dest = "none", !.src = "none"]
<1>1. p \in Packets(K) /\ frameBuffer.crc \in Packets(K)
  OBVIOUS
<1>2. q \in Packets(K) /\ q.dest = "none" /\ q.command = p.command /\ q.value = p.value
  BY <1>1 DEF Packets, Dest
<1>3. frameBuffer' = [frameBuffer EXCEPT !.packet = q]
  BY DEF ClearHeader
<1> HIDE DEF q
<1> QED
  BY <1>1, <1>2, <1>3

LEMMA LoopKeeps == IndInv /\ Loop => IndInv'
<1> SUFFICES ASSUME IndInv, Loop PROVE IndInv'
  OBVIOUS
<1> USE DEF interrupts
<1>1. UNCHANGED <<setting, stage, reply, raised>>
  BY LoopIs
<1>2. Known' = Known
  BY <1>1 DEF Known
<1>3. Control'
  BY <1>1, Places DEF IndInv, Control, Loop, At, Top, Clear, ClearHeader, SetAddress, SetSource,
     PollTimer, PollMailbox, Generate, Blank, WriteSource, WriteEndpoint, WriteCommand,
     WriteContents, ResetTimer, Sum, Seal, Queue, Done
<1>4. mb' = mb \/ mb' = [mb EXCEPT !["slave"] = AfterGenerate(@)]
  BY LoopIs
<1>5. mb' \in [Node -> Boxes(Known)] /\ mb'["master"] = mb["master"]
  <2>1. AfterGenerate(mb["slave"]) \in Boxes(Known)
    BY BoxesKept DEF IndInv, HoldsKnown, Node, Known
  <2> QED
    BY <1>4, <2>1 DEF IndInv, HoldsKnown, Node
<1>6. Zero \in Known /\ Nothing \in Packets(Known)
  BY DEF Known, Nothing, Packed, Packets, Sender, Dest
<1>7. frameBuffer' \in [packet : Packets(Known), crc : Packets(Known)]
  <2>1. CASE UNCHANGED frameBuffer
    BY <2>1 DEF IndInv, HoldsKnown
  <2>2. CASE Clear \/ Blank
    BY <2>2, HeaderCleared DEF IndInv, HoldsKnown, Clear, Blank
  <2>3. CASE SetAddress \/ WriteSource \/ WriteEndpoint
    BY <2>3 DEF IndInv, HoldsKnown, SetAddress, SetSource, WriteSource, WriteEndpoint, Packets, Dest
  <2>4. CASE WriteCommand
    BY <2>4, MailCommand DEF IndInv, HoldsKnown, WriteCommand, Packets
  <2>5. CASE WriteContents
    <3>1. mb["slave"].contents \in Known
      BY DEF IndInv, HoldsKnown, Node, Boxes
    <3> QED
      BY <2>5, <3>1 DEF IndInv, HoldsKnown, WriteContents, Packets
  <2>6. CASE Seal
    BY <2>6 DEF IndInv, HoldsKnown, Seal
  <2> QED
    BY <2>1, <2>2, <2>3, <2>4, <2>5, <2>6
    DEF Loop, Generate, Top, PollTimer, PollMailbox, ResetTimer, Sum, Queue, Done
<1>8. sum' \in Packets(Known)
  BY <1>6 DEF IndInv, HoldsKnown, Loop, Top, Clear, ClearHeader, SetAddress, SetSource,
     PollTimer, PollMailbox, Generate, Blank, WriteSource, WriteEndpoint, WriteCommand,
     WriteContents, ResetTimer, Sum, Seal, Queue, Done
<1>9. queued' \in SUBSET Packets(Known)
  BY DEF IndInv, HoldsKnown, Loop, Top, Clear, ClearHeader, SetAddress, SetSource,
     PollTimer, PollMailbox, Generate, Blank, WriteSource, WriteEndpoint, WriteCommand,
     WriteContents, ResetTimer, Sum, Seal, Queue, Done
<1>10. HoldsKnown'
  BY <1>1, <1>2, <1>5, <1>7, <1>8, <1>9 DEF IndInv, HoldsKnown
<1>11. OwnIsKept'
  BY <1>1, <1>5 DEF IndInv, OwnIsKept
<1> QED
  BY <1>3, <1>10, <1>11 DEF IndInv

LEMMA StoreKeeps == IndInv /\ Store => IndInv'
<1> SUFFICES ASSUME IndInv, Store PROVE IndInv'
  OBVIOUS
<1> USE DEF interrupts
<1>1. PICK k \in 1..5 :
        /\ At(Stores[k], IF k < 5 THEN Stores[k + 1] ELSE "top")
        /\ mb' = [mb EXCEPT !["slave"][Stores[k]] = SetLong(mb["slave"], setting)[Stores[k]]]
        /\ setting' = IF k < 5 THEN setting ELSE Zero
  BY StoresAre DEF Store
<1>2. UNCHANGED <<frameBuffer, returnFrame, pendingPacket, deferred, sum, stage, reply,
                  raised, queued>>
  BY DEF Store
<1>3. Known' = Known /\ Zero \in Known
  BY <1>2 DEF Known
<1>4. Control'
  BY <1>1, <1>2, Places, StoresAre DEF IndInv, Control, At
<1> DEFINE new == SetLong(mb["slave"], setting)
<1>5. new \in Boxes(Known) /\ mb["slave"] \in Boxes(Known)
  BY BoxesKept DEF IndInv, HoldsKnown, Node
<1>6. [mb["slave"] EXCEPT ![Stores[k]] = new[Stores[k]]] \in Boxes(Known)
  <2> HIDE DEF new
  <2>1. Stores[k] \in {"contents", "synchronized", "callerChanged", "changeTrigger", "waiting"}
    BY StoresAre
  <2> QED
    BY <1>5, <2>1 DEF Boxes
<1>7. mb' \in [Node -> Boxes(Known)] /\ mb'["master"] = mb["master"]
  BY <1>1, <1>6 DEF IndInv, HoldsKnown, Node
<1>8. HoldsKnown'
  BY <1>1, <1>2, <1>3, <1>7 DEF IndInv, HoldsKnown
<1>9. OwnIsKept'
  BY <1>2, <1>7 DEF IndInv, OwnIsKept
<1> QED
  BY <1>4, <1>8, <1>9 DEF IndInv

(* Whatever packet of known values the controller writes, and whatever the *)
(* write has done to its own mailbox but to its contents and origin.       *)
LEMMA ReceiveKeeps ==
  ASSUME IndInv, NEW p \in Packets(Known), NEW m \in Boxes(Known), Receive(p, m),
         m.contents = mb["master"].contents, m.callerChanged = mb["master"].callerChanged,
         UNCHANGED <<reply, pc, deferred, sum, setting, raised, queued>>,
         stage' \in {"idle", "replying", "polling"}
  PROVE  IndInv'
<1>1. Known' = Known
  BY DEF Known
<1> DEFINE box == HandledBox(p)
           polled == Packed("master", GeneratedCommand(box), box.contents)
           due == HasPendingChanges(box, TRUE)
<1>2. p.value \in Known /\ mb["slave"] \in Boxes(Known)
  BY DEF IndInv, HoldsKnown, Node, Packets
<1>3. box \in Boxes(Known)
  BY <1>2, BoxesKept DEF HandledBox
<1>4. AfterGenerate(box) \in Boxes(Known)
  BY <1>2, <1>3, BoxesKept
<1>5. box.contents \in Known
  BY <1>3 DEF Boxes
<1>6. polled \in Packets(Known)
  BY <1>5, PacketMade, MailCommand DEF Dest
<1>7. Packed("master", "ACK_VALUE", p.value) \in Packets(Known)
  BY <1>2, PacketMade, MailCommand DEF Dest
<1>8. due \in BOOLEAN
  BY <1>3 DEF HasPendingChanges, TimerReady, Boxes
<1>9. /\ pendingPacket' = (pendingPacket \/ Accepted(p))
      /\ returnFrame' = due
      /\ mb' = [mb EXCEPT !["master"] = m, !["slave"] = IF due THEN AfterGenerate(box) ELSE box]
      /\ frameBuffer' = CASE due -> [packet |-> polled, crc |-> polled]
                          [] ~due /\ Accepted(p) ->
                               [packet |-> Packed("master", "ACK_VALUE", p.value), crc |-> p]
                          [] OTHER -> [packet |-> p, crc |-> p]
  BY DEF Receive
<1> HIDE DEF box, polled, due
<1>10. Accepted(p) \in BOOLEAN
  BY DEF Accepted, IsValue
<1>11. Control'
  BY <1>8, <1>9, <1>10 DEF IndInv, Control
<1>12. mb' \in [Node -> Boxes(Known)] /\ mb'["master"] = m
  BY <1>3, <1>4, <1>9 DEF IndInv, HoldsKnown, Node
<1>13. frameBuffer' \in [packet : Packets(Known), crc : Packets(Known)]
  BY <1>6, <1>7, <1>8, <1>9, <1>10
<1>14. HoldsKnown'
  BY <1>1, <1>12, <1>13 DEF IndInv, HoldsKnown
<1>15. OwnIsKept'
  BY <1>12 DEF IndInv, OwnIsKept
<1> QED
  BY <1>11, <1>14, <1>15 DEF IndInv

LEMMA WriteReplyKeeps == IndInv /\ WriteReply => IndInv'
<1> SUFFICES ASSUME IndInv, NEW v \in reply,
                    Receive(Packed("slave", "ACK_VALUE", v), mb["master"]),
                    UNCHANGED <<reply, pc, deferred, sum, setting, raised, queued>>,
                    stage' = "replying"
             PROVE  IndInv'
  BY DEF WriteReply
<1>1. Packed("slave", "ACK_VALUE", v) \in Packets(Known)
  BY PacketMade, MailCommand DEF IndInv, HoldsKnown, Dest
<1>2. mb["master"] \in Boxes(Known)
  BY DEF IndInv, HoldsKnown, Node
<1> QED
  BY <1>1, <1>2, ReceiveKeeps

LEMMA WriteNextKeeps == IndInv /\ WriteNext => IndInv'
<1> SUFFICES ASSUME IndInv, WriteNext PROVE IndInv'
  OBVIOUS
<1> DEFINE m == mb["master"]
<1>1. m \in Boxes(Known) /\ m.contents \in Known /\ Zero \in Known
  BY DEF IndInv, HoldsKnown, Node, Boxes, Known
<1>2. /\ AfterGenerate(m) \in Boxes(Known)
      /\ AfterGenerate(m).contents = m.contents
      /\ AfterGenerate(m).callerChanged = m.callerChanged
  BY <1>1 DEF AfterGenerate, Boxes
<1>3. /\ Packed("slave", GeneratedCommand(m), m.contents) \in Packets(Known)
      /\ Packed("all", "GENERAL_POLL", Zero) \in Packets(Known)
  BY <1>1, PacketMade, MailCommand DEF Dest
<1>4. CASE Receive(Packed("slave", GeneratedCommand(m), m.contents), AfterGenerate(m))
  BY <1>1, <1>2, <1>3, <1>4, ReceiveKeeps DEF WriteNext
<1>5. CASE Receive(Packed("all", "GENERAL_POLL", Zero), m)
  BY <1>1, <1>3, <1>5, ReceiveKeeps DEF WriteNext
<1> QED
  BY <1>4, <1>5 DEF WriteNext

LEMMA ReadKeeps == IndInv /\ Read => IndInv'
<1> SUFFICES ASSUME IndInv, Read PROVE IndInv'
  OBVIOUS
<1> DEFINE m == mb["master"]
           p == frameBuffer.packet
<1>1. Known' = Known
  BY DEF Known, Read
<1>2. m \in Boxes(Known) /\ p \in Packets(Known) /\ p.value \in Known
  BY DEF IndInv, HoldsKnown, Node, Packets
<1>3. Control'
  BY DEF IndInv, Control, Read
<1>4. \/ mb' = mb
      \/ mb' = [mb EXCEPT !["master"] = AfterAck(m, p.value)]
      \/ mb' = [mb EXCEPT !["master"] = AfterDisregard(m)]
      \/ ~m.callerChanged /\ mb' = [mb EXCEPT !["master"] = AfterAccept(m, p.value)]
  BY <1>2 DEF Read, Handle, Contended, Boxes
<1>5. reply' = {} \/ reply' = {p.value}
  BY DEF Read, Handle
<1>6. /\ AfterAck(m, p.value) \in Boxes(Known) /\ AfterDisregard(m) \in Boxes(Known)
      /\ AfterAccept(m, p.value) \in Boxes(Known)
  BY <1>2, BoxesKept
<1>7. mb' \in [Node -> Boxes(Known)]
  BY <1>4, <1>6 DEF IndInv, HoldsKnown, Node
<1>8. HoldsKnown'
  BY <1>1, <1>2, <1>5, <1>7 DEF IndInv, HoldsKnown, Read
<1>9. \/ /\ mb'["master"].contents = m.contents
         /\ mb'["master"].callerChanged = m.callerChanged
      \/ ~m.callerChanged /\ ~mb'["master"].callerChanged
  <2>1. m.callerChanged = AfterAck(m, p.value).callerChanged
        /\ m.contents = AfterAck(m, p.value).contents
    BY <1>2 DEF AfterAck, Boxes
  <2>2. m.callerChanged = AfterDisregard(m).callerChanged
        /\ m.contents = AfterDisregard(m).contents
    BY <1>2 DEF AfterDisregard, Boxes
  <2>3. ~AfterAccept(m, p.value).callerChanged
    BY <1>2 DEF AfterAccept, Boxes
  <2> QED
    BY <1>4, <2>1, <2>2, <2>3 DEF IndInv, HoldsKnown, Node
<1>10. OwnIsKept'
  BY <1>9 DEF IndInv, OwnIsKept, Read
<1> QED
  BY <1>3, <1>8, <1>10 DEF IndInv

(* A new value only adds to those there are.                               *)
LEMMA KnownGrows ==
  ASSUME IndInv, NEW n \in Node, NEW v \in Value,
         raised' = [raised EXCEPT ![n] = @ \cup {v}]
  PROVE  Known \subseteq Known' /\ v \in Known' /\ raised' \in [Node -> SUBSET Value]
BY DEF IndInv, Control, Known, Node

LEMMA SetSlaveKeeps == ASSUME IndInv, NEW v \in Value, SetSlave(v) PROVE IndInv'
<1>1. Known \subseteq Known' /\ v \in Known' /\ raised' \in [Node -> SUBSET Value]
  BY KnownGrows DEF SetSlave, Node
<1>2. Boxes(Known) \subseteq Boxes(Known') /\ Packets(Known) \subseteq Packets(Known')
  BY <1>1, BoxesGrow
<1>3. raised'["master"] = raised["master"]
  BY DEF IndInv, Control, SetSlave, Node
<1>4. Control'
  BY <1>1, Places, StoresAre DEF IndInv, Control, SetSlave, At, interrupts
<1>5. HoldsKnown'
  BY <1>1, <1>2 DEF IndInv, HoldsKnown, SetSlave, interrupts
<1>6. OwnIsKept'
  BY <1>3 DEF IndInv, OwnIsKept, SetSlave
<1> QED
  BY <1>4, <1>5, <1>6 DEF IndInv

LEMMA SetMasterKeeps == ASSUME IndInv, NEW v \in Value, SetMaster(v) PROVE IndInv'
<1>1. Known \subseteq Known' /\ v \in Known' /\ raised' \in [Node -> SUBSET Value]
  BY KnownGrows DEF SetMaster, Node
<1>2. Boxes(Known) \subseteq Boxes(Known') /\ Packets(Known) \subseteq Packets(Known')
  BY <1>1, BoxesGrow
<1>3. v \in raised'["master"]
  BY DEF IndInv, Control, SetMaster, Node
<1>4. mb["master"] \in Boxes(Known')
  BY <1>2 DEF IndInv, HoldsKnown, Node
<1>5. /\ SetLong(mb["master"], v) \in Boxes(Known')
      /\ SetLong(mb["master"], v).contents = v /\ SetLong(mb["master"], v).callerChanged
  BY <1>1, <1>4 DEF SetLong, Boxes
<1>6. mb' \in [Node -> Boxes(Known')] /\ mb'["master"] = SetLong(mb["master"], v)
  BY <1>2, <1>5 DEF IndInv, HoldsKnown, SetMaster, Node
<1>7. Control'
  BY <1>1 DEF IndInv, Control, SetMaster
<1>8. HoldsKnown'
  BY <1>1, <1>2, <1>6 DEF IndInv, HoldsKnown, SetMaster
<1>9. OwnIsKept'
  BY <1>3, <1>5, <1>6 DEF OwnIsKept
<1> QED
  BY <1>7, <1>8, <1>9 DEF IndInv

LEMMA ElapseKeeps == ASSUME IndInv, NEW n \in Node, Elapse(n) PROVE IndInv'
<1>1. Known' = Known
  BY DEF Known, Elapse
<1>2. [mb[n] EXCEPT !.waiting = FALSE] \in Boxes(Known)
  BY DEF IndInv, HoldsKnown, Boxes
<1>3. mb' \in [Node -> Boxes(Known)]
  BY <1>2 DEF IndInv, HoldsKnown, Elapse
<1>4. /\ mb'["master"].contents = mb["master"].contents
      /\ mb'["master"].callerChanged = mb["master"].callerChanged
  BY DEF IndInv, HoldsKnown, Elapse, Boxes, Node
<1>5. Control' /\ HoldsKnown' /\ OwnIsKept'
  BY <1>1, <1>3, <1>4 DEF IndInv, Control, HoldsKnown, OwnIsKept, Elapse
<1> QED
  BY <1>5 DEF IndInv

LEMMA NextKeeps == IndInv /\ [Next]_vars => IndInv'
<1> SUFFICES ASSUME IndInv, [Next]_vars PROVE IndInv'
  OBVIOUS
<1>1. CASE Transaction
  BY <1>1, WriteReplyKeeps, WriteNextKeeps, ReadKeeps DEF Transaction
<1>2. CASE UNCHANGED vars
  BY <1>2 DEF vars, IndInv, HoldsKnown, Control, OwnIsKept, Known
<1> QED
  BY <1>1, <1>2, LoopKeeps, StoreKeeps, ElapseKeeps, SetSlaveKeeps, SetMasterKeeps DEF Next

(* The inductive invariant of Spec: every value there is was stored.       *)
THEOREM KnownValues == Spec => []IndInv
BY InitIndInv, NextKeeps, PTL DEF Spec

(* Interrupts at any point leave all the state of both nodes of its type   *)
(* (I2CDatalink.cpp 70-136).                                               *)
THEOREM LinkTypeCorrect == Spec => []TypeOK
<1>1. IndInv => TypeOK
  <2> SUFFICES ASSUME IndInv PROVE TypeOK
    OBVIOUS
  <2>1. Known \subseteq Value
    BY ZeroAssumption DEF IndInv, Control, Known, Node
  <2>2. Boxes(Known) \subseteq Mailbox /\ Packets(Known) \subseteq Packet
    BY <2>1 DEF Boxes, Packets, Mailbox, Packet, Dest
  <2> QED
    BY <2>1, <2>2 DEF IndInv, HoldsKnown, Control, TypeOK
<1> QED
  BY KnownValues, <1>1, PTL

(* The controller holds a value of its own application or of the device's, *)
(* as its flag says, although the device may seal a packet with one of the *)
(* controller's values as its own (Mailbox.cpp 123-129).                   *)
THEOREM ControllerIsRight == Spec => []ControllerHoldsStored
<1>1. IndInv => ControllerHoldsStored
  BY DEF IndInv, HoldsKnown, Node, Boxes, Known, OwnIsKept, ControllerHoldsStored
<1> QED
  BY KnownValues, <1>1, PTL
-------------------------------------------------------------------------------
(* The order of values, as long as only the device's application has       *)
(* stored any (contention keeps older values out afterwards).              *)

(* What the device sends, or is about to write into a packet, it has       *)
(* stored.                                                                 *)
SendsOwn ==
  /\ mb["master"].synchronized
  /\ (~mb["slave"].synchronized
         \/ pc \in {"blank", "source", "endpoint", "writeCommand", "writeContents",
                    "synchronized", "callerChanged", "changeTrigger", "waiting"})
        => mb["slave"].contents \in raised["slave"]

(* Its mailbox holds the last value stored, but within a setLong.          *)
HoldsLast ==
  /\ \A u \in raised["slave"] : Zero < u /\ (u <= mb["slave"].contents \/ (pc = "contents" /\ u = setting))
  /\ pc = "contents" => mb["slave"].contents <= setting /\ setting \in raised["slave"]

(* No value in the buffer or about to be acknowledged is older than the    *)
(* controller's, but for the zero of a general poll.                       *)
Rises ==
  /\ mb["master"].contents <= mb["slave"].contents
  /\ frameBuffer.packet.value <= mb["slave"].contents
  /\ frameBuffer.packet.value = Zero \/ mb["master"].contents <= frameBuffer.packet.value
  /\ \A v \in reply : mb["master"].contents <= v /\ v <= mb["slave"].contents

(* That zero is never sealed as a value, though a packet has the header of *)
(* a value before it has one.                                              *)
NoZeroSealed ==
  /\ IsValue(frameBuffer.packet) /\ pc # "writeContents" => frameBuffer.packet.value # Zero
  /\ IsValue(frameBuffer.crc) => frameBuffer.crc.value # Zero
  /\ IsValue(sum) /\ pc = "seal" => sum.value # Zero

OrderInv == raised["master"] = {} => SendsOwn /\ HoldsLast /\ Rises /\ NoZeroSealed

(* The values are numbers, and the device's mailbox holds one of its own.  *)
LEMMA Numbers ==
  ASSUME IndInv
  PROVE  /\ Zero \in Nat /\ \A n \in Node : raised[n] \subseteq Nat
         /\ Known \subseteq Nat
         /\ \A n \in Node : mb[n].contents \in Known
         /\ frameBuffer.packet.value \in Known /\ setting \in Known /\ reply \subseteq Known
<1>1. Known \subseteq Nat /\ Zero \in Nat /\ \A n \in Node : raised[n] \subseteq Nat
  BY ZeroAssumption, ValueAssumption DEF IndInv, Control, Known, Node
<1>2. \A n \in Node : mb[n].contents \in Known
  BY DEF IndInv, HoldsKnown, Boxes
<1>3. frameBuffer.packet.value \in Known /\ setting \in Known /\ reply \subseteq Known
  BY DEF IndInv, HoldsKnown, Packets
<1> QED
  BY <1>1, <1>2, <1>3

LEMMA ZeroIsLeast ==
  ASSUME IndInv, raised["master"] = {}, HoldsLast
  PROVE  Zero <= mb["slave"].contents
<1>1. mb["slave"].contents \in {Zero} \cup raised["slave"] /\ Zero \in Nat
  BY Numbers DEF Known, Node
<1>2. \A u \in raised["slave"] : Zero <= u
  BY Numbers DEF HoldsLast, Node
<1> QED
  BY <1>1, <1>2

LEMMA InitOrderInv == Init => OrderInv
<1> SUFFICES ASSUME Init PROVE OrderInv
  OBVIOUS
<1>1. Zero \in Nat /\ ~IsValue(Nothing) /\ Nothing.value = Zero
  BY ZeroAssumption, ValueAssumption DEF Nothing, Packed, IsValue
<1>2. raised["slave"] = {} /\ reply = {} /\ pc = "top"
  BY DEF Init, Node
<1>3. /\ mb["master"].synchronized /\ mb["slave"].synchronized
      /\ mb["master"].contents = Zero /\ mb["slave"].contents = Zero
  BY DEF Init, NewMailbox, Node
<1>4. frameBuffer.packet = Nothing /\ frameBuffer.crc = Nothing
  BY DEF Init
<1> QED
  BY <1>1, <1>2, <1>3, <1>4 DEF OrderInv, SendsOwn, HoldsLast, Rises, NoZeroSealed

LEMMA LoopKeepsOrder == ASSUME IndInv, OrderInv, Loop PROVE OrderInv'
<1> USE DEF interrupts
<1>1. UNCHANGED <<setting, stage, reply, raised>>
  BY LoopIs
<1> SUFFICES ASSUME raised["master"] = {}
             PROVE  SendsOwn' /\ HoldsLast' /\ Rises' /\ NoZeroSealed'
  BY <1>1 DEF OrderInv
<1>2. SendsOwn /\ HoldsLast /\ Rises /\ NoZeroSealed
  BY DEF OrderInv
<1>3. /\ mb'["master"] = mb["master"]
      /\ mb'["slave"].contents = mb["slave"].contents
      /\ mb'["slave"].synchronized = mb["slave"].synchronized
  <2>1. mb' = mb \/ mb' = [mb EXCEPT !["slave"] = AfterGenerate(@)]
    BY LoopIs
  <2>2. mb \in [Node -> Boxes(Known)]
    BY DEF IndInv, HoldsKnown
  <2>3. mb["slave"] \in Boxes(Known)
    BY <2>2 DEF Node
  <2>4. /\ AfterGenerate(mb["slave"]).contents = mb["slave"].contents
        /\ AfterGenerate(mb["slave"]).synchronized = mb["slave"].synchronized
    BY <2>3 DEF AfterGenerate, Boxes
  <2> QED
    BY <2>1, <2>2, <2>4 DEF Node
<1>4. SendsOwn'
  <2>1. CASE PollMailbox
    BY <1>1, <1>2, <1>3, <2>1 DEF PollMailbox, At, SendsOwn
  <2>2. CASE Blank \/ WriteSource \/ WriteEndpoint \/ WriteCommand
    BY <1>1, <1>2, <1>3, <2>2
    DEF Blank, ClearHeader, SetSource, WriteSource, WriteEndpoint, WriteCommand, At, SendsOwn
  <2>3. CASE \/ Top \/ Clear \/ SetAddress \/ PollTimer \/ WriteContents \/ ResetTimer
             \/ Sum \/ Seal \/ Queue \/ Done
    <3>1. pc' \in {"top", "clear", "address", "ready", "poll", "reset", "sum", "seal", "queue",
                   "done"}
      BY <2>3 DEF At, Top, Clear, ClearHeader, SetAddress, SetSource, PollTimer, WriteContents,
         ResetTimer, Sum, Seal, Queue, Done
    <3> QED
      BY <1>1, <1>2, <1>3, <3>1 DEF SendsOwn
  <2> QED
    BY <2>1, <2>2, <2>3 DEF Loop, Generate
<1>5. pc # "contents" /\ pc' # "contents"
  BY LoopIs
<1>6. HoldsLast'
  BY <1>1, <1>2, <1>3, <1>5 DEF HoldsLast
<1>7. frameBuffer \in [packet : Packets(Known), crc : Packets(Known)]
  BY DEF IndInv, HoldsKnown
<1>8. CASE WriteContents
  <2>1. /\ frameBuffer'.packet.value = mb["slave"].contents /\ frameBuffer'.crc = frameBuffer.crc
        /\ pc = "writeContents" /\ pc' = "reset"
    BY <1>7, <1>8 DEF WriteContents, At, Packets
  <2>2. mb["slave"].contents \in Nat /\ mb["slave"].contents \in raised["slave"]
    BY <1>2, <2>1, Numbers DEF SendsOwn, Node
  <2>3. mb["slave"].contents # Zero
    BY <1>2, <2>2, Numbers DEF HoldsLast
  <2> QED
    BY <1>1, <1>2, <1>3, <1>4, <1>6, <2>1, <2>2, <2>3 DEF Rises, NoZeroSealed
<1>9. CASE ~WriteContents
  <2>1. \/ Top \/ Clear \/ SetAddress \/ PollTimer \/ PollMailbox \/ Blank \/ WriteSource
        \/ WriteEndpoint \/ WriteCommand \/ ResetTimer \/ Sum \/ Seal \/ Queue \/ Done
    BY <1>9 DEF Loop, Generate
  <2>2. frameBuffer.packet \in Packets(Known)
    BY <1>7
  <2>3. frameBuffer'.packet.value = frameBuffer.packet.value
    <3>1. CASE UNCHANGED frameBuffer
      BY <3>1
    <3>2. CASE Clear \/ Blank
      BY <1>7, <3>2, HeaderCleared DEF Clear, Blank
    <3>3. CASE SetAddress \/ WriteSource \/ WriteEndpoint
      BY <1>7, <2>2, <3>3 DEF SetAddress, SetSource, WriteSource, WriteEndpoint, Packets
    <3>4. CASE WriteCommand
      BY <1>7, <2>2, <3>4 DEF WriteCommand, Packets
    <3>5. CASE Seal
      BY <1>7, <3>5 DEF Seal
    <3> QED
      BY <2>1, <3>1, <3>2, <3>3, <3>4, <3>5
      DEF Top, PollTimer, PollMailbox, ResetTimer, Sum, Queue, Done
  <2>4. Rises'
    BY <1>1, <1>2, <1>3, <2>3 DEF Rises
  <2>5. NoZeroSealed'
    <3> USE DEF NoZeroSealed, IsValue, At
    <3>1. CASE Top \/ PollTimer \/ PollMailbox \/ ResetTimer \/ Queue \/ Done
      BY <1>2, <3>1 DEF Top, PollTimer, PollMailbox, ResetTimer, Queue, Done
    <3>2. CASE Clear \/ Blank \/ SetAddress \/ WriteSource \/ WriteEndpoint
      <4>1. /\ frameBuffer'.packet.command = frameBuffer.packet.command
            /\ frameBuffer'.crc = frameBuffer.crc
        <5>1. CASE Clear \/ Blank
          BY <1>7, <5>1, HeaderCleared DEF Clear, Blank
        <5>2. CASE SetAddress \/ WriteSource \/ WriteEndpoint
          BY <1>7, <2>2, <5>2 DEF SetAddress, SetSource, WriteSource, WriteEndpoint, Packets
        <5> QED
          BY <3>2, <5>1, <5>2
      <4>2. pc # "writeContents" /\ pc' # "seal"
        BY <3>2 DEF Clear, Blank, ClearHeader, SetAddress, SetSource, WriteSource, WriteEndpoint
      <4> QED
        BY <1>2, <2>3, <4>1, <4>2
    <3>3. CASE WriteCommand
      <4>1. frameBuffer'.crc = frameBuffer.crc /\ pc' = "writeContents"
        BY <1>7, <3>3 DEF WriteCommand
      <4> QED
        BY <1>2, <4>1
    <3>4. CASE Sum
      BY <1>2, <3>4 DEF Sum
    <3>5. CASE Seal
      <4>1. /\ frameBuffer'.packet = frameBuffer.packet /\ frameBuffer'.crc = sum
            /\ pc = "seal" /\ pc' = "queue"
        BY <1>7, <3>5 DEF Seal
      <4> QED
        BY <1>2, <4>1
    <3> QED
      BY <2>1, <3>1, <3>2, <3>3, <3>4, <3>5
  <2> QED
    BY <1>4, <1>6, <2>4, <2>5
<1> QED
  BY <1>8, <1>9

LEMMA StoreKeepsOrder == ASSUME IndInv, OrderInv, Store PROVE OrderInv'
<1> USE DEF interrupts
<1>1. PICK k \in 1..5 :
        /\ At(Stores[k], IF k < 5 THEN Stores[k + 1] ELSE "top")
        /\ mb' = [mb EXCEPT !["slave"][Stores[k]] = SetLong(mb["slave"], setting)[Stores[k]]]
        /\ setting' = IF k < 5 THEN setting ELSE Zero
  BY StoresAre DEF Store
<1>2. UNCHANGED <<frameBuffer, sum, reply, raised>>
  BY DEF Store
<1> SUFFICES ASSUME raised["master"] = {}
             PROVE  SendsOwn' /\ HoldsLast' /\ Rises' /\ NoZeroSealed'
  BY <1>2 DEF OrderInv
<1>3. SendsOwn /\ HoldsLast /\ Rises /\ NoZeroSealed
  BY DEF OrderInv
<1>4. mb["slave"] \in Boxes(Known) /\ mb \in [Node -> Boxes(Known)]
  BY DEF IndInv, HoldsKnown, Node
<1>5. mb'["master"] = mb["master"]
  BY <1>1, <1>4 DEF Node
<1>6. NoZeroSealed'
  <2>1. pc # "writeContents" /\ pc' # "seal"
    BY <1>1, StoresAre DEF At
  <2> QED
    BY <1>2, <1>3, <2>1 DEF NoZeroSealed
<1>7. CASE k = 1
  <2>1. /\ pc = "contents" /\ pc' = "synchronized" /\ mb'["slave"].contents = setting
        /\ mb'["slave"].synchronized = mb["slave"].synchronized
    BY <1>1, <1>4, <1>7, StoresAre DEF At, SetLong, Boxes, Node
  <2>2. /\ setting \in raised["slave"] /\ mb["slave"].contents <= setting
        /\ \A u \in raised["slave"] : Zero < u /\ (u <= mb["slave"].contents \/ u = setting)
    BY <1>3, <2>1 DEF HoldsLast
  <2>3. /\ mb["slave"].contents \in Nat /\ setting \in Nat /\ raised["slave"] \subseteq Nat
        /\ mb["master"].contents \in Nat /\ frameBuffer.packet.value \in Nat /\ reply \subseteq Nat
    BY Numbers DEF Node
  <2>4. SendsOwn'
    BY <1>2, <1>3, <1>5, <2>1, <2>2 DEF SendsOwn
  <2>5. HoldsLast'
    BY <1>2, <2>1, <2>2, <2>3 DEF HoldsLast
  <2>6. Rises'
    BY <1>2, <1>3, <1>5, <2>1, <2>2, <2>3 DEF Rises
  <2> QED
    BY <1>6, <2>4, <2>5, <2>6
<1>8. CASE k # 1
  <2>1. /\ pc \in {"synchronized", "callerChanged", "changeTrigger", "waiting"}
        /\ pc' # "contents"
    BY <1>1, <1>8, StoresAre DEF At
  <2>2. mb'["slave"].contents = mb["slave"].contents
    <3>1. Stores[k] \in {"synchronized", "callerChanged", "changeTrigger", "waiting"}
      BY <1>8, StoresAre
    <3> QED
      BY <1>1, <1>4, <3>1 DEF Boxes, Node
  <2>3. mb["slave"].contents \in raised["slave"]
    BY <1>3, <2>1 DEF SendsOwn
  <2>4. SendsOwn'
    BY <1>2, <1>3, <1>5, <2>2, <2>3 DEF SendsOwn
  <2>5. HoldsLast'
    BY <1>2, <1>3, <2>1, <2>2 DEF HoldsLast
  <2>6. Rises'
    BY <1>2, <1>3, <1>5, <2>2 DEF Rises
  <2> QED
    BY <1>6, <2>4, <2>5, <2>6
<1> QED
  BY <1>7, <1>8

(* The controller writes an acknowledgement or a general poll: while its   *)
(* application has stored nothing it has no value to send.                 *)
LEMMA ReceiveKeepsOrder ==
  ASSUME IndInv, OrderInv, raised["master"] = {}, NEW p \in Packets(Known), ~IsValue(p),
         Receive(p, mb["master"]), UNCHANGED <<reply, pc, sum, setting, raised>>,
         p.value <= mb["slave"].contents,
         p.value = Zero \/ mb["master"].contents <= p.value
  PROVE  OrderInv'
<1>1. SendsOwn /\ HoldsLast /\ Rises /\ NoZeroSealed
  BY DEF OrderInv
<1> DEFINE box == HandledBox(p)
           polled == Packed("master", GeneratedCommand(box), box.contents)
           due == HasPendingChanges(box, TRUE)
<1>2. mb["slave"] \in Boxes(Known) /\ mb \in [Node -> Boxes(Known)]
  BY DEF IndInv, HoldsKnown, Node
<1>3. box = mb["slave"] \/ box = AfterAck(mb["slave"], p.value)
  BY DEF HandledBox, Accepted
<1>4. /\ box \in Boxes(Known)
      /\ box.contents = mb["slave"].contents
      /\ mb["slave"].synchronized => box.synchronized
  <2>1. p.value \in Known
    BY DEF Packets
  <2>2. AfterAck(mb["slave"], p.value) \in Boxes(Known)
    BY <1>2, <2>1, BoxesKept
  <2>3. /\ AfterAck(mb["slave"], p.value).contents = mb["slave"].contents
        /\ mb["slave"].synchronized => AfterAck(mb["slave"], p.value).synchronized
    BY <1>2 DEF AfterAck, Boxes
  <2> QED
    BY <1>2, <1>3, <2>2, <2>3
<1>5. due => ~box.synchronized
  BY DEF HasPendingChanges
<1>6. /\ mb' = [mb EXCEPT !["master"] = mb["master"],
                          !["slave"] = IF due THEN AfterGenerate(box) ELSE box]
      /\ ~Accepted(p)
      /\ frameBuffer' = IF due THEN [packet |-> polled, crc |-> polled]
                        ELSE [packet |-> p, crc |-> p]
  BY DEF Receive, Accepted
<1>7. polled.value = box.contents
  BY DEF Packed
<1>8. /\ AfterGenerate(box).contents = box.contents
      /\ AfterGenerate(box).synchronized = box.synchronized
  BY <1>4 DEF AfterGenerate, Boxes
<1> HIDE DEF box, polled, due
<1>9. /\ mb'["master"] = mb["master"] /\ mb'["slave"].contents = mb["slave"].contents
      /\ mb["slave"].synchronized => mb'["slave"].synchronized
  BY <1>2, <1>4, <1>6, <1>8 DEF Node
<1>10. SendsOwn'
  BY <1>1, <1>9 DEF SendsOwn
<1>11. HoldsLast'
  BY <1>1, <1>9 DEF HoldsLast
<1>12. due => mb["slave"].contents \in raised["slave"] /\ mb["slave"].contents # Zero
  <2>1. due => mb["slave"].contents \in raised["slave"]
    BY <1>1, <1>4, <1>5 DEF SendsOwn
  <2> QED
    BY <1>1, <2>1, Numbers DEF HoldsLast
<1>13. frameBuffer'.packet.value \in {mb["slave"].contents, p.value}
  BY <1>4, <1>6, <1>7
<1>14. Rises'
  BY <1>1, <1>9, <1>13, Numbers DEF Rises, Node
<1>15. NoZeroSealed'
  BY <1>1, <1>4, <1>6, <1>7, <1>12 DEF NoZeroSealed
<1> QED
  BY <1>10, <1>11, <1>14, <1>15 DEF OrderInv

LEMMA WriteKeepsOrder == ASSUME IndInv, OrderInv, WriteReply \/ WriteNext PROVE OrderInv'
<1>1. UNCHANGED <<reply, pc, sum, setting, raised>>
  BY DEF WriteReply, WriteNext
<1> SUFFICES ASSUME raised["master"] = {}
             PROVE  OrderInv'
  BY <1>1 DEF OrderInv
<1>2. SendsOwn /\ HoldsLast /\ Rises /\ NoZeroSealed
  BY DEF OrderInv
<1>3. CASE WriteReply
  <2>1. PICK v \in reply : Receive(Packed("slave", "ACK_VALUE", v), mb["master"])
    BY <1>3 DEF WriteReply
  <2> DEFINE p == Packed("slave", "ACK_VALUE", v)
  <2>2. p \in Packets(Known)
    BY PacketMade, MailCommand, Numbers DEF Dest
  <2>3. ~IsValue(p) /\ p.value = v
    BY DEF Packed, IsValue
  <2>4. mb["master"].contents <= v /\ v <= mb["slave"].contents
    BY <1>2 DEF Rises
  <2> HIDE DEF p
  <2> QED
    BY <1>1, <2>1, <2>2, <2>3, <2>4, ReceiveKeepsOrder DEF p
<1>4. CASE WriteNext
  <2> DEFINE p == Packed("all", "GENERAL_POLL", Zero)
  <2>1. ~HasPendingChanges(mb["master"], TRUE)
    BY <1>2 DEF SendsOwn, HasPendingChanges
  <2>2. Receive(p, mb["master"])
    BY <1>4, <2>1 DEF WriteNext
  <2>3. p \in Packets(Known)
    BY PacketMade DEF Dest, Known
  <2>4. ~IsValue(p) /\ p.value = Zero
    BY DEF Packed, IsValue
  <2>5. Zero <= mb["slave"].contents
    BY <1>2, ZeroIsLeast
  <2> HIDE DEF p
  <2> QED
    BY <1>1, <2>2, <2>3, <2>4, <2>5, ReceiveKeepsOrder
<1> QED
  BY <1>3, <1>4

(* What the controller takes is not older than what it has.                *)
LEMMA ReadRises ==
  ASSUME IndInv, OrderInv, Read, raised["master"] = {}
  PROVE  /\ mb'["slave"] = mb["slave"] /\ mb'["master"].synchronized
         /\ mb["master"].contents <= mb'["master"].contents
         /\ mb'["master"].contents <= mb["slave"].contents
         /\ mb'["master"].contents = mb["master"].contents
               \/ mb'["master"].contents = frameBuffer.packet.value
         /\ \A v \in reply' : v = mb'["master"].contents
<1>1. SendsOwn /\ HoldsLast /\ Rises /\ NoZeroSealed
  BY DEF OrderInv
<1> DEFINE m == mb["master"]
           p == frameBuffer.packet
<1>2. /\ m \in Boxes(Known) /\ mb \in [Node -> Boxes(Known)]
      /\ m.contents \in Nat /\ p.value \in Nat /\ m.synchronized
  BY <1>1, Numbers DEF IndInv, HoldsKnown, Node, SendsOwn
<1>3. ~m.callerChanged
  BY DEF IndInv, OwnIsKept
<1>4. \/ mb' = mb /\ reply' = {}
      \/ mb' = [mb EXCEPT !["master"] = AfterAck(m, p.value)] /\ reply' = {}
      \/ /\ Valid(frameBuffer) /\ IsValue(p)
         /\ mb' = [mb EXCEPT !["master"] = AfterAccept(m, p.value)]
         /\ reply' \subseteq {p.value}
  BY <1>3 DEF Read, Handle, Contended
<1>5. CASE mb' = mb /\ reply' = {}
  BY <1>1, <1>2, <1>5 DEF Rises
<1>6. CASE mb' = [mb EXCEPT !["master"] = AfterAck(m, p.value)] /\ reply' = {}
  <2>1. AfterAck(m, p.value).contents = m.contents /\ AfterAck(m, p.value).synchronized
    BY <1>2 DEF AfterAck, Boxes
  <2>2. mb'["slave"] = mb["slave"] /\ mb'["master"] = AfterAck(m, p.value)
    BY <1>2, <1>6 DEF Node
  <2> QED
    BY <1>1, <1>2, <1>6, <2>1, <2>2 DEF Rises
<1>7. CASE /\ Valid(frameBuffer) /\ IsValue(p)
           /\ mb' = [mb EXCEPT !["master"] = AfterAccept(m, p.value)]
           /\ reply' \subseteq {p.value}
  <2>1. AfterAccept(m, p.value).contents = p.value /\ AfterAccept(m, p.value).synchronized
    BY <1>2 DEF AfterAccept, Boxes
  <2>2. mb'["slave"] = mb["slave"] /\ mb'["master"] = AfterAccept(m, p.value)
    BY <1>2, <1>7 DEF Node
  <2>3. p.value # Zero
    BY <1>1, <1>7 DEF Valid, NoZeroSealed
  <2>4. m.contents <= p.value /\ p.value <= mb["slave"].contents
    BY <1>1, <2>3 DEF Rises
  <2> QED
    BY <1>7, <2>1, <2>2, <2>4
<1> QED
  BY <1>4, <1>5, <1>6, <1>7

LEMMA ReadKeepsOrder == ASSUME IndInv, OrderInv, Read PROVE OrderInv'
<1>1. UNCHANGED <<frameBuffer, pc, sum, setting, raised>>
  BY DEF Read
<1> SUFFICES ASSUME raised["master"] = {}
             PROVE  SendsOwn' /\ HoldsLast' /\ Rises' /\ NoZeroSealed'
  BY <1>1 DEF OrderInv
<1>2. SendsOwn /\ HoldsLast /\ Rises /\ NoZeroSealed
  BY DEF OrderInv
<1>3. SendsOwn' /\ HoldsLast' /\ NoZeroSealed'
  BY <1>1, <1>2, ReadRises DEF SendsOwn, HoldsLast, NoZeroSealed
<1>4. mb'["master"].contents \in Nat
  BY ReadRises, Numbers DEF Node
<1>5. Rises'
  BY <1>1, <1>2, <1>4, ReadRises DEF Rises
<1> QED
  BY <1>3, <1>5

LEMMA SetSlaveKeepsOrder ==
  ASSUME IndInv, OrderInv, NEW v \in Value, SetSlave(v)
  PROVE  OrderInv'
<1>1. /\ UNCHANGED <<mb, frameBuffer, sum, reply>>
      /\ pc = "top" /\ pc' = "contents" /\ setting' = v
      /\ raised'["slave"] = raised["slave"] \cup {v} /\ raised'["master"] = raised["master"]
  BY StoresAre DEF SetSlave, At, interrupts, IndInv, Control, Node
<1> SUFFICES ASSUME raised["master"] = {}
             PROVE  SendsOwn' /\ HoldsLast' /\ Rises' /\ NoZeroSealed'
  BY <1>1 DEF OrderInv
<1>2. SendsOwn /\ HoldsLast /\ Rises /\ NoZeroSealed
  BY DEF OrderInv
<1>3. SendsOwn' /\ Rises' /\ NoZeroSealed'
  BY <1>1, <1>2 DEF SendsOwn, Rises, NoZeroSealed
<1>4. v \in Nat /\ Zero < v /\ \A u \in raised["slave"] : u < v
  BY ValueAssumption DEF SetSlave, Fresh, Node
<1>5. mb["slave"].contents <= v
  <2>1. mb["slave"].contents \in {Zero} \cup raised["slave"] /\ mb["slave"].contents \in Nat
    BY Numbers DEF Known, Node
  <2> QED
    BY <1>4, <2>1
<1>6. HoldsLast'
  BY <1>1, <1>2, <1>4, <1>5 DEF HoldsLast
<1> QED
  BY <1>3, <1>6

LEMMA ElapseKeepsOrder ==
  ASSUME IndInv, OrderInv, NEW n \in Node, Elapse(n)
  PROVE  OrderInv'
<1>1. \A k \in Node : /\ mb'[k].contents = mb[k].contents
                      /\ mb'[k].synchronized = mb[k].synchronized
  BY DEF IndInv, HoldsKnown, Elapse, Boxes
<1>2. UNCHANGED <<frameBuffer, pc, sum, setting, reply, raised>>
  BY DEF Elapse
<1> QED
  BY <1>1, <1>2 DEF OrderInv, SendsOwn, HoldsLast, Rises, NoZeroSealed, Node

LEMMA NextKeepsOrder == ASSUME IndInv, OrderInv, [Next]_vars PROVE OrderInv'
<1>1. CASE UNCHANGED vars
  BY <1>1 DEF vars, OrderInv, SendsOwn, HoldsLast, Rises, NoZeroSealed
<1>2. ASSUME NEW v \in Value, SetMaster(v) PROVE OrderInv'
  <2>1. raised'["master"] # {}
    BY <1>2 DEF SetMaster, IndInv, Control, Node
  <2> QED
    BY <2>1 DEF OrderInv
<1> QED
  BY <1>1, <1>2, LoopKeepsOrder, StoreKeepsOrder, WriteKeepsOrder, ReadKeepsOrder,
     SetSlaveKeepsOrder, ElapseKeepsOrder DEF Next, Transaction

(* The controller's value is never replaced by an older one, whatever the  *)
(* interrupts have cleared, overwritten or sealed in the frame buffer      *)
(* (I2CDatalink.cpp 70-136, Network.cpp 96-98).                            *)
THEOREM NothingOldIsTaken == Spec => NeverBack
<1>1. ASSUME IndInv, OrderInv, [Next]_vars
      PROVE  [~mb["master"].callerChanged =>
                 mb["master"].contents <= mb["master"].contents']_vars
  <2> SUFFICES ASSUME ~mb["master"].callerChanged
               PROVE  mb["master"].contents <= mb'["master"].contents
    OBVIOUS
  <2>1. raised["master"] = {}
    BY <1>1 DEF IndInv, OwnIsKept
  <2>2. mb["master"].contents \in Nat /\ mb["master"].contents \in {Zero} \cup raised["slave"]
    BY <1>1, <2>1, Numbers DEF Known, Node
  <2>3. mb \in [Node -> Boxes(Known)]
    BY <1>1 DEF IndInv, HoldsKnown
  <2>4. CASE Read
    BY <1>1, <2>1, <2>4, ReadRises
  <2>5. ASSUME NEW v \in Value, SetMaster(v)
        PROVE  mb["master"].contents <= mb'["master"].contents
    <3>1. mb["master"].contents < v /\ v \in Nat
      BY <2>2, <2>5, ValueAssumption DEF SetMaster, Fresh, Node
    <3>2. mb'["master"].contents = v
      BY <2>3, <2>5 DEF SetMaster, SetLong, Boxes, Node
    <3> QED
      BY <2>2, <3>1, <3>2
  <2>6. CASE mb'["master"].contents = mb["master"].contents
    BY <2>2, <2>6
  <2>7. CASE Loop \/ Store \/ UNCHANGED vars \/ \E v \in Value : SetSlave(v)
    <3>1. CASE Loop
      <4>1. mb' = mb \/ mb' = [mb EXCEPT !["slave"] = AfterGenerate(@)]
        BY <3>1, LoopIs
      <4> QED
        BY <2>3, <2>6, <4>1 DEF Node
    <3>2. CASE Store
      <4>1. mb'["master"] = mb["master"]
        BY <2>3, <3>2 DEF Store, Node
      <4> QED
        BY <2>6, <4>1
    <3>3. CASE UNCHANGED vars \/ \E v \in Value : SetSlave(v)
      BY <2>6, <3>3 DEF vars, SetSlave
    <3> QED
      BY <2>7, <3>1, <3>2, <3>3
  <2>8. CASE WriteReply \/ WriteNext
    <3>1. PICK m : /\ m = mb["master"] \/ m = AfterGenerate(mb["master"])
                   /\ \E p : Receive(p, m)
      BY <2>8 DEF WriteReply, WriteNext
    <3>2. mb'["master"] = m
      BY <2>3, <3>1 DEF Receive, Node
    <3>3. m.contents = mb["master"].contents
      BY <2>3, <3>1 DEF AfterGenerate, Boxes, Node
    <3> QED
      BY <2>6, <3>2, <3>3
  <2>9. ASSUME NEW n \in Node, Elapse(n)
        PROVE  mb'["master"].contents = mb["master"].contents
    BY <2>3, <2>9 DEF Elapse, Boxes, Node
  <2> QED
    BY <1>1, <2>4, <2>5, <2>6, <2>7, <2>8, <2>9 DEF Next, Transaction
<1>2. IndInv /\ OrderInv /\ [Next]_vars => OrderInv'
  BY NextKeepsOrder
<1> QED
  BY KnownValues, InitIndInv, InitOrderInv, NextKeeps, <1>1, <1>2, PTL DEF Spec, NeverBack

-------------------------------------------------------------------------------
(* One value at both ends.                                                 *)

(* The device is done, and has been with the value the controller holds.   *)
(* Within setLong() the flag is behind the contents.                       *)
Agree == mb["slave"].synchronized /\ pc # "synchronized"
            => mb["slave"].contents = mb["master"].contents

Ack(p) == p.dest = "master" /\ ~IsValue(p)

(* What the controller would take for an acknowledgement is in the buffer. *)
(* Before it writes the command the main program has put the header of a   *)
(* packet of its own over what an interrupt has left there: that only      *)
(* counts if the checksum is right.                                        *)
Answered == /\ Ack(frameBuffer.packet)
            /\ pc = "writeCommand" => frameBuffer.crc = frameBuffer.packet

(* It never is while the device is done: the device was not when it was    *)
(* polled, and since then only the controller can have changed that, with  *)
(* a frame that has left another checksum.                                 *)
NoAckMade == pc \in {"blank", "source", "endpoint", "writeCommand"} /\ mb["slave"].synchronized
                => ~Ack(frameBuffer.crc)

(* A controller that has set a value is done only when the device has      *)
(* taken it; so is one that is about to read an acknowledgement, or the    *)
(* device would still have to push.  While it owes a reply it is not done. *)
AgreeInv ==
  /\ raised["master"] = {} => reply \subseteq {mb["master"].contents}
  /\ raised["master"] # {} /\ mb["master"].synchronized => reply = {}
  /\ \/ raised["master"] = {}
     \/ mb["master"].synchronized
     \/ stage # "idle" /\ Answered
     => Agree

LEMMA InitAgreeInv == Init => NoAckMade /\ AgreeInv
BY DEF Init, NoAckMade, AgreeInv, Agree, Node, NewMailbox

(* Only the main program itself and the writes of the controller touch the *)
(* checksum.                                                               *)
LEMMA LoopMakesNoAck == ASSUME IndInv, NoAckMade, Loop PROVE NoAckMade'
<1> USE DEF NoAckMade
<1>1. mb'["slave"].synchronized = mb["slave"].synchronized
  <2>1. mb' = mb \/ mb' = [mb EXCEPT !["slave"] = AfterGenerate(@)]
    BY LoopIs
  <2>2. mb["slave"] \in Boxes(Known) /\ mb \in [Node -> Boxes(Known)]
    BY DEF IndInv, HoldsKnown, Node
  <2>3. AfterGenerate(mb["slave"]).synchronized = mb["slave"].synchronized
    BY <2>2 DEF AfterGenerate, Boxes
  <2> QED
    BY <2>1, <2>2, <2>3 DEF Node
<1>2. CASE PollMailbox
  BY <1>1, <1>2 DEF PollMailbox, At
<1>3. CASE Blank \/ WriteSource \/ WriteEndpoint
  <2>1. frameBuffer'.crc = frameBuffer.crc /\ pc \in {"blank", "source", "endpoint"}
    BY <1>3 DEF Blank, ClearHeader, SetSource, WriteSource, WriteEndpoint, At, IndInv, HoldsKnown
  <2> QED
    BY <1>1, <2>1
<1>4. CASE \/ Top \/ Clear \/ SetAddress \/ PollTimer \/ WriteCommand \/ WriteContents \/ ResetTimer
           \/ Sum \/ Seal \/ Queue \/ Done
  <2>1. pc' \in {"top", "clear", "address", "ready", "poll", "writeContents", "reset", "sum",
                 "seal", "queue", "done"}
    BY <1>4 DEF At, Top, Clear, ClearHeader, SetAddress, SetSource, PollTimer, WriteCommand,
       WriteContents, ResetTimer, Sum, Seal, Queue, Done
  <2> QED
    BY <2>1
<1> QED
  BY <1>2, <1>3, <1>4 DEF Loop, Generate

LEMMA ReceiveMakesNoAck ==
  ASSUME NEW p, NEW m, Receive(p, m), p.dest # "master"
  PROVE  ~Ack(frameBuffer'.crc)
<1> DEFINE box == HandledBox(p)
           polled == Packed("master", GeneratedCommand(box), box.contents)
           due == HasPendingChanges(box, TRUE)
<1>1. frameBuffer' = CASE due -> [packet |-> polled, crc |-> polled]
                       [] ~due /\ Accepted(p) ->
                            [packet |-> Packed("master", "ACK_VALUE", p.value), crc |-> p]
                       [] OTHER -> [packet |-> p, crc |-> p]
  BY DEF Receive
<1>2. IsValue(polled)
  BY DEF Packed, IsValue, GeneratedCommand
<1>3. due \in BOOLEAN /\ Accepted(p) \in BOOLEAN
  BY DEF HasPendingChanges, TimerReady, Accepted, IsValue
<1> HIDE DEF polled, due
<1>4. frameBuffer'.crc = polled \/ frameBuffer'.crc = p
  BY <1>1, <1>3
<1> QED
  BY <1>2, <1>4 DEF Ack

LEMMA NextMakesNoAck == ASSUME IndInv, NoAckMade, [Next]_vars PROVE NoAckMade'
<1>1. CASE UNCHANGED vars
  BY <1>1 DEF vars, NoAckMade
<1>2. CASE Store
  <2>1. pc' \in Range(Stores) \cup {"top"}
    BY <1>2, StoresAre DEF Store, At, Range
  <2> QED
    BY <2>1, StoresAre DEF NoAckMade, Range
<1>3. CASE WriteReply
  <2>1. PICK v \in reply : Receive(Packed("slave", "ACK_VALUE", v), mb["master"])
    BY <1>3 DEF WriteReply
  <2>2. Packed("slave", "ACK_VALUE", v).dest # "master"
    BY DEF Packed
  <2> QED
    BY <2>1, <2>2, ReceiveMakesNoAck DEF NoAckMade
<1>4. CASE WriteNext
  <2> DEFINE poll == Packed("all", "GENERAL_POLL", Zero)
             value == Packed("slave", GeneratedCommand(mb["master"]), mb["master"].contents)
  <2>1. poll.dest # "master" /\ value.dest # "master"
    BY DEF Packed
  <2>2. Receive(poll, mb["master"]) \/ Receive(value, AfterGenerate(mb["master"]))
    BY <1>4 DEF WriteNext
  <2> HIDE DEF poll, value
  <2> QED
    BY <2>1, <2>2, ReceiveMakesNoAck DEF NoAckMade
<1>5. CASE Read
  <2>1. UNCHANGED <<frameBuffer, pc>> /\ mb'["slave"] = mb["slave"]
    BY <1>5 DEF Read, Handle, IndInv, HoldsKnown, Node
  <2> QED
    BY <2>1 DEF NoAckMade
<1>6. ASSUME NEW v \in Value, SetSlave(v) PROVE NoAckMade'
  BY <1>6, StoresAre DEF SetSlave, At, NoAckMade
<1>7. ASSUME NEW v \in Value, SetMaster(v) PROVE NoAckMade'
  <2>1. UNCHANGED <<frameBuffer, pc>> /\ mb'["slave"] = mb["slave"]
    BY <1>7 DEF SetMaster, IndInv, HoldsKnown, Node
  <2> QED
    BY <2>1 DEF NoAckMade
<1>8. ASSUME NEW n \in Node, Elapse(n) PROVE NoAckMade'
  <2>1. /\ UNCHANGED <<frameBuffer, pc>>
        /\ mb'["slave"].synchronized = mb["slave"].synchronized
    BY <1>8 DEF Elapse, IndInv, HoldsKnown, Boxes, Node
  <2> QED
    BY <2>1 DEF NoAckMade
<1> QED
  BY <1>1, <1>2, <1>3, <1>4, <1>5, <1>6, <1>7, <1>8, LoopMakesNoAck DEF Next, Transaction

LEMMA LoopAgrees == ASSUME IndInv, NoAckMade, AgreeInv, Loop PROVE AgreeInv'
<1> USE DEF interrupts
<1>1. UNCHANGED <<stage, reply, raised>>
  BY LoopIs
<1>2. /\ mb'["master"] = mb["master"]
      /\ mb'["slave"].contents = mb["slave"].contents
      /\ mb'["slave"].synchronized = mb["slave"].synchronized
  <2>1. mb' = mb \/ mb' = [mb EXCEPT !["slave"] = AfterGenerate(@)]
    BY LoopIs
  <2>2. mb \in [Node -> Boxes(Known)] /\ mb["slave"] \in Boxes(Known)
    BY DEF IndInv, HoldsKnown, Node
  <2>3. /\ AfterGenerate(mb["slave"]).contents = mb["slave"].contents
        /\ AfterGenerate(mb["slave"]).synchronized = mb["slave"].synchronized
    BY <2>2 DEF AfterGenerate, Boxes
  <2> QED
    BY <2>1, <2>2, <2>3 DEF Node
<1>3. pc # "synchronized" /\ pc' # "synchronized"
  BY LoopIs
<1>4. Agree => Agree'
  BY <1>2, <1>3 DEF Agree
<1>5. Answered' => Answered \/ ~mb["slave"].synchronized
  <2>1. frameBuffer \in [packet : Packets(Known), crc : Packets(Known)]
    BY DEF IndInv, HoldsKnown
  <2>2. frameBuffer.packet \in Packets(Known)
    BY <2>1
  <2>3. CASE UNCHANGED frameBuffer /\ pc # "writeCommand"
    BY <2>3 DEF Answered
  <2>4. CASE Clear \/ Blank
    BY <2>1, <2>4, HeaderCleared DEF Clear, Blank, Answered, Ack
  <2>5. CASE SetAddress \/ WriteSource
    <3>1. /\ frameBuffer'.packet.dest = frameBuffer.packet.dest
          /\ frameBuffer'.packet.command = frameBuffer.packet.command
          /\ pc # "writeCommand"
      BY <2>1, <2>2, <2>5 DEF SetAddress, SetSource, WriteSource, At, Packets
    <3> QED
      BY <3>1 DEF Answered, Ack, IsValue
  <2>6. CASE WriteEndpoint
    <3>1. /\ frameBuffer'.crc = frameBuffer.crc
          /\ pc = "endpoint" /\ pc' = "writeCommand"
      BY <2>1, <2>6 DEF WriteEndpoint, At
    <3>2. Answered' => Ack(frameBuffer.crc)
      BY <3>1 DEF Answered
    <3> QED
      BY <3>1, <3>2 DEF NoAckMade
  <2>7. CASE WriteCommand
    <3>1. frameBuffer'.packet.command = GeneratedCommand(mb["slave"])
      BY <2>1, <2>2, <2>7 DEF WriteCommand, Packets
    <3> QED
      BY <3>1 DEF Answered, Ack, GeneratedCommand, IsValue
  <2>8. CASE WriteContents
    <3>1. /\ frameBuffer'.packet.command = frameBuffer.packet.command
          /\ frameBuffer'.packet.dest = frameBuffer.packet.dest
          /\ pc = "writeContents"
      BY <2>1, <2>2, <2>8 DEF WriteContents, At, Packets
    <3> QED
      BY <3>1 DEF Answered, Ack, IsValue
  <2>9. CASE Seal
    <3>1. frameBuffer'.packet = frameBuffer.packet /\ pc = "seal"
      BY <2>1, <2>9 DEF Seal, At
    <3> QED
      BY <3>1 DEF Answered
  <2>10. CASE Top \/ PollTimer \/ PollMailbox \/ ResetTimer \/ Sum \/ Queue \/ Done
    BY <2>3, <2>10 DEF At, Top, PollTimer, PollMailbox, ResetTimer, Sum, Queue, Done
  <2> QED
    BY <2>4, <2>5, <2>6, <2>7, <2>8, <2>9, <2>10 DEF Loop, Generate
<1>6. ~mb["slave"].synchronized => Agree'
  BY <1>2 DEF Agree
<1> QED
  BY <1>1, <1>2, <1>4, <1>5, <1>6 DEF AgreeInv

LEMMA StoreAgrees == ASSUME IndInv, AgreeInv, Store PROVE AgreeInv'
<1> USE DEF interrupts
<1>1. PICK k \in 1..5 :
        /\ At(Stores[k], IF k < 5 THEN Stores[k + 1] ELSE "top")
        /\ mb' = [mb EXCEPT !["slave"][Stores[k]] = SetLong(mb["slave"], setting)[Stores[k]]]
  BY StoresAre DEF Store
<1>2. UNCHANGED <<frameBuffer, stage, reply, raised>>
  BY DEF Store
<1>3. mb["slave"] \in Boxes(Known) /\ mb \in [Node -> Boxes(Known)]
  BY DEF IndInv, HoldsKnown, Node
<1>4. mb'["master"] = mb["master"]
  BY <1>1, <1>3 DEF Node
<1>5. Agree => Agree'
  <2>1. CASE k = 1
    <3>1. pc' = "synchronized"
      BY <1>1, <2>1, StoresAre DEF At
    <3> QED
      BY <3>1 DEF Agree
  <2>2. CASE k = 2
    <3>1. ~mb'["slave"].synchronized
      BY <1>1, <1>3, <2>2, StoresAre DEF SetLong, Boxes, Node
    <3> QED
      BY <3>1 DEF Agree
  <2>3. CASE k # 1 /\ k # 2
    <3>1. Stores[k] \in {"callerChanged", "changeTrigger", "waiting"}
      BY <2>3, StoresAre
    <3>2. pc # "synchronized"
      BY <1>1, <3>1 DEF At
    <3>3. /\ mb'["slave"].contents = mb["slave"].contents
          /\ mb'["slave"].synchronized = mb["slave"].synchronized
      BY <1>1, <1>3, <3>1 DEF Boxes, Node
    <3> QED
      BY <1>4, <3>2, <3>3 DEF Agree
  <2> QED
    BY <2>1, <2>2, <2>3
<1>6. pc # "writeCommand"
  BY <1>1, StoresAre DEF At
<1> QED
  BY <1>2, <1>4, <1>5, <1>6 DEF AgreeInv, Answered

(* The controller writes the value it holds, or what it owes a reply to,   *)
(* or a general poll.                                                      *)
LEMMA ReceiveAgrees ==
  ASSUME IndInv, AgreeInv, NEW p \in Packets(Known), NEW m \in Boxes(Known), Receive(p, m),
         m.contents = mb["master"].contents, m.synchronized = mb["master"].synchronized,
         UNCHANGED <<reply, pc, raised>>, p.dest # "master",
         Accepted(p) => p.value = mb["master"].contents,
         p.dest = "slave" /\ ~IsValue(p) => p.value \in reply
  PROVE  AgreeInv'
<1> DEFINE box == HandledBox(p)
           polled == Packed("master", GeneratedCommand(box), box.contents)
           due == HasPendingChanges(box, TRUE)
<1>1. mb["slave"] \in Boxes(Known) /\ mb \in [Node -> Boxes(Known)] /\ p.value \in Known
  BY DEF IndInv, HoldsKnown, Node, Packets
<1>2. /\ mb' = [mb EXCEPT !["master"] = m, !["slave"] = IF due THEN AfterGenerate(box) ELSE box]
      /\ frameBuffer' = CASE due -> [packet |-> polled, crc |-> polled]
                          [] ~due /\ Accepted(p) ->
                               [packet |-> Packed("master", "ACK_VALUE", p.value), crc |-> p]
                          [] OTHER -> [packet |-> p, crc |-> p]
  BY DEF Receive
<1>3. Accepted(p) => box = AfterAccept(mb["slave"], p.value)
  BY DEF HandledBox, Accepted
<1>4. p.dest = "slave" /\ ~IsValue(p) => box = AfterAck(mb["slave"], p.value)
  BY DEF HandledBox, Accepted
<1>5. p.dest # "slave" => box = mb["slave"]
  BY DEF HandledBox, Accepted
<1>6. box \in Boxes(Known)
  BY <1>1, BoxesKept DEF HandledBox
<1>7. IsValue(polled)
  BY DEF Packed, IsValue, GeneratedCommand
<1>8. due \in BOOLEAN
  BY <1>6 DEF HasPendingChanges, TimerReady, Boxes
<1> HIDE DEF box, polled, due
<1>9. /\ AfterGenerate(box).contents = box.contents
      /\ AfterGenerate(box).synchronized = box.synchronized
  BY <1>6 DEF AfterGenerate, Boxes
<1>10. /\ mb'["master"] = m /\ mb'["slave"].contents = box.contents
       /\ mb'["slave"].synchronized = box.synchronized
  BY <1>1, <1>2, <1>9 DEF Node
<1>11. CASE Accepted(p)
  <2>1. box.contents = mb["master"].contents
    BY <1>1, <1>3, <1>11 DEF AfterAccept, Boxes
  <2>2. Agree'
    BY <1>10, <2>1 DEF Agree
  <2> QED
    BY <1>10, <2>2 DEF AgreeInv
<1>12. CASE ~Accepted(p)
  <2>1. ~Answered'
    <3>1. frameBuffer'.packet = polled \/ frameBuffer'.packet = p
      BY <1>2, <1>8, <1>12
    <3> QED
      BY <1>7, <3>1 DEF Answered, Ack
  <2>2. CASE p.dest = "slave"
    <3>1. p.value \in reply /\ box = AfterAck(mb["slave"], p.value)
      BY <1>4, <1>12, <2>2 DEF Accepted
    <3>2. /\ box.contents = mb["slave"].contents
          /\ box.synchronized => mb["slave"].synchronized \/ p.value = mb["slave"].contents
      BY <1>1, <3>1 DEF AfterAck, Boxes
    <3>3. raised["master"] = {} => Agree'
      BY <1>10, <3>1, <3>2 DEF AgreeInv, Agree
    <3> QED
      BY <1>10, <2>1, <3>1, <3>3 DEF AgreeInv
  <2>3. CASE p.dest # "slave"
    BY <1>5, <1>10, <2>1, <2>3 DEF AgreeInv, Agree
  <2> QED
    BY <2>2, <2>3
<1> QED
  BY <1>11, <1>12

LEMMA WriteReplyAgrees == ASSUME IndInv, AgreeInv, WriteReply PROVE AgreeInv'
<1>1. PICK v \in reply : Receive(Packed("slave", "ACK_VALUE", v), mb["master"])
  BY DEF WriteReply
<1>2. UNCHANGED <<reply, pc, raised>>
  BY DEF WriteReply
<1> DEFINE p == Packed("slave", "ACK_VALUE", v)
<1>3. p \in Packets(Known) /\ mb["master"] \in Boxes(Known)
  BY PacketMade, MailCommand DEF IndInv, HoldsKnown, Dest, Node
<1>4. p.dest = "slave" /\ ~IsValue(p) /\ p.value = v
  BY DEF Packed, IsValue
<1>5. Receive(p, mb["master"])
  BY <1>1
<1> HIDE DEF p
<1> QED
  BY <1>1, <1>2, <1>3, <1>4, <1>5, ReceiveAgrees DEF Accepted

LEMMA WriteNextAgrees == ASSUME IndInv, AgreeInv, WriteNext PROVE AgreeInv'
<1> DEFINE m == mb["master"]
           g == AfterGenerate(m)
           p == Packed("slave", GeneratedCommand(m), m.contents)
           q == Packed("all", "GENERAL_POLL", Zero)
<1>1. UNCHANGED <<reply, pc, raised>>
  BY DEF WriteNext
<1>2. m \in Boxes(Known) /\ m.contents \in Known /\ Zero \in Known
  BY DEF IndInv, HoldsKnown, Node, Boxes, Known
<1>3. g \in Boxes(Known) /\ g.contents = m.contents /\ g.synchronized = m.synchronized
  BY <1>2 DEF AfterGenerate, Boxes
<1>4. p \in Packets(Known) /\ q \in Packets(Known)
  BY <1>2, PacketMade, MailCommand DEF Dest
<1>5. /\ p.dest = "slave" /\ p.value = m.contents /\ IsValue(p)
      /\ q.dest = "all" /\ ~IsValue(q)
  BY DEF Packed, IsValue, GeneratedCommand
<1>6. Receive(p, g) \/ Receive(q, m)
  BY DEF WriteNext
<1> HIDE DEF p, q, g
<1>7. CASE Receive(p, g)
  BY <1>1, <1>3, <1>4, <1>5, <1>7, ReceiveAgrees
<1>8. CASE Receive(q, m)
  BY <1>1, <1>2, <1>4, <1>5, <1>8, ReceiveAgrees DEF Accepted
<1> QED
  BY <1>6, <1>7, <1>8

LEMMA ReadAgrees == ASSUME IndInv, OrderInv, AgreeInv, Read PROVE AgreeInv'
<1> DEFINE m == mb["master"]
           p == frameBuffer.packet
<1>1. UNCHANGED <<pc, raised>> /\ stage # "idle" /\ stage' = "idle"
  BY DEF Read
<1>2. m \in Boxes(Known) /\ mb \in [Node -> Boxes(Known)]
  BY DEF IndInv, HoldsKnown, Node
<1>3. CASE raised["master"] = {}
  <2>1. /\ mb'["slave"] = mb["slave"]
        /\ m.contents <= mb'["master"].contents
        /\ mb'["master"].contents <= mb["slave"].contents
        /\ mb'["master"].contents = m.contents \/ mb'["master"].contents = p.value
        /\ \A v \in reply' : v = mb'["master"].contents
    BY <1>3, ReadRises
  <2>2. m.contents \in Nat /\ mb["slave"].contents \in Nat /\ mb'["master"].contents \in Nat
    BY <2>1, Numbers DEF Node
  <2>3. Agree
    BY <1>3 DEF AgreeInv
  <2>4. Agree'
    BY <1>1, <2>1, <2>2, <2>3 DEF Agree
  <2> QED
    BY <1>1, <1>3, <2>1, <2>4 DEF AgreeInv
<1>4. CASE raised["master"] # {}
  <2>1. m.callerChanged
    BY <1>4 DEF IndInv, OwnIsKept
  <2>2. \/ mb' = mb /\ reply' = {}
        \/ /\ Answered /\ reply' = {}
           /\ mb' = [mb EXCEPT !["master"] = AfterAck(m, p.value)]
        \/ mb' = [mb EXCEPT !["master"] = AfterDisregard(m)]
    BY <2>1 DEF Read, Handle, Contended, Valid, FromDevice, Answered, Ack
  <2>3. CASE mb' = mb /\ reply' = {}
    BY <1>1, <1>4, <2>3 DEF AgreeInv, Agree
  <2>4. CASE /\ Answered /\ reply' = {}
             /\ mb' = [mb EXCEPT !["master"] = AfterAck(m, p.value)]
    <3>1. Agree
      BY <1>1, <2>4 DEF AgreeInv
    <3>2. mb'["slave"] = mb["slave"] /\ mb'["master"].contents = m.contents
      BY <1>2, <2>4 DEF AfterAck, Boxes, Node
    <3> QED
      BY <1>1, <1>4, <2>4, <3>1, <3>2 DEF AgreeInv, Agree
  <2>5. CASE mb' = [mb EXCEPT !["master"] = AfterDisregard(m)]
    <3>1. ~mb'["master"].synchronized
      BY <1>2, <2>5 DEF AfterDisregard, Boxes, Node
    <3> QED
      BY <1>1, <1>4, <3>1 DEF AgreeInv
  <2> QED
    BY <2>2, <2>3, <2>4, <2>5
<1> QED
  BY <1>3, <1>4

LEMMA NextAgrees == ASSUME IndInv, OrderInv, NoAckMade, AgreeInv, [Next]_vars PROVE AgreeInv'
<1>1. CASE UNCHANGED vars
  BY <1>1 DEF vars, AgreeInv, Agree, Answered
<1>2. ASSUME NEW v \in Value, SetSlave(v) PROVE AgreeInv'
  <2>1. /\ UNCHANGED <<mb, frameBuffer, stage, reply>> /\ raised'["master"] = raised["master"]
        /\ pc = "top"
    BY <1>2, StoresAre DEF SetSlave, At, interrupts, IndInv, Control, Node
  <2> QED
    BY <2>1 DEF AgreeInv, Agree, Answered
<1>3. ASSUME NEW v \in Value, SetMaster(v) PROVE AgreeInv'
  <2>1. raised'["master"] # {} /\ stage' = "idle"
    BY <1>3 DEF SetMaster, IndInv, Control, Node
  <2>2. ~mb'["master"].synchronized
    BY <1>3 DEF SetMaster, SetLong, IndInv, HoldsKnown, Boxes, Node
  <2> QED
    BY <2>1, <2>2 DEF AgreeInv
<1>4. ASSUME NEW n \in Node, Elapse(n) PROVE AgreeInv'
  <2>1. \A k \in Node : /\ mb'[k].contents = mb[k].contents
                        /\ mb'[k].synchronized = mb[k].synchronized
    BY <1>4 DEF IndInv, HoldsKnown, Elapse, Boxes
  <2>2. UNCHANGED <<frameBuffer, pc, stage, reply, raised>>
    BY <1>4 DEF Elapse
  <2> QED
    BY <2>1, <2>2 DEF AgreeInv, Agree, Answered, Node
<1> QED
  BY <1>1, <1>2, <1>3, <1>4, LoopAgrees, StoreAgrees, WriteReplyAgrees, WriteNextAgrees,
     ReadAgrees DEF Next, Transaction

(* Both ends done means one value at both, wherever the device's main      *)
(* program is, although a reply on I2C may be overwritten, read twice or   *)
(* never read (I2CDatalink.cpp 78, 92, 136, 152).                          *)
THEOREM BothHoldOneValue == Spec => []InSync
<1>1. IndInv /\ OrderInv /\ NoAckMade /\ AgreeInv /\ [Next]_vars => NoAckMade' /\ AgreeInv'
  BY NextMakesNoAck, NextAgrees
<1>2. IndInv /\ OrderInv /\ [Next]_vars => OrderInv'
  BY NextKeepsOrder
<1>3. AgreeInv => InSync
  <2>1. "synchronized" \in Range(Stores)
    BY StoresAre DEF Range
  <2> QED
    BY <2>1 DEF AgreeInv, Agree, InSync, Storing
<1> QED
  BY InitIndInv, InitOrderInv, InitAgreeInv, NextKeeps, <1>1, <1>2, <1>3, PTL DEF Spec
===============================================================================
