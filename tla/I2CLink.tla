-------------------------------- MODULE I2CLink --------------------------------
(***************************************************************************)
(* A controller and one device on the I2C bus (I2CDatalink under Network   *)
(* and one mailbox).  The bus is owned by the controller: every frame it   *)
(* sends is a write to the device followed by a read from it, and the      *)
(* device can only answer in that read.                                    *)
(*                                                                         *)
(* On the device the Wire library calls receiveEvent and requestEvent from *)
(* an interrupt, between any two steps of the main program, which is a     *)
(* program counter; a step is one access to a field that the interrupts    *)
(* use too: of the packet, its checksum, returnFrameSize, pendingPacket or *)
(* the mailbox.  The bytes within a field are not told apart.  The         *)
(* controller has one thread.                                              *)
(*                                                                         *)
(* A checksum is the packet it was computed over: no two packets have the  *)
(* same one.  Addresses are assigned, bytes do not change on the bus, all  *)
(* mailbox packets have one size, and the clocks are past the first retry  *)
(* period.                                                                 *)
(***************************************************************************)
EXTENDS Naturals, Sequences, Functions, SmallMailbox

ASSUME ValueAssumption == Value \subseteq Nat

VARIABLES mb,             \* mb[n]: the mailbox of node n
          frameBuffer,    \* the device's frame buffer
          returnFrame,    \* returnFrameSize > 0 on the device
          pendingPacket,  \* pendingPacket on the device
          pc,             \* where the device's main program is
          deferred,       \* what it is sending is the deferred reply
          sum,            \* the checksum it has computed
          setting,        \* the value setLong is about to store
          stage,          \* where the controller is in a transaction
          reply,          \* the controller's deferred reply: the value to acknowledge
          raised,         \* history: the values n's application stored
          queued          \* history: the packet queued and not read since, if any

vars == <<mb, frameBuffer, returnFrame, pendingPacket, pc, deferred, sum, setting,
          stage, reply, raised, queued>>

Node == {"master", "slave"}

Packet == [dest : {"none", "master", "slave", "all"}, src : {"none", "master", "slave"},
           command : Command \cup {"GENERAL_POLL"}, value : Value]

(* A packet from the other node.                                           *)
Sender(dest) == CASE dest = "master" -> "slave" [] dest = "none" -> "none" [] OTHER -> "master"
PackedSwapped(dest, command, value) ==  \* mutant: two fields of the header exchanged
  [dest |-> Sender(dest), src |-> dest, command |-> command, value |-> value]
Packed(dest, command, value) ==
  [dest |-> dest, src |-> Sender(dest), command |-> command, value |-> value]
Nothing == Packed("none", "GENERAL_POLL", Zero)

Stores == <<"contents", "synchronized", "callerChanged", "changeTrigger", "waiting">>
MainAt == {"top", "clear", "address", "ready", "poll", "blank", "source", "endpoint",
           "writeCommand", "writeContents", "reset", "sum", "seal", "queue", "done"} \cup Range(Stores)

TypeOK == /\ mb \in [Node -> Mailbox]
          /\ frameBuffer \in [packet : Packet, crc : Packet]
          /\ returnFrame \in BOOLEAN /\ pendingPacket \in BOOLEAN /\ deferred \in BOOLEAN
          /\ pc \in MainAt
          /\ sum \in Packet
          /\ setting \in Value
          /\ stage \in {"idle", "replying", "polling"}
          /\ reply \in SUBSET Value
          /\ raised \in [Node -> SUBSET Value]
          /\ queued \in SUBSET Packet

Init == /\ mb = [n \in Node |-> NewMailbox]
        /\ frameBuffer = [packet |-> Nothing, crc |-> Nothing]
        /\ returnFrame = FALSE /\ pendingPacket = FALSE /\ deferred = FALSE
        /\ pc = "top"
        /\ sum = Nothing
        /\ setting = Zero
        /\ stage = "idle"
        /\ reply = {}
        /\ raised = [n \in Node |-> {}]
        /\ queued = {}

Fresh(v) == \A n \in Node : \A u \in raised[n] \cup {Zero} : u < v

(* The retry period of n's mailbox is over.                                *)
Elapse(n) ==
  /\ mb[n].waiting
  /\ mb' = [mb EXCEPT ![n].waiting = FALSE]
  /\ UNCHANGED <<frameBuffer, returnFrame, pendingPacket, pc, deferred, sum, setting,
                 stage, reply, raised, queued>>

-------------------------------------------------------------------------------
(* The main program of the device: Network::loop() with the datalink's     *)
(* sendFrame(), one access to what the interrupts share at a time.         *)

interrupts == <<stage, reply>>

At(here, there) == pc = here /\ pc' = there

(* The top of loop(): the deferred reply goes first.                       *)
Top ==
  /\ At("top", IF pendingPacket THEN "sum" ELSE "clear")
  /\ deferred' = pendingPacket
  /\ UNCHANGED <<mb, frameBuffer, returnFrame, pendingPacket, sum, setting, interrupts,
                 raised, queued>>

(* PacketHeader::clear() and the device's own address: by sendNextPacket() *)
(* before anybody is asked, and again by pointPacketToEndpoint().          *)
ClearHeader(here, there) ==
  /\ At(here, there)
  /\ frameBuffer' = [frameBuffer EXCEPT !.packet = [@ EXCEPT !.dest = "none", !.src = "none"]]
  /\ UNCHANGED <<mb, returnFrame, pendingPacket, deferred, sum, setting, interrupts,
                 raised, queued>>

SetSource(here, there) ==
  /\ At(here, there)
  /\ frameBuffer' = [frameBuffer EXCEPT !.packet.src = "slave"]
  /\ UNCHANGED <<mb, returnFrame, pendingPacket, deferred, sum, setting, interrupts,
                 raised, queued>>

Clear == ClearHeader("clear", "address")
SetAddress == SetSource("address", "ready")

(* hasPendingChanges() reads the retry timer first.                        *)
PollTimer ==
  /\ At("ready", IF TimerReady(mb["slave"], TRUE) THEN "poll" ELSE "top")
  /\ UNCHANGED <<mb, frameBuffer, returnFrame, pendingPacket, deferred, sum, setting,
                 interrupts, raised, queued>>

PollMailbox ==
  /\ At("poll", IF mb["slave"].synchronized THEN "top" ELSE "blank")
  /\ UNCHANGED <<mb, frameBuffer, returnFrame, pendingPacket, deferred, sum, setting,
                 interrupts, raised, queued>>

(* MailboxService::pollPacket() of a mailbox that was due: the header, ... *)
Blank == ClearHeader("blank", "source")

WriteSource == SetSource("source", "endpoint")

WriteEndpoint ==
  /\ At("endpoint", "writeCommand")
  /\ frameBuffer' = [frameBuffer EXCEPT !.packet.dest = "master"]
  /\ UNCHANGED <<mb, returnFrame, pendingPacket, deferred, sum, setting, interrupts,
                 raised, queued>>

(* ... and generateMessage(): command, contents and the retry timer.       *)
WriteCommand ==
  /\ At("writeCommand", "writeContents")
  /\ frameBuffer' = [frameBuffer EXCEPT !.packet.command = GeneratedCommand(mb["slave"])]
  /\ UNCHANGED <<mb, returnFrame, pendingPacket, deferred, sum, setting, interrupts,
                 raised, queued>>

WriteContents ==
  /\ At("writeContents", "reset")
  /\ frameBuffer' = [frameBuffer EXCEPT !.packet.value = mb["slave"].contents]
  /\ UNCHANGED <<mb, returnFrame, pendingPacket, deferred, sum, setting, interrupts,
                 raised, queued>>

ResetTimer ==
  /\ At("reset", "sum")
  /\ mb' = [mb EXCEPT !["slave"] = AfterGenerate(@)]
  /\ UNCHANGED <<frameBuffer, returnFrame, pendingPacket, deferred, sum, setting, interrupts,
                 raised, queued>>

(* finalizePacketToFrame(): a packet to nobody is refused, any other gets  *)
(* its checksum.                                                           *)
Sum ==
  /\ At("sum", IF frameBuffer.packet.dest # "none" THEN "seal"
               ELSE IF deferred THEN "done" ELSE "top")
  /\ sum' = frameBuffer.packet
  /\ UNCHANGED <<mb, frameBuffer, returnFrame, pendingPacket, deferred, setting, interrupts,
                 raised, queued>>

Seal ==
  /\ At("seal", "queue")
  /\ frameBuffer' = [frameBuffer EXCEPT !.crc = sum]
  /\ UNCHANGED <<mb, returnFrame, pendingPacket, deferred, sum, setting, interrupts,
                 raised, queued>>

(* sendFrame() of a slave: the frame waits for the next read.              *)
Queue ==
  /\ At("queue", IF deferred THEN "done" ELSE "top")
  /\ returnFrame' = TRUE
  /\ queued' = {frameBuffer.packet}
  /\ sum' = Nothing
  /\ UNCHANGED <<mb, frameBuffer, pendingPacket, deferred, setting, interrupts, raised>>

(* Back in loop(), after the deferred reply.                               *)
Done ==
  /\ At("done", "top")
  /\ pendingPacket' = FALSE
  /\ sum' = Nothing
  /\ UNCHANGED <<mb, frameBuffer, returnFrame, deferred, setting, interrupts, raised, queued>>

Generate == Blank \/ WriteSource \/ WriteEndpoint \/ WriteCommand \/ WriteContents \/ ResetTimer
Loop == \/ Top \/ Clear \/ SetAddress \/ PollTimer \/ PollMailbox \/ Generate
        \/ Sum \/ Seal \/ Queue \/ Done

(* The application calls setLong(v) between two calls of loop(); the five  *)
(* stores are made one by one.                                             *)
SetSlave(v) ==
  /\ At("top", Stores[1])
  /\ Fresh(v)
  /\ setting' = v
  /\ raised' = [raised EXCEPT !["slave"] = @ \cup {v}]
  /\ UNCHANGED <<mb, frameBuffer, returnFrame, pendingPacket, deferred, sum, interrupts, queued>>

Store ==
  /\ \E k \in 1..Len(Stores) :
        /\ At(Stores[k], IF k < Len(Stores) THEN Stores[k + 1] ELSE "top")
        /\ mb' = [mb EXCEPT !["slave"][Stores[k]] = SetLong(mb["slave"], setting)[Stores[k]]]
        /\ setting' = IF k < Len(Stores) THEN setting ELSE Zero
  /\ UNCHANGED <<frameBuffer, returnFrame, pendingPacket, deferred, sum, interrupts,
                 raised, queued>>

-------------------------------------------------------------------------------
(* The interrupts, which the controller causes by what it does on the bus. *)

(* receiveEvent() with packet p: the frame buffer, the mailbox and         *)
(* pendingPacket after handleFrame(), m being the controller's mailbox.    *)
Accepted(p) == p.dest = "slave" /\ IsValue(p)

HandledBox(p) == CASE Accepted(p) -> AfterAccept(mb["slave"], p.value)
                   [] p.dest = "slave" /\ ~IsValue(p) -> AfterAck(mb["slave"], p.value)
                   [] OTHER -> mb["slave"]

(* ... and after pollFrame(), which is called whatever handleFrame() did:  *)
(* returnFrameSize was zeroed before, and a reply only sets pendingPacket. *)
Receive(p, m) ==
  LET box == HandledBox(p)
      polled == Packed("master", GeneratedCommand(box), box.contents)
      due == HasPendingChanges(box, TRUE)
  IN  /\ pendingPacket' = (pendingPacket \/ Accepted(p))
      /\ returnFrame' = due
      /\ mb' = [mb EXCEPT !["master"] = m, !["slave"] = IF due THEN AfterGenerate(box) ELSE box]
      /\ frameBuffer' = CASE due -> [packet |-> polled, crc |-> polled]
                          [] ~due /\ Accepted(p) ->
                               [packet |-> Packed("master", "ACK_VALUE", p.value), crc |-> p]
                          [] OTHER -> [packet |-> p, crc |-> p]

(* What the controller's loop() writes: its deferred reply first, or what  *)
(* the services have to send.  Device control is asked before any mailbox: *)
(* a general poll goes out whenever its interval has passed.               *)
WriteReply ==
  /\ stage = "idle" /\ stage' = "replying"
  /\ \E v \in reply : Receive(Packed("slave", "ACK_VALUE", v), mb["master"])
  /\ UNCHANGED <<reply, pc, deferred, sum, setting, raised, queued>>

WriteNext ==
  /\ stage = "idle" /\ stage' = "polling"
  /\ reply = {}
  /\ \/ Receive(Packed("all", "GENERAL_POLL", Zero), mb["master"])
     \/ /\ HasPendingChanges(mb["master"], TRUE)
        /\ Receive(Packed("slave", GeneratedCommand(mb["master"]), mb["master"].contents),
                   AfterGenerate(mb["master"]))
  /\ UNCHANGED <<reply, pc, deferred, sum, setting, raised, queued>>

(* requestEvent(), and the controller's handleFrame() of what it has read. *)
(* A reply of its own is lost if it has just been sending one: loop()      *)
(* clears pendingPacket after sendPacket().                                *)
FromDevice(p) == p.dest = "master" /\ p.src = "slave"
AnyFrame(f) == FromDevice(f.packet)  \* mutant: the checksum is not compared
Valid(f) == FromDevice(f.packet) /\ f.crc = f.packet

Handle(f, m) ==
  LET p == f.packet
  IN  IF ~(returnFrame /\ Valid(f)) THEN mb' = mb /\ reply' = {}
      ELSE IF ~IsValue(p) THEN mb' = [mb EXCEPT !["master"] = AfterAck(m, p.value)] /\ reply' = {}
      ELSE /\ mb' = [mb EXCEPT !["master"] = IF Contended("master", m) THEN AfterDisregard(m)
                                             ELSE AfterAccept(m, p.value)]
           /\ reply' = IF stage = "replying" THEN {} ELSE {p.value}

Read ==
  /\ stage # "idle" /\ stage' = "idle"
  /\ Handle(frameBuffer, mb["master"])
  /\ returnFrame' = FALSE
  /\ queued' = {}
  /\ UNCHANGED <<frameBuffer, pendingPacket, pc, deferred, sum, setting, raised>>

SetMaster(v) ==
  /\ stage = "idle"
  /\ Fresh(v)
  /\ mb' = [mb EXCEPT !["master"] = SetLong(@, v)]
  /\ raised' = [raised EXCEPT !["master"] = @ \cup {v}]
  /\ UNCHANGED <<frameBuffer, returnFrame, pendingPacket, pc, deferred, sum, setting,
                 stage, reply, queued>>

Transaction == WriteReply \/ WriteNext \/ Read

-------------------------------------------------------------------------------
Next == \/ Loop \/ Store \/ Transaction
        \/ \E n \in Node : Elapse(n)
        \/ \E v \in Value : SetSlave(v) \/ SetMaster(v)

Spec == Init /\ [][Next]_vars

-------------------------------------------------------------------------------
(* Properties.                                                             *)

(* The device's application is between the stores of a setLong().          *)
Storing == pc \in Range(Stores)

(* What the controller's mailbox holds was stored by its own application   *)
(* or by the device's, as its flag says.  The device's main program may    *)
(* seal as its own a packet that an interrupt left in the buffer, with a   *)
(* value of the controller in it: the controller must not take that for    *)
(* the device's (I2CDatalink.cpp 70-97, Mailbox.cpp 123-129).              *)
ControllerHoldsStored ==
  mb["master"].contents \in {Zero} \cup
     raised[IF mb["master"].callerChanged THEN "master" ELSE "slave"]

(* A value at the controller is never replaced by an older one: a frame    *)
(* that was queued, cleared or overwritten half-way is not taken for a     *)
(* packet (values are numbered by Fresh; I2CDatalink.cpp 70-136,           *)
(* Network.cpp 96-98 and 340-347).                                         *)
NeverBack ==
  [][~mb["master"].callerChanged => mb["master"].contents <= mb["master"].contents']_vars

(* Both ends done means that both hold the same value, although a reply on *)
(* I2C may be overwritten, read twice or never read (I2CDatalink.cpp 78,   *)
(* 92, 136, 152).                                                          *)
InSync == mb["master"].synchronized /\ mb["slave"].synchronized /\ ~Storing
            => mb["master"].contents = mb["slave"].contents

-------------------------------------------------------------------------------
(* What the documents promise and TLC refutes (the README names the        *)
(* instances).                                                             *)

(* callerChanged is "0 if the last update was over net, 1 if last update   *)
(* from API" (Mailbox.h 66): a value that has the flag was stored by the   *)
(* application of its own node.                                            *)
FlagTellsOrigin ==
  \A n \in Node : mb[n].callerChanged /\ ~Storing => mb[n].contents \in raised[n]

(* "Internal assert, should not be polling for a new packet while one is   *)
(* pending!" (Network.cpp 56-57): receiveEvent ends with a poll, so no     *)
(* write may leave the device with a reply pending.                        *)
NoPollWhilePending ==
  [][stage = "idle" /\ stage' # "idle" => ~pendingPacket']_vars

(* "Packet queued for next i2c 'read'" (I2CDatalink.cpp 151): the next     *)
(* read gets the packet that sendFrame() has queued.                       *)
QueuedIsRead ==
  [][stage # "idle" /\ stage' = "idle" /\ queued # {}
        => returnFrame /\ queued = {frameBuffer.packet}]_vars

(* "If on the last loop call we generated a packet, send it back now"      *)
(* (Network.cpp 126): a value the controller has accepted leaves it with   *)
(* an acknowledgement to send.                                             *)
RepliesAreSent ==
  [][stage # "idle" /\ stage' = "idle" /\ mb'["master"].contents # mb["master"].contents
        => reply' = {mb'["master"].contents}]_vars
===============================================================================
