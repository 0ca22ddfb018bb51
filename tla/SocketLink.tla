------------------------------- MODULE SocketLink -------------------------------
(***************************************************************************)
(* The simulated bus: the two command line programs, a controller and one  *)
(* device, connected through UNIXSocketDatalink.  The controller sends a   *)
(* thunk after every frame; the device only sends when it gets one, and    *)
(* keeps what it has to say in a second buffer until then.                 *)
(*                                                                         *)
(* Both programs call um.loop() and Makernet.loop() in turn, and the       *)
(* latter calls the datalink's loop() once more: frames are taken at two   *)
(* places.  A wire is a stream of frames (SocketReflector shows why two    *)
(* programs alone cannot tear them); a sender whose stream is full blocks. *)
(* Addresses are assigned and checksums are right.                         *)
(***************************************************************************)
EXTENDS Naturals, Sequences, SmallMailbox

CONSTANT MaxWire  \* bound: frames a stream holds

ASSUME ValueAssumption == Value \subseteq Nat
ASSUME WireAssumption == MaxWire \in Nat \ {0}

VARIABLES node,    \* node[n]: mailbox, pendingPacket, frameBuffer, returnFrameBuffer
          wire,    \* wire[n]: the frames on their way to n
          at,      \* at[n]: the call n's main loop makes next
          raised   \* history: the values n's application stored

vars == <<node, wire, at, raised>>

Node == {"master", "slave"}
Peer(n) == IF n = "master" THEN "slave" ELSE "master"

Packet == [dest : Node \cup {"all"}, command : Command \cup {"GENERAL_POLL"}, value : Value]
Packed(dest, command, value) == [dest |-> dest, command |-> command, value |-> value]
GeneralPoll == Packed("all", "GENERAL_POLL", Zero)
Thunk == [command |-> "THUNK"]
Cleared == [command |-> "CLEARED"]  \* a header that is addressed to nobody

State == [box : Mailbox, pending : BOOLEAN, buffer : Packet \cup {Thunk, Cleared},
          return : SUBSET Packet]

TypeOK == /\ node \in [Node -> State]
          /\ \A n \in Node : \A p, q \in node[n].return : p = q
          /\ node["master"].return = {}
          /\ \A n \in Node : /\ Len(wire[n]) <= MaxWire
                             /\ \A k \in 1..Len(wire[n]) : wire[n][k] \in Packet \cup {Thunk}
          /\ at \in [Node -> {"um.loop", "Makernet.loop"}]
          /\ raised \in [Node -> SUBSET Value]

Init == /\ node = [n \in Node |-> [box |-> NewMailbox, pending |-> FALSE, buffer |-> Cleared,
                                   return |-> {}]]
        /\ wire = [n \in Node |-> <<>>]
        /\ at = [n \in Node |-> "um.loop"]
        /\ raised = [n \in Node |-> {}]

Fresh(v) == \A n \in Node : \A u \in raised[n] \cup {Zero} : u < v

(* A command typed at n's terminal: handleSTDIN() and handleCommand() run  *)
(* in um.loop(), before the frame that it may take.                        *)
Set(n, v) ==
  /\ at[n] = "um.loop"
  /\ Fresh(v)
  /\ node' = [node EXCEPT ![n].box = SetLong(@, v)]
  /\ raised' = [raised EXCEPT ![n] = @ \cup {v}]
  /\ UNCHANGED <<wire, at>>

Elapse(n) ==
  /\ node[n].box.waiting
  /\ node' = [node EXCEPT ![n].box.waiting = FALSE]
  /\ UNCHANGED <<wire, at, raised>>

-------------------------------------------------------------------------------
(* One frame, or none.  s is the state of node n, and the result is its    *)
(* next state with what it writes to the wire.                             *)

Out(s, frames) == [state |-> s, frames |-> frames]

(* sendFrame(): the controller writes frame and thunk, the device keeps    *)
(* the frame for the next thunk.                                           *)
Collects(n, s, p) == IF n = "master" THEN Out(s, <<p, Thunk>>)  \* mutant: a buffer of several frames
                     ELSE Out([s EXCEPT !.return = @ \cup {p}], <<>>)
NoThunk(n, s, p) == IF n = "master" THEN Out(s, <<p>>)  \* mutant: the thunk is not sent
                    ELSE Out([s EXCEPT !.return = {p}], <<>>)
SendFrame(n, s, p) == IF n = "master" THEN Out(s, <<p, Thunk>>)
                      ELSE Out([s EXCEPT !.return = {p}], <<>>)

Due(s) == HasPendingChanges(s.box, TRUE)
Polled(n, s) == Packed(Peer(n), GeneratedCommand(s.box), s.box.contents)
Generated(n, s) == [s EXCEPT !.buffer = Polled(n, s), !.box = AfterGenerate(@)]

ForMe(n, p) == p.dest = n

(* handleFrame(): an acknowledgement takes the place of a value.           *)
HandleFrame(n, s, p) ==
  IF ~ForMe(n, p) THEN [s EXCEPT !.buffer = p]
  ELSE IF IsValue(p)
  THEN [s EXCEPT !.pending = TRUE, !.buffer = Packed(Peer(n), "ACK_VALUE", p.value),
                 !.box = IF Contended(n, @) THEN AfterDisregard(@) ELSE AfterAccept(@, p.value)]
  ELSE [s EXCEPT !.buffer = p, !.box = AfterAck(@, p.value)]

SendKept(s) == Out([s EXCEPT !.return = {}, !.buffer = Thunk], <<CHOOSE p \in s.return : TRUE>>)

(* processIncomingFrame(): a thunk sends what has been kept; if there is   *)
(* nothing, the buffer is zeroed and what is polled is kept.               *)
ProcessFrame(n, s, f) ==
  IF f # Thunk THEN Out(HandleFrame(n, s, f), <<>>)
  ELSE IF s.return # {} THEN SendKept(s)
  ELSE IF Due(s) THEN SendFrame(n, Generated(n, s), Polled(n, s))
  ELSE Out([s EXCEPT !.buffer = Cleared], <<>>)

(* Network::loop(), when a reply is pending: whatever is in the frame      *)
(* buffer is sent, unless it is addressed to nobody or too long.           *)
SendDeferred(n, s) ==
  IF s.buffer \in Packet THEN SendFrame(n, [s EXCEPT !.pending = FALSE], s.buffer)
  ELSE Out([s EXCEPT !.pending = FALSE], <<>>)

(* sendNextPacket(): a value, or the controller's general poll.            *)
SendNext(n, s) ==
  IF Due(s) THEN {SendFrame(n, Generated(n, s), Polled(n, s))}
  ELSE {Out([s EXCEPT !.buffer = Cleared], <<>>)} \cup
       IF n = "master" THEN {SendFrame(n, [s EXCEPT !.buffer = GeneralPoll], GeneralPoll)} ELSE {}

(* n comes to state r.state and writes r.frames; it has taken a frame, or  *)
(* poll() has timed out.                                                   *)
Becomes(n, took, r) ==
  /\ Len(wire[Peer(n)]) + Len(r.frames) <= MaxWire
  /\ node' = [node EXCEPT ![n] = r.state]
  /\ wire' = [wire EXCEPT ![n] = IF took THEN Tail(@) ELSE @, ![Peer(n)] = @ \o r.frames]
  /\ UNCHANGED raised

Taken(n, took) == IF took THEN ProcessFrame(n, node[n], Head(wire[n])) ELSE Out(node[n], <<>>)

(* um.loop().                                                              *)
Datalink(n) ==
  /\ at[n] = "um.loop" /\ at' = [at EXCEPT ![n] = "Makernet.loop"]
  /\ \E took \in {FALSE, wire[n] # <<>>} : Becomes(n, took, Taken(n, took))

(* Makernet.loop(): the deferred reply; or a frame that is replied to next *)
(* time; or a frame, or none, and then a packet of its own.                *)
DeferredReply(n) ==
  /\ at[n] = "Makernet.loop" /\ at' = [at EXCEPT ![n] = "um.loop"]
  /\ node[n].pending
  /\ Becomes(n, FALSE, SendDeferred(n, node[n]))

Network(n) ==
  /\ at[n] = "Makernet.loop" /\ at' = [at EXCEPT ![n] = "um.loop"]
  /\ ~node[n].pending
  /\ \E took \in {FALSE, wire[n] # <<>>} :
        LET r == Taken(n, took)
        IN  \/ r.state.pending /\ Becomes(n, took, r)
            \/ /\ ~r.state.pending
               /\ \E q \in SendNext(n, r.state) :
                     Becomes(n, took, Out(q.state, r.frames \o q.frames))

Loop(n) == Datalink(n) \/ DeferredReply(n) \/ Network(n)

-------------------------------------------------------------------------------
Next == \E n \in Node : Loop(n) \/ Elapse(n) \/ \E v \in Value : Set(n, v)

Spec == Init /\ [][Next]_vars

(* Both loops run for ever; what has been written is read in the end; and  *)
(* the controller's polling timer keeps producing general polls.           *)
Takes(n) == Loop(n) /\ wire[n] # <<>> /\ wire'[n] = Tail(wire[n])

Polls == Network("master") /\ wire["slave"] = <<>> /\ wire'["slave"] # <<>>

Fairness == /\ SF_vars(Polls)
            /\ \A n \in Node : WF_vars(Loop(n)) /\ WF_vars(Elapse(n)) /\ SF_vars(Takes(n))

FairSpec == Spec /\ Fairness

-------------------------------------------------------------------------------
(* Properties.                                                             *)

(* Nothing left to push at either end means one value at both, although    *)
(* replies are overwritten in both buffers of the device                   *)
(* (UNIXSocketDatalink.cpp 80-81, 144, 166-167).                           *)
InSync == (\A n \in Node : node[n].box.synchronized)
             => node["master"].box.contents = node["slave"].box.contents

(* A value that came over the wire is never replaced by an older one:      *)
(* frames that wait in a buffer or a stream while newer values are set     *)
(* bring nothing back (UNIXSocketDatalink.cpp 80-81 and 158-163).          *)
NeverBack == [][\A n \in Node : ~node[n].box.callerChanged
                  => node[n].box.contents <= node'[n].box.contents]_vars

(* The thunk gives the device its turn (UNIXSocketDatalink.cpp 88-91):     *)
(* what its user has set is acknowledged in the end, although every value  *)
(* and every acknowledgement competes for the one return buffer.           *)
DeviceIsHeard == <>[](node["slave"].box.synchronized)

-------------------------------------------------------------------------------
(* What the documents promise and TLC refutes (the README names the        *)
(* instances).                                                             *)

(* "If on the last loop call we generated a packet, send it back now"      *)
(* (Network.cpp 126): what loop() sends as the deferred reply is that      *)
(* reply.                                                                  *)
ReplyIsSent == \A n \in Node : at[n] = "Makernet.loop" /\ node[n].pending
                  => node[n].buffer.command = "ACK_VALUE"

(* "Slave case: store packet and send later" (UNIXSocketDatalink.cpp 70):  *)
(* an acknowledgement that is kept for the next thunk stays there until    *)
(* it is sent.                                                             *)
KeptIsSent ==
  [][\A p \in node["slave"].return :
        p.command = "ACK_VALUE" /\ wire'["master"] = wire["master"]
           => p \in node'["slave"].return]_vars
===============================================================================
