------------------------------ MODULE MailboxSync ------------------------------
(***************************************************************************)
(* A controller and one connected device keep the mailboxes of a           *)
(* MailboxService in step over the packet radio.  Each node runs           *)
(* Network::loop() for ever; its application sets mailboxes between two    *)
(* calls of it.                                                            *)
(*                                                                         *)
(* A node owns one frame buffer, so it holds at most one deferred reply    *)
(* (pendingPacket), and its radio holds at most one received frame until   *)
(* recv() takes it.  The air loses any frame, and a frame that arrives     *)
(* while the receive buffer is taken is lost.  Nothing is duplicated by    *)
(* the air: duplicates come from the retry timers.                         *)
(*                                                                         *)
(* The link is up: both ends know each other's address.  Address vending   *)
(* is the subject of AddressVending.                                       *)
(***************************************************************************)
EXTENDS Naturals, SmallMailbox

CONSTANTS Boxes,      \* the registered indices of MailboxService::mailboxes
          MaxResets,  \* bound: how many bus resets reach a node
          MaxHeard    \* bound: event callbacks are counted up to this number

ASSUME ValueAssumption == Value \subseteq Nat
ASSUME BoxesAssumption == Boxes \subseteq 0..15
ASSUME BoundsAssumption == MaxResets \in Nat /\ MaxHeard \in Nat

VARIABLES mb,       \* mb[n][b]: the SmallMailbox at index b of node n
          pending,  \* pending[n]: the deferred reply in n's frame buffer, if any
          rx,       \* rx[n]: the frame in the receive buffer of n's radio, if any
          warm,     \* warm[n]: millis() of n is beyond the retry period
          resets,   \* number of bus resets so far
          raised,   \* history: the values n's application stored in b
          heard     \* history: callbacks with wasTriggered at n, per box and value

vars == <<mb, pending, rx, warm, resets, raised, heard>>

Node == {"master", "slave"}
Peer(n) == IF n = "master" THEN "slave" ELSE "master"

Packet == [mailbox : Boxes, command : Command, value : Value]

TypeOK == /\ mb \in [Node -> [Boxes -> Mailbox]]
          /\ pending \in [Node -> SUBSET Packet]
          /\ rx \in [Node -> SUBSET Packet]
          /\ \A n \in Node : \A p, q \in pending[n] : p = q
          /\ \A n \in Node : \A p, q \in rx[n] : p = q
          /\ warm \in [Node -> BOOLEAN]
          /\ resets \in 0..MaxResets
          /\ raised \in [Node -> [Boxes -> SUBSET Value]]
          /\ heard \in [Node -> [Boxes -> [Value -> 0..MaxHeard]]]

Init == /\ mb = [n \in Node |-> [b \in Boxes |-> NewMailbox]]
        /\ pending = [n \in Node |-> {}]
        /\ rx = [n \in Node |-> {}]
        /\ warm = [n \in Node |-> FALSE]
        /\ resets = 0
        /\ raised = [n \in Node |-> [b \in Boxes |-> {}]]
        /\ heard = [n \in Node |-> [b \in Boxes |-> [v \in Value |-> 0]]]

-------------------------------------------------------------------------------
(* The air: r with packet p sent by n, received by the peer or not.        *)
AirQueues(r, n, p, received) == IF received THEN [r EXCEPT ![Peer(n)] = @ \cup {p}] ELSE r
                                \* mutant: a radio that queues what it receives
Air(r, n, p, received) ==
  IF received /\ r[Peer(n)] = {} THEN [r EXCEPT ![Peer(n)] = {p}] ELSE r

(* The application of n stores v in mailbox b and so triggers a push.      *)
Set(n, b, v) ==
  /\ mb' = [mb EXCEPT ![n][b] = SetLong(mb[n][b], v)]
  /\ raised' = [raised EXCEPT ![n][b] = raised[n][b] \cup {v}]
  /\ UNCHANGED <<pending, rx, warm, resets, heard>>

(* Time: the first period after power-on ends, or a retry period does.     *)
WarmUp(n) ==
  /\ ~warm[n]
  /\ warm' = [warm EXCEPT ![n] = TRUE]
  /\ UNCHANGED <<mb, pending, rx, resets, raised, heard>>

Elapse(n, b) ==
  /\ mb[n][b].waiting
  /\ mb' = [mb EXCEPT ![n][b].waiting = FALSE]
  /\ UNCHANGED <<pending, rx, warm, resets, raised, heard>>

(* MailboxService::busReset(), run by the handling of a device control     *)
(* frame, which was in the radio and finds no reply in the frame buffer.   *)
(* What the same call of loop() sends next is the node's next step.        *)
ResetBoxes(n) ==
  /\ resets < MaxResets
  /\ pending[n] = {} /\ rx[n] = {}
  /\ resets' = resets + 1
  /\ mb' = [mb EXCEPT ![n] = [b \in Boxes |-> BusReset(mb[n][b])]]
  /\ UNCHANGED <<pending, rx, warm, raised, heard>>

-------------------------------------------------------------------------------
(* Network::sendNextPacket() on node n, whose mailboxes are box and where  *)
(* r is what the radios hold: the lowest mailbox that is due is sent.      *)
Due(n, box) == {b \in Boxes : HasPendingChanges(box[b], warm[n])}

SendNextPacket(n, box, r) ==
  \/ /\ Due(n, box) = {}
     /\ mb' = [mb EXCEPT ![n] = box]
     /\ rx' = r
  \/ \E b \in Due(n, box), received \in BOOLEAN :
        /\ \A c \in Due(n, box) : b <= c
        /\ mb' = [mb EXCEPT ![n] = [box EXCEPT ![b] = AfterGenerate(box[b])]]
        /\ rx' = Air(r, n, [mailbox |-> b, command |-> GeneratedCommand(box[b]),
                            value |-> box[b].contents], received)

(* Network::loop() returns after one of four things.  First: the reply of  *)
(* the previous call is sent, and nothing else is done.                    *)
SendDeferred(n) ==
  /\ \E p \in pending[n], received \in BOOLEAN : rx' = Air(rx, n, p, received)
  /\ pending' = [pending EXCEPT ![n] = {}]
  /\ UNCHANGED <<mb, warm, resets, raised, heard>>

Reply(n, p) == pending' = [pending EXCEPT ![n] = {[p EXCEPT !.command = "ACK_VALUE"]}]

(* Second: a value is taken from the radio and disregarded or accepted; in *)
(* both cases the acknowledgement waits for the next call.                 *)
DisregardValue(n) ==
  /\ pending[n] = {}
  /\ \E p \in rx[n] :
        /\ IsValue(p) /\ Contended(n, mb[n][p.mailbox])
        /\ mb' = [mb EXCEPT ![n][p.mailbox] = AfterDisregard(mb[n][p.mailbox])]
        /\ Reply(n, p)
  /\ rx' = [rx EXCEPT ![n] = {}]
  /\ UNCHANGED <<warm, resets, raised, heard>>

Notify(n, b, v) == [heard EXCEPT ![n][b][v] = IF heard[n][b][v] < MaxHeard
                                              THEN heard[n][b][v] + 1 ELSE heard[n][b][v]]

AcceptValue(n) ==
  /\ pending[n] = {}
  /\ \E p \in rx[n] :
        /\ IsValue(p) /\ ~Contended(n, mb[n][p.mailbox])
        /\ mb' = [mb EXCEPT ![n][p.mailbox] = AfterAccept(mb[n][p.mailbox], p.value)]
        /\ heard' = IF WasTriggered(mb[n][p.mailbox], p)
                    THEN Notify(n, p.mailbox, p.value) ELSE heard
        /\ Reply(n, p)
  /\ rx' = [rx EXCEPT ![n] = {}]
  /\ UNCHANGED <<warm, resets, raised>>

(* Third: an acknowledgement is taken, needs no reply, and the same call   *)
(* goes on to poll.  Fourth: the radio has nothing and the call polls.     *)
HandleAck(n) ==
  /\ pending[n] = {}
  /\ \E p \in rx[n] :
        /\ p.command = "ACK_VALUE"
        /\ SendNextPacket(n, [mb[n] EXCEPT ![p.mailbox] = AfterAck(mb[n][p.mailbox], p.value)],
                          [rx EXCEPT ![n] = {}])
  /\ UNCHANGED <<pending, warm, resets, raised, heard>>

Poll(n) ==
  /\ pending[n] = {} /\ rx[n] = {}
  /\ SendNextPacket(n, mb[n], rx)
  /\ UNCHANGED <<pending, warm, resets, raised, heard>>

Loop(n) == SendDeferred(n) \/ DisregardValue(n) \/ AcceptValue(n) \/ HandleAck(n) \/ Poll(n)

-------------------------------------------------------------------------------
(* What happens apart from the applications.                               *)
System == \E n \in Node : \/ Loop(n)
                          \/ WarmUp(n)
                          \/ ResetBoxes(n)
                          \/ \E b \in Boxes : Elapse(n, b)

Next == System \/ \E n \in Node, b \in Boxes, v \in Value : Set(n, b, v)

Spec == Init /\ [][Next]_vars

(* Applications that number what they store: a value is larger than all    *)
(* values the mailbox ever held at either end.                             *)
Fresh(b, v) == \A n \in Node : \A u \in raised[n][b] \cup {Zero} : u < v

FreshNext == System \/ \E n \in Node, b \in Boxes, v \in Value : Fresh(b, v) /\ Set(n, b, v)

FreshSpec == Init /\ [][FreshNext]_vars

(* Applications that, besides, wait for the last value to be acknowledged. *)
PacedSet(n, b, v) == mb[n][b].synchronized /\ Fresh(b, v) /\ Set(n, b, v)

PacedNext == System \/ \E n \in Node, b \in Boxes, v \in Value : PacedSet(n, b, v)

PacedSpec == Init /\ [][PacedNext]_vars

(* Scheduling.  Both programs call loop() for ever and their clocks run.   *)
(* The air loses frames but not for ever: a node that keeps sending        *)
(* replies, or keeps sending the value of a mailbox, is heard in the end.  *)
Arrives(n) == rx[Peer(n)] = {} /\ rx'[Peer(n)] # {}

ReplyArrives(n) == SendDeferred(n) /\ Arrives(n)

ValueArrives(n, b) == (HandleAck(n) \/ Poll(n)) /\ Arrives(n)
                      /\ \E p \in rx'[Peer(n)] : p.mailbox = b

Fairness == \A n \in Node : /\ WF_vars(Loop(n))
                            /\ WF_vars(WarmUp(n))
                            /\ SF_vars(ReplyArrives(n))
                            /\ \A b \in Boxes : /\ WF_vars(Elapse(n, b))
                                                /\ SF_vars(ValueArrives(n, b))

FairSpec == FreshSpec /\ Fairness

-------------------------------------------------------------------------------
(* Properties.                                                             *)

(* Mailboxes "remain in sync between two different nodes"                  *)
(* (MailboxService.h): when neither end has anything left to push, both    *)
(* hold the same value.  What could break it is an acknowledgement that    *)
(* arrives after the application has set the mailbox again, or a           *)
(* contention in which each end believes the other took its value          *)
(* (handleMessage, Mailbox.cpp 117-133 and 185-191).                       *)
InSync == \A b \in Boxes : (\A n \in Node : mb[n][b].synchronized)
                              => mb["master"][b].contents = mb["slave"][b].contents

(* A node only ever pushes what its own application stored: a value that   *)
(* came over the net is never sent back as a value, neither after an       *)
(* acceptance nor after a bus reset (Mailbox.cpp 39-43, 141-142).  With an *)
(* echo two nodes would exchange a value for ever.                         *)
PushesOwn == \A n \in Node, b \in Boxes :
                ~mb[n][b].synchronized => /\ mb[n][b].callerChanged
                                          /\ mb[n][b].contents \in raised[n][b]

(* An event that is not yet acknowledged is still going to be sent: the    *)
(* one-shot flag is never left set on a mailbox that has stopped pushing,  *)
(* from where a later reset or contention would fire it again              *)
(* (Mailbox.cpp 45, 91, 177, 193, 213-215).                                *)
EventIsDue == \A n \in Node, b \in Boxes :
                mb[n][b].changeTrigger => ~mb[n][b].synchronized

(* The master overrides (Mailbox.cpp 123-129): once its application has    *)
(* set a mailbox, what the device sends never replaces the contents again. *)
MasterOverrides ==
  [][\A b \in Boxes : mb["master"][b].callerChanged =>
        /\ mb["master"][b].callerChanged'
        /\ mb["master"][b].contents' # mb["master"][b].contents
              => mb["master"][b].contents' \in raised["master"][b]' \ raised["master"][b]]_vars

(* No value that came over the net is replaced by an older one, whatever   *)
(* is lost and retried: a retry sends the present contents and never a     *)
(* kept copy (Mailbox.cpp 97, 139).  Values are numbered by Fresh.         *)
NeverBack ==
  [][\A n \in Node, b \in Boxes : ~mb[n][b].callerChanged =>
        mb[n][b].contents <= mb[n][b].contents']_vars

(* One-shot events are "communicated reliably" (Mailbox.h 42-44): when the *)
(* only end that sets a mailbox has its last value acknowledged, the other *)
(* end's callback has been told of it as an event.                         *)
AckedIsHeard == \A n \in Node, b \in Boxes :
                  /\ mb[n][b].synchronized /\ mb[n][b].callerChanged
                  /\ raised[Peer(n)][b] = {}
                  => heard[Peer(n)][b][mb[n][b].contents] > 0

(* What is left of that promise in the code: it holds of the first event   *)
(* of a mailbox, however often its frames and their acknowledgements are   *)
(* lost (the flag survives every retry, Mailbox.cpp 87-94), as long as no  *)
(* bus reset takes the flag away (45).                                     *)
FirstEventIsHeard ==
  resets = 0 => \A n \in Node, b \in Boxes, v \in Value :
                   /\ mb[n][b].synchronized /\ mb[n][b].callerChanged
                   /\ raised[n][b] = {v} /\ raised[Peer(n)][b] = {}
                   => heard[Peer(n)][b][v] > 0

(* When the applications are done setting, the two ends come to hold the   *)
(* same value and stay there, through loss, contention and resets          *)
(* (the retry in hasPendingChanges and generateMessage, Mailbox.cpp 51-62, *)
(* 99).                                                                    *)
Converges == <>[](\A b \in Boxes : /\ \A n \in Node : mb[n][b].synchronized
                                   /\ mb["master"][b].contents = mb["slave"][b].contents)

-------------------------------------------------------------------------------
(* What the documents promise and TLC refutes (the README names the        *)
(* instances).                                                             *)

(* Events are communicated "one-time only" (Mailbox.h 42-45): no callback  *)
(* is told twice of an event that was raised once.  Refuted under          *)
(* FreshSpec with one value and MaxHeard = 2: the acknowledgement is lost  *)
(* and the retry is an event again (Mailbox.cpp 162).                      *)
HeardOnce == \A n \in Node, b \in Boxes, v \in Value : heard[n][b][v] <= 1

(* Nothing is on its way.                                                  *)
Settled == \A n \in Node : pending[n] = {} /\ rx[n] = {}

(* Two mailboxes that have nothing left to send, with nothing on its way,  *)
(* stay as they are for ever: they must hold the same value                *)
(* (MailboxService.h 20-22, Mailbox.cpp 186-187).  Refuted under Spec with *)
(* two values: an application sets v, w and v again, and the late          *)
(* acknowledgement of the first v is taken for one of the last.            *)
SettledInSync == Settled => InSync

-------------------------------------------------------------------------------
(* The inductive invariant of FreshSpec that InSync rests on.              *)

(* Whose value a mailbox and a frame can hold.                             *)
Origin ==
  /\ \A b \in Boxes : /\ raised["master"][b] \cap raised["slave"][b] = {}
                      /\ \A n \in Node : Zero \notin raised[n][b]
  /\ \A n \in Node, b \in Boxes :
        IF mb[n][b].callerChanged THEN mb[n][b].contents \in raised[n][b]
        ELSE mb[n][b].contents \in raised[Peer(n)][b] \cup {Zero}
  /\ \A b \in Boxes : raised["master"][b] # {} => mb["master"][b].callerChanged

Sender(n, p) == IF p.command = "ACK_VALUE" THEN n ELSE Peer(n)

OnItsWay(n) == rx[n] \cup pending[Peer(n)]

FrameOrigin ==
  \A n \in Node : /\ \A p \in pending[n] : p.command = "ACK_VALUE"
                  /\ \A p \in OnItsWay(n) : p.value \in raised[Sender(n, p)][p.mailbox]

(* An acknowledgement of the present contents is on its way to n.          *)
AckComes(n, b) == \E p \in OnItsWay(n) : /\ p.mailbox = b /\ p.command = "ACK_VALUE"
                                         /\ p.value = mb[n][b].contents

Agree(n, b) == \/ mb[Peer(n)][b].contents = mb[n][b].contents
               \/ ~mb[Peer(n)][b].synchronized

AckInv ==
  \A b \in Boxes :
    /\ ~(AckComes("master", b) /\ AckComes("slave", b))
    /\ \A n \in Node : AckComes(n, b) =>
          /\ Agree(n, b)
          /\ \A p \in rx[Peer(n)] : p.mailbox = b /\ IsValue(p) => p.value = mb[n][b].contents

(* A value that is about to be accepted is the sender's last, or the       *)
(* sender is still pushing; and a device whose latest value has reached    *)
(* the master owes it no acknowledgement.                                  *)
ValueInv ==
  /\ \A n \in Node : \A p \in rx[n] :
        IsValue(p) /\ ~Contended(n, mb[n][p.mailbox])
           => \/ mb[Peer(n)][p.mailbox].contents = p.value
              \/ ~mb[Peer(n)][p.mailbox].synchronized
  /\ \A p \in rx["master"], q \in pending["slave"] :
        IsValue(p) /\ p.value = mb["slave"][p.mailbox].contents => q.mailbox # p.mailbox

(* Everything InSync needs, true initially and kept by every step.         *)
IndInv == TypeOK /\ PushesOwn /\ EventIsDue /\ Origin /\ FrameOrigin /\ AckInv /\ ValueInv /\ InSync

(* What NeverBack rests on: a mailbox its own application has set holds    *)
(* the last value stored, and a value that is about to be accepted is not  *)
(* older than the one it replaces.                                         *)
OrderInv ==
  /\ \A n \in Node, b \in Boxes :
        /\ \A u \in raised[n][b] : Zero <= u
        /\ mb[n][b].callerChanged => \A u \in raised[n][b] : u <= mb[n][b].contents
  /\ \A n \in Node : \A p \in rx[n] :
        IsValue(p) /\ ~mb[n][p.mailbox].callerChanged => mb[n][p.mailbox].contents <= p.value
===============================================================================
