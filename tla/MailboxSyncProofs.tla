-------------------------- MODULE MailboxSyncProofs --------------------------
(***************************************************************************)
(* Proofs about MailboxSync: its type invariant, and that the two ends of  *)
(* a mailbox are in sync when the applications never store a value twice.  *)
(***************************************************************************)
EXTENDS MailboxSync, TLAPS

-------------------------------------------------------------------------------
(* The methods of a SmallMailbox keep it a SmallMailbox.                   *)
LEMMA MailboxMethods ==
  ASSUME NEW m \in Mailbox, NEW v \in Value
  PROVE  /\ SetLong(m, v) \in Mailbox
         /\ BusReset(m) \in Mailbox
         /\ AfterGenerate(m) \in Mailbox
         /\ AfterDisregard(m) \in Mailbox
         /\ AfterAccept(m, v) \in Mailbox
         /\ AfterAck(m, v) \in Mailbox
         /\ GeneratedCommand(m) \in Command
<1> USE DEF Mailbox
<1>1. SetLong(m, v) \in Mailbox
  BY DEF SetLong
<1>2. BusReset(m) \in Mailbox
  BY DEF BusReset
<1>3. AfterGenerate(m) \in Mailbox
  BY DEF AfterGenerate
<1>4. AfterDisregard(m) \in Mailbox
  BY DEF AfterDisregard
<1>5. AfterAccept(m, v) \in Mailbox
  BY DEF AfterAccept
<1>6. AfterAck(m, v) \in Mailbox
  BY DEF AfterAck
<1>7. GeneratedCommand(m) \in Command
  BY DEF GeneratedCommand, Command
<1> QED
  BY <1>1, <1>2, <1>3, <1>4, <1>5, <1>6, <1>7

(* What the methods do to the fields the invariants speak of.              *)
LEMMA MailboxFields ==
  ASSUME NEW m \in Mailbox, NEW v \in Value
  PROVE  /\ SetLong(m, v).contents = v
         /\ SetLong(m, v).synchronized = FALSE
         /\ SetLong(m, v).callerChanged = TRUE
         /\ SetLong(m, v).changeTrigger = TRUE
         /\ BusReset(m).contents = m.contents
         /\ BusReset(m).synchronized = ~m.callerChanged
         /\ BusReset(m).callerChanged = m.callerChanged
         /\ BusReset(m).changeTrigger = FALSE
         /\ AfterGenerate(m).contents = m.contents
         /\ AfterGenerate(m).synchronized = m.synchronized
         /\ AfterGenerate(m).callerChanged = m.callerChanged
         /\ AfterGenerate(m).changeTrigger = m.changeTrigger
         /\ AfterDisregard(m).contents = m.contents
         /\ AfterDisregard(m).synchronized = FALSE
         /\ AfterDisregard(m).callerChanged = m.callerChanged
         /\ AfterDisregard(m).changeTrigger = m.changeTrigger
         /\ AfterAccept(m, v).contents = v
         /\ AfterAccept(m, v).synchronized = TRUE
         /\ AfterAccept(m, v).callerChanged = FALSE
         /\ AfterAccept(m, v).changeTrigger = FALSE
         /\ AfterAck(m, v).contents = m.contents
         /\ AfterAck(m, v).synchronized = (m.synchronized \/ v = m.contents)
         /\ AfterAck(m, v).callerChanged = m.callerChanged
         /\ AfterAck(m, v).changeTrigger = FALSE
  BY DEF Mailbox, SetLong, BusReset, AfterGenerate, AfterDisregard, AfterAccept, AfterAck

-------------------------------------------------------------------------------
(* Type correctness.                                                       *)

LEMMA InitTypeOK == Init => TypeOK
<1> SUFFICES ASSUME Init PROVE TypeOK
  OBVIOUS
<1> USE ZeroAssumption, BoundsAssumption DEF Init
<1>1. NewMailbox \in Mailbox
  BY DEF NewMailbox, Mailbox
<1>2. mb \in [Node -> [Boxes -> Mailbox]]
  BY <1>1
<1>3. /\ pending \in [Node -> SUBSET Packet] /\ rx \in [Node -> SUBSET Packet]
      /\ \A n \in Node : pending[n] = {} /\ rx[n] = {}
  OBVIOUS
<1>4. warm \in [Node -> BOOLEAN] /\ resets \in 0..MaxResets
  OBVIOUS
<1>5. raised \in [Node -> [Boxes -> SUBSET Value]]
  OBVIOUS
<1>6. heard \in [Node -> [Boxes -> [Value -> 0..MaxHeard]]]
  OBVIOUS
<1> QED
  BY <1>2, <1>3, <1>4, <1>5, <1>6 DEF TypeOK

(* The radio holds at most one frame, whatever is sent.                    *)
LEMMA AirType ==
  ASSUME NEW n \in Node, NEW p \in Packet, NEW received \in BOOLEAN,
         NEW r \in [Node -> SUBSET Packet],
         \A k \in Node : \A x, y \in r[k] : x = y
  PROVE  /\ Air(r, n, p, received) \in [Node -> SUBSET Packet]
         /\ \A k \in Node : \A x, y \in Air(r, n, p, received)[k] : x = y
  BY DEF Air, Peer, Node

LEMMA SendType ==
  ASSUME TypeOK, NEW n \in Node, NEW STATE box, box \in [Boxes -> Mailbox],
         NEW STATE r, r \in [Node -> SUBSET Packet],
         \A k \in Node : \A x, y \in r[k] : x = y,
         SendNextPacket(n, box, r)
  PROVE  /\ mb' \in [Node -> [Boxes -> Mailbox]]
         /\ rx' \in [Node -> SUBSET Packet]
         /\ \A k \in Node : \A x, y \in rx'[k] : x = y
<1>1. CASE mb' = [mb EXCEPT ![n] = box] /\ rx' = r
  BY <1>1 DEF TypeOK
<1>2. CASE \E b \in Due(n, box), received \in BOOLEAN :
             /\ mb' = [mb EXCEPT ![n] = [box EXCEPT ![b] = AfterGenerate(box[b])]]
             /\ rx' = Air(r, n, [mailbox |-> b, command |-> GeneratedCommand(box[b]),
                                 value |-> box[b].contents], received)
  <2>1. PICK b \in Boxes, received \in BOOLEAN :
             /\ mb' = [mb EXCEPT ![n] = [box EXCEPT ![b] = AfterGenerate(box[b])]]
             /\ rx' = Air(r, n, [mailbox |-> b, command |-> GeneratedCommand(box[b]),
                                 value |-> box[b].contents], received)
    BY <1>2 DEF Due
  <2>2. AfterGenerate(box[b]) \in Mailbox /\ GeneratedCommand(box[b]) \in Command
    BY MailboxMethods, ZeroAssumption
  <2>3. box[b].contents \in Value
    BY DEF Mailbox
  <2>4. [mailbox |-> b, command |-> GeneratedCommand(box[b]), value |-> box[b].contents] \in Packet
    BY <2>2, <2>3 DEF Packet
  <2>5. mb' \in [Node -> [Boxes -> Mailbox]]
    BY <2>1, <2>2 DEF TypeOK
  <2> QED
    BY <2>1, <2>4, <2>5, AirType
<1> QED
  BY <1>1, <1>2 DEF SendNextPacket

LEMMA ReplyType ==
  ASSUME TypeOK, NEW n \in Node, NEW p \in Packet, Reply(n, p)
  PROVE  /\ pending' \in [Node -> SUBSET Packet]
         /\ \A k \in Node : \A x, y \in pending'[k] : x = y
<1>1. PICK q \in Packet : q = [p EXCEPT !.command = "ACK_VALUE"]
  BY DEF Packet, Command
<1>2. pending' = [pending EXCEPT ![n] = {q}]
  BY <1>1 DEF Reply
<1> QED
  BY <1>2 DEF TypeOK

LEMMA NextTypeOK ==
  ASSUME TypeOK, [Next]_vars
  PROVE  TypeOK'
<1>0. \A n \in Node, b \in Boxes : mb[n][b] \in Mailbox
  BY DEF TypeOK
<1>1. ASSUME NEW n \in Node, NEW b \in Boxes, NEW v \in Value, Set(n, b, v)
      PROVE  TypeOK'
  <2>1. SetLong(mb[n][b], v) \in Mailbox
    BY <1>0, MailboxMethods
  <2> QED
    BY <1>1, <2>1 DEF Set, TypeOK
<1>2. ASSUME NEW n \in Node, WarmUp(n)
      PROVE  TypeOK'
  BY <1>2 DEF WarmUp, TypeOK
<1>3. ASSUME NEW n \in Node, NEW b \in Boxes, Elapse(n, b)
      PROVE  TypeOK'
  <2>1. [mb[n][b] EXCEPT !.waiting = FALSE] \in Mailbox
    BY <1>0 DEF Mailbox
  <2>2. mb' = [mb EXCEPT ![n] = [mb[n] EXCEPT ![b] = [mb[n][b] EXCEPT !.waiting = FALSE]]]
    BY <1>3 DEF Elapse
  <2> QED
    BY <1>3, <2>1, <2>2 DEF Elapse, TypeOK
<1>4. ASSUME NEW n \in Node, ResetBoxes(n)
      PROVE  TypeOK'
  <2>1. \A b \in Boxes : BusReset(mb[n][b]) \in Mailbox
    BY <1>0, MailboxMethods, ZeroAssumption
  <2>2. resets' \in 0..MaxResets
    BY <1>4, BoundsAssumption DEF ResetBoxes, TypeOK
  <2> QED
    BY <1>4, <2>1, <2>2 DEF ResetBoxes, TypeOK
<1>5. ASSUME NEW n \in Node, SendDeferred(n)
      PROVE  TypeOK'
  <2>1. PICK p \in pending[n], received \in BOOLEAN : rx' = Air(rx, n, p, received)
    BY <1>5 DEF SendDeferred
  <2>2. p \in Packet /\ rx \in [Node -> SUBSET Packet] /\ \A k \in Node : \A x, y \in rx[k] : x = y
    BY DEF TypeOK
  <2>3. rx' \in [Node -> SUBSET Packet] /\ \A k \in Node : \A x, y \in rx'[k] : x = y
    BY <2>1, <2>2, AirType
  <2>4. pending' \in [Node -> SUBSET Packet] /\ \A k \in Node : \A x, y \in pending'[k] : x = y
    BY <1>5 DEF SendDeferred, TypeOK
  <2>5. UNCHANGED <<mb, warm, resets, raised, heard>>
    BY <1>5 DEF SendDeferred
  <2> QED
    BY <2>3, <2>4, <2>5 DEF TypeOK
<1>6. ASSUME NEW n \in Node, DisregardValue(n)
      PROVE  TypeOK'
  <2>1. PICK p \in rx[n] : /\ mb' = [mb EXCEPT ![n][p.mailbox] = AfterDisregard(mb[n][p.mailbox])]
                           /\ Reply(n, p)
    BY <1>6 DEF DisregardValue
  <2>2. p \in Packet /\ p.mailbox \in Boxes
    BY DEF TypeOK, Packet
  <2>3. AfterDisregard(mb[n][p.mailbox]) \in Mailbox
    BY <1>0, <2>2, MailboxMethods, ZeroAssumption
  <2>4. pending' \in [Node -> SUBSET Packet] /\ \A k \in Node : \A x, y \in pending'[k] : x = y
    BY <2>1, <2>2, ReplyType
  <2>5. mb' \in [Node -> [Boxes -> Mailbox]]
    BY <2>1, <2>2, <2>3 DEF TypeOK
  <2> QED
    BY <1>6, <2>4, <2>5 DEF DisregardValue, TypeOK
<1>7. ASSUME NEW n \in Node, AcceptValue(n)
      PROVE  TypeOK'
  <2>1. PICK p \in rx[n] : /\ mb' = [mb EXCEPT ![n][p.mailbox] = AfterAccept(mb[n][p.mailbox], p.value)]
                           /\ heard' = IF WasTriggered(mb[n][p.mailbox], p)
                                       THEN Notify(n, p.mailbox, p.value) ELSE heard
                           /\ Reply(n, p)
    BY <1>7 DEF AcceptValue
  <2>2. p \in Packet /\ p.mailbox \in Boxes /\ p.value \in Value
    BY DEF TypeOK, Packet
  <2>3. AfterAccept(mb[n][p.mailbox], p.value) \in Mailbox
    BY <1>0, <2>2, MailboxMethods
  <2>4. pending' \in [Node -> SUBSET Packet] /\ \A k \in Node : \A x, y \in pending'[k] : x = y
    BY <2>1, <2>2, ReplyType
  <2>5. heard' \in [Node -> [Boxes -> [Value -> 0..MaxHeard]]]
    <3>1. heard[n][p.mailbox][p.value] \in 0..MaxHeard
      BY <2>2 DEF TypeOK
    <3>2. (IF heard[n][p.mailbox][p.value] < MaxHeard
           THEN heard[n][p.mailbox][p.value] + 1 ELSE heard[n][p.mailbox][p.value]) \in 0..MaxHeard
      BY <3>1, BoundsAssumption
    <3>3. Notify(n, p.mailbox, p.value) \in [Node -> [Boxes -> [Value -> 0..MaxHeard]]]
      BY <2>2, <3>2 DEF Notify, TypeOK
    <3> QED
      BY <2>1, <3>3 DEF TypeOK
  <2>6. mb' \in [Node -> [Boxes -> Mailbox]]
    BY <2>1, <2>2, <2>3 DEF TypeOK
  <2> QED
    BY <1>7, <2>4, <2>5, <2>6 DEF AcceptValue, TypeOK
<1>8. ASSUME NEW n \in Node, HandleAck(n)
      PROVE  TypeOK'
  <2>1. PICK p \in rx[n] :
          SendNextPacket(n, [mb[n] EXCEPT ![p.mailbox] = AfterAck(mb[n][p.mailbox], p.value)],
                         [rx EXCEPT ![n] = {}])
    BY <1>8 DEF HandleAck
  <2> DEFINE box == [mb[n] EXCEPT ![p.mailbox] = AfterAck(mb[n][p.mailbox], p.value)]
             r == [rx EXCEPT ![n] = {}]
  <2>2. p.mailbox \in Boxes /\ p.value \in Value /\ mb[n] \in [Boxes -> Mailbox]
    BY DEF TypeOK, Packet
  <2>3. AfterAck(mb[n][p.mailbox], p.value) \in Mailbox
    BY <1>0, <2>2, MailboxMethods
  <2>4. box \in [Boxes -> Mailbox]
    BY <2>2, <2>3
  <2>5. r \in [Node -> SUBSET Packet] /\ \A k \in Node : \A x, y \in r[k] : x = y
    BY DEF TypeOK
  <2>6. SendNextPacket(n, box, r)
    BY <2>1
  <2> HIDE DEF box, r
  <2>7. /\ mb' \in [Node -> [Boxes -> Mailbox]]
        /\ rx' \in [Node -> SUBSET Packet]
        /\ \A k \in Node : \A x, y \in rx'[k] : x = y
    BY <2>4, <2>5, <2>6, SendType
  <2> QED
    BY <1>8, <2>7 DEF HandleAck, TypeOK
<1>9. ASSUME NEW n \in Node, Poll(n)
      PROVE  TypeOK'
  <2>1. /\ mb[n] \in [Boxes -> Mailbox] /\ rx \in [Node -> SUBSET Packet]
        /\ \A k \in Node : \A x, y \in rx[k] : x = y
    BY DEF TypeOK
  <2>2. /\ mb' \in [Node -> [Boxes -> Mailbox]]
        /\ rx' \in [Node -> SUBSET Packet]
        /\ \A k \in Node : \A x, y \in rx'[k] : x = y
    <3>1. SendNextPacket(n, mb[n], rx)
      BY <1>9 DEF Poll
    <3> QED
      BY <2>1, <3>1, SendType
  <2> QED
    BY <1>9, <2>2 DEF Poll, TypeOK
<1>10. ASSUME UNCHANGED vars
       PROVE  TypeOK'
  BY <1>10 DEF vars, TypeOK
<1> QED
  BY <1>1, <1>2, <1>3, <1>4, <1>5, <1>6, <1>7, <1>8, <1>9, <1>10 DEF Next, System, Loop

(* The state of both nodes and of the air keeps its type, whatever the     *)
(* applications store.                                                     *)
THEOREM TypeCorrect == Spec => []TypeOK
<1>1. TypeOK /\ [Next]_vars => TypeOK'
  BY NextTypeOK
<1> QED
  BY InitTypeOK, <1>1, PTL DEF Spec

-------------------------------------------------------------------------------
(* The inductive invariant.  Each lemma first says what a step does to the *)
(* fields the invariant reads, then proves its conjuncts from that.        *)

LEMMA InitIndInv == Init => IndInv
<1> SUFFICES ASSUME Init PROVE IndInv
  OBVIOUS
<1>1. TypeOK
  BY InitTypeOK
<1>2. \A n \in Node, b \in Boxes : /\ mb[n][b] = NewMailbox
                                   /\ raised[n][b] = {}
                                   /\ rx[n] = {} /\ pending[n] = {}
                                   /\ Peer(n) \in Node
  BY DEF Init, Node, Peer
<1>3. /\ NewMailbox.contents = Zero /\ NewMailbox.synchronized = TRUE
      /\ NewMailbox.callerChanged = FALSE /\ NewMailbox.changeTrigger = FALSE
  BY DEF NewMailbox
<1>4. "master" \in Node /\ "slave" \in Node
  BY DEF Node
<1>5. PushesOwn /\ EventIsDue /\ InSync
  BY <1>2, <1>3, <1>4 DEF PushesOwn, EventIsDue, InSync
<1>6. Origin
  BY <1>2, <1>3, <1>4 DEF Origin
<1>7. \A n \in Node : rx[n] = {} /\ pending[n] = {} /\ Peer(n) \in Node
  BY DEF Init, Node, Peer
<1>8. FrameOrigin
  BY <1>7 DEF FrameOrigin, OnItsWay
<1>9. AckInv
  BY <1>4, <1>7 DEF AckInv, AckComes, OnItsWay
<1>10. ValueInv
  BY <1>4, <1>7 DEF ValueInv
<1> QED
  BY <1>1, <1>5, <1>6, <1>8, <1>9, <1>10 DEF IndInv

LEMMA SetKeepsIndInv ==
  ASSUME IndInv, NEW n \in Node, NEW b \in Boxes, NEW v \in Value,
         Fresh(b, v), Set(n, b, v)
  PROVE  IndInv'
<1> USE DEF IndInv
<1>1. TypeOK'
  BY NextTypeOK DEF Next
<1>2. /\ mb'[n][b].contents = v /\ mb'[n][b].synchronized = FALSE
      /\ mb'[n][b].callerChanged = TRUE /\ mb'[n][b].changeTrigger = TRUE
  <2>1. mb[n][b] \in Mailbox /\ mb'[n][b] = SetLong(mb[n][b], v)
    BY DEF Set, TypeOK
  <2> QED
    BY <2>1 DEF SetLong, Mailbox
<1>3. \A k \in Node, c \in Boxes : k # n \/ c # b =>
        mb'[k][c] = mb[k][c] /\ raised'[k][c] = raised[k][c]
  BY DEF Set, TypeOK
<1>4. raised'[n][b] = raised[n][b] \cup {v}
  BY DEF Set, TypeOK
<1>5. v # Zero /\ \A k \in Node : v \notin raised[k][b]
  BY ValueAssumption DEF Fresh, Node
<1>6. pending' = pending /\ rx' = rx
  BY DEF Set
<1>7. /\ \A k \in Node : Peer(k) \in Node /\ Peer(k) # k /\ Peer(Peer(k)) = k
      /\ Node = {"master", "slave"}
      /\ Peer("master") = "slave" /\ Peer("slave") = "master"
  BY DEF Node, Peer
<1> USE <1>2, <1>3, <1>4, <1>5, <1>6, <1>7
<1>8. \A k \in Node, p \in Packet : p \in rx[k] \/ p \in pending[k] => p.mailbox \in Boxes
  BY DEF Packet
<1>9. PushesOwn'
  BY DEF PushesOwn
<1>10. EventIsDue'
  BY DEF EventIsDue
<1>11. Origin'
  BY DEF Origin
<1>12. FrameOrigin'
  BY <1>8 DEF FrameOrigin, OnItsWay, Sender, TypeOK
<1>13. AckInv'
  <2>1. ~AckComes(n, b)'
    BY DEF FrameOrigin, AckComes, OnItsWay, Sender
  <2>2. \A k \in Node, c \in Boxes : AckComes(k, c)' =>
          AckComes(k, c) /\ mb'[k][c] = mb[k][c]
    BY <2>1 DEF AckComes, OnItsWay
  <2>3. \A k \in Node, c \in Boxes : AckComes(k, c)' => Agree(k, c)'
    BY <2>2 DEF AckInv, Agree
  <2> QED
    BY <2>2, <2>3 DEF AckInv
<1>14. ValueInv'
  <2>1. ASSUME NEW k \in Node, NEW p \in rx[k], IsValue(p), ~Contended(k, mb'[k][p.mailbox])
        PROVE  \/ mb'[Peer(k)][p.mailbox].contents = p.value
               \/ ~mb'[Peer(k)][p.mailbox].synchronized
    <3>1. p.mailbox \in Boxes
      BY <1>8 DEF TypeOK
    <3>2. CASE k = n /\ p.mailbox = b
      <4>1. ~Contended(k, mb[k][p.mailbox]) \/ mb[k][p.mailbox].callerChanged
        BY DEF Contended
      <4> QED
        BY <2>1, <3>2, <4>1 DEF ValueInv, Contended
    <3>3. CASE k # n \/ p.mailbox # b
      BY <2>1, <3>1, <3>3 DEF ValueInv
    <3> QED
      BY <3>2, <3>3
  <2>2. ASSUME NEW p \in rx["master"], NEW q \in pending["slave"],
               IsValue(p), p.value = mb'["slave"][p.mailbox].contents
        PROVE  q.mailbox # p.mailbox
    <3>1. p.mailbox \in Boxes
      BY <1>8 DEF TypeOK
    <3>2. p.value \in raised["slave"][p.mailbox]
      BY <2>2 DEF FrameOrigin, OnItsWay, Sender, IsValue
    <3> QED
      BY <2>2, <3>1, <3>2 DEF ValueInv
  <2> QED
    BY <2>1, <2>2 DEF ValueInv
<1>15. InSync'
  BY DEF InSync
<1> QED
  BY <1>1, <1>9, <1>10, <1>11, <1>12, <1>13, <1>14, <1>15

(* The two nodes.                                                          *)
LEMMA Nodes ==
  /\ Node = {"master", "slave"}
  /\ Peer("master") = "slave" /\ Peer("slave") = "master"
  /\ \A n \in Node : Peer(n) \in Node /\ Peer(n) # n /\ Peer(Peer(n)) = n
BY DEF Node, Peer

(* Frames name registered mailboxes.                                       *)
LEMMA FrameType ==
  ASSUME TypeOK
  PROVE  \A n \in Node : \A p \in rx[n] \cup pending[n] :
            p \in Packet /\ p.mailbox \in Boxes /\ p.value \in Value /\ p.command \in Command
BY DEF TypeOK, Packet

(* The fields and buffers the invariant reads do not change.               *)
LEMMA QuietKeepsIndInv ==
  ASSUME IndInv, TypeOK',
         \A n \in Node, b \in Boxes :
            /\ mb'[n][b].contents = mb[n][b].contents
            /\ mb'[n][b].synchronized = mb[n][b].synchronized
            /\ mb'[n][b].callerChanged = mb[n][b].callerChanged
            /\ mb'[n][b].changeTrigger = mb[n][b].changeTrigger,
         pending' = pending, rx' = rx, raised' = raised
  PROVE  IndInv'
<1> USE Nodes DEF IndInv
<1>1. PushesOwn' /\ EventIsDue'
  BY DEF PushesOwn, EventIsDue
<1>2. Origin'
  BY DEF Origin
<1>3. FrameOrigin'
  BY DEF FrameOrigin, OnItsWay, Sender
<1>4. AckInv'
  BY DEF AckInv, AckComes, OnItsWay, Agree
<1>5. ValueInv'
  BY FrameType DEF ValueInv, Contended
<1>6. InSync'
  BY DEF InSync
<1> QED
  BY <1>1, <1>2, <1>3, <1>4, <1>5, <1>6

LEMMA ResetKeepsIndInv ==
  ASSUME IndInv, NEW n \in Node, ResetBoxes(n)
  PROVE  IndInv'
<1> USE Nodes DEF IndInv
<1>1. TypeOK'
  BY NextTypeOK DEF Next, System
<1>2. \A b \in Boxes : /\ mb'[n][b].contents = mb[n][b].contents
                       /\ mb'[n][b].synchronized <=> ~mb[n][b].callerChanged
                       /\ mb'[n][b].callerChanged <=> mb[n][b].callerChanged
                       /\ ~mb'[n][b].changeTrigger
  <2>1. \A b \in Boxes : mb[n][b] \in Mailbox /\ mb'[n][b] = BusReset(mb[n][b])
    BY DEF ResetBoxes, TypeOK
  <2> QED
    BY <2>1 DEF BusReset, Mailbox
<1>3. \A k \in Node, c \in Boxes : k # n => mb'[k][c] = mb[k][c]
  BY DEF ResetBoxes, TypeOK
<1>4. /\ pending' = pending /\ rx' = rx /\ raised' = raised
      /\ pending[n] = {} /\ rx[n] = {}
  BY DEF ResetBoxes
<1>5. \A k \in Node, b \in Boxes :
         /\ mb'[k][b].contents = mb[k][b].contents
         /\ mb'[k][b].callerChanged <=> mb[k][b].callerChanged
         /\ mb'[k][b].synchronized => mb[k][b].synchronized
  BY <1>2, <1>3 DEF PushesOwn
<1>6. PushesOwn' /\ EventIsDue'
  BY <1>2, <1>3, <1>4 DEF PushesOwn, EventIsDue, Origin
<1>7. Origin'
  BY <1>4, <1>5 DEF Origin
<1>8. FrameOrigin'
  BY <1>4 DEF FrameOrigin, OnItsWay, Sender
<1>9. AckInv'
  BY <1>4, <1>5 DEF AckInv, AckComes, OnItsWay, Agree
<1>10. ValueInv'
  BY <1>4, <1>5, FrameType DEF ValueInv, Contended
<1>11. InSync'
  BY <1>5 DEF InSync
<1> QED
  BY <1>1, <1>6, <1>7, <1>8, <1>9, <1>10, <1>11

LEMMA SendDeferredKeepsIndInv ==
  ASSUME IndInv, NEW n \in Node, SendDeferred(n)
  PROVE  IndInv'
<1> USE Nodes DEF IndInv
<1>1. TypeOK'
  BY NextTypeOK DEF Next, System, Loop
<1>2. PICK p \in pending[n] : \/ rx' = rx
                              \/ rx[Peer(n)] = {} /\ rx' = [rx EXCEPT ![Peer(n)] = {p}]
  BY DEF SendDeferred, Air
<1>3. /\ mb' = mb /\ raised' = raised /\ pending'[n] = {}
      /\ \A k \in Node : k # n => pending'[k] = pending[k]
  BY DEF SendDeferred, TypeOK
<1>4. \A k \in Node : /\ \A q \in rx'[k] : q \in rx[k] \/ (k = Peer(n) /\ q = p)
                      /\ pending'[k] \subseteq pending[k]
  BY <1>2, <1>3 DEF TypeOK
<1>5. p.command = "ACK_VALUE" /\ ~IsValue(p)
  BY DEF FrameOrigin, IsValue
<1>6. \A k \in Node : /\ rx'[k] \cup pending'[Peer(k)] \subseteq rx[k] \cup pending[Peer(k)]
                      /\ \A q \in rx'[k] : IsValue(q) => q \in rx[k]
  BY <1>4, <1>5
<1>7. PushesOwn' /\ EventIsDue' /\ Origin' /\ InSync'
  BY <1>3 DEF PushesOwn, EventIsDue, Origin, InSync
<1>8. FrameOrigin'
  BY <1>3, <1>4, <1>6 DEF FrameOrigin, OnItsWay, Sender
<1>9. AckInv'
  BY <1>3, <1>6 DEF AckInv, AckComes, OnItsWay, Agree
<1>10. ValueInv'
  BY <1>3, <1>4, <1>6 DEF ValueInv
<1> QED
  BY <1>1, <1>7, <1>8, <1>9, <1>10

LEMMA DisregardKeepsIndInv ==
  ASSUME IndInv, NEW n \in Node, DisregardValue(n)
  PROVE  IndInv'
<1> USE Nodes DEF IndInv
<1>1. TypeOK'
  BY NextTypeOK DEF Next, System, Loop
<1>2. PICK p \in rx[n] :
         /\ IsValue(p) /\ Contended(n, mb[n][p.mailbox])
         /\ mb' = [mb EXCEPT ![n][p.mailbox] = AfterDisregard(mb[n][p.mailbox])]
         /\ Reply(n, p)
  BY DEF DisregardValue
<1>3. p \in Packet /\ p.mailbox \in Boxes
  BY FrameType
<1>4. n = "master"
  BY <1>2 DEF Contended
<1>5. PICK a \in Packet : /\ a.mailbox = p.mailbox /\ a.value = p.value
                          /\ a.command = "ACK_VALUE" /\ pending' = [pending EXCEPT ![n] = {a}]
  BY <1>2, <1>3 DEF Reply, Packet, Command
<1>6. /\ pending'[n] = {a} /\ pending[n] = {} /\ rx'[n] = {} /\ raised' = raised
      /\ \A k \in Node : k # n => pending'[k] = pending[k] /\ rx'[k] = rx[k]
  BY <1>5 DEF DisregardValue, TypeOK
<1>7. /\ \A k \in Node, c \in Boxes :
            /\ mb'[k][c].contents = mb[k][c].contents
            /\ mb'[k][c].callerChanged <=> mb[k][c].callerChanged
            /\ mb'[k][c].changeTrigger <=> mb[k][c].changeTrigger
            /\ mb'[k][c].synchronized => mb[k][c].synchronized
            /\ ~mb'[k][c].synchronized => ~mb[k][c].synchronized \/ (k = n /\ c = p.mailbox)
      /\ ~mb'[n][p.mailbox].synchronized
  <2>1. mb[n][p.mailbox] \in Mailbox /\ mb'[n][p.mailbox] = AfterDisregard(mb[n][p.mailbox])
    BY <1>2, <1>3 DEF TypeOK
  <2>2. \A k \in Node, c \in Boxes : k # n \/ c # p.mailbox => mb'[k][c] = mb[k][c]
    BY <1>2, <1>3 DEF TypeOK
  <2> QED
    BY <2>1, <2>2 DEF AfterDisregard, Mailbox
<1>8. PushesOwn' /\ EventIsDue'
  BY <1>2, <1>6, <1>7 DEF PushesOwn, EventIsDue, Origin, Contended
<1>9. Origin'
  BY <1>6, <1>7 DEF Origin
<1>10. FrameOrigin'
  BY <1>2, <1>5, <1>6 DEF FrameOrigin, OnItsWay, Sender, IsValue
<1>11. AckInv'
  <2>1. \A c \in Boxes : AckComes("master", c)' =>
          /\ AckComes("master", c)
          /\ \E q \in pending["slave"] : q.mailbox = c
    BY <1>4, <1>6, <1>7 DEF AckComes, OnItsWay
  <2>2. \A c \in Boxes : AckComes("slave", c)' =>
          \/ AckComes("slave", c)
          \/ c = p.mailbox /\ p.value = mb["slave"][c].contents
    BY <1>4, <1>5, <1>6, <1>7 DEF AckComes, OnItsWay
  <2>3. \A c \in Boxes : ~(AckComes("master", c)' /\ AckComes("slave", c)')
    BY <1>2, <1>4, <2>1, <2>2 DEF AckInv, ValueInv
  <2>4. \A k \in Node, c \in Boxes : AckComes(k, c)' => Agree(k, c)'
    BY <1>4, <1>7, <2>1, <2>2 DEF AckInv, Agree
  <2> QED
    BY <1>4, <1>6, <1>7, <2>1, <2>2, <2>3, <2>4 DEF AckInv
<1>12. ValueInv'
  BY <1>4, <1>6, <1>7, FrameType DEF ValueInv, Contended
<1>13. InSync'
  BY <1>7 DEF InSync
<1> QED
  BY <1>1, <1>8, <1>9, <1>10, <1>11, <1>12, <1>13

LEMMA AcceptKeepsIndInv ==
  ASSUME IndInv, NEW n \in Node, AcceptValue(n)
  PROVE  IndInv'
<1> USE Nodes DEF IndInv
<1>1. TypeOK'
  BY NextTypeOK DEF Next, System, Loop
<1>2. PICK p \in rx[n] :
         /\ IsValue(p) /\ ~Contended(n, mb[n][p.mailbox])
         /\ mb' = [mb EXCEPT ![n][p.mailbox] = AfterAccept(mb[n][p.mailbox], p.value)]
         /\ Reply(n, p)
  BY DEF AcceptValue
<1>3. p \in Packet /\ p.mailbox \in Boxes /\ p.value \in Value
  BY FrameType
<1>4. PICK a \in Packet : /\ a.mailbox = p.mailbox /\ a.value = p.value
                          /\ a.command = "ACK_VALUE" /\ pending' = [pending EXCEPT ![n] = {a}]
  BY <1>2, <1>3 DEF Reply, Packet, Command
<1>5. /\ pending'[n] = {a} /\ pending[n] = {} /\ rx'[n] = {} /\ raised' = raised
      /\ \A k \in Node : k # n => pending'[k] = pending[k] /\ rx'[k] = rx[k]
  BY <1>4 DEF AcceptValue, TypeOK
<1>6. \A k \in Node, c \in Boxes : k # n \/ c # p.mailbox => mb'[k][c] = mb[k][c]
  BY <1>2, <1>3 DEF TypeOK
<1>7. /\ mb'[n][p.mailbox].contents = p.value
      /\ mb'[n][p.mailbox].synchronized
      /\ ~mb'[n][p.mailbox].callerChanged
      /\ ~mb'[n][p.mailbox].changeTrigger
  <2>1. mb[n][p.mailbox] \in Mailbox /\ mb'[n][p.mailbox] = AfterAccept(mb[n][p.mailbox], p.value)
    BY <1>2, <1>3 DEF TypeOK
  <2> QED
    BY <2>1, <1>3 DEF AfterAccept, Mailbox
<1>8. /\ p.value \in raised[Peer(n)][p.mailbox]
      /\ p.value \notin raised[n][p.mailbox]
      /\ raised["master"][p.mailbox] \cap raised["slave"][p.mailbox] = {}
  BY <1>2, <1>3 DEF FrameOrigin, OnItsWay, Sender, IsValue, Origin
<1>9. n = "master" => raised["master"][p.mailbox] = {}
  BY <1>2, <1>3 DEF Origin, Contended
<1>10. PushesOwn' /\ EventIsDue'
  BY <1>5, <1>6, <1>7 DEF PushesOwn, EventIsDue
<1>11. Origin'
  BY <1>3, <1>5, <1>6, <1>7, <1>8, <1>9 DEF Origin
<1>12. FrameOrigin'
  BY <1>4, <1>5, <1>8 DEF FrameOrigin, OnItsWay, Sender
<1>13. AckInv'
  <2>1. ~AckComes(n, p.mailbox)'
    BY <1>5, <1>7, <1>8 DEF AckComes, OnItsWay, FrameOrigin, Sender
  <2>2. \A c \in Boxes : AckComes(n, c)' => c # p.mailbox /\ AckComes(n, c)
    BY <1>5, <1>6, <2>1 DEF AckComes, OnItsWay
  <2>3. \A c \in Boxes : c # p.mailbox /\ AckComes(Peer(n), c)' => AckComes(Peer(n), c)
    BY <1>4, <1>5, <1>6 DEF AckComes, OnItsWay
  <2>4. AckComes(Peer(n), p.mailbox)' => mb[Peer(n)][p.mailbox].contents = p.value
    <3>1. AckComes(Peer(n), p.mailbox) => mb[Peer(n)][p.mailbox].contents = p.value
      BY <1>2, <1>3 DEF AckInv
    <3>2. AckComes(Peer(n), p.mailbox)' =>
            AckComes(Peer(n), p.mailbox) \/ mb[Peer(n)][p.mailbox].contents = p.value
      BY <1>3, <1>4, <1>5, <1>6 DEF AckComes, OnItsWay
    <3> QED
      BY <3>1, <3>2
  <2>5. \A c \in Boxes : ~(AckComes(n, c)' /\ AckComes(Peer(n), c)')
    BY <2>2, <2>3 DEF AckInv
  <2>6. \A c \in Boxes : AckComes(n, c)' => Agree(n, c)'
    BY <1>6, <2>2 DEF AckInv, Agree
  <2>7. \A c \in Boxes : AckComes(Peer(n), c)' => Agree(Peer(n), c)'
    BY <1>6, <1>7, <2>3, <2>4 DEF AckInv, Agree
  <2>8. \A c \in Boxes : AckComes(n, c)' =>
          \A q \in rx'[Peer(n)] : q.mailbox = c /\ IsValue(q) => q.value = mb'[n][c].contents
    BY <1>5, <1>6, <2>2 DEF AckInv
  <2>9. \A c \in Boxes : AckComes(Peer(n), c)' =>
          \A q \in rx'[n] : q.mailbox = c /\ IsValue(q) => q.value = mb'[Peer(n)][c].contents
    BY <1>5
  <2> QED
    BY <2>5, <2>6, <2>7, <2>8, <2>9 DEF AckInv
<1>14. ValueInv'
  <2>1. ASSUME NEW k \in Node, NEW q \in rx'[k], IsValue(q), ~Contended(k, mb'[k][q.mailbox])
        PROVE  \/ mb'[Peer(k)][q.mailbox].contents = q.value
               \/ ~mb'[Peer(k)][q.mailbox].synchronized
    <3>1. k = Peer(n) /\ q \in rx[k] /\ q.mailbox \in Boxes
      BY <1>5, FrameType
    <3>2. CASE q.mailbox # p.mailbox
      BY <1>6, <2>1, <3>1, <3>2 DEF ValueInv
    <3>3. CASE q.mailbox = p.mailbox
      <4>1. q.value \in raised[n][p.mailbox]
        BY <2>1, <3>1, <3>3 DEF FrameOrigin, OnItsWay, Sender, IsValue
      <4>2. n = "slave"
        BY <1>9, <4>1
      <4>3. mb["master"][p.mailbox].callerChanged
        BY <1>3, <1>8, <4>2 DEF Origin
      <4> QED
        BY <1>6, <2>1, <3>1, <3>3, <4>2, <4>3 DEF Contended
    <3> QED
      BY <3>2, <3>3
  <2>2. ASSUME NEW q \in rx'["master"], NEW r \in pending'["slave"],
               IsValue(q), q.value = mb'["slave"][q.mailbox].contents
        PROVE  r.mailbox # q.mailbox
    <3>1. n = "slave" /\ q \in rx["master"] /\ r.mailbox = p.mailbox
      BY <1>4, <1>5
    <3>2. q.value \in raised["slave"][q.mailbox]
      BY <2>2, <3>1 DEF FrameOrigin, OnItsWay, Sender, IsValue
    <3> QED
      BY <1>7, <1>8, <2>2, <3>1, <3>2
  <2> QED
    BY <2>1, <2>2 DEF ValueInv
<1>15. InSync'
  <2>1. mb'[Peer(n)][p.mailbox].synchronized => mb'[Peer(n)][p.mailbox].contents = p.value
    BY <1>2, <1>3, <1>6 DEF ValueInv
  <2> QED
    BY <1>6, <1>7, <2>1 DEF InSync
<1> QED
  BY <1>1, <1>10, <1>11, <1>12, <1>13, <1>14, <1>15

(* What sendNextPacket() does to the node's mailboxes and to the radios.   *)
LEMMA SendEffect ==
  ASSUME TypeOK, NEW n \in Node, NEW STATE box, box \in [Boxes -> Mailbox],
         NEW STATE r, r \in [Node -> SUBSET Packet],
         SendNextPacket(n, box, r)
  PROVE  /\ \A k \in Node : k # n => mb'[k] = mb[k]
         /\ \A c \in Boxes : /\ mb'[n][c].contents = box[c].contents
                             /\ mb'[n][c].synchronized <=> box[c].synchronized
                             /\ mb'[n][c].callerChanged <=> box[c].callerChanged
                             /\ mb'[n][c].changeTrigger <=> box[c].changeTrigger
         /\ \/ rx' = r
            \/ \E q \in Packet : /\ IsValue(q) /\ q.value = box[q.mailbox].contents
                                 /\ q.command = GeneratedCommand(box[q.mailbox])
                                 /\ ~box[q.mailbox].synchronized
                                 /\ rx' = [r EXCEPT ![Peer(n)] = {q}]
<1>1. CASE mb' = [mb EXCEPT ![n] = box] /\ rx' = r
  BY <1>1 DEF TypeOK
<1>2. CASE \E b \in Due(n, box), received \in BOOLEAN :
             /\ mb' = [mb EXCEPT ![n] = [box EXCEPT ![b] = AfterGenerate(box[b])]]
             /\ rx' = Air(r, n, [mailbox |-> b, command |-> GeneratedCommand(box[b]),
                                 value |-> box[b].contents], received)
  <2>1. PICK b \in Boxes, received \in BOOLEAN :
             /\ ~box[b].synchronized
             /\ mb' = [mb EXCEPT ![n] = [box EXCEPT ![b] = AfterGenerate(box[b])]]
             /\ rx' = Air(r, n, [mailbox |-> b, command |-> GeneratedCommand(box[b]),
                                 value |-> box[b].contents], received)
    BY <1>2 DEF Due, HasPendingChanges
  <2>a. box[b].contents \in Value /\ GeneratedCommand(box[b]) \in Command
    BY DEF Mailbox, GeneratedCommand, Command
  <2>2. PICK q \in Packet : q = [mailbox |-> b, command |-> GeneratedCommand(box[b]),
                                 value |-> box[b].contents]
    BY <2>a DEF Packet
  <2>3. /\ IsValue(q) /\ q.mailbox = b /\ q.value = box[b].contents
        /\ q.command = GeneratedCommand(box[b])
    BY <2>2 DEF IsValue, GeneratedCommand
  <2>4. \A k \in Node : k # n => mb'[k] = mb[k]
    BY <2>1 DEF TypeOK
  <2>5. \A c \in Boxes : mb'[n][c] = IF c = b THEN AfterGenerate(box[b]) ELSE box[c]
    BY <2>1 DEF TypeOK
  <2>6. \A c \in Boxes : /\ mb'[n][c].contents = box[c].contents
                         /\ mb'[n][c].synchronized <=> box[c].synchronized
                         /\ mb'[n][c].callerChanged <=> box[c].callerChanged
                         /\ mb'[n][c].changeTrigger <=> box[c].changeTrigger
    BY <2>5 DEF AfterGenerate, Mailbox
  <2>7. rx' = r \/ rx' = [r EXCEPT ![Peer(n)] = {q}]
    BY <2>1, <2>2 DEF Air
  <2> QED
    BY <2>1, <2>3, <2>4, <2>6, <2>7
<1> QED
  BY <1>1, <1>2 DEF SendNextPacket

(* One acknowledgement taken from the radio, or none, and then a poll.     *)
LEMMA PollKeepsIndInv ==
  ASSUME IndInv, NEW n \in Node, TypeOK',
         pending[n] = {}, pending' = pending, raised' = raised, rx'[n] = {},
         \A k \in Node : k # n => mb'[k] = mb[k],
         \A c \in Boxes : /\ mb'[n][c].contents = mb[n][c].contents
                          /\ mb'[n][c].callerChanged <=> mb[n][c].callerChanged
                          /\ mb'[n][c].changeTrigger => mb[n][c].changeTrigger
                          /\ mb[n][c].synchronized => mb'[n][c].synchronized
                          /\ mb'[n][c].synchronized =>
                                \/ mb[n][c].synchronized
                                \/ AckComes(n, c) /\ ~mb'[n][c].changeTrigger,
         \A q \in rx'[Peer(n)] : \/ q \in rx[Peer(n)]
                                 \/ /\ IsValue(q) /\ q.value = mb[n][q.mailbox].contents
                                    /\ ~mb'[n][q.mailbox].synchronized
  PROVE  IndInv'
<1> USE Nodes DEF IndInv
<1>1. \A k \in Node : \A q \in rx'[k] :
         q \in Packet /\ q.mailbox \in Boxes /\ q.value \in Value /\ q.command \in Command
  BY DEF TypeOK, Packet
<1>2. \A k \in Node, c \in Boxes : mb'[k][c].contents = mb[k][c].contents
                                   /\ (mb'[k][c].callerChanged <=> mb[k][c].callerChanged)
  OBVIOUS
<1>3. PushesOwn' /\ EventIsDue'
  BY DEF PushesOwn, EventIsDue
<1>4. Origin'
  BY <1>2 DEF Origin
<1>5. \A q \in rx'[Peer(n)] : q \notin rx[Peer(n)] => q.value \in raised[n][q.mailbox]
  BY <1>1, <1>2, <1>3 DEF PushesOwn
<1>6. FrameOrigin'
  BY <1>1, <1>5 DEF FrameOrigin, OnItsWay, Sender, IsValue
<1>7. \A k \in Node, c \in Boxes : AckComes(k, c)' => AckComes(k, c)
  BY <1>2 DEF AckComes, OnItsWay, IsValue
<1>8. AckInv'
  <2>1. \A k \in Node, c \in Boxes : AckComes(k, c)' => Agree(k, c)'
    BY <1>2, <1>7 DEF AckInv, Agree
  <2>2. \A k \in Node, c \in Boxes : AckComes(k, c)' =>
          \A q \in rx'[Peer(k)] : q.mailbox = c /\ IsValue(q) => q.value = mb'[k][c].contents
    BY <1>2, <1>7 DEF AckInv
  <2> QED
    BY <1>7, <2>1, <2>2 DEF AckInv
<1>9. ValueInv'
  <2>1. ASSUME NEW k \in Node, NEW q \in rx'[k], IsValue(q), ~Contended(k, mb'[k][q.mailbox])
        PROVE  \/ mb'[Peer(k)][q.mailbox].contents = q.value
               \/ ~mb'[Peer(k)][q.mailbox].synchronized
    <3>1. k = Peer(n) /\ q.mailbox \in Boxes /\ ~Contended(k, mb[k][q.mailbox])
      BY <1>1, <2>1
    <3>2. CASE q \in rx[k]
      BY <1>2, <2>1, <3>1, <3>2 DEF ValueInv, AckInv
    <3>3. CASE q \notin rx[k]
      BY <1>2, <3>1, <3>3
    <3> QED
      BY <3>2, <3>3
  <2>2. ASSUME NEW p \in rx'["master"], NEW q \in pending'["slave"],
               IsValue(p), p.value = mb'["slave"][p.mailbox].contents
        PROVE  q.mailbox # p.mailbox
    <3>1. n = "master"
      BY <2>2
    <3> QED
      BY <2>2, <3>1
  <2> QED
    BY <2>1, <2>2 DEF ValueInv
<1>10. InSync'
  BY <1>2 DEF InSync, AckInv, Agree
<1> QED
  BY <1>3, <1>4, <1>6, <1>8, <1>9, <1>10

LEMMA LoopPollKeepsIndInv ==
  ASSUME IndInv, NEW n \in Node, HandleAck(n) \/ Poll(n)
  PROVE  IndInv'
<1> USE Nodes
<1>1. TypeOK /\ TypeOK'
  BY NextTypeOK DEF IndInv, Next, System, Loop
<1>2. ASSUME NEW STATE box, box \in [Boxes -> Mailbox], NEW STATE r, r \in [Node -> SUBSET Packet],
             SendNextPacket(n, box, r),
             pending[n] = {}, pending' = pending, raised' = raised,
             r[n] = {}, r[Peer(n)] = rx[Peer(n)],
             \A c \in Boxes : /\ box[c].contents = mb[n][c].contents
                              /\ box[c].callerChanged <=> mb[n][c].callerChanged
                              /\ box[c].changeTrigger => mb[n][c].changeTrigger
                              /\ mb[n][c].synchronized => box[c].synchronized
                              /\ box[c].synchronized =>
                                    mb[n][c].synchronized \/ (AckComes(n, c) /\ ~box[c].changeTrigger)
      PROVE  IndInv'
  <2>1. /\ \A k \in Node : k # n => mb'[k] = mb[k]
        /\ \A c \in Boxes : /\ mb'[n][c].contents = box[c].contents
                            /\ mb'[n][c].synchronized <=> box[c].synchronized
                            /\ mb'[n][c].callerChanged <=> box[c].callerChanged
                            /\ mb'[n][c].changeTrigger <=> box[c].changeTrigger
        /\ \/ rx' = r
           \/ \E q \in Packet : /\ IsValue(q) /\ q.value = box[q.mailbox].contents
                                /\ ~box[q.mailbox].synchronized
                                /\ rx' = [r EXCEPT ![Peer(n)] = {q}]
    BY <1>1, <1>2, SendEffect
  <2>2. \A c \in Boxes : /\ mb'[n][c].contents = mb[n][c].contents
                         /\ mb'[n][c].callerChanged <=> mb[n][c].callerChanged
                         /\ mb'[n][c].changeTrigger => mb[n][c].changeTrigger
                         /\ mb[n][c].synchronized => mb'[n][c].synchronized
                         /\ mb'[n][c].synchronized =>
                               \/ mb[n][c].synchronized
                               \/ AckComes(n, c) /\ ~mb'[n][c].changeTrigger
    BY <1>2, <2>1
  <2>3. rx'[n] = {}
    BY <1>2, <2>1
  <2>4. \A q \in rx'[Peer(n)] : \/ q \in rx[Peer(n)]
                                \/ /\ IsValue(q) /\ q.value = mb[n][q.mailbox].contents
                                   /\ ~mb'[n][q.mailbox].synchronized
    BY <1>2, <2>1 DEF Packet
  <2> QED
    BY <1>1, <1>2, <2>1, <2>2, <2>3, <2>4, PollKeepsIndInv
<1>3. CASE Poll(n)
  <2>1. /\ mb[n] \in [Boxes -> Mailbox] /\ rx \in [Node -> SUBSET Packet]
        /\ SendNextPacket(n, mb[n], rx)
        /\ pending[n] = {} /\ pending' = pending /\ raised' = raised /\ rx[n] = {}
    BY <1>1, <1>3 DEF Poll, TypeOK
  <2> QED
    BY <1>2, <2>1
<1>4. CASE HandleAck(n)
  <2>1. PICK p \in rx[n] :
          /\ p.command = "ACK_VALUE"
          /\ SendNextPacket(n, [mb[n] EXCEPT ![p.mailbox] = AfterAck(mb[n][p.mailbox], p.value)],
                            [rx EXCEPT ![n] = {}])
    BY <1>4 DEF HandleAck
  <2> DEFINE box == [mb[n] EXCEPT ![p.mailbox] = AfterAck(mb[n][p.mailbox], p.value)]
             r == [rx EXCEPT ![n] = {}]
  <2>2. /\ p.mailbox \in Boxes /\ p.value \in Value /\ mb[n] \in [Boxes -> Mailbox]
        /\ \A c \in Boxes : mb[n][c] \in Mailbox
    BY <1>1, FrameType DEF TypeOK
  <2>3. AfterAck(mb[n][p.mailbox], p.value) \in Mailbox
    BY <2>2, MailboxMethods
  <2>4. box \in [Boxes -> Mailbox]
    BY <2>2, <2>3
  <2>5. /\ r \in [Node -> SUBSET Packet] /\ r[n] = {} /\ r[Peer(n)] = rx[Peer(n)]
    BY <1>1 DEF TypeOK
  <2>6. SendNextPacket(n, box, r)
    BY <2>1
  <2>7. \A c \in Boxes : box[c] = IF c = p.mailbox THEN AfterAck(mb[n][c], p.value) ELSE mb[n][c]
    BY <2>2
  <2> HIDE DEF box, r
  <2>8. p.value = mb[n][p.mailbox].contents => AckComes(n, p.mailbox)
    BY <2>1 DEF AckComes, OnItsWay
  <2>9. \A c \in Boxes : /\ box[c].contents = mb[n][c].contents
                         /\ box[c].callerChanged <=> mb[n][c].callerChanged
                         /\ box[c].changeTrigger => mb[n][c].changeTrigger
                         /\ mb[n][c].synchronized => box[c].synchronized
                         /\ box[c].synchronized =>
                               mb[n][c].synchronized \/ (AckComes(n, c) /\ ~box[c].changeTrigger)
    BY <2>2, <2>7, <2>8 DEF AfterAck, Mailbox
  <2>10. pending[n] = {} /\ pending' = pending /\ raised' = raised
    BY <1>4 DEF HandleAck
  <2> QED
    BY <1>2, <2>4, <2>5, <2>6, <2>9, <2>10
<1> QED
  BY <1>3, <1>4

LEMMA NextIndInv ==
  ASSUME IndInv, [FreshNext]_vars
  PROVE  IndInv'
<1>0. TypeOK /\ TypeOK'
  BY NextTypeOK DEF IndInv, FreshNext, Next
<1>1. ASSUME NEW n \in Node, NEW b \in Boxes, NEW v \in Value, Fresh(b, v), Set(n, b, v)
      PROVE  IndInv'
  BY <1>1, SetKeepsIndInv
<1>2. ASSUME NEW n \in Node, WarmUp(n)
      PROVE  IndInv'
  BY <1>0, <1>2, QuietKeepsIndInv DEF WarmUp
<1>3. ASSUME NEW n \in Node, NEW b \in Boxes, Elapse(n, b)
      PROVE  IndInv'
  <2>1. \A k \in Node, c \in Boxes : mb[k][c] \in Mailbox
    BY <1>0 DEF TypeOK
  <2>2. \A k \in Node, c \in Boxes :
           mb'[k][c] = IF k = n /\ c = b THEN [mb[n][b] EXCEPT !.waiting = FALSE] ELSE mb[k][c]
    BY <1>0, <1>3 DEF Elapse, TypeOK
  <2>3. \A k \in Node, c \in Boxes :
           /\ mb'[k][c].contents = mb[k][c].contents
           /\ mb'[k][c].synchronized = mb[k][c].synchronized
           /\ mb'[k][c].callerChanged = mb[k][c].callerChanged
           /\ mb'[k][c].changeTrigger = mb[k][c].changeTrigger
    BY <2>1, <2>2 DEF Mailbox
  <2>4. pending' = pending /\ rx' = rx /\ raised' = raised
    BY <1>3 DEF Elapse
  <2> QED
    BY <1>0, <2>3, <2>4, QuietKeepsIndInv
<1>4. ASSUME NEW n \in Node, ResetBoxes(n)
      PROVE  IndInv'
  BY <1>4, ResetKeepsIndInv
<1>5. ASSUME NEW n \in Node, Loop(n)
      PROVE  IndInv'
  BY <1>5, SendDeferredKeepsIndInv, DisregardKeepsIndInv, AcceptKeepsIndInv,
     LoopPollKeepsIndInv DEF Loop
<1>6. ASSUME UNCHANGED vars
      PROVE  IndInv'
  BY <1>0, <1>6, QuietKeepsIndInv DEF vars
<1> QED
  BY <1>1, <1>2, <1>3, <1>4, <1>5, <1>6 DEF FreshNext, System

(* The inductive invariant holds of every behaviour in which no value is   *)
(* stored twice.                                                           *)
THEOREM InductiveInvariant == FreshSpec => []IndInv
<1>1. IndInv /\ [FreshNext]_vars => IndInv'
  BY NextIndInv
<1> QED
  BY InitIndInv, <1>1, PTL DEF FreshSpec

(* Mailboxes that have nothing left to push hold the same value at both    *)
(* ends, whatever is lost, late or contended, for every number of          *)
(* mailboxes, values and bus resets (handleMessage, generateMessage,       *)
(* busReset of Mailbox.cpp).                                               *)
THEOREM EndsInSync == FreshSpec => []InSync
<1>1. IndInv => InSync
  BY DEF IndInv
<1> QED
  BY InductiveInvariant, <1>1, PTL

(* Nothing that came over the net is ever sent back as a value.            *)
THEOREM NoEcho == FreshSpec => []PushesOwn
<1>1. IndInv => PushesOwn
  BY DEF IndInv
<1> QED
  BY InductiveInvariant, <1>1, PTL

(* An event flag is never left set on a mailbox that has stopped pushing.  *)
THEOREM EventsAreDue == FreshSpec => []EventIsDue
<1>1. IndInv => EventIsDue
  BY DEF IndInv
<1> QED
  BY InductiveInvariant, <1>1, PTL

-------------------------------------------------------------------------------
(* The order of values.                                                    *)

(* The three things a step can do to mailbox c of node k, and what new     *)
(* values can turn up in its radio.                                        *)
Keeps(k, c) == /\ mb'[k][c].contents = mb[k][c].contents
               /\ mb'[k][c].callerChanged <=> mb[k][c].callerChanged
               /\ raised'[k][c] = raised[k][c]

Stores(k, c) == \E v \in Value : /\ Fresh(c, v)
                                 /\ mb'[k][c].contents = v /\ mb'[k][c].callerChanged
                                 /\ raised'[k][c] = raised[k][c] \cup {v}

Takes(k, c) == /\ \E p \in rx[k] : /\ IsValue(p) /\ p.mailbox = c
                                   /\ ~Contended(k, mb[k][c])
                                   /\ mb'[k][c].contents = p.value
               /\ ~mb'[k][c].callerChanged
               /\ raised'[k][c] = raised[k][c]
               /\ rx'[k] = {}

Sent(k, q) == /\ q.value = mb[Peer(k)][q.mailbox].contents
              /\ mb[Peer(k)][q.mailbox].callerChanged
              /\ Keeps(k, q.mailbox)

Effect == /\ \A k \in Node, c \in Boxes : Keeps(k, c) \/ Stores(k, c) \/ Takes(k, c)
          /\ \A k \in Node : \A q \in rx'[k] : IsValue(q) => q \in rx[k] \/ Sent(k, q)

LEMMA SetEffect ==
  ASSUME TypeOK, NEW n \in Node, NEW b \in Boxes, NEW v \in Value, Fresh(b, v), Set(n, b, v)
  PROVE  Effect
<1>1. mb[n][b] \in Mailbox
  BY DEF TypeOK
<1>2. \A k \in Node, c \in Boxes :
         mb'[k][c] = IF k = n /\ c = b THEN SetLong(mb[n][b], v) ELSE mb[k][c]
  BY DEF Set, TypeOK
<1>3. \A k \in Node, c \in Boxes :
         raised'[k][c] = IF k = n /\ c = b THEN raised[n][b] \cup {v} ELSE raised[k][c]
  BY DEF Set, TypeOK
<1>4. Stores(n, b)
  <2>1. mb'[n][b] = SetLong(mb[n][b], v) /\ raised'[n][b] = raised[n][b] \cup {v}
    BY <1>2, <1>3
  <2>2. mb'[n][b].contents = v /\ mb'[n][b].callerChanged = TRUE
    BY <1>1, <2>1 DEF SetLong, Mailbox
  <2> QED
    BY <2>1, <2>2 DEF Stores
<1>5. \A k \in Node, c \in Boxes : k # n \/ c # b => Keeps(k, c)
  BY <1>2, <1>3 DEF Keeps
<1>6. rx' = rx
  BY DEF Set
<1> QED
  BY <1>4, <1>5, <1>6 DEF Effect

(* Timers, resets and answers leave contents and origin alone.             *)
LEMMA QuietEffect ==
  ASSUME IndInv, [FreshNext]_vars,
         \/ UNCHANGED vars
         \/ \E n \in Node : \/ WarmUp(n) \/ ResetBoxes(n) \/ SendDeferred(n) \/ DisregardValue(n)
                            \/ \E b \in Boxes : Elapse(n, b)
  PROVE  Effect
<1> USE Nodes
<1>1. TypeOK
  BY DEF IndInv
<1>2. \A k \in Node, c \in Boxes : mb[k][c] \in Mailbox
  BY <1>1 DEF TypeOK
<1>3. raised' = raised
  BY DEF vars, WarmUp, ResetBoxes, SendDeferred, DisregardValue, Elapse
<1>4. ASSUME NEW k \in Node, NEW c \in Boxes
      PROVE  mb'[k][c] \in {mb[k][c], BusReset(mb[k][c]), AfterDisregard(mb[k][c]),
                            [mb[k][c] EXCEPT !.waiting = FALSE]}
  <2>1. CASE UNCHANGED vars \/ \E n \in Node : WarmUp(n) \/ SendDeferred(n)
    BY <2>1 DEF vars, WarmUp, SendDeferred
  <2>2. ASSUME NEW n \in Node, ResetBoxes(n)
        PROVE  mb'[k][c] \in {mb[k][c], BusReset(mb[k][c])}
    BY <1>1, <2>2 DEF ResetBoxes, TypeOK
  <2>3. ASSUME NEW n \in Node, DisregardValue(n)
        PROVE  mb'[k][c] \in {mb[k][c], AfterDisregard(mb[k][c])}
    <3>1. PICK p \in rx[n] :
            mb' = [mb EXCEPT ![n][p.mailbox] = AfterDisregard(mb[n][p.mailbox])]
      BY <2>3 DEF DisregardValue
    <3>2. mb'[k][c] = IF k = n /\ c = p.mailbox THEN AfterDisregard(mb[n][p.mailbox])
                      ELSE mb[k][c]
      BY <1>1, <3>1 DEF TypeOK
    <3> QED
      BY <3>2
  <2>4. ASSUME NEW n \in Node, NEW b \in Boxes, Elapse(n, b)
        PROVE  mb'[k][c] \in {mb[k][c], [mb[k][c] EXCEPT !.waiting = FALSE]}
    <3>1. mb'[k][c] = IF k = n /\ c = b THEN [mb[n][b] EXCEPT !.waiting = FALSE] ELSE mb[k][c]
      BY <1>1, <2>4 DEF Elapse, TypeOK
    <3> QED
      BY <3>1
  <2> QED
    BY <2>1, <2>2, <2>3, <2>4
<1>5. \A k \in Node, c \in Boxes : Keeps(k, c)
  <2> SUFFICES ASSUME NEW k \in Node, NEW c \in Boxes
               PROVE  Keeps(k, c)
    OBVIOUS
  <2> DEFINE m == mb[k][c]
  <2>1. m \in Mailbox
    BY <1>2
  <2>2. \A x \in {m, BusReset(m), AfterDisregard(m), [m EXCEPT !.waiting = FALSE]} :
           x.contents = m.contents /\ x.callerChanged = m.callerChanged
    BY <2>1 DEF Mailbox, BusReset, AfterDisregard
  <2> QED
    BY <1>3, <1>4, <2>2 DEF Keeps
<1>6. ASSUME NEW k \in Node, NEW q \in rx'[k], IsValue(q)
      PROVE  q \in rx[k]
  <2>1. ASSUME NEW n \in Node, SendDeferred(n)
        PROVE  q \in rx[k]
    <3>1. PICK p \in pending[n], received \in BOOLEAN : rx' = Air(rx, n, p, received)
      BY <2>1 DEF SendDeferred
    <3>2. q = p \/ q \in rx[k]
      BY <1>1, <1>6, <3>1 DEF Air, TypeOK
    <3>3. p.command = "ACK_VALUE"
      BY DEF IndInv, FrameOrigin
    <3> QED
      BY <1>6, <3>2, <3>3 DEF IsValue
  <2>2. ASSUME NEW n \in Node, DisregardValue(n)
        PROVE  q \in rx[k]
    BY <1>1, <1>6, <2>2 DEF DisregardValue, TypeOK
  <2>3. CASE rx' = rx
    BY <1>6, <2>3
  <2> QED
    BY <2>1, <2>2, <2>3 DEF vars, WarmUp, ResetBoxes, Elapse
<1> QED
  BY <1>5, <1>6 DEF Effect

LEMMA AcceptEffect ==
  ASSUME TypeOK, NEW n \in Node, AcceptValue(n)
  PROVE  Effect
<1>1. PICK p \in rx[n] :
        /\ IsValue(p) /\ ~Contended(n, mb[n][p.mailbox])
        /\ mb' = [mb EXCEPT ![n][p.mailbox] = AfterAccept(mb[n][p.mailbox], p.value)]
  BY DEF AcceptValue
<1>2. p.mailbox \in Boxes /\ p.value \in Value /\ mb[n][p.mailbox] \in Mailbox
  BY FrameType DEF TypeOK
<1>3. \A k \in Node, c \in Boxes :
         mb'[k][c] = IF k = n /\ c = p.mailbox THEN AfterAccept(mb[n][p.mailbox], p.value)
                     ELSE mb[k][c]
  BY <1>1, <1>2 DEF TypeOK
<1>4. rx' = [rx EXCEPT ![n] = {}] /\ raised' = raised
  BY DEF AcceptValue
<1>5. rx'[n] = {} /\ \A k \in Node : rx'[k] \subseteq rx[k]
  BY <1>4 DEF TypeOK
<1>6. Takes(n, p.mailbox)
  <2>1. mb'[n][p.mailbox] = AfterAccept(mb[n][p.mailbox], p.value)
    BY <1>2, <1>3
  <2>2. mb'[n][p.mailbox].contents = p.value /\ mb'[n][p.mailbox].callerChanged = FALSE
    BY <1>2, <2>1 DEF AfterAccept, Mailbox
  <2> QED
    BY <1>1, <1>4, <1>5, <2>2 DEF Takes
<1>7. \A k \in Node, c \in Boxes : k # n \/ c # p.mailbox => Keeps(k, c)
  BY <1>3, <1>4 DEF Keeps
<1> QED
  BY <1>5, <1>6, <1>7 DEF Effect

LEMMA PollEffect ==
  ASSUME IndInv, NEW n \in Node, HandleAck(n) \/ Poll(n)
  PROVE  Effect
<1> USE Nodes
<1>1. TypeOK
  BY DEF IndInv
<1>2. ASSUME NEW STATE box, box \in [Boxes -> Mailbox], NEW STATE r, r \in [Node -> SUBSET Packet],
             SendNextPacket(n, box, r), raised' = raised,
             \A k \in Node : r[k] \subseteq rx[k],
             \A c \in Boxes : /\ box[c].contents = mb[n][c].contents
                              /\ box[c].callerChanged <=> mb[n][c].callerChanged
                              /\ mb[n][c].synchronized => box[c].synchronized
      PROVE  Effect
  <2>1. /\ \A k \in Node : k # n => mb'[k] = mb[k]
        /\ \A c \in Boxes : /\ mb'[n][c].contents = box[c].contents
                            /\ mb'[n][c].callerChanged <=> box[c].callerChanged
        /\ \/ rx' = r
           \/ \E q \in Packet : /\ IsValue(q) /\ q.value = box[q.mailbox].contents
                                /\ ~box[q.mailbox].synchronized
                                /\ rx' = [r EXCEPT ![Peer(n)] = {q}]
    BY <1>1, <1>2, SendEffect
  <2>2. \A k \in Node, c \in Boxes : Keeps(k, c)
    BY <1>2, <2>1 DEF Keeps
  <2>3. ASSUME NEW k \in Node, NEW q \in rx'[k], q \notin rx[k]
        PROVE  Sent(k, q)
    <3>1. /\ k = Peer(n) /\ q \in Packet /\ q.value = box[q.mailbox].contents
          /\ ~box[q.mailbox].synchronized
      BY <1>2, <2>1, <2>3
    <3>2. q.mailbox \in Boxes
      BY <3>1 DEF Packet
    <3>3. q.value = mb[n][q.mailbox].contents /\ ~mb[n][q.mailbox].synchronized
      BY <1>2, <3>1, <3>2
    <3>4. mb[n][q.mailbox].callerChanged
      BY <3>2, <3>3 DEF IndInv, PushesOwn
    <3> QED
      BY <2>2, <3>1, <3>2, <3>3, <3>4 DEF Sent
  <2> QED
    BY <2>2, <2>3 DEF Effect
<1>3. CASE Poll(n)
  <2>1. /\ mb[n] \in [Boxes -> Mailbox] /\ rx \in [Node -> SUBSET Packet]
        /\ SendNextPacket(n, mb[n], rx) /\ raised' = raised
    BY <1>1, <1>3 DEF Poll, TypeOK
  <2> QED
    BY <1>2, <2>1
<1>4. CASE HandleAck(n)
  <2>1. PICK p \in rx[n] :
          SendNextPacket(n, [mb[n] EXCEPT ![p.mailbox] = AfterAck(mb[n][p.mailbox], p.value)],
                         [rx EXCEPT ![n] = {}])
    BY <1>4 DEF HandleAck
  <2> DEFINE box == [mb[n] EXCEPT ![p.mailbox] = AfterAck(mb[n][p.mailbox], p.value)]
             r == [rx EXCEPT ![n] = {}]
  <2>2. /\ p.mailbox \in Boxes /\ p.value \in Value /\ mb[n] \in [Boxes -> Mailbox]
        /\ \A c \in Boxes : mb[n][c] \in Mailbox
    BY <1>1, FrameType DEF TypeOK
  <2>3. AfterAck(mb[n][p.mailbox], p.value) \in Mailbox
    BY <2>2, MailboxMethods
  <2>4. box \in [Boxes -> Mailbox]
    BY <2>2, <2>3
  <2>5. r \in [Node -> SUBSET Packet] /\ \A k \in Node : r[k] \subseteq rx[k]
    BY <1>1 DEF TypeOK
  <2>6. SendNextPacket(n, box, r)
    BY <2>1
  <2>7. \A c \in Boxes : box[c] = IF c = p.mailbox THEN AfterAck(mb[n][c], p.value) ELSE mb[n][c]
    BY <2>2
  <2> HIDE DEF box, r
  <2>8. \A c \in Boxes : /\ box[c].contents = mb[n][c].contents
                         /\ box[c].callerChanged <=> mb[n][c].callerChanged
                         /\ mb[n][c].synchronized => box[c].synchronized
    BY <2>2, <2>7 DEF AfterAck, Mailbox
  <2>9. raised' = raised
    BY <1>4 DEF HandleAck
  <2> QED
    BY <1>2, <2>4, <2>5, <2>6, <2>8, <2>9
<1> QED
  BY <1>3, <1>4

LEMMA StepEffect ==
  ASSUME IndInv, [FreshNext]_vars
  PROVE  Effect
<1>1. TypeOK
  BY DEF IndInv
<1> QED
  BY <1>1, SetEffect, QuietEffect, AcceptEffect, PollEffect DEF FreshNext, System, Loop

LEMMA InitOrderInv == Init => OrderInv
BY DEF Init, OrderInv

LEMMA StepOrderInv ==
  ASSUME IndInv, OrderInv, [FreshNext]_vars
  PROVE  OrderInv'
<1> USE Nodes
<1>1. TypeOK /\ Effect
  BY StepEffect DEF IndInv
<1>2. Zero \in Nat /\ Value \subseteq Nat
  BY ZeroAssumption, ValueAssumption
<1>3. \A k \in Node, c \in Boxes : mb[k][c].contents \in Nat /\ raised[k][c] \subseteq Nat
  <2>1. \A k \in Node, c \in Boxes : mb[k][c] \in Mailbox /\ raised[k][c] \subseteq Value
    BY <1>1 DEF TypeOK
  <2>2. \A m \in Mailbox : m.contents \in Value
    BY DEF Mailbox
  <2> QED
    BY <1>2, <2>1, <2>2
<1>4. ASSUME NEW k \in Node, NEW c \in Boxes
      PROVE  /\ \A u \in raised'[k][c] : Zero <= u
             /\ mb'[k][c].callerChanged => \A u \in raised'[k][c] : u <= mb'[k][c].contents
  <2>1. CASE Keeps(k, c)
    BY <2>1 DEF OrderInv, Keeps
  <2>2. CASE Stores(k, c)
    <3>1. PICK v \in Value : /\ Fresh(c, v) /\ mb'[k][c].contents = v
                             /\ raised'[k][c] = raised[k][c] \cup {v}
      BY <2>2 DEF Stores
    <3>2. v \in Nat /\ Zero < v /\ \A u \in raised[k][c] : u \in Nat /\ u < v
      BY <1>2, <1>3, <3>1 DEF Fresh
    <3>3. \A u \in raised[k][c] : Zero <= u
      BY DEF OrderInv
    <3>4. \A u \in raised'[k][c] : Zero <= u /\ u <= v
      BY <1>2, <3>1, <3>2, <3>3
    <3> QED
      BY <3>1, <3>4
  <2>3. CASE Takes(k, c)
    BY <2>3 DEF OrderInv, Takes
  <2> QED
    BY <1>1, <2>1, <2>2, <2>3 DEF Effect
<1>5. ASSUME NEW k \in Node, NEW q \in rx'[k], IsValue(q), ~mb'[k][q.mailbox].callerChanged
      PROVE  mb'[k][q.mailbox].contents <= q.value
  <2>1. q.mailbox \in Boxes
    <3>1. TypeOK'
      BY <1>1, NextTypeOK DEF FreshNext, Next
    <3>2. rx'[k] \subseteq Packet
      BY <3>1 DEF TypeOK
    <3> QED
      BY <3>2 DEF Packet
  <2>2. Keeps(k, q.mailbox)
    BY <1>1, <1>5, <2>1 DEF Effect, Stores, Takes
  <2>3. CASE q \in rx[k]
    BY <1>5, <2>2, <2>3 DEF OrderInv, Keeps
  <2>4. CASE Sent(k, q)
    <3>1. mb[k][q.mailbox].contents \in raised[Peer(k)][q.mailbox] \cup {Zero}
      BY <1>5, <2>1, <2>2 DEF IndInv, Origin, Keeps
    <3>2. /\ mb[Peer(k)][q.mailbox].contents \in raised[Peer(k)][q.mailbox]
          /\ \A u \in raised[Peer(k)][q.mailbox] : Zero <= u /\ u <= q.value
      BY <2>1, <2>4 DEF IndInv, Origin, OrderInv, Sent
    <3>3. mb[k][q.mailbox].contents <= q.value
      BY <1>2, <1>3, <2>1, <2>4, <3>1, <3>2 DEF Sent
    <3> QED
      BY <2>2, <3>3 DEF Keeps
  <2> QED
    BY <1>1, <1>5, <2>3, <2>4 DEF Effect
<1> QED
  BY <1>4, <1>5 DEF OrderInv

(* What came over the net is never replaced by something older: retries    *)
(* and late acknowledgements bring no value back (Mailbox.cpp 97, 139).    *)
THEOREM NothingComesBack == FreshSpec => NeverBack
<1>1. ASSUME IndInv, OrderInv, [FreshNext]_vars
      PROVE  [\A n \in Node, b \in Boxes : ~mb[n][b].callerChanged =>
                 mb[n][b].contents <= mb[n][b].contents']_vars
  <2> USE Nodes
  <2> SUFFICES ASSUME NEW n \in Node, NEW b \in Boxes, ~mb[n][b].callerChanged
               PROVE  mb[n][b].contents <= mb'[n][b].contents
    OBVIOUS
  <2>1. TypeOK /\ Effect
    BY <1>1, StepEffect DEF IndInv
  <2>2. mb[n][b].contents \in Nat /\ \A k \in Node : raised[k][b] \subseteq Nat
    <3>1. mb[n][b] \in Mailbox /\ \A k \in Node : raised[k][b] \subseteq Value
      BY <2>1 DEF TypeOK
    <3>2. \A m \in Mailbox : m.contents \in Value
      BY DEF Mailbox
    <3> QED
      BY <3>1, <3>2, ValueAssumption
  <2>3. CASE Keeps(n, b)
    BY <2>2, <2>3 DEF Keeps
  <2>4. CASE Stores(n, b)
    <3>1. PICK v \in Value : Fresh(b, v) /\ mb'[n][b].contents = v
      BY <2>4 DEF Stores
    <3>2. mb[n][b].contents \in raised[Peer(n)][b] \cup {Zero}
      BY <1>1 DEF IndInv, Origin
    <3>3. mb[n][b].contents < v
      BY <3>1, <3>2 DEF Fresh, Peer, Node
    <3>4. v \in Nat
      BY ValueAssumption
    <3> QED
      BY <2>2, <3>1, <3>3, <3>4
  <2>5. CASE Takes(n, b)
    BY <1>1, <2>5 DEF OrderInv, Takes
  <2> QED
    BY <2>1, <2>3, <2>4, <2>5 DEF Effect
<1>2. IndInv /\ OrderInv /\ [FreshNext]_vars => OrderInv'
  BY StepOrderInv
<1> QED
  BY InductiveInvariant, InitOrderInv, <1>1, <1>2, PTL DEF FreshSpec, NeverBack

(* Once the master's application has set a mailbox, only that application  *)
(* changes it (Mailbox.cpp 123-129).                                       *)
THEOREM TheMasterOverrides == FreshSpec => MasterOverrides
<1>1. ASSUME IndInv, [FreshNext]_vars
      PROVE  [\A b \in Boxes : mb["master"][b].callerChanged =>
                 /\ mb["master"][b].callerChanged'
                 /\ mb["master"][b].contents' # mb["master"][b].contents
                       => mb["master"][b].contents' \in raised["master"][b]' \ raised["master"][b]]_vars
  <2> SUFFICES ASSUME NEW b \in Boxes, mb["master"][b].callerChanged
               PROVE  /\ mb'["master"][b].callerChanged
                      /\ mb'["master"][b].contents # mb["master"][b].contents
                            => mb'["master"][b].contents \in raised'["master"][b] \ raised["master"][b]
    OBVIOUS
  <2>1. Keeps("master", b) \/ Stores("master", b) \/ Takes("master", b)
    BY <1>1, StepEffect, Nodes DEF Effect
  <2>2. ~Takes("master", b)
    BY DEF Takes, Contended
  <2>3. ASSUME NEW v \in Value, Fresh(b, v) PROVE v \notin raised["master"][b]
    <3>1. raised["master"][b] \subseteq Nat
      <4>1. TypeOK
        BY <1>1 DEF IndInv
      <4>2. raised["master"][b] \subseteq Value
        BY <4>1, Nodes DEF TypeOK
      <4> QED
        BY <4>2, ValueAssumption
    <3>2. v \in Nat /\ ~(v < v)
      BY ValueAssumption
    <3>3. \A u \in raised["master"][b] : u < v
      BY <2>3, Nodes DEF Fresh
    <3> QED
      BY <3>2, <3>3
  <2> QED
    BY <2>1, <2>2, <2>3 DEF Keeps, Stores
<1> QED
  BY InductiveInvariant, <1>1, PTL DEF FreshSpec, MasterOverrides
-------------------------------------------------------------------------------
(* The first event of a mailbox.                                           *)

(* n's application has stored one value and its peer's none: the mailbox   *)
(* is still pushing it as an event, nothing on its way says otherwise, and *)
(* no acknowledgement comes, until the peer has heard of it.               *)
Alone(n, b, v) == raised[n][b] = {v} /\ raised[Peer(n)][b] = {}

EventIsOut(n, b) ==
  /\ mb[n][b].changeTrigger /\ ~mb[n][b].synchronized
  /\ \A p \in OnItsWay(n) : p.mailbox = b => p.command # "ACK_VALUE"
  /\ \A p \in rx[Peer(n)] : p.mailbox = b => p.command = "SEND_VALUE_CHANGE"

FirstInv == resets = 0 => \A n \in Node, b \in Boxes, v \in Value :
                             Alone(n, b, v) /\ heard[Peer(n)][b][v] = 0 => EventIsOut(n, b)

LEMMA AloneFacts ==
  ASSUME IndInv, NEW n \in Node, NEW b \in Boxes, NEW v \in Value, Alone(n, b, v)
  PROVE  /\ \A p \in rx[n] : p.mailbox = b => p.command = "ACK_VALUE"
         /\ \A p \in pending[n] : p.mailbox # b
         /\ ~mb[Peer(n)][b].callerChanged /\ mb[Peer(n)][b].synchronized
         /\ \A p \in rx[Peer(n)] : p.mailbox = b => IsValue(p) /\ p.value = v
<1> USE Nodes DEF IndInv
<1>1. \A k \in Node : \A p \in rx[k] \cup pending[k] : p.command \in Command
  BY FrameType
<1>2. \A p \in rx[n] : p.mailbox = b => p.command = "ACK_VALUE"
  BY DEF FrameOrigin, OnItsWay, Sender, Alone
<1>3. \A p \in pending[n] : p.mailbox # b
  BY DEF FrameOrigin, OnItsWay, Sender, Alone
<1>4. mb[Peer(n)][b].synchronized
  BY DEF PushesOwn, Alone
<1>5. ~mb[Peer(n)][b].callerChanged
  BY DEF Origin, Alone
<1>6. \A p \in rx[Peer(n)] : p.mailbox = b => IsValue(p) /\ p.value = v
  BY <1>1 DEF FrameOrigin, OnItsWay, Sender, Alone, IsValue, Command
<1> QED
  BY <1>2, <1>3, <1>4, <1>5, <1>6

(* When a value is stored where none was, no frame of the mailbox is       *)
(* around.                                                                 *)
LEMMA SetStartsEvent ==
  ASSUME IndInv, NEW n \in Node, NEW b \in Boxes, NEW v \in Value, Fresh(b, v), Set(n, b, v),
         Alone(n, b, v)'
  PROVE  EventIsOut(n, b)'
<1> USE Nodes DEF IndInv
<1>1. /\ raised'[n][b] = raised[n][b] \cup {v} /\ raised'[Peer(n)][b] = raised[Peer(n)][b]
      /\ mb'[n][b] = SetLong(mb[n][b], v) /\ mb[n][b] \in Mailbox
  BY DEF Set, TypeOK
<1>2. v \notin raised[n][b]
  <2>1. v \in Nat /\ ~(v < v)
    BY ValueAssumption
  <2> QED
    BY <2>1 DEF Fresh
<1>3. raised[n][b] = {} /\ raised[Peer(n)][b] = {}
  BY <1>1, <1>2 DEF Alone
<1>4. \A k \in Node : raised[k][b] = {}
  BY <1>3
<1>5. \A k \in Node : \A p \in OnItsWay(k) : p.mailbox # b
  BY <1>4 DEF FrameOrigin, Sender
<1>6. mb'[n][b].changeTrigger /\ ~mb'[n][b].synchronized
  BY <1>1 DEF SetLong, Mailbox
<1>7. rx' = rx /\ pending' = pending
  BY DEF Set
<1> QED
  BY <1>5, <1>6, <1>7 DEF EventIsOut, OnItsWay

LEMMA SendDeferredKeepsEvent ==
  ASSUME IndInv, NEW n \in Node, NEW b \in Boxes, NEW v \in Value, Alone(n, b, v),
         EventIsOut(n, b), NEW k \in Node, SendDeferred(k)
  PROVE  EventIsOut(n, b)'
<1> USE Nodes
<1>1. TypeOK
  BY DEF IndInv
<1>2. PICK p \in pending[k], received \in BOOLEAN : rx' = Air(rx, k, p, received)
  BY DEF SendDeferred
<1>3. \A j \in Node : \A q \in rx'[j] : q \in rx[j] \/ (j = Peer(k) /\ q = p)
  BY <1>1, <1>2 DEF Air, TypeOK
<1>4. \A j \in Node : pending'[j] \subseteq pending[j]
  BY <1>1 DEF SendDeferred, TypeOK
<1>5. \A q \in rx'[n] : q \in OnItsWay(n)
  BY <1>3 DEF OnItsWay
<1>6. \A q \in rx'[Peer(n)] : q \in rx[Peer(n)] \/ q \in pending[n]
  BY <1>3
<1>7. mb' = mb
  BY DEF SendDeferred
<1>8. \A q \in OnItsWay(n)' : q \in OnItsWay(n)
  BY <1>4, <1>5 DEF OnItsWay
<1>9. \A q \in rx'[Peer(n)] : q.mailbox = b => q \in rx[Peer(n)]
  BY <1>6, AloneFacts
<1> QED
  BY <1>7, <1>8, <1>9 DEF EventIsOut

LEMMA DisregardKeepsEvent ==
  ASSUME IndInv, NEW n \in Node, NEW b \in Boxes, NEW v \in Value, Alone(n, b, v),
         EventIsOut(n, b), NEW k \in Node, DisregardValue(k)
  PROVE  EventIsOut(n, b)'
<1> USE Nodes
<1>1. TypeOK
  BY DEF IndInv
<1>2. PICK p \in rx[k] :
        /\ IsValue(p) /\ Contended(k, mb[k][p.mailbox])
        /\ mb' = [mb EXCEPT ![k][p.mailbox] = AfterDisregard(mb[k][p.mailbox])]
        /\ Reply(k, p)
  BY DEF DisregardValue
<1>3. p.mailbox # b
  <2>1. CASE k = n
    BY <1>2, <2>1, AloneFacts DEF IsValue
  <2>2. CASE k = Peer(n)
    BY <1>2, <2>2, AloneFacts DEF Contended
  <2> QED
    BY <2>1, <2>2
<1>4. mb'[n][b] = mb[n][b]
  BY <1>1, <1>2, <1>3 DEF TypeOK
<1>5. \A j \in Node : \A q \in pending'[j] : q \in pending[j] \/ q.mailbox # b
  <2>1. [p EXCEPT !.command = "ACK_VALUE"].mailbox # b
    BY <1>1, <1>3, FrameType DEF Packet
  <2> QED
    BY <1>1, <1>2, <2>1 DEF Reply, TypeOK
<1>6. \A j \in Node : rx'[j] \subseteq rx[j]
  BY <1>1 DEF DisregardValue, TypeOK
<1> QED
  BY <1>4, <1>5, <1>6 DEF EventIsOut, OnItsWay

(* The peer accepts what was sent as an event, and its callback hears it.  *)
LEMMA AcceptHearsEvent ==
  ASSUME IndInv, MaxHeard > 0, NEW n \in Node, NEW b \in Boxes, NEW v \in Value, Alone(n, b, v),
         EventIsOut(n, b), NEW k \in Node, AcceptValue(k), heard'[Peer(n)][b][v] = 0
  PROVE  EventIsOut(n, b)'
<1> USE Nodes
<1>1. TypeOK
  BY DEF IndInv
<1>2. PICK p \in rx[k] :
        /\ IsValue(p)
        /\ mb' = [mb EXCEPT ![k][p.mailbox] = AfterAccept(mb[k][p.mailbox], p.value)]
        /\ heard' = IF WasTriggered(mb[k][p.mailbox], p)
                    THEN Notify(k, p.mailbox, p.value) ELSE heard
        /\ Reply(k, p)
  BY DEF AcceptValue
<1>3. p.mailbox # b
  <2>1. CASE k = n
    BY <1>2, <2>1, AloneFacts DEF IsValue
  <2>2. ASSUME k = Peer(n), p.mailbox = b PROVE FALSE
    <3>1. p.value = v /\ p.command = "SEND_VALUE_CHANGE"
      BY <2>2, AloneFacts DEF EventIsOut
    <3>2. heard' = Notify(k, b, v)
      BY <1>2, <2>2, <3>1 DEF WasTriggered
    <3>3. heard[k][b][v] \in Nat /\ MaxHeard \in Nat
      BY <1>1, BoundsAssumption DEF TypeOK
    <3>4. heard'[k][b][v] = IF heard[k][b][v] < MaxHeard THEN heard[k][b][v] + 1 ELSE heard[k][b][v]
      BY <1>1, <3>2 DEF Notify, TypeOK
    <3>5. heard'[k][b][v] > 0
      BY <3>3, <3>4
    <3> QED
      BY <2>2, <3>5
  <2> QED
    BY <2>1, <2>2
<1>4. mb'[n][b] = mb[n][b]
  BY <1>1, <1>2, <1>3 DEF TypeOK
<1>5. \A j \in Node : \A q \in pending'[j] : q \in pending[j] \/ q.mailbox # b
  <2>1. [p EXCEPT !.command = "ACK_VALUE"].mailbox # b
    BY <1>1, <1>3, FrameType DEF Packet
  <2> QED
    BY <1>1, <1>2, <2>1 DEF Reply, TypeOK
<1>6. \A j \in Node : rx'[j] \subseteq rx[j]
  BY <1>1 DEF AcceptValue, TypeOK
<1> QED
  BY <1>4, <1>5, <1>6 DEF EventIsOut, OnItsWay

LEMMA PollKeepsEvent ==
  ASSUME IndInv, NEW n \in Node, NEW b \in Boxes, NEW v \in Value, Alone(n, b, v),
         EventIsOut(n, b), NEW k \in Node, HandleAck(k) \/ Poll(k)
  PROVE  EventIsOut(n, b)'
<1> USE Nodes
<1>1. TypeOK /\ pending' = pending
  BY DEF IndInv, HandleAck, Poll
<1>2. mb[n][b].callerChanged
  BY DEF EventIsOut, IndInv, PushesOwn
<1>3. ASSUME NEW STATE box, box \in [Boxes -> Mailbox], NEW STATE r, r \in [Node -> SUBSET Packet],
             SendNextPacket(k, box, r), \A j \in Node : r[j] \subseteq rx[j],
             box[b] = mb[k][b]
      PROVE  EventIsOut(n, b)'
  <2>1. /\ \A j \in Node : j # k => mb'[j] = mb[j]
        /\ mb'[k][b].synchronized <=> box[b].synchronized
        /\ mb'[k][b].changeTrigger <=> box[b].changeTrigger
        /\ \/ rx' = r
           \/ \E q \in Packet : /\ IsValue(q) /\ q.command = GeneratedCommand(box[q.mailbox])
                                /\ rx' = [r EXCEPT ![Peer(k)] = {q}]
    BY <1>1, <1>3, SendEffect
  <2>2. mb'[n][b].changeTrigger /\ ~mb'[n][b].synchronized
    BY <1>3, <2>1 DEF EventIsOut
  <2>3. \A q \in rx'[n] : q \in rx[n] \/ IsValue(q)
    BY <1>3, <2>1
  <2>4. ASSUME NEW q \in rx'[Peer(n)], q \notin rx[Peer(n)], q.mailbox = b
        PROVE  q.command = "SEND_VALUE_CHANGE"
    <3>1. k = n /\ q.command = GeneratedCommand(box[b])
      BY <1>3, <2>1, <2>4
    <3> QED
      BY <1>2, <1>3, <3>1 DEF EventIsOut, GeneratedCommand
  <2> QED
    BY <1>1, <2>2, <2>3, <2>4 DEF EventIsOut, OnItsWay, IsValue
<1>4. CASE Poll(k)
  <2>1. /\ mb[k] \in [Boxes -> Mailbox] /\ rx \in [Node -> SUBSET Packet]
        /\ SendNextPacket(k, mb[k], rx)
    BY <1>1, <1>4 DEF Poll, TypeOK
  <2> QED
    BY <1>3, <2>1
<1>5. CASE HandleAck(k)
  <2>1. PICK p \in rx[k] :
          /\ p.command = "ACK_VALUE"
          /\ SendNextPacket(k, [mb[k] EXCEPT ![p.mailbox] = AfterAck(mb[k][p.mailbox], p.value)],
                            [rx EXCEPT ![k] = {}])
    BY <1>5 DEF HandleAck
  <2>2. p.mailbox # b
    <3>1. CASE k = n
      BY <2>1, <3>1 DEF EventIsOut, OnItsWay
    <3>2. CASE k = Peer(n)
      BY <2>1, <3>2, AloneFacts DEF IsValue
    <3> QED
      BY <3>1, <3>2
  <2> DEFINE box == [mb[k] EXCEPT ![p.mailbox] = AfterAck(mb[k][p.mailbox], p.value)]
             r == [rx EXCEPT ![k] = {}]
  <2>3. p.mailbox \in Boxes /\ p.value \in Value /\ mb[k] \in [Boxes -> Mailbox]
    BY <1>1, FrameType DEF TypeOK
  <2>4. AfterAck(mb[k][p.mailbox], p.value) \in Mailbox
    BY <2>3, MailboxMethods
  <2>5. box \in [Boxes -> Mailbox] /\ box[b] = mb[k][b]
    BY <2>2, <2>3, <2>4
  <2>6. r \in [Node -> SUBSET Packet] /\ \A j \in Node : r[j] \subseteq rx[j]
    BY <1>1 DEF TypeOK
  <2>7. SendNextPacket(k, box, r)
    BY <2>1
  <2> HIDE DEF box, r
  <2> QED
    BY <1>3, <2>5, <2>6, <2>7
<1> QED
  BY <1>4, <1>5

LEMMA ElapseKeepsEvent ==
  ASSUME IndInv, NEW n \in Node, NEW b \in Boxes, EventIsOut(n, b),
         NEW k \in Node, NEW c \in Boxes, Elapse(k, c)
  PROVE  EventIsOut(n, b)'
<1>1. mb[n][b] \in Mailbox
  BY DEF IndInv, TypeOK
<1>2. mb'[n][b] = mb[n][b] \/ mb'[n][b] = [mb[n][b] EXCEPT !.waiting = FALSE]
  BY DEF Elapse, IndInv, TypeOK
<1>3. /\ mb'[n][b].changeTrigger = mb[n][b].changeTrigger
      /\ mb'[n][b].synchronized = mb[n][b].synchronized
  BY <1>1, <1>2 DEF Mailbox
<1> QED
  BY <1>3 DEF EventIsOut, OnItsWay, Elapse

LEMMA InitFirstInv == Init => FirstInv
BY Nodes DEF Init, FirstInv, Alone

LEMMA StepFirstInv ==
  ASSUME IndInv, FirstInv, MaxHeard > 0, [FreshNext]_vars
  PROVE  FirstInv'
<1> USE Nodes
<1>1. TypeOK
  BY DEF IndInv
<1> SUFFICES ASSUME resets' = 0, NEW n \in Node, NEW b \in Boxes, NEW v \in Value,
                    Alone(n, b, v)', heard'[Peer(n)][b][v] = 0
             PROVE  EventIsOut(n, b)'
  BY DEF FirstInv
<1>2. ASSUME NEW k \in Node, NEW c \in Boxes, NEW w \in Value, Fresh(c, w), Set(k, c, w)
      PROVE  EventIsOut(n, b)'
  <2>1. \A j \in Node, d \in Boxes :
           raised'[j][d] = IF j = k /\ d = c THEN raised[k][c] \cup {w} ELSE raised[j][d]
    BY <1>1, <1>2 DEF Set, TypeOK
  <2>2. CASE k = n /\ c = b
    <3>1. w = v
      BY <2>1, <2>2 DEF Alone
    <3> QED
      BY <1>2, <2>2, <3>1, SetStartsEvent
  <2>3. CASE k = Peer(n) /\ c = b
    BY <2>1, <2>3 DEF Alone
  <2>4. CASE c # b
    <3>1. Alone(n, b, v)
      BY <2>1, <2>4 DEF Alone
    <3>2. EventIsOut(n, b)
      BY <1>2, <3>1 DEF FirstInv, Set
    <3>3. mb'[n][b] = mb[n][b]
      BY <1>1, <1>2, <2>4 DEF Set, TypeOK
    <3> QED
      BY <1>2, <3>2, <3>3 DEF EventIsOut, OnItsWay, Set
  <2> QED
    BY <2>2, <2>3, <2>4
<1>3. CASE \E k \in Node : ResetBoxes(k)
  <2>1. resets \in Nat /\ resets' = resets + 1
    BY <1>1, <1>3, BoundsAssumption DEF TypeOK, ResetBoxes
  <2> QED
    BY <2>1
<1>4. CASE \/ UNCHANGED vars
           \/ \E k \in Node : Loop(k) \/ WarmUp(k) \/ \E c \in Boxes : Elapse(k, c)
  <2>1. resets' = resets /\ raised' = raised
    BY <1>4 DEF vars, Loop, SendDeferred, DisregardValue, AcceptValue, HandleAck, Poll, WarmUp, Elapse
  <2>2. Alone(n, b, v)
    BY <2>1 DEF Alone
  <2>3. heard[Peer(n)][b][v] = 0
    <3>1. CASE heard' = heard
      BY <3>1
    <3>2. ASSUME NEW k \in Node, NEW c \in Boxes, NEW w \in Value, heard' = Notify(k, c, w)
          PROVE  heard[Peer(n)][b][v] = 0
      <4>1. heard[k][c][w] \in Nat
        BY <1>1, BoundsAssumption DEF TypeOK
      <4>2. heard'[Peer(n)][b][v] = IF Peer(n) = k /\ b = c /\ v = w /\ heard[k][c][w] < MaxHeard
                                    THEN heard[k][c][w] + 1 ELSE heard[Peer(n)][b][v]
        BY <1>1, <3>2 DEF Notify, TypeOK
      <4> QED
        BY <4>1, <4>2
    <3>3. heard' = heard \/ \E k \in Node, c \in Boxes, w \in Value : heard' = Notify(k, c, w)
      <4>1. ASSUME NEW k \in Node, AcceptValue(k)
            PROVE  heard' = heard \/ \E c \in Boxes, w \in Value : heard' = Notify(k, c, w)
        <5>1. PICK p \in rx[k] : heard' = heard \/ heard' = Notify(k, p.mailbox, p.value)
          BY <4>1 DEF AcceptValue
        <5>2. p.mailbox \in Boxes /\ p.value \in Value
          BY <1>1, FrameType
        <5> QED
          BY <5>1, <5>2
      <4> QED
        BY <1>4, <4>1 DEF vars, Loop, SendDeferred, DisregardValue, HandleAck, Poll, WarmUp, Elapse
    <3> QED
      BY <3>1, <3>2, <3>3
  <2>4. EventIsOut(n, b)
    BY <2>1, <2>2, <2>3 DEF FirstInv
  <2>5. CASE UNCHANGED vars \/ \E k \in Node : WarmUp(k)
    BY <2>4, <2>5 DEF EventIsOut, OnItsWay, vars, WarmUp
  <2>6. CASE \E k \in Node, c \in Boxes : Elapse(k, c)
    BY <2>4, <2>6, ElapseKeepsEvent
  <2>7. CASE \E k \in Node : Loop(k)
    BY <2>2, <2>4, <2>7, SendDeferredKeepsEvent, DisregardKeepsEvent, AcceptHearsEvent,
       PollKeepsEvent DEF Loop
  <2> QED
    BY <1>4, <2>5, <2>6, <2>7
<1> QED
  BY <1>2, <1>3, <1>4 DEF FreshNext, System

(* The first event of a mailbox is heard before it counts as acknowledged, *)
(* whatever is lost, as long as there is no bus reset (Mailbox.cpp 87-94). *)
(* Callbacks have to be counted at all.                                    *)
THEOREM FirstEventArrives ==
  ASSUME MaxHeard > 0
  PROVE  FreshSpec => []FirstEventIsHeard
<1>1. IndInv /\ FirstInv => FirstEventIsHeard
  <2> SUFFICES ASSUME IndInv, FirstInv, resets = 0, NEW n \in Node, NEW b \in Boxes,
                      NEW v \in Value, mb[n][b].synchronized, Alone(n, b, v)
               PROVE  heard[Peer(n)][b][v] > 0
    BY DEF FirstEventIsHeard, Alone
  <2>1. heard[Peer(n)][b][v] \in Nat
    BY BoundsAssumption, Nodes DEF IndInv, TypeOK
  <2>2. heard[Peer(n)][b][v] # 0
    BY DEF FirstInv, EventIsOut
  <2> QED
    BY <2>1, <2>2
<1>2. IndInv /\ FirstInv /\ [FreshNext]_vars => FirstInv'
  BY StepFirstInv
<1> QED
  BY InductiveInvariant, InitFirstInv, <1>1, <1>2, PTL DEF FreshSpec
===============================================================================
