---------------------------- MODULE SocketLinkProofs ----------------------------
(***************************************************************************)
(* Proofs about SocketLink, for any values and any length of the streams:  *)
(* the types of its state, that both ends hold one value when neither has  *)
(* anything left to push, and that a value that came over the wire is      *)
(* never replaced by an older one.                                         *)
(*                                                                         *)
(* A pass of a main loop takes a frame and then may send one.  The         *)
(* invariant is therefore a predicate on any nodes, streams and places,    *)
(* not on the variables, so that it can be shown in between as well.       *)
(***************************************************************************)
EXTENDS SocketLink, SequenceTheorems, TLAPS

-------------------------------------------------------------------------------
(* Streams: what is in them, and what comes before what.                   *)

Elements(s) == {s[k] : k \in 1..Len(s)}

Before(s, p, q) == \E i, j \in 1..Len(s) : i < j /\ s[i] = p /\ s[j] = q

LEMMA Taking ==
  ASSUME NEW X, NEW s \in Seq(X), s # <<>>
  PROVE  /\ Head(s) \in X /\ Head(s) \in Elements(s)
         /\ Tail(s) \in Seq(X) /\ Len(Tail(s)) = Len(s) - 1
         /\ Elements(Tail(s)) \subseteq Elements(s)
         /\ \A p, q : Before(Tail(s), p, q) => Before(s, p, q)
         /\ \A q \in Elements(Tail(s)) : Before(s, Head(s), q)
<1>1. /\ Len(s) \in Nat /\ 1 \in 1..Len(s) /\ Head(s) = s[1] /\ Head(s) \in X
      /\ Tail(s) \in Seq(X) /\ Len(Tail(s)) = Len(s) - 1
      /\ \A k \in 1..Len(Tail(s)) : Tail(s)[k] = s[k + 1]
  OBVIOUS
<1>2. \A k \in 1..Len(Tail(s)) : k + 1 \in 1..Len(s) /\ 1 < k + 1
  BY <1>1
<1>3. \A p, q : Before(Tail(s), p, q) => Before(s, p, q)
  <2> SUFFICES ASSUME NEW i \in 1..Len(Tail(s)), NEW j \in 1..Len(Tail(s)), i < j
               PROVE  Before(s, Tail(s)[i], Tail(s)[j])
    BY DEF Before
  <2>1. i + 1 < j + 1
    BY <1>1
  <2> QED
    BY <1>1, <1>2, <2>1 DEF Before
<1> QED
  BY <1>1, <1>2, <1>3 DEF Elements, Before

LEMMA Adding ==
  ASSUME NEW X, NEW s \in Seq(X), NEW a \in X
  PROVE  /\ s \o <<a>> \in Seq(X) /\ Len(s \o <<a>>) = Len(s) + 1
         /\ Elements(s \o <<a>>) = Elements(s) \cup {a}
         /\ \A p, q : Before(s \o <<a>>, p, q) => Before(s, p, q) \/ (p \in Elements(s) /\ q = a)
<1> DEFINE t == s \o <<a>>
<1>1. /\ Len(s) \in Nat /\ t \in Seq(X) /\ Len(t) = Len(s) + 1
      /\ \A k \in 1..Len(s) : t[k] = s[k]
      /\ t[Len(s) + 1] = a
  OBVIOUS
<1> HIDE DEF t
<1>2. \A k \in 1..Len(t) : k \in 1..Len(s) \/ k = Len(s) + 1
  BY <1>1
<1>3. Elements(t) = Elements(s) \cup {a}
  BY <1>1, <1>2 DEF Elements
<1>4. ASSUME NEW i \in 1..Len(t), NEW j \in 1..Len(t), i < j
      PROVE  Before(s, t[i], t[j]) \/ (t[i] \in Elements(s) /\ t[j] = a)
  <2>1. i \in 1..Len(s)
    BY <1>1, <1>2, <1>4
  <2>2. t[i] = s[i] /\ t[i] \in Elements(s)
    BY <1>1, <2>1 DEF Elements
  <2>3. CASE j \in 1..Len(s)
    <3>1. t[j] = s[j]
      BY <1>1, <2>3
    <3> QED
      BY <1>4, <2>1, <2>2, <2>3, <3>1 DEF Before
  <2>4. CASE j = Len(s) + 1
    BY <1>1, <2>2, <2>4
  <2> QED
    BY <1>2, <2>3, <2>4
<1>5. \A p, q : Before(t, p, q) => Before(s, p, q) \/ (p \in Elements(s) /\ q = a)
  BY <1>4 DEF Before
<1> QED
  BY <1>1, <1>3, <1>5 DEF t

LEMMA AddingTwo ==
  ASSUME NEW X, NEW s \in Seq(X), NEW a \in X, NEW b \in X
  PROVE  /\ s \o <<a, b>> \in Seq(X) /\ Len(s \o <<a, b>>) = Len(s) + 2
         /\ Elements(s \o <<a, b>>) = Elements(s) \cup {a, b}
         /\ \A p, q : Before(s \o <<a, b>>, p, q) =>
               Before(s, p, q) \/ (p \in Elements(s) /\ q = a) \/ q = b
<1> DEFINE t == s \o <<a>>
<1>1. s \o <<a, b>> = t \o <<b>>
  <2> DEFINE u == s \o <<a, b>>
             v == t \o <<b>>
  <2>1. /\ u \in Seq(X) /\ Len(u) = Len(s) + 2 /\ Len(s) \in Nat
        /\ \A k \in 1..Len(s) : u[k] = s[k]
        /\ u[Len(s) + 1] = a /\ u[Len(s) + 2] = b
    OBVIOUS
  <2>2. /\ t \in Seq(X) /\ Len(t) = Len(s) + 1
        /\ \A k \in 1..Len(s) : t[k] = s[k]
        /\ t[Len(s) + 1] = a
    OBVIOUS
  <2> HIDE DEF t
  <2>3. /\ v \in Seq(X) /\ Len(v) = Len(t) + 1
        /\ \A k \in 1..Len(t) : v[k] = t[k]
        /\ v[Len(t) + 1] = b
    BY <2>2
  <2> HIDE DEF u, v
  <2>4. \A k \in 1..Len(u) : k \in 1..Len(s) \/ k = Len(s) + 1 \/ k = Len(s) + 2
    BY <2>1
  <2>5. Len(u) = Len(v) /\ \A k \in 1..Len(u) : u[k] = v[k]
    BY <2>1, <2>2, <2>3, <2>4
  <2> QED
    BY <2>1, <2>3, <2>5, SeqEqual DEF u, v
<1>2. t \in Seq(X) /\ Len(t) = Len(s) + 1 /\ Elements(t) = Elements(s) \cup {a}
      /\ \A p, q : Before(t, p, q) => Before(s, p, q) \/ (p \in Elements(s) /\ q = a)
  BY Adding
<1> HIDE DEF t
<1> DEFINE u == s \o <<a, b>>
<1> DEFINE v == t \o <<b>>
<1>3. Len(s) \in Nat /\ u = v
  BY <1>1
<1> HIDE DEF u
<1>4. /\ v \in Seq(X) /\ Len(v) = Len(t) + 1
      /\ Elements(v) = Elements(t) \cup {b}
      /\ \A p, q : Before(v, p, q) => Before(t, p, q) \/ (p \in Elements(t) /\ q = b)
  BY <1>2, Adding
<1> HIDE DEF v
<1>5. u \in Seq(X) /\ Len(u) = Len(s) + 2 /\ Elements(u) = Elements(s) \cup {a, b}
  BY <1>2, <1>3, <1>4
<1>6. \A p, q : Before(u, p, q) => Before(s, p, q) \/ (p \in Elements(s) /\ q = a) \/ q = b
  BY <1>2, <1>3, <1>4
<1> QED
  BY <1>5, <1>6 DEF u

-------------------------------------------------------------------------------
(* The invariant, of nodes N, streams W, places A and stored values R.     *)

Known(R) == {Zero} \cup R["master"] \cup R["slave"]

(* What n would send as its deferred reply.                                *)
Replay(N, n) == {b \in {N[n].buffer} : N[n].pending}

(* What is on its way to the controller, and to the device.                *)
Up(N, W) == Elements(W["master"]) \cup N["slave"].return \cup Replay(N, "slave")
Down(N, W) == Elements(W["slave"]) \cup Replay(N, "master")

AckFor(p, n) == p.command = "ACK_VALUE" /\ p.dest = n
Sends(p, v) == IsValue(p) /\ p.value = v

(* What the device holds, and whether it is its user's.                    *)
Held(N) == N["slave"].box.contents
Own(N) == N["slave"].box.callerChanged

Kept(N) == N["master"].box.contents

Types(N, W, R) ==
  /\ N \in [Node -> State] /\ W \in [Node -> Seq(Packet \cup {Thunk})]
  /\ R \in [Node -> SUBSET Value]
  /\ N["master"].return = {}
  /\ \A p, q \in N["slave"].return : p = q

(* Values only go where they are meant to; replayed packets may go back to *)
(* where they came from, but are no values.                                *)
Shapes(N, W) ==
  /\ Elements(W["master"]) \subseteq Packet
  /\ \A p \in Up(N, W) : IsValue(p) => p.dest = "master"
  /\ \A p \in Elements(W["slave"]) : IsValue(p) => p.dest = "slave"
  /\ \A p \in Replay(N, "master") : ~IsValue(p)
  /\ \A p \in Up(N, W) \cup Down(N, W) : p.command = "GENERAL_POLL" => p.dest = "all"

Knowns(N, W, R) ==
  /\ \A p \in Up(N, W) \cup Down(N, W) : p \in Packet => p.value \in Known(R)
  /\ \A n \in Node : N[n].box.contents \in Known(R)

Flags(N, R) ==
  /\ N["master"].box.callerChanged <=> R["master"] # {}
  /\ R["master"] = {} => N["master"].box.synchronized /\ ~N["slave"].pending
  /\ Own(N) \/ N["slave"].box.synchronized

(* Before the controller's user has set a value, the device's come in      *)
(* their order, and the controller sends none.                             *)
Upwards(N, W, R) ==
  R["master"] = {} =>
    /\ \A p \in Elements(W["slave"]) : ~IsValue(p)
    /\ ~Own(N) => Held(N) = Kept(N) /\ \A p \in Up(N, W) : ~IsValue(p)
    /\ Kept(N) <= Held(N)
    /\ \A p \in Up(N, W) : IsValue(p) => Kept(N) <= p.value /\ p.value <= Held(N)
    /\ \A p, q : Before(W["master"], p, q) /\ IsValue(p) /\ IsValue(q) => p.value <= q.value
    /\ \A p \in Elements(W["master"]), q \in N["slave"].return :
          IsValue(p) /\ IsValue(q) => p.value <= q.value

(* The controller's values come in their order, too.                       *)
Downwards(N, W) ==
  /\ \A p \in Elements(W["slave"]) : IsValue(p) => p.value <= Kept(N)
  /\ \A p, q : Before(W["slave"], p, q) /\ IsValue(p) /\ IsValue(q) => p.value <= q.value
  /\ ~Own(N) => /\ Held(N) <= Kept(N)
                /\ \A p \in Elements(W["slave"]) : IsValue(p) => Held(N) <= p.value

(* No acknowledgement of the device follows the value it holds, if that is *)
(* its own.                                                                *)
Line(N, W) ==
  Own(N) =>
    /\ \A p, q : Before(W["master"], p, q) /\ Sends(p, Held(N)) => ~AckFor(q, "master")
    /\ \A p \in Elements(W["master"]), q \in N["slave"].return \cup Replay(N, "slave") :
          Sends(p, Held(N)) => ~AckFor(q, "master")
    /\ \A p \in N["slave"].return, q \in Replay(N, "slave") :
          Sends(p, Held(N)) => ~AckFor(q, "master")

(* The controller has taken a frame with the value the device holds; the   *)
(* acknowledgement is on its way or has come.                              *)
Heard(N, W) == \/ N["slave"].box.synchronized
               \/ \E p \in Up(N, W) \cup Down(N, W) : AckFor(p, "slave") /\ p.value = Held(N)

AfterHeard(N, W, R) ==
  Own(N) /\ Heard(N, W) =>
    /\ \A p \in Up(N, W) : ~AckFor(p, "master")
    /\ IF R["master"] = {} THEN Kept(N) = Held(N) ELSE ~N["master"].box.synchronized

(* A value set while a reply is pending is not sent before it.             *)
Unsent(N, W, A) ==
  N["slave"].pending /\ A["slave"] = "um.loop" /\ Own(N) =>
    ~Heard(N, W) /\ \A p \in Up(N, W) : ~Sends(p, Held(N))

(* The device has taken the value the controller holds; the                *)
(* acknowledgement is on its way, astray, or has come.                     *)
Acked(N, W) ==
  \/ N["master"].box.synchronized
  \/ \E p \in Up(N, W) \cup Down(N, W) : AckFor(p, "master") /\ p.value = Kept(N)

AfterAcked(N, W, R) ==
  R["master"] # {} /\ Acked(N, W) =>
    /\ Own(N) \/ Held(N) = Kept(N)
    /\ \A p \in Elements(W["slave"]) : IsValue(p) => p.value = Kept(N)

Inv(N, W, A, R) == /\ Types(N, W, R) /\ Shapes(N, W) /\ Knowns(N, W, R) /\ Flags(N, R)
                   /\ Upwards(N, W, R) /\ Downwards(N, W) /\ Line(N, W)
                   /\ AfterHeard(N, W, R) /\ Unsent(N, W, A) /\ AfterAcked(N, W, R)

LinkInv == Inv(node, wire, at, raised)

-------------------------------------------------------------------------------
(* What keeps the invariant.                                               *)

LEMMA Tags ==
  /\ "master" \in Node /\ "slave" \in Node /\ Node = {"master", "slave"}
  /\ Peer("master") = "slave" /\ Peer("slave") = "master"
  /\ Value \subseteq Nat /\ Zero \in Value /\ Zero \in Nat
BY ZeroAssumption, ValueAssumption DEF Node, Peer

(* A thunk, or a cleared header, is neither a value nor an answer.         *)
LEMMA Empty ==
  ASSUME NEW p \in {Thunk, Cleared}
  PROVE  /\ p \notin Packet /\ ~IsValue(p) /\ p.command # "GENERAL_POLL"
         /\ \A n : ~AckFor(p, n)
         /\ \A v : ~Sends(p, v)
<1>1. p.command \in {"THUNK", "CLEARED"}
  BY DEF Thunk, Cleared
<1>2. p \notin Packet
  BY <1>1 DEF Packet, Command
<1> QED
  BY <1>1, <1>2 DEF IsValue, AckFor, Sends

(* What a packet can be.                                                   *)
LEMMA PacketIs ==
  ASSUME NEW p \in Packet
  PROVE  /\ p.value \in Value /\ p.value \in Nat
         /\ p.dest \in {"master", "slave", "all"}
         /\ IsValue(p) \/ p.command = "ACK_VALUE" \/ p.command = "GENERAL_POLL"
         /\ p # Thunk /\ p # Cleared
BY Empty, Tags DEF Packet, Command, IsValue, Node

LEMMA NotBoth == \A p, n : AckFor(p, n) => ~IsValue(p)
BY DEF AckFor, IsValue

(* Frames that are taken or lost, timers, answers and packets that are     *)
(* kept to be replayed.                                                    *)
Alike(N, N1) ==
  \A n \in Node : /\ N1[n].box.contents = N[n].box.contents
                  /\ N1[n].box.callerChanged = N[n].box.callerChanged
                  /\ N[n].box.synchronized => N1[n].box.synchronized

Shorter(W, W1) ==
  \A n \in Node : /\ Elements(W1[n]) \subseteq Elements(W[n])
                  /\ \A p, q : Before(W1[n], p, q) => Before(W[n], p, q)

Fewer(N, W, A, N1, W1, A1) ==
  /\ Alike(N, N1) /\ Shorter(W, W1)
  /\ N1["slave"].box.synchronized => Heard(N, W)
  /\ N1["master"].box.synchronized =>
        \/ N["master"].box.synchronized
        \/ \E p \in Up(N, W) : AckFor(p, "master") /\ p.value = Kept(N)
  /\ N1["slave"].return \subseteq N["slave"].return
  /\ N1["slave"].pending => N["slave"].pending
  /\ A1["slave"] = "um.loop" /\ N1["slave"].pending => A["slave"] = "um.loop"
  /\ \A p \in Replay(N1, "slave") :
        \/ p \in Replay(N, "slave")
        \/ /\ p \in Down(N, W) \cup {Thunk, Cleared} /\ ~IsValue(p)
           /\ A["slave"] = "um.loop"
  /\ \A p \in Replay(N1, "master") :
        p \in Replay(N, "master") \/ (p \in Up(N, W) /\ ~IsValue(p))

LEMMA FewerKeeps ==
  ASSUME NEW N, NEW W, NEW A, NEW R, NEW N1, NEW W1, NEW A1,
         Inv(N, W, A, R), Types(N1, W1, R), Fewer(N, W, A, N1, W1, A1)
  PROVE  Inv(N1, W1, A1, R)
<1> USE DEF Fewer, Alike, Shorter
<1>1. /\ Held(N1) = Held(N) /\ Kept(N1) = Kept(N) /\ Own(N1) = Own(N)
      /\ Elements(W1["master"]) \subseteq Elements(W["master"])
      /\ Elements(W1["slave"]) \subseteq Elements(W["slave"])
  BY Tags DEF Held, Kept, Own
<1>2. \A p \in Up(N1, W1) : p \in Up(N, W) \/ (p \in Down(N, W) \cup {Thunk, Cleared} /\ ~IsValue(p))
  BY <1>1 DEF Up
<1>3. \A p \in Down(N1, W1) : p \in Down(N, W) \/ (p \in Up(N, W) /\ ~IsValue(p))
  BY <1>1 DEF Down
<1>4. \A p \in Up(N1, W1) \cup Down(N1, W1) : p \in Up(N, W) \cup Down(N, W) \cup {Thunk, Cleared}
  BY <1>2, <1>3
<1>5. \A p \in Replay(N1, "slave") : N["slave"].pending
  BY DEF Replay
<1>6. Shapes(N1, W1)
  BY <1>1, <1>2, <1>3, <1>4, Empty DEF Inv, Shapes
<1>7. Knowns(N1, W1, R)
  BY <1>4, Empty, Tags DEF Inv, Knowns
<1>8. Flags(N1, R)
  BY <1>1, Tags DEF Inv, Flags, Own
<1>9. Upwards(N1, W1, R)
  <2>1. \A p \in Up(N1, W1) : IsValue(p) => p \in Up(N, W)
    BY <1>2
  <2> QED
    BY <1>1, <2>1, Tags DEF Inv, Upwards
<1>10. Downwards(N1, W1)
  BY <1>1, Tags DEF Inv, Downwards
<1>11. Heard(N1, W1) => Heard(N, W)
  BY <1>1, <1>4, Empty DEF Heard
<1>12. \A p \in Replay(N1, "slave") \ Replay(N, "slave") : Own(N) =>
          ~Heard(N, W) /\ \A q \in Up(N, W) : ~Sends(q, Held(N))
  BY <1>5 DEF Inv, Unsent
<1>13. Line(N1, W1)
  <2> SUFFICES ASSUME Own(N) PROVE Line(N1, W1)
    BY <1>1 DEF Line
  <2>1. \A p \in Elements(W["master"]) \cup N["slave"].return, q \in Replay(N1, "slave") :
           Sends(p, Held(N)) => ~AckFor(q, "master")
    <3>1. \A p \in Elements(W["master"]) \cup N["slave"].return : p \in Up(N, W)
      BY DEF Up
    <3> QED
      BY <3>1, <1>12 DEF Inv, Line
  <2> QED
    BY <1>1, <2>1, Tags DEF Inv, Line
<1>14. AfterHeard(N1, W1, R)
  <2> SUFFICES ASSUME Own(N), Heard(N1, W1) PROVE AfterHeard(N1, W1, R)
    BY <1>1 DEF AfterHeard
  <2>1. Heard(N, W)
    BY <1>11
  <2>2. \A p \in Up(N, W) : ~AckFor(p, "master")
    BY <2>1 DEF Inv, AfterHeard
  <2>3. \A p \in Up(N1, W1) : p \in Up(N, W)
    BY <1>1, <1>12, <2>1 DEF Up
  <2>4. N1["master"].box.synchronized => N["master"].box.synchronized
    BY <2>2
  <2> QED
    BY <1>1, <2>1, <2>2, <2>3, <2>4 DEF Inv, AfterHeard
<1>15. Unsent(N1, W1, A1)
  <2> SUFFICES ASSUME N1["slave"].pending, A1["slave"] = "um.loop", Own(N)
               PROVE  ~Heard(N1, W1) /\ \A p \in Up(N1, W1) : ~Sends(p, Held(N))
    BY <1>1 DEF Unsent
  <2>1. ~Heard(N, W) /\ \A p \in Up(N, W) : ~Sends(p, Held(N))
    BY DEF Inv, Unsent
  <2> QED
    BY <1>2, <1>11, <2>1 DEF Sends
<1>16. Acked(N1, W1) => Acked(N, W)
  BY <1>1, <1>4, Empty DEF Acked
<1>17. AfterAcked(N1, W1, R)
  BY <1>1, <1>16, Tags DEF Inv, AfterAcked
<1> QED
  BY <1>6, <1>7, <1>8, <1>9, <1>10, <1>13, <1>14, <1>15, <1>17 DEF Inv

(* What has been taken from the stream to n is gone, and what is left came *)
(* after it.                                                               *)
Took(W, W1, n, f) ==
  /\ f \in Elements(W[n]) /\ Elements(W1[n]) \subseteq Elements(W[n])
  /\ \A p, q : Before(W1[n], p, q) => Before(W[n], p, q)
  /\ \A q \in Elements(W1[n]) : Before(W[n], f, q)

Grows(N, N1) ==
  \A n \in Node : ~N[n].box.callerChanged => N[n].box.contents <= N1[n].box.contents

LEMMA InPackets ==
  ASSUME NEW N, NEW W, NEW R, Types(N, W, R)
  PROVE  /\ \A p \in Up(N, W) \cup Down(N, W) : p \in Packet \cup {Thunk, Cleared}
         /\ \A p \in Up(N, W) \cup Down(N, W) : IsValue(p) => p \in Packet
         /\ \A p \in Up(N, W) \cup Down(N, W) : \A n : AckFor(p, n) => p \in Packet
         /\ \A n \in Node : N[n].box.contents \in Nat
<1>1. ASSUME NEW n \in Node PROVE Elements(W[n]) \subseteq Packet \cup {Thunk}
  BY DEF Types, Elements
<1>2. \A n \in Node : N[n] \in State
  BY DEF Types
<1>3. \A n \in Node : /\ N[n].return \subseteq Packet
                      /\ N[n].buffer \in Packet \cup {Thunk, Cleared}
                      /\ N[n].box.contents \in Value
  BY <1>2 DEF State, Mailbox
<1>4. \A p \in Up(N, W) \cup Down(N, W) : p \in Packet \cup {Thunk, Cleared}
  BY <1>1, <1>3, Tags DEF Up, Down, Replay
<1> QED
  BY <1>3, <1>4, Empty, Tags

LEMMA AlikeGrows ==
  ASSUME NEW N, NEW W, NEW R, Types(N, W, R), NEW N1, Alike(N, N1)
  PROVE  Grows(N, N1)
<1>1. ASSUME NEW n \in Node PROVE N[n].box.contents <= N1[n].box.contents
  <2>1. N[n].box.contents \in Nat /\ N1[n].box.contents = N[n].box.contents
    BY InPackets DEF Alike
  <2> QED
    BY <2>1
<1> QED
  BY <1>1 DEF Grows

(* The controller takes a value: its user has set none ...                 *)
MasterAccepts(N, W, R, N1, W1, p) ==
  /\ R["master"] = {}
  /\ IsValue(p)
  /\ Took(W, W1, "master", p)
  /\ W1["slave"] = W["slave"]
  /\ N1["slave"] = N["slave"]
  /\ N1["master"].pending
  /\ N1["master"].buffer = Packed("slave", "ACK_VALUE", p.value)
  /\ N1["master"].box.contents = p.value
  /\ N1["master"].box.synchronized
  /\ ~N1["master"].box.callerChanged

LEMMA MasterAcceptsKeeps ==
  ASSUME NEW N, NEW W, NEW A, NEW R, NEW N1, NEW W1, NEW p \in Packet,
         Inv(N, W, A, R), Types(N1, W1, R), MasterAccepts(N, W, R, N1, W1, p)
  PROVE  Inv(N1, W1, A, R) /\ Grows(N, N1)
<1> USE DEF MasterAccepts
<1> DEFINE ack == Packed("slave", "ACK_VALUE", p.value)
<1>1. /\ ~IsValue(ack) /\ ack.command # "GENERAL_POLL" /\ ack.value = p.value
      /\ AckFor(ack, "slave") /\ ~AckFor(ack, "master")
  BY DEF Packed, IsValue, AckFor
<1>2. Replay(N1, "master") = {ack} /\ Replay(N1, "slave") = Replay(N, "slave")
      /\ Replay(N, "slave") = {}
  BY DEF Replay, Inv, Flags
<1> HIDE DEF ack
<1>3. /\ Held(N1) = Held(N) /\ Own(N1) = Own(N) /\ Kept(N1) = p.value
      /\ Elements(W1["master"]) \subseteq Elements(W["master"])
      /\ p \in Elements(W["master"]) /\ p \in Up(N, W)
      /\ \A x, q : Before(W1["master"], x, q) => Before(W["master"], x, q)
      /\ \A q \in Elements(W1["master"]) : Before(W["master"], p, q)
      /\ N1["slave"].return = N["slave"].return
  BY DEF Held, Own, Kept, Took, Up
<1>4. Up(N1, W1) \subseteq Up(N, W) /\ Down(N1, W1) = Elements(W["slave"]) \cup {ack}
      /\ Elements(W["slave"]) \subseteq Down(N, W)
  BY <1>2, <1>3 DEF Up, Down
<1>5. Own(N) /\ Kept(N) <= p.value /\ p.value <= Held(N) /\ p.value \in Known(R)
  BY <1>3 DEF Inv, Upwards, Knowns
<1>6. Shapes(N1, W1)
  BY <1>1, <1>2, <1>3, <1>4 DEF Inv, Shapes
<1>7. Knowns(N1, W1, R)
  BY <1>1, <1>3, <1>4, <1>5, Tags DEF Inv, Knowns, Kept
<1>8. Flags(N1, R)
  BY <1>3 DEF Inv, Flags
<1>9. \A q \in Up(N1, W1) : IsValue(q) => p.value <= q.value
  BY <1>2, <1>3 DEF Up, Inv, Upwards
<1>10. Upwards(N1, W1, R)
  BY <1>3, <1>4, <1>5, <1>9 DEF Inv, Upwards
<1>11. Downwards(N1, W1)
  BY <1>3, <1>5 DEF Inv, Downwards, Upwards
<1>12. Line(N1, W1)
  BY <1>2, <1>3 DEF Inv, Line
<1>13. AfterHeard(N1, W1, R)
  <2> SUFFICES ASSUME Heard(N1, W1) PROVE AfterHeard(N1, W1, R)
    BY DEF AfterHeard
  <2>1. Heard(N, W) \/ p.value = Held(N)
    BY <1>1, <1>3, <1>4 DEF Heard
  <2>2. CASE Heard(N, W)
    <3>1. Kept(N) = Held(N) /\ \A q \in Up(N, W) : ~AckFor(q, "master")
      BY <1>5, <2>2 DEF Inv, AfterHeard
    <3>2. p.value = Held(N)
      BY <1>5, <3>1, InPackets, PacketIs, Tags DEF Inv, Held, Kept
    <3> QED
      BY <1>3, <1>4, <3>1, <3>2 DEF AfterHeard
  <2>3. CASE p.value = Held(N)
    <3>1. \A q \in Up(N1, W1) : ~AckFor(q, "master")
      BY <1>2, <1>3, <1>5, <2>3 DEF Inv, Line, Up, Sends
    <3> QED
      BY <1>3, <2>3, <3>1 DEF AfterHeard
  <2> QED
    BY <2>1, <2>2, <2>3
<1>14. Unsent(N1, W1, A) /\ AfterAcked(N1, W1, R)
  BY DEF Inv, Flags, Unsent, AfterAcked
<1>15. Grows(N, N1)
  BY <1>3, <1>5, InPackets, Tags DEF Grows, Kept, Inv
<1> QED
  BY <1>6, <1>7, <1>8, <1>10, <1>11, <1>12, <1>13, <1>14, <1>15 DEF Inv

(* ... or has, and keeps to it.                                            *)
MasterDisregards(N, W, R, N1, W1, p) ==
  /\ R["master"] # {}
  /\ IsValue(p)
  /\ Took(W, W1, "master", p)
  /\ W1["slave"] = W["slave"]
  /\ N1["slave"] = N["slave"]
  /\ N1["master"].pending
  /\ N1["master"].buffer = Packed("slave", "ACK_VALUE", p.value)
  /\ N1["master"].box.contents = N["master"].box.contents
  /\ ~N1["master"].box.synchronized
  /\ N1["master"].box.callerChanged = N["master"].box.callerChanged

LEMMA MasterDisregardsKeeps ==
  ASSUME NEW N, NEW W, NEW A, NEW R, NEW N1, NEW W1, NEW p \in Packet,
         Inv(N, W, A, R), Types(N1, W1, R), MasterDisregards(N, W, R, N1, W1, p)
  PROVE  Inv(N1, W1, A, R) /\ Grows(N, N1)
<1> USE DEF MasterDisregards
<1> DEFINE ack == Packed("slave", "ACK_VALUE", p.value)
<1>1. /\ ~IsValue(ack) /\ ack.command # "GENERAL_POLL" /\ ack.value = p.value
      /\ AckFor(ack, "slave") /\ ~AckFor(ack, "master")
  BY DEF Packed, IsValue, AckFor
<1>2. Replay(N1, "master") = {ack} /\ Replay(N1, "slave") = Replay(N, "slave")
  BY DEF Replay
<1> HIDE DEF ack
<1>3. /\ Held(N1) = Held(N) /\ Own(N1) = Own(N) /\ Kept(N1) = Kept(N)
      /\ Elements(W1["master"]) \subseteq Elements(W["master"])
      /\ p \in Elements(W["master"]) /\ p \in Up(N, W)
      /\ \A x, q : Before(W1["master"], x, q) => Before(W["master"], x, q)
      /\ \A q \in Elements(W1["master"]) : Before(W["master"], p, q)
      /\ N1["slave"].return = N["slave"].return
  BY DEF Held, Own, Kept, Took, Up
<1>4. Up(N1, W1) \subseteq Up(N, W) /\ Down(N1, W1) = Elements(W["slave"]) \cup {ack}
      /\ Elements(W["slave"]) \subseteq Down(N, W)
  BY <1>2, <1>3 DEF Up, Down
<1>5. p.value \in Known(R)
  BY <1>3 DEF Inv, Knowns
<1>6. Shapes(N1, W1)
  BY <1>1, <1>2, <1>3, <1>4 DEF Inv, Shapes
<1>7. Knowns(N1, W1, R)
  BY <1>1, <1>3, <1>4, <1>5, Tags DEF Inv, Knowns, Kept
<1>8. Flags(N1, R) /\ Upwards(N1, W1, R)
  BY <1>3 DEF Inv, Flags, Upwards
<1>9. Downwards(N1, W1)
  BY <1>3 DEF Inv, Downwards
<1>10. Line(N1, W1)
  BY <1>2, <1>3 DEF Inv, Line
<1>11. Heard(N1, W1) => Heard(N, W) \/ p.value = Held(N)
  BY <1>1, <1>3, <1>4 DEF Heard
<1>12. AfterHeard(N1, W1, R)
  <2> SUFFICES ASSUME Own(N), Heard(N1, W1) PROVE AfterHeard(N1, W1, R)
    BY <1>3 DEF AfterHeard
  <2>1. CASE Heard(N, W)
    BY <1>3, <1>4, <2>1 DEF Inv, AfterHeard
  <2>2. CASE p.value = Held(N)
    BY <1>2, <1>3, <2>2 DEF Inv, Line, Up, Sends, AfterHeard
  <2> QED
    BY <1>11, <2>1, <2>2
<1>13. Unsent(N1, W1, A)
  BY <1>3, <1>4, <1>11 DEF Inv, Unsent, Sends
<1>14. Acked(N1, W1) => Acked(N, W)
  BY <1>1, <1>3, <1>4 DEF Acked
<1>15. AfterAcked(N1, W1, R)
  BY <1>3, <1>14 DEF Inv, AfterAcked
<1>16. Grows(N, N1)
  BY InPackets, Tags DEF Grows, Inv
<1> QED
  BY <1>6, <1>7, <1>8, <1>9, <1>10, <1>12, <1>13, <1>15, <1>16 DEF Inv

(* The device takes a value.                                               *)
SlaveAccepts(N, W, N1, W1, p) ==
  /\ IsValue(p)
  /\ Took(W, W1, "slave", p)
  /\ W1["master"] = W["master"]
  /\ N1["master"] = N["master"]
  /\ N1["slave"].pending
  /\ N1["slave"].return = N["slave"].return
  /\ N1["slave"].buffer = Packed("master", "ACK_VALUE", p.value)
  /\ N1["slave"].box.contents = p.value
  /\ N1["slave"].box.synchronized
  /\ ~N1["slave"].box.callerChanged

LEMMA SlaveAcceptsKeeps ==
  ASSUME NEW N, NEW W, NEW A, NEW R, NEW N1, NEW W1, NEW A1, NEW p \in Packet,
         Inv(N, W, A, R), Types(N1, W1, R), SlaveAccepts(N, W, N1, W1, p)
  PROVE  Inv(N1, W1, A1, R) /\ Grows(N, N1) /\ ~Own(N1)
<1> USE DEF SlaveAccepts
<1> DEFINE ack == Packed("master", "ACK_VALUE", p.value)
<1>1. ~IsValue(ack) /\ ack.command # "GENERAL_POLL" /\ ack.value = p.value
  BY DEF Packed, IsValue
<1>2. Replay(N1, "slave") = {ack} /\ Replay(N1, "master") = Replay(N, "master")
  BY DEF Replay
<1> HIDE DEF ack
<1>3. /\ Held(N1) = p.value /\ ~Own(N1) /\ Kept(N1) = Kept(N)
      /\ Elements(W1["slave"]) \subseteq Elements(W["slave"])
      /\ p \in Elements(W["slave"]) /\ p \in Down(N, W)
      /\ \A x, q : Before(W1["slave"], x, q) => Before(W["slave"], x, q)
      /\ \A q \in Elements(W1["slave"]) : Before(W["slave"], p, q)
  BY DEF Held, Own, Kept, Took, Down
<1>4. /\ Up(N1, W1) = Elements(W["master"]) \cup N["slave"].return \cup {ack}
      /\ Elements(W["master"]) \cup N["slave"].return \subseteq Up(N, W)
      /\ Down(N1, W1) \subseteq Down(N, W)
  BY <1>2, <1>3 DEF Up, Down
<1>5. p.value \in Known(R) /\ R["master"] # {} /\ p.value <= Kept(N)
  BY <1>3 DEF Inv, Knowns, Upwards, Downwards
<1>6. Shapes(N1, W1)
  BY <1>1, <1>2, <1>3, <1>4 DEF Inv, Shapes
<1>7. Knowns(N1, W1, R)
  BY <1>1, <1>3, <1>4, <1>5, Tags DEF Inv, Knowns, Held
<1>8. Flags(N1, R) /\ Upwards(N1, W1, R)
  BY <1>3, <1>5 DEF Inv, Flags, Upwards
<1>9. Downwards(N1, W1)
  BY <1>3, <1>5 DEF Inv, Downwards
<1>10. Line(N1, W1) /\ AfterHeard(N1, W1, R) /\ Unsent(N1, W1, A1)
  BY <1>3 DEF Line, AfterHeard, Unsent
<1>11. Acked(N1, W1) => Acked(N, W) \/ p.value = Kept(N)
  BY <1>1, <1>3, <1>4 DEF Acked
<1>12. AfterAcked(N1, W1, R)
  <2> SUFFICES ASSUME Acked(N1, W1) PROVE AfterAcked(N1, W1, R)
    BY DEF AfterAcked
  <2>1. CASE Acked(N, W)
    BY <1>3, <1>5, <2>1 DEF Inv, AfterAcked
  <2>2. CASE p.value = Kept(N)
    <3>1. \A q \in Elements(W1["slave"]) : IsValue(q) =>
             p.value <= q.value /\ q.value <= Kept(N) /\ q.value \in Nat
      BY <1>3, InPackets, PacketIs DEF Inv, Downwards, Down
    <3>2. Kept(N) \in Nat
      BY InPackets, Tags DEF Inv, Kept
    <3> QED
      BY <1>3, <2>2, <3>1, <3>2 DEF AfterAcked
  <2> QED
    BY <1>11, <2>1, <2>2
<1>13. Grows(N, N1)
  <2>1. ~Own(N) => Held(N) <= p.value
    BY <1>3 DEF Inv, Downwards
  <2> QED
    BY <2>1, InPackets, Tags DEF Grows, Held, Own, Inv
<1> QED
  BY <1>3, <1>6, <1>7, <1>8, <1>9, <1>10, <1>12, <1>13 DEF Inv

(* A thunk makes the device send what it has kept.                         *)
SlaveSendsKept(N, W, N1, W1, A1, k) ==
  /\ N["slave"].return = {k}
  /\ N["slave"].pending => A1["slave"] # "um.loop"
  /\ Elements(W1["slave"]) \subseteq Elements(W["slave"])
  /\ \A p, q : Before(W1["slave"], p, q) => Before(W["slave"], p, q)
  /\ Elements(W1["master"]) = Elements(W["master"]) \cup {k}
  /\ \A p, q : Before(W1["master"], p, q) =>
        Before(W["master"], p, q) \/ (p \in Elements(W["master"]) /\ q = k)
  /\ N1["master"] = N["master"]
  /\ N1["slave"].box = N["slave"].box
  /\ N1["slave"].pending = N["slave"].pending
  /\ N1["slave"].return = {}
  /\ N1["slave"].buffer = Thunk

LEMMA SlaveSendsKeptKeeps ==
  ASSUME NEW N, NEW W, NEW A, NEW R, NEW N1, NEW W1, NEW A1, NEW k \in Packet,
         Inv(N, W, A, R), Types(N1, W1, R), SlaveSendsKept(N, W, N1, W1, A1, k)
  PROVE  Inv(N1, W1, A1, R)
<1> USE DEF SlaveSendsKept
<1>1. /\ Held(N1) = Held(N) /\ Own(N1) = Own(N) /\ Kept(N1) = Kept(N)
      /\ k \in Up(N, W)
  BY DEF Held, Own, Kept, Up
<1>2. Replay(N1, "slave") \subseteq {Thunk} /\ Replay(N1, "master") = Replay(N, "master")
  BY DEF Replay
<1>3. Up(N1, W1) \subseteq Up(N, W) \cup {Thunk} /\ Down(N1, W1) \subseteq Down(N, W)
  BY <1>1, <1>2 DEF Up, Down
<1>4. ~IsValue(Thunk) /\ Thunk \notin Packet /\ Thunk.command # "GENERAL_POLL"
      /\ \A n : ~AckFor(Thunk, n)
  BY Empty
<1>5. Shapes(N1, W1)
  BY <1>2, <1>3, <1>4 DEF Inv, Shapes
<1>6. Knowns(N1, W1, R)
  BY <1>1, <1>3, <1>4, Tags DEF Inv, Knowns
<1>7. Flags(N1, R)
  BY <1>1 DEF Inv, Flags
<1>8. Upwards(N1, W1, R)
  <2>1. \A p \in Up(N1, W1) : IsValue(p) => p \in Up(N, W)
    BY <1>3, <1>4
  <2>2. \A p \in Elements(W1["slave"]) : p \in Elements(W["slave"])
    OBVIOUS
  <2>3. R["master"] = {} => \A p, q : Before(W1["master"], p, q) /\ IsValue(p) /\ IsValue(q)
                               => p.value <= q.value
    BY DEF Inv, Upwards
  <2> QED
    BY <1>1, <2>1, <2>2, <2>3 DEF Inv, Upwards
<1>9. Downwards(N1, W1)
  BY <1>1 DEF Inv, Downwards
<1>10. Line(N1, W1)
  <2> SUFFICES ASSUME Own(N) PROVE Line(N1, W1)
    BY <1>1 DEF Line
  <2>1. \A p, q : Before(W1["master"], p, q) /\ Sends(p, Held(N)) => ~AckFor(q, "master")
    BY DEF Inv, Line
  <2> QED
    BY <1>1, <1>2, <1>4, <2>1 DEF Line
<1>11. Heard(N1, W1) => Heard(N, W)
  BY <1>1, <1>3, <1>4 DEF Heard
<1>12. AfterHeard(N1, W1, R)
  BY <1>1, <1>3, <1>4, <1>11 DEF Inv, AfterHeard
<1>13. Unsent(N1, W1, A1)
  BY DEF Unsent
<1>14. Acked(N1, W1) => Acked(N, W)
  BY <1>1, <1>3, <1>4 DEF Acked
<1>15. AfterAcked(N1, W1, R)
  BY <1>1, <1>14 DEF Inv, AfterAcked
<1> QED
  BY <1>5, <1>6, <1>7, <1>8, <1>9, <1>10, <1>12, <1>13, <1>15 DEF Inv

(* The device puts the value it wants to push into its return buffer.      *)
SlaveSends(N, W, N1, W1, A1, p) ==
  /\ ~N["slave"].box.synchronized
  /\ N["slave"].pending => A1["slave"] # "um.loop"
  /\ Elements(W1["slave"]) \subseteq Elements(W["slave"])
  /\ \A x, y : Before(W1["slave"], x, y) => Before(W["slave"], x, y)
  /\ W1["master"] = W["master"]
  /\ N1["master"] = N["master"]
  /\ IsValue(p)
  /\ p.dest = "master"
  /\ p.value = N["slave"].box.contents
  /\ N1["slave"].pending = N["slave"].pending
  /\ N1["slave"].return = {p}
  /\ N1["slave"].buffer = p
  /\ N1["slave"].box.contents = N["slave"].box.contents
  /\ N1["slave"].box.synchronized = N["slave"].box.synchronized
  /\ N1["slave"].box.callerChanged = N["slave"].box.callerChanged

LEMMA SlaveSendsKeeps ==
  ASSUME NEW N, NEW W, NEW A, NEW R, NEW N1, NEW W1, NEW A1, NEW p \in Packet,
         Inv(N, W, A, R), Types(N1, W1, R), SlaveSends(N, W, N1, W1, A1, p)
  PROVE  Inv(N1, W1, A1, R)
<1> USE DEF SlaveSends
<1>1. /\ Held(N1) = Held(N) /\ Own(N1) = Own(N) /\ Kept(N1) = Kept(N)
      /\ Own(N) /\ p.value = Held(N)
  BY DEF Held, Own, Kept, Inv, Flags
<1>2. Replay(N1, "slave") \subseteq {p} /\ Replay(N1, "master") = Replay(N, "master")
  BY DEF Replay
<1>3. Up(N1, W1) \subseteq Up(N, W) \cup {p} /\ Down(N1, W1) \subseteq Down(N, W)
  BY <1>2 DEF Up, Down
<1>4. p.command # "GENERAL_POLL" /\ \A n : ~AckFor(p, n)
  BY NotBoth DEF IsValue
<1>5. Shapes(N1, W1)
  BY <1>2, <1>3, <1>4 DEF Inv, Shapes
<1>6. Knowns(N1, W1, R)
  BY <1>1, <1>3, Tags DEF Inv, Knowns, Held
<1>7. Flags(N1, R)
  BY <1>1 DEF Inv, Flags
<1>8. Upwards(N1, W1, R)
  <2>1. \A x \in Up(N1, W1) : IsValue(x) => x \in Up(N, W) \/ x = p
    BY <1>3
  <2>2. \A x \in Elements(W["master"]) : x \in Up(N, W)
    BY DEF Up
  <2>3. Held(N) \in Nat
    BY InPackets, Tags DEF Inv, Held
  <2> QED
    BY <1>1, <2>1, <2>2, <2>3 DEF Inv, Upwards
<1>9. Downwards(N1, W1)
  BY <1>1 DEF Inv, Downwards
<1>10. Line(N1, W1)
  BY <1>1, <1>2, <1>4 DEF Inv, Line
<1>11. Heard(N1, W1) => Heard(N, W)
  BY <1>1, <1>3, <1>4 DEF Heard
<1>12. AfterHeard(N1, W1, R)
  BY <1>1, <1>3, <1>4, <1>11 DEF Inv, AfterHeard
<1>13. Unsent(N1, W1, A1)
  BY DEF Unsent
<1>14. Acked(N1, W1) => Acked(N, W)
  BY <1>1, <1>3, <1>4 DEF Acked
<1>15. AfterAcked(N1, W1, R)
  BY <1>1, <1>14 DEF Inv, AfterAcked
<1> QED
  BY <1>5, <1>6, <1>7, <1>8, <1>9, <1>10, <1>12, <1>13, <1>15 DEF Inv

(* The device keeps what is in its frame buffer as the deferred reply.     *)
SlaveDefers(N, N1) ==
  /\ N["slave"].pending
  /\ N1["master"] = N["master"]
  /\ N1["slave"].box = N["slave"].box
  /\ ~N1["slave"].pending
  /\ N1["slave"].return \subseteq {N["slave"].buffer}

LEMMA SlaveDefersKeeps ==
  ASSUME NEW N, NEW W, NEW A, NEW R, NEW N1, NEW A1,
         Inv(N, W, A, R), Types(N1, W, R), SlaveDefers(N, N1)
  PROVE  Inv(N1, W, A1, R)
<1> USE DEF SlaveDefers
<1>1. Held(N1) = Held(N) /\ Own(N1) = Own(N) /\ Kept(N1) = Kept(N)
  BY DEF Held, Own, Kept
<1>2. /\ Replay(N, "slave") = {N["slave"].buffer} /\ Replay(N1, "slave") = {}
      /\ Replay(N1, "master") = Replay(N, "master")
  BY DEF Replay
<1>3. Up(N1, W) \subseteq Up(N, W) /\ Down(N1, W) = Down(N, W)
  BY <1>2 DEF Up, Down
<1>4. Shapes(N1, W)
  BY <1>2, <1>3 DEF Inv, Shapes
<1>5. Knowns(N1, W, R)
  BY <1>1, <1>3, Tags DEF Inv, Knowns
<1>6. Flags(N1, R) /\ Upwards(N1, W, R)
  BY <1>1 DEF Inv, Flags, Upwards
<1>7. Downwards(N1, W)
  BY <1>1 DEF Inv, Downwards
<1>8. Line(N1, W)
  BY <1>1, <1>2 DEF Inv, Line
<1>9. Heard(N1, W) => Heard(N, W)
  BY <1>1, <1>3 DEF Heard
<1>10. AfterHeard(N1, W, R)
  BY <1>1, <1>3, <1>9 DEF Inv, AfterHeard
<1>11. Unsent(N1, W, A1)
  BY DEF Unsent
<1>12. Acked(N1, W) => Acked(N, W)
  BY <1>1, <1>3 DEF Acked
<1>13. AfterAcked(N1, W, R)
  BY <1>1, <1>12 DEF Inv, AfterAcked
<1> QED
  BY <1>4, <1>5, <1>6, <1>7, <1>8, <1>10, <1>11, <1>13 DEF Inv

(* The controller sends its deferred reply, its value or the general poll, *)
(* and a thunk.                                                            *)
MasterAdds(N, W, N1, W1, p) ==
  /\ \/ p \in Replay(N, "master")
     \/ p = GeneralPoll
     \/ /\ IsValue(p) /\ p.dest = "slave" /\ p.value = N["master"].box.contents
        /\ ~N["master"].box.synchronized
  /\ W1["master"] = W["master"]
  /\ W1["slave"] = W["slave"] \o <<p, Thunk>>
  /\ N1["slave"] = N["slave"]
  /\ ~N1["master"].pending
  /\ N1["master"].box.contents = N["master"].box.contents
  /\ N1["master"].box.synchronized = N["master"].box.synchronized
  /\ N1["master"].box.callerChanged = N["master"].box.callerChanged

LEMMA MasterAddsKeeps ==
  ASSUME NEW N, NEW W, NEW A, NEW R, NEW N1, NEW W1, NEW p \in Packet,
         Inv(N, W, A, R), Types(N1, W1, R), MasterAdds(N, W, N1, W1, p)
  PROVE  Inv(N1, W1, A, R)
<1> USE DEF MasterAdds
<1>1. Held(N1) = Held(N) /\ Own(N1) = Own(N) /\ Kept(N1) = Kept(N)
  BY DEF Held, Own, Kept
<1>2. Replay(N1, "slave") = Replay(N, "slave") /\ Replay(N1, "master") = {}
  BY DEF Replay
<1>3. /\ Elements(W1["slave"]) = Elements(W["slave"]) \cup {p, Thunk}
      /\ \A x, y : Before(W1["slave"], x, y) =>
            Before(W["slave"], x, y) \/ (x \in Elements(W["slave"]) /\ y = p) \/ y = Thunk
  <2> DEFINE X == Packet \cup {Thunk}
             s == W["slave"]
  <2>1. s \in Seq(X) /\ p \in X /\ Thunk \in X
    BY Tags DEF Inv, Types
  <2>2. W1["slave"] = s \o <<p, Thunk>>
    OBVIOUS
  <2> HIDE DEF X, s
  <2>3. /\ Elements(s \o <<p, Thunk>>) = Elements(s) \cup {p, Thunk}
        /\ \A x, y : Before(s \o <<p, Thunk>>, x, y) =>
              Before(s, x, y) \/ (x \in Elements(s) /\ y = p) \/ y = Thunk
    BY <2>1, AddingTwo
  <2> QED
    BY <2>2, <2>3 DEF s
<1>4. Up(N1, W1) = Up(N, W) /\ Down(N1, W1) \subseteq Down(N, W) \cup {p, Thunk}
  BY <1>2, <1>3 DEF Up, Down
<1>5. ~IsValue(Thunk) /\ Thunk \notin Packet /\ Thunk.command # "GENERAL_POLL"
      /\ \A n : ~AckFor(Thunk, n)
  BY Empty
<1>6. ~IsValue(GeneralPoll) /\ (\A n : ~AckFor(GeneralPoll, n))
      /\ GeneralPoll.value = Zero /\ GeneralPoll.dest = "all"
  BY DEF GeneralPoll, Packed, IsValue, AckFor
<1>7. \A n : AckFor(p, n) => p \in Down(N, W)
  BY <1>6, NotBoth DEF Down
<1>8. IsValue(p) => p.dest = "slave" /\ p.value = Kept(N) /\ R["master"] # {}
  BY <1>6 DEF Inv, Shapes, Flags, Kept
<1>9. Shapes(N1, W1)
  <2>1. p.command = "GENERAL_POLL" => p.dest = "all"
    BY <1>6, <1>8 DEF Inv, Shapes, Down, IsValue
  <2> QED
    BY <1>2, <1>3, <1>4, <1>5, <1>8, <2>1 DEF Inv, Shapes
<1>10. Knowns(N1, W1, R)
  <2>1. p.value \in Known(R)
    <3>1. p \in Replay(N, "master") => p \in Down(N, W)
      BY DEF Down
    <3> QED
      BY <1>6, <3>1, Tags DEF Inv, Knowns, Known
  <2> QED
    BY <1>1, <1>4, <1>5, <2>1, Tags DEF Inv, Knowns
<1>11. Flags(N1, R)
  BY <1>1 DEF Inv, Flags
<1>12. Upwards(N1, W1, R)
  BY <1>1, <1>3, <1>4, <1>5, <1>8 DEF Inv, Upwards
<1>13. Downwards(N1, W1)
  <2>1. Kept(N) \in Nat
    BY InPackets, Tags DEF Inv, Kept
  <2> QED
    <3>1. \A x \in Elements(W1["slave"]) : IsValue(x) =>
             x \in Elements(W["slave"]) \/ (x = p /\ p.value = Kept(N))
      BY <1>3, <1>5, <1>8
    <3>2. \A x, y : Before(W1["slave"], x, y) /\ IsValue(x) /\ IsValue(y) =>
             \/ Before(W["slave"], x, y)
             \/ x \in Elements(W["slave"]) /\ y.value = Kept(N)
      BY <1>3, <1>5, <1>8
    <3>3. \A x \in Elements(W1["slave"]) : IsValue(x) => x.value <= Kept(N)
      <4>1. Kept(N) <= Kept(N)
        BY <2>1
      <4> QED
        BY <3>1, <4>1 DEF Inv, Downwards
    <3>4. \A x, y : Before(W1["slave"], x, y) /\ IsValue(x) /\ IsValue(y) => x.value <= y.value
      BY <3>2 DEF Inv, Downwards
    <3>5. ~Own(N) => /\ Held(N) <= Kept(N)
                     /\ \A x \in Elements(W1["slave"]) : IsValue(x) => Held(N) <= x.value
      BY <3>1 DEF Inv, Downwards
    <3> QED
      BY <1>1, <3>3, <3>4, <3>5 DEF Downwards
<1>14. Line(N1, W1)
  BY <1>1, <1>2 DEF Inv, Line
<1>15. Heard(N1, W1) => Heard(N, W)
  BY <1>1, <1>4, <1>5, <1>7 DEF Heard
<1>16. AfterHeard(N1, W1, R) /\ Unsent(N1, W1, A)
  BY <1>1, <1>4, <1>15 DEF Inv, AfterHeard, Unsent
<1>17. Acked(N1, W1) => Acked(N, W)
  BY <1>1, <1>4, <1>5, <1>7 DEF Acked
<1>18. AfterAcked(N1, W1, R)
  BY <1>1, <1>3, <1>5, <1>8, <1>17 DEF Inv, AfterAcked
<1> QED
  BY <1>9, <1>10, <1>11, <1>12, <1>13, <1>14, <1>16, <1>18 DEF Inv

(* An application stores a fresh value.                                    *)
SlaveSets(N, R, N1, R1, v) ==
  /\ \A u \in Known(R) : u < v
  /\ R1["master"] = R["master"]
  /\ R1["slave"] = R["slave"] \cup {v}
  /\ N1["master"] = N["master"]
  /\ N1["slave"].pending = N["slave"].pending
  /\ N1["slave"].return = N["slave"].return
  /\ N1["slave"].buffer = N["slave"].buffer
  /\ N1["slave"].box.contents = v
  /\ ~N1["slave"].box.synchronized
  /\ N1["slave"].box.callerChanged

LEMMA SlaveSetsKeeps ==
  ASSUME NEW N, NEW W, NEW A, NEW R, NEW N1, NEW R1, NEW v \in Value,
         Inv(N, W, A, R), Types(N1, W, R1), SlaveSets(N, R, N1, R1, v)
  PROVE  Inv(N1, W, A, R1) /\ Grows(N, N1)
<1> USE DEF SlaveSets
<1>1. /\ Held(N1) = v /\ Own(N1) /\ Kept(N1) = Kept(N) /\ Held(N) = N["slave"].box.contents
      /\ Known(R1) = Known(R) \cup {v} /\ v \in Nat /\ Kept(N) \in Known(R)
  BY Tags DEF Held, Own, Kept, Known, Inv, Knowns
<1>2. Replay(N1, "slave") = Replay(N, "slave") /\ Replay(N1, "master") = Replay(N, "master")
  BY DEF Replay
<1>3. Up(N1, W) = Up(N, W) /\ Down(N1, W) = Down(N, W)
  BY <1>2 DEF Up, Down
<1>4. \A p \in Up(N, W) \cup Down(N, W) : p \in Packet => p.value \in Known(R) /\ p.value < v
  BY DEF Inv, Knowns
<1>5. \A p \in Up(N, W) \cup Down(N, W) : ~Sends(p, v)
  <2>1. ~(v < v)
    BY <1>1
  <2> QED
    BY <1>4, <2>1, InPackets DEF Inv, Sends
<1>6. \A p \in Up(N, W) \cup Down(N, W) : \A n : AckFor(p, n) => p.value # v
  <2>1. ~(v < v)
    BY <1>1
  <2> QED
    BY <1>4, <2>1, InPackets DEF Inv
<1>7. Shapes(N1, W)
  BY <1>2, <1>3 DEF Inv, Shapes
<1>8. Knowns(N1, W, R1)
  BY <1>1, <1>3, Tags DEF Inv, Knowns, Held
<1>9. Flags(N1, R1)
  BY <1>1 DEF Inv, Flags
<1>10. Upwards(N1, W, R1)
  <2>1. \A p \in Up(N, W) : IsValue(p) => p.value <= v
    BY <1>1, <1>4, InPackets, PacketIs DEF Inv
  <2>2. Kept(N) <= v
    BY <1>1, InPackets, Tags DEF Inv, Kept
  <2> QED
    BY <1>1, <1>3, <2>1, <2>2 DEF Inv, Upwards
<1>11. Downwards(N1, W)
  BY <1>1 DEF Inv, Downwards
<1>12. Line(N1, W)
  <2>1. \A p \in Elements(W["master"]) \cup N["slave"].return : ~Sends(p, v)
    BY <1>5 DEF Up
  <2>2. \A p, q : Before(W["master"], p, q) => p \in Elements(W["master"])
    BY DEF Before, Elements
  <2> QED
    BY <1>1, <2>1, <2>2 DEF Line
<1>13. ~Heard(N1, W)
  BY <1>1, <1>3, <1>6 DEF Heard
<1>14. AfterHeard(N1, W, R1) /\ Unsent(N1, W, A)
  BY <1>1, <1>3, <1>5, <1>13 DEF AfterHeard, Unsent
<1>15. Acked(N1, W) => Acked(N, W)
  BY <1>1, <1>3 DEF Acked
<1>16. AfterAcked(N1, W, R1)
  BY <1>1, <1>15 DEF Inv, AfterAcked
<1>17. Grows(N, N1)
  <2>1. N["slave"].box.contents <= v
    BY <1>1, InPackets, Tags DEF Inv, Knowns
  <2> QED
    BY <2>1, InPackets, Tags DEF Inv, Grows
<1> QED
  BY <1>7, <1>8, <1>9, <1>10, <1>11, <1>12, <1>14, <1>16, <1>17 DEF Inv

MasterSets(N, R, N1, R1, v) ==
  /\ \A u \in Known(R) : u < v
  /\ R1["slave"] = R["slave"]
  /\ R1["master"] = R["master"] \cup {v}
  /\ N1["slave"] = N["slave"]
  /\ N1["master"].pending = N["master"].pending
  /\ N1["master"].buffer = N["master"].buffer
  /\ N1["master"].box.contents = v
  /\ ~N1["master"].box.synchronized
  /\ N1["master"].box.callerChanged

LEMMA MasterSetsKeeps ==
  ASSUME NEW N, NEW W, NEW A, NEW R, NEW N1, NEW R1, NEW v \in Value,
         Inv(N, W, A, R), Types(N1, W, R1), MasterSets(N, R, N1, R1, v)
  PROVE  Inv(N1, W, A, R1) /\ Grows(N, N1)
<1> USE DEF MasterSets
<1>1. /\ Held(N1) = Held(N) /\ Own(N1) = Own(N) /\ Kept(N1) = v
      /\ Known(R1) = Known(R) \cup {v} /\ v \in Nat /\ Held(N) \in Known(R)
      /\ R1["master"] # {}
  BY Tags DEF Held, Own, Kept, Known, Inv, Knowns
<1>2. Replay(N1, "slave") = Replay(N, "slave") /\ Replay(N1, "master") = Replay(N, "master")
  BY DEF Replay
<1>3. Up(N1, W) = Up(N, W) /\ Down(N1, W) = Down(N, W)
  BY <1>2 DEF Up, Down
<1>4. \A p \in Up(N, W) \cup Down(N, W) : p \in Packet => p.value \in Known(R) /\ p.value < v
  BY DEF Inv, Knowns
<1>5. \A p \in Up(N, W) \cup Down(N, W) : \A n : AckFor(p, n) => p.value # v
  <2>1. ~(v < v)
    BY <1>1
  <2> QED
    BY <1>4, <2>1, InPackets DEF Inv
<1>6. Shapes(N1, W)
  BY <1>2, <1>3 DEF Inv, Shapes
<1>7. Knowns(N1, W, R1)
  BY <1>1, <1>3, Tags DEF Inv, Knowns, Kept
<1>8. Flags(N1, R1) /\ Upwards(N1, W, R1)
  BY <1>1 DEF Inv, Flags, Upwards
<1>9. Downwards(N1, W)
  <2>1. \A p \in Elements(W["slave"]) : IsValue(p) => p.value <= v
    <3>1. \A p \in Elements(W["slave"]) : p \in Down(N, W)
      BY DEF Down
    <3> QED
      BY <1>1, <1>4, <3>1, InPackets, PacketIs DEF Inv
  <2>2. Held(N) <= v
    BY <1>1, InPackets, Tags DEF Inv, Held
  <2> QED
    BY <1>1, <2>1, <2>2 DEF Inv, Downwards
<1>10. Line(N1, W)
  BY <1>1, <1>2 DEF Inv, Line
<1>11. Heard(N1, W) => Heard(N, W)
  BY <1>1, <1>3 DEF Heard
<1>12. AfterHeard(N1, W, R1) /\ Unsent(N1, W, A)
  BY <1>1, <1>3, <1>11 DEF Inv, AfterHeard, Unsent
<1>13. ~Acked(N1, W)
  BY <1>1, <1>3, <1>5 DEF Acked
<1>14. AfterAcked(N1, W, R1)
  BY <1>13 DEF AfterAcked
<1>15. Grows(N, N1)
  <2>1. N["master"].box.contents <= v
    BY <1>1, InPackets, Tags DEF Inv, Knowns
  <2> QED
    BY <2>1, InPackets, Tags DEF Inv, Grows
<1> QED
  BY <1>6, <1>7, <1>8, <1>9, <1>10, <1>12, <1>14, <1>15 DEF Inv

(* Only a pending reply cares where the device's main loop is.             *)
LEMMA PlaceMoves ==
  ASSUME NEW N, NEW W, NEW A, NEW R, NEW A1, Inv(N, W, A, R),
         N["slave"].pending /\ A1["slave"] = "um.loop" => ~Own(N) \/ A["slave"] = "um.loop"
  PROVE  Inv(N, W, A1, R)
BY DEF Inv, Unsent

-------------------------------------------------------------------------------
(* What a pass of a main loop changes: the state of node n, and the        *)
(* streams; rest is what is left of the frames on their way to n.          *)

Frame == Packet \cup {Thunk}

(* The operators of Sequences, as the provers are to see them: unexpanded. *)
First(s) == Head(s)
Rest(s) == Tail(s)
Joined(s, t) == s \o t

Fit(n, s) == /\ s \in State
             /\ n = "master" => s.return = {}
             /\ \A p, q \in s.return : p = q

Possible(n, r) == Fit(n, r.state) /\ r.frames \in Seq(Frame)

Moves(N, W, R, n, rest, r, N1, W1) ==
  /\ Types(N, W, R) /\ n \in Node /\ Possible(n, r)
  /\ rest = W[n] \/ (W[n] # <<>> /\ rest = Rest(W[n]))
  /\ N1 = [N EXCEPT ![n] = r.state]
  /\ W1 = [W EXCEPT ![n] = rest, ![Peer(n)] = Joined(@, r.frames)]

LEMMA Moving ==
  ASSUME NEW N, NEW W, NEW R, NEW n, NEW rest, NEW r, NEW N1, NEW W1,
         Moves(N, W, R, n, rest, r, N1, W1)
  PROVE  /\ Types(N1, W1, R)
         /\ N1[n] = r.state /\ N1[Peer(n)] = N[Peer(n)]
         /\ W1[n] = rest /\ W1[Peer(n)] = Joined(W[Peer(n)], r.frames)
         /\ r.frames = <<>> => W1[Peer(n)] = W[Peer(n)]
         /\ Len(W1[n]) <= Len(W[n])
         /\ Elements(W1[n]) \subseteq Elements(W[n])
         /\ \A p, q : Before(W1[n], p, q) => Before(W[n], p, q)
         /\ W[n] # <<>> /\ rest = Rest(W[n]) => Took(W, W1, n, First(W[n]))
<1> n \in Node /\ Types(N, W, R) /\ Possible(n, r) /\ Fit(n, r.state)
      /\ (rest = W[n] \/ (W[n] # <<>> /\ rest = Rest(W[n])))
  BY DEF Moves, Possible
<1>1. /\ Peer(n) \in Node /\ n # Peer(n) /\ W \in [Node -> Seq(Frame)]
      /\ W[n] \in Seq(Frame) /\ W[Peer(n)] \in Seq(Frame)
  BY Tags DEF Types, Frame
<1>2. W[n] # <<>> => Tail(W[n]) \in Seq(Frame) /\ Len(Tail(W[n])) = Len(W[n]) - 1
  BY <1>1
<1>3. W[Peer(n)] \o r.frames \in Seq(Frame)
  BY <1>1 DEF Possible
<1>4. r.frames = <<>> => W[Peer(n)] \o r.frames = W[Peer(n)]
  BY <1>1
<1>5. /\ W1 \in [Node -> Seq(Frame)] /\ W1[n] = rest
      /\ W1[Peer(n)] = W[Peer(n)] \o r.frames
  BY <1>1, <1>2, <1>3 DEF Moves, Rest, Joined
<1>6. /\ N1 \in [Node -> State] /\ N1[n] = r.state /\ N1[Peer(n)] = N[Peer(n)]
  BY <1>1 DEF Moves, Types, Fit
<1>7. Types(N1, W1, R)
  <2>1. W1 \in [Node -> Seq(Packet \cup {Thunk})]
    BY <1>5 DEF Frame
  <2>2. CASE n = "master"
    <3>1. N1["master"] = r.state /\ N1["slave"] = N["slave"]
      BY <1>6, <2>2, Tags
    <3> QED
      BY <1>6, <2>1, <2>2, <3>1 DEF Types, Fit
  <2>3. CASE n = "slave"
    <3>1. N1["slave"] = r.state /\ N1["master"] = N["master"]
      BY <1>6, <2>3, Tags
    <3> QED
      BY <1>6, <2>1, <2>3, <3>1 DEF Types, Fit
  <2> QED
    BY <2>2, <2>3, Tags
<1>8. Len(W[n]) \in Nat
  BY <1>1
<1>9. CASE rest = W[n] /\ ~(W[n] # <<>> /\ rest = Rest(W[n]))
  <2>1. W1[n] = W[n] /\ Len(W1[n]) <= Len(W[n])
    BY <1>5, <1>8, <1>9
  <2> QED
    BY <1>4, <1>5, <1>6, <1>7, <1>9, <2>1 DEF Joined
<1>10. CASE W[n] # <<>> /\ rest = Rest(W[n])
  <2>1. W1[n] = Tail(W[n]) /\ Len(W1[n]) <= Len(W[n])
    BY <1>2, <1>5, <1>8, <1>10 DEF Rest
  <2> QED
    BY <1>1, <1>4, <1>5, <1>6, <1>7, <1>10, <2>1, Taking DEF Took, First, Joined
<1> QED
  BY <1>9, <1>10

-------------------------------------------------------------------------------
(* A node takes a frame.                                                   *)

LEMMA Accepted ==
  ASSUME NEW m \in Mailbox, NEW v \in Value
  PROVE  /\ AfterAccept(m, v) \in Mailbox /\ AfterAccept(m, v).contents = v
         /\ AfterAccept(m, v).synchronized /\ ~AfterAccept(m, v).callerChanged
BY DEF Mailbox, AfterAccept

LEMMA Disregarded ==
  ASSUME NEW m \in Mailbox
  PROVE  /\ AfterDisregard(m) \in Mailbox /\ AfterDisregard(m).contents = m.contents
         /\ ~AfterDisregard(m).synchronized
         /\ AfterDisregard(m).callerChanged = m.callerChanged
BY DEF Mailbox, AfterDisregard

LEMMA Acknowledged ==
  ASSUME NEW m \in Mailbox, NEW v \in Value
  PROVE  /\ AfterAck(m, v) \in Mailbox /\ AfterAck(m, v).contents = m.contents
         /\ AfterAck(m, v).callerChanged = m.callerChanged
         /\ AfterAck(m, v).synchronized <=> m.synchronized \/ v = m.contents
BY DEF Mailbox, AfterAck

LEMMA AckIs ==
  ASSUME NEW n \in Node, NEW v \in Value
  PROVE  Packed(n, "ACK_VALUE", v) \in Packet
BY DEF Packed, Packet, Command

LEMMA StateIs ==
  ASSUME NEW s \in State
  PROVE  /\ s.box \in Mailbox /\ s.pending \in BOOLEAN
         /\ s.buffer \in Packet \cup {Thunk, Cleared} /\ s.return \subseteq Packet
BY DEF State

LEMMA GeneratedIs ==
  ASSUME NEW n \in Node, NEW s \in State
  PROVE  /\ Generated(n, s) \in State /\ Polled(n, s) \in Packet
         /\ Generated(n, s).pending = s.pending /\ Generated(n, s).return = s.return
         /\ Generated(n, s).buffer = Polled(n, s)
         /\ Generated(n, s).box.contents = s.box.contents
         /\ Generated(n, s).box.synchronized = s.box.synchronized
         /\ Generated(n, s).box.callerChanged = s.box.callerChanged
         /\ IsValue(Polled(n, s)) /\ Polled(n, s).dest = Peer(n)
         /\ Polled(n, s).value = s.box.contents
<1> DEFINE p == Polled(n, s)
           b == AfterGenerate(s.box)
<1>1. s.box \in Mailbox /\ s.box.contents \in Value
  BY StateIs DEF Mailbox
<1>2. /\ b \in Mailbox /\ b.contents = s.box.contents
      /\ b.synchronized = s.box.synchronized /\ b.callerChanged = s.box.callerChanged
  BY <1>1 DEF Mailbox, AfterGenerate
<1>3. p \in Packet /\ IsValue(p) /\ p.dest = Peer(n) /\ p.value = s.box.contents
  BY <1>1, Tags DEF Polled, Packed, Packet, Command, GeneratedCommand, IsValue
<1>4. Generated(n, s) = [s EXCEPT !.buffer = p, !.box = b]
  BY DEF Generated
<1> HIDE DEF p, b
<1>5. /\ Generated(n, s) \in State
      /\ Generated(n, s).pending = s.pending /\ Generated(n, s).return = s.return
      /\ Generated(n, s).buffer = p /\ Generated(n, s).box = b
  BY <1>2, <1>3, <1>4 DEF State
<1> QED
  BY <1>2, <1>3, <1>5 DEF p

(* sendFrame() at either node.                                             *)
LEMMA Sending ==
  ASSUME NEW n \in Node, NEW s, Fit(n, s), NEW p \in Packet
  PROVE  LET r == SendFrame(n, s, p)
         IN  /\ Possible(n, r)
             /\ r.state.pending = s.pending /\ r.state.buffer = s.buffer /\ r.state.box = s.box
             /\ n = "master" => r.frames = <<p, Thunk>>
             /\ n = "slave" => r.frames = <<>> /\ r.state.return = {p}
<1> DEFINE r == SendFrame(n, s, p)
<1>1. s \in State /\ p \in Frame /\ Thunk \in Frame /\ "master" # "slave"
  BY DEF Fit, Frame
<1>2. CASE n = "master"
  <2>1. r.state = s /\ r.frames = <<p, Thunk>>
    BY <1>2 DEF SendFrame, Out
  <2>2. r.frames \in Seq(Frame)
    BY <1>1, <2>1
  <2> HIDE DEF r
  <2>3. Possible(n, r)
    BY <2>1, <2>2 DEF Possible
  <2> QED
    BY <1>1, <1>2, <2>1, <2>3 DEF r
<1>3. CASE n # "master"
  <2>1. r.state = [s EXCEPT !.return = {p}] /\ r.frames = <<>>
    BY <1>3 DEF SendFrame, Out
  <2> HIDE DEF r
  <2>2. /\ r.state \in State /\ r.state.return = {p}
        /\ r.state.pending = s.pending /\ r.state.buffer = s.buffer /\ r.state.box = s.box
    BY <1>1, <2>1 DEF State
  <2>3. Possible(n, r)
    BY <1>3, <2>1, <2>2 DEF Possible, Fit
  <2> QED
    BY <1>1, <1>3, <2>1, <2>2, <2>3 DEF r
<1> QED
  BY <1>2, <1>3

LEMMA ValueArrives ==
  ASSUME NEW n \in Node, NEW s \in State, NEW f \in Packet, IsValue(f), f.dest = n
  PROVE  LET t == HandleFrame(n, s, f)
         IN  /\ t \in State /\ t.pending /\ t.return = s.return
             /\ t.buffer = Packed(Peer(n), "ACK_VALUE", f.value)
             /\ t.box = IF Contended(n, s.box) THEN AfterDisregard(s.box)
                        ELSE AfterAccept(s.box, f.value)
<1> DEFINE t == HandleFrame(n, s, f)
           ack == Packed(Peer(n), "ACK_VALUE", f.value)
           b == IF Contended(n, s.box) THEN AfterDisregard(s.box) ELSE AfterAccept(s.box, f.value)
<1>1. t = [s EXCEPT !.pending = TRUE, !.buffer = ack, !.box = b]
  BY DEF HandleFrame, ForMe
<1>2. b \in Mailbox /\ ack \in Packet
  BY Accepted, Disregarded, AckIs, StateIs, PacketIs, Tags
<1> HIDE DEF b, ack, t
<1>3. /\ t \in State /\ t.pending /\ t.return = s.return /\ t.buffer = ack /\ t.box = b
  BY <1>1, <1>2 DEF State
<1> QED
  BY <1>3 DEF b, ack, t

(* A frame that is no value leaves the value and its owner alone.          *)
Hears(n, s, f, t) ==
  /\ t \in State /\ t.pending = s.pending /\ t.return = s.return /\ t.buffer = f
  /\ t.box.contents = s.box.contents
  /\ t.box.callerChanged = s.box.callerChanged
  /\ s.box.synchronized => t.box.synchronized
  /\ t.box.synchronized => \/ s.box.synchronized
                           \/ AckFor(f, n) /\ f.value = s.box.contents

LEMMA OtherArrives ==
  ASSUME NEW n \in Node, NEW s \in State, NEW f \in Packet, ~IsValue(f),
         f.command = "GENERAL_POLL" => f.dest = "all"
  PROVE  Hears(n, s, f, HandleFrame(n, s, f))
<1> DEFINE t == HandleFrame(n, s, f)
           m == AfterAck(s.box, f.value)
<1>1. /\ s.box \in Mailbox /\ m \in Mailbox
      /\ m.contents = s.box.contents /\ m.callerChanged = s.box.callerChanged
      /\ m.synchronized <=> s.box.synchronized \/ f.value = s.box.contents
  BY Acknowledged, StateIs, PacketIs
<1> HIDE DEF m
<1>2. CASE ForMe(n, f)
  <2>1. AckFor(f, n)
    BY <1>2, PacketIs, Tags DEF AckFor, ForMe
  <2>2. t = [s EXCEPT !.buffer = f, !.box = m]
    BY <1>2 DEF HandleFrame, m
  <2>3. t \in State /\ t.pending = s.pending /\ t.return = s.return /\ t.buffer = f /\ t.box = m
    BY <1>1, <2>2 DEF State
  <2> QED
    BY <1>1, <2>1, <2>3 DEF Hears
<1>3. CASE ~ForMe(n, f)
  <2>1. t = [s EXCEPT !.buffer = f]
    BY <1>3 DEF HandleFrame
  <2>2. t \in State /\ t.pending = s.pending /\ t.return = s.return /\ t.buffer = f
        /\ t.box = s.box
    BY <2>1 DEF State
  <2> QED
    BY <2>2 DEF Hears
<1> QED
  BY <1>2, <1>3

LEMMA Processed ==
  ASSUME NEW n \in Node, NEW s, Fit(n, s), NEW f \in Frame, n = "master" => f # Thunk
  PROVE  Possible(n, ProcessFrame(n, s, f))
<1> DEFINE r == ProcessFrame(n, s, f)
<1>1. s \in State /\ s.box \in Mailbox /\ <<>> \in Seq(Frame)
  BY StateIs DEF Fit
<1>2. CASE f # Thunk
  <2> DEFINE t == HandleFrame(n, s, f)
  <2>1. f \in Packet /\ f.value \in Value
    BY <1>2, PacketIs DEF Frame
  <2>2. t \in State /\ t.return = s.return
    <3>1. CASE ForMe(n, f) /\ IsValue(f)
      BY <1>1, <2>1, <3>1, ValueArrives DEF ForMe
    <3>2. CASE ForMe(n, f) /\ ~IsValue(f)
      <4> DEFINE m == AfterAck(s.box, f.value)
      <4>1. m \in Mailbox
        BY <1>1, <2>1, Acknowledged
      <4>2. t = [s EXCEPT !.buffer = f, !.box = m]
        BY <3>2 DEF HandleFrame
      <4> HIDE DEF m, t
      <4> QED
        BY <1>1, <2>1, <4>1, <4>2 DEF State
    <3>3. CASE ~ForMe(n, f)
      <4>1. t = [s EXCEPT !.buffer = f]
        BY <3>3 DEF HandleFrame
      <4> HIDE DEF t
      <4> QED
        BY <1>1, <2>1, <4>1 DEF State
    <3> QED
      BY <3>1, <3>2, <3>3
  <2>3. r.state = t /\ r.frames = <<>>
    <3> HIDE DEF t
    <3> QED
      BY <1>2 DEF ProcessFrame, Out, t
  <2> HIDE DEF r, t
  <2>4. Possible(n, r)
    BY <1>1, <2>2, <2>3 DEF Possible, Fit
  <2> QED
    BY <2>4 DEF r
<1>3. CASE f = Thunk
  <2>1. n = "slave"
    BY <1>3, Tags
  <2>2. CASE s.return # {}
    <3> DEFINE k == CHOOSE p \in s.return : TRUE
    <3>1. k \in Frame
      BY <1>1, <2>2, StateIs DEF Frame
    <3> HIDE DEF k
    <3>2. <<k>> \in Seq(Frame)
      BY <3>1
    <3>3. r.state = [s EXCEPT !.return = {}, !.buffer = Thunk] /\ r.frames = <<k>>
      BY <1>3, <2>2 DEF ProcessFrame, SendKept, Out, k
    <3> HIDE DEF r
    <3>4. r.state \in State /\ r.state.return = {}
      BY <1>1, <3>3 DEF State
    <3>5. Possible(n, r)
      BY <3>2, <3>3, <3>4 DEF Possible, Fit
    <3> QED
      BY <3>5 DEF r
  <2>3. CASE s.return = {} /\ Due(s)
    <3>1. r = SendFrame(n, Generated(n, s), Polled(n, s))
      BY <1>3, <2>3 DEF ProcessFrame
    <3>2. Fit(n, Generated(n, s)) /\ Polled(n, s) \in Packet
      BY <1>1, GeneratedIs DEF Fit
    <3> QED
      BY <3>1, <3>2, Sending
  <2>4. CASE s.return = {} /\ ~Due(s)
    <3>1. r.state = [s EXCEPT !.buffer = Cleared] /\ r.frames = <<>>
      BY <1>3, <2>4 DEF ProcessFrame, Out
    <3>2. r.state \in State /\ r.state.return = {}
      BY <1>1, <2>4, <3>1 DEF State
    <3> QED
      BY <1>1, <3>1, <3>2 DEF Possible, Fit
  <2> QED
    BY <2>2, <2>3, <2>4
<1> QED
  BY <1>2, <1>3

LEMMA MasterTakes ==
  ASSUME NEW N, NEW W, NEW A, NEW R, Inv(N, W, A, R), W["master"] # <<>>,
         NEW r, r = ProcessFrame("master", N["master"], First(W["master"])),
         NEW N1, NEW W1, Moves(N, W, R, "master", Rest(W["master"]), r, N1, W1)
  PROVE  r.frames = <<>> /\ Inv(N1, W1, A, R) /\ Grows(N, N1)
<1> DEFINE f == First(W["master"])
           s == N["master"]
           t == HandleFrame("master", s, f)
<1>1. Types(N, W, R) /\ s \in State /\ W["master"] \in Seq(Frame) /\ s.return = {}
  BY Tags DEF Inv, Types, Frame
<1>2. f \in Packet /\ f \in Up(N, W)
  BY <1>1, Taking DEF Inv, Shapes, Up, First
<1>3. r.state = t /\ r.frames = <<>>
  <2>1. f # Thunk
    BY <1>2, PacketIs
  <2> HIDE DEF t
  <2> QED
    BY <2>1 DEF ProcessFrame, Out, t
<1> HIDE DEF f, s, t
<1>4. /\ Types(N1, W1, R) /\ N1["master"] = t /\ N1["slave"] = N["slave"]
      /\ W1["slave"] = W["slave"] /\ Took(W, W1, "master", f)
  BY <1>3, Moving, Tags DEF f
<1>5. CASE IsValue(f)
  <2>1. f.dest = "master"
    BY <1>2, <1>5 DEF Inv, Shapes
  <2>2. /\ t \in State /\ t.pending /\ t.return = {}
        /\ t.buffer = Packed("slave", "ACK_VALUE", f.value)
        /\ t.box = IF Contended("master", s.box) THEN AfterDisregard(s.box)
                   ELSE AfterAccept(s.box, f.value)
    BY <1>1, <1>2, <1>5, <2>1, ValueArrives, Tags DEF t
  <2>3. Contended("master", s.box) <=> R["master"] # {}
    BY DEF Contended, Inv, Flags, s
  <2>4. s.box \in Mailbox /\ f.value \in Value
    BY <1>1, <1>2, StateIs, PacketIs
  <2>5. CASE R["master"] = {}
    <3>1. t.box.contents = f.value /\ t.box.synchronized /\ ~t.box.callerChanged
      BY <2>2, <2>3, <2>4, <2>5, Accepted
    <3>2. MasterAccepts(N, W, R, N1, W1, f)
      BY <1>5, <2>2, <1>4, <2>5, <3>1 DEF MasterAccepts
    <3> QED
      BY <1>2, <1>3, <1>4, <3>2, MasterAcceptsKeeps
  <2>6. CASE R["master"] # {}
    <3>1. /\ t.box.contents = s.box.contents /\ ~t.box.synchronized
          /\ t.box.callerChanged = s.box.callerChanged
      BY <2>2, <2>3, <2>4, <2>6, Disregarded
    <3>2. MasterDisregards(N, W, R, N1, W1, f)
      BY <1>5, <2>2, <1>4, <2>6, <3>1 DEF MasterDisregards, s
    <3> QED
      BY <1>2, <1>3, <1>4, <3>2, MasterDisregardsKeeps
  <2> QED
    BY <2>5, <2>6
<1>6. CASE ~IsValue(f)
  <2>1. f.command = "GENERAL_POLL" => f.dest = "all"
    BY <1>2 DEF Inv, Shapes
  <2>2. /\ t \in State /\ t.pending = s.pending /\ t.return = {} /\ t.buffer = f
        /\ t.box.contents = s.box.contents /\ t.box.callerChanged = s.box.callerChanged
        /\ s.box.synchronized => t.box.synchronized
        /\ t.box.synchronized => \/ s.box.synchronized
                                 \/ AckFor(f, "master") /\ f.value = s.box.contents
    <3>1. Hears("master", s, f, t)
      BY <1>1, <1>2, <1>6, <2>1, OtherArrives, Tags DEF t
    <3> QED
      BY <1>1, <3>1 DEF Hears
  <2>3. Alike(N, N1)
    BY <2>2, <1>4, Tags DEF Alike, s
  <2>4. Shorter(W, W1)
    BY <1>4, Tags DEF Took, Shorter
  <2>5. /\ \A p \in Replay(N1, "slave") : p \in Replay(N, "slave")
        /\ \A p \in Replay(N1, "master") : p \in Up(N, W) /\ ~IsValue(p)
    BY <1>2, <1>6, <2>2, <1>4 DEF Replay, s
  <2>6. /\ N1["master"].box.synchronized =>
              \/ N["master"].box.synchronized
              \/ \E p \in Up(N, W) : AckFor(p, "master") /\ p.value = Kept(N)
        /\ N1["slave"].box.synchronized => Heard(N, W)
        /\ N1["slave"].return \subseteq N["slave"].return
        /\ N1["slave"].pending => N["slave"].pending
    BY <1>2, <2>2, <1>4 DEF Heard, Kept, s
  <2>7. Fewer(N, W, A, N1, W1, A)
    BY <2>3, <2>4, <2>5, <2>6 DEF Fewer
  <2>8. Grows(N, N1)
    BY <1>1, <2>3, AlikeGrows
  <2> QED
    BY <1>3, <1>4, <2>7, <2>8, FewerKeeps
<1> QED
  BY <1>5, <1>6

LEMMA SlaveTakes ==
  ASSUME NEW N, NEW W, NEW A, NEW R, Inv(N, W, A, R), W["slave"] # <<>>,
         NEW r, r = ProcessFrame("slave", N["slave"], First(W["slave"])),
         NEW N1, NEW W1, Moves(N, W, R, "slave", Rest(W["slave"]), r, N1, W1), NEW A1,
         N["slave"].pending => A["slave"] = "um.loop" /\ A1["slave"] # "um.loop"
  PROVE  Inv(N1, W1, A1, R) /\ Grows(N, N1)
<1> DEFINE f == First(W["slave"])
           s == N["slave"]
           t == HandleFrame("slave", s, f)
<1>1. Types(N, W, R) /\ s \in State /\ W["slave"] \in Seq(Frame)
  BY Tags DEF Inv, Types, Frame
<1>2. f \in Frame /\ f \in Elements(W["slave"]) /\ f \in Down(N, W)
  BY <1>1, Taking DEF Down, First
<1>3. r = ProcessFrame("slave", s, f)
  OBVIOUS
<1> HIDE DEF f, s, t
<1>4. /\ Types(N1, W1, R) /\ N1["slave"] = r.state /\ N1["master"] = N["master"]
      /\ W1["master"] = Joined(W["master"], r.frames)
      /\ r.frames = <<>> => W1["master"] = W["master"]
      /\ Took(W, W1, "slave", f)
      /\ Elements(W1["slave"]) \subseteq Elements(W["slave"])
      /\ \A p, q : Before(W1["slave"], p, q) => Before(W["slave"], p, q)
  BY Moving, Tags DEF f
<1>5. ASSUME r.frames = <<>> PROVE Shorter(W, W1)
  BY <1>4, <1>5, Tags DEF Shorter
<1>6. CASE f # Thunk /\ IsValue(f)
  <2>1. f \in Packet /\ f.dest = "slave"
    BY <1>2, <1>6 DEF Frame, Inv, Shapes
  <2>2. r.state = t /\ r.frames = <<>>
    BY <1>3, <1>6 DEF ProcessFrame, Out, t
  <2>3. /\ t \in State /\ t.pending /\ t.return = s.return
        /\ t.buffer = Packed("master", "ACK_VALUE", f.value)
        /\ t.box = IF Contended("slave", s.box) THEN AfterDisregard(s.box)
                   ELSE AfterAccept(s.box, f.value)
    BY <1>1, <1>6, <2>1, ValueArrives, Tags DEF t
  <2>4. ~Contended("slave", s.box)
    BY DEF Contended
  <2>5. s.box \in Mailbox /\ f.value \in Value
    BY <1>1, <2>1, StateIs, PacketIs
  <2>6. t.box.contents = f.value /\ t.box.synchronized /\ ~t.box.callerChanged
    BY <2>3, <2>4, <2>5, Accepted
  <2>7. SlaveAccepts(N, W, N1, W1, f)
    BY <1>4, <1>6, <2>2, <2>3, <2>6 DEF SlaveAccepts, s
  <2> QED
    BY <1>4, <2>1, <2>7, SlaveAcceptsKeeps
<1>7. CASE f # Thunk /\ ~IsValue(f)
  <2>1. f \in Packet
    BY <1>2, <1>7 DEF Frame
  <2>2. f.command = "GENERAL_POLL" => f.dest = "all"
    BY <1>2 DEF Inv, Shapes
  <2>3. r.state = t /\ r.frames = <<>>
    BY <1>3, <1>7 DEF ProcessFrame, Out, t
  <2>4. Hears("slave", s, f, t)
    BY <1>1, <1>7, <2>1, <2>2, OtherArrives, Tags DEF t
  <2>5. N1["slave"] = t
    BY <1>4, <2>3
  <2>6. Alike(N, N1)
    BY <1>4, <2>4, <2>5, Tags DEF Alike, Hears, s
  <2>7. /\ \A p \in Replay(N1, "slave") : f = p /\ A["slave"] = "um.loop"
        /\ \A p \in Replay(N1, "master") : p \in Replay(N, "master")
    BY <1>4, <2>4, <2>5 DEF Replay, Hears, s
  <2>8. /\ N1["slave"].box.synchronized => Heard(N, W)
        /\ N1["master"].box.synchronized => N["master"].box.synchronized
        /\ N1["slave"].return \subseteq N["slave"].return
        /\ N1["slave"].pending => N["slave"].pending
    BY <1>2, <1>4, <2>4, <2>5 DEF Hears, Heard, Held, s
  <2>9. Fewer(N, W, A, N1, W1, A1)
    BY <1>2, <1>5, <1>7, <2>3, <2>6, <2>7, <2>8 DEF Fewer
  <2>10. Grows(N, N1)
    BY <1>1, <2>6, AlikeGrows
  <2> QED
    BY <1>4, <2>9, <2>10, FewerKeeps
<1>8. CASE f = Thunk /\ s.return # {}
  <2> DEFINE k == CHOOSE p \in s.return : TRUE
  <2>1. k \in s.return
    BY <1>8
  <2>2. k \in Packet /\ s.return = {k}
    BY <1>1, <2>1, StateIs DEF Types, s
  <2> HIDE DEF k
  <2>3. r.state = [s EXCEPT !.return = {}, !.buffer = Thunk] /\ r.frames = <<k>>
    <3>1. r = SendKept(s)
      BY <1>3, <1>8 DEF ProcessFrame
    <3> QED
      BY <3>1 DEF SendKept, Out, k
  <2>4. /\ r.state.box = s.box /\ r.state.pending = s.pending
        /\ r.state.return = {} /\ r.state.buffer = Thunk
    BY <1>1, <2>3 DEF State
  <2>5. /\ Elements(W1["master"]) = Elements(W["master"]) \cup {k}
        /\ \A p, q : Before(W1["master"], p, q) =>
              Before(W["master"], p, q) \/ (p \in Elements(W["master"]) /\ q = k)
    <3> DEFINE w == W["master"]
    <3>1. w \in Seq(Frame) /\ k \in Frame
      BY <1>1, <2>2, Tags DEF Types, Frame
    <3>2. W1["master"] = w \o <<k>>
      BY <1>4, <2>3 DEF Joined
    <3> HIDE DEF w
    <3>3. /\ Elements(w \o <<k>>) = Elements(w) \cup {k}
          /\ \A p, q : Before(w \o <<k>>, p, q) =>
                Before(w, p, q) \/ (p \in Elements(w) /\ q = k)
      BY <3>1, Adding
    <3> QED
      BY <3>2, <3>3 DEF w
  <2>6. SlaveSendsKept(N, W, N1, W1, A1, k)
    BY <1>4, <2>2, <2>4, <2>5 DEF SlaveSendsKept, s
  <2>7. Inv(N1, W1, A1, R)
    BY <1>4, <2>2, <2>6, SlaveSendsKeptKeeps
  <2>8. Alike(N, N1)
    BY <1>4, <2>4, Tags DEF Alike, s
  <2> QED
    BY <1>1, <2>7, <2>8, AlikeGrows
<1>9. CASE f = Thunk /\ s.return = {} /\ Due(s)
  <2> DEFINE g == Generated("slave", s)
             p == Polled("slave", s)
  <2>1. /\ g \in State /\ p \in Packet /\ g.pending = s.pending /\ g.return = s.return
        /\ g.buffer = p /\ g.box.contents = s.box.contents
        /\ g.box.synchronized = s.box.synchronized
        /\ g.box.callerChanged = s.box.callerChanged
        /\ IsValue(p) /\ p.dest = "master" /\ p.value = s.box.contents
    BY <1>1, GeneratedIs, Tags
  <2>2. r = SendFrame("slave", g, p)
    BY <1>3, <1>9 DEF ProcessFrame
  <2> HIDE DEF g, p
  <2>3. Fit("slave", g)
    BY <1>9, <2>1 DEF Fit
  <2>4. /\ r.state.pending = g.pending /\ r.state.buffer = g.buffer /\ r.state.box = g.box
        /\ r.frames = <<>> /\ r.state.return = {p}
    BY <2>1, <2>2, <2>3, Sending, Tags
  <2>5. ~s.box.synchronized
    BY <1>9 DEF Due, HasPendingChanges
  <2>6. SlaveSends(N, W, N1, W1, A1, p)
    BY <1>4, <2>1, <2>4, <2>5 DEF SlaveSends, s
  <2>7. Inv(N1, W1, A1, R)
    BY <1>4, <2>1, <2>6, SlaveSendsKeeps
  <2>8. Alike(N, N1)
    BY <1>4, <2>1, <2>4, Tags DEF Alike, s
  <2> QED
    BY <1>1, <2>7, <2>8, AlikeGrows
<1>10. CASE f = Thunk /\ s.return = {} /\ ~Due(s)
  <2>1. r.state = [s EXCEPT !.buffer = Cleared] /\ r.frames = <<>>
    BY <1>3, <1>10 DEF ProcessFrame, Out
  <2>2. /\ r.state.box = s.box /\ r.state.pending = s.pending
        /\ r.state.return = s.return /\ r.state.buffer = Cleared
    BY <1>1, <2>1 DEF State
  <2>3. Alike(N, N1)
    BY <1>4, <2>2, Tags DEF Alike, s
  <2>4. /\ \A p \in Replay(N1, "slave") : p = Cleared /\ A["slave"] = "um.loop"
        /\ \A p \in Replay(N1, "master") : p \in Replay(N, "master")
    BY <1>4, <2>2 DEF Replay, s
  <2>5. /\ N1["slave"].box.synchronized => Heard(N, W)
        /\ N1["master"].box.synchronized => N["master"].box.synchronized
        /\ N1["slave"].return \subseteq N["slave"].return
        /\ N1["slave"].pending => N["slave"].pending
    BY <1>4, <2>2 DEF Heard, s
  <2>6. Fewer(N, W, A, N1, W1, A1)
    BY <1>5, <2>1, <2>3, <2>4, <2>5, Empty DEF Fewer
  <2>7. Grows(N, N1)
    BY <1>1, <2>3, AlikeGrows
  <2> QED
    BY <1>4, <2>6, <2>7, FewerKeeps
<1> QED
  BY <1>6, <1>7, <1>8, <1>9, <1>10

-------------------------------------------------------------------------------
(* A node sends a deferred reply, or a packet of its own.                  *)

LEMMA Deferring ==
  ASSUME NEW n \in Node, NEW s, Fit(n, s)
  PROVE  LET r == SendDeferred(n, s)
         IN  /\ Possible(n, r) /\ r.state.box = s.box /\ ~r.state.pending
             /\ s.buffer \notin Packet => r.frames = <<>> /\ r.state.return = s.return
             /\ s.buffer \in Packet /\ n = "master" => r.frames = <<s.buffer, Thunk>>
             /\ s.buffer \in Packet /\ n = "slave" =>
                   r.frames = <<>> /\ r.state.return = {s.buffer}
<1> DEFINE r == SendDeferred(n, s)
           t == [s EXCEPT !.pending = FALSE]
<1>1. s \in State
  BY DEF Fit
<1>2. /\ t \in State /\ ~t.pending /\ t.box = s.box /\ t.return = s.return
  BY <1>1 DEF State
<1>3. r = IF s.buffer \in Packet THEN SendFrame(n, t, s.buffer) ELSE Out(t, <<>>)
  BY DEF SendDeferred
<1> HIDE DEF r, t
<1>4. Fit(n, t) /\ <<>> \in Seq(Frame)
  BY <1>2 DEF Fit
<1>5. CASE s.buffer \in Packet
  <2>1. r = SendFrame(n, t, s.buffer)
    BY <1>3, <1>5
  <2>2. /\ Possible(n, r) /\ r.state.pending = t.pending /\ r.state.box = t.box
        /\ n = "master" => r.frames = <<s.buffer, Thunk>>
        /\ n = "slave" => r.frames = <<>> /\ r.state.return = {s.buffer}
    BY <1>4, <1>5, <2>1, Sending
  <2> QED
    BY <1>2, <1>5, <2>2 DEF r
<1>6. CASE s.buffer \notin Packet
  <2>1. r.state = t /\ r.frames = <<>>
    BY <1>3, <1>6 DEF Out
  <2>2. Possible(n, r)
    BY <1>4, <2>1 DEF Possible
  <2> QED
    BY <1>2, <1>6, <2>1, <2>2 DEF r
<1> QED
  BY <1>5, <1>6

(* What sendNextPacket() can do: clear the buffer, push, or poll.          *)
LEMMA SendingNext ==
  ASSUME NEW n \in Node, NEW s, Fit(n, s), NEW r \in SendNext(n, s)
  PROVE  /\ Possible(n, r) /\ r.state.pending = s.pending
         /\ r.state.box.contents = s.box.contents
         /\ r.state.box.synchronized = s.box.synchronized
         /\ r.state.box.callerChanged = s.box.callerChanged
         /\ \/ r.frames = <<>> /\ r.state.return = s.return /\ r.state.buffer = Cleared
            \/ \E p \in Packet :
                  /\ n = "master" => r.frames = <<p, Thunk>>
                  /\ n = "slave" => r.frames = <<>> /\ r.state.return = {p}
                  /\ r.state.buffer = p
                  /\ \/ n = "master" /\ p = GeneralPoll
                     \/ /\ IsValue(p) /\ p.dest = Peer(n) /\ p.value = s.box.contents
                        /\ ~s.box.synchronized
<1>1. s \in State /\ <<>> \in Seq(Frame)
  BY DEF Fit
<1>2. CASE Due(s)
  <2> DEFINE g == Generated(n, s)
             p == Polled(n, s)
  <2>1. r = SendFrame(n, g, p)
    BY <1>2 DEF SendNext
  <2>2. /\ g \in State /\ p \in Packet /\ g.pending = s.pending /\ g.return = s.return
        /\ g.buffer = p /\ g.box.contents = s.box.contents
        /\ g.box.synchronized = s.box.synchronized
        /\ g.box.callerChanged = s.box.callerChanged
        /\ IsValue(p) /\ p.dest = Peer(n) /\ p.value = s.box.contents
    BY <1>1, GeneratedIs
  <2> HIDE DEF g, p
  <2>3. Fit(n, g)
    BY <2>2 DEF Fit
  <2>4. /\ Possible(n, r) /\ r.state.pending = g.pending /\ r.state.box = g.box
        /\ r.state.buffer = g.buffer
        /\ n = "master" => r.frames = <<p, Thunk>>
        /\ n = "slave" => r.frames = <<>> /\ r.state.return = {p}
    BY <2>1, <2>2, <2>3, Sending
  <2>5. ~s.box.synchronized
    BY <1>2 DEF Due, HasPendingChanges
  <2> QED
    BY <2>2, <2>4, <2>5
<1>3. CASE ~Due(s)
  <2> DEFINE g == [s EXCEPT !.buffer = GeneralPoll]
             c == [s EXCEPT !.buffer = Cleared]
  <2>1. r = Out(c, <<>>) \/ (n = "master" /\ r = SendFrame(n, g, GeneralPoll))
    BY <1>3 DEF SendNext
  <2>2. CASE r = Out(c, <<>>)
    <3>1. r.state = c /\ r.frames = <<>>
      BY <2>2 DEF Out
    <3>2. /\ c \in State /\ c.pending = s.pending /\ c.return = s.return /\ c.box = s.box
          /\ c.buffer = Cleared
      BY <1>1 DEF State
    <3> HIDE DEF c
    <3>3. Possible(n, r)
      BY <1>1, <3>1, <3>2 DEF Possible, Fit
    <3> QED
      BY <3>1, <3>2, <3>3
  <2>3. CASE n = "master" /\ r = SendFrame(n, g, GeneralPoll)
    <3>1. GeneralPoll \in Packet
      BY Tags DEF GeneralPoll, Packed, Packet
    <3>2. /\ g \in State /\ g.pending = s.pending /\ g.return = s.return /\ g.box = s.box
          /\ g.buffer = GeneralPoll
      BY <1>1, <3>1 DEF State
    <3> HIDE DEF g
    <3>3. Fit(n, g)
      BY <3>2 DEF Fit
    <3>4. /\ Possible(n, r) /\ r.state.pending = g.pending /\ r.state.box = g.box
          /\ r.state.buffer = g.buffer /\ r.frames = <<GeneralPoll, Thunk>>
      BY <2>3, <3>1, <3>3, Sending
    <3> QED
      BY <2>3, <3>1, <3>2, <3>4
  <2> QED
    BY <2>1, <2>2, <2>3
<1> QED
  BY <1>2, <1>3

(* Nothing is written, and nothing new is kept.                            *)
LEMMA Quiet ==
  ASSUME NEW N, NEW W, NEW A, NEW R, Inv(N, W, A, R), NEW n \in Node, NEW r,
         NEW N1, NEW W1, Moves(N, W, R, n, W[n], r, N1, W1), NEW A1,
         r.frames = <<>>, r.state.return = N[n].return, ~r.state.pending,
         r.state.box.contents = N[n].box.contents,
         r.state.box.synchronized = N[n].box.synchronized,
         r.state.box.callerChanged = N[n].box.callerChanged,
         N["slave"].pending /\ n = "master" => A1["slave"] = A["slave"]
  PROVE  Inv(N1, W1, A1, R) /\ Grows(N, N1)
<1> DEFINE s == N[n]
           t == r.state
<1>1. /\ t.return = s.return /\ ~t.pending /\ t.box.contents = s.box.contents
      /\ t.box.synchronized = s.box.synchronized /\ t.box.callerChanged = s.box.callerChanged
  OBVIOUS
<1> HIDE DEF s, t
<1>2. /\ Types(N1, W1, R) /\ N1[n] = t /\ N1[Peer(n)] = N[Peer(n)]
      /\ W1[n] = W[n] /\ W1[Peer(n)] = W[Peer(n)]
  BY Moving DEF t
<1>3. W1["master"] = W["master"] /\ W1["slave"] = W["slave"]
  BY <1>2, Tags
<1>4. Shorter(W, W1)
  BY <1>3, Tags DEF Shorter
<1>5. Alike(N, N1) /\ \A m \in Node : N1[m].box.synchronized => N[m].box.synchronized
  BY <1>1, <1>2, Tags DEF Alike, s
<1>6. \A m \in Node : /\ N1[m].return = N[m].return
                      /\ N1[m].pending => N[m].pending /\ N1[m] = N[m] /\ n # m
  BY <1>1, <1>2, Tags DEF s
<1>7. \A m \in Node : \A p \in Replay(N1, m) : p \in Replay(N, m)
  BY <1>6 DEF Replay
<1>8. N1["slave"].pending => N["slave"].pending /\ n = "master"
  BY <1>6, Tags
<1>9. Fewer(N, W, A, N1, W1, A1)
  BY <1>4, <1>5, <1>6, <1>7, <1>8, Tags DEF Fewer, Heard
<1>10. Inv(N1, W1, A1, R)
  BY <1>2, <1>9, FewerKeeps
<1>11. Grows(N, N1)
  BY <1>5, AlikeGrows DEF Inv
<1> QED
  BY <1>10, <1>11

LEMMA MasterWrites ==
  ASSUME NEW N, NEW W, NEW A, NEW R, Inv(N, W, A, R), NEW r, NEW p \in Packet,
         NEW N1, NEW W1, Moves(N, W, R, "master", W["master"], r, N1, W1),
         r.frames = <<p, Thunk>>, ~r.state.pending,
         r.state.box.contents = N["master"].box.contents,
         r.state.box.synchronized = N["master"].box.synchronized,
         r.state.box.callerChanged = N["master"].box.callerChanged,
         \/ p \in Replay(N, "master")
         \/ p = GeneralPoll
         \/ /\ IsValue(p) /\ p.dest = "slave" /\ p.value = N["master"].box.contents
            /\ ~N["master"].box.synchronized
  PROVE  Inv(N1, W1, A, R) /\ Grows(N, N1)
<1> DEFINE s == N["master"]
           t == r.state
<1>1. /\ ~t.pending /\ t.box.contents = s.box.contents
      /\ t.box.synchronized = s.box.synchronized /\ t.box.callerChanged = s.box.callerChanged
  OBVIOUS
<1> HIDE DEF s, t
<1>2. /\ Types(N1, W1, R) /\ N1["master"] = t /\ N1["slave"] = N["slave"]
      /\ W1["master"] = W["master"] /\ W1["slave"] = Joined(W["slave"], r.frames)
  BY Moving, Tags DEF t
<1>3. W1["slave"] = W["slave"] \o <<p, Thunk>>
  BY <1>2 DEF Joined
<1>4. MasterAdds(N, W, N1, W1, p)
  BY <1>1, <1>2, <1>3 DEF MasterAdds, s
<1>5. Inv(N1, W1, A, R)
  BY <1>2, <1>4, MasterAddsKeeps
<1>6. Alike(N, N1)
  BY <1>1, <1>2, Tags DEF Alike, s
<1>7. Grows(N, N1)
  BY <1>6, AlikeGrows DEF Inv
<1> QED
  BY <1>5, <1>7

LEMMA MasterReplies ==
  ASSUME NEW N, NEW W, NEW A, NEW R, Inv(N, W, A, R), N["master"].pending,
         NEW r, r = SendDeferred("master", N["master"]),
         NEW N1, NEW W1, Moves(N, W, R, "master", W["master"], r, N1, W1)
  PROVE  Inv(N1, W1, A, R) /\ Grows(N, N1)
<1> DEFINE s == N["master"]
<1>1. Fit("master", s)
  BY Tags DEF Inv, Types, Fit
<1>2. r = SendDeferred("master", s) /\ s.pending
  OBVIOUS
<1> HIDE DEF s
<1>3. /\ r.state.box = s.box /\ ~r.state.pending
      /\ s.buffer \notin Packet => r.frames = <<>> /\ r.state.return = s.return
      /\ s.buffer \in Packet => r.frames = <<s.buffer, Thunk>>
  BY <1>1, <1>2, Deferring, Tags
<1>4. CASE s.buffer \in Packet
  <2>1. s.buffer \in Replay(N, "master")
    BY <1>2 DEF Replay, s
  <2> QED
    BY <1>3, <1>4, <2>1, MasterWrites DEF s
<1>5. CASE s.buffer \notin Packet
  BY <1>3, <1>5, Quiet, Tags DEF s
<1> QED
  BY <1>4, <1>5

LEMMA SlaveReplies ==
  ASSUME NEW N, NEW W, NEW A, NEW R, Inv(N, W, A, R), N["slave"].pending,
         NEW r, r = SendDeferred("slave", N["slave"]),
         NEW N1, NEW W1, Moves(N, W, R, "slave", W["slave"], r, N1, W1), NEW A1
  PROVE  Inv(N1, W1, A1, R) /\ Grows(N, N1)
<1> DEFINE s == N["slave"]
<1>1. Fit("slave", s)
  BY Tags DEF Inv, Types, Fit
<1>2. r = SendDeferred("slave", s) /\ s.pending
  OBVIOUS
<1> HIDE DEF s
<1>3. /\ r.state.box = s.box /\ ~r.state.pending
      /\ s.buffer \notin Packet => r.frames = <<>> /\ r.state.return = s.return
      /\ s.buffer \in Packet => r.frames = <<>> /\ r.state.return = {s.buffer}
  BY <1>1, <1>2, Deferring, Tags
<1>4. CASE s.buffer \in Packet
  <2>1. /\ Types(N1, W1, R) /\ N1["slave"] = r.state /\ N1["master"] = N["master"]
        /\ W1["master"] = W["master"] /\ W1["slave"] = W["slave"]
    BY <1>3, <1>4, Moving, Tags
  <2>2. SlaveDefers(N, N1)
    BY <1>2, <1>3, <1>4, <2>1 DEF SlaveDefers, s
  <2>3. Types(N1, W, R) /\ W1 = W
    BY <2>1, Tags DEF Inv, Types
  <2>4. Inv(N1, W1, A1, R)
    BY <2>2, <2>3, SlaveDefersKeeps
  <2>5. Alike(N, N1)
    BY <1>3, <2>1, Tags DEF Alike, s
  <2>6. Grows(N, N1)
    BY <2>5, AlikeGrows DEF Inv
  <2> QED
    BY <2>4, <2>6
<1>5. CASE s.buffer \notin Packet
  BY <1>3, <1>5, Quiet, Tags DEF s
<1> QED
  BY <1>4, <1>5

LEMMA MasterSendsNext ==
  ASSUME NEW N, NEW W, NEW A, NEW R, Inv(N, W, A, R), ~N["master"].pending,
         NEW r \in SendNext("master", N["master"]),
         NEW N1, NEW W1, Moves(N, W, R, "master", W["master"], r, N1, W1)
  PROVE  Inv(N1, W1, A, R) /\ Grows(N, N1)
<1> DEFINE s == N["master"]
<1>1. Fit("master", s)
  BY Tags DEF Inv, Types, Fit
<1>2. r \in SendNext("master", s) /\ ~s.pending
  OBVIOUS
<1> HIDE DEF s
<1>3. /\ ~r.state.pending
      /\ r.state.box.contents = s.box.contents
      /\ r.state.box.synchronized = s.box.synchronized
      /\ r.state.box.callerChanged = s.box.callerChanged
      /\ \/ r.frames = <<>> /\ r.state.return = s.return
         \/ \E p \in Packet :
               /\ r.frames = <<p, Thunk>>
               /\ \/ p = GeneralPoll
                  \/ /\ IsValue(p) /\ p.dest = "slave" /\ p.value = s.box.contents
                     /\ ~s.box.synchronized
  BY <1>1, <1>2, SendingNext, Tags
<1>4. CASE r.frames = <<>> /\ r.state.return = s.return
  BY <1>3, <1>4, Quiet, Tags DEF s
<1>5. CASE \E p \in Packet :
              /\ r.frames = <<p, Thunk>>
              /\ \/ p = GeneralPoll
                 \/ /\ IsValue(p) /\ p.dest = "slave" /\ p.value = s.box.contents
                    /\ ~s.box.synchronized
  BY <1>3, <1>5, MasterWrites DEF s
<1> QED
  BY <1>3, <1>4, <1>5

LEMMA SlaveSendsNext ==
  ASSUME NEW N, NEW W, NEW A, NEW R, Inv(N, W, A, R), ~N["slave"].pending,
         NEW r \in SendNext("slave", N["slave"]),
         NEW N1, NEW W1, Moves(N, W, R, "slave", W["slave"], r, N1, W1), NEW A1
  PROVE  Inv(N1, W1, A1, R) /\ Grows(N, N1)
<1> DEFINE s == N["slave"]
<1>1. Fit("slave", s)
  BY Tags DEF Inv, Types, Fit
<1>2. r \in SendNext("slave", s) /\ ~s.pending
  OBVIOUS
<1> HIDE DEF s
<1>3. /\ r.state.pending = s.pending /\ r.frames = <<>>
      /\ r.state.box.contents = s.box.contents
      /\ r.state.box.synchronized = s.box.synchronized
      /\ r.state.box.callerChanged = s.box.callerChanged
      /\ \/ r.state.return = s.return
         \/ \E p \in Packet :
               /\ r.state.return = {p} /\ r.state.buffer = p
               /\ IsValue(p) /\ p.dest = "master" /\ p.value = s.box.contents
               /\ ~s.box.synchronized
  BY <1>1, <1>2, SendingNext, Tags
<1>4. CASE r.state.return = s.return
  BY <1>2, <1>3, <1>4, Quiet, Tags DEF s
<1>5. ASSUME NEW p \in Packet, r.state.return = {p}, r.state.buffer = p,
             IsValue(p), p.dest = "master", p.value = s.box.contents, ~s.box.synchronized
      PROVE  Inv(N1, W1, A1, R) /\ Grows(N, N1)
  <2>1. /\ Types(N1, W1, R) /\ N1["slave"] = r.state /\ N1["master"] = N["master"]
        /\ W1["master"] = W["master"] /\ W1["slave"] = W["slave"]
    BY <1>3, Moving, Tags
  <2>2. SlaveSends(N, W, N1, W1, A1, p)
    BY <1>2, <1>3, <1>5, <2>1 DEF SlaveSends, s
  <2>3. Inv(N1, W1, A1, R)
    BY <2>1, <2>2, SlaveSendsKeeps
  <2>4. Alike(N, N1)
    BY <1>3, <2>1, Tags DEF Alike, s
  <2>5. Grows(N, N1)
    BY <2>4, AlikeGrows DEF Inv
  <2> QED
    BY <2>3, <2>5
<1> QED
  BY <1>3, <1>4, <1>5

-------------------------------------------------------------------------------
(* The actions.                                                            *)

(* n takes the next frame, or none.                                        *)
TakenFrom(N, W, n, took) ==
  IF took THEN ProcessFrame(n, N[n], First(W[n])) ELSE Out(N[n], <<>>)

Left(W, n, took) == IF took THEN Rest(W[n]) ELSE W[n]

(* The reply that n keeps is not disturbed before it is sent.              *)
MayTake(N, A, n, A1) ==
  /\ n = "master" => A1["slave"] = A["slave"]
  /\ n = "slave" /\ N["slave"].pending => A["slave"] = "um.loop" /\ A1["slave"] # "um.loop"

LEMMA TakenIsPossible ==
  ASSUME NEW N, NEW W, NEW A, NEW R, Inv(N, W, A, R), NEW n \in Node, NEW took,
         took => W[n] # <<>>
  PROVE  Possible(n, TakenFrom(N, W, n, took))
<1> DEFINE s == N[n]
           w == W[n]
<1>1. Fit(n, s) /\ w \in Seq(Frame) /\ <<>> \in Seq(Frame)
  BY Tags DEF Inv, Types, Fit, Frame
<1>2. n = "master" => Elements(w) \subseteq Packet
  BY DEF Inv, Shapes
<1>3. TakenFrom(N, W, n, took) = IF took THEN ProcessFrame(n, s, First(w)) ELSE Out(s, <<>>)
  BY DEF TakenFrom
<1> HIDE DEF s, w
<1>4. CASE took
  <2>1. First(w) \in Frame /\ First(w) \in Elements(w)
    BY <1>1, <1>4, Taking DEF First, w
  <2>2. n = "master" => First(w) # Thunk
    BY <1>2, <2>1, PacketIs
  <2> QED
    BY <1>1, <1>3, <1>4, <2>1, <2>2, Processed
<1>5. CASE ~took
  BY <1>1, <1>3, <1>5 DEF Possible, Out
<1> QED
  BY <1>4, <1>5

LEMMA NodeTakes ==
  ASSUME NEW N, NEW W, NEW A, NEW R, Inv(N, W, A, R), NEW n \in Node, NEW took,
         took => W[n] # <<>>, NEW A1, MayTake(N, A, n, A1),
         NEW r, r = TakenFrom(N, W, n, took),
         NEW N1, NEW W1, Moves(N, W, R, n, Left(W, n, took), r, N1, W1)
  PROVE  Inv(N1, W1, A1, R) /\ Grows(N, N1)
<1>1. CASE took /\ n = "master"
  <2>1. /\ r = ProcessFrame("master", N["master"], First(W["master"]))
        /\ Moves(N, W, R, "master", Rest(W["master"]), r, N1, W1)
        /\ W["master"] # <<>> /\ A1["slave"] = A["slave"]
    BY <1>1 DEF TakenFrom, Left, MayTake
  <2> HIDE DEF TakenFrom
  <2>2. Inv(N1, W1, A, R) /\ Grows(N, N1)
    BY <2>1, MasterTakes
  <2> QED
    BY <2>1, <2>2, PlaceMoves
<1>2. CASE took /\ n = "slave"
  <2>1. /\ r = ProcessFrame("slave", N["slave"], First(W["slave"]))
        /\ Moves(N, W, R, "slave", Rest(W["slave"]), r, N1, W1)
        /\ W["slave"] # <<>>
        /\ N["slave"].pending => A["slave"] = "um.loop" /\ A1["slave"] # "um.loop"
    BY <1>2 DEF TakenFrom, Left, MayTake
  <2> QED
    BY <2>1, SlaveTakes
<1>3. CASE ~took
  <2>1. r.state = N[n] /\ r.frames = <<>> /\ Left(W, n, took) = W[n]
    BY <1>3 DEF TakenFrom, Out, Left
  <2>2. /\ Types(N1, W1, R) /\ N1[n] = N[n] /\ N1[Peer(n)] = N[Peer(n)]
        /\ W1[n] = W[n] /\ W1[Peer(n)] = W[Peer(n)]
    BY <2>1, Moving
  <2>3. N1 = N /\ W1 = W
    BY <2>2, Tags DEF Types, Inv
  <2>4. N["slave"].pending /\ A1["slave"] = "um.loop" => A["slave"] = "um.loop"
    BY Tags DEF MayTake
  <2>5. Alike(N, N)
    BY DEF Alike
  <2> QED
    BY <2>3, <2>4, <2>5, PlaceMoves, AlikeGrows DEF Inv
<1> QED
  BY <1>1, <1>2, <1>3, Tags

(* A step of the program is a step of its streams and states.              *)
LEMMA BecomesMoves ==
  ASSUME Types(node, wire, raised), NEW n \in Node, NEW took \in BOOLEAN,
         took => wire[n] # <<>>, NEW r, Possible(n, r), Becomes(n, took, r)
  PROVE  /\ Moves(node, wire, raised, n, Left(wire, n, took), r, node', wire')
         /\ raised' = raised
         /\ Len(wire[Peer(n)]) + Len(r.frames) <= MaxWire
<1>1. wire' = [wire EXCEPT ![n] = Left(wire, n, took), ![Peer(n)] = Joined(@, r.frames)]
  <2>1. CASE took
    BY <2>1 DEF Becomes, Left, Rest, Joined
  <2>2. CASE ~took
    BY <2>2 DEF Becomes, Left, Joined
  <2> QED
    BY <2>1, <2>2
<1>2. Left(wire, n, took) = wire[n]
      \/ (wire[n] # <<>> /\ Left(wire, n, took) = Rest(wire[n]))
  BY DEF Left
<1> HIDE DEF Left
<1> QED
  BY <1>1, <1>2 DEF Becomes, Moves

LEMMA TakenIs ==
  ASSUME NEW n, NEW took \in BOOLEAN
  PROVE  Taken(n, took) = TakenFrom(node, wire, n, took)
BY DEF Taken, TakenFrom, First

LEMMA JoinedTwice ==
  ASSUME NEW X, NEW s \in Seq(X), NEW t \in Seq(X), NEW u \in Seq(X)
  PROVE  Joined(Joined(s, t), u) = Joined(s, Joined(t, u))
BY Z3, ConcatAssociative DEF Joined

(* A frame is taken, and then a packet is sent.                            *)
LEMMA BecomesMovesTwice ==
  ASSUME Types(node, wire, raised), NEW n \in Node, NEW took \in BOOLEAN,
         took => wire[n] # <<>>, NEW r, Possible(n, r), NEW q, Possible(n, q),
         Becomes(n, took, Out(q.state, r.frames \o q.frames))
  PROVE  /\ raised' = raised
         /\ Possible(n, Out(q.state, r.frames \o q.frames))
         /\ \E N1, W1 : /\ Moves(node, wire, raised, n, Left(wire, n, took), r, N1, W1)
                        /\ Moves(N1, W1, raised, n, W1[n], q, node', wire')
<1> DEFINE both == Out(q.state, r.frames \o q.frames)
           N1 == [node EXCEPT ![n] = r.state]
           W1 == [wire EXCEPT ![n] = Left(wire, n, took), ![Peer(n)] = Joined(@, r.frames)]
<1>1. /\ both.state = q.state /\ both.frames = r.frames \o q.frames
      /\ r.frames \in Seq(Frame) /\ q.frames \in Seq(Frame)
  BY DEF Out, Possible
<1>2. r.frames \o q.frames \in Seq(Frame)
  BY <1>1
<1>3. Possible(n, both)
  BY <1>1, <1>2 DEF Possible
<1> HIDE DEF both
<1>4. Moves(node, wire, raised, n, Left(wire, n, took), both, node', wire')
      /\ raised' = raised /\ Len(wire[Peer(n)]) + Len(both.frames) <= MaxWire
  BY <1>3, BecomesMoves DEF both
<1>5. Left(wire, n, took) = wire[n]
      \/ (wire[n] # <<>> /\ Left(wire, n, took) = Rest(wire[n]))
  BY DEF Left
<1> HIDE DEF Left
<1>6. Moves(node, wire, raised, n, Left(wire, n, took), r, N1, W1)
  BY <1>5 DEF Moves
<1>7. /\ N1 \in [Node -> State] /\ W1 \in [Node -> Seq(Frame)] /\ Types(N1, W1, raised)
      /\ W1[n] = Left(wire, n, took) /\ W1[Peer(n)] = Joined(wire[Peer(n)], r.frames)
  <2> HIDE DEF N1, W1
  <2> QED
    BY <1>6, Moving DEF Types, Frame
<1>8. node' = [N1 EXCEPT ![n] = q.state]
  BY <1>1, <1>4, Tags DEF Moves, Types
<1>9. /\ wire' \in [Node -> Seq(Frame)] /\ wire'[n] = Left(wire, n, took)
      /\ wire'[Peer(n)] = Joined(wire[Peer(n)], both.frames)
  BY <1>4, Moving DEF Types, Frame
<1>10. Joined(wire[Peer(n)], both.frames) = Joined(W1[Peer(n)], q.frames)
  <2>1. wire[Peer(n)] \in Seq(Frame) /\ both.frames = Joined(r.frames, q.frames)
    BY <1>1, Tags DEF Types, Frame, Joined
  <2> HIDE DEF W1
  <2> QED
    BY <1>1, <1>7, <2>1, JoinedTwice
<1>11. wire' = [W1 EXCEPT ![n] = W1[n], ![Peer(n)] = Joined(@, q.frames)]
  <2> HIDE DEF W1, Joined
  <2>1. n # Peer(n) /\ Peer(n) \in Node /\ Node = {n, Peer(n)}
    BY Tags
  <2> DEFINE V == [W1 EXCEPT ![n] = W1[n], ![Peer(n)] = Joined(@, q.frames)]
  <2>2. /\ DOMAIN V = Node /\ V = [x \in Node |-> V[x]]
        /\ V[n] = W1[n] /\ V[Peer(n)] = Joined(W1[Peer(n)], q.frames)
    BY <1>7, <2>1
  <2>3. wire' = [x \in Node |-> wire'[x]]
    BY <1>9
  <2> HIDE DEF V
  <2>4. \A x \in Node : wire'[x] = V[x]
    BY <1>7, <1>9, <1>10, <2>1, <2>2
  <2>5. wire' = V
    BY <2>2, <2>3, <2>4
  <2> QED
    BY <2>5 DEF V
<1>12. Moves(N1, W1, raised, n, W1[n], q, node', wire')
  <2> HIDE DEF N1, W1
  <2> QED
    BY <1>7, <1>8, <1>11 DEF Moves
<1> QED
  <2> HIDE DEF N1, W1
  <2> QED
    BY <1>3, <1>4, <1>6, <1>12 DEF both

(* Where the main loops are, and how much a stream holds.                  *)
Bounds == /\ at \in [Node -> {"um.loop", "Makernet.loop"}]
          /\ \A n \in Node : Len(wire[n]) <= MaxWire

LEMMA StreamsAreBounded ==
  ASSUME Types(node, wire, raised), Bounds, NEW n \in Node, NEW took \in BOOLEAN,
         took => wire[n] # <<>>, NEW r, Possible(n, r), Becomes(n, took, r)
  PROVE  \A m \in Node : Len(wire'[m]) <= MaxWire
<1>1. /\ Moves(node, wire, raised, n, Left(wire, n, took), r, node', wire')
      /\ Len(wire[Peer(n)]) + Len(r.frames) <= MaxWire
  BY BecomesMoves
<1>2. /\ Len(wire'[n]) <= Len(wire[n]) /\ wire' \in [Node -> Seq(Frame)]
      /\ wire'[Peer(n)] = Joined(wire[Peer(n)], r.frames)
  BY <1>1, Moving DEF Types, Frame
<1>3. /\ wire[Peer(n)] \in Seq(Frame) /\ r.frames \in Seq(Frame)
      /\ Len(wire[n]) \in Nat /\ Len(wire'[n]) \in Nat /\ Len(wire[n]) <= MaxWire
      /\ MaxWire \in Nat
  BY <1>2, WireAssumption, Tags DEF Types, Frame, Possible, Bounds
<1>4. Len(wire'[Peer(n)]) = Len(wire[Peer(n)]) + Len(r.frames)
  <2> DEFINE s == wire[Peer(n)]
             t == r.frames
  <2>1. s \in Seq(Frame) /\ t \in Seq(Frame)
    BY <1>3
  <2> HIDE DEF s, t
  <2>2. Len(s \o t) = Len(s) + Len(t)
    BY <2>1
  <2> QED
    BY <1>2, <2>2 DEF Joined, s, t
<1>5. Len(wire'[n]) <= MaxWire
  BY <1>2, <1>3
<1>6. Len(wire'[Peer(n)]) <= MaxWire
  BY <1>1, <1>4
<1> QED
  BY <1>5, <1>6, Tags

(* What every step has to show.                                            *)
Advances == LinkInv' /\ Bounds' /\ Grows(node, node')

LEMMA DatalinkAdvances ==
  ASSUME LinkInv, Bounds, NEW n \in Node, Datalink(n)
  PROVE  Advances
<1>1. PICK took \in {FALSE, wire[n] # <<>>} : Becomes(n, took, Taken(n, took))
  BY DEF Datalink
<1>2. took \in BOOLEAN /\ (took => wire[n] # <<>>)
  BY <1>1
<1> DEFINE r == TakenFrom(node, wire, n, took)
<1>3. Becomes(n, took, r)
  BY <1>1, <1>2, TakenIs
<1>4. Inv(node, wire, at, raised) /\ Types(node, wire, raised)
  BY DEF LinkInv, Inv
<1>5. Possible(n, r)
  BY <1>2, <1>4, TakenIsPossible
<1>6. /\ at' = [at EXCEPT ![n] = "Makernet.loop"] /\ at[n] = "um.loop"
      /\ at \in [Node -> {"um.loop", "Makernet.loop"}]
  BY DEF Datalink, Bounds
<1>7. MayTake(node, at, n, at')
  BY <1>6, Tags DEF MayTake
<1> HIDE DEF r
<1>8. Moves(node, wire, raised, n, Left(wire, n, took), r, node', wire') /\ raised' = raised
  BY <1>2, <1>3, <1>4, <1>5, BecomesMoves
<1>9. Inv(node', wire', at', raised) /\ Grows(node, node')
  BY <1>2, <1>4, <1>7, <1>8, NodeTakes DEF r
<1>10. Bounds'
  BY <1>2, <1>3, <1>4, <1>5, <1>6, StreamsAreBounded DEF Bounds
<1> QED
  BY <1>8, <1>9, <1>10 DEF Advances, LinkInv

LEMMA DeferredReplyAdvances ==
  ASSUME LinkInv, Bounds, NEW n \in Node, DeferredReply(n)
  PROVE  Advances
<1> DEFINE r == SendDeferred(n, node[n])
<1>1. Inv(node, wire, at, raised) /\ Types(node, wire, raised)
  BY DEF LinkInv, Inv
<1>2. Fit(n, node[n])
  BY <1>1, Tags DEF Types, Fit
<1>3. Possible(n, r)
  BY <1>2, Deferring
<1>4. Becomes(n, FALSE, r) /\ node[n].pending
  BY DEF DeferredReply
<1>5. /\ at' = [at EXCEPT ![n] = "um.loop"] /\ at \in [Node -> {"um.loop", "Makernet.loop"}]
      /\ at[n] = "Makernet.loop"
  BY DEF DeferredReply, Bounds
<1> HIDE DEF r
<1>6. Moves(node, wire, raised, n, wire[n], r, node', wire') /\ raised' = raised
  <2>1. Left(wire, n, FALSE) = wire[n]
    BY DEF Left
  <2> QED
    BY <1>1, <1>3, <1>4, <2>1, BecomesMoves
<1>7. Bounds'
  BY <1>1, <1>3, <1>4, <1>5, StreamsAreBounded DEF Bounds
<1>8. CASE n = "master"
  <2>1. Inv(node', wire', at, raised) /\ Grows(node, node')
    BY <1>1, <1>4, <1>6, <1>8, MasterReplies DEF r
  <2>2. at'["slave"] = at["slave"]
    BY <1>5, <1>8, Tags
  <2>3. Inv(node', wire', at', raised)
    BY <2>1, <2>2, PlaceMoves
  <2> QED
    BY <1>6, <1>7, <2>1, <2>3 DEF Advances, LinkInv
<1>9. CASE n = "slave"
  <2>1. Inv(node', wire', at', raised) /\ Grows(node, node')
    BY <1>1, <1>4, <1>6, <1>9, SlaveReplies DEF r
  <2> QED
    BY <1>6, <1>7, <2>1 DEF Advances, LinkInv
<1> QED
  BY <1>8, <1>9, Tags

LEMMA NetworkAdvances ==
  ASSUME LinkInv, Bounds, NEW n \in Node, Network(n)
  PROVE  Advances
<1>1. PICK took \in {FALSE, wire[n] # <<>>} :
        LET r == Taken(n, took)
        IN  \/ r.state.pending /\ Becomes(n, took, r)
            \/ /\ ~r.state.pending
               /\ \E q \in SendNext(n, r.state) :
                     Becomes(n, took, Out(q.state, r.frames \o q.frames))
  BY DEF Network
<1>2. took \in BOOLEAN /\ (took => wire[n] # <<>>)
  BY <1>1
<1> DEFINE r == TakenFrom(node, wire, n, took)
<1>3. \/ r.state.pending /\ Becomes(n, took, r)
      \/ /\ ~r.state.pending
         /\ \E q \in SendNext(n, r.state) :
               Becomes(n, took, Out(q.state, r.frames \o q.frames))
  BY <1>1, <1>2, TakenIs
<1>4. Inv(node, wire, at, raised) /\ Types(node, wire, raised)
  BY DEF LinkInv, Inv
<1>5. Possible(n, r)
  BY <1>2, <1>4, TakenIsPossible
<1>6. /\ at' = [at EXCEPT ![n] = "um.loop"] /\ at \in [Node -> {"um.loop", "Makernet.loop"}]
      /\ ~node[n].pending
  BY DEF Network, Bounds
<1>7. n = "master" => at'["slave"] = at["slave"]
  BY <1>6, Tags
<1>8. MayTake(node, at, n, at')
  BY <1>6, <1>7, Tags DEF MayTake
<1> HIDE DEF r
<1>9. CASE r.state.pending /\ Becomes(n, took, r)
  <2>1. Moves(node, wire, raised, n, Left(wire, n, took), r, node', wire') /\ raised' = raised
    BY <1>2, <1>4, <1>5, <1>9, BecomesMoves
  <2>2. Inv(node', wire', at', raised) /\ Grows(node, node')
    BY <1>2, <1>4, <1>8, <2>1, NodeTakes DEF r
  <2>3. Bounds'
    BY <1>2, <1>4, <1>5, <1>6, <1>9, StreamsAreBounded DEF Bounds
  <2> QED
    BY <2>1, <2>2, <2>3 DEF Advances, LinkInv
<1>10. ASSUME ~r.state.pending, NEW q \in SendNext(n, r.state),
              Becomes(n, took, Out(q.state, r.frames \o q.frames))
       PROVE  Advances
  <2> DEFINE both == Out(q.state, r.frames \o q.frames)
  <2>1. Fit(n, r.state)
    BY <1>5 DEF Possible
  <2>2. Possible(n, q) /\ q.state.box.contents = r.state.box.contents
    BY <1>10, <2>1, SendingNext
  <2>3. /\ raised' = raised /\ Possible(n, both)
        /\ \E N1, W1 : /\ Moves(node, wire, raised, n, Left(wire, n, took), r, N1, W1)
                       /\ Moves(N1, W1, raised, n, W1[n], q, node', wire')
    BY <1>2, <1>4, <1>5, <1>10, <2>2, BecomesMovesTwice
  <2>4. PICK N1, W1 : /\ Moves(node, wire, raised, n, Left(wire, n, took), r, N1, W1)
                      /\ Moves(N1, W1, raised, n, W1[n], q, node', wire')
    BY <2>3
  <2>5. Bounds'
    <3>1. Becomes(n, took, both)
      BY <1>10
    <3> HIDE DEF both
    <3> QED
      BY <1>2, <1>4, <1>6, <2>3, <3>1, StreamsAreBounded DEF Bounds
  <2> HIDE DEF both
  <2>6. Inv(N1, W1, at', raised) /\ Grows(node, N1)
    BY <1>2, <1>4, <1>8, <2>4, NodeTakes DEF r
  <2>7. N1[n] = r.state
    BY <2>4, Moving
  <2>8. ~N1[n].pending /\ q \in SendNext(n, N1[n])
    BY <1>10, <2>7
  <2>9. Inv(node', wire', at', raised)
    <3>1. CASE n = "master"
      BY <2>4, <2>6, <2>8, <3>1, MasterSendsNext
    <3>2. CASE n = "slave"
      BY <2>4, <2>6, <2>8, <3>2, SlaveSendsNext
    <3> QED
      BY <3>1, <3>2, Tags
  <2>10. Grows(node, node')
    <3>1. node'[n] = q.state /\ node'[Peer(n)] = N1[Peer(n)]
      BY <2>4, Moving
    <3>2. \A m \in Node : node'[m].box.contents = N1[m].box.contents
      BY <2>2, <2>7, <3>1, Tags
    <3> QED
      BY <2>6, <3>2 DEF Grows
  <2> QED
    BY <2>3, <2>5, <2>9, <2>10 DEF Advances, LinkInv
<1> QED
  BY <1>3, <1>9, <1>10

LEMMA ElapseAdvances ==
  ASSUME LinkInv, Bounds, NEW n \in Node, Elapse(n)
  PROVE  Advances
<1>1. Inv(node, wire, at, raised) /\ Types(node, wire, raised)
  BY DEF LinkInv, Inv
<1>2. node' = [node EXCEPT ![n].box.waiting = FALSE] /\ wire' = wire /\ at' = at /\ raised' = raised
  BY DEF Elapse
<1>3. /\ node' \in [Node -> State]
      /\ \A m \in Node : /\ node'[m].return = node[m].return
                          /\ node'[m].pending = node[m].pending
                          /\ node'[m].buffer = node[m].buffer
                          /\ node'[m].box.contents = node[m].box.contents
                          /\ node'[m].box.synchronized = node[m].box.synchronized
                          /\ node'[m].box.callerChanged = node[m].box.callerChanged
  <2> DEFINE b == node[n].box
             c == [b EXCEPT !.waiting = FALSE]
             s == [node[n] EXCEPT !.box = c]
  <2>1. node[n] \in State /\ b \in Mailbox
    BY <1>1 DEF Types, State
  <2>2. /\ c \in Mailbox /\ c.contents = b.contents /\ c.synchronized = b.synchronized
        /\ c.callerChanged = b.callerChanged
    BY <2>1 DEF Mailbox
  <2>3. node' = [node EXCEPT ![n] = s]
    BY <1>2
  <2> HIDE DEF c
  <2>4. /\ s \in State /\ s.box = c /\ s.return = node[n].return
        /\ s.pending = node[n].pending /\ s.buffer = node[n].buffer
    BY <2>1, <2>2 DEF State
  <2> HIDE DEF s
  <2>5. node' \in [Node -> State] /\ node'[n] = s /\ node'[Peer(n)] = node[Peer(n)]
    BY <1>1, <2>3, <2>4, Tags DEF Types
  <2> QED
    BY <2>2, <2>4, <2>5, Tags
<1>4. Types(node', wire, raised)
  BY <1>1, <1>3, Tags DEF Types
<1>5. Alike(node, node')
  BY <1>3 DEF Alike
<1>6. \A m \in Node : Replay(node', m) = Replay(node, m)
  BY <1>3 DEF Replay
<1>7. Fewer(node, wire, at, node', wire, at)
  BY <1>3, <1>5, <1>6, Tags DEF Fewer, Shorter, Heard
<1>8. Inv(node', wire, at, raised)
  BY <1>1, <1>4, <1>7, FewerKeeps
<1>9. Grows(node, node')
  BY <1>1, <1>5, AlikeGrows
<1> QED
  BY <1>2, <1>8, <1>9 DEF Advances, LinkInv, Bounds

LEMMA SetAdvances ==
  ASSUME LinkInv, Bounds, NEW n \in Node, NEW v \in Value, Set(n, v)
  PROVE  Advances
<1>1. Inv(node, wire, at, raised) /\ Types(node, wire, raised)
  BY DEF LinkInv, Inv
<1>2. /\ node' = [node EXCEPT ![n].box = SetLong(@, v)] /\ wire' = wire /\ at' = at
      /\ raised' = [raised EXCEPT ![n] = @ \cup {v}] /\ Fresh(v)
  BY DEF Set
<1>3. \A u \in Known(raised) : u < v
  BY <1>2, Tags DEF Known, Fresh
<1> DEFINE m == SetLong(node[n].box, v)
<1>4. /\ m \in Mailbox /\ m.contents = v /\ ~m.synchronized /\ m.callerChanged
  BY <1>1 DEF SetLong, Types, State, Mailbox
<1>5. /\ node' \in [Node -> State] /\ node'[n] = [node[n] EXCEPT !.box = m]
      /\ node'[Peer(n)] = node[Peer(n)]
      /\ raised' \in [Node -> SUBSET Value] /\ raised'[n] = raised[n] \cup {v}
      /\ raised'[Peer(n)] = raised[Peer(n)]
  <2>1. node' = [node EXCEPT ![n].box = m]
    BY <1>2
  <2> HIDE DEF m
  <2> QED
    BY <1>1, <1>2, <1>4, <2>1, Tags DEF Types, State
<1> HIDE DEF m
<1>6. /\ node'[n].return = node[n].return /\ node'[n].pending = node[n].pending
      /\ node'[n].buffer = node[n].buffer /\ node'[n].box = m
  BY <1>1, <1>5 DEF Types, State
<1>7. Types(node', wire, raised')
  BY <1>1, <1>5, <1>6, Tags DEF Types
<1>8. Inv(node', wire, at, raised') /\ Grows(node, node')
  <2>1. CASE n = "master"
    <3>1. MasterSets(node, raised, node', raised', v)
      BY <1>3, <1>4, <1>5, <1>6, <2>1, Tags DEF MasterSets
    <3> QED
      BY <1>1, <1>7, <3>1, MasterSetsKeeps
  <2>2. CASE n = "slave"
    <3>1. SlaveSets(node, raised, node', raised', v)
      BY <1>3, <1>4, <1>5, <1>6, <2>2, Tags DEF SlaveSets
    <3> QED
      BY <1>1, <1>7, <3>1, SlaveSetsKeeps
  <2> QED
    BY <2>1, <2>2, Tags
<1> QED
  BY <1>2, <1>8 DEF Advances, LinkInv, Bounds

LEMMA StutterAdvances ==
  ASSUME LinkInv, Bounds, UNCHANGED vars
  PROVE  Advances
<1>1. Types(node, wire, raised) /\ Alike(node, node)
  BY DEF LinkInv, Inv, Alike
<1>2. Grows(node, node)
  BY <1>1, AlikeGrows
<1> QED
  BY <1>2 DEF Advances, vars, LinkInv, Bounds

LEMMA NextAdvances == LinkInv /\ Bounds /\ [Next]_vars => Advances
<1> SUFFICES ASSUME LinkInv, Bounds, [Next]_vars PROVE Advances
  OBVIOUS
<1>1. ASSUME NEW n \in Node, Loop(n) PROVE Advances
  BY <1>1, DatalinkAdvances, DeferredReplyAdvances, NetworkAdvances DEF Loop
<1>2. ASSUME NEW n \in Node, Elapse(n) PROVE Advances
  BY <1>2, ElapseAdvances
<1>3. ASSUME NEW n \in Node, NEW v \in Value, Set(n, v) PROVE Advances
  BY <1>3, SetAdvances
<1> QED
  BY <1>1, <1>2, <1>3, StutterAdvances DEF Next

LEMMA InitHolds == Init => LinkInv /\ Bounds
<1> SUFFICES ASSUME Init PROVE LinkInv /\ Bounds
  OBVIOUS
<1> USE DEF Init
<1>1. /\ \A n \in Node : /\ node[n].box = NewMailbox /\ ~node[n].pending
                          /\ node[n].buffer = Cleared /\ node[n].return = {}
                          /\ wire[n] = <<>> /\ raised[n] = {} /\ at[n] = "um.loop"
      /\ NewMailbox \in Mailbox /\ NewMailbox.contents = Zero /\ NewMailbox.synchronized
      /\ ~NewMailbox.callerChanged
  BY Tags DEF NewMailbox, Mailbox
<1>2. node \in [Node -> State] /\ wire \in [Node -> Seq(Packet \cup {Thunk})]
      /\ raised \in [Node -> SUBSET Value] /\ at \in [Node -> {"um.loop", "Makernet.loop"}]
  BY <1>1 DEF State
<1>3. Types(node, wire, raised)
  BY <1>1, <1>2, Tags DEF Types
<1>4. /\ Elements(<<>>) = {}
      /\ \A p, q : ~Before(<<>>, p, q)
      /\ Len(<<>>) = 0
  BY DEF Elements, Before
<1>5. Replay(node, "slave") = {} /\ Replay(node, "master") = {}
  BY <1>1, Tags DEF Replay
<1>6. Up(node, wire) = {} /\ Down(node, wire) = {}
  BY <1>1, <1>4, <1>5, Tags DEF Up, Down
<1>7. Held(node) = Zero /\ Kept(node) = Zero /\ ~Own(node) /\ Zero \in Nat
  BY <1>1, Tags DEF Held, Kept, Own
<1> HIDE DEF Init
<1>8. Shapes(node, wire) /\ Knowns(node, wire, raised) /\ Flags(node, raised)
  BY <1>1, <1>4, <1>5, <1>6, <1>7, Tags DEF Shapes, Knowns, Flags, Known
<1>9. Upwards(node, wire, raised) /\ Downwards(node, wire) /\ Line(node, wire)
  BY <1>1, <1>4, <1>6, <1>7, Tags DEF Upwards, Downwards, Line
<1>10. AfterHeard(node, wire, raised) /\ Unsent(node, wire, at) /\ AfterAcked(node, wire, raised)
  BY <1>1, <1>7, Tags DEF AfterHeard, Unsent, AfterAcked
<1>11. Bounds
  BY <1>1, <1>2, <1>4, WireAssumption DEF Bounds
<1> QED
  BY <1>3, <1>8, <1>9, <1>10, <1>11 DEF LinkInv, Inv

(* The invariant holds after any number of steps of the two programs.      *)
THEOREM LinkInvariant == Spec => [](LinkInv /\ Bounds)
<1>1. Init => LinkInv /\ Bounds
  BY InitHolds
<1>2. LinkInv /\ Bounds /\ [Next]_vars => LinkInv' /\ Bounds'
  BY NextAdvances DEF Advances
<1> QED
  BY <1>1, <1>2, PTL DEF Spec

-------------------------------------------------------------------------------
(* The properties.                                                         *)

(* The frame buffers, the one return buffer of the device, the streams and *)
(* the flags of both mailboxes only hold what the code can put there.      *)
THEOREM LinkTypeCorrect == Spec => []TypeOK
<1>1. LinkInv /\ Bounds => TypeOK
  <2> SUFFICES ASSUME LinkInv, Bounds PROVE TypeOK
    OBVIOUS
  <2>1. Types(node, wire, raised)
    BY DEF LinkInv, Inv
  <2>2. \A n \in Node : \A k \in 1..Len(wire[n]) : wire[n][k] \in Packet \cup {Thunk}
    BY <2>1 DEF Types
  <2>3. \A n \in Node : \A p, q \in node[n].return : p = q
    BY <2>1, Tags DEF Types
  <2> QED
    BY <2>1, <2>2, <2>3 DEF TypeOK, Types, Bounds
<1> QED
  BY <1>1, LinkInvariant, PTL

(* Nothing left to push at either end means one value at both: the device  *)
(* overwrites the reply it keeps for the next thunk, and both ends may     *)
(* send as their deferred reply whatever has come into the frame buffer,   *)
(* but an acknowledgement that is lost or astray leaves its sender's value *)
(* to be pushed again.                                                     *)
THEOREM BothHoldOneValue == Spec => []InSync
<1>1. LinkInv => InSync
  <2> SUFFICES ASSUME LinkInv, \A n \in Node : node[n].box.synchronized
               PROVE  Kept(node) = Held(node)
    BY DEF InSync, Kept, Held
  <2>1. Heard(node, wire) /\ Acked(node, wire)
    BY Tags DEF Heard, Acked
  <2>2. AfterHeard(node, wire, raised) /\ AfterAcked(node, wire, raised)
        /\ Upwards(node, wire, raised)
    BY DEF LinkInv, Inv
  <2>3. CASE Own(node)
    BY <2>1, <2>2, <2>3, Tags DEF AfterHeard
  <2>4. CASE ~Own(node) /\ raised["master"] = {}
    BY <2>2, <2>4 DEF Upwards
  <2>5. CASE ~Own(node) /\ raised["master"] # {}
    BY <2>1, <2>2, <2>5 DEF AfterAcked
  <2> QED
    BY <2>3, <2>4, <2>5
<1> QED
  BY <1>1, LinkInvariant, PTL

(* A value that came over the wire is never replaced by an older one,      *)
(* whatever waits in the streams, in the return buffer and in the frame    *)
(* buffers while newer values are set.                                     *)
THEOREM NothingComesBack == Spec => NeverBack
<1>1. LinkInv /\ Bounds /\ [Next]_vars =>
        [\A n \in Node : ~node[n].box.callerChanged
           => node[n].box.contents <= node'[n].box.contents]_vars
  BY NextAdvances DEF Advances, Grows
<1> QED
  BY <1>1, LinkInvariant, PTL DEF Spec, NeverBack
===============================================================================
