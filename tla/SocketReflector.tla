---------------------------- MODULE SocketReflector ----------------------------
(***************************************************************************)
(* multiserver.c, the wire of the simulated bus: it copies the bytes each  *)
(* program has written to all other programs, in pieces of at most Chunk   *)
(* bytes, and knows nothing of frames.  A program writes the length of a   *)
(* frame and its contents with two calls of send(), and reads them with    *)
(* two calls of recv() that wait for all they ask for.                     *)
(*                                                                         *)
(* The controller writes a frame and a thunk; a device writes when it has  *)
(* read a thunk.  A stream holds Room bytes; who wants to write more       *)
(* blocks.  Programs do not stop, and the array of descriptors is large    *)
(* enough.                                                                 *)
(***************************************************************************)
EXTENDS Naturals, Sequences, FiniteSets, SequencesExt

CONSTANTS Client,    \* the programs
          Master,    \* the one that is the controller
          Early,     \* the programs that run before anybody writes
          BodySize,  \* bytes in a frame after its length
          Chunk,     \* the size of the server's buffer
          Room       \* bound: bytes a stream holds

ClientAssumption == Master \in Client /\ Early \subseteq Client /\ IsFiniteSet(Early)
SizeAssumption == {BodySize, Chunk, Room} \subseteq Nat \ {0}

VARIABLES fds,      \* the accepted connections, in the order of their slots
          todo,     \* todo[c]: what c has still to send()
          up,       \* up[c]: the stream from c to the server
          down,     \* down[c]: the stream from the server to c
          reading   \* reading[c]: the last byte c has taken of a frame

vars == <<fds, todo, up, down, reading>>

(* The byte number at of a frame; number 0 is its length.                  *)
Byte == [from : Client, kind : {"frame", "thunk"}, at : 0..BodySize]
NoFrame == [frame |-> "none"]
Torn == [frame |-> "torn"]

TypeOK == /\ fds \in Seq(Client) /\ IsInjective(fds)
          /\ \A c \in Client :
                /\ Len(up[c]) <= Room /\ \A k \in 1..Len(up[c]) : up[c][k] \in Byte
                /\ Len(down[c]) <= Room /\ \A k \in 1..Len(down[c]) : down[c][k] \in Byte
                /\ reading[c] \in {NoFrame, Torn} \cup {b \in Byte : b.at < BodySize}
                /\ \A k \in 1..Len(todo[c]) : \A b \in ToSet(todo[c][k]) : b \in Byte /\ b.from = c

Init == /\ fds \in SetToSeqs(Early)
        /\ todo = [c \in Client |-> <<>>]
        /\ up = [c \in Client |-> <<>>]
        /\ down = [c \in Client |-> <<>>]
        /\ reading = [c \in Client |-> NoFrame]

Running(c) == c \in ToSet(fds)

(* accept(): the connection gets the next slot.                            *)
Connect(c) ==
  /\ ~Running(c)
  /\ fds' = Append(fds, c)
  /\ UNCHANGED <<todo, up, down, reading>>

(* sendToWire(): the two calls of send() for one frame.                    *)
SendToWire(c, kind) ==
  << <<[from |-> c, kind |-> kind, at |-> 0]>>,
     [k \in 1..BodySize |-> [from |-> c, kind |-> kind, at |-> k]] >>

(* sendFrame() of the controller: the frame, then the thunk.               *)
Begin ==
  /\ Running(Master) /\ todo[Master] = <<>>
  /\ todo' = [todo EXCEPT ![Master] = SendToWire(Master, "frame") \o SendToWire(Master, "thunk")]
  /\ UNCHANGED <<fds, up, down, reading>>

Write(c) ==
  /\ todo[c] # <<>>
  /\ Len(up[c]) + Len(Head(todo[c])) <= Room
  /\ up' = [up EXCEPT ![c] = @ \o Head(todo[c])]
  /\ todo' = [todo EXCEPT ![c] = Tail(@)]
  /\ UNCHANGED <<fds, down, reading>>

(* The server has POLLIN for slot i: what is there, up to the size of its  *)
(* buffer, goes to every connection but the one in slot i.                 *)
EchoesAll(i) == ToSet(fds)  \* mutant: the sender gets its own bytes back
EchoesTo(i) == {fds[x] : x \in DOMAIN fds \ {i}}

Reflect(i) ==
  LET c == fds[i]
      n == IF Len(up[c]) < Chunk THEN Len(up[c]) ELSE Chunk
  IN  /\ up[c] # <<>>
      /\ \A d \in EchoesTo(i) : Len(down[d]) + n <= Room
      /\ down' = [d \in Client |-> IF d \in EchoesTo(i) THEN down[d] \o SubSeq(up[c], 1, n)
                                   ELSE down[d]]
      /\ up' = [up EXCEPT ![c] = SubSeq(@, n + 1, Len(@))]
      /\ UNCHANGED <<fds, todo, reading>>

(* processIncomingFrame(), byte by byte: a frame is read when as many      *)
(* bytes have come as its length says.  A reader that has taken a length   *)
(* from the wrong place is not followed any further.                       *)
Continues(last, b) == CASE last = NoFrame -> b.at = 0
                        [] last = Torn -> FALSE
                        [] OTHER -> b = [last EXCEPT !.at = @ + 1]

Finished(b) == b.at = BodySize

Read(c) ==
  /\ todo[c] = <<>> /\ down[c] # <<>>
  /\ LET b == Head(down[c])
         whole == Continues(reading[c], b)
     IN  /\ reading' = [reading EXCEPT ![c] = IF ~whole THEN Torn
                                              ELSE IF Finished(b) THEN NoFrame ELSE b]
         /\ \/ UNCHANGED todo
            \/ /\ whole /\ Finished(b) /\ b.kind = "thunk" /\ c # Master
               /\ todo' = [todo EXCEPT ![c] = SendToWire(c, "frame")]
  /\ down' = [down EXCEPT ![c] = Tail(@)]
  /\ UNCHANGED <<fds, up>>

Next == \/ Begin
        \/ \E c \in Client : Connect(c) \/ Write(c) \/ Read(c)
        \/ \E i \in DOMAIN fds : Reflect(i)

Spec == Init /\ [][Next]_vars

-------------------------------------------------------------------------------
(* Properties.                                                             *)

(* With one program besides it, frames arrive whole at the program that    *)
(* was connected first, although the server cuts streams where it likes:   *)
(* the other one's bytes come after its connection and in their order      *)
(* (multiserver.c 120-136, UNIXSocketDatalink.cpp 102-144).                *)
FirstReadsWhole == Len(fds) \in {1, 2} => reading[fds[1]] # Torn

-------------------------------------------------------------------------------
(* What the documents promise and TLC refutes (the README names the        *)
(* instances).                                                             *)

(* The thunk is there "to emulate the idea of opening the bus for          *)
(* responses the same way that I2C works" (UNIXSocketDatalink.cpp 89-90),  *)
(* where one device is read at a time: no program reads a frame that       *)
(* another one's bytes have got into.                                      *)
FramesAreWhole == \A c \in Client : reading[c] # Torn
===============================================================================
