------------------------------ MODULE KeypadEvents ------------------------------
(***************************************************************************)
(* A keypad, the controller's sketch that switches a lamp per key, and the *)
(* one mailbox between them.  The firmware scans the keys and puts an      *)
(* event into the mailbox for every key that has changed; the controller's *)
(* KeypadPeripheral passes a triggered event to the sketch.  The sketch's  *)
(* loop() also lets a lamp blink that is the lamp of a key.                *)
(*                                                                         *)
(* The link is better than the real one: a value and its acknowledgement   *)
(* are exchanged in one step or not at all, or the acknowledgement is      *)
(* lost, so that no late acknowledgement is ever around (MailboxSync has   *)
(* those).                                                                 *)
(***************************************************************************)
EXTENDS Naturals, Sequences, SequencesExt, SmallMailbox

CONSTANTS Key,       \* the keys
          Lit,       \* those that have a lamp ('1' to '9')
          Blinking,  \* those whose lamp loop() switches too (pin 8: '4')
          ScanSize,  \* bound: keys that change between two scans (LIST_MAX is 10)
          Paced      \* scans that find a change wait for the last acknowledgement

EventsAreValues == Value = {Zero} \cup [key : Key, action : {"PRESSED", "HELD",
                                                                    "RELEASED", "IDLE"}]
LampAssumption == Blinking \subseteq Lit /\ Lit \subseteq Key
BoundAssumption == ScanSize \in Nat \ {0} /\ Paced \in BOOLEAN

VARIABLES state,    \* state[k]: what the keypad library says of key k
          device,   \* kms.event of the device
          proxy,    \* the mailbox of the controller's proxy
          lamp,     \* the keys whose lamp the sketch has switched on
          blink,    \* v of the sketch: what loop() has last switched its lamp to
          unheard   \* history: events put into the mailbox and not passed to the sketch

vars == <<state, device, proxy, lamp, blink, unheard>>

Event(k, a) == [key |-> k, action |-> a]

TypeOK == /\ state \in [Key -> {"PRESSED", "HELD", "RELEASED", "IDLE"}]
          /\ device \in Mailbox /\ proxy \in Mailbox
          /\ lamp \subseteq Lit
          /\ blink \in BOOLEAN
          /\ unheard \subseteq Value

Init == /\ state = [k \in Key |-> "IDLE"]
        /\ device = NewMailbox /\ proxy = NewMailbox
        /\ lamp = {} /\ blink = FALSE
        /\ unheard = {}

(* The next state of a key, as the Keypad library goes through them.       *)
Successors(a) == CASE a = "IDLE" -> {"PRESSED"}
                   [] a = "PRESSED" -> {"HELD", "RELEASED"}
                   [] a = "HELD" -> {"RELEASED"}
                   [] a = "RELEASED" -> {"IDLE"}

(* One pass of loop(): enqueueEvent() for every key that has changed, in   *)
(* the order of the library's list.                                        *)
EnqueueEvent(m, e) == SetLong(m, e)

Scan(keys) ==
  /\ Paced => device.synchronized
  /\ \E next \in [ToSet(keys) -> {"PRESSED", "HELD", "RELEASED", "IDLE"}] :
        /\ \A k \in ToSet(keys) : next[k] \in Successors(state[k])
        /\ state' = [k \in Key |-> IF k \in ToSet(keys) THEN next[k] ELSE state[k]]
        /\ device' = FoldLeft(LAMBDA m, k : EnqueueEvent(m, Event(k, next[k])), device, keys)
        /\ unheard' = unheard \cup {Event(k, next[k]) : k \in ToSet(keys)}
  /\ UNCHANGED <<proxy, lamp, blink>>

Elapse ==
  /\ device.waiting
  /\ device' = [device EXCEPT !.waiting = FALSE]
  /\ UNCHANGED <<state, proxy, lamp, blink, unheard>>

(* onMailboxChange() and the sketch's handler.                             *)
IsDown(e) == e.action \in {"PRESSED", "HELD"}

DownOnly(e) == lamp \cup {k \in {e.key} \cap Lit : IsDown(e)}  \* mutant: lamps are only switched on
LampAfter(e) == (lamp \ {e.key}) \cup {k \in {e.key} \cap Lit : IsDown(e)}

(* The value is lost.                                                      *)
Lose ==
  /\ HasPendingChanges(device, TRUE)
  /\ device' = AfterGenerate(device)
  /\ UNCHANGED <<state, proxy, lamp, blink, unheard>>

(* It arrives, with its event flag or without, and so does the             *)
(* acknowledgement, or not.                                                *)
Message == [command |-> GeneratedCommand(device), value |-> device.contents]

Hears == WasTriggered(proxy, Message)

Deliver ==
  /\ HasPendingChanges(device, TRUE)
  /\ proxy' = AfterAccept(proxy, device.contents)
  /\ lamp' = IF Hears THEN LampAfter(device.contents) ELSE lamp
  /\ unheard' = IF Hears THEN unheard \ {device.contents} ELSE unheard
  /\ \/ device' = AfterAck(AfterGenerate(device), device.contents)
     \/ device' = AfterGenerate(device)
  /\ UNCHANGED <<state, blink>>

(* loop() of the sketch, once a second, whatever the key is doing.         *)
Blink ==
  /\ blink' = ~blink
  /\ lamp' = IF blink' THEN lamp \cup Blinking ELSE lamp \ Blinking
  /\ UNCHANGED <<state, device, proxy, unheard>>

Next == \/ \E n \in 1..ScanSize : \E keys \in [1..n -> Key] : IsInjective(keys) /\ Scan(keys)
        \/ Elapse \/ Lose \/ Deliver \/ Blink

Spec == Init /\ [][Next]_vars

-------------------------------------------------------------------------------
(* Properties.                                                             *)

(* One key at a time, each after the acknowledgement of the one before:    *)
(* when the mailbox has nothing to push, the lamps show the keys that are  *)
(* down, although an event whose acknowledgement is lost is handled again  *)
(* (KeypadPeripheral.cpp 36-48, makernet_g2_master_cducore.ino 22-25).     *)
(* That is so of the lamps loop() leaves alone; a blinking one shows       *)
(* whichever wrote last (makernet_g2_master_cducore.ino 51-54).            *)
LampsFollow == device.synchronized =>
                 lamp \ Blinking = {k \in Lit \ Blinking : state[k] \in {"PRESSED", "HELD"}}

-------------------------------------------------------------------------------
(* What the documents promise and TLC refutes (the README names the        *)
(* instances).                                                             *)

(* "One-shot events like button up or down events" are "communicated       *)
(* reliably" (Mailbox.h 42-45): once the mailbox has nothing to push,      *)
(* every event has reached the sketch.                                     *)
EveryEventIsHeard == device.synchronized => unheard = {}
===============================================================================
