# A verification project for Makernet

Makernet connects a controller board with daisy-chained or radio-linked
devices (knobs, keypads, GPIO expanders). This directory holds TLA+ models of
its core, the configurations that model-check them with TLC, and proofs checked
by TLAPS. Paths below are relative to the repository (`src/src/` is the library).

## The system

Every node, controller or device, is one program: `setup()` calls
`Makernet.initialize()`, then `loop()` calls `Makernet.loop()` for ever, and the
application sets and reads mailboxes in between. There is no thread; what runs
concurrently is the *nodes*, on a medium that loses frames, and, on I2C and in
the encoder, interrupt handlers.

| Component | State | Operations | Talks to |
|---|---|---|---|
| `SmallMailbox` (`Mailbox.cpp`) | contents, `synchronized`, `callerChanged`, `changeTrigger`, retry timer | `setLong`/`trigger`, `busReset`, `hasPendingChanges`, `generateMessage`, `handleMessage` | the mailbox of the same index at the other end; application callbacks |
| `MailboxService` | 16 mailboxes, the endpoint | `pollPacket` (lowest due index), `handlePacket`, `busReset` | `Network` above, mailboxes below |
| `Network` | address, role, `pendingPacket`, services | `loop`, `sendNextPacket`, `handleFrame`, `routePacket`, `pollFrame`, `sendPacket` | data link, services, `BasePeripheral` |
| `DeviceControlService` | `isResettingBus`, polling timer, `nextAddressToVend` | `handlePacket` (request, assign, reset), `pollPacket`, `issueBusReset` | `BasePeripheral`, `_Makernet::busReset` |
| `BasePeripheral` | linked list of proxies, `connectedDevice` of each | constructor, destructor, `findByAddress`, `findPeripheralObjectForDevice`, `busResetAllPeripherals` | DCS and `Network::routePacket` |
| `_Makernet` | role, device type, hardware ID, generation | `initialize`, `busReset`, `loop` | everything |
| `RadioheadDatalink` | `frameBuffer` | `loop`, `sendFrame` | RF69 radio (one received frame) |
| `I2CDatalink` | `frameBuffer`, interrupt handlers | `sendFrame` with read-back, `receiveEvent`, `requestEvent` | Wire library |
| `UNIXSocketDatalink`, `multiserver.c` | socket, pending reply, clients | poll for a slave, `processIncomingFrame`, reflect | each other |
| `Interval` | `_lastFired`, period | `hasPassed`, `ready`, `trigger`, `reset` | clock |
| `MakernetEncoderReader` | quadrature state, position | pin interrupt, read | encoder firmware |
| Peripherals and firmware | mailboxes with callbacks | set on button, knob, pin | mailboxes |

What is hard in it, and what correctness means:

* **Mailboxes** synchronize by value, with a retry timer, over a medium that
  loses frames, while either end may set the mailbox at any moment. They are
  correct when two ends with nothing left to push agree, nobody echoes, the
  master wins contention, no old value comes back, and one-shot events arrive.
* **The frame buffer** of a node is shared by the received frame, the reply that
  is deferred to the next `loop()`, and the packet being polled.
* **Address vending** retries requests and broadcasts assignments; either side
  may be power-cycled at any moment. It is correct when a device's packets are
  routed to the proxy that is bound to it, and everyone is connected in the end.
* **Bus resets** travel once, without acknowledgement.
* **Interrupts** (I2C slave, encoder) share buffers with the main loop.
* **32-bit time, 8-bit addresses, 25-byte frames** have edges.

`PROJECT.json` lists the hazards one by one, at the line where each bites, with
the properties that cover it.

## Modules

### `SmallMailbox`: one mailbox object
A record with the four fields the methods read and one bit for the retry timer
(`waiting`: `reset()` was called less than a period ago). Each method is an
operator from record to record; the three cases of `handleMessage()` are
`AfterDisregard`, `AfterAccept` and `AfterAck`. Contents are values of a set
`Value`; their bytes play no role, only equality (`memcmp`, line 188) does.

### `MailboxSync`: two nodes, a lossy radio
`mb[n][b]` is mailbox `b` of node `n`; `pending[n]` the reply that waits in the
frame buffer (`pendingPacket`); `rx[n]` the frame in the radio. One call of
`Network::loop()` is one of five actions, as the code returns early:

| Action | Code |
|---|---|
| `SendDeferred` | lines 127-145: the reply is sent and nothing else is done |
| `DisregardValue`, `AcceptValue` | a value is received, `handleMessage` answers, lines 154-155 return |
| `HandleAck` | an acknowledgement needs no reply, and the same call goes on to poll |
| `Poll` | nothing was received, `sendNextPacket()` |

The application's `Set`, the timers (`Elapse`, `WarmUp`) and bus resets
(`ResetBoxes`) happen at any moment between two calls. Sent frames arrive or are
lost; a frame that finds the receive buffer taken is lost. The air itself
duplicates nothing: duplicates come from the retries, as in the code.
`warm[n]` stands for `millis() > period`: right after power-on `ready()` is
false although `_lastFired` is 0.

Four specifications differ in what the applications do:
`Spec` (any value at any moment), `FreshSpec` (values numbered, so that none is
used twice: a counter, a position that only grows), `PacedSpec` (besides, the
application waits for the acknowledgement), `FairSpec` (`FreshSpec` under
fairness). The difference between them is the point: the protocol
recognizes an acknowledgement by its value alone.

### `AddressVending`: binding devices to proxies
The controller's proxies (`connectedDevice`), address counter, `isResettingBus`
flag and deferred `reply`; each device's address and polling timer; the one frame
each radio holds. `Bind` is the whole handling of a request, `PollController` the
poll, `HandleFrame` a device's handling of an assignment or reset followed by its
own poll in the same call of `loop()`. `RestartController` and `RestartDevice` are
power cycles. `joined` is history: the power-on of the controller to which a
device's assignment belongs.

### `Connection`: device control and mailboxes together
Composes the two above: the controller with its proxies, the devices, one mailbox
on each side, and one set of radios, frame buffers and turns of `loop()` that
everything shares. Here a binding resets the proxy's mailboxes
(`DeviceControlService.cpp` 100), an assignment or a bus reset those of the device
(`_Makernet::busReset`), the source address of a packet decides which proxy gets
it, and a proxy without a device is silent. `PollController` has the order of
`sendNextPacket()`: device control first, then the proxies in the order of the
list. `TakeAckOrPoll` stands for every received frame that needs no reply: the same
call goes on to poll. `proxyStored` and `deviceStored` are history.

`AddressVending` is its abstract specification: `V` is that module with the frames
of mail removed from every buffer, and `ImplementsVending == V!Spec` says that
whatever the mailboxes do, device control behaves as if it were alone. It does
only because a polled value or a pending acknowledgement can delay an assignment
but cannot replace it.

### `I2CLink`: interrupts against the main loop of an I2C device
The Wire library calls `receiveEvent` and `requestEvent` between any two accesses of
the device's main program to a field of the frame buffer, to `returnFrameSize`, to
`pendingPacket` or to the mailbox. The main program is therefore a program counter
`pc` through `loop()`, `pollPacket()`, `finalizePacketToFrame()`, `sendFrame()` and
`setLong()`, one access per step. What the program has checked may not be so any
more when it acts on it: `PollTimer` and `PollMailbox` read the two fields of
`hasPendingChanges()`, and `Blank`, `WriteSource`, `WriteEndpoint`, `WriteCommand`,
`WriteContents` and `ResetTimer` make the packet afterwards, so a value that is
acknowledged in between is pushed once more. `Clear` and `SetAddress` are the header
that `sendNextPacket()` writes before it asks anybody.

The controller is one thread whose `sendFrame` is a write (the device's
`receiveEvent`) and a read (`requestEvent`), with `stage` in between. It asks device
control before any mailbox (`Network.cpp` 60-67), so `WriteNext` may write a general
poll, and read the device, while a value is still unsent. A checksum is the packet
it was computed over, so a half-written frame carries the checksum of another. Not
told apart are the bytes within a field (an interrupt in the middle of `memcpy()`
finds half a value in the buffer) and the ports.

### `SocketLink`, `SocketReflector`: the simulated bus
`SocketLink` is a controller and a device program on `UNIXSocketDatalink`. A turn of
`main()` takes frames at two places (`um.loop()` and `Makernet.loop()`, `at[n]`); the
device speaks only when it gets a thunk and keeps one frame until then (`return`). A
wire is a queue of whole frames. Why that is right for two programs, and only for
two, is the subject of `SocketReflector`, which has bytes: `multiserver.c` copies
what it has read, at most `Chunk` bytes at a time, to all others.

### `Framing`: bytes of a frame
`finalizePacketToFrame()`, `calculateCRC()` and `handleFrame()` over sequences of
bytes, with a medium that changes any burst of up to eight bits at the places
`Sensitive`. Its actions are `Send` (`finalizePacketToFrame()`), `Damage` of the medium
and `Receive` (`handleFrame()`, its checks one predicate each); the payloads of a run go
up to the largest that both ends allow. `Xor` is written with the arithmetic of the
bits, so that TLC evaluates it and TLAPS reasons about it; `CrcTable` holds
`crc8_ccitt_update()` of every byte, and `CrcOf` is the loop of `calculateCRC()` as a
recursive function.

### Parts that share no state with another one
| Module | Models | State and actions |
|---|---|---|
| `Timer` | `Interval` | `_lastFired` and a clock of `M` values (2^32 in the code); `Fire`/`NotYet` are `hasPassed()` with its two answers, `Reset`, `Trigger`, `Tick`; `age` and `idle` are history |
| `EncoderReader` | `MakernetEncoderReader`, encoder sketch | `isr0()` as an interrupt between any two accesses of the main loop (`at`), the decoder's table, narrow reports; up to `Lag` changes of the pins pass between two readings, and `missed` remembers that more than one did |
| `GPIO` | `GPIOPeripheral`, GPIO sketch | three words, each in a mailbox, whose arrivals run `pinModeChange`, `pinValueChange`, `pwmEnableChange` in any order; the PWM counter |
| `KeypadEvents` | `KeypadPeripheral`, keypad sketch, CDU core sketch | a scan that puts one event per changed key into one mailbox; the lamps of the keys `Lit`, switched by the key handler; `Blink`, the `loop()` of the sketch, which switches pin 8 every second, the lamp of key '4' (`Blinking`). The link is idealized: no late acknowledgement |
| `PeripheralList` | constructor, destructor and walks of `BasePeripheral` | `_firstPeripheral`, `_nextPeripheral` pointer by pointer, memory that is reused. `Spec` constructs in any memory; in `ZeroedSpec` an object starts in memory that is zero, as static objects do. Both destroy in any order, the reverse order of static objects included; `outlived` is history: the objects that have seen a younger one destroyed |
| `SocketReflector` | `multiserver.c` | one stream of bytes each way per program, `fds` in the order of connection |

`MCParts` instantiates these six and lets a behaviour be of one of them, chosen in
its initial state, so that one run checks them all; their assumptions about
constants are its `ASSUME`s. `MCMailboxSync`, `MCAddressVending`, `MCConnection` and
`MCFraming` hold the instances of the others. The proofs about a module `X` are in `XProofs`, those about
the recovery of configurations in `Connection` in `ConfigurationProofs`, and those about the
small parts in `PartsProofs`.

Lines marked `mutant` in the modules are variants of the next definition with
a plausible bug; no specification uses them. They show that the properties
distinguish the code from such a bug.

## Runs

| Run | Module, bounds | Shows |
|---|---|---|
| `fresh` | `MCMailboxSync` `FairSpec`: 1 mailbox, 4 numbered values, 2 resets | settled ends agree (`InSync`), nobody echoes (`PushesOwn`), an undelivered event keeps being due (`EventIsDue`), the first event is heard before it counts as acknowledged, the master overrides, nothing old comes back, and the ends converge; `IndInv` of the proofs holds |
| `eventlost` | `MCMailboxSync` `PacedSpec`: 3 values, no reset | **violated** `AckedIsHeard`: a later event can be lost |
| `vend` | `MCAddressVending`: 2 like devices, 3 proxies of 2 types, 2 power-ons of the controller, 2 power cycles of devices | `RoutedToOwnProxy`, `OwnAddress`, `ProxiesDisjoint`, `BindingIsKept` |
| `connect` | `MCAddressVending` `FairSpec`: 2 devices, 2 proxies, 2 power cycles | `EveryoneConnects` |
| `configuration` | `MCConnection`: 1 device and its proxy, 2 values, 2 power-ons of the controller, 1 power cycle of the device | `ConfigurationIsHeld`, and the refinement `ImplementsVending` |
| `isolated` | `MCConnection`: 2 devices and proxies on one air, 1 value, 1 power cycle | `Isolated`: no mailbox holds a third node's value |
| `recover` | `MCConnection` `FairSpec`: 1 device, 2 values, 1 power cycle | `Recovers` |
| `i2c` | `I2CLink`: 3 numbered values | `ControllerHoldsStored`, `InSync`, `NeverBack` under interrupts between any two accesses |
| `socket` | `SocketLink` `FairSpec`: 2 values, 3 frames per stream | `InSync`, `NeverBack`, `DeviceIsHeard` |
| `frames` | `MCFraming`: payloads of 0, 3 and 19 bytes, bursts over every byte but the size of the short frames and the first eight of the long one | `Intact`, `FinalizedIsRouted` |
| `parts` | `MCParts`: see the comment in `parts.cfg` | `NeverEarly`, `Punctual`; `Follows`, `InPhase`; `NoStrayHigh`; `LampsFollow`; `ListInOrder`; `FirstReadsWhole` |
| `unlink` | `PeripheralList`: 3 objects | **violated** `ListsAllInstances` |

Each passing run also checks the type invariant, except where a run of the same
module already does.

Why the bounds are enough to meet the interesting cases. In `fresh` four values
let each end set a mailbox twice, which is what it takes to have a
value, its retry, an acknowledgement and a newer value around at once (each
buffer holds one frame, there are four buffers). Two resets let one fall
between the other and its push. One mailbox is enough because the proofs hold for
every set of mailboxes. Two like devices are the smallest number that
compete for proxies; the third proxy leaves one to take by mistake. Two
power-ons give addresses of the past. In `configuration` a value is stored, the
node it was pushed to is switched off, and another value crosses the way back.
`configuration` has one device and `isolated` one power-on of the controller for a
reason: a device that has missed the reset of a new power-on keeps its old
address (see below), and if that address is now another's it takes that one's
mail; with two devices and two power-ons both properties fail. Three values in
`i2c` allow the frame that is queued, the one in the making and the one received to
differ pairwise; a general poll may go out at any time. Three frames per stream hold a frame with its thunk and an
answer. The clock of 24 values in `parts` wraps while a timer of 5 runs; a knob
that misses two changes in a row is the least the decoder can get wrong; four
objects give a list with inner elements; of the four keys two have a steady lamp, one a
lamp that blinks, and one none. The bounds `MaxResets`, `MaxHeard`,
`MaxBoots`, `MaxRestarts`, `MaxWire`, `MaxTurn`, `MaxAge` and `Room` stop
counters and queues; the proofs do not depend on those of them they meet.

Deadlock is checked in every run but `parts`: there, when no memory
is zero any more and all objects are destroyed nothing is left to do, and programs that all write into full
streams wait for each other, as programs on full sockets do.

## Findings and promises refuted

Two runs record a disagreement of the code with its documents:
* `eventlost`: `Mailbox.h` 42-45 promises one-shot events
  "communicated reliably (and one-time only)". `handleMessage` clears
  `changeTrigger` on *any* acknowledgement (line 193), so a duplicate
  acknowledgement of event 1 demotes the retries of event 2 to plain values.
* `unlink`: `BasePeripheral.h` 23-25 says constructor and destructor maintain the
  list of all instances. The destructor lets `_firstPeripheral` point past the
  destroyed object wherever it stood (`BasePeripheral.cpp` 86), so those before it
  are lost.

The modules end with further statements of documents and comments that the code
does not keep. Each is refuted by TLC in a second or so with the instance named
here (as the only `INVARIANT` or `PROPERTY` of a configuration):

| Statement | Instance | Because |
|---|---|---|
| `HeardOnce` (`Mailbox.h` 42-45) | `MailboxSync` `FreshSpec`, `Value = {0,1}`, `MaxResets = 0`, `MaxHeard = 2` | a retried event is reported again (`Mailbox.cpp` 162) |
| `SettledInSync` (`MailboxService.h` 22-23) | `MailboxSync` `Spec`, `Value = {0,1,2}`, `MaxResets = 0`, `MaxHeard = 0` | an application that sets v, w, v can be answered by the late acknowledgement of the first v (`Mailbox.cpp` 188); `FreshSpec` shows that reuse is the only cause |
| `FirstEventIsHeard` without `resets = 0` | `MailboxSync` `FreshSpec`, `MaxResets = 1` | a bus reset turns an event into a plain value (`Mailbox.cpp` 45) |
| `UniqueAddresses` (`README.md` 44, 206) | `MCAddressVending` `Spec`, `KnobAndKeys`, `OneHash`, `KnobKeysKnobProxies`, 3 proxies, 1 power-on, no power cycle | only the SAMD11 build has an ID of its own, all others the same constant (`ArduinoUtil.cpp` 56-59) |
| `StaleAddressIsLeft` (`Architecture.md` 278) | `MCAddressVending` `FairSpec`, `Knobs`, `SerialHash`, `TwoKnobProxies`, 2 proxies, 2 power-ons | the generation is sent only with an assignment, is never compared, and the single `BUS_RESET` may be lost (`DeviceControlService.cpp` 183) |
| `RejoinedInSync` (`MailboxService.h` 20-22) | `MCConnection` `Spec`, `OneKnob`, 1 proxy, 1 power-on, 1 power cycle, `Value = {0,1}` | what a device has set is pushed again after a reset, what it was told is not: a device that comes back with zero is not told what the proxy learned from it (`Mailbox.cpp` 40) |
| `NoPollWhilePending` (`Network.cpp` 56-57) | `I2CLink` `Spec`, `Value = {0,1,2}` | the interrupt polls while the reply of the write before waits (`I2CDatalink.cpp` 92) |
| `QueuedIsRead` (`I2CDatalink.cpp` 151) | the same | the next write overwrites what is queued (`I2CDatalink.cpp` 78) |
| `RepliesAreSent` (`Network.cpp` 126) | the same | what the controller reads back while it sends a deferred reply asks for a reply too, and line 139 clears that one (`Network.cpp` 139) |
| `FlagTellsOrigin` (`Mailbox.h` 66) | the same | an interrupt between the two stores of `setLong` (`Mailbox.cpp` 213) |
| `ReplyIsSent` (`Network.cpp` 126) | `SocketLink` `Spec`, `Value = {0,1,2}`, `MaxWire = 2` | a frame read by `um.loop()` replaces the reply in the same buffer (`UNIXSocketDatalink.cpp` 144) |
| `KeptIsSent` (`UNIXSocketDatalink.cpp` 70) | the same | there is one return buffer (`UNIXSocketDatalink.cpp` 80) |
| `FramesAreWhole` (`UNIXSocketDatalink.cpp` 89-90) | `SocketReflector` `Spec`, a master and two slaves, all `Early`, `BodySize = 3`, `Chunk = 5`, `Room = 8` | with three programs the reflector may copy a piece of one frame into another (`multiserver.c` 120) |
| `HeldIsCurrent` (`makernet_g2_encoder.ino` 51-54) | `EncoderReader` `Spec`, `Half = 8`, `Lag = 1`, `MaxTurn = 2` | what is remembered as reported and what is reported are two reads of the position, with interrupts between them (`MakernetEncoderReader.cpp` 21) |
| `LevelsFollow` (`makernet_g2_gpio.ino` 15) | `GPIO` `Spec`, 1 pin, `Period = 2` | a word of modes that arrives after the word of values does not apply it (`makernet_g2_gpio.ino` 22-48) |
| `EveryEventIsHeard` (`Mailbox.h` 42-45) | `KeypadEvents` `Spec`, 2 keys, `Lit = Key`, `Blinking = {}`, `ScanSize = 2`, `Paced = TRUE` | the second event of a scan overwrites the first (`makernet_g2_keypad_4x4.ino` 64) |
| `NoFurtherAction` (`BasePeripheral.h` 25-26) | `PeripheralList` `Spec`, 3 objects | an object constructed after `initialize()` is never configured (`BasePeripheral.cpp` 51) |
| `ValidPacketsOnly` (`Network.cpp` 295-296) | `Framing` `Spec`, `Dests = {2}`, `Payloads = {<<29, 29, 29>>}`, `Sensitive = {4}` | a size that changes on the way moves the place of the checksum (`Network.cpp` 340) |
| `FinalizedIsRouted` for payloads of 20 bytes (`Network.cpp` 421-422) | `Framing` `Spec`, `Dests = {2}`, `Payloads` of 19 and of 20 zeros, `Sensitive = {}` | the sender's limit leaves out the header and lets payloads of 20 to 23 bytes out, the receiver takes up to 19 (`Network.cpp` 320, 437) |

Where a table row says what fails, the runs say what remains: lost replies cost a
retry (`InSync`, `DeviceIsHeard`), nothing old comes out of
half-made frames (`NeverBack` of `I2CLink`), one key at a time is safe (`LampsFollow`), an object is listed until a younger one is
destroyed (`ListInOrder`).

`LampsFollow` leaves out the lamp of key '4': `loop()` of the CDU core sketch writes
its pin every second (`makernet_g2_master_cducore.ino` 47-54), so that lamp shows
whichever of key and loop wrote last. TLC refutes the statement when it is made for
`Blinking` too: the first step of `Blink` lights the lamp of a key that nobody presses. No document says whose the lamp is.

## Fairness
`loop()` is called for ever by `main()`, so each node's loop action is weakly
fair; clocks run (`WF` of `WarmUp`, `Elapse`). Applications and power switches get no
fairness: they may stop, and the bounds make them.

The air is the assumption: it loses frames but not for ever. It is stated as
strong fairness per kind of frame and destination (`ReplyArrives`, `ValueArrives` in
`MailboxSync`, `RequestArrives`, `AssignArrives` in `AddressVending`, `DeviceHears`,
`ControllerHears` in `Connection`), since a weakly fair air that may lose every
second frame could lose all acknowledgements.

The timing assumption of `AddressVending` and `Connection` is that a turn of `loop()`
takes well under the seconds between two polls. In `AddressVending` a device looks
into its radio between two frames of the controller (`PromptNext`); without that,
two devices whose requests alternate can each find the other's assignment in its
radio whenever its own is sent, for ever. In `Connection` a period is over only
when what was sent before has been dealt with (`Elapse => Quiet`), and each timer
that keeps being able to run out in a quiet moment does (`SF` of `Quiet /\ Elapse...`).
This restricts `FairSpec` alone; the safety runs use `Spec`, where timers run out at
any moment.

In `SocketLink` bytes that were written are read in the end (`Takes`; `poll()` may time
out but not for ever), and the controller's polling timer goes on to
produce general polls (`Polls`). Nothing is lost on a socket.

## Proofs

### `MailboxSyncProofs`

`TypeCorrect` is proved of `Spec`. The others are proved of `FreshSpec`, for every
`Value \subseteq Nat`, every set of mailboxes and any number of resets.

`InSync` alone is not inductive: a late acknowledgement may set `synchronized`
in a state in which the ends differ. The inductive invariant `IndInv` adds
* `Origin`, `FrameOrigin`: whose value a mailbox or frame holds. A mailbox with
  `callerChanged` holds a value of its own application, any other a value of the
  peer or zero; a frame carries a value of the application it claims to be of;
* `AckInv`: when an acknowledgement of the *present* contents of `n` is on its
  way, the peer agrees or is still pushing, no value on its way to the peer
  contradicts it, and never do two such acknowledgements cross;
* `ValueInv`: a value that is about to be accepted is the sender's last one, or
  the sender is still pushing; a device whose latest value has just reached the
  master owes the master no acknowledgement of that mailbox.

`Fresh` enters at one point: a new value is in no frame and no mailbox, so no
acknowledgement that is on its way matches it. The proof has one lemma per
action and, in each, one step per conjunct of `IndInv`; `EndsInSync`, `NoEcho` and
`EventsAreDue` are corollaries of `InductiveInvariant`.

The two action properties need to know what a step does to the value of a
mailbox. `StepEffect` says it once for all actions: a step leaves contents and
origin of a mailbox alone, or stores a new value of the application, or takes a
value that was in the radio, and whatever value turns up in a radio is what the
peer's application stored last. From this follow `TheMasterOverrides` and, with
`OrderInv` (a mailbox its own application has set holds the largest value stored,
and a value that is about to be accepted is not smaller than the one it replaces),
`NothingComesBack`.

`FirstEventArrives` (no bus reset; `MaxHeard > 0`, since callbacks must be counted) rests
on `FirstInv`: while the only value of a mailbox has not been heard as an event, it
is still pushed as one (`EventIsOut`), every value frame of it carries the flag, and
no acknowledgement of it is anywhere. A second value breaks this, and so does a
reset: `eventlost` and the table above show how.

The assumptions are the named `ASSUME`s of `SmallMailbox` and `MailboxSync` (values
are numbers, zero is a value, indices are below 16, bounds are numbers).

### `AddressVendingProofs`

Everything is proved of `Spec`, for any devices, proxies, types, power-ons and
power cycles. `VendingTypeCorrect` needs no hypothesis. The other theorems assume
`EnoughAddresses` (`FirstAddress + NumProxies <= 255`): the 8-bit counter starts
at 160 and is not checked (`DeviceControlService.cpp` 84), so with more than 95
proxies in one controller it would run through the broadcast and the unassigned address.
`AddressesDiffer` assumes `DistinctIDs` besides, which holds of the SAMD11 build only
(see the refutation of `UniqueAddresses` above).

The properties speak of addresses devices *have*; what keeps them true is what
is on its way. So the invariant `IndInv` of that module speaks of every assignment
there is (`Assignments`): in the reply buffer, in a radio, or taken.
* `BindingInv`: a proxy is bound altogether or not at all;
* `CounterInv`: the counter is ahead of its start by the number of bound proxies. Each
  binding uses up one, so the counter stays below 255 and an address that is
  vended is new: the one place where `EnoughAddresses` and `Cardinality` enter;
* `AssignmentInv`: an assignment is of a power-on that has been, gives an address, and, if
  it is of the present power-on, is what a proxy is bound to, however late it is taken;
* `VendedOnce`: of one power-on, present or past, no address went to two hardware IDs.

TLC finds both invariants to hold (`IndInv` of `MailboxSync` in the run `fresh`, the
other when it is named as an `INVARIANT` in `vend.cfg`).

### `ConnectionProofs`

`MailDoesNotDisturb` is the refinement `Spec => ImplementsVending`, for any devices,
proxies, values and bounds, without a hypothesis. The invariant it needs, `Buffers`, is
small: a radio and a reply buffer hold one frame, and a device replies with
acknowledgements only. Under it each action of `Connection` maps to the action of
`AddressVending` it extends, or, when it deals with mail, to a stutter. The delicate
cases are frames that are *lost* because mail is in the way: the abstract radio is
empty where the concrete one holds mail, so the abstract action has to allow the
loss, and does, since the air loses any frame.

The simulation carries the results of `AddressVendingProofs` over: that module is
instantiated with the refinement mapping, and `VendingAssumption` says that the
constants of `Connection` satisfy what it assumes. `ConnectionTypeCorrect` takes the types
of the vending part from there and adds those of mailboxes and mail (`MailTypeOK`).

`MailboxesAreIsolated`: for any devices, proxies, values and power cycles of devices, what a
mailbox holds was stored on its own pair of nodes. The invariant follows the frames:
`Bindings` (an address that a device has, or will take, is the one of the proxy that is
bound to it, and no two proxies share one), `MailInv` (mail to or from an address carries
what the proxy with that address may hold), `ContentsInv`. `Bindings` comes from `IndInv` of
`AddressVending`, so `EnoughAddresses` and `DistinctIDs` are assumed, and
`MaxBoots = 1`: the controller stays on. A controller that is switched off forgets its
bindings and vends the same addresses again, while a device that misses the one bus
reset of the power-on keeps its old one; the run `isolated` is about one power-on as well.

### `ConfigurationProofs`

"A device can be fully reset and then recover its configuration when reconnection
occurs" (`Mailbox.h` 39): `ConfigurationIsHeld` says that a connected device holds the
value its proxy regards as delivered, or is about to push a newer one. The property is a
statement about two mailboxes; what can break it is anything on its way between them
when a device loses its address, its memory, or both. Its invariant says, on top of
`IndInv` of `AddressVending`:

* `HeldInv`: as soon as the acknowledgement of a proxy's value is *on its way* (`Acked`), the
  device that has the proxy's address holds the value or has a newer one to push,
  and no other value is on its way to it: a frame of an earlier value would undo it;
* `Pushed`: while an assignment is on its way to a device, its proxy pushes, and no
  acknowledgement of what it pushes is under way. When the device takes the
  assignment it may hold anything; that the code resets the proxy *before* it sends the
  assignment (`DeviceControlService.cpp` 100-117), and that one buffer holds the assignment or
  the value but not both, is what makes this work;
* `Calm`: a device that asks for an address has no value and no reply in its buffers, so no
  acknowledgement of an earlier membership can be sent under the new address;
* `Unsent`: a value set while a reply is deferred does not overtake the reply;
* `KnownInv`, `ReplyInv`: where values and replies come from.

`RecoveryWithoutOldAddresses` proves this for any devices, proxies, values and power-ons
under the one condition `NoOldAddress`: no device still has, of an earlier power-on of the
controller, an address that is in use again. `ConfigurationIsAlwaysHeld` shows where the
condition is an invariant: while the controller stays on (`MaxBoots = 1`), with any
number of devices and any power cycles of them; and with one device through
power-ons of the controller as well, which is the run `configuration`. `OldInv` says why: a
device with an old address does not ask, so it is not bound, and with one device
nobody else is.

The condition cannot be dropped. With two devices and two power-ons TLC finds, in
17 steps, a device that missed the bus reset, kept the address of the first
power-on, and acknowledges a value that was meant for the device which now has that
address: the proxy stops pushing, and the right device does not get the value, unless it
is set or the bus is reset again. The bus reset is sent once at power-on, without
acknowledgement ("Bus resets" above), and a device with an address has no
timer that would give it up.

### `I2CLinkProofs`

For any values, of `Spec`, without a hypothesis. `IndInv` there says that every value in a
mailbox, a frame, a checksum, a reply or a local variable of the main program is zero
or was stored by an application (`Known`), at every point at which an interrupt can
come, and that the controller's mailbox, once its application has set it, keeps a value
of that application (`OwnIsKept`). `LinkTypeCorrect` and `ControllerIsRight` follow: as
long as the flag says "over the net" the controller's application has stored nothing
yet, so what arrives can only be zero or the device's.

`NothingOldIsTaken` is the theorem about half-made frames. Its `OrderInv` speaks of the time
before the controller's application has stored anything (afterwards contention keeps
everything older out): the packet in the buffer never holds a value older than the
controller's (`Rises`), with one exception, the zero that a general poll leaves there; and
though the main program puts the header of a value over that zero before it has written
the value, no checksum is ever computed over the two together (`NoZeroSealed`).

`BothHoldOneValue` is `InSync`. Its `AgreeInv` says in which situations a device that is done
holds the value the controller holds: the controller's application has stored nothing; the
controller is done; or what it would take for an acknowledgement lies in the frame buffer
during a transaction (`Answered`). That the controller owes no reply while it is done
completes the induction.

The checksum has one part in it, between the check of the mailbox and the command of the
packet. An interrupt may then leave an acknowledgement in the buffer, and the main
program writes the header of its own packet over it: as long as the command is not
written, this is an acknowledgement from the device that nobody has made. The
controller takes it only if the checksum fits, and `NoAckMade` says that it cannot: the
device was unsynchronized when it was checked, and if it is done now, then by a
frame of the controller, which has left a checksum of its own in the buffer.

### `SocketLinkProofs`

For any values and any length of the streams, of `Spec`, without a hypothesis:
`LinkTypeCorrect`, `BothHoldOneValue` (`InSync`) and `NothingComesBack` (`NeverBack`).
A pass of a main loop takes a frame, and may send one on the way; so `Inv` is a
predicate on any nodes, streams and places, and is shown to hold between the
two halves of the pass as well. Its parts, beside types and the origin of values:
* `Upwards`, `Downwards`: before the controller's application has stored anything, the
  device's values come in the order in which they were stored (as positions in the stream,
  then what is returned to be sent, then the deferred reply), and so do the controller's;
* `Line`: no acknowledgement of the device follows the value it still pushes;
* `AfterHeard`: once the controller has taken that value, no such acknowledgement is on its
  way at all, and the controller holds the value or still pushes its own;
* `Unsent`: a value set while a reply is deferred is not on its way;
* `AfterAcked`: once the device has taken the controller's value, it holds it, or pushes
  its own, and no other value of the controller follows.

The order of the stream is what makes this simpler than on the radio, and the deferred
reply, which is made before the next value and sent after it, what makes it harder.
`Bounds` is the length of the streams, which `TypeOK` names.

### `PartsProofs`

The small components. Each of them runs in `MCParts` beside the others; the first lemmas say
that each runs as its own specification does, so that its invariant need not mention
the rest.
* `PollsArePunctual` and `NoTimerIsEarly` hold for a clock of any number of values,
  2^32 included, under `ClockAssumption` (the period and the gap fit into the clock).
  The invariant `ClockInv` relates `now`, `_lastFired` and `age`: while the sum does not
  wrap, `now` is `age` after a `_lastFired` other than 0, and `age` is bounded by the
  period and the time since the last poll.
* `DetentsStay` and `PositionFollows` need no hypothesis. Of the decoder they use that its
  table answers every pair of readings with a step that is right modulo 4
  (`StepDecodes`); `PhaseInv` says that the position is the number of steps to the last pins read,
  modulo 4, and exactly so as long as nothing was missed.
* `NoPinIsStray` holds for any set of pins under `PeriodAssumption`: whatever word
  came last, a pin that is high was asked to be (`HighIsAsked`).
* `LampsAreRight` holds for any set of keys and lamps if a scan finds one key at a time and
  waits for the acknowledgement of the last event (`ScanSize = 1`, `Paced`), as in the run.
  Without either a second event overwrites the first. `KeypadInv`: while an event is not
  acknowledged, it is the last change of its key, and the lamps of all other keys are
  right, of the lamps that do not blink (`Steady`).
* `ListIsOrdered` holds for any finite set of objects, as `ZeroedSpec` says: constructed in
  memory that is zero, and destroyed in any order, so in the reverse order as well in
  which static objects are. `ListInv`: the list is a final part of the living objects, in
  the order of their construction: those that have not seen a younger one destroyed
  (`Linked`). Destroying the k-th object cuts off those before it and
  no other. The walk is a recursive function; that it visits the rest is an induction along
  the list, over the set of positions it reaches (`ReachedIsYoungest`).
* `FirstIsWhole` holds for any number of programs, of which any may connect at any time, and
  for frames, server buffers and streams of any size: as long as there are at most two
  connections, the program that connected first never takes a byte from the wrong
  place. Its invariant `WholeInv` puts two streams together: what the server has for that
  program and then what the other one has written. These bytes continue, one by one
  (`InOrder`), the frame that is being read, and what the other program has still to send
  (`Due`) continues them. The server moves bytes from one of the streams to the other
  and leaves the whole as it is, wherever it cuts (`Moved`). `Quiet` is the reason why it
  has to be the first: nothing was written before it was connected, whereas a program
  that comes later may come in the middle of a frame.
* `PartsAreTyped` is the type invariant of all six, without a hypothesis. Three of its
  parts are more than bookkeeping: a reported position is short because `Narrow` is
  (`NarrowIsShort`), and the position itself stays near the knob's bounds because a reading of pins
  that have not changed counts nothing (`EncoderTypes`); a keypad's scan of *any* number of keys
  leaves a mailbox (`FoldIsMailbox`, by induction along the keys, over the fold of the
  community modules); and what a program has still to send is its own bytes
  (`StreamTypes`).

The run `parts` checks these properties on small instances, as `MCParts` names them.

### `FramingProofs`

`BurstsAreCaught` is `Intact` for packets of any bytes: whatever burst of up to eight bits
hits a frame, what is routed is what was sent, or nothing. It assumes that the size byte
is spared (`4 \notin Sensitive`): the place of the checksum follows from it, and
`ValidPacketsOnly` above is what happens otherwise. `FinalizedPacketsAreRouted` assumes that
the payloads are those the receiver takes (`SizeFits`, up to 19 bytes). Both rest on one
inductive invariant, `FrameInv`, which holds without a hypothesis: the frame that travels is the one that was
sent, or that with one burst in it, and what is routed is what the checks let through.
The argument is in the arithmetic of the checksum:
* a byte is its eight bits (`Split`, `SameBits`), `Xor` works on each (`XorBits`), and the
  update of the CRC is linear in it (`ShiftLinear`, `CrcLinear`) and tells bytes apart
  (`CrcInjective`);
* so the checksum of the frame that was sent and of the one that arrived differ by the
  checksum of the burst. `BurstRemains`: a burst that is divided between two bytes
  leaves a remainder other than 0 when both have been taken in, and
  `CrcInjective` carries it through all the bytes that follow;
* the bytes are gone through by induction (`Induct`, on the set of places up to which the claim
  holds), since the checksum is a recursive function (`RunExists`, `CrcRuns`).

### Only model-checked

Liveness (`Converges`, `EveryoneConnects`, `Recovers`, `DeviceIsHeard`), which is out of
TLAPS' reach. Every invariant and every action property of the passing runs is proved, with
the hypotheses named above; `LampsFollow` has one that the run shares
(`ScanSize = 1`, `Paced`), and needs it. The run `frames` tries bursts in the first eight
bytes of a frame; `BurstsAreCaught` covers the others.

## Not modelled

* Several unassigned devices that answer one I2C read: the wire decides bit by bit
  (`README.md` 155), outside the code; what the code does about it, asking
  again, is in `AddressVending`.
* On I2C, an interrupt in the middle of a field (see `I2CLink`).
* Hang-ups in `multiserver.c` and the slots they leave.
* The hand-over of a configuration through `MailboxService` by index, the encoder's
  buttons, and the PWM duty structure, which is registered at neither end
  (`GPIOPeripheral.h` 35): `GPIO` lets PWM be on or off.
* A callback that sets the mailbox it is called for (`Mailbox.cpp` 172), and the
  replacement of a broken device (`BasePeripheral.cpp` 166): no sketch does the one,
  no operation exists for the other.
* The wrap of the address counter (`DeviceControlService.cpp` 84) is in the model but
  takes 96 bindings to reach; the 32-bit position of the encoder does not wrap.
* Logging (`Debug.h`, `printf.c`), the callback wrapper (`GenericFunction.h`), the
  parsing of command lines, `old/`, the RF69 and Wire drivers, checks under
  `API_CHECK` (0 in the build), and the contents of structures carried in
  mailboxes. Encryption and general polls on the radio change no state that is
  modelled. `MakernetSingleton.cpp` 60 has the I2C link commented out for a
  build; `I2CLink` models `I2CDatalink` as it is.

## Plan

1. **Done:** the modules above, and the proofs described there.
2. **Done:** `InSync` of `I2CLink` and of `SocketLink`; types and `Isolated` of `Connection`
   through the refinement mapping; the invariants of the small parts.
3. **Done:** `ConfigurationIsHeld` of `Connection`, across power cycles, and the condition
   for several devices and several power-ons of the controller.
4. **Done:** `FirstReadsWhole` of `SocketReflector`, the types of the parts, and the checksum of
   `Framing`.
5. Open, and of the model rather than of proofs: the timers of the 32-bit clock inside
   `MailboxSync` (they are one bit there), and hang-ups in `multiserver.c`.
