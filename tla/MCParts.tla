-------------------------------- MODULE MCParts --------------------------------
(* The parts of the system that share no state with another one, for TLC.  *)
(* A behaviour is one of one part, chosen in the initial state; all others *)
(* stay as they are.                                                       *)
EXTENDS Naturals, FiniteSets

CONSTANTS M, Period, Gap,                               \* Timer
          Half, Lag, MaxTurn,                           \* EncoderReader
          Pin, PWMPeriod,                               \* GPIO
          Key, Lit, Blinking, ScanSize, Paced,          \* KeypadEvents
          Object, NULL,                                 \* PeripheralList
          Client, Master, Early, BodySize, Chunk, Room  \* SocketReflector

VARIABLES part,
          now, lastFired, age, idle,
          knob, unseen, rotState, rotPosition, lastReported, at, position, missed,
          gpioMailboxSvc, gms, pinModes, pinValues, pwmEnables, outputs, high, pwmCounter,
          state, device, proxy, lamp, blink, unheard,
          firstPeripheral, nextPeripheral, alive, initialized, configured, outlived,
          fds, todo, up, down, reading

clockVars == <<now, lastFired, age, idle>>
encoderVars == <<knob, unseen, rotState, rotPosition, lastReported, at, position, missed>>
pinVars == <<gpioMailboxSvc, gms, pinModes, pinValues, pwmEnables, outputs, high, pwmCounter>>
keypadVars == <<state, device, proxy, lamp, blink, unheard>>
listVars == <<firstPeripheral, nextPeripheral, alive, initialized, configured, outlived>>
reflectorVars == <<fds, todo, up, down, reading>>

NoEvent == [key |-> "none", action |-> "IDLE"]
Events == {NoEvent} \cup [key : Key, action : {"PRESSED", "HELD", "RELEASED", "IDLE"}]

Clock == INSTANCE Timer
Encoder == INSTANCE EncoderReader
Pins == INSTANCE GPIO WITH Period <- PWMPeriod
Keypad == INSTANCE KeypadEvents WITH Value <- Events, Zero <- NoEvent
Peripherals == INSTANCE PeripheralList
Reflector == INSTANCE SocketReflector

ASSUME ClockAssumption == Clock!ClockAssumption
ASSUME EncoderAssumption == Encoder!ConstantAssumption
ASSUME PinsAssumption == Pins!PeriodAssumption
ASSUME KeypadAssumption == Keypad!EventsAreValues /\ Keypad!LampAssumption /\ Keypad!BoundAssumption
ASSUME PeripheralsAssumption == Peripherals!ObjectAssumption
ASSUME ReflectorAssumption == Reflector!ClientAssumption /\ Reflector!SizeAssumption

Init == /\ part \in {"Clock", "Encoder", "Pins", "Keypad", "Peripherals", "Reflector"}
        /\ Clock!Init /\ Encoder!Init /\ Pins!Init
        /\ Keypad!Init /\ Peripherals!Init /\ Reflector!Init

Next ==
  \/ /\ part = "Clock" /\ Clock!Next
     /\ UNCHANGED <<part, encoderVars, pinVars, keypadVars, listVars, reflectorVars>>
  \/ /\ part = "Encoder" /\ Encoder!Next
     /\ UNCHANGED <<part, clockVars, pinVars, keypadVars, listVars, reflectorVars>>
  \/ /\ part = "Pins" /\ Pins!Next
     /\ UNCHANGED <<part, clockVars, encoderVars, keypadVars, listVars, reflectorVars>>
  \/ /\ part = "Keypad" /\ Keypad!Next
     /\ UNCHANGED <<part, clockVars, encoderVars, pinVars, listVars, reflectorVars>>
  \/ /\ part = "Peripherals" /\ Peripherals!ZeroedNext
     /\ UNCHANGED <<part, clockVars, encoderVars, pinVars, keypadVars, reflectorVars>>
  \/ /\ part = "Reflector" /\ Reflector!Next
     /\ UNCHANGED <<part, clockVars, encoderVars, pinVars, keypadVars, listVars>>

vars == <<part, clockVars, encoderVars, pinVars, keypadVars, listVars,
          reflectorVars>>

Spec == Init /\ [][Next]_vars

-------------------------------------------------------------------------------
(* The state of every part is of its type.                                 *)
TypeOK == /\ Clock!TypeOK /\ Encoder!TypeOK /\ Pins!TypeOK
          /\ Keypad!TypeOK /\ Peripherals!TypeOK /\ Reflector!TypeOK

(* A poll is answered in time but for the last moments before the wrap of  *)
(* the clock (Interval.cpp 25; see Timer).                                 *)
Punctual == Clock!Punctual

(* No timer is due before its period is over, but for a wrapping sum       *)
(* (Interval.cpp 25, 34; see Timer).                                       *)
NeverEarly == Clock!NeverEarly

(* The position is that of the knob as long as no change of a pin is       *)
(* missed (MakernetEncoderReader.cpp 37-54; see EncoderReader).            *)
Follows == Encoder!Follows

(* The position keeps in phase with the detents even when changes are      *)
(* missed (MakernetEncoderReader.cpp 42-53; see EncoderReader).            *)
InPhase == Encoder!InPhase

(* No pin is HIGH that has not been asked to be, whatever the order in     *)
(* which the words arrive (makernet_g2_gpio.ino 36-62; see GPIO).          *)
NoStrayHigh == Pins!NoStrayHigh

(* The lamps that do not blink follow the keys through lost values and     *)
(* acknowledgements (KeypadPeripheral.cpp 36-48; see KeypadEvents).        *)
LampsFollow == Keypad!LampsFollow

(* Only who has seen a younger object destroyed is not in the list, and a  *)
(* walk goes from older living objects to younger ones                     *)
(* (BasePeripheral.cpp 20-36, 83-95; see PeripheralList).                  *)
ListInOrder == Peripherals!ListInOrder

(* The program connected first reads whole frames, however the reflector   *)
(* cuts the streams (multiserver.c 120-136; see SocketReflector).          *)
FirstReadsWhole == Reflector!FirstReadsWhole
===============================================================================
