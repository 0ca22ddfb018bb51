--------------------------- MODULE MCAddressVending ---------------------------
(* Instances of AddressVending for TLC.                                    *)
EXTENDS AddressVending

CONSTANTS knobA, knobB, keys

Knobs == {knobA, knobB}
KnobAndKeys == {knobA, keys}

(* A hash of the factory serial number, different for each of the devices. *)
SerialHash == [d \in Device |-> CASE d = knobA -> 17 [] d = knobB -> 42 [] d = keys -> 99]

(* What getHardwareID() returns on every MCU other than the SAMD11.        *)
OneHash == [d \in Device |-> 48866]

Firmware == [d \in Device |-> IF d = keys THEN "Keypad" ELSE "Encoder"]

TwoKnobProxies == <<"Encoder", "Encoder">>
KnobKeysKnobProxies == <<"Encoder", "Keypad", "Encoder">>
===============================================================================
