----------------------------- MODULE MCConnection -----------------------------
(* Instances of Connection for TLC.                                        *)
EXTENDS Connection

CONSTANTS knobA, knobB

OneKnob == {knobA}
TwoKnobs == {knobA, knobB}

SerialHash == [d \in Device |-> IF d = knobA THEN 17 ELSE 42]
AllKnobs == [d \in Device |-> "Encoder"]
KnobProxies == [i \in 1..NumProxies |-> "Encoder"]
===============================================================================
