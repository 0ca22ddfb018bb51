----------------------------- MODULE EncoderReader -----------------------------
(***************************************************************************)
(* MakernetEncoderReader with the encoder firmware around it.  A knob      *)
(* drives two pins through a Gray code; a change of a pin raises an        *)
(* interrupt, whose handler isr0() adds what the pins say to the position; *)
(* the main loop calls isr0() too, compares the position with the one it   *)
(* has reported last, and reports it through a mailbox.                    *)
(*                                                                         *)
(* The interrupt comes between any two accesses of the main loop to the    *)
(* position.  It may come late: Lag changes of the pins can pass unseen.   *)
(* The position has 32 bits and does not wrap; what is reported has a      *)
(* narrow type of 2 * Half values.                                         *)
(***************************************************************************)
EXTENDS Integers

CONSTANTS Half,    \* 32768 in the code
          Lag,     \* changes of the pins between two readings
          MaxTurn  \* bound: steps of the knob, and of the position, from 0

ConstantAssumption == {Half, Lag, MaxTurn} \subseteq Nat \ {0}

VARIABLES knob,       \* the quarter steps the knob has been turned since begin()
          unseen,     \* changes of the pins since they were last read
          rotState,   \* _rotState, _rotPosition, _lastReportedPosition
          rotPosition,
          lastReported,
          at,         \* what the main loop does next
          position,   \* the contents of ems.position
          missed      \* history: a reading came after more than one change

vars == <<knob, unseen, rotState, rotPosition, lastReported, at, position, missed>>

(* The two pins as update() packs them: pin1 + 2 * pin2.                   *)
GrayCode == <<1, 0, 2, 3>>
Pins == GrayCode[(knob % 4) + 1]

Wide(x) == x  \* mutant: what is reported is not narrowed
Narrow(x) == ((x + Half) % (2 * Half)) - Half
Turns == -MaxTurn..MaxTurn
Short == -Half..(Half - 1)

TypeOK == /\ knob \in Turns
          /\ unseen \in 0..Lag
          /\ rotState \in 0..3
          /\ rotPosition \in -(MaxTurn + 2)..(MaxTurn + 2)
          /\ lastReported \in Short /\ position \in Short
          /\ missed \in BOOLEAN
          /\ at \in {"isr0", "compare", "keep", "get"}

(* begin() reads the pins before the interrupts are attached.              *)
InitialState == GrayCode[1]

Init == /\ knob = 0
        /\ unseen = 0
        /\ rotState = InitialState
        /\ rotPosition = 0
        /\ lastReported = 0
        /\ at = "isr0"
        /\ position = 0
        /\ missed = FALSE

Turn(d) ==
  /\ knob + d \in Turns /\ rotPosition \in Turns
  /\ unseen < Lag
  /\ knob' = knob + d
  /\ unseen' = unseen + 1
  /\ UNCHANGED <<rotState, rotPosition, lastReported, at, position, missed>>

-------------------------------------------------------------------------------
(* update(): what a change from state old to state new means.  Two steps   *)
(* at once may have been either way; the decoder picks one.                *)
SwappedStep(old, new) ==  \* mutant: two cases exchanged
  CASE old + 4 * new \in {1, 7, 8, 13} -> 1
    [] old + 4 * new \in {2, 4, 11, 14} -> -1
    [] OTHER -> 0
SmallStep(old, new) ==  \* mutant: the cases of two steps are left out
  CASE old + 4 * new \in {1, 7, 8, 14} -> 1
    [] old + 4 * new \in {2, 4, 11, 13} -> -1
    [] OTHER -> 0
Step(old, new) == CASE old + 4 * new \in {1, 7, 8, 14} -> 1
                    [] old + 4 * new \in {2, 4, 11, 13} -> -1
                    [] old + 4 * new \in {3, 12} -> 2
                    [] old + 4 * new \in {6, 9} -> -2
                    [] OTHER -> 0

Update == /\ unseen' = 0
          /\ rotState' = Pins
          /\ rotPosition' = rotPosition + Step(rotState, Pins)
          /\ missed' = (missed \/ unseen > 1)

Interrupt ==
  /\ unseen > 0
  /\ Update
  /\ UNCHANGED <<knob, lastReported, at, position>>

(* The main loop: isr0(); hasChanged(), which reads the position twice;    *)
(* getPosition() and setLong().                                            *)
CallIsr0 ==
  /\ at = "isr0" /\ at' = "compare"
  /\ Update
  /\ UNCHANGED <<knob, lastReported, position>>

Compare ==
  /\ at = "compare" /\ at' = IF lastReported = rotPosition THEN "isr0" ELSE "keep"
  /\ UNCHANGED <<knob, unseen, rotState, rotPosition, lastReported, position, missed>>

Keep ==
  /\ at = "keep" /\ at' = "get"
  /\ lastReported' = Narrow(rotPosition)
  /\ UNCHANGED <<knob, unseen, rotState, rotPosition, position, missed>>

Get ==
  /\ at = "get" /\ at' = "isr0"
  /\ position' = Narrow(rotPosition)
  /\ UNCHANGED <<knob, unseen, rotState, rotPosition, lastReported, missed>>

Main == CallIsr0 \/ Compare \/ Keep \/ Get

Next == Main \/ Interrupt \/ \E d \in {-1, 1} : Turn(d)

Spec == Init /\ [][Next]_vars

-------------------------------------------------------------------------------
(* Properties.                                                             *)

(* As long as every change of a pin is read before the next one, by the    *)
(* interrupt or by the main loop, the position is the one of the knob:     *)
(* isr0() from the main loop in between counts nothing twice               *)
(* (MakernetEncoderReader.cpp 37-54, makernet_g2_encoder.ino 55).          *)
Follows == ~missed /\ unseen = 0 => rotPosition = knob

(* However late the interrupts come, and whichever way the decoder guesses *)
(* two steps at once, the position stays in phase with the pins: a miss is *)
(* a whole turn of the Gray code, so detents stay where they are           *)
(* (MakernetEncoderReader.cpp 42-53, 73-80).                               *)
InPhase == unseen = 0 => (rotPosition - knob) % 4 = 0

-------------------------------------------------------------------------------
(* What the documents promise and TLC refutes (the README names the        *)
(* instances).                                                             *)

(* By the time the pins are read the signal may have bounced, and "it gets *)
(* the old value.  Empirical testing has shown that a check every 500      *)
(* microseconds seems to fix this issue" (makernet_g2_encoder.ino 51-54):  *)
(* when a check finds nothing to report, the mailbox has the position.     *)
HeldIsCurrent ==
  at = "compare" /\ lastReported = rotPosition => position = Narrow(rotPosition)
===============================================================================
