---------------------------------- MODULE GPIO ----------------------------------
(***************************************************************************)
(* GPIOPeripheral on the controller and the GPIO firmware: three words of  *)
(* bits, one bit per pin, each in a mailbox of its own, whose arrival at   *)
(* the device calls a handler.                                             *)
(*                                                                         *)
(* A word is the set of pins whose bit is 1.  What MailboxSync shows of    *)
(* one mailbox is taken here as its behaviour: the present value of each   *)
(* mailbox reaches the device, once or again, in no particular order       *)
(* between mailboxes, since frames are lost and retried one by one.        *)
(***************************************************************************)
EXTENDS Naturals, FiniteSets

CONSTANTS Pin,     \* the pins of the module
          Period   \* 256 in the code: the range of pwmCounter

PeriodAssumption == Period \in Nat \ {0}

VARIABLES gpioMailboxSvc,  \* the controller's words, by mailbox
          gms,             \* the device's copies
          pinModes, pinValues, pwmEnables,  \* the firmware's variables
          outputs,         \* pins whose driver is on: pinMode(OUTPUT)
          high,            \* pins whose output register is HIGH
          pwmCounter

device == <<gms, pinModes, pinValues, pwmEnables, outputs, high, pwmCounter>>
vars == <<gpioMailboxSvc, device>>

Box == {"pinModes", "pinValues", "pwmEnables"}
Words == [Box -> SUBSET Pin]
AllLow == [b \in Box |-> {}]

TypeOK == /\ gpioMailboxSvc \in Words /\ gms \in Words
          /\ {pinModes, pinValues, pwmEnables, outputs, high} \subseteq SUBSET Pin
          /\ pwmCounter \in 0..(Period - 1)

Init == /\ gpioMailboxSvc = AllLow /\ gms = AllLow
        /\ pinModes = {} /\ pinValues = {} /\ pwmEnables = {}
        /\ outputs = {} /\ high = {}
        /\ pwmCounter = 0

(* pinMode(), digitalWrite() and pwmConfig() of the proxy: one bit of a    *)
(* word is set or cleared.                                                 *)
Change(b, i) ==
  /\ \/ gpioMailboxSvc' = [gpioMailboxSvc EXCEPT ![b] = @ \cup {i}]
     \/ gpioMailboxSvc' = [gpioMailboxSvc EXCEPT ![b] = @ \ {i}]
  /\ UNCHANGED device

(* The device has the mailbox's present value.                             *)
Arrive(b) == gms' = [gms EXCEPT ![b] = gpioMailboxSvc[b]]

Driven(modes, values) == modes \cap values

PinModeChange ==
  /\ Arrive("pinModes")
  /\ pinModes' = gpioMailboxSvc["pinModes"]
  /\ outputs' = pinModes'
  /\ UNCHANGED <<gpioMailboxSvc, pinValues, pwmEnables, high, pwmCounter>>

Written(levels) == levels

PinValueChange ==
  /\ Arrive("pinValues")
  /\ pinValues' = gpioMailboxSvc["pinValues"]
  /\ high' = Written(Driven(pinModes, pinValues'))
  /\ UNCHANGED <<gpioMailboxSvc, pinModes, pwmEnables, outputs, pwmCounter>>

LevelsKept == high  \* mutant: the levels are not written again
LevelsAfterEnable == Written(Driven(pinModes, pinValues))

PwmEnableChange ==
  /\ Arrive("pwmEnables")
  /\ pwmEnables' = gpioMailboxSvc["pwmEnables"]
  /\ high' = LevelsAfterEnable
  /\ UNCHANGED <<gpioMailboxSvc, pinModes, pinValues, outputs, pwmCounter>>

(* loop(): pins with PWM are HIGH while the counter is at most their duty, *)
(* which is 0: its mailbox is registered at neither end.                   *)
NextCount == (pwmCounter + 1) % Period

Loop ==
  /\ pwmCounter' = NextCount
  /\ LET pwm == pinModes \cap pwmEnables
     IN  high' = IF pwmCounter' = 0 THEN high \cup pwm ELSE high \ pwm
  /\ UNCHANGED <<gpioMailboxSvc, gms, pinModes, pinValues, pwmEnables, outputs>>

Next == \/ \E b \in Box, i \in Pin : Change(b, i)
        \/ PinModeChange \/ PinValueChange \/ PwmEnableChange \/ Loop

Spec == Init /\ [][Next]_vars

-------------------------------------------------------------------------------
(* Properties.                                                             *)

(* No pin is driven HIGH that has not been asked to be, now or by PWM,     *)
(* whatever the order in which modes, values and enables arrive: a pin     *)
(* that was under PWM gives its level back, a pin that was an input takes  *)
(* up none of the past (makernet_g2_gpio.ino 36-62, 104-111).              *)
NoStrayHigh == (outputs \cap high) \subseteq (pinValues \cup pwmEnables)

-------------------------------------------------------------------------------
(* What the documents promise and TLC refutes (the README names the        *)
(* instances).                                                             *)

(* "pinValues = 0; // 0 = LOW, 1 = High" (makernet_g2_gpio.ino 15): when   *)
(* every word has arrived, an output without PWM has the level of its bit. *)
LevelsFollow ==
  gms = gpioMailboxSvc
    => \A i \in outputs \ pwmEnables : i \in high <=> i \in gms["pinValues"]
===============================================================================
