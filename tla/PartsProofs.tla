------------------------------- MODULE PartsProofs -------------------------------
(***************************************************************************)
(* Proofs about the parts of MCParts, for every value of the constants.    *)
(* Each part has a section with its inductive invariant; what ties them    *)
(* together is that a step of the whole is a step of every part, or leaves *)
(* the part alone.                                                         *)
(***************************************************************************)
EXTENDS MCParts, Integers, FiniteSetTheorems, SequenceTheorems, WellFoundedInduction, TLAPS

-------------------------------------------------------------------------------
(* Every part runs as its own module says.                                 *)

LEMMA ClockRuns == Spec => Clock!Spec
<1>1. Init => Clock!Init
  BY DEF Init
<1>2. [Next]_vars => [Clock!Next]_(Clock!vars)
  BY DEF Next, vars, clockVars, Clock!vars
<1> QED
  BY <1>1, <1>2, PTL DEF Spec, Clock!Spec

LEMMA EncoderRuns == Spec => Encoder!Spec
<1>1. Init => Encoder!Init
  BY DEF Init
<1>2. [Next]_vars => [Encoder!Next]_(Encoder!vars)
  BY DEF Next, vars, encoderVars, Encoder!vars
<1> QED
  BY <1>1, <1>2, PTL DEF Spec, Encoder!Spec

LEMMA PinsRun == Spec => Pins!Spec
<1>1. Init => Pins!Init
  BY DEF Init
<1>2. [Next]_vars => [Pins!Next]_(Pins!vars)
  BY DEF Next, vars, pinVars, Pins!vars, Pins!device
<1> QED
  BY <1>1, <1>2, PTL DEF Spec, Pins!Spec

LEMMA KeypadRuns == Spec => Keypad!Spec
<1>1. Init => Keypad!Init
  BY DEF Init
<1>2. [Next]_vars => [Keypad!Next]_(Keypad!vars)
  BY DEF Next, vars, keypadVars, Keypad!vars
<1> QED
  BY <1>1, <1>2, PTL DEF Spec, Keypad!Spec

LEMMA ListRuns == Spec => Peripherals!ZeroedSpec
<1>1. Init => Peripherals!Init
  BY DEF Init
<1>2. [Next]_vars => [Peripherals!ZeroedNext]_(Peripherals!vars)
  BY DEF Next, vars, listVars, Peripherals!vars
<1> QED
  BY <1>1, <1>2, PTL DEF Spec, Peripherals!ZeroedSpec

-------------------------------------------------------------------------------
(* The timer.                                                              *)

(* Until the sum wraps, the clock shows when the timer was restarted and   *)
(* how long ago; and a timer that polls often enough is asked at most Gap  *)
(* after its period is over.                                               *)
ClockInv == /\ lastFired # 0 /\ lastFired + age < M => now = lastFired + age
            /\ lastFired # 0 /\ lastFired + Period + Gap < M => age <= Period + idle

ClockIndInv == Clock!TypeOK /\ ClockInv

LEMMA ClockConstants ==
  /\ M \in Nat /\ Period \in Nat /\ Gap \in Nat
  /\ M > 0 /\ Period > 0 /\ Gap > 0 /\ Period + Gap < M
  /\ Clock!MaxAge \in Nat /\ M < Clock!MaxAge
BY ClockAssumption DEF Clock!ClockAssumption, Clock!MaxAge

(* What the remainder is where the modules use it.                         *)
LEMMA NoWrap ==
  ASSUME NEW m \in Nat, NEW x \in Nat, m > 0
  PROVE  /\ x % m \in 0..(m - 1)
         /\ x < m => x % m = x
OBVIOUS

LEMMA InitClock == Clock!Init => ClockIndInv
BY ClockConstants DEF Clock!Init, ClockIndInv, Clock!TypeOK, ClockInv

LEMMA NextClock ==
  ASSUME ClockIndInv, [Clock!Next]_(Clock!vars)
  PROVE  ClockIndInv'
<1> USE ClockConstants DEF ClockIndInv
<1>0. now \in Nat /\ lastFired \in Nat /\ age \in Nat /\ idle \in Nat
  BY DEF Clock!TypeOK
<1>1. CASE Clock!Tick
  <2>1. /\ Clock!NextTime \in 0..(M - 1)
        /\ now + 1 < M => Clock!NextTime = now + 1
    BY <1>0, NoWrap DEF Clock!NextTime
  <2>2. Clock!TypeOK'
    BY <1>0, <1>1, <2>1 DEF Clock!Tick, Clock!TypeOK
  <2>3. ClockInv'
    BY <1>0, <1>1, <2>1 DEF Clock!Tick, ClockInv, Clock!TypeOK
  <2> QED
    BY <2>2, <2>3
<1>2. CASE Clock!NotYet
  <2>1. Clock!TypeOK'
    BY <1>2 DEF Clock!NotYet, Clock!TypeOK
  <2>2. lastFired # 0 /\ lastFired + Period + Gap < M => age <= Period
    <3> SUFFICES ASSUME lastFired # 0, lastFired + Period + Gap < M
                 PROVE  age <= Period
      OBVIOUS
    <3>1. Clock!Deadline = lastFired + Period
      BY <1>0, NoWrap DEF Clock!Deadline
    <3>2. now <= lastFired + Period
      BY <1>0, <1>2, <3>1 DEF Clock!NotYet, Clock!Due, Clock!Ready
    <3>3. age <= Period + Gap
      BY <1>0 DEF ClockInv, Clock!TypeOK
    <3>4. now = lastFired + age
      BY <1>0, <3>3 DEF ClockInv
    <3> QED
      BY <1>0, <3>2, <3>4
  <2>3. ClockInv'
    BY <1>0, <1>2, <2>2 DEF Clock!NotYet, ClockInv
  <2> QED
    BY <2>1, <2>3
<1>3. CASE Clock!Fire
  BY <1>0, <1>3 DEF Clock!Fire, Clock!Restarted, Clock!TypeOK, ClockInv
<1>4. CASE Clock!Reset
  BY <1>0, <1>4 DEF Clock!Reset, Clock!TypeOK, ClockInv
<1>5. CASE Clock!Trigger
  BY <1>0, <1>5 DEF Clock!Trigger, Clock!TypeOK, ClockInv
<1>6. CASE UNCHANGED Clock!vars
  BY <1>6 DEF Clock!vars, Clock!TypeOK, ClockInv
<1> QED
  BY <1>1, <1>2, <1>3, <1>4, <1>5, <1>6 DEF Clock!Next

THEOREM TimerInvariant == Spec => []ClockIndInv
<1>1. ClockIndInv /\ [Clock!Next]_(Clock!vars) => ClockIndInv'
  BY NextClock
<1> QED
  BY InitClock, <1>1, ClockRuns, PTL DEF Clock!Spec

(* A timer that is asked at least every Gap milliseconds is restarted at   *)
(* most Gap after its period, if the clock does not wrap meanwhile         *)
(* (Interval.cpp 25).                                                      *)
THEOREM PollsArePunctual == Spec => []Punctual
<1>1. ClockIndInv => Punctual
  BY ClockConstants DEF ClockIndInv, Clock!TypeOK, ClockInv, Punctual, Clock!Punctual
<1> QED
  BY TimerInvariant, <1>1, PTL

(* A timer whose deadline does not wrap and that was not triggered is not  *)
(* due before its period is over (Interval.cpp 25, 34).                    *)
THEOREM NoTimerIsEarly == Spec => NeverEarly
<1>1. ASSUME ClockIndInv, Clock!Fire, lastFired # 0, Clock!Inside
      PROVE  age > Period
  <2> USE ClockConstants
  <2>1. now \in Nat /\ lastFired \in Nat /\ age \in Nat
    BY <1>1 DEF ClockIndInv, Clock!TypeOK
  <2>2. Clock!Deadline = lastFired + Period
    BY <1>1, <2>1, NoWrap DEF Clock!Deadline, Clock!Inside
  <2>3. now > lastFired + Period
    BY <1>1, <2>1, <2>2 DEF Clock!Fire, Clock!Due, Clock!Ready
  <2> QED
    BY <1>1, <2>1, <2>3 DEF ClockIndInv, ClockInv, Clock!Inside
<1>2. ClockIndInv => [Clock!Fire => age > Period \/ lastFired = 0 \/ ~Clock!Inside]_(Clock!vars)
  BY <1>1
<1> QED
  BY TimerInvariant, <1>2, PTL DEF NeverEarly, Clock!NeverEarly

-------------------------------------------------------------------------------
(* The knob.                                                               *)

(* The decoder's state is the pins at the position it has counted, and a   *)
(* position is wrong by what has not been seen yet.                        *)
Decoded == rotState = Encoder!GrayCode[(rotPosition % 4) + 1]

Seen == /\ knob \in Int /\ rotPosition \in Int /\ unseen \in Nat
        /\ unseen = 0 => rotState = Encoder!Pins
        /\ ~missed /\ unseen = 0 => rotPosition = knob
        /\ ~missed /\ unseen = 1 => rotPosition \in {knob - 1, knob + 1}

PhaseInv == Decoded /\ Seen

(* The Gray code tells four positions apart.                               *)
LEMMA GrayCodeInjective ==
  ASSUME NEW x \in Int, NEW y \in Int, Encoder!GrayCode[(x % 4) + 1] = Encoder!GrayCode[(y % 4) + 1]
  PROVE  (x - y) % 4 = 0
<1>1. x % 4 \in {0, 1, 2, 3} /\ y % 4 \in {0, 1, 2, 3}
  OBVIOUS
<1>2. x % 4 = y % 4
  BY <1>1 DEF Encoder!GrayCode
<1> QED
  BY <1>2

(* The table of update(): whatever the pins were and are, the position     *)
(* comes to one that has these pins; a single change is told exactly.      *)
LEMMA StepDecodes ==
  ASSUME NEW x \in Int, NEW y \in Int
  PROVE  LET s == Encoder!Step(Encoder!GrayCode[(x % 4) + 1], Encoder!GrayCode[(y % 4) + 1])
         IN  /\ s \in Int
             /\ Encoder!GrayCode[((x + s) % 4) + 1] = Encoder!GrayCode[(y % 4) + 1]
             /\ y = x => s = 0
             /\ y = x + 1 => s = 1
             /\ y = x - 1 => s = -1
<1>1. x % 4 \in {0, 1, 2, 3} /\ y % 4 \in {0, 1, 2, 3}
  OBVIOUS
<1>2. ASSUME NEW i \in {0, 1, 2, 3}, NEW j \in {0, 1, 2, 3}, x % 4 = i, y % 4 = j
      PROVE  LET s == Encoder!Step(Encoder!GrayCode[i + 1], Encoder!GrayCode[j + 1])
             IN  s \in {-2, -1, 0, 1, 2} /\ (i + s) % 4 = j
  <2>1. /\ Encoder!GrayCode[1] = 1 /\ Encoder!GrayCode[2] = 0 /\ Encoder!GrayCode[3] = 2 /\ Encoder!GrayCode[4] = 3
    BY DEF Encoder!GrayCode
  <2>2. CASE i = 0
    BY <2>1, <2>2 DEF Encoder!Step
  <2>3. CASE i = 1
    BY <2>1, <2>3 DEF Encoder!Step
  <2>4. CASE i = 2
    BY <2>1, <2>4 DEF Encoder!Step
  <2>5. CASE i = 3
    BY <2>1, <2>5 DEF Encoder!Step
  <2> QED
    BY <2>2, <2>3, <2>4, <2>5
<1> DEFINE s == Encoder!Step(Encoder!GrayCode[(x % 4) + 1], Encoder!GrayCode[(y % 4) + 1])
<1>3. s \in {-2, -1, 0, 1, 2} /\ ((x % 4) + s) % 4 = y % 4
  BY <1>1, <1>2
<1> HIDE DEF s
<1>4. (x + s) % 4 = y % 4
  BY <1>3
<1> QED
  BY <1>3, <1>4 DEF s

LEMMA InitEncoder == Encoder!Init => PhaseInv
BY DEF Encoder!Init, PhaseInv, Decoded, Seen, Encoder!InitialState, Encoder!Pins, Encoder!GrayCode

LEMMA UpdateKeepsPhase ==
  ASSUME PhaseInv, Encoder!Update, UNCHANGED knob
  PROVE  PhaseInv'
<1> DEFINE s == Encoder!Step(rotState, Encoder!Pins)
<1>1. knob \in Int /\ rotPosition \in Int /\ unseen \in Nat
  BY DEF PhaseInv, Seen
<1>2. /\ s \in Int
      /\ Encoder!GrayCode[((rotPosition + s) % 4) + 1] = Encoder!Pins
      /\ knob = rotPosition => s = 0
      /\ knob = rotPosition + 1 => s = 1
      /\ knob = rotPosition - 1 => s = -1
  BY <1>1, StepDecodes DEF PhaseInv, Decoded, Encoder!Pins
<1> HIDE DEF s
<1>3. /\ unseen' = 0 /\ rotState' = Encoder!Pins /\ rotPosition' = rotPosition + s
  BY DEF Encoder!Update, s
<1>4. Encoder!Pins' = Encoder!Pins
  BY DEF Encoder!Pins
<1>5. Decoded'
  BY <1>2, <1>3 DEF Decoded
<1>6. ~missed' => rotPosition' = knob
  <2> SUFFICES ASSUME ~missed'
               PROVE  rotPosition' = knob
    OBVIOUS
  <2>1. ~missed /\ ~(unseen > 1)
    BY Zenon DEF Encoder!Update
  <2>2. rotPosition \in {knob, knob - 1, knob + 1}
    BY <1>1, <2>1 DEF PhaseInv, Seen
  <2> QED
    BY <1>1, <1>2, <1>3, <2>2
<1>7. Seen'
  BY <1>1, <1>2, <1>3, <1>4, <1>6 DEF Seen
<1> QED
  BY <1>5, <1>7 DEF PhaseInv

LEMMA NextEncoder == PhaseInv /\ [Encoder!Next]_(Encoder!vars) => PhaseInv'
<1> SUFFICES ASSUME PhaseInv, [Encoder!Next]_(Encoder!vars)
             PROVE  PhaseInv'
  OBVIOUS
<1>1. CASE Encoder!CallIsr0 \/ Encoder!Interrupt
  BY <1>1, UpdateKeepsPhase DEF Encoder!CallIsr0, Encoder!Interrupt
<1>2. CASE Encoder!Compare \/ Encoder!Keep \/ Encoder!Get \/ UNCHANGED Encoder!vars
  <2>1. UNCHANGED <<knob, unseen, rotState, rotPosition, missed>>
    BY <1>2 DEF Encoder!Compare, Encoder!Keep, Encoder!Get, Encoder!vars
  <2> QED
    BY <2>1 DEF PhaseInv, Decoded, Seen, Encoder!Pins
<1>3. ASSUME NEW d \in {-1, 1}, Encoder!Turn(d)
      PROVE  PhaseInv'
  <2>1. knob' = knob + d /\ unseen' = unseen + 1 /\ UNCHANGED <<rotState, rotPosition, missed>>
    BY <1>3 DEF Encoder!Turn
  <2>2. Decoded'
    BY <2>1 DEF PhaseInv, Decoded
  <2>3. Seen'
    BY <2>1 DEF PhaseInv, Seen
  <2> QED
    BY <2>2, <2>3 DEF PhaseInv
<1> QED
  BY <1>1, <1>2, <1>3 DEF Encoder!Next, Encoder!Main

THEOREM PhaseInvariant == Spec => []PhaseInv
BY InitEncoder, NextEncoder, EncoderRuns, PTL DEF Encoder!Spec

(* Whatever the interrupts miss, the position stays in phase with the pins *)
(* (update(), MakernetEncoderReader.cpp 42-53).                            *)
THEOREM DetentsStay == Spec => []InPhase
<1>1. PhaseInv => InPhase
  <2> SUFFICES ASSUME PhaseInv, unseen = 0
               PROVE  (rotPosition - knob) % 4 = 0
    BY DEF InPhase, Encoder!InPhase
  <2>1. Encoder!GrayCode[(rotPosition % 4) + 1] = Encoder!GrayCode[(knob % 4) + 1]
    BY DEF PhaseInv, Decoded, Seen, Encoder!Pins
  <2> QED
    BY <2>1, GrayCodeInjective DEF PhaseInv, Seen
<1> QED
  BY PhaseInvariant, <1>1, PTL

(* As long as no change of a pin is missed, the position is the one of the *)
(* knob (MakernetEncoderReader.cpp 37-54).                                 *)
THEOREM PositionFollows == Spec => []Follows
<1>1. PhaseInv => Follows
  BY DEF PhaseInv, Seen, Follows, Encoder!Follows
<1> QED
  BY PhaseInvariant, <1>1, PTL

-------------------------------------------------------------------------------
(* The pins.                                                               *)

(* A register is HIGH for a value or for PWM, whether the pin is driven or *)
(* not: this is what NoStrayHigh rests on when the mode changes.           *)
HighIsAsked == high \subseteq (pinValues \cup pwmEnables)

PinsInv == Pins!TypeOK /\ HighIsAsked

LEMMA InitPins == Pins!Init => PinsInv
BY PinsAssumption DEF Pins!PeriodAssumption, Pins!Init, PinsInv, Pins!TypeOK, HighIsAsked, Pins!Words, Pins!AllLow

LEMMA NextPins ==
  ASSUME PinsInv, [Pins!Next]_(Pins!vars)
  PROVE  PinsInv'
<1> USE DEF PinsInv
<1>0. gpioMailboxSvc \in Pins!Words /\ \A b \in Pins!Box : gpioMailboxSvc[b] \subseteq Pin
  BY DEF Pins!TypeOK, Pins!Words
<1>1. ASSUME NEW b \in Pins!Box, NEW i \in Pin, Pins!Change(b, i)
      PROVE  PinsInv'
  <2>1. gpioMailboxSvc' \in Pins!Words
    BY <1>1, <1>0 DEF Pins!Change, Pins!Words
  <2>2. UNCHANGED Pins!device
    BY <1>1 DEF Pins!Change
  <2> QED
    BY <2>1, <2>2 DEF Pins!device, Pins!TypeOK, HighIsAsked
<1>2. ASSUME NEW b \in Pins!Box, Pins!Arrive(b)
      PROVE  gms' \in Pins!Words
  BY <1>0, <1>2 DEF Pins!Arrive, Pins!TypeOK, Pins!Words
<1>3. CASE Pins!PinModeChange
  <2>1. gms' \in Pins!Words
    BY <1>2, <1>3 DEF Pins!PinModeChange, Pins!Box
  <2> QED
    BY <1>0, <1>3, <2>1 DEF Pins!PinModeChange, Pins!Box, Pins!TypeOK, HighIsAsked
<1>4. CASE Pins!PinValueChange
  <2>1. gms' \in Pins!Words
    BY <1>2, <1>4 DEF Pins!PinValueChange, Pins!Box
  <2> QED
    BY <1>0, <1>4, <2>1 DEF Pins!PinValueChange, Pins!Box, Pins!TypeOK, HighIsAsked, Pins!Written, Pins!Driven
<1>5. CASE Pins!PwmEnableChange
  <2>1. gms' \in Pins!Words
    BY <1>2, <1>5 DEF Pins!PwmEnableChange, Pins!Box
  <2> QED
    BY <1>0, <1>5, <2>1 DEF Pins!PwmEnableChange, Pins!LevelsAfterEnable, Pins!Box, Pins!TypeOK, HighIsAsked, Pins!Written, Pins!Driven
<1>6. CASE Pins!Loop
  <2>1. pwmCounter' \in 0..(PWMPeriod - 1)
    BY <1>6, PinsAssumption DEF Pins!Loop, Pins!NextCount, Pins!TypeOK, Pins!PeriodAssumption
  <2>2. /\ UNCHANGED <<gpioMailboxSvc, gms, pinModes, pinValues, pwmEnables, outputs>>
        /\ \/ high' = high \cup (pinModes \cap pwmEnables)
           \/ high' = high \ (pinModes \cap pwmEnables)
    BY <1>6 DEF Pins!Loop
  <2> QED
    BY <2>1, <2>2 DEF Pins!TypeOK, HighIsAsked
<1>7. CASE UNCHANGED Pins!vars
  BY <1>7 DEF Pins!vars, Pins!device, Pins!TypeOK, HighIsAsked
<1> QED
  BY <1>1, <1>3, <1>4, <1>5, <1>6, <1>7 DEF Pins!Next

(* No pin is driven HIGH that has not been asked to be, in whatever order  *)
(* modes, values and enables arrive (makernet_g2_gpio.ino 36-62, 104-111). *)
THEOREM NoPinIsStray == Spec => []NoStrayHigh
<1>1. PinsInv /\ [Pins!Next]_(Pins!vars) => PinsInv'
  BY NextPins
<1>2. PinsInv => NoStrayHigh
  BY DEF PinsInv, HighIsAsked, NoStrayHigh, Pins!NoStrayHigh
<1> QED
  BY InitPins, <1>1, <1>2, PinsRun, PTL DEF Pins!Spec
-------------------------------------------------------------------------------
(* The keypad, for one key at a time.                                      *)

(* The mailbox after a scan that has found the changes next of keys; a     *)
(* single event is enqueued as it is.                                      *)
Enqueued(m, next, keys) ==
  Keypad!FoldLeft(LAMBDA b, x : Keypad!EnqueueEvent(b, Keypad!Event(x, next[x])), m, keys)

LEMMA FoldOfOne ==
  ASSUME NEW k, NEW m, NEW next, NEW keys, keys = [i \in 1..1 |-> k]
  PROVE  Enqueued(m, next, keys) = Keypad!EnqueueEvent(m, Keypad!Event(k, next[k]))
<1> DEFINE one == Keypad!EnqueueEvent(m, Keypad!Event(k, next[k]))
           Body(iter) == [s \in SUBSET DOMAIN keys |->
                            IF s = {} THEN m
                            ELSE Keypad!EnqueueEvent(iter[s \ {Keypad!Max(s)}],
                                   Keypad!Event(keys[Keypad!Max(s)], next[keys[Keypad!Max(s)]]))]
           fold == CHOOSE iter : iter = Body(iter)
<1>1. DOMAIN keys = {1} /\ keys[1] = k
  OBVIOUS
<1>2. Keypad!Max({1}) = 1
  BY DEF Keypad!Max
<1>3. {1} # {} /\ {1} \ {1} = {} /\ {} \in SUBSET {1} /\ {1} \in SUBSET {1}
  OBVIOUS
<1>4. Enqueued(m, next, keys) = fold[DOMAIN keys]
  BY DEF Enqueued, Keypad!FoldLeft, Keypad!MapThenFoldSet
<1>5. \E iter : iter = Body(iter)
  <2> DEFINE w == [s \in SUBSET DOMAIN keys |-> IF s = {} THEN m ELSE one]
  <2>1. w[{}] = m
    BY <1>1
  <2>2. ASSUME NEW s \in SUBSET DOMAIN keys PROVE w[s] = Body(w)[s]
    <3>1. CASE s = {}
      BY <3>1
    <3>2. CASE s = {1}
      <4>1. s \ {Keypad!Max(s)} = {} /\ keys[Keypad!Max(s)] = k
        BY <1>1, <1>2, <3>2
      <4> HIDE DEF w
      <4>2. Body(w)[s] = one
        BY <3>2, <4>1, <2>1, <1>3
      <4>3. w[s] = one
        BY <3>2 DEF w
      <4> QED
        BY <4>2, <4>3
    <3> QED
      BY <1>1, <3>1, <3>2
  <2>3. w = Body(w)
    BY <2>2
  <2> QED
    BY <2>3
<1>6. fold = Body(fold)
  <2> HIDE DEF Body
  <2> QED
    BY <1>5 DEF fold
<1> HIDE DEF fold
<1>7. fold[{}] = m
  BY <1>1, <1>3, <1>6
<1>8. fold[{1}] = Body(fold)[{1}]
  <2> HIDE DEF Body
  <2> QED
    BY <1>6
<1>9. Body(fold)[{1}] = one
  BY <1>1, <1>2, <1>3, <1>7
<1> QED
  BY <1>1, <1>4, <1>8, <1>9

(* The lamps that only the keys switch, and those of them that should be   *)
(* on.                                                                     *)
Steady == Lit \ Blinking
DownKeys == {k \in Steady : state[k] \in {"PRESSED", "HELD"}}

(* While an event is not acknowledged, it is the last change of its key,   *)
(* it still is an event, and only its own lamp may be behind.              *)
Pending(e) == /\ e.key \in Key /\ e.action = state[e.key]
              /\ device.changeTrigger /\ device.callerChanged
              /\ (lamp \cap Steady) \ {e.key} = DownKeys \ {e.key}

KeypadInv == /\ state \in [Key -> {"PRESSED", "HELD", "RELEASED", "IDLE"}]
             /\ lamp \subseteq Lit
             /\ device \in [contents : Events, synchronized : BOOLEAN, callerChanged : BOOLEAN,
                            changeTrigger : BOOLEAN, waiting : BOOLEAN]
             /\ IF device.synchronized THEN lamp \cap Steady = DownKeys ELSE Pending(device.contents)

LEMMA InitKeypad == Keypad!Init => KeypadInv
<1> SUFFICES ASSUME Keypad!Init PROVE KeypadInv
  OBVIOUS
<1>1. Steady \subseteq Key
  BY KeypadAssumption DEF Keypad!LampAssumption, Steady
<1>2. \A k \in Key : state[k] = "IDLE"
  BY DEF Keypad!Init
<1>3. lamp \cap Steady = DownKeys
  BY <1>1, <1>2 DEF Keypad!Init, DownKeys
<1> QED
  BY <1>3 DEF Keypad!Init, Keypad!NewMailbox, KeypadInv, Events

LEMMA ScanKeepsKeypad ==
  ASSUME KeypadInv, Paced, NEW keys \in [1..1 -> Key], Keypad!Scan(keys)
  PROVE  KeypadInv'
<1> DEFINE k == keys[1]
<1>1. k \in Key /\ keys = [i \in 1..1 |-> k] /\ Keypad!ToSet(keys) = {k}
  BY DEF Keypad!ToSet
<1>2. PICK next \in [{k} -> {"PRESSED", "HELD", "RELEASED", "IDLE"}] :
        /\ state' = [x \in Key |-> IF x \in {k} THEN next[x] ELSE state[x]]
        /\ device' = Enqueued(device, next, keys)
  <2>1. \E next \in [Keypad!ToSet(keys) -> {"PRESSED", "HELD", "RELEASED", "IDLE"}] :
           /\ \A x \in Keypad!ToSet(keys) : next[x] \in Keypad!Successors(state[x])
           /\ state' = [x \in Key |-> IF x \in Keypad!ToSet(keys) THEN next[x] ELSE state[x]]
           /\ device' = Enqueued(device, next, keys)
           /\ unheard' = unheard \cup {Keypad!Event(x, next[x]) : x \in Keypad!ToSet(keys)}
    BY Zenon DEF Keypad!Scan, Enqueued
  <2> QED
    BY <1>1, <2>1
<1>3. device' = Keypad!EnqueueEvent(device, Keypad!Event(k, next[k]))
  BY <1>1, <1>2, FoldOfOne
<1> HIDE DEF k
<1> DEFINE e == [key |-> k, action |-> next[k]]
<1>4. device' = [device EXCEPT !.contents = e, !.synchronized = FALSE, !.callerChanged = TRUE,
                               !.changeTrigger = TRUE, !.waiting = FALSE]
  BY <1>3 DEF Keypad!EnqueueEvent, Keypad!Event, Keypad!SetLong
<1>5. next[k] \in {"PRESSED", "HELD", "RELEASED", "IDLE"} /\ e \in Events
  BY <1>1, <1>2 DEF Events
<1>6. lamp' = lamp /\ lamp \cap Steady = DownKeys /\ lamp \subseteq Lit
  BY DEF Keypad!Scan, KeypadInv
<1>7. state' \in [Key -> {"PRESSED", "HELD", "RELEASED", "IDLE"}] /\ state'[k] = next[k]
      /\ \A x \in Key \ {k} : state'[x] = state[x]
  BY <1>1, <1>2, <1>5 DEF KeypadInv
<1>8. DownKeys' \ {k} = DownKeys \ {k}
  <2>1. Steady \subseteq Key
    BY KeypadAssumption DEF Keypad!LampAssumption, Steady
  <2> QED
    BY <1>7, <2>1 DEF DownKeys, Steady
<1>9. /\ device' \in [contents : Events, synchronized : BOOLEAN, callerChanged : BOOLEAN,
                      changeTrigger : BOOLEAN, waiting : BOOLEAN]
      /\ ~device'.synchronized /\ device'.changeTrigger /\ device'.callerChanged
      /\ device'.contents = e
  <2> HIDE DEF e
  <2> QED
    BY <1>4, <1>5 DEF KeypadInv
<1>10. Pending(e)'
  BY <1>1, <1>6, <1>7, <1>8, <1>9 DEF Pending, Steady
<1>11. lamp' \subseteq Lit
  BY <1>6
<1> HIDE DEF e
<1> QED
  BY <1>7, <1>9, <1>10, <1>11 DEF KeypadInv

LEMMA DeliverKeepsKeypad ==
  ASSUME KeypadInv, Keypad!Deliver
  PROVE  KeypadInv'
<1> DEFINE e == device.contents
<1>1. Pending(e) /\ ~device.synchronized
  BY DEF Keypad!Deliver, Keypad!HasPendingChanges, KeypadInv
<1>2. Keypad!Hears
  BY <1>1 DEF Pending, Keypad!Hears, Keypad!WasTriggered, Keypad!Message, Keypad!GeneratedCommand
<1>3. /\ state' = state
      /\ lamp' = (lamp \ {e.key}) \cup {k \in {e.key} \cap Lit : e.action \in {"PRESSED", "HELD"}}
  BY <1>2 DEF Keypad!Deliver, Keypad!LampAfter, Keypad!IsDown
<1>4. lamp' \cap Steady = DownKeys /\ lamp' \subseteq Lit
  <2>1. lamp' \subseteq Lit
    BY <1>3 DEF KeypadInv
  <2>2. \A k \in Steady \ {e.key} : k \in lamp' <=> k \in DownKeys
    BY <1>1, <1>3 DEF Pending
  <2>3. e.key \in Steady => (e.key \in lamp' <=> e.key \in DownKeys)
    BY <1>1, <1>3 DEF Pending, DownKeys, Steady
  <2> QED
    BY <2>1, <2>2, <2>3 DEF DownKeys
<1>5. DownKeys' = DownKeys
  BY <1>3 DEF DownKeys
<1>6. \/ device' = [device EXCEPT !.waiting = TRUE, !.synchronized = TRUE, !.changeTrigger = FALSE]
      \/ device' = [device EXCEPT !.waiting = TRUE]
  <2>1. CASE device' = Keypad!AfterAck(Keypad!AfterGenerate(device), e)
    BY <2>1 DEF Keypad!AfterAck, Keypad!AfterGenerate, KeypadInv
  <2>2. CASE device' = Keypad!AfterGenerate(device)
    BY <2>2 DEF Keypad!AfterGenerate
  <2> QED
    BY <2>1, <2>2 DEF Keypad!Deliver
<1>7. CASE device' = [device EXCEPT !.waiting = TRUE, !.synchronized = TRUE, !.changeTrigger = FALSE]
  BY <1>3, <1>4, <1>5, <1>7 DEF KeypadInv, Steady
<1>8. CASE device' = [device EXCEPT !.waiting = TRUE]
  <2>1. /\ ~device'.synchronized /\ device'.contents = e
        /\ device'.changeTrigger = device.changeTrigger /\ device'.callerChanged = device.callerChanged
        /\ device' \in [contents : Events, synchronized : BOOLEAN, callerChanged : BOOLEAN,
                        changeTrigger : BOOLEAN, waiting : BOOLEAN]
    BY <1>1, <1>8 DEF KeypadInv
  <2>2. Pending(e)'
    BY <1>1, <1>3, <1>4, <1>5, <2>1 DEF Pending, Steady
  <2>3. lamp' \subseteq Lit
    BY <1>4
  <2> QED
    BY <1>3, <2>1, <2>2, <2>3 DEF KeypadInv
<1> QED
  BY <1>6, <1>7, <1>8

(* Whatever blinks, the other lamps stay as they are.                      *)
LEMMA BlinkKeepsKeypad ==
  ASSUME KeypadInv, Keypad!Blink
  PROVE  KeypadInv'
<1>1. Blinking \subseteq Lit
  BY KeypadAssumption DEF Keypad!LampAssumption
<1>2. state' = state /\ device' = device
  BY DEF Keypad!Blink
<1>3. lamp' \subseteq Lit /\ lamp' \cap Steady = lamp \cap Steady
  BY <1>1 DEF Keypad!Blink, KeypadInv, Steady
<1>4. DownKeys' = DownKeys
  BY <1>2 DEF DownKeys, Steady
<1>5. CASE device.synchronized
  BY <1>2, <1>3, <1>4, <1>5 DEF KeypadInv, Steady
<1>6. CASE ~device.synchronized
  <2>1. Pending(device.contents)'
    BY <1>2, <1>3, <1>4, <1>6 DEF KeypadInv, Pending, Steady
  <2> QED
    BY <1>2, <1>3, <1>6, <2>1 DEF KeypadInv
<1> QED
  BY <1>5, <1>6

LEMMA NextKeypad ==
  ASSUME ScanSize = 1, Paced, KeypadInv, [Keypad!Next]_(Keypad!vars)
  PROVE  KeypadInv'
<1>1. ASSUME NEW n \in 1..ScanSize, NEW keys \in [1..n -> Key], Keypad!Scan(keys) PROVE KeypadInv'
  BY <1>1, ScanKeepsKeypad
<1>2. CASE Keypad!Elapse \/ Keypad!Lose
  <2>1. UNCHANGED <<state, lamp>> /\ \E b \in BOOLEAN : device' = [device EXCEPT !.waiting = b]
    BY <1>2 DEF Keypad!Elapse, Keypad!Lose, Keypad!AfterGenerate
  <2>2. /\ device'.synchronized = device.synchronized /\ device'.contents = device.contents
        /\ device'.changeTrigger = device.changeTrigger /\ device'.callerChanged = device.callerChanged
        /\ device' \in [contents : Events, synchronized : BOOLEAN, callerChanged : BOOLEAN,
                        changeTrigger : BOOLEAN, waiting : BOOLEAN]
    BY <2>1 DEF KeypadInv
  <2> QED
    BY <2>1, <2>2 DEF KeypadInv, Pending, DownKeys, Steady
<1>3. CASE Keypad!Deliver
  BY <1>3, DeliverKeepsKeypad
<1>4. CASE Keypad!Blink
  BY <1>4, BlinkKeepsKeypad
<1>5. CASE UNCHANGED Keypad!vars
  BY <1>5 DEF Keypad!vars, KeypadInv, Pending, DownKeys, Steady
<1> QED
  BY <1>1, <1>2, <1>3, <1>4, <1>5 DEF Keypad!Next

(* When the keypad's mailbox has nothing to push, the lamps that loop()    *)
(* leaves alone are those of the keys that are down, whatever values and   *)
(* acknowledgements are lost, if a scan finds one key and waits for the    *)
(* acknowledgement of the last event (KeypadPeripheral.cpp 36-48,          *)
(* makernet_g2_master_cducore.ino 22-25, 51-54): for any keys and lamps.   *)
THEOREM LampsAreRight ==
  ASSUME ScanSize = 1, Paced
  PROVE  Spec => []LampsFollow
<1>1. KeypadInv /\ [Keypad!Next]_(Keypad!vars) => KeypadInv'
  BY NextKeypad
<1>2. KeypadInv => LampsFollow
  BY DEF KeypadInv, DownKeys, Steady, LampsFollow, Keypad!LampsFollow
<1> QED
  BY InitKeypad, <1>1, <1>2, KeypadRuns, PTL DEF Keypad!Spec
-------------------------------------------------------------------------------
(* The list of peripherals.                                                *)

(* Induction over the numbers, for a set of them.                          *)
LEMMA Least ==
  ASSUME NEW T, T \subseteq Nat, T # {}
  PROVE  \E x \in T : \A y \in T : x <= y
<1>1. PICK R : R = OpToRel(<, Nat)
  OBVIOUS
<1>2. IsWellFoundedOn(R, Nat)
  BY <1>1, NatLessThanWellFounded
<1>3. \A x, y \in Nat : y < x => <<y, x>> \in R
  BY <1>1 DEF OpToRel
<1>4. PICK x \in T : \A y \in T : ~(<<y, x>> \in R)
  BY <1>2, WFMin
<1>5. ASSUME NEW y \in T PROVE x <= y
  <2>1. x \in Nat /\ y \in Nat
    OBVIOUS
  <2>2. ~(y < x)
    BY <1>3, <1>4, <2>1
  <2> QED
    BY <2>1, <2>2
<1> QED
  BY <1>5

LEMMA Induct ==
  ASSUME NEW T, 0 \in T, \A n \in Nat : n \in T => n + 1 \in T
  PROVE  Nat \subseteq T
<1> SUFFICES ASSUME Nat \ T # {} PROVE FALSE
  OBVIOUS
<1>1. PICK x \in Nat \ T : \A y \in Nat \ T : x <= y
  BY Least
<1>2. x # 0 /\ x - 1 \in Nat
  BY <1>1
<1>3. x - 1 \in T
  BY <1>1, <1>2
<1> QED
  BY <1>2, <1>3

(* The list is the living objects that have not seen a younger one         *)
(* destroyed, each of them once, in the order of their construction.       *)
Linked(n) == /\ outlived \in 0..n
             /\ firstPeripheral = IF outlived < n THEN alive[outlived + 1] ELSE NULL
             /\ outlived < n => nextPeripheral[alive[n]] = NULL
             /\ \A k \in (outlived + 1)..(n - 1) : nextPeripheral[alive[k]] = alive[k + 1]

ListInv == /\ nextPeripheral \in [Object -> Object \cup {NULL}]
           /\ \E n \in 0..Cardinality(Object) :
                 /\ alive \in [1..n -> Object]
                 /\ \A i, j \in 1..n : alive[i] = alive[j] => i = j
                 /\ Linked(n)

LEMMA Objects == IsFiniteSet(Object) /\ NULL \notin Object /\ Cardinality(Object) \in Nat
<1>1. IsFiniteSet(Object) /\ NULL \notin Object
  BY PeripheralsAssumption DEF Peripherals!ObjectAssumption, Peripherals!IsFiniteSet, IsFiniteSet
<1> QED
  BY <1>1, FS_CardinalityType

(* An order without repetition is no longer than there are objects.        *)
LEMMA NoLongerThanObjects ==
  ASSUME NEW n \in Nat, NEW f \in [1..n -> Object], \A i, j \in 1..n : f[i] = f[j] => i = j
  PROVE  n <= Cardinality(Object)
<1>1. IsFiniteSet(1..n) /\ Cardinality(1..n) = n
  BY FS_Interval
<1>2. f \in Injection(1..n, Object)
  BY DEF Injection, IsInjective
<1> QED
  BY <1>1, <1>2, Objects, FS_Injection

(* The walk goes through these objects and then stays at the end.          *)
LEMMA WalkIsAlive ==
  ASSUME NEW n \in 0..Cardinality(Object), alive \in [1..n -> Object], Linked(n)
  PROVE  /\ DOMAIN Peripherals!Walk = 0..Cardinality(Object)
         /\ \A k \in 0..Cardinality(Object) :
               Peripherals!Walk[k] = IF k < n - outlived THEN alive[outlived + k + 1] ELSE NULL
<1> DEFINE C == Cardinality(Object)
           Steps(visit) == [k \in 0..C |-> IF k = 0 THEN firstPeripheral
                                         ELSE IF visit[k - 1] = NULL THEN NULL
                                              ELSE nextPeripheral[visit[k - 1]]]
           walk == CHOOSE visit : visit = Steps(visit)
           w == [k \in 0..C |-> IF k < n - outlived THEN alive[outlived + k + 1] ELSE NULL]
<1>1. C \in Nat /\ NULL \notin Object /\ n \in Nat /\ outlived \in Nat /\ outlived <= n
  BY Objects DEF Linked
<1> HIDE DEF C
<1>2. ASSUME NEW k \in 0..C PROVE w[k] = Steps(w)[k]
  <2>1. CASE k = 0
    BY <1>1, <2>1 DEF Linked
  <2>2. CASE k # 0
    <3>1. k - 1 \in 0..C /\ w[k - 1] = (IF k - 1 < n - outlived THEN alive[outlived + k] ELSE NULL)
      BY <1>1, <2>2
    <3>2. Steps(w)[k] = IF w[k - 1] = NULL THEN NULL ELSE nextPeripheral[w[k - 1]]
      BY <2>2
    <3> HIDE DEF w
    <3>3. CASE k < n - outlived
      <4>1. outlived + k \in (outlived + 1)..(n - 1) /\ alive[outlived + k] # NULL
        BY <1>1, <2>2, <3>3
      <4> QED
        BY <1>1, <3>1, <3>2, <3>3, <4>1 DEF Linked, w
    <3>4. CASE k = n - outlived
      <4>1. outlived + k = n /\ alive[n] # NULL /\ nextPeripheral[alive[n]] = NULL
        BY <1>1, <2>2, <3>4 DEF Linked
      <4> QED
        BY <1>1, <3>1, <3>2, <3>4, <4>1 DEF w
    <3>5. CASE k > n - outlived
      BY <1>1, <3>1, <3>2, <3>5 DEF w
    <3> QED
      BY <1>1, <3>3, <3>4, <3>5
  <2> QED
    BY <2>1, <2>2
<1>3. w = Steps(w)
  BY <1>2
<1>4. walk = Steps(walk)
  <2> HIDE DEF w, Steps
  <2> QED
    BY <1>3 DEF walk
<1> HIDE DEF walk
<1> DEFINE Same == {k \in Nat : k \in 0..C => walk[k] = w[k]}
<1>5. 0 \in Same
  <2>1. walk[0] = Steps(walk)[0] /\ w[0] = Steps(w)[0]
    <3> HIDE DEF Steps, w
    <3> QED
      BY <1>3, <1>4
  <2> HIDE DEF w
  <2> QED
    BY <1>1, <2>1
<1>6. ASSUME NEW k \in Nat, k \in Same PROVE k + 1 \in Same
  <2> SUFFICES ASSUME k + 1 \in 0..C PROVE walk[k + 1] = w[k + 1]
    OBVIOUS
  <2>1. walk[k + 1] = Steps(walk)[k + 1] /\ w[k + 1] = Steps(w)[k + 1]
    <3> HIDE DEF Steps, w
    <3> QED
      BY <1>3, <1>4
  <2> HIDE DEF w
  <2>2. walk[k] = w[k]
    BY <1>1, <1>6
  <2> QED
    BY <1>1, <2>1, <2>2
<1>7. Nat \subseteq Same
  <2> HIDE DEF Same
  <2> QED
    BY <1>5, <1>6, Induct
<1>8. Peripherals!Walk = walk
  BY DEF Peripherals!Walk, walk, C, Peripherals!Cardinality, Cardinality
<1>9. \A k \in 0..C : walk[k] = w[k]
  <2> HIDE DEF w
  <2> QED
    BY <1>1, <1>7
<1>10. DOMAIN walk = 0..C
  <2>1. DOMAIN Steps(walk) = 0..C
    OBVIOUS
  <2> HIDE DEF Steps
  <2> QED
    BY <1>4, <2>1
<1> QED
  BY <1>8, <1>9, <1>10 DEF C

LEMMA ReachedIsYoungest ==
  ASSUME NEW n \in 0..Cardinality(Object), alive \in [1..n -> Object], Linked(n)
  PROVE  Peripherals!Reached = {alive[k] : k \in (outlived + 1)..n}
<1>1. n \in Nat /\ outlived \in 0..n /\ \A k \in (outlived + 1)..n : alive[k] # NULL
  BY Objects DEF Linked
<1>2. Peripherals!Reached = {Peripherals!Walk[k] : k \in 0..Cardinality(Object)} \ {NULL}
  BY WalkIsAlive DEF Peripherals!Reached
<1>3. ASSUME NEW k \in (outlived + 1)..n
      PROVE  k - outlived - 1 \in 0..Cardinality(Object) /\ Peripherals!Walk[k - outlived - 1] = alive[k]
  <2>1. /\ k - outlived - 1 \in 0..Cardinality(Object) /\ k - outlived - 1 < n - outlived
        /\ outlived + (k - outlived - 1) + 1 = k
    BY Objects, <1>1
  <2> QED
    BY WalkIsAlive, <2>1
<1>4. \A k \in 0..Cardinality(Object) :
         Peripherals!Walk[k] # NULL => /\ outlived + k + 1 \in (outlived + 1)..n
                                       /\ Peripherals!Walk[k] = alive[outlived + k + 1]
  BY WalkIsAlive, Objects, <1>1
<1>5. Peripherals!Reached \subseteq {alive[k] : k \in (outlived + 1)..n}
  BY <1>2, <1>4
<1>6. {alive[k] : k \in (outlived + 1)..n} \subseteq Peripherals!Reached
  BY <1>1, <1>2, <1>3
<1> QED
  BY <1>5, <1>6

LEMMA InitList == Peripherals!Init => ListInv
BY Objects DEF Peripherals!Init, ListInv, Linked

LEMMA ConstructKeepsList ==
  ASSUME ListInv, NEW o \in Object, nextPeripheral[o] = NULL, Peripherals!Construct(o)
  PROVE  ListInv'
<1>1. PICK n \in 0..Cardinality(Object) :
        /\ alive \in [1..n -> Object]
        /\ \A i, j \in 1..n : alive[i] = alive[j] => i = j
        /\ Linked(n)
  BY DEF ListInv
<1>2. /\ n \in Nat /\ n + 1 \in Nat /\ Len(alive) = n /\ DOMAIN alive = 1..n
      /\ outlived \in 0..n /\ outlived' = outlived
  BY <1>1, Objects DEF Linked, Peripherals!Construct
<1>3. \A k \in 1..n : alive[k] # o
  BY <1>2 DEF Peripherals!Construct, Peripherals!Living
<1>4. /\ alive' \in [1..(n + 1) -> Object]
      /\ alive'[n + 1] = o
      /\ \A k \in 1..n : alive'[k] = alive[k]
  BY <1>1, <1>2 DEF Peripherals!Construct
<1>5. \A i, j \in 1..(n + 1) : alive'[i] = alive'[j] => i = j
  BY <1>1, <1>2, <1>3, <1>4
<1>6. n + 1 <= Cardinality(Object)
  <2> DEFINE f == alive'
  <2>1. f \in [1..(n + 1) -> Object] /\ \A i, j \in 1..(n + 1) : f[i] = f[j] => i = j
    BY <1>4, <1>5
  <2> HIDE DEF f
  <2> QED
    BY <1>2, <2>1, NoLongerThanObjects
<1>7. CASE outlived = n
  <2>1. firstPeripheral = NULL
    BY <1>1, <1>2, <1>7 DEF Linked
  <2>2. firstPeripheral' = o /\ nextPeripheral' = nextPeripheral
    BY <2>1 DEF Peripherals!Construct, Peripherals!Link
  <2>3. Linked(n + 1)'
    BY <1>2, <1>4, <1>7, <2>2 DEF Linked
  <2>4. nextPeripheral' \in [Object -> Object \cup {NULL}] /\ n + 1 \in 0..Cardinality(Object)
    BY <1>2, <1>6, <2>2, Objects DEF ListInv
  <2> QED
    BY <1>4, <1>5, <2>3, <2>4 DEF ListInv
<1>8. CASE outlived # n
  <2>1. /\ outlived + 1 \in 1..n /\ n \in 1..n /\ firstPeripheral = alive[outlived + 1]
        /\ alive[outlived + 1] # NULL /\ nextPeripheral[alive[n]] = NULL
    BY <1>1, <1>2, <1>8, Objects DEF Linked
  <2>2. PICK last \in {alive[k] : k \in (outlived + 1)..n} :
          /\ nextPeripheral[last] = NULL
          /\ nextPeripheral' = [nextPeripheral EXCEPT ![last] = o]
          /\ firstPeripheral' = firstPeripheral
    BY <1>1, <2>1, ReachedIsYoungest DEF Peripherals!Construct, Peripherals!Link
  <2>3. PICK k \in (outlived + 1)..n : last = alive[k]
    BY <2>2
  <2>4. k = n
    <3> SUFFICES ASSUME k \in (outlived + 1)..(n - 1) PROVE FALSE
      BY <1>2, <2>3
    <3>1. nextPeripheral[alive[k]] = alive[k + 1] /\ k + 1 \in 1..n
      BY <1>1, <1>2 DEF Linked
    <3> QED
      BY <1>1, <2>2, <2>3, <3>1, Objects
  <2>5. \A i \in 1..n : i # n => alive[i] # alive[n]
    BY <1>1, <1>2, <2>1
  <2>6. /\ nextPeripheral' \in [Object -> Object \cup {NULL}]
        /\ nextPeripheral'[alive[n]] = o
        /\ \A i \in 1..(n - 1) : nextPeripheral'[alive[i]] = nextPeripheral[alive[i]]
        /\ nextPeripheral'[o] = NULL
    <3>1. alive[n] \in Object /\ alive[n] # o
      BY <1>1, <1>2, <1>3, <2>1
    <3>2. nextPeripheral' = [nextPeripheral EXCEPT ![alive[n]] = o]
      BY <2>2, <2>3, <2>4
    <3>3. \A i \in 1..(n - 1) : alive[i] \in Object /\ alive[i] # alive[n]
      BY <1>1, <1>2, <2>5
    <3> QED
      BY <3>1, <3>2, <3>3 DEF ListInv
  <2>7. ASSUME NEW i \in (outlived + 1)..n PROVE nextPeripheral'[alive'[i]] = alive'[i + 1]
    <3>1. CASE i = n
      BY <1>2, <1>4, <2>1, <2>6, <3>1
    <3>2. CASE i # n
      <4>1. i \in 1..(n - 1) /\ i \in (outlived + 1)..(n - 1) /\ i + 1 \in 1..n
        BY <1>2, <3>2
      <4> QED
        BY <1>1, <1>4, <2>6, <4>1 DEF Linked
    <3> QED
      BY <3>1, <3>2
  <2>8. firstPeripheral' = alive'[outlived + 1]
    BY <1>2, <1>4, <2>1, <2>2
  <2>9. Linked(n + 1)'
    <3>1. outlived' \in 0..(n + 1) /\ outlived' < n + 1 /\ (n + 1) - 1 = n
      BY <1>2
    <3> QED
      BY <1>2, <1>4, <2>6, <2>7, <2>8, <3>1 DEF Linked
  <2>10. n + 1 \in 0..Cardinality(Object)
    BY <1>2, <1>6, Objects
  <2> QED
    BY <1>4, <1>5, <2>6, <2>9, <2>10 DEF ListInv
<1> QED
  BY <1>7, <1>8

(* When an object of the list is destroyed, its successor is the first.    *)
LEMMA DestroyKeepsList ==
  ASSUME ListInv, NEW o \in Object, Peripherals!Destroy(o)
  PROVE  ListInv'
<1>1. PICK n \in 0..Cardinality(Object) :
        /\ alive \in [1..n -> Object]
        /\ \A i, j \in 1..n : alive[i] = alive[j] => i = j
        /\ Linked(n)
  BY DEF ListInv
<1>2. n \in Nat /\ Len(alive) = n /\ DOMAIN alive = 1..n /\ outlived \in 0..n
  BY <1>1, Objects DEF Linked
<1>3. PICK a \in 1..n : alive[a] = o
  BY <1>2 DEF Peripherals!Destroy, Peripherals!Living
<1>4. (CHOOSE k \in DOMAIN alive : alive[k] = o) = a
  <2>1. a \in DOMAIN alive /\ \A k \in DOMAIN alive : alive[k] = o => k = a
    BY <1>1, <1>2, <1>3
  <2> QED
    BY <1>3, <2>1
<1>5. /\ alive' = [k \in 1..(n - 1) |-> IF k < a THEN alive[k] ELSE alive[k + 1]]
      /\ outlived' = (IF a > outlived THEN a ELSE outlived) - 1
      /\ firstPeripheral' = Peripherals!FirstWithout(o)
      /\ nextPeripheral' = nextPeripheral
  <2> DEFINE c == CHOOSE k \in DOMAIN alive : alive[k] = o
  <2>1. /\ alive' = [k \in 1..(Len(alive) - 1) |-> IF k < c THEN alive[k] ELSE alive[k + 1]]
        /\ outlived' = (IF c > outlived THEN c ELSE outlived) - 1
        /\ firstPeripheral' = Peripherals!FirstWithout(o)
        /\ nextPeripheral' = nextPeripheral
    BY DEF Peripherals!Destroy
  <2>2. c = a
    BY <1>4
  <2> HIDE DEF c
  <2> QED
    BY <1>2, <2>1, <2>2
<1>6. n - 1 \in Nat /\ n - 1 \in 0..Cardinality(Object)
  BY <1>2, <1>3, Objects
<1>7. ASSUME NEW k \in 1..(n - 1)
      PROVE  /\ k \in 1..n /\ k + 1 \in 1..n
             /\ alive'[k] = IF k < a THEN alive[k] ELSE alive[k + 1]
  BY <1>2, <1>5
<1>8. alive' \in [1..(n - 1) -> Object]
  BY <1>1, <1>5, <1>7
<1>9. \A i, j \in 1..(n - 1) : alive'[i] = alive'[j] => i = j
  BY <1>1, <1>2, <1>3, <1>7
<1>10. nextPeripheral' \in [Object -> Object \cup {NULL}]
  BY <1>5 DEF ListInv
<1>11. Peripherals!Reached = {alive[k] : k \in (outlived + 1)..n}
  BY <1>1, ReachedIsYoungest
<1>12. Linked(n - 1)'
  <2>1. CASE a > outlived
    <3>1. outlived' = a - 1 /\ a \in (outlived + 1)..n
      BY <1>2, <1>3, <1>5, <2>1
    <3>2. o \in Peripherals!Reached
      BY <1>3, <1>11, <3>1
    <3>3. firstPeripheral' = nextPeripheral[alive[a]]
      BY <1>3, <1>5, <3>2 DEF Peripherals!FirstWithout
    <3>4. CASE a = n
      <4>1. firstPeripheral' = NULL
        BY <1>1, <1>2, <2>1, <3>3, <3>4 DEF Linked
      <4>2. outlived' = n - 1 /\ outlived' \in 0..(n - 1) /\ ~(outlived' < n - 1)
        BY <1>6, <3>1, <3>4
      <4>3. (outlived' + 1)..((n - 1) - 1) = {}
        BY <1>6, <4>2
      <4> QED
        BY <4>1, <4>2, <4>3 DEF Linked
    <3>5. CASE a # n
      <4>1. a \in (outlived + 1)..(n - 1) /\ a \in 1..(n - 1) /\ n - 1 \in 1..(n - 1)
        BY <1>2, <1>3, <3>1, <3>5
      <4>2. firstPeripheral' = alive'[outlived' + 1]
        <5>1. nextPeripheral[alive[a]] = alive[a + 1]
          BY <1>1, <4>1 DEF Linked
        <5>2. alive'[a] = alive[a + 1] /\ outlived' + 1 = a
          BY <1>3, <1>7, <3>1, <4>1
        <5> QED
          BY <3>3, <5>1, <5>2
      <4>3. outlived' \in 0..(n - 1) /\ outlived' < n - 1 /\ ~(n - 1 < a) /\ (n - 1) + 1 = n
        BY <1>2, <1>3, <3>1, <4>1
      <4>4. nextPeripheral'[alive'[n - 1]] = NULL
        <5>1. alive'[n - 1] = alive[n]
          BY <1>7, <4>1, <4>3
        <5>2. nextPeripheral[alive[n]] = NULL
          BY <1>1, <1>2, <4>1 DEF Linked
        <5> QED
          BY <1>5, <5>1, <5>2
      <4>5. ASSUME NEW k \in (outlived' + 1)..((n - 1) - 1)
            PROVE  nextPeripheral'[alive'[k]] = alive'[k + 1]
        <5>1. /\ k \in 1..(n - 1) /\ k + 1 \in 1..(n - 1) /\ ~(k < a) /\ ~(k + 1 < a)
              /\ k + 1 \in (outlived + 1)..(n - 1)
          BY <1>2, <1>3, <3>1, <4>1
        <5>2. alive'[k] = alive[k + 1] /\ alive'[k + 1] = alive[(k + 1) + 1]
          BY <1>7, <5>1
        <5>3. nextPeripheral[alive[k + 1]] = alive[(k + 1) + 1]
          BY <1>1, <5>1 DEF Linked
        <5> QED
          BY <1>5, <5>2, <5>3
      <4> QED
        BY <4>2, <4>3, <4>4, <4>5 DEF Linked
    <3> QED
      BY <3>4, <3>5
  <2>2. CASE ~(a > outlived)
    <3>1. outlived' = outlived - 1 /\ a \in 1..outlived /\ outlived' \in 0..(n - 1)
      BY <1>2, <1>3, <1>5, <2>2
    <3>2. o \notin Peripherals!Reached
      <4>1. \A k \in (outlived + 1)..n : k \in 1..n /\ k # a
        BY <1>2, <3>1
      <4> QED
        BY <1>1, <1>3, <1>11, <4>1
    <3>3. firstPeripheral' = firstPeripheral
      BY <1>5, <3>2 DEF Peripherals!FirstWithout
    <3>4. ASSUME NEW k \in (outlived' + 1)..(n - 1)
          PROVE  /\ k \in 1..(n - 1) /\ k + 1 \in (outlived + 1)..n
                 /\ alive'[k] = alive[k + 1]
      <4>1. k \in 1..(n - 1) /\ k + 1 \in (outlived + 1)..n /\ ~(k < a)
        BY <1>2, <3>1
      <4> QED
        BY <1>7, <4>1
    <3>5. firstPeripheral' = IF outlived' < n - 1 THEN alive'[outlived' + 1] ELSE NULL
      <4>1. CASE outlived < n
        <5>1. outlived' + 1 \in (outlived' + 1)..(n - 1) /\ outlived' + 1 = outlived /\ outlived' < n - 1
          BY <1>2, <3>1, <4>1
        <5>2. alive'[outlived' + 1] = alive[outlived + 1]
          BY <3>4, <5>1
        <5> QED
          BY <1>1, <3>3, <4>1, <5>1, <5>2 DEF Linked
      <4>2. CASE ~(outlived < n)
        BY <1>1, <1>2, <3>1, <3>3, <4>2 DEF Linked
      <4> QED
        BY <4>1, <4>2
    <3>6. outlived' < n - 1 => nextPeripheral'[alive'[n - 1]] = NULL
      <4> SUFFICES ASSUME outlived' < n - 1 PROVE nextPeripheral'[alive'[n - 1]] = NULL
        OBVIOUS
      <4>1. n - 1 \in (outlived' + 1)..(n - 1) /\ (n - 1) + 1 = n /\ outlived < n
        BY <1>2, <3>1
      <4> QED
        BY <1>1, <1>5, <3>4, <4>1 DEF Linked
    <3>7. ASSUME NEW k \in (outlived' + 1)..((n - 1) - 1)
          PROVE  nextPeripheral'[alive'[k]] = alive'[k + 1]
      <4>1. /\ k \in (outlived' + 1)..(n - 1) /\ k + 1 \in (outlived' + 1)..(n - 1)
            /\ k + 1 \in (outlived + 1)..(n - 1)
        BY <1>2, <3>1
      <4>2. alive'[k] = alive[k + 1] /\ alive'[k + 1] = alive[(k + 1) + 1]
        BY <3>4, <4>1
      <4>3. nextPeripheral[alive[k + 1]] = alive[(k + 1) + 1]
        BY <1>1, <4>1 DEF Linked
      <4> QED
        BY <1>5, <4>2, <4>3
    <3> QED
      BY <3>1, <3>5, <3>6, <3>7 DEF Linked
  <2> QED
    BY <2>1, <2>2
<1> QED
  BY <1>6, <1>8, <1>9, <1>10, <1>12 DEF ListInv

LEMMA NextList ==
  ASSUME ListInv, [Peripherals!ZeroedNext]_(Peripherals!vars)
  PROVE  ListInv'
<1>1. CASE UNCHANGED <<firstPeripheral, nextPeripheral, alive, outlived>>
  BY <1>1 DEF ListInv, Linked
<1>2. CASE Peripherals!Initialize
  BY <1>1, <1>2 DEF Peripherals!Initialize
<1>3. ASSUME NEW o \in Object, nextPeripheral[o] = NULL, Peripherals!Construct(o) PROVE ListInv'
  BY <1>3, ConstructKeepsList
<1>4. ASSUME NEW o \in Object, Peripherals!Destroy(o) PROVE ListInv'
  BY <1>4, DestroyKeepsList
<1>5. CASE UNCHANGED Peripherals!vars
  BY <1>1, <1>5 DEF Peripherals!vars
<1> QED
  BY <1>2, <1>3, <1>4, <1>5 DEF Peripherals!ZeroedNext

(* A list that has been damaged by a destructor still holds every object   *)
(* that has not seen a younger one destroyed, and its walks go from older  *)
(* living objects to younger ones (BasePeripheral.cpp 20-36, 83-95), in    *)
(* whatever order objects are constructed, in memory that is zero, and     *)
(* destroyed: for any number of objects.                                   *)
THEOREM ListIsOrdered == Spec => []ListInOrder
<1>1. ListInv /\ [Peripherals!ZeroedNext]_(Peripherals!vars) => ListInv'
  BY NextList
<1>2. ListInv => ListInOrder
  <2> SUFFICES ASSUME ListInv PROVE Peripherals!ListInOrder
    BY DEF ListInOrder
  <2>1. PICK n \in 0..Cardinality(Object) :
          /\ alive \in [1..n -> Object]
          /\ \A i, j \in 1..n : alive[i] = alive[j] => i = j
          /\ Linked(n)
    BY DEF ListInv
  <2>2. n \in Nat /\ DOMAIN alive = 1..n /\ outlived \in 0..n
    BY <2>1, Objects DEF Linked
  <2>3. ASSUME NEW k \in DOMAIN alive, k > outlived PROVE alive[k] \in Peripherals!Reached
    <3>1. k \in (outlived + 1)..n
      BY <2>2, <2>3
    <3> QED
      BY <2>1, <3>1, ReachedIsYoungest
  <2>4. DOMAIN Peripherals!Walk = 0..Cardinality(Object) /\ Cardinality(Object) \in Nat
    BY <2>1, WalkIsAlive, Objects
  <2>5. ASSUME NEW k \in DOMAIN Peripherals!Walk, Peripherals!Walk[k] # NULL
        PROVE  \E j \in DOMAIN alive :
                  /\ Peripherals!Walk[k] = alive[j]
                  /\ k > 0 => \E i \in 1..(j - 1) : Peripherals!Walk[k - 1] = alive[i]
    <3>1. k < n - outlived /\ Peripherals!Walk[k] = alive[outlived + k + 1]
      BY <2>1, <2>4, <2>5, WalkIsAlive
    <3>2. outlived + k + 1 \in DOMAIN alive
      BY <2>2, <2>4, <3>1
    <3>3. ASSUME k > 0
          PROVE  \E i \in 1..((outlived + k + 1) - 1) : Peripherals!Walk[k - 1] = alive[i]
      <4>1. /\ k - 1 \in 0..Cardinality(Object) /\ k - 1 < n - outlived
            /\ outlived + (k - 1) + 1 = outlived + k /\ outlived + k \in 1..((outlived + k + 1) - 1)
        BY <2>2, <2>4, <3>1, <3>3
      <4>2. Peripherals!Walk[k - 1] = alive[outlived + k]
        BY <2>1, <4>1, WalkIsAlive
      <4> QED
        BY <4>1, <4>2
    <3> QED
      BY <3>1, <3>2, <3>3
  <2> QED
    BY <2>3, <2>5 DEF Peripherals!ListInOrder
<1> QED
  BY InitList, <1>1, <1>2, ListRuns, PTL DEF Peripherals!ZeroedSpec

-------------------------------------------------------------------------------
(* The reflector.                                                          *)

LEMMA ReflectorRuns == Spec => Reflector!Spec
<1>1. Init => Reflector!Init
  BY DEF Init
<1>2. [Next]_vars => [Reflector!Next]_(Reflector!vars)
  BY DEF Next, vars, reflectorVars, Reflector!vars
<1> QED
  BY <1>1, <1>2, PTL DEF Spec, Reflector!Spec

(* Bytes in their order: after last, or at the start of a frame.           *)
Between(last) == last = Reflector!NoFrame \/ last.at = BodySize
Fits(last, b) == IF Between(last) THEN b.at = 0 ELSE b = [last EXCEPT !.at = @ + 1]
InOrder(last, s) == \A k \in 1..Len(s) : Fits(IF k = 1 THEN last ELSE s[k - 1], s[k])
After(last, s) == IF Len(s) = 0 THEN last ELSE s[Len(s)]

LEMMA OrderOfConcat ==
  ASSUME NEW S, NEW s \in Seq(S), NEW t \in Seq(S), NEW last,
         InOrder(last, s), InOrder(After(last, s), t)
  PROVE  InOrder(last, s \o t) /\ After(last, s \o t) = After(After(last, s), t)
<1> DEFINE r == s \o t
           n == Len(s)
           m == Len(t)
<1>1. /\ n \in Nat /\ m \in Nat /\ Len(r) = n + m
      /\ \A k \in 1..(n + m) : r[k] = IF k <= n THEN s[k] ELSE t[k - n]
  BY ConcatProperties, LenProperties
<1> HIDE DEF r, n, m
<1>2. \A k \in 1..n : Fits(IF k = 1 THEN last ELSE s[k - 1], s[k])
  BY DEF InOrder, n
<1>3. \A k \in 1..m : Fits(IF k = 1 THEN After(last, s) ELSE t[k - 1], t[k])
  BY DEF InOrder, m
<1>4. After(last, s) = IF n = 0 THEN last ELSE s[n]
  BY DEF After, n
<1>5. ASSUME NEW k \in 1..(n + m) PROVE Fits(IF k = 1 THEN last ELSE r[k - 1], r[k])
  <2>1. CASE k <= n
    <3>1. k \in 1..n /\ r[k] = s[k] /\ (k # 1 => r[k - 1] = s[k - 1])
      BY <1>1, <2>1
    <3> QED
      BY <1>2, <3>1
  <2>2. CASE k = n + 1
    <3>0. 1 \in 1..m /\ ~(n + 1 <= n) /\ (n + 1) - n = 1 /\ n + 1 \in 1..(n + m) /\ (n + 1) - 1 = n
          /\ (n # 0 => n \in 1..(n + m)) /\ (k = 1 <=> n = 0)
      BY <1>1, <2>2
    <3>1. 1 \in 1..m /\ r[k] = t[1] /\ (k # 1 => n # 0 /\ r[k - 1] = s[n]) /\ (k = 1 => n = 0)
      BY <1>1, <2>2, <3>0
    <3>2. Fits(After(last, s), t[1])
      BY <1>3, <3>1
    <3> QED
      BY <1>4, <3>1, <3>2
  <2>3. CASE k > n + 1
    <3>1. k - n \in 1..m /\ k - n # 1 /\ k # 1 /\ r[k] = t[k - n] /\ r[k - 1] = t[(k - n) - 1]
      BY <1>1, <2>3
    <3>2. Fits(t[(k - n) - 1], t[k - n])
      BY <1>3, <3>1
    <3> QED
      BY <3>1, <3>2
  <2> QED
    BY <1>1, <2>1, <2>2, <2>3
<1>6. InOrder(last, r)
  BY <1>1, <1>5 DEF InOrder
<1>7. After(last, r) = After(After(last, s), t)
  <2>1. After(last, r) = (IF n + m = 0 THEN last ELSE r[n + m])
        /\ After(After(last, s), t) = IF m = 0 THEN After(last, s) ELSE t[m]
    BY <1>1 DEF After, m
  <2>2. CASE m = 0
    BY <1>1, <1>4, <2>1, <2>2
  <2>3. CASE m # 0
    <3>1. n + m # 0 /\ n + m \in 1..(n + m) /\ ~(n + m <= n) /\ (n + m) - n = m
      BY <1>1, <2>3
    <3> QED
      BY <1>1, <2>1, <2>3, <3>1
  <2> QED
    BY <2>2, <2>3
<1> QED
  BY <1>6, <1>7 DEF r

LEMMA OrderOfTail ==
  ASSUME NEW S, NEW s \in Seq(S), s # <<>>, NEW last, InOrder(last, s)
  PROVE  /\ Fits(last, Head(s)) /\ InOrder(Head(s), Tail(s))
         /\ After(Head(s), Tail(s)) = After(last, s)
<1> DEFINE t == Tail(s)
           n == Len(s)
<1>1. /\ n \in Nat /\ n >= 1 /\ Len(t) = n - 1 /\ Head(s) = s[1]
      /\ \A k \in 1..(n - 1) : t[k] = s[k + 1]
  BY HeadTailProperties, LenProperties, EmptySeq
<1>2. \A k \in 1..n : Fits(IF k = 1 THEN last ELSE s[k - 1], s[k])
  BY DEF InOrder
<1> HIDE DEF t, n
<1>3. Fits(last, s[1])
  BY <1>1, <1>2
<1>4. ASSUME NEW k \in 1..(n - 1) PROVE Fits(IF k = 1 THEN s[1] ELSE t[k - 1], t[k])
  <2>1. k + 1 \in 1..n /\ k + 1 # 1 /\ (k + 1) - 1 = k /\ t[k] = s[k + 1] /\ (k # 1 => t[k - 1] = s[k])
    BY <1>1
  <2>2. Fits(s[k], s[k + 1])
    BY <1>2, <2>1
  <2> QED
    BY <2>1, <2>2
<1>5. InOrder(s[1], t)
  BY <1>1, <1>4 DEF InOrder
<1>6. After(s[1], t) = (IF n - 1 = 0 THEN s[1] ELSE t[n - 1]) /\ After(last, s) = IF n = 0 THEN last ELSE s[n]
  BY <1>1 DEF After, n
<1>7. After(s[1], t) = After(last, s)
  <2>1. n - 1 # 0 => n - 1 \in 1..(n - 1) /\ (n - 1) + 1 = n
    BY <1>1
  <2> QED
    BY <1>1, <1>6, <2>1
<1> QED
  BY <1>1, <1>3, <1>5, <1>7 DEF t

(* What is between two frames is as good as no frame.                      *)
LEMMA OrderBetween ==
  ASSUME NEW S, NEW s \in Seq(S), NEW last, Between(last), InOrder(last, s)
  PROVE  /\ InOrder(Reflector!NoFrame, s)
         /\ \/ After(Reflector!NoFrame, s) = After(last, s)
            \/ Between(After(Reflector!NoFrame, s)) /\ Between(After(last, s))
<1>1. Between(Reflector!NoFrame)
  BY DEF Between
<1>2. \A b : Fits(last, b) => Fits(Reflector!NoFrame, b)
  BY <1>1 DEF Fits
<1>3. ASSUME NEW k \in 1..Len(s)
      PROVE  Fits(IF k = 1 THEN Reflector!NoFrame ELSE s[k - 1], s[k])
  BY <1>2 DEF InOrder
<1>4. InOrder(Reflector!NoFrame, s)
  BY <1>3 DEF InOrder
<1> QED
  BY <1>1, <1>4 DEF After

(* What the server takes from one stream it puts at the end of another.    *)
Divided(s, p, q, t) == (s \o p) \o q = s \o t

LEMMA Pieces ==
  ASSUME NEW S, NEW t \in Seq(S), NEW n \in 0..Len(t),
         NEW p, p = SubSeq(t, 1, n), NEW q, q = SubSeq(t, n + 1, Len(t))
  PROVE  p \in Seq(S) /\ Len(p) = n /\ q \in Seq(S) /\ Len(q) = Len(t) - n
<1>1. Len(t) \in Nat /\ n \in Nat /\ \A k \in 1..Len(t) : t[k] \in S
  BY LenProperties, ElementOfSeq
<1>2. p \in Seq(S) /\ Len(p) = n
  <2>1. \A k \in 1..n : t[k] \in S
    BY <1>1
  <2> QED
    BY <1>1, <2>1, SubSeqProperties
<1>3. q \in Seq(S) /\ Len(q) = Len(t) - n
  <2>1. \A k \in (n + 1)..Len(t) : t[k] \in S
    BY <1>1
  <2> QED
    BY <1>1, <2>1, SubSeqProperties
<1> QED
  BY <1>2, <1>3

LEMMA Moved ==
  \A S : \A s, t \in Seq(S) : \A n \in 0..Len(t) : Divided(s, SubSeq(t, 1, n), SubSeq(t, n + 1, Len(t)), t)
<1> SUFFICES ASSUME NEW S, NEW s \in Seq(S), NEW t \in Seq(S), NEW n \in 0..Len(t)
             PROVE  Divided(s, SubSeq(t, 1, n), SubSeq(t, n + 1, Len(t)), t)
  BY Zenon
<1> DEFINE p == SubSeq(t, 1, n)
           q == SubSeq(t, n + 1, Len(t))
<1>1. p \o q = t
  <2>1. p \o q = SubSeq(t, 1, Len(t))
    <3>1. 1 \in 1..(Len(t) + 1) /\ n \in (1 - 1)..Len(t) /\ Len(t) \in n..Len(t)
      BY LenProperties
    <3> QED
      BY <3>1, ConcatAdjacentSubSeq
  <2> QED
    BY <2>1, SubSeqFull
<1>2. (s \o p) \o q = s \o (p \o q)
  <2>1. p \in Seq(S) /\ q \in Seq(S)
    BY Pieces
  <2> HIDE DEF p, q
  <2> QED
    BY <2>1
<1> QED
  BY <1>1, <1>2, Zenon DEF Divided

LEMMA RestOfConcat ==
  ASSUME NEW S, NEW s \in Seq(S), NEW t \in Seq(S), s # <<>>
  PROVE  s \o t \in Seq(S) /\ s \o t # <<>> /\ Head(s \o t) = Head(s) /\ Tail(s \o t) = Tail(s) \o t
<1> DEFINE r == s \o t
           u == Tail(s) \o t
           n == Len(s)
           m == Len(t)
<1>1. /\ n \in Nat /\ n >= 1 /\ m \in Nat /\ r \in Seq(S) /\ Len(r) = n + m
      /\ \A k \in 1..(n + m) : r[k] = IF k <= n THEN s[k] ELSE t[k - n]
  BY ConcatProperties, LenProperties, EmptySeq
<1>2. Tail(s) \in Seq(S) /\ Len(Tail(s)) = n - 1 /\ \A k \in 1..(n - 1) : Tail(s)[k] = s[k + 1]
  BY HeadTailProperties
<1>3. /\ u \in Seq(S) /\ Len(u) = (n - 1) + m
      /\ \A k \in 1..((n - 1) + m) : u[k] = IF k <= n - 1 THEN Tail(s)[k] ELSE t[k - (n - 1)]
  BY <1>2, ConcatProperties
<1>4. r # <<>>
  BY <1>1, EmptySeq
<1>5. Tail(r) \in Seq(S) /\ Len(Tail(r)) = (n + m) - 1 /\ \A k \in 1..((n + m) - 1) : Tail(r)[k] = r[k + 1]
  BY <1>1, <1>4, HeadTailProperties
<1> HIDE DEF r, u, n, m
<1>6. ASSUME NEW k \in 1..((n + m) - 1) PROVE Tail(r)[k] = u[k]
  <2>1. k \in 1..((n - 1) + m) /\ k + 1 \in 1..(n + m) /\ Tail(r)[k] = r[k + 1]
    BY <1>1, <1>5
  <2>2. CASE k <= n - 1
    BY <1>1, <1>2, <1>3, <2>1, <2>2
  <2>3. CASE k > n - 1
    <3>1. ~(k + 1 <= n) /\ (k + 1) - n = k - (n - 1) /\ ~(k <= n - 1)
      BY <1>1, <2>3
    <3>2. r[k + 1] = t[(k + 1) - n] /\ u[k] = t[k - (n - 1)]
      BY <1>1, <1>3, <2>1, <3>1, Zenon
    <3> QED
      BY <2>1, <3>1, <3>2
  <2> QED
    BY <1>1, <2>2, <2>3
<1>7. Tail(r) = u
  <2>1. Len(Tail(r)) = Len(u) /\ \A k \in 1..Len(Tail(r)) : Tail(r)[k] = u[k]
    BY <1>1, <1>3, <1>5, <1>6
  <2> QED
    BY <1>3, <1>5, <2>1, SeqEqual
<1>8. Head(r) = Head(s)
  <2>1. r[1] = s[1]
    BY <1>1
  <2> QED
    BY <2>1
<1> QED
  BY <1>1, <1>4, <1>7, <1>8 DEF r, u

(* The types of the streams.                                               *)
Bytes == Seq(Reflector!Byte)
Own(c) == {s \in Bytes : \A k \in 1..Len(s) : s[k].from = c}
Taken == {Reflector!NoFrame, Reflector!Torn} \cup {b \in Reflector!Byte : b.at < BodySize}

StreamTypes == /\ fds \in Seq(Client) /\ Reflector!IsInjective(fds)
               /\ up \in [Client -> Bytes] /\ down \in [Client -> Bytes]
               /\ todo \in [Client -> Seq(Bytes)] /\ reading \in [Client -> Taken]
               /\ \A c \in Client : /\ Len(up[c]) <= Room /\ Len(down[c]) <= Room
                                    /\ todo[c] \in Seq(Own(c))

LEMMA Sizes == /\ BodySize \in Nat \ {0} /\ Chunk \in Nat \ {0} /\ Room \in Nat \ {0}
               /\ Master \in Client /\ IsFiniteSet(Early) /\ Early \subseteq Client
BY ReflectorAssumption DEF Reflector!SizeAssumption, Reflector!ClientAssumption, Reflector!IsFiniteSet, IsFiniteSet

(* The two writes of one frame.                                            *)
Body(c, kind) == [k \in 1..BodySize |-> [from |-> c, kind |-> kind, at |-> k]]
Size(c, kind) == <<[from |-> c, kind |-> kind, at |-> 0]>>

LEMMA Writes ==
  ASSUME NEW c \in Client, NEW kind \in {"frame", "thunk"}
  PROVE  /\ Reflector!SendToWire(c, kind) = <<Size(c, kind), Body(c, kind)>>
         /\ Size(c, kind) \in Own(c) /\ Len(Size(c, kind)) = 1
         /\ Body(c, kind) \in Own(c) /\ Len(Body(c, kind)) = BodySize
         /\ <<Size(c, kind), Body(c, kind)>> \in Seq(Own(c))
<1>1. \A k \in 0..BodySize : [from |-> c, kind |-> kind, at |-> k] \in Reflector!Byte
  BY DEF Reflector!Byte
<1>2. Size(c, kind) \in Bytes /\ Len(Size(c, kind)) = 1 /\ Size(c, kind)[1].from = c
  <2>1. [from |-> c, kind |-> kind, at |-> 0] \in Reflector!Byte
    BY <1>1, Sizes
  <2> QED
    BY <2>1 DEF Size, Bytes
<1>3. Body(c, kind) \in Bytes /\ Len(Body(c, kind)) = BodySize
  <2> DEFINE b == Body(c, kind)
  <2>1. b \in [1..BodySize -> Reflector!Byte]
    BY <1>1, Sizes DEF Body
  <2> HIDE DEF b
  <2>2. b \in Bytes /\ Len(b) = BodySize
    BY <2>1, Sizes DEF Bytes
  <2> QED
    BY <2>2 DEF b
<1>4. \A k \in 1..BodySize : Body(c, kind)[k].from = c
  BY DEF Body
<1>5. Size(c, kind) \in Own(c) /\ Body(c, kind) \in Own(c)
  <2>1. \A k \in 1..1 : k = 1
    OBVIOUS
  <2> QED
    BY <1>2, <1>3, <1>4, <2>1 DEF Own
<1>6. Reflector!SendToWire(c, kind) = <<Size(c, kind), Body(c, kind)>>
  BY DEF Reflector!SendToWire, Size, Body
<1> QED
  BY <1>2, <1>3, <1>5, <1>6

LEMMA InitStreamTypes == Reflector!Init => StreamTypes
<1> SUFFICES ASSUME Reflector!Init PROVE StreamTypes
  OBVIOUS
<1>1. fds \in Seq(Client) /\ Reflector!IsInjective(fds)
  <2>1. Reflector!Cardinality(Early) \in Nat
    BY Sizes, FS_CardinalityType DEF Reflector!Cardinality, Cardinality
  <2> DEFINE n == Reflector!Cardinality(Early)
  <2>2. fds \in [1..n -> Early] /\ \A i, j \in 1..n : i # j => fds[i] # fds[j]
    BY DEF Reflector!Init, Reflector!SetToSeqs
  <2> HIDE DEF n
  <2>3. n \in Nat
    BY <2>1 DEF n
  <2>4. fds \in Seq(Client) /\ DOMAIN fds = 1..n
    BY <2>2, <2>3, Sizes
  <2> QED
    BY <2>2, <2>4 DEF Reflector!IsInjective
<1>2. \A c \in Client : up[c] = <<>> /\ down[c] = <<>> /\ todo[c] = <<>> /\ reading[c] = Reflector!NoFrame
  BY DEF Reflector!Init
<1>3. \A S : <<>> \in Seq(S)
  OBVIOUS
<1>4. /\ up \in [Client -> Bytes] /\ down \in [Client -> Bytes]
      /\ todo \in [Client -> Seq(Bytes)] /\ reading \in [Client -> Taken]
  BY <1>3 DEF Reflector!Init, Bytes, Taken
<1>5. Len(<<>>) = 0 /\ 0 <= Room
  BY Sizes
<1> QED
  BY <1>1, <1>2, <1>3, <1>4, <1>5 DEF StreamTypes

LEMMA ConnectKeepsTypes ==
  ASSUME StreamTypes, NEW c \in Client, Reflector!Connect(c)
  PROVE  StreamTypes'
<1>1. fds \in Seq(Client) /\ Len(fds) \in Nat /\ DOMAIN fds = 1..Len(fds)
  BY LenProperties DEF StreamTypes
<1>2. fds' = Append(fds, c) /\ \A k \in 1..Len(fds) : fds[k] # c
  BY <1>1 DEF Reflector!Connect, Reflector!Running, Reflector!ToSet
<1>3. /\ fds' \in Seq(Client) /\ Len(fds') = Len(fds) + 1 /\ DOMAIN fds' = 1..(Len(fds) + 1)
      /\ fds'[Len(fds) + 1] = c /\ \A k \in 1..Len(fds) : fds'[k] = fds[k]
  BY <1>1, <1>2
<1>4. \A i, j \in 1..(Len(fds) + 1) : fds'[i] = fds'[j] => i = j
  <2>1. \A i, j \in 1..Len(fds) : fds[i] = fds[j] => i = j
    BY <1>1 DEF StreamTypes, Reflector!IsInjective
  <2>2. \A i \in 1..(Len(fds) + 1) : i \in 1..Len(fds) \/ i = Len(fds) + 1
    BY <1>1
  <2> QED
    BY <1>2, <1>3, <2>1, <2>2
<1>5. Reflector!IsInjective(fds)'
  BY <1>3, <1>4 DEF Reflector!IsInjective
<1> QED
  BY <1>3, <1>5 DEF StreamTypes, Reflector!Connect

LEMMA BeginKeepsTypes ==
  ASSUME StreamTypes, Reflector!Begin
  PROVE  StreamTypes'
<1> DEFINE w(kind) == Reflector!SendToWire(Master, kind)
           p == w("frame") \o w("thunk")
<1>1. w("frame") \in Seq(Own(Master)) /\ w("thunk") \in Seq(Own(Master)) /\ Own(Master) \subseteq Bytes
  BY Writes, Sizes DEF Own
<1>2. todo' = [todo EXCEPT ![Master] = p] /\ UNCHANGED <<fds, up, down, reading>>
  BY DEF Reflector!Begin
<1> HIDE DEF w
<1>3. p \in Seq(Own(Master))
  BY <1>1
<1> HIDE DEF p
<1>4. p \in Seq(Bytes)
  BY <1>1, <1>3, SeqMonotonic
<1>5. todo' \in [Client -> Seq(Bytes)] /\ \A c \in Client : todo'[c] \in Seq(Own(c))
  BY <1>2, <1>3, <1>4 DEF StreamTypes
<1> QED
  BY <1>2, <1>5 DEF StreamTypes

LEMMA WriteKeepsTypes ==
  ASSUME StreamTypes, NEW c \in Client, Reflector!Write(c)
  PROVE  StreamTypes'
<1> DEFINE p == todo[c]
<1>1. /\ p # <<>> /\ p \in Seq(Own(c)) /\ p \in Seq(Bytes) /\ Own(c) \subseteq Bytes
      /\ up[c] \in Bytes /\ Len(up[c]) + Len(Head(p)) <= Room
  BY DEF Reflector!Write, StreamTypes, Own
<1>2. up' = [up EXCEPT ![c] = up[c] \o Head(p)] /\ todo' = [todo EXCEPT ![c] = Tail(p)]
      /\ UNCHANGED <<fds, down, reading>>
  BY DEF Reflector!Write, StreamTypes
<1> HIDE DEF p
<1>3. Head(p) \in Bytes /\ Tail(p) \in Seq(Bytes) /\ Tail(p) \in Seq(Own(c))
  BY <1>1, HeadTailProperties
<1>4. up[c] \o Head(p) \in Bytes /\ Len(up[c] \o Head(p)) = Len(up[c]) + Len(Head(p))
  BY <1>1, <1>3, ConcatProperties DEF Bytes
<1>5. up' \in [Client -> Bytes] /\ \A d \in Client : Len(up'[d]) <= Room
  <2> DEFINE u == up[c] \o Head(p)
  <2>1. u \in Bytes /\ Len(u) <= Room
    BY <1>1, <1>4
  <2>2. up' = [up EXCEPT ![c] = u]
    BY <1>2
  <2> HIDE DEF u
  <2> QED
    BY <2>1, <2>2 DEF StreamTypes
<1>6. todo' \in [Client -> Seq(Bytes)] /\ \A d \in Client : todo'[d] \in Seq(Own(d))
  <2> DEFINE r == Tail(p)
  <2>1. r \in Seq(Bytes) /\ r \in Seq(Own(c)) /\ todo' = [todo EXCEPT ![c] = r]
    BY <1>2, <1>3
  <2> HIDE DEF r
  <2> QED
    BY <2>1 DEF StreamTypes
<1> QED
  BY <1>2, <1>5, <1>6 DEF StreamTypes

(* What the server takes at once, of whom.                                 *)
Piece(c) == IF Len(up[c]) < Chunk THEN Len(up[c]) ELSE Chunk

LEMMA Reflects ==
  ASSUME StreamTypes, NEW i \in DOMAIN fds, Reflector!Reflect(i)
  PROVE  /\ fds[i] \in Client /\ up[fds[i]] \in Bytes /\ Piece(fds[i]) \in 0..Len(up[fds[i]])
         /\ up' = [up EXCEPT ![fds[i]] = SubSeq(up[fds[i]], Piece(fds[i]) + 1, Len(up[fds[i]]))]
         /\ down' = [d \in Client |-> IF d \in Reflector!EchoesTo(i)
                                      THEN down[d] \o SubSeq(up[fds[i]], 1, Piece(fds[i]))
                                      ELSE down[d]]
         /\ \A d \in Reflector!EchoesTo(i) : Len(down[d]) + Piece(fds[i]) <= Room
         /\ UNCHANGED <<fds, todo, reading>>
<1>1. fds[i] \in Client
  BY DEF StreamTypes
<1>2. up[fds[i]] \in Bytes /\ Len(up[fds[i]]) \in Nat
  BY <1>1 DEF StreamTypes, Bytes
<1>3. Piece(fds[i]) \in 0..Len(up[fds[i]])
  BY <1>2, Sizes DEF Piece
<1>4. up' = [up EXCEPT ![fds[i]] = SubSeq(up[fds[i]], Piece(fds[i]) + 1, Len(up[fds[i]]))]
  BY DEF Reflector!Reflect, Piece, StreamTypes
<1> QED
  BY <1>1, <1>2, <1>3, <1>4, Zenon DEF Reflector!Reflect, Piece

LEMMA ReflectKeepsTypes ==
  ASSUME StreamTypes, NEW i \in DOMAIN fds, Reflector!Reflect(i)
  PROVE  StreamTypes'
<1> DEFINE c == fds[i]
           n == Piece(c)
           u == up[c]
           first == SubSeq(u, 1, n)
           rest == SubSeq(u, n + 1, Len(u))
<1>1. /\ c \in Client /\ u \in Bytes /\ n \in 0..Len(u) /\ up' = [up EXCEPT ![c] = rest]
      /\ down' = [d \in Client |-> IF d \in Reflector!EchoesTo(i) THEN down[d] \o first ELSE down[d]]
      /\ \A d \in Reflector!EchoesTo(i) : Len(down[d]) + n <= Room
      /\ UNCHANGED <<fds, todo, reading>>
  BY Reflects
<1> HIDE DEF c, n
<1>2. Len(u) <= Room /\ Len(u) \in Nat
  BY <1>1 DEF StreamTypes, Bytes
<1> HIDE DEF u
<1>3. first \in Bytes /\ Len(first) = n /\ rest \in Bytes /\ Len(rest) = Len(u) - n
  BY <1>1, Pieces DEF Bytes
<1> HIDE DEF first, rest
<1>4. up' \in [Client -> Bytes] /\ \A d \in Client : Len(up'[d]) <= Room
  <2>1. Len(rest) <= Room
    BY <1>1, <1>2, <1>3, Sizes
  <2> QED
    BY <1>1, <1>3, <2>1 DEF StreamTypes
<1>5. ASSUME NEW d \in Client PROVE down'[d] \in Bytes /\ Len(down'[d]) <= Room
  <2>1. down[d] \in Bytes /\ Len(down[d]) <= Room
    BY DEF StreamTypes
  <2>2. down[d] \o first \in Bytes /\ Len(down[d] \o first) = Len(down[d]) + n
    BY <1>3, <2>1, ConcatProperties DEF Bytes
  <2>3. CASE d \in Reflector!EchoesTo(i)
    <3>1. down'[d] = down[d] \o first
      BY <1>1, <2>3
    <3> QED
      BY <1>1, <2>2, <2>3, <3>1
  <2>4. CASE d \notin Reflector!EchoesTo(i)
    <3>1. down'[d] = down[d]
      BY <1>1, <2>4
    <3> QED
      BY <2>1, <3>1
  <2> QED
    BY <2>3, <2>4
<1>6. down' \in [Client -> Bytes]
  BY <1>1, <1>5
<1> QED
  BY <1>1, <1>4, <1>5, <1>6 DEF StreamTypes

LEMMA ReadKeepsTypes ==
  ASSUME StreamTypes, NEW c \in Client, Reflector!Read(c)
  PROVE  StreamTypes'
<1> DEFINE b == Head(down[c])
           rest == Tail(down[c])
           next == IF ~Reflector!Continues(reading[c], b) THEN Reflector!Torn
                   ELSE IF Reflector!Finished(b) THEN Reflector!NoFrame ELSE b
           w == Reflector!SendToWire(c, "frame")
<1>1. /\ down[c] # <<>> /\ UNCHANGED <<fds, up>>
      /\ down' = [down EXCEPT ![c] = rest] /\ reading' = [reading EXCEPT ![c] = next]
      /\ todo' = todo \/ todo' = [todo EXCEPT ![c] = w]
  BY DEF Reflector!Read, StreamTypes
<1>2. b \in Reflector!Byte /\ rest \in Bytes /\ Len(rest) = Len(down[c]) - 1 /\ Len(down[c]) \in Nat /\ Len(down[c]) <= Room
  BY <1>1, HeadTailProperties, LenProperties DEF StreamTypes, Bytes
<1>3. next \in Taken
  <2>1. ~Reflector!Finished(b) => b.at < BodySize
    BY <1>2, Sizes DEF Reflector!Finished, Reflector!Byte
  <2> QED
    BY <1>2, <2>1 DEF Taken
<1>4. w \in Seq(Own(c)) /\ w \in Seq(Bytes)
  <2>1. w \in Seq(Own(c)) /\ Own(c) \subseteq Bytes
    BY Writes DEF Own
  <2> QED
    BY <2>1, SeqMonotonic
<1> HIDE DEF b, rest, next, w
<1>5. down' \in [Client -> Bytes] /\ \A d \in Client : Len(down'[d]) <= Room
  <2>1. Len(rest) <= Room
    BY <1>2, Sizes
  <2> QED
    BY <1>1, <1>2, <2>1 DEF StreamTypes
<1>6. reading' \in [Client -> Taken]
  BY <1>1, <1>3 DEF StreamTypes
<1>7. todo' \in [Client -> Seq(Bytes)] /\ \A d \in Client : todo'[d] \in Seq(Own(d))
  BY <1>1, <1>4 DEF StreamTypes
<1> QED
  BY <1>1, <1>5, <1>6, <1>7 DEF StreamTypes

LEMMA NextStreamTypes == StreamTypes /\ [Reflector!Next]_(Reflector!vars) => StreamTypes'
<1> SUFFICES ASSUME StreamTypes, [Reflector!Next]_(Reflector!vars) PROVE StreamTypes'
  OBVIOUS
<1>1. CASE UNCHANGED Reflector!vars
  BY <1>1 DEF Reflector!vars, StreamTypes
<1> QED
  BY <1>1, BeginKeepsTypes, ConnectKeepsTypes, WriteKeepsTypes, ReadKeepsTypes, ReflectKeepsTypes
  DEF Reflector!Next

THEOREM StreamsAreTyped == Spec => []StreamTypes
BY InitStreamTypes, NextStreamTypes, ReflectorRuns, PTL DEF Reflector!Spec

(* What a program has still to write, when last is the byte before: the    *)
(* rest of a frame, of a thunk or of both.                                 *)
Both(c) == <<Size(c, "frame"), Body(c, "frame"), Size(c, "thunk"), Body(c, "thunk")>>

Due(last, c, pieces) ==
  \/ /\ Between(last)
     /\ \/ pieces \in {<<>>, Both(c)}
        \/ \E kind \in {"frame", "thunk"} : pieces = <<Size(c, kind), Body(c, kind)>>
  \/ /\ last = Size(c, "frame")[1]
     /\ pieces = <<Body(c, "frame"), Size(c, "thunk"), Body(c, "thunk")>>
  \/ \E kind \in {"frame", "thunk"} : last = Size(c, kind)[1] /\ pieces = <<Body(c, kind)>>

LEMMA NotBytes == /\ Reflector!NoFrame \notin Reflector!Byte /\ Reflector!Torn \notin Reflector!Byte
                  /\ Reflector!NoFrame # Reflector!Torn
<1>1. Reflector!NoFrame # Reflector!Torn
  <2>1. Reflector!NoFrame.frame # Reflector!Torn.frame
    BY DEF Reflector!NoFrame, Reflector!Torn
  <2> QED
    BY <2>1
<1>2. \A b \in Reflector!Byte : DOMAIN b = {"from", "kind", "at"}
  BY DEF Reflector!Byte
<1>3. DOMAIN Reflector!NoFrame = {"frame"} /\ DOMAIN Reflector!Torn = {"frame"}
  BY DEF Reflector!NoFrame, Reflector!Torn
<1> QED
  BY <1>1, <1>2, <1>3

(* A size starts a frame, and a body goes on from it to its end.           *)
LEMMA SizeThenBody ==
  ASSUME NEW c \in Client, NEW kind \in {"frame", "thunk"}
  PROVE  /\ \A last : Between(last) => InOrder(last, Size(c, kind)) /\ After(last, Size(c, kind)) = Size(c, kind)[1]
         /\ InOrder(Size(c, kind)[1], Body(c, kind))
         /\ \A last : Between(After(last, Body(c, kind)))
         /\ ~Between(Size(c, kind)[1])
<1> DEFINE b(k) == [from |-> c, kind |-> kind, at |-> k]
<1>1. Size(c, kind)[1] = b(0) /\ Len(Size(c, kind)) = 1
  BY DEF Size
<1>2. Len(Body(c, kind)) = BodySize /\ \A k \in 1..BodySize : Body(c, kind)[k] = b(k)
  BY Writes DEF Body
<1>3. \A k \in 0..BodySize : b(k) \in Reflector!Byte /\ b(k).at = k
  BY DEF Reflector!Byte
<1>4. \A k \in 0..BodySize : k # BodySize => ~Between(b(k)) /\ b(k + 1) = [b(k) EXCEPT !.at = @ + 1]
  <2> SUFFICES ASSUME NEW k \in 0..BodySize, k # BodySize
               PROVE  ~Between(b(k)) /\ b(k + 1) = [b(k) EXCEPT !.at = @ + 1]
    OBVIOUS
  <2>1. b(k + 1) = [b(k) EXCEPT !.at = @ + 1]
    OBVIOUS
  <2>2. b(k) \in Reflector!Byte /\ b(k).at = k
    BY <1>3
  <2> HIDE DEF b
  <2> QED
    BY <2>1, <2>2, NotBytes DEF Between
<1> HIDE DEF b
<1>5. ASSUME NEW last, Between(last)
      PROVE  InOrder(last, Size(c, kind)) /\ After(last, Size(c, kind)) = Size(c, kind)[1]
  <2>1. b(0).at = 0
    BY <1>3, Sizes
  <2>2. \A k \in 1..1 : k = 1
    OBVIOUS
  <2> QED
    BY <1>1, <1>5, <2>1, <2>2 DEF InOrder, After, Fits
<1>6. InOrder(Size(c, kind)[1], Body(c, kind))
  <2> SUFFICES ASSUME NEW k \in 1..BodySize
               PROVE  Fits(IF k = 1 THEN b(0) ELSE Body(c, kind)[k - 1], Body(c, kind)[k])
    BY <1>1, <1>2 DEF InOrder
  <2>1. k - 1 \in 0..BodySize /\ k - 1 # BodySize /\ (k - 1) + 1 = k /\ (k # 1 => k - 1 \in 1..BodySize)
        /\ (k = 1 => k - 1 = 0)
    BY Sizes
  <2>2. (IF k = 1 THEN b(0) ELSE Body(c, kind)[k - 1]) = b(k - 1) /\ Body(c, kind)[k] = b(k)
    BY <1>2, <2>1
  <2>3. ~Between(b(k - 1)) /\ b(k) = [b(k - 1) EXCEPT !.at = @ + 1]
    BY <1>4, <2>1
  <2> QED
    BY <2>2, <2>3 DEF Fits
<1>7. ASSUME NEW last PROVE Between(After(last, Body(c, kind)))
  <2>1. BodySize \in 1..BodySize /\ BodySize # 0 /\ BodySize \in 0..BodySize
    BY Sizes
  <2>2. After(last, Body(c, kind)) = b(BodySize)
    BY <1>2, <2>1 DEF After
  <2> QED
    BY <1>3, <2>1, <2>2 DEF Between
<1>8. ~Between(b(0))
  <2>1. 0 \in 0..BodySize /\ 0 # BodySize
    BY Sizes
  <2> QED
    BY <1>4, <2>1
<1> QED
  BY <1>1, <1>5, <1>6, <1>7, <1>8

LEMMA NextPiece ==
  ASSUME NEW c \in Client, NEW last, NEW pieces, Due(last, c, pieces), pieces # <<>>
  PROVE  InOrder(last, Head(pieces)) /\ Due(After(last, Head(pieces)), c, Tail(pieces))
<1>1. ASSUME NEW kind \in {"frame", "thunk"}, NEW rest,
             \/ kind = "frame" /\ rest = <<Body(c, "frame"), Size(c, "thunk"), Body(c, "thunk")>>
             \/ rest = <<Body(c, kind)>>,
             Between(last), Head(pieces) = Size(c, kind), Tail(pieces) = rest
      PROVE  InOrder(last, Head(pieces)) /\ Due(After(last, Head(pieces)), c, Tail(pieces))
  <2>1. InOrder(last, Size(c, kind)) /\ After(last, Size(c, kind)) = Size(c, kind)[1]
    BY <1>1, SizeThenBody
  <2> QED
    BY <1>1, <2>1 DEF Due
<1>2. ASSUME NEW kind \in {"frame", "thunk"}, last = Size(c, kind)[1], Head(pieces) = Body(c, kind),
             Tail(pieces) \in {<<>>, <<Size(c, "thunk"), Body(c, "thunk")>>}
      PROVE  InOrder(last, Head(pieces)) /\ Due(After(last, Head(pieces)), c, Tail(pieces))
  BY <1>2, SizeThenBody DEF Due
<1>3. CASE pieces = Both(c)
  <2>1. Head(pieces) = Size(c, "frame") /\ Tail(pieces) = <<Body(c, "frame"), Size(c, "thunk"), Body(c, "thunk")>>
    BY <1>3 DEF Both
  <2>2. Between(last)
    <3>1. Len(pieces) = 4
      BY <1>3 DEF Both
    <3>2. \A x, y, z : Len(<<x>>) # 4 /\ Len(<<x, y>>) # 4 /\ Len(<<x, y, z>>) # 4
      OBVIOUS
    <3> QED
      BY <3>1, <3>2, Zenon DEF Due
  <2> QED
    BY <1>1, <2>1, <2>2
<1>4. ASSUME NEW kind \in {"frame", "thunk"}, Between(last), pieces = <<Size(c, kind), Body(c, kind)>>
      PROVE  InOrder(last, Head(pieces)) /\ Due(After(last, Head(pieces)), c, Tail(pieces))
  <2>1. Head(pieces) = Size(c, kind) /\ Tail(pieces) = <<Body(c, kind)>>
    BY <1>4
  <2> QED
    BY <1>1, <1>4, <2>1
<1>5. CASE last = Size(c, "frame")[1] /\ pieces = <<Body(c, "frame"), Size(c, "thunk"), Body(c, "thunk")>>
  <2>1. Head(pieces) = Body(c, "frame") /\ Tail(pieces) = <<Size(c, "thunk"), Body(c, "thunk")>>
    BY <1>5
  <2> QED
    BY <1>2, <1>5, <2>1
<1>6. ASSUME NEW kind \in {"frame", "thunk"}, last = Size(c, kind)[1], pieces = <<Body(c, kind)>>
      PROVE  InOrder(last, Head(pieces)) /\ Due(After(last, Head(pieces)), c, Tail(pieces))
  <2>1. Head(pieces) = Body(c, kind) /\ Tail(pieces) = <<>>
    BY <1>6
  <2> QED
    BY <1>2, <1>6, <2>1
<1> QED
  BY <1>3, <1>4, <1>5, <1>6 DEF Due

LEMMA DueBetween ==
  ASSUME NEW c \in Client, NEW last, NEW pieces, Due(last, c, pieces)
  PROVE  /\ \A x : Between(last) /\ Between(x) => Due(x, c, pieces)
         /\ pieces = <<>> => /\ Due(last, c, Both(c)) /\ Due(last, c, <<Size(c, "frame"), Body(c, "frame")>>)
<1>1. ASSUME NEW x, Between(last), Between(x) PROVE Due(x, c, pieces)
  BY <1>1, SizeThenBody DEF Due
<1>2. ASSUME pieces = <<>> PROVE Between(last)
  BY <1>2 DEF Due
<1> QED
  BY <1>1, <1>2 DEF Due

(* With one program besides it, the program connected first is in the      *)
(* middle of a frame that goes on in the streams; a program that is not    *)
(* connected has nothing.                                                  *)
Quiet(c) == up[c] = <<>> /\ down[c] = <<>> /\ todo[c] = <<>> /\ reading[c] = Reflector!NoFrame

Heard(x, y) ==
  /\ reading[x] # Reflector!Torn
  /\ InOrder(reading[x], down[x] \o up[y])
  /\ Due(After(reading[x], down[x] \o up[y]), y, todo[y])

WholeInv == /\ \A c \in Client : ~Reflector!Running(c) => Quiet(c)
            /\ Len(fds) = 1 => down[fds[1]] = <<>> /\ reading[fds[1]] = Reflector!NoFrame
            /\ Len(fds) = 2 => Heard(fds[1], fds[2])

LEMMA Slots ==
  ASSUME StreamTypes
  PROVE  /\ Len(fds) \in Nat /\ DOMAIN fds = 1..Len(fds)
         /\ \A c : Reflector!Running(c) <=> \E k \in 1..Len(fds) : fds[k] = c
         /\ Len(fds) = 1 => fds[1] \in Client
         /\ Len(fds) = 2 => /\ fds[1] \in Client /\ fds[2] \in Client /\ fds[1] # fds[2]
                            /\ \A c : Reflector!Running(c) <=> c \in {fds[1], fds[2]}
<1>1. Len(fds) \in Nat /\ DOMAIN fds = 1..Len(fds) /\ \A k \in 1..Len(fds) : fds[k] \in Client
  BY LenProperties, ElementOfSeq DEF StreamTypes
<1>2. \A c : Reflector!Running(c) <=> \E k \in 1..Len(fds) : fds[k] = c
  BY <1>1, Zenon DEF Reflector!Running, Reflector!ToSet
<1>3. ASSUME Len(fds) = 2
      PROVE  /\ fds[1] \in Client /\ fds[2] \in Client /\ fds[1] # fds[2]
             /\ \A c : Reflector!Running(c) <=> c \in {fds[1], fds[2]}
  <2>1. 1 \in 1..Len(fds) /\ 2 \in 1..Len(fds) /\ \A k \in 1..Len(fds) : k = 1 \/ k = 2
    BY <1>3
  <2>2. fds[1] # fds[2]
    <3>1. \A i, j \in 1..Len(fds) : fds[i] = fds[j] => i = j
      BY <1>1 DEF StreamTypes, Reflector!IsInjective
    <3>2. 1 # 2
      OBVIOUS
    <3> QED
      BY <2>1, <3>1, <3>2, Zenon
  <2> QED
    BY <1>1, <1>2, <2>1, <2>2
<1>4. Len(fds) = 1 => 1 \in 1..Len(fds)
  OBVIOUS
<1> QED
  BY <1>1, <1>2, <1>3, <1>4

LEMMA QuietIsHeard ==
  ASSUME NEW x, NEW y \in Client, down[x] = <<>>, up[y] = <<>>, todo[y] = <<>>,
         reading[x] = Reflector!NoFrame
  PROVE  Heard(x, y)
<1>1. down[x] \o up[y] = <<>> /\ Len(<<>>) = 0
  OBVIOUS
<1>2. InOrder(reading[x], <<>>) /\ After(reading[x], <<>>) = reading[x]
  BY <1>1 DEF InOrder, After
<1>3. Due(reading[x], y, <<>>)
  BY DEF Due, Between
<1> QED
  BY <1>1, <1>2, <1>3, NotBytes DEF Heard

LEMMA InitWhole == StreamTypes /\ Reflector!Init => WholeInv
<1> SUFFICES ASSUME StreamTypes, Reflector!Init PROVE WholeInv
  OBVIOUS
<1>1. \A c \in Client : Quiet(c)
  BY DEF Reflector!Init, Quiet
<1> QED
  BY <1>1, Slots, QuietIsHeard DEF WholeInv, Quiet

LEMMA ConnectKeepsWhole ==
  ASSUME StreamTypes, StreamTypes', WholeInv, NEW c \in Client, Reflector!Connect(c)
  PROVE  WholeInv'
<1>1. fds' = Append(fds, c) /\ UNCHANGED <<todo, up, down, reading>> /\ Quiet(c)
  BY DEF Reflector!Connect, WholeInv
<1>2. /\ Len(fds') = Len(fds) + 1 /\ fds'[Len(fds) + 1] = c
      /\ \A k \in 1..Len(fds) : fds'[k] = fds[k]
  BY <1>1 DEF StreamTypes
<1>3. \A d : Reflector!Running(d) => Reflector!Running(d)'
  <2> SUFFICES ASSUME NEW d, Reflector!Running(d) PROVE Reflector!Running(d)'
    OBVIOUS
  <2>1. PICK k \in 1..Len(fds) : fds[k] = d
    BY Slots
  <2>2. k \in 1..Len(fds') /\ fds'[k] = d
    BY <1>2, <2>1, Slots
  <2>3. k \in DOMAIN fds'
    BY <2>2 DEF StreamTypes
  <2> QED
    BY <2>2, <2>3 DEF Reflector!Running, Reflector!ToSet
<1>4. \A d \in Client : ~Reflector!Running(d)' => Quiet(d)'
  BY <1>1, <1>3 DEF WholeInv, Quiet
<1>5. ASSUME Len(fds') = 1 PROVE (down[fds[1]] = <<>> /\ reading[fds[1]] = Reflector!NoFrame)'
  <2>1. fds'[1] = c
    BY <1>2, <1>5, Slots
  <2> QED
    BY <1>1, <2>1 DEF Quiet
<1>6. ASSUME Len(fds') = 2 PROVE Heard(fds[1], fds[2])'
  <2>1. Len(fds) = 1 /\ fds'[1] = fds[1] /\ fds'[2] = c
    <3>1. Len(fds) \in Nat
      BY Slots
    <3>2. Len(fds) = 1
      <4> DEFINE n == Len(fds)
      <4>1. n \in Nat /\ n + 1 = 2
        BY <1>2, <1>6, <3>1
      <4> HIDE DEF n
      <4>2. n = 1
        BY <4>1
      <4> QED
        BY <4>2 DEF n
    <3> QED
      BY <1>2, <3>2
  <2>2. Heard(fds[1], c)
    BY <1>1, <2>1, QuietIsHeard DEF WholeInv, Quiet
  <2> QED
    BY <1>1, <2>1, <2>2 DEF Heard
<1> QED
  BY <1>4, <1>5, <1>6 DEF WholeInv

LEMMA FourPieces ==
  ASSUME NEW p, NEW q, NEW r, NEW s
  PROVE  <<p, q>> \o <<r, s>> = <<p, q, r, s>>
<1> DEFINE S == {p, q, r, s}
           t == <<p, q>> \o <<r, s>>
<1>1. <<p, q>> \in Seq(S) /\ <<r, s>> \in Seq(S) /\ <<p, q, r, s>> \in Seq(S)
  OBVIOUS
<1>2. /\ t \in Seq(S) /\ Len(t) = 4
      /\ \A k \in 1..4 : t[k] = IF k <= 2 THEN <<p, q>>[k] ELSE <<r, s>>[k - 2]
  BY <1>1, ConcatProperties
<1> HIDE DEF t
<1>3. t[1] = p /\ t[2] = q /\ t[3] = r /\ t[4] = s
  BY <1>2
<1>4. \A k \in 1..Len(t) : t[k] = <<p, q, r, s>>[k]
  BY <1>2, <1>3
<1>5. t = <<p, q, r, s>>
  BY <1>1, <1>2, <1>4, SeqEqual
<1> QED
  BY <1>5 DEF t

LEMMA BeginKeepsWhole ==
  ASSUME StreamTypes, WholeInv, Reflector!Begin
  PROVE  WholeInv'
<1>1. /\ Reflector!Running(Master) /\ todo[Master] = <<>> /\ UNCHANGED <<fds, up, down, reading>>
      /\ todo' = [todo EXCEPT ![Master] = Reflector!SendToWire(Master, "frame") \o Reflector!SendToWire(Master, "thunk")]
  BY DEF Reflector!Begin
<1>2. todo'[Master] = Both(Master) /\ \A d \in Client : d # Master => todo'[d] = todo[d]
  <2>1. Reflector!SendToWire(Master, "frame") \o Reflector!SendToWire(Master, "thunk") = Both(Master)
    <3>1. /\ Reflector!SendToWire(Master, "frame") = <<Size(Master, "frame"), Body(Master, "frame")>>
          /\ Reflector!SendToWire(Master, "thunk") = <<Size(Master, "thunk"), Body(Master, "thunk")>>
      BY Writes, Sizes
    <3> QED
      BY <3>1, FourPieces, Zenon DEF Both
  <2> QED
    BY <1>1, <2>1, Sizes DEF StreamTypes
<1>3. \A d \in Client : ~Reflector!Running(d) => Quiet(d)'
  BY <1>1, <1>2 DEF WholeInv, Quiet
<1>4. ASSUME Len(fds) = 2 PROVE Heard(fds[1], fds[2])'
  <2>1. Heard(fds[1], fds[2]) /\ fds[2] \in Client
    BY <1>4, Slots DEF WholeInv
  <2>2. Due(After(reading[fds[1]], down[fds[1]] \o up[fds[2]]), fds[2], todo'[fds[2]])
    BY <1>1, <1>2, <2>1, DueBetween DEF Heard
  <2> QED
    BY <1>1, <2>1, <2>2 DEF Heard
<1>5. (\A d \in Client : ~Reflector!Running(d) => Quiet(d))'
  BY <1>1, <1>3 DEF Reflector!Running
<1> QED
  BY <1>1, <1>4, <1>5 DEF WholeInv

LEMMA WriteKeepsWhole ==
  ASSUME StreamTypes, WholeInv, NEW c \in Client, Reflector!Write(c)
  PROVE  WholeInv'
<1> DEFINE p == todo[c]
           h == Head(todo[c])
<1>1. /\ p # <<>> /\ p \in Seq(Bytes) /\ up[c] \in Bytes
      /\ up' = [up EXCEPT ![c] = up[c] \o h] /\ todo' = [todo EXCEPT ![c] = Tail(p)]
      /\ UNCHANGED <<fds, down, reading>>
  BY DEF Reflector!Write, StreamTypes
<1>2. h \in Bytes
  BY <1>1, HeadTailProperties
<1> HIDE DEF h
<1>3. /\ up'[c] = up[c] \o h /\ todo'[c] = Tail(p)
      /\ \A d \in Client : d # c => up'[d] = up[d] /\ todo'[d] = todo[d]
  BY <1>1 DEF StreamTypes
<1>4. Reflector!Running(c)
  BY <1>1 DEF WholeInv, Quiet
<1>5. (\A d \in Client : ~Reflector!Running(d) => Quiet(d))'
  BY <1>1, <1>3, <1>4 DEF WholeInv, Quiet, Reflector!Running
<1>6. ASSUME Len(fds) = 2 PROVE Heard(fds[1], fds[2])'
  <2> DEFINE x == fds[1]
             y == fds[2]
             wire == down[x] \o up[y]
  <2>1. x \in Client /\ y \in Client /\ Heard(x, y) /\ x' = x /\ y' = y
    BY <1>1, <1>6, Slots DEF WholeInv
  <2> HIDE DEF x, y
  <2>2. reading'[x] = reading[x] /\ down'[x] = down[x] /\ down[x] \in Bytes /\ up[y] \in Bytes
    BY <1>1, <2>1 DEF StreamTypes
  <2>3. CASE c # y
    <3>1. up'[y] = up[y] /\ todo'[y] = todo[y]
      BY <1>3, <2>1, <2>3
    <3> QED
      BY <2>1, <2>2, <3>1 DEF Heard, x, y
  <2>4. CASE c = y
    <3>1. wire \in Bytes
      BY <2>2, ConcatProperties DEF Bytes
    <3>2. InOrder(reading[x], wire) /\ Due(After(reading[x], wire), y, p)
      BY <2>1, <2>4 DEF Heard
    <3> HIDE DEF wire, p
    <3>3. InOrder(After(reading[x], wire), Head(p)) /\ Due(After(After(reading[x], wire), Head(p)), y, Tail(p))
      BY <1>1, <2>1, <3>2, NextPiece
    <3>4. Head(p) = h
      BY DEF h, p
    <3>5. InOrder(reading[x], wire \o h) /\ After(reading[x], wire \o h) = After(After(reading[x], wire), h)
      BY <1>2, <3>1, <3>2, <3>3, <3>4, OrderOfConcat DEF Bytes
    <3>6. down'[x] \o up'[y] = wire \o h
      <4> DEFINE s == down[x]
                 t == up[y]
      <4>1. s \in Bytes /\ t \in Bytes
        BY <2>2
      <4>2. down'[x] = s /\ up'[y] = t \o h
        BY <1>3, <2>2, <2>4
      <4> HIDE DEF s, t
      <4>3. s \o (t \o h) = (s \o t) \o h
        BY <1>2, <4>1 DEF Bytes
      <4>4. wire = s \o t
        BY DEF wire, s, t
      <4> QED
        BY <4>2, <4>3, <4>4, Zenon
    <3>7. /\ InOrder(reading'[x], down'[x] \o up'[y])
          /\ Due(After(reading'[x], down'[x] \o up'[y]), y, todo'[y])
      BY <1>3, <2>2, <2>4, <3>3, <3>4, <3>5, <3>6 DEF p
    <3>8. reading'[x] # Reflector!Torn
      BY <2>1, <2>2 DEF Heard
    <3> QED
      BY <2>1, <3>7, <3>8 DEF Heard, x, y
  <2> QED
    BY <2>3, <2>4
<1> QED
  BY <1>1, <1>5, <1>6 DEF WholeInv

LEMMA ReflectKeepsWhole ==
  ASSUME StreamTypes, WholeInv, NEW i \in DOMAIN fds, Reflector!Reflect(i)
  PROVE  WholeInv'
<1> DEFINE c == fds[i]
           n == Piece(c)
           u == up[c]
           first == SubSeq(u, 1, n)
           rest == SubSeq(u, n + 1, Len(u))
<1>1. /\ c \in Client /\ u \in Bytes /\ n \in 0..Len(u) /\ up' = [up EXCEPT ![c] = rest]
      /\ down' = [d \in Client |-> IF d \in Reflector!EchoesTo(i) THEN down[d] \o first ELSE down[d]]
      /\ UNCHANGED <<fds, todo, reading>>
  BY Reflects
<1>2. Reflector!Running(c) /\ \A d \in Reflector!EchoesTo(i) : Reflector!Running(d)
  BY DEF Reflector!Running, Reflector!ToSet, Reflector!EchoesTo
<1>3. i \in 1..Len(fds) /\ Reflector!EchoesTo(i) = {fds[k] : k \in (1..Len(fds)) \ {i}}
  BY Slots DEF Reflector!EchoesTo
<1> HIDE DEF n, first, rest
<1>4. up'[c] = rest /\ \A d \in Client : d # c => up'[d] = up[d]
  BY <1>1 DEF StreamTypes
<1>5. \A d \in Client : down'[d] = IF d \in Reflector!EchoesTo(i) THEN down[d] \o first ELSE down[d]
  BY <1>1
<1>6. (\A d \in Client : ~Reflector!Running(d) => Quiet(d))'
  <2> SUFFICES ASSUME NEW d \in Client, ~Reflector!Running(d) PROVE Quiet(d)'
    BY <1>1 DEF Reflector!Running
  <2>1. d # c /\ d \notin Reflector!EchoesTo(i) /\ Quiet(d)
    BY <1>2 DEF WholeInv
  <2> QED
    BY <1>1, <1>4, <1>5, <2>1 DEF Quiet
<1>7. ASSUME Len(fds) = 1 PROVE (down[fds[1]] = <<>> /\ reading[fds[1]] = Reflector!NoFrame)'
  <2>1. (1..Len(fds)) \ {i} = {} /\ fds[1] \in Client
    BY <1>3, <1>7, Slots
  <2>2. down'[fds[1]] = down[fds[1]]
    BY <1>3, <1>5, <2>1
  <2> QED
    BY <1>1, <1>7, <2>2 DEF WholeInv
<1>8. ASSUME Len(fds) = 2 PROVE Heard(fds[1], fds[2])'
  <2> DEFINE x == fds[1]
             y == fds[2]
  <2>1. x \in Client /\ y \in Client /\ x # y /\ Heard(x, y) /\ x' = x /\ y' = y
    BY <1>1, <1>8, Slots DEF WholeInv
  <2>2. down[x] \in Bytes
    BY <2>1 DEF StreamTypes
  <2>3. down'[x] \o up'[y] = down[x] \o up[y]
    <3>1. CASE i = 1
      <4>1. (1..Len(fds)) \ {i} = {2}
        BY <1>8, <3>1
      <4>2. Reflector!EchoesTo(i) = {y} /\ c = x
        BY <1>3, <3>1, <4>1
      <4> HIDE DEF x, y, c
      <4>3. down'[x] = down[x] /\ up'[y] = up[y]
        BY <1>4, <1>5, <2>1, <4>2
      <4> QED
        BY <4>3
    <3>2. CASE i = 2
      <4>1. (1..Len(fds)) \ {i} = {1}
        BY <1>8, <3>2
      <4>2. Reflector!EchoesTo(i) = {x} /\ c = y
        BY <1>3, <3>2, <4>1
      <4>3. u \in Bytes /\ n \in 0..Len(u) /\ u = up[y]
        BY <1>1, <4>2
      <4> HIDE DEF x, y, c, u
      <4>4. down'[x] = down[x] \o first /\ up'[y] = rest
        BY <1>4, <1>5, <2>1, <4>2
      <4>5. first = SubSeq(u, 1, n) /\ rest = SubSeq(u, n + 1, Len(u))
        BY DEF first, rest
      <4>6. Divided(down[x], SubSeq(u, 1, n), SubSeq(u, n + 1, Len(u)), u)
        BY <2>2, <4>3, Moved, Zenon DEF Bytes
      <4> QED
        BY <4>3, <4>4, <4>5, <4>6, Zenon DEF Divided
    <3>3. \A k \in 1..2 : k = 1 \/ k = 2
      OBVIOUS
    <3> QED
      BY <1>3, <1>8, <3>1, <3>2, <3>3, Zenon
  <2> HIDE DEF x, y
  <2>4. reading'[x] = reading[x] /\ todo'[y] = todo[y]
    BY <1>1
  <2> QED
    BY <2>1, <2>3, <2>4, Zenon DEF Heard, x, y
<1> QED
  BY <1>1, <1>6, <1>7, <1>8 DEF WholeInv

LEMMA ReadKeepsWhole ==
  ASSUME StreamTypes, WholeInv, NEW c \in Client, Reflector!Read(c)
  PROVE  WholeInv'
<1> DEFINE b == Head(down[c])
           rest == Tail(down[c])
           next == IF ~Reflector!Continues(reading[c], b) THEN Reflector!Torn
                   ELSE IF Reflector!Finished(b) THEN Reflector!NoFrame ELSE b
           w == <<Size(c, "frame"), Body(c, "frame")>>
<1>1. /\ down[c] # <<>> /\ todo[c] = <<>> /\ UNCHANGED <<fds, up>>
      /\ down' = [down EXCEPT ![c] = rest] /\ reading' = [reading EXCEPT ![c] = next]
      /\ todo' = todo \/ todo' = [todo EXCEPT ![c] = w]
  <2>1. Reflector!SendToWire(c, "frame") = w
    BY Writes
  <2> HIDE DEF w
  <2> QED
    BY <2>1 DEF Reflector!Read, StreamTypes
<1>2. Reflector!Running(c)
  BY <1>1 DEF WholeInv, Quiet
<1>3. /\ \A d \in Client : d # c => down'[d] = down[d] /\ reading'[d] = reading[d] /\ todo'[d] = todo[d]
      /\ down'[c] = rest /\ reading'[c] = next /\ todo'[c] \in {todo[c], w}
  BY <1>1 DEF StreamTypes
<1> HIDE DEF next, w
<1>4. (\A d \in Client : ~Reflector!Running(d) => Quiet(d))'
  BY <1>1, <1>2, <1>3 DEF WholeInv, Quiet, Reflector!Running
<1>5. Len(fds) # 1
  <2> SUFFICES ASSUME Len(fds) = 1 PROVE FALSE
    OBVIOUS
  <2>1. \A k \in 1..1 : k = 1
    OBVIOUS
  <2>2. c = fds[1]
    BY <1>2, <2>1, Slots
  <2> QED
    BY <1>1, <2>2 DEF WholeInv
<1>6. ASSUME Len(fds) = 2 PROVE Heard(fds[1], fds[2])'
  <2> DEFINE x == fds[1]
             y == fds[2]
  <2>1. x \in Client /\ y \in Client /\ x # y /\ Heard(x, y) /\ x' = x /\ y' = y /\ c \in {x, y}
    BY <1>1, <1>2, <1>6, Slots DEF WholeInv
  <2>2. down[x] \in Bytes /\ up[y] \in Bytes /\ reading[x] \in Taken /\ up'[y] = up[y]
    BY <1>1, <2>1 DEF StreamTypes
  <2> HIDE DEF x, y
  <2>3. CASE c = y
    <3>1. down'[x] = down[x] /\ reading'[x] = reading[x]
      BY <1>3, <2>1, <2>3
    <3> DEFINE at0 == After(reading[x], down[x] \o up[y])
    <3>2. Due(at0, y, todo[y]) /\ todo[y] = <<>>
      BY <1>1, <2>1, <2>3 DEF Heard
    <3> HIDE DEF at0
    <3>3. Due(at0, y, todo'[y])
      <4>1. Due(at0, y, <<Size(y, "frame"), Body(y, "frame")>>)
        BY <2>1, <3>2, DueBetween
      <4> QED
        BY <1>3, <2>3, <3>2, <4>1 DEF w
    <3> QED
      BY <2>1, <2>2, <3>1, <3>3, Zenon DEF Heard, at0, x, y
  <2>4. CASE c = x
    <3> DEFINE wire == down[x] \o up[y]
               new == Tail(down[x]) \o up[y]
    <3>1. down[x] # <<>> /\ b = Head(down[x]) /\ down'[x] = Tail(down[x]) /\ reading'[x] = next
      BY <1>1, <1>3, <2>4
    <3>2. todo'[y] = todo[y]
      BY <1>3, <2>1, <2>4
    <3>3. wire \in Bytes /\ wire # <<>> /\ Head(wire) = b /\ Tail(wire) = new
      <4> DEFINE s == down[x]
                 t == up[y]
      <4>1. s \in Seq(Reflector!Byte) /\ t \in Seq(Reflector!Byte) /\ s # <<>> /\ b = Head(s)
        BY <2>2, <3>1 DEF Bytes
      <4> HIDE DEF s, t, b
      <4>2. /\ s \o t \in Seq(Reflector!Byte) /\ s \o t # <<>> /\ Head(s \o t) = Head(s)
            /\ Tail(s \o t) = Tail(s) \o t
        BY <4>1, RestOfConcat
      <4> QED
        BY <4>1, <4>2, Zenon DEF Bytes, s, t
    <3>4. b \in Reflector!Byte /\ new \in Bytes
      <4>1. Tail(down[x]) \in Bytes /\ b \in Reflector!Byte
        BY <2>2, <3>1, HeadTailProperties DEF Bytes
      <4> QED
        BY <2>2, <4>1, ConcatProperties DEF Bytes
    <3>5. reading[x] # Reflector!Torn /\ InOrder(reading[x], wire) /\ Due(After(reading[x], wire), y, todo[y])
      BY <2>1 DEF Heard
    <3> HIDE DEF wire, new, b
    <3>6. Fits(reading[x], b) /\ InOrder(b, new) /\ After(b, new) = After(reading[x], wire)
      <4>1. /\ Fits(reading[x], Head(wire)) /\ InOrder(Head(wire), Tail(wire))
            /\ After(Head(wire), Tail(wire)) = After(reading[x], wire)
        BY <3>3, <3>5, OrderOfTail DEF Bytes
      <4> QED
        BY <3>3, <4>1
    <3>7. Reflector!Continues(reading[x], b)
      BY <2>2, <3>5, <3>6, Sizes DEF Fits, Between, Taken, Reflector!Continues, Reflector!Byte
    <3>8. next = IF Reflector!Finished(b) THEN Reflector!NoFrame ELSE b
      BY <2>4, <3>7 DEF next
    <3>9. InOrder(next, new) /\ Due(After(next, new), y, todo[y]) /\ next # Reflector!Torn
      <4>1. CASE Reflector!Finished(b)
        <5>1. Between(b)
          BY <4>1 DEF Between, Reflector!Finished
        <5>2. /\ InOrder(Reflector!NoFrame, new)
              /\ \/ After(Reflector!NoFrame, new) = After(b, new)
                 \/ Between(After(Reflector!NoFrame, new)) /\ Between(After(b, new))
          BY <3>4, <3>6, <5>1, OrderBetween DEF Bytes
        <5>3. Due(After(Reflector!NoFrame, new), y, todo[y])
          BY <2>1, <3>5, <3>6, <5>2, DueBetween
        <5> QED
          BY <3>8, <4>1, <5>2, <5>3, NotBytes
      <4>2. CASE ~Reflector!Finished(b)
        BY <3>4, <3>5, <3>6, <3>8, <4>2, NotBytes
      <4> QED
        BY <4>1, <4>2
    <3>10. down'[x] \o up'[y] = new
      BY <2>2, <3>1 DEF new
    <3> QED
      BY <2>1, <3>1, <3>2, <3>9, <3>10, Zenon DEF Heard, x, y
  <2> QED
    BY <2>1, <2>3, <2>4
<1> QED
  BY <1>1, <1>4, <1>5, <1>6 DEF WholeInv

LEMMA NextWhole ==
  StreamTypes /\ StreamTypes' /\ WholeInv /\ [Reflector!Next]_(Reflector!vars) => WholeInv'
<1> SUFFICES ASSUME StreamTypes, StreamTypes', WholeInv, [Reflector!Next]_(Reflector!vars)
             PROVE  WholeInv'
  OBVIOUS
<1>1. CASE UNCHANGED Reflector!vars
  BY <1>1 DEF Reflector!vars, WholeInv, Quiet, Heard, Reflector!Running
<1> QED
  BY <1>1, BeginKeepsWhole, ConnectKeepsWhole, WriteKeepsWhole, ReadKeepsWhole, ReflectKeepsWhole
  DEF Reflector!Next

(* With one program besides it, the program connected first reads every    *)
(* frame whole, however the server and the calls of send() cut the         *)
(* streams (multiserver.c 120-136, UNIXSocketDatalink.cpp 102-144).        *)
THEOREM FirstIsWhole == Spec => []FirstReadsWhole
<1>1. WholeInv /\ StreamTypes => Reflector!FirstReadsWhole
  BY NotBytes, Zenon DEF WholeInv, Heard, Reflector!FirstReadsWhole
<1>2. Reflector!FirstReadsWhole <=> FirstReadsWhole
  BY DEF FirstReadsWhole
<1> QED
  BY <1>1, <1>2, InitWhole, NextWhole, StreamsAreTyped, InitStreamTypes, ReflectorRuns, PTL DEF Reflector!Spec

-------------------------------------------------------------------------------
(* The types of all parts.                                                 *)

(* What is reported fits into the narrow type.                             *)
LEMMA NarrowIsShort == \A x \in Int : Encoder!Narrow(x) \in Encoder!Short
<1> SUFFICES ASSUME NEW x \in Int PROVE Encoder!Narrow(x) \in Encoder!Short
  OBVIOUS
<1>1. Half \in Nat /\ Half > 0
  BY EncoderAssumption DEF Encoder!ConstantAssumption
<1>2. \A y \in Int : y % (2 * Half) \in 0..(2 * Half - 1)
  BY <1>1
<1>3. \A r \in 0..(2 * Half - 1) : r - Half \in -Half..(Half - 1)
  BY <1>1
<1> QED
  BY <1>1, <1>2, <1>3 DEF Encoder!Narrow, Encoder!Short

(* When all changes are read the decoder's state is the pins, so that a    *)
(* further reading counts nothing, and the position stays in its bounds.   *)
EncoderTypes == /\ Encoder!TypeOK
                /\ unseen = 0 => rotState = Encoder!Pins
                /\ unseen > 0 => rotPosition \in Encoder!Turns

LEMMA NextEncoderTypes ==
  ASSUME EncoderTypes, [Encoder!Next]_(Encoder!vars)
  PROVE  EncoderTypes'
<1>1. Lag \in Nat /\ MaxTurn \in Nat
  BY EncoderAssumption DEF Encoder!ConstantAssumption
<1>2. /\ Encoder!TypeOK /\ knob \in Int /\ rotPosition \in Int /\ unseen \in Nat
      /\ unseen = 0 => rotState = Encoder!Pins
      /\ unseen > 0 => rotPosition \in Encoder!Turns
  BY <1>1 DEF EncoderTypes, Encoder!TypeOK, Encoder!Turns
<1>3. \A k \in Int : Encoder!GrayCode[(k % 4) + 1] \in 0..3
  <2>1. \A k \in Int : k % 4 \in {0, 1, 2, 3}
    OBVIOUS
  <2> QED
    BY <2>1 DEF Encoder!GrayCode
<1>4. Encoder!Pins \in 0..3
  BY <1>2, <1>3 DEF Encoder!Pins
<1>5. ASSUME Encoder!Update, UNCHANGED <<knob, lastReported, position>>, at' \in {"isr0", "compare", "keep", "get"}
      PROVE  EncoderTypes'
  <2> DEFINE s == Encoder!Step(rotState, Encoder!Pins)
  <2>1. s \in {-2, -1, 0, 1, 2}
    BY DEF Encoder!Step
  <2>2. unseen = 0 => s = 0
    <3>1. \A p \in 0..3 : Encoder!Step(p, p) = 0
      BY DEF Encoder!Step
    <3> QED
      BY <1>2, <1>4, <3>1
  <2>3. unseen' = 0 /\ rotState' = Encoder!Pins /\ rotPosition' = rotPosition + s /\ missed' \in BOOLEAN
    BY <1>5 DEF Encoder!Update
  <2> HIDE DEF s
  <2>4. rotPosition' \in -(MaxTurn + 2)..(MaxTurn + 2)
    <3>1. CASE unseen = 0
      BY <1>2, <2>2, <2>3, <3>1 DEF Encoder!TypeOK
    <3>2. CASE unseen > 0
      BY <1>1, <1>2, <2>1, <2>3, <3>2 DEF Encoder!Turns
    <3> QED
      BY <1>2, <3>1, <3>2
  <2>5. Encoder!Pins' = Encoder!Pins
    BY <1>5 DEF Encoder!Pins
  <2>6. Encoder!TypeOK'
    BY <1>1, <1>2, <1>4, <1>5, <2>3, <2>4 DEF Encoder!TypeOK
  <2> QED
    BY <2>3, <2>5, <2>6 DEF EncoderTypes
<1>6. CASE Encoder!Interrupt
  <2>1. Encoder!Update /\ UNCHANGED <<knob, lastReported, at, position>>
    BY <1>6 DEF Encoder!Interrupt
  <2> QED
    BY <1>2, <1>5, <2>1 DEF Encoder!TypeOK
<1>7. CASE Encoder!CallIsr0
  <2>1. Encoder!Update /\ UNCHANGED <<knob, lastReported, position>> /\ at' = "compare"
    BY <1>7 DEF Encoder!CallIsr0
  <2> QED
    BY <1>5, <2>1
<1>8. ASSUME UNCHANGED <<knob, unseen, rotState, rotPosition, missed>>, Encoder!TypeOK' PROVE EncoderTypes'
  BY <1>2, <1>8 DEF EncoderTypes, Encoder!Pins
<1>9. CASE Encoder!Compare \/ Encoder!Keep \/ Encoder!Get \/ UNCHANGED Encoder!vars
  <2>1. Encoder!Narrow(rotPosition) \in Encoder!Short
    BY <1>2, NarrowIsShort
  <2>2. /\ UNCHANGED <<knob, unseen, rotState, rotPosition, missed>>
        /\ lastReported' \in {lastReported, Encoder!Narrow(rotPosition)}
        /\ position' \in {position, Encoder!Narrow(rotPosition)}
        /\ at' \in {at, "isr0", "keep", "get"}
    BY <1>9 DEF Encoder!Compare, Encoder!Keep, Encoder!Get, Encoder!vars
  <2>3. Encoder!TypeOK'
    BY <1>2, <2>1, <2>2 DEF Encoder!TypeOK
  <2> QED
    BY <1>8, <2>2, <2>3
<1>10. ASSUME NEW d \in {-1, 1}, Encoder!Turn(d) PROVE EncoderTypes'
  <2>1. /\ knob' \in Encoder!Turns /\ rotPosition \in Encoder!Turns /\ unseen' = unseen + 1 /\ unseen < Lag
        /\ UNCHANGED <<rotState, rotPosition, lastReported, at, position, missed>>
    BY <1>10 DEF Encoder!Turn
  <2>2. unseen' \in 0..Lag /\ unseen' > 0
    BY <1>1, <1>2, <2>1
  <2>3. Encoder!TypeOK'
    BY <1>2, <2>1, <2>2 DEF Encoder!TypeOK
  <2> QED
    BY <2>1, <2>2, <2>3 DEF EncoderTypes
<1> QED
  BY <1>6, <1>7, <1>9, <1>10 DEF Encoder!Next, Encoder!Main

LEMMA EncoderIsTyped == Spec => []Encoder!TypeOK
<1>1. Encoder!Init => EncoderTypes
  <2>1. 0 \in -Half..(Half - 1) /\ 0 \in -MaxTurn..MaxTurn /\ 0 \in -(MaxTurn + 2)..(MaxTurn + 2) /\ 0 \in 0..Lag
    <3>1. Half \in Nat /\ Half > 0 /\ Lag \in Nat /\ MaxTurn \in Nat
      BY EncoderAssumption DEF Encoder!ConstantAssumption
    <3> QED
      BY <3>1
  <2>2. Encoder!Init => Encoder!TypeOK
    <3>1. Encoder!InitialState \in 0..3
      BY DEF Encoder!InitialState, Encoder!GrayCode
    <3>2. 0 \in Encoder!Turns /\ 0 \in Encoder!Short
      BY <2>1 DEF Encoder!Turns, Encoder!Short
    <3> QED
      BY <2>1, <3>1, <3>2 DEF Encoder!Init, Encoder!TypeOK
  <2>3. Encoder!Init => unseen = 0 /\ ~(unseen > 0)
    BY DEF Encoder!Init
  <2> QED
    BY <2>2, <2>3, InitEncoder DEF EncoderTypes, PhaseInv, Seen
<1>2. EncoderTypes /\ [Encoder!Next]_(Encoder!vars) => EncoderTypes'
  BY NextEncoderTypes
<1>3. EncoderTypes => Encoder!TypeOK
  BY DEF EncoderTypes
<1> QED
  BY <1>1, <1>2, <1>3, EncoderRuns, PTL DEF Encoder!Spec

(* Whatever events a scan enqueues, the mailbox stays one: there is a fold *)
(* over the first n keys, and each that there is makes mailboxes.          *)
LEMMA FoldIsMailbox ==
  ASSUME NEW n \in Nat, NEW keys \in [1..n -> Key], NEW m \in Keypad!Mailbox,
         NEW next \in [Keypad!ToSet(keys) -> {"PRESSED", "HELD", "RELEASED", "IDLE"}]
  PROVE  Enqueued(m, next, keys) \in Keypad!Mailbox
<1> DEFINE With(b, k) == Keypad!EnqueueEvent(b, Keypad!Event(keys[k], next[keys[k]]))
           Folds(g, k) == \A s \in SUBSET (1..k) :
                             g[s] = IF s = {} THEN m ELSE With(g[s \ {Keypad!Max(s)}], Keypad!Max(s))
           Pass(iter) == [s \in SUBSET DOMAIN keys |->
                            IF s = {} THEN m
                            ELSE Keypad!EnqueueEvent(iter[s \ {Keypad!Max(s)}],
                                   Keypad!Event(keys[Keypad!Max(s)], next[keys[Keypad!Max(s)]]))]
           fold == CHOOSE iter : iter = Pass(iter)
<1>1. ASSUME NEW b \in Keypad!Mailbox, NEW k \in 1..n PROVE With(b, k) \in Keypad!Mailbox
  <2>1. keys[k] \in Key /\ next[keys[k]] \in {"PRESSED", "HELD", "RELEASED", "IDLE"}
    BY DEF Keypad!ToSet
  <2>2. Keypad!Event(keys[k], next[keys[k]]) \in Events
    BY <2>1 DEF Keypad!Event, Events
  <2> QED
    BY <2>2 DEF Keypad!EnqueueEvent, Keypad!SetLong, Keypad!Mailbox
<1>2. ASSUME NEW k \in Nat, NEW s \in SUBSET (1..(k + 1)), k + 1 \in s
      PROVE  Keypad!Max(s) = k + 1 /\ s # {} /\ s \ {k + 1} \in SUBSET (1..k)
  <2>1. k + 1 \in s /\ \A y \in s : k + 1 >= y
    <3>1. \A y \in 1..(k + 1) : k + 1 >= y
      OBVIOUS
    <3> QED
      BY <1>2, <3>1
  <2>2. \A x \in s : (\A y \in s : x >= y) => x = k + 1
    BY <2>1
  <2>3. Keypad!Max(s) = k + 1
    BY <2>1, <2>2 DEF Keypad!Max
  <2> QED
    BY <2>1, <2>3
<1>3. ASSUME NEW k \in Nat, NEW s \in SUBSET (1..(k + 1)), k + 1 \notin s
      PROVE  s \in SUBSET (1..k)
  <2>1. \A y \in 1..(k + 1) : y # k + 1 => y \in 1..k
    OBVIOUS
  <2> QED
    BY <1>3, <2>1
<1> HIDE DEF With
<1> DEFINE There == {k \in Nat : k <= n => \E g : Folds(g, k)}
<1>5. 0 \in There
  <2> DEFINE g == [s \in SUBSET (1..0) |-> m]
  <2>1. \A s \in SUBSET (1..0) : s = {} /\ g[s] = m
    OBVIOUS
  <2> HIDE DEF g
  <2>2. Folds(g, 0)
    BY <2>1
  <2> HIDE DEF Folds
  <2> QED
    BY <2>2
<1>6. ASSUME NEW k \in Nat, k \in There PROVE k + 1 \in There
  <2> SUFFICES ASSUME k + 1 <= n PROVE \E h : Folds(h, k + 1)
    <3>1. k + 1 \in Nat
      OBVIOUS
    <3> HIDE DEF Folds
    <3> QED
      BY <3>1, Zenon
  <2> HIDE DEF Folds
  <2>1. k <= n /\ k + 1 \in 1..n
    OBVIOUS
  <2>2. PICK g : Folds(g, k)
    BY <1>6, <2>1
  <2> DEFINE h == [s \in SUBSET (1..(k + 1)) |-> IF k + 1 \in s THEN With(g[s \ {k + 1}], k + 1) ELSE g[s]]
  <2>3. \A s \in SUBSET (1..k) : s \in SUBSET (1..(k + 1)) /\ k + 1 \notin s
    OBVIOUS
  <2>4. \A s \in SUBSET (1..k) : h[s] = g[s]
    BY <2>3
  <2>5. \A s \in SUBSET (1..(k + 1)) : k + 1 \in s => h[s] = With(g[s \ {k + 1}], k + 1)
    OBVIOUS
  <2> HIDE DEF h
  <2>6. ASSUME NEW s \in SUBSET (1..(k + 1))
        PROVE  h[s] = IF s = {} THEN m ELSE With(h[s \ {Keypad!Max(s)}], Keypad!Max(s))
    <3>1. CASE k + 1 \in s
      <4>1. Keypad!Max(s) = k + 1 /\ s # {} /\ s \ {k + 1} \in SUBSET (1..k)
        BY <1>2, <3>1
      <4> QED
        BY <2>4, <2>5, <3>1, <4>1
    <3>2. CASE k + 1 \notin s
      <4>1. s \in SUBSET (1..k) /\ s \ {Keypad!Max(s)} \in SUBSET (1..k)
        BY <1>3, <3>2
      <4>2. g[s] = IF s = {} THEN m ELSE With(g[s \ {Keypad!Max(s)}], Keypad!Max(s))
        BY <2>2, <4>1 DEF Folds
      <4> QED
        BY <2>4, <4>1, <4>2
    <3> QED
      BY <3>1, <3>2
  <2>7. Folds(h, k + 1)
    BY <2>6 DEF Folds
  <2> QED
    BY <2>7
<1>7. \E g : Folds(g, n)
  <2> HIDE DEF Folds
  <2>1. Nat \subseteq There
    <3> HIDE DEF There
    <3> QED
      BY <1>5, <1>6, Induct
  <2> QED
    BY <2>1
<1>8. DOMAIN keys = 1..n
  OBVIOUS
<1>9. \A iter : \A s \in SUBSET (1..n) :
         Pass(iter)[s] = IF s = {} THEN m ELSE With(iter[s \ {Keypad!Max(s)}], Keypad!Max(s))
  BY <1>8 DEF With
<1>10. \E iter : iter = Pass(iter)
  <2>1. PICK g : Folds(g, n)
    BY <1>7
  <2> DEFINE w == [s \in SUBSET DOMAIN keys |-> g[s]]
  <2>2. \A s \in SUBSET (1..n) : w[s] = g[s]
    BY <1>8
  <2>3. ASSUME NEW s \in SUBSET (1..n) PROVE g[s] = Pass(w)[s]
    <3>1. s \ {Keypad!Max(s)} \in SUBSET (1..n)
      OBVIOUS
    <3> HIDE DEF w, Pass
    <3>2. Pass(w)[s] = IF s = {} THEN m ELSE With(w[s \ {Keypad!Max(s)}], Keypad!Max(s))
      BY <1>9
    <3> QED
      BY <2>1, <2>2, <3>1, <3>2
  <2>4. w = [s \in SUBSET DOMAIN keys |-> Pass(w)[s]]
    <3> DEFINE v == Pass(w)
    <3>1. \A s \in SUBSET DOMAIN keys : g[s] = v[s]
      BY <1>8, <2>3
    <3> HIDE DEF v
    <3>2. w = [s \in SUBSET DOMAIN keys |-> v[s]]
      BY <3>1
    <3> QED
      BY <3>2 DEF v
  <2>5. Pass(w) = [s \in SUBSET DOMAIN keys |-> Pass(w)[s]]
    <3> HIDE DEF w
    <3> QED
      OBVIOUS
  <2>6. w = Pass(w)
    <3> HIDE DEF w, Pass
    <3> QED
      BY <2>4, <2>5
  <2> HIDE DEF w, Pass
  <2> QED
    BY <2>6
<1>11. fold = Pass(fold)
  <2> HIDE DEF Pass
  <2> QED
    BY <1>10 DEF fold
<1>12. Enqueued(m, next, keys) = fold[1..n]
  BY <1>8 DEF Enqueued, Keypad!FoldLeft, Keypad!MapThenFoldSet
<1> HIDE DEF fold
<1>13. \A s \in SUBSET (1..n) :
          fold[s] = IF s = {} THEN m ELSE With(fold[s \ {Keypad!Max(s)}], Keypad!Max(s))
  <2> HIDE DEF Pass
  <2> QED
    BY <1>9, <1>11, Zenon
<1> HIDE DEF Folds, There, Pass
<1> DEFINE Typed == {k \in Nat : k <= n => \A s \in SUBSET (1..k) : fold[s] \in Keypad!Mailbox}
<1>14. 0 \in Typed
  <2>1. \A s \in SUBSET (1..0) : s = {} /\ s \in SUBSET (1..n)
    OBVIOUS
  <2> QED
    BY <1>13, <2>1
<1>15. ASSUME NEW k \in Nat, k \in Typed PROVE k + 1 \in Typed
  <2> SUFFICES ASSUME k + 1 <= n, NEW s \in SUBSET (1..(k + 1)) PROVE fold[s] \in Keypad!Mailbox
    OBVIOUS
  <2>1. k <= n /\ k + 1 \in 1..n /\ \A r \in SUBSET (1..k) : fold[r] \in Keypad!Mailbox
    BY <1>15
  <2>2. CASE k + 1 \in s
    <3>1. Keypad!Max(s) = k + 1 /\ s # {} /\ s \ {k + 1} \in SUBSET (1..k)
      BY <1>2, <2>2
    <3>2. s \in SUBSET (1..n)
      BY <2>1
    <3>3. fold[s] = With(fold[s \ {k + 1}], k + 1)
      BY <1>13, <3>1, <3>2
    <3> QED
      BY <1>1, <2>1, <3>1, <3>3
  <2>3. CASE k + 1 \notin s
    BY <1>3, <2>1, <2>3
  <2> QED
    BY <2>2, <2>3
<1>16. Nat \subseteq Typed
  <2> HIDE DEF Typed
  <2> QED
    BY <1>14, <1>15, Induct
<1>17. fold[1..n] \in Keypad!Mailbox
  BY <1>16
<1> QED
  BY <1>12, <1>17

LEMMA NextKeypadTypes ==
  ASSUME Keypad!TypeOK, [Keypad!Next]_(Keypad!vars)
  PROVE  Keypad!TypeOK'
<1>1. /\ state \in [Key -> {"PRESSED", "HELD", "RELEASED", "IDLE"}]
      /\ device \in Keypad!Mailbox /\ proxy \in Keypad!Mailbox /\ lamp \subseteq Lit
      /\ blink \in BOOLEAN /\ unheard \subseteq Events
  BY DEF Keypad!TypeOK
<1>2. ASSUME NEW n \in 1..ScanSize, NEW keys \in [1..n -> Key], Keypad!Scan(keys) PROVE Keypad!TypeOK'
  <2>1. PICK next \in [Keypad!ToSet(keys) -> {"PRESSED", "HELD", "RELEASED", "IDLE"}] :
          /\ state' = [x \in Key |-> IF x \in Keypad!ToSet(keys) THEN next[x] ELSE state[x]]
          /\ device' = Enqueued(device, next, keys)
          /\ unheard' = unheard \cup {Keypad!Event(x, next[x]) : x \in Keypad!ToSet(keys)}
    <3>1. \E next \in [Keypad!ToSet(keys) -> {"PRESSED", "HELD", "RELEASED", "IDLE"}] :
             /\ \A x \in Keypad!ToSet(keys) : next[x] \in Keypad!Successors(state[x])
             /\ state' = [x \in Key |-> IF x \in Keypad!ToSet(keys) THEN next[x] ELSE state[x]]
             /\ device' = Enqueued(device, next, keys)
             /\ unheard' = unheard \cup {Keypad!Event(x, next[x]) : x \in Keypad!ToSet(keys)}
      BY <1>2, Zenon DEF Keypad!Scan, Enqueued
    <3> QED
      BY <3>1, Zenon
  <2>2. device' \in Keypad!Mailbox
    <3>1. n \in Nat
      BY KeypadAssumption DEF Keypad!BoundAssumption
    <3> QED
      BY <1>1, <2>1, <3>1, FoldIsMailbox
  <2>3. state' \in [Key -> {"PRESSED", "HELD", "RELEASED", "IDLE"}]
    BY <1>1, <2>1
  <2>4. Keypad!ToSet(keys) \subseteq Key
    BY DEF Keypad!ToSet
  <2>5. \A x \in Keypad!ToSet(keys) : Keypad!Event(x, next[x]) \in Events
    BY <2>4 DEF Keypad!Event, Events
  <2>6. unheard' \subseteq Events
    BY <1>1, <2>1, <2>5
  <2>7. UNCHANGED <<proxy, lamp, blink>>
    BY <1>2 DEF Keypad!Scan
  <2> QED
    BY <1>1, <2>2, <2>3, <2>6, <2>7 DEF Keypad!TypeOK
<1>3. \A b \in BOOLEAN : [device EXCEPT !.waiting = b] \in Keypad!Mailbox
  BY <1>1 DEF Keypad!Mailbox
<1>4. CASE Keypad!Elapse \/ Keypad!Lose
  <2>1. UNCHANGED <<state, proxy, lamp, blink, unheard>> /\ \E b \in BOOLEAN : device' = [device EXCEPT !.waiting = b]
    BY <1>4 DEF Keypad!Elapse, Keypad!Lose, Keypad!AfterGenerate
  <2> QED
    BY <1>1, <1>3, <2>1 DEF Keypad!TypeOK
<1>5. CASE Keypad!Deliver
  <2>1. device.contents \in Events
    BY <1>1 DEF Keypad!Mailbox
  <2>2. Keypad!AfterAccept(proxy, device.contents) \in Keypad!Mailbox
    BY <1>1, <2>1 DEF Keypad!AfterAccept, Keypad!Mailbox
  <2>3. Keypad!AfterGenerate(device) \in Keypad!Mailbox
    BY <1>3 DEF Keypad!AfterGenerate
  <2>4. Keypad!AfterAck(Keypad!AfterGenerate(device), device.contents) \in Keypad!Mailbox
    <3> DEFINE m == Keypad!AfterGenerate(device)
    <3>1. m \in Keypad!Mailbox
      BY <2>3
    <3> HIDE DEF m
    <3>2. Keypad!AfterAck(m, device.contents) \in Keypad!Mailbox
      BY <3>1 DEF Keypad!AfterAck, Keypad!Mailbox
    <3> QED
      BY <3>2 DEF m
  <2>5. Keypad!LampAfter(device.contents) \subseteq Lit
    BY <1>1, <2>1 DEF Keypad!LampAfter, Keypad!IsDown, Events, NoEvent
  <2>6. /\ proxy' \in Keypad!Mailbox /\ device' \in Keypad!Mailbox /\ state' = state
        /\ lamp' \subseteq Lit /\ blink' = blink /\ unheard' \subseteq Events
    BY <1>1, <1>5, <2>2, <2>3, <2>4, <2>5 DEF Keypad!Deliver
  <2> QED
    BY <1>1, <2>6 DEF Keypad!TypeOK
<1>6. CASE Keypad!Blink
  <2>1. Blinking \subseteq Lit
    BY KeypadAssumption DEF Keypad!LampAssumption
  <2> QED
    BY <1>1, <1>6, <2>1 DEF Keypad!Blink, Keypad!TypeOK
<1>7. CASE UNCHANGED Keypad!vars
  BY <1>1, <1>7 DEF Keypad!vars, Keypad!TypeOK
<1> QED
  BY <1>2, <1>4, <1>5, <1>6, <1>7 DEF Keypad!Next

LEMMA KeypadIsTyped == Spec => []Keypad!TypeOK
<1>1. Keypad!Init => Keypad!TypeOK
  <2> SUFFICES ASSUME Keypad!Init PROVE Keypad!TypeOK
    OBVIOUS
  <2>1. Keypad!NewMailbox \in Keypad!Mailbox
    BY DEF Keypad!NewMailbox, Keypad!Mailbox, Events
  <2>2. lamp \subseteq Lit /\ blink \in BOOLEAN
    BY DEF Keypad!Init
  <2> QED
    BY <2>1, <2>2 DEF Keypad!Init, Keypad!TypeOK
<1> QED
  BY <1>1, NextKeypadTypes, KeypadRuns, PTL DEF Keypad!Spec

LEMMA ListIsTyped == Spec => []Peripherals!TypeOK
<1> DEFINE Flags == initialized \in BOOLEAN /\ configured \subseteq Object
<1>1. ListInv => /\ firstPeripheral \in Peripherals!Pointer
                 /\ nextPeripheral \in [Object -> Peripherals!Pointer]
                 /\ \E n \in 0..Peripherals!Cardinality(Object) : alive \in [1..n -> Object]
                 /\ outlived \in 0..Len(alive)
                 /\ Peripherals!Reached \subseteq Object
  <2> SUFFICES ASSUME ListInv
               PROVE  /\ firstPeripheral \in Peripherals!Pointer
                      /\ nextPeripheral \in [Object -> Peripherals!Pointer]
                      /\ \E n \in 0..Peripherals!Cardinality(Object) : alive \in [1..n -> Object]
                      /\ outlived \in 0..Len(alive)
                      /\ Peripherals!Reached \subseteq Object
    OBVIOUS
  <2>1. PICK n \in 0..Cardinality(Object) :
          /\ alive \in [1..n -> Object]
          /\ \A i, j \in 1..n : alive[i] = alive[j] => i = j
          /\ Linked(n)
    BY DEF ListInv
  <2>2. Peripherals!Reached \subseteq Object
    <3>1. \A k \in (outlived + 1)..n : k \in 1..n
      BY <2>1, Objects DEF Linked
    <3> QED
      BY <2>1, <3>1, ReachedIsYoungest
  <2>3. firstPeripheral \in Object \cup {NULL} /\ outlived \in 0..Len(alive)
    <3>1. outlived \in 0..n /\ n \in Nat /\ (outlived < n => outlived + 1 \in 1..n) /\ Len(alive) = n
      BY <2>1, Objects DEF Linked
    <3> QED
      BY <2>1, <3>1 DEF Linked
  <2>4. \E i \in 0..Peripherals!Cardinality(Object) : alive \in [1..i -> Object]
    BY <2>1, Zenon DEF Peripherals!Cardinality, Cardinality
  <2> QED
    BY <2>2, <2>3, <2>4 DEF ListInv, Peripherals!Pointer
<1>2. Peripherals!Init => ListInv /\ Flags
  BY InitList DEF Peripherals!Init
<1>3. ListInv /\ Flags /\ [Peripherals!ZeroedNext]_(Peripherals!vars) => (ListInv /\ Flags)'
  <2> SUFFICES ASSUME ListInv, Flags, [Peripherals!ZeroedNext]_(Peripherals!vars) PROVE Flags'
    BY NextList
  <2>1. Peripherals!Reached \subseteq Object
    BY <1>1
  <2> QED
    BY <2>1 DEF Peripherals!ZeroedNext, Peripherals!Initialize, Peripherals!Construct, Peripherals!Destroy,
                Peripherals!vars
<1>4. ListInv /\ Flags => Peripherals!TypeOK
  BY <1>1 DEF Peripherals!TypeOK
<1> QED
  BY <1>2, <1>3, <1>4, ListRuns, PTL DEF Peripherals!ZeroedSpec

(* The variables of every part hold what their types say, in every         *)
(* reachable state: a reported position fits into a short integer          *)
(* (MakernetEncoderReader.cpp 8-14), a scan of any number of keys leaves   *)
(* a mailbox with an event in it, a pin holds what fits into its mailbox,  *)
(* a stream of the simulated bus never holds more than there is room for.  *)
THEOREM PartsAreTyped == Spec => []TypeOK
<1>1. ClockIndInv => Clock!TypeOK
  BY DEF ClockIndInv
<1>2. PinsInv => Pins!TypeOK
  BY DEF PinsInv
<1>3. PinsInv /\ [Pins!Next]_(Pins!vars) => PinsInv'
  BY NextPins
<1>4. StreamTypes => Reflector!TypeOK
  <2> SUFFICES ASSUME StreamTypes, NEW c \in Client
               PROVE  /\ Len(up[c]) <= Room /\ \A k \in 1..Len(up[c]) : up[c][k] \in Reflector!Byte
                      /\ Len(down[c]) <= Room /\ \A k \in 1..Len(down[c]) : down[c][k] \in Reflector!Byte
                      /\ reading[c] \in Taken
                      /\ \A k \in 1..Len(todo[c]) : \A b \in Reflector!ToSet(todo[c][k]) :
                            b \in Reflector!Byte /\ b.from = c
    BY DEF StreamTypes, Reflector!TypeOK, Taken
  <2>1. up[c] \in Bytes /\ down[c] \in Bytes /\ todo[c] \in Seq(Own(c)) /\ reading[c] \in Taken
        /\ Len(up[c]) <= Room /\ Len(down[c]) <= Room
    BY DEF StreamTypes
  <2>2. ASSUME NEW k \in 1..Len(todo[c]), NEW b \in Reflector!ToSet(todo[c][k])
        PROVE  b \in Reflector!Byte /\ b.from = c
    <3>1. todo[c][k] \in Own(c)
      BY <2>1
    <3> DEFINE s == todo[c][k]
    <3>2. s \in Bytes /\ DOMAIN s = 1..Len(s) /\ \A i \in 1..Len(s) : s[i] \in Reflector!Byte /\ s[i].from = c
      BY <3>1 DEF Own, Bytes
    <3> HIDE DEF s
    <3>3. \A x \in Reflector!ToSet(s) : x \in Reflector!Byte /\ x.from = c
      BY <3>2 DEF Reflector!ToSet
    <3> QED
      BY <3>3 DEF s
  <2> QED
    BY <2>1, <2>2 DEF Bytes
<1>5. Spec => []Clock!TypeOK
  BY <1>1, TimerInvariant, PTL
<1>6. Spec => []Pins!TypeOK
  BY <1>2, <1>3, InitPins, PinsRun, PTL DEF Pins!Spec
<1>7. Spec => []Reflector!TypeOK
  BY <1>4, StreamsAreTyped, PTL
<1>8. (Clock!TypeOK /\ Encoder!TypeOK /\ Pins!TypeOK)
      /\ (Keypad!TypeOK /\ Peripherals!TypeOK /\ Reflector!TypeOK) => TypeOK
  BY DEF TypeOK
<1> QED
  BY <1>5, <1>6, <1>7, <1>8, EncoderIsTyped, KeypadIsTyped, ListIsTyped, PTL
===============================================================================
