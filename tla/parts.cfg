\* Each part on its own: a clock of 24 values; a knob of which up to two changes
\* in a row are missed; two pins; four keys, one without a lamp and one whose
\* lamp blinks, one event after the other; four objects in memory that is zero;
\* a controller and a device on the reflector.
\* When no memory is zero any more, or everybody writes into a stream that is
\* full, there is nothing left to do.
SPECIFICATION Spec
CONSTANTS
  M = 24
  Period = 5
  Gap = 3
  Half = 4
  Lag = 3
  MaxTurn = 6
  Pin = {p1, p2}
  PWMPeriod = 2
  Key = {keyA, keyB, keyC, keyD}
  Lit = {keyA, keyB, keyC}
  Blinking = {keyC}
  ScanSize = 1
  Paced = TRUE
  Object = {a, b, c, d}
  NULL = NULL
  Client = {master, slave}
  Master = master
  Early = {}
  BodySize = 3
  Chunk = 2
  Room = 8
CHECK_DEADLOCK FALSE
INVARIANTS TypeOK Punctual Follows InPhase NoStrayHigh  ListInOrder FirstReadsWhole
PROPERTIES NeverEarly
