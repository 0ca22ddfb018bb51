\* The application waits for each acknowledgement; no bus reset, events counted.
SPECIFICATION PacedSpec
CONSTANTS
  Value <- FewValues
  Zero = 0
  Boxes <- OneBox
  MaxResets = 0
  MaxHeard = 1
INVARIANTS AckedIsHeard
