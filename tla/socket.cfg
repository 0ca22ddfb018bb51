\* Fair scheduling; two values, set at either end, streams of three frames.
SPECIFICATION FairSpec
CONSTANTS
  Value = {0, 1, 2}
  Zero = 0
  MaxWire = 3
INVARIANTS TypeOK InSync
PROPERTIES NeverBack DeviceIsHeard
