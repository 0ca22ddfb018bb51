\* Three numbered values, stored at either end.
SPECIFICATION Spec
CONSTANTS
  Value = {0, 1, 2, 3}
  Zero = 0
INVARIANTS TypeOK ControllerHoldsStored InSync
PROPERTIES NeverBack
