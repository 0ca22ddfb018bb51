\* Fair scheduling and a fair air; one mailbox, four numbered values, two bus
\* resets, events counted up to one.
SPECIFICATION FairSpec
CONSTANTS
  Value <- Values
  Zero = 0
  Boxes <- OneBox
  MaxResets = 2
  MaxHeard = 1
INVARIANTS TypeOK InSync PushesOwn EventIsDue IndInv FirstEventIsHeard
PROPERTIES MasterOverrides NeverBack Converges
