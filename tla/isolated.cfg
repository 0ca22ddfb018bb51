\* Two devices, each with its proxy and a value for each side.
SPECIFICATION Spec
CONSTANTS
  knobA = knobA
  knobB = knobB
  Device <- TwoKnobs
  HardwareID <- SerialHash
  DeviceType <- AllKnobs
  ProxyType <- KnobProxies
  NumProxies = 2
  MaxBoots = 1
  MaxRestarts = 1
  Value = {0, 1}
  Zero = 0
INVARIANTS Isolated
