\* One device, its proxy, two values, power cycles of both sides.
SPECIFICATION Spec
CONSTANTS
  knobA = knobA
  knobB = knobB
  Device <- OneKnob
  HardwareID <- SerialHash
  DeviceType <- AllKnobs
  ProxyType <- KnobProxies
  NumProxies = 1
  MaxBoots = 2
  MaxRestarts = 1
  Value = {0, 1, 2}
  Zero = 0
INVARIANTS TypeOK ConfigurationIsHeld
PROPERTIES ImplementsVending
