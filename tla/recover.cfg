\* One device under fairness; two values, one power cycle of the device.
SPECIFICATION FairSpec
CONSTANTS
  knobA = knobA
  knobB = knobB
  Device <- OneKnob
  HardwareID <- SerialHash
  DeviceType <- AllKnobs
  ProxyType <- KnobProxies
  NumProxies = 1
  MaxBoots = 1
  MaxRestarts = 1
  Value = {0, 1, 2}
  Zero = 0
PROPERTIES Recovers
