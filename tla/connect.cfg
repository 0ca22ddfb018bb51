\* Fair scheduling and a fair air; two power cycles of devices.
SPECIFICATION FairSpec
CONSTANTS
  knobA = knobA
  knobB = knobB
  keys = keys
  Device <- Knobs
  HardwareID <- SerialHash
  DeviceType <- Firmware
  ProxyType <- TwoKnobProxies
  NumProxies = 2
  MaxBoots = 1
  MaxRestarts = 2
PROPERTIES EveryoneConnects
