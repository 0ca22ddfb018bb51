\* Two knobs, three proxies of two types, power cycles of both sides.
SPECIFICATION Spec
CONSTANTS
  knobA = knobA
  knobB = knobB
  keys = keys
  Device <- Knobs
  HardwareID <- SerialHash
  DeviceType <- Firmware
  ProxyType <- KnobKeysKnobProxies
  NumProxies = 3
  MaxBoots = 2
  MaxRestarts = 2
INVARIANTS TypeOK RoutedToOwnProxy OwnAddress ProxiesDisjoint
PROPERTIES BindingIsKept
