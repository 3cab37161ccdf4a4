CONSTANTS
  Peers = {p1, p2}
  Beacons <- ThreeBeacons
  Masks = {7, 12}
  Dsss = 2
  Ofdm = 2
  PvmSize = 2
  TemplateSize = 14
  StaNum = 4
  MaxFaults = 1
SYMMETRY AnyPeer
SPECIFICATION Spec
INVARIANTS TypeOK ApNothingLeft FrameNamesPeer BeaconWhole
CHECK_DEADLOCK FALSE
