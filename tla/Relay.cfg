SPECIFICATION LiveSpec
CONSTANTS
  first = first
  second = second
  none = none
  NoLayer = none
  bridge = bridge
  Layers <- Popups
  Bridges <- OneBridge
  MaxHosts = 2
INVARIANTS
  TypeOK
  RetainsMatch
  CrashesOnlyWhen
  AnnouncesThisSession
PROPERTIES
  StopReturns
  LayersAreReleased
CHECK_DEADLOCK FALSE
