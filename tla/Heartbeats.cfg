SPECIFICATION Spec
CONSTANTS
  host = host
  ann = ann
  Host = host
  Peer = ann
  Interval = 1
  Timeout = 4
  Delay = 1
  Gap <- Stalls
  MaxSkew = 1
  Leavers = {host}
  Setters = {ann}
INVARIANTS
  TypeOK
  SilenceIsNoticed
PROPERTIES
  NoFalseTimeout
CHECK_DEADLOCK FALSE
