SPECIFICATION LiveSpec
CONSTANTS
  host = host
  ann = ann
  Host = host
  Peers <- OnePeer
  Backlog = 1
  MaxConnections = 2
  MaxSessions <- Visits
  MaxFaults = 1
INVARIANTS
  TypeOK
  EventsInSessionOrder
  NoForgottenSocket
  SecondRecordNeedsLostEnd
PROPERTIES
  AnswerGoesToAsker
  JoinAnswered
  NobodyStaysAlone
  PlaceIsFreed
CHECK_DEADLOCK FALSE
