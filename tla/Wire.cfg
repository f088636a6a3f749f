SPECIFICATION Spec
CONSTANTS
  MaxPayload = 60
  Rooms <- AllRooms
  Scripts <- AllScripts
  Shares = {"compact", "blanks", "small", "plain", "plainSmall", "key"}
  Hearings <- Pieces
INVARIANTS
  TypeOK
  HandledAsSent
  EmittedAsSent
  ArrivesIntact
  InvitationLeads
CHECK_DEADLOCK FALSE
