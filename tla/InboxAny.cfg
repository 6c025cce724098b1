SPECIFICATION Spec
CONSTANTS
  MAX_PROCS = 3
  MAX_PENDING_MESSAGES = 2
  MAX_MSG_SIZE = 1
  ByteSize = 3
  Sizes <- EdgeSizes
  Rooms <- EdgeRooms
INVARIANTS
  TypeOK
  RingConsistent
PROPERTIES
  IsMailbox
