SPECIFICATION PartsSpec
CONSTANTS
  Files <- AllFiles
  WORDS = 64
  Addresses = {2, 14, 28, 44}
  Symbols <- KernelSymbols
  CAPACITY = 2
  LINK = 40
  LIMIT = 20
  MaxLoads = 2
  Machines <- AllMachines
  Lbas <- EdgeLbas
  MaxAsked = 2
  Keys = {30, 158, 42}
  Moves <- MoveSet
  MaxKeys = 2
  MaxMoves = 2
  Width = 5
  Height = 4
  TTY_W = 3
  TTY_H = 3
  USER_NAME_LENGTH = 4
  PASS_LENGTH = 6
  MAX_USERS = 3
  MAX_LOGIN_ATTEMPTS = 2
  MAX_CONFIG_VARS = 4
  MAX_VAR_NAME = 4
  HASHES = 251
  Code <- CharCode
  Folded <- LowerCase
  UsersIni <- Lines
  Hashed <- OwnHash
  TypedChars <- Chars
  MaxTyped = 6
  DisplayW = 3
  DisplayH = 2
  Order <- TwoWindows
  Sizes <- TwoSizes
  CursorSize <- ArrowSize
  CursorImage <- Arrow
  MaxMoved = 3
  MAX_FILES = 2
  Blocks = {1, 2, 3, 4}
  Contents <- Paths
  Modes <- Flags
  MaxSize = 2
  Farthest = 2
  NoBlock = 0
  FontBlocks = 1
INVARIANTS
  PartsTypeOK
  ImagesLinked
  ImagesHoldMemory
  PacketsInSync
  KeysInOrder
  LineOnScreen
  UsersLogIn
  ScreenShowsDesktop
  FilesOwnBlocks
PROPERTIES
  TransferIsSector
  AtaAnswers
CHECK_DEADLOCK FALSE
