SPECIFICATION AlgorithmsSpec
CONSTANTS
  Inputs <- AllInputs
  Word = 4096
  DigitBuffer = 5
  MAX_TEXT_LENGTH = 2
  CenterLength = 2
  EntryBytes = 8
  Max12 = 8
  Max16 = 16
  NameLen = 3
  ExtLen = 2
  HalfWord = 16
  Octet = 4
INVARIANTS
  NamesAndTexts
  NumbersReadBack
  StaysInside
