SPECIFICATION Spec
CONSTANTS
  Programs <- TwoPids
  WM = 2
  MaxRids = 3
  Kinds <- RawAndLibrary
INVARIANTS
  TypeOK
  Pooled
  Linked
PROPERTIES
  ProtectedHeld
  DisplayServed
