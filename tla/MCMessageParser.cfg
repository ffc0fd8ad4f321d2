SPECIFICATION FairSpec
CONSTANTS
  Names <- NamesDef
  PacketSizes = {0, 1, 2, 123, 124, 127, 128, 130}
  Alphabet <- AlphabetDef
  StrayLength = 4
  MaxBody = 150
INVARIANTS
  TypeOK
  RequestUnderstood
  EstablishWhole
PROPERTY Stops
CHECK_DEADLOCK FALSE
