CONSTANTS
  MaxItems = 9
  Strings <- StringSet
  Numbers <- NumberSet
  Value <- Values
  CJSON_NESTING_LIMIT = 3
  Versions <- Written
  FixedTexts <- Fixed
  MaxRows = 200
  ShortReads <- Cuts
SPECIFICATION Spec
INVARIANTS
  TypeOK
  NameInBounds
  EveryItemOwned
  ParsesTheText
  VerdictIsRight
  OutIsAVersion
