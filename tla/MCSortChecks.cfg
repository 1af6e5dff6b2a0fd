CONSTANTS
  BigArrayItem <- Items
  MaxLen = 5
  CrcAtom = 3
  Width = 8
SPECIFICATION RunSpec
INVARIANTS
  SortsEveryItemOnce
  MemoryIsBounded
  TestFindsDamage
  CrcAddsUp
