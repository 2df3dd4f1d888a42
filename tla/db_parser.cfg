SPECIFICATION Spec
CONSTANTS
  Digit <- Digits
  LongMax = 60
  IntMax = 15
  Database <- Databases
  Char <- Chars
  Typo <- Typos
INVARIANTS
  TypeOK
  IndexInRange
  WholeFileLoads
  DamageIsLocal
PROPERTY ParseEnds
