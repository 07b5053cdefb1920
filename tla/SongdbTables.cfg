CONSTANTS
  None = None
  Repeat = Repeat
  HashTop = 50
  Size = 5
  MetaSize = 3
  Base = 2
  LengthSize = 8
  Installs <- MCInstalls
  SourceSets <- MCSources
SPECIFICATION Spec
INVARIANTS SearchFinds LookupsAgree LookupsTellTheFiles
