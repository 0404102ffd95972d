SPECIFICATION FairSpec
CONSTANTS
  Sessions = {serial, network}
  Names = {"a", "b", "b.pc"}
  Paths = {"a.pc", "b.pc"}
  Found <- MCFound
  Texts <- MCTexts
INVARIANTS
  MarksOwned
  CacheSound
  CyclesReal
PROPERTIES
  ImportsEnd
