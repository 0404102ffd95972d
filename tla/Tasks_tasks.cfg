SPECIFICATION FairSpec
CONSTANTS
  Names = {a, b}
  MaxSpawns = 2
  MaxResumes = 1
INVARIANTS
  RegistryFaithful
PROPERTIES
  DeletedEnds
  ResumedStarts
