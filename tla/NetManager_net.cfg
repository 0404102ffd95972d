SPECIFICATION FairSpec
CONSTANTS
  Platforms = {"stub", "tinygo", "idf"}
  Callers = {c1, c2}
  Listeners = {l1, l2}
  MaxFd = 3
  MaxCalls = 4
INVARIANTS
  NoStrayListener
  OwnerCloses
  DisconnectReleases
  StatusSettles
PROPERTIES
  LoopsEnd
CHECK_DEADLOCK FALSE
