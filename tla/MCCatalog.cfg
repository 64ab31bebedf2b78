CONSTANTS
  k1 = k1
  k2 = k2
  NoSecret = NoSecret
  Id = {"home", "other", "broken"}
  Home = "home"
  Broken = {"broken"}
  Secret = {k1, k2}
  Found <- MCFound
  MaxEdits = 1
  MaxSaves = 4
  MaxFailures = 2
SPECIFICATION Spec
ACTION_CONSTRAINT Apart
INVARIANTS CleanIsOnDisk
PROPERTIES KeyStaysStored NothingOpenIsLost
