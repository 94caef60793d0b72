\* Two readers, two writers, two mutations; the version key there or not.
SPECIFICATION FairSpec
CONSTANTS
  r1 = r1  r2 = r2  r3 = r3  w1 = w1  w2 = w2  None = None
  Readers = {r1, r2}
  Writers = {w1, w2}
  Keys = {"dashboard"}
  MaxCommits = 2
INVARIANTS TypeOK StaleOnlyIfUndone CacheInv
PROPERTIES EventuallyFresh
