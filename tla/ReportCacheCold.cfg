\* The version key there or not: a slow reader may create it after a bump.
SPECIFICATION Spec
CONSTANTS
  r1 = r1  r2 = r2  r3 = r3  w1 = w1  w2 = w2  None = None
  Readers = {r1, r2, r3}
  Writers = {w1, w2}
  Keys = {"dashboard"}
  MaxCommits = 1
INVARIANTS NoStaleHit
