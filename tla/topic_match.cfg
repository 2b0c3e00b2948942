SPECIFICATION MCSpec
CONSTANTS
  Level = {a, empty, sys, plus, hash, xplus, xhash}
  Plus = plus
  Hash = hash
  Empty = empty
  HasPlus = {plus, xplus}
  HasHash = {hash, xhash}
  Dollar = {sys}
  MaxLevels = 3
INVARIANTS WalkTypeOK MatchesExactly
CHECK_DEADLOCK FALSE
