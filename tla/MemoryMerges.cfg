SPECIFICATION Spec
CONSTANTS
  x = x
  y = y
  z = z
  v = v
  Memories = {x, y, z}
  Stored = {x, y}
  Wordings = {v}
  NoVec = NoVec
  Threads = {s, t}
  Proposals <- Two
  Edits <- Patched
  Budget <- Few
INVARIANTS TypeOK UndoneIsAsBefore TextIsEmbedded FactsAreKept StandsForItsGroup
SYMMETRY Symmetry
CHECK_DEADLOCK FALSE
