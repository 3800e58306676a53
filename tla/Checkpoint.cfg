CONSTANTS
  Turns = {t1, t2}
  Nobody = Nobody
  Runs = {r1, r2}
  Imported = 2
  Faults = 1
SPECIFICATION Spec
INVARIANTS TypeOK NothingHidden OnePassAtATime
SYMMETRY Alike
CHECK_DEADLOCK FALSE
