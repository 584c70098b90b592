\* Two spawns into one job, whose holder may kill or drop it at any time.
SPECIFICATION FairSpec
CONSTANTS
  s1 = s1  s2 = s2  Owner = Owner  Nobody = Nobody
  Spawn = {s1, s2}
INVARIANTS Confined NobodyForgotten
PROPERTIES ImplementsJob CallsReturn
CHECK_DEADLOCK FALSE
