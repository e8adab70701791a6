SPECIFICATION Spec
CONSTANTS
  NetThread = {n1}
  Handler = {h1, h2}
  w1 = w1
  Worker = {w1}
  WorkerOf <- WorkerOfOne
  Nobody = Nobody
INVARIANTS NoCircle
PROPERTIES StuckForEver HeldOnlyForABody EverybodyGetsOn
CHECK_DEADLOCK FALSE
