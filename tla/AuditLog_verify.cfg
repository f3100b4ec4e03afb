CONSTANTS
  engine = engine
  cli = cli
  Instances = {engine}
  ThreadsPer = 1
  MaxEvents = 3
  Window = 2
  Sizes = {"short"}
  MaxFailures = 1
  MaxCrashes = 0
  TornTails = FALSE
  Genesis = Genesis
SPECIFICATION Spec
CHECK_DEADLOCK FALSE
INVARIANTS
  VerifyMeansChained
