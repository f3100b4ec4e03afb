CONSTANTS
  engine = engine
  cli = cli
  Instances = {engine, cli}
  ThreadsPer = 2
  MaxEvents = 3
  Window = 2
  Sizes = {"short", "long"}
  MaxFailures = 1
  MaxCrashes = 2
  TornTails = TRUE
  Genesis = Genesis
SPECIFICATION Spec
CHECK_DEADLOCK FALSE
SYMMETRY Processes
INVARIANTS
  AuditTypeOK
  ReturnedIsKept
  DamageBounded
PROPERTIES
  ImplementsChain
