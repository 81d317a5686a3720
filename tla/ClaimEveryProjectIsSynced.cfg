SPECIFICATION ProjectsSpec
CONSTANTS
  Project = {"p1", "p2"}
  Dir = {"a", "b"}
  Inside <- Nested
  Doc <- Blueprints
  Fact = {"f"}
  MaxBlueprints = 2
  Effort <- ProjectActs
INVARIANT EveryProjectIsSynced
CHECK_DEADLOCK FALSE
