SPECIFICATION Spec
CONSTANTS
  r1 = r1
  r2 = r2
  Request = {r1, r2}
  Link = {"l"}
  MaxStamp = 3
  Secret = {"s1", "s2"}
  MaxVersions = 2
  Target = {"g"}
  EnvName = {"n"}
  Required = {"n"}
  Run = {"d1"}
  MaxPolls = 1
  MaxEdits = 2
  MaxStops = 1
  Server = {"m"}
  Plugin = {"p"}
  Attempt <- Attempts
  ToolName = {"x", "y"}
  MaxCalls = 4
  Provider = {"openai", "ollama"}
  Probe = {"v"}
  Chat = {"c"}
  MaxConnections = 3
  MaxStarts = 1
  Project = {"p1", "p2", "p3"}
  Dir = {"a", "b"}
  Inside <- Nested
  Doc <- Blueprints
  Fact = {"f", "g"}
  MaxBlueprints = 2
  Effort <- ProjectActs
  MaxKnown = 3
  MaxRows = 3
  MaxKills = 3
INVARIANTS
  ServicesInv
  PoolsAreKept
  
  TargetsHaveTheirSecrets
  ToolsHaveTheirOwner
  WhatIsKnownIsCurrent
  FoldersAreApart
  RowsSurviveUpgrades
CHECK_DEADLOCK FALSE
