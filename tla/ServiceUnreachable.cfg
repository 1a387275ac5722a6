SPECIFICATION Spec
CONSTANTS
  MaxPart = 2
  Release = 1
  Unbounded = Unbounded
  Absent = Absent
  MaxDeclared = 3
  MaxEntries = 2
  MaxVersions = 2
  MaxNegotiated = 2
  FormatVersion = 1
  MaxRules = 3
  MaxConstraints = 2
  MaxImplications = 2
  MaxShadowers = 2
  MaxCells = 12
  MaxAnalyzed = 3
  MaxEvidence = 2
  MaxMembers = 3
  Plans <- MCPlans
  Asked <- MCAsked
  MaxIdentity = 2
  AllowPublish = TRUE
  AllowPrune = TRUE
INVARIANT UnreachableIsNeverFalse
CHECK_DEADLOCK FALSE
