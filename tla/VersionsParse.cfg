\* Every text of two alternatives of up to three tokens: comparators of ten
\* versions and partial versions with each operator, and hyphen ranges.
SPECIFICATION Spec
CONSTANTS
  MaxPart = 2
  Release = 2
  Unbounded = Unbounded
  Written <- MCWritten
  MaxComparators = 3
  MaxGroups = 2
  NoRange = NoRange
  LimitExceeded = LimitExceeded
INVARIANTS
  ParsedAsWritten
  RangesAreCanonical
  PrereleasesAreAskedFor
CHECK_DEADLOCK FALSE
