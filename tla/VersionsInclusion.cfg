\* version.hpp on VersionRange::Subsumes: "True when every version admitted by
\* other is admitted by *this."
SPECIFICATION Spec
CONSTANTS
  MaxPart = 2
  Release = 2
  Unbounded = Unbounded
  Written <- MCWritten
  MaxComparators = 3
  MaxGroups = 2
  NoRange = NoRange
  LimitExceeded = LimitExceeded
INVARIANT SubsumesIsInclusion
CHECK_DEADLOCK FALSE
