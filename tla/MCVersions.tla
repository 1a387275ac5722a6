---------------------------- MODULE MCVersions ----------------------------
EXTENDS Versions

P(given, major, minor, patch, pre) ==
  [given |-> given, major |-> major, minor |-> minor, patch |-> patch, pre |-> pre]

\* Every shape of a partial version: with and without leading zeros, with and
\* without a prerelease.  No component is MaxPart, so none of them wraps.
MCWritten ==
  {P(0, 0, 0, 0, Release),
   P(1, 0, 0, 0, Release), P(1, 1, 0, 0, Release),
   P(2, 0, 0, 0, Release), P(2, 0, 1, 0, Release),
   P(3, 0, 0, 1, Release), P(3, 0, 1, 0, Release), P(3, 1, 0, 0, Release),
   P(3, 1, 0, 0, 0), P(3, 1, 0, 0, 1)}
=============================================================================
