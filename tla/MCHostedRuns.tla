---------------------------- MODULE MCHostedRuns ----------------------------
EXTENDS HostedRuns, TLC

Symmetry == Permutations(Requests) \cup Permutations(RunIds)

\* Ids differ in nothing but the order they are drawn in: where they are
\* numbers they are drawn in their own.  The last of them is left for a launch
\* past the limit, by a process that has drawn all the others.
DrawnInOrder ==
  /\ issued = 1 .. Cardinality(issued)
  /\ issued = RunIds => accepted > MaxRuns
=============================================================================
