------------------------ MODULE MCApprovalAuthority ------------------------
EXTENDS ApprovalAuthority, TLC

MCDeadline == [v \in Versions |-> IF v = 1 THEN 4 ELSE 3]

\* Bound: the writes one behaviour makes to the graph besides run commits.
Writes ==
  (oppV - 1) + (founderV - 1) + Cardinality(refreshFailed)
    + Cardinality(proofReplaced) + Cardinality({p \in Projects : projV[p] > 1})
OneWrite == Writes <= 1
TwoWrites == Writes <= 2

Symmetry ==
  UNION {Permutations(S) : S \in {Approvals, Keys, Runs, Batches, Projects}}
=============================================================================
