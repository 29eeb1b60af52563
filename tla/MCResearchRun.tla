--------------------------- MODULE MCResearchRun ----------------------------
EXTENDS ResearchRun

MCLimit == [INFERENCE |-> 3, SEARCH |-> 1, FETCH |-> 2]
=============================================================================
