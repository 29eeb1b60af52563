-------------------------- MODULE MCProductServer --------------------------
EXTENDS ProductServer, TLC

Row(id, version, text) == [id |-> id, version |-> version, text |-> text]

\* The file of an owner, and the demo profile: a later version of the same
\* founder, with another project.
OwnInput == [founder |-> Row("f1", 1, "own"),
             projects |-> {Row("p1", 1, "own"), Row("p2", 1, "own")}]
DemoInput == [founder |-> Row("f1", 2, "demo"), projects |-> {Row("p1", 2, "demo")}]
AllInputs == {OwnInput, DemoInput}

Symmetry == UNION {Permutations(S) : S \in {Clients, RunIds, Digests, Browsers}}
==============================================================================
