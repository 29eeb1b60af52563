------------------------ MODULE MCSectionAcquisition ------------------------
(* Small sources for the acquisition runs. *)
EXTENDS SectionAcquisition

\* A section of one span in no context, with nothing routed to it.
Plain == [body |-> {}, heading |-> {}, hints |-> {}, marker |-> FALSE, ruleLike |-> FALSE,
          ref |-> FALSE, global |-> FALSE, context |-> {}, complete |-> TRUE, spans |-> 1]

Clause(cats) == [Plain EXCEPT !.body = cats, !.marker = TRUE, !.ruleLike = TRUE]
Mention(cats) == [Plain EXCEPT !.heading = cats]
Hinted(cats) == [Plain EXCEPT !.hints = cats, !.ruleLike = TRUE]
Severed(s) == [s EXCEPT !.complete = FALSE]
Below(s, ns) == [s EXCEPT !.context = ns]
Under(s, n) == Below(s, {n})
Within(s, ns) == [Below(s, ns) EXCEPT !.ref = TRUE]
Referring(s, n) == Within(s, {n})
Long(s) == [s EXCEPT !.spans = MaxSpans]
GlobalClause(s) == [s EXCEPT !.global = TRUE]

\* Sources whose reserve sections, if any, no active item refers to.
SettledIndexes ==
  {\* two clauses of category 1, and a heading that names both
   <<Clause({1}), Clause({2}), Mention({1, 2})>>,
   <<Clause({1}), Clause({1}), Mention({1})>>,
   \* one clause of two categories and a section of hints
   <<Clause({1, 2}), Hinted({1})>>,
   \* no clause at all
   <<Severed(Mention({1})), Mention({1}), Mention({2}), Plain>>,
   \* a clause whose context is too long, and one that is severed
   <<Long(Mention({1})), Under(Clause({1}), 1), Clause({2}), Mention({2})>>,
   <<Severed(Clause({1})), Clause({1}), Clause({2})>>,
   \* a clause that refers to a heading, which refers on to another
   <<Referring(Clause({1}), 2), Referring(Mention({1}), 3), Mention({1})>>,
   \* more sections than jobs
   <<Clause({1}), Clause({2}), Clause({1}), Hinted({2})>>,
   \* only a reserve section
   <<Plain>>}

\* Sources with a reserve section that governs, or is referred to by, clauses.
PromotedIndexes ==
  {<<GlobalClause(Plain), Under(Clause({1}), 1)>>,
   <<Referring(Clause({1, 2}), 2), Plain, Clause({2})>>,
   <<GlobalClause(Plain), Under(Clause({1, 2}), 1), Under(Clause({3}), 1)>>,
   <<GlobalClause(Plain), Under(Clause({1}), 1), Under(Severed(Mention({1})), 1),
     Under(Mention({1}), 1)>>,
   \* a clause of all three categories
   <<Clause({1, 2, 3}), Plain>>,
   <<GlobalClause(Severed(Plain)), Under(Clause({1}), 1), Under(Mention({1, 2}), 1)>>,
   \* two global sections, and clauses whose contexts are cut short of them
   <<Under(GlobalClause(Plain), 2), Under(GlobalClause(Severed(Plain)), 1), Below(Plain, {1, 2}),
     Within(Severed(Clause({1, 2})), {2, 3}), Within(Severed(Clause({3})), {3, 4}),
     Below(Mention({1}), {1, 2}), Below(Mention({2, 3}), {1, 2})>>}

\* Every plan of the instance.
AllIndexes == SettledIndexes \cup PromotedIndexes
=============================================================================
