-------------------------- MODULE MCDraftWorkflow --------------------------
(***************************************************************************)
(* An instance of DraftWorkflow: one deadline, near the end of the clock.    *)
(***************************************************************************)
EXTENDS DraftWorkflow

MCDeadline == [v \in Versions |-> 3]
=============================================================================
