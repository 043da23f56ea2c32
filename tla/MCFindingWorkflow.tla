------------------------- MODULE MCFindingWorkflow -------------------------
(* Instances of FindingWorkflow for TLC.                                   *)
EXTENDS FindingWorkflow, TLC

CallSymmetry == Permutations(Calls)

\* States that differ only in the risk link of a finding are the same to every
\* guard and to every property that is checked.
WithoutRisk ==
    <<[f \in Findings |-> [finding[f] EXCEPT !.risk = FALSE]], exception, tasks, call>>
=============================================================================
