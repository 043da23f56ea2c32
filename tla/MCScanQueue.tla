---------------------------- MODULE MCScanQueue ----------------------------
(* Instances of ScanQueue for TLC.                                         *)
EXTENDS ScanQueueRefinement, TLC

CONSTANTS p1, p2, p3, k1, k2, k3, s1, s2, r1, r2, a1

\* One batch of two scans on one asset.
OneBatch == r1 :> <<s1, s2>>

\* Two requests for the same asset, one scan each.
TwoBatches == (r1 :> <<s1>>) @@ (r2 :> <<s2>>)

OneScanBatch == r1 :> <<s1>>

OneAsset == [s \in Scans |-> a1]

AllExecutable == [s \in Scans |-> "executable"]
MixedKinds    == [s \in Scans |-> IF s = s1 THEN "executable" ELSE "securenow"]
ManualAndTool == [s \in Scans |-> IF s = s1 THEN "manual" ELSE "executable"]

ProcSymmetry == Permutations(Procs)
ProcSlotSymmetry == Permutations(Procs) \cup Permutations(Slots)
=============================================================================
