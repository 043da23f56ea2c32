------------------------- MODULE ScanQueueRefinement -------------------------
(***************************************************************************)
(* ScanQueue implements ScanJobs: the status of a document is the state of *)
(* the job, and the loops that have not yet written its verdict are the    *)
(* workers on it.                                                          *)
(***************************************************************************)
EXTENDS ScanQueue

JobState == [s \in Scans |-> scan[s].status]
JobCrew  == [s \in Scans |-> {w \in Workers : Executing(w) /\ ScanOf(w) = s}]

Queue == INSTANCE ScanJobs
           WITH Jobs <- Scans, Workers <- Workers,
                state <- JobState, crew <- JobCrew

\* While leases are renewed in time and the database answers, the queue keeps
\* its promise over crashes and recoveries: one worker per job, jobs put back
\* only when nobody works on them, one final verdict by the worker in charge.
ImplementsScanJobs == Queue!Spec
=============================================================================
