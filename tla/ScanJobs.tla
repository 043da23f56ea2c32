------------------------------ MODULE ScanJobs -------------------------------
(***************************************************************************)
(* What a scan queue promises, whatever its leases and writes look like:   *)
(* a job waits, is worked on by one worker at a time, may be lost by its   *)
(* worker and put back, and is settled once and for all by the worker that *)
(* works on it.  ScanQueueRefinement shows that ScanQueue implements this. *)
(***************************************************************************)
CONSTANTS Jobs, Workers

VARIABLES
    state,  \* [Jobs -> State]
    crew    \* [Jobs -> SUBSET Workers]: who works on the job

vars == <<state, crew>>

Verdicts == {"completed", "failed"}

Init == /\ state = [j \in Jobs |-> "absent"]
        /\ crew = [j \in Jobs |-> {}]

Submit(j) == /\ state[j] = "absent"
             /\ state' = [state EXCEPT ![j] = "queued"]
             /\ UNCHANGED crew

Take(j, w) == /\ state[j] = "queued"
              /\ crew[j] = {}
              /\ state' = [state EXCEPT ![j] = "running"]
              /\ crew' = [crew EXCEPT ![j] = {w}]

\* A crash takes every job of a process at once.
Lose(J) == /\ \A j \in J : state[j] = "running"
           /\ crew' = [j \in Jobs |-> IF j \in J THEN {} ELSE crew[j]]
           /\ UNCHANGED state

\* Only jobs nobody works on are put back.
PutBack(J) == /\ \A j \in J : state[j] = "running" /\ crew[j] = {}
              /\ state' = [j \in Jobs |-> IF j \in J THEN "queued" ELSE state[j]]
              /\ UNCHANGED crew

Settle(j, w, v) == /\ state[j] = "running"
                   /\ crew[j] = {w}
                   /\ state' = [state EXCEPT ![j] = v]
                   /\ crew' = [crew EXCEPT ![j] = {}]

Next == \/ \E j \in Jobs : Submit(j)
        \/ \E j \in Jobs, w \in Workers : Take(j, w)
        \/ \E J \in SUBSET Jobs : Lose(J) \/ PutBack(J)
        \/ \E j \in Jobs, w \in Workers, v \in Verdicts : Settle(j, w, v)

Spec == Init /\ [][Next]_vars
=============================================================================
