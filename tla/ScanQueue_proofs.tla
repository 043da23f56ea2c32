-------------------------- MODULE ScanQueue_proofs --------------------------
(***************************************************************************)
(* Types of ScanQueue, and who may execute a scan, for any number of       *)
(* processes, loops, scans, requests, crashes and failing database calls,  *)
(* as long as no lease lapses under a live loop; how many loops a process  *)
(* has whatever lapses; and what a scan ends with: findings before         *)
(* completion, the promise of ScanJobs, and the final verdict that follows *)
(* from it.                                                                *)
(***************************************************************************)
EXTENDS ScanQueueRefinement, FiniteSetTheorems, TLAPS

USE ScanQueueAssumption

(***************************************************************************)
(* Types.  Documents and loops are opaque outside these lemmas.            *)
(***************************************************************************)

\* The owner of a loop is a process.
LEMMA OwnerIsProc == ASSUME NEW w \in Workers PROVE ProcOf(w) \in Procs
  BY DEF Workers, ProcOf

\* Each update of a scan document yields a scan document.
LEMMA DocUpdates ==
  ASSUME NEW d \in ScanDoc
  PROVE  /\ \A n \in Nat : Stored(d, n) \in ScanDoc
         /\ \A p \in Procs : Claimed(d, p) \in ScanDoc
         /\ Recovered(d) \in ScanDoc
         /\ Failed(d) \in ScanDoc
         /\ [d EXCEPT !.progress = 88] \in ScanDoc
         /\ [d EXCEPT !.lease = "live"] \in ScanDoc
         /\ [d EXCEPT !.lease = "expired"] \in ScanDoc
         /\ [d EXCEPT !.started = "old"] \in ScanDoc
<1> USE DEF ScanDoc, Statuses
<1>1. \A n \in Nat : Stored(d, n) \in ScanDoc
  BY DEF Stored
<1>2. \A p \in Procs : Claimed(d, p) \in ScanDoc
  <2>1. d.attempt + 1 \in Nat
    OBVIOUS
  <2> QED
    BY <2>1 DEF Claimed
<1>3. Recovered(d) \in ScanDoc
  BY DEF Recovered
<1>4. Failed(d) \in ScanDoc
  BY DEF Failed
<1>5. /\ [d EXCEPT !.progress = 88] \in ScanDoc
      /\ [d EXCEPT !.lease = "live"] \in ScanDoc
      /\ [d EXCEPT !.lease = "expired"] \in ScanDoc
      /\ [d EXCEPT !.started = "old"] \in ScanDoc
  OBVIOUS
<1> QED
  BY <1>1, <1>2, <1>3, <1>4, <1>5

\* So do the two that write what the loop remembers of its scan.
LEMMA LoopDocUpdates ==
  ASSUME NEW d \in ScanDoc, NEW w \in Workers, worker[w] \in WorkerState
  PROVE  Started(d, w) \in ScanDoc /\ Completed(d, w) \in ScanDoc
<1>1. ProcOf(w) \in Procs
  BY OwnerIsProc
<1>2. worker[w].attempt \in Nat
  BY DEF WorkerState
<1>3. Started(d, w) \in ScanDoc
  BY <1>1, <1>2 DEF Started, ScanDoc, Statuses
<1>4. Completed(d, w) \in ScanDoc
  <2> DEFINE from == IF KindOf[ScanOf(w)] = "manual" THEN "recent" ELSE d.started
  <2>1. from \in {"unset", "recent", "old"}
    BY DEF ScanDoc
  <2>2. Completed(d, w) = [d EXCEPT !.status = "completed", !.progress = 100,
                                    !.started = from, !.owner = NoProc,
                                    !.lease = "unset",
                                    !.attempt = worker[w].attempt]
    BY DEF Completed
  <2> HIDE DEF from
  <2> QED
    BY <1>2, <2>1, <2>2 DEF ScanDoc, Statuses
<1> QED
  BY <1>3, <1>4

\* Recovery keeps the collection a collection of scan documents.
LEMMA RecoverAllType ==
  ASSUME scan \in [Scans -> ScanDoc] PROVE RecoverAll \in [Scans -> ScanDoc]
  BY DocUpdates DEF RecoverAll

LEMMA PcKinds ==
  /\ \A pc \in HeldPcs \cup {"abort", "report", "abortReport"} : pc \in AttachedPcs
  /\ \A pc \in {"claimed", "prepare", "start", "run", "save", "finish", "fail",
                "abort", "report", "abortReport"} : pc \in AttachedPcs
  BY DEF AttachedPcs, HeldPcs

\* A loop that moves on within its scan stays a loop with a scan.
LEMMA GotoType ==
  ASSUME WorkersOK, NEW w \in Workers, NEW pc \in AttachedPcs \ {"report"},
         Attached(w), Goto(w, pc)
  PROVE  WorkersOK'
<1>1. [worker[w] EXCEPT !.pc = pc] \in WorkerState
  <2>1. worker[w] \in WorkerState /\ pc \in Pcs
    BY DEF WorkersOK, Pcs
  <2> QED
    BY <2>1 DEF WorkerState
<1>2. worker' = [worker EXCEPT ![w] = [worker[w] EXCEPT !.pc = pc]]
  BY DEF Goto
<1>3. worker' \in [Workers -> WorkerState]
  BY <1>1, <1>2 DEF WorkersOK
<1>4. ASSUME NEW v \in Workers, Attached(v)' PROVE ScanOf(v)' \in Scans
  BY <1>2, <1>4 DEF WorkersOK, WorkerState, Attached, ScanOf
<1>5. ASSUME NEW v \in Workers, worker'[v].pc = "report"
      PROVE  worker'[v].verdict \in Terminal
  BY <1>2, <1>5 DEF WorkersOK, WorkerState
<1> QED
  BY <1>3, <1>4, <1>5 DEF WorkersOK

LEMMA ConcludeType ==
  ASSUME WorkersOK, NEW w \in Workers, NEW pc \in AttachedPcs,
         NEW verdict \in Terminal, Attached(w), Conclude(w, pc, verdict)
  PROVE  WorkersOK'
<1> DEFINE u == [worker[w] EXCEPT !.pc = pc, !.verdict = verdict]
<1>1. u \in WorkerState /\ u.scan = worker[w].scan /\ u.verdict \in Terminal
  BY DEF WorkersOK, WorkerState, Pcs
<1>2. worker' = [worker EXCEPT ![w] = u]
  BY DEF Conclude
<1> HIDE DEF u
<1>3. worker' \in [Workers -> WorkerState]
  BY <1>1, <1>2 DEF WorkersOK
<1>4. ASSUME NEW v \in Workers, Attached(v)' PROVE ScanOf(v)' \in Scans
  BY <1>1, <1>2, <1>4 DEF WorkersOK, Attached, ScanOf
<1>5. ASSUME NEW v \in Workers, worker'[v].pc = "report"
      PROVE  worker'[v].verdict \in Terminal
  BY <1>1, <1>2, <1>5 DEF WorkersOK
<1> QED
  BY <1>3, <1>4, <1>5 DEF WorkersOK

LEMMA DetachedType ==
  /\ Idle \in WorkerState /\ Idle.pc \notin AttachedPcs
  /\ Claiming \in WorkerState /\ Claiming.pc \notin AttachedPcs
  BY DEF Idle, Claiming, WorkerState, Pcs, AttachedPcs, HeldPcs

\* Loops that let go of their scan leave the others what they were.
LEMMA DetachType ==
  ASSUME WorkersOK, NEW u \in {Idle, Claiming},
         NEW W \in SUBSET Workers,
         worker' = [v \in Workers |-> IF v \in W THEN u ELSE worker[v]]
  PROVE  WorkersOK'
<1>1. u \in WorkerState /\ u.pc \notin AttachedPcs
  BY DetachedType
<1>2. worker' \in [Workers -> WorkerState]
  BY <1>1 DEF WorkersOK
<1>3. ASSUME NEW v \in Workers, Attached(v)' PROVE ScanOf(v)' \in Scans
  BY <1>1, <1>3 DEF WorkersOK, Attached, ScanOf
<1>4. ASSUME NEW v \in Workers, worker'[v].pc = "report"
      PROVE  worker'[v].verdict \in Terminal
  BY <1>1, <1>4, PcKinds DEF WorkersOK
<1> QED
  BY <1>2, <1>3, <1>4 DEF WorkersOK

LEMMA SameWorkers == ASSUME WorkersOK, UNCHANGED worker PROVE WorkersOK'
  BY DEF WorkersOK, Attached, ScanOf

LEMMA MarkAssetType ==
  ASSUME TypeOK, NEW s \in Scans, NEW status \in Statuses, MarkAsset(s, status)
  PROVE  lastScan' \in [Assets -> [scan : Scans \cup {NoScan},
                                   status : Statuses \cup {"unset"}]]
  BY DEF TypeOK, MarkAsset

\* An attached loop has a scan, its document and a process.
LEMMA AttachedTypes ==
  ASSUME TypeOK, NEW w \in Workers, worker[w].pc \in AttachedPcs
  PROVE  /\ ScanOf(w) \in Scans /\ scan[ScanOf(w)] \in ScanDoc
         /\ worker[w] \in WorkerState /\ ProcOf(w) \in Procs /\ Attached(w)
  BY OwnerIsProc DEF TypeOK, WorkersOK, Attached

\* Faults are counted.
LEMMA FaultType == ASSUME faults \in Nat, Fault \/ NoFault PROVE faults' \in Nat
  BY DEF Fault, NoFault

(***************************************************************************)
(* Type correctness, one step per action.                                  *)
(***************************************************************************)

LEMMA RequestTypes ==
  ASSUME TypeOK, NEW r \in Requests, RequestStep(r) PROVE TypeOK'
<1>0. WorkersOK'
  BY SameWorkers DEF TypeOK, RequestStep, StoreScan, AnnounceBatch, AbandonRequest
<1>1. CASE StoreScan(r)
  <2> DEFINE s == BatchOf[r][request[r].stored + 1]
  <2>1. request[r].stored + 1 \in 1 .. Len(BatchOf[r]) /\ BatchOf[r] \in Seq(Scans)
    BY <1>1 DEF TypeOK, StoreScan
  <2>2. s \in Scans /\ scan[s] \in ScanDoc /\ created + 1 \in Nat
    BY <2>1 DEF TypeOK
  <2>3. scan' = [scan EXCEPT ![s] = Stored(scan[s], created + 1)]
    BY <1>1 DEF StoreScan
  <2>4. scan' \in [Scans -> ScanDoc]
    BY <2>2, <2>3, DocUpdates DEF TypeOK
  <2> QED
    BY <1>0, <1>1, <2>4 DEF TypeOK, StoreScan
<1>2. CASE AnnounceBatch(r)
  <2>1. BatchOf[r][1] \in Scans
    OBVIOUS
  <2>2. lastScan' \in [Assets -> [scan : Scans \cup {NoScan},
                                  status : Statuses \cup {"unset"}]]
    BY <1>2, <2>1, MarkAssetType DEF AnnounceBatch, Statuses
  <2> QED
    BY <1>0, <1>2, <2>2 DEF TypeOK, AnnounceBatch
<1>3. CASE AbandonRequest(r)
  BY <1>0, <1>3 DEF TypeOK, AbandonRequest
<1> QED
  BY <1>1, <1>2, <1>3 DEF RequestStep

LEMMA ProcessTypes ==
  ASSUME TypeOK, NEW p \in Procs, ProcessStep(p) PROVE TypeOK'
<1>0. RecoverAll \in [Scans -> ScanDoc]
  BY RecoverAllType DEF TypeOK
<1>1. CASE StartProcess(p)
  BY <1>0, <1>1, SameWorkers DEF TypeOK, StartProcess
<1>2. CASE Shutdown(p)
  BY <1>2, SameWorkers DEF TypeOK, Shutdown
<1>3. CASE Crash(p)
  <2> DEFINE W == {w \in Workers : ProcOf(w) = p}
  <2>1. worker' = [w \in Workers |-> IF w \in W THEN Idle ELSE worker[w]]
    BY <1>3 DEF Crash
  <2>0. W \in SUBSET Workers /\ Idle \in {Idle, Claiming} /\ WorkersOK
    BY DEF TypeOK
  <2> HIDE DEF W
  <2>2. WorkersOK'
    BY <2>1, <2>0, DetachType
  <2> QED
    BY <1>3, <2>2 DEF TypeOK, Crash
<1>4. ASSUME NEW recover \in BOOLEAN, StartDrain(p, recover) PROVE TypeOK'
  <2>1. PICK K \in SUBSET Slots :
              /\ drain' = [drain EXCEPT ![p] = K]
              /\ worker' = [w \in Workers |-> IF w[1] = p /\ w[2] \in K
                                              THEN Claiming ELSE worker[w]]
    BY <1>4 DEF StartDrain
  <2> DEFINE W == {w \in Workers : w[1] = p /\ w[2] \in K}
  <2>2. worker' = [w \in Workers |-> IF w \in W THEN Claiming ELSE worker[w]]
    BY <2>1
  <2>0. W \in SUBSET Workers /\ Claiming \in {Idle, Claiming} /\ WorkersOK
    BY DEF TypeOK
  <2> HIDE DEF W
  <2>3. WorkersOK'
    BY <2>2, <2>0, DetachType
  <2>4. scan' \in [Scans -> ScanDoc]
    BY <1>0, <1>4 DEF TypeOK, StartDrain
  <2> QED
    BY <1>4, <2>1, <2>3, <2>4 DEF TypeOK, StartDrain
<1>5. CASE EndDrain(p)
  BY <1>5, SameWorkers DEF TypeOK, EndDrain
<1> QED
  BY <1>1, <1>2, <1>3, <1>4, <1>5 DEF ProcessStep

LEMMA ScanTypes ==
  ASSUME TypeOK, NEW s \in Scans, ScanStep(s) PROVE TypeOK'
<1>1. WorkersOK'
  BY SameWorkers DEF TypeOK, ScanStep, LeaseExpires, LeaseLapses, GrowsOld
<1>2. \/ scan' = [scan EXCEPT ![s] = [scan[s] EXCEPT !.lease = "expired"]]
      \/ scan' = [scan EXCEPT ![s] = [scan[s] EXCEPT !.started = "old"]]
  BY DEF ScanStep, LeaseExpires, LeaseLapses, GrowsOld
<1>3. scan' \in [Scans -> ScanDoc]
  <2>1. scan[s] \in ScanDoc /\ scan \in [Scans -> ScanDoc]
    BY DEF TypeOK
  <2>2. /\ [scan[s] EXCEPT !.lease = "expired"] \in ScanDoc
        /\ [scan[s] EXCEPT !.started = "old"] \in ScanDoc
    BY <2>1, DocUpdates
  <2> QED
    BY <1>2, <2>1, <2>2
<1>4. lapses' \in Nat
  BY DEF TypeOK, ScanStep, LeaseExpires, LeaseLapses, GrowsOld
<1> QED
  BY <1>1, <1>3, <1>4 DEF TypeOK, ScanStep, LeaseExpires, LeaseLapses, GrowsOld

LEMMA ClaimTypes == ASSUME TypeOK, NEW w \in Workers, Claim(w) PROVE TypeOK'
<1>1. PICK s \in Scans :
        /\ scan' = [scan EXCEPT ![s] = Claimed(scan[s], ProcOf(w))]
        /\ worker' = [worker EXCEPT ![w] =
                        [pc |-> "claimed", scan |-> s,
                         attempt |-> scan[s].attempt + 1, verdict |-> "none"]]
  BY DEF Claim
<1>2. scan[s] \in ScanDoc /\ scan[s].attempt + 1 \in Nat
  BY DEF TypeOK, ScanDoc
<1>3. scan' \in [Scans -> ScanDoc]
  BY <1>1, <1>2, OwnerIsProc, DocUpdates DEF TypeOK
<1>4. WorkersOK'
  <2> DEFINE u == [pc |-> "claimed", scan |-> s,
                   attempt |-> scan[s].attempt + 1, verdict |-> "none"]
  <2>1. u \in WorkerState /\ u.scan \in Scans
    BY <1>2 DEF WorkerState, Pcs, AttachedPcs, HeldPcs
  <2>2. worker' = [worker EXCEPT ![w] = u]
    BY <1>1
  <2>3. u.pc # "report"
    OBVIOUS
  <2> HIDE DEF u
  <2>4. WorkersOK
    BY DEF TypeOK
  <2>5. worker' \in [Workers -> WorkerState]
    BY <2>1, <2>2, <2>4 DEF WorkersOK
  <2>6. ASSUME NEW v \in Workers, Attached(v)' PROVE ScanOf(v)' \in Scans
    BY <2>1, <2>2, <2>4, <2>6 DEF WorkersOK, Attached, ScanOf
  <2>7. ASSUME NEW v \in Workers, worker'[v].pc = "report"
        PROVE  worker'[v].verdict \in Terminal
    BY <2>2, <2>3, <2>4, <2>7 DEF WorkersOK
  <2> QED
    BY <2>5, <2>6, <2>7 DEF WorkersOK
<1> QED
  BY <1>3, <1>4 DEF TypeOK, Claim

\* A loop that returns or gives up its scan.
LEMMA LeavesType ==
  ASSUME WorkersOK, NEW w \in Workers, NEW u \in {Idle, Claiming},
         worker' = [worker EXCEPT ![w] = u]
  PROVE  WorkersOK'
<1>1. worker' = [v \in Workers |-> IF v \in {w} THEN u ELSE worker[v]]
  BY DEF WorkersOK
<1> QED
  BY <1>1, DetachType

LEMMA LoopTypes ==
  ASSUME TypeOK, NEW w \in Workers, LeaveLoop(w) \/ ClaimFails(w)
  PROVE  TypeOK'
<1>1. worker' = [worker EXCEPT ![w] = Idle]
  BY DEF LeaveLoop, ClaimFails
<1>2. WorkersOK'
  BY <1>1, LeavesType DEF TypeOK
<1>3. faults' \in Nat
  BY FaultType DEF TypeOK, LeaveLoop, ClaimFails
<1>4. drain' \in [Procs -> SUBSET Slots]
  BY DEF TypeOK, LeaveLoop, ClaimFails
<1> QED
  BY <1>2, <1>3, <1>4 DEF TypeOK, LeaveLoop, ClaimFails

\* The steps that leave scans, findings and assets alone.
LEMMA MoveTypes ==
  ASSUME TypeOK, NEW w \in Workers,
         Prepare(w) \/ StartScannerFails(w) \/ ScannerFails(w) \/ FinishFails(w)
  PROVE  TypeOK'
<1>1. PICK pc \in AttachedPcs \ {"report"} : Goto(w, pc)
  BY PcKinds DEF Prepare, StartScannerFails, ScannerFails, FinishFails,
                 FinalizeHandler
<1>2. Attached(w)
  BY PcKinds DEF Attached, Prepare, StartScannerFails, ScannerFails, FinishFails
<1>3. WorkersOK'
  BY <1>1, <1>2, GotoType DEF TypeOK
<1>4. faults' \in Nat
  BY FaultType DEF TypeOK, Prepare, StartScannerFails, ScannerFails, FinishFails
<1> QED
  BY <1>3, <1>4 DEF TypeOK, Prepare, StartScannerFails, ScannerFails, FinishFails

LEMMA SaveTypes ==
  ASSUME TypeOK, NEW w \in Workers, SaveFindings(w) \/ SaveFindingsFails(w)
  PROVE  TypeOK'
<1>1. PICK pc \in AttachedPcs \ {"report"} : Goto(w, pc)
  BY PcKinds DEF SaveFindings, SaveFindingsFails, FinalizeHandler
<1>2. Attached(w)
  BY PcKinds DEF Attached, SaveFindings, SaveFindingsFails
<1>3. WorkersOK'
  BY <1>1, <1>2, GotoType DEF TypeOK
<1>4. faults' \in Nat
  BY FaultType DEF TypeOK, SaveFindings, SaveFindingsFails
<1>5. batches' \in [Scans -> Nat]
  <2>1. ScanOf(w) \in Scans /\ batches[ScanOf(w)] + 1 \in Nat
    BY <1>2 DEF TypeOK, WorkersOK
  <2> QED
    BY <2>1 DEF TypeOK, SaveFindings, SaveFindingsFails
<1> QED
  BY <1>3, <1>4, <1>5 DEF TypeOK, SaveFindings, SaveFindingsFails

\* The steps that write the loop's scan.
LEMMA WriteTypes ==
  ASSUME TypeOK, NEW w \in Workers,
         \/ StartScanner(w) \/ ScannerReturns(w) \/ Finish(w) \/ Fail(w)
         \/ Abort(w) \/ Heartbeat(w)
  PROVE  TypeOK'
<1>1. worker[w].pc \in AttachedPcs
  BY PcKinds DEF StartScanner, ScannerReturns, Finish, Fail, Abort, Heartbeat,
                 Heartbeating, Attached
<1>2. /\ ScanOf(w) \in Scans /\ scan[ScanOf(w)] \in ScanDoc
      /\ worker[w] \in WorkerState /\ Attached(w)
  BY <1>1, AttachedTypes
<1>3. scan' \in [Scans -> ScanDoc]
  <2>1. PICK d \in ScanDoc :
          scan' = scan \/ scan' = [scan EXCEPT ![ScanOf(w)] = d]
    BY <1>2, DocUpdates, LoopDocUpdates
    DEF StartScanner, ScannerReturns, Finish, Fail, Abort, Heartbeat
  <2> QED
    BY <1>2, <2>1 DEF TypeOK
<1>4. WorkersOK'
  <2>1. CASE UNCHANGED worker
    BY <2>1, SameWorkers DEF TypeOK
  <2>2. CASE \E pc \in AttachedPcs \ {"report"} : Goto(w, pc)
    BY <1>2, <2>2, GotoType DEF TypeOK
  <2>3. CASE \E pc \in AttachedPcs, v \in Terminal : Conclude(w, pc, v)
    BY <1>2, <2>3, ConcludeType DEF TypeOK
  <2>4. "completed" \in Terminal /\ "failed" \in Terminal
    BY DEF Terminal
  <2> QED
    BY <2>1, <2>2, <2>3, <2>4, PcKinds
    DEF StartScanner, ScannerReturns, Finish, Fail, Abort, Heartbeat, Goto
<1>5. faults' \in Nat
  BY FaultType DEF TypeOK, StartScanner, ScannerReturns, Finish, Fail, Abort,
                   Heartbeat
<1> QED
  BY <1>3, <1>4, <1>5
  DEF TypeOK, StartScanner, ScannerReturns, Finish, Fail, Abort, Heartbeat

\* The steps that write the asset.
LEMMA AssetTypes ==
  ASSUME TypeOK, NEW w \in Workers,
         AnnounceRunning(w) \/ Report(w) \/ AbortReport(w)
  PROVE  TypeOK'
<1>1. worker[w].pc \in AttachedPcs
  BY PcKinds DEF AnnounceRunning, Report, AbortReport
<1>2. /\ ScanOf(w) \in Scans /\ worker[w] \in WorkerState /\ Attached(w)
  BY <1>1, AttachedTypes
<1>3. lastScan' \in [Assets -> [scan : Scans \cup {NoScan},
                                status : Statuses \cup {"unset"}]]
  <2>1. CASE UNCHANGED lastScan
    BY <2>1 DEF TypeOK
  <2>2. CASE \E status \in Statuses : MarkAsset(ScanOf(w), status)
    BY <1>2, <2>2, MarkAssetType
  <2>3. CASE Report(w) /\ MarkAsset(ScanOf(w), worker[w].verdict)
    <3>1. worker[w].verdict \in Statuses
      BY <2>3 DEF TypeOK, WorkersOK, Report, Terminal, Statuses
    <3> QED
      BY <1>2, <2>3, <3>1, MarkAssetType
  <2> QED
    BY <2>1, <2>2, <2>3 DEF AnnounceRunning, Report, AbortReport, Statuses
<1>4. WorkersOK'
  <2>1. CASE \E pc \in AttachedPcs \ {"report"} : Goto(w, pc)
    BY <1>2, <2>1, GotoType DEF TypeOK
  <2>2. CASE Release(w)
    BY <2>2, LeavesType DEF TypeOK, Release
  <2> QED
    BY <2>1, <2>2, PcKinds DEF AnnounceRunning, Report, AbortReport
<1>5. faults' \in Nat
  BY FaultType DEF TypeOK, AnnounceRunning, Report, AbortReport
<1> QED
  BY <1>3, <1>4, <1>5 DEF TypeOK, AnnounceRunning, Report, AbortReport

LEMMA WorkerTypes ==
  ASSUME TypeOK, NEW w \in Workers,
         WorkerStep(w) \/ WorkerFault(w) \/ Heartbeat(w)
  PROVE  TypeOK'
  BY ClaimTypes, LoopTypes, MoveTypes, SaveTypes, WriteTypes, AssetTypes
  DEF WorkerStep, WorkerFault

LEMMA TypesKept == TypeOK /\ [Next]_vars => TypeOK'
<1> SUFFICES ASSUME TypeOK, [Next]_vars PROVE TypeOK'
  OBVIOUS
<1>1. CASE UNCHANGED vars
  BY <1>1, SameWorkers DEF vars, TypeOK
<1>2. CASE Next
  BY <1>2, RequestTypes, ProcessTypes, WorkerTypes, ScanTypes DEF Next
<1> QED
  BY <1>1, <1>2

LEMMA InitTypes == Init => TypeOK
<1> SUFFICES ASSUME Init PROVE TypeOK
  OBVIOUS
<1>1. scan \in [Scans -> ScanDoc]
  BY DEF Init, ScanDoc, Statuses
<1>2. WorkersOK
  BY DetachedType, PcKinds DEF Init, WorkersOK, Attached
<1> QED
  BY <1>1, <1>2 DEF Init, TypeOK

\* Every variable keeps its type, and a loop that works on a scan names one.
THEOREM TypeCorrect == Spec => []TypeOK
  BY InitTypes, TypesKept, PTL DEF Spec

-----------------------------------------------------------------------------
(* Who executes a scan.                                                    *)


\* The loops that have caught an error or written the verdict.
EndingPcs == {"abort", "report", "abortReport"}

\* Such a loop still holds the lease, or the scan is finished.
EndingHoldsOrDone ==
    \A w \in Workers : worker[w].pc \in EndingPcs
        => \/ LeasedTo(scan[ScanOf(w)], ProcOf(w), worker[w].attempt)
           \/ scan[ScanOf(w)].status \in Terminal

\* The loops that have yet to insert the findings of their attempt.
UnsavedPcs == {"claimed", "prepare", "start", "run", "save"}

UnsavedBehind ==
    \A w \in Workers : worker[w].pc \in UnsavedPcs
                          => batches[ScanOf(w)] < scan[ScanOf(w)].attempt

IInv == /\ TypeOK
        /\ SingleExecutor
        /\ ExecutorHoldsLease
        /\ EndingHoldsOrDone
        /\ StatusMatchesLease
        /\ OneBatchPerAttempt
        /\ UnsavedBehind

USE ScanQueueAssumption

LEMMA EndingAttached == \A pc \in EndingPcs \cup UnsavedPcs : pc \in AttachedPcs
  BY DEF EndingPcs, UnsavedPcs, AttachedPcs, HeldPcs

(***************************************************************************)
(* The steps of a loop that works on a scan: they touch its own scan only. *)
(***************************************************************************)

\* What a loop in state u must find in the document d of its scan, with n
\* batches of findings stored.
Fits(d, u, p, n) ==
    /\ u.pc \in HeldPcs => LeasedTo(d, p, u.attempt)
    /\ u.pc \in EndingPcs => LeasedTo(d, p, u.attempt) \/ d.status \in Terminal
    /\ u.pc \in UnsavedPcs => n < d.attempt

LEMMA OwnStep ==
  ASSUME IInv, TypeOK', NEW w \in Workers, Attached(w), NEW d, NEW u, NEW n,
         scan' = [scan EXCEPT ![ScanOf(w)] = d],
         worker' = [worker EXCEPT ![w] = u],
         batches' = [batches EXCEPT ![ScanOf(w)] = n],
         u.pc \in AttachedPcs => u.scan = ScanOf(w),
         Consistent(d), n =< d.attempt, Fits(d, u, ProcOf(w), n)
  PROVE  IInv'
<1>1. ScanOf(w) \in Scans /\ TypeOK
  BY AttachedTypes DEF IInv, Attached
<1>2. /\ scan'[ScanOf(w)] = d /\ worker'[w] = u /\ batches'[ScanOf(w)] = n
      /\ \A s \in Scans \ {ScanOf(w)} : scan'[s] = scan[s] /\ batches'[s] = batches[s]
      /\ \A v \in Workers \ {w} : worker'[v] = worker[v]
  BY <1>1 DEF TypeOK, WorkersOK
<1>3. ASSUME NEW v \in Workers \ {w}, worker[v].pc \in AttachedPcs
      PROVE  /\ worker[v].scan \in Scans \ {ScanOf(w)}
             /\ scan'[worker[v].scan] = scan[worker[v].scan]
             /\ batches'[worker[v].scan] = batches[worker[v].scan]
  BY <1>1, <1>2, <1>3 DEF IInv, SingleExecutor, Attached, ScanOf, TypeOK, WorkersOK
<1>4. SingleExecutor'
  BY <1>2, <1>3 DEF IInv, SingleExecutor, Attached, ScanOf
<1>5. ExecutorHoldsLease'
  <2> SUFFICES ASSUME NEW v \in Workers, worker'[v].pc \in HeldPcs
               PROVE  LeasedTo(scan'[worker'[v].scan], ProcOf(v), worker'[v].attempt)
    BY DEF ExecutorHoldsLease, ScanOf, LeasedTo
  <2>1. CASE v = w
    BY <1>2, <2>1, PcKinds DEF Fits, ScanOf
  <2>2. CASE v # w
    BY <1>2, <1>3, <2>2, PcKinds DEF IInv, ExecutorHoldsLease, ScanOf
  <2> QED
    BY <2>1, <2>2
<1>6. EndingHoldsOrDone'
  <2> SUFFICES ASSUME NEW v \in Workers, worker'[v].pc \in EndingPcs
               PROVE  \/ LeasedTo(scan'[worker'[v].scan], ProcOf(v),
                                  worker'[v].attempt)
                      \/ scan'[worker'[v].scan].status \in Terminal
    BY DEF EndingHoldsOrDone, ScanOf, LeasedTo
  <2>1. CASE v = w
    BY <1>2, <2>1, EndingAttached DEF Fits, ScanOf
  <2>2. CASE v # w
    BY <1>2, <1>3, <2>2, EndingAttached DEF IInv, EndingHoldsOrDone, ScanOf
  <2> QED
    BY <2>1, <2>2
<1>7. StatusMatchesLease'
  BY <1>1, <1>2 DEF IInv, StatusMatchesLease, Consistent
<1>8. OneBatchPerAttempt'
  BY <1>1, <1>2 DEF IInv, OneBatchPerAttempt
<1>9. UnsavedBehind'
  <2> SUFFICES ASSUME NEW v \in Workers, worker'[v].pc \in UnsavedPcs
               PROVE  batches'[worker'[v].scan] < scan'[worker'[v].scan].attempt
    BY DEF UnsavedBehind, ScanOf
  <2>1. CASE v = w
    BY <1>2, <2>1, EndingAttached DEF Fits, ScanOf
  <2>2. CASE v # w
    BY <1>2, <1>3, <2>2, EndingAttached DEF IInv, UnsavedBehind, ScanOf
  <2> QED
    BY <2>1, <2>2
<1> QED
  BY <1>4, <1>5, <1>6, <1>7, <1>8, <1>9 DEF IInv

\* What the invariant says of the scan an attached loop works on.
LEMMA OwnFacts ==
  ASSUME IInv, NEW w \in Workers, worker[w].pc \in AttachedPcs
  PROVE  /\ ScanOf(w) \in Scans /\ Attached(w)
         /\ worker[w] \in WorkerState /\ scan[ScanOf(w)] \in ScanDoc
         /\ ProcOf(w) \in Procs /\ batches[ScanOf(w)] \in Nat
         /\ Consistent(scan[ScanOf(w)])
         /\ batches[ScanOf(w)] =< scan[ScanOf(w)].attempt
         /\ Fits(scan[ScanOf(w)], worker[w], ProcOf(w), batches[ScanOf(w)])
<1>1. /\ ScanOf(w) \in Scans /\ Attached(w) /\ worker[w] \in WorkerState
      /\ scan[ScanOf(w)] \in ScanDoc /\ ProcOf(w) \in Procs
  BY AttachedTypes DEF IInv
<1>2. batches[ScanOf(w)] \in Nat
  BY <1>1 DEF IInv, TypeOK
<1>3. /\ Consistent(scan[ScanOf(w)])
      /\ batches[ScanOf(w)] =< scan[ScanOf(w)].attempt
  BY <1>1 DEF IInv, StatusMatchesLease, OneBatchPerAttempt
<1>4. Fits(scan[ScanOf(w)], worker[w], ProcOf(w), batches[ScanOf(w)])
  BY DEF IInv, Fits, ExecutorHoldsLease, EndingHoldsOrDone, UnsavedBehind
<1> QED
  BY <1>1, <1>2, <1>3, <1>4

\* A loop that only moves on, to a phase its scan already fits.
LEMMA OwnMove ==
  ASSUME IInv, TypeOK', NEW w \in Workers, worker[w].pc \in AttachedPcs,
         NEW pc \in AttachedPcs, NEW n \in Nat, Goto(w, pc), UNCHANGED scan,
         batches' = [batches EXCEPT ![ScanOf(w)] = n],
         n =< scan[ScanOf(w)].attempt,
         Fits(scan[ScanOf(w)], [worker[w] EXCEPT !.pc = pc], ProcOf(w), n)
  PROVE  IInv'
<1> DEFINE u == [worker[w] EXCEPT !.pc = pc]
<1>1. /\ ScanOf(w) \in Scans /\ Attached(w) /\ Consistent(scan[ScanOf(w)])
      /\ worker[w] \in WorkerState
  BY OwnFacts
<1>2. u.scan = ScanOf(w)
  BY <1>1 DEF WorkerState, ScanOf
<1>3. worker' = [worker EXCEPT ![w] = u]
  BY DEF Goto
<1>4. scan' = [scan EXCEPT ![ScanOf(w)] = scan[ScanOf(w)]]
  BY <1>1 DEF IInv, TypeOK
<1> HIDE DEF u
<1> QED
  BY <1>1, <1>2, <1>3, <1>4, OwnStep DEF u

\* The phases before the findings are stored, and the errors met in them.
LEMMA MoveKeeps ==
  ASSUME IInv, TypeOK', NEW w \in Workers,
         \/ AnnounceRunning(w) \/ Prepare(w) \/ StartScannerFails(w)
         \/ ScannerFails(w) \/ FinishFails(w)
  PROVE  IInv'
<1>1. worker[w].pc \in HeldPcs /\ UNCHANGED <<scan, batches>>
  BY DEF AnnounceRunning, Prepare, StartScannerFails, ScannerFails, FinishFails,
         HeldPcs
<1>2. /\ ScanOf(w) \in Scans /\ worker[w] \in WorkerState
      /\ batches[ScanOf(w)] \in Nat
      /\ batches[ScanOf(w)] =< scan[ScanOf(w)].attempt
      /\ Fits(scan[ScanOf(w)], worker[w], ProcOf(w), batches[ScanOf(w)])
      /\ worker[w].pc \in AttachedPcs
  BY <1>1, OwnFacts, PcKinds
<1>3. PICK pc \in AttachedPcs :
        /\ Goto(w, pc)
        /\ pc \in UnsavedPcs => worker[w].pc \in UnsavedPcs
  <2>1. CASE AnnounceRunning(w)
    BY <2>1, PcKinds DEF AnnounceRunning, UnsavedPcs
  <2>2. CASE Prepare(w)
    BY <2>2, PcKinds DEF Prepare, UnsavedPcs
  <2>3. CASE StartScannerFails(w) \/ ScannerFails(w) \/ FinishFails(w)
    BY <2>3, PcKinds
    DEF StartScannerFails, ScannerFails, FinishFails, FinalizeHandler, UnsavedPcs
  <2> QED
    BY <2>1, <2>2, <2>3
<1> DEFINE u == [worker[w] EXCEPT !.pc = pc]
<1>4. u.pc = pc /\ u.attempt = worker[w].attempt
  BY <1>2 DEF WorkerState
<1>5. Fits(scan[ScanOf(w)], u, ProcOf(w), batches[ScanOf(w)])
  BY <1>1, <1>2, <1>3, <1>4 DEF Fits
<1>6. batches' = [batches EXCEPT ![ScanOf(w)] = batches[ScanOf(w)]]
  BY <1>1, <1>2 DEF IInv, TypeOK
<1> QED
  BY <1>1, <1>2, <1>3, <1>5, <1>6, OwnMove

\* The findings of the attempt are inserted, wholly or in part.
LEMMA SaveKeeps ==
  ASSUME IInv, TypeOK', NEW w \in Workers, SaveFindings(w) \/ SaveFindingsFails(w)
  PROVE  IInv'
<1>1. worker[w].pc = "save" /\ UNCHANGED scan
  BY DEF SaveFindings, SaveFindingsFails
<1>2. /\ ScanOf(w) \in Scans /\ worker[w] \in WorkerState
      /\ batches[ScanOf(w)] \in Nat /\ scan[ScanOf(w)].attempt \in Nat
      /\ LeasedTo(scan[ScanOf(w)], ProcOf(w), worker[w].attempt)
      /\ batches[ScanOf(w)] < scan[ScanOf(w)].attempt
      /\ worker[w].pc \in AttachedPcs
  BY <1>1, OwnFacts, PcKinds DEF Fits, HeldPcs, UnsavedPcs, ScanDoc
<1>3. PICK pc \in {"finish", "fail", "abort"} : Goto(w, pc)
  BY DEF SaveFindings, SaveFindingsFails, FinalizeHandler
<1>4. PICK n \in {batches[ScanOf(w)], batches[ScanOf(w)] + 1} :
        batches' = [batches EXCEPT ![ScanOf(w)] = n]
  BY <1>2 DEF IInv, TypeOK, SaveFindings, SaveFindingsFails
<1>5. n \in Nat /\ n =< scan[ScanOf(w)].attempt
  BY <1>2
<1> DEFINE u == [worker[w] EXCEPT !.pc = pc]
<1>6. u.pc = pc /\ u.attempt = worker[w].attempt
  BY <1>2 DEF WorkerState
<1>7. Fits(scan[ScanOf(w)], u, ProcOf(w), n)
  BY <1>2, <1>6 DEF Fits, UnsavedPcs
<1> QED
  BY <1>1, <1>2, <1>3, <1>4, <1>5, <1>7, PcKinds, OwnMove

\* A loop that holds the lease and writes a document it still fits.
LEMMA OwnWrite ==
  ASSUME IInv, TypeOK', NEW w \in Workers, worker[w].pc \in AttachedPcs,
         NEW pc \in AttachedPcs, NEW d, NEW verdict,
         scan' = [scan EXCEPT ![ScanOf(w)] = d],
         worker' = [worker EXCEPT ![w] = [worker[w] EXCEPT !.pc = pc,
                                                           !.verdict = verdict]],
         UNCHANGED batches, Consistent(d), batches[ScanOf(w)] =< d.attempt,
         Fits(d, [worker[w] EXCEPT !.pc = pc, !.verdict = verdict],
              ProcOf(w), batches[ScanOf(w)])
  PROVE  IInv'
<1> DEFINE u == [worker[w] EXCEPT !.pc = pc, !.verdict = verdict]
<1>1. ScanOf(w) \in Scans /\ Attached(w) /\ worker[w] \in WorkerState
  BY OwnFacts
<1>2. u.scan = ScanOf(w)
  BY <1>1 DEF WorkerState, ScanOf
<1>3. batches' = [batches EXCEPT ![ScanOf(w)] = batches[ScanOf(w)]]
  BY <1>1 DEF IInv, TypeOK
<1> HIDE DEF u
<1> QED
  BY <1>1, <1>2, <1>3, OwnStep DEF u

LEMMA StartKeeps ==
  ASSUME IInv, TypeOK', NEW w \in Workers, StartScanner(w) \/ ScannerReturns(w)
  PROVE  IInv'
<1>1. worker[w].pc \in {"start", "run"} /\ UNCHANGED batches
  BY DEF StartScanner, ScannerReturns
<1>2. /\ ScanOf(w) \in Scans /\ worker[w] \in WorkerState /\ ProcOf(w) \in Procs
      /\ scan[ScanOf(w)] \in ScanDoc /\ batches[ScanOf(w)] \in Nat
      /\ LeasedTo(scan[ScanOf(w)], ProcOf(w), worker[w].attempt)
      /\ batches[ScanOf(w)] < scan[ScanOf(w)].attempt
      /\ worker[w].pc \in AttachedPcs
  BY <1>1, OwnFacts, PcKinds DEF Fits, HeldPcs, UnsavedPcs
<1>3. PICK d \in ScanDoc, pc \in {"run", "save"} :
        /\ scan' = [scan EXCEPT ![ScanOf(w)] = d]
        /\ LeasedTo(d, ProcOf(w), worker[w].attempt)
        /\ Goto(w, pc)
  <2>1. CASE StartScanner(w)
    <3>1. Started(scan[ScanOf(w)], w) \in ScanDoc
      BY <1>2, LoopDocUpdates
    <3>2. LeasedTo(Started(scan[ScanOf(w)], w), ProcOf(w), worker[w].attempt)
      BY <1>2 DEF Started, LeasedTo, ScanDoc
    <3> QED
      BY <2>1, <3>1, <3>2 DEF StartScanner
  <2>2. CASE ScannerReturns(w)
    <3> DEFINE d == [scan[ScanOf(w)] EXCEPT !.progress = 88]
    <3>1. d \in ScanDoc
      BY <1>2, DocUpdates
    <3>2. LeasedTo(d, ProcOf(w), worker[w].attempt)
      BY <1>2 DEF LeasedTo, ScanDoc
    <3>3. scan' = [scan EXCEPT ![ScanOf(w)] = d] /\ Goto(w, "save")
      BY <2>2 DEF ScannerReturns
    <3> QED
      BY <3>1, <3>2, <3>3
  <2> QED
    BY <2>1, <2>2
<1> DEFINE u == [worker[w] EXCEPT !.pc = pc, !.verdict = worker[w].verdict]
<1>4. /\ worker' = [worker EXCEPT ![w] = u]
      /\ u.pc = pc /\ u.attempt = worker[w].attempt
  BY <1>2, <1>3 DEF Goto, WorkerState
<1>5. Consistent(d)
  BY <1>2, <1>3 DEF Consistent, LeasedTo, Terminal
<1>6. d.attempt = scan[ScanOf(w)].attempt /\ scan[ScanOf(w)].attempt \in Nat
  BY <1>2, <1>3 DEF LeasedTo, ScanDoc
<1>7. Fits(d, u, ProcOf(w), batches[ScanOf(w)])
  BY <1>2, <1>3, <1>4, <1>6 DEF Fits, EndingPcs
<1>8. batches[ScanOf(w)] =< d.attempt /\ pc \in AttachedPcs
  BY <1>2, <1>3, <1>6, PcKinds
<1> QED
  BY <1>1, <1>2, <1>3, <1>4, <1>5, <1>7, <1>8, OwnWrite

LEMMA VerdictKeeps ==
  ASSUME IInv, TypeOK', NEW w \in Workers, Finish(w) \/ Fail(w) \/ Abort(w)
  PROVE  IInv'
<1>1. worker[w].pc \in {"finish", "fail", "abort"} /\ UNCHANGED batches
  BY DEF Finish, Fail, Abort
<1>2. /\ ScanOf(w) \in Scans /\ worker[w] \in WorkerState /\ ProcOf(w) \in Procs
      /\ scan[ScanOf(w)] \in ScanDoc /\ batches[ScanOf(w)] \in Nat
      /\ batches[ScanOf(w)] =< scan[ScanOf(w)].attempt
      /\ Consistent(scan[ScanOf(w)])
      /\ Fits(scan[ScanOf(w)], worker[w], ProcOf(w), batches[ScanOf(w)])
      /\ worker[w].pc \in AttachedPcs
  BY <1>1, OwnFacts, PcKinds
<1>3. PICK d \in {scan[ScanOf(w)], Failed(scan[ScanOf(w)]),
                  Completed(scan[ScanOf(w)], w)} :
        /\ scan' = [scan EXCEPT ![ScanOf(w)] = d]
        /\ d.attempt = scan[ScanOf(w)].attempt /\ Consistent(d)
        /\ d.status \in Terminal \/ LeasedTo(d, ProcOf(w), worker[w].attempt)
  <2>1. CASE UNCHANGED scan
    <3>1. \/ scan[ScanOf(w)].status \in Terminal
          \/ LeasedTo(scan[ScanOf(w)], ProcOf(w), worker[w].attempt)
      BY <1>1, <1>2 DEF Fits, HeldPcs, EndingPcs
    <3>2. scan' = [scan EXCEPT ![ScanOf(w)] = scan[ScanOf(w)]]
      BY <1>2, <2>1 DEF IInv, TypeOK
    <3> QED
      BY <1>2, <3>1, <3>2
  <2>2. CASE scan' = [scan EXCEPT ![ScanOf(w)] = Failed(scan[ScanOf(w)])]
    <3>1. /\ Failed(scan[ScanOf(w)]).attempt = scan[ScanOf(w)].attempt
          /\ Consistent(Failed(scan[ScanOf(w)]))
          /\ Failed(scan[ScanOf(w)]).status \in Terminal
      BY <1>2 DEF Failed, ScanDoc, Consistent, Terminal
    <3> QED
      BY <2>2, <3>1
  <2>3. CASE Finish(w)
    <3>1. /\ Completed(scan[ScanOf(w)], w).status \in Terminal
          /\ Consistent(Completed(scan[ScanOf(w)], w))
      BY <1>2 DEF Completed, ScanDoc, Consistent, Terminal
    <3>2. Completed(scan[ScanOf(w)], w).attempt = scan[ScanOf(w)].attempt
      BY <1>2, <2>3 DEF Finish, Fits, LeasedTo, HeldPcs, Completed, ScanDoc
    <3>3. scan' = [scan EXCEPT ![ScanOf(w)] = Completed(scan[ScanOf(w)], w)]
      BY <2>3 DEF Finish
    <3> QED
      BY <3>1, <3>2, <3>3
  <2> QED
    BY <2>1, <2>2, <2>3 DEF Fail, Abort
<1> DEFINE u == worker'[w]
<1>4. /\ worker' = [worker EXCEPT ![w] = u]
      /\ u.pc \in EndingPcs /\ u.scan = ScanOf(w)
      /\ u.attempt = worker[w].attempt
  BY <1>2 DEF IInv, TypeOK, WorkersOK, WorkerState, ScanOf, EndingPcs,
              Finish, Fail, Abort, Goto, Conclude
<1> HIDE DEF u
<1>5. Fits(d, u, ProcOf(w), batches[ScanOf(w)])
  BY <1>3, <1>4 DEF Fits, EndingPcs, HeldPcs, UnsavedPcs
<1>6. batches' = [batches EXCEPT ![ScanOf(w)] = batches[ScanOf(w)]]
  BY <1>1, <1>2 DEF IInv, TypeOK
<1> QED
  BY <1>2, <1>3, <1>4, <1>5, <1>6, OwnStep DEF Attached

\* The loop gives up its scan, whose document is left as it is.
LEMMA ReportKeeps ==
  ASSUME IInv, TypeOK', NEW w \in Workers, Report(w) \/ AbortReport(w)
  PROVE  IInv'
<1>1. worker[w].pc \in {"report", "abortReport"} /\ UNCHANGED <<scan, batches>>
  BY DEF Report, AbortReport
<1>2. /\ ScanOf(w) \in Scans /\ Attached(w) /\ worker[w] \in WorkerState
      /\ batches[ScanOf(w)] \in Nat /\ Consistent(scan[ScanOf(w)])
      /\ batches[ScanOf(w)] =< scan[ScanOf(w)].attempt
      /\ Fits(scan[ScanOf(w)], worker[w], ProcOf(w), batches[ScanOf(w)])
      /\ worker[w].pc \in AttachedPcs
  BY <1>1, OwnFacts, PcKinds
<1>3. /\ scan' = [scan EXCEPT ![ScanOf(w)] = scan[ScanOf(w)]]
      /\ batches' = [batches EXCEPT ![ScanOf(w)] = batches[ScanOf(w)]]
  BY <1>1, <1>2 DEF IInv, TypeOK
<1>4. CASE Release(w)
  <2>1. Claiming.pc = "claim"
    BY DEF Claiming
  <2>2. Claiming.pc \notin AttachedPcs
    BY DetachedType
  <2>3. Fits(scan[ScanOf(w)], Claiming, ProcOf(w), batches[ScanOf(w)])
    BY <2>1 DEF Fits, HeldPcs, EndingPcs, UnsavedPcs
  <2> QED
    BY <1>2, <1>3, <1>4, <2>2, <2>3, OwnStep DEF Release
<1>5. CASE Goto(w, "abort") /\ Report(w)
  <2> DEFINE u == [worker[w] EXCEPT !.pc = "abort"]
  <2>1. u.pc = "abort" /\ u.attempt = worker[w].attempt
    BY <1>2 DEF WorkerState
  <2>2. Fits(scan[ScanOf(w)], u, ProcOf(w), batches[ScanOf(w)])
    BY <1>1, <1>2, <2>1 DEF Fits, HeldPcs, EndingPcs, UnsavedPcs
  <2> QED
    BY <1>1, <1>2, <1>3, <1>5, <2>2, PcKinds, OwnMove
<1> QED
  BY <1>4, <1>5 DEF Report, AbortReport

(***************************************************************************)
(* The steps that leave every loop with its scan, or take loops away.      *)
(***************************************************************************)

LEMMA QueueStep ==
  ASSUME IInv, TypeOK', UNCHANGED batches,
         \A v \in Workers : Attached(v)' => worker'[v] = worker[v],
         \A v \in Workers : Attached(v) => scan'[ScanOf(v)] = scan[ScanOf(v)],
         \A s \in Scans : scan'[s].attempt = scan[s].attempt /\ Consistent(scan'[s])
  PROVE  IInv'
<1>1. ASSUME NEW v \in Workers, worker'[v].pc \in AttachedPcs
      PROVE  /\ worker'[v] = worker[v] /\ worker[v].pc \in AttachedPcs
             /\ worker[v].scan \in Scans
             /\ scan'[worker[v].scan] = scan[worker[v].scan]
  <2>1. worker'[v] = worker[v] /\ Attached(v)
    BY <1>1 DEF Attached
  <2> QED
    BY <2>1 DEF Attached, ScanOf, IInv, TypeOK, WorkersOK
<1>2. SingleExecutor'
  BY <1>1 DEF IInv, SingleExecutor, Attached, ScanOf
<1>3. ExecutorHoldsLease'
  <2> SUFFICES ASSUME NEW v \in Workers, worker'[v].pc \in HeldPcs
               PROVE  LeasedTo(scan'[worker'[v].scan], ProcOf(v), worker'[v].attempt)
    BY DEF ExecutorHoldsLease, ScanOf, LeasedTo
  <2> QED
    BY <1>1, PcKinds DEF IInv, ExecutorHoldsLease, ScanOf
<1>4. EndingHoldsOrDone'
  <2> SUFFICES ASSUME NEW v \in Workers, worker'[v].pc \in EndingPcs
               PROVE  \/ LeasedTo(scan'[worker'[v].scan], ProcOf(v),
                                  worker'[v].attempt)
                      \/ scan'[worker'[v].scan].status \in Terminal
    BY DEF EndingHoldsOrDone, ScanOf, LeasedTo
  <2> QED
    BY <1>1, EndingAttached DEF IInv, EndingHoldsOrDone, ScanOf
<1>5. UnsavedBehind'
  <2> SUFFICES ASSUME NEW v \in Workers, worker'[v].pc \in UnsavedPcs
               PROVE  batches'[worker'[v].scan] < scan'[worker'[v].scan].attempt
    BY DEF UnsavedBehind, ScanOf
  <2> QED
    BY <1>1, EndingAttached DEF IInv, UnsavedBehind, ScanOf
<1>6. StatusMatchesLease'
  BY DEF StatusMatchesLease, Consistent
<1>7. OneBatchPerAttempt'
  BY DEF IInv, OneBatchPerAttempt
<1> QED
  BY <1>2, <1>3, <1>4, <1>5, <1>6, <1>7 DEF IInv

\* The scan of an attached loop is leased to its process or finished.
LEMMA AttachedLeased ==
  ASSUME IInv, NEW v \in Workers, Attached(v)
  PROVE  \/ LeasedTo(scan[ScanOf(v)], ProcOf(v), worker[v].attempt)
         \/ scan[ScanOf(v)].status \in Terminal
<1>1. worker[v].pc \in HeldPcs \cup EndingPcs
  BY DEF Attached, AttachedPcs, EndingPcs
<1> QED
  BY <1>1, OwnFacts DEF Fits, Attached

\* Recovery passes over the scans of live loops.
LEMMA RecoverySparesLoops ==
  ASSUME IInv
  PROVE  /\ \A v \in Workers : Attached(v) => RecoverAll[ScanOf(v)] = scan[ScanOf(v)]
         /\ \A s \in Scans : /\ RecoverAll[s].attempt = scan[s].attempt
                             /\ Consistent(RecoverAll[s])
<1>1. ASSUME NEW v \in Workers, Attached(v)
      PROVE  RecoverAll[ScanOf(v)] = scan[ScanOf(v)]
  <2>1. ScanOf(v) \in Scans
    BY <1>1, OwnFacts DEF Attached
  <2>2. ~Stale(scan[ScanOf(v)])
    BY <1>1, AttachedLeased DEF LeasedTo, Stale, Terminal
  <2> QED
    BY <2>1, <2>2 DEF RecoverAll
<1>2. ASSUME NEW s \in Scans
      PROVE  RecoverAll[s].attempt = scan[s].attempt /\ Consistent(RecoverAll[s])
  <2>1. scan[s] \in ScanDoc /\ Consistent(scan[s])
    BY DEF IInv, TypeOK, StatusMatchesLease
  <2>2. /\ Recovered(scan[s]).attempt = scan[s].attempt
        /\ Consistent(Recovered(scan[s]))
    BY <2>1 DEF Recovered, Consistent, ScanDoc, Terminal
  <2> QED
    BY <2>1, <2>2 DEF RecoverAll
<1> QED
  BY <1>1, <1>2

LEMMA ProcessKeeps ==
  ASSUME IInv, TypeOK', NEW p \in Procs, ProcessStep(p)
  PROVE  IInv'
<1>1. UNCHANGED batches
  BY DEF ProcessStep, StartProcess, Shutdown, Crash, StartDrain, EndDrain
<1>2. scan' \in {scan, RecoverAll}
  BY DEF ProcessStep, StartProcess, Shutdown, Crash, StartDrain, EndDrain
<1>3. \A s \in Scans : Consistent(scan[s])
  BY DEF IInv, StatusMatchesLease
<1>4. \A v \in Workers : Attached(v)' => worker'[v] = worker[v]
  <2>1. CASE UNCHANGED worker
    BY <2>1
  <2>2. CASE Crash(p)
    BY <2>2, DetachedType DEF Crash, Attached
  <2>3. CASE \E recover \in BOOLEAN : StartDrain(p, recover)
    BY <2>3, DetachedType DEF StartDrain, Attached
  <2> QED
    BY <2>1, <2>2, <2>3 DEF ProcessStep, StartProcess, Shutdown, EndDrain
<1> QED
  BY <1>1, <1>2, <1>3, <1>4, RecoverySparesLoops, QueueStep

LEMMA RequestKeeps ==
  ASSUME IInv, TypeOK', NEW r \in Requests, RequestStep(r)
  PROVE  IInv'
<1>1. UNCHANGED <<batches, worker>>
  BY DEF RequestStep, StoreScan, AnnounceBatch, AbandonRequest
<1>2. \A s \in Scans : Consistent(scan[s])
  BY DEF IInv, StatusMatchesLease
<1>3. CASE StoreScan(r)
  <2> DEFINE s == BatchOf[r][request[r].stored + 1]
             d == Stored(scan[s], created + 1)
  <2>1. request[r].stored + 1 \in 1 .. Len(BatchOf[r]) /\ BatchOf[r] \in Seq(Scans)
    BY <1>3 DEF IInv, TypeOK, StoreScan
  <2>2. s \in Scans /\ scan[s] \in ScanDoc /\ scan[s].status = "absent"
    BY <1>3, <2>1 DEF IInv, TypeOK, StoreScan
  <2>3. scan' = [scan EXCEPT ![s] = d]
    BY <1>3 DEF StoreScan
  <2>4. Consistent(d) /\ d.attempt = scan[s].attempt
    BY <1>2, <2>2 DEF Stored, Consistent, ScanDoc, Terminal
  <2> HIDE DEF d, s
  <2>5. \A v \in Workers : Attached(v) => ScanOf(v) # s
    BY <2>2, AttachedLeased DEF LeasedTo, Terminal
  <2>6. \A v \in Workers : Attached(v) => scan'[ScanOf(v)] = scan[ScanOf(v)]
    BY <2>3, <2>5, OwnFacts DEF Attached, IInv, TypeOK
  <2>7. \A t \in Scans : scan'[t].attempt = scan[t].attempt /\ Consistent(scan'[t])
    BY <1>2, <2>2, <2>3, <2>4 DEF IInv, TypeOK
  <2> QED
    BY <1>1, <2>6, <2>7, QueueStep
<1>4. CASE UNCHANGED scan
  BY <1>1, <1>2, <1>4, QueueStep
<1> QED
  BY <1>3, <1>4 DEF RequestStep, AnnounceBatch, AbandonRequest

LEMMA LeaveKeeps ==
  ASSUME IInv, TypeOK', NEW w \in Workers, LeaveLoop(w) \/ ClaimFails(w)
  PROVE  IInv'
<1>1. UNCHANGED <<scan, batches>> /\ worker' = [worker EXCEPT ![w] = Idle]
  BY DEF LeaveLoop, ClaimFails
<1>2. \A v \in Workers : Attached(v)' => worker'[v] = worker[v]
  BY <1>1, DetachedType DEF Attached, IInv, TypeOK, WorkersOK
<1>3. \A s \in Scans : Consistent(scan[s])
  BY DEF IInv, StatusMatchesLease
<1> QED
  BY <1>1, <1>2, <1>3, QueueStep

\* Without lapses, time takes leases only from scans nobody works on.
LEMMA TimeKeeps ==
  ASSUME IInv, TypeOK', MaxLapses = 0, NEW s \in Scans, ScanStep(s)
  PROVE  IInv'
<1>1. UNCHANGED <<batches, worker>> /\ scan[s].status = "running"
  BY DEF ScanStep, LeaseExpires, LeaseLapses, GrowsOld
<1>2. scan[s] \in ScanDoc /\ Consistent(scan[s])
  BY DEF IInv, TypeOK, StatusMatchesLease
<1>3. \A v \in Workers : Attached(v) => ScanOf(v) # s
  <2> SUFFICES ASSUME NEW v \in Workers, Attached(v), ScanOf(v) = s PROVE FALSE
    OBVIOUS
  <2>1. LeasedTo(scan[s], ProcOf(v), worker[v].attempt)
    BY <1>1, AttachedLeased DEF Terminal
  <2>2. Renewed(s) /\ scan[s].lease = "live"
    BY <2>1 DEF LeasedTo, Renewed
  <2>3. ~(lapses < MaxLapses)
    BY DEF IInv, TypeOK
  <2> QED
    BY <2>2, <2>3 DEF ScanStep, LeaseExpires, LeaseLapses, GrowsOld
<1>4. PICK d \in ScanDoc : /\ scan' = [scan EXCEPT ![s] = d]
                           /\ Consistent(d) /\ d.attempt = scan[s].attempt
  <2> DEFINE expired == [scan[s] EXCEPT !.lease = "expired"]
             old == [scan[s] EXCEPT !.started = "old"]
  <2>1. expired \in ScanDoc /\ old \in ScanDoc
    BY <1>2, DocUpdates
  <2>2. Consistent(expired) /\ expired.attempt = scan[s].attempt
    BY <1>1, <1>2 DEF Consistent, ScanDoc, Terminal
  <2>3. Consistent(old) /\ old.attempt = scan[s].attempt
    BY <1>1, <1>2 DEF Consistent, ScanDoc, Terminal
  <2>4. scan' = [scan EXCEPT ![s] = expired] \/ scan' = [scan EXCEPT ![s] = old]
    BY DEF ScanStep, LeaseExpires, LeaseLapses, GrowsOld
  <2> HIDE DEF expired, old
  <2> QED
    BY <2>1, <2>2, <2>3, <2>4
<1>5. \A v \in Workers : Attached(v) => scan'[ScanOf(v)] = scan[ScanOf(v)]
  BY <1>3, <1>4, OwnFacts DEF Attached, IInv, TypeOK
<1>6. \A t \in Scans : scan'[t].attempt = scan[t].attempt /\ Consistent(scan'[t])
  BY <1>4 DEF IInv, TypeOK, StatusMatchesLease
<1> QED
  BY <1>1, <1>5, <1>6, QueueStep

(***************************************************************************)
(* The claim, the heartbeat, and the theorems.                             *)
(***************************************************************************)

LEMMA ClaimKeeps ==
  ASSUME IInv, TypeOK', NEW w \in Workers, Claim(w)
  PROVE  IInv'
<1> DEFINE p == ProcOf(w)
           u(s) == [pc |-> "claimed", scan |-> s,
                    attempt |-> scan[s].attempt + 1, verdict |-> "none"]
<1>1. PICK s \in Scans :
        /\ scan[s].status = "queued"
        /\ scan' = [scan EXCEPT ![s] = Claimed(scan[s], p)]
        /\ worker' = [worker EXCEPT ![w] = u(s)]
  BY DEF Claim, Oldest, Queued
<1> DEFINE d == Claimed(scan[s], p)
<1>2. /\ scan[s] \in ScanDoc /\ p \in Procs
      /\ batches[s] \in Nat /\ batches[s] =< scan[s].attempt
  BY OwnerIsProc DEF IInv, TypeOK, OneBatchPerAttempt
<1>3. /\ LeasedTo(d, p, scan[s].attempt + 1)
      /\ Consistent(d) /\ batches[s] < d.attempt
  BY <1>2 DEF Claimed, LeasedTo, Consistent, ScanDoc, Terminal
<1>4. /\ u(s).pc = "claimed" /\ u(s).scan = s
      /\ u(s).attempt = scan[s].attempt + 1
  OBVIOUS
<1> HIDE DEF d, u, p
<1>5. /\ scan'[s] = d /\ \A t \in Scans \ {s} : scan'[t] = scan[t]
      /\ worker'[w] = u(s) /\ \A v \in Workers \ {w} : worker'[v] = worker[v]
      /\ UNCHANGED batches
  BY <1>1 DEF d, IInv, TypeOK, WorkersOK, Claim
<1>6. ASSUME NEW v \in Workers \ {w}, worker[v].pc \in AttachedPcs
      PROVE  worker[v].scan \in Scans \ {s}
  <2>1. worker[v].scan \in Scans
    BY <1>6, OwnFacts DEF ScanOf
  <2>2. worker[v].scan # s
    BY <1>1, <1>6, AttachedLeased DEF Attached, LeasedTo, Terminal, ScanOf
  <2> QED
    BY <2>1, <2>2
<1>7. SingleExecutor'
  BY <1>4, <1>5, <1>6 DEF IInv, SingleExecutor, Attached, ScanOf
<1>8. ExecutorHoldsLease'
  <2> SUFFICES ASSUME NEW v \in Workers, worker'[v].pc \in HeldPcs
               PROVE  LeasedTo(scan'[worker'[v].scan], ProcOf(v), worker'[v].attempt)
    BY DEF ExecutorHoldsLease, ScanOf, LeasedTo
  <2>1. CASE v = w
    BY <1>3, <1>4, <1>5, <2>1 DEF p
  <2>2. CASE v # w
    BY <1>5, <1>6, <2>2, PcKinds DEF IInv, ExecutorHoldsLease, ScanOf
  <2> QED
    BY <2>1, <2>2
<1>9. EndingHoldsOrDone'
  <2> SUFFICES ASSUME NEW v \in Workers, worker'[v].pc \in EndingPcs
               PROVE  \/ LeasedTo(scan'[worker'[v].scan], ProcOf(v),
                                  worker'[v].attempt)
                      \/ scan'[worker'[v].scan].status \in Terminal
    BY DEF EndingHoldsOrDone, ScanOf, LeasedTo
  <2>1. v # w
    BY <1>4, <1>5 DEF EndingPcs
  <2> QED
    BY <1>5, <1>6, <2>1, EndingAttached DEF IInv, EndingHoldsOrDone, ScanOf
<1>10. UnsavedBehind'
  <2> SUFFICES ASSUME NEW v \in Workers, worker'[v].pc \in UnsavedPcs
               PROVE  batches'[worker'[v].scan] < scan'[worker'[v].scan].attempt
    BY DEF UnsavedBehind, ScanOf
  <2>1. CASE v = w
    BY <1>3, <1>4, <1>5, <2>1
  <2>2. CASE v # w
    BY <1>5, <1>6, <2>2, EndingAttached DEF IInv, UnsavedBehind, ScanOf
  <2> QED
    BY <2>1, <2>2
<1>11. StatusMatchesLease'
  BY <1>3, <1>5 DEF IInv, StatusMatchesLease, Consistent
<1>12. d.attempt \in Nat
  BY <1>2, DocUpdates DEF d, ScanDoc
<1>13. OneBatchPerAttempt'
  BY <1>2, <1>3, <1>5, <1>12 DEF IInv, OneBatchPerAttempt
<1> QED
  BY <1>7, <1>8, <1>9, <1>10, <1>11, <1>13 DEF IInv

\* Without lapses a heartbeat never finds an expired lease.
LEMMA NoLateHeartbeat ==
  ASSUME IInv, NEW w \in Workers, Heartbeat(w) PROVE FALSE
<1>1. LeasedTo(scan[ScanOf(w)], ProcOf(w), worker[w].attempt)
  BY AttachedLeased DEF Heartbeat, Heartbeating, Terminal
<1> QED
  BY <1>1 DEF LeasedTo, Heartbeat

LEMMA StutterKeeps == ASSUME IInv, TypeOK', UNCHANGED vars PROVE IInv'
<1>1. \A s \in Scans : Consistent(scan[s])
  BY DEF IInv, StatusMatchesLease
<1> QED
  BY <1>1, QueueStep DEF vars

LEMMA InvKept == MaxLapses = 0 /\ IInv /\ [Next]_vars => IInv'
<1> SUFFICES ASSUME MaxLapses = 0, IInv, [Next]_vars PROVE IInv'
  OBVIOUS
<1>1. TypeOK'
  BY TypesKept DEF IInv
<1>2. ASSUME NEW r \in Requests, RequestStep(r) PROVE IInv'
  BY <1>1, <1>2, RequestKeeps
<1>3. ASSUME NEW p \in Procs, ProcessStep(p) PROVE IInv'
  BY <1>1, <1>3, ProcessKeeps
<1>4. ASSUME NEW w \in Workers, WorkerStep(w) \/ WorkerFault(w) \/ Heartbeat(w)
      PROVE  IInv'
  BY <1>1, <1>4, ClaimKeeps, LeaveKeeps, MoveKeeps, StartKeeps, SaveKeeps,
     VerdictKeeps, ReportKeeps, NoLateHeartbeat
  DEF WorkerStep, WorkerFault
<1>5. ASSUME NEW s \in Scans, ScanStep(s) PROVE IInv'
  BY <1>1, <1>5, TimeKeeps
<1>6. CASE UNCHANGED vars
  BY <1>1, <1>6, StutterKeeps
<1> QED
  BY <1>2, <1>3, <1>4, <1>5, <1>6 DEF Next

LEMMA InitInv == Init => IInv
<1> SUFFICES ASSUME Init PROVE IInv
  OBVIOUS
<1>1. TypeOK
  BY InitTypes
<1>2. \A w \in Workers : worker[w].pc = "off"
  BY DEF Init, Idle
<1>3. SingleExecutor
  BY <1>2 DEF SingleExecutor, Attached, AttachedPcs, HeldPcs
<1>4. ExecutorHoldsLease /\ EndingHoldsOrDone /\ UnsavedBehind
  BY <1>2 DEF ExecutorHoldsLease, EndingHoldsOrDone, UnsavedBehind, HeldPcs,
              EndingPcs, UnsavedPcs
<1>5. StatusMatchesLease
  BY DEF Init, StatusMatchesLease, Consistent, Terminal
<1>6. OneBatchPerAttempt
  BY DEF Init, OneBatchPerAttempt
<1> QED
  BY <1>1, <1>3, <1>4, <1>5, <1>6 DEF IInv

LEMMA Invariance == ASSUME MaxLapses = 0 PROVE Spec => []IInv
<1>1. IInv /\ [Next]_vars => IInv'
  BY InvKept
<1> QED
  BY <1>1, InitInv, PTL DEF Spec

\* A scan has at most one executor over all processes: lease, heartbeat and
\* recovery together exclude a second one, whatever crashes and fails.
THEOREM OnlyOneExecutor == ASSUME MaxLapses = 0 PROVE Spec => []SingleExecutor
  BY Invariance, PTL DEF IInv

\* A loop that works on a scan holds its lease, in the attempt it claimed.
THEOREM LoopsHoldLeases == ASSUME MaxLapses = 0 PROVE Spec => []ExecutorHoldsLease
  BY Invariance, PTL DEF IInv

\* Status, owner, lease, start and progress of a document always agree.
THEOREM DocumentsConsistent ==
  ASSUME MaxLapses = 0 PROVE Spec => []StatusMatchesLease
  BY Invariance, PTL DEF IInv

\* Findings are inserted at most once per attempt.
THEOREM BatchesPerAttempt ==
  ASSUME MaxLapses = 0 PROVE Spec => []OneBatchPerAttempt
  BY Invariance, PTL DEF IInv
\* What a step may do to a running document under an unexpired lease.
StaysWith(s) == \/ scan'[s].status \in Terminal
                \/ scan'[s].status = "running" /\ scan'[s].owner = scan[s].owner

\* A loop writes its own document only, and a start writes back its own lease.
LEMMA LoopsRespectLease ==
  ASSUME IInv, NEW w \in Workers, NEW s \in Scans, scan[s].status = "running",
         StartScanner(w) \/ ScannerReturns(w) \/ Finish(w) \/ Fail(w) \/ Abort(w)
  PROVE  StaysWith(s)
<1>1. worker[w].pc \in AttachedPcs
  BY DEF StartScanner, ScannerReturns, Finish, Fail, Abort, AttachedPcs, HeldPcs
<1>2. /\ scan \in [Scans -> ScanDoc] /\ scan[ScanOf(w)] \in ScanDoc
      /\ ScanOf(w) \in Scans /\ scan[s] \in ScanDoc
  BY <1>1, OwnFacts DEF IInv, TypeOK
<1>3. PICK d : /\ scan' = [scan EXCEPT ![ScanOf(w)] = d]
               /\ \/ d.status \in Terminal
                  \/ d = scan[ScanOf(w)]
                  \/ /\ d.owner = scan[ScanOf(w)].owner
                     /\ scan[ScanOf(w)].status = "running" => d.status = "running"
  <2>1. CASE StartScanner(w)
    <3>1. scan[ScanOf(w)].owner = ProcOf(w)
      BY <1>1, <2>1, OwnFacts DEF StartScanner, Fits, HeldPcs, LeasedTo
    <3>2. /\ Started(scan[ScanOf(w)], w).status = "running"
          /\ Started(scan[ScanOf(w)], w).owner = scan[ScanOf(w)].owner
      BY <1>2, <3>1 DEF Started, ScanDoc
    <3> QED
      BY <1>2, <2>1, <3>2 DEF StartScanner
  <2>2. CASE ScannerReturns(w)
    <3>1. scan' = [scan EXCEPT ![ScanOf(w)] = [scan[ScanOf(w)] EXCEPT !.progress = 88]]
      BY <2>2 DEF ScannerReturns
    <3>2. /\ [scan[ScanOf(w)] EXCEPT !.progress = 88].status = scan[ScanOf(w)].status
          /\ [scan[ScanOf(w)] EXCEPT !.progress = 88].owner = scan[ScanOf(w)].owner
      BY <1>2 DEF ScanDoc
    <3> QED
      BY <3>1, <3>2
  <2>3. CASE Finish(w)
    <3>1. Completed(scan[ScanOf(w)], w).status \in Terminal
      BY <1>2 DEF Completed, ScanDoc, Terminal
    <3> QED
      BY <2>3, <3>1 DEF Finish
  <2>4. CASE Fail(w) \/ Abort(w)
    <3>1. Failed(scan[ScanOf(w)]).status \in Terminal
      BY <1>2 DEF Failed, ScanDoc, Terminal
    <3>2. \/ scan' = [scan EXCEPT ![ScanOf(w)] = Failed(scan[ScanOf(w)])]
          \/ scan' = [scan EXCEPT ![ScanOf(w)] = scan[ScanOf(w)]]
      BY <1>2, <2>4 DEF Fail, Abort
    <3> QED
      BY <3>1, <3>2
  <2> QED
    BY <2>1, <2>2, <2>3, <2>4
<1> QED
  BY <1>2, <1>3 DEF StaysWith

LEMMA LeaseRespected ==
  ASSUME IInv, [Next]_vars, NEW s \in Scans, scan[s].status = "running",
         scan[s].lease = "live"
  PROVE  StaysWith(s)
<1>1. scan \in [Scans -> ScanDoc] /\ scan[s] \in ScanDoc
  BY DEF IInv, TypeOK
<1>2. ASSUME scan'[s] = scan[s] PROVE StaysWith(s)
  BY <1>2 DEF StaysWith
<1>3. scan' = RecoverAll => scan'[s] = scan[s]
  BY DEF RecoverAll, Stale
<1>4. CASE \E r \in Requests : RequestStep(r)
  BY <1>1, <1>2, <1>4 DEF RequestStep, StoreScan, AnnounceBatch, AbandonRequest
<1>5. CASE \E p \in Procs : ProcessStep(p)
  BY <1>2, <1>3, <1>5 DEF ProcessStep, StartProcess, Shutdown, Crash, StartDrain, EndDrain
<1>6. ASSUME NEW w \in Workers, WorkerStep(w) \/ WorkerFault(w) PROVE StaysWith(s)
  <2>1. CASE Claim(w)
    <3>1. PICK t \in Scans : Oldest(t) /\ scan' = [scan EXCEPT ![t] = Claimed(@, ProcOf(w))]
      BY <2>1 DEF Claim
    <3>2. t # s
      BY <3>1 DEF Oldest, Queued
    <3> QED
      BY <1>1, <1>2, <3>1, <3>2
  <2>2. CASE StartScanner(w) \/ ScannerReturns(w) \/ Finish(w) \/ Fail(w) \/ Abort(w)
    BY <2>2, LoopsRespectLease
  <2>3. CASE UNCHANGED scan
    BY <1>2, <2>3
  <2> QED
    BY <1>6, <2>1, <2>2, <2>3
    DEF WorkerStep, WorkerFault, LeaveLoop, AnnounceRunning, Prepare, ScannerFails,
        SaveFindings, SaveFindingsFails, Report, AbortReport, ClaimFails,
        StartScannerFails, FinishFails
<1>7. ASSUME NEW t \in Scans, NEW d,
             scan' = [scan EXCEPT ![t] = d], d.status = scan[t].status,
             d.owner = scan[t].owner
      PROVE  StaysWith(s)
  BY <1>1, <1>7 DEF StaysWith
<1>8. CASE \E w \in Workers : Heartbeat(w)
  BY <1>8, NoLateHeartbeat
<1>9. ASSUME NEW t \in Scans, ScanStep(t) PROVE StaysWith(s)
  <2> DEFINE expired == [scan[t] EXCEPT !.lease = "expired"]
             old     == [scan[t] EXCEPT !.started = "old"]
  <2>1. scan[t] \in ScanDoc
    BY <1>1
  <2>2. /\ expired.status = scan[t].status /\ expired.owner = scan[t].owner
        /\ old.status = scan[t].status /\ old.owner = scan[t].owner
    BY <2>1 DEF ScanDoc
  <2>3. scan' = [scan EXCEPT ![t] = expired] \/ scan' = [scan EXCEPT ![t] = old]
    BY <1>9 DEF ScanStep, LeaseExpires, LeaseLapses, GrowsOld
  <2> HIDE DEF expired, old
  <2> QED
    BY <1>7, <2>2, <2>3
<1>10. CASE UNCHANGED vars
  BY <1>2, <1>10 DEF vars
<1> QED
  BY <1>4, <1>5, <1>6, <1>8, <1>9, <1>10 DEF Next

\* While loops renew their leases in time, nobody takes a running scan from its
\* owner before its verdict: not recovery, not a claim, and not the start of
\* executeSecureNowScanner, which writes back the lease it was claimed with.
THEOREM LiveLeasesKept == ASSUME MaxLapses = 0 PROVE Spec => LiveLeaseKept
<1>1. IInv /\ [Next]_vars =>
        [\A s \in Scans : scan[s].status = "running" /\ scan[s].lease = "live"
            => \/ scan'[s].status \in Terminal
               \/ scan'[s].status = "running" /\ scan'[s].owner = scan[s].owner]_vars
  BY LeaseRespected DEF StaysWith
<1> QED
  BY <1>1, Invariance, PTL DEF Spec, LiveLeaseKept

-----------------------------------------------------------------------------
(* How many loops of ScanQueue a process has, whatever lapses, fails or     *)
(* dies.                                                                   *)

Alive(p) == {k \in Slots : worker[<<p, k>>].pc # "off"}

\* The loops of drains that ended early.
Stragglers(p) == Alive(p) \ drain[p]

Allowance(n) == (Concurrency - 1) * n

LoopsInv ==
    \A p \in Procs : /\ Cardinality(drain[p]) <= Concurrency
                     /\ Cardinality(Stragglers(p)) <= Allowance(faults)

-----------------------------------------------------------------------------
(* Counting.                                                               *)

LEMMA Params == Concurrency \in Nat \ {0} /\ IsFiniteSet(Slots)
  BY ScanQueueAssumption

LEMMA SlotSets ==
  ASSUME NEW S \in SUBSET Slots
  PROVE  /\ IsFiniteSet(S) /\ Cardinality(S) \in Nat
         /\ \A T \in SUBSET S : Cardinality(T) <= Cardinality(S)
         /\ \A k \in S : Cardinality(S \ {k}) = Cardinality(S) - 1
<1>1. IsFiniteSet(S)
  BY Params, FS_Subset
<1>2. Cardinality(S) \in Nat
  BY <1>1, FS_CardinalityType
<1>3. \A T \in SUBSET S : Cardinality(T) <= Cardinality(S)
  BY <1>1, FS_Subset
<1>4. \A k \in S : Cardinality(S \ {k}) = Cardinality(S) - 1
  BY <1>1, FS_RemoveElement
<1> QED
  BY <1>1, <1>2, <1>3, <1>4

\* Two parts count at least as much as the whole.
LEMMA Parts ==
  ASSUME NEW S \in SUBSET Slots, NEW T \in SUBSET Slots, NEW U \in SUBSET (S \cup T)
  PROVE  Cardinality(U) <= Cardinality(S) + Cardinality(T)
<1>1. IsFiniteSet(S) /\ IsFiniteSet(T) /\ S \cup T \in SUBSET Slots
  BY SlotSets
<1>2. S \cap T \in SUBSET Slots
  OBVIOUS
<1>3. /\ Cardinality(S) \in Nat /\ Cardinality(T) \in Nat
      /\ Cardinality(S \cap T) \in Nat /\ Cardinality(S \cup T) \in Nat
  BY <1>1, <1>2, SlotSets
<1>4. Cardinality(S \cup T) = Cardinality(S) + Cardinality(T) - Cardinality(S \cap T)
  BY <1>1, FS_Union
<1>5. Cardinality(U) <= Cardinality(S \cup T) /\ Cardinality(U) \in Nat
  <2>1. U \in SUBSET Slots
    OBVIOUS
  <2> QED
    BY <1>1, <2>1, SlotSets
<1> QED
  BY <1>3, <1>4, <1>5

\* Every failing call allows Concurrency - 1 stragglers more.
LEMMA AllowanceGrows ==
  ASSUME NEW n \in Nat
  PROVE  /\ Allowance(n) \in Nat
         /\ Allowance(n + 1) = Allowance(n) + (Concurrency - 1)
<1> DEFINE c == Concurrency - 1
<1>1. c \in Nat
  BY Params
<1> HIDE DEF c
<1>2. c * n \in Nat /\ c * (n + 1) = c * n + c
  BY <1>1
<1> QED
  BY <1>2 DEF Allowance, c

LEMMA MoreFaults ==
  ASSUME TypeOK, faults' \in {faults, faults + 1}
  PROVE  Allowance(faults) <= Allowance(faults')
<1>1. /\ Allowance(faults) \in Nat /\ Concurrency - 1 \in Nat
      /\ Allowance(faults + 1) = Allowance(faults) + (Concurrency - 1)
  BY AllowanceGrows, Params DEF TypeOK
<1>2. CASE faults' = faults
  BY <1>1, <1>2
<1>3. CASE faults' = faults + 1
  BY <1>1, <1>3
<1> QED
  BY <1>2, <1>3

-----------------------------------------------------------------------------
(* What the steps do to the loops.                                         *)

\* Loops may end and calls may fail, but no drain begins or ends.
Calm == /\ UNCHANGED drain
        /\ faults' \in {faults, faults + 1}
        /\ \A p \in Procs : Alive(p)' \subseteq Alive(p)

\* A loop that is alive goes on, or ends.
LEMMA OneLoop ==
  ASSUME TypeOK, NEW w \in Workers, NEW u, worker[w].pc # "off",
         worker' = [worker EXCEPT ![w] = u]
  PROVE  \A p \in Procs : Alive(p)' \subseteq Alive(p)
<1>1. \A v \in Workers \ {w} : worker'[v] = worker[v]
  BY DEF TypeOK, WorkersOK
<1>2. \A p \in Procs, k \in Slots : <<p, k>> \in Workers
  BY DEF Workers
<1> QED
  BY <1>1, <1>2 DEF Alive

LEMMA WorkerStepsCalm ==
  ASSUME TypeOK, NEW w \in Workers,
         WorkerStep(w) \/ StartScannerFails(w) \/ FinishFails(w)
  PROVE  Calm
<1> USE DEF Goto, Conclude, Release, Fault, NoFault
<1>1. worker[w].pc # "off"
  BY DEF WorkerStep, Claim, LeaveLoop, AnnounceRunning, Prepare, StartScanner,
         StartScannerFails, ScannerReturns, ScannerFails, SaveFindings,
         SaveFindingsFails, Finish, FinishFails, Fail, Report, Abort, AbortReport
<1>2. UNCHANGED drain /\ faults' \in {faults, faults + 1}
  BY DEF WorkerStep, Claim, LeaveLoop, AnnounceRunning, Prepare, StartScanner,
         StartScannerFails, ScannerReturns, ScannerFails, SaveFindings,
         SaveFindingsFails, Finish, FinishFails, Fail, Report, Abort, AbortReport
<1>3. \E u : worker' = [worker EXCEPT ![w] = u]
  <2>1. CASE Claim(w)
    BY <2>1 DEF Claim
  <2>2. CASE LeaveLoop(w) \/ Report(w) \/ AbortReport(w)
    BY <2>2 DEF LeaveLoop, Report, AbortReport
  <2>3. CASE Finish(w) \/ Fail(w)
    BY <2>3 DEF Finish, Fail
  <2>4. CASE AnnounceRunning(w) \/ Prepare(w) \/ Abort(w)
    BY <2>4 DEF AnnounceRunning, Prepare, Abort
  <2>5. CASE StartScanner(w) \/ StartScannerFails(w) \/ ScannerReturns(w) \/ ScannerFails(w)
    BY <2>5 DEF StartScanner, StartScannerFails, ScannerReturns, ScannerFails
  <2>6. CASE SaveFindings(w) \/ SaveFindingsFails(w) \/ FinishFails(w)
    BY <2>6 DEF SaveFindings, SaveFindingsFails, FinishFails
  <2> QED
    BY <2>1, <2>2, <2>3, <2>4, <2>5, <2>6 DEF WorkerStep
<1> QED
  BY <1>1, <1>2, <1>3, OneLoop DEF Calm

LEMMA StepKinds ==
  ASSUME TypeOK, [Next]_vars
  PROVE  \/ Calm
         \/ \E p \in Procs : Crash(p) \/ EndDrain(p)
         \/ \E p \in Procs, recover \in BOOLEAN : StartDrain(p, recover)
         \/ \E w \in Workers : ClaimFails(w)
<1>1. ASSUME UNCHANGED <<drain, worker, faults>> PROVE Calm
  BY <1>1 DEF Calm, Alive
<1>2. CASE \E r \in Requests : RequestStep(r)
  BY <1>1, <1>2 DEF RequestStep, StoreScan, AnnounceBatch, AbandonRequest
<1>3. CASE \E p \in Procs : ProcessStep(p)
  BY <1>1, <1>3 DEF ProcessStep, StartProcess, Shutdown
<1>4. CASE \E w \in Workers : WorkerStep(w) \/ WorkerFault(w) \/ Heartbeat(w)
  BY <1>1, <1>4, WorkerStepsCalm DEF WorkerFault, Heartbeat
<1>5. CASE \E s \in Scans : ScanStep(s)
  BY <1>1, <1>5 DEF ScanStep, LeaseExpires, LeaseLapses, GrowsOld
<1>6. CASE UNCHANGED vars
  BY <1>1, <1>6 DEF vars
<1> QED
  BY <1>2, <1>3, <1>4, <1>5, <1>6 DEF Next

-----------------------------------------------------------------------------
(* The steps keep the invariant.                                           *)

\* While no drain begins or ends no process gets more stragglers.
LEMMA CalmKeeps ==
  ASSUME TypeOK, LoopsInv, Calm
  PROVE  LoopsInv'
<1> SUFFICES ASSUME NEW p \in Procs
             PROVE  /\ Cardinality(drain'[p]) <= Concurrency
                    /\ Cardinality(Stragglers(p)') <= Allowance(faults')
  BY DEF LoopsInv, Allowance
<1>1. Stragglers(p)' \in SUBSET Stragglers(p) /\ Stragglers(p) \in SUBSET Slots
  BY DEF Calm, Stragglers, Alive
<1>2. /\ Cardinality(Stragglers(p)') <= Cardinality(Stragglers(p))
      /\ Cardinality(Stragglers(p)') \in Nat /\ Cardinality(Stragglers(p)) \in Nat
  BY <1>1, SlotSets
<1>3. /\ Allowance(faults) <= Allowance(faults')
      /\ Allowance(faults) \in Nat /\ Allowance(faults') \in Nat
  <2>1. faults \in Nat /\ faults' \in Nat
    BY DEF TypeOK, Calm
  <2> QED
    BY <2>1, MoreFaults, AllowanceGrows DEF Calm
<1>4. Cardinality(Stragglers(p)) <= Allowance(faults)
  BY DEF LoopsInv
<1> QED
  BY <1>2, <1>3, <1>4 DEF Calm, LoopsInv

\* A drain starts only when none is waited for, in slots nobody uses, so the
\* stragglers are what they were; one that is over has no loops left.
LEMMA DrainKeeps ==
  ASSUME TypeOK, LoopsInv, NEW p \in Procs,
         EndDrain(p) \/ Crash(p) \/ \E recover \in BOOLEAN : StartDrain(p, recover)
  PROVE  LoopsInv'
<1>1. /\ worker \in [Workers -> WorkerState] /\ drain \in [Procs -> SUBSET Slots]
      /\ faults' = faults
  BY DEF TypeOK, WorkersOK, EndDrain, Crash, StartDrain
<1>2. /\ \A q \in Procs, k \in Slots : <<q, k>> \in Workers
      /\ \A q \in Procs, k \in Slots : <<q, k>>[1] = q /\ <<q, k>>[2] = k
  BY DEF Workers
<1>3. Cardinality({}) = 0 /\ Concurrency \in Nat
  BY Params, FS_EmptySet
<1>4. ASSUME NEW q \in Procs \ {p}
      PROVE  drain'[q] = drain[q] /\ Stragglers(q)' = Stragglers(q)
  <2>1. drain'[q] = drain[q]
    BY <1>1 DEF EndDrain, Crash, StartDrain
  <2>2. \A k \in Slots : worker'[<<q, k>>] = worker[<<q, k>>]
    BY <1>1, <1>2 DEF EndDrain, Crash, StartDrain, ProcOf
  <2> QED
    BY <2>1, <2>2 DEF Stragglers, Alive
<1> DEFINE Fine(q) == /\ Cardinality(drain[q]) <= Concurrency
                      /\ Cardinality(Stragglers(q)) <= Allowance(faults)
<1>5. Allowance(faults') = Allowance(faults) /\ \A q \in Procs : Fine(q)
  BY <1>1 DEF LoopsInv
<1>6. \A q \in Procs \ {p} : Fine(q)'
  BY <1>1, <1>4, <1>5 DEF Allowance
<1>7. Fine(p)' => LoopsInv'
  BY <1>6 DEF LoopsInv
<1>8. CASE EndDrain(p)
  <2>1. drain'[p] = {} /\ Stragglers(p)' = Stragglers(p)
    BY <1>1, <1>8 DEF EndDrain, Stragglers, Alive
  <2> QED
    BY <1>1, <1>3, <1>5, <1>7, <2>1 DEF Allowance
<1>9. CASE Crash(p)
  <2>1. \A k \in Slots : worker'[<<p, k>>] = Idle
    BY <1>2, <1>9 DEF Crash, ProcOf
  <2>2. drain'[p] = {} /\ Stragglers(p)' = {}
    <3>1. drain'[p] = {}
      BY <1>1, <1>9 DEF Crash
    <3>2. Alive(p)' = {}
      BY <2>1 DEF Alive, Idle
    <3> QED
      BY <3>1, <3>2 DEF Stragglers
  <2>3. Cardinality(Stragglers(p)') <= Allowance(faults)
    <3>1. Allowance(faults) \in Nat
      BY AllowanceGrows DEF TypeOK
    <3> QED
      BY <1>3, <2>2, <3>1
  <2> QED
    BY <1>1, <1>3, <1>5, <1>7, <2>2, <2>3 DEF Allowance
<1>10. CASE \E recover \in BOOLEAN : StartDrain(p, recover)
  <2>1. PICK K \in SUBSET {k \in Slots : worker[<<p, k>>].pc = "off"} :
          /\ Cardinality(K) = Concurrency
          /\ drain' = [drain EXCEPT ![p] = K]
          /\ worker' = [w \in Workers |-> IF w[1] = p /\ w[2] \in K
                                          THEN Claiming ELSE worker[w]]
    BY <1>10 DEF StartDrain
  <2>2. drain[p] = {} /\ drain'[p] = K
    BY <1>1, <1>10, <2>1 DEF StartDrain
  <2>3. \A k \in Slots : worker'[<<p, k>>] = IF k \in K THEN Claiming
                                             ELSE worker[<<p, k>>]
    BY <1>2, <2>1
  <2>4. Stragglers(p)' = Stragglers(p)
    BY <2>2, <2>3 DEF Stragglers, Alive
  <2> QED
    BY <1>1, <1>3, <1>5, <1>7, <2>1, <2>2, <2>4 DEF Allowance
<1> QED
  BY <1>8, <1>9, <1>10

\* A failing claim turns the other loops of its drain into stragglers.
LEMMA ClaimFailsKeeps ==
  ASSUME TypeOK, LoopsInv, NEW w \in Workers, ClaimFails(w)
  PROVE  LoopsInv'
<1>1. PICK p \in Procs, k \in Slots : w = <<p, k>>
  BY DEF Workers
<1>2. ProcOf(w) = p /\ w[2] = k
  BY <1>1 DEF ProcOf
<1>3. CASE k \notin drain[p]
  <2>1. drain' = drain
    BY <1>2, <1>3 DEF ClaimFails, TypeOK
  <2>2. \A q \in Procs : Alive(q)' \subseteq Alive(q)
    BY OneLoop DEF ClaimFails
  <2> QED
    BY <2>1, <2>2, CalmKeeps DEF Calm, ClaimFails, Fault
<1>4. CASE k \in drain[p]
  <2>1. /\ drain \in [Procs -> SUBSET Slots] /\ drain' = [drain EXCEPT ![p] = {}]
        /\ worker \in [Workers -> WorkerState] /\ worker' = [worker EXCEPT ![w] = Idle]
        /\ faults \in Nat /\ faults' = faults + 1
    BY <1>2, <1>4 DEF ClaimFails, Fault, TypeOK, WorkersOK
  <2>2. /\ Allowance(faults) \in Nat
        /\ Allowance(faults') = Allowance(faults) + (Concurrency - 1)
    BY <2>1, AllowanceGrows
  <2>3. Cardinality({}) = 0 /\ Concurrency \in Nat
    BY Params, FS_EmptySet
  <2>4. ASSUME NEW q \in Procs
        PROVE  Cardinality(Stragglers(q)) \in Nat
               /\ Cardinality(Stragglers(q)) <= Allowance(faults)
    <3>1. Stragglers(q) \in SUBSET Slots
      BY DEF Stragglers, Alive
    <3> QED
      BY <3>1, SlotSets DEF LoopsInv
  <2>5. ASSUME NEW q \in Procs \ {p}
        PROVE  drain'[q] = drain[q] /\ Stragglers(q)' = Stragglers(q)
    <3>1. \A j \in Slots : worker'[<<q, j>>] = worker[<<q, j>>]
      BY <1>1, <2>1 DEF Workers
    <3> QED
      BY <2>1, <3>1 DEF Stragglers, Alive
  <2>6. Stragglers(p)' \in SUBSET (Stragglers(p) \cup (drain[p] \ {k}))
    <3>1. worker'[<<p, k>>].pc = "off"
      BY <1>1, <2>1 DEF Idle
    <3>2. \A j \in Slots \ {k} : worker'[<<p, j>>] = worker[<<p, j>>]
      BY <1>1, <2>1 DEF Workers
    <3> QED
      BY <3>1, <3>2 DEF Stragglers, Alive
  <2>7. /\ Cardinality(drain[p] \ {k}) = Cardinality(drain[p]) - 1
        /\ Cardinality(drain[p]) \in Nat /\ Cardinality(drain[p]) <= Concurrency
    BY <1>4, <2>1, SlotSets DEF LoopsInv
  <2>8. /\ Cardinality(Stragglers(p)')
             <= Cardinality(Stragglers(p)) + Cardinality(drain[p] \ {k})
        /\ Cardinality(Stragglers(p)') \in Nat
    <3>1. /\ Stragglers(p) \in SUBSET Slots /\ drain[p] \ {k} \in SUBSET Slots
          /\ Stragglers(p)' \in SUBSET Slots
      BY <2>1 DEF Stragglers, Alive
    <3> QED
      BY <2>6, <3>1, Parts, SlotSets
  <2>9. Cardinality(Stragglers(p)') <= Allowance(faults')
    BY <2>2, <2>3, <2>4, <2>7, <2>8
  <2>10. \A q \in Procs \ {p} : Cardinality(Stragglers(q)') <= Allowance(faults')
    BY Params, <2>2, <2>4, <2>5
  <2>11. \A q \in Procs : Cardinality(drain'[q]) <= Concurrency
    BY <2>1, <2>3, <2>5 DEF LoopsInv
  <2> QED
    BY <2>9, <2>10, <2>11 DEF LoopsInv, Allowance
<1> QED
  BY <1>3, <1>4

LEMMA LoopsInvKept == TypeOK /\ LoopsInv /\ [Next]_vars => LoopsInv'
  BY StepKinds, CalmKeeps, DrainKeeps, ClaimFailsKeeps

LEMMA InitLoops == Init => LoopsInv
<1> SUFFICES ASSUME Init, NEW p \in Procs
             PROVE  /\ Cardinality(drain[p]) <= Concurrency
                    /\ Cardinality(Stragglers(p)) <= Allowance(faults)
  BY DEF LoopsInv
<1>1. drain[p] = {} /\ Stragglers(p) = {} /\ faults = 0
  BY DEF Init, Stragglers, Alive, Idle, Workers
<1>2. Cardinality({}) = 0 /\ Concurrency \in Nat /\ Allowance(0) \in Nat
  BY Params, FS_EmptySet, AllowanceGrows
<1> QED
  BY <1>1, <1>2

\* A process has at most Concurrency loops, and for every call that failed the
\* rest of a drain beside them: no poll, request or recovery starts another
\* drain while one is waited for (queueDrainPromise of scans.service.ts).
THEOREM LoopsAlwaysBounded == Spec => []LoopsBounded
<1>1. TypeOK /\ LoopsInv => LoopsBounded
  <2> SUFFICES ASSUME TypeOK, LoopsInv, NEW p \in Procs
               PROVE  Cardinality(Alive(p)) <= Concurrency + Allowance(faults)
    BY DEF LoopsBounded, Alive, Allowance
  <2>1. /\ Stragglers(p) \in SUBSET Slots /\ drain[p] \in SUBSET Slots
        /\ Alive(p) \in SUBSET Slots
        /\ Alive(p) \in SUBSET (Stragglers(p) \cup drain[p])
    BY DEF TypeOK, Stragglers, Alive
  <2>2. Cardinality(Alive(p)) <= Cardinality(Stragglers(p)) + Cardinality(drain[p])
    BY <2>1, Parts
  <2>3. /\ Cardinality(Alive(p)) \in Nat /\ Cardinality(Stragglers(p)) \in Nat
        /\ Cardinality(drain[p]) \in Nat
    BY <2>1, SlotSets
  <2>4. Allowance(faults) \in Nat
    BY AllowanceGrows DEF TypeOK
  <2> QED
    BY Params, <2>2, <2>3, <2>4 DEF LoopsInv
<1>2. Spec => []TypeOK
  BY TypeCorrect
<1>3. Spec => []LoopsInv
  BY <1>2, InitLoops, LoopsInvKept, PTL DEF Spec
<1> QED
  BY <1>1, <1>2, <1>3, PTL

-----------------------------------------------------------------------------
(***************************************************************************)
(* Findings before completion.  No lease is needed: this holds under       *)
(* lapses and failing calls as well.                                       *)
(***************************************************************************)

\* A loop about to complete its scan has stored the findings.
FinishSaved ==
    \A w \in Workers : worker[w].pc = "finish" =>
        KindOf[ScanOf(w)] = "manual" \/ batches[ScanOf(w)] >= 1

SavedInv == TypeOK /\ FinishSaved /\ CompletedHasFindings

\* A loop that enters its last phase has stored the findings just now, and only
\* a loop in this phase completes a scan.
LEMMA SavedFrame ==
  ASSUME SavedInv, TypeOK',
         \A s \in Scans : batches'[s] >= batches[s],
         \A s \in Scans : scan'[s].status = "completed" =>
             \/ scan[s].status = "completed"
             \/ \E w \in Workers : worker[w].pc = "finish" /\ ScanOf(w) = s,
         \A w \in Workers : worker'[w].pc = "finish" =>
             \/ worker'[w] = worker[w]
             \/ KindOf[worker'[w].scan] = "manual"
             \/ batches'[worker'[w].scan] >= 1
  PROVE  SavedInv'
<1>1. \A s \in Scans : batches[s] \in Nat /\ batches'[s] \in Nat
  BY DEF SavedInv, TypeOK
<1>2. FinishSaved'
  <2> SUFFICES ASSUME NEW w \in Workers, worker'[w].pc = "finish"
               PROVE  \/ KindOf[worker'[w].scan] = "manual"
                      \/ batches'[worker'[w].scan] >= 1
    BY DEF FinishSaved, ScanOf
  <2>1. CASE worker'[w] = worker[w]
    <3>1. ScanOf(w) \in Scans
      BY <2>1, AttachedTypes, PcKinds DEF SavedInv
    <3> QED
      BY <1>1, <2>1, <3>1 DEF SavedInv, FinishSaved, ScanOf
  <2> QED
    BY <2>1
<1>3. CompletedHasFindings'
  BY <1>1 DEF SavedInv, FinishSaved, CompletedHasFindings
<1> QED
  BY <1>2, <1>3 DEF SavedInv

\* The steps of a loop that has its scan.
LEMMA SavedByLoop ==
  ASSUME SavedInv, TypeOK', NEW w \in Workers, worker[w].pc \in AttachedPcs,
         WorkerStep(w) \/ WorkerFault(w)
  PROVE  SavedInv'
<1>1. /\ ScanOf(w) \in Scans /\ TypeOK /\ worker[w] \in WorkerState
      /\ batches[ScanOf(w)] \in Nat /\ scan[ScanOf(w)] \in ScanDoc
  BY AttachedTypes DEF SavedInv, TypeOK
<1>2. worker[w].pc # "claim"
  BY DEF AttachedPcs, HeldPcs
<1>3. \A v \in Workers \ {w} : worker'[v] = worker[v]
  BY <1>1, <1>2
  DEF TypeOK, WorkersOK, WorkerStep, WorkerFault, Claim, LeaveLoop, ClaimFails,
      AnnounceRunning, Prepare, StartScanner, StartScannerFails, ScannerReturns,
      ScannerFails, SaveFindings, SaveFindingsFails, Finish, FinishFails, Fail,
      Report, Abort, AbortReport, Goto, Conclude, Release
<1>4. \A s \in Scans : batches'[s] >= batches[s]
  <2>1. CASE UNCHANGED batches
    BY <1>1, <2>1 DEF TypeOK
  <2>2. CASE batches' = [batches EXCEPT ![ScanOf(w)] = @ + 1]
    BY <1>1, <2>2 DEF TypeOK
  <2> QED
    BY <1>2, <2>1, <2>2
    DEF WorkerStep, WorkerFault, Claim, LeaveLoop, ClaimFails,
        AnnounceRunning, Prepare, StartScanner, StartScannerFails, ScannerReturns,
        ScannerFails, SaveFindings, SaveFindingsFails, Finish, FinishFails, Fail,
        Report, Abort, AbortReport
<1>5. \A s \in Scans : scan'[s].status = "completed" =>
          scan[s].status = "completed" \/ (worker[w].pc = "finish" /\ ScanOf(w) = s)
  <2>1. CASE UNCHANGED scan
    BY <2>1
  <2>2. CASE Finish(w)
    BY <1>1, <2>2 DEF Finish, TypeOK
  <2>3. CASE StartScanner(w)
    <3>1. Started(scan[ScanOf(w)], w).status = "running"
      BY <1>1 DEF Started, ScanDoc
    <3> QED
      BY <1>1, <2>3, <3>1 DEF StartScanner, TypeOK
  <2>4. CASE ScannerReturns(w)
    <3>1. [scan[ScanOf(w)] EXCEPT !.progress = 88].status = scan[ScanOf(w)].status
      BY <1>1 DEF ScanDoc
    <3> QED
      BY <1>1, <2>4, <3>1 DEF ScannerReturns, TypeOK
  <2>5. CASE scan' = [scan EXCEPT ![ScanOf(w)] = Failed(@)]
    <3>1. Failed(scan[ScanOf(w)]).status = "failed"
      BY <1>1 DEF Failed, ScanDoc
    <3> QED
      BY <1>1, <2>5, <3>1 DEF TypeOK
  <2> QED
    BY <1>2, <2>1, <2>2, <2>3, <2>4, <2>5
    DEF WorkerStep, WorkerFault, Claim, LeaveLoop, ClaimFails,
        AnnounceRunning, Prepare, StartScannerFails, ScannerFails,
        SaveFindings, SaveFindingsFails, FinishFails, Fail, Report, Abort,
        AbortReport
<1>6. worker'[w].pc = "finish" => \/ KindOf[worker'[w].scan] = "manual"
                                  \/ batches'[worker'[w].scan] >= 1
  <2>1. CASE Prepare(w)
    <3>1. /\ worker'[w].scan = ScanOf(w)
          /\ worker'[w].pc = "finish" => KindOf[ScanOf(w)] = "manual"
      BY <1>1, <2>1 DEF Prepare, Goto, TypeOK, WorkersOK, WorkerState, ScanOf
    <3> QED
      BY <3>1
  <2>2. CASE SaveFindings(w)
    <3>1. worker'[w].scan = ScanOf(w)
      BY <1>1, <2>2 DEF SaveFindings, Goto, TypeOK, WorkersOK, WorkerState, ScanOf
    <3>2. batches'[ScanOf(w)] = batches[ScanOf(w)] + 1
      BY <1>1, <2>2 DEF SaveFindings, TypeOK
    <3> QED
      BY <1>1, <3>1, <3>2
  <2>3. CASE /\ WorkerStep(w) \/ WorkerFault(w)
             /\ ~Prepare(w) /\ ~SaveFindings(w)
    <3>1. worker'[w].pc # "finish"
      BY <1>1, <1>2, <2>3
      DEF TypeOK, WorkersOK, WorkerState, WorkerStep, WorkerFault, Claim,
          LeaveLoop, ClaimFails, AnnounceRunning, StartScanner,
          StartScannerFails, ScannerReturns, ScannerFails, SaveFindingsFails,
          Finish, FinishFails, Fail, Report, Abort, AbortReport, Goto, Conclude,
          Release, Claiming, FinalizeHandler
    <3> QED
      BY <3>1
  <2> QED
    BY <2>1, <2>2, <2>3
<1> QED
  BY <1>3, <1>4, <1>5, <1>6, SavedFrame

\* Time changes no status.
LEMMA TimeKeepsStatus ==
  ASSUME TypeOK, NEW s \in Scans, ScanStep(s)
  PROVE  \A t \in Scans : scan'[t].status = scan[t].status
<1> DEFINE expired == [scan[s] EXCEPT !.lease = "expired"]
           old == [scan[s] EXCEPT !.started = "old"]
<1>1. expired.status = scan[s].status /\ old.status = scan[s].status
  BY DEF TypeOK, ScanDoc
<1>2. scan' = [scan EXCEPT ![s] = expired] \/ scan' = [scan EXCEPT ![s] = old]
  BY DEF ScanStep, LeaseExpires, LeaseLapses, GrowsOld
<1> HIDE DEF expired, old
<1> QED
  BY <1>1, <1>2 DEF TypeOK

LEMMA SavedKept == SavedInv /\ [Next]_vars => SavedInv'
<1> SUFFICES ASSUME SavedInv, [Next]_vars PROVE SavedInv'
  OBVIOUS
<1>1. TypeOK'
  BY TypesKept DEF SavedInv
<1>2. ASSUME UNCHANGED batches,
             \A s \in Scans : scan'[s].status = "completed" => scan[s].status = "completed",
             \A w \in Workers : worker'[w] = worker[w] \/ worker'[w].pc # "finish"
      PROVE  SavedInv'
  <2>1. \A s \in Scans : batches'[s] >= batches[s]
    BY <1>2 DEF SavedInv, TypeOK
  <2> QED
    BY <1>1, <1>2, <2>1, SavedFrame
<1>3. ASSUME NEW r \in Requests, RequestStep(r) PROVE SavedInv'
  <2>1. UNCHANGED <<batches, worker>>
    BY <1>3 DEF RequestStep, StoreScan, AnnounceBatch, AbandonRequest
  <2>2. CASE StoreScan(r)
    <3>1. BatchOf[r][request[r].stored + 1] \in Scans
      <4>1. request[r].stored + 1 \in 1 .. Len(BatchOf[r]) /\ BatchOf[r] \in Seq(Scans)
        BY <2>2 DEF SavedInv, TypeOK, StoreScan
      <4> QED
        BY <4>1
    <3>2. \A s \in Scans : Stored(scan[s], created + 1).status = "queued"
      BY DEF SavedInv, TypeOK, ScanDoc, Stored
    <3>3. \A s \in Scans : scan'[s].status = "completed" => scan[s].status = "completed"
      BY <2>2, <3>1, <3>2 DEF SavedInv, TypeOK, StoreScan
    <3> QED
      BY <1>2, <2>1, <3>3
  <2>3. CASE UNCHANGED scan
    BY <1>2, <2>1, <2>3
  <2> QED
    BY <1>3, <2>2, <2>3 DEF RequestStep, AnnounceBatch, AbandonRequest
<1>4. ASSUME NEW p \in Procs, ProcessStep(p) PROVE SavedInv'
  <2>1. UNCHANGED batches /\ scan' \in {scan, RecoverAll}
    BY <1>4 DEF ProcessStep, StartProcess, Shutdown, Crash, StartDrain, EndDrain
  <2>2. \A s \in Scans : RecoverAll[s].status = "completed" => scan[s].status = "completed"
    BY DEF RecoverAll, Recovered, SavedInv, TypeOK, ScanDoc
  <2>3. \A w \in Workers : worker'[w] = worker[w] \/ worker'[w].pc # "finish"
    BY <1>4 DEF ProcessStep, StartProcess, Shutdown, Crash, StartDrain, EndDrain,
                Idle, Claiming
  <2> QED
    BY <1>2, <2>1, <2>2, <2>3
<1>5. ASSUME NEW s \in Scans, ScanStep(s) PROVE SavedInv'
  <2>1. UNCHANGED <<batches, worker>>
    BY <1>5 DEF ScanStep, LeaseExpires, LeaseLapses, GrowsOld
  <2>2. \A t \in Scans : scan'[t].status = scan[t].status
    BY <1>5, TimeKeepsStatus DEF SavedInv
  <2> QED
    BY <1>2, <2>1, <2>2
<1>6. ASSUME NEW w \in Workers, Claim(w) \/ LeaveLoop(w) \/ ClaimFails(w) \/ Heartbeat(w)
      PROVE  SavedInv'
  <2>1. UNCHANGED batches
    BY <1>6 DEF Claim, LeaveLoop, ClaimFails, Heartbeat
  <2>2. \A s \in Scans : scan'[s].status = "completed" => scan[s].status = "completed"
    <3>1. CASE Claim(w)
      <4>1. \A s \in Scans : Claimed(scan[s], ProcOf(w)).status = "running"
        BY DEF SavedInv, TypeOK, ScanDoc, Claimed
      <4> QED
        BY <3>1, <4>1 DEF Claim, SavedInv, TypeOK
    <3>2. CASE Heartbeat(w)
      BY <3>2 DEF Heartbeat, SavedInv, TypeOK, ScanDoc
    <3> QED
      BY <1>6, <3>1, <3>2 DEF LeaveLoop, ClaimFails
  <2>3. \A v \in Workers : worker'[v] = worker[v] \/ worker'[v].pc # "finish"
    BY <1>6 DEF Claim, LeaveLoop, ClaimFails, Heartbeat, Idle, SavedInv, TypeOK, WorkersOK
  <2> QED
    BY <1>2, <2>1, <2>2, <2>3
<1>7. ASSUME NEW w \in Workers, WorkerStep(w) \/ WorkerFault(w),
             ~Claim(w), ~LeaveLoop(w), ~ClaimFails(w)
      PROVE  SavedInv'
  <2>1. worker[w].pc \in AttachedPcs
    BY <1>7, PcKinds
    DEF WorkerStep, WorkerFault, AnnounceRunning, Prepare, StartScanner,
        StartScannerFails, ScannerReturns, ScannerFails, SaveFindings,
        SaveFindingsFails, Finish, FinishFails, Fail, Report, Abort, AbortReport
  <2> QED
    BY <1>1, <1>7, <2>1, SavedByLoop
<1>8. CASE UNCHANGED vars
  BY <1>2, <1>8 DEF vars
<1> QED
  BY <1>3, <1>4, <1>5, <1>6, <1>7, <1>8 DEF Next

\* No scan is completed before its findings were stored, whatever lapses,
\* crashes and fails (scans.service.ts:1709-1745).
THEOREM CompletionFollowsFindings == Spec => []CompletedHasFindings
<1>1. Init => SavedInv
  <2>1. Init => TypeOK
    BY InitTypes
  <2>2. Init => FinishSaved /\ CompletedHasFindings
    BY DEF Init, FinishSaved, CompletedHasFindings, Idle
  <2> QED
    BY <2>1, <2>2 DEF SavedInv
<1>2. SavedInv => CompletedHasFindings
  BY DEF SavedInv
<1> QED
  BY <1>1, <1>2, SavedKept, PTL DEF Spec

(***************************************************************************)
(* ScanQueue implements ScanJobs while leases are renewed in time and the  *)
(* database answers.                                                       *)
(***************************************************************************)

\* A job somebody works on is running.  ScanJobs keeps this by itself, so it
\* need not be shown again for the steps of ScanQueue.
CrewRuns == \A s \in Scans : JobCrew[s] # {} => JobState[s] = "running"

\* Taking a job makes it run, and only jobs without a crew stop running or lose
\* theirs when they are settled.
LEMMA JobsKeepCrewRuns ==
  CrewRuns /\ [Queue!Next]_(Queue!vars) => CrewRuns'
<1> SUFFICES ASSUME CrewRuns, [Queue!Next]_(Queue!vars), NEW s \in Scans,
                    JobCrew'[s] # {}
             PROVE  JobState'[s] = "running"
  BY DEF CrewRuns
<1>0. /\ JobState = [j \in Scans |-> JobState[j]] /\ JobCrew = [j \in Scans |-> JobCrew[j]]
      /\ JobCrew[s] # {} => JobState[s] = "running"
  BY DEF CrewRuns, JobState, JobCrew
<1> HIDE DEF JobState, JobCrew
<1>1. CASE UNCHANGED Queue!vars
  BY <1>0, <1>1 DEF Queue!vars
<1>2. ASSUME NEW j \in Scans, Queue!Submit(j) PROVE JobState'[s] = "running"
  BY <1>0, <1>2 DEF Queue!Submit
<1>3. ASSUME NEW j \in Scans, NEW w \in Workers, Queue!Take(j, w)
      PROVE  JobState'[s] = "running"
  BY <1>0, <1>3 DEF Queue!Take
<1>4. ASSUME NEW J \in SUBSET Scans, Queue!Lose(J) \/ Queue!PutBack(J)
      PROVE  JobState'[s] = "running"
  BY <1>0, <1>4 DEF Queue!Lose, Queue!PutBack
<1>5. ASSUME NEW j \in Scans, NEW w \in Workers, NEW v \in Terminal, Queue!Settle(j, w, v)
      PROVE  JobState'[s] = "running"
  BY <1>0, <1>5 DEF Queue!Settle
<1> QED
  BY <1>1, <1>2, <1>3, <1>4, <1>5 DEF Queue!Next, Queue!Verdicts, Terminal

Works(w, s) == Executing(w) /\ ScanOf(w) = s

LEMMA CrewOf == \A s \in Scans, w \in Workers : w \in JobCrew[s] <=> Works(w, s)
  BY DEF JobCrew, Works

LEMMA CrewOfNext ==
  \A s \in Scans : JobCrew'[s] = {w \in Workers : Works(w, s)'}
  BY DEF JobCrew, Works

\* A loop that works on a scan holds its lease and is its whole crew.
LEMMA WorkerFacts ==
  ASSUME IInv, CrewRuns, NEW w \in Workers, Executing(w)
  PROVE  /\ ScanOf(w) \in Scans /\ worker[w].pc \in AttachedPcs
         /\ scan[ScanOf(w)].status = "running"
         /\ LeasedTo(scan[ScanOf(w)], ProcOf(w), worker[w].attempt)
         /\ JobCrew[ScanOf(w)] = {w}
<1>1. worker[w].pc \in AttachedPcs
  BY PcKinds DEF Executing
<1>2. ScanOf(w) \in Scans /\ Attached(w)
  BY <1>1, OwnFacts
<1>3. w \in JobCrew[ScanOf(w)]
  BY <1>2, CrewOf DEF Works
<1>4. scan[ScanOf(w)].status = "running"
  BY <1>2, <1>3 DEF CrewRuns, JobState
<1>5. LeasedTo(scan[ScanOf(w)], ProcOf(w), worker[w].attempt)
  BY <1>2, <1>4, AttachedLeased DEF Terminal
<1>6. ASSUME NEW v \in JobCrew[ScanOf(w)] PROVE v = w
  <2>1. v \in Workers /\ Executing(v) /\ ScanOf(v) = ScanOf(w)
    BY <1>2 DEF JobCrew
  <2>2. Attached(v)
    BY <2>1, PcKinds DEF Executing, Attached
  <2> QED
    BY <1>2, <2>1, <2>2 DEF IInv, SingleExecutor
<1> QED
  BY <1>1, <1>2, <1>3, <1>4, <1>5, <1>6

\* Nothing ScanJobs knows of has changed.
LEMMA JobStutter ==
  ASSUME \A s \in Scans : scan'[s].status = scan[s].status,
         \A w \in Workers : /\ Executing(w)' <=> Executing(w)
                            /\ Executing(w) => ScanOf(w)' = ScanOf(w)
  PROVE  UNCHANGED Queue!vars
<1>1. JobState' = JobState
  BY DEF JobState
<1>2. JobCrew' = JobCrew
  <2>1. \A w \in Workers, s \in Scans : Works(w, s)' <=> Works(w, s)
    BY DEF Works
  <2> QED
    BY <2>1 DEF JobCrew, Works
<1> QED
  BY <1>1, <1>2 DEF Queue!vars

\* The steps of a loop between its claim and its verdict.
LEMMA WorkStutters ==
  ASSUME IInv, CrewRuns, NEW w \in Workers,
         \/ AnnounceRunning(w) \/ Prepare(w) \/ StartScanner(w)
         \/ StartScannerFails(w) \/ ScannerReturns(w) \/ ScannerFails(w)
         \/ SaveFindings(w) \/ SaveFindingsFails(w) \/ FinishFails(w)
  PROVE  UNCHANGED Queue!vars
<1>1. worker[w].pc \in HeldPcs
  BY DEF AnnounceRunning, Prepare, StartScanner, StartScannerFails, ScannerReturns,
         ScannerFails, SaveFindings, SaveFindingsFails, FinishFails, HeldPcs
<1>2. /\ Executing(w) /\ ScanOf(w) \in Scans /\ scan[ScanOf(w)].status = "running"
      /\ worker[w] \in WorkerState /\ scan[ScanOf(w)] \in ScanDoc
  BY <1>1, WorkerFacts, OwnFacts DEF Executing
<1>3. PICK pc \in HeldPcs \cup {"abort"} : Goto(w, pc)
  BY DEF AnnounceRunning, Prepare, StartScanner, StartScannerFails, ScannerReturns,
         ScannerFails, SaveFindings, SaveFindingsFails, FinishFails, HeldPcs,
         FinalizeHandler
<1>4. \A v \in Workers : /\ Executing(v)' <=> Executing(v)
                         /\ Executing(v) => ScanOf(v)' = ScanOf(v)
  BY <1>2, <1>3 DEF Goto, Executing, ScanOf, IInv, TypeOK, WorkersOK, WorkerState
<1>5. \A s \in Scans : scan'[s].status = scan[s].status
  <2>1. CASE UNCHANGED scan
    BY <2>1
  <2>2. CASE StartScanner(w)
    <3>1. Started(scan[ScanOf(w)], w).status = "running"
      BY <1>2 DEF Started, ScanDoc
    <3> QED
      BY <1>2, <2>2, <3>1 DEF StartScanner, IInv, TypeOK
  <2>3. CASE ScannerReturns(w)
    <3>1. [scan[ScanOf(w)] EXCEPT !.progress = 88].status = "running"
      BY <1>2 DEF ScanDoc
    <3> QED
      BY <1>2, <2>3, <3>1 DEF ScannerReturns, IInv, TypeOK
  <2> QED
    BY <2>1, <2>2, <2>3
    DEF AnnounceRunning, Prepare, StartScannerFails, ScannerFails, SaveFindings,
        SaveFindingsFails, FinishFails
<1> QED
  BY <1>4, <1>5, JobStutter

\* The write of a verdict.
LEMMA VerdictSettles ==
  ASSUME IInv, CrewRuns, NEW w \in Workers, Executing(w),
         NEW v \in Terminal, NEW d, NEW u, d.status = v,
         scan' = [scan EXCEPT ![ScanOf(w)] = d],
         worker' = [worker EXCEPT ![w] = u], u.pc \in {"report", "abortReport"}
  PROVE  Queue!Settle(ScanOf(w), w, v)
<1>1. /\ ScanOf(w) \in Scans /\ scan[ScanOf(w)].status = "running"
      /\ JobCrew[ScanOf(w)] = {w}
  BY WorkerFacts
<1>2. worker'[w] = u /\ \A x \in Workers \ {w} : worker'[x] = worker[x]
  BY DEF IInv, TypeOK, WorkersOK
<1>3. JobState' = [JobState EXCEPT ![ScanOf(w)] = v]
  BY <1>1 DEF JobState, IInv, TypeOK
<1>4. ~Executing(w)' /\ \A x \in Workers \ {w}, s \in Scans : Works(x, s)' <=> Works(x, s)
  BY <1>2 DEF Executing, Works, ScanOf, HeldPcs
<1>5. ASSUME NEW s \in Scans
      PROVE  JobCrew'[s] = IF s = ScanOf(w) THEN {} ELSE JobCrew[s]
  <2>1. CASE s = ScanOf(w)
    <3> SUFFICES ASSUME NEW x \in JobCrew'[s] PROVE FALSE
      BY <2>1
    <3>1. x \in Workers /\ Works(x, s)'
      BY CrewOfNext
    <3>2. x # w /\ Works(x, s)
      BY <1>4, <3>1 DEF Works
    <3> QED
      BY <1>1, <2>1, <3>1, <3>2, CrewOf
  <2>2. CASE s # ScanOf(w)
    <3>1. \A x \in Workers : Works(x, s)' <=> Works(x, s)
      BY <1>4, <2>2 DEF Works
    <3> QED
      BY <2>2, <3>1, CrewOfNext DEF JobCrew, Works
  <2> QED
    BY <2>1, <2>2
<1>6. JobCrew' = [JobCrew EXCEPT ![ScanOf(w)] = {}]
  BY <1>1, <1>5 DEF JobCrew
<1> QED
  BY <1>1, <1>3, <1>6 DEF Queue!Settle, JobState

\* Verdicts are written by loops at work, as long as the database answers.
LEMMA VerdictMaps ==
  ASSUME IInv, CrewRuns, MaxFaults = 0, NEW w \in Workers,
         Finish(w) \/ Fail(w) \/ Abort(w)
  PROVE  \E v \in Terminal : Queue!Settle(ScanOf(w), w, v)
<1>1. Executing(w)
  BY DEF Finish, Fail, Abort, Executing, HeldPcs
<1>2. /\ ScanOf(w) \in Scans /\ worker[w] \in WorkerState
      /\ scan[ScanOf(w)] \in ScanDoc
  BY <1>1, WorkerFacts, OwnFacts
<1>3. ~Fault
  BY DEF Fault, IInv, TypeOK
<1>4. CASE Finish(w)
  <2> DEFINE d == Completed(scan[ScanOf(w)], w)
             u == [worker[w] EXCEPT !.pc = "report", !.verdict = "completed"]
  <2>1. d.status = "completed"
    BY <1>2 DEF Completed, ScanDoc
  <2>2. u.pc = "report"
    BY <1>2 DEF WorkerState
  <2>3. scan' = [scan EXCEPT ![ScanOf(w)] = d] /\ worker' = [worker EXCEPT ![w] = u]
    BY <1>4 DEF Finish, Conclude
  <2> HIDE DEF d, u
  <2> QED
    BY <1>1, <2>1, <2>2, <2>3, VerdictSettles DEF Terminal
<1>5. CASE Fail(w) \/ Abort(w)
  <2> DEFINE d == Failed(scan[ScanOf(w)])
             u == [worker[w] EXCEPT !.pc = "report", !.verdict = "failed"]
             a == [worker[w] EXCEPT !.pc = "abortReport"]
  <2>1. d.status = "failed"
    BY <1>2 DEF Failed, ScanDoc
  <2>2. u.pc = "report" /\ a.pc = "abortReport"
    BY <1>2 DEF WorkerState
  <2>3. /\ scan' = [scan EXCEPT ![ScanOf(w)] = d]
        /\ worker' = [worker EXCEPT ![w] = u] \/ worker' = [worker EXCEPT ![w] = a]
    BY <1>3, <1>5 DEF Fail, Abort, Conclude, Goto
  <2> HIDE DEF d, u, a
  <2> QED
    BY <1>1, <2>1, <2>2, <2>3, VerdictSettles DEF Terminal
<1> QED
  BY <1>4, <1>5

\* The steps of a loop that works on no scan, or has written its verdict.
LEMMA IdleStutters ==
  ASSUME IInv, CrewRuns, MaxFaults = 0, NEW w \in Workers,
         LeaveLoop(w) \/ ClaimFails(w) \/ Report(w) \/ AbortReport(w)
  PROVE  UNCHANGED Queue!vars
<1>1. ~Fault
  BY DEF Fault, IInv, TypeOK
<1>2. worker[w].pc \in {"claim", "report", "abortReport"} /\ UNCHANGED scan
  BY DEF LeaveLoop, ClaimFails, Report, AbortReport
<1>3. worker' = [worker EXCEPT ![w] = Idle] \/ worker' = [worker EXCEPT ![w] = Claiming]
  BY <1>1 DEF LeaveLoop, ClaimFails, Report, AbortReport, Release
<1>4. \A v \in Workers : /\ Executing(v)' <=> Executing(v)
                         /\ Executing(v) => ScanOf(v)' = ScanOf(v)
  <2>1. \A v \in Workers \ {w} : worker'[v] = worker[v]
    BY <1>3 DEF IInv, TypeOK, WorkersOK
  <2>2. worker'[w] \in {Idle, Claiming}
    BY <1>3 DEF IInv, TypeOK, WorkersOK
  <2>3. ~Executing(w) /\ ~Executing(w)'
    BY <1>2, <2>2 DEF Idle, Claiming, Executing, HeldPcs
  <2> QED
    BY <2>1, <2>3 DEF Executing, ScanOf
<1> QED
  BY <1>2, <1>4, JobStutter

\* A queued scan has no crew, so a claim takes it alone.
LEMMA ClaimTakes ==
  ASSUME IInv, CrewRuns, NEW w \in Workers, Claim(w)
  PROVE  \E s \in Scans : Queue!Take(s, w)
<1> DEFINE u(s) == [pc |-> "claimed", scan |-> s,
                    attempt |-> scan[s].attempt + 1, verdict |-> "none"]
<1>1. PICK s \in Scans :
        /\ scan[s].status = "queued"
        /\ scan' = [scan EXCEPT ![s] = Claimed(scan[s], ProcOf(w))]
        /\ worker' = [worker EXCEPT ![w] = u(s)]
  BY DEF Claim, Oldest, Queued
<1>2. u(s).pc = "claimed" /\ u(s).scan = s
  OBVIOUS
<1> HIDE DEF u
<1>3. worker'[w] = u(s) /\ \A x \in Workers \ {w} : worker'[x] = worker[x]
  BY <1>1 DEF IInv, TypeOK, WorkersOK
<1>4. ~Executing(w)
  BY DEF Claim, Executing, HeldPcs
<1>5. JobCrew[s] = {}
  BY <1>1 DEF CrewRuns, JobState
<1>6. JobState' = [JobState EXCEPT ![s] = "running"]
  <2>1. Claimed(scan[s], ProcOf(w)).status = "running"
    BY DEF Claimed, IInv, TypeOK, ScanDoc
  <2> QED
    BY <1>1, <2>1 DEF JobState, IInv, TypeOK
<1>7. Works(w, s)' /\ \A t \in Scans \ {s} : ~Works(w, t)' /\ ~Works(w, t)
  BY <1>2, <1>3, <1>4 DEF Works, Executing, HeldPcs, ScanOf
<1>8. \A x \in Workers \ {w}, t \in Scans : Works(x, t)' <=> Works(x, t)
  BY <1>3 DEF Works, Executing, ScanOf
<1>9. ASSUME NEW t \in Scans PROVE JobCrew'[t] = IF t = s THEN {w} ELSE JobCrew[t]
  <2>1. CASE t = s
    <3>1. \A x \in Workers : Works(x, s)' <=> x = w
      BY <1>5, <1>7, <1>8, CrewOf
    <3> QED
      BY <2>1, <3>1, CrewOfNext
  <2>2. CASE t # s
    <3>1. \A x \in Workers : Works(x, t)' <=> Works(x, t)
      BY <1>7, <1>8, <2>2
    <3> QED
      BY <2>2, <3>1, CrewOfNext DEF JobCrew, Works
  <2> QED
    BY <2>1, <2>2
<1>10. JobCrew' = [JobCrew EXCEPT ![s] = {w}]
  BY <1>9 DEF JobCrew
<1> QED
  BY <1>1, <1>5, <1>6, <1>10 DEF Queue!Take, JobState

\* Recovery puts back only what nobody works on.
LEMMA RecoveryPutsBack ==
  ASSUME IInv, CrewRuns, scan' = RecoverAll,
         \A w \in Workers : /\ Executing(w)' <=> Executing(w)
                            /\ Executing(w) => ScanOf(w)' = ScanOf(w)
  PROVE  Queue!PutBack({s \in Scans : Stale(scan[s])})
<1> DEFINE J == {s \in Scans : Stale(scan[s])}
<1>1. ASSUME NEW s \in J PROVE JobState[s] = "running" /\ JobCrew[s] = {}
  <2>1. s \in Scans /\ Stale(scan[s])
    BY <1>1
  <2>2. JobState[s] = "running"
    BY <2>1 DEF Stale, JobState
  <2>3. ASSUME NEW w \in JobCrew[s] PROVE FALSE
    <3>1. w \in Workers /\ Executing(w) /\ ScanOf(w) = s
      BY <2>1 DEF JobCrew
    <3>2. LeasedTo(scan[s], ProcOf(w), worker[w].attempt)
      BY <3>1, WorkerFacts
    <3> QED
      BY <2>1, <3>2 DEF Stale, LeasedTo
  <2> QED
    BY <2>2, <2>3
<1>2. JobState' = [s \in Scans |-> IF s \in J THEN "queued" ELSE JobState[s]]
  <2>1. \A s \in Scans : Recovered(scan[s]).status = "queued"
    BY DEF Recovered, IInv, TypeOK, ScanDoc
  <2> QED
    BY <2>1 DEF JobState, RecoverAll
<1>3. JobCrew' = JobCrew
  <2>1. \A w \in Workers, s \in Scans : Works(w, s)' <=> Works(w, s)
    BY DEF Works
  <2> QED
    BY <2>1 DEF JobCrew, Works
<1> QED
  BY <1>1, <1>2, <1>3 DEF Queue!PutBack

\* A dying process takes its loops off their scans, which keep running.
LEMMA CrashLoses ==
  ASSUME IInv, CrewRuns, NEW p \in Procs, Crash(p)
  PROVE  \E J \in SUBSET Scans : Queue!Lose(J)
<1> DEFINE J == {s \in Scans : \E w \in Workers : Works(w, s) /\ ProcOf(w) = p}
<1>1. worker' = [w \in Workers |-> IF ProcOf(w) = p THEN Idle ELSE worker[w]]
  BY DEF Crash
<1>2. \A w \in Workers, s \in Scans : Works(w, s)' <=> Works(w, s) /\ ProcOf(w) # p
  BY <1>1 DEF Works, Executing, HeldPcs, ScanOf, Idle
<1>3. ASSUME NEW s \in J
      PROVE  JobState[s] = "running" /\ JobCrew'[s] = {}
  <2>1. PICK w \in Workers : Works(w, s) /\ ProcOf(w) = p
    BY <1>3
  <2>2. JobState[s] = "running" /\ JobCrew[s] = {w}
    BY <1>3, <2>1, WorkerFacts DEF Works, JobState
  <2>3. \A x \in Workers : ~Works(x, s)'
    BY <1>2, <1>3, <2>1, <2>2, CrewOf
  <2> QED
    BY <1>3, <2>2, <2>3, CrewOfNext
<1>4. ASSUME NEW s \in Scans \ J PROVE JobCrew'[s] = JobCrew[s]
  <2>1. \A w \in Workers : Works(w, s)' <=> Works(w, s)
    BY <1>2, <1>4
  <2> QED
    BY <2>1, CrewOfNext DEF JobCrew, Works
<1>5. JobCrew' = [s \in Scans |-> IF s \in J THEN {} ELSE JobCrew[s]]
  BY <1>3, <1>4 DEF JobCrew
<1>6. JobState' = JobState
  BY DEF Crash, JobState
<1>7. Queue!Lose(J)
  BY <1>3, <1>5, <1>6 DEF Queue!Lose
<1> QED
  BY <1>7

LEMMA ProcessMaps ==
  ASSUME IInv, CrewRuns, NEW p \in Procs, ProcessStep(p)
  PROVE  [Queue!Next]_(Queue!vars)
<1>1. CASE Crash(p)
  BY <1>1, CrashLoses DEF Queue!Next
<1>2. ASSUME ~Crash(p)
      PROVE  \A w \in Workers : /\ Executing(w)' <=> Executing(w)
                                /\ Executing(w) => ScanOf(w)' = ScanOf(w)
  <2>1. CASE UNCHANGED worker
    BY <2>1 DEF Executing, ScanOf
  <2>2. ASSUME NEW recover \in BOOLEAN, StartDrain(p, recover)
        PROVE  \A w \in Workers : \/ worker'[w] = worker[w]
                                  \/ worker[w].pc = "off" /\ worker'[w] = Claiming
    <3>1. PICK K \in SUBSET {k \in Slots : worker[<<p, k>>].pc = "off"} :
            worker' = [w \in Workers |-> IF w[1] = p /\ w[2] \in K THEN Claiming
                                         ELSE worker[w]]
      BY <2>2 DEF StartDrain
    <3>2. \A w \in Workers : w = <<w[1], w[2]>>
      BY DEF Workers
    <3> QED
      BY <3>1, <3>2
  <2>3. ASSUME NEW recover \in BOOLEAN, StartDrain(p, recover)
        PROVE  \A w \in Workers : /\ Executing(w)' <=> Executing(w)
                                  /\ Executing(w) => ScanOf(w)' = ScanOf(w)
    BY <2>2, <2>3 DEF Executing, ScanOf, HeldPcs, Claiming
  <2> QED
    BY <1>2, <2>1, <2>3 DEF ProcessStep, StartProcess, Shutdown, EndDrain
<1>3. CASE scan' = RecoverAll /\ ~Crash(p)
  <2>1. Queue!PutBack({s \in Scans : Stale(scan[s])})
    BY <1>2, <1>3, RecoveryPutsBack
  <2> QED
    BY <2>1 DEF Queue!Next
<1>4. CASE UNCHANGED scan /\ ~Crash(p)
  BY <1>2, <1>4, JobStutter
<1>5. Crash(p) \/ scan' = RecoverAll \/ UNCHANGED scan
  BY DEF ProcessStep, StartProcess, Shutdown, StartDrain, EndDrain
<1> QED
  BY <1>1, <1>3, <1>4, <1>5

LEMMA RequestMaps ==
  ASSUME IInv, CrewRuns, NEW r \in Requests, RequestStep(r)
  PROVE  [Queue!Next]_(Queue!vars)
<1>1. UNCHANGED worker
  BY DEF RequestStep, StoreScan, AnnounceBatch, AbandonRequest
<1>2. JobCrew' = JobCrew
  BY <1>1 DEF JobCrew, Executing, ScanOf
<1>3. CASE StoreScan(r)
  <2> DEFINE s == BatchOf[r][request[r].stored + 1]
             d == Stored(scan[s], created + 1)
  <2>1. request[r].stored + 1 \in 1 .. Len(BatchOf[r]) /\ BatchOf[r] \in Seq(Scans)
    BY <1>3 DEF IInv, TypeOK, StoreScan
  <2>2. s \in Scans /\ scan[s].status = "absent" /\ scan' = [scan EXCEPT ![s] = d]
    BY <1>3, <2>1 DEF StoreScan
  <2>3. d.status = "queued"
    BY <2>2 DEF Stored, IInv, TypeOK, ScanDoc
  <2> HIDE DEF d, s
  <2>4. JobState' = [JobState EXCEPT ![s] = "queued"]
    BY <2>2, <2>3 DEF JobState, IInv, TypeOK
  <2>5. Queue!Submit(s)
    BY <1>2, <2>2, <2>4 DEF Queue!Submit, JobState
  <2> QED
    BY <2>2, <2>5 DEF Queue!Next
<1>4. CASE UNCHANGED scan
  BY <1>2, <1>4 DEF Queue!vars, JobState
<1> QED
  BY <1>3, <1>4 DEF RequestStep, AnnounceBatch, AbandonRequest

LEMMA StepMaps ==
  MaxFaults = 0 /\ IInv /\ CrewRuns /\ [Next]_vars => [Queue!Next]_(Queue!vars)
<1> SUFFICES ASSUME MaxFaults = 0, IInv, CrewRuns, [Next]_vars
             PROVE  [Queue!Next]_(Queue!vars)
  OBVIOUS
<1>1. ASSUME NEW r \in Requests, RequestStep(r) PROVE [Queue!Next]_(Queue!vars)
  BY <1>1, RequestMaps
<1>2. ASSUME NEW p \in Procs, ProcessStep(p) PROVE [Queue!Next]_(Queue!vars)
  BY <1>2, ProcessMaps
<1>3. ASSUME NEW w \in Workers, Heartbeat(w) PROVE [Queue!Next]_(Queue!vars)
  BY <1>3, NoLateHeartbeat
<1>4. ASSUME NEW w \in Workers, WorkerStep(w) \/ WorkerFault(w)
      PROVE  [Queue!Next]_(Queue!vars)
  <2>1. CASE Claim(w)
    BY <2>1, ClaimTakes DEF Queue!Next
  <2>2. CASE Finish(w) \/ Fail(w) \/ Abort(w)
    <3>1. PICK v \in Terminal : Queue!Settle(ScanOf(w), w, v)
      BY <2>2, VerdictMaps
    <3>2. ScanOf(w) \in Scans
      BY <2>2, OwnFacts, PcKinds DEF Finish, Fail, Abort
    <3> QED
      BY <3>1, <3>2 DEF Queue!Next, Queue!Verdicts, Terminal
  <2>3. CASE WorkerStep(w) \/ WorkerFault(w)
    BY <2>1, <2>2, <2>3, IdleStutters, WorkStutters DEF WorkerStep, WorkerFault
  <2> QED
    BY <1>4, <2>3
<1>5. ASSUME NEW s \in Scans, ScanStep(s) PROVE [Queue!Next]_(Queue!vars)
  <2>1. UNCHANGED worker
    BY <1>5 DEF ScanStep, LeaseExpires, LeaseLapses, GrowsOld
  <2>2. \A t \in Scans : scan'[t].status = scan[t].status
    BY <1>5, TimeKeepsStatus DEF IInv
  <2> QED
    BY <2>1, <2>2, JobStutter DEF Executing, ScanOf
<1>6. CASE UNCHANGED vars
  BY <1>6, JobStutter DEF vars, Executing, ScanOf
<1> QED
  BY <1>1, <1>2, <1>3, <1>4, <1>5, <1>6 DEF Next

LEMMA InitMaps == Init => Queue!Init /\ CrewRuns
<1> SUFFICES ASSUME Init PROVE Queue!Init /\ CrewRuns
  OBVIOUS
<1>1. \A w \in Workers : ~Executing(w)
  BY DEF Init, Idle, Executing, HeldPcs
<1>2. JobCrew = [s \in Scans |-> {}]
  BY <1>1 DEF JobCrew
<1>3. JobState = [s \in Scans |-> "absent"]
  BY DEF Init, JobState
<1> QED
  BY <1>2, <1>3 DEF Queue!Init, CrewRuns

\* The queue keeps the promise of ScanJobs: one worker per job, jobs put back
\* only when nobody works on them, one verdict by the worker in charge.  For any
\* number of processes, loops, scans and crashes, as long as leases are renewed
\* in time and the database answers.
THEOREM QueueImplementsJobs ==
  ASSUME MaxLapses = 0, MaxFaults = 0 PROVE Spec => ImplementsScanJobs
<1>1. Spec => []IInv
  BY Invariance
<1>2. IInv /\ CrewRuns /\ [Next]_vars => [Queue!Next]_(Queue!vars)
  BY StepMaps
<1>3. CrewRuns /\ [Queue!Next]_(Queue!vars) => CrewRuns'
  BY JobsKeepCrewRuns
<1> QED
  BY <1>1, <1>2, <1>3, InitMaps, PTL DEF Spec, ImplementsScanJobs, Queue!Spec

\* ScanJobs never takes a verdict back, nor therefore does the queue.
LEMMA JobsKeepVerdicts ==
  ASSUME [Queue!Next]_(Queue!vars), NEW s \in Scans, JobState[s] \in Terminal
  PROVE  JobState'[s] = JobState[s]
<1>0. JobState = [j \in Scans |-> JobState[j]]
  BY DEF JobState
<1> HIDE DEF JobState, JobCrew
<1>1. CASE UNCHANGED Queue!vars
  BY <1>1 DEF Queue!vars
<1>2. ASSUME NEW j \in Scans, Queue!Submit(j) PROVE JobState'[s] = JobState[s]
  BY <1>0, <1>2 DEF Queue!Submit, Terminal
<1>3. ASSUME NEW j \in Scans, NEW w \in Workers, Queue!Take(j, w)
      PROVE  JobState'[s] = JobState[s]
  BY <1>0, <1>3 DEF Queue!Take, Terminal
<1>4. ASSUME NEW J \in SUBSET Scans, Queue!Lose(J) \/ Queue!PutBack(J)
      PROVE  JobState'[s] = JobState[s]
  BY <1>0, <1>4 DEF Queue!Lose, Queue!PutBack, Terminal
<1>5. ASSUME NEW j \in Scans, NEW w \in Workers, NEW v \in Terminal, Queue!Settle(j, w, v)
      PROVE  JobState'[s] = JobState[s]
  BY <1>0, <1>5 DEF Queue!Settle, Terminal
<1> QED
  BY <1>1, <1>2, <1>3, <1>4, <1>5 DEF Queue!Next, Queue!Verdicts, Terminal

\* A finished scan is never run again nor relabelled, under the same conditions.
THEOREM VerdictsFinal ==
  ASSUME MaxLapses = 0, MaxFaults = 0 PROVE Spec => VerdictIsFinal
<1> DEFINE Kept == \A s \in Scans : scan[s].status \in Terminal
                                       => scan'[s].status = scan[s].status
<1>1. Spec => []IInv
  BY Invariance
<1>2. IInv /\ CrewRuns /\ [Next]_vars => CrewRuns'
  BY StepMaps, JobsKeepCrewRuns
<1>3. IInv /\ CrewRuns /\ [Next]_vars => [Kept]_vars
  <2> SUFFICES ASSUME IInv, CrewRuns, [Next]_vars, NEW s \in Scans,
                      scan[s].status \in Terminal
               PROVE  scan'[s].status = scan[s].status
    OBVIOUS
  <2>1. JobState[s] = scan[s].status /\ JobState'[s] = scan'[s].status
    BY DEF JobState
  <2> QED
    BY <2>1, StepMaps, JobsKeepVerdicts
<1> QED
  BY <1>1, <1>2, <1>3, InitMaps, PTL DEF Spec, VerdictIsFinal

(***************************************************************************)
(* The verdict that the asset shows.                                       *)
(***************************************************************************)

\* A loop that is about to tell the asset tells what the document says.
ReportsVerdict ==
    \A w \in Workers :
        /\ worker[w].pc = "report" => scan[ScanOf(w)].status = worker[w].verdict
        /\ worker[w].pc = "abortReport" => scan[ScanOf(w)].status = "failed"

AssetShows ==
    \A a \in Assets : lastScan[a].status \in Terminal =>
        /\ lastScan[a].scan \in Scans
        /\ scan[lastScan[a].scan].status = lastScan[a].status

AInv == IInv /\ CrewRuns /\ ReportsVerdict /\ AssetShows

LEMMA ReportsKept ==
  ASSUME AInv, TypeOK', MaxFaults = 0, [Next]_vars,
         \A s \in Scans : scan[s].status \in Terminal => scan'[s].status = scan[s].status
  PROVE  ReportsVerdict'
<1>1. ASSUME NEW w \in Workers, worker[w].pc \in {"report", "abortReport"}
      PROVE  /\ ScanOf(w) \in Scans /\ scan'[ScanOf(w)].status = scan[ScanOf(w)].status
             /\ worker[w].pc = "report" => scan[ScanOf(w)].status = worker[w].verdict
             /\ worker[w].pc = "abortReport" => scan[ScanOf(w)].status = "failed"
  <2>1. ScanOf(w) \in Scans
    BY <1>1, OwnFacts, PcKinds DEF AInv
  <2>2. worker[w].pc = "report" => worker[w].verdict \in Terminal
    BY DEF AInv, IInv, TypeOK, WorkersOK
  <2> QED
    BY <1>1, <2>1, <2>2 DEF AInv, ReportsVerdict, Terminal
<1>2. ASSUME \A w \in Workers : \/ worker'[w] = worker[w]
                                \/ worker'[w].pc \notin {"report", "abortReport"}
      PROVE  ReportsVerdict'
  BY <1>1, <1>2 DEF ReportsVerdict, ScanOf
<1>3. ASSUME NEW w \in Workers, Finish(w) \/ Fail(w) \/ Abort(w)
      PROVE  ReportsVerdict'
  <2>1. /\ ScanOf(w) \in Scans /\ worker[w] \in WorkerState
        /\ scan[ScanOf(w)] \in ScanDoc /\ ~Fault
    BY <1>3, OwnFacts, PcKinds DEF AInv, Finish, Fail, Abort, Fault, IInv, TypeOK
  <2>2. \A v \in Workers \ {w} : worker'[v] = worker[v]
    BY <1>3, <2>1 DEF Finish, Fail, Abort, Conclude, Goto, AInv, IInv, TypeOK, WorkersOK
  <2>3. worker'[w].scan = ScanOf(w)
    BY <1>3, <2>1
    DEF Finish, Fail, Abort, Conclude, Goto, AInv, IInv, TypeOK, WorkersOK,
        WorkerState, ScanOf
  <2>4. /\ worker'[w].pc = "report" => scan'[ScanOf(w)].status = worker'[w].verdict
        /\ worker'[w].pc = "abortReport" => scan'[ScanOf(w)].status = "failed"
    <3>1. CASE Finish(w)
      <4>1. Completed(scan[ScanOf(w)], w).status = "completed"
        BY <2>1 DEF Completed, ScanDoc
      <4>2. worker'[w].pc = "report" /\ worker'[w].verdict = "completed"
        BY <2>1, <3>1 DEF Finish, Conclude, AInv, IInv, TypeOK, WorkersOK, WorkerState
      <4> QED
        BY <2>1, <3>1, <4>1, <4>2 DEF Finish, AInv, IInv, TypeOK
    <3>2. CASE Fail(w) \/ Abort(w)
      <4>1. Failed(scan[ScanOf(w)]).status = "failed"
        BY <2>1 DEF Failed, ScanDoc
      <4>2. worker'[w].pc = "report" => worker'[w].verdict = "failed"
        BY <2>1, <3>2
        DEF Fail, Abort, Conclude, Goto, AInv, IInv, TypeOK, WorkersOK, WorkerState
      <4> QED
        BY <2>1, <3>2, <4>1, <4>2 DEF Fail, Abort, AInv, IInv, TypeOK
    <3> QED
      BY <1>3, <3>1, <3>2
  <2> QED
    BY <1>1, <2>2, <2>3, <2>4 DEF ReportsVerdict, ScanOf
<1>4. ASSUME NEW w \in Workers, WorkerStep(w) \/ WorkerFault(w) \/ Heartbeat(w),
             ~Finish(w), ~Fail(w), ~Abort(w)
      PROVE  ReportsVerdict'
  <2>1. \A v \in Workers \ {w} : worker'[v] = worker[v]
    BY <1>4
    DEF AInv, IInv, TypeOK, WorkersOK, WorkerStep, WorkerFault, Claim, LeaveLoop,
        ClaimFails, AnnounceRunning, Prepare, StartScanner, StartScannerFails,
        ScannerReturns, ScannerFails, SaveFindings, SaveFindingsFails, FinishFails,
        Report, AbortReport, Heartbeat, Goto, Release
  <2>2. worker'[w].pc \notin {"report", "abortReport"} \/ worker'[w] = worker[w]
    <3>1. worker[w] \in WorkerState
      BY DEF AInv, IInv, TypeOK, WorkersOK
    <3> QED
      BY <1>4, <3>1
      DEF AInv, IInv, TypeOK, WorkersOK, WorkerState, WorkerStep, WorkerFault, Claim,
          LeaveLoop, ClaimFails, AnnounceRunning, Prepare, StartScanner,
          StartScannerFails, ScannerReturns, ScannerFails, SaveFindings,
          SaveFindingsFails, FinishFails, Report, AbortReport, Heartbeat, Goto,
          Release, Idle, Claiming, FinalizeHandler
  <2> QED
    BY <1>2, <2>1, <2>2
<1>5. ASSUME NEW p \in Procs, ProcessStep(p) PROVE ReportsVerdict'
  <2>1. \A w \in Workers : worker'[w] = worker[w] \/ worker'[w] \in {Idle, Claiming}
    BY <1>5 DEF ProcessStep, StartProcess, Shutdown, Crash, StartDrain, EndDrain
  <2> QED
    BY <1>2, <2>1 DEF Idle, Claiming
<1>6. CASE UNCHANGED worker
  BY <1>2, <1>6
<1> QED
  BY <1>3, <1>4, <1>5, <1>6
  DEF Next, vars, RequestStep, StoreScan, AnnounceBatch, AbandonRequest, ScanStep,
      LeaseExpires, LeaseLapses, GrowsOld

LEMMA AssetKept ==
  ASSUME AInv, TypeOK', MaxFaults = 0, [Next]_vars,
         \A s \in Scans : scan[s].status \in Terminal => scan'[s].status = scan[s].status
  PROVE  AssetShows'
<1>1. ASSUME NEW s \in Scans, NEW status, MarkAsset(s, status),
             status \in Terminal => scan[s].status = status
      PROVE  AssetShows'
  <2>1. AssetOf[s] \in Assets
    OBVIOUS
  <2>2. /\ lastScan'[AssetOf[s]] = [scan |-> s, status |-> status]
        /\ \A a \in Assets \ {AssetOf[s]} : lastScan'[a] = lastScan[a]
    BY <1>1, <2>1 DEF MarkAsset, AInv, IInv, TypeOK
  <2>3. ASSUME NEW a \in Assets, lastScan'[a].status \in Terminal
        PROVE  /\ lastScan'[a].scan \in Scans
               /\ scan'[lastScan'[a].scan].status = lastScan'[a].status
    <3>1. CASE a = AssetOf[s]
      BY <1>1, <2>2, <2>3, <3>1
    <3>2. CASE a # AssetOf[s]
      BY <2>2, <2>3, <3>2 DEF AInv, AssetShows
    <3> QED
      BY <3>1, <3>2
  <2> QED
    BY <2>3 DEF AssetShows
<1>2. CASE UNCHANGED lastScan
  BY <1>2 DEF AInv, AssetShows
<1>3. ASSUME NEW w \in Workers, AnnounceRunning(w) \/ Report(w) \/ AbortReport(w)
      PROVE  AssetShows'
  <2>1. ScanOf(w) \in Scans /\ ~Fault
    BY <1>3, OwnFacts, PcKinds
    DEF AInv, AnnounceRunning, Report, AbortReport, Fault, IInv, TypeOK
  <2>2. PICK status : /\ MarkAsset(ScanOf(w), status) \/ UNCHANGED lastScan
                      /\ status \in Terminal => scan[ScanOf(w)].status = status
    <3>1. CASE AnnounceRunning(w)
      BY <2>1, <3>1 DEF AnnounceRunning, Terminal
    <3>2. CASE Report(w)
      BY <2>1, <3>2 DEF Report, AInv, ReportsVerdict
    <3>3. CASE AbortReport(w)
      BY <2>1, <3>3 DEF AbortReport, AInv, ReportsVerdict
    <3> QED
      BY <1>3, <3>1, <3>2, <3>3
  <2> QED
    BY <1>1, <1>2, <2>1, <2>2
<1>4. ASSUME NEW r \in Requests, RequestStep(r) PROVE AssetShows'
  <2>1. CASE AnnounceBatch(r)
    <3>1. BatchOf[r][1] \in Scans
      BY DEF AInv, IInv, TypeOK
    <3> QED
      BY <1>1, <2>1, <3>1 DEF AnnounceBatch, Terminal
  <2> QED
    BY <1>2, <1>4, <2>1 DEF RequestStep, StoreScan, AbandonRequest
<1>5. ASSUME NEW p \in Procs, ProcessStep(p) PROVE UNCHANGED lastScan
  BY <1>5 DEF ProcessStep, StartProcess, Shutdown, Crash, StartDrain, EndDrain
<1>6. ASSUME NEW w \in Workers, WorkerStep(w) \/ WorkerFault(w) \/ Heartbeat(w),
             ~AnnounceRunning(w), ~Report(w), ~AbortReport(w)
      PROVE  UNCHANGED lastScan
  BY <1>6
  DEF WorkerStep, WorkerFault, Claim, LeaveLoop, ClaimFails, Prepare, StartScanner,
      StartScannerFails, ScannerReturns, ScannerFails, SaveFindings,
      SaveFindingsFails, Finish, FinishFails, Fail, Abort, Heartbeat
<1> QED
  BY <1>2, <1>3, <1>4, <1>5, <1>6
  DEF Next, vars, ScanStep, LeaseExpires, LeaseLapses, GrowsOld

\* What an asset shows as the verdict of its last scan is what that scan's own
\* document says, though the two are written by separate calls and requests
\* write the asset as well (scans.service.ts:744, 1132).
THEOREM AssetsShowVerdicts ==
  ASSUME MaxLapses = 0, MaxFaults = 0 PROVE Spec => []AssetVerdictTrue
<1>1. Init => AInv
  <2> SUFFICES ASSUME Init PROVE AInv
    OBVIOUS
  <2>1. ReportsVerdict /\ AssetShows
    BY DEF Init, ReportsVerdict, AssetShows, Idle, Terminal
  <2> QED
    BY <2>1, InitInv, InitMaps DEF AInv
<1>2. AInv /\ [Next]_vars => AInv'
  <2> SUFFICES ASSUME AInv, [Next]_vars PROVE AInv'
    OBVIOUS
  <2>1. IInv' /\ TypeOK'
    BY InvKept DEF AInv, IInv
  <2>2. [Queue!Next]_(Queue!vars) /\ CrewRuns'
    BY StepMaps, JobsKeepCrewRuns DEF AInv
  <2>3. ASSUME NEW s \in Scans, scan[s].status \in Terminal
        PROVE  scan'[s].status = scan[s].status
    <3>1. JobState[s] = scan[s].status /\ JobState'[s] = scan'[s].status
      BY DEF JobState
    <3> QED
      BY <2>2, <2>3, <3>1, JobsKeepVerdicts
  <2> QED
    BY <2>1, <2>2, <2>3, ReportsKept, AssetKept DEF AInv
<1>3. AInv => AssetVerdictTrue
  BY DEF AInv, AssetShows, AssetVerdictTrue
<1> QED
  BY <1>1, <1>2, <1>3, PTL DEF Spec
=============================================================================
