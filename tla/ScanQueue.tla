------------------------------ MODULE ScanQueue ------------------------------
(***************************************************************************)
(* The persisted scan queue of ScansService                                *)
(* (src/src/vulnerability-management/services/scans.service.ts).           *)
(*                                                                         *)
(* runScan stores one document per scanner in the vm_scans collection with *)
(* status "queued".  Every Node process that runs the service polls the    *)
(* collection: a drain starts a fixed number of worker loops, a loop       *)
(* claims the oldest queued scan with one findOneAndUpdate, keeps a lease  *)
(* on it with a heartbeat timer, executes the scanner, stores the findings *)
(* and writes the verdict.  A drain (and a process start) first puts the   *)
(* running scans whose lease has expired back into the queue.              *)
(*                                                                         *)
(* Each database call is one step, since every await lets the other loops, *)
(* the timers, the request handlers and the other processes run.  Writes   *)
(* that follow one another with nothing but a progress report between them *)
(* are one step.                                                           *)
(***************************************************************************)
EXTENDS Naturals, Sequences, FiniteSets

CONSTANTS
    Procs,          \* incarnations of a Node process: each has its own workerId
    Slots,          \* names for the worker loops that may be alive in a process
    Concurrency,    \* VM_SCAN_QUEUE_CONCURRENCY: loops started by one drain
    Scans,          \* the documents of vm_scans
    Assets,         \* the documents of vm_assets
    Requests,       \* the calls of POST scans/run
    BatchOf,        \* BatchOf[r]: the scans request r stores, in order
    AssetOf,        \* AssetOf[s]: the asset scan s targets
    KindOf,         \* KindOf[s]: the branch of processClaimedScan that runs s
    NoProc,         \* an absent rawSummary.workerId
    NoScan,         \* an absent scan reference
    MaxLapses,      \* bound: leases that expire although a live loop renews them
    MaxFaults       \* bound: database calls that fail

Kinds == {"executable", "securenow", "manual"}

ASSUME ScanQueueAssumption ==
    /\ IsFiniteSet(Procs) /\ IsFiniteSet(Slots)
    /\ Concurrency \in Nat \ {0}
    /\ BatchOf \in [Requests -> Seq(Scans)]
    /\ \A r \in Requests : BatchOf[r] # << >>
    /\ AssetOf \in [Scans -> Assets]
    /\ KindOf \in [Scans -> Kinds]
    /\ NoProc \notin Procs
    /\ NoScan \notin Scans
    /\ MaxLapses \in Nat
    /\ MaxFaults \in Nat

VARIABLES
    scan,       \* [Scans -> ScanDoc]: the vm_scans collection
    created,    \* how many scans have been stored: the clock behind createdAt
    batches,    \* [Scans -> Nat]: how often the findings of a scan were inserted
    lastScan,   \* [Assets -> ...]: lastScanId and lastScanStatus of an asset
    request,    \* [Requests -> ...]: progress of each runScan call
    life,       \* [Procs -> ...]: what became of each process incarnation
    drain,      \* [Procs -> SUBSET Slots]: loops queueDrainPromise waits for
    worker,     \* [Workers -> ...]: the worker loops, memory of their process
    lapses,     \* how many leases have lapsed
    faults      \* how many database calls have failed

vars == <<scan, created, batches, lastScan, request, life, drain, worker,
          lapses, faults>>

-----------------------------------------------------------------------------
(* Documents and memory.                                                   *)

Workers == Procs \X Slots
ProcOf(w) == w[1]

Statuses  == {"absent", "queued", "running", "completed", "failed"}
Terminal  == {"completed", "failed"}

\* started: startedAt is unset, recent, or older than VM_SCAN_STALE_AFTER_MS.
\* lease: leaseExpiresAt is unset, in the future, or in the past.
ScanDoc ==
    [status    : Statuses,
     progress  : {0, 1, 20, 88, 100},
     started   : {"unset", "recent", "old"},
     owner     : Procs \cup {NoProc},
     lease     : {"unset", "live", "expired"},
     attempt   : Nat,
     createdAt : Nat]

\* A loop that is not alive, or alive and about to claim, holds no scan.
\* claimed: the asset is marked running before the heartbeat starts
\* prepare, start, run, save, finish: the phases of processClaimedScan
\* fail: the catch block of execute*Scanner;  report: the asset's final update
\* abort, abortReport: the catch block of queueWorkerLoop
HeldPcs   == {"claimed", "prepare", "start", "run", "save", "finish", "fail"}
AttachedPcs == HeldPcs \cup {"abort", "report", "abortReport"}
Pcs       == AttachedPcs \cup {"off", "claim"}

\* attempt: rawSummary.attempt in the document the claim returned, which the
\* loop keeps using as its picture of the scan
WorkerState ==
    [pc : Pcs, scan : Scans \cup {NoScan}, attempt : Nat,
     verdict : Terminal \cup {"none"}]

Idle     == [pc |-> "off",   scan |-> NoScan, attempt |-> 0, verdict |-> "none"]
Claiming == [pc |-> "claim", scan |-> NoScan, attempt |-> 0, verdict |-> "none"]

Attached(w) == worker[w].pc \in AttachedPcs
ScanOf(w)   == worker[w].scan
Executing(w) == worker[w].pc \in HeldPcs \cup {"abort"}

\* startLeaseHeartbeat .. stopHeartbeat
Heartbeating(w) == Attached(w) /\ worker[w].pc # "claimed"

Goto(w, pc) == worker' = [worker EXCEPT ![w].pc = pc]
Conclude(w, pc, verdict) ==
    worker' = [worker EXCEPT ![w].pc = pc, ![w].verdict = verdict]
Release(w) == worker' = [worker EXCEPT ![w] = Claiming]

Fault   == faults < MaxFaults /\ faults' = faults + 1
NoFault == UNCHANGED faults

-----------------------------------------------------------------------------
(* The updates applied to a scan document: $set and $unset of each call.   *)

Stored(d, now) ==
    [d EXCEPT !.status = "queued", !.progress = 0, !.createdAt = now]

\* Mutant: the claim does not count the attempt.
ClaimedUncounted(d, p) ==
    [d EXCEPT !.status = "running", !.progress = 1, !.started = "recent",
              !.owner = p, !.lease = "live"]

Claimed(d, p) ==
    [d EXCEPT !.status = "running", !.progress = 1, !.started = "recent",
              !.owner = p, !.lease = "live", !.attempt = @ + 1]

\* Mutant: the lease fields are not unset.
RecoveredWithLease(d) ==
    [d EXCEPT !.status = "queued", !.progress = 0, !.started = "unset"]

Recovered(d) ==
    [d EXCEPT !.status = "queued", !.progress = 0, !.started = "unset",
              !.owner = NoProc, !.lease = "unset"]

\* Mutant: the start writes a rawSummary without its lease fields.
StartedWithoutLease(d, w) ==
    [d EXCEPT !.status = "running", !.progress = 20, !.started = "recent",
              !.owner = NoProc, !.lease = "unset"]

\* executeRepositoryScanner and executeDirectScanner leave rawSummary's lease
\* alone; executeSecureNowScanner writes back the rawSummary it was claimed
\* with, lease and worker id included.
Started(d, w) ==
    IF KindOf[ScanOf(w)] = "securenow"
    THEN [d EXCEPT !.status = "running", !.progress = 20, !.started = "recent",
                   !.owner = ProcOf(w), !.lease = "live",
                   !.attempt = worker[w].attempt]
    ELSE [d EXCEPT !.status = "running", !.progress = 20, !.started = "recent"]

\* rawSummary is replaced by the one of the claim without its lease fields.
Completed(d, w) ==
    [d EXCEPT !.status = "completed", !.progress = 100,
              !.started = IF KindOf[ScanOf(w)] = "manual" THEN "recent" ELSE @,
              !.owner = NoProc, !.lease = "unset",
              !.attempt = worker[w].attempt]

Failed(d) ==
    [d EXCEPT !.status = "failed", !.progress = 100,
              !.owner = NoProc, !.lease = "unset"]

\* Mutants: every running scan, only expired leases, failed scans as well.
StaleRunning(d) == d.status = "running"
StaleExpired(d) == d.status = "running" /\ d.lease = "expired"
StaleOrFailed(d) ==
    \/ d.status = "running" /\ d.lease = "expired"
    \/ d.status = "failed"

\* The filter of recoverStaleScanJobs.
Stale(d) ==
    /\ d.status = "running"
    /\ \/ d.lease = "expired"
       \/ d.lease = "unset" /\ d.started \in {"old", "unset"}

RecoverAll == [s \in Scans |-> IF Stale(scan[s]) THEN Recovered(scan[s])
                                                 ELSE scan[s]]

Queued == {s \in Scans : scan[s].status = "queued"}
Oldest(s) == s \in Queued /\ \A t \in Queued :
                                scan[s].createdAt =< scan[t].createdAt

\* updateLastScanForTenant: the last writer wins.
MarkAsset(s, status) ==
    lastScan' = [lastScan EXCEPT ![AssetOf[s]] = [scan |-> s, status |-> status]]

-----------------------------------------------------------------------------
(* runScan: one create per scanner, then the asset, no transaction.        *)

StoreScan(r) ==
    LET s == BatchOf[r][request[r].stored + 1]
    IN  /\ request[r].pc = "storing"
        /\ request[r].stored < Len(BatchOf[r])
        /\ scan[s].status = "absent"
        /\ scan' = [scan EXCEPT ![s] = Stored(@, created + 1)]
        /\ created' = created + 1
        /\ request' = [request EXCEPT ![r].stored = @ + 1]
        /\ UNCHANGED <<batches, lastScan, life, drain, worker, lapses, faults>>

\* The asset is told "queued" with the first scan of the batch, whatever the
\* workers have already done with that scan.
AnnounceBatch(r) ==
    /\ request[r].pc = "storing"
    /\ request[r].stored = Len(BatchOf[r])
    /\ MarkAsset(BatchOf[r][1], "queued")
    /\ request' = [request EXCEPT ![r].pc = "done"]
    /\ UNCHANGED <<scan, created, batches, life, drain, worker, lapses, faults>>

\* A create fails or the process dies: the scans stored so far stay queued.
AbandonRequest(r) ==
    /\ request[r].pc = "storing"
    /\ request' = [request EXCEPT ![r].pc = "failed"]
    /\ UNCHANGED <<scan, created, batches, lastScan, life, drain, worker,
                   lapses, faults>>

-----------------------------------------------------------------------------
(* Process life cycle and the drain.                                       *)

\* onModuleInit: recovery whatever the interval; the poll timer is now armed.
StartProcess(p) ==
    /\ life[p] = "down"
    /\ life' = [life EXCEPT ![p] = "up"]
    /\ scan' = RecoverAll
    /\ UNCHANGED <<created, batches, lastScan, request, drain, worker,
                   lapses, faults>>

Survivor(p) == \E q \in Procs \ {p} : life[q] \in {"down", "up"}

\* onModuleDestroy: loops stop at their next turn, no new drain.  Bound: an
\* incarnation that can serve the queue is always left.
Shutdown(p) ==
    /\ life[p] = "up"
    /\ Survivor(p)
    /\ life' = [life EXCEPT ![p] = "stopping"]
    /\ UNCHANGED <<scan, created, batches, lastScan, request, drain, worker,
                   lapses, faults>>

\* The process dies, or exits after a shutdown, wherever its loops are.
Crash(p) ==
    /\ life[p] \in {"up", "stopping"}
    /\ Survivor(p)
    /\ life' = [life EXCEPT ![p] = "dead"]
    /\ drain' = [drain EXCEPT ![p] = {}]
    /\ worker' = [w \in Workers |-> IF ProcOf(w) = p THEN Idle ELSE worker[w]]
    /\ UNCHANGED <<scan, created, batches, lastScan, request, lapses, faults>>

\* Mutant: queueDrainPromise is not looked at.
StartDrainAgain(p, recover) ==
    /\ life[p] = "up"
    /\ \E K \in SUBSET {k \in Slots : worker[<<p, k>>].pc = "off"} :
          /\ Cardinality(K) = Concurrency
          /\ drain' = [drain EXCEPT ![p] = K]
          /\ worker' = [w \in Workers |-> IF w[1] = p /\ w[2] \in K
                                          THEN Claiming ELSE worker[w]]
    /\ scan' = IF recover THEN RecoverAll ELSE scan
    /\ UNCHANGED <<created, batches, lastScan, request, life, lapses, faults>>

\* requestQueueDrain and drainQueuedScans, from the poll timer or from runScan.
\* recover: the recovery interval has passed since this process last recovered.
\* Bound: loops of an earlier drain may still occupy slots.
StartDrain(p, recover) ==
    /\ life[p] = "up"
    /\ drain[p] = {}
    /\ \E K \in SUBSET {k \in Slots : worker[<<p, k>>].pc = "off"} :
          /\ Cardinality(K) = Concurrency
          /\ drain' = [drain EXCEPT ![p] = K]
          /\ worker' = [w \in Workers |-> IF w[1] = p /\ w[2] \in K
                                          THEN Claiming ELSE worker[w]]
    /\ scan' = IF recover THEN RecoverAll ELSE scan
    /\ UNCHANGED <<created, batches, lastScan, request, life, lapses, faults>>

\* Promise.all settles when every loop of the drain has returned.
EndDrain(p) ==
    /\ drain[p] # {}
    /\ \A k \in drain[p] : worker[<<p, k>>].pc = "off"
    /\ drain' = [drain EXCEPT ![p] = {}]
    /\ UNCHANGED <<scan, created, batches, lastScan, request, life, worker,
                   lapses, faults>>

-----------------------------------------------------------------------------
(* One worker loop.                                                        *)

\* claimNextQueuedScan
Claim(w) ==
    /\ worker[w].pc = "claim"
    /\ life[ProcOf(w)] = "up"
    /\ \E s \in Scans :
          /\ Oldest(s)
          /\ scan' = [scan EXCEPT ![s] = Claimed(@, ProcOf(w))]
          /\ worker' = [worker EXCEPT ![w] =
                          [pc |-> "claimed", scan |-> s,
                           attempt |-> scan[s].attempt + 1, verdict |-> "none"]]
    /\ UNCHANGED <<created, batches, lastScan, request, life, drain,
                   lapses, faults>>

\* The queue is empty, or the process is shutting down.
LeaveLoop(w) ==
    /\ worker[w].pc = "claim"
    /\ Queued = {} \/ life[ProcOf(w)] = "stopping"
    /\ worker' = [worker EXCEPT ![w] = Idle]
    /\ UNCHANGED <<scan, created, batches, lastScan, request, life, drain,
                   lapses, faults>>

\* The claim throws: this loop ends, Promise.all rejects, and the drain is
\* over although its other loops go on.
ClaimFails(w) ==
    /\ worker[w].pc = "claim"
    /\ Fault
    /\ worker' = [worker EXCEPT ![w] = Idle]
    /\ drain' = [drain EXCEPT ![ProcOf(w)] = IF w[2] \in @ THEN {} ELSE @]
    /\ UNCHANGED <<scan, created, batches, lastScan, request, life, lapses>>

\* The asset is marked running, an error being only logged; the heartbeat
\* timer starts.
AnnounceRunning(w) ==
    /\ worker[w].pc = "claimed"
    /\ \/ NoFault /\ MarkAsset(ScanOf(w), "running")
       \/ Fault /\ UNCHANGED lastScan
    /\ Goto(w, "prepare")
    /\ UNCHANGED <<scan, created, batches, request, life, drain, lapses>>

\* processClaimedScan up to the scanner: asset, target, token, clone.
Prepare(w) ==
    /\ worker[w].pc = "prepare"
    /\ \/ KindOf[ScanOf(w)] = "manual" /\ Goto(w, "finish")
       \/ KindOf[ScanOf(w)] # "manual" /\ Goto(w, "start")
       \/ Goto(w, "abort")
    /\ UNCHANGED <<scan, created, batches, lastScan, request, life, drain,
                   lapses, faults>>

\* The document is set running whoever owns it now.
StartScanner(w) ==
    /\ worker[w].pc = "start"
    /\ scan' = [scan EXCEPT ![ScanOf(w)] = Started(@, w)]
    /\ Goto(w, "run")
    /\ UNCHANGED <<created, batches, lastScan, request, life, drain,
                   lapses, faults>>

StartScannerFails(w) ==
    /\ worker[w].pc = "start"
    /\ Fault
    /\ Goto(w, "abort")
    /\ UNCHANGED <<scan, created, batches, lastScan, request, life, drain, lapses>>

\* The scanner returns; artifacts are moved, the report is parsed.
ScannerReturns(w) ==
    /\ worker[w].pc = "run"
    /\ scan' = [scan EXCEPT ![ScanOf(w)].progress = 88]
    /\ Goto(w, "save")
    /\ UNCHANGED <<created, batches, lastScan, request, life, drain,
                   lapses, faults>>

\* The scanner exits badly or is killed at its timeout.
ScannerFails(w) ==
    /\ worker[w].pc = "run"
    /\ Goto(w, "fail")
    /\ UNCHANGED <<scan, created, batches, lastScan, request, life, drain,
                   lapses, faults>>

\* Where an error raised while finalizing lands: finalizeExecutableScan is
\* returned without await, so the catch of execute*Scanner does not see it.
FinalizeHandler(w) == IF KindOf[ScanOf(w)] = "securenow" THEN "fail" ELSE "abort"

SaveFindings(w) ==
    /\ worker[w].pc = "save"
    /\ batches' = [batches EXCEPT ![ScanOf(w)] = @ + 1]
    /\ Goto(w, "finish")
    /\ UNCHANGED <<scan, created, lastScan, request, life, drain, lapses, faults>>

\* Mutant: the error is swallowed.
SaveFindingsGoesOn(w) ==
    /\ worker[w].pc = "save"
    /\ UNCHANGED batches
    /\ Goto(w, "finish")
    /\ UNCHANGED <<scan, created, lastScan, request, life, drain, lapses, faults>>

\* Artifacts cannot be stored or the report cannot be parsed: nothing is
\* inserted.  insertMany with ordered:false fails: the valid rows are stored.
SaveFindingsFails(w) ==
    /\ worker[w].pc = "save"
    /\ \/ NoFault /\ UNCHANGED batches
       \/ Fault /\ batches' = [batches EXCEPT ![ScanOf(w)] = @ + 1]
    /\ Goto(w, FinalizeHandler(w))
    /\ UNCHANGED <<scan, created, lastScan, request, life, drain, lapses>>

Finish(w) ==
    /\ worker[w].pc = "finish"
    /\ scan' = [scan EXCEPT ![ScanOf(w)] = Completed(@, w)]
    /\ Conclude(w, "report", "completed")
    /\ UNCHANGED <<created, batches, lastScan, request, life, drain,
                   lapses, faults>>

FinishFails(w) ==
    /\ worker[w].pc = "finish"
    /\ Fault
    /\ Goto(w, FinalizeHandler(w))
    /\ UNCHANGED <<scan, created, batches, lastScan, request, life, drain, lapses>>

\* Mutant: no verdict is passed on to the asset's update.
FailWithoutVerdict(w) ==
    /\ worker[w].pc = "fail"
    /\ NoFault
    /\ scan' = [scan EXCEPT ![ScanOf(w)] = Failed(@)]
    /\ Goto(w, "report")
    /\ UNCHANGED <<created, batches, lastScan, request, life, drain, lapses>>

\* markScanFailed in the catch of execute*Scanner; its own failure reaches the
\* catch of the loop.
Fail(w) ==
    /\ worker[w].pc = "fail"
    /\ \/ /\ NoFault
          /\ scan' = [scan EXCEPT ![ScanOf(w)] = Failed(@)]
          /\ Conclude(w, "report", "failed")
       \/ /\ Fault
          /\ Goto(w, "abort")
          /\ UNCHANGED scan
    /\ UNCHANGED <<created, batches, lastScan, request, life, drain, lapses>>

\* Mutant: the asset is told of a success, whatever the verdict.
ReportSuccess(w) ==
    /\ worker[w].pc = "report"
    /\ NoFault
    /\ MarkAsset(ScanOf(w), "completed")
    /\ Release(w)
    /\ UNCHANGED <<scan, created, batches, request, life, drain, lapses>>

\* The asset's verdict; not caught here, so a failing update lands in the
\* catch of the loop, which marks the finished scan failed.
Report(w) ==
    /\ worker[w].pc = "report"
    /\ \/ /\ NoFault
          /\ MarkAsset(ScanOf(w), worker[w].verdict)
          /\ Release(w)
       \/ /\ Fault
          /\ Goto(w, "abort")
          /\ UNCHANGED lastScan
    /\ UNCHANGED <<scan, created, batches, request, life, drain, lapses>>

\* The catch of queueWorkerLoop: markScanFailed, an error being only logged.
Abort(w) ==
    /\ worker[w].pc = "abort"
    /\ \/ NoFault /\ scan' = [scan EXCEPT ![ScanOf(w)] = Failed(@)]
       \/ Fault /\ UNCHANGED scan
    /\ Goto(w, "abortReport")
    /\ UNCHANGED <<created, batches, lastScan, request, life, drain, lapses>>

\* ... then the asset, an error being only logged; the heartbeat stops.
AbortReport(w) ==
    /\ worker[w].pc = "abortReport"
    /\ \/ NoFault /\ MarkAsset(ScanOf(w), "failed")
       \/ Fault /\ UNCHANGED lastScan
    /\ Release(w)
    /\ UNCHANGED <<scan, created, batches, request, life, drain, lapses>>

-----------------------------------------------------------------------------
(* Leases and time.                                                        *)

\* A loop of the owner works on the scan, so the timer renews the lease.
Renewed(s) ==
    \E w \in Workers : /\ Attached(w)
                       /\ ScanOf(w) = s
                       /\ ProcOf(w) = scan[s].owner

\* Time passes and nobody renews the lease.
LeaseExpires(s) ==
    /\ scan[s].status = "running"
    /\ scan[s].lease = "live"
    /\ ~Renewed(s)
    /\ scan' = [scan EXCEPT ![s].lease = "expired"]
    /\ UNCHANGED <<created, batches, lastScan, request, life, drain, worker,
                   lapses, faults>>

\* A blocked event loop or an unreachable database delays the heartbeat of a
\* live loop beyond the lease.
LeaseLapses(s) ==
    /\ scan[s].status = "running"
    /\ scan[s].lease = "live"
    /\ Renewed(s)
    /\ lapses < MaxLapses
    /\ lapses' = lapses + 1
    /\ scan' = [scan EXCEPT ![s].lease = "expired"]
    /\ UNCHANGED <<created, batches, lastScan, request, life, drain, worker,
                   faults>>

\* The heartbeat's update: it matches the document while it is running and
\* carries this process's worker id.
Heartbeat(w) ==
    LET s == ScanOf(w)
    IN  /\ Heartbeating(w)
        /\ scan[s].status = "running"
        /\ scan[s].owner = ProcOf(w)
        /\ scan[s].lease = "expired"
        /\ scan' = [scan EXCEPT ![s].lease = "live"]
        /\ UNCHANGED <<created, batches, lastScan, request, life, drain, worker,
                       lapses, faults>>

\* VM_SCAN_STALE_AFTER_MS (45 minutes) passes for a running scan without a
\* lease.  By then no loop is left on it: a clone is killed after 5 minutes, a
\* scanner after at most 35 (getScannerTimeoutMs), and a document in this state
\* cannot be claimed.
GrowsOld(s) ==
    /\ \A w \in Workers : ~(Attached(w) /\ ScanOf(w) = s)
    /\ scan[s].status = "running"
    /\ scan[s].lease = "unset"
    /\ scan[s].started = "recent"
    /\ scan' = [scan EXCEPT ![s].started = "old"]
    /\ UNCHANGED <<created, batches, lastScan, request, life, drain, worker,
                   lapses, faults>>

-----------------------------------------------------------------------------

Init ==
    /\ scan = [s \in Scans |->
                 [status |-> "absent", progress |-> 0, started |-> "unset",
                  owner |-> NoProc, lease |-> "unset", attempt |-> 0,
                  createdAt |-> 0]]
    /\ created = 0
    /\ batches = [s \in Scans |-> 0]
    /\ lastScan = [a \in Assets |-> [scan |-> NoScan, status |-> "unset"]]
    /\ request = [r \in Requests |-> [pc |-> "storing", stored |-> 0]]
    /\ life = [p \in Procs |-> "down"]
    /\ drain = [p \in Procs |-> {}]
    /\ worker = [w \in Workers |-> Idle]
    /\ lapses = 0
    /\ faults = 0

RequestStep(r) == StoreScan(r) \/ AnnounceBatch(r) \/ AbandonRequest(r)

\* What the event loop and the scanner's timeout bring about by themselves.
WorkerStep(w) ==
    \/ Claim(w) \/ LeaveLoop(w)
    \/ AnnounceRunning(w) \/ Prepare(w) \/ StartScanner(w)
    \/ ScannerReturns(w) \/ ScannerFails(w)
    \/ SaveFindings(w) \/ SaveFindingsFails(w)
    \/ Finish(w) \/ Fail(w) \/ Report(w) \/ Abort(w) \/ AbortReport(w)

WorkerFault(w) == ClaimFails(w) \/ StartScannerFails(w) \/ FinishFails(w)

ProcessStep(p) ==
    \/ StartProcess(p) \/ Shutdown(p) \/ Crash(p)
    \/ \E recover \in BOOLEAN : StartDrain(p, recover)
    \/ EndDrain(p)

ScanStep(s) == LeaseExpires(s) \/ LeaseLapses(s) \/ GrowsOld(s)

Next ==
    \/ \E r \in Requests : RequestStep(r)
    \/ \E p \in Procs : ProcessStep(p)
    \/ \E w \in Workers : WorkerStep(w) \/ WorkerFault(w) \/ Heartbeat(w)
    \/ \E s \in Scans : ScanStep(s)

Spec == Init /\ [][Next]_vars

(***************************************************************************)
(* Fairness.  A loop's next step comes: database calls return and every    *)
(* scanner is killed at its timeout.  The poll timer fires and, the        *)
(* recovery interval being a constant, drains that recover keep coming     *)
(* (strong fairness, for drains without recovery come in between).  Time   *)
(* passes.  Nothing forces a request, a crash, a shutdown, a fault, a      *)
(* lapse or a late heartbeat.                                              *)
(***************************************************************************)
Fairness ==
    /\ \A w \in Workers : WF_vars(WorkerStep(w))
    /\ \A p \in Procs : /\ WF_vars(StartProcess(p))
                        /\ SF_vars(StartDrain(p, TRUE))
                        /\ WF_vars(EndDrain(p))
    /\ \A s \in Scans : WF_vars(LeaseExpires(s)) /\ WF_vars(GrowsOld(s))

FairSpec == Spec /\ Fairness

-----------------------------------------------------------------------------
(* Properties.                                                             *)

\* An attached loop has a scan, a reporting one a verdict.
WorkersOK ==
    /\ worker \in [Workers -> WorkerState]
    /\ \A w \in Workers : Attached(w) => ScanOf(w) \in Scans
    /\ \A w \in Workers : worker[w].pc = "report" => worker[w].verdict \in Terminal

\* Every variable holds the documents and the memory described above.
TypeOK ==
    /\ scan \in [Scans -> ScanDoc]
    /\ created \in Nat
    /\ batches \in [Scans -> Nat]
    /\ lastScan \in [Assets -> [scan : Scans \cup {NoScan},
                              status : Statuses \cup {"unset"}]]
    /\ request \in [Requests -> [pc : {"storing", "done", "failed"}, stored : Nat]]
    /\ life \in [Procs -> {"down", "up", "stopping", "dead"}]
    /\ drain \in [Procs -> SUBSET Slots]
    /\ WorkersOK
    /\ lapses \in Nat
    /\ faults \in Nat

\* A scan is worked on by at most one loop over all processes, from its claim
\* to its last write, through crashes, recoveries and failing database calls.
\* It is the lease that keeps executors apart: no write of an executor checks
\* the worker id, so this is promised only while leases are renewed in time.
SingleExecutor ==
    \A v, w \in Workers : Attached(v) /\ Attached(w) /\ ScanOf(v) = ScanOf(w)
                              => v = w

LeasedTo(d, p, attempt) ==
    /\ d.status = "running" /\ d.owner = p /\ d.lease = "live"
    /\ d.attempt = attempt

\* A loop that has not yet concluded works on a document that is running and
\* leased to its process, in the attempt it was claimed for: recovery never
\* takes a scan from a live loop.
ExecutorHoldsLease ==
    \A w \in Workers : worker[w].pc \in HeldPcs
                          => LeasedTo(scan[ScanOf(w)], ProcOf(w), worker[w].attempt)

Consistent(d) ==
    /\ d.status \in {"absent", "queued"} =>
          /\ d.owner = NoProc /\ d.lease = "unset"
          /\ d.started = "unset" /\ d.progress = 0
    /\ d.status \in Terminal =>
          /\ d.owner = NoProc /\ d.lease = "unset" /\ d.progress = 100
    /\ d.status = "running" =>
          /\ d.owner \in Procs /\ d.lease # "unset"

\* A scan that waits in the queue carries nothing of an earlier attempt, and a
\* finished one no lease: what getScanStatus reports and what the indexes of
\* vulnerability-scan.schema.ts select agree with the status.
StatusMatchesLease == \A s \in Scans : Consistent(scan[s])

\* Findings of a scan are inserted at most once per attempt, so a scan that
\* was never recovered has them once.
OneBatchPerAttempt == \A s \in Scans : batches[s] =< scan[s].attempt

\* A scan is never completed without its findings having been stored.
CompletedHasFindings ==
    \A s \in Scans : scan[s].status = "completed" /\ KindOf[s] # "manual"
                          => batches[s] >= 1

\* The asset's verdict is the verdict of the scan it names.
AssetVerdictTrue ==
    \A a \in Assets : lastScan[a].status \in Terminal
                          => scan[lastScan[a].scan].status = lastScan[a].status

\* The loops alive in a process: a drain starts Concurrency of them and is not
\* restarted before it is over.  A failing claim ends the drain but not its
\* other loops, which then run beside those of the next drain.
LoopsBounded ==
    \A p \in Procs : Cardinality({k \in Slots : worker[<<p, k>>].pc # "off"})
                         =< Concurrency + (Concurrency - 1) * faults

\* A verdict is final: a finished scan is never run again nor relabelled.
VerdictIsFinal ==
    [][\A s \in Scans : scan[s].status \in Terminal
                           => scan'[s].status = scan[s].status]_vars

\* A running scan under an unexpired lease stays with its owner until its
\* verdict.  (executeSecureNowScanner can break it: see the README.)
LiveLeaseKept ==
    [][\A s \in Scans : scan[s].status = "running" /\ scan[s].lease = "live"
          => \/ scan'[s].status \in Terminal
             \/ scan'[s].status = "running" /\ scan'[s].owner = scan[s].owner]_vars

\* Every stored scan gets a verdict and keeps it, whatever crashes, faults and
\* lapses happened on the way.
EveryScanSettles ==
    \A s \in Scans : scan[s].status # "absent"
                          ~> [](scan[s].status \in Terminal)
=============================================================================
