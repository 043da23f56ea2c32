--------------------------- MODULE FindingWorkflow ---------------------------
(***************************************************************************)
(* The life of a stored finding: FindingsService.updateStatus, assign,     *)
(* verifyFinding and linkRisk (services/findings.service.ts) and VmExceptionsService    *)
(* (services/exceptions.service.ts) of src/src/vulnerability-management.   *)
(*                                                                         *)
(* A request reads the finding, checks it and writes it with a second      *)
(* database call; other requests come in between, and a process may die    *)
(* there.  updateStatus and assign write only if the status is still the   *)
(* one they read; the exceptions service writes whatever it finds.         *)
(***************************************************************************)
EXTENDS Naturals, Sequences

CONSTANTS
    Findings,       \* documents of vm_findings
    Exceptions,     \* ids for the documents of vm_exceptions
    Calls,          \* requests that can be in progress at the same time
    NoException, NoFinding, NoCall,
    MaxHistory      \* bound on statusHistory (the code keeps the last 100)

ASSUME FindingWorkflowAssumption ==
    /\ NoException \notin Exceptions
    /\ NoFinding \notin Findings
    /\ NoCall \notin Calls
    /\ MaxHistory \in Nat

VARIABLES
    finding,    \* [Findings -> Finding]
    exception,  \* [Exceptions -> [status, finding]]
    tasks,      \* [Findings -> SUBSET Calls]: the calls whose task exists
    call        \* [Calls -> CallState]: local variables of a request

vars == <<finding, exception, tasks, call>>

-----------------------------------------------------------------------------

Statuses == {"open", "assigned", "in_progress", "fixed", "verified",
             "false_positive", "risk_accepted", "closed"}
Active   == {"open", "assigned", "in_progress"}
Ended    == {"closed", "false_positive", "risk_accepted"}

\* TERMINAL_FINDING_STATUSES
Terminal == {"verified", "false_positive", "risk_accepted", "closed"}

\* STATUS_TRANSITIONS
Allowed(from) ==
    CASE from \in {"open", "assigned"} -> Statuses \ {from, "verified"}
      [] from = "in_progress"          -> Statuses \ {from}
      [] from = "fixed"                -> Active \cup {"verified", "closed"}
      [] from = "verified"             -> Active \cup {"closed"}
      [] from = "false_positive"       -> {"open", "closed"}
      [] from = "risk_accepted"        -> Active \cup {"closed"}
      [] from = "closed"               -> Active

\* fixedAt, verifiedAt, closedAt: whether the date is set.
\* history: metadata.statusHistory;  task: taskId;  risk: whether
\* riskRegisterId is set
Finding ==
    [status : Statuses, fixedAt : BOOLEAN, verifiedAt : BOOLEAN,
     closedAt : BOOLEAN, exception : Exceptions \cup {NoException},
     task : Calls \cup {NoCall}, risk : BOOLEAN,
     history : Seq([from : Statuses, to : Statuses])]

ExceptionDoc ==
    [status : {"absent", "requested", "approved", "rejected"},
     finding : Findings \cup {NoFinding}]

\* read: the status in the document the request has loaded
CallState ==
    [pc : {"idle", "update", "assign", "task", "linkTask", "create",
           "linkException", "release"},
     finding : Findings \cup {NoFinding}, read : Statuses, next : Statuses,
     exception : Exceptions \cup {NoException}]

IdleCall == [pc |-> "idle", finding |-> NoFinding, read |-> "open",
             next |-> "open", exception |-> NoException]

Return(c) == call' = [call EXCEPT ![c] = IdleCall]

-----------------------------------------------------------------------------
(* The updates of a finding.                                               *)

\* Mutant: reopening keeps the dates.
LifecycleKept(d, next) ==
    [d EXCEPT !.fixedAt = @ \/ next = "fixed",
              !.verifiedAt = @ \/ next = "verified",
              !.closedAt = next \in Ended]

\* applyLifecycleDates
Lifecycle(d, next) ==
    CASE next = "fixed"    -> [d EXCEPT !.fixedAt = TRUE, !.verifiedAt = FALSE,
                                        !.closedAt = FALSE]
      [] next = "verified" -> [d EXCEPT !.verifiedAt = TRUE, !.closedAt = FALSE]
      [] next \in Ended    -> [d EXCEPT !.closedAt = TRUE]
      [] next \in Active   -> [d EXCEPT !.fixedAt = FALSE, !.verifiedAt = FALSE,
                                        !.closedAt = FALSE]

Record(d, from, to) ==
    [d EXCEPT !.history = Append(@, [from |-> from, to |-> to])]

\* The $set, $unset and $push of updateStatus and of assign.
Moved(d, from, to) == Record(Lifecycle([d EXCEPT !.status = to], to), from, to)

-----------------------------------------------------------------------------
(* updateStatus and verifyFinding.                                         *)

BeginUpdate(c, f, next) ==
    /\ call[c].pc = "idle"
    /\ next = finding[f].status \/ next \in Allowed(finding[f].status)
    /\ call' = [call EXCEPT ![c] = [IdleCall EXCEPT !.pc = "update",
                    !.finding = f, !.read = finding[f].status, !.next = next]]
    /\ UNCHANGED <<finding, exception, tasks>>

\* Mutant: findOneAndUpdate without the status in its filter.
CommitUpdateBlindly(c) ==
    LET f == call[c].finding
    IN  /\ call[c].pc = "update"
        /\ Len(finding[f].history) < MaxHistory
        /\ finding' = [finding EXCEPT ![f] = Moved(@, call[c].read, call[c].next)]
        /\ Return(c)
        /\ UNCHANGED <<exception, tasks>>

\* The filter of findOneAndUpdate holds the status that was read.
CommitUpdate(c) ==
    LET f == call[c].finding
    IN  /\ call[c].pc = "update"
        /\ finding[f].status = call[c].read
        /\ Len(finding[f].history) < MaxHistory
        /\ finding' = [finding EXCEPT ![f] = Moved(@, call[c].read, call[c].next)]
        /\ Return(c)
        /\ UNCHANGED <<exception, tasks>>

\* "Finding status changed concurrently. Refresh and try again."
Conflict(c) ==
    /\ call[c].pc \in {"update", "assign"}
    /\ finding[call[c].finding].status # call[c].read
    /\ Return(c)
    /\ UNCHANGED <<finding, exception, tasks>>

-----------------------------------------------------------------------------
(* assign.                                                                 *)

BeginAssign(c, f) ==
    /\ call[c].pc = "idle"
    /\ finding[f].status \notin Terminal
    /\ call' = [call EXCEPT ![c] = [IdleCall EXCEPT !.pc = "assign",
                    !.finding = f, !.read = finding[f].status]]
    /\ UNCHANGED <<finding, exception, tasks>>

\* createTask: the caller asks for an internal task.
CommitAssign(c, createTask) ==
    LET f == call[c].finding
    IN  /\ call[c].pc = "assign"
        /\ finding[f].status = call[c].read
        /\ Len(finding[f].history) < MaxHistory
        /\ finding' = [finding EXCEPT ![f] = Moved(@, call[c].read, "assigned")]
        /\ IF createTask /\ finding[f].task = NoCall
           THEN call' = [call EXCEPT ![c].pc = "task"]
           ELSE Return(c)
        /\ UNCHANGED <<exception, tasks>>

\* Mutant: the task is linked even if its creation failed.
CreateTaskUnchecked(c) ==
    /\ call[c].pc = "task"
    /\ \/ tasks' = [tasks EXCEPT ![call[c].finding] = @ \cup {c}]
       \/ UNCHANGED tasks
    /\ call' = [call EXCEPT ![c].pc = "linkTask"]
    /\ UNCHANGED <<finding, exception>>

\* tryCreateInternalTask: its errors are logged and no task is linked.
CreateTask(c) ==
    /\ call[c].pc = "task"
    /\ \/ /\ tasks' = [tasks EXCEPT ![call[c].finding] = @ \cup {c}]
          /\ call' = [call EXCEPT ![c].pc = "linkTask"]
       \/ /\ Return(c)
          /\ UNCHANGED tasks
    /\ UNCHANGED <<finding, exception>>

\* finding.save() writes the one path that was set.
LinkTask(c) ==
    /\ call[c].pc = "linkTask"
    /\ finding' = [finding EXCEPT ![call[c].finding].task = c]
    /\ Return(c)
    /\ UNCHANGED <<exception, tasks>>

-----------------------------------------------------------------------------
(* linkRisk: one call, whatever the status.                                *)

LinkRisk(f) ==
    /\ finding' = [finding EXCEPT ![f].risk = TRUE]
    /\ UNCHANGED <<exception, tasks, call>>

-----------------------------------------------------------------------------
(* Exceptions.                                                             *)

\* Mutant: the id of the new exception is not kept.
BeginRequestForgetful(c, f, e) ==
    /\ call[c].pc = "idle"
    /\ exception[e].status = "absent"
    /\ call' = [call EXCEPT ![c] = [IdleCall EXCEPT !.pc = "create",
                    !.finding = f, !.read = finding[f].status]]
    /\ UNCHANGED <<finding, exception, tasks>>

\* Bound: an id is used by one request.
BeginRequest(c, f, e) ==
    /\ call[c].pc = "idle"
    /\ exception[e].status = "absent"
    /\ \A d \in Calls : call[d].exception # e
    /\ call' = [call EXCEPT ![c] = [IdleCall EXCEPT !.pc = "create",
                    !.finding = f, !.read = finding[f].status, !.exception = e]]
    /\ UNCHANGED <<finding, exception, tasks>>

CreateException(c) ==
    /\ call[c].pc = "create"
    /\ exception' = [exception EXCEPT ![call[c].exception] =
                        [status |-> "requested", finding |-> call[c].finding]]
    /\ call' = [call EXCEPT ![c].pc = "linkException"]
    /\ UNCHANGED <<finding, tasks>>

\* finding.save() writes the paths that differ from the loaded document, with
\* no transition check, dates or history.
LinkException(c) ==
    LET f == call[c].finding
    IN  /\ call[c].pc = "linkException"
        /\ finding' = [finding EXCEPT ![f] =
              [@ EXCEPT !.exception = call[c].exception,
                        !.status = IF call[c].read = "risk_accepted"
                                   THEN finding[f].status ELSE "risk_accepted"]]
        /\ Return(c)
        /\ UNCHANGED <<exception, tasks>>

Approve(e) ==
    /\ exception[e].status # "absent"
    /\ exception' = [exception EXCEPT ![e].status = "approved"]
    /\ UNCHANGED <<finding, tasks, call>>

BeginReject(c, e) ==
    /\ call[c].pc = "idle"
    /\ exception[e].status # "absent"
    /\ exception' = [exception EXCEPT ![e].status = "rejected"]
    /\ call' = [call EXCEPT ![c] = [IdleCall EXCEPT !.pc = "release",
                    !.finding = exception[e].finding]]
    /\ UNCHANGED <<finding, tasks>>

\* The finding is reopened whatever its status and its exception are now.
ReleaseFinding(c) ==
    /\ call[c].pc = "release"
    /\ finding' = [finding EXCEPT ![call[c].finding] =
                      [@ EXCEPT !.status = "open", !.exception = NoException]]
    /\ Return(c)
    /\ UNCHANGED <<exception, tasks>>

\* The process dies, or a database call fails, between two steps.
AbandonCall(c) ==
    /\ call[c].pc # "idle"
    /\ Return(c)
    /\ UNCHANGED <<finding, exception, tasks>>

-----------------------------------------------------------------------------

\* A finding enters the workflow open and without dates.  An uploaded manual
\* report that names another status for its rows is left out.
Init ==
    /\ finding = [f \in Findings |->
                    [status |-> "open", fixedAt |-> FALSE, verifiedAt |-> FALSE,
                     closedAt |-> FALSE, exception |-> NoException,
                     task |-> NoCall, risk |-> FALSE, history |-> << >>]]
    /\ exception = [e \in Exceptions |-> [status |-> "absent", finding |-> NoFinding]]
    /\ tasks = [f \in Findings |-> {}]
    /\ call = [c \in Calls |-> IdleCall]

CallStep(c) ==
    \/ \E f \in Findings, next \in Statuses : BeginUpdate(c, f, next)
    \/ CommitUpdate(c) \/ Conflict(c)
    \/ \E f \in Findings : BeginAssign(c, f)
    \/ \E createTask \in BOOLEAN : CommitAssign(c, createTask)
    \/ CreateTask(c) \/ LinkTask(c)
    \/ \E f \in Findings, e \in Exceptions : BeginRequest(c, f, e)
    \/ CreateException(c) \/ LinkException(c)
    \/ \E e \in Exceptions : BeginReject(c, e)
    \/ ReleaseFinding(c) \/ AbandonCall(c)

Next ==
    \/ \E c \in Calls : CallStep(c)
    \/ \E e \in Exceptions : Approve(e)
    \/ \E f \in Findings : LinkRisk(f)

Spec == Init /\ [][Next]_vars

-----------------------------------------------------------------------------
(* Properties.                                                             *)

\* Every variable holds what its declaration says; a request that writes a
\* finding or an exception knows which one.
TypeOK ==
    /\ finding \in [Findings -> Finding]
    /\ exception \in [Exceptions -> ExceptionDoc]
    /\ tasks \in [Findings -> SUBSET Calls]
    /\ call \in [Calls -> CallState]
    /\ \A c \in Calls : call[c].pc # "idle" => call[c].finding \in Findings
    /\ \A c \in Calls : call[c].pc \in {"create", "linkException"}
                           => call[c].exception \in Exceptions

\* An exception has been requested for the finding.
Excepted(f) == \E e \in Exceptions : exception[e].finding = f

\* Without exceptions, statusHistory tells the whole story: it starts at
\* "open", every entry starts where the one before ended, every entry is a
\* transition the workflow allows, and the last one is the status, however
\* requests interleave.
AuditTrail ==
    \A f \in Findings : ~Excepted(f) =>
        LET h == finding[f].history
        IN  /\ \A i \in 1 .. Len(h) :
                  /\ h[i].from = IF i = 1 THEN "open" ELSE h[i - 1].to
                  /\ h[i].to \in Allowed(h[i].from) \cup {h[i].from}
            /\ finding[f].status = IF h = << >> THEN "open" ELSE h[Len(h)].to

\* Without exceptions, a date says what the status says: only a finding that
\* is fixed, verified or closed has a fixedAt, only one that is verified or
\* closed a verifiedAt, and exactly the ended ones have a closedAt.  It takes
\* the transition table as well as applyLifecycleDates to make this true.
DatesMatchStatus ==
    \A f \in Findings : ~Excepted(f) =>
        /\ finding[f].fixedAt => finding[f].status \in {"fixed", "verified", "closed"}
        /\ finding[f].verifiedAt => finding[f].status \in {"verified", "closed"}
        /\ finding[f].closedAt <=> finding[f].status \in Ended

\* A finding names a task only if that task was created for it, and an
\* exception only if that exception was requested for it.
LinksExist ==
    \A f \in Findings :
        /\ finding[f].task # NoCall => finding[f].task \in tasks[f]
        /\ finding[f].exception # NoException
              => exception[finding[f].exception].finding = f

\* assertStatusTransition rejects a change outside STATUS_TRANSITIONS
\* ("Invalid finding status transition"): no request makes one.
TransitionsRespected ==
    [][\A f \in Findings :
          finding'[f].status # finding[f].status
             => finding'[f].status \in Allowed(finding[f].status)]_vars
=============================================================================
