------------------------ MODULE FindingWorkflow_proofs ------------------------
(***************************************************************************)
(* What holds of FindingWorkflow for any number of findings, exceptions    *)
(* and concurrent requests.                                                *)
(***************************************************************************)
EXTENDS FindingWorkflow, TLAPS

\* An exception gets its finding when it is created, once.
ExceptionsBound ==
    /\ \A e \in Exceptions :
          exception[e].status = "absent" <=> exception[e].finding = NoFinding
    /\ \A c \in Calls : call[c].pc = "create"
          => exception[call[c].exception].status = "absent"
    /\ \A c, d \in Calls : call[c].exception = call[d].exception
          => c = d \/ call[c].exception = NoException

\* What request c has checked or done before its next write.
Justified(c) ==
    /\ call[c].pc = "update"
          => call[c].next \in Allowed(call[c].read) \cup {call[c].read}
    /\ call[c].pc = "assign" => call[c].read \notin Terminal
    /\ call[c].pc = "linkTask" => c \in tasks[call[c].finding]
    /\ call[c].pc = "linkException"
          => exception[call[c].exception].finding = call[c].finding
    /\ call[c].pc = "release" => Excepted(call[c].finding)

Types == TypeOK /\ ExceptionsBound
IInv == Types /\ \A c \in Calls : Justified(c)

\* The transition table stays inside the statuses.
LEMMA AllowedStatuses ==
    ASSUME NEW s \in Statuses
    PROVE  Allowed(s) \in SUBSET Statuses
  BY DEF Allowed, Statuses, Active

\* A recorded change keeps the type of a finding and sets its status.
LEMMA MovedFinding ==
    ASSUME NEW d \in Finding, NEW from \in Statuses, NEW to \in Statuses
    PROVE  /\ Moved(d, from, to) \in Finding
           /\ Moved(d, from, to).status = to
           /\ Moved(d, from, to).exception = d.exception
           /\ Moved(d, from, to).task = d.task
           /\ Moved(d, from, to).history
                 = Append(d.history, [from |-> from, to |-> to])
<1> DEFINE s == [d EXCEPT !.status = to]
           l == Lifecycle(s, to)
<1>1. s \in Finding /\ s.status = to /\ s.exception = d.exception
         /\ s.task = d.task /\ s.history = d.history
  BY DEF Finding
<1>2. l \in Finding /\ l.status = to /\ l.exception = d.exception
         /\ l.task = d.task /\ l.history = d.history
  BY <1>1 DEF Lifecycle, Finding, Statuses, Active, Ended
<1>3. [from |-> from, to |-> to] \in [from : Statuses, to : Statuses]
  OBVIOUS
<1>4. Moved(d, from, to) = [l EXCEPT !.history = Append(@, [from |-> from, to |-> to])]
  BY DEF Moved, Record
<1> HIDE DEF l
<1>5. l.history \in Seq([from : Statuses, to : Statuses])
  BY <1>2 DEF Finding
<1>6. Append(l.history, [from |-> from, to |-> to])
         \in Seq([from : Statuses, to : Statuses])
  BY <1>3, <1>5
<1>7. QED
  BY <1>2, <1>4, <1>6 DEF Finding

-----------------------------------------------------------------------------
(* Types.                                                                  *)

\* The initial state satisfies the invariant.
LEMMA InitTypes == Init => IInv
<1> USE FindingWorkflowAssumption
<1>1. << >> \in Seq([from : Statuses, to : Statuses])
  OBVIOUS
<1>2. Init => TypeOK
  BY <1>1 DEF Init, TypeOK, Finding, ExceptionDoc, CallState, IdleCall, Statuses
<1>3. Init => ExceptionsBound /\ \A c \in Calls : Justified(c)
  BY DEF Init, ExceptionsBound, Justified, IdleCall
<1>4. QED
  BY <1>2, <1>3 DEF IInv, Types

\* A request that returns leaves a well-typed idle call.
LEMMA ReturnTypes ==
    ASSUME TypeOK, NEW c \in Calls, Return(c)
    PROVE  /\ call' \in [Calls -> CallState]
           /\ call'[c].pc = "idle" /\ call'[c].exception = NoException
           /\ \A d \in Calls : d # c => call'[d] = call[d]
  BY FindingWorkflowAssumption DEF TypeOK, Return, IdleCall, CallState, Statuses

\* Every step keeps the types, and an exception keeps its finding.
LEMMA TypesKept == Types /\ [Next]_vars => Types'
<1> SUFFICES ASSUME Types, [Next]_vars PROVE Types'
  OBVIOUS
<1> USE FindingWorkflowAssumption DEF Types
<1>1. ASSUME NEW c \in Calls, NEW f \in Findings, NEW next \in Statuses,
             BeginUpdate(c, f, next)
      PROVE  Types'
  BY <1>1 DEF BeginUpdate, IdleCall, TypeOK, ExceptionsBound, CallState,
              Finding, Statuses
<1>2. ASSUME NEW c \in Calls, CommitUpdate(c)
      PROVE  Types'
  <2>1. call[c].finding \in Findings /\ call[c].read \in Statuses
           /\ call[c].next \in Statuses
    BY <1>2 DEF CommitUpdate, TypeOK, CallState
  <2>2. finding' \in [Findings -> Finding]
    BY <1>2, <2>1, MovedFinding DEF CommitUpdate, TypeOK
  <2>3. QED
    BY <1>2, <2>2, ReturnTypes DEF CommitUpdate, TypeOK, ExceptionsBound
<1>3. ASSUME NEW c \in Calls, Conflict(c)
      PROVE  Types'
  BY <1>3, ReturnTypes DEF Conflict, TypeOK, ExceptionsBound
<1>4. ASSUME NEW c \in Calls, NEW f \in Findings, BeginAssign(c, f)
      PROVE  Types'
  BY <1>4 DEF BeginAssign, IdleCall, TypeOK, ExceptionsBound, CallState,
              Finding, Statuses
<1>5. ASSUME NEW c \in Calls, NEW createTask \in BOOLEAN,
             CommitAssign(c, createTask)
      PROVE  Types'
  <2>1. call[c].finding \in Findings /\ call[c].read \in Statuses
           /\ "assigned" \in Statuses
    BY <1>5 DEF CommitAssign, TypeOK, CallState, Statuses
  <2>2. finding' \in [Findings -> Finding]
    BY <1>5, <2>1, MovedFinding DEF CommitAssign, TypeOK
  <2>3. CASE Return(c)
    BY <1>5, <2>2, <2>3, ReturnTypes DEF CommitAssign, TypeOK, ExceptionsBound
  <2>4. CASE call' = [call EXCEPT ![c].pc = "task"]
    BY <1>5, <2>2, <2>4 DEF CommitAssign, TypeOK, ExceptionsBound, CallState
  <2>5. QED
    BY <1>5, <2>3, <2>4 DEF CommitAssign
<1>6. ASSUME NEW c \in Calls, CreateTask(c)
      PROVE  Types'
  <2>1. tasks' \in [Findings -> SUBSET Calls]
    BY <1>6 DEF CreateTask, TypeOK
  <2>2. CASE Return(c)
    BY <1>6, <2>1, <2>2, ReturnTypes DEF CreateTask, TypeOK, ExceptionsBound
  <2>3. CASE call' = [call EXCEPT ![c].pc = "linkTask"]
    BY <1>6, <2>1, <2>3 DEF CreateTask, TypeOK, ExceptionsBound, CallState
  <2>4. QED
    BY <1>6, <2>2, <2>3 DEF CreateTask
<1>7. ASSUME NEW c \in Calls, LinkTask(c)
      PROVE  Types'
  <2>1. finding' \in [Findings -> Finding]
    BY <1>7 DEF LinkTask, TypeOK, Finding
  <2>2. QED
    BY <1>7, <2>1, ReturnTypes DEF LinkTask, TypeOK, ExceptionsBound
<1>8. ASSUME NEW c \in Calls, NEW f \in Findings, NEW e \in Exceptions,
             BeginRequest(c, f, e)
      PROVE  Types'
  <2>1. TypeOK'
    BY <1>8 DEF BeginRequest, IdleCall, TypeOK, CallState, Finding, Statuses
  <2>2. ExceptionsBound'
    BY <1>8 DEF BeginRequest, IdleCall, TypeOK, ExceptionsBound, CallState
  <2>3. QED
    BY <2>1, <2>2
<1>9. ASSUME NEW c \in Calls, CreateException(c)
      PROVE  Types'
  <2>1. call[c].exception \in Exceptions /\ call[c].finding \in Findings
    BY <1>9 DEF CreateException, TypeOK
  <2>2. TypeOK'
    BY <1>9, <2>1 DEF CreateException, TypeOK, ExceptionDoc, CallState
  <2>3. ExceptionsBound'
    BY <1>9, <2>1 DEF CreateException, TypeOK, ExceptionsBound, ExceptionDoc,
                      CallState
  <2>4. QED
    BY <2>2, <2>3
<1>10. ASSUME NEW c \in Calls, LinkException(c)
       PROVE  Types'
  <2>1. call[c].exception \in Exceptions /\ call[c].finding \in Findings
    BY <1>10 DEF LinkException, TypeOK
  <2> DEFINE f == call[c].finding
             d == [finding[f] EXCEPT !.exception = call[c].exception,
                      !.status = IF call[c].read = "risk_accepted"
                                 THEN finding[f].status ELSE "risk_accepted"]
  <2>2. d \in Finding
    <3>1. finding[f] \in Finding
      BY <2>1 DEF TypeOK
    <3>2. QED
      BY <2>1, <3>1 DEF Finding, Statuses
  <2>3. finding' = [finding EXCEPT ![f] = d]
    BY <1>10 DEF LinkException
  <2> HIDE DEF d
  <2>4. finding' \in [Findings -> Finding]
    BY <2>1, <2>2, <2>3 DEF TypeOK
  <2>5. QED
    BY <1>10, <2>4, ReturnTypes DEF LinkException, TypeOK, ExceptionsBound
<1>11. ASSUME NEW e \in Exceptions, Approve(e)
       PROVE  Types'
  BY <1>11 DEF Approve, TypeOK, ExceptionsBound, ExceptionDoc
<1>12. ASSUME NEW c \in Calls, NEW e \in Exceptions, BeginReject(c, e)
       PROVE  Types'
  <2>1. exception[e].finding \in Findings
    BY <1>12 DEF BeginReject, TypeOK, ExceptionsBound, ExceptionDoc
  <2>2. TypeOK'
    <3> DEFINE k == [IdleCall EXCEPT !.pc = "release",
                                     !.finding = exception[e].finding]
    <3>1. k \in CallState /\ k.pc = "release" /\ k.finding \in Findings
      BY <2>1 DEF IdleCall, CallState, Statuses
    <3>2. call' = [call EXCEPT ![c] = k]
      BY <1>12 DEF BeginReject
    <3>3. exception' \in [Exceptions -> ExceptionDoc]
      BY <1>12 DEF BeginReject, TypeOK, ExceptionDoc
    <3> HIDE DEF k
    <3>4. QED
      BY <1>12, <3>1, <3>2, <3>3 DEF BeginReject, TypeOK
  <2>3. ExceptionsBound'
    BY <1>12, <2>1 DEF BeginReject, IdleCall, TypeOK, ExceptionsBound,
                       ExceptionDoc
  <2>4. QED
    BY <2>2, <2>3
<1>13. ASSUME NEW c \in Calls, ReleaseFinding(c)
       PROVE  Types'
  <2>1. call[c].finding \in Findings
    BY <1>13 DEF ReleaseFinding, TypeOK
  <2> DEFINE f == call[c].finding
             d == [finding[f] EXCEPT !.status = "open", !.exception = NoException]
  <2>2. d \in Finding /\ finding' = [finding EXCEPT ![f] = d]
    <3>1. finding[f] \in Finding
      BY <2>1 DEF TypeOK
    <3>2. d \in Finding
      BY <3>1 DEF Finding, Statuses
    <3>3. QED
      BY <1>13, <3>2 DEF ReleaseFinding
  <2> HIDE DEF d
  <2>3. finding' \in [Findings -> Finding]
    BY <2>1, <2>2 DEF TypeOK
  <2>4. QED
    BY <1>13, <2>3, ReturnTypes DEF ReleaseFinding, TypeOK, ExceptionsBound
<1>14. ASSUME NEW c \in Calls, AbandonCall(c)
       PROVE  Types'
  BY <1>14, ReturnTypes DEF AbandonCall, TypeOK, ExceptionsBound
<1>15. ASSUME NEW f \in Findings, LinkRisk(f)
       PROVE  Types'
  <2>1. finding' \in [Findings -> Finding]
    BY <1>15 DEF LinkRisk, TypeOK, Finding
  <2>2. QED
    BY <1>15, <2>1 DEF LinkRisk, TypeOK, ExceptionsBound
<1>16. CASE UNCHANGED vars
  BY <1>16 DEF vars, TypeOK, ExceptionsBound
<1>17. QED
  BY <1>1, <1>2, <1>3, <1>4, <1>5, <1>6, <1>7, <1>8, <1>9, <1>10, <1>11, <1>12,
     <1>13, <1>14, <1>15, <1>16 DEF Next, CallStep

\* TypeOK holds in every reachable state, for all values of the constants.
THEOREM TypeCorrect == Spec => []TypeOK
<1>1. Init => Types
  BY InitTypes DEF IInv
<1>2. Types => TypeOK
  BY DEF Types
<1>3. QED
  BY <1>1, <1>2, TypesKept, PTL DEF Spec

-----------------------------------------------------------------------------
(* What a request knows when it writes.                                    *)

\* An exception keeps its finding, and created tasks stay.
LEMMA RecordsStay ==
    ASSUME Types, [Next]_vars
    PROVE  /\ \A e \in Exceptions, f \in Findings :
                 exception[e].finding = f => exception'[e].finding = f
           /\ \A f \in Findings : tasks[f] \subseteq tasks'[f]
           /\ \A f \in Findings : Excepted(f) => Excepted(f)'
<1> USE FindingWorkflowAssumption DEF Types
<1> DEFINE Keep == \A e \in Exceptions, f \in Findings :
                      exception[e].finding = f => exception'[e].finding = f
           Grow == \A f \in Findings : tasks[f] \subseteq tasks'[f]
<1>1. Keep
  <2>1. CASE UNCHANGED exception
    BY <2>1
  <2>2. ASSUME NEW c \in Calls, CreateException(c) PROVE Keep
    BY <2>2 DEF CreateException, TypeOK, ExceptionsBound, ExceptionDoc
  <2>3. ASSUME NEW e \in Exceptions, Approve(e) PROVE Keep
    BY <2>3 DEF Approve, TypeOK, ExceptionDoc
  <2>4. ASSUME NEW c \in Calls, NEW e \in Exceptions, BeginReject(c, e)
        PROVE  Keep
    BY <2>4 DEF BeginReject, TypeOK, ExceptionDoc
  <2>5. QED
    BY <2>1, <2>2, <2>3, <2>4
       DEF Next, CallStep, vars, BeginUpdate, CommitUpdate, Conflict,
           BeginAssign, CommitAssign, CreateTask, LinkTask, BeginRequest,
           LinkException, ReleaseFinding, AbandonCall, LinkRisk
<1>2. Grow
  <2>1. CASE UNCHANGED tasks
    BY <2>1
  <2>2. ASSUME NEW c \in Calls, CreateTask(c) PROVE Grow
    BY <2>2 DEF CreateTask, TypeOK
  <2>3. QED
    BY <2>1, <2>2
       DEF Next, CallStep, vars, BeginUpdate, CommitUpdate, Conflict,
           BeginAssign, CommitAssign, CreateException, LinkTask, BeginRequest,
           LinkException, ReleaseFinding, AbandonCall, Approve, BeginReject,
           LinkRisk
<1>3. QED
  BY <1>1, <1>2 DEF Excepted

\* A request whose local state changes has checked what its next write needs.
LEMMA CallSteps ==
    ASSUME Types, [Next]_vars, NEW c \in Calls
    PROVE  call'[c] = call[c] \/ Justified(c)'
<1> DEFINE Goal == call'[c] = call[c] \/ Justified(c)'
<1> USE FindingWorkflowAssumption DEF Types, Justified
<1>0. call \in [Calls -> CallState]
  BY DEF TypeOK
<1>1. ASSUME NEW d \in Calls, Return(d) PROVE Goal
  BY <1>0, <1>1 DEF Return, IdleCall
<1>2. ASSUME NEW d \in Calls, NEW f \in Findings, NEW next \in Statuses,
             BeginUpdate(d, f, next)
      PROVE  Goal
  BY <1>0, <1>2 DEF BeginUpdate, IdleCall
<1>3. ASSUME NEW d \in Calls, NEW f \in Findings, BeginAssign(d, f)
      PROVE  Goal
  BY <1>0, <1>3 DEF BeginAssign, IdleCall
<1>4. ASSUME NEW d \in Calls, NEW createTask \in BOOLEAN,
             CommitAssign(d, createTask)
      PROVE  Goal
  BY <1>0, <1>1, <1>4 DEF CommitAssign, CallState
<1>5. ASSUME NEW d \in Calls, CreateTask(d) PROVE Goal
  BY <1>0, <1>1, <1>5 DEF CreateTask, TypeOK, CallState
<1>6. ASSUME NEW d \in Calls, NEW f \in Findings, NEW e \in Exceptions,
             BeginRequest(d, f, e)
      PROVE  Goal
  BY <1>0, <1>6 DEF BeginRequest, IdleCall
<1>7. ASSUME NEW d \in Calls, CreateException(d) PROVE Goal
  BY <1>0, <1>7 DEF CreateException, TypeOK, CallState
<1>8. ASSUME NEW d \in Calls, NEW e \in Exceptions, BeginReject(d, e)
      PROVE  Goal
  <2>1. /\ call'[c] # call[c] => /\ call'[c].pc = "release"
                                 /\ call'[c].finding = exception[e].finding
        /\ exception'[e].finding = exception[e].finding
    BY <1>0, <1>8 DEF BeginReject, IdleCall, TypeOK
  <2>2. QED
    BY <2>1 DEF Excepted
<1>9. CASE UNCHANGED call
  BY <1>9
<1>10. QED
  BY <1>1, <1>2, <1>3, <1>4, <1>5, <1>6, <1>7, <1>8, <1>9
     DEF Next, CallStep, vars, CommitUpdate, Conflict, LinkTask, LinkException,
         ReleaseFinding, AbandonCall, Approve, LinkRisk

\* Every step keeps the whole invariant.
LEMMA InvariantKept == IInv /\ [Next]_vars => IInv'
<1> SUFFICES ASSUME IInv, [Next]_vars PROVE IInv'
  OBVIOUS
<1>1. Types'
  BY TypesKept DEF IInv
<1>2. ASSUME NEW c \in Calls PROVE Justified(c)'
  <2>1. CASE call'[c] = call[c]
    <3>1. /\ call[c].pc # "idle" => call[c].finding \in Findings
          /\ call[c].pc = "linkException" => call[c].exception \in Exceptions
      BY DEF IInv, Types, TypeOK
    <3>2. QED
      BY <2>1, <3>1, RecordsStay DEF IInv, Justified
  <2>2. CASE call'[c] # call[c]
    BY <2>2, CallSteps DEF IInv
  <2>3. QED
    BY <2>1, <2>2
<1>3. QED
  BY <1>1, <1>2 DEF IInv

\* IInv holds in every reachable state.
LEMMA Invariant == Spec => []IInv
  BY InitTypes, InvariantKept, PTL DEF Spec

-----------------------------------------------------------------------------
(* Findings no exception was requested for.                                *)

Dates(d) ==
    /\ d.fixedAt => d.status \in {"fixed", "verified", "closed"}
    /\ d.verifiedAt => d.status \in {"verified", "closed"}
    /\ d.closedAt <=> d.status \in Ended

History(d) ==
    LET h == d.history
    IN  /\ \A i \in 1 .. Len(h) :
              /\ h[i].from = IF i = 1 THEN "open" ELSE h[i - 1].to
              /\ h[i].to \in Allowed(h[i].from) \cup {h[i].from}
        /\ d.status = IF h = << >> THEN "open" ELSE h[Len(h)].to

SameStory(d, e) ==
    /\ d.status = e.status /\ d.fixedAt = e.fixedAt /\ d.history = e.history
    /\ d.verifiedAt = e.verifiedAt /\ d.closedAt = e.closedAt

\* A step leaves the status, dates and history of such a finding alone or
\* records an allowed change of its present status.
LEMMA FindingStep ==
    ASSUME IInv, [Next]_vars, NEW f \in Findings, ~Excepted(f)'
    PROVE  \/ SameStory(finding'[f], finding[f])
           \/ \E to \in Allowed(finding[f].status) \cup {finding[f].status} :
                 /\ to \in Statuses
                 /\ finding'[f] = Moved(finding[f], finding[f].status, to)
<1> DEFINE Goal ==
           \/ SameStory(finding'[f], finding[f])
           \/ \E to \in Allowed(finding[f].status) \cup {finding[f].status} :
                 /\ to \in Statuses
                 /\ finding'[f] = Moved(finding[f], finding[f].status, to)
<1>1. /\ finding \in [Findings -> Finding]
      /\ call \in [Calls -> CallState]
      /\ ~Excepted(f)
  BY RecordsStay DEF IInv, Types, TypeOK
<1>2. ASSUME NEW c \in Calls, CommitUpdate(c) PROVE Goal
  <2>1. CASE call[c].finding = f
    BY <1>1, <1>2, <2>1 DEF CommitUpdate, CallState, IInv, Justified
  <2>2. CASE call[c].finding # f
    BY <1>1, <1>2, <2>2 DEF CommitUpdate, SameStory
  <2>3. QED
    BY <2>1, <2>2
<1>3. ASSUME NEW c \in Calls, NEW createTask \in BOOLEAN,
             CommitAssign(c, createTask)
      PROVE  Goal
  <2>1. CASE call[c].finding = f
    <3>1. finding[f].status \in Statuses \ Terminal
      BY <1>1, <1>3, <2>1 DEF CommitAssign, Finding, IInv, Justified
    <3>2. "assigned" \in Allowed(finding[f].status) \cup {finding[f].status}
      BY <3>1 DEF Allowed, Statuses, Terminal, Active
    <3>3. finding'[f] = Moved(finding[f], finding[f].status, "assigned")
      BY <1>1, <1>3, <2>1 DEF CommitAssign
    <3>4. QED
      BY <3>2, <3>3 DEF Statuses
  <2>2. CASE call[c].finding # f
    BY <1>1, <1>3, <2>2 DEF CommitAssign, SameStory
  <2>3. QED
    BY <2>1, <2>2
<1>4. ASSUME NEW c \in Calls, LinkTask(c) PROVE Goal
  BY <1>1, <1>4 DEF LinkTask, SameStory, Finding
<1>5. ASSUME NEW c \in Calls, LinkException(c) PROVE Goal
  <2>1. call[c].finding # f
    BY <1>1, <1>5 DEF LinkException, IInv, Justified, Types, TypeOK, Excepted
  <2>2. QED
    BY <1>1, <1>5, <2>1 DEF LinkException, SameStory
<1>6. ASSUME NEW c \in Calls, ReleaseFinding(c) PROVE Goal
  <2>1. call[c].finding # f
    BY <1>1, <1>6 DEF ReleaseFinding, IInv, Justified
  <2>2. QED
    BY <1>1, <1>6, <2>1 DEF ReleaseFinding, SameStory
<1>7. ASSUME NEW g \in Findings, LinkRisk(g) PROVE Goal
  BY <1>1, <1>7 DEF LinkRisk, SameStory, Finding
<1>8. CASE UNCHANGED finding
  BY <1>8 DEF SameStory
<1>9. QED
  BY <1>2, <1>3, <1>4, <1>5, <1>6, <1>7, <1>8
     DEF Next, CallStep, vars, BeginUpdate, Conflict, BeginAssign, CreateTask,
         BeginRequest, CreateException, Approve, BeginReject, AbandonCall

\* An allowed change of a finding whose dates are right leaves them right: the
\* transition table and applyLifecycleDates together.
LEMMA MovedDates ==
    ASSUME NEW d \in Finding, Dates(d), NEW to \in Statuses,
           to \in Allowed(d.status) \cup {d.status}
    PROVE  Dates(Moved(d, d.status, to))
<1> DEFINE s == [d EXCEPT !.status = to]
           l == Lifecycle(s, to)
<1>1. /\ d.status \in Statuses /\ s.status = to /\ s.fixedAt = d.fixedAt
      /\ s.verifiedAt = d.verifiedAt /\ s.closedAt = d.closedAt
      /\ s \in Finding
  BY DEF Finding
<1>2. to = "fixed" => d.status \notin Ended \cup {"verified"}
  BY <1>1 DEF Allowed, Statuses, Active, Ended
<1>3. to = "verified" => d.status \notin Ended
  BY <1>1 DEF Allowed, Statuses, Active, Ended
<1>4. to = "closed" \/ to \in {"false_positive", "risk_accepted"}
         => l = [s EXCEPT !.closedAt = TRUE]
  BY DEF Lifecycle, Ended, Active
<1>5. to \in {"false_positive", "risk_accepted"}
         => d.status \notin {"fixed", "verified", "closed"}
  BY <1>1 DEF Allowed, Statuses, Active, Ended
<1>6. l.status = to /\ Dates(l)
  BY <1>1, <1>2, <1>3, <1>4, <1>5
     DEF Lifecycle, Dates, Statuses, Active, Ended, Finding
<1>7. l \in Finding
  BY <1>1 DEF Lifecycle, Finding, Statuses, Active, Ended
<1>8. Moved(d, d.status, to)
         = [l EXCEPT !.history = Append(@, [from |-> d.status, to |-> to])]
  BY DEF Moved, Record
<1> HIDE DEF l
<1>9. QED
  BY <1>6, <1>7, <1>8 DEF Dates, Finding

\* DatesMatchStatus: without exceptions, fixedAt, verifiedAt and closedAt tell
\* what the status tells, for any number of findings and requests.
THEOREM DatesCorrect == Spec => []DatesMatchStatus
<1>1. DatesMatchStatus <=> \A f \in Findings : ~Excepted(f) => Dates(finding[f])
  BY DEF DatesMatchStatus, Dates
<1>2. Init => DatesMatchStatus
  BY <1>1 DEF Init, Dates, Ended
<1>3. DatesMatchStatus /\ IInv /\ [Next]_vars => DatesMatchStatus'
  <2> SUFFICES ASSUME DatesMatchStatus, IInv, [Next]_vars,
                      NEW f \in Findings, ~Excepted(f)'
               PROVE  Dates(finding[f])'
    BY DEF DatesMatchStatus, Dates
  <2>1. Dates(finding[f]) /\ finding[f] \in Finding
    BY <1>1, RecordsStay DEF IInv, Types, TypeOK
  <2>2. CASE SameStory(finding'[f], finding[f])
    BY <2>1, <2>2 DEF SameStory, Dates
  <2>3. ASSUME NEW to \in Allowed(finding[f].status) \cup {finding[f].status},
               to \in Statuses,
               finding'[f] = Moved(finding[f], finding[f].status, to)
        PROVE  Dates(finding'[f])
    BY <2>1, <2>3, MovedDates
  <2>4. QED
    BY <2>2, <2>3, FindingStep
<1>4. QED
  BY <1>2, <1>3, Invariant, PTL DEF Spec

\* AuditTrail: without exceptions, statusHistory is an unbroken chain of
\* allowed changes from "open" to the present status.
THEOREM HistoryCorrect == Spec => []AuditTrail
<1>1. AuditTrail <=> \A f \in Findings : ~Excepted(f) => History(finding[f])
  BY DEF AuditTrail, History
<1>2. Init => AuditTrail
  BY <1>1 DEF Init, History
<1>3. AuditTrail /\ IInv /\ [Next]_vars => AuditTrail'
  <2> SUFFICES ASSUME AuditTrail, IInv, [Next]_vars,
                      NEW f \in Findings, ~Excepted(f)'
               PROVE  History(finding[f])'
    BY DEF AuditTrail, History
  <2> DEFINE d == finding[f]
             h == d.history
  <2>1. History(d) /\ d \in Finding
    BY <1>1, RecordsStay DEF IInv, Types, TypeOK
  <2>2. CASE SameStory(finding'[f], finding[f])
    BY <2>1, <2>2 DEF SameStory, History
  <2>3. ASSUME NEW to \in Allowed(d.status) \cup {d.status}, to \in Statuses,
               finding'[f] = Moved(d, d.status, to)
        PROVE  History(finding'[f])
    <3> DEFINE g == Append(h, [from |-> d.status, to |-> to])
    <3>0. d.status \in Statuses
      BY <2>1 DEF Finding
    <3>1. finding'[f].history = g /\ finding'[f].status = to
      <4> HIDE DEF d
      <4>1. QED
        BY <2>1, <2>3, <3>0, MovedFinding
    <3>2. h \in Seq([from : Statuses, to : Statuses])
      BY <2>1 DEF Finding
    <3>3. /\ Len(g) = Len(h) + 1 /\ g # << >> /\ Len(h) \in Nat
          /\ g[Len(g)] = [from |-> d.status, to |-> to]
          /\ \A i \in 1 .. Len(h) : g[i] = h[i]
      BY <3>2
    <3>4. d.status = IF Len(g) = 1 THEN "open" ELSE g[Len(g) - 1].to
      BY <2>1, <3>2, <3>3 DEF History
    <3> HIDE DEF g
    <3>5. ASSUME NEW i \in 1 .. Len(g)
          PROVE  /\ g[i].from = IF i = 1 THEN "open" ELSE g[i - 1].to
                 /\ g[i].to \in Allowed(g[i].from) \cup {g[i].from}
      <4>1. CASE i = Len(g)
        BY <2>3, <3>3, <3>4, <4>1
      <4>2. CASE i # Len(g)
        <5>1. i \in 1 .. Len(h) /\ (i # 1 => i - 1 \in 1 .. Len(h))
          BY <3>3, <4>2
        <5>2. QED
          BY <2>1, <3>3, <5>1 DEF History
      <4>3. QED
        BY <4>1, <4>2
    <3>6. QED
      BY <3>1, <3>3, <3>5 DEF History
  <2>4. QED
    BY <2>2, <2>3, FindingStep
<1>4. QED
  BY <1>2, <1>3, Invariant, PTL DEF Spec

\* LinksExist: a finding names only a task that was created and an exception
\* that was requested for it.
THEOREM LinksCorrect == Spec => []LinksExist
<1>1. Init => LinksExist
  <2> SUFFICES ASSUME Init, NEW f \in Findings
               PROVE  /\ finding[f].task = NoCall
                      /\ finding[f].exception = NoException
    BY DEF LinksExist
  <2>1. QED
    BY DEF Init
<1>2. LinksExist /\ IInv /\ [Next]_vars => LinksExist'
  <2> SUFFICES ASSUME LinksExist, IInv, [Next]_vars, NEW f \in Findings
               PROVE  /\ finding'[f].task # NoCall
                            => finding'[f].task \in tasks'[f]
                      /\ finding'[f].exception # NoException
                            => exception'[finding'[f].exception].finding = f
    BY DEF LinksExist
  <2> DEFINE Goal == /\ finding'[f].task # NoCall
                           => finding'[f].task \in tasks'[f]
                     /\ finding'[f].exception # NoException
                           => exception'[finding'[f].exception].finding = f
  <2>1. /\ finding \in [Findings -> Finding]
        /\ finding[f].exception \in Exceptions \cup {NoException}
        /\ call \in [Calls -> CallState]
    BY DEF IInv, Types, TypeOK, Finding
  <2>2. ASSUME finding'[f].task = finding[f].task,
               finding'[f].exception = finding[f].exception
        PROVE  Goal
    BY <2>1, <2>2, RecordsStay DEF LinksExist, IInv
  <2>3. ASSUME NEW c \in Calls, NEW from \in Statuses, NEW to \in Statuses,
               finding' = [finding EXCEPT ![call[c].finding]
                              = Moved(@, from, to)]
        PROVE  Goal
    <3>1. CASE call[c].finding = f
      <4>1. finding'[f] = Moved(finding[f], from, to) /\ finding[f] \in Finding
        <5> DEFINE d == Moved(finding[f], from, to)
        <5>1. finding' = [finding EXCEPT ![f] = d]
          BY <2>3, <3>1
        <5> HIDE DEF d
        <5>2. finding'[f] = d
          BY <2>1, <5>1
        <5>3. QED
          BY <2>1, <5>2 DEF d
      <4>2. /\ finding'[f].task = finding[f].task
            /\ finding'[f].exception = finding[f].exception
        <5>1. /\ Moved(finding[f], from, to).task = finding[f].task
              /\ Moved(finding[f], from, to).exception = finding[f].exception
          BY <2>3, <4>1, MovedFinding
        <5>2. QED
          BY <4>1, <5>1
      <4>3. QED
        BY <2>2, <4>2
    <3>2. CASE call[c].finding # f
      BY <2>1, <2>2, <2>3, <3>2
    <3>3. QED
      BY <3>1, <3>2
  <2>4. ASSUME NEW c \in Calls, LinkTask(c) PROVE Goal
    <3>1. c \in tasks'[call[c].finding]
      BY <2>4 DEF LinkTask, IInv, Justified
    <3>2. /\ finding'[f].exception = finding[f].exception
          /\ finding'[f].task = IF call[c].finding = f THEN c ELSE finding[f].task
      BY <2>1, <2>4 DEF LinkTask, Finding
    <3>3. QED
      BY <2>1, <3>1, <3>2, RecordsStay DEF LinksExist, IInv
  <2>5. ASSUME NEW c \in Calls, LinkException(c) PROVE Goal
    <3>1. exception'[call[c].exception].finding = call[c].finding
      BY <2>5 DEF LinkException, IInv, Justified
    <3>2. /\ finding'[f].task = finding[f].task
          /\ finding'[f].exception = IF call[c].finding = f
                THEN call[c].exception ELSE finding[f].exception
      BY <2>1, <2>5 DEF LinkException, Finding
    <3>3. QED
      BY <2>1, <3>1, <3>2, RecordsStay DEF LinksExist, IInv
  <2>6. ASSUME NEW c \in Calls, ReleaseFinding(c) PROVE Goal
    <3>1. /\ finding'[f].task = finding[f].task
          /\ finding'[f].exception = IF call[c].finding = f
                THEN NoException ELSE finding[f].exception
      BY <2>1, <2>6 DEF ReleaseFinding, Finding
    <3>2. QED
      BY <2>1, <3>1, RecordsStay DEF LinksExist, IInv
  <2>7. CASE UNCHANGED finding
    BY <2>2, <2>7
  <2>8. ASSUME NEW c \in Calls, CommitUpdate(c) PROVE Goal
    BY <2>1, <2>3, <2>8 DEF CommitUpdate, CallState
  <2>9. ASSUME NEW c \in Calls, NEW createTask \in BOOLEAN,
               CommitAssign(c, createTask)
        PROVE  Goal
    BY <2>1, <2>3, <2>9 DEF CommitAssign, CallState, Statuses
  <2>10. ASSUME NEW g \in Findings, LinkRisk(g) PROVE Goal
    <3>1. /\ finding'[f].task = finding[f].task
          /\ finding'[f].exception = finding[f].exception
      BY <2>1, <2>10 DEF LinkRisk, Finding
    <3>2. QED
      BY <2>2, <3>1
  <2>11. QED
    BY <2>4, <2>5, <2>6, <2>7, <2>8, <2>9, <2>10
       DEF Next, CallStep, vars, BeginUpdate, Conflict, BeginAssign, CreateTask,
           BeginRequest, CreateException, Approve, BeginReject, AbandonCall
<1>3. QED
  BY <1>1, <1>2, Invariant, PTL DEF Spec
=============================================================================
