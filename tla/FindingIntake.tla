---------------------------- MODULE FindingIntake ----------------------------
(***************************************************************************)
(* How findings enter vm_findings: ScansService.saveFindings for uploaded  *)
(* reports (uploadScan) and for the scan queue, and createManual of        *)
(* FindingsService (src/src/vulnerability-management/services).            *)
(*                                                                         *)
(* A save asks what is stored under the dedupe keys of its findings, tags  *)
(* each finding as the original or a numbered duplicate, and inserts them. *)
(* Nothing makes the question and the insert one step, and the insert      *)
(* drops, without an error, the rows the schema does not accept.           *)
(***************************************************************************)
EXTENDS Naturals, Sequences, FiniteSets, FiniteSetsExt

CONSTANTS
    Keys,           \* dedupe keys
    Saves,          \* one save each: an upload, a queue item, a manual finding
    MaxFindings,    \* bound on the findings of one save
    NoSave          \* the asset was not scanned yet

ASSUME FindingIntakeAssumption == MaxFindings \in Nat /\ NoSave \notin Saves

VARIABLES
    rows,   \* vm_findings, in the order of insertion
    scan,   \* [Saves -> [status, total]]: the scan document of an upload
    asset,  \* [save, status]: lastScanId and lastScanStatus of the one asset
    save,   \* [Saves -> SaveState]: local variables of a save
    clock   \* createdAt of the next batch

vars == <<rows, scan, asset, save, clock>>

-----------------------------------------------------------------------------

Kinds == {"upload", "queue", "manual"}

\* accepted: whether the row passes the schema's validation.
Input == [key : Keys, accepted : BOOLEAN]

Inputs == UNION {[1 .. n -> Input] : n \in 0 .. MaxFindings}

Ids  == Saves \X (1 .. MaxFindings)
NoId == << >>

\* occurrence: duplicateOccurrence;  original: duplicateOfFindingId
Row == [id : Ids, key : Keys, occurrence : Nat \ {0}, original : Ids \cup {NoId},
        createdAt : Nat]

\* todo: the places in the batch of the rows not inserted yet;  date: createdAt
\* of the batch;  seen: ghost, the number of rows stored when asked
SaveState ==
    [pc : {"idle", "asset", "stats", "tag", "insert", "finish", "finishAsset",
           "fail", "failAsset", "done"},
     kind : Kinds, input : Inputs, stats : [Keys -> [count : Nat,
     original : Ids \cup {NoId}]], todo : SUBSET (1 .. MaxFindings), date : Nat,
     seen : Nat]

NoStats == [k \in Keys |-> [count |-> 0, original |-> NoId]]

Goto(s, pc) == save' = [save EXCEPT ![s].pc = pc]

-----------------------------------------------------------------------------
(* Duplicate tagging.                                                      *)

Stored(k) == {i \in DOMAIN rows : rows[i].key = k}

\* The row with the least createdAt; the index that serves the sort yields
\* equal ones in the order of insertion.
First(k) ==
    CHOOSE i \in Stored(k) : \A j \in Stored(k) :
        \/ rows[i].createdAt < rows[j].createdAt
        \/ rows[i].createdAt = rows[j].createdAt /\ i <= j

\* The aggregation of saveFindings and of createManual.
Stats ==
    [k \in Keys |-> [count    |-> Cardinality(Stored(k)),
                     original |-> IF Stored(k) = {} THEN NoId
                                                    ELSE rows[First(k)].id]]

\* Mutant: every finding of a batch gets the next number of its key.
TaggedAlike(s, i) ==
    LET k     == save[s].input[i].key
        stat  == save[s].stats[k]
        first == Min({j \in 1 .. i : save[s].input[j].key = k})
    IN  [id |-> <<s, i>>, key |-> k, occurrence |-> stat.count + 1,
         original |-> CASE stat.count > 0 -> stat.original
                        [] stat.count = 0 /\ first < i -> <<s, first>>
                        [] OTHER -> NoId,
         createdAt |-> save[s].date]

\* Mutant: the batch's own first row wins over the stored original.
TaggedLocally(s, i) ==
    LET k    == save[s].input[i].key
        same == {j \in 1 .. i : save[s].input[j].key = k}
        n    == save[s].stats[k].count + Cardinality(same)
    IN  [id |-> <<s, i>>, key |-> k, occurrence |-> n,
         original |-> IF n = 1 THEN NoId ELSE <<s, Min(same)>>,
         createdAt |-> save[s].date]

\* Row i of a batch: counts what is stored and what precedes it in the batch.
Tagged(s, i) ==
    LET k    == save[s].input[i].key
        stat == save[s].stats[k]
        same == {j \in 1 .. i : save[s].input[j].key = k}
        n    == stat.count + Cardinality(same)
    IN  [id |-> <<s, i>>, key |-> k, occurrence |-> n,
         original |-> CASE n = 1 -> NoId
                        [] n > 1 /\ stat.count > 0 -> stat.original
                        [] n > 1 /\ stat.count = 0 -> <<s, Min(same)>>,
         createdAt |-> save[s].date]

\* insertMany leaves out the rows the schema does not accept.
Accepted(s) == {i \in DOMAIN save[s].input : save[s].input[i].accepted}

OwnRows(s) == {i \in DOMAIN rows : rows[i].id[1] = s}

-----------------------------------------------------------------------------
(* The steps of a save.                                                    *)

\* uploadScan stores the scan as running; the others come with a scan of the
\* queue, or with none.  saveFindings returns at once without findings, and a
\* manual finding is a batch of one.
Begin(s, kind, input) ==
    /\ save[s].pc = "idle"
    /\ kind = "manual" => Len(input) = 1
    /\ save' = [save EXCEPT ![s].kind = kind, ![s].input = input,
                    ![s].pc = CASE kind = "upload" -> "asset"
                                [] kind # "upload" /\ input # << >> -> "stats"
                                [] OTHER -> "done"]
    /\ scan' = IF kind = "upload" THEN [scan EXCEPT ![s].status = "running"]
                                  ELSE scan
    /\ UNCHANGED <<rows, asset, clock>>

MarkAssetRunning(s) ==
    /\ save[s].pc = "asset"
    /\ asset' = [save |-> s, status |-> "running"]
    /\ Goto(s, IF save[s].input = << >> THEN "finish" ELSE "stats")
    /\ UNCHANGED <<rows, scan, clock>>

ReadStats(s) ==
    /\ save[s].pc = "stats"
    /\ save' = [save EXCEPT ![s].stats = Stats, ![s].seen = Len(rows),
                            ![s].pc = "tag"]
    /\ UNCHANGED <<rows, scan, asset, clock>>

\* The answer of the aggregation arrives: the rows are tagged (Tagged) and
\* insertMany dates those it accepts.
Tag(s) ==
    /\ save[s].pc = "tag"
    /\ save' = [save EXCEPT ![s].todo = Accepted(s), ![s].date = clock,
                            ![s].pc = "insert"]
    /\ clock' = clock + 1
    /\ UNCHANGED <<rows, scan, asset>>

\* The server inserts the rows one after the other; others may read between.
InsertRow(s) ==
    /\ save[s].pc = "insert"
    /\ \E i \in save[s].todo :
        /\ \A j \in save[s].todo : i <= j
        /\ rows' = Append(rows, Tagged(s, i))
        /\ save' = [save EXCEPT ![s].todo = @ \ {i}]
    /\ UNCHANGED <<scan, asset, clock>>

InsertReturns(s) ==
    /\ save[s].pc = "insert"
    /\ save[s].todo = {}
    /\ Goto(s, IF save[s].kind = "upload" THEN "finish" ELSE "done")
    /\ UNCHANGED <<rows, scan, asset, clock>>

\* Mutant: the number of parsed findings is reported.
FinishWithParsed(s) ==
    /\ save[s].pc = "finish"
    /\ scan' = [scan EXCEPT ![s] = [status |-> "completed",
                                    total  |-> Len(save[s].input)]]
    /\ Goto(s, "finishAsset")
    /\ UNCHANGED <<rows, asset, clock>>

\* updateScanCounts with the number of rows insertMany returned, which are the
\* ones that passed the validation.
Finish(s) ==
    /\ save[s].pc = "finish"
    /\ scan' = [scan EXCEPT ![s] = [status |-> "completed",
                                    total  |-> Cardinality(Accepted(s))]]
    /\ Goto(s, "finishAsset")
    /\ UNCHANGED <<rows, asset, clock>>

FinishAsset(s) ==
    /\ save[s].pc = "finishAsset"
    /\ asset' = [save |-> s, status |-> "completed"]
    /\ Goto(s, "done")
    /\ UNCHANGED <<rows, scan, clock>>

-----------------------------------------------------------------------------
(* Errors.                                                                 *)

Guarded == {"stats", "tag", "insert", "finish", "finishAsset"}

\* Mutant: an error of markScanFailed is swallowed.
ErrorSwallowed(s) ==
    /\ save[s].pc \in Guarded \cup {"asset", "fail", "failAsset"}
    /\ save' = [save EXCEPT ![s].todo = {}, ![s].pc =
          IF save[s].kind = "upload" /\ save[s].pc \in Guarded \cup {"fail"}
          THEN IF save[s].pc = "fail" THEN "failAsset" ELSE "fail"
          ELSE "done"]
    /\ UNCHANGED <<rows, scan, asset, clock>>

\* A report that does not parse, or a database call that fails.  The try of
\* uploadScan begins after the asset is marked; an error in its catch is
\* final, and so is one of the queue's save (ScanQueue models what follows).
Error(s) ==
    /\ save[s].pc \in Guarded \cup {"asset", "fail", "failAsset"}
    /\ save' = [save EXCEPT ![s].todo = {}, ![s].pc =
          IF save[s].kind = "upload" /\ save[s].pc \in Guarded
          THEN "fail" ELSE "done"]
    /\ UNCHANGED <<rows, scan, asset, clock>>

\* markScanFailed
FailScan(s) ==
    /\ save[s].pc = "fail"
    /\ scan' = [scan EXCEPT ![s].status = "failed"]
    /\ Goto(s, "failAsset")
    /\ UNCHANGED <<rows, asset, clock>>

FailAsset(s) ==
    /\ save[s].pc = "failAsset"
    /\ asset' = [save |-> s, status |-> "failed"]
    /\ Goto(s, "done")
    /\ UNCHANGED <<rows, scan, clock>>

\* The process dies.
Crash(s) ==
    /\ save[s].pc \notin {"idle", "done"}
    /\ save' = [save EXCEPT ![s].todo = {}, ![s].pc = "done"]
    /\ UNCHANGED <<rows, scan, asset, clock>>

-----------------------------------------------------------------------------

Init ==
    /\ rows = << >>
    /\ scan = [s \in Saves |-> [status |-> "absent", total |-> 0]]
    /\ asset = [save |-> NoSave, status |-> "never_scanned"]
    /\ save = [s \in Saves |-> [pc |-> "idle", kind |-> "queue", input |-> << >>,
                                stats |-> NoStats, todo |-> {}, date |-> 0,
                                seen |-> 0]]
    /\ clock = 0

SaveStep(s) ==
    \/ \E kind \in Kinds, input \in Inputs : Begin(s, kind, input)
    \/ MarkAssetRunning(s) \/ ReadStats(s) \/ Tag(s)
    \/ InsertRow(s) \/ InsertReturns(s) \/ Finish(s) \/ FinishAsset(s)
    \/ Error(s) \/ FailScan(s) \/ FailAsset(s) \/ Crash(s)

Next == \E s \in Saves : SaveStep(s)

Spec == Init /\ [][Next]_vars

-----------------------------------------------------------------------------
(* Properties.                                                             *)

\* Every variable holds what its declaration says; only uploads take the steps of
\* an upload, and the marks of the asset come from them.
TypeOK ==
    /\ rows \in Seq(Row)
    /\ scan \in [Saves -> [status : {"absent", "running", "completed", "failed"},
                           total : Nat]]
    /\ asset \in [save : Saves \cup {NoSave},
                  status : {"never_scanned", "running", "completed", "failed"}]
    /\ save \in [Saves -> SaveState]
    /\ clock \in Nat
    /\ \A s \in Saves :
        save[s].pc \in {"asset", "finish", "finishAsset", "fail", "failAsset"}
            => save[s].kind = "upload"
    /\ asset.save \in Saves
        => save[asset.save].kind = "upload" /\ save[asset.save].pc # "idle"

\* No save brings a row of key k that the schema rejects.
Clean(k) ==
    \A s \in Saves : \A i \in DOMAIN save[s].input :
        save[s].input[i].key = k => save[s].input[i].accepted

Twins(i, j) == i < j /\ rows[i].key = rows[j].key

\* The occurrence numbers of a key grow from row to row, within a batch and
\* over batches; a number repeats (and a second row is called the original)
\* only if another save asked what is stored before the earlier row was.
NumbersGrow ==
    \A i, j \in DOMAIN rows :
        /\ Twins(i, j)
        /\ Clean(rows[i].key)
        /\ rows[i].id[1] = rows[j].id[1] \/ save[rows[j].id[1]].seen >= i
        => rows[i].occurrence < rows[j].occurrence

\* A duplicate names a row stored before it under the same key, even if its
\* save was interrupted or ran beside others; and an original names none.
DuplicatesResolve ==
    \A j \in DOMAIN rows : Clean(rows[j].key) =>
        IF rows[j].occurrence = 1 THEN rows[j].original = NoId
        ELSE \E i \in DOMAIN rows : Twins(i, j) /\ rows[i].id = rows[j].original

\* Numbers and originals of all rows stored, however saves overlapped.
DuplicatesTrue == NumbersGrow /\ DuplicatesResolve

\* Each save of key k asked after the rows of the saves before it were stored.
Serial(k) ==
    \A i, j \in Stored(k) :
        i < j /\ rows[i].id[1] # rows[j].id[1] => save[rows[j].id[1]].seen >= i

\* As long as the saves of a key do not overlap, its first row is the original,
\* the others carry their rank and all name that row, also after saves that
\* failed halfway.
SerialSavesExact ==
    \A k \in Keys : Clean(k) /\ Serial(k) =>
        \A j \in Stored(k) :
            LET rank == Cardinality({i \in Stored(k) : i <= j})
            IN  /\ rows[j].occurrence = rank
                /\ rows[j].original =
                      IF rank = 1 THEN NoId ELSE rows[Min(Stored(k))].id

\* The total of a completed upload is the number of its findings that are
\* stored, whatever was dropped or failed.
TotalsTrue ==
    \A s \in Saves : scan[s].status = "completed"
        => scan[s].total = Cardinality(OwnRows(s))

\* The asset shows a verdict only if the upload it names has this verdict.
UploadVerdictTrue ==
    asset.status \in {"completed", "failed"}
        => scan[asset.save].status = asset.status

\* "duplicate finding links to the original finding"
\* (src/scripts/vm-backend-smoke-test.sh): the row named by a duplicate exists.
DuplicateLinksOriginal ==
    \A j \in DOMAIN rows : rows[j].occurrence > 1
        => \E i \in DOMAIN rows : rows[i].id = rows[j].original
=============================================================================
