------------------------ MODULE FindingIntake_proofs ------------------------
(***************************************************************************)
(* Findings in their collection: duplicates, totals and verdicts, for any  *)
(* saves, keys and batches, with dropped rows, errors and crashes.         *)
(***************************************************************************)
EXTENDS FindingIntake, FiniteSetTheorems, WellFoundedInduction, TLAPS

USE FindingIntakeAssumption

-----------------------------------------------------------------------------
(* Numbers and small sets of them.                                         *)

LEMMA LeastNumber ==
  ASSUME NEW S \in SUBSET Nat, S # {}
  PROVE  \E x \in S : \A y \in S : x <= y
<1>1. PICK x \in S : \A y \in S : <<y, x>> \notin OpToRel(<, Nat)
  BY NatLessThanWellFounded, WFMin
<1>2. \A y \in S : <<y, x>> \in Nat \X Nat
  BY <1>1
<1>3. ASSUME NEW y \in S, y < x PROVE FALSE
  <2>1. <<y, x>> \in Nat \X Nat /\ <<y, x>>[1] < <<y, x>>[2]
    BY <1>2, <1>3
  <2>2. <<y, x>> \in OpToRel(<, Nat)
    BY <2>1 DEF OpToRel
  <2> QED
    BY <1>1, <2>2
<1>4. \A y \in S : ~(y < x) /\ x \in Nat /\ y \in Nat
  BY <1>3
<1> QED
  BY <1>4

LEMMA MinIsLeast ==
  ASSUME NEW S \in SUBSET Nat, S # {}
  PROVE  Min(S) \in S /\ \A y \in S : Min(S) <= y
  BY LeastNumber DEF Min

LEMMA Count ==
  ASSUME NEW n \in Nat, NEW S \in SUBSET (1 .. n)
  PROVE  /\ IsFiniteSet(S) /\ Cardinality(S) \in Nat
         /\ Cardinality(S) = 0 <=> S = {}
<1>1. IsFiniteSet(1 .. n)
  BY FS_Interval, n \in Int, 1 \in Int
<1>2. IsFiniteSet(S)
  BY <1>1, FS_Subset
<1> QED
  BY <1>2, FS_CardinalityType, FS_EmptySet

\* What is true of a smaller set is true of fewer.
LEMMA CountLess ==
  ASSUME NEW n \in Nat, NEW S \in SUBSET (1 .. n), NEW T \in SUBSET S
  PROVE  /\ Cardinality(T) <= Cardinality(S)
         /\ T # S => Cardinality(T) < Cardinality(S)
<1>1. IsFiniteSet(S) /\ Cardinality(S) \in Nat /\ Cardinality(T) \in Nat
  BY Count
<1>2. Cardinality(T) <= Cardinality(S) /\ (Cardinality(S) = Cardinality(T) => S = T)
  BY <1>1, FS_Subset
<1> QED
  BY <1>1, <1>2

LEMMA CountMapped ==
  ASSUME NEW S, NEW T, IsFiniteSet(T), NEW f \in [S -> T],
         \A c, d \in S : f[c] = f[d] => c = d
  PROVE  Cardinality(S) <= Cardinality(T)
<1>1. f \in Injection(S, T)
  BY DEF Injection, IsInjective
<1> QED
  BY <1>1, FS_Injection

-----------------------------------------------------------------------------
(* The invariant.  Its operators take the rows and the findings of a save  *)
(* as arguments, so that they speak of any two states alike.               *)

\* The rows of key k among the first n, and the one the sort puts first.
Of(rs, n, k) == {h \in 1 .. n : rs[h].key = k}

IsFirst(rs, n, k, h) ==
    /\ h \in Of(rs, n, k)
    /\ \A g \in Of(rs, n, k) :
        \/ rs[h].createdAt < rs[g].createdAt
        \/ rs[h].createdAt = rs[g].createdAt /\ h <= g

\* The findings of a batch, up to the one at b, that share its key.
Same(input, b) == {c \in 1 .. b : input[c].key = input[b].key}

Number(rs, input, n, b) ==
    Cardinality(Of(rs, n, input[b].key)) + Cardinality(Same(input, b))

\* r is what becomes of finding b of save s, which saw the first n rows of rs.
IsTagged(rs, input, n, s, b, r) ==
    /\ b \in DOMAIN input
    /\ r.id = <<s, b>> /\ r.key = input[b].key
    /\ r.occurrence = Number(rs, input, n, b)
    /\ \/ r.occurrence = 1 /\ r.original = NoId
       \/ /\ r.occurrence > 1
          /\ \E h \in 1 .. n : IsFirst(rs, n, r.key, h) /\ r.original = rs[h].id
       \/ /\ r.occurrence > 1 /\ Of(rs, n, r.key) = {}
          /\ r.original = <<s, Min(Same(input, b))>> /\ Min(Same(input, b)) < b
    /\ \A h \in 1 .. n : rs[h].createdAt < r.createdAt

SaverOf(j) == rows[j].id[1]
PlaceOf(j) == rows[j].id[2]

\* What a save knows at each of its steps.
SaveKnows(s) ==
    LET seen == save[s].seen IN
    /\ seen <= Len(rows)
    /\ save[s].pc = "idle" => save[s].input = << >>
    /\ save[s].pc \in {"idle", "asset", "stats", "tag"}
          => \A j \in DOMAIN rows : SaverOf(j) # s
    /\ save[s].pc \in {"tag", "insert"} => \A k \in Keys :
          /\ save[s].stats[k].count = Cardinality(Of(rows, seen, k))
          /\ Of(rows, seen, k) # {} => \E h \in 1 .. seen :
                IsFirst(rows, seen, k, h) /\ save[s].stats[k].original = rows[h].id

\* A batch that is being inserted: it has one date, later than all its save has
\* seen, and what is not inserted yet comes after what is.
Inserting(s) ==
    /\ save[s].date < clock
    /\ \A h \in 1 .. save[s].seen : rows[h].createdAt < save[s].date
    /\ save[s].todo \subseteq Accepted(s)
    /\ \A j \in DOMAIN rows : SaverOf(j) = s =>
          rows[j].createdAt = save[s].date /\ \A b \in save[s].todo : PlaceOf(j) < b
    /\ \A c \in Accepted(s) \ save[s].todo :
          \E i \in DOMAIN rows : rows[i].id = <<s, c>>

SavesKnow == \A s \in Saves :
    SaveKnows(s) /\ (save[s].pc = "insert" => Inserting(s))

\* Every row was tagged from what its save saw.
RowsTagged ==
    \A j \in DOMAIN rows :
        /\ SaverOf(j) \in Saves /\ save[SaverOf(j)].seen < j
        /\ rows[j].createdAt < clock
        /\ IsTagged(rows, save[SaverOf(j)].input, save[SaverOf(j)].seen,
                    SaverOf(j), PlaceOf(j), rows[j])

\* A batch is inserted in its order, with one date.
InOrder ==
    \A i, j \in DOMAIN rows : SaverOf(i) = SaverOf(j) =>
        /\ rows[i].createdAt = rows[j].createdAt
        /\ i < j => PlaceOf(i) < PlaceOf(j)

\* The accepted findings before a stored one are stored before it.
Takes(input) == {c \in DOMAIN input : input[c].accepted}

NoneSkipped ==
    \A j \in DOMAIN rows : \A c \in Takes(save[SaverOf(j)].input) : c < PlaceOf(j)
        => \E i \in DOMAIN rows : i < j /\ rows[i].id = <<SaverOf(j), c>>

TagInv == TypeOK /\ SavesKnow /\ RowsTagged /\ InOrder /\ NoneSkipped

-----------------------------------------------------------------------------
(* What the helpers return.                                                *)

LEMMA RowFacts ==
  ASSUME NEW rs \in Seq(Row)
  PROVE  /\ Len(rs) \in Nat /\ DOMAIN rs = 1 .. Len(rs)
         /\ \A j \in 1 .. Len(rs) :
              /\ rs[j] \in Row /\ rs[j].id \in Ids /\ rs[j].id[1] \in Saves
              /\ rs[j].id[2] \in Nat /\ rs[j].id = <<rs[j].id[1], rs[j].id[2]>>
              /\ rs[j].key \in Keys /\ rs[j].occurrence \in Nat
              /\ rs[j].createdAt \in Nat
<1>1. Len(rs) \in Nat /\ DOMAIN rs = 1 .. Len(rs)
  OBVIOUS
<1>2. ASSUME NEW j \in 1 .. Len(rs) PROVE rs[j] \in Row
  OBVIOUS
<1>3. ASSUME NEW r \in Row
      PROVE  /\ r.id \in Ids /\ r.id[1] \in Saves /\ r.id[2] \in Nat
             /\ r.id = <<r.id[1], r.id[2]>> /\ r.key \in Keys
             /\ r.occurrence \in Nat /\ r.createdAt \in Nat
  BY DEF Row, Ids
<1> QED
  BY <1>1, <1>2, <1>3

LEMMA FirstExists ==
  ASSUME NEW rs \in Seq(Row), NEW n \in 0 .. Len(rs), NEW k, Of(rs, n, k) # {}
  PROVE  \E h \in 1 .. n : IsFirst(rs, n, k, h)
<1> DEFINE dates == {rs[h].createdAt : h \in Of(rs, n, k)}
<1>1. \A h \in 1 .. n : h \in Nat /\ rs[h].createdAt \in Nat
  BY RowFacts
<1>2. dates \in SUBSET Nat /\ dates # {}
  BY <1>1 DEF Of
<1>3. PICK d \in dates : \A e \in dates : d <= e
  BY <1>2, LeastNumber
<1> DEFINE early == {h \in Of(rs, n, k) : rs[h].createdAt = d}
<1>4. early \in SUBSET Nat /\ early # {}
  BY <1>1, <1>3 DEF Of
<1>5. PICK h \in early : \A g \in early : h <= g
  BY <1>4, LeastNumber
<1>6. h \in Of(rs, n, k) /\ h \in 1 .. n /\ rs[h].createdAt = d
  BY <1>5 DEF Of
<1>7. ASSUME NEW g \in Of(rs, n, k)
      PROVE  \/ rs[h].createdAt < rs[g].createdAt
             \/ rs[h].createdAt = rs[g].createdAt /\ h <= g
  <2>1. rs[g].createdAt \in dates /\ g \in 1 .. n
    BY DEF Of
  <2>2. d <= rs[g].createdAt /\ d \in Nat /\ rs[g].createdAt \in Nat
    BY <1>1, <1>2, <1>3, <2>1
  <2>3. rs[g].createdAt = d => h <= g
    BY <1>5
  <2> QED
    BY <1>6, <2>2, <2>3
<1> QED
  BY <1>6, <1>7 DEF IsFirst

\* The answer of the aggregation.
LEMMA StatsFacts ==
  ASSUME rows \in Seq(Row), NEW k \in Keys
  PROVE  /\ Stats[k].count = Cardinality(Of(rows, Len(rows), k))
         /\ Stats[k].count \in Nat
         /\ Of(rows, Len(rows), k) = {} => Stats[k].original = NoId
         /\ Of(rows, Len(rows), k) # {} => \E h \in 1 .. Len(rows) :
              IsFirst(rows, Len(rows), k, h) /\ Stats[k].original = rows[h].id
<1>1. Stored(k) = Of(rows, Len(rows), k) /\ Len(rows) \in Nat
  BY DEF Stored, Of
<1>2. Of(rows, Len(rows), k) \in SUBSET (1 .. Len(rows))
  BY DEF Of
<1>3. ASSUME Of(rows, Len(rows), k) # {}
      PROVE  First(k) \in 1 .. Len(rows) /\ IsFirst(rows, Len(rows), k, First(k))
  <2>1. PICK h \in 1 .. Len(rows) : IsFirst(rows, Len(rows), k, h)
    BY <1>1, <1>3, FirstExists
  <2>2. h \in Stored(k) /\ \A j \in Stored(k) :
            \/ rows[h].createdAt < rows[j].createdAt
            \/ rows[h].createdAt = rows[j].createdAt /\ h <= j
    BY <1>1, <2>1 DEF IsFirst
  <2>3. First(k) \in Stored(k) /\ \A j \in Stored(k) :
            \/ rows[First(k)].createdAt < rows[j].createdAt
            \/ rows[First(k)].createdAt = rows[j].createdAt /\ First(k) <= j
    BY <2>2 DEF First
  <2> QED
    BY <1>1, <1>2, <2>3 DEF IsFirst
<1>4. /\ Stats[k].count = Cardinality(Stored(k))
      /\ Stats[k].original = IF Stored(k) = {} THEN NoId ELSE rows[First(k)].id
  BY DEF Stats
<1> QED
  BY <1>1, <1>2, <1>3, <1>4, Count

LEMMA BatchFacts ==
  ASSUME NEW input \in Inputs
  PROVE  /\ Len(input) \in 0 .. MaxFindings /\ DOMAIN input = 1 .. Len(input)
         /\ \A i \in 1 .. Len(input) : input[i].key \in Keys
<1>1. PICK n \in 0 .. MaxFindings : input \in [1 .. n -> Input]
  BY DEF Inputs
<1>2. Len(input) = n
  BY <1>1
<1> QED
  BY <1>1, <1>2 DEF Input

\* The findings of a batch that share a key, and the first of them.
LEMMA SameFacts ==
  ASSUME NEW input \in Inputs, NEW b \in DOMAIN input
  PROVE  LET same == Same(input, b) IN
         /\ b \in Nat /\ b \in same /\ same \in SUBSET (1 .. b)
         /\ Cardinality(same) \in Nat /\ Cardinality(same) >= 1
         /\ Min(same) \in same /\ (\A c \in same : Min(same) <= c)
         /\ Cardinality(same) > 1 => Min(same) < b
<1> DEFINE same == Same(input, b)
<1>1. b \in Nat \ {0} /\ b \in same /\ same \in SUBSET (1 .. b)
  BY BatchFacts DEF Same
<1>2. Cardinality(same) \in Nat /\ Cardinality(same) # 0
  BY <1>1, Count
<1>3. Min(same) \in same /\ \A c \in same : Min(same) <= c
  BY <1>1, MinIsLeast, same \in SUBSET Nat
<1>4. ASSUME ~(Min(same) < b) PROVE Cardinality(same) = 1
  <2>1. same = {b}
    BY <1>1, <1>3, <1>4
  <2> QED
    BY <2>1, FS_Singleton
<1> QED
  BY <1>1, <1>2, <1>3, <1>4

\* The row that a finding about to be inserted becomes.
LEMMA TaggedFacts ==
  ASSUME TypeOK, NEW s \in Saves, SaveKnows(s), save[s].pc = "insert",
         Inserting(s), NEW b \in DOMAIN save[s].input
  PROVE  /\ Tagged(s, b) \in Row /\ Tagged(s, b).createdAt = save[s].date
         /\ IsTagged(rows, save[s].input, save[s].seen, s, b, Tagged(s, b))
<1> DEFINE input == save[s].input
           seen == save[s].seen
           k == input[b].key
           stat == save[s].stats[k]
           same == Same(input, b)
           n == stat.count + Cardinality(same)
           r == Tagged(s, b)
<1>1. /\ save[s] \in SaveState /\ rows \in Seq(Row) /\ input \in Inputs
      /\ seen \in 0 .. Len(rows) /\ save[s].date \in Nat
  BY DEF TypeOK, SaveState, SaveKnows
<1>2. b \in 1 .. MaxFindings /\ k \in Keys /\ DOMAIN input = 1 .. Len(input)
  BY <1>1, BatchFacts
<1>3. /\ stat.count \in Nat /\ stat.original \in Ids \cup {NoId}
      /\ stat.count = Cardinality(Of(rows, seen, k))
      /\ Of(rows, seen, k) # {} => \E h \in 1 .. seen :
            IsFirst(rows, seen, k, h) /\ stat.original = rows[h].id
  BY <1>1, <1>2 DEF SaveState, SaveKnows
<1>4. /\ same \in SUBSET (1 .. b) /\ Cardinality(same) \in Nat
      /\ Cardinality(same) >= 1 /\ Min(same) \in same
      /\ Cardinality(same) > 1 => Min(same) < b
  BY <1>1, SameFacts
<1>5. stat.count = 0 <=> Of(rows, seen, k) = {}
  <2>1. Of(rows, seen, k) \in SUBSET (1 .. seen) /\ seen \in Nat
    BY <1>1 DEF Of
  <2> QED
    BY <1>3, <2>1, Count
<1>6. n \in Nat /\ n >= 1 /\ (n > 1 /\ stat.count = 0 => Min(same) < b)
  BY <1>3, <1>4
<1>7. Min(same) \in 1 .. MaxFindings
  BY <1>2, <1>4
<1> DEFINE original == CASE n = 1 -> NoId
                         [] n > 1 /\ stat.count > 0 -> stat.original
                         [] n > 1 /\ stat.count = 0 -> <<s, Min(same)>>
<1>8. r = [id |-> <<s, b>>, key |-> k, occurrence |-> n, original |-> original,
           createdAt |-> save[s].date]
  BY DEF Tagged, Same
<1> HIDE DEF input, seen, k, stat, same, n, r, original
<1>9. /\ r.original \in Ids \cup {NoId}
      /\ \/ n = 1 /\ r.original = NoId
         \/ /\ n > 1
            /\ \E h \in 1 .. seen :
                  IsFirst(rows, seen, k, h) /\ r.original = rows[h].id
         \/ /\ n > 1 /\ Of(rows, seen, k) = {}
            /\ r.original = <<s, Min(same)>> /\ Min(same) < b
  <2>1. CASE n = 1
    <3>1. r.original = NoId
      BY <1>8, <2>1 DEF original
    <3> QED
      BY <2>1, <3>1
  <2>2. CASE n > 1 /\ stat.count > 0
    <3>1. r.original = stat.original
      BY <1>6, <1>8, <2>2 DEF original
    <3> QED
      BY <1>3, <1>5, <2>2, <3>1
  <2>3. CASE n > 1 /\ stat.count = 0
    <3>1. r.original = <<s, Min(same)>>
      BY <1>3, <1>6, <1>8, <2>3 DEF original
    <3> QED
      BY <1>5, <1>6, <1>7, <2>3, <3>1 DEF Ids
  <2> QED
    BY <1>3, <1>6, <2>1, <2>2, <2>3
<1>10. /\ r.id = <<s, b>> /\ r.key = k /\ r.occurrence = n
       /\ r.createdAt = save[s].date
  BY <1>8
<1>11. <<s, b>> \in Ids /\ n \in Nat \ {0}
  BY <1>2, <1>6 DEF Ids
<1>12. r \in Row
  <2>1. original \in Ids \cup {NoId}
    BY <1>8, <1>9
  <2> QED
    BY <1>1, <1>2, <1>8, <1>11, <2>1 DEF Row
<1>13. n = Number(rows, input, seen, b)
  BY <1>3 DEF Number, n, k, same
<1>14. \A h \in 1 .. seen : rows[h].createdAt < save[s].date
  BY DEF Inserting, seen
<1>15. IsTagged(rows, input, seen, s, b, r)
  BY <1>9, <1>10, <1>13, <1>14 DEF IsTagged, input, k, same
<1> QED
  BY <1>10, <1>12, <1>15 DEF input, seen, r

-----------------------------------------------------------------------------
(* Types.                                                                  *)

LEMMA InitTypes == Init => TypeOK
<1> SUFFICES ASSUME Init PROVE TypeOK
  OBVIOUS
<1>1. << >> \in Inputs
  <2>1. << >> \in [1 .. 0 -> Input]
    OBVIOUS
  <2> QED
    BY <2>1 DEF Inputs
<1>2. NoStats \in [Keys -> [count : Nat, original : Ids \cup {NoId}]]
  BY DEF NoStats
<1>3. save \in [Saves -> SaveState]
  BY <1>1, <1>2 DEF Init, SaveState, Kinds
<1>4. /\ scan \in [Saves -> [status : {"absent", "running", "completed", "failed"},
                            total : Nat]]
      /\ \A s \in Saves : save[s].pc = "idle"
      /\ asset.save = NoSave /\ rows \in Seq(Row) /\ clock \in Nat
      /\ asset \in [save : Saves \cup {NoSave},
                    status : {"never_scanned", "running", "completed", "failed"}]
  BY DEF Init
<1> QED
  BY <1>3, <1>4 DEF TypeOK

UploadPcs == {"asset", "finish", "finishAsset", "fail", "failAsset"}
ScanDocs == [Saves -> [status : {"absent", "running", "completed", "failed"}, total : Nat]]

\* A save goes on, and what it writes is typed.
LEMMA TypesFrame ==
  ASSUME TypeOK, NEW s \in Saves, save' \in [Saves -> SaveState],
         \A t \in Saves \ {s} : save'[t] = save[t],
         save'[s].pc # "idle", save'[s].pc \in UploadPcs => save'[s].kind = "upload",
         save'[s].kind = save[s].kind \/ save[s].pc = "idle",
         rows' \in Seq(Row), scan' \in ScanDocs, clock' \in Nat,
         \/ UNCHANGED asset
         \/ /\ save[s].kind = "upload" /\ save[s].pc # "idle"
            /\ \E status \in {"running", "completed", "failed"} :
                  asset' = [save |-> s, status |-> status]
  PROVE  TypeOK'
<1>1. \A t \in Saves : save'[t].pc \in UploadPcs => save'[t].kind = "upload"
  BY DEF TypeOK, UploadPcs
<1>2. CASE UNCHANGED asset
  BY <1>1, <1>2 DEF TypeOK, ScanDocs, UploadPcs
<1>3. CASE UNCHANGED asset => FALSE
  <2>1. PICK status \in {"running", "completed", "failed"} :
            asset' = [save |-> s, status |-> status]
    BY <1>3
  <2>2. /\ asset' \in [save : Saves \cup {NoSave},
                      status : {"never_scanned", "running", "completed", "failed"}]
        /\ asset'.save = s
    BY <2>1
  <2>3. save'[s].kind = "upload" /\ save'[s].pc # "idle"
    BY <1>3
  <2> QED
    BY <1>1, <2>2, <2>3 DEF TypeOK, ScanDocs, UploadPcs
<1> QED
  BY <1>2, <1>3

\* The steps that only move a save on, and may write its scan or the asset.
LEMMA MoveTypes ==
  ASSUME TypeOK, NEW s \in Saves,
         \/ MarkAssetRunning(s) \/ InsertReturns(s) \/ Finish(s) \/ FinishAsset(s)
         \/ Error(s) \/ FailScan(s) \/ FailAsset(s) \/ Crash(s)
  PROVE  TypeOK'
<1>1. save[s] \in SaveState
  BY DEF TypeOK
<1>2. \E pc \in {"stats", "finish", "finishAsset", "fail", "failAsset", "done"},
         todo \in {{}, save[s].todo} :
        /\ save' = [save EXCEPT ![s].pc = pc, ![s].todo = todo]
        /\ pc \notin {"stats", "done"} => save[s].kind = "upload"
  BY <1>1
  DEF TypeOK, SaveState, Goto, MarkAssetRunning, InsertReturns, Finish, FinishAsset,
      Error, Guarded, FailScan, FailAsset, Crash
<1>3. Cardinality(Accepted(s)) \in Nat
  <2>1. save[s].input \in Inputs
    BY <1>1 DEF SaveState
  <2>2. Accepted(s) \in SUBSET (1 .. Len(save[s].input)) /\ Len(save[s].input) \in Nat
    BY <2>1, BatchFacts DEF Accepted
  <2> QED
    BY <2>2, Count
<1>4. UNCHANGED <<rows, clock>> /\ scan' \in ScanDocs
  <2>1. scan \in ScanDocs /\ scan[s].total \in Nat
    BY DEF TypeOK, ScanDocs
  <2>2. \/ UNCHANGED scan
        \/ scan' = [scan EXCEPT ![s] = [status |-> "completed",
                                       total |-> Cardinality(Accepted(s))]]
        \/ scan' = [scan EXCEPT ![s].status = "failed"]
    BY DEF MarkAssetRunning, InsertReturns, Finish, FinishAsset, Error, FailScan,
           FailAsset, Crash
  <2>3. UNCHANGED <<rows, clock>>
    BY DEF MarkAssetRunning, InsertReturns, Finish, FinishAsset, Error, FailScan,
           FailAsset, Crash
  <2> QED
    BY <1>3, <2>1, <2>2, <2>3 DEF ScanDocs
<1>5. \/ UNCHANGED asset
      \/ /\ save[s].kind = "upload" /\ save[s].pc # "idle"
         /\ \E status \in {"running", "completed", "failed"} :
               asset' = [save |-> s, status |-> status]
  BY DEF TypeOK, MarkAssetRunning, InsertReturns, Finish, FinishAsset, Error, FailScan,
         FailAsset, Crash
<1>6. /\ save' \in [Saves -> SaveState]
      /\ \A t \in Saves \ {s} : save'[t] = save[t]
      /\ save'[s].kind = save[s].kind /\ save'[s].pc # "idle"
      /\ save'[s].pc \in UploadPcs => save'[s].kind = "upload"
  <2>1. PICK pc \in {"stats", "finish", "finishAsset", "fail", "failAsset", "done"},
             todo \in {{}, save[s].todo} :
            /\ save' = [save EXCEPT ![s].pc = pc, ![s].todo = todo]
            /\ pc \notin {"stats", "done"} => save[s].kind = "upload"
    BY <1>2
  <2> DEFINE state == [save[s] EXCEPT !.pc = pc, !.todo = todo]
  <2>2. /\ state \in SaveState /\ state.kind = save[s].kind /\ state.pc = pc
        /\ pc # "idle" /\ (pc \in UploadPcs => save[s].kind = "upload")
    BY <1>1, <2>1 DEF SaveState, UploadPcs
  <2>3. save \in [Saves -> SaveState] /\ save' = [save EXCEPT ![s] = state]
    BY <2>1 DEF TypeOK
  <2> HIDE DEF state
  <2> QED
    BY <2>2, <2>3
<1> QED
  BY <1>4, <1>5, <1>6, TypesFrame DEF TypeOK

LEMMA BeginTypes ==
  ASSUME TypeOK, NEW s \in Saves, NEW kind \in Kinds, NEW input \in Inputs,
         Begin(s, kind, input)
  PROVE  TypeOK'
<1>1. save[s] \in SaveState
  BY DEF TypeOK
<1> DEFINE pc == CASE kind = "upload" -> "asset"
                   [] kind # "upload" /\ input # << >> -> "stats"
                   [] OTHER -> "done"
           state == [save[s] EXCEPT !.kind = kind, !.input = input, !.pc = pc]
<1>2. pc \in {"asset", "stats", "done"} /\ (pc = "asset" => kind = "upload")
  OBVIOUS
<1>3. save \in [Saves -> SaveState] /\ save' = [save EXCEPT ![s] = state]
  BY DEF TypeOK, Begin
<1> HIDE DEF pc
<1>4. state \in SaveState /\ state.kind = kind /\ state.pc = pc
  BY <1>1, <1>2 DEF SaveState
<1> HIDE DEF state
<1>5. /\ save' \in [Saves -> SaveState]
      /\ \A t \in Saves \ {s} : save'[t] = save[t]
      /\ save'[s].pc # "idle" /\ (save'[s].pc \in UploadPcs => save'[s].kind = "upload")
  BY <1>2, <1>3, <1>4 DEF UploadPcs
<1>6. UNCHANGED <<rows, asset, clock>> /\ scan' \in ScanDocs
  BY DEF TypeOK, Begin, ScanDocs
<1>7. save[s].pc = "idle" /\ rows \in Seq(Row) /\ clock \in Nat
  BY DEF Begin, TypeOK
<1> QED
  BY <1>5, <1>6, <1>7, TypesFrame

LEMMA AskTypes ==
  ASSUME TypeOK, NEW s \in Saves, ReadStats(s) \/ Tag(s)
  PROVE  TypeOK'
<1>1. save[s] \in SaveState
  BY DEF TypeOK
<1>2. Stats \in [Keys -> [count : Nat, original : Ids \cup {NoId}]]
  <2>1. ASSUME NEW k \in Keys
        PROVE  Stats[k].count \in Nat /\ Stats[k].original \in Ids \cup {NoId}
    <3>1. rows \in Seq(Row) /\ \A h \in 1 .. Len(rows) : rows[h].id \in Ids
      BY RowFacts DEF TypeOK
    <3> QED
      BY <3>1, StatsFacts
  <2> QED
    BY <2>1 DEF Stats
<1>3. Accepted(s) \in SUBSET (1 .. MaxFindings)
  BY <1>1, BatchFacts DEF Accepted, SaveState
<1>4. PICK state \in {[save[s] EXCEPT !.stats = Stats, !.seen = Len(rows), !.pc = "tag"],
                      [save[s] EXCEPT !.todo = Accepted(s), !.date = clock, !.pc = "insert"]} :
        save' = [save EXCEPT ![s] = state]
  BY DEF ReadStats, Tag
<1>5. /\ state \in SaveState /\ state.kind = save[s].kind
      /\ state.pc \in {"tag", "insert"}
  <2>1. Len(rows) \in Nat /\ clock \in Nat
    BY DEF TypeOK
  <2> QED
    BY <1>1, <1>2, <1>3, <1>4, <2>1 DEF SaveState
<1>6. /\ save' \in [Saves -> SaveState]
      /\ \A t \in Saves \ {s} : save'[t] = save[t]
      /\ save'[s].kind = save[s].kind /\ save'[s].pc # "idle"
      /\ save'[s].pc \notin UploadPcs
  BY <1>4, <1>5 DEF TypeOK, UploadPcs
<1>7. UNCHANGED <<rows, scan, asset>> /\ clock' \in Nat
  BY DEF TypeOK, ReadStats, Tag
<1> QED
  BY <1>6, <1>7, TypesFrame DEF TypeOK, ScanDocs

LEMMA InsertTypes ==
  ASSUME TypeOK, NEW s \in Saves, NEW i \in save[s].todo, Tagged(s, i) \in Row,
         save[s].pc = "insert", rows' = Append(rows, Tagged(s, i)),
         save' = [save EXCEPT ![s].todo = @ \ {i}], UNCHANGED <<scan, asset, clock>>
  PROVE  TypeOK'
<1> DEFINE state == [save[s] EXCEPT !.todo = @ \ {i}]
<1>1. save \in [Saves -> SaveState] /\ save' = [save EXCEPT ![s] = state]
  BY DEF TypeOK
<1>2. state \in SaveState /\ state.kind = save[s].kind /\ state.pc = "insert"
  BY <1>1 DEF SaveState
<1> HIDE DEF state
<1>3. /\ save' \in [Saves -> SaveState]
      /\ \A t \in Saves \ {s} : save'[t] = save[t]
      /\ save'[s].kind = save[s].kind /\ save'[s].pc = "insert"
  BY <1>1, <1>2
<1>4. rows' \in Seq(Row)
  BY DEF TypeOK
<1> QED
  BY <1>3, <1>4, TypesFrame DEF TypeOK, ScanDocs, UploadPcs

-----------------------------------------------------------------------------
(* The steps that insert nothing.                                          *)

LEMMA TagFrame ==
  ASSUME TagInv, TypeOK', UNCHANGED rows, clock' >= clock, NEW s \in Saves,
         \A t \in Saves \ {s} : save'[t] = save[t],
         SaveKnows(s)', save'[s].pc = "insert" => Inserting(s)',
         \/ save'[s].input = save[s].input /\ save'[s].seen = save[s].seen
         \/ \A j \in DOMAIN rows : SaverOf(j) # s
  PROVE  TagInv'
<1>1. clock \in Nat /\ clock' \in Nat /\ rows \in Seq(Row)
  BY DEF TagInv, TypeOK
<1>2. \A j \in DOMAIN rows : rows[j].createdAt \in Nat /\ SaverOf(j) \in Saves
  BY <1>1, RowFacts DEF SaverOf
<1>3. SavesKnow'
  <2>1. ASSUME NEW t \in Saves \ {s}
        PROVE  SaveKnows(t)' /\ (save'[t].pc = "insert" => Inserting(t)')
    <3>1. SaveKnows(t) /\ (save[t].pc = "insert" => Inserting(t))
      BY DEF TagInv, SavesKnow
    <3>2. save'[t] = save[t]
      OBVIOUS
    <3>3. SaveKnows(t)'
      BY <3>1, <3>2 DEF SaveKnows, SaverOf
    <3>4. ASSUME save'[t].pc = "insert" PROVE Inserting(t)'
      <4>1. Inserting(t) /\ save[t].date \in Nat
        BY <3>1, <3>2, <3>4 DEF TagInv, TypeOK, SaveState
      <4>2. save'[t].date < clock'
        BY <1>1, <3>2, <4>1 DEF Inserting
      <4>3. Accepted(t)' = Accepted(t)
        BY <3>2 DEF Accepted
      <4> QED
        BY <3>2, <4>1, <4>2, <4>3 DEF Inserting, SaverOf, PlaceOf
    <3> QED
      BY <3>3, <3>4
  <2> QED
    BY <2>1 DEF SavesKnow
<1>4. \A j \in DOMAIN rows : /\ save'[SaverOf(j)].input = save[SaverOf(j)].input
                             /\ save'[SaverOf(j)].seen = save[SaverOf(j)].seen
  BY <1>2
<1>5. RowsTagged'
  BY <1>1, <1>2, <1>4 DEF TagInv, RowsTagged, SaverOf, PlaceOf
<1>6. InOrder' /\ NoneSkipped'
  BY <1>4 DEF TagInv, InOrder, NoneSkipped, SaverOf, PlaceOf
<1> QED
  BY <1>3, <1>5, <1>6 DEF TagInv

\* The steps that leave what the save brings and has seen alone.
LEMMA MoveTags ==
  ASSUME TagInv, TypeOK', NEW s \in Saves,
         \/ MarkAssetRunning(s) \/ InsertReturns(s) \/ Finish(s) \/ FinishAsset(s)
         \/ Error(s) \/ FailScan(s) \/ FailAsset(s) \/ Crash(s)
  PROVE  TagInv'
<1>1. /\ save[s] \in SaveState /\ save \in [Saves -> SaveState] /\ clock \in Nat
      /\ SaveKnows(s)
  BY DEF TagInv, TypeOK, SavesKnow
<1>2. PICK pc \in {"stats", "finish", "finishAsset", "fail", "failAsset", "done"},
           todo \in {{}, save[s].todo} :
        /\ save' = [save EXCEPT ![s].pc = pc, ![s].todo = todo]
        /\ pc = "stats" => save[s].pc = "asset"
  BY <1>1
  DEF SaveState, Goto, MarkAssetRunning, InsertReturns, Finish, FinishAsset, Error,
      Guarded, FailScan, FailAsset, Crash
<1>3. UNCHANGED <<rows, clock>>
  BY DEF MarkAssetRunning, InsertReturns, Finish, FinishAsset, Error, FailScan,
         FailAsset, Crash
<1>4. /\ \A t \in Saves \ {s} : save'[t] = save[t]
      /\ save'[s].pc = pc /\ save'[s].input = save[s].input
      /\ save'[s].seen = save[s].seen
  BY <1>1, <1>2 DEF SaveState
<1>5. SaveKnows(s)'
  BY <1>1, <1>2, <1>3, <1>4 DEF SaveKnows, SaverOf
<1> QED
  BY <1>1, <1>3, <1>4, <1>5, TagFrame

LEMMA BeginTags ==
  ASSUME TagInv, TypeOK', NEW s \in Saves, NEW kind \in Kinds, NEW input \in Inputs,
         Begin(s, kind, input)
  PROVE  TagInv'
<1>1. /\ save[s] \in SaveState /\ save \in [Saves -> SaveState] /\ clock \in Nat
      /\ SaveKnows(s) /\ save[s].pc = "idle" /\ UNCHANGED <<rows, clock>>
  BY DEF TagInv, TypeOK, SavesKnow, Begin
<1>2. /\ \A t \in Saves \ {s} : save'[t] = save[t]
      /\ save'[s].pc \in {"asset", "stats", "done"} /\ save'[s].seen = save[s].seen
  BY <1>1 DEF Begin, SaveState
<1>3. \A j \in DOMAIN rows : SaverOf(j) # s
  BY <1>1 DEF SaveKnows
<1>4. SaveKnows(s)'
  BY <1>1, <1>2, <1>3 DEF SaveKnows, SaverOf
<1> QED
  BY <1>1, <1>2, <1>3, <1>4, TagFrame

LEMMA ReadTags ==
  ASSUME TagInv, TypeOK', NEW s \in Saves, ReadStats(s)
  PROVE  TagInv'
<1>1. /\ save[s] \in SaveState /\ save \in [Saves -> SaveState] /\ clock \in Nat
      /\ SaveKnows(s) /\ save[s].pc = "stats" /\ UNCHANGED <<rows, clock>>
      /\ rows \in Seq(Row)
  BY DEF TagInv, TypeOK, SavesKnow, ReadStats
<1>2. /\ \A t \in Saves \ {s} : save'[t] = save[t]
      /\ save'[s].pc = "tag" /\ save'[s].seen = Len(rows) /\ save'[s].stats = Stats
  BY <1>1 DEF ReadStats, SaveState
<1>3. \A j \in DOMAIN rows : SaverOf(j) # s
  BY <1>1 DEF SaveKnows
<1>4. SaveKnows(s)'
  <2>1. Len(rows) <= Len(rows)
    BY <1>1, RowFacts
  <2> QED
    BY <1>1, <1>2, <1>3, <2>1, StatsFacts DEF SaveKnows, SaverOf
<1> QED
  BY <1>1, <1>2, <1>3, <1>4, TagFrame

LEMMA TagTags ==
  ASSUME TagInv, TypeOK', NEW s \in Saves, Tag(s)
  PROVE  TagInv'
<1>1. /\ save[s] \in SaveState /\ save \in [Saves -> SaveState] /\ clock \in Nat
      /\ SaveKnows(s) /\ save[s].pc = "tag" /\ rows \in Seq(Row)
      /\ rows' = rows /\ clock' = clock + 1
  BY DEF TagInv, TypeOK, SavesKnow, Tag
<1>2. /\ \A t \in Saves \ {s} : save'[t] = save[t]
      /\ save'[s].pc = "insert" /\ save'[s].seen = save[s].seen
      /\ save'[s].input = save[s].input /\ save'[s].stats = save[s].stats
      /\ save'[s].todo = Accepted(s) /\ save'[s].date = clock
  BY <1>1 DEF Tag, SaveState
<1>3. \A j \in DOMAIN rows : SaverOf(j) # s
  BY <1>1 DEF SaveKnows
<1>4. SaveKnows(s)'
  BY <1>1, <1>2, <1>3 DEF SaveKnows, SaverOf
<1>5. Inserting(s)'
  <2>1. \A h \in 1 .. save[s].seen : rows[h].createdAt < clock
    <3>1. save[s].seen \in 0 .. Len(rows)
      BY <1>1 DEF SaveState, SaveKnows
    <3> QED
      BY <1>1, <3>1, RowFacts DEF TagInv, RowsTagged
  <2>2. Accepted(s)' = Accepted(s)
    BY <1>2 DEF Accepted
  <2> QED
    BY <1>1, <1>2, <1>3, <2>1, <2>2 DEF Inserting, SaverOf
<1> QED
  BY <1>1, <1>2, <1>4, <1>5, TagFrame

-----------------------------------------------------------------------------
(* The step that inserts a row.                                            *)

\* What was seen stays as it was.
LEMMA SeenStays ==
  ASSUME NEW rs \in Seq(Row), NEW r \in Row, NEW n \in 0 .. Len(rs)
  PROVE  LET more == Append(rs, r) IN
         /\ \A h \in 1 .. n : more[h] = rs[h]
         /\ \A k : Of(more, n, k) = Of(rs, n, k)
         /\ \A k, h : IsFirst(rs, n, k, h) => IsFirst(more, n, k, h)
         /\ \A input, s, b, q : IsTagged(rs, input, n, s, b, q)
                                 => IsTagged(more, input, n, s, b, q)
<1> DEFINE more == Append(rs, r)
<1>1. \A h \in 1 .. n : more[h] = rs[h]
  OBVIOUS
<1> HIDE DEF more
<1>2. \A k : Of(more, n, k) = Of(rs, n, k)
  BY <1>1 DEF Of
<1>3. \A k, h : IsFirst(rs, n, k, h) => IsFirst(more, n, k, h)
  <2> SUFFICES ASSUME NEW k, NEW h, IsFirst(rs, n, k, h)
               PROVE  IsFirst(more, n, k, h)
    OBVIOUS
  <2>1. \A g \in Of(rs, n, k) : g \in 1 .. n
    BY DEF Of
  <2> QED
    BY <1>1, <1>2, <2>1 DEF IsFirst
<1>4. ASSUME NEW input, NEW s, NEW b, NEW q, IsTagged(rs, input, n, s, b, q)
      PROVE  IsTagged(more, input, n, s, b, q)
  BY <1>1, <1>2, <1>3, <1>4 DEF IsTagged, Number
<1> QED
  BY <1>1, <1>2, <1>3, <1>4 DEF more

LEMMA InsertTags ==
  ASSUME TagInv, NEW s \in Saves, InsertRow(s)
  PROVE  TagInv'
<1> DEFINE last == Len(rows) + 1
<1>1. /\ save[s] \in SaveState /\ save \in [Saves -> SaveState] /\ clock \in Nat
      /\ SaveKnows(s) /\ save[s].pc = "insert" /\ Inserting(s)
      /\ rows \in Seq(Row) /\ UNCHANGED <<scan, asset, clock>>
  BY DEF TagInv, TypeOK, SavesKnow, InsertRow
<1>2. PICK i \in save[s].todo :
        /\ \A j \in save[s].todo : i <= j
        /\ rows' = Append(rows, Tagged(s, i))
        /\ save' = [save EXCEPT ![s].todo = @ \ {i}]
  BY DEF InsertRow
<1>3. i \in Accepted(s) /\ i \in DOMAIN save[s].input /\ i \in Nat
      /\ save[s].todo \in SUBSET Nat
  BY <1>1 DEF Inserting, Accepted, SaveState
<1>4. /\ Tagged(s, i) \in Row /\ Tagged(s, i).createdAt = save[s].date
      /\ IsTagged(rows, save[s].input, save[s].seen, s, i, Tagged(s, i))
  BY <1>1, <1>3, TaggedFacts DEF TagInv
<1>5. Tagged(s, i).id = <<s, i>>
  BY <1>4 DEF IsTagged
<1>6. TypeOK'
  BY <1>1, <1>2, <1>4, InsertTypes DEF TagInv
<1> DEFINE row == Tagged(s, i)
<1> HIDE DEF row
<1>7. /\ Len(rows) \in Nat /\ DOMAIN rows = 1 .. Len(rows)
      /\ DOMAIN rows' = 1 .. last /\ Len(rows') = last
      /\ \A j \in 1 .. Len(rows) : rows'[j] = rows[j]
      /\ rows'[last] = row
  BY <1>1, <1>2, <1>4 DEF row
<1>8. /\ row.id = <<s, i>> /\ row.createdAt = save[s].date
      /\ IsTagged(rows, save[s].input, save[s].seen, s, i, row)
      /\ row.id[1] = s /\ row.id[2] = i /\ row \in Row /\ rows' = Append(rows, row)
  BY <1>2, <1>4, <1>5 DEF row
<1>9. /\ \A t \in Saves \ {s} : save'[t] = save[t]
      /\ save'[s].pc = "insert" /\ save'[s].todo = save[s].todo \ {i}
      /\ \A t \in Saves : /\ save'[t].input = save[t].input
                          /\ save'[t].seen = save[t].seen
                          /\ save'[t].stats = save[t].stats
                          /\ save'[t].date = save[t].date
                          /\ save'[t].pc = save[t].pc
  BY <1>1, <1>2 DEF SaveState
<1>10. \A t \in Saves : Accepted(t)' = Accepted(t)
  BY <1>9 DEF Accepted
<1>11. ASSUME NEW t \in Saves PROVE SaveKnows(t) /\ save[t].seen \in 0 .. Len(rows)
  <2>1. save[t].seen \in Nat
    BY <1>1 DEF SaveState
  <2>2. SaveKnows(t)
    BY DEF TagInv, SavesKnow
  <2> QED
    BY <1>7, <2>1, <2>2 DEF SaveKnows
<1>12. ASSUME NEW t \in Saves PROVE SaveKnows(t)'
  <2> DEFINE seen == save[t].seen
  <2>1. /\ seen \in 0 .. Len(rows) /\ SaveKnows(t)
    BY <1>11
  <2> HIDE DEF seen
  <2>2. /\ \A h \in 1 .. seen : rows'[h] = rows[h]
        /\ \A k : Of(rows', seen, k) = Of(rows, seen, k)
        /\ \A k, h : IsFirst(rows, seen, k, h) => IsFirst(rows', seen, k, h)
    BY <1>1, <1>8, <2>1, SeenStays
  <2>3. seen <= Len(rows')
    BY <1>7, <2>1
  <2>4. save[t].pc \in {"idle", "asset", "stats", "tag"}
          => \A j \in 1 .. last : rows'[j].id[1] # t
    BY <1>1, <1>7, <1>8, <2>1 DEF SaveKnows, SaverOf
  <2> QED
    BY <1>7, <1>9, <2>1, <2>2, <2>3, <2>4 DEF SaveKnows, SaverOf, seen
<1>13. ASSUME NEW t \in Saves, save[t].pc = "insert" PROVE Inserting(t)'
  <2>1. Inserting(t) /\ save[t].seen \in 0 .. Len(rows)
    BY <1>11, <1>13 DEF TagInv, SavesKnow
  <2>2. save'[t].date < clock' /\ save'[t].todo \subseteq Accepted(t)'
    BY <1>1, <1>9, <1>10, <2>1 DEF Inserting
  <2>3. \A h \in 1 .. save'[t].seen : rows'[h].createdAt < save'[t].date
    BY <1>7, <1>9, <2>1 DEF Inserting
  <2>4. ASSUME NEW j \in 1 .. last, rows'[j].id[1] = t
        PROVE  /\ rows'[j].createdAt = save'[t].date
               /\ \A b \in save'[t].todo : rows'[j].id[2] < b
    <3>1. CASE j = last
      <4>1. t = s /\ \A b \in save[s].todo \ {i} : i < b
        BY <1>2, <1>3, <1>7, <1>8, <2>4, <3>1
      <4> QED
        BY <1>7, <1>8, <1>9, <3>1, <4>1
    <3>2. CASE j \in 1 .. Len(rows)
      <4>1. /\ rows[j].createdAt = save[t].date
            /\ \A b \in save[t].todo : rows[j].id[2] < b
        BY <1>7, <2>1, <2>4, <3>2 DEF Inserting, SaverOf, PlaceOf
      <4> QED
        BY <1>7, <1>9, <3>2, <4>1
    <3> QED
      BY <1>7, <3>1, <3>2
  <2>5. ASSUME NEW c \in Accepted(t) \ save'[t].todo
        PROVE  \E j \in 1 .. last : rows'[j].id = <<t, c>>
    <3>1. CASE t = s /\ c = i
      BY <1>7, <1>8, <3>1
    <3>2. CASE ~(t = s /\ c = i)
      <4>1. c \notin save[t].todo
        BY <1>9, <3>2
      <4>2. PICK j \in 1 .. Len(rows) : rows[j].id = <<t, c>>
        BY <1>7, <2>1, <4>1 DEF Inserting
      <4> QED
        BY <1>7, <4>2
    <3> QED
      BY <3>1, <3>2
  <2> QED
    BY <1>7, <1>10, <2>2, <2>3, <2>4, <2>5 DEF Inserting, SaverOf, PlaceOf
<1>14. SavesKnow'
  BY <1>9, <1>12, <1>13 DEF SavesKnow
<1>15. RowsTagged'
  <2>1. ASSUME NEW j \in 1 .. Len(rows)
        PROVE  LET t == rows'[j].id[1] IN
               /\ t \in Saves /\ save'[t].seen < j /\ rows'[j].createdAt < clock'
               /\ IsTagged(rows', save'[t].input, save'[t].seen, t, rows'[j].id[2], rows'[j])
    <3> DEFINE t == rows[j].id[1]
    <3>1. /\ t \in Saves /\ save[t].seen < j /\ rows[j].createdAt < clock
          /\ IsTagged(rows, save[t].input, save[t].seen, t, rows[j].id[2], rows[j])
      BY <1>7 DEF TagInv, RowsTagged, SaverOf, PlaceOf
    <3>2. IsTagged(rows', save[t].input, save[t].seen, t, rows[j].id[2], rows[j])
      BY <1>1, <1>8, <1>11, <3>1, SeenStays
    <3> QED
      BY <1>1, <1>7, <1>9, <3>1, <3>2
  <2>2. /\ save'[s].seen < last /\ row.createdAt < clock'
        /\ IsTagged(rows', save'[s].input, save'[s].seen, s, i, row)
    <3>1. IsTagged(rows', save[s].input, save[s].seen, s, i, row)
      BY <1>1, <1>8, <1>11, SeenStays
    <3>2. save[s].seen < last
      BY <1>7, <1>11
    <3> QED
      BY <1>1, <1>8, <1>9, <3>1, <3>2 DEF Inserting
  <2> QED
    BY <1>7, <1>8, <2>1, <2>2 DEF RowsTagged, SaverOf, PlaceOf
<1>16. InOrder'
  <2>1. ASSUME NEW j \in 1 .. Len(rows), rows[j].id[1] = s
        PROVE  rows[j].createdAt = row.createdAt /\ rows[j].id[2] < row.id[2]
    BY <1>1, <1>7, <1>8, <2>1 DEF Inserting, SaverOf, PlaceOf
  <2>2. ASSUME NEW j \in 1 .. last, NEW h \in 1 .. last, rows'[h].id[1] = rows'[j].id[1]
        PROVE  /\ rows'[h].createdAt = rows'[j].createdAt
               /\ h < j => rows'[h].id[2] < rows'[j].id[2]
    <3>1. CASE h \in 1 .. Len(rows) /\ j \in 1 .. Len(rows)
      BY <1>7, <2>2, <3>1 DEF TagInv, InOrder, SaverOf, PlaceOf
    <3>2. CASE h \in 1 .. Len(rows) /\ j = last
      BY <1>7, <1>8, <2>1, <2>2, <3>2
    <3>3. CASE h = last /\ j \in 1 .. Len(rows)
      BY <1>7, <1>8, <2>1, <2>2, <3>3
    <3> QED
      BY <1>7, <3>1, <3>2, <3>3
  <2> QED
    BY <1>7, <2>2 DEF InOrder, SaverOf, PlaceOf
<1>17. NoneSkipped'
  <2>1. ASSUME NEW j \in 1 .. last, NEW c \in Takes(save'[rows'[j].id[1]].input),
               c < rows'[j].id[2]
        PROVE  \E h \in 1 .. last : h < j /\ rows'[h].id = <<rows'[j].id[1], c>>
    <3>1. CASE j \in 1 .. Len(rows)
      <4>1. rows[j].id[1] \in Saves /\ rows'[j] = rows[j]
        BY <1>1, <1>7, <3>1, RowFacts
      <4>2. c \in Takes(save[rows[j].id[1]].input)
        BY <1>9, <2>1, <4>1
      <4>3. PICK h \in 1 .. Len(rows) : h < j /\ rows[h].id = <<rows[j].id[1], c>>
        BY <1>7, <2>1, <3>1, <4>1, <4>2
        DEF TagInv, NoneSkipped, SaverOf, PlaceOf
      <4> QED
        BY <1>7, <4>1, <4>3
    <3>2. CASE j = last
      <4>1. c \in Accepted(s) /\ c < i
        BY <1>7, <1>8, <1>9, <2>1, <3>2 DEF Accepted, Takes
      <4>2. c \notin save[s].todo
        BY <1>2, <1>3, <4>1
      <4>3. PICK h \in 1 .. Len(rows) : rows[h].id = <<s, c>>
        BY <1>1, <1>7, <4>1, <4>2 DEF Inserting
      <4> QED
        BY <1>7, <1>8, <3>2, <4>3
    <3> QED
      BY <1>7, <3>1, <3>2
  <2> QED
    BY <1>7, <2>1 DEF NoneSkipped, SaverOf, PlaceOf
<1> QED
  BY <1>6, <1>14, <1>15, <1>16, <1>17 DEF TagInv

LEMMA TagInvKept == TagInv /\ [Next]_vars => TagInv'
<1> SUFFICES ASSUME TagInv, [Next]_vars PROVE TagInv'
  OBVIOUS
<1>1. ASSUME NEW s \in Saves, SaveStep(s) PROVE TagInv'
  <2>1. CASE \E kind \in Kinds, input \in Inputs : Begin(s, kind, input)
    BY <2>1, BeginTags, BeginTypes DEF TagInv
  <2>2. CASE ReadStats(s) \/ Tag(s)
    BY <2>2, ReadTags, TagTags, AskTypes DEF TagInv
  <2>3. CASE InsertRow(s)
    BY <2>3, InsertTags
  <2>4. CASE \/ MarkAssetRunning(s) \/ InsertReturns(s) \/ Finish(s) \/ FinishAsset(s)
             \/ Error(s) \/ FailScan(s) \/ FailAsset(s) \/ Crash(s)
    <3>1. TypeOK'
      BY <2>4, MoveTypes DEF TagInv
    <3> QED
      BY <2>4, <3>1, MoveTags
  <2> QED
    BY <1>1, <2>1, <2>2, <2>3, <2>4 DEF SaveStep
<1>2. CASE UNCHANGED vars
  <2>1. TypeOK' /\ UNCHANGED <<rows, save, clock>>
    BY <1>2 DEF vars, TagInv, TypeOK
  <2>2. ASSUME NEW s \in Saves, SaveKnows(s) PROVE SaveKnows(s)'
    BY <2>1, <2>2 DEF SaveKnows, SaverOf
  <2>3. ASSUME NEW s \in Saves, Inserting(s) PROVE Inserting(s)'
    BY <2>1, <2>3 DEF Inserting, SaverOf, PlaceOf, Accepted
  <2>4. SavesKnow'
    BY <2>1, <2>2, <2>3 DEF TagInv, SavesKnow
  <2>5. RowsTagged'
    BY <2>1 DEF TagInv, RowsTagged, SaverOf, PlaceOf
  <2>6. InOrder'
    BY <2>1 DEF TagInv, InOrder, SaverOf, PlaceOf
  <2>7. NoneSkipped'
    BY <2>1 DEF TagInv, NoneSkipped, SaverOf, PlaceOf
  <2> QED
    BY <2>1, <2>4, <2>5, <2>6, <2>7 DEF TagInv
<1> QED
  BY <1>1, <1>2 DEF Next

LEMMA InitTagInv == Init => TagInv
<1> SUFFICES ASSUME Init PROVE TagInv
  OBVIOUS
<1>1. TypeOK /\ DOMAIN rows = {} /\ Len(rows) = 0
  BY InitTypes DEF Init
<1> QED
  BY <1>1 DEF Init, TagInv, SavesKnow, SaveKnows, RowsTagged, InOrder, NoneSkipped

\* The state of every save, row, scan, asset and clock is well typed.
THEOREM TypeCorrect == Spec => []TypeOK
<1>1. TagInv => TypeOK
  BY DEF TagInv
<1> QED
  BY <1>1, InitTagInv, TagInvKept, PTL DEF Spec

-----------------------------------------------------------------------------
(* Duplicates.                                                             *)

\* What the invariant says of one row.
LEMMA RowKnown ==
  ASSUME TagInv, NEW j \in DOMAIN rows
  PROVE  LET t == SaverOf(j)
             b == PlaceOf(j)
             input == save[t].input
             n == save[t].seen
         IN  /\ j \in 1 .. Len(rows) /\ Len(rows) \in Nat
             /\ t \in Saves /\ n \in Nat /\ n < j /\ input \in Inputs
             /\ b \in DOMAIN input /\ b \in Nat /\ rows[j].id = <<t, b>>
             /\ rows[j].key \in Keys /\ rows[j].key = input[b].key
             /\ rows[j].createdAt \in Nat /\ rows[j].occurrence \in Nat
             /\ rows[j].occurrence = Number(rows, input, n, b)
             /\ IsTagged(rows, input, n, t, b, rows[j])
<1>1. /\ rows \in Seq(Row) /\ save \in [Saves -> SaveState]
  BY DEF TagInv, TypeOK
<1>2. /\ j \in 1 .. Len(rows) /\ Len(rows) \in Nat
      /\ SaverOf(j) \in Saves /\ PlaceOf(j) \in Nat /\ rows[j].key \in Keys
      /\ rows[j].createdAt \in Nat /\ rows[j].occurrence \in Nat
  BY <1>1, RowFacts DEF SaverOf, PlaceOf
<1>3. save[SaverOf(j)].input \in Inputs /\ save[SaverOf(j)].seen \in Nat
  BY <1>1, <1>2 DEF SaveState
<1>4. /\ save[SaverOf(j)].seen < j
      /\ IsTagged(rows, save[SaverOf(j)].input, save[SaverOf(j)].seen, SaverOf(j),
                  PlaceOf(j), rows[j])
  BY DEF TagInv, RowsTagged
<1> QED
  BY <1>2, <1>3, <1>4 DEF IsTagged

\* As long as no row of its key is rejected, the findings of a batch before a
\* stored one are stored before it.
LEMMA BatchStored ==
  ASSUME TagInv, NEW j \in DOMAIN rows, Clean(rows[j].key),
         NEW c \in Same(save[SaverOf(j)].input, PlaceOf(j))
  PROVE  \E i \in DOMAIN rows : /\ i <= j /\ rows[i].id = <<SaverOf(j), c>>
                               /\ SaverOf(i) = SaverOf(j) /\ PlaceOf(i) = c
                               /\ rows[i].key = rows[j].key
                               /\ save[SaverOf(j)].seen < i
<1> DEFINE t == SaverOf(j)
           b == PlaceOf(j)
           input == save[t].input
<1>1. /\ t \in Saves /\ input \in Inputs /\ b \in DOMAIN input /\ b \in Nat
      /\ rows[j].key = input[b].key /\ rows[j].id = <<t, b>> /\ j \in Nat
  BY RowKnown
<1>2. c \in 1 .. b /\ input[c].key = rows[j].key
  BY <1>1 DEF Same
<1>3. c \in DOMAIN input
  BY <1>1, <1>2, BatchFacts
<1>4. ASSUME NEW i \in DOMAIN rows, i <= j, rows[i].id = <<t, c>>
      PROVE  /\ SaverOf(i) = t /\ PlaceOf(i) = c /\ rows[i].key = rows[j].key
             /\ save[t].seen < i
  <2>1. SaverOf(i) = t /\ PlaceOf(i) = c
    BY <1>4 DEF SaverOf, PlaceOf
  <2> QED
    BY <1>2, <2>1, RowKnown
<1>5. CASE c = b
  BY <1>1, <1>4, <1>5
<1>6. CASE c # b
  <2>1. c \in Takes(input)
    BY <1>1, <1>2, <1>3 DEF Clean, Takes
  <2>2. c < b
    BY <1>1, <1>2, <1>6
  <2>3. PICK i \in DOMAIN rows : i < j /\ rows[i].id = <<t, c>>
    BY <2>1, <2>2 DEF TagInv, NoneSkipped
  <2>4. i <= j
    BY <1>1, <2>3, RowKnown
  <2> QED
    BY <1>4, <2>3, <2>4
<1> QED
  BY <1>5, <1>6

LEMMA Resolved == TagInv => DuplicatesResolve
<1> SUFFICES ASSUME TagInv, NEW j \in DOMAIN rows, Clean(rows[j].key)
             PROVE  IF rows[j].occurrence = 1 THEN rows[j].original = NoId
                    ELSE \E i \in DOMAIN rows :
                           Twins(i, j) /\ rows[i].id = rows[j].original
  BY DEF DuplicatesResolve
<1> DEFINE t == SaverOf(j)
           b == PlaceOf(j)
           input == save[t].input
           n == save[t].seen
<1>1. /\ j \in 1 .. Len(rows) /\ Len(rows) \in Nat /\ n \in Nat /\ n < j
      /\ input \in Inputs /\ b \in DOMAIN input /\ rows[j].id = <<t, b>>
      /\ IsTagged(rows, input, n, t, b, rows[j]) /\ DOMAIN rows = 1 .. Len(rows)
  BY RowKnown, RowFacts DEF TagInv, TypeOK
<1>2. CASE rows[j].occurrence = 1
  BY <1>1, <1>2 DEF IsTagged
<1>3. ASSUME NEW h \in 1 .. n, IsFirst(rows, n, rows[j].key, h),
             rows[j].original = rows[h].id
      PROVE  h \in DOMAIN rows /\ Twins(h, j) /\ rows[h].id = rows[j].original
  <2>1. h \in 1 .. Len(rows) /\ h < j
    BY <1>1
  <2>2. rows[h].key = rows[j].key
    BY <1>3 DEF IsFirst, Of
  <2> QED
    BY <1>1, <1>3, <2>1, <2>2 DEF Twins
<1>4. CASE /\ rows[j].original = <<t, Min(Same(input, b))>>
           /\ Min(Same(input, b)) < b
  <2>1. Min(Same(input, b)) \in Same(input, b)
    BY <1>1, SameFacts
  <2>2. PICK i \in DOMAIN rows : /\ i <= j /\ rows[i].id = <<t, Min(Same(input, b))>>
                               /\ rows[i].key = rows[j].key
    BY <2>1, BatchStored
  <2>3. Min(Same(input, b)) # b /\ i \in Nat
    BY <1>1, <1>4, <2>1, SameFacts
  <2>4. i # j
    BY <1>1, <2>2, <2>3
  <2>5. i < j
    BY <1>1, <2>2, <2>3, <2>4
  <2> QED
    BY <1>4, <2>2, <2>5, <1>2 DEF Twins
<1> QED
  BY <1>1, <1>2, <1>3, <1>4 DEF IsTagged

\* A row's number is at most its rank under its key, for what its save saw and
\* what its batch put before it are different rows.
LEMMA NumberBound ==
  ASSUME TagInv, NEW j \in DOMAIN rows, Clean(rows[j].key)
  PROVE  rows[j].occurrence <= Cardinality(Of(rows, j, rows[j].key))
<1> DEFINE t == SaverOf(j)
           b == PlaceOf(j)
           k == rows[j].key
           input == save[t].input
           n == save[t].seen
           same == Same(input, b)
           own == {h \in (n + 1) .. j : rows[h].key = k /\ rows[h].id[1] = t}
<1>1. /\ j \in 1 .. Len(rows) /\ Len(rows) \in Nat /\ n \in Nat /\ n < j
      /\ input \in Inputs /\ b \in DOMAIN input /\ k = input[b].key
      /\ rows[j].occurrence = Cardinality(Of(rows, n, k)) + Cardinality(same)
  BY RowKnown DEF Number
<1>2. /\ IsFiniteSet(Of(rows, n, k)) /\ Cardinality(Of(rows, n, k)) \in Nat
      /\ IsFiniteSet(own) /\ Cardinality(own) \in Nat
      /\ IsFiniteSet(Of(rows, j, k)) /\ Cardinality(Of(rows, j, k)) \in Nat
  <2>1. /\ Of(rows, n, k) \in SUBSET (1 .. n) /\ own \in SUBSET (1 .. j)
        /\ Of(rows, j, k) \in SUBSET (1 .. j) /\ j \in Nat
    BY <1>1 DEF Of
  <2> HIDE DEF own, n, k
  <2> QED
    BY <1>1, <2>1, Count
<1>3. Cardinality(same) <= Cardinality(own)
  <2> DEFINE f == [c \in same |-> CHOOSE h \in own : rows[h].id = <<t, c>>]
  <2>1. \A c \in same : \E h \in own : rows[h].id = <<t, c>>
    <3> SUFFICES ASSUME NEW c \in same PROVE \E h \in own : rows[h].id = <<t, c>>
      OBVIOUS
    <3>1. PICK h \in DOMAIN rows : h <= j /\ rows[h].id = <<t, c>> /\ SaverOf(h) = t
                                 /\ rows[h].key = k /\ n < h
      BY BatchStored
    <3>2. h \in (n + 1) .. j
      BY <1>1, <3>1, RowKnown
    <3> QED
      BY <3>1, <3>2 DEF SaverOf
  <2>2. \A c \in same : f[c] \in own /\ rows[f[c]].id = <<t, c>>
    BY <2>1
  <2>3. f \in [same -> own]
    BY <2>2
  <2> HIDE DEF f, own, same, t
  <2>4. \A c, d \in same : f[c] = f[d] => c = d
    BY <2>2
  <2> QED
    BY <1>2, <2>3, <2>4, CountMapped
<1>4. /\ Of(rows, n, k) \cap own = {}
      /\ Of(rows, n, k) \cup own \in SUBSET Of(rows, j, k)
  BY <1>1 DEF Of
<1>5. Cardinality(Of(rows, n, k)) + Cardinality(own) <= Cardinality(Of(rows, j, k))
  <2>1. Cardinality(Of(rows, n, k) \cup own)
          = Cardinality(Of(rows, n, k)) + Cardinality(own) - Cardinality({})
    BY <1>2, <1>4, FS_Union
  <2>2. Cardinality({}) = 0
    BY FS_EmptySet
  <2>3. Cardinality(Of(rows, n, k) \cup own) <= Cardinality(Of(rows, j, k))
    BY <1>2, <1>4, FS_Subset
  <2> QED
    BY <1>2, <2>1, <2>2, <2>3
<1>6. Cardinality(same) \in Nat
  BY <1>1, SameFacts
<1> QED
  BY <1>1, <1>2, <1>3, <1>5, <1>6

LEMMA Growing == TagInv => NumbersGrow
<1> SUFFICES ASSUME TagInv, NEW i \in DOMAIN rows, NEW j \in DOMAIN rows,
                    Twins(i, j), Clean(rows[i].key),
                    SaverOf(i) = SaverOf(j) \/ save[SaverOf(j)].seen >= i
             PROVE  rows[i].occurrence < rows[j].occurrence
  BY DEF NumbersGrow, SaverOf
<1> DEFINE k == rows[j].key
           input == save[SaverOf(j)].input
           n == save[SaverOf(j)].seen
           same == Same(input, PlaceOf(j))
<1>1. /\ rows[i].key = k /\ i < j /\ i \in Nat /\ j \in 1 .. Len(rows) /\ n \in Nat
      /\ rows[i].occurrence \in Nat /\ rows[j].occurrence \in Nat
      /\ input \in Inputs /\ PlaceOf(j) \in DOMAIN input
      /\ PlaceOf(i) \in Nat /\ PlaceOf(j) \in Nat
      /\ k = input[PlaceOf(j)].key /\ n < j
  BY RowKnown DEF Twins
<1>2. /\ rows[j].occurrence = Cardinality(Of(rows, n, k)) + Cardinality(same)
      /\ Cardinality(Of(rows, n, k)) \in Nat
      /\ Cardinality(same) \in Nat /\ Cardinality(same) >= 1
  <2>1. Of(rows, n, k) \in SUBSET (1 .. n)
    BY DEF Of
  <2>2. Cardinality(Of(rows, n, k)) \in Nat
    BY <1>1, <2>1, Count
  <2>3. rows[j].occurrence = Cardinality(Of(rows, n, k)) + Cardinality(same)
    BY RowKnown DEF Number
  <2> QED
    BY <1>1, <2>2, <2>3, SameFacts
<1>3. CASE SaverOf(i) = SaverOf(j)
  <2> DEFINE less == Same(input, PlaceOf(i))
  <2>1. PlaceOf(i) < PlaceOf(j)
    BY <1>1, <1>3 DEF TagInv, InOrder
  <2>2. /\ rows[i].occurrence = Cardinality(Of(rows, n, k)) + Cardinality(less)
        /\ PlaceOf(i) \in DOMAIN input /\ input[PlaceOf(i)].key = k
    BY <1>1, <1>3, RowKnown DEF Number
  <2>3. /\ PlaceOf(j) \in same /\ PlaceOf(j) \notin less /\ less \in SUBSET same
        /\ same \in SUBSET (1 .. PlaceOf(j))
    BY <1>1, <2>1, <2>2, SameFacts DEF Same
  <2>4. Cardinality(less) < Cardinality(same)
    BY <1>1, <2>3, CountLess
  <2>5. Cardinality(less) \in Nat
    BY <1>1, <2>2, SameFacts
  <2> QED
    BY <1>2, <2>2, <2>4, <2>5
<1>4. CASE n >= i
  <2>1. /\ Of(rows, i, k) \in SUBSET Of(rows, n, k)
        /\ Of(rows, n, k) \in SUBSET (1 .. n) /\ Of(rows, i, k) \in SUBSET (1 .. i)
    BY <1>1, <1>4 DEF Of
  <2>2. Cardinality(Of(rows, i, k)) <= Cardinality(Of(rows, n, k))
    BY <1>1, <2>1, CountLess
  <2>3. Cardinality(Of(rows, i, k)) \in Nat
    BY <1>1, <2>1, Count
  <2>4. rows[i].occurrence <= Cardinality(Of(rows, i, k))
    BY <1>1, NumberBound
  <2> QED
    BY <1>1, <1>2, <2>2, <2>3, <2>4
<1> QED
  BY <1>3, <1>4

\* However many saves overlap, fail or die: numbers of a key grow, except between
\* saves that asked before the other's row was stored, and every duplicate names a
\* row stored before it (saveFindings, createManual).  Keys of which the schema
\* rejects a finding are left out: see DuplicateLinksOriginal.
THEOREM DuplicatesAlwaysTrue == Spec => []DuplicatesTrue
<1>1. TagInv => DuplicatesTrue
  BY Resolved, Growing DEF DuplicatesTrue
<1> QED
  BY <1>1, InitTagInv, TagInvKept, PTL DEF Spec

-----------------------------------------------------------------------------
(* Saves of a key that do not overlap.                                     *)

\* Among the rows a save has not seen, only its own bear the key.
LEMMA OnlyOwn ==
  ASSUME TagInv, NEW j \in DOMAIN rows, Serial(rows[j].key),
         NEW i \in DOMAIN rows, i <= j, rows[i].key = rows[j].key,
         save[SaverOf(j)].seen < i
  PROVE  SaverOf(i) = SaverOf(j)
<1>1. i \in Nat /\ j \in Nat /\ save[SaverOf(j)].seen \in Nat
  BY RowKnown
<1>2. i \in Stored(rows[j].key) /\ j \in Stored(rows[j].key)
  BY DEF Stored
<1>3. ASSUME SaverOf(i) # SaverOf(j) PROVE FALSE
  <2>1. i < j
    BY <1>1, <1>3
  <2>2. save[SaverOf(j)].seen >= i
    BY <1>2, <1>3, <2>1 DEF Serial, SaverOf
  <2> QED
    BY <1>1, <2>2
<1> QED
  BY <1>3

LEMMA NumberIsRank ==
  ASSUME TagInv, NEW j \in DOMAIN rows, Clean(rows[j].key), Serial(rows[j].key)
  PROVE  rows[j].occurrence = Cardinality(Of(rows, j, rows[j].key))
<1> DEFINE t == SaverOf(j)
           b == PlaceOf(j)
           k == rows[j].key
           input == save[t].input
           n == save[t].seen
           same == Same(input, b)
           own == {h \in (n + 1) .. j : rows[h].key = k /\ rows[h].id[1] = t}
<1>1. /\ j \in 1 .. Len(rows) /\ Len(rows) \in Nat /\ n \in Nat /\ n < j /\ b \in Nat
      /\ input \in Inputs /\ b \in DOMAIN input /\ k = input[b].key
      /\ rows[j].occurrence = Cardinality(Of(rows, n, k)) + Cardinality(same)
      /\ rows[j].occurrence \in Nat /\ DOMAIN rows = 1 .. Len(rows)
  BY RowKnown, RowFacts DEF Number, TagInv, TypeOK
<1>2. same \in SUBSET (1 .. b) /\ IsFiniteSet(same) /\ Cardinality(same) \in Nat
  BY <1>1, SameFacts, Count
<1>3. /\ IsFiniteSet(Of(rows, n, k)) /\ Cardinality(Of(rows, n, k)) \in Nat
      /\ IsFiniteSet(own) /\ Cardinality(own) \in Nat
  <2>1. /\ Of(rows, n, k) \in SUBSET (1 .. n) /\ own \in SUBSET (1 .. j) /\ j \in Nat
    BY <1>1 DEF Of
  <2> HIDE DEF own, n, k
  <2> QED
    BY <1>1, <2>1, Count
<1>4. Cardinality(own) <= Cardinality(same)
  <2> DEFINE f == [h \in own |-> rows[h].id[2]]
  <2>1. ASSUME NEW h \in own
        PROVE  /\ h \in DOMAIN rows /\ SaverOf(h) = t /\ PlaceOf(h) = rows[h].id[2]
               /\ PlaceOf(h) \in same /\ h \in Nat
    <3> HIDE DEF n, k, t
    <3>0. h \in (n + 1) .. j /\ rows[h].key = k /\ rows[h].id[1] = t
      OBVIOUS
    <3>1. h \in DOMAIN rows /\ SaverOf(h) = t /\ h <= j /\ h \in Nat /\ rows[h].key = k
      BY <1>1, <3>0 DEF SaverOf
    <3> USE DEF n, k, t
    <3>2. PlaceOf(h) \in Nat /\ PlaceOf(h) \in DOMAIN input /\ input[PlaceOf(h)].key = k
      BY <3>1, RowKnown
    <3>3. PlaceOf(h) <= b
      <4>1. CASE h = j
        BY <1>1, <4>1
      <4>2. CASE h < j
        BY <1>1, <3>1, <3>2, <4>2 DEF TagInv, InOrder
      <4> QED
        BY <1>1, <3>1, <4>1, <4>2
    <3>4. PlaceOf(h) >= 1
      BY <1>1, <3>2, BatchFacts
    <3> QED
      <4>1. PlaceOf(h) \in 1 .. b /\ input[PlaceOf(h)].key = input[b].key
        BY <1>1, <3>2, <3>3, <3>4
      <4>2. PlaceOf(h) \in same
        BY <4>1 DEF Same
      <4> QED
        BY <3>1, <4>2 DEF PlaceOf
  <2>2. f \in [own -> same]
    BY <2>1
  <2>3. ASSUME NEW h \in own, NEW g \in own, f[h] = f[g] PROVE h = g
    <3>1. PlaceOf(h) = PlaceOf(g) /\ SaverOf(h) = SaverOf(g)
      BY <2>1, <2>3
    <3>2. h \in DOMAIN rows /\ g \in DOMAIN rows /\ h \in Nat /\ g \in Nat
      BY <2>1
    <3>3. PlaceOf(h) \in Nat
      BY <3>2, RowKnown
    <3>4. ~(h < g) /\ ~(g < h)
      BY <3>1, <3>2, <3>3 DEF TagInv, InOrder
    <3> QED
      BY <3>2, <3>4
  <2> HIDE DEF f, own, same
  <2> QED
    BY <1>2, <2>2, <2>3, CountMapped
<1>5. Of(rows, j, k) = Of(rows, n, k) \cup own
  <2>1. ASSUME NEW h \in Of(rows, j, k), h > n PROVE h \in own
    <3>1. h \in 1 .. j /\ rows[h].key = k /\ h \in DOMAIN rows
      BY <1>1 DEF Of
    <3>2. SaverOf(h) = t
      BY <1>1, <2>1, <3>1, OnlyOwn
    <3>3. h \in (n + 1) .. j
      BY <1>1, <2>1, <3>1
    <3> QED
      BY <3>1, <3>2, <3>3 DEF SaverOf
  <2>2. \A h \in Of(rows, j, k) : h \in 1 .. n \/ h > n
    BY <1>1 DEF Of
  <2>3. Of(rows, j, k) \subseteq Of(rows, n, k) \cup own
    BY <2>1, <2>2 DEF Of
  <2>4. own \subseteq Of(rows, j, k) /\ Of(rows, n, k) \subseteq Of(rows, j, k)
    BY <1>1 DEF Of
  <2> QED
    BY <2>3, <2>4
<1>6. Of(rows, n, k) \cap own = {}
  BY <1>1 DEF Of
<1>7. Cardinality(Of(rows, j, k)) = Cardinality(Of(rows, n, k)) + Cardinality(own)
  <2> HIDE DEF own
  <2>1. Cardinality(Of(rows, n, k) \cup own)
          = Cardinality(Of(rows, n, k)) + Cardinality(own) - Cardinality({})
    BY <1>3, <1>6, FS_Union
  <2> QED
    BY <1>3, <1>5, <2>1, FS_EmptySet
<1>8. rows[j].occurrence <= Cardinality(Of(rows, j, k))
  BY NumberBound
<1> QED
  BY <1>1, <1>2, <1>3, <1>4, <1>7, <1>8

\* The first row of the key is the one that all others name.
LEMMA OriginalIsFirst ==
  ASSUME TagInv, NEW j \in DOMAIN rows, Clean(rows[j].key), Serial(rows[j].key),
         rows[j].occurrence # 1
  PROVE  rows[j].original = rows[Min(Stored(rows[j].key))].id
<1> DEFINE t == SaverOf(j)
           b == PlaceOf(j)
           k == rows[j].key
           input == save[t].input
           n == save[t].seen
           same == Same(input, b)
           m == Min(Stored(k))
<1>1. /\ j \in 1 .. Len(rows) /\ Len(rows) \in Nat /\ n \in Nat /\ n < j /\ b \in Nat
      /\ input \in Inputs /\ b \in DOMAIN input /\ DOMAIN rows = 1 .. Len(rows)
      /\ IsTagged(rows, input, n, t, b, rows[j])
  BY RowKnown, RowFacts DEF TagInv, TypeOK
<1>2. m \in Stored(k) /\ \A h \in Stored(k) : m <= h
  <2>1. Stored(k) \in SUBSET Nat /\ Stored(k) # {}
    BY <1>1 DEF Stored
  <2> QED
    BY <2>1, MinIsLeast
<1> HIDE DEF m
<1>3. m \in 1 .. Len(rows) /\ m \in DOMAIN rows /\ rows[m].key = k /\ m <= j
  BY <1>1, <1>2 DEF Stored
<1>4. ASSUME NEW h \in 1 .. n, IsFirst(rows, n, k, h), rows[j].original = rows[h].id
      PROVE  h = m
  <2>1. h \in DOMAIN rows /\ h \in Stored(k) /\ h \in Nat /\ m <= h
    BY <1>1, <1>2, <1>4 DEF IsFirst, Of, Stored
  <2>2. ASSUME m < h PROVE FALSE
    <3>1. m \in Of(rows, n, k) /\ rows[h].createdAt \in Nat /\ rows[m].createdAt \in Nat
      BY <1>1, <1>3, <2>1, <2>2, RowKnown DEF Of
    <3>2. rows[h].createdAt < rows[m].createdAt
      BY <1>3, <1>4, <2>1, <2>2, <3>1 DEF IsFirst
    <3>3. SaverOf(m) # SaverOf(h)
      BY <1>3, <2>1, <3>1, <3>2 DEF TagInv, InOrder
    <3>4. save[SaverOf(h)].seen >= m
      BY <1>2, <2>1, <2>2, <3>3 DEF Serial, SaverOf
    <3>5. m \in 1 .. save[SaverOf(h)].seen
      BY <1>3, <2>1, <3>4, RowKnown
    <3>6. rows[m].createdAt < rows[h].createdAt
      BY <2>1, <3>5, RowKnown DEF IsTagged
    <3> QED
      BY <3>1, <3>2, <3>6
  <2> QED
    BY <1>3, <2>1, <2>2
<1>5. CASE Of(rows, n, k) = {} /\ rows[j].original = <<t, Min(same)>>
  <2>1. n < m
    BY <1>1, <1>3, <1>5 DEF Of
  <2>2. SaverOf(m) = t
    BY <1>3, <2>1, OnlyOwn
  <2>3. Min(same) \in same /\ (\A c \in same : Min(same) <= c) /\ same \in SUBSET (1 .. b)
    BY <1>1, SameFacts
  <2>4. PlaceOf(m) \in same /\ PlaceOf(m) \in Nat /\ rows[m].id = <<t, PlaceOf(m)>>
    <3>1. /\ PlaceOf(m) \in Nat /\ PlaceOf(m) \in DOMAIN input
          /\ input[PlaceOf(m)].key = k /\ rows[m].id = <<t, PlaceOf(m)>>
      BY <1>3, <2>2, RowKnown
    <3>2. PlaceOf(m) <= b
      <4>1. CASE m = j
        BY <1>1, <4>1
      <4>2. CASE m < j
        BY <1>1, <1>3, <2>2, <3>1, <4>2 DEF TagInv, InOrder
      <4> QED
        BY <1>1, <1>3, <4>1, <4>2
    <3>3. PlaceOf(m) >= 1
      BY <1>1, <3>1, BatchFacts
    <3> QED
      BY <1>1, <3>1, <3>2, <3>3, RowKnown DEF Same
  <2>5. PICK h \in DOMAIN rows : /\ SaverOf(h) = t /\ PlaceOf(h) = Min(same)
                               /\ rows[h].key = k
    BY <2>3, BatchStored
  <2>6. h \in Stored(k) /\ m <= h /\ h \in Nat
    BY <1>1, <1>2, <2>5 DEF Stored
  <2>7. ~(m < h)
    <3>1. ASSUME m < h PROVE FALSE
      <4>1. PlaceOf(m) < Min(same)
        BY <1>3, <2>2, <2>5, <3>1 DEF TagInv, InOrder
      <4> QED
        BY <2>3, <2>4, <4>1
    <3> QED
      BY <3>1
  <2>8. m = h
    BY <1>3, <2>6, <2>7
  <2> QED
    BY <1>5, <2>4, <2>5, <2>8 DEF m
<1> QED
  BY <1>1, <1>4, <1>5 DEF IsTagged, m

\* As long as the saves of a key do not overlap, its rows are numbered from one
\* without a gap and all name the first, also after saves that died halfway.
THEOREM SerialSavesAreExact == Spec => []SerialSavesExact
<1>1. TagInv => SerialSavesExact
  <2> SUFFICES ASSUME TagInv, NEW k \in Keys, Clean(k), Serial(k), NEW j \in Stored(k)
               PROVE  LET rank == Cardinality({i \in Stored(k) : i <= j})
                      IN  /\ rows[j].occurrence = rank
                          /\ rows[j].original =
                                IF rank = 1 THEN NoId ELSE rows[Min(Stored(k))].id
    BY DEF SerialSavesExact
  <2>1. j \in DOMAIN rows /\ rows[j].key = k
    BY DEF Stored
  <2>2. j \in 1 .. Len(rows) /\ DOMAIN rows = 1 .. Len(rows) /\ Len(rows) \in Nat
    BY <2>1, RowFacts DEF TagInv, TypeOK
  <2>3. {i \in Stored(k) : i <= j} = Of(rows, j, k)
    BY <2>2 DEF Of, Stored
  <2>4. rows[j].occurrence = Cardinality(Of(rows, j, k))
    BY <2>1, NumberIsRank
  <2>5. rows[j].occurrence = 1 => rows[j].original = NoId
    BY <2>1, Resolved DEF DuplicatesResolve
  <2>6. rows[j].occurrence # 1 => rows[j].original = rows[Min(Stored(k))].id
    BY <2>1, OriginalIsFirst
  <2> QED
    BY <2>3, <2>4, <2>5, <2>6
<1> QED
  BY <1>1, InitTagInv, TagInvKept, PTL DEF Spec

-----------------------------------------------------------------------------
(* Totals and verdicts of uploads.                                         *)

\* The rows of a save and what it has not inserted yet are what was accepted.
Counts(s) ==
    /\ save[s].pc \in {"idle", "asset", "stats", "tag"} => OwnRows(s) = {}
    /\ save[s].pc = "insert" =>
          Cardinality(OwnRows(s)) + Cardinality(save[s].todo) = Cardinality(Accepted(s))
    /\ save[s].pc = "finish" => Cardinality(OwnRows(s)) = Cardinality(Accepted(s))

\* An upload is completed only with the number of its rows, after which it
\* inserts none.
Totalled(s) == scan[s].status = "completed" =>
    /\ save[s].pc \in {"finishAsset", "fail", "failAsset", "done"}
    /\ scan[s].total = Cardinality(OwnRows(s))

TotalInv == TypeOK /\ \A s \in Saves : Counts(s) /\ Totalled(s)

\* Saves insert rows of their own only.
LEMMA RowsOfOthers ==
  ASSUME TypeOK, NEW s \in Saves, SaveStep(s)
  PROVE  /\ \A t \in Saves \ {s} : OwnRows(t)' = OwnRows(t)
         /\ save[s].pc # "insert" => OwnRows(s)' = OwnRows(s)
<1>1. CASE UNCHANGED rows
  BY <1>1 DEF OwnRows
<1>2. CASE InsertRow(s)
  <2>1. PICK i \in save[s].todo : rows' = Append(rows, Tagged(s, i))
    BY <1>2 DEF InsertRow
  <2>2. Tagged(s, i).id[1] = s
    BY DEF Tagged
  <2> DEFINE row == Tagged(s, i)
  <2> HIDE DEF row
  <2>3. /\ DOMAIN rows = 1 .. Len(rows) /\ Len(rows) \in Nat
        /\ DOMAIN rows' = 1 .. (Len(rows) + 1)
        /\ \A j \in 1 .. Len(rows) : rows'[j] = rows[j]
        /\ rows'[Len(rows) + 1] = row /\ row.id[1] = s
    BY <2>1, <2>2 DEF TypeOK, row
  <2>4. ASSUME NEW t \in Saves \ {s} PROVE OwnRows(t)' = OwnRows(t)
    BY <2>3 DEF OwnRows
  <2> QED
    BY <1>2, <2>4 DEF InsertRow
<1> QED
  BY <1>1, <1>2
  DEF SaveStep, Begin, MarkAssetRunning, ReadStats, Tag, InsertReturns, Finish,
      FinishAsset, Error, FailScan, FailAsset, Crash

\* What is accepted of a batch, and what a save has stored, can be counted.
LEMMA Countable ==
  ASSUME TypeOK, NEW s \in Saves
  PROVE  /\ save[s] \in SaveState
         /\ IsFiniteSet(OwnRows(s)) /\ Cardinality(OwnRows(s)) \in Nat
         /\ IsFiniteSet(Accepted(s)) /\ Cardinality(Accepted(s)) \in Nat
         /\ IsFiniteSet(save[s].todo) /\ Cardinality(save[s].todo) \in Nat
<1>1. save[s] \in SaveState /\ save[s].input \in Inputs
  BY DEF TypeOK, SaveState
<1>2. OwnRows(s) \in SUBSET (1 .. Len(rows)) /\ Len(rows) \in Nat
  BY DEF TypeOK, OwnRows
<1>3. Accepted(s) \in SUBSET (1 .. Len(save[s].input)) /\ Len(save[s].input) \in Nat
  BY <1>1, BatchFacts DEF Accepted
<1>4. save[s].todo \in SUBSET (1 .. MaxFindings) /\ MaxFindings \in Nat
  BY <1>1, FindingIntakeAssumption DEF SaveState
<1>5. \A n \in Nat : IsFiniteSet(1 .. n)
  BY FS_Interval
<1> QED
  BY <1>1, <1>2, <1>3, <1>4, <1>5, FS_Subset, FS_CardinalityType

\* Each inserted row leaves one less to insert.
LEMMA InsertCounts ==
  ASSUME TypeOK, NEW s \in Saves, Counts(s), InsertRow(s)
  PROVE  Counts(s)'
<1>1. PICK i \in save[s].todo : /\ rows' = Append(rows, Tagged(s, i))
                                /\ save' = [save EXCEPT ![s].todo = @ \ {i}]
  BY DEF InsertRow
<1>2. Tagged(s, i).id[1] = s
  BY DEF Tagged
<1> DEFINE row == Tagged(s, i)
<1> HIDE DEF row
<1>3. /\ DOMAIN rows = 1 .. Len(rows) /\ Len(rows) \in Nat
      /\ DOMAIN rows' = 1 .. (Len(rows) + 1)
      /\ \A j \in 1 .. Len(rows) : rows'[j] = rows[j]
      /\ rows'[Len(rows) + 1] = row /\ row.id[1] = s
  BY <1>1, <1>2 DEF TypeOK, row
<1>4. OwnRows(s)' = OwnRows(s) \cup {Len(rows) + 1} /\ Len(rows) + 1 \notin OwnRows(s)
  BY <1>3 DEF OwnRows
<1>5. Cardinality(OwnRows(s)') = Cardinality(OwnRows(s)) + 1
  BY <1>4, Countable, FS_AddElement
<1>6. save'[s] = [save[s] EXCEPT !.todo = save[s].todo \ {i}] /\ save[s] \in SaveState
  BY <1>1 DEF TypeOK
<1>7. /\ save'[s].pc = "insert" /\ save[s].pc = "insert"
      /\ save'[s].todo = save[s].todo \ {i} /\ save'[s].input = save[s].input
  BY <1>6 DEF InsertRow, SaveState
<1>8. Cardinality(save[s].todo \ {i}) = Cardinality(save[s].todo) - 1
  BY Countable, FS_RemoveElement
<1>9. Accepted(s)' = Accepted(s)
  BY <1>7 DEF Accepted
<1> QED
  BY <1>5, <1>7, <1>8, <1>9, Countable DEF Counts

\* A save that does not insert keeps its count.
LEMMA OwnCounts ==
  ASSUME TypeOK, NEW s \in Saves, Counts(s), SaveStep(s), ~ InsertRow(s)
  PROVE  Counts(s)'
<1>1. Cardinality({}) = 0 /\ save[s] \in SaveState /\ save \in [Saves -> SaveState]
  BY FS_EmptySet DEF TypeOK
<1>3. rows' = rows
  BY DEF SaveStep, Begin, MarkAssetRunning, ReadStats, Tag, InsertReturns, Finish,
         FinishAsset, Error, FailScan, FailAsset, Crash
<1>4. OwnRows(s)' = OwnRows(s)
  BY <1>3 DEF OwnRows
<1>5. CASE \E kind \in Kinds, input \in Inputs : Begin(s, kind, input)
  <2>1. save[s].pc = "idle" /\ save'[s].pc \in {"asset", "stats", "done"}
    BY <1>1, <1>5 DEF Begin, SaveState
  <2> QED
    BY <1>4, <2>1 DEF Counts
<1>6. CASE MarkAssetRunning(s)
  <2>1. /\ save[s].pc = "asset" /\ save'[s].input = save[s].input
        /\ save'[s].pc = IF save[s].input = << >> THEN "finish" ELSE "stats"
    BY <1>1, <1>6 DEF MarkAssetRunning, Goto, SaveState
  <2>2. save[s].input = << >> => Accepted(s)' = {}
    BY <2>1 DEF Accepted
  <2> QED
    BY <1>1, <1>4, <2>1, <2>2 DEF Counts
<1>7. CASE Tag(s)
  <2>1. /\ save[s].pc = "tag" /\ save'[s].input = save[s].input
        /\ save'[s].pc = "insert" /\ save'[s].todo = Accepted(s)
    BY <1>1, <1>7 DEF Tag, SaveState
  <2>2. Accepted(s)' = Accepted(s)
    BY <2>1 DEF Accepted
  <2>3. Cardinality(OwnRows(s)') = 0
    BY <1>1, <1>4, <2>1 DEF Counts
  <2>4. Cardinality(save'[s].todo) = Cardinality(Accepted(s)')
    BY <2>1, <2>2
  <2>5. Cardinality(Accepted(s)') \in Nat
    BY <2>2, Countable
  <2> QED
    BY <2>1, <2>3, <2>4, <2>5 DEF Counts
<1>8. CASE InsertReturns(s)
  <2>1. /\ save[s].pc = "insert" /\ save[s].todo = {} /\ save'[s].input = save[s].input
        /\ save'[s].pc \in {"finish", "done"}
    BY <1>1, <1>8 DEF InsertReturns, Goto, SaveState
  <2>2. Accepted(s)' = Accepted(s)
    BY <2>1 DEF Accepted
  <2> QED
    BY <1>1, <1>4, <2>1, <2>2, Countable DEF Counts
<1>9. CASE ReadStats(s)
  <2>1. save[s].pc = "stats" /\ save'[s].pc = "tag"
    BY <1>1, <1>9 DEF ReadStats, SaveState
  <2> QED
    BY <1>4, <2>1 DEF Counts
<1>10. CASE Finish(s) \/ FinishAsset(s) \/ Error(s) \/ FailScan(s) \/ FailAsset(s) \/ Crash(s)
  <2>1. save'[s].pc \in {"finishAsset", "fail", "failAsset", "done"}
    BY <1>1, <1>10
    DEF Finish, FinishAsset, Error, FailScan, FailAsset, Crash, Goto, SaveState
  <2> QED
    BY <2>1 DEF Counts
<1> QED
  BY <1>5, <1>6, <1>7, <1>8, <1>9, <1>10 DEF SaveStep

\* The scan document keeps the number of the rows, also when it is relabelled.
LEMMA OwnTotal ==
  ASSUME TypeOK, NEW s \in Saves, Counts(s), Totalled(s), SaveStep(s)
  PROVE  Totalled(s)'
<1>1. /\ save \in [Saves -> SaveState] /\ save[s] \in SaveState
      /\ scan[s] \in [status : {"absent", "running", "completed", "failed"}, total : Nat]
      /\ scan \in [Saves -> [status : {"absent", "running", "completed", "failed"},
                             total : Nat]]
  BY DEF TypeOK
<1>2. CASE Finish(s)
  <2>1. OwnRows(s)' = OwnRows(s) /\ save'[s].pc = "finishAsset" /\ save[s].pc = "finish"
    BY <1>1, <1>2 DEF Finish, Goto, OwnRows, SaveState
  <2>2. scan'[s].total = Cardinality(Accepted(s))
    BY <1>1, <1>2 DEF Finish
  <2> QED
    BY <2>1, <2>2 DEF Counts, Totalled
<1>3. CASE FailScan(s)
  BY <1>1, <1>3 DEF FailScan, Totalled
<1>4. ASSUME NEW kind \in Kinds, NEW input \in Inputs, Begin(s, kind, input)
      PROVE  Totalled(s)'
  <2>1. scan[s].status # "completed"
    BY <1>1, <1>4 DEF Begin, Totalled
  <2>2. scan' \in {scan, [scan EXCEPT ![s].status = "running"]}
    BY <1>4 DEF Begin
  <2> QED
    BY <1>1, <2>1, <2>2 DEF Totalled
<1>5. CASE UNCHANGED scan
  <2> SUFFICES ASSUME scan[s].status = "completed"
               PROVE  /\ save'[s].pc \in {"finishAsset", "fail", "failAsset", "done"}
                      /\ scan[s].total = Cardinality(OwnRows(s)')
    BY <1>5 DEF Totalled
  <2>1. /\ save[s].pc \in {"finishAsset", "fail", "failAsset", "done"}
        /\ scan[s].total = Cardinality(OwnRows(s))
    BY DEF Totalled
  <2>2. OwnRows(s)' = OwnRows(s)
    BY <2>1, RowsOfOthers
  <2>3. \/ Finish(s) \/ FinishAsset(s) \/ Error(s) \/ FailScan(s) \/ FailAsset(s)
        \/ Crash(s)
    BY <2>1
    DEF SaveStep, Begin, MarkAssetRunning, ReadStats, Tag, InsertRow, InsertReturns
  <2>4. save'[s].pc \in {"finishAsset", "fail", "failAsset", "done"}
    BY <1>1, <2>3
    DEF Finish, FinishAsset, Error, FailScan, FailAsset, Crash, Goto, SaveState
  <2> QED
    BY <2>1, <2>2, <2>4
<1> QED
  BY <1>2, <1>3, <1>4, <1>5
  DEF SaveStep, MarkAssetRunning, ReadStats, Tag, InsertRow, InsertReturns, FinishAsset,
      Error, FailAsset, Crash

LEMMA TotalsKept ==
  ASSUME TotalInv, TypeOK', NEW s \in Saves, SaveStep(s)
  PROVE  TotalInv'
<1>1. ASSUME NEW t \in Saves \ {s} PROVE Counts(t)' /\ Totalled(t)'
  <2>1. save'[t] = save[t] /\ scan'[t] = scan[t]
    BY DEF TotalInv, TypeOK, SaveStep, Begin, MarkAssetRunning, ReadStats, Tag,
           InsertRow, InsertReturns, Finish, FinishAsset, Error, FailScan, FailAsset,
           Crash, Goto
  <2>2. OwnRows(t)' = OwnRows(t) /\ Accepted(t)' = Accepted(t)
    BY <2>1, RowsOfOthers DEF TotalInv, Accepted
  <2> QED
    BY <2>1, <2>2 DEF TotalInv, Counts, Totalled
<1>2. Counts(s)'
  BY InsertCounts, OwnCounts DEF TotalInv
<1>3. Totalled(s)'
  BY OwnTotal DEF TotalInv
<1> QED
  BY <1>1, <1>2, <1>3 DEF TotalInv

\* The total of a completed upload counts what is stored, whatever was dropped,
\* and stays right when a later call fails (scans.service.ts:373).
THEOREM TotalsCorrect == Spec => []TotalsTrue
<1>1. Init => TotalInv
  BY InitTypes DEF Init, TotalInv, Counts, Totalled, OwnRows
<1>2. TagInv /\ TotalInv /\ [Next]_vars => TagInv' /\ TotalInv'
  <2> SUFFICES ASSUME TagInv, TotalInv, [Next]_vars PROVE TotalInv'
    BY TagInvKept
  <2>1. TypeOK'
    BY TagInvKept DEF TagInv
  <2>2. CASE UNCHANGED vars
    <3>1. UNCHANGED <<rows, scan, save>>
      BY <2>2 DEF vars
    <3>2. ASSUME NEW s \in Saves PROVE Counts(s)' /\ Totalled(s)'
      <4>1. OwnRows(s)' = OwnRows(s) /\ Accepted(s)' = Accepted(s)
        BY <3>1 DEF OwnRows, Accepted
      <4> QED
        BY <3>1, <4>1 DEF TotalInv, Counts, Totalled
    <3> QED
      BY <2>1, <3>2 DEF TotalInv
  <2> QED
    BY <2>1, <2>2, TotalsKept DEF Next
<1>3. TotalInv => TotalsTrue
  BY DEF TotalInv, Totalled, TotalsTrue
<1> QED
  BY <1>1, <1>2, <1>3, InitTagInv, PTL DEF Spec

\* An upload that is about to tell the asset tells its verdict, and it does
\* nothing afterwards.
VerdictInv ==
    /\ TypeOK
    /\ asset.status # "never_scanned" => asset.save \in Saves
    /\ \A s \in Saves :
        /\ save[s].pc = "finishAsset" => scan[s].status = "completed"
        /\ save[s].pc = "failAsset" => scan[s].status = "failed"
        /\ asset.save = s /\ asset.status \in {"completed", "failed"}
              => save[s].pc = "done" /\ scan[s].status = asset.status

LEMMA AssetMarks ==
  ASSUME TypeOK, NEW s \in Saves, SaveStep(s)
  PROVE  UNCHANGED asset \/ asset'.save = s
<1>1. \/ UNCHANGED asset
      \/ \E status \in {"running", "completed", "failed"} :
            asset' = [save |-> s, status |-> status]
  BY DEF SaveStep, Begin, MarkAssetRunning, ReadStats, Tag, InsertRow, InsertReturns,
         Finish, FinishAsset, Error, FailScan, FailAsset, Crash
<1> QED
  BY <1>1

LEMMA VerdictKept ==
  ASSUME VerdictInv, TypeOK', NEW s \in Saves, SaveStep(s)
  PROVE  VerdictInv'
<1> DEFINE Tells(t) ==
        /\ save[t].pc = "finishAsset" => scan[t].status = "completed"
        /\ save[t].pc = "failAsset" => scan[t].status = "failed"
        /\ asset.save = t /\ asset.status \in {"completed", "failed"}
              => save[t].pc = "done" /\ scan[t].status = asset.status
<1>1. /\ save \in [Saves -> SaveState] /\ save[s] \in SaveState /\ Tells(s)
      /\ scan[s] \in [status : {"absent", "running", "completed", "failed"}, total : Nat]
      /\ scan \in [Saves -> [status : {"absent", "running", "completed", "failed"},
                             total : Nat]]
  BY DEF VerdictInv, TypeOK
<1>2. ASSUME NEW t \in Saves \ {s} PROVE Tells(t)'
  <2>1. /\ save'[t] = save[t] /\ scan'[t] = scan[t]
    BY <1>1
    DEF SaveStep, Begin, MarkAssetRunning, ReadStats, Tag, InsertRow, InsertReturns,
        Finish, FinishAsset, Error, FailScan, FailAsset, Crash, Goto
  <2>2. UNCHANGED asset \/ asset'.save = s
    BY AssetMarks DEF VerdictInv
  <2> QED
    BY <2>1, <2>2 DEF VerdictInv
<1>3. Tells(s)'
  <2>1. CASE Finish(s)
    BY <1>1, <2>1 DEF Finish, Goto, SaveState
  <2>2. CASE FinishAsset(s)
    BY <1>1, <2>2 DEF FinishAsset, Goto, SaveState
  <2>3. CASE FailScan(s)
    BY <1>1, <2>3 DEF FailScan, Goto, SaveState
  <2>4. CASE FailAsset(s)
    BY <1>1, <2>4 DEF FailAsset, Goto, SaveState
  <2>5. CASE Error(s)
    BY <1>1, <2>5 DEF Error, Guarded, SaveState
  <2>6. CASE MarkAssetRunning(s) \/ Crash(s)
    BY <1>1, <2>6 DEF MarkAssetRunning, Crash, Goto, SaveState
  <2>7. CASE ReadStats(s) \/ Tag(s) \/ InsertRow(s) \/ InsertReturns(s)
    BY <1>1, <2>7 DEF ReadStats, Tag, InsertRow, InsertReturns, Goto, SaveState
  <2>8. ASSUME NEW kind \in Kinds, NEW input \in Inputs, Begin(s, kind, input)
        PROVE  Tells(s)'
    BY <1>1, <2>8 DEF Begin, SaveState
  <2> QED
    BY <2>1, <2>2, <2>3, <2>4, <2>5, <2>6, <2>7, <2>8 DEF SaveStep
<1>4. asset'.status # "never_scanned" => asset'.save \in Saves
  BY AssetMarks DEF VerdictInv
<1> QED
  BY <1>2, <1>3, <1>4 DEF VerdictInv

\* The asset shows the verdict of an upload only if the scan document says the
\* same, though a failing call may relabel the scan (scans.service.ts:398).
THEOREM UploadVerdictsTrue == Spec => []UploadVerdictTrue
<1>1. Init => TagInv /\ VerdictInv
  <2> SUFFICES ASSUME Init PROVE VerdictInv
    BY InitTagInv
  <2> QED
    BY InitTypes DEF Init, VerdictInv
<1>2. TagInv /\ VerdictInv /\ [Next]_vars => TagInv' /\ VerdictInv'
  <2> SUFFICES ASSUME TagInv, VerdictInv, [Next]_vars PROVE VerdictInv'
    BY TagInvKept
  <2>1. TypeOK'
    BY TagInvKept DEF TagInv
  <2>2. CASE UNCHANGED vars
    BY <2>1, <2>2 DEF vars, VerdictInv
  <2> QED
    BY <2>1, <2>2, VerdictKept DEF Next
<1>3. VerdictInv => UploadVerdictTrue
  BY DEF VerdictInv, UploadVerdictTrue
<1> QED
  BY <1>1, <1>2, <1>3, PTL DEF Spec

=============================================================================
