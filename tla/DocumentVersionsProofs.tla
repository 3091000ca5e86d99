----------------------- MODULE DocumentVersionsProofs -----------------------
(***************************************************************************)
(* Theorems about DocumentVersions, for any sets of documents, contents    *)
(* and requests.  The first part holds for every set of handlers and with  *)
(* or without cluster locks.                                               *)
(***************************************************************************)
EXTENDS DocumentVersions, SequenceTheorems, TLAPS

WriteOps == {"upload", "update", "rename", "restore"}
DocOps == {"update", "rename", "restore", "delete", "download"}

(* Where a handler is agrees with what it was asked to do.                 *)
LocalsFit ==
    \A r \in Requests :
        /\ local[r].op \in WriteOps => local[r].target \in Contents
        /\ local[r].op \in DocOps =>
              /\ local[r].doc \in Docs
              /\ docs[local[r].doc].status # "none"
        /\ pc[r] = "lock" => local[r].op \in WriteOps
        /\ pc[r] = "put" => local[r].op \in {"upload", "update"}
        /\ pc[r] = "insert" => local[r].op = "upload"
        /\ pc[r] \in {"read", "snapshot", "apply"}
              => local[r].op \in {"update", "rename", "restore"}
        /\ pc[r] \in {"remove", "unlink"} => local[r].op = "delete"
        /\ pc[r] = "fetch" => local[r].op = "download"

(* The documents row is the last entry of the history.                     *)
RowIsCurrent ==
    \A d \in Docs :
        /\ Len(history[d]) = docs[d].version
        /\ docs[d].status = "none" => docs[d].version = 0
        /\ docs[d].status # "none" =>
              /\ docs[d].version >= 1
              /\ docs[d].content = history[d][docs[d].version]

(* A row read by UpdateDocument was current when it was read.              *)
ReadRowTruthful ==
    \A r \in Requests :
        pc[r] \in {"snapshot", "apply"} =>
            LET h == history[local[r].doc] IN
            /\ row[r].version \in 1 .. Len(h)
            /\ row[r].content = h[row[r].version]

TruthInv ==
    /\ TypeOK
    /\ LocalsFit
    /\ RowIsCurrent
    /\ ReadRowTruthful
    /\ SnapshotsTruthful

-----------------------------------------------------------------------------
LEMMA HistoryTyped ==
  ASSUME TypeOK, NEW d \in Docs
  PROVE  /\ Len(history[d]) \in Nat
         /\ \A v \in 1 .. Len(history[d]) : history[d][v] \in Contents
         /\ Len(versions[d]) \in Nat
         /\ \A i \in 1 .. Len(versions[d]) : versions[d][i] \in SnapshotRows
         /\ docs[d].version \in Nat
<1>1. history[d] \in Seq(Contents) /\ versions[d] \in Seq(SnapshotRows) /\ docs[d] \in Rows
  BY DEF TypeOK
<1> QED
  BY <1>1 DEF Rows

LEMMA InitTruth == Init => TruthInv
  BY IdsAssumption
  DEF Init, TruthInv, TypeOK, LocalsFit, RowIsCurrent, ReadRowTruthful,
      SnapshotsTruthful, NoRow, NoLocal, Rows, Locals, SnapshotRows, PCs,
      WriteOps, DocOps

LEMMA FirstStepCases ==
  ASSUME NEW op \in WriteOps \cup DocOps
  PROVE  /\ op \in {"upload", "update"} => FirstStep(op) = "put"
         /\ op \in {"rename", "restore"} => FirstStep(op) = "read"
         /\ op = "delete" => FirstStep(op) = "remove"
         /\ op = "download" => FirstStep(op) = "fetch"
  BY DEF FirstStep, WriteOps, DocOps

(* The arrival of a request that loaded what its operation needs.          *)
LEMMA BeginTruth ==
  ASSUME TruthInv, NEW r \in Requests,
         NEW via \in {"api", "web"}, NEW op \in WriteOps \cup DocOps,
         NEW d \in Docs \cup {Nothing},
         NEW seen \in Contents \cup {Nothing},
         NEW target \in Contents \cup {Nothing},
         op \in WriteOps => target \in Contents,
         op \in DocOps => d \in Docs /\ Live(d),
         Begin(r, via, op, d, seen, target)
  PROVE  TruthInv'
<1> USE DEF WriteOps, DocOps
<1>1. /\ UNCHANGED <<docs, versions, blobs, phantom, history, lock, row>>
      /\ local' = [local EXCEPT ![r] = [via |-> via, op |-> op, doc |-> d,
                       seen |-> seen, target |-> target]]
      /\ pc' = [pc EXCEPT ![r] =
                  IF TakesLock(via, op) THEN "lock" ELSE FirstStep(op)]
  BY DEF Begin, Goto, tables
<1>2. /\ TakesLock(via, op) => op \in WriteOps
      /\ op \in {"upload", "update"} => FirstStep(op) = "put"
      /\ op \in {"rename", "restore"} => FirstStep(op) = "read"
      /\ op = "delete" => FirstStep(op) = "remove"
      /\ op = "download" => FirstStep(op) = "fetch"
  BY FirstStepCases DEF TakesLock
<1>3. TypeOK'
  BY <1>1, <1>2 DEF TruthInv, TypeOK, NoRow, Rows, Locals, PCs
<1>4. LocalsFit'
  BY <1>1, <1>2 DEF TruthInv, TypeOK, LocalsFit, Live
<1>5. RowIsCurrent' /\ SnapshotsTruthful'
  BY <1>1 DEF TruthInv, RowIsCurrent, SnapshotsTruthful
<1>6. ReadRowTruthful'
  BY <1>1, <1>2 DEF TruthInv, TypeOK, ReadRowTruthful
<1> QED
  BY <1>3, <1>4, <1>5, <1>6 DEF TruthInv
LEMMA ArriveTruth ==
  ASSUME TruthInv, NEW r \in Requests, Arrive(r)
  PROVE  TruthInv'
<1>1. ASSUME NEW via \in {"api", "web"}, BeginUpload(r, via)
      PROVE  TruthInv'
  <2>1. PICK c \in Contents : Begin(r, via, "upload", Nothing, Nothing, c)
    BY <1>1 DEF BeginUpload
  <2> QED
    BY <2>1, BeginTruth DEF WriteOps, DocOps
<1>2. ASSUME NEW d \in Docs, Live(d)
      PROVE  docs[d].content \in Contents
  BY <1>2, HistoryTyped DEF TruthInv, RowIsCurrent, Live
<1>3. ASSUME NEW via \in {"api", "web"}, NEW d \in Docs, BeginUpdate(r, via, d)
      PROVE  TruthInv'
  <2>1. PICK c \in Contents : Begin(r, via, "update", d, docs[d].content, c)
    BY <1>3 DEF BeginUpdate
  <2>2. docs[d].content \in Contents
    BY <1>2, <1>3 DEF BeginUpdate
  <2> QED
    BY <1>3, <2>1, <2>2, BeginTruth DEF BeginUpdate, WriteOps, DocOps
<1>4. ASSUME NEW via \in {"api", "web"}, NEW d \in Docs, BeginRestore(r, via, d)
      PROVE  TruthInv'
  <2>1. PICK i \in 1 .. Len(versions[d]) :
           Begin(r, via, "restore", d, docs[d].content, versions[d][i].content)
    BY <1>4 DEF BeginRestore
  <2>2. docs[d].content \in Contents
    BY <1>2, <1>4 DEF BeginRestore
  <2>3. versions[d][i].content \in Contents
    BY <2>1, HistoryTyped DEF TruthInv, SnapshotRows
  <2> QED
    BY <1>4, <2>1, <2>2, <2>3, BeginTruth DEF BeginRestore, WriteOps, DocOps
<1>5. ASSUME NEW via \in {"api", "web"}, NEW d \in Docs, BeginDelete(r, via, d)
      PROVE  TruthInv'
  <2>1. docs[d].content \in Contents
    BY <1>2, <1>5 DEF BeginDelete
  <2> QED
    BY <1>5, <2>1, BeginTruth DEF BeginDelete, WriteOps, DocOps
<1>6. ASSUME NEW via \in {"api", "web"}, NEW d \in Docs, BeginDownload(r, via, d)
      PROVE  TruthInv'
  <2>1. docs[d].content \in Contents
    BY <1>2, <1>6 DEF BeginDownload
  <2> QED
    BY <1>6, <2>1, BeginTruth DEF BeginDownload, WriteOps, DocOps
<1>7. ASSUME NEW d \in Docs, BeginRename(r, d)
      PROVE  TruthInv'
  <2>1. docs[d].content \in Contents
    BY <1>2, <1>7 DEF BeginRename
  <2> QED
    BY <1>7, <2>1, BeginTruth DEF BeginRename, WriteOps, DocOps
<1> QED
  BY <1>1, <1>3, <1>4, <1>5, <1>6, <1>7 DEF Arrive

(* Steps that move a handler on and touch no table but the content store.  *)
LEMMA QuietStepTruth ==
  ASSUME TruthInv, NEW r \in Requests,
         Lock(r) \/ Put(r) \/ PutSpoils(r) \/ Unlink(r) \/ Fetch(r) \/ Return(r) \/ Fail(r)
  PROVE  TruthInv'
<1> USE DEF TruthInv, WriteOps, DocOps
<1>1. UNCHANGED <<docs, versions, history>>
  BY DEF Lock, Put, PutSpoils, Unlink, Fetch, Return, Fail, tables
<1>2. RowIsCurrent' /\ SnapshotsTruthful'
  BY <1>1 DEF RowIsCurrent, SnapshotsTruthful
<1>3. pc[r] = "lock" =>
         /\ local[r].op \in {"upload", "update"} => FirstStep(local[r].op) = "put"
         /\ local[r].op \in {"rename", "restore"} => FirstStep(local[r].op) = "read"
  BY FirstStepCases DEF LocalsFit
<1>4. \E l \in PCs \ {"snapshot", "apply"} :
         /\ pc' = [pc EXCEPT ![r] = l]
         /\ \/ local' = local /\ row' = row
            \/ /\ l = "idle"
               /\ local' = [local EXCEPT ![r] = NoLocal]
               /\ row' = [row EXCEPT ![r] = NoRow]
  <2>1. CASE Lock(r)
    <3>1. FirstStep(local[r].op) \in {"put", "read"}
      BY <1>3, <2>1 DEF Lock, LocalsFit
    <3> QED
      BY <2>1, <3>1 DEF Lock, Goto, PCs
  <2>2. CASE Put(r) \/ PutSpoils(r)
    BY <2>2 DEF Put, PutSpoils, Goto, PCs
  <2>3. CASE Unlink(r) \/ Fetch(r) \/ Return(r) \/ Fail(r)
    BY <2>3 DEF Unlink, Fetch, Return, Fail, Goto, PCs
  <2> QED
    BY <2>1, <2>2, <2>3
<1>5. ReadRowTruthful'
  BY <1>1, <1>4 DEF TypeOK, ReadRowTruthful
<1>6. LocalsFit'
  <2>1. CASE Lock(r)
    BY <1>1, <1>3, <2>1 DEF Lock, Goto, TypeOK, LocalsFit, tables
  <2>2. CASE Put(r) \/ PutSpoils(r) \/ Unlink(r) \/ Fetch(r) \/ Fail(r)
    BY <1>1, <2>2 DEF Put, PutSpoils, Unlink, Fetch, Fail, Goto, TypeOK, LocalsFit, tables
  <2>3. CASE Return(r)
    BY <1>1, <2>3 DEF Return, Goto, TypeOK, LocalsFit, NoLocal, tables
  <2> QED
    BY <2>1, <2>2, <2>3
<1>7. TypeOK'
  <2>1. blobs' \subseteq Contents /\ phantom' \subseteq Contents
    BY DEF Lock, Put, PutSpoils, Unlink, Fetch, Return, Fail, tables, TypeOK, LocalsFit
  <2>2. lock' \in [LockKeys -> Requests \cup {Nobody}]
    BY DEF Lock, Put, PutSpoils, Unlink, Fetch, Return, Fail, tables, TypeOK
  <2>3. /\ local' \in [Requests -> Locals]
        /\ row' \in [Requests -> Rows]
        /\ pc' \in [Requests -> PCs]
    <3>1. NoLocal \in Locals /\ NoRow \in Rows
      BY DEF NoLocal, NoRow, Locals, Rows
    <3> QED
      BY <1>4, <3>1 DEF TypeOK
  <2> QED
    BY <1>1, <2>1, <2>2, <2>3 DEF TypeOK
<1> QED
  BY <1>2, <1>5, <1>6, <1>7

(* A lock lost changes nothing but the lock table.                         *)
LEMMA LoseLockTruth ==
  ASSUME TruthInv, NEW r \in Requests, LoseLock(r)
  PROVE  TruthInv'
<1> USE DEF TruthInv
<1>1. UNCHANGED <<docs, versions, blobs, phantom, history, pc, local, row>>
  BY DEF LoseLock, tables
<1>2. lock' \in [LockKeys -> Requests \cup {Nobody}]
  BY DEF LoseLock, TypeOK
<1>3. TypeOK' /\ LocalsFit'
  BY <1>1, <1>2 DEF TypeOK, LocalsFit
<1>4. RowIsCurrent' /\ ReadRowTruthful' /\ SnapshotsTruthful'
  BY <1>1 DEF RowIsCurrent, ReadRowTruthful, SnapshotsTruthful
<1> QED
  BY <1>3, <1>4

LEMMA InsertTruth ==
  ASSUME TruthInv, NEW r \in Requests, Insert(r)
  PROVE  TruthInv'
<1> USE DEF TruthInv
<1>1. PICK d \in Docs :
        /\ docs[d].status = "none"
        /\ docs' = [docs EXCEPT ![d] =
              [status |-> "live", version |-> 1, content |-> local[r].target]]
        /\ history' = [history EXCEPT ![d] = <<local[r].target>>]
  BY DEF Insert
<1>2. /\ pc[r] = "insert"
      /\ pc' = [pc EXCEPT ![r] = "replied"]
      /\ UNCHANGED <<versions, blobs, phantom, lock, local, row>>
      /\ local[r].target \in Contents
  BY DEF Insert, Goto, LocalsFit, WriteOps
<1>3. Len(history[d]) = 0
  BY <1>1 DEF RowIsCurrent
<1>4. TypeOK'
  BY <1>1, <1>2 DEF TypeOK, Rows, PCs
<1>5. LocalsFit'
  BY <1>1, <1>2 DEF TypeOK, LocalsFit
<1>6. RowIsCurrent'
  BY <1>1, <1>2 DEF TypeOK, RowIsCurrent
<1>7. ReadRowTruthful'
  BY <1>1, <1>2, <1>3 DEF TypeOK, ReadRowTruthful, LocalsFit, DocOps
<1>8. SnapshotsTruthful'
  BY <1>1, <1>2, <1>3 DEF TypeOK, SnapshotsTruthful
<1> QED
  BY <1>4, <1>5, <1>6, <1>7, <1>8

LEMMA ReadTruth ==
  ASSUME TruthInv, NEW r \in Requests, Read(r)
  PROVE  TruthInv'
<1> USE DEF TruthInv
<1> DEFINE d == local[r].doc
<1>1. /\ pc[r] = "read"
      /\ d \in Docs
      /\ UNCHANGED <<docs, versions, blobs, phantom, history, lock, local>>
      /\ \/ /\ Live(d)
            /\ row' = [row EXCEPT ![r] = docs[d]]
            /\ pc' = [pc EXCEPT ![r] = "snapshot"]
         \/ /\ row' = row
            /\ pc' = [pc EXCEPT ![r] = "failed"]
  BY DEF Read, Goto, tables, LocalsFit, DocOps
<1>3. TypeOK'
  BY <1>1 DEF TypeOK, PCs
<1>4. LocalsFit'
  BY <1>1 DEF TypeOK, LocalsFit
<1>5. RowIsCurrent' /\ SnapshotsTruthful'
  BY <1>1 DEF RowIsCurrent, SnapshotsTruthful
<1>6. Live(d) => /\ docs[d].version \in 1 .. Len(history[d])
                 /\ docs[d].content = history[d][docs[d].version]
  BY <1>1, HistoryTyped DEF RowIsCurrent, Live
<1>7. ReadRowTruthful'
  BY <1>1, <1>6 DEF TypeOK, ReadRowTruthful
<1> QED
  BY <1>3, <1>4, <1>5, <1>7

LEMMA SnapshotTruth ==
  ASSUME TruthInv, NEW r \in Requests, Snapshot(r)
  PROVE  TruthInv'
<1> USE DEF TruthInv
<1> DEFINE d == local[r].doc
           new == [version |-> row[r].version, content |-> row[r].content]
<1>1. /\ pc[r] = "snapshot"
      /\ d \in Docs
      /\ versions' = [versions EXCEPT ![d] = Append(@, new)]
      /\ pc' = [pc EXCEPT ![r] = "apply"]
      /\ UNCHANGED <<docs, blobs, phantom, lock, local, row, history>>
  BY DEF Snapshot, Goto, LocalsFit, DocOps
<1>2. /\ new.version \in 1 .. Len(history[d])
      /\ new.content = history[d][new.version]
  BY <1>1 DEF ReadRowTruthful
<1>3. new \in SnapshotRows
  BY <1>1, <1>2 DEF TypeOK, SnapshotRows
<1> HIDE DEF new
<1>4. TypeOK'
  BY <1>1, <1>3 DEF TypeOK, PCs
<1>5. LocalsFit' /\ RowIsCurrent' /\ ReadRowTruthful'
  BY <1>1 DEF TypeOK, LocalsFit, RowIsCurrent, ReadRowTruthful
<1>6. SnapshotsTruthful'
  BY <1>1, <1>2, <1>3 DEF TypeOK, SnapshotsTruthful
<1> QED
  BY <1>4, <1>5, <1>6

LEMMA ApplyTruth ==
  ASSUME TruthInv, NEW r \in Requests, Apply(r)
  PROVE  TruthInv'
<1> USE DEF TruthInv
<1> DEFINE d == local[r].doc
           c == local[r].target
<1>1. /\ pc[r] = "apply"
      /\ d \in Docs /\ c \in Contents
      /\ pc' = [pc EXCEPT ![r] = "replied"]
      /\ UNCHANGED <<versions, blobs, phantom, lock, local, row>>
  BY DEF Apply, Goto, LocalsFit, DocOps, WriteOps
<1>2. CASE ~Live(d)
  <2>1. UNCHANGED <<docs, history>>
    BY <1>2 DEF Apply
  <2>2. LocalsFit'
    BY <1>1, <2>1 DEF TypeOK, LocalsFit
  <2> QED
    BY <1>1, <2>1, <2>2 DEF TypeOK, PCs, RowIsCurrent, ReadRowTruthful, SnapshotsTruthful
<1>3. CASE Live(d)
  <2>1. /\ docs' = [docs EXCEPT ![d] =
              [status |-> "live", version |-> docs[d].version + 1, content |-> c]]
        /\ history' = [history EXCEPT ![d] = Append(@, c)]
    BY <1>3 DEF Apply
  <2>2. TypeOK'
    BY <1>1, <2>1 DEF TypeOK, PCs, Rows
  <2>3. RowIsCurrent'
    BY <1>1, <1>3, <2>1 DEF TypeOK, RowIsCurrent, Live, Rows
  <2>4. ASSUME NEW e \in Docs, NEW v \in 1 .. Len(history[e])
        PROVE  v \in 1 .. Len(history'[e]) /\ history'[e][v] = history[e][v]
    <3>1. history[e] \in Seq(Contents) /\ history[d] \in Seq(Contents)
      BY <1>1 DEF TypeOK
    <3>2. history'[e] = IF e = d THEN Append(history[d], c) ELSE history[e]
      BY <1>1, <2>1 DEF TypeOK
    <3> QED
      BY <1>1, <3>1, <3>2
  <2>5. LocalsFit'
    BY <1>1, <2>1 DEF TypeOK, LocalsFit
  <2>6. SnapshotsTruthful'
    BY <1>1, <2>4 DEF SnapshotsTruthful
  <2>7. ReadRowTruthful'
    <3>1. ASSUME NEW q \in Requests, pc'[q] \in {"snapshot", "apply"}
          PROVE  /\ row[q].version \in 1 .. Len(history[local[q].doc])
                 /\ row[q].content = history[local[q].doc][row[q].version]
                 /\ local[q].doc \in Docs
      BY <1>1, <3>1 DEF TypeOK, ReadRowTruthful, LocalsFit, DocOps
    <3> QED
      BY <1>1, <2>4, <3>1 DEF ReadRowTruthful
  <2> QED
    BY <2>2, <2>3, <2>5, <2>6, <2>7
<1> QED
  BY <1>2, <1>3

LEMMA SoftDeleteTruth ==
  ASSUME TruthInv, NEW r \in Requests, SoftDelete(r)
  PROVE  TruthInv'
<1> USE DEF TruthInv
<1>1. PICK l \in {"unlink", "replied"} :
        /\ pc[r] = "remove"
        /\ local[r].doc \in Docs
        /\ docs' = [docs EXCEPT ![local[r].doc] =
              [status |-> "deleted", version |-> docs[local[r].doc].version,
               content |-> docs[local[r].doc].content]]
        /\ pc' = [pc EXCEPT ![r] = l]
        /\ UNCHANGED <<versions, blobs, phantom, lock, local, row, history>>
  BY DEF SoftDelete, Goto, LocalsFit, DocOps
<1>2. TypeOK'
  BY <1>1 DEF TypeOK, PCs, Rows
<1>3. LocalsFit'
  BY <1>1 DEF TypeOK, LocalsFit
<1>4. ReadRowTruthful' /\ SnapshotsTruthful'
  BY <1>1 DEF TypeOK, ReadRowTruthful, SnapshotsTruthful
<1>5. docs[local[r].doc].status # "none"
  BY <1>1 DEF SoftDelete, LocalsFit, DocOps
<1>6. RowIsCurrent'
  BY <1>1, <1>5 DEF TypeOK, RowIsCurrent, Rows
<1> QED
  BY <1>2, <1>3, <1>4, <1>6
LEMMA TruthInductive == TruthInv /\ [Next]_vars => TruthInv'
<1> SUFFICES ASSUME TruthInv, [Next]_vars
             PROVE  TruthInv'
  OBVIOUS
<1>1. CASE UNCHANGED vars
  BY <1>1 DEF vars, TruthInv, TypeOK, LocalsFit, RowIsCurrent, ReadRowTruthful,
              SnapshotsTruthful
<1>2. ASSUME NEW r \in Requests, Arrive(r) \/ Step(r) \/ PutSpoils(r) \/ Fail(r) \/ LoseLock(r)
      PROVE  TruthInv'
  BY <1>2, ArriveTruth, QuietStepTruth, InsertTruth, ReadTruth, SnapshotTruth,
     ApplyTruth, SoftDeleteTruth, LoseLockTruth
  DEF Step
<1> QED
  BY <1>1, <1>2 DEF Next

LEMMA TruthAlways == Spec => []TruthInv
  BY InitTruth, TruthInductive, PTL DEF Spec

(* Every variable keeps its type.                                          *)
THEOREM TypeCorrect == Spec => []TypeOK
  BY TruthAlways, PTL DEF TruthInv

(* Whatever runs concurrently, with or without cluster locks, from the API *)
(* or the web interface, a snapshot row holds the content its version had. *)
THEOREM SnapshotsNeverLie == Spec => []SnapshotsTruthful
  BY TruthAlways, PTL DEF TruthInv

-----------------------------------------------------------------------------
(* No statement of any handler changes the row of a deleted document: the  *)
(* only update of a row in place (Apply) asks for a live one, an insert    *)
(* takes an unused identifier, and a second delete writes the same row.    *)
LEMMA DeletedFrozenStep ==
  ASSUME TruthInv, [Next]_vars, NEW d \in Docs, docs[d].status = "deleted"
  PROVE  docs'[d] = docs[d]
<1>1. CASE UNCHANGED vars
  BY <1>1 DEF vars
<1>2. ASSUME NEW r \in Requests, Arrive(r) PROVE docs' = docs
  BY <1>2 DEF Arrive, BeginUpload, BeginUpdate, BeginRename, BeginRestore,
              BeginDelete, BeginDownload, Begin, tables
<1>3. ASSUME NEW r \in Requests,
             Lock(r) \/ Put(r) \/ PutSpoils(r) \/ Read(r) \/ Snapshot(r) \/ Unlink(r)
                \/ Fetch(r) \/ Return(r) \/ Fail(r) \/ LoseLock(r)
      PROVE  docs' = docs
  BY <1>3 DEF Lock, Put, PutSpoils, Read, Snapshot, Unlink, Fetch, Return, Fail, LoseLock, tables
<1>4. ASSUME NEW r \in Requests, Insert(r) PROVE docs'[d] = docs[d]
  BY <1>4 DEF Insert, TruthInv, TypeOK
<1>5. ASSUME NEW r \in Requests, Apply(r) PROVE docs'[d] = docs[d]
  BY <1>5 DEF Apply, Live, TruthInv, TypeOK
<1>6. ASSUME NEW r \in Requests, SoftDelete(r) PROVE docs'[d] = docs[d]
  <2>1. docs' = [docs EXCEPT ![local[r].doc] =
          [status |-> "deleted", version |-> docs[local[r].doc].version,
           content |-> docs[local[r].doc].content]]
    BY <1>6 DEF SoftDelete
  <2>2. docs[d] \in Rows /\ docs \in [Docs -> Rows]
    BY DEF TruthInv, TypeOK
  <2>3. docs[d] = [status |-> "deleted", version |-> docs[d].version,
                   content |-> docs[d].content]
    BY <2>2 DEF Rows
  <2> QED
    BY <2>1, <2>2, <2>3
<1> QED
  BY <1>1, <1>2, <1>3, <1>4, <1>5, <1>6 DEF Next, Step

(* An update in flight when its document is deleted has no effect.         *)
THEOREM DeletedStaysFrozen == Spec => DeletedFrozen
<1>1. TruthInv /\ [Next]_vars =>
        [\A d \in Docs : docs[d].status = "deleted" => docs'[d] = docs[d]]_vars
  BY DeletedFrozenStep
<1> QED
  BY <1>1, TruthAlways, PTL DEF Spec, DeletedFrozen
-----------------------------------------------------------------------------
(* Histories only grow, and a document that exists can only lose "live".   *)
LEMMA HistoryGrows ==
  ASSUME TruthInv, [Next]_vars, NEW d \in Docs, docs[d].status # "none"
  PROVE  /\ docs'[d].status = "live" => docs[d].status = "live"
         /\ \A v \in 1 .. Len(history[d]) :
               v \in 1 .. Len(history'[d]) /\ history'[d][v] = history[d][v]
<1>1. CASE UNCHANGED vars
  BY <1>1 DEF vars
<1>2. ASSUME NEW r \in Requests, Arrive(r)
      PROVE  UNCHANGED <<docs, history>>
  BY <1>2 DEF Arrive, BeginUpload, BeginUpdate, BeginRename, BeginRestore,
              BeginDelete, BeginDownload, Begin, tables
<1>3. ASSUME NEW r \in Requests,
             Lock(r) \/ Put(r) \/ PutSpoils(r) \/ Read(r) \/ Snapshot(r) \/ Unlink(r)
                \/ Fetch(r) \/ Return(r) \/ Fail(r) \/ LoseLock(r)
      PROVE  UNCHANGED <<docs, history>>
  BY <1>3 DEF Lock, Put, PutSpoils, Read, Snapshot, Unlink, Fetch, Return, Fail, LoseLock, tables
<1>4. ASSUME NEW r \in Requests, Insert(r)
      PROVE  docs'[d] = docs[d] /\ history'[d] = history[d]
  BY <1>4 DEF Insert, TruthInv, TypeOK
<1>5. ASSUME NEW r \in Requests, SoftDelete(r)
      PROVE  /\ docs'[d].status = "live" => docs[d].status = "live"
             /\ history' = history
  BY <1>5 DEF SoftDelete, TruthInv, TypeOK
<1>6. ASSUME NEW r \in Requests, Apply(r)
      PROVE  /\ docs'[d].status = "live" => docs[d].status = "live"
             /\ \A v \in 1 .. Len(history[d]) :
                   v \in 1 .. Len(history'[d]) /\ history'[d][v] = history[d][v]
  <2>1. CASE d = local[r].doc /\ Live(d)
    <3>1. history'[d] = Append(history[d], local[r].target)
      BY <1>6, <2>1 DEF Apply, TruthInv, TypeOK
    <3>2. history[d] \in Seq(Contents) /\ local[r].target \in Contents
      BY <1>6 DEF Apply, TruthInv, TypeOK, LocalsFit, WriteOps
    <3> QED
      BY <2>1, <3>1, <3>2 DEF Live
  <2>2. CASE ~(d = local[r].doc /\ Live(d))
    <3>1. docs'[d] = docs[d] /\ history'[d] = history[d]
      BY <1>6, <2>2 DEF Apply, TruthInv, TypeOK
    <3> QED
      BY <3>1
  <2> QED
    BY <2>1, <2>2
<1> QED
  BY <1>1, <1>2, <1>3, <1>4, <1>5, <1>6 DEF Next, Step

(* A request that has replied stays as it is.                               *)
Unmoved(q) == pc[q] = "replied" /\ local'[q] = local[q] /\ row'[q] = row[q]

(* The only step to "replied" of an update is Apply.                       *)
LEMMA AcknowledgedStep ==
  ASSUME TruthInv, AcknowledgedUpdateApplied, [Next]_vars
  PROVE  AcknowledgedUpdateApplied'
<1> SUFFICES ASSUME NEW q \in Requests,
                    pc'[q] = "replied",
                    local'[q].op \in {"update", "rename", "restore"},
                    docs'[local'[q].doc].status = "live"
             PROVE  \E v \in (row'[q].version + 1) .. Len(history'[local'[q].doc]) :
                       history'[local'[q].doc][v] = local'[q].target
  BY DEF AcknowledgedUpdateApplied, Live
<1>1. CASE Unmoved(q)
  <2> DEFINE d == local[q].doc
  <2>1. d \in Docs /\ docs[d].status # "none" /\ row[q].version \in Nat
    BY <1>1 DEF Unmoved, TruthInv, LocalsFit, DocOps, TypeOK, Rows
  <2>2. Live(d)
    BY <1>1, <2>1, HistoryGrows DEF Unmoved, Live
  <2>3. PICK v \in (row[q].version + 1) .. Len(history[d]) : history[d][v] = local[q].target
    BY <1>1, <2>2 DEF Unmoved, AcknowledgedUpdateApplied
  <2>4. v \in 1 .. Len(history[d])
    BY <2>1, <2>3, HistoryTyped DEF TruthInv
  <2>5. v \in 1 .. Len(history'[d]) /\ history'[d][v] = history[d][v]
    BY <2>1, <2>4, HistoryGrows
  <2>6. v \in (row'[q].version + 1) .. Len(history'[d])
    BY <1>1, <2>1, <2>3, <2>5 DEF Unmoved
  <2> QED
    BY <1>1, <2>3, <2>5, <2>6 DEF Unmoved
<1>2. CASE Apply(q)
  <2>1. local[q].doc \in Docs /\ local[q].target \in Contents /\ local' = local
    BY <1>2 DEF Apply, TruthInv, LocalsFit, DocOps, WriteOps
  <2>2. Live(local[q].doc)
    BY <1>2, <2>1 DEF Apply, Live
  <2>3. history'[local[q].doc] = Append(history[local[q].doc], local[q].target)
    BY <1>2, <2>1, <2>2 DEF Apply, TruthInv, TypeOK
  <2>4. history[local[q].doc] \in Seq(Contents)
    BY <2>1 DEF TruthInv, TypeOK
  <2>5. /\ Len(history[local[q].doc]) + 1 \in 1 .. Len(history'[local[q].doc])
        /\ history'[local[q].doc][Len(history[local[q].doc]) + 1] = local[q].target
    BY <2>1, <2>3, <2>4
  <2>6. row[q].version \in 1 .. Len(history[local[q].doc]) /\ row' = row
    BY <1>2 DEF Apply, TruthInv, ReadRowTruthful
  <2>7. Len(history[local[q].doc]) + 1 \in (row'[q].version + 1) .. Len(history'[local[q].doc])
    BY <2>4, <2>5, <2>6
  <2> QED
    BY <2>1, <2>5, <2>7
<1>3. Unmoved(q) \/ Apply(q)
  <2>1. CASE UNCHANGED vars
    BY <2>1 DEF vars, Unmoved
  <2>2. ASSUME NEW r \in Requests, Arrive(r)
        PROVE  Unmoved(q)
    <3>1. PICK via \in {"api", "web"}, op \in WriteOps \cup DocOps :
            /\ pc' = [pc EXCEPT ![r] =
                  IF TakesLock(via, op) THEN "lock" ELSE FirstStep(op)]
            /\ \A p \in Requests \ {r} : local'[p] = local[p]
            /\ row' = row
      BY <2>2 DEF Arrive, BeginUpload, BeginUpdate, BeginRename, BeginRestore,
           BeginDelete, BeginDownload, Begin, Goto, WriteOps, DocOps, TruthInv, TypeOK
    <3>2. FirstStep(op) # "replied"
      BY FirstStepCases DEF WriteOps, DocOps
    <3> QED
      BY <3>1, <3>2 DEF Unmoved, TruthInv, TypeOK
  <2>3. ASSUME NEW r \in Requests, Lock(r)
        PROVE  Unmoved(q)
    <3>1. FirstStep(local[r].op) # "replied"
      BY <2>3, FirstStepCases DEF Lock, TruthInv, LocalsFit, WriteOps, DocOps
    <3> QED
      BY <2>3, <3>1 DEF Unmoved, Lock, Goto, TruthInv, TypeOK
  <2>4. ASSUME NEW r \in Requests,
               \/ Put(r) \/ PutSpoils(r) \/ Insert(r) \/ Read(r) \/ Snapshot(r)
               \/ SoftDelete(r) \/ Unlink(r) \/ Fetch(r) \/ Fail(r) \/ LoseLock(r)
        PROVE  Unmoved(q)
    BY <2>4 DEF Unmoved, Put, PutSpoils, Insert, Read, Snapshot, SoftDelete, Unlink, Fetch, Fail,
                LoseLock, Goto, TruthInv, TypeOK, LocalsFit, tables
  <2>5. ASSUME NEW r \in Requests, Return(r)
        PROVE  Unmoved(q)
    BY <2>5 DEF Unmoved, Return, Goto, TruthInv, TypeOK
  <2>6. ASSUME NEW r \in Requests, Apply(r), r # q
        PROVE  Unmoved(q)
    BY <2>6 DEF Unmoved, Apply, Goto, TruthInv, TypeOK
  <2> QED
    BY <2>1, <2>2, <2>3, <2>4, <2>5, <2>6 DEF Next, Step
<1> QED
  BY <1>1, <1>2, <1>3

(* An update, rename or restore answered with success is a later version   *)
(* than the one it snapshotted, unless the document has been deleted       *)
(* meanwhile.                                                              *)
THEOREM AcknowledgedIsApplied == Spec => []AcknowledgedUpdateApplied
<1>1. Init => AcknowledgedUpdateApplied
  BY DEF Init, AcknowledgedUpdateApplied
<1> QED
  BY <1>1, TruthAlways, AcknowledgedStep, PTL DEF Spec

-----------------------------------------------------------------------------
(***************************************************************************)
(* The second part needs an assumption on the deployment: which handlers   *)
(* are used, and whether the cluster lock is the real one.  Under Serial,  *)
(* the two tables hold the whole history.                                  *)
(***************************************************************************)
(* Clients use the REST API only, the locker is the PGLocker, and no        *)
(* session that holds a lock breaks under its handler.                      *)
Serial == ClusterLock /\ ~SessionsBreak /\ \A h \in Handlers : h[1] = "api"

(* Between the first and the last statement of an upload, an update or a   *)
(* restore.                                                                *)
Critical == {"put", "insert", "read", "snapshot", "apply"}

LockHeld ==
    \A r \in Requests :
        pc[r] \in Critical => lock[LockKey(local[r])] = r

SnapshotTaken ==
    \A r \in Requests :
        pc[r] = "apply" =>
            \E i \in 1 .. Len(versions[local[r].doc]) :
                versions[local[r].doc][i].version = row[r].version

SerialInv ==
    /\ TruthInv
    /\ LockHeld
    /\ NoLostUpdate
    /\ SnapshotTaken
    /\ HistoryComplete

-----------------------------------------------------------------------------
LEMMA LockKeyTyped ==
  ASSUME TruthInv, NEW r \in Requests, pc[r] \in Critical \cup {"lock"}
  PROVE  LockKey(local[r]) \in LockKeys
  BY DEF TruthInv, LocalsFit, LockKey, LockKeys, Critical, WriteOps, DocOps

(* Two requests are never inside UpdateDocument on the same document.      *)
LEMMA Exclusion ==
  ASSUME TruthInv, LockHeld, NEW r \in Requests, NEW q \in Requests,
         pc[r] \in {"read", "snapshot", "apply"},
         pc[q] \in {"read", "snapshot", "apply"},
         local[r].doc = local[q].doc
  PROVE  r = q
<1>1. LockKey(local[r]) = local[r].doc /\ LockKey(local[q]) = local[q].doc
  BY DEF TruthInv, LocalsFit, LockKey
<1> QED
  BY <1>1 DEF LockHeld, Critical

(* The API takes the lock before the first statement of every handler that *)
(* writes a content.                                                       *)
LEMMA ArriveUnlocked ==
  ASSUME Serial, TruthInv, NEW r \in Requests, Arrive(r)
  PROVE  /\ UNCHANGED <<docs, versions, blobs, phantom, history, lock, row>>
         /\ \E l \in PCs \ Critical : pc' = [pc EXCEPT ![r] = l]
         /\ \A q \in Requests \ {r} : local'[q] = local[q]
<1>1. PICK via \in {"api", "web"}, op \in WriteOps \cup DocOps,
           d \in Docs \cup {Nothing},
           seen \in Contents \cup {Nothing}, target \in Contents \cup {Nothing} :
        Begin(r, via, op, d, seen, target)
  <2>1. \A d \in Docs : Live(d) => docs[d].content \in Contents
    BY HistoryTyped DEF TruthInv, RowIsCurrent, Live
  <2>2. \A d \in Docs : \A i \in 1 .. Len(versions[d]) :
          versions[d][i].content \in Contents
    BY HistoryTyped DEF TruthInv, SnapshotRows
  <2> QED
    BY <2>1, <2>2 DEF Arrive, BeginUpload, BeginUpdate, BeginRename, BeginRestore,
         BeginDelete, BeginDownload, WriteOps, DocOps
<1>2. via = "api"
  BY <1>1 DEF Begin, Serial
<1>3. (IF TakesLock(via, op) THEN "lock" ELSE FirstStep(op)) \in PCs \ Critical
  BY <1>2, FirstStepCases DEF TakesLock, WriteOps, DocOps, PCs, Critical
<1> QED
  BY <1>1, <1>3 DEF Begin, Goto, tables, TruthInv, TypeOK

LEMMA LockHeldStep ==
  ASSUME Serial, TruthInv, LockHeld, [Next]_vars
  PROVE  LockHeld'
<1>1. CASE UNCHANGED vars
  BY <1>1 DEF vars, LockHeld, LockKey
<1>2. ASSUME NEW r \in Requests, Arrive(r) PROVE LockHeld'
  BY <1>2, ArriveUnlocked DEF LockHeld, LockKey, TruthInv, TypeOK
<1>3. ASSUME NEW r \in Requests, Lock(r) PROVE LockHeld'
  <2>1. /\ pc[r] = "lock"
        /\ lock[LockKey(local[r])] = Nobody
        /\ lock' = [lock EXCEPT ![LockKey(local[r])] = r]
        /\ UNCHANGED local
    BY <1>3 DEF Lock, Serial
  <2>2. \A q \in Requests \ {r} : pc'[q] = pc[q]
    BY <1>3 DEF Lock, Goto, TruthInv, TypeOK
  <2>3. lock \in [LockKeys -> Requests \cup {Nobody}] /\ LockKey(local[r]) \in LockKeys
    BY <2>1, LockKeyTyped DEF TruthInv, TypeOK
  <2>4. ASSUME NEW q \in Requests, pc'[q] \in Critical
        PROVE  lock'[LockKey(local[q])] = q
    <3>1. CASE q = r
      BY <2>1, <2>3, <3>1
    <3>2. CASE q # r
      <4>1. lock[LockKey(local[q])] = q /\ LockKey(local[q]) \in LockKeys
        BY <2>2, <2>4, <3>2, LockKeyTyped DEF LockHeld
      <4> QED
        BY <2>1, <2>3, <4>1, IdsAssumption
    <3> QED
      BY <3>1, <3>2
  <2> QED
    BY <2>1, <2>4 DEF LockHeld, LockKey
<1>4. ASSUME NEW r \in Requests, Return(r) PROVE LockHeld'
  <2>1. /\ lock' = [k \in LockKeys |-> IF lock[k] = r THEN Nobody ELSE lock[k]]
        /\ local' = [local EXCEPT ![r] = NoLocal]
        /\ pc' = [pc EXCEPT ![r] = "idle"]
    BY <1>4 DEF Return, Goto
  <2>2. ASSUME NEW q \in Requests, pc'[q] \in Critical
        PROVE  /\ q # r /\ local'[q] = local[q]
               /\ lock[LockKey(local[q])] = q /\ LockKey(local[q]) \in LockKeys
    BY <2>1, <2>2, LockKeyTyped DEF LockHeld, TruthInv, TypeOK, Critical
  <2> QED
    BY <2>1, <2>2 DEF LockHeld, LockKey
<1>5. ASSUME NEW r \in Requests,
             \/ Put(r) \/ PutSpoils(r) \/ Insert(r) \/ Read(r) \/ Snapshot(r) \/ Apply(r)
             \/ SoftDelete(r) \/ Unlink(r) \/ Fetch(r) \/ Fail(r) \/ LoseLock(r)
      PROVE  LockHeld'
  <2>1. UNCHANGED <<lock, local>>
    BY <1>5 DEF Serial, Put, PutSpoils, Insert, Read, Snapshot, Apply, SoftDelete, Unlink, Fetch, Fail, LoseLock, tables
  <2>2. \A q \in Requests : pc'[q] \in Critical => pc[q] \in Critical
    BY <1>5 DEF Put, PutSpoils, Insert, Read, Snapshot, Apply, SoftDelete, Unlink, Fetch, Fail, LoseLock,
                Goto, Critical, TruthInv, TypeOK
  <2> QED
    BY <2>1, <2>2 DEF LockHeld, LockKey
<1> QED
  BY <1>1, <1>2, <1>3, <1>4, <1>5 DEF Next, Step
-----------------------------------------------------------------------------
(* The steps that touch neither the rows UpdateDocument works with nor the *)
(* tables it reads and writes; SoftDelete keeps the version.               *)
QuietStep(r) ==
    \/ Arrive(r) \/ Lock(r) \/ Put(r) \/ PutSpoils(r) \/ SoftDelete(r) \/ Unlink(r) \/ Fetch(r)
    \/ Return(r) \/ Fail(r) \/ LoseLock(r)

LEMMA QuietFrame ==
  ASSUME Serial, TruthInv, NEW r \in Requests, QuietStep(r)
  PROVE  /\ versions' = versions /\ history' = history
         /\ \A d \in Docs : docs'[d].version = docs[d].version
         /\ \A q \in Requests : pc'[q] \in {"snapshot", "apply"} =>
               /\ pc[q] = pc'[q] /\ row'[q] = row[q]
               /\ local'[q] = local[q] /\ local[q].doc \in Docs
<1>1. \A q \in Requests : pc[q] \in {"snapshot", "apply"} => local[q].doc \in Docs
  BY DEF TruthInv, LocalsFit, DocOps
<1>2. CASE Arrive(r)
  <2>1. PICK l \in PCs \ Critical : pc' = [pc EXCEPT ![r] = l]
    BY <1>2, ArriveUnlocked
  <2>2. \A q \in Requests : pc'[q] \in {"snapshot", "apply"} => q # r /\ pc'[q] = pc[q]
    BY <2>1 DEF TruthInv, TypeOK, Critical
  <2> QED
    BY <1>1, <1>2, <2>2, ArriveUnlocked
<1>3. CASE Lock(r)
  <2>1. FirstStep(local[r].op) \in {"put", "read"}
    BY <1>3, FirstStepCases DEF Lock, TruthInv, LocalsFit, WriteOps
  <2> QED
    BY <1>1, <1>3, <2>1 DEF Lock, Goto, tables, TruthInv, TypeOK
<1>4. CASE Put(r) \/ PutSpoils(r) \/ Unlink(r) \/ Fetch(r) \/ Fail(r) \/ LoseLock(r)
  BY <1>1, <1>4 DEF Put, PutSpoils, Unlink, Fetch, Fail, LoseLock, Goto, tables, TruthInv, TypeOK
<1>5. CASE Return(r)
  BY <1>1, <1>5 DEF Return, Goto, tables, TruthInv, TypeOK
<1>6. CASE SoftDelete(r)
  <2>1. \A d \in Docs : docs'[d].version = docs[d].version
    BY <1>6 DEF SoftDelete, TruthInv, TypeOK
  <2>2. PICK l \in {"unlink", "replied"} : pc' = [pc EXCEPT ![r] = l]
    BY <1>6 DEF SoftDelete, Goto
  <2> QED
    BY <1>1, <1>6, <2>1, <2>2 DEF SoftDelete, TruthInv, TypeOK
<1> QED
  BY <1>2, <1>3, <1>4, <1>5, <1>6 DEF QuietStep

LEMMA QuietSerial ==
  ASSUME Serial, SerialInv, NEW r \in Requests, QuietStep(r)
  PROVE  NoLostUpdate' /\ SnapshotTaken' /\ HistoryComplete'
<1> USE DEF SerialInv
<1>1. NoLostUpdate'
  BY QuietFrame DEF NoLostUpdate
<1>2. SnapshotTaken'
  BY QuietFrame DEF SnapshotTaken
<1>3. HistoryComplete'
  BY QuietFrame DEF HistoryComplete
<1> QED
  BY <1>1, <1>2, <1>3

LEMMA InsertSerial ==
  ASSUME SerialInv, NEW r \in Requests, Insert(r)
  PROVE  NoLostUpdate' /\ SnapshotTaken' /\ HistoryComplete'
<1> USE DEF SerialInv
<1>1. PICK d \in Docs :
        /\ docs[d].status = "none"
        /\ docs' = [docs EXCEPT ![d] =
              [status |-> "live", version |-> 1, content |-> local[r].target]]
  BY DEF Insert
<1>2. /\ pc' = [pc EXCEPT ![r] = "replied"]
      /\ UNCHANGED <<versions, local, row>>
  BY DEF Insert, Goto
<1>3. ASSUME NEW q \in Requests, pc'[q] \in {"snapshot", "apply"}
      PROVE  /\ pc[q] = pc'[q]
             /\ docs'[local[q].doc].version = docs[local[q].doc].version
  <2>1. pc[q] = pc'[q]
    BY <1>2, <1>3 DEF TruthInv, TypeOK
  <2>2. local[q].doc \in Docs /\ local[q].doc # d
    BY <1>1, <1>3, <2>1 DEF TruthInv, LocalsFit, DocOps
  <2> QED
    BY <1>1, <2>1, <2>2 DEF TruthInv, TypeOK
<1>4. NoLostUpdate' /\ SnapshotTaken'
  BY <1>2, <1>3 DEF NoLostUpdate, SnapshotTaken
<1>5. HistoryComplete'
  BY <1>1, <1>2 DEF HistoryComplete, TruthInv, TypeOK
<1> QED
  BY <1>4, <1>5

LEMMA ReadSerial ==
  ASSUME SerialInv, NEW r \in Requests, Read(r)
  PROVE  NoLostUpdate' /\ SnapshotTaken' /\ HistoryComplete'
<1> USE DEF SerialInv
<1>1. /\ UNCHANGED <<docs, versions, local>>
      /\ \/ /\ row' = [row EXCEPT ![r] = docs[local[r].doc]]
            /\ pc' = [pc EXCEPT ![r] = "snapshot"]
         \/ row' = row /\ pc' = [pc EXCEPT ![r] = "failed"]
  BY DEF Read, Goto, tables
<1>2. NoLostUpdate'
  BY <1>1 DEF NoLostUpdate, TruthInv, TypeOK
<1>3. SnapshotTaken'
  <2>1. pc \in [Requests -> PCs] /\ row \in [Requests -> Rows]
    BY DEF TruthInv, TypeOK
  <2>2. ASSUME NEW q \in Requests, pc'[q] = "apply"
        PROVE  pc[q] = "apply" /\ row'[q] = row[q]
    BY <1>1, <2>1, <2>2
  <2> QED
    BY <1>1, <2>2 DEF SnapshotTaken
<1>4. HistoryComplete'
  BY <1>1 DEF HistoryComplete
<1> QED
  BY <1>2, <1>3, <1>4

LEMMA SnapshotSerial ==
  ASSUME SerialInv, NEW r \in Requests, Snapshot(r)
  PROVE  NoLostUpdate' /\ SnapshotTaken' /\ HistoryComplete'
<1> USE DEF SerialInv
<1> DEFINE d == local[r].doc
           new == [version |-> row[r].version, content |-> row[r].content]
<1>1. /\ pc[r] = "snapshot" /\ d \in Docs
      /\ versions' = [versions EXCEPT ![d] = Append(@, new)]
      /\ pc' = [pc EXCEPT ![r] = "apply"]
      /\ UNCHANGED <<docs, local, row>>
  BY DEF Snapshot, Goto, TruthInv, LocalsFit, DocOps
<1>2. versions[d] \in Seq(SnapshotRows) /\ new \in SnapshotRows
  <2>1. row[r].content = history[d][row[r].version] /\ row[r].version \in 1 .. Len(history[d])
    BY <1>1 DEF TruthInv, ReadRowTruthful
  <2>2. row[r].content \in Contents /\ row[r].version \in Nat
    BY <1>1, <2>1, HistoryTyped DEF TruthInv
  <2>3. new \in SnapshotRows
    BY <2>2 DEF SnapshotRows
  <2> QED
    BY <1>1, <2>3 DEF TruthInv, TypeOK
<1>3. \A e \in Docs : \A i \in 1 .. Len(versions[e]) :
        i \in 1 .. Len(versions'[e]) /\ versions'[e][i] = versions[e][i]
  <2> HIDE DEF new
  <2>1. ASSUME NEW e \in Docs
        PROVE  /\ versions[e] \in Seq(SnapshotRows)
               /\ versions'[e] = IF e = d THEN Append(versions[d], new) ELSE versions[e]
    BY <1>1 DEF TruthInv, TypeOK
  <2>2. ASSUME NEW e \in Docs, NEW i \in 1 .. Len(versions[e])
        PROVE  i \in 1 .. Len(versions'[e]) /\ versions'[e][i] = versions[e][i]
    <3>1. CASE e # d
      BY <2>1, <2>2, <3>1
    <3>2. CASE e = d
      <4>1. versions'[e] = Append(versions[e], new) /\ versions[e] \in Seq(SnapshotRows)
        BY <2>1, <3>2
      <4>2. new \in SnapshotRows
        BY <1>2
      <4> QED
        BY <2>2, <4>1, <4>2
    <3> QED
      BY <3>1, <3>2
  <2> QED
    BY <2>2
<1>4. \E i \in 1 .. Len(versions'[d]) : versions'[d][i].version = row[r].version
  <2>1. versions'[d] = Append(versions[d], new) /\ Len(versions[d]) \in Nat
    BY <1>1, <1>2 DEF TruthInv, TypeOK
  <2>2. /\ Len(versions[d]) + 1 \in 1 .. Len(versions'[d])
        /\ versions'[d][Len(versions[d]) + 1] = new
    BY <1>2, <2>1
  <2> QED
    BY <2>2
<1>5. NoLostUpdate'
  BY <1>1 DEF NoLostUpdate, TruthInv, TypeOK
<1>6. SnapshotTaken'
  <2>1. ASSUME NEW q \in Requests, pc'[q] = "apply", q # r
        PROVE  pc[q] = "apply" /\ local[q].doc \in Docs
    BY <1>1, <2>1 DEF TruthInv, TypeOK, LocalsFit, DocOps
  <2> QED
    BY <1>1, <1>3, <1>4, <2>1 DEF SnapshotTaken
<1>7. HistoryComplete'
  BY <1>1, <1>3 DEF HistoryComplete
<1> QED
  BY <1>5, <1>6, <1>7

LEMMA ApplySerial ==
  ASSUME SerialInv, NEW r \in Requests, Apply(r)
  PROVE  NoLostUpdate' /\ SnapshotTaken' /\ HistoryComplete'
<1> USE DEF SerialInv
<1> DEFINE d == local[r].doc
<1>1. /\ pc[r] = "apply" /\ d \in Docs
      /\ pc' = [pc EXCEPT ![r] = "replied"]
      /\ UNCHANGED <<versions, local, row>>
      /\ \A e \in Docs : \/ docs'[e].version = docs[e].version
                         \/ e = d /\ docs'[e].version = docs[d].version + 1
  <2>1. /\ pc[r] = "apply" /\ d \in Docs
        /\ pc' = [pc EXCEPT ![r] = "replied"]
        /\ UNCHANGED <<versions, local, row>>
    BY DEF Apply, Goto, TruthInv, LocalsFit, DocOps
  <2>2. \/ docs' = docs
        \/ docs' = [docs EXCEPT ![d] =
              [status |-> "live", version |-> docs[d].version + 1,
               content |-> local[r].target]]
    BY DEF Apply
  <2> QED
    BY <2>1, <2>2 DEF TruthInv, TypeOK
<1>2. ASSUME NEW q \in Requests, pc'[q] \in {"snapshot", "apply"}
      PROVE  /\ pc[q] = pc'[q]
             /\ local[q].doc \in Docs /\ local[q].doc # d
  <2>1. pc[q] = pc'[q] /\ q # r
    BY <1>1, <1>2 DEF TruthInv, TypeOK
  <2> QED
    BY <1>1, <1>2, <2>1, Exclusion DEF TruthInv, LocalsFit, DocOps
<1>3. NoLostUpdate' /\ SnapshotTaken'
  BY <1>1, <1>2 DEF NoLostUpdate, SnapshotTaken
<1>4. HistoryComplete'
  <2>1. \E i \in 1 .. Len(versions[d]) : versions[d][i].version = docs[d].version
    BY <1>1 DEF NoLostUpdate, SnapshotTaken
  <2>2. ASSUME NEW e \in Docs, NEW v \in 1 .. (docs'[e].version - 1)
        PROVE  \E i \in 1 .. Len(versions[e]) : versions[e][i].version = v
    <3>1. docs[e].version \in Nat /\ docs'[e].version \in Nat
      BY <1>1, HistoryTyped DEF TruthInv
    <3>2. v \in 1 .. (docs[e].version - 1) \/ (e = d /\ v = docs[d].version)
      BY <1>1, <2>2, <3>1
    <3> QED
      BY <2>1, <3>2 DEF HistoryComplete
  <2> QED
    BY <1>1, <2>2 DEF HistoryComplete
<1> QED
  BY <1>3, <1>4

LEMMA SerialInit == Init => SerialInv
<1> SUFFICES ASSUME Init PROVE SerialInv
  OBVIOUS
<1>1. LockHeld /\ NoLostUpdate /\ SnapshotTaken
  BY DEF Init, LockHeld, Critical, NoLostUpdate, SnapshotTaken
<1>2. HistoryComplete
  BY DEF Init, HistoryComplete, NoRow
<1> QED
  BY <1>1, <1>2, InitTruth DEF SerialInv

LEMMA SerialStep ==
  ASSUME Serial PROVE SerialInv /\ [Next]_vars => SerialInv'
<1> SUFFICES ASSUME SerialInv, [Next]_vars PROVE SerialInv'
  OBVIOUS
<1>1. TruthInv' /\ LockHeld'
  BY TruthInductive, LockHeldStep DEF SerialInv
<1>2. NoLostUpdate' /\ SnapshotTaken' /\ HistoryComplete'
  <2>1. CASE UNCHANGED vars
    BY <2>1 DEF vars, SerialInv, NoLostUpdate, SnapshotTaken, HistoryComplete
  <2>2. ASSUME NEW r \in Requests, Arrive(r) \/ Step(r) \/ PutSpoils(r) \/ Fail(r) \/ LoseLock(r)
        PROVE  NoLostUpdate' /\ SnapshotTaken' /\ HistoryComplete'
    BY <2>2, QuietSerial, InsertSerial, ReadSerial, SnapshotSerial, ApplySerial
    DEF Step, QuietStep
  <2> QED
    BY <2>1, <2>2 DEF Next
<1> QED
  BY <1>1, <1>2 DEF SerialInv

LEMMA SerialAlways == ASSUME Serial PROVE Spec => []SerialInv
  BY SerialInit, SerialStep, PTL DEF Spec

(* With the PGLocker and the API alone, every version a document has left  *)
(* behind is in document_versions.                                         *)
THEOREM HistoryLossless == ASSUME Serial PROVE Spec => []HistoryComplete
  BY SerialAlways, PTL DEF SerialInv

(* ... and no update overwrites a version it has not seen.                 *)
THEOREM UpdatesNeverLost == ASSUME Serial PROVE Spec => []NoLostUpdate
  BY SerialAlways, PTL DEF SerialInv
-----------------------------------------------------------------------------
(* Refinement: what the tables say is the history, and every step appends, *)
(* removes, creates or stutters.                                           *)
LEMMA StoredIsHistory == SerialInv => StoredHistory = history
<1> SUFFICES ASSUME SerialInv PROVE StoredHistory = history
  OBVIOUS
<1> USE DEF SerialInv
<1>1. ASSUME NEW d \in Docs, NEW v \in 1 .. docs[d].version
      PROVE  StoredContent(d, v) = history[d][v]
  <2>1. docs[d].version \in Nat /\ docs[d] \in Rows
    BY HistoryTyped DEF TruthInv, TypeOK
  <2>2. CASE v = docs[d].version
    <3>1. docs[d].status # "none"
      BY <1>1, <2>1 DEF TruthInv, RowIsCurrent
    <3> QED
      BY <2>2, <3>1 DEF StoredContent, TruthInv, RowIsCurrent
  <2>3. CASE v # docs[d].version
    <3> DEFINE rows == {i \in 1 .. Len(versions[d]) : versions[d][i].version = v}
               j == CHOOSE i \in rows : TRUE
    <3>1. v \in 1 .. (docs[d].version - 1)
      BY <1>1, <2>1, <2>3
    <3>2. rows # {}
      BY <3>1 DEF HistoryComplete
    <3>3. j \in rows
      BY <3>2
    <3>4. StoredContent(d, v) = versions[d][j].content
      BY <2>3, <3>2 DEF StoredContent
    <3>5. versions[d][j].content = history[d][v]
      BY <3>3 DEF TruthInv, SnapshotsTruthful
    <3> QED
      BY <3>4, <3>5
  <2> QED
    BY <2>2, <2>3
<1>2. ASSUME NEW d \in Docs
      PROVE  [v \in 1 .. docs[d].version |-> StoredContent(d, v)] = history[d]
  <2>1. history[d] \in [1 .. docs[d].version -> Contents]
    BY LenProperties DEF TruthInv, TypeOK, RowIsCurrent
  <2> QED
    BY <1>1, <2>1
<1>3. history = [d \in Docs |-> history[d]]
  BY DEF TruthInv, TypeOK
<1> QED
  BY <1>2, <1>3 DEF StoredHistory

LEMMA RefinesInit == Init => VH!Init
<1> SUFFICES ASSUME Init PROVE VH!Init
  OBVIOUS
<1>1. StoredHistory = history
  BY SerialInit, StoredIsHistory
<1>2. DeletedDocs = {}
  BY DEF Init, DeletedDocs, NoRow
<1> QED
  BY <1>1, <1>2 DEF Init, VH!Init

LEMMA StoredIsHistoryNext == SerialInv' => (StoredHistory = history)'
BY StoredIsHistory, PTL

LEMMA RefinesStep ==
  ASSUME Serial
  PROVE  SerialInv /\ SerialInv' /\ [Next]_vars
            => [VH!Next]_<<StoredHistory, DeletedDocs>>
<1> SUFFICES ASSUME SerialInv, SerialInv', [Next]_vars
             PROVE  [VH!Next]_<<StoredHistory, DeletedDocs>>
  OBVIOUS
<1>1. StoredHistory = history /\ StoredHistory' = history'
  BY StoredIsHistory, StoredIsHistoryNext
<1> USE DEF SerialInv
<1>2. ASSUME UNCHANGED <<docs, history>>
      PROVE  UNCHANGED <<StoredHistory, DeletedDocs>>
  BY <1>1, <1>2 DEF DeletedDocs
<1>3. CASE UNCHANGED vars
  BY <1>2, <1>3 DEF vars
<1>4. ASSUME NEW r \in Requests, Arrive(r)
      PROVE  UNCHANGED <<docs, history>>
  BY <1>4, ArriveUnlocked
<1>5. ASSUME NEW r \in Requests,
             \/ Lock(r) \/ Put(r) \/ PutSpoils(r) \/ Read(r) \/ Snapshot(r) \/ Unlink(r)
             \/ Fetch(r) \/ Return(r) \/ Fail(r) \/ LoseLock(r)
      PROVE  UNCHANGED <<docs, history>>
  BY <1>5 DEF Lock, Put, PutSpoils, Read, Snapshot, Unlink, Fetch, Return, Fail, LoseLock, tables
<1>6. ASSUME NEW r \in Requests, Insert(r)
      PROVE  VH!Next
  <2>1. PICK d \in Docs :
          /\ docs[d].status = "none"
          /\ docs' = [docs EXCEPT ![d] =
                [status |-> "live", version |-> 1, content |-> local[r].target]]
          /\ history' = [history EXCEPT ![d] = <<local[r].target>>]
    BY <1>6 DEF Insert
  <2>2. local[r].target \in Contents
    BY <1>6 DEF Insert, TruthInv, LocalsFit, WriteOps
  <2>3. history[d] = <<>>
    <3>1. history[d] \in Seq(Contents) /\ Len(history[d]) = 0
      BY <2>1 DEF TruthInv, TypeOK, RowIsCurrent
    <3> QED
      BY <3>1, EmptySeq
  <2>4. DeletedDocs' = DeletedDocs
    BY <2>1 DEF DeletedDocs, TruthInv, TypeOK
  <2>5. VH!Create(d, local[r].target)
    BY <1>1, <2>1, <2>3, <2>4 DEF VH!Create
  <2> QED
    BY <2>2, <2>5 DEF VH!Next
<1>7. ASSUME NEW r \in Requests, Apply(r)
      PROVE  VH!Next \/ UNCHANGED <<docs, history>>
  <2> DEFINE d == local[r].doc
  <2>1. d \in Docs /\ local[r].target \in Contents
    BY <1>7 DEF Apply, TruthInv, LocalsFit, DocOps, WriteOps
  <2>2. CASE Live(d)
    <3>1. /\ docs' = [docs EXCEPT ![d] =
                [status |-> "live", version |-> docs[d].version + 1,
                 content |-> local[r].target]]
          /\ history' = [history EXCEPT ![d] = Append(@, local[r].target)]
      BY <1>7, <2>2 DEF Apply
    <3>2. history[d] # <<>> /\ d \notin DeletedDocs
      <4>1. Len(history[d]) >= 1
        BY <2>1, <2>2 DEF Live, TruthInv, RowIsCurrent
      <4> QED
        BY <2>2, <4>1, EmptySeq DEF Live, DeletedDocs
    <3>3. DeletedDocs' = DeletedDocs
      BY <2>1, <2>2, <3>1 DEF DeletedDocs, Live, TruthInv, TypeOK
    <3>4. VH!Commit(d, local[r].target)
      BY <1>1, <3>1, <3>2, <3>3 DEF VH!Commit
    <3> QED
      BY <2>1, <3>4 DEF VH!Next
  <2>3. CASE ~Live(d)
    BY <1>7, <2>3 DEF Apply
  <2> QED
    BY <2>2, <2>3
<1>8. ASSUME NEW r \in Requests, SoftDelete(r)
      PROVE  VH!Next
  <2> DEFINE d == local[r].doc
  <2>1. /\ d \in Docs /\ docs[d].status # "none"
        /\ docs' = [docs EXCEPT ![d] =
              [status |-> "deleted", version |-> docs[d].version,
               content |-> docs[d].content]]
        /\ history' = history
    BY <1>8 DEF SoftDelete, TruthInv, LocalsFit, DocOps
  <2>2. DeletedDocs' = DeletedDocs \cup {d}
    BY <2>1 DEF DeletedDocs, TruthInv, TypeOK
  <2>3. history[d] # <<>>
    <3>1. Len(history[d]) >= 1
      BY <2>1 DEF TruthInv, RowIsCurrent
    <3> QED
      BY <3>1, EmptySeq
  <2>4. VH!Remove(d)
    BY <1>1, <2>1, <2>2, <2>3 DEF VH!Remove
  <2> QED
    BY <2>1, <2>4 DEF VH!Next
<1> QED
  BY <1>2, <1>3, <1>4, <1>5, <1>6, <1>7, <1>8 DEF Next, Step

(* The API with the PGLocker implements the append-only history: creations, *)
(* commits and removals of VersionHistory, and nothing else.               *)
THEOREM RefinesVersionHistory ==
  ASSUME Serial PROVE Spec => ImplementsVersionHistory
  BY RefinesInit, RefinesStep, SerialAlways, PTL
  DEF Spec, VH!Spec, ImplementsVersionHistory

-----------------------------------------------------------------------------
(***************************************************************************)
(* The lock as the requests use it.                                        *)
(***************************************************************************)
(* A request has no lock but that of its operation, and none before Lock.  *)
OwnLock ==
    \A r \in Requests : \A k \in LockKeys :
        lock[k] = r => k = LockKey(local[r]) /\ pc[r] \notin {"idle", "lock"}

LEMMA OwnLockStep ==
  ASSUME TruthInv, OwnLock, [Next]_vars
  PROVE  OwnLock' /\ [KL!Next]_lock
<1> USE IdsAssumption DEF TruthInv, TypeOK, OwnLock
<1>1. CASE UNCHANGED vars
  BY <1>1 DEF vars, LockKey
<1>2. ASSUME NEW r \in Requests, Arrive(r)
      PROVE  OwnLock' /\ lock' = lock
  <2>1. /\ pc[r] = "idle" /\ lock' = lock
        /\ \A q \in Requests \ {r} : pc'[q] = pc[q] /\ local'[q] = local[q]
    BY <1>2 DEF Arrive, BeginUpload, BeginUpdate, BeginRename, BeginRestore,
         BeginDelete, BeginDownload, Begin, Goto
  <2> QED
    BY <2>1 DEF LockKey
<1>3. ASSUME NEW r \in Requests, Lock(r)
      PROVE  OwnLock' /\ [KL!Next]_lock
  <2> DEFINE j == LockKey(local[r])
  <2>1. /\ pc[r] = "lock" /\ local' = local /\ j \in LockKeys
        /\ pc' = [pc EXCEPT ![r] = FirstStep(local[r].op)]
        /\ FirstStep(local[r].op) \notin {"idle", "lock"}
    BY <1>3, LockKeyTyped, FirstStepCases DEF Lock, Goto, LocalsFit, WriteOps, DocOps
  <2>2. \A k \in LockKeys : lock[k] # r
    BY <2>1
  <2>3. CASE ~ClusterLock
    BY <1>3, <2>1, <2>3 DEF Lock, LockKey
  <2>4. CASE ClusterLock
    <3>1. lock[j] = Nobody /\ lock' = [lock EXCEPT ![j] = r]
      BY <1>3, <2>4 DEF Lock
    <3>2. KL!Acquire(r, j)
      BY <2>1, <2>2, <3>1 DEF KL!Acquire
    <3>3. OwnLock'
      BY <2>1, <2>2, <3>1 DEF LockKey
    <3> QED
      BY <2>1, <3>2, <3>3 DEF KL!Next
  <2> QED
    BY <2>3, <2>4
<1>4. ASSUME NEW r \in Requests, Return(r)
      PROVE  OwnLock' /\ [KL!Next]_lock
  <2>1. /\ lock' = [k \in LockKeys |-> IF lock[k] = r THEN Nobody ELSE lock[k]]
        /\ local' = [local EXCEPT ![r] = NoLocal]
        /\ pc' = [pc EXCEPT ![r] = "idle"]
    BY <1>4 DEF Return, Goto
  <2>2. OwnLock'
    BY <2>1 DEF LockKey
  <2>3. CASE \A k \in LockKeys : lock[k] # r
    BY <2>1, <2>2, <2>3
  <2>4. ASSUME NEW j \in LockKeys, lock[j] = r PROVE KL!Release(j)
    BY <2>1, <2>4 DEF KL!Release
  <2> QED
    BY <2>2, <2>3, <2>4 DEF KL!Next
<1>5. ASSUME NEW r \in Requests, LoseLock(r)
      PROVE  OwnLock' /\ [KL!Next]_lock
  <2>1. PICK j \in LockKeys : lock[j] = r /\ lock' = [lock EXCEPT ![j] = Nobody]
    BY <1>5 DEF LoseLock
  <2>2. UNCHANGED <<pc, local>>
    BY <1>5 DEF LoseLock
  <2>3. KL!Release(j)
    BY <2>1 DEF KL!Release
  <2> QED
    BY <2>1, <2>2, <2>3 DEF KL!Next, LockKey
<1>6. ASSUME NEW r \in Requests,
             \/ Put(r) \/ PutSpoils(r) \/ Insert(r) \/ Read(r) \/ Snapshot(r) \/ Apply(r)
             \/ SoftDelete(r) \/ Unlink(r) \/ Fetch(r) \/ Fail(r)
      PROVE  OwnLock' /\ lock' = lock
  <2>1. /\ UNCHANGED <<lock, local>>
        /\ pc'[r] \notin {"idle", "lock"}
        /\ \A q \in Requests \ {r} : pc'[q] = pc[q]
    BY <1>6 DEF Put, PutSpoils, Insert, Read, Snapshot, Apply, SoftDelete, Unlink, Fetch, Fail,
         Goto, tables
  <2> QED
    BY <2>1 DEF LockKey
<1> QED
  BY <1>1, <1>2, <1>3, <1>4, <1>5, <1>6 DEF Next, Step

(* Requests acquire and release as KeyedLock has it, whichever locker there *)
(* is and whatever breaks: each has one lock at most, which it asked for    *)
(* when it had none.                                                        *)
THEOREM LocksAsPromised == Spec => UsesKeyedLock
<1>1. Init => OwnLock /\ KL!Init
  BY IdsAssumption DEF Init, OwnLock, KL!Init
<1>2. TruthInv /\ OwnLock /\ [Next]_vars => OwnLock' /\ [KL!Next]_lock
  BY OwnLockStep
<1> QED
  BY <1>1, <1>2, TruthAlways, PTL DEF Spec, KL!Spec, UsesKeyedLock

-----------------------------------------------------------------------------
(***************************************************************************)
(* The content store under the handlers that do not remove content: as     *)
(* long as no client deletes through the web interface, whatever else the  *)
(* two surfaces do, with or without cluster locks, every key in use is     *)
(* there.                                                                  *)
(***************************************************************************)
ContentKept == <<"web", "delete">> \notin Handlers

(* Every content a document has had is stored, and so is every content     *)
(* that a handler is going to write into a row or to open.                 *)
HandledContentStored ==
    /\ \A d \in Docs : \A v \in 1 .. Len(history[d]) : history[d][v] \in Kept
    /\ \A r \in Requests :
          /\ pc[r] \in {"insert", "read", "snapshot", "apply"}
                => local[r].target \in Kept
          /\ local[r].op \in {"rename", "restore"} => local[r].target \in Kept
          /\ local[r].op = "download" => local[r].seen \in Kept
          /\ local[r].op = "delete" => local[r].via # "web"
          /\ pc[r] # "unlink"

ContentInv == TruthInv /\ HandledContentStored

-----------------------------------------------------------------------------
LEMMA InitContent == Init => ContentInv
<1> SUFFICES ASSUME Init PROVE HandledContentStored
  BY InitTruth DEF ContentInv
<1> QED
  BY DEF Init, HandledContentStored, NoLocal, Kept

LEMMA ContentImplies == ContentInv => ReferencedContentPresent
<1> SUFFICES ASSUME ContentInv PROVE ReferencedContentPresent
  OBVIOUS
<1> USE DEF ContentInv, TruthInv
<1>1. ASSUME NEW d \in Docs, docs[d].status # "none"
      PROVE  docs[d].content \in Kept
  <2>1. /\ docs[d].version \in 1 .. Len(history[d])
        /\ docs[d].content = history[d][docs[d].version]
    BY <1>1, HistoryTyped DEF RowIsCurrent
  <2> QED
    BY <2>1 DEF HandledContentStored
<1>2. ASSUME NEW d \in Docs, NEW i \in 1 .. Len(versions[d])
      PROVE  versions[d][i].content \in Kept
  BY DEF SnapshotsTruthful, HandledContentStored
<1>3. ASSUME NEW r \in Requests, pc[r] = "fetch"
      PROVE  local[r].seen \in Kept
  BY <1>3 DEF LocalsFit, HandledContentStored
<1> QED
  BY <1>1, <1>2, <1>3 DEF ReferencedContentPresent

-----------------------------------------------------------------------------
(* What a request loads when it arrives is stored.                         *)
LEMMA BeginContent ==
  ASSUME ContentInv, NEW r \in Requests,
         NEW via \in {"api", "web"}, NEW op \in WriteOps \cup DocOps,
         NEW d, NEW seen, NEW target,
         op \in {"rename", "restore"} => target \in Kept,
         op = "download" => seen \in Kept,
         op = "delete" => via # "web",
         Begin(r, via, op, d, seen, target)
  PROVE  HandledContentStored'
<1> USE DEF WriteOps, DocOps
<1>1. /\ UNCHANGED <<Kept, history>>
      /\ local' = [local EXCEPT ![r] = [via |-> via, op |-> op, doc |-> d,
                       seen |-> seen, target |-> target]]
      /\ pc' = [pc EXCEPT ![r] =
                  IF TakesLock(via, op) THEN "lock" ELSE FirstStep(op)]
  BY DEF Begin, Goto, tables, Kept
<1>2. /\ op \in {"upload", "update"} => FirstStep(op) = "put"
      /\ op \in {"rename", "restore"} => FirstStep(op) = "read"
      /\ op = "delete" => FirstStep(op) = "remove"
      /\ op = "download" => FirstStep(op) = "fetch"
  BY FirstStepCases
<1> QED
  BY <1>1, <1>2 DEF ContentInv, TruthInv, TypeOK, HandledContentStored

LEMMA ArriveContent ==
  ASSUME ContentKept, ContentInv, NEW r \in Requests, Arrive(r)
  PROVE  HandledContentStored'
<1>1. ReferencedContentPresent
  BY ContentImplies
<1> USE DEF WriteOps, DocOps
<1>2. ASSUME NEW via \in {"api", "web"}, BeginUpload(r, via)
      PROVE  HandledContentStored'
  <2>1. PICK c \in Contents : Begin(r, via, "upload", Nothing, Nothing, c)
    BY <1>2 DEF BeginUpload
  <2> QED
    BY <2>1, BeginContent
<1>3. ASSUME NEW via \in {"api", "web"}, NEW d \in Docs, BeginUpdate(r, via, d)
      PROVE  HandledContentStored'
  <2>1. PICK c \in Contents : Begin(r, via, "update", d, docs[d].content, c)
    BY <1>3 DEF BeginUpdate
  <2> QED
    BY <2>1, BeginContent
<1>4. ASSUME NEW via \in {"api", "web"}, NEW d \in Docs, BeginRestore(r, via, d)
      PROVE  HandledContentStored'
  <2>1. PICK i \in 1 .. Len(versions[d]) :
           Begin(r, via, "restore", d, docs[d].content, versions[d][i].content)
    BY <1>4 DEF BeginRestore
  <2>2. versions[d][i].content \in Kept
    BY <1>1, <2>1 DEF ReferencedContentPresent
  <2> QED
    BY <2>1, <2>2, BeginContent
<1>5. ASSUME NEW via \in {"api", "web"}, NEW d \in Docs, BeginDelete(r, via, d)
      PROVE  HandledContentStored'
  <2>1. Begin(r, via, "delete", d, docs[d].content, Nothing)
    BY <1>5 DEF BeginDelete
  <2>2. via # "web"
    BY <2>1 DEF Begin, ContentKept
  <2> QED
    BY <2>1, <2>2, BeginContent
<1>6. ASSUME NEW via \in {"api", "web"}, NEW d \in Docs, BeginDownload(r, via, d)
      PROVE  HandledContentStored'
  <2>1. Begin(r, via, "download", d, docs[d].content, Nothing) /\ Live(d)
    BY <1>6 DEF BeginDownload
  <2>2. docs[d].content \in Kept
    BY <1>1, <2>1 DEF ReferencedContentPresent, Live
  <2> QED
    BY <2>1, <2>2, BeginContent
<1>7. ASSUME NEW d \in Docs, BeginRename(r, d)
      PROVE  HandledContentStored'
  <2>1. Begin(r, "api", "rename", d, docs[d].content, docs[d].content) /\ Live(d)
    BY <1>7 DEF BeginRename
  <2>2. docs[d].content \in Kept
    BY <1>1, <2>1 DEF ReferencedContentPresent, Live
  <2> QED
    BY <2>1, <2>2, BeginContent
<1> QED
  BY <1>2, <1>3, <1>4, <1>5, <1>6, <1>7 DEF Arrive

LEMMA StepContent ==
  ASSUME ContentInv, NEW r \in Requests, Step(r) \/ PutSpoils(r) \/ Fail(r) \/ LoseLock(r)
  PROVE  HandledContentStored'
<1> USE DEF ContentInv, TruthInv, TypeOK, HandledContentStored, Kept, Goto, tables
<1>1. CASE Lock(r)
  <2>1. FirstStep(local[r].op) \in {"put", "read"}
    BY <1>1, FirstStepCases DEF Lock, LocalsFit, WriteOps
  <2>2. FirstStep(local[r].op) = "read" => local[r].op \in {"rename", "restore"}
    BY <1>1, FirstStepCases DEF Lock, LocalsFit, WriteOps
  <2> QED
    BY <1>1, <2>1, <2>2 DEF Lock
<1>2. CASE Put(r) \/ PutSpoils(r)
  BY <1>2 DEF Put, PutSpoils
<1>3. CASE Insert(r)
  <2>1. PICK d \in Docs :
          history' = [history EXCEPT ![d] = <<local[r].target>>]
    BY <1>3 DEF Insert
  <2>2. UNCHANGED <<Kept, local>> /\ pc' = [pc EXCEPT ![r] = "replied"]
    BY <1>3 DEF Insert
  <2>3. local[r].target \in Kept
    BY <1>3 DEF Insert
  <2>4. ASSUME NEW e \in Docs, NEW v \in 1 .. Len(history'[e])
        PROVE  history'[e][v] \in Kept'
    <3>1. CASE e = d
      BY <2>1, <2>2, <2>3, <3>1
    <3>2. CASE e # d
      BY <2>1, <2>2, <3>2
    <3> QED
      BY <3>1, <3>2
  <2> QED
    BY <2>2, <2>4
<1>4. CASE Read(r) \/ Snapshot(r)
  BY <1>4 DEF Read, Snapshot
<1>5. CASE Apply(r)
  <2> DEFINE d == local[r].doc
  <2>1. UNCHANGED <<Kept, local>> /\ pc' = [pc EXCEPT ![r] = "replied"]
    BY <1>5 DEF Apply
  <2>2. local[r].target \in Kept /\ local[r].target \in Contents /\ d \in Docs
    BY <1>5 DEF Apply, LocalsFit, WriteOps, DocOps
  <2>3. history' = history \/ history' = [history EXCEPT ![d] = Append(@, local[r].target)]
    BY <1>5 DEF Apply
  <2>4. ASSUME NEW e \in Docs, NEW v \in 1 .. Len(history'[e])
        PROVE  history'[e][v] \in Kept'
    <3>1. CASE history'[e] = history[e]
      BY <2>1, <3>1
    <3>2. CASE history'[e] # history[e]
      <4>1. e = d /\ history'[e] = Append(history[e], local[r].target)
        BY <2>2, <2>3, <3>2
      <4>2. history[e] \in Seq(Contents)
        OBVIOUS
      <4>3. CASE v \in 1 .. Len(history[e])
        <5>1. history'[e][v] = history[e][v]
          BY <4>1, <4>2, <4>3
        <5> QED
          BY <2>1, <4>3, <5>1
      <4>4. CASE v \notin 1 .. Len(history[e])
        <5>1. history'[e][v] = local[r].target
          BY <4>1, <4>2, <4>4
        <5> QED
          BY <2>1, <2>2, <5>1
      <4> QED
        BY <4>3, <4>4
    <3> QED
      BY <3>1, <3>2
  <2> QED
    BY <2>1, <2>4
<1>6. CASE SoftDelete(r)
  <2>1. local[r].via # "web"
    BY <1>6 DEF SoftDelete, LocalsFit
  <2> QED
    BY <1>6, <2>1 DEF SoftDelete
<1>7. CASE Unlink(r)
  BY <1>7 DEF Unlink
<1>8. CASE Fetch(r)
  BY <1>8 DEF Fetch
<1>9. CASE Return(r)
  BY <1>9 DEF Return, NoLocal
<1>10. CASE Fail(r) \/ LoseLock(r)
  BY <1>10 DEF Fail, LoseLock
<1> QED
  BY <1>1, <1>2, <1>3, <1>4, <1>5, <1>6, <1>7, <1>8, <1>9, <1>10 DEF Step

LEMMA NextContent ==
  ASSUME ContentKept
  PROVE  ContentInv /\ [Next]_vars => ContentInv'
<1> SUFFICES ASSUME ContentInv, [Next]_vars PROVE HandledContentStored'
  BY TruthInductive DEF ContentInv
<1>1. CASE UNCHANGED vars
  BY <1>1 DEF vars, ContentInv, HandledContentStored, Kept
<1> QED
  BY <1>1, ArriveContent, StepContent DEF Next

(* Content is never missing: without web deletions, every key that a row   *)
(* or a download names is in the store, on any interleaving of the two     *)
(* surfaces, with failures, with or without cluster locks.                 *)
THEOREM ContentNeverMissing ==
  ASSUME ContentKept PROVE Spec => []ReferencedContentPresent
  BY InitContent, NextContent, ContentImplies, PTL DEF Spec
=============================================================================
