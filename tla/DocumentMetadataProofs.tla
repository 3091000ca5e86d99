----------------------- MODULE DocumentMetadataProofs -----------------------
(* Theorems about DocumentMetadata, for any requests, keys and contents.   *)
(* The merge of the upload is the one transaction over several rows that   *)
(* does not hold the lock of the document.                                 *)
EXTENDS DocumentMetadata, TLAPS

Writing == {"deleting", "upserting"}
Active == {"apply", "scan", "deleting", "upserting", "single"}

Replaces(r) == local[r].op = "replace"
Uploads(r) == local[r].op = "upload"

(* What a request that is past Begin has in hand. *)
HandlerOK ==
    \A r \in Requests :
        /\ Uploads(r) => /\ pc[r] \in {"upserting", "replied", "failed"}
                         /\ \A q \in Requests : Uploads(q) => q = r
        /\ pc[r] = "apply" => local[r].op \in {"update", "restore"}
        /\ pc[r] = "apply" => local[r].content \in Contents
        /\ pc[r] \in {"scan", "deleting"} => Replaces(r)
        /\ pc[r] = "lock" => TakesLock(local[r].via, local[r].op)
        /\ pc[r] = "lock" /\ ~Replaces(r) => local[r].content \in Contents
        /\ pc[r] \in Active \cup {"lock"} /\ Replaces(r) =>
              local[r].keys \subseteq Keys \ SysKeys
        /\ pc[r] = "upserting" => local[r].op \in {"update", "replace", "upload"}
        /\ pc[r] = "upserting" /\ ~Replaces(r) => local[r].content \in Contents
        /\ pc[r] = "single" => local[r].keys \in {{k} : k \in Keys}
        /\ pc[r] = "single" => local[r].op \in {"set", "delete"}

(* Transactions but the upload's hold the lock; only they have written. *)
WritersLock ==
    \A r \in Requests :
        /\ pc[r] \in {"scan"} \cup Writing /\ ~Uploads(r) => lock = r
        /\ pc[r] = "apply" /\ TakesLock(local[r].via, local[r].op) => lock = r
        /\ lock = r => pc[r] \notin {"idle", "lock"} /\ ~Uploads(r)
        /\ pc[r] \notin Writing =>
              pending[r] = NoRows /\ todo[r] = {} /\ at[r] = NoKey
        /\ at[r] # NoKey => at[r] \in todo[r]

(* A replace deletes the rows of the replaces before it and then writes    *)
(* rows of its own.                                                        *)
ReplaceProgress ==
    \A r \in Requests :
        (pc[r] \in Writing /\ Replaces(r)) =>
            /\ todo[r] \subseteq Keys \ SysKeys
            /\ DOMAIN pending[r] \subseteq Keys \ SysKeys
            /\ \A k \in DOMAIN pending[r] : pending[r][k] \in {Absent, r}
            /\ \A k \in Keys :
                  props[k] \in Requests =>
                      \/ k \in DOMAIN pending[r]
                      \/ pc[r] = "deleting" /\ k \in todo[r]

(* The rows that replaces write are not reserved ones. *)
NotReserved == \A k \in Keys : props[k] \in Requests => k \notin SysKeys

(* A merge writes what it found in the content that its request stored.    *)
(* Nobody has described the content since an update stored it, and the     *)
(* upload is no longer the one that stored the current content.            *)
MergeProgress ==
    \A r \in Requests :
        (pc[r] = "upserting" /\ ~Replaces(r)) =>
            /\ author = r => content = local[r].content /\ ~described
            /\ ~Uploads(r) => ~described /\ \A q \in Requests : Uploads(q) => author # q
            /\ Extracted[local[r].content] = todo[r] \cup DOMAIN pending[r]
            /\ \A k \in DOMAIN pending[r] : pending[r][k] = local[r].content

PropInv ==
    /\ TypeOK
    /\ HandlerOK
    /\ WritersLock
    /\ ReplaceProgress
    /\ NotReserved
    /\ ReplacesNeverMix
    /\ MergeProgress
    /\ ExtractionCurrent


-----------------------------------------------------------------------------
(* What a transaction has written after one more row. *)
LEMMA WrittenRow ==
  ASSUME TypeOK, NEW r \in Requests, NEW k \in Keys, NEW v \in Values \cup {Absent}
  PROVE  /\ Written(r, k, v) \in
              [Requests -> UNION {[S -> Values \cup {Absent}] : S \in SUBSET Keys}]
         /\ DOMAIN Written(r, k, v)[r] = DOMAIN pending[r] \cup {k}
         /\ Written(r, k, v)[r][k] = v
         /\ \A j \in DOMAIN pending[r] :
               j # k => Written(r, k, v)[r][j] = pending[r][j]
         /\ \A q \in Requests \ {r} : Written(r, k, v)[q] = pending[q]
<1> DEFINE W == [j \in DOMAIN pending[r] \cup {k} |->
                    IF j = k THEN v ELSE pending[r][j]]
<1>1. PICK S \in SUBSET Keys : pending[r] \in [S -> Values \cup {Absent}]
  BY DEF TypeOK
<1>2. W \in [S \cup {k} -> Values \cup {Absent}] /\ S \cup {k} \in SUBSET Keys
  BY <1>1
<1>3. W \in UNION {[R -> Values \cup {Absent}] : R \in SUBSET Keys}
  BY <1>2
<1>4. Written(r, k, v) = [pending EXCEPT ![r] = W]
  BY DEF Written
<1> HIDE DEF W
<1>5. Written(r, k, v)[r] = W /\ \A q \in Requests \ {r} : Written(r, k, v)[q] = pending[q]
  BY <1>4 DEF TypeOK
<1>6. Written(r, k, v) \in
         [Requests -> UNION {[R -> Values \cup {Absent}] : R \in SUBSET Keys}]
  BY <1>3, <1>4 DEF TypeOK
<1>7. /\ DOMAIN W = DOMAIN pending[r] \cup {k}
      /\ W[k] = v
      /\ \A j \in DOMAIN pending[r] : j # k => W[j] = pending[r][j]
  BY DEF W
<1> QED
  BY <1>5, <1>6, <1>7

LEMMA NoRowsTyped ==
  NoRows \in UNION {[S -> Values \cup {Absent}] : S \in SUBSET Keys}
<1>1. NoRows \in [{} -> Values \cup {Absent}] /\ {} \in SUBSET Keys
  BY DEF NoRows
<1> QED
  BY <1>1

LEMMA PropInit == Init => PropInv
<1> SUFFICES ASSUME Init PROVE PropInv
  OBVIOUS
<1> USE ValuesAssumption, ExtractedAssumption
<1>1. TypeOK
  <2>1. pending \in [Requests -> UNION {[S -> Values \cup {Absent}] : S \in SUBSET Keys}]
    BY NoRowsTyped DEF Init
  <2>2. NoLocal \in Locals
    BY DEF NoLocal, Locals
  <2>3. [via |-> "api", op |-> "upload", content |-> content, keys |-> {}] \in Locals
    BY DEF Init, Locals
  <2>4. local \in [Requests -> Locals]
    BY <2>2, <2>3 DEF Init
  <2>5. content \in Contents /\ props \in [Keys -> Values \cup {Absent}]
    BY DEF Init, Values
  <2>6. todo \in [Requests -> SUBSET Keys]
    BY <2>5 DEF Init
  <2>7. /\ lock \in Requests \cup {Nobody}
        /\ pc \in [Requests -> PCs]
        /\ at \in [Requests -> Keys \cup {NoKey}]
        /\ author \in Requests \cup {Nobody}
        /\ described \in BOOLEAN
    BY DEF Init, PCs
  <2> QED
    BY <2>1, <2>4, <2>5, <2>6, <2>7 DEF TypeOK
<1>2. \A r \in Requests :
        /\ pc[r] \in {"idle", "replied", "upserting"}
        /\ pc[r] # "upserting" => todo[r] = {}
        /\ pc[r] = "upserting" => r = author
        /\ Uploads(r) <=> r = author
        /\ r = author => local[r].content = content /\ pc[r] # "idle"
        /\ r = author => todo[r] = Extracted[content]
        /\ ~Replaces(r)
        /\ pending[r] = NoRows /\ at[r] = NoKey /\ lock # r
  BY DEF Init, Uploads, Replaces, NoLocal
<1>3. content \in Contents /\ author \in Requests /\ ~described
  BY DEF Init
<1>4. HandlerOK
  BY <1>2, <1>3 DEF HandlerOK, Active, Uploads, Replaces
<1>5. WritersLock /\ ReplaceProgress
  BY <1>2, <1>3 DEF WritersLock, ReplaceProgress, Writing
<1>6. MergeProgress
  BY <1>2, <1>3 DEF MergeProgress, NoRows
<1>7. NotReserved /\ ReplacesNeverMix /\ ExtractionCurrent
  BY <1>3 DEF Init, NotReserved, ReplacesNeverMix, ExtractionCurrent, Values
<1> QED
  BY <1>1, <1>4, <1>5, <1>6, <1>7 DEF PropInv

-----------------------------------------------------------------------------
(* A request that begins has nothing written, and no lock. *)
LEMMA BeginStep ==
  ASSUME PropInv, NEW r \in Requests, NEW via \in {"api", "web"},
         NEW op \in {"update", "restore", "replace", "set", "delete"},
         NEW c \in Contents \cup {Nobody}, NEW keys \in SUBSET Keys,
         op \in {"update", "restore"} => c \in Contents,
         op = "replace" => via = "api" /\ keys \subseteq Keys \ SysKeys,
         op \in {"set", "delete"} => keys \in {{k} : k \in Keys},
         Begin(r, via, op, c, keys)
  PROVE  PropInv'
<1> DEFINE new == [via |-> via, op |-> op, content |-> c, keys |-> keys]
           label == IF TakesLock(via, op) THEN "lock" ELSE FirstStep(op)
<1>1. /\ pc[r] = "idle" /\ <<via, op>> \in Handlers
      /\ local' = [local EXCEPT ![r] = new] /\ pc' = [pc EXCEPT ![r] = label]
      /\ UNCHANGED <<content, props, author, described, lock, todo, at, pending>>
  BY DEF Begin, Goto, table, txs
<1>2. /\ new \in Locals /\ new.via = via /\ new.op = op
      /\ new.content = c /\ new.keys = keys
  BY DEF Locals
<1>3. /\ label \in {"lock", "apply", "single"}
      /\ label = "lock" => TakesLock(via, op)
      /\ label = "apply" => op \in {"update", "restore"} /\ ~TakesLock(via, op)
      /\ label = "single" => op \in {"set", "delete"}
  BY DEF TakesLock, FirstStep
<1>4. <<via, op>> \in AllHandlers
  BY <1>1, HandlersAssumption
<1> HIDE DEF new, label
<1>5. TypeOK'
  BY <1>1, <1>2, <1>3 DEF PropInv, TypeOK, PCs
<1>6. HandlerOK'
  BY <1>1, <1>2, <1>3, <1>4
  DEF PropInv, TypeOK, HandlerOK, Replaces, Uploads, Active, TakesLock
<1>7. WritersLock'
  BY <1>1, <1>2, <1>3 DEF PropInv, TypeOK, WritersLock, Writing, Uploads
<1>8. ReplaceProgress' /\ MergeProgress'
  BY <1>1, <1>2, <1>3
  DEF PropInv, TypeOK, ReplaceProgress, MergeProgress, Writing, Replaces, Uploads
<1>9. NotReserved' /\ ReplacesNeverMix' /\ ExtractionCurrent'
  BY <1>1 DEF PropInv, NotReserved, ReplacesNeverMix, ExtractionCurrent
<1> QED
  BY <1>5, <1>6, <1>7, <1>8, <1>9 DEF PropInv

LEMMA ArriveStep ==
  ASSUME PropInv, NEW r \in Requests, Arrive(r)
  PROVE  PropInv'
<1>1. CASE \E via \in {"api", "web"} : BeginUpdate(r, via)
  BY <1>1, BeginStep DEF BeginUpdate
<1>2. CASE \E via \in {"api", "web"} : BeginSingle(r, via)
  <2>1. PICK via \in {"api", "web"}, k \in Keys, op \in {"set", "delete"} :
           Begin(r, via, op, Nobody, {k})
    BY <1>2 DEF BeginSingle
  <2>2. {k} \in SUBSET Keys /\ {k} \in {{j} : j \in Keys}
    OBVIOUS
  <2> QED
    BY <2>1, <2>2, BeginStep
<1>3. CASE BeginReplace(r)
  <2>1. PICK keys \in SUBSET (Keys \ SysKeys) :
           Begin(r, "api", "replace", Nobody, keys)
    BY <1>3 DEF BeginReplace
  <2> QED
    BY <2>1, BeginStep
<1> QED
  BY <1>1, <1>2, <1>3 DEF Arrive

LEMMA LockStep ==
  ASSUME PropInv, NEW r \in Requests, Lock(r)
  PROVE  PropInv'
<1> DEFINE label == FirstStep(local[r].op)
<1>1. /\ pc[r] = "lock" /\ lock = Nobody /\ lock' = r
      /\ pc' = [pc EXCEPT ![r] = label]
      /\ UNCHANGED <<content, props, author, described, local, todo, at, pending>>
  BY DEF Lock, Goto, table, txs
<1>2. /\ local[r].op \in {"update", "restore", "replace"}
      /\ label \in {"apply", "scan"}
      /\ label = "scan" <=> local[r].op = "replace"
  BY <1>1 DEF PropInv, HandlerOK, TakesLock, FirstStep
<1> HIDE DEF label
<1>3. TypeOK'
  BY <1>1, <1>2 DEF PropInv, TypeOK, PCs
<1>4. HandlerOK'
  BY <1>1, <1>2 DEF PropInv, TypeOK, HandlerOK, Replaces, Uploads, Active
<1>5. WritersLock'
  BY <1>1, <1>2, ValuesAssumption DEF PropInv, TypeOK, WritersLock, Writing, Uploads
<1>6. ReplaceProgress' /\ MergeProgress'
  BY <1>1, <1>2
  DEF PropInv, TypeOK, ReplaceProgress, MergeProgress, Writing, Replaces, Uploads
<1>7. NotReserved' /\ ReplacesNeverMix' /\ ExtractionCurrent'
  BY <1>1 DEF PropInv, NotReserved, ReplacesNeverMix, ExtractionCurrent
<1> QED
  BY <1>3, <1>4, <1>5, <1>6, <1>7 DEF PropInv

-----------------------------------------------------------------------------
(* The UPDATE of a document makes what was extracted stale. *)
LEMMA ApplyStep ==
  ASSUME PropInv, NEW r \in Requests, Apply(r)
  PROVE  PropInv'
<1> DEFINE c == local[r].content
           found == IF local[r].via = "api" /\ local[r].op = "update"
                    THEN Extracted[c] ELSE {}
<1>1. /\ pc[r] = "apply"
      /\ content' = c /\ author' = r /\ described' = FALSE
      /\ todo' = [todo EXCEPT ![r] = found]
      /\ pc' = [pc EXCEPT ![r] = IF found = {} THEN "replied" ELSE "upserting"]
      /\ UNCHANGED <<props, lock, local, at, pending>>
  BY DEF Apply, Goto
<1>2. /\ c \in Contents
      /\ local[r].op \in {"update", "restore"}
      /\ pending[r] = NoRows /\ at[r] = NoKey
      /\ lock # r => ~TakesLock(local[r].via, local[r].op)
  BY <1>1 DEF PropInv, HandlerOK, WritersLock, Writing
<1>3. /\ found \subseteq Keys
      /\ found # {} => /\ found = Extracted[c] /\ local[r].op = "update"
                       /\ lock = r
  BY <1>2, ExtractedAssumption DEF TakesLock
<1> HIDE DEF found
<1>4. TypeOK'
  BY <1>1, <1>2, <1>3 DEF PropInv, TypeOK, PCs
<1>5. HandlerOK'
  BY <1>1, <1>2, <1>3 DEF PropInv, TypeOK, HandlerOK, Replaces, Uploads, Active
<1>6. WritersLock'
  BY <1>1, <1>2, <1>3, ValuesAssumption DEF PropInv, TypeOK, WritersLock, Writing, Uploads
<1>7. ReplaceProgress'
  BY <1>1, <1>2, <1>3 DEF PropInv, TypeOK, ReplaceProgress, Writing, Replaces, Uploads
<1>8. MergeProgress'
  BY <1>1, <1>2, <1>3
  DEF PropInv, TypeOK, MergeProgress, WritersLock, Writing, Replaces, Uploads, NoRows
<1>9. NotReserved' /\ ReplacesNeverMix' /\ ExtractionCurrent'
  BY <1>1 DEF PropInv, NotReserved, ReplacesNeverMix, ExtractionCurrent
<1> QED
  BY <1>4, <1>5, <1>6, <1>7, <1>8, <1>9 DEF PropInv

(* Steps of a transaction that write no row. *)
LEMMA QuietSteps ==
  ASSUME PropInv, NEW r \in Requests, Scan(r) \/ Pick(r) \/ DeleteEnds(r)
  PROVE  PropInv'
<1>1. UNCHANGED <<content, props, author, described, lock, local, pending>>
  BY DEF Scan, Pick, DeleteEnds, table
<1>2. NotReserved' /\ ReplacesNeverMix' /\ ExtractionCurrent'
  BY <1>1 DEF PropInv, NotReserved, ReplacesNeverMix, ExtractionCurrent
<1>3. CASE Scan(r)
  <2>1. /\ pc[r] = "scan"
        /\ todo' = [todo EXCEPT ![r] = {k \in Keys \ SysKeys : props[k] # Absent}]
        /\ pc' = [pc EXCEPT ![r] = "deleting"] /\ at' = at
        /\ pending[r] = NoRows /\ at[r] = NoKey /\ Replaces(r)
    BY <1>3 DEF Scan, Goto, PropInv, WritersLock, Writing, HandlerOK
  <2>2. TypeOK' /\ HandlerOK' /\ WritersLock'
    BY <1>1, <2>1
    DEF PropInv, TypeOK, PCs, HandlerOK, Replaces, Uploads, Active, WritersLock, Writing
  <2>3. ReplaceProgress' /\ MergeProgress'
    BY <1>1, <2>1, ValuesAssumption
    DEF PropInv, TypeOK, ReplaceProgress, MergeProgress, NotReserved, Values,
        Writing, Replaces, Uploads, NoRows
  <2> QED
    BY <1>2, <2>2, <2>3 DEF PropInv
<1>4. CASE Pick(r)
  <2>1. /\ pc[r] \in Writing /\ pc' = pc /\ todo' = todo
        /\ \E k \in todo[r] : at' = [at EXCEPT ![r] = k]
    BY <1>4 DEF Pick, Writing
  <2>2. TypeOK' /\ HandlerOK' /\ WritersLock'
    BY <1>1, <2>1
    DEF PropInv, TypeOK, HandlerOK, Replaces, Uploads, Active, WritersLock, Writing
  <2>3. ReplaceProgress' /\ MergeProgress'
    BY <1>1, <2>1 DEF PropInv, ReplaceProgress, MergeProgress, Replaces, Uploads
  <2> QED
    BY <1>2, <2>2, <2>3 DEF PropInv
<1>5. CASE DeleteEnds(r)
  <2>1. /\ pc[r] = "deleting" /\ todo[r] = {}
        /\ todo' = [todo EXCEPT ![r] = local[r].keys]
        /\ pc' = [pc EXCEPT ![r] = "upserting"] /\ at' = at
        /\ Replaces(r) /\ local[r].keys \subseteq Keys \ SysKeys /\ at[r] = NoKey
    BY <1>5, ValuesAssumption
    DEF DeleteEnds, Goto, PropInv, TypeOK, WritersLock, HandlerOK, Active
  <2>2. TypeOK' /\ HandlerOK' /\ WritersLock'
    BY <1>1, <2>1
    DEF PropInv, TypeOK, PCs, HandlerOK, Replaces, Uploads, Active, WritersLock, Writing
  <2>3. ReplaceProgress' /\ MergeProgress'
    BY <1>1, <2>1
    DEF PropInv, TypeOK, ReplaceProgress, MergeProgress, Writing, Replaces, Uploads
  <2> QED
    BY <1>2, <2>2, <2>3 DEF PropInv
<1> QED
  BY <1>3, <1>4, <1>5

-----------------------------------------------------------------------------
(* A statement writes the row that it has come to. *)
LEMMA WriteStep ==
  ASSUME PropInv, NEW r \in Requests, NEW v \in Values \cup {Absent},
         pc[r] \in Writing, at[r] # NoKey, pc' = pc,
         pc[r] = "deleting" => v = Absent,
         pc[r] = "upserting" => v = Value(r),
         pending' = Written(r, at[r], v),
         todo' = [todo EXCEPT ![r] = @ \ {at[r]}],
         at' = [at EXCEPT ![r] = NoKey],
         UNCHANGED <<content, props, author, described, lock, local>>
  PROVE  PropInv'
<1> DEFINE k == at[r]
<1>1. k \in todo[r] /\ k \in Keys
  BY DEF PropInv, TypeOK, WritersLock
<1>2. /\ pending' \in [Requests -> UNION {[S -> Values \cup {Absent}] : S \in SUBSET Keys}]
      /\ DOMAIN pending'[r] = DOMAIN pending[r] \cup {k}
      /\ pending'[r][k] = v
      /\ \A j \in DOMAIN pending[r] : j # k => pending'[r][j] = pending[r][j]
      /\ \A q \in Requests \ {r} : pending'[q] = pending[q]
  BY <1>1, WrittenRow DEF PropInv
<1> HIDE DEF k
<1>3. at' = [at EXCEPT ![r] = NoKey] /\ todo' = [todo EXCEPT ![r] = todo[r] \ {k}]
  BY DEF k
<1>4. TypeOK'
  <2>1. at' \in [Requests -> Keys \cup {NoKey}] /\ todo' \in [Requests -> SUBSET Keys]
    BY <1>3 DEF PropInv, TypeOK
  <2> QED
    BY <1>2, <2>1 DEF PropInv, TypeOK
<1>5. \A q \in Requests :
        /\ q # r => todo'[q] = todo[q] /\ pending'[q] = pending[q]
        /\ q = r => todo'[q] = todo[r] \ {k}
  BY <1>2, <1>3 DEF PropInv, TypeOK
<1>6. HandlerOK'
  BY DEF PropInv, HandlerOK, Replaces, Uploads
<1>7. WritersLock'
  BY <1>2, <1>3 DEF PropInv, TypeOK, WritersLock, Writing, Uploads
<1>8. ReplaceProgress'
  <2>1. Replaces(r) /\ pc[r] = "upserting" => v = r
    BY DEF Value, Merges, Replaces
  <2>2. Replaces(r) => v \in {Absent, r}
    BY <2>1 DEF Writing
  <2> QED
    BY <1>1, <1>2, <1>5, <2>2 DEF PropInv, ReplaceProgress, Replaces, Uploads
<1>9. MergeProgress'
  <2>1. pc[r] = "upserting" /\ ~Replaces(r) => v = local[r].content
    BY DEF Value, Merges, Replaces
  <2> QED
    BY <1>1, <1>2, <1>5, <2>1 DEF PropInv, MergeProgress, Replaces, Uploads, Writing
<1>10. NotReserved' /\ ReplacesNeverMix' /\ ExtractionCurrent'
  BY DEF PropInv, NotReserved, ReplacesNeverMix, ExtractionCurrent
<1> QED
  BY <1>4, <1>6, <1>7, <1>8, <1>9, <1>10 DEF PropInv

LEMMA DeleteRowStep ==
  ASSUME PropInv, NEW r \in Requests, DeleteRow(r)
  PROVE  PropInv'
<1>1. /\ pc[r] = "deleting" /\ at[r] # NoKey /\ pc' = pc
      /\ todo' = [todo EXCEPT ![r] = @ \ {at[r]}]
      /\ at' = [at EXCEPT ![r] = NoKey]
      /\ UNCHANGED <<content, props, author, described, lock, local>>
  BY DEF DeleteRow, table
<1>2. CASE props[at[r]] # Absent
  BY <1>1, <1>2, WriteStep DEF DeleteRow, Writing
<1>3. CASE props[at[r]] = Absent
  <2>1. pending' = pending
    BY <1>3 DEF DeleteRow
  <2>2. TypeOK' /\ HandlerOK' /\ WritersLock'
    BY <1>1, <2>1 DEF PropInv, TypeOK, HandlerOK, Replaces, Uploads, WritersLock, Writing
  <2>3. ReplaceProgress' /\ MergeProgress'
    BY <1>1, <1>3, <2>1, ValuesAssumption
    DEF PropInv, TypeOK, ReplaceProgress, MergeProgress, Replaces, Uploads, Values
  <2>4. NotReserved' /\ ReplacesNeverMix' /\ ExtractionCurrent'
    BY <1>1 DEF PropInv, NotReserved, ReplacesNeverMix, ExtractionCurrent
  <2> QED
    BY <2>2, <2>3, <2>4 DEF PropInv
<1> QED
  BY <1>2, <1>3

LEMMA UpsertStep ==
  ASSUME PropInv, NEW r \in Requests, Upsert(r)
  PROVE  PropInv'
<1>1. Value(r) \in Values
  BY DEF Upsert, Value, Merges, Values, PropInv, HandlerOK, Replaces
<1> QED
  BY <1>1, WriteStep DEF Upsert, Writing, table

(* A transaction commits: a replace has deleted all that others had        *)
(* replaced, a merge covers all that was extracted from another content.   *)
LEMMA CommitStep ==
  ASSUME PropInv, NEW r \in Requests, Commit(r)
  PROVE  PropInv'
<1>1. /\ pc[r] = "upserting" /\ todo[r] = {}
      /\ props' = [k \in Keys |-> IF k \in DOMAIN pending[r] THEN pending[r][k]
                                  ELSE props[k]]
      /\ pending' = [pending EXCEPT ![r] = NoRows]
      /\ described' = IF ~Replaces(r) /\ author = r THEN TRUE
                      ELSE described /\ ~Uploads(r)
      /\ pc' = [pc EXCEPT ![r] = "replied"]
      /\ UNCHANGED <<content, author, lock, local, todo, at>>
  BY DEF Commit, Goto, Merges, Replaces, Uploads
<1>2. /\ at[r] = NoKey
      /\ ~Uploads(r) => \A q \in Requests \ {r} : pc[q] \in Writing => Uploads(q)
  BY <1>1, ValuesAssumption DEF PropInv, TypeOK, WritersLock, Writing
<1>3. PICK S \in SUBSET Keys : pending[r] \in [S -> Values \cup {Absent}]
  BY DEF PropInv, TypeOK
<1>4. props' \in [Keys -> Values \cup {Absent}]
  BY <1>1, <1>3 DEF PropInv, TypeOK
<1>5. TypeOK'
  BY <1>1, <1>4, NoRowsTyped DEF PropInv, TypeOK, PCs
<1>6. HandlerOK'
  BY <1>1 DEF PropInv, TypeOK, HandlerOK, Replaces, Uploads, Active
<1>7. WritersLock'
  BY <1>1, <1>2 DEF PropInv, TypeOK, WritersLock, Writing, Uploads
<1>8. ReplaceProgress' /\ MergeProgress'
  <2>1. \A q \in Requests : pc'[q] \in Writing =>
           /\ q # r /\ pc'[q] = pc[q] /\ pending'[q] = pending[q] /\ todo'[q] = todo[q]
           /\ Uploads(q) \/ Uploads(r)
    BY <1>1, <1>2 DEF PropInv, TypeOK, Writing
  <2>2. \A q \in Requests : Uploads(q) => ~Replaces(q)
    BY DEF Uploads, Replaces
  <2>3. ~Replaces(r) => \A k \in DOMAIN pending[r] : pending[r][k] \in Contents
    BY <1>1 DEF PropInv, HandlerOK, MergeProgress
  <2>4. Uploads(r) => \A k \in Keys : props'[k] \in Requests => props'[k] = props[k]
    BY <1>1, <2>2, <2>3, ValuesAssumption
  <2>5. ReplaceProgress'
    BY <1>1, <2>1, <2>2, <2>4 DEF PropInv, ReplaceProgress, Replaces, Uploads, Writing
  <2>6. \A q \in Requests :
          (pc'[q] = "upserting" /\ ~Replaces(q)) =>
             /\ author = q => ~described'
             /\ ~Uploads(q) => ~described'
    <3> SUFFICES ASSUME NEW q \in Requests, pc'[q] = "upserting", ~Replaces(q)
                 PROVE  (author = q => ~described') /\ (~Uploads(q) => ~described')
      OBVIOUS
    <3>1. q # r /\ pc[q] = "upserting" /\ (Uploads(q) \/ Uploads(r))
      BY <2>1 DEF Writing
    <3>2. /\ author = q => ~described
          /\ ~Uploads(q) => ~described /\ \A u \in Requests : Uploads(u) => author # u
      BY <3>1 DEF PropInv, MergeProgress
    <3> QED
      BY <1>1, <3>1, <3>2
  <2>7. MergeProgress'
    BY <1>1, <2>1, <2>6 DEF PropInv, MergeProgress, Replaces, Uploads, Writing
  <2> QED
    BY <2>5, <2>7
<1>9. NotReserved' /\ ReplacesNeverMix' /\ ExtractionCurrent'
  <2>1. CASE Replaces(r)
    <3>1. /\ DOMAIN pending[r] \subseteq Keys \ SysKeys
          /\ \A k \in DOMAIN pending[r] : pending[r][k] \in {Absent, r}
          /\ \A k \in Keys : props[k] \in Requests => k \in DOMAIN pending[r]
      BY <1>1, <2>1 DEF PropInv, ReplaceProgress, Writing
    <3>2. \A k \in Keys : props'[k] \in Requests => props'[k] = r /\ k \notin SysKeys
      BY <1>1, <3>1, ValuesAssumption DEF Values
    <3>3. (described' => described) /\ content' = content
      BY <1>1, <2>1
    <3>4. \A k \in Keys : props'[k] \in Contents => props'[k] = props[k]
      BY <1>1, <3>1, ValuesAssumption DEF Values
    <3>5. ExtractionCurrent'
      BY <3>3, <3>4, ExtractedAssumption DEF PropInv, TypeOK, ExtractionCurrent
    <3> QED
      BY <3>2, <3>5 DEF NotReserved, ReplacesNeverMix
  <2>2. CASE ~Replaces(r)
    <3>1. /\ local[r].content \in Contents
          /\ author # r => ~described'
          /\ author = r => content = local[r].content
          /\ Extracted[local[r].content] = DOMAIN pending[r]
          /\ \A k \in DOMAIN pending[r] : pending[r][k] = local[r].content
      BY <1>1, <2>2 DEF PropInv, TypeOK, HandlerOK, MergeProgress
    <3>2. \A k \in Keys : props'[k] \in Requests => props'[k] = props[k]
      BY <1>1, <3>1, ValuesAssumption
    <3>3. NotReserved' /\ ReplacesNeverMix'
      BY <3>2 DEF PropInv, NotReserved, ReplacesNeverMix
    <3>4. described' => \A k \in Extracted[content] : props'[k] = content
      BY <1>1, <3>1, ExtractedAssumption
    <3> QED
      BY <1>1, <3>3, <3>4 DEF ExtractionCurrent
  <2> QED
    BY <2>1, <2>2
<1> QED
  BY <1>5, <1>6, <1>7, <1>8, <1>9 DEF PropInv

(* A user's row is neither a replaced nor an extracted one. *)
LEMMA SingleStep ==
  ASSUME PropInv, NEW r \in Requests, Single(r)
  PROVE  PropInv'
<1>1. /\ pc[r] = "single" /\ pc' = [pc EXCEPT ![r] = "replied"]
      /\ UNCHANGED <<content, author, described, lock, local, todo, at, pending>>
  BY DEF Single, Goto, txs
<1>2. PICK k \in Keys : props' = [props EXCEPT ![k] =
                            IF local[r].op = "set" THEN User ELSE Absent]
  <2>1. PICK k \in Keys : local[r].keys = {k}
    BY <1>1 DEF PropInv, HandlerOK
  <2> QED
    BY <2>1 DEF Single
<1>3. \A j \in Keys : props'[j] \in Contents \cup Requests => props'[j] = props[j]
  BY <1>2, ValuesAssumption DEF PropInv, TypeOK, Values
<1>4. TypeOK'
  BY <1>1, <1>2 DEF PropInv, TypeOK, PCs, Values
<1>5. HandlerOK' /\ WritersLock'
  BY <1>1 DEF PropInv, TypeOK, HandlerOK, Replaces, Uploads, Active, WritersLock, Writing
<1>6. ReplaceProgress' /\ MergeProgress'
  BY <1>1, <1>3
  DEF PropInv, TypeOK, ReplaceProgress, MergeProgress, Replaces, Uploads, Writing
<1>7. NotReserved' /\ ReplacesNeverMix'
  BY <1>3 DEF PropInv, NotReserved, ReplacesNeverMix
<1>8. ExtractionCurrent'
  BY <1>1, <1>3, ExtractedAssumption DEF PropInv, TypeOK, ExtractionCurrent
<1> QED
  BY <1>4, <1>5, <1>6, <1>7, <1>8 DEF PropInv

(* A failure rolls the transaction back; the lock goes with the reply. *)
LEMMA EndStep ==
  ASSUME PropInv, NEW r \in Requests, Fail(r) \/ Return(r)
  PROVE  PropInv'
<1>1. UNCHANGED <<content, props, author, described>>
  BY DEF Fail, Return, table
<1>2. NotReserved' /\ ReplacesNeverMix' /\ ExtractionCurrent'
  BY <1>1 DEF PropInv, NotReserved, ReplacesNeverMix, ExtractionCurrent
<1>3. CASE Fail(r)
  <2>1. /\ pc[r] \notin {"idle", "replied", "failed"}
        /\ pc' = [pc EXCEPT ![r] = "failed"]
        /\ todo' = [todo EXCEPT ![r] = {}] /\ at' = [at EXCEPT ![r] = NoKey]
        /\ pending' = [pending EXCEPT ![r] = NoRows]
        /\ UNCHANGED <<lock, local>>
    BY <1>3 DEF Fail, Goto
  <2>2. TypeOK'
    BY <1>1, <2>1, NoRowsTyped DEF PropInv, TypeOK, PCs
  <2>3. HandlerOK' /\ WritersLock'
    BY <1>1, <2>1 DEF PropInv, TypeOK, HandlerOK, Replaces, Uploads, Active, WritersLock, Writing
  <2>4. ReplaceProgress' /\ MergeProgress'
    BY <1>1, <2>1
    DEF PropInv, TypeOK, ReplaceProgress, MergeProgress, Replaces, Uploads, Writing
  <2> QED
    BY <1>2, <2>2, <2>3, <2>4 DEF PropInv
<1>4. CASE Return(r)
  <2>1. /\ pc[r] \in {"replied", "failed"}
        /\ lock' = IF lock = r THEN Nobody ELSE lock
        /\ local' = [local EXCEPT ![r] = NoLocal]
        /\ pc' = [pc EXCEPT ![r] = "idle"]
        /\ UNCHANGED <<todo, at, pending>>
    BY <1>4 DEF Return, Goto, txs
  <2>2. NoLocal \in Locals
    BY DEF NoLocal, Locals
  <2>3. TypeOK'
    BY <1>1, <2>1, <2>2 DEF PropInv, TypeOK, PCs
  <2>4. \A q \in Requests :
          /\ pc'[q] # "idle" => local'[q] = local[q] /\ pc'[q] = pc[q]
          /\ pc'[q] = "idle" => ~Uploads(q)'
          /\ Uploads(q)' => Uploads(q) /\ pc'[q] = pc[q]
    BY <2>1 DEF PropInv, TypeOK, HandlerOK, Uploads, Replaces, NoLocal
  <2>5. HandlerOK'
    BY <2>4 DEF PropInv, HandlerOK, Replaces, Uploads, Active
  <2>6. WritersLock'
    BY <1>1, <2>1, <2>4, ValuesAssumption DEF PropInv, TypeOK, WritersLock, Uploads, Writing
  <2>7. ReplaceProgress' /\ MergeProgress'
    BY <1>1, <2>1, <2>4
    DEF PropInv, ReplaceProgress, MergeProgress, Replaces, Uploads, Writing
  <2> QED
    BY <1>2, <2>3, <2>5, <2>6, <2>7 DEF PropInv
<1> QED
  BY <1>3, <1>4

-----------------------------------------------------------------------------
LEMMA PropStep == PropInv /\ [Next]_vars => PropInv'
<1> SUFFICES ASSUME PropInv, [Next]_vars PROVE PropInv'
  OBVIOUS
<1>1. CASE Next
  <2>1. PICK r \in Requests : Arrive(r) \/ Step(r) \/ Fail(r)
    BY <1>1 DEF Next
  <2>2. CASE Arrive(r)
    BY <2>2, ArriveStep
  <2>3. CASE Step(r)
    BY <2>3, LockStep, ApplyStep, QuietSteps, DeleteRowStep, UpsertStep,
       CommitStep, SingleStep, EndStep DEF Step
  <2>4. CASE Fail(r)
    BY <2>4, EndStep
  <2> QED
    BY <2>1, <2>2, <2>3, <2>4
<1>2. CASE UNCHANGED vars
  BY <1>2 DEF vars, PropInv, TypeOK, HandlerOK, Replaces, Uploads, WritersLock,
     ReplaceProgress, NotReserved, ReplacesNeverMix, MergeProgress, ExtractionCurrent
<1> QED
  BY <1>1, <1>2

(* Whoever holds the lock waits at most for the upload, and of the others   *)
(* only the holder is waited for: a set of requests without the upload has *)
(* its holder, or any member, as one that waits for none of them.          *)
LEMMA HolderGoesOn == PropInv => OnlyUploadsDeadlock
<1> SUFFICES ASSUME PropInv,
                    NEW S \in (SUBSET {r \in Requests : local[r].op # "upload"}) \ {{}}
             PROVE  \E r \in S : \A q \in S : ~WaitsFor(r, q)
  BY DEF OnlyUploadsDeadlock
<1>1. \A q \in S : q \in Requests /\ ~Uploads(q)
  BY DEF Uploads
<1>2. \A q \in S : DOMAIN pending[q] # {} => lock = q
  BY <1>1 DEF PropInv, WritersLock, Writing, NoRows
<1>3. \A r, q \in S : WaitsFor(r, q) => lock = q
  BY <1>2 DEF WaitsFor
<1>4. \A r, q \in S : ~(WaitsFor(r, q) /\ lock = r)
  <2> SUFFICES ASSUME NEW r \in S, NEW q \in S, WaitsFor(r, q), lock = r
               PROVE  FALSE
    OBVIOUS
  <2>1. q = r
    BY <1>3
  <2>2. pc[r] # "lock"
    BY <1>1 DEF PropInv, WritersLock
  <2>3. pc[r] = "single" => DOMAIN pending[r] = {}
    BY <1>1 DEF PropInv, WritersLock, Writing, NoRows
  <2> QED
    BY <2>1, <2>2, <2>3 DEF WaitsFor
<1>5. CASE lock \in S
  BY <1>4, <1>5
<1>6. CASE lock \notin S
  BY <1>3, <1>6
<1> QED
  BY <1>5, <1>6

-----------------------------------------------------------------------------
LEMMA PropInvariant == Spec => []PropInv
  BY PropInit, PropStep, PTL DEF Spec

(* Replacing all properties of a document is atomic (SetDocumentProperties *)
(* under the lock of the document).                                        *)
THEOREM ReplaceIsAtomic == Spec => []ReplacesNeverMix
<1>1. PropInv => ReplacesNeverMix
  BY DEF PropInv
<1> QED
  BY <1>1, PropInvariant, PTL

(* What an API update has extracted and merged belongs to the content.     *)
THEOREM ExtractionIsCurrent == Spec => []ExtractionCurrent
<1>1. PropInv => ExtractionCurrent
  BY DEF PropInv
<1> QED
  BY <1>1, PropInvariant, PTL

(* The lock of the document orders all transactions over several rows of   *)
(* it, so that PostgreSQL never meets a circle among them.                 *)
THEOREM NoCircularWait == Spec => []OnlyUploadsDeadlock
  BY HolderGoesOn, PropInvariant, PTL
=============================================================================
