---------------------------- MODULE CatalogProofs ----------------------------
(* Theorems about Catalog, for any requests, projects, buckets, documents   *)
(* and names.                                                               *)
EXTENDS Catalog, SequenceTheorems, TLAPS

Ops == {"get", "create", "update", "delete"}
Labels == {"idle", "load", "create", "update", "delete", "reread", "ok", "gone"}
Row == [status : {"none", "live", "deleted"}, name : Names \cup {NoName},
        parent : Ids \cup {Root}]
Request == [via : {"none", "api", "web"}, op : Ops \cup {"none"}, path : Seq(Ids),
            name : Names \cup {NoName}, todo : Seq(Ids), loaded : Ids \cup {Root}]

TypeInv ==
    /\ rows \in [Ids -> Row]
    /\ pc \in [Requests -> Labels]
    /\ local \in [Requests -> Request]
    /\ doomed \in [Requests -> BOOLEAN]
    /\ together \in [Requests -> BOOLEAN]
    /\ applied \in [Requests -> BOOLEAN]

(* Rows are where their table belongs. *)
RowsPlaced ==
    \A id \in Ids : Exists(id) =>
        /\ id \in Projects => rows[id].parent = Root
        /\ id \in Buckets => rows[id].parent \in Projects
        /\ id \in Documents => rows[id].parent \in Buckets

(* A request names rows that exist, and is at a step of what it asks for.   *)
Placed(r) ==
    LET q == local[r] IN
    /\ \A i \in DOMAIN q.path : Exists(q.path[i])
    /\ \A i \in DOMAIN q.todo : Exists(q.todo[i])
    /\ q.loaded # Root => Exists(q.loaded)
    /\ pc[r] # "idle" => q.via \in {"api", "web"}
    /\ pc[r] = "load" => q.todo # <<>> /\ q.op \in Ops
    /\ pc[r] \in {"create", "update", "delete"} => q.op = pc[r]
    /\ pc[r] = "reread" => q.loaded \in Ids

(* What an API request has still to load is the rest of its path.           *)
Rest(r) ==
    LET q == local[r]
        done == Len(q.path) - Len(q.todo) IN
    (q.via = "api" /\ pc[r] = "load") =>
        /\ done >= 0
        /\ \A i \in 1 .. Len(q.todo) : q.todo[i] = q.path[done + i]
        /\ q.loaded = (IF done = 0 THEN Root ELSE q.path[done])

(* A path that was broken when the request arrived is broken further down.  *)
Doomed(r) ==
    (local[r].via = "api" /\ doomed[r]) =>
        /\ pc[r] = "load"
        /\ \E i \in DOMAIN local[r].todo : ~Live(local[r].todo[i])

Detailed(q) == q.via = "web" /\ q.op = "get" /\ Len(q.path) = 3

(* The detail page loads the rows of a chain of parents. *)
Chain(r) ==
    LET q == local[r] IN
    Detailed(q) =>
        /\ \A i \in 2 .. Len(q.path) : rows[q.path[i]].parent = q.path[i - 1]
        /\ (pc[r] = "load" /\ q.loaded = Root) =>
              \A i \in DOMAIN q.path : \E j \in DOMAIN q.todo : q.todo[j] = q.path[i]

(* The row before the i-th of those to load, in the path of an API request. *)
Before(q, i) == IF i = 1 THEN q.loaded ELSE q.todo[i - 1]

(* A row that will stop the request. *)
Obstacle(q) ==
    \E i \in DOMAIN q.todo :
        \/ ~Live(q.todo[i])
        \/ q.via = "api" /\ rows[q.todo[i]].parent # Before(q, i)

(* Unless the path was in place at its first load, one of the rows that are *)
(* left to load stops the request.                                          *)
Together(r) ==
    LET q == local[r] IN
    (pc[r] # "idle" /\ q.path # <<>> /\ (q.via = "api" \/ Detailed(q))) =>
        \/ together[r]
        \/ pc[r] = "load" /\ (q.loaded = Root \/ Obstacle(q))

(* A request that is to reply to a rename has renamed, or lost the row.     *)
Acknowledged(r) ==
    (pc[r] \in {"reread", "ok"} /\ local[r].op = "update") =>
        applied[r] \/ (pc[r] = "reread" /\ ~Live(local[r].loaded))

RequestInv(r) ==
    Placed(r) /\ Rest(r) /\ Doomed(r) /\ Chain(r) /\ Together(r) /\ Acknowledged(r)

CatalogInv ==
    /\ TypeInv
    /\ RowsPlaced
    /\ NamesStayTaken
    /\ \A r \in Requests : RequestInv(r)

Ages ==
    \A id \in Ids :
        /\ Exists(id) => rows'[id].parent = rows[id].parent /\ rows'[id].status # "none"
        /\ rows[id].status = "deleted" => rows'[id] = rows[id]

Frame(q) ==
    /\ pc'[q] = pc[q]
    /\ local'[q] = local[q]
    /\ doomed'[q] = doomed[q]
    /\ together'[q] = together[q]
    /\ applied'[q] = applied[q]

LEMMA CatalogInit == Init => CatalogInv
<1> SUFFICES ASSUME Init PROVE CatalogInv
  OBVIOUS
<1>1. TypeInv
  BY DEF Init, TypeInv, Row, Request, NoRow, NoLocal, Labels
<1>2. RowsPlaced /\ NamesStayTaken
  BY DEF Init, RowsPlaced, NamesStayTaken, Exists, NoRow
<1>3. ASSUME NEW r \in Requests PROVE RequestInv(r)
  BY DEF Init, NoLocal, RequestInv, Placed, Rest, Doomed, Chain, Together,
         Acknowledged, Detailed
<1> QED
  BY <1>1, <1>2, <1>3 DEF CatalogInv

-----------------------------------------------------------------------------
(* Rows only age: what requests rely on stays true. *)
StillThere(id) ==
    /\ id \in Ids
    /\ rows'[id].status # "none"
    /\ rows'[id].parent = rows[id].parent
    /\ rows[id].status # "live" => rows'[id].status # "live"

LEMMA AgesKeep ==
  ASSUME TypeInv, Ages, NEW id \in Ids, Exists(id)
  PROVE  StillThere(id)
<1>1. rows[id].status \in {"none", "live", "deleted"}
  BY DEF TypeInv, Row
<1> QED
  BY <1>1 DEF Ages, Exists, StillThere

LEMMA RowsThere ==
  ASSUME CatalogInv, Ages, NEW q \in Requests
  PROVE  /\ local[q].path \in Seq(Ids) /\ local[q].todo \in Seq(Ids)
         /\ \A i \in DOMAIN local[q].path : StillThere(local[q].path[i])
         /\ \A i \in DOMAIN local[q].todo : StillThere(local[q].todo[i])
         /\ local[q].loaded # Root => StillThere(local[q].loaded)
<1>1. TypeInv /\ Placed(q)
  BY DEF CatalogInv, RequestInv
<1>2. /\ local[q].path \in Seq(Ids)
      /\ local[q].todo \in Seq(Ids)
      /\ local[q].loaded \in Ids \cup {Root}
  BY <1>1 DEF TypeInv, Request
<1>3. ASSUME NEW s \in Seq(Ids), NEW i \in DOMAIN s
      PROVE  s[i] \in Ids
  OBVIOUS
<1> QED
  BY <1>1, <1>2, <1>3, AgesKeep DEF Placed

LEMMA FrameKeeps ==
  ASSUME CatalogInv, Ages, NEW q \in Requests, Frame(q)
  PROVE  RequestInv(q)'
<1>1. RequestInv(q)
  BY DEF CatalogInv
<1>2. /\ local[q].path \in Seq(Ids) /\ local[q].todo \in Seq(Ids)
      /\ \A i \in DOMAIN local[q].path : StillThere(local[q].path[i])
      /\ \A i \in DOMAIN local[q].todo : StillThere(local[q].todo[i])
      /\ local[q].loaded # Root => StillThere(local[q].loaded)
  BY RowsThere
<1>3. Placed(q)'
  BY <1>1, <1>2 DEF RequestInv, Placed, Frame, StillThere, Exists
<1>4. Rest(q)'
  BY <1>1 DEF RequestInv, Rest, Frame
<1>5. Doomed(q)'
  BY <1>1, <1>2 DEF RequestInv, Doomed, Frame, StillThere, Live
<1>6. Chain(q)'
  <2>1. \A i \in 2 .. Len(local[q].path) : i \in DOMAIN local[q].path
    BY <1>2
  <2> QED
    BY <1>1, <1>2, <2>1 DEF RequestInv, Chain, Detailed, Frame, StillThere
<1>7. Together(q)'
  BY <1>1, <1>2 DEF RequestInv, Together, Detailed, Frame, StillThere, Obstacle,
                    Before, Live
<1>8. Acknowledged(q)'
  BY <1>1, <1>2, IdsAssumption
     DEF RequestInv, Acknowledged, Placed, Frame, StillThere, Live
<1> QED
  BY <1>3, <1>4, <1>5, <1>6, <1>7, <1>8 DEF RequestInv

-----------------------------------------------------------------------------
(* What a step of r has to show. *)
LEMMA StepKeeps ==
  ASSUME CatalogInv, Ages, NEW r \in Requests,
         \A q \in Requests \ {r} : Frame(q),
         TypeInv', RowsPlaced', NamesStayTaken', RequestInv(r)'
  PROVE  CatalogInv'
<1>1. ASSUME NEW q \in Requests PROVE RequestInv(q)'
  BY FrameKeeps
<1> QED
  BY <1>1 DEF CatalogInv

LEMMA QuietRows ==
  ASSUME CatalogInv, UNCHANGED rows
  PROVE  Ages /\ RowsPlaced' /\ NamesStayTaken'
BY DEF CatalogInv, Ages, RowsPlaced, NamesStayTaken, Exists

LEMMA ReturnStep ==
  ASSUME CatalogInv, NEW r \in Requests, Return(r), UNCHANGED rows
  PROVE  CatalogInv' /\ Ages
<1> USE DEF Return, NoLocal
<1>1. Ages /\ RowsPlaced' /\ NamesStayTaken'
  BY QuietRows
<1>2. TypeInv'
  BY DEF CatalogInv, TypeInv, Labels, Request
<1>3. \A q \in Requests \ {r} : Frame(q)
  BY DEF CatalogInv, TypeInv, Frame
<1>4. /\ pc'[r] = "idle" /\ ~doomed'[r]
      /\ local'[r].via = "none" /\ local'[r].path = <<>> /\ local'[r].todo = <<>>
      /\ local'[r].loaded = Root
  BY DEF CatalogInv, TypeInv
<1> HIDE DEF Return
<1>5. RequestInv(r)'
  <2>1. Len(local'[r].path) = 0 /\ DOMAIN local'[r].path = {} /\ DOMAIN local'[r].todo = {}
    BY <1>4
  <2> QED
    BY <1>4, <2>1 DEF RequestInv, Placed, Rest, Doomed, Chain, Together, Acknowledged,
                      Detailed
<1> QED
  BY <1>1, <1>2, <1>3, <1>5, StepKeeps

-----------------------------------------------------------------------------
(* Arrivals. *)
Proper(via, op, path, todo, name) ==
    /\ via \in {"api", "web"} /\ op \in Ops
    /\ path \in Seq(Ids) /\ todo \in Seq(Ids) /\ name \in Names \cup {NoName}
    /\ \A j \in DOMAIN todo : \E i \in DOMAIN path : todo[j] = path[i]
    /\ via = "api" => todo = path
    /\ op = "get" => todo # <<>>
    /\ (via = "web" /\ op = "get" /\ Len(path) = 3) =>
          /\ \A i \in 2 .. Len(path) : rows[path[i]].parent = path[i - 1]
          /\ \A i \in DOMAIN path : \E j \in DOMAIN todo : todo[j] = path[i]

LEMMA BeginStep ==
  ASSUME CatalogInv, NEW r \in Requests, NEW via, NEW op, NEW path, NEW todo, NEW name,
         Proper(via, op, path, todo, name), Begin(r, via, op, path, todo, name)
  PROVE  CatalogInv' /\ Ages
<1> USE DEF Begin, Goto, Proper
<1>1. Ages /\ RowsPlaced' /\ NamesStayTaken'
  BY QuietRows
<1>2. TypeInv'
  BY DEF CatalogInv, TypeInv, Labels, Request, Ops
<1>3. \A q \in Requests \ {r} : Frame(q)
  BY DEF CatalogInv, TypeInv, Frame
<1>4. /\ pc'[r] = IF todo = <<>> THEN op ELSE "load"
      /\ local'[r].via = via /\ local'[r].op = op /\ local'[r].path = path
      /\ local'[r].todo = todo /\ local'[r].loaded = Root
      /\ doomed'[r] = \E i \in DOMAIN path : ~Live(path[i])
      /\ rows' = rows
      /\ \A i \in DOMAIN path : rows[path[i]].status # "none"
  BY DEF CatalogInv, TypeInv, Exists
<1> HIDE DEF Begin
<1>5. Placed(r)'
  <2>1. \A j \in DOMAIN todo : rows[todo[j]].status # "none"
    BY <1>4
  <2> QED
    BY <1>4, <2>1 DEF Placed, Exists, Ops
<1>6. Rest(r)'
  BY <1>4 DEF Rest
<1>7. Doomed(r)'
  <2> SUFFICES ASSUME via = "api", doomed'[r]
               PROVE  pc'[r] = "load" /\ \E i \in DOMAIN todo : rows[todo[i]].status # "live"
    BY <1>4 DEF Doomed, Live
  <2>1. PICK i \in DOMAIN path : rows[path[i]].status # "live"
    BY <1>4 DEF Live
  <2>2. path # <<>>
    BY <2>1
  <2> QED
    BY <1>4, <2>1, <2>2
<1>8. Chain(r)'
  BY <1>4 DEF Chain, Detailed
<1>9. Together(r)'
  BY <1>4, EmptySeq DEF Together, Detailed, Ops
<1>10. Acknowledged(r)'
  BY <1>4 DEF Acknowledged, Ops
<1> QED
  BY <1>1, <1>2, <1>3, <1>5, <1>6, <1>7, <1>8, <1>9, <1>10, StepKeeps DEF RequestInv

LEMMA ApiStep ==
  ASSUME CatalogInv, NEW r \in Requests, NEW op \in Ops, NEW path \in Seq(Ids),
         NEW name \in Names \cup {NoName}, op = "get" => path # <<>>,
         Api(r, op, path, name)
  PROVE  CatalogInv' /\ Ages
BY BeginStep DEF Api, Proper

LEMMA WebStep ==
  ASSUME CatalogInv, NEW r \in Requests, NEW op \in Ops, NEW path \in Seq(Ids),
         NEW todo, todo = path \/ todo = <<>>,
         NEW name \in Names \cup {NoName}, op = "get" => todo # <<>>,
         Len(path) # 3, Web(r, op, path, todo, name)
  PROVE  CatalogInv' /\ Ages
<1>1. /\ todo \in Seq(Ids)
      /\ \A j \in DOMAIN todo : \E i \in DOMAIN path : todo[j] = path[i]
  <2>1. CASE todo = path
    BY <2>1
  <2>2. CASE todo = <<>>
    BY <2>2, DOMAIN <<>> = {}
  <2> QED
    BY <2>1, <2>2
<1>2. Proper("web", op, path, todo, name)
  BY <1>1 DEF Proper
<1> QED
  BY <1>2, BeginStep DEF Web

LEMMA DetailStep ==
  ASSUME CatalogInv, NEW r \in Requests, documentDetail(r)
  PROVE  CatalogInv' /\ Ages
<1>1. PICK d \in Documents :
        LET b == rows[d].parent IN
        /\ Exists(d)
        /\ Web(r, "get", <<rows[b].parent, b, d>>, <<d, b, rows[b].parent>>, NoName)
  BY DEF documentDetail
<1> DEFINE b == rows[d].parent
           p == rows[b].parent
           path == <<p, b, d>>
           todo == <<d, b, p>>
<1>2. b \in Buckets
  BY <1>1 DEF CatalogInv, RowsPlaced, Ids
<1>3. Exists(b)
  <2>1. \A i \in DOMAIN path : Exists(path[i])
    BY <1>1 DEF Web, Begin
  <2> QED
    BY <2>1, path[2] = b, 2 \in DOMAIN path
<1>4. p \in Projects
  BY <1>2, <1>3 DEF CatalogInv, RowsPlaced, Ids
<1>5. path \in Seq(Ids) /\ todo \in Seq(Ids)
  BY <1>2, <1>4 DEF Ids
<1>6. Proper("web", "get", path, todo, NoName)
  <2>1. \A j \in DOMAIN todo : \E i \in DOMAIN path : todo[j] = path[i]
    <3>1. DOMAIN todo = 1 .. 3 /\ DOMAIN path = 1 .. 3
      OBVIOUS
    <3>2. todo[1] = path[3] /\ todo[2] = path[2] /\ todo[3] = path[1]
      OBVIOUS
    <3> HIDE DEF todo, path
    <3> QED
      BY <3>1, <3>2
  <2>2. \A i \in DOMAIN path : \E j \in DOMAIN todo : todo[j] = path[i]
    <3>1. DOMAIN todo = 1 .. 3 /\ DOMAIN path = 1 .. 3
      OBVIOUS
    <3>2. todo[1] = path[3] /\ todo[2] = path[2] /\ todo[3] = path[1]
      OBVIOUS
    <3> HIDE DEF todo, path
    <3> QED
      BY <3>1, <3>2
  <2>3. \A i \in 2 .. Len(path) : rows[path[i]].parent = path[i - 1]
    <3>1. \A i \in 2 .. Len(path) : i = 2 \/ i = 3
      OBVIOUS
    <3>2. path[1] = p /\ path[2] = b /\ path[3] = d
      OBVIOUS
    <3> HIDE DEF path
    <3> QED
      BY <3>1, <3>2
  <2>4. todo # <<>>
    OBVIOUS
  <2> HIDE DEF path, todo
  <2> QED
    BY <1>5, <2>1, <2>2, <2>3, <2>4 DEF Proper, Ops
<1> HIDE DEF path, todo
<1>7. Begin(r, "web", "get", path, todo, NoName)
  BY <1>1 DEF Web, path, todo
<1> QED
  BY <1>6, <1>7, BeginStep

LEMMA PathsTyped ==
  /\ <<>> \in Seq(Ids) /\ Len(<<>>) # 3
  /\ \A id \in Ids : <<id>> \in Seq(Ids) /\ <<id>> # <<>> /\ Len(<<id>>) # 3
  /\ \A path \in BucketPaths : path \in Seq(Ids) /\ path # <<>> /\ Len(path) # 3
  /\ \A path \in DocumentPaths : path \in Seq(Ids) /\ path # <<>>
<1>1. <<>> \in Seq(Ids) /\ Len(<<>>) # 3
  OBVIOUS
<1>2. ASSUME NEW id \in Ids
      PROVE  <<id>> \in Seq(Ids) /\ <<id>> # <<>> /\ Len(<<id>>) # 3
  OBVIOUS
<1>3. ASSUME NEW a \in Ids, NEW b \in Ids
      PROVE  <<a, b>> \in Seq(Ids) /\ <<a, b>> # <<>> /\ Len(<<a, b>>) # 3
  OBVIOUS
<1>4. ASSUME NEW a \in Ids, NEW b \in Ids, NEW c \in Ids
      PROVE  <<a, b, c>> \in Seq(Ids) /\ <<a, b, c>> # <<>>
  OBVIOUS
<1>5. \A path \in BucketPaths : path \in Seq(Ids) /\ path # <<>> /\ Len(path) # 3
  <2> TAKE path \in BucketPaths
  <2>1. PICK p \in Projects, b \in Buckets : path = <<p, b>>
    BY DEF BucketPaths
  <2>2. p \in Ids /\ b \in Ids
    BY DEF Ids
  <2> QED
    BY <2>1, <2>2, <1>3
<1>6. \A path \in DocumentPaths : path \in Seq(Ids) /\ path # <<>>
  <2> TAKE path \in DocumentPaths
  <2>1. PICK p \in Projects, b \in Buckets, d \in Documents : path = <<p, b, d>>
    BY DEF DocumentPaths
  <2>2. p \in Ids /\ b \in Ids /\ d \in Ids
    BY DEF Ids
  <2> QED
    BY <2>1, <2>2, <1>4
<1> QED
  BY <1>1, <1>2, <1>5, <1>6

LEMMA ApiArrives ==
  ASSUME CatalogInv, NEW r \in Requests,
         \/ ProjectCreate(r) \/ ProjectGet(r) \/ ProjectUpdate(r) \/ ProjectDelete(r)
         \/ BucketCreate(r) \/ BucketGet(r) \/ BucketUpdate(r) \/ BucketDelete(r)
         \/ Upload(r) \/ DocumentGet(r) \/ DocumentUpdate(r) \/ DocumentDelete(r)
  PROVE  CatalogInv' /\ Ages
<1>1. PICK op \in Ops, path \in {<<>>} \cup {<<p>> : p \in Projects}
                              \cup BucketPaths \cup DocumentPaths,
           name \in Names \cup {NoName} :
        Api(r, op, path, name) /\ (op = "get" => path # <<>>)
  BY PathsTyped
     DEF ProjectCreate, ProjectGet, ProjectUpdate, ProjectDelete, BucketCreate, BucketGet,
         BucketUpdate, BucketDelete, Upload, DocumentGet, DocumentUpdate, DocumentDelete,
         Ops, Ids
<1>2. path \in Seq(Ids)
  BY PathsTyped DEF Ids
<1> QED
  BY <1>1, <1>2, ApiStep

LEMMA WebArrives ==
  ASSUME CatalogInv, NEW r \in Requests,
         \/ createProject(r) \/ deleteProject(r) \/ buckets(r)
         \/ createBucket(r) \/ bucketRowPartial(r) \/ updateBucket(r) \/ deleteBucket(r)
         \/ documents(r) \/ uploadDocument(r) \/ updateDocument(r) \/ deleteDocument(r)
         \/ documentRowPartial(r)
  PROVE  CatalogInv' /\ Ages
<1>1. PICK op \in Ops,
           path \in {<<>>} \cup {<<id>> : id \in Ids} \cup BucketPaths,
           name \in Names \cup {NoName} :
        \E todo \in {<<>>, path} :
           Web(r, op, path, todo, name) /\ (op = "get" => todo # <<>>)
  <2> USE PathsTyped DEF Ops, Ids
  <2>1. CASE createProject(r) \/ deleteProject(r) \/ buckets(r)
    BY <2>1 DEF createProject, deleteProject, buckets
  <2>2. CASE createBucket(r) \/ bucketRowPartial(r) \/ updateBucket(r) \/ deleteBucket(r)
    BY <2>2 DEF createBucket, bucketRowPartial, updateBucket, deleteBucket
  <2>3. CASE documents(r) \/ uploadDocument(r)
    BY <2>3 DEF documents, uploadDocument
  <2>4. CASE updateDocument(r) \/ deleteDocument(r) \/ documentRowPartial(r)
    BY <2>4 DEF updateDocument, deleteDocument, documentRowPartial
  <2> QED
    BY <2>1, <2>2, <2>3, <2>4
<1>2. path \in Seq(Ids) /\ Len(path) # 3
  BY PathsTyped
<1> QED
  BY <1>1, <1>2, WebStep

LEMMA ArriveStep ==
  ASSUME CatalogInv, NEW r \in Requests, Arrive(r)
  PROVE  CatalogInv' /\ Ages
BY ApiArrives, WebArrives, DetailStep DEF Arrive

-----------------------------------------------------------------------------
(* A lookup. *)
LEMMA FoundStep ==
  ASSUME CatalogInv, NEW r \in Requests, Load(r),
         Visible(Head(local[r].todo)), Belongs(r, Head(local[r].todo))
  PROVE  CatalogInv' /\ Ages
<1> DEFINE todo == local[r].todo
           path == local[r].path
           id == Head(todo)
           rest == Tail(todo)
<1>1. TypeInv /\ RequestInv(r)
  BY DEF CatalogInv
<1>2. /\ path \in Seq(Ids) /\ todo \in Seq(Ids) /\ todo # <<>>
      /\ pc[r] = "load" /\ local[r].op \in Ops /\ local[r].via \in {"api", "web"}
      /\ local[r].loaded \in Ids \cup {Root}
  BY <1>1 DEF TypeInv, Request, RequestInv, Placed, Load
<1>3. /\ rest \in Seq(Ids) /\ Len(rest) = Len(todo) - 1 /\ Len(todo) > 0
      /\ id = todo[1] /\ id \in Ids
      /\ \A i \in 1 .. Len(rest) : rest[i] = todo[i + 1]
      /\ DOMAIN rest = 1 .. Len(rest) /\ DOMAIN todo = 1 .. Len(todo)
      /\ DOMAIN path = 1 .. Len(path) /\ Len(path) \in Nat
  BY <1>2
<1>4. /\ local' = [local EXCEPT ![r].todo = rest, ![r].loaded = id]
      /\ together' = [together EXCEPT ![r] =
            IF local[r].loaded = Root THEN InPlace(path) ELSE @]
      /\ pc' = [pc EXCEPT ![r] = IF rest # <<>> THEN "load"
                                 ELSE IF local[r].op = "get" THEN "ok" ELSE local[r].op]
      /\ UNCHANGED <<rows, doomed, applied>>
  BY DEF Load, Goto
<1>5. Ages /\ RowsPlaced' /\ NamesStayTaken'
  BY <1>4, QuietRows
<1>6. TypeInv'
  <2>1. InPlace(path) \in BOOLEAN
    BY DEF InPlace
  <2> HIDE DEF rest, id, path
  <2>2. local' \in [Requests -> Request]
    <3>1. ASSUME NEW q \in Request, NEW s \in Seq(Ids), NEW x \in Ids
          PROVE  [q EXCEPT !.todo = s, !.loaded = x] \in Request
      BY DEF Request
    <3>2. local' = [local EXCEPT ![r] = [local[r] EXCEPT !.todo = rest, !.loaded = id]]
      BY <1>4
    <3> QED
      BY <1>1, <1>3, <3>1, <3>2 DEF TypeInv
  <2>3. pc' \in [Requests -> Labels]
    BY <1>1, <1>2, <1>4 DEF TypeInv, Labels, Ops
  <2> QED
    BY <1>1, <1>4, <2>1, <2>2, <2>3 DEF TypeInv
<1>7. \A q \in Requests \ {r} : Frame(q)
  BY <1>1, <1>4 DEF TypeInv, Frame
<1>8. /\ local'[r].path = path /\ local'[r].todo = rest /\ local'[r].loaded = id
      /\ local'[r].via = local[r].via /\ local'[r].op = local[r].op
      /\ pc'[r] = IF rest # <<>> THEN "load"
                  ELSE IF local[r].op = "get" THEN "ok" ELSE local[r].op
      /\ together'[r] = IF local[r].loaded = Root THEN InPlace(path) ELSE together[r]
      /\ rows' = rows /\ doomed'[r] = doomed[r]
  BY <1>1, <1>4 DEF TypeInv, Request
<1>9. Live(id) /\ (local[r].via = "api" => rows[id].parent = local[r].loaded)
  BY DEF Visible, Belongs
<1> HIDE DEF rest, id, path, todo
<1>10. Placed(r)'
  <2>1. /\ \A i \in DOMAIN path : rows[path[i]].status # "none"
        /\ \A i \in DOMAIN todo : rows[todo[i]].status # "none"
    BY <1>1 DEF RequestInv, Placed, Exists, todo, path
  <2>2. \A i \in DOMAIN rest : rows[rest[i]].status # "none"
    <3> TAKE i \in DOMAIN rest
    <3>1. i + 1 \in DOMAIN todo /\ rest[i] = todo[i + 1]
      BY <1>3
    <3> QED
      BY <2>1, <3>1
  <2> QED
    BY <1>2, <1>3, <1>8, <1>9, <2>1, <2>2 DEF Placed, Exists, Live, Ops
<1>11. Rest(r)'
  <2> SUFFICES ASSUME local[r].via = "api", rest # <<>>
               PROVE  /\ Len(path) - Len(rest) >= 0
                      /\ \A i \in 1 .. Len(rest) : rest[i] = path[Len(path) - Len(rest) + i]
                      /\ id = IF Len(path) - Len(rest) = 0 THEN Root
                              ELSE path[Len(path) - Len(rest)]
    BY <1>2, <1>8 DEF Rest, Ops
  <2> DEFINE done == Len(path) - Len(todo)
  <2>1. done >= 0 /\ \A i \in 1 .. Len(todo) : todo[i] = path[done + i]
    BY <1>1, <1>2 DEF RequestInv, Rest, todo, path
  <2>2. Len(path) - Len(rest) = done + 1 /\ done \in Int
    BY <1>2, <1>3
  <2> HIDE DEF done
  <2>3. ASSUME NEW i \in 1 .. Len(rest)
        PROVE  rest[i] = path[(done + 1) + i]
    <3>1. i + 1 \in 1 .. Len(todo) /\ done + (i + 1) = (done + 1) + i
      BY <1>3, <2>2
    <3>2. todo[i + 1] = path[done + (i + 1)]
      BY <2>1, <3>1
    <3> QED
      BY <1>3, <3>1, <3>2
  <2>4. id = path[done + 1]
    BY <1>3, <2>1
  <2> QED
    BY <2>1, <2>2, <2>3, <2>4
<1>12. Doomed(r)'
  <2>1. ASSUME local[r].via = "api", doomed[r]
        PROVE  \E i \in DOMAIN rest : ~Live(rest[i])
    <3>1. PICK i \in DOMAIN todo : ~Live(todo[i])
      BY <1>1, <2>1 DEF RequestInv, Doomed, todo
    <3>2. i # 1
      BY <3>1, <1>3, <1>9
    <3>3. i - 1 \in DOMAIN rest /\ rest[i - 1] = todo[i]
      BY <3>1, <3>2, <1>3
    <3> QED
      BY <3>1, <3>3
  <2>2. (\E i \in DOMAIN rest : TRUE) => rest # <<>>
    BY <1>3
  <2> QED
    BY <1>8, <2>1, <2>2 DEF Doomed, Live
<1>13. Chain(r)'
  BY <1>1, <1>3, <1>8, IdsAssumption DEF RequestInv, Chain, Detailed, path
<1>14. ASSUME NEW i \in 2 .. Len(todo),
              ~Live(todo[i]) \/ (local[r].via = "api" /\ rows[todo[i]].parent # todo[i - 1])
       PROVE  pc'[r] = "load" /\ Obstacle(local[r])'
  <2>1. i - 1 \in DOMAIN rest /\ rest[i - 1] = todo[i] /\ rest # <<>>
    BY <1>3
  <2>2. Before(local'[r], i - 1) = todo[i - 1]
    BY <1>3, <1>8 DEF Before
  <2>3. \/ rows'[local'[r].todo[i - 1]].status # "live"
        \/ /\ local'[r].via = "api"
           /\ rows'[local'[r].todo[i - 1]].parent # Before(local'[r], i - 1)
    BY <1>8, <1>14, <2>1, <2>2 DEF Live
  <2> QED
    BY <1>8, <2>1, <2>3 DEF Obstacle, Live
<1>15. Together(r)'
  <2> SUFFICES ASSUME path # <<>>, local[r].via = "api" \/ Detailed(local[r]),
                      ~together'[r]
               PROVE  pc'[r] = "load" /\ Obstacle(local[r])'
    BY <1>8 DEF Together, Detailed, path
  <2>1. CASE local[r].loaded # Root
    <3>1. Obstacle(local[r])
      BY <1>1, <1>2, <1>8, <2>1 DEF RequestInv, Together, path
    <3>2. PICK i \in DOMAIN todo :
            \/ ~Live(todo[i])
            \/ local[r].via = "api" /\ rows[todo[i]].parent # Before(local[r], i)
      BY <3>1 DEF Obstacle, todo
    <3>3. i # 1
      BY <3>2, <1>3, <1>9 DEF Before
    <3>4. Before(local[r], i) = todo[i - 1] /\ i \in 2 .. Len(todo)
      BY <3>3, <1>3 DEF Before, todo
    <3> QED
      BY <3>2, <3>4, <1>14
  <2>2. CASE local[r].loaded = Root /\ local[r].via = "api"
    <3>1. todo = path
      <4>1. Len(path) - Len(todo) = 0
        BY <1>1, <1>2, <1>3, <2>2, IdsAssumption DEF RequestInv, Rest, path, todo
      <4>2. \A i \in 1 .. Len(todo) : todo[i] = path[i]
        <5>1. \A i \in 1 .. Len(todo) : todo[i] = path[(Len(path) - Len(todo)) + i]
          BY <1>1, <1>2, <2>2 DEF RequestInv, Rest, path, todo
        <5>2. \A i \in 1 .. Len(todo) : (Len(path) - Len(todo)) + i = i
          BY <4>1
        <5> QED
          BY <5>1, <5>2
      <4> QED
        BY <1>2, <1>3, <4>1, <4>2, SeqEqual
    <3>2. ~InPlace(todo)
      BY <1>8, <2>2, <3>1
    <3>3. PICK i \in DOMAIN todo :
            ~Live(todo[i]) \/ (i \in 2 .. Len(todo) /\ rows[todo[i]].parent # todo[i - 1])
      BY <3>2, <1>3 DEF InPlace
    <3>4. i \in 2 .. Len(todo)
      BY <3>3, <1>3, <1>9
    <3> QED
      BY <3>3, <3>4, <2>2, <1>14
  <2>3. CASE local[r].loaded = Root /\ Detailed(local[r])
    <3>1. /\ \A i \in 2 .. Len(path) : rows[path[i]].parent = path[i - 1]
          /\ \A i \in DOMAIN path : \E j \in DOMAIN todo : todo[j] = path[i]
      BY <1>1, <1>2, <2>3 DEF RequestInv, Chain, path, todo
    <3>2. PICK i \in DOMAIN path : ~Live(path[i])
      BY <1>8, <2>3, <3>1 DEF InPlace
    <3>3. PICK j \in DOMAIN todo : todo[j] = path[i]
      BY <3>1
    <3>4. j \in 2 .. Len(todo)
      BY <3>2, <3>3, <1>3, <1>9
    <3> QED
      BY <3>2, <3>3, <3>4, <1>14
  <2> QED
    BY <1>2, <2>1, <2>2, <2>3
<1>16. Acknowledged(r)'
  BY <1>2, <1>8 DEF Acknowledged, Ops
<1> QED
  BY <1>5, <1>6, <1>7, <1>10, <1>11, <1>12, <1>13, <1>15, <1>16, StepKeeps DEF RequestInv

LEMMA LoadStep ==
  ASSUME CatalogInv, NEW r \in Requests, Load(r)
  PROVE  CatalogInv' /\ Ages
BY FoundStep, ReturnStep DEF Load

-----------------------------------------------------------------------------
(* Statements of a request that has loaded its path; x is the row it keeps. *)
LEMMA PastLoading ==
  ASSUME CatalogInv, NEW r \in Requests, NEW x \in Ids \cup {Root},
         pc[r] \in {"create", "update", "delete", "reread"},
         pc'[r] \in {"reread", "ok", "gone"}, pc'[r] = "reread" => x \in Ids,
         local' = [local EXCEPT ![r].loaded = x],
         \/ x = local[r].loaded
         \/ x \in Ids /\ rows'[x].status # "none",
         pc' = [pc EXCEPT ![r] = pc'[r]], UNCHANGED <<doomed, together>>,
         applied' \in [Requests -> BOOLEAN],
         \A q \in Requests \ {r} : applied'[q] = applied[q],
         rows' \in [Ids -> Row], Ages, RowsPlaced', NamesStayTaken', Acknowledged(r)'
  PROVE  CatalogInv'
<1>1. TypeInv /\ RequestInv(r)
  BY DEF CatalogInv
<1>2. TypeInv'
  <2>1. local' = [local EXCEPT ![r] = [local[r] EXCEPT !.loaded = x]]
    OBVIOUS
  <2>2. ASSUME NEW q \in Request, NEW y \in Ids \cup {Root}
        PROVE  [q EXCEPT !.loaded = y] \in Request
    BY DEF Request
  <2>3. local' \in [Requests -> Request]
    BY <1>1, <2>1, <2>2 DEF TypeInv
  <2>4. pc' \in [Requests -> Labels]
    BY <1>1 DEF TypeInv, Labels
  <2> QED
    BY <1>1, <2>3, <2>4 DEF TypeInv
<1>3. \A q \in Requests \ {r} : Frame(q)
  BY <1>1 DEF TypeInv, Frame
<1>4. /\ local'[r].path = local[r].path /\ local'[r].todo = local[r].todo
      /\ local'[r].via = local[r].via /\ local'[r].op = local[r].op
      /\ local'[r].loaded = x
  BY <1>1 DEF TypeInv, Request
<1>5. /\ local[r].path \in Seq(Ids) /\ local[r].todo \in Seq(Ids)
      /\ \A i \in DOMAIN local[r].path : StillThere(local[r].path[i])
      /\ \A i \in DOMAIN local[r].todo : StillThere(local[r].todo[i])
      /\ local[r].loaded # Root => StillThere(local[r].loaded)
  BY RowsThere
<1>6. Placed(r)'
  <2>1. local[r].via \in {"api", "web"}
    BY <1>1 DEF RequestInv, Placed
  <2> QED
    BY <1>4, <1>5, <2>1 DEF Placed, StillThere, Exists
<1>7. Rest(r)' /\ Doomed(r)'
  BY <1>1, <1>4 DEF RequestInv, Rest, Doomed
<1>8. Chain(r)'
  <2>1. \A i \in 2 .. Len(local[r].path) : i \in DOMAIN local[r].path
    BY <1>5
  <2> QED
    BY <1>1, <1>4, <1>5, <2>1 DEF RequestInv, Chain, Detailed, StillThere
<1>9. Together(r)'
  BY <1>1, <1>4 DEF RequestInv, Together, Detailed
<1> QED
  BY <1>2, <1>3, <1>6, <1>7, <1>8, <1>9, StepKeeps DEF RequestInv

LEMMA TargetThere ==
  ASSUME CatalogInv, NEW r \in Requests, Target(r) \in Ids
  PROVE  Exists(Target(r))
<1>1. local[r].path \in Seq(Ids) /\ Placed(r)
  BY DEF CatalogInv, TypeInv, Request, RequestInv
<1>2. local[r].path # <<>>
  BY IdsAssumption DEF Target
<1>3. Len(local[r].path) \in DOMAIN local[r].path
  BY <1>1, <1>2, EmptySeq
<1> QED
  BY <1>1, <1>2, <1>3 DEF Target, Placed

LEMMA InsertStep ==
  ASSUME CatalogInv, NEW r \in Requests, NEW table \in {Projects, Buckets, Documents},
         Insert(r, table)
  PROVE  CatalogInv' /\ Ages
<1>1. TypeInv /\ RowsPlaced /\ NamesStayTaken
  BY DEF CatalogInv
<1>2. PICK id \in table :
        /\ ~Exists(id)
        /\ \/ /\ ~Taken(id, Target(r), local[r].name)
              /\ rows' = [rows EXCEPT ![id] = [status |-> "live",
                      name |-> local[r].name, parent |-> Target(r)]]
              /\ local' = [local EXCEPT ![r].loaded = id]
              /\ Goto(r, "reread")
              /\ UNCHANGED history
           \/ Return(r) /\ UNCHANGED rows
  BY DEF Insert
<1>3. CASE Return(r) /\ UNCHANGED rows
  BY <1>3, ReturnStep
<1>4. CASE /\ ~Taken(id, Target(r), local[r].name)
           /\ rows' = [rows EXCEPT ![id] = [status |-> "live",
                   name |-> local[r].name, parent |-> Target(r)]]
           /\ local' = [local EXCEPT ![r].loaded = id]
           /\ Goto(r, "reread")
           /\ UNCHANGED history
  <2>1. pc[r] = "create" /\ Target(r) \in Parents(table) /\ local[r].op = "create"
    BY DEF Insert, CatalogInv, RequestInv, Placed
  <2>2. id \in Ids
    BY DEF Ids
  <2>3. /\ id \in Projects => table = Projects /\ Parents(table) = {Root}
        /\ id \in Buckets => table = Buckets /\ Parents(table) = Projects
        /\ id \in Documents => table = Documents /\ Parents(table) = Buckets
    <3>1. CASE table = Projects
      BY <1>2, <3>1, IdsAssumption DEF Parents
    <3>2. CASE table = Buckets
      <4>1. table # Projects /\ table # Documents
        BY <1>2, <3>2, IdsAssumption
      <4> QED
        BY <1>2, <3>2, <4>1, IdsAssumption DEF Parents
    <3>3. CASE table = Documents
      <4>1. table # Projects /\ table # Buckets
        BY <1>2, <3>3, IdsAssumption
      <4> QED
        BY <1>2, <3>3, <4>1, IdsAssumption DEF Parents
    <3> QED
      BY <3>1, <3>2, <3>3
  <2>4. Target(r) \in Ids \cup {Root} /\ local[r].name \in Names \cup {NoName}
    BY <1>1, <1>2, <2>1, <2>2, <2>3 DEF Ids, TypeInv, Request
  <2>5. rows' \in [Ids -> Row]
    BY <1>1, <1>4, <2>2, <2>4 DEF TypeInv, Row
  <2>6. /\ rows'[id].status = "live" /\ rows'[id].parent = Target(r)
        /\ rows'[id].name = local[r].name
        /\ \A other \in Ids \ {id} : rows'[other] = rows[other]
    BY <1>1, <1>4, <2>2 DEF TypeInv
  <2>7. Ages
    BY <1>2, <2>2, <2>6 DEF Ages, Exists
  <2>8. RowsPlaced'
    BY <1>1, <1>2, <2>1, <2>3, <2>6 DEF RowsPlaced, Exists
  <2>9. NamesStayTaken'
    BY <1>1, <1>4, <2>6 DEF NamesStayTaken, Taken, Exists
  <2>10. /\ pc'[r] = "reread" /\ pc' = [pc EXCEPT ![r] = pc'[r]]
         /\ UNCHANGED <<doomed, together, applied>>
    BY <1>1, <1>4 DEF TypeInv, Goto, history
  <2>11. Acknowledged(r)'
    BY <1>1, <1>4, <2>1, <2>10 DEF TypeInv, Request, Acknowledged
  <2>12. applied' \in [Requests -> BOOLEAN] /\ \A q \in Requests \ {r} : applied'[q] = applied[q]
    BY <1>1, <2>10 DEF TypeInv
  <2> QED
    BY <1>4, <2>1, <2>2, <2>5, <2>6, <2>7, <2>8, <2>9, <2>10, <2>11, <2>12, PastLoading
<1> QED
  BY <1>2, <1>3, <1>4

LEMMA RenameStep ==
  ASSUME CatalogInv, NEW r \in Requests, NEW table \in {Projects, Buckets, Documents},
         Rename(r, table)
  PROVE  CatalogInv' /\ Ages
<1> DEFINE id == Target(r)
<1>1. TypeInv /\ RowsPlaced /\ NamesStayTaken
  BY DEF CatalogInv
<1>2. pc[r] = "update" /\ id \in Ids /\ local[r].name \in Names \cup {NoName}
  BY <1>1 DEF Rename, Ids, TypeInv, Request
<1>3. Exists(id)
  BY <1>2, TargetThere
<1>4. CASE Return(r) /\ UNCHANGED rows
  BY <1>4, ReturnStep
<1>5. CASE /\ Live(id)
           /\ ~Taken(id, rows[id].parent, local[r].name)
           /\ rows' = [rows EXCEPT ![id].name = local[r].name]
           /\ applied' = [applied EXCEPT ![r] = TRUE]
           /\ local' = [local EXCEPT ![r].loaded = id]
           /\ Goto(r, "reread")
           /\ UNCHANGED <<doomed, together>>
  <2> HIDE DEF id
  <2>1. /\ rows'[id].status = "live" /\ rows'[id].parent = rows[id].parent
        /\ rows'[id].name = local[r].name
        /\ \A other \in Ids \ {id} : rows'[other] = rows[other]
    BY <1>1, <1>2, <1>5 DEF TypeInv, Row, Live
  <2>2. rows' \in [Ids -> Row]
    <3>1. ASSUME NEW row \in Row, NEW name \in Names \cup {NoName}
          PROVE  [row EXCEPT !.name = name] \in Row
      BY DEF Row
    <3>2. rows' = [rows EXCEPT ![id] = [rows[id] EXCEPT !.name = local[r].name]]
      BY <1>5
    <3> QED
      BY <1>1, <1>2, <3>1, <3>2 DEF TypeInv
  <2>3. Ages
    BY <1>5, <2>1 DEF Ages, Live, Exists
  <2>4. RowsPlaced'
    BY <1>1, <1>2, <1>3, <2>1 DEF RowsPlaced, Exists
  <2>5. NamesStayTaken'
    BY <1>1, <1>3, <1>5, <2>1 DEF NamesStayTaken, Taken, Exists
  <2>6. /\ pc'[r] = "reread" /\ pc' = [pc EXCEPT ![r] = pc'[r]]
        /\ applied'[r] /\ applied' \in [Requests -> BOOLEAN]
        /\ \A q \in Requests \ {r} : applied'[q] = applied[q]
    BY <1>1, <1>5 DEF TypeInv, Goto
  <2>7. Acknowledged(r)'
    BY <2>6 DEF Acknowledged
  <2> QED
    BY <1>2, <1>5, <2>1, <2>2, <2>3, <2>4, <2>5, <2>6, <2>7, PastLoading
<1>6. CASE /\ ~Live(id)
           /\ local' = [local EXCEPT ![r].loaded = id]
           /\ Goto(r, "reread")
           /\ UNCHANGED <<rows, history>>
  <2> HIDE DEF id
  <2>1. Ages /\ RowsPlaced' /\ NamesStayTaken'
    BY <1>6, QuietRows
  <2>2. /\ pc'[r] = "reread" /\ pc' = [pc EXCEPT ![r] = pc'[r]]
        /\ local'[r].loaded = id /\ rows' = rows
        /\ UNCHANGED <<doomed, together, applied>>
    BY <1>1, <1>6 DEF TypeInv, Request, Goto, history
  <2>3. Acknowledged(r)'
    BY <1>6, <2>2 DEF Acknowledged, Live
  <2>4. /\ rows' \in [Ids -> Row] /\ applied' \in [Requests -> BOOLEAN]
        /\ rows'[id].status # "none"
        /\ \A q \in Requests \ {r} : applied'[q] = applied[q]
    BY <1>1, <1>3, <2>2 DEF TypeInv, Exists
  <2> QED
    BY <1>2, <1>6, <2>1, <2>2, <2>3, <2>4, PastLoading
<1> QED
  BY <1>4, <1>5, <1>6 DEF Rename

LEMMA DeleteStep ==
  ASSUME CatalogInv, NEW r \in Requests, NEW table \in {Projects, Buckets, Documents},
         SoftDelete(r, table)
  PROVE  CatalogInv' /\ Ages
<1> DEFINE id == Target(r)
<1>1. TypeInv /\ RowsPlaced /\ NamesStayTaken
  BY DEF CatalogInv
<1>2. pc[r] = "delete" /\ id \in Ids
  BY DEF SoftDelete, Ids
<1>3. Exists(id)
  BY <1>2, TargetThere
<1>4. /\ rows' = [rows EXCEPT ![id].status = "deleted"]
      /\ Goto(r, "ok") /\ UNCHANGED <<local, history>>
  BY DEF SoftDelete
<1> HIDE DEF id
<1>5. /\ rows'[id].status = "deleted" /\ rows'[id].parent = rows[id].parent
      /\ rows'[id].name = rows[id].name
      /\ \A other \in Ids \ {id} : rows'[other] = rows[other]
  BY <1>1, <1>2, <1>4 DEF TypeInv, Row
<1>6. rows' \in [Ids -> Row]
  <2>1. ASSUME NEW row \in Row
        PROVE  [row EXCEPT !.status = "deleted"] \in Row
    BY DEF Row
  <2>2. rows' = [rows EXCEPT ![id] = [rows[id] EXCEPT !.status = "deleted"]]
    BY <1>4
  <2> QED
    BY <1>1, <1>2, <2>1, <2>2 DEF TypeInv
<1>7. Ages
  <2>1. ASSUME NEW row \in Row, row.status = "deleted"
        PROVE  [row EXCEPT !.status = "deleted"] = row
    BY <2>1 DEF Row
  <2>2. rows'[id] = [rows[id] EXCEPT !.status = "deleted"]
    BY <1>1, <1>2, <1>4 DEF TypeInv
  <2>3. rows[id].status = "deleted" => rows'[id] = rows[id]
    BY <1>1, <1>2, <2>1, <2>2 DEF TypeInv
  <2> QED
    BY <1>5, <2>3 DEF Ages, Exists
<1>8. RowsPlaced'
  BY <1>1, <1>2, <1>3, <1>5 DEF RowsPlaced, Exists
<1>9. NamesStayTaken'
  BY <1>1, <1>3, <1>5 DEF NamesStayTaken, Exists
<1>10. /\ pc'[r] = "ok" /\ pc' = [pc EXCEPT ![r] = pc'[r]]
       /\ UNCHANGED <<doomed, together, applied>> /\ local' = local
  BY <1>1, <1>4 DEF TypeInv, Goto, history
<1>11. local[r].op = "delete" /\ local[r].loaded \in Ids \cup {Root}
  BY <1>1, <1>2 DEF CatalogInv, RequestInv, Placed, TypeInv, Request
<1>12. Acknowledged(r)'
  BY <1>10, <1>11 DEF Acknowledged
<1>13. local' = [local EXCEPT ![r].loaded = local[r].loaded]
  <2>1. ASSUME NEW q \in Request
        PROVE  [q EXCEPT !.loaded = q.loaded] = q
    BY DEF Request
  <2> QED
    BY <1>1, <1>10, <2>1 DEF TypeInv
<1>14. /\ applied' \in [Requests -> BOOLEAN]
       /\ \A q \in Requests \ {r} : applied'[q] = applied[q]
  BY <1>1, <1>10 DEF TypeInv
<1> QED
  BY <1>2, <1>6, <1>7, <1>8, <1>9, <1>10, <1>11, <1>12, <1>13, <1>14, PastLoading

LEMMA RereadStep ==
  ASSUME CatalogInv, NEW r \in Requests, NEW table \in {Projects, Buckets, Documents},
         Reread(r, table)
  PROVE  CatalogInv' /\ Ages
<1>1. TypeInv /\ RequestInv(r)
  BY DEF CatalogInv
<1>2. /\ pc[r] = "reread" /\ local[r].loaded \in Ids
      /\ pc'[r] = (IF Found(r) THEN "ok" ELSE "gone") /\ pc' = [pc EXCEPT ![r] = pc'[r]]
      /\ UNCHANGED <<rows, local, doomed, together, applied>>
  BY <1>1 DEF Reread, Ids, TypeInv, Goto, history
<1>3. Ages /\ RowsPlaced' /\ NamesStayTaken'
  BY <1>2, QuietRows
<1>4. Acknowledged(r)'
  BY <1>1, <1>2 DEF RequestInv, Acknowledged, Found, Live
<1>5. local' = [local EXCEPT ![r].loaded = local[r].loaded]
  <2>1. ASSUME NEW q \in Request
        PROVE  [q EXCEPT !.loaded = q.loaded] = q
    BY DEF Request
  <2> QED
    BY <1>1, <1>2, <2>1 DEF TypeInv
<1>6. /\ applied' \in [Requests -> BOOLEAN] /\ rows' \in [Ids -> Row]
      /\ \A q \in Requests \ {r} : applied'[q] = applied[q]
  BY <1>1, <1>2 DEF TypeInv
<1> QED
  BY <1>2, <1>3, <1>4, <1>5, <1>6, PastLoading

-----------------------------------------------------------------------------
LEMMA CatalogStep ==
  ASSUME CatalogInv, NEW r \in Requests, Arrive(r) \/ Step(r)
  PROVE  CatalogInv' /\ Ages
<1>1. CASE Arrive(r)
  BY <1>1, ArriveStep
<1>2. CASE Load(r) \/ Reply(r) \/ Fail(r)
  BY <1>2, LoadStep, ReturnStep DEF Reply, Fail
<1>3. CASE CreateProject(r) \/ CreateBucket(r) \/ CreateDocument(r)
  BY <1>3, InsertStep DEF CreateProject, CreateBucket, CreateDocument
<1>4. CASE UpdateProject(r) \/ UpdateBucket(r) \/ RenameDocument(r)
  BY <1>4, RenameStep DEF UpdateProject, UpdateBucket, RenameDocument
<1>5. CASE DeleteProject(r) \/ DeleteBucket(r) \/ DeleteDocument(r)
  BY <1>5, DeleteStep DEF DeleteProject, DeleteBucket, DeleteDocument
<1>6. CASE GetProject(r) \/ GetBucket(r) \/ GetDocument(r)
  BY <1>6, RereadStep DEF GetProject, GetBucket, GetDocument
<1> QED
  BY <1>1, <1>2, <1>3, <1>4, <1>5, <1>6 DEF Step

LEMMA CatalogInductive ==
  ASSUME CatalogInv, [Next]_vars
  PROVE  CatalogInv' /\ Ages
<1>1. CASE Next
  BY <1>1, CatalogStep DEF Next
<1>2. CASE UNCHANGED vars
  <2>1. Ages /\ RowsPlaced' /\ NamesStayTaken'
    BY <1>2, QuietRows DEF vars
  <2>2. TypeInv' /\ \A q \in Requests : Frame(q)
    BY <1>2 DEF CatalogInv, TypeInv, Frame, vars
  <2>3. \A q \in Requests : RequestInv(q)'
    BY <2>1, <2>2, FrameKeeps
  <2> QED
    BY <2>1, <2>2, <2>3 DEF CatalogInv
<1> QED
  BY <1>1, <1>2

LEMMA CatalogAlways == Spec => []CatalogInv
<1>1. CatalogInv /\ [Next]_vars => CatalogInv'
  BY CatalogInductive
<1> QED
  BY <1>1, CatalogInit, PTL DEF Spec

-----------------------------------------------------------------------------
(* Whatever requests race with a deletion, no request of the API that       *)
(* arrives after it gets through the deleted row: what is beneath is hidden.*)
THEOREM DeletedPathsHidden == Spec => []DeletionHides
<1>1. CatalogInv => DeletionHides
  BY DEF CatalogInv, RequestInv, Doomed, DeletionHides, Through
<1> QED
  BY <1>1, CatalogAlways, PTL

(* A request that has loaded its path row by row saw it in place at once,   *)
(* down the path in the API and up from the document on its page.           *)
THEOREM PathsSeenWhole == Spec => []PathSeenTogether
<1>1. CatalogInv => PathSeenTogether
  <2> SUFFICES ASSUME CatalogInv, NEW r \in Requests, Through(r),
                      local[r].path # <<>>,
                      local[r].via = "api" \/ (local[r].op = "get" /\ Len(local[r].path) = 3)
               PROVE  together[r]
    BY DEF PathSeenTogether
  <2>1. Together(r) /\ pc[r] # "load" /\ pc[r] # "idle"
    BY DEF CatalogInv, RequestInv, Through
  <2>2. local[r].via \in {"api", "web"}
    BY <2>1 DEF CatalogInv, RequestInv, Placed
  <2> QED
    BY <2>1, <2>2 DEF Together, Detailed
<1> QED
  BY <1>1, CatalogAlways, PTL

(* The reply to a rename carries a row only if the row did get the name.    *)
THEOREM RepliesTellOfRenames == Spec => []RenameAcknowledged
<1>1. CatalogInv => RenameAcknowledged
  BY DEF CatalogInv, RequestInv, Acknowledged, RenameAcknowledged
<1> QED
  BY <1>1, CatalogAlways, PTL

(* No two rows of a parent ever have the same name, deleted ones included.  *)
THEOREM NamesNeverReused == Spec => []NamesStayTaken
<1>1. CatalogInv => NamesStayTaken
  BY DEF CatalogInv
<1> QED
  BY <1>1, CatalogAlways, PTL

(* No statement revives, renames or moves a deleted row, or removes a row.  *)
THEOREM RowsNeverRevive == Spec => RowsOnlyAge
<1>1. CatalogInv /\ [Next]_vars => [Ages]_vars
  BY CatalogInductive
<1>2. [][Ages]_vars <=> RowsOnlyAge
  BY PTL DEF Ages, RowsOnlyAge
<1> QED
  BY <1>1, <1>2, CatalogAlways, PTL DEF Spec
=============================================================================
