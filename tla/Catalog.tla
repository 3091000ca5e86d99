------------------------------ MODULE Catalog ------------------------------
(***************************************************************************)
(* Projects, their buckets and the documents of these: creation, lookup,   *)
(* renaming and soft deletion through the REST API and the web interface.  *)
(* Deletion marks one row and leaves those beneath it alone; the API hides *)
(* them because each request loads its path row by row, and the web        *)
(* interface goes straight to the row it names.                            *)
(*                                                                         *)
(* Abstracted: descriptions, contents and versions (DocumentVersions), who *)
(* may do what (Rights), and locks: the lock of the bucket that an upload  *)
(* takes through the API guards one INSERT.                                *)
(***************************************************************************)
EXTENDS Naturals, Sequences

CONSTANTS
    Requests,     \* request slots: each serves one request after another
    Projects,     \* identifiers (random UUIDs) that rows may get
    Buckets,
    Documents,
    Names,        \* names clients choose
    Root,         \* what projects belong to
    NoName        \* name of a row that does not exist yet

Ids == Projects \cup Buckets \cup Documents

ASSUME IdsAssumption ==
    /\ Projects \cap Buckets = {}
    /\ Projects \cap Documents = {}
    /\ Buckets \cap Documents = {}
    /\ Root \notin Ids
ASSUME NamesAssumption == NoName \notin Names

VARIABLES
    rows,       \* the tables projects, buckets and documents
    pc,         \* where each request is in its handler
    local,      \* what it was asked for, and the rows it has still to load
    doomed,     \* (history) a row of its path was deleted before it arrived
    together,   \* (history) when it loaded its first row, all were in place
    applied     \* (history) the row has had the name it was to get

vars == <<rows, pc, local, doomed, together, applied>>
history == <<doomed, together, applied>>

NoRow == [status |-> "none", name |-> NoName, parent |-> Root]
NoLocal == [via |-> "none", op |-> "none", path |-> <<>>, name |-> NoName,
            todo |-> <<>>, loaded |-> Root]

\* The row a request is about: the last of its path.
Target(r) == LET path == local[r].path IN
             IF path = <<>> THEN Root ELSE path[Len(path)]

Live(id) == rows[id].status = "live"
Exists(id) == rows[id].status # "none"

\* Where a row of the table may go.
Parents(table) == CASE table = Projects -> {Root}
                    [] table = Buckets -> Projects
                    [] table = Documents -> Buckets

\* The rows of a path are all live, each in the one before it.
InPlace(path) ==
    /\ \A i \in DOMAIN path : Live(path[i])
    /\ \A i \in 2 .. Len(path) : rows[path[i]].parent = path[i - 1]

Goto(r, label) == pc' = [pc EXCEPT ![r] = label]

Init ==
    /\ rows = [id \in Ids |-> NoRow]
    /\ pc = [r \in Requests |-> "idle"]
    /\ local = [r \in Requests |-> NoLocal]
    /\ doomed = [r \in Requests |-> FALSE]
    /\ together = [r \in Requests |-> FALSE]
    /\ applied = [r \in Requests |-> FALSE]

-----------------------------------------------------------------------------
(***************************************************************************)
(* Arrival of a request for the rows of path, the last of which it is      *)
(* about; todo are those it loads first.  A client can only name rows that *)
(* exist: identifiers are random.                                          *)
(***************************************************************************)
Begin(r, via, op, path, todo, name) ==
    /\ pc[r] = "idle"
    /\ \A i \in DOMAIN path : Exists(path[i])
    /\ local' = [local EXCEPT ![r] =
            [via |-> via, op |-> op, path |-> path, name |-> name,
             todo |-> todo, loaded |-> Root]]
    /\ doomed' = [doomed EXCEPT ![r] = \E i \in DOMAIN path : ~Live(path[i])]
    /\ UNCHANGED <<together, applied>>
    /\ Goto(r, IF todo = <<>> THEN op ELSE "load")
    /\ UNCHANGED rows

\* The routes under /projects/{projectID}: ProjectCtx, BucketCtx, DocumentCtx.
Api(r, op, path, name) == Begin(r, "api", op, path, path, name)
Web(r, op, path, todo, name) == Begin(r, "web", op, path, todo, name)

BucketPaths == {<<p, b>> : p \in Projects, b \in Buckets}
DocumentPaths == {<<p, b, d>> : p \in Projects, b \in Buckets, d \in Documents}

ProjectCreate(r) == \E n \in Names : Api(r, "create", <<>>, n)
ProjectGet(r) == \E p \in Projects : Api(r, "get", <<p>>, NoName)
\* A PUT without a name writes the loaded one back: one of Names as well.
ProjectUpdate(r) == \E p \in Projects, n \in Names : Api(r, "update", <<p>>, n)
ProjectDelete(r) == \E p \in Projects : Api(r, "delete", <<p>>, NoName)

BucketCreate(r) == \E p \in Projects, n \in Names : Api(r, "create", <<p>>, n)
BucketGet(r) == \E path \in BucketPaths : Api(r, "get", path, NoName)
BucketUpdate(r) == \E path \in BucketPaths, n \in Names : Api(r, "update", path, n)
BucketDelete(r) == \E path \in BucketPaths : Api(r, "delete", path, NoName)

Upload(r) == \E path \in BucketPaths, n \in Names : Api(r, "create", path, n)
DocumentGet(r) == \E path \in DocumentPaths : Api(r, "get", path, NoName)
DocumentUpdate(r) ==
    \E path \in DocumentPaths, n \in Names : Api(r, "update", path, n)
DocumentDelete(r) == \E path \in DocumentPaths : Api(r, "delete", path, NoName)

\* The web interface: some handlers load what they are about, some do not.
createProject(r) == \E n \in Names : Web(r, "create", <<>>, <<>>, n)
deleteProject(r) == \E p \in Projects : Web(r, "delete", <<p>>, <<>>, NoName)
buckets(r) == \E p \in Projects : Web(r, "get", <<p>>, <<p>>, NoName)

createBucket(r) ==
    \E p \in Projects, n \in Names : Web(r, "create", <<p>>, <<>>, n)
bucketRowPartial(r) == \E b \in Buckets : Web(r, "get", <<b>>, <<b>>, NoName)
updateBucket(r) == \E b \in Buckets, n \in Names : Web(r, "update", <<b>>, <<>>, n)
deleteBucket(r) == \E b \in Buckets : Web(r, "delete", <<b>>, <<>>, NoName)
\* That the bucket belongs to the project is not looked at.
documents(r) == \E path \in BucketPaths : Web(r, "get", path, path, NoName)

uploadDocument(r) ==
    \E b \in Buckets, n \in Names : Web(r, "create", <<b>>, <<>>, n)
updateDocument(r) ==
    \E d \in Documents, n \in Names : Web(r, "update", <<d>>, <<d>>, n)
deleteDocument(r) == \E d \in Documents : Web(r, "delete", <<d>>, <<d>>, NoName)
documentRowPartial(r) == \E d \in Documents : Web(r, "get", <<d>>, <<d>>, NoName)

\* The detail page: the document, then upwards (resolveDocumentContext).
documentDetail(r) ==
    \E d \in Documents :
        LET b == rows[d].parent IN
        /\ Exists(d)
        /\ Web(r, "get", <<rows[b].parent, b, d>>, <<d, b, rows[b].parent>>, NoName)

-----------------------------------------------------------------------------
\* BucketCtx and DocumentCtx compare the parent of the row with the row that
\* the request loaded before; the web interface does not.
BelongsAnywhere(r, id) == TRUE  \* mutant
Belongs(r, id) == local[r].via = "api" => rows[id].parent = local[r].loaded

\* The reply is sent and the slot free again.
Return(r) ==
    /\ pc' = [pc EXCEPT ![r] = "idle"]
    /\ local' = [local EXCEPT ![r] = NoLocal]
    /\ doomed' = [doomed EXCEPT ![r] = FALSE]
    /\ together' = [together EXCEPT ![r] = FALSE]
    /\ applied' = [applied EXCEPT ![r] = FALSE]

\* The SELECTs skip deleted rows.
VisibleDeletedProject(id) == Live(id) \/ (id \in Projects /\ Exists(id))  \* mutant
Visible(id) == Live(id)

\* A row is looked up: by ProjectCtx, BucketCtx, DocumentCtx or a web handler.
Load(r) ==
    LET id == Head(local[r].todo)
        rest == Tail(local[r].todo) IN
    /\ pc[r] = "load"
    /\ \/ /\ Visible(id) /\ Belongs(r, id)
          /\ local' = [local EXCEPT ![r].todo = rest, ![r].loaded = id]
          /\ together' = [together EXCEPT ![r] =
                IF local[r].loaded = Root THEN InPlace(local[r].path) ELSE @]
          /\ Goto(r, IF rest # <<>> THEN "load"
                     ELSE IF local[r].op = "get" THEN "ok" ELSE local[r].op)
          /\ UNCHANGED <<doomed, applied>>
       \/ /\ ~(Visible(id) /\ Belongs(r, id))
          /\ Return(r)
    /\ UNCHANGED rows

\* UNIQUE (parent, name): another row has the name there, deleted or not.
TakenByLive(id, parent, name) ==  \* mutant
    \E other \in Ids \ {id} : /\ Live(other)
                             /\ rows[other].parent = parent
                             /\ rows[other].name = name
Taken(id, parent, name) ==
    \E other \in Ids \ {id} : /\ Exists(other)
                             /\ rows[other].parent = parent
                             /\ rows[other].name = name

\* The new row keeps a parent that may be deleted by now.
Insert(r, table) ==
    /\ pc[r] = "create"
    /\ Target(r) \in Parents(table)
    /\ \E id \in table :
          /\ ~Exists(id)
          /\ \/ /\ ~Taken(id, Target(r), local[r].name)
                /\ rows' = [rows EXCEPT ![id] = [status |-> "live",
                        name |-> local[r].name, parent |-> Target(r)]]
                /\ local' = [local EXCEPT ![r].loaded = id]
                /\ Goto(r, "reread")
                /\ UNCHANGED history
             \/ /\ Taken(id, Target(r), local[r].name)
                /\ Return(r)
                /\ UNCHANGED rows

CreateProject(r) == Insert(r, Projects)
CreateBucket(r) == Insert(r, Buckets)
CreateDocument(r) == Insert(r, Documents)

\* Mutant: the UPDATE has lost its "deleted_at IS NULL".
RenameDeleted(r, table) ==
    LET id == Target(r) IN
    /\ pc[r] = "update"
    /\ id \in table
    /\ ~Taken(id, rows[id].parent, local[r].name)
    /\ rows' = [rows EXCEPT ![id].name = local[r].name]
    /\ applied' = [applied EXCEPT ![r] = TRUE]
    /\ local' = [local EXCEPT ![r].loaded = id]
    /\ Goto(r, "reread")
    /\ UNCHANGED <<doomed, together>>

\* UPDATE ... SET name=? WHERE id=? AND deleted_at IS NULL; that no row was
\* updated is not noticed.
Rename(r, table) ==
    LET id == Target(r) IN
    /\ pc[r] = "update"
    /\ id \in table
    /\ \/ /\ Live(id)
          /\ ~Taken(id, rows[id].parent, local[r].name)
          /\ rows' = [rows EXCEPT ![id].name = local[r].name]
          /\ applied' = [applied EXCEPT ![r] = TRUE]
          /\ local' = [local EXCEPT ![r].loaded = id]
          /\ Goto(r, "reread")
          /\ UNCHANGED <<doomed, together>>
       \/ /\ Live(id)
          /\ Taken(id, rows[id].parent, local[r].name)
          /\ Return(r)
          /\ UNCHANGED rows
       \/ /\ ~Live(id)
          /\ local' = [local EXCEPT ![r].loaded = id]
          /\ Goto(r, "reread")
          /\ UNCHANGED <<rows, history>>

UpdateProject(r) == Rename(r, Projects)
UpdateBucket(r) == Rename(r, Buckets)
RenameDocument(r) == Rename(r, Documents)

\* UPDATE ... SET deleted_at WHERE id=?: this row only, even if it was deleted.
SoftDelete(r, table) ==
    /\ pc[r] = "delete"
    /\ Target(r) \in table
    /\ rows' = [rows EXCEPT ![Target(r)].status = "deleted"]
    /\ Goto(r, "ok")
    /\ UNCHANGED <<local, history>>

DeleteProject(r) == SoftDelete(r, Projects)
DeleteBucket(r) == SoftDelete(r, Buckets)
DeleteDocument(r) == SoftDelete(r, Documents)

\* The row for the reply is read back; without one, the API answers "null"
\* with a success status and the web interface fails on a nil pointer.
FoundEvenDeleted(r) == Exists(local[r].loaded)  \* mutant
Found(r) == Live(local[r].loaded)
Reread(r, table) ==
    /\ pc[r] = "reread"
    /\ local[r].loaded \in table
    /\ Goto(r, IF Found(r) THEN "ok" ELSE "gone")
    /\ UNCHANGED <<rows, local, history>>

GetProject(r) == Reread(r, Projects)
GetBucket(r) == Reread(r, Buckets)
GetDocument(r) == Reread(r, Documents)

Reply(r) ==
    /\ pc[r] \in {"ok", "gone"}
    /\ Return(r)
    /\ UNCHANGED rows

\* Any statement may fail, and a request be given up, at any point.
Fail(r) ==
    /\ pc[r] # "idle"
    /\ Return(r)
    /\ UNCHANGED rows

-----------------------------------------------------------------------------
Arrive(r) ==
    \/ ProjectCreate(r) \/ ProjectGet(r) \/ ProjectUpdate(r) \/ ProjectDelete(r)
    \/ BucketCreate(r) \/ BucketGet(r) \/ BucketUpdate(r) \/ BucketDelete(r)
    \/ Upload(r) \/ DocumentGet(r) \/ DocumentUpdate(r) \/ DocumentDelete(r)
    \/ createProject(r) \/ deleteProject(r) \/ buckets(r)
    \/ createBucket(r) \/ bucketRowPartial(r) \/ updateBucket(r) \/ deleteBucket(r)
    \/ documents(r) \/ uploadDocument(r) \/ updateDocument(r) \/ deleteDocument(r)
    \/ documentRowPartial(r) \/ documentDetail(r)

Step(r) ==
    \/ Load(r) \/ Reply(r) \/ Fail(r)
    \/ CreateProject(r) \/ CreateBucket(r) \/ CreateDocument(r)
    \/ UpdateProject(r) \/ UpdateBucket(r) \/ RenameDocument(r)
    \/ DeleteProject(r) \/ DeleteBucket(r) \/ DeleteDocument(r)
    \/ GetProject(r) \/ GetBucket(r) \/ GetDocument(r)

Next == \E r \in Requests : Arrive(r) \/ Step(r)

Spec == Init /\ [][Next]_vars

-----------------------------------------------------------------------------
\* The request has loaded all the rows it had to.
Through(r) == pc[r] \in {"create", "update", "delete", "reread", "ok", "gone"}

(* A deletion hides all that is beneath the row at once, although the rows  *)
(* beneath stay live: a request of the API that arrives after a project,    *)
(* bucket or document of its path was deleted gets nothing and does nothing.*)
DeletionHides ==
    \A r \in Requests : local[r].via = "api" /\ Through(r) => ~doomed[r]

(* The rows of a path are loaded one after another while others are deleted *)
(* and created.  Yet a request that loads them all, down the path in the    *)
(* API or up from a document on its detail page, has seen a path that was   *)
(* in place as a whole at one instant, when it loaded the first of them.    *)
PathSeenTogether ==
    \A r \in Requests :
        /\ Through(r)
        /\ local[r].path # <<>>
        /\ local[r].via = "api" \/ (local[r].op = "get" /\ Len(local[r].path) = 3)
        => together[r]

(* UpdateProject and UpdateBucket do not look at the number of rows they    *)
(* updated, and whoever deletes the row meanwhile makes it none: the reply  *)
(* carries a row only if the row did get the name.                          *)
RenameAcknowledged ==
    \A r \in Requests : pc[r] = "ok" /\ local[r].op = "update" => applied[r]

(* The name of a deleted row stays taken in its parent: no other row ever   *)
(* has it there (UNIQUE covers deleted rows, the lookups skip them).        *)
NamesStayTaken ==
    \A a, b \in Ids :
        /\ a # b /\ Exists(a) /\ Exists(b)
        /\ rows[a].parent = rows[b].parent
        => rows[a].name # rows[b].name

(* A deleted row is never revived nor renamed, a row never moves to another *)
(* parent, and no row vanishes: requests that hold a loaded row rely on it. *)
RowsOnlyAge ==
    [][\A id \in Ids :
        /\ Exists(id) => rows'[id].parent = rows[id].parent /\ rows'[id].status # "none"
        /\ rows[id].status = "deleted" => rows'[id] = rows[id]]_vars
=============================================================================
