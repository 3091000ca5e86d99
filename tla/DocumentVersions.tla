-------------------------- MODULE DocumentVersions --------------------------
(***************************************************************************)
(* The life of documents and of their version snapshots under concurrent   *)
(* HTTP requests.  Two surfaces serve the same tables and the same content *)
(* store: the REST API (internal/api/documents.go), which takes a lock per *)
(* document around an update or a restore, and the web interface           *)
(* (internal/web/handlers.go), which takes none.  Every SQL statement,     *)
(* lock call and content-store call is a step of its own; between two      *)
(* steps any other request may run, and any step may fail (cancelled       *)
(* context, database error, crash of the node).                            *)
(*                                                                         *)
(* Abstracted: names, sizes and content types (a content stands for the    *)
(* storage key, which is the hash of the bytes), the extracted properties, *)
(* authentication, and the multipart parsing.                              *)
(***************************************************************************)
EXTENDS Integers, Sequences, FiniteSets

CONSTANTS
    Docs,        \* identifiers that CreateDocument may generate
    Contents,    \* file contents, identified with their storage keys
    Requests,    \* request slots: each serves one request after another
    Bucket,      \* the bucket all the documents live in
    Nobody,      \* "no request": a free lock
    Nothing,     \* an unset local variable
    Handlers,    \* the handlers clients call: pairs <<surface, operation>>
    ClusterLock, \* TRUE: PGLocker, FALSE: NoOpLocker
    SessionsBreak, \* the session of a lock may break under its handler
    MaxRows      \* bound: no update starts on a document with this many rows

AllHandlers ==
    ({"api", "web"} \X {"upload", "update", "restore", "delete", "download"})
        \cup {<<"api", "rename">>}

ASSUME HandlersAssumption == Handlers \subseteq AllHandlers
ASSUME ClusterLockAssumption == ClusterLock \in BOOLEAN /\ SessionsBreak \in BOOLEAN
ASSUME MaxRowsAssumption == MaxRows \in Nat
ASSUME IdsAssumption ==
    /\ Bucket \notin Docs
    /\ Nobody \notin Requests
    /\ Nothing \notin Docs
    /\ Nothing \notin Contents

VARIABLES
    docs,      \* table documents: [Docs -> [status, version, content]]
    versions,  \* table document_versions: the snapshot rows of a document
    blobs,     \* keys of the contents that are stored whole
    phantom,   \* keys that are not, after a fault of the store that went
               \* unnoticed: a Put of them is answered with success (BlobStore)
    lock,      \* holder of each advisory lock
    pc,        \* where each request is in its handler
    local,     \* local variables of its handler
    row,       \* the row its UpdateDocument has read (current)
    history    \* (history variable) the contents a document has had

vars == <<docs, versions, blobs, phantom, lock, pc, local, row, history>>
tables == <<docs, versions, blobs, phantom, history>>

NoRow == [status |-> "none", version |-> 0, content |-> Nothing]
NoLocal == [via |-> "none", op |-> "none", doc |-> Nothing,
            seen |-> Nothing, target |-> Nothing]

PCs == {"idle", "lock", "put", "insert", "read", "snapshot", "apply",
        "remove", "unlink", "fetch", "replied", "failed"}

LockKeys == Docs \cup {Bucket}

Live(d) == docs[d].status = "live"

(***************************************************************************)
(* The lock a handler takes: the API locks the bucket to upload and the    *)
(* document to update or restore; nobody else locks.                       *)
(***************************************************************************)
TakesLockUpdateOnly(via, op) == via = "api" /\ op \in {"upload", "update", "rename"}  \* mutant
TakesLockRestoreOnly(via, op) == via = "api" /\ op = "restore"  \* mutant
TakesLock(via, op) == via = "api" /\ op \in {"upload", "update", "rename", "restore"}

LockKey(l) == IF l.op = "upload" THEN Bucket ELSE l.doc

FirstStep(op) ==
    CASE op \in {"upload", "update"} -> "put"
      [] op \in {"rename", "restore"} -> "read"
      [] op = "delete" -> "remove"
      [] op = "download" -> "fetch"

Init ==
    /\ docs = [d \in Docs |-> NoRow]
    /\ versions = [d \in Docs |-> <<>>]
    /\ blobs = {}
    /\ phantom = {}
    /\ lock = [k \in LockKeys |-> Nobody]
    /\ pc = [r \in Requests |-> "idle"]
    /\ local = [r \in Requests |-> NoLocal]
    /\ row = [r \in Requests |-> NoRow]
    /\ history = [d \in Docs |-> <<>>]

Goto(r, label) == pc' = [pc EXCEPT ![r] = label]

-----------------------------------------------------------------------------
(***************************************************************************)
(* Arrival of a request.  DocumentCtx (API) or the handler itself (web)    *)
(* loads the row before any lock is taken: seen keeps the content that     *)
(* the request saw then.                                                   *)
(***************************************************************************)
Begin(r, via, op, d, seen, target) ==
    /\ pc[r] = "idle"
    /\ <<via, op>> \in Handlers
    /\ local' = [local EXCEPT ![r] =
                   [via |-> via, op |-> op, doc |-> d,
                    seen |-> seen, target |-> target]]
    /\ Goto(r, IF TakesLock(via, op) THEN "lock" ELSE FirstStep(op))
    /\ UNCHANGED <<tables, lock, row>>

\* Bound: there is an unused identifier for every upload in progress.
BeginUpload(r, via) ==
    /\ Cardinality({q \in Requests : local[q].op = "upload"})
          < Cardinality({d \in Docs : docs[d].status = "none"})
    /\ \E c \in Contents : Begin(r, via, "upload", Nothing, Nothing, c)

BeginUpdate(r, via, d) ==
    /\ Live(d)
    /\ Len(versions[d]) < MaxRows
    /\ \E c \in Contents : Begin(r, via, "update", d, docs[d].content, c)

\* A PUT without a file: the storage key of the loaded row is written back.
BeginRename(r, d) ==
    /\ Live(d)
    /\ Len(versions[d]) < MaxRows
    /\ Begin(r, "api", "rename", d, docs[d].content, docs[d].content)

\* VersionCtx reads the snapshot row to restore; such rows never change.
BeginRestore(r, via, d) ==
    /\ Live(d)
    /\ Len(versions[d]) < MaxRows
    /\ \E i \in 1 .. Len(versions[d]) :
          Begin(r, via, "restore", d, docs[d].content, versions[d][i].content)

BeginDelete(r, via, d) ==
    /\ Live(d)
    /\ Begin(r, via, "delete", d, docs[d].content, Nothing)

BeginDownload(r, via, d) ==
    /\ Live(d)
    /\ Begin(r, via, "download", d, docs[d].content, Nothing)

-----------------------------------------------------------------------------
(***************************************************************************)
(* locker.Lock: the PGLocker blocks while another session holds the key,   *)
(* the NoOpLocker returns at once and records nothing.                     *)
(***************************************************************************)
Lock(r) ==
    LET k == LockKey(local[r]) IN
    /\ pc[r] = "lock"
    /\ ClusterLock => lock[k] = Nobody
    /\ lock' = IF ClusterLock THEN [lock EXCEPT ![k] = r] ELSE lock
    /\ Goto(r, FirstStep(local[r].op))
    /\ UNCHANGED <<tables, local, row>>

\* storage.Put of the uploaded bytes, as BlobStore allows it: answered with
\* success it has stored them, or found them, or made a phantom of their key.
Put(r) ==
    LET c == local[r].target IN
    /\ pc[r] = "put"
    /\ \/ blobs' = blobs \cup {c} /\ phantom' = phantom \ {c}
       \/ c \notin blobs /\ blobs' = blobs /\ phantom' = phantom \cup {c}
    /\ Goto(r, IF local[r].op = "upload" THEN "insert" ELSE "read")
    /\ UNCHANGED <<docs, versions, lock, local, row, history>>

\* A Put that fails may leave a part of the content, in place of the whole.
PutSpoils(r) ==
    /\ pc[r] = "put"
    /\ blobs' = blobs \ {local[r].target}
    /\ phantom' = phantom \cup {local[r].target}
    /\ Goto(r, "failed")
    /\ UNCHANGED <<docs, versions, lock, local, row, history>>

\* Mutant: the key of the loaded row is used for that of the upload.
InsertWrongKey(r) ==
    /\ pc[r] = "insert"
    /\ \E d \in Docs :
          /\ docs[d].status = "none"
          /\ docs' = [docs EXCEPT ![d] =
                [status |-> "live", version |-> 1, content |-> local[r].seen]]
          /\ history' = [history EXCEPT ![d] = <<local[r].seen>>]
    /\ Goto(r, "replied")
    /\ UNCHANGED <<versions, blobs, phantom, lock, local, row>>

\* CreateDocument: the row is born live, with version 1 (column default).
Insert(r) ==
    /\ pc[r] = "insert"
    /\ \E d \in Docs :
          /\ docs[d].status = "none"
          /\ docs' = [docs EXCEPT ![d] =
                [status |-> "live", version |-> 1, content |-> local[r].target]]
          /\ history' = [history EXCEPT ![d] = <<local[r].target>>]
    /\ Goto(r, "replied")
    /\ UNCHANGED <<versions, blobs, phantom, lock, local, row>>

\* UpdateDocument, first statement: the row to snapshot, or "not found".
Read(r) ==
    LET d == local[r].doc IN
    /\ pc[r] = "read"
    /\ \/ /\ Live(d)
          /\ row' = [row EXCEPT ![r] = docs[d]]
          /\ Goto(r, "snapshot")
       \/ /\ ~Live(d)
          /\ Goto(r, "failed")
          /\ UNCHANGED row
    /\ UNCHANGED <<tables, lock, local>>

\* Mutant: the snapshot is taken of the new content.
SnapshotOfTarget(r) ==
    /\ pc[r] = "snapshot"
    /\ versions' = [versions EXCEPT ![local[r].doc] =
            Append(@, [version |-> row[r].version, content |-> local[r].target])]
    /\ Goto(r, "apply")
    /\ UNCHANGED <<docs, blobs, phantom, lock, local, row, history>>

\* Mutant: no snapshot when the uploaded bytes are those stored already.
SnapshotIfChanged(r) ==
    /\ pc[r] = "snapshot"
    /\ versions' = [versions EXCEPT ![local[r].doc] =
            IF row[r].content = local[r].target THEN @
            ELSE Append(@, [version |-> row[r].version, content |-> row[r].content])]
    /\ Goto(r, "apply")
    /\ UNCHANGED <<docs, blobs, phantom, lock, local, row, history>>

\* UpdateDocument, second statement: CreateDocumentVersion of the row read.
Snapshot(r) ==
    /\ pc[r] = "snapshot"
    /\ versions' = [versions EXCEPT ![local[r].doc] =
            Append(@, [version |-> row[r].version, content |-> row[r].content])]
    /\ Goto(r, "apply")
    /\ UNCHANGED <<docs, blobs, phantom, lock, local, row, history>>

\* Mutant: the UPDATE has lost its "deleted_at IS NULL".
ApplyToDeleted(r) ==
    /\ pc[r] = "apply"
    /\ docs' = [docs EXCEPT ![local[r].doc].version = @ + 1,
                            ![local[r].doc].content = local[r].target]
    /\ history' = [history EXCEPT ![local[r].doc] = Append(@, local[r].target)]
    /\ Goto(r, "replied")
    /\ UNCHANGED <<versions, blobs, phantom, lock, local, row>>

\* Mutant: "AND version=?" is added and the count of rows still ignored.
ApplyIfSameVersion(r) ==
    LET d == local[r].doc IN
    /\ pc[r] = "apply"
    /\ \/ /\ Live(d) /\ docs[d].version = row[r].version
          /\ docs' = [docs EXCEPT ![d] =
                [status |-> "live", version |-> docs[d].version + 1,
                 content |-> local[r].target]]
          /\ history' = [history EXCEPT ![d] = Append(@, local[r].target)]
       \/ /\ ~(Live(d) /\ docs[d].version = row[r].version)
          /\ UNCHANGED <<docs, history>>
    /\ Goto(r, "replied")
    /\ UNCHANGED <<versions, blobs, phantom, lock, local, row>>

\* UpdateDocument, third statement: SET ..., version=version+1 WHERE id=? AND
\* deleted_at IS NULL.  Whether a row matched is not looked at: the reply is
\* a success either way.
Apply(r) ==
    LET d == local[r].doc IN
    /\ pc[r] = "apply"
    /\ \/ /\ Live(d)
          /\ docs' = [docs EXCEPT ![d] =
                [status |-> "live", version |-> docs[d].version + 1,
                 content |-> local[r].target]]
          /\ history' = [history EXCEPT ![d] = Append(@, local[r].target)]
       \/ /\ ~Live(d)
          /\ UNCHANGED <<docs, history>>
    /\ Goto(r, "replied")
    /\ UNCHANGED <<versions, blobs, phantom, lock, local, row>>

\* Mutant: every surface removes the stored content.
SoftDeleteAndUnlink(r) ==
    /\ pc[r] = "remove"
    /\ docs' = [docs EXCEPT ![local[r].doc] =
          [status |-> "deleted", version |-> @.version, content |-> @.content]]
    /\ Goto(r, "unlink")
    /\ UNCHANGED <<versions, blobs, phantom, lock, local, row, history>>

\* DeleteDocument sets deleted_at; the web handler goes on to the content.
SoftDelete(r) ==
    /\ pc[r] = "remove"
    /\ docs' = [docs EXCEPT ![local[r].doc] =
          [status |-> "deleted", version |-> @.version, content |-> @.content]]
    /\ Goto(r, IF local[r].via = "web" THEN "unlink" ELSE "replied")
    /\ UNCHANGED <<versions, blobs, phantom, lock, local, row, history>>

\* The web handler's "best-effort storage cleanup" of the key it loaded.
Unlink(r) ==
    /\ pc[r] = "unlink"
    /\ blobs' = blobs \ {local[r].seen}
    /\ phantom' = phantom \ {local[r].seen}
    /\ Goto(r, "replied")
    /\ UNCHANGED <<docs, versions, lock, local, row, history>>

\* storage.Get of the key loaded: 200 (with a part, if that is what is there),
\* or 404 "content not found".
Fetch(r) ==
    /\ pc[r] = "fetch"
    /\ \/ local[r].seen \in blobs \cup phantom /\ Goto(r, "replied")
       \/ local[r].seen \notin blobs /\ Goto(r, "failed")
    /\ UNCHANGED <<tables, lock, local, row>>

\* Mutant: unlock is called at the end of the handler instead of deferred.
ReturnUndeferred(r) ==
    /\ pc[r] \in {"replied", "failed"}
    /\ lock' = [k \in LockKeys |->
                  IF lock[k] = r /\ pc[r] = "replied" THEN Nobody ELSE lock[k]]
    /\ local' = [local EXCEPT ![r] = NoLocal]
    /\ row' = [row EXCEPT ![r] = NoRow]
    /\ Goto(r, "idle")
    /\ UNCHANGED tables

\* The handler returns; the deferred unlock runs.
Return(r) ==
    /\ pc[r] \in {"replied", "failed"}
    /\ lock' = [k \in LockKeys |-> IF lock[k] = r THEN Nobody ELSE lock[k]]
    /\ local' = [local EXCEPT ![r] = NoLocal]
    /\ row' = [row EXCEPT ![r] = NoRow]
    /\ Goto(r, "idle")
    /\ UNCHANGED tables

\* Any statement or call may fail before it has an effect, the read-back of
\* the row before the reply included; the handler then takes its error return.
\* A crashed node is the same to the database, which drops the session and its
\* advisory locks.
Fail(r) ==
    /\ pc[r] \notin {"idle", "failed"}
    /\ Goto(r, "failed")
    /\ UNCHANGED <<tables, lock, local, row>>

\* The session that holds the lock breaks, and PostgreSQL drops the lock.  The
\* handler does not notice: its statements go through other connections.
LoseLock(r) ==
    /\ SessionsBreak
    /\ \E k \in LockKeys : /\ lock[k] = r
                           /\ lock' = [lock EXCEPT ![k] = Nobody]
    /\ UNCHANGED <<tables, pc, local, row>>

-----------------------------------------------------------------------------
Arrive(r) ==
    \/ \E via \in {"api", "web"} :
          \/ BeginUpload(r, via)
          \/ \E d \in Docs : \/ BeginUpdate(r, via, d)
                             \/ BeginRestore(r, via, d)
                             \/ BeginDelete(r, via, d)
                             \/ BeginDownload(r, via, d)
    \/ \E d \in Docs : BeginRename(r, d)

Step(r) ==
    \/ Lock(r) \/ Put(r) \/ Insert(r)
    \/ Read(r) \/ Snapshot(r) \/ Apply(r)
    \/ SoftDelete(r) \/ Unlink(r) \/ Fetch(r)
    \/ Return(r)

Next == \E r \in Requests :
    Arrive(r) \/ Step(r) \/ PutSpoils(r) \/ Fail(r) \/ LoseLock(r)

Spec == Init /\ [][Next]_vars

(***************************************************************************)
(* A handler that can go on does: Go runs every goroutine (weak fairness). *)
(* PostgreSQL queues the sessions that wait for an advisory lock, so that  *)
(* no waiter is overtaken for ever (strong fairness of Lock).  Failures,   *)
(* and with them the timeouts that would end a wait, are not assumed.      *)
(***************************************************************************)
FairSpec ==
    /\ Spec
    /\ \A r \in Requests : WF_vars(Step(r)) /\ SF_vars(Lock(r))

-----------------------------------------------------------------------------
Rows == [status : {"none", "live", "deleted"},
         version : Nat,
         content : Contents \cup {Nothing}]

Locals == [via : {"none", "api", "web"},
           op : {"none", "upload", "update", "rename", "restore", "delete", "download"},
           doc : Docs \cup {Nothing},
           seen : Contents \cup {Nothing},
           target : Contents \cup {Nothing}]

SnapshotRows == [version : Nat, content : Contents]

(* Every variable has its type: rows, snapshot rows, lock table, locals.   *)
TypeOK ==
    /\ docs \in [Docs -> Rows]
    /\ versions \in [Docs -> Seq(SnapshotRows)]
    /\ blobs \subseteq Contents
    /\ phantom \subseteq Contents
    /\ lock \in [LockKeys -> Requests \cup {Nobody}]
    /\ pc \in [Requests -> PCs]
    /\ local \in [Requests -> Locals]
    /\ row \in [Requests -> Rows]
    /\ history \in [Docs -> Seq(Contents)]

(* A snapshot row never lies: whatever the interleaving, the surfaces and  *)
(* the failures, the row filed under version v holds the content the       *)
(* document really had as version v (UpdateDocument copies the row it      *)
(* read, and only "version=version+1" changes a content).                  *)
SnapshotsTruthful ==
    \A d \in Docs : \A i \in 1 .. Len(versions[d]) :
        LET s == versions[d][i] IN
        /\ s.version \in 1 .. Len(history[d])
        /\ s.content = history[d][s.version]

(* Lossless history: every version a document has left behind is in        *)
(* document_versions, so that each update can be undone by a restore.      *)
HistoryComplete ==
    \A d \in Docs : \A v \in 1 .. (docs[d].version - 1) :
        \E i \in 1 .. Len(versions[d]) : versions[d][i].version = v

\* What the content store answers for: BlobStore promises nothing of phantoms.
Kept == blobs \cup phantom

(* The content store holds every key that a row of documents or of         *)
(* document_versions names, deleted documents included (their snapshots    *)
(* are kept), and every key a download is about to open; unless a fault of *)
(* the store itself made a phantom of it.                                  *)
ReferencedContentPresent ==
    /\ \A d \in Docs :
          /\ docs[d].status # "none" => docs[d].content \in Kept
          /\ \A i \in 1 .. Len(versions[d]) : versions[d][i].content \in Kept
    /\ \A r \in Requests : pc[r] = "fetch" => local[r].seen \in Kept


(* No update works from a stale row: when UpdateDocument is about to write, *)
(* the row it snapshotted is still the current version.                    *)
NoLostUpdate ==
    \A r \in Requests :
        pc[r] \in {"snapshot", "apply"} =>
            row[r].version = docs[local[r].doc].version

(* A soft-deleted document is frozen: an update or a restore that was in   *)
(* flight when the document was deleted changes nothing any more.          *)
DeletedFrozen ==
    [][\A d \in Docs : docs[d].status = "deleted" => docs'[d] = docs[d]]_vars

(* Every request is answered, without the help of a timeout: no handler    *)
(* keeps a lock that another one waits for, error paths included.          *)
EveryRequestAnswered ==
    \A r \in Requests : pc[r] # "idle" ~> pc[r] = "idle"

(* A request that changes a document and is answered with success has      *)
(* taken effect, if the document is still there: its content is a version  *)
(* younger than the one it has read, and snapshotted.                      *)
AcknowledgedUpdateApplied ==
    \A r \in Requests :
        LET d == local[r].doc IN
        (pc[r] = "replied" /\ local[r].op \in {"update", "rename", "restore"} /\ Live(d))
            => \E v \in (row[r].version + 1) .. Len(history[d]) :
                  history[d][v] = local[r].target

-----------------------------------------------------------------------------
(***************************************************************************)
(* The promise of VersionHistory, read back from the two tables alone: the *)
(* current row gives the last content, the snapshot rows the others.       *)
(***************************************************************************)
StoredContent(d, v) ==
    LET rows == {i \in 1 .. Len(versions[d]) : versions[d][i].version = v} IN
    IF v = docs[d].version THEN docs[d].content
    ELSE IF rows = {} THEN Nothing
    ELSE versions[d][CHOOSE i \in rows : TRUE].content

StoredHistory ==
    [d \in Docs |-> [v \in 1 .. docs[d].version |-> StoredContent(d, v)]]

DeletedDocs == {d \in Docs : docs[d].status = "deleted"}

VH == INSTANCE VersionHistory WITH hist <- StoredHistory, gone <- DeletedDocs

(* The tables implement the append-only history: nothing a client stored   *)
(* as a version is ever lost, reordered or rewritten.                      *)
ImplementsVersionHistory == VH!Spec

(* What the requests do with the lock is what KeyedLock allows, which is   *)
(* what AdvisoryLocks implements.                                          *)
KL == INSTANCE KeyedLock WITH Handlers <- Requests, Keys <- LockKeys, held <- lock
UsesKeyedLock == KL!Spec
=============================================================================
