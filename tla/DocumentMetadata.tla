-------------------------- MODULE DocumentMetadata --------------------------
(***************************************************************************)
(* The properties of one document (table document_properties): what the    *)
(* extraction from its content stores (internal/meta, through              *)
(* MergeDocumentProperties) and what users set, replace and delete one by  *)
(* one or all together.  Merge and replace are transactions of several     *)
(* statements, in the random order of a Go map; PostgreSQL runs them at    *)
(* READ COMMITTED and locks each row that one has written until it ends.   *)
(*                                                                         *)
(* Abstracted: the statements of an update and its content (Apply is that  *)
(* of DocumentVersions), deletion of the document, sessions that break     *)
(* under the holder of the lock, and the text of values: a value tells who *)
(* wrote it, a content it was extracted from, a request that replaced all  *)
(* properties, or a user who set this one.                                 *)
(***************************************************************************)

CONSTANTS
    Requests,    \* request slots: each serves one request after another
    Contents,    \* contents the document may have
    Keys,        \* property keys
    SysKeys,     \* those that begin with "sys."
    Extracted,   \* meta.Extract: the keys that it finds in a content
    Handlers,    \* the handlers clients call: pairs <<surface, operation>>
    User,        \* value of a property that a user set
    Absent,      \* no such row
    Nobody,      \* "no request"
    NoKey        \* "no key"

AllHandlers == {"api", "web"} \X {"update", "restore", "set", "delete"}
                  \cup {<<"api", "replace">>}

Values == Contents \cup Requests \cup {User}

ASSUME HandlersAssumption == Handlers \subseteq AllHandlers
\* The extractors write keys such as "image.width", without the prefix.
ASSUME ExtractedAssumption == Extracted \in [Contents -> SUBSET (Keys \ SysKeys)]
ASSUME ValuesAssumption ==
    /\ Contents \cap Requests = {}
    /\ User \notin Contents \cup Requests
    /\ Absent \notin Values
    /\ Nobody \notin Requests
    /\ NoKey \notin Keys

VARIABLES
    content,    \* the current content (documents.storage_key)
    props,      \* committed rows of document_properties
    lock,       \* holder of the lock "doc:<id>"
    pc,         \* where each request is in its handler
    local,      \* its operation and argument
    todo,       \* keys that its transaction has still to write
    at,         \* the key its current statement writes
    pending,    \* rows its transaction has written, and locks
    author,     \* (history) the request that stored the content
    described   \* (history) it has merged what it extracted, and the upload
                \* has not merged after it

vars == <<content, props, lock, pc, local, todo, at, pending, author, described>>
txs == <<todo, at, pending>>
table == <<content, props, author, described>>

PCs == {"idle", "lock", "apply", "scan", "deleting", "upserting", "single",
        "replied", "failed"}

NoLocal == [via |-> "none", op |-> "none", content |-> Nobody, keys |-> {}]
NoRows == [k \in {} |-> Absent]

Goto(r, label) == pc' = [pc EXCEPT ![r] = label]

\* The operations that lock the document: none of the web interface.
TakesLockUnlessUpdate(via, op) == via = "api" /\ op \in {"restore", "replace"}  \* mutant
TakesLockUnlessReplace(via, op) == via = "api" /\ op \in {"update", "restore"}  \* mutant
TakesLock(via, op) == via = "api" /\ op \in {"update", "restore", "replace"}

FirstStep(op) ==
    CASE op \in {"update", "restore"} -> "apply"
      [] op = "replace" -> "scan"
      [] op \in {"set", "delete"} -> "single"

(***************************************************************************)
(* The upload has created the row, under the lock of the bucket if at all; *)
(* the merge of what it extracted is to come, under no lock.               *)
(***************************************************************************)
Init ==
    /\ content \in Contents
    /\ author \in Requests
    /\ described = FALSE
    /\ props = [k \in Keys |-> Absent]
    /\ lock = Nobody
    /\ pc = [r \in Requests |->
               CASE r # author -> "idle"
                 [] r = author /\ Extracted[content] = {} -> "replied"
                 [] OTHER -> "upserting"]
    /\ local = [r \in Requests |->
                  IF r = author
                  THEN [via |-> "api", op |-> "upload", content |-> content, keys |-> {}]
                  ELSE NoLocal]
    /\ todo = [r \in Requests |-> IF r = author THEN Extracted[content] ELSE {}]
    /\ at = [r \in Requests |-> NoKey]
    /\ pending = [r \in Requests |-> NoRows]

-----------------------------------------------------------------------------
Begin(r, via, op, c, keys) ==
    /\ pc[r] = "idle"
    /\ <<via, op>> \in Handlers
    /\ local' = [local EXCEPT ![r] =
                    [via |-> via, op |-> op, content |-> c, keys |-> keys]]
    /\ Goto(r, IF TakesLock(via, op) THEN "lock" ELSE FirstStep(op))
    /\ UNCHANGED <<table, lock, txs>>

BeginUpdate(r, via) ==
    \E c \in Contents, op \in {"update", "restore"} : Begin(r, via, op, c, {})

\* Replace strips the reserved keys from what the client sends.
BeginReplace(r) ==
    \E keys \in SUBSET (Keys \ SysKeys) : Begin(r, "api", "replace", Nobody, keys)

\* The API refuses reserved keys, the web interface does not look.
BeginSingle(r, via) ==
    \E k \in Keys, op \in {"set", "delete"} :
        /\ via = "api" => k \notin SysKeys
        /\ Begin(r, via, op, Nobody, {k})

Lock(r) ==
    /\ pc[r] = "lock"
    /\ lock = Nobody
    /\ lock' = r
    /\ Goto(r, FirstStep(local[r].op))
    /\ UNCHANGED <<table, local, txs>>

\* UpdateDocument.  Only the API's Update goes on to merge what Extract has
\* found, and only if it has found something.
Apply(r) ==
    LET c == local[r].content
        found == IF local[r].via = "api" /\ local[r].op = "update"
                 THEN Extracted[c] ELSE {} IN
    /\ pc[r] = "apply"
    /\ content' = c
    /\ author' = r
    /\ described' = FALSE
    /\ todo' = [todo EXCEPT ![r] = found]
    /\ Goto(r, IF found = {} THEN "replied" ELSE "upserting")
    /\ UNCHANGED <<props, lock, local, at, pending>>

-----------------------------------------------------------------------------
\* SetDocumentProperties: its DELETE finds the rows committed when it starts.
Scan(r) ==
    /\ pc[r] = "scan"
    /\ todo' = [todo EXCEPT ![r] = {k \in Keys \ SysKeys : props[k] # Absent}]
    /\ Goto(r, "deleting")
    /\ UNCHANGED <<table, lock, local, at, pending>>

\* The DELETE comes to its next row, or the loop sends its next upsert.
Pick(r) ==
    /\ pc[r] \in {"deleting", "upserting"}
    /\ at[r] = NoKey
    /\ \E k \in todo[r] : at' = [at EXCEPT ![r] = k]
    /\ UNCHANGED <<table, lock, pc, local, todo, pending>>

\* A row written by a transaction is locked until it ends.
RowFree(r, k) == \A q \in Requests \ {r} : k \notin DOMAIN pending[q]

Written(r, k, v) == [pending EXCEPT ![r] = [j \in DOMAIN @ \cup {k} |-> IF j = k THEN v ELSE @[j]]]

\* A row that was deleted while the DELETE waited for it is passed over.
DeleteRow(r) ==
    /\ pc[r] = "deleting"
    /\ at[r] # NoKey
    /\ RowFree(r, at[r])
    /\ pending' = IF props[at[r]] = Absent THEN pending ELSE Written(r, at[r], Absent)
    /\ todo' = [todo EXCEPT ![r] = @ \ {at[r]}]
    /\ at' = [at EXCEPT ![r] = NoKey]
    /\ UNCHANGED <<table, lock, pc, local>>

DeleteEnds(r) ==
    /\ pc[r] = "deleting"
    /\ todo[r] = {}
    /\ todo' = [todo EXCEPT ![r] = local[r].keys]
    /\ Goto(r, "upserting")
    /\ UNCHANGED <<table, lock, local, at, pending>>

Merges(r) == local[r].op # "replace"

Value(r) == IF Merges(r) THEN local[r].content ELSE r

\* INSERT ... ON CONFLICT DO UPDATE, in Set- and MergeDocumentProperties.
Upsert(r) ==
    /\ pc[r] = "upserting"
    /\ at[r] # NoKey
    /\ RowFree(r, at[r])
    /\ pending' = Written(r, at[r], Value(r))
    /\ todo' = [todo EXCEPT ![r] = @ \ {at[r]}]
    /\ at' = [at EXCEPT ![r] = NoKey]
    /\ UNCHANGED <<table, lock, pc, local>>

\* What is merged last describes the content only if whoever stored it merges:
\* a late upload writes over what an update has extracted.
Commit(r) ==
    /\ pc[r] = "upserting"
    /\ todo[r] = {}
    /\ props' = [k \in Keys |-> IF k \in DOMAIN pending[r] THEN pending[r][k] ELSE props[k]]
    /\ pending' = [pending EXCEPT ![r] = NoRows]
    /\ described' = IF Merges(r) /\ author = r THEN TRUE
                    ELSE described /\ local[r].op # "upload"
    /\ Goto(r, "replied")
    /\ UNCHANGED <<content, author, lock, local, todo, at>>

\* Set- or DeleteDocumentProperty.  The DELETE waits for no row but one that it
\* sees.
Single(r) ==
    /\ pc[r] = "single"
    /\ \E k \in local[r].keys :
          /\ RowFree(r, k) \/ (local[r].op = "delete" /\ props[k] = Absent)
          /\ props' = [props EXCEPT ![k] = IF local[r].op = "set" THEN User ELSE Absent]
    /\ Goto(r, "replied")
    /\ UNCHANGED <<content, author, described, lock, local, txs>>

-----------------------------------------------------------------------------
\* A statement fails (PostgreSQL ends deadlocks this way), the context is
\* cancelled or the node crashes: the transaction is rolled back.
Fail(r) ==
    /\ pc[r] \notin {"idle", "replied", "failed"}
    /\ todo' = [todo EXCEPT ![r] = {}]
    /\ at' = [at EXCEPT ![r] = NoKey]
    /\ pending' = [pending EXCEPT ![r] = NoRows]
    /\ Goto(r, "failed")
    /\ UNCHANGED <<table, lock, local>>

Return(r) ==
    /\ pc[r] \in {"replied", "failed"}
    /\ lock' = IF lock = r THEN Nobody ELSE lock
    /\ local' = [local EXCEPT ![r] = NoLocal]
    /\ Goto(r, "idle")
    /\ UNCHANGED <<table, txs>>

-----------------------------------------------------------------------------
Arrive(r) ==
    \/ \E via \in {"api", "web"} : BeginUpdate(r, via) \/ BeginSingle(r, via)
    \/ BeginReplace(r)

Step(r) ==
    \/ Lock(r) \/ Apply(r) \/ Scan(r) \/ Pick(r)
    \/ DeleteRow(r) \/ DeleteEnds(r) \/ Upsert(r) \/ Commit(r)
    \/ Single(r) \/ Return(r)

Next == \E r \in Requests : Arrive(r) \/ Step(r) \/ Fail(r)

Spec == Init /\ [][Next]_vars

-----------------------------------------------------------------------------
Locals == [via : {"none", "api", "web"},
           op : {"none", "upload", "update", "restore", "replace", "set", "delete"},
           content : Contents \cup {Nobody},
           keys : SUBSET Keys]

TypeOK ==
    /\ content \in Contents
    /\ props \in [Keys -> Values \cup {Absent}]
    /\ lock \in Requests \cup {Nobody}
    /\ pc \in [Requests -> PCs]
    /\ local \in [Requests -> Locals]
    /\ todo \in [Requests -> SUBSET Keys]
    /\ at \in [Requests -> Keys \cup {NoKey}]
    /\ pending \in [Requests -> UNION {[S -> Values \cup {Absent}] : S \in SUBSET Keys}]
    /\ author \in Requests \cup {Nobody}
    /\ described \in BOOLEAN

(* A PUT of all properties is atomic: the table never mixes the rows of    *)
(* two of them, although a DELETE does not see what another transaction    *)
(* has inserted and not committed.                                         *)
ReplacesNeverMix ==
    \A j, k \in Keys :
        (props[j] \in Requests /\ props[k] \in Requests) => props[j] = props[k]

(* The extracted properties describe the current content: once the request *)
(* that stored it has merged them, none of them comes from another content *)
(* until the upload's late merge, if it is still to come, whatever other   *)
(* late merges, restores and web updates go on.                            *)
ExtractionCurrent ==
    described =>
        \A k \in Extracted[content] :
            props[k] \in Contents => props[k] = content

WaitsFor(r, q) ==
    \/ pc[r] = "lock" /\ lock = q
    \/ at[r] \in DOMAIN pending[q] /\ r # q
    \/ pc[r] = "single" /\ local[r].keys \cap DOMAIN pending[q] # {}

(* Requests wait for one another in a circle, for the lock or for rows,    *)
(* only if the upload is one of them: all other transactions over several  *)
(* rows hold the lock, in whatever order they go through their keys.       *)
OnlyUploadsDeadlock ==
    \A S \in (SUBSET {r \in Requests : local[r].op # "upload"}) \ {{}} :
        \E r \in S : \A q \in S : ~WaitsFor(r, q)
=============================================================================
