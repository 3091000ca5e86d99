------------------------------- MODULE Rights -------------------------------
(***************************************************************************)
(* The rights of one user or API key on a project, its buckets and their   *)
(* documents: administrators grant and remove them in the web interface,   *)
(* one by one or copied down a hierarchy, while the principal's requests   *)
(* to the API are judged by them and others create and delete what they    *)
(* are about.  (Rows of different principals never meet: one is enough.)   *)
(*                                                                         *)
(* Abstracted: the principal's own account (Accounts), groups (no code     *)
(* fills them), the order of names in a list that is cut off at its limit, *)
(* and the lookups of the path, of which only the outcome matters here     *)
(* (Catalog has them one by one).                                          *)
(***************************************************************************)
EXTENDS FiniteSets, Integers

CONSTANTS
    Admins,         \* slots for cascades of administrators
    Project,        \* the project
    Buckets,        \* buckets it may have
    Documents,      \* documents these may have
    BucketOf,       \* where each document would go
    Every,          \* "*": every resource of a type
    Wild,           \* types with such a row
    Calls,          \* what the principal asks for: pairs <<action, target>>
    Levels,         \* levels administrators choose from
    Given,          \* rows there are from the start: level of each target
    Mode,           \* PermMode: "explicit" or "open"
    MaxPageLimit    \* longest list the store returns

Actions == {"create", "read", "update", "delete"}
Absent == {"no row"}    \* in place of a set of actions
Types == {"project", "bucket", "document"}
Resources == {Project} \cup Buckets \cup Documents
Children == Buckets \cup Documents

\* Targets of rights: <<type, id>>.
Of(id) == IF id = Project THEN <<"project", id>>
          ELSE IF id \in Buckets THEN <<"bucket", id>> ELSE <<"document", id>>
Targets == {Of(id) : id \in Resources} \cup {<<t, Every>> : t \in Wild}

\* The routes ask about every resource to list and to create, else about one.
Routes == {c \in Actions \X Targets :
             IF c[2][2] = Every THEN c[1] \in {"create", "read"} ELSE c[1] # "create"}

ASSUME CallsAssumption == Calls \subseteq Routes
ASSUME LevelsAssumption == Levels \subseteq {"read", "create", "update", "delete", "none"}
ASSUME WildAssumption == Wild \subseteq Types
ASSUME ModeAssumption == Mode \in {"explicit", "open"}
ASSUME LimitAssumption == MaxPageLimit \in Nat \ {0}
ASSUME BucketOfAssumption == BucketOf \in [Documents -> Buckets]
ASSUME FiniteAssumption == IsFiniteSet(Buckets) /\ IsFiniteSet(Documents)
ASSUME ResourcesAssumption ==
    /\ Project \notin Children /\ Every \notin Resources
    /\ Buckets \cap Documents = {}

VARIABLES
    status,     \* of the project, buckets and documents
    rights,     \* the table: the actions that the row of a target allows
    pc, local,  \* the cascades of administrators
    todo,       \* rows a cascade has still to write
    listing,    \* buckets whose documents it has still to list
    due,        \* (history) children it found and nobody has touched since
    call,       \* the request of the principal
    may         \* (history) its action was allowed at some instant since

vars == <<status, rights, pc, local, todo, listing, due, call, may>>

NoLocal == [flags |-> {}, bucket |-> Every, cut |-> FALSE]
NoCall == [at |-> "idle", action |-> "read", target |-> <<"project", Every>>,
           verdicts |-> {}, lost |-> FALSE]

\* permLevelToFlags: each level implies the ones below.
FlagsOf(level) ==
    CASE level = "delete" -> {"create", "read", "update", "delete"}
      [] level = "update" -> {"create", "read", "update"}
      [] level = "create" -> {"create", "read"}
      [] level = "read" -> {"read"}
      [] OTHER -> {}

Live(id) == status[id] = "live"
LiveBuckets == {b \in Buckets : Live(b)}
LiveDocuments(b) == {d \in Documents : BucketOf[d] = b /\ Live(d)}

Init ==
    /\ status \in [Resources -> {"none", "live"}]
    /\ status[Project] = "live"
    /\ \A d \in Documents : status[d] = "live" => status[BucketOf[d]] = "live"
    /\ rights = [t \in Targets |->
            IF t \in DOMAIN Given THEN FlagsOf(Given[t]) ELSE Absent]
    /\ pc = [a \in Admins |-> "idle"]
    /\ local = [a \in Admins |-> NoLocal]
    /\ todo = [a \in Admins |-> {}]
    /\ listing = [a \in Admins |-> {}]
    /\ due = [a \in Admins |-> {}]
    /\ call = NoCall
    /\ may = FALSE

-----------------------------------------------------------------------------
(***************************************************************************)
(* What a set of rows allows.  The rows that count for a request name its  *)
(* type and its resource, or every resource; a request about no single     *)
(* resource, to list or to create, has the resource Every itself.          *)
(***************************************************************************)
Rows == {[target |-> t, flags |-> rights[t]] : t \in {u \in Targets : rights[u] # Absent}}

Matching(rows, target) ==
    {row \in rows : row.target[1] = target[1] /\ row.target[2] \in {target[2], Every}}

\* checkRights: some row grants the action.
checkRights(rows, action, target) ==
    \E row \in Matching(rows, target) : action \in row.flags

\* canOpen: the first row that counts decides, and the rows come in no order:
\* the possible verdicts.
canOpenExact(rows, action, target) ==  \* mutant: rows for every resource are skipped
    LET own == {row \in rows : row.target = target} IN
    IF own = {} THEN {TRUE} ELSE {(action \in row.flags) : row \in own}
canOpen(rows, action, target) ==
    IF Matching(rows, target) = {} THEN {TRUE}
    ELSE {(action \in row.flags) : row \in Matching(rows, target)}

Verdicts(rows, action, target) ==
    IF Mode = "open" THEN canOpen(rows, action, target)
    ELSE {checkRights(rows, action, target)}

(***************************************************************************)
(* The same without the code's search: a right on the resource or on all   *)
(* of its type grants the action, or, in open mode, there is none at all.  *)
(***************************************************************************)
Granted(table, action, target) ==
    LET own == {t \in Targets : t \in {target, <<target[1], Every>>} /\ table[t] # Absent} IN
    \/ \E t \in own : action \in table[t]
    \/ Mode = "open" /\ own = {}

\* A row is written, replacing what it said, or removed: what it is about is
\* no longer due from any cascade but those of by.
Write(by, target, flags) ==
    /\ rights' = [rights EXCEPT ![target] = flags]
    /\ due' = [a \in Admins |-> IF a \in by THEN due[a]
                               ELSE {id \in due[a] : Of(id) # target}]
    /\ may' = (may \/ (/\ call.at # "idle"
                      /\ Granted(rights', call.action, call.target)))

-----------------------------------------------------------------------------
(***************************************************************************)
(* Requests of administrators, on the page of the principal (any target,   *)
(* live or not) or on that of a live resource.  One that writes a single   *)
(* row is a single step: what it looked up before only decides whether it  *)
(* writes.  Only a cascade takes a slot; to it, the other cascades are     *)
(* requests that write single rows.                                        *)
(***************************************************************************)
Goto(a, label) == pc' = [pc EXCEPT ![a] = label]

\* UpsertRight: the flags of the row are replaced.
UpsertRight(target, level) ==
    /\ Write({}, target, FlagsOf(level))
    /\ UNCHANGED <<status, pc, local, todo, listing, call>>

\* DeleteRight: this row alone; that there was none is not looked at.
DeleteRight(target) ==
    /\ Write({}, target, Absent)
    /\ UNCHANGED <<status, pc, local, todo, listing, call>>

\* The lookups of the path: 404, or 500 for a document, unless all are live.
LiveChain(id) ==
    /\ Live(id) /\ Live(Project)
    /\ id \in Documents => Live(BucketOf[id])

addUserRight == \E t \in Targets, l \in Levels : UpsertRight(t, l)
removeUserRight == \E t \in Targets : DeleteRight(t)
addAPIKeyRight == \E t \in Targets, l \in Levels : UpsertRight(t, l)
removeAPIKeyRight == \E t \in Targets : DeleteRight(t)

removeProjectRight == LiveChain(Project) /\ DeleteRight(Of(Project))
removeBucketRight == \E b \in Buckets : LiveChain(b) /\ DeleteRight(Of(b))
removeDocumentRight == \E d \in Documents : LiveChain(d) /\ DeleteRight(Of(d))

addDocumentRight ==
    \E d \in Documents, l \in Levels : LiveChain(d) /\ UpsertRight(Of(d), l)

\* The children that a cascade is to reach.
Beneath(id) ==
    IF id = Project
    THEN LiveBuckets \cup {d \in Documents : Live(d) /\ Live(BucketOf[d])}
    ELSE LiveDocuments(id)

\* A grant with the box "cascade" ticked goes on to what is beneath.
Cascade(a, id, level) ==
    /\ pc[a] = "idle"
    /\ LiveChain(id)
    /\ rights' = [rights EXCEPT ![Of(id)] = FlagsOf(level)]
    /\ due' = [c \in Admins |-> IF c = a THEN Beneath(id) ELSE due[c] \ {id}]
    /\ may' = (may \/ (/\ call.at # "idle"
                      /\ Granted(rights', call.action, call.target)))
    /\ local' = [local EXCEPT ![a] =
            [flags |-> FlagsOf(level), bucket |-> id, cut |-> FALSE]]
    /\ Goto(a, IF id = Project THEN "buckets" ELSE "documents")
    /\ UNCHANGED <<status, todo, listing, call>>

addProjectRight(a) ==
    \E l \in Levels :
        \/ LiveChain(Project) /\ UpsertRight(Of(Project), l)
        \/ Cascade(a, Project, l)
addBucketRight(a) ==
    \E b \in Buckets, l \in Levels :
        \/ LiveChain(b) /\ UpsertRight(Of(b), l)
        \/ Cascade(a, b, l)

-----------------------------------------------------------------------------
\* The first rows of a list, by name, as many as the limit lets through.
FirstPage(found) ==
    {page \in SUBSET found :
        Cardinality(page) = IF Cardinality(found) > MaxPageLimit THEN MaxPageLimit
                            ELSE Cardinality(found)}

Cut(a, found) == local' = [local EXCEPT ![a].cut = @ \/ Cardinality(found) > MaxPageLimit]

\* cascadeProjectRight: the buckets are listed once.
ListBuckets(a) ==
    /\ pc[a] = "buckets"
    /\ \E page \in FirstPage(LiveBuckets) : listing' = [listing EXCEPT ![a] = page]
    /\ Cut(a, LiveBuckets)
    /\ Goto(a, IF LiveBuckets = {} THEN "panel" ELSE "next")
    /\ UNCHANGED <<status, rights, todo, due, call, may>>

\* The row of a child is written, or that fails and nobody notices.
Copy(a, id) ==
    \/ Write({a}, Of(id), local[a].flags)
    \/ /\ due' = [due EXCEPT ![a] = @ \ {id}]
       /\ UNCHANGED <<rights, may>>

CopyToBucket(a) ==
    /\ pc[a] = "next"
    /\ \E b \in listing[a] :
          /\ Copy(a, b)
          /\ listing' = [listing EXCEPT ![a] = @ \ {b}]
          /\ local' = [local EXCEPT ![a].bucket = b]
    /\ Goto(a, "documents")
    /\ UNCHANGED <<status, todo, call>>

\* The documents of a bucket are listed when its turn comes.
ListDocuments(a) ==
    LET found == LiveDocuments(local[a].bucket) IN
    /\ pc[a] = "documents"
    /\ \E page \in FirstPage(found) : todo' = [todo EXCEPT ![a] = page]
    /\ Cut(a, found)
    /\ Goto(a, "copy")
    /\ UNCHANGED <<status, rights, listing, due, call, may>>

CopyToDocument(a) ==
    /\ pc[a] = "copy"
    /\ \E d \in todo[a] :
          /\ Copy(a, d)
          /\ todo' = [todo EXCEPT ![a] = @ \ {d}]
    /\ UNCHANGED <<status, pc, local, listing, call>>

\* Mutant: the documents of the first bucket end the cascade.
AdvanceToReply(a) ==
    /\ pc[a] = "copy"
    /\ todo[a] = {}
    /\ Goto(a, "panel")
    /\ UNCHANGED <<status, rights, local, todo, listing, due, call, may>>

\* No document of this bucket is left: the next bucket, or the reply.
Advance(a) ==
    /\ pc[a] = "copy"
    /\ todo[a] = {}
    /\ Goto(a, IF listing[a] = {} THEN "panel" ELSE "next")
    /\ UNCHANGED <<status, rights, local, todo, listing, due, call, may>>

\* The panel is read for the reply (resolveRightNames) and sent.
Reply(a) ==
    /\ pc[a] = "panel"
    /\ Goto(a, "idle")
    /\ local' = [local EXCEPT ![a] = NoLocal]
    /\ due' = [due EXCEPT ![a] = {}]
    /\ UNCHANGED <<status, rights, todo, listing, call, may>>

\* The request is given up (60 s timeout, crash) with part of its rows written.
GiveUp(a) ==
    /\ pc[a] # "idle"
    /\ Goto(a, "idle")
    /\ local' = [local EXCEPT ![a] = NoLocal]
    /\ todo' = [todo EXCEPT ![a] = {}]
    /\ listing' = [listing EXCEPT ![a] = {}]
    /\ due' = [due EXCEPT ![a] = {}]
    /\ UNCHANGED <<status, rights, call, may>>

-----------------------------------------------------------------------------
(***************************************************************************)
(* A request of the principal to the API: RightsCtx reads its rows, then   *)
(* CanMiddleware judges it by them, then the handler runs.  Of the rows    *)
(* read, the request keeps the verdicts that they admit.                   *)
(***************************************************************************)
Arrive ==
    /\ call.at = "idle"
    /\ \E c \in Calls :
          call' = [at |-> "rights", action |-> c[1], target |-> c[2],
                   verdicts |-> {}, lost |-> FALSE]
    /\ may' = Granted(rights, call'.action, call'.target)
    /\ UNCHANGED <<status, rights, pc, local, todo, listing, due>>

\* An error of the query is dropped: the request then has no rows.
RightsCtx ==
    /\ call.at = "rights"
    /\ \/ call' = [call EXCEPT !.at = "can",
                     !.verdicts = Verdicts(Rows, call.action, call.target)]
       \/ call' = [call EXCEPT !.at = "can", !.lost = TRUE,
                     !.verdicts = Verdicts({}, call.action, call.target)]
    /\ UNCHANGED <<status, rights, pc, local, todo, listing, due, may>>

CanMiddleware ==
    /\ call.at = "can"
    /\ \E verdict \in call.verdicts :
          \/ /\ verdict
             /\ call' = [call EXCEPT !.at = "handler", !.verdicts = {}]
             /\ UNCHANGED may
          \/ /\ ~verdict
             /\ call' = NoCall
             /\ may' = FALSE
    /\ UNCHANGED <<status, rights, pc, local, todo, listing, due>>

Handled ==
    /\ call.at = "handler"
    /\ call' = NoCall
    /\ may' = FALSE
    /\ UNCHANGED <<status, rights, pc, local, todo, listing, due>>

-----------------------------------------------------------------------------
(***************************************************************************)
(* Others create and delete what the rights are about; the rows stay.      *)
(***************************************************************************)
Create(id) ==
    /\ status[id] = "none"
    /\ Live(IF id \in Documents THEN BucketOf[id] ELSE Project)
    /\ status' = [status EXCEPT ![id] = "live"]
    /\ UNCHANGED <<rights, pc, local, todo, listing, due, call, may>>

Delete(id) ==
    /\ Live(id)
    /\ status' = [status EXCEPT ![id] = "deleted"]
    /\ due' = [a \in Admins |-> {c \in due[a] :
                    c # id /\ (c \in Documents => BucketOf[c] # id)}]
    /\ UNCHANGED <<rights, pc, local, todo, listing, call, may>>

Serve(a) ==
    \/ ListBuckets(a) \/ CopyToBucket(a)
    \/ ListDocuments(a) \/ CopyToDocument(a) \/ Advance(a) \/ Reply(a)

Ask ==
    \/ addUserRight \/ removeUserRight \/ addAPIKeyRight \/ removeAPIKeyRight
    \/ removeProjectRight \/ removeBucketRight \/ removeDocumentRight \/ addDocumentRight

Next ==
    \/ Ask
    \/ \E a \in Admins :
        addProjectRight(a) \/ addBucketRight(a) \/ Serve(a) \/ GiveUp(a)
    \/ \E id \in Resources : Create(id) \/ Delete(id)
    \/ Arrive \/ RightsCtx \/ CanMiddleware \/ Handled

Spec == Init /\ [][Next]_vars

-----------------------------------------------------------------------------
(* A cascade that reaches its reply has given its level to every child that *)
(* was there when it began and still is, unless the row could not be        *)
(* written, another request has set it since, or a list was cut off at its  *)
(* limit: what is created, deleted and granted meanwhile makes it skip no   *)
(* other.                                                                   *)
CascadeReaches ==
    \A a \in Admins :
        pc[a] = "panel" /\ ~local[a].cut =>
            \A id \in due[a] : rights[Of(id)] = local[a].flags

(* A request of the API is judged once, by rows that were read before, and  *)
(* the rows of a type and of one resource come in no order.  Yet its        *)
(* handler runs only if the rights allowed that at some instant since the   *)
(* request arrived, or their query failed.                                  *)
AdmissionJustified == call.at = "handler" /\ ~call.lost => may
=============================================================================
