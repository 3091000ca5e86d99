------------------------------ MODULE Listing ------------------------------
(***************************************************************************)
(* Lists are handed out in pages: a client of the REST API asks again at   *)
(* the next offset while the reply says has_more, a user of the web        *)
(* interface follows the link to the next page, and meanwhile others       *)
(* create, rename and delete rows.  A page is two statements, one that     *)
(* counts the rows and one that reads them.                                *)
(*                                                                         *)
(* Names are unique, versions and times of creation are not, and nothing   *)
(* else orders a list by them: equal rows come in another order with every *)
(* statement, if the database likes.                                       *)
(*                                                                         *)
(* Abstracted: columns and patterns (a filter is the set of rows that it   *)
(* matches).                                                               *)
(***************************************************************************)
EXTENDS SequencesExt, Integers

CONSTANTS
    N,                  \* a list has at most this many rows in its life
    Moment,             \* the version, or the time of creation, of each row
    Asked,              \* values of ?limit=
    DefaultPageLimit, MaxPageLimit,     \* 50 and 500; the audit trail's, too
    WebDefault, WebMax, \* 50 and 200
    Matching,           \* rows that the filter matches (the name, the event)
    Tagged              \* documents with the tag

\* Rows, by their place in a list by name.
Rows == 1 .. N

ASSUME NAssumption == N \in Nat
ASSUME MomentAssumption == Moment \in [Rows -> Nat]
ASSUME AskedAssumption == Asked \subseteq Int
ASSUME LimitsAssumption ==
    /\ DefaultPageLimit \in 1 .. MaxPageLimit /\ MaxPageLimit \in Nat
    /\ WebDefault \in 1 .. WebMax /\ WebMax \in 1 .. MaxPageLimit
ASSUME FiltersAssumption == Matching \subseteq Rows /\ Tagged \subseteq Rows

ByName == {"projects", "buckets", "documents", "users"}
NewestFirst == {"versions", "apiKeys", "audit"}
Renamed == {"projects", "buckets", "documents"}
Shrinking == ByName \cup {"apiKeys"}    \* versions and events are kept

VARIABLES
    list,   \* the list this is about
    rows,   \* its rows: "none" yet, "live" or "gone"
    walk,   \* the client's walk through it, and the request it waits for: the
            \* list it asks a store for, whose rows are counted, then read
    seen,   \* (history) the rows it was shown, in order
    past    \* (history) what has happened since it began

vars == <<list, rows, walk, seen, past>>

Filters == CASE list = "documents" -> {"all", "search", "tag", "both"}
             [] list = "audit" -> {"all", "search"}
             [] OTHER -> {"all"}

Hits(filter) == CASE filter = "all" -> Rows
                  [] filter = "search" -> Matching
                  [] filter = "tag" -> Tagged
                  [] filter = "both" -> Matching \cap Tagged

Live == {i \in Rows : rows[i] = "live"}

\* ORDER BY name, version DESC or created_at DESC: what comes before what, and
\* the orders in which a statement may find rows.
Before(name, i, j) == IF name \in ByName THEN i < j ELSE Moment[j] < Moment[i]
Sortings(name, found) ==
    {s \in SetToSeqs(found) : \A i, j \in DOMAIN s : i < j => ~Before(name, s[j], s[i])}

\* LIMIT ? OFFSET ?
Page(s, offset, limit) ==
    SubSeq(s, offset + 1, IF offset + limit < Len(s) THEN offset + limit ELSE Len(s))

NoWalk == [at |-> "done", via |-> "api", view |-> "list", filter |-> "all",
           store |-> "none", limit |-> 0, offset |-> 0, page |-> 1, total |-> 0, shown |-> <<>>]
NoPast == [kept |-> {}, inserted |-> FALSE, deleted |-> FALSE, torn |-> FALSE,
           failed |-> FALSE]

Init ==
    /\ list \in ByName \cup NewestFirst
    /\ rows \in [Rows -> {"none", "live"}]
    /\ walk = NoWalk
    /\ seen = <<>>
    /\ past = NoPast

-----------------------------------------------------------------------------
(***************************************************************************)
(* How limits and offsets are read, in the five places that do.            *)
(***************************************************************************)
NotNegative(offset) == IF offset < 0 THEN 0 ELSE offset
Clamp(limit, default, max) == IF limit <= 0 THEN default
                              ELSE IF limit > max THEN max ELSE limit

validated(p) == [limit |-> Clamp(p.limit, DefaultPageLimit, MaxPageLimit),
                 offset |-> NotNegative(p.offset)]
\* Mutant: the handler leaves the largest limit to the store.
pageParamsUncapped(p) == [limit |-> IF p.limit <= 0 THEN DefaultPageLimit ELSE p.limit,
                          offset |-> NotNegative(p.offset)]
pageParams(p) == [limit |-> Clamp(p.limit, DefaultPageLimit, MaxPageLimit),
                  offset |-> NotNegative(p.offset)]
\* The audit trail takes the default for a limit that is too large.
auditParams(p) == [limit |-> IF p.limit > MaxPageLimit THEN DefaultPageLimit
                             ELSE Clamp(p.limit, DefaultPageLimit, MaxPageLimit),
                   offset |-> NotNegative(p.offset)]
parsePage(p) == [limit |-> Clamp(p.limit, WebDefault, WebMax),
                 page |-> IF p.page < 1 THEN 1 ELSE p.page]

pageOffsetShort(page, limit) == (page - 1) * (limit - 1)  \* mutant
pageOffset(page, limit) == (page - 1) * limit

-----------------------------------------------------------------------------
(***************************************************************************)
(* The lists of the stores: the request p names the one it calls.          *)
(***************************************************************************)
List(name, hits, p) ==
    /\ walk.store = name
    /\ \/ /\ walk.at = "count"
          /\ walk' = [walk EXCEPT !.at = "rows", !.total = Cardinality(Live \cap hits)]
       \/ /\ walk.at = "rows"
          /\ \E found \in Sortings(list, Live \cap hits) :
                walk' = [walk EXCEPT !.at = "reply",
                                     !.shown = Page(found, p.offset, p.limit)]
    /\ UNCHANGED <<list, rows, seen, past>>

ListProjects == List("ListProjects", Rows, validated(walk))
ListBuckets == List("ListBuckets", Rows, validated(walk))
ListDocuments == List("ListDocuments", Rows, validated(walk))
SearchDocuments == List("SearchDocuments", Matching, validated(walk))
ListDocumentsByTag == List("ListDocumentsByTag", Tagged, validated(walk))
ListDocumentVersions == List("ListDocumentVersions", Rows, validated(walk))
ListUsers == List("ListUsers", Rows, validated(walk))
ListAPIKeys == List("ListAPIKeys", Rows, validated(walk))
AuditStoreList ==
    List("AuditList", IF walk.view = "auditEvents" \/ walk.via = "api"
                      THEN Hits(walk.filter) ELSE Rows, auditParams(walk))

-----------------------------------------------------------------------------
\* A walk begins, with or without a filter.
Begin ==
    /\ walk.at = "done"
    /\ \E via \in {"api", "web"}, filter \in Filters, limit \in Asked :
          /\ list = "versions" => via = "api"
          /\ walk' = [NoWalk EXCEPT
                !.at = "ask", !.via = via, !.filter = filter, !.limit = limit,
                !.view = IF via = "api" \/ filter = "all" THEN "list"
                         ELSE IF list = "documents" THEN "documentRows" ELSE "auditEvents"]
          /\ past' = [NoPast EXCEPT !.kept = Live \cap Hits(filter)]
    /\ seen' = <<>>
    /\ UNCHANGED <<list, rows>>

\* The handler reads limit and offset, and calls the store.
Ask(via, name, view, store, p) ==
    /\ walk.at = "ask"
    /\ walk.via = via /\ list = name /\ walk.view = view
    /\ walk' = [walk EXCEPT !.at = "count", !.store = store,
                            !.limit = p.limit, !.offset = p.offset]
    /\ UNCHANGED <<list, rows, seen, past>>

Api(name, store, p) == Ask("api", name, "list", store, p)

ProjectList == Api("projects", "ListProjects", pageParams(walk))
BucketList == Api("buckets", "ListBuckets", pageParams(walk))
\* A tag beats a name.
DocumentList ==
    Api("documents",
        CASE walk.filter \in {"tag", "both"} -> "ListDocumentsByTag"
          [] walk.filter = "search" -> "SearchDocuments"
          [] OTHER -> "ListDocuments", pageParams(walk))
ListVersions == Api("versions", "ListDocumentVersions", pageParams(walk))
UserList == Api("users", "ListUsers", pageParams(walk))
APIKeyList == Api("apiKeys", "ListAPIKeys", pageParams(walk))
AuditList == Api("audit", "AuditList", auditParams(walk))

Web(name, view, store) ==
    LET p == parsePage(walk) IN
    Ask("web", name, view, store,
        [limit |-> p.limit, offset |-> pageOffset(p.page, p.limit)])

projects == Web("projects", "list", "ListProjects")
buckets == Web("buckets", "list", "ListBuckets")
documents == Web("documents", "list", "ListDocuments")
users == Web("users", "list", "ListUsers")
apiKeys == Web("apiKeys", "list", "ListAPIKeys")
auditLog == Web("audit", "list", "AuditList")
auditEvents == Web("audit", "auditEvents", "AuditList")
documentRows ==
    Web("documents", "documentRows",
        IF walk.filter = "search" THEN "SearchDocuments" ELSE "ListDocumentsByTag")

-----------------------------------------------------------------------------
\* What the reply shows: of a page by tag, documentRows keeps the names that match.
MatchesOf(page) ==
    CHOOSE s \in Sortings("documents", Matching \cap {page[i] : i \in DOMAIN page}) : TRUE
Shown ==
    IF walk.view = "documentRows" /\ walk.filter = "both"
    THEN MatchesOf(walk.shown) ELSE walk.shown
Total ==
    IF walk.view = "documentRows" /\ walk.filter = "both" THEN Len(Shown) ELSE walk.total

\* The client is shown the page, and goes on at next if there is a next one.
Reply(more, next) ==
    /\ walk.at = "reply"
    /\ seen' = seen \o Shown
    /\ walk' = IF more THEN next ELSE [NoWalk EXCEPT !.filter = walk.filter, !.via = walk.via]
    /\ UNCHANGED <<list, rows, past>>

hasMoreEqual(offset, limit, total) == offset + limit <= total  \* mutant
hasMore(offset, limit, total) == offset + limit < total

writePaged ==
    /\ walk.via = "api"
    /\ Reply(hasMore(walk.offset, walk.limit, walk.total),
             [walk EXCEPT !.at = "ask", !.offset = walk.offset + walk.limit, !.shown = <<>>])

\* The page in the links is cut to the pages that there are; the query was not.
\* The links are those of the page: they leave documentRows and auditEvents.
newWebPagination ==
    LET totalPages == Max({(Total + walk.limit - 1) \div walk.limit, 1})
        page == Min({parsePage(walk).page, totalPages}) IN
    /\ walk.via = "web"
    /\ Reply(page < totalPages,
             [walk EXCEPT !.at = "ask", !.view = "list", !.page = page + 1, !.shown = <<>>])

\* A statement fails: the API replies 500, the web interface shows no rows.
Fail ==
    /\ walk.at \in {"count", "rows"}
    /\ walk' = [NoWalk EXCEPT !.filter = walk.filter, !.via = walk.via]
    /\ past' = [past EXCEPT !.failed = TRUE]
    /\ UNCHANGED <<list, rows, seen>>

-----------------------------------------------------------------------------
\* Others change the list; between the statements of a page, this tears it.
Between == walk.at = "rows"

\* At any place: an old version may be kept late, and clocks differ.
Insert(i) ==
    /\ rows[i] = "none"
    /\ rows' = [rows EXCEPT ![i] = "live"]
    /\ past' = [past EXCEPT !.inserted = TRUE, !.torn = @ \/ Between]
    /\ UNCHANGED <<list, walk, seen>>

Delete(i) ==
    /\ list \in Shrinking
    /\ rows[i] = "live"
    /\ rows' = [rows EXCEPT ![i] = "gone"]
    /\ past' = [past EXCEPT !.deleted = TRUE, !.kept = @ \ {i}, !.torn = @ \/ Between]
    /\ UNCHANGED <<list, walk, seen>>

\* A new name: to a list the row leaves one place and appears at another.
Rename(i, j) ==
    /\ list \in Renamed
    /\ rows[i] = "live" /\ rows[j] = "none"
    /\ rows' = [rows EXCEPT ![i] = "none", ![j] = "live"]
    /\ past' = [past EXCEPT !.inserted = TRUE, !.deleted = TRUE, !.kept = @ \ {i},
                            !.torn = @ \/ Between]
    /\ UNCHANGED <<list, walk, seen>>

Store ==
    \/ ListProjects \/ ListBuckets \/ ListDocuments \/ SearchDocuments
    \/ ListDocumentsByTag \/ ListDocumentVersions
    \/ ListUsers \/ ListAPIKeys \/ AuditStoreList

Handler ==
    \/ ProjectList \/ BucketList \/ DocumentList \/ ListVersions
    \/ UserList \/ APIKeyList \/ AuditList
    \/ projects \/ buckets \/ documents \/ documentRows
    \/ users \/ apiKeys \/ auditLog \/ auditEvents

Next ==
    \/ Begin \/ Handler \/ Store \/ writePaged \/ newWebPagination \/ Fail
    \/ \E i \in Rows : Insert(i) \/ Delete(i)
    \/ \E i, j \in Rows : Rename(i, j)

Spec == Init /\ [][Next]_vars

-----------------------------------------------------------------------------
\* The walks that stay in one list: those with a filter leave it in the web
\* interface, and by tag and name the API goes by the tag.
OneList == walk.filter = "all" \/ (walk.via = "api" /\ walk.filter # "both")
Finished == walk.at = "done" /\ ~past.failed

\* The places where a row may come among those that were found, and the rows
\* that no other can equal, whose place is certain.
InPlace(name, found, i, k) ==
    /\ Cardinality({j \in found : Before(name, j, i)}) < k
    /\ k <= Cardinality({j \in found : ~Before(name, i, j)})
Alone(name, i) == \A j \in Rows \ {i} : Before(name, i, j) \/ Before(name, j, i)

(* While nobody writes, the pages are the list cut in pieces: limits that   *)
(* are defaulted and cut, in the handler and again in the store, offsets    *)
(* and totals fit, so that as many rows come as there are, each where its   *)
(* version, time or name puts it, and no page but that of an empty list is  *)
(* empty.  Of rows that are equal one may still come twice for another.     *)
QuietWalkExact ==
    OneList /\ ~past.inserted /\ ~past.deleted =>
        /\ \A k \in DOMAIN seen :
              seen[k] \in past.kept /\ InPlace(list, past.kept, seen[k], k)
        /\ Finished => Len(seen) = Cardinality(past.kept)
        /\ walk.at = "reply" /\ past.kept # {} => walk.shown # <<>>

(* Rows that appear push others towards the end of the list, never past the *)
(* reader: a walk skips no row that was there all the time, unless others   *)
(* may equal it, a row was deleted, or the list changed between the count   *)
(* and the rows of a page.                                                  *)
NoneSkipped ==
    Finished /\ OneList /\ ~past.deleted /\ ~past.torn =>
        {i \in past.kept : Alone(list, i)} \subseteq {seen[k] : k \in DOMAIN seen}

(* Rows that are deleted pull others towards the start, behind the reader:  *)
(* unless rows appear, no walk shows one twice but for those that others    *)
(* may equal.                                                               *)
NoneTwice ==
    OneList /\ ~past.inserted =>
        \A i, j \in DOMAIN seen : i # j /\ Alone(list, seen[i]) => seen[i] # seen[j]
=============================================================================
