------------------------------- MODULE Server -------------------------------
(***************************************************************************)
(* A node's process from start to exit: main prepares database, schema,    *)
(* storage, leadership and administrator one after another, serves, and on *)
(* a signal drains its handlers for at most 30 s before it stops leading   *)
(* and closes the database.  After a handler of the API has returned, the  *)
(* audit middleware starts a goroutine for the event; nobody waits for it. *)
(* The process may crash anywhere and be started again.                    *)
(*                                                                         *)
(* Abstracted: what handlers do (the other modules) but for one change and *)
(* one status, configuration values, and whose request it is.              *)
(***************************************************************************)
EXTENDS Integers, Sequences, FiniteSetsExt

CONSTANTS
    Requests,   \* requests, in any order and any run of the process
    Served      \* routes that they ask for

VARIABLES
    main,       \* what main is about to do
    listening,  \* the listener is open
    closed,     \* the database is closed (no handler can use it)
    expired,    \* the 30 s of the shutdown are over
    req,        \* each request: its route, where it is, whether its change is
                \* done, and whether its status is a success
    event,      \* its audit event: "none", "pending", "logged" or "lost"
    log         \* the table audit_log: <<request, action>>

serverVars == <<main, listening, closed, expired, req, event, log>>

-----------------------------------------------------------------------------
(***************************************************************************)
(* Routes of the API that change something, and names for what they do.    *)
(***************************************************************************)
Id == "{id}"    \* a segment that is a parameter
Project == <<"projects", Id>>
Bucket == Project \o <<"buckets", Id>>
Document == Bucket \o <<"documents", Id>>

OneRoutes == {<<method, path>> : method \in {"PUT", "DELETE", "GET"},
                                 path \in {Project, Bucket, Document}}
OtherRoutes ==
    {<<"POST", <<"projects">>>>, <<"POST", Project \o <<"buckets">>>>,
     <<"POST", Bucket \o <<"documents">>>>,
     <<"POST", Document \o <<"versions", Id, "restore">>>>,
     <<"PUT", Document \o <<"tags">>>>, <<"POST", Document \o <<"tags", Id>>>>,
     <<"DELETE", Document \o <<"tags", Id>>>>, <<"PUT", Document \o <<"properties">>>>,
     <<"PUT", Document \o <<"properties", Id>>>>,
     <<"DELETE", Document \o <<"properties", Id>>>>,
     <<"PATCH", <<"users", Id, "password">>>>, <<"POST", <<"apikeys">>>>,
     <<"POST", <<"apikeys", Id, "revoke">>>>}
Routes == OneRoutes \cup OtherRoutes

ASSUME ServedAssumption == Served \subseteq Routes

methodVerb(method) == CASE method = "POST" -> "create" [] method = "PUT" -> "update"
                        [] method = "DELETE" -> "delete" [] method = "PATCH" -> "patch"

singularize(s) == CASE s = "projects" -> "project" [] s = "buckets" -> "bucket"
                    [] s = "documents" -> "document" [] OTHER -> s

\* The last segment that is no parameter names the resource.
Named(path) == Max({i \in DOMAIN path : path[i] # Id})

deriveActionPlain(method, path) ==  \* mutant: collections are not told apart
    LET name == path[Named(path)] IN
    CASE name = "restore" -> <<"document", "version", "restore">>
      [] name = "tags" -> <<"document", "tag", IF method = "POST" THEN "add" ELSE "remove">>
      [] name = "properties" ->
            <<"document", "property", IF method = "PUT" THEN "set" ELSE "delete">>
      [] OTHER -> <<singularize(name), methodVerb(method)>>

deriveAction(method, path) ==
    LET name == path[Named(path)]
        collection == Named(path) = Len(path) IN
    CASE name = "restore" -> <<"document", "version", "restore">>
      [] name = "tags" ->
            <<"document", "tag", IF collection THEN "replace"
                                 ELSE IF method = "POST" THEN "add" ELSE "remove">>
      [] name = "properties" ->
            <<"document", "property", IF collection THEN "replace"
                                      ELSE IF method = "PUT" THEN "set" ELSE "delete">>
      [] OTHER -> <<singularize(name), methodVerb(method)>>

-----------------------------------------------------------------------------
NoRequest == [at |-> "new", route |-> <<"GET", Project>>, done |-> FALSE, ok |-> FALSE]

ServerInit ==
    /\ main = "down"
    /\ listening = FALSE
    /\ closed = TRUE
    /\ expired = FALSE
    /\ req = [r \in Requests |-> NoRequest]
    /\ event = [r \in Requests |-> "none"]
    /\ log = {}

Active == {r \in Requests : req[r].at \in {"handler", "middleware"}}
requests == <<req, event, log>>

\* The process ends: handlers are cut, events not yet written are lost.
Exit ==
    /\ main' = "down"
    /\ listening' = FALSE /\ closed' = TRUE /\ expired' = FALSE
    /\ req' = [r \in Requests |-> IF r \in Active THEN [req[r] EXCEPT !.at = "cut"] ELSE req[r]]
    /\ event' = [r \in Requests |-> IF event[r] = "pending" THEN "lost" ELSE event[r]]
    /\ UNCHANGED log

\* main goes from one thing to the next, or logs the error and exits.
Prepare(from, to) ==
    /\ main = from
    /\ \/ main' = to /\ UNCHANGED <<listening, closed, expired, requests>>
       \/ Exit

Load == Prepare("down", "open")
Open ==
    /\ main = "open"
    /\ \/ main' = "migrate" /\ closed' = FALSE /\ UNCHANGED <<listening, expired, requests>>
       \/ Exit
Migrate == Prepare("migrate", "storage")
NewStorage == Prepare("storage", "lead")
StartLeader == Prepare("lead", "bootstrap")
EnsureAdmin == Prepare("bootstrap", "serve")

\* The listener is opened by a goroutine, unless a shutdown comes first.
ListenAndServe ==
    /\ main = "serve" /\ ~listening
    /\ \/ listening' = TRUE /\ UNCHANGED <<main, closed, expired, requests>>
       \/ Exit

\* Mutant: the database is closed on the signal.
SignalCloses ==
    /\ main = "serve"
    /\ main' = "drain" /\ listening' = FALSE /\ closed' = TRUE
    /\ UNCHANGED <<expired, requests>>

\* SIGINT or SIGTERM: no new connections, and wait for the handlers.
Signal ==
    /\ main = "serve"
    /\ main' = "drain" /\ listening' = FALSE
    /\ UNCHANGED <<closed, expired, requests>>

\* Mutant: the shutdown waits for as long as it takes.
ShutdownPatient ==
    /\ main = "drain"
    /\ Active = {}
    /\ main' = "stopLeader"
    /\ UNCHANGED <<listening, closed, expired, requests>>

Shutdown ==
    /\ main = "drain"
    /\ \/ Active = {} /\ UNCHANGED expired
       \/ expired' = TRUE
    /\ main' = "stopLeader"
    /\ UNCHANGED <<listening, closed, requests>>

StopLeader ==
    /\ main = "stopLeader"
    /\ main' = "close"
    /\ UNCHANGED <<listening, closed, expired, requests>>

\* The deferred Close, and the end of main.
Close ==
    /\ main = "close" /\ ~closed
    /\ closed' = TRUE
    /\ UNCHANGED <<main, listening, expired, requests>>
Return == main = "close" /\ closed /\ Exit

Crash == main # "down" /\ Exit

-----------------------------------------------------------------------------
(***************************************************************************)
(* A request of the API.                                                   *)
(***************************************************************************)
Accept(r) ==
    /\ listening /\ req[r].at = "new"
    /\ \E route \in Served : req' = [req EXCEPT ![r].at = "handler", ![r].route = route]
    /\ UNCHANGED <<main, listening, closed, expired, event, log>>

\* The handler's change is committed; it may have found nothing to change.
Change(r) ==
    /\ req[r].at = "handler" /\ ~req[r].done /\ ~closed
    /\ req[r].route[1] # "GET"
    /\ req' = [req EXCEPT ![r].done = TRUE]
    /\ UNCHANGED <<main, listening, closed, expired, event, log>>

\* The handler returns: success, or an error, a panic or the 60 s timeout,
\* which may come after the change as well.
Handled(r) ==
    /\ req[r].at = "handler"
    /\ \E ok \in {req[r].done \/ (req[r].route[1] = "GET" /\ ~closed), FALSE} :
          req' = [req EXCEPT ![r].at = "middleware", ![r].ok = ok]
    /\ UNCHANGED <<main, listening, closed, expired, event, log>>

Recorded(r) == req[r].route[1] # "GET" /\ req[r].ok

\* audit.Middleware: an event for a success that may have changed something.
Middleware(r) ==
    /\ req[r].at = "middleware"
    /\ req' = [req EXCEPT ![r].at = "answered"]
    /\ event' = [event EXCEPT ![r] = IF Recorded(r) THEN "pending" ELSE "none"]
    /\ UNCHANGED <<main, listening, closed, expired, log>>

\* The goroutine inserts the event; that it fails is only logged.
Record(r) ==
    /\ event[r] = "pending"
    /\ \/ /\ ~closed
          /\ log' = log \cup {<<r, deriveAction(req[r].route[1], req[r].route[2])>>}
          /\ event' = [event EXCEPT ![r] = "logged"]
       \/ /\ event' = [event EXCEPT ![r] = "lost"]
          /\ UNCHANGED log
    /\ UNCHANGED <<main, listening, closed, expired, req>>

-----------------------------------------------------------------------------
Main ==
    \/ Load \/ Open \/ Migrate \/ NewStorage \/ StartLeader \/ EnsureAdmin
    \/ ListenAndServe \/ Shutdown \/ StopLeader \/ Close \/ Return

ServerNext ==
    \/ Main \/ Signal \/ Crash
    \/ \E r \in Requests :
          Accept(r) \/ Change(r) \/ Handled(r) \/ Middleware(r) \/ Record(r)

\* main goes on once it has been signalled; a handler may hang in a call that
\* looks at no deadline, such as the write of a file.
Stopping == Shutdown \/ StopLeader \/ Close \/ Return
ServerSpec == ServerInit /\ [][ServerNext]_serverVars /\ WF_serverVars(Stopping)

-----------------------------------------------------------------------------
(* Handlers use the database until the last of them has returned: it is     *)
(* closed under a handler only if the shutdown has run out of its time.     *)
DrainedBeforeClose == main # "down" /\ Active # {} => ~closed \/ expired

(* The audit trail tells what was done, whenever its goroutine came to run  *)
(* and whatever ended in between: an event is about a request that has done *)
(* its change and was answered with success, and its action is that of this *)
(* route only.                                                              *)
EventsTell ==
    \A e \in log :
        LET r == e[1] IN
        /\ req[r].done /\ req[r].ok
        /\ \A route \in Routes :
              route[1] # "GET" /\ deriveAction(route[1], route[2]) = e[2] => route = req[r].route

(* A process that was told to stop ends, even if a handler never returns.   *)
StopEnds == main = "drain" ~> main = "down"
=============================================================================
