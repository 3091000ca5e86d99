------------------------------ MODULE Accounts ------------------------------
(***************************************************************************)
(* Users, their passwords and API keys: nodes that start seed the first    *)
(* administrator, administrators change accounts, and callers identify     *)
(* themselves by password, session cookie or key, all at the same time.    *)
(* What is read of an account is used after it was read: to protect        *)
(* administrators, to compare a password, to count the users.              *)
(*                                                                         *)
(* Abstracted: hashing (a hash is the password), e-mail addresses and real *)
(* names, expiry dates of keys (nothing sets one), whom a key stands for,  *)
(* and bearer tokens of the API, which are believed without a look at the  *)
(* account until they expire.                                              *)
(***************************************************************************)
EXTENDS Naturals

CONSTANTS
    Nodes,      \* servers on one database
    Seeding,    \* those with TINYDM_BOOTSTRAP_ADMIN_PASS
    Slots,      \* requests that take several steps at once
    Users,      \* identifiers that accounts may get
    Names, AdminName,       \* usernames, and the one that is seeded
    Passwords, AdminPass,
    Keys

ASSUME NodesAssumption == Seeding \subseteq Nodes
ASSUME NamesAssumption == AdminName \in Names /\ AdminPass \in Passwords
ASSUME PoolsAssumption == Users \cap Keys = {}

VARIABLES
    users,      \* the table users
    keys,       \* the table api_keys: "none", "live" or "revoked"
    tokens,     \* users with a session cookie that has not expired
    node,       \* what each node is doing
    pc, local,  \* requests that take several steps
    valid,      \* (history) its credentials held at some instant since it came
    seeded      \* (history) accounts seeded so far

vars == <<users, keys, tokens, node, pc, local, valid, seeded>>
requests == <<pc, local>>

NoUser == [status |-> "none", name |-> AdminName, password |-> AdminPass,
           admin |-> FALSE, active |-> FALSE]
\* id: the account or key that is meant or was found; hash: as it was read.
NoLocal == [op |-> "none", id |-> "nobody", name |-> AdminName,
            password |-> AdminPass, hash |-> AdminPass]

LiveUser(u) == users[u].status = "live"
LiveUsers == {u \in Users : LiveUser(u)}

Init ==
    /\ users = [u \in Users |-> NoUser]
    /\ keys = [k \in Keys |-> "none"]
    /\ tokens = {}
    /\ node = [n \in Nodes |-> "down"]
    /\ pc = [r \in Slots |-> "idle"]
    /\ local = [r \in Slots |-> NoLocal]
    /\ valid = [r \in Slots |-> FALSE]
    /\ seeded = 0

-----------------------------------------------------------------------------
(***************************************************************************)
(* When credentials hold, for the history.                                 *)
(***************************************************************************)
Holds(us, ks, c) ==
    CASE c.op = "password" -> \E u \in Users : /\ us[u].status = "live" /\ us[u].active
                                               /\ us[u].name = c.name
                                               /\ us[u].password = c.password
      [] c.op = "session" -> us[c.id].status = "live" /\ us[c.id].active
      [] c.op = "key" -> ks[c.id] = "live"
      [] OTHER -> FALSE

\* The tables change: credentials that hold now have held since they came.
Change(us, ks) ==
    /\ users' = us /\ keys' = ks
    /\ valid' = [r \in Slots |-> valid[r] \/ Holds(us, ks, local[r])]

-----------------------------------------------------------------------------
(***************************************************************************)
(* The store's statements.                                                 *)
(***************************************************************************)
\* username is UNIQUE, deleted accounts included.
TakenByNobody(name) == FALSE  \* mutant
Taken(name) == \E u \in Users : users[u].status # "none" /\ users[u].name = name

InsertUser(u, name, password, admin) ==
    /\ users[u].status = "none"
    /\ ~Taken(name)
    /\ Change([users EXCEPT ![u] = [status |-> "live", name |-> name,
                  password |-> password, admin |-> admin, active |-> TRUE]], keys)

CountUsers == LiveUsers

\* The rows that the lookups by name and by id find, if any.
GetUserByUsernameDeleted(name) ==  \* mutant
    {u \in Users : users[u].status # "none" /\ users[u].name = name}
GetUserByUsername(name) == {u \in LiveUsers : users[u].name = name}
GetUserByID(u) == LiveUsers \cap {u}
GetAPIKeyByHash(k) == {k} \ {j \in Keys : keys[j] = "none"}

-----------------------------------------------------------------------------
(***************************************************************************)
(* A node starts: EnsureAdminUser counts the accounts, then creates one if *)
(* there was none.  If that fails, the node exits.                         *)
(***************************************************************************)
At(n, label) == node' = [node EXCEPT ![n] = label]

Start(n) ==
    /\ node[n] = "down"
    /\ At(n, IF n \in Seeding THEN "count" ELSE "serving")
    /\ UNCHANGED <<users, keys, tokens, requests, valid, seeded>>

EnsureAdminUser(n) ==
    /\ node[n] = "count"
    /\ At(n, IF CountUsers = {} THEN "create" ELSE "serving")
    /\ UNCHANGED <<users, keys, tokens, requests, valid, seeded>>

\* Mutant: an account that is already there is no reason to exit.
SeedAdminAnyway(n) ==
    /\ node[n] = "create"
    /\ \/ /\ \E u \in Users : InsertUser(u, AdminName, AdminPass, TRUE)
          /\ seeded' = seeded + 1
       \/ UNCHANGED <<users, keys, valid, seeded>>
    /\ At(n, "serving")
    /\ UNCHANGED <<tokens, requests>>

SeedAdmin(n) ==
    /\ node[n] = "create"
    /\ \/ /\ \E u \in Users : InsertUser(u, AdminName, AdminPass, TRUE)
          /\ seeded' = seeded + 1
          /\ At(n, "serving")
       \/ /\ Taken(AdminName)
          /\ At(n, "down")
          /\ UNCHANGED <<users, keys, valid, seeded>>
    /\ UNCHANGED <<tokens, requests>>

\* A failed statement, a crash or a shutdown, at any point.
Stop(n) ==
    /\ node[n] # "down"
    /\ At(n, "down")
    /\ UNCHANGED <<users, keys, tokens, requests, valid, seeded>>

Serving == \E n \in Nodes : node[n] = "serving"

-----------------------------------------------------------------------------
(***************************************************************************)
(* Requests of administrators that come down to one statement.             *)
(***************************************************************************)
Administered == Serving /\ \E u \in LiveUsers : users[u].admin /\ users[u].active
Quiet == UNCHANGED <<tokens, node, requests, seeded>>

createUser ==
    /\ Administered
    /\ \E u \in Users, name \in Names, p \in Passwords, admin \in BOOLEAN :
          InsertUser(u, name, p, admin)
    /\ Quiet

\* "user not found" unless a row was updated.
ChangePassword ==
    /\ \E u \in LiveUsers, p \in Passwords :
          Change([users EXCEPT ![u].password = p], keys)
    /\ Quiet

changeUserPassword == Administered /\ ChangePassword    \* web
ChangePasswordAPI == Administered /\ ChangePassword     \* API

activateUser ==
    /\ Administered
    /\ \E u \in LiveUsers : Change([users EXCEPT ![u].active = TRUE], keys)
    /\ Quiet

CreateAPIKey ==
    /\ \E k \in Keys : keys[k] = "none" /\ Change(users, [keys EXCEPT ![k] = "live"])
    /\ Quiet
RevokeAPIKey ==
    /\ \E k \in Keys : keys[k] = "live" /\ Change(users, [keys EXCEPT ![k] = "revoked"])
    /\ Quiet

createAPIKey == Administered /\ CreateAPIKey            \* web
CreateAPIKeyAPI == Administered /\ CreateAPIKey         \* API
revokeAPIKey == Administered /\ RevokeAPIKey            \* web
RevokeAPIKeyAPI == Administered /\ RevokeAPIKey         \* API

-----------------------------------------------------------------------------
(***************************************************************************)
(* Requests of several steps.                                              *)
(***************************************************************************)
Goto(r, label) == pc' = [pc EXCEPT ![r] = label]

Arrive(r, op, id, name, password, label) ==
    LET l == [op |-> op, id |-> id, name |-> name, password |-> password, hash |-> AdminPass] IN
    /\ pc[r] = "idle" /\ Serving
    /\ local' = [local EXCEPT ![r] = l]
    /\ valid' = [valid EXCEPT ![r] = Holds(users, keys, l)]
    /\ Goto(r, label)
    /\ UNCHANGED <<users, keys, tokens, node, seeded>>

\* Identifiers are random: a request can only name accounts that exist.
Known == {u \in Users : users[u].status # "none"}

deactivateUser(r) ==
    Administered /\ \E u \in Known : Arrive(r, "deactivate", u, AdminName, AdminPass, "find")
deleteUser(r) ==
    Administered /\ \E u \in Known : Arrive(r, "delete", u, AdminName, AdminPass, "find")

\* Logging in, in the API or on the web, and HTTP Basic: name and password.
Login(r) ==
    \E name \in Names, p \in Passwords : Arrive(r, "password", "nobody", name, p, "login")
loginSubmit(r) ==
    \E name \in Names, p \in Passwords : Arrive(r, "password", "nobody", name, p, "login")
verifyBasic(r) ==
    \E name \in Names, p \in Passwords : Arrive(r, "password", "nobody", name, p, "basic")

requireSession(r) == \E u \in tokens : Arrive(r, "session", u, AdminName, AdminPass, "session")
verifyAPIKey(r) == \E k \in Keys : Arrive(r, "key", k, AdminName, AdminPass, "key")

Finish(r) ==
    /\ pc' = [pc EXCEPT ![r] = "idle"]
    /\ local' = [local EXCEPT ![r] = NoLocal]
    /\ valid' = [valid EXCEPT ![r] = FALSE]

\* The handler runs: what the caller presented is not looked at again.
Admit(r) ==
    /\ Goto(r, "in")
    /\ local' = [local EXCEPT ![r] = NoLocal]
    /\ UNCHANGED valid

\* SetUserActive and DeleteUser leave administrators alone: they read the row,
\* and write if it is none of an administrator's, or is not there.
ProtectedNever(found) == FALSE  \* mutant
Protected(found) == \E u \in found : users[u].admin

FindUser(r) ==
    LET found == GetUserByID(local[r].id) IN
    /\ pc[r] = "find"
    /\ IF Protected(found) THEN Finish(r)
       ELSE /\ Goto(r, "write")
            /\ UNCHANGED <<local, valid>>
    /\ UNCHANGED <<users, keys, tokens, node, seeded>>

SetUserActive(r) ==
    LET u == local[r].id IN
    /\ pc[r] = "write" /\ local[r].op = "deactivate"
    /\ Change(IF LiveUser(u) THEN [users EXCEPT ![u].active = FALSE] ELSE users, keys)
    /\ Goto(r, "idle")
    /\ local' = [local EXCEPT ![r] = NoLocal]
    /\ UNCHANGED <<tokens, node, seeded>>

DeleteUser(r) ==
    LET u == local[r].id IN
    /\ pc[r] = "write" /\ local[r].op = "delete"
    /\ Change(IF LiveUser(u) THEN [users EXCEPT ![u].status = "deleted"] ELSE users, keys)
    /\ Goto(r, "idle")
    /\ local' = [local EXCEPT ![r] = NoLocal]
    /\ UNCHANGED <<tokens, node, seeded>>

\* The account is read by its name, and its password compared later.
ReadUser(r) ==
    /\ pc[r] \in {"login", "basic"}
    /\ \/ \E u \in GetUserByUsername(local[r].name) :
            /\ users[u].active
            /\ local' = [local EXCEPT ![r].id = u, ![r].hash = users[u].password]
            /\ Goto(r, IF pc[r] = "login" THEN "compare" ELSE "check")
            /\ UNCHANGED valid
       \/ /\ \A u \in GetUserByUsername(local[r].name) : ~users[u].active
          /\ Finish(r)
    /\ UNCHANGED <<users, keys, tokens, node, seeded>>

CheckPassword(r) ==
    /\ pc[r] \in {"compare", "check"}
    /\ \/ /\ local[r].hash = local[r].password
          /\ tokens' = IF pc[r] = "compare" THEN tokens \cup {local[r].id} ELSE tokens
          /\ Admit(r)
       \/ /\ local[r].hash # local[r].password
          /\ Finish(r)
          /\ UNCHANGED tokens
    /\ UNCHANGED <<users, keys, node, seeded>>

\* The session's account, or the key, is read and judged.
CheckSession(r) ==
    /\ pc[r] = "session"
    /\ IF \E u \in GetUserByID(local[r].id) : users[u].active
       THEN Admit(r)
       ELSE Finish(r)
    /\ UNCHANGED <<users, keys, tokens, node, seeded>>

CheckKey(r) ==
    /\ pc[r] = "key"
    /\ IF \E k \in GetAPIKeyByHash(local[r].id) : keys[k] # "revoked"
       THEN Admit(r)
       ELSE Finish(r)
    /\ UNCHANGED <<users, keys, tokens, node, seeded>>

\* The reply, or a statement that fails.
Reply(r) ==
    /\ pc[r] # "idle"
    /\ Finish(r)
    /\ UNCHANGED <<users, keys, tokens, node, seeded>>

\* A cookie expires, or the browser forgets it on logout.
Expire ==
    /\ \E u \in tokens : tokens' = tokens \ {u}
    /\ UNCHANGED <<users, keys, node, requests, valid, seeded>>

-----------------------------------------------------------------------------
Administer ==
    \/ createUser \/ changeUserPassword \/ ChangePasswordAPI \/ activateUser
    \/ createAPIKey \/ CreateAPIKeyAPI \/ revokeAPIKey \/ RevokeAPIKeyAPI

Request(r) ==
    \/ deactivateUser(r) \/ deleteUser(r) \/ Login(r) \/ loginSubmit(r)
    \/ verifyBasic(r) \/ requireSession(r) \/ verifyAPIKey(r)
    \/ FindUser(r) \/ SetUserActive(r) \/ DeleteUser(r)
    \/ ReadUser(r) \/ CheckPassword(r) \/ CheckSession(r) \/ CheckKey(r) \/ Reply(r)

Next ==
    \/ \E n \in Nodes : Start(n) \/ EnsureAdminUser(n) \/ SeedAdmin(n) \/ Stop(n)
    \/ Administer \/ Expire
    \/ \E r \in Slots : Request(r)

Spec == Init /\ [][Next]_vars

-----------------------------------------------------------------------------
(* Nodes that start together on an empty database may all find no account;  *)
(* one of them seeds the administrator, ever.                               *)
SeededOnce == seeded <= 1

(* A node that was told to seed serves only with an active administrator,   *)
(* its own or another node's, whatever crashes between count and create.    *)
ServesAdministered ==
    (\E n \in Seeding : node[n] = "serving") =>
        \E u \in LiveUsers : users[u].admin /\ users[u].active

(* An administrator's account is never deactivated nor deleted, although    *)
(* the row that says so is read in one statement and written in the next.   *)
AdminsStay ==
    [][\A u \in Users :
        users[u].admin => /\ users'[u].admin /\ users'[u].active
                          /\ users'[u].status = users[u].status]_vars

(* Who gets in by password, session or key had credentials that held at     *)
(* some instant since the request arrived: whatever was closed, changed or  *)
(* revoked before that keeps the request out, although rows are judged      *)
(* after they were read.                                                    *)
AuthenticationJustified == \A r \in Slots : pc[r] = "in" => valid[r]
=============================================================================
