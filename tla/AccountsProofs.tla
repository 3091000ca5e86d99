---------------------------- MODULE AccountsProofs ----------------------------
(* Theorems about Accounts, for any nodes, requests, users and keys.         *)
EXTENDS Accounts, TLAPS

Account == [status : {"none", "live", "deleted"}, name : Names, password : Passwords,
            admin : BOOLEAN, active : BOOLEAN]
Waiting == [op : {"none", "deactivate", "delete", "password", "session", "key"},
            id : Users \cup Keys \cup {"nobody"}, name : Names, password : Passwords,
            hash : Passwords]
Labels == {"idle", "find", "write", "login", "basic", "compare", "check", "session",
           "key", "in"}
KeyStates == {"none", "live", "revoked"}

TypeInv ==
    /\ users \in [Users -> Account]
    /\ keys \in [Keys -> KeyStates]
    /\ tokens \subseteq Users
    /\ node \in [Nodes -> {"down", "count", "create", "serving"}]
    /\ pc \in [Slots -> Labels]
    /\ local \in [Slots -> Waiting]
    /\ valid \in [Slots -> BOOLEAN]
    /\ seeded \in Nat

Admin(u) == users[u].admin
Used(u) == users[u].status # "none"

(* Administrators are live and active; there is one if there is an account  *)
(* at all, hence once a node that was to seed serves.                       *)
AdminsInv ==
    /\ \A u \in Users : Admin(u) => users[u].status = "live" /\ users[u].active
    /\ (\E u \in Users : Used(u)) => \E u \in Users : Admin(u)
    /\ (\E n \in Seeding : node[n] = "serving") => \E u \in Users : Admin(u)

(* What was seeded has taken the name. *)
SeededInv == seeded = 0 \/ (seeded = 1 /\ Taken(AdminName))

(* A request to close an account knows one that is used, and before it      *)
(* writes, one that is no administrator's.                                  *)
Closing(r) ==
    /\ pc[r] \in {"find", "write"} => local[r].id \in Users /\ Used(local[r].id)
    /\ pc[r] = "write" => ~Admin(local[r].id)

(* Credentials that hold now have been noted, and so have those of who is   *)
(* in; a hash that was read is judged only if it was the password then.     *)
Identifying(r) ==
    /\ pc[r] \in {"login", "basic", "compare", "check"} => local[r].op = "password"
    /\ pc[r] \in {"compare", "check"} =>
          local[r].id \in Users /\ (local[r].hash = local[r].password => valid[r])
    /\ pc[r] = "session" => local[r].op = "session" /\ local[r].id \in Users
    /\ pc[r] = "key" => local[r].op = "key" /\ local[r].id \in Keys
    /\ pc[r] = "in" => valid[r]
    /\ Holds(users, keys, local[r]) => valid[r]

RequestInv(r) == Closing(r) /\ Identifying(r)

AccountsInv ==
    /\ TypeInv
    /\ AdminsInv
    /\ SeededInv
    /\ \A r \in Slots : RequestInv(r)

(* What no step does to an account. *)
Lasting ==
    \A u \in Users :
        /\ Used(u) => /\ users'[u].status # "none"
                      /\ users'[u].name = users[u].name
                      /\ users'[u].admin = users[u].admin
        /\ Admin(u) => /\ users'[u].admin /\ users'[u].active
                       /\ users'[u].status = users[u].status

(* A request that a step leaves alone, but for its history. *)
Frame(q) ==
    /\ pc'[q] = pc[q]
    /\ local'[q] = local[q]
    /\ \/ UNCHANGED <<users, keys>> /\ valid'[q] = valid[q]
       \/ valid'[q] = (valid[q] \/ Holds(users', keys', local[q]))

LEMMA AccountsInit == Init => AccountsInv
<1> SUFFICES ASSUME Init PROVE AccountsInv
  OBVIOUS
<1>1. TypeInv
  BY NamesAssumption
     DEF Init, TypeInv, Account, Waiting, Labels, KeyStates, NoUser, NoLocal
<1>2. AdminsInv
  BY NodesAssumption DEF Init, AdminsInv, Admin, Used, NoUser
<1>3. ASSUME NEW r \in Slots PROVE RequestInv(r)
  BY DEF Init, RequestInv, Closing, Identifying, Holds, NoLocal
<1> QED
  BY <1>1, <1>2, <1>3 DEF Init, AccountsInv, SeededInv

LEMMA FrameKeeps ==
  ASSUME AccountsInv, Lasting, TypeInv', NEW q \in Slots, Frame(q)
  PROVE  RequestInv(q)'
<1>1. Closing(q) /\ Identifying(q)
  BY DEF AccountsInv, RequestInv
<1>2. Closing(q)'
  BY <1>1 DEF Closing, Frame, Lasting, Used, Admin
<1>3. valid[q] => valid'[q]
  BY DEF AccountsInv, TypeInv, Frame
<1>4. Holds(users, keys, local[q])' => valid'[q]
  <2>1. CASE UNCHANGED <<users, keys>> /\ valid'[q] = valid[q]
    BY <1>1, <2>1 DEF Frame, Identifying
  <2>2. CASE valid'[q] = (valid[q] \/ Holds(users', keys', local[q]))
    BY <2>2 DEF Frame
  <2> QED
    BY <2>1, <2>2 DEF Frame
<1>5. Identifying(q)'
  BY <1>1, <1>3, <1>4 DEF Identifying, Frame
<1> QED
  BY <1>2, <1>5 DEF RequestInv

LEMMA QuietTables ==
  ASSUME AccountsInv, UNCHANGED <<users, keys>>
  PROVE  Lasting
BY DEF AccountsInv, AdminsInv, Lasting, Used, Admin

(* The tables after a statement that lets accounts last. *)
LEMMA AdminsLast ==
  ASSUME AccountsInv, Lasting, UNCHANGED <<node, seeded>>,
         (\E u \in Users : Used(u)) \/ UNCHANGED users,
         \A u \in Users : users'[u].admin => users'[u].status = "live" /\ users'[u].active
  PROVE  AdminsInv' /\ SeededInv'
<1>1. SeededInv'
  BY DEF AccountsInv, SeededInv, Taken, Lasting, Used
<1>2. (\E u \in Users : Admin(u)) => \E u \in Users : Admin(u)'
  BY DEF Lasting, Admin
<1> QED
  BY <1>1, <1>2 DEF AccountsInv, AdminsInv, Admin, Used

-----------------------------------------------------------------------------
(* Statements that change the tables. *)
LEMMA ChangeTyped ==
  ASSUME AccountsInv, NEW us \in [Users -> Account], NEW ks \in [Keys -> KeyStates],
         Change(us, ks)
  PROVE  /\ users' = us /\ users' \in [Users -> Account] /\ keys' \in [Keys -> KeyStates]
         /\ valid' \in [Slots -> BOOLEAN]
         /\ \A q \in Slots : valid'[q] = (valid[q] \/ Holds(users', keys', local[q]))
<1>1. \A us1, ks1 : \A c \in Waiting : Holds(us1, ks1, c) \in BOOLEAN
  BY DEF Holds, Waiting
<1>2. valid \in [Slots -> BOOLEAN]
  BY DEF AccountsInv, TypeInv
<1> QED
  BY <1>1, <1>2 DEF Change

LEMMA QuietChange ==
  ASSUME AccountsInv, NEW us \in [Users -> Account], NEW ks \in [Keys -> KeyStates],
         Change(us, ks), Quiet, Lasting, AdminsInv', SeededInv'
  PROVE  AccountsInv'
<1>1. TypeInv'
  BY ChangeTyped DEF Quiet, requests, AccountsInv, TypeInv
<1>2. ASSUME NEW q \in Slots PROVE Frame(q)
  BY ChangeTyped DEF Quiet, requests, Frame
<1> QED
  BY <1>1, <1>2, FrameKeeps DEF AccountsInv

(* One account is changed in a way that keeps administrators. *)
LEMMA AccountChange ==
  ASSUME AccountsInv, NEW u \in Users, Used(u), NEW a \in Account,
         users' = [users EXCEPT ![u] = a], UNCHANGED <<node, seeded>>,
         a.status # "none", a.name = users[u].name, a.admin = users[u].admin,
         a.admin => a.status = "live" /\ a.active
  PROVE  Lasting /\ AdminsInv' /\ SeededInv'
<1>1. users \in [Users -> Account] /\ \A v \in Users : Admin(v) => users[v].status = "live" /\ users[v].active
  BY DEF AccountsInv, TypeInv, AdminsInv
<1>2. users'[u] = a /\ \A v \in Users \ {u} : users'[v] = users[v]
  BY <1>1
<1>3. Lasting
  BY <1>1, <1>2 DEF Lasting, Used, Admin
<1>4. \A v \in Users : users'[v].admin => users'[v].status = "live" /\ users'[v].active
  BY <1>1, <1>2 DEF Admin
<1> QED
  BY <1>3, <1>4, AdminsLast

(* A new account, by someone who is one, or the first administrator. *)
LEMMA NewAccount ==
  ASSUME AccountsInv, NEW u \in Users, NEW name \in Names, NEW p \in Passwords,
         NEW admin \in BOOLEAN, InsertUser(u, name, p, admin)
  PROVE  /\ [users EXCEPT ![u] = [status |-> "live", name |-> name,
                password |-> p, admin |-> admin, active |-> TRUE]] \in [Users -> Account]
         /\ Lasting
         /\ \A v \in Users : users'[v].admin => users'[v].status = "live" /\ users'[v].active
         /\ users'[u].admin = admin /\ users'[u].status # "none" /\ users'[u].name = name
<1>1. /\ users \in [Users -> Account]
      /\ \A v \in Users : Admin(v) => users[v].status = "live" /\ users[v].active
  BY DEF AccountsInv, TypeInv, AdminsInv
<1> DEFINE a == [status |-> "live", name |-> name, password |-> p, admin |-> admin,
                 active |-> TRUE]
<1>2. a \in Account /\ a.status = "live" /\ a.admin = admin /\ a.active /\ a.name = name
  BY DEF Account
<1>3. users[u].status = "none" /\ users' = [users EXCEPT ![u] = a]
  BY DEF InsertUser, Change
<1> HIDE DEF a
<1>4. users'[u] = a /\ \A v \in Users \ {u} : users'[v] = users[v]
  BY <1>1, <1>3
<1>5. [users EXCEPT ![u] = a] \in [Users -> Account]
  BY <1>1, <1>2
<1>6. Lasting
  BY <1>1, <1>3, <1>4 DEF Lasting, Used, Admin
<1>7. \A v \in Users : users'[v].admin => users'[v].status = "live" /\ users'[v].active
  BY <1>1, <1>2, <1>4 DEF Admin
<1> QED
  BY <1>2, <1>4, <1>5, <1>6, <1>7 DEF a

LEMMA CreateStep ==
  ASSUME AccountsInv, createUser
  PROVE  AccountsInv' /\ Lasting
<1>1. PICK u \in Users, name \in Names, p \in Passwords, admin \in BOOLEAN :
        InsertUser(u, name, p, admin)
  BY DEF createUser
<1>2. Quiet /\ UNCHANGED <<node, seeded>> /\ \E v \in Users : Used(v)
  BY DEF createUser, Quiet, Administered, LiveUsers, LiveUser, Used
<1>3. Lasting /\ AdminsInv' /\ SeededInv'
  BY <1>1, <1>2, NewAccount, AdminsLast
<1>4. /\ [users EXCEPT ![u] = [status |-> "live", name |-> name,
                password |-> p, admin |-> admin, active |-> TRUE]] \in [Users -> Account]
      /\ keys \in [Keys -> KeyStates]
  BY <1>1, NewAccount DEF AccountsInv, TypeInv
<1>5. Change([users EXCEPT ![u] = [status |-> "live", name |-> name,
                password |-> p, admin |-> admin, active |-> TRUE]], keys)
  BY <1>1 DEF InsertUser
<1> QED
  BY <1>2, <1>3, <1>4, <1>5, QuietChange

LEMMA PasswordStep ==
  ASSUME AccountsInv, ChangePassword
  PROVE  AccountsInv' /\ Lasting
<1>1. PICK u \in LiveUsers, p \in Passwords : Change([users EXCEPT ![u].password = p], keys)
  BY DEF ChangePassword
<1>2. u \in Users /\ users[u].status = "live" /\ Quiet
  BY DEF LiveUsers, LiveUser, ChangePassword
<1>3. users \in [Users -> Account] /\ users[u] \in Account /\ keys \in [Keys -> KeyStates]
  BY <1>2 DEF AccountsInv, TypeInv
<1> DEFINE a == [users[u] EXCEPT !.password = p]
<1>4. /\ a \in Account /\ a.status = users[u].status /\ a.name = users[u].name
      /\ a.admin = users[u].admin /\ a.active = users[u].active
  BY <1>3 DEF Account
<1>5. Change([users EXCEPT ![u] = a], keys) /\ users' = [users EXCEPT ![u] = a]
  BY <1>1 DEF Change
<1> HIDE DEF a
<1>6. a.admin => users[u].active
  BY <1>2, <1>4 DEF AccountsInv, AdminsInv, Admin
<1>7. Lasting /\ AdminsInv' /\ SeededInv'
  BY <1>2, <1>4, <1>5, <1>6, AccountChange DEF Quiet, Used
<1> QED
  BY <1>2, <1>3, <1>4, <1>5, <1>7, QuietChange

LEMMA ActivateStep ==
  ASSUME AccountsInv, activateUser
  PROVE  AccountsInv' /\ Lasting
<1>1. PICK u \in LiveUsers : Change([users EXCEPT ![u].active = TRUE], keys)
  BY DEF activateUser
<1>2. u \in Users /\ users[u].status = "live" /\ Quiet
  BY DEF LiveUsers, LiveUser, activateUser
<1>3. users \in [Users -> Account] /\ users[u] \in Account /\ keys \in [Keys -> KeyStates]
  BY <1>2 DEF AccountsInv, TypeInv
<1> DEFINE a == [users[u] EXCEPT !.active = TRUE]
<1>4. /\ a \in Account /\ a.status = users[u].status /\ a.name = users[u].name
      /\ a.admin = users[u].admin /\ a.active
  BY <1>3 DEF Account
<1>5. Change([users EXCEPT ![u] = a], keys) /\ users' = [users EXCEPT ![u] = a]
  BY <1>1 DEF Change
<1> HIDE DEF a
<1>6. Lasting /\ AdminsInv' /\ SeededInv'
  BY <1>2, <1>4, <1>5, AccountChange DEF Quiet, Used
<1> QED
  BY <1>2, <1>3, <1>4, <1>5, <1>6, QuietChange

LEMMA KeyStep ==
  ASSUME AccountsInv, CreateAPIKey \/ RevokeAPIKey
  PROVE  AccountsInv' /\ Lasting
<1>1. PICK ks \in [Keys -> KeyStates] : Change(users, ks)
  <2>1. \A k \in Keys, s \in KeyStates : [keys EXCEPT ![k] = s] \in [Keys -> KeyStates]
    BY DEF AccountsInv, TypeInv
  <2> QED
    BY <2>1 DEF CreateAPIKey, RevokeAPIKey, KeyStates
<1>2. Quiet /\ users' = users
  BY <1>1 DEF CreateAPIKey, RevokeAPIKey, Change
<1>3. Lasting
  BY <1>2 DEF AccountsInv, AdminsInv, Lasting, Used, Admin
<1>4. AdminsInv' /\ SeededInv'
  BY <1>2 DEF Quiet, AccountsInv, AdminsInv, SeededInv, Admin, Used, Taken
<1> QED
  BY <1>1, <1>2, <1>3, <1>4, QuietChange DEF AccountsInv, TypeInv

-----------------------------------------------------------------------------
(* Nodes. *)
LEMMA NodeStep ==
  ASSUME AccountsInv, NEW n \in Nodes, Start(n) \/ EnsureAdminUser(n) \/ Stop(n)
  PROVE  AccountsInv' /\ Lasting
<1>1. UNCHANGED <<users, keys, tokens, pc, local, valid, seeded>>
  BY DEF Start, EnsureAdminUser, Stop, requests
<1>2. Lasting
  BY <1>1, QuietTables
<1>3. TypeInv'
  BY <1>1 DEF Start, EnsureAdminUser, Stop, At, AccountsInv, TypeInv
<1>4. AdminsInv'
  <2>1. node'[n] = "serving" /\ n \in Seeding => \E u \in Users : Admin(u)
    BY DEF Start, EnsureAdminUser, Stop, At, AccountsInv, TypeInv, AdminsInv,
           CountUsers, LiveUsers, LiveUser, Used
  <2>2. \A m \in Nodes \ {n} : node'[m] = node[m]
    BY DEF Start, EnsureAdminUser, Stop, At, AccountsInv, TypeInv
  <2> QED
    BY <1>1, <2>1, <2>2, NodesAssumption DEF AccountsInv, AdminsInv, Admin, Used
<1>5. SeededInv'
  BY <1>1 DEF AccountsInv, SeededInv, Taken
<1>6. \A q \in Slots : Frame(q)
  BY <1>1 DEF Frame
<1> QED
  BY <1>2, <1>3, <1>4, <1>5, <1>6, FrameKeeps DEF AccountsInv

LEMMA SeedStep ==
  ASSUME AccountsInv, NEW n \in Nodes, SeedAdmin(n)
  PROVE  AccountsInv' /\ Lasting
<1>1. CASE /\ \E u \in Users : InsertUser(u, AdminName, AdminPass, TRUE)
           /\ seeded' = seeded + 1 /\ At(n, "serving")
  <2>1. PICK u \in Users : InsertUser(u, AdminName, AdminPass, TRUE)
    BY <1>1
  <2> DEFINE us == [users EXCEPT ![u] = [status |-> "live", name |-> AdminName,
                      password |-> AdminPass, admin |-> TRUE, active |-> TRUE]]
  <2>2. /\ us \in [Users -> Account] /\ Lasting
        /\ \A v \in Users : users'[v].admin => users'[v].status = "live" /\ users'[v].active
        /\ users'[u].admin /\ users'[u].status # "none" /\ users'[u].name = AdminName
    BY <2>1, NewAccount, NamesAssumption
  <2>3. Change(us, keys) /\ ~Taken(AdminName)
    BY <2>1 DEF InsertUser
  <2> HIDE DEF us
  <2>4. TypeInv'
    <3>1. keys \in [Keys -> KeyStates]
      BY DEF AccountsInv, TypeInv
    <3>2. /\ users' \in [Users -> Account] /\ keys' \in [Keys -> KeyStates]
          /\ valid' \in [Slots -> BOOLEAN]
      BY <2>2, <2>3, <3>1, ChangeTyped
    <3> QED
      BY <1>1, <3>2 DEF SeedAdmin, At, requests, AccountsInv, TypeInv
  <2>5. \A q \in Slots : Frame(q)
    <3>1. keys \in [Keys -> KeyStates]
      BY DEF AccountsInv, TypeInv
    <3> QED
      BY <2>2, <2>3, <3>1, ChangeTyped DEF SeedAdmin, requests, Frame
  <2>6. AdminsInv'
    BY <2>2 DEF AdminsInv, Admin, Used
  <2>7. SeededInv'
    BY <1>1, <2>2, <2>3 DEF AccountsInv, SeededInv, Taken
  <2> QED
    BY <2>2, <2>4, <2>5, <2>6, <2>7, FrameKeeps DEF AccountsInv
<1>2. CASE At(n, "down") /\ UNCHANGED <<users, keys, valid, seeded>>
  <2>1. UNCHANGED <<users, keys, tokens, pc, local, valid, seeded>>
    BY <1>2 DEF SeedAdmin, requests
  <2>2. Lasting
    BY <2>1, QuietTables
  <2>3. TypeInv'
    BY <1>2, <2>1 DEF At, AccountsInv, TypeInv
  <2>4. \A m \in Nodes : node'[m] = "serving" => node[m] = "serving"
    BY <1>2 DEF At, AccountsInv, TypeInv
  <2>5. AdminsInv' /\ SeededInv'
    BY <2>1, <2>4, NodesAssumption
       DEF AccountsInv, AdminsInv, SeededInv, Admin, Used, Taken
  <2>6. \A q \in Slots : Frame(q)
    BY <2>1 DEF Frame
  <2> QED
    BY <2>2, <2>3, <2>5, <2>6, FrameKeeps DEF AccountsInv
<1> QED
  BY <1>1, <1>2 DEF SeedAdmin

LEMMA ExpireStep ==
  ASSUME AccountsInv, Expire
  PROVE  AccountsInv' /\ Lasting
<1>1. UNCHANGED <<users, keys, node, pc, local, valid, seeded>> /\ tokens' \subseteq Users
  BY DEF Expire, requests, AccountsInv, TypeInv
<1>2. Lasting
  BY <1>1, QuietTables
<1>3. TypeInv' /\ AdminsInv' /\ SeededInv'
  BY <1>1 DEF AccountsInv, TypeInv, AdminsInv, SeededInv, Admin, Used, Taken
<1>4. \A q \in Slots : Frame(q)
  BY <1>1 DEF Frame
<1> QED
  BY <1>2, <1>3, <1>4, FrameKeeps DEF AccountsInv

-----------------------------------------------------------------------------
(* What a step of request r has to show that leaves the tables alone. *)
LEMMA SlotStep ==
  ASSUME AccountsInv, NEW r \in Slots, UNCHANGED <<users, keys, node, seeded>>,
         tokens' \subseteq Users,
         NEW label \in Labels, NEW l \in Waiting, NEW v \in BOOLEAN,
         pc' = [pc EXCEPT ![r] = label], local' = [local EXCEPT ![r] = l],
         valid' = [valid EXCEPT ![r] = v],
         RequestInv(r)'
  PROVE  AccountsInv' /\ Lasting
<1>1. Lasting
  BY QuietTables
<1>2. TypeInv' /\ AdminsInv' /\ SeededInv'
  BY DEF AccountsInv, TypeInv, AdminsInv, SeededInv, Admin, Used, Taken
<1>3. \A q \in Slots \ {r} : Frame(q)
  BY DEF Frame, AccountsInv, TypeInv
<1> QED
  BY <1>1, <1>2, <1>3, FrameKeeps DEF AccountsInv

LEMMA FinishStep ==
  ASSUME AccountsInv, NEW r \in Slots, Finish(r),
         UNCHANGED <<users, keys, node, seeded>>, tokens' \subseteq Users
  PROVE  AccountsInv' /\ Lasting
<1>1. NoLocal \in Waiting /\ NoLocal.op = "none" /\ "idle" \in Labels
  BY NamesAssumption DEF NoLocal, Waiting, Labels
<1>2. pc'[r] = "idle" /\ local'[r] = NoLocal
  BY DEF Finish, AccountsInv, TypeInv
<1>3. RequestInv(r)'
  BY <1>1, <1>2 DEF RequestInv, Closing, Identifying, Holds
<1> QED
  BY <1>1, <1>3, SlotStep DEF Finish

LEMMA AdmitStep ==
  ASSUME AccountsInv, NEW r \in Slots, Admit(r), valid[r],
         UNCHANGED <<users, keys, node, seeded>>, tokens' \subseteq Users
  PROVE  AccountsInv' /\ Lasting
<1>1. NoLocal \in Waiting /\ NoLocal.op = "none" /\ "in" \in Labels
  BY NamesAssumption DEF NoLocal, Waiting, Labels
<1>2. pc'[r] = "in" /\ local'[r] = NoLocal /\ valid' = valid
  BY DEF Admit, Goto, AccountsInv, TypeInv
<1>3. RequestInv(r)'
  BY <1>1, <1>2 DEF RequestInv, Closing, Identifying, Holds
<1>4. valid' = [valid EXCEPT ![r] = valid[r]] /\ valid[r] \in BOOLEAN
  BY <1>2 DEF AccountsInv, TypeInv
<1> QED
  BY <1>1, <1>3, <1>4, SlotStep DEF Admit, Goto

(* Arrivals note whether the credentials hold. *)
LEMMA ArriveStep ==
  ASSUME AccountsInv, NEW r \in Slots, NEW op, NEW id, NEW name \in Names,
         NEW password \in Passwords, NEW label,
         \/ op \in {"deactivate", "delete"} /\ label = "find" /\ id \in Known
         \/ op = "password" /\ label \in {"login", "basic"} /\ id = "nobody"
         \/ op = "session" /\ label = "session" /\ id \in tokens
         \/ op = "key" /\ label = "key" /\ id \in Keys,
         Arrive(r, op, id, name, password, label)
  PROVE  AccountsInv' /\ Lasting
<1> DEFINE l == [op |-> op, id |-> id, name |-> name, password |-> password,
                 hash |-> AdminPass]
<1>1. TypeInv
  BY DEF AccountsInv
<1>2. l \in Waiting /\ label \in Labels
  BY <1>1, NamesAssumption DEF Waiting, Labels, Known, TypeInv
<1>3. l.op = op /\ l.id = id
  OBVIOUS
<1>4. Holds(users, keys, l) \in BOOLEAN
  BY <1>2 DEF Holds, Waiting
<1>5. /\ local' = [local EXCEPT ![r] = l] /\ valid' = [valid EXCEPT ![r] = Holds(users, keys, l)]
      /\ pc' = [pc EXCEPT ![r] = label] /\ UNCHANGED <<users, keys, tokens, node, seeded>>
  BY DEF Arrive, Goto
<1> HIDE DEF l
<1>6. pc'[r] = label /\ local'[r] = l /\ valid'[r] = Holds(users, keys, l)
  BY <1>1, <1>5 DEF TypeInv
<1>7. Closing(r)'
  BY <1>3, <1>5, <1>6 DEF Closing, Known, Used
<1>8. Identifying(r)'
  BY <1>1, <1>3, <1>5, <1>6 DEF Identifying, TypeInv
<1> QED
  BY <1>1, <1>2, <1>4, <1>5, <1>7, <1>8, SlotStep DEF RequestInv, TypeInv

(* The account that a request closes is no administrator's. *)
LEMMA CloseStep ==
  ASSUME AccountsInv, NEW r \in Slots, SetUserActive(r) \/ DeleteUser(r)
  PROVE  AccountsInv' /\ Lasting
<1> DEFINE u == local[r].id
<1>1. TypeInv /\ u \in Users /\ Used(u) /\ ~users[u].admin
  BY DEF SetUserActive, DeleteUser, AccountsInv, RequestInv, Closing, Admin
<1>2. users \in [Users -> Account] /\ users[u] \in Account /\ keys \in [Keys -> KeyStates]
  BY <1>1 DEF TypeInv
<1>3. PICK a \in Account :
        /\ Change([users EXCEPT ![u] = a], keys)
        /\ a.status # "none" /\ a.name = users[u].name /\ a.admin = users[u].admin
  <2>1. \A b \in Account :
          /\ [b EXCEPT !.active = FALSE] \in Account
          /\ [b EXCEPT !.active = FALSE].name = b.name
          /\ [b EXCEPT !.active = FALSE].admin = b.admin
          /\ [b EXCEPT !.active = FALSE].status = b.status
    BY DEF Account
  <2>2. \A b \in Account :
          /\ [b EXCEPT !.status = "deleted"] \in Account
          /\ [b EXCEPT !.status = "deleted"].name = b.name
          /\ [b EXCEPT !.status = "deleted"].admin = b.admin
          /\ [b EXCEPT !.status = "deleted"].status = "deleted"
    BY DEF Account
  <2>3. CASE ~LiveUser(u)
    <3>1. users = [users EXCEPT ![u] = users[u]] /\ Change(users, keys)
      BY <1>2, <2>3 DEF SetUserActive, DeleteUser
    <3> QED
      BY <1>1, <1>2, <3>1 DEF Used
  <2>4. CASE LiveUser(u) /\ SetUserActive(r)
    <3>1. Change([users EXCEPT ![u] = [users[u] EXCEPT !.active = FALSE]], keys)
      BY <2>4 DEF SetUserActive
    <3> QED
      BY <1>1, <1>2, <2>1, <3>1 DEF Used
  <2>5. CASE LiveUser(u) /\ DeleteUser(r)
    <3>1. Change([users EXCEPT ![u] = [users[u] EXCEPT !.status = "deleted"]], keys)
      BY <2>5 DEF DeleteUser
    <3> DEFINE a == [users[u] EXCEPT !.status = "deleted"]
    <3>2. /\ a \in Account /\ a.status # "none" /\ a.name = users[u].name
          /\ a.admin = users[u].admin
      BY <1>2, <2>2
    <3> HIDE DEF a
    <3> QED
      BY <3>1, <3>2 DEF a
  <2> QED
    BY <2>3, <2>4, <2>5
<1>4. /\ UNCHANGED <<tokens, node, seeded>>
      /\ pc' = [pc EXCEPT ![r] = "idle"] /\ local' = [local EXCEPT ![r] = NoLocal]
  BY DEF SetUserActive, DeleteUser, Goto
<1> HIDE DEF u
<1>5. users' = [users EXCEPT ![u] = a] /\ [users EXCEPT ![u] = a] \in [Users -> Account]
  BY <1>2, <1>3 DEF Change
<1>6. Lasting /\ AdminsInv' /\ SeededInv'
  BY <1>1, <1>3, <1>4, <1>5, AccountChange
<1>7. /\ users' \in [Users -> Account] /\ keys' \in [Keys -> KeyStates]
      /\ valid' \in [Slots -> BOOLEAN]
      /\ \A q \in Slots : valid'[q] = (valid[q] \/ Holds(users', keys', local[q]))
  BY <1>2, <1>3, <1>5, ChangeTyped
<1>8. NoLocal \in Waiting /\ NoLocal.op = "none"
  BY NamesAssumption DEF NoLocal, Waiting
<1>9. TypeInv'
  BY <1>1, <1>4, <1>7, <1>8 DEF TypeInv, Labels
<1>10. \A q \in Slots \ {r} : Frame(q)
  BY <1>1, <1>4, <1>7 DEF Frame, TypeInv
<1>11. pc'[r] = "idle" /\ local'[r] = NoLocal
  BY <1>1, <1>4 DEF TypeInv
<1>12. RequestInv(r)'
  BY <1>8, <1>11 DEF RequestInv, Closing, Identifying, Holds
<1> QED
  BY <1>6, <1>9, <1>10, <1>12, FrameKeeps DEF AccountsInv

(* The account is found to be none of an administrator's before it is closed.*)
LEMMA FindStep ==
  ASSUME AccountsInv, NEW r \in Slots, FindUser(r)
  PROVE  AccountsInv' /\ Lasting
<1>1. TypeInv /\ RequestInv(r) /\ pc[r] = "find"
  BY DEF AccountsInv, FindUser
<1>2. CASE Protected(GetUserByID(local[r].id))
  BY <1>1, <1>2, FinishStep DEF FindUser, TypeInv
<1>3. CASE ~Protected(GetUserByID(local[r].id))
  <2>1. pc' = [pc EXCEPT ![r] = "write"] /\ UNCHANGED <<local, valid, users, keys, tokens, node, seeded>>
    BY <1>3 DEF FindUser, Goto
  <2>2. local[r].id \in Users /\ Used(local[r].id)
    BY <1>1 DEF RequestInv, Closing
  <2>3. ~Admin(local[r].id)
    BY <1>3, <2>2 DEF Protected, GetUserByID, LiveUsers, LiveUser, Admin, AccountsInv, AdminsInv
  <2>4. pc'[r] = "write"
    BY <1>1, <2>1 DEF TypeInv
  <2>5. RequestInv(r)'
    BY <1>1, <2>1, <2>2, <2>3, <2>4 DEF RequestInv, Closing, Identifying, Used, Admin
  <2>6. /\ local' = [local EXCEPT ![r] = local[r]] /\ local[r] \in Waiting
        /\ valid' = [valid EXCEPT ![r] = valid[r]] /\ valid[r] \in BOOLEAN
        /\ "write" \in Labels /\ tokens' \subseteq Users
    BY <1>1, <2>1 DEF TypeInv, Labels
  <2> QED
    BY <2>1, <2>5, <2>6, SlotStep
<1> QED
  BY <1>2, <1>3

(* A password that is right when its hash is read held at that instant. *)
LEMMA ReadStep ==
  ASSUME AccountsInv, NEW r \in Slots, ReadUser(r)
  PROVE  AccountsInv' /\ Lasting
<1>1. TypeInv /\ RequestInv(r) /\ pc[r] \in {"login", "basic"}
  BY DEF AccountsInv, ReadUser
<1>2. CASE Finish(r)
  BY <1>1, <1>2, FinishStep DEF ReadUser, TypeInv
<1>3. CASE \E u \in GetUserByUsername(local[r].name) :
              /\ users[u].active
              /\ local' = [local EXCEPT ![r].id = u, ![r].hash = users[u].password]
              /\ Goto(r, IF pc[r] = "login" THEN "compare" ELSE "check")
              /\ UNCHANGED valid
  <2>1. PICK u \in GetUserByUsername(local[r].name) :
              /\ users[u].active
              /\ local' = [local EXCEPT ![r].id = u, ![r].hash = users[u].password]
              /\ Goto(r, IF pc[r] = "login" THEN "compare" ELSE "check")
              /\ UNCHANGED valid
    BY <1>3
  <2> DEFINE l == [local[r] EXCEPT !.id = u, !.hash = users[u].password]
             label == IF pc[r] = "login" THEN "compare" ELSE "check"
  <2>2. u \in Users /\ users[u].status = "live" /\ users[u].name = local[r].name
    BY DEF GetUserByUsername, LiveUsers, LiveUser
  <2>3. users[u].password \in Passwords /\ local[r] \in Waiting
    BY <1>1, <2>2 DEF TypeInv, Account
  <2>4. /\ l \in Waiting /\ l.op = local[r].op /\ l.name = local[r].name
        /\ l.password = local[r].password /\ l.id = u /\ l.hash = users[u].password
    BY <2>2, <2>3 DEF Waiting
  <2>5. /\ local' = [local EXCEPT ![r] = l] /\ pc' = [pc EXCEPT ![r] = label]
        /\ UNCHANGED <<valid, users, keys, tokens, node, seeded>>
    BY <2>1 DEF ReadUser, Goto
  <2> HIDE DEF l
  <2>6. local'[r] = l /\ pc'[r] = label
    BY <1>1, <2>5 DEF TypeInv
  <2>7. local[r].op = "password" /\ (Holds(users, keys, local[r]) => valid[r])
    BY <1>1 DEF RequestInv, Identifying
  <2>8. users[u].password = local[r].password => Holds(users, keys, local[r])
    BY <2>1, <2>2, <2>7 DEF Holds
  <2>9. Holds(users, keys, l) <=> Holds(users, keys, local[r])
    BY <2>4, <2>7 DEF Holds
  <2>10. Closing(r)'
    BY <2>6 DEF Closing
  <2>11. Identifying(r)'
    BY <2>2, <2>4, <2>5, <2>6, <2>7, <2>8, <2>9 DEF Identifying
  <2>12. /\ valid' = [valid EXCEPT ![r] = valid[r]] /\ valid[r] \in BOOLEAN
         /\ label \in Labels /\ tokens' \subseteq Users
    BY <1>1, <2>5 DEF TypeInv, Labels
  <2> QED
    BY <2>4, <2>5, <2>10, <2>11, <2>12, SlotStep DEF RequestInv
<1> QED
  BY <1>2, <1>3 DEF ReadUser

(* Who is admitted presents credentials that have held. *)
LEMMA JudgeStep ==
  ASSUME AccountsInv, NEW r \in Slots,
         CheckPassword(r) \/ CheckSession(r) \/ CheckKey(r) \/ Reply(r)
  PROVE  AccountsInv' /\ Lasting
<1>1. TypeInv /\ RequestInv(r) /\ UNCHANGED <<users, keys, node, seeded>>
  BY DEF AccountsInv, CheckPassword, CheckSession, CheckKey, Reply
<1>2. tokens' \subseteq Users
  BY <1>1 DEF CheckPassword, CheckSession, CheckKey, Reply, TypeInv, RequestInv, Identifying
<1>3. CASE Finish(r)
  BY <1>1, <1>2, <1>3, FinishStep
<1>4. CASE Admit(r) /\ CheckPassword(r) /\ local[r].hash = local[r].password
  <2>1. valid[r]
    BY <1>1, <1>4 DEF CheckPassword, RequestInv, Identifying
  <2> QED
    BY <1>1, <1>2, <1>4, <2>1, AdmitStep
<1>5. CASE Admit(r) /\ CheckSession(r) /\ \E u \in GetUserByID(local[r].id) : users[u].active
  <2>1. valid[r]
    BY <1>1, <1>5
       DEF CheckSession, RequestInv, Identifying, Holds, GetUserByID, LiveUsers, LiveUser
  <2> QED
    BY <1>1, <1>2, <1>5, <2>1, AdmitStep
<1>6. CASE Admit(r) /\ CheckKey(r)
           /\ \E k \in GetAPIKeyByHash(local[r].id) : keys[k] # "revoked"
  <2>1. local[r].op = "key" /\ local[r].id \in Keys
    BY <1>1, <1>6 DEF CheckKey, RequestInv, Identifying
  <2>2. keys[local[r].id] = "live"
    BY <1>1, <1>6, <2>1 DEF GetAPIKeyByHash, TypeInv, KeyStates
  <2>3. valid[r]
    BY <1>1, <2>1, <2>2 DEF RequestInv, Identifying, Holds
  <2> QED
    BY <1>1, <1>2, <1>6, <2>3, AdmitStep
<1> QED
  BY <1>3, <1>4, <1>5, <1>6 DEF CheckPassword, CheckSession, CheckKey, Reply

-----------------------------------------------------------------------------
LEMMA ArrivalStep ==
  ASSUME AccountsInv, NEW r \in Slots,
         \/ deactivateUser(r) \/ deleteUser(r) \/ Login(r) \/ loginSubmit(r)
         \/ verifyBasic(r) \/ requireSession(r) \/ verifyAPIKey(r)
  PROVE  AccountsInv' /\ Lasting
<1>1. CASE deactivateUser(r)
  BY <1>1, ArriveStep, NamesAssumption DEF deactivateUser
<1>2. CASE deleteUser(r)
  BY <1>2, ArriveStep, NamesAssumption DEF deleteUser
<1>3. CASE Login(r)
  BY <1>3, ArriveStep DEF Login
<1>4. CASE loginSubmit(r)
  BY <1>4, ArriveStep DEF loginSubmit
<1>5. CASE verifyBasic(r)
  BY <1>5, ArriveStep DEF verifyBasic
<1>6. CASE requireSession(r)
  BY <1>6, ArriveStep, NamesAssumption DEF requireSession
<1>7. CASE verifyAPIKey(r)
  BY <1>7, ArriveStep, NamesAssumption DEF verifyAPIKey
<1> QED
  BY <1>1, <1>2, <1>3, <1>4, <1>5, <1>6, <1>7

LEMMA AccountsInductive ==
  ASSUME AccountsInv, [Next]_vars
  PROVE  AccountsInv' /\ Lasting
<1>1. ASSUME NEW n \in Nodes, Start(n) \/ EnsureAdminUser(n) \/ SeedAdmin(n) \/ Stop(n)
      PROVE  AccountsInv' /\ Lasting
  BY <1>1, NodeStep, SeedStep
<1>2. CASE Administer \/ Expire
  BY <1>2, CreateStep, PasswordStep, ActivateStep, KeyStep, ExpireStep
     DEF Administer, changeUserPassword, ChangePasswordAPI, createAPIKey, CreateAPIKeyAPI,
         revokeAPIKey, RevokeAPIKeyAPI
<1>3. ASSUME NEW r \in Slots, Request(r)
      PROVE  AccountsInv' /\ Lasting
  BY <1>3, ArrivalStep, FindStep, CloseStep, ReadStep, JudgeStep DEF Request
<1>4. CASE UNCHANGED vars
  <2>1. Lasting
    BY <1>4, QuietTables DEF vars
  <2>2. TypeInv' /\ AdminsInv' /\ SeededInv' /\ \A q \in Slots : Frame(q)
    BY <1>4 DEF vars, requests, AccountsInv, TypeInv, AdminsInv, SeededInv, Admin, Used,
                Taken, Frame
  <2> QED
    BY <2>1, <2>2, FrameKeeps DEF AccountsInv
<1> QED
  BY <1>1, <1>2, <1>3, <1>4 DEF Next

LEMMA AccountsAlways == Spec => []AccountsInv
<1>1. AccountsInv /\ [Next]_vars => AccountsInv'
  BY AccountsInductive
<1> QED
  BY <1>1, AccountsInit, PTL DEF Spec

-----------------------------------------------------------------------------
(* However many nodes start on an empty database, crash and start again,    *)
(* one account is seeded at most.                                           *)
THEOREM OneIsSeeded == Spec => []SeededOnce
<1>1. AccountsInv => SeededOnce
  BY DEF AccountsInv, SeededInv, SeededOnce
<1> QED
  BY <1>1, AccountsAlways, PTL

(* A node that was told to seed never serves without an administrator.      *)
THEOREM ServesOnlyAdministered == Spec => []ServesAdministered
<1>1. AccountsInv => ServesAdministered
  BY DEF AccountsInv, AdminsInv, ServesAdministered, Admin, LiveUsers, LiveUser
<1> QED
  BY <1>1, AccountsAlways, PTL

(* Who gets in had credentials that held at some instant since the request  *)
(* arrived, whatever administrators change between its statements.          *)
THEOREM IdentityJustified == Spec => []AuthenticationJustified
<1>1. AccountsInv => AuthenticationJustified
  BY DEF AccountsInv, RequestInv, Identifying, AuthenticationJustified
<1> QED
  BY <1>1, AccountsAlways, PTL

(* No request deactivates or deletes an administrator's account, although   *)
(* the row that tells is read one statement earlier.                        *)
THEOREM AdministratorsStay == Spec => AdminsStay
<1>1. AccountsInv /\ [Next]_vars =>
        [\A u \in Users :
            users[u].admin => /\ users'[u].admin /\ users'[u].active
                              /\ users'[u].status = users[u].status]_vars
  BY AccountsInductive DEF Lasting, Admin
<1> QED
  BY <1>1, AccountsAlways, PTL DEF Spec, AdminsStay
=============================================================================
