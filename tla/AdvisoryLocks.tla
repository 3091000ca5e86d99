---------------------------- MODULE AdvisoryLocks ----------------------------
(***************************************************************************)
(* PGLocker (internal/cluster/locker.go): the lock that DocumentVersions   *)
(* takes in one step, as handlers, the connection pool and PostgreSQL make *)
(* it.  A handler draws a session from the pool, asks for the lock and     *)
(* waits; its request may be cancelled at any time (client gone, 60 s      *)
(* timeout) and any session may break.                                     *)
(*                                                                         *)
(* pgx and database/sql, which are not part of the repository, are         *)
(* modelled from how the locker relies on them: a statement whose context  *)
(* is done already is not sent; one that is cancelled under way closes its *)
(* session; conn.Close returns a sound session to the pool.                *)
(***************************************************************************)
EXTENDS Integers

CONSTANTS
    Handlers,  \* handlers of all the nodes that lock
    Keys,      \* lock keys: "doc:<id>" and "bucket:<id>"
    LockIDs,   \* 64-bit advisory lock identifiers
    KeyToID,   \* keyToInt64: keys may collide
    Sessions,  \* database sessions the pools may open
    None       \* no key, no session, no owner

ASSUME KeyToIDAssumption == KeyToID \in [Keys -> LockIDs]
ASSUME NoneAssumption == None \notin Sessions \cup Keys \cup Handlers

VARIABLES
    pc,         \* where a handler is in Lock or unlock
    key,        \* the key it locks
    sess,       \* its dedicated connection
    cancelled,  \* its request context is done
    pool,       \* state of each session
    owner,      \* PostgreSQL: the session that holds a lock
    depth       \* and how many times it has taken it

vars == <<pc, key, sess, cancelled, pool, owner, depth>>

PCs == {"idle", "connect", "asking", "waiting", "granted", "critical", "unlock"}

Init ==
    /\ pc = [h \in Handlers |-> "idle"]
    /\ key = [h \in Handlers |-> None]
    /\ sess = [h \in Handlers |-> None]
    /\ cancelled = [h \in Handlers |-> FALSE]
    /\ pool = [s \in Sessions |-> "closed"]
    /\ owner = [i \in LockIDs |-> None]
    /\ depth = [i \in LockIDs |-> 0]

ID(h) == KeyToID[key[h]]

Goto(h, label) == pc' = [pc EXCEPT ![h] = label]

\* The handler is through with Lock or unlock and lets go of its session.
Finish(h) ==
    /\ Goto(h, "idle")
    /\ key' = [key EXCEPT ![h] = None]
    /\ sess' = [sess EXCEPT ![h] = None]
    /\ cancelled' = [cancelled EXCEPT ![h] = FALSE]

\* PostgreSQL drops every lock of a session that ends.
Drop(s) ==
    /\ owner' = [i \in LockIDs |-> IF owner[i] = s THEN None ELSE owner[i]]
    /\ depth' = [i \in LockIDs |-> IF owner[i] = s THEN 0 ELSE depth[i]]

-----------------------------------------------------------------------------
Request(h, k) ==
    /\ pc[h] = "idle"
    /\ key' = [key EXCEPT ![h] = k]
    /\ Goto(h, "connect")
    /\ UNCHANGED <<sess, cancelled, pool, owner, depth>>

Cancel(h) ==
    /\ pc[h] # "idle"
    /\ ~cancelled[h]
    /\ cancelled' = [cancelled EXCEPT ![h] = TRUE]
    /\ UNCHANGED <<pc, key, sess, pool, owner, depth>>

\* Mutant: the statements go through the pool's shared connections.
ConnectShared(h) ==
    /\ pc[h] = "connect"
    /\ ~cancelled[h]
    /\ \E s \in Sessions :
          /\ pool[s] # "broken"
          /\ pool' = [pool EXCEPT ![s] = "used"]
          /\ sess' = [sess EXCEPT ![h] = s]
    /\ Goto(h, "asking")
    /\ UNCHANGED <<key, cancelled, owner, depth>>

\* db.Conn: an idle session of the pool or a new one, for this handler alone.
Connect(h) ==
    /\ pc[h] = "connect"
    /\ ~cancelled[h]
    /\ \E s \in Sessions :
          /\ pool[s] \in {"idle", "closed"}
          /\ pool' = [pool EXCEPT ![s] = "used"]
          /\ sess' = [sess EXCEPT ![h] = s]
    /\ Goto(h, "asking")
    /\ UNCHANGED <<key, cancelled, owner, depth>>

ConnectFails(h) ==
    /\ pc[h] = "connect"
    /\ Finish(h)
    /\ UNCHANGED <<pool, owner, depth>>

\* Mutant: pg_try_advisory_lock, and the answer is not looked at.
AskTry(h) ==
    /\ pc[h] = "asking"
    /\ pool[sess[h]] = "used"
    /\ IF owner[ID(h)] \in {None, sess[h]}
       THEN /\ owner' = [owner EXCEPT ![ID(h)] = sess[h]]
            /\ depth' = [depth EXCEPT ![ID(h)] = @ + 1]
       ELSE UNCHANGED <<owner, depth>>
    /\ Goto(h, "granted")
    /\ UNCHANGED <<key, sess, cancelled, pool>>

\* pg_advisory_lock is sent, unless the context is done: then conn.Close
\* gives the untouched session back.
Ask(h) ==
    /\ pc[h] = "asking"
    /\ \/ /\ ~cancelled[h] /\ pool[sess[h]] = "used"
          /\ Goto(h, "waiting")
          /\ UNCHANGED <<key, sess, cancelled, pool, owner, depth>>
       \/ /\ cancelled[h] /\ pool[sess[h]] = "used"
          /\ pool' = [pool EXCEPT ![sess[h]] = "idle"]
          /\ Finish(h)
          /\ UNCHANGED <<owner, depth>>

\* PostgreSQL grants the lock, at once to the session that has it already.
Grant(h) ==
    /\ pc[h] = "waiting"
    /\ pool[sess[h]] = "used"
    /\ owner[ID(h)] \in {None, sess[h]}
    /\ owner' = [owner EXCEPT ![ID(h)] = sess[h]]
    /\ depth' = [depth EXCEPT ![ID(h)] = @ + 1]
    /\ Goto(h, "granted")
    /\ UNCHANGED <<key, sess, cancelled, pool>>

\* Lock returns its unlock function; the handler's body begins.
Enter(h) ==
    /\ pc[h] = "granted"
    /\ pool[sess[h]] = "used"
    /\ Goto(h, "critical")
    /\ UNCHANGED <<key, sess, cancelled, pool, owner, depth>>

\* Mutant: a cancelled wait gives the session back as if it were untouched.
AbortKeepsSession(h) ==
    /\ pc[h] \in {"waiting", "granted"}
    /\ cancelled[h]
    /\ pool[sess[h]] = "used"
    /\ pool' = [pool EXCEPT ![sess[h]] = "idle"]
    /\ Finish(h)
    /\ UNCHANGED <<owner, depth>>

\* The context is done while the statement is under way, perhaps just granted:
\* the session is closed and conn.Close discards it.
Abort(h) ==
    /\ pc[h] \in {"waiting", "granted"}
    /\ cancelled[h]
    /\ pool[sess[h]] = "used"
    /\ pool' = [pool EXCEPT ![sess[h]] = "closed"]
    /\ Drop(sess[h])
    /\ Finish(h)

\* The handler's body ends, its context cancelled or not: deferred unlock.
Leave(h) ==
    /\ pc[h] = "critical"
    /\ Goto(h, "unlock")
    /\ UNCHANGED <<key, sess, cancelled, pool, owner, depth>>

\* Mutant: pg_advisory_unlock runs under the request context.
UnlockWithRequestContext(h) ==
    /\ pc[h] = "unlock"
    /\ pool[sess[h]] = "used"
    /\ IF ~cancelled[h] /\ owner[ID(h)] = sess[h]
       THEN /\ depth' = [depth EXCEPT ![ID(h)] = @ - 1]
            /\ owner' = [owner EXCEPT ![ID(h)] = IF depth[ID(h)] = 1 THEN None ELSE @]
       ELSE UNCHANGED <<owner, depth>>
    /\ pool' = [pool EXCEPT ![sess[h]] = "idle"]
    /\ Finish(h)

\* pg_advisory_unlock under a background context, then conn.Close.
Unlock(h) ==
    /\ pc[h] = "unlock"
    /\ pool[sess[h]] = "used"
    /\ IF owner[ID(h)] = sess[h]
       THEN /\ depth' = [depth EXCEPT ![ID(h)] = @ - 1]
            /\ owner' = [owner EXCEPT ![ID(h)] = IF depth[ID(h)] = 1 THEN None ELSE @]
       ELSE UNCHANGED <<owner, depth>>
    /\ pool' = [pool EXCEPT ![sess[h]] = "idle"]
    /\ Finish(h)

\* A session breaks.  The pool notices when an idle one is drawn; a handler
\* that uses it only when it sends the next statement.
SessionLost(s) ==
    /\ pool[s] \in {"idle", "used"}
    /\ pool' = [pool EXCEPT ![s] = IF @ = "used" THEN "broken" ELSE "closed"]
    /\ Drop(s)
    /\ UNCHANGED <<pc, key, sess, cancelled>>

\* The statement on a broken session fails and conn.Close discards it.
Discard(h) ==
    /\ pc[h] \in {"asking", "waiting", "granted", "unlock"}
    /\ pool[sess[h]] = "broken"
    /\ pool' = [pool EXCEPT ![sess[h]] = "closed"]
    /\ Finish(h)
    /\ UNCHANGED <<owner, depth>>

-----------------------------------------------------------------------------
Step(h) ==
    \/ Connect(h) \/ ConnectFails(h) \/ Ask(h) \/ Enter(h)
    \/ Abort(h) \/ Leave(h) \/ Unlock(h) \/ Discard(h)

Next ==
    \/ \E h \in Handlers :
          \/ \E k \in Keys : Request(h, k)
          \/ Cancel(h)
          \/ Step(h)
          \/ Grant(h)
    \/ \E s \in Sessions : SessionLost(s)

Spec == Init /\ [][Next]_vars

(***************************************************************************)
(* Handlers go on when they can.  PostgreSQL serves the waiters of a lock  *)
(* in order, so that none is passed over for ever (strong fairness).       *)
(* Nothing is cancelled and no session breaks out of fairness.             *)
(***************************************************************************)
FairSpec ==
    /\ Spec
    /\ \A h \in Handlers : WF_vars(Step(h)) /\ SF_vars(Grant(h))

-----------------------------------------------------------------------------
TypeOK ==
    /\ pc \in [Handlers -> PCs]
    /\ key \in [Handlers -> Keys \cup {None}]
    /\ sess \in [Handlers -> Sessions \cup {None}]
    /\ cancelled \in [Handlers -> BOOLEAN]
    /\ pool \in [Sessions -> {"closed", "idle", "used", "broken"}]
    /\ owner \in [LockIDs -> Sessions \cup {None}]
    /\ depth \in [LockIDs -> Nat]

(* Cluster-wide mutual exclusion: of the handlers that lock the same key   *)
(* at most one with a live session is between Lock and unlock.             *)
MutualExclusion ==
    \A g, h \in Handlers :
        (/\ pc[g] = "critical" /\ pool[sess[g]] = "used"
         /\ pc[h] = "critical" /\ pool[sess[h]] = "used"
         /\ key[g] = key[h]) => g = h

Holds(h, k) ==
    /\ pc[h] \in {"granted", "critical", "unlock"}
    /\ pool[sess[h]] = "used"
    /\ key[h] = k

heldBy == [k \in Keys |-> IF \E h \in Handlers : Holds(h, k)
                          THEN CHOOSE h \in Handlers : Holds(h, k) ELSE None]

KL == INSTANCE KeyedLock WITH Nobody <- None, held <- heldBy

(* Sessions, pool and PostgreSQL's table together are a lock on keys as    *)
(* the handlers take it for: a key goes from one handler to another only   *)
(* by being unlocked or by the end of the session that held it.            *)
ImplementsKeyedLock == KL!Spec

(* No lock goes astray: whoever is cancelled or breaks, every lock that    *)
(* PostgreSQL holds is held for a handler that still has to unlock it,     *)
(* never by a session that is back in the pool.                            *)
LocksAccounted ==
    \A i \in LockIDs :
        owner[i] # None =>
            \E h \in Handlers :
                /\ sess[h] = owner[i]
                /\ pc[h] \in {"granted", "critical", "unlock"}
                /\ ID(h) = i

(* Every request for a lock ends, in the handler's turn or with an error:  *)
(* no one waits for a lock that nobody will give back.                     *)
EveryLockServed == \A h \in Handlers : pc[h] # "idle" ~> pc[h] = "idle"
=============================================================================
