--------------------------- MODULE LeaderElection ---------------------------
(***************************************************************************)
(* Leader election of a TinyDM cluster (internal/cluster/leader.go).  Every *)
(* node keeps one database session for the advisory lock leaderLockID, a   *)
(* flag that IsLeader and /health report, and a row in cluster_nodes.  Two *)
(* threads of a node touch them: the main one (Start, then Stop on a       *)
(* signal) and the heartbeat goroutine.  Nodes crash and restart, sessions *)
(* break, statements fail, and so may one that PostgreSQL has executed:    *)
(* the answer is lost, whether the session survives or not.                *)
(*                                                                         *)
(* Abstracted: time (a tick may come whenever the goroutine waits) and the *)
(* rest of the node.                                                       *)
(***************************************************************************)
CONSTANTS
    Nodes,   \* the nodes of the cluster
    Nobody   \* "no node": the lock is free

ASSUME NobodyAssumption == Nobody \notin Nodes

VARIABLES
    main,    \* where the main thread of a node is
    loop,    \* where its heartbeat goroutine is
    flag,    \* e.leader
    conn,    \* e.conn: the session that is to hold the lock
    holder,  \* the node whose session holds leaderLockID
    rows,    \* table cluster_nodes: what is_leader says of a node
    unheard  \* history: nodes whose heartbeat was granted the lock and lost
             \* the answer, until a later one tells them

electionVars == <<main, loop, flag, conn, holder, rows, unheard>>

MainPCs == {"off", "try", "granted", "register", "serving", "join", "unmark",
            "unmarked", "leftMarked"}
LoopPCs == {"off", "wait", "beat", "try", "granted", "done"}

ElectionInit ==
    /\ main = [n \in Nodes |-> "off"]
    /\ loop = [n \in Nodes |-> "off"]
    /\ flag = [n \in Nodes |-> FALSE]
    /\ conn = [n \in Nodes |-> "none"]
    /\ holder = Nobody
    /\ rows = [n \in Nodes |-> "none"]
    /\ unheard = {}

-----------------------------------------------------------------------------
\* The node starts and Start gets its dedicated connection.
Launch(n) ==
    /\ main[n] = "off"
    /\ main' = [main EXCEPT ![n] = "try"]
    /\ conn' = [conn EXCEPT ![n] = "open"]
    /\ UNCHANGED <<loop, flag, holder, rows, unheard>>

\* Start's pg_try_advisory_lock; the answer that it is taken becomes the flag.
StartTry(n) ==
    /\ main[n] = "try"
    /\ conn[n] = "open"
    /\ \/ /\ holder = Nobody
          /\ holder' = n
          /\ main' = [main EXCEPT ![n] = "granted"]
       \/ /\ holder # Nobody
          /\ holder' = holder
          /\ main' = [main EXCEPT ![n] = "register"]
    /\ UNCHANGED <<loop, flag, conn, rows, unheard>>

\* Start gets the answer that the lock was granted and stores the flag.  (When
\* the answer is lost Start returns the error and the process ends: Exit.)
StartKnows(n) ==
    /\ main[n] = "granted"
    /\ flag' = [flag EXCEPT ![n] = TRUE]
    /\ main' = [main EXCEPT ![n] = "register"]
    /\ UNCHANGED <<loop, conn, holder, rows, unheard>>

\* upsertHeartbeat: an error is logged and forgotten.
Upsert(n) ==
    \/ rows' = [rows EXCEPT ![n] = IF flag[n] THEN "leader" ELSE "follower"]
    \/ rows' = rows

\* Start registers the node and sets the heartbeat goroutine going.
Register(n) ==
    /\ main[n] = "register"
    /\ Upsert(n)
    /\ main' = [main EXCEPT ![n] = "serving"]
    /\ loop' = [loop EXCEPT ![n] = "wait"]
    /\ UNCHANGED <<flag, conn, holder, unheard>>

-----------------------------------------------------------------------------
\* The ticker fires.  select may prefer it to a stopCh that is closed.
Tick(n) ==
    /\ loop[n] = "wait"
    /\ loop' = [loop EXCEPT ![n] = "beat"]
    /\ UNCHANGED <<main, flag, conn, holder, rows, unheard>>

Beat(n) ==
    /\ loop[n] = "beat"
    /\ Upsert(n)
    /\ loop' = [loop EXCEPT ![n] = "try"]
    /\ UNCHANGED <<main, flag, conn, holder, unheard>>

\* Mutant: the test of the flag is inverted.
WinIfLeader(n) ==
    /\ loop[n] = "try"
    /\ flag[n]
    /\ conn[n] = "open"
    /\ holder \in {Nobody, n}
    /\ holder' = n
    /\ loop' = [loop EXCEPT ![n] = "granted"]
    /\ UNCHANGED <<main, flag, conn, rows, unheard>>

\* Mutant: the answer of pg_try_advisory_lock is not looked at.
WinWhenAsked(n) ==
    /\ loop[n] = "try"
    /\ ~flag[n]
    /\ conn[n] = "open"
    /\ holder' = IF holder = Nobody THEN n ELSE holder
    /\ loop' = [loop EXCEPT ![n] = "granted"]
    /\ UNCHANGED <<main, flag, conn, rows, unheard>>

\* PostgreSQL grants the lock to a node that does not lead: it was free, or
\* this very session has it and the answer was lost the last time.
Win(n) ==
    /\ loop[n] = "try"
    /\ ~flag[n]
    /\ conn[n] = "open"
    /\ holder \in {Nobody, n}
    /\ holder' = n
    /\ loop' = [loop EXCEPT ![n] = "granted"]
    /\ UNCHANGED <<main, flag, conn, rows, unheard>>

\* The answer arrives and the flag is stored, whatever happened since.
BeatKnows(n) ==
    /\ loop[n] = "granted"
    /\ flag' = [flag EXCEPT ![n] = TRUE]
    /\ unheard' = unheard \ {n}
    /\ loop' = [loop EXCEPT ![n] = "wait"]
    /\ UNCHANGED <<main, conn, holder, rows>>

\* The heartbeat's three seconds are over, or the network fails, before the
\* answer is read: the error is ignored and the flag stays down.
AnswerLost(n) ==
    /\ loop[n] = "granted"
    /\ unheard' = unheard \cup {n}
    /\ loop' = [loop EXCEPT ![n] = "wait"]
    /\ UNCHANGED <<main, flag, conn, holder, rows>>

\* The node leads already (and does not ask again), the lock is taken, or the
\* statement fails, as it always does once the session is lost.
NoWin(n) ==
    /\ loop[n] = "try"
    /\ loop' = [loop EXCEPT ![n] = "wait"]
    /\ UNCHANGED <<main, flag, conn, holder, rows, unheard>>

-----------------------------------------------------------------------------
\* Stop closes stopCh...
Signal(n) ==
    /\ main[n] = "serving"
    /\ main' = [main EXCEPT ![n] = "join"]
    /\ UNCHANGED <<loop, flag, conn, holder, rows, unheard>>

LoopEnds(n) ==
    /\ loop[n] = "wait"
    /\ main[n] = "join"
    /\ loop' = [loop EXCEPT ![n] = "done"]
    /\ UNCHANGED <<main, flag, conn, holder, rows, unheard>>

\* Mutant: Stop does not wait for the goroutine.
ReleaseUnjoined(n) ==
    /\ main[n] = "join"
    /\ \/ holder' = IF flag[n] /\ holder = n THEN Nobody ELSE holder
       \/ holder' = holder
    /\ main' = [main EXCEPT ![n] = "unmark"]
    /\ UNCHANGED <<loop, flag, conn, rows, unheard>>

\* ...waits for the goroutine (wg.Wait) and unlocks.  The lock stays when the
\* statement fails, which is ignored, or after a lost answer was granted twice...
Release(n) ==
    /\ main[n] = "join"
    /\ loop[n] = "done"
    /\ \/ holder' = IF flag[n] /\ holder = n THEN Nobody ELSE holder
       \/ holder' = holder
    /\ main' = [main EXCEPT ![n] = "unmark"]
    /\ UNCHANGED <<loop, flag, conn, rows, unheard>>

\* ...and sets is_leader to false; again an error is ignored.
Unmark(n) ==
    /\ main[n] = "unmark"
    /\ \/ /\ rows' = [rows EXCEPT ![n] = IF @ = "leader" THEN "follower" ELSE @]
          /\ main' = [main EXCEPT ![n] = "unmarked"]
       \/ /\ rows' = rows
          /\ main' = [main EXCEPT ![n] = "leftMarked"]
    /\ UNCHANGED <<loop, flag, conn, holder, unheard>>

\* The process ends: after Stop, because Start failed, or in a crash at any
\* point.  PostgreSQL releases the locks of its sessions.
Exit(n) ==
    /\ main[n] # "off"
    /\ main' = [main EXCEPT ![n] = "off"]
    /\ loop' = [loop EXCEPT ![n] = "off"]
    /\ flag' = [flag EXCEPT ![n] = FALSE]
    /\ conn' = [conn EXCEPT ![n] = "none"]
    /\ holder' = IF holder = n THEN Nobody ELSE holder
    /\ unheard' = unheard \ {n}
    /\ UNCHANGED rows

\* The session breaks: network, statement timeout, restart of the database.
\* Nobody tells the node, and nothing opens the session again.
ConnectionLost(n) ==
    /\ conn[n] = "open"
    /\ conn' = [conn EXCEPT ![n] = "lost"]
    /\ holder' = IF holder = n THEN Nobody ELSE holder
    /\ UNCHANGED <<main, loop, flag, rows, unheard>>

-----------------------------------------------------------------------------
Heartbeat(n) ==
    Tick(n) \/ Beat(n) \/ Win(n) \/ BeatKnows(n) \/ AnswerLost(n) \/ NoWin(n) \/ LoopEnds(n)

ElectionNext == \E n \in Nodes :
    \/ Launch(n) \/ StartTry(n) \/ StartKnows(n) \/ Register(n)
    \/ Heartbeat(n)
    \/ Signal(n) \/ Release(n) \/ Unmark(n) \/ Exit(n)
    \/ ConnectionLost(n)

ElectionSpec == ElectionInit /\ [][ElectionNext]_electionVars

(***************************************************************************)
(* The goroutine runs and the ticker ticks (weak fairness); a statement    *)
(* that keeps finding the lock free does not fail for ever (strong         *)
(* fairness of Win).                                                       *)
(***************************************************************************)
FairElection ==
    /\ ElectionSpec
    /\ \A n \in Nodes : WF_electionVars(Heartbeat(n)) /\ SF_electionVars(Win(n))

-----------------------------------------------------------------------------
ElectionTypeOK ==
    /\ main \in [Nodes -> MainPCs]
    /\ loop \in [Nodes -> LoopPCs]
    /\ flag \in [Nodes -> BOOLEAN]
    /\ conn \in [Nodes -> {"none", "open", "lost"}]
    /\ holder \in Nodes \cup {Nobody}
    /\ rows \in [Nodes -> {"none", "leader", "follower"}]
    /\ unheard \subseteq Nodes

IsLeader(n) == main[n] = "serving" /\ flag[n]

(* Two nodes whose sessions are alive never both report leadership,        *)
(* whatever starts, stops and crashes: the flag is only set on the answer  *)
(* of pg_try_advisory_lock and the lock only given back by Stop.           *)
SoleLeader ==
    \A m, n \in Nodes :
        (IsLeader(m) /\ IsLeader(n) /\ conn[m] = "open" /\ conn[n] = "open")
            => m = n

(* The lock never strays: a session that holds it is open, and its node    *)
(* knows, or is on the way from the grant to the flag in a thread that     *)
(* Stop waits for.  So Stop, which unlocks by the flag, gives the lock     *)
(* back, unless the answer of the grant was lost.                          *)
HolderKnows ==
    \A n \in Nodes : holder = n =>
        /\ conn[n] = "open"
        /\ \/ flag[n]
           \/ n \in unheard
           \/ main[n] = "granted"
           \/ main[n] \in {"serving", "join"} /\ loop[n] = "granted"

(* Once Stop has set is_leader to false it stays so: no heartbeat that was *)
(* on its way marks the row again behind Stop's back.                      *)
UnmarkedOnceStopped ==
    \A n \in Nodes : main[n] = "unmarked" => rows[n] # "leader"

(* Leadership migrates: as long as one node goes on serving with its       *)
(* session open, the lock is held again and again, however the others stop *)
(* and crash.                                                              *)
LeaderEmerges ==
    (\E n \in Nodes : <>[](main[n] = "serving" /\ conn[n] = "open"))
        => []<>(holder # Nobody)
=============================================================================
