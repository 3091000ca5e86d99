---------------------------- MODULE ClusterProofs ----------------------------
(***************************************************************************)
(* Proofs about what the nodes of a cluster share: AdvisoryLocks for any   *)
(* handlers, sessions, keys and hash, LeaderElection for any set of nodes. *)
(***************************************************************************)
EXTENDS AdvisoryLocks, LeaderElection, TLAPS

WithSession == {"asking", "waiting", "granted", "critical", "unlock"}
Holding == {"granted", "critical", "unlock"}

(* A handler past Connect has a session of its own; one that is not idle   *)
(* has a key.                                                              *)
OwnSession ==
    /\ \A h \in Handlers :
          /\ pc[h] # "idle" => key[h] \in Keys
          /\ pc[h] \in WithSession =>
                sess[h] \in Sessions /\ pool[sess[h]] \in {"used", "broken"}
          /\ pc[h] \notin WithSession => sess[h] = None
    /\ \A g, h \in Handlers :
          (pc[g] \in WithSession /\ pc[h] \in WithSession /\ sess[g] = sess[h])
             => g = h

(* A handler that was granted the lock holds it while its session lives.   *)
GrantedHold ==
    \A h \in Handlers :
        (pc[h] \in Holding /\ pool[sess[h]] = "used") => owner[ID(h)] = sess[h]

(* Locks are not nested, and belong to sessions in use.                    *)
HeldOnce ==
    \A i \in LockIDs :
        /\ depth[i] = (IF owner[i] = None THEN 0 ELSE 1)
        /\ owner[i] # None => pool[owner[i]] = "used"

LockInv ==
    /\ TypeOK
    /\ OwnSession
    /\ GrantedHold
    /\ HeldOnce
    /\ LocksAccounted

LEMMA LockInit == Init => LockInv
  BY DEF Init, LockInv, TypeOK, OwnSession, GrantedHold, HeldOnce,
         LocksAccounted, PCs, WithSession, Holding

LEMMA IDTyped ==
  ASSUME LockInv, NEW h \in Handlers, pc[h] # "idle"
  PROVE  ID(h) \in LockIDs
  BY KeyToIDAssumption DEF LockInv, OwnSession, ID

-----------------------------------------------------------------------------
(* Steps that leave sessions and locks alone. *)
LEMMA QuietSteps ==
  ASSUME LockInv, NEW h \in Handlers,
         \/ \E k \in Keys : Request(h, k)
         \/ Cancel(h) \/ ConnectFails(h) \/ Enter(h) \/ Leave(h)
         \/ Ask(h) /\ ~cancelled[h]
  PROVE  LockInv'
<1> USE KeyToIDAssumption, NoneAssumption
    DEF LockInv, TypeOK, PCs, WithSession, Holding, Goto, Finish, ID
<1>1. UNCHANGED <<pool, owner, depth>>
  BY DEF Request, Cancel, ConnectFails, Enter, Leave, Ask
<1>2. CASE \E k \in Keys : Request(h, k)
  BY <1>1, <1>2 DEF Request, OwnSession, GrantedHold, HeldOnce, LocksAccounted
<1>3. CASE Cancel(h)
  BY <1>1, <1>3 DEF Cancel, OwnSession, GrantedHold, HeldOnce, LocksAccounted
<1>4. CASE ConnectFails(h)
  BY <1>1, <1>4 DEF ConnectFails, OwnSession, GrantedHold, HeldOnce, LocksAccounted
<1>5. CASE Enter(h)
  BY <1>1, <1>5 DEF Enter, OwnSession, GrantedHold, HeldOnce, LocksAccounted
<1>6. CASE Leave(h)
  BY <1>1, <1>6 DEF Leave, OwnSession, GrantedHold, HeldOnce, LocksAccounted
<1>7. CASE Ask(h) /\ ~cancelled[h]
  BY <1>1, <1>7 DEF Ask, OwnSession, GrantedHold, HeldOnce, LocksAccounted
<1> QED
  BY <1>2, <1>3, <1>4, <1>5, <1>6, <1>7

(* A handler draws a session that nobody uses. *)
LEMMA ConnectStep ==
  ASSUME LockInv, NEW h \in Handlers, Connect(h)
  PROVE  LockInv'
<1> USE KeyToIDAssumption, NoneAssumption
    DEF LockInv, TypeOK, PCs, WithSession, Holding, ID
<1>1. PICK s \in Sessions :
        /\ pool[s] \in {"idle", "closed"}
        /\ pool' = [pool EXCEPT ![s] = "used"]
        /\ sess' = [sess EXCEPT ![h] = s]
  BY DEF Connect
<1>2. /\ pc[h] = "connect" /\ pc' = [pc EXCEPT ![h] = "asking"]
      /\ UNCHANGED <<key, cancelled, owner, depth>>
  BY DEF Connect, Goto
<1>3. \A g \in Handlers : pc[g] \in WithSession => sess[g] # s
  BY <1>1 DEF OwnSession
<1>4. TypeOK' /\ OwnSession'
  BY <1>1, <1>2, <1>3 DEF OwnSession
<1>5. GrantedHold' /\ HeldOnce' /\ LocksAccounted'
  BY <1>1, <1>2, <1>3 DEF GrantedHold, HeldOnce, LocksAccounted
<1> QED
  BY <1>4, <1>5

LEMMA GrantStep ==
  ASSUME LockInv, NEW h \in Handlers, Grant(h)
  PROVE  LockInv'
<1> USE NoneAssumption DEF LockInv, TypeOK, PCs, WithSession, Holding
<1> DEFINE i == ID(h)
           s == sess[h]
<1>1. /\ pc[h] = "waiting" /\ i \in LockIDs /\ s \in Sessions /\ pool[s] = "used"
      /\ owner[i] \in {None, s}
      /\ owner' = [owner EXCEPT ![i] = s]
      /\ depth' = [depth EXCEPT ![i] = @ + 1]
      /\ pc' = [pc EXCEPT ![h] = "granted"]
      /\ UNCHANGED <<key, sess, cancelled, pool>>
  BY IDTyped DEF Grant, Goto, OwnSession
<1>2. owner[i] = None
  BY <1>1 DEF LocksAccounted, OwnSession
<1>3. \A g \in Handlers : ID(g)' = ID(g)
  BY <1>1 DEF ID
<1>4. TypeOK' /\ OwnSession'
  BY <1>1 DEF OwnSession
<1>5. HeldOnce'
  BY <1>1, <1>2 DEF HeldOnce
<1>6. GrantedHold'
  <2>1. ASSUME NEW g \in Handlers, pc'[g] \in Holding, pool'[sess'[g]] = "used"
        PROVE  owner'[ID(g)'] = sess'[g]
    <3>1. CASE g = h
      BY <1>1, <1>3, <3>1
    <3>2. CASE g # h
      <4>1. owner[ID(g)] = sess[g] /\ sess[g] \in Sessions
        BY <1>1, <2>1, <3>2 DEF GrantedHold, OwnSession
      <4>2. ID(g) # i
        BY <1>2, <4>1
      <4> QED
        BY <1>1, <1>3, <4>1, <4>2
    <3> QED
      BY <3>1, <3>2
  <2> QED
    BY <2>1 DEF GrantedHold
<1>7. LocksAccounted'
  <2>1. ASSUME NEW j \in LockIDs, owner'[j] # None
        PROVE  \E g \in Handlers : sess'[g] = owner'[j] /\ pc'[g] \in Holding /\ ID(g)' = j
    <3>1. CASE j = i
      BY <1>1, <1>3, <3>1
    <3>2. CASE j # i
      <4>1. PICK g \in Handlers : sess[g] = owner[j] /\ pc[g] \in Holding /\ ID(g) = j
        BY <1>1, <2>1, <3>2 DEF LocksAccounted
      <4> QED
        BY <1>1, <1>3, <3>2, <4>1
    <3> QED
      BY <3>1, <3>2
  <2> QED
    BY <2>1 DEF LocksAccounted
<1> QED
  BY <1>4, <1>5, <1>6, <1>7

(* A handler gives its session up, and every lock of it is gone.           *)
LEMMA GiveUp ==
  ASSUME LockInv, NEW h \in Handlers, pc[h] \in WithSession, Finish(h),
         NEW status \in {"idle", "closed"},
         pool' = [pool EXCEPT ![sess[h]] = status],
         owner' = [i \in LockIDs |-> IF owner[i] = sess[h] THEN None ELSE owner[i]],
         depth' = [i \in LockIDs |-> IF owner[i] = sess[h] THEN 0 ELSE depth[i]]
  PROVE  LockInv'
<1> USE NoneAssumption DEF LockInv, TypeOK, PCs, WithSession, Holding
<1> DEFINE s == sess[h]
<1>1. /\ s \in Sessions
      /\ pc' = [pc EXCEPT ![h] = "idle"]
      /\ key' = [key EXCEPT ![h] = None]
      /\ sess' = [sess EXCEPT ![h] = None]
      /\ cancelled' = [cancelled EXCEPT ![h] = FALSE]
  BY DEF OwnSession, Finish, Goto
<1>2. \A g \in Handlers : g # h => /\ ID(g)' = ID(g) /\ pc'[g] = pc[g]
                                   /\ sess'[g] = sess[g] /\ key'[g] = key[g]
                                   /\ pc[g] \in WithSession => sess[g] # s
  BY <1>1 DEF ID, OwnSession
<1>3. TypeOK'
  BY <1>1
<1>4. OwnSession'
  BY <1>1, <1>2 DEF OwnSession
<1>5. HeldOnce'
  BY <1>1 DEF HeldOnce
<1>6. GrantedHold'
  <2>1. ASSUME NEW g \in Handlers, pc'[g] \in Holding, pool'[sess'[g]] = "used"
        PROVE  owner'[ID(g)'] = sess'[g]
    <3>1. g # h
      BY <1>1, <2>1
    <3>2. pc[g] # "idle" /\ sess[g] # s /\ sess[g] \in Sessions /\ pool[sess[g]] = "used"
      BY <1>1, <1>2, <2>1, <3>1 DEF OwnSession
    <3>3. owner[ID(g)] = sess[g] /\ ID(g) \in LockIDs
      BY <1>2, <2>1, <3>1, <3>2, IDTyped DEF GrantedHold
    <3> QED
      BY <1>2, <3>1, <3>2, <3>3
  <2> QED
    BY <2>1 DEF GrantedHold
<1>7. LocksAccounted'
  <2>1. ASSUME NEW j \in LockIDs, owner'[j] # None
        PROVE  \E g \in Handlers : sess'[g] = owner'[j] /\ pc'[g] \in Holding /\ ID(g)' = j
    <3>1. owner[j] # s /\ owner'[j] = owner[j]
      BY <2>1
    <3>2. PICK g \in Handlers : sess[g] = owner[j] /\ pc[g] \in Holding /\ ID(g) = j
      BY <2>1, <3>1 DEF LocksAccounted
    <3> QED
      BY <1>2, <3>1, <3>2
  <2> QED
    BY <2>1 DEF LocksAccounted
<1> QED
  BY <1>3, <1>4, <1>5, <1>6, <1>7

(* What a handler that holds no lock of its session gives up. *)
LEMMA NothingHeld ==
  ASSUME LockInv, NEW h \in Handlers, pc[h] \in WithSession,
         pc[h] \notin Holding \/ pool[sess[h]] # "used",
         UNCHANGED <<owner, depth>>
  PROVE  /\ owner' = [i \in LockIDs |-> IF owner[i] = sess[h] THEN None ELSE owner[i]]
         /\ depth' = [i \in LockIDs |-> IF owner[i] = sess[h] THEN 0 ELSE depth[i]]
<1> USE NoneAssumption DEF LockInv, TypeOK
<1>1. \A i \in LockIDs : owner[i] # sess[h]
  BY DEF LocksAccounted, OwnSession, HeldOnce, WithSession, Holding
<1> QED
  BY <1>1

(* Unlocking frees all that the session holds. *)
LEMMA UnlockFrees ==
  ASSUME LockInv, NEW h \in Handlers, Unlock(h)
  PROVE  /\ owner' = [i \in LockIDs |-> IF owner[i] = sess[h] THEN None ELSE owner[i]]
         /\ depth' = [i \in LockIDs |-> IF owner[i] = sess[h] THEN 0 ELSE depth[i]]
<1> USE NoneAssumption DEF LockInv, TypeOK
<1>1. pc[h] = "unlock" /\ pool[sess[h]] = "used" /\ sess[h] \in Sessions
  BY DEF Unlock, OwnSession, WithSession
<1>2. ID(h) \in LockIDs /\ owner[ID(h)] = sess[h]
  BY <1>1, IDTyped DEF GrantedHold, Holding
<1>3. depth[ID(h)] = 1
  BY <1>1, <1>2 DEF HeldOnce
<1>4. \A i \in LockIDs : owner[i] = sess[h] => i = ID(h)
  BY <1>1 DEF LocksAccounted, OwnSession, WithSession
<1>5. /\ owner' = [owner EXCEPT ![ID(h)] = None]
      /\ depth' = [depth EXCEPT ![ID(h)] = 0]
  BY <1>2, <1>3 DEF Unlock
<1> QED
  BY <1>2, <1>4, <1>5

LEMMA ReturnSteps ==
  ASSUME LockInv, NEW h \in Handlers,
         (Ask(h) /\ cancelled[h]) \/ Abort(h) \/ Unlock(h) \/ Discard(h)
  PROVE  LockInv'
<1>1. CASE Ask(h) /\ cancelled[h]
  <2>1. /\ pc[h] \in WithSession /\ pc[h] \notin Holding /\ Finish(h)
        /\ pool' = [pool EXCEPT ![sess[h]] = "idle"]
        /\ UNCHANGED <<owner, depth>>
    BY <1>1 DEF Ask, WithSession, Holding
  <2> QED
    BY <2>1, NothingHeld, GiveUp
<1>2. CASE Abort(h)
  <2>1. /\ pc[h] \in WithSession /\ Finish(h)
        /\ pool' = [pool EXCEPT ![sess[h]] = "closed"] /\ Drop(sess[h])
    BY <1>2 DEF Abort, WithSession
  <2> QED
    BY <2>1, GiveUp DEF Drop
<1>3. CASE Unlock(h)
  <2>1. /\ pc[h] \in WithSession /\ Finish(h)
        /\ pool' = [pool EXCEPT ![sess[h]] = "idle"]
    BY <1>3 DEF Unlock, WithSession
  <2> QED
    BY <1>3, <2>1, UnlockFrees, GiveUp
<1>4. CASE Discard(h)
  <2>1. /\ pc[h] \in WithSession /\ pool[sess[h]] # "used" /\ Finish(h)
        /\ pool' = [pool EXCEPT ![sess[h]] = "closed"]
        /\ UNCHANGED <<owner, depth>>
    BY <1>4 DEF Discard, WithSession
  <2> QED
    BY <2>1, NothingHeld, GiveUp
<1> QED
  BY <1>1, <1>2, <1>3, <1>4

LEMMA LostStep ==
  ASSUME LockInv, NEW s \in Sessions, SessionLost(s)
  PROVE  LockInv'
<1> USE KeyToIDAssumption, NoneAssumption
    DEF LockInv, TypeOK, PCs, WithSession, Holding
<1>1. /\ pool' = [pool EXCEPT ![s] = IF pool[s] = "used" THEN "broken" ELSE "closed"]
      /\ owner' = [i \in LockIDs |-> IF owner[i] = s THEN None ELSE owner[i]]
      /\ depth' = [i \in LockIDs |-> IF owner[i] = s THEN 0 ELSE depth[i]]
      /\ pool[s] \in {"idle", "used"}
      /\ UNCHANGED <<pc, key, sess, cancelled>>
  BY DEF SessionLost, Drop
<1>2. \A h \in Handlers : ID(h)' = ID(h)
  BY <1>1 DEF ID
<1>3. TypeOK' /\ OwnSession'
  BY <1>1 DEF OwnSession
<1>4. HeldOnce'
  BY <1>1 DEF HeldOnce
<1>5. LocksAccounted'
  BY <1>1, <1>2 DEF LocksAccounted
<1>6. GrantedHold'
  <2>1. ASSUME NEW h \in Handlers, pc'[h] \in Holding, pool'[sess'[h]] = "used"
        PROVE  owner'[ID(h)'] = sess'[h]
    <3>1. sess[h] \in Sessions /\ sess[h] # s /\ pool[sess[h]] = "used"
      BY <1>1, <2>1 DEF OwnSession
    <3>2. owner[ID(h)] = sess[h] /\ ID(h) \in LockIDs
      BY <1>1, <2>1, <3>1, IDTyped DEF GrantedHold
    <3> QED
      BY <1>1, <1>2, <3>1, <3>2
  <2> QED
    BY <2>1 DEF GrantedHold
<1> QED
  BY <1>3, <1>4, <1>5, <1>6

LEMMA LockInductive == LockInv /\ [Next]_vars => LockInv'
<1> SUFFICES ASSUME LockInv, [Next]_vars PROVE LockInv'
  OBVIOUS
<1>1. CASE UNCHANGED vars
  BY <1>1 DEF vars, LockInv, TypeOK, OwnSession, GrantedHold, HeldOnce,
              LocksAccounted, ID
<1>2. ASSUME NEW h \in Handlers,
             (\E k \in Keys : Request(h, k)) \/ Cancel(h) \/ Step(h) \/ Grant(h)
      PROVE  LockInv'
  <2>1. CASE Ask(h)
    BY <2>1, QuietSteps, ReturnSteps
  <2> QED
    BY <1>2, <2>1, QuietSteps, ConnectStep, GrantStep, ReturnSteps DEF Step
<1>3. ASSUME NEW s \in Sessions, SessionLost(s)
      PROVE  LockInv'
  BY <1>3, LostStep
<1> QED
  BY <1>1, <1>2, <1>3 DEF Next

LEMMA LockAlways == Spec => []LockInv
  BY LockInit, LockInductive, PTL DEF Spec

-----------------------------------------------------------------------------
(* Sessions, keys and locks are what the code takes them for: a handler has *)
(* one session at most, and a lock one owner.                               *)
THEOREM LocksTyped == Spec => []TypeOK
<1>1. LockInv => TypeOK
  BY DEF LockInv
<1> QED
  BY <1>1, LockAlways, PTL

(* Two handlers with live sessions are never both past Lock with one key.  *)
THEOREM LockExcludes == Spec => []MutualExclusion
<1>1. LockInv => MutualExclusion
  BY DEF LockInv, OwnSession, GrantedHold, MutualExclusion, WithSession, Holding, ID
<1> QED
  BY <1>1, LockAlways, PTL

(* PostgreSQL never holds a lock for a session that went back to the pool. *)
THEOREM NoLockLeaks == Spec => []LocksAccounted
<1>1. LockInv => LocksAccounted
  BY DEF LockInv
<1> QED
  BY <1>1, LockAlways, PTL

-----------------------------------------------------------------------------
(***************************************************************************)
(* The lock of the handlers.  In a state of LockInv a key is held by one   *)
(* handler at most, so that heldBy is it.                                  *)
(***************************************************************************)
OneHolder ==
    \A k \in Keys : /\ \A h \in Handlers : Holds(h, k) <=> heldBy[k] = h
                    /\ heldBy[k] \in Handlers \cup {None}

LEMMA HolderKnown == LockInv => OneHolder
<1> SUFFICES ASSUME LockInv, NEW k \in Keys
             PROVE  /\ \A h \in Handlers : Holds(h, k) <=> heldBy[k] = h
                    /\ heldBy[k] \in Handlers \cup {None}
  BY DEF OneHolder
<1>1. ASSUME NEW g \in Handlers, NEW h \in Handlers, Holds(g, k), Holds(h, k)
      PROVE  g = h
  BY <1>1 DEF LockInv, OwnSession, GrantedHold, Holds, WithSession, Holding, ID
<1>2. heldBy[k] = IF \E h \in Handlers : Holds(h, k)
                  THEN CHOOSE h \in Handlers : Holds(h, k) ELSE None
  BY DEF heldBy
<1>3. CASE \E h \in Handlers : Holds(h, k)
  <2>1. heldBy[k] \in Handlers /\ Holds(heldBy[k], k)
    BY <1>2, <1>3
  <2> QED BY <1>1, <2>1
<1>4. CASE ~ \E h \in Handlers : Holds(h, k)
  BY <1>2, <1>4, NoneAssumption
<1> QED BY <1>3, <1>4

LEMMA HolderKnownNext == LockInv' => OneHolder'
  BY HolderKnown, PTL

(* Nobody gets or loses a key.                                             *)
LEMMA HoldersStay ==
  ASSUME LockInv, LockInv', \A h \in Handlers, k \in Keys : Holds(h, k)' <=> Holds(h, k)
  PROVE  UNCHANGED heldBy
<1>1. ASSUME NEW k \in Keys PROVE heldBy'[k] = heldBy[k]
  <2>1. /\ \A h \in Handlers : Holds(h, k) <=> heldBy[k] = h
        /\ heldBy[k] \in Handlers \cup {None}
    BY HolderKnown DEF OneHolder
  <2>2. /\ \A h \in Handlers : Holds(h, k)' <=> heldBy'[k] = h
        /\ heldBy'[k] \in Handlers \cup {None}
    BY HolderKnownNext DEF OneHolder
  <2> QED BY <2>1, <2>2
<1> QED BY <1>1 DEF heldBy

(* A handler has no key any more, the others have theirs.                  *)
LEMMA KeyGivenUp ==
  ASSUME LockInv, LockInv', NEW h \in Handlers, \A k \in Keys : ~Holds(h, k)',
         \A g \in Handlers \ {h}, k \in Keys : Holds(g, k)' <=> Holds(g, k)
  PROVE  [KL!Next]_heldBy
<1>1. CASE \A k \in Keys : ~Holds(h, k)
  BY <1>1, HoldersStay
<1>2. ASSUME NEW j \in Keys, Holds(h, j) PROVE KL!Release(j)
  <2>1. heldBy[j] = h
    BY <1>2, HolderKnown DEF OneHolder
  <2>2. ASSUME NEW k \in Keys PROVE heldBy'[k] = IF k = j THEN None ELSE heldBy[k]
    <3>1. /\ \A g \in Handlers : Holds(g, k) <=> heldBy[k] = g
          /\ heldBy[k] \in Handlers \cup {None}
      BY HolderKnown DEF OneHolder
    <3>2. /\ \A g \in Handlers : Holds(g, k)' <=> heldBy'[k] = g
          /\ heldBy'[k] \in Handlers \cup {None}
      BY HolderKnownNext DEF OneHolder
    <3>3. k # j => heldBy[k] # h
      BY <1>2, <3>1 DEF Holds
    <3> QED BY <2>1, <3>1, <3>2, <3>3
  <2>3. heldBy' = [heldBy EXCEPT ![j] = None]
    <3> DEFINE f == heldBy
               f1 == heldBy'
    <3>1. DOMAIN f = Keys /\ DOMAIN f1 = Keys /\ f = [k \in Keys |-> f[k]]
          /\ f1 = [k \in Keys |-> f1[k]]
      BY DEF heldBy
    <3>2. \A k \in Keys : f1[k] = IF k = j THEN None ELSE f[k]
      BY <2>2
    <3> HIDE DEF f, f1
    <3>3. f1 = [f EXCEPT ![j] = None]
      BY <3>1, <3>2
    <3> QED BY <3>3 DEF f, f1
  <2> QED BY <2>1, <2>3, NoneAssumption DEF KL!Release
<1> QED BY <1>1, <1>2 DEF KL!Next

(* PostgreSQL grants a lock: the key was nobody's, nor had its handler one. *)
LEMMA GrantAcquires ==
  ASSUME LockInv, LockInv', NEW h \in Handlers, Grant(h)
  PROVE  KL!Acquire(h, key[h])
<1> DEFINE j == key[h]
<1>1. /\ pc[h] = "waiting" /\ j \in Keys /\ ID(h) \in LockIDs
      /\ owner[ID(h)] \in {None, sess[h]} /\ pool[sess[h]] = "used"
      /\ pc' = [pc EXCEPT ![h] = "granted"] /\ pc \in [Handlers -> PCs]
      /\ UNCHANGED <<key, sess, pool>>
  BY IDTyped DEF Grant, Goto, LockInv, OwnSession, TypeOK
<1>2. \A k \in Keys : ~Holds(h, k)
  BY <1>1 DEF Holds
<1>3. \A g \in Handlers : ~Holds(g, j)
  <2> SUFFICES ASSUME NEW g \in Handlers, Holds(g, j) PROVE FALSE
    OBVIOUS
  <2>1. g # h /\ pc[g] \in Holding /\ ID(g) = ID(h) /\ pool[sess[g]] = "used"
    BY <1>2, <1>1 DEF Holds, Holding, ID
  <2>2. owner[ID(h)] = sess[g] /\ sess[g] \in Sessions
    BY <2>1 DEF LockInv, GrantedHold, OwnSession, Holding, WithSession
  <2>3. sess[g] = sess[h]
    BY <1>1, <2>2, NoneAssumption
  <2> QED BY <1>1, <2>1, <2>3 DEF LockInv, OwnSession, Holding, WithSession
<1>4. \A g \in Handlers, k \in Keys : Holds(g, k)' <=> Holds(g, k) \/ (g = h /\ k = j)
  BY <1>1 DEF Holds
<1>5. ASSUME NEW k \in Keys PROVE heldBy'[k] = IF k = j THEN h ELSE heldBy[k]
  <2>1. /\ \A g \in Handlers : Holds(g, k) <=> heldBy[k] = g
        /\ heldBy[k] \in Handlers \cup {None}
    BY HolderKnown DEF OneHolder
  <2>2. /\ \A g \in Handlers : Holds(g, k)' <=> heldBy'[k] = g
        /\ heldBy'[k] \in Handlers \cup {None}
    BY HolderKnownNext DEF OneHolder
  <2> QED BY <1>4, <2>1, <2>2
<1>6. heldBy[j] = None
  BY <1>1, <1>3, HolderKnown DEF OneHolder
<1>7. \A k \in Keys : heldBy[k] # h
  BY <1>2, HolderKnown DEF OneHolder
<1>8. heldBy' = [heldBy EXCEPT ![j] = h]
  <2> DEFINE f == heldBy
             f1 == heldBy'
  <2>1. DOMAIN f = Keys /\ DOMAIN f1 = Keys /\ f = [k \in Keys |-> f[k]]
        /\ f1 = [k \in Keys |-> f1[k]]
    BY DEF heldBy
  <2>2. \A k \in Keys : f1[k] = IF k = j THEN h ELSE f[k]
    BY <1>5
  <2> HIDE DEF f, f1
  <2>3. f1 = [f EXCEPT ![j] = h]
    BY <2>1, <2>2
  <2> QED BY <2>3 DEF f, f1
<1> QED BY <1>6, <1>7, <1>8 DEF KL!Acquire

(* Everything else is the end of a hold, or nothing to the handlers.       *)
LEMMA HandlerKeeps ==
  ASSUME LockInv, LockInv', NEW h \in Handlers,
         (\E k \in Keys : Request(h, k)) \/ Cancel(h) \/ Step(h)
  PROVE  [KL!Next]_heldBy
<1> USE DEF LockInv, TypeOK
<1>1. CASE \/ \E k \in Keys : Request(h, k)
           \/ Connect(h) \/ ConnectFails(h) \/ Ask(h) \/ Abort(h) \/ Unlock(h) \/ Discard(h)
  <2>1. pc'[h] \notin Holding
    BY <1>1 DEF Request, Connect, ConnectFails, Ask, Abort, Unlock, Discard, Finish, Goto, Holding
  <2>2. \A g \in Handlers \ {h} : pc'[g] = pc[g] /\ key'[g] = key[g] /\ sess'[g] = sess[g]
    BY <1>1 DEF Request, Connect, ConnectFails, Ask, Abort, Unlock, Discard, Finish, Goto
  <2>3. \A g \in Handlers \ {h} : pc[g] \in Holding => pool'[sess[g]] = pool[sess[g]]
    <3>1. CASE UNCHANGED pool
      BY <3>1
    <3>2. CASE Connect(h)
      BY <3>2 DEF Connect, OwnSession, Holding, WithSession
    <3>3. CASE ~Connect(h) /\ ~UNCHANGED pool
      <4>1. /\ pc[h] \in WithSession
            /\ \E status \in {"idle", "closed"} : pool' = [pool EXCEPT ![sess[h]] = status]
        BY <1>1, <3>3 DEF Request, ConnectFails, Ask, Abort, Unlock, Discard, WithSession
      <4> QED BY <4>1 DEF OwnSession, Holding, WithSession
    <3> QED BY <3>1, <3>2, <3>3
  <2>4. \A k \in Keys : ~Holds(h, k)'
    BY <2>1 DEF Holds, Holding
  <2>5. \A g \in Handlers \ {h}, k \in Keys : Holds(g, k)' <=> Holds(g, k)
    BY <2>2, <2>3 DEF Holds, Holding
  <2> QED BY <2>4, <2>5, KeyGivenUp
<1>2. CASE Cancel(h) \/ Enter(h) \/ Leave(h)
  <2>1. /\ UNCHANGED <<key, sess, pool>>
        /\ \A g \in Handlers : pc'[g] \in Holding <=> pc[g] \in Holding
    BY <1>2 DEF Cancel, Enter, Leave, Goto, Holding
  <2>2. \A g \in Handlers, k \in Keys : Holds(g, k)' <=> Holds(g, k)
    BY <2>1 DEF Holds, Holding
  <2> QED BY <2>2, HoldersStay
<1> QED BY <1>1, <1>2 DEF Step

LEMMA SessionEndReleases ==
  ASSUME LockInv, LockInv', NEW s \in Sessions, SessionLost(s)
  PROVE  [KL!Next]_heldBy
<1>1. /\ \A t \in Sessions : t # s => pool'[t] = pool[t]
      /\ pool'[s] # "used"
      /\ UNCHANGED <<pc, key, sess>>
  BY DEF SessionLost, LockInv, TypeOK
<1>2. ASSUME NEW g \in Handlers, NEW k \in Keys, sess[g] # s
      PROVE  Holds(g, k)' <=> Holds(g, k)
  BY <1>1, <1>2 DEF Holds, LockInv, OwnSession, WithSession
<1>3. CASE \E h \in Handlers : sess[h] = s
  <2>1. PICK h \in Handlers : sess[h] = s
    BY <1>3
  <2>2. pc[h] \in WithSession
    BY <2>1, NoneAssumption DEF LockInv, OwnSession
  <2>3. \A g \in Handlers \ {h} : sess[g] # s
    BY <2>1, <2>2, NoneAssumption DEF LockInv, OwnSession
  <2>4. \A k \in Keys : ~Holds(h, k)'
    BY <1>1, <2>1 DEF Holds
  <2> QED BY <1>2, <2>3, <2>4, KeyGivenUp
<1>4. CASE \A h \in Handlers : sess[h] # s
  BY <1>2, <1>4, HoldersStay
<1> QED BY <1>3, <1>4

LEMMA LockSteps == LockInv /\ LockInv' /\ [Next]_vars => [KL!Next]_heldBy
<1> SUFFICES ASSUME LockInv, LockInv', [Next]_vars PROVE [KL!Next]_heldBy
  OBVIOUS
<1>1. CASE UNCHANGED vars
  BY <1>1 DEF vars, heldBy, Holds
<1>2. ASSUME NEW h \in Handlers, Grant(h) PROVE KL!Next
  <2>1. key[h] \in Keys
    BY <1>2 DEF Grant, LockInv, OwnSession
  <2> QED BY <1>2, <2>1, GrantAcquires DEF KL!Next
<1>3. ASSUME NEW h \in Handlers, (\E k \in Keys : Request(h, k)) \/ Cancel(h) \/ Step(h)
      PROVE  [KL!Next]_heldBy
  BY <1>3, HandlerKeeps
<1>4. ASSUME NEW s \in Sessions, SessionLost(s) PROVE [KL!Next]_heldBy
  BY <1>4, SessionEndReleases
<1> QED BY <1>1, <1>2, <1>3, <1>4 DEF Next

(* Sessions, pool and PostgreSQL's table together are a lock on keys, with *)
(* the hash that several keys may share: a key is granted to a handler     *)
(* that has none when nobody has it, and goes by unlocking or with the     *)
(* session.                                                                *)
THEOREM LockRefines == Spec => ImplementsKeyedLock
<1>1. Init => KL!Init
  BY DEF Init, KL!Init, heldBy, Holds
<1>2. LockInv /\ LockInv' /\ [Next]_vars => [KL!Next]_heldBy
  BY LockSteps
<1> QED BY <1>1, <1>2, LockAlways, PTL DEF Spec, KL!Spec, ImplementsKeyedLock

-----------------------------------------------------------------------------
(***************************************************************************)
(* Leader election.                                                        *)
(***************************************************************************)
Stopping == {"unmark", "unmarked", "leftMarked"}

(* The two threads of a node are in step: the goroutine runs from Register *)
(* until Stop has joined it, and the flag is down before Start.            *)
ThreadsInStep ==
    \A n \in Nodes :
        /\ main[n] \in {"off", "try", "granted"} => ~flag[n]
        /\ main[n] \in {"off", "try", "granted", "register"} => loop[n] = "off"
        /\ main[n] \in {"serving", "join"} => loop[n] # "off"
        /\ main[n] \in Stopping => loop[n] = "done"

(* A node that leads with a live session, or was just granted the lock,    *)
(* holds it until it unlocks.                                              *)
LeadersHold ==
    \A n \in Nodes :
        /\ (flag[n] /\ conn[n] = "open" /\ main[n] \notin Stopping) => holder = n
        /\ ((main[n] = "granted" \/ loop[n] = "granted") /\ conn[n] = "open") => holder = n

LeaderInv ==
    /\ ElectionTypeOK
    /\ ThreadsInStep
    /\ HolderKnows
    /\ LeadersHold
    /\ UnmarkedOnceStopped

LEMMA LeaderInit == ElectionInit => LeaderInv
  BY NobodyAssumption
  DEF ElectionInit, LeaderInv, ElectionTypeOK, ThreadsInStep, HolderKnows, LeadersHold,
      UnmarkedOnceStopped, MainPCs, LoopPCs, Stopping

-----------------------------------------------------------------------------
(* The main thread. *)
LEMMA MainSteps ==
  ASSUME LeaderInv, NEW n \in Nodes,
         Launch(n) \/ StartTry(n) \/ StartKnows(n) \/ Register(n) \/ Signal(n)
           \/ Release(n) \/ Unmark(n)
  PROVE  LeaderInv'
<1> USE NobodyAssumption DEF LeaderInv, ElectionTypeOK, MainPCs, LoopPCs, Stopping
<1>1. CASE Launch(n)
  BY <1>1 DEF Launch, ThreadsInStep, HolderKnows, LeadersHold, UnmarkedOnceStopped
<1>2. CASE StartTry(n)
  <2>1. ElectionTypeOK' /\ ThreadsInStep' /\ UnmarkedOnceStopped'
    BY <1>2 DEF StartTry, ThreadsInStep, UnmarkedOnceStopped
  <2>2. HolderKnows' /\ LeadersHold'
    <3>1. CASE holder = Nobody
      BY <1>2, <3>1 DEF StartTry, ThreadsInStep, HolderKnows, LeadersHold
    <3>2. CASE holder # Nobody
      BY <1>2, <3>2 DEF StartTry, ThreadsInStep, HolderKnows, LeadersHold
    <3> QED
      BY <3>1, <3>2
  <2> QED
    BY <2>1, <2>2
<1>3. CASE Register(n)
  BY <1>3 DEF Register, Upsert, ThreadsInStep, HolderKnows, LeadersHold, UnmarkedOnceStopped
<1>4. CASE Signal(n)
  BY <1>4 DEF Signal, ThreadsInStep, HolderKnows, LeadersHold, UnmarkedOnceStopped
<1>5. CASE Release(n)
  BY <1>5 DEF Release, ThreadsInStep, HolderKnows, LeadersHold, UnmarkedOnceStopped
<1>6. CASE Unmark(n)
  BY <1>6 DEF Unmark, ThreadsInStep, HolderKnows, LeadersHold, UnmarkedOnceStopped
<1>7. CASE StartKnows(n)
  BY <1>7 DEF StartKnows, ThreadsInStep, HolderKnows, LeadersHold, UnmarkedOnceStopped
<1> QED
  BY <1>1, <1>2, <1>3, <1>4, <1>5, <1>6, <1>7

(* The heartbeat goroutine. *)
LEMMA HeartbeatSteps ==
  ASSUME LeaderInv, NEW n \in Nodes, Heartbeat(n)
  PROVE  LeaderInv'
<1> USE NobodyAssumption DEF LeaderInv, ElectionTypeOK, MainPCs, LoopPCs, Stopping
<1>1. CASE Tick(n) \/ NoWin(n) \/ LoopEnds(n)
  BY <1>1 DEF Tick, NoWin, LoopEnds, ThreadsInStep, HolderKnows, LeadersHold,
              UnmarkedOnceStopped
<1>2. CASE Beat(n)
  <2>1. main[n] \in {"serving", "join"}
    BY <1>2 DEF Beat, ThreadsInStep
  <2> QED
    BY <1>2, <2>1 DEF Beat, Upsert, ThreadsInStep, HolderKnows, LeadersHold,
                      UnmarkedOnceStopped
<1>3. CASE Win(n)
  <2>1. main[n] \in {"serving", "join"}
    BY <1>3 DEF Win, ThreadsInStep
  <2> QED
    BY <1>3, <2>1 DEF Win, ThreadsInStep, HolderKnows, LeadersHold,
                      UnmarkedOnceStopped
<1>4. CASE BeatKnows(n)
  <2>1. main[n] \in {"serving", "join"}
    BY <1>4 DEF BeatKnows, ThreadsInStep
  <2>2. ElectionTypeOK' /\ ThreadsInStep' /\ UnmarkedOnceStopped'
    BY <1>4, <2>1 DEF BeatKnows, ThreadsInStep, UnmarkedOnceStopped
  <2>3. HolderKnows'
    BY <1>4 DEF BeatKnows, HolderKnows
  <2>4. LeadersHold'
    BY <1>4 DEF BeatKnows, LeadersHold
  <2> QED
    BY <2>2, <2>3, <2>4
<1>5. CASE AnswerLost(n)
  <2>1. ElectionTypeOK' /\ ThreadsInStep' /\ UnmarkedOnceStopped'
    BY <1>5 DEF AnswerLost, ThreadsInStep, UnmarkedOnceStopped
  <2>2. HolderKnows'
    BY <1>5 DEF AnswerLost, HolderKnows
  <2>3. LeadersHold'
    BY <1>5 DEF AnswerLost, LeadersHold
  <2> QED
    BY <2>1, <2>2, <2>3
<1> QED
  BY <1>1, <1>2, <1>3, <1>4, <1>5 DEF Heartbeat

(* The end of a process and of a session. *)
LEMMA LossSteps ==
  ASSUME LeaderInv, NEW n \in Nodes, Exit(n) \/ ConnectionLost(n)
  PROVE  LeaderInv'
<1> USE NobodyAssumption DEF LeaderInv, ElectionTypeOK, MainPCs, LoopPCs, Stopping
<1>1. CASE Exit(n)
  BY <1>1 DEF Exit, ThreadsInStep, HolderKnows, LeadersHold, UnmarkedOnceStopped
<1>2. CASE ConnectionLost(n)
  BY <1>2 DEF ConnectionLost, ThreadsInStep, HolderKnows, LeadersHold, UnmarkedOnceStopped
<1> QED
  BY <1>1, <1>2

LEMMA LeaderInductive == LeaderInv /\ [ElectionNext]_electionVars => LeaderInv'
<1> SUFFICES ASSUME LeaderInv, [ElectionNext]_electionVars PROVE LeaderInv'
  OBVIOUS
<1>1. CASE UNCHANGED electionVars
  BY <1>1 DEF electionVars, LeaderInv, ElectionTypeOK, ThreadsInStep, HolderKnows, LeadersHold,
              UnmarkedOnceStopped
<1> QED
  BY <1>1, MainSteps, HeartbeatSteps, LossSteps DEF ElectionNext

LEMMA LeaderAlways == ElectionSpec => []LeaderInv
  BY LeaderInit, LeaderInductive, PTL DEF ElectionSpec

-----------------------------------------------------------------------------
(* Two nodes with live sessions never both report leadership.              *)
THEOREM LeaderIsSole == ElectionSpec => []SoleLeader
<1>1. LeaderInv => SoleLeader
  BY DEF LeaderInv, LeadersHold, SoleLeader, IsLeader, Stopping
<1> QED
  BY <1>1, LeaderAlways, PTL

(* The session that holds the lock is open, and its node knows it leads or *)
(* is between the grant and the flag in a thread that Stop waits for; or   *)
(* the answer of the grant was lost.                                       *)
THEOREM LockNeverStrays == ElectionSpec => []HolderKnows
<1>1. LeaderInv => HolderKnows
  BY DEF LeaderInv
<1> QED
  BY <1>1, LeaderAlways, PTL

(* No heartbeat undoes what Stop has written to cluster_nodes.             *)
THEOREM StopIsFinal == ElectionSpec => []UnmarkedOnceStopped
<1>1. LeaderInv => UnmarkedOnceStopped
  BY DEF LeaderInv
<1> QED
  BY <1>1, LeaderAlways, PTL
=============================================================================
