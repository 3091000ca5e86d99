----------------------------- MODULE KeyedLock -----------------------------
(***************************************************************************)
(* What a lock promises to the handlers (cluster.Locker): a key has one    *)
(* holder at most, and passes from one to the next only by being free in   *)
(* between.  A holder loses its key when it unlocks or when its session    *)
(* breaks; after that it has to ask again.                                 *)
(***************************************************************************)
CONSTANTS
    Handlers,
    Keys,
    Nobody      \* "no handler": the key is free

VARIABLE held   \* the holder of each key

Init == held = [k \in Keys |-> Nobody]

Acquire(h, k) ==
    /\ held[k] = Nobody
    /\ \A j \in Keys : held[j] # h
    /\ held' = [held EXCEPT ![k] = h]

Release(k) ==
    /\ held[k] # Nobody
    /\ held' = [held EXCEPT ![k] = Nobody]

Next == \E k \in Keys : Release(k) \/ \E h \in Handlers : Acquire(h, k)

Spec == Init /\ [][Next]_held
=============================================================================
