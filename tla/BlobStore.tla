------------------------------ MODULE BlobStore ------------------------------
(***************************************************************************)
(* What the content store promises to the handlers (storage.Store): a set  *)
(* of keys, each the hash of its content.  A Put that is answered with     *)
(* success has, at one instant while it ran, made sure that its key is     *)
(* there; a Put that fails may have stored it or not.                      *)
(*                                                                         *)
(* A store that is not sound has faults that go unnoticed, and these make  *)
(* phantoms: keys that are not stored, and that a Put takes for stored.    *)
(* Of a phantom nothing is promised until it is stored or removed.         *)
(***************************************************************************)
CONSTANTS Puts, Contents, Nothing

VARIABLES
    sound,   \* no fault of this store goes unnoticed
    blobs,   \* the keys that are stored
    phantom, \* the keys that are not, and may be taken for it
    status,  \* how far each Put is
    arg      \* what it stores

Init ==
    /\ sound \in BOOLEAN
    /\ blobs = {}
    /\ phantom = {}
    /\ status = [p \in Puts |-> "idle"]
    /\ arg = [p \in Puts |-> Nothing]

Answer(p, how) ==
    /\ status[p] = "pending"
    /\ status' = [status EXCEPT ![p] = how]
    /\ UNCHANGED <<sound, arg>>

Keep(c) ==
    /\ blobs' = blobs \cup {c}
    /\ phantom' = phantom \ {c}

Spoil(c) ==
    /\ ~sound
    /\ phantom' = phantom \cup {c}

Call(p, c) ==
    /\ status[p] = "idle"
    /\ status' = [status EXCEPT ![p] = "pending"]
    /\ arg' = [arg EXCEPT ![p] = c]
    /\ UNCHANGED <<sound, blobs, phantom>>

Store(p) == Answer(p, "stored") /\ Keep(arg[p])

\* A fault goes unnoticed now, or has gone: the key is not stored.
Mistake(p) ==
    /\ Answer(p, "stored")
    /\ arg[p] \notin blobs
    /\ Spoil(arg[p])
    /\ UNCHANGED blobs

\* A failure may take away what was stored only by leaving a phantom.
Refuse(p) ==
    /\ Answer(p, "failed")
    /\ \/ UNCHANGED <<blobs, phantom>>
       \/ Keep(arg[p])
       \/ Spoil(arg[p]) /\ blobs' = blobs \ {arg[p]}

\* The answer is given, or the node crashes before it could be.
End(p) ==
    /\ status[p] # "idle"
    /\ status' = [status EXCEPT ![p] = "idle"]
    /\ arg' = [arg EXCEPT ![p] = Nothing]
    /\ UNCHANGED <<sound, blobs, phantom>>

Remove(c) ==
    /\ blobs' = blobs \ {c}
    /\ phantom' = phantom \ {c}
    /\ UNCHANGED <<sound, status, arg>>

Next ==
    \/ \E p \in Puts : \/ \E c \in Contents : Call(p, c)
                       \/ Store(p) \/ Mistake(p) \/ Refuse(p) \/ End(p)
    \/ \E c \in Contents : Remove(c)

Spec == Init /\ [][Next]_<<sound, blobs, phantom, status, arg>>
=============================================================================
