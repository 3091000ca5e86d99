---------------------------- MODULE ContentStore ----------------------------
(***************************************************************************)
(* The content store (internal/storage): Put of the local file system, S3, *)
(* GCS and Azure backends, run by concurrent uploads on several nodes, and *)
(* Delete.  All of them buffer the upload in a temporary file while they   *)
(* hash it, ask whether an object of that name is there, and store it only *)
(* when it is not.                                                         *)
(*                                                                         *)
(* Abstracted: the bytes (an object holds all of its content or a part of  *)
(* it), sizes, checksums, credentials and the creation of buckets.         *)
(* os.Remove of a temporary file that exists succeeds.                     *)
(***************************************************************************)
CONSTANTS
    Puts,      \* calls of Put in progress, on any node
    Contents,  \* contents, identified with their storage keys
    Nothing,   \* no content
    Backends   \* the backends a deployment may choose from

AllBackends == {"local", "s3", "gcs", "azure"}

ASSUME BackendsAssumption == Backends \subseteq AllBackends
ASSUME NothingAssumption == Nothing \notin Contents

VARIABLES
    backend,  \* the backend storage.New has chosen
    objects,  \* what the store has under each key
    pc,       \* where each Put is
    content,  \* what it stores
    temps,    \* the Puts that have a temporary file
    litter,   \* history: how Puts ended whose temporary file is still on disk
    phantom   \* history: the keys that a fault has made unreliable: a Put of
              \* them was or will be answered with success, and they are not
              \* stored whole

vars == <<backend, objects, pc, content, temps, litter, phantom>>

PCs == {"idle", "buffer", "check", "store", "stored", "failed"}

\* storage.New: the configuration names one backend.
Init ==
    /\ backend \in Backends
    /\ objects = [c \in Contents |-> "absent"]
    /\ pc = [p \in Puts |-> "idle"]
    /\ content = [p \in Puts |-> Nothing]
    /\ temps = {}
    /\ litter = {}
    /\ phantom = {}

Goto(p, label) == pc' = [pc EXCEPT ![p] = label]

-----------------------------------------------------------------------------
\* os.CreateTemp.
Begin(p, c) ==
    /\ pc[p] = "idle"
    /\ content' = [content EXCEPT ![p] = c]
    /\ temps' = temps \cup {p}
    /\ Goto(p, "buffer")
    /\ UNCHANGED <<backend, objects, litter, phantom>>

\* io.Copy of the upload into the temporary file and the hash.
Buffer(p) ==
    /\ pc[p] = "buffer"
    /\ Goto(p, "check")
    /\ UNCHANGED <<backend, objects, content, temps, litter, phantom>>

\* Mutant: a duplicate is left to the deferred cleanup.
CheckKeepsDuplicate(p) ==
    /\ pc[p] = "check"
    /\ Goto(p, IF objects[content[p]] = "absent" THEN "store" ELSE "stored")
    /\ UNCHANGED <<backend, objects, content, temps, litter, phantom>>

\* os.Stat, HeadObject, Attrs or GetProperties of the destination.  The local
\* backend discards its duplicate here.
Check(p) ==
    /\ pc[p] = "check"
    /\ \/ /\ objects[content[p]] = "absent"
          /\ Goto(p, "store")
          /\ UNCHANGED temps
       \/ /\ objects[content[p]] # "absent"
          /\ Goto(p, "stored")
          /\ temps' = IF backend = "local" THEN temps \ {p} ELSE temps
    /\ UNCHANGED <<backend, objects, content, litter, phantom>>

\* The local backend takes any error of os.Stat but "not exist" for a file that
\* is there, and answers success without having stored anything; the others
\* return an error they do not know (Fail).
CheckFault(p) ==
    /\ pc[p] = "check"
    /\ backend = "local"
    /\ Goto(p, "stored")
    /\ temps' = temps \ {p}
    /\ phantom' = IF objects[content[p]] = "whole" THEN phantom
                                                   ELSE phantom \cup {content[p]}
    /\ UNCHANGED <<backend, objects, content, litter>>

\* os.Rename consumes the temporary file; the uploads to the object stores
\* become visible at once, when they are finalised.
Store(p) ==
    /\ pc[p] = "store"
    /\ objects' = [objects EXCEPT ![content[p]] = "whole"]
    /\ phantom' = phantom \ {content[p]}
    /\ Goto(p, "stored")
    /\ temps' = IF backend = "local" THEN temps \ {p} ELSE temps
    /\ UNCHANGED <<backend, content, litter>>

\* Mutant: an error of the upload is logged only.
FailUnnoticed(p) ==
    /\ pc[p] \in {"buffer", "check", "store"}
    /\ Goto(p, IF pc[p] = "store" THEN "stored" ELSE "failed")
    /\ UNCHANGED <<backend, objects, content, temps, litter, phantom>>

\* A call fails and Put returns the error.  The reply of an object store may
\* be what got lost: then the object is there.  When GCSStore.Put cannot read
\* its temporary file back, it closes the writer, and that finalises an object
\* of the bytes sent so far, in place of any other.
Fail(p) ==
    /\ pc[p] \in {"buffer", "check", "store"}
    /\ \/ UNCHANGED <<objects, phantom>>
       \/ /\ pc[p] = "store"
          /\ backend # "local"
          /\ objects' = [objects EXCEPT ![content[p]] = "whole"]
          /\ phantom' = phantom \ {content[p]}
       \/ /\ pc[p] = "store"
          /\ backend = "gcs"
          /\ objects' = [objects EXCEPT ![content[p]] = "part"]
          /\ phantom' = phantom \cup {content[p]}
    /\ Goto(p, "failed")
    /\ UNCHANGED <<backend, content, temps, litter>>

\* Put returns.  The deferred function removes the temporary file: the local
\* backend's only when an error is returned, the others' in any case.
Return(p) ==
    /\ pc[p] \in {"stored", "failed"}
    /\ litter' = IF p \in temps /\ backend = "local" /\ pc[p] # "failed"
                 THEN litter \cup {"return"} ELSE litter
    /\ temps' = temps \ {p}
    /\ content' = [content EXCEPT ![p] = Nothing]
    /\ Goto(p, "idle")
    /\ UNCHANGED <<backend, objects, phantom>>

\* The node crashes.  Its temporary file stays, and nothing collects it later.
Crash(p) ==
    /\ pc[p] # "idle"
    /\ litter' = IF p \in temps THEN litter \cup {"crash"} ELSE litter
    /\ temps' = temps \ {p}
    /\ content' = [content EXCEPT ![p] = Nothing]
    /\ Goto(p, "idle")
    /\ UNCHANGED <<backend, objects, phantom>>

\* Delete is idempotent.  Who calls it, and whether it should: DocumentVersions.
Delete(c) ==
    /\ objects' = [objects EXCEPT ![c] = "absent"]
    /\ phantom' = phantom \ {c}
    /\ UNCHANGED <<backend, pc, content, temps, litter>>

-----------------------------------------------------------------------------
Next ==
    \/ \E p \in Puts :
          \/ \E c \in Contents : Begin(p, c)
          \/ Buffer(p) \/ Check(p) \/ CheckFault(p) \/ Store(p)
          \/ Fail(p) \/ Return(p) \/ Crash(p)
    \/ \E c \in Contents : Delete(c)

Spec == Init /\ [][Next]_vars

-----------------------------------------------------------------------------
TypeOK ==
    /\ backend \in Backends
    /\ objects \in [Contents -> {"absent", "part", "whole"}]
    /\ pc \in [Puts -> PCs]
    /\ content \in [Puts -> Contents \cup {Nothing}]
    /\ temps \subseteq Puts
    /\ litter \subseteq {"return", "crash"}
    /\ phantom \subseteq Contents

(* Temporary files do not pile up: each Put that returns, whichever way, has *)
(* removed its own; only a crash leaves one on disk.                       *)
TempsReclaimed == "return" \notin litter

-----------------------------------------------------------------------------
(***************************************************************************)
(* The store is linearizable: BlobStore, with the set of complete objects. *)
(* S3 and Azure keep its promise to the letter; the local backend and GCS  *)
(* break it for the keys that one fault of theirs has made phantoms.       *)
(***************************************************************************)
Status ==
    [p \in Puts |->
        IF pc[p] \in {"buffer", "check", "store"} THEN "pending" ELSE pc[p]]

StoredKeys == {c \in Contents : objects[c] = "whole"}

BS == INSTANCE BlobStore WITH blobs <- StoredKeys, status <- Status, arg <- content,
                              sound <- backend \in {"s3", "azure"}

(* A Put answered with success has found or stored its content while it    *)
(* ran: it is there, whole, until a Delete of it, whatever other Puts,     *)
(* failures and crashes come between; unless a fault that storage.go:79 or *)
(* gcs.go:143 lets pass made a phantom of its key, on the local backend or *)
(* on GCS.                                                                 *)
ImplementsBlobStore == BS!Spec
=============================================================================
