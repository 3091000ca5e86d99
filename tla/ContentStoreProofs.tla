------------------------- MODULE ContentStoreProofs -------------------------
(* Theorems about ContentStore, for any backends, contents and callers. *)
EXTENDS ContentStore, TLAPS

(* The local backend has got rid of its temporary file by the time it      *)
(* answers success: the deferred cleanup would leave it.  Part of an       *)
(* object is a phantom, and nothing that is stored whole is one.           *)
StoreInv ==
    /\ TypeOK
    /\ TempsReclaimed
    /\ \A p \in Puts : pc[p] # "idle" => content[p] \in Contents
    /\ \A p \in temps : backend = "local" => pc[p] # "stored"
    /\ \A c \in Contents : /\ objects[c] = "part" => c \in phantom
                           /\ objects[c] = "whole" => c \notin phantom
    /\ backend \in {"s3", "azure"} => phantom = {}

LEMMA StoreInit == Init => StoreInv
  BY DEF Init, StoreInv, TypeOK, TempsReclaimed, PCs

LEMMA StoreInductive == StoreInv /\ [Next]_vars => StoreInv'
<1> SUFFICES ASSUME StoreInv, [Next]_vars PROVE StoreInv'
  OBVIOUS
<1> USE DEF StoreInv, TypeOK, TempsReclaimed, PCs, Goto
<1>1. CASE UNCHANGED vars
  BY <1>1 DEF vars
<1>2. ASSUME NEW p \in Puts, NEW c \in Contents, Begin(p, c)
      PROVE  StoreInv'
  BY <1>2 DEF Begin
<1>3. ASSUME NEW p \in Puts, Buffer(p) \/ Check(p) \/ CheckFault(p) PROVE StoreInv'
  BY <1>3 DEF Buffer, Check, CheckFault
<1>4. ASSUME NEW p \in Puts, Store(p) PROVE StoreInv'
  BY <1>4 DEF Store
<1>5. ASSUME NEW p \in Puts, Fail(p) PROVE StoreInv'
  BY <1>5 DEF Fail
<1>6. ASSUME NEW p \in Puts, Return(p) \/ Crash(p) PROVE StoreInv'
  BY <1>6 DEF Return, Crash
<1>7. ASSUME NEW c \in Contents, Delete(c) PROVE StoreInv'
  BY <1>7 DEF Delete
<1> QED
  BY <1>1, <1>2, <1>3, <1>4, <1>5, <1>6, <1>7 DEF Next

LEMMA StoreAlways == Spec => []StoreInv
  BY StoreInit, StoreInductive, PTL DEF Spec

-----------------------------------------------------------------------------
(* A Put that returns leaves no temporary file, on any backend.            *)
THEOREM NoTempLeft == Spec => []TempsReclaimed
<1>1. StoreInv => TempsReclaimed
  BY DEF StoreInv
<1> QED
  BY <1>1, StoreAlways, PTL

-----------------------------------------------------------------------------
storeVars == <<backend \in {"s3", "azure"}, StoredKeys, phantom, Status, content>>

LEMMA BlobInit == Init => BS!Init
  BY DEF Init, BS!Init, StoredKeys, Status

LEMMA BlobStep == StoreInv /\ [Next]_vars => [BS!Next]_storeVars
<1> SUFFICES ASSUME StoreInv, [Next]_vars
             PROVE  [BS!Next]_storeVars
  OBVIOUS
<1> USE DEF StoreInv, TypeOK, PCs, Goto, storeVars
<1>1. CASE UNCHANGED vars
  BY <1>1 DEF vars, StoredKeys, Status
<1>2. ASSUME NEW p \in Puts, NEW c \in Contents, Begin(p, c)
      PROVE  BS!Next
  <2>1. BS!Call(p, c)
    BY <1>2 DEF Begin, BS!Call, StoredKeys, Status
  <2> QED
    BY <2>1 DEF BS!Next
<1>3. ASSUME NEW p \in Puts, Buffer(p)
      PROVE  UNCHANGED storeVars
  BY <1>3 DEF Buffer, StoredKeys, Status
<1>4. ASSUME NEW p \in Puts, Check(p)
      PROVE  BS!Next \/ UNCHANGED storeVars
  <2>1. CASE objects[content[p]] = "absent"
    BY <1>4, <2>1 DEF Check, StoredKeys, Status
  <2>2. ASSUME objects[content[p]] # "absent"
        PROVE  BS!Answer(p, "stored") /\ StoredKeys' = StoredKeys /\ phantom' = phantom
    BY <1>4, <2>2 DEF Check, BS!Answer, StoredKeys, Status
  <2>3. content[p] \in Contents
    BY <1>4 DEF Check
  <2>4. CASE objects[content[p]] = "whole"
    <3>1. content[p] \in StoredKeys /\ content[p] \notin phantom
      BY <2>3, <2>4 DEF StoredKeys
    <3>2. BS!Store(p)
      BY <2>2, <2>4, <3>1 DEF BS!Store, BS!Keep
    <3> QED
      BY <3>2 DEF BS!Next
  <2>5. CASE objects[content[p]] = "part"
    <3>1. /\ content[p] \notin StoredKeys
          /\ content[p] \in phantom
          /\ backend \notin {"s3", "azure"}
      BY <2>3, <2>5 DEF StoredKeys
    <3>2. BS!Mistake(p)
      BY <2>2, <2>5, <3>1 DEF BS!Mistake, BS!Spoil
    <3> QED
      BY <3>2 DEF BS!Next
  <2> QED
    BY <2>1, <2>3, <2>4, <2>5
<1>5. ASSUME NEW p \in Puts, CheckFault(p)
      PROVE  BS!Next
  <2>1. CASE objects[content[p]] = "whole"
    <3>1. content[p] \in StoredKeys /\ content[p] \notin phantom
      BY <1>5, <2>1 DEF CheckFault, StoredKeys
    <3>2. BS!Store(p)
      BY <1>5, <2>1, <3>1 DEF CheckFault, BS!Store, BS!Answer, BS!Keep, StoredKeys, Status
    <3> QED
      BY <3>2 DEF BS!Next
  <2>2. CASE objects[content[p]] # "whole"
    <3>1. BS!Mistake(p)
      BY <1>5, <2>2 DEF CheckFault, BS!Mistake, BS!Answer, BS!Spoil, StoredKeys, Status
    <3> QED
      BY <3>1 DEF BS!Next
  <2> QED
    BY <2>1, <2>2
<1>6. ASSUME NEW p \in Puts, Store(p)
      PROVE  BS!Next
  <2>1. StoredKeys' = StoredKeys \cup {content[p]}
    BY <1>6 DEF Store, StoredKeys
  <2>2. BS!Store(p)
    BY <1>6, <2>1 DEF Store, BS!Store, BS!Answer, BS!Keep, Status
  <2> QED
    BY <2>2 DEF BS!Next
<1>7. ASSUME NEW p \in Puts, Fail(p)
      PROVE  BS!Next
  <2>1. BS!Answer(p, "failed")
    BY <1>7 DEF Fail, BS!Answer, Status
  <2>2. CASE UNCHANGED <<objects, phantom>>
    BY <2>1, <2>2 DEF BS!Refuse, BS!Next, StoredKeys
  <2>3. CASE /\ objects' = [objects EXCEPT ![content[p]] = "whole"]
             /\ phantom' = phantom \ {content[p]}
    <3>1. StoredKeys' = StoredKeys \cup {content[p]}
      BY <1>7, <2>3 DEF Fail, StoredKeys
    <3> QED
      BY <2>1, <2>3, <3>1 DEF BS!Refuse, BS!Keep, BS!Next
  <2>4. CASE /\ backend = "gcs"
             /\ objects' = [objects EXCEPT ![content[p]] = "part"]
             /\ phantom' = phantom \cup {content[p]}
    <3>1. StoredKeys' = StoredKeys \ {content[p]}
      BY <1>7, <2>4 DEF Fail, StoredKeys
    <3> QED
      BY <2>1, <2>4, <3>1 DEF BS!Refuse, BS!Spoil, BS!Next
  <2> QED
    BY <1>7, <2>2, <2>3, <2>4 DEF Fail
<1>8. ASSUME NEW p \in Puts, Return(p) \/ Crash(p)
      PROVE  BS!Next
  <2>1. BS!End(p)
    BY <1>8 DEF Return, Crash, BS!End, StoredKeys, Status
  <2> QED
    BY <2>1 DEF BS!Next
<1>9. ASSUME NEW c \in Contents, Delete(c)
      PROVE  BS!Next
  <2>1. BS!Remove(c)
    BY <1>9 DEF Delete, BS!Remove, StoredKeys, Status
  <2> QED
    BY <2>1 DEF BS!Next
<1> QED
  BY <1>1, <1>2, <1>3, <1>4, <1>5, <1>6, <1>7, <1>8, <1>9 DEF Next

(* S3 and Azure are a linearizable set of complete contents; so are the    *)
(* local backend and GCS, but for the keys of which a fault has made       *)
(* phantoms.                                                               *)
THEOREM StoreIsLinearizable == Spec => ImplementsBlobStore
  BY BlobInit, BlobStep, StoreAlways, PTL DEF Spec, BS!Spec, ImplementsBlobStore, storeVars
=============================================================================
