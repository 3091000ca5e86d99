----------------------------- MODULE RightsProofs -----------------------------
(* Theorems about Rights, for any project, cascades, levels, rows and calls. *)
EXTENDS Rights, FiniteSetTheorems, TLAPS

Flags == (SUBSET Actions) \cup {Absent}
Labels == {"idle", "buckets", "next", "documents", "copy", "panel"}
Cascading == [flags : Flags, bucket : Resources \cup {Every}, cut : BOOLEAN]
Call == [at : {"idle", "rights", "can", "handler"}, action : Actions,
         target : Targets \cup {<<"project", Every>>}, verdicts : SUBSET BOOLEAN,
         lost : BOOLEAN]

TypeInv ==
    /\ status \in [Resources -> {"none", "live", "deleted"}]
    /\ rights \in [Targets -> Flags]
    /\ pc \in [Admins -> Labels]
    /\ local \in [Admins -> Cascading]
    /\ todo \in [Admins -> SUBSET Documents]
    /\ listing \in [Admins -> SUBSET Buckets]
    /\ due \in [Admins -> SUBSET Children]
    /\ call \in Call
    /\ may \in BOOLEAN

(* The principal's request is noted as allowed as soon as the rows allow it,*)
(* and every verdict that admits it comes from rows that did.               *)
CallInv ==
    /\ call.at # "idle" => call.target \in Targets
    /\ (call.at # "idle" /\ Granted(rights, call.action, call.target)) => may
    /\ (call.at = "can" /\ ~call.lost /\ TRUE \in call.verdicts) => may
    /\ (call.at = "handler" /\ ~call.lost) => may

(* A child that a cascade owes is live, and so is the bucket it lies in.    *)
DueLive(a) ==
    \A id \in due[a] :
        /\ Live(id)
        /\ id \in Documents => Live(BucketOf[id])

Reached(a, id) == rights[Of(id)] = local[a].flags

(* It lies in a bucket that the cascade has still to visit, or is one. *)
Listed(a, id) == id \in listing[a] \/ (id \in Documents /\ BucketOf[id] \in listing[a])

(* What a cascade owes is reached, or lies ahead of it. *)
Ahead(a) ==
    ~local[a].cut =>
        \A id \in due[a] :
            /\ pc[a] = "next" => Reached(a, id) \/ Listed(a, id)
            /\ pc[a] = "documents" =>
                  \/ Reached(a, id) \/ Listed(a, id)
                  \/ id \in Documents /\ BucketOf[id] = local[a].bucket
            /\ pc[a] = "copy" => Reached(a, id) \/ Listed(a, id) \/ id \in todo[a]
            /\ pc[a] = "panel" => Reached(a, id)

CascadeInv(a) == DueLive(a) /\ Ahead(a)

RightsInv ==
    /\ TypeInv
    /\ CallInv
    /\ \A a \in Admins : CascadeInv(a)

-----------------------------------------------------------------------------
LEMMA LevelsGiveFlags == \A level : FlagsOf(level) \in Flags
BY DEF FlagsOf, Flags, Actions

LEMMA TargetsOf ==
  /\ \A id \in Resources : Of(id) \in Targets
  /\ \A x, y \in Resources : Of(x) = Of(y) => x = y
BY DEF Of, Targets

(* The page of a list that is not cut off is the list. *)
LEMMA WholePage ==
  ASSUME NEW found, IsFiniteSet(found), NEW page \in FirstPage(found),
         ~(Cardinality(found) > MaxPageLimit)
  PROVE  page = found
<1>1. page \subseteq found /\ Cardinality(page) = Cardinality(found)
  BY DEF FirstPage
<1> QED
  BY <1>1, FS_Subset

LEMMA FoundFinite ==
  /\ IsFiniteSet(LiveBuckets) /\ LiveBuckets \subseteq Buckets
  /\ \A b : IsFiniteSet(LiveDocuments(b)) /\ LiveDocuments(b) \subseteq Documents
BY FS_Subset, FiniteAssumption DEF LiveBuckets, LiveDocuments

(* A verdict that admits comes from rows that allow. *)
LEMMA VerdictsGranted ==
  ASSUME TypeInv, NEW action \in Actions, NEW target \in Targets,
         TRUE \in Verdicts(Rows, action, target)
  PROVE  Granted(rights, action, target)
<1>1. \A row \in Matching(Rows, target) :
        /\ row.target \in {target, <<target[1], Every>>} /\ row.target \in Targets
        /\ rights[row.target] # Absent /\ row.flags = rights[row.target]
  <2> TAKE row \in Matching(Rows, target)
  <2>1. PICK t \in Targets : rights[t] # Absent /\ row = [target |-> t, flags |-> rights[t]]
    BY DEF Matching, Rows
  <2>2. t[1] = target[1] /\ t[2] \in {target[2], Every}
    BY <2>1 DEF Matching
  <2>3. t = <<t[1], t[2]>> /\ target = <<target[1], target[2]>>
    BY DEF Targets, Of
  <2> QED
    BY <2>1, <2>2, <2>3
<1>2. CASE \E row \in Matching(Rows, target) : action \in row.flags
  BY <1>1, <1>2 DEF Granted
<1>3. CASE Mode = "open" /\ Matching(Rows, target) = {}
  <2>1. ASSUME NEW t \in Targets, t \in {target, <<target[1], Every>>}, rights[t] # Absent
        PROVE  [target |-> t, flags |-> rights[t]] \in Matching(Rows, target)
    BY <2>1 DEF Matching, Rows
  <2> QED
    BY <1>3, <2>1 DEF Granted
<1> QED
  BY <1>2, <1>3 DEF Verdicts, canOpen, checkRights

LEMMA RightsInit == Init => RightsInv
<1> SUFFICES ASSUME Init PROVE RightsInv
  OBVIOUS
<1>1. TypeInv
  <2>1. Absent \in Flags /\ {} \in Flags
    BY DEF Flags
  <2>2. rights \in [Targets -> Flags]
    BY <2>1, LevelsGiveFlags DEF Init
  <2>3. NoLocal \in Cascading /\ NoCall \in Call
    BY <2>1 DEF NoLocal, NoCall, Cascading, Call, Actions
  <2> QED
    BY <2>2, <2>3 DEF Init, TypeInv, Labels
<1>2. CallInv
  BY DEF Init, CallInv, NoCall
<1>3. \A a \in Admins : CascadeInv(a)
  BY DEF Init, CascadeInv, DueLive, Ahead
<1> QED
  BY <1>1, <1>2, <1>3 DEF RightsInv

-----------------------------------------------------------------------------
(* A step that takes no child from a cascade's care but by dropping it. *)
Frame(a) ==
    /\ pc'[a] = pc[a] /\ local'[a] = local[a]
    /\ todo'[a] = todo[a] /\ listing'[a] = listing[a]
    /\ due'[a] \subseteq due[a]
    /\ \A id \in due'[a] :
          /\ rights'[Of(id)] = rights[Of(id)]
          /\ status'[id] = status[id]
          /\ id \in Documents => status'[BucketOf[id]] = status[BucketOf[id]]

LEMMA FrameKeeps ==
  ASSUME RightsInv, NEW a \in Admins, Frame(a)
  PROVE  CascadeInv(a)'
<1>1. DueLive(a) /\ Ahead(a)
  BY DEF RightsInv, CascadeInv
<1>2. DueLive(a)'
  BY <1>1 DEF DueLive, Frame, Live
<1>3. Ahead(a)'
  BY <1>1 DEF Ahead, Frame, Reached, Listed
<1> QED
  BY <1>2, <1>3 DEF CascadeInv

(* What a written row does to the principal's request. *)
Noted == may' = (may \/ (call.at # "idle" /\ Granted(rights', call.action, call.target)))

LEMMA CallKeeps ==
  ASSUME RightsInv, call' = call, Noted \/ UNCHANGED <<rights, may>>
  PROVE  CallInv' /\ may' \in BOOLEAN
<1>1. CallInv /\ may \in BOOLEAN
  BY DEF RightsInv, TypeInv
<1>2. CASE UNCHANGED <<rights, may>>
  BY <1>1, <1>2 DEF CallInv, Granted
<1>3. CASE Noted
  <2>1. Granted(rights, call.action, call.target)' <=> Granted(rights', call.action, call.target)
    BY DEF Granted
  <2>2. /\ may => may'
        /\ (call.at # "idle" /\ Granted(rights', call.action, call.target)) => may'
    BY <1>1, <1>3 DEF Noted
  <2>3. may' \in BOOLEAN
    BY <1>1, <1>3 DEF Noted
  <2> QED
    BY <1>1, <2>1, <2>2, <2>3 DEF CallInv
<1> QED
  BY <1>2, <1>3

LEMMA WriteKeeps ==
  ASSUME RightsInv, NEW by \in SUBSET Admins, NEW target \in Targets, NEW flags \in Flags,
         Write(by, target, flags), call' = call
  PROVE  /\ rights' \in [Targets -> Flags] /\ due' \in [Admins -> SUBSET Children]
         /\ rights'[target] = flags
         /\ CallInv' /\ may' \in BOOLEAN
         /\ \A c \in Admins : due'[c] \subseteq due[c]
         /\ \A c \in Admins \ by : \A id \in due'[c] : rights'[Of(id)] = rights[Of(id)]
         /\ \A t \in Targets \ {target} : rights'[t] = rights[t]
<1>1. TypeInv
  BY DEF RightsInv
<1>2. Noted
  BY DEF Write, Noted
<1>3. \A c \in Admins \ by : \A id \in due'[c] : id \in Resources /\ Of(id) # target
  BY <1>1 DEF Write, TypeInv, Resources, Children
<1>4. rights' \in [Targets -> Flags] /\ rights'[target] = flags
      /\ \A t \in Targets \ {target} : rights'[t] = rights[t]
  BY <1>1 DEF Write, TypeInv
<1>5. due' \in [Admins -> SUBSET Children] /\ \A c \in Admins : due'[c] \subseteq due[c]
  BY <1>1 DEF Write, TypeInv
<1> QED
  BY <1>2, <1>3, <1>4, <1>5, CallKeeps, TargetsOf

(* Requests that write one row. *)
LEMMA OneRowStep ==
  ASSUME RightsInv, NEW target \in Targets,
         DeleteRight(target) \/ \E l \in Levels : UpsertRight(target, l)
  PROVE  RightsInv'
<1>1. PICK flags \in Flags : Write({}, target, flags)
  BY LevelsGiveFlags DEF DeleteRight, UpsertRight, Flags
<1>2. UNCHANGED <<status, pc, local, todo, listing, call>>
  BY DEF DeleteRight, UpsertRight
<1>3. /\ TypeInv' /\ CallInv'
      /\ \A c \in Admins : /\ due'[c] \subseteq due[c]
                           /\ \A id \in due'[c] : rights'[Of(id)] = rights[Of(id)]
  <2>1. {} \in SUBSET Admins
    OBVIOUS
  <2>2. /\ rights' \in [Targets -> Flags] /\ due' \in [Admins -> SUBSET Children]
        /\ CallInv' /\ may' \in BOOLEAN
        /\ \A c \in Admins : /\ due'[c] \subseteq due[c]
                             /\ \A id \in due'[c] : rights'[Of(id)] = rights[Of(id)]
    BY <1>1, <1>2, <2>1, WriteKeeps
  <2> QED
    BY <1>2, <2>2 DEF RightsInv, TypeInv
<1>4. \A c \in Admins : Frame(c)
  BY <1>2, <1>3 DEF Frame
<1> QED
  BY <1>3, <1>4, FrameKeeps DEF RightsInv

LEMMA AskStep ==
  ASSUME RightsInv, Ask
  PROVE  RightsInv'
<1>1. PICK target \in Targets :
        DeleteRight(target) \/ \E l \in Levels : UpsertRight(target, l)
  BY TargetsOf
     DEF Ask, addUserRight, removeUserRight, addAPIKeyRight, removeAPIKeyRight,
         removeProjectRight, removeBucketRight, removeDocumentRight, addDocumentRight,
         Resources, Children
<1> QED
  BY <1>1, OneRowStep

-----------------------------------------------------------------------------
(* What a step of cascade a has to show. *)
LEMMA CascadeKeeps ==
  ASSUME RightsInv, NEW a \in Admins, TypeInv', CallInv', CascadeInv(a)',
         \A c \in Admins \ {a} : Frame(c)
  PROVE  RightsInv'
BY FrameKeeps DEF RightsInv

(* A cascade begins: it owes its level to what is live beneath.             *)
LEMMA BeginStep ==
  ASSUME RightsInv, NEW a \in Admins, NEW id \in {Project} \cup Buckets, NEW level,
         Cascade(a, id, level)
  PROVE  RightsInv'
<1>1. TypeInv /\ FlagsOf(level) \in Flags /\ id \in Resources /\ Of(id) \in Targets
  BY LevelsGiveFlags, TargetsOf DEF RightsInv, Resources, Children
<1>2. Beneath(id) \subseteq Children
  BY FoundFinite DEF Beneath, Children
<1> DEFINE l == [flags |-> FlagsOf(level), bucket |-> id, cut |-> FALSE]
           label == IF id = Project THEN "buckets" ELSE "documents"
<1>3. /\ rights' = [rights EXCEPT ![Of(id)] = FlagsOf(level)]
      /\ due' = [c \in Admins |-> IF c = a THEN Beneath(id) ELSE due[c] \ {id}]
      /\ Noted /\ pc' = [pc EXCEPT ![a] = label] /\ local' = [local EXCEPT ![a] = l]
      /\ UNCHANGED <<status, todo, listing, call>>
      /\ Live(id)
  BY DEF Cascade, Goto, Noted, LiveChain
<1>4. l \in Cascading /\ label \in Labels /\ l.bucket = id
  BY <1>1 DEF Cascading, Labels
<1> HIDE DEF l
<1>5. CallInv' /\ may' \in BOOLEAN
  BY <1>3, CallKeeps
<1>6. TypeInv'
  BY <1>1, <1>2, <1>3, <1>4, <1>5 DEF TypeInv
<1>7. \A c \in Admins \ {a} : Frame(c)
  <2> TAKE c \in Admins \ {a}
  <2>1. due'[c] = due[c] \ {id} /\ due[c] \subseteq Resources
    BY <1>1, <1>3 DEF TypeInv, Resources, Children
  <2>2. \A x \in due'[c] : Of(x) # Of(id) /\ Of(x) \in Targets
    BY <1>1, <2>1, TargetsOf
  <2>3. \A x \in due'[c] : rights'[Of(x)] = rights[Of(x)]
    BY <1>1, <1>3, <2>2 DEF TypeInv
  <2> QED
    BY <1>1, <1>3, <2>1, <2>3 DEF Frame, TypeInv
<1>8. due'[a] = Beneath(id) /\ pc'[a] = label /\ local'[a] = l
  BY <1>1, <1>3 DEF TypeInv
<1>9. DueLive(a)'
  <2>1. \A x \in Beneath(id) : Live(x) /\ (x \in Documents => Live(BucketOf[x]))
    <3>1. CASE id = Project
      BY <3>1, ResourcesAssumption DEF Beneath, LiveBuckets
    <3>2. CASE id \in Buckets /\ id # Project
      BY <1>3, <3>2 DEF Beneath, LiveDocuments
    <3> QED
      BY <3>1, <3>2
  <2> QED
    BY <1>3, <1>8, <2>1 DEF DueLive, Live
<1>10. Ahead(a)'
  <2>1. id # Project => \A x \in Beneath(id) : x \in Documents /\ BucketOf[x] = id
    BY DEF Beneath, LiveDocuments
  <2> QED
    BY <1>4, <1>8, <2>1 DEF Ahead
<1> QED
  BY <1>5, <1>6, <1>7, <1>9, <1>10, CascadeKeeps DEF CascadeInv

LEMMA AskCascadeStep ==
  ASSUME RightsInv, NEW a \in Admins, addProjectRight(a) \/ addBucketRight(a)
  PROVE  RightsInv'
<1>1. \/ \E target \in Targets, l \in Levels : UpsertRight(target, l)
      \/ \E id \in {Project} \cup Buckets, l \in Levels : Cascade(a, id, l)
  BY TargetsOf DEF addProjectRight, addBucketRight, Resources, Children
<1> QED
  BY <1>1, OneRowStep, BeginStep

-----------------------------------------------------------------------------
(* Lists: what is owed is live, hence on a list that is not cut off.        *)
LEMMA CutKeeps ==
  ASSUME RightsInv, NEW a \in Admins, NEW found, Cut(a, found)
  PROVE  /\ local' \in [Admins -> Cascading]
         /\ local'[a].flags = local[a].flags /\ local'[a].bucket = local[a].bucket
         /\ ~local'[a].cut => ~local[a].cut /\ ~(Cardinality(found) > MaxPageLimit)
         /\ \A c \in Admins \ {a} : local'[c] = local[c]
<1>1. local \in [Admins -> Cascading] /\ local[a].cut \in BOOLEAN
  BY DEF RightsInv, TypeInv, Cascading
<1> DEFINE cut == local[a].cut \/ Cardinality(found) > MaxPageLimit
<1>2. cut \in BOOLEAN /\ local' = [local EXCEPT ![a] = [local[a] EXCEPT !.cut = cut]]
  BY <1>1 DEF Cut
<1>3. ~cut => ~local[a].cut /\ ~(Cardinality(found) > MaxPageLimit)
  OBVIOUS
<1> HIDE DEF cut
<1>4. ASSUME NEW l \in Cascading
      PROVE  /\ [l EXCEPT !.cut = cut] \in Cascading
             /\ [l EXCEPT !.cut = cut].flags = l.flags
             /\ [l EXCEPT !.cut = cut].bucket = l.bucket
             /\ [l EXCEPT !.cut = cut].cut = cut
  BY <1>2 DEF Cascading
<1>5. local'[a] = [local[a] EXCEPT !.cut = cut] /\ local[a] \in Cascading
  BY <1>1, <1>2
<1>6. local' \in [Admins -> Cascading] /\ \A c \in Admins \ {a} : local'[c] = local[c]
  BY <1>1, <1>2, <1>4
<1> QED
  BY <1>3, <1>4, <1>5, <1>6

LEMMA ListBucketsStep ==
  ASSUME RightsInv, NEW a \in Admins, ListBuckets(a)
  PROVE  RightsInv'
<1>1. TypeInv /\ CascadeInv(a)
  BY DEF RightsInv
<1>2. PICK page \in FirstPage(LiveBuckets) : listing' = [listing EXCEPT ![a] = page]
  BY DEF ListBuckets
<1> DEFINE label == IF LiveBuckets = {} THEN "panel" ELSE "next"
<1>3. /\ Cut(a, LiveBuckets) /\ pc' = [pc EXCEPT ![a] = label]
      /\ UNCHANGED <<status, rights, todo, due, call, may>>
  BY DEF ListBuckets, Goto
<1>4. page \subseteq Buckets /\ label \in Labels
  BY FoundFinite DEF FirstPage, Labels
<1>5. CallInv' /\ may' \in BOOLEAN
  BY <1>3, CallKeeps
<1>6. TypeInv'
  BY <1>1, <1>2, <1>3, <1>4, CutKeeps DEF TypeInv
<1>7. \A c \in Admins \ {a} : Frame(c)
  BY <1>1, <1>2, <1>3, CutKeeps DEF Frame, TypeInv
<1>8. pc'[a] = label /\ listing'[a] = page /\ due'[a] = due[a]
  BY <1>1, <1>2, <1>3 DEF TypeInv
<1>9. DueLive(a)'
  BY <1>1, <1>3 DEF CascadeInv, DueLive, Live
<1>10. Ahead(a)'
  <2> SUFFICES ASSUME ~local'[a].cut, NEW id \in due[a]
               PROVE  label = "next" /\ (id \in page \/ (id \in Documents /\ BucketOf[id] \in page))
    BY <1>8 DEF Ahead, Listed
  <2>1. page = LiveBuckets
    BY <1>3, CutKeeps, FoundFinite, WholePage
  <2>2. id \in Buckets \/ id \in Documents
    BY <1>1 DEF TypeInv, Children
  <2>3. CASE id \in Buckets
    BY <1>1, <2>1, <2>3 DEF CascadeInv, DueLive, LiveBuckets
  <2>4. CASE id \in Documents
    BY <1>1, <2>1, <2>4, BucketOfAssumption DEF CascadeInv, DueLive, LiveBuckets
  <2> QED
    BY <2>2, <2>3, <2>4
<1> QED
  BY <1>5, <1>6, <1>7, <1>9, <1>10, CascadeKeeps DEF CascadeInv

LEMMA ListDocumentsStep ==
  ASSUME RightsInv, NEW a \in Admins, ListDocuments(a)
  PROVE  RightsInv'
<1> DEFINE found == LiveDocuments(local[a].bucket)
<1>1. TypeInv /\ CascadeInv(a) /\ pc[a] = "documents"
  BY DEF RightsInv, ListDocuments
<1>2. PICK page \in FirstPage(found) : todo' = [todo EXCEPT ![a] = page]
  BY DEF ListDocuments
<1>3. /\ Cut(a, found) /\ pc' = [pc EXCEPT ![a] = "copy"]
      /\ UNCHANGED <<status, rights, listing, due, call, may>>
  BY DEF ListDocuments, Goto
<1>4. page \subseteq Documents
  BY FoundFinite DEF FirstPage
<1>5. CallInv' /\ may' \in BOOLEAN
  BY <1>3, CallKeeps
<1> HIDE DEF found
<1>6. TypeInv'
  BY <1>1, <1>2, <1>3, <1>4, CutKeeps DEF TypeInv, Labels
<1>7. \A c \in Admins \ {a} : Frame(c)
  BY <1>1, <1>2, <1>3, CutKeeps DEF Frame, TypeInv
<1>8. /\ pc'[a] = "copy" /\ todo'[a] = page /\ listing'[a] = listing[a] /\ due'[a] = due[a]
      /\ local'[a].flags = local[a].flags
      /\ ~local'[a].cut => ~local[a].cut /\ ~(Cardinality(found) > MaxPageLimit)
  BY <1>1, <1>2, <1>3, CutKeeps DEF TypeInv
<1>9. DueLive(a)'
  BY <1>1, <1>3 DEF CascadeInv, DueLive, Live
<1>10. Ahead(a)'
  <2> SUFFICES ASSUME ~local'[a].cut, NEW id \in due[a]
               PROVE  Reached(a, id) \/ Listed(a, id) \/ id \in page
    BY <1>3, <1>8 DEF Ahead, Listed, Reached
  <2>1. page = found
    BY <1>8, FoundFinite, WholePage DEF found
  <2>2. CASE id \in Documents /\ BucketOf[id] = local[a].bucket
    BY <1>1, <2>1, <2>2 DEF CascadeInv, DueLive, LiveDocuments, found
  <2> QED
    BY <1>1, <1>8, <2>2 DEF CascadeInv, Ahead
<1> QED
  BY <1>5, <1>6, <1>7, <1>9, <1>10, CascadeKeeps DEF CascadeInv

-----------------------------------------------------------------------------
(* A row is copied to a child: written, or given up without notice.         *)
LEMMA CopyKeeps ==
  ASSUME RightsInv, NEW a \in Admins, NEW id \in Children, Copy(a, id),
         UNCHANGED <<status, call>>
  PROVE  /\ rights' \in [Targets -> Flags] /\ due' \in [Admins -> SUBSET Children]
         /\ CallInv' /\ may' \in BOOLEAN
         /\ \A c \in Admins : due'[c] \subseteq due[c]
         /\ \A c \in Admins \ {a} : \A x \in due'[c] : rights'[Of(x)] = rights[Of(x)]
         /\ \A x \in due'[a] : Reached(a, x) \/ x = id => rights'[Of(x)] = local[a].flags
<1>1. TypeInv /\ id \in Resources /\ Of(id) \in Targets /\ local[a].flags \in Flags
  BY TargetsOf DEF RightsInv, TypeInv, Cascading, Resources, Children
<1>2. CASE Write({a}, Of(id), local[a].flags)
  <2>1. {a} \in SUBSET Admins
    OBVIOUS
  <2>2. /\ rights' \in [Targets -> Flags] /\ due' \in [Admins -> SUBSET Children]
        /\ rights'[Of(id)] = local[a].flags
        /\ CallInv' /\ may' \in BOOLEAN
        /\ \A c \in Admins : due'[c] \subseteq due[c]
        /\ \A c \in Admins \ {a} : \A x \in due'[c] : rights'[Of(x)] = rights[Of(x)]
        /\ \A t \in Targets \ {Of(id)} : rights'[t] = rights[t]
    BY <1>1, <1>2, <2>1, WriteKeeps
  <2>3. \A x \in Children : Of(x) \in Targets
    BY TargetsOf DEF Resources, Children
  <2>4. \A x \in due'[a] : Reached(a, x) \/ x = id => rights'[Of(x)] = local[a].flags
    BY <2>2, <2>3 DEF Reached
  <2> QED
    BY <2>2, <2>4
<1>3. CASE due' = [due EXCEPT ![a] = @ \ {id}] /\ UNCHANGED <<rights, may>>
  <2>1. CallInv' /\ may' \in BOOLEAN
    BY <1>3, CallKeeps
  <2>2. /\ due'[a] = due[a] \ {id} /\ \A c \in Admins \ {a} : due'[c] = due[c]
        /\ due' \in [Admins -> SUBSET Children]
    BY <1>1, <1>3 DEF TypeInv
  <2> QED
    BY <1>1, <1>3, <2>1, <2>2 DEF TypeInv, Reached
<1> QED
  BY <1>2, <1>3 DEF Copy

LEMMA CopyToBucketStep ==
  ASSUME RightsInv, NEW a \in Admins, CopyToBucket(a)
  PROVE  RightsInv'
<1>1. TypeInv /\ CascadeInv(a) /\ pc[a] = "next"
  BY DEF RightsInv, CopyToBucket
<1>2. PICK b \in listing[a] :
        /\ Copy(a, b)
        /\ listing' = [listing EXCEPT ![a] = @ \ {b}]
        /\ local' = [local EXCEPT ![a].bucket = b]
  BY DEF CopyToBucket
<1>3. pc' = [pc EXCEPT ![a] = "documents"] /\ UNCHANGED <<status, todo, call>>
  BY DEF CopyToBucket, Goto
<1>4. b \in Buckets /\ b \in Children
  BY <1>1 DEF TypeInv, Children
<1>5. /\ rights' \in [Targets -> Flags] /\ due' \in [Admins -> SUBSET Children]
      /\ CallInv' /\ may' \in BOOLEAN
      /\ \A c \in Admins : due'[c] \subseteq due[c]
      /\ \A c \in Admins \ {a} : \A x \in due'[c] : rights'[Of(x)] = rights[Of(x)]
      /\ \A x \in due'[a] : Reached(a, x) \/ x = b => rights'[Of(x)] = local[a].flags
  BY <1>2, <1>3, <1>4, CopyKeeps
<1>6. /\ local' \in [Admins -> Cascading] /\ local'[a].bucket = b
      /\ local'[a].flags = local[a].flags /\ local'[a].cut = local[a].cut
      /\ \A c \in Admins \ {a} : local'[c] = local[c]
  <2>1. ASSUME NEW l \in Cascading
        PROVE  /\ [l EXCEPT !.bucket = b] \in Cascading /\ [l EXCEPT !.bucket = b].bucket = b
               /\ [l EXCEPT !.bucket = b].flags = l.flags
               /\ [l EXCEPT !.bucket = b].cut = l.cut
    BY <1>4 DEF Cascading, Resources
  <2>2. local' = [local EXCEPT ![a] = [local[a] EXCEPT !.bucket = b]]
    BY <1>2
  <2> QED
    BY <1>1, <2>1, <2>2 DEF TypeInv
<1>7. TypeInv'
  BY <1>1, <1>2, <1>3, <1>5, <1>6 DEF TypeInv, Labels
<1>8. \A c \in Admins \ {a} : Frame(c)
  BY <1>1, <1>2, <1>3, <1>5, <1>6 DEF Frame, TypeInv
<1>9. pc'[a] = "documents" /\ listing'[a] = listing[a] \ {b}
  BY <1>1, <1>2, <1>3 DEF TypeInv
<1>10. DueLive(a)'
  BY <1>1, <1>3, <1>5 DEF CascadeInv, DueLive, Live
<1>11. Ahead(a)'
  <2> SUFFICES ASSUME ~local[a].cut, NEW id \in due'[a]
               PROVE  \/ rights'[Of(id)] = local[a].flags
                      \/ id \in listing'[a]
                      \/ id \in Documents /\ BucketOf[id] \in listing'[a]
                      \/ id \in Documents /\ BucketOf[id] = b
    BY <1>6, <1>9 DEF Ahead, Reached, Listed
  <2>1. Reached(a, id) \/ Listed(a, id)
    BY <1>1, <1>5 DEF CascadeInv, Ahead
  <2> QED
    BY <1>5, <1>9, <2>1 DEF Listed
<1> QED
  BY <1>5, <1>7, <1>8, <1>10, <1>11, CascadeKeeps DEF CascadeInv

LEMMA CopyToDocumentStep ==
  ASSUME RightsInv, NEW a \in Admins, CopyToDocument(a)
  PROVE  RightsInv'
<1>1. TypeInv /\ CascadeInv(a) /\ pc[a] = "copy"
  BY DEF RightsInv, CopyToDocument
<1>2. PICK d \in todo[a] : Copy(a, d) /\ todo' = [todo EXCEPT ![a] = @ \ {d}]
  BY DEF CopyToDocument
<1>3. UNCHANGED <<status, pc, local, listing, call>>
  BY DEF CopyToDocument
<1>4. d \in Children
  BY <1>1 DEF TypeInv, Children
<1>5. /\ rights' \in [Targets -> Flags] /\ due' \in [Admins -> SUBSET Children]
      /\ CallInv' /\ may' \in BOOLEAN
      /\ \A c \in Admins : due'[c] \subseteq due[c]
      /\ \A c \in Admins \ {a} : \A x \in due'[c] : rights'[Of(x)] = rights[Of(x)]
      /\ \A x \in due'[a] : Reached(a, x) \/ x = d => rights'[Of(x)] = local[a].flags
  BY <1>2, <1>3, <1>4, CopyKeeps
<1>6. TypeInv'
  BY <1>1, <1>2, <1>3, <1>5 DEF TypeInv
<1>7. \A c \in Admins \ {a} : Frame(c)
  BY <1>1, <1>2, <1>3, <1>5 DEF Frame, TypeInv
<1>8. todo'[a] = todo[a] \ {d}
  BY <1>1, <1>2 DEF TypeInv
<1>9. DueLive(a)'
  BY <1>1, <1>3, <1>5 DEF CascadeInv, DueLive, Live
<1>10. Ahead(a)'
  <2> SUFFICES ASSUME ~local[a].cut, NEW id \in due'[a]
               PROVE  rights'[Of(id)] = local[a].flags \/ Listed(a, id) \/ id \in todo'[a]
    BY <1>1, <1>3 DEF Ahead, Reached, Listed
  <2>1. Reached(a, id) \/ Listed(a, id) \/ id \in todo[a]
    BY <1>1, <1>5 DEF CascadeInv, Ahead
  <2> QED
    BY <1>5, <1>8, <2>1
<1> QED
  BY <1>5, <1>6, <1>7, <1>9, <1>10, CascadeKeeps DEF CascadeInv

(* The next bucket, the reply, or the end of a cascade. *)
LEMMA AdvanceStep ==
  ASSUME RightsInv, NEW a \in Admins, Advance(a) \/ Reply(a) \/ GiveUp(a)
  PROVE  RightsInv'
<1>1. TypeInv /\ CascadeInv(a)
  BY DEF RightsInv
<1>2. UNCHANGED <<status, rights, call, may>>
  BY DEF Advance, Reply, GiveUp
<1>3. CallInv'
  BY <1>2, CallKeeps
<1>4. NoLocal \in Cascading
  BY DEF NoLocal, Cascading, Flags
<1>5. TypeInv'
  BY <1>1, <1>4 DEF Advance, Reply, GiveUp, Goto, TypeInv, Labels
<1>6. \A c \in Admins \ {a} : Frame(c)
  BY <1>1 DEF Advance, Reply, GiveUp, Goto, Frame, TypeInv
<1>7. CascadeInv(a)'
  <2>1. CASE Advance(a)
    <3>1. /\ pc[a] = "copy" /\ todo[a] = {} /\ UNCHANGED <<local, listing, due>>
          /\ pc'[a] = IF listing[a] = {} THEN "panel" ELSE "next"
      BY <1>1, <2>1 DEF Advance, Goto, TypeInv
    <3>2. DueLive(a)'
      BY <1>1, <1>2, <3>1 DEF CascadeInv, DueLive, Live
    <3>3. Ahead(a)'
      BY <1>1, <1>2, <3>1 DEF CascadeInv, Ahead, Reached, Listed
    <3> QED
      BY <3>2, <3>3 DEF CascadeInv
  <2>2. CASE Reply(a) \/ GiveUp(a)
    <3>1. due'[a] = {}
      BY <1>1, <2>2 DEF Reply, GiveUp, TypeInv
    <3> QED
      BY <3>1 DEF CascadeInv, DueLive, Ahead
  <2> QED
    BY <2>1, <2>2
<1> QED
  BY <1>3, <1>5, <1>6, <1>7, CascadeKeeps

-----------------------------------------------------------------------------
(* Others create and delete: a cascade owes nothing beneath what is gone.   *)
LEMMA ResourceStep ==
  ASSUME RightsInv, NEW id \in Resources, Create(id) \/ Delete(id)
  PROVE  RightsInv'
<1>1. TypeInv
  BY DEF RightsInv
<1>2. UNCHANGED <<rights, pc, local, todo, listing, call, may>>
  BY DEF Create, Delete
<1>3. CallInv'
  BY <1>2, CallKeeps
<1>4. TypeInv'
  BY <1>1, <1>2 DEF Create, Delete, TypeInv
<1>5. \A c \in Admins : Frame(c)
  <2> TAKE c \in Admins
  <2>1. due'[c] \subseteq due[c] /\ due[c] \subseteq Resources
    BY <1>1 DEF Create, Delete, TypeInv, Children, Resources
  <2>2. \A x \in due'[c] : x # id /\ (x \in Documents => BucketOf[x] # id)
    <3>1. CASE Create(id)
      BY <2>1, <3>1 DEF Create, RightsInv, CascadeInv, DueLive, Live
    <3>2. CASE Delete(id)
      BY <1>1, <3>2 DEF Delete, TypeInv
    <3> QED
      BY <3>1, <3>2
  <2>3. \A x \in Resources \ {id} : status'[x] = status[x]
    BY <1>1 DEF Create, Delete, TypeInv
  <2>4. \A x \in due'[c] : x \in Documents => BucketOf[x] \in Resources
    BY BucketOfAssumption DEF Resources
  <2> QED
    BY <1>2, <2>1, <2>2, <2>3, <2>4 DEF Frame
<1> QED
  BY <1>3, <1>4, <1>5, FrameKeeps DEF RightsInv

-----------------------------------------------------------------------------
(* The principal's request. *)
LEMMA CallStep ==
  ASSUME RightsInv, Arrive \/ RightsCtx \/ CanMiddleware \/ Handled
  PROVE  RightsInv'
<1>1. TypeInv /\ CallInv
  BY DEF RightsInv
<1>2. UNCHANGED <<status, rights, pc, local, todo, listing, due>>
  BY DEF Arrive, RightsCtx, CanMiddleware, Handled
<1>3. \A c \in Admins : Frame(c)
  BY <1>2 DEF Frame
<1>4. NoCall \in Call /\ NoCall.at = "idle"
  BY DEF NoCall, Call, Actions
<1>5. CallInv' /\ call' \in Call /\ may' \in BOOLEAN
  <2>1. CASE Arrive
    <3>1. PICK c \in Calls :
            call' = [at |-> "rights", action |-> c[1], target |-> c[2],
                     verdicts |-> {}, lost |-> FALSE]
      BY <2>1 DEF Arrive
    <3>2. c[1] \in Actions /\ c[2] \in Targets
      BY CallsAssumption DEF Routes
    <3>3. may' = Granted(rights, call'.action, call'.target)
      BY <2>1 DEF Arrive
    <3>4. may' \in BOOLEAN /\ (may' <=> Granted(rights', call'.action, call'.target))
      BY <1>2, <3>3 DEF Granted
    <3>5. call' \in Call
      BY <3>1, <3>2 DEF Call
    <3> QED
      BY <3>1, <3>2, <3>4, <3>5 DEF CallInv, Granted
  <2>2. CASE RightsCtx
    <3>1. /\ call.at = "rights" /\ may' = may /\ call.target \in Targets /\ call.action \in Actions
      BY <1>1, <2>2 DEF RightsCtx, CallInv, TypeInv, Call
    <3>2. PICK lost \in BOOLEAN, vs \in SUBSET BOOLEAN :
            /\ call' = [call EXCEPT !.at = "can", !.lost = lost, !.verdicts = vs]
            /\ ~lost => vs = Verdicts(Rows, call.action, call.target)
      <4>1. \A rows : Verdicts(rows, call.action, call.target) \in SUBSET BOOLEAN
        <5> TAKE rows
        <5>1. checkRights(rows, call.action, call.target) \in BOOLEAN
          BY DEF checkRights
        <5>2. ASSUME NEW v \in {(call.action \in row.flags) :
                                row \in Matching(rows, call.target)}
              PROVE  v \in BOOLEAN
          <6>1. PICK row \in Matching(rows, call.target) : v = (call.action \in row.flags)
            OBVIOUS
          <6>2. (call.action \in row.flags) \in BOOLEAN
            OBVIOUS
          <6> QED
            BY <6>1, <6>2
        <5>3. canOpen(rows, call.action, call.target) \in SUBSET BOOLEAN
          BY <5>2 DEF canOpen
        <5> QED
          BY <5>1, <5>3 DEF Verdicts
      <4>2. call.lost \in BOOLEAN
        BY <1>1 DEF TypeInv, Call
      <4>3. CASE call' = [call EXCEPT !.at = "can", !.lost = TRUE,
                            !.verdicts = Verdicts({}, call.action, call.target)]
        BY <4>1, <4>3
      <4>4. CASE call' = [call EXCEPT !.at = "can",
                            !.verdicts = Verdicts(Rows, call.action, call.target)]
        <5>1. [call EXCEPT !.at = "can", !.verdicts = Verdicts(Rows, call.action, call.target)]
               = [call EXCEPT !.at = "can", !.lost = call.lost,
                              !.verdicts = Verdicts(Rows, call.action, call.target)]
          BY <1>1 DEF TypeInv, Call
        <5> QED
          BY <4>1, <4>2, <4>4, <5>1
      <4> QED
        BY <2>2, <4>3, <4>4 DEF RightsCtx
    <3>3. /\ call' \in Call /\ call'.at = "can" /\ call'.lost = lost /\ call'.verdicts = vs
          /\ call'.action = call.action /\ call'.target = call.target
      BY <1>1, <3>2 DEF TypeInv, Call
    <3>4. Granted(rights, call.action, call.target) => may
      BY <1>1, <3>1 DEF CallInv
    <3>5. ~lost /\ TRUE \in vs => may
      BY <1>1, <3>1, <3>2, <3>4, VerdictsGranted
    <3> QED
      BY <1>1, <1>2, <3>1, <3>3, <3>4, <3>5 DEF CallInv, Granted, TypeInv
  <2>3. CASE CanMiddleware
    <3>1. CASE /\ TRUE \in call.verdicts /\ call.at = "can"
               /\ call' = [call EXCEPT !.at = "handler", !.verdicts = {}]
               /\ may' = may
      <4>1. /\ call' \in Call /\ call'.at = "handler" /\ call'.lost = call.lost
            /\ call'.action = call.action /\ call'.target = call.target
        BY <1>1, <3>1 DEF TypeInv, Call
      <4> QED
        BY <1>1, <1>2, <3>1, <4>1 DEF CallInv, Granted, TypeInv
    <3>2. CASE call' = NoCall /\ may' = FALSE
      BY <1>4, <3>2 DEF CallInv
    <3> QED
      BY <1>1, <2>3, <3>1, <3>2 DEF CanMiddleware, TypeInv, Call
  <2>4. CASE Handled
    BY <1>4, <2>4 DEF Handled, CallInv
  <2> QED
    BY <2>1, <2>2, <2>3, <2>4
<1>6. TypeInv'
  BY <1>1, <1>2, <1>5 DEF TypeInv
<1> QED
  BY <1>3, <1>5, <1>6, FrameKeeps DEF RightsInv

-----------------------------------------------------------------------------
LEMMA RightsInductive ==
  ASSUME RightsInv, [Next]_vars
  PROVE  RightsInv'
<1>1. CASE Ask
  BY <1>1, AskStep
<1>2. ASSUME NEW a \in Admins,
             addProjectRight(a) \/ addBucketRight(a) \/ Serve(a) \/ GiveUp(a)
      PROVE  RightsInv'
  BY <1>2, AskCascadeStep, ListBucketsStep, CopyToBucketStep, ListDocumentsStep,
     CopyToDocumentStep, AdvanceStep DEF Serve
<1>3. ASSUME NEW id \in Resources, Create(id) \/ Delete(id)
      PROVE  RightsInv'
  BY <1>3, ResourceStep
<1>4. CASE Arrive \/ RightsCtx \/ CanMiddleware \/ Handled
  BY <1>4, CallStep
<1>5. CASE UNCHANGED vars
  <2>1. TypeInv' /\ CallInv'
    BY <1>5, CallKeeps DEF vars, RightsInv, TypeInv
  <2>2. \A c \in Admins : Frame(c)
    BY <1>5 DEF vars, Frame
  <2> QED
    BY <2>1, <2>2, FrameKeeps DEF RightsInv
<1> QED
  BY <1>1, <1>2, <1>3, <1>4, <1>5 DEF Next

LEMMA RightsAlways == Spec => []RightsInv
  BY RightsInit, RightsInductive, PTL DEF Spec

-----------------------------------------------------------------------------
(* A cascade that no limit cuts off reaches every child that is still owed  *)
(* when it replies, whatever is created, deleted and granted meanwhile.     *)
THEOREM CascadesReach == Spec => []CascadeReaches
<1>1. RightsInv => CascadeReaches
  BY DEF RightsInv, CascadeInv, Ahead, Reached, CascadeReaches
<1> QED
  BY <1>1, RightsAlways, PTL

(* In both modes, and for any rows in any order, a handler runs only if the *)
(* rights allowed it at some instant since the request arrived.             *)
THEOREM AdmissionsJustified == Spec => []AdmissionJustified
<1>1. RightsInv => AdmissionJustified
  BY DEF RightsInv, CallInv, AdmissionJustified
<1> QED
  BY <1>1, RightsAlways, PTL
=============================================================================
