--------------------------- MODULE VersionHistory ---------------------------
(***************************************************************************)
(* What document versioning promises (docs/DATABASE.md, "every state       *)
(* transition is lossless and reversible"): a document is an append-only   *)
(* sequence of contents, the v-th being version v and the last one the     *)
(* current version; a removed document keeps its sequence and never        *)
(* changes again.                                                          *)
(***************************************************************************)
EXTENDS Integers, Sequences

CONSTANTS Docs, Contents

VARIABLES
    hist,  \* [Docs -> sequences of contents], empty before creation
    gone   \* the documents that were removed

Init ==
    /\ hist = [d \in Docs |-> <<>>]
    /\ gone = {}

Create(d, c) ==
    /\ hist[d] = <<>>
    /\ hist' = [hist EXCEPT ![d] = <<c>>]
    /\ UNCHANGED gone

Commit(d, c) ==
    /\ hist[d] # <<>>
    /\ d \notin gone
    /\ hist' = [hist EXCEPT ![d] = Append(@, c)]
    /\ UNCHANGED gone

Remove(d) ==
    /\ hist[d] # <<>>
    /\ gone' = gone \cup {d}
    /\ UNCHANGED hist

Next == \E d \in Docs : \/ \E c \in Contents : Create(d, c) \/ Commit(d, c)
                        \/ Remove(d)

Spec == Init /\ [][Next]_<<hist, gone>>
=============================================================================
