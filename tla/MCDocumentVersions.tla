------------------------- MODULE MCDocumentVersions -------------------------
(* Instances of DocumentVersions for TLC: which handlers clients call. *)
EXTENDS DocumentVersions, TLC

ApiHandlers == {h \in AllHandlers : h[1] = "api"}
WebDeleteHandlers == {<<"api", "upload">>, <<"api", "update">>, <<"web", "delete">>}

Symmetry == Permutations(Contents) \cup Permutations(Requests)
=============================================================================
