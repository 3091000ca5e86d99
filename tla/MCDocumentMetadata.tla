------------------------- MODULE MCDocumentMetadata -------------------------
(* Instances of DocumentMetadata for TLC: c1 and c2 are two images, whose   *)
(* width and height are extracted.                                         *)
EXTENDS DocumentMetadata, TLC

CONSTANTS c1, c2, width, height

FoundInImages == c1 :> {width, height} @@ c2 :> {width, height}

\* One handler of each behaviour: on keys without the prefix the two surfaces
\* set and delete alike, and the web interface restores as it updates.
MCHandlers == {<<"api", "update">>, <<"api", "restore">>, <<"api", "replace">>,
               <<"web", "update">>, <<"web", "set">>, <<"web", "delete">>}
=============================================================================
