------------------------------ MODULE MCRights ------------------------------
(* Instances of Rights for TLC: a bucket with a document, and another. *)
EXTENDS Rights, TLC

CONSTANTS b1, b2, d1

MCBucketOf == d1 :> b1

MCGiven == <<"bucket", Every>> :> "delete"

MCCalls == {<<"delete", <<"bucket", b1>>>>, <<"create", <<"bucket", Every>>>>}
=============================================================================
