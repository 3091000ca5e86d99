----------------------------- MODULE MCListing -----------------------------
(* Instances of Listing for TLC: limits below, at and above each default   *)
(* and maximum.                                                            *)
EXTENDS Listing

\* Two rows in the middle of the lists are equal but in name.
MCMoment == <<1, 2, 2, 3>>

MCAsked == {-1, 1, 2, 4}
=============================================================================
