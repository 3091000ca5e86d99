------------------------------ MODULE MCServer ------------------------------
(* Instances of Server for TLC: two requests, for any two routes.          *)
EXTENDS Server

MCServed == Routes
=============================================================================
