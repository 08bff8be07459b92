------------------------------ MODULE MCServer ------------------------------
(* Two clients and a parent with room for the connection of one of them. *)
EXTENDS Server
=============================================================================
