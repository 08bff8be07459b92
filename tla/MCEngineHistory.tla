-------------------------- MODULE MCEngineHistory ---------------------------
(* The small instances of MCEngine, with the clients' history. *)
EXTENDS MCEngine, EngineHistory
=============================================================================
