------------------------------- MODULE MCText --------------------------------
(* Every text of up to four characters, and ints of twelve bits. *)
EXTENDS Text
=============================================================================
