------------------------------ MODULE MCParser -------------------------------
(* Two tables that share the column id, with a few rows each. *)
EXTENDS Parser

CONSTANTS student, teacher, id, age

MCCatalog == student :> <<id, age>> @@ teacher :> <<id>>

Row(i, a) == id :> i @@ age :> a

MCStored == student :> <<Row(1, 2), Row(2, 2), Row(3, 3)>> @@ teacher :> <<id :> 2, id :> 3>>
=============================================================================
