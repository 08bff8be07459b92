------------------------------ MODULE MCEngine ------------------------------
(* One or two sessions on one or two tables with an id and one more column. *)
EXTENDS Engine

MCFields    == {"id", "age"}
MCFieldList == <<"id", "age">>

Where(f, op, v) ==
  [leftField |-> f, leftValue |-> None, op |-> op, rightField |-> None, rightValue |-> v]

(* A lookup. *)
ById == {<<Where("id", "TK_EQ", 0)>>}

(* No clause, and one that looks a row up by id. *)
ByKey == {<<>>, <<Where("id", "TK_EQ", 0)>>}

(* One that looks a row up, and one on a column without an index, a scan. *)
ByIdOrAge == ById \cup {<<Where("age", "TK_EQ", 0)>>}

(* Also a range, a lookup by age and two columns at once. *)
Various == {<<>>,
            <<Where("id", "TK_EQ", 0)>>,
            <<Where("age", "TK_EQ", 1)>>,
            <<Where("age", "TK_GT", 0), Where("id", "TK_NE", 0)>>}

Everything == {"use", "create database", "drop database", "create table", "drop table",
               "create index", "drop index", "insert", "select", "update", "delete"}

Symmetry == Permutations(Sessions)
=============================================================================
