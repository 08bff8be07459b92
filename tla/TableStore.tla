----------------------------- MODULE TableStore -----------------------------
(***************************************************************************)
(* What a client can count on: tables of rows in the order of their        *)
(* INSERTs, an id that counts those INSERTs and is never used again, and   *)
(* statements that take effect at once.  One thing is not as expected: a   *)
(* SELECT may print the first row a table ever had once more, also when it *)
(* is deleted, since a search past the last key can answer NODE_EOF and    *)
(* DataSeek reads row 0 for that.                                          *)
(***************************************************************************)
EXTENDS Conditions, SequencesExt

CONSTANTS
  Tables,
  Values,
  Clauses,    \* the WHERE clauses
  SetFields,  \* the columns UPDATE sets
  Absent      \* no such table

VARIABLES
  table,   \* the rows of each table, how many it has ever had, and the first of these
  reply    \* the last statement and its answer

vars == <<table, reply>>

NewTable == [rows |-> <<>>, count |-> 0, first |-> None]

Init ==
  /\ \A t \in Tables : table[t] \in {Absent, NewTable}
  /\ reply = None

Reply(op, t, filter, rows) ==
  reply' = [op |-> op, table |-> t, filter |-> filter, rows |-> rows]

CreateTable(t) ==
  /\ table[t] = Absent
  /\ table' = [table EXCEPT ![t] = NewTable]
  /\ Reply("create table", t, None, <<>>)

Insert(t) ==
  /\ table[t] # Absent
  /\ \E given \in [Fields \ {"id"} -> Values \cup {0}] :
       LET row == [f \in Fields |-> IF f = "id" THEN table[t].count ELSE given[f]]
       IN  /\ table' = [table EXCEPT ![t] = [rows  |-> Append(@.rows, row),
                                             count |-> @.count + 1,
                                             first |-> IF @.count = 0 THEN row ELSE @.first]]
           /\ Reply("insert", t, None, <<row>>)

(* The rows that pass, and perhaps the first one again. *)
Printed(rows, first, filter) ==
  {rows} \cup IF first = None \/ ~Passes(first, filter) THEN {}
              ELSE {InsertAt(rows, i, first) : i \in 1..Len(rows) + 1}

Select(t, filter) ==
  /\ table[t] # Absent
  /\ \E rows \in Printed(SelectSeq(table[t].rows, LAMBDA row : Passes(row, filter)),
                         table[t].first, filter) :
       Reply("select", t, filter, rows)
  /\ UNCHANGED table

(* A deleted first row is updated, or not. *)
Update(t, filter) ==
  /\ table[t] # Absent
  /\ \E f \in SetFields, v \in Values :
       LET Set(row) == IF Passes(row, filter) THEN [row EXCEPT ![f] = v] ELSE row
           old      == table[t].first
           stored   == old \in ToSet(table[t].rows)
       IN  \E first \in IF old = None THEN {None} ELSE {Set(old)} \cup IF stored THEN {} ELSE {old} :
             table' = [table EXCEPT ![t].rows = [i \in DOMAIN @ |-> Set(@[i])],
                                    ![t].first = first]
  /\ Reply("update", t, filter, <<>>)

Delete(t, filter) ==
  /\ table[t] # Absent
  /\ table' = [table EXCEPT ![t].rows = SelectSeq(@, LAMBDA row : ~Passes(row, filter))]
  /\ Reply("delete", t, filter, <<>>)

Next ==
  \E t \in Tables :
    \/ CreateTable(t)
    \/ Insert(t)
    \/ \E list \in Clauses :
         LET filter == Filter(Fields, list)
         IN  Select(t, filter) \/ Update(t, filter) \/ Delete(t, filter)

Spec == Init /\ [][Next]_vars

=============================================================================
