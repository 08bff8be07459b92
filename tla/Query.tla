-------------------------------- MODULE Query --------------------------------
(***************************************************************************)
(* What src/manager.c does with a statement that has a clause: which       *)
(* tables and columns a SELECT names, one filter per table, the rows of    *)
(* each table that pass and the lines that are printed for them.           *)
(*                                                                         *)
(* A query is a record: tables, cols (table and field of each selected     *)
(* column, nickName), list (the conditions) and orderBy.                   *)
(***************************************************************************)
EXTENDS Conditions, FiniteSets, SequencesExt

CONSTANTS Catalog,  \* the columns of each table of the database, in order
          Stored    \* the rows of each table, in the order they are read

Tables == DOMAIN Catalog

ASSUME CatalogAssumption ==
  Catalog \in [Tables -> Seq(Fields)] /\ None \notin Fields \cup Tables

ASSUME StoredAssumption ==
  \A t \in Tables : Stored[t] \in Seq([ToSet(Catalog[t]) -> Int])

(* A table that is named twice is taken once. *)
GetSelectTable(names) ==
  LET seen[n \in 0..Len(names)] ==
        IF n = 0 THEN <<>>
        ELSE IF Contains(seen[n - 1], names[n]) THEN seen[n - 1]
        ELSE Append(seen[n - 1], names[n])
  IN  seen[Len(names)]

(* The tables of the query that have the column. *)
Owners(col, names) ==
  {t \in ToSet(names) : Contains(Catalog[t], col.field) /\ col.table \in {None, t}}

(* Every column of every table, for "*". *)
AllColumns(names) ==
  FlattenSeq([n \in DOMAIN names |->
    [k \in DOMAIN Catalog[names[n]] |->
      [table |-> names[n], field |-> Catalog[names[n]][k]]]])

Selected(q) == IF q.cols = <<>> THEN AllColumns(GetSelectTable(q.tables)) ELSE q.cols

(* A table may have two columns of one name, and then neither can be meant. *)
OneField(col, names) ==
  \E t \in ToSet(names) :
    /\ Owners(col, names) = {t}
    /\ Cardinality({k \in DOMAIN Catalog[t] : Catalog[t][k] = col.field}) = 1

(* Every selected column is one column of one table. *)
KnownColumns(q) == \A n \in DOMAIN Selected(q) : OneField(Selected(q)[n], q.tables)

(* The selected columns with the tables they belong to. *)
GetSelectField(q) ==
  IF q.cols = <<>> THEN AllColumns(GetSelectTable(q.tables))
  ELSE [n \in DOMAIN q.cols |->
         [table |-> CHOOSE t \in Owners(q.cols[n], q.tables) : TRUE,
          field |-> q.cols[n].field]]

(* The selected columns of one table. *)
ColumnsOf(t, q) == {c.field : c \in {d \in ToSet(GetSelectField(q)) : d.table = t}}

-----------------------------------------------------------------------------
(* The table a condition names, if it does. *)
TargetTable(c) == IF c.leftValue # None THEN c.rightTable ELSE c.leftTable

Concerns(c, t) == TargetTable(c) \in {None, t}

(* CheckConditionList for the columns of one table. *)
TableFilter(t, columns, list) ==
  Filter(columns, Among(list, {c \in ToSet(list) : Concerns(c, t)}))

SelectFilter(t, q) == TableFilter(t, ColumnsOf(t, q), q.list)

(* CheckOrderBy: the column must be selected, and selected once. *)
CheckOrderBy(q) ==
  \/ q.orderBy.field = None
  \/ Cardinality({n \in DOMAIN GetSelectField(q) :
       /\ GetSelectField(q)[n].field = q.orderBy.field
       /\ q.orderBy.table \in {None, GetSelectField(q)[n].table}}) = 1

(* What a SELECT has to be for rows to be printed. *)
Accepts(q) ==
  /\ ToSet(q.tables) \subseteq Tables
  /\ KnownColumns(q)
  /\ \A n \in DOMAIN q.list : Supported(q.list[n])
  /\ CheckOrderBy(q)

SelectTableQuery(t, q) ==
  Among(Stored[t], {row \in ToSet(Stored[t]) : Passes(row, SelectFilter(t, q))})

(* Slip: the rows of an inner table are gone through once only. *)
CartesianProductSlip(rows) ==
  LET product[n \in 0..Len(rows)] ==
        IF n = 0 THEN << <<>> >>
        ELSE [k \in 1..(IF Len(product[n - 1]) < Len(rows[n]) THEN Len(product[n - 1])
                                                              ELSE Len(rows[n])) |->
               Append(product[n - 1][k], rows[n][k])]
  IN  product[Len(rows)]

(* Every combination of one row per table, the last table running fastest. *)
CartesianProduct(rows) ==
  LET product[n \in 0..Len(rows)] ==
        IF n = 0 THEN << <<>> >>
        ELSE FlattenSeq([k \in DOMAIN product[n - 1] |->
               [m \in DOMAIN rows[n] |-> Append(product[n - 1][k], rows[n][m])]])
  IN  product[Len(rows)]

(* The printed lines: the value of each selected column in the row of its table. *)
ManagerSelect(q) ==
  LET names  == GetSelectTable(q.tables)
      cols   == GetSelectField(q)
      joined == CartesianProduct([n \in DOMAIN names |-> SelectTableQuery(names[n], q)])
  IN  [k \in DOMAIN joined |->
        [n \in DOMAIN cols |->
          joined[k][CHOOSE m \in DOMAIN names : names[m] = cols[n].table][cols[n].field]]]

=============================================================================
