------------------------------- MODULE Engine -------------------------------
(***************************************************************************)
(* The statements of src/manager.c on the files of one database.  The      *)
(* server forks a process per client: sessions share nothing but these     *)
(* files, and take no locks.  A session reads dbInfo once, at USE, and     *)
(* from then on trusts its own copy of the catalog, dataNum included.      *)
(*                                                                         *)
(* A step ends where another process, or a kill, can tell the difference:  *)
(* making or removing a file, opening an index, reading a page, reading a  *)
(* row, writing one, closing (which writes the header that was read at the *)
(* opening), and the two halves of DatabaseInfoFlush (fopen "w", fclose).  *)
(* rm -r is one step, and so is CreateBptree, header included.             *)
(*                                                                         *)
(* Bounds.  An index has one page (a table of less than 452 entries;       *)
(* Bptree.tla has the rest), also when it is emptied under a session that  *)
(* is inserting into it.  A refused statement changes nothing and is left  *)
(* out.                                                                    *)
(***************************************************************************)
EXTENDS Conditions, SequencesExt

CONSTANTS
  Sessions,
  Tables,
  FieldList,     \* the columns of every table, "id" first
  Values,        \* what the other columns hold
  Ops,           \* the statements that are used
  Clauses,       \* the WHERE clauses: sequences of conditions
  SetFields,     \* the columns UPDATE sets; None: no column of that type
  InitialTables, \* tables that exist at the start, empty; {}: no database
  MaxRows,       \* bound: rows of a table
  MaxEntries,    \* bound: entries of id.index before an INSERT
  MaxTableNum,   \* bound: tableNum
  MaxDeaths,     \* bound: sessions killed
  Absent,        \* no such file
  Torn           \* dbInfo after fopen "w" and before fclose

ASSUME FieldListAssumption ==
  /\ FieldList \in Seq(Fields) /\ Fields = ToSet(FieldList)
  /\ FieldList # <<>> /\ FieldList[1] = "id"

(* Columns hold integers: an index is built of atoi of what is stored. *)
ASSUME ValuesAssumption == Values \subseteq Int

ASSUME NoneAssumption   == None \notin Fields /\ None \notin Values
ASSUME TablesAssumption == InitialTables \subseteq Tables /\ IsFiniteSet(Tables)

VARIABLES
  dir,     \* is there a directory of that name
  dbInfo,  \* the catalog file
  data,    \* <table>.data
  index,   \* <table>.<field>.index
  stray,   \* the files each session has open whose names were removed
  db,      \* xbParser->db of each session
  pc,      \* where its statement is
  job,     \* the locals of the statement
  deaths   \* whether killed sessions were on their way to a new dbInfo (history)

disk == <<dir, dbInfo, data, index, stray>>
vars == <<disk, db, pc, job, deaths>>

NODE_EOF == -1
Junk     == "junk"   \* the name in a Table that fread did not fill

Row      == [Fields -> Values \cup Int]
Table    == [name : Tables \cup {Junk}, indexed : SUBSET Fields, dataNum : Nat]
Database == [tables : Seq(Table), tableNum : Nat]
Entry    == [key : Int, dat : Int, del : BOOLEAN]
Index    == [root : BOOLEAN, leaf : Seq(Entry)]

(* A file that is not there, or torn, has no contents, and None is no catalog. *)
ASSUME AbsentAssumption ==
  /\ Absent \notin Seq(Row) /\ Absent \notin Index /\ None \notin Index
  /\ \A none \in {Absent, Torn, None} : none \notin Database

ASSUME JunkAssumption == Junk \notin Tables

EmptyDatabase == [tables |-> <<>>, tableNum |-> 0]
EmptyIndex    == [root |-> FALSE, leaf |-> <<>>]
NewTable(t)   == [name |-> t, indexed |-> {"id"}, dataNum |-> 0]

(* An index to read and write, and whether what is appended or flushed is lost. *)
NoStray == [tree |-> None, out |-> FALSE]

NoJob == [op |-> "none", table |-> Junk, row |-> None, todo |-> <<>>, hits |-> <<>>,
          use |-> "id", filter |-> None, field |-> None, value |-> None,
          head |-> FALSE, leaf |-> <<>>, rows |-> <<>>]

-----------------------------------------------------------------------------
(* One-leaf indexes. *)
(* Slip: the entry names the row after. *)
IndexInsertSlip(leaf, key, dat) ==
  InsertAt(leaf, 1 + Len(Among(leaf, {e \in ToSet(leaf) : e.key <= key})),
           [key |-> key, dat |-> dat + 1, del |-> FALSE])

IndexInsert(leaf, key, dat) ==
  InsertAt(leaf, 1 + Len(Among(leaf, {e \in ToSet(leaf) : e.key <= key})),
           [key |-> key, dat |-> dat, del |-> FALSE])

(* BptreeSearch walks down from the last slot of the key. *)
BptreeSearch(leaf, key) ==
  LET hits == Among(Reverse(leaf), {e \in ToSet(leaf) : e.key = key /\ ~e.del})
  IN  [i \in DOMAIN hits |-> hits[i].dat]

(* The slot past the last entry has any key; its row is NODE_EOF. *)
Phantom(leaf, key) ==
  IF leaf # <<>> /\ \A i \in DOMAIN leaf : leaf[i].key <= key
  THEN {<<>>, <<NODE_EOF>>} ELSE {<<>>}

Found(root, leaf, key) ==
  IF root THEN {x \o BptreeSearch(leaf, key) : x \in Phantom(leaf, key)} ELSE {<<>>}

BptreeDelete(leaf, key) ==
  [i \in DOMAIN leaf |-> [leaf[i] EXCEPT !.del = @ \/ leaf[i].key = key]]

(***************************************************************************)
(* DataSeek: a negative offset reads row 0.  Past the end fread fills      *)
(* nothing, and strcpy copies what the stack has there: from an earlier    *)
(* row, or without an end, and the session crashes.                        *)
(***************************************************************************)
Place(offset) == IF offset < 0 THEN 1 ELSE offset + 1

PastEnd(t, offset) == Place(offset) \notin DOMAIN data[t]

DataSeek(t, offset) ==
  IF PastEnd(t, offset) THEN [Fields -> Values \cup {0}] ELSE {data[t][Place(offset)]}

(* DataFlush, of a whole row; past the end it leaves rows of zeros. *)
DataFlush(rows, offset, row) ==
  LET p == Place(offset)
  IN  [i \in 1..(IF p > Len(rows) THEN p ELSE Len(rows)) |->
         IF i = p THEN row
         ELSE IF i \in DOMAIN rows THEN rows[i] ELSE [f \in Fields |-> 0]]

-----------------------------------------------------------------------------
(* The catalog of a session. *)
Slots(cat, t) == {i \in DOMAIN cat.tables : cat.tables[i].name = t}
Has(cat, t)   == cat # None /\ Slots(cat, t) # {}
Slot(cat, t)  == CHOOSE i \in Slots(cat, t) : \A j \in Slots(cat, t) : i <= j
Info(cat, t)  == cat.tables[Slot(cat, t)]

SetInfo(s, t, info) ==
  db' = [db EXCEPT ![s].tables[Slot(db[s], t)] = info]

Begins(s, op) == pc[s] = "idle" /\ op \in Ops

Go(s, label) == pc' = [pc EXCEPT ![s] = label]

Stop(s, label) ==
  /\ Go(s, label)
  /\ job' = [job EXCEPT ![s] = NoJob]
  /\ stray' = [stray EXCEPT ![s] = NoStray]

(***************************************************************************)
(* The index a session has open: that of the column in its WHERE clause,   *)
(* the one that CREATE INDEX makes, or else id.index.                      *)
(***************************************************************************)
Holding == {"probe", "load", "put", "search", "fetch", "update"}

Held(p, j) ==
  <<j.table, IF p \in {"open use", "probe"} THEN j.use
             ELSE IF j.op = "create index" THEN j.field ELSE "id">>

(* Is it appending to the data?  INSERT opens them first and closes them last. *)
Appending(p, j) == j.op = "insert" /\ p \in {"open", "load", "put", "append"}

(* The index behind the open file. *)
Tree(s) == IF stray[s].tree = None THEN index[Held(pc[s], job[s])] ELSE stray[s].tree

PutTree(s, tree) ==
  IF stray[s].tree = None
  THEN index' = [index EXCEPT ![Held(pc[s], job[s])] = tree] /\ stray' = stray
  ELSE stray' = [stray EXCEPT ![s].tree = tree] /\ index' = index

(* CloseBptree, with what was written: it is gone if the name is. *)
CloseTree(s, tree) ==
  /\ index' = IF stray[s].tree = None
              THEN [index EXCEPT ![Held(pc[s], job[s])] = tree] ELSE index
  /\ stray' = [stray EXCEPT ![s].tree = None]

(* rm takes the name away; a session that has the file open keeps the file. *)
RemoveFiles(names, trees) ==
  /\ data' = [t \in Tables |-> IF t \in names THEN Absent ELSE data[t]]
  /\ index' = [i \in Tables \X Fields |-> IF i \in trees THEN Absent ELSE index[i]]
  /\ stray' = [o \in Sessions |->
       LET held == Held(pc[o], job[o])
       IN  [tree |-> IF pc[o] \in Holding /\ held \in trees /\ stray[o].tree = None
                     THEN index[held] ELSE stray[o].tree,
            out  |-> \/ stray[o].out
                     \/ Appending(pc[o], job[o]) /\ job[o].table \in names]]

Indexed(info) == Among(FieldList, info.indexed)

-----------------------------------------------------------------------------
Init ==
  /\ dir = (InitialTables # {})
  /\ dbInfo = IF InitialTables = {} THEN Absent
              ELSE LET names == SetToSeq(InitialTables)
                   IN  [tables   |-> [i \in DOMAIN names |-> NewTable(names[i])],
                        tableNum |-> Len(names)]
  /\ data = [t \in Tables |-> IF t \in InitialTables THEN <<>> ELSE Absent]
  /\ index = [i \in Tables \X Fields |->
                IF i[1] \in InitialTables /\ i[2] = "id" THEN EmptyIndex ELSE Absent]
  /\ stray = [s \in Sessions |-> NoStray]
  /\ db = [s \in Sessions |-> None]
  /\ pc = [s \in Sessions |-> "idle"]
  /\ job = [s \in Sessions |-> NoJob]
  /\ deaths = <<>>

(* A segmentation fault: NULL from fopen goes to rewind, fseek or fclose. *)
Crash(s) ==
  /\ Stop(s, "crashed")
  /\ UNCHANGED <<dir, dbInfo, data, index, db, deaths>>

(***************************************************************************)
(* OpenDatabase.  A file cut short leaves fields of malloc'd structs: from *)
(* a torn one the session may crash, end up with a database without a name *)
(* (none of the files here, so None) or with no tables; where tableNum is  *)
(* ahead of the list it may crash or get tables of junk.                   *)
(***************************************************************************)
Padded(cat) ==
  [cat EXCEPT !.tables = @ \o [i \in 1..cat.tableNum - Len(@) |->
                                 [name |-> Junk, indexed |-> {}, dataNum |-> 0]]]

Complete(cat) == Len(cat.tables) = cat.tableNum

OpenDatabase ==
  IF ~dir THEN {None}
  ELSE IF dbInfo = Absent THEN {}
  ELSE IF dbInfo = Torn THEN {None, EmptyDatabase}
  ELSE {Padded(dbInfo)}

OpenCrashes == dir /\ IF dbInfo \in {Absent, Torn} THEN TRUE ELSE ~Complete(dbInfo)

ManagerUseDatabase(s) ==
  /\ Begins(s, "use")
  /\ \/ /\ \E cat \in OpenDatabase : db' = [db EXCEPT ![s] = cat]
        /\ UNCHANGED <<disk, pc, job, deaths>>
     \/ OpenCrashes /\ Crash(s)

(* mkdir succeeds, then the new catalog is written. *)
ManagerCreateDatabase(s) ==
  /\ Begins(s, "create database")
  /\ ~dir
  /\ dir' = TRUE
  /\ db' = [db EXCEPT ![s] = EmptyDatabase]
  /\ job' = [job EXCEPT ![s] = NoJob]
  /\ Go(s, "truncate")
  /\ UNCHANGED <<dbInfo, data, index, stray, deaths>>

(* rm -r; the session keeps the catalog it has just read, if there is one. *)
ManagerDropDatabase(s) ==
  /\ Begins(s, "drop database")
  /\ \/ /\ \E cat \in OpenDatabase : db' = [db EXCEPT ![s] = cat]
        /\ dir' = FALSE
        /\ dbInfo' = Absent
        /\ data' = [t \in Tables |-> Absent]
        /\ index' = [i \in Tables \X Fields |-> Absent]
        /\ stray' = [o \in Sessions |->
                       [tree |-> IF pc[o] \in Holding /\ stray[o].tree = None
                                 THEN index[Held(pc[o], job[o])] ELSE stray[o].tree,
                        out  |-> stray[o].out \/ pc[o] = "write" \/ Appending(pc[o], job[o])]]
        /\ UNCHANGED <<pc, job, deaths>>
     \/ OpenCrashes /\ Crash(s)

-----------------------------------------------------------------------------
(* Statements that change the catalog: files first, DatabaseInfoFlush last. *)
CatalogJob(op, t, f, todo) ==
  [NoJob EXCEPT !.op = op, !.table = t, !.field = f, !.todo = todo]

(* fopen "w" makes the file for the rows, or empties it ... *)
ManagerCreateTable(s, t) ==
  /\ Begins(s, "create table")
  /\ db[s] # None /\ ~Has(db[s], t)
  /\ db[s].tableNum < MaxTableNum
  /\ \/ /\ dir
        /\ data' = [data EXCEPT ![t] = <<>>]
        /\ job' = [job EXCEPT ![s] = CatalogJob("create table", t, None, <<>>)]
        /\ Go(s, "make")
        /\ UNCHANGED <<dir, dbInfo, index, stray, db, deaths>>
     \/ ~dir /\ Crash(s)

(* ... and CreateIndex the one for id.index. *)
MakeIndex(s) ==
  /\ pc[s] = "make"
  /\ \/ /\ dir
        /\ index' = [index EXCEPT ![<<job[s].table, "id">>] = EmptyIndex]
        /\ db' = [db EXCEPT ![s] = [tables   |-> Append(@.tables, NewTable(job[s].table)),
                                    tableNum |-> @.tableNum + 1]]
        /\ Go(s, "truncate")
        /\ UNCHANGED <<dir, dbInfo, data, stray, job, deaths>>
     \/ ~dir /\ Crash(s)

(***************************************************************************)
(* The loop leaves table at the last table when none has the name, and     *)
(* that one goes.  tableNum stays.                                         *)
(***************************************************************************)
ManagerDropTable(s, t) ==
  /\ Begins(s, "drop table")
  /\ db[s] # None /\ db[s].tables # <<>>
  /\ IF Has(db[s], t)
     THEN /\ job' = [job EXCEPT ![s] =
                       CatalogJob("drop table", t, None,
                                  [i \in 1..Len(Indexed(Info(db[s], t))) + 1 |-> i - 1])]
          /\ Go(s, "remove")
          /\ UNCHANGED db
     ELSE /\ db' = [db EXCEPT ![s].tables = Front(@)]
          /\ job' = [job EXCEPT ![s] = CatalogJob("drop table", t, None, <<>>)]
          /\ Go(s, "truncate")
  /\ UNCHANGED <<disk, deaths>>

(* One rm for the rows, one for each index; then the table leaves the list. *)
RemoveFile(s) ==
  /\ pc[s] = "remove"
  /\ LET j    == job[s]
         info == Info(db[s], j.table)
         last == Len(j.todo) = 1
     IN  /\ IF Head(j.todo) = 0
            THEN RemoveFiles({j.table}, {})
            ELSE RemoveFiles({}, {<<j.table, Indexed(info)[Head(j.todo)]>>})
         /\ job' = [job EXCEPT ![s].todo = Tail(@)]
         /\ db' = IF last THEN [db EXCEPT ![s].tables = RemoveAt(@, Slot(db[s], j.table))]
                  ELSE db
         /\ Go(s, IF last THEN "truncate" ELSE "remove")
  /\ UNCHANGED <<dir, dbInfo, deaths>>

(* Slip: the loop goes one row too far. *)
ScanKeysSlip(info) == [i \in 1..info.dataNum + 1 |-> i - 1]

(* for (i = 0; i < dataNum; ++i) *)
ScanKeys(info) == [i \in 1..info.dataNum |-> i - 1]

(***************************************************************************)
(* CREATE INDEX makes the file, then reads the rows 0 .. dataNum - 1,      *)
(* deleted ones included, and inserts them one after the other.            *)
(***************************************************************************)
ManagerCreateIndex(s, t, f) ==
  /\ Begins(s, "create index")
  /\ Has(db[s], t) /\ f \notin Info(db[s], t).indexed
  /\ \/ /\ dir
        /\ index' = [index EXCEPT ![<<t, f>>] = EmptyIndex]
        /\ LET info == Info(db[s], t)
           IN  /\ SetInfo(s, t, [info EXCEPT !.indexed = @ \cup {f}])
               /\ job' = [job EXCEPT ![s] =
                            CatalogJob("create index", t, f, ScanKeys(info))]
               /\ Go(s, IF info.dataNum = 0 THEN "truncate" ELSE "seek")
        /\ UNCHANGED <<dir, dbInfo, data, stray, deaths>>
     \/ ~dir /\ Crash(s)

SeekRow(s) ==
  /\ pc[s] = "seek"
  /\ LET j == job[s]
     IN  \/ /\ data[j.table] # Absent
            /\ \E row \in DataSeek(j.table, Head(j.todo)) :
                 job' = [job EXCEPT ![s].row = row]
            /\ Go(s, "open")
            /\ UNCHANGED <<disk, db, deaths>>
         \/ /\ data[j.table] # Absent => PastEnd(j.table, Head(j.todo))
            /\ Crash(s)

(* Slip: hasIndex is not cleared. *)
ManagerDropIndexSlip(s, t, f) ==
  /\ Begins(s, "drop index")
  /\ Has(db[s], t) /\ f \in Info(db[s], t).indexed
  /\ RemoveFiles({}, {<<t, f>>})
  /\ job' = [job EXCEPT ![s] = CatalogJob("drop index", t, f, <<>>)]
  /\ Go(s, "truncate")
  /\ UNCHANGED <<dir, dbInfo, db, deaths>>

ManagerDropIndex(s, t, f) ==
  /\ Begins(s, "drop index")
  /\ Has(db[s], t) /\ f \in Info(db[s], t).indexed
  /\ RemoveFiles({}, {<<t, f>>})
  /\ SetInfo(s, t, [Info(db[s], t) EXCEPT !.indexed = @ \ {f}])
  /\ job' = [job EXCEPT ![s] = CatalogJob("drop index", t, f, <<>>)]
  /\ Go(s, "truncate")
  /\ UNCHANGED <<dir, dbInfo, deaths>>

(* DatabaseInfoFlush: fopen "w" empties the file ... *)
FlushOpen(s) ==
  /\ pc[s] = "truncate"
  /\ \/ /\ dir
        /\ dbInfo' = Torn
        /\ Go(s, "write")
        /\ UNCHANGED <<dir, data, index, stray, db, job, deaths>>
     \/ ~dir /\ Crash(s)

(* ... and fclose fills it.  An INSERT is now acknowledged. *)
FlushClose(s) ==
  /\ pc[s] = "write"
  /\ dbInfo' = IF stray[s].out THEN dbInfo ELSE db[s]
  /\ Stop(s, "idle")
  /\ UNCHANGED <<dir, data, index, db, deaths>>

-----------------------------------------------------------------------------
(***************************************************************************)
(* INSERT.  The id is the dataNum of the session's own catalog.  fopen "a" *)
(* creates a missing file; the row reaches it at fclose, after the index   *)
(* entries: one for each indexed column, all of them in id.index.          *)
(***************************************************************************)
ManagerInsert(s, t, given) ==
  /\ Begins(s, "insert")
  /\ Has(db[s], t)
  /\ LET info == Info(db[s], t)
         row  == [f \in Fields |-> IF f = "id" THEN info.dataNum
                                   ELSE IF given[f] = None THEN 0 ELSE given[f]]
         keys == Indexed(info)
     IN  /\ \A f \in info.indexed \ {"id"} : given[f] # None
         /\ info.dataNum < MaxRows
         /\ \/ /\ dir
               /\ data[t] # Absent => Len(data[t]) < MaxRows
               /\ index[<<t, "id">>] # Absent => Len(index[<<t, "id">>].leaf) < MaxEntries
               /\ data' = [data EXCEPT ![t] = IF @ = Absent THEN <<>> ELSE @]
               /\ job' = [job EXCEPT ![s] =
                            [NoJob EXCEPT !.op = "insert", !.table = t, !.row = row,
                                          !.todo = [i \in DOMAIN keys |-> row[keys[i]]]]]
               /\ Go(s, IF keys = <<>> THEN "append" ELSE "open")
               /\ UNCHANGED <<dir, dbInfo, index, stray, db, deaths>>
            \/ ~dir /\ Crash(s)

(* OpenBptree reads the header. *)
OpenBptree(s, next) ==
  LET tree == index[Held(pc[s], job[s])]
  IN  \/ /\ tree # Absent
         /\ job' = [job EXCEPT ![s].head = tree.root]
         /\ Go(s, next)
         /\ UNCHANGED <<disk, db, deaths>>
      \/ tree = Absent /\ Crash(s)

OpenIndex(s) ==
  /\ pc[s] = "open"
  /\ OpenBptree(s, IF job[s].op \in {"insert", "create index"} THEN "load" ELSE "search")

(* Slip: the leaf is taken for a new one. *)
LoadSlip(s) ==
  /\ pc[s] = "load"
  /\ job' = [job EXCEPT ![s].leaf = <<>>]
  /\ Go(s, "put")
  /\ UNCHANGED <<disk, db, deaths>>

(* BptreeInsert and BptreeDelete read the leaf ... *)
Load(s) ==
  /\ pc[s] = "load"
  /\ job' = [job EXCEPT ![s].leaf = IF job[s].head THEN Tree(s).leaf ELSE <<>>]
  /\ Go(s, "put")
  /\ UNCHANGED <<disk, db, deaths>>

(* ... and write it back.  IndexInsert closes the index, header and all. *)
PutInserted(s) ==
  /\ pc[s] = "put" /\ job[s].op = "insert"
  /\ LET j == job[s]
     IN  /\ CloseTree(s, [root |-> TRUE,
                          leaf |-> IndexInsert(j.leaf, Head(j.todo), j.row["id"])])
         /\ job' = [job EXCEPT ![s].todo = Tail(@), ![s].leaf = <<>>]
         /\ Go(s, IF Len(j.todo) = 1 THEN "append" ELSE "open")
  /\ UNCHANGED <<dir, dbInfo, data, db, deaths>>

(* The loop of CREATE INDEX: atoi of the column, and the number of the row. *)
PutIndexed(s) ==
  /\ pc[s] = "put" /\ job[s].op = "create index"
  /\ LET j == job[s]
     IN  /\ CloseTree(s, [root |-> TRUE,
                          leaf |-> IndexInsert(j.leaf, j.row[j.field], Head(j.todo))])
         /\ job' = [job EXCEPT ![s].todo = Tail(@), ![s].leaf = <<>>, ![s].row = None]
         /\ Go(s, IF Len(j.todo) = 1 THEN "truncate" ELSE "seek")
  /\ UNCHANGED <<dir, dbInfo, data, db, deaths>>

(* fclose: the row is appended, unless the file has lost its name. *)
CloseData(s) ==
  /\ data' = IF stray[s].out THEN data
             ELSE [data EXCEPT ![job[s].table] = Append(@, job[s].row)]
  /\ stray' = [stray EXCEPT ![s].out = FALSE]

Count(s, dataNum) ==
  SetInfo(s, job[s].table, [Info(db[s], job[s].table) EXCEPT !.dataNum = dataNum])

(* Slips: the count stays; the row is not written; the count goes back. *)
AppendRowUncountedSlip(s) ==
  /\ pc[s] = "append"
  /\ CloseData(s)
  /\ Go(s, "truncate")
  /\ UNCHANGED <<dir, dbInfo, index, db, job, deaths>>

AppendRowLostSlip(s) ==
  /\ pc[s] = "append"
  /\ Count(s, Info(db[s], job[s].table).dataNum + 1)
  /\ Go(s, "truncate")
  /\ UNCHANGED <<disk, job, deaths>>

AppendRowBackSlip(s) ==
  /\ pc[s] = "append"
  /\ CloseData(s)
  /\ Count(s, Info(db[s], job[s].table).dataNum - 1)
  /\ Go(s, "truncate")
  /\ UNCHANGED <<dir, dbInfo, index, job, deaths>>

AppendRow(s) ==
  /\ pc[s] = "append"
  /\ CloseData(s)
  /\ Count(s, Info(db[s], job[s].table).dataNum + 1)
  /\ Go(s, "truncate")
  /\ UNCHANGED <<dir, dbInfo, index, job, deaths>>

-----------------------------------------------------------------------------
(***************************************************************************)
(* SELECT *, UPDATE and DELETE (SelectTableQuery, UpdateTableQuery and     *)
(* DeleteTableQuery): the first indexed column compared with = is looked   *)
(* up in its index, otherwise every id below dataNum is; then each key is  *)
(* looked up in id.index and the rows it names are read and tested.        *)
(***************************************************************************)
(* Slip: hasIndex is not looked at. *)
UseIndexSlip(info, filter) ==
  Among(FieldList, {f \in Fields : filter[f].op = "TK_EQ"})

UseIndex(info, filter) ==
  Among(Indexed(info), {f \in Fields : filter[f].op = "TK_EQ"})

Query(s, op, t, list, field, value) ==
  /\ Begins(s, op)
  /\ Has(db[s], t)
  /\ \A n \in DOMAIN list : Supported(list[n])
  /\ LET info   == Info(db[s], t)
         filter == Filter(Fields, list)
         use    == UseIndex(info, filter)
         j      == [NoJob EXCEPT !.op = op, !.table = t, !.filter = filter,
                                 !.field = field, !.value = value]
     IN  IF use = <<>>
         THEN /\ job' = [job EXCEPT ![s] = [j EXCEPT !.todo = ScanKeys(info)]]
              /\ Go(s, "open")
         ELSE /\ job' = [job EXCEPT ![s] = [j EXCEPT !.use = use[1]]]
              /\ Go(s, "open use")
  /\ UNCHANGED <<disk, db, deaths>>

ManagerSelect(s, t, list) == Query(s, "select", t, list, None, None)

ManagerUpdate(s, t, list, field, value) == Query(s, "update", t, list, field, value)

ManagerDelete(s, t, list) == Query(s, "delete", t, list, None, None)

OpenUse(s) == pc[s] = "open use" /\ OpenBptree(s, "probe")

(* CloseBptree writes back the header read at OpenBptree. *)
CloseBptree(s) == CloseTree(s, [Tree(s) EXCEPT !.root = job[s].head])

Probe(s) ==
  /\ pc[s] = "probe"
  /\ LET j == job[s]
     IN  \E offsets \in Found(j.head, Tree(s).leaf, j.filter[j.use].value) :
           job' = [job EXCEPT ![s].todo = offsets]
  /\ CloseBptree(s)
  /\ Go(s, "open")
  /\ UNCHANGED <<dir, dbInfo, data, db, deaths>>

(* Slip: the loop does not advance. *)
SearchSlip(s) ==
  /\ pc[s] = "search" /\ job[s].todo # <<>>
  /\ LET j == job[s]
     IN  \E offsets \in Found(j.head, Tree(s).leaf, Head(j.todo)) :
           /\ job' = [job EXCEPT ![s].hits = offsets]
           /\ Go(s, IF offsets = <<>> THEN "search" ELSE "fetch")
  /\ UNCHANGED <<disk, db, deaths>>

Search(s) ==
  /\ pc[s] = "search" /\ job[s].todo # <<>>
  /\ LET j == job[s]
     IN  \E offsets \in Found(j.head, Tree(s).leaf, Head(j.todo)) :
           /\ job' = [job EXCEPT ![s].todo = Tail(@), ![s].hits = offsets]
           /\ Go(s, IF offsets = <<>> THEN "search" ELSE "fetch")
  /\ UNCHANGED <<disk, db, deaths>>

(* The next row of the key, or the next key. *)
NextHit(s) == Go(s, IF Len(job[s].hits) = 1 THEN "search" ELSE "fetch")

(* DataSeek and the test of the row. *)
Fetch(s) ==
  /\ pc[s] = "fetch"
  /\ LET j == job[s]
     IN  \/ /\ data[j.table] # Absent
            /\ \E row \in DataSeek(j.table, Head(j.hits)) :
                 IF Passes(row, j.filter) /\ j.op # "select"
                 THEN /\ job' = [job EXCEPT ![s].row = IF j.op = "update" THEN row ELSE None]
                      /\ Go(s, IF j.op = "update" THEN "update" ELSE "load")
                 ELSE /\ job' = [job EXCEPT ![s].hits = Tail(@),
                                            ![s].rows = IF Passes(row, j.filter)
                                                        THEN Append(@, row) ELSE @]
                      /\ NextHit(s)
            /\ UNCHANGED <<disk, db, deaths>>
         \/ /\ data[j.table] # Absent => PastEnd(j.table, Head(j.hits))
            /\ Crash(s)

(* The whole row is written.  Without a column to set memset gets NULL. *)
UpdateRow(s) ==
  /\ pc[s] = "update"
  /\ LET j == job[s]
     IN  \/ /\ j.field # None /\ data[j.table] # Absent
            /\ data' = [data EXCEPT ![j.table] =
                          DataFlush(@, Head(j.hits), [j.row EXCEPT ![j.field] = j.value])]
            /\ job' = [job EXCEPT ![s].hits = Tail(@), ![s].row = None]
            /\ NextHit(s)
            /\ UNCHANGED <<dir, dbInfo, index, stray, db, deaths>>
         \/ /\ j.field # None => data[j.table] = Absent
            /\ Crash(s)

(* NodeFlush of the page, if there was one to read. *)
PutDeleted(s) ==
  /\ pc[s] = "put" /\ job[s].op = "delete"
  /\ LET j == job[s]
     IN  /\ PutTree(s, IF j.leaf = <<>> THEN Tree(s)
                       ELSE [Tree(s) EXCEPT !.leaf = BptreeDelete(j.leaf, Head(j.hits))])
         /\ job' = [job EXCEPT ![s].hits = Tail(@), ![s].leaf = <<>>]
  /\ NextHit(s)
  /\ UNCHANGED <<dir, dbInfo, data, db, deaths>>

(* No more keys: the index is closed and the client gets its answer. *)
Answer(s) ==
  /\ pc[s] = "search" /\ job[s].todo = <<>>
  /\ CloseBptree(s)
  /\ job' = [job EXCEPT ![s] = NoJob]
  /\ Go(s, "idle")
  /\ UNCHANGED <<dir, dbInfo, data, db, deaths>>

-----------------------------------------------------------------------------
(* The process of a session is killed; a client connects anew. *)
Kill(s) ==
  /\ pc[s] # "crashed"
  /\ Len(deaths) < MaxDeaths
  /\ deaths' = Append(deaths, IF pc[s] \in {"remove", "truncate", "write"}
                              THEN "flush" ELSE "elsewhere")
  /\ Stop(s, "crashed")
  /\ UNCHANGED <<dir, dbInfo, data, index, db>>

Connect(s) ==
  /\ pc[s] = "crashed"
  /\ db' = [db EXCEPT ![s] = None]
  /\ Go(s, "idle")
  /\ UNCHANGED <<disk, job, deaths>>

Statement(s) ==
  \/ ManagerUseDatabase(s)
  \/ ManagerCreateDatabase(s)
  \/ ManagerDropDatabase(s)
  \/ \E t \in Tables :
       \/ ManagerCreateTable(s, t)
       \/ ManagerDropTable(s, t)
       \/ \E f \in Fields : ManagerCreateIndex(s, t, f) \/ ManagerDropIndex(s, t, f)
       \/ \E given \in [Fields \ {"id"} -> Values \cup {None}] : ManagerInsert(s, t, given)
       \/ \E list \in Clauses :
            \/ ManagerSelect(s, t, list)
            \/ ManagerDelete(s, t, list)
            \/ \E field \in SetFields, value \in Values : ManagerUpdate(s, t, list, field, value)

Step(s) ==
  \/ MakeIndex(s)
  \/ RemoveFile(s)
  \/ SeekRow(s)
  \/ OpenIndex(s)
  \/ Load(s)
  \/ PutInserted(s)
  \/ PutIndexed(s)
  \/ AppendRow(s)
  \/ FlushOpen(s)
  \/ FlushClose(s)
  \/ OpenUse(s)
  \/ Probe(s)
  \/ Search(s)
  \/ Fetch(s)
  \/ UpdateRow(s)
  \/ PutDeleted(s)
  \/ Answer(s)

Next == \E s \in Sessions : Statement(s) \/ Step(s) \/ Kill(s) \/ Connect(s)

Spec == Init /\ [][Next]_vars

(* A process runs its statement to the end, whatever the others do. *)
FairSpec == Spec /\ \A s \in Sessions : WF_vars(Step(s))

-----------------------------------------------------------------------------
Positions == {"idle", "crashed", "make", "remove", "seek", "truncate", "write", "open", "load", "put", "append",
              "open use", "probe", "search", "fetch", "update"}

TypeOK ==
  /\ dir \in BOOLEAN
  /\ dbInfo \in Database \cup {Absent, Torn}
  /\ \A t \in Tables : data[t] = Absent \/ data[t] \in Seq(Row)
  /\ \A i \in Tables \X Fields : index[i] = Absent \/ index[i] \in Index
  /\ \A s \in Sessions : stray[s] \in [tree : Index \cup {None}, out : BOOLEAN]
  /\ \A s \in Sessions : db[s] = None \/ db[s] \in Database
  /\ \A s \in Sessions : pc[s] \in Positions

Quiet == \A s \in Sessions : pc[s] = "idle"

(* What is in the catalog is in the files. *)
Backed(cat) ==
  \A i \in DOMAIN cat.tables :
    LET t == cat.tables[i].name
    IN  t # Junk =>
          /\ data[t] # Absent
          /\ cat.tables[i].dataNum <= Len(data[t])
          /\ \A f \in cat.tables[i].indexed : index[<<t, f>>] # Absent

(***************************************************************************)
(* While one session works alone, whatever its statements, what the        *)
(* catalog says is there is in the files: the table's rows, every index.   *)
(* Its own copy and dbInfo both, once a statement has ended, and also when *)
(* a kill has ended one, unless that came while dbInfo was due.            *)
(***************************************************************************)
CatalogBacked ==
  Quiet /\ dir /\ "flush" \notin ToSet(deaths) =>
    /\ Backed(dbInfo)
    /\ \A s \in Sessions : db[s] = None \/ Backed(db[s])

(***************************************************************************)
(* Several sessions on the same tables: dataNum, in the file and in every  *)
(* copy, is never ahead of the rows.                                       *)
(***************************************************************************)
CountBehindRows ==
  \A t \in Tables :
    /\ dbInfo \notin {Absent, Torn} /\ Has(dbInfo, t) =>
         Info(dbInfo, t).dataNum <= Len(data[t])
    /\ \A s \in Sessions : Has(db[s], t) => Info(db[s], t).dataNum <= Len(data[t])

(* An INSERT that has not appended its row yet, but may have indexed it. *)
Pending(t, offset) ==
  \E s \in Sessions : /\ job[s].op = "insert" /\ job[s].table = t
                      /\ job[s].row["id"] = offset

(***************************************************************************)
(* Until a session is killed an entry of id.index names a row that is in   *)
(* the data, or one that the INSERT which made it is about to append.      *)
(***************************************************************************)
EntriesHaveRows ==
  deaths = <<>> =>
    \A t \in Tables : \A i \in DOMAIN index[<<t, "id">>].leaf :
      LET offset == index[<<t, "id">>].leaf[i].dat
      IN  offset < Len(data[t]) \/ Pending(t, offset)

(* A lookup by id finds a row before it is appended, and one that an INSERT *)
(* was to append when it was killed.                                        *)
Early(j) ==
  /\ j.filter["id"].op = "TK_EQ"
  /\ deaths = <<>> => Pending(j.table, Place(Head(j.hits)) - 1)

(***************************************************************************)
(* A scan never reads a row past the end of the data, kills or not.  A     *)
(* lookup can.                                                             *)
(***************************************************************************)
ReadsInside ==
  \A s \in Sessions :
    pc[s] = "fetch" /\ PastEnd(job[s].table, Head(job[s].hits)) => Early(job[s])

(***************************************************************************)
(* Of INSERT, SELECT, UPDATE and DELETE on tables that exist only one can  *)
(* be brought down between its steps: a lookup, at the row of an INSERT    *)
(* that another session has not finished.                                  *)
(***************************************************************************)
StepsSurvive ==
  [][\A s \in Sessions :
       pc[s] \notin {"idle", "crashed"} /\ pc'[s] = "crashed" /\ deaths' = deaths =>
         pc[s] = "fetch" /\ Early(job[s])]_vars

(***************************************************************************)
(* What a statement still has to do: the lookup in the index of a column,  *)
(* the keys, the rows of the current key, the steps for the current row.   *)
(***************************************************************************)
Rank ==
  [p \in Positions |->
     CASE p = "probe" -> 1 [] p = "open use" -> 2
       [] p = "write" -> 1 [] p = "truncate" -> 2 [] p \in {"append", "make", "remove"} -> 3
       [] p \in {"put", "update", "search"} -> 4 [] p = "load" -> 5
       [] p = "fetch" -> 6 [] p = "open" -> 7 [] p = "seek" -> 8 [] OTHER -> 0]

Work(s) ==
  <<IF pc[s] \in {"open use", "probe"} THEN 1 ELSE 0,
    Len(job[s].todo), Len(job[s].hits), Rank[pc[s]]>>

Less(a, b) == \E i \in DOMAIN a : a[i] < b[i] /\ \A n \in 1..i-1 : a[n] = b[n]

(***************************************************************************)
(* Whatever the other sessions do to the files and the index between two   *)
(* steps of a statement, every step leaves it less to do: entries they add *)
(* or mark can neither send it round again nor give it new keys.           *)
(***************************************************************************)
StepsAdvance ==
  [][\A s \in Sessions :
       pc[s] \notin {"idle", "crashed"} /\ <<pc[s], job[s]>> # <<pc'[s], job'[s]>> =>
         Less(Work(s)', Work(s))]_vars

(* Every statement that was begun ends. *)
StatementsReturn ==
  \A s \in Sessions : pc[s] \notin {"idle", "crashed"} ~> pc[s] \in {"idle", "crashed"}

=============================================================================
