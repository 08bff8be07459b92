---------------------------- MODULE EngineProofs ----------------------------
(***************************************************************************)
(* First: sessions that INSERT, SELECT, UPDATE and DELETE on tables that   *)
(* exist, any number of them.  dataNum never gets ahead of the rows, an    *)
(* entry names a row that is there or on its way until one of them is      *)
(* killed, a scan reads inside, kills or not, and only a lookup by id can  *)
(* be brought down by what others have half done.                          *)
(*                                                                         *)
(* The argument: a row is appended before it is counted, so every copy of  *)
(* the catalog, however old, counts rows that are there; a session carries *)
(* its row under the number it will have from the INSERT's first step; and *)
(* the key of an entry is the number of its row, so a scan that asks for   *)
(* counted keys finds counted rows.                                        *)
(*                                                                         *)
(* Then: all eleven statements.  A file that is removed under a session    *)
(* stays with the session that has it open, so types stay what they are,   *)
(* and every step leaves its statement less to do; and what the catalog of *)
(* a session alone lists is in the files.                                  *)
(*                                                                         *)
(* Last: the history.  A row that a session alone was told is in is, kills *)
(* or not, where its number says, and under this number in the index; a    *)
(* row leaves its place, or its entry the index, only for a statement that *)
(* means it; and the row of an INSERT that ends was indexed, appended and  *)
(* counted in this order, at the place of the count.                       *)
(***************************************************************************)
EXTENDS EngineHistory, ConditionsProofs, FiniteSetTheorems

(* The statements of a session that works on the rows. *)
RowStatements == {"use", "insert", "select", "update", "delete"}

(* A catalog, in the file or a copy of it, counts no more rows than there are. *)
Sound(cat, rows) ==
  /\ cat \in Database /\ cat.tableNum = Len(cat.tables)
  /\ \A i \in 1..Len(cat.tables) :
       /\ cat.tables[i].name \in InitialTables /\ cat.tables[i].indexed = {"id"}
       /\ cat.tables[i].dataNum <= Len(rows[cat.tables[i].name])

Files ==
  /\ dir = (InitialTables # {})
  /\ data \in [Tables -> Seq(Row) \cup {Absent}]
  /\ index \in [Tables \X Fields -> Index \cup {Absent}]
  /\ \A t \in InitialTables : data[t] \in Seq(Row) /\ index[<<t, "id">>] \in Index
  /\ dbInfo \in {Absent, Torn} \/ Sound(dbInfo, data)
  /\ stray = [s \in Sessions |-> NoStray]

(* The row of an INSERT has the number it will have in the data. *)
Inserting(p, cat, j, rows) ==
  /\ j.op = "insert"
  /\ p \in {"open", "load", "put", "append", "truncate", "write"}
  /\ Sound(cat, rows)
  /\ j.row \in Row /\ j.row["id"] \in Nat
  /\ p \in {"open", "load", "put"} => j.todo \in Seq({j.row["id"]}) /\ j.todo # <<>>
  /\ p = "put" => j.leaf \in Seq(Entry)
  /\ p \in {"truncate", "write"} => j.row["id"] < Len(rows[j.table])
  /\ p \notin {"truncate", "write"} =>
       Slots(cat, j.table) # {} /\ j.row["id"] = Info(cat, j.table).dataNum

Reading(p, j) ==
  /\ j.op \in {"select", "update", "delete"}
  /\ p \in {"open use", "probe", "open", "search", "fetch", "update", "load", "put"}
  /\ p \in {"open use", "probe"} => j.use = "id"
  /\ p \in {"fetch", "update", "load", "put"} => j.hits # <<>>
  /\ p = "update" => j.op = "update" /\ j.row \in Row
  /\ p \in {"load", "put"} => j.op = "delete"
  /\ p = "put" => j.leaf \in Seq(Entry)
  /\ j.op = "update" => j.field # None /\ j.value \in Values

Session(p, cat, j, rows) ==
  /\ DOMAIN j = DOMAIN NoJob /\ j.head \in BOOLEAN
  /\ j.todo \in Seq(Int) /\ j.hits \in Seq(Int)
  /\ p \in Positions
  /\ cat = None \/ Sound(cat, rows)
  /\ p \in {"idle", "crashed"} => j = NoJob
  /\ p \notin {"idle", "crashed"} =>
       j.table \in InitialTables /\ (Inserting(p, cat, j, rows) \/ Reading(p, j))

(***************************************************************************)
(* The numbers of a table are those of its rows and those the rows of      *)
(* INSERTs under way will have, as long as no session has been killed, and *)
(* after that any.  An entry has such a number, which is its key too; a    *)
(* scan asks for rows that are there.                                      *)
(***************************************************************************)
Carriers(jobs, t) == {s \in Sessions : jobs[s].op = "insert" /\ jobs[s].table = t}
Numbers(rows, jobs, t) ==
  (0..Len(rows[t]) - 1) \cup {jobs[s].row["id"] : s \in Carriers(jobs, t)}

Known(t) == IF deaths = <<>> THEN Numbers(data, job, t) ELSE Int

Entries(leaf, numbers) ==
  \A i \in 1..Len(leaf) : leaf[i].key = leaf[i].dat /\ leaf[i].dat \in numbers

Comparing(j) == j.filter["id"].op = "TK_EQ"

(* The number of the row that DataSeek reads. *)
Sought(offset) == Place(offset) - 1

Told(p, j, rows, numbers) ==
  /\ p = "put" => Entries(j.leaf, numbers)
  /\ j.op # "insert" =>
       /\ \/ Comparing(j)
          \/ /\ p \notin {"open use", "probe"}
             /\ \A i \in 1..Len(j.todo) : j.todo[i] \in 0..Len(rows[j.table]) - 1
       /\ p \in {"fetch", "update", "load", "put"} => \A i \in 1..Len(j.hits) :
            \/ Sought(j.hits[i]) < Len(rows[j.table])
            \/ Comparing(j) /\ Sought(j.hits[i]) \in numbers

Unharmed ==
  /\ \A t \in InitialTables : Entries(index[<<t, "id">>].leaf, Known(t))
  /\ \A s \in Sessions : pc[s] \notin {"idle", "crashed"} =>
       Told(pc[s], job[s], data, Known(job[s].table))

Whole == DOMAIN db = Sessions /\ DOMAIN pc = Sessions /\ DOMAIN job = Sessions

IInv == Whole /\ Files /\ \A s \in Sessions : Session(pc[s], db[s], job[s], data)

-----------------------------------------------------------------------------
(* The operators on entries, rows and columns. *)
LEMMA Columns ==
  /\ FieldList \in Seq(Fields) /\ Len(FieldList) \in Nat /\ Len(FieldList) >= 1
  /\ FieldList[1] = "id" /\ "id" \in Fields
<1>1. FieldList \in Seq(Fields) /\ FieldList # <<>> /\ FieldList[1] = "id"
  BY FieldListAssumption
<1>2. Len(FieldList) \in Nat /\ Len(FieldList) # 0
  BY <1>1, EmptySeq
<1>3. 1 \in 1..Len(FieldList)
  BY <1>2
<1>4. FieldList[1] \in Fields
  BY <1>1, <1>3, ElementOfSeq
<1> QED  BY <1>1, <1>2, <1>4

(* Without CREATE INDEX id is the only indexed column. *)
LEMMA IndexedId ==
  ASSUME NEW info, info.indexed = {"id"}
  PROVE  Indexed(info) \in Seq({"id"}) /\ Len(Indexed(info)) >= 1
<1> DEFINE id == {"id"}
           among == Among(FieldList, id)
<1>1. FieldList \in Seq(Fields) /\ 1 \in 1..Len(FieldList) /\ FieldList[1] \in id
  BY Columns
<1>2. Fields \cap id = id
  BY Columns
<1>3. Indexed(info) = among
  BY DEF Indexed
<1> HIDE DEF id
<1>4. /\ among \in Seq(Fields \cap id)
      /\ \A k \in 1..Len(FieldList) :
           FieldList[k] \in id => \E i \in 1..Len(among) : among[i] = FieldList[k]
  BY <1>1, AmongProperties
<1> HIDE DEF among
<1>5. Len(among) \in Nat /\ \E i \in 1..Len(among) : TRUE
  BY <1>1, <1>4
<1>6. Len(among) >= 1
  BY <1>5
<1> QED  BY <1>2, <1>3, <1>4, <1>6 DEF id

(* With only id indexed, the index a statement picks is that of id. *)
LEMMA UseIndexId ==
  ASSUME NEW info, info.indexed = {"id"}, NEW filter, UseIndex(info, filter) # <<>>
  PROVE  UseIndex(info, filter)[1] = "id" /\ filter["id"].op = "TK_EQ"
<1> DEFINE compared == {f \in Fields : filter[f].op = "TK_EQ"}
           use == UseIndex(info, filter)
<1>1. Indexed(info) \in Seq({"id"})
  BY IndexedId
<1>2. use \in Seq({"id"} \cap compared)
  <2> HIDE DEF compared
  <2>1. Among(Indexed(info), compared) \in Seq({"id"} \cap compared)
    BY <1>1, AmongProperties
  <2> QED  BY <2>1 DEF UseIndex, compared
<1> HIDE DEF use
<1>3. Len(use) \in Nat /\ Len(use) # 0
  BY <1>2, EmptySeq DEF use
<1>4. use[1] \in {"id"} \cap compared
  BY <1>2, <1>3, ElementOfSeq
<1> QED  BY <1>4 DEF use

(* IndexInsert puts its entry somewhere between the others. *)
Inserted(new, leaf, n, entry) ==
  \A i \in 1..(Len(leaf) + 1) :
    new[i] = IF i <= n THEN leaf[i] ELSE IF i = n + 1 THEN entry ELSE leaf[i - 1]

(* The new entry comes after those whose key is no greater. *)
LEMMA IndexInsertPlace ==
  ASSUME NEW leaf \in Seq(Entry), NEW key \in Int, NEW dat \in Int
  PROVE  LET new == IndexInsert(leaf, key, dat)
         IN  /\ new \in Seq(Entry) /\ Len(new) = Len(leaf) + 1
             /\ \E n \in 0..Len(leaf) :
                  Inserted(new, leaf, n, [key |-> key, dat |-> dat, del |-> FALSE])
<1> DEFINE smaller == {e \in ToSet(leaf) : e.key <= key}
           n == Len(Among(leaf, smaller))
           entry == [key |-> key, dat |-> dat, del |-> FALSE]
           front == SubSeq(leaf, 1, n)
           back == SubSeq(leaf, n + 1, Len(leaf))
           new == IndexInsert(leaf, key, dat)
<1>1. n \in Nat /\ n <= Len(leaf) /\ Len(leaf) \in Nat
  <2> HIDE DEF smaller
  <2>1. Among(leaf, smaller) \in Seq(Entry \cap smaller) /\ n <= Len(leaf)
    BY AmongProperties
  <2>2. n \in Nat
    BY <2>1
  <2> QED  BY <2>1, <2>2
<1> HIDE DEF n
<1>2. 1 + n - 1 = n /\ 1 + n = n + 1
  BY <1>1
<1>3. new = front \o <<entry>> \o back
  <2>1. new = InsertAt(leaf, 1 + n, entry)
    BY DEF IndexInsert, n
  <2> DEFINE i == 1 + n
  <2>2. i - 1 = n /\ i = n + 1
    BY <1>1
  <2> HIDE DEF i, entry, new
  <2>3. InsertAt(leaf, i, entry) = SubSeq(leaf, 1, i - 1) \o <<entry>> \o SubSeq(leaf, i, Len(leaf))
    BY DEF InsertAt
  <2> QED  BY <2>1, <2>2, <2>3 DEF i
<1>4. /\ front \in Seq(Entry) /\ Len(front) = n
      /\ \A i \in 1..n : front[i] = leaf[i]
  BY <1>1, SubSeqProperties
<1>5. /\ back \in Seq(Entry) /\ Len(back) = Len(leaf) - n
      /\ \A i \in 1..(Len(leaf) - n) : back[i] = leaf[n + i]
  <2>1. /\ Len(back) = IF n + 1 <= Len(leaf) THEN Len(leaf) - (n + 1) + 1 ELSE 0
        /\ \A i \in 1..(Len(leaf) - (n + 1) + 1) : back[i] = leaf[n + 1 + i - 1]
        /\ back \in Seq(Entry)
    BY <1>1, SubSeqProperties
  <2> QED  BY <1>1, <2>1
<1>6. entry \in Entry
  BY DEF Entry
<1> HIDE DEF front, back, entry
<1> DEFINE ext == front \o <<entry>>
<1>7. /\ ext \in Seq(Entry) /\ Len(ext) = n + 1
      /\ \A i \in 1..(n + 1) :
           ext[i] = IF i <= n THEN front[i] ELSE entry
  <2>1. <<entry>> \in Seq(Entry) /\ Len(<<entry>>) = 1 /\ <<entry>>[1] = entry
    BY <1>6
  <2> QED  BY <1>1, <1>4, <2>1, ConcatProperties
<1>8. /\ new \in Seq(Entry) /\ Len(new) = Len(leaf) + 1
      /\ \A i \in 1..(Len(leaf) + 1) :
           new[i] = IF i <= n + 1 THEN ext[i] ELSE back[i - (n + 1)]
  BY <1>1, <1>3, <1>5, <1>7, ConcatProperties
<1> HIDE DEF new, ext
<1>9. ASSUME NEW i \in 1..(Len(leaf) + 1)
      PROVE  new[i] = IF i <= n THEN leaf[i] ELSE IF i = n + 1 THEN entry ELSE leaf[i - 1]
  <2>1. i \in Nat /\ i >= 1 /\ i <= Len(leaf) + 1
    BY <1>1
  <2>2. CASE i <= n
    <3>1. i \in 1..n /\ i \in 1..(n + 1)
      BY <1>1, <2>1, <2>2
    <3>2. new[i] = ext[i]
      BY <1>1, <1>8, <2>1, <2>2
    <3>3. ext[i] = front[i]
      BY <1>7, <2>2, <3>1
    <3>4. front[i] = leaf[i]
      BY <1>4, <3>1
    <3> QED  BY <2>2, <3>2, <3>3, <3>4
  <2>3. CASE i = n + 1
    <3>1. i \in 1..(n + 1) /\ ~(i <= n)
      BY <1>1, <2>1, <2>3
    <3>2. new[i] = ext[i]
      BY <1>1, <1>8, <2>1, <2>3
    <3>3. ext[i] = entry
      BY <1>7, <3>1
    <3> QED  BY <2>3, <3>1, <3>2, <3>3
  <2>4. CASE i > n + 1
    <3>1. i - (n + 1) \in 1..(Len(leaf) - n) /\ n + (i - (n + 1)) = i - 1
      BY <1>1, <2>1, <2>4
    <3>2. new[i] = back[i - (n + 1)]
      BY <1>1, <1>8, <2>1, <2>4
    <3>3. back[i - (n + 1)] = leaf[i - 1]
      BY <1>5, <3>1
    <3> QED  BY <1>1, <2>1, <2>4, <3>2, <3>3
  <2> QED  BY <1>1, <2>1, <2>2, <2>3, <2>4
<1>10. n \in 0..Len(leaf)
  BY <1>1
<1>11. Inserted(new, leaf, n, entry)
  BY <1>9 DEF Inserted
<1> QED  BY <1>8, <1>10, <1>11 DEF new, entry

(* IndexInsert adds its entry and keeps the others. *)
LEMMA IndexInsertEntries ==
  ASSUME NEW leaf \in Seq(Entry), NEW key \in Int, NEW dat \in Int
  PROVE  LET new == IndexInsert(leaf, key, dat)
         IN  /\ new \in Seq(Entry)
             /\ \A i \in 1..Len(new) :
                  \/ \E k \in 1..Len(leaf) : new[i] = leaf[k]
                  \/ new[i].key = key /\ new[i].dat = dat
<1> DEFINE new == IndexInsert(leaf, key, dat)
           entry == [key |-> key, dat |-> dat, del |-> FALSE]
           m == Len(leaf)
<1>1. new \in Seq(Entry) /\ Len(new) = m + 1 /\ m \in Nat
  <2>1. new \in Seq(Entry) /\ Len(new) = Len(leaf) + 1
    BY IndexInsertPlace
  <2>2. Len(leaf) \in Nat
    OBVIOUS
  <2> QED  BY <2>1, <2>2
<1>2. PICK n \in 0..m : Inserted(new, leaf, n, entry)
  BY IndexInsertPlace
<1>3. entry.key = key /\ entry.dat = dat
  OBVIOUS
<1> HIDE DEF new, entry
<1>4. ASSUME NEW i \in 1..Len(new)
      PROVE  (\E k \in 1..m : new[i] = leaf[k]) \/ new[i] = entry
  BY <1>1, <1>2 DEF Inserted
<1> QED  BY <1>1, <1>3, <1>4 DEF new, m

(* Every entry is still in the leaf, and the new one is. *)
LEMMA IndexInsertHas ==
  ASSUME NEW leaf \in Seq(Entry), NEW key \in Int, NEW dat \in Int
  PROVE  LET new == IndexInsert(leaf, key, dat)
         IN  /\ new \in Seq(Entry)
             /\ \A k \in 1..Len(leaf) : \E i \in 1..Len(new) : new[i] = leaf[k]
             /\ \E i \in 1..Len(new) : new[i].key = key /\ new[i].dat = dat /\ ~new[i].del
<1> DEFINE new == IndexInsert(leaf, key, dat)
           entry == [key |-> key, dat |-> dat, del |-> FALSE]
           m == Len(leaf)
<1>1. new \in Seq(Entry) /\ Len(new) = m + 1 /\ m \in Nat
  <2>1. new \in Seq(Entry) /\ Len(new) = Len(leaf) + 1
    BY IndexInsertPlace
  <2>2. Len(leaf) \in Nat
    OBVIOUS
  <2> QED  BY <2>1, <2>2
<1>2. PICK n \in 0..m : Inserted(new, leaf, n, entry)
  BY IndexInsertPlace
<1>3. entry.key = key /\ entry.dat = dat /\ ~entry.del
  OBVIOUS
<1> HIDE DEF new, entry
<1>4. ASSUME NEW k \in 1..m  PROVE \E i \in 1..Len(new) : new[i] = leaf[k]
  <2>1. CASE k <= n
    BY <1>1, <1>2, <2>1 DEF Inserted
  <2>2. CASE k > n
    <3>1. k + 1 \in 1..Len(new) /\ (k + 1) - 1 = k /\ ~(k + 1 <= n) /\ k + 1 # n + 1
      BY <1>1, <2>2
    <3>2. new[k + 1] = leaf[k]
      BY <1>1, <1>2, <3>1 DEF Inserted
    <3> QED  BY <3>1, <3>2
  <2> QED  BY <1>1, <2>1, <2>2
<1>5. n + 1 \in 1..Len(new) /\ new[n + 1] = entry
  BY <1>1, <1>2 DEF Inserted
<1> QED  BY <1>1, <1>3, <1>4, <1>5 DEF new, m

(* BptreeSearch answers with rows of entries that have the key. *)
LEMMA SearchEntries ==
  ASSUME NEW leaf \in Seq(Entry), NEW key
  PROVE  LET offsets == BptreeSearch(leaf, key)
         IN  /\ offsets \in Seq(Int)
             /\ \A i \in 1..Len(offsets) : \E k \in 1..Len(leaf) :
                  leaf[k].key = key /\ leaf[k].dat = offsets[i]
<1> DEFINE T == ToSet(leaf)
           wanted == {e \in T : e.key = key /\ ~e.del}
           hits == Among(Reverse(leaf), wanted)
<1>1. Len(leaf) \in Nat /\ DOMAIN leaf = 1..Len(leaf) /\ \A k \in 1..Len(leaf) : leaf[k] \in Entry
  OBVIOUS
<1>2. T = {leaf[k] : k \in 1..Len(leaf)}
  BY <1>1 DEF ToSet
<1>3. Reverse(leaf) \in Seq(T)
  <2>1. \A k \in 1..Len(leaf) : leaf[(Len(leaf) - k) + 1] \in T
    <3> TAKE k \in 1..Len(leaf)
    <3>1. (Len(leaf) - k) + 1 \in 1..Len(leaf)
      BY <1>1
    <3> QED  BY <1>2, <3>1
  <2> HIDE DEF T
  <2> QED  BY <1>1, <2>1 DEF Reverse
<1>4. hits \in Seq(T \cap wanted)
  <2> HIDE DEF T, wanted
  <2> QED  BY <1>3, AmongProperties
<1>5. BptreeSearch(leaf, key) = [i \in DOMAIN hits |-> hits[i].dat]
  BY DEF BptreeSearch
<1> HIDE DEF hits
<1>6. Len(hits) \in Nat /\ DOMAIN hits = 1..Len(hits) /\ \A i \in 1..Len(hits) : hits[i] \in wanted
  <2> HIDE DEF wanted
  <2> QED  BY <1>4
<1>7. ASSUME NEW i \in 1..Len(hits)
      PROVE  /\ hits[i].dat \in Int
             /\ \E k \in 1..Len(leaf) : leaf[k].key = key /\ leaf[k].dat = hits[i].dat
  <2>1. PICK k \in 1..Len(leaf) : hits[i] = leaf[k]
    BY <1>2, <1>6
  <2>2. hits[i].key = key
    BY <1>6
  <2> QED  BY <1>1, <2>1, <2>2 DEF Entry
<1> HIDE DEF wanted, T
<1>8. /\ BptreeSearch(leaf, key) \in Seq(Int) /\ Len(BptreeSearch(leaf, key)) = Len(hits)
      /\ \A i \in 1..Len(hits) : BptreeSearch(leaf, key)[i] = hits[i].dat
  BY <1>5, <1>6, <1>7
<1> QED  BY <1>7, <1>8

(* A lookup finds such rows, or NODE_EOF before them. *)
LEMMA FoundEntries ==
  ASSUME NEW leaf \in Seq(Entry), NEW key, NEW root, NEW offsets \in Found(root, leaf, key)
  PROVE  /\ offsets \in Seq(Int)
         /\ \A i \in 1..Len(offsets) :
              \/ offsets[i] = NODE_EOF /\ leaf # <<>>
              \/ \E k \in 1..Len(leaf) : leaf[k].key = key /\ leaf[k].dat = offsets[i]
<1> DEFINE hits == BptreeSearch(leaf, key)
<1>1. /\ hits \in Seq(Int)
      /\ \A i \in 1..Len(hits) : \E k \in 1..Len(leaf) : leaf[k].key = key /\ leaf[k].dat = hits[i]
  BY SearchEntries
<1> HIDE DEF hits
<1>2. \/ offsets = <<>>
      \/ offsets = <<>> \o hits
      \/ offsets = <<NODE_EOF>> \o hits /\ leaf # <<>>
  BY DEF Found, Phantom, hits
<1>3. CASE offsets = <<>>
  BY <1>3
<1>4. CASE offsets = <<>> \o hits
  <2>1. offsets = hits
    BY <1>1, <1>4, ConcatEmptySeq
  <2> QED  BY <1>1, <2>1
<1>5. CASE offsets = <<NODE_EOF>> \o hits /\ leaf # <<>>
  <2>1. <<NODE_EOF>> \in Seq(Int) /\ Len(<<NODE_EOF>>) = 1 /\ <<NODE_EOF>>[1] = NODE_EOF
    BY DEF NODE_EOF
  <2> DEFINE first == <<NODE_EOF>>
  <2> HIDE DEF first
  <2>2. /\ offsets \in Seq(Int) /\ Len(offsets) = 1 + Len(hits) /\ Len(hits) \in Nat
        /\ \A i \in 1..(1 + Len(hits)) :
             offsets[i] = IF i <= 1 THEN first[i] ELSE hits[i - 1]
    BY <1>1, <1>5, <2>1, ConcatProperties DEF first
  <2>3. ASSUME NEW i \in 1..Len(offsets)
        PROVE  \/ offsets[i] = NODE_EOF /\ leaf # <<>>
               \/ \E k \in 1..Len(leaf) : leaf[k].key = key /\ leaf[k].dat = offsets[i]
    <3>1. CASE i = 1
      BY <1>5, <2>1, <2>2, <3>1 DEF first
    <3>2. CASE i # 1
      <4>1. i - 1 \in 1..Len(hits) /\ offsets[i] = hits[i - 1]
        BY <2>2, <3>2
      <4> QED  BY <1>1, <4>1
    <3> QED  BY <3>1, <3>2
  <2> QED  BY <2>2, <2>3
<1> QED  BY <1>2, <1>3, <1>4, <1>5

(* BptreeDelete marks entries and changes nothing else of them. *)
LEMMA DeleteEntries ==
  ASSUME NEW leaf \in Seq(Entry), NEW key
  PROVE  LET new == BptreeDelete(leaf, key)
         IN  /\ new \in Seq(Entry) /\ Len(new) = Len(leaf)
             /\ \A i \in 1..Len(leaf) : new[i].key = leaf[i].key /\ new[i].dat = leaf[i].dat
<1>1. Len(leaf) \in Nat /\ DOMAIN leaf = 1..Len(leaf) /\ \A i \in 1..Len(leaf) : leaf[i] \in Entry
  OBVIOUS
<1>2. ASSUME NEW e \in Entry, NEW key2
      PROVE  LET n == [e EXCEPT !.del = @ \/ e.key = key2]
             IN  n \in Entry /\ n.key = e.key /\ n.dat = e.dat
  BY DEF Entry
<1>3. \A i \in 1..Len(leaf) :
        LET n == [leaf[i] EXCEPT !.del = @ \/ leaf[i].key = key]
        IN  n \in Entry /\ n.key = leaf[i].key /\ n.dat = leaf[i].dat
  BY <1>1, <1>2
<1> DEFINE at(i) == [leaf[i] EXCEPT !.del = @ \/ leaf[i].key = key]
           new == BptreeDelete(leaf, key)
<1>4. new = [i \in 1..Len(leaf) |-> at(i)]
  BY <1>1 DEF BptreeDelete
<1>5. \A i \in 1..Len(leaf) : at(i) \in Entry /\ at(i).key = leaf[i].key /\ at(i).dat = leaf[i].dat
  BY <1>3
<1> HIDE DEF at, new
<1>6. \A i \in 1..Len(leaf) : new[i] = at(i)
  BY <1>4
<1>7. new \in Seq(Entry) /\ Len(new) = Len(leaf)
  BY <1>1, <1>4, <1>5
<1> QED  BY <1>5, <1>6, <1>7 DEF new

(* DataFlush takes no row away. *)
LEMMA FlushRows ==
  ASSUME NEW rows \in Seq(Row), NEW offset \in Int, NEW row \in Row
  PROVE  DataFlush(rows, offset, row) \in Seq(Row) /\ Len(DataFlush(rows, offset, row)) >= Len(rows)
<1> DEFINE p == Place(offset)
           n == IF p > Len(rows) THEN p ELSE Len(rows)
           at(i) == IF i = p THEN row
                    ELSE IF i \in DOMAIN rows THEN rows[i] ELSE [f \in Fields |-> 0]
<1>1. Len(rows) \in Nat /\ DOMAIN rows = 1..Len(rows) /\ \A i \in 1..Len(rows) : rows[i] \in Row
  OBVIOUS
<1>2. p \in Nat /\ n \in Nat /\ n >= Len(rows)
  BY <1>1 DEF Place
<1>3. [f \in Fields |-> 0] \in Row
  BY DEF Row
<1>4. \A i \in 1..n : at(i) \in Row
  BY <1>1, <1>3
<1>5. DataFlush(rows, offset, row) = [i \in 1..n |-> at(i)]
  BY DEF DataFlush
<1> HIDE DEF n, at
<1> QED  BY <1>2, <1>4, <1>5

(* A negative offset reads row 0. *)
LEMMA SoughtNat ==
  ASSUME NEW offset \in Int
  PROVE  Sought(offset) \in Nat /\ (offset >= 0 => Sought(offset) = offset) /\ Sought(NODE_EOF) = 0
BY DEF Sought, Place, NODE_EOF

(* DataSeek reads a row, whatever the offset. *)
LEMMA RowSought ==
  ASSUME NEW t, data[t] \in Seq(Row), NEW offset \in Int
  PROVE  DataSeek(t, offset) \subseteq Row
<1>1. DOMAIN data[t] = 1..Len(data[t]) /\ \A i \in 1..Len(data[t]) : data[t][i] \in Row
  OBVIOUS
<1>2. [Fields -> Values \cup {0}] \subseteq Row
  BY DEF Row
<1> QED  BY <1>1, <1>2 DEF DataSeek, PastEnd

(* The slot of a table is the first with its name. *)
LEMMA SlotFound ==
  ASSUME NEW cat, cat \in Database, NEW t, Slots(cat, t) # {}
  PROVE  Slot(cat, t) \in 1..Len(cat.tables) /\ Info(cat, t).name = t
<1>1. cat.tables \in Seq(Table)
  BY DEF Database
<1>2. Slots(cat, t) = {i \in 1..Len(cat.tables) : cat.tables[i].name = t}
  BY <1>1 DEF Slots
<1> DEFINE S == Slots(cat, t)
           First(i) == \A j \in S : i <= j
<1>3. S \in SUBSET Nat
  BY <1>2
<1> HIDE DEF S
<1>4. \E i \in S : First(i)
  BY <1>3, LeastElement DEF S
<1>5. Slot(cat, t) = CHOOSE i \in S : First(i)
  BY DEF Slot, S
<1>6. Slot(cat, t) \in S
  <2> HIDE DEF First
  <2> QED  BY <1>4, <1>5
<1> QED  BY <1>2, <1>6 DEF S, Info

-----------------------------------------------------------------------------
(* No row is ever taken away. *)
Grows == \A t \in InitialTables : data'[t] \in Seq(Row) /\ Len(data'[t]) >= Len(data[t])

Others(s) ==
  /\ Whole'
  /\ \A o \in Sessions \ {s} : pc'[o] = pc[o] /\ db'[o] = db[o] /\ job'[o] = job[o]

(* What a step of session s does for the invariant. *)
Keeps(s) == Others(s) /\ Files' /\ Grows /\ Session(pc[s], db[s], job[s], data)'

(***************************************************************************)
(* And for the entries: the number of a row is not lost before the row is  *)
(* there, entries and orders come from numbers known before the step.      *)
(***************************************************************************)
Carries(j, k, rows) ==
  j.op = "insert" => \/ k.op = "insert" /\ k.table = j.table /\ k.row = j.row
                     \/ j.row["id"] \in 0..Len(rows[j.table]) - 1

Faithful(s) ==
  /\ deaths' = <<>> => Carries(job[s], job'[s], data')
  /\ \A t \in InitialTables : Entries(index'[<<t, "id">>].leaf, Known(t))
  /\ pc'[s] \notin {"idle", "crashed"} =>
       Told(pc'[s], job'[s], data', Known(job'[s].table))

(* The fields every job has. *)
LEMMA JobFields ==
  DOMAIN NoJob = {"op", "table", "row", "todo", "hits", "use", "filter", "field", "value",
                  "head", "leaf", "rows"}
BY DEF NoJob

(* What a session without a job holds. *)
LEMMA NoJobFields ==
  /\ NoJob.op = "none" /\ NoJob.todo = <<>> /\ NoJob.hits = <<>> /\ NoJob.head = FALSE
  /\ NoJob.todo \in Seq(Int) /\ NoJob.hits \in Seq(Int)
<1>1. <<>> \in Seq(Int)
  OBVIOUS
<1> QED  BY <1>1 DEF NoJob

(* Numbers are integers, and where there are any there is a first. *)
LEMMA FirstNumber ==
  ASSUME IInv, NEW t \in InitialTables
  PROVE  Known(t) \subseteq Int /\ (Known(t) # {} => 0 \in Known(t))
<1>1. data[t] \in Seq(Row)
  BY DEF IInv, Files
<1>2. Len(data[t]) \in Nat
  BY <1>1
<1>3. ASSUME NEW o \in Carriers(job, t)
      PROVE  job[o].row["id"] \in Nat /\ (job[o].row["id"] = 0 \/ Len(data[t]) # 0)
  <2> DEFINE p == pc[o]  cat == db[o]  j == job[o]
  <2>1. j.op = "insert" /\ j.table = t /\ Session(p, cat, j, data)
    BY <1>3 DEF Carriers, IInv
  <2> HIDE DEF p, cat, j
  <2>2. Inserting(p, cat, j, data)
    BY <2>1, NoJobFields DEF Session, Reading
  <2>3. j.row["id"] \in Nat
    BY <2>2 DEF Inserting
  <2>4. CASE p \in {"truncate", "write"}
    <3>1. j.row["id"] < Len(data[t])
      BY <2>1, <2>2, <2>4 DEF Inserting
    <3> QED  BY <1>2, <2>3, <3>1 DEF j
  <2>5. CASE p \notin {"truncate", "write"}
    <3>1. Slots(cat, t) # {} /\ j.row["id"] = Info(cat, t).dataNum /\ Sound(cat, data)
      BY <2>1, <2>2, <2>5 DEF Inserting
    <3>2. Slot(cat, t) \in 1..Len(cat.tables) /\ Info(cat, t).name = t
      BY <3>1, SlotFound DEF Sound
    <3>3. Info(cat, t).dataNum <= Len(data[t])
      BY <3>1, <3>2 DEF Sound, Info
    <3> QED  BY <1>2, <2>3, <3>1, <3>3 DEF j
  <2> QED  BY <2>4, <2>5
<1>4. Numbers(data, job, t) \subseteq Int
  BY <1>2, <1>3 DEF Numbers
<1>5. ASSUME Numbers(data, job, t) # {}  PROVE 0 \in Numbers(data, job, t)
  <2>1. CASE Len(data[t]) # 0
    <3>1. 0 \in 0..Len(data[t]) - 1
      BY <1>2, <2>1
    <3> QED  BY <3>1 DEF Numbers
  <2>2. CASE Len(data[t]) = 0
    <3>1. 0..Len(data[t]) - 1 = {}
      BY <2>2
    <3>2. PICK o \in Carriers(job, t) : TRUE
      BY <1>5, <3>1 DEF Numbers
    <3>3. job[o].row["id"] = 0
      BY <1>3, <2>2, <3>2
    <3> QED  BY <3>2, <3>3 DEF Numbers
  <2> QED  BY <2>1, <2>2
<1> QED  BY <1>4, <1>5 DEF Known

(* The row that is read under a known number has a known number. *)
LEMMA SoughtKnown ==
  ASSUME IInv, NEW t \in InitialTables, NEW n \in Known(t)
  PROVE  Sought(n) \in Known(t)
<1>1. n \in Int /\ 0 \in Known(t)
  BY FirstNumber
<1>2. CASE n >= 0
  BY <1>1, <1>2, SoughtNat
<1>3. CASE n < 0
  BY <1>1, <1>3 DEF Sought, Place
<1> QED  BY <1>1, <1>2, <1>3

(* A catalog that counts too few rows goes on to. *)
LEMMA SoundStays ==
  ASSUME NEW cat, NEW rows, NEW new, Sound(cat, rows),
         \A t \in InitialTables : /\ rows[t] \in Seq(Row) /\ new[t] \in Seq(Row)
                                  /\ Len(new[t]) >= Len(rows[t])
  PROVE  Sound(cat, new)
<1>1. cat.tables \in Seq(Table)
  BY DEF Sound, Database
<1> SUFFICES ASSUME NEW i \in 1..Len(cat.tables)
             PROVE  cat.tables[i].dataNum <= Len(new[cat.tables[i].name])
  BY DEF Sound
<1> DEFINE info == cat.tables[i]
<1>2. info \in Table
  BY <1>1
<1>3. info.dataNum \in Nat /\ info.name \in InitialTables /\ info.dataNum <= Len(rows[info.name])
  BY <1>2 DEF Sound, Table
<1> HIDE DEF info
<1>4. /\ Len(rows[info.name]) \in Nat /\ Len(new[info.name]) \in Nat
      /\ Len(new[info.name]) >= Len(rows[info.name])
  BY <1>3
<1> QED  BY <1>3, <1>4 DEF info

(* The other sessions do not notice the step of one. *)
LEMMA KeepsIInv ==
  ASSUME IInv, NEW s \in Sessions, Keeps(s)
  PROVE  IInv'
<1>1. Whole' /\ Files'
  BY DEF Keeps, Others
<1>2. ASSUME NEW o \in Sessions  PROVE Session(pc[o], db[o], job[o], data)'
  <2>1. CASE o = s
    BY <2>1 DEF Keeps
  <2>2. CASE o # s
    <3>1. pc'[o] = pc[o] /\ db'[o] = db[o] /\ job'[o] = job[o]
      BY <2>2 DEF Keeps, Others
    <3> DEFINE p == pc[o]  cat == db[o]  j == job[o]
    <3>2. Session(p, cat, j, data)
      BY DEF IInv
    <3> HIDE DEF p, cat, j
    <3>3. \A t \in InitialTables : /\ data[t] \in Seq(Row) /\ data'[t] \in Seq(Row)
                                  /\ Len(data'[t]) >= Len(data[t])
      BY DEF IInv, Files, Keeps, Grows
    <3>4. cat = None \/ Sound(cat, data')
      BY <3>2, <3>3, SoundStays DEF Session
    <3>5. ASSUME j.table \in InitialTables, Inserting(p, cat, j, data)
          PROVE  Inserting(p, cat, j, data')
      <4>1. Len(data[j.table]) \in Nat /\ Len(data'[j.table]) \in Nat
            /\ Len(data'[j.table]) >= Len(data[j.table])
        BY <3>3, <3>5
      <4>2. j.row["id"] \in Nat
        BY <3>5 DEF Inserting
      <4>3. j.row["id"] < Len(data[j.table]) => j.row["id"] < Len(data'[j.table])
        BY <4>1, <4>2
      <4>4. Sound(cat, data')
        BY <3>3, <3>5, SoundStays DEF Inserting
      <4> QED  BY <3>5, <4>3, <4>4 DEF Inserting
    <3>6. Session(p, cat, j, data')
      BY <3>2, <3>4, <3>5 DEF Session
    <3> QED  BY <3>1, <3>6 DEF p, cat, j
  <2> QED  BY <2>1, <2>2
<1> QED  BY <1>1, <1>2 DEF IInv

(* More rows and more numbers do no harm. *)
LEMMA ToldStays ==
  ASSUME NEW p, NEW j, NEW rows, NEW new, NEW numbers, NEW more,
         j.todo \in Seq(Int), j.hits \in Seq(Int), Told(p, j, rows, numbers),
         rows[j.table] \in Seq(Row), new[j.table] \in Seq(Row),
         Len(new[j.table]) >= Len(rows[j.table]), numbers \subseteq more
  PROVE  Told(p, j, new, more)
<1> DEFINE m == Len(rows[j.table])  n == Len(new[j.table])
<1>1. m \in Nat /\ n \in Nat /\ n >= m
  OBVIOUS
<1>2. /\ \A i \in 1..Len(j.todo) : j.todo[i] \in Int
      /\ \A i \in 1..Len(j.hits) : j.hits[i] \in Int
  OBVIOUS
<1> HIDE DEF m, n
<1>3. \A i \in 1..Len(j.todo) : j.todo[i] \in 0..m - 1 => j.todo[i] \in 0..n - 1
  BY <1>1, <1>2
<1>4. \A i \in 1..Len(j.hits) : Sought(j.hits[i]) < m => Sought(j.hits[i]) < n
  BY <1>1, <1>2, SoughtNat
<1>5. p = "put" => Entries(j.leaf, more)
  BY DEF Told, Entries
<1>6. ASSUME j.op # "insert"
      PROVE  /\ \/ Comparing(j)
                \/ /\ p \notin {"open use", "probe"}
                   /\ \A i \in 1..Len(j.todo) : j.todo[i] \in 0..n - 1
             /\ p \in {"fetch", "update", "load", "put"} => \A i \in 1..Len(j.hits) :
                  \/ Sought(j.hits[i]) < n
                  \/ Comparing(j) /\ Sought(j.hits[i]) \in more
  BY <1>3, <1>4, <1>6 DEF Told, m
<1> QED  BY <1>5, <1>6 DEF Told, n

(* Numbers that entries rely on do not go away. *)
LEMMA NumbersStay ==
  ASSUME IInv, NEW s \in Sessions, Keeps(s), deaths' = <<>> => deaths = <<>>,
         deaths' = <<>> => Carries(job[s], job'[s], data'), NEW t \in InitialTables
  PROVE  Known(t) \subseteq Known(t)'
<1>1. CASE deaths' # <<>>
  BY <1>1, FirstNumber DEF Known
<1> SUFFICES ASSUME deaths' = <<>>
             PROVE  Numbers(data, job, t) \subseteq Numbers(data', job', t)
  BY <1>1 DEF Known
<1>2. data[t] \in Seq(Row) /\ data'[t] \in Seq(Row) /\ Len(data'[t]) >= Len(data[t])
  BY DEF IInv, Files, Keeps, Grows
<1>3. Len(data[t]) \in Nat /\ Len(data'[t]) \in Nat /\ Len(data'[t]) >= Len(data[t])
  BY <1>2
<1>4. \A n \in 0..Len(data[t]) - 1 : n \in 0..Len(data'[t]) - 1
  BY <1>3
<1>5. ASSUME NEW o \in Carriers(job, t)
      PROVE  job[o].row["id"] \in Numbers(data', job', t)
  <2>1. o \in Sessions /\ job[o].op = "insert" /\ job[o].table = t
    BY DEF Carriers
  <2>2. CASE job'[o].op = "insert" /\ job'[o].table = t /\ job'[o].row = job[o].row
    <3>1. o \in Carriers(job', t)
      BY <2>1, <2>2 DEF Carriers
    <3>2. job'[o].row["id"] \in Numbers(data', job', t)
      BY <3>1 DEF Numbers
    <3> QED  BY <2>2, <3>2
  <2>3. CASE o = s /\ job[s].row["id"] \in 0..Len(data'[t]) - 1
    BY <2>3 DEF Numbers
  <2>4. CASE o # s
    BY <2>1, <2>2, <2>4 DEF Keeps, Others
  <2> QED  BY <2>1, <2>2, <2>3, <2>4 DEF Carries
<1> QED  BY <1>4, <1>5 DEF Numbers

(* A step that keeps its own promises leaves the files unharmed. *)
LEMMA KeepsUnharmed ==
  ASSUME IInv, Unharmed, NEW s \in Sessions, Keeps(s), Faithful(s),
         deaths' = <<>> => deaths = <<>>
  PROVE  Unharmed'
<1>1. deaths' = <<>> => Carries(job[s], job'[s], data')
  BY DEF Faithful
<1>2. \A t \in InitialTables : Known(t) \subseteq Known(t)'
  BY <1>1, NumbersStay
<1>3. ASSUME NEW t \in InitialTables
      PROVE  Entries(index'[<<t, "id">>].leaf, Known(t)')
  BY <1>2 DEF Faithful, Entries
<1>4. ASSUME NEW o \in Sessions, pc'[o] \notin {"idle", "crashed"}
      PROVE  Told(pc'[o], job'[o], data', Known(job[o].table)')
  <2> DEFINE p == pc'[o]  j == job'[o]  t == j.table
  <2>1. IInv'
    BY KeepsIInv
  <2>2. t \in InitialTables /\ j.todo \in Seq(Int) /\ j.hits \in Seq(Int)
    BY <1>4, <2>1 DEF IInv, Session
  <2>3. data[t] \in Seq(Row) /\ data'[t] \in Seq(Row) /\ Len(data'[t]) >= Len(data[t])
    BY <2>2 DEF IInv, Files, Keeps, Grows
  <2>4. Len(data'[t]) \in Nat
    BY <2>3
  <2> DEFINE numbers == Known(t)  more == Known(job[o].table)'  new == data'
  <2>5. Told(p, j, new, numbers) \/ Told(p, j, data, numbers)
    <3>1. CASE o = s
      BY <1>4, <3>1 DEF Faithful
    <3>2. CASE o # s
      BY <1>4, <3>2 DEF Unharmed, Keeps, Others
    <3> QED  BY <3>1, <3>2
  <2>6. numbers \subseteq more
    BY <1>2, <2>2
  <2>7. /\ data[t] \in Seq(Row) /\ new[t] \in Seq(Row) /\ Len(new[t]) >= Len(data[t])
        /\ Len(new[t]) >= Len(new[t])
    BY <2>3, <2>4
  <2> HIDE DEF p, j, numbers, more, new
  <2>8. ASSUME Told(p, j, new, numbers)  PROVE Told(p, j, new, more)
    BY <2>2, <2>7, <2>6, <2>8, ToldStays
  <2>9. ASSUME Told(p, j, data, numbers)  PROVE Told(p, j, new, more)
    BY <2>2, <2>7, <2>6, <2>9, ToldStays
  <2>10. Told(p, j, new, more)
    BY <2>5, <2>8, <2>9
  <2> QED  BY <2>10 DEF p, j, more, new
<1> QED  BY <1>3, <1>4 DEF Unharmed

(* The catalog at the start lists every table, and none twice. *)
LEMMA FirstCatalog ==
  ASSUME Init, InitialTables # {}
  PROVE  /\ Sound(dbInfo, data)
         /\ \A i, k \in 1..Len(dbInfo.tables) :
              dbInfo.tables[i].name = dbInfo.tables[k].name => i = k
<1> DEFINE names == SetToSeq(InitialTables)
           n == Cardinality(InitialTables)
           Good(f) == IsInjective(f)
<1>1. InitialTables \subseteq Tables /\ IsFiniteSet(InitialTables)
  BY TablesAssumption, FS_Subset
<1>2. n \in Nat /\ ExistsBijection(1..n, InitialTables)
  BY <1>1, FS_CardinalityType
<1>3. \E f \in [1..n -> InitialTables] : Good(f)
  BY <1>2 DEF ExistsBijection, Bijection, Injection, IsInjective
<1>4. names = CHOOSE f \in [1..n -> InitialTables] : Good(f)
  BY DEF SetToSeq
<1>5. names \in [1..n -> InitialTables] /\ Good(names)
  <2> HIDE DEF Good, n
  <2> QED  BY <1>3, <1>4
<1> HIDE DEF names, n
<1>6. /\ Len(names) = n /\ DOMAIN names = 1..n
      /\ \A i, k \in 1..n : names[i] = names[k] => i = k
  BY <1>2, <1>5 DEF IsInjective
<1> DEFINE tables == [i \in 1..n |-> NewTable(names[i])]
<1>7. dbInfo = [tables |-> tables, tableNum |-> n]
  BY <1>6 DEF Init, names
<1>8. ASSUME NEW i \in 1..n
      PROVE  /\ tables[i] \in Table
             /\ tables[i].name = names[i] /\ names[i] \in InitialTables
             /\ tables[i].indexed = {"id"} /\ tables[i].dataNum = 0
  <2>1. names[i] \in InitialTables /\ tables[i] = NewTable(names[i])
    BY <1>5
  <2> QED  BY <1>1, <2>1, Columns DEF NewTable, Table
<1>9. tables \in Seq(Table) /\ Len(tables) = n
  <2>1. tables \in [1..n -> Table]
    BY <1>8
  <2> HIDE DEF tables
  <2> QED  BY <1>2, <2>1
<1> HIDE DEF tables
<1>10. dbInfo \in Database /\ dbInfo.tables = tables /\ dbInfo.tableNum = n
  BY <1>2, <1>7, <1>9 DEF Database
<1>11. ASSUME NEW i \in 1..n  PROVE tables[i].dataNum <= Len(data[tables[i].name])
  <2>1. data[tables[i].name] = <<>>
    BY <1>1, <1>8 DEF Init
  <2> QED  BY <1>8, <2>1
<1>12. Sound(dbInfo, data)
  BY <1>8, <1>9, <1>10, <1>11 DEF Sound
<1> QED  BY <1>6, <1>8, <1>9, <1>10, <1>12

(* The tables at the start are in order. *)
LEMMA InitIInv == Init => IInv
<1> SUFFICES ASSUME Init  PROVE IInv
  OBVIOUS
<1>1. Whole
  BY DEF Init, Whole
<1>2. \A s \in Sessions : Session(pc[s], db[s], job[s], data)
  BY NoJobFields DEF Init, Session, Positions
<1>3. InitialTables \subseteq Tables /\ IsFiniteSet(InitialTables)
  BY TablesAssumption, FS_Subset
<1>4. EmptyIndex \in Index /\ <<>> \in Seq(Row)
  <2>1. <<>> \in Seq(Entry)
    OBVIOUS
  <2> QED  BY <2>1 DEF EmptyIndex, Index
<1>5. data \in [Tables -> Seq(Row) \cup {Absent}] /\ \A t \in InitialTables : data[t] = <<>>
  BY <1>3, <1>4 DEF Init
<1>6. index \in [Tables \X Fields -> Index \cup {Absent}]
  BY <1>4 DEF Init
<1>7. ASSUME NEW t \in InitialTables  PROVE index[<<t, "id">>] \in Index
  <2>1. <<t, "id">> \in Tables \X Fields
    BY <1>3, Columns
  <2> QED  BY <1>4, <2>1 DEF Init
<1>8. dbInfo \in {Absent, Torn} \/ Sound(dbInfo, data)
  BY FirstCatalog DEF Init
<1>9. Files
  BY <1>3, <1>4, <1>5, <1>6, <1>7, <1>8 DEF Files, Init
<1> QED  BY <1>1, <1>2, <1>9 DEF IInv

-----------------------------------------------------------------------------
(* Where no open file has lost its name. *)
LEMMA Named ==
  ASSUME stray = [o \in Sessions |-> NoStray], NEW s \in Sessions
  PROVE  /\ Tree(s) = index[Held(pc[s], job[s])]
         /\ \A tree : PutTree(s, tree) \/ CloseTree(s, tree) =>
              index' = [index EXCEPT ![Held(pc[s], job[s])] = tree] /\ stray' = stray
         /\ CloseData(s) =>
              data' = [data EXCEPT ![job[s].table] = Append(@, job[s].row)] /\ stray' = stray
         /\ \A p : Stop(s, p) =>
              /\ pc' = [pc EXCEPT ![s] = p] /\ job' = [job EXCEPT ![s] = NoJob]
              /\ stray' = stray
<1>1. stray[s] = NoStray /\ NoStray.tree = None /\ NoStray.out = FALSE
  BY DEF NoStray
<1>2. /\ [stray EXCEPT ![s] = NoStray] = stray
      /\ [stray EXCEPT ![s].tree = None] = stray
      /\ [stray EXCEPT ![s].out = FALSE] = stray
  <2>1. [NoStray EXCEPT !.tree = None] = NoStray /\ [NoStray EXCEPT !.out = FALSE] = NoStray
    <3>1. NoStray \in [tree : {None}, out : BOOLEAN]
      BY DEF NoStray
    <3> QED  BY ONLY <1>1, <3>1
  <2>2. /\ [stray EXCEPT ![s].tree = None] = [stray EXCEPT ![s] = [NoStray EXCEPT !.tree = None]]
        /\ [stray EXCEPT ![s].out = FALSE] = [stray EXCEPT ![s] = [NoStray EXCEPT !.out = FALSE]]
    BY <1>1
  <2>3. [stray EXCEPT ![s] = NoStray] = stray
    OBVIOUS
  <2> QED  BY <2>1, <2>2, <2>3
<1>3. \A tree : PutTree(s, tree) \/ CloseTree(s, tree) =>
        index' = [index EXCEPT ![Held(pc[s], job[s])] = tree] /\ stray' = stray
  BY <1>1, <1>2 DEF PutTree, CloseTree
<1>4. CloseData(s) =>
        data' = [data EXCEPT ![job[s].table] = Append(@, job[s].row)] /\ stray' = stray
  BY <1>1, <1>2 DEF CloseData
<1>5. \A p : Stop(s, p) =>
        /\ pc' = [pc EXCEPT ![s] = p] /\ job' = [job EXCEPT ![s] = NoJob]
        /\ stray' = stray
  BY <1>2 DEF Stop, Go
<1> QED  BY <1>1, <1>3, <1>4, <1>5 DEF Tree

(* And an index is written where it was read. *)
LEMMA NamedTree ==
  ASSUME stray = [o \in Sessions |-> NoStray], NEW s \in Sessions, NEW tree,
         PutTree(s, tree) \/ CloseTree(s, tree)
  PROVE  index' = [index EXCEPT ![Held(pc[s], job[s])] = tree] /\ stray' = stray
BY Named

-----------------------------------------------------------------------------
(* A step that leaves the rows alone. *)
LEMMA SameRows ==
  ASSUME Files, data' = data
  PROVE  Grows
<1> SUFFICES ASSUME NEW t \in InitialTables
             PROVE  data'[t] \in Seq(Row) /\ Len(data'[t]) >= Len(data[t])
  BY DEF Grows
<1>1. data[t] \in Seq(Row)
  BY DEF Files
<1>2. Len(data[t]) \in Nat
  BY <1>1
<1> QED  BY <1>1, <1>2

(* A step that leaves the files alone. *)
LEMMA FilesStay ==
  ASSUME IInv, UNCHANGED disk
  PROVE  Files' /\ Grows
<1>1. Files /\ dir' = dir /\ dbInfo' = dbInfo /\ data' = data /\ index' = index /\ stray' = stray
  BY DEF IInv, disk
<1>2. Files'
  BY <1>1 DEF Files
<1> QED  BY <1>1, <1>2, SameRows

(* A process that dies in a call leaves the files as they are. *)
LEMMA CrashKeeps ==
  ASSUME IInv, NEW s \in Sessions, Crash(s)
  PROVE  Keeps(s) /\ (job[s].op # "insert" /\ Unharmed => Faithful(s))
<1>1. Session(pc[s], db[s], job[s], data) /\ Whole /\ Files
  BY DEF IInv
<1>2. /\ pc' = [pc EXCEPT ![s] = "crashed"] /\ job' = [job EXCEPT ![s] = NoJob]
      /\ UNCHANGED <<disk, db, deaths>>
  BY <1>1, Named DEF Crash, Files, disk
<1>3. Files' /\ Grows /\ db' = db /\ data' = data /\ index' = index
  BY <1>2, FilesStay DEF disk
<1>4. Others(s)
  BY <1>1, <1>2 DEF Others, Whole
<1>5. pc'[s] = "crashed" /\ job'[s] = NoJob /\ db'[s] = db[s]
  BY <1>1, <1>2 DEF Whole
<1>6. Session("crashed", db[s], NoJob, data)
  BY <1>1, NoJobFields DEF Session, Positions
<1>7. job[s].op # "insert" /\ Unharmed => Faithful(s)
  BY <1>3, <1>5 DEF Faithful, Carries, Unharmed
<1> QED  BY <1>3, <1>4, <1>5, <1>6, <1>7 DEF Keeps

(* Tables that never came to be, or a sound catalog: what USE finds. *)
LEMMA OpenedSound ==
  ASSUME Files, NEW cat \in OpenDatabase
  PROVE  cat = None \/ Sound(cat, data)
<1>1. CASE cat = EmptyDatabase
  <2>1. <<>> \in Seq(Table) /\ Len(<<>>) = 0
    OBVIOUS
  <2> QED  BY <1>1, <2>1 DEF EmptyDatabase, Sound, Database
<1>2. CASE dbInfo \notin {Absent, Torn} /\ cat = Padded(dbInfo)
  <2> DEFINE tables == dbInfo.tables
             filling == [i \in 1..(dbInfo.tableNum - Len(tables)) |->
                           [name |-> Junk, indexed |-> {}, dataNum |-> 0]]
  <2>1. Sound(dbInfo, data)
    BY <1>2 DEF Files
  <2>2. tables \in Seq(Table) /\ dbInfo.tableNum = Len(tables) /\ Len(tables) \in Nat
    BY <2>1 DEF Sound, Database
  <2>3. filling = <<>>
    <3>1. dbInfo.tableNum - Len(tables) = 0
      BY <2>2
    <3>2. 1..(dbInfo.tableNum - Len(tables)) = {}
      BY <3>1
    <3> QED  BY <3>2
  <2>4. cat = [dbInfo EXCEPT !.tables = tables \o filling]
    BY <1>2 DEF Padded
  <2> HIDE DEF filling
  <2>5. tables \o filling = tables
    BY <2>2, <2>3, ConcatEmptySeq
  <2>6. cat = dbInfo
    BY <2>1, <2>4, <2>5 DEF Sound, Database
  <2> QED  BY <2>1, <2>6
<1> QED  BY <1>1, <1>2 DEF OpenDatabase

(* USE loads the catalog of the database, or dies opening it. *)
LEMMA UseKeeps ==
  ASSUME IInv, NEW s \in Sessions, ManagerUseDatabase(s)
  PROVE  Keeps(s) /\ (Unharmed => Faithful(s))
<1>1. pc[s] = "idle" /\ job[s] = NoJob /\ Session(pc[s], db[s], job[s], data)
  BY DEF ManagerUseDatabase, Begins, IInv, Session
<1>2. CASE OpenCrashes /\ Crash(s)
  BY <1>1, <1>2, CrashKeeps, NoJobFields
<1>3. CASE /\ \E cat \in OpenDatabase : db' = [db EXCEPT ![s] = cat]
           /\ UNCHANGED <<disk, pc, job, deaths>>
  <2>1. PICK cat \in OpenDatabase : db' = [db EXCEPT ![s] = cat]
    BY <1>3
  <2>2. Files' /\ Grows
    BY <1>3, FilesStay
  <2>3. pc' = pc /\ job' = job /\ data' = data /\ Whole /\ Files
    BY <1>3 DEF disk, IInv
  <2>4. Others(s) /\ db'[s] = cat
    BY <2>1, <2>3 DEF Others, Whole
  <2>5. cat = None \/ Sound(cat, data)
    BY <2>3, OpenedSound
  <2>6. Session(pc[s], cat, job[s], data)
    BY <1>1, <2>5 DEF Session
  <2>7. Unharmed => Faithful(s)
    BY <1>1, <1>3, <2>3, NoJobFields DEF Faithful, Carries, Unharmed, disk
  <2> QED  BY <2>2, <2>3, <2>4, <2>6, <2>7 DEF Keeps
<1> QED  BY <1>2, <1>3 DEF ManagerUseDatabase

(* A kill, from which on entries may have any number. *)
LEMMA KillKeeps ==
  ASSUME IInv, NEW s \in Sessions, Kill(s), deaths' # <<>>
  PROVE  Keeps(s) /\ (Unharmed => Faithful(s))
<1>1. Session(pc[s], db[s], job[s], data) /\ Whole /\ Files
  BY DEF IInv
<1>2. /\ pc' = [pc EXCEPT ![s] = "crashed"] /\ job' = [job EXCEPT ![s] = NoJob]
      /\ UNCHANGED <<disk, db>>
  BY <1>1, Named DEF Kill, Files, disk
<1>3. Files' /\ Grows /\ db' = db /\ data' = data /\ index' = index
  BY <1>2, FilesStay DEF disk
<1>4. Others(s)
  BY <1>1, <1>2 DEF Others, Whole
<1>5. pc'[s] = "crashed" /\ job'[s] = NoJob /\ db'[s] = db[s]
  BY <1>1, <1>2 DEF Whole
<1>6. Session("crashed", db[s], NoJob, data)
  BY <1>1, NoJobFields DEF Session, Positions
<1>7. Unharmed => Faithful(s)
  BY <1>3, <1>5 DEF Faithful, Unharmed
<1> QED  BY <1>3, <1>4, <1>5, <1>6, <1>7 DEF Keeps

(* A new connection does not touch the files. *)
LEMMA ConnectKeeps ==
  ASSUME IInv, NEW s \in Sessions, Connect(s)
  PROVE  Keeps(s) /\ (Unharmed => Faithful(s)) /\ pc[s] = "crashed" /\ deaths' = deaths
<1>1. Session(pc[s], db[s], job[s], data) /\ Whole /\ pc[s] = "crashed"
  BY DEF IInv, Connect
<1>2. /\ pc' = [pc EXCEPT ![s] = "idle"] /\ db' = [db EXCEPT ![s] = None]
      /\ UNCHANGED <<disk, job, deaths>>
  BY DEF Connect, Go
<1>3. Files' /\ Grows /\ job' = job /\ data' = data /\ index' = index /\ deaths' = deaths
  BY <1>2, FilesStay DEF disk
<1>4. Others(s)
  BY <1>1, <1>2 DEF Others, Whole
<1>5. pc'[s] = "idle" /\ db'[s] = None /\ job'[s] = NoJob /\ job[s] = NoJob
  BY <1>1, <1>2 DEF Whole, Session
<1>6. Session("idle", None, NoJob, data)
  BY <1>1, NoJobFields DEF Session, Positions
<1>7. Unharmed => Faithful(s)
  BY <1>3, <1>5, NoJobFields DEF Faithful, Carries, Unharmed
<1> QED  BY <1>1, <1>3, <1>4, <1>5, <1>6, <1>7 DEF Keeps

(* INSERT takes the number of its row from a catalog that counts too few. *)
LEMMA InsertKeeps ==
  ASSUME IInv, NEW s \in Sessions, NEW t \in Tables,
         NEW given \in [Fields \ {"id"} -> Values \cup {None}], ManagerInsert(s, t, given)
  PROVE  Keeps(s) /\ (Unharmed => Faithful(s))
<1> DEFINE info == Info(db[s], t)
           row  == [f \in Fields |-> IF f = "id" THEN info.dataNum
                                     ELSE IF given[f] = None THEN 0 ELSE given[f]]
           keys == Indexed(info)
           todo == [i \in DOMAIN keys |-> row[keys[i]]]
           j == [NoJob EXCEPT !.op = "insert", !.table = t, !.row = row, !.todo = todo]
           p == IF keys = <<>> THEN "append" ELSE "open"
<1>1. Session(pc[s], db[s], job[s], data) /\ Whole /\ Files
  BY DEF IInv
<1>2. Has(db[s], t) /\ Sound(db[s], data)
  BY <1>1 DEF ManagerInsert, Has, Session
<1>3. Slot(db[s], t) \in 1..Len(db[s].tables) /\ info.name = t /\ db[s].tables \in Seq(Table)
  BY <1>2, SlotFound DEF Has, Sound, Database
<1>4. info.dataNum \in Nat /\ info.indexed = {"id"} /\ t \in InitialTables
  <2>1. info = db[s].tables[Slot(db[s], t)] /\ info \in Table
    BY <1>3, ElementOfSeq DEF Info
  <2> QED  BY <1>2, <1>3, <2>1 DEF Sound, Table
<1>5. row \in Row /\ row["id"] = info.dataNum
  <2>1. \A f \in Fields : row[f] \in Values \cup Int
    BY <1>4
  <2> QED  BY <2>1, Columns DEF Row
<1>6. keys \in Seq({"id"}) /\ Len(keys) \in Nat /\ Len(keys) >= 1 /\ keys # <<>>
  BY <1>4, IndexedId
<1>7. todo \in Seq({row["id"]}) /\ todo # <<>>
  <2> HIDE DEF row, keys
  <2>1. DOMAIN keys = 1..Len(keys) /\ \A i \in 1..Len(keys) : keys[i] = "id"
    BY <1>6
  <2>2. todo \in [1..Len(keys) -> {row["id"]}]
    BY <2>1
  <2> HIDE DEF todo
  <2>3. todo \in Seq({row["id"]}) /\ Len(todo) = Len(keys)
    BY <1>6, <2>2
  <2> QED  BY <1>6, <2>3
<1>8. todo \in Seq(Int)
  <2> DEFINE id == row["id"]
  <2>1. id \in Int
    <3> HIDE DEF row
    <3> QED  BY <1>4, <1>5
  <2>2. todo \in Seq({id})
    BY <1>7
  <2> HIDE DEF todo, id
  <2> QED  BY <2>1, <2>2
<1>9. job[s] = NoJob
  BY <1>1 DEF ManagerInsert, Begins, Session
<1>10. data[t] \in Seq(Row) /\ data[t] # Absent
  BY <1>1, <1>4, AbsentAssumption DEF Files
<1>11. CASE ~dir /\ Crash(s)
  BY <1>11, <1>9, CrashKeeps, NoJobFields
<1>12. CASE /\ data' = [data EXCEPT ![t] = IF @ = Absent THEN <<>> ELSE @]
            /\ job' = [job EXCEPT ![s] = j]
            /\ Go(s, p)
            /\ UNCHANGED <<dir, dbInfo, index, stray, db, deaths>>
  <2>1. data' = data
    BY <1>1, <1>10, <1>12 DEF Files
  <2>2. Files' /\ Grows
    BY <1>12, <2>1, FilesStay DEF disk
  <2> HIDE DEF row, todo, keys
  <2>3. Others(s) /\ pc'[s] = "open" /\ job'[s] = j /\ db'[s] = db[s]
    BY <1>1, <1>6, <1>12 DEF Others, Whole, Go
  <2>4. /\ DOMAIN j = DOMAIN NoJob /\ j.op = "insert" /\ j.table = t /\ j.row = row
        /\ j.todo = todo /\ j.head = FALSE /\ j.hits = <<>> /\ j.hits \in Seq(Int)
    <3>1. <<>> \in Seq(Int)
      OBVIOUS
    <3> QED  BY <3>1 DEF NoJob
  <2> HIDE DEF j, info
  <2>5. Inserting("open", db[s], j, data)
    BY <1>2, <1>4, <1>5, <1>7, <2>4 DEF Inserting, Has, info
  <2>6. Session("open", db[s], j, data)
    BY <1>1, <1>4, <1>8, <2>4, <2>5 DEF Session, Positions
  <2>7. Unharmed => Faithful(s)
    <3>1. Told("open", j, data', Known(j.table))
      BY <2>4 DEF Told
    <3> QED  BY <1>12, <1>9, <2>3, <3>1, NoJobFields DEF Faithful, Carries, Unharmed
  <2> QED  BY <2>1, <2>2, <2>3, <2>6, <2>7 DEF Keeps
<1> QED  BY <1>11, <1>12 DEF ManagerInsert

(* A scan or a lookup begins. *)
LEMMA QueryKeeps ==
  ASSUME IInv, NEW s \in Sessions, NEW op \in {"select", "update", "delete"}, NEW t, NEW list,
         NEW field, NEW value, op = "update" => field # None /\ value \in Values,
         Query(s, op, t, list, field, value)
  PROVE  Keeps(s) /\ (Unharmed => Faithful(s))
<1> DEFINE info   == Info(db[s], t)
           filter == Filter(Fields, list)
           use    == UseIndex(info, filter)
           j      == [NoJob EXCEPT !.op = op, !.table = t, !.filter = filter,
                                   !.field = field, !.value = value]
<1>1. Session(pc[s], db[s], job[s], data) /\ Whole /\ Files
  BY DEF IInv
<1>2. Has(db[s], t) /\ Sound(db[s], data)
  BY <1>1 DEF Query, Has, Session
<1>3. Slot(db[s], t) \in 1..Len(db[s].tables) /\ info.name = t /\ db[s].tables \in Seq(Table)
  BY <1>2, SlotFound DEF Has, Sound, Database
<1>4. info.dataNum \in Nat /\ info.indexed = {"id"} /\ t \in InitialTables
  <2>1. info = db[s].tables[Slot(db[s], t)] /\ info \in Table
    BY <1>3, ElementOfSeq DEF Info
  <2> QED  BY <1>2, <1>3, <2>1 DEF Sound, Table
<1>5. Files' /\ Grows /\ data' = data /\ db' = db
  BY FilesStay DEF Query, disk
<1>6. /\ DOMAIN j = DOMAIN NoJob /\ j.op = op /\ j.table = t /\ j.todo = <<>>
      /\ j.field = field /\ j.value = value /\ j.head = FALSE /\ j.hits = <<>>
      /\ j.filter = filter
  BY DEF NoJob
<1>7. \/ /\ use = <<>> /\ job' = [job EXCEPT ![s] = [j EXCEPT !.todo = ScanKeys(info)]]
         /\ pc' = [pc EXCEPT ![s] = "open"]
      \/ /\ use # <<>> /\ job' = [job EXCEPT ![s] = [j EXCEPT !.use = use[1]]]
         /\ pc' = [pc EXCEPT ![s] = "open use"]
  BY DEF Query, Go
<1>8. job[s] = NoJob /\ <<>> \in Seq(Int)
  <2>1. <<>> \in Seq(Int)
    OBVIOUS
  <2> QED  BY <1>1, <2>1 DEF Query, Begins, Session
<1>9. info.dataNum <= Len(data[t])
  BY <1>2, <1>3, <1>4 DEF Sound, Info
<1>10. Len(data[t]) \in Nat
  BY <1>1, <1>4 DEF Files
<1>11. UNCHANGED index
  BY DEF Query, disk
<1> HIDE DEF j, filter, info, use
<1>12. CASE /\ use = <<>> /\ job' = [job EXCEPT ![s] = [j EXCEPT !.todo = ScanKeys(info)]]
           /\ pc' = [pc EXCEPT ![s] = "open"]
  <2> DEFINE k == [j EXCEPT !.todo = ScanKeys(info)]
  <2>1. Others(s) /\ job'[s] = k /\ pc'[s] = "open"
    BY <1>1, <1>5, <1>12 DEF Others, Whole
  <2>2. ScanKeys(info) \in Seq(Int)
    <3>1. ScanKeys(info) \in [1..info.dataNum -> Int]
      BY <1>4 DEF ScanKeys
    <3> QED  BY <1>4, <3>1
  <2>3. DOMAIN k = DOMAIN NoJob /\ k.op = op /\ k.table = t /\ k.todo = ScanKeys(info)
        /\ k.field = field /\ k.value = value /\ k.head = FALSE /\ k.hits = <<>>
    BY <1>6, JobFields
  <2> HIDE DEF k
  <2>4. Session("open", db[s], k, data)
    BY <1>1, <1>4, <1>8, <2>2, <2>3 DEF Session, Reading, Positions
  <2>5. Told("open", k, data, Known(k.table))
    <3>1. ASSUME NEW i \in 1..Len(k.todo)  PROVE k.todo[i] \in 0..Len(data[k.table]) - 1
      <4>1. i \in 1..info.dataNum /\ k.todo[i] = i - 1
        BY <1>4, <2>3, <3>1 DEF ScanKeys
      <4> QED  BY <1>4, <1>9, <1>10, <2>3, <4>1
    <3> QED  BY <2>3, <3>1 DEF Told
  <2>6. Unharmed => Faithful(s)
    BY <1>5, <1>8, <1>11, <2>1, <2>5, NoJobFields DEF Faithful, Carries, Unharmed
  <2> QED  BY <1>5, <2>1, <2>4, <2>6 DEF Keeps
<1>13. CASE /\ use # <<>> /\ job' = [job EXCEPT ![s] = [j EXCEPT !.use = use[1]]]
           /\ pc' = [pc EXCEPT ![s] = "open use"]
  <2> DEFINE k == [j EXCEPT !.use = use[1]]
  <2>1. Others(s) /\ job'[s] = k /\ pc'[s] = "open use"
    BY <1>1, <1>5, <1>13 DEF Others, Whole
  <2>2. use[1] = "id" /\ filter["id"].op = "TK_EQ"
    BY <1>4, <1>13, UseIndexId DEF use
  <2>3. DOMAIN k = DOMAIN NoJob /\ k.op = op /\ k.table = t /\ k.todo = <<>> /\ k.use = "id"
        /\ k.field = field /\ k.value = value /\ k.head = FALSE /\ k.hits = <<>>
        /\ k.filter = filter
    BY <1>6, <2>2, JobFields
  <2> HIDE DEF k
  <2>4. Reading("open use", k)
    <3>1. k.todo \in Seq(Int)
      BY <2>3
    <3> QED  BY <2>3, <3>1 DEF Reading
  <2>5. Session("open use", db[s], k, data)
    BY <1>1, <1>4, <1>8, <2>3, <2>4 DEF Session, Positions
  <2>6. Told("open use", k, data, Known(k.table))
    <3>1. Comparing(k)
      BY <2>2, <2>3, Columns DEF Comparing
    <3> QED  BY <3>1 DEF Told
  <2>7. Unharmed => Faithful(s)
    BY <1>5, <1>8, <1>11, <2>1, <2>6, NoJobFields DEF Faithful, Carries, Unharmed
  <2> QED  BY <1>5, <2>1, <2>5, <2>7 DEF Keeps
<1> QED  BY <1>7, <1>12, <1>13

-----------------------------------------------------------------------------
(* What a session in the middle of a statement can rely on. *)
LEMMA Busy ==
  ASSUME IInv, NEW s \in Sessions, pc[s] \notin {"idle", "crashed"}
  PROVE  LET j == job[s]
         IN  /\ Whole /\ Files /\ dir
             /\ DOMAIN j = DOMAIN NoJob /\ j.head \in BOOLEAN /\ j.table \in InitialTables
             /\ j.todo \in Seq(Int) /\ j.hits \in Seq(Int)
             /\ data[j.table] \in Seq(Row) /\ data[j.table] # Absent
             /\ index[<<j.table, "id">>] \in Index /\ index[<<j.table, "id">>] # Absent
             /\ <<j.table, "id">> \in Tables \X Fields /\ j.table \in Tables
             /\ db[s] = None \/ Sound(db[s], data)
             /\ Inserting(pc[s], db[s], j, data) \/ Reading(pc[s], j)
             /\ Held(pc[s], j) = <<j.table, "id">>
<1>1. Whole /\ Files /\ Session(pc[s], db[s], job[s], data)
  BY DEF IInv
<1>2. /\ DOMAIN job[s] = DOMAIN NoJob /\ job[s].head \in BOOLEAN /\ job[s].table \in InitialTables
      /\ job[s].todo \in Seq(Int) /\ job[s].hits \in Seq(Int)
      /\ db[s] = None \/ Sound(db[s], data)
      /\ Inserting(pc[s], db[s], job[s], data) \/ Reading(pc[s], job[s])
  BY <1>1 DEF Session
<1>3. data[job[s].table] \in Seq(Row) /\ index[<<job[s].table, "id">>] \in Index /\ dir
  BY <1>1, <1>2 DEF Files
<1>4. data[job[s].table] # Absent /\ index[<<job[s].table, "id">>] # Absent
  BY <1>3, AbsentAssumption
<1>5. job[s].table \in Tables /\ <<job[s].table, "id">> \in Tables \X Fields
  BY <1>2, Columns, TablesAssumption
<1>6. Held(pc[s], job[s]) = <<job[s].table, "id">>
  BY <1>2 DEF Held, Inserting, Reading
<1> QED  BY <1>1, <1>2, <1>3, <1>4, <1>5, <1>6

(* The loops over the keys and over the rows of a key. *)
LEMMA OneLess ==
  ASSUME NEW hits \in Seq(Int), hits # <<>>
  PROVE  /\ Head(hits) = hits[1] /\ 1 \in 1..Len(hits) /\ Head(hits) \in Int /\ Tail(hits) \in Seq(Int)
         /\ Len(Tail(hits)) < Len(hits) /\ (Len(hits) # 1 => Tail(hits) # <<>>)
         /\ \A i \in 1..Len(Tail(hits)) : i + 1 \in 1..Len(hits) /\ Tail(hits)[i] = hits[i + 1]
<1> DEFINE rest == Tail(hits)
<1>1. /\ Head(hits) = hits[1] /\ Head(hits) \in Int /\ rest \in Seq(Int)
      /\ Len(rest) = Len(hits) - 1 /\ Len(hits) \in Nat /\ Len(rest) \in Nat
      /\ \A i \in 1..(Len(hits) - 1) : rest[i] = hits[i + 1]
  OBVIOUS
<1> HIDE DEF rest
<1>2. rest = <<>> => Len(rest) = 0
  BY <1>1, EmptySeq
<1>3. rest = <<>> => Len(hits) = 1
  BY <1>1, <1>2
<1>4. \A i \in 1..Len(rest) : i + 1 \in 1..Len(hits) /\ rest[i] = hits[i + 1]
  BY <1>1
<1>5. 1 \in 1..Len(hits)
  BY <1>1
<1> QED  BY <1>1, <1>3, <1>4, <1>5 DEF rest

(* Opening an index file reads its root. *)
LEMMA OpenKeeps ==
  ASSUME IInv, NEW s \in Sessions, OpenIndex(s) \/ OpenUse(s)
  PROVE  Keeps(s) /\ (Unharmed => Faithful(s)) /\ pc'[s] # "crashed"
<1> DEFINE j == job[s]
           root == index[<<j.table, "id">>].root
           k == [j EXCEPT !.head = root]
           next == IF pc[s] = "open use" THEN "probe"
                   ELSE IF j.op = "insert" THEN "load" ELSE "search"
<1>1. pc[s] \in {"open", "open use"}
  BY DEF OpenIndex, OpenUse
<1>2. /\ Whole /\ Files /\ DOMAIN j = DOMAIN NoJob
      /\ j.todo \in Seq(Int) /\ j.hits \in Seq(Int) /\ j.table \in InitialTables
      /\ index[<<j.table, "id">>] # Absent /\ root \in BOOLEAN /\ (db[s] = None \/ Sound(db[s], data))
      /\ Inserting(pc[s], db[s], j, data) \/ Reading(pc[s], j)
  BY <1>1, Busy DEF Index
<1>3. Held(pc[s], j) = <<j.table, "id">> /\ j.op # "create index"
  BY <1>1, <1>2, Busy DEF Inserting, Reading
<1>4. /\ job' = [job EXCEPT ![s] = k] /\ pc' = [pc EXCEPT ![s] = next]
      /\ UNCHANGED <<disk, db, deaths>>
  <2>1. CASE OpenIndex(s)
    BY <1>2, <1>3, <2>1 DEF OpenIndex, OpenBptree, Go
  <2>2. CASE OpenUse(s)
    BY <1>2, <1>3, <2>2 DEF OpenUse, OpenBptree, Go
  <2> QED  BY <2>1, <2>2
<1>5. Files' /\ Grows /\ data' = data /\ db' = db
  BY <1>4, FilesStay DEF disk
<1>6. /\ DOMAIN k = DOMAIN NoJob /\ k.op = j.op /\ k.table = j.table /\ k.row = j.row
      /\ k.todo = j.todo /\ k.hits = j.hits /\ k.use = j.use /\ k.field = j.field
      /\ k.value = j.value /\ k.leaf = j.leaf /\ k.head = root /\ k.filter = j.filter
  BY <1>2, JobFields
<1> HIDE DEF k, next
<1>7. Others(s) /\ job'[s] = k /\ pc'[s] = next
  BY <1>2, <1>4, <1>5 DEF Others, Whole
<1>8. next \in Positions /\ next \notin {"idle", "crashed"}
  BY DEF next, Positions
<1> HIDE DEF j
<1>9. Inserting(pc[s], db[s], j, data) => Inserting(next, db[s], k, data)
  BY <1>1, <1>6 DEF Inserting, next
<1>10. Reading(pc[s], j) => Reading(next, k)
  BY <1>1, <1>6 DEF Reading, next
<1>11. Session(next, db[s], k, data)
  BY <1>2, <1>6, <1>8, <1>9, <1>10 DEF Session
<1>12. ASSUME Unharmed  PROVE Faithful(s)
  <2>1. Told(pc[s], j, data, Known(j.table))
    BY <1>1, <1>12 DEF Unharmed, j
  <2>2. Told(next, k, data, Known(k.table))
    BY <1>1, <1>6, <2>1 DEF Told, Comparing, next
  <2>3. index' = index /\ Carries(j, k, data)
    BY <1>4, <1>6 DEF disk, Carries
  <2> QED  BY <1>5, <1>7, <1>12, <2>2, <2>3 DEF Faithful, Unharmed, j
<1> QED  BY <1>5, <1>7, <1>8, <1>11, <1>12 DEF Keeps

(* Loading a leaf takes a copy of the entries the file has now. *)
LEMMA LoadKeeps ==
  ASSUME IInv, NEW s \in Sessions, Load(s)
  PROVE  Keeps(s) /\ (Unharmed => Faithful(s)) /\ pc'[s] # "crashed"
<1> DEFINE j == job[s]
           leaf == IF j.head THEN index[<<j.table, "id">>].leaf ELSE <<>>
           k == [j EXCEPT !.leaf = leaf]
<1>1. pc[s] = "load"
  BY DEF Load
<1>2. /\ Whole /\ Files /\ DOMAIN j = DOMAIN NoJob
      /\ j.todo \in Seq(Int) /\ j.hits \in Seq(Int) /\ j.head \in BOOLEAN /\ j.table \in InitialTables
      /\ index[<<j.table, "id">>] \in Index /\ (db[s] = None \/ Sound(db[s], data))
      /\ Inserting("load", db[s], j, data) \/ Reading("load", j)
      /\ Tree(s) = index[<<j.table, "id">>]
  BY <1>1, Busy, Named DEF Files
<1>3. /\ job' = [job EXCEPT ![s] = k] /\ pc' = [pc EXCEPT ![s] = "put"]
      /\ UNCHANGED <<disk, db, deaths>>
  BY <1>2 DEF Load, Go
<1>4. Files' /\ Grows /\ data' = data /\ db' = db
  BY <1>3, FilesStay DEF disk
<1>5. leaf \in Seq(Entry)
  <2>1. <<>> \in Seq(Entry)
    OBVIOUS
  <2> QED  BY <1>2, <2>1 DEF Index
<1> HIDE DEF leaf
<1>6. /\ DOMAIN k = DOMAIN NoJob /\ k.op = j.op /\ k.table = j.table /\ k.row = j.row
      /\ k.todo = j.todo /\ k.hits = j.hits /\ k.use = j.use /\ k.field = j.field
      /\ k.value = j.value /\ k.leaf = leaf /\ k.head = j.head /\ k.filter = j.filter
  BY <1>2, JobFields
<1> HIDE DEF k
<1>7. Others(s) /\ job'[s] = k /\ pc'[s] = "put"
  BY <1>2, <1>3, <1>4 DEF Others, Whole
<1> HIDE DEF j
<1>8. Inserting("load", db[s], j, data) => Inserting("put", db[s], k, data)
  BY <1>5, <1>6 DEF Inserting
<1>9. Reading("load", j) => Reading("put", k)
  BY <1>5, <1>6 DEF Reading
<1>10. Session("put", db[s], k, data)
  BY <1>2, <1>6, <1>8, <1>9 DEF Session, Positions
<1>11. ASSUME Unharmed  PROVE Faithful(s)
  <2>1. /\ Told("load", j, data, Known(j.table))
        /\ Entries(index[<<j.table, "id">>].leaf, Known(j.table))
    BY <1>1, <1>2, <1>11 DEF Unharmed, j
  <2>2. Entries(leaf, Known(j.table))
    BY <2>1 DEF leaf, Entries
  <2>3. Told("put", k, data, Known(k.table))
    BY <1>6, <2>1, <2>2 DEF Told, Comparing
  <2>4. index' = index /\ Carries(j, k, data)
    BY <1>3, <1>6 DEF disk, Carries
  <2> QED  BY <1>4, <1>7, <1>11, <2>3, <2>4 DEF Faithful, Unharmed, j
<1> QED  BY <1>4, <1>7, <1>10, <1>11 DEF Keeps

(* A step that writes an index entry or header. *)
LEMMA IndexWritten ==
  ASSUME IInv, NEW i \in Tables \X Fields, NEW new \in Index,
         index' = [index EXCEPT ![i] = new], UNCHANGED <<dir, dbInfo, data, stray>>
  PROVE  Files' /\ Grows
<1>1. Files
  BY DEF IInv
<1>2. index' \in [Tables \X Fields -> Index \cup {Absent}]
  BY <1>1 DEF Files
<1>3. ASSUME NEW t \in InitialTables
      PROVE  index'[<<t, "id">>] \in Index
  <2>1. <<t, "id">> \in Tables \X Fields /\ index[<<t, "id">>] \in Index
    BY <1>1, Columns, TablesAssumption DEF Files
  <2> QED  BY <1>1, <2>1 DEF Files
<1>4. Grows
  BY <1>1, SameRows
<1>5. /\ dir' = dir /\ data' = data /\ stray' = stray
      /\ dbInfo' \in {Absent, Torn} \/ Sound(dbInfo', data')
  BY <1>1 DEF Files
<1>6. Files'
  BY <1>1, <1>2, <1>3, <1>5 DEF Files
<1> QED  BY <1>4, <1>6

(* The leaf goes back with the new entry in it. *)
LEMMA PutInsertedKeeps ==
  ASSUME IInv, NEW s \in Sessions, PutInserted(s)
  PROVE  Keeps(s) /\ (Unharmed => Faithful(s)) /\ pc'[s] # "crashed"
<1> DEFINE j == job[s]
           new == [root |-> TRUE, leaf |-> IndexInsert(j.leaf, Head(j.todo), j.row["id"])]
           k == [j EXCEPT !.todo = Tail(@), !.leaf = <<>>]
           next == IF Len(j.todo) = 1 THEN "append" ELSE "open"
<1>1. pc[s] = "put" /\ j.op = "insert"
  BY DEF PutInserted
<1>2. /\ Whole /\ Files /\ DOMAIN j = DOMAIN NoJob
      /\ j.todo \in Seq(Int) /\ j.hits \in Seq(Int) /\ j.head \in BOOLEAN
      /\ j.table \in InitialTables /\ <<j.table, "id">> \in Tables \X Fields
      /\ (db[s] = None \/ Sound(db[s], data))
      /\ Inserting("put", db[s], j, data) \/ Reading("put", j)
  BY <1>1, Busy
<1>3. Inserting("put", db[s], j, data)
  BY <1>1, <1>2 DEF Reading
<1>4. /\ job' = [job EXCEPT ![s] = k] /\ pc' = [pc EXCEPT ![s] = next]
      /\ index' = [index EXCEPT ![<<j.table, "id">>] = new]
      /\ UNCHANGED <<dir, dbInfo, data, stray, db, deaths>>
  <2>1. Held(pc[s], j) = <<j.table, "id">>
    BY <1>1, Busy
  <2>2. CloseTree(s, new)
    BY DEF PutInserted
  <2> HIDE DEF new
  <2>3. index' = [index EXCEPT ![<<j.table, "id">>] = new] /\ stray' = stray
    <3>1. stray = [o \in Sessions |-> NoStray]
      BY <1>2 DEF Files
    <3> QED  BY <2>1, <2>2, <3>1, NamedTree
  <2> QED  BY <2>3 DEF PutInserted, Go
<1>5. /\ j.todo \in Seq({j.row["id"]}) /\ j.todo # <<>> /\ j.leaf \in Seq(Entry)
      /\ j.row["id"] \in Nat
  BY <1>3 DEF Inserting
<1> DEFINE todo == j.todo  id == j.row["id"]
<1>6. /\ Head(todo) \in Int /\ Tail(todo) \in Seq({id})
      /\ (Len(todo) # 1 => Tail(todo) # <<>>) /\ Head(todo) = id
  <2> HIDE DEF todo, id
  <2>1. todo \in Seq({id}) /\ todo # <<>> /\ id \in Nat
    BY <1>5 DEF todo, id
  <2>2. /\ Head(todo) = id /\ Tail(todo) \in Seq({id}) /\ Len(Tail(todo)) = Len(todo) - 1
        /\ Len(todo) \in Nat
    BY <2>1
  <2>3. Tail(todo) = <<>> => Len(todo) = 1
    BY <2>2
  <2> QED  BY <2>1, <2>2, <2>3
<1>7. new \in Index
  <2>1. IndexInsert(j.leaf, Head(j.todo), j.row["id"]) \in Seq(Entry)
    BY <1>5, <1>6, IndexInsertEntries
  <2> QED  BY <2>1 DEF Index
<1>8. Files' /\ Grows
  BY <1>2, <1>4, <1>7, IndexWritten
<1>9. /\ DOMAIN k = DOMAIN NoJob /\ k.op = j.op /\ k.table = j.table /\ k.row = j.row
      /\ k.todo = Tail(j.todo) /\ k.head = j.head
      /\ k.hits = j.hits
  BY <1>2, JobFields
<1> HIDE DEF k, new
<1>10. Others(s) /\ job'[s] = k /\ pc'[s] = next /\ db' = db /\ data' = data
  BY <1>2, <1>4 DEF Others, Whole
<1>11. Inserting(next, db[s], k, data)
  <2>1. CASE Len(j.todo) = 1
    BY <1>3, <1>9, <2>1 DEF Inserting
  <2>2. CASE Len(j.todo) # 1
    BY <1>3, <1>6, <1>9, <2>2 DEF Inserting
  <2> QED  BY <2>1, <2>2
<1>12. Tail(j.todo) \in Seq(Int) /\ Len(Tail(j.todo)) < Len(j.todo)
  BY <1>2, <1>5, OneLess
<1>13. Session(next, db[s], k, data)
  BY <1>2, <1>9, <1>11, <1>12 DEF Session, Positions
<1>14. ASSUME Unharmed  PROVE Faithful(s)
  <2> DEFINE N == Known(j.table)
             leaf == IndexInsert(j.leaf, Head(j.todo), j.row["id"])
  <2>1. Entries(j.leaf, N)
    BY <1>1, <1>14 DEF Unharmed, Told
  <2>2. j.row["id"] \in N
    <3>1. s \in Carriers(job, j.table)
      BY <1>1 DEF Carriers
    <3> QED  BY <1>5, <3>1 DEF Known, Numbers
  <2>3. Entries(leaf, N)
    <3> DEFINE was == j.leaf  key == Head(j.todo)  own == j.row["id"]
    <3>1. was \in Seq(Entry) /\ key \in Int /\ own \in Int /\ key = own
      BY <1>5, <1>6
    <3>2. leaf = IndexInsert(was, key, own) /\ Entries(was, N) /\ own \in N
      BY <2>1, <2>2
    <3> HIDE DEF N, leaf, was, key, own
    <3>3. \A i \in 1..Len(leaf) :
            \/ \E m \in 1..Len(was) : leaf[i] = was[m]
            \/ leaf[i].key = key /\ leaf[i].dat = own
      BY <3>1, <3>2, IndexInsertEntries
    <3> QED  BY <3>1, <3>2, <3>3 DEF Entries
  <2>4. ASSUME NEW t \in InitialTables
        PROVE  Entries(index'[<<t, "id">>].leaf, Known(t))
    <3>1. CASE t = j.table
      <4>1. index'[<<t, "id">>].leaf = leaf
        BY <1>2, <1>4, <3>1 DEF Files, new
      <4> QED  BY <2>3, <3>1, <4>1
    <3>2. CASE t # j.table
      <4>1. index'[<<t, "id">>] = index[<<t, "id">>]
        BY <1>2, <1>4, <3>2, Columns, TablesAssumption DEF Files
      <4> QED  BY <1>14, <4>1 DEF Unharmed
    <3> QED  BY <3>1, <3>2
  <2>5. Carries(j, k, data)
    BY <1>9 DEF Carries
  <2>6. Told(next, k, data, Known(k.table))
    BY <1>1, <1>9 DEF Told
  <2> QED  BY <1>10, <2>4, <2>5, <2>6 DEF Faithful, j
<1> QED  BY <1>8, <1>10, <1>13, <1>14 DEF Keeps

(* Counting a row that is there leaves a catalog sound. *)
LEMMA SoundCount ==
  ASSUME NEW cat, NEW rows, Sound(cat, rows), NEW t, Slots(cat, t) # {},
         rows[t] \in Seq(Row), Info(cat, t).dataNum < Len(rows[t])
  PROVE  LET info == [Info(cat, t) EXCEPT !.dataNum = @ + 1]
         IN  Sound([cat EXCEPT !.tables[Slot(cat, t)] = info], rows)
<1> DEFINE tables == cat.tables
           slot == Slot(cat, t)
           old == Info(cat, t)
           info == [old EXCEPT !.dataNum = @ + 1]
           new == [tables EXCEPT ![slot] = info]
<1>1. /\ cat \in Database /\ tables \in Seq(Table) /\ cat.tableNum = Len(tables)
      /\ Len(tables) \in Nat
  BY DEF Sound, Database
<1>2. slot \in 1..Len(tables) /\ old.name = t /\ old = tables[slot]
  BY <1>1, SlotFound DEF Info
<1>3. old \in Table /\ old.dataNum \in Nat
  <2>1. old \in Table
    BY <1>1, <1>2, ElementOfSeq
  <2> QED  BY <2>1 DEF Table
<1>4. /\ info \in Table /\ info.name = old.name /\ info.indexed = old.indexed
      /\ info.dataNum = old.dataNum + 1
  BY <1>3 DEF Table
<1>5. Len(rows[t]) \in Nat
  OBVIOUS
<1>6. info.name \in InitialTables /\ info.indexed = {"id"} /\ info.dataNum <= Len(rows[info.name])
  BY <1>2, <1>3, <1>4, <1>5 DEF Sound
<1> HIDE DEF slot, info
<1>7. new \in Seq(Table) /\ Len(new) = Len(tables)
  <2>1. new \in [1..Len(tables) -> Table]
    BY <1>1, <1>2, <1>4
  <2> HIDE DEF new, tables
  <2> QED  BY <1>1, <2>1
<1>8. [cat EXCEPT !.tables[slot] = info] = [cat EXCEPT !.tables = new]
  BY <1>1 DEF Database
<1> DEFINE counted == [cat EXCEPT !.tables = new]
<1>9. counted \in Database /\ counted.tables = new /\ counted.tableNum = Len(new)
  <2> HIDE DEF new
  <2> QED  BY <1>1, <1>7 DEF Database
<1>10. ASSUME NEW i \in 1..Len(new)
       PROVE  /\ new[i].name \in InitialTables /\ new[i].indexed = {"id"}
              /\ new[i].dataNum <= Len(rows[new[i].name])
  <2>1. CASE i = slot
    BY <1>1, <1>2, <1>6, <2>1
  <2>2. CASE i # slot
    BY <1>1, <1>7, <2>2 DEF Sound
  <2> QED  BY <2>1, <2>2
<1> HIDE DEF new, counted
<1>11. Sound(counted, rows)
  BY <1>9, <1>10 DEF Sound
<1> QED  BY <1>8, <1>11 DEF slot, info, counted, new

(* The row gets the number it was indexed under, or a higher one. *)
LEMMA AppendKeeps ==
  ASSUME IInv, NEW s \in Sessions, AppendRow(s)
  PROVE  Keeps(s) /\ (Unharmed => Faithful(s)) /\ pc'[s] # "crashed"
<1> DEFINE j == job[s]
           t == j.table
           cat == db[s]
           info == [Info(cat, t) EXCEPT !.dataNum = Info(cat, t).dataNum + 1]
           new == [cat EXCEPT !.tables[Slot(cat, t)] = info]
<1>1. pc[s] = "append"
  BY DEF AppendRow
<1>2. /\ Whole /\ Files /\ DOMAIN j = DOMAIN NoJob
      /\ j.todo \in Seq(Int) /\ j.hits \in Seq(Int) /\ j.head \in BOOLEAN
      /\ t \in InitialTables /\ t \in Tables /\ data[t] \in Seq(Row)
      /\ (cat = None \/ Sound(cat, data))
      /\ Inserting("append", cat, j, data) \/ Reading("append", j)
  BY <1>1, Busy
<1>3. Inserting("append", cat, j, data)
  BY <1>2 DEF Reading
<1>4. /\ Sound(cat, data) /\ Slots(cat, t) # {} /\ j.op = "insert" /\ j.row \in Row
      /\ j.row["id"] = Info(cat, t).dataNum /\ j.row["id"] \in Nat
  BY <1>2, <1>3 DEF Inserting
<1>5. /\ data' = [data EXCEPT ![t] = Append(data[t], j.row)]
      /\ db' = [db EXCEPT ![s] = new]
      /\ pc' = [pc EXCEPT ![s] = "truncate"]
      /\ UNCHANGED <<dir, dbInfo, index, stray, job, deaths>>
  <2>1. db' = [db EXCEPT ![s].tables[Slot(cat, t)] = info]
    BY DEF AppendRow, Count, SetInfo
  <2>2. [db EXCEPT ![s].tables[Slot(cat, t)] = info] = [db EXCEPT ![s] = new]
    <3> HIDE DEF info
    <3> QED  OBVIOUS
  <2>3. data' = [data EXCEPT ![t] = Append(data[t], j.row)] /\ stray' = stray
    BY <1>2, Named DEF AppendRow, Files
  <2> QED  BY <2>1, <2>2, <2>3 DEF AppendRow, Go
<1>6. /\ Append(data[t], j.row) \in Seq(Row)
      /\ Len(Append(data[t], j.row)) = Len(data[t]) + 1 /\ Len(data[t]) \in Nat
  BY <1>2, <1>4
<1>7. Info(cat, t).dataNum <= Len(data[t])
  <2>1. Slot(cat, t) \in 1..Len(cat.tables) /\ Info(cat, t).name = t
    BY <1>4, SlotFound DEF Sound
  <2> QED  BY <1>4, <2>1 DEF Sound, Info
<1> DEFINE rows == data'
<1>8. rows = [data EXCEPT ![t] = Append(data[t], j.row)]
  BY <1>5
<1>9. /\ rows[t] \in Seq(Row) /\ Len(rows[t]) = Len(data[t]) + 1
      /\ rows \in [Tables -> Seq(Row) \cup {Absent}]
      /\ \A u \in InitialTables : rows[u] \in Seq(Row)
  <2>1. rows[t] = Append(data[t], j.row) /\ rows \in [Tables -> Seq(Row) \cup {Absent}]
    BY <1>2, <1>6, <1>8 DEF Files
  <2>2. ASSUME NEW u \in InitialTables  PROVE rows[u] \in Seq(Row)
    <3>1. u \in Tables
      BY TablesAssumption
    <3> QED  BY <1>2, <1>6, <1>8, <2>1, <3>1 DEF Files
  <2> QED  BY <1>6, <2>1, <2>2
<1>10. \A u \in InitialTables : /\ data[u] \in Seq(Row) /\ rows[u] \in Seq(Row)
                                /\ Len(rows[u]) >= Len(data[u])
  <2> TAKE u \in InitialTables
  <2>1. data[u] \in Seq(Row) /\ rows[u] \in Seq(Row) /\ u \in Tables
    BY <1>2, <1>9, TablesAssumption DEF Files
  <2>2. Len(data[u]) \in Nat
    BY <2>1
  <2>3. CASE u = t
    BY <1>9, <2>1, <2>2, <2>3
  <2>4. CASE u # t
    BY <1>2, <1>8, <2>1, <2>2, <2>4 DEF Files
  <2> QED  BY <2>1, <2>3, <2>4
<1> HIDE DEF rows
<1>11. Sound(cat, rows) /\ (dbInfo \in {Absent, Torn} \/ Sound(dbInfo, rows))
  BY <1>2, <1>4, <1>10, SoundStays DEF Files
<1>12. Info(cat, t).dataNum < Len(rows[t])
  BY <1>4, <1>6, <1>7, <1>9
<1>13. Sound(new, rows)
  BY <1>9, <1>11, <1>12, <1>4, SoundCount
<1>14. Files' /\ Grows
  <2>1. Files'
    BY <1>2, <1>5, <1>9, <1>11 DEF Files, rows
  <2> QED  BY <2>1, <1>10 DEF Grows, rows
<1> HIDE DEF new
<1>15. Others(s) /\ job'[s] = j /\ pc'[s] = "truncate" /\ db'[s] = new
  BY <1>2, <1>5 DEF Others, Whole
<1>16. Session("truncate", new, j, rows)
  <2> HIDE DEF cat, j
  <2>1. j.row["id"] < Len(rows[j.table])
    BY <1>4, <1>12
  <2>2. Inserting("truncate", new, j, rows)
    BY <1>4, <1>13, <2>1 DEF Inserting
  <2> QED  BY <1>2, <1>13, <2>2 DEF Session, Positions
<1>17. ASSUME Unharmed  PROVE Faithful(s)
  <2>1. Carries(j, j, rows) /\ index' = index
    BY <1>5 DEF Carries
  <2>2. Told("truncate", j, rows, Known(j.table))
    BY <1>4 DEF Told
  <2> QED  BY <1>15, <1>17, <2>1, <2>2 DEF Faithful, Unharmed, rows
<1> QED  BY <1>14, <1>15, <1>16, <1>17 DEF Keeps, rows

(* The two halves of DatabaseInfoFlush. *)
LEMMA FlushOpenKeeps ==
  ASSUME IInv, NEW s \in Sessions, FlushOpen(s)
  PROVE  Keeps(s) /\ (Unharmed => Faithful(s)) /\ pc'[s] # "crashed"
<1> DEFINE j == job[s]  cat == db[s]
<1>1. pc[s] = "truncate"
  BY DEF FlushOpen
<1>2. /\ Whole /\ Files /\ dir /\ DOMAIN j = DOMAIN NoJob
      /\ j.todo \in Seq(Int) /\ j.hits \in Seq(Int) /\ j.head \in BOOLEAN
      /\ j.table \in InitialTables
      /\ Inserting("truncate", cat, j, data) \/ Reading("truncate", j)
  BY <1>1, Busy
<1>3. Inserting("truncate", cat, j, data)
  BY <1>2 DEF Reading
<1>4. /\ dbInfo' = Torn /\ pc' = [pc EXCEPT ![s] = "write"]
      /\ UNCHANGED <<dir, data, index, stray, db, job, deaths>>
  BY <1>2 DEF FlushOpen, Go
<1>5. Files'
  BY <1>2, <1>4 DEF Files
<1>6. Grows
  BY <1>2, <1>4, SameRows
<1>7. Others(s) /\ pc'[s] = "write" /\ db'[s] = cat /\ job'[s] = j /\ data' = data
  BY <1>2, <1>4 DEF Others, Whole
<1> HIDE DEF j, cat
<1>8. Inserting("write", cat, j, data)
  BY <1>3 DEF Inserting
<1>9. Session("write", cat, j, data)
  BY <1>2, <1>8 DEF Session, Positions, Inserting
<1>10. ASSUME Unharmed  PROVE Faithful(s)
  <2>1. Carries(j, j, data) /\ index' = index
    BY <1>4 DEF Carries
  <2>2. Told("write", j, data, Known(j.table))
    BY <1>8 DEF Told, Inserting
  <2> QED  BY <1>7, <1>10, <2>1, <2>2 DEF Faithful, Unharmed, j
<1> QED  BY <1>5, <1>6, <1>7, <1>9, <1>10 DEF Keeps

(* The catalog is written with the count this session has. *)
LEMMA FlushCloseKeeps ==
  ASSUME IInv, NEW s \in Sessions, FlushClose(s)
  PROVE  Keeps(s) /\ (Unharmed => Faithful(s)) /\ pc'[s] # "crashed"
<1> DEFINE j == job[s]  cat == db[s]
<1>1. pc[s] = "write"
  BY DEF FlushClose
<1>2. /\ Whole /\ Files
      /\ j.todo \in Seq(Int) /\ j.hits \in Seq(Int)
      /\ data[j.table] \in Seq(Row)
      /\ Inserting("write", cat, j, data) \/ Reading("write", j)
  BY <1>1, Busy
<1>3. Sound(cat, data)
  BY <1>2 DEF Inserting, Reading
<1>4. /\ dbInfo' = cat /\ pc' = [pc EXCEPT ![s] = "idle"] /\ job' = [job EXCEPT ![s] = NoJob]
      /\ UNCHANGED <<dir, data, index, stray, db, deaths>>
  BY <1>2, Named DEF FlushClose, Files, NoStray
<1>5. Files'
  BY <1>2, <1>3, <1>4 DEF Files
<1>6. Grows
  BY <1>2, <1>4, SameRows
<1>7. Others(s) /\ pc'[s] = "idle" /\ db'[s] = cat /\ job'[s] = NoJob /\ data' = data
  BY <1>2, <1>4 DEF Others, Whole
<1> HIDE DEF cat
<1>8. Session("idle", cat, NoJob, data)
  BY <1>3, NoJobFields DEF Session, Positions
<1>9. ASSUME Unharmed  PROVE Faithful(s)
  <2>1. j.row["id"] \in Nat /\ j.row["id"] < Len(data[j.table])
    BY <1>2 DEF Inserting, Reading
  <2>2. Len(data[j.table]) \in Nat
    BY <1>2
  <2>3. j.row["id"] \in 0..Len(data[j.table]) - 1
    BY <2>1, <2>2
  <2>4. index' = index
    BY <1>4
  <2> QED  BY <1>7, <1>9, <2>3, <2>4 DEF Faithful, Carries, Unharmed
<1> QED  BY <1>5, <1>6, <1>7, <1>8, <1>9 DEF Keeps

-----------------------------------------------------------------------------
(* The header a session read when it opened an index goes back. *)
LEMMA HeaderWritten ==
  ASSUME IInv, NEW i \in Tables \X Fields, index[i] \in Index, NEW head \in BOOLEAN,
         index' = [index EXCEPT ![i] = [index[i] EXCEPT !.root = head]],
         UNCHANGED <<dir, dbInfo, data, stray>>
  PROVE  /\ Files' /\ Grows
         /\ \A t \in InitialTables : index'[<<t, "id">>].leaf = index[<<t, "id">>].leaf
<1> DEFINE new == [index[i] EXCEPT !.root = head]
<1>1. new \in Index
  BY DEF Index
<1>2. index' = [index EXCEPT ![i] = new]
  OBVIOUS
<1>3. ASSUME NEW t \in InitialTables
      PROVE  index'[<<t, "id">>].leaf = index[<<t, "id">>].leaf
  <2>1. <<t, "id">> \in Tables \X Fields
    BY Columns, TablesAssumption
  <2>2. new.leaf = index[i].leaf
    BY DEF Index
  <2> HIDE DEF new
  <2> QED  BY <1>2, <2>1, <2>2 DEF IInv, Files
<1> HIDE DEF new
<1> QED  BY <1>1, <1>2, <1>3, IndexWritten

(* The index a statement uses is searched for rows, and closed. *)
LEMMA ProbeKeeps ==
  ASSUME IInv, NEW s \in Sessions, Probe(s)
  PROVE  Keeps(s) /\ (Unharmed => Faithful(s)) /\ pc'[s] # "crashed"
<1> DEFINE j == job[s]
           leaf == index[<<j.table, "id">>].leaf
<1>1. pc[s] = "probe"
  BY DEF Probe
<1>2. /\ Whole /\ Files /\ DOMAIN j = DOMAIN NoJob
      /\ j.todo \in Seq(Int) /\ j.hits \in Seq(Int) /\ j.head \in BOOLEAN
      /\ j.table \in InitialTables /\ <<j.table, "id">> \in Tables \X Fields
      /\ index[<<j.table, "id">>] \in Index /\ (db[s] = None \/ Sound(db[s], data))
      /\ Inserting("probe", db[s], j, data) \/ Reading("probe", j)
      /\ Held("probe", j) = <<j.table, "id">> /\ Tree(s) = index[<<j.table, "id">>]
  BY <1>1, Busy, Named DEF Files
<1>3. Reading("probe", j) /\ j.use = "id"
  BY <1>2 DEF Inserting, Reading
<1>4. PICK offsets \in Found(j.head, leaf, j.filter["id"].value) :
        job' = [job EXCEPT ![s].todo = offsets]
  BY <1>2, <1>3 DEF Probe
<1> DEFINE k == [j EXCEPT !.todo = offsets]
           closed == [index[<<j.table, "id">>] EXCEPT !.root = j.head]
<1>5. /\ job' = [job EXCEPT ![s] = k] /\ pc' = [pc EXCEPT ![s] = "open"]
      /\ index' = [index EXCEPT ![<<j.table, "id">>] = closed]
      /\ UNCHANGED <<dir, dbInfo, data, stray, db, deaths>>
  <2>1. CloseTree(s, closed)
    BY <1>2 DEF Probe, CloseBptree
  <2> HIDE DEF closed
  <2>2. index' = [index EXCEPT ![<<j.table, "id">>] = closed] /\ stray' = stray
    <3>1. stray = [o \in Sessions |-> NoStray] /\ Held(pc[s], j) = <<j.table, "id">>
      BY <1>1, <1>2, Busy DEF Files
    <3> QED  BY <2>1, <3>1, NamedTree
  <2> QED  BY <1>4, <2>2 DEF Probe, Go
<1>6. offsets \in Seq(Int)
  <2>1. leaf \in Seq(Entry)
    BY <1>2 DEF Index
  <2> QED  BY <2>1, FoundEntries
<1>7. /\ Files' /\ Grows
      /\ \A t \in InitialTables : index'[<<t, "id">>].leaf = index[<<t, "id">>].leaf
  BY <1>2, <1>5, HeaderWritten
<1>8. /\ DOMAIN k = DOMAIN NoJob /\ k.op = j.op /\ k.table = j.table /\ k.todo = offsets
      /\ k.field = j.field /\ k.value = j.value /\ k.head = j.head
      /\ k.hits = j.hits /\ k.filter = j.filter
  BY <1>2, JobFields
<1> HIDE DEF k
<1>9. Others(s) /\ job'[s] = k /\ pc'[s] = "open" /\ db' = db /\ data' = data
  BY <1>2, <1>5 DEF Others, Whole
<1>10. ASSUME Unharmed  PROVE Faithful(s)
  <2>1. Comparing(k)
    BY <1>1, <1>3, <1>8, <1>10 DEF Unharmed, Told, Comparing, Reading
  <2>2. Told("open", k, data, Known(k.table))
    BY <2>1 DEF Told
  <2>3. Carries(j, k, data)
    BY <1>3 DEF Carries, Reading
  <2> QED  BY <1>7, <1>9, <1>10, <2>2, <2>3 DEF Faithful, Unharmed
<1> HIDE DEF j
<1>11. Reading("open", k)
  BY <1>3, <1>6, <1>8 DEF Reading
<1>12. Session("open", db[s], k, data)
  BY <1>2, <1>6, <1>8, <1>11 DEF Session, Positions
<1> QED  BY <1>7, <1>9, <1>12, <1>10 DEF Keeps

(* A search takes the rows the leaf names for the value. *)
LEMMA SearchKeeps ==
  ASSUME IInv, NEW s \in Sessions, Search(s)
  PROVE  Keeps(s) /\ (Unharmed => Faithful(s)) /\ pc'[s] # "crashed"
<1> DEFINE j == job[s]
           leaf == index[<<j.table, "id">>].leaf
<1>1. pc[s] = "search" /\ j.todo # <<>>
  BY DEF Search
<1>2. /\ Whole /\ Files /\ DOMAIN j = DOMAIN NoJob
      /\ j.todo \in Seq(Int) /\ j.hits \in Seq(Int)
      /\ data[j.table] \in Seq(Row) /\ j.head \in BOOLEAN
      /\ j.table \in InitialTables
      /\ index[<<j.table, "id">>] \in Index /\ (db[s] = None \/ Sound(db[s], data))
      /\ Inserting("search", db[s], j, data) \/ Reading("search", j)
      /\ Tree(s) = index[<<j.table, "id">>]
  BY <1>1, Busy, Named DEF Files
<1>3. Reading("search", j)
  BY <1>2 DEF Inserting
<1>4. PICK offsets \in Found(j.head, leaf, Head(j.todo)) :
        /\ job' = [job EXCEPT ![s].todo = Tail(@), ![s].hits = offsets]
        /\ Go(s, IF offsets = <<>> THEN "search" ELSE "fetch")
  BY <1>2 DEF Search
<1> DEFINE k == [j EXCEPT !.todo = Tail(@), !.hits = offsets]
           next == IF offsets = <<>> THEN "search" ELSE "fetch"
<1>5. /\ job' = [job EXCEPT ![s] = k] /\ pc' = [pc EXCEPT ![s] = next]
      /\ UNCHANGED <<disk, db, deaths>>
  <2>1. UNCHANGED <<disk, db, deaths>>
    BY DEF Search
  <2>2. job' = [job EXCEPT ![s] = k]
    BY <1>4
  <2>3. pc' = [pc EXCEPT ![s] = next]
    BY <1>4 DEF Go
  <2> QED  BY <2>1, <2>2, <2>3
<1>6. offsets \in Seq(Int)
  <2>1. leaf \in Seq(Entry)
    BY <1>2 DEF Index
  <2> QED  BY <2>1, FoundEntries
<1>7. Files' /\ Grows /\ db' = db /\ data' = data
  BY <1>5, FilesStay DEF disk
<1>8. /\ DOMAIN k = DOMAIN NoJob /\ k.op = j.op /\ k.table = j.table /\ k.todo = Tail(j.todo)
      /\ k.field = j.field /\ k.value = j.value /\ k.head = j.head /\ k.hits = offsets
      /\ k.filter = j.filter
  BY <1>2, JobFields
<1> HIDE DEF k
<1>9. Others(s) /\ job'[s] = k /\ pc'[s] = next
  BY <1>2, <1>5, <1>7 DEF Others, Whole
<1>10. /\ Head(j.todo) = j.todo[1] /\ 1 \in 1..Len(j.todo) /\ Head(j.todo) \in Int
       /\ Tail(j.todo) \in Seq(Int) /\ Len(Tail(j.todo)) < Len(j.todo)
       /\ \A i \in 1..Len(Tail(j.todo)) :
            i + 1 \in 1..Len(j.todo) /\ Tail(j.todo)[i] = j.todo[i + 1]
  BY <1>1, <1>2, OneLess
<1>11. ASSUME Unharmed  PROVE Faithful(s)
  <2> DEFINE N == Known(j.table)
             n == Len(data[j.table])
  <2>1. /\ Told("search", j, data, N) /\ Entries(leaf, N)
    BY <1>1, <1>2, <1>11 DEF Unharmed
  <2>2. \/ Comparing(j)
        \/ \A i \in 1..Len(j.todo) : j.todo[i] \in 0..n - 1
    BY <1>3, <2>1 DEF Told, Reading
  <2>3. n \in Nat
    BY <1>2
  <2>4. \A i \in 1..Len(offsets) :
          \/ offsets[i] = NODE_EOF /\ 0 \in N
          \/ offsets[i] = Head(j.todo) /\ offsets[i] \in N
    <3>1. leaf \in Seq(Entry)
      BY <1>2 DEF Index
    <3> DEFINE key == Head(j.todo)  head == j.head
    <3>2. offsets \in Found(head, leaf, key)
      OBVIOUS
    <3> HIDE DEF N, leaf, key, head
    <3>3. \A i \in 1..Len(offsets) :
            \/ offsets[i] = NODE_EOF /\ leaf # <<>>
            \/ \E m \in 1..Len(leaf) : leaf[m].key = key /\ leaf[m].dat = offsets[i]
      BY <3>1, <3>2, FoundEntries
    <3>4. leaf # <<>> => 0 \in N
      <4> SUFFICES ASSUME leaf # <<>>  PROVE 0 \in N
        OBVIOUS
      <4>1. 1 \in 1..Len(leaf)
        BY <3>1, EmptySeq
      <4>2. leaf[1].dat \in N
        BY <2>1, <4>1 DEF Entries
      <4> QED  BY <1>2, <4>2, FirstNumber DEF N
    <3> QED  BY <2>1, <3>3, <3>4 DEF Entries, key
  <2>5. N \subseteq Int
    BY <1>2, FirstNumber
  <2> HIDE DEF N, n
  <2>6. \A i \in 1..Len(offsets) :
          Sought(offsets[i]) < n \/ (Comparing(j) /\ Sought(offsets[i]) \in N)
    <3> TAKE i \in 1..Len(offsets)
    <3>1. CASE offsets[i] = NODE_EOF /\ 0 \in N
      <4>1. Sought(offsets[i]) = 0
        BY <3>1, SoughtNat DEF NODE_EOF
      <4> QED  BY <1>10, <2>2, <2>3, <3>1, <4>1
    <3>2. CASE offsets[i] = Head(j.todo) /\ offsets[i] \in N
      <4>1. CASE Comparing(j)
        BY <1>2, <2>5, <3>2, <4>1, SoughtKnown DEF N
      <4>2. CASE Head(j.todo) \in 0..n - 1
        <5>1. Sought(offsets[i]) = Head(j.todo)
          BY <2>3, <3>2, <4>2, SoughtNat
        <5> QED  BY <2>3, <4>2, <5>1
      <4> QED  BY <1>10, <2>2, <4>1, <4>2
    <3> QED  BY <2>4, <3>1, <3>2
  <2>7. Comparing(j) \/ \A i \in 1..Len(Tail(j.todo)) : Tail(j.todo)[i] \in 0..n - 1
    BY <1>10, <2>2
  <2>8. Told(next, k, data, Known(k.table))
    BY <1>8, <2>6, <2>7 DEF Told, Comparing, N, n
  <2>9. Carries(j, k, data) /\ index' = index
    BY <1>3, <1>5 DEF Carries, Reading, disk
  <2> QED  BY <1>7, <1>9, <1>11, <2>8, <2>9 DEF Faithful, Unharmed
<1> HIDE DEF j
<1>12. Reading(next, k)
  BY <1>3, <1>6, <1>8, <1>10 DEF Reading
<1>13. Session(next, db[s], k, data)
  BY <1>2, <1>6, <1>8, <1>10, <1>12 DEF Session, Positions
<1> QED  BY <1>7, <1>9, <1>13, <1>11 DEF Keeps

(* The rest of the rows is as good as the rows were. *)
LEMMA RestTold ==
  ASSUME NEW p \in {"fetch", "update", "put"}, NEW j, NEW k, NEW rows, NEW numbers,
         j.hits \in Seq(Int), j.hits # <<>>, Told(p, j, rows, numbers),
         k.op = j.op, k.filter = j.filter, k.todo = j.todo, k.table = j.table,
         k.hits = Tail(j.hits), NEW next \in {"search", "fetch"}
  PROVE  Told(next, k, rows, numbers)
<1> DEFINE hits == j.hits
           n == Len(rows[j.table])
<1>1. j.op # "insert" =>
        /\ Comparing(j) \/ \A i \in 1..Len(j.todo) : j.todo[i] \in 0..n - 1
        /\ \A i \in 1..Len(hits) :
             Sought(hits[i]) < n \/ (Comparing(j) /\ Sought(hits[i]) \in numbers)
  BY DEF Told
<1>2. \A i \in 1..Len(Tail(hits)) : i + 1 \in 1..Len(hits) /\ Tail(hits)[i] = hits[i + 1]
  BY OneLess
<1> HIDE DEF hits, n
<1>3. j.op # "insert" => \A i \in 1..Len(Tail(hits)) :
        Sought(Tail(hits)[i]) < n \/ (Comparing(j) /\ Sought(Tail(hits)[i]) \in numbers)
  BY <1>1, <1>2
<1>4. Comparing(k) <=> Comparing(j)
  BY DEF Comparing
<1> QED  BY <1>1, <1>3, <1>4 DEF Told, hits, n

(* A row is read, compared, and kept, marked or passed over. *)
LEMMA FetchKeeps ==
  ASSUME IInv, NEW s \in Sessions, Fetch(s)
  PROVE  /\ Keeps(s) /\ (Unharmed => Faithful(s))
         /\ pc'[s] = "crashed" => PastEnd(job[s].table, Head(job[s].hits))
<1> DEFINE j == job[s]
<1>1. pc[s] = "fetch"
  BY DEF Fetch
<1>2. /\ Whole /\ Files /\ DOMAIN j = DOMAIN NoJob
      /\ j.todo \in Seq(Int) /\ j.hits \in Seq(Int) /\ j.head \in BOOLEAN
      /\ j.table \in InitialTables /\ data[j.table] \in Seq(Row) /\ data[j.table] # Absent
      /\ (db[s] = None \/ Sound(db[s], data))
      /\ Inserting("fetch", db[s], j, data) \/ Reading("fetch", j)
  BY <1>1, Busy
<1>3. Reading("fetch", j) /\ j.hits # <<>>
  BY <1>2 DEF Inserting, Reading
<1>4. CASE Crash(s) /\ PastEnd(j.table, Head(j.hits))
  BY <1>4, <1>3, CrashKeeps DEF Reading
<1> SUFFICES ASSUME ~(Crash(s) /\ PastEnd(j.table, Head(j.hits)))
             PROVE  Keeps(s) /\ (Unharmed => Faithful(s)) /\ pc'[s] # "crashed"
  BY <1>4
<1>5. UNCHANGED <<disk, db, deaths>>
  BY <1>2 DEF Fetch
<1>6. Files' /\ Grows /\ db' = db /\ data' = data
  BY <1>5, FilesStay DEF disk
<1>7. PICK row \in DataSeek(j.table, Head(j.hits)) :
        IF Passes(row, j.filter) /\ j.op # "select"
        THEN /\ job' = [job EXCEPT ![s].row = IF j.op = "update" THEN row ELSE None]
             /\ Go(s, IF j.op = "update" THEN "update" ELSE "load")
        ELSE /\ job' = [job EXCEPT ![s].hits = Tail(@),
                                   ![s].rows = IF Passes(row, j.filter)
                                               THEN Append(@, row) ELSE @]
             /\ NextHit(s)
  BY <1>2 DEF Fetch
<1>8. ASSUME Unharmed
      PROVE  Told("fetch", j, data, Known(j.table))
  BY <1>1, <1>8 DEF Unharmed
<1>9. index' = index
  BY <1>5 DEF disk
<1>10. CASE Passes(row, j.filter) /\ j.op # "select"
  <2> DEFINE new == IF j.op = "update" THEN row ELSE None
             k == [j EXCEPT !.row = new]
             next == IF j.op = "update" THEN "update" ELSE "load"
  <2>1. job' = [job EXCEPT ![s] = k] /\ pc' = [pc EXCEPT ![s] = next]
    BY <1>7, <1>10 DEF Go
  <2>2. row \in Row
    <3>1. Head(j.hits) \in Int
      BY <1>2, <1>3, OneLess
    <3> QED  BY <1>2, <3>1, RowSought
  <2>3. /\ DOMAIN k = DOMAIN NoJob /\ k.op = j.op /\ k.table = j.table /\ k.todo = j.todo
        /\ k.field = j.field /\ k.value = j.value /\ k.head = j.head /\ k.hits = j.hits
        /\ k.row = new /\ k.filter = j.filter
    BY <1>2, JobFields
  <2> HIDE DEF k
  <2>4. Others(s) /\ job'[s] = k /\ pc'[s] = next
    BY <1>2, <1>6, <2>1 DEF Others, Whole
  <2>5. ASSUME Unharmed  PROVE Faithful(s)
    <3>1. Told(next, k, data, Known(k.table))
      BY <1>8, <2>3, <2>5 DEF Told, Comparing
    <3>2. Carries(j, k, data)
      BY <1>3 DEF Carries, Reading
    <3> QED  BY <1>6, <1>9, <2>4, <2>5, <3>1, <3>2 DEF Faithful, Unharmed
  <2> HIDE DEF j
  <2>6. Reading(next, k)
    BY <1>3, <1>10, <2>2, <2>3 DEF Reading
  <2>7. Session(next, db[s], k, data)
    BY <1>2, <2>3, <2>6 DEF Session, Positions
  <2> QED  BY <1>6, <2>4, <2>7, <2>5 DEF Keeps
<1>11. CASE ~(Passes(row, j.filter) /\ j.op # "select")
  <2> DEFINE more == IF Passes(row, j.filter) THEN Append(j.rows, row) ELSE j.rows
             k == [j EXCEPT !.hits = Tail(@), !.rows = more]
             next == IF Len(j.hits) = 1 THEN "search" ELSE "fetch"
  <2>1. job' = [job EXCEPT ![s] = k] /\ pc' = [pc EXCEPT ![s] = next]
    <3>1. job' = [job EXCEPT ![s].hits = Tail(@),
                             ![s].rows = IF Passes(row, j.filter) THEN Append(@, row) ELSE @]
      BY <1>7, <1>11
    <3>2. job' = [job EXCEPT ![s] = k]
      BY <3>1
    <3> QED  BY <1>7, <1>11, <3>2 DEF NextHit, Go
  <2> HIDE DEF more
  <2>2. /\ DOMAIN k = DOMAIN NoJob /\ k.op = j.op /\ k.table = j.table /\ k.todo = j.todo
        /\ k.field = j.field /\ k.value = j.value /\ k.head = j.head
        /\ k.hits = Tail(j.hits) /\ k.filter = j.filter
    BY <1>2, JobFields
  <2> HIDE DEF k
  <2>3. Others(s) /\ job'[s] = k /\ pc'[s] = next
    BY <1>2, <1>6, <2>1 DEF Others, Whole
  <2>4. /\ Tail(j.hits) \in Seq(Int) /\ (Len(j.hits) # 1 => Tail(j.hits) # <<>>)
        /\ Len(Tail(j.hits)) < Len(j.hits)
    BY <1>2, <1>3, OneLess
  <2>5. ASSUME Unharmed  PROVE Faithful(s)
    <3>1. Told("fetch", j, data, Known(j.table))
      BY <1>8, <2>5
    <3>2. Told(next, k, data, Known(k.table))
      BY <1>2, <1>3, <2>2, <3>1, RestTold
    <3>3. Carries(j, k, data)
      BY <1>3 DEF Carries, Reading
    <3> QED  BY <1>6, <1>9, <2>3, <2>5, <3>2, <3>3 DEF Faithful, Unharmed
  <2> HIDE DEF j
  <2>6. Reading(next, k)
    BY <1>3, <2>2, <2>4 DEF Reading
  <2>7. Session(next, db[s], k, data)
    BY <1>2, <2>2, <2>4, <2>6 DEF Session, Positions
  <2> QED  BY <1>6, <2>3, <2>7, <2>5 DEF Keeps
<1> QED  BY <1>10, <1>11

(* DataFlush may write past the end, and then there are more rows. *)
LEMMA UpdateKeeps ==
  ASSUME IInv, NEW s \in Sessions, UpdateRow(s)
  PROVE  Keeps(s) /\ (Unharmed => Faithful(s)) /\ pc'[s] # "crashed"
<1> DEFINE j == job[s]
           t == j.table
           new == [j.row EXCEPT ![j.field] = j.value]
           k == [j EXCEPT !.hits = Tail(@), !.row = None]
           next == IF Len(j.hits) = 1 THEN "search" ELSE "fetch"
           rows == data'
<1>1. pc[s] = "update"
  BY DEF UpdateRow
<1>2. /\ Whole /\ Files /\ DOMAIN j = DOMAIN NoJob
      /\ j.todo \in Seq(Int) /\ j.hits \in Seq(Int) /\ j.head \in BOOLEAN
      /\ t \in InitialTables /\ t \in Tables /\ data[t] \in Seq(Row)
      /\ (db[s] = None \/ Sound(db[s], data))
      /\ Inserting("update", db[s], j, data) \/ Reading("update", j)
  BY <1>1, Busy
<1>3. /\ Reading("update", j) /\ j.hits # <<>>
      /\ j.row \in Row /\ j.field # None /\ j.value \in Values
  BY <1>2 DEF Inserting, Reading
<1>4. /\ data' = [data EXCEPT ![t] = DataFlush(data[t], Head(j.hits), new)]
      /\ job' = [job EXCEPT ![s] = k] /\ pc' = [pc EXCEPT ![s] = next]
      /\ UNCHANGED <<dir, dbInfo, index, stray, db, deaths>>
  <2>1. /\ data' = [data EXCEPT ![t] = DataFlush(@, Head(j.hits), new)]
        /\ job' = [job EXCEPT ![s].hits = Tail(@), ![s].row = None]
        /\ NextHit(s)
        /\ UNCHANGED <<dir, dbInfo, index, stray, db, deaths>>
    BY <1>2, <1>3, AbsentAssumption DEF UpdateRow
  <2>2. job' = [job EXCEPT ![s] = k]
    BY <2>1
  <2> QED  BY <2>1, <2>2 DEF NextHit, Go
<1>5. new \in Row
  BY <1>3 DEF Row
<1>6. /\ Head(j.hits) \in Int /\ Tail(j.hits) \in Seq(Int)
      /\ (Len(j.hits) # 1 => Tail(j.hits) # <<>>) /\ Len(Tail(j.hits)) < Len(j.hits)
  BY <1>2, <1>3, OneLess
<1> DEFINE flushed == DataFlush(data[t], Head(j.hits), new)
<1>7. flushed \in Seq(Row) /\ Len(flushed) >= Len(data[t])
  <2> HIDE DEF new
  <2> QED  BY <1>2, <1>5, <1>6, FlushRows
<1> HIDE DEF flushed
<1>8. rows = [data EXCEPT ![t] = flushed]
  BY <1>4 DEF flushed
<1>9. rows \in [Tables -> Seq(Row) \cup {Absent}]
  BY <1>2, <1>7, <1>8 DEF Files
<1>10. \A u \in InitialTables : /\ data[u] \in Seq(Row) /\ rows[u] \in Seq(Row)
                                /\ Len(rows[u]) >= Len(data[u])
  <2> TAKE u \in InitialTables
  <2>1. data[u] \in Seq(Row) /\ u \in Tables
    BY <1>2, TablesAssumption DEF Files
  <2>2. Len(data[u]) \in Nat
    BY <2>1
  <2>3. rows[u] = IF u = t THEN flushed ELSE data[u]
    BY <1>2, <1>8, <2>1 DEF Files
  <2> QED  BY <1>7, <2>1, <2>2, <2>3
<1> HIDE DEF rows
<1>11. dbInfo \in {Absent, Torn} \/ Sound(dbInfo, rows)
  BY <1>2, <1>10, SoundStays DEF Files
<1>12. db[s] = None \/ Sound(db[s], rows)
  BY <1>2, <1>10, SoundStays
<1>13. Files' /\ Grows
  <2>1. Files'
    BY <1>2, <1>4, <1>9, <1>10, <1>11 DEF Files, rows
  <2> QED  BY <2>1, <1>10 DEF Grows, rows
<1>14. /\ DOMAIN k = DOMAIN NoJob /\ k.op = j.op /\ k.table = j.table /\ k.todo = j.todo
       /\ k.field = j.field /\ k.value = j.value /\ k.head = j.head
       /\ k.hits = Tail(j.hits) /\ k.filter = j.filter
  BY <1>2, JobFields
<1> HIDE DEF k
<1>15. Others(s) /\ job'[s] = k /\ pc'[s] = next /\ db'[s] = db[s]
  BY <1>2, <1>4 DEF Others, Whole
<1>16. ASSUME Unharmed  PROVE Faithful(s)
  <2> DEFINE N == Known(j.table)
  <2>1. Told("update", j, data, N)
    BY <1>1, <1>16 DEF Unharmed
  <2> HIDE DEF N
  <2>2. Told("update", j, rows, N)
    BY <1>2, <1>10, <2>1, ToldStays
  <2>3. Told(next, k, rows, N)
    BY <1>2, <1>3, <1>14, <2>2, RestTold
  <2>4. Told(next, k, rows, Known(k.table))
    BY <1>14, <2>3 DEF N
  <2>5. Carries(j, k, rows) /\ index' = index
    BY <1>3, <1>4 DEF Carries, Reading
  <2> QED  BY <1>15, <1>16, <2>4, <2>5 DEF Faithful, Unharmed, rows
<1> HIDE DEF j
<1>17. Reading(next, k)
  BY <1>3, <1>6, <1>14 DEF Reading, j
<1>18. Session(next, db[s], k, rows)
  BY <1>2, <1>6, <1>12, <1>14, <1>17 DEF Session, Positions
<1> QED  BY <1>13, <1>15, <1>18, <1>16 DEF Keeps, rows

(* The leaf goes back with the entries of a deleted row marked. *)
LEMMA PutDeletedKeeps ==
  ASSUME IInv, NEW s \in Sessions, PutDeleted(s)
  PROVE  Keeps(s) /\ (Unharmed => Faithful(s)) /\ pc'[s] # "crashed"
<1> DEFINE j == job[s]
           i == <<j.table, "id">>
           leaf == BptreeDelete(j.leaf, Head(j.hits))
           new == IF j.leaf = <<>> THEN index[i] ELSE [index[i] EXCEPT !.leaf = leaf]
           k == [j EXCEPT !.hits = Tail(@), !.leaf = <<>>]
           next == IF Len(j.hits) = 1 THEN "search" ELSE "fetch"
<1>1. pc[s] = "put" /\ j.op = "delete"
  BY DEF PutDeleted
<1>2. /\ Whole /\ Files /\ DOMAIN j = DOMAIN NoJob
      /\ j.todo \in Seq(Int) /\ j.hits \in Seq(Int) /\ j.head \in BOOLEAN
      /\ j.table \in InitialTables /\ i \in Tables \X Fields /\ index[i] \in Index
      /\ (db[s] = None \/ Sound(db[s], data))
      /\ Inserting("put", db[s], j, data) \/ Reading("put", j)
  BY <1>1, Busy
<1>3. /\ Reading("put", j) /\ j.hits # <<>> /\ j.leaf \in Seq(Entry)
  BY <1>1, <1>2 DEF Inserting, Reading
<1>4. /\ index' = [index EXCEPT ![i] = new]
      /\ job' = [job EXCEPT ![s] = k] /\ pc' = [pc EXCEPT ![s] = next]
      /\ UNCHANGED <<dir, dbInfo, data, stray, db, deaths>>
  <2>1. /\ job' = [job EXCEPT ![s].hits = Tail(@), ![s].leaf = <<>>]
        /\ NextHit(s)
        /\ UNCHANGED <<dir, dbInfo, data, db, deaths>>
    BY DEF PutDeleted
  <2>2. job' = [job EXCEPT ![s] = k]
    BY <2>1
  <2>3. Tree(s) = index[i] /\ Held(pc[s], j) = i /\ Files
    BY <1>1, Busy, Named DEF Files
  <2>4. PutTree(s, new)
    BY <2>3 DEF PutDeleted
  <2> HIDE DEF new
  <2>5. index' = [index EXCEPT ![i] = new] /\ stray' = stray
    <3>1. stray = [o \in Sessions |-> NoStray]
      BY <2>3 DEF Files
    <3> QED  BY <2>3, <2>4, <3>1, NamedTree
  <2> QED  BY <2>1, <2>2, <2>5 DEF NextHit, Go
<1>5. new \in Index
  <2>1. leaf \in Seq(Entry)
    BY <1>3, DeleteEntries
  <2> HIDE DEF leaf
  <2> QED  BY <1>2, <2>1 DEF Index
<1>6. Files' /\ Grows
  <2> HIDE DEF new, i
  <2> QED  BY <1>2, <1>4, <1>5, IndexWritten
<1>7. /\ Tail(j.hits) \in Seq(Int) /\ (Len(j.hits) # 1 => Tail(j.hits) # <<>>)
      /\ Len(Tail(j.hits)) < Len(j.hits)
  BY <1>2, <1>3, OneLess
<1>8. /\ DOMAIN k = DOMAIN NoJob /\ k.op = j.op /\ k.table = j.table /\ k.todo = j.todo
      /\ k.field = j.field /\ k.value = j.value /\ k.head = j.head
      /\ k.hits = Tail(j.hits) /\ k.filter = j.filter
  BY <1>2, JobFields
<1> HIDE DEF k
<1>9. Others(s) /\ job'[s] = k /\ pc'[s] = next /\ db' = db /\ data' = data
  BY <1>2, <1>4 DEF Others, Whole
<1>10. ASSUME Unharmed  PROVE Faithful(s)
  <2> DEFINE N == Known(j.table)
  <2>1. Told("put", j, data, N)
    BY <1>1, <1>10 DEF Unharmed
  <2>2. Told(next, k, data, Known(k.table))
    <3> HIDE DEF N
    <3>1. Told(next, k, data, N)
      BY <1>2, <1>3, <1>8, <2>1, RestTold
    <3> QED  BY <1>8, <3>1 DEF N
  <2>3. Entries(leaf, N)
    <3>1. /\ Len(leaf) = Len(j.leaf)
          /\ \A m \in 1..Len(j.leaf) : leaf[m].key = j.leaf[m].key /\ leaf[m].dat = j.leaf[m].dat
      BY <1>3, DeleteEntries
    <3>2. Entries(j.leaf, N)
      BY <2>1 DEF Told
    <3> HIDE DEF N, leaf
    <3> QED  BY <3>1, <3>2 DEF Entries
  <2>4. ASSUME NEW t \in InitialTables
        PROVE  Entries(index'[<<t, "id">>].leaf, Known(t))
    <3>1. CASE t = j.table
      <4>1. index'[i] = new
        BY <1>2, <1>4 DEF Files
      <4>2. j.leaf = <<>> => new = index[i]
        OBVIOUS
      <4>3. j.leaf # <<>> => new.leaf = leaf
        BY <1>2 DEF Index
      <4> HIDE DEF new
      <4> QED  BY <1>2, <1>10, <2>3, <3>1, <4>1, <4>2, <4>3 DEF Unharmed
    <3>2. CASE t # j.table
      <4>1. index'[<<t, "id">>] = index[<<t, "id">>]
        BY <1>2, <1>4, <3>2, Columns, TablesAssumption DEF Files
      <4> QED  BY <1>10, <4>1 DEF Unharmed
    <3> QED  BY <3>1, <3>2
  <2>5. Carries(j, k, data)
    BY <1>1 DEF Carries
  <2> QED  BY <1>9, <2>2, <2>4, <2>5 DEF Faithful
<1> HIDE DEF j
<1>11. Reading(next, k)
  BY <1>3, <1>7, <1>8 DEF Reading, j
<1>12. Session(next, db[s], k, data)
  BY <1>2, <1>7, <1>8, <1>11 DEF Session, Positions
<1> QED  BY <1>6, <1>9, <1>12, <1>10 DEF Keeps

(* A statement that ran out of work returns. *)
LEMMA AnswerKeeps ==
  ASSUME IInv, NEW s \in Sessions, Answer(s)
  PROVE  Keeps(s) /\ (Unharmed => Faithful(s)) /\ pc'[s] # "crashed"
<1> DEFINE j == job[s]
<1>1. pc[s] = "search"
  BY DEF Answer
<1>2. /\ Whole /\ Files
      /\ j.todo \in Seq(Int) /\ j.hits \in Seq(Int)
      /\ j.head \in BOOLEAN /\ <<j.table, "id">> \in Tables \X Fields
      /\ index[<<j.table, "id">>] \in Index /\ (db[s] = None \/ Sound(db[s], data))
      /\ Inserting("search", db[s], j, data) \/ Reading("search", j)
      /\ Held("search", j) = <<j.table, "id">> /\ Tree(s) = index[<<j.table, "id">>]
  BY <1>1, Busy, Named DEF Files
<1> DEFINE closed == [index[<<j.table, "id">>] EXCEPT !.root = j.head]
<1>3. /\ index' = [index EXCEPT ![<<j.table, "id">>] = closed]
      /\ job' = [job EXCEPT ![s] = NoJob] /\ pc' = [pc EXCEPT ![s] = "idle"]
      /\ UNCHANGED <<dir, dbInfo, data, stray, db, deaths>>
  <2>1. CloseTree(s, closed)
    BY <1>2 DEF Answer, CloseBptree
  <2> HIDE DEF closed
  <2>2. index' = [index EXCEPT ![<<j.table, "id">>] = closed] /\ stray' = stray
    <3>1. stray = [o \in Sessions |-> NoStray] /\ Held(pc[s], j) = <<j.table, "id">>
      BY <1>1, <1>2, Busy DEF Files
    <3> QED  BY <2>1, <3>1, NamedTree
  <2> QED  BY <2>2 DEF Answer, Go
<1>4. /\ Files' /\ Grows
      /\ \A t \in InitialTables : index'[<<t, "id">>].leaf = index[<<t, "id">>].leaf
  BY <1>2, <1>3, HeaderWritten
<1>5. Others(s) /\ job'[s] = NoJob /\ pc'[s] = "idle" /\ db'[s] = db[s] /\ data' = data
  BY <1>2, <1>3 DEF Others, Whole
<1>6. Session("idle", db[s], NoJob, data)
  BY <1>2, NoJobFields DEF Session, Positions
<1>7. ASSUME Unharmed  PROVE Faithful(s)
  <2>1. Carries(j, NoJob, data)
    BY <1>2 DEF Carries, Inserting, Reading
  <2> QED  BY <1>4, <1>5, <1>7, <2>1 DEF Faithful, Unharmed
<1> QED  BY <1>4, <1>5, <1>6, <1>7 DEF Keeps

-----------------------------------------------------------------------------
(* The instances these theorems are about: no statement on the catalog,    *)
(* and UPDATE sets a column there is.                                      *)
Rows == Ops \subseteq RowStatements /\ None \notin SetFields

(* A statement that begins keeps the invariant, and kills nobody. *)
LEMMA StatementKeeps ==
  ASSUME Rows, IInv, NEW s \in Sessions, Statement(s)
  PROVE  Keeps(s) /\ (Unharmed => Faithful(s)) /\ pc[s] = "idle" /\ deaths' = deaths
<1>1. \A op : Begins(s, op) => pc[s] = "idle" /\ op \in RowStatements
  BY DEF Begins, Rows
<1>2. CASE ManagerUseDatabase(s)
  BY <1>1, <1>2, UseKeeps DEF ManagerUseDatabase, Crash
<1>3. CASE \E t \in Tables, given \in [Fields \ {"id"} -> Values \cup {None}] :
             ManagerInsert(s, t, given)
  BY <1>1, <1>3, InsertKeeps DEF ManagerInsert, Crash
<1>4. CASE \E t \in Tables, list \in Clauses : ManagerSelect(s, t, list)
  <2>1. PICK t \in Tables, list \in Clauses : Query(s, "select", t, list, None, None)
    BY <1>4 DEF ManagerSelect
  <2>2. Keeps(s) /\ (Unharmed => Faithful(s))
    BY <2>1, QueryKeeps
  <2> QED  BY <1>1, <2>1, <2>2 DEF Query
<1>5. CASE \E t \in Tables, list \in Clauses : ManagerDelete(s, t, list)
  <2>1. PICK t \in Tables, list \in Clauses : Query(s, "delete", t, list, None, None)
    BY <1>5 DEF ManagerDelete
  <2>2. Keeps(s) /\ (Unharmed => Faithful(s))
    BY <2>1, QueryKeeps
  <2> QED  BY <1>1, <2>1, <2>2 DEF Query
<1>6. CASE \E t \in Tables, list \in Clauses, field \in SetFields, value \in Values :
             ManagerUpdate(s, t, list, field, value)
  <2>1. PICK t \in Tables, list \in Clauses, field \in SetFields, value \in Values :
          Query(s, "update", t, list, field, value)
    BY <1>6 DEF ManagerUpdate
  <2>2. field # None
    BY DEF Rows
  <2>3. Keeps(s) /\ (Unharmed => Faithful(s))
    BY <2>1, <2>2, QueryKeeps
  <2> QED  BY <1>1, <2>1, <2>3 DEF Query
<1>7. /\ ~Begins(s, "create database") /\ ~Begins(s, "drop database")
      /\ ~Begins(s, "create table") /\ ~Begins(s, "drop table")
      /\ ~Begins(s, "create index") /\ ~Begins(s, "drop index")
  <2>1. /\ "create database" \notin RowStatements /\ "drop database" \notin RowStatements
        /\ "create table" \notin RowStatements /\ "drop table" \notin RowStatements
        /\ "create index" \notin RowStatements /\ "drop index" \notin RowStatements
    BY DEF RowStatements
  <2> QED  BY <1>1, <2>1
<1>8. \A t \in Tables : ~ManagerCreateTable(s, t) /\ ~ManagerDropTable(s, t)
  BY <1>7 DEF ManagerCreateTable, ManagerDropTable
<1>9. ~ManagerCreateDatabase(s) /\ ~ManagerDropDatabase(s)
  BY <1>7 DEF ManagerCreateDatabase, ManagerDropDatabase
<1>10. \A t \in Tables, f \in Fields : ~ManagerCreateIndex(s, t, f) /\ ~ManagerDropIndex(s, t, f)
  BY <1>7 DEF ManagerCreateIndex, ManagerDropIndex
<1> QED  BY <1>2, <1>3, <1>4, <1>5, <1>6, <1>8, <1>9, <1>10 DEF Statement

(* A statement on rows makes no file and removes none. *)
LEMMA RowStep ==
  ASSUME IInv, NEW s \in Sessions
  PROVE  ~MakeIndex(s) /\ ~RemoveFile(s) /\ ~SeekRow(s) /\ ~PutIndexed(s)
<1>1. pc[s] \notin {"idle", "crashed"} =>
        Inserting(pc[s], db[s], job[s], data) \/ Reading(pc[s], job[s])
  BY DEF IInv, Session
<1>2. pc[s] \notin {"make", "remove", "seek"} /\ (pc[s] = "put" => job[s].op # "create index")
  BY <1>1 DEF Inserting, Reading
<1> QED  BY <1>2 DEF MakeIndex, RemoveFile, SeekRow, PutIndexed

(* Every step of a statement keeps the invariant; one can be the last. *)
LEMMA StepKeeps ==
  ASSUME IInv, NEW s \in Sessions, Step(s)
  PROVE  /\ Keeps(s) /\ (Unharmed => Faithful(s)) /\ deaths' = deaths
         /\ pc'[s] = "crashed" =>
              pc[s] = "fetch" /\ PastEnd(job[s].table, Head(job[s].hits))
<1>1. CASE Fetch(s)
  <2>1. pc[s] = "fetch" /\ deaths' = deaths
    BY <1>1 DEF Fetch, Crash
  <2> QED  BY <1>1, <2>1, FetchKeeps
<1>2. CASE ~Fetch(s)
  <2>1. \/ OpenIndex(s) \/ Load(s) \/ PutInserted(s) \/ AppendRow(s) \/ FlushOpen(s)
        \/ FlushClose(s) \/ OpenUse(s) \/ Probe(s) \/ Search(s) \/ UpdateRow(s)
        \/ PutDeleted(s) \/ Answer(s)
    BY <1>2, RowStep DEF Step
  <2>2. Keeps(s) /\ (Unharmed => Faithful(s)) /\ pc'[s] # "crashed"
    BY <2>1, OpenKeeps, LoadKeeps, PutInsertedKeeps, AppendKeeps, FlushOpenKeeps,
       FlushCloseKeeps, ProbeKeeps, SearchKeeps, UpdateKeeps, PutDeletedKeeps, AnswerKeeps
  <2>3. deaths' = deaths
    BY <2>1 DEF OpenIndex, OpenUse, OpenBptree, Load, PutInserted, AppendRow, FlushOpen,
           FlushClose, Probe, Search, UpdateRow, PutDeleted, Answer, Crash
  <2> QED  BY <2>2, <2>3
<1> QED  BY <1>1, <1>2

(* Whether somebody has been killed is kept. *)
Deaths == deaths \in Seq({"flush", "elsewhere"})

(* At first nobody has been killed. *)
LEMMA InitDeaths == Init => Deaths /\ deaths = <<>>
<1>1. <<>> \in Seq({"flush", "elsewhere"})
  OBVIOUS
<1> QED  BY <1>1 DEF Init, Deaths

(* A kill is recorded, and a record is never empty. *)
LEMMA KillDeaths ==
  ASSUME Deaths, NEW s, Kill(s)
  PROVE  Deaths' /\ deaths' # deaths /\ deaths' # <<>>
<1> DEFINE cause == IF pc[s] \in {"remove", "truncate", "write"} THEN "flush" ELSE "elsewhere"
           causes == {"flush", "elsewhere"}
           new == Append(deaths, cause)
<1>1. deaths' = new
  BY DEF Kill
<1>2. cause \in causes /\ deaths \in Seq(causes)
  BY DEF Deaths
<1> HIDE DEF cause, causes
<1>3. new \in Seq(causes) /\ Len(new) = Len(deaths) + 1 /\ Len(deaths) \in Nat
  BY <1>2
<1> HIDE DEF new
<1>4. new # deaths /\ new # <<>>
  <2>1. Len(new) # Len(deaths) /\ Len(new) # 0
    BY <1>3
  <2> QED  BY <1>3, <2>1, EmptySeq
<1> QED  BY <1>1, <1>3, <1>4 DEF Deaths, causes

(* What the step of a session does, all at once. *)
LEMMA NextKeeps ==
  ASSUME Rows, IInv, Deaths, NEW s \in Sessions, Statement(s) \/ Step(s) \/ Kill(s) \/ Connect(s)
  PROVE  /\ Keeps(s) /\ Deaths' /\ (Unharmed => Faithful(s))
         /\ deaths' = <<>> => deaths = <<>>
         /\ \/ pc[s] \in {"idle", "crashed"} \/ pc'[s] # "crashed" \/ deaths' # deaths
            \/ pc[s] = "fetch" /\ PastEnd(job[s].table, Head(job[s].hits))
<1>1. CASE Statement(s)
  BY <1>1, StatementKeeps DEF Deaths
<1>2. CASE Step(s)
  BY <1>2, StepKeeps DEF Deaths
<1>3. CASE Connect(s)
  BY <1>3, ConnectKeeps DEF Deaths
<1>4. CASE Kill(s)
  BY <1>4, KillKeeps, KillDeaths
<1> QED  BY <1>1, <1>2, <1>3, <1>4

(* The invariants and the record. *)
RowsInv == IInv /\ Deaths /\ Unharmed

(* They hold at the start, where the indexes are empty. *)
LEMMA InitRows == Init => RowsInv
<1> SUFFICES ASSUME Init  PROVE RowsInv
  OBVIOUS
<1>1. Len(EmptyIndex.leaf) = 0
  BY DEF EmptyIndex
<1>2. ASSUME NEW t \in InitialTables
      PROVE  Entries(index[<<t, "id">>].leaf, Known(t))
  <2>1. <<t, "id">> \in Tables \X Fields
    BY Columns, TablesAssumption
  <2>2. index[<<t, "id">>] = EmptyIndex
    BY <2>1 DEF Init
  <2> QED  BY <1>1, <2>2 DEF Entries
<1>3. Unharmed
  BY <1>2 DEF Unharmed, Init
<1> QED  BY <1>3, InitIInv, InitDeaths DEF RowsInv

(* And every step of every session keeps them. *)
LEMMA NextRows ==
  ASSUME Rows, RowsInv, [Next]_vars
  PROVE  RowsInv'
<1>1. CASE Next
  <2>1. PICK s \in Sessions : Statement(s) \/ Step(s) \/ Kill(s) \/ Connect(s)
    BY <1>1 DEF Next
  <2>2. Keeps(s) /\ Deaths' /\ Faithful(s) /\ (deaths' = <<>> => deaths = <<>>)
    BY <2>1, NextKeeps DEF RowsInv
  <2> QED  BY <2>2, KeepsIInv, KeepsUnharmed DEF RowsInv
<1>2. CASE UNCHANGED vars
  <2>1. /\ dir' = dir /\ dbInfo' = dbInfo /\ data' = data /\ index' = index /\ stray' = stray
        /\ db' = db /\ pc' = pc /\ job' = job /\ deaths' = deaths
    BY <1>2 DEF vars, disk
  <2>2. IInv'
    BY <2>1 DEF RowsInv, IInv, Whole, Files
  <2>3. Unharmed' /\ Deaths'
    BY <2>1 DEF RowsInv, Unharmed, Known, Deaths
  <2> QED  BY <2>2, <2>3 DEF RowsInv
<1> QED  BY <1>1, <1>2

(***************************************************************************)
(* The invariant, for every number of sessions and tables, every kill and  *)
(* every interleaving of the statements of manager.c on rows.              *)
(***************************************************************************)
THEOREM Invariance ==
  ASSUME Rows
  PROVE  Spec => []RowsInv
<1>1. RowsInv /\ [Next]_vars => RowsInv'
  BY NextRows
<1> QED  BY <1>1, InitRows, PTL DEF Spec

(***************************************************************************)
(* No copy of the catalog ever counts a row that is not in the data, not   *)
(* even while DatabaseInfoFlush overwrites newer catalogs with older ones. *)
(***************************************************************************)
THEOREM CountsHaveRows ==
  ASSUME Rows
  PROVE  Spec => []CountBehindRows
<1>1. ASSUME NEW cat, Sound(cat, data), NEW t, Slots(cat, t) # {}
      PROVE  Info(cat, t).dataNum <= Len(data[t])
  <2>1. Slot(cat, t) \in 1..Len(cat.tables) /\ Info(cat, t).name = t
    BY <1>1, SlotFound DEF Sound
  <2> QED  BY <1>1, <2>1 DEF Sound, Info
<1>2. RowsInv => CountBehindRows
  BY <1>1 DEF RowsInv, IInv, Files, Session, CountBehindRows, Has
<1> QED  BY <1>2, Invariance, PTL

(* A row number an entry may name: of a row there is, or about to be. *)
LEMMA NumbersMeaning ==
  ASSUME NEW t, data[t] \in Seq(Row), deaths = <<>>, NEW n \in Known(t)
  PROVE  n < Len(data[t]) \/ Pending(t, n)
<1>1. n \in Numbers(data, job, t)
  BY DEF Known
<1>2. Len(data[t]) \in Nat
  OBVIOUS
<1>3. CASE n \in 0..Len(data[t]) - 1
  BY <1>2, <1>3
<1>4. CASE \E s \in Carriers(job, t) : n = job[s].row["id"]
  BY <1>4 DEF Carriers, Pending
<1> QED  BY <1>1, <1>3, <1>4 DEF Numbers

(***************************************************************************)
(* Until a session is killed every entry of an id.index names a row of the *)
(* data or the row of an INSERT that has not appended it yet: neither a    *)
(* DELETE that writes an older leaf back nor two INSERTs that share an id  *)
(* leave an entry for a row that will never be.                            *)
(***************************************************************************)
THEOREM EntriesNameRows ==
  ASSUME Rows, InitialTables = Tables
  PROVE  Spec => []EntriesHaveRows
<1>1. ASSUME RowsInv  PROVE EntriesHaveRows
  <2> SUFFICES ASSUME deaths = <<>>, NEW t \in Tables, NEW i \in DOMAIN index[<<t, "id">>].leaf
               PROVE  LET offset == index[<<t, "id">>].leaf[i].dat
                      IN  offset < Len(data[t]) \/ Pending(t, offset)
    BY DEF EntriesHaveRows
  <2> DEFINE leaf == index[<<t, "id">>].leaf
  <2>1. leaf \in Seq(Entry) /\ data[t] \in Seq(Row)
    BY <1>1 DEF RowsInv, IInv, Files, Index
  <2>2. Entries(leaf, Known(t))
    BY <1>1 DEF RowsInv, Unharmed
  <2>3. leaf[i].dat \in Known(t)
    BY <2>1, <2>2 DEF Entries
  <2> HIDE DEF leaf
  <2>4. leaf[i].dat < Len(data[t]) \/ Pending(t, leaf[i].dat)
    BY <2>1, <2>3, NumbersMeaning
  <2> QED  BY <2>4 DEF leaf
<1> QED  BY <1>1, Invariance, PTL

(* A row past the end is read by a lookup, and if nobody was killed before *)
(* the INSERT that indexed it is still under way.                          *)
LEMMA FetchEarly ==
  ASSUME RowsInv, NEW s \in Sessions, pc[s] = "fetch", PastEnd(job[s].table, Head(job[s].hits))
  PROVE  Early(job[s])
<1> DEFINE j == job[s]
           sought == Sought(Head(j.hits))
<1>1. /\ j.table \in InitialTables /\ j.hits \in Seq(Int) /\ data[j.table] \in Seq(Row)
      /\ Inserting("fetch", db[s], j, data) \/ Reading("fetch", j)
  BY Busy DEF RowsInv
<1>2. j.hits # <<>> /\ j.op # "insert"
  BY <1>1 DEF Inserting, Reading
<1>3. Head(j.hits) = j.hits[1] /\ 1 \in 1..Len(j.hits) /\ Head(j.hits) \in Int
  BY <1>1, <1>2, OneLess
<1>4. Told("fetch", j, data, Known(j.table))
  BY DEF RowsInv, Unharmed
<1>5. \/ sought < Len(data[j.table])
      \/ Comparing(j) /\ sought \in Known(j.table)
  BY <1>2, <1>3, <1>4 DEF Told
<1>6. ~(sought < Len(data[j.table]))
  <2>1. sought \in Nat /\ Place(Head(j.hits)) = sought + 1
    BY <1>3, SoughtNat DEF Sought, Place
  <2>2. Len(data[j.table]) \in Nat /\ DOMAIN data[j.table] = 1..Len(data[j.table])
    BY <1>1
  <2>3. sought + 1 \notin 1..Len(data[j.table])
    BY <2>1, <2>2 DEF PastEnd
  <2> QED  BY <2>1, <2>2, <2>3
<1> HIDE DEF sought
<1>7. deaths = <<>> => Pending(j.table, sought)
  BY <1>1, <1>5, <1>6, NumbersMeaning
<1> QED  BY <1>5, <1>6, <1>7 DEF Early, Comparing, Sought, sought

(***************************************************************************)
(* A scan never reads past the end of the data, whatever the others insert *)
(* and delete meanwhile and whoever was killed; a lookup by id does only   *)
(* where it finds the entry of a row that is not in yet, or never will be. *)
(***************************************************************************)
THEOREM ScansReadInside ==
  ASSUME Rows
  PROVE  Spec => []ReadsInside
<1>1. RowsInv => ReadsInside
  BY FetchEarly DEF ReadsInside
<1> QED  BY <1>1, Invariance, PTL

(***************************************************************************)
(* With the strcpy of a row that fread did not fill taken for what it is,  *)
(* a possible crash, and with kills: in any number of sessions that        *)
(* INSERT, SELECT, UPDATE and DELETE, no INSERT and no scan is ever        *)
(* brought down between its steps by what the others have half done.       *)
(***************************************************************************)
THEOREM SessionsSurvive ==
  ASSUME Rows
  PROVE  Spec => StepsSurvive
<1> DEFINE Survives == \A s \in Sessions :
             pc[s] \notin {"idle", "crashed"} /\ pc'[s] = "crashed" /\ deaths' = deaths =>
               pc[s] = "fetch" /\ Early(job[s])
<1>1. ASSUME RowsInv, Next  PROVE Survives
  <2>1. PICK s \in Sessions : Statement(s) \/ Step(s) \/ Kill(s) \/ Connect(s)
    BY <1>1 DEF Next
  <2>2. /\ Keeps(s)
        /\ \/ pc[s] \in {"idle", "crashed"} \/ pc'[s] # "crashed" \/ deaths' # deaths
           \/ pc[s] = "fetch" /\ PastEnd(job[s].table, Head(job[s].hits))
    BY <1>1, <2>1, NextKeeps DEF RowsInv
  <2>3. \A o \in Sessions \ {s} : pc'[o] = pc[o]
    BY <2>2 DEF Keeps, Others
  <2> QED  BY <1>1, <2>2, <2>3, FetchEarly
<1>2. RowsInv /\ [Next]_vars => [Survives]_vars
  BY <1>1
<1> QED  BY <1>2, Invariance, PTL DEF Spec, StepsSurvive
-----------------------------------------------------------------------------
(***************************************************************************)
(* All eleven statements, in any number of sessions.  A file that is taken *)
(* away stays behind for the session that has it open, and a session that  *)
(* finds one missing dies before it uses it.                               *)
(***************************************************************************)
AllFiles ==
  /\ dir \in BOOLEAN
  /\ dbInfo \in Database \cup {Absent, Torn}
  /\ data \in [Tables -> Seq(Row) \cup {Absent}]
  /\ index \in [Tables \X Fields -> Index \cup {Absent}]
  /\ stray \in [Sessions -> [tree : Index \cup {None}, out : BOOLEAN]]

(* Where a session is not working on the files of a table. *)
Outside == {"idle", "crashed", "truncate", "write"}

(* INSERT has a row for a table of its catalog. *)
Storing(p, cat, j) ==
  /\ j.op = "insert"
  /\ p \in {"open", "load", "put", "append"}
  /\ cat # None /\ Slots(cat, j.table) # {}
  /\ j.row \in Row
  /\ p # "append" => j.todo # <<>>
  /\ p = "put" => j.leaf \in Seq(Entry)

(* SELECT, UPDATE and DELETE have keys to look up and rows to read. *)
Looking(p, j) ==
  /\ j.op \in {"select", "update", "delete"}
  /\ p \in {"open use", "probe", "open", "search", "fetch", "update", "load", "put"}
  /\ p \in {"open use", "probe"} => j.use \in Fields
  /\ p \in {"fetch", "update", "load", "put"} => j.hits # <<>>
  /\ p = "update" => j.op = "update" /\ j.row \in Row
  /\ p \in {"load", "put"} => j.op = "delete"
  /\ p = "put" => j.leaf \in Seq(Entry)
  /\ j.op = "update" => j.value \in Values

(* CREATE INDEX has rows to read and to enter. *)
Building(p, cat, j) ==
  /\ j.op = "create index"
  /\ p \in {"seek", "open", "load", "put"}
  /\ cat \in Database
  /\ j.field \in Fields /\ j.todo # <<>>
  /\ p # "seek" => j.row \in Row
  /\ p = "put" => j.leaf \in Seq(Entry)

(* CREATE TABLE has the index to make, DROP TABLE has files to remove. *)
Making(p, cat, j) == j.op = "create table" /\ p = "make" /\ cat \in Database

Removing(p, cat, j) ==
  /\ j.op = "drop table" /\ p = "remove"
  /\ cat \in Database /\ Slots(cat, j.table) # {} /\ j.todo # <<>>

(* What a session has open is there, under its name or without one. *)
Backing(p, j, rows, trees, st) ==
  /\ p \in Holding => st.tree # None \/ trees[Held(p, j)] # Absent
  /\ Appending(p, j) => st.out \/ rows[j.table] # Absent

(* What a session holds, between statements and inside one. *)
Client(p, cat, j, rows, trees, st) ==
  /\ DOMAIN j = DOMAIN NoJob /\ j.head \in BOOLEAN
  /\ j.todo \in Seq(Int) /\ j.hits \in Seq(Int)
  /\ p \in Positions
  /\ cat = None \/ cat \in Database
  /\ p \in {"idle", "crashed"} => j = NoJob
  /\ p \in {"truncate", "write"} => cat \in Database
  /\ p \notin Outside =>
       /\ j.table \in Tables
       /\ \/ Storing(p, cat, j)
          \/ Looking(p, j)
          \/ Building(p, cat, j)
          \/ Making(p, cat, j)
          \/ Removing(p, cat, j)
  /\ Backing(p, j, rows, trees, st)

(* The invariant of the eleven statements. *)
Typed ==
  Whole /\ AllFiles /\ \A s \in Sessions : Client(pc[s], db[s], job[s], data, index, stray[s])

(* What there is of a table stays. *)
Stays(t, rows, trees, newRows, newTrees) ==
  /\ rows[t] # Absent => newRows[t] # Absent
  /\ \A f \in Fields : trees[<<t, f>>] # Absent => newTrees[<<t, f>>] # Absent

(* A step of s takes from the statement of no other session what that has open. *)
Spares(s) ==
  \A o \in Sessions \ {s} : Backing(pc[o], job[o], data', index', stray'[o])

(* What a step of session s does for it. *)
Serves(s) ==
  /\ Others(s) /\ AllFiles' /\ Spares(s)
  /\ Client(pc'[s], db'[s], job'[s], data', index', stray'[s])

(***************************************************************************)
(* The files and the catalogs of one session, as long as it is alone: what *)
(* its copy and dbInfo list is there, a table once.                        *)
(***************************************************************************)
InFiles(info, rows, trees) ==
  info.name # Junk =>
    /\ rows[info.name] # Absent
    /\ info.dataNum <= Len(rows[info.name])
    /\ \A f \in info.indexed : trees[<<info.name, f>>] # Absent

(* Only junk has a name more than once. *)
Once(tables) ==
  \A i, k \in 1..Len(tables) :
    tables[i].name = tables[k].name /\ tables[i].name # Junk => i = k

(* A catalog that can be believed. *)
Honest(cat, rows, trees) ==
  /\ cat \in Database /\ Once(cat.tables)
  /\ \A i \in 1..Len(cat.tables) : InFiles(cat.tables[i], rows, trees)

(* There are none. *)
NoFiles(rows, trees) ==
  (\A t \in Tables : rows[t] = Absent) /\ \A i \in Tables \X Fields : trees[i] = Absent

(* While dbInfo is due it may list what is gone. *)
Flushing == {"remove", "truncate", "write"}

(* A catalog without the entry of a table, and one that does not list it. *)
Left(cat, t) == [cat EXCEPT !.tables = RemoveAt(@, Slot(cat, t))]

Unlisted(cat, t) ==
  \A i \in 1..Len(cat.tables) : cat.tables[i].name # t \/ cat.tables[i].name = Junk

(* Every table in dbInfo is in the copy. *)
Covers(info, cat) == \A t \in Tables : Slots(cat, t) = {} => Slots(info, t) = {}

Orderly(d, p, cat, j, info, rows, trees) ==
  /\ ~d => NoFiles(rows, trees)
  /\ d => /\ p \notin Flushing => Honest(info, rows, trees)
          /\ p \notin Flushing => cat = None \/ (Honest(cat, rows, trees) /\ Covers(info, cat))
          /\ p \in {"truncate", "write"} => Honest(cat, rows, trees)
          /\ p = "remove" => /\ Honest(Left(cat, j.table), rows, trees)
                             /\ Unlisted(Left(cat, j.table), j.table)
          /\ p = "make" => Slots(cat, j.table) = {} /\ rows[j.table] # Absent

(* A step of s, with no other session there, leaves things as orderly as they were. *)
Tidies(s) ==
  stray[s] = NoStray /\ Orderly(dir, pc[s], db[s], job[s], dbInfo, data, index) =>
    stray'[s] = NoStray /\ Orderly(dir', pc'[s], db'[s], job'[s], dbInfo', data', index')

(* And it leaves less to do. *)
Turn(p) == IF p \in {"open use", "probe"} THEN 1 ELSE 0

Measure(p, j) == <<Turn(p), Len(j.todo), Len(j.hits), Rank[p]>>

Advances(s) == Less(Measure(pc'[s], job'[s]), Measure(pc[s], job[s]))

-----------------------------------------------------------------------------
(* Less work, told by the first number that differs. *)
LEMMA LessWork ==
  ASSUME NEW p, NEW j, NEW q, NEW k,
         \/ Turn(q) < Turn(p)
         \/ Turn(q) = Turn(p) /\ Len(k.todo) < Len(j.todo)
         \/ Turn(q) = Turn(p) /\ Len(k.todo) = Len(j.todo) /\ Len(k.hits) < Len(j.hits)
         \/ /\ Turn(q) = Turn(p) /\ Len(k.todo) = Len(j.todo) /\ Len(k.hits) = Len(j.hits)
            /\ Rank[q] < Rank[p]
  PROVE  Less(Measure(q, k), Measure(p, j))
<1> DEFINE a == Measure(q, k)
           b == Measure(p, j)
<1>1. /\ DOMAIN a = 1..4
      /\ a[1] = Turn(q) /\ a[2] = Len(k.todo) /\ a[3] = Len(k.hits) /\ a[4] = Rank[q]
      /\ b[1] = Turn(p) /\ b[2] = Len(j.todo) /\ b[3] = Len(j.hits) /\ b[4] = Rank[p]
  BY DEF Measure
<1> HIDE DEF a, b
<1>2. \/ a[1] < b[1]
      \/ a[1] = b[1] /\ a[2] < b[2]
      \/ a[1] = b[1] /\ a[2] = b[2] /\ a[3] < b[3]
      \/ a[1] = b[1] /\ a[2] = b[2] /\ a[3] = b[3] /\ a[4] < b[4]
  BY <1>1
<1>3. \E i \in 1..4 : a[i] < b[i] /\ \A n \in 1..i - 1 : a[n] = b[n]
  <2>1. CASE a[1] < b[1]
    <3> WITNESS 1 \in 1..4
    <3> QED  BY <2>1
  <2>2. CASE a[1] = b[1] /\ a[2] < b[2]
    <3> WITNESS 2 \in 1..4
    <3>1. \A n \in 1..2 - 1 : n = 1
      OBVIOUS
    <3> QED  BY <2>2, <3>1
  <2>3. CASE a[1] = b[1] /\ a[2] = b[2] /\ a[3] < b[3]
    <3> WITNESS 3 \in 1..4
    <3>1. \A n \in 1..3 - 1 : n = 1 \/ n = 2
      OBVIOUS
    <3> QED  BY <2>3, <3>1
  <2>4. CASE a[1] = b[1] /\ a[2] = b[2] /\ a[3] = b[3] /\ a[4] < b[4]
    <3> WITNESS 4 \in 1..4
    <3>1. \A n \in 1..4 - 1 : n = 1 \/ n = 2 \/ n = 3
      OBVIOUS
    <3> QED  BY <2>4, <3>1
  <2> QED  BY <1>2, <2>1, <2>2, <2>3, <2>4
<1> QED  BY <1>1, <1>3 DEF Less, a, b

(* A session without a statement has nothing to do. *)
LEMMA NothingLeft ==
  ASSUME NEW p, NEW j, NEW q \in {"idle", "crashed"},
         j.todo \in Seq(Int), j.hits \in Seq(Int), Rank[q] < Rank[p]
  PROVE  Less(Measure(q, NoJob), Measure(p, j))
<1>1. Len(j.todo) \in Nat /\ Len(j.hits) \in Nat
  OBVIOUS
<1>2. Len(NoJob.todo) = 0 /\ Len(NoJob.hits) = 0
  BY NoJobFields
<1>3. Turn(q) = Turn(p) \/ Turn(q) < Turn(p)
  <2>1. Turn(q) = 0
    BY DEF Turn
  <2>2. Turn(p) = 0 \/ Turn(p) = 1
    BY DEF Turn
  <2>3. 0 < 1
    OBVIOUS
  <2> QED  BY <2>1, <2>2, <2>3
<1>4. \/ Len(NoJob.todo) < Len(j.todo)
      \/ Len(NoJob.todo) = Len(j.todo) /\ Len(NoJob.hits) < Len(j.hits)
      \/ Len(NoJob.todo) = Len(j.todo) /\ Len(NoJob.hits) = Len(j.hits)
  BY <1>1, <1>2
<1> QED  BY <1>3, <1>4, LessWork

(* The steps that leave the keys and rows to do alone. *)
LEMMA Ranks ==
  /\ Rank["load"] < Rank["open"] /\ Rank["search"] < Rank["open"]
  /\ Rank["probe"] < Rank["open use"] /\ Rank["put"] < Rank["load"]
  /\ Rank["truncate"] < Rank["append"] /\ Rank["write"] < Rank["truncate"]
  /\ Rank["idle"] < Rank["write"] /\ Rank["idle"] < Rank["search"]
  /\ Rank["update"] < Rank["fetch"] /\ Rank["load"] < Rank["fetch"]
  /\ Rank["truncate"] < Rank["make"] /\ Rank["open"] < Rank["seek"]
  /\ \A p \in Positions \ {"idle", "crashed"} : Rank["crashed"] < Rank[p]
<1>1. /\ Rank["probe"] = 1 /\ Rank["open use"] = 2 /\ Rank["write"] = 1 /\ Rank["truncate"] = 2
      /\ Rank["append"] = 3 /\ Rank["put"] = 4 /\ Rank["update"] = 4 /\ Rank["search"] = 4
      /\ Rank["load"] = 5 /\ Rank["fetch"] = 6 /\ Rank["open"] = 7 /\ Rank["idle"] = 0
      /\ Rank["make"] = 3 /\ Rank["remove"] = 3 /\ Rank["seek"] = 8
  BY DEF Rank, Positions
<1>2. 5 < 7 /\ 4 < 7 /\ 1 < 2 /\ 4 < 5 /\ 2 < 3 /\ 0 < 1 /\ 0 < 4 /\ 4 < 6 /\ 5 < 6 /\ 2 < 3 /\ 7 < 8
  OBVIOUS
<1>3. ASSUME NEW p \in Positions \ {"idle", "crashed"}  PROVE Rank[p] \in 1..8
  <2>1. p \in {"truncate", "write", "open", "load", "put", "append", "open use", "probe",
                "search", "fetch", "update", "make", "remove", "seek"}
    BY DEF Positions
  <2>2. Rank[p] \in {1, 2, 3, 4, 5, 6, 7, 8}
    BY <1>1, <2>1
  <2> QED  BY <2>2
<1>4. Rank["crashed"] = 0
  BY DEF Rank, Positions
<1>5. \A p \in Positions \ {"idle", "crashed"} : Rank["crashed"] < Rank[p]
  BY <1>3, <1>4
<1> QED  BY <1>1, <1>2, <1>5

(* A statement does not notice steps that leave it what it has open. *)
LEMMA ClientStays ==
  ASSUME NEW p, NEW cat, NEW j, NEW rows, NEW trees, NEW st, NEW newRows, NEW newTrees, NEW newSt,
         Client(p, cat, j, rows, trees, st), Backing(p, j, newRows, newTrees, newSt)
  PROVE  Client(p, cat, j, newRows, newTrees, newSt)
BY DEF Client

(* A step that serves its session and spares the others keeps the types. *)
LEMMA ServesTyped ==
  ASSUME Typed, NEW s \in Sessions, Serves(s)
  PROVE  Typed'
<1>1. Whole' /\ AllFiles'
  BY DEF Serves, Others
<1>2. ASSUME NEW o \in Sessions  PROVE Client(pc'[o], db'[o], job'[o], data', index', stray'[o])
  <2>1. CASE o = s
    BY <2>1 DEF Serves
  <2>2. CASE o # s
    <3>1. pc'[o] = pc[o] /\ db'[o] = db[o] /\ job'[o] = job[o]
      BY <2>2 DEF Serves, Others
    <3>2. /\ Client(pc[o], db[o], job[o], data, index, stray[o])
          /\ Backing(pc[o], job[o], data', index', stray'[o])
      BY <2>2 DEF Typed, Serves, Spares
    <3>3. Client(pc[o], db[o], job[o], data', index', stray'[o])
      BY <3>2, ClientStays
    <3> QED  BY <3>1, <3>3
  <2> QED  BY <2>1, <2>2
<1> QED  BY <1>1, <1>2 DEF Typed

(* A session in the middle of a statement. *)
LEMMA Working ==
  ASSUME Typed, NEW s \in Sessions
  PROVE  LET j == job[s]
         IN  /\ Whole /\ AllFiles
             /\ DOMAIN j = DOMAIN NoJob /\ j.head \in BOOLEAN
             /\ j.todo \in Seq(Int) /\ j.hits \in Seq(Int)
             /\ pc[s] \in Positions /\ (db[s] = None \/ db[s] \in Database)
             /\ pc[s] \in {"idle", "crashed"} => j = NoJob
             /\ pc[s] \in {"truncate", "write"} => db[s] \in Database
             /\ pc[s] \notin Outside =>
                  /\ j.table \in Tables
                  /\ \A f \in Fields : <<j.table, f>> \in Tables \X Fields
                  /\ \/ Storing(pc[s], db[s], j)
                     \/ Looking(pc[s], j)
                     \/ Building(pc[s], db[s], j)
                     \/ Making(pc[s], db[s], j)
                     \/ Removing(pc[s], db[s], j)
             /\ Backing(pc[s], j, data, index, stray[s])
<1>1. Whole /\ AllFiles /\ Client(pc[s], db[s], job[s], data, index, stray[s])
  BY DEF Typed
<1> QED  BY <1>1 DEF Client

(* The index that a session opens or has open is one of a column. *)
LEMMA HeldColumn ==
  ASSUME Typed, NEW s \in Sessions, pc[s] \in Holding \cup {"open", "open use"}
  PROVE  Held(pc[s], job[s]) \in Tables \X Fields
<1> DEFINE j == job[s]
<1>1. /\ j.table \in Tables
      /\ \/ Storing(pc[s], db[s], j) \/ Looking(pc[s], j) \/ Building(pc[s], db[s], j)
         \/ Making(pc[s], db[s], j) \/ Removing(pc[s], db[s], j)
  BY Working DEF Outside, Holding
<1>2. "id" \in Fields
  BY Columns
<1>3. pc[s] \in {"open use", "probe"} => j.use \in Fields
  BY <1>1 DEF Storing, Looking, Building, Making, Removing
<1>4. j.op = "create index" => j.field \in Fields
  BY <1>1 DEF Storing, Looking, Building, Making, Removing
<1> QED  BY <1>1, <1>2, <1>3, <1>4 DEF Held

(* And there is an index to read. *)
LEMMA TreeThere ==
  ASSUME Typed, NEW s \in Sessions, pc[s] \in Holding
  PROVE  /\ Held(pc[s], job[s]) \in Tables \X Fields
         /\ Tree(s) \in Index
         /\ stray[s].tree = None => index[Held(pc[s], job[s])] # Absent
<1>1. Held(pc[s], job[s]) \in Tables \X Fields
  BY HeldColumn
<1>2. AllFiles /\ Backing(pc[s], job[s], data, index, stray[s])
  BY Working
<1>3. stray[s].tree \in Index \cup {None}
  BY <1>2 DEF AllFiles
<1>4. stray[s].tree = None => index[Held(pc[s], job[s])] # Absent
  BY <1>2 DEF Backing
<1>5. index[Held(pc[s], job[s])] \in Index \cup {Absent}
  BY <1>1, <1>2 DEF AllFiles
<1> QED  BY <1>1, <1>3, <1>4, <1>5 DEF Tree

(* A catalog stays true while data and indexes only grow. *)
LEMMA HonestStays ==
  ASSUME NEW cat, NEW rows, NEW trees, NEW newRows, NEW newTrees,
         Honest(cat, rows, trees),
         \A t \in Tables : Stays(t, rows, trees, newRows, newTrees),
         \A t \in Tables : rows[t] # Absent => Len(newRows[t]) >= Len(rows[t]),
         rows \in [Tables -> Seq(Row) \cup {Absent}],
         newRows \in [Tables -> Seq(Row) \cup {Absent}]
  PROVE  Honest(cat, newRows, newTrees)
<1> SUFFICES ASSUME NEW i \in 1..Len(cat.tables), cat.tables[i].name # Junk
             PROVE  LET info == cat.tables[i]
                    IN  /\ newRows[info.name] # Absent
                        /\ info.dataNum <= Len(newRows[info.name])
                        /\ \A f \in info.indexed : newTrees[<<info.name, f>>] # Absent
  BY DEF Honest, InFiles
<1> DEFINE info == cat.tables[i]
<1>1. cat.tables \in Seq(Table)
  BY DEF Honest, Database
<1>2. info \in Table
  BY <1>1, ElementOfSeq
<1>3. info.name \in Tables /\ info.dataNum \in Nat /\ info.indexed \subseteq Fields
  BY <1>2 DEF Table
<1>4. /\ rows[info.name] # Absent /\ info.dataNum <= Len(rows[info.name])
      /\ \A f \in info.indexed : trees[<<info.name, f>>] # Absent
  BY DEF Honest, InFiles
<1> HIDE DEF info
<1>5. Stays(info.name, rows, trees, newRows, newTrees) /\ newRows[info.name] # Absent
  BY <1>3, <1>4 DEF Stays
<1>6. rows[info.name] \in Seq(Row) /\ newRows[info.name] \in Seq(Row)
  BY <1>3, <1>4, <1>5
<1>7. Len(rows[info.name]) \in Nat /\ Len(newRows[info.name]) \in Nat
  BY <1>6
<1>8. info.dataNum <= Len(newRows[info.name])
  BY <1>3, <1>4, <1>7
<1>9. \A f \in info.indexed : newTrees[<<info.name, f>>] # Absent
  BY <1>3, <1>4, <1>5 DEF Stays
<1> QED  BY <1>5, <1>8, <1>9 DEF info

(* The rows and indexes of a step that only adds, and leaves the others' files alone. *)
Adds(s) ==
  /\ \A t \in Tables : /\ Stays(t, data, index, data', index')
                       /\ data[t] # Absent => Len(data'[t]) >= Len(data[t])
  /\ \A o \in Sessions \ {s} : stray'[o] = stray[o]
  /\ stray[s] = NoStray => stray'[s] = NoStray

(* Nothing is added where there is no directory. *)
Grounded == dir \/ UNCHANGED <<data, index>> \/ ~NoFiles(data, index)

(* A step that only adds, and leaves the catalogs and the directory alone. *)
LEMMA AddsTidies ==
  ASSUME Typed, AllFiles', NEW s \in Sessions, Adds(s), Grounded,
         dir' = dir, dbInfo' = dbInfo, db'[s] = db[s] \/ db'[s] = None,
         pc[s] \notin Flushing, pc'[s] \notin {"remove", "make", "write"},
         pc'[s] = "truncate" => db[s] \in Database /\ db'[s] = db[s]
  PROVE  Tidies(s)
<1> SUFFICES ASSUME stray[s] = NoStray, Orderly(dir, pc[s], db[s], job[s], dbInfo, data, index)
             PROVE  /\ stray'[s] = NoStray
                    /\ Orderly(dir', pc'[s], db'[s], job'[s], dbInfo', data', index')
  BY DEF Tidies
<1>1. stray'[s] = NoStray
  BY DEF Adds
<1>2. CASE ~dir
  <2>1. NoFiles(data, index)
    BY <1>2 DEF Orderly
  <2>2. data' = data /\ index' = index
    BY <1>2, <2>1 DEF Grounded
  <2>3. NoFiles(data', index')
    BY <2>1, <2>2
  <2> QED  BY <1>1, <1>2, <2>3 DEF Orderly
<1>3. CASE dir
  <2>1. /\ \A t \in Tables : Stays(t, data, index, data', index')
        /\ \A t \in Tables : data[t] # Absent => Len(data'[t]) >= Len(data[t])
        /\ data \in [Tables -> Seq(Row) \cup {Absent}]
        /\ data' \in [Tables -> Seq(Row) \cup {Absent}]
    BY DEF Adds, Typed, AllFiles
  <2>2. \A cat : Honest(cat, data, index) => Honest(cat, data', index')
    BY <2>1, HonestStays
  <2>3. /\ Honest(dbInfo, data, index)
        /\ db[s] = None \/ (Honest(db[s], data, index) /\ Covers(dbInfo, db[s]))
    BY <1>3 DEF Orderly
  <2>4. /\ Honest(dbInfo', data', index')
        /\ db'[s] = None \/ (Honest(db'[s], data', index') /\ Covers(dbInfo', db'[s]))
    BY <2>2, <2>3
  <2>5. pc'[s] = "truncate" => Honest(db'[s], data', index')
    BY <2>4, AbsentAssumption
  <2> HIDE DEF Honest, Left, Unlisted, Covers
  <2> QED  BY <1>1, <1>3, <2>4, <2>5 DEF Orderly, Flushing
<1> QED  BY <1>2, <1>3

(* Such a step spares the others. *)
LEMMA AddsSpares ==
  ASSUME Typed, NEW s \in Sessions, Adds(s)
  PROVE  Spares(s)
<1> SUFFICES ASSUME NEW o \in Sessions \ {s}
             PROVE  Backing(pc[o], job[o], data', index', stray'[o])
  BY DEF Spares
<1>1. Backing(pc[o], job[o], data, index, stray[o]) /\ stray'[o] = stray[o]
  BY Working DEF Adds
<1>2. ASSUME pc[o] \in Holding, index[Held(pc[o], job[o])] # Absent
      PROVE  index'[Held(pc[o], job[o])] # Absent
  <2> DEFINE i == Held(pc[o], job[o])
  <2>1. i \in Tables \X Fields
    BY <1>2, HeldColumn
  <2> HIDE DEF i
  <2>2. PICK t \in Tables, f \in Fields : i = <<t, f>>
    BY <2>1
  <2> QED  BY <1>2, <2>2 DEF Adds, Stays, i
<1>3. ASSUME Appending(pc[o], job[o]), data[job[o].table] # Absent
      PROVE  data'[job[o].table] # Absent
  <2>1. job[o].table \in Tables
    BY <1>3, Working DEF Appending, Outside
  <2> QED  BY <1>3, <2>1 DEF Adds, Stays
<1> QED  BY <1>1, <1>2, <1>3 DEF Backing

(* A step that writes no file adds nothing. *)
LEMMA SameAdds ==
  ASSUME Typed, NEW s \in Sessions, data' = data, index' = index,
         \A o \in Sessions \ {s} : stray'[o] = stray[o],
         stray[s] = NoStray => stray'[s] = NoStray
  PROVE  Adds(s) /\ Grounded
<1> SUFFICES ASSUME NEW t \in Tables, data[t] # Absent
             PROVE  Len(data[t]) >= Len(data[t])
  BY DEF Adds, Grounded, Stays
<1>1. data[t] \in Seq(Row)
  BY DEF Typed, AllFiles
<1>2. Len(data[t]) \in Nat
  BY <1>1
<1> QED  BY <1>2

(* All files as they were. *)
LEMMA DiskStays ==
  ASSUME Typed, UNCHANGED disk, NEW s \in Sessions
  PROVE  /\ AllFiles' /\ Adds(s) /\ Grounded /\ Spares(s)
         /\ UNCHANGED <<dir, dbInfo, data, index, stray>>
<1>1. AllFiles' /\ UNCHANGED <<dir, dbInfo, data, index, stray>>
  BY DEF Typed, AllFiles, disk
<1>2. Adds(s) /\ Grounded
  BY <1>1, SameAdds
<1> QED  BY <1>1, <1>2, AddsSpares

(* A step that only adds, by a session that is not writing its catalog. *)
LEMMA AddsServes ==
  ASSUME Typed, NEW s \in Sessions, AllFiles', Adds(s), Grounded, dir' = dir, dbInfo' = dbInfo,
         Others(s), Client(pc'[s], db'[s], job'[s], data', index', stray'[s]),
         db'[s] = db[s] \/ db'[s] = None, pc[s] \notin Flushing,
         pc'[s] \notin {"remove", "make", "write"},
         pc'[s] = "truncate" => db[s] \in Database /\ db'[s] = db[s]
  PROVE  Serves(s) /\ Tidies(s)
<1>1. Spares(s)
  BY AddsSpares
<1>2. Tidies(s)
  BY AddsTidies
<1> QED  BY <1>1, <1>2 DEF Serves

(* What a session writes to the file that it has open. *)
LEMMA StrayTree ==
  ASSUME AllFiles, NEW s \in Sessions, NEW new \in Index,
         PutTree(s, new) \/ CloseTree(s, new)
  PROVE  /\ stray' \in [Sessions -> [tree : Index \cup {None}, out : BOOLEAN]]
         /\ \A o \in Sessions \ {s} : stray'[o] = stray[o]
         /\ stray[s] = NoStray => stray'[s] = NoStray
         /\ stray'[s].out = stray[s].out
         /\ stray[s].tree # None => index' = index
         /\ stray[s].tree = None => index' = [index EXCEPT ![Held(pc[s], job[s])] = new]
         /\ PutTree(s, new) /\ stray[s].tree # None => stray'[s].tree # None
<1>1. stray[s] \in [tree : Index \cup {None}, out : BOOLEAN]
  BY DEF AllFiles
<1>2. \/ stray' = stray
      \/ stray' = [stray EXCEPT ![s].tree = None]
      \/ stray[s].tree # None /\ stray' = [stray EXCEPT ![s].tree = new]
  BY DEF PutTree, CloseTree
<1>3. stray' \in [Sessions -> [tree : Index \cup {None}, out : BOOLEAN]]
  BY <1>1, <1>2 DEF AllFiles
<1>4. /\ \A o \in Sessions \ {s} : stray'[o] = stray[o]
      /\ stray'[s].out = stray[s].out
  BY <1>1, <1>2 DEF AllFiles
<1>5. ASSUME stray[s] = NoStray  PROVE stray'[s] = NoStray
  <2>1. NoStray \in [tree : {None}, out : BOOLEAN] /\ NoStray.tree = None
    BY DEF NoStray
  <2>2. [NoStray EXCEPT !.tree = None] = NoStray
    BY ONLY <2>1
  <2>3. stray' = stray \/ stray' = [stray EXCEPT ![s].tree = None]
    BY <1>2, <1>5, <2>1
  <2>4. stray' = stray \/ stray'[s] = [stray[s] EXCEPT !.tree = None]
    BY <2>3 DEF AllFiles
  <2> QED  BY <1>5, <2>2, <2>4
<1>6. /\ stray[s].tree # None => index' = index
      /\ stray[s].tree = None => index' = [index EXCEPT ![Held(pc[s], job[s])] = new]
  BY DEF PutTree, CloseTree
<1>7. ASSUME PutTree(s, new), stray[s].tree # None  PROVE stray'[s].tree # None
  <2>1. stray' = [stray EXCEPT ![s].tree = new] /\ new # None
    BY <1>7, AbsentAssumption DEF PutTree
  <2>2. stray'[s].tree = new
    BY <1>1, <2>1 DEF AllFiles
  <2> QED  BY <2>1, <2>2
<1> QED  BY <1>3, <1>4, <1>5, <1>6, <1>7

(* An index that a session has open is written. *)
LEMMA TreeWritten ==
  ASSUME Typed, NEW s \in Sessions, pc[s] \in Holding, NEW new \in Index,
         PutTree(s, new) \/ CloseTree(s, new), UNCHANGED <<dir, dbInfo, data>>
  PROVE  /\ AllFiles' /\ Adds(s) /\ Grounded
         /\ stray'[s].out = stray[s].out
         /\ PutTree(s, new) => stray'[s].tree # None \/ index'[Held(pc[s], job[s])] # Absent
<1> DEFINE i == Held(pc[s], job[s])
<1>1. i \in Tables \X Fields /\ (stray[s].tree = None => index[i] # Absent)
  BY TreeThere
<1>2. AllFiles
  BY DEF Typed
<1>3. /\ stray' \in [Sessions -> [tree : Index \cup {None}, out : BOOLEAN]]
      /\ \A o \in Sessions \ {s} : stray'[o] = stray[o]
      /\ stray[s] = NoStray => stray'[s] = NoStray
      /\ stray'[s].out = stray[s].out
      /\ stray[s].tree # None => index' = index
      /\ stray[s].tree = None => index' = [index EXCEPT ![i] = new]
      /\ PutTree(s, new) /\ stray[s].tree # None => stray'[s].tree # None
  BY <1>2, StrayTree
<1> HIDE DEF i
<1>4. AllFiles'
  BY <1>2, <1>3 DEF AllFiles
<1>5. \A k \in Tables \X Fields : index[k] # Absent => index'[k] # Absent
  BY <1>2, <1>3, AbsentAssumption DEF AllFiles
<1>6. stray[s].tree = None => index'[i] # Absent
  BY <1>1, <1>5
<1>7. Grounded
  BY <1>1, <1>3 DEF Grounded, NoFiles
<1>8. ASSUME NEW t \in Tables
      PROVE  /\ Stays(t, data, index, data', index')
             /\ data[t] # Absent => Len(data'[t]) >= Len(data[t])
  <2>1. \A f \in Fields : <<t, f>> \in Tables \X Fields
    OBVIOUS
  <2>2. data[t] # Absent => Len(data[t]) \in Nat
    BY <1>2 DEF AllFiles
  <2> QED  BY <1>5, <2>1, <2>2 DEF Stays
<1>9. Adds(s)
  BY <1>3, <1>8 DEF Adds
<1> QED  BY <1>3, <1>4, <1>6, <1>7, <1>9 DEF i

(* Data gets no shorter, and is not made where there is no directory. *)
LEMMA DataGrows ==
  ASSUME Typed, NEW s \in Sessions, NEW t \in Tables, dir \/ data[t] # Absent,
         NEW rows \in Seq(Row), data[t] # Absent => Len(rows) >= Len(data[t]),
         data' = [data EXCEPT ![t] = rows], UNCHANGED <<dir, dbInfo, index>>,
         stray' \in [Sessions -> [tree : Index \cup {None}, out : BOOLEAN]],
         \A o \in Sessions \ {s} : stray'[o] = stray[o],
         stray[s] = NoStray => stray'[s] = NoStray
  PROVE  AllFiles' /\ Adds(s) /\ Grounded
<1>1. AllFiles
  BY DEF Typed
<1>2. data' \in [Tables -> Seq(Row) \cup {Absent}]
  BY <1>1 DEF AllFiles
<1>3. AllFiles'
  BY <1>1, <1>2 DEF AllFiles
<1>4. Grounded
  BY DEF Grounded, NoFiles
<1>5. ASSUME NEW u \in Tables
      PROVE  /\ Stays(u, data, index, data', index')
             /\ data[u] # Absent => Len(data'[u]) >= Len(data[u])
  <2>1. data[u] # Absent => Len(data[u]) \in Nat
    BY <1>1 DEF AllFiles
  <2>2. data'[u] = IF u = t THEN rows ELSE data[u]
    BY <1>1 DEF AllFiles
  <2>3. rows # Absent
    BY AbsentAssumption
  <2> QED  BY <2>1, <2>2, <2>3 DEF Stays
<1> QED  BY <1>3, <1>4, <1>5 DEF Adds

(* A session that stops has no file open. *)
LEMMA Stopped ==
  ASSUME Typed, NEW s \in Sessions, NEW p, Stop(s, p), db' = db
  PROVE  /\ Others(s) /\ pc'[s] = p /\ job'[s] = NoJob /\ db'[s] = db[s]
         /\ stray' \in [Sessions -> [tree : Index \cup {None}, out : BOOLEAN]]
         /\ \A o \in Sessions \ {s} : stray'[o] = stray[o]
         /\ stray'[s] = NoStray
<1>1. Whole /\ AllFiles
  BY DEF Typed
<1>2. /\ pc' = [pc EXCEPT ![s] = p] /\ job' = [job EXCEPT ![s] = NoJob]
      /\ stray' = [stray EXCEPT ![s] = NoStray]
  BY DEF Stop, Go
<1>3. NoStray \in [tree : Index \cup {None}, out : BOOLEAN]
  BY DEF NoStray
<1>4. Others(s) /\ pc'[s] = p /\ job'[s] = NoJob
  BY <1>1, <1>2 DEF Others, Whole
<1> QED  BY <1>1, <1>2, <1>3, <1>4 DEF AllFiles

(* A process that dies in a call, or for want of a directory. *)
LEMMA CrashServes ==
  ASSUME Typed, NEW s \in Sessions, Crash(s), pc[s] \in Flushing => ~dir
  PROVE  Serves(s) /\ Tidies(s) /\ (pc[s] \notin {"idle", "crashed"} => Advances(s))
<1>1. Stop(s, "crashed") /\ UNCHANGED <<dir, dbInfo, data, index, db, deaths>>
  BY DEF Crash
<1>2. /\ Others(s) /\ pc'[s] = "crashed" /\ job'[s] = NoJob /\ db'[s] = db[s]
      /\ stray' \in [Sessions -> [tree : Index \cup {None}, out : BOOLEAN]]
      /\ \A o \in Sessions \ {s} : stray'[o] = stray[o]
      /\ stray'[s] = NoStray
  BY <1>1, Stopped
<1>3. AllFiles' /\ Adds(s) /\ Grounded
  <2>1. AllFiles'
    BY <1>1, <1>2 DEF Typed, AllFiles
  <2> QED  BY <1>1, <1>2, <2>1, SameAdds
<1>4. /\ Whole /\ job[s].todo \in Seq(Int) /\ job[s].hits \in Seq(Int)
      /\ pc[s] \in Positions /\ (db[s] = None \/ db[s] \in Database)
  BY Working
<1>5. Client("crashed", db[s], NoJob, data', index', stray'[s])
  BY <1>4, NoJobFields DEF Client, Positions, Outside, Backing, Holding, Appending
<1>6. Serves(s)
  BY <1>2, <1>3, <1>5, AddsSpares DEF Serves
<1>7. Tidies(s)
  <2>1. CASE ~dir
    BY <1>1, <1>2, <2>1 DEF Tidies, Orderly
  <2>2. CASE dir
    BY <1>1, <1>2, <1>3, <2>2, AddsTidies DEF Flushing
  <2> QED  BY <2>1, <2>2
<1>8. pc[s] \notin {"idle", "crashed"} => Advances(s)
  <2> SUFFICES ASSUME pc[s] \notin {"idle", "crashed"}  PROVE Advances(s)
    OBVIOUS
  <2>1. Rank["crashed"] < Rank[pc[s]]
    BY <1>4, Ranks
  <2>2. Less(Measure("crashed", NoJob), Measure(pc[s], job[s]))
    BY <1>4, <2>1, NothingLeft
  <2> QED  BY <1>2, <2>2 DEF Advances
<1> QED  BY <1>6, <1>7, <1>8

(* An index is opened, or is not there. *)
LEMMA OpenServes ==
  ASSUME Typed, NEW s \in Sessions, OpenIndex(s) \/ OpenUse(s)
  PROVE  Serves(s) /\ Tidies(s) /\ Advances(s)
<1> DEFINE j == job[s]
           i == Held(pc[s], j)
           root == index[i].root
           k == [j EXCEPT !.head = root]
           next == IF pc[s] = "open use" THEN "probe"
                   ELSE IF j.op \in {"insert", "create index"} THEN "load" ELSE "search"
<1>1. pc[s] \in {"open", "open use"}
  BY DEF OpenIndex, OpenUse
<1>2. /\ Whole /\ AllFiles /\ DOMAIN j = DOMAIN NoJob
      /\ j.todo \in Seq(Int) /\ j.hits \in Seq(Int) /\ j.table \in Tables
      /\ (db[s] = None \/ db[s] \in Database)
      /\ \/ Storing(pc[s], db[s], j) \/ Looking(pc[s], j) \/ Building(pc[s], db[s], j)
         \/ Making(pc[s], db[s], j) \/ Removing(pc[s], db[s], j)
      /\ Backing(pc[s], j, data, index, stray[s])
  BY <1>1, Working DEF Outside
<1>3. i \in Tables \X Fields
  BY <1>1, HeldColumn
<1>4. \/ /\ index[i] # Absent
         /\ job' = [job EXCEPT ![s] = k] /\ pc' = [pc EXCEPT ![s] = next]
         /\ UNCHANGED <<disk, db, deaths>>
      \/ Crash(s)
  <2>1. CASE OpenIndex(s)
    BY <2>1 DEF OpenIndex, OpenBptree, Go
  <2>2. CASE OpenUse(s)
    BY <2>2 DEF OpenUse, OpenBptree, Go
  <2> QED  BY <2>1, <2>2
<1>5. CASE Crash(s)
  BY <1>1, <1>5, CrashServes DEF Flushing
<1>6. CASE /\ index[i] # Absent
           /\ job' = [job EXCEPT ![s] = k] /\ pc' = [pc EXCEPT ![s] = next]
           /\ UNCHANGED <<disk, db, deaths>>
  <2>1. root \in BOOLEAN
    BY <1>2, <1>3, <1>6 DEF AllFiles, Index
  <2>2. /\ DOMAIN k = DOMAIN NoJob /\ k.op = j.op /\ k.table = j.table /\ k.row = j.row
        /\ k.todo = j.todo /\ k.hits = j.hits /\ k.use = j.use /\ k.field = j.field
        /\ k.value = j.value /\ k.leaf = j.leaf /\ k.head = root /\ k.filter = j.filter
    BY <1>2, JobFields
  <2> HIDE DEF k, root
  <2>3. Held(next, k) = i
    BY <1>1, <2>2 DEF Held, next
  <2>4. Appending(next, k) => Appending(pc[s], j)
    BY <1>1, <2>2 DEF Appending, next
  <2> HIDE DEF next, i
  <2>5. Others(s) /\ job'[s] = k /\ pc'[s] = next /\ db'[s] = db[s]
    BY <1>2, <1>6 DEF Others, Whole
  <2>6. next \in Positions /\ next \in Holding /\ next \notin Outside
        /\ next \notin {"remove", "make", "write", "truncate"}
    BY DEF next, Positions, Holding, Outside
  <2>7. Advances(s)
    <3>1. \/ pc[s] = "open use" /\ next = "probe"
          \/ pc[s] = "open" /\ next \in {"load", "search"}
      BY <1>1 DEF next
    <3>2. Rank[next] < Rank[pc[s]] /\ Turn(next) = Turn(pc[s])
      <4>1. Rank[next] < Rank[pc[s]]
        BY <3>1, Ranks
      <4> QED  BY <3>1, <4>1 DEF Turn
    <3>3. Less(Measure(next, k), Measure(pc[s], j))
      BY <2>2, <3>2, LessWork
    <3> QED  BY <2>5, <3>3 DEF Advances
  <2>8. Backing(next, k, data, index, stray[s])
    BY <1>2, <1>6, <2>2, <2>3, <2>4 DEF Backing
  <2> HIDE DEF j
  <2>9. Storing(pc[s], db[s], j) => Storing(next, db[s], k)
    BY <1>1, <2>2 DEF Storing, next
  <2>10. Looking(pc[s], j) => Looking(next, k)
    BY <1>1, <2>2 DEF Looking, next
  <2>11. Building(pc[s], db[s], j) => Building(next, db[s], k)
    BY <1>1, <2>2 DEF Building, next
  <2>12. ~Making(pc[s], db[s], j) /\ ~Removing(pc[s], db[s], j)
    BY <1>1 DEF Making, Removing
  <2>13. Client(next, db[s], k, data, index, stray[s])
    BY <1>2, <2>1, <2>2, <2>6, <2>8, <2>9, <2>10, <2>11, <2>12 DEF Client, Outside
  <2>14. AllFiles' /\ Adds(s) /\ Grounded /\ UNCHANGED <<dir, dbInfo, data, index, stray>>
    BY <1>6, DiskStays
  <2>15. Client(pc'[s], db'[s], job'[s], data', index', stray'[s])
    BY <2>5, <2>13, <2>14
  <2>16. Serves(s) /\ Tidies(s)
    BY <1>1, <2>5, <2>6, <2>14, <2>15, AddsServes DEF Flushing
  <2> QED  BY <2>7, <2>16
<1> QED  BY <1>4, <1>5, <1>6

(* The leaf is read. *)
LEMMA LoadServes ==
  ASSUME Typed, NEW s \in Sessions, Load(s)
  PROVE  Serves(s) /\ Tidies(s) /\ Advances(s)
<1> DEFINE j == job[s]
           leaf == IF j.head THEN Tree(s).leaf ELSE <<>>
           k == [j EXCEPT !.leaf = leaf]
<1>1. pc[s] = "load"
  BY DEF Load
<1>2. /\ Whole /\ AllFiles /\ DOMAIN j = DOMAIN NoJob /\ j.head \in BOOLEAN
      /\ j.todo \in Seq(Int) /\ j.hits \in Seq(Int) /\ j.table \in Tables
      /\ (db[s] = None \/ db[s] \in Database)
      /\ \/ Storing("load", db[s], j) \/ Looking("load", j) \/ Building("load", db[s], j)
         \/ Making("load", db[s], j) \/ Removing("load", db[s], j)
      /\ Backing("load", j, data, index, stray[s])
  BY <1>1, Working DEF Outside
<1>3. /\ job' = [job EXCEPT ![s] = k] /\ pc' = [pc EXCEPT ![s] = "put"]
      /\ UNCHANGED <<disk, db, deaths>>
  BY DEF Load, Go
<1>4. leaf \in Seq(Entry)
  <2>1. <<>> \in Seq(Entry)
    OBVIOUS
  <2>2. Tree(s) \in Index
    BY <1>1, TreeThere DEF Holding
  <2> QED  BY <1>2, <2>1, <2>2 DEF Index
<1> HIDE DEF leaf
<1>5. /\ DOMAIN k = DOMAIN NoJob /\ k.op = j.op /\ k.table = j.table /\ k.row = j.row
      /\ k.todo = j.todo /\ k.hits = j.hits /\ k.use = j.use /\ k.field = j.field
      /\ k.value = j.value /\ k.leaf = leaf /\ k.head = j.head /\ k.filter = j.filter
  BY <1>2, JobFields
<1> HIDE DEF k
<1>6. Others(s) /\ job'[s] = k /\ pc'[s] = "put" /\ db'[s] = db[s]
  BY <1>2, <1>3 DEF Others, Whole
<1>7. Advances(s)
  <2>1. Rank["put"] < Rank["load"] /\ Turn("put") = Turn("load")
    <3>1. Rank["put"] < Rank["load"]
      BY Ranks
    <3> QED  BY <3>1 DEF Turn
  <2>2. Less(Measure("put", k), Measure("load", j))
    BY <1>5, <2>1, LessWork
  <2> QED  BY <1>1, <1>6, <2>2 DEF Advances
<1>8. Backing("put", k, data, index, stray[s])
  BY <1>2, <1>5 DEF Backing, Holding, Held, Appending
<1> HIDE DEF j
<1>9. Storing("load", db[s], j) => Storing("put", db[s], k)
  BY <1>4, <1>5 DEF Storing
<1>10. Looking("load", j) => Looking("put", k)
  BY <1>4, <1>5 DEF Looking
<1>11. Building("load", db[s], j) => Building("put", db[s], k)
  BY <1>4, <1>5 DEF Building
<1>12. Client("put", db[s], k, data, index, stray[s])
  BY <1>2, <1>5, <1>8, <1>9, <1>10, <1>11 DEF Client, Outside, Positions, Making, Removing
<1>13. AllFiles' /\ Adds(s) /\ Grounded /\ UNCHANGED <<dir, dbInfo, data, index, stray>>
  BY <1>3, DiskStays
<1>14. Client(pc'[s], db'[s], job'[s], data', index', stray'[s])
  BY <1>6, <1>12, <1>13
<1>15. Serves(s) /\ Tidies(s)
  BY <1>1, <1>6, <1>13, <1>14, AddsServes DEF Flushing
<1> QED  BY <1>7, <1>15

(* The entry is added to the leaf that was read. *)
LEMMA PutInsertedServes ==
  ASSUME Typed, NEW s \in Sessions, PutInserted(s)
  PROVE  Serves(s) /\ Tidies(s) /\ Advances(s)
<1> DEFINE j == job[s]
           new == [root |-> TRUE, leaf |-> IndexInsert(j.leaf, Head(j.todo), j.row["id"])]
           k == [j EXCEPT !.todo = Tail(@), !.leaf = <<>>]
           next == IF Len(j.todo) = 1 THEN "append" ELSE "open"
<1>1. pc[s] = "put" /\ j.op = "insert"
  BY DEF PutInserted
<1>2. /\ Whole /\ AllFiles /\ DOMAIN j = DOMAIN NoJob /\ j.head \in BOOLEAN
      /\ j.todo \in Seq(Int) /\ j.hits \in Seq(Int) /\ j.table \in Tables
      /\ (db[s] = None \/ db[s] \in Database)
      /\ \/ Storing("put", db[s], j) \/ Looking("put", j) \/ Building("put", db[s], j)
         \/ Making("put", db[s], j) \/ Removing("put", db[s], j)
      /\ Backing("put", j, data, index, stray[s])
  BY <1>1, Working DEF Outside
<1>3. Storing("put", db[s], j)
  BY <1>1, <1>2 DEF Looking, Building, Making, Removing
<1>4. /\ job' = [job EXCEPT ![s] = k] /\ pc' = [pc EXCEPT ![s] = next]
      /\ CloseTree(s, new) /\ UNCHANGED <<dir, dbInfo, data, db, deaths>>
  BY DEF PutInserted, Go
<1>5. j.todo # <<>> /\ j.leaf \in Seq(Entry) /\ j.row \in Row
  BY <1>3 DEF Storing
<1>6. j.row["id"] \in Int
  BY <1>5, Columns, ValuesAssumption DEF Row
<1>7. /\ Head(j.todo) \in Int /\ Tail(j.todo) \in Seq(Int)
      /\ Len(Tail(j.todo)) < Len(j.todo) /\ (Len(j.todo) # 1 => Tail(j.todo) # <<>>)
  BY <1>2, <1>5, OneLess
<1>8. new \in Index
  <2>1. IndexInsert(j.leaf, Head(j.todo), j.row["id"]) \in Seq(Entry)
    BY <1>5, <1>6, <1>7, IndexInsertEntries
  <2> QED  BY <2>1 DEF Index
<1>9. AllFiles' /\ Adds(s) /\ Grounded /\ stray'[s].out = stray[s].out
  <2> HIDE DEF new
  <2> QED  BY <1>1, <1>4, <1>8, TreeWritten DEF Holding
<1>10. /\ DOMAIN k = DOMAIN NoJob /\ k.op = j.op /\ k.table = j.table /\ k.row = j.row
       /\ k.todo = Tail(j.todo) /\ k.head = j.head /\ k.hits = j.hits
  BY <1>2, JobFields
<1> HIDE DEF k, new
<1>11. Others(s) /\ job'[s] = k /\ pc'[s] = next /\ db'[s] = db[s]
  BY <1>2, <1>4 DEF Others, Whole
<1>12. Advances(s)
  <2>1. Turn(next) = Turn(pc[s])
    BY <1>1 DEF Turn
  <2>2. Less(Measure(next, k), Measure(pc[s], j))
    BY <1>7, <1>10, <2>1, LessWork
  <2> QED  BY <1>11, <2>2 DEF Advances
<1>13. Backing(next, k, data', index', stray'[s])
  BY <1>1, <1>2, <1>4, <1>9, <1>10 DEF Backing, Holding, Appending
<1> HIDE DEF j
<1>14. Storing(next, db[s], k)
  BY <1>3, <1>7, <1>10 DEF Storing
<1>15. Client(next, db[s], k, data', index', stray'[s])
  BY <1>2, <1>7, <1>10, <1>13, <1>14 DEF Client, Positions, Outside
<1>16. pc'[s] \notin {"truncate", "write", "remove", "make"}
  BY <1>11
<1>17. Serves(s) /\ Tidies(s)
  BY <1>1, <1>4, <1>9, <1>11, <1>15, <1>16, AddsServes DEF Flushing
<1> QED  BY <1>12, <1>17

(* And CREATE INDEX goes on to the next row, or to its catalog. *)
LEMMA PutIndexedServes ==
  ASSUME Typed, NEW s \in Sessions, PutIndexed(s)
  PROVE  Serves(s) /\ Tidies(s) /\ Advances(s)
<1> DEFINE j == job[s]
           new == [root |-> TRUE, leaf |-> IndexInsert(j.leaf, j.row[j.field], Head(j.todo))]
           k == [j EXCEPT !.todo = Tail(@), !.leaf = <<>>, !.row = None]
           next == IF Len(j.todo) = 1 THEN "truncate" ELSE "seek"
<1>1. pc[s] = "put" /\ j.op = "create index"
  BY DEF PutIndexed
<1>2. /\ Whole /\ AllFiles /\ DOMAIN j = DOMAIN NoJob /\ j.head \in BOOLEAN
      /\ j.todo \in Seq(Int) /\ j.hits \in Seq(Int) /\ j.table \in Tables
      /\ (db[s] = None \/ db[s] \in Database)
      /\ \/ Storing("put", db[s], j) \/ Looking("put", j) \/ Building("put", db[s], j)
         \/ Making("put", db[s], j) \/ Removing("put", db[s], j)
  BY <1>1, Working DEF Outside
<1>3. Building("put", db[s], j)
  BY <1>1, <1>2 DEF Storing, Looking, Making, Removing
<1>4. /\ job' = [job EXCEPT ![s] = k] /\ pc' = [pc EXCEPT ![s] = next]
      /\ CloseTree(s, new) /\ UNCHANGED <<dir, dbInfo, data, db, deaths>>
  BY DEF PutIndexed, Go
<1>5. j.todo # <<>> /\ j.leaf \in Seq(Entry) /\ j.row \in Row /\ j.field \in Fields /\ db[s] \in Database
  BY <1>3 DEF Building
<1>6. j.row[j.field] \in Int
  BY <1>5, ValuesAssumption DEF Row
<1>7. /\ Head(j.todo) \in Int /\ Tail(j.todo) \in Seq(Int)
      /\ Len(Tail(j.todo)) < Len(j.todo) /\ (Len(j.todo) # 1 => Tail(j.todo) # <<>>)
  BY <1>2, <1>5, OneLess
<1>8. new \in Index
  <2>1. IndexInsert(j.leaf, j.row[j.field], Head(j.todo)) \in Seq(Entry)
    BY <1>5, <1>6, <1>7, IndexInsertEntries
  <2> QED  BY <2>1 DEF Index
<1>9. AllFiles' /\ Adds(s) /\ Grounded
  <2> HIDE DEF new
  <2> QED  BY <1>1, <1>4, <1>8, TreeWritten DEF Holding
<1>10. /\ DOMAIN k = DOMAIN NoJob /\ k.op = j.op /\ k.table = j.table /\ k.field = j.field
       /\ k.todo = Tail(j.todo) /\ k.head = j.head /\ k.hits = j.hits
  BY <1>2, JobFields
<1> HIDE DEF k, new
<1>11. Others(s) /\ job'[s] = k /\ pc'[s] = next /\ db'[s] = db[s]
  BY <1>2, <1>4 DEF Others, Whole
<1>12. Advances(s)
  <2>1. Turn(next) = Turn(pc[s])
    BY <1>1 DEF Turn
  <2>2. Less(Measure(next, k), Measure(pc[s], j))
    BY <1>7, <1>10, <2>1, LessWork
  <2> QED  BY <1>11, <2>2 DEF Advances
<1>13. Backing(next, k, data', index', stray'[s])
  BY DEF Backing, Holding, Appending
<1> HIDE DEF j
<1>14. next = "seek" => Building(next, db[s], k)
  BY <1>3, <1>7, <1>10 DEF Building
<1>15. Client(next, db[s], k, data', index', stray'[s])
  BY <1>2, <1>5, <1>7, <1>10, <1>13, <1>14 DEF Client, Positions, Outside
<1>16. pc'[s] \notin {"write", "remove", "make"}
  BY <1>11
<1>17. Serves(s) /\ Tidies(s)
  BY <1>1, <1>4, <1>5, <1>9, <1>11, <1>15, <1>16, AddsServes DEF Flushing
<1> QED  BY <1>12, <1>17

(* CREATE INDEX reads a row, or dies: the data are gone, or end before it. *)
LEMMA SeekRowServes ==
  ASSUME Typed, NEW s \in Sessions, SeekRow(s)
  PROVE  Serves(s) /\ Tidies(s) /\ Advances(s)
<1> DEFINE j == job[s]
<1>1. pc[s] = "seek"
  BY DEF SeekRow
<1>2. /\ Whole /\ AllFiles /\ DOMAIN j = DOMAIN NoJob /\ j.head \in BOOLEAN
      /\ j.todo \in Seq(Int) /\ j.hits \in Seq(Int) /\ j.table \in Tables
      /\ (db[s] = None \/ db[s] \in Database)
      /\ \/ Storing("seek", db[s], j) \/ Looking("seek", j) \/ Building("seek", db[s], j)
         \/ Making("seek", db[s], j) \/ Removing("seek", db[s], j)
  BY <1>1, Working DEF Outside
<1>3. Building("seek", db[s], j)
  BY <1>2 DEF Storing, Looking, Making, Removing
<1>4. CASE Crash(s)
  BY <1>1, <1>4, CrashServes DEF Flushing
<1>5. CASE /\ data[j.table] # Absent
           /\ \E row \in DataSeek(j.table, Head(j.todo)) : job' = [job EXCEPT ![s].row = row]
           /\ Go(s, "open") /\ UNCHANGED <<disk, db, deaths>>
  <2>1. PICK row \in DataSeek(j.table, Head(j.todo)) : job' = [job EXCEPT ![s].row = row]
    BY <1>5
  <2>2. row \in Row
    <3>1. Head(j.todo) \in Int
      BY <1>2, <1>3, OneLess DEF Building
    <3>2. data[j.table] \in Seq(Row)
      BY <1>2, <1>5 DEF AllFiles
    <3> QED  BY <1>2, <2>1, <3>1, <3>2, RowSought
  <2> DEFINE k == [j EXCEPT !.row = row]
  <2>3. job' = [job EXCEPT ![s] = k] /\ pc' = [pc EXCEPT ![s] = "open"]
        /\ UNCHANGED <<disk, db, deaths>>
    BY <1>5, <2>1 DEF Go
  <2>4. /\ DOMAIN k = DOMAIN NoJob /\ k.op = j.op /\ k.table = j.table /\ k.row = row
        /\ k.todo = j.todo /\ k.hits = j.hits /\ k.field = j.field /\ k.head = j.head
    BY <1>2, JobFields
  <2> HIDE DEF k
  <2>5. Others(s) /\ job'[s] = k /\ pc'[s] = "open" /\ db'[s] = db[s]
    BY <1>2, <2>3 DEF Others, Whole
  <2>6. Advances(s)
    <3>1. Rank["open"] < Rank["seek"]
      BY Ranks
    <3>2. Turn("open") = Turn("seek")
      BY DEF Turn
    <3>3. Less(Measure("open", k), Measure("seek", j))
      BY <2>4, <3>1, <3>2, LessWork
    <3> QED  BY <1>1, <2>5, <3>3 DEF Advances
  <2>7. Building("open", db[s], k)
    BY <1>3, <2>2, <2>4 DEF Building
  <2>8. Backing("open", k, data, index, stray[s])
    BY <2>7 DEF Backing, Holding, Appending, Building
  <2> HIDE DEF j
  <2>9. Client("open", db[s], k, data, index, stray[s])
    BY <1>2, <2>4, <2>7, <2>8 DEF Client, Outside, Positions
  <2>10. AllFiles' /\ Adds(s) /\ Grounded /\ UNCHANGED <<dir, dbInfo, data, index, stray>>
    BY <2>3, DiskStays
  <2>11. Client(pc'[s], db'[s], job'[s], data', index', stray'[s])
    BY <2>5, <2>9, <2>10
  <2>12. Serves(s) /\ Tidies(s)
    BY <1>1, <2>5, <2>10, <2>11, AddsServes DEF Flushing
  <2> QED  BY <2>6, <2>12
<1> QED  BY <1>4, <1>5 DEF SeekRow

(* The rows that an index names for the value are the keys to look up. *)
LEMMA ProbeServes ==
  ASSUME Typed, NEW s \in Sessions, Probe(s)
  PROVE  Serves(s) /\ Tidies(s) /\ Advances(s)
<1> DEFINE j == job[s]
           new == [Tree(s) EXCEPT !.root = j.head]
<1>1. pc[s] = "probe"
  BY DEF Probe
<1>2. /\ Whole /\ AllFiles /\ DOMAIN j = DOMAIN NoJob /\ j.head \in BOOLEAN
      /\ j.todo \in Seq(Int) /\ j.hits \in Seq(Int) /\ j.table \in Tables
      /\ (db[s] = None \/ db[s] \in Database)
      /\ \/ Storing("probe", db[s], j) \/ Looking("probe", j) \/ Building("probe", db[s], j)
         \/ Making("probe", db[s], j) \/ Removing("probe", db[s], j)
  BY <1>1, Working DEF Outside
<1>3. Looking("probe", j)
  BY <1>2 DEF Storing, Building, Making, Removing
<1>4. Tree(s) \in Index
  BY <1>1, TreeThere DEF Holding
<1>5. PICK offsets \in Found(j.head, Tree(s).leaf, j.filter[j.use].value) :
        job' = [job EXCEPT ![s].todo = offsets]
  BY DEF Probe
<1>6. offsets \in Seq(Int)
  <2>1. Tree(s).leaf \in Seq(Entry)
    BY <1>4 DEF Index
  <2> QED  BY <1>5, <2>1, FoundEntries
<1>7. CloseTree(s, new) /\ UNCHANGED <<dir, dbInfo, data, db, deaths>>
  BY DEF Probe, CloseBptree
<1>8. new \in Index
  BY <1>2, <1>4 DEF Index
<1> DEFINE k == [j EXCEPT !.todo = offsets]
<1>9. job' = [job EXCEPT ![s] = k] /\ pc' = [pc EXCEPT ![s] = "open"]
  BY <1>5 DEF Probe, Go
<1> HIDE DEF new
<1>10. AllFiles' /\ Adds(s) /\ Grounded
  BY <1>1, <1>7, <1>8, TreeWritten DEF Holding
<1>11. /\ DOMAIN k = DOMAIN NoJob /\ k.op = j.op /\ k.table = j.table /\ k.value = j.value
       /\ k.todo = offsets /\ k.hits = j.hits /\ k.head = j.head
  BY <1>2, JobFields
<1> HIDE DEF k
<1>12. Others(s) /\ job'[s] = k /\ pc'[s] = "open" /\ db'[s] = db[s]
  BY <1>2, <1>7, <1>9 DEF Others, Whole
<1>13. Advances(s)
  <2>1. Turn("open") < Turn("probe")
    BY DEF Turn
  <2>2. Less(Measure("open", k), Measure("probe", j))
    BY <2>1, LessWork
  <2> QED  BY <1>1, <1>12, <2>2 DEF Advances
<1>14. Looking("open", k)
  BY <1>3, <1>11 DEF Looking
<1>15. Backing("open", k, data', index', stray'[s])
  BY <1>14 DEF Backing, Holding, Appending, Looking
<1> HIDE DEF j
<1>16. Client("open", db[s], k, data', index', stray'[s])
  BY <1>2, <1>6, <1>11, <1>14, <1>15 DEF Client, Outside, Positions
<1>17. Client(pc'[s], db'[s], job'[s], data', index', stray'[s])
  BY <1>12, <1>16
<1>18. Serves(s) /\ Tidies(s)
  BY <1>1, <1>7, <1>10, <1>12, <1>17, AddsServes DEF Flushing
<1> QED  BY <1>13, <1>18

(* The answer. *)
LEMMA AnswerServes ==
  ASSUME Typed, NEW s \in Sessions, Answer(s)
  PROVE  Serves(s) /\ Tidies(s) /\ Advances(s)
<1> DEFINE j == job[s]
           new == [Tree(s) EXCEPT !.root = j.head]
<1>1. pc[s] = "search"
  BY DEF Answer
<1>2. /\ Whole /\ AllFiles /\ j.head \in BOOLEAN
      /\ j.todo \in Seq(Int) /\ j.hits \in Seq(Int)
      /\ (db[s] = None \/ db[s] \in Database)
  BY <1>1, Working DEF Outside
<1>3. Tree(s) \in Index
  BY <1>1, TreeThere DEF Holding
<1>4. /\ CloseTree(s, new) /\ UNCHANGED <<dir, dbInfo, data, db, deaths>>
      /\ job' = [job EXCEPT ![s] = NoJob] /\ pc' = [pc EXCEPT ![s] = "idle"]
  BY DEF Answer, CloseBptree, Go
<1>5. new \in Index
  BY <1>2, <1>3 DEF Index
<1> HIDE DEF new
<1>6. AllFiles' /\ Adds(s) /\ Grounded
  BY <1>1, <1>4, <1>5, TreeWritten DEF Holding
<1>7. Others(s) /\ job'[s] = NoJob /\ pc'[s] = "idle" /\ db'[s] = db[s]
  BY <1>2, <1>4 DEF Others, Whole
<1>8. Advances(s)
  <2>1. Rank["idle"] < Rank["search"]
    BY Ranks
  <2>2. Less(Measure("idle", NoJob), Measure("search", j))
    BY <1>2, <2>1, NothingLeft
  <2> QED  BY <1>1, <1>7, <2>2 DEF Advances
<1>9. Client("idle", db[s], NoJob, data', index', stray'[s])
  BY <1>2, NoJobFields DEF Client, Positions, Outside, Backing, Holding, Appending
<1>10. Client(pc'[s], db'[s], job'[s], data', index', stray'[s])
  BY <1>7, <1>9
<1>11. Serves(s) /\ Tidies(s)
  BY <1>1, <1>4, <1>6, <1>7, <1>10, AddsServes DEF Flushing
<1> QED  BY <1>8, <1>11

(* What a lookup has open it keeps from step to step. *)
LEMMA LookingKeeps ==
  ASSUME NEW p, NEW j, NEW q, NEW k, NEW rows, NEW trees, NEW st, NEW newRows,
         Looking(p, j), Looking(q, k), p \in {"search", "fetch", "update", "load", "put"},
         k.op = j.op, k.table = j.table, q # "probe", Backing(p, j, rows, trees, st)
  PROVE  Backing(q, k, newRows, trees, st)
<1>1. j.op \in {"select", "update", "delete"} /\ k.op \in {"select", "update", "delete"}
  BY DEF Looking
<1>2. ~Appending(q, k)
  BY <1>1 DEF Appending
<1>3. p \in Holding
  BY DEF Holding
<1>4. Held(p, j) = <<j.table, "id">>
  BY <1>1 DEF Held
<1>5. q \in Holding => Held(q, k) = <<j.table, "id">>
  BY <1>1 DEF Held, Holding
<1> QED  BY <1>2, <1>3, <1>4, <1>5 DEF Backing

(* A key is looked up. *)
LEMMA SearchServes ==
  ASSUME Typed, NEW s \in Sessions, Search(s)
  PROVE  Serves(s) /\ Tidies(s) /\ Advances(s)
<1> DEFINE j == job[s]
<1>1. pc[s] = "search" /\ j.todo # <<>>
  BY DEF Search
<1>2. /\ Whole /\ AllFiles /\ DOMAIN j = DOMAIN NoJob /\ j.head \in BOOLEAN
      /\ j.todo \in Seq(Int) /\ j.hits \in Seq(Int) /\ j.table \in Tables
      /\ (db[s] = None \/ db[s] \in Database)
      /\ \/ Storing("search", db[s], j) \/ Looking("search", j) \/ Building("search", db[s], j)
         \/ Making("search", db[s], j) \/ Removing("search", db[s], j)
      /\ Backing("search", j, data, index, stray[s])
  BY <1>1, Working DEF Outside
<1>3. Looking("search", j)
  BY <1>2 DEF Storing, Building, Making, Removing
<1>4. PICK offsets \in Found(j.head, Tree(s).leaf, Head(j.todo)) :
        /\ job' = [job EXCEPT ![s].todo = Tail(@), ![s].hits = offsets]
        /\ Go(s, IF offsets = <<>> THEN "search" ELSE "fetch")
  BY DEF Search
<1> DEFINE k == [j EXCEPT !.todo = Tail(@), !.hits = offsets]
           next == IF offsets = <<>> THEN "search" ELSE "fetch"
<1>5. /\ job' = [job EXCEPT ![s] = k] /\ pc' = [pc EXCEPT ![s] = next]
      /\ UNCHANGED <<disk, db, deaths>>
  <2>1. UNCHANGED <<disk, db, deaths>>
    BY DEF Search
  <2>2. job' = [job EXCEPT ![s] = k]
    BY <1>4
  <2>3. pc' = [pc EXCEPT ![s] = next]
    BY <1>4 DEF Go
  <2> QED  BY <2>1, <2>2, <2>3
<1>6. offsets \in Seq(Int)
  <2>1. Tree(s) \in Index
    BY <1>1, TreeThere DEF Holding
  <2>2. Tree(s).leaf \in Seq(Entry)
    BY <2>1 DEF Index
  <2> QED  BY <1>4, <2>2, FoundEntries
<1>7. AllFiles' /\ Adds(s) /\ Grounded /\ UNCHANGED <<dir, dbInfo, data, index, stray>>
  BY <1>5, DiskStays
<1>8. /\ DOMAIN k = DOMAIN NoJob /\ k.op = j.op /\ k.table = j.table /\ k.todo = Tail(j.todo)
      /\ k.field = j.field /\ k.value = j.value /\ k.head = j.head /\ k.hits = offsets
      /\ k.filter = j.filter
  BY <1>2, JobFields
<1> HIDE DEF k
<1>9. Others(s) /\ job'[s] = k /\ pc'[s] = next /\ db'[s] = db[s]
  BY <1>2, <1>5 DEF Others, Whole
<1>10. Tail(j.todo) \in Seq(Int) /\ Len(Tail(j.todo)) < Len(j.todo)
  BY <1>1, <1>2, OneLess
<1>11. Advances(s)
  <2>1. Turn(next) = Turn("search")
    BY DEF Turn
  <2>2. Less(Measure(next, k), Measure("search", j))
    BY <1>8, <1>10, <2>1, LessWork
  <2> QED  BY <1>1, <1>9, <2>2 DEF Advances
<1> HIDE DEF j
<1>12. Looking(next, k)
  BY <1>3, <1>8 DEF Looking
<1>13. Backing(next, k, data', index', stray'[s])
  BY <1>2, <1>3, <1>7, <1>8, <1>12, LookingKeeps
<1>14. Client(next, db[s], k, data', index', stray'[s])
  BY <1>2, <1>6, <1>8, <1>10, <1>12, <1>13 DEF Client, Positions, Outside
<1>15. Client(pc'[s], db'[s], job'[s], data', index', stray'[s])
  BY <1>9, <1>14
<1>16. pc'[s] \notin {"truncate", "write", "remove", "make"}
  BY <1>9
<1>17. Serves(s) /\ Tidies(s)
  BY <1>1, <1>7, <1>9, <1>15, <1>16, AddsServes DEF Flushing
<1> QED  BY <1>11, <1>17

(* A row is read, compared, and kept, marked or passed over. *)
LEMMA FetchServes ==
  ASSUME Typed, NEW s \in Sessions, Fetch(s)
  PROVE  Serves(s) /\ Tidies(s) /\ Advances(s)
<1> DEFINE j == job[s]
<1>1. pc[s] = "fetch"
  BY DEF Fetch
<1>2. /\ Whole /\ AllFiles /\ DOMAIN j = DOMAIN NoJob /\ j.head \in BOOLEAN
      /\ j.todo \in Seq(Int) /\ j.hits \in Seq(Int) /\ j.table \in Tables
      /\ (db[s] = None \/ db[s] \in Database)
      /\ \/ Storing("fetch", db[s], j) \/ Looking("fetch", j) \/ Building("fetch", db[s], j)
         \/ Making("fetch", db[s], j) \/ Removing("fetch", db[s], j)
      /\ Backing("fetch", j, data, index, stray[s])
  BY <1>1, Working DEF Outside
<1>3. Looking("fetch", j) /\ j.hits # <<>>
  BY <1>2 DEF Storing, Looking, Building, Making, Removing
<1>4. CASE Crash(s)
  BY <1>1, <1>4, CrashServes DEF Flushing
<1>5. CASE ~Crash(s)
  <2>1. data[j.table] # Absent
    BY <1>5 DEF Fetch
  <2>2. UNCHANGED <<disk, db, deaths>>
    BY <1>5 DEF Fetch
  <2>3. AllFiles' /\ Adds(s) /\ Grounded /\ UNCHANGED <<dir, dbInfo, data, index, stray>>
    BY <2>2, DiskStays
  <2>4. PICK row \in DataSeek(j.table, Head(j.hits)) :
          IF Passes(row, j.filter) /\ j.op # "select"
          THEN /\ job' = [job EXCEPT ![s].row = IF j.op = "update" THEN row ELSE None]
               /\ Go(s, IF j.op = "update" THEN "update" ELSE "load")
          ELSE /\ job' = [job EXCEPT ![s].hits = Tail(@),
                                     ![s].rows = IF Passes(row, j.filter)
                                                 THEN Append(@, row) ELSE @]
               /\ NextHit(s)
    BY <1>5 DEF Fetch
  <2>5. data[j.table] \in Seq(Row)
    BY <1>2, <2>1 DEF AllFiles
  <2>6. CASE Passes(row, j.filter) /\ j.op # "select"
    <3> DEFINE new == IF j.op = "update" THEN row ELSE None
               k == [j EXCEPT !.row = new]
               next == IF j.op = "update" THEN "update" ELSE "load"
    <3>1. job' = [job EXCEPT ![s] = k] /\ pc' = [pc EXCEPT ![s] = next]
      BY <2>4, <2>6 DEF Go
    <3>2. row \in Row
      <4>1. Head(j.hits) \in Int
        BY <1>2, <1>3, OneLess
      <4> QED  BY <2>4, <2>5, <4>1, RowSought
    <3>3. /\ DOMAIN k = DOMAIN NoJob /\ k.op = j.op /\ k.table = j.table /\ k.todo = j.todo
          /\ k.field = j.field /\ k.value = j.value /\ k.head = j.head /\ k.hits = j.hits
          /\ k.row = new /\ k.filter = j.filter
      BY <1>2, JobFields
    <3> HIDE DEF k
    <3>4. Others(s) /\ job'[s] = k /\ pc'[s] = next /\ db'[s] = db[s]
      BY <1>2, <2>2, <3>1 DEF Others, Whole
    <3>5. Advances(s)
      <4>1. Turn(next) = Turn("fetch")
        BY DEF Turn
      <4>2. Rank[next] < Rank["fetch"]
        BY Ranks
      <4>3. Less(Measure(next, k), Measure("fetch", j))
        BY <3>3, <4>1, <4>2, LessWork
      <4> QED  BY <1>1, <3>4, <4>3 DEF Advances
    <3> HIDE DEF j
    <3>6. Looking(next, k)
      BY <1>3, <2>6, <3>2, <3>3 DEF Looking
    <3>7. Backing(next, k, data', index', stray'[s])
      BY <1>2, <1>3, <2>3, <3>3, <3>6, LookingKeeps
    <3>8. Client(next, db[s], k, data', index', stray'[s])
      BY <1>2, <3>3, <3>6, <3>7 DEF Client, Positions, Outside
    <3>9. Client(pc'[s], db'[s], job'[s], data', index', stray'[s])
      BY <3>4, <3>8
    <3>10. pc'[s] \notin {"truncate", "write", "remove", "make"}
      BY <3>4
    <3>11. Serves(s) /\ Tidies(s)
      BY <1>1, <2>3, <3>4, <3>9, <3>10, AddsServes DEF Flushing
    <3> QED  BY <3>5, <3>11
  <2>7. CASE ~(Passes(row, j.filter) /\ j.op # "select")
    <3> DEFINE more == IF Passes(row, j.filter) THEN Append(j.rows, row) ELSE j.rows
               k == [j EXCEPT !.hits = Tail(@), !.rows = more]
               next == IF Len(j.hits) = 1 THEN "search" ELSE "fetch"
    <3>1. job' = [job EXCEPT ![s] = k] /\ pc' = [pc EXCEPT ![s] = next]
      <4>1. job' = [job EXCEPT ![s].hits = Tail(@),
                               ![s].rows = IF Passes(row, j.filter) THEN Append(@, row) ELSE @]
        BY <2>4, <2>7
      <4>2. job' = [job EXCEPT ![s] = k]
        BY <4>1
      <4> QED  BY <2>4, <2>7, <4>2 DEF NextHit, Go
    <3> HIDE DEF more
    <3>2. /\ DOMAIN k = DOMAIN NoJob /\ k.op = j.op /\ k.table = j.table /\ k.todo = j.todo
          /\ k.field = j.field /\ k.value = j.value /\ k.head = j.head
          /\ k.hits = Tail(j.hits) /\ k.filter = j.filter
      BY <1>2, JobFields
    <3> HIDE DEF k
    <3>3. Others(s) /\ job'[s] = k /\ pc'[s] = next /\ db'[s] = db[s]
      BY <1>2, <2>2, <3>1 DEF Others, Whole
    <3>4. /\ Tail(j.hits) \in Seq(Int) /\ (Len(j.hits) # 1 => Tail(j.hits) # <<>>)
          /\ Len(Tail(j.hits)) < Len(j.hits)
      BY <1>2, <1>3, OneLess
    <3>5. Advances(s)
      <4>1. Turn(next) = Turn("fetch")
        BY DEF Turn
      <4>2. Less(Measure(next, k), Measure("fetch", j))
        BY <3>2, <3>4, <4>1, LessWork
      <4> QED  BY <1>1, <3>3, <4>2 DEF Advances
    <3> HIDE DEF j
    <3>6. Looking(next, k)
      BY <1>3, <3>2, <3>4 DEF Looking
    <3>7. Backing(next, k, data', index', stray'[s])
      BY <1>2, <1>3, <2>3, <3>2, <3>6, LookingKeeps
    <3>8. Client(next, db[s], k, data', index', stray'[s])
      BY <1>2, <3>2, <3>4, <3>6, <3>7 DEF Client, Positions, Outside
    <3>9. Client(pc'[s], db'[s], job'[s], data', index', stray'[s])
      BY <3>3, <3>8
    <3>10. pc'[s] \notin {"truncate", "write", "remove", "make"}
      BY <3>3
    <3>11. Serves(s) /\ Tidies(s)
      BY <1>1, <2>3, <3>3, <3>9, <3>10, AddsServes DEF Flushing
    <3> QED  BY <3>5, <3>11
  <2> QED  BY <2>6, <2>7
<1> QED  BY <1>4, <1>5

(* A row is written, or UPDATE dies for want of a column to set, or of data. *)
LEMMA UpdateServes ==
  ASSUME Typed, NEW s \in Sessions, UpdateRow(s)
  PROVE  Serves(s) /\ Tidies(s) /\ Advances(s)
<1> DEFINE j == job[s]
           t == j.table
           new == [j.row EXCEPT ![j.field] = j.value]
           k == [j EXCEPT !.hits = Tail(@), !.row = None]
           next == IF Len(j.hits) = 1 THEN "search" ELSE "fetch"
<1>1. pc[s] = "update"
  BY DEF UpdateRow
<1>2. /\ Whole /\ AllFiles /\ DOMAIN j = DOMAIN NoJob /\ j.head \in BOOLEAN
      /\ j.todo \in Seq(Int) /\ j.hits \in Seq(Int) /\ t \in Tables
      /\ (db[s] = None \/ db[s] \in Database)
      /\ \/ Storing("update", db[s], j) \/ Looking("update", j) \/ Building("update", db[s], j)
         \/ Making("update", db[s], j) \/ Removing("update", db[s], j)
      /\ Backing("update", j, data, index, stray[s])
  BY <1>1, Working DEF Outside
<1>3. /\ Looking("update", j) /\ j.hits # <<>> /\ j.row \in Row /\ j.value \in Values
  BY <1>2 DEF Storing, Looking, Building, Making, Removing
<1>4. CASE Crash(s)
  BY <1>1, <1>4, CrashServes DEF Flushing
<1>5. CASE ~Crash(s)
  <2>1. /\ data[t] # Absent
        /\ data' = [data EXCEPT ![t] = DataFlush(data[t], Head(j.hits), new)]
        /\ job' = [job EXCEPT ![s] = k] /\ pc' = [pc EXCEPT ![s] = next]
        /\ UNCHANGED <<dir, dbInfo, index, stray, db, deaths>>
    <3>1. /\ data[t] # Absent
          /\ data' = [data EXCEPT ![t] = DataFlush(@, Head(j.hits), new)]
          /\ job' = [job EXCEPT ![s].hits = Tail(@), ![s].row = None]
          /\ NextHit(s)
          /\ UNCHANGED <<dir, dbInfo, index, stray, db, deaths>>
      BY <1>5 DEF UpdateRow
    <3>2. job' = [job EXCEPT ![s] = k]
      BY <3>1
    <3> QED  BY <3>1, <3>2 DEF NextHit, Go
  <2>2. new \in Row
    BY <1>3 DEF Row
  <2>3. /\ Head(j.hits) \in Int /\ Tail(j.hits) \in Seq(Int)
        /\ (Len(j.hits) # 1 => Tail(j.hits) # <<>>) /\ Len(Tail(j.hits)) < Len(j.hits)
    BY <1>2, <1>3, OneLess
  <2> DEFINE flushed == DataFlush(data[t], Head(j.hits), new)
  <2>4. flushed \in Seq(Row) /\ Len(flushed) >= Len(data[t])
    <3>1. data[t] \in Seq(Row)
      BY <1>2, <2>1 DEF AllFiles
    <3> HIDE DEF new
    <3> QED  BY <2>2, <2>3, <3>1, FlushRows
  <2> HIDE DEF flushed
  <2>5. AllFiles' /\ Adds(s) /\ Grounded
    <3>1. /\ data' = [data EXCEPT ![t] = flushed] /\ UNCHANGED <<dir, dbInfo, index>>
          /\ stray' = stray
      BY <2>1 DEF flushed
    <3>2. /\ stray' \in [Sessions -> [tree : Index \cup {None}, out : BOOLEAN]]
          /\ \A o \in Sessions \ {s} : stray'[o] = stray[o]
          /\ (stray[s] = NoStray => stray'[s] = NoStray)
      BY <1>2, <3>1 DEF AllFiles
    <3> HIDE DEF t
    <3> QED  BY <1>2, <2>1, <2>4, <3>1, <3>2, DataGrows
  <2>6. /\ DOMAIN k = DOMAIN NoJob /\ k.op = j.op /\ k.table = j.table /\ k.todo = j.todo
        /\ k.field = j.field /\ k.value = j.value /\ k.head = j.head
        /\ k.hits = Tail(j.hits) /\ k.filter = j.filter
    BY <1>2, JobFields
  <2> HIDE DEF k
  <2>7. /\ Others(s) /\ job'[s] = k /\ pc'[s] = next /\ db'[s] = db[s]
        /\ index' = index /\ stray' = stray
    BY <1>2, <2>1 DEF Others, Whole
  <2>8. Advances(s)
    <3>1. Turn(next) = Turn("update")
      BY DEF Turn
    <3>2. Less(Measure(next, k), Measure("update", j))
      BY <2>3, <2>6, <3>1, LessWork
    <3> QED  BY <1>1, <2>7, <3>2 DEF Advances
  <2> HIDE DEF j
  <2>9. Looking(next, k)
    BY <1>3, <2>3, <2>6 DEF Looking
  <2>10. Backing(next, k, data', index', stray'[s])
    BY <1>2, <1>3, <2>6, <2>7, <2>9, LookingKeeps
  <2>11. Client(next, db[s], k, data', index', stray'[s])
    BY <1>2, <2>3, <2>6, <2>9, <2>10 DEF Client, Positions, Outside
  <2>12. Client(pc'[s], db'[s], job'[s], data', index', stray'[s])
    BY <2>7, <2>11
  <2>13. pc'[s] \notin {"truncate", "write", "remove", "make"}
    BY <2>7
  <2>14. Serves(s) /\ Tidies(s)
    BY <1>1, <2>1, <2>5, <2>7, <2>12, <2>13, AddsServes DEF Flushing
  <2> QED  BY <2>8, <2>14
<1> QED  BY <1>4, <1>5

(* The leaf goes back with the entries of a deleted row marked. *)
LEMMA PutDeletedServes ==
  ASSUME Typed, NEW s \in Sessions, PutDeleted(s)
  PROVE  Serves(s) /\ Tidies(s) /\ Advances(s)
<1> DEFINE j == job[s]
           leaf == BptreeDelete(j.leaf, Head(j.hits))
           new == IF j.leaf = <<>> THEN Tree(s) ELSE [Tree(s) EXCEPT !.leaf = leaf]
           k == [j EXCEPT !.hits = Tail(@), !.leaf = <<>>]
           next == IF Len(j.hits) = 1 THEN "search" ELSE "fetch"
<1>1. pc[s] = "put" /\ j.op = "delete"
  BY DEF PutDeleted
<1>2. /\ Whole /\ AllFiles /\ DOMAIN j = DOMAIN NoJob /\ j.head \in BOOLEAN
      /\ j.todo \in Seq(Int) /\ j.hits \in Seq(Int) /\ j.table \in Tables
      /\ (db[s] = None \/ db[s] \in Database)
      /\ \/ Storing("put", db[s], j) \/ Looking("put", j) \/ Building("put", db[s], j)
         \/ Making("put", db[s], j) \/ Removing("put", db[s], j)
  BY <1>1, Working DEF Outside
<1>3. /\ Looking("put", j) /\ j.hits # <<>> /\ j.leaf \in Seq(Entry)
  BY <1>1, <1>2 DEF Storing, Looking, Building, Making, Removing
<1>4. /\ PutTree(s, new)
      /\ job' = [job EXCEPT ![s] = k] /\ pc' = [pc EXCEPT ![s] = next]
      /\ UNCHANGED <<dir, dbInfo, data, db, deaths>>
  <2>1. /\ PutTree(s, new)
        /\ job' = [job EXCEPT ![s].hits = Tail(@), ![s].leaf = <<>>]
        /\ NextHit(s)
        /\ UNCHANGED <<dir, dbInfo, data, db, deaths>>
    BY DEF PutDeleted
  <2>2. job' = [job EXCEPT ![s] = k]
    BY <2>1
  <2> QED  BY <2>1, <2>2 DEF NextHit, Go
<1>5. new \in Index
  <2>1. leaf \in Seq(Entry)
    BY <1>3, DeleteEntries
  <2>2. Tree(s) \in Index
    BY <1>1, TreeThere DEF Holding
  <2> HIDE DEF leaf
  <2> QED  BY <2>1, <2>2 DEF Index
<1>6. /\ AllFiles' /\ Adds(s) /\ Grounded
      /\ stray'[s].tree # None \/ index'[Held(pc[s], job[s])] # Absent
  <2> HIDE DEF new
  <2> QED  BY <1>1, <1>4, <1>5, TreeWritten DEF Holding
<1>7. Backing("put", j, data', index', stray'[s])
  BY <1>1, <1>6 DEF Backing, Appending
<1>8. /\ Tail(j.hits) \in Seq(Int) /\ (Len(j.hits) # 1 => Tail(j.hits) # <<>>)
      /\ Len(Tail(j.hits)) < Len(j.hits)
  BY <1>2, <1>3, OneLess
<1>9. /\ DOMAIN k = DOMAIN NoJob /\ k.op = j.op /\ k.table = j.table /\ k.todo = j.todo
      /\ k.field = j.field /\ k.value = j.value /\ k.head = j.head
      /\ k.hits = Tail(j.hits) /\ k.filter = j.filter
  BY <1>2, JobFields
<1> HIDE DEF k, new
<1>10. Others(s) /\ job'[s] = k /\ pc'[s] = next /\ db'[s] = db[s]
  BY <1>2, <1>4 DEF Others, Whole
<1>11. Advances(s)
  <2>1. Turn(next) = Turn("put")
    BY DEF Turn
  <2>2. Less(Measure(next, k), Measure("put", j))
    BY <1>8, <1>9, <2>1, LessWork
  <2> QED  BY <1>1, <1>10, <2>2 DEF Advances
<1> HIDE DEF j
<1>12. Looking(next, k)
  BY <1>3, <1>8, <1>9 DEF Looking
<1>13. Backing(next, k, data', index', stray'[s])
  BY <1>3, <1>7, <1>9, <1>12, LookingKeeps
<1>14. Client(next, db[s], k, data', index', stray'[s])
  BY <1>2, <1>8, <1>9, <1>12, <1>13 DEF Client, Positions, Outside
<1>15. Client(pc'[s], db'[s], job'[s], data', index', stray'[s])
  BY <1>10, <1>14
<1>16. pc'[s] \notin {"truncate", "write", "remove", "make"}
  BY <1>10
<1>17. Serves(s) /\ Tidies(s)
  BY <1>1, <1>4, <1>6, <1>10, <1>15, <1>16, AddsServes DEF Flushing
<1> QED  BY <1>11, <1>17

-----------------------------------------------------------------------------
(* A catalog with one entry changed. *)
LEMMA SetTables ==
  ASSUME NEW cat \in Database, NEW t, Slots(cat, t) # {}, NEW info \in Table
  PROVE  LET new == [cat EXCEPT !.tables[Slot(cat, t)] = info]
         IN  /\ new \in Database /\ Len(new.tables) = Len(cat.tables)
             /\ Slot(cat, t) \in 1..Len(cat.tables)
             /\ \A i \in 1..Len(cat.tables) :
                  new.tables[i] = IF i = Slot(cat, t) THEN info ELSE cat.tables[i]
<1> DEFINE tables == cat.tables
           slot == Slot(cat, t)
           changed == [tables EXCEPT ![slot] = info]
           new == [cat EXCEPT !.tables = changed]
<1>1. tables \in Seq(Table) /\ Len(tables) \in Nat
  BY DEF Database
<1>2. slot \in 1..Len(tables)
  BY SlotFound
<1> HIDE DEF slot
<1>3. /\ changed \in Seq(Table) /\ Len(changed) = Len(tables)
      /\ \A i \in 1..Len(tables) : changed[i] = IF i = slot THEN info ELSE tables[i]
  <2>1. /\ changed \in [1..Len(tables) -> Table]
        /\ \A i \in 1..Len(tables) : changed[i] = IF i = slot THEN info ELSE tables[i]
    BY <1>1, <1>2
  <2> HIDE DEF changed, tables
  <2> QED  BY <1>1, <2>1
<1>4. [cat EXCEPT !.tables[slot] = info] = new
  BY DEF Database
<1>5. new \in Database /\ new.tables = changed
  <2> HIDE DEF changed
  <2> QED  BY <1>3 DEF Database
<1> HIDE DEF new, changed
<1> QED  BY <1>2, <1>3, <1>4, <1>5 DEF slot

(* Rows and indexes of the other tables stay as they are. *)
Apart(t, rows, trees, newRows, newTrees) ==
  \A u \in Tables \ {t} : /\ newRows[u] = rows[u]
                          /\ \A f \in Fields : newTrees[<<u, f>>] = trees[<<u, f>>]

(* What is in the files of the other tables stays there. *)
LEMMA ApartInFiles ==
  ASSUME NEW t, NEW rows, NEW trees, NEW newRows, NEW newTrees,
         Apart(t, rows, trees, newRows, newTrees),
         NEW info \in Table, info.name # t, InFiles(info, rows, trees)
  PROVE  InFiles(info, newRows, newTrees)
<1> SUFFICES ASSUME info.name # Junk
             PROVE  /\ newRows[info.name] # Absent
                    /\ info.dataNum <= Len(newRows[info.name])
                    /\ \A f \in info.indexed : newTrees[<<info.name, f>>] # Absent
  BY DEF InFiles
<1>1. info.name \in Tables \ {t} /\ info.indexed \subseteq Fields
  BY DEF Table
<1>2. /\ newRows[info.name] = rows[info.name]
      /\ \A f \in info.indexed : newTrees[<<info.name, f>>] = trees[<<info.name, f>>]
  BY <1>1 DEF Apart
<1> QED  BY <1>2 DEF InFiles

(* An entry that is changed along with the files of its table. *)
LEMMA HonestSet ==
  ASSUME NEW cat, NEW t, NEW rows, NEW trees, NEW newRows, NEW newTrees,
         Honest(cat, rows, trees), Slots(cat, t) # {},
         Apart(t, rows, trees, newRows, newTrees),
         NEW info \in Table, info.name = t, InFiles(info, newRows, newTrees)
  PROVE  Honest([cat EXCEPT !.tables[Slot(cat, t)] = info], newRows, newTrees)
<1> DEFINE slot == Slot(cat, t)
           new == [cat EXCEPT !.tables[Slot(cat, t)] = info]
<1>1. cat \in Database /\ Once(cat.tables) /\ cat.tables \in Seq(Table)
  BY DEF Honest, Database
<1>2. /\ new \in Database /\ Len(new.tables) = Len(cat.tables)
      /\ slot \in 1..Len(cat.tables)
      /\ \A i \in 1..Len(cat.tables) :
           new.tables[i] = IF i = slot THEN info ELSE cat.tables[i]
  <2>1. cat \in Database /\ Slots(cat, t) # {} /\ info \in Table
    BY <1>1
  <2> QED  BY ONLY <2>1, SetTables
<1>3. cat.tables[slot].name = t
  BY <1>1, SlotFound DEF Info
<1> HIDE DEF new, slot
<1>4. \A i \in 1..Len(cat.tables) : new.tables[i].name = cat.tables[i].name
  BY <1>2, <1>3
<1>5. Once(new.tables)
  BY <1>1, <1>2, <1>4 DEF Once
<1>6. ASSUME NEW i \in 1..Len(new.tables)  PROVE InFiles(new.tables[i], newRows, newTrees)
  <2>1. CASE i = slot
    BY <1>2, <2>1
  <2>2. CASE i # slot
    <3>1. new.tables[i] = cat.tables[i] /\ cat.tables[i] \in Table
      BY <1>1, <1>2, <2>2, ElementOfSeq
    <3>2. InFiles(cat.tables[i], rows, trees)
      BY <1>2 DEF Honest
    <3>3. CASE cat.tables[i].name = Junk
      BY <3>1, <3>3 DEF InFiles
    <3>4. CASE cat.tables[i].name # Junk
      <4>1. cat.tables[i].name # t
        BY <1>1, <1>2, <1>3, <2>2, <3>4 DEF Once
      <4>2. InFiles(cat.tables[i], newRows, newTrees)
        BY <3>1, <3>2, <4>1, ApartInFiles
      <4> QED  BY <3>1, <4>2
    <3> QED  BY <3>3, <3>4
  <2> QED  BY <2>1, <2>2
<1>7. Honest(new, newRows, newTrees)
  BY <1>2, <1>5, <1>6 DEF Honest
<1> QED  BY <1>7 DEF new

(* What an entry with the name of the table says of it, being the first. *)
LEMMA HonestInfo ==
  ASSUME NEW cat, NEW t \in Tables, cat \in Database, Slots(cat, t) # {}
  PROVE  LET info == Info(cat, t)
         IN  /\ info \in Table /\ info.name = t
             /\ info.dataNum \in Nat /\ info.indexed \subseteq Fields
             /\ \A rows, trees : Honest(cat, rows, trees) => InFiles(info, rows, trees)
<1>1. Slot(cat, t) \in 1..Len(cat.tables) /\ Info(cat, t).name = t
  BY SlotFound
<1>2. cat.tables \in Seq(Table)
  BY DEF Database
<1>3. Info(cat, t) \in Table
  BY <1>1, <1>2, ElementOfSeq DEF Info
<1>4. \A rows, trees : Honest(cat, rows, trees) => InFiles(Info(cat, t), rows, trees)
  BY <1>1 DEF Honest, Info
<1> QED  BY <1>1, <1>3, <1>4 DEF Table

(* A new entry, for a table the catalog does not have. *)
LEMMA HonestAdd ==
  ASSUME NEW cat, NEW t, NEW rows, NEW trees, NEW newRows, NEW newTrees,
         Honest(cat, rows, trees), Slots(cat, t) = {},
         Apart(t, rows, trees, newRows, newTrees),
         NEW info \in Table, info.name = t, InFiles(info, newRows, newTrees)
  PROVE  LET new == [tables |-> Append(cat.tables, info), tableNum |-> cat.tableNum + 1]
         IN  Honest(new, newRows, newTrees)
<1> DEFINE old == cat.tables
           n == Len(old)
           tables == Append(old, info)
           new == [tables |-> tables, tableNum |-> cat.tableNum + 1]
<1>1. cat \in Database /\ Once(old) /\ old \in Seq(Table) /\ n \in Nat /\ cat.tableNum \in Nat
  BY DEF Honest, Database
<1>2. /\ tables \in Seq(Table) /\ Len(tables) = n + 1 /\ tables[n + 1] = info
      /\ \A i \in 1..n : tables[i] = old[i]
  BY <1>1, AppendProperties
<1>3. \A i \in 1..n : old[i] \in Table /\ old[i].name # t
  BY <1>1, ElementOfSeq DEF Slots
<1>4. \A i \in 1..n : InFiles(old[i], rows, trees)
  BY DEF Honest
<1> HIDE DEF tables, old, n
<1>5. \A i \in 1..(n + 1) : i \in 1..n \/ i = n + 1
  BY <1>1
<1>6. Once(tables)
  <2> SUFFICES ASSUME NEW i \in 1..(n + 1), NEW k \in 1..(n + 1),
                      tables[i].name = tables[k].name, tables[i].name # Junk
               PROVE  i = k
    BY <1>2 DEF Once
  <2>1. CASE i \in 1..n /\ k \in 1..n
    BY <1>1, <1>2, <2>1 DEF Once, n
  <2>2. CASE i = n + 1 /\ k = n + 1
    BY <2>2
  <2>3. CASE i = n + 1 /\ k \in 1..n
    BY <1>2, <1>3, <2>3
  <2>4. CASE i \in 1..n /\ k = n + 1
    BY <1>2, <1>3, <2>4
  <2> QED  BY <1>5, <2>1, <2>2, <2>3, <2>4
<1>7. ASSUME NEW i \in 1..(n + 1)  PROVE InFiles(tables[i], newRows, newTrees)
  <2>1. CASE i = n + 1
    BY <1>2, <2>1
  <2>2. CASE i \in 1..n
    <3>1. InFiles(old[i], newRows, newTrees)
      BY <1>3, <1>4, <2>2, ApartInFiles
    <3> QED  BY <1>2, <2>2, <3>1
  <2> QED  BY <1>5, <2>1, <2>2
<1>8. new \in Database /\ new.tables = tables
  BY <1>1, <1>2 DEF Database
<1> HIDE DEF new
<1>9. Honest(new, newRows, newTrees)
  BY <1>2, <1>6, <1>7, <1>8 DEF Honest
<1> QED  BY <1>9 DEF new, tables, old

(* A catalog that lists fewer tables, none of them one whose files change. *)
LEMMA HonestPart ==
  ASSUME NEW cat, NEW t, NEW rows, NEW trees, NEW newRows, NEW newTrees,
         Honest(cat, rows, trees), Apart(t, rows, trees, newRows, newTrees),
         NEW tables \in Seq(Table), NEW from \in [1..Len(tables) -> 1..Len(cat.tables)],
         \A i, k \in 1..Len(tables) : from[i] = from[k] => i = k,
         \A i \in 1..Len(tables) : tables[i] = cat.tables[from[i]],
         \A i \in 1..Len(tables) : tables[i].name # t \/ tables[i].name = Junk
  PROVE  Honest([cat EXCEPT !.tables = tables], newRows, newTrees)
<1> DEFINE new == [cat EXCEPT !.tables = tables]
<1>1. new \in Database /\ new.tables = tables
  BY DEF Honest, Database
<1> HIDE DEF new
<1>2. Once(tables)
  <2> SUFFICES ASSUME NEW i \in 1..Len(tables), NEW k \in 1..Len(tables),
                      tables[i].name = tables[k].name, tables[i].name # Junk
               PROVE  i = k
    BY DEF Once
  <2>1. from[i] \in 1..Len(cat.tables) /\ from[k] \in 1..Len(cat.tables)
    OBVIOUS
  <2>2. from[i] = from[k]
    BY <2>1 DEF Honest, Once
  <2> QED  BY <2>2
<1>3. ASSUME NEW i \in 1..Len(tables)  PROVE InFiles(tables[i], newRows, newTrees)
  <2>1. InFiles(tables[i], rows, trees)
    BY DEF Honest
  <2>2. tables[i] \in Table
    BY ElementOfSeq
  <2>3. CASE tables[i].name = Junk
    BY <2>3 DEF InFiles
  <2>4. CASE tables[i].name # t
    BY <2>1, <2>2, <2>4, ApartInFiles
  <2> QED  BY <2>3, <2>4
<1>4. Honest(new, newRows, newTrees)
  BY <1>1, <1>2, <1>3 DEF Honest
<1> QED  BY <1>4 DEF new

(* One that does not list the table does not notice what becomes of its files. *)
LEMMA HonestApart ==
  ASSUME NEW cat, NEW t, NEW rows, NEW trees, NEW newRows, NEW newTrees,
         Honest(cat, rows, trees), Apart(t, rows, trees, newRows, newTrees), Unlisted(cat, t)
  PROVE  Honest(cat, newRows, newTrees)
<1>1. cat \in Database /\ Once(cat.tables) /\ cat.tables \in Seq(Table)
  BY DEF Honest, Database
<1>2. ASSUME NEW i \in 1..Len(cat.tables)  PROVE InFiles(cat.tables[i], newRows, newTrees)
  <2>1. InFiles(cat.tables[i], rows, trees) /\ cat.tables[i] \in Table
    BY <1>1, ElementOfSeq DEF Honest
  <2>2. CASE cat.tables[i].name = Junk
    BY <2>2 DEF InFiles
  <2>3. CASE cat.tables[i].name # t
    BY <2>1, <2>3, ApartInFiles
  <2> QED  BY <2>2, <2>3 DEF Unlisted
<1> QED  BY <1>1, <1>2 DEF Honest

(* Nor does one without a slot for it. *)
LEMMA NoSlots ==
  ASSUME NEW cat, cat \in Database, NEW t, Slots(cat, t) = {}
  PROVE  Unlisted(cat, t)
<1>1. DOMAIN cat.tables = 1..Len(cat.tables)
  BY DEF Database
<1> QED  BY <1>1 DEF Slots, Unlisted

(* A changed entry keeps its name, and so all slots their tables. *)
LEMMA CoversSet ==
  ASSUME NEW cat \in Database, NEW t, Slots(cat, t) # {}, NEW info \in Table, info.name = t,
         NEW old, Covers(old, cat)
  PROVE  Covers(old, [cat EXCEPT !.tables[Slot(cat, t)] = info])
<1> DEFINE slot == Slot(cat, t)
           new == [cat EXCEPT !.tables[Slot(cat, t)] = info]
<1>1. /\ new \in Database /\ Len(new.tables) = Len(cat.tables)
      /\ slot \in 1..Len(cat.tables)
      /\ \A i \in 1..Len(cat.tables) :
           new.tables[i] = IF i = slot THEN info ELSE cat.tables[i]
  BY SetTables
<1>2. cat.tables[slot].name = t
  BY SlotFound DEF Info
<1> HIDE DEF new, slot
<1>3. /\ DOMAIN new.tables = 1..Len(cat.tables) /\ DOMAIN cat.tables = 1..Len(cat.tables)
      /\ \A i \in 1..Len(cat.tables) : new.tables[i].name = cat.tables[i].name
  <2>1. DOMAIN new.tables = 1..Len(new.tables) /\ DOMAIN cat.tables = 1..Len(cat.tables)
    BY <1>1 DEF Database
  <2> QED  BY <1>1, <1>2, <2>1
<1>4. \A u \in Tables : Slots(new, u) = Slots(cat, u)
  BY <1>3 DEF Slots
<1>5. Covers(old, new)
  BY <1>4 DEF Covers
<1> QED  BY <1>5 DEF new

(* What is left of a list of tables without one of them. *)
LEMMA RemoveTables ==
  ASSUME NEW tables \in Seq(Table), NEW slot \in 1..Len(tables)
  PROVE  LET rest == RemoveAt(tables, slot)
         IN  /\ rest \in Seq(Table) /\ Len(rest) = Len(tables) - 1
             /\ \A i \in 1..Len(rest) : rest[i] = tables[IF i < slot THEN i ELSE i + 1]
<1> DEFINE n == Len(tables)
           front == SubSeq(tables, 1, slot - 1)
           back == SubSeq(tables, slot + 1, n)
           rest == RemoveAt(tables, slot)
<1>1. n \in Nat /\ slot \in Nat /\ slot >= 1 /\ slot <= n
  OBVIOUS
<1>2. /\ front \in Seq(Table) /\ Len(front) = slot - 1
      /\ \A i \in 1..(slot - 1) : front[i] = tables[i]
  <2>1. \A i \in 1..(slot - 1) : i \in 1..n
    BY <1>1
  <2> QED  BY <1>1, <2>1, SubSeqProperties
<1>3. /\ back \in Seq(Table) /\ Len(back) = n - slot
      /\ \A i \in 1..(n - slot) : back[i] = tables[slot + i]
  <2>1. /\ Len(back) = IF slot + 1 <= n THEN n - (slot + 1) + 1 ELSE 0
        /\ \A i \in 1..(n - (slot + 1) + 1) : back[i] = tables[slot + 1 + i - 1]
        /\ back \in Seq(Table)
    BY <1>1, SubSeqProperties
  <2> QED  BY <1>1, <2>1
<1>4. rest = front \o back
  BY DEF RemoveAt
<1> HIDE DEF front, back, rest
<1>5. /\ rest \in Seq(Table) /\ Len(rest) = (slot - 1) + (n - slot)
      /\ \A i \in 1..((slot - 1) + (n - slot)) :
           rest[i] = IF i <= slot - 1 THEN front[i] ELSE back[i - (slot - 1)]
  <2>1. /\ front \o back \in Seq(Table) /\ Len(front \o back) = Len(front) + Len(back)
        /\ \A i \in 1..(Len(front) + Len(back)) :
             (front \o back)[i] = IF i <= Len(front) THEN front[i] ELSE back[i - Len(front)]
    BY <1>2, <1>3, ConcatProperties
  <2> QED  BY <1>2, <1>3, <1>4, <2>1
<1>6. Len(rest) = n - 1
  BY <1>1, <1>5
<1>7. ASSUME NEW i \in 1..(n - 1)  PROVE rest[i] = tables[IF i < slot THEN i ELSE i + 1]
  <2>1. rest[i] = IF i <= slot - 1 THEN front[i] ELSE back[i - (slot - 1)]
    BY <1>1, <1>5
  <2>2. CASE i < slot
    BY <1>1, <1>2, <2>1, <2>2
  <2>3. CASE ~(i < slot)
    <3>1. i - (slot - 1) \in 1..(n - slot) /\ slot + (i - (slot - 1)) = i + 1
      BY <1>1, <2>3
    <3>2. rest[i] = back[i - (slot - 1)]
      BY <1>1, <2>1, <2>3
    <3> QED  BY <1>3, <2>3, <3>1, <3>2
  <2> QED  BY <2>2, <2>3
<1> QED  BY <1>5, <1>6, <1>7 DEF rest

(* And of one without the last. *)
LEMMA FrontTables ==
  ASSUME NEW tables \in Seq(Table), tables # <<>>
  PROVE  /\ Front(tables) \in Seq(Table) /\ Len(Front(tables)) = Len(tables) - 1
         /\ Len(tables) \in Nat
         /\ \A i \in 1..Len(Front(tables)) : Front(tables)[i] = tables[i]
<1> DEFINE n == Len(tables)
           front == SubSeq(tables, 1, n - 1)
<1>1. n \in Nat /\ n # 0
  BY EmptySeq
<1>2. \A i \in 1..(n - 1) : i \in 1..n
  BY <1>1
<1>3. front \in Seq(Table) /\ Len(front) = n - 1 /\ \A i \in 1..(n - 1) : front[i] = tables[i]
  <2> DEFINE last == n - 1
  <2>1. last \in Int /\ 1 \in Int /\ \A i \in 1..last : tables[i] \in Table
    BY <1>1, <1>2
  <2>2. /\ SubSeq(tables, 1, last) \in Seq(Table)
        /\ Len(SubSeq(tables, 1, last)) = IF 1 <= last THEN last - 1 + 1 ELSE 0
        /\ \A i \in 1..(last - 1 + 1) : SubSeq(tables, 1, last)[i] = tables[1 + i - 1]
    <3> HIDE DEF last
    <3> QED  BY <2>1, SubSeqProperties
  <2>3. last \in Nat /\ last - 1 + 1 = last
    BY <1>1
  <2>4. SubSeq(tables, 1, last) \in Seq(Table) /\ Len(SubSeq(tables, 1, last)) = last
    BY <2>2, <2>3
  <2>5. \A i \in 1..last : SubSeq(tables, 1, last)[i] = tables[i]
    <3> HIDE DEF last
    <3> QED  BY <2>2, <2>3
  <2> QED  BY <2>4, <2>5
<1>4. Front(tables) = front
  BY DEF Front
<1> HIDE DEF front
<1> QED  BY <1>1, <1>3, <1>4

(* Without the entry of a table, whose files may go. *)
LEMMA HonestRemove ==
  ASSUME NEW cat, NEW t, NEW rows, NEW trees, cat \in Database, Slots(cat, t) # {}
  PROVE  /\ Left(cat, t) \in Database
         /\ Honest(cat, rows, trees) =>
              Honest(Left(cat, t), rows, trees) /\ Unlisted(Left(cat, t), t)
<1> DEFINE tables == cat.tables
           slot == Slot(cat, t)
           rest == RemoveAt(tables, slot)
           from == [i \in 1..Len(rest) |-> IF i < slot THEN i ELSE i + 1]
<1>1. tables \in Seq(Table) /\ slot \in 1..Len(tables) /\ tables[slot].name = t
      /\ Len(tables) \in Nat
  <2>1. tables \in Seq(Table)
    BY DEF Database
  <2>2. slot \in 1..Len(tables) /\ tables[slot].name = t
    BY SlotFound DEF Info
  <2> QED  BY <2>1, <2>2
<1> HIDE DEF slot, tables
<1>2. /\ rest \in Seq(Table) /\ Len(rest) = Len(tables) - 1
      /\ \A i \in 1..Len(rest) : rest[i] = tables[IF i < slot THEN i ELSE i + 1]
  BY <1>1, RemoveTables
<1> HIDE DEF rest
<1>3. from \in [1..Len(rest) -> 1..Len(tables)]
  BY <1>1, <1>2
<1>4. \A i, k \in 1..Len(rest) : from[i] = from[k] => i = k
  BY <1>1, <1>2
<1>5. \A i \in 1..Len(rest) : rest[i] = tables[from[i]] /\ from[i] # slot
  BY <1>1, <1>2
<1> HIDE DEF from
<1> DEFINE new == [cat EXCEPT !.tables = rest]
<1>6. new \in Database /\ new.tables = rest
  BY <1>2 DEF Database
<1> HIDE DEF new
<1>7. ASSUME Honest(cat, rows, trees)
      PROVE  Honest(new, rows, trees) /\ Unlisted(new, t)
  <2>1. ASSUME NEW i \in 1..Len(rest)  PROVE rest[i].name # t \/ rest[i].name = Junk
    <3>1. from[i] \in 1..Len(tables) /\ from[i] # slot /\ rest[i] = tables[from[i]]
      BY <1>3, <1>5
    <3>2. Once(tables)
      BY <1>7 DEF Honest, tables
    <3> QED  BY <1>1, <3>1, <3>2 DEF Once
  <2>2. /\ from \in [1..Len(rest) -> 1..Len(cat.tables)]
        /\ \A i \in 1..Len(rest) : rest[i] = cat.tables[from[i]]
    BY <1>3, <1>5 DEF tables
  <2>3. rest \in Seq(Table) /\ \A i, k \in 1..Len(rest) : from[i] = from[k] => i = k
    BY <1>2, <1>4
  <2>4. Apart(t, rows, trees, rows, trees)
    BY DEF Apart
  <2>5. Honest([cat EXCEPT !.tables = rest], rows, trees)
    BY <1>7, <2>1, <2>2, <2>3, <2>4, HonestPart
  <2>6. Unlisted(new, t)
    BY <1>6, <2>1 DEF Unlisted
  <2> QED  BY <2>5, <2>6 DEF new
<1>8. Left(cat, t) = new
  BY DEF Left, rest, slot, tables, new
<1> QED  BY <1>6, <1>7, <1>8

(* Without the last entry, when none has the name. *)
LEMMA HonestFront ==
  ASSUME NEW cat, NEW t, NEW rows, NEW trees,
         cat \in Database, cat.tables # <<>>, Slots(cat, t) = {}
  PROVE  LET new == [cat EXCEPT !.tables = Front(@)]
         IN  new \in Database /\ (Honest(cat, rows, trees) => Honest(new, rows, trees))
<1> DEFINE tables == cat.tables
           rest == Front(tables)
           from == [i \in 1..Len(rest) |-> i]
<1>1. tables \in Seq(Table)
  BY DEF Database
<1>2. /\ rest \in Seq(Table) /\ Len(rest) = Len(tables) - 1 /\ Len(tables) \in Nat
      /\ \A i \in 1..Len(rest) : rest[i] = tables[i]
  BY <1>1, FrontTables
<1>3. \A i \in 1..Len(tables) : tables[i].name # t
  BY <1>1 DEF Slots
<1> HIDE DEF rest, tables
<1>4. from \in [1..Len(rest) -> 1..Len(tables)] /\ \A i \in 1..Len(rest) : from[i] = i
  BY <1>2
<1> HIDE DEF from
<1>5. [cat EXCEPT !.tables = rest] \in Database
  BY <1>2 DEF Database
<1>6. ASSUME Honest(cat, rows, trees)
      PROVE  Honest([cat EXCEPT !.tables = rest], rows, trees)
  <2>1. \A i \in 1..Len(rest) : rest[i].name # t \/ rest[i].name = Junk
    BY <1>2, <1>3
  <2>2. Apart(t, rows, trees, rows, trees)
    BY DEF Apart
  <2>3. /\ from \in [1..Len(rest) -> 1..Len(cat.tables)]
        /\ \A i \in 1..Len(rest) : rest[i] = cat.tables[from[i]]
        /\ \A i, k \in 1..Len(rest) : from[i] = from[k] => i = k
    BY <1>2, <1>4 DEF tables
  <2> QED  BY <1>2, <1>6, <2>1, <2>2, <2>3, HonestPart
<1> QED  BY <1>5, <1>6 DEF rest, tables

(* A database without tables. *)
LEMMA HonestEmpty ==
  ASSUME NEW rows, NEW trees
  PROVE  EmptyDatabase \in Database /\ Honest(EmptyDatabase, rows, trees)
<1>1. <<>> \in Seq(Table) /\ Len(<<>>) = 0
  OBVIOUS
<1> QED  BY <1>1 DEF EmptyDatabase, Honest, Once, Database

(* What is read of a dbInfo: the tables it lists, and junk. *)
LEMMA PaddedTables ==
  ASSUME NEW cat \in Database
  PROVE  LET new == Padded(cat)
         IN  /\ new \in Database /\ Covers(cat, new)
             /\ \A rows, trees : Honest(cat, rows, trees) => Honest(new, rows, trees)
<1> DEFINE tables == cat.tables
           n == Len(tables)
           rest == cat.tableNum - n
           junk == [name |-> Junk, indexed |-> {}, dataNum |-> 0]
           filling == [i \in 1..rest |-> junk]
           all == tables \o filling
           new == Padded(cat)
<1>1. tables \in Seq(Table) /\ n \in Nat /\ rest \in Int
  BY DEF Database
<1>2. junk \in Table /\ junk.name = Junk
  BY DEF Table
<1>3. /\ filling \in Seq(Table) /\ Len(filling) \in Nat
      /\ \A i \in 1..Len(filling) : filling[i] = junk
  <2>1. CASE rest >= 0
    <3>1. filling \in [1..rest -> Table] /\ \A i \in 1..rest : filling[i] = junk
      BY <1>2
    <3> HIDE DEF filling, rest, junk
    <3>2. rest \in Nat
      BY <1>1, <2>1
    <3>3. filling \in Seq(Table) /\ Len(filling) = rest
      BY <3>1, <3>2
    <3> QED  BY <3>1, <3>2, <3>3
  <2>2. CASE ~(rest >= 0)
    <3>1. 1..rest = {}
      BY <1>1, <2>2
    <3>2. filling = <<>>
      BY <3>1
    <3>3. <<>> \in Seq(Table) /\ Len(<<>>) = 0 /\ 1..0 = {}
      OBVIOUS
    <3> HIDE DEF filling
    <3> QED  BY <3>2, <3>3
  <2> QED  BY <2>1, <2>2
<1>4. new = [cat EXCEPT !.tables = all]
  BY DEF Padded
<1> HIDE DEF filling, tables, n
<1>5. /\ all \in Seq(Table) /\ Len(all) = n + Len(filling)
      /\ \A i \in 1..(n + Len(filling)) :
           all[i] = IF i <= n THEN tables[i] ELSE filling[i - n]
  BY <1>1, <1>3, ConcatProperties DEF n
<1> HIDE DEF all
<1>6. \A i \in 1..Len(all) :
        \/ i \in 1..n /\ all[i] = tables[i]
        \/ all[i].name = Junk
  <2> TAKE i \in 1..Len(all)
  <2>1. CASE i <= n
    BY <1>1, <1>3, <1>5, <2>1
  <2>2. CASE ~(i <= n)
    <3>1. i - n \in 1..Len(filling) /\ all[i] = filling[i - n]
      BY <1>1, <1>3, <1>5, <2>2
    <3> QED  BY <1>2, <1>3, <3>1
  <2> QED  BY <2>1, <2>2
<1>7. new \in Database /\ new.tables = all
  BY <1>4, <1>5 DEF Database
<1> HIDE DEF new
<1>8. Covers(cat, new)
  <2>1. \A i \in 1..n : i \in DOMAIN new.tables /\ new.tables[i] = cat.tables[i]
    BY <1>1, <1>3, <1>5, <1>7 DEF tables
  <2>2. DOMAIN cat.tables = 1..n
    BY <1>1 DEF tables, n
  <2> QED  BY <2>1, <2>2 DEF Covers, Slots
<1>9. ASSUME NEW rows, NEW trees, Honest(cat, rows, trees)  PROVE Honest(new, rows, trees)
  <2>1. Once(tables) /\ \A i \in 1..n : InFiles(tables[i], rows, trees)
    BY <1>9 DEF Honest, tables, n
  <2>2. Once(all)
    BY <1>6, <2>1 DEF Once, n
  <2>3. \A i \in 1..Len(all) : InFiles(all[i], rows, trees)
    BY <1>6, <2>1 DEF InFiles
  <2> QED  BY <1>7, <2>2, <2>3 DEF Honest
<1> QED  BY <1>7, <1>9, <1>8 DEF new

(* What USE finds. *)
LEMMA Opened ==
  ASSUME Typed, NEW cat \in OpenDatabase
  PROVE  /\ cat = None \/ cat \in Database
         /\ Honest(dbInfo, data, index) =>
              cat = None \/ (Honest(cat, data, index) /\ Covers(dbInfo, cat))
<1>1. dbInfo \in Database \cup {Absent, Torn}
  BY DEF Typed, AllFiles
<1>2. \/ cat = None
      \/ dbInfo = Torn /\ cat = EmptyDatabase
      \/ dbInfo \in Database /\ cat = Padded(dbInfo)
  BY <1>1 DEF OpenDatabase
<1>3. CASE dbInfo \in Database /\ cat = Padded(dbInfo)
  BY <1>3, PaddedTables
<1>4. CASE dbInfo = Torn /\ cat = EmptyDatabase
  BY <1>4, HonestEmpty, AbsentAssumption DEF Honest
<1> QED  BY <1>2, <1>3, <1>4

(* The index a statement uses is one of the table's columns. *)
LEMMA UseIndexField ==
  ASSUME NEW info, NEW filter, UseIndex(info, filter) # <<>>
  PROVE  UseIndex(info, filter)[1] \in Fields
<1> DEFINE compared == {f \in Fields : filter[f].op = "TK_EQ"}
           indexed == info.indexed
           use == UseIndex(info, filter)
<1>1. FieldList \in Seq(Fields)
  BY Columns
<1> HIDE DEF compared, indexed
<1>2. Among(FieldList, indexed) \in Seq(Fields \cap indexed)
  BY <1>1, AmongProperties
<1>3. Among(Among(FieldList, indexed), compared) \in Seq((Fields \cap indexed) \cap compared)
  BY <1>2, AmongProperties
<1>4. use \in Seq((Fields \cap indexed) \cap compared)
  BY <1>3 DEF UseIndex, Indexed, compared, indexed
<1> HIDE DEF use
<1>5. Len(use) \in Nat /\ Len(use) # 0
  BY <1>4, EmptySeq DEF use
<1>6. use[1] \in (Fields \cap indexed) \cap compared
  BY <1>4, <1>5, ElementOfSeq
<1> QED  BY <1>6 DEF use

-----------------------------------------------------------------------------
(* A session without a statement. *)
LEMMA Idle ==
  ASSUME Typed, NEW s \in Sessions, pc[s] = "idle"
  PROVE  /\ Whole /\ AllFiles /\ job[s] = NoJob /\ (db[s] = None \/ db[s] \in Database)
         /\ pc[s] \notin Flushing /\ pc[s] \notin Holding /\ ~Appending(pc[s], job[s])
BY Working DEF Flushing, Holding, Appending

(* Where rm takes names away the sessions that have the files open keep them. *)
LEMMA BackingKept ==
  ASSUME Typed, AllFiles', NEW o \in Sessions, NEW names, NEW trees,
         \A t \in Tables : data'[t] = data[t] \/ t \in names,
         \A i \in Tables \X Fields : index'[i] = index[i] \/ i \in trees,
         stray'[o].tree = IF /\ pc[o] \in Holding /\ stray[o].tree = None
                             /\ Held(pc[o], job[o]) \in trees
                          THEN index[Held(pc[o], job[o])] ELSE stray[o].tree,
         stray[o].out \/ (Appending(pc[o], job[o]) /\ job[o].table \in names) => stray'[o].out
  PROVE  Backing(pc[o], job[o], data', index', stray'[o])
<1> DEFINE i == Held(pc[o], job[o])
<1>1. Backing(pc[o], job[o], data, index, stray[o])
  BY Working
<1>2. ASSUME pc[o] \in Holding  PROVE stray'[o].tree # None \/ index'[i] # Absent
  <2>1. i \in Tables \X Fields /\ index[i] \in Index \cup {Absent}
    BY <1>2, HeldColumn DEF Typed, AllFiles
  <2>2. stray[o].tree # None \/ (index[i] # Absent /\ index[i] # None)
    BY <1>1, <1>2, <2>1, AbsentAssumption DEF Backing
  <2> HIDE DEF i
  <2> QED  BY <1>2, <2>1, <2>2 DEF i
<1>3. ASSUME Appending(pc[o], job[o])  PROVE stray'[o].out \/ data'[job[o].table] # Absent
  <2>1. job[o].table \in Tables
    BY <1>3, Working DEF Appending, Outside
  <2> QED  BY <1>1, <1>3, <2>1 DEF Backing
<1> QED  BY <1>2, <1>3 DEF Backing

(* What is kept is an index. *)
LEMMA KeptTree ==
  ASSUME Typed, NEW o \in Sessions, pc[o] \in Holding, stray[o].tree = None
  PROVE  index[Held(pc[o], job[o])] \in Index
<1>1. Held(pc[o], job[o]) \in Tables \X Fields /\ index[Held(pc[o], job[o])] # Absent
  BY TreeThere
<1> QED  BY <1>1 DEF Typed, AllFiles

(* Some files of a table are removed by a session that has none of them open. *)
LEMMA Removed ==
  ASSUME Typed, NEW s \in Sessions, pc[s] \notin Holding, ~Appending(pc[s], job[s]),
         NEW names, NEW trees, RemoveFiles(names, trees), UNCHANGED <<dir, dbInfo>>
  PROVE  /\ AllFiles' /\ Spares(s) /\ stray'[s] = stray[s]
         /\ NoFiles(data, index) => NoFiles(data', index')
<1>1. AllFiles
  BY DEF Typed
<1>2. /\ data' = [t \in Tables |-> IF t \in names THEN Absent ELSE data[t]]
      /\ index' = [i \in Tables \X Fields |-> IF i \in trees THEN Absent ELSE index[i]]
  BY DEF RemoveFiles
<1>3. /\ DOMAIN stray' = Sessions
      /\ \A o \in Sessions :
           stray'[o] = [tree |-> IF /\ pc[o] \in Holding /\ stray[o].tree = None
                                    /\ Held(pc[o], job[o]) \in trees
                                 THEN index[Held(pc[o], job[o])] ELSE stray[o].tree,
                        out  |-> \/ stray[o].out
                                 \/ Appending(pc[o], job[o]) /\ job[o].table \in names]
  BY DEF RemoveFiles
<1>4. ASSUME NEW o \in Sessions  PROVE stray'[o] \in [tree : Index \cup {None}, out : BOOLEAN]
  <2>1. stray[o].tree \in Index \cup {None} /\ stray[o].out \in BOOLEAN
    BY <1>1 DEF AllFiles
  <2>2. pc[o] \in Holding /\ stray[o].tree = None => index[Held(pc[o], job[o])] \in Index
    BY KeptTree
  <2> DEFINE tree == IF /\ pc[o] \in Holding /\ stray[o].tree = None
                        /\ Held(pc[o], job[o]) \in trees
                     THEN index[Held(pc[o], job[o])] ELSE stray[o].tree
             out == stray[o].out \/ (Appending(pc[o], job[o]) /\ job[o].table \in names)
  <2>3. stray'[o] = [tree |-> tree, out |-> out]
    BY <1>3
  <2>4. tree \in Index \cup {None}
    BY <2>1, <2>2
  <2>5. out \in BOOLEAN
    OBVIOUS
  <2> HIDE DEF tree, out
  <2> QED  BY <2>3, <2>4, <2>5
<1>5. stray' \in [Sessions -> [tree : Index \cup {None}, out : BOOLEAN]]
  <2>1. stray' = [o \in Sessions |-> stray'[o]]
    BY DEF RemoveFiles
  <2> QED  BY <1>4, <2>1
<1>6. AllFiles'
  BY <1>1, <1>2, <1>5 DEF AllFiles
<1>7. /\ \A t \in Tables : data'[t] = data[t] \/ t \in names
      /\ \A i \in Tables \X Fields : index'[i] = index[i] \/ i \in trees
  BY <1>2
<1>8. Spares(s)
  <2> SUFFICES ASSUME NEW o \in Sessions
               PROVE  Backing(pc[o], job[o], data', index', stray'[o])
    BY DEF Spares
  <2>1. stray'[o].tree = IF /\ pc[o] \in Holding /\ stray[o].tree = None
                            /\ Held(pc[o], job[o]) \in trees
                         THEN index[Held(pc[o], job[o])] ELSE stray[o].tree
    BY <1>3
  <2>2. stray[o].out \/ (Appending(pc[o], job[o]) /\ job[o].table \in names) => stray'[o].out
    BY <1>3
  <2> QED  BY <1>6, <1>7, <2>1, <2>2, BackingKept
<1>9. stray'[s] = stray[s]
  <2>1. stray[s] \in [tree : Index \cup {None}, out : BOOLEAN]
    BY <1>1 DEF AllFiles
  <2>2. stray'[s] = [tree |-> stray[s].tree, out |-> stray[s].out \/ FALSE]
    BY <1>3
  <2> QED  BY <2>1, <2>2
<1>10. NoFiles(data, index) => NoFiles(data', index')
  BY <1>2 DEF NoFiles
<1> QED  BY <1>6, <1>8, <1>9, <1>10

-----------------------------------------------------------------------------
(* USE loads the catalog of the database, or dies opening it. *)
LEMMA UseServes ==
  ASSUME Typed, NEW s \in Sessions, ManagerUseDatabase(s)
  PROVE  Serves(s) /\ Tidies(s)
<1>1. /\ pc[s] = "idle" /\ Whole /\ AllFiles /\ job[s] = NoJob /\ pc[s] \notin Flushing
  BY Idle DEF ManagerUseDatabase, Begins
<1>2. CASE OpenCrashes /\ Crash(s)
  BY <1>1, <1>2, CrashServes
<1>3. CASE /\ \E cat \in OpenDatabase : db' = [db EXCEPT ![s] = cat]
           /\ UNCHANGED <<disk, pc, job, deaths>>
  <2>1. PICK cat \in OpenDatabase : db' = [db EXCEPT ![s] = cat]
    BY <1>3
  <2>2. /\ AllFiles' /\ Spares(s) /\ UNCHANGED <<dir, dbInfo, data, index, stray>>
    BY <1>3, DiskStays
  <2>3. Others(s) /\ db'[s] = cat /\ pc'[s] = "idle" /\ job'[s] = NoJob
    BY <1>1, <1>3, <2>1 DEF Others, Whole
  <2>4. /\ cat = None \/ cat \in Database
        /\ Honest(dbInfo, data, index) =>
             cat = None \/ (Honest(cat, data, index) /\ Covers(dbInfo, cat))
    BY Opened
  <2>5. Client("idle", cat, NoJob, data', index', stray'[s])
    BY <2>4, NoJobFields DEF Client, Positions, Outside, Backing, Holding, Appending
  <2>6. Tidies(s)
    <3> HIDE DEF Honest, Covers
    <3> QED  BY <1>1, <2>2, <2>3, <2>4 DEF Tidies, Orderly, Flushing
  <2> QED  BY <2>2, <2>3, <2>5, <2>6 DEF Serves
<1> QED  BY <1>2, <1>3 DEF ManagerUseDatabase

(* A kill, which may come in the middle of a dbInfo. *)
LEMMA KillServes ==
  ASSUME Typed, NEW s \in Sessions, Kill(s)
  PROVE  /\ Serves(s)
         /\ pc[s] \notin Flushing => Tidies(s)
         /\ pc[s] # "idle" => Advances(s)
<1>1. /\ Whole /\ AllFiles /\ job[s].todo \in Seq(Int) /\ job[s].hits \in Seq(Int)
      /\ pc[s] \in Positions /\ (db[s] = None \/ db[s] \in Database)
  BY Working
<1>2. Stop(s, "crashed") /\ UNCHANGED <<dir, dbInfo, data, index, db>> /\ pc[s] # "crashed"
  BY DEF Kill
<1>3. /\ Others(s) /\ pc'[s] = "crashed" /\ job'[s] = NoJob /\ db'[s] = db[s]
      /\ stray' \in [Sessions -> [tree : Index \cup {None}, out : BOOLEAN]]
      /\ \A o \in Sessions \ {s} : stray'[o] = stray[o]
      /\ stray'[s] = NoStray
  BY <1>2, Stopped
<1>4. AllFiles' /\ Adds(s) /\ Grounded
  <2>1. AllFiles'
    BY <1>1, <1>2, <1>3 DEF AllFiles
  <2> QED  BY <1>2, <1>3, <2>1, SameAdds
<1>5. Client(pc'[s], db'[s], job'[s], data', index', stray'[s])
  BY <1>1, <1>3, NoJobFields DEF Client, Positions, Outside, Backing, Holding, Appending
<1>6. Serves(s)
  BY <1>3, <1>4, <1>5, AddsSpares DEF Serves
<1>7. pc[s] \notin Flushing => Tidies(s)
  BY <1>2, <1>3, <1>4, AddsTidies
<1>8. pc[s] # "idle" => Advances(s)
  <2> SUFFICES ASSUME pc[s] # "idle"  PROVE Advances(s)
    OBVIOUS
  <2>1. Rank["crashed"] < Rank[pc[s]]
    BY <1>1, <1>2, Ranks
  <2>2. Less(Measure("crashed", NoJob), Measure(pc[s], job[s]))
    BY <1>1, <2>1, NothingLeft
  <2> QED  BY <1>3, <2>2 DEF Advances
<1> QED  BY <1>6, <1>7, <1>8

(* A new client. *)
LEMMA ConnectServes ==
  ASSUME Typed, NEW s \in Sessions, Connect(s)
  PROVE  Serves(s) /\ Tidies(s) /\ pc[s] = "crashed"
<1>1. pc[s] = "crashed" /\ UNCHANGED <<disk, job>>
  BY DEF Connect
<1>2. Whole /\ job[s] = NoJob
  BY <1>1, Working
<1>3. /\ Others(s) /\ pc'[s] = "idle" /\ job'[s] = NoJob /\ db'[s] = None
  BY <1>1, <1>2 DEF Connect, Go, Others, Whole
<1>4. AllFiles' /\ Adds(s) /\ Grounded /\ UNCHANGED <<dir, dbInfo, data, index, stray>>
  BY <1>1, DiskStays
<1>5. Client(pc'[s], db'[s], job'[s], data', index', stray'[s])
  BY <1>3, NoJobFields DEF Client, Positions, Outside, Backing, Holding, Appending
<1> QED  BY <1>1, <1>3, <1>4, <1>5, AddsServes DEF Flushing

(* fopen "a" leaves the rows there are, or makes an empty file. *)
LEMMA DataOpened ==
  ASSUME Typed, NEW s \in Sessions, NEW t \in Tables, dir,
         data' = [data EXCEPT ![t] = IF @ = Absent THEN <<>> ELSE @],
         UNCHANGED <<dir, dbInfo, index, stray>>
  PROVE  AllFiles' /\ Adds(s) /\ Grounded /\ data'[t] # Absent
<1> DEFINE opened == IF data[t] = Absent THEN <<>> ELSE data[t]
<1>1. AllFiles
  BY DEF Typed
<1>2. opened \in Seq(Row) /\ opened # Absent /\ (data[t] # Absent => opened = data[t])
  <2>1. <<>> \in Seq(Row)
    OBVIOUS
  <2>2. <<>> # Absent
    BY <2>1, AbsentAssumption
  <2> QED  BY <1>1, <2>1, <2>2 DEF AllFiles
<1>3. data' = [data EXCEPT ![t] = opened]
  OBVIOUS
<1> HIDE DEF opened
<1>4. data' \in [Tables -> Seq(Row) \cup {Absent}] /\ data'[t] # Absent
  BY <1>1, <1>2, <1>3 DEF AllFiles
<1>5. AllFiles'
  BY <1>1, <1>4 DEF AllFiles
<1>6. ASSUME NEW u \in Tables
      PROVE  /\ Stays(u, data, index, data', index')
             /\ data[u] # Absent => Len(data'[u]) >= Len(data[u])
  <2>1. data[u] # Absent => data'[u] = data[u]
    BY <1>1, <1>2, <1>3 DEF AllFiles
  <2>2. data[u] # Absent => Len(data[u]) \in Nat
    BY <1>1 DEF AllFiles
  <2> QED  BY <2>1, <2>2 DEF Stays
<1> QED  BY <1>4, <1>5, <1>6 DEF Adds, Grounded

(* The columns that have an index. *)
LEMMA IndexedColumns ==
  ASSUME NEW info
  PROVE  LET keys == Indexed(info)
         IN  keys \in Seq(Fields) /\ Len(keys) \in Nat /\ (keys # <<>> => Len(keys) # 0)
<1> DEFINE indexed == info.indexed
           keys == Indexed(info)
<1>1. FieldList \in Seq(Fields)
  BY Columns
<1> HIDE DEF indexed
<1>2. Among(FieldList, indexed) \in Seq(Fields \cap indexed)
  BY <1>1, AmongProperties
<1>3. keys = Among(FieldList, indexed)
  BY DEF Indexed, indexed
<1> HIDE DEF keys
<1>4. keys \in Seq(Fields)
  BY <1>2, <1>3
<1>5. keys \in Seq(Fields) /\ Len(keys) \in Nat /\ (keys # <<>> => Len(keys) # 0)
  BY <1>4, EmptySeq
<1> QED  BY <1>5 DEF keys

(* INSERT opens the data and makes its row. *)
LEMMA InsertServes ==
  ASSUME Typed, NEW s \in Sessions, NEW t \in Tables,
         NEW given \in [Fields \ {"id"} -> Values \cup {None}], ManagerInsert(s, t, given)
  PROVE  Serves(s) /\ Tidies(s)
<1> DEFINE info == Info(db[s], t)
           row  == [f \in Fields |-> IF f = "id" THEN info.dataNum
                                     ELSE IF given[f] = None THEN 0 ELSE given[f]]
           keys == Indexed(info)
           todo == [i \in DOMAIN keys |-> row[keys[i]]]
           j == [NoJob EXCEPT !.op = "insert", !.table = t, !.row = row, !.todo = todo]
           p == IF keys = <<>> THEN "append" ELSE "open"
<1>1. /\ pc[s] = "idle" /\ Whole /\ AllFiles /\ job[s] = NoJob
      /\ pc[s] \notin Flushing /\ (db[s] = None \/ db[s] \in Database)
  BY Idle DEF ManagerInsert, Begins
<1>2. db[s] # None /\ db[s] \in Database /\ Slots(db[s], t) # {}
  BY <1>1 DEF ManagerInsert, Has
<1>3. info.dataNum \in Nat
  BY <1>2, HonestInfo
<1>4. row \in Row
  <2>1. \A f \in Fields : row[f] \in Values \cup Int
    BY <1>3
  <2> QED  BY <2>1 DEF Row
<1>5. \A f \in Fields : row[f] \in Int
  <2> HIDE DEF row
  <2> QED  BY <1>4, ValuesAssumption DEF Row
<1>6. keys \in Seq(Fields) /\ Len(keys) \in Nat /\ (keys # <<>> => Len(keys) # 0)
  BY IndexedColumns
<1> HIDE DEF row, keys, info
<1>7. todo \in Seq(Int) /\ (keys # <<>> => todo # <<>>)
  <2>1. todo \in [1..Len(keys) -> Int]
    BY <1>5, <1>6
  <2> HIDE DEF todo
  <2>2. todo \in Seq(Int) /\ Len(todo) = Len(keys)
    BY <1>6, <2>1
  <2>3. Len(todo) # 0 => todo # <<>>
    BY <2>2, EmptySeq
  <2> QED  BY <1>6, <2>2, <2>3
<1>8. \/ /\ dir
         /\ data' = [data EXCEPT ![t] = IF @ = Absent THEN <<>> ELSE @]
         /\ job' = [job EXCEPT ![s] = j]
         /\ Go(s, p)
         /\ UNCHANGED <<dir, dbInfo, index, stray, db, deaths>>
      \/ ~dir /\ Crash(s)
  BY DEF ManagerInsert, row, keys, info
<1>9. CASE ~dir /\ Crash(s)
  BY <1>1, <1>9, CrashServes
<1>10. CASE /\ dir
            /\ data' = [data EXCEPT ![t] = IF @ = Absent THEN <<>> ELSE @]
            /\ job' = [job EXCEPT ![s] = j]
            /\ Go(s, p)
            /\ UNCHANGED <<dir, dbInfo, index, stray, db, deaths>>
  <2>1. AllFiles' /\ Adds(s) /\ Grounded /\ data'[t] # Absent
    BY <1>10, DataOpened
  <2> HIDE DEF todo
  <2>2. /\ DOMAIN j = DOMAIN NoJob /\ j.op = "insert" /\ j.table = t /\ j.row = row
        /\ j.todo = todo /\ j.head = FALSE /\ j.hits = <<>> /\ j.hits \in Seq(Int)
    <3>1. <<>> \in Seq(Int)
      OBVIOUS
    <3> QED  BY <3>1 DEF NoJob
  <2> HIDE DEF j
  <2>3. Others(s) /\ pc'[s] = p /\ job'[s] = j /\ db'[s] = db[s]
    BY <1>1, <1>10 DEF Others, Whole, Go
  <2>4. Storing(p, db[s], j)
    BY <1>2, <1>4, <1>7, <2>2 DEF Storing
  <2>5. Backing(p, j, data', index', stray'[s])
    BY <2>1, <2>2 DEF Backing, Holding
  <2>6. Client(p, db[s], j, data', index', stray'[s])
    BY <1>2, <1>7, <2>2, <2>4, <2>5 DEF Client, Positions, Outside
  <2>7. p \notin {"truncate", "write", "remove", "make"}
    OBVIOUS
  <2> HIDE DEF p
  <2>8. Client(pc'[s], db'[s], job'[s], data', index', stray'[s])
    BY <2>3, <2>6
  <2> QED  BY <1>1, <1>10, <2>1, <2>3, <2>7, <2>8, AddsServes
<1> QED  BY <1>8, <1>9, <1>10

(* A scan or a lookup begins. *)
LEMMA QueryServes ==
  ASSUME Typed, NEW s \in Sessions, NEW op \in {"select", "update", "delete"},
         NEW t \in Tables, NEW list, NEW field, NEW value, op = "update" => value \in Values,
         Query(s, op, t, list, field, value)
  PROVE  Serves(s) /\ Tidies(s)
<1> DEFINE info   == Info(db[s], t)
           filter == Filter(Fields, list)
           use    == UseIndex(info, filter)
           j      == [NoJob EXCEPT !.op = op, !.table = t, !.filter = filter,
                                   !.field = field, !.value = value]
<1>1. /\ pc[s] = "idle" /\ Whole /\ AllFiles
      /\ pc[s] \notin Flushing /\ (db[s] = None \/ db[s] \in Database)
  BY Idle DEF Query, Begins
<1>2. db[s] # None /\ db[s] \in Database /\ Slots(db[s], t) # {}
  BY <1>1 DEF Query, Has
<1>3. info.dataNum \in Nat
  BY <1>2, HonestInfo
<1>4. /\ AllFiles' /\ Adds(s) /\ Grounded /\ UNCHANGED <<dir, dbInfo, data, index, stray>>
      /\ db' = db
  <2>1. UNCHANGED disk /\ db' = db
    BY DEF Query
  <2> QED  BY <2>1, DiskStays
<1>5. /\ DOMAIN j = DOMAIN NoJob /\ j.op = op /\ j.table = t /\ j.todo = <<>>
      /\ j.field = field /\ j.value = value /\ j.head = FALSE /\ j.hits = <<>>
      /\ <<>> \in Seq(Int)
  <2>1. <<>> \in Seq(Int)
    OBVIOUS
  <2> QED  BY <2>1 DEF NoJob
<1>6. \/ /\ job' = [job EXCEPT ![s] = [j EXCEPT !.todo = ScanKeys(info)]]
         /\ pc' = [pc EXCEPT ![s] = "open"]
      \/ /\ use # <<>> /\ job' = [job EXCEPT ![s] = [j EXCEPT !.use = use[1]]]
         /\ pc' = [pc EXCEPT ![s] = "open use"]
  BY DEF Query, Go
<1> HIDE DEF j, filter, info, use
<1>7. CASE /\ job' = [job EXCEPT ![s] = [j EXCEPT !.todo = ScanKeys(info)]]
           /\ pc' = [pc EXCEPT ![s] = "open"]
  <2> DEFINE k == [j EXCEPT !.todo = ScanKeys(info)]
  <2>1. Others(s) /\ job'[s] = k /\ pc'[s] = "open" /\ db'[s] = db[s]
    BY <1>1, <1>4, <1>7 DEF Others, Whole
  <2>2. ScanKeys(info) \in Seq(Int)
    <3>1. ScanKeys(info) \in [1..info.dataNum -> Int]
      BY <1>3 DEF ScanKeys
    <3> QED  BY <1>3, <3>1
  <2>3. DOMAIN k = DOMAIN NoJob /\ k.op = op /\ k.table = t /\ k.todo = ScanKeys(info)
        /\ k.field = field /\ k.value = value /\ k.head = FALSE /\ k.hits = <<>>
    BY <1>5, JobFields
  <2> HIDE DEF k
  <2>4. Looking("open", k)
    BY <2>3 DEF Looking
  <2>5. Backing("open", k, data', index', stray'[s])
    BY <2>3 DEF Backing, Holding, Appending
  <2>6. Client("open", db[s], k, data', index', stray'[s])
    BY <1>2, <1>5, <2>2, <2>3, <2>4, <2>5 DEF Client, Positions, Outside
  <2>7. Client(pc'[s], db'[s], job'[s], data', index', stray'[s])
    BY <2>1, <2>6
  <2> QED  BY <1>1, <1>4, <2>1, <2>7, AddsServes
<1>8. CASE /\ use # <<>> /\ job' = [job EXCEPT ![s] = [j EXCEPT !.use = use[1]]]
           /\ pc' = [pc EXCEPT ![s] = "open use"]
  <2> DEFINE k == [j EXCEPT !.use = use[1]]
  <2>1. Others(s) /\ job'[s] = k /\ pc'[s] = "open use" /\ db'[s] = db[s]
    BY <1>1, <1>4, <1>8 DEF Others, Whole
  <2>2. use[1] \in Fields
    BY <1>8, UseIndexField DEF use
  <2>3. DOMAIN k = DOMAIN NoJob /\ k.op = op /\ k.table = t /\ k.todo = <<>> /\ k.use = use[1]
        /\ k.field = field /\ k.value = value /\ k.head = FALSE /\ k.hits = <<>>
    BY <1>5, JobFields
  <2> HIDE DEF k
  <2>4. Looking("open use", k)
    BY <2>2, <2>3 DEF Looking
  <2>5. Backing("open use", k, data', index', stray'[s])
    BY <2>3 DEF Backing, Holding, Appending
  <2>6. Client("open use", db[s], k, data', index', stray'[s])
    BY <1>2, <1>5, <2>3, <2>4, <2>5 DEF Client, Positions, Outside
  <2>7. Client(pc'[s], db'[s], job'[s], data', index', stray'[s])
    BY <2>1, <2>6
  <2> QED  BY <1>1, <1>4, <2>1, <2>7, AddsServes
<1> QED  BY <1>6, <1>7, <1>8

(* Such a statement goes on to write the catalog. *)
LEMMA CatalogServes ==
  ASSUME Typed, NEW s \in Sessions, AllFiles', Spares(s), NEW j, NEW new \in Database,
         DOMAIN j = DOMAIN NoJob, j.head \in BOOLEAN, j.todo \in Seq(Int), j.hits \in Seq(Int),
         pc' = [pc EXCEPT ![s] = "truncate"],
         job' = [job EXCEPT ![s] = j] \/ (job' = job /\ j = job[s]),
         db' = [db EXCEPT ![s] = new], dir' = dir,
         stray[s] = NoStray => stray'[s] = NoStray,
         ~dir /\ NoFiles(data, index) => NoFiles(data', index'),
         dir /\ stray[s] = NoStray /\ Orderly(dir, pc[s], db[s], job[s], dbInfo, data, index) =>
           Honest(new, data', index')
  PROVE  Serves(s) /\ Tidies(s)
<1>1. Whole
  BY Working
<1>2. Others(s) /\ pc'[s] = "truncate" /\ job'[s] = j /\ db'[s] = new
  BY <1>1 DEF Others, Whole
<1>3. Client("truncate", new, j, data', index', stray'[s])
  BY DEF Client, Positions, Outside, Backing, Holding, Appending
<1>4. Client(pc'[s], db'[s], job'[s], data', index', stray'[s])
  BY <1>2, <1>3
<1>5. Tidies(s)
  <2> SUFFICES ASSUME stray[s] = NoStray,
                      Orderly(dir, pc[s], db[s], job[s], dbInfo, data, index)
               PROVE  Orderly(dir, "truncate", new, j, dbInfo', data', index')
    BY <1>2 DEF Tidies
  <2>1. CASE dir
    <3>1. Honest(new, data', index')
      BY <2>1
    <3> HIDE DEF Honest
    <3> QED  BY <2>1, <3>1 DEF Orderly, Flushing
  <2>2. CASE ~dir
    <3>1. NoFiles(data', index')
      BY <2>2 DEF Orderly
    <3> QED  BY <2>2, <3>1 DEF Orderly
  <2> QED  BY <2>1, <2>2
<1> QED  BY <1>2, <1>4, <1>5 DEF Serves

(* What is believed of the catalog of a session that begins a statement. *)
LEMMA Believed ==
  ASSUME NEW s \in Sessions, dir, pc[s] \notin Flushing, db[s] # None,
         Orderly(dir, pc[s], db[s], job[s], dbInfo, data, index)
  PROVE  /\ Honest(dbInfo, data, index) /\ Honest(db[s], data, index)
         /\ Covers(dbInfo, db[s])
BY DEF Orderly

(* A new database has no files but its directory. *)
LEMMA CreateDatabaseServes ==
  ASSUME Typed, NEW s \in Sessions, ManagerCreateDatabase(s)
  PROVE  Serves(s) /\ Tidies(s)
<1>1. Whole /\ AllFiles
  BY Working
<1>2. /\ dir' = TRUE /\ UNCHANGED <<dbInfo, data, index, stray>>
      /\ pc' = [pc EXCEPT ![s] = "truncate"] /\ job' = [job EXCEPT ![s] = NoJob]
      /\ db' = [db EXCEPT ![s] = EmptyDatabase]
  BY DEF ManagerCreateDatabase, Go
<1>3. Others(s) /\ pc'[s] = "truncate" /\ job'[s] = NoJob /\ db'[s] = EmptyDatabase
  BY <1>1, <1>2 DEF Others, Whole
<1>4. AllFiles'
  BY <1>1, <1>2 DEF AllFiles
<1>5. Spares(s)
  <2>1. Adds(s)
    BY <1>2, SameAdds
  <2> QED  BY <2>1, AddsSpares
<1>6. EmptyDatabase \in Database /\ Honest(EmptyDatabase, data', index')
  BY HonestEmpty
<1>7. Client("truncate", EmptyDatabase, NoJob, data', index', stray'[s])
  BY <1>6, NoJobFields DEF Client, Positions, Outside, Backing, Holding, Appending
<1>8. Client(pc'[s], db'[s], job'[s], data', index', stray'[s])
  BY <1>3, <1>7
<1>9. Tidies(s)
  <2> HIDE DEF Honest
  <2> QED  BY <1>2, <1>3, <1>6 DEF Tidies, Orderly, Flushing
<1> QED  BY <1>3, <1>4, <1>5, <1>8, <1>9 DEF Serves

(* rm -r, whatever the others have open. *)
LEMMA DropDatabaseServes ==
  ASSUME Typed, NEW s \in Sessions, ManagerDropDatabase(s)
  PROVE  Serves(s) /\ Tidies(s)
<1>1. /\ pc[s] = "idle" /\ Whole /\ AllFiles /\ job[s] = NoJob /\ pc[s] \notin Flushing
      /\ pc[s] \notin Holding /\ ~Appending(pc[s], job[s])
  BY Idle DEF ManagerDropDatabase, Begins
<1>2. CASE OpenCrashes /\ Crash(s)
  BY <1>1, <1>2, CrashServes
<1>3. CASE ~(OpenCrashes /\ Crash(s))
  <2>1. /\ \E cat \in OpenDatabase : db' = [db EXCEPT ![s] = cat]
        /\ dir' = FALSE
        /\ dbInfo' = Absent
        /\ data' = [t \in Tables |-> Absent]
        /\ index' = [i \in Tables \X Fields |-> Absent]
        /\ stray' = [o \in Sessions |->
                       [tree |-> IF pc[o] \in Holding /\ stray[o].tree = None
                                 THEN index[Held(pc[o], job[o])] ELSE stray[o].tree,
                        out  |-> stray[o].out \/ pc[o] = "write" \/ Appending(pc[o], job[o])]]
        /\ UNCHANGED <<pc, job, deaths>>
    BY <1>3 DEF ManagerDropDatabase
  <2>2. PICK cat \in OpenDatabase : db' = [db EXCEPT ![s] = cat]
    BY <2>1
  <2>3. ASSUME NEW o \in Sessions
        PROVE  /\ stray'[o] \in [tree : Index \cup {None}, out : BOOLEAN]
               /\ stray'[o].tree = IF pc[o] \in Holding /\ stray[o].tree = None
                                   THEN index[Held(pc[o], job[o])] ELSE stray[o].tree
               /\ stray[o].out \/ Appending(pc[o], job[o]) => stray'[o].out
    <3> DEFINE tree == IF pc[o] \in Holding /\ stray[o].tree = None
                       THEN index[Held(pc[o], job[o])] ELSE stray[o].tree
               out == stray[o].out \/ pc[o] = "write" \/ Appending(pc[o], job[o])
    <3>1. stray'[o] = [tree |-> tree, out |-> out]
      BY <2>1
    <3>2. tree \in Index \cup {None}
      <4>1. stray[o].tree \in Index \cup {None}
        BY <1>1 DEF AllFiles
      <4>2. pc[o] \in Holding /\ stray[o].tree = None => index[Held(pc[o], job[o])] \in Index
        BY KeptTree
      <4> QED  BY <4>1, <4>2
    <3>3. out \in BOOLEAN
      OBVIOUS
    <3>4. stray[o].out \/ Appending(pc[o], job[o]) => out
      OBVIOUS
    <3> HIDE DEF out
    <3>5. stray'[o].out = out /\ stray'[o].tree = tree
      BY <3>1
    <3> QED  BY <3>1, <3>2, <3>3, <3>4, <3>5
  <2>4. stray' \in [Sessions -> [tree : Index \cup {None}, out : BOOLEAN]]
    <3>1. stray' = [o \in Sessions |-> stray'[o]]
      BY <2>1
    <3> QED  BY <2>3, <3>1
  <2>5. AllFiles' /\ NoFiles(data', index')
    BY <2>1, <2>4 DEF AllFiles, NoFiles
  <2>6. Spares(s)
    <3> SUFFICES ASSUME NEW o \in Sessions
                 PROVE  Backing(pc[o], job[o], data', index', stray'[o])
      BY DEF Spares
    <3> DEFINE names == Tables \cup {job[o].table}
               trees == (Tables \X Fields) \cup {Held(pc[o], job[o])}
    <3>1. \A t \in Tables : data'[t] = data[t] \/ t \in names
      OBVIOUS
    <3>2. \A i \in Tables \X Fields : index'[i] = index[i] \/ i \in trees
      OBVIOUS
    <3>3. /\ stray'[o].tree = IF /\ pc[o] \in Holding /\ stray[o].tree = None
                                 /\ Held(pc[o], job[o]) \in trees
                              THEN index[Held(pc[o], job[o])] ELSE stray[o].tree
          /\ stray[o].out \/ (Appending(pc[o], job[o]) /\ job[o].table \in names) => stray'[o].out
      BY <2>3
    <3> HIDE DEF names, trees
    <3> QED  BY <2>5, <3>1, <3>2, <3>3, BackingKept
  <2>7. Others(s) /\ db'[s] = cat /\ pc'[s] = "idle" /\ job'[s] = NoJob
    BY <1>1, <2>1, <2>2 DEF Others, Whole
  <2>8. cat = None \/ cat \in Database
    BY Opened
  <2>9. Client("idle", cat, NoJob, data', index', stray'[s])
    BY <2>8, NoJobFields DEF Client, Positions, Outside, Backing, Holding, Appending
  <2>10. Client(pc'[s], db'[s], job'[s], data', index', stray'[s])
    BY <2>7, <2>9
  <2>11. stray[s] = NoStray => stray'[s] = NoStray
    <3>1. stray'[s] = [tree |-> stray[s].tree, out |-> stray[s].out \/ FALSE]
      BY <1>1, <2>1
    <3>2. NoStray.tree = None /\ NoStray.out = FALSE
      BY DEF NoStray
    <3>3. stray[s] = NoStray => stray'[s] = [tree |-> None, out |-> FALSE]
      BY <3>1, <3>2
    <3> QED  BY <3>3 DEF NoStray
  <2>12. Tidies(s)
    BY <2>1, <2>5, <2>11 DEF Tidies, Orderly
  <2> QED  BY <2>5, <2>6, <2>7, <2>10, <2>12 DEF Serves
<1> QED  BY <1>2, <1>3

(* A table that the catalog does not have gets a file for its rows. *)
LEMMA CreateTableServes ==
  ASSUME Typed, NEW s \in Sessions, NEW t \in Tables, ManagerCreateTable(s, t)
  PROVE  Serves(s) /\ Tidies(s)
<1> DEFINE cat == db[s]
           j == CatalogJob("create table", t, None, <<>>)
<1>1. /\ pc[s] = "idle" /\ Whole /\ AllFiles /\ pc[s] \notin Flushing
      /\ (cat = None \/ cat \in Database)
  BY Idle DEF ManagerCreateTable, Begins
<1>2. cat # None /\ cat \in Database /\ Slots(cat, t) = {}
  BY <1>1 DEF ManagerCreateTable, Has
<1>3. CASE ~dir /\ Crash(s)
  BY <1>1, <1>3, CrashServes
<1>4. CASE /\ dir
           /\ data' = [data EXCEPT ![t] = <<>>]
           /\ job' = [job EXCEPT ![s] = j]
           /\ Go(s, "make")
           /\ UNCHANGED <<dir, dbInfo, index, stray, db, deaths>>
  <2>1. <<>> \in Seq(Row) /\ <<>> \in Seq(Int)
    OBVIOUS
  <2>2. <<>> # Absent
    BY <2>1, AbsentAssumption
  <2>3. /\ data' \in [Tables -> Seq(Row) \cup {Absent}] /\ data'[t] # Absent
        /\ \A u \in Tables : data[u] # Absent => data'[u] # Absent
        /\ \A u \in Tables \ {t} : data'[u] = data[u]
    BY <1>1, <1>4, <2>1, <2>2 DEF AllFiles
  <2>4. AllFiles'
    BY <1>1, <1>4, <2>3 DEF AllFiles
  <2>5. Apart(t, data, index, data', index')
    BY <1>4, <2>3 DEF Apart
  <2>6. Spares(s)
    <3> SUFFICES ASSUME NEW o \in Sessions
                 PROVE  Backing(pc[o], job[o], data', index', stray'[o])
      BY DEF Spares
    <3>1. Backing(pc[o], job[o], data, index, stray[o])
      BY Working
    <3>2. Appending(pc[o], job[o]) => job[o].table \in Tables
      BY Working DEF Appending, Outside
    <3> QED  BY <1>4, <2>3, <3>1, <3>2 DEF Backing
  <2>7. /\ DOMAIN j = DOMAIN NoJob /\ j.head \in BOOLEAN /\ j.op = "create table" /\ j.table = t
        /\ j.todo \in Seq(Int) /\ j.hits \in Seq(Int)
    BY <2>1 DEF CatalogJob, NoJob
  <2> HIDE DEF j
  <2>8. Others(s) /\ pc'[s] = "make" /\ job'[s] = j /\ db'[s] = cat
    BY <1>1, <1>4 DEF Others, Whole, Go
  <2>9. Making("make", cat, j) /\ Backing("make", j, data', index', stray'[s])
    BY <1>2, <2>7 DEF Making, Backing, Holding, Appending
  <2>10. Client("make", cat, j, data', index', stray'[s])
    BY <1>2, <2>7, <2>9 DEF Client, Positions, Outside
  <2>11. Client(pc'[s], db'[s], job'[s], data', index', stray'[s])
    BY <2>8, <2>10
  <2>12. Tidies(s)
    <3> SUFFICES ASSUME Orderly(dir, pc[s], db[s], job[s], dbInfo, data, index)
                 PROVE  Orderly(dir', "make", cat, j, dbInfo, data', index')
      BY <1>4, <2>8 DEF Tidies
    <3>1. /\ Honest(dbInfo, data, index) /\ Honest(cat, data, index) /\ Covers(dbInfo, cat)
      BY <1>1, <1>2, <1>4, Believed
    <3>2. Slots(dbInfo, t) = {} /\ dbInfo \in Database
      BY <1>2, <3>1 DEF Covers, Honest
    <3>3. Unlisted(dbInfo, t) /\ Unlisted(cat, t)
      BY <1>2, <3>2, NoSlots
    <3>4. Honest(dbInfo, data', index')
      BY <2>5, <3>1, <3>3, HonestApart
    <3>5. Honest(cat, data', index')
      BY <2>5, <3>1, <3>3, HonestApart
    <3> HIDE DEF Honest, Covers, cat
    <3> QED  BY <1>2, <1>4, <2>3, <2>7, <3>1, <3>4, <3>5 DEF Orderly, Flushing
  <2> QED  BY <2>4, <2>6, <2>8, <2>11, <2>12 DEF Serves
<1> QED  BY <1>3, <1>4 DEF ManagerCreateTable

(* A new index, or one that is emptied. *)
LEMMA IndexMade ==
  ASSUME Typed, NEW s \in Sessions, NEW t \in Tables, NEW f \in Fields,
         index' = [index EXCEPT ![<<t, f>>] = EmptyIndex],
         UNCHANGED <<dir, dbInfo, data, stray>>
  PROVE  /\ AllFiles' /\ Adds(s) /\ index'[<<t, f>>] # Absent
         /\ Apart(t, data, index, data', index')
         /\ \A g \in Fields : index[<<t, g>>] # Absent => index'[<<t, g>>] # Absent
<1>1. AllFiles
  BY DEF Typed
<1>2. EmptyIndex \in Index
  <2>1. <<>> \in Seq(Entry)
    OBVIOUS
  <2> QED  BY <2>1 DEF EmptyIndex, Index
<1>3. <<t, f>> \in Tables \X Fields /\ EmptyIndex # Absent
  BY <1>2, AbsentAssumption
<1> HIDE DEF EmptyIndex
<1>4. /\ index' \in [Tables \X Fields -> Index \cup {Absent}]
      /\ index'[<<t, f>>] # Absent
      /\ \A i \in Tables \X Fields : index[i] # Absent => index'[i] # Absent
      /\ \A u \in Tables \ {t}, g \in Fields : index'[<<u, g>>] = index[<<u, g>>]
  BY <1>1, <1>2, <1>3 DEF AllFiles
<1>5. AllFiles'
  BY <1>1, <1>4 DEF AllFiles
<1>6. \A u \in Tables, g \in Fields : <<u, g>> \in Tables \X Fields
  OBVIOUS
<1>7. Apart(t, data, index, data', index')
  BY <1>4 DEF Apart
<1>8. ASSUME NEW u \in Tables
      PROVE  /\ Stays(u, data, index, data', index')
             /\ data[u] # Absent => Len(data'[u]) >= Len(data[u])
  <2>1. data[u] # Absent => Len(data[u]) \in Nat
    BY <1>1 DEF AllFiles
  <2> QED  BY <1>4, <1>6, <2>1 DEF Stays
<1> QED  BY <1>4, <1>5, <1>6, <1>7, <1>8 DEF Adds

(* And one for the index of id, before it is in the catalog. *)
LEMMA MakeIndexServes ==
  ASSUME Typed, NEW s \in Sessions, MakeIndex(s)
  PROVE  Serves(s) /\ Tidies(s) /\ Advances(s)
<1> DEFINE cat == db[s]
           j == job[s]
           t == j.table
           new == [tables |-> Append(cat.tables, NewTable(t)), tableNum |-> cat.tableNum + 1]
<1>1. pc[s] = "make"
  BY DEF MakeIndex
<1>2. /\ Whole /\ AllFiles /\ DOMAIN j = DOMAIN NoJob /\ j.head \in BOOLEAN
      /\ j.todo \in Seq(Int) /\ j.hits \in Seq(Int) /\ t \in Tables
      /\ \/ Storing("make", cat, j) \/ Looking("make", j) \/ Building("make", cat, j)
         \/ Making("make", cat, j) \/ Removing("make", cat, j)
  BY <1>1, Working DEF Outside
<1>3. cat \in Database
  BY <1>2 DEF Storing, Looking, Building, Making, Removing
<1>4. CASE ~dir /\ Crash(s)
  BY <1>1, <1>4, CrashServes DEF Flushing
<1>5. CASE /\ dir
           /\ index' = [index EXCEPT ![<<t, "id">>] = EmptyIndex]
           /\ db' = [db EXCEPT ![s] = [tables   |-> Append(@.tables, NewTable(t)),
                                       tableNum |-> @.tableNum + 1]]
           /\ Go(s, "truncate")
           /\ UNCHANGED <<dir, dbInfo, data, stray, job, deaths>>
  <2>1. "id" \in Fields
    BY Columns
  <2>2. index' = [index EXCEPT ![<<t, "id">>] = EmptyIndex] /\ UNCHANGED <<dir, dbInfo, data, stray>>
    BY <1>5
  <2>3. /\ AllFiles' /\ Adds(s) /\ index'[<<t, "id">>] # Absent
        /\ Apart(t, data, index, data', index')
    <3> HIDE DEF t
    <3> QED  BY <1>2, <2>1, <2>2, IndexMade
  <2>4. Spares(s)
    BY <2>3, AddsSpares
  <2>5. NewTable(t) \in Table /\ NewTable(t).name = t
    BY <1>2, <2>1 DEF NewTable, Table
  <2>6. new \in Database
    <3>1. cat.tables \in Seq(Table) /\ cat.tableNum \in Nat
      BY <1>3 DEF Database
    <3> HIDE DEF cat
    <3>2. Append(cat.tables, NewTable(t)) \in Seq(Table) /\ cat.tableNum + 1 \in Nat
      BY <2>5, <3>1, AppendProperties
    <3> QED  BY <3>2 DEF Database
  <2>7. ASSUME Orderly(dir, pc[s], db[s], job[s], dbInfo, data, index)
        PROVE  Honest(new, data', index')
    <3>1. Honest(cat, data, index) /\ Slots(cat, t) = {} /\ data[t] # Absent
      BY <1>1, <1>3, <1>5, <2>7, AbsentAssumption DEF Orderly, Flushing
    <3>2. data[t] \in Seq(Row) /\ data' = data
      BY <1>2, <1>5, <3>1 DEF AllFiles
    <3>3. 0 <= Len(data[t])
      BY <3>2
    <3>4. InFiles(NewTable(t), data', index')
      BY <2>3, <3>1, <3>2, <3>3 DEF NewTable, InFiles
    <3> HIDE DEF cat
    <3> QED  BY <2>3, <2>5, <3>1, <3>4, HonestAdd
  <2>8. db' = [db EXCEPT ![s] = new] /\ pc' = [pc EXCEPT ![s] = "truncate"]
    BY <1>5 DEF Go
  <2>9. dir' = dir /\ stray' = stray /\ job' = job /\ dir /\ j = job[s]
    BY <1>5
  <2> HIDE DEF new
  <2>10. Serves(s) /\ Tidies(s)
    <3> HIDE DEF j, t
    <3> QED  BY <1>2, <2>3, <2>4, <2>6, <2>7, <2>8, <2>9, CatalogServes
  <2>11. Advances(s)
    <3>1. pc'[s] = "truncate" /\ job'[s] = j
      BY <1>2, <2>8, <2>9 DEF Whole
    <3>2. Turn("truncate") = Turn("make")
      BY DEF Turn
    <3>3. Rank["truncate"] < Rank["make"]
      BY Ranks
    <3> HIDE DEF j
    <3>4. Less(Measure("truncate", j), Measure("make", j))
      BY <3>2, <3>3, LessWork
    <3> QED  BY <1>1, <3>1, <3>4 DEF Advances, j
  <2> QED  BY <2>10, <2>11
<1> QED  BY <1>4, <1>5 DEF MakeIndex

(* DROP TABLE has files to remove, or only the last entry for want of the table. *)
LEMMA DropTableServes ==
  ASSUME Typed, NEW s \in Sessions, NEW t \in Tables, ManagerDropTable(s, t)
  PROVE  Serves(s) /\ Tidies(s)
<1> DEFINE cat == db[s]
<1>1. /\ pc[s] = "idle" /\ Whole /\ AllFiles /\ pc[s] \notin Flushing
      /\ (cat = None \/ cat \in Database)
  BY Idle DEF ManagerDropTable, Begins
<1>2. cat # None /\ cat \in Database /\ cat.tables # <<>> /\ UNCHANGED disk
  BY <1>1 DEF ManagerDropTable
<1>3. /\ AllFiles' /\ Spares(s) /\ UNCHANGED <<dir, dbInfo, data, index, stray>>
  BY <1>2, DiskStays
<1>4. CASE Slots(cat, t) # {}
  <2> DEFINE keys == Indexed(Info(cat, t))
             n == Len(keys) + 1
             todo == [i \in 1..n |-> i - 1]
             j == CatalogJob("drop table", t, None, todo)
  <2>1. todo \in Seq(Int) /\ todo # <<>>
    <3>1. Len(keys) \in Nat
      BY IndexedColumns
    <3> HIDE DEF keys
    <3>2. n \in Nat /\ n # 0
      BY <3>1
    <3> HIDE DEF n
    <3>3. todo \in [1..n -> Int]
      OBVIOUS
    <3> HIDE DEF todo
    <3>4. todo \in Seq(Int) /\ Len(todo) = n
      BY <3>2, <3>3
    <3> QED  BY <3>2, <3>4, EmptySeq
  <2>2. /\ job' = [job EXCEPT ![s] = j] /\ pc' = [pc EXCEPT ![s] = "remove"] /\ db' = db
    BY <1>2, <1>4 DEF ManagerDropTable, Has, Go
  <2> HIDE DEF todo
  <2>3. /\ DOMAIN j = DOMAIN NoJob /\ j.head \in BOOLEAN /\ j.op = "drop table" /\ j.table = t
        /\ j.todo = todo /\ j.hits \in Seq(Int)
    <3>1. <<>> \in Seq(Int)
      OBVIOUS
    <3> QED  BY <3>1 DEF CatalogJob, NoJob
  <2> HIDE DEF j
  <2>4. Others(s) /\ pc'[s] = "remove" /\ job'[s] = j /\ db'[s] = cat
    BY <1>1, <2>2 DEF Others, Whole
  <2>5. Removing("remove", cat, j) /\ Backing("remove", j, data', index', stray'[s])
    BY <1>2, <1>4, <2>1, <2>3 DEF Removing, Backing, Holding, Appending
  <2>6. Client("remove", cat, j, data', index', stray'[s])
    BY <1>2, <2>1, <2>3, <2>5 DEF Client, Positions, Outside
  <2>7. Client(pc'[s], db'[s], job'[s], data', index', stray'[s])
    BY <2>4, <2>6
  <2>8. Tidies(s)
    <3> SUFFICES ASSUME Orderly(dir, pc[s], db[s], job[s], dbInfo, data, index)
                 PROVE  Orderly(dir, "remove", cat, j, dbInfo, data, index)
      BY <1>3, <2>4 DEF Tidies
    <3>1. CASE dir
      <4>1. Honest(cat, data, index)
        BY <1>1, <1>2, <3>1, Believed
      <4>2. Honest(Left(cat, t), data, index) /\ Unlisted(Left(cat, t), t)
        BY <1>2, <1>4, <4>1, HonestRemove
      <4> HIDE DEF cat, Honest, Left, Unlisted
      <4> QED  BY <2>3, <3>1, <4>2 DEF Orderly, Flushing
    <3>2. CASE ~dir
      BY <3>2 DEF Orderly
    <3> QED  BY <3>1, <3>2
  <2> QED  BY <1>3, <2>4, <2>7, <2>8 DEF Serves
<1>5. CASE Slots(cat, t) = {}
  <2> DEFINE j == CatalogJob("drop table", t, None, <<>>)
             new == [cat EXCEPT !.tables = Front(@)]
  <2>1. /\ job' = [job EXCEPT ![s] = j] /\ pc' = [pc EXCEPT ![s] = "truncate"]
        /\ db' = [db EXCEPT ![s] = new]
    <3>1. /\ db' = [db EXCEPT ![s].tables = Front(@)]
          /\ job' = [job EXCEPT ![s] = j] /\ Go(s, "truncate")
      BY <1>5 DEF ManagerDropTable, Has
    <3> QED  BY <3>1 DEF Go
  <2>2. new \in Database /\ (Honest(cat, data, index) => Honest(new, data, index))
    <3> HIDE DEF cat
    <3> QED  BY <1>2, <1>5, HonestFront
  <2>3. DOMAIN j = DOMAIN NoJob /\ j.head \in BOOLEAN /\ j.todo \in Seq(Int) /\ j.hits \in Seq(Int)
    <3>1. <<>> \in Seq(Int)
      OBVIOUS
    <3> QED  BY <3>1 DEF CatalogJob, NoJob
  <2> HIDE DEF j, new
  <2>4. ASSUME dir, Orderly(dir, pc[s], db[s], job[s], dbInfo, data, index)
        PROVE  Honest(new, data', index')
    <3>1. Honest(cat, data, index)
      BY <1>1, <1>2, <2>4, Believed
    <3> QED  BY <1>3, <2>2, <3>1
  <2> HIDE DEF cat
  <2> QED  BY <1>3, <2>1, <2>2, <2>3, <2>4, CatalogServes
<1> QED  BY <1>4, <1>5

(* One file goes, and with the last the entry. *)
LEMMA RemoveFileServes ==
  ASSUME Typed, NEW s \in Sessions, RemoveFile(s)
  PROVE  Serves(s) /\ Tidies(s) /\ Advances(s)
<1> DEFINE cat == db[s]
           j == job[s]
           t == j.table
           k == [j EXCEPT !.todo = Tail(@)]
           last == Len(j.todo) = 1
           new == IF last THEN Left(cat, t) ELSE cat
           next == IF last THEN "truncate" ELSE "remove"
           column == Indexed(Info(cat, t))[Head(j.todo)]
<1>1. pc[s] = "remove"
  BY DEF RemoveFile
<1>2. /\ Whole /\ AllFiles /\ DOMAIN j = DOMAIN NoJob /\ j.head \in BOOLEAN
      /\ j.todo \in Seq(Int) /\ j.hits \in Seq(Int) /\ t \in Tables
      /\ \/ Storing("remove", cat, j) \/ Looking("remove", j) \/ Building("remove", cat, j)
         \/ Making("remove", cat, j) \/ Removing("remove", cat, j)
  BY <1>1, Working DEF Outside
<1>3. cat \in Database /\ Slots(cat, t) # {} /\ j.todo # <<>> /\ j.op = "drop table"
  BY <1>2 DEF Storing, Looking, Building, Making, Removing
<1>4. /\ RemoveFiles({t}, {}) \/ RemoveFiles({}, {<<t, column>>})
      /\ job' = [job EXCEPT ![s] = k] /\ pc' = [pc EXCEPT ![s] = next]
      /\ UNCHANGED <<dir, dbInfo, deaths>>
  BY DEF RemoveFile, Go
<1>5. PICK names, trees : /\ RemoveFiles(names, trees)
                          /\ (names = {t} /\ trees = {}) \/ (names = {} /\ trees = {<<t, column>>})
  BY <1>4
<1>6. /\ AllFiles' /\ Spares(s) /\ stray'[s] = stray[s]
      /\ NoFiles(data, index) => NoFiles(data', index')
  <2>1. pc[s] \notin Holding /\ ~Appending(pc[s], job[s])
    BY <1>1 DEF Holding, Appending
  <2> QED  BY <1>4, <1>5, <2>1, Removed
<1>7. Apart(t, data, index, data', index')
  <2>1. /\ data' = [u \in Tables |-> IF u \in names THEN Absent ELSE data[u]]
        /\ index' = [i \in Tables \X Fields |-> IF i \in trees THEN Absent ELSE index[i]]
    BY <1>5 DEF RemoveFiles
  <2> HIDE DEF column, t
  <2> QED  BY <1>5, <2>1 DEF Apart
<1> HIDE DEF column
<1>8. /\ Head(j.todo) \in Int /\ Tail(j.todo) \in Seq(Int)
      /\ Len(Tail(j.todo)) < Len(j.todo) /\ (Len(j.todo) # 1 => Tail(j.todo) # <<>>)
  BY <1>2, <1>3, OneLess
<1>9. /\ DOMAIN k = DOMAIN NoJob /\ k.op = j.op /\ k.table = t
      /\ k.todo = Tail(j.todo) /\ k.head = j.head /\ k.hits = j.hits
  BY <1>2, JobFields
<1> HIDE DEF k
<1>10. new \in Database
  <2> HIDE DEF cat, t
  <2> QED  BY <1>3, HonestRemove
<1> HIDE DEF new
<1>11. Others(s) /\ job'[s] = k /\ pc'[s] = next /\ db'[s] = new
  <2>1. /\ DOMAIN db' = Sessions /\ \A o \in Sessions : o # s => db'[o] = db[o]
        /\ db'[s] = new
    <3>1. db' = IF last THEN [db EXCEPT ![s].tables = RemoveAt(@, Slot(db[s], t))] ELSE db
      BY DEF RemoveFile
    <3>2. CASE last
      BY <1>2, <3>1, <3>2 DEF Whole, Left, new
    <3>3. CASE ~last
      BY <1>2, <3>1, <3>3 DEF Whole, new
    <3> QED  BY <3>2, <3>3
  <2> QED  BY <1>2, <1>4, <2>1 DEF Others, Whole
<1>12. Advances(s)
  <2>1. Turn(next) = Turn("remove")
    BY DEF Turn
  <2>2. Less(Measure(next, k), Measure("remove", j))
    BY <1>8, <1>9, <2>1, LessWork
  <2> QED  BY <1>1, <1>11, <2>2 DEF Advances
<1>13. ~last => Removing(next, new, k)
  BY <1>3, <1>8, <1>9 DEF Removing, new
<1>14. Backing(next, k, data', index', stray'[s])
  BY DEF Backing, Holding, Appending
<1>15. Client(next, new, k, data', index', stray'[s])
  BY <1>2, <1>8, <1>9, <1>10, <1>13, <1>14 DEF Client, Positions, Outside
<1>16. Client(pc'[s], db'[s], job'[s], data', index', stray'[s])
  BY <1>11, <1>15
<1>17. Tidies(s)
  <2> SUFFICES ASSUME stray[s] = NoStray,
                      Orderly(dir, pc[s], cat, j, dbInfo, data, index)
               PROVE  Orderly(dir, next, new, k, dbInfo, data', index')
    BY <1>4, <1>6, <1>11 DEF Tidies
  <2>1. CASE dir
    <3>1. Honest(Left(cat, t), data, index) /\ Unlisted(Left(cat, t), t)
      BY <1>1, <2>1 DEF Orderly
    <3>2. Honest(Left(cat, t), data', index')
      BY <1>7, <3>1, HonestApart
    <3> HIDE DEF cat, Honest, Left, Unlisted, t
    <3>3. CASE last
      BY <2>1, <3>2, <3>3 DEF Orderly, Flushing, new
    <3>4. CASE ~last
      <4>1. next = "remove" /\ new = cat
        BY <3>4 DEF new
      <4> HIDE DEF next
      <4> QED  BY <1>9, <2>1, <3>1, <3>2, <4>1 DEF Orderly, Flushing
    <3> QED  BY <3>3, <3>4
  <2>2. CASE ~dir
    BY <1>6, <2>2 DEF Orderly
  <2> QED  BY <2>1, <2>2
<1> QED  BY <1>6, <1>11, <1>12, <1>16, <1>17 DEF Serves

(* CREATE INDEX makes the file and marks the column; the rows may be yet to read. *)
LEMMA CreateIndexServes ==
  ASSUME Typed, NEW s \in Sessions, NEW t \in Tables, NEW f \in Fields,
         ManagerCreateIndex(s, t, f)
  PROVE  Serves(s) /\ Tidies(s)
<1> DEFINE cat == db[s]
           old == Info(cat, t)
           info == [old EXCEPT !.indexed = @ \cup {f}]
           new == [cat EXCEPT !.tables[Slot(cat, t)] = info]
           keys == ScanKeys(old)
           j == CatalogJob("create index", t, f, keys)
           next == IF old.dataNum = 0 THEN "truncate" ELSE "seek"
<1>1. /\ pc[s] = "idle" /\ Whole /\ AllFiles /\ job[s] = NoJob
      /\ pc[s] \notin Flushing /\ (cat = None \/ cat \in Database)
  BY Idle DEF ManagerCreateIndex, Begins
<1>2. cat # None /\ cat \in Database /\ Slots(cat, t) # {}
  BY <1>1 DEF ManagerCreateIndex, Has
<1>3. /\ old \in Table /\ old.name = t /\ old.dataNum \in Nat /\ old.indexed \subseteq Fields
      /\ \A rows, trees : Honest(cat, rows, trees) => InFiles(old, rows, trees)
  BY <1>2, HonestInfo
<1>4. CASE ~dir /\ Crash(s)
  BY <1>1, <1>4, CrashServes
<1>5. CASE /\ dir
           /\ index' = [index EXCEPT ![<<t, f>>] = EmptyIndex]
           /\ SetInfo(s, t, info)
           /\ job' = [job EXCEPT ![s] = j]
           /\ Go(s, next)
           /\ UNCHANGED <<dir, dbInfo, data, stray, deaths>>
  <2>1. keys \in Seq(Int) /\ (old.dataNum # 0 => keys # <<>>)
    <3> DEFINE n == old.dataNum
    <3>1. n \in Nat /\ keys = [i \in 1..n |-> i - 1]
      BY <1>3 DEF ScanKeys
    <3> HIDE DEF n, keys
    <3>2. keys \in [1..n -> Int]
      BY <3>1
    <3>3. keys \in Seq(Int) /\ Len(keys) = n
      BY <3>1, <3>2
    <3> QED  BY <3>3, EmptySeq DEF n
  <2> HIDE DEF old, keys
  <2>2. /\ AllFiles' /\ Adds(s) /\ index'[<<t, f>>] # Absent
        /\ Apart(t, data, index, data', index')
        /\ \A g \in Fields : index[<<t, g>>] # Absent => index'[<<t, g>>] # Absent
    BY <1>5, IndexMade
  <2>3. Spares(s)
    BY <2>2, AddsSpares
  <2>4. /\ info \in Table /\ info.name = t /\ info.indexed = old.indexed \cup {f}
        /\ info.dataNum = old.dataNum
    BY <1>3 DEF Table
  <2>5. InFiles(old, data, index) => InFiles(info, data', index')
    <3>1. data' = data
      BY <1>5
    <3> HIDE DEF info
    <3> SUFFICES ASSUME InFiles(old, data, index), t # Junk
                 PROVE  /\ data[t] # Absent
                        /\ old.dataNum <= Len(data[t])
                        /\ \A g \in old.indexed \cup {f} : index'[<<t, g>>] # Absent
      BY <2>4, <3>1 DEF InFiles
    <3>2. /\ data[t] # Absent /\ old.dataNum <= Len(data[t])
          /\ \A g \in old.indexed : index[<<t, g>>] # Absent
      BY <1>3 DEF InFiles
    <3>3. \A g \in old.indexed : g \in Fields
      BY <1>3
    <3> QED  BY <2>2, <3>2, <3>3
  <2> HIDE DEF info
  <2>6. new \in Database
    <3> HIDE DEF cat
    <3> QED  BY <1>2, <2>4, SetTables
  <2>7. Honest(cat, data, index) => Honest(new, data', index')
    <3> HIDE DEF cat
    <3> QED  BY <1>2, <1>3, <2>2, <2>4, <2>5, HonestSet
  <2>8. \A was : Covers(was, cat) => Covers(was, new)
    <3> HIDE DEF cat
    <3> QED  BY <1>2, <2>4, CoversSet
  <2>9. /\ db' = [db EXCEPT ![s] = new] /\ pc' = [pc EXCEPT ![s] = next]
    <3>1. db' = [db EXCEPT ![s].tables[Slot(cat, t)] = info]
      BY <1>5 DEF SetInfo
    <3> QED  BY <1>5, <3>1 DEF Go
  <2>10. /\ DOMAIN j = DOMAIN NoJob /\ j.head \in BOOLEAN /\ j.op = "create index"
         /\ j.table = t /\ j.field = f /\ j.todo = keys
         /\ j.todo \in Seq(Int) /\ j.hits \in Seq(Int)
    <3>1. <<>> \in Seq(Int)
      OBVIOUS
    <3> QED  BY <2>1, <3>1 DEF CatalogJob, NoJob
  <2> HIDE DEF j, new
  <2>11. CASE next = "truncate"
    <3>1. ASSUME Orderly(dir, pc[s], db[s], job[s], dbInfo, data, index)
          PROVE  Honest(new, data', index')
      BY <1>1, <1>2, <1>5, <2>7, <3>1, Believed
    <3>2. pc' = [pc EXCEPT ![s] = "truncate"] /\ UNCHANGED <<dir, stray>> /\ dir
      BY <1>5, <2>9, <2>11
    <3> HIDE DEF cat
    <3> QED  BY <1>5, <2>2, <2>3, <2>6, <2>9, <2>10, <3>1, <3>2, CatalogServes
  <2>12. CASE next = "seek"
    <3>1. Others(s) /\ pc'[s] = "seek" /\ job'[s] = j /\ db'[s] = new
      BY <1>1, <1>5, <2>9, <2>12 DEF Others, Whole
    <3>2. Building("seek", new, j) /\ Backing("seek", j, data', index', stray'[s])
      BY <2>1, <2>6, <2>10, <2>12 DEF Building, Backing, Holding, Appending
    <3>3. Client("seek", new, j, data', index', stray'[s])
      BY <2>6, <2>10, <3>2 DEF Client, Positions, Outside
    <3>4. Client(pc'[s], db'[s], job'[s], data', index', stray'[s])
      BY <3>1, <3>3
    <3>5. Tidies(s)
      <4> SUFFICES ASSUME Orderly(dir, pc[s], db[s], job[s], dbInfo, data, index)
                   PROVE  Orderly(dir, "seek", new, j, dbInfo, data', index')
        BY <1>5, <3>1 DEF Tidies
      <4>1. /\ Honest(dbInfo, data, index) /\ Honest(cat, data, index) /\ Covers(dbInfo, cat)
        BY <1>1, <1>2, <1>5, Believed
      <4>2. Honest(dbInfo, data', index')
        <5>1. /\ \A u \in Tables : Stays(u, data, index, data', index')
              /\ \A u \in Tables : data[u] # Absent => Len(data'[u]) >= Len(data[u])
              /\ data \in [Tables -> Seq(Row) \cup {Absent}]
              /\ data' \in [Tables -> Seq(Row) \cup {Absent}]
          BY <1>1, <2>2 DEF Adds, AllFiles
        <5> QED  BY <4>1, <5>1, HonestStays
      <4>3. Honest(new, data', index') /\ Covers(dbInfo, new)
        BY <2>7, <2>8, <4>1
      <4> HIDE DEF Honest, Covers
      <4> QED  BY <1>5, <4>2, <4>3 DEF Orderly, Flushing
    <3> QED  BY <2>2, <2>3, <3>1, <3>4, <3>5 DEF Serves
  <2> QED  BY <2>11, <2>12
<1> QED  BY <1>4, <1>5 DEF ManagerCreateIndex

(* The index file goes, then its mark in the catalog. *)
LEMMA DropIndexServes ==
  ASSUME Typed, NEW s \in Sessions, NEW t \in Tables, NEW f \in Fields,
         ManagerDropIndex(s, t, f)
  PROVE  Serves(s) /\ Tidies(s)
<1> DEFINE cat == db[s]
           old == Info(cat, t)
           info == [old EXCEPT !.indexed = @ \ {f}]
           new == [cat EXCEPT !.tables[Slot(cat, t)] = info]
           j == CatalogJob("drop index", t, f, <<>>)
<1>1. /\ pc[s] = "idle" /\ Whole /\ AllFiles /\ pc[s] \notin Flushing /\ pc[s] \notin Holding
      /\ ~Appending(pc[s], job[s]) /\ (cat = None \/ cat \in Database)
  BY Idle DEF ManagerDropIndex, Begins
<1>2. cat # None /\ cat \in Database /\ Slots(cat, t) # {}
  BY <1>1 DEF ManagerDropIndex, Has
<1>3. /\ old \in Table /\ old.name = t /\ old.dataNum \in Nat /\ old.indexed \subseteq Fields
      /\ \A rows, trees : Honest(cat, rows, trees) => InFiles(old, rows, trees)
  BY <1>2, HonestInfo
<1> HIDE DEF old
<1>4. /\ RemoveFiles({}, {<<t, f>>}) /\ SetInfo(s, t, info)
      /\ pc' = [pc EXCEPT ![s] = "truncate"] /\ job' = [job EXCEPT ![s] = j]
      /\ UNCHANGED <<dir, dbInfo, deaths>>
  BY DEF ManagerDropIndex, Go, old
<1>5. /\ AllFiles' /\ Spares(s) /\ stray'[s] = stray[s]
      /\ NoFiles(data, index) => NoFiles(data', index')
  BY <1>1, <1>4, Removed
<1>6. /\ data' = data
      /\ index' = [i \in Tables \X Fields |-> IF i \in {<<t, f>>} THEN Absent ELSE index[i]]
  BY <1>1, <1>4 DEF AllFiles, RemoveFiles
<1>7. /\ Apart(t, data, index, data', index')
      /\ \A g \in Fields \ {f} : index'[<<t, g>>] = index[<<t, g>>]
  BY <1>6 DEF Apart
<1>8. /\ info \in Table /\ info.name = t /\ info.indexed = old.indexed \ {f}
      /\ info.dataNum = old.dataNum
  BY <1>3 DEF Table
<1> HIDE DEF info
<1>9. InFiles(old, data, index) => InFiles(info, data', index')
  <2> SUFFICES ASSUME InFiles(old, data, index), t # Junk
               PROVE  /\ data[t] # Absent
                      /\ old.dataNum <= Len(data[t])
                      /\ \A g \in old.indexed \ {f} : index'[<<t, g>>] # Absent
    BY <1>6, <1>8 DEF InFiles
  <2>1. /\ data[t] # Absent /\ old.dataNum <= Len(data[t])
        /\ \A g \in old.indexed : index[<<t, g>>] # Absent
    BY <1>3 DEF InFiles
  <2>2. \A g \in old.indexed \ {f} : g \in Fields \ {f}
    BY <1>3
  <2> QED  BY <1>7, <2>1, <2>2
<1>10. new \in Database /\ (Honest(cat, data, index) => Honest(new, data', index'))
  <2> HIDE DEF cat
  <2>1. new \in Database
    BY <1>2, <1>8, SetTables
  <2>2. Honest(cat, data, index) => Honest(new, data', index')
    BY <1>2, <1>3, <1>7, <1>8, <1>9, HonestSet
  <2> QED  BY <2>1, <2>2
<1>11. db' = [db EXCEPT ![s] = new]
  <2>1. db' = [db EXCEPT ![s].tables[Slot(cat, t)] = info]
    BY <1>4 DEF SetInfo
  <2> QED  BY <2>1
<1>12. DOMAIN j = DOMAIN NoJob /\ j.head \in BOOLEAN /\ j.todo \in Seq(Int) /\ j.hits \in Seq(Int)
  <2>1. <<>> \in Seq(Int)
    OBVIOUS
  <2> QED  BY <2>1 DEF CatalogJob, NoJob
<1> HIDE DEF j, new
<1>13. ASSUME dir, Orderly(dir, pc[s], db[s], job[s], dbInfo, data, index)
       PROVE  Honest(new, data', index')
  BY <1>1, <1>2, <1>10, <1>13, Believed
<1> HIDE DEF cat
<1> QED  BY <1>4, <1>5, <1>10, <1>11, <1>12, <1>13, CatalogServes

(* The row is in the data, if they have kept their name, before the catalog counts it. *)
LEMMA AppendRowServes ==
  ASSUME Typed, NEW s \in Sessions, AppendRow(s)
  PROVE  Serves(s) /\ Tidies(s) /\ Advances(s)
<1> DEFINE j == job[s]
           t == j.table
           cat == db[s]
           old == Info(cat, t)
           info == [old EXCEPT !.dataNum = @ + 1]
           new == [cat EXCEPT !.tables[Slot(cat, t)] = info]
           more == Append(data[t], j.row)
<1>1. pc[s] = "append"
  BY DEF AppendRow
<1>2. /\ Whole /\ AllFiles /\ DOMAIN j = DOMAIN NoJob /\ j.head \in BOOLEAN
      /\ j.todo \in Seq(Int) /\ j.hits \in Seq(Int) /\ t \in Tables
      /\ cat = None \/ cat \in Database
      /\ \/ Storing("append", cat, j) \/ Looking("append", j) \/ Building("append", cat, j)
         \/ Making("append", cat, j) \/ Removing("append", cat, j)
      /\ Backing("append", j, data, index, stray[s])
  BY <1>1, Working DEF Outside
<1>3. /\ j.op = "insert" /\ cat # None /\ cat \in Database /\ Slots(cat, t) # {}
      /\ j.row \in Row
  BY <1>2 DEF Storing, Looking, Building, Making, Removing
<1>4. stray[s].out \/ data[t] # Absent
  BY <1>2, <1>3 DEF Backing, Appending
<1>5. /\ old \in Table /\ old.name = t /\ old.dataNum \in Nat /\ old.indexed \subseteq Fields
      /\ \A rows, trees : Honest(cat, rows, trees) => InFiles(old, rows, trees)
  BY <1>2, <1>3, HonestInfo
<1> HIDE DEF old
<1>6. /\ data' = IF stray[s].out THEN data ELSE [data EXCEPT ![t] = more]
      /\ stray' = [stray EXCEPT ![s].out = FALSE]
      /\ SetInfo(s, t, info)
      /\ pc' = [pc EXCEPT ![s] = "truncate"]
      /\ UNCHANGED <<dir, dbInfo, index, job, deaths>>
  BY DEF AppendRow, CloseData, Count, Go, old
<1>7. ~stray[s].out => /\ data[t] # Absent
                       /\ more \in Seq(Row) /\ Len(more) = Len(data[t]) + 1
                       /\ Len(data[t]) \in Nat
  <2> SUFFICES ASSUME data[t] # Absent
               PROVE  /\ more \in Seq(Row) /\ Len(more) = Len(data[t]) + 1
                      /\ Len(data[t]) \in Nat
    BY <1>4
  <2>1. data[t] \in Seq(Row)
    BY <1>2 DEF AllFiles
  <2> QED  BY <1>3, <2>1
<1> HIDE DEF more
<1>8. /\ stray' \in [Sessions -> [tree : Index \cup {None}, out : BOOLEAN]]
      /\ \A o \in Sessions \ {s} : stray'[o] = stray[o]
      /\ stray[s] = NoStray => stray'[s] = NoStray
  <2>1. /\ stray' \in [Sessions -> [tree : Index \cup {None}, out : BOOLEAN]]
        /\ \A o \in Sessions \ {s} : stray'[o] = stray[o]
        /\ stray'[s] = [stray[s] EXCEPT !.out = FALSE]
    BY <1>2, <1>6 DEF AllFiles
  <2>2. [NoStray EXCEPT !.out = FALSE] = NoStray
    <3>1. NoStray \in [tree : {None}, out : BOOLEAN] /\ NoStray.out = FALSE
      BY DEF NoStray
    <3> QED  BY ONLY <3>1
  <2> QED  BY <2>1, <2>2
<1>9. AllFiles' /\ Adds(s) /\ Grounded
  <2>1. CASE stray[s].out
    <3>1. AllFiles'
      BY <1>2, <1>6, <1>8, <2>1 DEF AllFiles
    <3> QED  BY <1>6, <1>8, <2>1, <3>1, SameAdds
  <2>2. CASE ~stray[s].out
    <3>1. Len(more) >= Len(data[t])
      BY <1>7, <2>2
    <3> HIDE DEF t
    <3> QED  BY <1>2, <1>6, <1>7, <1>8, <2>2, <3>1, DataGrows
  <2> QED  BY <2>1, <2>2
<1>10. Spares(s)
  BY <1>9, AddsSpares
<1>11. /\ info \in Table /\ info.name = t /\ info.indexed = old.indexed
       /\ info.dataNum = old.dataNum + 1
  BY <1>5 DEF Table
<1> HIDE DEF info
<1>12. new \in Database
  <2> HIDE DEF cat, t
  <2> QED  BY <1>3, <1>11, SetTables
<1>13. ASSUME stray[s] = NoStray, Honest(cat, data, index)
       PROVE  Honest(new, data', index')
  <2>1. ~stray[s].out
    BY <1>13 DEF NoStray
  <2>2. /\ data' = [data EXCEPT ![t] = more] /\ index' = index /\ data'[t] = more
    BY <1>2, <1>6, <2>1 DEF AllFiles
  <2>3. Apart(t, data, index, data', index')
    BY <1>2, <2>2 DEF AllFiles, Apart
  <2>4. InFiles(info, data', index')
    <3>1. InFiles(old, data, index)
      BY <1>5, <1>13
    <3> SUFFICES ASSUME t # Junk
                 PROVE  /\ more # Absent
                        /\ old.dataNum + 1 <= Len(more)
                        /\ \A g \in old.indexed : index[<<t, g>>] # Absent
      BY <1>11, <2>2 DEF InFiles
    <3>2. old.dataNum <= Len(data[t]) /\ \A g \in old.indexed : index[<<t, g>>] # Absent
      BY <1>5, <3>1 DEF InFiles
    <3>3. old.dataNum + 1 <= Len(more)
      BY <1>5, <1>7, <2>1, <3>2
    <3>4. more # Absent
      BY <1>7, <2>1, AbsentAssumption
    <3> QED  BY <3>2, <3>3, <3>4
  <2> HIDE DEF cat, t
  <2> QED  BY <1>3, <1>11, <1>13, <2>3, <2>4, HonestSet
<1>14. db' = [db EXCEPT ![s] = new]
  <2>1. db' = [db EXCEPT ![s].tables[Slot(cat, t)] = info]
    BY <1>6 DEF SetInfo
  <2> QED  BY <2>1
<1>15. job' = job /\ j = job[s]
  BY <1>6
<1> HIDE DEF new
<1>16. ~dir /\ NoFiles(data, index) => NoFiles(data', index')
  <2>1. ASSUME NoFiles(data, index)  PROVE data' = data /\ index' = index
    BY <1>2, <1>4, <1>6, <2>1 DEF NoFiles
  <2> QED  BY <2>1
<1>17. ASSUME dir, stray[s] = NoStray,
              Orderly(dir, pc[s], db[s], job[s], dbInfo, data, index)
       PROVE  Honest(new, data', index')
  <2>1. pc[s] \notin Flushing /\ cat # None
    BY <1>1, <1>3 DEF Flushing
  <2> QED  BY <1>13, <1>17, <2>1, Believed
<1>18. Serves(s) /\ Tidies(s)
  <2> HIDE DEF j, t, cat
  <2>1. dir' = dir /\ pc' = [pc EXCEPT ![s] = "truncate"]
    BY <1>6
  <2>2. DOMAIN j = DOMAIN NoJob /\ j.head \in BOOLEAN /\ j.todo \in Seq(Int) /\ j.hits \in Seq(Int)
    BY <1>2
  <2>3. stray[s] = NoStray => stray'[s] = NoStray
    BY <1>8
  <2> QED  BY <1>9, <1>10, <1>12, <1>14, <1>15, <1>16, <1>17, <2>1, <2>2, <2>3, CatalogServes
<1>19. Advances(s)
  <2>1. pc'[s] = "truncate" /\ job'[s] = j
    BY <1>2, <1>6 DEF Whole
  <2> HIDE DEF j
  <2>2. Turn("truncate") = Turn("append")
    BY DEF Turn
  <2>3. Less(Measure("truncate", j), Measure("append", j))
    BY <1>2, <2>2, Ranks, LessWork
  <2> QED  BY <1>1, <2>1, <2>3 DEF Advances, j
<1> QED  BY <1>18, <1>19

(* The two halves of DatabaseInfoFlush, for any statement. *)
LEMMA FlushOpenServes ==
  ASSUME Typed, NEW s \in Sessions, FlushOpen(s)
  PROVE  Serves(s) /\ Tidies(s) /\ Advances(s)
<1> DEFINE j == job[s]
<1>1. pc[s] = "truncate"
  BY DEF FlushOpen
<1>2. /\ Whole /\ AllFiles /\ DOMAIN j = DOMAIN NoJob /\ j.head \in BOOLEAN
      /\ j.todo \in Seq(Int) /\ j.hits \in Seq(Int) /\ db[s] \in Database
  BY <1>1, Working
<1>3. CASE ~dir /\ Crash(s)
  BY <1>1, <1>3, CrashServes
<1>4. CASE /\ dir
           /\ dbInfo' = Torn
           /\ Go(s, "write")
           /\ UNCHANGED <<dir, data, index, stray, db, job, deaths>>
  <2>1. AllFiles'
    BY <1>2, <1>4 DEF AllFiles
  <2>2. Spares(s)
    BY <1>4, SameAdds, AddsSpares
  <2>3. Others(s) /\ pc'[s] = "write" /\ db'[s] = db[s] /\ job'[s] = j
    BY <1>2, <1>4 DEF Others, Whole, Go
  <2> HIDE DEF j
  <2>4. Client("write", db[s], j, data', index', stray'[s])
    BY <1>2 DEF Client, Positions, Outside, Backing, Holding, Appending
  <2>5. Tidies(s)
    BY <1>1, <1>4, <2>3 DEF Tidies, Orderly, Flushing
  <2>6. Turn("write") = Turn("truncate")
    BY DEF Turn
  <2>7. Less(Measure("write", j), Measure("truncate", j))
    BY <1>2, <2>6, Ranks, LessWork
  <2>8. Advances(s)
    BY <1>1, <2>3, <2>7 DEF Advances, j
  <2> QED  BY <2>1, <2>2, <2>3, <2>4, <2>5, <2>8 DEF Serves
<1> QED  BY <1>3, <1>4 DEF FlushOpen

(* The second half: what is written is lost where the name is. *)
LEMMA FlushCloseServes ==
  ASSUME Typed, NEW s \in Sessions, FlushClose(s)
  PROVE  Serves(s) /\ Tidies(s) /\ Advances(s)
<1>1. pc[s] = "write"
  BY DEF FlushClose
<1>2. /\ Whole /\ AllFiles /\ db[s] \in Database
      /\ job[s].todo \in Seq(Int) /\ job[s].hits \in Seq(Int)
  BY <1>1, Working
<1>3. /\ dbInfo' = IF stray[s].out THEN dbInfo ELSE db[s]
      /\ Stop(s, "idle")
      /\ UNCHANGED <<dir, data, index, db, deaths>>
  BY DEF FlushClose
<1>4. /\ Others(s) /\ pc'[s] = "idle" /\ job'[s] = NoJob /\ db'[s] = db[s]
      /\ stray' \in [Sessions -> [tree : Index \cup {None}, out : BOOLEAN]]
      /\ \A o \in Sessions \ {s} : stray'[o] = stray[o]
      /\ stray'[s] = NoStray
  BY <1>3, Stopped
<1>5. AllFiles'
  BY <1>2, <1>3, <1>4 DEF AllFiles
<1>6. Spares(s)
  BY <1>3, <1>4, SameAdds, AddsSpares
<1>7. Client("idle", db[s], NoJob, data', index', stray'[s])
  BY <1>2, NoJobFields DEF Client, Positions, Outside, Backing, Holding, Appending
<1>8. Tidies(s)
  <2> SUFFICES ASSUME stray[s] = NoStray,
                      Orderly(dir, "write", db[s], job[s], dbInfo, data, index)
               PROVE  Orderly(dir, "idle", db[s], NoJob, db[s], data, index)
    <3>1. NoStray.out = FALSE
      BY DEF NoStray
    <3> QED  BY <1>1, <1>3, <1>4, <3>1 DEF Tidies
  <2>1. Covers(db[s], db[s])
    BY DEF Covers
  <2> HIDE DEF Honest, Covers
  <2> QED  BY <2>1 DEF Orderly, Flushing
<1>9. Advances(s)
  <2>1. Less(Measure("idle", NoJob), Measure("write", job[s]))
    BY <1>2, Ranks, NothingLeft
  <2> QED  BY <1>1, <1>4, <2>1 DEF Advances
<1> QED  BY <1>4, <1>5, <1>6, <1>7, <1>8, <1>9 DEF Serves

-----------------------------------------------------------------------------
(* A statement that begins. *)
LEMMA StatementServes ==
  ASSUME Typed, NEW s \in Sessions, Statement(s)
  PROVE  Serves(s) /\ Tidies(s) /\ pc[s] = "idle" /\ deaths' = deaths
<1>1. CASE ManagerUseDatabase(s)
  BY <1>1, UseServes DEF ManagerUseDatabase, Begins, Crash
<1>2. CASE ManagerCreateDatabase(s)
  BY <1>2, CreateDatabaseServes DEF ManagerCreateDatabase, Begins
<1>3. CASE ManagerDropDatabase(s)
  BY <1>3, DropDatabaseServes DEF ManagerDropDatabase, Begins, Crash
<1>4. CASE \E t \in Tables : ManagerCreateTable(s, t)
  BY <1>4, CreateTableServes DEF ManagerCreateTable, Begins, Crash
<1>5. CASE \E t \in Tables : ManagerDropTable(s, t)
  BY <1>5, DropTableServes DEF ManagerDropTable, Begins
<1>6. CASE \E t \in Tables, f \in Fields : ManagerCreateIndex(s, t, f)
  BY <1>6, CreateIndexServes DEF ManagerCreateIndex, Begins, Crash
<1>7. CASE \E t \in Tables, f \in Fields : ManagerDropIndex(s, t, f)
  BY <1>7, DropIndexServes DEF ManagerDropIndex, Begins
<1>8. CASE \E t \in Tables, given \in [Fields \ {"id"} -> Values \cup {None}] :
             ManagerInsert(s, t, given)
  BY <1>8, InsertServes DEF ManagerInsert, Begins, Crash
<1> DEFINE Asks(op, t, list) ==
             \E field, value : (op = "update" => value \in Values) /\ Query(s, op, t, list, field, value)
<1>9. CASE \E op \in {"select", "update", "delete"}, t \in Tables, list \in Clauses : Asks(op, t, list)
  <2>1. PICK op \in {"select", "update", "delete"}, t \in Tables, list \in Clauses : Asks(op, t, list)
    BY <1>9
  <2>2. PICK field, value : (op = "update" => value \in Values) /\ Query(s, op, t, list, field, value)
    BY <2>1
  <2>3. Serves(s) /\ Tidies(s)
    BY <2>2, QueryServes
  <2> QED  BY <2>2, <2>3 DEF Query, Begins
<1>10. CASE \E t \in Tables, list \in Clauses :
              \/ ManagerSelect(s, t, list)
              \/ ManagerDelete(s, t, list)
              \/ \E field \in SetFields, value \in Values : ManagerUpdate(s, t, list, field, value)
  <2>1. \E op \in {"select", "update", "delete"}, t \in Tables, list \in Clauses : Asks(op, t, list)
    BY <1>10 DEF ManagerSelect, ManagerDelete, ManagerUpdate
  <2> QED  BY <1>9, <2>1
<1> QED  BY <1>1, <1>2, <1>3, <1>4, <1>5, <1>6, <1>7, <1>8, <1>10 DEF Statement

(* A step of one. *)
LEMMA StepServes ==
  ASSUME Typed, NEW s \in Sessions, Step(s)
  PROVE  Serves(s) /\ Tidies(s) /\ Advances(s) /\ deaths' = deaths
<1>1. Serves(s) /\ Tidies(s) /\ Advances(s)
  BY MakeIndexServes, RemoveFileServes, SeekRowServes, OpenServes, LoadServes,
     PutInsertedServes, PutIndexedServes, AppendRowServes, FlushOpenServes,
     FlushCloseServes, ProbeServes, SearchServes, FetchServes, UpdateServes,
     PutDeletedServes, AnswerServes DEF Step
<1>2. deaths' = deaths
  BY DEF Step, MakeIndex, RemoveFile, SeekRow, OpenIndex, OpenUse, OpenBptree, Load, PutInserted,
         PutIndexed, AppendRow, FlushOpen, FlushClose, Probe, Search, Fetch, UpdateRow,
         PutDeleted, Answer, Crash
<1> QED  BY <1>1, <1>2

(* What the step of a session does, all at once. *)
LEMMA NextServes ==
  ASSUME Typed, Deaths, NEW s \in Sessions, Statement(s) \/ Step(s) \/ Kill(s) \/ Connect(s)
  PROVE  /\ Serves(s) /\ Deaths'
         /\ pc[s] \in {"idle", "crashed"} \/ Advances(s)
         /\ \/ Tidies(s) /\ deaths' \in {deaths, Append(deaths, "elsewhere")}
            \/ deaths' = Append(deaths, "flush")
<1>1. CASE Statement(s)
  BY <1>1, StatementServes DEF Deaths
<1>2. CASE Step(s)
  BY <1>2, StepServes DEF Deaths
<1>3. CASE Connect(s)
  <2>1. pc[s] = "crashed" /\ deaths' = deaths
    BY <1>3 DEF Connect
  <2> QED  BY <1>3, <2>1, ConnectServes DEF Deaths
<1>4. CASE Kill(s)
  <2>1. Deaths'
    BY <1>4, KillDeaths
  <2>2. \/ pc[s] \in Flushing /\ deaths' = Append(deaths, "flush")
        \/ pc[s] \notin Flushing /\ deaths' = Append(deaths, "elsewhere")
    BY <1>4 DEF Kill, Flushing
  <2> QED  BY <1>4, <2>1, <2>2, KillServes
<1> QED  BY <1>1, <1>2, <1>3, <1>4

(* At the start, with or without tables. *)
LEMMA InitTyped ==
  ASSUME Init
  PROVE  Typed
<1>1. Whole
  BY DEF Init, Whole
<1>2. \A s \in Sessions : Client(pc[s], db[s], job[s], data, index, stray[s])
  BY NoJobFields DEF Init, Client, Positions, Outside, Backing, Holding, Appending
<1>3. IInv
  BY InitIInv
<1>4. AllFiles
  <2>1. dbInfo \in Database \cup {Absent, Torn}
    BY <1>3 DEF IInv, Files, Sound
  <2>2. dir \in BOOLEAN
    BY DEF Init
  <2>3. stray \in [Sessions -> [tree : Index \cup {None}, out : BOOLEAN]]
    BY DEF Init, NoStray
  <2> QED  BY <1>3, <2>1, <2>2, <2>3 DEF IInv, Files, AllFiles
<1> QED  BY <1>1, <1>2, <1>4 DEF Typed

(* The types are kept by every step of every session. *)
LEMMA NextTyped ==
  ASSUME Typed, Deaths, [Next]_vars
  PROVE  Typed' /\ Deaths'
<1>1. CASE Next
  <2>1. PICK s \in Sessions : Statement(s) \/ Step(s) \/ Kill(s) \/ Connect(s)
    BY <1>1 DEF Next
  <2>2. Serves(s) /\ Deaths'
    BY <2>1, NextServes
  <2> QED  BY <2>2, ServesTyped
<1>2. CASE UNCHANGED vars
  <2>1. dir' = dir /\ dbInfo' = dbInfo /\ data' = data /\ index' = index /\ stray' = stray
        /\ db' = db /\ pc' = pc /\ job' = job /\ deaths' = deaths
    BY <1>2 DEF vars, disk
  <2> QED  BY <2>1 DEF Typed, Whole, AllFiles, Deaths
<1> QED  BY <1>1, <1>2

(***************************************************************************)
(* All eleven statements, in any number of sessions: no step ever finds    *)
(* the locals of its statement, or a file that it has opened, other than   *)
(* it needs them, whatever the others have removed in the meantime.        *)
(***************************************************************************)
THEOREM AllInvariance == Spec => [](Typed /\ Deaths)
<1>1. Init => Typed /\ Deaths
  BY InitTyped, InitDeaths
<1>2. (Typed /\ Deaths) /\ [Next]_vars => (Typed /\ Deaths)'
  BY NextTyped
<1> QED  BY <1>1, <1>2, PTL DEF Spec

(***************************************************************************)
(* The types of the files, the catalogs and the positions, for all eleven  *)
(* statements: what a step reads of a torn, a padded or a missing file it  *)
(* never takes for more than it is.                                        *)
(***************************************************************************)
THEOREM TypeCorrect == Spec => []TypeOK
<1>1. Typed => TypeOK
  BY DEF Typed, AllFiles, Client, TypeOK
<1> QED  BY <1>1, AllInvariance, PTL

(***************************************************************************)
(* Every step of every statement leaves less to do, whatever the other     *)
(* sessions have done to the files and the index since the step before:    *)
(* the loops over keys and rows cannot go round for ever.                  *)
(***************************************************************************)
THEOREM StatementsAdvance == Spec => StepsAdvance
<1> DEFINE Advance == \A s \in Sessions :
             pc[s] \notin {"idle", "crashed"} /\ <<pc[s], job[s]>> # <<pc'[s], job'[s]>> =>
               Less(Work(s)', Work(s))
<1>1. ASSUME Typed, Deaths, Next
      PROVE  Advance
  <2>1. PICK s \in Sessions : Statement(s) \/ Step(s) \/ Kill(s) \/ Connect(s)
    BY <1>1 DEF Next
  <2>2. Serves(s) /\ (pc[s] \in {"idle", "crashed"} \/ Advances(s))
    BY <1>1, <2>1, NextServes
  <2>3. \A o \in Sessions \ {s} : pc'[o] = pc[o] /\ job'[o] = job[o]
    BY <2>2 DEF Serves, Others
  <2>4. pc[s] \in {"idle", "crashed"} \/ Less(Work(s)', Work(s))
    <3>1. Work(s) = Measure(pc[s], job[s]) /\ Work(s)' = Measure(pc'[s], job'[s])
      BY DEF Work, Measure, Turn
    <3> QED  BY <2>2, <3>1 DEF Advances
  <2> QED  BY <2>3, <2>4
<1>2. (Typed /\ Deaths) /\ [Next]_vars => [Advance]_vars
  BY <1>1
<1> QED  BY <1>2, AllInvariance, PTL DEF Spec, StepsAdvance
-----------------------------------------------------------------------------
(* The files of a session alone. *)
Neat(s) == stray[s] = NoStray /\ Orderly(dir, pc[s], db[s], job[s], dbInfo, data, index)

(* At the start the catalog lists what there is. *)
LEMMA InitOrderly ==
  ASSUME Init, NEW s \in Sessions
  PROVE  Neat(s)
<1>1. /\ pc[s] = "idle" /\ db[s] = None /\ dir = (InitialTables # {}) /\ stray[s] = NoStray
      /\ IInv
  BY InitIInv DEF Init
<1>2. CASE InitialTables = {}
  BY <1>1, <1>2 DEF Init, Neat, Orderly, NoFiles
<1>3. CASE InitialTables # {}
  <2>1. Sound(dbInfo, data)
    BY <1>3, FirstCatalog
  <2>2. Once(dbInfo.tables)
    BY <1>3, FirstCatalog DEF Once
  <2>3. ASSUME NEW i \in 1..Len(dbInfo.tables)
        PROVE  InFiles(dbInfo.tables[i], data, index)
    <3> DEFINE info == dbInfo.tables[i]
    <3>1. /\ info.name \in InitialTables /\ info.indexed = {"id"}
          /\ info.dataNum <= Len(data[info.name])
      BY <2>1 DEF Sound
    <3> HIDE DEF info
    <3>2. data[info.name] \in Seq(Row) /\ index[<<info.name, "id">>] \in Index
      BY <1>1, <3>1 DEF IInv, Files
    <3>3. data[info.name] # Absent /\ index[<<info.name, "id">>] # Absent
      BY <3>2, AbsentAssumption
    <3>4. InFiles(info, data, index)
      BY <3>1, <3>3 DEF InFiles
    <3> QED  BY <3>4 DEF info
  <2>4. Honest(dbInfo, data, index)
    BY <2>1, <2>2, <2>3 DEF Honest, Sound
  <2> QED  BY <1>1, <1>3, <2>4 DEF Neat, Orderly, Flushing
<1> QED  BY <1>2, <1>3

(* A death on the way to a new dbInfo is remembered. *)
LEMMA FlushRemembered ==
  ASSUME Deaths, NEW cause \in {"flush", "elsewhere"}
  PROVE  ToSet(Append(deaths, cause)) = ToSet(deaths) \cup {cause}
<1> DEFINE n == Len(deaths)
           new == Append(deaths, cause)
<1>1. n \in Nat /\ Len(new) = n + 1 /\ new[n + 1] = cause /\ \A i \in 1..n : new[i] = deaths[i]
  BY DEF Deaths
<1>2. DOMAIN new = 1..(n + 1) /\ DOMAIN deaths = 1..n
  BY DEF Deaths
<1>3. 1..(n + 1) = 1..n \cup {n + 1}
  BY <1>1
<1> HIDE DEF new, n
<1> QED  BY <1>1, <1>2, <1>3 DEF ToSet, new

(* A session alone keeps its files in order, whatever statements it uses. *)
Tidied ==
  "flush" \notin ToSet(deaths) => \A s \in Sessions : Neat(s)

(* A session alone, as long as no death fell while dbInfo was due. *)
LEMMA AloneTidied ==
  ASSUME NEW alone, Sessions = {alone}
  PROVE  Spec => []Tidied
<1> DEFINE Tidy == \A s \in Sessions : Neat(s)
<1>1. Init => Tidied
  BY InitOrderly DEF Tidied
<1>2. ASSUME Typed, Deaths, Tidied, [Next]_vars  PROVE Tidied'
  <2>1. CASE Next
    <3>1. PICK s \in Sessions : Statement(s) \/ Step(s) \/ Kill(s) \/ Connect(s)
      BY <2>1 DEF Next
    <3>2. \/ Tidies(s) /\ deaths' \in {deaths, Append(deaths, "elsewhere")}
          \/ deaths' = Append(deaths, "flush")
      BY <1>2, <3>1, NextServes
    <3>3. CASE deaths' = Append(deaths, "flush")
      <4>1. "flush" \in ToSet(deaths')
        BY <1>2, <3>3, FlushRemembered
      <4> QED  BY <4>1 DEF Tidied
    <3>4. CASE Tidies(s) /\ deaths' \in {deaths, Append(deaths, "elsewhere")}
      <4>1. "flush" \in ToSet(deaths) => "flush" \in ToSet(deaths')
        BY <1>2, <3>4, FlushRemembered
      <4>2. Tidy => Tidy'
        BY <3>4 DEF Tidies, Neat
      <4> QED  BY <1>2, <4>1, <4>2 DEF Tidied
    <3> QED  BY <3>2, <3>3, <3>4
  <2>2. CASE UNCHANGED vars
    BY <1>2, <2>2 DEF vars, disk, Tidied, Neat
  <2> QED  BY <1>2, <2>1, <2>2
<1> QED  BY <1>1, <1>2, AllInvariance, PTL DEF Spec

(***************************************************************************)
(* One session alone, killed and started anew as often as it may be: what  *)
(* dbInfo and its own copy list is in the files, rows and indexes,         *)
(* whichever of the eleven statements it has used and in whatever order,   *)
(* unless a kill came between a change of its copy and the new dbInfo.     *)
(***************************************************************************)
THEOREM AloneCatalogBacked ==
  ASSUME NEW alone, Sessions = {alone}
  PROVE  Spec => []CatalogBacked
<1>1. ASSUME NEW cat, Honest(cat, data, index)  PROVE Backed(cat)
  <2>1. DOMAIN cat.tables = 1..Len(cat.tables)
    BY <1>1 DEF Honest, Database
  <2> QED  BY <1>1, <2>1 DEF Honest, InFiles, Backed
<1>2. Tidied => CatalogBacked
  BY <1>1 DEF Tidied, Neat, Orderly, Flushing, CatalogBacked, Quiet
<1> QED  BY <1>2, AloneTidied, PTL

-----------------------------------------------------------------------------
(* Among takes all that are in the set. *)
LEMMA AmongHas ==
  ASSUME NEW S, NEW seq \in Seq(S), NEW set, NEW k \in 1..Len(seq), seq[k] \in set
  PROVE  \E i \in 1..Len(Among(seq, set)) : Among(seq, set)[i] = seq[k]
<1>1. /\ Among(seq, set) \in Seq(S \cap set)
      /\ \A r \in 1..Len(seq) :
           seq[r] \in set => \E i \in 1..Len(Among(seq, set)) : Among(seq, set)[i] = seq[r]
  BY ONLY AmongProperties, seq \in Seq(S)
<1> QED  BY <1>1

(* BptreeSearch answers with every row of the key that is not marked. *)
LEMMA SearchFinds ==
  ASSUME NEW leaf \in Seq(Entry), NEW k \in 1..Len(leaf), ~leaf[k].del
  PROVE  LET offsets == BptreeSearch(leaf, leaf[k].key)
         IN  \E i \in 1..Len(offsets) : offsets[i] = leaf[k].dat
<1> DEFINE T == ToSet(leaf)
           key == leaf[k].key
           wanted == {e \in T : e.key = key /\ ~e.del}
           back == Reverse(leaf)
           hits == Among(back, wanted)
           m == Len(leaf)
<1>1. m \in Nat /\ DOMAIN leaf = 1..m
  OBVIOUS
<1>2. T = {leaf[i] : i \in 1..m}
  BY <1>1 DEF ToSet
<1>3. back \in Seq(T) /\ Len(back) = m
      /\ \A i \in 1..m : back[i] = leaf[(m - i) + 1]
  <2>1. \A i \in 1..m : leaf[(m - i) + 1] \in T
    <3> TAKE i \in 1..m
    <3>1. (m - i) + 1 \in 1..m
      BY <1>1
    <3> QED  BY <1>2, <3>1
  <2> HIDE DEF T
  <2> QED  BY <1>1, <2>1 DEF Reverse
<1>4. leaf[k] \in wanted
  BY <1>2
<1>5. (m - k) + 1 \in 1..m /\ (m - ((m - k) + 1)) + 1 = k
  BY <1>1
<1>6. back[(m - k) + 1] = leaf[k]
  BY <1>3, <1>5
<1> HIDE DEF wanted, T, back
<1>7. hits \in Seq(T \cap wanted)
  <2>1. back \in Seq(T)
    BY <1>3
  <2> QED  BY <2>1, AmongProperties
<1>8. \E i \in 1..Len(hits) : hits[i] = leaf[k]
  <2> DEFINE r == (m - k) + 1
  <2>1. back \in Seq(T) /\ r \in 1..Len(back) /\ back[r] = leaf[k] /\ back[r] \in wanted
    BY <1>3, <1>4, <1>5, <1>6
  <2> HIDE DEF r
  <2>2. \E i \in 1..Len(hits) : hits[i] = back[r]
    BY <2>1, AmongHas
  <2> QED  BY <2>1, <2>2
<1>9. BptreeSearch(leaf, key) = [i \in DOMAIN hits |-> hits[i].dat]
  BY DEF BptreeSearch, wanted, T, back
<1> HIDE DEF hits
<1>10. Len(hits) \in Nat /\ DOMAIN hits = 1..Len(hits)
  BY <1>7
<1>11. Len(BptreeSearch(leaf, key)) = Len(hits)
       /\ \A i \in 1..Len(hits) : BptreeSearch(leaf, key)[i] = hits[i].dat
  BY <1>9, <1>10
<1> QED  BY <1>8, <1>11

(* FlattenSeq leaves nothing out. *)
LEMMA FlattenHas ==
  ASSUME NEW S, NEW seqs \in Seq(Seq(S))
  PROVE  /\ FlattenSeq(seqs) \in Seq(S)
         /\ \A n \in 1..Len(seqs) : \A i \in 1..Len(seqs[n]) :
              \E m \in 1..Len(FlattenSeq(seqs)) : FlattenSeq(seqs)[m] = seqs[n][i]
<1> DEFINE N == Len(seqs)
           V == Seq(S)
           Sol(g) == g = [n \in 1..N |-> IF n = 1 THEN seqs[n] ELSE g[n - 1] \o seqs[n]]
<1>1. N \in Nat /\ \A n \in 1..N : seqs[n] \in V
  OBVIOUS
<1>2. CASE N = 0
  <2>1. seqs = <<>> /\ FlattenSeq(seqs) = <<>>
    BY <1>2 DEF FlattenSeq
  <2>2. FlattenSeq(seqs) \in Seq(S)
    <3>1. FlattenSeq(seqs) = <<>>
      BY <2>1
    <3>2. <<>> \in Seq(S)
      OBVIOUS
    <3> HIDE DEF N
    <3> QED  BY <3>1, <3>2
  <2>3. \A n \in 1..N : FALSE
    BY <1>2
  <2> QED  BY <2>2, <2>3
<1>3. CASE N # 0
  <2> DEFINE M == N - 1
             step == [a \in (1..M) \X V |-> a[2] \o seqs[a[1] + 1]]
  <2>1. M \in Nat /\ seqs[1] \in V /\ \A n \in 1..M : seqs[n + 1] \in V
    BY <1>1, <1>3
  <2>2. step \in Steps(M, V)
    <3>1. \A n \in 1..M, x \in V : x \o seqs[n + 1] \in V
      BY <2>1
    <3> QED  BY <3>1 DEF Steps
  <2>3. \A n \in 1..M, x \in V : step[<<n, x>>] = x \o seqs[n + 1]
    OBVIOUS
  <2> HIDE DEF step, V
  <2>4. PICK f \in [0..M -> V] : Rounds(f, M, seqs[1], step)
    BY <2>1, <2>2, Recursion
  <2>5. f[0] = seqs[1] /\ \A n \in 1..M : f[n] = f[n - 1] \o seqs[n + 1]
    <3>1. \A n \in 1..M : n - 1 \in 0..M /\ f[n - 1] \in V
      BY <2>1
    <3>2. f[0] = seqs[1] /\ \A n \in 1..M : f[n] = step[<<n, f[n - 1]>>]
      BY <2>4 DEF Rounds
    <3> QED  BY <2>3, <3>1, <3>2
  <2> DEFINE g == [n \in 1..N |-> f[n - 1]]
  <2>6. Sol(g)
    <3>1. ASSUME NEW n \in 1..N
          PROVE  f[n - 1] = IF n = 1 THEN seqs[n] ELSE g[n - 1] \o seqs[n]
      <4>1. CASE n = 1
        BY <2>5, <4>1
      <4>2. CASE n # 1
        <5>1. n - 1 \in 1..M /\ (n - 1) + 1 = n /\ n - 1 \in 1..N
          BY <1>1, <4>2
        <5>2. f[n - 1] = f[(n - 1) - 1] \o seqs[(n - 1) + 1]
          BY <2>5, <5>1
        <5>3. g[n - 1] = f[(n - 1) - 1]
          BY <5>1
        <5> QED  BY <4>2, <5>1, <5>2, <5>3
      <4> QED  BY <4>1, <4>2
    <3> HIDE DEF M
    <3> QED  BY <3>1
  <2> DEFINE flat == CHOOSE h : Sol(h)
  <2> HIDE DEF g
  <2>7. Sol(flat)
    <3> HIDE DEF Sol
    <3> QED  BY <2>6
  <2>8. FlattenSeq(seqs) = flat[N]
    BY <1>3 DEF FlattenSeq
  <2> HIDE DEF flat
  <2>9. flat[1] = seqs[1] /\ \A n \in 1..N : n # 1 => flat[n] = flat[n - 1] \o seqs[n]
    <3>1. \A n \in 1..N : flat[n] = IF n = 1 THEN seqs[n] ELSE flat[n - 1] \o seqs[n]
      BY <2>7
    <3>2. 1 \in 1..N
      BY <1>1, <1>3
    <3> HIDE DEF N
    <3> QED  BY <3>1, <3>2
  <2> DEFINE Spans(x, y) == \A i \in 1..Len(y) : \E m \in 1..Len(x) : x[m] = y[i]
             Good(n) == flat[n] \in V /\ \A k \in 1..n : Spans(flat[n], seqs[k])
             T == {n \in Nat : n + 1 <= N => Good(n + 1)}
  <2>10. Good(1)
    <3>1. Spans(seqs[1], seqs[1])
      OBVIOUS
    <3>2. \A k \in 1..1 : k = 1
      OBVIOUS
    <3> HIDE DEF Spans
    <3> QED  BY <2>1, <2>9, <3>1, <3>2
  <2>11. ASSUME NEW x \in V, NEW y \in V
         PROVE  x \o y \in V /\ Spans(x \o y, x) /\ Spans(x \o y, y)
    <3>1. /\ x \o y \in Seq(S) /\ Len(x \o y) = Len(x) + Len(y)
          /\ \A i \in 1..(Len(x) + Len(y)) :
               (x \o y)[i] = IF i <= Len(x) THEN x[i] ELSE y[i - Len(x)]
      BY ConcatProperties DEF V
    <3>2. Len(x) \in Nat /\ Len(y) \in Nat
      BY DEF V
    <3> DEFINE z == x \o y
    <3> HIDE DEF z
    <3>3. ASSUME NEW i \in 1..Len(x)  PROVE \E m \in 1..Len(z) : z[m] = x[i]
      <4>1. i \in 1..Len(z) /\ z[i] = x[i]
        BY <3>1, <3>2 DEF z
      <4> QED  BY <4>1
    <3>4. ASSUME NEW i \in 1..Len(y)  PROVE \E m \in 1..Len(z) : z[m] = y[i]
      <4>1. Len(x) + i \in 1..Len(z) /\ ~(Len(x) + i <= Len(x)) /\ (Len(x) + i) - Len(x) = i
        BY <3>1, <3>2 DEF z
      <4>2. z[Len(x) + i] = y[i]
        BY <3>1, <4>1 DEF z
      <4> QED  BY <4>1, <4>2
    <3> QED  BY <3>1, <3>3, <3>4 DEF z, V
  <2>12. ASSUME NEW x, NEW y, NEW z, Spans(x, y), Spans(y, z)
         PROVE  Spans(x, z)
    BY <2>12
  <2> HIDE DEF Spans
  <2>13. ASSUME NEW n \in T  PROVE n + 1 \in T
    <3> SUFFICES ASSUME (n + 1) + 1 <= N  PROVE Good((n + 1) + 1)
      OBVIOUS
    <3> DEFINE m == n + 1
    <3>1. n \in Nat /\ m \in 1..N /\ m + 1 \in 1..N /\ m + 1 # 1 /\ (m + 1) - 1 = m
      BY <1>1
    <3>2. Good(m)
      BY <1>1, <3>1
    <3>3. flat[m + 1] = flat[m] \o seqs[m + 1] /\ seqs[m + 1] \in V
      BY <1>1, <2>9, <3>1
    <3> DEFINE x == flat[m]
               y == seqs[m + 1]
    <3>4. x \in V /\ y \in V /\ flat[m + 1] = x \o y
      BY <3>2, <3>3
    <3> HIDE DEF x, y
    <3>5. flat[m + 1] \in V /\ Spans(flat[m + 1], x) /\ Spans(flat[m + 1], y)
      BY <2>11, <3>4
    <3>6. ASSUME NEW k \in 1..(m + 1)  PROVE Spans(flat[m + 1], seqs[k])
      <4>1. CASE k = m + 1
        BY <3>5, <4>1 DEF y
      <4>2. CASE k # m + 1
        <5>1. k \in 1..m
          BY <3>1, <4>2
        <5>2. Spans(x, seqs[k])
          BY <3>2, <5>1 DEF x
        <5> QED  BY <2>12, <3>5, <5>2
      <4> QED  BY <4>1, <4>2
    <3> HIDE DEF m
    <3> QED  BY <3>5, <3>6 DEF m
  <2>14. 0 \in T
    BY <2>10
  <2>15. T = Nat
    <3> HIDE DEF Good
    <3>1. T \in SUBSET Nat
      OBVIOUS
    <3> HIDE DEF T
    <3> QED  BY <2>13, <2>14, <3>1, SetInduction
  <2>16. Good(N)
    <3>1. M + 1 = N /\ M + 1 <= N
      BY <1>1
    <3>2. M \in T
      <4> HIDE DEF T, M
      <4> QED  BY <2>1, <2>15
    <3> HIDE DEF Good, M, N
    <3> QED  BY <3>1, <3>2
  <2> QED  BY <1>1, <2>8, <2>16 DEF Spans, V
<1> QED  BY <1>2, <1>3
-----------------------------------------------------------------------------
(***************************************************************************)
(* What a session alone leaves behind, kills included, as long as none of  *)
(* them falls between the append of a row and the new dbInfo: a row that a *)
(* client was told is in is where its number says, and under this number   *)
(* it is in the index; or there are more rows than are counted.            *)
(***************************************************************************)
(* The index leads from a number to the row of this number. *)
Entered(tree, n) ==
  /\ tree.root
  /\ \E i \in DOMAIN tree.leaf :
       tree.leaf[i].key = n /\ tree.leaf[i].dat = n /\ ~tree.leaf[i].del

Placed(row, n, rows, tree) ==
  \E k \in 0..(n - 1) : rows[k + 1] = row /\ Entered(tree, k)

(* The statement under way is about to change the row, or has. *)
Touches(j, t, row) ==
  j.op \in {"update", "delete"} /\ j.table = t /\ Passes(row, j.filter)

Safe(t, cat, j, rows, trees, mine) ==
  mine # {} =>
    /\ Slots(cat, t) # {}
    /\ \/ Len(rows[t]) > Info(cat, t).dataNum
       \/ \A row \in mine :
            \/ Touches(j, t, row)
            \/ Placed(row, Info(cat, t).dataNum, rows[t], trees[<<t, "id">>])

(* A catalog that nothing was dropped from ... *)
Full(cat) ==
  Complete(cat) /\ \A t \in Tables : Slots(cat, t) # {} => "id" \in Info(cat, t).indexed

(* ... and the files of what it lists. *)
Listed(cat, rows, trees) ==
  /\ cat \in Database /\ Full(cat)
  /\ \A t \in Tables :
       Slots(cat, t) # {} =>
         /\ rows[t] # Absent /\ trees[<<t, "id">>] # Absent
         /\ Info(cat, t).dataNum <= Len(rows[t])

(* The tables of info are in cat, with as many rows. *)
Counts(cat, info) ==
  \A t \in Tables :
    Slots(info, t) # {} => Slots(cat, t) # {} /\ Info(cat, t).dataNum = Info(info, t).dataNum

(* While a column is being indexed the copy of the session is ahead of dbInfo. *)
Alike(cat, info) == Full(cat) /\ Counts(cat, info) /\ Counts(info, cat)

(* The row an offset leads to meets the clause, if there is one. *)
Meets(offset, rows, filter) ==
  Place(offset) \in DOMAIN rows => Passes(rows[Place(offset)], filter)

(* The number of an INSERT's row is the count, and is indexed first. *)
Stores(p, cat, j, rows, tree) ==
  /\ Slots(cat, j.table) # {}
  /\ p \in {"open", "load", "put", "append"} =>
       /\ j.row["id"] = Info(cat, j.table).dataNum
       /\ \/ p # "append" /\ j.row["id"] \in ToSet(j.todo)
          \/ Entered(tree, j.row["id"])
  /\ p \in {"truncate", "write"} =>
       \/ Len(rows) > Info(cat, j.table).dataNum
       \/ Placed(j.row, Info(cat, j.table).dataNum, rows, tree)

(* What a statement has read is still so. *)
Current(p, cat, j, rows, trees) ==
  /\ p \in Holding => j.head = trees[Held(p, j)].root
  /\ p = "put" => j.leaf = IF j.head THEN trees[Held(p, j)].leaf ELSE <<>>
  /\ p \in {"update", "load", "put"} /\ j.op \in {"update", "delete"} =>
       Meets(Head(j.hits), rows[j.table], j.filter)
  /\ j.op = "insert" => Stores(p, cat, j, rows[j.table], trees[<<j.table, "id">>])
  /\ j.op = "create index" => j.field # "id"

Due(p, cat, info) == IF p \in {"truncate", "write"} THEN cat ELSE info

Kept(d, p, cat, info, j, rows, trees, mine) ==
  /\ p # "remove"
  /\ \A t \in Tables : rows[t] = Absent => mine[t] = {}
  /\ d => /\ p \notin {"truncate", "write"} => cat = None \/ Alike(cat, info)
          /\ Full(Due(p, cat, info))
          /\ \A t \in Tables : Safe(t, Due(p, cat, info), j, rows, trees, mine[t])
          /\ Current(p, Due(p, cat, info), j, rows, trees)

-----------------------------------------------------------------------------
(* What SELECT * shows has the rows that are where their numbers say. *)
LEMMA ShownFinds ==
  ASSUME Typed, NEW t \in Tables, dbInfo \in Database, Slots(dbInfo, t) # {},
         data[t] # Absent, index[<<t, "id">>] # Absent,
         Info(dbInfo, t).dataNum <= Len(data[t]),
         NEW row, Placed(row, Info(dbInfo, t).dataNum, data[t], index[<<t, "id">>])
  PROVE  row \in ToSet(Shown(t).rows)
<1> DEFINE n       == Info(dbInfo, t).dataNum
           tree    == index[<<t, "id">>]
           rows    == data[t]
           keys    == [i \in 1..n |-> i - 1]
           hits    == [i \in DOMAIN keys |-> BptreeSearch(tree.leaf, keys[i])]
           offsets == FlattenSeq(hits)
           inner   == {o \in ToSet(offsets) : o + 1 \in DOMAIN rows}
           inside  == Among(offsets, inner)
           found   == [i \in DOMAIN inside |-> rows[inside[i] + 1]]
           first   == IF rows = <<>> THEN None ELSE rows[1]
<1>1. rows \in Seq(Row) /\ tree \in Index /\ n \in Nat
  <2>1. data[t] \in Seq(Row) \cup {Absent}
    BY DEF Typed, AllFiles
  <2>2. <<t, "id">> \in Tables \X Fields
    BY Columns
  <2>3. index[<<t, "id">>] \in Index \cup {Absent}
    BY <2>2 DEF Typed, AllFiles
  <2>4. Info(dbInfo, t) \in Table
    BY HonestInfo
  <2> QED  BY <2>1, <2>3, <2>4 DEF Table
<1>2. PICK k \in 0..(n - 1) : rows[k + 1] = row /\ Entered(tree, k)
  BY DEF Placed
<1>3. tree.root /\ tree.leaf \in Seq(Entry)
  BY <1>1, <1>2 DEF Entered, Index
<1>4. PICK e \in DOMAIN tree.leaf :
        tree.leaf[e].key = k /\ tree.leaf[e].dat = k /\ ~tree.leaf[e].del
  BY <1>2 DEF Entered
<1>5. Shown(t).rows = found
  <2>1. Has(dbInfo, t) /\ dbInfo \notin {Absent, Torn}
    BY AbsentAssumption DEF Has
  <2>2. Shown(t) = [rows |-> found, count |-> n, first |-> first]
    BY <1>3, <2>1 DEF Shown
  <2> HIDE DEF found, n, first
  <2> QED  BY <2>2
<1> HIDE DEF n, tree, rows
<1>6. \A i \in 1..n : keys[i] = i - 1
  OBVIOUS
<1>7. \A key : BptreeSearch(tree.leaf, key) \in Seq(Int)
  BY <1>3, SearchEntries
<1>8. hits \in Seq(Seq(Int)) /\ Len(hits) = n /\ \A i \in 1..n : hits[i] = BptreeSearch(tree.leaf, i - 1)
  <2>1. hits = [i \in 1..n |-> BptreeSearch(tree.leaf, i - 1)]
    OBVIOUS
  <2> HIDE DEF hits
  <2> QED  BY <1>1, <1>7, <2>1
<1> HIDE DEF hits
<1>9. k + 1 \in 1..n /\ (k + 1) - 1 = k
  BY <1>1
<1>10. PICK i \in 1..Len(hits[k + 1]) : hits[k + 1][i] = k
  <2>1. e \in 1..Len(tree.leaf) /\ ~tree.leaf[e].del /\ tree.leaf[e].key = k
    BY <1>3, <1>4
  <2>2. \E i \in 1..Len(BptreeSearch(tree.leaf, k)) : BptreeSearch(tree.leaf, k)[i] = k
    BY <1>3, <1>4, <2>1, SearchFinds
  <2>3. hits[k + 1] = BptreeSearch(tree.leaf, k)
    BY <1>8, <1>9
  <2> QED  BY <2>2, <2>3
<1>11. offsets \in Seq(Int) /\ \E m \in 1..Len(offsets) : offsets[m] = hits[k + 1][i]
  BY <1>8, <1>9, FlattenHas
<1> HIDE DEF offsets
<1>12. PICK m \in 1..Len(offsets) : offsets[m] = k
  BY <1>10, <1>11
<1>13. offsets[m] \in inner
  <2>1. offsets[m] \in ToSet(offsets)
    BY <1>11 DEF ToSet
  <2>2. k + 1 \in DOMAIN rows
    <3>1. n <= Len(rows)
      BY DEF n, rows
    <3> QED  BY <1>1, <1>9, <3>1
  <2> QED  BY <1>12, <2>1, <2>2
<1> HIDE DEF inner
<1>14. inside \in Seq(Int \cap inner)
  BY <1>11, AmongProperties
<1>15. PICK r \in 1..Len(inside) : inside[r] = k
  <2>1. offsets \in Seq(Int) /\ m \in 1..Len(offsets) /\ offsets[m] \in inner
    BY <1>11, <1>13
  <2>2. \E r \in 1..Len(inside) : inside[r] = offsets[m]
    BY <2>1, AmongHas
  <2> QED  BY <1>12, <2>2
<1> HIDE DEF inside
<1>16. r \in DOMAIN found /\ found[r] = row
  BY <1>2, <1>14, <1>15
<1> QED  BY <1>5, <1>16 DEF ToSet

(* The number of a table's place in a catalog depends on nothing but its places. *)
LEMMA SameSlots ==
  ASSUME NEW cat, NEW new, NEW t, Slots(new, t) = Slots(cat, t)
  PROVE  Slot(new, t) = Slot(cat, t)
<1> DEFINE Least(S) == CHOOSE i \in S : \A j \in S : i <= j
<1>1. Slot(new, t) = Least(Slots(new, t)) /\ Slot(cat, t) = Least(Slots(cat, t))
  BY DEF Slot
<1> HIDE DEF Least
<1> QED  BY <1>1

(* A catalog with what it says of a table changed. *)
WithInfo(cat, t, info) == [cat EXCEPT !.tables[Slot(cat, t)] = info]

(* Then the other tables are what they were. *)
LEMMA InfoSet ==
  ASSUME NEW cat \in Database, NEW t, Slots(cat, t) # {}, NEW info \in Table, info.name = t
  PROVE  LET new == WithInfo(cat, t, info)
         IN  /\ new \in Database /\ (Complete(cat) => Complete(new))
             /\ \A u : Slots(new, u) = Slots(cat, u)
             /\ Info(new, t) = info
             /\ \A u : u # t /\ Slots(cat, u) # {} => Info(new, u) = Info(cat, u)
<1> DEFINE new == WithInfo(cat, t, info)
           slot == Slot(cat, t)
           m == Len(cat.tables)
<1>1. /\ new \in Database /\ Len(new.tables) = m /\ slot \in 1..m
      /\ \A i \in 1..m : new.tables[i] = IF i = slot THEN info ELSE cat.tables[i]
  BY SetTables DEF WithInfo
<1>2. new.tableNum = cat.tableNum
  BY DEF Database, WithInfo
<1>3. cat.tables[slot].name = t
  BY SlotFound DEF Info
<1> HIDE DEF new, slot, m
<1>4. DOMAIN new.tables = 1..m /\ DOMAIN cat.tables = 1..m
  BY <1>1 DEF Database, m
<1>5. ASSUME NEW u  PROVE Slots(new, u) = Slots(cat, u)
  <2>1. \A i \in 1..m : new.tables[i].name = cat.tables[i].name
    BY <1>1, <1>3
  <2> QED  BY <1>4, <2>1 DEF Slots
<1>6. ASSUME NEW u  PROVE Slot(new, u) = Slot(cat, u)
  BY <1>5, SameSlots
<1>7. Info(new, t) = info
  BY <1>1, <1>6 DEF Info, slot
<1>8. ASSUME NEW u, u # t, Slots(cat, u) # {}  PROVE Info(new, u) = Info(cat, u)
  <2>1. Slot(cat, u) \in 1..m /\ Info(cat, u).name = u
    BY <1>8, SlotFound DEF m
  <2>2. Slot(cat, u) # slot
    BY <1>3, <1>8, <2>1 DEF Info
  <2> QED  BY <1>1, <1>6, <2>1, <2>2 DEF Info
<1>9. Complete(cat) => Complete(new)
  BY <1>1, <1>2 DEF Complete, m
<1> QED  BY <1>1, <1>5, <1>7, <1>8, <1>9 DEF new

(* A catalog with one more table. *)
WithTable(cat, info) ==
  [tables |-> Append(cat.tables, info), tableNum |-> cat.tableNum + 1]

(* Then the tables there were are what they were. *)
LEMMA InfoAdded ==
  ASSUME NEW cat \in Database, NEW t, Slots(cat, t) = {}, NEW info \in Table, info.name = t
  PROVE  LET new == WithTable(cat, info)
         IN  /\ new \in Database /\ (Complete(cat) => Complete(new))
             /\ Slots(new, t) # {} /\ Info(new, t) = info
             /\ \A u : u # t => /\ Slots(new, u) = Slots(cat, u)
                                /\ Slots(cat, u) # {} => Info(new, u) = Info(cat, u)
<1> DEFINE tables == Append(cat.tables, info)
           new == WithTable(cat, info)
           m == Len(cat.tables)
<1>1. cat.tables \in Seq(Table) /\ cat.tableNum \in Nat /\ m \in Nat
  BY DEF Database
<1>2. /\ tables \in Seq(Table) /\ Len(tables) = m + 1 /\ tables[m + 1] = info
      /\ \A i \in 1..m : tables[i] = cat.tables[i]
  BY <1>1, AppendProperties
<1>3. new \in Database /\ new.tables = tables /\ new.tableNum = cat.tableNum + 1
  <2>1. new = [tables |-> tables, tableNum |-> cat.tableNum + 1]
    BY DEF WithTable
  <2> HIDE DEF tables, new
  <2> QED  BY <1>1, <1>2, <2>1 DEF Database
<1> HIDE DEF tables
<1> HIDE DEF new, m
<1>4. DOMAIN new.tables = 1..(m + 1) /\ DOMAIN cat.tables = 1..m
  BY <1>1, <1>2, <1>3 DEF m
<1>5. 1..(m + 1) = 1..m \cup {m + 1}
  BY <1>1
<1>6. Slots(new, t) = {m + 1}
  <2>1. \A i \in 1..m : tables[i].name # t
    BY <1>2, <1>4 DEF Slots
  <2> QED  BY <1>2, <1>3, <1>4, <1>5, <2>1 DEF Slots
<1>7. Info(new, t) = info
  <2>1. Slot(new, t) = m + 1
    BY <1>6 DEF Slot
  <2> QED  BY <1>2, <1>3, <2>1 DEF Info
<1>8. ASSUME NEW u, u # t  PROVE Slots(new, u) = Slots(cat, u)
  <2>1. \A i \in 1..m : new.tables[i].name = cat.tables[i].name
    BY <1>2, <1>3
  <2>2. new.tables[m + 1].name # u
    BY <1>2, <1>3, <1>8
  <2> QED  BY <1>4, <1>5, <2>1, <2>2 DEF Slots
<1>9. ASSUME NEW u, u # t, Slots(cat, u) # {}  PROVE Info(new, u) = Info(cat, u)
  <2>1. Slot(cat, u) \in 1..m
    BY <1>9, SlotFound DEF m
  <2>2. Slot(new, u) = Slot(cat, u)
    BY <1>8, <1>9, SameSlots
  <2> QED  BY <1>2, <1>3, <2>1, <2>2 DEF Info
<1>10. Complete(cat) => Complete(new)
  BY <1>2, <1>3 DEF Complete, m
<1> QED  BY <1>3, <1>6, <1>7, <1>8, <1>9, <1>10 DEF new, tables

(* OpenDatabase reads what is there. *)
LEMMA PaddedComplete ==
  ASSUME NEW cat \in Database, Complete(cat)
  PROVE  Padded(cat) = cat
<1> DEFINE more == [i \in 1..(cat.tableNum - Len(cat.tables)) |->
                      [name |-> Junk, indexed |-> {}, dataNum |-> 0]]
<1>1. cat.tables \in Seq(Table) /\ cat.tableNum = Len(cat.tables) /\ Len(cat.tables) \in Nat
  BY DEF Complete, Database
<1>2. more = <<>>
  <2>1. 1..(cat.tableNum - Len(cat.tables)) = {}
    BY <1>1
  <2> QED  BY <2>1
<1> HIDE DEF more
<1>3. cat.tables \o more = cat.tables
  BY <1>1, <1>2, ConcatEmptySeq
<1>4. Padded(cat) = [cat EXCEPT !.tables = cat.tables \o more]
  BY DEF Padded, more
<1> QED  BY <1>3, <1>4 DEF Database

-----------------------------------------------------------------------------
Rests(s) == Kept(dir, pc[s], db[s], dbInfo, job[s], data, index, acked)

(***************************************************************************)
(* What a step of s, alone, does to the acknowledged rows: one that stays  *)
(* has not been touched by a statement that ends; a new one is the row of  *)
(* the INSERT that ends.                                                   *)
(***************************************************************************)
Acks(s) ==
  \A t \in Tables :
    /\ data'[t] = Absent => acked'[t] = {}
    /\ \A row \in acked'[t] :
         \/ /\ row \in acked[t]
            /\ pc'[s] \in {"idle", "crashed"} => ~Touches(job[s], t, row)
         \/ /\ job[s].op = "insert" /\ job[s].table = t /\ row = job[s].row
            /\ pc[s] \notin {"idle", "crashed"} /\ pc'[s] = "idle"

(* Which is what the history says. *)
LEMMA AcksNext ==
  ASSUME Typed, NEW s, Sessions = {s}, HistoryNext
  PROVE  Acks(s)
<1> SUFFICES ASSUME NEW t \in Tables
             PROVE  /\ data'[t] = Absent => acked'[t] = {}
                    /\ \A row \in acked'[t] :
                         \/ /\ row \in acked[t]
                            /\ pc'[s] \in {"idle", "crashed"} => ~Touches(job[s], t, row)
                         \/ /\ job[s].op = "insert" /\ job[s].table = t /\ row = job[s].row
                            /\ pc[s] \notin {"idle", "crashed"} /\ pc'[s] = "idle"
  BY DEF Acks
<1>1. acked'[t] = IF data'[t] = Absent THEN {} ELSE StillAcked(t) \cup NowAcked(t)
  BY DEF HistoryNext
<1>2. ASSUME NEW row \in NowAcked(t)
      PROVE  /\ job[s].op = "insert" /\ job[s].table = t /\ row = job[s].row
             /\ pc[s] \notin {"idle", "crashed"} /\ pc'[s] = "idle"
  BY <1>2 DEF NowAcked, Ended
<1>3. ASSUME NEW row \in StillAcked(t)
      PROVE  /\ row \in acked[t]
             /\ pc'[s] \in {"idle", "crashed"} => ~Touches(job[s], t, row)
  <2>1. pc[s] \in {"idle", "crashed"} => job[s] = NoJob
    BY DEF Typed, Client
  <2>2. /\ row \in acked[t]
        /\ ~(/\ Ended(s, {"update", "delete"}) \/ Killed(s, {"update", "delete"})
             /\ job[s].table = t /\ Passes(row, job[s].filter))
    BY <1>3 DEF StillAcked
  <2>3. CASE pc[s] \in {"idle", "crashed"}
    BY <2>1, <2>2, <2>3, NoJobFields DEF Touches
  <2>4. CASE pc[s] \notin {"idle", "crashed"}
    BY <2>2, <2>4 DEF Touches, Ended, Killed
  <2> QED  BY <2>3, <2>4
<1> QED  BY <1>1, <1>2, <1>3

(* No rows where there is no directory. *)
LEMMA KeptGround ==
  ASSUME NEW s, Acks(s), ~dir', pc'[s] # "remove"
  PROVE  Rests(s)'
BY DEF Acks, Rests, Kept

(* What a step leaves of the rows that are where their numbers say. *)
Carried(t, cat, new, k, rows, trees, newRows, newTrees) ==
  /\ Len(rows[t]) > Info(cat, t).dataNum => Len(newRows[t]) > Info(new, t).dataNum
  /\ \A row :
       Placed(row, Info(cat, t).dataNum, rows[t], trees[<<t, "id">>]) =>
         \/ Touches(k, t, row)
         \/ Len(newRows[t]) > Info(new, t).dataNum
         \/ Placed(row, Info(new, t).dataNum, newRows[t], newTrees[<<t, "id">>])

(* The rows of a table stay safe. *)
LEMMA SafeStays ==
  ASSUME NEW t, NEW cat, NEW new, NEW j, NEW k, NEW rows, NEW trees,
         NEW newRows, NEW newTrees, NEW mine, NEW newMine,
         Safe(t, cat, j, rows, trees, mine),
         \A row \in newMine : row \in mine /\ (Touches(j, t, row) => Touches(k, t, row)),
         Slots(cat, t) # {} /\ mine # {} =>
           Slots(new, t) # {} /\ Carried(t, cat, new, k, rows, trees, newRows, newTrees)
  PROVE  Safe(t, new, k, newRows, newTrees, newMine)
<1> SUFFICES ASSUME newMine # {}
             PROVE  /\ Slots(new, t) # {}
                    /\ \/ Len(newRows[t]) > Info(new, t).dataNum
                       \/ \A row \in newMine :
                            \/ Touches(k, t, row)
                            \/ Placed(row, Info(new, t).dataNum, newRows[t], newTrees[<<t, "id">>])
  BY DEF Safe
<1>1. mine # {}
  OBVIOUS
<1>2. /\ Slots(cat, t) # {}
      /\ \/ Len(rows[t]) > Info(cat, t).dataNum
         \/ \A row \in mine :
              \/ Touches(j, t, row)
              \/ Placed(row, Info(cat, t).dataNum, rows[t], trees[<<t, "id">>])
  BY <1>1 DEF Safe
<1>3. Slots(new, t) # {} /\ Carried(t, cat, new, k, rows, trees, newRows, newTrees)
  BY <1>1, <1>2
<1> QED  BY <1>2, <1>3 DEF Carried

(***************************************************************************)
(* A step of s, alone, that acknowledges nothing keeps the invariant if it *)
(* leaves every row where it is or touches it.                             *)
(***************************************************************************)
LEMMA KeptStep ==
  ASSUME NEW s, Rests(s), Acks(s), dir, dir' = TRUE, pc'[s] # "remove",
         job[s].op = "insert" => pc'[s] # "idle",
         NEW cat, cat = Due(pc[s], db[s], dbInfo),
         NEW new, new = Due(pc'[s], db'[s], dbInfo'),
         pc'[s] \notin {"truncate", "write"} => db'[s] = None \/ Alike(db'[s], dbInfo'),
         Full(new),
         \A t \in Tables : Slots(cat, t) # {} /\ acked[t] # {} =>
           Slots(new, t) # {} /\ Carried(t, cat, new, job'[s], data, index, data', index'),
         pc'[s] \notin {"idle", "crashed"} =>
           \A t, row : Touches(job[s], t, row) => Touches(job'[s], t, row),
         Current(pc'[s], new, job'[s], data', index')
  PROVE  Rests(s)'
<1>1. ASSUME NEW t \in Tables, NEW row \in acked'[t]
      PROVE  row \in acked[t] /\ (Touches(job[s], t, row) => Touches(job'[s], t, row))
  BY DEF Acks
<1>2. ASSUME NEW t \in Tables
      PROVE  Safe(t, new, job'[s], data', index', acked'[t])
  <2>1. Safe(t, cat, job[s], data, index, acked[t])
    BY DEF Rests, Kept
  <2>2. \A row \in acked'[t] :
          row \in acked[t] /\ (Touches(job[s], t, row) => Touches(job'[s], t, row))
    BY <1>1
  <2>3. Slots(cat, t) # {} /\ acked[t] # {} =>
          Slots(new, t) # {} /\ Carried(t, cat, new, job'[s], data, index, data', index')
    OBVIOUS
  <2> QED  BY ONLY <2>1, <2>2, <2>3, SafeStays
<1>3. \A t \in Tables : data'[t] = Absent => acked'[t] = {}
  BY DEF Acks
<1> QED  BY <1>2, <1>3 DEF Rests, Kept

(* A step that leaves the files of every table in dbInfo as they are. *)
LEMMA QuietKept ==
  ASSUME NEW s, Rests(s), Acks(s), dir' = dir, dir \in BOOLEAN, dbInfo' = dbInfo,
         pc[s] \notin {"truncate", "write"}, pc'[s] # "remove",
         job[s].op = "insert" => pc'[s] # "idle",
         NEW new, new = Due(pc'[s], db'[s], dbInfo),
         dir => /\ pc'[s] \notin {"truncate", "write"} => db'[s] = None \/ Alike(db'[s], dbInfo)
                /\ Full(new) /\ Counts(new, dbInfo)
                /\ \A t \in Tables : Slots(dbInfo, t) # {} =>
                     data'[t] = data[t] /\ index'[<<t, "id">>] = index[<<t, "id">>]
                /\ Current(pc'[s], new, job'[s], data', index'),
         pc'[s] \notin {"idle", "crashed"} =>
           \A t, row : Touches(job[s], t, row) => Touches(job'[s], t, row)
  PROVE  Rests(s)'
<1>1. CASE ~dir
  BY <1>1, KeptGround
<1>2. CASE dir
  <2>1. Due(pc[s], db[s], dbInfo) = dbInfo /\ Due(pc'[s], db'[s], dbInfo') = new
    BY DEF Due
  <2>2. ASSUME NEW t \in Tables, Slots(dbInfo, t) # {}
        PROVE  Slots(new, t) # {} /\ Carried(t, dbInfo, new, job'[s], data, index, data', index')
    <3>1. /\ Slots(new, t) # {} /\ Info(new, t).dataNum = Info(dbInfo, t).dataNum
          /\ data'[t] = data[t] /\ index'[<<t, "id">>] = index[<<t, "id">>]
      BY <1>2, <2>2 DEF Counts
    <3> QED  BY <3>1 DEF Carried
  <2>3. \A t \in Tables : Slots(dbInfo, t) # {} /\ acked[t] # {} =>
          Slots(new, t) # {} /\ Carried(t, dbInfo, new, job'[s], data, index, data', index')
    BY <2>2
  <2> QED  BY <1>2, <2>1, <2>3, KeptStep
<1> QED  BY <1>1, <1>2

(* A step that changes no file and no catalog. *)
LEMMA StillKept ==
  ASSUME NEW s, Rests(s), Acks(s), UNCHANGED <<dir, dbInfo, data, index>>, dir \in BOOLEAN,
         pc[s] \notin {"truncate", "write"}, pc'[s] \notin {"remove", "truncate", "write"},
         job[s].op = "insert" => pc'[s] # "idle",
         dir => db'[s] \in {db[s], None, dbInfo},
         pc'[s] \notin {"idle", "crashed"} =>
           \A t, row : Touches(job[s], t, row) => Touches(job'[s], t, row),
         dir => Current(pc'[s], dbInfo, job'[s], data, index)
  PROVE  Rests(s)'
<1>1. Due(pc[s], db[s], dbInfo) = dbInfo /\ Due(pc'[s], db'[s], dbInfo) = dbInfo
  BY DEF Due
<1>2. dir => Full(dbInfo) /\ (db[s] = None \/ Alike(db[s], dbInfo))
  BY <1>1 DEF Rests, Kept
<1>3. Counts(dbInfo, dbInfo)
  BY DEF Counts
<1>4. dir => db'[s] = None \/ Alike(db'[s], dbInfo)
  BY <1>2, <1>3 DEF Alike
<1>5. \A t \in Tables : data'[t] = data[t] /\ index'[<<t, "id">>] = index[<<t, "id">>]
  OBVIOUS
<1>6. dir => Current(pc'[s], dbInfo, job'[s], data', index')
  OBVIOUS
<1> QED  BY <1>1, <1>2, <1>3, <1>4, <1>5, <1>6, QuietKept

(* A session without a statement has read nothing. *)
LEMMA CurrentDone ==
  ASSUME NEW p \in {"idle", "crashed"}, NEW cat, NEW rows, NEW trees
  PROVE  Current(p, cat, NoJob, rows, trees)
BY NoJobFields DEF Current, Holding

(* The locals of a session alone. *)
LEMMA Alone ==
  ASSUME Typed, NEW s \in Sessions, Rests(s), Neat(s)
  PROVE  /\ dir \in BOOLEAN /\ stray[s].tree = None /\ ~stray[s].out
         /\ pc[s] \in {"idle", "crashed"} => job[s] = NoJob /\ job[s].op = "none"
         /\ dir /\ pc[s] \notin {"truncate", "write"} =>
              /\ db[s] = None \/ (db[s] \in Database /\ Alike(db[s], dbInfo))
              /\ Listed(dbInfo, data, index)
              /\ Current(pc[s], dbInfo, job[s], data, index)
<1>1. /\ pc[s] \in {"idle", "crashed"} => job[s] = NoJob
      /\ db[s] = None \/ db[s] \in Database
  BY Working
<1>2. pc[s] \notin {"truncate", "write"} => Due(pc[s], db[s], dbInfo) = dbInfo
  BY DEF Due
<1>3. stray[s].tree = None /\ ~stray[s].out
  BY DEF Neat, NoStray
<1>4. ASSUME dir, pc[s] \notin {"truncate", "write"}
      PROVE  Listed(dbInfo, data, index)
  <2>1. Honest(dbInfo, data, index) /\ Full(dbInfo)
    BY <1>2, <1>4 DEF Rests, Kept, Neat, Orderly, Flushing
  <2>2. ASSUME NEW t \in Tables, Slots(dbInfo, t) # {}
        PROVE  /\ data[t] # Absent /\ index[<<t, "id">>] # Absent
               /\ Info(dbInfo, t).dataNum <= Len(data[t])
    <3>1. dbInfo \in Database /\ "id" \in Info(dbInfo, t).indexed
      BY <2>1, <2>2 DEF Full, Honest
    <3>2. Info(dbInfo, t).name = t /\ InFiles(Info(dbInfo, t), data, index)
      BY <2>1, <2>2, <3>1, HonestInfo
    <3>3. t # Junk
      BY JunkAssumption
    <3> QED  BY <3>1, <3>2, <3>3 DEF InFiles
  <2> QED  BY <2>1, <2>2 DEF Listed, Honest
<1>5. dir \in BOOLEAN
  BY DEF Typed, AllFiles
<1> QED  BY <1>1, <1>2, <1>3, <1>4, <1>5, NoJobFields DEF Rests, Kept

(* An index that has its name is where it is read and written. *)
LEMMA AloneTree ==
  ASSUME Typed, NEW s \in Sessions, stray[s].tree = None, pc[s] \in Holding
  PROVE  /\ Held(pc[s], job[s]) \in Tables \X Fields
         /\ Tree(s) = index[Held(pc[s], job[s])] /\ Tree(s) \in Index
BY TreeThere DEF Tree

(* And what is written there is there. *)
LEMMA AlonePut ==
  ASSUME NEW s, stray[s].tree = None, NEW tree, PutTree(s, tree) \/ CloseTree(s, tree)
  PROVE  index' = [index EXCEPT ![Held(pc[s], job[s])] = tree]
BY DEF PutTree, CloseTree

(* A session that dies loses what it had read. *)
LEMMA CrashKept ==
  ASSUME Typed, NEW s \in Sessions, Rests(s), Neat(s), Acks(s), Crash(s),
         pc[s] \in {"truncate", "write"} => ~dir
  PROVE  Rests(s)'
<1>1. /\ UNCHANGED <<dir, dbInfo, data, index>> /\ pc'[s] = "crashed"
      /\ db'[s] = db[s] /\ job'[s] = NoJob
  BY DEF Crash, Stop, Go, Typed, Whole
<1>2. CASE ~dir
  BY <1>1, <1>2, KeptGround
<1>3. CASE dir
  <2>1. Current("crashed", dbInfo, NoJob, data, index)
    BY CurrentDone
  <2>2. Current(pc'[s], dbInfo, job'[s], data, index)
    BY <1>1, <2>1
  <2> QED  BY <1>1, <1>3, <2>2, StillKept
<1> QED  BY <1>2, <1>3

(* USE reads what is there: dbInfo lists what it counts. *)
LEMMA UseKept ==
  ASSUME Typed, NEW s \in Sessions, Rests(s), Neat(s), Acks(s), ManagerUseDatabase(s)
  PROVE  Rests(s)'
<1>1. pc[s] = "idle"
  BY DEF ManagerUseDatabase, Begins
<1>2. CASE Crash(s)
  BY <1>1, <1>2, CrashKept
<1>3. CASE /\ \E cat \in OpenDatabase : db' = [db EXCEPT ![s] = cat]
           /\ UNCHANGED <<disk, pc, job, deaths>>
  <2>1. PICK cat \in OpenDatabase : db' = [db EXCEPT ![s] = cat]
    BY <1>3
  <2>2. /\ UNCHANGED <<dir, dbInfo, data, index>> /\ db'[s] = cat /\ pc'[s] = "idle"
        /\ job'[s] = NoJob /\ job[s].op = "none"
    BY <1>1, <1>3, <2>1, Alone DEF Typed, Whole, disk
  <2>3. dir => cat = dbInfo
    <3> SUFFICES ASSUME dir  PROVE cat = dbInfo
      OBVIOUS
    <3>1. dbInfo \in Database /\ Complete(dbInfo)
      BY <1>1, Alone DEF Listed, Full
    <3>2. dbInfo # Absent /\ dbInfo # Torn
      BY <3>1, AbsentAssumption
    <3>3. Padded(dbInfo) = dbInfo
      BY <3>1, PaddedComplete
    <3> QED  BY <3>2, <3>3 DEF OpenDatabase
  <2>4. Current("idle", dbInfo, NoJob, data, index)
    BY CurrentDone
  <2>5. Current(pc'[s], dbInfo, job'[s], data, index)
    BY <2>2, <2>4
  <2>6. dir \in BOOLEAN
    BY Alone
  <2> QED  BY <1>1, <2>2, <2>3, <2>5, <2>6, StillKept
<1> QED  BY <1>2, <1>3 DEF ManagerUseDatabase

(* Killed while no new dbInfo is due, and connected anew. *)
LEMMA ConnectKept ==
  ASSUME Typed, NEW s \in Sessions, Rests(s), Neat(s), Acks(s),
         Connect(s) \/ (Kill(s) /\ pc[s] \notin Flushing)
  PROVE  Rests(s)'
<1>1. /\ UNCHANGED <<dir, dbInfo, data, index>> /\ job'[s] = NoJob /\ db'[s] \in {db[s], None}
      /\ pc'[s] \in {"idle", "crashed"} /\ pc[s] \notin {"truncate", "write"}
      /\ pc'[s] = "idle" => pc[s] = "crashed"
  BY Alone DEF Connect, Kill, Stop, Go, Typed, Whole, disk, Flushing
<1>2. job[s].op = "insert" => pc'[s] # "idle"
  BY <1>1, Alone
<1>3. Current(pc'[s], dbInfo, NoJob, data, index)
  BY <1>1, CurrentDone
<1>4. Current(pc'[s], dbInfo, job'[s], data, index)
  BY <1>1, <1>3
<1>5. dir \in BOOLEAN
  BY Alone
<1> QED  BY <1>1, <1>2, <1>4, <1>5, StillKept

(* The beginning of a SELECT, an UPDATE or a DELETE. *)
LEMMA QueryKept ==
  ASSUME Typed, NEW s \in Sessions, Rests(s), Neat(s), Acks(s),
         NEW op \in {"select", "update", "delete"}, NEW t \in Tables, NEW list, NEW field, NEW value,
         Query(s, op, t, list, field, value)
  PROVE  Rests(s)'
<1>1. pc[s] = "idle" /\ UNCHANGED <<dir, dbInfo, data, index>> /\ db' = db /\ dir \in BOOLEAN
  BY Alone DEF Query, Begins, disk
<1>2. pc'[s] \in {"open", "open use"} /\ job'[s].op = op
  <2> DEFINE info   == Info(db[s], t)
             filter == Filter(Fields, list)
             use    == UseIndex(info, filter)
             j      == [NoJob EXCEPT !.op = op, !.table = t, !.filter = filter,
                                     !.field = field, !.value = value]
  <2>1. \/ /\ job' = [job EXCEPT ![s] = [j EXCEPT !.todo = ScanKeys(info)]]
           /\ pc' = [pc EXCEPT ![s] = "open"]
        \/ /\ job' = [job EXCEPT ![s] = [j EXCEPT !.use = use[1]]]
           /\ pc' = [pc EXCEPT ![s] = "open use"]
    BY DEF Query, Go
  <2>2. [j EXCEPT !.todo = ScanKeys(info)].op = op /\ [j EXCEPT !.use = use[1]].op = op
    BY JobFields
  <2> HIDE DEF j, use, info
  <2> QED  BY <2>1, <2>2 DEF Typed, Whole
<1>3. Current(pc'[s], dbInfo, job'[s], data, index)
  BY <1>2 DEF Current, Holding
<1>4. \A u, row : ~Touches(job[s], u, row)
  BY <1>1, Alone DEF Touches
<1>5. job[s].op # "insert"
  BY <1>1, Alone
<1> QED  BY <1>1, <1>2, <1>3, <1>4, <1>5, StillKept

(* The number of the row is among the keys that INSERT puts into the index. *)
LEMMA InsertKept ==
  ASSUME Typed, NEW s \in Sessions, Rests(s), Neat(s), Acks(s), NEW t \in Tables,
         NEW given \in [Fields \ {"id"} -> Values \cup {None}], ManagerInsert(s, t, given)
  PROVE  Rests(s)'
<1> DEFINE info == Info(db[s], t)
           row == [f \in Fields |-> IF f = "id" THEN info.dataNum
                                    ELSE IF given[f] = None THEN 0 ELSE given[f]]
           keys == Indexed(info)
           todo == [i \in DOMAIN keys |-> row[keys[i]]]
           j == [NoJob EXCEPT !.op = "insert", !.table = t, !.row = row, !.todo = todo]
<1>1. pc[s] = "idle" /\ Has(db[s], t)
  BY DEF ManagerInsert, Begins
<1>2. CASE ~dir
  <2>1. ~dir' /\ pc'[s] = "crashed"
    BY <1>2 DEF ManagerInsert, Crash, Stop, Go, Typed, Whole
  <2> QED  BY <2>1, KeptGround
<1>3. CASE dir
  <2>1. /\ data' = [data EXCEPT ![t] = IF @ = Absent THEN <<>> ELSE @]
        /\ job' = [job EXCEPT ![s] = j]
        /\ pc' = [pc EXCEPT ![s] = IF keys = <<>> THEN "append" ELSE "open"]
        /\ UNCHANGED <<dir, dbInfo, index, db>>
    <3> HIDE DEF row, info
    <3> QED  BY <1>3 DEF ManagerInsert, Go, row, info
  <2>2. db[s] \in Database /\ Alike(db[s], dbInfo) /\ Listed(dbInfo, data, index)
    BY <1>1, <1>3, Alone DEF Has
  <2>3. /\ Slots(dbInfo, t) # {} /\ "id" \in info.indexed /\ data[t] # Absent
        /\ info.dataNum = Info(dbInfo, t).dataNum
    BY <1>1, <2>2 DEF Has, Listed, Alike, Full, Counts
  <2> HIDE DEF info
  <2>4. PICK k \in 1..Len(FieldList) : FieldList[k] = "id"
    BY Columns
  <2>5. keys \in Seq(Fields \cap info.indexed)
    BY Columns, AmongProperties DEF Indexed
  <2>6. \E i \in 1..Len(keys) : keys[i] = "id"
    <3>1. FieldList \in Seq(Fields) /\ FieldList[k] \in info.indexed
      BY <2>3, <2>4, Columns
    <3>2. \E i \in 1..Len(Among(FieldList, info.indexed)) :
             Among(FieldList, info.indexed)[i] = FieldList[k]
      BY ONLY <3>1, k \in 1..Len(FieldList), AmongHas
    <3> QED  BY <2>4, <3>2 DEF Indexed
  <2> HIDE DEF keys
  <2>7. DOMAIN keys = 1..Len(keys) /\ Len(keys) \in Nat
    BY <2>5
  <2>8. keys # <<>>
    BY <2>6, <2>7
  <2>9. row["id"] = info.dataNum
    BY Columns
  <2> HIDE DEF row
  <2>10. row["id"] \in ToSet(todo)
    BY <2>6, <2>7 DEF ToSet
  <2>11. j.op = "insert" /\ j.table = t /\ j.row = row /\ j.todo = todo
    BY JobFields
  <2> HIDE DEF j, todo
  <2>12. UNCHANGED <<dir, dbInfo, data, index>> /\ pc'[s] = "open" /\ job'[s] = j /\ db'[s] = db[s]
    <3>1. data' = data
      BY <2>1, <2>3 DEF Typed, AllFiles
    <3> QED  BY <2>1, <2>8, <3>1 DEF Typed, Whole
  <2>13. Current("open", dbInfo, j, data, index)
    <3>1. Stores("open", dbInfo, j, data[t], index[<<t, "id">>])
      BY <2>3, <2>9, <2>10, <2>11 DEF Stores
    <3> QED  BY <2>11, <3>1 DEF Current, Holding
  <2>14. Current(pc'[s], dbInfo, job'[s], data, index)
    BY <2>12, <2>13
  <2>15. job[s].op = "none" /\ \A u, r : ~Touches(job[s], u, r)
    BY <1>1, Alone DEF Touches
  <2>16. dir \in BOOLEAN
    BY Alone
  <2> QED  BY <1>1, <2>12, <2>14, <2>15, <2>16, StillKept
<1> QED  BY <1>2, <1>3

(* Opening an index, reading a leaf. *)
LEMMA OpenKept ==
  ASSUME Typed, NEW s \in Sessions, Rests(s), Neat(s), Acks(s), OpenIndex(s) \/ OpenUse(s)
  PROVE  Rests(s)'
<1> DEFINE j == job[s]
           tree == index[Held(pc[s], j)]
<1>1. pc[s] \in {"open", "open use"}
  BY DEF OpenIndex, OpenUse
<1>2. CASE Crash(s)
  BY <1>1, <1>2, CrashKept
<1>3. ASSUME ~Crash(s)  PROVE Rests(s)'
  <2> DEFINE k == [j EXCEPT !.head = tree.root]
             q == IF pc[s] = "open use" THEN "probe"
                  ELSE IF j.op \in {"insert", "create index"} THEN "load" ELSE "search"
  <2>1. /\ job' = [job EXCEPT ![s].head = tree.root] /\ pc' = [pc EXCEPT ![s] = q]
        /\ UNCHANGED <<disk, db, deaths>>
    BY <1>1, <1>3 DEF OpenIndex, OpenUse, OpenBptree, Go
  <2>2. DOMAIN j = DOMAIN NoJob /\ (pc[s] = "open use" => j.op # "insert")
    BY <1>1, Working DEF Outside, Storing, Looking, Building, Making, Removing
  <2>3. /\ k.op = j.op /\ k.table = j.table /\ k.filter = j.filter /\ k.row = j.row
        /\ k.todo = j.todo /\ k.use = j.use /\ k.field = j.field /\ k.head = tree.root
    BY <2>2, JobFields
  <2>4. /\ job'[s] = k /\ pc'[s] = q /\ db'[s] = db[s]
        /\ UNCHANGED <<dir, dbInfo, data, index>>
    BY <2>1 DEF Typed, Whole, disk
  <2>5. (dir => Current(pc[s], dbInfo, j, data, index)) /\ dir \in BOOLEAN
    BY <1>1, Alone
  <2>6. Held(q, k) = Held(pc[s], j)
    BY <1>1, <2>3 DEF Held
  <2> HIDE DEF j, k
  <2>7. dir => Current(q, dbInfo, k, data, index)
    <3> SUFFICES ASSUME dir  PROVE Current(q, dbInfo, k, data, index)
      OBVIOUS
    <3>1. q \in {"probe", "load", "search"} /\ k.head = index[Held(q, k)].root
      BY <2>3, <2>6
    <3>2. ASSUME k.op = "insert"
          PROVE  Stores(q, dbInfo, k, data[k.table], index[<<k.table, "id">>])
      <4>1. Stores("open", dbInfo, j, data[j.table], index[<<j.table, "id">>])
        BY <1>1, <2>2, <2>3, <2>5, <3>2 DEF Current, j
      <4>2. q = "load"
        BY <1>1, <2>2, <2>3, <3>2 DEF j
      <4> QED  BY <2>3, <4>1, <4>2 DEF Stores
    <3>3. k.op = "create index" => k.field # "id"
      BY <2>3, <2>5 DEF Current
    <3>4. q = "load" => k.op \notin {"update", "delete"}
      BY <2>3
    <3> QED  BY <3>1, <3>2, <3>3, <3>4 DEF Current
  <2>8. \A t, row : Touches(j, t, row) => Touches(k, t, row)
    BY <2>3 DEF Touches
  <2>9. dir => Current(pc'[s], dbInfo, job'[s], data, index)
    BY <2>4, <2>7
  <2>10. q \notin {"remove", "truncate", "write", "idle"}
    OBVIOUS
  <2> HIDE DEF q
  <2> QED  BY <1>1, <2>4, <2>5, <2>8, <2>9, <2>10, StillKept DEF j
<1> QED  BY <1>2, <1>3

(* The leaf that is read is the one that is there. *)
LEMMA LoadKept ==
  ASSUME Typed, NEW s \in Sessions, Rests(s), Neat(s), Acks(s), Load(s)
  PROVE  Rests(s)'
<1> DEFINE j == job[s]
           leaf == IF j.head THEN Tree(s).leaf ELSE <<>>
           k == [j EXCEPT !.leaf = leaf]
<1>1. pc[s] = "load" /\ UNCHANGED <<dir, dbInfo, data, index>> /\ db' = db /\ dir \in BOOLEAN
  BY Alone DEF Load, disk
<1>2. DOMAIN j = DOMAIN NoJob
  BY Working
<1>3. /\ k.op = j.op /\ k.table = j.table /\ k.filter = j.filter /\ k.row = j.row
      /\ k.todo = j.todo /\ k.hits = j.hits /\ k.head = j.head /\ k.leaf = leaf
      /\ k.field = j.field
  BY <1>2, JobFields
<1>4. job'[s] = k /\ pc'[s] = "put"
  BY DEF Load, Go, Typed, Whole
<1>5. dir => Current("load", dbInfo, j, data, index)
  BY <1>1, Alone
<1>6. Tree(s) = index[Held("load", j)]
  <2>1. stray[s].tree = None
    BY Alone
  <2> QED  BY <1>1, <2>1, AloneTree DEF Holding
<1>7. Held("put", k) = Held("load", j)
  BY <1>3 DEF Held
<1> HIDE DEF j, k
<1>8. dir => Current("put", dbInfo, k, data, index)
  <2> SUFFICES ASSUME dir  PROVE Current("put", dbInfo, k, data, index)
    OBVIOUS
  <2>1. k.op = "insert" => Stores("put", dbInfo, k, data[j.table], index[<<j.table, "id">>])
    <3> SUFFICES ASSUME k.op = "insert"
                 PROVE  Stores("put", dbInfo, k, data[j.table], index[<<j.table, "id">>])
      OBVIOUS
    <3>1. Stores("load", dbInfo, j, data[j.table], index[<<j.table, "id">>])
      BY <1>3, <1>5 DEF Current
    <3> QED  BY <1>3, <3>1 DEF Stores
  <2>2. k.op \in {"update", "delete"} => Meets(Head(k.hits), data[k.table], k.filter)
    BY <1>3, <1>5 DEF Current
  <2>3. k.head = index[Held("put", k)].root
    BY <1>3, <1>5, <1>7 DEF Current, Holding
  <2>4. k.leaf = IF k.head THEN index[Held("put", k)].leaf ELSE <<>>
    BY <1>3, <1>6, <1>7
  <2>5. k.op = "create index" => k.field # "id"
    BY <1>3, <1>5 DEF Current
  <2> QED  BY <1>3, <2>1, <2>2, <2>3, <2>4, <2>5 DEF Current
<1>9. \A t, row : Touches(j, t, row) => Touches(k, t, row)
  BY <1>3 DEF Touches
<1>10. dir => Current(pc'[s], dbInfo, job'[s], data, index)
  BY <1>4, <1>8
<1> QED  BY <1>1, <1>4, <1>9, <1>10, StillKept DEF j

(* The header that CloseBptree writes is the one that is there. *)
LEMMA SameHeader ==
  ASSUME Typed, NEW s \in Sessions, Rests(s), Neat(s), dir, pc[s] \in Holding, CloseBptree(s)
  PROVE  index' = index
<1> DEFINE i == Held(pc[s], job[s])
<1>1. stray[s].tree = None /\ Current(pc[s], dbInfo, job[s], data, index)
  BY Alone DEF Holding
<1>2. i \in Tables \X Fields /\ Tree(s) = index[i] /\ Tree(s) \in Index
  BY <1>1, AloneTree
<1>3. job[s].head = index[i].root
  BY <1>1 DEF Current
<1>4. [Tree(s) EXCEPT !.root = job[s].head] = index[i]
  BY <1>2, <1>3 DEF Index
<1>5. index' = [index EXCEPT ![i] = index[i]]
  BY <1>1, <1>4, AlonePut DEF CloseBptree
<1> HIDE DEF i
<1> QED  BY <1>2, <1>5 DEF Typed, AllFiles

(* The lookup in the index of a column writes nothing new. *)
LEMMA ProbeKept ==
  ASSUME Typed, NEW s \in Sessions, Rests(s), Neat(s), Acks(s), Probe(s)
  PROVE  Rests(s)'
<1> DEFINE j == job[s]
<1>1. /\ pc[s] = "probe" /\ CloseBptree(s) /\ pc' = [pc EXCEPT ![s] = "open"]
      /\ UNCHANGED <<dir, dbInfo, data, db, deaths>> /\ dir \in BOOLEAN
  BY Alone DEF Probe, Go
<1>2. DOMAIN j = DOMAIN NoJob /\ j.op \in {"select", "update", "delete"}
  BY <1>1, Working DEF Outside, Storing, Looking, Building, Making, Removing
<1>3. PICK offsets : job' = [job EXCEPT ![s].todo = offsets]
  BY DEF Probe
<1> DEFINE k == [j EXCEPT !.todo = offsets]
<1>4. k.op = j.op /\ k.table = j.table /\ k.filter = j.filter
  BY <1>2, JobFields
<1>5. job'[s] = k /\ pc'[s] = "open" /\ db'[s] = db[s]
  BY <1>1, <1>3 DEF Typed, Whole
<1>6. CASE ~dir
  BY <1>1, <1>5, <1>6, KeptGround
<1>7. CASE dir
  <2>1. index' = index
    BY <1>1, <1>7, SameHeader DEF Holding
  <2> HIDE DEF j, k
  <2>2. Current("open", dbInfo, k, data, index)
    BY <1>2, <1>4 DEF Current, Holding
  <2>3. \A t, row : Touches(j, t, row) => Touches(k, t, row)
    BY <1>4 DEF Touches
  <2>4. Current(pc'[s], dbInfo, job'[s], data, index)
    BY <1>5, <2>2
  <2> QED  BY <1>1, <1>5, <2>1, <2>3, <2>4, StillKept DEF j
<1> QED  BY <1>6, <1>7

(* Nor does the end of the loop over the keys. *)
LEMMA AnswerKept ==
  ASSUME Typed, NEW s \in Sessions, Rests(s), Neat(s), Acks(s), Answer(s)
  PROVE  Rests(s)'
<1>1. /\ pc[s] = "search" /\ CloseBptree(s)
      /\ pc' = [pc EXCEPT ![s] = "idle"] /\ job' = [job EXCEPT ![s] = NoJob]
      /\ UNCHANGED <<dir, dbInfo, data, db, deaths>> /\ dir \in BOOLEAN
  BY Alone DEF Answer, Go
<1>2. job[s].op # "insert"
  BY <1>1, Working DEF Outside, Storing, Looking, Building, Making, Removing
<1>3. job'[s] = NoJob /\ pc'[s] = "idle" /\ db'[s] = db[s]
  BY <1>1 DEF Typed, Whole
<1>4. CASE ~dir
  BY <1>1, <1>3, <1>4, KeptGround
<1>5. CASE dir
  <2>1. index' = index
    BY <1>1, <1>5, SameHeader DEF Holding
  <2>2. Current("idle", dbInfo, NoJob, data, index)
    BY CurrentDone
  <2>3. Current(pc'[s], dbInfo, job'[s], data, index)
    BY <1>3, <2>2
  <2> QED  BY <1>1, <1>2, <1>3, <2>1, <2>3, StillKept
<1> QED  BY <1>4, <1>5

(* Looking up a key, reading a row. *)
LEMMA SearchKept ==
  ASSUME Typed, NEW s \in Sessions, Rests(s), Neat(s), Acks(s), Search(s)
  PROVE  Rests(s)'
<1> DEFINE j == job[s]
<1>1. pc[s] = "search" /\ UNCHANGED <<dir, dbInfo, data, index>> /\ db' = db /\ dir \in BOOLEAN
  BY Alone DEF Search, disk
<1>2. DOMAIN j = DOMAIN NoJob /\ j.op \in {"select", "update", "delete"}
  BY <1>1, Working DEF Outside, Storing, Looking, Building, Making, Removing
<1>3. PICK offsets : /\ job' = [job EXCEPT ![s].todo = Tail(@), ![s].hits = offsets]
                     /\ pc' = [pc EXCEPT ![s] = IF offsets = <<>> THEN "search" ELSE "fetch"]
  BY DEF Search, Go
<1> DEFINE q == IF offsets = <<>> THEN "search" ELSE "fetch"
           k == [j EXCEPT !.todo = Tail(@), !.hits = offsets]
<1>4. k.op = j.op /\ k.table = j.table /\ k.filter = j.filter /\ k.head = j.head
  BY <1>2, JobFields
<1>5. job'[s] = k /\ pc'[s] = q
  BY <1>3 DEF Typed, Whole
<1>6. dir => Current("search", dbInfo, j, data, index)
  BY <1>1, Alone
<1> HIDE DEF j, k
<1>7. Held(q, k) = Held("search", j)
  BY <1>2, <1>4 DEF Held
<1>8. dir => Current(q, dbInfo, k, data, index)
  BY <1>2, <1>4, <1>6, <1>7 DEF Current, Holding
<1>9. \A t, row : Touches(j, t, row) => Touches(k, t, row)
  BY <1>4 DEF Touches
<1>10. dir => Current(pc'[s], dbInfo, job'[s], data, index)
  BY <1>5, <1>8
<1> QED  BY <1>1, <1>5, <1>9, <1>10, StillKept DEF j

(* A row that is read meets the clause if it is there. *)
LEMMA FetchKept ==
  ASSUME Typed, NEW s \in Sessions, Rests(s), Neat(s), Acks(s), Fetch(s)
  PROVE  Rests(s)'
<1> DEFINE j == job[s]
           h == Head(j.hits)
<1>1. /\ pc[s] = "fetch" /\ UNCHANGED <<dir, dbInfo, data, index>> /\ db'[s] = db[s]
      /\ dir \in BOOLEAN
  BY Alone DEF Fetch, Crash, disk
<1>2. DOMAIN j = DOMAIN NoJob
  BY <1>1, Working
<1>3. j.op \in {"select", "update", "delete"}
  BY <1>1, Working DEF Outside, Storing, Looking, Building, Making, Removing
<1>4. CASE Crash(s)
  BY <1>1, <1>4, CrashKept
<1>5. dir => j.head = index[Held("fetch", j)].root
  BY <1>1, Alone DEF Current, Holding
<1>6. CASE ~Crash(s)
  <2>1. PICK row \in DataSeek(j.table, h) :
          IF Passes(row, j.filter) /\ j.op # "select"
          THEN /\ job' = [job EXCEPT ![s].row = IF j.op = "update" THEN row ELSE None]
               /\ pc' = [pc EXCEPT ![s] = IF j.op = "update" THEN "update" ELSE "load"]
          ELSE /\ job' = [job EXCEPT ![s].hits = Tail(@),
                                     ![s].rows = IF Passes(row, j.filter) THEN Append(@, row) ELSE @]
               /\ pc' = [pc EXCEPT ![s] = IF Len(j.hits) = 1 THEN "search" ELSE "fetch"]
    BY <1>6 DEF Fetch, Go, NextHit
  <2>2. CASE Passes(row, j.filter) /\ j.op # "select"
    <3> DEFINE k == [j EXCEPT !.row = IF j.op = "update" THEN row ELSE None]
               q == IF j.op = "update" THEN "update" ELSE "load"
    <3>1. job'[s] = k /\ pc'[s] = q
      BY <2>1, <2>2 DEF Typed, Whole
    <3>2. k.op = j.op /\ k.table = j.table /\ k.filter = j.filter /\ k.head = j.head /\ k.hits = j.hits
      BY <1>2, JobFields
    <3>3. Meets(h, data[j.table], j.filter)
      <4>1. Place(h) \in DOMAIN data[j.table] => row = data[j.table][Place(h)]
        BY <2>1 DEF DataSeek, PastEnd
      <4> QED  BY <2>2, <4>1 DEF Meets
    <3> HIDE DEF k
    <3>4. Meets(Head(k.hits), data[k.table], k.filter)
      BY <3>2, <3>3
    <3> HIDE DEF j
    <3>5. Held(q, k) = Held("fetch", j)
      BY <1>3, <3>2 DEF Held
    <3>6. dir => Current(q, dbInfo, k, data, index)
      BY <1>3, <1>5, <3>2, <3>4, <3>5 DEF Current, Holding
    <3>7. \A t, r : Touches(j, t, r) => Touches(k, t, r)
      BY <3>2 DEF Touches
    <3>8. dir => Current(pc'[s], dbInfo, job'[s], data, index)
      BY <3>1, <3>6
    <3> QED  BY <1>1, <3>1, <3>7, <3>8, StillKept DEF j
  <2>3. CASE ~(Passes(row, j.filter) /\ j.op # "select")
    <3> DEFINE k == [j EXCEPT !.hits = Tail(@),
                              !.rows = IF Passes(row, j.filter) THEN Append(@, row) ELSE @]
               q == IF Len(j.hits) = 1 THEN "search" ELSE "fetch"
    <3>1. job'[s] = k /\ pc'[s] = q
      BY <2>1, <2>3 DEF Typed, Whole
    <3>2. k.op = j.op /\ k.table = j.table /\ k.filter = j.filter /\ k.head = j.head
      BY <1>2, JobFields
    <3> HIDE DEF j, k
    <3>3. Held(q, k) = Held("fetch", j)
      BY <1>3, <3>2 DEF Held
    <3>4. dir => Current(q, dbInfo, k, data, index)
      BY <1>3, <1>5, <3>2, <3>3 DEF Current, Holding
    <3>5. \A t, r : Touches(j, t, r) => Touches(k, t, r)
      BY <3>2 DEF Touches
    <3>6. dir => Current(pc'[s], dbInfo, job'[s], data, index)
      BY <3>1, <3>4
    <3> QED  BY <1>1, <3>1, <3>5, <3>6, StillKept DEF j
  <2> QED  BY <2>2, <2>3
<1> QED  BY <1>4, <1>6

(* A page of id.index is written: the rows it no longer leads to are touched. *)
LEMMA TreeKept ==
  ASSUME Typed, NEW s \in Sessions, Rests(s), Neat(s), Acks(s), NEW t \in Tables, NEW tree,
         index' = [index EXCEPT ![<<t, "id">>] = tree], UNCHANGED <<dir, dbInfo, data>>,
         pc[s] \notin {"truncate", "write"},
         pc'[s] \notin {"remove", "truncate", "write", "idle", "crashed"}, db'[s] = db[s],
         \A u, row : Touches(job[s], u, row) => Touches(job'[s], u, row),
         dir /\ Slots(dbInfo, t) # {} =>
           \A row : Placed(row, Info(dbInfo, t).dataNum, data[t], index[<<t, "id">>]) =>
             Touches(job'[s], t, row) \/ Placed(row, Info(dbInfo, t).dataNum, data[t], tree),
         dir => Current(pc'[s], dbInfo, job'[s], data, index')
  PROVE  Rests(s)'
<1>1. CASE ~dir
  BY <1>1, KeptGround
<1>2. CASE dir
  <2>1. Due(pc[s], db[s], dbInfo) = dbInfo /\ Due(pc'[s], db'[s], dbInfo') = dbInfo
    BY DEF Due
  <2>2. (db[s] = None \/ Alike(db[s], dbInfo)) /\ Full(dbInfo)
    BY <1>2, <2>1 DEF Rests, Kept
  <2>3. <<t, "id">> \in Tables \X Fields
    BY Columns
  <2>4. ASSUME NEW u \in Tables, Slots(dbInfo, u) # {}
        PROVE  Carried(u, dbInfo, dbInfo, job'[s], data, index, data', index')
    <3>1. CASE u = t
      <4>1. index'[<<t, "id">>] = tree
        BY <2>3 DEF Typed, AllFiles
      <4> QED  BY <1>2, <2>4, <3>1, <4>1 DEF Carried
    <3>2. CASE u # t
      <4>1. index'[<<u, "id">>] = index[<<u, "id">>]
        <5>1. <<u, "id">> \in Tables \X Fields /\ <<u, "id">> # <<t, "id">>
          BY <3>2, Columns
        <5> QED  BY <5>1 DEF Typed, AllFiles
      <4> QED  BY <4>1 DEF Carried
    <3> QED  BY <3>1, <3>2
  <2>5. /\ dir' = TRUE /\ (db'[s] = None \/ Alike(db'[s], dbInfo'))
        /\ Current(pc'[s], dbInfo, job'[s], data', index') /\ pc'[s] # "idle"
    BY <1>2, <2>2
  <2>6. \A u \in Tables : Slots(dbInfo, u) # {} /\ acked[u] # {} =>
          Slots(dbInfo, u) # {} /\ Carried(u, dbInfo, dbInfo, job'[s], data, index, data', index')
    BY <2>4
  <2> QED  BY <1>2, <2>1, <2>2, <2>5, <2>6, KeptStep
<1> QED  BY <1>1, <1>2 DEF Typed, AllFiles

(* INSERT writes a leaf with one entry more. *)
LEMMA PutInsertedKept ==
  ASSUME Typed, NEW s \in Sessions, Rests(s), Neat(s), Acks(s), PutInserted(s)
  PROVE  Rests(s)'
<1> DEFINE j == job[s]
           t == j.table
           old == index[<<t, "id">>]
           n == j.row["id"]
           tree == [root |-> TRUE, leaf |-> IndexInsert(j.leaf, Head(j.todo), n)]
           k == [j EXCEPT !.todo = Tail(@), !.leaf = <<>>]
           q == IF Len(j.todo) = 1 THEN "append" ELSE "open"
<1>1. /\ pc[s] = "put" /\ j.op = "insert" /\ CloseTree(s, tree)
      /\ job' = [job EXCEPT ![s] = k] /\ pc' = [pc EXCEPT ![s] = q]
      /\ UNCHANGED <<dir, dbInfo, data, db, deaths>>
  BY DEF PutInserted, Go
<1>2. /\ DOMAIN j = DOMAIN NoJob /\ j.todo \in Seq(Int) /\ t \in Tables
      /\ Storing("put", db[s], j)
  BY <1>1, Working DEF Outside, Looking, Building, Making, Removing
<1>3. j.todo # <<>> /\ j.leaf \in Seq(Entry) /\ j.row \in Row /\ stray[s].tree = None
  BY <1>2, Alone DEF Storing
<1> DEFINE tidied == index' = [index EXCEPT ![<<t, "id">>] = tree]
<1>4. tidied
  <2>1. Held(pc[s], j) = <<t, "id">>
    BY <1>1 DEF Held
  <2> HIDE DEF j, tree, t
  <2> QED  BY <1>1, <1>3, <2>1, AlonePut DEF j
<1> HIDE DEF tidied
<1>5. n \in Int
  BY <1>3, Columns, ValuesAssumption DEF Row
<1>6. Head(j.todo) \in Int
  BY <1>2, <1>3, OneLess
<1>7. /\ tree.root /\ tree.leaf \in Seq(Entry)
      /\ \A e \in 1..Len(j.leaf) : \E i \in 1..Len(tree.leaf) : tree.leaf[i] = j.leaf[e]
      /\ \E i \in 1..Len(tree.leaf) :
           tree.leaf[i].key = Head(j.todo) /\ tree.leaf[i].dat = n /\ ~tree.leaf[i].del
  <2> DEFINE leaf == IndexInsert(j.leaf, Head(j.todo), n)
  <2>1. /\ leaf \in Seq(Entry)
        /\ \A e \in 1..Len(j.leaf) : \E i \in 1..Len(leaf) : leaf[i] = j.leaf[e]
        /\ \E i \in 1..Len(leaf) : leaf[i].key = Head(j.todo) /\ leaf[i].dat = n /\ ~leaf[i].del
    <3>1. j.leaf \in Seq(Entry) /\ Head(j.todo) \in Int /\ n \in Int
      BY <1>3, <1>5, <1>6
    <3> HIDE DEF j, n
    <3> QED  BY ONLY <3>1, IndexInsertHas DEF leaf
  <2>2. tree.root /\ tree.leaf = leaf
    OBVIOUS
  <2> HIDE DEF leaf, tree
  <2> QED  BY <2>1, <2>2
<1>8. /\ k.op = j.op /\ k.table = t /\ k.row = j.row /\ k.todo = Tail(j.todo)
      /\ k.filter = j.filter /\ k.head = j.head
  BY <1>2, JobFields
<1> HIDE DEF tree, k
<1>9. job'[s] = k /\ pc'[s] = q /\ db'[s] = db[s]
  BY <1>1 DEF Typed, Whole
<1>10. \A u, row : Touches(j, u, row) => Touches(k, u, row)
  BY <1>1 DEF Touches
<1>11. dir => Current("put", dbInfo, j, data, index)
  BY <1>1, Alone
<1>12. <<t, "id">> \in Tables \X Fields
  BY <1>2, Columns
<1>13. index'[<<t, "id">>] = tree
  BY <1>12, <1>4 DEF Typed, AllFiles, tidied
<1>14. DOMAIN tree.leaf = 1..Len(tree.leaf) /\ DOMAIN j.leaf = 1..Len(j.leaf)
  BY <1>3, <1>7
<1>15. dir => \A m : Entered(old, m) => Entered(tree, m)
  <2> SUFFICES ASSUME dir, NEW m, Entered(old, m)  PROVE Entered(tree, m)
    OBVIOUS
  <2>1. j.leaf = old.leaf
    <3>1. j.head = old.root /\ j.leaf = IF j.head THEN old.leaf ELSE <<>>
      BY <1>1, <1>11 DEF Current, Holding, Held
    <3> QED  BY <3>1 DEF Entered
  <2>2. PICK e \in 1..Len(j.leaf) : j.leaf[e].key = m /\ j.leaf[e].dat = m /\ ~j.leaf[e].del
    BY <1>14, <2>1 DEF Entered
  <2>3. PICK i \in 1..Len(tree.leaf) : tree.leaf[i] = j.leaf[e]
    BY <1>7
  <2> QED  BY <1>7, <1>14, <2>2, <2>3 DEF Entered
<1>16. dir => \A row, m : Placed(row, m, data[t], old) => Placed(row, m, data[t], tree)
  BY <1>15 DEF Placed
<1>17. Head(j.todo) = n => Entered(tree, n)
  BY <1>7, <1>14 DEF Entered
<1> HIDE DEF j
<1>18. dir => Current(q, dbInfo, k, data, index')
  <2> SUFFICES ASSUME dir  PROVE Stores(q, dbInfo, k, data[t], tree)
    BY <1>1, <1>8, <1>13 DEF Current, Holding
  <2>1. Stores("put", dbInfo, j, data[t], old)
    BY <1>1, <1>11 DEF Current
  <2>2. /\ Slots(dbInfo, t) # {} /\ n = Info(dbInfo, t).dataNum
        /\ n \in ToSet(j.todo) \/ Entered(old, n)
    BY <2>1 DEF Stores
  <2>3. (q # "append" /\ n \in ToSet(Tail(j.todo))) \/ Entered(tree, n)
    <3>1. CASE Entered(old, n)
      BY <1>15, <3>1
    <3>2. CASE n \in ToSet(j.todo)
      <4>1. PICK i \in 1..Len(j.todo) : j.todo[i] = n
        BY <1>2, <3>2 DEF ToSet
      <4>2. /\ Head(j.todo) = j.todo[1] /\ Len(Tail(j.todo)) = Len(j.todo) - 1
            /\ \A m \in 1..(Len(j.todo) - 1) : Tail(j.todo)[m] = j.todo[m + 1]
            /\ DOMAIN Tail(j.todo) = 1..(Len(j.todo) - 1) /\ Len(j.todo) \in Nat
        BY <1>2, <1>3
      <4>3. CASE i = 1
        BY <1>17, <4>1, <4>2, <4>3
      <4>4. CASE i # 1
        <5>1. i - 1 \in 1..(Len(j.todo) - 1) /\ (i - 1) + 1 = i /\ Len(j.todo) # 1
          BY <4>1, <4>2, <4>4
        <5>2. Tail(j.todo)[i - 1] = n
          BY <4>1, <4>2, <5>1
        <5> QED  BY <4>2, <5>1, <5>2 DEF ToSet
      <4> QED  BY <4>3, <4>4
    <3> QED  BY <2>2, <3>1, <3>2
  <2>4. q \in {"open", "append"}
    OBVIOUS
  <2> QED  BY <1>8, <2>2, <2>3, <2>4 DEF Stores
<1>19. dir => Current(pc'[s], dbInfo, job'[s], data, index')
  BY <1>9, <1>18
<1>20. \A u, row : Touches(job[s], u, row) => Touches(job'[s], u, row)
  BY <1>9, <1>10 DEF j
<1>21. pc[s] \notin {"truncate", "write"} /\ pc'[s] \notin {"remove", "truncate", "write", "idle", "crashed"}
  BY <1>1, <1>9
<1>22. dir /\ Slots(dbInfo, t) # {} =>
         \A row : Placed(row, Info(dbInfo, t).dataNum, data[t], index[<<t, "id">>]) =>
           Touches(job'[s], t, row) \/ Placed(row, Info(dbInfo, t).dataNum, data[t], tree)
  BY <1>16
<1> HIDE DEF q
<1>23. index' = [index EXCEPT ![<<t, "id">>] = tree] /\ UNCHANGED <<dir, dbInfo, data>>
  BY <1>1, <1>4 DEF tidied
<1> HIDE DEF t
<1> QED  BY <1>2, <1>9, <1>19, <1>20, <1>21, <1>22, <1>23, TreeKept

(* BptreeDelete marks entries of the key alone. *)
LEMMA DeleteMarks ==
  ASSUME NEW leaf \in Seq(Entry), NEW key, NEW i \in 1..Len(leaf), leaf[i].key # key, ~leaf[i].del
  PROVE  ~BptreeDelete(leaf, key)[i].del
<1>1. i \in DOMAIN leaf /\ leaf[i] \in Entry
  OBVIOUS
<1>2. BptreeDelete(leaf, key)[i] = [leaf[i] EXCEPT !.del = leaf[i].del \/ leaf[i].key = key]
  BY <1>1 DEF BptreeDelete
<1>3. [leaf[i] EXCEPT !.del = leaf[i].del \/ leaf[i].key = key].del = (leaf[i].del \/ leaf[i].key = key)
  BY <1>1 DEF Entry
<1> QED  BY <1>2, <1>3

(* DataFlush changes one row, or makes the file longer. *)
LEMMA FlushPlace ==
  ASSUME NEW rows \in Seq(Row), NEW offset \in Int, NEW row \in Row
  PROVE  LET p == Place(offset)
             new == DataFlush(rows, offset, row)
         IN  /\ p \notin DOMAIN rows => Len(new) > Len(rows)
             /\ \A i \in 1..Len(rows) : i # p => new[i] = rows[i]
<1> DEFINE p == Place(offset)
           n == IF p > Len(rows) THEN p ELSE Len(rows)
           new == DataFlush(rows, offset, row)
<1>1. Len(rows) \in Nat /\ DOMAIN rows = 1..Len(rows) /\ p \in Nat /\ p >= 1
  BY DEF Place
<1>2. new = [i \in 1..n |-> IF i = p THEN row
                            ELSE IF i \in DOMAIN rows THEN rows[i] ELSE [f \in Fields |-> 0]]
  BY DEF DataFlush, Place
<1>3. n \in Nat /\ n >= Len(rows) /\ (p \notin DOMAIN rows => n > Len(rows))
  BY <1>1
<1>4. Len(new) = n
  <2> HIDE DEF n, p
  <2>1. DOMAIN new = 1..n
    BY <1>2
  <2>2. new \in Seq(Row)
    BY FlushRows
  <2>3. Len(new) \in Nat /\ DOMAIN new = 1..Len(new)
    BY <2>2
  <2> HIDE DEF new
  <2> QED  BY <1>3, <2>1, <2>3
<1>5. \A i \in 1..Len(rows) : i # p => new[i] = rows[i]
  <2> HIDE DEF n, p, new
  <2> QED  BY <1>1, <1>2, <1>3
<1> QED  BY <1>3, <1>4, <1>5

(* DELETE writes a leaf in which the entries of the row are marked. *)
LEMMA PutDeletedKept ==
  ASSUME Typed, NEW s \in Sessions, Rests(s), Neat(s), Acks(s), PutDeleted(s)
  PROVE  Rests(s)'
<1> DEFINE j == job[s]
           t == j.table
           i == <<t, "id">>
           old == index[i]
           h == Head(j.hits)
           leaf == BptreeDelete(j.leaf, h)
           tree == IF j.leaf = <<>> THEN old ELSE [old EXCEPT !.leaf = leaf]
           k == [j EXCEPT !.hits = Tail(@), !.leaf = <<>>]
           q == IF Len(j.hits) = 1 THEN "search" ELSE "fetch"
<1>1. /\ pc[s] = "put" /\ j.op = "delete"
      /\ PutTree(s, IF j.leaf = <<>> THEN Tree(s) ELSE [Tree(s) EXCEPT !.leaf = leaf])
      /\ job' = [job EXCEPT ![s] = k] /\ pc' = [pc EXCEPT ![s] = q]
      /\ UNCHANGED <<dir, dbInfo, data, db, deaths>>
  BY DEF PutDeleted, NextHit, Go
<1>2. /\ DOMAIN j = DOMAIN NoJob /\ j.hits \in Seq(Int) /\ t \in Tables
      /\ Looking("put", j)
  BY <1>1, Working DEF Outside, Storing, Building, Making, Removing
<1>3. j.hits # <<>> /\ j.leaf \in Seq(Entry) /\ stray[s].tree = None
  BY <1>2, Alone DEF Looking
<1> DEFINE tidied == index' = [index EXCEPT ![i] = tree]
<1>4. i \in Tables \X Fields /\ old \in Index /\ tidied
  <2>1. Held(pc[s], j) = i
    BY <1>1 DEF Held
  <2>2. i \in Tables \X Fields /\ Tree(s) = old /\ old \in Index
    BY <1>1, <1>3, <2>1, AloneTree DEF Holding
  <2>3. PutTree(s, tree)
    BY <1>1, <2>2
  <2> HIDE DEF i, tree, j
  <2>4. index' = [index EXCEPT ![i] = tree]
    BY <1>3, <2>1, <2>3, AlonePut DEF j
  <2> QED  BY <2>2, <2>4
<1> HIDE DEF tidied
<1>5. h \in Int
  BY <1>2, <1>3, OneLess
<1>6. /\ leaf \in Seq(Entry) /\ Len(leaf) = Len(j.leaf)
      /\ \A e \in 1..Len(j.leaf) : leaf[e].key = j.leaf[e].key /\ leaf[e].dat = j.leaf[e].dat
  <2>1. j.leaf \in Seq(Entry)
    BY <1>3
  <2> HIDE DEF j, h
  <2> QED  BY <2>1, DeleteEntries
<1>7. \A e \in 1..Len(j.leaf) : j.leaf[e].key # h /\ ~j.leaf[e].del => ~leaf[e].del
  BY <1>3, DeleteMarks
<1> HIDE DEF leaf
<1>8. tree.root = old.root /\ (j.leaf # <<>> => tree.leaf = leaf)
  <2> HIDE DEF old
  <2> QED  BY <1>4 DEF Index
<1>9. k.op = j.op /\ k.table = t /\ k.filter = j.filter /\ k.head = j.head
  BY <1>2, JobFields
<1> HIDE DEF k, tree
<1>10. job'[s] = k /\ pc'[s] = q /\ db'[s] = db[s] /\ q \in {"search", "fetch"}
  BY <1>1 DEF Typed, Whole
<1>11. index'[i] = tree
  <2> HIDE DEF i
  <2> QED  BY <1>4 DEF Typed, AllFiles, tidied
<1>12. dir => Current("put", dbInfo, j, data, index) /\ Listed(dbInfo, data, index)
  BY <1>1, Alone
<1> HIDE DEF j
<1>13. dir => /\ j.head = old.root
              /\ j.leaf = IF j.head THEN old.leaf ELSE <<>>
              /\ Meets(h, data[t], j.filter)
  BY <1>1, <1>12 DEF Current, Holding, Held
<1>14. dir => Current(q, dbInfo, k, data, index')
  BY <1>1, <1>8, <1>9, <1>10, <1>11, <1>13 DEF Current, Holding, Held
<1>15. ASSUME dir, Slots(dbInfo, t) # {}, NEW row,
              Placed(row, Info(dbInfo, t).dataNum, data[t], old)
       PROVE  Touches(k, t, row) \/ Placed(row, Info(dbInfo, t).dataNum, data[t], tree)
  <2> DEFINE n == Info(dbInfo, t).dataNum
  <2>1. n \in Nat /\ n <= Len(data[t]) /\ data[t] # Absent
    BY <1>2, <1>12, <1>15, HonestInfo DEF Listed
  <2>2. PICK m \in 0..(n - 1) : data[t][m + 1] = row /\ Entered(old, m)
    BY <1>15 DEF Placed
  <2> HIDE DEF n
  <2>3. CASE m # h
    <3>1. old.root /\ j.leaf = old.leaf
      BY <1>13, <1>15, <2>2 DEF Entered
    <3>2. DOMAIN j.leaf = 1..Len(j.leaf) /\ DOMAIN leaf = 1..Len(j.leaf)
      BY <1>3, <1>6
    <3>3. PICK e \in 1..Len(j.leaf) : j.leaf[e].key = m /\ j.leaf[e].dat = m /\ ~j.leaf[e].del
      BY <2>2, <3>1, <3>2 DEF Entered
    <3>4. leaf[e].key = m /\ leaf[e].dat = m /\ ~leaf[e].del
      BY <1>6, <1>7, <2>3, <3>3
    <3>5. j.leaf # <<>>
      BY <3>2, <3>3
    <3>6. Entered(tree, m)
      BY <1>8, <3>1, <3>2, <3>4, <3>5 DEF Entered
    <3> QED  BY <2>2, <3>6 DEF Placed, n
  <2>4. CASE m = h
    <3>1. data[t] \in Seq(Row)
      BY <1>2, <2>1 DEF Typed, AllFiles
    <3>2. Len(data[t]) \in Nat /\ DOMAIN data[t] = 1..Len(data[t])
      BY <3>1
    <3>3. ~(h < 0) /\ h + 1 \in DOMAIN data[t] /\ data[t][h + 1] = row
      BY <2>1, <2>2, <2>4, <3>2
    <3>4. Passes(row, j.filter)
      BY <1>13, <1>15, <3>3 DEF Meets, Place
    <3> QED  BY <1>1, <1>9, <3>4 DEF Touches
  <2> QED  BY <2>3, <2>4
<1>16. \A u, row : Touches(j, u, row) => Touches(k, u, row)
  BY <1>9 DEF Touches
<1>17. /\ \A u, row : Touches(job[s], u, row) => Touches(job'[s], u, row)
       /\ dir => Current(pc'[s], dbInfo, job'[s], data, index')
       /\ pc[s] \notin {"truncate", "write"} /\ pc'[s] \notin {"remove", "truncate", "write", "idle", "crashed"}
       /\ index' = [index EXCEPT ![<<t, "id">>] = tree]
  BY <1>1, <1>4, <1>10, <1>14, <1>16 DEF j, tidied
<1>18. dir /\ Slots(dbInfo, t) # {} =>
         \A row : Placed(row, Info(dbInfo, t).dataNum, data[t], index[<<t, "id">>]) =>
           Touches(job'[s], t, row) \/ Placed(row, Info(dbInfo, t).dataNum, data[t], tree)
  BY <1>10, <1>15
<1>19. t \in Tables /\ UNCHANGED <<dir, dbInfo, data>>
  BY <1>1, <1>2
<1> HIDE DEF t, q
<1> QED  BY <1>10, <1>17, <1>18, <1>19, TreeKept

(* UPDATE writes the row it has found, or one past the end. *)
LEMMA UpdateKept ==
  ASSUME Typed, NEW s \in Sessions, Rests(s), Neat(s), Acks(s), UpdateRow(s)
  PROVE  Rests(s)'
<1> DEFINE j == job[s]
           t == j.table
           h == Head(j.hits)
           row == [j.row EXCEPT ![j.field] = j.value]
           rows == data[t]
           new == DataFlush(rows, h, row)
           k == [j EXCEPT !.hits = Tail(@), !.row = None]
           q == IF Len(j.hits) = 1 THEN "search" ELSE "fetch"
<1>1. pc[s] = "update"
  BY DEF UpdateRow
<1>2. /\ DOMAIN j = DOMAIN NoJob /\ j.hits \in Seq(Int) /\ t \in Tables
      /\ Looking("update", j)
  BY <1>1, Working DEF Outside, Storing, Building, Making, Removing
<1>3. j.op = "update" /\ j.hits # <<>> /\ j.row \in Row /\ j.value \in Values
  BY <1>2 DEF Looking
<1>4. CASE Crash(s)
  BY <1>1, <1>4, CrashKept
<1>5. CASE ~dir
  <2>1. ~dir' /\ pc'[s] # "remove"
    BY <1>5 DEF UpdateRow, Crash, Stop, Go, NextHit, Typed, Whole
  <2> QED  BY <2>1, KeptGround
<1>6. CASE ~Crash(s) /\ dir
  <2>1. /\ data' = [data EXCEPT ![t] = new] /\ job' = [job EXCEPT ![s] = k]
        /\ pc' = [pc EXCEPT ![s] = q]
        /\ UNCHANGED <<dir, dbInfo, index, db, deaths>> /\ rows # Absent
    <3>1. /\ data' = [data EXCEPT ![t] = DataFlush(@, h, row)]
          /\ job' = [job EXCEPT ![s].hits = Tail(@), ![s].row = None]
          /\ NextHit(s)
          /\ UNCHANGED <<dir, dbInfo, index, db, deaths>> /\ rows # Absent
      BY <1>6 DEF UpdateRow
    <3>2. job' = [job EXCEPT ![s] = k]
      BY <3>1
    <3>3. data' = [data EXCEPT ![t] = new]
      <4> HIDE DEF h, row, t
      <4> QED  BY <3>1
    <3> QED  BY <3>1, <3>2, <3>3 DEF NextHit, Go
  <2>2. row \in Row /\ h \in Int /\ rows \in Seq(Row)
    <3>1. row \in Row
      BY <1>3 DEF Row
    <3>2. h \in Int
      BY <1>2, <1>3, OneLess
    <3>3. rows \in Seq(Row)
      BY <1>2, <2>1 DEF Typed, AllFiles
    <3> QED  BY <3>1, <3>2, <3>3
  <2> DEFINE p == Place(h)
  <2>3. /\ new \in Seq(Row) /\ Len(new) >= Len(rows)
        /\ p \notin DOMAIN rows => Len(new) > Len(rows)
        /\ \A i \in 1..Len(rows) : i # p => new[i] = rows[i]
    <3> HIDE DEF row, h, rows
    <3> QED  BY <2>2, FlushRows, FlushPlace
  <2> HIDE DEF new, row
  <2>4. /\ k.op = j.op /\ k.table = t /\ k.filter = j.filter /\ k.head = j.head
    BY <1>2, JobFields
  <2> HIDE DEF k
  <2>5. job'[s] = k /\ pc'[s] = q /\ db'[s] = db[s] /\ q \in {"search", "fetch"}
    BY <2>1 DEF Typed, Whole
  <2>6. /\ db[s] = None \/ Alike(db[s], dbInfo)
        /\ Listed(dbInfo, data, index)
        /\ Current("update", dbInfo, j, data, index)
    BY <1>1, <1>6, Alone
  <2> HIDE DEF j, h
  <2>7. j.head = index[Held("update", j)].root /\ Meets(h, rows, j.filter)
    BY <1>3, <2>6 DEF Current, Holding, h
  <2>8. Current(q, dbInfo, k, data', index')
    BY <1>3, <2>1, <2>4, <2>5, <2>7 DEF Current, Holding, Held
  <2>9. data'[t] = new /\ \A u \in Tables \ {t} : data'[u] = data[u]
    BY <1>2, <2>1 DEF Typed, AllFiles
  <2>10. Len(rows) \in Nat /\ Len(new) \in Nat /\ DOMAIN rows = 1..Len(rows)
    BY <2>2, <2>3
  <2>11. ASSUME Slots(dbInfo, t) # {}
         PROVE  Carried(t, dbInfo, dbInfo, k, data, index, data', index')
    <3> DEFINE n == Info(dbInfo, t).dataNum
    <3>1. n \in Nat /\ n <= Len(rows)
      BY <1>2, <2>6, <2>11, HonestInfo DEF Listed
    <3> HIDE DEF n
    <3>2. Len(rows) > n => Len(new) > n
      BY <2>3, <2>10, <3>1
    <3>3. ASSUME NEW r, Placed(r, n, rows, index[<<t, "id">>])
          PROVE  \/ Touches(k, t, r) \/ Len(new) > n
                 \/ Placed(r, n, new, index[<<t, "id">>])
      <4>1. PICK m \in 0..(n - 1) : rows[m + 1] = r /\ Entered(index[<<t, "id">>], m)
        BY <3>3 DEF Placed
      <4>2. CASE p \notin DOMAIN rows
        BY <2>3, <2>10, <3>1, <4>2
      <4>3. CASE p \in DOMAIN rows /\ m + 1 = p
        <5>1. Passes(rows[p], j.filter)
          BY <2>7, <4>3 DEF Meets
        <5>2. Passes(r, j.filter)
          <6> HIDE DEF p
          <6> QED  BY <4>1, <4>3, <5>1
        <5> QED  BY <1>3, <2>4, <5>2 DEF Touches
      <4>4. CASE m + 1 # p
        <5>1. m + 1 \in 1..Len(rows)
          BY <2>10, <3>1
        <5>2. new[m + 1] = r
          <6> HIDE DEF p
          <6> QED  BY <2>3, <4>1, <4>4, <5>1
        <5> QED  BY <4>1, <5>2 DEF Placed
      <4> QED  BY <4>2, <4>3, <4>4
    <3> QED  BY <2>1, <2>9, <3>2, <3>3 DEF Carried, n
  <2>12. \A u \in Tables : Slots(dbInfo, u) # {} /\ acked[u] # {} =>
           Slots(dbInfo, u) # {} /\ Carried(u, dbInfo, dbInfo, k, data, index, data', index')
    <3> SUFFICES ASSUME NEW u \in Tables, Slots(dbInfo, u) # {}
                 PROVE  Carried(u, dbInfo, dbInfo, k, data, index, data', index')
      OBVIOUS
    <3>1. CASE u = t
      BY <2>11, <3>1
    <3>2. CASE u # t
      BY <2>1, <2>9, <3>2 DEF Carried
    <3> QED  BY <3>1, <3>2
  <2>13. \A u, r : Touches(job[s], u, r) => Touches(job'[s], u, r)
    BY <2>4, <2>5 DEF Touches, j
  <2>14. Due(pc[s], db[s], dbInfo) = dbInfo /\ Due(pc'[s], db'[s], dbInfo') = dbInfo
    BY <1>1, <2>1, <2>5 DEF Due
  <2>15. /\ dir' = TRUE /\ (db'[s] = None \/ Alike(db'[s], dbInfo')) /\ Full(dbInfo)
         /\ pc'[s] \notin {"idle", "remove"}
         /\ Current(pc'[s], dbInfo, job'[s], data', index')
         /\ \A u \in Tables : Slots(dbInfo, u) # {} /\ acked[u] # {} =>
              Slots(dbInfo, u) # {} /\ Carried(u, dbInfo, dbInfo, job'[s], data, index, data', index')
    BY <1>6, <2>1, <2>5, <2>6, <2>8, <2>12 DEF Listed
  <2> QED  BY ONLY <1>6, <2>13, <2>14, <2>15, Rests(s), Acks(s), KeptStep
<1> QED  BY <1>4, <1>5, <1>6

(* INSERT appends its row, to the place of its number if all are counted. *)
LEMMA AppendKept ==
  ASSUME Typed, NEW s \in Sessions, Rests(s), Neat(s), Acks(s), AppendRow(s)
  PROVE  Rests(s)'
<1> DEFINE j == job[s]
           t == j.table
           cat == db[s]
           tree == index[<<t, "id">>]
           rows == data[t]
           more == Append(rows, j.row)
           old == Info(cat, t)
           info == [old EXCEPT !.dataNum = old.dataNum + 1]
           new == WithInfo(cat, t, info)
           n == old.dataNum
<1>1. pc[s] = "append"
  BY DEF AppendRow
<1>2. t \in Tables /\ Storing("append", cat, j)
  BY <1>1, Working DEF Outside, Looking, Building, Making, Removing
<1>3. j.op = "insert" /\ cat # None /\ Slots(cat, t) # {} /\ j.row \in Row /\ ~stray[s].out
  BY <1>2, Alone DEF Storing
<1>4. /\ data' = [data EXCEPT ![t] = more] /\ db' = [db EXCEPT ![s] = new]
      /\ pc' = [pc EXCEPT ![s] = "truncate"]
      /\ UNCHANGED <<dir, dbInfo, index, job, deaths>>
  <2>1. data' = [data EXCEPT ![t] = more]
    BY <1>3 DEF AppendRow, CloseData
  <2>2. db' = [db EXCEPT ![s] = new]
    BY DEF AppendRow, Count, SetInfo, WithInfo
  <2> QED  BY <2>1, <2>2 DEF AppendRow, Go
<1>5. CASE ~dir
  <2>1. pc'[s] = "truncate"
    BY <1>4 DEF Typed, Whole
  <2> QED  BY <1>4, <1>5, <2>1, KeptGround
<1>6. CASE dir
  <2>1. /\ cat \in Database /\ Alike(cat, dbInfo) /\ Listed(dbInfo, data, index)
        /\ Current("append", dbInfo, j, data, index)
    BY <1>1, <1>3, <1>6, Alone
  <2>2. /\ Slots(dbInfo, t) # {} /\ Info(dbInfo, t).dataNum = n
    BY <1>2, <1>3, <2>1 DEF Alike, Counts
  <2>3. Complete(cat) /\ "id" \in old.indexed /\ rows # Absent /\ n <= Len(rows)
    BY <1>2, <1>3, <2>1, <2>2 DEF Alike, Full, Listed
  <2>4. old \in Table /\ old.name = t /\ n \in Nat
    BY <1>2, <1>3, <2>1, HonestInfo
  <2>5. /\ info \in Table /\ info.name = t /\ info.indexed = old.indexed /\ info.dataNum = n + 1
    <3> HIDE DEF old, t
    <3> QED  BY <2>4 DEF Table
  <2>6. j.row["id"] = n /\ Entered(tree, n)
    <3>1. Stores("append", dbInfo, j, rows, tree)
      BY <1>3, <2>1 DEF Current
    <3> QED  BY <2>2, <3>1 DEF Stores
  <2> HIDE DEF old, info
  <2>7. db'[s] = new
    <3> HIDE DEF new
    <3> QED  BY <1>4 DEF Typed, Whole
  <2>8. /\ new \in Database /\ Complete(new) /\ Info(new, t) = info
        /\ \A u : Slots(new, u) = Slots(cat, u)
        /\ \A u : u # t /\ Slots(cat, u) # {} => Info(new, u) = Info(cat, u)
    <3> HIDE DEF t, cat
    <3> QED  BY <1>3, <2>1, <2>3, <2>5, InfoSet
  <2> HIDE DEF new
  <2>9. Full(new)
    <3> SUFFICES ASSUME NEW u \in Tables, Slots(new, u) # {}
                 PROVE  "id" \in Info(new, u).indexed
      BY <2>8 DEF Full
    <3>1. CASE u = t
      BY <2>3, <2>5, <2>8, <3>1
    <3>2. CASE u # t
      BY <2>1, <2>8, <3>2 DEF Alike, Full
    <3> QED  BY <3>1, <3>2
  <2>10. rows \in Seq(Row)
    BY <1>2, <2>3 DEF Typed, AllFiles
  <2>11. /\ more \in Seq(Row) /\ Len(more) = Len(rows) + 1 /\ Len(rows) \in Nat
         /\ more[Len(rows) + 1] = j.row /\ \A i \in 1..Len(rows) : more[i] = rows[i]
    <3> HIDE DEF rows
    <3> QED  BY <1>3, <2>10, AppendProperties
  <2> HIDE DEF more
  <2>12. /\ data'[t] = more /\ \A u \in Tables \ {t} : data'[u] = data[u]
         /\ index' = index /\ job'[s] = j /\ pc'[s] = "truncate"
    BY <1>2, <1>4 DEF Typed, AllFiles, Whole
  <2> HIDE DEF rows, n
  <2>13. Carried(t, dbInfo, new, j, data, index, data', index')
    <3>1. Len(rows) > n => Len(more) > n + 1
      BY <2>4, <2>11 DEF n
    <3>2. ASSUME NEW r, Placed(r, n, rows, tree)  PROVE Placed(r, n + 1, more, tree)
      <4>1. PICK m \in 0..(n - 1) : rows[m + 1] = r /\ Entered(tree, m)
        BY <3>2 DEF Placed
      <4>2. n \in Nat /\ n <= Len(rows)
        BY <2>3, <2>4 DEF n, rows
      <4>3. m \in 0..((n + 1) - 1) /\ m + 1 \in 1..Len(rows)
        BY <2>11, <4>2
      <4>4. more[m + 1] = r
        BY <2>11, <4>1, <4>3
      <4> QED  BY <4>1, <4>3, <4>4 DEF Placed
    <3> QED  BY <2>2, <2>5, <2>8, <2>12, <3>1, <3>2 DEF Carried, n, rows
  <2>14. Current("truncate", new, j, data', index')
    <3>1. Len(more) > n + 1 \/ Placed(j.row, n + 1, more, tree)
      <4>1. n \in Nat /\ n <= Len(rows) /\ j.row["id"] = n /\ Entered(tree, n)
        BY <2>3, <2>4, <2>6 DEF n, rows
      <4>2. CASE Len(rows) > n
        BY <2>11, <4>1, <4>2
      <4>3. CASE Len(rows) = n
        <5>1. n \in 0..((n + 1) - 1) /\ more[n + 1] = j.row
          BY <2>11, <4>1, <4>3
        <5> QED  BY <4>1, <5>1 DEF Placed
      <4> QED  BY <2>11, <4>1, <4>2, <4>3
    <3>2. Slots(new, t) # {} /\ Info(new, t).dataNum = n + 1
      BY <1>3, <2>5, <2>8 DEF n
    <3>3. Stores("truncate", new, j, more, tree)
      BY <3>1, <3>2 DEF Stores
    <3> QED  BY <1>3, <2>12, <3>3 DEF Current, Holding
  <2>15. \A u \in Tables : Slots(dbInfo, u) # {} /\ acked[u] # {} =>
           Slots(new, u) # {} /\ Carried(u, dbInfo, new, j, data, index, data', index')
    <3> SUFFICES ASSUME NEW u \in Tables, Slots(dbInfo, u) # {}
                 PROVE  Slots(new, u) # {} /\ Carried(u, dbInfo, new, j, data, index, data', index')
      OBVIOUS
    <3>1. Slots(cat, u) # {} /\ Info(cat, u).dataNum = Info(dbInfo, u).dataNum
      BY <2>1 DEF Alike, Counts
    <3>2. CASE u = t
      BY <2>8, <2>13, <3>1, <3>2
    <3>3. CASE u # t
      BY <2>8, <2>12, <3>1, <3>3 DEF Carried
    <3> QED  BY <3>2, <3>3
  <2>16. Due(pc[s], db[s], dbInfo) = dbInfo /\ Due(pc'[s], db'[s], dbInfo') = new
    BY <1>1, <2>7, <2>12 DEF Due
  <2>17. /\ dir /\ dir' = TRUE /\ pc'[s] = "truncate"
         /\ Current(pc'[s], new, job'[s], data', index')
         /\ \A u, r : Touches(job[s], u, r) => Touches(job'[s], u, r)
         /\ \A u \in Tables : Slots(dbInfo, u) # {} /\ acked[u] # {} =>
              Slots(new, u) # {} /\ Carried(u, dbInfo, new, job'[s], data, index, data', index')
    BY <1>4, <1>6, <2>12, <2>14, <2>15
  <2> QED  BY ONLY <2>9, <2>16, <2>17, Rests(s), Acks(s), KeptStep
<1> QED  BY <1>5, <1>6

(* The new dbInfo is due from fopen on, and what it lists is there. *)
LEMMA FlushOpenKept ==
  ASSUME Typed, NEW s \in Sessions, Rests(s), Neat(s), Acks(s), FlushOpen(s)
  PROVE  Rests(s)'
<1> DEFINE j == job[s]
           cat == db[s]
<1>1. pc[s] = "truncate"
  BY DEF FlushOpen
<1>2. CASE ~dir
  <2>1. ~dir' /\ pc'[s] = "crashed"
    BY <1>2 DEF FlushOpen, Crash, Stop, Go, Typed, Whole
  <2> QED  BY <2>1, KeptGround
<1>3. CASE dir
  <2>1. /\ pc' = [pc EXCEPT ![s] = "write"]
        /\ UNCHANGED <<dir, data, index, db, job, deaths>>
    BY <1>3 DEF FlushOpen, Go
  <2>2. pc'[s] = "write" /\ db'[s] = cat /\ job'[s] = j /\ data' = data /\ index' = index
    BY <2>1 DEF Typed, Whole
  <2>3. Due(pc[s], db[s], dbInfo) = cat /\ Due(pc'[s], db'[s], dbInfo') = cat
    BY <1>1, <2>2 DEF Due
  <2>4. Full(cat) /\ Current("truncate", cat, j, data, index)
    BY <1>1, <1>3, <2>3 DEF Rests, Kept
  <2> HIDE DEF cat, j
  <2>5. Current("write", cat, j, data, index)
    <3>1. j.op = "insert" => Stores("write", cat, j, data[j.table], index[<<j.table, "id">>])
      BY <2>4 DEF Current, Stores
    <3> QED  BY <2>4, <3>1 DEF Current, Holding
  <2>6. \A t : Carried(t, cat, cat, j, data, index, data, index)
    BY DEF Carried
  <2>7. /\ dir' = TRUE /\ Full(cat) /\ Current(pc'[s], cat, job'[s], data', index')
        /\ \A u, r : Touches(job[s], u, r) => Touches(job'[s], u, r)
        /\ \A u \in Tables : Slots(cat, u) # {} /\ acked[u] # {} =>
             Slots(cat, u) # {} /\ Carried(u, cat, cat, job'[s], data, index, data', index')
        /\ pc'[s] = "write"
    BY <1>3, <2>1, <2>2, <2>4, <2>5, <2>6 DEF j
  <2> QED  BY ONLY <1>3, <2>3, <2>7, Rests(s), Acks(s), KeptStep
<1> QED  BY <1>2, <1>3

(* The row of an INSERT that is acknowledged is where its number says. *)
LEMMA FlushCloseKept ==
  ASSUME Typed, NEW s \in Sessions, Rests(s), Neat(s), Acks(s), FlushClose(s)
  PROVE  Rests(s)'
<1> DEFINE j == job[s]
           cat == db[s]
<1>1. /\ pc[s] = "write" /\ dbInfo' = cat
      /\ pc' = [pc EXCEPT ![s] = "idle"] /\ job' = [job EXCEPT ![s] = NoJob]
      /\ UNCHANGED <<dir, data, index, db, deaths>>
  BY Alone DEF FlushClose, Stop, Go
<1>2. CASE ~dir
  <2>1. pc'[s] = "idle"
    BY <1>1 DEF Typed, Whole
  <2> QED  BY <1>1, <1>2, <2>1, KeptGround
<1>3. CASE dir
  <2>1. pc'[s] = "idle" /\ db'[s] = cat /\ job'[s] = NoJob /\ data' = data /\ index' = index
    BY <1>1 DEF Typed, Whole
  <2>2. Due(pc[s], db[s], dbInfo) = cat /\ Due(pc'[s], db'[s], dbInfo') = cat
    BY <1>1, <2>1 DEF Due
  <2>3. /\ Full(cat) /\ Current("write", cat, j, data, index)
        /\ \A t \in Tables : Safe(t, cat, j, data, index, acked[t])
    BY <1>1, <1>3, <2>2 DEF Rests, Kept
  <2> HIDE DEF cat
  <2>4. ASSUME NEW t \in Tables
        PROVE  Safe(t, cat, NoJob, data, index, acked'[t])
    <3> SUFFICES ASSUME NEW new \in acked'[t]
                 PROVE  /\ Slots(cat, t) # {}
                        /\ \/ Len(data[t]) > Info(cat, t).dataNum
                           \/ \A row \in acked'[t] :
                                Placed(row, Info(cat, t).dataNum, data[t], index[<<t, "id">>])
      BY DEF Safe
    <3>1. ASSUME NEW row \in acked'[t]
          PROVE  /\ Slots(cat, t) # {}
                 /\ \/ Len(data[t]) > Info(cat, t).dataNum
                    \/ Placed(row, Info(cat, t).dataNum, data[t], index[<<t, "id">>])
      <4>1. CASE row \in acked[t] /\ ~Touches(j, t, row)
        BY <2>3, <4>1 DEF Safe
      <4>2. CASE j.op = "insert" /\ j.table = t /\ row = j.row
        <5>1. Stores("write", cat, j, data[t], index[<<t, "id">>])
          BY <2>3, <4>2 DEF Current
        <5> QED  BY <4>2, <5>1 DEF Stores
      <4> QED  BY <2>1, <4>1, <4>2 DEF Acks
    <3> QED  BY <3>1
  <2>5. Current("idle", cat, NoJob, data, index)
    BY CurrentDone
  <2>6. \A t \in Tables : data'[t] = Absent => acked'[t] = {}
    BY DEF Acks
  <2>7. Alike(db'[s], dbInfo')
    BY <1>1, <2>1, <2>3 DEF Alike, Counts, cat
  <2> QED  BY <1>1, <2>1, <2>2, <2>3, <2>4, <2>5, <2>6, <2>7 DEF Rests, Kept
<1> QED  BY <1>2, <1>3

(* The statements that change the catalog.  A new database has no rows. *)
LEMMA CreateDatabaseKept ==
  ASSUME Typed, NEW s \in Sessions, Neat(s), Acks(s), ManagerCreateDatabase(s)
  PROVE  Rests(s)'
<1>1. /\ ~dir /\ db' = [db EXCEPT ![s] = EmptyDatabase] /\ job' = [job EXCEPT ![s] = NoJob]
      /\ pc' = [pc EXCEPT ![s] = "truncate"] /\ data' = data /\ index' = index
  BY DEF ManagerCreateDatabase, Go
<1>2. db'[s] = EmptyDatabase /\ job'[s] = NoJob /\ pc'[s] = "truncate"
  BY <1>1 DEF Typed, Whole
<1>3. \A t \in Tables : acked'[t] = {}
  BY <1>1 DEF NoFiles, Acks, Neat, Orderly
<1>4. Due(pc'[s], db'[s], dbInfo') = EmptyDatabase
  BY <1>2 DEF Due
<1>5. Full(EmptyDatabase)
  BY DEF EmptyDatabase, Complete, Slots, Full
<1>6. Current("truncate", EmptyDatabase, NoJob, data', index')
  BY NoJobFields DEF Current, Holding
<1> QED  BY <1>2, <1>3, <1>4, <1>5, <1>6 DEF Rests, Kept, Safe

(* DROP DATABASE leaves no rows at all. *)
LEMMA DropDatabaseKept ==
  ASSUME Typed, NEW s \in Sessions, Rests(s), Neat(s), Acks(s), ManagerDropDatabase(s)
  PROVE  Rests(s)'
<1>1. pc[s] = "idle" /\ (Crash(s) \/ (~dir' /\ pc'[s] # "remove"))
  BY DEF ManagerDropDatabase, Begins
<1> QED  BY <1>1, KeptGround, CrashKept

(* What a catalog says of a table is changed, but for its count. *)
LEMMA AlikeSet ==
  ASSUME NEW cat \in Database, NEW info, Alike(cat, info), NEW t \in Tables, Slots(cat, t) # {},
         NEW new \in Table, new.name = t, "id" \in new.indexed,
         new.dataNum = Info(cat, t).dataNum
  PROVE  Alike(WithInfo(cat, t, new), info)
<1> DEFINE set == WithInfo(cat, t, new)
<1>1. /\ Complete(cat) => Complete(set)
      /\ \A u : Slots(set, u) = Slots(cat, u)
      /\ Info(set, t) = new
      /\ \A u : u # t /\ Slots(cat, u) # {} => Info(set, u) = Info(cat, u)
  BY InfoSet
<1> HIDE DEF set
<1>2. ASSUME NEW u \in Tables, Slots(cat, u) # {}
      PROVE  "id" \in Info(set, u).indexed /\ Info(set, u).dataNum = Info(cat, u).dataNum
  <2>1. CASE u = t
    BY <1>1, <2>1
  <2>2. CASE u # t
    BY <1>1, <1>2, <2>2 DEF Alike, Full
  <2> QED  BY <2>1, <2>2
<1>3. Full(set)
  BY <1>1, <1>2 DEF Alike, Full
<1>4. Counts(set, info) /\ Counts(info, set)
  BY <1>1, <1>2 DEF Alike, Counts
<1> QED  BY <1>3, <1>4 DEF Alike, set

(* CREATE TABLE empties the data of a table that no catalog lists, ... *)
LEMMA CreateTableKept ==
  ASSUME Typed, NEW s \in Sessions, Rests(s), Neat(s), Acks(s), NEW t \in Tables,
         ManagerCreateTable(s, t)
  PROVE  Rests(s)'
<1> DEFINE k == CatalogJob("create table", t, None, <<>>)
<1>1. pc[s] = "idle" /\ db[s] # None /\ ~Has(db[s], t)
  BY DEF ManagerCreateTable, Begins
<1>2. CASE Crash(s)
  BY <1>1, <1>2, CrashKept
<1>3. CASE ~Crash(s)
  <2>1. /\ dir /\ data' = [data EXCEPT ![t] = <<>>]
        /\ job' = [job EXCEPT ![s] = k] /\ pc' = [pc EXCEPT ![s] = "make"]
        /\ UNCHANGED <<dir, dbInfo, index, db>>
    BY <1>3 DEF ManagerCreateTable, Go
  <2>2. k.op = "create table"
    BY JobFields DEF CatalogJob
  <2> HIDE DEF k
  <2>3. job'[s] = k /\ pc'[s] = "make" /\ db'[s] = db[s]
    BY <2>1 DEF Typed, Whole
  <2>4. Alike(db[s], dbInfo) /\ Full(dbInfo)
    BY <1>1, <2>1, Alone DEF Listed
  <2>5. Slots(dbInfo, t) = {}
    BY <1>1, <2>4 DEF Has, Alike, Counts
  <2>6. \A u \in Tables : Slots(dbInfo, u) # {} =>
          data'[u] = data[u] /\ index'[<<u, "id">>] = index[<<u, "id">>]
    BY <2>1, <2>5 DEF Typed, AllFiles
  <2>7. Current(pc'[s], dbInfo, job'[s], data', index')
    BY <2>2, <2>3 DEF Current, Holding
  <2>8. Due(pc'[s], db'[s], dbInfo) = dbInfo /\ Counts(dbInfo, dbInfo)
    BY <2>3 DEF Due, Counts
  <2>9. job[s].op = "none" /\ \A u, row : ~Touches(job[s], u, row)
    BY <1>1, Alone DEF Touches
  <2> QED  BY <1>1, <2>1, <2>3, <2>4, <2>6, <2>7, <2>8, <2>9, QuietKept
<1> QED  BY <1>2, <1>3

(* ... makes its index and adds it to the list. *)
LEMMA MakeIndexKept ==
  ASSUME Typed, NEW s \in Sessions, Rests(s), Neat(s), Acks(s), MakeIndex(s)
  PROVE  Rests(s)'
<1> DEFINE t == job[s].table
           cat == db[s]
           info == NewTable(t)
           new == WithTable(cat, info)
<1>1. pc[s] = "make" /\ dir \in BOOLEAN
  BY Alone DEF MakeIndex
<1>2. CASE Crash(s)
  BY <1>1, <1>2, CrashKept
<1>3. CASE ~Crash(s)
  <2>1. /\ dir /\ index' = [index EXCEPT ![<<t, "id">>] = EmptyIndex]
        /\ db' = [db EXCEPT ![s] = new] /\ pc' = [pc EXCEPT ![s] = "truncate"]
        /\ UNCHANGED <<dir, dbInfo, data, job>>
    BY <1>3 DEF MakeIndex, Go, WithTable
  <2>2. t \in Tables /\ Making("make", cat, job[s])
    BY <1>1, Working DEF Outside, Storing, Looking, Building, Removing
  <2>3. cat \in Database /\ cat # None /\ job[s].op = "create table"
    BY <2>2, AbsentAssumption DEF Making
  <2>4. Slots(cat, t) = {}
    BY <1>1, <2>1 DEF Neat, Orderly
  <2>5. Alike(cat, dbInfo) /\ Full(dbInfo)
    BY <1>1, <2>1, <2>3, Alone DEF Listed
  <2>6. info \in Table /\ info.name = t /\ info.indexed = {"id"}
    BY <2>2, Columns DEF NewTable, Table
  <2> HIDE DEF info, cat
  <2>7. /\ Complete(cat) => Complete(new)
        /\ Slots(new, t) # {} /\ Info(new, t) = info
        /\ \A u : u # t => /\ Slots(new, u) = Slots(cat, u)
                           /\ Slots(cat, u) # {} => Info(new, u) = Info(cat, u)
    <3>1. /\ cat \in Database /\ Slots(cat, t) = {} /\ info \in Table /\ info.name = t
      BY <2>3, <2>4, <2>6
    <3> HIDE DEF t
    <3> QED  BY ONLY <3>1, InfoAdded
  <2> HIDE DEF new
  <2>8. db'[s] = new /\ pc'[s] = "truncate" /\ job'[s] = job[s]
    BY <2>1 DEF Typed, Whole
  <2>9. Full(new)
    <3> SUFFICES ASSUME NEW u \in Tables, Slots(new, u) # {}
                 PROVE  "id" \in Info(new, u).indexed
      BY <2>5, <2>7 DEF Full, Alike
    <3>1. CASE u = t
      BY <2>6, <2>7, <3>1
    <3>2. CASE u # t
      BY <2>5, <2>7, <3>2 DEF Alike, Full
    <3> QED  BY <3>1, <3>2
  <2>10. \A u \in Tables : Slots(dbInfo, u) # {} => u # t
    BY <2>4, <2>5 DEF Alike, Counts
  <2>11. Counts(new, dbInfo)
    BY <2>5, <2>7, <2>10 DEF Alike, Counts
  <2>12. ASSUME NEW u \in Tables, Slots(dbInfo, u) # {}
         PROVE  data'[u] = data[u] /\ index'[<<u, "id">>] = index[<<u, "id">>]
    <3>1. <<u, "id">> \in Tables \X Fields /\ <<u, "id">> # <<t, "id">>
      BY <2>10, <2>12, Columns
    <3> QED  BY <2>1, <3>1 DEF Typed, AllFiles
  <2>13. Current(pc'[s], new, job'[s], data', index')
    BY <2>3, <2>8 DEF Current, Holding
  <2>14. Due(pc'[s], db'[s], dbInfo) = new
    BY <2>8 DEF Due
  <2> QED  BY <1>1, <2>1, <2>3, <2>8, <2>9, <2>11, <2>12, <2>13, <2>14, QuietKept
<1> QED  BY <1>2, <1>3

(* CREATE INDEX leaves id.index as it is: that one exists. *)
LEMMA CreateIndexKept ==
  ASSUME Typed, NEW s \in Sessions, Rests(s), Neat(s), Acks(s), NEW t \in Tables, NEW f \in Fields,
         ManagerCreateIndex(s, t, f)
  PROVE  Rests(s)'
<1> DEFINE cat == db[s]
           old == Info(cat, t)
           info == [old EXCEPT !.indexed = @ \cup {f}]
           new == WithInfo(cat, t, info)
           todo == ScanKeys(old)
           k == CatalogJob("create index", t, f, todo)
           q == IF old.dataNum = 0 THEN "truncate" ELSE "seek"
<1>1. pc[s] = "idle" /\ cat # None /\ Slots(cat, t) # {} /\ f \notin old.indexed
  BY DEF ManagerCreateIndex, Begins, Has
<1>2. CASE Crash(s)
  BY <1>1, <1>2, CrashKept
<1>3. CASE ~Crash(s)
  <2>1. /\ dir /\ index' = [index EXCEPT ![<<t, f>>] = EmptyIndex]
        /\ db' = [db EXCEPT ![s] = new]
        /\ job' = [job EXCEPT ![s] = k] /\ pc' = [pc EXCEPT ![s] = q]
        /\ UNCHANGED <<dir, dbInfo, data>>
    BY <1>3 DEF ManagerCreateIndex, SetInfo, Go, WithInfo
  <2>2. k.op = "create index" /\ k.field = f
    BY JobFields DEF CatalogJob
  <2> HIDE DEF k
  <2>3. cat \in Database /\ Alike(cat, dbInfo) /\ Full(dbInfo)
    BY <1>1, <2>1, Alone DEF Listed
  <2>4. "id" \in old.indexed /\ f # "id"
    BY <1>1, <2>3 DEF Alike, Full
  <2>5. old \in Table /\ old.name = t
    BY <1>1, <2>3, HonestInfo
  <2>6. /\ info \in Table /\ info.name = t /\ "id" \in info.indexed /\ info.dataNum = old.dataNum
    <3> HIDE DEF old
    <3> QED  BY <2>4, <2>5 DEF Table
  <2> HIDE DEF info
  <2>7. Alike(new, dbInfo)
    <3> HIDE DEF cat
    <3> QED  BY <1>1, <2>3, <2>6, AlikeSet
  <2> HIDE DEF new, q
  <2>8. db'[s] = new /\ pc'[s] = q /\ job'[s] = k
    BY <2>1 DEF Typed, Whole
  <2>9. q \in {"truncate", "seek"}
    BY DEF q
  <2>10. Due(q, new, dbInfo) \in {new, dbInfo}
    BY DEF Due
  <2>11. Full(Due(q, new, dbInfo)) /\ Counts(Due(q, new, dbInfo), dbInfo)
    BY <2>3, <2>7, <2>10 DEF Alike, Counts
  <2>12. ASSUME NEW u \in Tables
         PROVE  data'[u] = data[u] /\ index'[<<u, "id">>] = index[<<u, "id">>]
    <3>1. <<u, "id">> \in Tables \X Fields /\ <<u, "id">> # <<t, f>>
      BY <2>4, Columns
    <3> QED  BY <2>1, <3>1 DEF Typed, AllFiles
  <2>13. Current(q, Due(q, new, dbInfo), k, data', index')
    BY <2>2, <2>4, <2>9 DEF Current, Holding
  <2>14. job[s].op = "none" /\ \A u, row : ~Touches(job[s], u, row)
    BY <1>1, Alone DEF Touches
  <2> QED  BY <1>1, <2>1, <2>7, <2>8, <2>9, <2>11, <2>12, <2>13, <2>14, QuietKept
<1> QED  BY <1>2, <1>3

(* Nor does it write there for the rows that it reads. *)
LEMMA SeekRowKept ==
  ASSUME Typed, NEW s \in Sessions, Rests(s), Neat(s), Acks(s), SeekRow(s)
  PROVE  Rests(s)'
<1> DEFINE j == job[s]
<1>1. pc[s] = "seek" /\ dir \in BOOLEAN
  BY Alone DEF SeekRow
<1>2. CASE Crash(s)
  BY <1>1, <1>2, CrashKept
<1>3. CASE ~Crash(s)
  <2>1. /\ \E row \in DataSeek(j.table, Head(j.todo)) : job' = [job EXCEPT ![s].row = row]
        /\ pc' = [pc EXCEPT ![s] = "open"]
        /\ UNCHANGED <<disk, db>>
    BY <1>3 DEF SeekRow, Go
  <2>2. PICK row : job' = [job EXCEPT ![s].row = row]
    BY <2>1
  <2> DEFINE k == [j EXCEPT !.row = row]
  <2>3. DOMAIN j = DOMAIN NoJob /\ j.op = "create index"
    BY <1>1, Working DEF Outside, Storing, Looking, Building, Making, Removing
  <2>4. k.op = j.op /\ k.field = j.field
    BY <2>3, JobFields
  <2>5. job'[s] = k /\ pc'[s] = "open" /\ db'[s] = db[s] /\ UNCHANGED <<dir, dbInfo, data, index>>
    BY <2>1, <2>2 DEF Typed, Whole, disk
  <2>6. dir => j.field # "id"
    BY <1>1, <2>3, Alone DEF Current
  <2> HIDE DEF k
  <2>7. dir => Current("open", dbInfo, k, data, index)
    BY <2>3, <2>4, <2>6 DEF Current, Holding
  <2>8. dir => Current(pc'[s], dbInfo, job'[s], data, index)
    BY <2>5, <2>7
  <2>9. \A u, r : ~Touches(job[s], u, r)
    BY <2>3 DEF Touches
  <2> QED  BY <1>1, <2>5, <2>8, <2>9, StillKept
<1> QED  BY <1>2, <1>3

(* Nor for those that it enters. *)
LEMMA PutIndexedKept ==
  ASSUME Typed, NEW s \in Sessions, Rests(s), Neat(s), Acks(s), PutIndexed(s)
  PROVE  Rests(s)'
<1> DEFINE j == job[s]
           cat == db[s]
           i == <<j.table, j.field>>
           tree == [root |-> TRUE, leaf |-> IndexInsert(j.leaf, j.row[j.field], Head(j.todo))]
           k == [j EXCEPT !.todo = Tail(@), !.leaf = <<>>, !.row = None]
           q == IF Len(j.todo) = 1 THEN "truncate" ELSE "seek"
<1>1. /\ pc[s] = "put" /\ j.op = "create index" /\ CloseTree(s, tree)
      /\ job' = [job EXCEPT ![s] = k] /\ pc' = [pc EXCEPT ![s] = q]
      /\ UNCHANGED <<dir, dbInfo, data, db, deaths>>
  BY DEF PutIndexed, Go
<1>2. /\ DOMAIN j = DOMAIN NoJob /\ j.table \in Tables /\ Building("put", cat, j)
  BY <1>1, Working DEF Outside, Storing, Looking, Making, Removing
<1>3. cat \in Database /\ cat # None /\ stray[s].tree = None /\ dir \in BOOLEAN
  BY <1>2, Alone, AbsentAssumption DEF Building
<1>4. k.op = j.op /\ k.field = j.field
  BY <1>2, JobFields
<1> HIDE DEF k, q
<1>5. job'[s] = k /\ pc'[s] = q /\ db'[s] = cat /\ q \in {"truncate", "seek"}
  BY <1>1 DEF Typed, Whole, q
<1>6. Held(pc[s], j) = i
  BY <1>1 DEF Held
<1> HIDE DEF tree, i
<1>7. index' = [index EXCEPT ![i] = tree]
  BY <1>1, <1>3, <1>6, AlonePut
<1>8. dir => Alike(cat, dbInfo) /\ Full(dbInfo) /\ j.field # "id"
  BY <1>1, <1>3, Alone DEF Listed, Current
<1>9. Due(q, cat, dbInfo) \in {cat, dbInfo}
  BY DEF Due
<1>10. dir => Full(Due(q, cat, dbInfo)) /\ Counts(Due(q, cat, dbInfo), dbInfo)
  BY <1>8, <1>9 DEF Alike, Counts
<1>11. ASSUME dir, NEW u \in Tables
       PROVE  data'[u] = data[u] /\ index'[<<u, "id">>] = index[<<u, "id">>]
  <2>1. <<u, "id">> \in Tables \X Fields /\ <<u, "id">> # i
    BY <1>8, <1>11, Columns DEF i
  <2> QED  BY <1>1, <1>7, <2>1 DEF Typed, AllFiles
<1>12. dir => Current(q, Due(q, cat, dbInfo), k, data', index')
  BY <1>1, <1>4, <1>5, <1>8 DEF Current, Holding
<1>13. \A u, r : ~Touches(job[s], u, r)
  BY <1>1 DEF Touches
<1>14. pc[s] \notin {"truncate", "write"} /\ job[s].op # "insert"
  BY <1>1
<1> HIDE DEF j
<1> QED  BY <1>1, <1>3, <1>5, <1>8, <1>10, <1>11, <1>12, <1>13, <1>14, QuietKept

-----------------------------------------------------------------------------
(* Every step of a session alone that has no DROP TABLE and no DROP INDEX. *)
NothingDropped == Ops \cap {"drop table", "drop index"} = {}

(* The first step of a statement, *)
LEMMA StatementKept ==
  ASSUME Typed, NEW s \in Sessions, Rests(s), Neat(s), Acks(s), Statement(s), NothingDropped
  PROVE  Rests(s)'
<1>1. CASE ManagerUseDatabase(s)
  BY <1>1, UseKept
<1>2. CASE ManagerCreateDatabase(s)
  BY <1>2, CreateDatabaseKept
<1>3. CASE ManagerDropDatabase(s)
  BY <1>3, DropDatabaseKept
<1>4. CASE \E t \in Tables : ManagerCreateTable(s, t)
  BY <1>4, CreateTableKept
<1>5. CASE \E t \in Tables, f \in Fields : ManagerCreateIndex(s, t, f)
  BY <1>5, CreateIndexKept
<1>6. ~\E t \in Tables : ManagerDropTable(s, t) \/ \E f \in Fields : ManagerDropIndex(s, t, f)
  BY DEF NothingDropped, ManagerDropTable, ManagerDropIndex, Begins
<1>7. CASE \E t \in Tables, given \in [Fields \ {"id"} -> Values \cup {None}] :
             ManagerInsert(s, t, given)
  BY <1>7, InsertKept
<1>8. CASE \E t \in Tables, list \in Clauses :
             \/ ManagerSelect(s, t, list)
             \/ ManagerDelete(s, t, list)
             \/ \E field \in SetFields, value \in Values : ManagerUpdate(s, t, list, field, value)
  <2>1. \E op \in {"select", "update", "delete"}, t \in Tables, list \in Clauses :
          \E field, value : Query(s, op, t, list, field, value)
    BY <1>8 DEF ManagerSelect, ManagerDelete, ManagerUpdate
  <2>2. PICK op \in {"select", "update", "delete"}, t \in Tables, list \in Clauses :
          \E field, value : Query(s, op, t, list, field, value)
    BY <2>1
  <2>3. PICK field, value : Query(s, op, t, list, field, value)
    BY <2>2
  <2> QED  BY <2>3, QueryKept
<1> QED  BY <1>1, <1>2, <1>3, <1>4, <1>5, <1>6, <1>7, <1>8 DEF Statement

(* and the steps that follow it. *)
LEMMA StepKept ==
  ASSUME Typed, NEW s \in Sessions, Rests(s), Neat(s), Acks(s), Step(s)
  PROVE  Rests(s)'
<1>1. ~RemoveFile(s)
  BY DEF RemoveFile, Rests, Kept
<1> QED  BY <1>1, MakeIndexKept, SeekRowKept, OpenKept, LoadKept, PutInsertedKept, PutIndexedKept,
            AppendKept, FlushOpenKept, FlushCloseKept, ProbeKept, SearchKept, FetchKept,
            UpdateKept, PutDeletedKept, AnswerKept DEF Step

(* A kill between the append of a row and the new dbInfo is remembered. *)
LEMMA NextKept ==
  ASSUME Typed, Deaths, NEW s \in Sessions, Rests(s), Neat(s), Acks(s), NothingDropped,
         Statement(s) \/ Step(s) \/ Kill(s) \/ Connect(s),
         "flush" \notin ToSet(deaths')
  PROVE  Rests(s)'
<1>1. CASE Statement(s) \/ Step(s)
  BY <1>1, StatementKept, StepKept
<1>2. CASE Connect(s)
  BY <1>2, ConnectKept
<1>3. CASE Kill(s)
  <2>1. pc[s] \notin Flushing
    <3> SUFFICES ASSUME pc[s] \in Flushing  PROVE FALSE
      OBVIOUS
    <3>1. deaths' = Append(deaths, "flush")
      BY <1>3 DEF Kill, Flushing
    <3> QED  BY <3>1, FlushRemembered
  <2> QED  BY <1>3, <2>1, ConnectKept
<1> QED  BY <1>1, <1>2, <1>3

(* At the start nothing is acknowledged. *)
LEMMA InitKept ==
  ASSUME HistoryInit, NEW s \in Sessions
  PROVE  Rests(s)
<1>1. /\ Init /\ IInv /\ pc[s] = "idle" /\ db[s] = None /\ job[s] = NoJob
      /\ \A t \in Tables : acked[t] = {}
  BY InitIInv DEF HistoryInit, Init
<1>2. dir => Full(dbInfo)
  <2> SUFFICES ASSUME dir  PROVE Full(dbInfo)
    OBVIOUS
  <2>1. InitialTables # {}
    BY <1>1 DEF Init
  <2>2. Sound(dbInfo, data)
    BY <1>1, <2>1, FirstCatalog
  <2>3. dbInfo \in Database /\ Complete(dbInfo)
    BY <2>2 DEF Sound, Complete
  <2>4. ASSUME NEW t \in Tables, Slots(dbInfo, t) # {}
        PROVE  "id" \in Info(dbInfo, t).indexed
    <3>1. Slot(dbInfo, t) \in 1..Len(dbInfo.tables) /\ Info(dbInfo, t).name = t
      BY <2>3, <2>4, SlotFound
    <3> QED  BY <2>2, <3>1 DEF Sound, Info
  <2> QED  BY <2>3, <2>4 DEF Full
<1>3. Current("idle", dbInfo, NoJob, data, index)
  BY CurrentDone
<1> QED  BY <1>1, <1>2, <1>3 DEF Rests, Kept, Due, Safe

(* What SELECT * shows is not Absent, and as many as dbInfo counts. *)
LEMMA ShownCount ==
  ASSUME Typed, NEW t \in Tables, dbInfo \in Database, Slots(dbInfo, t) # {},
         data[t] # Absent, index[<<t, "id">>] # Absent
  PROVE  Shown(t) # Absent /\ Shown(t).count = Info(dbInfo, t).dataNum
<1> DEFINE n       == Info(dbInfo, t).dataNum
           tree    == index[<<t, "id">>]
           rows    == data[t]
           leaf    == IF tree.root THEN tree.leaf ELSE <<>>
           keys    == [i \in 1..n |-> i - 1]
           hits    == [i \in DOMAIN keys |-> BptreeSearch(leaf, keys[i])]
           offsets == FlattenSeq(hits)
           inner   == {o \in ToSet(offsets) : o + 1 \in DOMAIN rows}
           inside  == Among(offsets, inner)
           found   == [i \in DOMAIN inside |-> rows[inside[i] + 1]]
           first   == IF rows = <<>> THEN None ELSE rows[1]
<1>1. rows \in Seq(Row) /\ tree \in Index /\ n \in Nat
  <2>1. data[t] \in Seq(Row) \cup {Absent}
    BY DEF Typed, AllFiles
  <2>2. <<t, "id">> \in Tables \X Fields
    BY Columns
  <2>3. index[<<t, "id">>] \in Index \cup {Absent}
    BY <2>2 DEF Typed, AllFiles
  <2>4. Info(dbInfo, t) \in Table
    BY HonestInfo
  <2> QED  BY <2>1, <2>3, <2>4 DEF Table
<1>2. Shown(t) = [rows |-> found, count |-> n, first |-> first]
  <2>1. Has(dbInfo, t) /\ dbInfo \notin {Absent, Torn}
    BY AbsentAssumption DEF Has
  <2> QED  BY <2>1 DEF Shown
<1>3. leaf \in Seq(Entry)
  <2>1. tree.leaf \in Seq(Entry) /\ <<>> \in Seq(Entry)
    BY <1>1 DEF Index
  <2> HIDE DEF tree
  <2> QED  BY <2>1
<1> HIDE DEF n, tree, rows, leaf
<1>4. \A key : BptreeSearch(leaf, key) \in Seq(Int)
  BY <1>3, SearchEntries
<1>5. hits \in Seq(Seq(Int))
  <2>1. hits = [i \in 1..n |-> BptreeSearch(leaf, i - 1)]
    OBVIOUS
  <2> HIDE DEF hits
  <2> QED  BY <1>1, <1>4, <2>1
<1> HIDE DEF hits
<1>6. offsets \in Seq(Int)
  BY <1>5, FlattenHas
<1> HIDE DEF offsets
<1>7. \A o \in inner : o + 1 \in DOMAIN rows
  OBVIOUS
<1> HIDE DEF inner
<1>8. inside \in Seq(Int \cap inner)
  BY <1>6, AmongProperties
<1> HIDE DEF inside
<1>9. \A i \in 1..Len(inside) : inside[i] \in inner
  BY <1>8
<1>10. DOMAIN inside = 1..Len(inside) /\ Len(inside) \in Nat
  BY <1>8
<1>11. \A i \in 1..Len(inside) : rows[inside[i] + 1] \in Row
  BY <1>1, <1>7, <1>9
<1>12. found \in Seq(Row)
  BY <1>10, <1>11
<1>13. first \in Row \cup {None}
  <2>1. rows # <<>> => 1 \in 1..Len(rows)
    BY <1>1
  <2> QED  BY <1>1, <2>1
<1> HIDE DEF found, first
<1>14. /\ Shown(t) \in [rows : Seq(Row), count : Nat, first : Row \cup {None}]
       /\ Shown(t).count = n
  BY <1>1, <1>2, <1>12, <1>13
<1> QED  BY <1>14, ShownAssumption DEF n

(* Then SELECT * shows the rows that are kept, if all rows are counted. *)
LEMMA KeptFound ==
  ASSUME Typed, NEW s \in Sessions, Rests(s), Neat(s), AllCounted
  PROVE  AckedRowsFound
<1> SUFFICES ASSUME pc[s] = "idle", NEW t \in Tables, NEW row \in acked[t]
             PROVE  Shown(t) # Absent /\ row \in ToSet(Shown(t).rows)
  BY DEF AckedRowsFound, Quiet
<1>1. data[t] # Absent
  BY DEF Rests, Kept
<1>2. dir
  BY <1>1 DEF NoFiles, Typed, AllFiles, Neat, Orderly
<1>3. job[s].op = "none"
  BY Alone
<1>4. Listed(dbInfo, data, index) /\ Safe(t, dbInfo, job[s], data, index, acked[t])
  BY <1>2, Alone DEF Rests, Kept, Due
<1>5. /\ Slots(dbInfo, t) # {}
      /\ \/ Len(data[t]) > Info(dbInfo, t).dataNum
         \/ Placed(row, Info(dbInfo, t).dataNum, data[t], index[<<t, "id">>])
  BY <1>3, <1>4 DEF Safe, Touches
<1>6. /\ dbInfo \in Database /\ index[<<t, "id">>] # Absent
      /\ Info(dbInfo, t).dataNum <= Len(data[t])
  BY <1>4, <1>5 DEF Listed
<1>7. Shown(t) # Absent /\ Shown(t).count = Info(dbInfo, t).dataNum
  BY <1>1, <1>5, <1>6, ShownCount
<1>8. Info(dbInfo, t).dataNum = Len(data[t])
  BY <1>7 DEF AllCounted
<1>9. Len(data[t]) \in Nat
  <2>1. data[t] \in Seq(Row)
    BY <1>1 DEF Typed, AllFiles
  <2> QED  BY <2>1
<1>10. Placed(row, Info(dbInfo, t).dataNum, data[t], index[<<t, "id">>])
  BY <1>5, <1>8, <1>9
<1>11. row \in ToSet(Shown(t).rows)
  BY <1>1, <1>5, <1>6, <1>10, ShownFinds
<1> QED  BY <1>7, <1>11

(* What the history adds are variables: the steps are those of Engine. *)
LEMMA HistoryEngine == HistorySpec => Spec
<1>1. HistoryInit => Init
  BY DEF HistoryInit
<1>2. [HistoryNext]_<<vars, acked, before, reply>> => [Next]_vars
  BY DEF HistoryNext
<1> QED  BY <1>1, <1>2, PTL DEF HistorySpec, Spec

(***************************************************************************)
(* One session alone, killed and started anew as often as it may be: no    *)
(* acknowledged row is lost to a kill, and none to an UPDATE, a DELETE or  *)
(* an INSERT that gives an id out again, unless a kill came between the    *)
(* append of a row and the new dbInfo, or there is a row that is not       *)
(* counted.  DROP TABLE and DROP INDEX take what they are asked to take,   *)
(* and more (DROP TABLE of an unknown name); nothing is said of them.      *)
(***************************************************************************)
THEOREM AloneDeathsSpareRows ==
  ASSUME NEW alone, Sessions = {alone}, NothingDropped
  PROVE  HistorySpec => []DeathsSpareRows
<1> DEFINE Inv == "flush" \notin ToSet(deaths) => Rests(alone)
           next == [HistoryNext]_<<vars, acked, before, reply>>
<1>1. HistoryInit => Inv
  BY InitKept
<1>2. ASSUME Typed, Deaths, Tidied, Inv, next  PROVE Inv'
  <2>1. CASE HistoryNext
    <3> SUFFICES ASSUME "flush" \notin ToSet(deaths')  PROVE Rests(alone)'
      OBVIOUS
    <3>1. /\ Statement(alone) \/ Step(alone) \/ Kill(alone) \/ Connect(alone)
          /\ Acks(alone)
      BY <1>2, <2>1, AcksNext DEF HistoryNext, Next
    <3>2. deaths' \in {deaths, Append(deaths, "elsewhere"), Append(deaths, "flush")}
      BY <1>2, <3>1, NextServes
    <3>3. "flush" \notin ToSet(deaths)
      BY <1>2, <3>2, FlushRemembered
    <3>4. Rests(alone) /\ Neat(alone)
      BY <1>2, <3>3 DEF Tidied
    <3> QED  BY <1>2, <3>1, <3>4, NextKept
  <2>2. CASE UNCHANGED <<vars, acked, before, reply>>
    BY <1>2, <2>2 DEF vars, disk, Rests
  <2> QED  BY <1>2, <2>1, <2>2
<1>3. ASSUME Typed, Tidied, Inv  PROVE DeathsSpareRows
  <2> SUFFICES ASSUME "flush" \notin ToSet(deaths), AllCounted  PROVE AckedRowsFound
    BY DEF DeathsSpareRows
  <2>1. Rests(alone) /\ Neat(alone)
    BY <1>3 DEF Tidied
  <2> QED  BY <1>3, <2>1, KeptFound
<1> QED  BY <1>1, <1>2, <1>3, HistoryEngine, AllInvariance, AloneTidied, PTL DEF HistorySpec

=============================================================================
