# A verification of xpfBase in TLA+

xpfBase (`src/src`) is a small SQL database in C. A server forks one process per
client; the processes share nothing but the files of the databases and take no
locks. A table is a data file of fixed-size rows, a database has one catalog
file `dbInfo`, and every indexed column has a B+tree index file. This directory
models the parts that decide whether a client gets back what it stored, checks
them with TLC and proves part of them with TLAPS.

Run a model check with `tlc -config X.cfg M.tla` (the pairs are listed below and
in `PROJECT.json`), a proof with `tlapm M.tla`.

## 1. The system

| component | source | state | operations | talks to |
|---|---|---|---|---|
| B+tree index file | `bptree.c` | pages of one file, a header (root, number of pages) on page 0 and in memory; pages on the C stack inside a call | `CreateBptree`, `OpenBptree`, `CloseBptree`, `BptreeInsert`, `BptreeSearch`, `BptreeDelete` | called by the manager |
| Manager | `manager.c` | files of a database; per process a copy of the catalog (`xbParser->db`) read at `USE` | eleven statements that touch files; `SHOW` | called by the parser, calls the index, writes answers to the socket |
| WHERE clauses | `GetExpr` in `parser.c`, `CheckConditionList` and the row tests in `manager.c` | condition list, then one comparison per column | read, check, test a row | between parser and manager |
| Statement parser | `parser.c`, `parser_node.c` | the current token, the tree | `ParseSQL` offers the text to one `Parse…` function per statement in turn | tokenizer, manager |
| Tokenizer | `tokeniz.c` | position in the text | next token | parser |
| Server and client | `xpfBase.c` | sockets, the parent's descriptors, the client's line and read buffers | accept and fork, read a statement, write an answer and `.end`; type, send, read | parser; each other over TCP |
| Lists, conversions | `utils.c` | none | lists, `StringToInt`, `IntToString` | everyone |

A statement travels: client `write` → child `read` (one read is one statement) →
`ParseSQL` → one `Manager…` call → index and data files, `dbInfo` last → answer →
`.end` → client.

What makes it hard:

- **Pages are linked before they are written.** A split first inserts the new
  page into its parent and writes both halves when that returns. During nested
  splits the file has pointers to pages that are only on the C stack, and
  holes. The code follows parent fields stored in pages.
- **No locks, stale catalogs.** A process never reads `dbInfo` again after
  `USE`; ids, counts and index flags come from its own copy, and every change
  writes that whole copy back.
- **Several files per statement.** The index entry is written before the row and
  the row before the catalog; a kill may fall between any two of them, and
  `fopen "w"` leaves `dbInfo` empty until `fclose`.
- **Unframed streams.** Reads cut statements and answers anywhere; only the text
  `.end` at the end of one read tells the client to stop.
- **No errors.** The clause reader returns what it has when it does not
  understand, and `fopen` results are used unchecked.
- **Every failure is a retry.** `ParseSQL` goes on to the next function after any
  error, a failed call of the manager included; the tokenizer does not advance
  at the end of the text, so every loop has to notice it.

Correctness, per component: the index keeps its pages well formed at every step,
is a tree between calls, loses no entry, answers only with rows of the key and
with all of them; the manager behaves as a table store for a client alone, does
not name what is not in the files, and a statement on rows is brought down by
another session's work only where the code reads what is not written yet;
a text is executed once or not at all, with its words in their places; a
filter keeps the rows the clause describes, and a SELECT prints each
combination of them once; client and child stay in step and
a client that waits is answered.

## 2. Modules

| module | models | state and steps in terms of the code |
|---|---|---|
| `BptreeNode` | one page: `struct BptreeNode`, `NewBptreeNode`, the shift loops, the halves of a split, the specification of `GetIndex` | no state; arrays are functions on C indices, a `key[]` slot `malloc` left alone is `Uninit` |
| `BinarySearch` | the loop of `GetIndex` | `l`, `r`; an iteration per step. It has no run: `BinarySearchProofs` proves its result for every page, and the trees of the runs are built on that result |
| `Bptree` | an index file in one process | `disk` (pages, holes), `hdr` and `mem` (page 0 and `struct Bptree`), `stack` (the `left` and `right` of each active `InsertInto…` frame), `pc`. Each page visited, each return of a nested `InsertIntoNode` and the header write is an action named after its function |
| `BptreeCrash` | the same file when processes are killed at any step | `Kill` loses `mem` and the stack and opens the file again; `KillTears` does so between the writes of a split, in any state `Return` leaves the file in; `CreateBptree` is what then helps |
| `IndexMap` | what an index promises | a set of entries with three atomic calls |
| `Conditions` | `struct SelectField`, one column's share of `CheckConditionList`, the test of a row | operators shared by `Query`, `Parser`, `Engine`, `TableStore` |
| `Grammar` | what the `Parse…` functions accept | a statement is a sequence of slots named after its function, the seven parts inside one are lists of items or small automata |
| `Query` | `GetSelectTable`, `GetSelectField`, `CheckConditionList` and `CheckOrderBy` on the tables of a statement, `CartesianProduct` | operators; a query is what `ParseSelect` hands over |
| `Parser` | `ParseSQL`, token by token | `text` and `pos` are the statement and `lastSql`, `fn` the element of `functionTable`, `slot` and `at` where its function is, `tree` and `cond` what it has built, `calls` the calls of the manager; one action per reader |
| `Text` | `GetToken` on characters, `StringToInt`, `IntToString`, and `atoi` of the C library | `lastSql` is a position in `text`, a step is a call; the conversions are operators |
| `Engine` | every statement of the manager that touches files, any number of sessions, kills | `dbInfo`, `data`, `index` are the files, `db[s]` a session's catalog, `job[s]` the locals of its statement; a step ends where another process can see the difference (making, opening, reading, writing, closing or removing a file); `stray[s]` is what a session has open whose name was removed |
| `TableStore` | what a client alone can count on | tables of rows, one atomic action per statement |
| `EngineHistory` | `Engine` with what clients were told | `acked` (rows of answered INSERTs nobody has touched since), `before`, `reply`; the refinement to `TableStore` |
| `Server` | `start_server` and `start_client` | a stream is a sequence of items and a read takes any prefix of it, `rec` is the client's uninitialised buffer, `fds` the parent's descriptors |
| `MC…` | constants of the runs | |
| `BinarySearchProofs`, `BptreeProofs`, `BptreeCrashProofs`, `ConditionsProofs`, `ParserProofs`, `TextProofs`, `EngineProofs`, `ServerProofs` | theorems | see section 5 |

`Bptree` and `BinarySearch` extend `BptreeNode`; `BptreeCrash` extends `Bptree`
and instantiates `IndexMap`; `Grammar`, `Query` and `Engine` extend
`Conditions`, `Parser` extends `Grammar` and `Query`; `EngineHistory` extends
`Engine` and instantiates `TableStore`. `Engine` has indexes of one leaf and
calls their pages atomically; what happens in larger ones is `Bptree`'s subject.
`Server` takes a statement for one step that answers or crashes; which
statements crash is `Engine`'s subject.

Operators whose names end in `Slip` are wrong variants of the definition after
them. They are not part of any specification: each makes one of the properties
below fail, which shows that the property says something about that definition.

## 3. Runs that pass

| run | bounds | what it shows |
|---|---|---|
| `Bptree_tree` | order 3, 8 entries in any order, searches and deletions of 2 keys | see below |
| `Bptree_crash` | order 3, 6 entries of different keys, 2 kills, 1 key searched for and deleted | `KillsSpareTree`: between calls the tree is whole whatever was killed, unless a kill fell between the writes of a split; `NothingErased`: even then each durable entry is in a slot of some leaf; `MapSpec`: the file implements `IndexMap`; `CallsEnd` |
| `Parser_statements` | texts of up to 13 tokens of which 2 are optional; 2 tables that share a column | see below |
| `Text_tokens` | every text of up to 4 characters of 16 kinds; every number of an int of 12 bits | `StaysInText`, `NothingSkipped`, `WordsWhole`, `TextEnds` of `GetToken`; `IdsRoundTrip` of the conversions |
| `Engine_sessions` | 2 sessions, 1 table, 2 rows, 4 entries, 1 kill at any step, 2 clauses: a lookup and a scan | under any interleaving of INSERT, UPDATE and DELETE: `CountBehindRows` (no catalog counts rows that are not there), `EntriesHaveRows`, `ReadsInside` (only a lookup by id can read past the data), `StepsSurvive` (and only there can one of these statements be brought down) |
| `Engine_files` | 2 sessions, 1 table, 1 row; INSERT, UPDATE and CREATE INDEX while the other session may DROP TABLE or DROP DATABASE at any step | `StepsAdvance`: every step leaves its statement less to do, whatever the others have done; `StatementsReturn`: every statement ends, in a crash if need be; `TypeOK` |
| `Engine_catalog` | 1 session, 2 tables, 1 row each, 3 entries, all eleven statements (UPDATE of a column that is not there, which crashes), 1 kill at any step | `CatalogBacked`: when a statement has ended, in a crash too or in a kill before `dbInfo` was due, the catalog names only files, indexes and rows that exist |
| `EngineHistory_store` | 1 session at a time, 1 table, 2 rows, 4 entries, 4 clauses, 1 kill at any step | `StoreSpec`: the files implement `TableStore`, answers included, until a session is killed; `DeathsSpareRows`: kills lose an acknowledged row only if one falls between the append of a row and the new `dbInfo`, or if an UPDATE has written past the end of the data since |
| `Server_answers` | 2 clients with 2 statements each, 1 descriptor, reads that cut requests and answers anywhere, crashes | `InStep`, `Answered`, `ChildrenEnd` |

In `Bptree_tree` the order is the smallest one the code works for and eight
entries give a tree of height 3 in which an internal node below the root has
split, which is what it takes for nested splits, for pages that are linked
before they are written, and for holes. At every step: `NodesSorted` (every page
in the file or in memory is sorted, initialised below `size` and has a free
slot), `LeafSlotsInserted` (a leaf never holds a page number or another key's
row), `VisitsWritten` (the code only descends and climbs to pages that are in
the file), `SearchSound`. Between calls: `TreeWhole`, which is `ParentLinks`,
`Balanced`, `NoPageLost` and `NothingLost`, and `ShallowSearchComplete`: up to height 2 a
search finds every live row of its key. `ShallowSearchComplete` and the runs
with kills are checked on keys without duplicates, and need that (section 4).

In `Bptree_crash` a call takes effect at the write that makes its entry durable:
`Durable` leaves out the entry of a split whose header is not written yet, so
that a kill comes before or after an insertion and never in the middle of it.
`IndexMap` is told what the code may do: `NODE_EOF` in an answer, and, once an
internal node has split (`deep`), answers that miss rows. With six keys at order
3 the root, an internal node, splits, and the last kill may fall into that. A
kill between the writes of a split leaves a torn file, whose next step is
CREATE INDEX after DROP INDEX; what calls make of a torn file is not followed,
because it depends on how a page of zeros looks when it is taken for a node.

In `Parser_statements` the client types what it likes, and the tokens are chosen
when they are first read. After a token that no function expects nothing more is
asked for, so one such token stands for all. `OneCall`: no text is executed
twice or as two statements, although `ParseSQL` goes on after a failed call.
`SentencesCalled`: a text that follows the grammar in the comments of `parser.c`
reaches the function of the manager it is meant for, with every word in its
place. `NoRowDropped` and `PlainClausesExact` are about the filter of the executed
SELECT, UPDATE or DELETE, on every row: it is never stricter than the conditions
that were read, except for `5 <= age` and `5 >= age`, and it is the clause if
that compares columns at hand, each once, with values on the right.
`SelectsExact`: a SELECT with such a clause prints one line for each combination
of rows of its tables, found by name in tables that share names. `EveryTextEnds`.
Thirteen tokens hold every statement of the grammar with one list or clause of
two items. The bounds on what is typed are named in the module: texts end at their
semicolon, a dot stands behind the name of a table only, nicknames are in quotes,
and all six comparisons are tried in the first condition of a DELETE, two of them
elsewhere. The manager may refuse any call, so that every retry is tried.

In `Text_tokens` four characters are as far as `GetToken` looks ahead and one
more. `lastSql` may come to stand one position behind the terminator, after a
string without its closing quote; the buffer is cleared before a statement is
read into it, so that is a terminator too.

`StoreSpec` is checked without CREATE INDEX and DROP INDEX: with them it is
false (section 4). The mapping of a table is what SELECT * would print going by
the files; while a statement is under way it is the table before it, so each
statement takes effect when it ends. After a kill the mapping is frozen: what
then holds is `DeathsSpareRows`. A killed UPDATE or DELETE may have touched some
of its rows, so those no longer count as acknowledged. Its `AllCounted` leaves
out one thing that kills lead to later (section 4): an entry of a killed INSERT
that leads an UPDATE past the end of the data. One of the four clauses asks for
id 0, so that the run goes there.

`TableStore` is what a client can count on, and that is not quite what it would
expect. A search may answer `NODE_EOF` behind its rows (section 4); for a lookup
by id in `id.index` that is row -1, which `DataSeek` reads as row 0. So `Printed`
lets a SELECT print the first row a table ever had once more, if it passes the
clause, and also when it has been deleted; and an UPDATE may set it although it is
deleted. `StoreSpec` says that this is all.

In `Engine_sessions` a SELECT is left out: it takes the steps of an UPDATE whose
rows do not pass.

The other bounds: two sessions are what a race takes, and all shared state is
per table, so one table is enough where tables are not created; in
`Engine_catalog` two are needed since DROP TABLE shifts the list. One or two
rows suffice for an id given out twice and for a count behind the rows.
`MaxEntries` bounds the entries of `id.index`, which grow by an INSERT that is
killed before its row is written, without a row; twice the rows are enough for an id to have two
entries. `MaxDeaths` is one: the bound on kills is on their number, they may come
at any step. With one descriptor the parent's limit is reached by the second
client.

**What `Engine` simplifies.** An index has one page, so a search, a deletion and
the write of a leaf are one step each. `rm -r` and `CreateBptree` are one step
each. What `fread` leaves in a buffer at the end of a file is any row with
columns out of `Values` and 0, or the session crashes in `strcpy`. A file whose
name is removed stays with the sessions that have it open (`stray`): what they
write to it is lost, and what they read from the index is still there.

**Fairness.** `CrashSpec` says that a call that has begun runs on, those of
`Parser` and `Text` that the process goes on with its statement, `FairSpec` of
`Engine` that a process runs its statement on, that of `Server` that a process
runs on and that what was written arrives: there are no locks and no
waiting between processes in this code, so each of them can always take its next
step and the operating system lets it. Nothing is assumed of users: they need
not type, quit or connect, and no fairness is assumed of kills or of the parent
when it forks without a connection.

## 4. Disagreements with the documentation

Three runs end in a counterexample; each checks one property that restates what
the README or a comment of the source promises.

- **`Bptree_split`, `SearchComplete`**: after an internal node has split, a
  search misses an entry that is in its leaf. The split drops `key[mid - 1]`,
  which divides the halves, and passes `key[mid]` up (`bptree.c:193`). Six
  entries do it at order 3; at the real order 452 it takes a table of some
  100 000 rows. The shape of the tree stays right (`ParentLinks`, `Balanced`,
  `NothingLost` hold), only the separator is wrong.
- **`Bptree_duplicates`, `NoPageLost`**: when a page splits whose separator is
  already in the parent, the slot behind the equal separator belongs to another
  child and is overwritten (`bptree.c:160`). That page and its entries, those of
  other keys too, hang on nothing. At the real order it takes a leaf full of one
  key and some 226 smaller ones: CREATE INDEX on a column with few values does it.
- **`EngineHistory_lostrows`, `AckedRowsFound`**: two sessions insert into one
  table, both were answered, and one row is not found any more: both gave out
  the same id, and the later `dbInfo` does not count the other row.

Other behaviour the models have, which no run checks. A property that forbids it
is refuted by TLC at once; the properties above are stated so that they hold in
spite of it, and where that takes an exception the property names it.

- A search may answer `NODE_EOF`: its loop starts one slot above the last entry
  that can match, and that slot may never have been written (`bptree.c:299`). A
  fresh page has key 0 and row -1 there if it is zeroed memory, and the manager
  reads row -1 as row 0: `SELECT … WHERE id = 0` prints the first row twice, or
  after it was deleted, and an UPDATE by that id writes it. `IndexMap` and
  `TableStore` allow it (`NODE_EOF` in an answer, `Printed`).
- Of two entries with one key that a leaf split separates only one is found or
  deleted, at height 2 already.
- A comparison with its value on the left keeps other rows than it says: the
  direction is turned, and the equality is swapped (`manager.c:775`): `5 <= age`
  is stored as `age > 5`, `5 < age` as `age >= 5`. Of two conditions on one column
  the last one counts (`manager.c:822`), and a condition on a column that is not
  selected is forgotten (`manager.c:769`). `PlainClausesExact` is what remains.
- At a token it does not expect `GetExpr` returns what it has, and the statement
  is executed with that: `DELETE … WHERE age = -5` stops at the minus sign with no
  condition at all and deletes every row (`parser.c:466`).
- A list of types or values that breaks off behind a comma kills the child:
  `Prepend` reads a NULL (`parser_node.c:63`).
- A number that starts with a dot is a FLOAT only if nothing precedes it since
  the last token, not even a space: the code looks at `lastSql[0]`
  (`tokeniz.c:263`). The empty string `''` is not accepted, its length is taken
  for the end of the text.
- `IntToString` of a negative number exchanges the terminator and gives the sign
  alone; the ids it is called with are never negative.
- The key of every indexed column of a new row goes into `id.index`
  (`manager.c:425`), none into the column's own index; UPDATE changes no index.
  After CREATE INDEX a SELECT by that column and a scan answer different rows.
- CREATE INDEX on `id` after DROP INDEX indexes deleted rows again.
- An INSERT killed after its index entry and before its row (`manager.c:427`)
  leaves an entry past the end of the data. An UPDATE that looks up this id reads
  a row there that `fread` has not filled (`manager.c:1123`); if what the memory
  holds passes the clause, it writes a row that `dataNum` does not count. The next
  INSERT is answered, but its row is appended behind that one, while its entry
  names the one before: what it stored is not found.
- The same read without any kill: a lookup by id finds the entry of an INSERT that
  another session has not finished. `DataSeek` copies what its buffer held, from an
  earlier row or without an end, and the session may crash (`manager.c:464`).
- A statement whose files another session removes crashes at the next file it
  opens, or writes to a file without a name and is answered all the same.
- CREATE TABLE looks into the catalog of its own session and truncates the files
  of a table another session has created since (`manager.c:244`).
- DROP TABLE of an unknown name drops the last table of the catalog
  (`manager.c:1504`); DROP TABLE does not lower `tableNum`.
- UPDATE of a column that does not exist or has another type kills the child.
- A column name that a table has twice is refused in a SELECT as if two tables had
  it, for `*` too (`manager.c:711`).
- The parent never closes `connfd`: at its limit `accept` fails at once, it forks
  a child all the same, and clients that connect are never served
  (`xpfBase.c:54`). `Answered` exempts them.
- A client whose read cuts `.end` in two, or whose buffer hides it, waits for
  ever; one that reads a value ending in `.end` goes on too early. `Answered` and
  `InStep` exempt exactly these, by the history variable `harm`.

## 5. Proofs

| theorem | statement |
|---|---|
| `BinarySearchProofs!Invariant`, `ReadsStayInside`, `LoopCorrect` | for every order, page and key the loop of `GetIndex` reads only slots below `size` and ends on the first slot with a greater key |
| `BptreeProofs!Invariance` | the inductive invariant `IInv` |
| `BptreeProofs!TypeCorrect`, `NodesStaySorted`, `LeavesHoldEntries`, `SearchIsSound` | `TypeOK`, `NodesSorted`, `LeafSlotsInserted` and `SearchSound` are invariants for every order from 3 on, every set of entries, duplicate keys included, and every set of keys |
| `BptreeProofs!InsideFile` | `VisitsWritten`: descents and climbs stay in the file, for the same |
| `BptreeCrashProofs!CrashInvariance`, `ErasesNone` | the inductive invariant `CInv`; `NothingErased` for the same and any number of kills |
| `BptreeCrashProofs!ShallowShape`, `FileIsMap` | the invariant `SInv`; `MapSpec`: the file implements `IndexMap`, for every order, any number of kills and entries with one row for each key |
| `BptreeCrashProofs!CallsLeaveTree`, `KillsLeaveTree`, `LowSearchComplete` | `TreeWhole` for trees of any height, `KillsSpareTree` for these and any number of kills, `ShallowSearchComplete`; entries with one row for each key |
| `ConditionsProofs!FilterNoStricter`, `FilterExact` | what `CheckConditionList` makes of a clause of any length: rows that meet it pass, and only those if it is plain |
| `ParserProofs!Invariance`, `InvarianceBuilt` | the inductive invariant of `ParseSQL`, in two parts: `IInv` and `Built` |
| `ParserProofs!CalledOnce`, `TypeCorrect`, `RowsKept`, `PlainExact` | `OneCall`, `TypeOK`, `NoRowDropped` and `PlainClausesExact` for every catalog, all names and values, and texts of every length |
| `ParserProofs!PlainSelectsExact` | `SelectsExact` for the same, any number of tables and whatever rows they have |
| `TextProofs!Invariance`, `InsideText`, `EachCharacterOnce`, `WholeWords` | the invariant of `GetToken`; `StaysInText`, `NothingSkipped` and `WordsWhole` for texts of every length |
| `TextProofs!IdsComeBack` | `IdsRoundTrip`, for ints of every width |
| `EngineProofs!Invariance`, `CountsHaveRows` | the inductive invariant of the statements on rows; `CountBehindRows` for any number of sessions, tables, rows and kills |
| `EngineProofs!ScansReadInside`, `SessionsSurvive` | `ReadsInside` and the action property `StepsSurvive`, for these, kills included: an INSERT, a scan and what a scan leads to are never brought down; a lookup by id may be |
| `EngineProofs!EntriesNameRows` | `EntriesHaveRows`, until a session is killed |
| `EngineProofs!AllInvariance`, `TypeCorrect`, `StatementsAdvance` | the inductive invariant `Typed` of all eleven statements; `TypeOK` and the action property `StepsAdvance` for any number of sessions, tables, rows and kills, whatever files are removed at whatever step |
| `EngineProofs!AloneCatalogBacked` | `CatalogBacked`: all eleven statements, one session, any number of tables, rows and kills |
| `EngineProofs!AloneDeathsSpareRows` | `DeathsSpareRows`: one session, any number of tables, rows and kills, all statements but DROP TABLE and DROP INDEX |
| `ServerProofs!Invariance`, `TypeCorrect`, `StaysInStep` | the inductive invariant; `TypeOK` and `InStep` for any number of clients, statements and descriptors |

**Assumptions.** In `BptreeNode`, `Bptree` and `BinarySearch`: an order of at
least 3, integer keys and rows, `Uninit`, `Hole` and `Trashed` distinct from
data, and for `BinarySearch` that its pages are sorted and initialised, which
`NodesStaySorted` shows of the pages the tree calls it on. In `Parser` and
`Query`: values are integers, a catalog gives each table a list of columns, a
table has a sequence of rows with an integer in each of them, and
`None` stands for neither a value, a column nor a table. In `Engine`:
`FieldList` lists the columns with `id` first, columns hold integers, there are
finitely many tables, `Junk`, the name in a table that `fread` did not fill, is
none of theirs, and `Absent`, `Torn` and `None`, which stand for a file
that is not there, one that is torn and a catalog not read yet, are neither the
contents of a file nor a catalog; in `EngineHistory`, `Absent` is not what a
SELECT shows of a table. In `Server` and `Text`: the bounds are
numbers. TLC evaluates all of them in the runs.

Five theorems of `EngineProofs` (`Invariance` to `EntriesNameRows` above) have
the hypothesis `Rows`: the sessions use the statements that work on rows (USE,
INSERT, SELECT, UPDATE, DELETE) and UPDATE sets a column that exists. That is the
instance of `Engine_sessions` with any number of everything; with statements on
the catalog `CountBehindRows` is false (section 4: CREATE TABLE from an old
catalog empties the data others count), and so is `StepsSurvive`, because files that are
removed do bring others down (`Engine_files` has that). What `SessionsSurvive`
adds to the hypothesis is that nothing else does but one read, where `DataSeek`
passes the end of the data: any other step finds its file, whatever the other
sessions have done and whoever was killed. `EntriesNameRows` also takes all tables
to be there from the start, and speaks of the time before a kill: a killed INSERT leaves an
entry whose row never comes.

**The tree.** `NodesSorted` and `LeafSlotsInserted` are not
inductive: an insertion climbs to the page `left->parent` names, and if that
were a leaf, a page number would go into a row slot; if it were missing, the
climb would have no node at all. So `IInv` also says that

- every page in the file is good (typed, sorted, initialised, not full, leaf
  slots from `inserted`), carries its own number, was allocated, and names as its
  parent `NODE_EOF` or an internal page that is in the file (`FileOK`);
- every frame on the stack has a left half whose old copy is in the file and a
  right half whose page is allocated, not yet in the file and in no other frame;
  the parents of both are settled in that sense or are the right half of an
  inner frame, which returns first (`StackOK`, `Hangs`).

`FileOK` takes a set of pages that are about to be written, because within
`Return` the update-parent loop points children at `right->self` before that page
is flushed. `BptreeProofs` begins with lemmas about page operations: `GetIndex`
is defined on a sorted page, inserting keeps it sorted and initialised, both
halves of a full page are good and not full, and a leaf's entries stay pairs.
Then it has one lemma per action.

Where calls go (`VisitsWritten`) needs a second layer, `LInv`: an internal page
points only at pages that are in the file or are the right half of a frame
(`Linked`), and the root is in the file unless the file is empty. What a split
leaves unwritten is therefore named by the stack; a call begins with an empty
stack, so all it can be led to is in the file.

That a search gives no wrong rows needs no more than this. That it gives all of
them is false after an internal split; up to there it is part of `FileIsMap` and
`LowSearchComplete`, below.

**Kills.** `NothingErased` looks at single moments of a call, so `CInv` has to say
where every entry is at each of them. A file is in one of three states: torn,
where all that is known is the property itself; without a root, where nothing
was durable (`Rootless`); or what the calls have left (`Rooted`: `IInv`, `LInv`
and three more parts).

- `AllHeld`: a leaf of the file has each inserted entry below its size, the
  entry of a split under way aside.
- `Frames`: the outermost frame, and no other, has the halves of a leaf. The two
  of them hold the entries of that leaf and the new one; the left half still has
  all of them in its slots, if only past its size (`Carried`). So whichever of
  the two writes of `Return` a kill comes after, no entry is without a slot.
- `Headers`: which header the next process will find. Until the first write of
  a split it opens the file as it was before the call, page count included, so
  the kill of a climb leads back to a whole `Rooted` (`Reborn`).

Splits of internal nodes and the update-parent loop do not touch leaves
(`LeavesSpared`, `AdoptKeeps`).

**The map.** `FileIsMap` is the refinement that `Bptree_crash` checks, step by
step: the write that makes an entry durable is `Insert`, the step at a leaf is
`Search` or `Delete`, the first split of an internal node `Deepen`, and all
others, kills among them, change nothing a user could see. The hypothesis
`UniqueKeys` (one row for each key) is what the entries of that run are like;
without it a search misses rows whose key is on both sides of a separator. What
makes the answers right is `SInv`: as long as no internal node has split,

- the file is one leaf, or one root and the leaves its slots point at, no page
  in two slots (`Shape`), so a descent ends at its first or second page;
- below its size a leaf only has keys of its gap between two separators, and the
  one slot past it that a search looks at has a key of a later gap or none
  (`Within`): a search that goes one slot too far finds no row there;
- a key is there once, and marked exactly if its entry is not live (`Exact`);
- in the middle of a split this holds of the file as it was, without the new
  entry, and then of the file as `Return` is about to make it (`Shallow`), so
  that a kill before the first write loses the new entry and nothing else.

The two lemmas that carry it are `Located` (a key is in no leaf but the one of
its gap) and `PartedShape` (a leaf split in two under a root that has taken the
first key of the upper half, an old root or a new one). The invariant was
checked with TLC at orders 3 and 4 before it was proved.

**Trees of any height.** `TreeWhole` speaks of levels, of the pages a page names
and of the one slot of each entry. The second half of `BptreeProofs` is about
trees as such, with two ghosts.

- `rank` gives each page its height above the leaves. `Tree`: the pages are
  numbered from 1 without a hole, every page but the root is in exactly one slot
  of one page, which is one rank higher and which it names as its parent.
- `route` gives each key the page of each rank a descent for it comes to.
  `Routed`: each step is the one `GetIndex` takes, and whatever keys a page has
  that is come to, these keys come to it too. That is as much as the code
  guarantees, and it is why it keeps a tree although it loses rows: the split of
  an internal node sends up `key[mid]` and not the key that divides the halves,
  so the first child of the upper half ends up on no key's way. A call never
  comes to such a page, so no split ever starts there, and every page a call
  climbs to is on the way of its key. `RouteWith` is the new route after a split.

`SplitWhole` and `SplitStored` say that the split of a page with its parent in
hand leaves a tree with these routes and loses no entry; `EnterTree` says so of
a new entry in a leaf, and `AddRoot` of a stem put over the root, which makes
`NewRoot` the split of an ordinary page. In the program a split is not one step:
the halves are on the stack, the file has the old pages, and the children of an
upper half still name the old parent. `Tall` therefore says which tree the call
is about to make: while splits climb, the tree before the topmost split, and its
halves, which no parent has a slot for yet (`ClimbAt`, `Cut`); while they are written
down, the tree that will be there when the stack is empty (`UnwindAt`); `Shows`
is how file and stack make up that tree. The file as its header describes it
stays a tree too until the first write (`Planted`), and a kill leads back to
that. From a tree with ranks the levels follow by induction (`LevelIs`).

The hypothesis is again `UniqueKeys`: with equal separators on a page `TreeWhole`
is false (`Bptree_duplicates` in section 4), and `Strict`, that a page has no key
twice, is where the argument needs it. What a search finds up to height 2 rests on `LeafReached`: with at most one internal node every
leaf is on the way of each of its keys.

**One call per text.** After a failed call of the manager `ParseSQL` goes
on with the functions that are left, so `OneCall` rests on none of them taking a
text another has taken. The first two tokens decide it (`OneBeginning`: the
words of the twelve functions differ), and `IInv` ties the state to them: a
function behind its first two slots has found its words at the start of the text
(`Passed`), and if the manager was called, an earlier function had found its own
there (`Called`). A text only grows, so both stay true; a second call would make
two functions begin the same text.

**Filters.** `Filter` and `Among` are recursive functions over a clause. A proof
about them for every length takes the set of lengths for which the fact holds
and `SetInduction`; that the functions exist at all is `Recursion`. What is
stored for a column is then the `Comparison` of some condition on it, and
turning `<` and `>` round only lets more rows through (`MirroredWeakens`). To
say this of what a client typed, the parser has to have built conditions with
one operand on each side: `Built` says so of the tree and of the condition that
is being read, state by state of `GetExpr` (`Partial`). It holds because a
function behind its words reads tokens nobody has read before (`Ahead`): a text
that is read again is the same up to two tokens, and those are the words of the
statement. That no name is taken for a number is part of the types. `Handed`
says that an UPDATE or DELETE names a table first, and `ColumnsKnown` that the
columns a SELECT filters by are columns of that table.

**The lines of a SELECT.** `SelectsExact` compares numbers of lines, so the proof
gives each line its combination of rows: `Enumerates(p, n, A)` says that `p`
gives the elements of `A` the numbers from 1 to `n`. What a loop gathers enumerates the
places that pass (`AmongPlaces`), sequences one behind the other their places
(`FlattenPlaces`), and `CartesianProduct` the choices of one row per table, by
induction over the tables (`ProductPlaces`); put together, the lines enumerate
the combinations whose rows pass the filters (`JoinedPlaces`). Three facts of the
program make these the ones that were asked for: a condition, whose column one
table only has, reaches the filter of that table and of no other (`FilterSays`); each
table is gone through once even if it is named twice (`SelectTableProperties`);
and each printed column finds its table (`ColumnsKnown`).

**Tokens.** `IInv` of `TextProofs` says that up to where the text has been read
every character is a space, a quote or in one token, that tokens follow each
other, and that each has the shape its kind allows. Only a string can carry
`lastSql` behind the terminator, by one position.

**Conversions.** `IdsComeBack` holds for ints of any width, one more than
`INT_MAX` being half the wrap. `IntToString` divides by ten until nothing is
left, and what was left before a digit was found (`z` of `Divided`) is exactly what
`StringToInt` holds once it has read that digit (`ComesBack`): the string is the
digits turned round. So no product on the way exceeds the number itself and
none wraps, and no power of ten is needed. The rest is that the exchanges do turn
the digits round (`TurnedRound`) and that `strlen` finds the terminator behind them
(`Spells`); both count from zero, and there is no sign to spoil them.

**Rows and catalogs.** A row is appended before it is counted, and data only
grows, so a catalog, however old, counts rows that are there (`Sound`); the
whole of `CountBehindRows` is that no session can write a catalog for which that
is not so. For an entry to name a row one has to know where the row of an INSERT
will land: its number is the `dataNum` of the session's own catalog, which may
be old but does not exceed the rows, so that it is below their number once the row
is appended. So the numbers of a table
are those of its rows and those INSERTs under way carry (`Numbers`), and an entry
in the index or in a leaf a session holds in memory has one of these as both its
key and its row (`Entries`); a DELETE that writes an old leaf back therefore
brings back nothing else. After a kill an entry may have any number, but key and row
are still the same.

**Reads past the end.** A scan asks for keys below the `dataNum` it knows, an entry
has its key for its row (`Entries`), and a count is never ahead of the rows: so
the row is there, and if the search answers `NODE_EOF`, that is row 0 of a table
with an entry. The last is where kills come in: an entry may be all there is of a
killed INSERT, but then no catalog counts a row, and a scan asks for nothing
(`Told`). A lookup asks for a number from its clause and may be led to such an entry,
or to that of an INSERT under way; this is what `Early` exempts. Everything else a
statement opens is there, since with `Rows` no file is removed.

**All eleven statements.** When files come and go, nothing a catalog says can be
relied on, and no file a statement has opened or tested need be there at its next
step. `Typed` is what remains: a session that has an index open has it under its
name or as its own stray file (`Storing`, `Looking`), and what a step reads, be it
the header of an index that was emptied or a row past the end, is of the right
type; where there is no file, the step crashes. That is enough for `TypeOK`, and
for the measure of `StepsAdvance`, whose one subtle case is that the keys and rows
still to do are in the locals of the statement, where no other session gets at them.

For a session alone `CatalogBacked` takes more than itself (`Orderly`): without a
directory there are no files; no table is in a catalog twice, or DROP TABLE would
remove the files of one that stays listed; what is listed is in the files, rows
as many as counted; and while `dbInfo` is due, from the first file that DROP TABLE
removes on, only what will be written need be right: the session's own copy, without
the table that is going. A kill at that point leaves a `dbInfo` that lists
what is gone, hence `"flush"` in the property. `Slot` takes the first table of a
name, so the junk tables behind a `tableNum` that DROP TABLE has not lowered are
never looked up by CREATE INDEX or INSERT.

**What kills cost.** `AloneDeathsSpareRows` says that a row of an answered INSERT
is found after any kills, if none fell between the append of a row and the new
`dbInfo` and all rows are counted. `AckedRowsFound` says nothing of the middle of
a statement, and of the files only what SELECT * makes of them; `Kept` is what a
session alone relies on at every step.

- `Safe`: a row that counts as stored is `Placed`: at some number below the count
  of the catalog that is about to be the file's, with an entry of that number
  for key and row in id.index. Two exceptions: the UPDATE or DELETE under way
  `Touches` it, or the table has more rows than are counted, where the property
  promises nothing either, and then it stays so as long as the table exists.
- `Current`: the page and the row a statement has read are still what is in the
  file, so that a DELETE writes back no old leaf, and an UPDATE replaces a row that
  met its clause.
- `Stores`: the number an INSERT gives its row is the count, and its entry is in
  the index before the row is appended; the row itself is `Placed` before
  `dbInfo` is written. That the number is the count is also why an id that a
  killed INSERT used may be given out again: the row lands where both entries say.
- `Listed`: a table in the catalog has its data, as many rows as counted and an
  index on id.

`ShownFinds` then leads from a `Placed` row to the answer of a SELECT: the number
is among the keys it looks up, the search finds the entry, and the entry leads to
the row. `AloneTidied`, which `AloneCatalogBacked` rests on too, gives the shape of
the catalogs. `NothingDropped` leaves out DROP TABLE and DROP INDEX: the first
drops the last table of the catalog when the name is unknown, the second takes
the index on id away, and rows go with either, which no history excuses.

**Streams.** `IInv` of `ServerProofs` lists, for a connection with no harm done
to it, what the two streams can hold for each pair of positions of client and
child: at most one request or one answer is under way.

**Only model-checked:** that the files of the manager implement `TableStore`, and
`SentencesCalled`, which compares a call with the grammar of a whole text.
Liveness and ENABLED are out of the prover's reach.

## 6. Not modelled

- SHOW, DESCRIBE-like output and all wording: no state changes. ORDER BY is
  parsed and checked but the code sorts nothing.
- A torn index file: what calls read from pages of zeros and from pages that
  are counted twice.
- How `Query` meets `Engine`: `Engine` reads the rows of one table with all its
  columns, `Query` starts from rows that were read.
- FLOAT and STRING columns: compared the same way as integers after `atof` or by
  `strcmp`. Sizes of columns, statements and names.
- The lists of `utils.c` are sequences here. Of the calls that take something out
  of a list the program uses one, `ListEraseData` in DROP TABLE; `ListMerge`,
  `ListPrepend` and `StringCompareLength` are never called. An int that overflows
  wraps here, as it does in the build; no property reaches that.
- A failing `fork` or `mkdir`, a full disk, several databases.
- `src/test` (an older copy and first drafts), `src/doc`, `src/src/school`,
  `debuger.c`.

## 7. Plan

Done, in this order: `BptreeNode`, `BinarySearch`, `Bptree` with `IndexMap`,
`Conditions`, `Engine`, `TableStore` with `EngineHistory`, `Server`; proofs of
`BinarySearch` and `Bptree`; `BptreeCrash`; `Grammar`, `Query` and `Parser`;
`Text`; proof of `OneCall`; proofs of `Server`, `Text`, the filters, `Engine`
on rows, what the parser builds, what kills spare in the tree, the index file as a
map, `Engine` with all eleven statements, what kills cost a client, the tree of any
height, the conversions, and the lines of a SELECT.

Next, to extend the model: lost updates (a second column to set in
`EngineHistory`, two sessions), and the statements that crash a child in
`Parser` and `Engine` as those of `Server`.

Next, to prove: `SentencesCalled`, a run of each function on its own form of
sentence; `DeathsSpareRows` with DROP TABLE of a table that exists.
