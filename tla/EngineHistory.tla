--------------------------- MODULE EngineHistory ----------------------------
(***************************************************************************)
(* Engine with what the clients have seen, to state what they may rely on: *)
(* the rows they were told are in, the tables before the statement under   *)
(* way, and the last answer.                                               *)
(***************************************************************************)
EXTENDS Engine

VARIABLES
  acked,   \* rows of acknowledged INSERTs that no statement has touched since
  before,  \* the tables when the current statement began
  reply    \* the last statement that was answered, a SELECT with its rows

(* What SELECT * would print, going by the catalog in the file. *)
Shown(t) ==
  IF dbInfo \notin {Absent, Torn} /\ Has(dbInfo, t) /\ Absent \notin {data[t], index[t, "id"]}
  THEN LET keys    == [i \in 1..Info(dbInfo, t).dataNum |-> i - 1]
           leaf    == IF index[t, "id"].root THEN index[t, "id"].leaf ELSE <<>>
           offsets == FlattenSeq([i \in DOMAIN keys |-> BptreeSearch(leaf, keys[i])])
           inside  == Among(offsets, {o \in ToSet(offsets) : o + 1 \in DOMAIN data[t]})
       IN  [rows  |-> [i \in DOMAIN inside |-> data[t][inside[i] + 1]],
            count |-> Info(dbInfo, t).dataNum,
            first |-> IF data[t] = <<>> THEN None ELSE data[t][1]]
  ELSE Absent

(* A table that is not there shows no rows. *)
ASSUME ShownAssumption ==
  Absent \notin [rows : Seq(Row), count : Nat, first : Row \cup {None}]

Ended(s, ops) == pc[s] \notin {"idle", "crashed"} /\ pc'[s] = "idle" /\ job[s].op \in ops

Killed(s, ops) == pc[s] # "crashed" /\ pc'[s] = "crashed" /\ job[s].op \in ops

Answered == {"create table", "insert", "select", "update", "delete"}

(* A killed UPDATE or DELETE may have touched any of its rows. *)
StillAcked(t) ==
  {row \in acked[t] :
     ~\E s \in Sessions : /\ Ended(s, {"update", "delete"}) \/ Killed(s, {"update", "delete"})
                          /\ job[s].table = t
                          /\ Passes(row, job[s].filter)}

NowAcked(t) ==
  {job[s].row : s \in {o \in Sessions : Ended(o, {"insert"}) /\ job[o].table = t}}

(***************************************************************************)
(* A statement's effect shows when it ends; until then the tables are what *)
(* they were before it.  After a kill nothing is promised any more.        *)
(***************************************************************************)
Stored == IF Quiet /\ deaths = <<>> THEN [t \in Tables |-> Shown(t)] ELSE before

HistoryInit ==
  /\ Init
  /\ acked = [t \in Tables |-> {}]
  /\ before = [t \in Tables |-> Shown(t)]
  /\ reply = None

HistoryNext ==
  /\ Next
  /\ acked' = [t \in Tables |-> IF data'[t] = Absent THEN {}
                                ELSE StillAcked(t) \cup NowAcked(t)]
  /\ before' = Stored
  /\ reply' = IF deaths = <<>> /\ \E s \in Sessions : Ended(s, Answered)
              THEN LET j == job[CHOOSE s \in Sessions : Ended(s, Answered)]
                   IN  [op |-> j.op, table |-> j.table, filter |-> j.filter,
                        rows |-> IF j.op = "insert" THEN <<j.row>> ELSE j.rows]
              ELSE reply

HistorySpec == HistoryInit /\ [][HistoryNext]_<<vars, acked, before, reply>>

-----------------------------------------------------------------------------
(***************************************************************************)
(* A client that connects now finds every acknowledged row that nobody has *)
(* updated or deleted since.                                               *)
(***************************************************************************)
AckedRowsFound ==
  Quiet => \A t \in Tables : \A row \in acked[t] :
             Shown(t) # Absent /\ row \in ToSet(Shown(t).rows)

(* What dbInfo counts are all the rows there are. *)
AllCounted ==
  \A t \in Tables : Shown(t) # Absent => Shown(t).count = Len(data[t])

(***************************************************************************)
(* A kill that does not fall between the append of a row and the new       *)
(* dbInfo costs no acknowledged row, not even when the id of the killed    *)
(* INSERT is given out again.  Only an UPDATE that is led by the entry of  *)
(* such an INSERT past the end of the data, and writes a row there, does:  *)
(* then there is a row that is not counted, and the rows of later INSERTs  *)
(* are not where their entries say.                                        *)
(***************************************************************************)
DeathsSpareRows ==
  "flush" \notin ToSet(deaths) /\ AllCounted => AckedRowsFound

-----------------------------------------------------------------------------
(***************************************************************************)
(* A client that has the database to itself sees a table store: until a    *)
(* session is killed the files and the catalog implement TableStore.       *)
(***************************************************************************)
Promised == INSTANCE TableStore WITH table <- Stored

(* Every statement has the effect and the answer of the one on the tables. *)
StoreSpec == Promised!Spec

=============================================================================
