------------------------------ MODULE IndexMap ------------------------------
(***************************************************************************)
(* What the database can expect of an index file: a set of (key, row)      *)
(* entries with the calls of src/bptree.h.  manager.c inserts an entry per *)
(* row of the table, looks keys up to find rows and deletes by key.        *)
(*                                                                         *)
(* A call on a key finds its live rows, until the tree has grown so deep   *)
(* that an internal node was split.  From then on it may miss some of them *)
(* and find deleted ones: it may look into another leaf than the one of    *)
(* its key.  Besides rows a search may answer NoRow, which is what the one *)
(* slot too many may hold that BptreeSearch looks at.                      *)
(***************************************************************************)
EXTENDS Integers

CONSTANTS Entries,   \* the (key, row) pairs that may be inserted, once each
          Keys       \* the keys that are searched for and deleted

NoRow == -1

VARIABLES inserted,  \* every entry inserted so far
          live,      \* those not deleted since
          deep,      \* an internal node has been split
          reply      \* the answer of the last search or delete

vars == <<inserted, live, deep, reply>>

RowsOf(S, k) == {e[2] : e \in {x \in S : x[1] = k}}

NoReply == [op |-> "none", key |-> 0, rows |-> {}]

Init ==
  /\ inserted = {}
  /\ live = {}
  /\ deep = FALSE
  /\ reply = NoReply

Insert(e) ==
  /\ e \notin inserted
  /\ inserted' = inserted \cup {e}
  /\ live' = live \cup {e}
  /\ UNCHANGED <<deep, reply>>

(* What a call on a key may find. *)
Found(k) == IF deep THEN SUBSET RowsOf(inserted, k) ELSE {RowsOf(live, k)}

Search(k) ==
  /\ \E rows \in Found(k), extra \in {{}, {NoRow}} :
       reply' = [op |-> "search", key |-> k, rows |-> rows \cup extra]
  /\ UNCHANGED <<inserted, live, deep>>

Delete(k) ==
  /\ \E rows \in Found(k) : reply' = [op |-> "delete", key |-> k, rows |-> rows]
  /\ live' = {e \in live : e[1] # k}
  /\ UNCHANGED <<inserted, deep>>

Deepen == deep' = TRUE /\ UNCHANGED <<inserted, live, reply>>

(* CREATE INDEX makes the file anew. *)
Create ==
  /\ inserted' = {}
  /\ live' = {}
  /\ deep' = FALSE
  /\ reply' = NoReply

Next ==
  \/ \E e \in Entries : Insert(e)
  \/ \E k \in Keys : Search(k) \/ Delete(k)
  \/ Deepen \/ Create

Spec == Init /\ [][Next]_vars

=============================================================================
