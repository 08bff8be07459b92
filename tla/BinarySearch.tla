---------------------------- MODULE BinarySearch ----------------------------
(***************************************************************************)
(* The loop of GetIndex (src/bptree.c), one iteration per step.  The other *)
(* modules use its result, BptreeNode!GetIndex; here the loop is shown to  *)
(* compute that index on every sorted node.                                *)
(***************************************************************************)
EXTENDS BptreeNode

(***************************************************************************)
(* The callers' nodes are sorted and their slots below size are written:   *)
(* NodesSorted of Bptree.tla.                                              *)
(***************************************************************************)
Nodes == {n \in BptreeNode : Sorted(n) /\ Initialised(n)}

VARIABLES node, key,   \* the arguments
          l, r,        \* the slots still in question are l..r-1
          done         \* the loop has been left: l is the result

vars == <<node, key, l, r, done>>

Init ==
  /\ node \in Nodes
  /\ key \in Int
  /\ l = 0
  /\ r = node.size
  /\ done = FALSE

Middle == l + (r - l) \div 2

Loop ==
  /\ ~done
  /\ l < r
  /\ IF node.key[Middle] <= key
     THEN l' = Middle + 1 /\ UNCHANGED r
     ELSE r' = Middle     /\ UNCHANGED l
  /\ UNCHANGED <<node, key, done>>

Leave ==
  /\ ~done
  /\ l >= r
  /\ done' = TRUE
  /\ UNCHANGED <<node, key, l, r>>

Next == Loop \/ Leave

Spec == Init /\ [][Next]_vars

-----------------------------------------------------------------------------
(***************************************************************************)
(* The loop never reads a slot at or past size, where the key may be       *)
(* undefined.                                                              *)
(***************************************************************************)
ReadsInside == ~done /\ l < r => Middle \in 0..node.size-1

(* Everything below l is known not greater, everything from r on greater. *)
Narrowing ==
  /\ l <= r
  /\ r <= node.size
  /\ \A i \in 0..l-1 : node.key[i] <= key
  /\ \A i \in r..node.size-1 : node.key[i] > key

(* When the loop is left, l is the index the comment above GetIndex names. *)
Correct == done => IsGetIndex(l, node, key)

=============================================================================
