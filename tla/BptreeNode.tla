----------------------------- MODULE BptreeNode -----------------------------
(***************************************************************************)
(* One page of the B+tree index file (src/bptree.c, struct BptreeNode) and *)
(* the array operations the tree code performs on the copy it has in       *)
(* memory.  Arrays are functions on C indices, so a slot keeps its number. *)
(*                                                                         *)
(* A slot of key[] that malloc left alone holds Uninit: reading it yields  *)
(* any integer, so who compares it must allow both outcomes.  dat[] and    *)
(* del[] are initialised by NewBptreeNode, except dat[M]; a node that      *)
(* grows writes that one before anything reads it.                         *)
(***************************************************************************)
EXTENDS Integers

CONSTANTS M,       \* BPTREE_M, the order of the tree
          Uninit   \* content of a key slot nobody wrote

ASSUME OrderAssumption  == M \in Nat /\ M >= 3
ASSUME UninitAssumption == Uninit \notin Int

NODE_EOF == -1

BptreeNode ==
  [self   : Nat,
   parent : Int,
   isLeaf : BOOLEAN,
   size   : 0..M,
   key    : [0..M-1 -> Int \cup {Uninit}],
   dat    : [0..M -> Int],
   del    : [0..M-1 -> BOOLEAN]]

NewBptreeNode(self) ==
  [self   |-> self,
   parent |-> NODE_EOF,
   isLeaf |-> FALSE,
   size   |-> 0,
   key    |-> [i \in 0..M-1 |-> Uninit],
   dat    |-> [i \in 0..M |-> NODE_EOF],
   del    |-> [i \in 0..M-1 |-> FALSE]]

(* The root of a tree with one entry, and the root over two pages. *)
FirstRoot(self, key, data) ==
  [NewBptreeNode(self) EXCEPT !.isLeaf = TRUE,
                              !.size   = 1,
                              !.key[0] = key,
                              !.dat[0] = data]

RootOver(self, key, left, right) ==
  [NewBptreeNode(self) EXCEPT !.size   = 1,
                              !.key[0] = key,
                              !.dat[0] = left,
                              !.dat[1] = right]

(* Slip: the first key not smaller, instead of the first greater one. *)
IsGetIndexSlip(i, node, key) ==
  /\ i \in 0..node.size
  /\ \A j \in 0..i-1 : node.key[j] < key
  /\ i < node.size => node.key[i] >= key

(***************************************************************************)
(* "The index that node->key[index] greater than key firstly", or size.    *)
(* BinarySearch.tla has the loop that computes it.                         *)
(***************************************************************************)
IsGetIndex(i, node, key) ==
  /\ i \in 0..node.size
  /\ \A j \in 0..i-1 : node.key[j] <= key
  /\ i < node.size => node.key[i] > key

GetIndex(node, key) == CHOOSE i \in 0..node.size : IsGetIndex(i, node, key)

(* Every slot below size has been written. *)
Initialised(node) == \A i \in 0..node.size-1 : node.key[i] \in Int

(* The slots below size are sorted; duplicates are allowed. *)
Sorted(node) ==
  \A i, j \in 0..node.size-1 : i <= j => node.key[i] <= node.key[j]

-----------------------------------------------------------------------------
(* Slots index..size-1 of an array move up by one and x fills the gap. *)
Shift(array, size, index, x) ==
  [i \in DOMAIN array |->
     IF i < index \/ i > size THEN array[i]
     ELSE IF i = index THEN x ELSE array[i - 1]]

(* Slips: the entry goes to the end; the data stays where it was. *)
InsertEntryAtEndSlip(node, key, data) ==
  [node EXCEPT !.key[node.size] = key, !.dat[node.size] = data, !.size = @ + 1]

InsertEntryKeyOnlySlip(node, key, data) ==
  LET index == GetIndex(node, key)
  IN  [node EXCEPT !.key  = Shift(@, node.size, index, key),
                   !.dat  = [@ EXCEPT ![node.size] = data],
                   !.size = @ + 1]

(* A leaf with the entry (key, data) in its place. *)
InsertEntry(node, key, data) ==
  LET index == GetIndex(node, key)
  IN  [node EXCEPT !.key  = Shift(@, node.size, index, key),
                   !.dat  = Shift(@, node.size, index, data),
                   !.del  = Shift(@, node.size, index, FALSE),
                   !.size = @ + 1]

(***************************************************************************)
(* An internal node with the separator key in its place, the pages left    *)
(* and right on its two sides.                                             *)
(***************************************************************************)
InsertChild(node, key, left, right) ==
  LET index == GetIndex(node, key)
  IN  [node EXCEPT !.key  = Shift(@, node.size, index, key),
                   !.dat  = [Shift(@, node.size + 1, index, left)
                               EXCEPT ![index + 1] = right],
                   !.del  = Shift(@, node.size, index, FALSE),
                   !.size = @ + 1]

(* The page that takes slots mid.. of a full node. *)
Mid(node) == (node.size + 1) \div 2

(* Slip: the data of the upper half is not copied. *)
UpperHalfSlip(node, self) ==
  LET mid == Mid(node)
      n   == node.size - mid
  IN  [NewBptreeNode(self) EXCEPT
         !.isLeaf = node.isLeaf,
         !.parent = node.parent,
         !.size   = n,
         !.key    = [i \in 0..M-1 |-> IF i < n THEN node.key[mid + i] ELSE Uninit]]

UpperHalf(node, self) ==
  LET mid == Mid(node)
      n   == node.size - mid
  IN  [NewBptreeNode(self) EXCEPT
         !.isLeaf = node.isLeaf,
         !.parent = node.parent,
         !.size   = n,
         !.key    = [i \in 0..M-1 |-> IF i < n THEN node.key[mid + i] ELSE Uninit],
         !.dat    = [i \in 0..M |->
                       IF i < n \/ (i = n /\ ~node.isLeaf)
                       THEN node.dat[mid + i] ELSE NODE_EOF],
         !.del    = [i \in 0..M-1 |-> IF i < n THEN node.del[mid + i] ELSE FALSE]]

(* Slip: the slots that moved are cleared. *)
LowerHalfClearsSlip(node) ==
  LET kept == IF node.isLeaf THEN Mid(node) ELSE Mid(node) - 1
  IN  [node EXCEPT !.size = kept,
                   !.key = [i \in 0..M-1 |-> IF i < kept THEN @[i] ELSE Uninit]]

(***************************************************************************)
(* What stays: a leaf keeps mid entries, an internal node mid - 1 keys.    *)
(* The slots above keep their old contents.                                *)
(***************************************************************************)
LowerHalf(node) ==
  [node EXCEPT !.size = IF node.isLeaf THEN Mid(node) ELSE Mid(node) - 1]

(* The pages an internal node points at. *)
Children(node) == {node.dat[i] : i \in 0..node.size}

=============================================================================
