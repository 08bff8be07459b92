---------------------------- MODULE BptreeProofs ----------------------------
(***************************************************************************)
(* Safety of the index file, for every order M, every set of entries (with *)
(* or without duplicate keys) and every set of keys:                       *)
(*                                                                         *)
(*   - every node in the file and on the stack stays sorted, initialised   *)
(*     and not full, and every leaf slot keeps an inserted entry;          *)
(*   - so a search only ever answers with rows inserted under its key, or  *)
(*     with NODE_EOF.                                                      *)
(*                                                                         *)
(* The difficulty is that the code trusts parent pointers: a split inserts *)
(* page numbers into the page left->parent names.  Were that a leaf, page  *)
(* numbers would become rows.  The invariant therefore follows the parent  *)
(* fields of the nodes on the stack through the nested splits, where a     *)
(* parent may be a page that is not in the file yet.                       *)
(*                                                                         *)
(* The second half is about trees of pages as such, of any height, without *)
(* a state of the program: when a file is a search tree, and that the      *)
(* split of a page, an entry in a leaf and a new root leave it one.        *)
(***************************************************************************)
EXTENDS Bptree, TLAPS, WellFoundedInduction, SequenceTheorems

-----------------------------------------------------------------------------
(***************************************************************************)
(* What the array operations on a node return and preserve, for every      *)
(* order M.  What follows cites these and never looks inside.              *)
(***************************************************************************)

(* A set of numbers that is not empty has a least one. *)
LEMMA LeastElement ==
  ASSUME NEW T, T \subseteq Nat, T # {}
  PROVE  \E x \in T : \A y \in T : x <= y
<1>1. IsWellFoundedOn(OpToRel(<, Nat), Nat)
  BY NatLessThanWellFounded
<1>2. PICK x \in T : \A y \in T : ~(<<y, x>> \in OpToRel(<, Nat))
  BY <1>1, WFMin
<1>3. \A y \in T : ~(y < x)
  BY <1>2 DEF OpToRel
<1> QED
  BY <1>3

(* There is an index GetIndex can return, so it returns one. *)
LEMMA GetIndexDefined ==
  ASSUME NEW node \in BptreeNode, Initialised(node), NEW k \in Int
  PROVE  IsGetIndex(GetIndex(node, k), node, k)
<1> DEFINE T == {i \in 0..node.size : i < node.size => node.key[i] > k}
<1>1. node.size \in Nat
  BY OrderAssumption DEF BptreeNode
<1>2. node.size \in T /\ T \subseteq Nat
  BY <1>1
<1>3. PICK x \in T : \A y \in T : x <= y
  BY <1>2, LeastElement
<1>4. \A j \in 0..x-1 : node.key[j] <= k
  <2> SUFFICES ASSUME NEW j \in 0..x-1 PROVE node.key[j] <= k
    OBVIOUS
  <2>1. j \in 0..node.size-1 /\ j \notin T
    BY <1>1, <1>3
  <2>2. node.key[j] \in Int
    BY <2>1 DEF Initialised
  <2>3. ~(node.key[j] > k)
    BY <2>1, <1>1
  <2> QED
    BY <2>2, <2>3
<1>5. x \in 0..node.size /\ IsGetIndex(x, node, k)
  BY <1>3, <1>4 DEF IsGetIndex
<1> QED
  BY <1>5 DEF GetIndex

(* The fields of a node that is not full, and where GetIndex puts a key. *)
LEMMA NodeFields ==
  ASSUME NEW node \in BptreeNode
  PROVE  /\ M \in Nat /\ M >= 3
         /\ node.self \in Nat /\ node.parent \in Int /\ node.isLeaf \in BOOLEAN
         /\ node.size \in 0..M
         /\ node.key \in [0..M-1 -> Int \cup {Uninit}]
         /\ node.dat \in [0..M -> Int]
         /\ node.del \in [0..M-1 -> BOOLEAN]
  BY OrderAssumption DEF BptreeNode

(* Shift keeps the type of an array. *)
LEMMA ShiftType ==
  ASSUME NEW top \in Nat, NEW S, NEW array \in [0..top -> S],
         NEW size \in Nat, NEW index \in 0..size, NEW x \in S
  PROVE  Shift(array, size, index, x) \in [0..top -> S]
<1>1. ASSUME NEW i \in 0..top
      PROVE  (IF i < index \/ i > size THEN array[i]
              ELSE IF i = index THEN x ELSE array[i - 1]) \in S
  <2>1. CASE i < index \/ i > size \/ i = index
    BY <2>1
  <2>2. CASE i > index /\ i <= size
    <3>1. i - 1 \in 0..top
      BY <2>2
    <3>2. array[i - 1] \in S
      BY <3>1
    <3> QED
      BY <2>2, <3>2
  <2> QED
    BY <2>1, <2>2
<1> QED
  BY <1>1 DEF Shift

-----------------------------------------------------------------------------
(***************************************************************************)
(* Shifting a key into the place GetIndex names keeps an array sorted: the *)
(* part about keys that InsertEntry and InsertChild share.                 *)
(***************************************************************************)
LEMMA ShiftedKeys ==
  ASSUME NEW node \in BptreeNode, node.size < M, Initialised(node), Sorted(node),
         NEW k \in Int, NEW new \in BptreeNode, new.size = node.size + 1,
         new.key = Shift(node.key, node.size, GetIndex(node, k), k)
  PROVE  Initialised(new) /\ Sorted(new)
<1> DEFINE x == GetIndex(node, k)
<1>1. /\ x \in 0..node.size
      /\ \A j \in 0..x-1 : node.key[j] <= k
      /\ x < node.size => node.key[x] > k
  BY GetIndexDefined DEF IsGetIndex
<1> HIDE DEF x
<1>2. /\ M \in Nat /\ node.size \in 0..M-1
      /\ DOMAIN node.key = 0..M-1
      /\ \A i \in 0..node.size-1 : node.key[i] \in Int
      /\ \A i, j \in 0..node.size-1 : i <= j => node.key[i] <= node.key[j]
  BY NodeFields DEF Initialised, Sorted
<1>3. \A i \in 0..node.size :
        new.key[i] = IF i < x THEN node.key[i]
                     ELSE IF i = x THEN k ELSE node.key[i - 1]
  BY <1>1, <1>2 DEF Shift, x
<1>4. \A i \in 0..node.size : new.key[i] \in Int
  BY <1>1, <1>2, <1>3
<1>5. ASSUME NEW i \in 0..node.size, NEW j \in 0..node.size, i <= j
      PROVE  new.key[i] <= new.key[j]
  <2>1. /\ i \in Int /\ j \in Int /\ x \in Int /\ node.size \in Int
        /\ new.key[i] \in Int /\ new.key[j] \in Int
    BY <1>1, <1>2, <1>4
  <2>2. CASE j < x
    <3>1. new.key[i] = node.key[i] /\ new.key[j] = node.key[j]
      BY <2>1, <2>2, <1>3, <1>5
    <3>2. i \in 0..node.size-1 /\ j \in 0..node.size-1
      BY <2>1, <2>2, <1>1, <1>5
    <3> QED
      BY <3>1, <3>2, <1>2, <1>5
  <2>3. CASE j = x
    <3>1. new.key[j] = k
      BY <2>1, <2>3, <1>3
    <3>2. CASE i < x
      BY <3>1, <3>2, <2>1, <1>1, <1>3
    <3>3. CASE i = x
      BY <3>1, <3>3, <2>3
    <3> QED
      BY <3>2, <3>3, <2>1, <2>3, <1>5
  <2>4. CASE j > x
    <3>1. /\ new.key[j] = node.key[j - 1]
          /\ j - 1 \in 0..node.size-1 /\ x \in 0..node.size-1 /\ x <= j - 1
      BY <2>1, <2>4, <1>1, <1>3
    <3>2. node.key[x] <= node.key[j - 1] /\ node.key[x] > k
      BY <3>1, <2>1, <1>1, <1>2
    <3>3. CASE i < x
      <4>1. i \in 0..node.size-1 /\ i <= j - 1 /\ new.key[i] = node.key[i]
        BY <3>3, <2>1, <2>4, <1>1, <1>3
      <4> QED
        BY <4>1, <3>1, <1>2
    <3>4. CASE i = x
      <4>1. new.key[i] = k /\ node.key[x] \in Int /\ node.key[j - 1] \in Int
        BY <3>4, <3>1, <1>2, <1>3
      <4> QED
        BY <4>1, <3>1, <3>2
    <3>5. CASE i > x
      <4>1. i - 1 \in 0..node.size-1 /\ i - 1 <= j - 1 /\ new.key[i] = node.key[i - 1]
        BY <3>5, <2>1, <1>1, <1>3, <1>5
      <4> QED
        BY <4>1, <3>1, <1>2
    <3> QED
      BY <3>3, <3>4, <3>5, <2>1
  <2> QED
    BY <2>1, <2>2, <2>3, <2>4
<1>6. new.size - 1 = node.size
  BY <1>2
<1> QED
  BY <1>4, <1>5, <1>6 DEF Initialised, Sorted

(***************************************************************************)
(* InsertEntry gives a well-typed sorted leaf with one more entry.         *)
(***************************************************************************)
LEMMA InsertEntryNode ==
  ASSUME NEW node \in BptreeNode, node.size < M, Initialised(node), Sorted(node),
         NEW k \in Int, NEW d \in Int
  PROVE  /\ InsertEntry(node, k, d) \in BptreeNode
         /\ InsertEntry(node, k, d).size = node.size + 1
         /\ InsertEntry(node, k, d).self = node.self
         /\ InsertEntry(node, k, d).parent = node.parent
         /\ InsertEntry(node, k, d).isLeaf = node.isLeaf
         /\ Initialised(InsertEntry(node, k, d))
         /\ Sorted(InsertEntry(node, k, d))
<1> DEFINE new == InsertEntry(node, k, d)
           x   == GetIndex(node, k)
           key == Shift(node.key, node.size, x, k)
           dat == Shift(node.dat, node.size, x, d)
           del == Shift(node.del, node.size, x, FALSE)
<1>1. x \in 0..node.size
  BY GetIndexDefined DEF IsGetIndex
<1>2. new = [node EXCEPT !.key = key, !.dat = dat, !.del = del, !.size = node.size + 1]
  BY DEF InsertEntry
<1>3. /\ new.key = key /\ new.dat = dat /\ new.size = node.size + 1
      /\ new.self = node.self /\ new.parent = node.parent /\ new.isLeaf = node.isLeaf
  BY <1>2 DEF BptreeNode
<1> HIDE DEF new, x
<1>4. key \in [0..M-1 -> Int \cup {Uninit}]
  <2>1. M - 1 \in Nat /\ node.size \in Nat /\ k \in Int \cup {Uninit}
        /\ node.key \in [0..M-1 -> Int \cup {Uninit}]
    BY NodeFields
  <2> QED
    BY <2>1, <1>1, ShiftType
<1>5. dat \in [0..M -> Int]
  <2>1. M \in Nat /\ node.size \in Nat /\ node.dat \in [0..M -> Int]
    BY NodeFields
  <2> QED
    BY <2>1, <1>1, ShiftType
<1>6. del \in [0..M-1 -> BOOLEAN]
  <2>1. M - 1 \in Nat /\ node.size \in Nat /\ node.del \in [0..M-1 -> BOOLEAN]
    BY NodeFields
  <2> QED
    BY <2>1, <1>1, ShiftType
<1>7. node.size + 1 \in 0..M
  BY NodeFields
<1> HIDE DEF key, dat, del
<1>9. new \in BptreeNode
  BY <1>2, <1>4, <1>5, <1>6, <1>7 DEF BptreeNode
<1>10. new.key = Shift(node.key, node.size, GetIndex(node, k), k)
  BY <1>3 DEF key, x
<1>11. Initialised(new) /\ Sorted(new)
  BY <1>3, <1>9, <1>10, ShiftedKeys
<1> QED
  BY <1>3, <1>9, <1>11 DEF new

(* Every slot holds what it or its neighbour held, or the new entry. *)
LEMMA InsertEntrySlots ==
  ASSUME NEW node \in BptreeNode, node.size < M, Initialised(node),
         NEW k \in Int, NEW d \in Int, NEW i \in 0..M-1
  PROVE  \/ /\ InsertEntry(node, k, d).key[i] = k
            /\ InsertEntry(node, k, d).dat[i] = d
         \/ \E j \in 0..M-1 : /\ InsertEntry(node, k, d).key[i] = node.key[j]
                              /\ InsertEntry(node, k, d).dat[i] = node.dat[j]
<1> DEFINE x   == GetIndex(node, k)
           key == Shift(node.key, node.size, x, k)
           dat == Shift(node.dat, node.size, x, d)
<1>1. x \in 0..node.size
  BY GetIndexDefined DEF IsGetIndex
<1>2. InsertEntry(node, k, d).key = key /\ InsertEntry(node, k, d).dat = dat
  BY DEF InsertEntry, BptreeNode
<1> HIDE DEF x
<1>3. \/ key[i] = k /\ dat[i] = d
      \/ \E j \in 0..M-1 : key[i] = node.key[j] /\ dat[i] = node.dat[j]
  <2>1. /\ i \in 0..M /\ i \in Int /\ x \in Int /\ node.size \in Int
        /\ DOMAIN node.key = 0..M-1 /\ DOMAIN node.dat = 0..M
    BY <1>1, NodeFields
  <2>2. CASE i < x \/ i > node.size
    BY <2>1, <2>2 DEF Shift
  <2>3. CASE i = x
    BY <2>1, <2>3, <1>1 DEF Shift
  <2>4. CASE i > x /\ i <= node.size
    <3>1. i - 1 \in 0..M-1
      BY <2>1, <2>4, <1>1, NodeFields
    <3>2. key[i] = node.key[i-1] /\ dat[i] = node.dat[i-1]
      BY <2>1, <2>4 DEF Shift
    <3> QED
      BY <3>1, <3>2
  <2> QED
    BY <2>1, <2>2, <2>3, <2>4
<1> HIDE DEF key, dat
<1> QED
  BY <1>2, <1>3

(* InsertChild gives a well-typed sorted node with one more key. *)
LEMMA InsertChildNode ==
  ASSUME NEW node \in BptreeNode, node.size < M, Initialised(node), Sorted(node),
         NEW k \in Int, NEW left \in Int, NEW right \in Int,
         NEW new, new = InsertChild(node, k, left, right)
  PROVE  /\ new \in BptreeNode
         /\ new.size = node.size + 1
         /\ new.self = node.self /\ new.parent = node.parent
         /\ new.isLeaf = node.isLeaf
         /\ Initialised(new)
         /\ Sorted(new)
<1> DEFINE x   == GetIndex(node, k)
           key == Shift(node.key, node.size, x, k)
           mid == Shift(node.dat, node.size + 1, x, left)
           dat == [mid EXCEPT ![x + 1] = right]
           del == Shift(node.del, node.size, x, FALSE)
<1>1. x \in 0..node.size
  BY GetIndexDefined DEF IsGetIndex
<1>2. new = [node EXCEPT !.key = key, !.dat = dat, !.del = del, !.size = node.size + 1]
  BY DEF InsertChild
<1>3. /\ new.key = key /\ new.size = node.size + 1
      /\ new.self = node.self /\ new.parent = node.parent /\ new.isLeaf = node.isLeaf
  BY <1>2 DEF BptreeNode
<1> HIDE DEF x
<1>4. key \in [0..M-1 -> Int \cup {Uninit}]
  <2>1. M - 1 \in Nat /\ node.size \in Nat /\ k \in Int \cup {Uninit}
        /\ node.key \in [0..M-1 -> Int \cup {Uninit}]
    BY NodeFields
  <2> QED
    BY <2>1, <1>1, ShiftType
<1>5. dat \in [0..M -> Int]
  <2>1. M \in Nat /\ node.size + 1 \in Nat /\ node.dat \in [0..M -> Int]
        /\ x \in 0..(node.size + 1)
    BY <1>1, NodeFields
  <2>2. mid \in [0..M -> Int]
    BY <2>1, ShiftType
  <2> HIDE DEF mid
  <2> QED
    BY <2>2
<1>6. del \in [0..M-1 -> BOOLEAN]
  <2>1. M - 1 \in Nat /\ node.size \in Nat /\ node.del \in [0..M-1 -> BOOLEAN]
    BY NodeFields
  <2> QED
    BY <2>1, <1>1, ShiftType
<1>7. node.size + 1 \in 0..M
  BY NodeFields
<1> HIDE DEF key, dat, del
<1>8. new \in BptreeNode
  BY <1>2, <1>4, <1>5, <1>6, <1>7 DEF BptreeNode
<1>9. new.key = Shift(node.key, node.size, GetIndex(node, k), k)
  BY <1>3 DEF key, x
<1>10. Initialised(new) /\ Sorted(new)
  BY <1>3, <1>8, <1>9, ShiftedKeys
<1> QED
  BY <1>3, <1>8, <1>10

-----------------------------------------------------------------------------
(* A split leaves keys on both sides. *)
LEMMA MidBounds ==
  ASSUME NEW node \in BptreeNode, node.size = M
  PROVE  Mid(node) \in 2..M-1
  BY NodeFields, Z3 DEF Mid

(***************************************************************************)
(* The new page has at least one key, is as sorted as the full node was,   *)
(* and a slot of a new leaf is a slot of the full one or was never written.*)
(***************************************************************************)
LEMMA UpperHalfNode ==
  ASSUME NEW node \in BptreeNode, node.size = M, Initialised(node), Sorted(node),
         NEW self \in Nat, NEW new, new = UpperHalf(node, self)
  PROVE  /\ new \in BptreeNode
         /\ new.size \in 1..M-1
         /\ new.self = self /\ new.parent = node.parent
         /\ new.isLeaf = node.isLeaf
         /\ Initialised(new)
         /\ Sorted(new)
         /\ node.isLeaf => \A i \in 0..M-1 :
              \/ new.key[i] = Uninit /\ new.dat[i] = NODE_EOF
              \/ \E j \in 0..M-1 :
                   new.key[i] = node.key[j] /\ new.dat[i] = node.dat[j]
<1> DEFINE mid == Mid(node)
           n   == node.size - mid
           key == [i \in 0..M-1 |-> IF i < n THEN node.key[mid + i] ELSE Uninit]
           dat == [i \in 0..M |-> IF i < n \/ (i = n /\ ~node.isLeaf)
                                  THEN node.dat[mid + i] ELSE NODE_EOF]
           del == [i \in 0..M-1 |-> IF i < n THEN node.del[mid + i] ELSE FALSE]
<1>1. /\ mid \in 2..M-1 /\ n \in 1..M-1 /\ mid + n = M
  BY MidBounds, NodeFields
<1>2. new = [self |-> self, parent |-> node.parent, isLeaf |-> node.isLeaf,
             size |-> n, key |-> key, dat |-> dat, del |-> del]
  BY DEF UpperHalf, NewBptreeNode
<1> HIDE DEF n, mid
<1>3. key \in [0..M-1 -> Int \cup {Uninit}]
  <2>1. ASSUME NEW i \in 0..M-1, i < n PROVE node.key[mid + i] \in Int \cup {Uninit}
    <3>1. mid + i \in 0..M-1
      BY <1>1, <2>1, NodeFields
    <3> QED
      BY <3>1, NodeFields
  <2> QED
    BY <2>1
<1>4. dat \in [0..M -> Int]
  <2>1. ASSUME NEW i \in 0..M, i <= n PROVE node.dat[mid + i] \in Int
    <3>1. mid + i \in 0..M
      BY <1>1, <2>1, NodeFields
    <3> QED
      BY <3>1, NodeFields
  <2>2. n \in Int /\ M \in Int
    BY <1>1, NodeFields
  <2>3. ASSUME NEW i \in 0..M
        PROVE  (IF i < n \/ (i = n /\ ~node.isLeaf) THEN node.dat[mid + i] ELSE NODE_EOF) \in Int
    BY <2>1, <2>2 DEF NODE_EOF
  <2> QED
    BY <2>3
<1>5. del \in [0..M-1 -> BOOLEAN]
  <2>1. ASSUME NEW i \in 0..M-1, i < n PROVE node.del[mid + i] \in BOOLEAN
    <3>1. mid + i \in 0..M-1
      BY <1>1, <2>1, NodeFields
    <3> QED
      BY <3>1, NodeFields
  <2> QED
    BY <2>1
<1>6. /\ new.key = key /\ new.dat = dat /\ new.size = n /\ new.self = self
      /\ new.parent = node.parent /\ new.isLeaf = node.isLeaf
  BY <1>2
<1>7. ASSUME NEW i \in 0..M-1
      PROVE  /\ i < n => /\ mid + i \in 0..M-1
                         /\ key[i] = node.key[mid + i]
                         /\ dat[i] = node.dat[mid + i]
             /\ i >= n => key[i] = Uninit /\ (node.isLeaf => dat[i] = NODE_EOF)
  <2>1. i \in Int /\ n \in Int /\ M \in Nat /\ i \in 0..M /\ mid \in Nat
    BY <1>1, NodeFields
  <2>2. i < n => mid + i \in 0..M-1
    BY <1>1, <2>1, NodeFields
  <2>3. i < n => key[i] = node.key[mid + i] /\ dat[i] = node.dat[mid + i]
    BY <2>1
  <2>4. i >= n => key[i] = Uninit /\ (node.isLeaf => dat[i] = NODE_EOF)
    BY <2>1
  <2> QED
    BY <2>2, <2>3, <2>4
<1> HIDE DEF key, dat, del
<1>8. new \in BptreeNode
  BY <1>1, <1>2, <1>3, <1>4, <1>5, NodeFields DEF BptreeNode
<1>9. ASSUME NEW i \in 0..n-1, NEW j \in 0..n-1
      PROVE  key[i] \in Int /\ (i <= j => key[i] <= key[j])
  <2>1. /\ i \in 0..M-1 /\ i < n /\ j \in 0..M-1 /\ j < n
        /\ mid + i \in 0..node.size-1 /\ mid + j \in 0..node.size-1
        /\ i <= j => mid + i <= mid + j
    BY <1>1, NodeFields
  <2>2. key[i] = node.key[mid + i] /\ key[j] = node.key[mid + j]
    BY <2>1, <1>7
  <2> QED
    BY <2>1, <2>2 DEF Initialised, Sorted
<1>10. Initialised(new) /\ Sorted(new)
  BY <1>6, <1>9 DEF Initialised, Sorted
<1>11. ASSUME node.isLeaf, NEW i \in 0..M-1
       PROVE  \/ key[i] = Uninit /\ dat[i] = NODE_EOF
              \/ \E j \in 0..M-1 : key[i] = node.key[j] /\ dat[i] = node.dat[j]
  <2>1. i < n \/ i >= n
    BY <1>1
  <2> QED
    BY <2>1, <1>7, <1>11
<1> QED
  BY <1>1, <1>6, <1>8, <1>10, <1>11

(* What stays is sorted too, and only the size differs. *)
LEMMA LowerHalfNode ==
  ASSUME NEW node \in BptreeNode, node.size = M, Initialised(node), Sorted(node),
         NEW new, new = LowerHalf(node)
  PROVE  /\ new \in BptreeNode
         /\ new.size \in 1..M-1
         /\ new.self = node.self /\ new.parent = node.parent
         /\ new.isLeaf = node.isLeaf
         /\ Initialised(new)
         /\ Sorted(new)
         /\ new.key = node.key /\ new.dat = node.dat
<1> DEFINE n == IF node.isLeaf THEN Mid(node) ELSE Mid(node) - 1
<1>1. n \in 1..M-1 /\ n \in 0..M /\ M \in Nat
  BY MidBounds, NodeFields
<1>2. new = [node EXCEPT !.size = n]
  BY DEF LowerHalf
<1> HIDE DEF n
<1>3. new \in BptreeNode /\ new.size = n
      /\ new.self = node.self /\ new.parent = node.parent /\ new.isLeaf = node.isLeaf
      /\ new.key = node.key /\ new.dat = node.dat
  BY <1>1, <1>2 DEF BptreeNode
<1>4. \A i \in 0..n-1 : i \in 0..node.size-1
  BY <1>1
<1>5. Initialised(new) /\ Sorted(new)
  BY <1>3, <1>4 DEF Initialised, Sorted
<1> QED
  BY <1>1, <1>3, <1>5

-----------------------------------------------------------------------------
(* An internal node that takes a child points at that child, at the page   *)
(* it was split from, and where it pointed before.                         *)
LEMMA InsertChildPoints ==
  ASSUME NEW node \in BptreeNode, node.size < M, Initialised(node),
         NEW k \in Int, NEW left \in Int, NEW right \in Int,
         NEW new, new = InsertChild(node, k, left, right)
  PROVE  Children(new) \subseteq Children(node) \cup {left, right}
<1> DEFINE x == GetIndex(node, k)
           dat == [Shift(node.dat, node.size + 1, x, left) EXCEPT ![x + 1] = right]
<1>1. /\ node.size \in Nat /\ M \in Nat /\ node.dat \in [0..M -> Int]
      /\ x \in 0..node.size
  <2>1. node.size \in Nat /\ M \in Nat /\ node.dat \in [0..M -> Int]
    BY NodeFields
  <2>2. IsGetIndex(x, node, k)
    BY GetIndexDefined
  <2> QED
    BY <2>1, <2>2 DEF IsGetIndex
<1>2. new.dat = dat /\ new.size = node.size + 1
  BY DEF InsertChild, BptreeNode
<1> HIDE DEF x
<1>3. ASSUME NEW i \in 0..node.size + 1
      PROVE  dat[i] \in Children(node) \cup {left, right}
  <2>1. i \in 0..M /\ DOMAIN node.dat = 0..M
    BY <1>1
  <2>2. dat[i] = IF i = x + 1 THEN right
                 ELSE IF i < x \/ i > node.size + 1 THEN node.dat[i]
                 ELSE IF i = x THEN left ELSE node.dat[i - 1]
    BY <1>1, <2>1 DEF Shift
  <2>3. CASE i < x
    BY <1>1, <2>2, <2>3 DEF Children
  <2>4. CASE i = x \/ i = x + 1
    BY <1>1, <2>2, <2>4
  <2>5. CASE i > x + 1
    <3>1. i - 1 \in 0..node.size /\ dat[i] = node.dat[i - 1]
      BY <1>1, <2>2, <2>5
    <3> QED
      BY <3>1 DEF Children
  <2> QED
    BY <1>1, <2>3, <2>4, <2>5
<1> HIDE DEF dat
<1> QED
  BY <1>2, <1>3 DEF Children

(* Each half of a full internal node points where the node pointed. *)
LEMMA HalvesPoint ==
  ASSUME NEW node \in BptreeNode, node.size = M, ~node.isLeaf, NEW self \in Nat
  PROVE  /\ Children(LowerHalf(node)) \subseteq Children(node)
         /\ Children(UpperHalf(node, self)) \subseteq Children(node)
<1> DEFINE mid == Mid(node)
           n   == node.size - mid
           low == LowerHalf(node)
           upp == UpperHalf(node, self)
<1>1. mid \in 2..M-1 /\ M \in Nat /\ n \in 0..M /\ mid + n = M
  <2>1. mid \in 2..M-1 /\ M \in Nat /\ node.size = M
    BY MidBounds, NodeFields
  <2> HIDE DEF mid
  <2> QED
    BY <2>1
<1>2. low.dat = node.dat /\ low.size = mid - 1
  BY DEF LowerHalf, BptreeNode
<1>3. /\ upp.size = n
      /\ upp.dat = [i \in 0..M |-> IF i < n \/ (i = n /\ ~node.isLeaf)
                                   THEN node.dat[mid + i] ELSE NODE_EOF]
  BY DEF UpperHalf, NewBptreeNode
<1> HIDE DEF mid, n, low, upp
<1>4. Children(low) \subseteq Children(node)
  <2>1. \A i \in 0..low.size : i \in 0..node.size
    BY <1>1, <1>2
  <2> QED
    BY <1>2, <2>1 DEF Children
<1>5. ASSUME NEW i \in 0..upp.size  PROVE upp.dat[i] \in Children(node)
  <2>1. i \in 0..n /\ i \in 0..M /\ mid + i \in 0..node.size
    BY <1>1, <1>3
  <2>2. i < n \/ i = n
    BY <1>1, <2>1
  <2>3. upp.dat[i] = node.dat[mid + i]
    BY <1>3, <2>1, <2>2
  <2> QED
    BY <2>1, <2>3 DEF Children
<1> QED
  BY <1>4, <1>5 DEF Children, low, upp

(* A new root points at the two pages it is put over. *)
LEMMA RootOverPoints ==
  ASSUME NEW self \in Nat, NEW k \in Int, NEW left \in Int, NEW right \in Int,
         NEW root, root = RootOver(self, k, left, right)
  PROVE  Children(root) \subseteq {left, right}
<1>1. M \in Nat /\ M >= 3
  BY OrderAssumption
<1>2. root.size = 1
      /\ root.dat = [[[i \in 0..M |-> NODE_EOF] EXCEPT ![0] = left] EXCEPT ![1] = right]
  BY DEF RootOver, NewBptreeNode
<1>3. root.dat[0] = left /\ root.dat[1] = right
  BY <1>1, <1>2
<1>4. \A i \in 0..1 : i = 0 \/ i = 1
  OBVIOUS
<1> QED
  BY <1>2, <1>3, <1>4 DEF Children

-----------------------------------------------------------------------------
(* The pages of the file f that somebody wrote. *)
Pages(f) == {p \in DOMAIN f : f[p] # Hole}

(* Every slot that was ever written holds an entry of S. *)
SlotsFrom(n, S) ==
  \A i \in 0..M-1 : \/ <<n.key[i], n.dat[i]>> \in S
                    \/ n.key[i] = Uninit /\ n.dat[i] = NODE_EOF

(* A node whose arrays are in order and whose leaf slots come from S. *)
Good(n, S) ==
  /\ n \in BptreeNode
  /\ n.size < M
  /\ Initialised(n)
  /\ Sorted(n)
  /\ n.isLeaf => SlotsFrom(n, S)

(* A parent field that InsertIntoNode may follow. *)
Settled(f, q) == q = NODE_EOF \/ (q \in Pages(f) /\ ~f[q].isLeaf)

(***************************************************************************)
(* A file whose pages are good, carry their own number, were allocated,    *)
(* and name a settled parent or one of the pages X about to be written.    *)
(***************************************************************************)
FileOK(f, size, S, X) ==
  /\ f \in Seq(Page)
  /\ \A p \in Pages(f) :
       /\ Good(f[p], S)
       /\ f[p].self = p
       /\ p <= size
       /\ Settled(f, f[p].parent) \/ f[p].parent \in X

(* A parent field on the stack: settled, or the new page of an inner split. *)
Hangs(st, i, f, q) ==
  \/ Settled(f, q)
  \/ \E j \in DOMAIN st : j > i /\ q = st[j].right.self /\ ~st[j].right.isLeaf

FrameOK(st, i, f, size, S) ==
  /\ Good(st[i].left, S)
  /\ Good(st[i].right, S)
  /\ st[i].left.self \in Pages(f)
  /\ st[i].left.isLeaf = f[st[i].left.self].isLeaf
  /\ st[i].right.isLeaf = st[i].left.isLeaf
  /\ st[i].right.size >= 1
  /\ st[i].right.self \in (1..size) \ Pages(f)
  /\ \A j \in DOMAIN st : st[j].right.self = st[i].right.self => j = i
  /\ Hangs(st, i, f, st[i].left.parent)
  /\ Hangs(st, i, f, st[i].right.parent)

StackOK(st, f, size, S) ==
  /\ st \in Seq(Frame)
  /\ \A i \in DOMAIN st : FrameOK(st, i, f, size, S)

Scalars ==
  /\ hdr \in Header \cup {Trashed}
  /\ mem \in Header
  /\ pc \in {"idle", "seek", "climb", "unwind", "flush"}
  /\ arg \in Arg
  /\ at \in Int
  /\ inserted \subseteq Int \X Int
  /\ live \subseteq inserted
  /\ reply \in Reply

IInv ==
  /\ Scalars
  /\ FileOK(disk, mem.size, inserted, {})
  /\ StackOK(stack, disk, mem.size, inserted)
  /\ pc \in {"climb", "unwind"} <=> Len(stack) > 0
  /\ SearchSound

-----------------------------------------------------------------------------
(* A larger set of entries or pages keeps what is known of file and stack. *)
LEMMA GoodGrows ==
  ASSUME NEW n, NEW S, NEW T, S \subseteq T, Good(n, S)
  PROVE  Good(n, T)
  BY DEF Good, SlotsFrom

(* A file in order stays in order when more pages and entries are known. *)
LEMMA FileGrows ==
  ASSUME NEW f, NEW s \in Nat, NEW t \in Nat, s <= t, NEW S, NEW T, S \subseteq T, NEW X,
         FileOK(f, s, S, X)
  PROVE  FileOK(f, t, T, X)
<1>1. \A p \in Pages(f) : p \in Nat
  BY LenProperties DEF FileOK, Pages
<1> QED
  BY <1>1, GoodGrows DEF FileOK

(* Frames in order stay in order when more pages and entries are known. *)
LEMMA StackGrows ==
  ASSUME NEW st, NEW f, NEW s \in Nat, NEW t \in Nat, s <= t, NEW S, NEW T, S \subseteq T,
         StackOK(st, f, s, S)
  PROVE  StackOK(st, f, t, T)
  BY GoodGrows DEF StackOK, FrameOK

-----------------------------------------------------------------------------
(***************************************************************************)
(* NodeFlush changes one page, and adds at most that one to those written. *)
(***************************************************************************)
LEMMA FlushPages ==
  ASSUME NEW f \in Seq(Page), NEW node \in BptreeNode, node.self >= 1,
         NEW g, g = NodeFlush(f, node)
  PROVE  /\ g \in Seq(Page)
         /\ Pages(g) = Pages(f) \cup {node.self}
         /\ g[node.self] = node
         /\ \A p \in Pages(f) : p # node.self => g[p] = f[p]
<1> DEFINE n == IF node.self > Len(f) THEN node.self ELSE Len(f)
<1>1. /\ Len(f) \in Nat /\ DOMAIN f = 1..Len(f)
      /\ \A p \in 1..Len(f) : f[p] \in Page
  BY LenProperties, ElementOfSeq
<1>2. node.self \in Nat /\ n \in Nat /\ node.self \in 1..n /\ Len(f) <= n
  BY <1>1, NodeFields
<1>3. g = [p \in 1..n |-> IF p = node.self THEN node
                          ELSE IF p <= Len(f) THEN f[p] ELSE Hole]
  BY DEF NodeFlush
<1> HIDE DEF n
<1>4. g \in Seq(Page)
  <2>1. \A p \in 1..n : (IF p = node.self THEN node
                         ELSE IF p <= Len(f) THEN f[p] ELSE Hole) \in Page
    BY <1>1, <1>2 DEF Page
  <2> QED
    BY <2>1, <1>2, <1>3
<1>5. node # Hole
  BY HoleAssumption
<1>6. DOMAIN g = 1..n
  BY <1>3
<1>7. \A p \in 1..n : g[p] = IF p = node.self THEN node
                             ELSE IF p <= Len(f) THEN f[p] ELSE Hole
  BY <1>3
<1> QED
  BY <1>1, <1>2, <1>4, <1>5, <1>6, <1>7 DEF Pages

(***************************************************************************)
(* Flushing a good node, over a page of the same kind or a new one.  The   *)
(* page may be one of X; then it is settled afterwards.                    *)
(***************************************************************************)
LEMMA FlushFile ==
  ASSUME NEW f, NEW size \in Nat, NEW S, NEW X, FileOK(f, size, S, X),
         NEW node, Good(node, S), node.self \in 1..size,
         Settled(f, node.parent) \/ node.parent \in X,
         node.self \in Pages(f) => node.isLeaf = f[node.self].isLeaf,
         NEW g, g = NodeFlush(f, node)
  PROVE  /\ FileOK(g, size, S, X)
         /\ Pages(g) = Pages(f) \cup {node.self}
         /\ g[node.self] = node
         /\ \A p \in Pages(f) : g[p].isLeaf = f[p].isLeaf
         /\ \A q : Settled(f, q) => Settled(g, q)
<1>1. f \in Seq(Page) /\ node \in BptreeNode /\ node.self >= 1
  BY DEF FileOK, Good
<1>2. /\ g \in Seq(Page)
      /\ Pages(g) = Pages(f) \cup {node.self}
      /\ g[node.self] = node
      /\ \A p \in Pages(f) : p # node.self => g[p] = f[p]
  BY <1>1, FlushPages
<1>3. \A p \in Pages(f) : g[p].isLeaf = f[p].isLeaf
  BY <1>2
<1>4. \A q : Settled(f, q) => Settled(g, q)
  BY <1>2, <1>3 DEF Settled
<1>5. ASSUME NEW p \in Pages(g)
      PROVE  /\ Good(g[p], S) /\ g[p].self = p /\ p <= size
             /\ Settled(g, g[p].parent) \/ g[p].parent \in X
  <2>1. CASE p = node.self
    BY <2>1, <1>2, <1>4
  <2>2. CASE p # node.self
    BY <2>2, <1>2, <1>4 DEF FileOK
  <2> QED
    BY <2>1, <2>2
<1> QED
  BY <1>2, <1>3, <1>4, <1>5 DEF FileOK

(* The "update parent" loop only changes parent fields, to right.self. *)
LEMMA UpdateParentFile ==
  ASSUME NEW f, NEW size \in Nat, NEW S, FileOK(f, size, S, {}),
         NEW right \in BptreeNode,
         NEW g, g = UpdateParent(f, right)
  PROVE  /\ FileOK(g, size, S, {right.self})
         /\ Pages(g) = Pages(f)
         /\ \A p \in Pages(f) : g[p].isLeaf = f[p].isLeaf
         /\ \A q : Settled(f, q) => Settled(g, q)
<1>1. /\ Len(f) \in Nat /\ DOMAIN f = 1..Len(f)
      /\ \A p \in 1..Len(f) : f[p] \in BptreeNode \cup {Hole}
  BY LenProperties, ElementOfSeq DEF FileOK, Page
<1>2. DOMAIN g = 1..Len(f)
  BY DEF UpdateParent
<1>3. \A p \in 1..Len(f) :
        g[p] = IF p \in Children(right) /\ f[p] # Hole
               THEN [f[p] EXCEPT !.parent = right.self] ELSE f[p]
  BY DEF UpdateParent
<1>4. right.self \in Int
  BY NodeFields
<1>5. ASSUME NEW n \in BptreeNode, NEW m, m = [n EXCEPT !.parent = right.self]
      PROVE  /\ m \in BptreeNode
             /\ m.parent = right.self
             /\ m.self = n.self /\ m.isLeaf = n.isLeaf /\ m.size = n.size
             /\ m.key = n.key /\ m.dat = n.dat
  BY <1>4, <1>5 DEF BptreeNode
<1>6. ASSUME NEW n, NEW m, Good(n, S), m = [n EXCEPT !.parent = right.self]
      PROVE  Good(m, S)
  <2>1. n \in BptreeNode
    BY <1>6 DEF Good
  <2>2. /\ m \in BptreeNode /\ m.isLeaf = n.isLeaf /\ m.size = n.size
        /\ m.key = n.key /\ m.dat = n.dat
    BY <2>1, <1>5, <1>6
  <2> QED
    BY <2>2, <1>6 DEF Good, Initialised, Sorted, SlotsFrom
<1>7. Pages(g) = Pages(f)
  <2>1. ASSUME NEW p \in 1..Len(f) PROVE g[p] = Hole <=> f[p] = Hole
    <3>1. CASE p \in Children(right) /\ f[p] # Hole
      <4>1. g[p] = [f[p] EXCEPT !.parent = right.self] /\ f[p] \in BptreeNode
        BY <3>1, <1>1, <1>3
      <4> QED
        BY <4>1, <3>1, <1>5, HoleAssumption
    <3>2. CASE ~(p \in Children(right) /\ f[p] # Hole)
      BY <3>2, <1>3
    <3> QED
      BY <3>1, <3>2
  <2> QED
    BY <2>1, <1>1, <1>2 DEF Pages
<1>8. \A p \in Pages(f) : g[p].isLeaf = f[p].isLeaf
  BY <1>1, <1>3, <1>5 DEF Pages
<1>9. \A q : Settled(f, q) => Settled(g, q)
  BY <1>7, <1>8 DEF Settled
<1>10. g \in Seq(Page)
  <2>1. \A p \in 1..Len(f) :
          (IF p \in Children(right) /\ f[p] # Hole
           THEN [f[p] EXCEPT !.parent = right.self] ELSE f[p]) \in Page
    BY <1>1, <1>5 DEF Page
  <2>2. g = [p \in 1..Len(f) |->
              IF p \in Children(right) /\ f[p] # Hole
              THEN [f[p] EXCEPT !.parent = right.self] ELSE f[p]]
    BY DEF UpdateParent
  <2>3. g \in [1..Len(f) -> Page]
    BY <2>1, <2>2
  <2> QED
    BY <2>3, <1>1
<1>11. ASSUME NEW p \in Pages(g)
       PROVE  /\ Good(g[p], S) /\ g[p].self = p /\ p <= size
              /\ Settled(g, g[p].parent) \/ g[p].parent \in {right.self}
  <2>1. /\ p \in Pages(f) /\ p \in 1..Len(f) /\ f[p] \in BptreeNode
        /\ Good(f[p], S) /\ f[p].self = p /\ p <= size /\ Settled(f, f[p].parent)
    BY <1>1, <1>7 DEF FileOK, Pages
  <2>2. CASE p \in Children(right)
    <3>1. g[p] = [f[p] EXCEPT !.parent = right.self]
      BY <2>1, <2>2, <1>3 DEF Pages
    <3> QED
      BY <3>1, <2>1, <1>5, <1>6
  <2>3. CASE p \notin Children(right)
    BY <2>1, <2>3, <1>3, <1>9
  <2> QED
    BY <2>2, <2>3
<1> QED
  BY <1>7, <1>8, <1>9, <1>10, <1>11 DEF FileOK

(***************************************************************************)
(* The frames stay in order when the file changes as a flush changes it,   *)
(* if the page written is none the frames are still to write.              *)
(***************************************************************************)
LEMMA StackKeeps ==
  ASSUME NEW st, NEW f, NEW size \in Nat, NEW S, StackOK(st, f, size, S),
         NEW g, NEW W, Pages(g) = Pages(f) \cup W,
         \A i \in DOMAIN st : st[i].right.self \notin W,
         \A p \in Pages(f) : g[p].isLeaf = f[p].isLeaf,
         \A q : Settled(f, q) => Settled(g, q)
  PROVE  StackOK(st, g, size, S)
<1>1. ASSUME NEW i \in DOMAIN st PROVE FrameOK(st, i, g, size, S)
  <2>1. FrameOK(st, i, f, size, S)
    BY DEF StackOK
  <2>2. Hangs(st, i, g, st[i].left.parent) /\ Hangs(st, i, g, st[i].right.parent)
    BY <2>1 DEF FrameOK, Hangs
  <2> QED
    BY <2>1, <2>2 DEF FrameOK
<1> QED
  BY <1>1 DEF StackOK

-----------------------------------------------------------------------------
(* The header in memory, its page count in particular, as plain numbers. *)
LEMMA HeaderFields ==
  ASSUME NEW m \in Header
  PROVE  m.root \in Int /\ m.size \in Nat
  BY DEF Header

(* What a step of an insertion that entered its pair relies on. *)
LEMMA EntryTyped ==
  ASSUME IInv
  PROVE  /\ arg.key \in Int /\ arg.dat \in Int
         /\ inserted \cup {<<arg.key, arg.dat>>} \subseteq Int \X Int
         /\ live \cup {<<arg.key, arg.dat>>} \subseteq inserted \cup {<<arg.key, arg.dat>>}
  BY DEF IInv, Scalars, Arg

(* Without frames any file will do for the stack. *)
LEMMA NoFrames ==
  ASSUME NEW st, NEW f, NEW size, NEW S, StackOK(st, f, size, S), Len(st) = 0,
         NEW g, NEW t, NEW T
  PROVE  StackOK(st, g, t, T)
<1>1. DOMAIN st = {}
  BY LenProperties DEF StackOK
<1> QED
  BY <1>1 DEF StackOK

-----------------------------------------------------------------------------
(* An empty file, no frames. *)
LEMMA InitInv == Init => IInv
<1> SUFFICES ASSUME Init PROVE IInv
  OBVIOUS
<1>1. Scalars
  BY DEF Init, Scalars, Header, Arg, Reply, NODE_EOF
<1>2. FileOK(disk, mem.size, inserted, {})
  BY DEF Init, FileOK, Pages
<1>3. StackOK(stack, disk, mem.size, inserted) /\ Len(stack) = 0
  BY DEF Init, StackOK
<1>4. SearchSound
  BY DEF Init, SearchSound
<1> QED
  BY <1>1, <1>2, <1>3, <1>4 DEF IInv, Init

(* A call begins: only its arguments change. *)
LEMMA StartInv == ASSUME IInv, Start PROVE IInv'
<1> DEFINE Begun == /\ pc = "idle" /\ pc' = "seek" /\ arg' \in Arg /\ at' = mem.root
                    /\ UNCHANGED <<file, stack, ghost>>
<1>1. Begun
  <2>1. ASSUME NEW e \in Entries, BptreeInsert(e) PROVE Begun
    BY <2>1, EntriesAssumption DEF BptreeInsert, Call, Arg
  <2>2. ASSUME NEW k \in Keys, BptreeSearch(k) \/ BptreeDelete(k) PROVE Begun
    BY <2>2, KeysAssumption DEF BptreeSearch, BptreeDelete, Call, Arg
  <2> QED
    BY <2>1, <2>2 DEF Start
<1>2. Scalars'
  BY <1>1, HeaderFields DEF IInv, Scalars, file, ghost
<1> QED
  BY <1>1, <1>2 DEF IInv, file, ghost, SearchSound, FileOK, StackOK, FrameOK,
     Pages, Settled, Hangs, Good

(* One page down. *)
LEMMA DescendInv == ASSUME IInv, Descend PROVE IInv'
<1>1. at \in Pages(disk) /\ disk[at] \in BptreeNode /\ Initialised(disk[at]) /\ disk[at].size < M
  BY DEF Descend, Present, IInv, FileOK, Good, Pages
<1>2. GetIndex(disk[at], arg.key) \in 0..M
  <2>1. arg.key \in Int
    BY DEF IInv, Scalars, Arg
  <2>2. GetIndex(disk[at], arg.key) \in 0..disk[at].size
    BY <1>1, <2>1, GetIndexDefined DEF IsGetIndex
  <2>3. disk[at].size \in 0..M /\ M \in Nat
    BY <1>1, NodeFields
  <2> QED
    BY <2>2, <2>3
<1>3. at' \in Int
  BY <1>1, <1>2, NodeFields DEF Descend
<1>4. UNCHANGED <<file, pc, arg, stack, ghost>>
  BY DEF Descend
<1>5. Scalars'
  BY <1>3, <1>4 DEF IInv, Scalars, file, ghost
<1> QED
  BY <1>4, <1>5 DEF IInv, file, ghost, SearchSound, FileOK, StackOK, FrameOK,
     Pages, Settled, Hangs, Good

-----------------------------------------------------------------------------
(* A new leaf with the one entry (k, d), and a new root over two pages. *)
LEMMA FirstRootNode ==
  ASSUME NEW self \in Nat, NEW k \in Int, NEW d \in Int, NEW S, <<k, d>> \in S,
         NEW root, root = FirstRoot(self, k, d)
  PROVE  Good(root, S) /\ root.self = self /\ root.parent = NODE_EOF
<1> DEFINE key == [i \in 0..M-1 |-> IF i = 0 THEN k ELSE Uninit]
           dat == [i \in 0..M |-> IF i = 0 THEN d ELSE NODE_EOF]
           leaf == TRUE
           del == [i \in 0..M-1 |-> FALSE]
<1>1. root.key = key /\ root.dat = dat /\ root.size = 1 /\ root.isLeaf = TRUE
      /\ root.self = self /\ root.parent = NODE_EOF
  BY OrderAssumption DEF NewBptreeNode, FirstRoot
<1>2. root \in BptreeNode
  <2>1. root = [self |-> self, parent |-> NODE_EOF, isLeaf |-> leaf, size |-> 1,
                key |-> key, dat |-> dat, del |-> del]
    BY OrderAssumption DEF NewBptreeNode, FirstRoot
  <2>2. /\ key \in [0..M-1 -> Int \cup {Uninit}]
        /\ dat \in [0..M -> Int]
        /\ del \in [0..M-1 -> BOOLEAN]
        /\ leaf \in BOOLEAN /\ 1 \in 0..M /\ NODE_EOF \in Int
    BY OrderAssumption DEF NODE_EOF
  <2> HIDE DEF key, dat, del, leaf
  <2> QED
    BY <2>1, <2>2 DEF BptreeNode
<1>3. Initialised(root) /\ Sorted(root)
  BY <1>1, OrderAssumption DEF Initialised, Sorted
<1>4. root.size < M
  BY <1>1, OrderAssumption
<1>5. \A i \in 0..M-1 : \/ <<key[i], dat[i]>> \in S
                        \/ key[i] = Uninit /\ dat[i] = NODE_EOF
  BY OrderAssumption
<1> HIDE DEF key, dat
<1> QED
  BY <1>1, <1>2, <1>3, <1>4, <1>5 DEF Good, SlotsFrom

(* The new root a split of the old one makes is a good internal node. *)
LEMMA RootOverNode ==
  ASSUME NEW self \in Nat, NEW k \in Int, NEW l \in Int, NEW r \in Int, NEW S,
         NEW root, root = RootOver(self, k, l, r)
  PROVE  /\ Good(root, S) /\ root.self = self /\ root.parent = NODE_EOF
         /\ root.isLeaf = FALSE
<1> DEFINE key == [i \in 0..M-1 |-> IF i = 0 THEN k ELSE Uninit]
           dat == [i \in 0..M |-> IF i = 0 THEN l ELSE IF i = 1 THEN r ELSE NODE_EOF]
           leaf == FALSE
           del == [i \in 0..M-1 |-> FALSE]
<1>1. root.key = key /\ root.size = 1 /\ root.isLeaf = FALSE
      /\ root.self = self /\ root.parent = NODE_EOF
  BY OrderAssumption DEF NewBptreeNode, RootOver
<1>2. root \in BptreeNode
  <2>1. root = [self |-> self, parent |-> NODE_EOF, isLeaf |-> leaf, size |-> 1,
                key |-> key, dat |-> dat, del |-> del]
    <3>1. [[[i \in 0..M |-> NODE_EOF] EXCEPT ![0] = l] EXCEPT ![1] = r] = dat
      BY OrderAssumption
    <3> QED
      BY <3>1, OrderAssumption DEF NewBptreeNode, RootOver
  <2>2. /\ key \in [0..M-1 -> Int \cup {Uninit}]
        /\ dat \in [0..M -> Int]
        /\ del \in [0..M-1 -> BOOLEAN]
        /\ leaf \in BOOLEAN /\ 1 \in 0..M /\ NODE_EOF \in Int
    BY OrderAssumption DEF NODE_EOF
  <2> HIDE DEF key, dat, del, leaf
  <2> QED
    BY <2>1, <2>2 DEF BptreeNode
<1>3. Initialised(root) /\ Sorted(root)
  BY <1>1, OrderAssumption DEF Initialised, Sorted
<1>4. root.size < M
  BY <1>1, OrderAssumption
<1> QED
  BY <1>1, <1>2, <1>3, <1>4 DEF Good

(* The pages of the file, and where a descent or a climb stands. *)
LEMMA FileFacts ==
  ASSUME IInv
  PROVE  /\ mem.size \in Nat /\ mem.root \in Int /\ mem.size + 1 \in Nat
         /\ mem.size + 1 \notin Pages(disk)
         /\ \A p : Present(p) <=> p \in Pages(disk)
         /\ \A p \in Pages(disk) : Good(disk[p], inserted) /\ disk[p].self = p
                                   /\ p \in 1..mem.size
<1>1. mem.size \in Nat /\ mem.root \in Int
  BY HeaderFields DEF IInv, Scalars
<1>2. \A p \in Pages(disk) : p \in Nat /\ p >= 1
  BY LenProperties DEF IInv, FileOK, Pages
<1> QED
  BY <1>1, <1>2 DEF IInv, FileOK, Pages, Present

(* What a search answered stays sound when entries are added. *)
LEMMA SearchSoundKept ==
  ASSUME SearchSound, reply' = reply, inserted \subseteq inserted'
  PROVE  SearchSound'
  BY DEF SearchSound

(* The first entry of a tree: a leaf becomes the root. *)
LEMMA InsertFirstInv == ASSUME IInv, InsertFirst PROVE IInv'
<1> DEFINE self == mem.size + 1
           S    == inserted \cup {<<arg.key, arg.dat>>}
           root == FirstRoot(self, arg.key, arg.dat)
<1>1. /\ disk' = NodeFlush(disk, root)
      /\ mem' = [root |-> self, size |-> self]
      /\ pc' = "flush" /\ inserted' = S /\ live' = live \cup {<<arg.key, arg.dat>>}
      /\ UNCHANGED <<hdr, arg, at, stack, reply>>
      /\ pc = "seek"
  BY DEF InsertFirst, Inserted
<1>2. Good(root, S) /\ root.self = self /\ root.parent = NODE_EOF
  <2>1. self \in Nat /\ arg.key \in Int /\ arg.dat \in Int /\ <<arg.key, arg.dat>> \in S
    BY EntryTyped, FileFacts
  <2> HIDE DEF self, S
  <2> QED
    BY <2>1, FirstRootNode
<1> HIDE DEF root
<1>3. FileOK(disk, self, S, {})
  BY FileGrows, FileFacts DEF IInv
<1>4. FileOK(disk', self, S, {})
  <2>1. /\ root.self \in 1..self /\ root.self \notin Pages(disk) /\ self \in Nat
        /\ Settled(disk, root.parent)
    BY <1>2, FileFacts DEF Settled
  <2> QED
    BY <1>1, <1>2, <1>3, <2>1, FlushFile
<1>5. Len(stack) = 0
  BY <1>1, LenProperties DEF IInv, StackOK
<1>6. StackOK(stack, disk', self, S)
  BY <1>5, NoFrames DEF IInv
<1>7. Scalars'
  BY <1>1, EntryTyped, FileFacts DEF IInv, Scalars, Header
<1>8. SearchSound'
  BY <1>1, SearchSoundKept DEF IInv
<1> QED
  BY <1>1, <1>4, <1>5, <1>6, <1>7, <1>8 DEF IInv

-----------------------------------------------------------------------------
(* A good leaf that takes an entry, and the halves of one that is full. *)
LEMMA EntryGood ==
  ASSUME NEW n, NEW S, Good(n, S), n.isLeaf,
         NEW k \in Int, NEW d \in Int, NEW T, S \subseteq T, <<k, d>> \in T
  PROVE  SlotsFrom(InsertEntry(n, k, d), T)
<1> DEFINE new == InsertEntry(n, k, d)
<1>1. n \in BptreeNode /\ n.size < M /\ Initialised(n) /\ SlotsFrom(n, T)
  BY DEF Good, SlotsFrom
<1>2. ASSUME NEW i \in 0..M-1
      PROVE  \/ new.key[i] = k /\ new.dat[i] = d
             \/ \E j \in 0..M-1 : new.key[i] = n.key[j] /\ new.dat[i] = n.dat[j]
  BY <1>1, InsertEntrySlots
<1> HIDE DEF new
<1>3. SlotsFrom(new, T)
  BY <1>1, <1>2 DEF SlotsFrom
<1> QED
  BY <1>3 DEF new

(* Both halves of a full node are good, with the numbers they are given. *)
LEMMA HalvesGood ==
  ASSUME NEW n \in BptreeNode, n.size = M, Initialised(n), Sorted(n),
         NEW S, n.isLeaf => SlotsFrom(n, S), NEW self \in Nat
  PROVE  /\ Good(LowerHalf(n), S)
         /\ LowerHalf(n).self = n.self /\ LowerHalf(n).parent = n.parent
         /\ LowerHalf(n).isLeaf = n.isLeaf
         /\ Good(UpperHalf(n, self), S)
         /\ UpperHalf(n, self).self = self /\ UpperHalf(n, self).parent = n.parent
         /\ UpperHalf(n, self).isLeaf = n.isLeaf
         /\ UpperHalf(n, self).size >= 1
<1> DEFINE low == LowerHalf(n)
           upp == UpperHalf(n, self)
<1>1. /\ low \in BptreeNode /\ low.size \in 1..M-1
      /\ low.self = n.self /\ low.parent = n.parent /\ low.isLeaf = n.isLeaf
      /\ Initialised(low) /\ Sorted(low)
      /\ low.key = n.key /\ low.dat = n.dat
  BY LowerHalfNode
<1>2. /\ upp \in BptreeNode /\ upp.size \in 1..M-1
      /\ upp.self = self /\ upp.parent = n.parent /\ upp.isLeaf = n.isLeaf
      /\ Initialised(upp) /\ Sorted(upp)
      /\ n.isLeaf => \A i \in 0..M-1 :
           \/ upp.key[i] = Uninit /\ upp.dat[i] = NODE_EOF
           \/ \E j \in 0..M-1 : upp.key[i] = n.key[j] /\ upp.dat[i] = n.dat[j]
  BY UpperHalfNode
<1> HIDE DEF low, upp
<1>3. M \in Nat
  BY OrderAssumption
<1>4. Good(low, S)
  BY <1>1, <1>3 DEF Good, SlotsFrom
<1>5. n.isLeaf => SlotsFrom(upp, S)
  BY <1>2 DEF SlotsFrom
<1>6. Good(upp, S)
  BY <1>2, <1>3, <1>5 DEF Good
<1> QED
  BY <1>1, <1>2, <1>3, <1>4, <1>6 DEF low, upp

(* A leaf takes the entry, or is split and leaves the first frame. *)
LEMMA InsertIntoLeafNodeInv == ASSUME IInv, InsertIntoLeafNode PROVE IInv'
<1> DEFINE self == mem.size + 1
           S    == inserted \cup {<<arg.key, arg.dat>>}
           node == InsertEntry(disk[at], arg.key, arg.dat)
<1>1. /\ pc = "seek" /\ Present(at) /\ disk[at].isLeaf
      /\ inserted' = S /\ live' = live \cup {<<arg.key, arg.dat>>}
      /\ UNCHANGED <<hdr, arg, at, reply>>
  BY DEF InsertIntoLeafNode, AtLeaf, Inserted
<1>2. /\ at \in Pages(disk) /\ at \in 1..mem.size
      /\ Good(disk[at], inserted) /\ disk[at].self = at
      /\ Settled(disk, disk[at].parent)
      /\ mem.size \in Nat /\ self \in Nat /\ self \notin Pages(disk)
  BY <1>1, FileFacts DEF IInv, FileOK
<1>3. /\ node \in BptreeNode
      /\ node.size = disk[at].size + 1
      /\ node.self = at /\ node.parent = disk[at].parent
      /\ node.isLeaf = disk[at].isLeaf
      /\ Initialised(node) /\ Sorted(node)
      /\ SlotsFrom(node, S)
  <2>1. inserted \subseteq S /\ <<arg.key, arg.dat>> \in S
        /\ arg.key \in Int /\ arg.dat \in Int
    BY EntryTyped
  <2>2. disk[at] \in BptreeNode /\ disk[at].size < M
        /\ Initialised(disk[at]) /\ Sorted(disk[at])
    BY <1>2 DEF Good
  <2> HIDE DEF S
  <2>3. SlotsFrom(node, S)
    BY <1>1, <1>2, <2>1, EntryGood
  <2> QED
    BY <1>2, <2>1, <2>2, <2>3, InsertEntryNode
<1>4. \/ /\ node.size < M
         /\ disk' = NodeFlush(disk, node)
         /\ pc' = "flush"
         /\ UNCHANGED <<mem, stack>>
      \/ /\ node.size = M
         /\ mem' = [mem EXCEPT !.size = self]
         /\ stack' = Append(stack, [left  |-> LowerHalf(node),
                                    right |-> UpperHalf(node, self)])
         /\ pc' = "climb"
         /\ UNCHANGED disk
  BY DEF InsertIntoLeafNode
<1> HIDE DEF node
<1>5. /\ FileOK(disk, mem.size, S, {}) /\ FileOK(disk, self, S, {})
      /\ StackOK(stack, disk, mem.size, S)
  BY <1>2, FileGrows, StackGrows DEF IInv
<1>6. Len(stack) = 0 /\ stack \in Seq(Frame)
  BY <1>1, LenProperties DEF IInv, StackOK
<1>7. SearchSound'
  BY <1>1, SearchSoundKept DEF IInv
<1>8. CASE node.size < M /\ disk' = NodeFlush(disk, node) /\ pc' = "flush"
           /\ UNCHANGED <<mem, stack>>
  <2>1. Good(node, S)
    BY <1>3, <1>8 DEF Good
  <2>2. FileOK(disk', mem.size, S, {})
    <3>1. /\ node.self \in 1..mem.size /\ Settled(disk, node.parent)
          /\ node.isLeaf = disk[node.self].isLeaf
      BY <1>2, <1>3
    <3> HIDE DEF S
    <3> QED
      BY <1>2, <1>5, <1>8, <2>1, <3>1, FlushFile
  <2>3. StackOK(stack, disk', mem.size, S)
    BY <1>5, <1>6, NoFrames
  <2>4. Scalars'
    BY <1>1, <1>8, EntryTyped DEF IInv, Scalars
  <2> QED
    BY <1>1, <1>6, <1>7, <1>8, <2>2, <2>3, <2>4 DEF IInv
<1>9. CASE node.size = M /\ mem' = [mem EXCEPT !.size = self]
           /\ stack' = Append(stack, [left  |-> LowerHalf(node),
                                      right |-> UpperHalf(node, self)])
           /\ pc' = "climb" /\ UNCHANGED disk
  <2> DEFINE f == [left |-> LowerHalf(node), right |-> UpperHalf(node, self)]
  <2>1. /\ Good(f.left, S) /\ f.left.self = at
        /\ f.left.parent = disk[at].parent /\ f.left.isLeaf = disk[at].isLeaf
        /\ Good(f.right, S) /\ f.right.self = self
        /\ f.right.parent = disk[at].parent /\ f.right.isLeaf = disk[at].isLeaf
        /\ f.right.size >= 1
    BY <1>2, <1>3, <1>9, HalvesGood
  <2>2. f \in Frame
    BY <2>1 DEF Frame, Good
  <2> HIDE DEF f
  <2>3. stack' = <<f>> /\ Len(stack') = 1 /\ DOMAIN stack' = {1} /\ stack'[1] = f
    <3>1. stack' = Append(stack, f)
      BY <1>9 DEF f
    <3>2. stack = <<>>
      BY <1>6, EmptySeq
    <3> QED
      BY <3>1, <3>2
  <2>4. FrameOK(stack', 1, disk, self, S)
    <3>1. self \in (1..self) \ Pages(disk)
      BY <1>2
    <3> HIDE DEF S, self
    <3> QED
      BY <1>2, <2>1, <2>3, <3>1 DEF FrameOK, Hangs
  <2>5. StackOK(stack', disk, self, S)
    BY <2>2, <2>3, <2>4 DEF StackOK
  <2>6. mem'.size = self /\ mem' \in Header
    BY <1>2, <1>9 DEF IInv, Scalars, Header
  <2>7. Scalars'
    BY <1>1, <1>9, <2>6, EntryTyped DEF IInv, Scalars
  <2> QED
    BY <1>1, <1>5, <1>7, <1>9, <2>3, <2>5, <2>6, <2>7 DEF IInv
<1> QED
  BY <1>4, <1>8, <1>9

-----------------------------------------------------------------------------
(* The innermost frame: its parents are settled, nothing is nested deeper. *)
LEMMA TopFrame ==
  ASSUME IInv, Len(stack) > 0
  PROVE  /\ Len(stack) \in Nat /\ Len(stack) \in DOMAIN stack
         /\ DOMAIN stack = 1..Len(stack)
         /\ stack \in Seq(Frame)
         /\ FrameOK(stack, Len(stack), disk, mem.size, inserted)
         /\ Settled(disk, Top.left.parent)
         /\ Settled(disk, Top.right.parent)
         /\ Top.right.key[0] \in Int
         /\ Top.left.self \in Int /\ Top.right.self \in Int
         /\ Top.left.parent \in Int
<1>1. /\ Len(stack) \in Nat /\ DOMAIN stack = 1..Len(stack) /\ stack \in Seq(Frame)
      /\ Len(stack) \in DOMAIN stack
  BY LenProperties DEF IInv, StackOK
<1>2. FrameOK(stack, Len(stack), disk, mem.size, inserted)
  BY <1>1 DEF IInv, StackOK
<1>3. Settled(disk, Top.left.parent) /\ Settled(disk, Top.right.parent)
  BY <1>1, <1>2 DEF FrameOK, Hangs, Top
<1>4. Top.right \in BptreeNode /\ Top.left \in BptreeNode
      /\ Top.right.size >= 1 /\ Initialised(Top.right)
  BY <1>2 DEF FrameOK, Good, Top
<1>5. 0 \in 0..Top.right.size-1
  BY <1>4, NodeFields
<1>6. Top.right.key[0] \in Int
  BY <1>4, <1>5 DEF Initialised
<1>7. Top.left.self \in Int /\ Top.right.self \in Int /\ Top.left.parent \in Int
  BY <1>4, NodeFields
<1> QED
  BY <1>1, <1>2, <1>3, <1>6, <1>7

(* Another parent leaves a node as good as it was. *)
LEMMA Reparented ==
  ASSUME NEW n, NEW S, Good(n, S), NEW q \in Int
  PROVE  /\ Good([n EXCEPT !.parent = q], S)
         /\ [n EXCEPT !.parent = q].parent = q
         /\ [n EXCEPT !.parent = q].self = n.self
         /\ [n EXCEPT !.parent = q].isLeaf = n.isLeaf
         /\ [n EXCEPT !.parent = q].size = n.size
<1> DEFINE m == [n EXCEPT !.parent = q]
<1>1. n \in BptreeNode
  BY DEF Good
<1>2. /\ m \in BptreeNode /\ m.parent = q /\ m.self = n.self
      /\ m.isLeaf = n.isLeaf /\ m.size = n.size /\ m.key = n.key /\ m.dat = n.dat
  BY <1>1 DEF BptreeNode
<1> HIDE DEF m
<1>3. Good(m, S)
  BY <1>2 DEF Good, Initialised, Sorted, SlotsFrom
<1> QED
  BY <1>2, <1>3 DEF m

(***************************************************************************)
(* A frame is unaffected by what happens to the frames above it as long as *)
(* those keep the number and the kind of their right node.                 *)
(***************************************************************************)
LEMMA FrameKept ==
  ASSUME NEW st, NEW i, NEW f, NEW size, NEW S, FrameOK(st, i, f, size, S),
         NEW t, DOMAIN st \subseteq DOMAIN t, t[i] = st[i],
         \A j \in DOMAIN st : /\ t[j].right.self = st[j].right.self
                              /\ t[j].right.isLeaf = st[j].right.isLeaf,
         \A j \in DOMAIN t \ DOMAIN st : t[j].right.self # st[i].right.self
  PROVE  FrameOK(t, i, f, size, S)
<1>1. \A q : Hangs(st, i, f, q) => Hangs(t, i, f, q)
  BY DEF Hangs
<1>2. \A j \in DOMAIN t : t[j].right.self = t[i].right.self => j = i
  BY DEF FrameOK
<1> QED
  BY <1>1, <1>2 DEF FrameOK

(* Replacing the nodes of the innermost frame, their parents aside. *)
LEMMA TopReplaced ==
  ASSUME IInv, Len(stack) > 0, NEW l, NEW r, Good(l, inserted), Good(r, inserted),
         l.self = Top.left.self, l.isLeaf = Top.left.isLeaf,
         r.self = Top.right.self, r.isLeaf = Top.right.isLeaf, r.size = Top.right.size,
         NEW st, st = WithTop(l, r)
  PROVE  /\ st \in Seq(Frame)
         /\ Len(st) = Len(stack) /\ DOMAIN st = DOMAIN stack
         /\ st[Len(stack)] = [left |-> l, right |-> r]
         /\ \A i \in DOMAIN stack : i # Len(stack) => st[i] = stack[i]
         /\ \A i \in DOMAIN stack : /\ st[i].right.self = stack[i].right.self
                                    /\ st[i].right.isLeaf = stack[i].right.isLeaf
<1>1. [left |-> l, right |-> r] \in Frame
  BY DEF Frame, Good
<1>2. Len(stack) \in 1..Len(stack) /\ stack \in Seq(Frame) /\ DOMAIN stack = 1..Len(stack)
  BY TopFrame
<1> DEFINE n == Len(stack)
           f == [left |-> l, right |-> r]
<1>3. n \in 1..n /\ st = [stack EXCEPT ![n] = f] /\ f.left = l /\ f.right = r
  BY <1>2 DEF WithTop
<1>4. f \in Frame /\ stack[n] = Top
  BY <1>1 DEF Top
<1> HIDE DEF f
<1>5. st \in Seq(Frame) /\ Len(st) = Len(stack)
  BY <1>2, <1>3, <1>4, ExceptSeq
<1>6. DOMAIN st = DOMAIN stack
  BY <1>3
<1>7. \A j \in DOMAIN stack : st[j] = IF j = n THEN f ELSE stack[j]
  BY <1>3
<1>8. st[n] = f /\ \A i \in DOMAIN stack : i # n => st[i] = stack[i]
  BY <1>2, <1>7
<1>9. ASSUME NEW i \in DOMAIN stack
      PROVE  st[i].right.self = stack[i].right.self /\ st[i].right.isLeaf = stack[i].right.isLeaf
  BY <1>3, <1>4, <1>8
<1> QED
  BY <1>5, <1>6, <1>8, <1>9 DEF f

(* The tree gets a new root; the halves below it know their parent. *)
LEMMA NewRootInv == ASSUME IInv, NewRoot PROVE IInv'
<1> DEFINE self == mem.size + 1
           root == RootOver(self, Top.right.key[0], Top.left.self, Top.right.self)
           l    == [Top.left EXCEPT !.parent = self]
           r    == [Top.right EXCEPT !.parent = self]
<1>1. /\ pc = "climb" /\ pc' = "unwind"
      /\ mem' = [root |-> self, size |-> self]
      /\ disk' = NodeFlush(disk, root)
      /\ stack' = WithTop(l, r)
      /\ UNCHANGED <<hdr, arg, at, ghost>>
  BY DEF NewRoot
<1>2. Len(stack) > 0
  BY <1>1 DEF IInv, Scalars
<1>3. self \in Nat /\ mem.size \in Nat /\ self \in 1..self /\ self \notin Pages(disk)
  BY FileFacts
<1>4. Good(root, inserted) /\ root.self = self /\ root.parent = NODE_EOF /\ root.isLeaf = FALSE
  <2> DEFINE k == Top.right.key[0]
             a == Top.left.self
             b == Top.right.self
  <2>1. self \in Nat /\ k \in Int /\ a \in Int /\ b \in Int
    BY <1>2, <1>3, TopFrame
  <2>2. root = RootOver(self, k, a, b)
    OBVIOUS
  <2> HIDE DEF self, root, k, a, b, l, r
  <2>3. Good(root, inserted)
    BY <2>1, <2>2, RootOverNode
  <2> QED
    BY <2>1, <2>2, <2>3, RootOverNode DEF RootOver, NewBptreeNode
<1>5. /\ Good(l, inserted) /\ l.self = Top.left.self /\ l.isLeaf = Top.left.isLeaf
      /\ l.parent = self
      /\ Good(r, inserted) /\ r.self = Top.right.self /\ r.isLeaf = Top.right.isLeaf
      /\ r.parent = self /\ r.size = Top.right.size
  <2>1. Good(Top.left, inserted) /\ Good(Top.right, inserted) /\ self \in Int
    BY <1>2, <1>3, TopFrame DEF FrameOK, Top
  <2> QED
    BY <2>1, Reparented
<1> HIDE DEF root, l, r
<1>6. /\ FileOK(disk', self, inserted, {})
      /\ Pages(disk') = Pages(disk) \cup {self}
      /\ disk'[self] = root
      /\ \A p \in Pages(disk) : disk'[p].isLeaf = disk[p].isLeaf
      /\ \A q : Settled(disk, q) => Settled(disk', q)
  <2>1. FileOK(disk, self, inserted, {})
    BY <1>3, FileGrows DEF IInv
  <2>2. Settled(disk, root.parent)
    BY <1>4 DEF Settled
  <2> QED
    BY <1>1, <1>3, <1>4, <2>1, <2>2, FlushFile
<1>7. Settled(disk', self)
  BY <1>4, <1>6 DEF Settled
<1>8. StackOK(stack, disk', self, inserted)
  <2>1. StackOK(stack, disk, self, inserted)
    BY <1>3, StackGrows DEF IInv
  <2>2. \A i \in DOMAIN stack : stack[i].right.self \notin {self}
    BY <1>3 DEF IInv, StackOK, FrameOK
  <2> QED
    BY <1>3, <1>6, <2>1, <2>2, StackKeeps
<1>9. /\ stack' \in Seq(Frame)
      /\ Len(stack') = Len(stack) /\ DOMAIN stack' = DOMAIN stack
      /\ stack'[Len(stack)] = [left |-> l, right |-> r]
      /\ \A i \in DOMAIN stack : i # Len(stack) => stack'[i] = stack[i]
      /\ \A i \in DOMAIN stack : /\ stack'[i].right.self = stack[i].right.self
                                 /\ stack'[i].right.isLeaf = stack[i].right.isLeaf
  BY <1>1, <1>2, <1>5, TopReplaced
<1>10. ASSUME NEW i \in DOMAIN stack' PROVE FrameOK(stack', i, disk', self, inserted)
  <2>1. FrameOK(stack, i, disk', self, inserted)
    BY <1>8, <1>9 DEF StackOK
  <2>2. CASE i # Len(stack)
    BY <2>1, <2>2, <1>9, FrameKept
  <2>3. CASE i = Len(stack)
    <3>1. stack'[i].left = l /\ stack'[i].right = r
      BY <2>3, <1>9
    <3>2. stack[i] = Top
      BY <2>3 DEF Top
    <3>3. Hangs(stack', i, disk', l.parent) /\ Hangs(stack', i, disk', r.parent)
      BY <1>5, <1>7 DEF Hangs
    <3> QED
      BY <2>1, <3>1, <3>2, <3>3, <1>5, <1>9 DEF FrameOK
  <2> QED
    BY <2>2, <2>3
<1>11. StackOK(stack', disk', self, inserted)
  BY <1>9, <1>10 DEF StackOK
<1>12. Scalars'
  BY <1>1, <1>3 DEF IInv, Scalars, Header, ghost
<1>13. SearchSound'
  BY <1>1 DEF IInv, SearchSound, ghost
<1> QED
  BY <1>1, <1>2, <1>6, <1>9, <1>11, <1>12, <1>13 DEF IInv, ghost

-----------------------------------------------------------------------------
(***************************************************************************)
(* The node a split inserts into: an internal page of the file, which      *)
(* stays internal, sorted and hung as it was when it takes the new child.  *)
(***************************************************************************)
LEMMA GrownNode ==
  ASSUME IInv, Len(stack) > 0, Present(Top.left.parent)
  PROVE  /\ Grown \in BptreeNode
         /\ Grown.size \in 1..M
         /\ Grown.self \in Pages(disk) /\ Grown.self \in 1..mem.size
         /\ Grown.isLeaf = FALSE /\ disk[Grown.self].isLeaf = FALSE
         /\ Settled(disk, Grown.parent)
         /\ Initialised(Grown) /\ Sorted(Grown)
<1> DEFINE p == Top.left.parent
           n == disk[p]
           k == Top.right.key[0]
           a == Top.left.self
           b == Top.right.self
<1>1. p \in Pages(disk) /\ k \in Int /\ a \in Int /\ b \in Int
  BY TopFrame, FileFacts
<1>2. /\ Good(n, inserted) /\ n.self = p /\ p \in 1..mem.size
      /\ Settled(disk, n.parent)
  BY <1>1, FileFacts DEF IInv, FileOK
<1>3. n.isLeaf = FALSE
  <2>1. Settled(disk, p)
    BY TopFrame
  <2>2. p # NODE_EOF
    BY <1>2, FileFacts DEF NODE_EOF
  <2>3. n \in BptreeNode
    BY <1>2 DEF Good
  <2>4. n.isLeaf \in BOOLEAN
    BY <2>3, NodeFields
  <2> QED
    BY <2>1, <2>2, <2>4 DEF Settled
<1>4. n \in BptreeNode /\ n.size < M /\ Initialised(n) /\ Sorted(n)
  BY <1>2 DEF Good
<1>5. Grown = InsertChild(n, k, a, b)
  BY DEF Grown
<1>6. n.size \in 0..M /\ M \in Nat
  BY <1>4, NodeFields
<1> HIDE DEF n, k, a, b
<1>7. /\ Grown \in BptreeNode /\ Grown.size = n.size + 1
      /\ Grown.self = n.self /\ Grown.parent = n.parent
      /\ Grown.isLeaf = n.isLeaf /\ Initialised(Grown) /\ Sorted(Grown)
  BY <1>1, <1>4, <1>5, InsertChildNode
<1>8. Grown.size \in 1..M
  BY <1>4, <1>6, <1>7
<1> QED
  BY <1>1, <1>2, <1>3, <1>7, <1>8 DEF n

(* The parent has room. *)
LEMMA InsertIntoNodeInv == ASSUME IInv, InsertIntoNode PROVE IInv'
<1>1. /\ pc = "climb" /\ pc' = "unwind" /\ Present(Top.left.parent)
      /\ Grown.size < M
      /\ disk' = NodeFlush(disk, Grown)
      /\ UNCHANGED <<hdr, mem, arg, at, stack, ghost>>
  BY DEF InsertIntoNode
<1>2. Len(stack) > 0
  BY <1>1 DEF IInv, Scalars
<1>3. /\ Good(Grown, inserted) /\ Grown.self \in 1..mem.size
      /\ Grown.self \in Pages(disk) /\ Grown.isLeaf = disk[Grown.self].isLeaf
      /\ Settled(disk, Grown.parent) /\ mem.size \in Nat
  BY <1>1, <1>2, GrownNode, FileFacts DEF Good
<1>4. /\ FileOK(disk', mem.size, inserted, {})
      /\ Pages(disk') = Pages(disk) \cup {Grown.self}
      /\ \A p \in Pages(disk) : disk'[p].isLeaf = disk[p].isLeaf
      /\ \A q : Settled(disk, q) => Settled(disk', q)
  BY <1>1, <1>3, FlushFile DEF IInv
<1>5. StackOK(stack, disk', mem.size, inserted)
  <2>1. \A i \in DOMAIN stack : stack[i].right.self \notin {Grown.self}
    BY <1>3 DEF IInv, StackOK, FrameOK
  <2>2. StackOK(stack, disk, mem.size, inserted)
    BY DEF IInv
  <2> QED
    BY <1>3, <1>4, <2>1, <2>2, StackKeeps
<1>6. Scalars' /\ SearchSound'
  BY <1>1 DEF IInv, Scalars, SearchSound, ghost
<1> QED
  BY <1>1, <1>2, <1>4, <1>5, <1>6 DEF IInv, ghost

(* The parent is full: its halves become the new innermost frame. *)
LEMMA SplitNodeInv == ASSUME IInv, SplitNode PROVE IInv'
<1> DEFINE self == mem.size + 1
           newRight == UpperHalf(Grown, self)
           new == [left |-> LowerHalf(Grown), right |-> newRight]
           Moved(n) == IF n.self \in Children(newRight)
                       THEN [n EXCEPT !.parent = self] ELSE n
           l == Moved(Top.left)
           r == Moved(Top.right)
           st == WithTop(l, r)
<1>1. /\ pc = "climb" /\ Present(Top.left.parent) /\ Grown.size = M
      /\ mem' = [mem EXCEPT !.size = self]
      /\ stack' = Append(st, new)
      /\ UNCHANGED <<hdr, disk, pc, arg, at, ghost>>
  BY DEF SplitNode
<1>2. Len(stack) > 0
  BY <1>1 DEF IInv, Scalars
<1>3. /\ self \in Nat /\ mem.size \in Nat /\ mem.size < self /\ self \in Int
      /\ self \in (1..self) \ Pages(disk)
      /\ mem'.size = self /\ mem' \in Header
  <2>1. mem \in Header /\ self \in Nat /\ mem.size \in Nat /\ self \notin Pages(disk)
    BY FileFacts DEF IInv, Scalars
  <2>2. mem'.size = self /\ mem' \in Header
    BY <1>1, <2>1 DEF Header
  <2> QED
    BY <2>1, <2>2
<1>4. /\ Good(new.left, inserted) /\ new.left.self = Grown.self
      /\ new.left.parent = Grown.parent /\ new.left.isLeaf = FALSE
      /\ Good(newRight, inserted) /\ newRight.self = self
      /\ newRight.parent = Grown.parent /\ newRight.isLeaf = FALSE
      /\ newRight.size >= 1
      /\ new.right = newRight
  <2>1. /\ Grown \in BptreeNode /\ Initialised(Grown) /\ Sorted(Grown)
        /\ Grown.isLeaf = FALSE
    BY <1>1, <1>2, GrownNode
  <2> HIDE DEF self
  <2> DEFINE g == Grown
             low == LowerHalf(g)
             upp == UpperHalf(g, self)
  <2>2. g \in BptreeNode /\ g.size = M /\ Initialised(g) /\ Sorted(g)
        /\ (g.isLeaf => SlotsFrom(g, inserted)) /\ self \in Nat
    BY <1>1, <1>3, <2>1
  <2> HIDE DEF g
  <2>4. /\ Good(low, inserted) /\ low.self = g.self
        /\ low.parent = g.parent /\ low.isLeaf = g.isLeaf
    BY <2>2, HalvesGood
  <2>5. /\ Good(upp, inserted) /\ upp.self = self /\ upp.size >= 1
        /\ upp.parent = g.parent /\ upp.isLeaf = g.isLeaf
    BY <2>2, HalvesGood
  <2>6. /\ Good(LowerHalf(Grown), inserted) /\ LowerHalf(Grown).self = Grown.self
        /\ LowerHalf(Grown).parent = Grown.parent
        /\ LowerHalf(Grown).isLeaf = FALSE
        /\ Good(newRight, inserted) /\ newRight.self = self
        /\ newRight.parent = Grown.parent /\ newRight.isLeaf = FALSE
        /\ newRight.size >= 1
    BY <2>1, <2>4, <2>5 DEF g
  <2> QED
    BY <2>6
<1>5. new \in Frame
  BY <1>4 DEF Frame, Good
<1> HIDE DEF newRight, new
<1>6. /\ Good(Top.left, inserted) /\ Good(Top.right, inserted)
      /\ Settled(disk, Top.left.parent) /\ Settled(disk, Top.right.parent)
  BY <1>2, TopFrame DEF FrameOK, Top
<1>7. /\ Good(l, inserted) /\ l.self = Top.left.self /\ l.isLeaf = Top.left.isLeaf
      /\ l.parent = Top.left.parent \/ l.parent = self
  <2> HIDE DEF self
  <2> QED
    BY <1>3, <1>6, Reparented
<1>8. /\ Good(r, inserted) /\ r.self = Top.right.self /\ r.isLeaf = Top.right.isLeaf
      /\ r.parent = Top.right.parent \/ r.parent = self
      /\ r.size = Top.right.size
  <2> HIDE DEF self
  <2> QED
    BY <1>3, <1>6, Reparented
<1> HIDE DEF l, r
<1>9. /\ st \in Seq(Frame) /\ Len(st) = Len(stack) /\ DOMAIN st = DOMAIN stack
      /\ st[Len(stack)] = [left |-> l, right |-> r]
      /\ \A i \in DOMAIN stack : i # Len(stack) => st[i] = stack[i]
      /\ \A i \in DOMAIN stack : /\ st[i].right.self = stack[i].right.self
                                 /\ st[i].right.isLeaf = stack[i].right.isLeaf
  BY <1>2, <1>7, <1>8, TopReplaced
<1> HIDE DEF st
<1> DEFINE N == Len(stack)
<1>10. /\ N \in Nat /\ DOMAIN stack = 1..N
       /\ DOMAIN stack' = 1..N+1 /\ Len(stack') = N + 1
       /\ stack' \in Seq(Frame) /\ stack'[N + 1] = new
       /\ \A i \in 1..N : stack'[i] = st[i]
  BY <1>1, <1>2, <1>5, <1>9, TopFrame, AppendProperties
<1>11. /\ \A i \in 1..N : i # N => stack'[i] = stack[i]
       /\ stack'[N].left = l /\ stack'[N].right = r
       /\ \A i \in 1..N : /\ stack'[i].right.self = stack[i].right.self
                          /\ stack'[i].right.isLeaf = stack[i].right.isLeaf
  <2>1. N \in 1..N
    BY <1>2, <1>10
  <2>2. stack'[N] = [left |-> l, right |-> r]
    BY <1>9, <1>10, <2>1
  <2>3. stack'[N].left = l /\ stack'[N].right = r
    BY <2>2
  <2>4. \A i \in 1..N : i # N => stack'[i] = stack[i]
    BY <1>9, <1>10
  <2>5. \A i \in 1..N : /\ stack'[i].right.self = stack[i].right.self
                        /\ stack'[i].right.isLeaf = stack[i].right.isLeaf
    BY <1>9, <1>10
  <2> QED
    BY <2>3, <2>4, <2>5
<1> HIDE DEF N
<1>12. StackOK(stack, disk, self, inserted)
  BY <1>3, StackGrows DEF IInv
<1>13. \A i \in 1..N : stack[i].right.self # self
  BY <1>3, <1>10 DEF IInv, StackOK, FrameOK
<1>14. ASSUME NEW i \in 1..N+1 PROVE FrameOK(stack', i, disk, self, inserted)
  <2>1. CASE i \in 1..N /\ i # N
    <3>1. FrameOK(stack, i, disk, self, inserted)
      BY <1>10, <1>12, <2>1 DEF StackOK
    <3>2. \A j \in (1..N+1) \ (1..N) : stack'[j].right.self # stack[i].right.self
      BY <1>4, <1>10, <1>13, <2>1
    <3>3. /\ DOMAIN stack \subseteq DOMAIN stack' /\ stack'[i] = stack[i]
          /\ DOMAIN stack' \ DOMAIN stack = (1..N+1) \ (1..N)
      BY <1>10, <1>11, <2>1
    <3>4. /\ \A j \in DOMAIN stack :
               /\ stack'[j].right.self = stack[j].right.self
               /\ stack'[j].right.isLeaf = stack[j].right.isLeaf
          /\ \A j \in DOMAIN stack' \ DOMAIN stack : stack'[j].right.self # stack[i].right.self
      BY <1>10, <1>11, <3>2, <3>3
    <3> QED
      BY <3>1, <3>3, <3>4, FrameKept
  <2>2. CASE i = N
    <3>1. FrameOK(stack, i, disk, self, inserted) /\ stack[i] = Top /\ i \in 1..N
      BY <1>2, <1>10, <1>12, <2>2 DEF StackOK, N, Top
    <3>2. \A q : q = self \/ Settled(disk, q) => Hangs(stack', i, disk, q)
      BY <1>4, <1>10, <2>2 DEF Hangs
    <3>3. Hangs(stack', i, disk, l.parent) /\ Hangs(stack', i, disk, r.parent)
      BY <1>6, <1>7, <1>8, <3>2
    <3>4. \A j \in 1..N+1 : stack'[j].right.self = stack'[i].right.self => j = i
      <4>1. stack'[i].right.self = stack[i].right.self /\ stack[i].right.self # self
        BY <1>11, <1>13, <3>1
      <4>2. ASSUME NEW j \in 1..N, stack'[j].right.self = stack'[i].right.self
            PROVE  j = i
        BY <1>10, <1>11, <3>1, <4>1, <4>2 DEF FrameOK
      <4> QED
        BY <1>4, <1>10, <4>1, <4>2
    <3> QED
      BY <1>7, <1>8, <1>10, <1>11, <2>2, <3>1, <3>3, <3>4 DEF FrameOK
  <2>3. CASE i = N + 1
    <3>1. Grown.self \in Pages(disk) /\ disk[Grown.self].isLeaf = FALSE
          /\ Settled(disk, Grown.parent)
      BY <1>1, <1>2, GrownNode
    <3>2. \A j \in 1..N+1 : stack'[j].right.self = self => j = N + 1
      BY <1>10, <1>11, <1>13
    <3> QED
      BY <1>3, <1>4, <1>10, <2>3, <3>1, <3>2 DEF FrameOK, Hangs
  <2> QED
    BY <1>10, <2>1, <2>2, <2>3
<1>15. StackOK(stack', disk, self, inserted)
  BY <1>10, <1>14 DEF StackOK
<1>16. FileOK(disk, self, inserted, {})
  BY <1>3, FileGrows DEF IInv
<1>17. Scalars' /\ SearchSound'
  BY <1>1, <1>3 DEF IInv, Scalars, SearchSound, ghost
<1> QED
  BY <1>1, <1>3, <1>10, <1>15, <1>16, <1>17 DEF IInv, ghost

-----------------------------------------------------------------------------
(* The file after the innermost frame has written its two halves. *)
LEMMA ReturnFile ==
  ASSUME IInv, Return
  PROVE  /\ FileOK(disk', mem.size, inserted, {})
         /\ Pages(disk') = Pages(disk) \cup {Top.right.self}
         /\ \A p \in Pages(disk) : disk'[p].isLeaf = disk[p].isLeaf
         /\ \A q : Settled(disk, q) => Settled(disk', q)
         /\ ~Top.right.isLeaf => Settled(disk', Top.right.self)
<1> DEFINE left  == Top.left
           right == Top.right
           S  == inserted
           X  == IF right.isLeaf THEN {} ELSE {right.self}
           g0 == IF right.isLeaf THEN disk ELSE UpdateParent(disk, right)
           g1 == NodeFlush(g0, left)
<1>1. pc = "unwind" /\ disk' = NodeFlush(g1, right)
  BY DEF Return
<1>2. Len(stack) > 0 /\ mem.size \in Nat /\ FileOK(disk, mem.size, S, {})
  BY <1>1, FileFacts DEF IInv, Scalars
<1>3. /\ Good(left, S) /\ Good(right, S)
      /\ left.self \in Pages(disk) /\ left.self \in 1..mem.size
      /\ left.isLeaf = disk[left.self].isLeaf
      /\ right.self \in (1..mem.size) \ Pages(disk)
      /\ Settled(disk, left.parent) /\ Settled(disk, right.parent)
  BY <1>2, TopFrame, FileFacts DEF FrameOK, Top
<1> HIDE DEF left, right, S
<1>4. /\ FileOK(g0, mem.size, S, X)
      /\ Pages(g0) = Pages(disk)
      /\ \A p \in Pages(disk) : g0[p].isLeaf = disk[p].isLeaf
      /\ \A q : Settled(disk, q) => Settled(g0, q)
  <2>1. CASE right.isLeaf
    BY <1>2, <2>1
  <2>2. CASE ~right.isLeaf
    <3>1. right \in BptreeNode /\ g0 = UpdateParent(disk, right) /\ X = {right.self}
      BY <1>3, <2>2 DEF Good
    <3> HIDE DEF g0, X
    <3>2. FileOK(g0, mem.size, S, {right.self})
      BY <1>2, <3>1, UpdateParentFile
    <3>3. Pages(g0) = Pages(disk)
      BY <1>2, <3>1, UpdateParentFile
    <3>4. \A p \in Pages(disk) : g0[p].isLeaf = disk[p].isLeaf
      BY <1>2, <3>1, <3>2, <3>3, UpdateParentFile
    <3>5. \A q : Settled(disk, q) => Settled(g0, q)
      BY <1>2, <3>1, UpdateParentFile
    <3> QED
      BY <3>1, <3>2, <3>3, <3>4, <3>5
  <2> QED
    BY <2>1, <2>2
<1> HIDE DEF X, g0
<1>5. /\ FileOK(g1, mem.size, S, X)
      /\ Pages(g1) = Pages(disk)
      /\ \A p \in Pages(disk) : g1[p].isLeaf = disk[p].isLeaf
      /\ \A q : Settled(disk, q) => Settled(g1, q)
  <2>1. Settled(g0, left.parent) /\ left.isLeaf = g0[left.self].isLeaf
    BY <1>3, <1>4
  <2>2. /\ FileOK(g1, mem.size, S, X)
        /\ Pages(g1) = Pages(g0) \cup {left.self}
        /\ \A p \in Pages(g0) : g1[p].isLeaf = g0[p].isLeaf
        /\ \A q : Settled(g0, q) => Settled(g1, q)
    BY <1>2, <1>3, <1>4, <2>1, FlushFile
  <2> QED
    BY <1>3, <1>4, <2>2
<1> HIDE DEF g1
<1>6. /\ FileOK(disk', mem.size, S, X)
      /\ Pages(disk') = Pages(disk) \cup {right.self}
      /\ disk'[right.self] = right
      /\ \A p \in Pages(disk) : disk'[p].isLeaf = disk[p].isLeaf
      /\ \A q : Settled(disk, q) => Settled(disk', q)
  <2>1. Settled(g1, right.parent) /\ right.self \notin Pages(g1)
    BY <1>3, <1>5
  <2>2. /\ FileOK(disk', mem.size, S, X)
        /\ Pages(disk') = Pages(g1) \cup {right.self}
        /\ disk'[right.self] = right
        /\ \A p \in Pages(g1) : disk'[p].isLeaf = g1[p].isLeaf
        /\ \A q : Settled(g1, q) => Settled(disk', q)
    BY <1>1, <1>2, <1>3, <1>5, <2>1, FlushFile
  <2> QED
    BY <1>5, <2>2
<1>7. ~right.isLeaf => Settled(disk', right.self)
  BY <1>6 DEF Settled
<1>8. \A q \in X : Settled(disk', q)
  BY <1>7 DEF X
<1>9. FileOK(disk', mem.size, S, {})
  BY <1>6, <1>8 DEF FileOK
<1> QED
  BY <1>6, <1>7, <1>9 DEF right, S

(* The innermost frame finishes; the frames below may hang on what it wrote. *)
LEMMA ReturnInv == ASSUME IInv, Return PROVE IInv'
<1> DEFINE N == Len(stack)
<1>1. /\ pc = "unwind" /\ stack' = Pop(stack)
      /\ pc' = IF N = 1 THEN "flush" ELSE "unwind"
      /\ hdr' \in {hdr, Trashed}
      /\ UNCHANGED <<mem, arg, at, ghost>>
  BY DEF Return
<1>2. N > 0 /\ N \in Nat /\ DOMAIN stack = 1..N /\ N \in 1..N /\ stack \in Seq(Frame)
  <2>1. N > 0
    BY <1>1 DEF IInv, Scalars
  <2> QED
    BY <2>1, TopFrame
<1>3. /\ Pages(disk') = Pages(disk) \cup {Top.right.self}
      /\ \A p \in Pages(disk) : disk'[p].isLeaf = disk[p].isLeaf
      /\ \A q : Settled(disk, q) => Settled(disk', q)
      /\ ~Top.right.isLeaf => Settled(disk', Top.right.self)
      /\ FileOK(disk', mem.size, inserted, {})
  BY ReturnFile
<1>4. stack[N] = Top
  BY DEF Top
<1> HIDE DEF N
<1>5. /\ stack' \in Seq(Frame) /\ Len(stack') = N - 1 /\ DOMAIN stack' = 1..N-1
      /\ \A i \in 1..N-1 : stack'[i] = stack[i] /\ i \in 1..N /\ i # N
  <2>1. stack' = [i \in 1..N-1 |-> stack[i]]
    BY <1>1 DEF Pop, N
  <2>2. \A i \in 1..N : stack[i] \in Frame
    BY <1>2, ElementOfSeq DEF N
  <2>3. stack' \in [1..N-1 -> Frame] /\ N - 1 \in Nat
        /\ \A i \in 1..N-1 : i \in 1..N /\ i # N
    BY <1>2, <2>1, <2>2
  <2>4. stack' \in Seq(Frame) /\ Len(stack') = N - 1
    BY <2>3
  <2> QED
    BY <2>1, <2>3, <2>4
<1>6. \A i \in DOMAIN stack : FrameOK(stack, i, disk, mem.size, inserted)
  BY DEF IInv, StackOK
<1>7. ASSUME NEW i \in DOMAIN stack'
      PROVE  FrameOK(stack', i, disk', mem.size, inserted)
  <2>1. FrameOK(stack, i, disk, mem.size, inserted) /\ i \in 1..N-1 /\ stack'[i] = stack[i]
    BY <1>2, <1>5, <1>6
  <2>2. stack[i].right.self # Top.right.self
    BY <1>2, <1>4, <1>5, <2>1 DEF FrameOK
  <2>3. ASSUME NEW q, Hangs(stack, i, disk, q) PROVE Hangs(stack', i, disk', q)
    <3>1. CASE Settled(disk, q)
      BY <1>3, <3>1 DEF Hangs
    <3>2. ASSUME NEW j \in DOMAIN stack, j > i, q = stack[j].right.self, ~stack[j].right.isLeaf
          PROVE  Hangs(stack', i, disk', q)
      <4>1. CASE j = N
        BY <1>3, <1>4, <3>2, <4>1 DEF Hangs
      <4>2. CASE j # N
        <5>1. j \in 1..N-1
          BY <1>2, <4>2
        <5> QED
          BY <1>5, <3>2, <5>1 DEF Hangs
      <4> QED
        BY <4>1, <4>2
    <3> QED
      BY <2>3, <3>1, <3>2 DEF Hangs
  <2>4. \A j \in DOMAIN stack' : stack'[j].right.self = stack'[i].right.self => j = i
    BY <1>2, <1>5, <2>1 DEF FrameOK
  <2> QED
    BY <1>3, <2>1, <2>2, <2>3, <2>4 DEF FrameOK
<1>8. StackOK(stack', disk', mem.size, inserted)
  BY <1>5, <1>7 DEF StackOK
<1>9. Scalars'
  BY <1>1 DEF IInv, Scalars, ghost
<1>10. SearchSound'
  BY <1>1 DEF IInv, SearchSound, ghost
<1>11. pc' \in {"climb", "unwind"} <=> Len(stack') > 0
  BY <1>1, <1>2, <1>5
<1> QED
  BY <1>1, <1>3, <1>8, <1>9, <1>10, <1>11 DEF IInv, ghost

-----------------------------------------------------------------------------
(* The header is written last; no page changes. *)
LEMMA BptreeFlushInv == ASSUME IInv, BptreeFlush PROVE IInv'
<1>1. /\ pc = "flush" /\ pc' = "idle" /\ hdr' = mem
      /\ UNCHANGED <<mem, disk, arg, at, stack, ghost>>
  BY DEF BptreeFlush
<1>2. Scalars'
  BY <1>1 DEF IInv, Scalars, ghost
<1> QED
  BY <1>1, <1>2 DEF IInv, ghost, SearchSound, FileOK, StackOK, FrameOK,
     Pages, Settled, Hangs, Good

(***************************************************************************)
(* What a search collects at a good leaf: every slot it looks at, the one  *)
(* above the last match included, holds an inserted entry or was never     *)
(* written, and then its row is NODE_EOF.                                  *)
(***************************************************************************)
LEMMA SearchLeafInv == ASSUME IInv, SearchLeaf PROVE IInv'
<1> DEFINE node   == disk[at]
           k      == arg.key
           looked == {i \in 0..GetIndex(node, k) : i < M /\ ~node.del[i]}
           equal  == {i \in looked : node.key[i] = k}
           any    == {i \in looked : node.key[i] = Uninit}
<1>1. /\ pc = "seek" /\ pc' = "idle" /\ Present(at) /\ node.isLeaf
      /\ UNCHANGED <<file, arg, at, stack, inserted, live>>
  BY DEF SearchLeaf, AtLeaf
<1>2. PICK lucky \in SUBSET any :
        reply' = [op |-> "search", key |-> k, rows |-> Rows(node, equal \cup lucky)]
  BY DEF SearchLeaf
<1>3. /\ node \in BptreeNode /\ Initialised(node) /\ SlotsFrom(node, inserted)
      /\ k \in Int
  BY <1>1, FileFacts DEF Good, IInv, Scalars, Arg
<1>4. GetIndex(node, k) \in Nat /\ M \in Nat
  <2>1. GetIndex(node, k) \in 0..node.size
    BY <1>3, GetIndexDefined DEF IsGetIndex
  <2>2. node.size \in 0..M /\ M \in Nat
    BY <1>3, NodeFields
  <2> QED
    BY <2>1, <2>2
<1> HIDE DEF node
<1>5. \A i \in looked : i \in 0..M-1
  BY <1>4
<1> HIDE DEF looked
<1>6. ASSUME NEW i \in equal \cup lucky
      PROVE  /\ node.dat[i] = NODE_EOF \/ <<k, node.dat[i]>> \in inserted
             /\ node.dat[i] \in Int
  <2>1. i \in 0..M-1 /\ node.key[i] \in {k, Uninit}
    BY <1>5
  <2>2. node.dat[i] \in Int
    BY <1>3, <1>4, <2>1, NodeFields
  <2>3. \/ <<node.key[i], node.dat[i]>> \in inserted
        \/ node.dat[i] = NODE_EOF
    BY <1>3, <2>1 DEF SlotsFrom
  <2>4. CASE node.key[i] = k
    BY <2>2, <2>3, <2>4
  <2>5. CASE node.key[i] = Uninit
    <3>1. inserted \subseteq Int \X Int
      BY DEF IInv, Scalars
    <3>2. <<Uninit, node.dat[i]>> \notin inserted
      BY <3>1, UninitAssumption
    <3> QED
      BY <2>2, <2>3, <2>5, <3>2
  <2> QED
    BY <2>1, <2>4, <2>5
<1> HIDE DEF equal, any, k
<1>7. /\ reply'.op = "search" /\ reply'.key = k
      /\ reply'.rows = {node.dat[i] : i \in equal \cup lucky}
      /\ reply' \in Reply
  BY <1>2, <1>3, <1>6 DEF Rows, Reply
<1>8. SearchSound'
  BY <1>1, <1>6, <1>7 DEF SearchSound
<1>9. Scalars'
  BY <1>1, <1>7 DEF IInv, Scalars, file
<1> QED
  BY <1>1, <1>8, <1>9 DEF IInv, file, FileOK, StackOK, FrameOK,
     Pages, Settled, Hangs, Good

(* Marks on a leaf leave its keys and rows where they are. *)
LEMMA MarkedGood ==
  ASSUME NEW n, NEW S, Good(n, S), NEW hit,
         NEW m, m = Marked(n, hit)
  PROVE  /\ Good(m, S) /\ m.self = n.self /\ m.parent = n.parent
         /\ m.isLeaf = n.isLeaf
<1> DEFINE del == [i \in 0..M-1 |-> n.del[i] \/ i \in hit]
<1>1. n \in BptreeNode
  BY DEF Good
<1>2. m = [n EXCEPT !.del = del]
  BY DEF Marked
<1>3. del \in [0..M-1 -> BOOLEAN]
  OBVIOUS
<1> HIDE DEF del
<1>4. /\ m \in BptreeNode /\ m.self = n.self /\ m.parent = n.parent
      /\ m.isLeaf = n.isLeaf /\ m.size = n.size /\ m.key = n.key /\ m.dat = n.dat
  BY <1>1, <1>2, <1>3 DEF BptreeNode
<1>5. Good(m, S)
  BY <1>4 DEF Good, Initialised, Sorted, SlotsFrom
<1> QED
  BY <1>4, <1>5

(* Deleting marks the matching slots of one leaf. *)
LEMMA DeleteLeafInv == ASSUME IInv, DeleteLeaf PROVE IInv'
<1> DEFINE node  == disk[at]
           index == GetIndex(node, arg.key)
           hit   == {i \in 0..index-1 : /\ \A j \in i..index-1 : node.key[j] >= arg.key
                                        /\ node.key[i] = arg.key
                                        /\ ~node.del[i]}
           marked == Marked(node, hit)
<1>1. /\ pc = "seek" /\ pc' = "idle" /\ Present(at)
      /\ disk' = NodeFlush(disk, marked)
      /\ reply' = [op |-> "delete", key |-> arg.key, rows |-> Rows(node, hit)]
      /\ live' \subseteq live
      /\ UNCHANGED <<hdr, mem, arg, at, stack, inserted>>
  BY DEF DeleteLeaf, AtLeaf
<1>2. /\ at \in Pages(disk) /\ at \in 1..mem.size /\ mem.size \in Nat
      /\ Good(node, inserted) /\ node.self = at /\ Settled(disk, node.parent)
  BY <1>1, FileFacts DEF IInv, FileOK
<1>3. hit \subseteq 0..M-1
  <2>1. node \in BptreeNode /\ Initialised(node) /\ arg.key \in Int
    BY <1>2 DEF Good, IInv, Scalars, Arg
  <2>2. index \in 0..node.size
    BY <2>1, GetIndexDefined DEF IsGetIndex
  <2>3. node.size \in 0..M /\ M \in Nat
    BY <2>1, NodeFields
  <2> QED
    BY <2>2, <2>3
<1> HIDE DEF hit
<1>4. /\ Good(marked, inserted) /\ marked.self = at
      /\ marked.parent = node.parent /\ marked.isLeaf = node.isLeaf
  BY <1>2, MarkedGood
<1> HIDE DEF marked
<1>5. /\ FileOK(disk', mem.size, inserted, {})
      /\ Pages(disk') = Pages(disk) \cup {at}
      /\ \A p \in Pages(disk) : disk'[p].isLeaf = disk[p].isLeaf
      /\ \A q : Settled(disk, q) => Settled(disk', q)
  <2>1. FileOK(disk, mem.size, inserted, {})
    BY DEF IInv
  <2>2. marked.self \in 1..mem.size /\ Settled(disk, marked.parent)
    BY <1>2, <1>4
  <2>3. marked.self \in Pages(disk) => marked.isLeaf = disk[marked.self].isLeaf
    BY <1>4
  <2>4. disk' = NodeFlush(disk, marked) /\ mem.size \in Nat /\ Good(marked, inserted)
    BY <1>1, <1>2, <1>4
  <2> HIDE DEF node
  <2>5. /\ FileOK(disk', mem.size, inserted, {})
        /\ Pages(disk') = Pages(disk) \cup {marked.self}
        /\ \A p \in Pages(disk) : disk'[p].isLeaf = disk[p].isLeaf
        /\ \A q : Settled(disk, q) => Settled(disk', q)
    BY <2>1, <2>2, <2>3, <2>4, FlushFile
  <2> QED
    BY <2>5, <1>4
<1>6. StackOK(stack, disk', mem.size, inserted)
  <2>1. \A i \in DOMAIN stack : stack[i].right.self \notin {at}
    BY <1>2 DEF IInv, StackOK, FrameOK
  <2>2. StackOK(stack, disk, mem.size, inserted)
    BY DEF IInv
  <2> QED
    BY <1>2, <1>5, <2>1, <2>2, StackKeeps
<1>7. reply' \in Reply /\ reply'.op = "delete"
  <2>1. node \in BptreeNode /\ arg.key \in Int
    BY <1>2 DEF Good, IInv, Scalars, Arg
  <2>2. \A i \in hit : node.dat[i] \in Int
    BY <1>3, <2>1, NodeFields
  <2> QED
    BY <1>1, <2>1, <2>2 DEF Rows, Reply
<1>8. Scalars'
  BY <1>1, <1>7 DEF IInv, Scalars
<1>9. SearchSound'
  BY <1>7 DEF SearchSound
<1> QED
  BY <1>1, <1>5, <1>6, <1>8, <1>9 DEF IInv

(* Nothing to search or to mark. *)
LEMMA NotFoundInv == ASSUME IInv, NotFound PROVE IInv'
<1>1. /\ pc = "seek" /\ pc' = "idle"
      /\ reply' = [op |-> arg.op, key |-> arg.key, rows |-> {}]
      /\ arg.op # "insert" /\ live' \subseteq live
      /\ UNCHANGED <<file, arg, at, stack, inserted>>
  BY DEF NotFound
<1>2. Scalars'
  BY <1>1 DEF IInv, Scalars, file, Arg, Reply
<1>3. SearchSound'
  BY <1>1 DEF SearchSound
<1> QED
  BY <1>1, <1>2, <1>3 DEF IInv, file, FileOK, StackOK, FrameOK,
     Pages, Settled, Hangs, Good

-----------------------------------------------------------------------------
(* Every step keeps the invariant: one lemma per action of the tree code. *)
LEMMA StepInv == ASSUME IInv, [Next]_vars PROVE IInv'
<1>1. CASE Start
  BY <1>1, StartInv
<1>2. CASE Step
  BY <1>2, DescendInv, InsertFirstInv, InsertIntoLeafNodeInv, NewRootInv,
     InsertIntoNodeInv, SplitNodeInv, ReturnInv, BptreeFlushInv,
     SearchLeafInv, DeleteLeafInv, NotFoundInv DEF Step
<1>3. CASE UNCHANGED vars
  BY <1>3 DEF vars, IInv, Scalars, file, ghost, SearchSound, FileOK, StackOK,
     FrameOK, Pages, Settled, Hangs, Good
<1> QED
  BY <1>1, <1>2, <1>3 DEF Next

(* The invariant of the index file holds in every reachable state. *)
THEOREM Invariance == Spec => []IInv
<1>1. Init => IInv
  BY InitInv
<1>2. IInv /\ [Next]_vars => IInv'
  BY StepInv
<1> QED
  BY <1>1, <1>2, PTL DEF Spec

(* The nodes a call may meet are pages and nodes on the stack, so good ones. *)
LEMMA NodesGood ==
  ASSUME IInv
  PROVE  \A n \in Nodes : Good(n, inserted)
<1>1. \A p \in Written : Good(disk[p], inserted)
  BY DEF IInv, FileOK, Written, Pages
<1>2. \A i \in DOMAIN stack : Good(stack[i].left, inserted) /\ Good(stack[i].right, inserted)
  BY DEF IInv, StackOK, FrameOK
<1> QED
  BY <1>1, <1>2 DEF Nodes

(* Every variable of the index file keeps its type. *)
THEOREM TypeCorrect == Spec => []TypeOK
<1>1. IInv => TypeOK
  BY DEF IInv, Scalars, FileOK, StackOK, TypeOK
<1> QED
  BY <1>1, Invariance, PTL

(***************************************************************************)
(* GetIndex and the shift loops only ever run on nodes they are right for: *)
(* sorted, initialised below size and not full.                            *)
(***************************************************************************)
THEOREM NodesStaySorted == Spec => []NodesSorted
<1>1. IInv => NodesSorted
  BY NodesGood DEF NodesSorted, Good
<1> QED
  BY <1>1, Invariance, PTL

(* No leaf slot ever pairs a key with another key's row or a page number. *)
THEOREM LeavesHoldEntries == Spec => []LeafSlotsInserted
<1>1. IInv => LeafSlotsInserted
  BY NodesGood DEF LeafSlotsInserted, Good, SlotsFrom
<1> QED
  BY <1>1, Invariance, PTL

(***************************************************************************)
(* BptreeSearch never answers with the row of another key: at worst with   *)
(* NODE_EOF, from the slot past the last entry.                            *)
(***************************************************************************)
THEOREM SearchIsSound == Spec => []SearchSound
<1>1. IInv => SearchSound
  BY DEF IInv
<1> QED
  BY <1>1, Invariance, PTL

-----------------------------------------------------------------------------
(***************************************************************************)
(* Where calls go.  In the middle of an insertion the file may point at    *)
(* pages that are not written yet, so that a descent stays inside the file *)
(* is a fact about whole calls.  The pages that are missing are the right  *)
(* halves on the stack, and a call begins with an empty stack.             *)
(***************************************************************************)
Allocated(f, st) == Pages(f) \cup {st[i].right.self : i \in DOMAIN st}

NodesOf(f, st) ==
  {f[p] : p \in Pages(f)} \cup {st[i].left : i \in DOMAIN st}
    \cup {st[i].right : i \in DOMAIN st}

PointsInto(n, A) == ~n.isLeaf => Children(n) \subseteq A

Linked(f, st) == \A n \in NodesOf(f, st) : PointsInto(n, Allocated(f, st))

(* A page a descent may stand at. *)
Begins(f, p) == p \in Pages(f) \/ (f = <<>> /\ p = NODE_EOF)

LInv ==
  /\ Linked(disk, stack)
  /\ Begins(disk, mem.root)
  /\ pc = "seek" => Begins(disk, at)

SamePointers(m, n) == m.isLeaf = n.isLeaf /\ m.size = n.size /\ m.dat = n.dat

(* Nodes that point where earlier ones pointed, or at pages that exist. *)
LEMMA LinksKept ==
  ASSUME NEW f, NEW st, Linked(f, st),
         NEW g, NEW t, Allocated(f, st) \subseteq Allocated(g, t),
         \A m \in NodesOf(g, t) :
           \/ PointsInto(m, Allocated(g, t))
           \/ \E n \in NodesOf(f, st) : SamePointers(m, n)
  PROVE  Linked(g, t)
<1>1. ASSUME NEW m \in NodesOf(g, t), NEW n \in NodesOf(f, st), SamePointers(m, n)
      PROVE  PointsInto(m, Allocated(g, t))
  <2>1. PointsInto(n, Allocated(f, st))
    BY DEF Linked
  <2>2. Children(m) = Children(n) /\ m.isLeaf = n.isLeaf
    BY <1>1 DEF SamePointers, Children
  <2> QED
    BY <2>1, <2>2 DEF PointsInto
<1> QED
  BY <1>1 DEF Linked

(* One page is written: it may point at itself and at what there was. *)
LEMMA LinksFlushed ==
  ASSUME NEW f \in Seq(Page), NEW st, Linked(f, st),
         NEW node \in BptreeNode, node.self >= 1,
         PointsInto(node, Allocated(f, st)),
         NEW g, g = NodeFlush(f, node)
  PROVE  /\ Linked(g, st)
         /\ g \in Seq(Page)
         /\ Pages(g) = Pages(f) \cup {node.self}
         /\ Allocated(g, st) = Allocated(f, st) \cup {node.self}
<1>1. /\ g \in Seq(Page)
      /\ Pages(g) = Pages(f) \cup {node.self}
      /\ g[node.self] = node
      /\ \A p \in Pages(f) : p # node.self => g[p] = f[p]
  BY FlushPages
<1>2. Allocated(g, st) = Allocated(f, st) \cup {node.self}
  BY <1>1 DEF Allocated
<1>3. ASSUME NEW m \in NodesOf(g, st)
      PROVE  m = node \/ m \in NodesOf(f, st)
  BY <1>1 DEF NodesOf
<1>4. \A m : SamePointers(m, m)
  BY DEF SamePointers
<1>5. PointsInto(node, Allocated(g, st))
  BY <1>2 DEF PointsInto
<1>6. Linked(g, st)
  BY <1>2, <1>3, <1>4, <1>5, LinksKept
<1> QED
  BY <1>1, <1>2, <1>6

(* A new parent field does not change where a node points. *)
LEMMA ReparentedPointers ==
  ASSUME NEW n \in BptreeNode, NEW q
  PROVE  SamePointers([n EXCEPT !.parent = q], n)
  BY DEF SamePointers, BptreeNode

(* While there is a page, a descent that may begin begins at a page. *)
LEMMA BeginsAtPage ==
  ASSUME NEW f, NEW p, Begins(f, p), NEW x \in Pages(f), NEW g, Pages(f) \subseteq Pages(g)
  PROVE  Begins(g, p)
<1>1. f # <<>>
  <2>1. f = <<>> => DOMAIN f = {}
    OBVIOUS
  <2> QED
    BY <2>1 DEF Pages
<1> QED
  BY <1>1 DEF Begins

(* A node of the file or of a frame is a node, and points at allocated pages. *)
LEMMA NodeKnown ==
  ASSUME IInv, LInv, NEW n \in NodesOf(disk, stack)
  PROVE  n \in BptreeNode /\ PointsInto(n, Allocated(disk, stack))
<1>1. \A p \in Pages(disk) : disk[p] \in BptreeNode
  BY DEF IInv, FileOK, Good
<1>2. \A i \in DOMAIN stack : stack[i].left \in BptreeNode /\ stack[i].right \in BptreeNode
  BY DEF IInv, StackOK, FrameOK, Good
<1> QED
  BY <1>1, <1>2 DEF NodesOf, LInv, Linked

(* Between insertions every allocated page is in the file. *)
LEMMA NothingMissing ==
  ASSUME IInv, pc \in {"idle", "seek", "flush"}
  PROVE  Len(stack) = 0 /\ DOMAIN stack = {} /\ Allocated(disk, stack) = Pages(disk)
<1>1. Len(stack) = 0 /\ DOMAIN stack = {}
  BY LenProperties DEF IInv, StackOK
<1> QED
  BY <1>1 DEF Allocated

(* A page is read, and the slot it is left by names a page of the file. *)
LEMMA DescendLinks == ASSUME IInv, LInv, Descend PROVE LInv'
<1>1. /\ pc = "seek" /\ at \in Pages(disk) /\ ~disk[at].isLeaf
      /\ at' = disk[at].dat[GetIndex(disk[at], arg.key)]
      /\ UNCHANGED <<file, pc, arg, stack, ghost>>
  BY FileFacts DEF Descend
<1>2. GetIndex(disk[at], arg.key) \in 0..disk[at].size
  <2>1. disk[at] \in BptreeNode /\ Initialised(disk[at]) /\ arg.key \in Int
    BY <1>1, FileFacts DEF Good, IInv, Scalars, Arg
  <2> QED
    BY <2>1, GetIndexDefined DEF IsGetIndex
<1>3. at' \in Children(disk[at])
  BY <1>1, <1>2 DEF Children
<1>4. Children(disk[at]) \subseteq Pages(disk)
  <2>1. disk[at] \in NodesOf(disk, stack)
    BY <1>1 DEF NodesOf
  <2> QED
    BY <1>1, <2>1, NodeKnown, NothingMissing DEF PointsInto
<1> QED
  BY <1>1, <1>3, <1>4 DEF LInv, Begins, Linked, file

(* The first page of a tree is its root, a leaf. *)
LEMMA InsertFirstLinks == ASSUME IInv, LInv, InsertFirst PROVE LInv'
<1> DEFINE self == mem.size + 1
           root == FirstRoot(self, arg.key, arg.dat)
<1>1. /\ disk' = NodeFlush(disk, root) /\ mem' = [root |-> self, size |-> self]
      /\ pc' = "flush" /\ stack' = stack
  BY DEF InsertFirst
<1>2. self \in Nat /\ self >= 1 /\ disk \in Seq(Page)
  BY FileFacts DEF IInv, FileOK
<1>3. root \in BptreeNode /\ root.self = self /\ root.isLeaf
  <2>1. arg.key \in Int /\ arg.dat \in Int
    BY EntryTyped
  <2> DEFINE S == {<<arg.key, arg.dat>>}
  <2>2. <<arg.key, arg.dat>> \in S
    OBVIOUS
  <2> HIDE DEF self, S
  <2>3. Good(root, S) /\ root.self = self
    BY <1>2, <2>1, <2>2, FirstRootNode
  <2>4. root.isLeaf
    BY DEF FirstRoot, NewBptreeNode
  <2> QED
    BY <2>3, <2>4 DEF Good
<1> HIDE DEF root
<1>4. PointsInto(root, Allocated(disk, stack))
  BY <1>3 DEF PointsInto
<1>5. Linked(disk', stack) /\ Pages(disk') = Pages(disk) \cup {self}
  BY <1>1, <1>2, <1>3, <1>4, LinksFlushed DEF LInv
<1> QED
  BY <1>1, <1>5 DEF LInv, Begins

(* A leaf is written or split: neither half points anywhere. *)
LEMMA InsertIntoLeafNodeLinks == ASSUME IInv, LInv, InsertIntoLeafNode PROVE LInv'
<1> DEFINE self == mem.size + 1
           node == InsertEntry(disk[at], arg.key, arg.dat)
           low  == LowerHalf(node)
           upp  == UpperHalf(node, self)
<1>1. pc = "seek" /\ at \in Pages(disk) /\ disk[at].isLeaf /\ pc' # "seek"
  BY FileFacts DEF InsertIntoLeafNode, AtLeaf
<1>2. /\ node \in BptreeNode /\ node.self = at /\ at >= 1 /\ node.isLeaf
      /\ Initialised(node) /\ Sorted(node)
      /\ self \in Nat /\ disk \in Seq(Page) /\ stack \in Seq(Frame)
  <2>1. /\ disk[at] \in BptreeNode /\ disk[at].size < M /\ disk[at].self = at
        /\ Initialised(disk[at]) /\ Sorted(disk[at]) /\ at >= 1
    BY <1>1, FileFacts DEF Good
  <2> QED
    BY <1>1, <2>1, EntryTyped, FileFacts, InsertEntryNode DEF IInv, FileOK, StackOK
<1>3. \/ disk' = NodeFlush(disk, node) /\ UNCHANGED <<mem, stack>>
      \/ /\ node.size = M /\ mem' = [mem EXCEPT !.size = self]
         /\ stack' = Append(stack, [left |-> low, right |-> upp])
         /\ UNCHANGED disk
  BY DEF InsertIntoLeafNode
<1> HIDE DEF node
<1>4. mem'.root = mem.root
  BY <1>3 DEF IInv, Scalars, Header
<1>5. CASE disk' = NodeFlush(disk, node) /\ UNCHANGED <<mem, stack>>
  <2>1. PointsInto(node, Allocated(disk, stack))
    BY <1>2 DEF PointsInto
  <2>2. Linked(disk', stack) /\ Pages(disk') = Pages(disk) \cup {at}
    BY <1>2, <1>5, <2>1, LinksFlushed DEF LInv
  <2>3. Begins(disk', mem.root)
    BY <1>1, <2>2, BeginsAtPage DEF LInv
  <2> QED
    BY <1>1, <1>4, <1>5, <2>2, <2>3 DEF LInv
<1>6. CASE /\ node.size = M /\ disk' = disk
           /\ stack' = Append(stack, [left |-> low, right |-> upp])
  <2>1. low.isLeaf /\ upp.isLeaf
    BY <1>2, <1>6, LowerHalfNode, UpperHalfNode
  <2> DEFINE f == [left |-> low, right |-> upp]
  <2>2. f.left = low /\ f.right = upp
    OBVIOUS
  <2> HIDE DEF low, upp, f
  <2>3. stack' = <<f>> /\ DOMAIN stack = {}
    <3>1. stack' = Append(stack, f)
      BY <1>6 DEF f
    <3>2. stack = <<>> /\ DOMAIN stack = {}
      BY <1>1, <1>2, NothingMissing, EmptySeq
    <3> QED
      BY <3>1, <3>2
  <2>4. DOMAIN stack' = {1} /\ stack'[1] = f
    BY <2>3
  <2>5. Allocated(disk, stack) \subseteq Allocated(disk', stack')
    BY <1>6, <2>3 DEF Allocated
  <2>6. ASSUME NEW m \in NodesOf(disk', stack')
        PROVE  m \in NodesOf(disk, stack) \/ m = low \/ m = upp
    BY <1>6, <2>2, <2>4 DEF NodesOf
  <2>7. \A m : SamePointers(m, m)
    BY DEF SamePointers
  <2>8. PointsInto(low, Allocated(disk', stack')) /\ PointsInto(upp, Allocated(disk', stack'))
    BY <2>1 DEF PointsInto
  <2>9. Linked(disk', stack')
    BY <2>5, <2>6, <2>7, <2>8, LinksKept DEF LInv
  <2> QED
    BY <1>1, <1>4, <1>6, <2>9 DEF LInv
<1> QED
  BY <1>3, <1>5, <1>6

(* The innermost frame: its left half is in the file, its right is not yet. *)
LEMMA TopLinks ==
  ASSUME IInv, LInv, Len(stack) > 0
  PROVE  /\ Top.left \in NodesOf(disk, stack) /\ Top.right \in NodesOf(disk, stack)
         /\ Top.left \in BptreeNode /\ Top.right \in BptreeNode
         /\ Top.left.self \in Pages(disk) /\ Top.left.self >= 1
         /\ Top.right.self \in Allocated(disk, stack) /\ Top.right.self >= 1
         /\ disk \in Seq(Page) /\ mem.size + 1 \in Nat /\ mem.size + 1 >= 1
<1>1. /\ Len(stack) \in DOMAIN stack
      /\ FrameOK(stack, Len(stack), disk, mem.size, inserted)
  BY TopFrame
<1>2. Top.left \in NodesOf(disk, stack) /\ Top.right \in NodesOf(disk, stack)
      /\ Top.right.self \in Allocated(disk, stack)
  BY <1>1 DEF Top, NodesOf, Allocated
<1>3. Top.left.self \in Pages(disk) /\ Top.left.self >= 1 /\ Top.right.self >= 1
  BY <1>1, FileFacts DEF FrameOK, Top
<1> QED
  BY <1>2, <1>3, FileFacts, NodeKnown DEF IInv, FileOK

(* The frames keep their right pages when the innermost nodes are replaced. *)
LEMMA TopReplacedLinks ==
  ASSUME NEW st, NEW n \in DOMAIN stack, NEW l, NEW r,
         DOMAIN st = DOMAIN stack,
         st[n] = [left |-> l, right |-> r],
         \A i \in DOMAIN stack : i # n => st[i] = stack[i],
         \A i \in DOMAIN stack : st[i].right.self = stack[i].right.self,
         NEW f
  PROVE  /\ Allocated(f, st) = Allocated(f, stack)
         /\ \A m \in NodesOf(f, st) : m \in NodesOf(f, stack) \/ m = l \/ m = r
<1>1. Allocated(f, st) = Allocated(f, stack)
  BY DEF Allocated
<1>2. \A i \in DOMAIN stack : \/ st[i] = stack[i]
                              \/ st[i].left = l /\ st[i].right = r
  OBVIOUS
<1>3. \A m \in NodesOf(f, st) : m \in NodesOf(f, stack) \/ m = l \/ m = r
  BY <1>2 DEF NodesOf
<1> QED
  BY <1>1, <1>3

(* The new root points at the two halves, and only at them. *)
LEMMA NewRootLinks == ASSUME IInv, LInv, NewRoot PROVE LInv'
<1> DEFINE self == mem.size + 1
           root == RootOver(self, Top.right.key[0], Top.left.self, Top.right.self)
           l    == [Top.left EXCEPT !.parent = self]
           r    == [Top.right EXCEPT !.parent = self]
           A    == Allocated(disk, stack)
<1>1. /\ pc = "climb" /\ pc' = "unwind"
      /\ mem' = [root |-> self, size |-> self]
      /\ disk' = NodeFlush(disk, root) /\ stack' = WithTop(l, r)
  BY DEF NewRoot
<1>2. Len(stack) > 0
  BY <1>1 DEF IInv, Scalars
<1>3. /\ Top.left.self \in A /\ Top.right.self \in A /\ self \in Nat /\ self >= 1
      /\ Top.right.key[0] \in Int /\ Top.left.self \in Int /\ Top.right.self \in Int
      /\ Top.left \in BptreeNode /\ Top.right \in BptreeNode /\ disk \in Seq(Page)
      /\ Top.left \in NodesOf(disk, stack) /\ Top.right \in NodesOf(disk, stack)
  BY <1>2, TopLinks, TopFrame DEF Allocated
<1>4. /\ Good(l, inserted) /\ l.self = Top.left.self /\ l.isLeaf = Top.left.isLeaf
      /\ Good(r, inserted) /\ r.self = Top.right.self /\ r.isLeaf = Top.right.isLeaf
      /\ r.size = Top.right.size
      /\ SamePointers(l, Top.left) /\ SamePointers(r, Top.right)
  <2>1. Good(Top.left, inserted) /\ Good(Top.right, inserted) /\ self \in Int
    BY <1>2, <1>3, TopFrame DEF FrameOK, Top
  <2> QED
    BY <1>3, <2>1, Reparented, ReparentedPointers
<1>5. root \in BptreeNode /\ root.self = self /\ Children(root) \subseteq A
  <2> DEFINE k == Top.right.key[0]
             a == Top.left.self
             b == Top.right.self
  <2>1. self \in Nat /\ k \in Int /\ a \in Int /\ b \in Int /\ a \in A /\ b \in A
    BY <1>3
  <2>2. root = RootOver(self, k, a, b)
    OBVIOUS
  <2> HIDE DEF self, root, k, a, b, A
  <2>3. Good(root, inserted)
    BY <2>1, <2>2, RootOverNode
  <2>4. root.self = self
    BY <2>2 DEF RootOver, NewBptreeNode
  <2>5. Children(root) \subseteq {a, b}
    BY <2>1, <2>2, RootOverPoints
  <2> QED
    BY <2>1, <2>3, <2>4, <2>5 DEF Good
<1> HIDE DEF root, l, r
<1>6. /\ Linked(disk', stack) /\ Pages(disk') = Pages(disk) \cup {self}
      /\ Allocated(disk', stack) = A \cup {self}
  <2>1. PointsInto(root, Allocated(disk, stack))
    BY <1>5 DEF PointsInto
  <2> QED
    BY <1>1, <1>3, <1>5, <2>1, LinksFlushed DEF LInv
<1> DEFINE n == Len(stack)
<1>7. /\ DOMAIN stack' = DOMAIN stack /\ n \in DOMAIN stack
      /\ stack'[n] = [left |-> l, right |-> r]
      /\ \A i \in DOMAIN stack : i # n => stack'[i] = stack[i]
      /\ \A i \in DOMAIN stack : stack'[i].right.self = stack[i].right.self
  BY <1>1, <1>2, <1>4, TopReplaced, TopFrame
<1> HIDE DEF n
<1>8. /\ Allocated(disk', stack') = Allocated(disk', stack)
      /\ \A m \in NodesOf(disk', stack') : m \in NodesOf(disk', stack) \/ m = l \/ m = r
  BY <1>7, TopReplacedLinks
<1>9. Top.left \in NodesOf(disk', stack) /\ Top.right \in NodesOf(disk', stack)
  BY <1>7 DEF NodesOf, Top, n
<1>10. Linked(disk', stack')
  <2>1. \A m : SamePointers(m, m)
    BY DEF SamePointers
  <2> QED
    BY <1>4, <1>6, <1>8, <1>9, <2>1, LinksKept
<1> QED
  BY <1>1, <1>6, <1>10 DEF LInv, Begins

(***************************************************************************)
(* The node that takes the new child points at the two halves and where it *)
(* pointed before.                                                         *)
(***************************************************************************)
LEMMA GrownPoints ==
  ASSUME IInv, LInv, Len(stack) > 0, Present(Top.left.parent)
  PROVE  /\ Grown \in BptreeNode /\ Grown.self >= 1 /\ Grown.isLeaf = FALSE
         /\ Grown.self \in Pages(disk)
         /\ Children(Grown) \subseteq Allocated(disk, stack)
<1> DEFINE n == disk[Top.left.parent]
           k == Top.right.key[0]
           a == Top.left.self
           b == Top.right.self
           A == Allocated(disk, stack)
<1>1. /\ Grown \in BptreeNode /\ Grown.self \in Pages(disk) /\ Grown.isLeaf = FALSE
      /\ Grown.self >= 1
  <2>1. /\ Grown \in BptreeNode /\ Grown.self \in Pages(disk) /\ Grown.isLeaf = FALSE
        /\ Grown.self \in 1..mem.size
    BY GrownNode
  <2>2. mem.size \in Nat
    BY FileFacts
  <2> QED
    BY <2>1, <2>2
<1>2. /\ Top.left.parent \in Pages(disk) /\ Good(n, inserted)
      /\ k \in Int /\ a \in Int /\ b \in Int /\ a \in A /\ b \in A
  BY TopFrame, TopLinks, FileFacts DEF Allocated
<1>3. Grown = InsertChild(n, k, a, b)
  BY DEF Grown
<1>4. ~n.isLeaf
  <2>1. Settled(disk, Top.left.parent) /\ Top.left.parent # NODE_EOF
    BY <1>2, TopFrame, FileFacts DEF NODE_EOF
  <2> QED
    BY <2>1 DEF Settled
<1>5. Children(n) \subseteq A
  <2>1. n \in NodesOf(disk, stack)
    BY <1>2 DEF NodesOf
  <2> QED
    BY <1>4, <2>1, NodeKnown DEF PointsInto
<1> HIDE DEF n, k, a, b, A
<1>6. Children(Grown) \subseteq Children(n) \cup {a, b}
  BY <1>2, <1>3, InsertChildPoints DEF Good
<1>7. Children(Grown) \subseteq A
  BY <1>2, <1>5, <1>6
<1> QED
  BY <1>1, <1>7 DEF A

(* The parent has room: it is written with its new child. *)
LEMMA InsertIntoNodeLinks == ASSUME IInv, LInv, InsertIntoNode PROVE LInv'
<1>1. /\ pc = "climb" /\ pc' = "unwind" /\ Present(Top.left.parent)
      /\ disk' = NodeFlush(disk, Grown) /\ UNCHANGED <<mem, stack>>
  BY DEF InsertIntoNode
<1>2. Len(stack) > 0
  BY <1>1 DEF IInv, Scalars
<1>3. /\ Grown \in BptreeNode /\ Grown.self >= 1 /\ Grown.self \in Pages(disk)
      /\ PointsInto(Grown, Allocated(disk, stack)) /\ disk \in Seq(Page)
  BY <1>1, <1>2, GrownPoints DEF PointsInto, IInv, FileOK
<1>4. Linked(disk', stack) /\ Pages(disk') = Pages(disk) \cup {Grown.self}
  BY <1>1, <1>3, LinksFlushed DEF LInv
<1>5. Begins(disk', mem.root)
  BY <1>3, <1>4, BeginsAtPage DEF LInv
<1> QED
  BY <1>1, <1>4, <1>5 DEF LInv

(***************************************************************************)
(* The parent is full: both halves of it wait on the stack, and together   *)
(* they point nowhere new.                                                 *)
(***************************************************************************)
LEMMA SplitNodeLinks == ASSUME IInv, LInv, SplitNode PROVE LInv'
<1> DEFINE self     == mem.size + 1
           newLeft  == LowerHalf(Grown)
           newRight == UpperHalf(Grown, self)
           Moved(n) == IF n.self \in Children(newRight)
                       THEN [n EXCEPT !.parent = self] ELSE n
           l   == Moved(Top.left)
           r   == Moved(Top.right)
           st  == WithTop(l, r)
           new == [left |-> newLeft, right |-> newRight]
           n   == Len(stack)
           A   == Allocated(disk, stack)
<1>1. /\ pc = "climb" /\ pc' = pc /\ Present(Top.left.parent) /\ Grown.size = M
      /\ mem' = [mem EXCEPT !.size = self] /\ disk' = disk
      /\ stack' = Append(st, new)
  BY DEF SplitNode
<1>2. Len(stack) > 0 /\ mem'.root = mem.root
  BY <1>1 DEF IInv, Scalars, Header
<1>3. /\ Top.left \in NodesOf(disk, stack) /\ Top.right \in NodesOf(disk, stack)
      /\ Good(Top.left, inserted) /\ Good(Top.right, inserted)
      /\ Top.left \in BptreeNode /\ Top.right \in BptreeNode
      /\ self \in Nat /\ self \in Int
  BY <1>2, TopLinks, TopFrame DEF FrameOK, Top
<1>4. /\ Children(newLeft) \subseteq A /\ Children(newRight) \subseteq A
      /\ newLeft \in BptreeNode /\ newRight \in BptreeNode
  <2>1. /\ Grown \in BptreeNode /\ Grown.size = M /\ ~Grown.isLeaf
        /\ Children(Grown) \subseteq A /\ Initialised(Grown) /\ Sorted(Grown)
    BY <1>1, <1>2, GrownPoints, GrownNode
  <2> DEFINE g == Grown
             low == LowerHalf(g)
             upp == UpperHalf(g, self)
  <2>2. /\ g \in BptreeNode /\ g.size = M /\ ~g.isLeaf /\ self \in Nat
        /\ Initialised(g) /\ Sorted(g) /\ Children(g) \subseteq A
    BY <1>3, <2>1
  <2> HIDE DEF g, self, A
  <2>3. Children(low) \subseteq Children(g) /\ Children(upp) \subseteq Children(g)
    BY <2>2, HalvesPoint
  <2>4. low \in BptreeNode /\ upp \in BptreeNode
    BY <2>2, LowerHalfNode, UpperHalfNode
  <2> QED
    BY <2>2, <2>3, <2>4 DEF g
<1> HIDE DEF newLeft, newRight
<1>5. /\ Good(l, inserted) /\ l.self = Top.left.self /\ l.isLeaf = Top.left.isLeaf
      /\ SamePointers(l, Top.left)
  <2>1. SamePointers(Top.left, Top.left)
    BY DEF SamePointers
  <2> HIDE DEF self
  <2> QED
    BY <1>3, <2>1, Reparented, ReparentedPointers
<1>6. /\ Good(r, inserted) /\ r.self = Top.right.self /\ r.isLeaf = Top.right.isLeaf
      /\ r.size = Top.right.size /\ SamePointers(r, Top.right)
  <2>1. SamePointers(Top.right, Top.right)
    BY DEF SamePointers
  <2> HIDE DEF self
  <2> QED
    BY <1>3, <2>1, Reparented, ReparentedPointers
<1> HIDE DEF l, r
<1>7. /\ st \in Seq(Frame) /\ DOMAIN st = DOMAIN stack /\ Len(st) = n
      /\ n \in DOMAIN stack /\ n \in Nat /\ DOMAIN stack = 1..n
      /\ st[n] = [left |-> l, right |-> r]
      /\ \A i \in DOMAIN stack : i # n => st[i] = stack[i]
      /\ \A i \in DOMAIN stack : st[i].right.self = stack[i].right.self
  BY <1>2, <1>5, <1>6, TopReplaced, TopFrame
<1> HIDE DEF st, n
<1>8. /\ Allocated(disk, st) = A
      /\ \A m \in NodesOf(disk, st) : m \in NodesOf(disk, stack) \/ m = l \/ m = r
  BY <1>7, TopReplacedLinks
<1>9. new \in Frame /\ new.left = newLeft /\ new.right = newRight
  BY <1>4 DEF Frame
<1> HIDE DEF new
<1>10. /\ DOMAIN stack' = 1..n+1 /\ stack'[n + 1] = new
       /\ \A i \in 1..n : stack'[i] = st[i]
  BY <1>1, <1>7, <1>9, AppendProperties
<1>11. DOMAIN st \subseteq DOMAIN stack' /\ \A i \in DOMAIN st : stack'[i] = st[i]
  BY <1>7, <1>10
<1>12. A \subseteq Allocated(disk', stack')
  <2>1. Allocated(disk, st) \subseteq Allocated(disk', stack')
    BY <1>1, <1>11 DEF Allocated
  <2> QED
    BY <1>8, <2>1
<1>13. ASSUME NEW m \in NodesOf(disk', stack')
       PROVE  m \in NodesOf(disk, st) \/ m = newLeft \/ m = newRight
  <2>1. \A i \in DOMAIN stack' : i \in DOMAIN st \/ i = n + 1
    BY <1>7, <1>10
  <2> QED
    BY <1>1, <1>9, <1>10, <1>11, <2>1 DEF NodesOf
<1>14. PointsInto(newLeft, Allocated(disk', stack')) /\ PointsInto(newRight, Allocated(disk', stack'))
  BY <1>4, <1>12 DEF PointsInto
<1>15. Linked(disk', stack')
  <2>1. \A m : SamePointers(m, m)
    BY DEF SamePointers
  <2> QED
    BY <1>3, <1>5, <1>6, <1>8, <1>12, <1>13, <1>14, <2>1, LinksKept DEF LInv
<1> QED
  BY <1>1, <1>2, <1>15 DEF LInv

(* The "update parent" loop leaves the pointers of every page alone. *)
LEMMA UpdateParentLinks ==
  ASSUME IInv, LInv, NEW right \in BptreeNode, NEW g, g = UpdateParent(disk, right)
  PROVE  Linked(g, stack) /\ g \in Seq(Page) /\ Pages(g) = Pages(disk)
         /\ Allocated(g, stack) = Allocated(disk, stack)
<1>1. g \in Seq(Page) /\ Pages(g) = Pages(disk)
  <2>1. FileOK(disk, mem.size, inserted, {}) /\ mem.size \in Nat
    BY FileFacts DEF IInv
  <2>2. FileOK(g, mem.size, inserted, {right.self}) /\ Pages(g) = Pages(disk)
    BY <2>1, UpdateParentFile
  <2> QED
    BY <2>2 DEF FileOK
<1>2. Allocated(g, stack) = Allocated(disk, stack)
  BY <1>1 DEF Allocated
<1>3. ASSUME NEW p \in Pages(g)  PROVE SamePointers(g[p], disk[p])
  <2>1. p \in 1..Len(disk) /\ disk[p] \in BptreeNode
    BY <1>1, LenProperties DEF Pages, IInv, FileOK, Good
  <2>2. g[p] = [disk[p] EXCEPT !.parent = right.self] \/ g[p] = disk[p]
    BY <2>1 DEF UpdateParent
  <2>3. SamePointers(disk[p], disk[p])
    BY DEF SamePointers
  <2> QED
    BY <2>1, <2>2, <2>3, ReparentedPointers
<1>4. ASSUME NEW m \in NodesOf(g, stack)
      PROVE  \E n \in NodesOf(disk, stack) : SamePointers(m, n)
  <2>1. CASE \E p \in Pages(g) : m = g[p]
    BY <1>1, <1>3, <2>1 DEF NodesOf
  <2>2. CASE m \in NodesOf(disk, stack)
    BY <2>2 DEF SamePointers
  <2> QED
    BY <2>1, <2>2 DEF NodesOf
<1>5. Linked(g, stack)
  BY <1>2, <1>4, LinksKept DEF LInv
<1> QED
  BY <1>1, <1>2, <1>5

(* The innermost frame is written and popped: its pages are in the file now. *)
LEMMA ReturnLinks == ASSUME IInv, LInv, Return PROVE LInv'
<1> DEFINE left  == Top.left
           right == Top.right
           g0 == IF right.isLeaf THEN disk ELSE UpdateParent(disk, right)
           g1 == NodeFlush(g0, left)
           n  == Len(stack)
<1>1. /\ pc = "unwind" /\ pc' # "seek" /\ mem' = mem
      /\ disk' = NodeFlush(g1, right) /\ stack' = Pop(stack)
  BY DEF Return
<1>2. n > 0 /\ n \in Nat /\ DOMAIN stack = 1..n /\ n \in 1..n
  <2>1. n > 0
    BY <1>1 DEF IInv, Scalars
  <2> QED
    BY <2>1, TopFrame
<1>3. /\ left \in NodesOf(disk, stack) /\ right \in NodesOf(disk, stack)
      /\ left \in BptreeNode /\ right \in BptreeNode
      /\ left.self \in Pages(disk) /\ left.self >= 1 /\ right.self >= 1
      /\ PointsInto(left, Allocated(disk, stack))
      /\ PointsInto(right, Allocated(disk, stack))
  BY <1>2, TopLinks, NodeKnown
<1>4. stack[n] = Top
  BY DEF Top
<1> HIDE DEF left, right, n
<1>5. /\ Linked(g0, stack) /\ g0 \in Seq(Page) /\ Pages(g0) = Pages(disk)
      /\ Allocated(g0, stack) = Allocated(disk, stack)
  BY <1>3, UpdateParentLinks DEF IInv, FileOK, LInv
<1> HIDE DEF g0
<1>6. /\ Linked(g1, stack) /\ g1 \in Seq(Page) /\ Pages(g1) = Pages(disk)
      /\ Allocated(g1, stack) = Allocated(disk, stack) \cup {left.self}
  <2>1. PointsInto(left, Allocated(g0, stack))
    BY <1>3, <1>5
  <2>2. /\ Linked(g1, stack) /\ g1 \in Seq(Page)
        /\ Pages(g1) = Pages(g0) \cup {left.self}
        /\ Allocated(g1, stack) = Allocated(g0, stack) \cup {left.self}
    BY <1>3, <1>5, <2>1, LinksFlushed
  <2> QED
    BY <1>3, <1>5, <2>2
<1> HIDE DEF g1
<1>7. /\ Linked(disk', stack) /\ Pages(disk') = Pages(disk) \cup {right.self}
  <2>1. PointsInto(right, Allocated(g1, stack))
    BY <1>3, <1>6 DEF PointsInto
  <2> QED
    <3>1. /\ right \in BptreeNode /\ right.self >= 1 /\ disk' = NodeFlush(g1, right)
          /\ g1 \in Seq(Page) /\ Linked(g1, stack)
      BY <1>1, <1>3, <1>6
    <3>2. /\ Linked(disk', stack)
          /\ Pages(disk') = Pages(g1) \cup {right.self}
      BY <2>1, <3>1, LinksFlushed
    <3> QED
      BY <1>6, <3>2
<1>8. /\ DOMAIN stack' = 1..n-1
      /\ \A i \in 1..n-1 : stack'[i] = stack[i] /\ i \in DOMAIN stack
  BY <1>1, <1>2 DEF Pop, n
<1>9. Allocated(disk', stack) \subseteq Allocated(disk', stack')
  <2>1. ASSUME NEW i \in DOMAIN stack
        PROVE  stack[i].right.self \in Allocated(disk', stack')
    <3>1. CASE i = n
      BY <1>4, <1>7, <3>1 DEF Allocated, right
    <3>2. CASE i # n
      <4>1. i \in DOMAIN stack' /\ stack'[i] = stack[i]
        BY <1>2, <1>8, <3>2
      <4> QED
        BY <4>1 DEF Allocated
    <3> QED
      BY <3>1, <3>2
  <2> QED
    BY <2>1 DEF Allocated
<1>10. \A m \in NodesOf(disk', stack') : m \in NodesOf(disk', stack)
  BY <1>8 DEF NodesOf
<1>11. Linked(disk', stack')
  <2>1. \A m : SamePointers(m, m)
    BY DEF SamePointers
  <2> QED
    BY <1>7, <1>9, <1>10, <2>1, LinksKept
<1>12. Begins(disk', mem.root)
  BY <1>3, <1>7, BeginsAtPage DEF LInv
<1> QED
  BY <1>1, <1>11, <1>12 DEF LInv

(* A leaf is written back with its marks. *)
LEMMA DeleteLeafLinks == ASSUME IInv, LInv, DeleteLeaf PROVE LInv'
<1>1. PICK hit : disk' = NodeFlush(disk, Marked(disk[at], hit))
  BY DEF DeleteLeaf
<1> DEFINE m == Marked(disk[at], hit)
<1>2. pc = "seek" /\ pc' # "seek" /\ at \in Pages(disk) /\ disk[at].isLeaf
      /\ UNCHANGED <<mem, stack>>
  BY FileFacts DEF DeleteLeaf, AtLeaf
<1>3. m \in BptreeNode /\ m.self = at /\ m.isLeaf /\ at >= 1 /\ disk \in Seq(Page)
  BY <1>2, FileFacts, MarkedGood DEF Good, IInv, FileOK
<1> HIDE DEF m
<1>4. PointsInto(m, Allocated(disk, stack))
  BY <1>3 DEF PointsInto
<1>5. Linked(disk', stack) /\ Pages(disk') = Pages(disk) \cup {at}
  BY <1>1, <1>3, <1>4, LinksFlushed DEF LInv, m
<1>6. Begins(disk', mem.root)
  BY <1>2, <1>5, BeginsAtPage DEF LInv
<1> QED
  BY <1>2, <1>5, <1>6 DEF LInv

(* Every step keeps the links. *)
LEMMA StepLinks == ASSUME IInv, LInv, [Next]_vars PROVE LInv'
<1>1. CASE Start
  <2>1. pc' = "seek" /\ at' = mem.root /\ UNCHANGED <<file, stack>>
    BY <1>1 DEF Start, BptreeInsert, BptreeSearch, BptreeDelete, Call
  <2> QED
    BY <2>1 DEF LInv, Linked, Begins, file
<1>2. CASE BptreeFlush \/ SearchLeaf \/ NotFound
  <2>1. pc' # "seek" /\ UNCHANGED <<mem, disk, stack>>
    BY <1>2 DEF BptreeFlush, SearchLeaf, NotFound, file
  <2> QED
    BY <2>1 DEF LInv, Linked, Begins
<1>3. CASE UNCHANGED vars
  BY <1>3 DEF LInv, Linked, Begins, vars, file
<1> QED
  BY <1>1, <1>2, <1>3, DescendLinks, InsertFirstLinks, InsertIntoLeafNodeLinks,
     NewRootLinks, InsertIntoNodeLinks, SplitNodeLinks, ReturnLinks,
     DeleteLeafLinks DEF Next, Step

(***************************************************************************)
(* Every page a call visits is in the file: a descent begins at the root   *)
(* and follows slots that point inside it, whatever the keys and however   *)
(* many splits went before; a climb follows parent fields (TopFrame).      *)
(***************************************************************************)
THEOREM InsideFile == Spec => []VisitsWritten
<1>1. Init => LInv
  <2> SUFFICES ASSUME Init PROVE LInv
    OBVIOUS
  <2>1. disk = <<>> /\ stack = <<>> /\ mem.root = NODE_EOF /\ pc # "seek"
    BY DEF Init
  <2>2. DOMAIN disk = {} /\ DOMAIN stack = {}
    BY <2>1
  <2>3. NodesOf(disk, stack) = {}
    BY <2>2 DEF NodesOf, Pages
  <2> QED
    BY <2>1, <2>3 DEF LInv, Linked, Begins
<1>2. IInv /\ LInv /\ [Next]_vars => LInv'
  BY StepLinks
<1>3. IInv /\ LInv => VisitsWritten
  <2> SUFFICES ASSUME IInv, LInv PROVE VisitsWritten
    OBVIOUS
  <2>1. pc = "climb" => Top.left.parent \in Pages(disk) \cup {NODE_EOF}
    <3> SUFFICES ASSUME pc = "climb"
                 PROVE  Top.left.parent \in Pages(disk) \cup {NODE_EOF}
      OBVIOUS
    <3>1. Len(stack) > 0
      BY DEF IInv
    <3> QED
      BY <3>1, TopFrame DEF Settled
  <2> QED
    BY <2>1 DEF VisitsWritten, LInv, Begins, Written, Pages
<1> QED
  BY <1>1, <1>2, <1>3, Invariance, PTL DEF Spec

-----------------------------------------------------------------------------
(* A child in a root with room, slot by slot. *)
LEMMA ChildSpelled ==
  ASSUME NEW node \in BptreeNode, node.size < M, Initialised(node),
         NEW k \in Int, NEW left \in Int, NEW right \in Int,
         NEW new, new = InsertChild(node, k, left, right),
         NEW x, x = GetIndex(node, k)
  PROVE  /\ IsGetIndex(x, node, k) /\ x \in 0..node.size
         /\ \A j \in 0..x-1 : new.key[j] = node.key[j] /\ new.dat[j] = node.dat[j]
         /\ new.key[x] = k /\ new.dat[x] = left /\ new.dat[x + 1] = right
         /\ \A j \in x+1..node.size : new.key[j] = node.key[j-1] /\ new.dat[j + 1] = node.dat[j]
<1> DEFINE mid == Shift(node.dat, node.size + 1, x, left)
<1>1. /\ node.size \in Nat /\ M \in Nat /\ node.size < M
      /\ IsGetIndex(x, node, k) /\ x \in 0..node.size
      /\ DOMAIN node.key = 0..M-1 /\ DOMAIN node.dat = 0..M
  <2>1. IsGetIndex(x, node, k)
    BY GetIndexDefined
  <2> QED
    BY <2>1, NodeFields DEF IsGetIndex
<1>2. /\ new.key = Shift(node.key, node.size, x, k)
      /\ new.dat = [mid EXCEPT ![x + 1] = right]
  BY DEF InsertChild, BptreeNode
<1>3. DOMAIN mid = 0..M
  BY <1>1 DEF Shift
<1>4. ASSUME NEW j \in 0..M-1
      PROVE  /\ j < x => new.key[j] = node.key[j]
             /\ j = x => new.key[j] = k
             /\ j > x /\ j <= node.size => new.key[j] = node.key[j-1]
  <2>1. new.key[j] = IF j < x \/ j > node.size THEN node.key[j]
                     ELSE IF j = x THEN k ELSE node.key[j - 1]
    BY <1>1, <1>2 DEF Shift
  <2>2. j = x => ~(j < x) /\ ~(j > node.size)
    BY <1>1
  <2>3. j > x /\ j <= node.size => ~(j < x) /\ ~(j > node.size) /\ j # x
    BY <1>1
  <2> QED
    BY <2>1, <2>2, <2>3
<1>5. ASSUME NEW j \in 0..M
      PROVE  /\ j < x => mid[j] = node.dat[j]
             /\ j = x => mid[j] = left
             /\ j > x /\ j <= node.size + 1 => mid[j] = node.dat[j-1]
  BY <1>1 DEF Shift
<1> HIDE DEF mid
<1>6. ASSUME NEW j \in 0..M
      PROVE  new.dat[j] = IF j = x + 1 THEN right ELSE mid[j]
  BY <1>2, <1>3
<1>7. ASSUME NEW j \in 0..x-1 PROVE new.key[j] = node.key[j] /\ new.dat[j] = node.dat[j]
  <2>1. j \in 0..M-1 /\ j \in 0..M /\ j < x /\ j # x + 1
    BY <1>1
  <2> QED
    BY <1>4, <1>5, <1>6, <2>1
<1>8. new.key[x] = k /\ new.dat[x] = left /\ new.dat[x + 1] = right
  <2>1. x \in 0..M-1 /\ x \in 0..M /\ x + 1 \in 0..M /\ x # x + 1
    BY <1>1
  <2> QED
    BY <1>4, <1>5, <1>6, <2>1
<1>9. ASSUME NEW j \in x+1..node.size
      PROVE  new.key[j] = node.key[j-1] /\ new.dat[j + 1] = node.dat[j]
  <2>1. /\ j \in 0..M-1 /\ j > x /\ j <= node.size
        /\ j + 1 \in 0..M /\ j + 1 > x /\ j + 1 <= node.size + 1 /\ j + 1 # x + 1
        /\ (j + 1) - 1 = j
    BY <1>1
  <2>2. mid[j + 1] = node.dat[j]
    BY <1>5, <2>1
  <2> QED
    BY <1>4, <1>6, <2>1, <2>2
<1> QED
  BY <1>1, <1>7, <1>8, <1>9

-----------------------------------------------------------------------------
(* Induction over the natural numbers, for sets. *)
LEMMA SetInduction ==
  ASSUME NEW T, 0 \in T, \A n \in Nat : n \in T => n + 1 \in T
  PROVE  \A n \in Nat : n \in T
<1> DEFINE missing == Nat \ T
<1> SUFFICES ASSUME missing # {}  PROVE FALSE
  OBVIOUS
<1>1. PICK x \in missing : \A y \in missing : x <= y
  BY LeastElement
<1>2. x \in Nat /\ x # 0 /\ x \notin T
  BY <1>1
<1>3. x - 1 \in Nat /\ x - 1 \notin missing
  BY <1>1, <1>2
<1>4. x - 1 \in T /\ (x - 1) + 1 = x
  BY <1>2, <1>3
<1> QED  BY <1>2, <1>3, <1>4

-----------------------------------------------------------------------------
(***************************************************************************)
(* Pages without duplicate keys.                                           *)
(***************************************************************************)
Strict(n) == \A i, j \in 0..n.size-1 : i < j => n.key[i] < n.key[j]

Proper(n) == n \in BptreeNode /\ Initialised(n) /\ Strict(n)

KeysOf(n) == {n.key[i] : i \in 0..n.size-1}

(* The fields of such a node, as the arithmetic needs them. *)
LEMMA ProperFields ==
  ASSUME NEW n, Proper(n)
  PROVE  /\ n.size \in Nat /\ n.size <= M /\ n.isLeaf \in BOOLEAN
         /\ \A i \in 0..n.size-1 : n.key[i] \in Int
         /\ KeysOf(n) \subseteq Int
  BY NodeFields DEF Proper, Initialised, KeysOf

(* A key belongs behind one slot. *)
LEMMA GapIs ==
  ASSUME NEW n, Proper(n), NEW x \in Int, NEW i
  PROVE  /\ IsGetIndex(i, n, x) <=> i = GetIndex(n, x)
         /\ GetIndex(n, x) \in 0..n.size
         /\ IsGetIndex(GetIndex(n, x), n, x)
<1> DEFINE j == GetIndex(n, x)
<1>1. IsGetIndex(j, n, x)
  BY GetIndexDefined DEF Proper
<1>2. n.size \in Nat /\ \A k \in 0..n.size-1 : n.key[k] \in Int
  BY ProperFields
<1> HIDE DEF j
<1>3. j \in 0..n.size
  BY <1>1 DEF IsGetIndex
<1>4. ASSUME IsGetIndex(i, n, x)  PROVE i = j
  <2>1. i \in 0..n.size
    BY <1>4 DEF IsGetIndex
  <2>2. CASE i < j
    <3>1. n.key[i] <= x /\ n.key[i] > x /\ n.key[i] \in Int
      BY <1>1, <1>2, <1>3, <1>4, <2>1, <2>2 DEF IsGetIndex
    <3> QED  BY <3>1
  <2>3. CASE j < i
    <3>1. n.key[j] <= x /\ n.key[j] > x /\ n.key[j] \in Int
      BY <1>1, <1>2, <1>3, <1>4, <2>1, <2>3 DEF IsGetIndex
    <3> QED  BY <3>1
  <2> QED  BY <1>2, <1>3, <2>1, <2>2, <2>3
<1> QED  BY <1>1, <1>3, <1>4 DEF j

(* What lies between two keys of one gap is in the gap. *)
LEMMA GapBetween ==
  ASSUME NEW n, Proper(n), NEW x \in Int, NEW y \in Int, NEW z \in Int,
         x <= y, y <= z, GetIndex(n, x) = GetIndex(n, z)
  PROVE  GetIndex(n, y) = GetIndex(n, x)
<1> DEFINE i == GetIndex(n, x)
<1>1. IsGetIndex(i, n, x) /\ IsGetIndex(i, n, z)
  BY GapIs
<1>2. n.size \in Nat /\ \A k \in 0..n.size-1 : n.key[k] \in Int
  BY ProperFields
<1> HIDE DEF i
<1>3. i \in 0..n.size
  BY <1>1 DEF IsGetIndex
<1>4. \A k \in 0..i-1 : n.key[k] <= y
  <2> TAKE k \in 0..i-1
  <2>1. n.key[k] \in Int /\ n.key[k] <= x
    BY <1>1, <1>2, <1>3 DEF IsGetIndex
  <2> QED  BY <2>1
<1>5. i < n.size => n.key[i] > y
  <2> HAVE i < n.size
  <2>1. n.key[i] \in Int /\ n.key[i] > z
    BY <1>1, <1>2, <1>3 DEF IsGetIndex
  <2> QED  BY <2>1
<1>6. IsGetIndex(i, n, y)
  BY <1>3, <1>4, <1>5 DEF IsGetIndex
<1> QED  BY <1>6, GapIs DEF i

(* The gap behind each key begins with the key. *)
LEMMA GapOfKey ==
  ASSUME NEW n, Proper(n), NEW i \in 0..n.size-1, NEW x \in Int, n.key[i] <= x,
         i + 1 < n.size => x < n.key[i + 1]
  PROVE  GetIndex(n, x) = i + 1
<1>1. n.size \in Nat /\ \A k \in 0..n.size-1 : n.key[k] \in Int
  BY ProperFields
<1>2. \A k \in 0..(i + 1) - 1 : n.key[k] <= x
  <2> TAKE k \in 0..(i + 1) - 1
  <2>1. k \in 0..n.size-1 /\ (k = i \/ k < i)
    BY <1>1
  <2>2. k < i => n.key[k] < n.key[i]
    BY <2>1 DEF Proper, Strict
  <2> QED  BY <1>1, <2>1, <2>2
<1>3. IsGetIndex(i + 1, n, x)
  BY <1>1, <1>2 DEF IsGetIndex
<1> QED  BY <1>3, GapIs

(* A key that no key of the page exceeds belongs behind the last slot. *)
LEMMA GapPast ==
  ASSUME NEW n, Proper(n), NEW x \in Int, \A w \in KeysOf(n) : w <= x
  PROVE  GetIndex(n, x) = n.size
<1>1. n.size \in Nat /\ \A k \in 0..n.size-1 : n.key[k] \in KeysOf(n)
  BY ProperFields DEF KeysOf
<1>2. IsGetIndex(n.size, n, x)
  BY <1>1 DEF IsGetIndex
<1> QED  BY <1>2, GapIs

-----------------------------------------------------------------------------
(***************************************************************************)
(* A tree of pages: V[p] is page p, rank[p] its height above the leaves.   *)
(* Every page but the root is in one slot of one page, which it names.     *)
(***************************************************************************)
Pointed(V, root, rank, p) ==
  ~V[p].isLeaf =>
    \A i \in 0..V[p].size :
      /\ V[p].dat[i] \in DOMAIN V \ {root}
      /\ V[V[p].dat[i]].parent = p
      /\ rank[p] = rank[V[p].dat[i]] + 1
      /\ \A j \in 0..V[p].size : V[p].dat[j] = V[p].dat[i] => j = i

Hung(V, p) ==
  /\ V[p].parent \in DOMAIN V /\ ~V[V[p].parent].isLeaf
  /\ \E i \in 0..V[V[p].parent].size : V[V[p].parent].dat[i] = p

Tree(V, root, rank) ==
  /\ DOMAIN V \subseteq Nat \ {0}
  /\ root \in DOMAIN V /\ V[root].parent = NODE_EOF
  /\ \A p \in DOMAIN V :
       /\ Proper(V[p]) /\ V[p].self = p
       /\ rank[p] \in Nat /\ (V[p].isLeaf <=> rank[p] = 0)
       /\ Pointed(V, root, rank, p)
       /\ p # root => Hung(V, p)

(***************************************************************************)
(* route[x][r] is the page of rank r a descent for x comes to.  Whoever    *)
(* comes to a page, its keys do.                                           *)
(***************************************************************************)
Routed(V, root, rank, route) ==
  \A x \in Int :
    /\ route[x][rank[root]] = root
    /\ \A r \in 0..rank[root] :
         /\ route[x][r] \in DOMAIN V /\ rank[route[x][r]] = r
         /\ \A w \in KeysOf(V[route[x][r]]) : route[w][r] = route[x][r]
         /\ r > 0 => route[x][r-1] = V[route[x][r]].dat[GetIndex(V[route[x][r]], x)]

(* Who comes to a page came to its parent, by the same slot. *)
LEMMA SameWay ==
  ASSUME NEW V, NEW root, NEW rank, NEW route, Tree(V, root, rank), Routed(V, root, rank, route),
         NEW x \in Int, NEW y \in Int, NEW r \in Nat, r < rank[root], route[x][r] = route[y][r]
  PROVE  /\ route[x][r+1] = route[y][r+1]
         /\ V[route[x][r]].parent = route[x][r+1]
         /\ GetIndex(V[route[x][r+1]], x) = GetIndex(V[route[x][r+1]], y)
<1>1. rank[root] \in Nat
  BY DEF Tree
<1> DEFINE c == route[x][r]
           p == route[x][r+1]
           q == route[y][r+1]
           i == GetIndex(V[p], x)
           j == GetIndex(V[q], y)
<1>2. /\ p \in DOMAIN V /\ rank[p] = r + 1 /\ c = V[p].dat[i]
      /\ q \in DOMAIN V /\ rank[q] = r + 1 /\ c = V[q].dat[j]
  <2>1. r + 1 \in 0..rank[root] /\ r + 1 > 0 /\ (r + 1) - 1 = r
    BY <1>1
  <2> QED  BY <2>1 DEF Routed
<1>3. /\ Proper(V[p]) /\ ~V[p].isLeaf /\ Pointed(V, root, rank, p)
      /\ Proper(V[q]) /\ ~V[q].isLeaf /\ Pointed(V, root, rank, q)
  BY <1>2 DEF Tree
<1>4. i \in 0..V[p].size /\ j \in 0..V[q].size
  BY <1>3, GapIs
<1> HIDE DEF i, j, p, q, c
<1>5. V[c].parent = p /\ V[c].parent = q
  BY <1>2, <1>3, <1>4 DEF Pointed
<1>6. i = j
  BY <1>2, <1>3, <1>4, <1>5 DEF Pointed
<1> QED  BY <1>5, <1>6 DEF i, j, p, q, c

(* And to every page above. *)
LEMMA WaysJoin ==
  ASSUME NEW V, NEW root, NEW rank, NEW route, Tree(V, root, rank), Routed(V, root, rank, route),
         NEW x \in Int, NEW y \in Int, NEW r \in Nat, NEW q \in Nat, r <= q, q <= rank[root],
         route[x][r] = route[y][r]
  PROVE  route[x][q] = route[y][q]
<1>1. rank[root] \in Nat
  BY DEF Tree
<1> DEFINE T == {d \in Nat : r + d <= rank[root] => route[x][r+d] = route[y][r+d]}
<1>2. 0 \in T
  <2>1. r + 0 = r
    OBVIOUS
  <2> QED  BY <2>1
<1>3. ASSUME NEW d \in Nat, d \in T  PROVE d + 1 \in T
  <2> SUFFICES ASSUME r + (d + 1) <= rank[root]
               PROVE  route[x][r + (d + 1)] = route[y][r + (d + 1)]
    OBVIOUS
  <2>1. r + d \in Nat /\ r + d < rank[root] /\ (r + d) + 1 = r + (d + 1)
    BY <1>1
  <2>2. route[x][r+d] = route[y][r+d]
    BY <1>3, <2>1, <1>1
  <2>3. route[x][(r+d)+1] = route[y][(r+d)+1]
    BY <2>1, <2>2, SameWay
  <2> QED  BY <2>1, <2>3
<1> HIDE DEF T
<1>4. \A d \in Nat : d \in T
  BY <1>2, <1>3, SetInduction
<1>5. q - r \in T /\ r + (q - r) = q
  BY <1>4
<1> QED  BY <1>5 DEF T

(* The keys that come to a page lie side by side. *)
LEMMA Convex ==
  ASSUME NEW V, NEW root, NEW rank, NEW route, Tree(V, root, rank), Routed(V, root, rank, route),
         NEW x \in Int, NEW y \in Int, NEW z \in Int, x <= y, y <= z,
         NEW r \in 0..rank[root], route[x][r] = route[z][r]
  PROVE  route[y][r] = route[x][r]
<1>1. rank[root] \in Nat /\ r \in Nat
  BY DEF Tree
<1> DEFINE R == rank[root]
           T == {d \in Nat : d <= R /\ route[x][R-d] = route[z][R-d] => route[y][R-d] = route[x][R-d]}
<1>2. 0 \in T
  <2>1. R - 0 = R
    BY <1>1
  <2> QED  BY <2>1 DEF Routed
<1>3. ASSUME NEW d \in Nat, d \in T  PROVE d + 1 \in T
  <2> DEFINE s == R - (d + 1)
  <2> SUFFICES ASSUME d + 1 <= R, route[x][s] = route[z][s]
               PROVE  route[y][s] = route[x][s]
    OBVIOUS
  <2>1. s \in Nat /\ s < R /\ s + 1 = R - d /\ d <= R /\ s + 1 \in 0..R /\ s + 1 > 0 /\ (s + 1) - 1 = s
    BY <1>1
  <2> HIDE DEF s
  <2> DEFINE p == route[x][s + 1]
  <2>2. route[z][s+1] = p /\ GetIndex(V[p], x) = GetIndex(V[p], z)
    BY <2>1, SameWay
  <2>3. route[y][s+1] = p
    <3>1. route[x][R-d] = route[z][R-d] /\ d <= R
      BY <2>1, <2>2
    <3>2. route[y][R-d] = route[x][R-d]
      BY <1>3, <3>1
    <3> QED  BY <2>1, <3>2
  <2>4. p \in DOMAIN V /\ Proper(V[p])
    BY <2>1 DEF Routed, Tree
  <2>5. GetIndex(V[p], y) = GetIndex(V[p], x)
    BY <2>2, <2>4, GapBetween
  <2>6. route[y][s] = V[route[y][s+1]].dat[GetIndex(V[route[y][s+1]], y)]
    BY <2>1 DEF Routed
  <2>7. route[x][s] = V[p].dat[GetIndex(V[p], x)]
    BY <2>1 DEF Routed
  <2> QED  BY <2>3, <2>5, <2>6, <2>7
<1> HIDE DEF T
<1>4. \A d \in Nat : d \in T
  BY <1>2, <1>3, SetInduction
<1>5. R - r \in T /\ R - (R - r) = r /\ R - r <= R
  BY <1>1, <1>4
<1> QED  BY <1>5 DEF T

-----------------------------------------------------------------------------
(***************************************************************************)
(* The split of a page, and the slot its parent gets, slot by slot.        *)
(***************************************************************************)
Halved(F, L, U, mid) ==
  /\ mid \in 2..M-1
  /\ Proper(L) /\ Proper(U)
  /\ L.self = F.self /\ L.parent = F.parent /\ U.parent = F.parent
  /\ L.isLeaf = F.isLeaf /\ U.isLeaf = F.isLeaf
  /\ L.size = (IF F.isLeaf THEN mid ELSE mid - 1) /\ U.size = M - mid
  /\ L.key = F.key /\ L.dat = F.dat /\ L.del = F.del
  /\ \A i \in 0..M-mid-1 : U.key[i] = F.key[mid + i] /\ U.del[i] = F.del[mid + i]
  /\ \A i \in 0..M-mid : i < M - mid \/ ~F.isLeaf => U.dat[i] = F.dat[mid + i]

(* Keys that rise do not fall. *)
LEMMA StrictSorted ==
  ASSUME NEW n, Proper(n)
  PROVE  Sorted(n)
<1> SUFFICES ASSUME NEW i \in 0..n.size-1, NEW j \in 0..n.size-1, i <= j
             PROVE  n.key[i] <= n.key[j]
  BY DEF Sorted
<1>1. n.key[i] \in Int /\ n.key[j] \in Int /\ n.size \in Nat
  BY ProperFields
<1>2. CASE i = j
  BY <1>1, <1>2
<1>3. CASE i < j
  BY <1>1, <1>3 DEF Proper, Strict
<1> QED  BY <1>1, <1>2, <1>3

(* SplitLeafNode and SplitNode leave halves of that form. *)
LEMMA SplitSpelled ==
  ASSUME NEW F, Proper(F), F.size = M, NEW self \in Nat
  PROVE  /\ Halved(F, LowerHalf(F), UpperHalf(F, self), Mid(F))
         /\ UpperHalf(F, self).self = self
<1> DEFINE L   == LowerHalf(F)
           U   == UpperHalf(F, self)
           mid == Mid(F)
           n   == F.size - mid
<1>1. mid \in 2..M-1 /\ M \in Nat /\ F \in BptreeNode /\ F.isLeaf \in BOOLEAN /\ Initialised(F)
  BY MidBounds, NodeFields DEF Proper
<1>2. /\ L.size = (IF F.isLeaf THEN mid ELSE mid - 1)
      /\ L.key = F.key /\ L.dat = F.dat /\ L.del = F.del
  BY DEF LowerHalf, BptreeNode, Proper
<1>3. /\ L \in BptreeNode /\ Initialised(L)
      /\ L.self = F.self /\ L.parent = F.parent /\ L.isLeaf = F.isLeaf
  BY <1>1, StrictSorted, LowerHalfNode
<1>4. /\ U \in BptreeNode /\ Initialised(U) /\ U.self = self
      /\ U.parent = F.parent /\ U.isLeaf = F.isLeaf
  BY <1>1, StrictSorted, UpperHalfNode
<1>5. /\ U.size = n
      /\ U.key = [i \in 0..M-1 |-> IF i < n THEN F.key[mid + i] ELSE Uninit]
      /\ U.dat = [i \in 0..M |-> IF i < n \/ (i = n /\ ~F.isLeaf)
                                 THEN F.dat[mid + i] ELSE NODE_EOF]
      /\ U.del = [i \in 0..M-1 |-> IF i < n THEN F.del[mid + i] ELSE FALSE]
  BY DEF UpperHalf, NewBptreeNode
<1> HIDE DEF L, U, mid
<1>6. n = M - mid /\ n \in 1..M-2
  BY <1>1
<1>7. ASSUME NEW i \in 0..M-mid-1
      PROVE  U.key[i] = F.key[mid + i] /\ U.del[i] = F.del[mid + i]
  <2>1. i \in 0..M-1 /\ i < n
    BY <1>1, <1>6
  <2>2. /\ U.key[i] = IF i < n THEN F.key[mid + i] ELSE Uninit
        /\ U.del[i] = IF i < n THEN F.del[mid + i] ELSE FALSE
    BY <1>5, <2>1
  <2> QED  BY <2>1, <2>2
<1>8. ASSUME NEW i \in 0..M-mid, i < M - mid \/ ~F.isLeaf
      PROVE  U.dat[i] = F.dat[mid + i]
  <2>1. i \in 0..M /\ (i < n \/ (i = n /\ ~F.isLeaf))
    BY <1>1, <1>6, <1>8
  <2>2. U.dat[i] = IF i < n \/ (i = n /\ ~F.isLeaf) THEN F.dat[mid + i] ELSE NODE_EOF
    BY <1>5, <2>1
  <2> QED  BY <2>1, <2>2
<1>9. Strict(L)
  <2>1. \A i \in 0..L.size-1 : i \in 0..F.size-1
    BY <1>1, <1>2
  <2> QED  BY <1>2, <2>1 DEF Strict, Proper
<1>10. Strict(U)
  <2> SUFFICES ASSUME NEW i \in 0..U.size-1, NEW j \in 0..U.size-1, i < j
               PROVE  U.key[i] < U.key[j]
    BY DEF Strict
  <2>1. /\ mid + i \in 0..F.size-1 /\ mid + j \in 0..F.size-1 /\ mid + i < mid + j
        /\ i \in 0..M-mid-1 /\ j \in 0..M-mid-1
    BY <1>1, <1>5, <1>6
  <2> QED  BY <1>7, <2>1 DEF Strict, Proper
<1> QED  BY <1>1, <1>2, <1>3, <1>4, <1>5, <1>6, <1>7, <1>8, <1>9, <1>10
         DEF Halved, Proper, L, U, mid

Widened(N, G, s, p, n) ==
  LET x == GetIndex(N, s)
  IN  /\ G \in BptreeNode /\ Initialised(G) /\ G.size = N.size + 1
      /\ G.self = N.self /\ G.parent = N.parent /\ G.isLeaf = N.isLeaf
      /\ \A j \in 0..x-1 : G.key[j] = N.key[j] /\ G.dat[j] = N.dat[j]
      /\ G.key[x] = s /\ G.dat[x] = p /\ G.dat[x + 1] = n
      /\ \A j \in x+1..N.size : G.key[j] = N.key[j-1] /\ G.dat[j + 1] = N.dat[j]

(* InsertIntoNode with a page number makes such a node. *)
LEMMA WidenSpelled ==
  ASSUME NEW N, Proper(N), N.size < M, NEW s \in Int, NEW p \in Int, NEW n \in Int
  PROVE  Widened(N, InsertChild(N, s, p, n), s, p, n)
<1> DEFINE G == InsertChild(N, s, p, n)
           x == GetIndex(N, s)
<1>1. N \in BptreeNode /\ Initialised(N) /\ Sorted(N)
  BY StrictSorted DEF Proper
<1>2. /\ G \in BptreeNode /\ Initialised(G) /\ G.size = N.size + 1
      /\ G.self = N.self /\ G.parent = N.parent /\ G.isLeaf = N.isLeaf
  BY <1>1, InsertChildNode
<1>3. /\ \A j \in 0..x-1 : G.key[j] = N.key[j] /\ G.dat[j] = N.dat[j]
      /\ G.key[x] = s /\ G.dat[x] = p /\ G.dat[x + 1] = n
      /\ \A j \in x+1..N.size : G.key[j] = N.key[j-1] /\ G.dat[j + 1] = N.dat[j]
  BY <1>1, ChildSpelled
<1> QED  BY <1>2, <1>3 DEF Widened

(* With a separator greater than the one before it a page stays proper, and *)
(* only the gap of the page that was split falls into two.                  *)
LEMMA WidenedGaps ==
  ASSUME NEW N, Proper(N), NEW G, NEW s \in Int, NEW p, NEW n, Widened(N, G, s, p, n),
         NEW x, x = GetIndex(N, s), x > 0 => N.key[x-1] < s
  PROVE  /\ Proper(G)
         /\ KeysOf(G) = KeysOf(N) \cup {s}
         /\ \A y \in Int : GetIndex(G, y) =
              IF GetIndex(N, y) < x \/ (GetIndex(N, y) = x /\ y < s)
              THEN GetIndex(N, y) ELSE GetIndex(N, y) + 1
<1>1. /\ x \in 0..N.size /\ N.size \in Nat /\ IsGetIndex(x, N, s) /\ G.size = N.size + 1
      /\ \A i \in 0..N.size-1 : N.key[i] \in Int
  BY GapIs, ProperFields DEF Widened
<1>2. /\ \A j \in 0..x-1 : G.key[j] = N.key[j]
      /\ G.key[x] = s
      /\ \A j \in x+1..N.size : G.key[j] = N.key[j-1]
  BY DEF Widened
<1>3. \A j \in 0..x-1 : N.key[j] < s
  <2> TAKE j \in 0..x-1
  <2>1. x > 0 /\ (j = x - 1 \/ j < x - 1) /\ j \in 0..N.size-1 /\ x - 1 \in 0..N.size-1
    BY <1>1
  <2>2. j < x - 1 => N.key[j] < N.key[x-1]
    BY <2>1 DEF Proper, Strict
  <2> QED  BY <1>1, <2>1, <2>2
<1>4. \A j \in x..N.size-1 : s < N.key[j]
  <2> TAKE j \in x..N.size-1
  <2>1. x < N.size /\ j \in 0..N.size-1 /\ x \in 0..N.size-1 /\ (j = x \/ x < j)
    BY <1>1
  <2>2. N.key[x] > s
    BY <1>1, <2>1 DEF IsGetIndex
  <2>3. x < j => N.key[x] < N.key[j]
    BY <2>1 DEF Proper, Strict
  <2> QED  BY <1>1, <2>1, <2>2, <2>3
<1>5. Strict(G)
  <2> SUFFICES ASSUME NEW i \in 0..G.size-1, NEW j \in 0..G.size-1, i < j
               PROVE  G.key[i] < G.key[j]
    BY DEF Strict
  <2>1. i \in 0..N.size /\ j \in 0..N.size
    BY <1>1
  <2>2. CASE j < x
    <3>1. i \in 0..x-1 /\ j \in 0..x-1 /\ i \in 0..N.size-1 /\ j \in 0..N.size-1
      BY <1>1, <2>1, <2>2
    <3> QED  BY <1>2, <3>1 DEF Proper, Strict
  <2>3. CASE j = x
    <3>1. i \in 0..x-1
      BY <1>1, <2>1, <2>3
    <3> QED  BY <1>2, <1>3, <2>3, <3>1
  <2>4. CASE j > x /\ i < x
    <3>1. i \in 0..x-1 /\ j \in x+1..N.size /\ j - 1 \in x..N.size-1 /\ i \in 0..N.size-1 /\ j-1 \in 0..N.size-1
      BY <1>1, <2>1, <2>4
    <3>2. N.key[i] < s /\ s < N.key[j-1] /\ N.key[i] \in Int /\ N.key[j-1] \in Int
      BY <1>1, <1>3, <1>4, <3>1
    <3> QED  BY <1>2, <3>1, <3>2
  <2>5. CASE i = x
    <3>1. j \in x+1..N.size /\ j - 1 \in x..N.size-1
      BY <1>1, <2>1, <2>5
    <3> QED  BY <1>2, <1>4, <2>5, <3>1
  <2>6. CASE i > x
    <3>1. i \in x+1..N.size /\ j \in x+1..N.size /\ i-1 \in 0..N.size-1 /\ j-1 \in 0..N.size-1 /\ i-1 < j-1
      BY <1>1, <2>1, <2>6
    <3> QED  BY <1>2, <3>1 DEF Proper, Strict
  <2> QED  BY <1>1, <2>1, <2>2, <2>3, <2>4, <2>5, <2>6
<1>6. Proper(G)
  BY <1>5 DEF Proper, Widened
<1>7. KeysOf(G) = KeysOf(N) \cup {s}
  <2>1. ASSUME NEW w \in KeysOf(G)  PROVE w \in KeysOf(N) \cup {s}
    <3>1. PICK j \in 0..N.size : w = G.key[j]
      BY <1>1 DEF KeysOf
    <3>2. CASE j < x
      BY <1>1, <1>2, <3>1, <3>2 DEF KeysOf
    <3>3. CASE j = x
      BY <1>2, <3>1, <3>3
    <3>4. CASE j > x
      <4>1. j \in x+1..N.size /\ j-1 \in 0..N.size-1
        BY <1>1, <3>4
      <4> QED  BY <1>2, <3>1, <4>1 DEF KeysOf
    <3> QED  BY <1>1, <3>2, <3>3, <3>4
  <2>2. ASSUME NEW j \in 0..N.size-1  PROVE N.key[j] \in KeysOf(G)
    <3>1. CASE j < x
      <4>1. j \in 0..x-1 /\ j \in 0..G.size-1
        BY <1>1, <3>1
      <4> QED  BY <1>2, <4>1 DEF KeysOf
    <3>2. CASE j >= x
      <4>1. j + 1 \in x+1..N.size /\ (j + 1) - 1 = j /\ j + 1 \in 0..G.size-1
        BY <1>1, <3>2
      <4>2. G.key[j + 1] = N.key[j]
        BY <1>2, <4>1
      <4> QED  BY <4>1, <4>2 DEF KeysOf
    <3> QED  BY <1>1, <3>1, <3>2
  <2>3. s \in KeysOf(G)
    <3>1. x \in 0..G.size-1
      BY <1>1
    <3> QED  BY <1>2, <3>1 DEF KeysOf
  <2> QED  BY <2>1, <2>2, <2>3 DEF KeysOf
<1>8. ASSUME NEW y \in Int
      PROVE  GetIndex(G, y) =
               IF GetIndex(N, y) < x \/ (GetIndex(N, y) = x /\ y < s)
               THEN GetIndex(N, y) ELSE GetIndex(N, y) + 1
  <2> DEFINE i == GetIndex(N, y)
  <2>1. i \in 0..N.size /\ IsGetIndex(i, N, y)
    BY GapIs
  <2> HIDE DEF i
  <2>2. /\ \A j \in 0..i-1 : N.key[j] <= y
        /\ i < N.size => N.key[i] > y
    BY <2>1 DEF IsGetIndex
  <2>3. CASE i < x
    <3>1. \A j \in 0..i-1 : G.key[j] <= y
      BY <1>1, <1>2, <2>1, <2>2, <2>3
    <3>2. i \in 0..x-1 /\ i < N.size /\ G.key[i] = N.key[i]
      BY <1>1, <1>2, <2>1, <2>3
    <3>3. IsGetIndex(i, G, y)
      BY <1>1, <2>1, <2>2, <3>1, <3>2 DEF IsGetIndex
    <3> QED  BY <1>6, <2>3, <3>3, GapIs DEF i
  <2>4. CASE i = x /\ y < s
    <3>1. \A j \in 0..i-1 : G.key[j] <= y
      BY <1>1, <1>2, <2>1, <2>2, <2>4
    <3>2. G.key[i] > y
      BY <1>2, <2>4
    <3>3. IsGetIndex(i, G, y)
      BY <1>1, <2>1, <3>1, <3>2 DEF IsGetIndex
    <3> QED  BY <1>6, <2>4, <3>3, GapIs DEF i
  <2>5. CASE i > x \/ (i = x /\ y >= s)
    <3>1. s <= y
      <4>1. CASE i > x
        <5>1. x \in 0..i-1 /\ x \in x..N.size-1 /\ x \in 0..N.size-1
          BY <1>1, <2>1, <4>1
        <5>2. N.key[x] <= y /\ s < N.key[x] /\ N.key[x] \in Int
          BY <1>1, <1>4, <2>2, <5>1
        <5> QED  BY <5>2
      <4> QED  BY <2>5, <4>1
    <3>2. ASSUME NEW j \in 0..i  PROVE G.key[j] <= y
      <4>1. CASE j < x
        <5>1. j \in 0..x-1 /\ j \in 0..N.size-1
          BY <1>1, <2>1, <4>1
        <5>2. G.key[j] = N.key[j] /\ N.key[j] < s /\ N.key[j] \in Int
          BY <1>1, <1>2, <1>3, <5>1
        <5> QED  BY <3>1, <5>2
      <4>2. CASE j = x
        BY <1>2, <3>1, <4>2
      <4>3. CASE j > x
        <5>1. j \in x+1..N.size /\ j - 1 \in 0..i-1
          BY <1>1, <2>1, <4>3
        <5> QED  BY <1>2, <2>2, <5>1
      <4> QED  BY <1>1, <2>1, <4>1, <4>2, <4>3
    <3>3. ASSUME i + 1 < G.size  PROVE G.key[i + 1] > y
      <4>1. i < N.size /\ i + 1 \in x+1..N.size /\ (i + 1) - 1 = i
        BY <1>1, <2>1, <2>5, <3>3
      <4> QED  BY <1>2, <2>2, <4>1
    <3>4. IsGetIndex(i + 1, G, y)
      <4>1. i + 1 \in 0..G.size /\ (i + 1) - 1 = i
        BY <1>1, <2>1
      <4> QED  BY <3>2, <3>3, <4>1 DEF IsGetIndex
    <3>5. i + 1 = GetIndex(G, y)
      BY <1>6, <3>4, GapIs
    <3> QED  BY <1>1, <2>1, <2>5, <3>5 DEF i
  <2> QED  BY <1>1, <2>1, <2>3, <2>4, <2>5
<1> QED  BY <1>6, <1>7, <1>8

(* The keys of the halves, and where the gaps of the page are in them. *)
LEMMA HalvedGaps ==
  ASSUME NEW F, Proper(F), F.size = M, NEW L, NEW U, NEW mid, Halved(F, L, U, mid),
         NEW s, s = F.key[mid]
  PROVE  /\ s \in KeysOf(F) /\ s \in Int
         /\ F.key[0] \in KeysOf(F) /\ F.key[0] < s
         /\ \A w \in KeysOf(L) : w \in KeysOf(F) /\ w < s
         /\ \A w \in KeysOf(U) : w \in KeysOf(F) /\ w >= s
         /\ ~F.isLeaf =>
              \A y \in Int :
                /\ y < s => GetIndex(L, y) = IF GetIndex(F, y) < mid THEN GetIndex(F, y) ELSE mid - 1
                /\ y < s => GetIndex(F, y) <= mid
                /\ y >= s => GetIndex(F, y) > mid /\ GetIndex(U, y) = GetIndex(F, y) - mid
<1>1. /\ mid \in 2..M-1 /\ M \in Nat /\ F.size = M
      /\ \A i \in 0..M-1 : F.key[i] \in Int
  BY ProperFields, NodeFields DEF Halved, Proper
<1>2. \A i, j \in 0..M-1 : i < j => F.key[i] < F.key[j]
  BY <1>1 DEF Proper, Strict
<1>3. Proper(L) /\ Proper(U) /\ L.size \in {mid, mid - 1} /\ U.size = M - mid /\ L.key = F.key
  BY DEF Halved
<1>4. \A i \in 0..M-mid-1 : U.key[i] = F.key[mid + i]
  BY DEF Halved
<1>5. s \in KeysOf(F) /\ s \in Int /\ F.key[0] \in KeysOf(F) /\ F.key[0] < s
  BY <1>1, <1>2 DEF KeysOf
<1>6. ASSUME NEW w \in KeysOf(L)  PROVE w \in KeysOf(F) /\ w < s
  <2>1. PICK i \in 0..L.size-1 : w = F.key[i]
    BY <1>3 DEF KeysOf
  <2>2. i \in 0..M-1 /\ i < mid /\ mid \in 0..M-1
    BY <1>1, <1>3
  <2> QED  BY <1>1, <1>2, <2>1, <2>2 DEF KeysOf
<1>7. ASSUME NEW w \in KeysOf(U)  PROVE w \in KeysOf(F) /\ w >= s
  <2>1. PICK i \in 0..M-mid-1 : w = F.key[mid + i]
    BY <1>3, <1>4 DEF KeysOf
  <2>2. mid + i \in 0..M-1 /\ mid \in 0..M-1 /\ (mid + i = mid \/ mid < mid + i)
    BY <1>1
  <2>3. mid < mid + i => s < F.key[mid + i]
    BY <1>2, <2>2
  <2>4. F.key[mid + i] \in Int
    BY <1>1, <2>2
  <2>5. F.key[mid + i] >= s
    BY <1>5, <2>2, <2>3, <2>4
  <2> QED  BY <1>1, <2>1, <2>2, <2>5 DEF KeysOf
<1>8. ASSUME ~F.isLeaf, NEW y \in Int
      PROVE  /\ y < s => GetIndex(L, y) = IF GetIndex(F, y) < mid THEN GetIndex(F, y) ELSE mid - 1
             /\ y < s => GetIndex(F, y) <= mid
             /\ y >= s => GetIndex(F, y) > mid /\ GetIndex(U, y) = GetIndex(F, y) - mid
  <2> DEFINE g == GetIndex(F, y)
  <2>1. g \in 0..M /\ IsGetIndex(g, F, y) /\ L.size = mid - 1
    BY <1>1, <1>8, GapIs DEF Halved
  <2> HIDE DEF g
  <2>2. /\ \A j \in 0..g-1 : F.key[j] <= y
        /\ g < M => F.key[g] > y
    BY <1>1, <2>1 DEF IsGetIndex
  <2>3. ASSUME y < s  PROVE g <= mid /\ GetIndex(L, y) = IF g < mid THEN g ELSE mid - 1
    <3>1. g <= mid
      <4> SUFFICES ASSUME g > mid  PROVE FALSE
        BY <1>1, <2>1
      <4>1. mid \in 0..g-1
        BY <1>1, <2>1
      <4> QED  BY <1>5, <2>2, <2>3, <4>1
    <3> DEFINE i == IF g < mid THEN g ELSE mid - 1
    <3>2. i \in 0..L.size /\ i \in Nat /\ (i < L.size => i = g /\ g < M)
      BY <1>1, <2>1, <3>1
    <3>3. \A j \in 0..i-1 : j \in 0..g-1
      BY <1>1, <2>1, <3>1
    <3>4. IsGetIndex(i, L, y)
      BY <1>3, <2>2, <3>2, <3>3 DEF IsGetIndex
    <3> QED  BY <1>3, <3>1, <3>4, GapIs
  <2>4. ASSUME y >= s  PROVE g > mid /\ GetIndex(U, y) = g - mid
    <3>1. g > mid
      <4> SUFFICES ASSUME g <= mid  PROVE FALSE
        BY <1>1, <2>1
      <4>1. g < M /\ g \in 0..M-1 /\ mid \in 0..M-1 /\ (g = mid \/ g < mid)
        BY <1>1, <2>1
      <4>2. F.key[g] <= s /\ F.key[g] \in Int
        BY <1>1, <1>2, <1>5, <4>1
      <4> QED  BY <1>5, <2>2, <2>4, <4>1, <4>2
    <3>2. g - mid \in 0..U.size /\ (g - mid < U.size => g < M /\ g - mid \in 0..M-mid-1 /\ mid + (g - mid) = g)
      BY <1>1, <1>3, <2>1, <3>1
    <3>3. ASSUME NEW j \in 0..(g - mid) - 1  PROVE U.key[j] <= y
      <4>1. j \in 0..M-mid-1 /\ mid + j \in 0..g-1
        BY <1>1, <2>1, <3>1
      <4> QED  BY <1>4, <2>2, <4>1
    <3>4. g - mid < U.size => U.key[g - mid] > y
      BY <1>4, <2>2, <3>2
    <3>5. IsGetIndex(g - mid, U, y)
      BY <3>2, <3>3, <3>4 DEF IsGetIndex
    <3> QED  BY <1>3, <3>1, <3>5, GapIs
  <2> QED  BY <2>3, <2>4 DEF g
<1> QED  BY <1>5, <1>6, <1>7, <1>8

-----------------------------------------------------------------------------
(***************************************************************************)
(* Page p of the tree V is split in W: its upper half is page n, and the   *)
(* page it hangs on gets a slot for that.                                  *)
(***************************************************************************)
Separator(F) == F.key[Mid(F)]

Split(V, W, p, n) ==
  /\ p \in DOMAIN V /\ V[p].size = M
  /\ V[p].parent \in DOMAIN V
  /\ n \in (Nat \ {0}) \ DOMAIN V /\ DOMAIN W = DOMAIN V \cup {n}
  /\ Halved(V[p], W[p], W[n], Mid(V[p])) /\ W[n].self = n
  /\ Widened(V[V[p].parent], W[V[p].parent], Separator(V[p]), p, n)
  /\ \A q \in DOMAIN V \ {p, V[p].parent} :
       W[q] = IF ~V[p].isLeaf /\ q \in Children(W[n])
              THEN [V[q] EXCEPT !.parent = n] ELSE V[q]

(* That happens on the way of a key. *)
Parting(V, W, root, rank, route, p, n, k) ==
  /\ Tree(V, root, rank) /\ Routed(V, root, rank, route)
  /\ Split(V, W, p, n) /\ p # root
  /\ k \in Int /\ rank[p] <= rank[root] /\ route[k][rank[p]] = p

(* Where the page, its parent and the keys of the page are on the way. *)
LEMMA PartingFacts ==
  ASSUME NEW V, NEW W, NEW root, NEW rank, NEW route, NEW p, NEW n, NEW k,
         Parting(V, W, root, rank, route, p, n, k),
         NEW P, P = V[p].parent, NEW s, s = Separator(V[p]), NEW x, x = GetIndex(V[P], s)
  PROVE  /\ rank[p] \in Nat /\ rank[root] \in Nat /\ rank[p] < rank[root]
         /\ p \in DOMAIN V /\ P \in DOMAIN V /\ P # p /\ n \notin DOMAIN V
         /\ rank[P] = rank[p] + 1 /\ ~V[P].isLeaf /\ P = route[k][rank[p] + 1]
         /\ Proper(V[p]) /\ Proper(V[P]) /\ V[p].size = M
         /\ s \in Int /\ s \in KeysOf(V[p])
         /\ \A w \in KeysOf(V[p]) : /\ w \in Int /\ route[w][rank[p]] = p
                                    /\ route[w][rank[p] + 1] = P /\ GetIndex(V[P], w) = x
         /\ x \in 0..V[P].size /\ V[P].dat[x] = p
         /\ x > 0 => V[P].key[x-1] < s
<1> DEFINE r == rank[p]
<1>1. /\ p \in DOMAIN V /\ V[p].size = M /\ P \in DOMAIN V /\ n \notin DOMAIN V
      /\ Tree(V, root, rank) /\ Routed(V, root, rank, route) /\ k \in Int
      /\ route[k][r] = p /\ p # root /\ Halved(V[p], W[p], W[n], Mid(V[p]))
  BY DEF Parting, Split
<1>2. r \in Nat /\ rank[root] \in Nat /\ Proper(V[p]) /\ Proper(V[P]) /\ r <= rank[root]
  BY <1>1 DEF Tree, Parting
<1>3. r < rank[root]
  <2>1. r # rank[root]
    BY <1>1 DEF Routed
  <2> QED  BY <1>2, <2>1
<1> HIDE DEF r
<1> DEFINE Joins(w) == /\ route[w][r + 1] = route[k][r + 1]
                       /\ V[route[w][r]].parent = route[w][r + 1]
                       /\ GetIndex(V[route[w][r + 1]], w) = GetIndex(V[route[w][r + 1]], k)
<1>4. ASSUME NEW w \in Int, route[w][r] = p  PROVE Joins(w)
  <2>1. /\ Tree(V, root, rank) /\ Routed(V, root, rank, route)
        /\ r \in Nat /\ r < rank[root] /\ k \in Int /\ route[w][r] = route[k][r]
    BY <1>1, <1>2, <1>3, <1>4
  <2> QED  BY ONLY <2>1, w \in Int, SameWay
<1>5. P = route[k][r + 1]
  BY <1>1, <1>4
<1>6. r + 1 \in 0..rank[root] /\ r \in 0..rank[root] /\ r + 1 > 0 /\ (r + 1) - 1 = r
  BY <1>2, <1>3
<1>7. rank[P] = r + 1 /\ rank[P] # 0
  BY <1>1, <1>2, <1>5, <1>6 DEF Routed
<1>8. ~V[P].isLeaf /\ P # p
  BY <1>1, <1>2, <1>7 DEF Tree, r
<1>9. /\ s \in Int /\ s \in KeysOf(V[p]) /\ V[p].key[0] \in KeysOf(V[p]) /\ V[p].key[0] < s
  BY <1>1, <1>2, HalvedGaps DEF Separator
<1>10. \A w \in KeysOf(V[p]) : w \in Int /\ route[w][r] = p
  BY <1>1, <1>2, <1>6, ProperFields DEF Routed
<1>11. ASSUME NEW w \in KeysOf(V[p])
       PROVE  route[w][r + 1] = P /\ GetIndex(V[P], w) = x
  <2>1. /\ route[w][r + 1] = route[k][r + 1]
        /\ GetIndex(V[route[w][r + 1]], w) = GetIndex(V[route[w][r + 1]], k)
    BY <1>10, <1>4
  <2>2. /\ route[s][r + 1] = route[k][r + 1]
        /\ GetIndex(V[route[s][r + 1]], s) = GetIndex(V[route[s][r + 1]], k)
    BY <1>9, <1>10, <1>4
  <2> QED  BY <1>5, <2>1, <2>2
<1>12. x \in 0..V[P].size /\ IsGetIndex(x, V[P], V[p].key[0])
  <2>1. GetIndex(V[P], V[p].key[0]) = x
    BY <1>9, <1>11
  <2> QED  BY <1>2, <1>9, <1>10, <2>1, GapIs
<1>13. V[P].dat[x] = p
  <2>1. route[s][r] = V[route[s][r + 1]].dat[GetIndex(V[route[s][r + 1]], s)]
    BY <1>1, <1>6, <1>9 DEF Routed
  <2> QED  BY <1>9, <1>10, <1>11, <2>1
<1>14. ASSUME x > 0  PROVE V[P].key[x-1] < s
  <2>1. x - 1 \in 0..x-1 /\ x - 1 \in 0..V[P].size-1
    BY <1>2, <1>12, <1>14, ProperFields
  <2>2. V[P].key[x-1] <= V[p].key[0] /\ V[P].key[x-1] \in Int
    BY <1>2, <1>12, <2>1, ProperFields DEF IsGetIndex
  <2> QED  BY <1>9, <1>10, <2>2
<1> QED  BY <1>1, <1>2, <1>3, <1>5, <1>7, <1>8, <1>9, <1>10, <1>11, <1>12, <1>13, <1>14 DEF r

(* What becomes of the pages. *)
Moves(V, W, p, n, q) == ~V[p].isLeaf /\ q \in Children(W[n])

(* After the split every page is a proper node under the parent it names. *)
LEMMA PartingPages ==
  ASSUME NEW V, NEW W, NEW root, NEW rank, NEW route, NEW p, NEW n, NEW k,
         Parting(V, W, root, rank, route, p, n, k),
         NEW P, P = V[p].parent, NEW mid, mid = Mid(V[p])
  PROVE  /\ \A q \in DOMAIN W : Proper(W[q]) /\ W[q].self = q
         /\ \A q \in DOMAIN V : W[q].isLeaf = V[q].isLeaf
         /\ W[n].isLeaf = V[p].isLeaf
         /\ \A q \in DOMAIN V \ {p, P} :
              W[q].size = V[q].size /\ W[q].key = V[q].key /\ W[q].dat = V[q].dat /\ W[q].del = V[q].del
         /\ W[p].parent = P /\ W[n].parent = P /\ W[P].parent = V[P].parent
         /\ \A q \in DOMAIN V \ {p} : V[q].parent # p => W[q].parent = V[q].parent
         /\ ~V[p].isLeaf =>
              \A i \in 0..M : W[V[p].dat[i]].parent = IF i >= mid THEN n ELSE p
<1>1. /\ Tree(V, root, rank) /\ Halved(V[p], W[p], W[n], mid) /\ W[n].self = n
      /\ Widened(V[P], W[P], Separator(V[p]), p, n)
      /\ \A q \in DOMAIN V \ {p, P} :
           W[q] = IF Moves(V, W, p, n, q) THEN [V[q] EXCEPT !.parent = n] ELSE V[q]
      /\ n \in Nat /\ DOMAIN W = DOMAIN V \cup {n}
  BY DEF Parting, Split, Moves
<1>2. /\ p \in DOMAIN V /\ P \in DOMAIN V /\ P # p /\ n \notin DOMAIN V
      /\ rank[P] = rank[p] + 1 /\ rank[p] \in Nat
      /\ Proper(V[p]) /\ Proper(V[P]) /\ V[p].size = M
  BY PartingFacts
<1>3. Proper(W[P])
  <2>1. /\ Separator(V[p]) \in Int
        /\ GetIndex(V[P], Separator(V[p])) > 0 =>
             V[P].key[GetIndex(V[P], Separator(V[p])) - 1] < Separator(V[p])
    BY PartingFacts
  <2> QED  BY <1>1, <1>2, <2>1, WidenedGaps
<1>4. \A q \in DOMAIN V : V[q] \in BptreeNode /\ Proper(V[q]) /\ V[q].self = q
  BY <1>1 DEF Tree, Proper
<1>5. ASSUME NEW q \in DOMAIN V \ {p, P}
      PROVE  /\ W[q].size = V[q].size /\ W[q].key = V[q].key /\ W[q].dat = V[q].dat
             /\ W[q].del = V[q].del /\ W[q].self = V[q].self /\ W[q].isLeaf = V[q].isLeaf
             /\ W[q] \in BptreeNode
             /\ W[q].parent = IF Moves(V, W, p, n, q) THEN n ELSE V[q].parent
  <2>1. CASE Moves(V, W, p, n, q)
    <3>1. V[q] \in BptreeNode /\ W[q] = [V[q] EXCEPT !.parent = n] /\ n \in Int
      BY <1>1, <1>4, <2>1
    <3> QED  BY <2>1, <3>1 DEF BptreeNode
  <2>2. CASE ~Moves(V, W, p, n, q)
    BY <1>1, <1>4, <2>2
  <2> QED  BY <2>1, <2>2
<1>6. ASSUME NEW q \in DOMAIN V \ {p, P}  PROVE Proper(W[q])
  BY <1>4, <1>5 DEF Proper, Initialised, Strict
<1>7. \A q \in DOMAIN W : Proper(W[q]) /\ W[q].self = q
  <2>1. /\ Proper(W[p]) /\ Proper(W[n]) /\ W[p].self = V[p].self /\ W[P].self = V[P].self
    BY <1>1 DEF Halved, Widened
  <2> QED  BY <1>1, <1>2, <1>3, <1>4, <1>5, <1>6, <2>1
<1>8. /\ \A q \in DOMAIN V : W[q].isLeaf = V[q].isLeaf
      /\ W[n].isLeaf = V[p].isLeaf
      /\ W[p].parent = P /\ W[n].parent = P /\ W[P].parent = V[P].parent
  BY <1>1, <1>5 DEF Halved, Widened
<1>9. ASSUME ~V[p].isLeaf
      PROVE  /\ Children(W[n]) = {V[p].dat[i] : i \in mid..M}
             /\ \A i \in 0..M : /\ V[p].dat[i] \in DOMAIN V \ {p, P}
                                /\ V[V[p].dat[i]].parent = p
                                /\ \A j \in 0..M : V[p].dat[j] = V[p].dat[i] => j = i
  <2>1. \A i \in 0..M : /\ V[p].dat[i] \in DOMAIN V
                        /\ V[V[p].dat[i]].parent = p
                        /\ rank[p] = rank[V[p].dat[i]] + 1
                        /\ \A j \in 0..M : V[p].dat[j] = V[p].dat[i] => j = i
    BY <1>1, <1>2, <1>9 DEF Tree, Pointed
  <2>2. \A i \in 0..M : V[p].dat[i] # p /\ V[p].dat[i] # P
    <3> TAKE i \in 0..M
    <3>1. rank[V[p].dat[i]] \in Nat
      BY <1>1, <2>1 DEF Tree
    <3> QED  BY <1>2, <2>1, <3>1
  <2>3. /\ mid \in 2..M-1 /\ M \in Nat /\ W[n].size = M - mid
        /\ \A i \in 0..M-mid : W[n].dat[i] = V[p].dat[mid + i]
    BY <1>1, <1>9, NodeFields DEF Halved, Proper
  <2>4. Children(W[n]) = {V[p].dat[i] : i \in mid..M}
    <3>1. ASSUME NEW c \in Children(W[n])  PROVE c \in {V[p].dat[i] : i \in mid..M}
      <4>1. PICK i \in 0..M-mid : c = V[p].dat[mid + i]
        BY <2>3 DEF Children
      <4>2. mid + i \in mid..M
        BY <2>3
      <4> QED  BY <4>1, <4>2
    <3>2. ASSUME NEW i \in mid..M  PROVE V[p].dat[i] \in Children(W[n])
      <4>1. i - mid \in 0..M-mid /\ mid + (i - mid) = i
        BY <2>3
      <4>2. W[n].dat[i - mid] = V[p].dat[i]
        BY <2>3, <4>1
      <4> QED  BY <2>3, <4>1, <4>2 DEF Children
    <3> QED  BY <3>1, <3>2
  <2> QED  BY <2>1, <2>2, <2>4
<1>10. ASSUME NEW q \in DOMAIN V \ {p}, V[q].parent # p  PROVE W[q].parent = V[q].parent
  <2>1. ~Moves(V, W, p, n, q)
    <3> SUFFICES ASSUME ~V[p].isLeaf, q \in Children(W[n])  PROVE FALSE
      BY DEF Moves
    <3>1. PICK i \in mid..M : q = V[p].dat[i]
      BY <1>9
    <3>2. i \in 0..M
      BY <1>1 DEF Halved
    <3> QED  BY <1>9, <1>10, <3>1, <3>2
  <2> QED  BY <1>5, <1>8, <2>1
<1>11. ASSUME ~V[p].isLeaf, NEW i \in 0..M
       PROVE  W[V[p].dat[i]].parent = IF i >= mid THEN n ELSE p
  <2>1. V[p].dat[i] \in DOMAIN V \ {p, P} /\ V[V[p].dat[i]].parent = p
    BY <1>9, <1>11
  <2>2. mid \in Nat /\ M \in Nat
    BY <1>1, NodeFields DEF Halved, Proper
  <2>3. i >= mid <=> V[p].dat[i] \in Children(W[n])
    <3>1. ASSUME i >= mid  PROVE V[p].dat[i] \in Children(W[n])
      <4>1. i \in mid..M
        BY <2>2, <3>1
      <4> QED  BY <1>9, <1>11, <4>1
    <3>2. ASSUME V[p].dat[i] \in Children(W[n])  PROVE i >= mid
      <4>1. PICK j \in mid..M : V[p].dat[i] = V[p].dat[j]
        BY <1>9, <1>11, <3>2
      <4>2. j \in 0..M
        BY <2>2
      <4>3. i = j
        BY <1>9, <1>11, <4>1, <4>2
      <4> QED  BY <2>2, <4>3
    <3> QED  BY <3>1, <3>2
  <2>4. W[V[p].dat[i]].parent = IF Moves(V, W, p, n, V[p].dat[i]) THEN n ELSE p
    BY <1>5, <2>1
  <2> QED  BY <1>11, <2>3, <2>4 DEF Moves
<1> QED  BY <1>5, <1>7, <1>8, <1>10, <1>11

(* The new page is as high as the one that was split. *)
RankWith(rank, n, r) == [q \in Nat |-> IF q = n THEN r ELSE rank[q]]

(* The split of a page other than the root leaves a tree of the same height. *)
LEMMA SplitTree ==
  ASSUME NEW V, NEW W, NEW root, NEW rank, NEW route, NEW p, NEW n, NEW k,
         Parting(V, W, root, rank, route, p, n, k)
  PROVE  Tree(W, root, RankWith(rank, n, rank[p]))
<1> DEFINE P == V[p].parent
           mid == Mid(V[p])
           s == Separator(V[p])
           x == GetIndex(V[P], s)
           high == RankWith(rank, n, rank[p])
<1>1. /\ Tree(V, root, rank) /\ Halved(V[p], W[p], W[n], mid) /\ W[n].self = n
      /\ Widened(V[P], W[P], s, p, n) /\ p # root
      /\ n \in Nat \ {0} /\ DOMAIN W = DOMAIN V \cup {n}
  BY DEF Parting, Split
<1>2. /\ p \in DOMAIN V /\ P \in DOMAIN V /\ P # p /\ n \notin DOMAIN V
      /\ rank[P] = rank[p] + 1 /\ rank[p] \in Nat /\ ~V[P].isLeaf
      /\ Proper(V[p]) /\ Proper(V[P]) /\ V[p].size = M
      /\ x \in 0..V[P].size /\ V[P].dat[x] = p
  BY PartingFacts
<1>3. /\ \A q \in DOMAIN W : Proper(W[q]) /\ W[q].self = q
      /\ \A q \in DOMAIN V : W[q].isLeaf = V[q].isLeaf
      /\ W[n].isLeaf = V[p].isLeaf
      /\ \A q \in DOMAIN V \ {p, P} : W[q].size = V[q].size /\ W[q].dat = V[q].dat
      /\ W[p].parent = P /\ W[n].parent = P /\ W[P].parent = V[P].parent
      /\ \A q \in DOMAIN V \ {p} : V[q].parent # p => W[q].parent = V[q].parent
      /\ ~V[p].isLeaf => \A i \in 0..M : W[V[p].dat[i]].parent = IF i >= mid THEN n ELSE p
  BY PartingPages
<1>4. /\ DOMAIN V \subseteq Nat \ {0}
      /\ \A q \in DOMAIN V : /\ rank[q] \in Nat /\ (V[q].isLeaf <=> rank[q] = 0)
                             /\ Pointed(V, root, rank, q)
                             /\ q # root => Hung(V, q)
      /\ root \in DOMAIN V /\ V[root].parent = NODE_EOF
  BY <1>1 DEF Tree
<1>5. high[n] = rank[p] /\ \A q \in DOMAIN V : high[q] = rank[q]
  BY <1>1, <1>2, <1>4 DEF RankWith
<1>6. /\ mid \in 2..M-1 /\ M \in Nat /\ W[n].size = M - mid
      /\ W[p].size = (IF V[p].isLeaf THEN mid ELSE mid - 1) /\ W[p].dat = V[p].dat
      /\ \A i \in 0..M-mid : ~V[p].isLeaf => W[n].dat[i] = V[p].dat[mid + i]
  BY <1>1, <1>2, NodeFields DEF Halved, Proper
<1>7. /\ V[P].size \in Nat /\ W[P].size = V[P].size + 1
      /\ \A j \in 0..x-1 : W[P].dat[j] = V[P].dat[j]
      /\ W[P].dat[x] = p /\ W[P].dat[x + 1] = n
      /\ \A j \in x+1..V[P].size : W[P].dat[j + 1] = V[P].dat[j]
  BY <1>1, <1>2, ProperFields DEF Widened
<1> HIDE DEF high, P, mid, s, x
<1>8. /\ W[root].parent = NODE_EOF
      /\ NODE_EOF \notin DOMAIN V
  <2>1. NODE_EOF \notin DOMAIN V
    BY <1>4 DEF NODE_EOF
  <2> QED  BY <1>1, <1>2, <1>3, <1>4, <2>1
<1>9. ASSUME NEW q \in DOMAIN V \ {p, P}  PROVE Pointed(W, root, high, q)
  <2> SUFFICES ASSUME ~V[q].isLeaf, NEW i \in 0..V[q].size
               PROVE  /\ V[q].dat[i] \in DOMAIN V \ {root}
                      /\ W[V[q].dat[i]].parent = q
                      /\ high[q] = high[V[q].dat[i]] + 1
                      /\ \A j \in 0..V[q].size : V[q].dat[j] = V[q].dat[i] => j = i
    BY <1>1, <1>3 DEF Pointed
  <2> DEFINE c == V[q].dat[i]
  <2>1. /\ c \in DOMAIN V \ {root} /\ V[c].parent = q /\ rank[q] = rank[c] + 1
        /\ \A j \in 0..V[q].size : V[q].dat[j] = c => j = i
    BY <1>4 DEF Pointed
  <2> HIDE DEF c
  <2>2. c # p
    BY <2>1 DEF P
  <2>3. W[c].parent = q
    BY <1>3, <2>1, <2>2
  <2> QED  BY <1>5, <2>1, <2>3 DEF c
<1>10. ASSUME ~V[p].isLeaf, NEW i \in 0..M
       PROVE  /\ V[p].dat[i] \in DOMAIN V \ {root}
              /\ high[p] = high[V[p].dat[i]] + 1
              /\ \A j \in 0..M : V[p].dat[j] = V[p].dat[i] => j = i
  BY <1>2, <1>4, <1>5, <1>10 DEF Pointed
<1>11. Pointed(W, root, high, p)
  <2> SUFFICES ASSUME ~V[p].isLeaf, NEW i \in 0..mid-1
               PROVE  /\ V[p].dat[i] \in DOMAIN V \ {root}
                      /\ W[V[p].dat[i]].parent = p
                      /\ high[p] = high[V[p].dat[i]] + 1
                      /\ \A j \in 0..mid-1 : V[p].dat[j] = V[p].dat[i] => j = i
    BY <1>1, <1>2, <1>3, <1>6 DEF Pointed
  <2>1. i \in 0..M /\ ~(i >= mid) /\ \A j \in 0..mid-1 : j \in 0..M
    BY <1>6
  <2> QED  BY <1>3, <1>10, <2>1
<1>12. Pointed(W, root, high, n)
  <2> SUFFICES ASSUME ~V[p].isLeaf, NEW i \in 0..M-mid
               PROVE  /\ W[n].dat[i] \in DOMAIN W \ {root}
                      /\ W[W[n].dat[i]].parent = n
                      /\ high[n] = high[W[n].dat[i]] + 1
                      /\ \A j \in 0..M-mid : W[n].dat[j] = W[n].dat[i] => j = i
    BY <1>3, <1>6 DEF Pointed
  <2>1. mid + i \in 0..M /\ mid + i >= mid /\ W[n].dat[i] = V[p].dat[mid + i]
    BY <1>6
  <2>2. ASSUME NEW j \in 0..M-mid, W[n].dat[j] = W[n].dat[i]  PROVE j = i
    <3>1. mid + j \in 0..M /\ W[n].dat[j] = V[p].dat[mid + j]
      BY <1>6
    <3>2. mid + j = mid + i
      BY <1>10, <2>1, <2>2, <3>1
    <3> QED  BY <1>6, <3>2
  <2>3. high[n] = high[p]
    BY <1>2, <1>5
  <2> QED  BY <1>1, <1>3, <1>10, <2>1, <2>2, <2>3
<1>13. Pointed(W, root, high, P)
  <2> DEFINE Slot(i) == IF i <= x THEN i ELSE i - 1
  <2>1. ASSUME NEW i \in 0..V[P].size + 1
        PROVE  /\ i = x + 1 => W[P].dat[i] = n
               /\ i # x + 1 => Slot(i) \in 0..V[P].size /\ W[P].dat[i] = V[P].dat[Slot(i)]
    <3>1. CASE i < x
      BY <1>2, <1>7, <3>1
    <3>2. CASE i = x
      BY <1>2, <1>7, <3>2
    <3>3. CASE i = x + 1
      BY <1>7, <3>3
    <3>4. CASE i > x + 1
      <4>1. i - 1 \in x+1..V[P].size /\ (i - 1) + 1 = i /\ Slot(i) = i - 1
        BY <1>2, <1>7, <3>4
      <4> QED  BY <1>2, <1>7, <3>4, <4>1
    <3> QED  BY <1>2, <1>7, <3>1, <3>2, <3>3, <3>4
  <2> SUFFICES ASSUME NEW i \in 0..V[P].size + 1
               PROVE  /\ W[P].dat[i] \in DOMAIN W \ {root}
                      /\ W[W[P].dat[i]].parent = P
                      /\ high[P] = high[W[P].dat[i]] + 1
                      /\ \A j \in 0..V[P].size + 1 : W[P].dat[j] = W[P].dat[i] => j = i
    BY <1>2, <1>3, <1>7 DEF Pointed
  <2>2. \A l \in 0..V[P].size :
           /\ V[P].dat[l] \in DOMAIN V \ {root}
           /\ V[V[P].dat[l]].parent = P
           /\ rank[P] = rank[V[P].dat[l]] + 1
           /\ \A j \in 0..V[P].size : V[P].dat[j] = V[P].dat[l] => j = l
    BY <1>2, <1>4 DEF Pointed
  <2>3. CASE i = x + 1
    <3>1. W[P].dat[i] = n
      BY <2>1, <2>3
    <3>2. ASSUME NEW j \in 0..V[P].size + 1, W[P].dat[j] = n  PROVE j = i
      BY <1>2, <2>1, <2>2, <2>3, <3>2
    <3>3. n # root
      BY <1>2, <1>4
    <3> QED  BY <1>1, <1>2, <1>3, <1>5, <3>1, <3>2, <3>3
  <2>4. CASE i # x + 1
    <3> DEFINE c == V[P].dat[Slot(i)]
    <3>1. W[P].dat[i] = c /\ Slot(i) \in 0..V[P].size
      BY <2>1, <2>4
    <3>2. /\ c \in DOMAIN V \ {root} /\ V[c].parent = P /\ rank[P] = rank[c] + 1
          /\ \A j \in 0..V[P].size : V[P].dat[j] = c => j = Slot(i)
      BY <2>2, <3>1
    <3>3. W[c].parent = P
      <4>1. CASE c = p
        BY <1>3, <4>1
      <4>2. CASE c # p
        BY <1>2, <1>3, <3>2, <4>2
      <4> QED  BY <4>1, <4>2
    <3>4. ASSUME NEW j \in 0..V[P].size + 1, W[P].dat[j] = c  PROVE j = i
      <4>1. j # x + 1
        BY <1>2, <2>1, <3>2, <3>4
      <4>2. Slot(j) \in 0..V[P].size /\ V[P].dat[Slot(j)] = c
        BY <2>1, <3>4, <4>1
      <4>3. Slot(j) = Slot(i)
        BY <3>2, <4>2
      <4>4. x \in Nat
        BY <1>2
      <4> QED  BY <2>4, <4>1, <4>3, <4>4
    <3>5. high[P] = high[c] + 1
      BY <1>2, <1>5, <3>2
    <3> QED  BY <1>1, <3>1, <3>2, <3>3, <3>4, <3>5
  <2> QED  BY <2>3, <2>4
<1>14. ASSUME NEW q \in DOMAIN V \ {root}  PROVE Hung(W, q)
  <2> DEFINE Q == V[q].parent
  <2>1. Q \in DOMAIN V /\ ~V[Q].isLeaf /\ \E i \in 0..V[Q].size : V[Q].dat[i] = q
    BY <1>4 DEF Hung
  <2>2. PICK i \in 0..V[Q].size : V[Q].dat[i] = q
    BY <2>1
  <2> HIDE DEF Q
  <2>3. CASE Q = p
    <3>1. i \in 0..M /\ ~V[p].isLeaf /\ V[p].dat[i] = q
      BY <1>2, <2>1, <2>2, <2>3
    <3>2. W[q].parent = IF i >= mid THEN n ELSE p
      BY <1>3, <3>1
    <3>3. CASE i >= mid
      <4>1. i - mid \in 0..M-mid /\ mid + (i - mid) = i
        BY <1>6, <3>1, <3>3
      <4>2. W[n].dat[i - mid] = q /\ i - mid \in 0..W[n].size
        BY <1>6, <3>1, <4>1
      <4> QED  BY <1>1, <1>3, <3>1, <3>2, <3>3, <4>2 DEF Hung
    <3>4. CASE ~(i >= mid)
      <4>1. i \in 0..W[p].size /\ W[p].dat[i] = q
        BY <1>6, <3>1, <3>4
      <4> QED  BY <1>1, <1>2, <1>3, <3>1, <3>2, <3>4, <4>1 DEF Hung
    <3> QED  BY <3>3, <3>4
  <2>4. CASE Q = P
    <3>1. W[q].parent = P
      BY <1>2, <1>3, <2>4 DEF Q
    <3>2. i \in 0..V[P].size /\ V[P].dat[i] = q
      BY <2>2, <2>4
    <3>3. \E l \in 0..V[P].size + 1 : W[P].dat[l] = q
      <4>1. CASE i < x
        <5>1. i \in 0..V[P].size + 1 /\ i \in 0..x-1
          BY <1>2, <1>7, <3>2, <4>1
        <5> QED  BY <1>7, <3>2, <5>1
      <4>2. CASE i = x
        <5>1. x \in 0..V[P].size + 1 /\ q = p
          BY <1>2, <1>7, <3>2, <4>2
        <5> QED  BY <1>7, <5>1
      <4>3. CASE i > x
        <5>1. i + 1 \in 0..V[P].size + 1 /\ i \in x+1..V[P].size
          BY <1>2, <1>7, <3>2, <4>3
        <5> QED  BY <1>7, <3>2, <5>1
      <4> QED  BY <1>2, <3>2, <4>1, <4>2, <4>3
    <3> QED  BY <1>1, <1>2, <1>3, <1>7, <3>1, <3>3 DEF Hung
  <2>5. CASE Q # p /\ Q # P
    <3>1. q # p
      BY <2>5 DEF Q, P
    <3>2. W[q].parent = Q
      BY <1>3, <2>5, <3>1 DEF Q
    <3>3. W[Q].size = V[Q].size /\ W[Q].dat = V[Q].dat /\ ~W[Q].isLeaf
      BY <1>3, <2>1, <2>5
    <3> QED  BY <1>1, <2>1, <2>2, <3>2, <3>3 DEF Hung
  <2> QED  BY <2>3, <2>4, <2>5
<1>15. Hung(W, n)
  <2>1. x + 1 \in 0..W[P].size
    BY <1>2, <1>7
  <2> QED  BY <1>1, <1>2, <1>3, <1>7, <2>1 DEF Hung
<1>16. \A q \in DOMAIN W : /\ high[q] \in Nat /\ (W[q].isLeaf <=> high[q] = 0)
                           /\ Pointed(W, root, high, q)
                           /\ q # root => Hung(W, q)
  <2> TAKE q \in DOMAIN W
  <2>1. CASE q = n
    BY <1>2, <1>3, <1>4, <1>5, <1>12, <1>15, <2>1
  <2>2. CASE q \in DOMAIN V
    BY <1>3, <1>4, <1>5, <1>9, <1>11, <1>13, <1>14, <2>2
  <2> QED  BY <1>1, <2>1, <2>2
<1>17. DOMAIN W \subseteq Nat \ {0} /\ root \in DOMAIN W
  BY <1>1, <1>4
<1>18. Tree(W, root, high)
  BY <1>3, <1>8, <1>16, <1>17 DEF Tree
<1> QED  BY <1>18 DEF high

(***************************************************************************)
(* New ways.  The separator that goes up is key[mid] and not the one that  *)
(* divides the halves, so keys between the two, which came to the first    *)
(* child of the upper half, now come to the last child of the lower one    *)
(* and go on there like the greatest of its keys could.                    *)
(***************************************************************************)
Between(F, x) == F.key[Mid(F) - 1] <= x /\ x < Separator(F)

Via(V, rank, route, p, x) ==
  IF route[x][rank[p]] = p /\ Between(V[p], x) THEN V[p].key[Mid(V[p]) - 1] - 1 ELSE x

RouteWith(V, rank, route, p, n) ==
  [x \in Int |-> [r \in Nat |->
     IF r < rank[p] THEN route[Via(V, rank, route, p, x)][r]
     ELSE IF r = rank[p] /\ route[x][r] = p /\ x >= Separator(V[p]) THEN n
     ELSE route[x][r]]]

(* The keys in the gap are those that GetIndex sends to the last slot kept. *)
LEMMA BetweenGap ==
  ASSUME NEW F, Proper(F), F.size = M, NEW mid, mid = Mid(F), NEW x \in Int
  PROVE  /\ mid \in 2..M-1 /\ F.key[mid-1] \in Int /\ F.key[mid-2] \in KeysOf(F)
         /\ F.key[mid-1] \in KeysOf(F) /\ F.key[mid-2] <= F.key[mid-1] - 1
         /\ Between(F, x) <=> GetIndex(F, x) = mid
         /\ GetIndex(F, F.key[mid-1] - 1) = mid - 1
         /\ GetIndex(F, x) < mid => x <= F.key[mid-1] - 1
<1>1. /\ mid \in 2..M-1 /\ M \in Nat /\ \A i \in 0..M-1 : F.key[i] \in Int
  BY MidBounds, ProperFields, NodeFields DEF Proper
<1>2. mid - 1 \in 0..M-1 /\ mid - 2 \in 0..M-1 /\ mid \in 0..M-1
  BY <1>1
<1>3. F.key[mid-2] < F.key[mid-1] /\ F.key[mid-2] \in Int /\ F.key[mid-1] \in Int /\ F.key[mid] \in Int
  <2>1. mid - 2 < mid - 1
    BY <1>1
  <2> QED  BY <1>1, <1>2, <2>1 DEF Proper, Strict
<1>4. F.key[mid-2] \in KeysOf(F) /\ F.key[mid-1] \in KeysOf(F)
  BY <1>2 DEF KeysOf
<1>5. ASSUME Between(F, x)  PROVE GetIndex(F, x) = mid
  <2>1. F.key[mid-1] <= x /\ x < F.key[(mid - 1) + 1]
    BY <1>1, <1>5 DEF Between, Separator
  <2>2. GetIndex(F, x) = (mid - 1) + 1
    BY <1>2, <2>1, GapOfKey
  <2> QED  BY <1>1, <2>2
<1>6. ASSUME GetIndex(F, x) = mid  PROVE Between(F, x)
  <2>1. IsGetIndex(mid, F, x)
    BY <1>6, GapIs
  <2>2. F.key[mid - 1] <= x
    <3>1. mid - 1 \in 0..mid-1
      BY <1>1
    <3> QED  BY <2>1, <3>1 DEF IsGetIndex
  <2>3. F.key[mid] > x
    BY <1>1, <2>1 DEF IsGetIndex
  <2> QED  BY <1>3, <2>2, <2>3 DEF Between, Separator
<1>7. GetIndex(F, F.key[mid-1] - 1) = mid - 1
  <2>1. /\ F.key[mid-2] <= F.key[mid-1] - 1 /\ F.key[mid-1] - 1 \in Int
        /\ F.key[mid-1] - 1 < F.key[(mid - 2) + 1]
    BY <1>1, <1>3
  <2>2. GetIndex(F, F.key[mid-1] - 1) = (mid - 2) + 1
    BY <1>2, <2>1, GapOfKey
  <2> QED  BY <1>1, <2>2
<1>8. ASSUME GetIndex(F, x) < mid  PROVE x <= F.key[mid-1] - 1
  <2> DEFINE g == GetIndex(F, x)
  <2>1. g \in 0..M /\ IsGetIndex(g, F, x)
    BY GapIs
  <2> HIDE DEF g
  <2>2. g < M /\ g \in 0..M-1 /\ (g = mid - 1 \/ g < mid - 1)
    BY <1>1, <1>8, <2>1 DEF g
  <2>3. F.key[g] > x /\ F.key[g] \in Int
    BY <1>1, <2>1, <2>2 DEF IsGetIndex
  <2>4. F.key[g] <= F.key[mid-1]
    <3>1. CASE g = mid - 1
      BY <1>3, <3>1
    <3>2. CASE g < mid - 1
      <4>1. F.key[g] < F.key[mid-1]
        BY <1>2, <2>2, <3>2 DEF Proper, Strict
      <4> QED  BY <1>3, <2>3, <4>1
    <3> QED  BY <2>2, <3>1, <3>2
  <2> QED  BY <1>3, <2>3, <2>4
<1> QED  BY <1>1, <1>3, <1>4, <1>5, <1>6, <1>7, <1>8

(* The key that stands in is one that takes the same way and stays below the gap. *)
LEMMA ViaFacts ==
  ASSUME NEW V, NEW W, NEW root, NEW rank, NEW route, NEW p, NEW n, NEW k,
         Parting(V, W, root, rank, route, p, n, k), NEW x \in Int,
         NEW v, v = Via(V, rank, route, p, x)
  PROVE  /\ v \in Int /\ route[v][rank[p]] = route[x][rank[p]]
         /\ v # x => /\ route[x][rank[p]] = p /\ GetIndex(V[p], x) = Mid(V[p])
                     /\ GetIndex(V[p], v) = Mid(V[p]) - 1
                     /\ v = V[p].key[Mid(V[p]) - 1] - 1 /\ v < x
         /\ ~(route[v][rank[p]] = p /\ GetIndex(V[p], v) = Mid(V[p]))
<1> DEFINE mid == Mid(V[p])
           F == V[p]
           y == F.key[mid - 1] - 1
<1>1. /\ rank[p] \in Nat /\ rank[root] \in Nat /\ rank[p] < rank[root] /\ Proper(F) /\ F.size = M
      /\ \A w \in KeysOf(F) : w \in Int /\ route[w][rank[p]] = p
      /\ Tree(V, root, rank) /\ Routed(V, root, rank, route)
  <2>1. Tree(V, root, rank) /\ Routed(V, root, rank, route)
    BY DEF Parting
  <2> QED  BY <2>1, PartingFacts
<1>2. /\ mid \in 2..M-1 /\ F.key[mid-1] \in Int /\ F.key[mid-2] \in KeysOf(F)
      /\ F.key[mid-1] \in KeysOf(F) /\ F.key[mid-2] <= y /\ GetIndex(F, y) = mid - 1
      /\ Between(F, x) <=> GetIndex(F, x) = mid
  BY <1>1, BetweenGap
<1>3. route[y][rank[p]] = p
  <2>1. /\ F.key[mid-2] \in Int /\ F.key[mid-1] \in Int /\ y \in Int
        /\ F.key[mid-2] <= y /\ y <= F.key[mid-1]
        /\ route[F.key[mid-2]][rank[p]] = p /\ route[F.key[mid-1]][rank[p]] = p
        /\ rank[p] \in 0..rank[root]
    BY <1>1, <1>2
  <2> HIDE DEF F, y, mid
  <2>2. route[y][rank[p]] = route[F.key[mid-2]][rank[p]]
    BY <1>1, <2>1, Convex
  <2> QED  BY <2>1, <2>2
<1>4. CASE route[x][rank[p]] = p /\ Between(F, x)
  <2>1. v = y /\ y \in Int /\ v < x
    BY <1>2, <1>4 DEF Via, Between
  <2> QED  BY <1>2, <1>3, <1>4, <2>1
<1>5. CASE ~(route[x][rank[p]] = p /\ Between(F, x))
  <2>1. v = x
    BY <1>5 DEF Via
  <2> QED  BY <1>2, <1>5, <2>1
<1> QED  BY <1>4, <1>5

(* Below p, no key of a page on a new way changes its own way. *)
LEMMA ViaBelow ==
  ASSUME NEW V, NEW W, NEW root, NEW rank, NEW route, NEW p, NEW n, NEW k,
         Parting(V, W, root, rank, route, p, n, k), NEW x \in Int,
         NEW v, v = Via(V, rank, route, p, x), NEW r \in Nat, r < rank[p],
         NEW w \in KeysOf(V[route[v][r]])
  PROVE  /\ w \in Int /\ route[w][r] = route[v][r]
         /\ Via(V, rank, route, p, w) = w
         /\ v # x => w <= v
<1> DEFINE mid == Mid(V[p])
           t == rank[p]
<1>1. /\ t \in Nat /\ rank[root] \in Nat /\ t < rank[root] /\ Proper(V[p]) /\ V[p].size = M
      /\ Tree(V, root, rank) /\ Routed(V, root, rank, route)
  <2>1. Tree(V, root, rank) /\ Routed(V, root, rank, route)
    BY DEF Parting
  <2> QED  BY <2>1, PartingFacts
<1>2. /\ v \in Int /\ route[v][t] = route[x][t]
      /\ v # x => /\ route[x][t] = p /\ GetIndex(V[p], v) = mid - 1
                  /\ v = V[p].key[mid - 1] - 1
      /\ ~(route[v][t] = p /\ GetIndex(V[p], v) = mid)
  BY ViaFacts
<1> HIDE DEF t, mid
<1>3. route[v][r] \in DOMAIN V /\ w \in Int /\ route[w][r] = route[v][r]
  <2>1. r \in 0..rank[root]
    BY <1>1 DEF t
  <2>2. route[v][r] \in DOMAIN V /\ route[w][r] = route[v][r]
    BY <1>1, <1>2, <2>1 DEF Routed
  <2>3. Proper(V[route[v][r]])
    BY <1>1, <2>2 DEF Tree
  <2> QED  BY <2>2, <2>3, ProperFields
<1>4. route[w][t] = route[v][t] /\ GetIndex(V[route[v][t]], w) = GetIndex(V[route[v][t]], v)
  <2>1. t - 1 \in Nat /\ r <= t - 1 /\ t - 1 <= rank[root] /\ t - 1 < rank[root] /\ (t - 1) + 1 = t
    BY <1>1 DEF t
  <2>2. route[w][t-1] = route[v][t-1]
    BY <1>1, <1>2, <1>3, <2>1, WaysJoin
  <2>3. /\ route[w][(t-1)+1] = route[v][(t-1)+1]
        /\ GetIndex(V[route[w][(t-1)+1]], w) = GetIndex(V[route[w][(t-1)+1]], v)
    BY <1>1, <1>2, <1>3, <2>1, <2>2, SameWay
  <2> QED  BY <2>1, <2>3
<1>5. Via(V, rank, route, p, w) = w
  <2> SUFFICES ASSUME route[w][t] = p, Between(V[p], w)  PROVE FALSE
    BY DEF Via, t
  <2>1. GetIndex(V[p], w) = mid
    BY <1>1, <1>3, BetweenGap DEF mid
  <2> QED  BY <1>2, <1>4, <2>1
<1>6. ASSUME v # x  PROVE w <= v
  <2>1. GetIndex(V[p], w) = mid - 1 /\ mid \in 2..M-1
    BY <1>1, <1>2, <1>3, <1>4, <1>6, BetweenGap DEF mid
  <2>2. GetIndex(V[p], w) < mid
    BY <2>1
  <2>3. w <= V[p].key[mid-1] - 1
    BY <1>1, <1>3, <2>2, BetweenGap DEF mid
  <2> QED  BY <1>2, <1>6, <2>3
<1> QED  BY <1>3, <1>5, <1>6

(* Where a key belongs only depends on the keys. *)
LEMMA SameGaps ==
  ASSUME NEW m, NEW n, m.size = n.size, m.key = n.key, NEW x
  PROVE  GetIndex(m, x) = GetIndex(n, x) /\ KeysOf(m) = KeysOf(n)
  BY DEF GetIndex, IsGetIndex, KeysOf

-----------------------------------------------------------------------------
(* One key on one height. *)
Goes(V, rank, route, x, r) ==
  /\ route[x][r] \in DOMAIN V /\ rank[route[x][r]] = r
  /\ \A w \in KeysOf(V[route[x][r]]) : route[w][r] = route[x][r]
  /\ r > 0 => route[x][r-1] = V[route[x][r]].dat[GetIndex(V[route[x][r]], x)]

(* The route after a split, height by height. *)
LEMMA NewWays ==
  ASSUME NEW rank, NEW route, NEW V, NEW p, NEW n, NEW x \in Int, NEW r \in Nat,
         rank[p] \in Nat, NEW ways, ways = RouteWith(V, rank, route, p, n)
  PROVE  ways[x][r] =
           IF r < rank[p] THEN route[Via(V, rank, route, p, x)][r]
           ELSE IF r = rank[p] /\ route[x][r] = p /\ x >= Separator(V[p]) THEN n
           ELSE route[x][r]
  BY DEF RouteWith

(* Above the parent of the page that is split nothing changes. *)
LEMMA WaysAbove ==
  ASSUME NEW V, NEW W, NEW root, NEW rank, NEW route, NEW p, NEW n, NEW k,
         Parting(V, W, root, rank, route, p, n, k), NEW x \in Int,
         NEW r \in 0..rank[root], r > rank[p] + 1
  PROVE  Goes(W, RankWith(rank, n, rank[p]), RouteWith(V, rank, route, p, n), x, r)
<1> DEFINE P    == V[p].parent
           t    == rank[p]
           high == RankWith(rank, n, t)
           ways == RouteWith(V, rank, route, p, n)
           q    == route[x][r]
<1>1. /\ t \in Nat /\ rank[root] \in Nat /\ rank[P] = t + 1 /\ n \notin DOMAIN V
      /\ DOMAIN W = DOMAIN V \cup {n} /\ Tree(V, root, rank) /\ Routed(V, root, rank, route)
  <2>1. Tree(V, root, rank) /\ Routed(V, root, rank, route) /\ DOMAIN W = DOMAIN V \cup {n}
    BY DEF Parting, Split
  <2> QED  BY <2>1, PartingFacts
<1>2. /\ q \in DOMAIN V /\ rank[q] = r /\ r \in Nat /\ r > 0
      /\ \A w \in KeysOf(V[q]) : route[w][r] = q
      /\ route[x][r-1] = V[q].dat[GetIndex(V[q], x)]
  BY <1>1 DEF Routed
<1>3. Proper(V[q]) /\ q \in Nat
  BY <1>1, <1>2 DEF Tree
<1>4. q # p /\ q # P /\ q # n
  BY <1>1, <1>2
<1>5. W[q].size = V[q].size /\ W[q].key = V[q].key /\ W[q].dat = V[q].dat
  BY <1>2, <1>4, PartingPages
<1>6. GetIndex(W[q], x) = GetIndex(V[q], x) /\ KeysOf(W[q]) = KeysOf(V[q])
  BY <1>5, SameGaps
<1>7. \A w \in KeysOf(V[q]) : w \in Int
  BY <1>3, ProperFields
<1>8. /\ r - 1 \in Nat /\ ~(r < t) /\ ~(r - 1 < t) /\ r # t /\ r - 1 # t
  BY <1>1, <1>2
<1>9. \A y \in Int : ways[y][r] = route[y][r] /\ ways[y][r-1] = route[y][r-1]
  BY <1>1, <1>2, <1>8, NewWays DEF t
<1>10. high[q] = rank[q]
  BY <1>3, <1>4 DEF RankWith
<1> HIDE DEF high, ways, P, t, q
<1>11. ways[x][r] = q /\ ways[x][r-1] = route[x][r-1]
  BY <1>9 DEF q
<1>12. \A w \in KeysOf(W[q]) : ways[w][r] = q
  BY <1>2, <1>6, <1>7, <1>9
<1> QED  BY <1>1, <1>2, <1>5, <1>6, <1>10, <1>11, <1>12 DEF Goes, high, ways, t

(* At the parent. *)
LEMMA WaysAtParent ==
  ASSUME NEW V, NEW W, NEW root, NEW rank, NEW route, NEW p, NEW n, NEW k,
         Parting(V, W, root, rank, route, p, n, k), NEW x \in Int
  PROVE  Goes(W, RankWith(rank, n, rank[p]), RouteWith(V, rank, route, p, n), x, rank[p] + 1)
<1> DEFINE P    == V[p].parent
           t    == rank[p]
           r    == t + 1
           s    == Separator(V[p])
           x0   == GetIndex(V[P], s)
           high == RankWith(rank, n, t)
           ways == RouteWith(V, rank, route, p, n)
           q    == route[x][r]
           g    == GetIndex(V[q], x)
<1>1. /\ t \in Nat /\ rank[root] \in Nat /\ t < rank[root] /\ rank[P] = r /\ n \notin DOMAIN V
      /\ P # p /\ P \in DOMAIN V /\ Proper(V[P]) /\ ~V[P].isLeaf
      /\ DOMAIN W = DOMAIN V \cup {n} /\ Tree(V, root, rank) /\ Routed(V, root, rank, route)
      /\ Widened(V[P], W[P], s, p, n)
      /\ s \in Int /\ route[s][t] = p /\ route[s][r] = P
      /\ x0 \in 0..V[P].size /\ V[P].dat[x0] = p /\ (x0 > 0 => V[P].key[x0-1] < s)
  <2>1. /\ Tree(V, root, rank) /\ Routed(V, root, rank, route) /\ DOMAIN W = DOMAIN V \cup {n}
        /\ Widened(V[P], W[P], s, p, n)
    BY DEF Parting, Split
  <2> QED  BY <2>1, PartingFacts
<1>2. /\ q \in DOMAIN V /\ rank[q] = r /\ r \in Nat /\ r > 0 /\ r - 1 = t
      /\ \A w \in KeysOf(V[q]) : route[w][r] = q
      /\ route[x][t] = V[q].dat[g]
  <2>1. r \in 0..rank[root] /\ r > 0 /\ r - 1 = t /\ r \in Nat
    BY <1>1
  <2>2. /\ q \in DOMAIN V /\ rank[q] = r
        /\ \A w \in KeysOf(V[q]) : route[w][r] = q
        /\ route[x][r-1] = V[q].dat[g]
    BY <1>1, <2>1 DEF Routed
  <2> QED  BY <2>1, <2>2
<1>3. Proper(V[q]) /\ q \in Nat /\ g \in 0..V[q].size /\ \A w \in KeysOf(V[q]) : w \in Int
  <2>1. Proper(V[q]) /\ q \in Nat
    BY <1>1, <1>2 DEF Tree
  <2> QED  BY <2>1, GapIs, ProperFields
<1>4. q # p /\ q # n
  BY <1>1, <1>2
<1>5. \A y \in Int : /\ ways[y][r] = route[y][r]
                     /\ ways[y][t] = IF route[y][t] = p /\ y >= s THEN n ELSE route[y][t]
  <2>1. ~(r < t) /\ ~(t < t) /\ r # t
    BY <1>1
  <2> QED  BY <1>1, <1>2, <2>1, NewWays DEF t
<1>6. high[q] = rank[q]
  BY <1>3, <1>4 DEF RankWith
<1>7. route[x][t] = p => q = P
  <2>1. /\ rank[p] \in Nat /\ rank[p] < rank[root]
        /\ Tree(V, root, rank) /\ Routed(V, root, rank, route)
        /\ s \in Int /\ route[s][rank[p]] = p /\ route[s][rank[p] + 1] = P
    BY <1>1
  <2> HIDE DEF P, s
  <2>2. ASSUME route[x][rank[p]] = p  PROVE route[x][rank[p] + 1] = P
    <3>1. route[x][rank[p]] = route[s][rank[p]]
      BY <2>1, <2>2
    <3>2. route[x][rank[p] + 1] = route[s][rank[p] + 1]
      BY ONLY <2>1, <3>1, x \in Int, SameWay
    <3> QED  BY <2>1, <3>2
  <2> QED  BY <2>2
<1> HIDE DEF high, ways, P, t, q, r, s, x0, g
<1>8. q = P => g = GetIndex(V[P], x)
  BY DEF g
<1>9. /\ KeysOf(W[q]) \subseteq KeysOf(V[q]) \cup (IF q = P THEN {s} ELSE {})
      /\ ways[x][t] = W[q].dat[GetIndex(W[q], x)]
  <2>1. CASE q # P
    <3>1. W[q].size = V[q].size /\ W[q].key = V[q].key /\ W[q].dat = V[q].dat
      BY <1>2, <1>4, <2>1, PartingPages DEF P
    <3>2. GetIndex(W[q], x) = g /\ KeysOf(W[q]) = KeysOf(V[q])
      BY <3>1, SameGaps DEF g
    <3>3. ways[x][t] = route[x][t]
      BY <1>5, <1>7, <2>1
    <3> QED  BY <1>2, <2>1, <3>1, <3>2, <3>3
  <2>2. CASE q = P
    <3> DEFINE h == GetIndex(W[P], x)
    <3>1. /\ KeysOf(W[P]) = KeysOf(V[P]) \cup {s}
          /\ h = IF g < x0 \/ (g = x0 /\ x < s) THEN g ELSE g + 1
      BY <1>1, <1>8, <2>2, WidenedGaps DEF x0
    <3>2. /\ \A j \in 0..x0-1 : W[P].dat[j] = V[P].dat[j]
          /\ W[P].dat[x0] = p /\ W[P].dat[x0 + 1] = n
          /\ \A j \in x0+1..V[P].size : W[P].dat[j + 1] = V[P].dat[j]
      BY <1>1 DEF Widened, x0
    <3>3. \A i \in 0..V[P].size : V[P].dat[i] = p => i = x0
      <4>1. Pointed(V, root, rank, P)
        BY <1>1 DEF Tree
      <4> QED  BY <1>1, <4>1 DEF Pointed
    <3>4. g \in 0..V[P].size /\ V[P].size \in Nat /\ route[x][t] = V[P].dat[g]
      BY <1>1, <1>2, <1>3, <2>2, ProperFields
    <3> HIDE DEF h
    <3>5. CASE g < x0
      <4>1. route[x][t] # p /\ g \in 0..x0-1 /\ h = g
        BY <1>1, <3>1, <3>3, <3>4, <3>5
      <4>2. ways[x][t] = route[x][t]
        BY <1>5, <4>1
      <4> QED  BY <2>2, <3>1, <3>2, <3>4, <4>1, <4>2 DEF h
    <3>6. CASE g = x0 /\ x < s
      <4>1. h = x0 /\ route[x][t] = p /\ ~(x >= s)
        BY <1>1, <3>1, <3>4, <3>6
      <4>2. ways[x][t] = p
        BY <1>5, <4>1
      <4> QED  BY <2>2, <3>1, <3>2, <4>1, <4>2 DEF h
    <3>7. CASE g = x0 /\ x >= s
      <4>1. h = x0 + 1 /\ route[x][t] = p
        BY <1>1, <3>1, <3>4, <3>7
      <4>2. ways[x][t] = n
        BY <1>5, <3>7, <4>1
      <4> QED  BY <2>2, <3>1, <3>2, <4>1, <4>2 DEF h
    <3>8. CASE g > x0
      <4>1. route[x][t] # p /\ g \in x0+1..V[P].size /\ h = g + 1
        BY <1>1, <3>1, <3>3, <3>4, <3>8
      <4>2. ways[x][t] = route[x][t]
        BY <1>5, <4>1
      <4>3. W[P].dat[g + 1] = V[P].dat[g]
        BY <3>2, <4>1
      <4> QED  BY <2>2, <3>1, <3>4, <4>1, <4>2, <4>3 DEF h
    <3> QED  BY <1>1, <3>4, <3>5, <3>6, <3>7, <3>8
  <2> QED  BY <2>1, <2>2
<1>10. ways[x][r] = q
  BY <1>5 DEF q
<1>11. \A w \in KeysOf(W[q]) : ways[w][r] = q
  BY <1>1, <1>2, <1>3, <1>5, <1>9
<1>12. Goes(W, high, ways, x, r)
  BY <1>1, <1>2, <1>6, <1>9, <1>10, <1>11 DEF Goes
<1> QED  BY <1>12 DEF high, ways, t, r

(* At the page that is split. *)
LEMMA WaysAtSplit ==
  ASSUME NEW V, NEW W, NEW root, NEW rank, NEW route, NEW p, NEW n, NEW k,
         Parting(V, W, root, rank, route, p, n, k), NEW x \in Int
  PROVE  Goes(W, RankWith(rank, n, rank[p]), RouteWith(V, rank, route, p, n), x, rank[p])
<1> DEFINE P    == V[p].parent
           t    == rank[p]
           mid  == Mid(V[p])
           s    == Separator(V[p])
           high == RankWith(rank, n, t)
           ways == RouteWith(V, rank, route, p, n)
           v    == Via(V, rank, route, p, x)
           q    == route[x][t]
           g    == GetIndex(V[q], x)
<1>1. /\ t \in Nat /\ rank[root] \in Nat /\ t < rank[root] /\ rank[P] = t + 1 /\ n \notin DOMAIN V
      /\ p \in DOMAIN V /\ Proper(V[p]) /\ V[p].size = M /\ s \in Int /\ P # p
      /\ DOMAIN W = DOMAIN V \cup {n} /\ n \in Nat
      /\ Tree(V, root, rank) /\ Routed(V, root, rank, route)
      /\ Halved(V[p], W[p], W[n], mid)
      /\ \A w \in KeysOf(V[p]) : w \in Int /\ route[w][t] = p
  <2>1. /\ Tree(V, root, rank) /\ Routed(V, root, rank, route) /\ DOMAIN W = DOMAIN V \cup {n}
        /\ n \in Nat /\ Halved(V[p], W[p], W[n], mid)
    BY DEF Parting, Split
  <2> QED  BY <2>1, PartingFacts
<1>2. /\ q \in DOMAIN V /\ rank[q] = t
      /\ \A w \in KeysOf(V[q]) : route[w][t] = q
      /\ \A y \in Int : t > 0 => route[y][t-1] = V[route[y][t]].dat[GetIndex(V[route[y][t]], y)]
  <2>1. t \in 0..rank[root]
    BY <1>1
  <2> QED  BY <1>1, <2>1 DEF Routed
<1>3. Proper(V[q]) /\ q \in Nat /\ g \in 0..V[q].size /\ \A w \in KeysOf(V[q]) : w \in Int
  <2>1. Proper(V[q]) /\ q \in Nat
    BY <1>1, <1>2 DEF Tree
  <2> QED  BY <2>1, GapIs, ProperFields
<1>4. /\ v \in Int /\ route[v][t] = q
      /\ v # x => q = p /\ g = mid /\ GetIndex(V[p], v) = mid - 1 /\ x < s
      /\ ~(q = p /\ GetIndex(V[p], v) = mid)
  <2>1. /\ v \in Int /\ route[v][rank[p]] = route[x][rank[p]]
        /\ v # x => /\ route[x][rank[p]] = p /\ GetIndex(V[p], x) = Mid(V[p])
                    /\ GetIndex(V[p], v) = Mid(V[p]) - 1
        /\ ~(route[v][rank[p]] = p /\ GetIndex(V[p], v) = Mid(V[p]))
    BY ViaFacts
  <2>2. v # x => x < s
    BY DEF Via, Between
  <2> QED  BY <2>1, <2>2
<1>5. \A y \in Int : ways[y][t] = IF route[y][t] = p /\ y >= s THEN n ELSE route[y][t]
  <2>1. ~(t < t)
    BY <1>1
  <2> QED  BY <1>1, <2>1, NewWays DEF t
<1>6. t > 0 => ways[x][t-1] = V[q].dat[GetIndex(V[q], v)]
  <2> SUFFICES ASSUME t > 0  PROVE ways[x][t-1] = V[q].dat[GetIndex(V[q], v)]
    OBVIOUS
  <2>1. t - 1 \in Nat /\ t - 1 < t
    BY <1>1
  <2>2. ways[x][t-1] = route[v][t-1]
    BY <1>1, <2>1, NewWays DEF t
  <2> QED  BY <1>2, <1>4, <2>2
<1>7. high[n] = t /\ high[q] = t
  BY <1>1, <1>2, <1>3 DEF RankWith
<1>8. t > 0 => ~V[p].isLeaf
  BY <1>1 DEF Tree
<1>9. /\ \A w \in KeysOf(W[p]) : w \in KeysOf(V[p]) /\ w < s
      /\ \A w \in KeysOf(W[n]) : w \in KeysOf(V[p]) /\ w >= s
      /\ ~V[p].isLeaf =>
              /\ x < s => GetIndex(W[p], x) = IF GetIndex(V[p], x) < mid THEN GetIndex(V[p], x) ELSE mid - 1
              /\ x < s => GetIndex(V[p], x) <= mid
              /\ x >= s => GetIndex(V[p], x) > mid /\ GetIndex(W[n], x) = GetIndex(V[p], x) - mid
  BY <1>1, HalvedGaps DEF Separator
<1>10. /\ mid \in Nat /\ W[p].dat = V[p].dat
       /\ ~V[p].isLeaf => \A i \in 0..M-mid : W[n].dat[i] = V[p].dat[mid + i]
  BY <1>1 DEF Halved
<1> HIDE DEF high, ways, P, t, q, s, g, v, mid
<1>11. CASE q = p /\ x >= s
  <2>1. ways[x][t] = n /\ v = x
    BY <1>1, <1>4, <1>5, <1>11 DEF q
  <2>2. \A w \in KeysOf(W[n]) : ways[w][t] = n
    BY <1>1, <1>5, <1>9
  <2>3. ASSUME t > 0  PROVE ways[x][t-1] = W[n].dat[GetIndex(W[n], x)]
    <3>1. GetIndex(V[p], x) = g /\ ways[x][t-1] = V[p].dat[g]
      BY <1>6, <1>11, <2>1, <2>3 DEF g
    <3>2. GetIndex(W[n], x) = g - mid /\ g > mid /\ g \in 0..M
      BY <1>1, <1>3, <1>8, <1>9, <1>11, <2>3, <3>1
    <3>3. M \in Nat /\ g - mid \in 0..M-mid /\ mid + (g - mid) = g
      BY <1>10, <3>2, OrderAssumption
    <3> QED  BY <1>8, <1>10, <2>3, <3>1, <3>2, <3>3
  <2>4. Goes(W, high, ways, x, t)
    BY <1>1, <1>7, <2>1, <2>2, <2>3 DEF Goes
  <2> QED  BY <2>4 DEF high, ways, t
<1>12. CASE q = p /\ x < s
  <2>1. ways[x][t] = p
    BY <1>1, <1>5, <1>12 DEF q
  <2>2. \A w \in KeysOf(W[p]) : ways[w][t] = p
    <3> TAKE w \in KeysOf(W[p])
    <3>1. w \in Int /\ w < s /\ route[w][t] = p
      BY <1>1, <1>9
    <3>2. ~(w >= s)
      BY <1>1, <3>1
    <3> QED  BY <1>5, <3>1, <3>2
  <2>3. ASSUME t > 0  PROVE ways[x][t-1] = W[p].dat[GetIndex(W[p], x)]
    <3>1. GetIndex(V[p], x) = g /\ ways[x][t-1] = V[p].dat[GetIndex(V[p], v)]
      BY <1>6, <1>12, <2>3 DEF g
    <3>2. /\ GetIndex(W[p], x) = (IF g < mid THEN g ELSE mid - 1) /\ g <= mid /\ g \in Nat
      BY <1>3, <1>8, <1>9, <1>12, <2>3, <3>1
    <3>3. CASE v = x
      <4>1. g # mid /\ GetIndex(V[p], v) = g
        BY <1>4, <1>12, <3>1, <3>3
      <4> QED  BY <1>10, <3>1, <3>2, <4>1
    <3>4. CASE v # x
      <4>1. g = mid /\ GetIndex(V[p], v) = mid - 1
        BY <1>4, <3>4
      <4> QED  BY <1>10, <3>1, <3>2, <4>1
    <3> QED  BY <3>3, <3>4
  <2>4. Goes(W, high, ways, x, t)
    BY <1>1, <1>7, <1>12, <2>1, <2>2, <2>3 DEF Goes
  <2> QED  BY <2>4 DEF high, ways, t
<1>13. CASE q # p
  <2>1. ways[x][t] = q /\ v = x /\ q # P
    BY <1>1, <1>2, <1>4, <1>5, <1>13 DEF q
  <2>2. W[q].size = V[q].size /\ W[q].key = V[q].key /\ W[q].dat = V[q].dat
    BY <1>2, <1>13, <2>1, PartingPages DEF P
  <2>3. GetIndex(W[q], x) = GetIndex(V[q], x) /\ KeysOf(W[q]) = KeysOf(V[q])
    BY <2>2, SameGaps
  <2>4. \A w \in KeysOf(W[q]) : ways[w][t] = q
    BY <1>2, <1>3, <1>5, <1>13, <2>3
  <2>5. Goes(W, high, ways, x, t)
    BY <1>1, <1>2, <1>6, <1>7, <2>1, <2>2, <2>3, <2>4 DEF Goes
  <2> QED  BY <2>5 DEF high, ways, t
<1> QED  BY <1>1, <1>11, <1>12, <1>13

(* Below it. *)
LEMMA WaysBelow ==
  ASSUME NEW V, NEW W, NEW root, NEW rank, NEW route, NEW p, NEW n, NEW k,
         Parting(V, W, root, rank, route, p, n, k), NEW x \in Int,
         NEW r \in Nat, r < rank[p]
  PROVE  Goes(W, RankWith(rank, n, rank[p]), RouteWith(V, rank, route, p, n), x, r)
<1> DEFINE P    == V[p].parent
           high == RankWith(rank, n, rank[p])
           ways == RouteWith(V, rank, route, p, n)
           v    == Via(V, rank, route, p, x)
           q    == route[v][r]
<1>1. /\ rank[p] \in Nat /\ rank[root] \in Nat /\ rank[p] < rank[root] /\ rank[P] = rank[p] + 1
      /\ n \notin DOMAIN V /\ DOMAIN W = DOMAIN V \cup {n}
      /\ Tree(V, root, rank) /\ Routed(V, root, rank, route)
  <2>1. Tree(V, root, rank) /\ Routed(V, root, rank, route) /\ DOMAIN W = DOMAIN V \cup {n}
    BY DEF Parting, Split
  <2> QED  BY <2>1, PartingFacts
<1>2. v \in Int /\ (v # x => v < x)
  BY ViaFacts
<1>3. /\ q \in DOMAIN V /\ rank[q] = r
      /\ r > 0 => route[v][r-1] = V[q].dat[GetIndex(V[q], v)]
  <2>1. r \in 0..rank[root]
    BY <1>1
  <2> QED  BY <1>1, <1>2, <2>1 DEF Routed
<1>4. Proper(V[q]) /\ q \in Nat
  BY <1>1, <1>3 DEF Tree
<1>5. q # p /\ q # P /\ q # n
  BY <1>1, <1>3
<1>6. W[q].size = V[q].size /\ W[q].key = V[q].key /\ W[q].dat = V[q].dat
  BY <1>3, <1>5, PartingPages
<1>7. GetIndex(W[q], x) = GetIndex(V[q], x) /\ KeysOf(W[q]) = KeysOf(V[q])
  BY <1>6, SameGaps
<1>8. \A w \in KeysOf(V[q]) : /\ w \in Int /\ route[w][r] = q /\ Via(V, rank, route, p, w) = w
                              /\ v # x => w <= v
  BY ViaBelow
<1>9. \A y \in Int : ways[y][r] = route[Via(V, rank, route, p, y)][r]
  BY <1>1, NewWays
<1>10. r > 0 => ways[x][r-1] = route[v][r-1]
  <2> SUFFICES ASSUME r > 0  PROVE ways[x][r-1] = route[v][r-1]
    OBVIOUS
  <2>1. r - 1 \in Nat /\ r - 1 < rank[p]
    BY <1>1
  <2> QED  BY <1>1, <2>1, NewWays
<1>11. GetIndex(V[q], v) = GetIndex(V[q], x)
  <2>1. CASE v = x
    BY <2>1
  <2>2. CASE v # x
    <3>1. \A w \in KeysOf(V[q]) : w <= v /\ w <= x
      BY <1>2, <1>8, <2>2
    <3> HIDE DEF v, q
    <3>2. GetIndex(V[q], v) = V[q].size /\ GetIndex(V[q], x) = V[q].size
      BY <1>2, <1>4, <3>1, GapPast
    <3> QED  BY <3>2
  <2> QED  BY <2>1, <2>2
<1>12. high[q] = r
  BY <1>3, <1>4, <1>5 DEF RankWith
<1>13. ways[x][r] = q
  BY <1>9
<1> HIDE DEF high, ways, v, q
<1>14. \A w \in KeysOf(W[q]) : ways[w][r] = q
  BY <1>7, <1>8, <1>9
<1>15. Goes(W, high, ways, x, r)
  BY <1>1, <1>3, <1>6, <1>7, <1>10, <1>11, <1>12, <1>13, <1>14 DEF Goes
<1> QED  BY <1>15 DEF high, ways

(* The split leaves every key a way from the root to a leaf. *)
LEMMA SplitRoutes ==
  ASSUME NEW V, NEW W, NEW root, NEW rank, NEW route, NEW p, NEW n, NEW k,
         Parting(V, W, root, rank, route, p, n, k)
  PROVE  Routed(W, root, RankWith(rank, n, rank[p]), RouteWith(V, rank, route, p, n))
<1> DEFINE high == RankWith(rank, n, rank[p])
           ways == RouteWith(V, rank, route, p, n)
<1>1. /\ rank[p] \in Nat /\ rank[root] \in Nat /\ rank[p] < rank[root]
      /\ n \notin DOMAIN V /\ Tree(V, root, rank) /\ Routed(V, root, rank, route)
  <2>1. Tree(V, root, rank) /\ Routed(V, root, rank, route)
    BY DEF Parting
  <2> QED  BY <2>1, PartingFacts
<1>2. high[root] = rank[root]
  BY <1>1 DEF RankWith, Tree
<1>3. ASSUME NEW x \in Int  PROVE ways[x][rank[root]] = root
  <2>1. ~(rank[root] < rank[p]) /\ rank[root] # rank[p]
    BY <1>1
  <2> QED  BY <1>1, <2>1, NewWays DEF Routed
<1>4. ASSUME NEW x \in Int, NEW r \in 0..rank[root]  PROVE Goes(W, high, ways, x, r)
  <2>1. r < rank[p] \/ r = rank[p] \/ r = rank[p] + 1 \/ r > rank[p] + 1
    BY <1>1
  <2>2. r \in Nat
    BY <1>1
  <2> QED  BY <2>1, <2>2, WaysBelow, WaysAtSplit, WaysAtParent, WaysAbove
<1> HIDE DEF high, ways
<1>5. Routed(W, root, high, ways)
  BY <1>2, <1>3, <1>4 DEF Routed, Goes
<1> QED  BY <1>5 DEF high, ways

-----------------------------------------------------------------------------
(***************************************************************************)
(* A tree of size pages, none missing; and what its leaves hold: a key in  *)
(* one leaf only, and no entry of L in a slot that is marked.              *)
(***************************************************************************)
Whole(V, root, size, rank, route) ==
  /\ Tree(V, root, rank) /\ Routed(V, root, rank, route)
  /\ size \in Nat /\ DOMAIN V = 1..size
  /\ rank[root] < size
  /\ \A p \in DOMAIN V : rank[p] <= rank[root]

Apart(V) ==
  \A p, q \in DOMAIN V :
    V[p].isLeaf /\ V[q].isLeaf /\ KeysOf(V[p]) \cap KeysOf(V[q]) # {} => p = q

Clear(n, L) == \A i \in 0..n.size-1 : <<n.key[i], n.dat[i]>> \in L => ~n.del[i]

Stored(V, L) == Apart(V) /\ \A p \in DOMAIN V : V[p].isLeaf => Clear(V[p], L)

(* So the split leaves a whole file with one page more. *)
LEMMA SplitWhole ==
  ASSUME NEW V, NEW W, NEW root, NEW rank, NEW route, NEW p, NEW n \in Nat, NEW k,
         Parting(V, W, root, rank, route, p, n, k), Whole(V, root, n - 1, rank, route)
  PROVE  Whole(W, root, n, RankWith(rank, n, rank[p]), RouteWith(V, rank, route, p, n))
<1> DEFINE high == RankWith(rank, n, rank[p])
           ways == RouteWith(V, rank, route, p, n)
<1>1. Tree(W, root, high) /\ Routed(W, root, high, ways)
  BY SplitTree, SplitRoutes
<1>2. /\ DOMAIN W = DOMAIN V \cup {n} /\ DOMAIN V = 1..n-1 /\ root \in DOMAIN V
      /\ rank[root] < n - 1 /\ rank[root] \in Nat /\ \A q \in DOMAIN V : rank[q] <= rank[root]
      /\ p \in DOMAIN V /\ n \notin DOMAIN V
  BY PartingFacts DEF Parting, Split, Whole, Tree
<1>3. high[n] = rank[p] /\ \A q \in DOMAIN V : high[q] = rank[q]
  BY <1>2 DEF RankWith
<1>4. DOMAIN W = 1..n /\ high[root] < n /\ \A q \in DOMAIN W : high[q] <= high[root]
  BY <1>2, <1>3
<1> HIDE DEF high, ways
<1>5. Whole(W, root, n, high, ways)
  BY <1>1, <1>4 DEF Whole
<1> QED  BY <1>5 DEF high, ways

(* The split loses no entry and leaves no key in two leaves. *)
LEMMA SplitStored ==
  ASSUME NEW V, NEW W, NEW root, NEW rank, NEW route, NEW p, NEW n, NEW k,
         Parting(V, W, root, rank, route, p, n, k), NEW L, Stored(V, L)
  PROVE  Stored(W, L)
<1> DEFINE P   == V[p].parent
           mid == Mid(V[p])
           s   == Separator(V[p])
<1>1. /\ p \in DOMAIN V /\ P \in DOMAIN V /\ P # p /\ n \notin DOMAIN V /\ ~V[P].isLeaf
      /\ Proper(V[p]) /\ V[p].size = M /\ s \in Int
      /\ DOMAIN W = DOMAIN V \cup {n} /\ Halved(V[p], W[p], W[n], mid)
  <2>1. DOMAIN W = DOMAIN V \cup {n} /\ Halved(V[p], W[p], W[n], mid)
    BY DEF Parting, Split
  <2> QED  BY <2>1, PartingFacts
<1>2. /\ \A q \in DOMAIN V : W[q].isLeaf = V[q].isLeaf
      /\ W[n].isLeaf = V[p].isLeaf
      /\ \A q \in DOMAIN V \ {p, P} :
           W[q].size = V[q].size /\ W[q].key = V[q].key /\ W[q].dat = V[q].dat /\ W[q].del = V[q].del
  BY PartingPages
<1>3. /\ \A w \in KeysOf(W[p]) : w \in KeysOf(V[p]) /\ w < s /\ w \in Int
      /\ \A w \in KeysOf(W[n]) : w \in KeysOf(V[p]) /\ w >= s /\ w \in Int
  <2>1. /\ \A w \in KeysOf(W[p]) : w \in KeysOf(V[p]) /\ w < s
        /\ \A w \in KeysOf(W[n]) : w \in KeysOf(V[p]) /\ w >= s
    BY <1>1, HalvedGaps DEF Separator
  <2>2. KeysOf(V[p]) \subseteq Int
    BY <1>1, ProperFields
  <2> QED  BY <2>1, <2>2
<1>4. \A q \in DOMAIN V \ {p, P} : KeysOf(W[q]) = KeysOf(V[q])
  BY <1>2 DEF KeysOf
<1> DEFINE From(q) == IF q = n THEN p ELSE q
<1>5. ASSUME NEW q \in DOMAIN W, W[q].isLeaf
      PROVE  From(q) \in DOMAIN V /\ V[From(q)].isLeaf /\ KeysOf(W[q]) \subseteq KeysOf(V[From(q)])
  <2>1. CASE q = n
    BY <1>1, <1>2, <1>3, <1>5, <2>1
  <2>2. CASE q = p
    BY <1>1, <1>2, <1>3, <1>5, <2>2
  <2>3. CASE q # n /\ q # p
    BY <1>1, <1>2, <1>4, <1>5, <2>3
  <2> QED  BY <2>1, <2>2, <2>3
<1>6. Apart(W)
  <2> SUFFICES ASSUME NEW q \in DOMAIN W, NEW o \in DOMAIN W, W[q].isLeaf, W[o].isLeaf,
                      NEW w \in KeysOf(W[q]), w \in KeysOf(W[o])
               PROVE  q = o
    BY DEF Apart
  <2>1. From(q) = From(o)
    <3>1. w \in KeysOf(V[From(q)]) \cap KeysOf(V[From(o)])
      BY <1>5
    <3> HIDE DEF From
    <3> QED  BY <1>5, <3>1 DEF Stored, Apart
  <2>2. ~(q = n /\ o = p) /\ ~(q = p /\ o = n)
    BY <1>1, <1>3
  <2> QED  BY <2>1, <2>2
<1>7. ASSUME NEW q \in DOMAIN W, W[q].isLeaf, NEW i \in 0..W[q].size-1,
             <<W[q].key[i], W[q].dat[i]>> \in L
      PROVE  ~W[q].del[i]
  <2>1. CASE q # n /\ q # p
    <3>1. q \in DOMAIN V \ {p, P} /\ V[q].isLeaf
      BY <1>1, <1>2, <1>7, <2>1
    <3> QED  BY <1>2, <1>7, <3>1 DEF Stored, Clear
  <2>2. CASE q = p
    <3>1. V[p].isLeaf /\ W[p].size = mid /\ mid \in 2..M-1
      BY <1>1, <1>2, <1>7, <2>2 DEF Halved
    <3>2. i \in 0..V[p].size-1
      BY <1>1, <1>7, <2>2, <3>1, OrderAssumption
    <3>3. W[p].key = V[p].key /\ W[p].dat = V[p].dat /\ W[p].del = V[p].del
      BY <1>1 DEF Halved
    <3> QED  BY <1>1, <1>7, <2>2, <3>1, <3>2, <3>3 DEF Stored, Clear
  <2>3. CASE q = n
    <3>1. V[p].isLeaf /\ W[n].size = M - mid /\ mid \in 2..M-1
      BY <1>1, <1>2, <1>7, <2>3 DEF Halved
    <3>2. /\ i \in 0..M-mid-1 /\ i \in 0..M-mid /\ i < M - mid /\ mid + i \in 0..V[p].size-1
      BY <1>1, <1>7, <2>3, <3>1, OrderAssumption
    <3>3. W[n].key[i] = V[p].key[mid+i] /\ W[n].dat[i] = V[p].dat[mid+i] /\ W[n].del[i] = V[p].del[mid+i]
      BY <1>1, <3>2 DEF Halved
    <3> QED  BY <1>1, <1>7, <2>3, <3>1, <3>2, <3>3 DEF Stored, Clear
  <2> QED  BY <2>1, <2>2, <2>3
<1> QED  BY <1>6, <1>7 DEF Stored, Clear

-----------------------------------------------------------------------------
(***************************************************************************)
(* Changes of one page that leave the tree as it is.                       *)
(***************************************************************************)
LEMMA SameTree ==
  ASSUME NEW V, NEW W, NEW root, NEW rank, NEW route, NEW size, Whole(V, root, size, rank, route),
         DOMAIN W = DOMAIN V, NEW p \in DOMAIN V, V[p].isLeaf, W[p].isLeaf,
         Proper(W[p]), W[p].self = p, W[p].parent = V[p].parent,
         \A w \in KeysOf(W[p]) \ KeysOf(V[p]) : route[w][0] = p,
         \A q \in DOMAIN V \ {p} : W[q] = V[q]
  PROVE  Whole(W, root, size, rank, route)
<1>1. /\ Tree(V, root, rank) /\ Routed(V, root, rank, route)
      /\ \A q \in DOMAIN V : W[q].isLeaf = V[q].isLeaf /\ W[q].parent = V[q].parent
      /\ rank[p] = 0 /\ root \in DOMAIN V /\ rank[root] \in Nat
  <2>1. Tree(V, root, rank) /\ Routed(V, root, rank, route)
    BY DEF Whole
  <2>2. ASSUME NEW q \in DOMAIN V
        PROVE  W[q].isLeaf = V[q].isLeaf /\ W[q].parent = V[q].parent
    <3>1. V[q].isLeaf \in BOOLEAN /\ (q = p => V[q].isLeaf = W[q].isLeaf)
      BY <2>1, ProperFields DEF Tree
    <3> QED  BY <3>1
  <2> QED  BY <2>1, <2>2 DEF Tree
<1>2. ASSUME NEW q \in DOMAIN W
      PROVE  /\ Proper(W[q]) /\ W[q].self = q
             /\ rank[q] \in Nat /\ (W[q].isLeaf <=> rank[q] = 0)
             /\ Pointed(W, root, rank, q)
             /\ q # root => Hung(W, q)
  <2>1. Proper(W[q]) /\ W[q].self = q /\ rank[q] \in Nat /\ (W[q].isLeaf <=> rank[q] = 0)
    BY <1>1 DEF Tree
  <2>2. Pointed(W, root, rank, q)
    <3>1. CASE W[q].isLeaf
      BY <3>1 DEF Pointed
    <3>2. CASE ~W[q].isLeaf
      <4>1. W[q] = V[q] /\ Pointed(V, root, rank, q)
        BY <1>1, <3>2 DEF Tree
      <4> QED  BY <1>1, <4>1 DEF Pointed
    <3> QED  BY <3>1, <3>2
  <2>3. q # root => Hung(W, q)
    <3> SUFFICES ASSUME q # root  PROVE Hung(W, q)
      OBVIOUS
    <3> DEFINE Q == V[q].parent
    <3>1. Hung(V, q)
      BY <1>1 DEF Tree
    <3>2. Q \in DOMAIN V /\ ~V[Q].isLeaf /\ \E i \in 0..V[Q].size : V[Q].dat[i] = q
      BY <3>1 DEF Hung
    <3>3. W[Q] = V[Q] /\ W[q].parent = Q
      BY <1>1, <3>2
    <3> HIDE DEF Q
    <3> QED  BY <3>2, <3>3 DEF Hung
  <2> QED  BY <2>1, <2>2, <2>3
<1>3. Tree(W, root, rank)
  BY <1>1, <1>2 DEF Tree
<1>4. ASSUME NEW x \in Int, NEW r \in 0..rank[root]  PROVE Goes(W, rank, route, x, r)
  <2> DEFINE q == route[x][r]
  <2>1. Goes(V, rank, route, x, r)
    BY <1>1 DEF Routed, Goes
  <2>2. CASE q = p
    <3>1. r = 0
      BY <1>1, <2>1, <2>2 DEF Goes
    <3> QED  BY <2>1, <2>2, <3>1 DEF Goes
  <2>3. CASE q # p
    <3>1. W[q] = V[q]
      BY <2>1, <2>3 DEF Goes
    <3> QED  BY <2>1, <3>1 DEF Goes
  <2> QED  BY <2>2, <2>3
<1>5. Routed(W, root, rank, route)
  BY <1>1, <1>4 DEF Routed, Goes
<1> QED  BY <1>3, <1>5 DEF Whole

(* A page stands at the end of a way: the leaves of rank 0 do. *)
LEMMA OneLeaf ==
  ASSUME NEW n, Proper(n), n.isLeaf, n.parent = NODE_EOF, n.self = 1,
         NEW V, DOMAIN V = {1}, V[1] = n
  PROVE  Whole(V, 1, 1, [q \in Nat |-> 0], [x \in Int |-> [r \in Nat |-> 1]])
<1> DEFINE rank  == [q \in Nat |-> 0]
           route == [x \in Int |-> [r \in Nat |-> 1]]
<1>1. rank[1] = 0 /\ \A x \in Int : route[x][0] = 1
  OBVIOUS
<1>2. KeysOf(n) \subseteq Int
  BY ProperFields
<1> HIDE DEF rank, route
<1>3. Tree(V, 1, rank)
  BY <1>1 DEF Tree, Pointed
<1>4. \A x \in Int : \A r \in 0..rank[1] : r = 0
  BY <1>1
<1>5. Routed(V, 1, rank, route)
  BY <1>1, <1>2, <1>4 DEF Routed
<1>6. DOMAIN V = 1..1 /\ rank[1] < 1 /\ \A p \in DOMAIN V : rank[p] <= rank[1]
  BY <1>1
<1>7. Whole(V, 1, 1, rank, route)
  BY <1>3, <1>5, <1>6 DEF Whole
<1> QED  BY <1>7 DEF rank, route

-----------------------------------------------------------------------------
(***************************************************************************)
(* The root is split.  NewRoot puts both halves under a new page at once;  *)
(* here that page is put over the root first, with one slot and no key,    *)
(* and then the old root is split like any other page.                     *)
(***************************************************************************)
Stem(self, p) == [RootOver(self, 0, p, p) EXCEPT !.size = 0]

IsStem(m, self, p) ==
  /\ Proper(m) /\ m.self = self /\ m.parent = NODE_EOF /\ m.isLeaf = FALSE
  /\ m.size = 0 /\ m.dat[0] = p /\ KeysOf(m) = {} /\ \A x \in Int : GetIndex(m, x) = 0

(* The stem is a proper node without keys. *)
LEMMA StemSpelled ==
  ASSUME NEW self \in Nat, NEW p \in Int, NEW m, m = Stem(self, p)
  PROVE  IsStem(m, self, p)
<1> DEFINE r == RootOver(self, 0, p, p)
<1>1. /\ r \in BptreeNode /\ r.self = self /\ r.parent = NODE_EOF /\ r.isLeaf = FALSE
  <2>1. PICK z \in Int : r = RootOver(self, z, p, p)
    OBVIOUS
  <2> HIDE DEF r
  <2>2. Good(r, {})
    BY <2>1, RootOverNode
  <2>3. r.self = self /\ r.parent = NODE_EOF /\ r.isLeaf = FALSE
    BY DEF r, RootOver, NewBptreeNode
  <2> QED  BY <2>2, <2>3 DEF Good
<1>2. r.dat[0] = p
  <2>1. M \in Nat /\ M >= 3
    BY OrderAssumption
  <2>2. r.dat = [[[i \in 0..M |-> NODE_EOF] EXCEPT ![0] = p] EXCEPT ![1] = p]
    BY DEF RootOver, NewBptreeNode
  <2> QED  BY <2>1, <2>2
<1>3. m = [r EXCEPT !.size = 0]
  BY DEF Stem
<1> HIDE DEF r
<1>4. /\ m \in BptreeNode /\ m.self = self /\ m.parent = NODE_EOF /\ m.isLeaf = FALSE
      /\ m.size = 0 /\ m.dat[0] = p
  <2>1. 0 \in 0..M
    BY OrderAssumption
  <2> QED  BY <1>1, <1>2, <1>3, <2>1 DEF BptreeNode
<1>5. Proper(m) /\ KeysOf(m) = {}
  BY <1>4 DEF Proper, Initialised, Strict, KeysOf
<1>6. \A x \in Int : GetIndex(m, x) = 0
  BY <1>4, <1>5, GapIs
<1> QED  BY <1>4, <1>5, <1>6 DEF IsStem

(* The new root of the code is that stem with one slot more. *)
LEMMA StemWidened ==
  ASSUME NEW self \in Nat, NEW s \in Int, NEW p \in Int, NEW n \in Int
  PROVE  Widened(Stem(self, p), RootOver(self, s, p, n), s, p, n)
<1> DEFINE m == Stem(self, p)
           G == RootOver(self, s, p, n)
<1>1. /\ m.self = self /\ m.parent = NODE_EOF /\ m.isLeaf = FALSE
      /\ m.size = 0 /\ GetIndex(m, s) = 0
  <2>1. m = Stem(self, p)
    OBVIOUS
  <2> HIDE DEF m
  <2>2. IsStem(m, self, p)
    BY <2>1, StemSpelled
  <2> QED  BY <2>2 DEF IsStem
<1>2. /\ G \in BptreeNode /\ Initialised(G) /\ G.self = self /\ G.parent = NODE_EOF
      /\ G.isLeaf = FALSE
  <2>1. Good(G, {}) /\ G.self = self /\ G.parent = NODE_EOF /\ G.isLeaf = FALSE
    BY RootOverNode
  <2> HIDE DEF G
  <2> QED  BY <2>1 DEF Good
<1>3. G.size = 1 /\ G.key[0] = s /\ G.dat[0] = p /\ G.dat[1] = n
  <2>1. M \in Nat /\ M >= 3
    BY OrderAssumption
  <2>2. /\ G.dat = [[[i \in 0..M |-> NODE_EOF] EXCEPT ![0] = p] EXCEPT ![1] = n]
        /\ G.key = [[i \in 0..M-1 |-> Uninit] EXCEPT ![0] = s]
        /\ G.size = 1
    BY DEF RootOver, NewBptreeNode
  <2> QED  BY <2>1, <2>2
<1> HIDE DEF m, G
<1>4. Widened(m, G, s, p, n)
  <2>1. 0 + 1 = 1 /\ (\A j \in 0..0-1 : FALSE) /\ (\A j \in 0+1..0 : FALSE)
    OBVIOUS
  <2> QED  BY <1>1, <1>2, <1>3, <2>1 DEF Widened
<1> QED  BY <1>4 DEF m, G

Overgrown(V, W, root, self) ==
  /\ self \in (Nat \ {0}) \ DOMAIN V /\ DOMAIN W = DOMAIN V \cup {self}
  /\ W[self] = Stem(self, root)
  /\ W[root] = [V[root] EXCEPT !.parent = self]
  /\ \A q \in DOMAIN V \ {root} : W[q] = V[q]

RouteOver(route, r, self) ==
  [x \in Int |-> [h \in Nat |-> IF h = r THEN self ELSE route[x][h]]]

(* A stem over the root makes a tree one page higher. *)
LEMMA AddRoot ==
  ASSUME NEW V, NEW W, NEW root, NEW rank, NEW route, Tree(V, root, rank),
         Routed(V, root, rank, route), NEW self, Overgrown(V, W, root, self),
         NEW r, r = rank[root] + 1
  PROVE  /\ Tree(W, self, RankWith(rank, self, r))
         /\ Routed(W, self, RankWith(rank, self, r), RouteOver(route, r, self))
<1> DEFINE high == RankWith(rank, self, r)
           ways == RouteOver(route, r, self)
<1>1. /\ self \in Nat /\ self # 0 /\ self \notin DOMAIN V /\ DOMAIN W = DOMAIN V \cup {self}
      /\ root \in DOMAIN V /\ root \in Nat /\ rank[root] \in Nat
      /\ DOMAIN V \subseteq Nat \ {0}
      /\ V[root] \in BptreeNode /\ V[root].parent = NODE_EOF
      /\ \A q \in DOMAIN V : rank[q] \in Nat /\ V[q].self = q /\ Proper(V[q])
                             /\ (V[q].isLeaf <=> rank[q] = 0) /\ Pointed(V, root, rank, q)
                             /\ (q # root => Hung(V, q))
  BY DEF Overgrown, Tree, Proper
<1>2. /\ Proper(W[self]) /\ W[self].self = self /\ W[self].parent = NODE_EOF
      /\ W[self].isLeaf = FALSE /\ W[self].size = 0 /\ W[self].dat[0] = root
      /\ KeysOf(W[self]) = {} /\ \A x \in Int : GetIndex(W[self], x) = 0
  <2> DEFINE m == W[self]
  <2>1. m = Stem(self, root) /\ self \in Nat /\ root \in Int
    BY <1>1 DEF Overgrown
  <2> HIDE DEF m
  <2>2. IsStem(m, self, root)
    BY <2>1, StemSpelled
  <2> QED  BY <2>2 DEF m, IsStem
<1>3. /\ W[root].parent = self /\ W[root] \in BptreeNode
      /\ W[root].self = root /\ W[root].isLeaf = V[root].isLeaf
      /\ W[root].size = V[root].size /\ W[root].key = V[root].key /\ W[root].dat = V[root].dat
  BY <1>1 DEF Overgrown, BptreeNode
<1>4. \A q \in DOMAIN V : /\ W[q].isLeaf = V[q].isLeaf /\ W[q].self = V[q].self
                          /\ W[q].size = V[q].size /\ W[q].key = V[q].key /\ W[q].dat = V[q].dat
                          /\ (q # root => W[q] = V[q])
  <2> TAKE q \in DOMAIN V
  <2>1. CASE q = root
    BY <1>1, <1>3, <2>1
  <2>2. CASE q # root
    <3>1. W[q] = V[q]
      BY <2>2 DEF Overgrown
    <3> QED  BY <2>2, <3>1
  <2> QED  BY <2>1, <2>2
<1>5. \A q \in DOMAIN V : Proper(W[q])
  <2> TAKE q \in DOMAIN V
  <2>1. CASE q = root
    BY <1>1, <1>3, <2>1 DEF Proper, Initialised, Strict
  <2>2. CASE q # root
    BY <1>1, <1>4, <2>2
  <2> QED  BY <2>1, <2>2
<1>6. high[self] = r /\ r \in Nat /\ r # 0 /\ \A q \in DOMAIN V : high[q] = rank[q]
  BY <1>1 DEF RankWith
<1>7. \A x \in Int : /\ ways[x][r] = self
                     /\ \A h \in Nat : h # r => ways[x][h] = route[x][h]
  BY <1>6 DEF RouteOver
<1> HIDE DEF high, ways
<1>8. ASSUME NEW q \in DOMAIN V  PROVE Pointed(W, self, high, q) /\ Hung(W, q)
  <2>1. Pointed(W, self, high, q)
    <3> SUFFICES ASSUME ~V[q].isLeaf, NEW i \in 0..V[q].size
                 PROVE  /\ V[q].dat[i] \in DOMAIN W \ {self}
                        /\ W[V[q].dat[i]].parent = q
                        /\ high[q] = high[V[q].dat[i]] + 1
                        /\ \A j \in 0..V[q].size : V[q].dat[j] = V[q].dat[i] => j = i
      BY <1>4 DEF Pointed
    <3> DEFINE c == V[q].dat[i]
    <3>1. /\ c \in DOMAIN V \ {root} /\ V[c].parent = q /\ rank[q] = rank[c] + 1
          /\ \A j \in 0..V[q].size : V[q].dat[j] = c => j = i
      BY <1>1 DEF Pointed
    <3> HIDE DEF c
    <3>2. W[c] = V[c] /\ c # self /\ high[q] = high[c] + 1
      BY <1>1, <1>4, <1>6, <3>1
    <3> QED  BY <1>1, <3>1, <3>2 DEF c
  <2>2. CASE q = root
    <3>1. 0 \in 0..W[self].size
      BY <1>2
    <3>2. W[q].parent = self /\ self \in DOMAIN W /\ W[self].dat[0] = q /\ ~W[self].isLeaf
      BY <1>1, <1>2, <1>3, <2>2
    <3>3. Hung(W, q)
      BY <3>1, <3>2 DEF Hung
    <3> QED  BY <2>1, <3>3
  <2>3. CASE q # root
    <3> DEFINE Q == V[q].parent
    <3>1. Q \in DOMAIN V /\ ~V[Q].isLeaf /\ \E i \in 0..V[Q].size : V[Q].dat[i] = q
      BY <1>1, <2>3 DEF Hung
    <3>2. W[q].parent = Q
      BY <1>4, <2>3
    <3> HIDE DEF Q
    <3>3. /\ Q \in DOMAIN W /\ ~W[Q].isLeaf
          /\ \E i \in 0..W[Q].size : W[Q].dat[i] = q
      BY <1>1, <1>4, <3>1
    <3>4. Hung(W, q)
      BY <3>2, <3>3 DEF Hung
    <3> QED  BY <2>1, <3>4
  <2> QED  BY <2>1, <2>2, <2>3
<1>9. Pointed(W, self, high, self)
  <2>1. root \in DOMAIN W \ {self} /\ high[self] = high[root] + 1
    BY <1>1, <1>6
  <2>2. \A i \in 0..0 : i = 0
    OBVIOUS
  <2> QED  BY <1>2, <1>3, <2>1, <2>2 DEF Pointed
<1>10. Tree(W, self, high)
  <2>1. ASSUME NEW q \in DOMAIN W
        PROVE  /\ Proper(W[q]) /\ W[q].self = q
               /\ high[q] \in Nat /\ (W[q].isLeaf <=> high[q] = 0)
               /\ Pointed(W, self, high, q)
               /\ q # self => Hung(W, q)
    <3>1. CASE q = self
      BY <1>1, <1>2, <1>6, <1>9, <3>1
    <3>2. CASE q # self
      <4>1. q \in DOMAIN V
        BY <1>1, <3>2
      <4> QED  BY <1>1, <1>4, <1>5, <1>6, <1>8, <3>2, <4>1
    <3> QED  BY <3>1, <3>2
  <2> QED  BY <1>1, <1>2, <2>1 DEF Tree
<1>11. ASSUME NEW x \in Int, NEW h \in 0..r  PROVE Goes(W, high, ways, x, h)
  <2>1. CASE h = r
    <3>1. r - 1 = rank[root] /\ r - 1 \in Nat /\ r - 1 # r
      BY <1>1
    <3>2. ways[x][r-1] = root
      BY <1>7, <3>1 DEF Routed
    <3> QED  BY <1>1, <1>2, <1>6, <1>7, <2>1, <3>2 DEF Goes
  <2>2. CASE h # r
    <3> DEFINE q == route[x][h]
    <3>1. h \in 0..rank[root] /\ h \in Nat /\ h - 1 # r
      BY <1>1, <2>2
    <3>2. /\ q \in DOMAIN V /\ rank[q] = h /\ \A w \in KeysOf(V[q]) : route[w][h] = q
          /\ h > 0 => route[x][h-1] = V[q].dat[GetIndex(V[q], x)]
      BY <3>1 DEF Routed
    <3>3. ways[x][h] = q
      BY <1>7, <2>2, <3>1
    <3>4. h > 0 => ways[x][h-1] = route[x][h-1]
      BY <1>7, <3>1
    <3> HIDE DEF q
    <3>5. GetIndex(W[q], x) = GetIndex(V[q], x) /\ KeysOf(W[q]) = KeysOf(V[q])
      BY <1>4, <3>2, SameGaps
    <3>6. KeysOf(V[q]) \subseteq Int
      BY <1>1, <3>2, ProperFields
    <3>7. \A w \in KeysOf(W[q]) : ways[w][h] = q
      BY <1>7, <2>2, <3>1, <3>2, <3>5, <3>6
    <3> QED  BY <1>1, <1>4, <1>6, <3>2, <3>3, <3>4, <3>5, <3>7 DEF Goes
  <2> QED  BY <2>1, <2>2
<1>12. Routed(W, self, high, ways)
  BY <1>6, <1>7, <1>11 DEF Routed, Goes
<1> QED  BY <1>10, <1>12 DEF high, ways
=============================================================================
