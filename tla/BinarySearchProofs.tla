------------------------- MODULE BinarySearchProofs -------------------------
(***************************************************************************)
(* The loop of GetIndex returns the first index with a greater key, for    *)
(* every order M, every sorted node and every key.                         *)
(***************************************************************************)
EXTENDS BinarySearch, TLAPS

(* What is known of the arguments: they never change. *)
Arguments ==
  /\ node \in BptreeNode
  /\ Sorted(node)
  /\ Initialised(node)
  /\ key \in Int

Bounds == l \in Nat /\ r \in Nat /\ done \in BOOLEAN

IInv == Arguments /\ Bounds /\ Narrowing /\ (done => l = r)

(* The middle of a range that is not empty lies in it. *)
LEMMA MiddleInside ==
  ASSUME NEW a \in Nat, NEW b \in Nat, a < b
  PROVE  /\ a + (b - a) \div 2 \in Nat
         /\ a <= a + (b - a) \div 2
         /\ a + (b - a) \div 2 < b
  BY Z3

(* The loop keeps the slots below l and from r on classified. *)
THEOREM Invariant == Spec => []IInv
<1>1. Init => IInv
  <2> SUFFICES ASSUME Init PROVE IInv
    OBVIOUS
  <2>1. Arguments
    BY DEF Init, Arguments, Nodes
  <2>2. node.size \in Nat
    BY <2>1, OrderAssumption DEF Arguments, BptreeNode
  <2>3. l = 0 /\ r = node.size /\ done = FALSE
    BY DEF Init
  <2>4. Bounds
    BY <2>2, <2>3 DEF Bounds
  <2>5. Narrowing
    BY <2>2, <2>3 DEF Narrowing
  <2> QED
    BY <2>1, <2>3, <2>4, <2>5 DEF IInv
<1>2. IInv /\ [Next]_vars => IInv'
  <2> SUFFICES ASSUME IInv, [Next]_vars PROVE IInv'
    OBVIOUS
  <2>0. /\ node.size \in 0..M
        /\ M \in Nat
        /\ \A i \in 0..node.size-1 : node.key[i] \in Int
        /\ key \in Int
    BY OrderAssumption DEF IInv, Arguments, BptreeNode, Initialised
  <2>1. CASE Loop
    <3> DEFINE m == Middle
    <3>1. m \in Nat /\ l <= m /\ m < r
      BY <2>1, MiddleInside DEF Loop, IInv, Bounds, Middle
    <3>2. Arguments'
      BY <2>1 DEF Loop, IInv, Arguments, Sorted, Initialised
    <3>3. CASE node.key[m] <= key
      <4>1. \A i \in 0..m : node.key[i] <= key
        <5> SUFFICES ASSUME NEW i \in 0..m PROVE node.key[i] <= key
          OBVIOUS
        <5>1. i \in 0..node.size-1 /\ m \in 0..node.size-1
          BY <3>1, <2>0 DEF IInv, Narrowing, Bounds
        <5>2. node.key[i] <= node.key[m]
          BY <5>1, <3>1, <2>0 DEF IInv, Arguments, Sorted
        <5>3. node.key[i] \in Int /\ node.key[m] \in Int
          BY <5>1, <2>0
        <5> QED
          BY <5>2, <5>3, <3>3, <2>0
      <4>2. l' = m + 1 /\ r' = r /\ node' = node /\ key' = key /\ done' = done
        BY <2>1, <3>3 DEF Loop
      <4> QED
        BY <3>1, <3>2, <4>1, <4>2, <2>1, <2>0 DEF IInv, Bounds, Narrowing, Loop
    <3>4. CASE ~(node.key[m] <= key)
      <4>1. \A i \in m..node.size-1 : node.key[i] > key
        <5> SUFFICES ASSUME NEW i \in m..node.size-1 PROVE node.key[i] > key
          OBVIOUS
        <5>1. i \in 0..node.size-1 /\ m \in 0..node.size-1
          BY <3>1, <2>0 DEF IInv, Narrowing, Bounds
        <5>2. node.key[m] <= node.key[i]
          BY <5>1, <3>1, <2>0 DEF IInv, Arguments, Sorted
        <5>3. node.key[i] \in Int /\ node.key[m] \in Int
          BY <5>1, <2>0
        <5> QED
          BY <5>2, <5>3, <3>4, <2>0
      <4>2. r' = m /\ l' = l /\ node' = node /\ key' = key /\ done' = done
        BY <2>1, <3>4 DEF Loop
      <4> QED
        BY <3>1, <3>2, <4>1, <4>2, <2>1, <2>0 DEF IInv, Bounds, Narrowing, Loop
    <3> QED
      BY <3>3, <3>4
  <2>2. CASE Leave
    BY <2>2 DEF Leave, IInv, Arguments, Bounds, Narrowing, Sorted, Initialised
  <2>3. CASE UNCHANGED vars
    BY <2>3 DEF vars, IInv, Arguments, Bounds, Narrowing, Sorted, Initialised
  <2> QED
    BY <2>1, <2>2, <2>3 DEF Next
<1> QED
  BY <1>1, <1>2, PTL DEF Spec

(* No iteration reads a slot at or past size. *)
THEOREM ReadsStayInside == Spec => []ReadsInside
<1>1. IInv => ReadsInside
  <2> SUFFICES ASSUME IInv, ~done, l < r PROVE Middle \in 0..node.size-1
    BY DEF ReadsInside
  <2>1. node.size \in Nat
    BY OrderAssumption DEF IInv, Arguments, BptreeNode
  <2> QED
    BY <2>1, MiddleInside DEF IInv, Bounds, Narrowing, Middle
<1> QED
  BY <1>1, Invariant, PTL

(* GetIndex does what its comment says on every sorted node. *)
THEOREM LoopCorrect == Spec => []Correct
<1>1. IInv => Correct
  <2> SUFFICES ASSUME IInv, done PROVE IsGetIndex(l, node, key)
    BY DEF Correct
  <2>1. node.size \in Nat
    BY OrderAssumption DEF IInv, Arguments, BptreeNode
  <2> QED
    BY <2>1 DEF IInv, Bounds, Narrowing, IsGetIndex
<1> QED
  BY <1>1, Invariant, PTL

=============================================================================
