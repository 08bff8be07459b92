-------------------------- MODULE ConditionsProofs ---------------------------
(***************************************************************************)
(* The filter of a WHERE clause of any length, and the loops that gather   *)
(* what passes a test.                                                     *)
(*                                                                         *)
(* Both are recursive functions.  Induction over the natural numbers is    *)
(* used for a set instead of an operator: a proof names the numbers a fact *)
(* holds of, and cites a theorem about all sets.                           *)
(***************************************************************************)
EXTENDS Conditions, SequenceTheorems, WellFoundedInduction, TLAPS

(* A set of natural numbers that is not empty has a least element. *)
THEOREM LeastElement ==
  ASSUME NEW T \in SUBSET Nat, T # {}
  PROVE  \E n \in T : \A m \in T : n <= m
<1> DEFINE R == OpToRel(<, Nat)
<1>1. IsWellFoundedOn(R, Nat)
  BY NatLessThanWellFounded
<1>2. \A m, n \in Nat : <<m, n>> \in R <=> m < n
  BY DEF OpToRel
<1> HIDE DEF R
<1>3. PICK n \in T : \A m \in T : ~(<<m, n>> \in R)
  BY <1>1, WFMin
<1>4. ASSUME NEW m \in T  PROVE n <= m
  <2>1. m \in Nat /\ n \in Nat
    OBVIOUS
  <2>2. ~(m < n)
    BY <1>2, <1>3, <2>1
  <2> QED  BY <2>1, <2>2
<1> QED  BY <1>4

(* What holds of 0, and of n + 1 when it holds of n, holds of all. *)
THEOREM SetInduction ==
  ASSUME NEW T \in SUBSET Nat, 0 \in T, \A n \in T : n + 1 \in T
  PROVE  T = Nat
<1> SUFFICES ASSUME Nat \ T # {}  PROVE FALSE
  OBVIOUS
<1>1. PICK n \in Nat \ T : \A m \in Nat \ T : n <= m
  BY LeastElement
<1>2. n # 0 /\ n - 1 \in Nat
  OBVIOUS
<1>3. n - 1 \in T
  BY <1>1, <1>2
<1>4. (n - 1) + 1 = n
  BY <1>2
<1> QED  BY <1>3, <1>4

(* What a loop has after each of its rounds, from what it starts with. *)
Steps(N, V) == [(1..N) \X V -> V]

Rounds(f, N, base, step) ==
  f[0] = base /\ \A n \in 1..N : f[n] = step[<<n, f[n - 1]>>]

(* Every loop has run. *)
LEMMA Recursion ==
  ASSUME NEW N \in Nat, NEW V, NEW base \in V, NEW step \in Steps(N, V)
  PROVE  \E f \in [0..N -> V] : Rounds(f, N, base, step)
<1> USE DEF Steps
<1> DEFINE Upto(m, f) == f[0] = base /\ \A n \in 1..m : f[n] = step[<<n, f[n - 1]>>]
           T == {m \in Nat : m <= N => \E f \in [0..m -> V] : Upto(m, f)}
<1>1. 0 \in T
  <2> DEFINE f == [n \in 0..0 |-> base]
  <2>1. f \in [0..0 -> V] /\ f[0] = base /\ \A n \in 1..0 : FALSE
    OBVIOUS
  <2>2. Upto(0, f)
    BY <2>1
  <2> HIDE DEF Upto, f
  <2> QED  BY <2>1, <2>2
<1>2. ASSUME NEW m \in T  PROVE m + 1 \in T
  <2> SUFFICES ASSUME m + 1 <= N
               PROVE  \E f \in [0..(m + 1) -> V] : Upto(m + 1, f)
    OBVIOUS
  <2>1. m \in Nat /\ m <= N /\ m + 1 \in 1..N
    OBVIOUS
  <2>2. PICK f \in [0..m -> V] : Upto(m, f)
    BY <2>1
  <2> DEFINE next == step[<<m + 1, f[m]>>]
             g == [n \in 0..(m + 1) |-> IF n = m + 1 THEN next ELSE f[n]]
  <2>3. next \in V
    BY <2>1, <2>2
  <2>4. g \in [0..(m + 1) -> V]
    <3> HIDE DEF next
    <3> QED  BY <2>1, <2>2, <2>3
  <2>5. \A n \in 0..m : g[n] = f[n]
    BY <2>1
  <2>6. g[m + 1] = next
    BY <2>1
  <2> HIDE DEF g
  <2>7. g[0] = base
    BY <2>1, <2>2, <2>5
  <2>8. ASSUME NEW n \in 1..(m + 1)  PROVE g[n] = step[<<n, g[n - 1]>>]
    <3>1. n - 1 \in 0..m /\ g[n - 1] = f[n - 1]
      BY <2>1, <2>5
    <3>2. CASE n = m + 1
      BY <2>1, <2>6, <3>1, <3>2
    <3>3. CASE n # m + 1
      <4>1. n \in 1..m /\ n \in 0..m
        BY <2>1, <3>3
      <4> QED  BY <2>2, <2>5, <3>1, <4>1
    <3> QED  BY <3>2, <3>3
  <2> QED  BY <2>4, <2>7, <2>8
<1>3. T = Nat
  <2> HIDE DEF T
  <2>1. T \in SUBSET Nat
    BY DEF T
  <2> QED  BY <1>1, <1>2, <2>1, SetInduction
<1>4. \E f \in [0..N -> V] : Upto(N, f)
  <2> HIDE DEF Upto
  <2> QED  BY <1>3
<1> QED  BY <1>4 DEF Rounds

(* What holds before a loop and is kept by each round holds behind it. *)
LEMMA LoopInvariant ==
  ASSUME NEW N \in Nat, NEW V, NEW f, f[0] \in V,
         \A n \in 1..N : f[n - 1] \in V => f[n] \in V
  PROVE  f[N] \in V
<1> DEFINE T == {n \in Nat : n <= N => f[n] \in V}
<1>1. 0 \in T
  OBVIOUS
<1>2. ASSUME NEW n \in T  PROVE n + 1 \in T
  <2>1. n \in Nat /\ (n + 1) - 1 = n
    OBVIOUS
  <2>2. n + 1 <= N => n + 1 \in 1..N /\ n <= N
    BY <2>1
  <2> QED  BY <2>1, <2>2
<1>3. T = Nat
  <2>1. T \in SUBSET Nat
    OBVIOUS
  <2> HIDE DEF T
  <2> QED  BY <1>1, <1>2, <2>1, SetInduction
<1> QED  BY <1>3

-----------------------------------------------------------------------------
(* The recursive function of Among is what its equation says. *)
LEMMA AmongEquation ==
  ASSUME NEW S, NEW seq \in Seq(S), NEW set
  PROVE  \E found : /\ Among(seq, set) = found[Len(seq)]
                    /\ found[0] = <<>>
                    /\ \A n \in 1..Len(seq) :
                         found[n] = IF seq[n] \in set THEN Append(found[n - 1], seq[n])
                                                      ELSE found[n - 1]
<1> DEFINE N == Len(seq)
           V == Seq(S)
           Next(n, x) == IF seq[n] \in set THEN Append(x, seq[n]) ELSE x
           Sol(g) == g = [n \in 0..N |-> IF n = 0 THEN <<>> ELSE Next(n, g[n - 1])]
           step == [a \in (1..N) \X V |-> Next(a[1], a[2])]
<1>1. N \in Nat /\ <<>> \in V /\ \A n \in 1..N : seq[n] \in S
  OBVIOUS
<1>2. \A n \in 1..N, x \in V : Next(n, x) \in V
  BY <1>1
<1> HIDE DEF Next, N, V
<1>3. \A n \in 1..N, x \in V : step[<<n, x>>] = Next(n, x)
  OBVIOUS
<1>4. step \in Steps(N, V)
  BY <1>2 DEF Steps
<1> HIDE DEF step
<1>5. PICK f \in [0..N -> V] : Rounds(f, N, <<>>, step)
  BY <1>1, <1>4, Recursion
<1>6. f[0] = <<>> /\ \A n \in 1..N : f[n] = Next(n, f[n - 1])
  <2>1. \A n \in 1..N : n - 1 \in 0..N /\ f[n - 1] \in V
    BY <1>1
  <2>2. f[0] = <<>> /\ \A n \in 1..N : f[n] = step[<<n, f[n - 1]>>]
    BY <1>5 DEF Rounds
  <2> QED  BY <1>3, <2>1, <2>2
<1>7. Sol(f)
  BY <1>1, <1>6
<1> DEFINE found == CHOOSE g : Sol(g)
<1>8. Sol(found)
  <2> HIDE DEF Sol
  <2> QED  BY <1>7
<1>9. Among(seq, set) = found[N]
  BY DEF Among, N, Next
<1> HIDE DEF found
<1>10. found[0] = <<>> /\ \A n \in 1..N : found[n] = Next(n, found[n - 1])
  BY <1>1, <1>8
<1> QED  BY <1>9, <1>10 DEF N, Next

(* Among gathers elements of the sequence that are in the set, and all. *)
LEMMA AmongProperties ==
  ASSUME NEW S, NEW seq \in Seq(S), NEW set
  PROVE  /\ Among(seq, set) \in Seq(S \cap set)
         /\ Len(Among(seq, set)) <= Len(seq)
         /\ \A k \in 1..Len(seq) :
              seq[k] \in set => \E i \in 1..Len(Among(seq, set)) : Among(seq, set)[i] = seq[k]
<1>1. Len(seq) \in Nat /\ \A n \in 1..Len(seq) : seq[n] \in S
  OBVIOUS
<1>2. PICK found :
        /\ Among(seq, set) = found[Len(seq)]
        /\ found[0] = <<>>
        /\ \A n \in 1..Len(seq) :
             found[n] = IF seq[n] \in set THEN Append(found[n - 1], seq[n]) ELSE found[n - 1]
  BY <1>1, AmongEquation
<1> DEFINE Good(n) == /\ found[n] \in Seq(S \cap set)
                      /\ Len(found[n]) <= n
                      /\ \A k \in 1..n :
                           seq[k] \in set => \E i \in 1..Len(found[n]) : found[n][i] = seq[k]
           T == {n \in Nat : n <= Len(seq) => Good(n)}
<1>3. 0 \in T
  <2>1. found[0] = <<>> /\ Len(found[0]) = 0 /\ found[0] \in Seq(S \cap set)
    BY <1>2
  <2>2. Len(found[0]) <= 0
    BY <2>1
  <2>3. \A k \in 1..0 : FALSE
    OBVIOUS
  <2>4. Good(0)
    <3> HIDE DEF T
    <3> QED  BY <2>1, <2>2, <2>3
  <2> HIDE DEF Good
  <2> QED  BY <2>4
<1>4. ASSUME NEW n \in T  PROVE n + 1 \in T
  <2> SUFFICES ASSUME n + 1 <= Len(seq)  PROVE Good(n + 1)
    OBVIOUS
  <2>1. n \in Nat /\ n + 1 \in 1..Len(seq) /\ Good(n) /\ (n + 1) - 1 = n
    BY <1>1
  <2> DEFINE old == found[n]
             e == seq[n + 1]
  <2>2. found[n + 1] = IF e \in set THEN Append(old, e) ELSE old
    BY <1>2, <2>1
  <2>3. old \in Seq(S \cap set) /\ Len(old) \in Nat /\ Len(old) <= n
    BY <2>1
  <2>4. ASSUME NEW k \in 1..n, seq[k] \in set  PROVE \E i \in 1..Len(old) : old[i] = seq[k]
    BY <2>1, <2>4
  <2> HIDE DEF old
  <2>5. CASE e \in set
    <3>1. e \in S \cap set
      BY <1>1, <2>1, <2>5
    <3>2. /\ Append(old, e) \in Seq(S \cap set) /\ Len(Append(old, e)) = Len(old) + 1
          /\ Append(old, e)[Len(old) + 1] = e
          /\ \A i \in 1..Len(old) : Append(old, e)[i] = old[i]
      <4> HIDE DEF e
      <4> QED  BY <2>3, <3>1, AppendProperties
    <3>3. found[n + 1] = Append(old, e)
      BY <2>2, <2>5
    <3>4. ASSUME NEW k \in 1..(n + 1), seq[k] \in set
          PROVE  \E i \in 1..Len(found[n + 1]) : found[n + 1][i] = seq[k]
      <4>1. CASE k = n + 1
        <5>1. Len(old) + 1 \in 1..Len(found[n + 1])
          BY <2>3, <3>2, <3>3
        <5> QED  BY <3>2, <3>3, <4>1, <5>1
      <4>2. CASE k # n + 1
        <5>1. k \in 1..n
          BY <2>1, <4>2
        <5>2. PICK i \in 1..Len(old) : old[i] = seq[k]
          BY <2>4, <3>4, <5>1
        <5>3. i \in 1..Len(found[n + 1]) /\ found[n + 1][i] = seq[k]
          BY <2>3, <3>2, <3>3, <5>2
        <5> QED  BY <5>3
      <4> QED  BY <4>1, <4>2
    <3>5. Len(found[n + 1]) <= n + 1
      BY <2>1, <2>3, <3>2, <3>3
    <3> QED  BY <3>2, <3>3, <3>4, <3>5
  <2>6. CASE e \notin set
    <3>1. found[n + 1] = old
      BY <2>2, <2>6
    <3>2. ASSUME NEW k \in 1..(n + 1), seq[k] \in set
          PROVE  \E i \in 1..Len(old) : old[i] = seq[k]
      <4>1. k \in 1..n
        BY <2>1, <2>6, <3>2
      <4> QED  BY <2>4, <3>2, <4>1
    <3> QED  BY <2>1, <2>3, <3>1, <3>2
  <2> QED  BY <2>5, <2>6
<1>5. T = Nat
  <2> HIDE DEF T
  <2>1. T \in SUBSET Nat
    BY DEF T
  <2> QED  BY <1>3, <1>4, <2>1, SetInduction
<1>6. Good(Len(seq))
  BY <1>1, <1>5
<1> QED  BY <1>2, <1>6

(* p gives the elements of A the numbers from 1 to n, one each. *)
Enumerates(p, n, A) ==
  /\ p \in [1..n -> A]
  /\ \A i, j \in 1..n : p[i] = p[j] => i = j
  /\ \A a \in A : \E i \in 1..n : p[i] = a

(* r is p with q behind it. *)
Joins(r, p, n, q, m) ==
  (\A i \in 1..n : r[i] = p[i]) /\ (\A j \in 1..m : r[n + j] = q[j])

(* Those of a second set get the numbers behind the first. *)
LEMMA EnumerationsJoined ==
  ASSUME NEW A, NEW B, NEW p, NEW q, NEW n \in Nat, NEW m \in Nat,
         Enumerates(p, n, A), Enumerates(q, m, B), A \cap B = {}
  PROVE  \E r : Enumerates(r, n + m, A \cup B) /\ Joins(r, p, n, q, m)
<1> DEFINE r == [i \in 1..(n + m) |-> IF i <= n THEN p[i] ELSE q[i - n]]
<1>1. \A i \in 1..(n + m) : i \in 1..n \/ \E j \in 1..m : i = n + j
  <2> SUFFICES ASSUME NEW i \in 1..(n + m), ~(i \in 1..n)  PROVE \E j \in 1..m : i = n + j
    OBVIOUS
  <2>1. i - n \in 1..m /\ i = n + (i - n)
    OBVIOUS
  <2> QED  BY <2>1
<1>2. ASSUME NEW i \in 1..n  PROVE r[i] = p[i] /\ r[i] \in A /\ i \in 1..(n + m)
  <2>1. i \in 1..(n + m) /\ i <= n
    OBVIOUS
  <2>2. r[i] = p[i]
    BY <2>1
  <2> QED  BY <2>1, <2>2 DEF Enumerates
<1>3. ASSUME NEW j \in 1..m  PROVE r[n + j] = q[j] /\ r[n + j] \in B /\ n + j \in 1..(n + m)
  <2>1. n + j \in 1..(n + m) /\ ~(n + j <= n) /\ (n + j) - n = j
    OBVIOUS
  <2>2. r[n + j] = q[j]
    BY <2>1
  <2> QED  BY <2>1, <2>2 DEF Enumerates
<1>4. r = [i \in 1..(n + m) |-> r[i]]
  OBVIOUS
<1> HIDE DEF r
<1>5. r \in [1..(n + m) -> A \cup B]
  <2>1. \A i \in 1..(n + m) : r[i] \in A \cup B
    BY <1>1, <1>2, <1>3
  <2> QED  BY <1>4, <2>1
<1>6. ASSUME NEW i \in 1..(n + m), NEW j \in 1..(n + m), r[i] = r[j]  PROVE i = j
  <2>1. CASE i \in 1..n /\ j \in 1..n
    BY <1>2, <1>6, <2>1 DEF Enumerates
  <2>2. CASE \E k, l \in 1..m : i = n + k /\ j = n + l
    <3>1. PICK k \in 1..m, l \in 1..m : i = n + k /\ j = n + l
      BY <2>2
    <3>2. q[k] = q[l]
      BY <1>3, <1>6, <3>1
    <3> QED  BY <3>1, <3>2 DEF Enumerates
  <2>3. CASE i \in 1..n /\ \E l \in 1..m : j = n + l
    BY <1>2, <1>3, <1>6, <2>3
  <2>4. CASE j \in 1..n /\ \E l \in 1..m : i = n + l
    BY <1>2, <1>3, <1>6, <2>4
  <2> QED  BY <1>1, <2>1, <2>2, <2>3, <2>4
<1>7. ASSUME NEW a \in A \cup B  PROVE \E i \in 1..(n + m) : r[i] = a
  <2>1. CASE a \in A
    <3>1. PICK i \in 1..n : p[i] = a
      BY <2>1 DEF Enumerates
    <3> QED  BY <1>2, <3>1
  <2>2. CASE a \in B
    <3>1. PICK j \in 1..m : q[j] = a
      BY <2>2 DEF Enumerates
    <3> QED  BY <1>3, <3>1
  <2> QED  BY <2>1, <2>2
<1>8. Enumerates(r, n + m, A \cup B)
  BY <1>5, <1>6, <1>7 DEF Enumerates
<1>9. Joins(r, p, n, q, m)
  BY <1>2, <1>3 DEF Joins
<1> QED  BY <1>8, <1>9

(* found is what stands in seq at the places of p. *)
Picks(p, found, seq) == \A i \in 1..Len(found) : found[i] = seq[p[i]]

(* What Among gathers is what stands at the places that pass, each place   *)
(* once.                                                                   *)
LEMMA AmongPlaces ==
  ASSUME NEW S, NEW seq \in Seq(S), NEW set
  PROVE  \E p : /\ Enumerates(p, Len(Among(seq, set)), {k \in 1..Len(seq) : seq[k] \in set})
                /\ Picks(p, Among(seq, set), seq)
<1>1. Len(seq) \in Nat /\ \A n \in 1..Len(seq) : seq[n] \in S
  OBVIOUS
<1>2. PICK found :
        /\ Among(seq, set) = found[Len(seq)]
        /\ found[0] = <<>>
        /\ \A n \in 1..Len(seq) :
             found[n] = IF seq[n] \in set THEN Append(found[n - 1], seq[n]) ELSE found[n - 1]
  BY <1>1, AmongEquation
<1> DEFINE Place(n) == {k \in 1..n : seq[k] \in set}
           At(p, n) == /\ Enumerates(p, Len(found[n]), Place(n))
                       /\ Picks(p, found[n], seq)
           Good(n) == found[n] \in Seq(S) /\ \E p : At(p, n)
           T == {n \in Nat : n <= Len(seq) => Good(n)}
<1>3. 0 \in T
  <2> DEFINE none == [i \in 1..0 |-> i]
  <2>1. found[0] \in Seq(S) /\ Len(found[0]) = 0
    BY <1>2
  <2>2. (\A i \in 1..0 : FALSE) /\ Place(0) = {}
    <3>1. 1..0 = {}
      OBVIOUS
    <3> QED  BY <3>1
  <2>3. none \in [1..0 -> Place(0)]
    BY <2>2
  <2> HIDE DEF none, Place
  <2>4. Enumerates(none, 0, Place(0))
    BY <2>2, <2>3 DEF Enumerates
  <2>5. At(none, 0)
    BY <2>1, <2>2, <2>4 DEF Picks
  <2> HIDE DEF At
  <2> QED  BY <2>1, <2>5
<1>4. ASSUME NEW n \in T  PROVE n + 1 \in T
  <2> SUFFICES ASSUME n + 1 <= Len(seq)  PROVE Good(n + 1)
    <3> HIDE DEF Good
    <3> QED  OBVIOUS
  <2>1. n \in Nat /\ n + 1 \in 1..Len(seq) /\ Good(n) /\ (n + 1) - 1 = n
    <3> HIDE DEF Good
    <3> QED  BY <1>1
  <2> DEFINE old == found[n]
             e == seq[n + 1]
  <2>2. found[n + 1] = IF e \in set THEN Append(old, e) ELSE old
    BY <1>2, <2>1
  <2>3. old \in Seq(S) /\ Len(old) \in Nat
    BY <2>1
  <2>4. PICK p : At(p, n)
    BY <2>1
  <2>5. Enumerates(p, Len(old), Place(n)) /\ \A i \in 1..Len(old) : old[i] = seq[p[i]]
    BY <2>4 DEF Picks
  <2>6. \A k \in 1..(n + 1) : k \in 1..n \/ k = n + 1
    BY <2>1
  <2>7. \A k \in 1..n : k \in 1..(n + 1) /\ k # n + 1
    BY <2>1
  <2>8. n + 1 \in 1..(n + 1)
    BY <2>1
  <2> HIDE DEF old
  <2>9. CASE e \in set
    <3> DEFINE q == [j \in 1..1 |-> n + 1]
    <3>1. Enumerates(q, 1, {n + 1})
      BY DEF Enumerates
    <3>2. Place(n) \cap {n + 1} = {} /\ Place(n + 1) = Place(n) \cup {n + 1}
      BY <2>6, <2>7, <2>8, <2>9
    <3>3. q[1] = n + 1 /\ 1 \in 1..1
      OBVIOUS
    <3> HIDE DEF q, Place
    <3>4. PICK r : Enumerates(r, Len(old) + 1, Place(n) \cup {n + 1}) /\ Joins(r, p, Len(old), q, 1)
      <4>1. PICK m \in Nat : m = 1
        OBVIOUS
      <4>2. /\ Len(old) \in Nat /\ m \in Nat /\ Place(n) \cap {n + 1} = {}
            /\ Enumerates(p, Len(old), Place(n)) /\ Enumerates(q, m, {n + 1})
        BY <2>3, <2>5, <3>1, <3>2, <4>1
      <4>3. \E r : Enumerates(r, Len(old) + m, Place(n) \cup {n + 1}) /\ Joins(r, p, Len(old), q, m)
        BY ONLY <4>2, EnumerationsJoined
      <4> QED  BY <4>1, <4>3
    <3>5. r[Len(old) + 1] = n + 1
      BY <3>3, <3>4 DEF Joins
    <3>6. e \in S
      BY <1>1, <2>1
    <3>7. /\ Append(old, e) \in Seq(S) /\ Len(Append(old, e)) = Len(old) + 1
          /\ Append(old, e)[Len(old) + 1] = e
          /\ \A i \in 1..Len(old) : Append(old, e)[i] = old[i]
      <4> HIDE DEF e
      <4> QED  BY <2>3, <3>6, AppendProperties
    <3>8. found[n + 1] = Append(old, e)
      BY <2>2, <2>9
    <3>9. ASSUME NEW i \in 1..Len(found[n + 1])  PROVE found[n + 1][i] = seq[r[i]]
      <4>1. i \in 1..Len(old) \/ i = Len(old) + 1
        BY <2>3, <3>7, <3>8
      <4> QED  BY <2>5, <3>4, <3>5, <3>7, <3>8, <4>1 DEF Joins
    <3>10. At(r, n + 1)
      BY <3>2, <3>4, <3>7, <3>8, <3>9 DEF Picks
    <3> HIDE DEF At
    <3> QED  BY <3>7, <3>8, <3>10
  <2>10. CASE e \notin set
    <3>1. found[n + 1] = old
      BY <2>2, <2>10
    <3>2. Place(n + 1) = Place(n)
      BY <2>6, <2>7, <2>10
    <3>3. At(p, n + 1)
      <4> HIDE DEF Place
      <4> QED  BY <2>5, <3>1, <3>2 DEF Picks
    <3> HIDE DEF At
    <3> QED  BY <2>3, <3>1, <3>3
  <2> QED  BY <2>9, <2>10
<1>5. T = Nat
  <2> HIDE DEF T
  <2>1. T \in SUBSET Nat
    BY DEF T
  <2> QED  BY <1>3, <1>4, <2>1, SetInduction
<1>6. Good(Len(seq))
  <2> HIDE DEF Good
  <2> QED  BY <1>1, <1>5
<1>7. PICK p : At(p, Len(seq))
  BY <1>6
<1> QED  BY <1>2, <1>7

-----------------------------------------------------------------------------
(* The comparison a condition is stored as. *)
Comparison(c) ==
  IF c.leftValue # None THEN [op |-> Mirrored(c.op), value |-> c.leftValue]
                        ELSE [op |-> c.op, value |-> c.rightValue]

(* The recursive function of Filter is what its equation says. *)
LEMMA FilterEquation ==
  ASSUME NEW S, NEW list \in Seq(S), NEW columns
  PROVE  \E stored : /\ Filter(columns, list) = stored[Len(list)]
                     /\ stored[0] = [f \in columns |-> NewSelectField]
                     /\ \A n \in 1..Len(list) : stored[n] = Store(stored[n - 1], list[n])
<1> DEFINE N == Len(list)
           V == [columns -> {NewSelectField} \cup {Comparison(c) : c \in S}]
           none == [f \in columns |-> NewSelectField]
           Next(n, x) == Store(x, list[n])
           Sol(g) == g = [n \in 0..N |-> IF n = 0 THEN none ELSE Next(n, g[n - 1])]
           step == [a \in (1..N) \X V |-> Next(a[1], a[2])]
<1>1. N \in Nat /\ none \in V /\ \A n \in 1..N : list[n] \in S
  OBVIOUS
<1>2. ASSUME NEW n \in 1..N, NEW x \in V  PROVE Next(n, x) \in V
  <2>1. list[n] \in S /\ DOMAIN x = columns
    BY <1>1
  <2>2. Store(x, list[n]) =
          [f \in columns |-> IF f # Target(list[n]) THEN x[f] ELSE Comparison(list[n])]
    BY <2>1 DEF Store, Comparison
  <2>3. Comparison(list[n]) \in {Comparison(c) : c \in S}
    BY <2>1
  <2> QED  BY <2>2, <2>3
<1> HIDE DEF Next, N, V, none
<1>3. \A n \in 1..N, x \in V : step[<<n, x>>] = Next(n, x)
  OBVIOUS
<1>4. step \in Steps(N, V)
  BY <1>2 DEF Steps
<1> HIDE DEF step
<1>5. PICK g \in [0..N -> V] : Rounds(g, N, none, step)
  BY <1>1, <1>4, Recursion
<1>6. g[0] = none /\ \A n \in 1..N : g[n] = Next(n, g[n - 1])
  <2>1. \A n \in 1..N : n - 1 \in 0..N /\ g[n - 1] \in V
    BY <1>1
  <2>2. g[0] = none /\ \A n \in 1..N : g[n] = step[<<n, g[n - 1]>>]
    BY <1>5 DEF Rounds
  <2> QED  BY <1>3, <2>1, <2>2
<1>7. Sol(g)
  BY <1>1, <1>6
<1> DEFINE stored == CHOOSE h : Sol(h)
<1>8. Sol(stored)
  <2> HIDE DEF Sol
  <2> QED  BY <1>7
<1>9. Filter(columns, list) = stored[N]
  BY DEF Filter, N, Next, none
<1> HIDE DEF stored
<1>10. stored[0] = none /\ \A n \in 1..N : stored[n] = Next(n, stored[n - 1])
  BY <1>1, <1>8
<1> QED  BY <1>9, <1>10 DEF N, Next, none

(* A column holds the comparison of a condition that is about it, if there *)
(* is one.                                                                 *)
LEMMA FilterProperties ==
  ASSUME NEW S, NEW list \in Seq(S), NEW columns
  PROVE  /\ DOMAIN Filter(columns, list) = columns
         /\ \A f \in columns :
              \/ /\ Filter(columns, list)[f] = NewSelectField
                 /\ \A n \in 1..Len(list) : Target(list[n]) # f
              \/ \E n \in 1..Len(list) :
                   Target(list[n]) = f /\ Filter(columns, list)[f] = Comparison(list[n])
<1>1. PICK stored :
        /\ Filter(columns, list) = stored[Len(list)]
        /\ stored[0] = [f \in columns |-> NewSelectField]
        /\ \A n \in 1..Len(list) : stored[n] = Store(stored[n - 1], list[n])
  BY FilterEquation
<1> DEFINE About(f, n) ==
             \/ /\ stored[n][f] = NewSelectField
                /\ \A m \in 1..n : Target(list[m]) # f
             \/ \E m \in 1..n : Target(list[m]) = f /\ stored[n][f] = Comparison(list[m])
           Good(n) == DOMAIN stored[n] = columns /\ \A f \in columns : About(f, n)
           T == {n \in Nat : n <= Len(list) => Good(n)}
<1>2. 0 \in T
  <2>1. DOMAIN stored[0] = columns /\ \A f \in columns : stored[0][f] = NewSelectField
    BY <1>1
  <2>2. \A m \in 1..0 : FALSE
    OBVIOUS
  <2>3. Good(0)
    BY <2>1, <2>2
  <2> HIDE DEF Good
  <2> QED  BY <2>3
<1>3. ASSUME NEW n \in T  PROVE n + 1 \in T
  <2> SUFFICES ASSUME n + 1 <= Len(list)  PROVE Good(n + 1)
    OBVIOUS
  <2>1. n \in Nat /\ n + 1 \in 1..Len(list) /\ Good(n) /\ (n + 1) - 1 = n
    <3> HIDE DEF Good
    <3> QED  OBVIOUS
  <2> DEFINE c == list[n + 1]
  <2>2. stored[n + 1] = Store(stored[n], c)
    BY <1>1, <2>1
  <2>3. DOMAIN stored[n] = columns
    BY <2>1
  <2>4. stored[n + 1] =
          [f \in columns |-> IF f # Target(c) THEN stored[n][f] ELSE Comparison(c)]
    BY <2>2, <2>3 DEF Store, Comparison
  <2>5. ASSUME NEW f \in columns  PROVE About(f, n + 1)
    <3>1. CASE f = Target(c)
      <4>1. stored[n + 1][f] = Comparison(c) /\ n + 1 \in 1..(n + 1)
        BY <2>1, <2>4, <3>1
      <4> QED  BY <3>1, <4>1
    <3>2. CASE f # Target(c)
      <4>1. stored[n + 1][f] = stored[n][f]
        BY <2>4, <3>2
      <4>2. About(f, n)
        BY <2>1
      <4>3. \A m \in 1..(n + 1) : m \in 1..n \/ m = n + 1
        BY <2>1
      <4>4. \A m \in 1..n : m \in 1..(n + 1)
        BY <2>1
      <4> QED  BY <3>2, <4>1, <4>2, <4>3, <4>4
    <3> QED  BY <3>1, <3>2
  <2> HIDE DEF About
  <2> QED  BY <2>4, <2>5
<1>4. T = Nat
  <2> HIDE DEF T
  <2>1. T \in SUBSET Nat
    BY DEF T
  <2> QED  BY <1>2, <1>3, <2>1, SetInduction
<1>5. Good(Len(list))
  <2> HIDE DEF Good
  <2> QED  BY <1>4
<1> QED  BY <1>1, <1>5

-----------------------------------------------------------------------------
(* A condition that compares a column with a number, the number on the     *)
(* right, or on the left and not with <= or >=.                            *)
Weakened(c) ==
  /\ c.op \in Comparisons
  /\ \/ c.leftValue = None /\ c.rightValue # None
     \/ /\ c.leftValue \in Int \ {None} /\ c.rightValue = None
        /\ c.op \notin {"TK_LE", "TK_GE"}

(* Turned round, < and > take in equality, and = and # are what they were. *)
LEMMA MirroredWeakens ==
  ASSUME NEW v \in Int, NEW x \in Int, NEW op \in Comparisons \ {"TK_LE", "TK_GE"},
         Compare(v, op, x)
  PROVE  Compare(x, Mirrored(op), v)
<1>1. CASE op = "TK_LT"
  <2>1. Mirrored(op) = "TK_GE"
    BY <1>1 DEF Mirrored, Comparisons
  <2>2. v < x
    BY <1>1 DEF Compare
  <2>3. x >= v
    BY <2>2
  <2> QED  BY <2>1, <2>3 DEF Compare
<1>2. CASE op = "TK_GT"
  <2>1. Mirrored(op) = "TK_LE"
    BY <1>2 DEF Mirrored, Comparisons
  <2>2. v > x
    BY <1>2 DEF Compare
  <2>3. x <= v
    BY <2>2
  <2> QED  BY <2>1, <2>3 DEF Compare
<1>3. CASE op \in {"TK_EQ", "TK_NE"}
  <2>1. Mirrored(op) = op
    BY <1>3 DEF Mirrored, Comparisons
  <2> QED  BY <1>3, <2>1 DEF Compare
<1> QED  BY <1>1, <1>2, <1>3 DEF Comparisons

(* A row that meets a condition passes the comparison it is stored as. *)
LEMMA ComparisonNoStricter ==
  ASSUME NEW c, Weakened(c), NEW row, row[Target(c)] \in Int, Holds(row, c)
  PROVE  Compare(row[Target(c)], Comparison(c).op, Comparison(c).value)
<1>1. CASE c.leftValue = None /\ c.rightValue # None
  BY <1>1 DEF Holds, Operand, Target, Comparison
<1>2. CASE /\ c.leftValue \in Int \ {None} /\ c.rightValue = None
           /\ c.op \notin {"TK_LE", "TK_GE"}
  <2>1. Compare(c.leftValue, c.op, row[Target(c)])
    BY <1>2 DEF Holds, Operand, Target
  <2>2. c.op \in Comparisons \ {"TK_LE", "TK_GE"} /\ c.leftValue \in Int
    BY <1>2 DEF Weakened
  <2>3. Compare(row[Target(c)], Mirrored(c.op), c.leftValue)
    BY <2>1, <2>2, MirroredWeakens
  <2> QED  BY <1>2, <2>3 DEF Comparison
<1> QED  BY <1>1, <1>2 DEF Weakened

(* The filter of a clause of any length keeps each row that meets the      *)
(* conditions on its columns (CheckConditionList and the tests of a row).  *)
THEOREM FilterNoStricter ==
  ASSUME NEW S, NEW list \in Seq(S), NEW columns, NEW row,
         \A f \in columns : row[f] \in Int,
         \A n \in 1..Len(list) :
           Target(list[n]) \in columns => Weakened(list[n]) /\ Holds(row, list[n])
  PROVE  Passes(row, Filter(columns, list))
<1> DEFINE filter == Filter(columns, list)
<1>1. DOMAIN filter = columns
  BY FilterProperties
<1>2. ASSUME NEW f \in columns, filter[f].op # TK_SEMICOLON
      PROVE  Compare(row[f], filter[f].op, filter[f].value)
  <2>1. filter[f] # NewSelectField
    BY <1>2 DEF NewSelectField
  <2>2. PICK n \in 1..Len(list) : Target(list[n]) = f /\ filter[f] = Comparison(list[n])
    <3> HIDE DEF filter
    <3>1. \/ filter[f] = NewSelectField
          \/ \E n \in 1..Len(list) : Target(list[n]) = f /\ filter[f] = Comparison(list[n])
      BY FilterProperties DEF filter
    <3> QED  BY <2>1, <3>1
  <2> HIDE DEF filter
  <2> QED  BY <2>2, ComparisonNoStricter
<1> HIDE DEF filter
<1> QED
  <2>1. Passes(row, filter)
    BY <1>1, <1>2 DEF Passes
  <2> QED  BY <2>1 DEF filter

(* A clause with its numbers on the right and each column once is its      *)
(* filter: no row more passes.                                             *)
THEOREM FilterExact ==
  ASSUME NEW S, NEW list \in Seq(S), NEW columns, NEW row,
         \A n \in 1..Len(list) : Target(list[n]) \in columns =>
           /\ list[n].op \in Comparisons
           /\ list[n].leftValue = None /\ list[n].rightValue # None,
         \A m, n \in 1..Len(list) :
           Target(list[m]) = Target(list[n]) /\ Target(list[m]) \in columns
             => list[m] = list[n]
  PROVE  Passes(row, Filter(columns, list)) <=>
           \A n \in 1..Len(list) : Target(list[n]) \in columns => Holds(row, list[n])
<1> DEFINE filter == Filter(columns, list)
<1>1. DOMAIN filter = columns
  BY FilterProperties
<1>2. \A f \in columns :
        \/ /\ filter[f] = NewSelectField
           /\ \A n \in 1..Len(list) : Target(list[n]) # f
        \/ \E n \in 1..Len(list) : Target(list[n]) = f /\ filter[f] = Comparison(list[n])
  BY FilterProperties
<1>3. ASSUME NEW n \in 1..Len(list), Target(list[n]) \in columns
      PROVE  /\ Comparison(list[n]).op # TK_SEMICOLON
             /\ Holds(row, list[n]) <=>
                  Compare(row[Target(list[n])], Comparison(list[n]).op, Comparison(list[n]).value)
  BY <1>3 DEF Comparison, Comparisons, TK_SEMICOLON, Holds, Operand, Target
<1> HIDE DEF filter
<1>4. ASSUME Passes(row, filter), NEW n \in 1..Len(list), Target(list[n]) \in columns
      PROVE  Holds(row, list[n])
  <2>1. PICK m \in 1..Len(list) :
          Target(list[m]) = Target(list[n]) /\ filter[Target(list[n])] = Comparison(list[m])
    BY <1>2, <1>4
  <2>2. list[m] = list[n]
    BY <1>4, <2>1
  <2> QED  BY <1>1, <1>3, <1>4, <2>1, <2>2 DEF Passes
<1>5. ASSUME \A n \in 1..Len(list) : Target(list[n]) \in columns => Holds(row, list[n])
      PROVE  Passes(row, filter)
  <2>1. ASSUME NEW f \in columns, filter[f].op # TK_SEMICOLON
        PROVE  Compare(row[f], filter[f].op, filter[f].value)
    <3>1. filter[f] # NewSelectField
      BY <2>1 DEF NewSelectField
    <3>2. PICK n \in 1..Len(list) : Target(list[n]) = f /\ filter[f] = Comparison(list[n])
      BY <1>2, <3>1
    <3> QED  BY <1>3, <1>5, <3>2
  <2> QED  BY <1>1, <2>1 DEF Passes
<1> QED  BY <1>4, <1>5 DEF filter

=============================================================================
