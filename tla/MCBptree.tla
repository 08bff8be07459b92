------------------------------ MODULE MCBptree ------------------------------
(* Constants of the model-checking runs of Bptree. *)
EXTENDS Bptree

(* Rows numbered by their key: the values of a column without duplicates. *)
Unique(n) == {<<k, 10 * k>> : k \in 1..n}

Unique6 == Unique(6)
Unique8 == Unique(8)

(* A key with as many rows as make two equal separators at order 3. *)
Repeated == {<<1, 10>>, <<2, 20>>, <<2, 21>>, <<2, 22>>, <<2, 23>>}

=============================================================================
