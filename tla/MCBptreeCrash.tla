---------------------------- MODULE MCBptreeCrash ----------------------------
(* Keys with one row each, as in a column without duplicates. *)
EXTENDS BptreeCrash

Unique(n) == {<<k, 10 * k>> : k \in 1..n}

Unique6 == Unique(6)
=============================================================================
