--------------------------- MODULE MCLruShardLoops ---------------------------
(* Model values and sizes for model checking LruShardLoops. *)
EXTENDS LruShardLoops, TLC

CONSTANTS small, big, huge    \* values; a huge one alone exceeds the budget

MCKeySize   == [k \in Key |-> 1]
MCValueSize == [v \in Value |-> IF v = small THEN 1 ELSE IF v = big THEN 3 ELSE 6]
Perms == Permutations(Key)
=============================================================================
