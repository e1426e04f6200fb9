---------------------------- MODULE SerialShards ----------------------------
(***************************************************************************)
(* What LruShard, which has no locks, needs of everything around it: a     *)
(* shard is used by one handler at a time, from when it is constructed to  *)
(* when it is destroyed.  The modules that take a call on a shard for one  *)
(* step rest on it.                                                        *)
(***************************************************************************)
CONSTANTS Shard, User

VARIABLE use    \* use[i]: "unborn", "free", the user of shard i, or "gone"

Init == use = [i \in Shard |-> "unborn"]

Construct == /\ \A i \in Shard : use[i] = "unborn"
             /\ use' \in [Shard -> {"unborn", "free"}]

Enter(i, u) == use[i] = "free" /\ use' = [use EXCEPT ![i] = u]

Leave(i) == use[i] \in User /\ use' = [use EXCEPT ![i] = "free"]

Destroy(i) == use[i] = "free" /\ use' = [use EXCEPT ![i] = "gone"]

Next == \/ Construct
        \/ \E i \in Shard : Leave(i) \/ Destroy(i) \/ \E u \in User : Enter(i, u)

Spec == Init /\ [][Next]_use
=============================================================================
