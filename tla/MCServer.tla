------------------------------ MODULE MCServer ------------------------------
(* Contents of config.toml: one key at a time is absent, not positive, or  *)
(* too large for the type it is narrowed to.                               *)
EXTENDS Server

Usual == [max_message_size |-> 1024, max_memory_bytes_per_shard |-> 4096,
          shard_count |-> 1]

Numbers == {Absent, -1, 0, 1, Int32Max, Int32Max + 1}

MCFile ==
  {[Usual EXCEPT !.shard_count = n] : n \in {Absent, -1, 0, 2, UInt16Size,
                                             UInt16Size + 2, Int32Max + 1}}
    \cup {[Usual EXCEPT !.max_memory_bytes_per_shard = n] : n \in Numbers}
    \cup {[Usual EXCEPT !.max_message_size = n] : n \in Numbers}

BigBudget == {[Usual EXCEPT !.max_memory_bytes_per_shard = n] : n \in {1, Int32Max, Int32Max + 1}}
=============================================================================
