------------------------------- MODULE Config -------------------------------
(***************************************************************************)
(* get_config (src/config.cpp): from the numbers in config.toml to the     *)
(* fields of struct Config (include/config.hpp) that size the server.      *)
(***************************************************************************)
EXTENDS Integers

CONSTANTS
  Absent,        \* a key that config.toml does not have
  Int32Max,      \* std::numeric_limits<std::int32_t>::max()
  UInt16Size     \* the number of values of std::uint16_t

ASSUME WidthAssumption ==
  /\ Int32Max \in Nat /\ Int32Max >= 1024
  /\ UInt16Size \in Nat /\ UInt16Size > 1 /\ UInt16Size <= Int32Max
  /\ Absent \notin Int

(* value_or of toml++ returns the type of its argument, here always an     *)
(* int, and the argument itself when the number in the file does not fit.  *)
value_or(x, default) ==
  IF x = Absent THEN default
  ELSE IF x \in (-Int32Max - 1) .. Int32Max THEN x ELSE default

(* n unless it is not positive. *)
Positive(n, default) == IF n <= 0 THEN default ELSE n

(* Fault: a count that is not positive is kept. *)
get_config_AnyCount(file) ==
  [max_message_size           |-> Positive(value_or(file.max_message_size, 1024), 1024),
   max_memory_bytes_per_shard |-> Positive(value_or(file.max_memory_bytes_per_shard, 1024), 1024),
   shard_count                |-> value_or(file.shard_count, 1) % UInt16Size]

get_config(file) ==
  [max_message_size           |-> Positive(value_or(file.max_message_size, 1024), 1024),
   max_memory_bytes_per_shard |-> Positive(value_or(file.max_memory_bytes_per_shard, 1024), 1024),
   shard_count                |-> Positive(value_or(file.shard_count, 1), 1) % UInt16Size]

(* What the file asks for; where it does not say, the default. *)
Asked(x, default) == IF x = Absent THEN default ELSE x
=============================================================================
