------------------------------ MODULE Command ------------------------------
(***************************************************************************)
(* From a parsed value to a command: Command::toCommand (src/command.cpp), *)
(* and what the handlers of src/commandExecutor.cpp read of cmd.args,      *)
(* which they index without a check.  Session puts the two together.       *)
(*                                                                         *)
(* A request is an array whose first element is the name; of the elements  *)
(* only the types matter, and the number of those after the name.          *)
(***************************************************************************)
EXTENDS Integers, Sequences

CONSTANTS
  Request    \* records: type of the value, name, and types, those of its elements

ASSUME RequestAssumption == \A r \in Request : r.types \in Seq(STRING)

CommandType == {"kPing", "kCommand", "kGet", "kSet", "kDel", "kExpire", "kTtl",
                "kInfo", "kConfig"}

StringType == {"kBulkString", "kSimpleString"}

(* to_uppercase and determineCommandType: names in either case. *)
determineCommandType(name) ==
  CASE name \in {"GET", "get"}         -> "kGet"
    [] name \in {"SET", "set"}         -> "kSet"
    [] name \in {"DEL", "del"}         -> "kDel"
    [] name \in {"EXPIRE", "expire"}   -> "kExpire"
    [] name \in {"TTL", "ttl"}         -> "kTtl"
    [] name \in {"INFO", "info"}       -> "kInfo"
    [] name \in {"PING", "ping"}       -> "kPing"
    [] name \in {"COMMAND", "command"} -> "kCommand"
    [] name \in {"CONFIG", "config"}   -> "kConfig"
    [] OTHER                           -> "kUnknown"

kMaxArgs == 10

Args(min, max) == [minArgs |-> min, maxArgs |-> max]

kSpecs ==
  [kGet |-> Args(1, 1), kSet |-> Args(2, 4), kDel |-> Args(1, kMaxArgs),
   kExpire |-> Args(2, 2), kTtl |-> Args(1, 1), kInfo |-> Args(0, 1),
   kPing |-> Args(0, 1), kCommand |-> Args(0, kMaxArgs), kConfig |-> Args(2, 2)]

(* Fault: the least number is not looked at. *)
validateArgs_MaximumOnly(type, argc) == argc <= kSpecs[type].maxArgs

validateArgs(type, argc) == argc \in kSpecs[type].minArgs .. kSpecs[type].maxArgs

NoCommand == [type |-> "kUnknown", argc |-> 0]    \* std::nullopt

(* The tests are made in this order: validateArgs is not reached for an    *)
(* unknown name.                                                           *)
toCommand(req) ==
  LET type == determineCommandType(req.name)
      argc == Len(req.types) - 1
  IN  IF \/ req.type # "kArray"
         \/ req.types = <<>>
         \/ req.types[1] \notin StringType
         \/ type = "kUnknown"
         \/ ~ validateArgs(type, argc)
         \/ \E i \in 2 .. argc + 1 : req.types[i] \notin StringType
      THEN NoCommand
      ELSE [type |-> type, argc |-> argc]

(* The sets of indexes into args that the handler of a command may read: a *)
(* handler that refuses an option or a number stops early.                 *)
ArgsRead(cmd) ==
  LET all == 0 .. cmd.argc - 1
  IN  CASE cmd.type \in {"kGet", "kTtl"} -> {{0}}
        [] cmd.type = "kSet" -> {{0, 1} \cup all} \cup (IF cmd.argc < 3 THEN {} ELSE {{0, 2}})
                                  \cup (IF cmd.argc = 4 THEN {{0, 2, 3}} ELSE {})
        [] cmd.type = "kExpire" -> {{1}, {0, 1}}
        [] cmd.type = "kConfig" -> {{0}, {0, 1}}
        [] cmd.type = "kCommand" -> {all, all \cap {0}}
        [] cmd.type \in {"kDel", "kInfo"} -> {all}
        [] cmd.type = "kPing" -> {IF cmd.argc = 1 THEN {0} ELSE {}}
=============================================================================
