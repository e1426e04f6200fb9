------------------------- MODULE MCCommandExecutor -------------------------
(* Two shards, two sessions and the commands they send. *)
EXTENDS CommandExecutor

CONSTANTS k0, k1, k2, v, w, a, b

MCKeySize   == [k \in Key |-> 1]
MCValueSize == [x \in Value |-> 1]
MCShardOf   == [k \in Key |-> IF k = k2 THEN 1 ELSE 0]
MCHome      == [s \in Session |-> IF s = a THEN 0 ELSE 1]
NoHome      == [s \in Session |-> IF s = a THEN 0 ELSE Null]

Cmd(type, key, keys, value, opt, arg) ==
  [type |-> type, key |-> key, keys |-> keys, value |-> value,
   opt |-> opt, arg |-> arg]

SetCmd(k, x, opt, arg) == Cmd("kSet", k, {}, x, opt, arg)
KeyCmd(type, k, arg)   == Cmd(type, k, {}, Null, "none", arg)
Plain(type, opt)       == Cmd(type, Null, {}, Null, opt, Null)
DelCmd(K)              == Cmd("kDel", Null, K, Null, "none", Null)

(* Commands over several shards, and the sets that make them count. *)
ManyShardCommands ==
  {SetCmd(k, v, "none", Null) : k \in Key}
    \cup {DelCmd({k0, k2}), DelCmd({k1, k2}), Plain("kInfo", "ALL")}

(* Commands on one key, two sessions and every option, good or bad. *)
OneKeyCommands ==
  {SetCmd(k2, v, "NX", Null), SetCmd(k2, w, "XX", Null), SetCmd(k2, v, "EX", 1),
   SetCmd(k2, v, "EX", Null), SetCmd(k2, v, "bad", Null),
   SetCmd(k0, v, "none", Null), KeyCmd("kGet", k2, Null), KeyCmd("kTtl", k2, Null),
   KeyCmd("kExpire", k2, 0), KeyCmd("kExpire", k2, Null), DelCmd({k0, k2}),
   Plain("kInfo", "bad"), Plain("kPing", "none"), Plain("kCommand", "none"),
   Plain("kCommand", "COUNT"), Plain("kCommand", "bad"), Plain("kConfig", "GET"),
   Plain("kConfig", "bad"), Plain("kUnknown", "none")}
=============================================================================
