----------------------------- MODULE MCSession -----------------------------
(* Streams of up to MaxFrames frames around the size limit, and every      *)
(* request of up to MaxElements elements, at most one of which is not a    *)
(* bulk string, on its own.                                                *)
EXTENDS Session

CONSTANTS MaxFrames, MaxElements

Names == {"GET", "set", "DEL", "EXPIRE", "ttl", "INFO", "PING", "COMMAND", "CONFIG", "OTHER"}

Types(n) == {[i \in 1 .. n |-> IF i = odd THEN t ELSE "kBulkString"] :
               odd \in 1 .. n, t \in {"kSimpleString", "kInteger", "kNullBulkString", "kArray"}}
              \cup {[i \in 1 .. n |-> "kBulkString"]}

MCRequest == [type : {"kArray"}, name : Names, types : UNION {Types(n) : n \in 0 .. MaxElements}]
               \cup [type : {"kInteger", "kNullArray"}, name : {"GET"}, types : {<<>>}]

A(request, size) == [verdict |-> "kReady", value |-> request, size |-> size, end |-> 0]

Get    == [type |-> "kArray", name |-> "GET", types |-> <<"kBulkString", "kBulkString">>]
Number == [type |-> "kInteger", name |-> "GET", types |-> <<>>]

Frames == {A(Get, n) : n \in 1 .. 4} \cup {A(Number, 2)}
            \cup {[verdict |-> "kError", size |-> n, end |-> 0] : n \in {1, 4}}

(* The frames of s one after the other. *)
Laid(s) == LET end[i \in 0 .. Len(s)] == IF i = 0 THEN 0 ELSE end[i - 1] + s[i].size
           IN  [i \in 1 .. Len(s) |-> [s[i] EXCEPT !.end = end[i]]]

MCStream == {Laid(s) : s \in UNION {[1 .. n -> Frames] : n \in 0 .. MaxFrames}
                               \cup {<<A(r, 2)>> : r \in MCRequest}}
=============================================================================
