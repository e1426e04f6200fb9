---------------------------- MODULE MCGlobMatch ----------------------------
(* Patterns and names up to a length over two letters. *)
EXTENDS GlobMatch

CONSTANTS PatternLength, TextLength

Words(S, n) == UNION {[1 .. m -> S] : m \in 0 .. n}

MCPattern == Words({"a", "b", "*", "?"}, PatternLength)
MCText    == Words({"a", "b"}, TextLength)
=============================================================================
