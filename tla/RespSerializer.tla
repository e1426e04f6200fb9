--------------------------- MODULE RespSerializer ---------------------------
(***************************************************************************)
(* RespSerializer::serialize (src/respSerializer.cpp): what it writes and  *)
(* the size it reserves.  The values are those the parser delivers.        *)
(***************************************************************************)
EXTENDS RespParser

RECURSIVE Decimal(_)
Decimal(n) == IF n < 10 THEN <<Digits[n + 1]>>
                        ELSE Append(Decimal(n \div 10), Digits[(n % 10) + 1])

append_integer(n) == IF n < 0 THEN <<"-">> \o Decimal(-n) ELSE Decimal(n)

kUnknownType == <<"-", "x">> \o CRLF

append_non_array(v) ==
  LET type == CHOOSE t \in DOMAIN v : TRUE
  IN  CASE type = "kSimpleString"   -> <<"+">> \o v[type] \o CRLF
        [] type = "kError"          -> <<"-">> \o v[type] \o CRLF
        [] type = "kInteger"        -> <<":">> \o append_integer(v[type]) \o CRLF
        [] type = "kBulkString"     -> <<"$">> \o append_integer(Len(v[type])) \o CRLF
                                          \o v[type] \o CRLF
        [] type = "kNullBulkString" -> <<"$", "-", "1">> \o CRLF
        [] type = "kNullArray"      -> <<"*", "-", "1">> \o CRLF
        [] OTHER                    -> kUnknownType

Elements(v) == IF DOMAIN v = {"kArray"} THEN v.kArray ELSE <<>>

(* What is written for v itself. *)
Written(v) ==
  IF DOMAIN v = {"kArray"} THEN <<"*">> \o append_integer(Len(v.kArray)) \o CRLF
                           ELSE append_non_array(v)

(* The arrays on the stack that have an element left.  The inner loop pops *)
(* to the innermost of them.                                               *)
Unfinished(stack) == {i \in DOMAIN stack : stack[i].next <= Len(stack[i].elements)}

(* The outer loop with current: an array that is not empty is pushed and   *)
(* its first element is the next current.                                  *)
RECURSIVE serialize_iterative(_, _)
serialize_iterative(current, stack) ==
  LET pushed == IF Elements(current) = <<>> THEN stack
                ELSE Append(stack, [elements |-> Elements(current), next |-> 1])
      left   == Unfinished(pushed)
      top    == Max(left)
      frame  == pushed[top]
  IN  Written(current) \o
        IF left = {} THEN <<>>
        ELSE serialize_iterative(frame.elements[frame.next],
                                 Append(SubSeq(pushed, 1, top - 1),
                                        [frame EXCEPT !.next = @ + 1]))

serialize(v) == serialize_iterative(v, <<>>)

integer_length(n) == Len(append_integer(n))

(* Fault: the line end after the bytes of a bulk string is left out. *)
SizeOf_ShortBulk(v) ==
  LET type == CHOOSE t \in DOMAIN v : TRUE
  IN  CASE type = "kBulkString" -> 1 + integer_length(Len(v[type])) + 2 + Len(v[type])
        [] type = "kArray"      -> 1 + integer_length(Len(v[type])) + 2
        [] OTHER                -> Len(append_non_array(v))

(* What the estimate adds for v itself. *)
SizeOf(v) ==
  LET type == CHOOSE t \in DOMAIN v : TRUE
  IN  CASE type \in {"kSimpleString", "kError"} -> 1 + Len(v[type]) + 2
        [] type = "kInteger"    -> 1 + integer_length(v[type]) + 2
        [] type = "kBulkString" -> 1 + integer_length(Len(v[type])) + 2 + Len(v[type]) + 2
        [] type \in {"kNullBulkString", "kNullArray"} -> 5
        [] type = "kArray"      -> 1 + integer_length(Len(v[type])) + 2
        [] OTHER                -> Len(kUnknownType)

RECURSIVE Estimate(_, _)
Estimate(stack, total) ==
  IF stack = <<>> THEN total
  ELSE Estimate(Front(stack) \o Reverse(Elements(Last(stack))),
                total + SizeOf(Last(stack)))

estimate_serialized_size(root) == Estimate(<<root>>, 0)

-----------------------------------------------------------------------------
(* The estimate the serializer reserves memory by is the length of what it *)
(* then writes: the two walk a value with different stacks and spell out   *)
(* its parts twice.                                                        *)
EstimateExact ==
  verdict.result = "kReady" =>
    estimate_serialized_size(verdict.value) = Len(serialize(verdict.value))
=============================================================================
