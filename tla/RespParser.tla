----------------------------- MODULE RespParser -----------------------------
(***************************************************************************)
(* RespParser::parse (src/respParser.cpp) on sequences of bytes, and a     *)
(* buffer that grows by a byte at a time and is parsed from its first byte *)
(* every time.                                                             *)
(*                                                                         *)
(* A byte is a one-character string, "CR" or "LF"; "x" stands for every    *)
(* byte the parser does not tell apart.  A RespValue is a record with one  *)
(* field, named for its type.  Positions start at 1.                       *)
(***************************************************************************)
EXTENDS Integers, Sequences, SequencesExt

CONSTANTS
  Case,               \* byte streams, with the verdict to expect at their end
  Int64Max,           \* std::numeric_limits<std::int64_t>::max()
  kMaxBulkSize, kMaxArrayLength, kMaxNestingDepth

ASSUME LimitAssumption ==
  /\ Int64Max \in Nat /\ Int64Max > 9
  /\ kMaxBulkSize \in Nat /\ kMaxArrayLength \in Nat /\ kMaxNestingDepth \in Nat

ASSUME CaseAssumption == \A c \in Case : c.stream \in Seq(STRING)

CRLF == <<"CR", "LF">>

Digits == <<"0", "1", "2", "3", "4", "5", "6", "7", "8", "9">>
Digit == {Digits[i] : i \in 1 .. 10}
DigitValue(c) == (CHOOSE i \in 1 .. 10 : Digits[i] = c) - 1

npos == 0

-----------------------------------------------------------------------------
(* The parser.                                                             *)

Starts(buf, start) ==
  {i \in start .. Len(buf) - 1 : buf[i] = "CR" /\ buf[i + 1] = "LF"}

(* Fault: the last line end is taken. *)
findCrlf_Last(buf, start) ==
  LET found == Starts(buf, start) IN IF found = {} THEN npos ELSE Max(found)

findCrlf(buf, start) ==
  LET found == Starts(buf, start) IN IF found = {} THEN npos ELSE Min(found)

(* Fault: the digit that is appended is left out of the test. *)
Appended_Loose(acc, digit, limit) ==
  IF acc > limit \div 10 THEN -1 ELSE acc * 10 + digit

(* A digit more, or -1 where the loop gives up. *)
Appended(acc, digit, limit) ==
  IF acc > (limit - digit) \div 10 THEN -1 ELSE acc * 10 + digit

Accumulated(digits, limit) ==
  LET acc[i \in 0 .. Len(digits)] ==
        LET before == acc[i - 1]
        IN  IF i = 0 THEN 0
            ELSE IF before = -1 \/ digits[i] \notin Digit THEN -1
            ELSE Appended(before, DigitValue(digits[i]), limit)
  IN  acc[Len(digits)]

(* token has the bytes from token_start up to token_end. *)
parseInt64Token(token) ==
  LET sign   == IF token # <<>> /\ token[1] \in {"+", "-"} THEN token[1] ELSE ""
      digits == IF sign = "" THEN token ELSE Tail(token)
      limit  == IF sign = "-" THEN Int64Max + 1 ELSE Int64Max
      acc    == Accumulated(digits, limit)
  IN  IF digits = <<>> \/ acc = -1 THEN [ok |-> FALSE, out |-> 0]
      ELSE [ok |-> TRUE, out |-> IF sign = "-" THEN -acc ELSE acc]

(* What is found at pos with depth arrays open: a value, the start of an   *)
(* array of n elements, an error, or not enough.  next is the position     *)
(* after it.                                                               *)
Found(what, n, value, next) ==
  [what |-> what, n |-> n, value |-> value, next |-> next]

NoValue  == [kUnknown |-> <<>>]
NeedMore == Found("kNeedMoreData", 0, NoValue, 0)
Bad      == Found("kError", 0, NoValue, 0)
A(value, next) == Found("value", 0, value, next)

(* Fault: one byte too many is waited for. *)
BulkString_Waits(buf, start, n) ==
  IF n = -1 THEN A([kNullBulkString |-> <<>>], start)
  ELSE IF n < 0 \/ n > kMaxBulkSize THEN Bad
  ELSE IF Len(buf) - start + 1 <= n + 2 THEN NeedMore
  ELSE IF SubSeq(buf, start + n, start + n + 1) # CRLF THEN Bad
  ELSE A([kBulkString |-> SubSeq(buf, start, start + n - 1)], start + n + 2)

BulkString(buf, start, n) ==
  IF n = -1 THEN A([kNullBulkString |-> <<>>], start)
  ELSE IF n < 0 \/ n > kMaxBulkSize THEN Bad
  ELSE IF Len(buf) - start + 1 < n + 2 THEN NeedMore
  ELSE IF SubSeq(buf, start + n, start + n + 1) # CRLF THEN Bad
  ELSE A([kBulkString |-> SubSeq(buf, start, start + n - 1)], start + n + 2)

Array(start, n, depth) ==
  IF n = -1 THEN A([kNullArray |-> <<>>], start)
  ELSE IF n < 0 \/ n > kMaxArrayLength THEN Bad
  ELSE IF n = 0 THEN A([kArray |-> <<>>], start)
  ELSE IF depth + 1 > kMaxNestingDepth THEN Bad
  ELSE Found("array", n, NoValue, start)

(* What the line text after the byte type says; start is the position      *)
(* after the line.                                                         *)
Decoded(buf, type, text, start, depth) ==
  LET num == parseInt64Token(text)
  IN  IF type = "+" THEN A([kSimpleString |-> text], start)
      ELSE IF type = "-" THEN A([kError |-> text], start)
      ELSE IF ~ num.ok THEN Bad
      ELSE IF type = ":" THEN A([kInteger |-> num.out], start)
      ELSE IF type = "$" THEN BulkString(buf, start, num.out)
      ELSE Array(start, num.out, depth)

Element(buf, pos, depth) ==
  LET eol == findCrlf(buf, pos + 1)
  IN  IF buf[pos] \notin {"+", "-", ":", "$", "*"} THEN Bad
      ELSE IF eol = npos THEN NeedMore
      ELSE Decoded(buf, buf[pos], SubSeq(buf, pos + 1, eol - 1), eol + 2, depth)

(* A value goes into the innermost open array, which, once full, goes into *)
(* the one around it, up to the one, open, that lacks more.  arrives[i] is *)
(* what goes into the i-th array, arrives[0] the root.                     *)
attachValue(value, stack) ==
  LET open == Max({0} \cup {i \in DOMAIN stack : stack[i].remaining > 1})
      arrives[i \in 0 .. Len(stack)] ==
        IF i = Len(stack) THEN value
        ELSE [kArray |-> Append(stack[i + 1].elements, arrives[i + 1])]
  IN  IF open = 0 THEN [stack |-> <<>>, root |-> <<arrives[0]>>]
      ELSE [stack |-> Append(SubSeq(stack, 1, open - 1),
                             [remaining |-> stack[open].remaining - 1,
                              elements  |-> Append(stack[open].elements, arrives[open])]),
            root  |-> <<>>]

Verdict(result, consumed, value) ==
  [result |-> result, consumed |-> consumed, value |-> value]

(* parseImpl at the head of its loop, and once it has returned. *)
Start == [pos |-> 1, stack |-> <<>>, done |-> FALSE,
          verdict |-> Verdict("kNeedMoreData", 0, NoValue)]

Continue(pos, stack) == [Start EXCEPT !.pos = pos, !.stack = stack]

Return(verdict) == [Start EXCEPT !.done = TRUE, !.verdict = verdict]

(* One turn of the loop. *)
Turn(buf, at) ==
  LET e == Element(buf, at.pos, Len(at.stack))
      a == attachValue(e.value, at.stack)
  IN  IF at.done THEN at
      ELSE IF at.pos > Len(buf) THEN Return(Verdict("kNeedMoreData", 0, NoValue))
      ELSE IF e.what = "array"
           THEN Continue(e.next, Append(at.stack, [remaining |-> e.n, elements |-> <<>>]))
      ELSE IF e.what # "value" THEN Return(Verdict(e.what, 0, NoValue))
      ELSE IF a.root # <<>> THEN Return(Verdict("kReady", e.next - 1, a.root[1]))
      ELSE Continue(e.next, a.stack)

(* A turn that does not return takes bytes, so there is one more at most   *)
(* than there are bytes.                                                   *)
parse(buf) ==
  LET after[i \in 0 .. Len(buf) + 1] ==
        IF i = 0 THEN Start ELSE Turn(buf, after[i - 1])
  IN  after[Len(buf) + 1].verdict

-----------------------------------------------------------------------------
(* A buffer that is filled a byte at a time.                               *)

VARIABLES
  case,        \* the stream, and the verdict to expect
  received,    \* the bytes that have arrived
  verdict      \* what parse says of them

vars == <<case, received, verdict>>

Init == /\ case \in Case
        /\ received = 0
        /\ verdict = parse(<<>>)

Receive == /\ received < Len(case.stream)
           /\ received' = received + 1
           /\ verdict' = parse(SubSeq(case.stream, 1, received + 1))
           /\ UNCHANGED case

Next == Receive

Spec == Init /\ [][Next]_vars

-----------------------------------------------------------------------------
(* A verdict is final: neither the result nor the value nor the bytes      *)
(* consumed depend on what follows, so a request means the same however    *)
(* the network cuts it and whatever is pipelined after it.                 *)
VerdictStable == [][verdict.result # "kNeedMoreData" => verdict' = verdict]_vars

(* A value is delivered when its last byte arrives and that byte is the    *)
(* last it consumes: the parser neither waits for a byte of the next       *)
(* request nor takes one.                                                  *)
ReadyAtLastByte ==
  [][ verdict.result = "kNeedMoreData" /\ verdict'.result = "kReady"
        => verdict'.consumed = received' ]_vars

(* What serialize writes, parse reads back, nested arrays and strings that *)
(* contain line ends included; and a number is accepted exactly when it is *)
(* in the range of std::int64_t, with its value.                           *)
AgreesWithReference ==
  received = Len(case.stream) /\ case.expected # <<>>
    => verdict = case.expected[1]
=============================================================================
