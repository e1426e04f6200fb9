---------------------------- MODULE MCRespParser ----------------------------
(* Streams of three kinds: numbers around the limits, serialized values,   *)
(* and lines put together in every order.                                  *)
EXTENDS RespSerializer

CONSTANTS TokenLength, Lines    \* bounds on the streams

Strings(S, n) == UNION {[1 .. m -> S] : m \in 0 .. n}

(* Numbers, against their value by powers of ten. *)
Token == Strings({"+", "-", "0", "1", "2", "7", "8", "x"}, TokenLength)

Power == <<1, 10, 100, 1000, 10000>>

Value(digits) ==
  LET sum[i \in 0 .. Len(digits)] ==
        IF i = 0 THEN 0
        ELSE sum[i - 1] + DigitValue(digits[i]) * Power[Len(digits) - i + 1]
  IN  sum[Len(digits)]

Number(token) ==
  LET signed == token # <<>> /\ token[1] \in {"+", "-"}
      digits == IF signed THEN Tail(token) ELSE token
      value  == IF signed /\ token[1] = "-" THEN -Value(digits) ELSE Value(digits)
  IN  IF digits # <<>> /\ ToSet(digits) \subseteq Digit
           /\ value <= Int64Max /\ value >= -Int64Max - 1
      THEN Verdict("kReady", Len(token) + 3, [kInteger |-> value])
      ELSE Verdict("kError", 0, NoValue)

NumberCase == {[stream |-> <<":">> \o t \o CRLF, expected |-> <<Number(t)>>] : t \in Token}

(* Serialized values, with the start of another after them. *)
Text == {<<>>, <<"x">>, <<"x", "CR">>, <<"LF">>}

Leaf == {[kSimpleString |-> s] : s \in Text} \cup {[kError |-> s] : s \in Text}
          \cup {[kBulkString |-> s] : s \in Text \cup {CRLF}}
          \cup {[kInteger |-> n] : n \in {-Int64Max - 1, -1, 0, 10, Int64Max}}
          \cup {[kNullBulkString |-> <<>>], [kNullArray |-> <<>>], [kArray |-> <<>>]}

Flat == {[kArray |-> <<v>>] : v \in Leaf} \cup {[kArray |-> <<v, w>>] : v, w \in Leaf}

One == {[kArray |-> <<v>>] : v \in Leaf}

Nested == {[kArray |-> <<a, v>>] : a \in One, v \in Leaf}
            \cup {[kArray |-> <<[kArray |-> <<v, a>>], v>>] : a \in One, v \in Leaf}

ValueCase ==
  {[stream   |-> serialize(v) \o <<"+", "CR", "LF">>,
    expected |-> <<Verdict("kReady", Len(serialize(v)), v)>>] :
     v \in Leaf \cup Flat \cup Nested}

(* Lines, some of them cut short or out of place. *)
Line == {<<"*", "1", "CR", "LF">>, <<"*", "2", "CR", "LF">>, <<"*", "0", "CR", "LF">>,
         <<"*", "-", "2", "CR", "LF">>, <<"*", "7", "CR", "LF">>,
         <<"$", "1", "CR", "LF">>, <<"$", "0", "CR", "LF">>, <<"$", "-", "1", "CR", "LF">>,
         <<"$", "8", "CR", "LF">>, <<"$", "CR", "LF">>, <<"x", "CR", "LF">>,
         <<":", "1", "CR", "LF">>, <<"+", "CR">>, <<"-", "x", "CR", "LF">>, <<"CR", "LF">>}

LineCase == {[stream |-> FlattenSeq(s), expected |-> <<>>] : s \in Strings(Line, Lines)}

(* One array more than may be open. *)
DeepCase == {[stream   |-> FlattenSeq([i \in 1 .. kMaxNestingDepth + 1 |-> <<"*", "1", "CR", "LF">>]),
              expected |-> <<Verdict("kError", 0, NoValue)>>]}

MCCase == NumberCase \cup ValueCase \cup LineCase \cup DeepCase
=============================================================================
