-------------------------- MODULE RespParserProofs --------------------------
(***************************************************************************)
(* The parser on a prefix and on the whole, for every stream of bytes and  *)
(* every limit.                                                            *)
(*                                                                         *)
(* parse starts again from the first byte whenever bytes arrive, so what   *)
(* has to be compared is two runs of its loop, on a prefix and on a longer *)
(* buffer.  Turn by turn they agree until the run on the prefix asks for   *)
(* more (Waits), and until the run on the longer buffer has taken a byte   *)
(* the prefix lacks (Beyond).                                              *)
(***************************************************************************)
EXTENDS RespParser, WellFoundedInduction, TLAPS

-----------------------------------------------------------------------------
(* Counting.                                                               *)

(* A set of naturals that is not empty has a least element. *)
LEMMA Smallest ==
  ASSUME NEW T, T \subseteq Nat, T # {}
  PROVE  \E x \in T : \A y \in T : x <= y
<1>1. IsWellFoundedOn(OpToRel(<, Nat), Nat)
  BY NatLessThanWellFounded
<1>2. PICK x \in T : \A y \in T : ~ (<<y, x>> \in OpToRel(<, Nat))
  BY <1>1, WFMin
<1>3. \A y \in T : ~ (y < x)
  BY <1>2 DEF OpToRel
<1> QED
  BY <1>3

(* A set of naturals that has 0 and every successor of its elements. *)
LEMMA CountUp ==
  ASSUME NEW T, 0 \in T, \A n \in Nat : n \in T => n + 1 \in T
  PROVE  Nat \subseteq T
<1> SUFFICES ASSUME Nat \ T # {} PROVE FALSE
  OBVIOUS
<1>1. PICK x \in Nat \ T : \A y \in Nat \ T : x <= y
  BY Smallest
<1>2. x # 0 /\ x - 1 \in T
  BY <1>1
<1> QED
  BY <1>1, <1>2

-----------------------------------------------------------------------------
(* Lines.                                                                  *)

(* short is the start of long. *)
Prefix(short, long) ==
  /\ long \in Seq(STRING) /\ short \in Seq(STRING)
  /\ Len(short) <= Len(long)
  /\ \A i \in 1 .. Len(short) : short[i] = long[i]

(* The parts of the prefix are the parts of the whole. *)
LEMMA PrefixPart ==
  ASSUME NEW short, NEW long, Prefix(short, long),
         NEW p \in Int, NEW q \in Int, 1 <= p, q <= Len(short)
  PROVE  SubSeq(short, p, q) = SubSeq(long, p, q)
BY DEF Prefix

(* findCrlf gives the first line end, if there is one. *)
LEMMA FirstCrlf ==
  ASSUME NEW buf \in Seq(STRING), NEW start \in Nat \ {0}
  PROVE  LET eol == findCrlf(buf, start)
         IN  /\ eol \in Nat
             /\ eol = npos <=> Starts(buf, start) = {}
             /\ eol # npos => /\ eol \in Starts(buf, start)
                              /\ \A j \in Starts(buf, start) : eol <= j
                              /\ start <= eol /\ eol + 1 <= Len(buf)
<1> DEFINE found == Starts(buf, start)
<1>1. found \subseteq Nat \ {0} /\ \A i \in found : start <= i /\ i + 1 <= Len(buf)
  BY DEF Starts
<1>2. CASE found = {}
  BY <1>2 DEF findCrlf, npos
<1>3. CASE found # {}
  <2> HIDE DEF found
  <2>1. \E x \in found : \A y \in found : x <= y
    BY <1>1, <1>3, Smallest
  <2>2. Min(found) \in found /\ \A y \in found : Min(found) <= y
    BY <2>1 DEF Min
  <2>3. findCrlf(buf, start) = Min(found)
    BY <1>3 DEF findCrlf, found
  <2> QED
    BY <1>1, <1>3, <2>2, <2>3 DEF npos, found
<1> QED
  BY <1>2, <1>3

(* The line end of the prefix is that of the whole, and that of the whole  *)
(* is the prefix's when it has it.                                         *)
LEMMA SameCrlf ==
  ASSUME NEW short, NEW long, Prefix(short, long), NEW start \in Nat \ {0}
  PROVE  /\ findCrlf(short, start) # npos => findCrlf(long, start) = findCrlf(short, start)
         /\ findCrlf(long, start) # npos /\ findCrlf(long, start) + 1 <= Len(short)
              => findCrlf(short, start) = findCrlf(long, start)
<1> DEFINE S == Starts(short, start)
           L == Starts(long, start)
           s == findCrlf(short, start)
           l == findCrlf(long, start)
<1>1. short \in Seq(STRING) /\ long \in Seq(STRING) /\ Len(short) \in Nat /\ Len(long) \in Nat
  BY DEF Prefix
<1>2. \A i : i \in S <=> i \in L /\ i + 1 <= Len(short)
  BY <1>1 DEF Starts, Prefix
<1>3. /\ s \in Nat /\ (s = npos <=> S = {}) /\ (s # npos => s \in S /\ \A j \in S : s <= j)
      /\ (s # npos => s + 1 <= Len(short))
  BY <1>1, FirstCrlf
<1>4. /\ l \in Nat /\ (l = npos <=> L = {}) /\ (l # npos => l \in L /\ \A j \in L : l <= j)
  BY <1>1, FirstCrlf
<1>5. S \subseteq Int /\ L \subseteq Int
  BY DEF Starts
<1> HIDE DEF S, L, s, l
<1>6. s # npos => l = s
  <2> SUFFICES ASSUME s # npos PROVE l = s
    OBVIOUS
  <2>1. s \in L /\ l # npos /\ l <= s
    BY <1>2, <1>3, <1>4
  <2>2. l + 1 <= Len(short)
    BY <1>1, <1>3, <1>4, <2>1
  <2>3. l \in S
    BY <1>2, <1>4, <2>1, <2>2
  <2> QED
    BY <1>3, <1>4, <2>1, <2>3
<1>7. l # npos /\ l + 1 <= Len(short) => s = l
  <2> SUFFICES ASSUME l # npos, l + 1 <= Len(short) PROVE s = l
    OBVIOUS
  <2>1. l \in S /\ s # npos
    BY <1>2, <1>3, <1>4
  <2> QED
    BY <1>6, <2>1
<1> QED
  BY <1>6, <1>7 DEF s, l

-----------------------------------------------------------------------------
(* Numbers.                                                                *)

AllDigits(s) == \A i \in 1 .. Len(s) : s[i] \in Digit

(* What the digits of s say, from the left. *)
Numeral(s) ==
  LET val[i \in 0 .. Len(s)] ==
        IF i = 0 THEN 0 ELSE val[i - 1] * 10 + DigitValue(s[i])
  IN  val[Len(s)]

(* A digit has a value. *)
LEMMA DigitRange ==
  ASSUME NEW c \in Digit
  PROVE  DigitValue(c) \in 0 .. 9
<1>1. \E i \in 1 .. 10 : Digits[i] = c
  BY DEF Digit
<1> HIDE DEF Digits
<1> DEFINE i == CHOOSE i \in 1 .. 10 : Digits[i] = c
<1>2. i \in 1 .. 10
  BY <1>1
<1>3. DigitValue(c) = i - 1
  BY DEF DigitValue
<1> HIDE DEF i
<1> QED
  BY <1>2, <1>3

ValStep(s, i, before) == IF i = 0 THEN 0 ELSE before * 10 + DigitValue(s[i])

AccStep(s, limit, i, before) ==
  IF i = 0 THEN 0
  ELSE IF before = -1 \/ s[i] \notin Digit THEN -1
  ELSE Appended(before, DigitValue(s[i]), limit)

(* The values of the first digits, and the accumulator after them. *)
Values(s, n, g) == g = [i \in 0 .. n |-> ValStep(s, i, g[i - 1])]

Accumulators(s, limit, n, g) == g = [i \in 0 .. n |-> AccStep(s, limit, i, g[i - 1])]

(* Values can be computed from the left. *)
LEMMA ValuesExist ==
  ASSUME NEW s, NEW m \in Nat
  PROVE  \E g : Values(s, m, g)
<1> DEFINE T == {n \in Nat : \E g : Values(s, n, g)}
<1>1. 0 \in T
  <2> DEFINE g == [i \in {0} |-> 0]
  <2>1. 0 .. 0 = {0}
    OBVIOUS
  <2>2. g = [i \in {0} |-> ValStep(s, i, g[i - 1])]
    BY DEF ValStep
  <2> QED
    BY <2>1, <2>2 DEF Values
<1>2. ASSUME NEW n \in Nat, n \in T PROVE n + 1 \in T
  <2>1. PICK g : Values(s, n, g)
    BY <1>2
  <2> DEFINE h == [i \in 0 .. n + 1 |-> IF i = n + 1 THEN ValStep(s, i, g[n]) ELSE g[i]]
  <2>2. \A i \in 0 .. n : g[i] = ValStep(s, i, g[i - 1])
    BY <2>1 DEF Values
  <2>3. \A i \in 0 .. n : h[i] = g[i]
    OBVIOUS
  <2>4. ASSUME NEW i \in 0 .. n + 1 PROVE h[i] = ValStep(s, i, h[i - 1])
    <3>1. CASE i = n + 1
      BY <2>3, <3>1
    <3>2. CASE i \in 1 .. n
      <4>1. i - 1 \in 0 .. n /\ i \in 0 .. n
        BY <3>2
      <4> QED
        BY <2>2, <2>3, <3>2, <4>1
    <3>3. CASE i = 0
      BY <2>2, <2>3, <3>3 DEF ValStep
    <3> QED
      BY <3>1, <3>2, <3>3
  <2>5. h = [i \in 0 .. n + 1 |-> ValStep(s, i, h[i - 1])]
    BY <2>4
  <2>6. Values(s, n + 1, h) /\ n + 1 \in Nat
    BY <2>5 DEF Values
  <2> HIDE DEF h
  <2> QED
    BY <2>6
<1> HIDE DEF T
<1>3. m \in T
  BY <1>1, <1>2, CountUp
<1> QED
  BY <1>3 DEF T

(* So can the accumulator. *)
LEMMA AccumulatorsExist ==
  ASSUME NEW s, NEW limit, NEW m \in Nat
  PROVE  \E g : Accumulators(s, limit, m, g)
<1> DEFINE T == {n \in Nat : \E g : Accumulators(s, limit, n, g)}
<1>1. 0 \in T
  <2> DEFINE g == [i \in {0} |-> 0]
  <2>1. 0 .. 0 = {0}
    OBVIOUS
  <2>2. g = [i \in {0} |-> AccStep(s, limit, i, g[i - 1])]
    BY DEF AccStep
  <2> QED
    BY <2>1, <2>2 DEF Accumulators
<1>2. ASSUME NEW n \in Nat, n \in T PROVE n + 1 \in T
  <2>1. PICK g : Accumulators(s, limit, n, g)
    BY <1>2
  <2> DEFINE h == [i \in 0 .. n + 1 |->
                     IF i = n + 1 THEN AccStep(s, limit, i, g[n]) ELSE g[i]]
  <2>2. \A i \in 0 .. n : g[i] = AccStep(s, limit, i, g[i - 1])
    BY <2>1 DEF Accumulators
  <2>3. \A i \in 0 .. n : h[i] = g[i]
    OBVIOUS
  <2>4. ASSUME NEW i \in 0 .. n + 1 PROVE h[i] = AccStep(s, limit, i, h[i - 1])
    <3>1. CASE i = n + 1
      BY <2>3, <3>1
    <3>2. CASE i \in 1 .. n
      <4>1. i - 1 \in 0 .. n /\ i \in 0 .. n
        BY <3>2
      <4> QED
        BY <2>2, <2>3, <3>2, <4>1
    <3>3. CASE i = 0
      BY <2>2, <2>3, <3>3 DEF AccStep
    <3> QED
      BY <3>1, <3>2, <3>3
  <2>5. h = [i \in 0 .. n + 1 |-> AccStep(s, limit, i, h[i - 1])]
    BY <2>4
  <2>6. Accumulators(s, limit, n + 1, h) /\ n + 1 \in Nat
    BY <2>5 DEF Accumulators
  <2> HIDE DEF h
  <2> QED
    BY <2>6
<1> HIDE DEF T
<1>3. m \in T
  BY <1>1, <1>2, CountUp
<1> QED
  BY <1>3 DEF T

(* The accumulator is the value of the digits, unless one of them is none  *)
(* or the value passes the limit: the test before a digit is appended      *)
(* gives up exactly when it should, without ever passing the limit itself. *)
LEMMA AccumulatedExact ==
  ASSUME NEW s \in Seq(STRING), NEW limit \in Nat, limit > 9
  PROVE  /\ AllDigits(s) => Numeral(s) \in Nat
         /\ Accumulated(s, limit)
              = IF AllDigits(s) /\ Numeral(s) <= limit THEN Numeral(s) ELSE -1
<1> DEFINE N == Len(s)
           P(g) == Values(s, N, g)
           Q(g) == Accumulators(s, limit, N, g)
           val == CHOOSE g : P(g)
           acc == CHOOSE g : Q(g)
<1>1. N \in Nat
  OBVIOUS
<1>2. Numeral(s) = val[N]
  BY Zenon DEF Numeral, Values, ValStep
<1>3. Accumulated(s, limit) = acc[N]
  BY Zenon DEF Accumulated, Accumulators, AccStep
<1>4. P(val)
  <2>1. \E g : P(g)
    BY <1>1, ValuesExist
  <2> HIDE DEF P
  <2> QED
    BY <2>1
<1>5. Q(acc)
  <2>1. \E g : Q(g)
    BY <1>1, AccumulatorsExist
  <2> HIDE DEF Q
  <2> QED
    BY <2>1
<1> HIDE DEF val, acc, N
<1>6. \A i \in 0 .. N : /\ val[i] = ValStep(s, i, val[i - 1])
                        /\ acc[i] = AccStep(s, limit, i, acc[i - 1])
  BY <1>4, <1>5 DEF Values, Accumulators
<1> DEFINE Digital(n) == \A i \in 1 .. n : s[i] \in Digit
           Good(n) == /\ Digital(n) => val[n] \in Nat
                      /\ acc[n] = IF Digital(n) /\ val[n] <= limit THEN val[n] ELSE -1
           T == {n \in Nat : n <= N => Good(n)}
<1>7. 0 \in T
  <2>1. val[0] = 0 /\ acc[0] = 0
    BY <1>1, <1>6 DEF ValStep, AccStep
  <2> QED
    BY <2>1
<1>8. ASSUME NEW n \in Nat, n \in T PROVE n + 1 \in T
  <2> SUFFICES ASSUME n + 1 <= N PROVE Good(n + 1)
    OBVIOUS
  <2> DEFINE d == DigitValue(s[n + 1])
  <2>1. n + 1 \in 0 .. N /\ n + 1 # 0 /\ n + 1 - 1 = n /\ n <= N
    BY <1>1
  <2>2. Good(n)
    BY <1>8, <2>1
  <2>3. val[n + 1] = val[n] * 10 + d
    BY <1>6, <2>1 DEF ValStep
  <2>4. acc[n + 1] = IF acc[n] = -1 \/ s[n + 1] \notin Digit THEN -1
                     ELSE Appended(acc[n], d, limit)
    BY <1>6, <2>1 DEF AccStep
  <2>5. Digital(n + 1) <=> Digital(n) /\ s[n + 1] \in Digit
    OBVIOUS
  <2>6. s[n + 1] \in Digit => d \in 0 .. 9
    BY DigitRange
  <2> HIDE DEF d, Digital
  <2>7. CASE ~ Digital(n + 1)
    <3>1. acc[n] = -1 \/ s[n + 1] \notin Digit
      BY <2>2, <2>5, <2>7
    <3> QED
      BY <2>4, <2>7, <3>1
  <2>8. CASE Digital(n + 1)
    <3>1. val[n] \in Nat /\ d \in 0 .. 9 /\ s[n + 1] \in Digit
      BY <2>2, <2>5, <2>6, <2>8
    <3>2. val[n + 1] \in Nat /\ val[n + 1] >= val[n]
      BY <2>3, <3>1
    <3>3. CASE val[n] > limit
      <4>1. acc[n] = -1 /\ ~ (val[n + 1] <= limit)
        BY <2>2, <2>5, <2>8, <3>1, <3>2, <3>3
      <4> QED
        BY <2>4, <3>2, <4>1
    <3>4. CASE ~ (val[n] > limit)
      <4>1. acc[n] = val[n] /\ acc[n] # -1
        BY <2>2, <2>5, <2>8, <3>1, <3>4
      <4>2. acc[n + 1] = IF val[n] > (limit - d) \div 10 THEN -1 ELSE val[n] * 10 + d
        BY <2>4, <3>1, <4>1 DEF Appended
      <4>3. val[n] > (limit - d) \div 10 <=> ~ (val[n] * 10 + d <= limit)
        <5> DEFINE v == val[n]
        <5>1. v \in Nat
          BY <3>1
        <5> HIDE DEF v
        <5>2. v > (limit - d) \div 10 <=> ~ (v * 10 + d <= limit)
          BY <3>1, <5>1
        <5> QED
          BY <5>2 DEF v
      <4> QED
        BY <2>3, <2>8, <3>2, <4>2, <4>3
    <3> QED
      BY <3>3, <3>4
  <2> QED
    BY <2>7, <2>8
<1>9. N \in T
  <2> HIDE DEF T
  <2> QED
    BY <1>1, <1>7, <1>8, CountUp
<1>10. Good(N)
  BY <1>1, <1>9
<1>11. Digital(N) <=> AllDigits(s)
  BY DEF AllDigits, N
<1> QED
  BY <1>2, <1>3, <1>10, <1>11

(* A token is a number exactly when it is digits after at most one sign    *)
(* and in the range of std::int64_t; then it has the value its digits say. *)
(* So no length of digits passes the limit unnoticed, and the least value, *)
(* whose magnitude std::int64_t lacks, is accepted.                        *)
THEOREM NumbersExact ==
  ASSUME NEW s \in Seq(STRING)
  PROVE  LET no       == [ok |-> FALSE, out |-> 0]
             yes(x)   == [ok |-> TRUE, out |-> x]
             digits   == s # <<>> /\ AllDigits(s)
         IN  /\ AllDigits(s) => Numeral(s) \in Nat
             /\ s = <<>> \/ s[1] \notin {"+", "-"}
                  => parseInt64Token(s) =
                       IF digits /\ Numeral(s) <= Int64Max THEN yes(Numeral(s)) ELSE no
             /\ parseInt64Token(<<"+">> \o s) =
                  IF digits /\ Numeral(s) <= Int64Max THEN yes(Numeral(s)) ELSE no
             /\ parseInt64Token(<<"-">> \o s) =
                  IF digits /\ -Numeral(s) >= -Int64Max - 1 THEN yes(-Numeral(s)) ELSE no
<1>1. Int64Max \in Nat /\ Int64Max > 9 /\ Int64Max + 1 \in Nat /\ Int64Max + 1 > 9
  BY LimitAssumption
<1>2. /\ AllDigits(s) => Numeral(s) \in Nat
      /\ Accumulated(s, Int64Max)
           = IF AllDigits(s) /\ Numeral(s) <= Int64Max THEN Numeral(s) ELSE -1
      /\ Accumulated(s, Int64Max + 1)
           = IF AllDigits(s) /\ Numeral(s) <= Int64Max + 1 THEN Numeral(s) ELSE -1
  BY <1>1, AccumulatedExact
<1>3. ASSUME s = <<>> \/ s[1] \notin {"+", "-"}
      PROVE  parseInt64Token(s)
               = IF s = <<>> \/ Accumulated(s, Int64Max) = -1 THEN [ok |-> FALSE, out |-> 0]
                 ELSE [ok |-> TRUE, out |-> Accumulated(s, Int64Max)]
  BY <1>3 DEF parseInt64Token
<1>4. ASSUME NEW c \in {"+", "-"}
      PROVE  /\ <<c>> \o s # <<>> /\ (<<c>> \o s)[1] = c /\ Tail(<<c>> \o s) = s
  BY <1>4
<1>5. parseInt64Token(<<"+">> \o s)
        = IF s = <<>> \/ Accumulated(s, Int64Max) = -1 THEN [ok |-> FALSE, out |-> 0]
          ELSE [ok |-> TRUE, out |-> Accumulated(s, Int64Max)]
  BY <1>4 DEF parseInt64Token
<1>6. parseInt64Token(<<"-">> \o s)
        = IF s = <<>> \/ Accumulated(s, Int64Max + 1) = -1 THEN [ok |-> FALSE, out |-> 0]
          ELSE [ok |-> TRUE, out |-> -Accumulated(s, Int64Max + 1)]
  <2> DEFINE t == <<"-">> \o s
             sign == IF t # <<>> /\ t[1] \in {"+", "-"} THEN t[1] ELSE ""
  <2>1. t # <<>> /\ t[1] = "-" /\ Tail(t) = s
    BY <1>4
  <2> HIDE DEF t
  <2>2. sign = "-" /\ sign # ""
    BY <2>1
  <2>3. parseInt64Token(t)
          = LET digits == IF sign = "" THEN t ELSE Tail(t)
                limit  == IF sign = "-" THEN Int64Max + 1 ELSE Int64Max
                acc    == Accumulated(digits, limit)
            IN  IF digits = <<>> \/ acc = -1 THEN [ok |-> FALSE, out |-> 0]
                ELSE [ok |-> TRUE, out |-> IF sign = "-" THEN -acc ELSE acc]
    BY DEF parseInt64Token
  <2> HIDE DEF sign
  <2> QED
    BY <2>1, <2>2, <2>3 DEF t
<1>7. AllDigits(s) => (Numeral(s) <= Int64Max + 1 <=> -Numeral(s) >= -Int64Max - 1)
  BY <1>1, <1>2
<1> DEFINE small == s # <<>> /\ AllDigits(s) /\ Numeral(s) <= Int64Max
           least == s # <<>> /\ AllDigits(s) /\ -Numeral(s) >= -Int64Max - 1
<1>8. /\ s = <<>> \/ Accumulated(s, Int64Max) = -1 <=> ~ small
      /\ small => Accumulated(s, Int64Max) = Numeral(s)
  BY <1>1, <1>2
<1>9. /\ s = <<>> \/ Accumulated(s, Int64Max + 1) = -1 <=> ~ least
      /\ least => Accumulated(s, Int64Max + 1) = Numeral(s)
  BY <1>1, <1>2, <1>7
<1> HIDE DEF small, least
<1>10. s = <<>> \/ s[1] \notin {"+", "-"}
         => parseInt64Token(s) = IF small THEN [ok |-> TRUE, out |-> Numeral(s)]
                                          ELSE [ok |-> FALSE, out |-> 0]
  BY <1>3, <1>8
<1>11. parseInt64Token(<<"+">> \o s) = IF small THEN [ok |-> TRUE, out |-> Numeral(s)]
                                               ELSE [ok |-> FALSE, out |-> 0]
  BY <1>5, <1>8
<1>12. parseInt64Token(<<"-">> \o s) = IF least THEN [ok |-> TRUE, out |-> -Numeral(s)]
                                               ELSE [ok |-> FALSE, out |-> 0]
  BY <1>6, <1>9
<1> QED
  BY <1>2, <1>10, <1>11, <1>12, Zenon DEF small, least

(* A token gives an integer. *)
LEMMA TokenInt ==
  ASSUME NEW token \in Seq(STRING)
  PROVE  parseInt64Token(token).out \in Int /\ parseInt64Token(token).ok \in BOOLEAN
<1> DEFINE sign   == IF token # <<>> /\ token[1] \in {"+", "-"} THEN token[1] ELSE ""
           digits == IF sign = "" THEN token ELSE Tail(token)
           limit  == IF sign = "-" THEN Int64Max + 1 ELSE Int64Max
           acc    == Accumulated(digits, limit)
<1>1. limit \in Nat /\ limit > 9
  BY LimitAssumption
<1>2. digits \in Seq(STRING)
  <2>1. CASE token = <<>>
    BY <2>1
  <2>2. CASE token # <<>>
    <3>1. Tail(token) \in Seq(STRING)
      BY <2>2
    <3> QED
      BY <3>1
  <2> QED
    BY <2>1, <2>2
<1>3. parseInt64Token(token) = IF digits = <<>> \/ acc = -1 THEN [ok |-> FALSE, out |-> 0]
                               ELSE [ok |-> TRUE, out |-> IF sign = "-" THEN -acc ELSE acc]
  BY DEF parseInt64Token
<1> HIDE DEF sign, digits, limit
<1>4. acc \in Int
  BY <1>1, <1>2, AccumulatedExact
<1> HIDE DEF acc
<1> QED
  BY <1>3, <1>4

-----------------------------------------------------------------------------
(* Elements.                                                               *)

Taken(e) == e.what \in {"value", "array"}

(* The fields of what is found. *)
LEMMA FoundFields ==
  /\ NeedMore.what = "kNeedMoreData" /\ Bad.what = "kError"
  /\ \A v, x : A(v, x).what = "value" /\ A(v, x).next = x
  /\ \A n, v, x : Found("array", n, v, x).what = "array" /\ Found("array", n, v, x).next = x
BY DEF NeedMore, Bad, A, Found

(* A bulk string takes its bytes and its line end and no more. *)
LEMMA BulkTaken ==
  ASSUME NEW buf \in Seq(STRING), NEW start \in Nat \ {0}, start <= Len(buf) + 1, NEW n \in Int,
         Taken(BulkString(buf, start, n))
  PROVE  LET next == BulkString(buf, start, n).next
         IN  next \in Nat /\ start <= next /\ next <= Len(buf) + 1
<1>1. CASE n = -1
  BY <1>1, FoundFields DEF BulkString
<1>2. CASE n # -1
  <2>1. /\ ~ (n < 0 \/ n > kMaxBulkSize) /\ ~ (Len(buf) - start + 1 < n + 2)
        /\ BulkString(buf, start, n).next = start + n + 2
    BY <1>2, FoundFields DEF BulkString, Taken
  <2> QED
    BY <2>1
<1> QED
  BY <1>1, <1>2

(* A bulk string of the prefix is one of the whole. *)
LEMMA BulkSame ==
  ASSUME NEW short, NEW long, Prefix(short, long), NEW start \in Nat \ {0}, NEW n \in Int
  PROVE  /\ BulkString(short, start, n).what # "kNeedMoreData"
              => BulkString(long, start, n) = BulkString(short, start, n)
         /\ Taken(BulkString(long, start, n)) /\ BulkString(long, start, n).next <= Len(short) + 1
              => BulkString(short, start, n) = BulkString(long, start, n)
<1>1. /\ short \in Seq(STRING) /\ long \in Seq(STRING) /\ Len(short) \in Nat
      /\ Len(long) \in Nat /\ Len(short) <= Len(long)
  BY DEF Prefix
<1>2. CASE n = -1 \/ n < 0 \/ n > kMaxBulkSize
  BY <1>2 DEF BulkString
<1>3. CASE ~ (n = -1 \/ n < 0 \/ n > kMaxBulkSize)
  <2> DEFINE room(b) == ~ (Len(b) - start + 1 < n + 2)
             rest(b) == IF SubSeq(b, start + n, start + n + 1) # CRLF THEN Bad
                        ELSE A([kBulkString |-> SubSeq(b, start, start + n - 1)], start + n + 2)
  <2>1. \A b : BulkString(b, start, n) = IF room(b) THEN rest(b) ELSE NeedMore
    BY <1>3 DEF BulkString
  <2>2. n \in Nat
    BY <1>3, LimitAssumption
  <2>3. room(short) => room(long)
    BY <1>1, <2>2
  <2>4. room(short) => rest(short) = rest(long)
    <3> SUFFICES ASSUME room(short) PROVE rest(short) = rest(long)
      OBVIOUS
    <3>1. /\ 1 <= start + n /\ start + n + 1 <= Len(short) /\ 1 <= start
          /\ start + n - 1 <= Len(short)
      BY <1>1, <2>2
    <3>2. /\ SubSeq(short, start + n, start + n + 1) = SubSeq(long, start + n, start + n + 1)
          /\ SubSeq(short, start, start + n - 1) = SubSeq(long, start, start + n - 1)
      BY <2>2, <3>1, PrefixPart
    <3> QED
      BY <3>2
  <2>5. room(long) /\ Taken(rest(long)) /\ rest(long).next <= Len(short) + 1 => room(short)
    <3>1. Taken(rest(long)) => rest(long).next = start + n + 2
      BY FoundFields DEF Taken
    <3> HIDE DEF rest
    <3> QED
      BY <1>1, <2>2, <3>1
  <2> HIDE DEF room, rest
  <2> QED
    BY <2>1, <2>3, <2>4, <2>5, FoundFields DEF Taken
<1> QED
  BY <1>2, <1>3

(* An array's line is read whole. *)
LEMMA ArrayTaken ==
  ASSUME NEW start, NEW n, NEW depth, Taken(Array(start, n, depth))
  PROVE  Array(start, n, depth).next = start
BY FoundFields DEF Array, Taken

(* What is taken at pos ends after pos and within the buffer. *)
LEMMA ElementTaken ==
  ASSUME NEW buf \in Seq(STRING), NEW pos \in 1 .. Len(buf), NEW depth,
         Taken(Element(buf, pos, depth))
  PROVE  LET next == Element(buf, pos, depth).next
         IN  next \in Nat /\ pos < next /\ next <= Len(buf) + 1
<1> DEFINE eol == findCrlf(buf, pos + 1)
           type == buf[pos]
           text == SubSeq(buf, pos + 1, eol - 1)
           num == parseInt64Token(text)
           start == eol + 2
           e == Decoded(buf, type, text, start, depth)
<1>1. eol \in Nat /\ eol # npos /\ pos + 1 <= eol /\ eol + 1 <= Len(buf)
      /\ Element(buf, pos, depth) = e
  <2>1. eol # npos /\ Element(buf, pos, depth) = e
    BY FoundFields DEF Element, Taken
  <2> QED
    BY <2>1, FirstCrlf
<1>2. start \in Nat \ {0} /\ pos < start /\ start <= Len(buf) + 1
  BY <1>1
<1>3. num.out \in Int /\ num.ok \in BOOLEAN
  <2>1. text \in Seq(STRING)
    BY <1>1
  <2> QED
    BY <2>1, TokenInt
<1> HIDE DEF eol, type, text, start
<1>4. Taken(e)
  BY <1>1
<1>5. CASE type \in {"+", "-"} \/ (num.ok /\ type = ":")
  <2>1. e.next = start
    BY <1>5, FoundFields DEF Decoded
  <2> QED
    BY <1>1, <1>2, <2>1
<1>6. CASE type \notin {"+", "-"} /\ ~ num.ok
  BY <1>4, <1>6, FoundFields DEF Decoded, Taken
<1>7. CASE num.ok /\ type = "$"
  <2>1. e = BulkString(buf, start, num.out)
    BY <1>7 DEF Decoded
  <2>2. e.next \in Nat /\ start <= e.next /\ e.next <= Len(buf) + 1
    BY <1>2, <1>3, <1>4, <2>1, BulkTaken
  <2> HIDE DEF e
  <2> QED
    BY <1>1, <1>2, <2>2
<1>8. CASE type \notin {"+", "-", ":", "$"} /\ num.ok
  <2>1. e = Array(start, num.out, depth)
    BY <1>8 DEF Decoded
  <2>2. e.next = start
    BY <1>4, <2>1, ArrayTaken
  <2> HIDE DEF e
  <2> QED
    BY <1>1, <1>2, <2>2
<1> HIDE DEF num
<1>9. num.ok \/ ~ num.ok
  OBVIOUS
<1> QED
  BY <1>5, <1>6, <1>7, <1>8, <1>9

(* What is found in the prefix is found in the whole, unless more is       *)
(* needed; and what is taken from the whole is taken from the prefix if it *)
(* is there.                                                               *)
LEMMA ElementSame ==
  ASSUME NEW short, NEW long, Prefix(short, long), NEW pos \in 1 .. Len(short), NEW depth
  PROVE  /\ Element(short, pos, depth).what # "kNeedMoreData"
              => Element(long, pos, depth) = Element(short, pos, depth)
         /\ Taken(Element(long, pos, depth)) /\ Element(long, pos, depth).next <= Len(short) + 1
              => Element(short, pos, depth) = Element(long, pos, depth)
<1> DEFINE s == findCrlf(short, pos + 1)
           l == findCrlf(long, pos + 1)
           type == short[pos]
           known == type \in {"+", "-", ":", "$", "*"}
           start == s + 2
           text == SubSeq(short, pos + 1, s - 1)
           S == Element(short, pos, depth)
           L == Element(long, pos, depth)
<1>1. /\ short \in Seq(STRING) /\ long \in Seq(STRING) /\ Len(short) \in Nat
      /\ Len(long) \in Nat /\ Len(short) <= Len(long) /\ pos \in 1 .. Len(long)
      /\ long[pos] = type /\ pos + 1 \in Nat \ {0} /\ type \in STRING
  BY DEF Prefix
<1>2. /\ s \in Nat /\ l \in Nat
      /\ s # npos => pos + 1 <= s /\ s + 1 <= Len(short)
      /\ s # npos => l = s
      /\ l # npos /\ l + 1 <= Len(short) => s = l
  BY <1>1, FirstCrlf, SameCrlf
<1>3. CASE ~ known
  BY <1>1, <1>3 DEF Element
<1>4. CASE known /\ s = npos
  <2>1. S = NeedMore
    BY <1>4 DEF Element
  <2>2. ASSUME Taken(L), L.next <= Len(short) + 1 PROVE FALSE
    <3>1. l # npos
      BY <1>1, <1>4, <2>2, FoundFields DEF Element, Taken
    <3>2. ~ (l + 1 <= Len(short))
      BY <1>2, <1>4, <3>1
    <3>3. l + 2 <= L.next
      <4> DEFINE x == SubSeq(long, pos + 1, l - 1)
                 num == parseInt64Token(x)
      <4>1. pos + 1 <= l /\ l + 1 <= Len(long)
        BY <1>1, <3>1, FirstCrlf
      <4>2. x \in Seq(STRING) /\ l + 2 \in Nat \ {0} /\ l + 2 <= Len(long) + 1
        BY <1>1, <1>2, <4>1
      <4>3. num.out \in Int /\ num.ok \in BOOLEAN
        BY <4>2, TokenInt
      <4>4. L = Decoded(long, type, x, l + 2, depth)
        BY <1>1, <1>4, <3>1 DEF Element
      <4> HIDE DEF x, L, l, type
      <4>5. CASE type \in {"+", "-"} \/ (num.ok /\ type = ":")
        <5>1. L.next = l + 2
          BY <4>4, <4>5, FoundFields DEF Decoded
        <5> QED
          BY <1>2, <5>1
      <4>6. CASE type \notin {"+", "-"} /\ ~ num.ok
        BY <2>2, <4>4, <4>6, FoundFields DEF Decoded, Taken
      <4>7. CASE num.ok /\ type = "$"
        <5>1. L = BulkString(long, l + 2, num.out)
          BY <4>4, <4>7 DEF Decoded
        <5> QED
          BY <1>1, <2>2, <4>2, <4>3, <5>1, BulkTaken
      <4>8. CASE type \notin {"+", "-", ":", "$"} /\ num.ok
        <5>1. L = Array(l + 2, num.out, depth)
          BY <4>4, <4>8 DEF Decoded
        <5>2. L.next = l + 2
          BY <2>2, <5>1, ArrayTaken
        <5> QED
          BY <1>2, <5>2
      <4> QED
        BY <4>3, <4>5, <4>6, <4>7, <4>8
    <3>4. L.next \in Nat
      BY <1>1, <2>2, ElementTaken
    <3> HIDE DEF L, l
    <3> QED
      BY <1>1, <1>2, <2>2, <3>2, <3>3, <3>4
  <2> QED
    BY <2>1, <2>2, FoundFields
<1>5. CASE known /\ s # npos
  <2>1. l = s /\ SubSeq(long, pos + 1, l - 1) = text /\ start \in Nat \ {0}
    <3>1. s \in Int /\ 1 <= pos + 1 /\ s - 1 <= Len(short) /\ pos + 1 \in Int /\ s - 1 \in Int
      BY <1>1, <1>2, <1>5
    <3>2. SubSeq(short, pos + 1, s - 1) = SubSeq(long, pos + 1, s - 1)
      BY <3>1, PrefixPart
    <3> QED
      BY <1>2, <1>5, <3>2
  <2>2. /\ S = Decoded(short, type, text, start, depth)
        /\ L = Decoded(long, type, text, start, depth)
    BY <1>1, <1>5, <2>1 DEF Element
  <2> DEFINE num == parseInt64Token(text)
  <2>3. num.out \in Int
    <3>1. text \in Seq(STRING)
      BY <1>1, <1>2, <1>5
    <3> QED
      BY <3>1, TokenInt
  <2> HIDE DEF S, L, start, text, type, s, l
  <2>4. CASE type \in {"+", "-", ":"} \/ ~ num.ok \/ type # "$"
    <3>1. S = L
      BY <2>2, <2>4 DEF Decoded
    <3> QED
      BY <3>1 DEF S, L
  <2>5. CASE num.ok /\ type = "$"
    <3>1. S = BulkString(short, start, num.out) /\ L = BulkString(long, start, num.out)
      BY <2>2, <2>5 DEF Decoded
    <3>2. /\ S.what # "kNeedMoreData" => L = S
          /\ Taken(L) /\ L.next <= Len(short) + 1 => S = L
      BY <2>1, <2>3, <3>1, BulkSame
    <3> QED
      BY <3>2 DEF S, L
  <2> QED
    BY <2>4, <2>5
<1> QED
  BY <1>3, <1>4, <1>5

-----------------------------------------------------------------------------
(* Turns of the loop.                                                      *)

Waiting == Verdict("kNeedMoreData", 0, NoValue)

(* At the head of the loop at position pos, and returned. *)
Running(at) == at.done = FALSE /\ at.verdict = Waiting

(* The fields of the loop's state. *)
LEMMA TurnFields ==
  /\ Start.done = FALSE /\ Start.verdict = Waiting /\ Start.pos = 1
  /\ \A p, s : /\ Continue(p, s).done = FALSE /\ Continue(p, s).verdict = Waiting
               /\ Continue(p, s).pos = p
  /\ \A v : Return(v).done = TRUE /\ Return(v).verdict = v
  /\ \A x, y, z : Verdict(x, y, z).result = x /\ Verdict(x, y, z).consumed = y
  /\ Waiting.result = "kNeedMoreData"
BY DEF Start, Continue, Return, Verdict, Waiting

(* An element is one of four things. *)
LEMMA ElementWhat ==
  ASSUME NEW buf, NEW pos, NEW depth
  PROVE  Element(buf, pos, depth).what \in {"kNeedMoreData", "kError", "value", "array"}
<1> DEFINE W == {"kNeedMoreData", "kError", "value", "array"}
<1>1. \A start, n : BulkString(buf, start, n).what \in W
  BY FoundFields DEF BulkString
<1>2. \A start, n : Array(start, n, depth).what \in W
  BY FoundFields DEF Array
<1>3. \A type, text, start : Decoded(buf, type, text, start, depth).what \in W
  BY <1>1, <1>2, FoundFields DEF Decoded
<1> QED
  BY <1>3, FoundFields DEF Element

(* A turn returns or moves on.  A value consumes what the turn took. *)
LEMMA TurnMoves ==
  ASSUME NEW buf \in Seq(STRING), NEW at, Running(at), at.pos \in 1 .. Len(buf) + 1
  PROVE  LET r == Turn(buf, at)
         IN  \/ /\ r.done = TRUE
                /\ r.verdict.result = "kReady" =>
                     /\ r.verdict.consumed \in Nat /\ at.pos <= r.verdict.consumed
                     /\ r.verdict.consumed <= Len(buf)
             \/ /\ Running(r)
                /\ r.pos \in Nat /\ at.pos < r.pos /\ r.pos <= Len(buf) + 1
<1> DEFINE e == Element(buf, at.pos, Len(at.stack))
           a == attachValue(e.value, at.stack)
           r == Turn(buf, at)
<1>1. ~ at.done
  BY DEF Running
<1>2. CASE at.pos > Len(buf)
  <2>1. r = Return(Verdict("kNeedMoreData", 0, NoValue))
    BY <1>1, <1>2 DEF Turn
  <2> QED
    BY <2>1, TurnFields
<1>3. CASE ~ (at.pos > Len(buf))
  <2>1. at.pos \in 1 .. Len(buf)
    BY <1>3
  <2>2. Taken(e) => e.next \in Nat /\ at.pos < e.next /\ e.next <= Len(buf) + 1
    BY <2>1, ElementTaken
  <2>3. e.what \in {"kNeedMoreData", "kError", "value", "array"}
    BY ElementWhat
  <2>4. r = IF e.what = "array"
            THEN Continue(e.next, Append(at.stack, [remaining |-> e.n, elements |-> <<>>]))
            ELSE IF e.what # "value" THEN Return(Verdict(e.what, 0, NoValue))
            ELSE IF a.root # <<>> THEN Return(Verdict("kReady", e.next - 1, a.root[1]))
            ELSE Continue(e.next, a.stack)
    BY <1>1, <1>3 DEF Turn
  <2> HIDE DEF e, a, r
  <2>5. CASE e.what = "array" \/ (e.what = "value" /\ ~ (a.root # <<>>))
    <3>1. Running(r) /\ r.pos = e.next
      BY <2>4, <2>5, TurnFields DEF Running
    <3> QED
      BY <2>2, <2>5, <3>1 DEF Taken, r
  <2>6. CASE e.what \in {"kNeedMoreData", "kError"}
    <3>1. r.done = TRUE /\ r.verdict.result # "kReady"
      BY <2>4, <2>6, TurnFields
    <3> QED
      BY <3>1 DEF r
  <2>7. CASE e.what = "value" /\ a.root # <<>>
    <3>1. r.done = TRUE /\ r.verdict.consumed = e.next - 1
      BY <2>4, <2>7, TurnFields
    <3>2. e.next \in Nat /\ at.pos < e.next /\ e.next <= Len(buf) + 1
      BY <2>2, <2>7 DEF Taken
    <3>3. e.next - 1 \in Nat /\ at.pos <= e.next - 1 /\ e.next - 1 <= Len(buf)
      BY <2>1, <3>2
    <3> QED
      BY <3>1, <3>3 DEF r
  <2> QED
    BY <2>3, <2>5, <2>6, <2>7
<1> QED
  BY <1>2, <1>3

(* The loop on the prefix asks for more. *)
Waits(at) == at.done = TRUE /\ at.verdict = Waiting

(* The loop has taken a byte that a buffer of n bytes lacks. *)
Beyond(at, n) ==
  \/ at.done = TRUE /\ (at.verdict.result = "kReady" => at.verdict.consumed > n)
  \/ at.done = FALSE /\ at.verdict = Waiting /\ at.pos > n + 1

(* One turn of both loops from the same state. *)
LEMMA TurnSame ==
  ASSUME NEW short, NEW long, Prefix(short, long),
         NEW at, Running(at), at.pos \in 1 .. Len(short) + 1
  PROVE  /\ Turn(short, at) = Turn(long, at) \/ Waits(Turn(short, at))
         /\ Turn(short, at) = Turn(long, at) \/ Beyond(Turn(long, at), Len(short))
<1> DEFINE d == Len(at.stack)
           S == Element(short, at.pos, d)
           L == Element(long, at.pos, d)
           n == Len(short)
<1>1. /\ short \in Seq(STRING) /\ long \in Seq(STRING) /\ n \in Nat /\ Len(long) \in Nat
      /\ n <= Len(long) /\ ~ at.done
  BY DEF Prefix, Running
<1>2. /\ at.pos \in 1 .. Len(long) + 1 /\ at.pos \in Nat
  BY <1>1
<1> DEFINE r == Turn(long, at)
<1>3. \/ r.done = TRUE /\ (r.verdict.result = "kReady" =>
                             r.verdict.consumed \in Nat /\ at.pos <= r.verdict.consumed)
      \/ Running(r) /\ r.pos \in Nat /\ at.pos < r.pos
  BY <1>1, <1>2, TurnMoves
<1>4. CASE at.pos > n
  <2>1. Turn(short, at) = Return(Waiting)
    BY <1>1, <1>4 DEF Turn, Waiting
  <2>2. Waits(Turn(short, at))
    BY <2>1, TurnFields DEF Waits
  <2> HIDE DEF r
  <2>3. Beyond(r, n)
    BY <1>1, <1>2, <1>3, <1>4 DEF Beyond, Running
  <2> QED
    BY <2>2, <2>3 DEF r
<1>5. CASE ~ (at.pos > n)
  <2>1. at.pos \in 1 .. n /\ ~ (at.pos > Len(long))
    BY <1>1, <1>2, <1>5
  <2>2. /\ S.what # "kNeedMoreData" => L = S
        /\ Taken(L) /\ L.next <= n + 1 => S = L
    BY <2>1, ElementSame
  <2>3. S = L => Turn(short, at) = Turn(long, at)
    BY <1>1, <1>5, <2>1 DEF Turn
  <2>4. ASSUME S.what = "kNeedMoreData" PROVE Waits(Turn(short, at))
    <3>1. Turn(short, at) = Return(Verdict(S.what, 0, NoValue))
      BY <1>1, <1>5, <2>4 DEF Turn
    <3> QED
      BY <2>4, <3>1, TurnFields DEF Waits, Waiting
  <2>5. ASSUME ~ (Taken(L) /\ L.next <= n + 1) PROVE Beyond(r, n)
    <3> DEFINE a == attachValue(L.value, at.stack)
    <3>1. r = IF L.what = "array"
              THEN Continue(L.next, Append(at.stack, [remaining |-> L.n, elements |-> <<>>]))
              ELSE IF L.what # "value" THEN Return(Verdict(L.what, 0, NoValue))
              ELSE IF a.root # <<>> THEN Return(Verdict("kReady", L.next - 1, a.root[1]))
              ELSE Continue(L.next, a.stack)
      BY <1>1, <2>1 DEF Turn
    <3>2. Taken(L) => L.next \in Nat
      <4>1. at.pos \in 1 .. Len(long)
        BY <1>1, <2>1
      <4> QED
        BY <1>1, <4>1, ElementTaken
    <3>3. L.what \in {"kNeedMoreData", "kError", "value", "array"}
      BY ElementWhat
    <3> HIDE DEF L, a, r
    <3>4. CASE L.what \in {"kNeedMoreData", "kError"}
      BY <3>1, <3>4, TurnFields DEF Beyond
    <3>5. CASE L.what = "array" \/ (L.what = "value" /\ ~ (a.root # <<>>))
      <4>1. r.done = FALSE /\ r.verdict = Waiting /\ r.pos = L.next
        BY <3>1, <3>5, TurnFields
      <4>2. L.next > n + 1
        BY <1>1, <2>5, <3>2, <3>5 DEF Taken
      <4> QED
        BY <4>1, <4>2 DEF Beyond
    <3>6. CASE L.what = "value" /\ a.root # <<>>
      <4>1. r.done = TRUE /\ r.verdict.consumed = L.next - 1
        BY <3>1, <3>6, TurnFields
      <4>2. L.next - 1 > n
        BY <1>1, <2>5, <3>2, <3>6 DEF Taken
      <4> QED
        BY <4>1, <4>2 DEF Beyond
    <3> QED
      BY <3>3, <3>4, <3>5, <3>6
  <2> HIDE DEF S, L
  <2> QED
    BY <2>2, <2>3, <2>4, <2>5
<1> QED
  BY <1>4, <1>5

(* Once beyond, always beyond. *)
LEMMA TurnBeyond ==
  ASSUME NEW buf \in Seq(STRING), NEW n \in Nat, NEW at, Beyond(at, n),
         at.done = FALSE => at.pos \in 1 .. Len(buf) + 1
  PROVE  Beyond(Turn(buf, at), n)
<1> DEFINE r == Turn(buf, at)
<1>1. CASE at.done = TRUE
  <2>1. Turn(buf, at) = at
    BY <1>1 DEF Turn
  <2> QED
    BY <2>1
<1>2. CASE at.done = FALSE
  <2>1. Running(at) /\ at.pos > n + 1 /\ at.pos \in 1 .. Len(buf) + 1
    BY <1>2 DEF Beyond, Running
  <2>2. \/ r.done = TRUE /\ (r.verdict.result = "kReady" =>
                               r.verdict.consumed \in Nat /\ at.pos <= r.verdict.consumed)
        \/ Running(r) /\ r.pos \in Nat /\ at.pos < r.pos
    BY <2>1, TurnMoves
  <2> HIDE DEF r
  <2>3. Beyond(r, n)
    BY <2>1, <2>2 DEF Beyond, Running
  <2> QED
    BY <2>3 DEF r
<1> QED
  BY <1>1, <1>2 DEF Beyond

-----------------------------------------------------------------------------
(* Whole runs of the loop.                                                 *)

RunStep(buf, i, before) == IF i = 0 THEN Start ELSE Turn(buf, before)

Runs(buf, n, g) == g = [i \in 0 .. n |-> RunStep(buf, i, g[i - 1])]

(* The states of the loop, turn by turn. *)
Run(buf) == CHOOSE g : Runs(buf, Len(buf) + 1, g)

(* The loop can be run for any number of turns. *)
LEMMA RunsExist ==
  ASSUME NEW buf, NEW m \in Nat
  PROVE  \E g : Runs(buf, m, g)
<1> DEFINE T == {n \in Nat : \E g : Runs(buf, n, g)}
<1>1. 0 \in T
  <2> DEFINE g == [i \in {0} |-> Start]
  <2>1. 0 .. 0 = {0}
    OBVIOUS
  <2>2. g = [i \in {0} |-> RunStep(buf, i, g[i - 1])]
    BY DEF RunStep
  <2> QED
    BY <2>1, <2>2 DEF Runs
<1>2. ASSUME NEW n \in Nat, n \in T PROVE n + 1 \in T
  <2>1. PICK g : Runs(buf, n, g)
    BY <1>2
  <2> DEFINE h == [i \in 0 .. n + 1 |-> IF i = n + 1 THEN RunStep(buf, i, g[n]) ELSE g[i]]
  <2>2. \A i \in 0 .. n : g[i] = RunStep(buf, i, g[i - 1])
    BY <2>1 DEF Runs
  <2>3. \A i \in 0 .. n : h[i] = g[i]
    OBVIOUS
  <2>4. ASSUME NEW i \in 0 .. n + 1 PROVE h[i] = RunStep(buf, i, h[i - 1])
    <3>1. CASE i = n + 1
      BY <2>3, <3>1
    <3>2. CASE i \in 1 .. n
      <4>1. i - 1 \in 0 .. n /\ i \in 0 .. n
        BY <3>2
      <4> QED
        BY <2>2, <2>3, <3>2, <4>1
    <3>3. CASE i = 0
      BY <2>2, <2>3, <3>3 DEF RunStep
    <3> QED
      BY <3>1, <3>2, <3>3
  <2>5. h = [i \in 0 .. n + 1 |-> RunStep(buf, i, h[i - 1])]
    BY <2>4
  <2>6. Runs(buf, n + 1, h) /\ n + 1 \in Nat
    BY <2>5 DEF Runs
  <2> HIDE DEF h
  <2> QED
    BY <2>6
<1> HIDE DEF T
<1>3. m \in T
  BY <1>1, <1>2, CountUp
<1> QED
  BY <1>3 DEF T

(* A run goes from Start, turn by turn; parse gives its last verdict. *)
LEMMA RunTurns ==
  ASSUME NEW buf \in Seq(STRING)
  PROVE  /\ Run(buf)[0] = Start
         /\ \A i \in 0 .. Len(buf) : Run(buf)[i + 1] = Turn(buf, Run(buf)[i])
         /\ parse(buf) = Run(buf)[Len(buf) + 1].verdict
<1> DEFINE N == Len(buf) + 1
           P(g) == Runs(buf, N, g)
<1>1. N \in Nat
  OBVIOUS
<1>2. parse(buf) = Run(buf)[N].verdict
  BY Zenon DEF parse, Run, Runs, RunStep
<1>3. P(Run(buf))
  <2>1. \E g : P(g)
    BY <1>1, RunsExist
  <2>2. Run(buf) = CHOOSE g : P(g)
    BY DEF Run
  <2> HIDE DEF P
  <2> QED
    BY <2>1, <2>2
<1> DEFINE r == Run(buf)
<1>4. \A i \in 0 .. N : r[i] = RunStep(buf, i, r[i - 1])
  BY <1>1, <1>3 DEF Runs
<1> HIDE DEF r
<1>5. r[0] = Start
  BY <1>1, <1>4 DEF RunStep
<1>6. ASSUME NEW i \in 0 .. Len(buf) PROVE r[i + 1] = Turn(buf, r[i])
  <2>1. i + 1 \in 0 .. N /\ i + 1 # 0 /\ (i + 1) - 1 = i
    OBVIOUS
  <2> HIDE DEF N
  <2>2. r[i + 1] = RunStep(buf, i + 1, r[(i + 1) - 1])
    BY <1>4, <2>1
  <2> QED
    BY <2>1, <2>2 DEF RunStep
<1> QED
  BY <1>2, <1>5, <1>6 DEF r

(* After i turns: returned, or i bytes or more taken. *)
Sound(buf, i, at) ==
  \/ /\ at.done = TRUE
     /\ at.verdict.result = "kReady" =>
          at.verdict.consumed \in Nat /\ at.verdict.consumed <= Len(buf)
  \/ Running(at) /\ at.pos \in Nat /\ i + 1 <= at.pos /\ at.pos <= Len(buf) + 1

(* Every state of a run is sound. *)
LEMMA RunSound ==
  ASSUME NEW buf \in Seq(STRING), NEW i \in 0 .. Len(buf) + 1
  PROVE  Sound(buf, i, Run(buf)[i])
<1> DEFINE r == Run(buf)
           T == {n \in Nat : n <= Len(buf) + 1 => Sound(buf, n, r[n])}
<1>1. Len(buf) \in Nat
  OBVIOUS
<1>2. r[0] = Start /\ \A n \in 0 .. Len(buf) : r[n + 1] = Turn(buf, r[n])
  BY RunTurns
<1> HIDE DEF r
<1>3. 0 \in T
  BY <1>1, <1>2, TurnFields DEF Sound, Running
<1>4. ASSUME NEW n \in Nat, n \in T PROVE n + 1 \in T
  <2> SUFFICES ASSUME n + 1 <= Len(buf) + 1 PROVE Sound(buf, n + 1, r[n + 1])
    OBVIOUS
  <2>1. r[n + 1] = Turn(buf, r[n]) /\ Sound(buf, n, r[n])
    BY <1>1, <1>2, <1>4
  <2>2. CASE r[n].done = TRUE
    <3>1. r[n + 1] = r[n]
      BY <2>1, <2>2 DEF Turn
    <3> QED
      BY <2>1, <2>2, <3>1 DEF Sound, Running
  <2>3. CASE ~ (r[n].done = TRUE)
    <3> DEFINE at == r[n]
               t == Turn(buf, at)
    <3>1. Running(at) /\ at.pos \in Nat /\ n + 1 <= at.pos /\ at.pos <= Len(buf) + 1
      BY <2>1, <2>3 DEF Sound
    <3>2. at.pos \in 1 .. Len(buf) + 1
      BY <1>1, <3>1
    <3>3. \/ /\ t.done = TRUE
             /\ t.verdict.result = "kReady" =>
                  /\ t.verdict.consumed \in Nat /\ at.pos <= t.verdict.consumed
                  /\ t.verdict.consumed <= Len(buf)
          \/ /\ Running(t)
             /\ t.pos \in Nat /\ at.pos < t.pos /\ t.pos <= Len(buf) + 1
      BY <3>1, <3>2, TurnMoves
    <3> HIDE DEF at, t
    <3>4. Sound(buf, n + 1, t)
      BY <1>1, <3>1, <3>3 DEF Sound
    <3> QED
      BY <2>1, <3>4 DEF at, t
  <2> QED
    BY <2>2, <2>3
<1> HIDE DEF T
<1>5. i \in T
  BY <1>1, <1>3, <1>4, CountUp
<1> QED
  BY <1>1, <1>5 DEF T, r

(* The turns are enough: the loop has returned after the last of them. *)
LEMMA RunOver ==
  ASSUME NEW buf \in Seq(STRING)
  PROVE  /\ Run(buf)[Len(buf) + 1].done = TRUE
         /\ parse(buf).result = "kReady" =>
              parse(buf).consumed \in Nat /\ parse(buf).consumed <= Len(buf)
<1> DEFINE at == Run(buf)[Len(buf) + 1]
<1>1. Len(buf) \in Nat /\ Len(buf) + 1 \in 0 .. Len(buf) + 1
  OBVIOUS
<1>2. Sound(buf, Len(buf) + 1, at)
  BY <1>1, RunSound
<1>3. parse(buf) = at.verdict
  BY RunTurns
<1> HIDE DEF at
<1>4. at.done = TRUE /\ (at.verdict.result = "kReady" =>
                           at.verdict.consumed \in Nat /\ at.verdict.consumed <= Len(buf))
  BY <1>1, <1>2 DEF Sound
<1> QED
  BY <1>3, <1>4 DEF at

(* What has returned stays so, and what is beyond stays beyond. *)
LEMMA RunStays ==
  ASSUME NEW buf \in Seq(STRING), NEW i \in 0 .. Len(buf) + 1, NEW n \in Nat
  PROVE  LET r == Run(buf)
             last == r[Len(buf) + 1]
         IN  /\ r[i].done = TRUE => last = r[i]
             /\ Beyond(r[i], n) => Beyond(last, n)
<1> DEFINE r == Run(buf)
           N == Len(buf)
           Keeps(j) == /\ r[i].done = TRUE => r[j] = r[i]
                       /\ Beyond(r[i], n) => Beyond(r[j], n)
           T == {k \in Nat : i + k <= N + 1 => Keeps(i + k)}
<1>1. N \in Nat /\ i \in Nat /\ i <= N + 1
  OBVIOUS
<1>2. \A k \in 0 .. N : r[k + 1] = Turn(buf, r[k])
  BY RunTurns
<1>3. \A k \in 0 .. N + 1 : Sound(buf, k, r[k])
  BY RunSound
<1> HIDE DEF r, N
<1>4. 0 \in T
  BY <1>1
<1>5. ASSUME NEW k \in Nat, k \in T PROVE k + 1 \in T
  <2> HIDE DEF Keeps
  <2> SUFFICES ASSUME i + (k + 1) <= N + 1 PROVE Keeps(i + (k + 1))
    OBVIOUS
  <2>1. i + k \in 0 .. N /\ i + k \in 0 .. N + 1 /\ i + (k + 1) = (i + k) + 1
    BY <1>1
  <2>2. r[i + (k + 1)] = Turn(buf, r[i + k])
    BY <1>2, <2>1
  <2>3. Keeps(i + k)
    BY <1>1, <1>5, <2>1
  <2>4. r[i].done = TRUE => r[i + (k + 1)] = r[i]
    BY <2>2, <2>3 DEF Turn, Keeps
  <2>5. ASSUME Beyond(r[i], n) PROVE Beyond(r[i + (k + 1)], n)
    <3> DEFINE at == r[i + k]
    <3>1. Beyond(at, n) /\ Sound(buf, i + k, at)
      BY <1>3, <2>1, <2>3, <2>5 DEF Keeps
    <3> HIDE DEF at
    <3>2. at.done = FALSE => at.pos \in 1 .. Len(buf) + 1
      BY <1>1, <2>1, <3>1 DEF Sound, N
    <3>3. Beyond(Turn(buf, at), n)
      BY <3>1, <3>2, TurnBeyond
    <3> QED
      BY <2>2, <3>3 DEF at
  <2> QED
    BY <2>4, <2>5 DEF Keeps
<1> HIDE DEF T
<1>6. (N + 1) - i \in T
  <2>1. (N + 1) - i \in Nat
    BY <1>1
  <2> QED
    BY <1>4, <1>5, <2>1, CountUp
<1>7. i + ((N + 1) - i) = N + 1
  BY <1>1
<1>8. /\ r[i].done = TRUE => r[N + 1] = r[i]
      /\ Beyond(r[i], n) => Beyond(r[N + 1], n)
  BY <1>1, <1>6, <1>7 DEF T
<1> QED
  BY <1>8 DEF r, N

(* The runs on a prefix and on the whole agree until the one asks for more *)
(* and the other has taken a byte beyond the prefix.                       *)
LEMMA RunsAgree ==
  ASSUME NEW short, NEW long, Prefix(short, long)
  PROVE  LET g == Run(short)[Len(short) + 1]
             h == Run(long)[Len(short) + 1]
         IN  g = h \/ (Waits(g) /\ Beyond(h, Len(short)))
<1> DEFINE g == Run(short)
           h == Run(long)
           N == Len(short)
           Agree(i) == g[i] = h[i] \/ (Waits(g[i]) /\ Beyond(h[i], N))
           T == {i \in Nat : i <= N + 1 => Agree(i)}
<1>1. /\ short \in Seq(STRING) /\ long \in Seq(STRING)
      /\ N \in Nat /\ Len(long) \in Nat /\ N <= Len(long)
  BY DEF Prefix
<1>2. /\ g[0] = Start /\ h[0] = Start
      /\ \A i \in 0 .. N : g[i + 1] = Turn(short, g[i])
      /\ \A i \in 0 .. Len(long) : h[i + 1] = Turn(long, h[i])
  BY <1>1, RunTurns
<1>3. /\ \A i \in 0 .. N + 1 : Sound(short, i, g[i])
      /\ \A i \in 0 .. Len(long) + 1 : Sound(long, i, h[i])
  BY <1>1, RunSound
<1> HIDE DEF g, h
<1>4. 0 \in T
  BY <1>2
<1>5. ASSUME NEW i \in Nat, i \in T PROVE i + 1 \in T
  <2> SUFFICES ASSUME i + 1 <= N + 1 PROVE Agree(i + 1)
    OBVIOUS
  <2>1. i \in 0 .. N /\ i \in 0 .. N + 1 /\ i \in 0 .. Len(long) /\ i \in 0 .. Len(long) + 1
    BY <1>1
  <2>2. Agree(i)
    BY <1>1, <1>5
  <2>3. g[i + 1] = Turn(short, g[i]) /\ h[i + 1] = Turn(long, h[i])
    BY <1>2, <2>1
  <2>4. Sound(short, i, g[i]) /\ Sound(long, i, h[i])
    BY <1>3, <2>1
  <2>5. CASE g[i] = h[i] /\ g[i].done = TRUE
    <3>1. g[i + 1] = g[i] /\ h[i + 1] = h[i]
      BY <2>3, <2>5 DEF Turn
    <3> QED
      BY <2>5, <3>1
  <2>6. CASE g[i] = h[i] /\ ~ (g[i].done = TRUE)
    <3> DEFINE at == g[i]
    <3>1. Running(at) /\ at.pos \in Nat /\ 1 <= at.pos /\ at.pos <= N + 1
      BY <1>1, <2>1, <2>4, <2>6 DEF Sound
    <3>2. at.pos \in 1 .. N + 1
      BY <1>1, <3>1
    <3>3. /\ Turn(short, at) = Turn(long, at) \/ Waits(Turn(short, at))
          /\ Turn(short, at) = Turn(long, at) \/ Beyond(Turn(long, at), N)
      BY <3>1, <3>2, TurnSame
    <3> QED
      BY <2>3, <2>6, <3>3
  <2>7. CASE Waits(g[i]) /\ Beyond(h[i], N)
    <3>1. g[i + 1] = g[i]
      BY <2>3, <2>7 DEF Turn, Waits
    <3> DEFINE at == h[i]
    <3>2. at.done = FALSE => at.pos \in 1 .. Len(long) + 1
      BY <1>1, <2>1, <2>4 DEF Sound
    <3>3. Beyond(Turn(long, at), N)
      BY <1>1, <2>7, <3>2, TurnBeyond
    <3> QED
      BY <2>3, <2>7, <3>1, <3>3
  <2> QED
    BY <2>2, <2>5, <2>6, <2>7
<1> HIDE DEF T
<1>6. N + 1 \in T
  BY <1>1, <1>4, <1>5, CountUp
<1>7. Agree(N + 1)
  BY <1>1, <1>6 DEF T
<1> QED
  BY <1>7 DEF g, h

(* A verdict on a prefix is the verdict on the whole. *)
LEMMA ParseStable ==
  ASSUME NEW short, NEW long, Prefix(short, long),
         parse(short).result # "kNeedMoreData"
  PROVE  parse(long) = parse(short)
<1> DEFINE N == Len(short) + 1
           g == Run(short)[N]
           h == Run(long)[N]
           last == Run(long)[Len(long) + 1]
<1>1. /\ short \in Seq(STRING) /\ long \in Seq(STRING) /\ N \in 0 .. Len(long) + 1
  BY DEF Prefix
<1>2. parse(short) = g.verdict /\ parse(long) = last.verdict /\ g.done = TRUE
  BY <1>1, RunTurns, RunOver
<1>3. g = h \/ Waits(g)
  BY RunsAgree
<1>4. h.done = TRUE => last = h
  BY <1>1, RunStays
<1> HIDE DEF g, h, last
<1>5. ~ Waits(g)
  BY <1>2, TurnFields DEF Waits
<1> QED
  BY <1>2, <1>3, <1>4, <1>5

(* A value that a byte more makes ready consumes that byte, and no other   *)
(* after it.                                                               *)
LEMMA ParsePrompt ==
  ASSUME NEW short, NEW long, Prefix(short, long), Len(long) = Len(short) + 1,
         parse(short).result = "kNeedMoreData", parse(long).result = "kReady"
  PROVE  parse(long).consumed = Len(long)
<1> DEFINE n == Len(short)
           g == Run(short)[n + 1]
           h == Run(long)[n + 1]
           last == Run(long)[Len(long) + 1]
<1>1. /\ short \in Seq(STRING) /\ long \in Seq(STRING) /\ n \in Nat
      /\ n + 1 \in 0 .. Len(long) + 1
  BY DEF Prefix
<1>2. /\ parse(short) = g.verdict /\ parse(long) = last.verdict
      /\ g.done = TRUE /\ last.done = TRUE
      /\ parse(long).consumed \in Nat /\ parse(long).consumed <= Len(long)
  BY <1>1, RunTurns, RunOver
<1>3. g = h \/ Beyond(h, n)
  BY RunsAgree
<1>4. (h.done = TRUE => last = h) /\ (Beyond(h, n) => Beyond(last, n))
  BY <1>1, RunStays
<1> HIDE DEF g, h, last
<1>5. g # h
  BY <1>2, <1>4
<1>6. Beyond(last, n)
  BY <1>3, <1>4, <1>5
<1>7. parse(long).consumed > n
  BY <1>2, <1>6 DEF Beyond
<1> QED
  BY <1>1, <1>2, <1>7

-----------------------------------------------------------------------------
(* The buffer.                                                             *)

(* The verdict is that of the bytes that have arrived. *)
Current ==
  /\ case \in Case
  /\ received \in 0 .. Len(case.stream)
  /\ verdict = parse(SubSeq(case.stream, 1, received))

(* The verdict is current. *)
LEMMA StaysCurrent == Spec => []Current
<1>1. Init => Current
  <2> SUFFICES ASSUME Init PROVE Current
    OBVIOUS
  <2>1. case.stream \in Seq(STRING)
    BY CaseAssumption DEF Init
  <2>2. SubSeq(case.stream, 1, 0) = <<>>
    BY <2>1
  <2>3. verdict = parse(SubSeq(case.stream, 1, received))
    BY <2>2, Zenon DEF Init
  <2> QED
    BY <2>1, <2>3 DEF Init, Current
<1>2. Current /\ [Next]_vars => Current'
  <2> SUFFICES ASSUME Current, [Next]_vars PROVE Current'
    OBVIOUS
  <2>1. case.stream \in Seq(STRING)
    BY CaseAssumption DEF Current
  <2>2. CASE Receive
    BY <2>1, <2>2 DEF Receive, Current
  <2>3. CASE UNCHANGED vars
    BY <2>3 DEF vars, Current
  <2> QED
    BY <2>2, <2>3 DEF Next
<1> QED
  BY <1>1, <1>2, PTL DEF Spec

(* A byte more. *)
LEMMA ReceiveMore ==
  ASSUME Current, Receive
  PROVE  LET short == SubSeq(case.stream, 1, received)
             long == SubSeq(case.stream, 1, received + 1)
         IN  /\ Prefix(short, long) /\ Len(long) = Len(short) + 1 /\ Len(long) = received'
             /\ verdict = parse(short) /\ verdict' = parse(long)
<1>1. case.stream \in Seq(STRING)
  BY CaseAssumption DEF Current
<1> QED
  BY <1>1 DEF Current, Receive, Prefix

(* A verdict of parse is final, for every stream and every way it arrives  *)
(* (VerdictStable).                                                        *)
THEOREM VerdictsFinal == Spec => VerdictStable
<1>1. Current /\ [Next]_vars
        => [verdict.result # "kNeedMoreData" => verdict' = verdict]_vars
  <2> SUFFICES ASSUME Current, Receive, verdict.result # "kNeedMoreData"
               PROVE  verdict' = verdict
    BY DEF Next
  <2> QED
    BY ReceiveMore, ParseStable
<1> QED
  BY <1>1, StaysCurrent, PTL DEF Spec, VerdictStable

(* A value is ready at its last byte and consumes up to it, for every      *)
(* stream (ReadyAtLastByte).                                               *)
THEOREM ValuesPrompt == Spec => ReadyAtLastByte
<1>1. Current /\ [Next]_vars
        => [ verdict.result = "kNeedMoreData" /\ verdict'.result = "kReady"
               => verdict'.consumed = received' ]_vars
  <2> SUFFICES ASSUME Current, Receive,
                      verdict.result = "kNeedMoreData", verdict'.result = "kReady"
               PROVE  verdict'.consumed = received'
    BY DEF Next
  <2> QED
    BY ReceiveMore, ParsePrompt
<1> QED
  BY <1>1, StaysCurrent, PTL DEF Spec, ReadyAtLastByte
=============================================================================
