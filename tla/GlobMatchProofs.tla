--------------------------- MODULE GlobMatchProofs ---------------------------
(***************************************************************************)
(* glob_match gives what matching means, for every pattern and every name, *)
(* and takes no more turns than the two lengths allow.                     *)
(*                                                                         *)
(* The loop keeps the last star only.  That this is enough is the second   *)
(* half of LastStar: wherever that star is made to end, what has been      *)
(* compared since can be passed over again, so every match from there on   *)
(* is one that the next star can reach as well.                            *)
(***************************************************************************)
EXTENDS GlobMatch, WellFoundedInduction, TLAPS

-----------------------------------------------------------------------------
(* Matching is defined by recursion over the pattern.                      *)

(* One entry of the table: the positions for i, given those for i + 1. *)
Entry(p, t, i, next) ==
  IF i > Len(p) THEN {Len(t) + 1}
  ELSE {j \in 1 .. Len(t) + 1 :
          IF p[i] = "*" THEN \E k \in next : k >= j
          ELSE j <= Len(t) /\ p[i] \in {"?", t[j]} /\ j + 1 \in next}

(* The table for the positions of p from b on satisfies its equation. *)
Table(p, t, b, g) == g = [i \in b .. Len(p) + 1 |-> Entry(p, t, i, g[i + 1])]

(* A set of naturals that has 0 and every successor of its elements. *)
LEMMA Induction ==
  ASSUME NEW T, 0 \in T, \A n \in Nat : n \in T => n + 1 \in T
  PROVE  Nat \subseteq T
<1> SUFFICES ASSUME Nat \ T # {} PROVE FALSE
  OBVIOUS
<1> DEFINE S == Nat \ T
<1>1. IsWellFoundedOn(OpToRel(<, Nat), Nat) /\ S \subseteq Nat /\ S # {}
  BY NatLessThanWellFounded
<1> HIDE DEF S
<1>2. PICK x \in S : \A y \in S : ~ (<<y, x>> \in OpToRel(<, Nat))
  BY <1>1, WFMin
<1>3. \A y \in S : ~ (y < x)
  BY <1>1, <1>2 DEF OpToRel
<1>4. x \in Nat /\ x \notin T /\ x # 0
  BY DEF S
<1>5. x - 1 \in T
  BY <1>3, <1>4 DEF S
<1> QED
  BY <1>4, <1>5

(* There is such a table, built from the end of the pattern. *)
LEMMA TableExists ==
  ASSUME NEW p, Len(p) \in Nat, NEW t
  PROVE  \E g : Table(p, t, 1, g)
<1> DEFINE L == Len(p)
           T == {n \in Nat : n <= L => \E g : Table(p, t, L + 1 - n, g)}
<1>1. 0 \in T
  <2> DEFINE g == [i \in {L + 1} |-> Entry(p, t, i, {})]
  <2>1. (L + 1 - 0) .. (L + 1) = {L + 1}
    OBVIOUS
  <2>2. \A x : Entry(p, t, L + 1, x) = {Len(t) + 1}
    BY DEF Entry
  <2>3. g = [i \in {L + 1} |-> Entry(p, t, i, g[i + 1])]
    BY <2>2
  <2> QED
    BY <2>1, <2>3 DEF Table
<1>2. ASSUME NEW n \in Nat, n \in T PROVE n + 1 \in T
  <2> SUFFICES ASSUME n + 1 <= L PROVE \E g : Table(p, t, L + 1 - (n + 1), g)
    OBVIOUS
  <2>1. PICK g : Table(p, t, L + 1 - n, g)
    BY <1>2
  <2> DEFINE b == L + 1 - n
             h == [i \in (b - 1) .. (L + 1) |->
                     IF i = b - 1 THEN Entry(p, t, i, g[i + 1]) ELSE g[i]]
  <2>2. b \in Int /\ b <= L + 1
    OBVIOUS
  <2>3. \A i \in b .. L + 1 : g[i] = Entry(p, t, i, g[i + 1])
    BY <2>1 DEF Table
  <2> HIDE DEF b
  <2>4. \A i \in (b - 1) .. L : h[i + 1] = g[i + 1]
    BY <2>2
  <2>5. \A x, y : Entry(p, t, L + 1, x) = Entry(p, t, L + 1, y)
    BY DEF Entry
  <2>6. ASSUME NEW i \in (b - 1) .. (L + 1) PROVE h[i] = Entry(p, t, i, h[i + 1])
    <3>1. CASE i = b - 1
      BY <2>2, <2>4, <3>1
    <3>2. CASE i \in b .. L
      BY <2>2, <2>3, <2>4, <3>2
    <3>3. CASE i = L + 1
      BY <2>2, <2>3, <2>5, <3>3
    <3> QED
      BY <2>2, <3>1, <3>2, <3>3
  <2>7. h = [i \in (b - 1) .. (L + 1) |-> Entry(p, t, i, h[i + 1])]
    BY <2>6
  <2>8. L + 1 - (n + 1) = b - 1
    BY DEF b
  <2> QED
    BY <2>7, <2>8 DEF Table
<1> HIDE DEF T
<1>3. L \in T
  BY <1>1, <1>2, Induction
<1>4. L + 1 - L = 1
  OBVIOUS
<1> QED
  BY <1>3, <1>4 DEF T

(* Hence Matching satisfies it. *)
LEMMA MatchingEquation ==
  ASSUME NEW p, Len(p) \in Nat, NEW t, NEW i \in 1 .. Len(p) + 1
  PROVE  Matching(p, t)[i] = Entry(p, t, i, Matching(p, t)[i + 1])
<1> DEFINE P(g) == Table(p, t, 1, g)
<1>1. Matching(p, t) = CHOOSE g : P(g)
  BY Zenon DEF Matching, Table, Entry
<1>2. P(CHOOSE g : P(g))
  <2>1. \E g : P(g)
    BY TableExists
  <2> HIDE DEF P
  <2> QED
    BY <2>1
<1>3. Table(p, t, 1, Matching(p, t))
  BY <1>1, <1>2
<1> QED
  BY <1>3 DEF Table

(* What the entries are: at the end of the pattern, at a star and at       *)
(* another character.                                                      *)
LEMMA MatchingCases ==
  ASSUME NEW p, Len(p) \in Nat, NEW t, Len(t) \in Nat
  PROVE  LET M == Matching(p, t)
         IN  /\ \A i \in 1 .. Len(p) + 1 : M[i] \subseteq 1 .. Len(t) + 1
             /\ M[Len(p) + 1] = {Len(t) + 1}
             /\ \A i \in 1 .. Len(p), j \in 1 .. Len(t) + 1 :
                  j \in M[i] <=>
                    IF p[i] = "*" THEN \E k \in M[i + 1] : k >= j
                    ELSE j <= Len(t) /\ p[i] \in {"?", t[j]} /\ j + 1 \in M[i + 1]
<1> DEFINE M == Matching(p, t)
<1>1. \A i \in 1 .. Len(p) + 1 : M[i] = Entry(p, t, i, M[i + 1])
  BY MatchingEquation
<1> HIDE DEF M
<1>2. ASSUME NEW i \in 1 .. Len(p) + 1 PROVE M[i] \subseteq 1 .. Len(t) + 1
  <2> DEFINE next == M[i + 1]
  <2>1. M[i] = Entry(p, t, i, next) /\ Len(t) + 1 \in 1 .. Len(t) + 1
    BY <1>1
  <2> HIDE DEF next
  <2> QED
    BY <2>1 DEF Entry
<1>3. M[Len(p) + 1] = {Len(t) + 1}
  <2>1. Len(p) + 1 \in 1 .. Len(p) + 1 /\ Len(p) + 1 > Len(p)
    OBVIOUS
  <2> QED
    BY <1>1, <2>1 DEF Entry
<1>4. ASSUME NEW i \in 1 .. Len(p), NEW j \in 1 .. Len(t) + 1
      PROVE  j \in M[i] <=>
               IF p[i] = "*" THEN \E k \in M[i + 1] : k >= j
               ELSE j <= Len(t) /\ p[i] \in {"?", t[j]} /\ j + 1 \in M[i + 1]
  <2> DEFINE next == M[i + 1]
  <2>1. M[i] = Entry(p, t, i, next) /\ ~ (i > Len(p))
    BY <1>1
  <2> HIDE DEF next
  <2>2. M[i] = {m \in 1 .. Len(t) + 1 :
                  IF p[i] = "*" THEN \E k \in next : k >= m
                  ELSE m <= Len(t) /\ p[i] \in {"?", t[m]} /\ m + 1 \in next}
    BY <2>1 DEF Entry
  <2> QED
    BY <2>2 DEF next
<1> QED
  BY <1>2, <1>3, <1>4 DEF M

-----------------------------------------------------------------------------
(* The invariant.                                                          *)

M == Matching(pattern, text)

Types ==
  /\ pattern \in Pattern /\ text \in Text
  /\ result \in {"running", "true", "false"}
  /\ pattern_index \in 1 .. Len(pattern) + 1
  /\ text_index \in 1 .. Len(text) + 1
  /\ star_index \in 0 .. pattern_index - 1
  /\ star_text_match \in 1 .. text_index

(* Before a star, and once the name is used up, nothing is left to choose. *)
Forced ==
  star_index = 0 \/ text_index > Len(text) =>
    (1 \in M[1] <=> text_index \in M[pattern_index])

(* The last star can end at star_text_match or later.  What has been       *)
(* compared since has no star.                                             *)
Since(s, m, i, j) ==
  /\ 1 \in M[1] <=> \E k \in M[s + 1] : k >= m
  /\ j \in M[i] => m \in M[s + 1]
  /\ \A k \in M[s + 1] : k >= m => k + (j - m) \in M[i]

LastStar ==
  star_index # 0 /\ text_index <= Len(text) =>
    Since(star_index, star_text_match, pattern_index, text_index)

IInv == /\ Types
        /\ result = "running" => Forced /\ LastStar
        /\ MatchesExactly

(* The lengths, the characters and the entries, wherever the loop is. *)
LEMMA Facts ==
  ASSUME Types
  PROVE  /\ Len(pattern) \in Nat /\ Len(text) \in Nat
         /\ \A j \in 1 .. Len(text) : text[j] # "*"
         /\ \A i \in 1 .. Len(pattern) + 1 : M[i] \subseteq 1 .. Len(text) + 1
         /\ M[Len(pattern) + 1] = {Len(text) + 1}
         /\ \A i \in 1 .. Len(pattern), j \in 1 .. Len(text) + 1 :
              j \in M[i] <=>
                IF pattern[i] = "*" THEN \E k \in M[i + 1] : k >= j
                ELSE j <= Len(text) /\ pattern[i] \in {"?", text[j]} /\ j + 1 \in M[i + 1]
<1>1. pattern \in Seq(STRING) /\ text \in Seq(STRING \ {"*"})
  BY TextAssumption DEF Types
<1>2. Len(pattern) \in Nat /\ Len(text) \in Nat /\ \A j \in 1 .. Len(text) : text[j] # "*"
  BY <1>1
<1> QED
  BY <1>2, MatchingCases DEF M

(* The entries hold positions of the name and the one after it. *)
LEMMA InRange ==
  ASSUME Types, NEW i \in 1 .. Len(pattern) + 1
  PROVE  /\ M[i] \subseteq 1 .. Len(text) + 1
         /\ \A k \in M[i] : k \in Int /\ 1 <= k /\ k <= Len(text) + 1
<1>1. Len(text) \in Nat
  BY Facts
<1>2. M[i] \subseteq 1 .. Len(text) + 1
  BY Facts, Zenon
<1> QED
  BY <1>1, <1>2

(* At the first turn everything is left to match. *)
LEMMA InitIInv == Init => IInv
<1> SUFFICES ASSUME Init PROVE IInv
  OBVIOUS
<1>1. Len(pattern) \in Nat /\ Len(text) \in Nat
  BY TextAssumption DEF Init
<1>2. Types
  BY <1>1 DEF Init, Types
<1> QED
  BY <1>2 DEF Init, IInv, Forced, LastStar, MatchesExactly

(* A character is compared and fits: the star, if there is one, may still  *)
(* end where it could.                                                     *)
LEMMA SinceAdvances ==
  ASSUME Types, NEW s \in 1 .. Len(pattern), NEW m \in Int, NEW i \in 1 .. Len(pattern),
         NEW j \in 1 .. Len(text), pattern[i] # "*", pattern[i] \in {"?", text[j]},
         Since(s, m, i, j)
  PROVE  Since(s, m, i + 1, j + 1)
<1>1. ASSUME NEW k \in M[i] PROVE k + 1 \in M[i + 1]
  <2>1. k \in 1 .. Len(text) + 1
    <3>1. i \in 1 .. Len(pattern) + 1
      BY Facts
    <3> QED
      BY <3>1, InRange
  <2> QED
    BY <2>1, Facts
<1>2. j + 1 \in M[i + 1] => j \in M[i]
  BY Facts
<1>3. \A k \in M[s + 1] : k \in Int
  <2>1. s + 1 \in 1 .. Len(pattern) + 1
    BY Facts
  <2> QED
    BY <2>1, InRange
<1>4. ASSUME NEW k \in M[s + 1], k >= m PROVE k + (j + 1 - m) \in M[i + 1]
  <2>1. k + (j - m) + 1 \in M[i + 1]
    BY <1>1, <1>4 DEF Since
  <2>2. k + (j - m) + 1 = k + (j + 1 - m)
    BY <1>3
  <2> QED
    BY <2>1, <2>2
<1> QED
  BY <1>2, <1>4 DEF Since

(* Once the name is used up, the star can only end where it is tried. *)
LEMMA SinceForced ==
  ASSUME Types, NEW s \in 1 .. Len(pattern), NEW m \in 1 .. Len(text) + 1,
         NEW i \in 1 .. Len(pattern) + 1, Since(s, m, i, Len(text) + 1)
  PROVE  1 \in M[1] <=> Len(text) + 1 \in M[i]
<1> DEFINE T == Len(text)
<1>1. T \in Nat /\ s + 1 \in 1 .. Len(pattern) + 1
  BY Facts
<1>1a. /\ \A k \in M[i] : k \in Int /\ k <= T + 1
       /\ \A k \in M[s + 1] : k \in Int
  BY <1>1, InRange
<1>2. ASSUME NEW k \in M[s + 1], k >= m PROVE T + 1 \in M[i]
  <2>1. k + (T + 1 - m) \in M[i] /\ k + (T + 1 - m) <= T + 1
    BY <1>1, <1>1a, <1>2 DEF Since
  <2>2. k + (T + 1 - m) = T + 1
    BY <1>1, <1>1a, <1>2, <2>1
  <2> QED
    BY <2>1, <2>2
<1>3. T + 1 \in M[i] => \E k \in M[s + 1] : k >= m
  BY DEF Since
<1> QED
  BY <1>2, <1>3 DEF Since

(* The loop compares a character and it fits. *)
LEMMA AdvanceKeeps ==
  ASSUME IInv, Advance
  PROVE  IInv'
<1> DEFINE i == pattern_index
           j == text_index
           s == star_index
           m == star_text_match
<1>1. /\ i \in 1 .. Len(pattern) /\ j \in 1 .. Len(text) /\ s \in 0 .. i - 1 /\ m \in 1 .. j
      /\ Len(pattern) \in Nat /\ Len(text) \in Nat
      /\ pattern[i] # "*" /\ pattern[i] \in {"?", text[j]}
  BY Facts DEF IInv, Types, Advance, Scanning, Same, InPattern
<1>2. /\ pattern_index' = i + 1 /\ text_index' = j + 1 /\ M' = M
      /\ UNCHANGED <<pattern, text, star_index, star_text_match, result>>
      /\ result = "running"
  BY DEF Advance, Scanning, M
<1>3. Types'
  BY <1>1, <1>2 DEF IInv, Types
<1>4. s # 0 => s \in 1 .. Len(pattern) /\ Since(s, m, i + 1, j + 1)
  BY <1>1, <1>2, SinceAdvances DEF IInv, LastStar
<1>5. LastStar'
  BY <1>2, <1>4 DEF LastStar, Since
<1>6. Forced'
  <2>1. CASE s = 0
    <3>1. j \in M[i] <=> j + 1 \in M[i + 1]
      BY <1>1, Facts DEF IInv
    <3> QED
      BY <1>2, <2>1, <3>1 DEF IInv, Forced
  <2>2. CASE s # 0 /\ j + 1 > Len(text)
    <3>1. j + 1 = Len(text) + 1 /\ m \in 1 .. Len(text) + 1 /\ i + 1 \in 1 .. Len(pattern) + 1
      BY <1>1, <2>2
    <3>2. 1 \in M[1] <=> j + 1 \in M[i + 1]
      BY <1>4, <2>2, <3>1, SinceForced DEF IInv
    <3> QED
      BY <1>2, <3>2 DEF Forced
  <2> QED
    BY <1>2, <2>1, <2>2 DEF Forced
<1> QED
  BY <1>2, <1>3, <1>5, <1>6 DEF IInv, MatchesExactly

(* A star is met: it can end here or later, and every match there is goes  *)
(* through it.                                                             *)
LEMMA TakeStarKeeps ==
  ASSUME IInv, TakeStar
  PROVE  IInv'
<1> DEFINE i == pattern_index
           j == text_index
           s == star_index
           m == star_text_match
<1>1. /\ i \in 1 .. Len(pattern) /\ j \in 1 .. Len(text) /\ s \in 0 .. i - 1 /\ m \in 1 .. j
      /\ Len(pattern) \in Nat /\ Len(text) \in Nat /\ pattern[i] = "*"
  BY Facts DEF IInv, Types, TakeStar, Scanning, AtStar, InPattern
<1>2. /\ pattern_index' = i + 1 /\ star_index' = i /\ star_text_match' = j /\ M' = M
      /\ UNCHANGED <<pattern, text, text_index, result>>
      /\ result = "running"
  BY DEF TakeStar, Scanning, M
<1>3. Types'
  BY <1>1, <1>2 DEF IInv, Types
<1>4. \A n \in 1 .. Len(text) + 1 : n \in M[i] <=> \E k \in M[i + 1] : k >= n
  BY <1>1, Facts DEF IInv
<1>5. M[i] \subseteq 1 .. Len(text) + 1 /\ M[i + 1] \subseteq 1 .. Len(text) + 1
  <2>1. i \in 1 .. Len(pattern) + 1 /\ i + 1 \in 1 .. Len(pattern) + 1
    BY <1>1
  <2> QED
    BY <2>1, InRange DEF IInv
<1>6. 1 \in M[1] <=> j \in M[i]
  <2>1. CASE s = 0
    BY <1>2, <2>1 DEF IInv, Forced
  <2>2. CASE s # 0
    <3>1. Since(s, m, i, j) /\ M[s + 1] \subseteq 1 .. Len(text) + 1
      <4>1. s + 1 \in 1 .. Len(pattern) + 1
        BY <1>1, <2>2
      <4> QED
        BY <1>1, <1>2, <2>2, <4>1, InRange DEF IInv, LastStar
    <3>2. ASSUME NEW n \in M[s + 1], n >= m PROVE j \in M[i]
      <4>1. n + (j - m) \in M[i] /\ n + (j - m) >= j
        BY <1>1, <3>1, <3>2 DEF Since
      <4>2. PICK k \in M[i + 1] : k >= n + (j - m)
        BY <1>4, <1>5, <4>1
      <4>3. k \in Int /\ j \in Int /\ n + (j - m) \in Int
        BY <1>1, <1>5, <4>1
      <4>4. k >= j
        <5> DEFINE x == n + (j - m)
        <5> HIDE DEF x
        <5>1. k >= x /\ x >= j /\ x \in Int
          BY <4>1, <4>2, <4>3 DEF x
        <5> QED
          BY <4>3, <5>1
      <4> QED
        BY <1>1, <1>4, <4>4
    <3> QED
      BY <1>1, <3>1, <3>2 DEF Since
  <2> QED
    BY <2>1, <2>2
<1>7. Since(i, j, i + 1, j)
  BY <1>1, <1>4, <1>5, <1>6 DEF Since
<1> QED
  BY <1>1, <1>2, <1>3, <1>7 DEF IInv, MatchesExactly, Forced, LastStar, Since

(* A character does not fit: the star cannot end where it was tried. *)
LEMMA Mismatch ==
  ASSUME IInv, Scanning, ~ Same, ~ AtStar
  PROVE  text_index \notin M[pattern_index]
<1>1. CASE pattern_index = Len(pattern) + 1
  BY <1>1, Facts DEF IInv, Types, Scanning
<1>2. CASE pattern_index \in 1 .. Len(pattern)
  BY <1>2, Facts DEF IInv, Types, Scanning, Same, AtStar, InPattern
<1> QED
  BY <1>1, <1>2, Facts DEF IInv, Types

(* The last star takes a character more. *)
LEMMA BacktrackKeeps ==
  ASSUME IInv, Backtrack
  PROVE  IInv'
<1> DEFINE i == pattern_index
           j == text_index
           s == star_index
           m == star_text_match
<1>1. /\ i \in 1 .. Len(pattern) + 1 /\ j \in 1 .. Len(text) /\ s \in 1 .. i - 1 /\ m \in 1 .. j
      /\ Len(pattern) \in Nat /\ Len(text) \in Nat
  BY Facts DEF IInv, Types, Backtrack, Scanning
<1>2. /\ pattern_index' = s + 1 /\ star_text_match' = m + 1 /\ text_index' = m + 1 /\ M' = M
      /\ UNCHANGED <<pattern, text, star_index, result>>
      /\ result = "running"
  BY DEF Backtrack, Scanning, M
<1>3. Types'
  BY <1>1, <1>2 DEF IInv, Types
<1>4. j \notin M[i] /\ Since(s, m, i, j)
  BY <1>1, <1>2, Mismatch DEF IInv, LastStar, Backtrack, Scanning
<1>5. M[s + 1] \subseteq 1 .. Len(text) + 1
  <2>1. s + 1 \in 1 .. Len(pattern) + 1
    BY <1>1
  <2> QED
    BY <2>1, InRange DEF IInv
<1>6. m \notin M[s + 1]
  BY <1>1, <1>4 DEF Since
<1>7. 1 \in M[1] <=> \E k \in M[s + 1] : k >= m + 1
  BY <1>1, <1>4, <1>5, <1>6 DEF Since
<1>8. Since(s, m + 1, s + 1, m + 1)
  BY <1>1, <1>5, <1>7 DEF Since
<1>9. Forced'
  <2>1. CASE m + 1 > Len(text)
    <3>1. m + 1 = Len(text) + 1
      BY <1>1, <2>1
    <3>2. 1 \in M[1] <=> m + 1 \in M[s + 1]
      BY <1>1, <1>5, <1>7, <3>1
    <3> QED
      BY <1>2, <3>2 DEF Forced
  <2> QED
    BY <1>1, <1>2, <2>1 DEF Forced
<1> QED
  BY <1>2, <1>3, <1>8, <1>9 DEF IInv, MatchesExactly, LastStar, Since

(* No star to fall back on. *)
LEMMA FailKeeps ==
  ASSUME IInv, Fail
  PROVE  IInv'
<1>1. text_index \notin M[pattern_index] /\ star_index = 0 /\ result = "running"
  BY Mismatch DEF Fail, Scanning
<1>2. 1 \notin M[1]
  BY <1>1 DEF IInv, Forced
<1> QED
  BY <1>2 DEF IInv, Types, MatchesExactly, Matches, M, Fail

(* The name is used up: a star may take nothing, anything else is missing. *)
LEMMA EndKeeps ==
  ASSUME IInv, SkipStar \/ Finish
  PROVE  IInv'
<1> DEFINE i == pattern_index
           j == text_index
<1>1. /\ i \in 1 .. Len(pattern) + 1 /\ j = Len(text) + 1 /\ Len(pattern) \in Nat
      /\ Len(text) \in Nat /\ result = "running" /\ M' = M
      /\ UNCHANGED <<pattern, text, text_index, star_index, star_text_match>>
  BY Facts DEF IInv, Types, SkipStar, Finish, M
<1>2. 1 \in M[1] <=> j \in M[i]
  BY <1>1 DEF IInv, Forced
<1>3. CASE SkipStar
  <2>1. i \in 1 .. Len(pattern) /\ pattern[i] = "*"
    BY <1>1, <1>3 DEF SkipStar, AtStar, InPattern
  <2>2. M[i + 1] \subseteq 1 .. j /\ (j \in M[i] <=> \E k \in M[i + 1] : k >= j)
    <3>1. i + 1 \in 1 .. Len(pattern) + 1 /\ j \in 1 .. Len(text) + 1
      BY <1>1, <2>1
    <3>2. M[i + 1] \subseteq 1 .. j
      BY <1>1, <3>1, InRange DEF IInv
    <3> QED
      BY <2>1, <3>1, <3>2, Facts DEF IInv
  <2>3. j \in M[i] <=> j \in M[i + 1]
    BY <1>1, <2>2
  <2>4. pattern_index' = i + 1 /\ result' = result
    BY <1>3 DEF SkipStar
  <2>5. Types'
    BY <1>1, <2>1, <2>4 DEF IInv, Types
  <2>6. Forced' /\ LastStar'
    BY <1>1, <1>2, <2>3, <2>4 DEF Forced, LastStar
  <2> QED
    BY <1>1, <2>4, <2>5, <2>6 DEF IInv, MatchesExactly
<1>4. CASE Finish
  <2>1. j \in M[i] <=> ~ InPattern
    <3>1. CASE InPattern
      <4>1. i \in 1 .. Len(pattern) /\ pattern[i] # "*"
        BY <1>1, <1>4, <3>1 DEF Finish, AtStar, InPattern
      <4> QED
        BY <1>1, <3>1, <4>1, Facts DEF IInv
    <3>2. CASE ~ InPattern
      BY <1>1, <3>2, Facts DEF IInv, InPattern
    <3> QED
      BY <3>1, <3>2
  <2>2. result' = (IF InPattern THEN "false" ELSE "true") /\ UNCHANGED pattern_index
    BY <1>4 DEF Finish
  <2>3. Types'
    BY <1>1, <2>2 DEF IInv, Types
  <2>4. result' = "true" <=> Matches(pattern, text)'
    BY <1>1, <1>2, <2>1, <2>2 DEF Matches, M
  <2> QED
    BY <2>2, <2>3, <2>4 DEF IInv, MatchesExactly
<1> QED
  BY <1>3, <1>4

(* Every turn keeps the invariant. *)
LEMMA NextIInv == IInv /\ [Next]_vars => IInv'
<1> SUFFICES ASSUME IInv, [Next]_vars PROVE IInv'
  OBVIOUS
<1>1. CASE UNCHANGED vars
  <2>1. M' = M /\ Matches(pattern, text)' = Matches(pattern, text)
    BY <1>1 DEF vars, M, Matches
  <2>2. /\ pattern' = pattern /\ text' = text /\ result' = result
        /\ pattern_index' = pattern_index /\ text_index' = text_index
        /\ star_index' = star_index /\ star_text_match' = star_text_match
    BY <1>1 DEF vars
  <2> QED
    BY <2>1, <2>2 DEF IInv, Types, Forced, LastStar, Since, MatchesExactly
<1> QED
  BY <1>1, AdvanceKeeps, TakeStarKeeps, BacktrackKeeps, FailKeeps, EndKeeps DEF Next

(* The result is what matching means, although the loop goes back to the   *)
(* last star only: for every pattern and every name.                       *)
THEOREM GlobExact == Spec => []MatchesExactly
<1>1. IInv => MatchesExactly
  BY DEF IInv
<1> QED
  BY <1>1, InitIInv, NextIInv, PTL DEF Spec

-----------------------------------------------------------------------------
(* How long it takes.                                                      *)

(* What is left to do: the characters the last star has not been given,    *)
(* each of which can cost another pass over the pattern.                   *)
Work == (Len(text) + 1 - star_text_match) * (Len(pattern) + 2)
          + (Len(pattern) + 1 - pattern_index)
          + (IF result = "running" THEN 1 ELSE 0)

(* Fewer characters left for the star, less to do. *)
LEMMA Monotone ==
  ASSUME NEW a \in Int, NEW b \in Int, NEW k \in Nat, a <= b
  PROVE  a * k \in Int /\ b * k \in Int /\ a * k <= b * k
<1>1. b * k - a * k = (b - a) * k /\ b - a \in Nat
  OBVIOUS
<1>2. (b - a) * k >= 0
  BY <1>1
<1> QED
  BY <1>1, <1>2

(* Neither loop of glob_match can go round for ever: every turn leaves     *)
(* strictly less to do, so there are at most (the length of the name + 1)  *)
(* times (the length of the pattern + 2) of them.                          *)
THEOREM GlobTurns ==
  Spec => /\ [](Work \in 0 .. (Len(text) + 1) * (Len(pattern) + 2))
          /\ [][Work' < Work]_vars
<1> DEFINE P == Len(pattern)
           T == Len(text)
           left == T + 1 - star_text_match
<1>1. ASSUME Types
      PROVE  /\ P \in Nat /\ T \in Nat /\ left \in 0 .. T
             /\ left * (P + 2) \in Nat /\ left * (P + 2) <= T * (P + 2)
             /\ pattern_index \in 1 .. P + 1
  <2>1. P \in Nat /\ T \in Nat
    BY <1>1, Facts
  <2>2. left \in 0 .. T /\ pattern_index \in 1 .. P + 1
    BY <1>1, <2>1 DEF Types
  <2>3. 0 * (P + 2) <= left * (P + 2) /\ left * (P + 2) <= T * (P + 2) /\ 0 * (P + 2) = 0
        /\ left * (P + 2) \in Int
    <3> HIDE DEF left
    <3> QED
      BY <2>1, <2>2, Monotone
  <2> HIDE DEF left
  <2> QED
    BY <2>1, <2>2, <2>3
<1>2. Types => Work \in 0 .. (T + 1) * (P + 2)
  <2> SUFFICES ASSUME Types PROVE Work \in 0 .. (T + 1) * (P + 2)
    OBVIOUS
  <2> DEFINE lo == left * (P + 2)
             hi == T * (P + 2)
  <2>1. Work = lo + (P + 1 - pattern_index) + (IF result = "running" THEN 1 ELSE 0)
    BY DEF Work
  <2>2. (T + 1) * (P + 2) = hi + P + 2 /\ hi \in Nat
    BY <1>1
  <2>3. lo \in Nat /\ lo <= hi /\ P \in Nat /\ pattern_index \in 1 .. P + 1
    BY <1>1
  <2> HIDE DEF lo, hi
  <2> QED
    BY <2>1, <2>2, <2>3
<1>3. ASSUME IInv, Next PROVE Work' < Work
  <2> DEFINE k == P + 2
             lo == left * k
             run == IF result = "running" THEN 1 ELSE 0
  <2>0. /\ k \in Nat /\ k = P + 2 /\ left \in 0 .. T /\ P \in Nat /\ T \in Nat
        /\ pattern_index \in 1 .. P + 1 /\ lo \in Nat /\ pattern' = pattern /\ text' = text
        /\ result = "running"
    BY <1>1, <1>3 DEF IInv, Next, Advance, TakeStar, Backtrack, Fail, SkipStar, Finish,
                      Scanning
  <2>1. /\ Work = lo + (P + 1 - pattern_index) + 1
        /\ Work' = left' * k + (P + 1 - pattern_index')
                     + (IF result' = "running" THEN 1 ELSE 0)
    BY <2>0 DEF Work
  <2>2. CASE Advance \/ SkipStar
    <3>1. left' = left /\ pattern_index' = pattern_index + 1 /\ result' = result
      BY <2>0, <2>2 DEF Advance, SkipStar
    <3> HIDE DEF left, k
    <3> QED
      BY <2>0, <2>1, <3>1
  <2>3. CASE TakeStar
    <3>1. /\ left' = T + 1 - text_index /\ pattern_index' = pattern_index + 1
          /\ result' = result
      BY <2>0, <2>3 DEF TakeStar
    <3>2. left' \in Int /\ left' <= left
      BY <1>3, <2>0, <3>1 DEF IInv, Types
    <3>3. left' * k \in Int /\ left' * k <= left * k
      BY <2>0, <3>2, Monotone
    <3> DEFINE after == left' * k
    <3>4. /\ after \in Int /\ after <= lo /\ lo \in Int
          /\ Work = lo + (P + 1 - pattern_index) + 1
          /\ Work' = after + (P + 1 - (pattern_index + 1)) + 1
      BY <2>0, <2>1, <3>1, <3>3
    <3> HIDE DEF lo, after
    <3> QED
      BY <2>0, <3>4
  <2>4. CASE Backtrack
    <3>1. /\ left' = left - 1 /\ pattern_index' = star_index + 1 /\ result' = result
          /\ star_index \in 1 .. P
      BY <1>3, <2>0, <2>4 DEF Backtrack, IInv, Types
    <3>2. left' * k = lo - k
      <4> HIDE DEF left, k
      <4> QED
        BY <2>0, <3>1
    <3> HIDE DEF left, k
    <3> QED
      BY <2>0, <2>1, <3>1, <3>2
  <2>5. CASE Fail \/ Finish
    <3>1. left' = left /\ pattern_index' = pattern_index /\ result' # "running"
      BY <2>0, <2>5 DEF Fail, Finish
    <3> HIDE DEF left, k
    <3> QED
      BY <2>0, <2>1, <3>1
  <2> QED
    BY <1>3, <2>2, <2>3, <2>4, <2>5 DEF Next
<1>4. IInv => Types
  BY DEF IInv
<1>5. ASSUME IInv, [Next]_vars PROVE [Work' < Work]_vars
  BY <1>3, <1>5
<1> QED
  <2> DEFINE Bounded == Work \in 0 .. (Len(text) + 1) * (Len(pattern) + 2)
             Falls == Work' < Work
  <2>1. IInv => Bounded
    BY <1>2, <1>4
  <2>2. IInv /\ [Next]_vars => [Falls]_vars
    BY <1>5
  <2> HIDE DEF Bounded, Falls
  <2>3. Spec => []Bounded /\ [][Falls]_vars
    BY <2>1, <2>2, InitIInv, NextIInv, PTL DEF Spec
  <2> QED
    BY <2>3 DEF Bounded, Falls
====
