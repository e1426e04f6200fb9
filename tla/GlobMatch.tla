------------------------------ MODULE GlobMatch ------------------------------
(***************************************************************************)
(* glob_match (src/commandExecutor.cpp), which CONFIG GET applies to the   *)
(* names of the supported parameters: one step per turn of its loops.      *)
(* Positions start at 1.                                                   *)
(***************************************************************************)
EXTENDS Integers, Sequences

CONSTANTS
  Pattern,    \* patterns, sequences of characters with "*" and "?" among them
  Text        \* names, which have no "*"

ASSUME TextAssumption == /\ Pattern \subseteq Seq(STRING)
                         /\ Text \subseteq Seq(STRING \ {"*"})

VARIABLES
  pattern, text,                  \* the arguments
  pattern_index, text_index,
  star_index, star_text_match,    \* the last "*" and where it was tried; 0 is npos
  result                          \* "running", "true" or "false"

vars == <<pattern, text, pattern_index, text_index, star_index, star_text_match, result>>

Init == /\ pattern \in Pattern /\ text \in Text
        /\ pattern_index = 1 /\ text_index = 1
        /\ star_index = 0 /\ star_text_match = 1
        /\ result = "running"

InPattern == pattern_index <= Len(pattern)

Same == InPattern /\ pattern[pattern_index] \in {"?", text[text_index]}

AtStar == InPattern /\ pattern[pattern_index] = "*"

Scanning == result = "running" /\ text_index <= Len(text)

Advance == /\ Scanning /\ Same
           /\ pattern_index' = pattern_index + 1
           /\ text_index' = text_index + 1
           /\ UNCHANGED <<pattern, text, star_index, star_text_match, result>>

(* Fault: where the star is tried from is not kept. *)
TakeStar_Unmarked == /\ Scanning /\ ~ Same /\ AtStar
                      /\ star_index' = pattern_index
                      /\ pattern_index' = pattern_index + 1
                      /\ UNCHANGED <<pattern, text, text_index, star_text_match, result>>

TakeStar == /\ Scanning /\ ~ Same /\ AtStar
            /\ star_index' = pattern_index
            /\ star_text_match' = text_index
            /\ pattern_index' = pattern_index + 1
            /\ UNCHANGED <<pattern, text, text_index, result>>

(* Fault: the star does not take the character. *)
Backtrack_Stays == /\ Scanning /\ ~ Same /\ ~ AtStar /\ star_index # 0
                   /\ pattern_index' = star_index + 1
                   /\ text_index' = star_text_match
                   /\ UNCHANGED <<pattern, text, star_index, star_text_match, result>>

(* The last star takes one character more. *)
Backtrack == /\ Scanning /\ ~ Same /\ ~ AtStar /\ star_index # 0
             /\ pattern_index' = star_index + 1
             /\ star_text_match' = star_text_match + 1
             /\ text_index' = star_text_match + 1
             /\ UNCHANGED <<pattern, text, star_index, result>>

Fail == /\ Scanning /\ ~ Same /\ ~ AtStar /\ star_index = 0
        /\ result' = "false"
        /\ UNCHANGED <<pattern, text, pattern_index, text_index, star_index,
                       star_text_match>>

(* The text is used up: only stars may be left of the pattern. *)
SkipStar == /\ result = "running" /\ text_index > Len(text) /\ AtStar
            /\ pattern_index' = pattern_index + 1
            /\ UNCHANGED <<pattern, text, text_index, star_index, star_text_match, result>>

Finish == /\ result = "running" /\ text_index > Len(text) /\ ~ AtStar
          /\ result' = IF InPattern THEN "false" ELSE "true"
          /\ UNCHANGED <<pattern, text, pattern_index, text_index, star_index,
                         star_text_match>>

Next == Advance \/ TakeStar \/ Backtrack \/ Fail \/ SkipStar \/ Finish

Spec == Init /\ [][Next]_vars /\ WF_vars(Next)

-----------------------------------------------------------------------------
(* For each position i of p, the positions of t from which the rest of t   *)
(* matches p from i on: a star takes any stretch, another character one.   *)
Matching(p, t) ==
  LET from[i \in 1 .. Len(p) + 1] ==
        LET next == from[i + 1]
        IN  IF i > Len(p) THEN {Len(t) + 1}
            ELSE {j \in 1 .. Len(t) + 1 :
                    IF p[i] = "*" THEN \E k \in next : k >= j
                    ELSE j <= Len(t) /\ p[i] \in {"?", t[j]} /\ j + 1 \in next}
  IN  from

Matches(p, t) == 1 \in Matching(p, t)[1]

(* The result is what matching means, although the loop backtracks to the  *)
(* last star only and never reconsiders an earlier one.                    *)
MatchesExactly == result # "running" => (result = "true" <=> Matches(pattern, text))

(* The loop ends. *)
Terminates == <>(result # "running")
=============================================================================
