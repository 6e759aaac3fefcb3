------------------------------ MODULE MCWidePath -------------------------------
(* Two emoji that both become '?', and the pair U+00B7 and U+30FB that both become *)
(* the spelling of the second; '?' matches any of these names as a wildcard.        *)
EXTENDS WidePath

CONSTANTS smile, heart, dot, katakanaDot, t1

question == "?"
fullDot == "fullDot"

MCEncode == [n \in Names |-> IF n \in {smile, heart} THEN question ELSE fullDot]
MCDecode == [s \in {fullDot} |-> katakanaDot]
MCMatches == [s \in {question} |-> Names]
MCSpellings == {question, fullDot}
MCQuestions == {question}
================================================================================
