------------------------------- MODULE MCLexer -------------------------------
(* All texts of up to MaxText characters over words, numbers, white space    *)
(* and a bad character, and one character less over the operators and a      *)
(* letter; longer ones, of up to MaxDeepText characters, over what makes the *)
(* longest words and operators.                                              *)
EXTENDS Diagnostics

CONSTANTS MaxText, MaxDeepText

MCLetters == {"a", "i", "f"}
MCDigits == {"1"}
MCNewline == "\n"
MCBlanks == {" "}

Strings(chars, max) == UNION {[1 .. n -> chars] : n \in 0 .. max}

MCTexts ==
  Strings({"i", "f", "1", " ", "\n", "@"}, MaxText)
    \cup Strings({"i", "f", "1", "\n"}, MaxDeepText)
    \cup Strings({"a", "."} \cup SingleChars \cup DOMAIN SecondChar, MaxText - 1)
    \cup Strings({"<", ">", "=", "-", "."}, MaxDeepText)

(* The table of characters spells every operator. *)
ASSUME \A op \in Operators : Joined(Characters(op)) = op
=============================================================================
