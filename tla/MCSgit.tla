------------------------------- MODULE MCSgit -------------------------------
(* Model-checking instances of Sgit. *)
EXTENDS Sgit, TLC

CONSTANTS LetterA, LetterB

\* Texts of the tool: with and without an end of line, one within another.
ToolTexts == {<<LetterA, NL>>, <<LetterB, NL, LetterA, NL>>}

\* Texts of the library's file: all of up to three characters, and those of one or
\* two letters and line ends that are longer.
AllTexts == UNION {[1..n -> {LetterA, LetterB, NL}] : n \in 0..3} \cup [1..5 -> {LetterA, NL}]
=============================================================================
