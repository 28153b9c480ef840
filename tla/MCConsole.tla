----------------------------- MODULE MCConsole ------------------------------
(* The console on a screen of a few places, for TLC.  The part of the      *)
(* buffer below the screen keeps its share: three and a half lines.        *)
EXTENDS Console

White == <<15, 0>>
Reversed == <<0, 15>>
MCColors == {White, Reversed}

(* A letter, a space, a tab, a line feed, and two that print nothing.      *)
MCChars == {97, 32, 9, 10, 0, -1}
MCFewChars == {97, 9, 10}
=============================================================================
