------------------------------ MODULE MCShell -------------------------------
(* Shell with a few lines for TLC: mkdir and cd with a name, a longer one, *)
(* one that is cut off to it, one in two words, what cd treats specially,  *)
(* and nothing; colours with and without arguments; the end; a word as     *)
(* long as a command may be and a longer one, with and without an argument *)
(* behind them, and a line that begins with a blank.                       *)
EXTENDS Shell

a == <<"a">>
ab == <<"a", "b">>

TreeArgs == {<<>>, a, ab, <<"a", "b", "c">>, DotDot, Slash}

With(command, args) == <<command, " ">> \o args

MCLines ==
  {With("mkdir", arg) : arg \in TreeArgs} \union {With("cd", arg) : arg \in TreeArgs}
  \union {<<>>, <<"cd">>, <<"color">>, <<"color", " ", "RED", " ", " ", "BLUE">>,
          <<"reset-color">>, <<"exit">>, <<" ", "cd">>,
          ab, ab \o <<" ", "a", " ">>, <<"a", "b", "c">>, <<"a", "b", "c", " ", "a">>}
=============================================================================
