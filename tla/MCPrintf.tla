------------------------------ MODULE MCPrintf ------------------------------
(* Calls for TLC: every int of a byte in every conversion, some in a       *)
(* width, a text, the null pointer, a character, two numbers in one call.  *)
EXTENDS Printf

MCColors == {<<15, 0>>}
MCChars == {97, 9, 10}

D == <<37, 100>>
U == <<37, 117>>
X == <<37, 120>>
D5 == <<37, 53, 100>>
X04 == <<37, 48, 52, 120>>
S == <<37, 115>>
S3 == <<37, 51, 115>>
C == <<37, 99>>

MCCalls ==
  ({D, U, X} \X {<<n>> : n \in -128..127})
  \union ({D5, X04} \X {<<n>> : n \in {-128, -1, 0, 16, 127}})
  \union {<<S, <<NULL>>>>, <<S3, << <<97>> >> >>, <<C, <<10>> >>}
  \union {<<U \o X, <<n, 9>> >> : n \in {-128, 127}}

MCOften == {<<S3, << <<97>> >> >>, <<C, <<10>> >>}

(* Screens are followed that no number, prefix or null pointer is on.      *)
PlainScreen == \A i \in Items : con.buffer[i].ch \in Chars \union {0, 32}
=============================================================================
