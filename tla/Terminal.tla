------------------------------ MODULE Terminal ------------------------------
(***************************************************************************)
(* What the console promises: the screen shows the last lines of the text  *)
(* printed, a line being full at the width of the screen, and only the     *)
(* line being written can be taken back.                                   *)
(***************************************************************************)
EXTENDS Integers, Sequences, SequencesExt

CONSTANTS
  Width, Height, \* of the screen, in characters
  Items,         \* what can stand in a place of the screen
  TabStop        \* items that stand for a blank, of which a tab prints four

VARIABLE lines   \* the lines on the screen, the last being the one written

NewLine(ls) == Append(IF Len(ls) < Height THEN ls ELSE Tail(ls), <<>>)

Shown(ls, item) ==
  LET longer == Append(Front(ls), Append(Last(ls), item))
  IN  IF Len(Last(ls)) + 1 < Width THEN longer ELSE NewLine(longer)

Init == lines = << <<>> >>

Next ==
  \/ \E item \in Items : lines' = Shown(lines, item)
  \/ \E item \in TabStop :
       lines' = Shown(Shown(Shown(Shown(lines, item), item), item), item)
  \/ lines' = NewLine(lines)
  \/ lines' = << <<>> >>
  \/ /\ Last(lines) # <<>>
     /\ lines' = Append(Front(lines), Front(Last(lines)))

Spec == Init /\ [][Next]_lines
=============================================================================
