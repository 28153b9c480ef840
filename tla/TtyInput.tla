------------------------------ MODULE TtyInput ------------------------------
(***************************************************************************)
(* Line input of the shell: kmain clears its buffer, getstr_bound fills it *)
(* with what kb_getchar returns until Enter, kmain runs the command, and   *)
(* so on for ever (src/kernel.c, src/console.c), while the interrupt       *)
(* handler of module Keyboard fills g_ch and edits a line of its own.      *)
(***************************************************************************)
EXTENDS Keyboard

CONSTANT LineBound \* characters the user types before pressing Enter

ASSUME TtyAssumption == LineBound \in Nat

VARIABLES
  mode, \* "read" inside getstr_bound, "run" while a command is executed
  line, \* the bytes of kmain's buffer below the write position
  wp    \* getstr_bound's write position, relative to the start of buffer

ttyVars == <<mode, line, wp>>
allVars == <<vars, ttyVars>>

(* getstr_bound calls kb_getchar for the next character.                   *)
GetChar ==
  /\ mode = "read"
  /\ Call("kb_getchar")
  /\ UNCHANGED ttyVars

(* What getstr_bound does with the character kb_getchar returned: Enter    *)
(* ends the line, backspace moves the write position back, whatever it is, *)
(* and anything else, a 0 included, is stored.                             *)
StoreCharSkipsEmptyLine ==
  /\ pc = "done"
  /\ IF c = 10
     THEN /\ mode' = IF line = <<>> THEN mode ELSE "run"
          /\ UNCHANGED <<line, wp>>
     ELSE /\ line' = IF c # 8 THEN Append(line, c)
                     ELSE SubSeq(line, 1, Len(line) - 1)
          /\ wp' = IF c # 8 THEN wp + 1 ELSE wp - 1
          /\ UNCHANGED mode
  /\ pc' = "idle" /\ c' = 0
  /\ UNCHANGED <<kbdVars, userVars, api, fresh>>

StoreChar ==
  /\ pc = "done"
  /\ IF c = 10
     THEN mode' = "run" /\ UNCHANGED <<line, wp>>
     ELSE /\ line' = IF c # 8 THEN Append(line, c)
                     ELSE SubSeq(line, 1, Len(line) - 1)
          /\ wp' = IF c # 8 THEN wp + 1 ELSE wp - 1
          /\ UNCHANGED mode
  /\ pc' = "idle" /\ c' = 0
  /\ UNCHANGED <<kbdVars, userVars, api, fresh>>

(* kmain executes the command, prints the next prompt and clears buffer.   *)
RunCommand ==
  /\ mode = "run"
  /\ mode' = "read"
  /\ line' = <<>> /\ wp' = 0
  /\ UNCHANGED vars

(* Nothing is on its way between the user and getstr_bound.                *)
Quiet == mode = "read" /\ kbc = <<>> /\ pc = "poll" /\ ~Ready

(* The user types freely until the line is LineBound characters long, then *)
(* waits for each key to be read, and only ends or erases the line.        *)
User ==
  \E k \in Keys :
    /\ Len(line) < LineBound \/ Quiet
    /\ \/ /\ Len(line) < LineBound
             \/ k \in {SCAN_CODE_KEY_ENTER, SCAN_CODE_KEY_BACKSPACE}
          /\ Press(k)
       \/ Release(k)

TtyInit == Init /\ mode = "read" /\ line = <<>> /\ wp = 0

Shell == GetChar \/ StoreChar \/ RunCommand

TtyNext ==
  \/ KeyboardHandler /\ UNCHANGED ttyVars
  \/ (Poll \/ Load \/ ClearCh \/ ClearScanCode) /\ UNCHANGED ttyVars
  \/ Shell
  \/ User /\ UNCHANGED ttyVars

TtySpec == TtyInit /\ [][TtyNext]_allVars

(* The processor runs handlers and the main thread; users owe nothing.     *)
TtyFairness ==
  /\ WF_allVars(KeyboardHandler /\ UNCHANGED ttyVars)
  /\ WF_allVars((Poll \/ Load \/ ClearCh \/ ClearScanCode) /\ UNCHANGED ttyVars)
  /\ WF_allVars(Shell)

TtyFairSpec == TtySpec /\ TtyFairness

-----------------------------------------------------------------------------
(* The values of a char.                                                   *)
Chars == -128..127

(* The variables of the shell's side have their types.                     *)
TtyTypeOK ==
  /\ mode \in {"read", "run"}
  /\ line \in Seq(Chars)
  /\ wp \in Int

(* getstr_bound checks no bound when it moves its pointer back.  It never  *)
(* goes below the start of buffer all the same, however the user types and *)
(* however interrupts fall, because the driver keeps every backspace to    *)
(* itself.  (Nothing stops it at the other end: a line that is longer than *)
(* buffer is stored past it.)                                              *)
NeverBelowBuffer == wp >= 0

(* When nothing is on its way, every character of the line the driver has  *)
(* edited prints, and none is missing from the shell's, and they are in    *)
(* the same order: both see the same keys, whoever erases what and however *)
(* Enter, tab and keys that send nothing come between.                     *)
EditedLineIsTyped ==
  Quiet => \E at \in [DOMAIN Line -> DOMAIN line] :
             /\ \A i, j \in DOMAIN Line : i < j => at[i] < at[j]
             /\ \A i \in DOMAIN Line : Line[i] = line[at[i]] /\ Line[i] >= 32

(* The characters of the shell's line that the driver would keep, too.     *)
Printable == SelectSeq(line, LAMBDA ch : ch >= 32)

(* "erase or go back util bound occurs" (console.c:270): when nothing is   *)
(* on its way, the shell's line is the line as it was edited.              *)
ShellGetsEditedLine == Quiet => Printable = Line

(* A patient user who presses Enter gets the command run.                  *)
EnterRunsCommand == g_ch = 10 ~> mode = "run"
=============================================================================
