-------------------------------- MODULE Shell --------------------------------
(***************************************************************************)
(* The loop of kmain: build the path of the prompt, climbing from the      *)
(* current directory to the root and shifting what is already there to the *)
(* right; show the prompt, read a line, split it, run the command.  A word *)
(* of the command language ("mkdir", "RED") counts as one character.       *)
(***************************************************************************)
EXTENDS FileSystem

CONSTANTS
  COMMAND_LENGTH, \* characters kept of the first word, 31 in the source
  NAME_LENGTH,    \* and of the name of a colour, 19
  Lines           \* lines users enter

BLACK == 0
GREY == 7
WHITE == 15
COLOR_NAMES ==
  << "BLACK", "BLUE", "GREEN", "CYAN", "RED", "MAGENTA", "BROWN", "GREY",
     "DARK_GREY", "BRIGHT_BLUE", "BRIGHT_GREEN", "BRIGHT_CYAN", "BRIGHT_RED",
     "BRIGHT_MAGENTA", "YELLOW", "WHITE" >>

VARIABLES
  at,           \* where kmain is in its loop; "off" when the machine is
  color,        \* <<g_fore_color, g_back_color>>
  orig,         \* kmain's copy of it, taken before the prompt
  original,     \* that of a function which prints in colours
  node, temp, path_len, \* locals of get_current_path
  current_path, \* what it has left in kmain's buffer
  buffer        \* the line, from Enter until its command has run

pathVars == <<node, temp, path_len>>
shellVars == <<at, color, orig, original, pathVars, current_path, buffer>>
allVars == <<vars, shellVars>>

-----------------------------------------------------------------------------
(* The command line.                                                       *)

WordEndTakesBlanks(s, max) == IF Len(s) < max THEN Len(s) ELSE max

(* Where a loop over s stops that takes at most max characters and no      *)
(* blank.                                                                  *)
WordEnd(s, max) ==
  CHOOSE i \in 0..Len(s) :
    /\ i = Len(s) \/ i = max \/ s[i + 1] = " "
    /\ \A j \in 0..i - 1 : j # max /\ s[j + 1] # " "

Command(line) == SubSeq(line, 1, WordEnd(line, COMMAND_LENGTH))

Rest(line, i) == SubSeq(line, i + 1, Len(line))

(* Whatever follows the one blank behind the command.                      *)
ArgsOf(line) ==
  LET i == WordEnd(line, COMMAND_LENGTH)
  IN  IF i < Len(line) /\ line[i + 1] = " " THEN Rest(line, i + 1) ELSE <<>>

(* What users give mkdir and cd is what FileSystem's users give them.      *)
ASSUME ShellAssumption ==
  /\ COMMAND_LENGTH \in Nat /\ NAME_LENGTH \in Nat
  /\ Lines \subseteq Seq(STRING)
  /\ \A line \in Lines :
       Command(line) \in {<<"mkdir">>, <<"cd">>} => ArgsOf(line) \in Args

SkipBlanks(s) ==
  Rest(s, CHOOSE i \in 0..Len(s) : /\ i = Len(s) \/ s[i + 1] # " "
                                   /\ \A j \in 1..i : s[j] = " ")

Named(word, default) ==
  IF \E i \in DOMAIN COLOR_NAMES : word = <<COLOR_NAMES[i]>>
  THEN (CHOOSE i \in DOMAIN COLOR_NAMES : word = <<COLOR_NAMES[i]>>) - 1
  ELSE default

(* The branch of "color " reads two names from the line, its test a first  *)
(* word that begins with "color ".                                         *)
ColorArguments ==
  LET line == Rest(buffer, 2)
      fg == WordEnd(line, NAME_LENGTH)
      tail == SkipBlanks(Rest(line, fg))
  IN  << Named(SubSeq(line, 1, fg), WHITE),
         Named(SubSeq(tail, 1, WordEnd(tail, NAME_LENGTH)), BLACK) >>

(* The colours left by a command that does not print in colours.           *)
ColorsAfter ==
  LET command == Command(buffer)
  IN  IF Len(command) > 1 /\ SubSeq(command, 1, 2) = <<"color", " ">>
      THEN ColorArguments
      ELSE IF command = <<"reset-color">> THEN <<WHITE, BLACK>>
      ELSE color

-----------------------------------------------------------------------------
(* Memory on the stack, before anything is written to it.                  *)
Garbage == [i \in 0..MAX_PATH - 1 |-> "NUL"]

ForwardMove(mem, dst, src, n) ==
  LET After[k \in 0..n] ==
        IF k = 0 THEN mem
        ELSE [After[k - 1] EXCEPT ![dst + k - 1] = After[k - 1][src + k - 1]]
  IN  After[n]

(* One byte after the other, from the end if the bytes move to the right.  *)
memmove(mem, dst, src, n) ==
  LET After[k \in 0..n] ==
        LET i == IF dst < src THEN k - 1 ELSE n - k
        IN  IF k = 0 THEN mem
            ELSE [After[k - 1] EXCEPT ![dst + i] = After[k - 1][src + i]]
  IN  After[n]

(* memcpy to the start of mem, and the byte stored behind it.              *)
Prefixed(mem, s, ch) ==
  [i \in DOMAIN mem |-> IF i < Len(s) THEN s[i + 1]
                        ELSE IF i = Len(s) THEN ch ELSE mem[i]]

NameFits == path_len + Len(nodes[node].name) + 1 < MAX_PATH

StartPrompt ==
  /\ at = "top"
  /\ at' = "climb"
  /\ node' = current_dir /\ temp' = Garbage /\ path_len' = 0
  /\ UNCHANGED <<vars, color, orig, original, current_path, buffer>>

(* "Build path from current directory up to root".                         *)
Climb ==
  /\ at = "climb" /\ node # root_node /\ NameFits
  /\ LET name == nodes[node].name
     IN  /\ temp' = Prefixed(memmove(temp, Len(name) + 1, 0, path_len), name, "/")
         /\ path_len' = path_len + Len(name) + 1
  /\ node' = nodes[node].parent
  /\ UNCHANGED <<vars, at, color, orig, original, current_path, buffer>>

(* The path is complete, or cut off; the prompt is shown in colours of its *)
(* own, of which white on black is the last.                               *)
ShowPrompt ==
  /\ at = "climb" /\ ~(node # root_node /\ NameFits)
  /\ at' = "input"
  /\ current_path' = Slash \o [i \in 1..path_len |-> temp[i - 1]]
  /\ orig' = color /\ color' = <<WHITE, BLACK>>
  /\ UNCHANGED <<vars, original, pathVars, buffer>>

(* getstr_bound returns (module TtyInput): the colours are put back; an    *)
(* empty line is no command.                                               *)
ReadLine(line) ==
  /\ at = "input"
  /\ at' = IF line = <<>> THEN "top" ELSE "dispatch"
  /\ buffer' = line
  /\ color' = orig
  /\ UNCHANGED <<vars, orig, original, pathVars, current_path>>

Refuses(path) ==
  path = <<>> \/ ~HasRoom(current_dir) \/ Len(nodes) = Capacity

Mkdir ==
  /\ Command(buffer) = <<"mkdir">>
  /\ \/ fs_mkdir(ArgsOf(buffer))
     \/ Refuses(ArgsOf(buffer)) /\ UNCHANGED vars

Cd ==
  /\ Command(buffer) = <<"cd">>
  /\ \/ fs_cd(ArgsOf(buffer))
     \/ CdTarget(current_dir, ArgsOf(buffer)) = NULL /\ UNCHANGED vars

Shutdown == {<<"shutdown">>, <<"exit">>}

(* The colours in use are kept, and those set for the last output of the   *)
(* function are left for Restore to replace.                               *)
PrintIn(colors) ==
  /\ at = "dispatch"
  /\ at' = "restore"
  /\ original' = color /\ color' = colors
  /\ UNCHANGED <<vars, orig, pathVars, current_path, buffer>>

(* Each name is printed in its colour, and the colour reset.               *)
print_available_colors ==
  Command(buffer) = <<"color">> /\ PrintIn(<<WHITE, BLACK>>)

(* "[ os ]" in grey, green and grey, before the machine is shut down.      *)
announce == Command(buffer) \in Shutdown /\ PrintIn(<<GREY, BLACK>>)

(* "Restore original colors".  The word shutdown writes to a port switches *)
(* the machine off if it has that port; kmain clears its buffers.          *)
Restore ==
  /\ at = "restore"
  /\ color' = original
  /\ at' \in {"top"} \union (IF Command(buffer) \in Shutdown THEN {"off"} ELSE {})
  /\ buffer' = <<>>
  /\ UNCHANGED <<vars, orig, original, pathVars, current_path>>

(* Everything else reads the tree, prints, or is not found.                *)
Other ==
  /\ Command(buffer) \notin {<<"mkdir">>, <<"cd">>, <<"color">>} \union Shutdown
  /\ UNCHANGED vars

(* The command runs; kmain then clears its buffers.                        *)
RunCommand ==
  /\ at = "dispatch"
  /\ Mkdir \/ Cd \/ Other
  /\ color' = ColorsAfter
  /\ at' = "top"
  /\ buffer' = <<>>
  /\ UNCHANGED <<orig, original, pathVars, current_path>>

ShellInit ==
  /\ Init
  /\ at = "top"
  /\ color = <<WHITE, BLACK>> /\ orig = <<WHITE, BLACK>>
  /\ original = <<WHITE, BLACK>>
  /\ node = root_node /\ temp = Garbage /\ path_len = 0
  /\ current_path = <<>> /\ buffer = <<>>

Prompt == StartPrompt \/ Climb \/ ShowPrompt

Colored == print_available_colors \/ announce \/ Restore

ShellNext == Prompt \/ RunCommand \/ Colored \/ \E line \in Lines : ReadLine(line)

ShellSpec == ShellInit /\ [][ShellNext]_allVars

-----------------------------------------------------------------------------
Colors == (0..15) \X (0..15)

(* Every variable of the tree and of the loop has its type; the terminator *)
(* that goes behind the path stays in temp.                                *)
ShellTypeOK ==
  /\ TypeOK
  /\ at \in {"top", "climb", "input", "dispatch", "restore", "off"}
  /\ {color, orig, original} \subseteq Colors
  /\ node \in Nodes
  /\ path_len \in 0..MAX_PATH - 1
  /\ buffer \in Lines \union {<<>>}

(* The path that comes from shifting bytes to the right in one buffer is   *)
(* the one made of the names of the way, cut off where they stop fitting:  *)
(* memmove copies overlapping bytes in the right direction.                *)
PathAsMeant == at = "input" => current_path = get_current_path

(* A line is split at its first blank, in one place and with nothing of it *)
(* lost, a first word of COMMAND_LENGTH characters included; a longer one  *)
(* is cut off and takes no argument.                                       *)
SplitAsTyped ==
  at = "dispatch" =>
    LET command == Command(buffer)
        n == Len(command)
    IN  /\ n <= COMMAND_LENGTH /\ \A i \in 1..n : command[i] # " "
        /\ \/ buffer = command \o <<" ">> \o ArgsOf(buffer)
           \/ buffer = command /\ ArgsOf(buffer) = <<>>
           \/ /\ n = COMMAND_LENGTH /\ n < Len(buffer)
              /\ command = SubSeq(buffer, 1, n) /\ buffer[n + 1] # " "
              /\ ArgsOf(buffer) = <<>>
=============================================================================
