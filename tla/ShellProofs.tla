---------------------------- MODULE ShellProofs -----------------------------
(* Proofs about module Shell, for any lines and limits.                    *)
EXTENDS Shell, FileSystemProofs

(* A line that is being run is one a user entered.                         *)
LineEntered == at \in {"dispatch", "restore"} => buffer \in Lines

LEMMA LineStep == LineEntered /\ [ShellNext]_allVars => LineEntered'
<1> SUFFICES ASSUME LineEntered, [ShellNext]_allVars
             PROVE  LineEntered'
  OBVIOUS
<1>1. CASE StartPrompt
  BY <1>1 DEF StartPrompt, LineEntered
<1>2. CASE Climb
  BY <1>2 DEF Climb, LineEntered
<1>3. CASE ShowPrompt
  BY <1>3 DEF ShowPrompt, LineEntered
<1>4. CASE RunCommand \/ Colored
  BY <1>4 DEF RunCommand, Colored, print_available_colors, announce, PrintIn, Restore,
              LineEntered
<1>5. ASSUME NEW line \in Lines, ReadLine(line)
      PROVE  LineEntered'
  BY <1>5 DEF ReadLine, LineEntered
<1>6. CASE UNCHANGED allVars
  BY <1>6 DEF allVars, shellVars, LineEntered
<1>7. QED
  BY <1>1, <1>2, <1>3, <1>4, <1>5, <1>6 DEF ShellNext, Prompt

(* Every step of the shell is one of the file system's or none, so that    *)
(* what is invariant there is invariant here.                              *)
LEMMA ShellStep == LineEntered /\ [ShellNext]_allVars => [Next]_vars
<1> SUFFICES ASSUME LineEntered, [ShellNext]_allVars
             PROVE  [Next]_vars
  OBVIOUS
<1>1. CASE Prompt
  BY <1>1 DEF Prompt, StartPrompt, Climb, ShowPrompt
<1>2. CASE RunCommand
  <2>1. Command(buffer) \in {<<"mkdir">>, <<"cd">>} => ArgsOf(buffer) \in Args
    BY <1>2, ShellAssumption DEF RunCommand, LineEntered
  <2>2. \/ Command(buffer) = <<"mkdir">> /\ fs_mkdir(ArgsOf(buffer))
        \/ Command(buffer) = <<"cd">> /\ fs_cd(ArgsOf(buffer))
        \/ UNCHANGED vars
    BY <1>2 DEF RunCommand, Mkdir, Cd, Other
  <2>3. QED
    BY <2>1, <2>2 DEF Next
<1>3. ASSUME NEW line \in Lines, ReadLine(line)
      PROVE  [Next]_vars
  BY <1>3 DEF ReadLine
<1>4. CASE Colored \/ UNCHANGED allVars
  BY <1>4 DEF Colored, print_available_colors, announce, PrintIn, Restore, allVars
<1>5. QED
  BY <1>1, <1>2, <1>3, <1>4 DEF ShellNext

-----------------------------------------------------------------------------
(* Where the first word ends.                                              *)
LEMMA WordEndFirst ==
  ASSUME NEW s \in Seq(STRING), NEW max \in Nat
  PROVE  LET e == WordEnd(s, max)
         IN  /\ e \in 0..Len(s) /\ e <= max
             /\ e = Len(s) \/ e = max \/ s[e + 1] = " "
             /\ \A j \in 0..e - 1 : s[j + 1] # " "
<1> DEFINE n == Len(s)
           Stops(i) == i = n \/ i = max \/ s[i + 1] = " "
           T == {i \in 0..n : Stops(i)}
<1>1. n \in Nat
  OBVIOUS
<1> HIDE DEF n
<1>2. T # {} /\ T \subseteq Nat
  <2>1. n \in T
    BY <1>1
  <2>2. T \subseteq Nat
    <3>1. T \subseteq 0..n
      BY Zenon
    <3> HIDE DEF T
    <3>2. QED
      BY <1>1, <3>1
  <2> HIDE DEF T
  <2>3. QED
    BY <2>1, <2>2
<1>3. PICK i \in T : \A j \in T : i <= j
  BY <1>2, NatMinimum
<1>4. \A j \in 0..i - 1 : j # max /\ s[j + 1] # " "
  <2>1. i \in 0..n
    BY <1>3
  <2>2. ASSUME NEW j \in 0..i - 1 PROVE ~Stops(j)
    <3>1. j \in 0..n /\ ~(i <= j)
      <4> HIDE DEF T
      <4>1. QED
        BY <1>1, <2>1, <2>2
    <3>2. QED
      BY <1>3, <3>1
  <2>3. QED
    BY <2>2
<1>5. \E k \in 0..Len(s) :
        /\ k = Len(s) \/ k = max \/ s[k + 1] = " "
        /\ \A j \in 0..k - 1 : j # max /\ s[j + 1] # " "
  BY <1>3, <1>4 DEF n
<1> DEFINE e == WordEnd(s, max)
<1>6. /\ e \in 0..Len(s)
      /\ e = Len(s) \/ e = max \/ s[e + 1] = " "
      /\ \A j \in 0..e - 1 : j # max /\ s[j + 1] # " "
  BY <1>5 DEF WordEnd
<1> HIDE DEF e, T
<1>7. e <= max
  <2>1. e \in 0..n
    BY <1>6 DEF n
  <2>2. e \in Nat /\ max \notin 0..e - 1
    <3>1. \A j \in 0..e - 1 : j # max
      BY <1>6, Zenon
    <3>2. e \in Nat
      BY <1>1, <2>1
    <3>3. QED
      BY <3>1, <3>2
  <2>3. QED
    BY <2>2
<1>8. QED
  BY <1>6, <1>7 DEF e

(* A line is split where its first word ends, at one blank or at the       *)
(* longest first word, and nothing else is dropped.                        *)
LEMMA Split ==
  ASSUME NEW line \in Seq(STRING)
  PROVE  LET command == Command(line)
             n == Len(command)
         IN  /\ n <= COMMAND_LENGTH /\ \A i \in 1..n : command[i] # " "
             /\ \/ line = command \o <<" ">> \o ArgsOf(line)
                \/ line = command /\ ArgsOf(line) = <<>>
                \/ /\ n = COMMAND_LENGTH /\ n < Len(line)
                   /\ command = SubSeq(line, 1, n) /\ line[n + 1] # " "
                   /\ ArgsOf(line) = <<>>
<1> DEFINE e == WordEnd(line, COMMAND_LENGTH)
           l == Len(line)
           command == SubSeq(line, 1, e)
<1>1. /\ e \in 0..l /\ e <= COMMAND_LENGTH
      /\ e = l \/ e = COMMAND_LENGTH \/ line[e + 1] = " "
      /\ \A j \in 0..e - 1 : line[j + 1] # " "
  BY WordEndFirst, ShellAssumption
<1>2. l \in Nat /\ e \in Nat /\ e <= l
  <2>1. l \in Nat /\ e \in 0..l
    BY <1>1, LenProperties
  <2> HIDE DEF e, l
  <2>2. QED
    BY <2>1
<1>3. Command(line) = command
  BY DEF Command
<1>4. ArgsOf(line) = IF e < l /\ line[e + 1] = " "
                     THEN SubSeq(line, (e + 1) + 1, l) ELSE <<>>
  BY DEF ArgsOf, Rest
<1> HIDE DEF e
<1>5. command \in Seq(STRING) /\ Len(command) = e /\ \A i \in 1..e : command[i] = line[i]
  <2> HIDE DEF l
  <2>1. e \in Int /\ e >= 0 /\ e <= l
    BY <1>2
  <2>2. \A i \in 1..e : line[i] \in STRING
    <3>1. \A i \in 1..e : i \in 1..l
      BY <1>2, <2>1
    <3>2. QED
      BY <3>1, ElementOfSeq DEF l
  <2>3. QED
    BY <2>1, <2>2, SubSeqProperties
<1>6. \A i \in 1..e : command[i] # " "
  <2> HIDE DEF command, l
  <2>1. ASSUME NEW i \in 1..e PROVE i - 1 \in 0..e - 1 /\ (i - 1) + 1 = i
    BY <1>2
  <2>2. QED
    BY <1>1, <1>5, <2>1
<1>7. CASE e = l
  <2>1. line = command
    BY <1>7, SubSeqFull
  <2>2. ~(e < l)
    BY <1>2, <1>7
  <2> HIDE DEF command, l
  <2>3. ArgsOf(line) = <<>> /\ Command(line) = line /\ Len(command) = e
    BY <1>3, <1>4, <1>5, <2>1, <2>2
  <2>4. QED
    BY <1>1, <1>3, <1>6, <2>1, <2>3
<1>8. CASE e < l /\ line[e + 1] = " "
  <2>1. 1 \in 1..l /\ e + 1 \in 1..l /\ (e + 1) - 1 = e /\ (e + 1) + 1 = e + 2
        /\ 1 \in 1..l + 1 /\ e + 1 \in 1 - 1..l /\ l \in e + 1..l
    <3>1. e < l
      BY <1>8
    <3> HIDE DEF l
    <3>2. QED
      BY <1>2, <3>1
  <2>2. SubSeq(line, 1, e + 1) = command \o <<" ">>
    BY <1>8, <2>1, SubSeqRecursiveSecond
  <2>3. SubSeq(line, 1, e + 1) \o SubSeq(line, (e + 1) + 1, l) = SubSeq(line, 1, l)
    BY <2>1, ConcatAdjacentSubSeq
  <2>4. SubSeq(line, 1, l) = line
    BY SubSeqFull
  <2>5. ArgsOf(line) = SubSeq(line, (e + 1) + 1, l)
    BY <1>4, <1>8
  <2>6. line = Command(line) \o <<" ">> \o ArgsOf(line)
    BY <1>3, <2>2, <2>3, <2>4, <2>5
  <2> HIDE DEF command, l
  <2>7. QED
    BY <1>1, <1>3, <1>5, <1>6, <2>6
<1>9. CASE e < l /\ line[e + 1] # " "
  <2>1. ArgsOf(line) = <<>>
    BY <1>4, <1>9, Zenon
  <2>2. e = COMMAND_LENGTH
    <3>1. e # l
      <4>1. e < l
        BY <1>9
      <4> HIDE DEF l
      <4>2. QED
        BY <1>2, <4>1
    <3>2. QED
      BY <1>1, <1>9, <3>1, Zenon
  <2>3. Len(command) = e /\ command = SubSeq(line, 1, e)
    BY <1>5
  <2> HIDE DEF command
  <2>4. QED
    BY <1>1, <1>3, <1>6, <1>9, <2>1, <2>2, <2>3
<1>10. e = l \/ e < l
  <2> HIDE DEF l
  <2>1. QED
    BY <1>2
<1>11. QED
  BY <1>7, <1>8, <1>9, <1>10

(* Lines of any length are split so.                                       *)
THEOREM LinesSplit == ShellSpec => []SplitAsTyped
<1>1. ShellInit => LineEntered
  BY DEF ShellInit, LineEntered
<1>2. LineEntered => SplitAsTyped
  BY Split, ShellAssumption DEF LineEntered, SplitAsTyped
<1>3. QED
  BY <1>1, <1>2, LineStep, PTL DEF ShellSpec

-----------------------------------------------------------------------------
(* The tree keeps its invariant under the shell, and the loop that climbs  *)
(* it its variables.                                                       *)
LoopInv ==
  /\ TreeInv /\ LineEntered
  /\ at \in {"top", "climb", "input", "dispatch", "restore", "off"}
  /\ {color, orig, original} \subseteq Colors
  /\ node \in Nodes
  /\ path_len \in 0..MAX_PATH - 1
  /\ buffer \in Lines \union {<<>>}

LEMMA ColorsTyped ==
  ASSUME color \in Colors
  PROVE  ColorsAfter \in Colors
<1>1. ASSUME NEW word, NEW default \in 0..15
      PROVE  Named(word, default) \in 0..15
  <2>1. CASE \E i \in DOMAIN COLOR_NAMES : word = <<COLOR_NAMES[i]>>
    <3> DEFINE n == CHOOSE i \in DOMAIN COLOR_NAMES : word = <<COLOR_NAMES[i]>>
    <3>1. n \in DOMAIN COLOR_NAMES
      BY <2>1
    <3>2. DOMAIN COLOR_NAMES = 1..16
      BY DEF COLOR_NAMES
    <3>3. Named(word, default) = n - 1
      BY <2>1 DEF Named
    <3> HIDE DEF n
    <3>4. QED
      BY <3>1, <3>2, <3>3
  <2>2. CASE ~ \E i \in DOMAIN COLOR_NAMES : word = <<COLOR_NAMES[i]>>
    BY <2>2 DEF Named
  <2>3. QED
    BY <2>1, <2>2
<1>2. ColorArguments \in Colors
  <2>1. WHITE \in 0..15 /\ BLACK \in 0..15
    BY DEF WHITE, BLACK
  <2> HIDE DEF WHITE, BLACK
  <2>2. QED
    BY <1>1, <2>1, Zenon DEF ColorArguments, Colors
<1>3. <<WHITE, BLACK>> \in Colors
  BY DEF Colors, WHITE, BLACK
<1>4. QED
  BY <1>2, <1>3, Zenon DEF ColorsAfter

LEMMA LoopInit == ShellInit => LoopInv
<1> SUFFICES ASSUME ShellInit PROVE LoopInv
  OBVIOUS
<1>1. TreeInv
  BY TreeInit DEF ShellInit
<1>2. node \in Nodes
  <2>1. node = root_node
    BY DEF ShellInit
  <2>2. QED
    BY <1>1, <2>1, TypeFacts DEF TreeInv
<1>3. path_len \in 0..MAX_PATH - 1
  BY FileSystemAssumption DEF ShellInit
<1>4. QED
  BY <1>1, <1>2, <1>3 DEF ShellInit, LoopInv, LineEntered, Colors, WHITE, BLACK

(* A node does not go away.                                                *)
LEMMA NodesStay ==
  ASSUME TreeInv, [Next]_vars
  PROVE  Nodes \subseteq Nodes'
<1>1. ASSUME NEW path \in Args, fs_mkdir(path)
      PROVE  Nodes \subseteq Nodes'
  <2>1. Len(nodes') = Len(nodes) + 1 /\ Len(nodes) \in Nat
    BY <1>1, MkdirEffect, TypeFacts DEF TreeInv
  <2>2. QED
    BY <2>1 DEF Nodes
<1>2. CASE UNCHANGED nodes
  BY <1>2 DEF Nodes
<1>3. QED
  BY <1>1, <1>2 DEF Next, fs_cd, vars

LEMMA LoopStep == LoopInv /\ [ShellNext]_allVars => LoopInv'
<1> SUFFICES ASSUME LoopInv, [ShellNext]_allVars
             PROVE  LoopInv'
  OBVIOUS
<1>1. TreeInv' /\ LineEntered' /\ Nodes \subseteq Nodes'
  BY ShellStep, TreeNext, LineStep, NodesStay DEF LoopInv
<1>2. CASE StartPrompt
  <2>1. current_dir \in Nodes
    BY TypeFacts DEF LoopInv, TreeInv
  <2>2. 0 \in 0..MAX_PATH - 1
    BY FileSystemAssumption
  <2>3. QED
    BY <1>1, <1>2, <2>1, <2>2 DEF StartPrompt, LoopInv
<1>3. CASE Climb
  <2>1. nodes[node].parent \in Nodes
    <3>1. node \in Nodes \ {root_node} /\ Nodes \subseteq Nat /\ Len(nodes) \in Nat
      BY <1>3, TypeFacts DEF Climb, LoopInv, TreeInv
    <3>2. nodes[node].parent \in 1..node - 1
      BY <3>1 DEF LoopInv, TreeInv, TreeOK
    <3>3. QED
      BY <3>1, <3>2 DEF Nodes
  <2>2. path_len + Len(nodes[node].name) + 1 \in 0..MAX_PATH - 1
    <3> DEFINE n == Len(nodes[node].name)
    <3>1. n \in Nat
      BY TypeFacts, LenProperties DEF LoopInv, TreeInv
    <3>2. path_len + n + 1 < MAX_PATH
      BY <1>3 DEF Climb, NameFits
    <3> HIDE DEF n
    <3>3. path_len \in Nat /\ MAX_PATH \in Nat
      BY FileSystemAssumption DEF LoopInv
    <3>4. path_len + n + 1 \in 0..MAX_PATH - 1
      BY <3>1, <3>2, <3>3
    <3>5. QED
      BY <3>4 DEF n
  <2>3. node' = nodes[node].parent /\ path_len' = path_len + Len(nodes[node].name) + 1
        /\ UNCHANGED <<at, buffer, color, orig, original>>
    BY <1>3 DEF Climb
  <2>4. QED
    BY <1>1, <2>1, <2>2, <2>3 DEF LoopInv
<1>4. CASE ShowPrompt
  BY <1>1, <1>4 DEF ShowPrompt, LoopInv, pathVars, Colors, WHITE, BLACK
<1>5. ASSUME NEW line \in Lines, ReadLine(line)
      PROVE  LoopInv'
  BY <1>1, <1>5 DEF ReadLine, LoopInv, pathVars
<1>6. CASE RunCommand \/ Colored
  <2>1. CASE RunCommand
    BY <1>1, <2>1, ColorsTyped DEF RunCommand, LoopInv, pathVars
  <2>2. CASE print_available_colors \/ announce
    BY <1>1, <2>2 DEF print_available_colors, announce, PrintIn, LoopInv, pathVars,
                      Colors, WHITE, BLACK, GREY
  <2>3. CASE Restore
    BY <1>1, <2>3 DEF Restore, LoopInv, pathVars
  <2>4. QED
    BY <1>6, <2>1, <2>2, <2>3 DEF Colored
<1>7. CASE UNCHANGED allVars
  BY <1>1, <1>7 DEF allVars, shellVars, pathVars, LoopInv
<1>8. QED
  BY <1>2, <1>3, <1>4, <1>5, <1>6, <1>7 DEF ShellNext, Prompt

(* The path of the prompt never leaves its buffer, however deep the tree   *)
(* and whatever the names, and neither do names theirs; directories and    *)
(* the heap hold no more nodes than they have room for.                    *)
THEOREM LoopTyped == ShellSpec => []ShellTypeOK
<1>1. LoopInv => ShellTypeOK
  BY DEF LoopInv, TreeInv, ShellTypeOK
<1>2. QED
  BY <1>1, LoopInit, LoopStep, PTL DEF ShellSpec

-----------------------------------------------------------------------------
(* The path of the prompt.  Moved to the right from their last byte on,    *)
(* bytes are read before they are written over.                            *)
IsCopying(f, mem, dst, src, n) ==
  /\ memmove(mem, dst, src, n) = f[n]
  /\ f[0] = mem
  /\ \A k \in 1..n : f[k] = [f[k - 1] EXCEPT ![dst + (n - k)] = f[k - 1][src + (n - k)]]

LEMMA CopyingDefined ==
  ASSUME NEW B, NEW size \in Nat, NEW mem \in [0..size - 1 -> B],
         NEW dst \in Nat, NEW src \in Nat, NEW n \in Nat, src <= dst, dst + n <= size
  PROVE  \E f : IsCopying(f, mem, dst, src, n)
<1> DEFINE V == [0..size - 1 -> B]
           Eq(h) == h = [k \in 0..n |->
                           LET i == IF dst < src THEN k - 1 ELSE n - k
                           IN  IF k = 0 THEN mem
                               ELSE [h[k - 1] EXCEPT ![dst + i] = h[k - 1][src + i]]]
           F == CHOOSE h : Eq(h)
           Step == [k \in 1..n |->
                      [m \in V |-> [m EXCEPT ![dst + (n - k)] = m[src + (n - k)]]]]
<1>1. Step \in Steps(n, V)
  <2>1. ASSUME NEW k \in 1..n, NEW m \in V
        PROVE  [m EXCEPT ![dst + (n - k)] = m[src + (n - k)]] \in V
    <3>1. src + (n - k) \in 0..size - 1
      OBVIOUS
    <3> DEFINE b == m[src + (n - k)]
               to == dst + (n - k)
    <3>2. b \in B
      BY <3>1
    <3> HIDE DEF b, to
    <3>3. [m EXCEPT ![to] = b] \in V
      BY <3>2
    <3> QED
      BY <3>3 DEF b, to
  <2> HIDE DEF V
  <2> QED
    BY <2>1 DEF Steps
<1>2. PICK g : Iteration(g, mem, n, Step, V)
  <2> HIDE DEF Step
  <2>1. mem \in V
    OBVIOUS
  <2> HIDE DEF V
  <2> QED
    BY <1>1, <2>1, Iterates, Zenon
<1>3. g \in [0..n -> V] /\ g[0] = mem /\ \A k \in 1..n : g[k] = Step[k][g[k - 1]]
  BY <1>2 DEF Iteration
<1> HIDE DEF V
<1>4. \A k \in 1..n : k - 1 \in 0..n /\ k \in 0..n /\ k # 0
  OBVIOUS
<1>5. ASSUME NEW k \in 1..n
      PROVE  g[k] = [g[k - 1] EXCEPT ![dst + (n - k)] = g[k - 1][src + (n - k)]]
  <2>1. g[k - 1] \in V
    BY <1>3, <1>4
  <2> QED
    BY <1>3, <2>1
<1>6. (\A k \in 0..n : k = 0 \/ k \in 1..n) /\ 0 \in 0..n /\ ~(dst < src)
  OBVIOUS
<1>7. Eq(F)
  <2> DEFINE Body(h, k) == LET i == IF dst < src THEN k - 1 ELSE n - k
                           IN  IF k = 0 THEN mem
                               ELSE [h[k - 1] EXCEPT ![dst + i] = h[k - 1][src + i]]
  <2>1. ASSUME NEW k \in 0..n PROVE g[k] = Body(g, k)
    BY <1>3, <1>4, <1>5, <1>6, Zenon
  <2>2. g = [k \in 0..n |-> g[k]]
    BY <1>3
  <2>3. Eq(g)
    BY <2>1, <2>2, Zenon
  <2>4. \E h : Eq(h)
    BY <2>3, Zenon
  <2> HIDE DEF Eq
  <2> QED
    BY <2>4
<1>8. memmove(mem, dst, src, n) = F[n]
  BY DEF memmove
<1> HIDE DEF F
<1>9. F[0] = mem
  BY <1>6, <1>7, Zenon
<1>10. ASSUME NEW k \in 1..n
       PROVE  F[k] = [F[k - 1] EXCEPT ![dst + (n - k)] = F[k - 1][src + (n - k)]]
  BY <1>4, <1>6, <1>7, Zenon
<1> QED
  BY <1>8, <1>9, <1>10, Zenon DEF IsCopying

Moved(result, mem, dst, src, n, size, B) ==
  /\ result \in [0..size - 1 -> B]
  /\ \A j \in 0..size - 1 :
       result[j] = IF dst <= j /\ j < dst + n THEN mem[src + (j - dst)] ELSE mem[j]

LEMMA MemmoveRight ==
  ASSUME NEW B, NEW size \in Nat, NEW mem \in [0..size - 1 -> B],
         NEW dst \in Nat, NEW src \in Nat, NEW n \in Nat, src <= dst, dst + n <= size
  PROVE  Moved(memmove(mem, dst, src, n), mem, dst, src, n, size, B)
<1> DEFINE V == [0..size - 1 -> B]
<1>1. PICK f : IsCopying(f, mem, dst, src, n)
  BY CopyingDefined
<1> DEFINE Done(k) == /\ f[k] \in V
                      /\ \A j \in 0..size - 1 :
                           f[k][j] = IF dst + (n - k) <= j /\ j < dst + n
                                     THEN mem[src + (j - dst)] ELSE mem[j]
           S == {k \in Nat : k <= n => Done(k)}
<1>2. f[0] = mem /\ memmove(mem, dst, src, n) = f[n]
  BY <1>1 DEF IsCopying
<1>3. 0 \in S
  BY <1>2
<1>4. ASSUME NEW m \in Nat, m \in S PROVE m + 1 \in S
  <2> SUFFICES ASSUME m + 1 <= n PROVE Done(m + 1)
    OBVIOUS
  <2> DEFINE k == m + 1
             to == dst + (n - k)
             from == src + (n - k)
  <2>1. k \in 1..n /\ k - 1 = m /\ k \in Nat
    OBVIOUS
  <2>2. Done(m)
    BY <1>4
  <2>3. f[k] = [f[m] EXCEPT ![to] = f[m][from]]
    <3> HIDE DEF k
    <3> QED
      BY <1>1, <2>1, Zenon DEF IsCopying
  <2>4. /\ to \in 0..size - 1 /\ from \in 0..size - 1 /\ from < dst + (n - m)
        /\ to + 1 = dst + (n - m) /\ from = src + (to - dst) /\ to < dst + n /\ from < to + 1
    OBVIOUS
  <2>5. f[m][from] = mem[from] /\ mem[from] \in B
    <3>1. ~(dst + (n - m) <= from)
      BY <2>4
    <3> HIDE DEF from, to, k
    <3> QED
      BY <2>2, <2>4, <3>1
  <2>6. f[k] \in V
    <3> HIDE DEF to, from, k
    <3>1. f[m] \in V
      BY <2>2
    <3> QED
      BY <2>3, <2>5, <3>1
  <2>7. ASSUME NEW j \in 0..size - 1
        PROVE  f[k][j] = IF to <= j /\ j < dst + n THEN mem[src + (j - dst)] ELSE mem[j]
    <3>1. f[k][j] = IF j = to THEN mem[from] ELSE f[m][j]
      <4> HIDE DEF to, from, k
      <4>1. f[m] \in V
        BY <2>2
      <4> QED
        BY <2>3, <2>5, <4>1
    <3>2. f[m][j] = IF dst + (n - m) <= j /\ j < dst + n THEN mem[src + (j - dst)] ELSE mem[j]
      BY <2>2
    <3>3. CASE j = to
      <4>1. mem[src + (j - dst)] = mem[from] /\ to <= j /\ j < dst + n
        BY <2>4, <3>3
      <4> HIDE DEF to, from, k
      <4> QED
        BY <3>1, <3>3, <4>1, Zenon
    <3>4. CASE j # to
      <4>1. (to <= j) <=> (dst + (n - m) <= j)
        <5> HIDE DEF from, V, Done, S
        <5> QED
          BY <2>4, <3>4
      <4> HIDE DEF to, from, k
      <4> QED
        BY <3>1, <3>2, <3>4, <4>1, Zenon
    <3> QED
      BY <3>3, <3>4
  <2>8. Done(k)
    <3> HIDE DEF V, k
    <3> QED
      BY <2>6, <2>7, Zenon
  <2> QED
    BY <2>8
<1>5. n \in S
  <2> HIDE DEF S
  <2> QED
    BY <1>3, <1>4, SetInduction
<1>6. Done(n) /\ dst + (n - n) = dst
  BY <1>5
<1> HIDE DEF V
<1>7. f[n] \in V /\ \A j \in 0..size - 1 :
        f[n][j] = IF dst <= j /\ j < dst + n THEN mem[src + (j - dst)] ELSE mem[j]
  BY <1>6, Zenon
<1> QED
  BY <1>2, <1>7, Zenon DEF V, Moved

(* Climbing: above node, len bytes of mem hold the names of the last k     *)
(* nodes of the way, and so many are left below the root.                  *)
Partly(nd, mem, len, k) ==
  /\ Way[nd] = SubSeq(Way[current_dir], 1, Len(Way[current_dir]) - k)
  /\ len = Len(AsString(Ending(Way[current_dir], k)))
  /\ mem \in [0..MAX_PATH - 1 -> Chars \union {"NUL"}]
  /\ \A i \in 1..len : mem[i - 1] = AsString(Ending(Way[current_dir], k))[i]

LEMMA PartlyStays ==
  ASSUME UNCHANGED <<nodes, current_dir>>
  PROVE  /\ Way' = Way /\ get_current_path' = get_current_path
         /\ \A nd, mem, len, k : Partly(nd, mem, len, k)' <=> Partly(nd, mem, len, k)
<1>1. Way' = Way
  BY DEF Way, Nodes
<1>2. \A w : AsString(w)' = AsString(w)
  BY DEF AsString
<1>3. get_current_path' = get_current_path
  BY DEF get_current_path, Way, Kept, AsString, Nodes
<1>4. ASSUME NEW nd, NEW mem, NEW len, NEW k
      PROVE  Partly(nd, mem, len, k)' <=> Partly(nd, mem, len, k)
  BY <1>1, <1>2 DEF Partly, Ending
<1> QED
  BY <1>1, <1>3, <1>4

LEMMA WayHere ==
  ASSUME TypeOK, TreeOK
  PROVE  /\ current_dir \in Nodes /\ Way[current_dir] \in Seq(Nodes)
         /\ Len(Way[current_dir]) \in Nat
BY TypeFacts, WayType

LEMMA PartlyNothing ==
  ASSUME TypeOK, TreeOK
  PROVE  Partly(current_dir, Garbage, 0, 0)
<1> DEFINE way == Way[current_dir]
<1>1. way \in Seq(Nodes) /\ Len(way) \in Nat
  BY WayHere
<1>2. SubSeq(way, 1, Len(way) - 0) = way
  <2>1. Len(way) - 0 = Len(way)
    BY <1>1
  <2>2. SubSeq(way, 1, Len(way)) = way
    BY <1>1, SubSeqFull
  <2> QED
    BY <2>1, <2>2, Zenon
<1>3. Ending(way, 0) = <<>>
  <2>1. 0 \in 0..Len(way)
    BY <1>1
  <2> QED
    BY <1>1, <2>1, EndingType
<1>4. Len(AsString(Ending(way, 0))) = 0
  BY <1>3, AsStringEmpty, EmptySeq
<1>5. Garbage \in [0..MAX_PATH - 1 -> Chars \union {"NUL"}]
  BY DEF Garbage
<1>6. 1..0 = {}
  OBVIOUS
<1> QED
  BY <1>2, <1>4, <1>5, <1>6, Zenon DEF Partly

(* Where a climb stands: the next name, and what it makes of the path.     *)
LEMMA PartlyNode ==
  ASSUME TypeOK, TreeOK, NEW nd \in Nodes \ {root_node}, NEW mem, NEW len,
         NEW k \in 0..Len(Way[current_dir]), Partly(nd, mem, len, k)
  PROVE  LET way == Way[current_dir]
             p == nodes[nd].parent
         IN  /\ k + 1 \in 0..Len(way)
             /\ Way[p] = SubSeq(way, 1, Len(way) - (k + 1))
             /\ AsString(Ending(way, k + 1)) = Piece(nd) \o AsString(Ending(way, k))
<1> DEFINE way == Way[current_dir]
           p == nodes[nd].parent
           n == Len(way)
           below == n - k
<1>1. /\ way \in Seq(Nodes) /\ n \in Nat /\ k \in Nat /\ nd \in Nodes /\ p \in Nodes
      /\ Way[p] \in Seq(Nodes) /\ Way[nd] \in Seq(Nodes)
  BY WayHere, WayType, ParentBefore
<1>2. Way[nd] = Append(Way[p], nd)
  BY WayOf, Zenon
<1>3. Way[nd] = SubSeq(way, 1, below)
  BY DEF Partly
<1>4. below \in 1..n
  <2>1. Len(Way[nd]) = Len(Way[p]) + 1 /\ Len(Way[p]) \in Nat
    BY <1>1, <1>2, AppendProperties, LenProperties
  <2>2. Len(Way[nd]) = IF 1 <= below THEN below - 1 + 1 ELSE 0
    <3>1. below \in Int /\ \A i \in 1..below : way[i] \in Nodes
      <4>1. \A i \in 1..n : way[i] \in Nodes
        BY <1>1, ElementOfSeq
      <4> HIDE DEF way
      <4> QED
        BY <1>1, <4>1
    <3> HIDE DEF below, way
    <3> QED
      BY <1>3, <3>1, SubSeqProperties
  <2> HIDE DEF way, p
  <2> QED
    BY <1>1, <2>1, <2>2
<1>5. way[below] \in Nodes
  BY <1>1, <1>4, ElementOfSeq
<1>6. Way[nd] = Append(SubSeq(way, 1, below - 1), way[below])
      /\ SubSeq(way, 1, below - 1) \in Seq(Nodes)
  <2>1. 1 \in 1..n /\ below \in 1..n /\ below - 1 \in Int /\ \A i \in 1..below - 1 : i \in 1..n
    BY <1>1, <1>4
  <2> HIDE DEF below
  <2>2. SubSeq(way, 1, below) = SubSeq(way, 1, below - 1) \o <<way[below]>>
    BY <1>1, <2>1, SubSeqRecursiveSecond
  <2>3. SubSeq(way, 1, below - 1) \in Seq(Nodes)
    <3>1. \A i \in 1..below - 1 : way[i] \in Nodes
      BY <1>1, <2>1, ElementOfSeq
    <3> QED
      BY <2>1, <3>1, SubSeqProperties
  <2> HIDE DEF way
  <2>4. Append(SubSeq(way, 1, below - 1), way[below]) = SubSeq(way, 1, below - 1) \o <<way[below]>>
    BY <1>5, <2>3, AppendIsConcat
  <2> QED
    BY <1>3, <2>2, <2>3, <2>4, Zenon
<1>7. Way[p] = SubSeq(way, 1, below - 1) /\ nd = way[below]
  <2>1. \A s, t \in Seq(Nodes), a, b \in Nodes : Append(s, a) = Append(t, b) => s = t /\ a = b
    BY AppendInjective
  <2> HIDE DEF way, p, below
  <2> QED
    <3>1. Append(Way[p], nd) = Append(SubSeq(way, 1, below - 1), way[below])
      BY <1>2, <1>6, Zenon
    <3>2. Way[p] \in Seq(Nodes) /\ nd \in Nodes /\ SubSeq(way, 1, below - 1) \in Seq(Nodes)
          /\ way[below] \in Nodes
      BY <1>1, <1>5, <1>6
    <3> QED
      BY <2>1, <3>1, <3>2, Zenon
<1>8. k + 1 \in 0..n /\ k < n /\ n - (k + 1) = below - 1
  <2> HIDE DEF way
  <2> QED
    BY <1>1, <1>4
<1>9. Ending(way, k + 1) = <<nd>> \o Ending(way, k) /\ Ending(way, k) \in Seq(Nodes)
  BY <1>1, <1>7, <1>8, EndingType
<1>10. AsString(Ending(way, k + 1)) = Piece(nd) \o AsString(Ending(way, k))
  BY <1>1, <1>9, AsStringPrepend
<1> QED
  BY <1>7, <1>8, <1>10, Zenon

(* The step up: the bytes there move to the right, the name and a slash go *)
(* in front.                                                               *)
LEMMA PartlyClimb ==
  ASSUME TypeOK, TreeOK, NEW nd \in Nodes \ {root_node}, NEW mem, NEW len \in Nat,
         NEW k \in 0..Len(Way[current_dir]), Partly(nd, mem, len, k),
         len + Len(nodes[nd].name) + 1 < MAX_PATH
  PROVE  LET name == nodes[nd].name
         IN  Partly(nodes[nd].parent,
                    Prefixed(memmove(mem, Len(name) + 1, 0, len), name, "/"),
                    len + Len(name) + 1, k + 1)
<1> DEFINE way == Way[current_dir]
           name == nodes[nd].name
           L == Len(name)
           Memory == [0..MAX_PATH - 1 -> Chars \union {"NUL"}]
           moved == memmove(mem, L + 1, 0, len)
           old == AsString(Ending(way, k))
           new == Piece(nd) \o old
           result == Prefixed(moved, name, "/")
<1>1. /\ k + 1 \in 0..Len(way)
      /\ Way[nodes[nd].parent] = SubSeq(way, 1, Len(way) - (k + 1))
      /\ AsString(Ending(way, k + 1)) = new
  BY PartlyNode
<1>2. /\ name \in Seq(Chars) /\ L \in Nat /\ Piece(nd) \in Seq(Chars)
      /\ Len(Piece(nd)) = L + 1 /\ MAX_PATH \in Nat /\ "/" \in Chars
      /\ \A i \in 1..L : Piece(nd)[i] = name[i] /\ name[i] \in Chars
      /\ Piece(nd)[L + 1] = "/"
  BY PieceType, AppendProperties, ElementOfSeq, FileSystemAssumption DEF Piece
<1>3. old \in Seq(Chars) /\ len = Len(old) /\ mem \in Memory
      /\ \A i \in 1..len : mem[i - 1] = old[i]
  <2>1. Ending(way, k) \in Seq(Nodes)
    BY WayHere, EndingType
  <2> QED
    BY <2>1, AsStringAppend DEF Partly
<1>4. len + L + 1 < MAX_PATH
  OBVIOUS
<1> HIDE DEF L, old, name, way
<1>5. /\ Len(new) = len + L + 1
      /\ \A i \in 1..len + L + 1 : new[i] = IF i <= L + 1 THEN Piece(nd)[i] ELSE old[i - (L + 1)]
  <2>1. /\ Len(new) = L + 1 + len
        /\ \A i \in 1..L + 1 + len : new[i] = IF i <= L + 1 THEN Piece(nd)[i] ELSE old[i - (L + 1)]
    <3>1. /\ Len(new) = Len(Piece(nd)) + Len(old)
          /\ \A i \in 1..Len(Piece(nd)) + Len(old) :
               new[i] = IF i <= Len(Piece(nd)) THEN Piece(nd)[i] ELSE old[i - Len(Piece(nd))]
      BY <1>2, <1>3, ConcatProperties
    <3> HIDE DEF new
    <3> QED
      BY <1>2, <1>3, <3>1, Zenon
  <2>2. L + 1 + len = len + L + 1
    BY <1>2
  <2> HIDE DEF new
  <2> QED
    BY <2>1, <2>2
<1>6. /\ moved \in Memory
      /\ \A j \in 0..MAX_PATH - 1 :
           moved[j] = IF L + 1 <= j /\ j < L + 1 + len THEN mem[0 + (j - (L + 1))] ELSE mem[j]
  <2> DEFINE B == Chars \union {"NUL"}
             to == L + 1
  <2>1. to \in Nat /\ 0 \in Nat /\ 0 <= to /\ to + len <= MAX_PATH /\ MAX_PATH \in Nat
    BY <1>2, <1>4
  <2>2. mem \in [0..MAX_PATH - 1 -> B]
    BY <1>3
  <2> HIDE DEF B, to
  <2>3. /\ memmove(mem, to, 0, len) \in [0..MAX_PATH - 1 -> B]
        /\ \A j \in 0..MAX_PATH - 1 :
             memmove(mem, to, 0, len)[j]
               = IF to <= j /\ j < to + len THEN mem[0 + (j - to)] ELSE mem[j]
    <3>1. Moved(memmove(mem, to, 0, len), mem, to, 0, len, MAX_PATH, B)
      BY <2>1, <2>2, MemmoveRight, Zenon
    <3> QED
      BY <3>1 DEF Moved
  <2> QED
    BY <2>3 DEF B, to
<1> HIDE DEF new, moved
<1>7. result = [i \in 0..MAX_PATH - 1 |-> IF i < L THEN name[i + 1]
                                          ELSE IF i = L THEN "/" ELSE moved[i]]
  BY <1>6 DEF Prefixed, L
<1>8. result \in Memory
  <2>1. ASSUME NEW i \in 0..MAX_PATH - 1, i < L PROVE name[i + 1] \in Chars
    <3>1. i + 1 \in 1..L
      BY <1>2, <2>1
    <3> QED
      BY <1>2, <3>1
  <2> QED
    BY <1>2, <1>6, <1>7, <2>1
<1>9. ASSUME NEW i \in 1..len + L + 1 PROVE result[i - 1] = new[i]
  <2>1. i - 1 \in 0..MAX_PATH - 1 /\ i \in Nat
    BY <1>2, <1>4
  <2>2. CASE i <= L
    <3>1. i - 1 < L /\ i - 1 + 1 = i /\ i \in 1..L /\ i <= L + 1
      BY <1>2, <2>1, <2>2
    <3> QED
      BY <1>2, <1>5, <1>7, <2>1, <3>1
  <2>3. CASE i = L + 1
    <3>1. i - 1 = L /\ ~(i - 1 < L) /\ i <= L + 1
      BY <1>2, <2>3
    <3> QED
      BY <1>2, <1>5, <1>7, <2>1, <2>3, <3>1
  <2>4. CASE i > L + 1
    <3> DEFINE j == i - (L + 1)
    <3>1. /\ ~(i - 1 < L) /\ i - 1 # L /\ L + 1 <= i - 1 /\ i - 1 < L + 1 + len
          /\ j \in 1..len /\ 0 + ((i - 1) - (L + 1)) = j - 1 /\ ~(i <= L + 1)
      BY <1>2, <2>1, <2>4
    <3>2. result[i - 1] = moved[i - 1]
      BY <1>7, <2>1, <3>1
    <3>3. moved[i - 1] = mem[0 + ((i - 1) - (L + 1))]
      BY <1>6, <2>1, <3>1
    <3>4. new[i] = old[j]
      BY <1>5, <3>1
    <3> HIDE DEF j
    <3>5. mem[j - 1] = old[j]
      BY <1>3, <3>1
    <3> QED
      BY <3>1, <3>2, <3>3, <3>4, <3>5, Zenon
  <2> QED
    BY <1>2, <2>1, <2>2, <2>3, <2>4
<1> HIDE DEF result
<1>10. Partly(nodes[nd].parent, result, len + L + 1, k + 1)
  BY <1>1, <1>5, <1>8, <1>9, Zenon DEF Partly, way
<1> QED
  BY <1>10 DEF result, moved, L, name

(* Names only make a path longer.                                          *)
LEMMA LongerEndings ==
  ASSUME TypeOK, TreeOK, NEW k \in Nat, NEW most \in 0..Len(Way[current_dir]), k < most
  PROVE  Len(AsString(Ending(Way[current_dir], k + 1)))
           <= Len(AsString(Ending(Way[current_dir], most)))
<1> DEFINE way == Way[current_dir]
           n == Len(way)
           Size(j) == Len(AsString(Ending(way, j)))
           S == {m \in Nat : k + 1 + m <= n => Size(k + 1) <= Size(k + 1 + m)}
<1>1. way \in Seq(Nodes) /\ n \in Nat
  BY WayHere
<1>2. ASSUME NEW j \in 0..n PROVE Size(j) \in Nat
  <2>1. Ending(way, j) \in Seq(Nodes)
    BY <1>1, EndingType
  <2>2. AsString(Ending(way, j)) \in Seq(Chars)
    BY <1>1, <2>1, AsStringAppend, WayHere
  <2> QED
    BY <2>2, LenProperties
<1>3. ASSUME NEW j \in 0..n, j < n PROVE Size(j) <= Size(j + 1)
  <2> DEFINE nd == way[n - j]
  <2>1. nd \in Nodes
    <3>1. n - j \in 1..n
      BY <1>1, <1>3
    <3> QED
      BY <1>1, <3>1, ElementOfSeq
  <2>2. Ending(way, j) \in Seq(Nodes) /\ Ending(way, j + 1) = <<nd>> \o Ending(way, j)
    BY <1>1, <1>3, EndingType
  <2> HIDE DEF nd
  <2>3. AsString(Ending(way, j + 1)) = Piece(nd) \o AsString(Ending(way, j))
    BY <2>1, <2>2, AsStringPrepend
  <2>4. AsString(Ending(way, j)) \in Seq(Chars) /\ Piece(nd) \in Seq(Chars)
    BY <2>1, <2>2, AsStringAppend, PieceType
  <2>5. Size(j + 1) = Len(Piece(nd)) + Size(j) /\ Len(Piece(nd)) \in Nat
    BY <2>3, <2>4, ConcatProperties, LenProperties
  <2> HIDE DEF Size
  <2> QED
    BY <1>2, <2>5
<1> HIDE DEF Size, n
<1>4. 0 \in S
  <2>1. k + 1 + 0 = k + 1
    OBVIOUS
  <2>2. ASSUME k + 1 <= n PROVE Size(k + 1) <= Size(k + 1)
    <3>1. k + 1 \in 0..n
      BY <1>1, <2>2
    <3>2. Size(k + 1) \in Nat
      BY <1>2, <3>1
    <3> QED
      BY <3>2
  <2> QED
    BY <2>1, <2>2
<1>5. ASSUME NEW m \in Nat, m \in S PROVE m + 1 \in S
  <2> SUFFICES ASSUME k + 1 + (m + 1) <= n PROVE Size(k + 1) <= Size(k + 1 + (m + 1))
    OBVIOUS
  <2> DEFINE a == k + 1
             j == k + 1 + m
  <2>1. a \in 0..n /\ j \in 0..n /\ j < n /\ j + 1 \in 0..n /\ j + 1 = k + 1 + (m + 1)
    BY <1>1
  <2>2. Size(a) <= Size(j)
    BY <1>1, <1>5
  <2> HIDE DEF a, j
  <2>3. Size(j) <= Size(j + 1) /\ Size(a) \in Nat /\ Size(j) \in Nat /\ Size(j + 1) \in Nat
    BY <1>2, <1>3, <2>1
  <2>4. Size(a) <= Size(j + 1)
    BY <2>2, <2>3
  <2> QED
    BY <2>1, <2>4 DEF a
<1>6. \A m \in Nat : m \in S
  <2> HIDE DEF S
  <2> QED
    BY <1>4, <1>5, SetInduction
<1>7. Size(k + 1) <= Size(most)
  <2> DEFINE m == most - (k + 1)
  <2>1. m \in Nat /\ k + 1 + m = most /\ most <= n
    BY <1>1 DEF n
  <2> HIDE DEF m
  <2>2. m \in S
    BY <1>6, <2>1
  <2> QED
    BY <2>1, <2>2
<1> QED
  BY <1>7 DEF Size

(* Where the loop stops is where the names stop fitting.                   *)
LEMMA PartlyDone ==
  ASSUME TypeOK, TreeOK, node \in Nodes, path_len \in 0..MAX_PATH - 1,
         ~(node # root_node /\ NameFits),
         NEW k \in 0..Len(Way[current_dir]), Partly(node, temp, path_len, k)
  PROVE  Slash \o [i \in 1..path_len |-> temp[i - 1]] = get_current_path
<1> DEFINE way == Way[current_dir]
           n == Len(way)
           Size(j) == Len(AsString(Ending(way, j)))
<1>1. way \in Seq(Nodes) /\ n \in Nat /\ MAX_PATH \in Nat
  BY WayHere, FileSystemAssumption
<1>2. path_len = Size(k) /\ k \in Fits(way)
  <2>1. path_len < MAX_PATH /\ path_len = Size(k)
    BY <1>1 DEF Partly
  <2> QED
    BY <2>1 DEF Fits
<1>3. PICK most \in Fits(way) : /\ \A j \in Fits(way) : j <= most
                                /\ Kept(way) = Ending(way, most)
  BY <1>1, KeptIsLongest
<1>4. most \in 0..n /\ Size(most) < MAX_PATH
  BY DEF Fits
<1>5. ASSUME k < most PROVE FALSE
  <2>1. node # root_node
    <3>1. ASSUME node = root_node PROVE FALSE
      <4>1. SubSeq(way, 1, n - k) = <<>>
        BY <3>1, WayOf DEF Partly
      <4>2. n - k \in 1..n
        BY <1>1, <1>4, <1>5
      <4>3. Len(SubSeq(way, 1, n - k)) = IF 1 <= n - k THEN (n - k) - 1 + 1 ELSE 0
        <5>1. n - k \in Int /\ \A i \in 1..n - k : i \in 1..n
          BY <1>1, <4>2
        <5>2. \A i \in 1..n - k : way[i] \in Nodes
          BY <1>1, <5>1, ElementOfSeq
        <5> QED
          BY <5>1, <5>2, SubSeqProperties
      <4>4. Len(SubSeq(way, 1, n - k)) = 0
        BY <4>1, EmptySeq, Zenon
      <4> DEFINE m == n - k
      <4>5. m \in 1..n /\ (IF 1 <= m THEN m - 1 + 1 ELSE 0) = 0
        BY <4>2, <4>3, <4>4, Zenon
      <4> HIDE DEF m, n
      <4> QED
        BY <1>1, <4>5
    <3> QED
      BY <3>1
  <2>2. /\ Size(k + 1) = path_len + Len(nodes[node].name) + 1
        /\ Size(k + 1) \in Nat
    <3>1. AsString(Ending(way, k + 1)) = Piece(node) \o AsString(Ending(way, k))
      BY <2>1, PartlyNode
    <3>2. AsString(Ending(way, k)) \in Seq(Chars)
      BY <1>1, WayHere, EndingType, AsStringAppend
    <3>3. Piece(node) \in Seq(Chars) /\ Len(Piece(node)) = Len(nodes[node].name) + 1
          /\ Len(nodes[node].name) \in Nat
      BY PieceType
    <3>4. Size(k + 1) = Len(Piece(node)) + Size(k)
      BY <3>1, <3>2, <3>3, ConcatProperties
    <3>5. Size(k) = path_len /\ path_len \in Nat
      BY <1>2
    <3> HIDE DEF Size
    <3> QED
      BY <3>3, <3>4, <3>5
  <2>3. ~(Size(k + 1) < MAX_PATH)
    BY <2>1, <2>2, Zenon DEF NameFits
  <2>4. Size(k + 1) <= Size(most)
    BY <1>1, <1>4, <1>5, LongerEndings
  <2>5. Size(most) \in Nat
    BY <1>1, <1>4, WayHere, EndingType, AsStringAppend, LenProperties
  <2> HIDE DEF Size
  <2> QED
    BY <1>1, <1>4, <2>2, <2>3, <2>4, <2>5
<1>6. most = k
  <2>1. k <= most
    BY <1>2, <1>3
  <2> HIDE DEF n, way
  <2>2. k \in Nat /\ most \in Nat
    BY <1>1, <1>4 DEF n, way
  <2> QED
    BY <1>5, <2>1, <2>2
<1> DEFINE s == AsString(Ending(way, k))
<1>7. get_current_path = Slash \o s
  BY <1>3, <1>6, Zenon DEF get_current_path
<1>8. s \in Seq(Chars) /\ Len(s) = path_len /\ \A i \in 1..path_len : temp[i - 1] = s[i]
  BY <1>1, <1>2, WayHere, EndingType, AsStringAppend DEF Partly
<1> HIDE DEF s
<1>9. [i \in 1..path_len |-> temp[i - 1]] = s
  <2>1. s = [i \in 1..path_len |-> s[i]]
    BY <1>8, LenProperties
  <2> QED
    BY <1>8, <2>1, Zenon
<1> QED
  BY <1>7, <1>9, Zenon

Climbing ==
  at = "climb" => \E k \in 0..Len(Way[current_dir]) : Partly(node, temp, path_len, k)

(* The climb goes on from whatever is left in the loop's variables.        *)
LEMMA ClimbsOn ==
  ASSUME UNCHANGED <<nodes, current_dir>>,
         NEW nd, NEW mem, NEW len, NEW k \in 0..Len(Way[current_dir]),
         Partly(nd, mem, len, k), node' = nd, temp' = mem, path_len' = len
  PROVE  Climbing'
<1>1. Way' = Way /\ Partly(nd, mem, len, k)'
  BY PartlyStays
<1> QED
  BY <1>1 DEF Climbing, Partly

PathInv == LoopInv /\ Climbing /\ PathAsMeant

LEMMA PathStep == PathInv /\ [ShellNext]_allVars => PathInv'
<1> SUFFICES ASSUME PathInv, [ShellNext]_allVars
             PROVE  PathInv'
  OBVIOUS
<1>1. LoopInv' /\ LoopInv /\ Climbing /\ PathAsMeant
  BY LoopStep DEF PathInv
<1>2. TypeOK /\ TreeOK /\ node \in Nodes /\ path_len \in 0..MAX_PATH - 1
  BY <1>1 DEF LoopInv, TreeInv
<1>3. CASE StartPrompt
  <2>1. /\ UNCHANGED <<nodes, current_dir>> /\ at' = "climb"
        /\ node' = current_dir /\ temp' = Garbage /\ path_len' = 0
    BY <1>3 DEF StartPrompt, vars
  <2>2. Partly(current_dir, Garbage, 0, 0) /\ 0 \in 0..Len(Way[current_dir])
    BY <1>2, PartlyNothing, WayHere
  <2>3. Climbing'
    BY <2>1, <2>2, ClimbsOn
  <2> QED
    BY <1>1, <2>1, <2>3 DEF PathInv, PathAsMeant
<1>4. CASE Climb
  <2> DEFINE name == nodes[node].name
             parent == nodes[node].parent
             bytes == Prefixed(memmove(temp, Len(name) + 1, 0, path_len), name, "/")
             len == path_len + Len(name) + 1
  <2>1. /\ UNCHANGED <<nodes, current_dir>> /\ at = "climb" /\ at' = "climb"
        /\ node' = parent /\ temp' = bytes /\ path_len' = len
        /\ node # root_node /\ len < MAX_PATH
    BY <1>4 DEF Climb, vars, NameFits
  <2>2. PICK k \in 0..Len(Way[current_dir]) : Partly(node, temp, path_len, k)
    BY <1>1, <2>1 DEF Climbing
  <2>3. Partly(parent, bytes, len, k + 1) /\ k + 1 \in 0..Len(Way[current_dir])
    <3>1. node \in Nodes \ {root_node} /\ path_len \in Nat
      BY <1>2, <2>1
    <3> QED
      BY <1>2, <2>1, <2>2, <3>1, PartlyClimb, PartlyNode
  <2> HIDE DEF bytes, len, parent
  <2>4. Climbing'
    BY <2>1, <2>3, ClimbsOn
  <2> QED
    BY <1>1, <2>1, <2>4 DEF PathInv, PathAsMeant
<1>5. CASE ShowPrompt
  <2>1. /\ UNCHANGED <<nodes, current_dir>> /\ at = "climb" /\ at' = "input"
        /\ ~(node # root_node /\ NameFits)
        /\ current_path' = Slash \o [i \in 1..path_len |-> temp[i - 1]]
    BY <1>5 DEF ShowPrompt, vars
  <2>2. PICK k \in 0..Len(Way[current_dir]) : Partly(node, temp, path_len, k)
    BY <1>1, <2>1 DEF Climbing
  <2>3. current_path' = get_current_path
    BY <1>2, <2>1, <2>2, PartlyDone
  <2>4. get_current_path' = get_current_path
    BY <2>1, PartlyStays
  <2> QED
    BY <1>1, <2>1, <2>3, <2>4 DEF PathInv, Climbing, PathAsMeant
<1>6. ASSUME NEW line \in Lines, ReadLine(line)
      PROVE  PathInv'
  <2>1. at' \in {"top", "dispatch"}
    BY <1>6 DEF ReadLine
  <2> QED
    BY <1>1, <2>1 DEF PathInv, Climbing, PathAsMeant
<1>7. CASE RunCommand \/ Colored
  <2>1. at' \in {"top", "restore", "off"}
    BY <1>7 DEF RunCommand, Colored, print_available_colors, announce, PrintIn, Restore
  <2> QED
    BY <1>1, <2>1 DEF PathInv, Climbing, PathAsMeant
<1>8. CASE UNCHANGED allVars
  <2>1. UNCHANGED <<nodes, current_dir, at, node, temp, path_len, current_path>>
    BY <1>8 DEF allVars, vars, shellVars, pathVars
  <2>2. get_current_path' = get_current_path
    BY <2>1, PartlyStays
  <2>3. CASE at = "climb"
    <3>1. PICK k \in 0..Len(Way[current_dir]) : Partly(node, temp, path_len, k)
      BY <1>1, <2>3 DEF Climbing
    <3>2. Climbing'
      BY <2>1, <3>1, ClimbsOn
    <3> QED
      BY <1>1, <2>1, <2>3, <3>2 DEF PathInv, PathAsMeant
  <2>4. CASE at # "climb"
    BY <1>1, <2>1, <2>2, <2>4 DEF PathInv, Climbing, PathAsMeant
  <2> QED
    BY <2>3, <2>4
<1>9. QED
  BY <1>3, <1>4, <1>5, <1>6, <1>7, <1>8 DEF ShellNext, Prompt

(* The path that comes from shifting bytes in one buffer is the one made   *)
(* of the names of the way, in every tree and for every buffer.            *)
THEOREM PathShifted == ShellSpec => []PathAsMeant
<1>1. ShellInit => PathInv
  BY LoopInit DEF ShellInit, PathInv, Climbing, PathAsMeant
<1>2. PathInv => PathAsMeant
  BY DEF PathInv
<1>3. QED
  BY <1>1, <1>2, PathStep, PTL DEF ShellSpec
=============================================================================
