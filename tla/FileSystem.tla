----------------------------- MODULE FileSystem -----------------------------
(***************************************************************************)
(* The directory tree of src/filesystem.c, which the shell's mkdir, cd, ls *)
(* and pwd work on, and the path the shell shows in its prompt.  A string  *)
(* is a sequence of characters, a node the number of its allocation; the   *)
(* root is the first one.  Nothing is ever deleted.                        *)
(***************************************************************************)
EXTENDS Integers, Sequences, SequencesExt

CONSTANTS
  MAX_FILENAME, MAX_PATH, MAX_FILES,
  Capacity, \* nodes the heap has room for
  Chars,    \* the characters of strings
  Args      \* arguments users give to mkdir and cd

ASSUME FileSystemAssumption ==
  /\ MAX_FILENAME \in Nat /\ MAX_FILENAME > 1
  /\ MAX_PATH \in Nat /\ MAX_PATH > 1
  /\ MAX_FILES \in Nat
  /\ Capacity \in Nat \ {0}
  /\ {".", "/"} \subseteq Chars /\ Args \subseteq Seq(Chars)

NULL == 0
root_node == 1
Dot == <<".">>
DotDot == <<".", ".">>
Slash == <<"/">>
Special == {Dot, DotDot, Slash}

VARIABLES
  nodes,       \* the nodes allocated so far, in that order
  current_dir,
  visited      \* history: the directories the shell has been in

vars == <<nodes, current_dir, visited>>

Nodes == 1..Len(nodes)

Node == [name : Seq(Chars), parent : Nat, children : Seq(Nat)]

(* The first n characters of a string, as strncpy and a terminator keep.   *)
Truncate(s, n) == SubSeq(s, 1, IF Len(s) < n THEN Len(s) ELSE n)

ShorterName(name) == Truncate(name, MAX_FILENAME - 2)

StoredName(name) == Truncate(name, MAX_FILENAME - 1)

(* fs_create_node, and the parent its caller sets.                         *)
NewNode(name, parent) ==
  [name |-> StoredName(name), parent |-> parent, children |-> <<>>]

(* The last child, instead of the first one, that has this name.           *)
LastChild(dir, name) ==
  LET kids == nodes[dir].children
      same == {i \in DOMAIN kids : nodes[kids[i]].name = name}
  IN  IF same = {} THEN NULL
      ELSE kids[CHOOSE i \in same : \A j \in same : j <= i]

(* The loop over a directory's children: the first one that has this name. *)
Child(dir, name) ==
  LET kids == nodes[dir].children
      same == {i \in DOMAIN kids : nodes[kids[i]].name = name}
  IN  IF same = {} THEN NULL
      ELSE kids[CHOOSE i \in same : \A j \in same : i <= j]

ParentOrSelf(dir) == IF nodes[dir].parent # NULL THEN nodes[dir].parent ELSE dir

(* fs_init, with the heap still empty.                                     *)
Init ==
  /\ nodes = << NewNode(Slash, NULL) >>
  /\ current_dir = root_node
  /\ visited = {root_node}

HasRoomForOneMore(dir) == Len(nodes[dir].children) <= MAX_FILES

HasRoom(dir) == Len(nodes[dir].children) < MAX_FILES

(* When it refuses (no name, a full directory, malloc failed) fs_mkdir     *)
(* changes nothing.                                                        *)
fs_mkdir_without_parent(path) ==
  /\ path # <<>>
  /\ HasRoom(current_dir)
  /\ Len(nodes) < Capacity
  /\ nodes' = Append([nodes EXCEPT ![current_dir].children =
                                      Append(@, Len(nodes) + 1)],
                     NewNode(path, NULL))
  /\ UNCHANGED <<current_dir, visited>>

fs_mkdir(path) ==
  /\ path # <<>>
  /\ HasRoom(current_dir)
  /\ Len(nodes) < Capacity
  /\ nodes' = Append([nodes EXCEPT ![current_dir].children =
                                      Append(@, Len(nodes) + 1)],
                     NewNode(path, current_dir))
  /\ UNCHANGED <<current_dir, visited>>

(* Where cd goes from directory dir; NULL is "No such directory".          *)
CdTarget(dir, path) ==
  IF path = Dot THEN dir
  ELSE IF path = DotDot THEN ParentOrSelf(dir)
  ELSE IF path = Slash THEN root_node
  ELSE Child(dir, path)

fs_cd(path) ==
  /\ CdTarget(current_dir, path) # NULL
  /\ current_dir' = CdTarget(current_dir, path)
  /\ visited' = visited \union {current_dir'}
  /\ UNCHANGED nodes

Next == \E path \in Args : fs_mkdir(path) \/ fs_cd(path)

Spec == Init /\ [][Next]_vars

-----------------------------------------------------------------------------
(* The functions that only read the tree.                                  *)

(* From directory d by one piece of a path; strtok hands out none that is  *)
(* empty, and NULL stays NULL.                                             *)
Enter(d, token) ==
  IF d = NULL \/ token \in {<<>>, Dot} THEN d
  ELSE IF token = DotDot THEN ParentOrSelf(d)
  ELSE Child(d, token)

(* The loop over strtok(s, "/") from directory dir: where it stands, and   *)
(* the piece it is in, after so many characters of s.                      *)
Walk(dir, s) ==
  LET After[i \in 0..Len(s)] ==
        IF i = 0 THEN [dir |-> dir, token |-> <<>>]
        ELSE IF s[i] = "/"
             THEN [dir |-> Enter(After[i - 1].dir, After[i - 1].token), token |-> <<>>]
             ELSE [dir |-> After[i - 1].dir, token |-> Append(After[i - 1].token, s[i])]
  IN  After[Len(s)]

(* The directory ls lists when the shell is in dir, NULL if there is none. *)
fs_path_to_node(dir, path) ==
  LET end == Walk(dir, Truncate(path, MAX_PATH - 1))
  IN  IF path = <<>> THEN dir
      ELSE IF path = Slash THEN root_node
      ELSE Enter(end.dir, end.token)

(* The nodes below the root on the way to node n, n last.                  *)
Way[n \in Nodes] == IF n = root_node THEN <<>> ELSE Append(Way[nodes[n].parent], n)

(* "Add new directory name": every name is followed by a slash.            *)
AsString(way) == FlattenSeq([i \in DOMAIN way |-> Append(nodes[way[i]].name, "/")])

(* The deepest nodes whose names, put in front of one another from the     *)
(* current directory upwards, leave the loop's break condition false.      *)
KeptReversed(way) ==
  LET fits == {k \in 0..Len(way) :
                 Len(AsString(SubSeq(way, Len(way) - k + 1, Len(way)))) < MAX_PATH}
      most == CHOOSE k \in fits : \A j \in fits : j <= k
  IN  Reverse(SubSeq(way, Len(way) - most + 1, Len(way)))

Kept(way) ==
  LET fits == {k \in 0..Len(way) :
                 Len(AsString(SubSeq(way, Len(way) - k + 1, Len(way)))) < MAX_PATH}
      most == CHOOSE k \in fits : \A j \in fits : j <= k
  IN  SubSeq(way, Len(way) - most + 1, Len(way))

(* The path in the prompt, and, computed the same way, the one pwd prints. *)
get_current_path == Slash \o AsString(Kept(Way[current_dir]))

-----------------------------------------------------------------------------
TypeOK ==
  /\ nodes \in Seq(Node)
  /\ Len(nodes) \in 1..Capacity
  /\ \A n \in Nodes : /\ Len(nodes[n].name) < MAX_FILENAME
                      /\ Len(nodes[n].children) <= MAX_FILES
  /\ current_dir \in Nodes
  /\ visited \subseteq Nodes

(* The nodes form a tree under the root: each is in the children of its    *)
(* parent, in no other place, and was allocated after its parent, so that  *)
(* the loops that climb to the root come to an end.                        *)
TreeOK ==
  /\ nodes[root_node].parent = NULL
  /\ \A n \in Nodes \ {root_node} :
       /\ nodes[n].parent \in 1..n - 1
       /\ \E i \in DOMAIN nodes[nodes[n].parent].children :
            nodes[nodes[n].parent].children[i] = n
  /\ \A d \in Nodes : \A i, j \in DOMAIN nodes[d].children :
       /\ nodes[d].children[i] \in Nodes \ {root_node}
       /\ nodes[nodes[d].children[i]].parent = d
       /\ i < j => nodes[d].children[i] < nodes[d].children[j]

(* fs_mkdir does not look for a directory of the same name, and of two     *)
(* that have it cd enters one; a directory the shell has been in stays     *)
(* reachable from the root by the names it was entered by all the same.    *)
VisitedReachable ==
  /\ current_dir \in visited
  /\ \A n \in visited \ {root_node} :
       /\ nodes[n].parent \in visited
       /\ CdTarget(nodes[n].parent, nodes[n].name) = n

(* A directory made under a name that is not cut off, that cd does not     *)
(* take for something else and that no directory next to it has, is the    *)
(* one cd enters by that name.  (A second one of the same name, which      *)
(* fs_mkdir makes too, is never entered.)                                  *)
MkdirEnterable ==
  [][\A path \in Args :
       /\ path \notin Special /\ Len(path) < MAX_FILENAME
       /\ Child(current_dir, path) = NULL
       /\ fs_mkdir(path)
       => CdTarget(current_dir, path)' = Len(nodes')]_vars

(* Names that have no slash in them and are not special.                   *)
Plain(n) == n = root_node \/ (nodes[n].name \notin Special
                              /\ \A i \in DOMAIN nodes[n].name : nodes[n].name[i] # "/")

PathComplete == Len(Kept(Way[current_dir])) = Len(Way[current_dir])

(* The path the prompt shows leads back, from the root, to the current     *)
(* directory: building a path and following one agree.                     *)
PathLeadsBack ==
  PathComplete /\ (\A i \in DOMAIN Way[current_dir] : Plain(Way[current_dir][i]))
    => fs_path_to_node(root_node, get_current_path) = current_dir

(* "Add leading slash and null terminator" (src/kernel.c): with both, the  *)
(* path takes no more than the MAX_PATH bytes of kmain's current_path.     *)
PromptPathFits == Len(get_current_path) + 1 <= MAX_PATH
=============================================================================
