-------------------------- MODULE FileSystemProofs --------------------------
(* Proofs about module FileSystem, for limits and arguments of any kind.   *)
EXTENDS FileSystem, SequenceTheorems, WellFoundedInduction, TLAPS

TreeInv == TypeOK /\ TreeOK /\ VisitedReachable

LEMMA NatMinimum ==
  ASSUME NEW T, T \subseteq Nat, T # {}
  PROVE  \E x \in T : \A y \in T : x <= y
<1> DEFINE R == OpToRel(<, Nat)
<1>1. IsWellFoundedOn(R, Nat)
  BY NatLessThanWellFounded
<1>2. PICK x \in T : \A y \in T : ~(<<y, x>> \in R)
  <2> HIDE DEF R
  <2>1. QED
    BY <1>1, WFMin
<1>3. ASSUME NEW y \in T PROVE x <= y
  <2>1. x \in Nat /\ y \in Nat
    OBVIOUS
  <2>2. <<y, x>> \notin R
    BY <1>2
  <2>3. ~(y < x)
    BY <2>1, <2>2 DEF OpToRel
  <2>4. QED
    BY <2>1, <2>3
<1>4. QED
  BY <1>3

(* A name is cut off to what fits, and only then.                          *)
LEMMA TruncateLength ==
  ASSUME NEW s \in Seq(Chars), NEW n \in Nat
  PROVE  /\ Truncate(s, n) \in Seq(Chars)
         /\ Len(Truncate(s, n)) <= n
         /\ Len(s) <= n => Truncate(s, n) = s
<1> DEFINE m == IF Len(s) < n THEN Len(s) ELSE n
<1>1. Len(s) \in Nat /\ m \in 0..Len(s) /\ m <= n
  BY LenProperties
<1>2. /\ SubSeq(s, 1, m) \in Seq(Chars)
      /\ Len(SubSeq(s, 1, m)) = IF 1 <= m THEN m - 1 + 1 ELSE 0
  BY <1>1, SubSeqProperties
<1>3. Len(s) <= n => m = Len(s)
  BY <1>1
<1>4. SubSeq(s, 1, Len(s)) = s
  BY SubSeqFull
<1> HIDE DEF m
<1>5. Truncate(s, n) = SubSeq(s, 1, m)
  BY DEF Truncate, m
<1>6. Len(SubSeq(s, 1, m)) <= n
  BY <1>1, <1>2
<1>7. Len(s) <= n => SubSeq(s, 1, m) = s
  BY <1>3, <1>4
<1>8. QED
  BY <1>2, <1>5, <1>6, <1>7

(* The loop of cd finds the first child that has the name, if any has it.  *)
LEMMA ChildIsFirst ==
  ASSUME NEW dir, NEW name, nodes[dir].children \in Seq(Nat)
  PROVE  \/ /\ Child(dir, name) = NULL
            /\ \A i \in DOMAIN nodes[dir].children :
                 nodes[nodes[dir].children[i]].name # name
         \/ \E i \in DOMAIN nodes[dir].children :
              /\ Child(dir, name) = nodes[dir].children[i]
              /\ nodes[nodes[dir].children[i]].name = name
              /\ \A j \in DOMAIN nodes[dir].children :
                   nodes[nodes[dir].children[j]].name = name => i <= j
<1> DEFINE kids == nodes[dir].children
           same == {i \in DOMAIN kids : nodes[kids[i]].name = name}
<1>1. CASE same = {}
  BY <1>1 DEF Child
<1>2. CASE same # {}
  <2>1. DOMAIN kids \subseteq Nat
    BY LenProperties
  <2>2. \E i \in same : \A j \in same : i <= j
    BY <1>2, <2>1, NatMinimum
  <2> DEFINE first == CHOOSE i \in same : \A j \in same : i <= j
  <2>3. first \in same /\ \A j \in same : first <= j
    BY <2>2
  <2>4. Child(dir, name) = kids[first]
    BY <1>2 DEF Child
  <2> HIDE DEF first
  <2>5. QED
    BY <2>3, <2>4
<1>3. QED
  BY <1>1, <1>2

(* There is only one first.                                                *)
LEMMA FirstIsChild ==
  ASSUME NEW dir, NEW name, nodes[dir].children \in Seq(Nat),
         NEW i \in DOMAIN nodes[dir].children,
         nodes[nodes[dir].children[i]].name = name,
         \A j \in DOMAIN nodes[dir].children :
            nodes[nodes[dir].children[j]].name = name => i <= j
  PROVE  Child(dir, name) = nodes[dir].children[i]
<1>1. DOMAIN nodes[dir].children \subseteq Nat
  BY LenProperties
<1>2. \A k \in DOMAIN nodes[dir].children :
        (/\ nodes[nodes[dir].children[k]].name = name
         /\ \A j \in DOMAIN nodes[dir].children :
              nodes[nodes[dir].children[j]].name = name => k <= j) => k = i
  BY <1>1
<1>3. QED
  BY <1>2 DEF Child

LEMMA NewNodeType ==
  ASSUME NEW path \in Seq(Chars), NEW p \in Nat
  PROVE  /\ NewNode(path, p) \in Node
         /\ NewNode(path, p).name = StoredName(path)
         /\ NewNode(path, p).parent = p
         /\ NewNode(path, p).children = <<>>
         /\ Len(StoredName(path)) < MAX_FILENAME
         /\ Len(path) < MAX_FILENAME => StoredName(path) = path
<1>1. MAX_FILENAME - 1 \in Nat
  BY FileSystemAssumption
<1>2. /\ StoredName(path) \in Seq(Chars)
      /\ Len(StoredName(path)) <= MAX_FILENAME - 1
      /\ Len(path) <= MAX_FILENAME - 1 => StoredName(path) = path
  BY <1>1, TruncateLength DEF StoredName
<1>3. Len(path) \in Nat /\ Len(StoredName(path)) \in Nat
  BY <1>2, LenProperties
<1>4. <<>> \in Seq(Nat)
  BY EmptySeq
<1>5. QED
  BY <1>1, <1>2, <1>3, <1>4, FileSystemAssumption DEF NewNode, Node

(* What fs_mkdir changes: a node more, and one more child of the current   *)
(* directory.                                                              *)
LEMMA MkdirEffect ==
  ASSUME TypeOK, NEW path \in Args, fs_mkdir(path)
  PROVE  /\ Len(nodes') = Len(nodes) + 1 /\ nodes' \in Seq(Node)
         /\ nodes'[Len(nodes) + 1] = NewNode(path, current_dir)
         /\ \A n \in Nodes : /\ nodes'[n].name = nodes[n].name
                             /\ nodes'[n].parent = nodes[n].parent
         /\ \A n \in Nodes \ {current_dir} : nodes'[n].children = nodes[n].children
         /\ nodes'[current_dir].children
              = Append(nodes[current_dir].children, Len(nodes) + 1)
<1> DEFINE new == Len(nodes) + 1
           kids == Append(nodes[current_dir].children, new)
           changed == [nodes EXCEPT ![current_dir].children = kids]
<1>1. /\ nodes \in Seq(Node) /\ Len(nodes) \in Nat /\ current_dir \in 1..Len(nodes)
      /\ \A n \in Nodes : nodes[n] \in Node
  BY LenProperties, ElementOfSeq DEF TypeOK, Nodes
<1>2. current_dir \in Nat /\ new \in Nat /\ path \in Seq(Chars)
  BY <1>1, FileSystemAssumption
<1>3. nodes[current_dir].children \in Seq(Nat) /\ kids \in Seq(Nat)
  BY <1>1, <1>2, AppendProperties DEF Nodes, Node
<1>4. [nodes[current_dir] EXCEPT !.children = kids] \in Node
  BY <1>1, <1>3 DEF Nodes, Node
<1>5. changed = [nodes EXCEPT ![current_dir] = [nodes[current_dir] EXCEPT !.children = kids]]
  OBVIOUS
<1>6. /\ changed \in Seq(Node) /\ Len(changed) = Len(nodes)
      /\ changed[current_dir] = [nodes[current_dir] EXCEPT !.children = kids]
      /\ \A n \in Nodes \ {current_dir} : changed[n] = nodes[n]
  <2> HIDE DEF kids, changed
  <2>1. QED
    BY <1>1, <1>4, <1>5, ExceptSeq DEF Nodes
<1>7. NewNode(path, current_dir) \in Node
  BY <1>2, NewNodeType
<1>8. nodes' = Append(changed, NewNode(path, current_dir))
  BY DEF fs_mkdir
<1> HIDE DEF changed
<1>9. /\ nodes' \in Seq(Node) /\ Len(nodes') = Len(nodes) + 1
      /\ nodes'[Len(nodes) + 1] = NewNode(path, current_dir)
      /\ \A n \in Nodes : nodes'[n] = changed[n]
  BY <1>6, <1>7, <1>8, AppendProperties DEF Nodes
<1>10. /\ changed[current_dir].name = nodes[current_dir].name
       /\ changed[current_dir].parent = nodes[current_dir].parent
       /\ changed[current_dir].children = kids
  BY <1>1, <1>6 DEF Nodes, Node
<1>11. QED
  BY <1>1, <1>6, <1>9, <1>10 DEF Nodes

(* Facts of the state that the steps below need by name.                   *)
LEMMA TypeFacts ==
  ASSUME TypeOK
  PROVE  /\ nodes \in Seq(Node) /\ Len(nodes) \in Nat /\ Len(nodes) >= 1
         /\ root_node \in Nodes /\ current_dir \in Nodes /\ Nodes \subseteq Nat
         /\ \A n \in Nodes : /\ nodes[n] \in Node
                             /\ nodes[n].children \in Seq(Nat)
                             /\ nodes[n].parent \in Nat
                             /\ nodes[n].name \in Seq(Chars)
                             /\ Len(nodes[n].children) \in Nat
                             /\ DOMAIN nodes[n].children = 1..Len(nodes[n].children)
<1>1. /\ nodes \in Seq(Node) /\ Len(nodes) \in Nat /\ Len(nodes) >= 1
      /\ current_dir \in Nodes
  BY FileSystemAssumption DEF TypeOK
<1>2. \A n \in Nodes : nodes[n] \in Node
  BY <1>1, ElementOfSeq DEF Nodes
<1>3. \A n \in Nodes : nodes[n].children \in Seq(Nat) /\ nodes[n].parent \in Nat
                      /\ nodes[n].name \in Seq(Chars)
  BY <1>2 DEF Node
<1>4. \A n \in Nodes : /\ Len(nodes[n].children) \in Nat
                      /\ DOMAIN nodes[n].children = 1..Len(nodes[n].children)
  BY <1>3, LenProperties
<1>5. root_node \in Nodes /\ Nodes \subseteq Nat
  BY <1>1 DEF root_node, Nodes
<1>6. QED
  BY <1>1, <1>2, <1>3, <1>4, <1>5

LEMMA MkdirType ==
  ASSUME TypeOK, NEW path \in Args, fs_mkdir(path)
  PROVE  TypeOK'
<1> DEFINE new == Len(nodes) + 1
<1>1. Nodes' = Nodes \union {new} /\ new \notin Nodes /\ Len(nodes') = new
  BY MkdirEffect, TypeFacts DEF Nodes
<1>2. new \in 1..Capacity
  BY TypeFacts, FileSystemAssumption DEF fs_mkdir
<1>3. ASSUME NEW n \in Nodes'
      PROVE  Len(nodes'[n].name) < MAX_FILENAME /\ Len(nodes'[n].children) <= MAX_FILES
  <2>1. CASE n = new
    <3>1. nodes'[n] = NewNode(path, current_dir)
      BY <2>1, MkdirEffect
    <3>2. Len(<<>>) <= MAX_FILES
      BY FileSystemAssumption, EmptySeq
    <3>3. path \in Seq(Chars) /\ current_dir \in Nat
      BY FileSystemAssumption, TypeFacts
    <3>4. QED
      BY <3>1, <3>2, <3>3, NewNodeType
  <2>2. CASE n \in Nodes
    <3>1. Len(nodes'[n].name) < MAX_FILENAME
      BY <2>2, MkdirEffect DEF TypeOK
    <3>2. CASE n = current_dir
      <4>1. Len(Append(nodes[n].children, new)) = Len(nodes[n].children) + 1
        BY <2>2, TypeFacts, AppendProperties
      <4>2. Len(nodes[n].children) < MAX_FILES
        BY <3>2 DEF fs_mkdir, HasRoom
      <4>3. QED
        BY <3>1, <3>2, <4>1, <4>2, MkdirEffect, TypeFacts, FileSystemAssumption, SMTT(30)
    <3>3. CASE n # current_dir
      BY <2>2, <3>1, <3>3, MkdirEffect DEF TypeOK
    <3>4. QED
      BY <3>2, <3>3
  <2>3. QED
    BY <1>1, <2>1, <2>2
<1>4. UNCHANGED <<current_dir, visited>>
  BY DEF fs_mkdir
<1>5. QED
  BY <1>1, <1>2, <1>3, <1>4, MkdirEffect DEF TypeOK

LEMMA MkdirTree ==
  ASSUME TypeOK, TreeOK, NEW path \in Args, fs_mkdir(path)
  PROVE  TreeOK'
<1> DEFINE new == Len(nodes) + 1
           kids == nodes[current_dir].children
<1>1. /\ Nodes' = Nodes \union {new} /\ new \notin Nodes /\ new \in Nat
      /\ \A n \in Nodes : n < new
      /\ current_dir \in Nodes /\ root_node \in Nodes /\ Nodes \subseteq Nat
  BY MkdirEffect, TypeFacts DEF Nodes
<1>2. /\ nodes'[new].parent = current_dir /\ nodes'[new].children = <<>>
      /\ \A n \in Nodes : nodes'[n].parent = nodes[n].parent
      /\ \A n \in Nodes \ {current_dir} : nodes'[n].children = nodes[n].children
      /\ nodes'[current_dir].children = Append(kids, new)
  <2>1. path \in Seq(Chars) /\ current_dir \in Nat
    BY <1>1, FileSystemAssumption
  <2>2. QED
    BY <2>1, MkdirEffect, NewNodeType
<1>3. /\ Len(kids) \in Nat /\ DOMAIN kids = 1..Len(kids)
      /\ DOMAIN Append(kids, new) = 1..Len(kids) + 1
      /\ \A i \in DOMAIN kids : Append(kids, new)[i] = kids[i]
      /\ Append(kids, new)[Len(kids) + 1] = new
  <2>1. kids \in Seq(Nat) /\ Len(kids) \in Nat /\ DOMAIN kids = 1..Len(kids)
    BY TypeFacts
  <2>2. Append(kids, new) \in Seq(Nat) /\ Len(Append(kids, new)) = Len(kids) + 1
    BY <1>1, <2>1, AppendProperties
  <2>3. DOMAIN Append(kids, new) = 1..Len(kids) + 1
    BY <2>2, LenProperties
  <2>4. QED
    BY <1>1, <2>1, <2>3, AppendProperties
<1> HIDE DEF kids, new
<1>4. nodes'[root_node].parent = NULL
  BY <1>1, <1>2 DEF TreeOK
<1>5. ASSUME NEW n \in Nodes' \ {root_node}
      PROVE  /\ nodes'[n].parent \in 1..n - 1
             /\ \E i \in DOMAIN nodes'[nodes'[n].parent].children :
                  nodes'[nodes'[n].parent].children[i] = n
  <2>1. CASE n = new
    <3>1. current_dir \in 1..n - 1
      BY <1>1, <2>1, TypeFacts DEF Nodes
    <3>2. Len(kids) + 1 \in DOMAIN Append(kids, new)
      BY <1>3
    <3>3. QED
      BY <1>2, <1>3, <2>1, <3>1, <3>2
  <2>2. CASE n \in Nodes
    <3>1. /\ nodes'[n].parent = nodes[n].parent /\ nodes[n].parent \in 1..n - 1
          /\ nodes[n].parent \in Nodes
      <4>1. nodes'[n].parent = nodes[n].parent /\ nodes[n].parent \in 1..n - 1
        BY <1>2, <2>2 DEF TreeOK
      <4>2. QED
        BY <2>2, <4>1, TypeFacts DEF Nodes
    <3>2. PICK i \in DOMAIN nodes[nodes[n].parent].children :
                 nodes[nodes[n].parent].children[i] = n
      BY <2>2 DEF TreeOK
    <3>3. CASE nodes[n].parent = current_dir
      <4>1. i \in DOMAIN Append(kids, new) /\ Append(kids, new)[i] = n
        BY <1>3, <3>2, <3>3 DEF kids
      <4>2. QED
        BY <1>2, <3>1, <3>3, <4>1
    <3>4. CASE nodes[n].parent # current_dir
      BY <1>2, <3>1, <3>2, <3>4
    <3>5. QED
      BY <3>3, <3>4
  <2>3. QED
    BY <1>1, <2>1, <2>2
<1>6. ASSUME NEW d \in Nodes', NEW i \in DOMAIN nodes'[d].children,
             NEW j \in DOMAIN nodes'[d].children
      PROVE  /\ nodes'[d].children[i] \in Nodes' \ {root_node}
             /\ nodes'[nodes'[d].children[i]].parent = d
             /\ i < j => nodes'[d].children[i] < nodes'[d].children[j]
  <2>1. CASE d = new
    <3>1. i \in DOMAIN <<>>
      BY <1>2, <2>1
    <3>2. QED
      BY <3>1
  <2>2. CASE d \in Nodes \ {current_dir}
    <3>1. nodes'[d].children = nodes[d].children
      BY <1>2, <2>2
    <3>2. /\ nodes[d].children[i] \in Nodes \ {root_node}
          /\ nodes[nodes[d].children[i]].parent = d
          /\ i < j => nodes[d].children[i] < nodes[d].children[j]
      BY <2>2, <3>1 DEF TreeOK
    <3>3. QED
      BY <1>1, <1>2, <3>1, <3>2
  <2>3. CASE d = current_dir
    <3>1. /\ i \in 1..Len(kids) + 1 /\ j \in 1..Len(kids) + 1
          /\ nodes'[d].children = Append(kids, new)
      BY <1>2, <1>3, <2>3
    <3>2. \A k \in DOMAIN kids : /\ kids[k] \in Nodes \ {root_node}
                                /\ nodes[kids[k]].parent = d
                                /\ kids[k] < new
      BY <1>1, <2>3 DEF TreeOK, kids
    <3>3. CASE i = Len(kids) + 1
      <4>1. ~(i < j)
        BY <1>3, <3>1, <3>3
      <4>2. new # root_node
        BY <1>1
      <4>3. QED
        BY <1>1, <1>2, <1>3, <2>3, <3>1, <3>3, <4>1, <4>2
    <3>4. CASE i \in DOMAIN kids
      <4>1. nodes'[d].children[i] = kids[i]
        BY <1>3, <3>1, <3>4
      <4>2. CASE j = Len(kids) + 1
        BY <1>1, <1>2, <1>3, <2>3, <3>1, <3>2, <3>4, <4>1, <4>2, ZenonT(60)
      <4>3. CASE j \in DOMAIN kids
        <5>1. nodes'[d].children[j] = kids[j]
          BY <1>3, <3>1, <4>3
        <5>2. i < j => kids[i] < kids[j]
          BY <1>1, <2>3, <3>4, <4>3 DEF TreeOK, kids
        <5>3. QED
          BY <1>1, <1>2, <3>2, <3>4, <4>1, <5>1, <5>2
      <4>4. QED
        BY <1>3, <3>1, <4>2, <4>3
    <3>5. QED
      BY <1>3, <3>1, <3>3, <3>4
  <2>4. QED
    BY <1>1, <2>1, <2>2, <2>3
<1>7. QED
  BY <1>4, <1>5, <1>6 DEF TreeOK

(* A child cd can enter stays the one it enters under that name, whatever  *)
(* is made after it.                                                       *)
LEMMA MkdirKeepsChild ==
  ASSUME TypeOK, TreeOK, NEW path \in Args, fs_mkdir(path),
         NEW d \in Nodes, NEW name, Child(d, name) # NULL
  PROVE  Child(d, name)' = Child(d, name)
<1> DEFINE new == Len(nodes) + 1
           kids == nodes[d].children
<1>1. /\ kids \in Seq(Nat) /\ DOMAIN kids = 1..Len(kids) /\ Len(kids) \in Nat
      /\ new \in Nat /\ new \notin Nodes
      /\ \A i \in DOMAIN kids : kids[i] \in Nodes
  <2>1. /\ kids \in Seq(Nat) /\ DOMAIN kids = 1..Len(kids) /\ Len(kids) \in Nat
    BY TypeFacts
  <2>2. new \in Nat /\ new \notin Nodes
    BY TypeFacts DEF Nodes
  <2>3. \A i \in DOMAIN kids : kids[i] \in Nodes
    BY DEF TreeOK
  <2>4. QED
    BY <2>1, <2>2, <2>3
<1>2. PICK i \in DOMAIN kids :
             /\ Child(d, name) = kids[i] /\ nodes[kids[i]].name = name
             /\ \A j \in DOMAIN kids : nodes[kids[j]].name = name => i <= j
  BY <1>1, ChildIsFirst
<1>3. \A j \in DOMAIN kids : nodes'[kids[j]].name = nodes[kids[j]].name
  BY <1>1, MkdirEffect
<1> DEFINE kids2 == nodes'[d].children
<1>4. /\ kids2 \in Seq(Nat) /\ DOMAIN kids \subseteq DOMAIN kids2
      /\ \A j \in DOMAIN kids : kids2[j] = kids[j]
      /\ \A j \in DOMAIN kids2 \ DOMAIN kids : i <= j
  <2>1. CASE d # current_dir
    BY <1>1, <2>1, MkdirEffect
  <2>2. CASE d = current_dir
    <3>1. kids2 = Append(kids, new)
      BY <2>2, MkdirEffect
    <3>2. /\ Append(kids, new) \in Seq(Nat)
          /\ Len(Append(kids, new)) = Len(kids) + 1
          /\ \A j \in 1..Len(kids) : Append(kids, new)[j] = kids[j]
      BY <1>1, AppendProperties
    <3>3. DOMAIN Append(kids, new) = 1..Len(kids) + 1
      BY <3>2, LenProperties
    <3> HIDE DEF kids, kids2, new
    <3>4. QED
      BY <1>1, <3>1, <3>2, <3>3
  <2>3. QED
    BY <2>1, <2>2
<1>5. /\ i \in DOMAIN kids2 /\ kids2[i] = kids[i] /\ nodes'[kids2[i]].name = name
      /\ \A j \in DOMAIN kids2 : nodes'[kids2[j]].name = name => i <= j
  BY <1>2, <1>3, <1>4, ZenonT(60)
<1>6. Child(d, name)' = kids2[i]
  <2>1. \A k \in DOMAIN kids2 :
          (/\ nodes'[kids2[k]].name = name
           /\ \A j \in DOMAIN kids2 : nodes'[kids2[j]].name = name => k <= j) => k = i
    <3>1. DOMAIN kids2 \subseteq Nat
      BY <1>4, LenProperties
    <3>2. QED
      BY <1>5, <3>1
  <2>2. QED
    BY <1>5, <2>1 DEF Child
<1>7. QED
  BY <1>2, <1>5, <1>6

(* A directory that was entered by its name was entered as a child.        *)
LEMMA VisitedNames ==
  ASSUME TreeInv, NEW n \in visited \ {root_node}
  PROVE  /\ n \in Nodes /\ nodes[n].parent \in visited
         /\ nodes[n].parent \in Nodes /\ n # NULL
         /\ nodes[n].name \notin Special
         /\ Child(nodes[n].parent, nodes[n].name) = n
<1> DEFINE p == nodes[n].parent
<1>1. /\ n \in Nodes /\ p \in visited /\ p \in Nodes /\ n \in Nat /\ n # NULL
      /\ CdTarget(p, nodes[n].name) = n
  BY TypeFacts DEF TreeInv, TypeOK, VisitedReachable, Nodes, NULL
<1>2. p \in 1..n - 1
  BY <1>1 DEF TreeInv, TreeOK
<1>3. ParentOrSelf(p) # n
  <2>1. CASE p = root_node
    BY <1>1, <1>2, <2>1 DEF ParentOrSelf, TreeInv, TreeOK
  <2>2. CASE p # root_node
    <3>1. nodes[p].parent \in 1..p - 1
      BY <1>1, <2>2 DEF TreeInv, TreeOK
    <3>2. QED
      BY <1>1, <1>2, <3>1 DEF ParentOrSelf
  <2>3. QED
    BY <2>1, <2>2
<1>4. p # n /\ p \in Nat
  BY <1>1, <1>2
<1> HIDE DEF p
<1>5. nodes[n].name \notin Special
  BY <1>1, <1>3, <1>4 DEF CdTarget, Special
<1>6. QED
  BY <1>1, <1>5 DEF CdTarget, Special, p

LEMMA MkdirVisited ==
  ASSUME TreeInv, NEW path \in Args, fs_mkdir(path)
  PROVE  VisitedReachable'
<1>1. UNCHANGED <<current_dir, visited>>
  BY DEF fs_mkdir
<1>2. ASSUME NEW n \in visited \ {root_node}
      PROVE  /\ nodes'[n].parent \in visited
             /\ CdTarget(nodes[n].parent, nodes[n].name)' = n
  <2>0. PICK p \in Nodes : p = nodes[n].parent
    BY VisitedNames
  <2>1. PICK name : p = nodes[n].parent /\ name = nodes[n].name
    BY <2>0
  <2>2. /\ n \in Nodes /\ p \in visited /\ n # NULL
        /\ name \notin Special /\ Child(p, name) = n
    BY <2>1, VisitedNames
  <2>3. nodes'[n].parent = p /\ nodes'[n].name = name
    BY <2>1, <2>2, MkdirEffect DEF TreeInv
  <2>4. Child(p, name)' = n
    BY <2>1, <2>2, MkdirKeepsChild DEF TreeInv
  <2>5. CdTarget(p, name)' = n
    BY <2>2, <2>4 DEF CdTarget, Special
  <2>6. QED
    BY <2>2, <2>3, <2>5
<1>3. current_dir' \in visited'
  BY <1>1 DEF TreeInv, VisitedReachable
<1>4. QED
  BY <1>1, <1>2, <1>3 DEF VisitedReachable

LEMMA CdInv ==
  ASSUME TreeInv, NEW path \in Args, fs_cd(path)
  PROVE  TreeInv'
<1> DEFINE d == CdTarget(current_dir, path)
<1>1. UNCHANGED nodes /\ current_dir' = d /\ visited' = visited \union {d} /\ d # NULL
  BY DEF fs_cd
<1>2. /\ current_dir \in Nodes /\ current_dir \in visited /\ root_node \in Nodes
      /\ nodes[current_dir].children \in Seq(Nat)
  BY TypeFacts DEF TreeInv, VisitedReachable
<1>3. /\ d \in Nodes
      /\ \/ d \in visited \union {root_node}
         \/ /\ nodes[d].parent = current_dir /\ nodes[d].name = path
            /\ CdTarget(current_dir, path) = d
  <2>1. CASE path = Dot
    BY <1>2, <2>1 DEF CdTarget
  <2>2. CASE path = DotDot
    <3>1. d = ParentOrSelf(current_dir)
      BY <2>2 DEF CdTarget, Dot, DotDot
    <3>2. CASE current_dir = root_node
      BY <1>2, <3>1, <3>2 DEF ParentOrSelf, TreeInv, TreeOK
    <3>3. CASE current_dir # root_node
      <4>1. nodes[current_dir].parent \in visited /\ nodes[current_dir].parent \in Nodes
        BY <1>2, <3>3, VisitedNames
      <4>2. QED
        BY <1>2, <3>1, <4>1 DEF ParentOrSelf
    <3>4. QED
      BY <3>2, <3>3
  <2>3. CASE path = Slash
    BY <1>2, <2>3 DEF CdTarget, Dot, DotDot, Slash
  <2>4. CASE path \notin Special
    <3>1. d = Child(current_dir, path)
      BY <2>4 DEF CdTarget, Special
    <3>2. PICK i \in DOMAIN nodes[current_dir].children :
                 /\ d = nodes[current_dir].children[i]
                 /\ nodes[d].name = path
      BY <1>1, <1>2, <3>1, ChildIsFirst
    <3>3. d \in Nodes /\ nodes[d].parent = current_dir
      BY <1>2, <3>2 DEF TreeInv, TreeOK
    <3>4. QED
      BY <3>2, <3>3
  <2>5. QED
    BY <2>1, <2>2, <2>3, <2>4 DEF Special
<1> HIDE DEF d
<1>4. TypeOK' /\ TreeOK'
  BY <1>1, <1>3 DEF TreeInv, TypeOK, TreeOK, Nodes
<1>5. VisitedReachable'
  <2>1. ASSUME NEW n \in visited' \ {root_node}
        PROVE  /\ nodes[n].parent \in visited'
               /\ CdTarget(nodes[n].parent, nodes[n].name) = n
    <3>1. CASE n \in visited
      BY <1>1, <3>1 DEF TreeInv, VisitedReachable
    <3>2. CASE n = d /\ n \notin visited
      BY <1>1, <1>2, <1>3, <3>2
    <3>3. QED
      BY <1>1, <3>1, <3>2
  <2>2. ASSUME NEW n \in visited' \ {root_node}
        PROVE  CdTarget(nodes[n].parent, nodes[n].name)' = CdTarget(nodes[n].parent, nodes[n].name)
    BY <1>1 DEF CdTarget, ParentOrSelf, Child
  <2>3. QED
    BY <1>1, <2>1, <2>2 DEF VisitedReachable
<1>6. QED
  BY <1>4, <1>5 DEF TreeInv

LEMMA TreeInit == Init => TreeInv
<1> SUFFICES ASSUME Init PROVE TreeInv
  OBVIOUS
<1>1. Slash \in Seq(Chars) /\ NULL \in Nat
  <2>1. "/" \in Chars
    BY FileSystemAssumption
  <2>2. <<>> \in Seq(Chars) /\ <<"/">> = Append(<<>>, "/")
    BY EmptySeq
  <2>3. <<"/">> \in Seq(Chars)
    BY <2>1, <2>2, AppendProperties
  <2>4. QED
    BY <2>3 DEF Slash, NULL
<1>2. /\ NewNode(Slash, NULL) \in Node
      /\ Len(NewNode(Slash, NULL).name) < MAX_FILENAME
      /\ NewNode(Slash, NULL).parent = NULL /\ NewNode(Slash, NULL).children = <<>>
  BY <1>1, NewNodeType
<1>3. /\ nodes \in Seq(Node) /\ Len(nodes) = 1 /\ nodes[1] = NewNode(Slash, NULL)
  BY <1>2 DEF Init
<1>4. Nodes = {root_node} /\ DOMAIN nodes[root_node].children = {}
  BY <1>2, <1>3 DEF Nodes, root_node
<1>5. TypeOK
  <2>1. Len(<<>>) <= MAX_FILES
    BY FileSystemAssumption, EmptySeq
  <2>2. QED
    BY <1>2, <1>3, <1>4, <2>1, FileSystemAssumption DEF Init, TypeOK, root_node
<1>6. TreeOK /\ VisitedReachable
  BY <1>2, <1>3, <1>4 DEF Init, TreeOK, VisitedReachable, root_node
<1>7. QED
  BY <1>5, <1>6 DEF TreeInv

LEMMA TreeNext == TreeInv /\ [Next]_vars => TreeInv'
<1> SUFFICES ASSUME TreeInv, [Next]_vars PROVE TreeInv'
  OBVIOUS
<1>1. ASSUME NEW path \in Args, fs_mkdir(path) PROVE TreeInv'
  BY <1>1, MkdirType, MkdirTree, MkdirVisited DEF TreeInv
<1>2. ASSUME NEW path \in Args, fs_cd(path) PROVE TreeInv'
  BY <1>2, CdInv
<1>3. CASE UNCHANGED vars
  <2>1. TypeOK' /\ TreeOK'
    BY <1>3 DEF TreeInv, TypeOK, TreeOK, Nodes, vars
  <2>2. \A d, name : CdTarget(d, name)' = CdTarget(d, name)
    BY <1>3 DEF CdTarget, ParentOrSelf, Child, vars
  <2>3. VisitedReachable'
    BY <1>3, <2>2 DEF TreeInv, VisitedReachable, vars
  <2>4. QED
    BY <2>1, <2>3 DEF TreeInv
<1>4. QED
  BY <1>1, <1>2, <1>3 DEF Next

(* The nodes always form a tree.                                           *)
THEOREM AlwaysTree == Spec => []TreeOK
<1>1. TreeInv => TreeOK
  BY DEF TreeInv
<1>2. QED
  BY <1>1, TreeInit, TreeNext, PTL DEF Spec

(* A directory the shell has been in stays reachable by its names.         *)
THEOREM NeverShadowed == Spec => []VisitedReachable
<1>1. TreeInv => VisitedReachable
  BY DEF TreeInv
<1>2. QED
  BY <1>1, TreeInit, TreeNext, PTL DEF Spec

-----------------------------------------------------------------------------
(* What is made is found by its name, if that is not cut off and no child  *)
(* that was there has it.                                                  *)
LEMMA MadeIsFound ==
  ASSUME TreeInv, NEW path \in Args, path \notin Special, Len(path) < MAX_FILENAME,
         Child(current_dir, path) = NULL, fs_mkdir(path)
  PROVE  CdTarget(current_dir, path)' = Len(nodes')
<1> DEFINE new == Len(nodes) + 1
           kids == nodes[current_dir].children
           later == nodes'[current_dir].children
           d == Child(current_dir, path)'
<1>1. TypeOK /\ TreeOK' /\ current_dir' = current_dir /\ current_dir \in Nodes
  BY MkdirType, MkdirTree DEF TreeInv, TypeOK, fs_mkdir
<1>2. new \in Nat /\ kids \in Seq(Nat) /\ current_dir \in Nat /\ path \in Seq(Chars)
  BY <1>1, TypeFacts, FileSystemAssumption
<1>3. later = Append(kids, new) /\ nodes'[new] = NewNode(path, current_dir)
      /\ Len(nodes') = new
  BY <1>1, MkdirEffect
<1>4. nodes'[new].name = path
  BY <1>2, <1>3, NewNodeType
<1> HIDE DEF new, kids
<1>5. /\ later \in Seq(Nat) /\ Len(kids) + 1 \in DOMAIN later
      /\ later[Len(kids) + 1] = new
  <2>1. /\ Append(kids, new) \in Seq(Nat) /\ Len(Append(kids, new)) = Len(kids) + 1
        /\ Append(kids, new)[Len(kids) + 1] = new /\ Len(kids) \in Nat
    BY <1>2, AppendProperties, LenProperties
  <2>2. DOMAIN Append(kids, new) = 1..Len(kids) + 1
    BY <2>1, LenProperties
  <2>3. QED
    BY <1>3, <2>1, <2>2
<1>6. PICK i \in DOMAIN later : d = later[i] /\ nodes'[later[i]].name = path
  <2> DEFINE same == {i \in DOMAIN later : nodes'[later[i]].name = path}
             first == CHOOSE i \in same : \A j \in same : i <= j
  <2>1. same # {}
    BY <1>4, <1>5
  <2>2. DOMAIN later \subseteq Nat
    BY <1>5, LenProperties
  <2>3. \E i \in same : \A j \in same : i <= j
    BY <2>1, <2>2, NatMinimum
  <2>4. first \in same
    BY <2>3
  <2>5. d = later[first]
    BY <1>1, <2>1 DEF Child
  <2> HIDE DEF first, d, later
  <2>6. QED
    BY <2>4, <2>5
<1>7. \A j \in 1..Len(kids) : nodes'[later[j]].name # path
  <2>1. \A j \in DOMAIN kids : kids[j] \in Nodes /\ nodes[kids[j]].name # path
    <3>1. \A j \in DOMAIN kids : kids[j] \in Nodes /\ kids[j] # NULL
      BY <1>1 DEF TreeInv, TreeOK, kids, Nodes, NULL
    <3>2. QED
      BY <1>2, <3>1, ChildIsFirst DEF kids
  <2>2. \A j \in 1..Len(kids) : j \in DOMAIN kids /\ later[j] = kids[j]
    BY <1>2, <1>3, AppendProperties, LenProperties
  <2>3. \A n \in Nodes : nodes'[n].name = nodes[n].name
    BY <1>1, MkdirEffect
  <2> HIDE DEF later
  <2>4. QED
    BY <2>1, <2>2, <2>3
<1>8. DOMAIN later = 1..Len(kids) + 1 /\ Len(kids) \in Nat
  BY <1>2, <1>3, AppendProperties, LenProperties
<1>9. d = new
  <2> DEFINE n == Len(kids)
  <2>1. i \in 1..n + 1 /\ n \in Nat /\ i \notin 1..n
    BY <1>6, <1>7, <1>8
  <2> HIDE DEF n
  <2>2. i = n + 1
    BY <2>1
  <2> HIDE DEF d, later
  <2>3. QED
    BY <1>5, <1>6, <2>2 DEF n
<1>10. CdTarget(current_dir, path)' = d
  BY <1>1 DEF CdTarget, Special
<1>11. QED
  BY <1>3, <1>9, <1>10

(* mkdir and cd agree on names: the directory just made is the one that is *)
(* entered, unless it was made beside another of its name.                 *)
THEOREM MadeIsEnterable == Spec => MkdirEnterable
<1>1. TreeInv /\ [Next]_vars =>
        [\A path \in Args :
           /\ path \notin Special /\ Len(path) < MAX_FILENAME
           /\ Child(current_dir, path) = NULL
           /\ fs_mkdir(path)
           => CdTarget(current_dir, path)' = Len(nodes')]_vars
  BY MadeIsFound
<1>2. QED
  BY <1>1, TreeInit, TreeNext, PTL DEF Spec, MkdirEnterable

-----------------------------------------------------------------------------
(* Induction, first for sets of numbers, then for what loops compute.      *)
LEMMA SetInduction ==
  ASSUME NEW S, 0 \in S, \A n \in Nat : n \in S => n + 1 \in S
  PROVE  \A n \in Nat : n \in S
<1> DEFINE T == Nat \ S
           R == OpToRel(<, Nat)
<1>1. SUFFICES ASSUME T # {} PROVE FALSE
  OBVIOUS
<1>2. IsWellFoundedOn(R, Nat)
  BY NatLessThanWellFounded
<1>3. T \subseteq Nat
  OBVIOUS
<1>4. \E x \in T : \A y \in T : ~(<<y, x>> \in R)
  <2> HIDE DEF T, R
  <2>1. QED
  BY <1>1, <1>2, <1>3, WFMin, Zenon
<1>5. PICK x \in T : \A y \in T : ~(<<y, x>> \in R)
  BY <1>4
<1>6. x # 0 /\ x - 1 \in Nat /\ x - 1 < x
  OBVIOUS
<1>7. x - 1 \in S
  <2>1. ASSUME x - 1 \notin S PROVE FALSE
    <3>1. x - 1 \in T
      BY <2>1, <1>6
    <3>2. <<x-1, x>> \in R
      BY <1>6 DEF OpToRel
    <3>3. QED BY <3>1, <3>2, <1>5
  <2> QED BY <2>1
<1>8. QED
  BY <1>6, <1>7

(* What a loop makes of a value, turn by turn.                            *)
Steps(n, V) == [1..n -> [V -> V]]

Iteration(f, base, n, Step, V) ==
  /\ f \in [0..n -> V]
  /\ f[0] = base
  /\ \A i \in 1..n : f[i] = Step[i][f[i - 1]]

(* There is such a function, which a recursive definition may then name.  *)
LEMMA Iterates ==
  ASSUME NEW V, NEW base \in V, NEW n \in Nat, NEW Step \in Steps(n, V)
  PROVE  \E f : Iteration(f, base, n, Step, V)
<1> DEFINE Good(m, f) == f[0] = base /\ \A i \in 1..m : f[i] = Step[i][f[i - 1]]
           S == {m \in Nat : m <= n => \E f \in [0..m -> V] : Good(m, f)}
<1>0. Step \in [1..n -> [V -> V]]
  BY DEF Steps
<1>1. 0 \in S
  <2>1. [i \in 0..0 |-> base] \in [0..0 -> V] /\ Good(0, [i \in 0..0 |-> base])
    OBVIOUS
  <2> QED
    BY <2>1
<1>2. ASSUME NEW m \in Nat, m \in S PROVE m + 1 \in S
  <2>1. SUFFICES ASSUME m + 1 <= n PROVE \E f \in [0..m + 1 -> V] : Good(m + 1, f)
    OBVIOUS
  <2>2. PICK f \in [0..m -> V] : Good(m, f)
    BY <1>2, <2>1
  <2>3. f[m] \in V /\ m + 1 \in 1..n /\ Step[m + 1][f[m]] \in V
    BY <1>0, <2>1
  <2> DEFINE g == [i \in 0..m + 1 |-> IF i = m + 1 THEN Step[m + 1][f[m]] ELSE f[i]]
  <2>4. g \in [0..m + 1 -> V]
    BY <2>3
  <2>5. \A i \in 0..m : g[i] = f[i]
    OBVIOUS
  <2>6. g[m + 1] = Step[m + 1][f[m]]
    OBVIOUS
  <2> HIDE DEF g
  <2>7. ASSUME NEW i \in 1..m + 1 PROVE g[i] = Step[i][g[i - 1]]
    <3>1. CASE i = m + 1
      <4>1. i - 1 = m /\ m \in 0..m
        BY <3>1
      <4> QED
        BY <2>5, <2>6, <3>1, <4>1
    <3>2. CASE i # m + 1
      <4>1. i \in 1..m /\ i \in 0..m /\ i - 1 \in 0..m
        BY <3>2
      <4> QED
        BY <2>2, <2>5, <4>1
    <3> QED
      BY <3>1, <3>2
  <2>8. g[0] = base
    BY <2>2, <2>5
  <2> QED
    BY <2>4, <2>7, <2>8
<1>3. n \in S
  <2> HIDE DEF S
  <2> QED
    BY <1>1, <1>2, SetInduction
<1> QED
  BY <1>3 DEF Iteration

(* FlattenSeq puts the sequences behind one another from the left.         *)
Flattens(f, seqs, C) ==
  /\ FlattenSeq(seqs) = f[Len(seqs)]
  /\ \A i \in 1..Len(seqs) :
       /\ f[i] \in Seq(C)
       /\ f[i] = IF i = 1 THEN seqs[1] ELSE f[i - 1] \o seqs[i]

LEMMA FlattenFromLeft ==
  ASSUME NEW C, NEW seqs \in Seq(Seq(C)), Len(seqs) > 0
  PROVE  \E f : Flattens(f, seqs, C)
<1> DEFINE n == Len(seqs)
           Eq(h) == h = [i \in 1..n |-> IF i = 1 THEN seqs[i] ELSE h[i - 1] \o seqs[i]]
           F == CHOOSE h : Eq(h)
           Step == [i \in 1..n |-> [v \in Seq(C) |-> v \o seqs[i]]]
           none == <<>>
<1>1. n \in Nat /\ n >= 1 /\ \A i \in 1..n : seqs[i] \in Seq(C)
  OBVIOUS
<1>2. none \in Seq(C) /\ Step \in [1..n -> [Seq(C) -> Seq(C)]]
  BY <1>1
<1>3. PICK g : Iteration(g, none, n, Step, Seq(C))
  <2>1. Step \in Steps(n, Seq(C))
    BY <1>2 DEF Steps
  <2> HIDE DEF Step, n, none
  <2> QED
    BY <1>1, <1>2, <2>1, Iterates, Zenon
<1>13. g \in [0..n -> Seq(C)] /\ g[0] = none /\ \A i \in 1..n : g[i] = Step[i][g[i - 1]]
  BY <1>3 DEF Iteration
<1>4. ASSUME NEW i \in 1..n
      PROVE  g[i] \in Seq(C) /\ g[i] = IF i = 1 THEN seqs[i] ELSE g[i - 1] \o seqs[i]
  <2>1. g[i - 1] \in Seq(C) /\ g[i] \in Seq(C) /\ seqs[i] \in Seq(C) /\ (i = 1 => i - 1 = 0)
    <3> HIDE DEF n
    <3>1. i \in 0..n /\ i - 1 \in 0..n /\ (i = 1 => i - 1 = 0)
      BY <1>1
    <3> QED
      BY <1>1, <1>13, <3>1
  <2>2. g[i] = g[i - 1] \o seqs[i]
    <3> HIDE DEF n
    <3> QED
      BY <1>13, <2>1
  <2>3. <<>> \o seqs[i] = seqs[i]
    BY <2>1
  <2> QED
    BY <1>13, <2>1, <2>2, <2>3, Zenon
<1>5. Eq(F)
  <2> DEFINE h == [i \in 1..n |-> g[i]]
  <2>1. ASSUME NEW i \in 1..n PROVE h[i] = IF i = 1 THEN seqs[i] ELSE h[i - 1] \o seqs[i]
    <3>1. i = 1 \/ i - 1 \in 1..n
      BY <1>1
    <3> QED
      BY <1>4, <3>1
  <2>2. Eq(h)
    BY <2>1
  <2>3. \E k : Eq(k)
    BY <2>2
  <2> HIDE DEF Eq
  <2> QED
    BY <2>3
<1>6. FlattenSeq(seqs) = F[n]
  BY <1>1 DEF FlattenSeq
<1>7. ASSUME NEW i \in 1..n PROVE F[i] = IF i = 1 THEN seqs[i] ELSE F[i - 1] \o seqs[i]
  <2> HIDE DEF F, n
  <2> QED
    BY <1>5
<1> HIDE DEF F
<1> DEFINE Typed == {m \in Nat : m + 1 <= n => F[m + 1] \in Seq(C)}
<1>8. 0 \in Typed
  <2> HIDE DEF n
  <2>1. 1 \in 1..n /\ 0 + 1 = 1
    BY <1>1
  <2>2. F[1] = seqs[1] /\ seqs[1] \in Seq(C)
    BY <1>1, <1>7, <2>1, Zenon
  <2> QED
    BY <2>1, <2>2
<1>9. ASSUME NEW m \in Nat, m \in Typed PROVE m + 1 \in Typed
  <2> SUFFICES ASSUME m + 1 + 1 <= n PROVE F[m + 1 + 1] \in Seq(C)
    OBVIOUS
  <2> HIDE DEF n
  <2>1. F[m + 1] \in Seq(C)
    BY <1>1, <1>9
  <2>2. m + 1 + 1 \in 1..n /\ m + 1 + 1 # 1 /\ m + 1 + 1 - 1 = m + 1
    BY <1>1
  <2>3. F[m + 1 + 1] = F[m + 1] \o seqs[m + 1 + 1] /\ seqs[m + 1 + 1] \in Seq(C)
    <3> DEFINE j == m + 1 + 1
    <3>1. j \in 1..n /\ j # 1 /\ j - 1 = m + 1
      BY <2>2
    <3> HIDE DEF j
    <3>2. F[j] = F[m + 1] \o seqs[j] /\ seqs[j] \in Seq(C)
      BY <1>1, <1>7, <3>1, Zenon
    <3> QED
      BY <3>2 DEF j
  <2> QED
    BY <2>1, <2>3
<1>10. \A m \in Nat : m \in Typed
  <2> HIDE DEF Typed
  <2> QED
    BY <1>8, <1>9, SetInduction
<1>11. ASSUME NEW i \in 1..n PROVE F[i] \in Seq(C)
  <2> HIDE DEF n
  <2>1. i - 1 \in Nat /\ i - 1 + 1 = i /\ i <= n
    BY <1>1
  <2> QED
    BY <1>10, <2>1
<1>12. \A i \in 1..n : F[i] = IF i = 1 THEN seqs[1] ELSE F[i - 1] \o seqs[i]
  BY <1>7, Zenon
<1>14. Flattens(F, seqs, C)
  BY <1>6, <1>11, <1>12, Zenon DEF Flattens
<1> QED
  BY <1>14, Zenon

LEMMA FlattenAppend ==
  ASSUME NEW C, NEW seqs \in Seq(Seq(C)), NEW piece \in Seq(C)
  PROVE  /\ FlattenSeq(Append(seqs, piece)) = FlattenSeq(seqs) \o piece
         /\ FlattenSeq(seqs) \in Seq(C)
<1> DEFINE n == Len(seqs)
           longer == Append(seqs, piece)
<1>1. /\ n \in Nat /\ longer \in Seq(Seq(C)) /\ Len(longer) = n + 1
      /\ longer[n + 1] = piece /\ \A i \in 1..n : longer[i] = seqs[i]
  BY AppendProperties, LenProperties
<1> HIDE DEF longer, n
<1>2. Len(longer) > 0
  BY <1>1
<1>6. PICK f : Flattens(f, longer, C)
  BY <1>1, <1>2, FlattenFromLeft, Zenon
<1>3. /\ FlattenSeq(longer) = f[Len(longer)]
      /\ \A i \in 1..Len(longer) :
           /\ f[i] \in Seq(C)
           /\ f[i] = IF i = 1 THEN longer[1] ELSE f[i - 1] \o longer[i]
  BY <1>6, Zenon DEF Flattens
<1>4. CASE n = 0
  <2>1. seqs = <<>> /\ FlattenSeq(seqs) = <<>>
    <3>1. seqs = <<>>
      BY <1>4, EmptySeq DEF n
    <3> QED
      BY <3>1 DEF FlattenSeq
  <2>2. FlattenSeq(longer) = piece
    <3>1. Len(longer) = 1 /\ longer[1] = piece
      BY <1>1, <1>4
    <3>2. 1 \in 1..Len(longer)
      BY <3>1
    <3> QED
      BY <1>3, <3>1, <3>2, Zenon
  <2> QED
    BY <2>1, <2>2, ConcatEmptySeq, EmptySeq DEF longer
<1>5. CASE n # 0
  <2>1. Len(seqs) > 0
    BY <1>1, <1>5 DEF n
  <2>2. PICK g : Flattens(g, seqs, C)
    BY <2>1, FlattenFromLeft, Zenon
  <2>3. /\ FlattenSeq(seqs) = g[n]
        /\ \A i \in 1..n : /\ g[i] \in Seq(C)
                           /\ g[i] = IF i = 1 THEN seqs[1] ELSE g[i - 1] \o seqs[i]
    BY <2>2, Zenon DEF n, Flattens
  <2> DEFINE Same == {m \in Nat : m + 1 <= n => f[m + 1] = g[m + 1]}
  <2>4. 0 \in Same
    <3>1. 1 \in 1..n /\ 1 \in 1..Len(longer) /\ 0 + 1 = 1
      BY <1>1, <1>5
    <3>2. f[1] = g[1]
      BY <1>1, <1>3, <2>3, <3>1, Zenon
    <3> QED
      BY <3>1, <3>2
  <2>5. ASSUME NEW m \in Nat, m \in Same PROVE m + 1 \in Same
    <3> SUFFICES ASSUME m + 1 + 1 <= n PROVE f[m + 1 + 1] = g[m + 1 + 1]
      OBVIOUS
    <3> DEFINE i == m + 1 + 1
    <3>1. i \in 1..n /\ i \in 1..Len(longer) /\ i # 1 /\ i - 1 = m + 1
      BY <1>1
    <3>2. f[m + 1] = g[m + 1]
      BY <1>1, <2>5
    <3> HIDE DEF i
    <3>3. f[i] = f[i - 1] \o longer[i] /\ g[i] = g[i - 1] \o seqs[i] /\ longer[i] = seqs[i]
      BY <1>1, <1>3, <2>3, <3>1, Zenon
    <3>4. f[i] = g[i]
      BY <3>1, <3>2, <3>3, Zenon
    <3> QED
      BY <3>4 DEF i
  <2>6. \A m \in Nat : m \in Same
    <3> HIDE DEF Same
    <3> QED
      BY <2>4, <2>5, SetInduction
  <2>7. f[n] = g[n]
    <3>1. n - 1 \in Nat /\ n - 1 + 1 = n /\ n <= n
      BY <1>1, <1>5
    <3> HIDE DEF Same
    <3>2. n - 1 \in Same
      BY <2>6, <3>1, Zenon
    <3> USE DEF Same
    <3> QED
      BY <3>1, <3>2
  <2>8. f[n + 1] = f[n] \o piece
    <3> DEFINE i == n + 1
    <3>1. i \in 1..Len(longer) /\ i # 1 /\ i - 1 = n
      <4>1. n \in Nat /\ Len(longer) = n + 1
        BY <1>1
      <4> HIDE <1>3
      <4> QED
        BY <1>5, <4>1
    <3>2. longer[i] = piece
      BY <1>1
    <3> HIDE DEF i
    <3>3. f[i] = f[n] \o piece
      BY <1>3, <3>1, <3>2, Zenon
    <3> QED
      BY <3>3 DEF i
  <2>9. n \in 1..n
    BY <1>1, <1>5
  <2>10. FlattenSeq(longer) = f[n + 1]
    BY <1>1, <1>3
  <2> QED
    BY <2>3, <2>7, <2>8, <2>9, <2>10 DEF longer
<1> QED
  BY <1>4, <1>5

-----------------------------------------------------------------------------
(* The path of the prompt.  What one node adds to it.                      *)
Piece(n) == Append(nodes[n].name, "/")

Pieces(way) == [i \in DOMAIN way |-> Piece(way[i])]

LEMMA PieceType ==
  ASSUME TypeOK, NEW n \in Nodes
  PROVE  /\ Piece(n) \in Seq(Chars) /\ Piece(n) = nodes[n].name \o Slash
         /\ nodes[n].name \in Seq(Chars) /\ Slash \in Seq(Chars)
         /\ Len(nodes[n].name) \in Nat
         /\ Len(Piece(n)) = Len(nodes[n].name) + 1
<1>1. nodes[n].name \in Seq(Chars) /\ "/" \in Chars
  BY TypeFacts, FileSystemAssumption
<1>2. Slash \in Seq(Chars)
  BY <1>1 DEF Slash
<1>3. Piece(n) \in Seq(Chars) /\ Len(Piece(n)) = Len(nodes[n].name) + 1
  BY <1>1, AppendProperties DEF Piece
<1>4. Piece(n) = nodes[n].name \o Slash
  BY <1>1, AppendIsConcat DEF Piece, Slash
<1> QED
  BY <1>1, <1>2, <1>3, <1>4, LenProperties

LEMMA AsStringEmpty == AsString(<<>>) = <<>>
<1> DEFINE pieces == Pieces(<<>>)
<1>1. pieces = <<>>
  BY DEF Pieces
<1>2. FlattenSeq(<<>>) = <<>>
  BY DEF FlattenSeq
<1> QED
  BY <1>1, <1>2 DEF AsString, Pieces, Piece

(* A node at the end of the way adds its name and a slash at the end.      *)
LEMMA AsStringAppend ==
  ASSUME TypeOK, NEW way \in Seq(Nodes), NEW n \in Nodes
  PROVE  /\ AsString(way) \in Seq(Chars)
         /\ AsString(Append(way, n)) = AsString(way) \o Piece(n)
<1>1. Len(way) \in Nat /\ DOMAIN way = 1..Len(way) /\ \A i \in 1..Len(way) : way[i] \in Nodes
  BY LenProperties, ElementOfSeq
<1>2. \A i \in 1..Len(way) : Piece(way[i]) \in Seq(Chars)
  BY <1>1, PieceType
<1>3. Pieces(way) \in Seq(Seq(Chars)) /\ Len(Pieces(way)) = Len(way)
  BY <1>1, <1>2, IsASeq DEF Pieces
<1>4. Piece(n) \in Seq(Chars)
  BY PieceType
<1>5. Pieces(Append(way, n)) = Append(Pieces(way), Piece(n))
  <2> DEFINE longer == Append(way, n)
  <2>1. /\ longer \in Seq(Nodes) /\ Len(longer) = Len(way) + 1
        /\ longer[Len(way) + 1] = n /\ \A i \in 1..Len(way) : longer[i] = way[i]
    BY AppendProperties
  <2>2. DOMAIN longer = 1..Len(way) + 1
    BY <2>1, LenProperties
  <2> DEFINE left == Pieces(longer)
             right == Append(Pieces(way), Piece(n))
  <2>3. /\ right \in Seq(Seq(Chars)) /\ Len(right) = Len(way) + 1
        /\ right[Len(way) + 1] = Piece(n) /\ \A i \in 1..Len(way) : right[i] = Pieces(way)[i]
    BY <1>3, <1>4, AppendProperties
  <2>4. left = [i \in 1..Len(way) + 1 |-> Piece(longer[i])]
    BY <2>2, Zenon DEF Pieces
  <2> HIDE DEF longer, right, left
  <2>5. \A i \in 1..Len(way) + 1 : i \in 1..Len(way) \/ i = Len(way) + 1
    BY <1>1
  <2>6. \A i \in 1..Len(way) + 1 : left[i] = right[i]
    BY <1>1, <2>1, <2>3, <2>4, <2>5, Zenon DEF Pieces
  <2>7. left \in Seq(Seq(Chars)) /\ Len(left) = Len(way) + 1
    <3>1. Len(way) + 1 \in Nat
      BY <1>1
    <3>2. \A i \in 1..Len(way) + 1 : Piece(longer[i]) \in Seq(Chars)
      BY <2>1, <3>1, ElementOfSeq, PieceType
    <3>3. left \in Seq(Seq(Chars))
      BY <2>4, <3>1, <3>2, IsASeq
    <3> QED
      BY <2>4, <3>1, <3>3, LenProperties
  <2>8. left = right
    BY <2>3, <2>6, <2>7, SeqEqual
  <2> QED
    BY <2>8, Zenon DEF longer, left, right
<1>6. \A w : AsString(w) = FlattenSeq(Pieces(w))
  BY DEF AsString, Pieces, Piece
<1> QED
  BY <1>3, <1>4, <1>5, <1>6, FlattenAppend, Zenon

(* A node put in front of the way adds its name and a slash in front.      *)
LEMMA AsStringPrepend ==
  ASSUME TypeOK, NEW way \in Seq(Nodes), NEW n \in Nodes
  PROVE  AsString(<<n>> \o way) = Piece(n) \o AsString(way)
<1> DEFINE Holds(w) == AsString(<<n>> \o w) = Piece(n) \o AsString(w)
           S == {m \in Nat : \A w \in Seq(Nodes) : Len(w) = m => Holds(w)}
<1>1. Piece(n) \in Seq(Chars) /\ <<n>> \in Seq(Nodes) /\ <<>> \in Seq(Nodes)
  BY PieceType
<1>2. Holds(<<>>)
  <2>1. <<n>> \o <<>> = Append(<<>>, n)
    OBVIOUS
  <2>2. AsString(Append(<<>>, n)) = AsString(<<>>) \o Piece(n)
    BY <1>1, AsStringAppend
  <2>3. <<>> \o Piece(n) = Piece(n) /\ Piece(n) \o <<>> = Piece(n)
    BY <1>1
  <2> QED
    BY <2>1, <2>2, <2>3, AsStringEmpty, Zenon
<1>3. 0 \in S
  <2>1. ASSUME NEW w \in Seq(Nodes), Len(w) = 0 PROVE Holds(w)
    <3>1. w = <<>>
      BY <2>1, EmptySeq
    <3> HIDE DEF Holds
    <3> QED
      BY <1>2, <3>1
  <2> QED
    BY <2>1
<1>4. ASSUME NEW m \in Nat, m \in S PROVE m + 1 \in S
  <2>1. ASSUME NEW w \in Seq(Nodes), Len(w) = m + 1 PROVE Holds(w)
    <3>1. PICK front \in Seq(Nodes), last \in Nodes : w = Append(front, last)
      <4>1. w # <<>>
        BY <2>1, EmptySeq
      <4> QED
        BY <2>1, <4>1, SequenceEmptyOrAppend
    <3>2. Len(front) = m
      BY <2>1, <3>1, AppendProperties, LenProperties
    <3>3. AsString(<<n>> \o front) = Piece(n) \o AsString(front)
      BY <1>4, <3>2
    <3>4. <<n>> \o front \in Seq(Nodes) /\ <<n>> \o w = Append(<<n>> \o front, last)
      BY <1>1, <3>1
    <3>5. /\ AsString(<<n>> \o w) = AsString(<<n>> \o front) \o Piece(last)
          /\ AsString(w) = AsString(front) \o Piece(last)
          /\ AsString(front) \in Seq(Chars)
      BY <3>1, <3>4, AsStringAppend
    <3>6. Piece(last) \in Seq(Chars)
      BY <3>1, PieceType
    <3>7. (Piece(n) \o AsString(front)) \o Piece(last) = Piece(n) \o (AsString(front) \o Piece(last))
      BY <1>1, <3>5, <3>6, ConcatAssociative, SMTT(30)
    <3> QED
      BY <3>3, <3>5, <3>7, Zenon
  <2> QED
    BY <2>1
<1>5. Len(way) \in S
  <2> HIDE DEF S
  <2>1. Len(way) \in Nat
    BY LenProperties
  <2> QED
    BY <1>3, <1>4, <2>1, SetInduction
<1> QED
  BY <1>5

(* Parents come before their children, so that every node has a way.       *)
LEMMA ParentBefore ==
  ASSUME TypeOK, TreeOK, NEW n \in Nodes, n # root_node
  PROVE  /\ n \in 1..Len(nodes) /\ nodes[n].parent \in Nodes
         /\ nodes[n].parent \in 1..n - 1 /\ n \in Nat /\ n >= 2
BY TypeFacts DEF TreeOK, Nodes, root_node

IsWayTo(m, f) ==
  /\ f \in [1..m -> Seq(Nodes)]
  /\ \A n \in 1..m : f[n] = IF n = root_node THEN <<>> ELSE Append(f[nodes[n].parent], n)

LEMMA WayExists ==
  ASSUME TypeOK, TreeOK
  PROVE  \E f : IsWayTo(Len(nodes), f)
<1> DEFINE S == {m \in Nat : m <= Len(nodes) => \E f : IsWayTo(m, f)}
<1>1. /\ Len(nodes) \in Nat /\ Nodes = 1..Len(nodes)
      /\ <<>> \in Seq(Nodes)
  BY TypeFacts DEF Nodes
<1>2. 0 \in S
  <2>1. IsWayTo(0, <<>>)
    BY DEF IsWayTo
  <2> QED
    BY <2>1
<1>3. ASSUME NEW m \in Nat, m \in S PROVE m + 1 \in S
  <2> SUFFICES ASSUME m + 1 <= Len(nodes) PROVE \E f : IsWayTo(m + 1, f)
    OBVIOUS
  <2>1. PICK f : IsWayTo(m, f)
    BY <1>1, <1>3
  <2> DEFINE new == m + 1
             way == IF new = root_node THEN <<>> ELSE Append(f[nodes[new].parent], new)
             g == [n \in 1..new |-> IF n = new THEN way ELSE f[n]]
  <2>2. new \in Nodes /\ new \in 1..new
    BY <1>1
  <2>3. new # root_node => nodes[new].parent \in 1..m
    BY <2>2, ParentBefore
  <2>4. way \in Seq(Nodes)
    <3>1. CASE new = root_node
      BY <1>1, <3>1
    <3>2. CASE new # root_node
      <4>1. f[nodes[new].parent] \in Seq(Nodes)
        BY <2>1, <2>3, <3>2 DEF IsWayTo
      <4>2. Append(f[nodes[new].parent], new) \in Seq(Nodes)
        BY <2>2, <4>1, AppendProperties
      <4> QED
        BY <3>2, <4>2
    <3> QED
      BY <3>1, <3>2
  <2>5. \A n \in 1..new : n = new \/ n \in 1..m
    OBVIOUS
  <2>6. \A n \in 1..m : n \in 1..new /\ n # new
    OBVIOUS
  <2>7. ASSUME NEW n \in 1..m, n # root_node PROVE nodes[n].parent \in 1..m
    <3>1. n \in Nodes
      BY <1>1, <2>7
    <3>2. nodes[n].parent \in 1..n - 1
      BY <3>1, <2>7, ParentBefore
    <3> QED
      BY <3>2
  <2>8. (\A n \in 1..m : g[n] = f[n]) /\ g[new] = way
    BY <2>2, <2>6
  <2>9. g \in [1..new -> Seq(Nodes)]
    <3> HIDE DEF way, new
    <3> QED
      BY <2>1, <2>4, <2>5, Zenon DEF IsWayTo
  <2>10. ASSUME NEW n \in 1..new
         PROVE  g[n] = IF n = root_node THEN <<>> ELSE Append(g[nodes[n].parent], n)
    <3> HIDE DEF g, new
    <3>1. CASE n = new
      BY <2>3, <2>8, <3>1, Zenon
    <3>2. CASE n \in 1..m
      BY <2>1, <2>7, <2>8, <3>2, Zenon DEF IsWayTo
    <3> QED
      BY <2>5, <3>1, <3>2
  <2>11. IsWayTo(new, g)
    <3> HIDE DEF g, new
    <3> QED
      BY <2>9, <2>10, Zenon DEF IsWayTo
  <2> HIDE DEF g
  <2> QED
    BY <2>11
<1> HIDE DEF S
<1>4. \A m \in Nat : m \in S
  BY <1>2, <1>3, SetInduction
<1> USE DEF S
<1> QED
  BY <1>1, <1>4

(* The way to a node is that to its parent and the node itself.            *)
LEMMA WayOf ==
  ASSUME TypeOK, TreeOK, NEW n \in Nodes
  PROVE  Way[n] = IF n = root_node THEN <<>> ELSE Append(Way[nodes[n].parent], n)
<1> DEFINE Eq(h) == h = [k \in Nodes |-> IF k = root_node THEN <<>>
                                         ELSE Append(h[nodes[k].parent], k)]
           F == CHOOSE h : Eq(h)
<1>1. PICK f : IsWayTo(Len(nodes), f)
  BY WayExists
<1>2. Eq(f)
  BY <1>1, Zenon DEF IsWayTo, Nodes
<1>3. Eq(F)
  <2>1. \E h : Eq(h)
    BY <1>2
  <2> HIDE DEF Eq
  <2> QED
    BY <2>1
<1>4. Way = F
  BY DEF Way
<1> HIDE DEF F
<1> QED
  BY <1>3, <1>4, Zenon

(* What holds of the ways to all earlier nodes holds of that to a node.    *)
LEMMA NodeInduction ==
  ASSUME TypeOK, TreeOK, NEW S, root_node \in S,
         \A n \in Nodes \ {root_node} : nodes[n].parent \in S => n \in S
  PROVE  Nodes \subseteq S
<1> DEFINE T == {m \in Nat : \A n \in Nodes : n <= m => n \in S}
<1>1. Nodes \subseteq Nat /\ \A n \in Nodes : n >= 1
  BY TypeFacts DEF Nodes
<1>2. 0 \in T
  BY <1>1
<1>3. ASSUME NEW m \in Nat, m \in T PROVE m + 1 \in T
  <2>1. ASSUME NEW n \in Nodes, n <= m + 1, n # root_node PROVE n \in S
    <3>1. nodes[n].parent \in Nodes /\ nodes[n].parent \in 1..n - 1
      BY <2>1, ParentBefore
    <3>2. nodes[n].parent <= m
      BY <1>1, <2>1, <3>1
    <3>3. nodes[n].parent \in S
      BY <1>3, <3>1, <3>2
    <3> QED
      BY <2>1, <3>3
  <2> QED
    BY <2>1
<1> HIDE DEF T
<1>4. \A m \in Nat : m \in T
  BY <1>2, <1>3, SetInduction
<1> USE DEF T
<1>5. ASSUME NEW n \in Nodes PROVE n \in S
  <2>1. n \in Nat /\ n <= n
    BY <1>1
  <2> QED
    BY <1>4, <2>1
<1> QED
  BY <1>5

LEMMA WayType ==
  ASSUME TypeOK, TreeOK
  PROVE  \A n \in Nodes : Way[n] \in Seq(Nodes) /\ Len(Way[n]) \in Nat
<1> DEFINE S == {n \in Nodes : Way[n] \in Seq(Nodes)}
<1>1. root_node \in S
  <2>1. root_node \in Nodes
    BY TypeFacts
  <2>2. Way[root_node] = <<>>
    BY <2>1, WayOf
  <2> QED
    BY <2>1, <2>2, EmptySeq
<1>2. ASSUME NEW n \in Nodes \ {root_node}, nodes[n].parent \in S PROVE n \in S
  <2>1. Way[nodes[n].parent] \in Seq(Nodes)
    BY <1>2
  <2>2. Way[n] = Append(Way[nodes[n].parent], n)
    BY <1>2, WayOf, Zenon
  <2>3. Append(Way[nodes[n].parent], n) \in Seq(Nodes)
    BY <2>1, AppendProperties
  <2> QED
    BY <2>2, <2>3
<1> HIDE DEF S
<1>3. Nodes \subseteq S
  BY <1>1, <1>2, NodeInduction
<1> USE DEF S
<1> QED
  BY <1>3, LenProperties

-----------------------------------------------------------------------------
(* Following a path.  What one character does.                             *)
StepOn(e, ch) ==
  IF ch = "/" THEN [dir |-> Enter(e.dir, e.token), token |-> <<>>]
  ELSE [dir |-> e.dir, token |-> Append(e.token, ch)]

Ends == [dir : Nodes \union {NULL}, token : Seq(Chars)]

LEMMA EnterType ==
  ASSUME TypeOK, TreeOK, NEW d \in Nodes \union {NULL}, NEW token
  PROVE  Enter(d, token) \in Nodes \union {NULL}
<1>1. CASE d = NULL
  BY <1>1 DEF Enter
<1>2. CASE d # NULL
  <2>1. d \in Nodes
    BY <1>2
  <2>2. ParentOrSelf(d) \in Nodes
    <3>1. CASE d = root_node
      BY <2>1, <3>1 DEF ParentOrSelf, TreeOK
    <3>2. CASE d # root_node
      BY <2>1, <3>2, ParentBefore DEF ParentOrSelf
    <3> QED
      BY <3>1, <3>2
  <2>3. Child(d, token) \in Nodes \union {NULL}
    <3>1. ASSUME Child(d, token) # NULL PROVE Child(d, token) \in Nodes
      <4>1. DOMAIN nodes[d].children = 1..Len(nodes[d].children) /\ Len(nodes[d].children) \in Nat
        BY <2>1, TypeFacts
      <4>2. PICK i \in DOMAIN nodes[d].children : Child(d, token) = nodes[d].children[i]
        BY <2>1, <3>1, ChildIsFirst, TypeFacts
      <4> QED
        BY <2>1, <4>2 DEF TreeOK
    <3> QED
      BY <3>1
  <2> QED
    BY <2>1, <2>2, <2>3 DEF Enter
<1> QED
  BY <1>1, <1>2

LEMMA StepOnType ==
  ASSUME TypeOK, TreeOK, NEW e \in Ends, NEW ch \in Chars
  PROVE  StepOn(e, ch) \in Ends
<1>1. e.dir \in Nodes \union {NULL} /\ e.token \in Seq(Chars)
  BY DEF Ends
<1>2. Enter(e.dir, e.token) \in Nodes \union {NULL} /\ Append(e.token, ch) \in Seq(Chars)
  BY <1>1, EnterType, AppendProperties
<1> QED
  BY <1>1, <1>2, EmptySeq DEF StepOn, Ends

IsWalk(f, dir, s) ==
  /\ Walk(dir, s) = f[Len(s)]
  /\ f[0] = [dir |-> dir, token |-> <<>>]
  /\ \A i \in 1..Len(s) : f[i] = StepOn(f[i - 1], s[i])

LEMMA WalkDefined ==
  ASSUME TypeOK, TreeOK, NEW dir \in Nodes, NEW s \in Seq(Chars)
  PROVE  \E f : IsWalk(f, dir, s)
<1> DEFINE n == Len(s)
           base == [dir |-> dir, token |-> <<>>]
           Eq(h) == h = [i \in 0..Len(s) |->
                            IF i = 0 THEN [dir |-> dir, token |-> <<>>]
                            ELSE IF s[i] = "/"
                                 THEN [dir |-> Enter(h[i - 1].dir, h[i - 1].token),
                                       token |-> <<>>]
                                 ELSE [dir |-> h[i - 1].dir,
                                       token |-> Append(h[i - 1].token, s[i])]]
           F == CHOOSE h : Eq(h)
           Step == [i \in 1..n |-> [e \in Ends |-> StepOn(e, s[i])]]
<1>1. n \in Nat /\ base \in Ends /\ \A i \in 1..n : s[i] \in Chars
  BY LenProperties, ElementOfSeq, EmptySeq DEF Ends
<1>2. Step \in Steps(n, Ends)
  BY <1>1, StepOnType DEF Steps
<1>3. PICK g : Iteration(g, base, n, Step, Ends)
  <2> HIDE DEF Step, n, base
  <2> QED
    BY <1>1, <1>2, Iterates, Zenon
<1>4. g \in [0..n -> Ends] /\ g[0] = base /\ \A i \in 1..n : g[i] = Step[i][g[i - 1]]
  BY <1>3 DEF Iteration
<1>5. ASSUME NEW i \in 1..n PROVE i - 1 \in 0..n /\ i \in 0..n /\ i # 0
  <2> HIDE DEF n
  <2> QED
    BY <1>1
<1>6. ASSUME NEW i \in 1..n PROVE g[i] = StepOn(g[i - 1], s[i])
  <2>1. g[i - 1] \in Ends
    BY <1>4, <1>5
  <2> HIDE DEF n
  <2> QED
    BY <1>4, <2>1
<1>7. \A i \in 0..n : i = 0 \/ i \in 1..n
  <2> HIDE DEF n
  <2> QED
    BY <1>1
<1>8. 0 \in 0..n
  <2> HIDE DEF n
  <2> QED
    BY <1>1
<1>9. Eq(F)
  <2> DEFINE Body(h, i) == IF i = 0 THEN [dir |-> dir, token |-> <<>>]
                            ELSE IF s[i] = "/"
                                 THEN [dir |-> Enter(h[i - 1].dir, h[i - 1].token),
                                       token |-> <<>>]
                                 ELSE [dir |-> h[i - 1].dir,
                                       token |-> Append(h[i - 1].token, s[i])]
  <2>1. ASSUME NEW i \in 0..n PROVE g[i] = Body(g, i)
    BY <1>4, <1>5, <1>6, <1>7, Zenon DEF StepOn
  <2>2. g = [i \in 0..n |-> g[i]]
    BY <1>4
  <2>3. Eq(g)
    BY <2>1, <2>2, Zenon
  <2>4. \E h : Eq(h)
    BY <2>3, Zenon
  <2> HIDE DEF Eq
  <2> QED
    BY <2>4
<1>10. Walk(dir, s) = F[n]
  BY DEF Walk
<1>11. F[0] = base
  <2> HIDE DEF F, n
  <2>1. 0 \in 0..Len(s)
    BY <1>8 DEF n
  <2> QED
    BY <1>9, <2>1, Zenon
<1>12. ASSUME NEW i \in 1..n PROVE F[i] = StepOn(F[i - 1], s[i])
  <2>1. i \in 0..Len(s) /\ i # 0
    BY <1>5
  <2> HIDE DEF F, n
  <2> QED
    BY <1>9, <2>1, Zenon DEF StepOn
<1> HIDE DEF F
<1> QED
  BY <1>10, <1>11, <1>12, Zenon DEF IsWalk

LEMMA WalkEmpty ==
  ASSUME TypeOK, TreeOK, NEW dir \in Nodes
  PROVE  Walk(dir, <<>>) = [dir |-> dir, token |-> <<>>]
<1>1. <<>> \in Seq(Chars) /\ Len(<<>>) = 0
  BY EmptySeq
<1>2. PICK f : IsWalk(f, dir, <<>>)
  BY <1>1, WalkDefined, Zenon
<1> QED
  BY <1>1, <1>2, Zenon DEF IsWalk

LEMMA WalkAppend ==
  ASSUME TypeOK, TreeOK, NEW dir \in Nodes, NEW s \in Seq(Chars), NEW ch \in Chars
  PROVE  Walk(dir, Append(s, ch)) = StepOn(Walk(dir, s), ch)
<1> DEFINE n == Len(s)
           longer == Append(s, ch)
<1>1. /\ n \in Nat /\ longer \in Seq(Chars) /\ Len(longer) = n + 1
      /\ longer[n + 1] = ch /\ \A i \in 1..n : longer[i] = s[i]
  BY AppendProperties, LenProperties
<1> HIDE DEF longer
<1>2. PICK f : IsWalk(f, dir, longer)
  BY <1>1, WalkDefined, Zenon
<1>3. PICK g : IsWalk(g, dir, s)
  BY WalkDefined, Zenon
<1> HIDE DEF n
<1> DEFINE Same == {m \in Nat : m <= n => f[m] = g[m]}
<1>4. 0 \in Same
  BY <1>2, <1>3 DEF IsWalk
<1>5. ASSUME NEW m \in Nat, m \in Same PROVE m + 1 \in Same
  <2> SUFFICES ASSUME m + 1 <= n PROVE f[m + 1] = g[m + 1]
    OBVIOUS
  <2> DEFINE i == m + 1
  <2>1. i \in 1..n /\ i - 1 = m /\ i \in 1..Len(longer)
    <3>1. Len(longer) = n + 1 /\ n \in Nat
      BY <1>1
    <3> QED
      BY <3>1
  <2>2. f[m] = g[m]
    BY <1>1, <1>5
  <2> HIDE DEF i
  <2>3. f[i] = StepOn(f[i - 1], longer[i]) /\ g[i] = StepOn(g[i - 1], s[i])
    BY <1>2, <1>3, <2>1, Zenon DEF IsWalk, n
  <2>4. longer[i] = s[i]
    BY <1>1, <2>1
  <2>5. f[i] = g[i]
    BY <2>1, <2>2, <2>3, <2>4, Zenon
  <2> QED
    BY <2>5 DEF i
<1>6. f[n] = g[n]
  <2> HIDE DEF Same
  <2>1. n \in Same
    BY <1>1, <1>4, <1>5, SetInduction
  <2> USE DEF Same
  <2> QED
    BY <1>1, <2>1
<1>7. f[n + 1] = StepOn(f[n], ch)
  <2> DEFINE i == n + 1
  <2>1. i \in 1..Len(longer) /\ i - 1 = n
    <3>1. Len(longer) = n + 1 /\ n \in Nat
      BY <1>1
    <3> QED
      BY <3>1
  <2>2. longer[i] = ch
    BY <1>1
  <2> HIDE DEF i
  <2>3. f[i] = StepOn(f[n], ch)
    BY <1>2, <2>1, <2>2, Zenon DEF IsWalk
  <2> QED
    BY <2>3 DEF i
<1>8. Walk(dir, longer) = f[n + 1] /\ Walk(dir, s) = g[n]
  BY <1>1, <1>2, <1>3 DEF IsWalk, n
<1> QED
  BY <1>6, <1>7, <1>8 DEF longer

-----------------------------------------------------------------------------
(* The path leads back.  What is kept of a way is its longest end that     *)
(* fits.                                                                   *)
Ending(way, k) == SubSeq(way, Len(way) - k + 1, Len(way))

Fits(way) == {k \in 0..Len(way) : Len(AsString(Ending(way, k))) < MAX_PATH}

LEMMA EndingType ==
  ASSUME NEW way \in Seq(Nodes), NEW k \in 0..Len(way)
  PROVE  /\ Ending(way, k) \in Seq(Nodes) /\ Len(Ending(way, k)) = k
         /\ k = 0 => Ending(way, k) = <<>>
         /\ k = Len(way) => Ending(way, k) = way
         /\ k < Len(way) => Ending(way, k + 1) = <<way[Len(way) - k]>> \o Ending(way, k)
<1> DEFINE n == Len(way)
           m == n - k + 1
<1>1. n \in Nat /\ k \in Nat /\ m \in Int /\ n \in Int /\ \A i \in m..n : i \in 1..n
  BY LenProperties
<1>2. \A i \in m..n : way[i] \in Nodes
  BY <1>1, ElementOfSeq
<1>3. /\ SubSeq(way, m, n) \in Seq(Nodes)
      /\ Len(SubSeq(way, m, n)) = IF m <= n THEN n - m + 1 ELSE 0
  <2> HIDE DEF m, n
  <2> QED
    BY <1>1, <1>2, SubSeqProperties
<1>4. Ending(way, k) = SubSeq(way, m, n)
  BY DEF Ending
<1>5. (IF m <= n THEN n - m + 1 ELSE 0) = k
  BY <1>1
<1>6. ASSUME k = 0 PROVE Ending(way, k) = <<>>
  <2>1. n < m
    BY <1>1, <1>6
  <2> HIDE DEF m, n
  <2> QED
    BY <1>1, <1>4, <2>1, SubSeqEmpty
<1>7. ASSUME k = n PROVE Ending(way, k) = way
  <2>1. m = 1
    BY <1>1, <1>7
  <2>2. Ending(way, k) = SubSeq(way, 1, n)
    BY <1>4, <2>1, Zenon
  <2> QED
    BY <2>2, SubSeqFull
<1>8. ASSUME k < n PROVE Ending(way, k + 1) = <<way[n - k]>> \o Ending(way, k)
  <2>1. n - k \in 1..n /\ n \in n - k..n /\ n - (k + 1) + 1 = n - k
    BY <1>1, <1>8
  <2>2. SubSeq(way, n - k, n) = <<way[n - k]>> \o SubSeq(way, n - k + 1, n)
    BY <2>1, SubSeqRecursiveFirst, Zenon
  <2>3. Ending(way, k + 1) = SubSeq(way, n - (k + 1) + 1, n)
    BY DEF Ending
  <2>4. Ending(way, k + 1) = SubSeq(way, n - k, n)
    BY <2>1, <2>3, Zenon
  <2> QED
    BY <1>4, <2>2, <2>4, Zenon
<1> QED
  BY <1>3, <1>4, <1>5, <1>6, <1>7, <1>8

LEMMA KeptIsLongest ==
  ASSUME TypeOK, NEW way \in Seq(Nodes)
  PROVE  \E k \in Fits(way) : /\ \A j \in Fits(way) : j <= k
                              /\ Kept(way) = Ending(way, k)
<1> DEFINE n == Len(way)
           most == CHOOSE k \in Fits(way) : \A j \in Fits(way) : j <= k
           T == {n - k : k \in Fits(way)}
<1>1. n \in Nat /\ Fits(way) \subseteq 0..n
  BY LenProperties DEF Fits
<1>2. 0 \in Fits(way)
  <2>1. 0 \in 0..n
    BY <1>1
  <2>2. Ending(way, 0) = <<>>
    BY <2>1, EndingType
  <2>3. Len(AsString(Ending(way, 0))) = 0 /\ 0 < MAX_PATH
    BY <2>2, AsStringEmpty, EmptySeq, FileSystemAssumption
  <2> QED
    BY <2>1, <2>3 DEF Fits
<1>3. PICK x \in T : \A y \in T : x <= y
  <2>1. T \subseteq Nat /\ T # {}
    BY <1>1, <1>2
  <2> HIDE DEF T
  <2> QED
    BY <2>1, NatMinimum
<1>4. PICK k \in Fits(way) : x = n - k
  BY <1>3
<1>5. ASSUME NEW j \in Fits(way) PROVE j <= k
  <2>1. x <= n - j
    BY <1>3
  <2>2. j \in Nat /\ k \in Nat
    BY <1>1
  <2> HIDE DEF n, T
  <2> QED
    BY <1>1, <1>4, <2>1, <2>2
<1>6. most \in Fits(way) /\ \A j \in Fits(way) : j <= most
  BY <1>4, <1>5, Zenon
<1>7. Kept(way) = Ending(way, most)
  BY DEF Kept, Ending, Fits
<1> HIDE DEF most
<1> QED
  BY <1>6, <1>7

LEMMA KeptComplete ==
  ASSUME TypeOK, NEW way \in Seq(Nodes), Len(Kept(way)) = Len(way)
  PROVE  Kept(way) = way /\ Len(AsString(way)) < MAX_PATH
<1>1. PICK k \in Fits(way) : Kept(way) = Ending(way, k)
  BY KeptIsLongest
<1>2. k \in 0..Len(way) /\ Len(AsString(Ending(way, k))) < MAX_PATH
  BY DEF Fits
<1>3. k = Len(way)
  BY <1>1, <1>2, EndingType
<1>4. Ending(way, k) = way
  BY <1>2, <1>3, EndingType
<1> QED
  BY <1>1, <1>2, <1>4

(* A name without a slash is one piece of a path.                          *)
LEMMA WalkName ==
  ASSUME TypeOK, TreeOK, NEW dir \in Nodes, NEW s \in Seq(Chars), NEW d,
         Walk(dir, s) = [dir |-> d, token |-> <<>>]
  PROVE  \A name \in Seq(Chars) :
           (\A i \in DOMAIN name : name[i] # "/")
             => Walk(dir, s \o name) = [dir |-> d, token |-> name]
<1> DEFINE S == {m \in Nat : \A name \in Seq(Chars) :
                               Len(name) = m /\ (\A i \in DOMAIN name : name[i] # "/")
                                 => Walk(dir, s \o name) = [dir |-> d, token |-> name]}
<1>1. 0 \in S
  <2>1. ASSUME NEW name \in Seq(Chars), Len(name) = 0
        PROVE  Walk(dir, s \o name) = [dir |-> d, token |-> name]
    <3>1. name = <<>> /\ s \o <<>> = s
      BY <2>1, EmptySeq, ConcatEmptySeq
    <3> QED
      BY <3>1, Zenon
  <2> QED
    BY <2>1
<1>2. ASSUME NEW m \in Nat, m \in S PROVE m + 1 \in S
  <2>1. ASSUME NEW name \in Seq(Chars), Len(name) = m + 1, \A i \in DOMAIN name : name[i] # "/"
        PROVE  Walk(dir, s \o name) = [dir |-> d, token |-> name]
    <3>1. name # <<>>
      BY <2>1, EmptySeq
    <3>2. PICK front \in Seq(Chars), ch \in Chars : name = Append(front, ch)
      BY <3>1, SequenceEmptyOrAppend
    <3>3. /\ Len(front) = m /\ DOMAIN front = 1..m /\ DOMAIN name = 1..m + 1
          /\ \A i \in 1..m : name[i] = front[i]
          /\ name[m + 1] = ch /\ Len(front) \in Nat
      BY <2>1, <3>2, AppendProperties, LenProperties
    <3>4. m + 1 \in 1..m + 1 /\ 1..m \subseteq 1..m + 1
      OBVIOUS
    <3>5. ch # "/" /\ \A i \in DOMAIN front : front[i] # "/"
      BY <2>1, <3>3, <3>4
    <3>6. Walk(dir, s \o front) = [dir |-> d, token |-> front]
      BY <1>2, <3>3, <3>5
    <3>7. s \o front \in Seq(Chars) /\ s \o name = Append(s \o front, ch)
      BY <3>2
    <3>8. Walk(dir, s \o name) = StepOn(Walk(dir, s \o front), ch)
      BY <3>7, WalkAppend
    <3>9. StepOn([dir |-> d, token |-> front], ch) = [dir |-> d, token |-> Append(front, ch)]
      BY <3>5 DEF StepOn
    <3> QED
      BY <3>2, <3>6, <3>8, <3>9, Zenon
  <2> QED
    BY <2>1
<1> HIDE DEF S
<1>3. \A m \in Nat : m \in S
  BY <1>1, <1>2, SetInduction
<1> USE DEF S
<1>4. ASSUME NEW name \in Seq(Chars), \A i \in DOMAIN name : name[i] # "/"
      PROVE  Walk(dir, s \o name) = [dir |-> d, token |-> name]
  <2>1. Len(name) \in Nat /\ Len(name) \in S
    BY <1>3, LenProperties
  <2> QED
    BY <1>4, <2>1
<1> QED
  BY <1>4

(* Every directory has a name, and users cannot give it none.              *)
NamesNonEmpty == \A n \in Nodes : nodes[n].name # <<>>

LEMMA NamesInit == Init => NamesNonEmpty
<1> SUFFICES ASSUME Init PROVE NamesNonEmpty
  OBVIOUS
<1>1. "/" \in Chars /\ MAX_FILENAME - 1 \in Nat /\ MAX_FILENAME - 1 >= 1
  BY FileSystemAssumption
<1>2. Slash \in Seq(Chars) /\ Len(Slash) = 1 /\ Slash # <<>>
  BY <1>1 DEF Slash
<1>3. StoredName(Slash) = Slash
  BY <1>1, <1>2, TruncateLength DEF StoredName
<1>4. Nodes = {1} /\ nodes[1].name = StoredName(Slash)
  BY DEF Init, Nodes, NewNode
<1> QED
  BY <1>2, <1>3, <1>4 DEF NamesNonEmpty

LEMMA NamesNext == TypeOK /\ NamesNonEmpty /\ [Next]_vars => NamesNonEmpty'
<1> SUFFICES ASSUME TypeOK, NamesNonEmpty, [Next]_vars PROVE NamesNonEmpty'
  OBVIOUS
<1>1. ASSUME NEW path \in Args, fs_mkdir(path) PROVE NamesNonEmpty'
  <2> DEFINE new == Len(nodes) + 1
  <2>1. Nodes' = Nodes \union {new}
    BY <1>1, MkdirEffect, TypeFacts DEF Nodes
  <2>2. path \in Seq(Chars) /\ path # <<>> /\ Len(path) \in Nat /\ Len(path) >= 1
    BY <1>1, FileSystemAssumption, EmptySeq, LenProperties DEF fs_mkdir
  <2>3. nodes'[new].name = StoredName(path)
    <3>1. nodes'[new] = NewNode(path, current_dir)
      BY <1>1, MkdirEffect
    <3> HIDE DEF new
    <3> QED
      BY <3>1 DEF NewNode
  <2>4. StoredName(path) # <<>>
    <3> DEFINE m == IF Len(path) < MAX_FILENAME - 1 THEN Len(path) ELSE MAX_FILENAME - 1
    <3>1. m \in 1..Len(path) /\ 1 <= m /\ m \in Nat /\ m - 1 + 1 = m
      BY <2>2, FileSystemAssumption
    <3>2. StoredName(path) = SubSeq(path, 1, m)
      BY DEF StoredName, Truncate
    <3>3. \A i \in 1..m : path[i] \in Chars
      BY <2>2, <3>1, ElementOfSeq
    <3> HIDE DEF m
    <3>4. Len(SubSeq(path, 1, m)) = m
      BY <3>1, <3>3, SubSeqProperties
    <3> QED
      BY <3>1, <3>2, <3>4, EmptySeq
  <2>5. \A n \in Nodes : nodes'[n].name = nodes[n].name
    BY <1>1, MkdirEffect
  <2> QED
    BY <2>1, <2>3, <2>4, <2>5 DEF NamesNonEmpty
<1>2. ASSUME UNCHANGED nodes PROVE NamesNonEmpty'
  BY <1>2 DEF NamesNonEmpty, Nodes
<1> QED
  BY <1>1, <1>2 DEF Next, fs_cd, vars

(* The last character is cut off.                                          *)
LEMMA TruncateLast ==
  ASSUME NEW s \in Seq(Chars), NEW ch \in Chars
  PROVE  Truncate(Append(s, ch), Len(s)) = s
<1> DEFINE longer == Append(s, ch)
           n == Len(s)
<1>1. /\ longer \in Seq(Chars) /\ Len(longer) = n + 1 /\ n \in Nat
      /\ \A i \in 1..n : longer[i] = s[i] /\ s[i] \in Chars
  BY AppendProperties, LenProperties, ElementOfSeq
<1>2. Truncate(longer, n) = SubSeq(longer, 1, n)
  BY <1>1 DEF Truncate
<1> HIDE DEF longer, n
<1>3. /\ SubSeq(longer, 1, n) \in Seq(Chars)
      /\ Len(SubSeq(longer, 1, n)) = n
      /\ \A i \in 1..n : SubSeq(longer, 1, n)[i] = longer[i]
  <2>1. \A i \in 1..n : longer[i] \in Chars /\ 1 + i - 1 = i
    BY <1>1
  <2>2. n - 1 + 1 = n /\ (IF 1 <= n THEN n ELSE 0) = n
    BY <1>1
  <2> QED
    BY <1>1, <2>1, <2>2, SubSeqProperties
<1>4. SubSeq(longer, 1, n) = s
  BY <1>1, <1>3, SeqEqual DEF n
<1> QED
  BY <1>2, <1>4 DEF longer, n

PlainWay(n) == \A i \in DOMAIN Way[n] : Plain(Way[n][i])

(* From a directory that was entered by its name one goes back to it by    *)
(* that name, if no slash takes it apart.                                  *)
LEMMA EnterName ==
  ASSUME TreeInv, NamesNonEmpty, NEW n \in visited \ {root_node}, Plain(n)
  PROVE  /\ Enter(nodes[n].parent, nodes[n].name) = n
         /\ \A i \in DOMAIN nodes[n].name : nodes[n].name[i] # "/"
<1>1. /\ n \in Nodes /\ nodes[n].parent \in Nodes /\ nodes[n].name \notin Special
      /\ Child(nodes[n].parent, nodes[n].name) = n
  BY VisitedNames
<1>2. nodes[n].parent # NULL
  BY <1>1 DEF Nodes, NULL
<1>3. nodes[n].name # <<>>
  BY <1>1 DEF NamesNonEmpty
<1> QED
  BY <1>1, <1>2, <1>3 DEF Enter, Special, Plain

(* The last step of the way back, but for the last slash.                  *)
LEMMA LastStep ==
  ASSUME TreeInv, NamesNonEmpty, NEW n \in visited \ {root_node}, PlainWay(n)
  PROVE  /\ nodes[n].parent \in visited /\ PlainWay(nodes[n].parent)
         /\ Enter(nodes[n].parent, nodes[n].name) = n
         /\ Walk(root_node, Slash \o AsString(Way[nodes[n].parent]))
              = [dir |-> nodes[n].parent, token |-> <<>>]
            => \E q \in Seq(Chars) :
                 /\ Slash \o AsString(Way[n]) = Append(q, "/") /\ Len(q) >= 1
                 /\ Walk(root_node, q) = [dir |-> nodes[n].parent, token |-> nodes[n].name]
<1> DEFINE p == nodes[n].parent
           name == nodes[n].name
           front == Slash \o AsString(Way[p])
<1>1. p \in Nodes /\ p \in visited /\ n \in Nodes
  BY VisitedNames
<1>2. TypeOK /\ TreeOK
  BY DEF TreeInv
<1>3. root_node \in Nodes /\ "/" \in Chars /\ Slash \in Seq(Chars) /\ Len(Slash) = 1
  <2>1. root_node \in Nodes
    BY <1>2, TypeFacts
  <2> QED
    BY <1>2, <2>1, PieceType, FileSystemAssumption DEF Slash
<1>4. /\ Way[n] = Append(Way[p], n) /\ Way[p] \in Seq(Nodes)
      /\ Len(Way[p]) \in Nat /\ DOMAIN Way[p] = 1..Len(Way[p])
  BY <1>1, <1>2, WayOf, WayType, LenProperties
<1>5. /\ DOMAIN Way[n] = 1..Len(Way[p]) + 1 /\ Way[n][Len(Way[p]) + 1] = n
      /\ \A i \in 1..Len(Way[p]) : Way[n][i] = Way[p][i]
  BY <1>1, <1>4, AppendProperties, LenProperties
<1>6. PlainWay(p) /\ Plain(n)
  <2>1. 1..Len(Way[p]) \subseteq 1..Len(Way[p]) + 1
        /\ Len(Way[p]) + 1 \in 1..Len(Way[p]) + 1
    BY <1>4
  <2> QED
    BY <1>4, <1>5, <2>1, Zenon DEF PlainWay
<1>7. /\ AsString(Way[p]) \in Seq(Chars) /\ front \in Seq(Chars)
      /\ AsString(Way[n]) = AsString(Way[p]) \o Piece(n)
      /\ Len(AsString(Way[p])) \in Nat /\ Len(front) = 1 + Len(AsString(Way[p]))
  <2>1. AsString(Way[p]) \in Seq(Chars) /\ AsString(Way[n]) = AsString(Way[p]) \o Piece(n)
    BY <1>1, <1>2, <1>4, AsStringAppend
  <2>2. /\ front \in Seq(Chars) /\ Len(AsString(Way[p])) \in Nat
        /\ Len(front) = Len(Slash) + Len(AsString(Way[p]))
    BY <1>3, <2>1, ConcatProperties, LenProperties
  <2> QED
    BY <1>3, <2>1, <2>2
<1>8. Piece(n) \in Seq(Chars) /\ Piece(n) = name \o Slash /\ name \in Seq(Chars)
      /\ Len(name) \in Nat
  BY <1>1, <1>2, PieceType
<1>9. /\ front \o name \in Seq(Chars)
      /\ Len(front \o name) >= 1
  <2>1. /\ front \o name \in Seq(Chars)
        /\ Len(front \o name) = Len(front) + Len(name)
    <3> HIDE DEF front, name
    <3> QED
      BY <1>7, <1>8, ConcatProperties
  <2> HIDE DEF front, name
  <2> QED
    BY <1>7, <1>8, <2>1
<1>10. Slash \o AsString(Way[n]) = Append(front \o name, "/")
  <2>1. \A s, t, u \in Seq(Chars) : (s \o t) \o u = s \o (t \o u)
    BY ConcatAssociative
  <2>2. Slash \o (AsString(Way[p]) \o Piece(n)) = front \o Piece(n)
    <3> HIDE DEF p
    <3>1. Slash \in Seq(Chars) /\ AsString(Way[p]) \in Seq(Chars) /\ Piece(n) \in Seq(Chars)
      BY <1>3, <1>7, <1>8
    <3> QED
      BY <2>1, <3>1, Zenon
  <2>3. front \o (name \o Slash) = (front \o name) \o Slash
    <3> HIDE DEF front, name
    <3> QED
      BY <1>3, <1>7, <1>8, <2>1, Zenon
  <2>4. (front \o name) \o Slash = Append(front \o name, "/")
    BY <1>3, <1>9, AppendIsConcat DEF Slash
  <2> QED
    BY <1>7, <1>8, <2>2, <2>3, <2>4, Zenon
<1>11. Enter(p, name) = n /\ \A i \in DOMAIN name : name[i] # "/"
  BY <1>6, EnterName
<1>12. ASSUME Walk(root_node, front) = [dir |-> p, token |-> <<>>]
       PROVE  Walk(root_node, front \o name) = [dir |-> p, token |-> name]
  <2> HIDE DEF front, name, p
  <2>1. \A m \in Seq(Chars) : (\A i \in DOMAIN m : m[i] # "/")
          => Walk(root_node, front \o m) = [dir |-> p, token |-> m]
    <3>1. TypeOK /\ TreeOK /\ root_node \in Nodes /\ front \in Seq(Chars)
      BY <1>2, <1>3, <1>7
    <3> QED
      BY <1>12, <3>1, WalkName
  <2> QED
    BY <1>8, <1>11, <2>1, Zenon
<1> HIDE DEF front
<1> QED
  BY <1>1, <1>6, <1>9, <1>10, <1>11, <1>12 DEF front

LEMMA WalkWay ==
  ASSUME TreeInv, NamesNonEmpty
  PROVE  \A n \in visited :
           PlainWay(n) => Walk(root_node, Slash \o AsString(Way[n]))
                            = [dir |-> n, token |-> <<>>]
<1> DEFINE Holds(n) == Walk(root_node, Slash \o AsString(Way[n])) = [dir |-> n, token |-> <<>>]
           S == {n \in Nodes : n \in visited /\ PlainWay(n) => Holds(n)}
<1>1. /\ TypeOK /\ TreeOK /\ root_node \in Nodes /\ "/" \in Chars /\ Slash \in Seq(Chars)
      /\ visited \subseteq Nodes
  <2>1. TypeOK /\ TreeOK
    BY DEF TreeInv
  <2>2. root_node \in Nodes
    BY <2>1, TypeFacts
  <2>3. Slash \in Seq(Chars) /\ "/" \in Chars
    BY <2>1, <2>2, PieceType, FileSystemAssumption
  <2> QED
    BY <2>1, <2>2, <2>3 DEF TypeOK
<1>2. root_node \in S
  <2>1. Way[root_node] = <<>> /\ Slash \o <<>> = Slash
    BY <1>1, WayOf, ConcatEmptySeq
  <2>2. Slash = Append(<<>>, "/")
    BY DEF Slash
  <2>3. Walk(root_node, Slash) = StepOn([dir |-> root_node, token |-> <<>>], "/")
    <3>1. <<>> \in Seq(Chars)
      BY EmptySeq
    <3>2. Walk(root_node, Append(<<>>, "/")) = StepOn(Walk(root_node, <<>>), "/")
      BY <1>1, <3>1, WalkAppend, Zenon
    <3>3. Walk(root_node, <<>>) = [dir |-> root_node, token |-> <<>>]
      BY <1>1, WalkEmpty, Zenon
    <3> QED
      BY <2>2, <3>2, <3>3, Zenon
  <2>4. Enter(root_node, <<>>) = root_node
    BY DEF Enter
  <2>5. Walk(root_node, Slash) = [dir |-> root_node, token |-> <<>>]
    BY <2>3, <2>4 DEF StepOn
  <2>6. Holds(root_node)
    BY <2>1, <2>5, AsStringEmpty, Zenon
  <2> QED
    BY <1>1, <2>6
<1>3. ASSUME NEW n \in Nodes \ {root_node}, nodes[n].parent \in S PROVE n \in S
  <2> SUFFICES ASSUME n \in visited, PlainWay(n) PROVE Holds(n)
    OBVIOUS
  <2> DEFINE p == nodes[n].parent
             name == nodes[n].name
  <2>1. n \in visited \ {root_node}
    BY <1>3
  <2>2. p \in visited /\ PlainWay(p) /\ Enter(p, name) = n
    BY <2>1, LastStep
  <2>3. Walk(root_node, Slash \o AsString(Way[p])) = [dir |-> p, token |-> <<>>]
    BY <1>3, <2>2
  <2>4. PICK q \in Seq(Chars) : /\ Slash \o AsString(Way[n]) = Append(q, "/")
                                /\ Walk(root_node, q) = [dir |-> p, token |-> name]
    BY <2>1, <2>3, LastStep
  <2>5. Walk(root_node, Append(q, "/")) = StepOn([dir |-> p, token |-> name], "/")
    BY <1>1, <2>4, WalkAppend
  <2>6. StepOn([dir |-> p, token |-> name], "/") = [dir |-> n, token |-> <<>>]
    BY <2>2 DEF StepOn
  <2> QED
    BY <2>4, <2>5, <2>6, Zenon
<1>4. Nodes \subseteq S
  <2> HIDE DEF S
  <2> QED
    BY <1>1, <1>2, <1>3, NodeInduction
<1> QED
  BY <1>1, <1>4

LEMMA LeadsBack == TreeInv /\ NamesNonEmpty => PathLeadsBack
<1> DEFINE n == current_dir
           way == Way[n]
           path == Slash \o AsString(way)
<1> SUFFICES ASSUME TreeInv, NamesNonEmpty, PathComplete, PlainWay(n)
             PROVE  fs_path_to_node(root_node, get_current_path) = n
  BY DEF PathLeadsBack, PlainWay
<1>1. TypeOK /\ TreeOK /\ n \in visited
  BY DEF TreeInv, VisitedReachable
<1>2. n \in Nodes /\ root_node \in Nodes /\ way \in Seq(Nodes)
  BY <1>1, TypeFacts, WayType
<1>3. Kept(way) = way /\ Len(AsString(way)) < MAX_PATH
  BY <1>1, <1>2, KeptComplete DEF PathComplete
<1>4. get_current_path = path
  BY <1>3, Zenon DEF get_current_path
<1>5. CASE n = root_node
  <2>1. way = <<>>
    BY <1>1, <1>2, <1>5, WayOf
  <2>2. path = Slash /\ Slash # <<>>
    <3>1. Slash \in Seq(Chars) /\ Slash # <<>>
      BY FileSystemAssumption DEF Slash
    <3>2. Slash \o <<>> = Slash
      BY <3>1, ConcatEmptySeq
    <3>3. path = Slash \o <<>>
      BY <2>1, AsStringEmpty, Zenon
    <3> QED
      BY <3>1, <3>2, <3>3, Zenon
  <2> HIDE DEF path
  <2> QED
    BY <1>4, <1>5, <2>2 DEF fs_path_to_node
<1>6. CASE n # root_node
  <2> DEFINE p == nodes[n].parent
             name == nodes[n].name
             s == Truncate(path, MAX_PATH - 1)
  <2>1. n \in visited \ {root_node}
    BY <1>1, <1>6
  <2>2. p \in visited /\ PlainWay(p) /\ Enter(p, name) = n
    BY <2>1, LastStep
  <2>3. Walk(root_node, Slash \o AsString(Way[p])) = [dir |-> p, token |-> <<>>]
    BY <2>2, WalkWay
  <2>4. PICK q \in Seq(Chars) : /\ path = Append(q, "/") /\ Len(q) >= 1
                                /\ Walk(root_node, q) = [dir |-> p, token |-> name]
    BY <2>1, <2>3, LastStep
  <2>5. Walk(root_node, path) = [dir |-> n, token |-> <<>>]
    BY <1>1, WalkWay
  <2>6. /\ "/" \in Chars /\ MAX_PATH \in Nat /\ MAX_PATH > 1 /\ Slash \in Seq(Chars)
        /\ Len(Slash) = 1
    BY FileSystemAssumption DEF Slash
  <2>7. /\ path \in Seq(Chars) /\ Len(path) = Len(q) + 1 /\ Len(q) \in Nat
        /\ Len(path) <= MAX_PATH
    <3>1. AsString(way) \in Seq(Chars)
      BY <1>1, <1>2, AsStringAppend
    <3>2. Len(path) = 1 + Len(AsString(way)) /\ Len(AsString(way)) \in Nat
      <4>1. Len(path) = Len(Slash) + Len(AsString(way)) /\ Len(AsString(way)) \in Nat
        BY <2>6, <3>1, ConcatProperties, LenProperties
      <4> QED
        BY <2>6, <4>1
    <3>3. path \in Seq(Chars) /\ Len(path) = Len(q) + 1 /\ Len(q) \in Nat
      BY <2>4, <2>6, AppendProperties, LenProperties
    <3> HIDE DEF path
    <3> QED
      BY <1>3, <2>6, <3>2, <3>3
  <2> HIDE DEF path
  <2>8. path # Slash /\ path # <<>>
    <3>1. Len(path) >= 2
      BY <2>4, <2>7
    <3>2. Len(path) # Len(Slash) /\ Len(path) # Len(<<>>)
      BY <2>6, <2>7, <3>1, EmptySeq
    <3> QED
      BY <3>2, Zenon
  <2>9. Enter(Walk(root_node, s).dir, Walk(root_node, s).token) = n
    <3>1. CASE Len(path) <= MAX_PATH - 1
      <4>1. s = path
        BY <2>6, <2>7, <3>1, TruncateLength
      <4>2. Enter(n, <<>>) = n
        BY DEF Enter
      <4> HIDE DEF s
      <4> QED
        BY <2>5, <4>1, <4>2
    <3>2. CASE Len(path) = MAX_PATH
      <4>1. Len(q) = MAX_PATH - 1
        BY <2>6, <2>7, <3>2
      <4>2. s = q
        BY <2>4, <2>6, <4>1, TruncateLast
      <4> HIDE DEF s
      <4> QED
        BY <2>2, <2>4, <4>2
    <3> QED
      BY <2>6, <2>7, <3>1, <3>2
  <2> QED
    BY <1>4, <2>8, <2>9 DEF fs_path_to_node
<1> QED
  BY <1>5, <1>6

(* The path the prompt shows leads back to the current directory: building *)
(* a path and following one agree, in every tree users can make.           *)
THEOREM PathsLeadBack == Spec => []PathLeadsBack
<1>1. TreeInv => TypeOK
  BY DEF TreeInv
<1>2. QED
  BY <1>1, TreeInit, TreeNext, NamesInit, NamesNext, LeadsBack, PTL DEF Spec
=============================================================================
