--------------------------- MODULE FileListsProofs ---------------------------
(***************************************************************************)
(* FileListIsTheTree, for any tree and any order of its siblings.          *)
(* The rows, their paths and the JSON are recursive functions, on whose    *)
(* rounds, ids and rows the proofs go by induction.  The library's theorems*)
(* of induction take the predicate as an operator; here it is the set of   *)
(* the numbers it holds of, and `Induction' rests on what is known of      *)
(* finite sets.                                                            *)
(***************************************************************************)
EXTENDS PermissionStoreProofs, FileLists, FiniteSetTheorems

-----------------------------------------------------------------------------
(* Induction. *)

\* A set of numbers up to n that has 0, and with each number its successor, has n:
\* otherwise "add one" would map it into itself without 0.
LEMMA Reached ==
    ASSUME NEW n \in Nat, NEW T \in SUBSET (0..n), 0 \in T,
           \A i \in T : i < n => i + 1 \in T
    PROVE  n \in T
<1> DEFINE f == [i \in T |-> i + 1]
<1>1. SUFFICES ASSUME n \notin T PROVE FALSE
    OBVIOUS
<1>2. IsFiniteSet(T)
  <2>1. IsFiniteSet(0..n)
    BY FS_Interval
  <2>2. QED  BY <2>1, FS_Subset
<1>3. Cardinality(T) \in Nat
    BY <1>2, FS_CardinalityType
<1>4. f \in Injection(T, T \ {0})
    BY <1>1 DEF Injection, IsInjective
<1>5. Cardinality(T \ {0}) = Cardinality(T) - 1 /\ IsFiniteSet(T \ {0})
    BY <1>2, FS_RemoveElement
<1>6. Cardinality(T) <= Cardinality(T \ {0})
    <2> HIDE DEF f
    <2> QED BY <1>4, <1>5, FS_Injection
<1>7. QED  BY <1>3, <1>5, <1>6

\* Induction, for a predicate that is given as the set of numbers it holds of.
LEMMA Induction ==
    ASSUME NEW T, 0 \in T, \A i \in Nat : i \in T => i + 1 \in T
    PROVE  Nat \subseteq T
<1>1. SUFFICES ASSUME NEW n \in Nat PROVE n \in T
    OBVIOUS
<1> DEFINE U == T \cap (0..n)
<1>2. 0 \in U /\ U \in SUBSET (0..n)
    OBVIOUS
<1>3. \A i \in U : i < n => i + 1 \in U
    OBVIOUS
<1>4. n \in U
    <2> HIDE DEF U
    <2> QED BY <1>2, <1>3, Reached
<1>5. QED  BY <1>4

-----------------------------------------------------------------------------
(* The recursive functions are what their definitions say. *)

LEMMA LevelDef ==
    Level = [k \in 0..MaxNodes |-> IF k = 0 THEN TopRows ELSE RowsBelow(Level[k - 1])]
<1> DEFINE Is(f, n) == f = [k \in 0..n |-> IF k = 0 THEN TopRows ELSE RowsBelow(f[k - 1])]
           T == {n \in Nat : \E f : Is(f, n)}
<1>1. 0 \in T
  <2>1. Is([k \in 0..0 |-> TopRows], 0)
    OBVIOUS
  <2>2. QED  BY <2>1
<1>2. ASSUME NEW i \in Nat, i \in T PROVE i + 1 \in T
  <2>1. PICK f : Is(f, i)
    BY <1>2
  <2>2. PICK g : g = [k \in 0..i + 1 |-> IF k = i + 1 THEN RowsBelow(f[i]) ELSE f[k]]
    OBVIOUS
  <2>3. \A k \in 0..i + 1 : g[k] = IF k = 0 THEN TopRows ELSE RowsBelow(g[k - 1])
    BY <2>1, <2>2
  <2>4. g = [k \in 0..i + 1 |-> g[k]]
    BY <2>2
  <2>5. Is(g, i + 1)
    BY <2>3, <2>4
  <2>6. QED
    <3> HIDE DEF Is
    <3> QED BY <2>5
<1>3. MaxNodes \in T
  <2> HIDE DEF T
  <2> QED BY <1>1, <1>2, Induction, BoundAssumption
<1>4. \E f : Is(f, MaxNodes)
    BY <1>3
<1>5. QED  BY <1>4 DEF Level
-----------------------------------------------------------------------------
(* The rows of the query. *)

\* The rows of a round come from those of the round before it.
LEMMA LevelRows ==
    ASSUME NEW k \in 1..MaxNodes, NEW r
    PROVE  r \in Level[k] <=> \E q \in Level[k - 1], n \in nodes :
               node[n].parent = q.of /\ r = FileRow(Append(q.path, node[n].name), n)
<1>1. Level[k] = RowsBelow(Level[k - 1])
  <2>1. k \in 0..MaxNodes /\ k # 0
    BY BoundAssumption
  <2>2. QED  BY <2>1, LevelDef
<1> DEFINE From(q, n) == node[n].parent = q.of /\ r = FileRow(Append(q.path, node[n].name), n)
<1>2. ASSUME r \in Level[k] PROVE \E q \in Level[k - 1], n \in nodes : From(q, n)
  <2>1. PICK x \in Level[k - 1] \X nodes :
            node[x[2]].parent = x[1].of /\ r = FileRow(Append(x[1].path, node[x[2]].name), x[2])
    BY <1>1, <1>2 DEF RowsBelow
  <2>2. From(x[1], x[2])
    BY <2>1
  <2>3. QED  BY <2>2
<1>3. ASSUME NEW q \in Level[k - 1], NEW n \in nodes, From(q, n) PROVE r \in Level[k]
  <2>1. <<q, n>> \in {y \in Level[k - 1] \X nodes : node[y[2]].parent = y[1].of}
    BY <1>3
  <2>2. r = FileRow(Append(<<q, n>>[1].path, node[<<q, n>>[2]].name), <<q, n>>[2])
    BY <1>3
  <2>3. QED  BY <1>1, <2>1, <2>2 DEF RowsBelow
<1>4. QED  BY <1>2, <1>3

\* The first round finds 'root', which alone has no parent.
LEMMA TopIsRoot ==
    ASSUME TypeOK, TreeInv
    PROVE  /\ \A n \in nodes : node[n].parent = 0 <=> n = RootId
           /\ Level[0] = {FileRow(<<RootName>>, RootId)}
<1>1. \A n \in nodes : node[n].parent = 0 <=> n = RootId
    BY DEF TypeOK, TreeInv, Rooted, RootNode, Ids, RootId
<1>2. Level[0] = TopRows
    BY LevelDef, BoundAssumption
<1>3. node[RootId].name = RootName /\ RootId \in nodes
    BY DEF TreeInv, Rooted, RootNode
<1>4. TopRows = {FileRow(<<node[n].name>>, n) : n \in {RootId}}
    BY <1>1, <1>3 DEF TopRows
<1>5. QED  BY <1>1, <1>2, <1>3, <1>4

\* A row of round k has a path of k + 1 names, which ends in that of its node.
RowOfRound(k, r) ==
    /\ r = FileRow(r.path, r.of)
    /\ r.of \in nodes
    /\ r.path \in Seq(AllNames) /\ Len(r.path) = k + 1
    /\ r.path[k + 1] = node[r.of].name

LEMMA RowTypes ==
    ASSUME TypeOK, TreeInv
    PROVE  \A k \in 0..MaxNodes : \A r \in Level[k] : RowOfRound(k, r)
<1> DEFINE T == {k \in Nat : k <= MaxNodes => \A r \in Level[k] : RowOfRound(k, r)}
<1>1. 0 \in T
  <2>1. RowOfRound(0, FileRow(<<RootName>>, RootId))
    BY DEF RowOfRound, FileRow, TreeInv, Rooted, RootNode, AllNames
  <2>2. QED  BY <2>1, TopIsRoot
<1>2. ASSUME NEW i \in Nat, i \in T PROVE i + 1 \in T
  <2>1. SUFFICES ASSUME i + 1 <= MaxNodes, NEW r \in Level[i + 1]
                 PROVE  RowOfRound(i + 1, r)
    OBVIOUS
  <2>2. PICK q \in Level[i], n \in nodes :
            node[n].parent = q.of /\ r = FileRow(Append(q.path, node[n].name), n)
    BY <2>1, LevelRows, BoundAssumption
  <2>3. RowOfRound(i, q)
    BY <1>2, <2>1, BoundAssumption
  <2>4. node[n].name \in AllNames
    BY DEF TypeOK
  <2>5. r.of = n /\ r.path = Append(q.path, node[n].name)
    BY <2>2 DEF FileRow
  <2>6. QED  BY <2>2, <2>3, <2>4, <2>5 DEF RowOfRound
<1>3. Nat \subseteq T
  <2> HIDE DEF T
  <2> QED BY <1>1, <1>2, Induction
<1>4. QED  BY <1>3, BoundAssumption

\* A row is the root's, or stands below the row of its node's parent.
LEMMA RowAbove ==
    ASSUME TypeOK, TreeInv, NEW r \in FileTree
    PROVE  \/ r = FileRow(<<RootName>>, RootId) /\ node[r.of].parent = 0
           \/ /\ node[r.of].parent \in nodes /\ node[r.of].parent < r.of
              /\ \E q \in FileTree :
                    q.of = node[r.of].parent /\ r.path = Append(q.path, node[r.of].name)
<1>1. PICK k \in 0..MaxNodes : r \in Level[k]
    BY DEF FileTree
<1>2. CASE k = 0
    BY <1>1, <1>2, TopIsRoot DEF FileRow, TreeInv, Rooted
<1>3. CASE k # 0
  <2>1. k \in 1..MaxNodes /\ k - 1 \in 0..MaxNodes
    BY <1>3, BoundAssumption
  <2>2. PICK q \in Level[k - 1], n \in nodes :
            node[n].parent = q.of /\ r = FileRow(Append(q.path, node[n].name), n)
    BY <1>1, <2>1, LevelRows
  <2>3. q \in FileTree /\ q.of \in nodes
    BY <2>1, RowTypes DEF FileTree, RowOfRound
  <2>4. r.of = n /\ r.path = Append(q.path, node[n].name)
    BY <2>2 DEF FileRow
  <2>5. n # RootId
    BY <2>2, <2>3, TopIsRoot DEF TypeOK, Ids
  <2>6. node[n].parent < n
    BY <2>5 DEF TreeInv, Rooted
  <2>7. QED  BY <2>2, <2>3, <2>4, <2>6
<1>4. QED  BY <1>2, <1>3

\* Every node has a row: it is found after fewer rounds than its id.
LEMMA EveryNodeHasRow ==
    ASSUME TypeOK, TreeInv
    PROVE  \A n \in nodes : \E r \in FileTree : r.of = n
<1> DEFINE Found(n) == \E k \in 0..n - 1 : \E r \in Level[k] : r.of = n
           T == {m \in Nat : \A n \in nodes : n <= m => Found(n)}
<1>1. 0 \in T
    BY DEF TypeOK, Ids
<1>2. ASSUME NEW m \in Nat, m \in T PROVE m + 1 \in T
  <2>1. SUFFICES ASSUME NEW n \in nodes, n = m + 1 PROVE Found(n)
    <3>1. \A n \in nodes : n \in Int
      BY BoundAssumption DEF TypeOK, Ids
    <3>2. \A n \in nodes : n <= m => Found(n)
      BY <1>2
    <3> HIDE DEF Found
    <3>3. \A n \in nodes : n <= m + 1 => n <= m \/ n = m + 1
      BY <1>2, <3>1
    <3> QED BY <1>2, <3>2, <3>3
  <2>2. n \in 1..MaxNodes
    BY DEF TypeOK, Ids
  <2>3. CASE n = RootId
    <3>1. FileRow(<<RootName>>, RootId) \in Level[0]
      BY TopIsRoot
    <3>2. 0 \in 0..n - 1
      BY <2>2, BoundAssumption
    <3>3. QED  BY <2>3, <3>1, <3>2 DEF FileRow
  <2>4. CASE n # RootId
    <3>1. node[n].parent \in nodes /\ node[n].parent < n
      BY <2>4 DEF TreeInv, Rooted
    <3>2. node[n].parent \in Nat
      BY <3>1 DEF TypeOK, Ids
    <3>3. PICK k \in 0..node[n].parent - 1 : \E q \in Level[k] : q.of = node[n].parent
      BY <1>2, <2>1, <3>1, <3>2
    <3>4. PICK q \in Level[k] : q.of = node[n].parent
      BY <3>3
    <3>5. k + 1 \in 1..MaxNodes /\ k + 1 \in 0..n - 1 /\ (k + 1) - 1 = k
      BY <2>2, <3>1, <3>2, BoundAssumption
    <3>6. FileRow(Append(q.path, node[n].name), n) \in Level[k + 1]
      BY <3>4, <3>5, LevelRows
    <3>7. QED  BY <3>5, <3>6 DEF FileRow
  <2>5. QED  BY <2>3, <2>4
<1>3. Nat \subseteq T
  <2> HIDE DEF T
  <2> QED BY <1>1, <1>2, Induction
<1>4. ASSUME NEW n \in nodes PROVE \E r \in FileTree : r.of = n
  <2>1. n \in 1..MaxNodes
    BY DEF TypeOK, Ids
  <2>2. Found(n)
    BY <1>3, <2>1, BoundAssumption
  <2>3. PICK k \in 0..n - 1 : \E r \in Level[k] : r.of = n
    BY <2>2
  <2>4. k \in 0..MaxNodes
    BY <2>1, BoundAssumption
  <2>5. QED  BY <2>3, <2>4 DEF FileTree
<1>5. QED  BY <1>4

\* ... and one only: there is one way up.
LEMMA OneRowEach ==
    ASSUME TypeOK, TreeInv
    PROVE  \A r, q \in FileTree : r.of = q.of => r = q
<1> DEFINE T == {m \in Nat : \A r, q \in FileTree : r.of <= m /\ r.of = q.of => r = q}
<1>1. ASSUME NEW r \in FileTree PROVE r.of \in nodes /\ r.of \in 1..MaxNodes /\ r = FileRow(r.path, r.of)
  <2>1. PICK k \in 0..MaxNodes : r \in Level[k]
    BY DEF FileTree
  <2>2. RowOfRound(k, r)
    BY <2>1, RowTypes
  <2>3. QED  BY <2>2 DEF RowOfRound, TypeOK, Ids
<1>2. 0 \in T
    BY <1>1, BoundAssumption
<1>3. ASSUME NEW m \in Nat, m \in T PROVE m + 1 \in T
  <2>1. SUFFICES ASSUME NEW r \in FileTree, NEW q \in FileTree, r.of <= m + 1, r.of = q.of
                 PROVE  r = q
    OBVIOUS
  <2>2. CASE node[r.of].parent = 0
    <3>1. node[r.of].parent \notin nodes /\ node[q.of].parent \notin nodes
      BY <2>1, <2>2 DEF TypeOK, Ids
    <3>2. QED  BY <3>1, RowAbove
  <2>3. CASE node[r.of].parent # 0
    <3>1. PICK r1 \in FileTree :
             r1.of = node[r.of].parent /\ r.path = Append(r1.path, node[r.of].name)
      BY <2>3, RowAbove
    <3>2. PICK q1 \in FileTree :
             q1.of = node[q.of].parent /\ q.path = Append(q1.path, node[q.of].name)
      BY <2>1, <2>3, RowAbove
    <3>3. r1.of < r.of
      BY <2>3, <3>1, RowAbove
    <3>4. r1.of <= m
      BY <1>1, <2>1, <3>3, BoundAssumption
    <3>5. r1 = q1
      BY <1>3, <2>1, <3>1, <3>2, <3>4
    <3>6. r.path = q.path
      BY <2>1, <3>1, <3>2, <3>5
    <3>7. QED  BY <1>1, <2>1, <3>6
  <2>4. QED  BY <2>2, <2>3
<1>4. Nat \subseteq T
  <2> HIDE DEF T
  <2> QED BY <1>2, <1>3, Induction
<1>5. QED  BY <1>1, <1>4, BoundAssumption
\* What RowTypes says of a row, whatever its round.
LEMMA RowFacts ==
    ASSUME TypeOK, TreeInv, NEW r \in FileTree
    PROVE  /\ r = FileRow(r.path, r.of)
           /\ r.of \in nodes
           /\ r.path \in Seq(AllNames) /\ Len(r.path) > 0
           /\ r.path[Len(r.path)] = node[r.of].name
<1>1. PICK k \in 0..MaxNodes : r \in Level[k]
    BY DEF FileTree
<1>2. RowOfRound(k, r)
    BY <1>1, RowTypes
<1>3. k \in Nat
    BY BoundAssumption
<1>4. QED  BY <1>2, <1>3 DEF RowOfRound

\* A name is one node's, and the last of its path.
LEMMA PathsDiffer ==
    ASSUME TypeOK, TreeInv, NEW r \in FileTree, NEW q \in FileTree, r.path = q.path
    PROVE  r = q
<1>1. node[r.of].name = node[q.of].name /\ r.of \in nodes /\ q.of \in nodes
    BY RowFacts
<1>2. r.of = q.of
    BY <1>1 DEF TreeInv, UniqueNames
<1>3. QED  BY <1>2, RowFacts

\* What a row's path begins with is the path of another row, a directory's.
LEMMA Beginnings ==
    ASSUME TypeOK, TreeInv
    PROVE  \A r \in FileTree : \A j \in 1..Len(r.path) - 1 :
              \E q \in FileTree : q.path = SubSeq(r.path, 1, j) /\ node[q.of].kind = "DIR"
<1> DEFINE Begins(r) == \A j \in 1..Len(r.path) - 1 :
               \E q \in FileTree : q.path = SubSeq(r.path, 1, j) /\ node[q.of].kind = "DIR"
           T == {m \in Nat : \A r \in FileTree : r.of <= m => Begins(r)}
<1>1. ASSUME NEW r \in FileTree PROVE r.of \in 1..MaxNodes /\ r.of \in nodes
    BY RowFacts DEF TypeOK, Ids
<1>2. 0 \in T
    BY <1>1, BoundAssumption
<1>3. ASSUME NEW m \in Nat, m \in T PROVE m + 1 \in T
  <2>1. SUFFICES ASSUME NEW r \in FileTree, r.of <= m + 1, NEW j \in 1..Len(r.path) - 1
                 PROVE  \E q \in FileTree :
                            q.path = SubSeq(r.path, 1, j) /\ node[q.of].kind = "DIR"
    OBVIOUS
  <2>2. CASE node[r.of].parent = 0
    <3>1. node[r.of].parent \notin nodes
      BY <2>2 DEF TypeOK, Ids
    <3>2. r.path = <<RootName>>
      BY <3>1, RowAbove DEF FileRow
    <3>3. Len(r.path) = 1
      BY <3>2
    <3>4. QED  BY <2>1, <3>3
  <2>3. CASE node[r.of].parent # 0
    <3>1. PICK q \in FileTree :
             q.of = node[r.of].parent /\ r.path = Append(q.path, node[r.of].name)
      BY <2>3, RowAbove
    <3>2. q.of < r.of
      BY <2>3, <3>1, RowAbove
    <3>3. q.of <= m
      BY <1>1, <2>1, <3>2, BoundAssumption
    <3>4. q.path \in Seq(AllNames) /\ Len(r.path) = Len(q.path) + 1
      BY <3>1, RowFacts
    <3>5. node[q.of].kind = "DIR"
      <4>1. r.of # RootId /\ r.of \in nodes
        BY <1>1, <2>3, TopIsRoot
      <4>2. QED  BY <3>1, <4>1 DEF TreeInv, Rooted
    <3>6. CASE j = Len(q.path)
      <4>1. SubSeq(r.path, 1, j) = q.path
        BY <3>1, <3>4, <3>6
      <4>2. QED  BY <3>5, <4>1
    <3>7. CASE j # Len(q.path)
      <4>1. j \in 1..Len(q.path) - 1
        BY <3>4, <3>7, <2>1
      <4>2. SubSeq(r.path, 1, j) = SubSeq(q.path, 1, j)
        BY <3>1, <3>4, <4>1
      <4>3. Begins(q)
        BY <1>3, <3>3
      <4>4. QED  BY <4>1, <4>2, <4>3
    <3>8. QED  BY <3>6, <3>7
  <2>4. QED  BY <2>2, <2>3
<1>4. Nat \subseteq T
  <2> HIDE DEF T
  <2> QED BY <1>2, <1>3, Induction
<1>5. ASSUME NEW r \in FileTree PROVE Begins(r)
    BY <1>1, <1>4, BoundAssumption
<1>6. QED  BY <1>5

\* A listing is a sequence of all rows, finitely many.
LEMMA ListingRows ==
    ASSUME TypeOK, TreeInv, NEW l \in Listings
    PROVE  /\ Len(l) \in Nat /\ DOMAIN l = 1..Len(l)
           /\ \A i \in 1..Len(l) : l[i] \in FileTree
           /\ \A r \in FileTree : \E i \in 1..Len(l) : l[i] = r
           /\ Sorted(l)
<1>1. IsFiniteSet(FileTree)
  <2> DEFINE id == [r \in FileTree |-> r.of]
  <2>1. IsFiniteSet(1..MaxNodes)
    BY BoundAssumption, FS_Interval
  <2>2. id \in Injection(FileTree, 1..MaxNodes)
    BY RowFacts, OneRowEach DEF Injection, IsInjective, TypeOK, Ids
  <2>3. QED
    <3> HIDE DEF id
    <3> QED BY <2>1, <2>2, FS_Injection
<1>2. PICK N \in Nat : N = Cardinality(FileTree)
    BY <1>1, FS_CardinalityType
<1>3. l \in Bijection(1..N, FileTree) /\ Sorted(l)
    BY <1>2 DEF Listings
<1>4. l \in [1..N -> FileTree] /\ \A r \in FileTree : \E i \in 1..N : l[i] = r
    BY <1>3 DEF Bijection, Surjection
<1>5. l \in Seq(FileTree) /\ Len(l) = N
    BY <1>4
<1>6. QED  BY <1>3, <1>4, <1>5
-----------------------------------------------------------------------------
(* The JSON made of the rows, and the items made of it. *)

\* The JSON after i rows, for every i.
JsonOf(l, json) == json = [i \in 0..Len(l) |->
    IF i = 0 THEN <<>> ELSE AddFileToTree(json[i - 1], l[i])]

LEMMA JsonDef ==
    ASSUME NEW l, Len(l) \in Nat
    PROVE  \E json : JsonOf(l, json) /\ GenerateFileTree(l) = json[Len(l)]
<1> DEFINE Is(f, n) ==
               f = [i \in 0..n |-> IF i = 0 THEN <<>> ELSE AddFileToTree(f[i - 1], l[i])]
           T == {n \in Nat : \E f : Is(f, n)}
<1>1. 0 \in T
  <2>1. Is([i \in 0..0 |-> <<>>], 0)
    OBVIOUS
  <2>2. QED  BY <2>1
<1>2. ASSUME NEW n \in Nat, n \in T PROVE n + 1 \in T
  <2>1. PICK f : Is(f, n)
    BY <1>2
  <2>2. PICK g : g = [i \in 0..n + 1 |->
                         IF i = n + 1 THEN AddFileToTree(f[n], l[n + 1]) ELSE f[i]]
    OBVIOUS
  <2>3. \A i \in 0..n + 1 : g[i] = IF i = 0 THEN <<>> ELSE AddFileToTree(g[i - 1], l[i])
    BY <2>1, <2>2
  <2>4. g = [i \in 0..n + 1 |-> g[i]]
    BY <2>2
  <2>5. Is(g, n + 1)
    BY <2>3, <2>4
  <2>6. QED
    <3> HIDE DEF Is
    <3> QED BY <2>5
<1>3. Len(l) \in T
  <2> HIDE DEF T
  <2> QED BY <1>1, <1>2, Induction
<1>4. \E f : Is(f, Len(l))
    BY <1>3
<1>5. QED  BY <1>4 DEF GenerateFileTree, JsonOf

\* After all rows, there is an object for each row's path, of that row's data: what
\* a path begins with had its own row before.
LEMMA JsonIsRows ==
    ASSUME TypeOK, TreeInv, NEW l \in Listings
    PROVE  /\ DOMAIN GenerateFileTree(l) = {r.path : r \in FileTree}
           /\ \A r \in FileTree : GenerateFileTree(l)[r.path] = r.of
<1>1. /\ Len(l) \in Nat /\ DOMAIN l = 1..Len(l)
      /\ \A i \in 1..Len(l) : l[i] \in FileTree
      /\ \A r \in FileTree : \E i \in 1..Len(l) : l[i] = r
      /\ Sorted(l)
    BY ListingRows
<1>2. PICK json : JsonOf(l, json) /\ GenerateFileTree(l) = json[Len(l)]
    BY <1>1, JsonDef
<1> DEFINE HasRows(i) == /\ DOMAIN json[i] = {l[j].path : j \in 1..i}
                         /\ \A j \in 1..i : json[i][l[j].path] = l[j].of
           T == {i \in Nat : i <= Len(l) => HasRows(i)}
<1>3. 0 \in T
  <2>1. json[0] = <<>>
    BY <1>1, <1>2 DEF JsonOf
  <2>2. HasRows(0)
    BY <2>1
  <2>3. QED  BY <2>2
<1>4. ASSUME NEW i \in Nat, i \in T PROVE i + 1 \in T
  <2>1. SUFFICES ASSUME i + 1 <= Len(l) PROVE HasRows(i + 1)
    OBVIOUS
  <2>2. HasRows(i)
    BY <1>1, <1>4, <2>1
  <2>3. i + 1 \in 1..Len(l) /\ i + 1 \in 0..Len(l)
    BY <1>1, <2>1
  <2>4. PICK r \in FileTree : r = l[i + 1]
    BY <1>1, <2>3
  <2>5. json[i + 1] = AddFileToTree(json[i], r)
    BY <1>2, <2>3, <2>4 DEF JsonOf
  <2>6. r.path \in Seq(AllNames) /\ Len(r.path) > 0
    BY RowFacts
  <2>7. SubSeq(r.path, 1, Len(r.path)) = r.path
    BY <2>6
  <2>8. ASSUME NEW k \in 1..Len(r.path) - 1 PROVE SubSeq(r.path, 1, k) \in DOMAIN json[i]
    <3>1. PICK q \in FileTree : q.path = SubSeq(r.path, 1, k)
      BY Beginnings
    <3>2. PICK j \in 1..Len(l) : l[j] = q
      BY <1>1
    <3>3. StartsWith(r.path, q.path)
      BY <2>6, <3>1 DEF StartsWith
    <3>4. j < i + 1
      BY <1>1, <2>3, <2>4, <3>2, <3>3 DEF Sorted
    <3>5. QED  BY <1>1, <2>2, <3>1, <3>2, <3>4
  <2>9. DOMAIN json[i] \cup {SubSeq(r.path, 1, k) : k \in 1..Len(r.path)}
           = DOMAIN json[i] \cup {r.path}
    <3>1. Len(r.path) \in 1..Len(r.path)
      BY <2>6
    <3>2. \A k \in 1..Len(r.path) : k = Len(r.path) \/ k \in 1..Len(r.path) - 1
      BY <2>6
    <3>3. \A k \in 1..Len(r.path) : SubSeq(r.path, 1, k) \in DOMAIN json[i] \cup {r.path}
      BY <2>7, <2>8, <3>2
    <3>4. r.path \in {SubSeq(r.path, 1, k) : k \in 1..Len(r.path)}
      BY <2>7, <3>1
    <3>5. QED  BY <3>3, <3>4
  <2>10. json[i + 1] = [path \in DOMAIN json[i] \cup {r.path} |->
             IF path \in DOMAIN json[i] THEN json[i][path] ELSE r.of]
    BY <2>5, <2>9 DEF AddFileToTree
  <2>11. DOMAIN json[i + 1] = {l[j].path : j \in 1..i + 1}
    BY <2>2, <2>4, <2>10
  <2>12. \A j \in 1..i : json[i + 1][l[j].path] = l[j].of
    BY <2>2, <2>10
  <2>13. json[i + 1][r.path] = r.of
    <3>1. CASE r.path \in DOMAIN json[i]
      <4>1. PICK j \in 1..i : l[j].path = r.path
        BY <2>2, <3>1
      <4>2. l[j] = r
        BY <1>1, <2>1, <4>1, PathsDiffer
      <4>3. QED  BY <2>12, <4>1, <4>2
    <3>2. CASE r.path \notin DOMAIN json[i]
      BY <2>10, <3>2
    <3>3. QED  BY <3>1, <3>2
  <2>14. QED  BY <2>4, <2>11, <2>12, <2>13
<1>5. Nat \subseteq T
  <2> HIDE DEF T
  <2> QED BY <1>3, <1>4, Induction
<1>6. HasRows(Len(l))
    BY <1>1, <1>5
<1>7. QED  BY <1>1, <1>2, <1>6

\* The tree view has an item for each row: all that is above one is a directory.
LEMMA ItemsAreRows ==
    ASSUME TypeOK, TreeInv, NEW l \in Listings
    PROVE  TreeItems(GenerateFileTree(l)) = FileTree
<1>1. PICK json : json = GenerateFileTree(l)
    OBVIOUS
<1>2. DOMAIN json = {r.path : r \in FileTree} /\ \A r \in FileTree : json[r.path] = r.of
    BY <1>1, JsonIsRows
<1>3. ASSUME NEW r \in FileTree PROVE r.path \in PopulateTree(json)
  <2>1. ASSUME NEW k \in 1..Len(r.path) - 1 PROVE node[json[SubSeq(r.path, 1, k)]].kind = "DIR"
    <3>1. PICK q \in FileTree : q.path = SubSeq(r.path, 1, k) /\ node[q.of].kind = "DIR"
      BY Beginnings
    <3>2. QED  BY <1>2, <3>1
  <2>2. QED  BY <1>2, <2>1 DEF PopulateTree
<1>4. PopulateTree(json) = {r.path : r \in FileTree}
    BY <1>2, <1>3 DEF PopulateTree
<1>5. TreeItems(json) = {FileRow(r.path, r.of) : r \in FileTree}
    BY <1>2, <1>4 DEF TreeItems
<1>6. QED  BY <1>1, <1>5, RowFacts

\* The tree view shows the tree.
LEMMA ListIsTree ==
    ASSUME TypeOK, TreeInv
    PROVE  FileListIsTheTree
<1> SUFFICES ASSUME NEW l \in Listings
             PROVE  LET items == TreeItems(GenerateFileTree(l))
                    IN  /\ {x.of : x \in items} = nodes
                        /\ \A x, y \in items : x.of = y.of => x = y
                        /\ \A x \in items :
                              LET n == node[x.of]
                              IN  IF n.parent = 0 THEN x.path = <<n.name>>
                                  ELSE \E y \in items :
                                          y.of = n.parent /\ x.path = Append(y.path, n.name)
    BY DEF FileListIsTheTree
<1>1. TreeItems(GenerateFileTree(l)) = FileTree
    BY ItemsAreRows
<1>2. {x.of : x \in FileTree} = nodes
    BY EveryNodeHasRow, RowFacts
<1>3. \A x, y \in FileTree : x.of = y.of => x = y
    BY OneRowEach
<1>4. ASSUME NEW x \in FileTree
      PROVE  IF node[x.of].parent = 0 THEN x.path = <<node[x.of].name>>
             ELSE \E y \in FileTree :
                     y.of = node[x.of].parent /\ x.path = Append(y.path, node[x.of].name)
  <2>1. CASE node[x.of].parent = 0
    <3>1. x = FileRow(<<RootName>>, RootId)
      BY <2>1, RowAbove DEF TypeOK, Ids
    <3>2. x.of = RootId /\ x.path = <<RootName>>
      BY <3>1 DEF FileRow
    <3>3. node[RootId].name = RootName
      BY DEF TreeInv, RootNode
    <3>4. QED  BY <2>1, <3>2, <3>3
  <2>2. CASE node[x.of].parent # 0
    BY <2>2, RowAbove
  <2>3. QED  BY <2>1, <2>2
<1>5. QED  BY <1>1, <1>2, <1>3, <1>4

\* GetFileList, from the query to the tree view: what the window shows is the tree
\* of the nodes, for any number of them, however deep, and any order of siblings.
THEOREM ViewIsTree == Spec => []FileListIsTheTree
<1>1. IInv => FileListIsTheTree
    BY ListIsTree DEF IInv, StoreInv
<1>2. QED  BY <1>1, Invariance, PTL
=============================================================================
