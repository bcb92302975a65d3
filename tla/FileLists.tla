------------------------------ MODULE FileLists ------------------------------
(***************************************************************************)
(* The list of files: the rows the query returns, the JSON JsonHandler     *)
(* makes of them, and the items the client's tree view shows.              *)
(* A path is the sequence of the names on it.  The JSON is a function from *)
(* the paths that have an object: an array never holds two objects of one  *)
(* name, since AddFileToTree takes out the one it finds.  The order of     *)
(* siblings is left out.                                                   *)
(***************************************************************************)
EXTENDS PermissionStore, Functions, FiniteSets

-----------------------------------------------------------------------------
(* GetFileTreeWithPermissions *)

\* A row's type, owner, group and permissions go through the JSON together:
\* they stand here as the id of the node they are read from.
FileRow(path, n) == [path |-> path, of |-> n]

\* Nodes without a parent.
TopRows == {FileRow(<<node[n].name>>, n) : n \in {m \in nodes : node[m].parent = 0}}

\* n.parent_id = ft.file_id
RowsBelow(rows) ==
    {FileRow(Append(x[1].path, node[x[2]].name), x[2]) :
        x \in {y \in rows \X nodes : node[y[2]].parent = y[1].of}}

\* WITH RECURSIVE file_tree, round by round: a round takes the rows of the one
\* before it, and no path has more nodes than were ever made.
Level[k \in 0..MaxNodes] == IF k = 0 THEN TopRows ELSE RowsBelow(Level[k - 1])
FileTree == UNION {Level[k] : k \in 0..MaxNodes}

StartsWith(path, start) ==
    Len(start) < Len(path) /\ \A i \in 1..Len(start) : path[i] = start[i]

\* Mutant: ORDER BY ft.path DESC.
SortedDown(l) == \A i, j \in DOMAIN l : StartsWith(l[i].path, l[j].path) => i < j

\* ORDER BY ft.path: a path comes after all it begins with; how two others
\* compare depends on the collation, so that every such order is looked at.
Sorted(l) == \A i, j \in DOMAIN l : StartsWith(l[j].path, l[i].path) => i < j

Listings == LET rows == FileTree
            IN  {l \in Bijection(1..Cardinality(rows), rows) : Sorted(l)}

-----------------------------------------------------------------------------
(* JsonHandler *)

\* An object that is missing on the path is made of the FILE's data; one that is
\* there stays as it is.
AddFileToTree(json, file) ==
    [path \in DOMAIN json \cup {SubSeq(file.path, 1, k) : k \in 1..Len(file.path)} |->
        IF path \in DOMAIN json THEN json[path] ELSE file.of]

\* Row after row.
GenerateFileTree(rows) ==
    LET json[i \in 0..Len(rows)] ==
            IF i = 0 THEN <<>> ELSE AddFileToTree(json[i - 1], rows[i])
    IN  json[Len(rows)]

-----------------------------------------------------------------------------
(* JsonTreeHandler: a directory's item gets those of its files below it, a   *)
(* file's item none.  An item is where it hangs and what its columns say.    *)
PopulateTree(json) ==
    {path \in DOMAIN json : \A k \in 1..(Len(path) - 1) :
        node[json[SubSeq(path, 1, k)]].kind = "DIR"}

TreeItems(json) == {FileRow(path, json[path]) : path \in PopulateTree(json)}

-----------------------------------------------------------------------------
\* What the window shows after GetFileList is the tree: every node hangs once,
\* by its name, below its directory's item, with its own type, owner, group and
\* rights - whatever order the collation puts siblings in, whoever made and
\* deleted the directories.  (A node made for a path before its own row would
\* keep the data of the file below it.)
FileListIsTheTree == \A l \in Listings :
    LET items == TreeItems(GenerateFileTree(l))
    IN  /\ {x.of : x \in items} = nodes
        /\ \A x, y \in items : x.of = y.of => x = y
        /\ \A x \in items :
              LET n == node[x.of]
              IN  IF n.parent = 0 THEN x.path = <<n.name>>
                  ELSE \E y \in items : y.of = n.parent /\ x.path = Append(y.path, n.name)
=============================================================================
