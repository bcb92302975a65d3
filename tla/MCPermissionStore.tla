-------------------------- MODULE MCPermissionStore --------------------------
(* Instances of PermissionStore for TLC. *)
EXTENDS FileLists, StoreService, TLC

CONSTANTS u1, u2, u1_group, u2_group, a, b, root

MCOwnGroup == (u1 :> u1_group) @@ (u2 :> u2_group)

\* "root/a" is the name a in <<root>>, "root/a/b" the name b in <<root, a>>.
MCPaths == {<<root>>, <<root, a>>}
MCRootPath == {<<root>>}

\* As the string of the dialog: only the letters of set stay.
Mode(set) == [i \in 0..8 |-> IF i \in set THEN Letter(i) ELSE "-"]
MCMode == {Mode({0, 1, 3, 8})}             \* rw-r----x
MCModes == MCMode \cup {Mode({0, 4, 6, 7})}  \* r---w-rw-

Symmetry == Permutations(Threads)

\* And of two users, each with his group, who are both root or both not.
SwapUsers == (u1 :> u2) @@ (u2 :> u1) @@ (u1_group :> u2_group) @@ (u2_group :> u1_group)
UserSymmetry == Symmetry \cup {SwapUsers}
==============================================================================
