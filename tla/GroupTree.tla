----------------------------- MODULE GroupTree -----------------------------
(***************************************************************************)
(* The tree of device groups.  A row holds its parent and, for the queries *)
(* on subtrees, its materialised path "/1/4/": here the sequence of ids.   *)
(* The slash that ends a path makes a prefix of the text a prefix of the   *)
(* sequence.  The depth is the length of the path and is left out.         *)
(***************************************************************************)
EXTENDS Naturals, Sequences, SequencesExt

CONSTANTS Group, None

ASSUME GroupAssumption == None \notin Group

\* _build_group_path
PathUnder(tree, g, p) == IF p = None THEN <<g>> ELSE Append(tree[p].path, g)

Row(tree, g, p) == [parent |-> p, path |-> PathUnder(tree, g, p)]

Below(tree, path) == {h \in DOMAIN tree : IsPrefix(path, tree[h].path)}

\* expand_group_ids: every group whose path starts with the path of one of gs
Expand(tree, gs) == UNION {Below(tree, tree[g].path) : g \in gs \cap DOMAIN tree}

Children(tree, g) == {h \in DOMAIN tree : tree[h].parent = g}

\* Mutant: the check that the new parent is no descendant is missing.
MayMoveAnywhere(tree, g, p) == p = None \/ p \in DOMAIN tree \ {g}

\* update_group: not under itself, not under what it believes its descendants
MayMove(tree, g, p) ==
    \/ p = None
    \/ p \in DOMAIN tree \ {g} /\ ~IsPrefix(tree[g].path, tree[p].path)

\* update_group: the new paths of the rows below the old one
Rebased(tree, g, old, new) ==
    [h \in Below(tree, old) \ {g} |->
        new \o SubSeq(tree[h].path, Len(old) + 1, Len(tree[h].path))]

\* update_group, last writes: the moved row, and the paths read before them
Moved(tree, g, row, paths) ==
    [h \in DOMAIN tree |->
        IF h = g THEN row
        ELSE IF h \in DOMAIN paths THEN [tree[h] EXCEPT !.path = paths[h]] ELSE tree[h]]
=============================================================================
