-------------------------- MODULE MCAdministration --------------------------
(* An instance of Administration for TLC. *)
EXTENDS Administration, TLC

CONSTANTS g1, g2, g3, d1, d2, c1, c2, x1, readonly, auditor, s1, s2

TheForms == {[group |-> g3, credential |-> c1], [group |-> g2, credential |-> c2]}
TheTargets == {{g1}, {d1}, {All, d1}}

GroupRow(p, path) == [parent |-> p, path |-> path]
TheSelections == {{d1, d2}}

File(ds, g, mode) == [devices |-> ds, group |-> g, credential |-> c1, mode |-> mode]
TheFiles == {File({d1, d2}, g3, "insert"), File({d2}, g2, "upsert"), File({d1, d2}, None, "upsert")}

\* A small site: g2 under g1, one device in g2, a schedule for the group.
Site == [tree        |-> (g1 :> GroupRow(None, <<g1>>)) @@ (g2 :> GroupRow(g1, <<g1, g2>>)),
         devices     |-> d1 :> [group |-> g2, credential |-> c1],
         credentials |-> {c1},
         schedules   |-> x1 :> [on |-> TRUE, targets |-> {g1}],
         channels    |-> {"mail", "robot"},
         templates   |-> {"plain"},
         policies    |-> "failures" :> [channels |-> {"mail", "robot"}, template |-> NoTemplate],
         roles       |-> (1 :> readonly) @@ (2 :> auditor),
         users       |-> "u1" :> auditor]

\* Two devices named one by one, and two groups side by side.
Pair == [Site EXCEPT !.tree = (g1 :> GroupRow(None, <<g1>>)) @@ (g2 :> GroupRow(None, <<g2>>)),
                     !.devices = [d \in {d1, d2} |-> [group |-> None, credential |-> c1]],
                     !.schedules = x1 :> [on |-> TRUE, targets |-> {d1, d2}]]

\* Up to three requests, of the inventory and the backups or of another part:
\* the parts share no rows, only the sessions.
Load(i, j, k, l) == [inventory |-> i, backups |-> j, identity |-> k, routing |-> l]
TheLoads == {Load(3, 0, 0, 0), Load(1, 2, 0, 0),
             Load(0, 0, 3, 0), Load(0, 0, 0, 3)}

\* A user with a subtree, and one with a group and the devices of none.
TheAccess == {{g1}, {g2, Ungrouped}}

TheStart == {Site, Pair}
Sessions == Permutations(Session)
=============================================================================
