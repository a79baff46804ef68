----------------------------- MODULE MCNpcLife -----------------------------
(* NpcLife with a few clients, two maps and few slots. *)
EXTENDS NpcLife, TLC

CONSTANTS c1, c2, castle, cave

OneClient == {c1}
TwoClients == {c1, c2}
TwoMaps == {castle, cave}
\* The item of the castle is a teleporter, the one of the cave is not.
InTheCastle == {<<castle, 0>>}
FewSlots == [weapon |-> 1, enemy |-> 2, item |-> 2]
TwoEnemies == [weapon |-> 1, enemy |-> 2, item |-> 1]
\* The maps have respawn times of -1 s, and of 10 s (300 frames) or more.
RespawnTimes == {-30, 2}
AnyClient == Permutations(Client)
=============================================================================
