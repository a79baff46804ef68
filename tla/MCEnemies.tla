------------------------------ MODULE MCEnemies ------------------------------
(***************************************************************************)
(* Enemies that hunt (Enemies), and platforms and push blocks with a jack  *)
(* that walks and jumps on and around them (Platforms), in one run.  A     *)
(* behavior belongs to one of the two; the variables of the other keep     *)
(* their first values.  Lengths are scaled: speeds stay below the size of  *)
(* a tile, as in the code.                                                 *)
(***************************************************************************)
EXTENDS Integers, Sequences, FiniteSets

VARIABLES
  part,              \* "hunters" or "platforms"
  map,               \* the map of both
  home, e, seen,     \* of Enemies
  turn, start, es, js

CONSTANT j1

Grid(tile, rows) ==
  [tile |-> tile, w |-> Len(rows[1]), h |-> Len(rows),
   at |-> [p \in (0..(Len(rows[1]) - 1)) \X (0..(Len(rows) - 1)) |-> rows[p[2] + 1][p[1] + 1]]]
o == -1
x == 0

\* A floor with a step and a gap.
Cave == Grid(6, << <<o,o,o,o,o>>, <<o,o,o,x,o>>, <<x,x,o,x,x>> >>)
Kinds == {"walker", "smart", "cannon", "ghost", "slug", "snail", "meatball", "anvil"}
Views == [k \in Kinds |-> IF k = "anvil" THEN [x |-> 6, y |-> 20] ELSE [x |-> 15, y |-> 6]]
Hunts == {[map |-> Cave, enemy |-> [kind |-> k, x |-> 2, y |-> 0, w |-> 4, h |-> 4]] : k \in Kinds}
Places == {[x |-> 9, y |-> 2], [x |-> 24, y |-> 0]}

Block(k, px, py, bw, bh, level) ==
  [kind |-> k, x |-> px, y |-> py, w |-> bw, h |-> bh, dx |-> 0, dy |-> 0, home |-> 0, dir |-> 1,
   level |-> level, active |-> TRUE, destroy |-> FALSE]
Scene(rows, s, blocks) == [map |-> Grid(4, rows), start |-> s, enemies |-> blocks]
\* A platform between two floors, a lift beside a floor, a push block on a step.
Levels ==
  { Scene(<< <<o,o,o,o,o>>, <<x,o,o,o,x>>, <<x,o,o,o,x>> >>, [x |-> 0, y |-> 0],
          <<Block("h", 4, 4, 3, 4, 1)>>),
    Scene(<< <<o,o>>, <<o,o>>, <<o,o>>, <<x,o>>, <<x,o>> >>, [x |-> 0, y |-> 4], <<Block("v", 4, 8, 3, 4, 1)>>),
    Scene(<< <<o,o>>, <<x,o>>, <<o,o>> >>, [x |-> 5, y |-> 8], <<Block("push", 3, 0, 4, 4, 0)>>) }

P == INSTANCE Platforms WITH
  Jack <- {j1}, Bump <- 2000, Scenes <- Levels,
  JackW <- 2, JackH <- 3, FrameDelay <- 1,
  MaxJump <- 2000, IncJump <- 1000, DecJump <- 1000,
  MaxWalk <- 1000, IncWalk <- 1000, IncWalkJump <- 1000, DecWalk <- 1000

H == INSTANCE Enemies WITH
  Player <- {0}, Spot <- Places, Scenes <- Hunts, Vision <- Views,
  WeaponDelay <- 2, BreedDelay <- 4, Speeds <- {2000, 3000}, SlugSpeed <- 2000, FallSpeed <- 4000,
  FarX <- 6, FarY <- 3, Close <- 2, MaxEnergy <- 3,
  JackW <- 2, JackH <- 3, FrameDelay <- 1,
  MaxJump <- 4000, IncJump <- 500, DecJump <- 1000,
  MaxWalk <- 3000, IncWalk <- 1500, IncWalkJump <- 1000, DecWalk <- 1000

hunterVars == <<home, e, seen>>
platformVars == <<turn, start, es, js>>
vars == <<part, map, hunterVars, platformVars>>

EnemiesInit ==
  \/ part = "hunters" /\ H!Init
     /\ turn = 0 /\ start = [x |-> 0, y |-> 0] /\ es = <<>> /\ js = <<>>
  \/ part = "platforms" /\ P!Init
     /\ home = <<>> /\ e = <<>> /\ seen = <<>>

Hunters == part = "hunters" /\ H!Next /\ UNCHANGED <<part, platformVars>>
Blocks == part = "platforms" /\ P!Next /\ UNCHANGED <<part, hunterVars>>
EnemiesNext == Hunters \/ Blocks
EnemiesSpec == EnemiesInit /\ [][EnemiesNext]_vars

\* Enemies.EnemiesStayInMap: no enemy gets into a wall, however it turns,
\* falls, jumps and bounces; a ghost may.
HuntersStayInMap == part = "hunters" => H!EnemiesStayInMap

\* Platforms.NobodySmashed and PlatformsStayNear: no jack that was not hit is in
\* a wall or in a block, however platforms push it and wherever it rides, and a
\* platform stays as near to its place as its level says.
BlocksKeepTheirPlace == part = "platforms" => P!NobodySmashed /\ P!PlatformsStayNear

\* Enemies.WalkersStayUp and Platforms.RidersStay: a walker never walks off the
\* floor it stands on, and who stands on a platform stays on it when it moves.
NobodyLosesFooting ==
  [][IF part = "hunters" THEN H!WalkersKeep ELSE P!RidersKeep]_vars
==============================================================================
