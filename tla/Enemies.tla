------------------------------ MODULE Enemies -------------------------------
(***************************************************************************)
(* How enemies look for players, move and shoot: walker, smart, cannon,    *)
(* ghost, slug, snail, meatball and anvil (npcs/ *.c), one enemy in a map  *)
(* of tiles (Movement).                                                    *)
(*                                                                         *)
(* A step is the move of the enemy in one frame and what the players do    *)
(* before the next: they appear, move, hide and leave in any way.  What    *)
(* an enemy does to the energy of jacks is in Vitals, the life of its slot *)
(* and the item it leaves in NpcLife.                                      *)
(***************************************************************************)
EXTENDS JackMotion

CONSTANTS
  Player,       \* ids of jacks
  Spot,         \* places where players may be
  Scenes,       \* a map, and an enemy: its kind and its place
  Vision,       \* X_VISION and Y_VISION of each kind, in pixels
  WeaponDelay,  \* WEAPON_DELAY, 10
  BreedDelay,   \* BREED_DELAY, 400
  Speeds,       \* the speeds get_speed may return
  SlugSpeed,    \* 2000
  FallSpeed,    \* of an anvil, 20000
  FarX, FarY,   \* how far a smart enemy may be from its target, 64 and 32
  Close,        \* how far a ghost may be from its target, 5
  MaxEnergy     \* energy of an enemy, 100

VARIABLES
  map,      \* server->map
  home,     \* where the enemy is created
  e,        \* the enemy
  seen      \* where each player of the game is, and whether it shows (jack.invisible < 0)

vars == <<map, home, e, seen>>

None == -1
Gone == [x |-> -1, y |-> -1, shown |-> FALSE]   \* not in the game

\* create_enemy; the enemies that shoot start with no delay.
NewEnemy(h) ==
  [x |-> h.x, y |-> h.y, dx |-> 0, dy |-> 0, ax |-> 0, state |-> Stand, dir |-> 1,
   target |-> None, delay |-> 0, shoots |-> FALSE, energy |-> MaxEnergy, destroy |-> FALSE,
   sight |-> [x |-> 0, y |-> 0]]

EnemyMoves(f, dx, dy) == CalcMovement(map, <<>>, f.x, f.y, home.w, home.h, dx, dy)
Sign(n) == IF n > 0 THEN 1 ELSE -1
-----------------------------------------------------------------------------
(* What the enemies have in common. *)

\* is_in_field.
InField(p, f, v) == Abs(p.x - f.x) <= v.x /\ Abs(p.y - f.y) <= v.y
Plays(id) == id \in Player /\ seen[id] # Gone
Sees(f, id, v) == Plays(id) /\ seen[id].shown /\ InField(seen[id], f, v)

\* search_target: the first player of the list; any may be the first.
Found(f, v) ==
  LET t == {id \in Player : Sees(f, id, v)} IN IF t = {} THEN {None} ELSE t
\* verify_target.
Kept(f, v) == IF Sees(f, f.target, v) THEN f.target ELSE None

\* enemy_shoot.
Shoot(f) ==
  IF f.delay <= 0 THEN [f EXCEPT !.shoots = TRUE, !.delay = WeaponDelay]
                  ELSE [f EXCEPT !.delay = @ - 1]

\* The floor under an enemy that stands or walks is looked at, one that does
\* not falls.
Grounded(f) ==
  IF f.state \notin Ground THEN [f EXCEPT !.dy = @ + DecJump]
  ELSE IF EnemyMoves(f, 0, 1).y > 0 THEN [f EXCEPT !.state = JumpEnd] ELSE f

\* Where its speed takes it: what the map leaves of it.
Way(f) == EnemyMoves(f, Quot(f.dx, 1000), Quot(f.dy, 1000))
Shifted(f, v) == [f EXCEPT !.x = @ + v.x, !.y = @ + v.y]

\* It lands or hits its head, and turns round at a wall if it walks.
Lands(f, v) ==
  IF ~v.yClipped THEN f
  ELSE IF f.dy > 0 THEN [f EXCEPT !.state = Stand, !.dy = 0] ELSE [f EXCEPT !.dy = -@]
Turns(f, v) == IF v.xClipped /\ f.state = Walk THEN [f EXCEPT !.dx = -@] ELSE f
NextState(f) ==
  CASE f.state = JumpStart /\ f.dy > 0 -> [f EXCEPT !.state = JumpEnd]
    [] f.state = Walk -> [f EXCEPT !.dir = Sign(f.dx)]
    [] OTHER -> f

\* Mutant of DisplacedBy: It moves by its speed, not by what the map leaves of it.
Unclipped(f, v) == NextState(Shifted(Turns(Lands(f, v), v), [x |-> Quot(f.dx, 1000), y |-> v.y]))

DisplacedBy(f, v) == NextState(Shifted(Turns(Lands(f, v), v), v))
Displaced(f) == DisplacedBy(f, Way(f))

\* enemy_move_continue of walker.c and cannon.c, do_movement of slug.c and snail.c.
Continue(f) == Displaced([Grounded(f) EXCEPT !.dx = Slowed(@, 1000)])

\* It looks at its target, wherever that is, and in this frame even if it hides.
Faces(f) ==
  IF Plays(f.target)
  THEN [f EXCEPT !.dir = IF seen[f.target].x >= f.x THEN 1 ELSE -1] ELSE f

\* What it has in sight becomes its target, or what is out of sight no longer is.
Looks(f, v) == {[f EXCEPT !.target = t] : t \in Found(f, v)}
Verified(f, v) == [f EXCEPT !.target = Kept(f, v)]
-----------------------------------------------------------------------------
(* The move_enemy of each kind: the states it may lead to. *)

EnemyWalk == (9 * MaxWalk) \div 10
Strides(f) == [f EXCEPT !.state = Walk, !.dx = f.dir * EnemyWalk]
Back(f) == [f EXCEPT !.dx = -@, !.dir = -@]

\* Mutant of WalksOn: It looks for a floor where it is, not where it will be.
WalksOff(f) == IF EnemyMoves(f, 0, 1).y > 0 THEN Back(Strides(f)) ELSE Strides(f)

\* walker.c: it stands and shoots, or walks and turns at the end of the floor.
WalksOn(f) ==
  IF EnemyMoves([f EXCEPT !.x = @ + Quot(f.dir * EnemyWalk, 1000)], 0, 1).y > 0
  THEN Back(Strides(f)) ELSE Strides(f)
WalkerGoes(f, v) ==
  IF f.state \notin Ground THEN {f}
  ELSE IF f.target # None THEN {Verified(Shoot(Faces([f EXCEPT !.state = Stand, !.dx = 0])), v)}
  ELSE Looks(WalksOn(f), v)
Walker(f, v) == WalkerGoes(Continue(f), v)

\* cannon.c.
CannonGoes(f, v) == IF f.target # None THEN {Verified(Shoot(Faces(f)), v)} ELSE Looks(f, v)
Cannon(f, v) == CannonGoes(Continue(f), v)

\* smart.c: it runs and jumps after its target.
Limited(f) ==
  [f EXCEPT !.dx = Greatest(Least(Slowed(@ + f.ax, DecWalk), MaxWalk), -MaxWalk),
            !.dy = Greatest(Least(@, MaxJump), -MaxJump)]
Halts(f) == IF f.state = Walk /\ f.dx = 0 THEN [f EXCEPT !.state = Stand] ELSE f
SmartMoves(f) == Displaced(Halts(Limited(Grounded(f))))

Runs(f, p, way) ==
  [f EXCEPT !.state = IF @ = Stand THEN Walk ELSE @, !.ax = way * IncWalk,
            !.dir = IF way # 0 THEN way ELSE IF p.x >= f.x THEN 1 ELSE -1]
Leaps(f, p) ==
  IF f.state = Walk /\ p.y <= f.y - FarY THEN [f EXCEPT !.state = JumpStart, !.dy = -StartJump] ELSE f
Rises(f, p) ==
  IF f.state # JumpStart THEN f
  ELSE IF p.y <= f.y + FarY THEN [f EXCEPT !.dy = @ - IncJump] ELSE [f EXCEPT !.state = JumpEnd]
WayTo(f, p) == IF p.x >= f.x + FarX THEN 1 ELSE IF p.x <= f.x - FarX THEN -1 ELSE 0
Chases(f, p) == Rises(Leaps(Runs(f, p, WayTo(f, p)), p), p)
Pursues(f) == IF Plays(f.target) THEN Chases(f, seen[f.target]) ELSE f
Rests(f) == IF f.target = None THEN [f EXCEPT !.ax = 0] ELSE f
SmartGoes(f, v) ==
  IF f.target = None THEN Looks(f, v)
  ELSE {Rests(Verified(Shoot(Pursues(f)), v))}
Smart(f, v) == SmartGoes(SmartMoves(f), v)

\* Those that feed on jacks they touch, invisible ones too (suck_energy,
\* drain_energy).
Touches(f) ==
  \E id \in Player : /\ Plays(id)
                     /\ Meet(Rect(f.x, f.y, home.w, home.h), Rect(seen[id].x, seen[id].y, JackW, JackH))
Fed(f) == IF Touches(f) THEN {f, [f EXCEPT !.energy = Least(@ + 9, MaxEnergy)]} ELSE {f}

\* slug.c and snail.c: they follow a target for ever, in sight or not; a slug
\* loses energy all the time.
Starves(f) ==
  IF f.delay > 0 THEN [f EXCEPT !.delay = @ - 1]
  ELSE [f EXCEPT !.delay = 2, !.energy = @ - 1, !.destroy = @ \/ f.energy <= 1]
Follows(f, v) ==
  IF ~Sees(f, f.target, v) THEN f
  ELSE IF f.x < seen[f.target].x THEN [f EXCEPT !.dir = 1]
  ELSE IF f.x + home.w > seen[f.target].x + JackW THEN [f EXCEPT !.dir = -1] ELSE f
Creeps(f) == IF f.state \in Ground THEN [f EXCEPT !.state = Walk, !.dx = f.dir * SlugSpeed] ELSE f
CrawlGoes(f, v) == {Creeps(Follows(g, v)) : g \in IF f.target = None THEN Looks(f, v) ELSE {f}}
Crawl(f, v) == CrawlGoes(Continue(f), v)
Snail(f, v) == UNION {Crawl(g, v) : g \in Fed(f)}
Slug(f, v) == UNION {Crawl(g, v) : g \in Fed(Starves(f))}

\* ghost.c: it flies through walls.  The field of vision is a static
\* variable: a search uses that of the frame before.
SpeedTo(far) == IF Abs(far) < Close THEN 0 ELSE Sign(far) * ((2 * MaxWalk) \div 3)
Heads(f, dx, dy) == [f EXCEPT !.dx = dx, !.dy = dy, !.dir = IF dx = 0 THEN @ ELSE Sign(dx)]
Drifts(f) == [f EXCEPT !.x = @ + Quot(f.dx, 1000), !.y = @ + Quot(f.dy, 1000)]
Flies(f) ==
  IF f.target = None THEN Heads(f, 0, 0)
  ELSE Heads(f, SpeedTo(seen[f.target].x + JackW \div 2 - (f.x + home.w \div 2)),
                SpeedTo(seen[f.target].y + JackH \div 2 - (f.y + home.h \div 2)))
Sharpened(f, v) ==
  [f EXCEPT !.sight = IF f.target = None THEN [x |-> (2 * v.x) \div 5, y |-> (2 * v.y) \div 5] ELSE v]
Ghost(f, v) ==
  UNION {{Drifts(h) : h \in Fed(Flies(Verified(g, g.sight)))} :
           g \in {Sharpened(h, v) : h \in IF f.target = None THEN Looks(f, f.sight) ELSE {f}}}

\* meatball.c: it breeds, and bounces about.  A target is lost only if its
\* id is 0: verify_target returns -1 for a target it does not see.
BothWays == Speeds \cup {-s : s \in Speeds}
OffFloor(f, v) ==
  IF v.yClipped THEN {[f EXCEPT !.dx = a, !.dy = -Sign(@) * b] : a \in BothWays, b \in Speeds} ELSE {f}
OffWall(f, v) ==
  IF v.xClipped THEN {[f EXCEPT !.dx = -Sign(@) * a, !.dy = b] : a \in Speeds, b \in BothWays} ELSE {f}
Bounced(f) == UNION {UNION {OffWall(g, v) : g \in OffFloor(f, v)} : v \in {Way(f)}}
Starts(f) ==
  IF f.dx = 0 /\ f.dy = 0 THEN {[f EXCEPT !.dx = a, !.dy = b] : a \in BothWays, b \in BothWays} ELSE {f}
Watches(f, v) ==
  IF f.target = None THEN Looks(f, v) ELSE {[f EXCEPT !.target = IF Kept(f, v) = 0 THEN None ELSE @]}
Breeds(f) == [f EXCEPT !.delay = BreedDelay, !.energy = Least(@ + 7, MaxEnergy)]
Ripens(f) == [f EXCEPT !.delay = @ - (IF f.target # None THEN 10 ELSE 1)]
MeatballGoes(f) ==
  IF f.delay <= 0 THEN {Breeds(f)}
  ELSE UNION {{Shifted(h, Way(h)) : h \in Bounced(g)} : g \in Starts(Ripens(f))}
Meatball(f, v) == UNION {MeatballGoes(g) : g \in Watches(f, v)}

\* anvil.c: it falls once, when it has seen somebody.
Wakes(f, t) == IF t = None THEN f ELSE [f EXCEPT !.target = t, !.dy = FallSpeed]
Plunges(f, v) == [Shifted(f, v) EXCEPT !.dy = IF v.yClipped THEN 0 ELSE @]
Anvil(f, v) ==
  IF f.target # None /\ f.dy = 0 THEN {f}
  ELSE {Plunges(g, Way(g)) :
          g \in {Wakes(f, t) : t \in Found([f EXCEPT !.x = @ + home.w \div 2, !.y = @ + home.h \div 2], v)}}
-----------------------------------------------------------------------------
Init ==
  /\ \E s \in Scenes : map = s.map /\ home = s.enemy /\ e = NewEnemy(s.enemy)
  /\ seen = [p \in Player |-> Gone]

MoveEnemy(f, v) ==
  CASE home.kind = "walker" -> Walker(f, v)
    [] home.kind = "smart" -> Smart(f, v)
    [] home.kind = "cannon" -> Cannon(f, v)
    [] home.kind = "ghost" -> Ghost(f, v)
    [] home.kind = "slug" -> Slug(f, v)
    [] home.kind = "snail" -> Snail(f, v)
    [] home.kind = "meatball" -> Meatball(f, v)
    [] home.kind = "anvil" -> Anvil(f, v)

\* calc_client for each player, srv_calc_frame for the enemy.
Positions == {[x |-> s.x, y |-> s.y, shown |-> b] : s \in Spot, b \in BOOLEAN}
Players == seen' \in [Player -> Positions \cup {Gone}]
Frame ==
  /\ ~e.destroy
  /\ e' \in MoveEnemy([e EXCEPT !.shoots = FALSE], Vision[home.kind])
  /\ Players /\ UNCHANGED <<map, home>>

\* A weapon destroys it, and its spot creates it again.
Destroyed ==
  /\ ~e.destroy /\ e' = [e EXCEPT !.destroy = TRUE]
  /\ UNCHANGED <<map, home, seen>>
Respawn ==
  /\ e.destroy /\ e' = NewEnemy(home)
  /\ Players /\ UNCHANGED <<map, home>>

Next == Frame \/ Destroyed \/ Respawn

Spec == Init /\ [][Next]_vars
-----------------------------------------------------------------------------
\* Enemies do not get into walls, however they turn, fall, jump and bounce.
EnemiesStayInMap ==
  home.kind # "ghost" => ~MapBlocked(map, <<>>, e.x, e.y, home.w, home.h)

\* A walker never walks off the floor it stands on, whoever makes it stop and
\* turn (walker.c looks at the floor ahead when it sets the speed, and moves
\* in the next frame).
HasFloor(f) == EnemyMoves(f, 0, 1).y = 0
WalkersKeep ==
  home.kind = "walker" /\ e.state \in Ground /\ HasFloor(e) /\ ~e.destroy => HasFloor(e')
WalkersStayUp == [][WalkersKeep]_vars
=============================================================================
