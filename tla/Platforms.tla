----------------------------- MODULE Platforms ------------------------------
(***************************************************************************)
(* Enemies that block and move jacks (npcs/hplatform.c, vplatform.c,       *)
(* pushblock.c), among jacks that walk, jump and fall (JackMotion).        *)
(*                                                                         *)
(* A frame is srv_calc_frame: all jacks move, then the enemies in the      *)
(* order of their slots.  What a hit does to the energy of a jack is left  *)
(* to Vitals: here a jack that was hit may or may not be dead.             *)
(***************************************************************************)
EXTENDS JackMotion

LOCAL INSTANCE SequencesExt

CONSTANTS
  Jack,     \* players
  Bump,     \* the speed of a jack that was hit, 10000 in the code
  Scenes    \* levels: a map, the enemies at its start, and where jacks start

VARIABLES
  turn,      \* 0 if the jacks move next, otherwise the slot that does
  map,       \* server->map, never changed here
  start,     \* a start position
  es,        \* server->enemy
  js         \* the jacks

vars == <<turn, map, start, es, js>>

NewJack(p) == [x |-> p.x, y |-> p.y, dx |-> 0, dy |-> 0, state |-> Stand, fate |-> "fine"]

JackRect(j) == Rect(j.x, j.y, JackW, JackH)
EnemyRect(e) == Rect(e.x, e.y, e.w, e.h)
Active(E) == SelectSeq(E, LAMBDA e : e.active)
Rects(E) == [i \in DOMAIN Active(E) |-> EnemyRect(Active(E)[i])]

\* enemy_blocks_jack: enemy e, moved, meets jack j.
BlocksJack(e, dx, dy, j) == Meet(Moved(EnemyRect(e), dx, dy), JackRect(j))

\* is_map_enemy_blocked for jack j, moved.
NoRoom(m, E, j, dx, dy) == MapBlocked(m, Rects(E), j.x + dx, j.y + dy, JackW, JackH)
Shifted(j, dx, dy) == [j EXCEPT !.x = @ + dx, !.y = @ + dy]
-----------------------------------------------------------------------------
\* What one enemy works on: the enemies E and the jacks J, those in `safe' are
\* invincible.
World(E, J, safe) == [es |-> E, js |-> J, safe |-> safe]

Hit(j) == [j EXCEPT !.fate = IF @ = "fine" THEN "hurt" ELSE @]

\* hit_jack: it is hit and put beside the enemy.
HitJack(e, j, safe) ==
  LET left == j.x + JackW \div 2 < e.x + e.w \div 2
  IN  [(IF safe THEN j ELSE Hit(j)) EXCEPT !.x = IF left THEN e.x - JackW ELSE e.x + e.w,
                        !.dx = IF left THEN -Bump ELSE Bump]

\* Mutant of Rides: Only jacks that walk are taken along.
RidesWalking(E, e, j, dx, dy) ==
  IF j.state = Walk /\ BlocksJack(e, 0, -(dy + 1), j) /\ ~NoRoom(map, E, j, dx, dy)
  THEN Shifted(j, dx, dy) ELSE j

\* The jacks on platform e move along with it.
Rides(E, e, j, dx, dy) ==
  IF j.state \in Ground /\ BlocksJack(e, 0, -(dy + 1), j) /\ ~NoRoom(map, E, j, dx, dy)
  THEN Shifted(j, dx, dy) ELSE j

\* A jack below a push block is hit; if there is no room beside, it dies.
Squeezed(j) ==
  IF MapBlocked(map, <<>>, j.x, j.y, JackW, JackH) THEN [j EXCEPT !.fate = "killed"] ELSE j
HitBelow(e, j, safe) == IF BlocksJack(e, 0, 1, j) THEN Squeezed(HitJack(e, j, safe)) ELSE j

\* adjust_jacks of the three libraries, after the enemy i moved by dx, dy.
AdjustJacks(w, i, dx, dy) ==
  [p \in Jack |->
     LET k == Rides(w.es, w.es[i], w.js[p], dx, dy)
     IN  CASE w.es[i].kind = "h" -> k
           [] w.es[i].kind = "v" -> IF dy <= 0 THEN w.js[p] ELSE k
           [] w.es[i].kind = "push" -> IF dx = 0 /\ dy = 0 THEN w.js[p]
                                       ELSE HitBelow(w.es[i], k, p \in w.safe)]

\* Mutant of Smashes: push_jacks looks for room where the jack is, not where it would be.
SmashesNobody(w, i, dx, dy) ==
  \E p \in Jack : BlocksJack(w.es[i], dx, dy, w.js[p]) /\ NoRoom(map, w.es, w.js[p], 0, 0)

\* push_jacks cannot push one of the jacks in the way.
Smashes(w, i, dx, dy) ==
  \E p \in Jack : BlocksJack(w.es[i], dx, dy, w.js[p]) /\ NoRoom(map, w.es, w.js[p], dx, dy)
PushJacks(w, i, dx, dy) ==
  [p \in Jack |-> IF BlocksJack(w.es[i], dx, dy, w.js[p]) THEN Shifted(w.js[p], dx, dy) ELSE w.js[p]]

EnemyMoves(E, e, dx, dy) == CalcMovement(map, Rects(E), e.x, e.y, e.w, e.h, dx, dy)

\* do_move_step: one pixel, or the part v of it that the enemy can move.
Adjusted(w, i, v) ==
  [world |-> [w EXCEPT !.js = AdjustJacks(w, i, v.x, v.y)], stop |-> v.xClipped \/ v.yClipped]
Displaced(w, i, v, dx, dy) ==
  Adjusted(World([w.es EXCEPT ![i].x = @ + v.x, ![i].y = @ + v.y], PushJacks(w, i, dx, dy), w.safe), i, v)
MoveStep(w, i, dx, dy) ==
  IF Smashes(w, i, dx, dy) THEN [world |-> w, stop |-> TRUE]
  ELSE Displaced(w, i, EnemyMoves(w.es, w.es[i], dx, dy), dx, dy)

\* do_move_enemy: steps of one pixel, along x and then along y, each until one
\* fails.
Unit(n) == IF n < 0 THEN -1 ELSE 1
StepsOf(dx, dy) ==
  [k \in 1..Abs(Quot(dx, 1000)) |-> <<Unit(dx), 0>>] \o [k \in 1..Abs(Quot(dy, 1000)) |-> <<0, Unit(dy)>>]
Step(r, i, s) ==
  IF r.stop /\ r.axis = s[1] THEN r
  ELSE LET m == MoveStep(r.world, i, s[1], s[2])
       IN  [world |-> m.world, stop |-> m.stop, axis |-> s[1], blocked |-> r.blocked \/ m.stop]
MoveEnemy(w, i) ==
  FoldLeft(LAMBDA r, s : Step(r, i, s), [world |-> w, stop |-> FALSE, axis |-> 0, blocked |-> FALSE],
           StepsOf(w.es[i].dx, w.es[i].dy))

\* Mutant of Far: the platform turns when it is too far, not when its next
\* step would be.
FarNow(e, pos, d) == e.level # 0 /\ Abs(e.home - e[pos]) > e.level * map.tile

\* move_enemy of a platform along `pos' with speed `d'.
Far(e, pos, d) == e.level # 0 /\ Abs(e.home - (e[pos] + Quot(e[d], 1000))) > e.level * map.tile
Turned(w, i) == [w EXCEPT !.es[i].dx = -@, !.es[i].dy = -@]
TurnsIfStopped(m, i, pos, d) == IF m.blocked \/ Far(m.world.es[i], pos, d) THEN Turned(m.world, i) ELSE m.world
Platform(w, i, pos, d, go) ==
  TurnsIfStopped(MoveEnemy(IF w.es[i][d] = 0
                   THEN [w EXCEPT !.es[i].home = w.es[i][pos], !.es[i][d] = go] ELSE w, i), i, pos, d)

\* do_movement of a push block.
LosesFloor(w, i) ==
  IF EnemyMoves(w.es, w.es[i], 0, 1).y > 0 THEN [w EXCEPT !.es[i].dy = @ + DecJump] ELSE w
Slows(w, i, v) ==
  [w EXCEPT !.es[i].dx = Slowed(IF v.xClipped THEN 0 ELSE @, 300),
            !.es[i].dy = IF v.yClipped THEN 0 ELSE @]
Slides(w, i) ==
  MoveEnemy(Slows(w, i, EnemyMoves(w.es, w.es[i], Quot(w.es[i].dx, 1000), Quot(w.es[i].dy, 1000))), i).world
BlockFalls(w, i) == Slides(LosesFloor(w, i), i)

\* verify_hit_jacks: who is met by a block that falls.
HitJacks(w, i) ==
  IF w.es[i].dy <= 0 THEN w
  ELSE [w EXCEPT !.js = [p \in Jack |->
          IF p \notin w.safe /\ BlocksJack(w.es[i], 0, 0, @[p])
          THEN HitJack(w.es[i], @[p], FALSE) ELSE @[p]]]

\* do_push: jacks that walk against the block.
PushOf(e, j) ==
  IF j.dx < 0 /\ BlocksJack(e, 1, 0, j) THEN -800
  ELSE IF j.dx > 0 /\ BlocksJack(e, -1, 0, j) THEN 800 ELSE 0
DoPush(w, i) ==
  LET e == w.es[i]
  IN  [w EXCEPT !.es[i].dx = FoldLeft(LAMBDA s, p : s + PushOf(e, w.js[p]), @, SetToSeq(Jack))]

\* kill_npcs: the jacks in the block lose their energy and tanks without
\* being dead, other enemies in it are destroyed.  Such a jack dies of the next
\* hit, if it was not fed before (Vitals): it may be dead in any frame to come.
KillNpcs(w, i) ==
  LET e == w.es[i]
  IN  World([k \in DOMAIN w.es |->
               IF k # i /\ w.es[k].active /\ Meet(EnemyRect(e), EnemyRect(w.es[k]))
               THEN [w.es[k] EXCEPT !.destroy = TRUE] ELSE w.es[k]],
            [p \in Jack |-> IF BlocksJack(e, 0, 0, w.js[p]) /\ w.js[p].fate # "killed"
                            THEN [w.js[p] EXCEPT !.fate = "drained"] ELSE w.js[p]],
            w.safe)

PushBlock(w, i) == KillNpcs(DoPush(HitJacks(BlockFalls(w, i), i), i), i)
-----------------------------------------------------------------------------
Init ==
  \E s \in Scenes :
    /\ turn = 0
    /\ map = s.map /\ start = s.start
    /\ es = s.enemies
    /\ js = [p \in Jack |-> NewJack(s.start)]

\* srv_send_frame frees the enemies that were destroyed in the last frame.
Sent == [i \in DOMAIN es |-> [es[i] EXCEPT !.active = ~es[i].destroy]]

\* calc_client for one jack: a dead one returns to the start, the others move.
NextJack(j, held, pressed, released, dead) ==
  IF dead THEN [j EXCEPT !.x = start.x, !.y = start.y, !.fate = "fine"]
  ELSE [JackInput(JackMove(map, Rects(Sent), j, held), held, pressed, released)
          EXCEPT !.fate = IF @ = "hurt" THEN "fine" ELSE @]

\* What a player may do with the keys of a jack between two frames.
Hands ==
  {[held |-> way \cup jump[1], pressed |-> jump[2], released |-> jump[3] \cup stop] :
     way \in {{}, {"left"}, {"right"}}, stop \in {{}, {"left", "right"}},
     jump \in {<<{}, {}, {}>>, <<{"jump"}, {"jump"}, {}>>, <<{"jump"}, {}, {}>>, <<{}, {}, {"jump"}>>}}

Jacks ==
  /\ turn = 0
  /\ turn' = 1
  /\ \E hand \in [Jack -> {h \in Hands : h.released \cap h.held = {}}],
        dead \in SUBSET {p \in Jack : js[p].fate \in {"hurt", "drained"}} :
       js' = [p \in Jack |-> NextJack(js[p], hand[p].held, hand[p].pressed, hand[p].released,
                                      p \in dead \/ js[p].fate = "killed")]
  /\ es' = Sent
  /\ UNCHANGED <<map, start>>

Next1(i) == IF i = Len(es) THEN 0 ELSE i + 1

Enemy(i) ==
  /\ turn = i
  /\ turn' = Next1(i)
  /\ \E safe \in SUBSET Jack :
     LET w == World(es, js, safe)
         r == CASE ~es[i].active -> w
                [] es[i].kind = "h" -> Platform(w, i, "x", "dx", IF es[i].dir < 0 THEN -3000 ELSE 3000)
                [] es[i].kind = "v" -> Platform(w, i, "y", "dy", 3000)
                [] es[i].kind = "push" -> PushBlock(w, i)
     IN  es' = r.es /\ js' = r.js
  /\ UNCHANGED <<map, start>>

Next == Jacks \/ \E i \in DOMAIN es : Enemy(i)

Spec == Init /\ [][Next]_vars
-----------------------------------------------------------------------------
Inner(e) == Rect(e.x + 1, e.y + 1, e.w - 1, e.h - 1)

\* No jack is in a wall, or in an enemy that blocks, however platforms push
\* it and wherever it rides, unless a push block hit it (push_jacks: "verify
\* if we can move without smashing any jack").
InTheWay(j) ==
  \/ MapBlocked(map, <<>>, j.x, j.y, JackW, JackH)
  \/ \E i \in DOMAIN es : es[i].active /\ Meet(Inner(es[i]), JackRect(j))
NobodySmashed ==
  \A p \in Jack : InTheWay(js[p]) => js[p].fate # "fine"

\* A platform is never farther from where it started than its level says.
InRange(e) ==
  CASE e.kind = "h" -> e.dx = 0 \/ Abs(e.x - e.home) <= e.level * map.tile
    [] e.kind = "v" -> e.dy = 0 \/ Abs(e.y - e.home) <= e.level * map.tile
    [] OTHER -> TRUE
PlatformsStayNear == \A i \in DOMAIN es : es[i].level # 0 => InRange(es[i])

\* A jack that stands on a platform is still on it when the platform has
\* moved, unless there was no room for it to come along, or none for the
\* platform (the jacks are pushed first).  One that stands on the last pixel of
\* its edge is left behind: adjust_jacks looks at where the platform is now.
WasStopped(e, f) ==
  /\ e.dx # 0 \/ e.dy # 0
  /\ <<f.x, f.y>> # <<e.x + Quot(e.dx, 1000), e.y + Quot(e.dy, 1000)>>
StandsOn(e, j) == j.state \in Ground /\ BlocksJack(e, 0, -1, j) /\ ~BlocksJack(e, 0, 0, j)
RidersKeep ==
  \A i \in DOMAIN es : \A p \in Jack :
    /\ turn = i /\ es[i].kind \in {"h", "v"} /\ StandsOn(es[i], js[p])
    /\ BlocksJack(es[i], IF es[i].dx = 0 THEN 0 ELSE Unit(es[i].dx), -1, js[p])
    => \/ StandsOn(es'[i], js'[p])
       \/ NoRoom(map, es', js'[p], Unit(es[i].dx), 0)
       \/ WasStopped(es[i], es'[i])
RidersStay == [][RidersKeep]_vars
=============================================================================
