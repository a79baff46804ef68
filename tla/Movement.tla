------------------------------ MODULE Movement ------------------------------
(***************************************************************************)
(* server/movement.c: how far a rectangle can move in a map of tiles, some *)
(* of which block in parts, and among enemies that block.  Everything that *)
(* moves in the game moves by these functions.                             *)
(*                                                                         *)
(* A map is a record of its tile size, its width and height in tiles, and  *)
(* a function from the tiles to 0..14 (a kind of block) or -1 (free).      *)
(***************************************************************************)
EXTENDS Integers, Sequences

LOCAL INSTANCE SequencesExt

Abs(n) == IF n < 0 THEN -n ELSE n
Least(a, b) == IF a < b THEN a ELSE b
Greatest(a, b) == IF a < b THEN b ELSE a
\* C's division, which rounds towards zero.
Quot(a, b) == IF a >= 0 THEN a \div b ELSE -((-a) \div b)

Rect(x, y, w, h) == [x |-> x, y |-> y, w |-> w, h |-> h]
Moved(r, dx, dy) == [r EXCEPT !.x = @ + dx, !.y = @ + dy]

\* rect_interception, and the rectangle it returns.
Common(a, b) ==
  LET x == Greatest(a.x, b.x)
      y == Greatest(a.y, b.y)
  IN  Rect(x, y, Least(a.x + a.w, b.x + b.w) - x, Least(a.y + a.h, b.y + b.h) - y)
Meet(a, b) == Common(a, b).w > 0 /\ Common(a, b).h > 0
PointIn(p, r) == r.x <= p.x /\ p.x < r.x + r.w /\ r.y <= p.y /\ p.y < r.y + r.h

\* clip_block: the halves of a tile that each kind of block fills.
ClipBlock ==
  [n \in 0..14 |->
     CASE n = 0 -> <<Rect(0, 0, 2, 2)>>
       [] n = 1 -> <<Rect(0, 0, 1, 1)>>
       [] n = 2 -> <<Rect(1, 0, 1, 1)>>
       [] n = 3 -> <<Rect(0, 1, 1, 1)>>
       [] n = 4 -> <<Rect(1, 1, 1, 1)>>
       [] n = 5 -> <<Rect(0, 0, 2, 1)>>
       [] n = 6 -> <<Rect(0, 0, 1, 2)>>
       [] n = 7 -> <<Rect(1, 0, 1, 2)>>
       [] n = 8 -> <<Rect(0, 1, 2, 1)>>
       [] n = 9 -> <<Rect(1, 0, 1, 1), Rect(0, 1, 2, 1)>>
       [] n = 10 -> <<Rect(0, 0, 1, 1), Rect(0, 1, 2, 1)>>
       [] n = 11 -> <<Rect(0, 0, 2, 1), Rect(1, 1, 1, 1)>>
       [] n = 12 -> <<Rect(0, 0, 2, 1), Rect(0, 1, 1, 1)>>
       [] n = 13 -> <<Rect(0, 0, 1, 1), Rect(1, 1, 1, 1)>>
       [] n = 14 -> <<Rect(1, 0, 1, 1), Rect(0, 1, 1, 1)>>]

\* POINT_TO_MAP: what is outside of the map blocks.
TileAt(m, x, y) ==
  IF x < 0 \/ y < 0 \/ x >= m.w * m.tile \/ y >= m.h * m.tile THEN 0
  ELSE m.at[<<x \div m.tile, y \div m.tile>>]

\* get_block_rect.  Rectangles of blocks are a pixel short.
BlockRects(m, x, y) ==
  LET t == TileAt(m, x, y)
      Half(n) == (n * m.tile) \div 2
      Placed(r) == Rect(Quot(x, m.tile) * m.tile + Half(r.x), Quot(y, m.tile) * m.tile + Half(r.y),
                        Half(r.w) - 1, Half(r.h) - 1)
  IN  IF t \in 0..14 THEN [i \in DOMAIN ClipBlock[t] |-> Placed(ClipBlock[t][i])] ELSE <<>>

\* The speed v of a movement from a to b less what they have in common.
Less(v, common) == IF v > 0 THEN v - common ELSE IF v < 0 THEN v + common ELSE v

\* clip_rect.
ClipRect(r, v, block) ==
  LET c == Common(Moved(r, v.x, v.y), block)
  IN  IF c.w > 0 /\ c.h > 0 THEN [x |-> Less(v.x, c.w), y |-> Less(v.y, c.h)] ELSE v
Clips(r, v, block) == Meet(Moved(r, v.x, v.y), block)

\* The shorter of two speeds.
Slower(a, b) == IF Abs(a) > Abs(b) THEN b ELSE a

\* "Quick hack to avoid the chicken bug": nothing leaves at the left or top.
Inside(r, v) ==
  [x |-> IF v.x + r.x < 0 THEN -r.x ELSE v.x, y |-> IF v.y + r.y < 0 THEN -r.y ELSE v.y,
   clipped |-> FALSE]

\* The speed v of rectangle r against blocks: along x, along y, or along both
\* for the sake of x (the three parts of clip_block_vertex and do_enemy_clip).
Along(v, x, y) == [x |-> IF x THEN v.x ELSE 0, y |-> IF y THEN v.y ELSE 0]
Clipped(r, v, u, blocks) == v.clipped \/ \E i \in DOMAIN blocks : Clips(r, u, blocks[i])
SlowX(r, v, u, blocks) == FoldLeft(LAMBDA s, b : Slower(s, ClipRect(r, u, b).x), v.x, blocks)
SlowY(r, v, u, blocks) == FoldLeft(LAMBDA s, b : Slower(s, ClipRect(r, u, b).y), v.y, blocks)
ClipX(r, v, blocks) ==
  IF v.x = 0 THEN v
  ELSE [x |-> SlowX(r, v, Along(v, TRUE, FALSE), blocks), y |-> v.y,
        clipped |-> Clipped(r, v, Along(v, TRUE, FALSE), blocks)]
ClipY(r, v, blocks) ==
  IF v.y = 0 THEN v
  ELSE [x |-> v.x, y |-> SlowY(r, v, Along(v, FALSE, TRUE), blocks),
        clipped |-> Clipped(r, v, Along(v, FALSE, TRUE), blocks)]
ClipXY(r, v, blocks) ==
  IF v.clipped \/ v.x = 0 \/ v.y = 0 THEN v
  ELSE [v EXCEPT !.x = SlowX(r, v, Along(v, TRUE, TRUE), blocks)]

\* clip_block_vertex: the blocks are those at the new place of the vertex p.
VertexX(m, p, r, v) == ClipX(r, v, BlockRects(m, p.x + v.x, p.y))
VertexY(m, p, r, v) == ClipY(r, v, BlockRects(m, p.x, p.y + v.y))
VertexXY(m, p, r, v) == ClipXY(r, v, BlockRects(m, p.x + v.x, p.y + v.y))
ClipVertex(m, p, r, v) == VertexXY(m, p, r, VertexY(m, p, r, VertexX(m, p, r, Inside(r, v))))

\* clip_enemy_vertex and do_enemy_clip for the enemy rectangle e.
Shrunk(e) == <<Rect(e.x + 1, e.y + 1, e.w - 1, e.h - 1)>>
ClipEnemy(e, r, v) ==
  ClipXY(r, ClipY(r, ClipX(r, Inside(r, v), Shrunk(e)), Shrunk(e)), Shrunk(e))

Vertices(x, y, w, h) ==
  <<[x |-> x, y |-> y], [x |-> x + w, y |-> y], [x |-> x, y |-> y + h], [x |-> x + w, y |-> y + h]>>

\* calc_jack_movement and calc_enemy_movement with the rectangles of the
\* enemies that block, and calc_movement with none.
ClipMap(m, r, p, v) == FoldLeft(LAMBDA u, q : ClipVertex(m, q, r, u), v, p)
ClipEnemies(enemies, r, v) == FoldLeft(LAMBDA u, e : ClipEnemy(e, r, u), v, enemies)
Result(v, dx, dy) ==
  [x |-> v.x, y |-> v.y, xClipped |-> Abs(v.x) < Abs(dx), yClipped |-> Abs(v.y) < Abs(dy)]
CalcMovement(m, enemies, x, y, w, h, dx, dy) ==
  IF dx = 0 /\ dy = 0 THEN [x |-> 0, y |-> 0, xClipped |-> FALSE, yClipped |-> FALSE]
  ELSE Result(ClipEnemies(enemies, Rect(x, y, w + 1, h + 1),
                          ClipMap(m, Rect(x, y, w + 1, h + 1), Vertices(x, y, w, h),
                                  [x |-> dx, y |-> dy])), dx, dy)

\* is_map_blocked, and is_map_enemy_blocked with the blocking enemies.
MapBlocked(m, enemies, x, y, w, h) ==
  LET p == Vertices(x, y, w, h)
  IN  \/ x < 0 \/ y < 0
      \/ \E i \in 1..4 : LET b == BlockRects(m, p[i].x, p[i].y)
                         IN  \E j \in DOMAIN b : PointIn(p[i], b[j])
      \/ \E i \in DOMAIN enemies : Meet(enemies[i], Rect(x, y, w, h))
=============================================================================
