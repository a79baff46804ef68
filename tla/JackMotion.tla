----------------------------- MODULE JackMotion -----------------------------
(***************************************************************************)
(* How a jack moves by the keys of its player (server/jack.c): walking,    *)
(* jumping, falling, stopped by the map and by the enemies that block.     *)
(*                                                                         *)
(* Speeds are thousandths of a pixel per frame.  The parameters are those  *)
(* that come with a map.                                                   *)
(***************************************************************************)
EXTENDS Movement

CONSTANTS
  JackW, JackH,          \* clip_w and clip_h of a jack
  MaxJump, IncJump, DecJump,            \* parms[0..2]
  MaxWalk, IncWalk, IncWalkJump, DecWalk,  \* parms[3..6]
  FrameDelay             \* parms[7]

Stand == "stand"  Walk == "walk"  JumpStart == "jumpStart"  JumpEnd == "jumpEnd"
Ground == {Stand, Walk}

StartWalk == DecWalk + 1
StartJump == MaxJump

\* The speed s less the friction `amount'.
Slowed(s, amount) ==
  IF s >= 0 THEN Greatest(s - amount, 0) ELSE Least(s + amount, 0)

\* What the rectangle of jack j can move among the enemies E.
JackMoves(m, E, j, dx, dy) == CalcMovement(m, E, j.x, j.y, JackW, JackH, dx, dy)

\* decrease_horizontal_speed.
Decreased(j, amount) ==
  LET dx == Slowed(j.dx, amount)
  IN  [j EXCEPT !.dx = dx, !.state = IF dx = 0 /\ @ = Walk THEN Stand ELSE @]

\* The first part of jack_move: a jack without floor falls.
Drops(j) == IF j.state \in Ground THEN j ELSE [j EXCEPT !.dy = @ + DecJump]
Falling(m, E, j) ==
  Drops(IF j.state \in Ground /\ JackMoves(m, E, j, 0, 1).y > 0
        THEN [j EXCEPT !.state = JumpEnd] ELSE j)

\* The second part, for the movement v: it lands, or hits its head, and is
\* slower when it hits a wall.
Landed(j, v, held) ==
  IF ~v.yClipped THEN j
  ELSE IF j.dy <= 0 THEN [j EXCEPT !.dy = -@]
  ELSE [j EXCEPT !.dy = 0,
                 !.state = IF FrameDelay < 1 \/ held \cap {"left", "right"} # {} THEN Walk ELSE Stand]
Stopped(j, v) == IF v.xClipped THEN Decreased(j, DecWalk \div 2) ELSE j
Shift(j, v) == [j EXCEPT !.x = Greatest(@ + v.x, 0), !.y = Greatest(@ + v.y, 0)]

\* The third part: friction on the floor, and the greatest speed of a fall.
Braked(j) ==
  CASE j.state \in Ground -> Decreased(j, DecWalk)
    [] j.state = JumpStart -> [j EXCEPT !.state = IF j.dy < 0 /\ j.dy > -DecJump THEN JumpEnd ELSE @,
                                        !.dy = Least(@, MaxJump)]
    [] j.state = JumpEnd -> [j EXCEPT !.dy = Least(@, MaxJump)]

\* jack_move.
Moves(j, v, held) == Braked(Shift(Stopped(Landed(j, v, held), v), v))
MovesOn(m, E, j, held) == Moves(j, JackMoves(m, E, j, Quot(j.dx, 1000), Quot(j.dy, 1000)), held)
JackMove(m, E, j, held) == MovesOn(m, E, Falling(m, E, j), held)

\* The direction of the keys that are held; the left one comes first.
Steers(held) == IF "left" \in held THEN -1 ELSE IF "right" \in held THEN 1 ELSE 0
\* The speed dx pushed that way, and not beyond the greatest speed.
Pushed(dx, way, by) ==
  CASE way = 0 -> dx
    [] way > 0 -> Least(dx + by, MaxWalk)
    [] way < 0 -> Greatest(dx - by, -MaxWalk)
Jumps(j) == [j EXCEPT !.state = JumpStart, !.dy = -StartJump]

\* jack_input, for the keys that are held and those pressed or released
\* since the last frame.
JackInput(j, held, pressed, released) ==
  LET way == Steers(held)
      jump(k) == IF "jump" \in pressed \cap held THEN Jumps(k) ELSE k
  IN  CASE j.state = Stand ->
             jump(IF way = 0 THEN j ELSE [j EXCEPT !.state = Walk, !.dx = @ + way * StartWalk])
        [] j.state = Walk ->
             LET k == jump([j EXCEPT !.dx = Pushed(@, way, IncWalk)])
             IN  IF FrameDelay > 0 /\ released \cap {"left", "right"} # {}
                 THEN [k EXCEPT !.state = Stand] ELSE k
        [] j.state = JumpStart ->
             LET k == [j EXCEPT !.dx = Pushed(@, way, IncWalkJump),
                                !.dy = IF "jump" \in held THEN @ - IncJump ELSE @]
             IN  IF "jump" \in released THEN [k EXCEPT !.state = JumpEnd] ELSE k
        [] j.state = JumpEnd -> [j EXCEPT !.dx = Pushed(@, way, IncWalkJump)]
=============================================================================
