------------------------------- MODULE Vitals -------------------------------
(***************************************************************************)
(* What keeps a jack alive: energy and energy tanks, death and return,     *)
(* score, power and invincibility (jack.c, calc.c, weapon.c and the items  *)
(* energy, etank, invinc, powerup and water), and what the screens of the  *)
(* players are told of it (send.c, client.c).                              *)
(*                                                                         *)
(* A frame is: a player may join, everything is sent, players may leave,   *)
(* then srv_calc_frame: the jacks, the weapons, what enemies do by         *)
(* touching, and the items.  Positions are left out: who is hit, touched   *)
(* or takes an item is a nondeterministic choice.                          *)
(***************************************************************************)
EXTENDS Integers, FiniteSets

CONSTANTS
  Player,      \* players; a player who comes back may have the id of one who left
  Partner,     \* pairs of players of the same team
  Full,        \* the energy of a fresh jack, 100 in the code
  Damage,      \* what a weapon, an enemy or water takes
  EnergyItem,  \* what an energy item gives, 20
  Duration,    \* frames of invincibility an item gives
  MaxPower,    \* WEAPON_LEVELS - 1
  MaxTanks,    \* bound: energy tanks of a jack
  MaxWeapons,  \* bound: weapons in the air
  ScoreWrap,   \* bound: scores are kept modulo this number
  Kills        \* TRUE if enemies may kill whoever they push into a wall

ASSUME VitalsAssumption ==
  /\ IsFiniteSet(Player)
  /\ Full \in Nat \ {0} /\ Damage \subseteq 1..Full /\ EnergyItem \in 0..Full
  /\ Duration \in Nat /\ MaxPower \in Nat /\ MaxTanks \in Nat /\ MaxWeapons \in Nat
  /\ ScoreWrap \in Nat \ {0} /\ Partner \subseteq Player \X Player /\ Kills \in BOOLEAN

VARIABLES
  phase,   \* the part of the frame that comes next
  in,      \* server->client: players of the game
  jack,    \* the JACK of each client
  weapon,  \* weapons in the air: the creator of each
  told,    \* players whose screen says what their jack's state is
  shield   \* the jacks each player's program takes for invincible

vars == <<phase, in, jack, weapon, told, shield>>

Phases == {"send", "jacks", "weapons", "enemies", "items"}

\* srv_reset_jack.
NewJack == [energy |-> Full, n |-> 0, f |-> 0, dead |-> FALSE, invincible |-> -1,
            start |-> 0, power |-> 0, score |-> 0, changed |-> TRUE]
JackType == [energy : -Full..Full, n : 0..MaxTanks, f : 0..MaxTanks, dead : BOOLEAN,
             invincible : -1..Duration, start : {-1, 0, 1}, power : 0..MaxPower,
             score : 0..(ScoreWrap - 1), changed : BOOLEAN]

\* MSGT_JACKSTATE.
StateOf(j) == [energy |-> j.energy, n |-> j.n, f |-> j.f, power |-> j.power, score |-> j.score]
\* The screens after a calculation that sends nothing.
StillTold == told' = {p \in told : StateOf(jack'[p]) = StateOf(jack[p])}

Scored(j, by) == [j EXCEPT !.score = (@ + by) % ScoreWrap, !.changed = TRUE]

\* srv_hit_jack.  The energy of a dead jack has a bound.
Hit(j, damage) ==
  LET left == IF j.energy - damage < -Full THEN -Full ELSE j.energy - damage
  IN  IF j.invincible >= 0 THEN j
      ELSE IF left > 0 THEN [j EXCEPT !.energy = left, !.changed = TRUE]
      ELSE IF j.f > 0 THEN [j EXCEPT !.energy = left + Full, !.f = @ - 1, !.changed = TRUE]
      ELSE [j EXCEPT !.energy = left, !.dead = TRUE, !.changed = TRUE]

\* srv_kill_jack.
Killed(j) == [j EXCEPT !.energy = 0, !.f = 0, !.dead = TRUE]

\* kill_npcs of pushblock.c: nothing says that the jack is dead.
Drained(j) == [j EXCEPT !.energy = 0, !.f = 0]

\* Mutant of Fed: Energy above a full measure always fills a tank.
FedWithoutTanks(j) ==
  LET e == j.energy + EnergyItem
  IN  IF e <= Full THEN [j EXCEPT !.energy = e, !.changed = TRUE]
      ELSE [j EXCEPT !.energy = e - Full, !.f = @ + 1, !.changed = TRUE]

\* srv_jack_get_energy.
Fed(j) ==
  LET e == j.energy + EnergyItem
  IN  IF e <= Full THEN [j EXCEPT !.energy = e, !.changed = TRUE]
      ELSE IF j.f < j.n THEN [j EXCEPT !.energy = e - Full, !.f = @ + 1, !.changed = TRUE]
      ELSE [j EXCEPT !.energy = Full, !.changed = TRUE]
-----------------------------------------------------------------------------
Init ==
  /\ phase = "send" /\ in = {} /\ weapon = {}
  /\ jack = [p \in Player |-> NewJack]
  /\ told = Player
  /\ shield = [p \in Player |-> {}]

\* join_client: the new player's program knows nothing of the others' powers.
Join(p) ==
  /\ phase = "send" /\ p \notin in
  /\ in' = in \cup {p}
  /\ UNCHANGED <<phase, jack, weapon, told, shield>>

\* srv_send_frame.
Send ==
  /\ phase = "send"
  /\ phase' = "jacks"
  /\ jack' = [p \in Player |-> IF p \in in THEN [jack[p] EXCEPT !.changed = FALSE] ELSE jack[p]]
  /\ told' = told \cup {p \in in : jack[p].changed}
  /\ shield' = [p \in Player |->
                  IF p \in in
                  THEN {q \in in : jack[q].start = 1 \/ (jack[q].start = 0 /\ q \in shield[p])}
                  ELSE shield[p]]
  /\ UNCHANGED <<in, weapon>>

\* remove_disconnected_clients; the weapons stay.  The record is freed, and
\* programs reset theirs when the id is used again (reset_jack).
Leave(p) ==
  /\ phase = "jacks" /\ p \in in
  /\ in' = in \ {p}
  /\ jack' = [jack EXCEPT ![p] = NewJack]
  /\ told' = told \cup {p}
  /\ shield' = [q \in Player |-> IF q = p THEN {} ELSE shield[q] \ {p}]
  /\ UNCHANGED <<phase, weapon>>

\* Mutant of NextJack: A jack returns with its power lost and nobody told.
ReturnsUntold(j) ==
  LET k == [j EXCEPT !.start = 0]
  IN  IF j.dead
      THEN [k EXCEPT !.dead = FALSE, !.energy = Full, !.invincible = -1, !.power = 0]
      ELSE IF j.invincible >= 0
      THEN [k EXCEPT !.invincible = @ - 1, !.start = IF j.invincible = 0 THEN -1 ELSE 0]
      ELSE k

\* srv_calc_frame and calc_client for one jack.
NextJack(j) ==
  LET k == [j EXCEPT !.start = 0]
  IN  IF j.dead
      THEN [Scored(k, ScoreWrap - 1) EXCEPT !.dead = FALSE, !.energy = Full,
                                            !.invincible = -1, !.power = 0]
      ELSE IF j.invincible >= 0
      THEN [k EXCEPT !.invincible = @ - 1, !.start = IF j.invincible = 0 THEN -1 ELSE 0]
      ELSE k

\* calc_client for every player; those in S shoot.
Jacks(S) ==
  /\ phase = "jacks" /\ S \subseteq in
  /\ phase' = "weapons"
  /\ jack' = [p \in Player |-> IF p \in in THEN NextJack(jack[p]) ELSE jack[p]]
  /\ weapon' = weapon \cup S
  /\ Cardinality(weapon') <= MaxWeapons
  /\ StillTold /\ UNCHANGED <<in, shield>>

\* inform_weapon_owner: w, or another with w's id, hears of what its weapon killed
\* if it still plays.
Rewarded(j, w, killed) ==
  IF w \in in /\ killed > 0 THEN [j EXCEPT ![w] = Scored(@, killed)] ELSE j

\* verify_jacks: the weapon w of player w hits the jacks in H.
WeaponHits(w, H, damage) ==
  /\ phase = "weapons" /\ w \in weapon
  /\ H # {} /\ H \subseteq {p \in in : p # w /\ <<w, p>> \notin Partner}
  /\ weapon' = weapon \ {w}
  /\ LET hit == [p \in Player |-> IF p \in H THEN Hit(jack[p], damage) ELSE jack[p]]
         killed == Cardinality({p \in H : hit[p].dead})
     IN  jack' = Rewarded(hit, w, killed)
  /\ StillTold /\ UNCHANGED <<phase, in, shield>>

\* A weapon that hits the map, or enemies of which some are destroyed and count
\* (verify_enemies).
WeaponLost(w, killed) ==
  /\ phase = "weapons" /\ w \in weapon
  /\ weapon' = weapon \ {w}
  /\ jack' = Rewarded(jack, w, killed)
  /\ StillTold /\ UNCHANGED <<phase, in, shield>>

\* What enemies do to a jack: nothing, touch it (anvil.c, ghost.c, slug.c,
\* snail.c), push it into a wall or overlap it (pushblock.c).
Touched(j) ==
  {j} \cup {Hit(j, d) : d \in Damage}
      \cup (IF Kills THEN {Drained(j)} \cup {Killed(Hit(j, d)) : d \in Damage} ELSE {})

\* What items do to it (the get_item of each, and of water that hurts).
Given(j) ==
  {j, Fed(j), [j EXCEPT !.start = 1, !.invincible = Duration]}
  \cup {Hit(j, d) : d \in Damage}
  \cup (IF j.n < MaxTanks THEN {[j EXCEPT !.n = @ + 1, !.f = @ + 1, !.changed = TRUE]} ELSE {})
  \cup (IF j.power < MaxPower THEN {[j EXCEPT !.power = @ + 1, !.changed = TRUE]} ELSE {})

EnemyTouches(p) ==
  /\ phase = "enemies" /\ p \in in
  /\ \E j \in Touched(jack[p]) : jack' = [jack EXCEPT ![p] = j]
  /\ StillTold /\ UNCHANGED <<phase, in, weapon, shield>>

ItemTaken(p) ==
  /\ phase = "items" /\ p \in in
  /\ \E j \in Given(jack[p]) : jack' = [jack EXCEPT ![p] = j]
  /\ StillTold /\ UNCHANGED <<phase, in, weapon, shield>>

EndPhase ==
  /\ phase \in {"weapons", "enemies", "items"}
  /\ phase' = CASE phase = "weapons" -> "enemies" [] phase = "enemies" -> "items"
                [] phase = "items" -> "send"
  /\ UNCHANGED <<in, jack, weapon, told, shield>>

Next ==
  \/ Send \/ EndPhase
  \/ \E p \in Player : Join(p) \/ Leave(p) \/ EnemyTouches(p) \/ ItemTaken(p)
  \/ \E w \in Player, killed \in 0..ScoreWrap : WeaponLost(w, killed)
  \/ \E S \in SUBSET Player : Jacks(S)
  \/ \E w \in Player, H \in SUBSET Player, d \in Damage : WeaponHits(w, H, d)

Spec == Init /\ [][Next]_vars
-----------------------------------------------------------------------------
TypeOK ==
  /\ phase \in Phases /\ in \subseteq Player /\ weapon \subseteq Player
  /\ jack \in [Player -> JackType]
  /\ told \subseteq Player
  /\ shield \in [Player -> SUBSET Player]

\* A jack that is not dead has energy and no more than a full measure of it,
\* and never more full tanks than tanks: whatever hits, kills, feeds and
\* returns come together in one frame (srv_hit_jack, srv_jack_get_energy).
\* Only a push block leaves a jack without energy and alive (kill_npcs).
EnergyInRange ==
  \A p \in Player :
    /\ jack[p].f <= jack[p].n
    /\ ~jack[p].dead => jack[p].energy \in (IF Kills THEN 0 ELSE 1)..Full

\* After a frame was sent each player's screen says what the server holds of
\* the player's jack; only a jack without energy may look alive until it
\* returns or is fed (the flag `changed').
ScreensSayTheState ==
  phase = "jacks" => \A p \in in : ~jack[p].dead /\ jack[p].energy > 0 => p \in told

\* client/jack.h: `invincible' is "1 if invincible".  A jack of the game that
\* is drawn as invincible is so.
ShieldIsReal ==
  phase = "jacks" => \A p \in in : \A q \in shield[p] \cap in : jack[q].invincible >= 0

=============================================================================
