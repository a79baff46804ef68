------------------------------- MODULE NpcLife -------------------------------
(***************************************************************************)
(* The life of the weapons, enemies and items of a game: the slots the     *)
(* server keeps them in (weapon.c, enemy.c, item.c), the messages that     *)
(* make the clients show and remove them (send.c, client/npc.c), the spots *)
(* of the map where they come back, and the change of the map (calc.c,     *)
(* connect.c, npcs/teleport.c).                                            *)
(*                                                                         *)
(* One frame is: a client may join, everything is sent, some players go    *)
(* away, and then srv_calc_frame: map change, players, weapons, enemies,   *)
(* respawning enemies, items, respawning items.  Positions, energies and   *)
(* the kinds of enemies are left out: what they decide (a weapon hits or   *)
(* flies on, an enemy dies) is a nondeterministic choice.                  *)
(***************************************************************************)
EXTENDS Integers, FiniteSetsExt

CONSTANTS
  Client,      \* client programs
  Map,         \* map names
  Default,     \* DEFAULT_MAP_FILE
  NoMap,       \* no map
  NSlots,      \* bound: slots of each kind; there is no memory for more
  NSpots,      \* bound: enemies and items of a map
  Teleporter,  \* the items that are teleporters to a map: <<map, spot>>
  Waits,       \* frames after which NPCs come back, a negative number for never
  MaxGames,    \* bound: games that are started
  Resets       \* TRUE if the server may receive SIGUSR1

ASSUME NpcLifeAssumption ==
  /\ Default \in Map /\ NoMap \notin Map
  /\ NSlots \in [{"weapon", "enemy", "item"} -> Nat] /\ NSpots \in Nat /\ Waits \subseteq Int
  /\ MaxGames \in Nat /\ Resets \in BOOLEAN
  /\ Teleporter \subseteq Map \X (0..(NSpots - 1))

VARIABLES
  pc,         \* where the server is
  cur,        \* position of the loop being run
  starting,   \* the map is loaded for server_start_game
  players,    \* server->client
  gone,       \* players that went away in this frame
  npc,        \* server->weapon, ->enemy and ->item
  left,       \* respawn_left of server->map_enemy and ->map_item
  map,        \* server->map: the map whose data is in memory
  mapFile,    \* server->map_file: the name clients are told
  newMap,     \* server->new_map_info
  changeMap,  \* server->change_map
  reset,      \* server->reset
  games,      \* games started so far
  shown,      \* the NPCs each client program shows
  mapOf       \* the map each client program shows

level == <<left, map, mapFile, newMap, changeMap>>
screens == <<shown, mapOf>>
control == <<pc, cur, starting>>
vars == <<control, players, gone, npc, level, reset, games, screens>>

Kinds == {"weapon", "enemy", "item"}
SpotKinds == {"enemy", "item"}
Slots(k) == 0..(NSlots[k] - 1)
NpcSlots == UNION {{k} \X Slots(k) : k \in Kinds}
Spots == 0..(NSpots - 1)
NoSpot == -1   \* map_id of NPCs that do not come from the map

\* An NPC: `from' is the map it was created in.
Npc == [on : BOOLEAN, create : BOOLEAN, destroy : BOOLEAN,
        spot : Spots \cup {NoSpot}, from : Map \cup {NoMap}]
Nothing == [on |-> FALSE, create |-> FALSE, destroy |-> FALSE,
            spot |-> NoSpot, from |-> NoMap]

Phases == {"lobby", "frame", "join", "send", "receive", "map", "loadEnemies",
           "loadItems", "clients", "weapons", "shoot", "move",
           "respawnEnemies", "items", "respawnItems", "end"}

On(k) == {s \in Slots(k) : npc[k][s].on}
Active == {n \in NpcSlots : npc[n[1]][n[2]].on}
Lasting == {n \in Active : n[1] # "weapon"}
Alive(k, s) == npc[k][s].on /\ ~npc[k][s].destroy

\* srv_allocate_xxx returns NULL: there is no memory for more slots.
OutOfMemory(k) == On(k) = Slots(k)
FreeSlot(k) == Min(Slots(k) \ On(k))

\* The NPCs n after one of kind k was created in the first free slot.
Created(n, k, spot, blocked) ==
  [n EXCEPT ![k][FreeSlot(k)] =
     [on |-> TRUE, create |-> TRUE, destroy |-> blocked,
      spot |-> spot, from |-> map]]

Unchanged == UNCHANGED <<starting, players, gone, reset, games>>
-----------------------------------------------------------------------------
Init ==
  /\ pc = "lobby" /\ cur = 0 /\ starting = FALSE
  /\ players = {} /\ gone = {}
  /\ npc = [k \in Kinds |-> [s \in Slots(k) |-> Nothing]]
  /\ left = [k \in SpotKinds |-> [s \in Spots |-> -1]]
  /\ map = NoMap /\ mapFile = Default /\ newMap = NoMap /\ changeMap = 0
  /\ reset = FALSE /\ games = 0
  /\ shown = [c \in Client |-> {}]
  /\ mapOf = [c \in Client |-> NoMap]

\* SETMAP of the owner: server_load_map.
SetMap(m) ==
  /\ pc = "lobby" /\ games < MaxGames
  /\ map' = m /\ mapFile' = m
  /\ UNCHANGED <<pc, cur, npc, left, newMap, changeMap, screens>> /\ Unchanged

\* server_start_game.
StartGame(S) ==
  /\ pc = "lobby" /\ games < MaxGames /\ ~reset /\ S # {}
  /\ games' = games + 1
  /\ players' = S
  /\ mapFile' = IF map = NoMap THEN Default ELSE mapFile
  /\ map' = mapFile'
  /\ mapOf' = [c \in Client |-> IF c \in S THEN mapFile' ELSE mapOf[c]]
  /\ pc' = "loadEnemies" /\ cur' = 0 /\ starting' = TRUE
  /\ UNCHANGED <<gone, npc, left, newMap, changeMap, reset, shown>>

ResetSignal ==
  /\ Resets /\ ~reset
  /\ reset' = TRUE
  /\ UNCHANGED <<control, players, gone, npc, level, games, screens>>

Hide(S) ==
  /\ shown' = [c \in Client |-> IF c \in S THEN {} ELSE shown[c]]
  /\ mapOf' = [c \in Client |-> IF c \in S THEN NoMap ELSE mapOf[c]]

BeginFrame ==
  /\ pc = "frame" /\ ~reset
  /\ pc' = "join" /\ cur' = 0
  /\ UNCHANGED <<npc, level, screens>> /\ Unchanged

\* srv_reset_server.
ResetServer ==
  /\ pc \in {"frame", "lobby"} /\ reset
  /\ pc' = "lobby" /\ cur' = 0
  /\ players' = {} /\ changeMap' = 0 /\ reset' = FALSE
  /\ Hide(players)
  /\ UNCHANGED <<starting, gone, npc, left, map, mapFile, newMap, games>>

\* join_client tells the new player the map file, the enemies and the items.
JoinClient(c) ==
  /\ pc = "join" /\ c \notin players
  /\ pc' = "send"
  /\ players' = players \cup {c}
  /\ mapOf' = [mapOf EXCEPT ![c] = mapFile]
  /\ shown' = [shown EXCEPT ![c] = Lasting]
  /\ UNCHANGED <<cur, starting, gone, npc, level, reset, games>>

NobodyJoins ==
  /\ pc = "join" /\ pc' = "send"
  /\ UNCHANGED <<cur, npc, level, screens>> /\ Unchanged
-----------------------------------------------------------------------------
(***************************************************************************)
(* srv_send_frame.                                                         *)
(***************************************************************************)
Announced == {n \in Active : npc[n[1]][n[2]].create}
RemovedAtOnce == {n \in Active : npc[n[1]][n[2]].destroy}

Removed == {n \in Active : npc[n[1]][n[2]].destroy /\ ~npc[n[1]][n[2]].create}

\* `create' is unmarked, and what was announced and is to be destroyed freed.
Unmarked ==
  [k \in Kinds |-> [s \in Slots(k) |->
     IF <<k, s>> \in Announced THEN [npc[k][s] EXCEPT !.create = FALSE]
     ELSE IF <<k, s>> \in Removed THEN Nothing
     ELSE npc[k][s]]]

\* send_client to all players, nothing if the reset flag is set.
SendFrame ==
  /\ pc = "send" /\ pc' = "receive"
  /\ npc' = Unmarked
  /\ shown' = [c \in Client |->
       IF c \in players /\ ~reset
       THEN (shown[c] \cup Announced) \ Removed ELSE shown[c]]
  /\ UNCHANGED <<cur, level, mapOf>> /\ Unchanged

\* srv_receive_frame: the players of S go away.
Receive(S) ==
  /\ pc = "receive" /\ (reset => S = {})
  /\ pc' = "map"
  /\ gone' = S
  /\ Hide(S)
  /\ UNCHANGED <<cur, starting, players, npc, level, reset, games>>
-----------------------------------------------------------------------------
(***************************************************************************)
(* handle_map_change.                                                      *)
(***************************************************************************)
KeepMap ==
  /\ pc = "map" /\ changeMap = 0
  /\ pc' = "clients" /\ cur' = 0
  /\ UNCHANGED <<npc, level, screens>> /\ Unchanged

DestroyAllButLast ==
  [k \in Kinds |-> [s \in Slots(k) |->
     IF npc[k][s].on /\ s + 1 < Cardinality(On(k))
     THEN [npc[k][s] EXCEPT !.destroy = TRUE] ELSE npc[k][s]]]

\* change_map is 2: remove objects (and events).
DestroyAll ==
  [k \in Kinds |-> [s \in Slots(k) |->
     IF npc[k][s].on THEN [npc[k][s] EXCEPT !.destroy = TRUE] ELSE npc[k][s]]]

RemoveObjects ==
  /\ pc = "map" /\ changeMap = 2
  /\ npc' = DestroyAll
  /\ changeMap' = 1
  /\ pc' = "clients" /\ cur' = 0
  /\ UNCHANGED <<left, map, mapFile, newMap, screens>> /\ Unchanged

\* change_map is 1: server_copy_map_info, and SETMAP to the clients.
CopyMap ==
  /\ pc = "map" /\ changeMap = 1
  /\ map' = newMap
  /\ mapOf' = [c \in Client |->
       IF c \in players \ gone THEN mapFile ELSE mapOf[c]]
  /\ pc' = "loadEnemies" /\ cur' = 0
  /\ UNCHANGED <<npc, left, mapFile, newMap, changeMap, shown>> /\ Unchanged

\* create_map_enemy: nothing is created while the place is blocked.
CreateMapEnemy(s) ==
  \/ /\ ~OutOfMemory("enemy")
     /\ npc' = Created(npc, "enemy", s, FALSE)
     /\ left' = [left EXCEPT !["enemy"][s] = -1]
  \/ /\ OutOfMemory("enemy")
     /\ npc' = npc /\ left' = [left EXCEPT !["enemy"][s] = -1]

CreateItemAgain(s) ==
  ~OutOfMemory("item") /\ npc' = Created(npc, "item", s, FALSE) /\ left' = left

\* create_item.
CreateItem(s) ==
  /\ ~OutOfMemory("item")
  /\ npc' = Created(npc, "item", s, FALSE)
  /\ left' = [left EXCEPT !["item"][s] = -1]

\* convert_map_objects does not initialise respawn_left: where nothing is
\* created it has any value.
AnyWait(k, s) ==
  /\ npc' = npc
  /\ \E t \in Waits \cup {-1, 0} : left' = [left EXCEPT ![k][s] = t]

\* create_map_enemies and create_map_items, one spot.
LoadEnemy ==
  /\ pc = "loadEnemies" /\ cur < NSpots
  /\ cur' = cur + 1
  /\ CreateMapEnemy(cur) \/ AnyWait("enemy", cur)
  /\ UNCHANGED <<pc, map, mapFile, newMap, changeMap, screens>> /\ Unchanged

EnemiesLoaded ==
  /\ pc = "loadEnemies" /\ cur = NSpots
  /\ pc' = "loadItems" /\ cur' = 0
  /\ UNCHANGED <<npc, level, screens>> /\ Unchanged

LoadItem ==
  /\ pc = "loadItems" /\ cur < NSpots
  /\ cur' = cur + 1
  /\ CreateItem(cur) \/ (OutOfMemory("item") /\ AnyWait("item", cur))
  /\ UNCHANGED <<pc, map, mapFile, newMap, changeMap, screens>> /\ Unchanged

GameStarted ==
  /\ pc = "loadItems" /\ cur = NSpots /\ starting
  /\ pc' = "send" /\ cur' = 0 /\ starting' = FALSE
  /\ UNCHANGED <<players, gone, npc, level, reset, games, screens>>

MapChangedOnceMore ==
  /\ pc = "loadItems" /\ cur = NSpots /\ ~starting
  /\ pc' = "clients" /\ cur' = 0
  /\ UNCHANGED <<npc, level, screens>> /\ Unchanged

MapChanged ==
  /\ pc = "loadItems" /\ cur = NSpots /\ ~starting
  /\ pc' = "clients" /\ cur' = 0
  /\ changeMap' = 0
  /\ UNCHANGED <<npc, left, map, mapFile, newMap, screens>> /\ Unchanged
-----------------------------------------------------------------------------
(***************************************************************************)
(* The rest of srv_calc_frame.                                             *)
(***************************************************************************)
Goto(phase) == pc' = phase /\ cur' = 0

\* create_new_weapon: one that is created inside a wall is destroyed at once.
CreateWeapon ==
  /\ ~OutOfMemory("weapon") /\ ~reset
  /\ \E blocked \in BOOLEAN : npc' = Created(npc, "weapon", NoSpot, blocked)

\* calc_client: each player that is still there may shoot once.
ClientShoots ==
  /\ pc = "clients" /\ cur < Cardinality(players \ gone)
  /\ cur' = cur + 1
  /\ CreateWeapon
  /\ UNCHANGED <<pc, level, screens>> /\ Unchanged

ClientsDone ==
  /\ pc = "clients" /\ Goto("weapons")
  /\ UNCHANGED <<npc, level, screens>> /\ Unchanged

\* The enemies of S are destroyed by weapons: those of the map come back.
Kill(n, S) ==
  /\ npc' = [n EXCEPT !["enemy"] =
       [s \in Slots("enemy") |-> IF s \in S THEN [@[s] EXCEPT !.destroy = TRUE]
                        ELSE @[s]]]
  /\ \E t \in Waits :
       left' = [left EXCEPT !["enemy"] = [p \in Spots |->
         IF \E s \in S : npc["enemy"][s].spot = p THEN t ELSE @[p]]]

\* srv_missile_move: the weapon flies on, or it hits a player, a wall or
\* enemies.  Enemies that are being destroyed are hit as well.  Who created
\* the weapon is left out: one of an enemy would hit no enemies.
WeaponFlies ==
  /\ pc = "weapons" /\ cur < NSlots["weapon"]
  /\ cur' = cur + 1
  /\ UNCHANGED <<pc, npc, level, screens>> /\ Unchanged

WeaponHits ==
  /\ pc = "weapons" /\ cur < NSlots["weapon"] /\ Alive("weapon", cur)
  /\ cur' = cur + 1
  /\ \E dead \in SUBSET On("enemy") :
       Kill([npc EXCEPT !["weapon"][cur].destroy = TRUE], dead)
  /\ UNCHANGED <<pc, map, mapFile, newMap, changeMap, screens>> /\ Unchanged

\* While the map is changing that is all.
WeaponsDone ==
  /\ pc = "weapons" /\ cur = NSlots["weapon"]
  /\ Goto(IF changeMap = 0 THEN "shoot" ELSE "end")
  /\ UNCHANGED <<npc, level, screens>> /\ Unchanged

\* create_enemy_weapon, for enemies that are being destroyed as well.
EnemyShoots ==
  /\ pc = "shoot" /\ cur < NSlots["enemy"] /\ cur \in On("enemy")
  /\ pc' = "move"
  /\ CreateWeapon
  /\ UNCHANGED <<cur, level, screens>> /\ Unchanged

EnemyHoldsFire ==
  /\ pc = "shoot" /\ cur < NSlots["enemy"]
  /\ pc' = "move"
  /\ UNCHANGED <<cur, npc, level, screens>> /\ Unchanged

\* e->move: most enemies just move; some leave an item behind when they are
\* destroyed (walker.c and others), and one has offspring (meatball.c).
EnemyMoves ==
  /\ pc = "move" /\ pc' = "shoot" /\ cur' = cur + 1
  /\ \/ npc' = npc
     \/ /\ cur \in On("enemy") /\ npc["enemy"][cur].destroy
        /\ ~OutOfMemory("item")
        /\ npc' = Created(npc, "item", NoSpot, FALSE)
     \/ /\ cur \in On("enemy") /\ ~OutOfMemory("enemy")
        /\ npc' = Created(npc, "enemy", NoSpot, FALSE)
  /\ UNCHANGED <<level, screens>> /\ Unchanged

\* e->move: an enemy dies of itself (slug.c), or a block that is pushed
\* destroys others (pushblock.c).  Nothing is entered in the map's enemies.
EnemyDestroys ==
  /\ pc = "move" /\ cur \in On("enemy")
  /\ pc' = "shoot" /\ cur' = cur + 1
  /\ \E s \in On("enemy") : npc' = [npc EXCEPT !["enemy"][s].destroy = TRUE]
  /\ UNCHANGED <<level, screens>> /\ Unchanged

EnemiesDone ==
  /\ pc = "shoot" /\ cur = NSlots["enemy"] /\ Goto("respawnEnemies")
  /\ UNCHANGED <<npc, level, screens>> /\ Unchanged

\* Waiting for an NPC to come back.
Waiting(k) == cur < NSpots /\ left[k][cur] >= 0

CountDown(k) ==
  /\ left[k][cur] > 0
  /\ left' = [left EXCEPT ![k][cur] = @ - 1]
  /\ npc' = npc

RespawnEnemy ==
  /\ pc = "respawnEnemies" /\ Waiting("enemy")
  /\ cur' = cur + 1
  /\ \/ CountDown("enemy")
     \/ left["enemy"][cur] = 0 /\ CreateMapEnemy(cur)
     \/ left["enemy"][cur] = 0 /\ UNCHANGED <<npc, left>>   \* blocked
  /\ UNCHANGED <<pc, map, mapFile, newMap, changeMap, screens>> /\ Unchanged

NotWaiting ==
  \/ pc = "respawnEnemies" /\ cur < NSpots /\ ~Waiting("enemy")
  \/ pc = "respawnItems" /\ cur < NSpots /\ ~Waiting("item")

KeepSpot ==
  /\ NotWaiting
  /\ cur' = cur + 1
  /\ UNCHANGED <<pc, npc, level, screens>> /\ Unchanged

EnemiesRespawned ==
  /\ pc = "respawnEnemies" /\ cur = NSpots /\ Goto("items")
  /\ UNCHANGED <<npc, level, screens>> /\ Unchanged

IsTeleporter(s) == <<npc["item"][s].from, npc["item"][s].spot>> \in Teleporter

\* calc_item: a player takes the item; one that is of the map comes back.
TakeItem ==
  /\ pc = "items" /\ cur < NSlots["item"] /\ Alive("item", cur)
  /\ ~IsTeleporter(cur)
  /\ cur' = cur + 1
  /\ npc' = [npc EXCEPT !["item"][cur].destroy = TRUE]
  /\ LET p == npc["item"][cur].spot
     IN \E t \in Waits :
          left' = [left EXCEPT !["item"] =
                     [q \in Spots |-> IF q = p THEN t ELSE @[q]]]
  /\ UNCHANGED <<pc, map, mapFile, newMap, changeMap, screens>> /\ Unchanged

\* teleport.c, to another map: the file is read here, and used later.
Teleport(m) ==
  /\ pc = "items" /\ cur < NSlots["item"] /\ Alive("item", cur)
  /\ IsTeleporter(cur)
  /\ cur' = cur + 1
  /\ newMap' = m /\ mapFile' = m /\ changeMap' = 2
  /\ UNCHANGED <<pc, npc, left, map, screens>> /\ Unchanged

LeaveItem ==
  /\ pc = "items" /\ cur < NSlots["item"]
  /\ cur' = cur + 1
  /\ UNCHANGED <<pc, npc, level, screens>> /\ Unchanged

ItemsDone ==
  /\ pc = "items" /\ cur = NSlots["item"] /\ Goto("respawnItems")
  /\ UNCHANGED <<npc, level, screens>> /\ Unchanged

\* Mutant of RespawnItem: the time goes on when the item was not created.
RespawnItemOnce ==
  /\ pc = "respawnItems" /\ Waiting("item")
  /\ cur' = cur + 1
  /\ \/ CountDown("item")
     \/ left["item"][cur] = 0 /\ CreateItem(cur)
     \/ /\ left["item"][cur] = 0 /\ OutOfMemory("item")
        /\ npc' = npc /\ left' = [left EXCEPT !["item"][cur] = @ - 30]
  /\ UNCHANGED <<pc, map, mapFile, newMap, changeMap, screens>> /\ Unchanged

\* Without memory for an item it is tried again in the next frame.
RespawnItem ==
  /\ pc = "respawnItems" /\ Waiting("item")
  /\ cur' = cur + 1
  /\ \/ CountDown("item")
     \/ left["item"][cur] = 0 /\ CreateItem(cur)
     \/ left["item"][cur] = 0 /\ OutOfMemory("item") /\ UNCHANGED <<npc, left>>
  /\ UNCHANGED <<pc, map, mapFile, newMap, changeMap, screens>> /\ Unchanged

ItemsRespawned ==
  /\ pc = "respawnItems" /\ cur = NSpots /\ Goto("end")
  /\ UNCHANGED <<npc, level, screens>> /\ Unchanged
-----------------------------------------------------------------------------
EndFrameWithLost ==
  /\ pc = "end" /\ players # gone
  /\ Goto("frame")
  /\ players' = players \ gone /\ gone' = gone
  /\ UNCHANGED <<starting, npc, level, reset, games, screens>>

\* remove_disconnected_clients.
EndFrame ==
  /\ pc = "end" /\ players # gone
  /\ Goto("frame")
  /\ players' = players \ gone /\ gone' = {}
  /\ UNCHANGED <<starting, npc, level, reset, games, screens>>

\* server_end_game: all NPCs are deactivated; change_map is left alone.
EndGame ==
  /\ pc = "end" /\ players = gone
  /\ Goto("lobby")
  /\ players' = {} /\ gone' = {}
  /\ npc' = [k \in Kinds |-> [s \in Slots(k) |-> Nothing]]
  /\ map' = NoMap
  /\ UNCHANGED <<starting, left, mapFile, newMap, changeMap, reset, games,
                 screens>>

Environment ==
  \/ ResetSignal
  \/ \E m \in Map : SetMap(m)
  \/ \E S \in SUBSET Client : StartGame(S)

Server ==
  \/ BeginFrame \/ ResetServer \/ NobodyJoins \/ SendFrame
  \/ \E c \in Client : JoinClient(c)
  \/ \E S \in SUBSET players : Receive(S)
  \/ KeepMap \/ RemoveObjects \/ CopyMap
  \/ LoadEnemy \/ EnemiesLoaded \/ LoadItem \/ GameStarted \/ MapChanged
  \/ ClientShoots \/ ClientsDone \/ WeaponFlies \/ WeaponHits \/ WeaponsDone
  \/ EnemyShoots \/ EnemyHoldsFire \/ EnemyMoves \/ EnemyDestroys
  \/ EnemiesDone \/ RespawnEnemy \/ KeepSpot \/ EnemiesRespawned
  \/ TakeItem \/ LeaveItem \/ ItemsDone \/ RespawnItem \/ ItemsRespawned
  \/ \E m \in Map : Teleport(m)
  \/ EndFrame \/ EndGame

Next == Environment \/ Server

Spec == Init /\ [][Next]_vars

\* The server is a running process.
FairSpec == Spec /\ WF_vars(Server)
-----------------------------------------------------------------------------
(***************************************************************************)
(* Properties.                                                             *)
(***************************************************************************)
\* Every variable has its type (server.h, weapon.h, enemy.h, item.h).
TypeOK ==
  /\ pc \in Phases /\ cur \in Nat /\ starting \in BOOLEAN
  /\ players \in SUBSET Client /\ gone \in SUBSET players
  /\ DOMAIN npc = Kinds /\ \A k \in Kinds : npc[k] \in [Slots(k) -> Npc]
  /\ left \in [SpotKinds -> [Spots -> Int]]
  /\ map \in Map \cup {NoMap} /\ mapFile \in Map /\ newMap \in Map \cup {NoMap}
  /\ changeMap \in 0..2 /\ reset \in BOOLEAN /\ games \in 0..MaxGames
  /\ shown \in [Client -> SUBSET NpcSlots]
  /\ mapOf \in [Client -> Map \cup {NoMap}]

\* After a frame was sent every player shows exactly the enemies and items
\* the server has, and no weapon it does not have: whenever the player came,
\* and although slots are used again, no NPC is invisible and none stays on
\* the screen for ever.
ScreensShowNpcs ==
  (pc = "receive" /\ ~reset) =>
    \A c \in players :
      /\ shown[c] \subseteq Active
      /\ Lasting \subseteq shown[c]

\* A spot whose NPC is to come back has none: killing or taking it twice, or
\* in the frame it is created, does not make two.  This and OldNpcsGone hold
\* for the first game of a server: a change of the map that the end of a game
\* interrupts (PlayersOnServerMap) replaces the map of the next game without
\* the frame in which the clients and the slots are cleared.
OneNpcPerSpot ==
  pc \notin {"loadEnemies", "loadItems", "lobby"} =>
    \A k \in SpotKinds, p \in Spots :
      LET there == {s \in Slots(k) : Alive(k, s) /\ npc[k][s].spot = p}
      IN Cardinality(there) <= 1 /\ (left[k][p] >= 0 => there = {})

\* The map_id of an enemy or item is an index into the map_enemy or map_item
\* of the map in memory: those of an old map are gone before a weapon or a
\* player reaches them.
MapIdsOfThisMap ==
  pc \in {"weapons", "shoot", "move", "items"} =>
    \A k \in SpotKinds : \A s \in On(k) :
      npc[k][s].spot # NoSpot => npc[k][s].from = map

\* When the new map is used no enemy or item of the old one is left (in the
\* first game of a server).
OldNpcsGone ==
  (pc = "receive" /\ changeMap = 0) =>
    \A k \in SpotKinds : \A s \in On(k) : npc[k][s].from = map

\* An item that was taken and has a respawn time comes back, however often
\* memory is short when its time is over; unless it is short at each further
\* attempt, or the game ends.
ItemsComeBack ==
  \A p \in Spots :
    left["item"][p] >= 0 ~>
      \/ left["item"][p] = -1 \/ pc = "lobby"
      \/ []((pc = "respawnItems" /\ cur = p) => OutOfMemory("item"))

\* The change of the map that a teleporter asks for is carried out.
MapChangeEnds == changeMap # 0 ~> (changeMap = 0 \/ pc = "lobby")

\* connect.c:599 "Terminate the game: [...] make some server cleanup (map,
\* NPCs, libraries, etc.)": a game is played on one map, the one the players
\* were told, until a teleporter of this game is used.
PlayersOnServerMap ==
  (pc = "receive" /\ ~reset /\ changeMap = 0) => \A c \in players : mapOf[c] = map

\* server.h:120 "-1 if active": an enemy of the map that is not active has a
\* time after which it comes back.
MinusOneMeansActive ==
  pc = "receive" =>
    \A p \in Spots : left["enemy"][p] = -1 =>
      \E s \in On("enemy") : npc["enemy"][s].spot = p
=============================================================================
