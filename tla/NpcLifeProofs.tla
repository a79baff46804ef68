---------------------------- MODULE NpcLifeProofs ----------------------------
(***************************************************************************)
(* What the players show is what there is: for any number of players, of   *)
(* slots and of spots, every enemy and item of the server is on the screen *)
(* of every player after a frame was sent, and nothing else is.            *)
(*                                                                         *)
(* Between two frames an NPC may be created, marked for removal or         *)
(* neither; what a step may never do is to clear `create' of one that no   *)
(* screen shows, or `active' of one that some screen shows.  Only          *)
(* srv_send_frame does so, and tells the players.                          *)
(***************************************************************************)
EXTENDS NpcLife, FiniteSetTheorems, TLAPS

\* The array of NPCs has its type.
NpcType(n) == DOMAIN n = Kinds /\ \A k \in Kinds : n[k] \in [Slots(k) -> Npc]

\* Between two frames: an NPC of m is new, or it is as active and as announced
\* as it was in n.
Later(n, m) ==
  \A k \in Kinds : \A s \in Slots(k) :
    \/ m[k][s].on /\ m[k][s].create
    \/ m[k][s].on = n[k][s].on /\ m[k][s].create = n[k][s].create

\* The phases of srv_calc_frame and of loading a map.
Calc == Phases \ {"lobby", "frame", "join", "send", "receive"}

\* Players who are there show all that was announced, and nothing that is gone.
Complete ==
  ~reset => \A c \in players \ gone :
    /\ \A n \in shown[c] : npc[n[1]][n[2]].on
    /\ \A n \in NpcSlots :
         npc[n[1]][n[2]].on /\ ~npc[n[1]][n[2]].create /\ n[1] # "weapon" => n \in shown[c]

\* The order of a frame and of a game.
Order ==
  /\ pc = "lobby" => players = {}
  /\ pc \in {"lobby", "frame", "join", "send", "receive"} \/ starting => gone = {}
  /\ starting => pc \in {"loadEnemies", "loadItems"}
  /\ pc # "lobby" => games > 0
  /\ reset => Resets
  /\ \A c \in Client \ (players \ gone) : shown[c] = {}
  /\ pc = "lobby" /\ games < MaxGames => \A n \in NpcSlots : ~npc[n[1]][n[2]].on
  /\ pc = "receive" => \A n \in NpcSlots : npc[n[1]][n[2]].on => ~npc[n[1]][n[2]].create

IInv == TypeOK /\ Complete /\ Order

-----------------------------------------------------------------------------
LEMMA SlotOf ==
  /\ \A k \in Kinds : \A s \in Slots(k) : <<k, s>> \in NpcSlots
  /\ \A n \in NpcSlots : n[1] \in Kinds /\ n[2] \in Slots(n[1]) /\ n = <<n[1], n[2]>>
BY DEF NpcSlots

LEMMA LaterSame == \A n : Later(n, n)
BY DEF Later

\* srv_allocate_xxx: whatever slot is used, the NPC in it is new.
LEMMA CreatedLater ==
  ASSUME NEW n, NpcType(n), NEW k \in Kinds, NEW spot \in Spots \cup {NoSpot},
         NEW blocked \in BOOLEAN, map \in Map \cup {NoMap}
  PROVE  NpcType(Created(n, k, spot, blocked)) /\ Later(n, Created(n, k, spot, blocked))
<1> DEFINE f == FreeSlot(k)
           new == [on |-> TRUE, create |-> TRUE, destroy |-> blocked, spot |-> spot, from |-> map]
           m == [n EXCEPT ![k][f] = new]
<1>1. Created(n, k, spot, blocked) = m
  BY DEF Created
<1>2. new \in Npc
  BY DEF Npc
<1>3. new.on /\ new.create
  OBVIOUS
<1> HIDE DEF f, new
<1>4. NpcType(m)
  BY <1>2 DEF NpcType
<1>5. Later(n, m)
  BY <1>3 DEF Later, NpcType
<1> QED
  BY <1>1, <1>4, <1>5

\* Marking NPCs for removal changes nothing else.
LEMMA MarkedLater ==
  ASSUME NEW n, NpcType(n), NEW k \in Kinds, NEW s \in Slots(k)
  PROVE  LET m == [n EXCEPT ![k][s].destroy = TRUE]
         IN  NpcType(m) /\ Later(n, m)
<1> DEFINE m == [n EXCEPT ![k][s].destroy = TRUE]
<1>1. n[k][s] \in Npc
  BY DEF NpcType
<1>2. [n[k][s] EXCEPT !.destroy = TRUE] \in Npc
  BY <1>1 DEF Npc
<1>3. m = [n EXCEPT ![k][s] = [n[k][s] EXCEPT !.destroy = TRUE]]
  OBVIOUS
<1>4. NpcType(m)
  BY <1>2, <1>3 DEF NpcType
<1>5. Later(n, m)
  BY <1>1, <1>3 DEF Later, NpcType, Npc
<1> QED
  BY <1>4, <1>5
LEMMA LaterTrans ==
  ASSUME NEW n, NEW m, NEW l, Later(n, m), Later(m, l)
  PROVE  Later(n, l)
BY DEF Later

-----------------------------------------------------------------------------
\* What all steps of the calculation and of loading a map have in common.
CalcStep ==
  /\ pc \in Calc /\ pc' \in Calc /\ cur' \in Nat
  /\ NpcType(npc') /\ Later(npc, npc')
  /\ left' \in [SpotKinds -> [Spots -> Int]]
  /\ map' \in Map \cup {NoMap} /\ mapFile' \in Map /\ newMap' \in Map \cup {NoMap}
  /\ changeMap' \in 0..2
  /\ mapOf' \in [Client -> Map \cup {NoMap}]
  /\ UNCHANGED <<players, gone, reset, games, shown, starting>>
  /\ starting => pc' \in {"loadEnemies", "loadItems"}

LEMMA CalcStepKeeps == IInv /\ CalcStep => IInv'
<1> SUFFICES ASSUME IInv, CalcStep PROVE IInv'
  OBVIOUS
<1>1. TypeOK'
  BY DEF CalcStep, IInv, TypeOK, NpcType, Calc
<1>2. Complete'
  <2> SUFFICES ASSUME ~reset, NEW c \in players \ gone
               PROVE  /\ \A n \in shown[c] : npc'[n[1]][n[2]].on
                      /\ \A n \in NpcSlots :
                           npc'[n[1]][n[2]].on /\ ~npc'[n[1]][n[2]].create /\ n[1] # "weapon"
                             => n \in shown[c]
    BY DEF CalcStep, Complete
  <2>1. shown[c] \subseteq NpcSlots
    BY DEF IInv, TypeOK
  <2>2. ASSUME NEW n \in NpcSlots
        PROVE  \/ npc'[n[1]][n[2]].on /\ npc'[n[1]][n[2]].create
               \/ /\ npc'[n[1]][n[2]].on = npc[n[1]][n[2]].on
                  /\ npc'[n[1]][n[2]].create = npc[n[1]][n[2]].create
    BY SlotOf DEF CalcStep, Later
  <2>3. /\ \A n \in shown[c] : npc[n[1]][n[2]].on
        /\ \A n \in NpcSlots :
             npc[n[1]][n[2]].on /\ ~npc[n[1]][n[2]].create /\ n[1] # "weapon" => n \in shown[c]
    BY DEF IInv, Complete
  <2> QED
    BY <2>1, <2>2, <2>3
<1>3. Order'
  BY DEF CalcStep, IInv, Order, Calc
<1> QED
  BY <1>1, <1>2, <1>3 DEF IInv

\* Those that leave NPCs and the map alone.
LEMMA QuietStep ==
  ASSUME IInv, pc \in Calc, pc' \in Calc, cur' \in Nat,
         UNCHANGED <<npc, level, screens, starting, players, gone, reset, games>>,
         starting => pc' \in {"loadEnemies", "loadItems"}
  PROVE  IInv'
<1>1. CalcStep
  BY LaterSame DEF CalcStep, IInv, TypeOK, NpcType, level, screens
<1> QED
  BY <1>1, CalcStepKeeps

\* Those that only move from one loop to the next.
LEMMA LoopsKeep ==
  ASSUME IInv,
         \/ KeepMap \/ EnemiesLoaded \/ ClientsDone \/ WeaponFlies \/ WeaponsDone
         \/ EnemyHoldsFire \/ EnemiesDone \/ KeepSpot \/ EnemiesRespawned
         \/ LeaveItem \/ ItemsDone \/ ItemsRespawned
  PROVE  IInv'
<1>0. cur \in Nat
  BY DEF IInv, TypeOK
<1>1. /\ pc \in Calc /\ pc' \in Calc /\ cur' \in Nat
      /\ UNCHANGED <<npc, level, screens, starting, players, gone, reset, games>>
  BY <1>0 DEF KeepMap, EnemiesLoaded, ClientsDone, WeaponFlies, WeaponsDone, EnemyHoldsFire,
     EnemiesDone, KeepSpot, NotWaiting, EnemiesRespawned, LeaveItem, ItemsDone, ItemsRespawned,
     Goto, Unchanged, Calc, Phases
<1>2. starting => pc' \in {"loadEnemies", "loadItems"}
  BY DEF IInv, Order, KeepMap, EnemiesLoaded, ClientsDone, WeaponFlies, WeaponsDone,
     EnemyHoldsFire, EnemiesDone, KeepSpot, NotWaiting, EnemiesRespawned, LeaveItem, ItemsDone,
     ItemsRespawned, Goto, Unchanged
<1> QED
  BY <1>1, <1>2, QuietStep

\* handle_map_change.
LEMMA MapChangeKeeps ==
  ASSUME IInv, RemoveObjects \/ CopyMap \/ MapChanged \/ \E m \in Map : Teleport(m)
  PROVE  IInv'
<1>0. cur \in Nat /\ NpcType(npc)
  BY DEF IInv, TypeOK, NpcType
<1>1. CASE RemoveObjects
  <2>1. npc' = DestroyAll
    BY <1>1 DEF RemoveObjects
  <2>2. \A k \in Kinds : \A s \in Slots(k) : npc[k][s] \in Npc
    BY <1>0 DEF NpcType
  <2>3. \A k \in Kinds : \A s \in Slots(k) :
          /\ npc'[k][s] \in Npc
          /\ npc'[k][s].on = npc[k][s].on /\ npc'[k][s].create = npc[k][s].create
    BY <2>1, <2>2 DEF DestroyAll, Npc
  <2>4. NpcType(npc') /\ Later(npc, npc')
    BY <2>1, <2>3 DEF NpcType, Later, DestroyAll
  <2>5. CalcStep
    BY <1>1, <2>4 DEF RemoveObjects, Unchanged, CalcStep, IInv, TypeOK, Order, Calc, Phases, screens
  <2> QED
    BY <2>5, CalcStepKeeps
<1>2. CASE CopyMap
  <2>1. CalcStep
    BY <1>0, <1>2, LaterSame DEF CopyMap, Unchanged, CalcStep, IInv, TypeOK, Order, Calc, Phases
  <2> QED
    BY <2>1, CalcStepKeeps
<1>3. CASE MapChanged
  <2>1. CalcStep
    BY <1>0, <1>3, LaterSame DEF MapChanged, Unchanged, CalcStep, IInv, TypeOK, Order, Calc, Phases, screens
  <2> QED
    BY <2>1, CalcStepKeeps
<1>4. CASE \E m \in Map : Teleport(m)
  <2>1. CalcStep
    BY <1>0, <1>4, LaterSame DEF Teleport, Unchanged, CalcStep, IInv, TypeOK, Order, Calc, Phases, screens
  <2> QED
    BY <2>1, CalcStepKeeps
<1> QED
  BY <1>1, <1>2, <1>3, <1>4
\* create_map_enemy, create_item and what a spot that stays empty is left with.
LEMMA SpotStep ==
  ASSUME IInv, NEW s \in Spots,
         \/ CreateMapEnemy(s) \/ CreateItem(s) \/ AnyWait("enemy", s) \/ AnyWait("item", s)
  PROVE  /\ NpcType(npc') /\ Later(npc, npc')
         /\ left' \in [SpotKinds -> [Spots -> Int]]
<1>1. NpcType(npc) /\ Later(npc, npc) /\ map \in Map \cup {NoMap} /\ left \in [SpotKinds -> [Spots -> Int]]
  BY LaterSame DEF IInv, TypeOK, NpcType
<1>2. "enemy" \in Kinds /\ "item" \in Kinds /\ s \in Spots \cup {NoSpot} /\ Waits \subseteq Int
  BY NpcLifeAssumption DEF Kinds
<1>3. NpcType(npc') /\ Later(npc, npc')
  <2>1. \/ npc' = npc
        \/ \E k \in Kinds : npc' = Created(npc, k, s, FALSE)
    BY <1>2 DEF CreateMapEnemy, CreateItem, AnyWait
  <2>2. ASSUME NEW k \in Kinds
        PROVE  NpcType(Created(npc, k, s, FALSE)) /\ Later(npc, Created(npc, k, s, FALSE))
    BY <1>1, <1>2, CreatedLater
  <2> QED
    BY <1>1, <2>1, <2>2
<1>4. ASSUME NEW k \in SpotKinds, NEW v \in Int, left' = [left EXCEPT ![k][s] = v]
      PROVE  left' \in [SpotKinds -> [Spots -> Int]]
  BY <1>1, <1>4
<1>5. "enemy" \in SpotKinds /\ "item" \in SpotKinds /\ -1 \in Int /\ Waits \cup {-1, 0} \subseteq Int
  BY <1>2 DEF SpotKinds
<1>6. \E k \in SpotKinds, v \in Int : left' = [left EXCEPT ![k][s] = v] \/ left' = left
  BY <1>5 DEF CreateMapEnemy, CreateItem, AnyWait
<1> QED
  BY <1>1, <1>3, <1>4, <1>6

\* Spots are filled when a map is loaded, and when their time is over.
LEMMA SpotsKeep ==
  ASSUME IInv, LoadEnemy \/ LoadItem \/ RespawnEnemy \/ RespawnItem
  PROVE  IInv'
<1>1. cur \in Nat /\ (cur < NSpots => cur \in Spots)
  BY NpcLifeAssumption DEF IInv, TypeOK, Spots
<1>2. NpcType(npc) /\ Later(npc, npc) /\ left \in [SpotKinds -> [Spots -> Int]]
  BY LaterSame DEF IInv, TypeOK, NpcType
<1>3. cur \in Spots
  BY <1>1 DEF LoadEnemy, LoadItem, RespawnEnemy, RespawnItem, Waiting
<1>4. \/ CreateMapEnemy(cur) \/ CreateItem(cur) \/ AnyWait("enemy", cur) \/ AnyWait("item", cur)
      \/ CountDown("enemy") \/ CountDown("item") \/ UNCHANGED <<npc, left>>
  BY DEF LoadEnemy, LoadItem, RespawnEnemy, RespawnItem
<1>5. ASSUME NEW k \in SpotKinds, CountDown(k)
      PROVE  npc' = npc /\ left' \in [SpotKinds -> [Spots -> Int]]
  <2>1. left[k][cur] - 1 \in Int
    BY <1>2, <1>3
  <2> QED
    BY <1>2, <1>3, <1>5, <2>1 DEF CountDown
<1>6. "enemy" \in SpotKinds /\ "item" \in SpotKinds
  BY DEF SpotKinds
<1>7. NpcType(npc') /\ Later(npc, npc') /\ left' \in [SpotKinds -> [Spots -> Int]]
  BY <1>2, <1>3, <1>4, <1>5, <1>6, SpotStep
<1>8. /\ pc \in Calc /\ pc' = pc /\ cur' \in Nat
      /\ UNCHANGED <<map, mapFile, newMap, changeMap, screens>> /\ Unchanged
  BY <1>1 DEF LoadEnemy, LoadItem, RespawnEnemy, RespawnItem, Calc, Phases
<1>9. CalcStep
  BY <1>7, <1>8 DEF CalcStep, IInv, TypeOK, Order, Unchanged, screens
<1> QED
  BY <1>9, CalcStepKeeps

\* Players and enemies shoot; enemies move, leave something behind or destroy.
LEMMA ShotsKeep ==
  ASSUME IInv, ClientShoots \/ EnemyShoots \/ EnemyMoves \/ EnemyDestroys
  PROVE  IInv'
<1>1. NpcType(npc) /\ Later(npc, npc) /\ map \in Map \cup {NoMap} /\ cur \in Nat
  BY LaterSame DEF IInv, TypeOK, NpcType
<1>2. /\ "weapon" \in Kinds /\ "enemy" \in Kinds /\ "item" \in Kinds
      /\ NoSpot \in Spots \cup {NoSpot} /\ On("enemy") \subseteq Slots("enemy")
  BY DEF Kinds, On
<1>3. NpcType(npc') /\ Later(npc, npc')
  <2>1. CASE ClientShoots \/ EnemyShoots
    BY <1>1, <1>2, <2>1, CreatedLater DEF ClientShoots, EnemyShoots, CreateWeapon
  <2>2. CASE EnemyMoves
    BY <1>1, <1>2, <2>2, CreatedLater DEF EnemyMoves
  <2>3. CASE EnemyDestroys
    <3>1. PICK s \in On("enemy") : npc' = [npc EXCEPT !["enemy"][s].destroy = TRUE]
      BY <2>3 DEF EnemyDestroys
    <3> QED
      BY <1>1, <1>2, <3>1, MarkedLater
  <2> QED
    BY <2>1, <2>2, <2>3
<1>4. /\ pc \in Calc /\ pc' \in Calc /\ pc \notin {"loadEnemies", "loadItems"}
      /\ cur' \in Nat /\ UNCHANGED <<level, screens>> /\ Unchanged
  <2>1. CASE ClientShoots
    BY <1>1, <2>1 DEF ClientShoots, Calc, Phases
  <2>2. CASE EnemyShoots
    BY <1>1, <2>2 DEF EnemyShoots, Calc, Phases
  <2>3. CASE EnemyMoves
    <3>1. pc = "move" /\ pc' = "shoot" /\ cur' = cur + 1 /\ UNCHANGED <<level, screens>> /\ Unchanged
      BY <2>3 DEF EnemyMoves
    <3> QED
      BY <1>1, <3>1 DEF Calc, Phases
  <2>4. CASE EnemyDestroys
    BY <1>1, <2>4 DEF EnemyDestroys, Calc, Phases
  <2> QED
    BY <2>1, <2>2, <2>3, <2>4
<1>5. ~starting
  BY <1>4 DEF IInv, Order
<1>6. /\ left' = left /\ map' = map /\ mapFile' = mapFile /\ newMap' = newMap
      /\ changeMap' = changeMap /\ shown' = shown /\ mapOf' = mapOf
      /\ UNCHANGED <<players, gone, reset, games, shown, starting>>
  BY <1>4 DEF level, screens, Unchanged
<1>7. CalcStep
  BY <1>3, <1>4, <1>5, <1>6 DEF CalcStep, IInv, TypeOK
<1> QED
  BY <1>7, CalcStepKeeps

\* A weapon hits: it and its victims are marked for removal.
LEMMA WeaponHitsKeeps == IInv /\ WeaponHits => IInv'
<1> SUFFICES ASSUME IInv, WeaponHits PROVE IInv'
  OBVIOUS
<1>1. NpcType(npc) /\ cur \in Nat /\ left \in [SpotKinds -> [Spots -> Int]]
  BY DEF IInv, TypeOK, NpcType
<1>2. cur \in Slots("weapon")
  BY <1>1, NpcLifeAssumption DEF WeaponHits, Slots
<1> DEFINE n == [npc EXCEPT !["weapon"][cur].destroy = TRUE]
<1>3. NpcType(n) /\ Later(npc, n)
  BY <1>1, <1>2, MarkedLater DEF Kinds
<1>4. PICK dead \in SUBSET On("enemy") : Kill(n, dead)
  BY DEF WeaponHits
<1> HIDE DEF n
<1>5. NpcType(npc') /\ Later(n, npc')
  <2> DEFINE e == [s \in Slots("enemy") |-> IF s \in dead THEN [n["enemy"][s] EXCEPT !.destroy = TRUE]
                                           ELSE n["enemy"][s]]
  <2>1. npc' = [n EXCEPT !["enemy"] = e]
    BY <1>4 DEF Kill
  <2>2. \A s \in Slots("enemy") : n["enemy"][s] \in Npc
    BY <1>3 DEF NpcType, Kinds
  <2>3. \A s \in Slots("enemy") :
          /\ e[s] \in Npc
          /\ e[s].on = n["enemy"][s].on /\ e[s].create = n["enemy"][s].create
    BY <2>2 DEF Npc
  <2>4. e \in [Slots("enemy") -> Npc]
    BY <2>3
  <2> HIDE DEF e
  <2>5. NpcType(npc')
    BY <1>3, <2>1, <2>4 DEF NpcType
  <2>6. Later(n, npc')
    BY <1>3, <2>1, <2>3 DEF Later, NpcType
  <2> QED
    BY <2>5, <2>6
<1>6. left' \in [SpotKinds -> [Spots -> Int]]
  <2>1. PICK t \in Waits :
          left' = [left EXCEPT !["enemy"] = [p \in Spots |->
                     IF \E s \in dead : npc["enemy"][s].spot = p THEN t ELSE @[p]]]
    BY <1>4 DEF Kill
  <2>2. t \in Int
    BY NpcLifeAssumption
  <2> QED
    BY <1>1, <2>1, <2>2 DEF SpotKinds
<1>7. CalcStep
  BY <1>1, <1>3, <1>5, <1>6, LaterTrans
     DEF WeaponHits, CalcStep, IInv, TypeOK, Order, Unchanged, screens, Calc, Phases
<1> QED
  BY <1>7, CalcStepKeeps

\* A player takes an item: it is marked for removal.
LEMMA TakeItemKeeps == IInv /\ TakeItem => IInv'
<1> SUFFICES ASSUME IInv, TakeItem PROVE IInv'
  OBVIOUS
<1>1. NpcType(npc) /\ cur \in Nat /\ left \in [SpotKinds -> [Spots -> Int]]
  BY DEF IInv, TypeOK, NpcType
<1>2. cur \in Slots("item") /\ "item" \in Kinds
  BY <1>1, NpcLifeAssumption DEF TakeItem, Slots, Kinds
<1>3. NpcType(npc') /\ Later(npc, npc')
  BY <1>1, <1>2, MarkedLater DEF TakeItem
<1>4. left' \in [SpotKinds -> [Spots -> Int]]
  <2> DEFINE i == npc["item"][cur].spot
  <2>1. PICK t \in Waits :
          left' = [left EXCEPT !["item"] = [q \in Spots |-> IF q = i THEN t ELSE @[q]]]
    BY DEF TakeItem
  <2>2. t \in Int
    BY NpcLifeAssumption
  <2> HIDE DEF i
  <2> QED
    BY <1>1, <2>1, <2>2 DEF SpotKinds
<1>5. CalcStep
  BY <1>1, <1>3, <1>4 DEF TakeItem, CalcStep, IInv, TypeOK, Order, Unchanged, screens, Calc, Phases
<1> QED
  BY <1>5, CalcStepKeeps
-----------------------------------------------------------------------------
\* The start, the lobby, resets, and the frames: here screens are told.
LEMMA InitIInv == Init => IInv
<1> SUFFICES ASSUME Init PROVE IInv
  OBVIOUS
<1>1. Nothing \in Npc
  BY DEF Nothing, Npc
<1>2. NpcType(npc)
  BY <1>1 DEF Init, NpcType
<1>3. \A n \in NpcSlots : ~npc[n[1]][n[2]].on
  BY SlotOf DEF Init, Nothing
<1>4. TypeOK
  <2>0. starting \in BOOLEAN /\ reset \in BOOLEAN
    BY Zenon DEF Init
  <2>1. /\ pc \in Phases /\ cur \in Nat /\ players = {} /\ gone = {}
        /\ left \in [SpotKinds -> [Spots -> Int]]
        /\ map \in Map \cup {NoMap} /\ mapFile \in Map /\ newMap \in Map \cup {NoMap}
    BY NpcLifeAssumption DEF Init, Phases
  <2>2. /\ changeMap \in 0..2 /\ games \in 0..MaxGames
        /\ shown \in [Client -> SUBSET NpcSlots] /\ mapOf \in [Client -> Map \cup {NoMap}]
    BY NpcLifeAssumption DEF Init
  <2> QED
    BY <1>2, <2>0, <2>1, <2>2 DEF TypeOK, NpcType
<1> QED
  BY <1>3, <1>4 DEF Init, IInv, Complete, Order

LEMMA LobbyKeeps ==
  ASSUME IInv, ResetSignal \/ \E m \in Map : SetMap(m)
  PROVE  IInv'
<1>1. CASE ResetSignal
  <2>1. TypeOK'
    BY <1>1 DEF ResetSignal, IInv, TypeOK, control, level, screens
  <2>2. Complete'
    BY <1>1 DEF ResetSignal, Complete
  <2>3. Order'
    BY <1>1 DEF ResetSignal, IInv, Order, control, screens
  <2> QED
    BY <2>1, <2>2, <2>3 DEF IInv
<1>2. CASE \E m \in Map : SetMap(m)
  <2>1. TypeOK'
    BY <1>2 DEF SetMap, IInv, TypeOK, Unchanged, screens
  <2>2. Complete'
    BY <1>2 DEF SetMap, IInv, Complete, Unchanged, screens
  <2>3. Order'
    BY <1>2 DEF SetMap, IInv, Order, Unchanged, screens
  <2> QED
    BY <2>1, <2>2, <2>3 DEF IInv
<1> QED
  BY <1>1, <1>2

\* A game starts without NPCs, so that its players show all there are.
LEMMA StartGameKeeps ==
  ASSUME IInv, NEW S \in SUBSET Client, StartGame(S)
  PROVE  IInv'
<1>1. TypeOK'
  BY NpcLifeAssumption DEF StartGame, IInv, TypeOK, Order, Phases
<1>2. Complete'
  <2>1. \A n \in NpcSlots : ~npc[n[1]][n[2]].on
    BY DEF StartGame, IInv, Order
  <2>2. \A c \in Client : shown[c] = {}
    BY DEF StartGame, IInv, Order
  <2> QED
    BY <2>1, <2>2 DEF StartGame, Complete
<1>3. Order'
  BY NpcLifeAssumption DEF StartGame, IInv, Order, TypeOK
<1> QED
  BY <1>1, <1>2, <1>3 DEF IInv

\* A reset leaves NPCs where they are; that is why a game may not follow it.
LEMMA ResetKeeps ==
  ASSUME ~Resets \/ MaxGames = 1, IInv, ResetServer
  PROVE  IInv'
<1>1. TypeOK'
  <2>1. gone' = {} /\ players' = {} /\ pc' \in Phases /\ cur' \in Nat
    BY DEF ResetServer, IInv, Order, Phases
  <2>2. shown' \in [Client -> SUBSET NpcSlots] /\ mapOf' \in [Client -> Map \cup {NoMap}]
    BY DEF ResetServer, Hide, IInv, TypeOK
  <2>3. reset' \in BOOLEAN
    BY Zenon DEF ResetServer
  <2>4. changeMap' = 0 /\ UNCHANGED <<starting, npc, left, map, mapFile, newMap, games>>
    BY DEF ResetServer
  <2> QED
    BY <2>1, <2>2, <2>3, <2>4 DEF IInv, TypeOK
<1>2. Complete'
  BY DEF ResetServer, Complete
<1>3. Order'
  BY DEF ResetServer, Hide, IInv, Order, TypeOK
<1> QED
  BY <1>1, <1>2, <1>3 DEF IInv

LEMMA FrameKeeps ==
  ASSUME IInv, BeginFrame \/ NobodyJoins \/ GameStarted
  PROVE  IInv'
<1>1. TypeOK'
  <2>1. starting' \in BOOLEAN
    BY Zenon DEF BeginFrame, NobodyJoins, GameStarted, Unchanged, IInv, TypeOK
  <2>2. /\ pc' \in Phases /\ cur' \in Nat
        /\ UNCHANGED <<npc, level, screens, players, gone, reset, games>>
    BY DEF BeginFrame, NobodyJoins, GameStarted, Unchanged, IInv, TypeOK, Phases
  <2> QED
    BY <2>1, <2>2 DEF IInv, TypeOK, level, screens
<1>2. Complete'
  BY DEF BeginFrame, NobodyJoins, GameStarted, Unchanged, IInv, Complete, level, screens
<1>3. Order'
  BY DEF BeginFrame, NobodyJoins, GameStarted, Unchanged, IInv, Order, level, screens
<1> QED
  BY <1>1, <1>2, <1>3 DEF IInv

\* join_client tells a new player what the others were told, and no more than
\* there is.
LEMMA JoinKeeps ==
  ASSUME IInv, NEW c \in Client, JoinClient(c)
  PROVE  IInv'
<1>1. Lasting \subseteq NpcSlots
  BY DEF Lasting, Active
<1>2. TypeOK'
  BY <1>1 DEF JoinClient, IInv, TypeOK, level, Phases
<1>3. \A d \in Client : shown'[d] = IF d = c THEN Lasting ELSE shown[d]
  BY DEF JoinClient, IInv, TypeOK
<1>4. /\ \A n \in Lasting : npc[n[1]][n[2]].on
      /\ \A n \in NpcSlots : npc[n[1]][n[2]].on /\ n[1] # "weapon" => n \in Lasting
  BY DEF Lasting, Active
<1>5. Complete'
  <2> SUFFICES ASSUME ~reset, NEW d \in (players \cup {c}) \ gone
               PROVE  /\ \A n \in shown'[d] : npc[n[1]][n[2]].on
                      /\ \A n \in NpcSlots :
                           npc[n[1]][n[2]].on /\ ~npc[n[1]][n[2]].create /\ n[1] # "weapon"
                             => n \in shown'[d]
    BY DEF JoinClient, Complete
  <2>1. d \in Client
    BY DEF IInv, TypeOK
  <2> QED
    BY <1>3, <1>4, <2>1 DEF IInv, Complete
<1>6. Order'
  BY <1>3 DEF JoinClient, IInv, Order
<1> QED
  BY <1>2, <1>5, <1>6 DEF IInv

\* srv_send_frame tells everybody what is new and what is freed.
LEMMA SendKeeps == IInv /\ SendFrame => IInv'
<1> SUFFICES ASSUME IInv, SendFrame PROVE IInv'
  OBVIOUS
<1>1. NpcType(npc)
  BY DEF IInv, TypeOK, NpcType
<1>2. /\ npc' = Unmarked /\ pc = "send" /\ pc' = "receive"
      /\ UNCHANGED <<cur, level, mapOf, starting, players, gone, reset, games>>
  BY DEF SendFrame, Unchanged
<1>3. \A c \in Client : shown'[c] = IF c \in players /\ ~reset
                                   THEN (shown[c] \cup Announced) \ Removed ELSE shown[c]
  BY DEF SendFrame
<1>4. ASSUME NEW n \in NpcSlots
      PROVE  /\ npc'[n[1]][n[2]] \in Npc
             /\ npc'[n[1]][n[2]].on => ~npc'[n[1]][n[2]].create
             /\ npc'[n[1]][n[2]].on = (npc[n[1]][n[2]].on /\ n \notin Removed)
             /\ npc[n[1]][n[2]].on /\ npc[n[1]][n[2]].create <=> n \in Announced
             /\ n \in Announced => n \notin Removed
  <2> DEFINE v == npc[n[1]][n[2]]
  <2>1. v \in Npc /\ n[1] \in Kinds /\ n[2] \in Slots(n[1]) /\ n = <<n[1], n[2]>>
    BY <1>1, SlotOf DEF NpcType
  <2>2. /\ n \in Announced <=> v.on /\ v.create
        /\ n \in Removed <=> v.on /\ v.destroy /\ ~v.create
    BY DEF Announced, Removed, Active
  <2>3. npc'[n[1]][n[2]] = IF n \in Announced THEN [v EXCEPT !.create = FALSE]
                           ELSE IF n \in Removed THEN Nothing ELSE v
    BY <1>2, <2>1 DEF Unmarked
  <2> HIDE DEF v
  <2>4. [v EXCEPT !.create = FALSE] \in Npc /\ Nothing \in Npc /\ Nothing.on = FALSE
    BY <2>1 DEF Npc, Nothing
  <2>5. [v EXCEPT !.create = FALSE].on = v.on /\ ~[v EXCEPT !.create = FALSE].create
        /\ v.on \in BOOLEAN /\ v.create \in BOOLEAN /\ v.destroy \in BOOLEAN
    BY <2>1 DEF Npc
  <2>6. CASE n \in Announced
    BY <2>2, <2>3, <2>4, <2>5, <2>6 DEF v
  <2>7. CASE n \in Removed /\ n \notin Announced
    <3>1. npc'[n[1]][n[2]] = Nothing /\ v.on /\ ~v.create
      BY <2>2, <2>3, <2>7
    <3> QED
      BY <2>4, <2>7, <3>1 DEF v
  <2>8. CASE n \notin Removed /\ n \notin Announced
    BY <2>1, <2>2, <2>3, <2>5, <2>8 DEF v
  <2> QED
    BY <2>6, <2>7, <2>8
<1>5. Announced \subseteq NpcSlots
  BY DEF Announced, Active
<1>6. NpcType(npc')
  <2>1. \A k \in Kinds : \A s \in Slots(k) : npc'[k][s] \in Npc
    BY <1>4, SlotOf
  <2> QED
    BY <1>2, <2>1 DEF NpcType, Unmarked
<1>7. shown' \in [Client -> SUBSET NpcSlots]
  BY <1>5 DEF SendFrame, IInv, TypeOK
<1>8. TypeOK'
  BY <1>2, <1>6, <1>7 DEF IInv, TypeOK, NpcType, level, Phases
<1>9. Complete'
  <2> SUFFICES ASSUME ~reset, NEW c \in players \ gone
               PROVE  /\ \A n \in shown'[c] : npc'[n[1]][n[2]].on
                      /\ \A n \in NpcSlots :
                           npc'[n[1]][n[2]].on /\ ~npc'[n[1]][n[2]].create /\ n[1] # "weapon"
                             => n \in shown'[c]
    BY <1>2 DEF Complete
  <2>1. shown'[c] = (shown[c] \cup Announced) \ Removed /\ shown[c] \subseteq NpcSlots
    BY <1>3 DEF IInv, TypeOK
  <2>2. /\ \A n \in shown[c] : npc[n[1]][n[2]].on
        /\ \A n \in NpcSlots :
             npc[n[1]][n[2]].on /\ ~npc[n[1]][n[2]].create /\ n[1] # "weapon" => n \in shown[c]
    BY DEF IInv, Complete
  <2> QED
    BY <1>4, <1>5, <2>1, <2>2
<1>10. Order'
  <2>1. gone = {} /\ ~starting
    BY <1>2 DEF IInv, Order
  <2>2. \A c \in Client \ players : shown'[c] = {}
    BY <1>3, <2>1 DEF IInv, Order
  <2> QED
    BY <1>2, <1>4, <2>1, <2>2 DEF IInv, Order
<1> QED
  BY <1>8, <1>9, <1>10 DEF IInv

\* Players who went away show nothing any more.
LEMMA ReceiveKeeps ==
  ASSUME IInv, NEW S \in SUBSET players, Receive(S)
  PROVE  IInv'
<1>1. TypeOK'
  BY DEF Receive, Hide, IInv, TypeOK, level, Phases
<1>2. gone = {} /\ gone' = S
  BY DEF Receive, IInv, Order
<1>3. \A c \in Client : shown'[c] = IF c \in S THEN {} ELSE shown[c]
  BY DEF Receive, Hide
<1>4. players \subseteq Client
  BY DEF IInv, TypeOK
<1>5. Complete'
  BY <1>2, <1>3, <1>4 DEF Receive, IInv, Complete
<1>6. Order'
  BY <1>2, <1>3, <1>4 DEF Receive, IInv, Order
<1> QED
  BY <1>1, <1>5, <1>6 DEF IInv

LEMMA EndKeeps ==
  ASSUME IInv, EndFrame \/ EndGame
  PROVE  IInv'
<1>1. CASE EndFrame
  <2>1. TypeOK'
    BY <1>1 DEF EndFrame, Goto, IInv, TypeOK, level, screens, Phases
  <2>2. Complete'
    BY <1>1 DEF EndFrame, IInv, Complete, screens
  <2>3. Order'
    BY <1>1 DEF EndFrame, Goto, IInv, Order, screens
  <2> QED
    BY <2>1, <2>2, <2>3 DEF IInv
<1>2. CASE EndGame
  <2>1. Nothing \in Npc /\ ~Nothing.on
    BY DEF Nothing, Npc
  <2>2. \A n \in NpcSlots : ~npc'[n[1]][n[2]].on
    BY <1>2, <2>1, SlotOf DEF EndGame
  <2>3. NpcType(npc')
    BY <1>2, <2>1 DEF EndGame, NpcType
  <2>4. TypeOK'
    BY <1>2, <2>3 DEF EndGame, Goto, IInv, TypeOK, NpcType, screens, Phases
  <2>5. Complete'
    BY <1>2 DEF EndGame, Complete
  <2>6. Order'
    BY <1>2, <2>2 DEF EndGame, Goto, IInv, Order, screens
  <2> QED
    BY <2>4, <2>5, <2>6 DEF IInv
<1> QED
  BY <1>1, <1>2

LEMMA NextIInv ==
  ASSUME ~Resets \/ MaxGames = 1, IInv, [Next]_vars
  PROVE  IInv'
<1>1. CASE Environment
  BY <1>1, LobbyKeeps, StartGameKeeps DEF Environment
<1>2. CASE Server
  BY <1>2, ResetKeeps, FrameKeeps, JoinKeeps, SendKeeps, ReceiveKeeps, LoopsKeep,
     MapChangeKeeps, SpotsKeep, ShotsKeep, WeaponHitsKeeps, TakeItemKeeps, EndKeeps DEF Server
<1>3. CASE UNCHANGED vars
  <2>1. TypeOK'
    BY <1>3 DEF vars, control, level, screens, IInv, TypeOK
  <2>2. Complete'
    BY <1>3 DEF vars, screens, IInv, Complete
  <2>3. Order'
    BY <1>3 DEF vars, control, screens, IInv, Order
  <2> QED
    BY <2>1, <2>2, <2>3 DEF IInv
<1> QED
  BY <1>1, <1>2, <1>3 DEF Next

LEMMA IInvImplies == IInv => TypeOK /\ ScreensShowNpcs
<1> SUFFICES ASSUME IInv, pc = "receive", ~reset, NEW c \in players
             PROVE  shown[c] \subseteq Active /\ Lasting \subseteq shown[c]
  BY DEF IInv, ScreensShowNpcs
<1>1. gone = {} /\ shown[c] \subseteq NpcSlots
  BY DEF IInv, Order, TypeOK
<1> QED
  BY <1>1 DEF IInv, Order, Complete, Active, Lasting

\* Types are kept, in every game that no reset came before.
THEOREM NpcTypeCorrect ==
  ASSUME ~Resets \/ MaxGames = 1
  PROVE  Spec => []TypeOK
<1>1. Spec => []IInv
  BY InitIInv, NextIInv, PTL DEF Spec
<1> QED
  BY <1>1, IInvImplies, PTL

\* After a frame was sent each player shows the enemies and items there are
\* (srv_send_frame, join_client, srv_allocate_xxx): in a game that no reset
\* came before, as a reset leaves the NPCs of the game it ended to the next.
THEOREM ScreensComplete ==
  ASSUME ~Resets \/ MaxGames = 1
  PROVE  Spec => []ScreensShowNpcs
<1>1. Spec => []IInv
  BY InitIInv, NextIInv, PTL DEF Spec
<1> QED
  BY <1>1, IInvImplies, PTL
-----------------------------------------------------------------------------
(***************************************************************************)
(* A spot of the map never has two of its NPCs, and when a new map is used *)
(* no NPC of the old one is left: for any players, maps, slots and spots,  *)
(* in the first game of a server whose maps make nobody come back at once. *)
(*                                                                         *)
(* An enemy that was destroyed stays in its slot until the players were    *)
(* told, and can be hit again, which starts the wait of its spot again.    *)
(* The argument is about these ghosts: until the enemies of a frame come   *)
(* back, a spot with a ghost has no living enemy, so that hitting it does  *)
(* no harm; and a ghost that was not even announced, which stays for one   *)
(* frame more, keeps its spot empty because no wait is over at once.       *)
(***************************************************************************)

\* A living NPC of kind k and spot p is in slot s.
AliveAt(k, s, p) == npc[k][s].on /\ ~npc[k][s].destroy /\ npc[k][s].spot = p
Empty(k, p) == \A s \in Slots(k) : ~AliveAt(k, s, p)
Single(k, p) ==
  /\ \A s, t \in Slots(k) : AliveAt(k, s, p) /\ AliveAt(k, t, p) => s = t
  /\ left[k][p] >= 0 => Empty(k, p)

\* While a map is loaded: spot p was reached.
Loads == {"loadEnemies", "loadItems"}
Loaded(k, p) ==
  /\ pc = "loadEnemies" => k = "enemy" /\ p < cur
  /\ pc = "loadItems" /\ k = "item" => p < cur

\* From the news of a frame until the enemy of spot p may come back.
BeforeRespawn(p) ==
  \/ pc \in {"receive", "map", "clients", "weapons", "shoot", "move"}
  \/ pc = "respawnEnemies" /\ cur <= p

OfThisMap == \A k \in SpotKinds : \A s \in Slots(k) : npc[k][s].on => npc[k][s].from = map
Loading ==
  pc \in Loads => \A k \in SpotKinds : \A s \in Slots(k) : npc[k][s].on =>
    ~npc[k][s].destroy /\ npc[k][s].spot \in Spots /\ Loaded(k, npc[k][s].spot)
Singles == \A k \in SpotKinds, p \in Spots : Loaded(k, p) => Single(k, p)
Ghost(s, p) == npc["enemy"][s].on /\ npc["enemy"][s].destroy /\ npc["enemy"][s].spot = p
Ghosts ==
  \A s \in Slots("enemy"), p \in Spots : Ghost(s, p) =>
    /\ npc["enemy"][s].create \/ BeforeRespawn(p) => Empty("enemy", p)
    /\ npc["enemy"][s].create /\ BeforeRespawn(p) => left["enemy"][p] # 0
NoneNew ==
  pc \in {"receive", "map"} =>
    \A k \in SpotKinds : \A s \in Slots(k) : npc[k][s].on => ~npc[k][s].create

\* While the map changes, what there was is marked, and gone when a frame was sent.
Changing ==
  changeMap = 1 =>
    /\ pc \in {"clients", "weapons", "end", "frame", "join", "send"} =>
         \A k \in SpotKinds : \A s \in Slots(k) :
           npc[k][s].on => npc[k][s].destroy /\ ~npc[k][s].create
    /\ pc \in {"receive", "map"} => \A k \in SpotKinds : \A s \in Slots(k) : ~npc[k][s].on
    /\ pc \notin {"shoot", "move", "respawnEnemies", "items", "respawnItems"}

\* What holds in a game, and what the only start of a game relies on.
InGame ==
  pc # "lobby" => OfThisMap /\ Loading /\ Singles /\ Ghosts /\ NoneNew /\ Changing
NoChangeYet == games = 0 \/ starting => changeMap = 0

SInv == InGame /\ NoChangeYet

\* One game, and maps in which nobody comes back at once.
OneGame == MaxGames = 1 /\ 0 \notin Waits

-----------------------------------------------------------------------------
LEMMA SpotKindsAre == "enemy" \in SpotKinds /\ "item" \in SpotKinds /\ SpotKinds \subseteq Kinds
BY DEF SpotKinds, Kinds

\* What slots hold after srv_allocate_xxx: n has an NPC of spot p and is npc otherwise.
CreatedAs(n, k, p) ==
  /\ \A j \in Kinds : j # k => n[j] = npc[j]
  /\ \A s \in Slots(k) :
       \/ n[k][s] = npc[k][s]
       \/ /\ s = FreeSlot(k)
          /\ n[k][s].on /\ n[k][s].create /\ ~n[k][s].destroy
          /\ n[k][s].spot = p /\ n[k][s].from = map

LEMMA CreatedIn ==
  ASSUME NpcType(npc), NEW k \in Kinds, NEW p \in Spots \cup {NoSpot},
         NEW n, n = Created(npc, k, p, FALSE)
  PROVE  CreatedAs(n, k, p)
<1> DEFINE new == [on |-> TRUE, create |-> TRUE, destroy |-> FALSE, spot |-> p, from |-> map]
           f == FreeSlot(k)
<1>1. n = [npc EXCEPT ![k][f] = new]
  BY DEF Created
<1>2. new.on /\ new.create /\ ~new.destroy /\ new.spot = p /\ new.from = map
  OBVIOUS
<1> HIDE DEF new, f
<1>3. \A j \in Kinds : j # k => n[j] = npc[j]
  BY <1>1 DEF NpcType
<1>4. \A s \in Slots(k) : n[k][s] = npc[k][s] \/ (s = f /\ n[k][s] = new)
  BY <1>1 DEF NpcType
<1> QED
  BY <1>2, <1>3, <1>4 DEF f, CreatedAs

\* Enemies, items and spots stay as they are, and no spot is more to be cared for.
LEMMA SpotsStay ==
  ASSUME IInv, SInv, pc # "lobby", NoChangeYet', Changing', NoneNew',
         \A k \in SpotKinds : npc'[k] = npc[k], left' = left, map' = map,
         pc' \in Loads => Loading',
         \A k \in SpotKinds, p \in Spots : Loaded(k, p)' => Loaded(k, p),
         \A p \in Spots : BeforeRespawn(p)' => BeforeRespawn(p) \/ pc \in Loads
  PROVE  SInv'
<1>1. OfThisMap /\ Loading /\ Singles /\ Ghosts
  BY DEF SInv, InGame
<1>2. OfThisMap'
  BY <1>1 DEF OfThisMap
<1>3. Loading'
  BY DEF Loading
<1>4. \A k \in SpotKinds, p \in Spots : Single(k, p)' <=> Single(k, p)
  BY DEF Single, Empty, AliveAt
<1>5. Singles'
  BY <1>1, <1>4 DEF Singles
<1>6. Ghosts'
  <2> SUFFICES ASSUME NEW s \in Slots("enemy"), NEW p \in Spots, Ghost(s, p)'
               PROVE  /\ (npc["enemy"][s].create \/ BeforeRespawn(p) => Empty("enemy", p))'
                      /\ (npc["enemy"][s].create /\ BeforeRespawn(p) => left["enemy"][p] # 0)'
    BY DEF Ghosts
  <2>1. npc'["enemy"] = npc["enemy"] /\ Ghost(s, p)
    BY SpotKindsAre DEF Ghost
  <2>2. pc \notin Loads
    BY <1>1, <2>1, SpotKindsAre DEF Loading, Ghost
  <2>3. Empty("enemy", p)' <=> Empty("enemy", p)
    BY <2>1 DEF Empty, AliveAt
  <2> QED
    BY <1>1, <2>1, <2>2, <2>3 DEF Ghosts
<1> QED
  BY <1>2, <1>3, <1>5, <1>6 DEF SInv, InGame

\* The steps from one loop, or one slot, to the next.
LEMMA LoopsStay ==
  ASSUME IInv, SInv,
         \/ KeepMap \/ EnemiesLoaded \/ ClientsDone \/ WeaponFlies \/ WeaponsDone
         \/ EnemyHoldsFire \/ EnemiesDone \/ KeepSpot \/ EnemiesRespawned
         \/ LeaveItem \/ ItemsDone \/ ItemsRespawned
  PROVE  SInv'
<1>1. UNCHANGED <<npc, left, map, changeMap, starting, games>>
  BY DEF KeepMap, EnemiesLoaded, ClientsDone, WeaponFlies, WeaponsDone, EnemyHoldsFire,
     EnemiesDone, KeepSpot, EnemiesRespawned, LeaveItem, ItemsDone, ItemsRespawned,
     level, Unchanged
<1>2. cur \in Nat /\ NSpots \in Nat
  BY NpcLifeAssumption DEF IInv, TypeOK
<1>3. \/ pc = "map" /\ pc' = "clients" /\ changeMap = 0
      \/ pc = "loadEnemies" /\ cur = NSpots /\ pc' = "loadItems" /\ cur' = 0
      \/ pc = "clients" /\ pc' = "weapons"
      \/ pc = "weapons" /\ pc' \in {"weapons", "end"}
      \/ pc = "weapons" /\ pc' = "shoot" /\ changeMap = 0
      \/ pc = "shoot" /\ pc' = "move"
      \/ pc = "shoot" /\ pc' = "respawnEnemies" /\ cur' = 0
      \/ pc = "respawnEnemies" /\ pc' = pc /\ cur' = cur + 1
      \/ pc = "respawnEnemies" /\ pc' = "items"
      \/ pc = "items" /\ pc' \in {"items", "respawnItems"}
      \/ pc = "respawnItems" /\ pc' \in {"respawnItems", "end"}
  BY DEF KeepMap, EnemiesLoaded, ClientsDone, WeaponFlies, WeaponsDone, EnemyHoldsFire,
     EnemiesDone, KeepSpot, NotWaiting, EnemiesRespawned, LeaveItem, ItemsDone, ItemsRespawned,
     Goto
<1>4. pc # "lobby" /\ NoChangeYet' /\ NoneNew'
  BY <1>1, <1>3 DEF SInv, NoChangeYet, NoneNew
<1>5. Changing'
  BY <1>1, <1>3 DEF SInv, InGame, Changing
<1>6. pc' \in Loads => Loading'
  BY <1>1, <1>3 DEF SInv, InGame, Loading, Loads, Loaded, SpotKinds
<1>7. \A k \in SpotKinds, p \in Spots : Loaded(k, p)' => Loaded(k, p)
  BY <1>2, <1>3 DEF Loaded, Spots, SpotKinds
<1>8. \A p \in Spots : BeforeRespawn(p)' => BeforeRespawn(p) \/ pc \in Loads
  BY <1>2, <1>3 DEF BeforeRespawn, Spots
<1> QED
  BY <1>1, <1>4, <1>5, <1>6, <1>7, <1>8, SpotsStay

\* The frame around srv_calc_frame, and the end of loading a map.
LEMMA FramesStay ==
  ASSUME IInv, SInv,
         \/ BeginFrame \/ NobodyJoins \/ GameStarted \/ MapChanged \/ EndFrame
         \/ \E c \in Client : JoinClient(c)
         \/ \E S \in SUBSET players : Receive(S)
         \/ \E m \in Map : Teleport(m)
  PROVE  SInv'
<1>1. UNCHANGED <<npc, left, map, games>> /\ (starting' => starting)
  BY DEF BeginFrame, NobodyJoins, GameStarted, MapChanged, EndFrame, JoinClient, Receive,
     Teleport, level, Unchanged
<1>2. cur \in Nat /\ NSpots \in Nat
  BY NpcLifeAssumption DEF IInv, TypeOK
<1>3. \/ pc = "frame" /\ pc' = "join" /\ changeMap' = changeMap
      \/ pc = "join" /\ pc' = "send" /\ changeMap' = changeMap
      \/ pc = "receive" /\ pc' = "map" /\ changeMap' = changeMap
      \/ pc = "loadItems" /\ cur = NSpots /\ pc' = "send" /\ changeMap' = changeMap /\ starting
      \/ pc = "loadItems" /\ cur = NSpots /\ pc' = "clients" /\ changeMap' = 0
      \/ pc = "items" /\ pc' = "items" /\ changeMap' = 2
      \/ pc = "end" /\ pc' = "frame" /\ changeMap' = changeMap
  BY DEF BeginFrame, NobodyJoins, GameStarted, MapChanged, EndFrame, JoinClient, Receive,
     Teleport, Goto, level
<1>4. pc # "lobby" /\ NoneNew'
  BY <1>1, <1>3 DEF SInv, InGame, NoneNew
<1>5. NoChangeYet'
  BY <1>1, <1>3 DEF SInv, NoChangeYet, IInv, Order
<1>6. Changing'
  BY <1>1, <1>3 DEF SInv, InGame, Changing, NoChangeYet
<1>7. pc' \notin Loads
  BY <1>3 DEF Loads
<1>8. \A k \in SpotKinds, p \in Spots : Loaded(k, p)' => Loaded(k, p)
  BY <1>2, <1>3 DEF Loaded, Spots, SpotKinds
<1>9. \A p \in Spots : BeforeRespawn(p)' => BeforeRespawn(p) \/ pc \in Loads
  BY <1>2, <1>3 DEF BeforeRespawn, Spots, Loads
<1> QED
  BY <1>1, <1>4, <1>5, <1>6, <1>7, <1>8, <1>9, SpotsStay

\* Players and enemies shoot: only weapons are created.
LEMMA ShotsStay ==
  ASSUME IInv, SInv, ClientShoots \/ EnemyShoots
  PROVE  SInv'
<1>1. UNCHANGED <<left, map, changeMap, starting, games>> /\ CreateWeapon
  BY DEF ClientShoots, EnemyShoots, level, Unchanged
<1>2. NpcType(npc)
  BY DEF IInv, TypeOK, NpcType
<1>3. \A k \in SpotKinds : npc'[k] = npc[k]
  <2> DEFINE f == FreeSlot("weapon")
  <2>1. PICK b \in BOOLEAN : npc' = Created(npc, "weapon", NoSpot, b)
    BY <1>1 DEF CreateWeapon
  <2> DEFINE w == [on |-> TRUE, create |-> TRUE, destroy |-> b, spot |-> NoSpot, from |-> map]
  <2>2. npc' = [npc EXCEPT !["weapon"][f] = w]
    BY <2>1 DEF Created
  <2> HIDE DEF f, w
  <2> QED
    BY <1>2, <2>2 DEF NpcType, SpotKinds, Kinds
<1>4. \/ pc = "clients" /\ pc' = "clients"
      \/ pc = "shoot" /\ pc' = "move"
  BY DEF ClientShoots, EnemyShoots
<1>5. pc # "lobby" /\ NoChangeYet' /\ NoneNew'
  BY <1>1, <1>4 DEF SInv, NoChangeYet, NoneNew
<1>6. Changing'
  BY <1>1, <1>3, <1>4 DEF SInv, InGame, Changing
<1>7. /\ pc' \notin Loads
      /\ \A k \in SpotKinds, p \in Spots : Loaded(k, p)' => Loaded(k, p)
      /\ \A p \in Spots : BeforeRespawn(p)' => BeforeRespawn(p) \/ pc \in Loads
  BY <1>4 DEF Loads, Loaded, BeforeRespawn
<1> QED
  BY <1>1, <1>3, <1>5, <1>6, <1>7, SpotsStay

-----------------------------------------------------------------------------
(***************************************************************************)
(* The start and the end of a game.                                        *)
(***************************************************************************)
LEMMA SpotsInit == Init => SInv
BY DEF Init, SInv, InGame, NoChangeYet

LEMMA LobbyStays ==
  ASSUME IInv, SInv, ResetSignal \/ \E m \in Map : SetMap(m)
  PROVE  SInv'
<1>1. CASE ResetSignal
  <2>1. UNCHANGED <<pc, cur, starting, npc, left, map, changeMap, games>>
    BY <1>1 DEF ResetSignal, control, level
  <2>2. InGame'
    BY <2>1 DEF SInv, InGame, OfThisMap, Loading, Loaded, Singles, Single, Empty, AliveAt,
       Ghosts, Ghost, BeforeRespawn, NoneNew, Changing
  <2>3. NoChangeYet'
    BY <2>1 DEF SInv, NoChangeYet
  <2> QED
    BY <2>2, <2>3 DEF SInv
<1>2. CASE \E m \in Map : SetMap(m)
  BY <1>2 DEF SetMap, Unchanged, SInv, InGame, NoChangeYet
<1> QED
  BY <1>1, <1>2

\* A game starts with empty slots, and with no change of the map: it is the first.
LEMMA StartGameSpots ==
  ASSUME OneGame, IInv, SInv, NEW S \in SUBSET Client, StartGame(S)
  PROVE  SInv'
<1>1. \A k \in SpotKinds : \A s \in Slots(k) : ~npc[k][s].on
  <2>1. \A n \in NpcSlots : ~npc[n[1]][n[2]].on
    BY DEF StartGame, IInv, Order
  <2> QED
    BY <2>1, SlotOf, SpotKindsAre
<1>2. /\ pc' = "loadEnemies" /\ cur' = 0
      /\ npc' = npc /\ left' = left /\ changeMap' = changeMap
  BY DEF StartGame
<1>3. changeMap = 0
  <2>1. games = 0
    BY DEF StartGame, OneGame, IInv, TypeOK
  <2> QED
    BY <2>1 DEF SInv, NoChangeYet
<1>4. OfThisMap' /\ Loading' /\ NoneNew' /\ Changing' /\ NoChangeYet'
  BY <1>1, <1>2, <1>3 DEF OfThisMap, Loading, NoneNew, Changing, NoChangeYet
<1>5. Singles'
  BY <1>2 DEF Singles, Loaded, Spots
<1>6. Ghosts'
  BY <1>1, <1>2, SpotKindsAre DEF Ghosts, Ghost
<1> QED
  BY <1>4, <1>5, <1>6 DEF SInv, InGame

LEMMA BackToLobby ==
  ASSUME IInv, SInv, ResetServer \/ EndGame
  PROVE  SInv'
<1>1. pc' = "lobby"
  BY DEF ResetServer, EndGame, Goto
<1>2. ~starting
  BY DEF ResetServer, EndGame, IInv, Order
<1>3. NoChangeYet'
  <2>1. CASE ResetServer
    BY <2>1 DEF ResetServer, NoChangeYet
  <2>2. CASE EndGame
    BY <1>2, <2>2 DEF EndGame, IInv, Order, NoChangeYet
  <2> QED
    BY <2>1, <2>2
<1> QED
  BY <1>1, <1>3 DEF SInv, InGame

-----------------------------------------------------------------------------
(***************************************************************************)
(* The change of the map.                                                  *)
(***************************************************************************)
\* Everything is marked: no spot has a living NPC.
LEMMA RemoveObjectsSpots ==
  ASSUME IInv, SInv, RemoveObjects
  PROVE  SInv'
<1>1. /\ pc = "map" /\ pc' = "clients" /\ cur' = 0 /\ changeMap' = 1
      /\ UNCHANGED <<left, map, games, starting>> /\ npc' = DestroyAll
  BY DEF RemoveObjects, Unchanged
<1>2. \A k \in SpotKinds : \A s \in Slots(k) : npc[k][s] \in Npc
  BY SpotKindsAre DEF IInv, TypeOK
<1>3. \A k \in SpotKinds : \A s \in Slots(k) :
        /\ npc'[k][s].on = npc[k][s].on /\ npc'[k][s].create = npc[k][s].create
        /\ npc'[k][s].from = npc[k][s].from
        /\ npc'[k][s].on => npc'[k][s].destroy
  BY <1>1, <1>2, SpotKindsAre DEF DestroyAll, Npc
<1>4. \A k \in SpotKinds : \A s \in Slots(k) : npc[k][s].on => ~npc[k][s].create
  BY <1>1 DEF SInv, InGame, NoneNew
<1>5. OfThisMap' /\ Loading' /\ NoneNew' /\ Changing'
  BY <1>1, <1>3, <1>4 DEF SInv, InGame, OfThisMap, Loading, Loads, NoneNew, Changing
<1>6. \A k \in SpotKinds, p \in Spots : Empty(k, p)'
  BY <1>3 DEF Empty, AliveAt
<1>7. Singles'
  BY <1>6 DEF Singles, Single, Empty
<1>8. Ghosts'
  BY <1>3, <1>4, <1>6, SpotKindsAre DEF Ghosts, Ghost
<1>9. NoChangeYet'
  BY <1>1 DEF IInv, Order, NoChangeYet
<1> QED
  BY <1>5, <1>7, <1>8, <1>9 DEF SInv, InGame

\* When the new map is copied everything of the old one is gone.
LEMMA CopyMapSpots ==
  ASSUME IInv, SInv, CopyMap
  PROVE  SInv'
<1>1. /\ pc = "map" /\ pc' = "loadEnemies" /\ cur' = 0 /\ changeMap = 1 /\ changeMap' = 1
      /\ UNCHANGED <<npc, left, games, starting>>
  BY DEF CopyMap, Unchanged
<1>2. \A k \in SpotKinds : \A s \in Slots(k) : ~npc[k][s].on
  BY <1>1 DEF SInv, InGame, Changing
<1>3. OfThisMap' /\ Loading' /\ NoneNew' /\ Changing'
  BY <1>1, <1>2 DEF OfThisMap, Loading, NoneNew, Changing
<1>4. Singles'
  BY <1>1 DEF Singles, Loaded, Spots
<1>5. Ghosts'
  BY <1>1, <1>2, SpotKindsAre DEF Ghosts, Ghost
<1>6. NoChangeYet'
  BY <1>1 DEF IInv, Order, NoChangeYet
<1> QED
  BY <1>3, <1>4, <1>5, <1>6 DEF SInv, InGame

\* The news of a frame: what was announced before and is marked is freed.
LEMMA SendFrameSpots ==
  ASSUME IInv, SInv, SendFrame
  PROVE  SInv'
<1>1. /\ pc = "send" /\ pc' = "receive" /\ npc' = Unmarked
      /\ UNCHANGED <<cur, left, map, changeMap, games, starting>>
  BY DEF SendFrame, level, Unchanged
<1>2. ASSUME NEW k \in SpotKinds, NEW s \in Slots(k)
      PROVE  LET v == npc[k][s]
                 w == npc'[k][s]
             IN  \/ /\ v.on /\ v.create /\ w.on /\ ~w.create /\ w.destroy = v.destroy
                    /\ w.spot = v.spot /\ w.from = v.from
                 \/ v.on /\ v.destroy /\ ~v.create /\ ~w.on
                 \/ w = v /\ ~(v.on /\ v.create) /\ ~(v.on /\ v.destroy)
  <2> DEFINE v == npc[k][s]
             w == npc'[k][s]
  <2>1. v \in Npc /\ <<k, s>> \in NpcSlots
    BY SpotKindsAre, SlotOf DEF IInv, TypeOK
  <2>2. /\ <<k, s>> \in Announced <=> v.on /\ v.create
        /\ <<k, s>> \in Removed <=> v.on /\ v.destroy /\ ~v.create
    BY <2>1 DEF Announced, Removed, Active
  <2>3. w = IF <<k, s>> \in Announced THEN [v EXCEPT !.create = FALSE]
            ELSE IF <<k, s>> \in Removed THEN Nothing ELSE v
    BY <1>1, SpotKindsAre DEF Unmarked
  <2> HIDE DEF v, w
  <2>4. CASE <<k, s>> \in Announced
    <3>1. w = [v EXCEPT !.create = FALSE]
      BY <2>3, <2>4
    <3>2. ~w.create /\ w.on = v.on /\ w.destroy = v.destroy /\ w.spot = v.spot /\ w.from = v.from
      BY <2>1, <3>1 DEF Npc
    <3> QED
      BY <2>2, <2>4, <3>2 DEF v, w
  <2>5. CASE <<k, s>> \in Removed /\ <<k, s>> \notin Announced
    <3>1. w = Nothing /\ ~Nothing.on
      BY <2>3, <2>5 DEF Nothing
    <3> QED
      BY <2>2, <2>5, <3>1 DEF v, w
  <2>6. CASE <<k, s>> \notin Removed /\ <<k, s>> \notin Announced
    BY <2>2, <2>3, <2>6 DEF v, w
  <2> QED
    BY <2>4, <2>5, <2>6
<1>3. \A k \in SpotKinds : \A s \in Slots(k), p \in Spots : AliveAt(k, s, p)' <=> AliveAt(k, s, p)
  BY <1>2 DEF AliveAt
<1>4. OfThisMap'
  BY <1>1, <1>2 DEF SInv, InGame, OfThisMap
<1>5. Loading'
  BY <1>1 DEF Loading, Loads
<1>6. NoneNew'
  BY <1>2 DEF NoneNew
<1>7. Changing'
  BY <1>1, <1>2 DEF SInv, InGame, Changing
<1>8. Singles'
  <2>1. \A k \in SpotKinds, p \in Spots : Single(k, p)
    BY <1>1 DEF SInv, InGame, Singles, Loaded
  <2> QED
    BY <1>1, <1>3, <2>1 DEF Singles, Single, Empty
<1>9. Ghosts'
  <2> SUFFICES ASSUME NEW s \in Slots("enemy"), NEW p \in Spots, Ghost(s, p)'
               PROVE  Empty("enemy", p)' /\ ~npc'["enemy"][s].create
    BY DEF Ghosts
  <2>1. Ghost(s, p) /\ npc["enemy"][s].create /\ ~npc'["enemy"][s].create
    BY <1>2, SpotKindsAre DEF Ghost
  <2>2. Empty("enemy", p)
    BY <1>1, <2>1 DEF SInv, InGame, Ghosts
  <2> QED
    BY <1>3, <2>1, <2>2, SpotKindsAre DEF Empty
<1>10. NoChangeYet'
  BY <1>1 DEF SInv, NoChangeYet
<1> QED
  BY <1>1, <1>4, <1>5, <1>6, <1>7, <1>8, <1>9, <1>10 DEF SInv, InGame

-----------------------------------------------------------------------------
(***************************************************************************)
(* Spots are filled when a map is loaded, and when their time is over.     *)
(***************************************************************************)
\* Spot p of kind k is given an NPC, or nothing but another time.
Filled(k, p) ==
  /\ npc' = npc \/ (npc' = Created(npc, k, p, FALSE) /\ left'[k][p] = -1)
  /\ \E v \in Int : left' = [left EXCEPT ![k][p] = v]

\* A spot that was empty has one NPC then, and others are as they were.
LEMMA FilledOnce ==
  ASSUME IInv, NEW k \in SpotKinds, NEW p \in Spots, Empty(k, p), Filled(k, p), map' = map
  PROVE  /\ Single(k, p)'
         /\ \A j \in SpotKinds, q \in Spots : j # k \/ q # p =>
              /\ Single(j, q) => Single(j, q)'
              /\ Empty(j, q) => Empty(j, q)'
              /\ left'[j][q] = left[j][q]
         /\ \A j \in SpotKinds : \A s \in Slots(j) :
              \/ npc'[j][s] = npc[j][s]
              \/ /\ npc' # npc /\ j = k /\ npc'[j][s].on /\ ~npc'[j][s].destroy
                 /\ npc'[j][s].spot = p /\ npc'[j][s].from = map
<1>1. /\ NpcType(npc) /\ k \in Kinds /\ p \in Spots \cup {NoSpot}
      /\ left \in [SpotKinds -> [Spots -> Int]]
  BY SpotKindsAre DEF IInv, TypeOK, NpcType
<1>2. \A j \in SpotKinds : \A s \in Slots(j) :
        \/ npc'[j][s] = npc[j][s]
        \/ /\ npc' # npc /\ j = k /\ s = FreeSlot(k) /\ left'[k][p] = -1
           /\ npc'[j][s].on /\ ~npc'[j][s].destroy
           /\ npc'[j][s].spot = p /\ npc'[j][s].from = map
  <2>1. CASE npc' = npc
    BY <2>1
  <2>2. CASE npc' = Created(npc, k, p, FALSE) /\ npc' # npc /\ left'[k][p] = -1
    <3>1. CreatedAs(npc', k, p)
      BY <1>1, <2>2, CreatedIn
    <3> QED
      BY <2>2, <3>1, SpotKindsAre DEF CreatedAs
  <2> QED
    BY <2>1, <2>2 DEF Filled
<1>3. \A j \in SpotKinds, q \in Spots : j # k \/ q # p => left'[j][q] = left[j][q]
  BY <1>1 DEF Filled
<1>4. ASSUME NEW j \in SpotKinds, NEW q \in Spots, j # k \/ q # p
      PROVE  \A s \in Slots(j) : AliveAt(j, s, q)' => AliveAt(j, s, q)
  BY <1>2, <1>4 DEF AliveAt
<1>5. ASSUME NEW j \in SpotKinds, NEW q \in Spots, j # k \/ q # p
      PROVE  /\ Single(j, q) => Single(j, q)'
             /\ Empty(j, q) => Empty(j, q)'
             /\ left'[j][q] = left[j][q]
  <2>1. Empty(j, q) => Empty(j, q)'
    BY <1>4, <1>5 DEF Empty
  <2> QED
    BY <1>3, <1>4, <1>5, <2>1 DEF Single
<1>6. Single(k, p)'
  <2>1. \A s \in Slots(k) : AliveAt(k, s, p)' => s = FreeSlot(k) /\ left'[k][p] = -1
    BY <1>2 DEF Empty, AliveAt
  <2> QED
    BY <2>1 DEF Single, Empty
<1> QED
  BY <1>2, <1>5, <1>6

\* create_map_enemies and create_map_items, one spot: what is on was created at
\* a spot before it.
LEMMA LoadSpots ==
  ASSUME IInv, SInv, LoadEnemy \/ LoadItem
  PROVE  SInv'
<1>1. cur \in Nat /\ NSpots \in Nat /\ left \in [SpotKinds -> [Spots -> Int]]
  BY NpcLifeAssumption DEF IInv, TypeOK
<1>2. /\ pc \in Loads /\ pc' = pc /\ cur' = cur + 1 /\ cur < NSpots
      /\ UNCHANGED <<map, changeMap, starting, games>>
  BY DEF LoadEnemy, LoadItem, Loads, Unchanged
<1>3. PICK k \in SpotKinds, c \in Spots :
        c = cur /\ k = IF pc = "loadEnemies" THEN "enemy" ELSE "item"
  BY <1>1, <1>2, SpotKindsAre DEF Spots
<1>4. Filled(k, c)
  <2>1. Waits \cup {-1, 0} \subseteq Int /\ -1 \in Int
    BY NpcLifeAssumption
  <2>2. CASE LoadEnemy
    <3>1. k = "enemy"
      BY <1>3, <2>2 DEF LoadEnemy
    <3>2. CASE CreateMapEnemy(cur)
      BY <1>1, <1>3, <2>1, <3>1, <3>2 DEF CreateMapEnemy, Filled
    <3>3. CASE AnyWait("enemy", cur)
      BY <1>3, <2>1, <3>1, <3>3 DEF AnyWait, Filled
    <3> QED
      BY <2>2, <3>2, <3>3 DEF LoadEnemy
  <2>3. CASE LoadItem
    <3>1. k = "item"
      BY <1>3, <2>3 DEF LoadItem
    <3>2. CASE CreateItem(cur)
      BY <1>1, <1>3, <2>1, <3>1, <3>2 DEF CreateItem, Filled
    <3>3. CASE AnyWait("item", cur)
      BY <1>3, <2>1, <3>1, <3>3 DEF AnyWait, Filled
    <3> QED
      BY <2>3, <3>2, <3>3 DEF LoadItem
  <2> QED
    BY <2>2, <2>3
<1>5. OfThisMap /\ Loading /\ Singles
  BY <1>2 DEF SInv, InGame, Loads
<1>6. Empty(k, c)
  BY <1>1, <1>2, <1>3, <1>5 DEF Loading, Loads, Loaded, Empty, AliveAt
<1>7. /\ Single(k, c)'
      /\ \A j \in SpotKinds, q \in Spots : j # k \/ q # c => (Single(j, q) => Single(j, q)')
      /\ \A j \in SpotKinds : \A s \in Slots(j) :
              \/ npc'[j][s] = npc[j][s]
              \/ /\ npc' # npc /\ j = k /\ npc'[j][s].on /\ ~npc'[j][s].destroy
                 /\ npc'[j][s].spot = c /\ npc'[j][s].from = map
  <2>1. map' = map
    BY <1>2
  <2> QED
    BY <1>4, <1>6, <2>1, FilledOnce
<1>8. OfThisMap'
  BY <1>2, <1>5, <1>7 DEF OfThisMap
<1>9. Loading'
  <2> SUFFICES ASSUME NEW j \in SpotKinds, NEW s \in Slots(j), npc'[j][s].on
               PROVE  (~npc[j][s].destroy /\ npc[j][s].spot \in Spots /\ Loaded(j, npc[j][s].spot))'
    BY DEF Loading
  <2>1. CASE npc'[j][s] = npc[j][s]
    BY <1>1, <1>2, <1>5, <2>1 DEF Loading, Loaded, Spots
  <2>2. CASE npc'[j][s] # npc[j][s]
    BY <1>1, <1>2, <1>3, <1>7, <2>2 DEF Loaded, Loads
  <2> QED
    BY <2>1, <2>2
<1>10. Singles'
  <2> SUFFICES ASSUME NEW j \in SpotKinds, NEW q \in Spots, Loaded(j, q)'
               PROVE  Single(j, q)'
    BY DEF Singles
  <2>1. (j = k /\ q = c) \/ Loaded(j, q)
    BY <1>1, <1>2, <1>3 DEF Loaded, Loads, SpotKinds, Spots
  <2> QED
    BY <1>5, <1>7, <2>1 DEF Singles
<1>11. Ghosts'
  BY <1>2, <1>9, SpotKindsAre DEF Loading, Ghosts, Ghost
<1>12. NoneNew' /\ Changing' /\ NoChangeYet'
  BY <1>2 DEF SInv, NoneNew, Changing, NoChangeYet, Loads
<1> QED
  BY <1>8, <1>9, <1>10, <1>11, <1>12 DEF SInv, InGame

\* While somebody waits its spot is empty; when it comes back no ghost that has
\* not been announced is there, because its wait would not be over.
LEMMA RespawnSpots ==
  ASSUME IInv, SInv, RespawnEnemy \/ RespawnItem
  PROVE  SInv'
<1>1. cur \in Nat /\ NSpots \in Nat /\ left \in [SpotKinds -> [Spots -> Int]]
  BY NpcLifeAssumption DEF IInv, TypeOK
<1>2. /\ pc \in {"respawnEnemies", "respawnItems"} /\ pc' = pc /\ cur' = cur + 1
      /\ UNCHANGED <<map, changeMap, starting, games>>
  BY DEF RespawnEnemy, RespawnItem, Unchanged
<1>3. PICK k \in SpotKinds, c \in Spots :
        c = cur /\ k = IF pc = "respawnEnemies" THEN "enemy" ELSE "item"
  BY <1>1, SpotKindsAre DEF RespawnEnemy, RespawnItem, Waiting, Spots
<1>4. /\ left[k][c] >= 0
      /\ \/ npc' = npc
         \/ npc' = Created(npc, k, c, FALSE) /\ left'[k][c] = -1 /\ left[k][c] = 0
      /\ \E v \in Int : left' = [left EXCEPT ![k][c] = v]
  <2>1. left[k][c] \in Int /\ left[k][c] - 1 \in Int /\ -1 \in Int
    BY <1>1
  <2>2. left = [left EXCEPT ![k][c] = left[k][c]]
    BY <1>1
  <2>3. CASE RespawnEnemy
    <3>1. k = "enemy" /\ left[k][c] >= 0
      BY <1>3, <2>3 DEF RespawnEnemy, Waiting
    <3>2. CASE CountDown("enemy")
      BY <1>3, <2>1, <3>1, <3>2 DEF CountDown
    <3>3. CASE left["enemy"][cur] = 0 /\ CreateMapEnemy(cur)
      <4>1. /\ npc' = npc \/ npc' = Created(npc, k, c, FALSE)
            /\ left' = [left EXCEPT ![k][c] = -1]
        BY <1>3, <3>1, <3>3 DEF CreateMapEnemy
      <4>2. left'[k][c] = -1
        BY <1>1, <4>1
      <4> QED
        BY <1>3, <2>1, <3>1, <3>3, <4>1, <4>2
    <3>4. CASE UNCHANGED <<npc, left>>
      BY <2>1, <2>2, <3>1, <3>4
    <3> QED
      BY <2>3, <3>2, <3>3, <3>4 DEF RespawnEnemy
  <2>4. CASE RespawnItem
    <3>1. k = "item" /\ left[k][c] >= 0
      BY <1>3, <2>4 DEF RespawnItem, Waiting
    <3>2. CASE CountDown("item")
      BY <1>3, <2>1, <3>1, <3>2 DEF CountDown
    <3>3. CASE left["item"][cur] = 0 /\ CreateItem(cur)
      <4>1. /\ npc' = npc \/ npc' = Created(npc, k, c, FALSE)
            /\ left' = [left EXCEPT ![k][c] = -1]
        BY <1>3, <3>1, <3>3 DEF CreateItem
      <4>2. left'[k][c] = -1
        BY <1>1, <4>1
      <4> QED
        BY <1>3, <2>1, <3>1, <3>3, <4>1, <4>2
    <3>4. CASE UNCHANGED <<npc, left>>
      BY <2>1, <2>2, <3>1, <3>4
    <3> QED
      BY <2>4, <3>2, <3>3, <3>4 DEF RespawnItem
  <2> QED
    BY <2>3, <2>4
<1>5. OfThisMap /\ Singles /\ Ghosts /\ Changing
  BY <1>2 DEF SInv, InGame
<1>6. \A j \in SpotKinds, q \in Spots : Single(j, q)
  BY <1>2, <1>5 DEF Singles, Loaded
<1>7. Empty(k, c) /\ Filled(k, c) /\ map' = map
  BY <1>2, <1>4, <1>6 DEF Single, Filled
<1>8. /\ \A j \in SpotKinds, q \in Spots : Single(j, q)'
      /\ \A j \in SpotKinds, q \in Spots : j # k \/ q # c =>
           (Empty(j, q) => Empty(j, q)') /\ left'[j][q] = left[j][q]
      /\ \A j \in SpotKinds : \A s \in Slots(j) :
           \/ npc'[j][s] = npc[j][s]
           \/ /\ npc' # npc /\ j = k /\ npc'[j][s].on /\ ~npc'[j][s].destroy
              /\ npc'[j][s].spot = c /\ npc'[j][s].from = map
  BY <1>6, <1>7, FilledOnce
<1>9. OfThisMap'
  BY <1>2, <1>5, <1>8 DEF OfThisMap
<1>10. Singles'
  BY <1>8 DEF Singles
<1>11. Ghosts'
  <2> SUFFICES ASSUME NEW s \in Slots("enemy"), NEW p \in Spots, Ghost(s, p)'
               PROVE  /\ (npc["enemy"][s].create \/ BeforeRespawn(p) => Empty("enemy", p))'
                      /\ (npc["enemy"][s].create /\ BeforeRespawn(p) => left["enemy"][p] # 0)'
    BY DEF Ghosts
  <2>1. npc'["enemy"][s] = npc["enemy"][s] /\ Ghost(s, p)
    BY <1>8, SpotKindsAre DEF Ghost
  <2>2. /\ npc["enemy"][s].create \/ BeforeRespawn(p) => Empty("enemy", p)
        /\ npc["enemy"][s].create /\ BeforeRespawn(p) => left["enemy"][p] # 0
    BY <1>5, <2>1 DEF Ghosts
  <2>3. BeforeRespawn(p)' => BeforeRespawn(p) /\ (k = "enemy" => p # c)
    BY <1>1, <1>2, <1>3 DEF BeforeRespawn, Spots
  <2>4. CASE k # "enemy" \/ p # c
    BY <1>8, <2>1, <2>2, <2>3, <2>4, SpotKindsAre
  <2>5. CASE k = "enemy" /\ p = c
    <3>1. ~BeforeRespawn(p)' /\ BeforeRespawn(p)
      BY <1>1, <1>2, <1>3, <2>3, <2>5 DEF BeforeRespawn
    <3>2. npc["enemy"][s].create => left["enemy"][p] # 0
      BY <2>2, <3>1
    <3>3. npc["enemy"][s].create => npc' = npc
      BY <1>4, <2>5, <3>2
    <3>4. npc["enemy"][s].create => Empty("enemy", p)'
      BY <1>7, <2>5, <3>3 DEF Empty, AliveAt
    <3> QED
      BY <2>1, <3>1, <3>4
  <2> QED
    BY <2>4, <2>5
<1>12. Loading' /\ NoneNew' /\ Changing' /\ NoChangeYet'
  BY <1>2, <1>5 DEF SInv, Loading, Loads, NoneNew, Changing, NoChangeYet
<1> QED
  BY <1>9, <1>10, <1>11, <1>12 DEF SInv, InGame

-----------------------------------------------------------------------------
(***************************************************************************)
(* NPCs are destroyed, and leave others behind.                            *)
(***************************************************************************)
\* Whatever an enemy leaves behind comes from no spot.
LEMMA EnemyMovesSpots ==
  ASSUME IInv, SInv, EnemyMoves
  PROVE  SInv'
<1>1. /\ pc = "move" /\ pc' = "shoot"
      /\ UNCHANGED <<left, map, changeMap, starting, games>>
      /\ npc' = npc \/ \E k \in SpotKinds : npc' = Created(npc, k, NoSpot, FALSE)
  <2>1. UNCHANGED <<level, screens>> /\ Unchanged
    BY DEF EnemyMoves
  <2> QED
    BY <2>1, SpotKindsAre DEF EnemyMoves, level, Unchanged
<1>2. NpcType(npc) /\ NoSpot \in Spots \cup {NoSpot} /\ NoSpot \notin Spots
  BY NpcLifeAssumption DEF IInv, TypeOK, NpcType, NoSpot, Spots
<1>3. \A j \in SpotKinds : \A s \in Slots(j) :
        \/ npc'[j][s] = npc[j][s]
        \/ ~npc'[j][s].destroy /\ npc'[j][s].spot = NoSpot /\ npc'[j][s].from = map
  <2>1. CASE npc' = npc
    BY <2>1
  <2>2. ASSUME NEW k \in SpotKinds, npc' = Created(npc, k, NoSpot, FALSE)
        PROVE  \A j \in SpotKinds : \A s \in Slots(j) :
                 \/ npc'[j][s] = npc[j][s]
                 \/ ~npc'[j][s].destroy /\ npc'[j][s].spot = NoSpot /\ npc'[j][s].from = map
    <3>1. k \in Kinds
      BY SpotKindsAre
    <3>2. CreatedAs(npc', k, NoSpot)
      BY <1>2, <2>2, <3>1, CreatedIn
    <3> QED
      BY <3>2, SpotKindsAre DEF CreatedAs
  <2> QED
    BY <1>1, <2>1, <2>2
<1>4. OfThisMap /\ Singles /\ Ghosts /\ changeMap # 1
  BY <1>1 DEF SInv, InGame, Changing
<1>5. \A j \in SpotKinds, p \in Spots : \A s \in Slots(j) : AliveAt(j, s, p)' => AliveAt(j, s, p)
  BY <1>2, <1>3 DEF AliveAt
<1>6. OfThisMap'
  BY <1>1, <1>3, <1>4 DEF OfThisMap
<1>7. \A j \in SpotKinds, p \in Spots : Empty(j, p) => Empty(j, p)'
  BY <1>5 DEF Empty
<1>8. Singles'
  BY <1>1, <1>4, <1>5, <1>7 DEF Singles, Loaded, Single
<1>9. Ghosts'
  <2> SUFFICES ASSUME NEW s \in Slots("enemy"), NEW p \in Spots, Ghost(s, p)'
               PROVE  Empty("enemy", p)' /\ (npc'["enemy"][s].create => left'["enemy"][p] # 0)
    BY DEF Ghosts
  <2>1. npc'["enemy"][s] = npc["enemy"][s] /\ Ghost(s, p)
    BY <1>2, <1>3, SpotKindsAre DEF Ghost
  <2>2. BeforeRespawn(p)
    BY <1>1 DEF BeforeRespawn
  <2> QED
    BY <1>1, <1>4, <1>7, <2>1, <2>2, SpotKindsAre DEF Ghosts
<1>10. Loading' /\ NoneNew' /\ Changing' /\ NoChangeYet'
  BY <1>1, <1>4 DEF SInv, Loading, Loads, NoneNew, Changing, NoChangeYet
<1> QED
  BY <1>6, <1>8, <1>9, <1>10 DEF SInv, InGame

LEMMA MarkedNpc ==
  ASSUME NEW v \in Npc, NEW w, w = [v EXCEPT !.destroy = TRUE]
  PROVE  w.on = v.on /\ w.create = v.create /\ w.spot = v.spot /\ w.from = v.from /\ w.destroy
BY DEF Npc

\* The NPCs of D are marked for removal, and their spots wait, or not.
Marked(k, D) ==
  /\ \A j \in SpotKinds : \A s \in Slots(j) :
       /\ npc'[j][s].on = npc[j][s].on /\ npc'[j][s].create = npc[j][s].create
       /\ npc'[j][s].spot = npc[j][s].spot /\ npc'[j][s].from = npc[j][s].from
       /\ npc'[j][s].destroy <=> npc[j][s].destroy \/ (j = k /\ s \in D)
  /\ \A j \in SpotKinds, p \in Spots :
       \/ left'[j][p] = left[j][p]
       \/ j = k /\ left'[j][p] # 0 /\ \E s \in D : npc[k][s].spot = p

\* Their spots are empty then, also of those that are hit a second time.
LEMMA MarkedSpots ==
  ASSUME IInv, SInv, NEW k \in SpotKinds, NEW D \in SUBSET Slots(k), Marked(k, D),
         \A s \in D : npc[k][s].on,
         \/ k = "enemy" /\ pc \in {"weapons", "move"} /\ pc' \in {"weapons", "shoot"}
         \/ k = "item" /\ pc = "items" /\ pc' = "items" /\ \A s \in D : ~npc[k][s].destroy,
         pc = "weapons" <=> pc' = "weapons",
         UNCHANGED <<map, changeMap, starting, games>>
  PROVE  SInv'
<1>1. OfThisMap /\ Singles /\ Ghosts /\ Changing
  BY DEF SInv, InGame
<1>2. \A j \in SpotKinds, p \in Spots : Single(j, p)
  BY <1>1 DEF Singles, Loaded
<1>3. \A j \in SpotKinds, p \in Spots : \A s \in Slots(j) :
        AliveAt(j, s, p)' <=> AliveAt(j, s, p) /\ ~(j = k /\ s \in D)
  BY DEF Marked, AliveAt
<1>4. \A j \in SpotKinds, p \in Spots : Empty(j, p) => Empty(j, p)'
  BY <1>3 DEF Empty
<1>5. ASSUME NEW s \in D, NEW p \in Spots, npc[k][s].spot = p
      PROVE  Empty(k, p)'
  <2>1. CASE npc[k][s].destroy
    <3>1. Ghost(s, p) /\ s \in Slots("enemy") /\ BeforeRespawn(p) /\ k = "enemy"
      BY <1>5, <2>1 DEF Ghost, BeforeRespawn
    <3>2. Empty(k, p)
      BY <1>1, <3>1 DEF Ghosts
    <3> QED
      BY <1>4, <3>2
  <2>2. CASE ~npc[k][s].destroy
    <3>1. AliveAt(k, s, p)
      BY <1>5, <2>2 DEF AliveAt
    <3> QED
      BY <1>2, <1>3, <3>1 DEF Single, Empty
  <2> QED
    BY <2>1, <2>2
<1>6. OfThisMap'
  BY <1>1 DEF OfThisMap, Marked
<1>7. Singles'
  <2> SUFFICES ASSUME NEW j \in SpotKinds, NEW p \in Spots PROVE Single(j, p)'
    BY DEF Singles
  <2>1. left'[j][p] >= 0 => Empty(j, p)'
    BY <1>2, <1>4, <1>5 DEF Marked, Single
  <2> QED
    BY <1>2, <1>3, <2>1 DEF Single
<1>8. Ghosts'
  <2> SUFFICES ASSUME NEW s \in Slots("enemy"), NEW p \in Spots, Ghost(s, p)'
               PROVE  /\ (npc["enemy"][s].create \/ BeforeRespawn(p) => Empty("enemy", p))'
                      /\ (npc["enemy"][s].create /\ BeforeRespawn(p) => left["enemy"][p] # 0)'
    BY DEF Ghosts
  <2>1. CASE k = "enemy"
    <3>1. BeforeRespawn(p)
      BY <2>1 DEF BeforeRespawn
    <3>2. npc["enemy"][s].on /\ npc["enemy"][s].spot = p /\ npc'["enemy"][s].create = npc["enemy"][s].create
      BY SpotKindsAre DEF Ghost, Marked
    <3>3. CASE s \in D
      <4>1. Empty("enemy", p)'
        BY <1>5, <2>1, <3>2, <3>3
      <4>2. npc["enemy"][s].create => left["enemy"][p] # 0
        <5>1. CASE npc["enemy"][s].destroy
          BY <1>1, <3>1, <3>2, <5>1 DEF Ghosts, Ghost
        <5>2. CASE ~npc["enemy"][s].destroy
          <6>1. ~Empty("enemy", p)
            BY <3>2, <5>2 DEF Empty, AliveAt
          <6> QED
            BY <1>2, <6>1, SpotKindsAre DEF Single
        <5> QED
          BY <5>1, <5>2
      <4>3. left'["enemy"][p] = left["enemy"][p] \/ left'["enemy"][p] # 0
        BY SpotKindsAre DEF Marked
      <4> QED
        BY <3>2, <4>1, <4>2, <4>3
    <3>4. CASE s \notin D
      <4>1. Ghost(s, p)
        BY <3>4, SpotKindsAre DEF Ghost, Marked
      <4>2. Empty("enemy", p) /\ (npc["enemy"][s].create => left["enemy"][p] # 0)
        BY <1>1, <3>1, <4>1 DEF Ghosts
      <4>3. left'["enemy"][p] = left["enemy"][p] \/ left'["enemy"][p] # 0
        BY SpotKindsAre DEF Marked
      <4> QED
        BY <1>4, <3>2, <4>2, <4>3, SpotKindsAre
    <3> QED
      BY <3>3, <3>4
  <2>2. CASE k = "item"
    <3>1. ~BeforeRespawn(p)' /\ ~BeforeRespawn(p)
      BY <2>2 DEF BeforeRespawn
    <3>2. Ghost(s, p) /\ npc'["enemy"][s].create = npc["enemy"][s].create
      BY <2>2, SpotKindsAre DEF Ghost, Marked
    <3> QED
      BY <1>1, <1>4, <3>1, <3>2, SpotKindsAre DEF Ghosts
  <2> QED
    BY <2>1, <2>2
<1>9. Changing'
  BY <1>1 DEF Changing, Marked
<1>10. Loading' /\ NoneNew' /\ NoChangeYet'
  BY DEF SInv, Loading, Loads, NoneNew, NoChangeYet
<1> QED
  BY <1>6, <1>7, <1>8, <1>9, <1>10 DEF SInv, InGame

LEMMA WeaponHitsSpots ==
  ASSUME OneGame, IInv, SInv, WeaponHits
  PROVE  SInv'
<1>1. /\ cur \in Slots("weapon") /\ "weapon" \in Kinds /\ "weapon" \notin SpotKinds
      /\ NpcType(npc) /\ left \in [SpotKinds -> [Spots -> Int]]
  BY NpcLifeAssumption DEF WeaponHits, IInv, TypeOK, NpcType, Slots, Kinds, SpotKinds
<1> DEFINE n == [npc EXCEPT !["weapon"][cur].destroy = TRUE]
<1>2. PICK D \in SUBSET On("enemy") : Kill(n, D)
  BY DEF WeaponHits
<1>3. NpcType(n) /\ \A k \in SpotKinds : n[k] = npc[k]
  BY <1>1, MarkedLater, SpotKindsAre DEF NpcType
<1> HIDE DEF n
<1>4. /\ D \in SUBSET Slots("enemy") /\ \A s \in D : npc["enemy"][s].on
  BY DEF On
<1>5. \A s \in Slots("enemy") :
        npc'["enemy"][s] = IF s \in D THEN [npc["enemy"][s] EXCEPT !.destroy = TRUE] ELSE npc["enemy"][s]
  BY <1>2, <1>3, SpotKindsAre DEF Kill, NpcType
<1>6. npc'["item"] = npc["item"]
  BY <1>2, <1>3, SpotKindsAre DEF Kill, NpcType
<1>7. PICK t \in Waits :
        left' = [left EXCEPT !["enemy"] = [p \in Spots |->
                   IF \E s \in D : npc["enemy"][s].spot = p THEN t ELSE @[p]]]
  BY <1>2 DEF Kill
<1>8. t # 0
  BY DEF OneGame
<1>9. Marked("enemy", D)
  <2>1. \A s \in Slots("enemy") : npc["enemy"][s] \in Npc
    BY <1>1, SpotKindsAre DEF NpcType
  <2>2. \A s \in Slots("enemy") :
          /\ npc'["enemy"][s].on = npc["enemy"][s].on /\ npc'["enemy"][s].create = npc["enemy"][s].create
          /\ npc'["enemy"][s].spot = npc["enemy"][s].spot /\ npc'["enemy"][s].from = npc["enemy"][s].from
          /\ npc'["enemy"][s].destroy <=> npc["enemy"][s].destroy \/ s \in D
    BY <1>5, <2>1 DEF Npc
  <2>3. \A p \in Spots : /\ left'["item"][p] = left["item"][p]
                         /\ \/ left'["enemy"][p] = left["enemy"][p]
                            \/ left'["enemy"][p] # 0 /\ \E s \in D : npc["enemy"][s].spot = p
    BY <1>1, <1>7, <1>8 DEF SpotKinds
  <2> QED
    BY <1>6, <2>2, <2>3 DEF Marked, SpotKinds
<1>10. /\ pc = "weapons" /\ pc' = "weapons"
       /\ UNCHANGED <<map, changeMap, starting, games>>
  BY DEF WeaponHits, Unchanged
<1> QED
  BY <1>4, <1>9, <1>10, MarkedSpots, SpotKindsAre

\* An enemy dies of itself, or destroys another: its spot does not wait.
LEMMA EnemyDestroysSpots ==
  ASSUME IInv, SInv, EnemyDestroys
  PROVE  SInv'
<1>1. PICK d \in On("enemy") : npc' = [npc EXCEPT !["enemy"][d].destroy = TRUE]
  BY DEF EnemyDestroys
<1>2. /\ pc = "move" /\ pc' = "shoot"
      /\ UNCHANGED <<left, map, changeMap, starting, games>>
  BY DEF EnemyDestroys, level, Unchanged
<1>3. NpcType(npc) /\ d \in Slots("enemy") /\ npc["enemy"][d].on
  BY DEF IInv, TypeOK, NpcType, On
<1>4. Marked("enemy", {d})
  <2>1. \A k \in SpotKinds : \A s \in Slots(k) : npc[k][s] \in Npc
    BY <1>3, SpotKindsAre DEF NpcType
  <2>2. \A k \in SpotKinds : \A s \in Slots(k) :
          npc'[k][s] = IF k = "enemy" /\ s = d THEN [npc[k][s] EXCEPT !.destroy = TRUE] ELSE npc[k][s]
    BY <1>1, <1>3, SpotKindsAre DEF NpcType
  <2>3. \A k \in SpotKinds : \A s \in Slots(k) :
          /\ npc'[k][s].on = npc[k][s].on /\ npc'[k][s].create = npc[k][s].create
          /\ npc'[k][s].spot = npc[k][s].spot /\ npc'[k][s].from = npc[k][s].from
          /\ npc'[k][s].destroy <=> npc[k][s].destroy \/ (k = "enemy" /\ s \in {d})
    <3> TAKE k \in SpotKinds
    <3> TAKE s \in Slots(k)
    <3>1. CASE k = "enemy" /\ s = d
      <4>1. npc[k][s] \in Npc /\ npc'[k][s] = [npc[k][s] EXCEPT !.destroy = TRUE]
        BY <2>1, <2>2, <3>1
      <4> QED
        BY <3>1, <4>1, MarkedNpc
    <3>2. CASE ~(k = "enemy" /\ s = d)
      BY <2>2, <3>2
    <3> QED
      BY <3>1, <3>2
  <2> QED
    BY <1>2, <2>3 DEF Marked
<1> QED
  BY <1>2, <1>3, <1>4, MarkedSpots, SpotKindsAre

\* A player takes an item that nobody has taken.
LEMMA TakeItemSpots ==
  ASSUME OneGame, IInv, SInv, TakeItem
  PROVE  SInv'
<1>1. PICK d \in Slots("item") : d = cur
  BY NpcLifeAssumption DEF TakeItem, IInv, TypeOK, Slots
<1>2. /\ pc = "items" /\ pc' = "items" /\ npc' = [npc EXCEPT !["item"][d].destroy = TRUE]
      /\ npc["item"][d].on /\ ~npc["item"][d].destroy
      /\ UNCHANGED <<map, changeMap, starting, games>>
  BY <1>1 DEF TakeItem, Alive, Unchanged
<1>3. NpcType(npc) /\ left \in [SpotKinds -> [Spots -> Int]]
  BY DEF IInv, TypeOK, NpcType
<1>4. PICK t \in Waits :
        left' = [left EXCEPT !["item"] = [q \in Spots |-> IF q = npc["item"][d].spot THEN t ELSE @[q]]]
  BY <1>1 DEF TakeItem
<1>5. Marked("item", {d})
  <2>1. \A k \in SpotKinds : \A s \in Slots(k) : npc[k][s] \in Npc
    BY <1>3, SpotKindsAre DEF NpcType
  <2>2. \A k \in SpotKinds : \A s \in Slots(k) :
          npc'[k][s] = IF k = "item" /\ s = d THEN [npc[k][s] EXCEPT !.destroy = TRUE] ELSE npc[k][s]
    BY <1>2, <1>3, SpotKindsAre DEF NpcType
  <2>3. \A k \in SpotKinds : \A s \in Slots(k) :
          /\ npc'[k][s].on = npc[k][s].on /\ npc'[k][s].create = npc[k][s].create
          /\ npc'[k][s].spot = npc[k][s].spot /\ npc'[k][s].from = npc[k][s].from
          /\ npc'[k][s].destroy <=> npc[k][s].destroy \/ (k = "item" /\ s \in {d})
    <3> TAKE k \in SpotKinds
    <3> TAKE s \in Slots(k)
    <3>1. CASE k = "item" /\ s = d
      <4>1. npc[k][s] \in Npc /\ npc'[k][s] = [npc[k][s] EXCEPT !.destroy = TRUE]
        BY <2>1, <2>2, <3>1
      <4> QED
        BY <3>1, <4>1, MarkedNpc
    <3>2. CASE ~(k = "item" /\ s = d)
      BY <2>2, <3>2
    <3> QED
      BY <3>1, <3>2
  <2>4. t # 0
    BY DEF OneGame
  <2>5. \A k \in SpotKinds, p \in Spots :
          \/ left'[k][p] = left[k][p]
          \/ k = "item" /\ left'[k][p] # 0 /\ \E s \in {d} : npc["item"][s].spot = p
    BY <1>3, <1>4, <2>4 DEF SpotKinds
  <2> QED
    BY <2>3, <2>5 DEF Marked
<1> QED
  BY <1>2, <1>5, MarkedSpots, SpotKindsAre

-----------------------------------------------------------------------------
LEMMA NextSInv ==
  ASSUME OneGame, IInv, SInv, [Next]_vars
  PROVE  SInv'
<1>1. CASE Environment
  BY <1>1, LobbyStays, StartGameSpots DEF Environment
<1>2. CASE Server
  BY <1>2, BackToLobby, FramesStay, SendFrameSpots, LoopsStay, RemoveObjectsSpots,
     CopyMapSpots, LoadSpots, ShotsStay, WeaponHitsSpots, EnemyMovesSpots,
     EnemyDestroysSpots, RespawnSpots, TakeItemSpots DEF Server
<1>3. CASE UNCHANGED vars
  <2>1. UNCHANGED <<pc, cur, starting, npc, left, map, changeMap, games>>
    BY <1>3 DEF vars, control, level
  <2>2. InGame'
    BY <2>1 DEF SInv, InGame, OfThisMap, Loading, Loaded, Singles, Single, Empty, AliveAt,
       Ghosts, Ghost, BeforeRespawn, NoneNew, Changing
  <2>3. NoChangeYet'
    BY <2>1 DEF SInv, NoChangeYet
  <2> QED
    BY <2>2, <2>3 DEF SInv
<1> QED
  BY <1>1, <1>2, <1>3 DEF Next

LEMMA SpotsInvariant ==
  ASSUME OneGame
  PROVE  Spec => [](IInv /\ SInv)
<1>1. ~Resets \/ MaxGames = 1
  BY DEF OneGame
<1>2. Init => IInv /\ SInv
  BY InitIInv, SpotsInit
<1>3. IInv /\ SInv /\ [Next]_vars => (IInv /\ SInv)'
  BY <1>1, NextIInv, NextSInv
<1> QED
  BY <1>2, <1>3, PTL DEF Spec

\* A set with one element at most.
LEMMA AtMostOne ==
  ASSUME NEW T, \A x, y \in T : x = y
  PROVE  Cardinality(T) <= 1
<1>1. CASE T = {}
  <2>1. Cardinality(T) = 0
    BY <1>1, FS_EmptySet
  <2> QED
    BY <2>1
<1>2. CASE T # {}
  <2>1. PICK x \in T : T = {x}
    BY <1>2
  <2>2. Cardinality(T) = 1
    BY <2>1, FS_Singleton
  <2> QED
    BY <2>2
<1> QED
  BY <1>1, <1>2

LEMMA SInvImplies == IInv /\ SInv => OneNpcPerSpot /\ OldNpcsGone
<1> SUFFICES ASSUME IInv, SInv PROVE OneNpcPerSpot /\ OldNpcsGone
  OBVIOUS
<1>1. OneNpcPerSpot
  <2> SUFFICES ASSUME pc \notin {"loadEnemies", "loadItems", "lobby"},
                      NEW k \in SpotKinds, NEW p \in Spots
               PROVE  LET there == {s \in Slots(k) : Alive(k, s) /\ npc[k][s].spot = p}
                      IN  Cardinality(there) <= 1 /\ (left[k][p] >= 0 => there = {})
    BY DEF OneNpcPerSpot
  <2> DEFINE there == {s \in Slots(k) : Alive(k, s) /\ npc[k][s].spot = p}
  <2>1. Single(k, p)
    BY DEF SInv, InGame, Singles, Loaded
  <2>2. \A s \in Slots(k) : s \in there <=> AliveAt(k, s, p)
    BY DEF Alive, AliveAt
  <2>3. \A s, t \in there : s = t
    BY <2>1, <2>2 DEF Single
  <2>4. left[k][p] >= 0 => there = {}
    BY <2>1, <2>2 DEF Single, Empty
  <2> HIDE DEF there
  <2>5. Cardinality(there) <= 1
    BY <2>3, AtMostOne
  <2> QED
    BY <2>4, <2>5 DEF there
<1>2. OldNpcsGone
  BY DEF SInv, InGame, OfThisMap, OldNpcsGone, On
<1> QED
  BY <1>1, <1>2

\* OneNpcPerSpot: hitting an enemy twice, or in the frame it was created, taking
\* items and changing the map never make two NPCs of one spot, for any maps,
\* slots and spots in the first game (srv_missile_move, calc_item,
\* create_map_enemy).
THEOREM SpotsHaveOne ==
  ASSUME OneGame
  PROVE  Spec => []OneNpcPerSpot
BY SpotsInvariant, SInvImplies, PTL

\* OldNpcsGone: once the map was changed no enemy or item of the old one is left,
\* for any maps, slots and spots in the first game (handle_map_change).
THEOREM NoneOfTheOldMap ==
  ASSUME OneGame
  PROVE  Spec => []OldNpcsGone
BY SpotsInvariant, SInvImplies, PTL
==============================================================================
