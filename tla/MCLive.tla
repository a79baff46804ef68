------------------------------- MODULE MCLive -------------------------------
(***************************************************************************)
(* The liveness of the session (Session, two client programs) and of the   *)
(* objects of a map (NpcLife, one client) in one run.  A behavior belongs  *)
(* to one of the two; the variables of the other keep one value.           *)
(***************************************************************************)
EXTENDS Integers, Sequences

CONSTANTS c1, c2, castle, cave, NoMap

VARIABLES
  part,                \* "session" or "objects"
  pc, cur, reset,      \* of the server
  joined, client, type, state, id, running, lost, disc, quit, conn, told, view,
  starting, players, gone, npc, left, map, mapFile, newMap, changeMap, games, shown, mapOf

S == INSTANCE Session WITH Client <- {c1, c2}, KeepAlive <- FALSE

\* The item of the castle is a teleporter; objects come back never or after
\* two frames.
N == INSTANCE NpcLife WITH
  Client <- {c1}, Map <- {castle, cave}, Default <- castle,
  NSlots <- [weapon |-> 1, enemy |-> 1, item |-> 2], NSpots <- 1,
  Teleporter <- {<<castle, 0>>}, Waits <- {-30, 2}, MaxGames <- 1, Resets <- TRUE

sessionVars == <<joined, client, type, state, id, running, lost, disc, quit, conn, told, view>>
npcVars == <<starting, players, gone, npc, left, map, mapFile, newMap, changeMap, games, shown, mapOf>>
vars == <<part, pc, cur, reset, sessionVars, npcVars>>

Unused == 0
NoObjects ==
  /\ starting = Unused /\ players = Unused /\ gone = Unused /\ npc = Unused /\ left = Unused
  /\ map = Unused /\ mapFile = Unused /\ newMap = Unused /\ changeMap = Unused
  /\ games = Unused /\ shown = Unused /\ mapOf = Unused
NoSession ==
  /\ joined = <<>> /\ client = <<>> /\ type = Unused /\ state = Unused /\ id = Unused
  /\ running = Unused /\ lost = Unused /\ disc = Unused /\ quit = FALSE /\ conn = Unused
  /\ told = Unused /\ view = Unused

LiveInit ==
  \/ part = "session" /\ S!Init /\ NoObjects
  \/ part = "objects" /\ N!Init /\ NoSession

Session == part = "session" /\ S!Next /\ UNCHANGED <<part, npcVars>>
Objects == part = "objects" /\ N!Next /\ UNCHANGED <<part, sessionVars>>
SessionServer == part = "session" /\ S!Server /\ UNCHANGED <<part, npcVars>>
ObjectsServer == part = "objects" /\ N!Server /\ UNCHANGED <<part, sessionVars>>

\* The server is a running process.
LiveSpec ==
  /\ LiveInit /\ [][Session \/ Objects]_vars
  /\ WF_vars(SessionServer) /\ WF_vars(ObjectsServer)

\* Session.QuitEnds: a server that is told to quit does.
ServerQuits == part = "session" /\ quit ~> pc = "exit"

\* Session.LostPlayersRemoved: a player that went away is taken off the list.
Away(c) == part = "session" /\ state[c] = "DISCONNECT"
TakenOff(c) == part = "session" /\ (state[c] = "ALIVE" \/ \A i \in DOMAIN client : client[i] # c)
LostPlayersRemoved == \A c \in {c1, c2} : Away(c) ~> TakenOff(c)

\* NpcLife.ItemsComeBack: an item that was taken and is to come back does,
\* however often memory is short when its time is over; unless it is short at
\* each further attempt, or the game ends.
Missing == part = "objects" /\ left["item"][0] >= 0
Back == part = "objects" /\ (left["item"][0] = -1 \/ pc = "lobby")
Attempt == part = "objects" /\ pc = "respawnItems" /\ cur = 0
ItemsComeBack == Missing ~> (Back \/ [](Attempt => N!OutOfMemory("item")))

\* NpcLife.MapChangeEnds: a change of the map ends, or the game does.
MapChangeEnds == part = "objects" /\ changeMap # 0 ~> changeMap = 0 \/ pc = "lobby"
=============================================================================
