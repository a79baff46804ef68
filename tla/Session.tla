------------------------------- MODULE Session -------------------------------
(***************************************************************************)
(* The connection and frame loop of the game server: connect.c, server.c,  *)
(* receive.c, the client loop of send.c, network.c and main.c.             *)
(*                                                                         *)
(* The server is one thread.  It waits in the lobby until the owner starts *)
(* a game, and then repeats frames: at most one lobby event, a message to  *)
(* every player, one batch of keys from every player, the calculations,    *)
(* and the removal of the players that went away.  Signals may set the     *)
(* quit and reset flags between any two steps, and client programs connect *)
(* and disconnect at any time.                                             *)
(*                                                                         *)
(* TCP is reliable and ordered, so what a client program knows once it has *)
(* read everything sent so far is kept in `told' and `view'; Lockstep.tla  *)
(* looks at the messages in flight.  The calculations of a frame           *)
(* (srv_calc_frame) change neither list and have modules of their own.     *)
(***************************************************************************)
EXTENDS Naturals, SequencesExt

CONSTANTS
  Client,    \* client programs, each with at most one connection
  KeepAlive  \* TRUE if the server was started with -keep (no idle timeout)

ASSUME KeepAliveAssumption == KeepAlive \in BOOLEAN

VARIABLES
  pc,        \* where srv_do_frame is
  cur,       \* position in the player list of the loop being run
  joined,    \* server->joined: clients in the lobby, newest first
  client,    \* server->client: clients that play
  type,      \* client->type
  state,     \* client->state
  id,        \* client->jack.id
  running,   \* server->game_running
  lost,      \* disc > 0: a player went away in this frame
  disc,      \* server->disconnected_id[0 .. n_disconnected-1]
  quit,      \* server->quit
  reset,     \* server->reset
  conn,      \* the connection of each client program
  told,      \* the last client type sent to it
  view       \* its array of jacks

server == <<pc, cur, joined, client, type, state, id, running, lost, disc>>
signals == <<quit, reset>>
remote == <<conn, told, view>>
vars == <<server, signals, remote>>

Types == {"none", "OWNER", "NORMAL", "JOINED"}
Phases == {"frame", "verify", "select", "send", "receive", "remove", "exit"}

(***************************************************************************)
(* The array jacks[0 .. n_jacks-1] of a client program: `on' are the       *)
(* entries with active = 1, `unset' the ones that were allocated (with     *)
(* malloc or realloc) and whose bitmaps were never loaded.  The `active'   *)
(* of those is never set either, but every drawing loop tests it           *)
(* (game.c:157, 793, 857, 897, 1013), so that any of them may be drawn:    *)
(* whoever has one may show `on' and any part of `unset'.                  *)
(***************************************************************************)
NoJacks == [n |-> 0, on |-> {}, unset |-> {}]

\* srv_find_free_id and join_client look at the ids of all players.
IdsOf(s) == {id[c] : c \in ToSet(s)}

FirstFreeIdByCount(i) == i = Len(client)

\* srv_find_free_id: the first number that is the id of no player.
FirstFreeId(i) ==
  /\ i \notin IdsOf(client)
  /\ \A j \in 0..(i - 1) : j \in IdsOf(client)

JackCountWithoutOwn(n, i) ==
  /\ n \in {j + 1 : j \in IdsOf(client)}
  /\ \A j \in IdsOf(client) : j < n

\* The number of jacks a client that joins with id i is told: the highest
\* id in the game plus 1.
IsJackCount(n, i) ==
  /\ n \in {j + 1 : j \in IdsOf(client) \cup {i}}
  /\ \A j \in IdsOf(client) \cup {i} : j < n

\* startup.c, NJACKS and then one SETJACKNPC for each id in the set.  What
\* lies between the ids is allocated and nothing of it is set but its id.
StartupView(n, ids) ==
  [n |-> n, on |-> ids, unset |-> (0..(n - 1)) \ ids]

\* client.c, NPCCREATE of a jack: join_jack grows the array when needed, and
\* else destroys the bitmaps of the entry before it loads others.  An unset
\* entry has as many bitmaps, at such addresses, as memory happened to hold:
\* the program goes on, or ends here, which to the server is the lost
\* connection that ReceiveQuit allows every player in the same frame.
JoinJack(v, i) ==
  [n |-> IF i >= v.n THEN i + 1 ELSE v.n,
   on |-> v.on \cup {i},
   unset |-> (v.unset \cup v.n..(i - 1)) \ {i}]

RemoveJacksButLast(v, ids) ==
  [v EXCEPT !.on = @ \ {i \in ids : i < v.n - 1}]

\* client.c, NPCREMOVE of a jack, once for each id: remove_jack.
RemoveJacks(v, ids) ==
  [v EXCEPT !.on = @ \ {i \in ids : i < v.n}]
-----------------------------------------------------------------------------
Init ==
  /\ pc = "frame" /\ cur = 1
  /\ joined = <<>> /\ client = <<>>
  /\ type = [c \in Client |-> "none"]
  /\ state = [c \in Client |-> "ALIVE"]
  /\ id = [c \in Client |-> 0]
  /\ running = FALSE /\ lost = FALSE /\ disc = <<>>
  /\ quit = FALSE /\ reset = FALSE
  /\ conn = [c \in Client |-> "closed"]
  /\ told = [c \in Client |-> "none"]
  /\ view = [c \in Client |-> NoJacks]

\* The connections of the clients in S are closed, and their records freed.
Close(S) ==
  /\ conn' = [c \in Client |-> IF c \in S THEN "closed" ELSE conn[c]]
  /\ view' = [c \in Client |-> IF c \in S THEN NoJacks ELSE view[c]]

Free(f, S, dflt) == [c \in Client |-> IF c \in S THEN dflt ELSE f[c]]

\* SETCLIENTTYPE to the clients of S (a freed record has type none).
TellTypes(S) ==
  told' = [c \in Client |-> IF c \in S THEN type'[c] ELSE told[c]]
-----------------------------------------------------------------------------
(***************************************************************************)
(* The environment: client programs and signals.                           *)
(***************************************************************************)
Connect(c) ==
  /\ conn[c] = "closed"
  /\ conn' = [conn EXCEPT ![c] = "connecting"]
  /\ UNCHANGED <<server, signals, told, view>>

\* SIGINT or SIGTERM.  It wakes the server up only if it is blocked in
\* select(); one that arrives just before select() is seen after it.
Interrupt ==
  /\ pc # "exit" /\ (~quit \/ pc = "select")
  /\ quit' = TRUE
  /\ pc' = IF pc = "select" THEN "frame" ELSE pc
  /\ UNCHANGED <<cur, joined, client, type, state, id, running, lost, disc,
                 reset, remote>>

\* SIGUSR1.  A blocked select() is simply called again.
ResetSignal ==
  /\ pc # "exit" /\ ~reset
  /\ reset' = TRUE
  /\ UNCHANGED <<server, quit, remote>>
-----------------------------------------------------------------------------
(***************************************************************************)
(* The start of a frame.                                                   *)
(***************************************************************************)
\* srv_reset_server: QUIT to everybody, both lists freed, flags cleared.
\* n_disconnected is not one of them.
ResetServer ==
  LET gone == ToSet(client) \cup ToSet(joined)
  IN /\ Close(gone)
     /\ type' = Free(type, gone, "none")
     /\ TellTypes(gone)
     /\ state' = Free(state, gone, "ALIVE")
     /\ id' = Free(id, gone, 0)
     /\ joined' = <<>> /\ client' = <<>>
     /\ running' = FALSE /\ reset' = FALSE
     /\ UNCHANGED <<cur, lost, disc, quit>>

KeepGoingWithPlayers == ~quit \/ running

\* main.c: while (! server->quit).
KeepGoing == ~quit

ResetDue == reset

BeginFrame ==
  /\ pc = "frame" /\ KeepGoing /\ ~ResetDue
  /\ pc' = "verify"
  /\ UNCHANGED <<cur, joined, client, type, state, id, running, lost, disc,
                 signals, remote>>

BeginFrameWithReset ==
  /\ pc = "frame" /\ KeepGoing /\ ResetDue
  /\ pc' = "verify"
  /\ ResetServer

\* The main loop ends and srv_close disconnects everybody.
Exit ==
  /\ pc = "frame" /\ ~KeepGoing
  /\ pc' = "exit"
  /\ ResetServer
-----------------------------------------------------------------------------
(***************************************************************************)
(* srv_verify_data: at most one lobby event in a frame.                    *)
(***************************************************************************)
Verifying == pc \in {"verify", "select"}

\* With no game running srv_verify_data blocks in select().
Block ==
  /\ pc = "verify" /\ ~running
  /\ pc' = "select"
  /\ UNCHANGED <<cur, joined, client, type, state, id, running, lost, disc,
                 signals, remote>>

EventDoneFromZero(isRunning) ==
  /\ pc' = IF isRunning THEN "send" ELSE "frame"
  /\ cur' = 0

\* After the event the frame ends here, unless a game is (now) running.
EventDone(isRunning) ==
  /\ pc' = IF isRunning THEN "send" ELSE "frame"
  /\ cur' = 1

NothingHappened ==
  /\ pc = "verify" /\ running
  /\ EventDone(TRUE)
  /\ UNCHANGED <<joined, client, type, state, id, running, lost, disc,
                 signals, remote>>

IdleTimeout ==
  /\ pc = "select" /\ ~KeepAlive
  /\ quit' = TRUE
  /\ EventDone(FALSE)
  /\ UNCHANGED <<joined, client, type, state, id, running, lost, disc, reset,
                 remote>>

\* The type of a new client: the owner is the first to come to a lobby
\* that has none.
NewClientType ==
  IF running THEN "JOINED"
  ELSE IF \E c \in ToSet(joined) : type[c] = "OWNER" THEN "NORMAL"
  ELSE "OWNER"

AcceptClient(c) ==
  /\ Verifying /\ conn[c] = "connecting"
  /\ EventDone(running)
  /\ conn' = [conn EXCEPT ![c] = "open"]
  /\ joined' = Cons(c, joined)
  /\ type' = [type EXCEPT ![c] = NewClientType]
  /\ TellTypes({c})
  /\ UNCHANGED <<client, state, id, running, lost, disc, signals, view>>

\* accept() fails or there is no memory for the client.
RefuseClient(c) ==
  /\ Verifying /\ conn[c] = "connecting"
  /\ EventDone(running)
  /\ conn' = [conn EXCEPT ![c] = "closed"]
  /\ UNCHANGED <<joined, client, type, state, id, running, lost, disc,
                 signals, told, view>>

\* A message that changes neither list: a name, a team, a map, a START or
\* a JOIN of a client that may not send it.
IgnoredMessage(c) ==
  /\ Verifying /\ c \in ToSet(joined)
  /\ EventDone(running)
  /\ UNCHANGED <<joined, client, type, state, id, running, lost, disc,
                 signals, remote>>

\* process_joined_client, START of the owner: server_start_game.  The map
\* may fail to load; and the flags may have been set since the frame began.
StartGame(c) ==
  LET n == Len(joined)
      everybody == ToSet(joined)
  IN /\ Verifying /\ c \in everybody /\ type[c] = "OWNER"
     /\ ~quit /\ ~reset /\ ~running /\ client = <<>>
     /\ EventDone(TRUE)
     /\ id' = [d \in Client |-> IF d \in everybody
                                THEN CHOOSE i \in 0..(n - 1) : joined[i + 1] = d
                                ELSE id[d]]
     /\ view' = [d \in Client |-> IF d \in everybody
                                  THEN StartupView(n, 0..(n - 1))
                                  ELSE view[d]]
     /\ running' = TRUE
     /\ client' = joined /\ joined' = <<>>
     /\ UNCHANGED <<type, state, lost, disc, signals, conn, told>>

\* JOIN of a client that connected during the game: join_client.
JoinClient(c) ==
  /\ Verifying /\ c \in ToSet(joined) /\ type[c] = "JOINED" /\ running
  /\ EventDone(TRUE)
  /\ \E p \in 1..Len(joined) :
       joined[p] = c /\ joined' = RemoveAt(joined, p)
  /\ client' = Cons(c, client)
  /\ \E i \in 0..Len(client) :
       /\ FirstFreeId(i)
       /\ id' = [id EXCEPT ![c] = i]
       /\ \E n \in {j + 1 : j \in IdsOf(client) \cup {i}} :
            /\ IsJackCount(n, i)
            /\ view' = [d \in Client |->
                 IF d = c THEN StartupView(n, IdsOf(client) \cup {i})
                 ELSE IF d \in ToSet(client) THEN JoinJack(view[d], i)
                 ELSE view[d]]
  /\ UNCHANGED <<type, state, running, lost, disc, signals, conn, told>>

ElectsInGame(c) == running /\ Len(joined) > 1 /\ type[c] = "OWNER"

\* srv_remove_client elects another owner if the owner leaves a lobby.
Elects(c) == ~running /\ Len(joined) > 1 /\ type[c] = "OWNER"

\* QUIT, or the connection is lost: srv_remove_client.
LeaveLobby(c) ==
  /\ Verifying /\ c \in ToSet(joined)
  /\ EventDone(running)
  /\ Close({c})
  /\ \E p \in 1..Len(joined) :
       joined[p] = c /\ joined' = RemoveAt(joined, p)
  /\ type' = [d \in Client |->
       IF d = c THEN "none"
       ELSE IF Elects(c) /\ d = joined'[1] THEN "OWNER"
       ELSE type[d]]
  /\ TellTypes(IF Elects(c) THEN {c, joined'[1]} ELSE {c})
  /\ UNCHANGED <<client, state, id, running, lost, disc, signals>>
-----------------------------------------------------------------------------
(***************************************************************************)
(* One frame of the game.                                                  *)
(***************************************************************************)
\* send_client: the jacks that were removed in the last frame, and then
\* the rest of the frame.
SendClient ==
  /\ pc = "send" /\ cur <= Len(client) /\ ~quit /\ ~reset
  /\ cur' = cur + 1
  /\ view' = [view EXCEPT ![client[cur]] = RemoveJacks(@, ToSet(disc))]
  /\ UNCHANGED <<pc, joined, client, type, state, id, running, lost, disc,
                 signals, conn, told>>

\* It does nothing once a flag is set.
SendNothing ==
  /\ pc = "send" /\ cur <= Len(client) /\ (quit \/ reset)
  /\ cur' = cur + 1
  /\ UNCHANGED <<pc, joined, client, type, state, id, running, lost, disc,
                 signals, remote>>

SendDone ==
  /\ pc = "send" /\ cur > Len(client)
  /\ pc' = "receive" /\ cur' = 1
  /\ disc' = <<>> /\ lost' = FALSE
  /\ UNCHANGED <<joined, client, type, state, id, running, signals, remote>>

\* receive_client: blocks until the client ends its batch of keys.
ReceiveKeys ==
  /\ pc = "receive" /\ cur <= Len(client)
  /\ cur' = cur + 1
  /\ UNCHANGED <<pc, joined, client, type, state, id, running, lost, disc,
                 signals, remote>>

\* receive_client: QUIT, or the connection is lost.
ReceiveQuit ==
  /\ pc = "receive" /\ cur <= Len(client)
  /\ state[client[cur]] = "ALIVE" /\ ~quit /\ ~reset
  /\ cur' = cur + 1
  /\ Close({client[cur]})
  /\ state' = [state EXCEPT ![client[cur]] = "DISCONNECT"]
  /\ lost' = TRUE
  /\ UNCHANGED <<pc, joined, client, type, id, running, disc, signals, told>>

\* srv_calc_frame runs here; it changes nothing of this module.
ReceiveDone ==
  /\ pc = "receive" /\ cur > Len(client)
  /\ pc' = "remove" /\ cur' = 1
  /\ UNCHANGED <<joined, client, type, state, id, running, lost, disc,
                 signals, remote>>

\* remove_disconnected_clients, one client of the list.
RemoveDisconnected ==
  /\ pc = "remove" /\ lost /\ cur <= Len(client)
  /\ LET c == client[cur]
     IN /\ state[c] = "DISCONNECT"
        /\ disc' = Append(disc, id[c])
        /\ type' = [type EXCEPT ![c] = "none"]
        /\ TellTypes({c})
        /\ state' = [state EXCEPT ![c] = "ALIVE"]
        /\ id' = [id EXCEPT ![c] = 0]
  /\ client' = RemoveAt(client, cur)
  /\ UNCHANGED <<pc, cur, joined, running, lost, signals, conn, view>>

KeepConnected ==
  /\ pc = "remove" /\ lost /\ cur <= Len(client)
  /\ state[client[cur]] # "DISCONNECT"
  /\ cur' = cur + 1
  /\ UNCHANGED <<pc, joined, client, type, state, id, running, lost, disc,
                 signals, remote>>

RemoveDoneTooEarly == pc = "remove" /\ (lost => cur >= Len(client))

RemoveDone == pc = "remove" /\ (lost => cur > Len(client))

NobodyPlays == client = <<>>

EndFrame ==
  /\ RemoveDone /\ ~NobodyPlays
  /\ pc' = "frame" /\ cur' = 1
  /\ UNCHANGED <<joined, client, type, state, id, running, lost, disc,
                 signals, remote>>

\* server_end_game: the first client of the lobby becomes its owner.
EndGame ==
  /\ RemoveDone /\ NobodyPlays
  /\ pc' = "frame" /\ cur' = 1
  /\ running' = FALSE /\ disc' = <<>>
  /\ type' = [c \in Client |->
       IF c \notin ToSet(joined) THEN type[c]
       ELSE IF c = joined[1] THEN "OWNER" ELSE "NORMAL"]
  /\ TellTypes(ToSet(joined))
  /\ UNCHANGED <<joined, client, state, id, lost, signals, conn, view>>
-----------------------------------------------------------------------------
Environment == (\E c \in Client : Connect(c)) \/ Interrupt \/ ResetSignal

LobbyEvent(c) ==
  \/ AcceptClient(c) \/ RefuseClient(c) \/ IgnoredMessage(c)
  \/ StartGame(c) \/ JoinClient(c) \/ LeaveLobby(c)

Frame ==
  \/ SendClient \/ SendNothing \/ SendDone
  \/ ReceiveKeys \/ ReceiveQuit \/ ReceiveDone
  \/ RemoveDisconnected \/ KeepConnected \/ EndFrame \/ EndGame

Server ==
  \/ BeginFrame \/ BeginFrameWithReset \/ Exit
  \/ Block \/ NothingHappened \/ IdleTimeout
  \/ \E c \in Client : LobbyEvent(c)
  \/ Frame

Terminated == pc = "exit" /\ UNCHANGED vars

Next == Environment \/ Server \/ Terminated

Spec == Init /\ [][Next]_vars

(***************************************************************************)
(* The server is a running process, and a client program that plays ends   *)
(* every frame with KEYEND or goes away (Lockstep.tla), so that no step of *)
(* the server is put off for ever.  Nothing is assumed of the environment. *)
(***************************************************************************)
FairSpec == Spec /\ WF_vars(Server)
-----------------------------------------------------------------------------
(***************************************************************************)
(* Properties.                                                             *)
(***************************************************************************)
View == [n : Nat, on : SUBSET Nat, unset : SUBSET Nat]

\* Every variable has its type (server.h, struct SERVER and CLIENT).
TypeOK ==
  /\ pc \in Phases /\ cur \in Nat \ {0}
  /\ joined \in Seq(Client) /\ client \in Seq(Client)
  /\ type \in [Client -> Types]
  /\ state \in [Client -> {"ALIVE", "DISCONNECT"}]
  /\ id \in [Client -> Nat]
  /\ running \in BOOLEAN /\ lost \in BOOLEAN /\ disc \in Seq(Nat)
  /\ quit \in BOOLEAN /\ reset \in BOOLEAN
  /\ conn \in [Client -> {"closed", "connecting", "open"}]
  /\ told \in [Client -> Types]
  /\ view \in [Client -> View]

\* A lobby without a game has exactly one owner as long as somebody is in
\* it, whoever came, left or was left over from a game; and while a game
\* runs nobody in the lobby can start another (connect.c elects an owner
\* in accept, in srv_remove_client and in server_end_game).
LobbyHasOneOwner ==
  LET owners == {i \in 1..Len(joined) : type[joined[i]] = "OWNER"}
  IN IF running THEN \A i \in 1..Len(joined) : type[joined[i]] = "JOINED"
     ELSE joined # <<>> => \E i \in owners : owners = {i}

\* Every client in the lobby was told the type the server checks its START
\* and JOIN against, so a client that believes it is the owner is.
LobbyKnowsItsTypes ==
  \A i \in 1..Len(joined) : told[joined[i]] = type[joined[i]]

\* No two players have the same jack id.  The state of a client's own jack
\* ends a frame (client_receive), so a second jack with its id would end
\* the frame too early and put client and server out of step.
JackIdsUnique ==
  \A i, j \in 1..Len(client) : id[client[i]] = id[client[j]] => i = j

\* Every player has room for, and has loaded the bitmaps of, the jack of
\* every other player: client.c drops the state of an id that is not below
\* n_jacks and draws the bitmaps of one that is.
PlayersKnowAllJacks ==
  \A i, j \in 1..Len(client) :
    LET v == view[client[i]]  jack == id[client[j]]
    IN state[client[i]] = "ALIVE" => jack < v.n /\ jack \notin v.unset

\* When all players were sent a frame, none of them shows a jack whose
\* player left (among the entries that were set, see EntriesAreSet).
NoGhostJacks ==
  (pc = "receive" /\ ~quit /\ ~reset) =>
    \A i \in 1..Len(client) :
      view[client[i]].on \subseteq IdsOf(client)

\* A game runs exactly while it has players: the lobby is never shut out by
\* a game nobody plays, and nobody is left behind in a game that ended.
GameHasPlayers == pc \in {"frame", "verify", "exit"} => (running <=> client # <<>>)

\* Once it was told to quit the server ends, from any state, if it was not
\* started with -keep.
QuitEnds == quit ~> (pc = "exit")

\* A player that went away is taken off the list.
LostPlayersRemoved ==
  \A c \in Client : (state[c] = "DISCONNECT") ~> (c \notin ToSet(client) \/ state[c] = "ALIVE")

\* send.c:33 "Inform about disconnected clients", server.h:210
\* "disconnected clients": a frame removes only jacks of players that left.
RemovesOnlyDisconnected ==
  pc = "send" /\ ~quit /\ ~reset => ToSet(disc) \cap IdsOf(client) = {}

\* No player has an entry in its array of jacks that was never set: the
\* drawing loops (game.c:157 and others) test `active' of all entries, and
\* join_jack destroys the bitmaps of one it gives to another jack.
EntriesAreSet ==
  \A i \in 1..Len(client) :
    state[client[i]] = "ALIVE" => view[client[i]].unset = {}

=============================================================================
