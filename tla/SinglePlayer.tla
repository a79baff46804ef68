---------------------------- MODULE SinglePlayer ----------------------------
(***************************************************************************)
(* The program for a single player: client and server are one thread, and  *)
(* the network is the two buffers of common.c, here queues of messages     *)
(* (NetBuffer).  The client calls the server once in every round of its    *)
(* menu (client/startup.c) and in every frame of a game (client/game.c);   *)
(* a call is one frame of the server (connect.c, srv_do_frame).            *)
(*                                                                         *)
(* Messages that set the name, the jack, the map or the team are all       *)
(* "SET"; those that prepare a game are "SETUP"; of a frame only the state *)
(* of the player's jack, which ends it, is kept, and of the keys KEYEND.   *)
(***************************************************************************)
EXTENDS Naturals, FiniteSets, SequencesExt

CONSTANTS
  Options,        \* what send_init_messages may send, given the program's options: sequences
                  \* of "SET" and "START"
  MaxConnections  \* bound: calls of client_open

MaxWaiting == 4   \* bound: messages in a queue when the user gives a command

VARIABLES
  pc,           \* what the thread does next
  screen,       \* the part of the client it returns to
  started,      \* mains->done is 1: the game starts when the keys are handled
  fading,       \* the screen fades in (game_start): errors are not looked at
  open,         \* server->open of the client
  owner,        \* mains->client_type is CLIENT_OWNER
  joined,       \* server->joined is not empty
  player,       \* server->client is not empty
  alive,        \* its state is CLST_ALIVE
  toServer,     \* net_buffer[0]
  toClient,     \* net_buffer[1]
  connections,  \* calls of client_open so far
  options,      \* what send_init_messages sends
  hasty         \* the user gave a command without waiting for the one before

user == <<options, hasty>>
clientVars == <<screen, started, fading, open, owner, connections, user>>
serverVars == <<joined, player, alive>>
network == <<toServer, toClient>>
vars == <<pc, clientVars, serverVars, network>>

running == player   \* server->game_running, between two frames

ToServer(s) == toServer' = toServer \o s
ToClient(s) == toClient' = toClient \o s
-----------------------------------------------------------------------------
\* What send_init_messages sends: START or JOIN, if anything, is the last.
Orders(s) ==
  \A i \in DOMAIN s : s[i] \in {"SET", "START"} /\ (s[i] = "START" => i = Len(s))
OptionsAssumption == \A s \in Options : s \in Seq({"SET", "START"}) /\ Orders(s)

Init ==
  /\ pc = "connect" /\ screen = "menu" /\ started = FALSE /\ fading = FALSE
  /\ open = FALSE /\ owner = FALSE /\ connections = 0
  /\ joined = FALSE /\ player = FALSE /\ alive = FALSE
  /\ toServer = <<>> /\ toClient = <<>>
  /\ options \in Options /\ hasty = FALSE

\* client_open: srvlib_init forgets all clients.
ClientOpen ==
  /\ connections < MaxConnections
  /\ connections' = connections + 1
  /\ open' = TRUE
  /\ joined' = FALSE /\ player' = FALSE /\ alive' = FALSE
  /\ UNCHANGED <<network, user>>

\* client_close: srv_reset_server sends QUIT to whoever is on a list.
CloseServer(client) ==
  /\ toClient' = (IF joined \/ player THEN Append(client, "QUIT") ELSE client)
  /\ joined' = FALSE /\ player' = FALSE /\ alive' = FALSE

\* client_wait, until its loop.
Startup ==
  /\ pc = "connect"
  /\ ClientOpen
  /\ screen' = "menu" /\ started' = FALSE
  /\ pc' = "poll"
  /\ UNCHANGED <<fading, owner>>

\* check_server_input calls the server if there is a connection.
Poll ==
  /\ pc = "poll"
  /\ pc' = IF open THEN "verify" ELSE "keys"
  /\ owner' = (open /\ owner)
  /\ UNCHANGED <<screen, started, fading, open, connections, user, serverVars, network>>
-----------------------------------------------------------------------------
\* The server.

Return == IF screen = "menu" THEN "input" ELSE "draw"

\* With nobody connected srv_verify_data reports a new connection.
AcceptClient ==
  /\ pc = "verify" /\ ~running /\ ~joined
  /\ joined' = TRUE
  /\ ToClient(<<"SERVERINFO", "TYPE">>)
  /\ pc' = Return
  /\ UNCHANGED <<clientVars, player, alive, toServer>>

\* server_start_game.
StartGame ==
  /\ player' = TRUE /\ alive' = TRUE /\ joined' = FALSE
  /\ ToClient(<<"SETUP", "START">>)
  /\ pc' = "send"

\* Mutant of StartFails: no RETURN for a map that cannot be read.
StartFailsSilently ==
  /\ pc' = Return
  /\ UNCHANGED <<serverVars, toClient>>

\* START with a map that cannot be read.  (The silent return for a map without
\* tiles, connect.c:178, is left out: no map of the editor is like that.)
StartFails ==
  /\ ToClient(<<"RETURN">>)
  /\ pc' = Return
  /\ UNCHANGED serverVars

\* process_joined_client: SET and START are answered, QUIT removes the client,
\* anything else is ignored.
LobbyMessage ==
  /\ pc = "verify" /\ ~running /\ joined /\ toServer # <<>>
  /\ toServer' = Tail(toServer)
  /\ \/ Head(toServer) = "START" /\ (StartGame \/ StartFails)
     \/ /\ Head(toServer) # "START"
        /\ joined' = (Head(toServer) # "QUIT")
        /\ ToClient(IF Head(toServer) = "SET" THEN <<"RETURN">> ELSE <<>>)
        /\ pc' = Return
        /\ UNCHANGED <<player, alive>>
  /\ UNCHANGED clientVars

NoLobbyMessage ==
  /\ pc = "verify" /\ (running \/ (joined /\ toServer = <<>>))
  /\ pc' = IF running THEN "send" ELSE Return
  /\ UNCHANGED <<clientVars, serverVars, network>>

\* srv_send_frame.
SendFrame ==
  /\ pc = "send"
  /\ ToClient(<<"STATE">>)
  /\ pc' = IF toServer # <<>> THEN "receive" ELSE "remove"
  /\ UNCHANGED <<clientVars, serverVars, toServer>>

Lost == alive' = FALSE /\ pc' = "remove"

ReceiveWithoutEnd ==
  /\ pc = "receive" /\ toServer # <<>>
  /\ toServer' = Tail(toServer)
  /\ \/ Head(toServer) = "QUIT" /\ Lost
     \/ Head(toServer) # "QUIT" /\ UNCHANGED <<pc, alive>>
  /\ UNCHANGED <<clientVars, joined, player, toClient>>

\* receive_client reads until KEYEND; SET and START are not handled.
ReceiveMessage ==
  /\ pc = "receive" /\ toServer # <<>>
  /\ toServer' = Tail(toServer)
  /\ \/ Head(toServer) = "KEYEND" /\ pc' = "remove" /\ UNCHANGED alive
     \/ Head(toServer) = "QUIT" /\ Lost
     \/ Head(toServer) \notin {"KEYEND", "QUIT"} /\ UNCHANGED <<pc, alive>>
  /\ UNCHANGED <<clientVars, joined, player, toClient>>

\* ... and takes an empty buffer for a connection that was closed.
ReceiveNothing ==
  /\ pc = "receive" /\ toServer = <<>>
  /\ Lost
  /\ UNCHANGED <<clientVars, joined, player, network>>

\* remove_disconnected_clients and, if nobody is left, server_end_game.
RemoveDisconnected ==
  /\ pc = "remove"
  /\ player' = alive
  /\ pc' = Return
  /\ UNCHANGED <<clientVars, joined, alive, network>>

Server ==
  \/ AcceptClient \/ LobbyMessage \/ NoLobbyMessage \/ SendFrame \/ ReceiveMessage
  \/ ReceiveNothing \/ RemoveDisconnected
-----------------------------------------------------------------------------
\* The menu of the client.

TakeMessage == pc = "input" /\ toClient # <<>>

\* handle_server_input of the messages that keep it reading.
InputMessage ==
  /\ TakeMessage /\ Head(toClient) \notin {"QUIT", "START"}
  /\ toClient' = Tail(toClient)
  /\ owner' = (owner \/ Head(toClient) = "TYPE")
  /\ ToServer(IF Head(toClient) = "TYPE" THEN options ELSE <<>>)
  /\ UNCHANGED <<pc, screen, started, fading, open, connections, user, serverVars>>

\* ... of the map of a game, if it cannot be read.
InputBadMap ==
  /\ TakeMessage /\ Head(toClient) = "SETUP"
  /\ ToServer(<<"QUIT">>)
  /\ CloseServer(Tail(toClient))
  /\ open' = FALSE /\ owner' = FALSE
  /\ pc' = "keys"
  /\ UNCHANGED <<screen, started, fading, connections, user>>

\* ... of QUIT: "Connection closed by server QUIT".
InputQuit ==
  /\ TakeMessage /\ Head(toClient) = "QUIT"
  /\ CloseServer(Tail(toClient))
  /\ open' = FALSE /\ owner' = FALSE
  /\ pc' = "keys"
  /\ UNCHANGED <<screen, started, fading, connections, user, toServer>>

InputPastStart ==
  /\ TakeMessage /\ Head(toClient) = "START"
  /\ toClient' = Tail(toClient)
  /\ started' = TRUE
  /\ UNCHANGED <<pc, screen, fading, open, owner, connections, user, serverVars, toServer>>

\* ... of START.
InputStart ==
  /\ TakeMessage /\ Head(toClient) = "START"
  /\ toClient' = Tail(toClient)
  /\ started' = TRUE
  /\ pc' = "keys"
  /\ UNCHANGED <<screen, fading, open, owner, connections, user, serverVars, toServer>>

InputDone ==
  /\ pc = "input" /\ toClient = <<>>
  /\ pc' = "keys"
  /\ UNCHANGED <<clientVars, serverVars, network>>

CanCommand ==
  /\ pc = "keys" /\ open
  /\ Len(toServer) < MaxWaiting
  /\ hasty' = (hasty \/ toServer # <<>>)

\* The other screens of the menu; the one of the jack sends two messages.
\* They close at once when the game starts.
Choose ==
  /\ CanCommand /\ ~started
  /\ \E s \in {<<"SET">>, <<"SET", "SET">>} : ToServer(s)
  /\ pc' = "poll"
  /\ UNCHANGED <<screen, started, fading, open, owner, connections, options>>
  /\ UNCHANGED <<serverVars, toClient>>

GameOrMenu == IF started THEN "play" ELSE "poll"

EnterGame ==
  /\ screen' = IF started THEN "game" ELSE "menu"
  /\ fading' = started
  /\ pc' = GameOrMenu

\* exec_play_option.
Play ==
  /\ CanCommand /\ owner
  /\ ToServer(<<"START">>)
  /\ EnterGame
  /\ UNCHANGED <<started, open, owner, connections, options, serverVars, toClient>>

NoCommand ==
  /\ pc = "keys"
  /\ EnterGame
  /\ UNCHANGED <<started, open, owner, connections, user, serverVars, network>>

Disconnect ==
  /\ pc = "keys" /\ open /\ ~started
  /\ CloseServer(toClient)
  /\ open' = FALSE
  /\ pc' = "poll"
  /\ UNCHANGED <<screen, started, fading, owner, connections, user, toServer>>

Connect ==
  /\ pc = "keys" /\ ~open
  /\ ClientOpen
  /\ pc' = "poll"
  /\ UNCHANGED <<screen, started, fading, owner>>

Quit ==
  /\ pc = "keys"
  /\ pc' = "exit"
  /\ UNCHANGED <<clientVars, serverVars, network>>

Menu ==
  \/ Startup \/ Poll \/ InputMessage \/ InputBadMap \/ InputQuit \/ InputStart
  \/ InputDone \/ Choose \/ Play \/ NoCommand \/ Disconnect \/ Connect \/ Quit
-----------------------------------------------------------------------------
\* The game of the client.

\* client_send: the keys.
ClientSend ==
  /\ pc = "play"
  /\ ToServer(<<"KEYEND">>)
  /\ pc' = "verify"
  /\ UNCHANGED <<clientVars, serverVars, toClient>>

\* client_send returns 1, as the user wants to leave; do_game after its loop,
\* and main calls client_wait again.
Escape ==
  /\ pc = "play" /\ ~fading
  /\ ToServer(<<"QUIT">>)
  /\ CloseServer(toClient)
  /\ pc' = "connect"
  /\ UNCHANGED clientVars

\* client_receive reads until the state of the player's jack; then the screen
\* goes on fading in, or not.
DrawFrame ==
  /\ pc = "draw" /\ toClient # <<>> /\ Head(toClient) = "STATE"
  /\ toClient' = Tail(toClient)
  /\ pc' = "play"
  /\ \E f \in BOOLEAN : fading' = (fading /\ f)
  /\ UNCHANGED <<screen, started, open, owner, connections, user, serverVars, toServer>>

IgnoreMessage ==
  /\ pc = "draw" /\ toClient # <<>> /\ Head(toClient) \notin {"STATE", "QUIT"}
  /\ toClient' = Tail(toClient)
  /\ UNCHANGED <<pc, clientVars, serverVars, toServer>>

ReceiveWaits ==
  /\ pc = "draw" /\ toClient # <<>> /\ Head(toClient) = "QUIT"
  /\ fading' = FALSE
  /\ \/ fading /\ pc' = "play" /\ toClient' = Tail(toClient) /\ UNCHANGED <<serverVars, toServer>>
     \/ ~fading /\ pc' = "connect" /\ ToServer(<<"QUIT">>) /\ CloseServer(Tail(toClient))
  /\ UNCHANGED <<screen, started, open, owner, connections, user>>

\* "Server disconnected or is on error", or QUIT was read.  game_start does not
\* look at it: the loop of the game goes on.
ReceiveFails ==
  /\ pc = "draw" /\ (toClient # <<>> => Head(toClient) = "QUIT")
  /\ fading' = FALSE
  /\ LET rest == IF toClient = <<>> THEN <<>> ELSE Tail(toClient)
     IN \/ /\ fading
           /\ pc' = "play" /\ toClient' = rest
           /\ UNCHANGED <<serverVars, toServer>>
        \/ /\ ~fading
           /\ pc' = "connect" /\ ToServer(<<"QUIT">>) /\ CloseServer(rest)
  /\ UNCHANGED <<screen, started, open, owner, connections, user>>

Game == ClientSend \/ Escape \/ DrawFrame \/ IgnoreMessage \/ ReceiveFails

Next == Server \/ Menu \/ Game

Spec == Init /\ [][Next]_vars

\* The thread never stops by itself: the user may leave every key alone.
ThreadGoesOn ==
  \/ Server \/ Game \/ Startup \/ Poll
  \/ InputMessage \/ InputQuit \/ InputStart \/ InputDone \/ NoCommand
FairSpec == Spec /\ WF_vars(ThreadGoesOn)
-----------------------------------------------------------------------------
Messages == {"SERVERINFO", "TYPE", "RETURN", "SETUP", "START", "STATE", "QUIT"}

\* One thread is in one place, and a client is on one list at most.
TypeOK ==
  /\ pc \in {"connect", "poll", "verify", "send", "receive", "remove", "input",
             "keys", "play", "draw", "exit"}
  /\ screen \in {"menu", "game"}
  /\ {started, fading, open, owner, joined, player, alive, hasty} \subseteq BOOLEAN
  /\ connections \in 0..MaxConnections /\ options \in Options
  /\ toServer \in Seq({"SET", "START", "KEYEND", "QUIT"}) /\ toClient \in Seq(Messages)
  /\ ~(joined /\ player)

StatesIn(s) == Cardinality({i \in DOMAIN s : s[i] = "STATE"})

\* The frame the server sends as it starts a game is still unread when the
\* game of the client begins: from then on the screen is one frame behind the
\* server, never more, so the buffer never holds more than two frames.  (For a
\* user who is not hasty: a second START queued behind the first starts games
\* the client is not ready for.)
OneFrameBehind ==
  pc = "play" /\ ~hasty =>
    StatesIn(toClient) <= 1 /\ (player => StatesIn(toClient) = 1)

\* "Return -1 if the client disconnected" (receive.c:17): a client that is
\* removed from a game did leave it.  (A hasty user may be thrown out: commands
\* behind START are read as keys, and ReceiveNothing follows.)
RemovedOnesLeft ==
  [][alive /\ ~alive' /\ pc = "receive" /\ ~hasty => toServer # <<>> /\ Head(toServer) = "QUIT"]_vars

\* "Reset the server: disconnect all clients, free all memory" (server.c:219):
\* a new client finds nothing of the one before it.
FreshBuffers ==
  pc = "verify" /\ ~running /\ ~joined /\ connections > 1 => toClient = <<>> /\ toServer = <<>>

\* In a game a frame that was begun ends: with the next one, or in the menu.
FrameEnds == screen = "game" /\ pc = "verify" ~> pc \in {"play", "connect"}

\* Whoever starts a game gets it, or an answer that says why not.
StartIsAnswered ==
  pc = "poll" /\ joined /\ toServer = <<"START">> ~>
    \/ hasty
    \/ screen = "game" \/ ~open \/ pc = "exit"
    \/ pc = "input" /\ "RETURN" \in ToSet(toClient)
=============================================================================
