------------------------------ MODULE Lockstep ------------------------------
(***************************************************************************)
(* The frames of a network game, with the messages in flight.  The server  *)
(* sends a frame to every player, then reads the keys of one player after  *)
(* the other, up to KEYEND; a client reads a frame, then sends its keys.   *)
(* Reads block and have no timeout on either side.                         *)
(*                                                                         *)
(* Who may start or join a game is the subject of Session: here a command  *)
(* of a client in the lobby is obeyed or not.  A client stands for one     *)
(* connection; one that comes back earlier than the server noticed it had  *)
(* gone is another client.                                                 *)
(***************************************************************************)
EXTENDS Naturals, FiniteSets, SequencesExt

CONSTANTS
  Client,
  Key          \* the keys sent to the server, KEY_RIGHT to KEY_USE

ASSUME LockstepAssumption == IsFiniteSet(Client)

MaxCommands == 1   \* bound: commands of a client that wait for the server

VARIABLES
  pc,        \* where the server is in srv_do_frame
  cur,       \* position in its list of players
  reset,     \* server->reset
  pending,   \* connections not accepted yet
  joined,    \* server->joined
  client,    \* server->client
  lost,      \* players with state CLST_DISCONNECT
  pressed,   \* jack.key of each client
  toServer, toClient,
  at,        \* where the program of each client is
  fading,    \* its game_start, where errors and wishes to leave are not looked at
  held,      \* the keys it sent as pressed
  ignored    \* it was asked to leave, and went on

serverVars == <<pc, cur, reset, pending, joined, client, lost, pressed>>
clientVars == <<at, fading, held, ignored>>
vars == <<serverVars, clientVars, toServer, toClient>>

KeyPress(P, R) == [type |-> "KEYPRESS", pressed |-> P, released |-> R]
KeyEnd == [type |-> "KEYEND"]
Quit == [type |-> "QUIT"]
Command == [type |-> "COMMAND"]   \* START or JOIN

Players == ToSet(client)
running == client # <<>>   \* server->game_running, between two frames

ServerHas(c) == c \in pending \cup joined \cup (Players \ lost)
ClientHas(c) == at[c] # "off"

\* What is written to a connection the other side has closed is lost.
SendTo(S, m) ==
  toClient' = [c \in Client |-> IF c \in S /\ ClientHas(c) THEN Append(toClient[c], m)
                                ELSE toClient[c]]
SendFrom(c, ms) ==
  toServer' = [toServer EXCEPT ![c] = IF ServerHas(c) THEN @ \o ms ELSE @]
-----------------------------------------------------------------------------
Init ==
  /\ pc = "frame" /\ cur = 1 /\ reset = FALSE
  /\ pending = {} /\ joined = {} /\ client = <<>> /\ lost = {}
  /\ pressed = [c \in Client |-> {}]
  /\ toServer = [c \in Client |-> <<>>] /\ toClient = [c \in Client |-> <<>>]
  /\ at = [c \in Client |-> "off"] /\ fading = [c \in Client |-> FALSE]
  /\ held = [c \in Client |-> {}] /\ ignored = {}

\* SIGUSR1.
ResetSignal ==
  /\ ~reset
  /\ reset' = TRUE
  /\ UNCHANGED <<pc, cur, pending, joined, client, lost, pressed>>
  /\ UNCHANGED <<clientVars, toServer, toClient>>

\* srv_reset_server, at the beginning of srv_do_frame.
Reset ==
  /\ pc = "frame" /\ reset
  /\ reset' = FALSE
  /\ SendTo(joined \cup Players, Quit)
  /\ joined' = {} /\ client' = <<>>
  /\ toServer' = [c \in Client |-> IF c \in pending THEN toServer[c] ELSE <<>>]
  /\ UNCHANGED <<pc, cur, pending, lost, pressed, clientVars>>

\* One event of the lobby, or none, before a frame (srv_verify_data).
LobbyDone ==
  /\ pc' = IF client' # <<>> THEN "send" ELSE "frame"
  /\ cur' = 1
  /\ UNCHANGED <<reset, lost, clientVars>>

AcceptWithoutReset(c) ==
  /\ pc = "frame" /\ ~reset /\ c \in pending
  /\ pending' = pending \ {c} /\ joined' = joined \cup {c}
  /\ UNCHANGED <<client, pressed, toServer, toClient>>
  /\ LobbyDone

Accept(c) ==
  /\ pc = "frame" /\ ~reset /\ c \in pending
  /\ pending' = pending \ {c} /\ joined' = joined \cup {c}
  /\ pressed' = [pressed EXCEPT ![c] = {}]
  /\ UNCHANGED <<client, toServer, toClient>>
  /\ LobbyDone

\* process_joined_client: a command may be refused; START takes the whole
\* lobby into the game, JOIN only its sender.  The lobby has no order here, so
\* any one order of its clients stands for all.
LobbyMessage(c) ==
  /\ pc = "frame" /\ ~reset /\ c \in joined /\ toServer[c] # <<>>
  /\ toServer' = [toServer EXCEPT ![c] = Tail(@)]
  /\ \/ UNCHANGED <<joined, client, toClient>>
     \/ /\ Head(toServer[c]) = Command
        /\ LET S == IF running THEN {c} ELSE joined
           IN /\ client' = SetToSeq(S) \o client
              /\ joined' = joined \ S
              /\ SendTo(S, [type |-> "START"])
  /\ UNCHANGED <<pending, pressed>>
  /\ LobbyDone

LobbyEnd(c) ==
  /\ pc = "frame" /\ ~reset /\ c \in joined /\ toServer[c] = <<>> /\ ~ClientHas(c)
  /\ joined' = joined \ {c}
  /\ UNCHANGED <<pending, client, pressed, toServer, toClient>>
  /\ LobbyDone

NoEvent ==
  /\ pc = "frame" /\ ~reset /\ running
  /\ UNCHANGED <<pending, joined, client, pressed, toServer, toClient>>
  /\ LobbyDone
-----------------------------------------------------------------------------
\* srv_send_frame.
Send ==
  /\ pc = "send" /\ cur <= Len(client)
  /\ SendTo({client[cur]}, [type |-> "FRAME"])
  /\ cur' = cur + 1
  /\ UNCHANGED <<pc, reset, pending, joined, client, lost, pressed, clientVars, toServer>>

SendDoneFromSecond ==
  /\ pc = "send" /\ cur > Len(client)
  /\ pc' = "receive" /\ cur' = 2
  /\ UNCHANGED <<reset, pending, joined, client, lost, pressed, clientVars, toServer, toClient>>

SendDone ==
  /\ pc = "send" /\ cur > Len(client)
  /\ pc' = "receive" /\ cur' = 1
  /\ UNCHANGED <<reset, pending, joined, client, lost, pressed, clientVars, toServer, toClient>>

\* receive_client of the player at cur, unless a reset is due.
Receive ==
  /\ pc = "receive" /\ cur <= Len(client)
  /\ IF reset THEN cur' = cur + 1 /\ UNCHANGED pc
              ELSE pc' = "read" /\ UNCHANGED cur
  /\ UNCHANGED <<reset, pending, joined, client, lost, pressed, clientVars, toServer, toClient>>

Received ==
  /\ pc' = "receive" /\ cur' = cur + 1
  /\ UNCHANGED <<reset, pending, joined, client>>

ReadMessage ==
  /\ pc = "read"
  /\ LET c == client[cur]
         m == Head(toServer[c])
     IN /\ toServer[c] # <<>>
        /\ toServer' = [toServer EXCEPT ![c] = Tail(@)]
        /\ \/ m = KeyEnd /\ Received /\ UNCHANGED <<lost, pressed>>
           \/ m = Quit /\ Received /\ lost' = lost \cup {c} /\ UNCHANGED pressed
           \/ /\ m.type = "KEYPRESS"
              /\ pressed' = [pressed EXCEPT ![c] = (@ \cup m.pressed) \ m.released]
              /\ UNCHANGED <<pc, cur, reset, pending, joined, client, lost>>
           \/ /\ m = Command
              /\ UNCHANGED serverVars
  /\ UNCHANGED <<clientVars, toClient>>

ReadEndAgain ==
  /\ pc = "read"
  /\ toServer[client[cur]] = <<>> /\ ~ClientHas(client[cur])
  /\ UNCHANGED vars

ReadEnd ==
  /\ pc = "read"
  /\ LET c == client[cur]
     IN /\ toServer[c] = <<>> /\ ~ClientHas(c)
        /\ lost' = lost \cup {c}
  /\ Received
  /\ UNCHANGED <<pressed, clientVars, toServer, toClient>>

\* c comes before d in the list s.
Before(s, c, d) == \E i, j \in DOMAIN s : i < j /\ s[i] = c /\ s[j] = d

\* remove_disconnected_clients: the others keep their order; a game without
\* players ends.
EndFrame ==
  /\ pc = "receive" /\ cur > Len(client)
  /\ client' \in SetToSeqs(Players \ lost)
  /\ \A c, d \in Players \ lost : Before(client', c, d) <=> Before(client, c, d)
  /\ lost' = {}
  /\ pc' = "frame" /\ cur' = 1
  /\ UNCHANGED <<reset, pending, joined, pressed, clientVars, toServer, toClient>>

Server ==
  \/ Reset \/ NoEvent \/ Send \/ SendDone \/ Receive \/ ReadMessage \/ ReadEnd \/ EndFrame
  \/ \E c \in Client : Accept(c) \/ LobbyMessage(c) \/ LobbyEnd(c)
-----------------------------------------------------------------------------
\* The program of a client.

Connect(c) ==
  /\ at[c] = "off" /\ ~ServerHas(c) /\ c \notin Players
  /\ pending' = pending \cup {c}
  /\ at' = [at EXCEPT ![c] = "menu"]
  /\ toServer' = [toServer EXCEPT ![c] = <<>>] /\ toClient' = [toClient EXCEPT ![c] = <<>>]
  /\ ignored' = ignored \ {c}
  /\ UNCHANGED <<pc, cur, reset, joined, client, lost, pressed, fading, held>>

Close(c) ==
  /\ at' = [at EXCEPT ![c] = "off"]
  /\ fading' = [fading EXCEPT ![c] = FALSE]
  /\ held' = [held EXCEPT ![c] = {}]
  /\ toClient' = [toClient EXCEPT ![c] = <<>>]
  /\ UNCHANGED <<serverVars, ignored>>

\* START or JOIN, chosen in the menu.
Choose(c) ==
  /\ at[c] = "menu" /\ Len(toServer[c]) < MaxCommands
  /\ SendFrom(c, <<Command>>)
  /\ UNCHANGED <<serverVars, clientVars, toClient>>

\* handle_server_input: START begins the game, QUIT closes the connection.
Input(c) ==
  /\ at[c] = "menu" /\ toClient[c] # <<>>
  /\ \/ /\ Head(toClient[c]).type = "START"
        /\ toClient' = [toClient EXCEPT ![c] = Tail(@)]
        /\ at' = [at EXCEPT ![c] = "receive"]
        /\ fading' = [fading EXCEPT ![c] = TRUE]
        /\ UNCHANGED <<serverVars, held, ignored>>
     \/ Head(toClient[c]) = Quit /\ Close(c)
  /\ UNCHANGED toServer

\* The connection is closed in the menu, by the user or as the server closed it,
\* or the program ends at any time.
End(c) ==
  /\ ClientHas(c)
  /\ Close(c)
  /\ UNCHANGED toServer

\* client_receive, up to the state of the player's jack.
ReceiveFrame(c) ==
  /\ at[c] = "receive" /\ toClient[c] # <<>> /\ Head(toClient[c]).type = "FRAME"
  /\ toClient' = [toClient EXCEPT ![c] = Tail(@)]
  /\ at' = [at EXCEPT ![c] = "send"]
  /\ UNCHANGED <<serverVars, fading, held, ignored, toServer>>

Leave(c) ==
  /\ SendFrom(c, <<Quit>>)
  /\ Close(c)

\* client_receive reads QUIT, or the server has closed the connection.
ReceiveFails(c) ==
  /\ at[c] = "receive"
  /\ \/ toClient[c] # <<>> /\ Head(toClient[c]) = Quit
     \/ toClient[c] = <<>> /\ ~ServerHas(c)
  /\ IF fading[c]
     THEN /\ fading' = [fading EXCEPT ![c] = FALSE]
          /\ toClient' = [toClient EXCEPT ![c] = IF @ = <<>> THEN @ ELSE Tail(@)]
          /\ UNCHANGED <<serverVars, at, held, ignored, toServer>>
     ELSE Leave(c)

\* Mutant of SendKeys: KEYEND is sent only when a key has changed.
SendChangedKeys(c) ==
  /\ at[c] = "send"
  /\ \E new \in SUBSET Key :
       /\ held' = [held EXCEPT ![c] = new]
       /\ SendFrom(c, IF new = held[c] THEN <<>>
                      ELSE <<KeyPress(new \ held[c], held[c] \ new), KeyEnd>>)
  /\ \E f \in BOOLEAN : fading' = [fading EXCEPT ![c] = @ /\ f]
  /\ at' = [at EXCEPT ![c] = "receive"]
  /\ UNCHANGED <<serverVars, ignored, toClient>>

\* client_send: the keys that changed, and KEYEND.  The first frames fade in.
SendKeys(c) ==
  /\ at[c] = "send"
  /\ \E new \in SUBSET Key :
       /\ held' = [held EXCEPT ![c] = new]
       /\ SendFrom(c, IF new = held[c] THEN <<KeyEnd>>
                      ELSE <<KeyPress(new \ held[c], held[c] \ new), KeyEnd>>)
  /\ \E f \in BOOLEAN : fading' = [fading EXCEPT ![c] = @ /\ f]
  /\ at' = [at EXCEPT ![c] = "receive"]
  /\ UNCHANGED <<serverVars, ignored, toClient>>

\* client_send returns 1 when the user leaves: the game ends, with QUIT.  But
\* game_start only ends the fading, and the next frame is read with no KEYEND
\* sent.
UserLeaves(c) ==
  /\ at[c] = "send"
  /\ IF fading[c]
     THEN /\ fading' = [fading EXCEPT ![c] = FALSE]
          /\ at' = [at EXCEPT ![c] = "receive"]
          /\ ignored' = ignored \cup {c}
          /\ UNCHANGED <<serverVars, held, toServer, toClient>>
     ELSE Leave(c)

Program(c) == Input(c) \/ ReceiveFrame(c) \/ ReceiveFails(c) \/ SendKeys(c)

Next ==
  \/ Server \/ ResetSignal
  \/ \E c \in Client : Program(c) \/ Connect(c) \/ Choose(c) \/ End(c) \/ UserLeaves(c)

Spec == Init /\ [][Next]_vars

\* Server and clients are running programs, none of which the user stops; a
\* text that is typed into a menu is finished at some time.
FairSpec == Spec /\ WF_vars(Server) /\ \A c \in Client : WF_vars(Program(c))
-----------------------------------------------------------------------------
Places == {"off", "menu", "receive", "send"}
ClientMessage ==
  {KeyEnd, Quit, Command} \cup {KeyPress(P, R) : P, R \in SUBSET Key}
ServerMessage == {Quit, [type |-> "START"], [type |-> "FRAME"]}

\* A client is in one place of the server's, and in the game once.
TypeOK ==
  /\ pc \in {"frame", "send", "receive", "read"} /\ cur \in 1..(Cardinality(Client) + 1)
  /\ reset \in BOOLEAN
  /\ pending \subseteq Client /\ joined \subseteq Client
  /\ client \in Seq(Client) /\ IsInjective(client) /\ lost \subseteq Players
  /\ pending \cap joined = {} /\ Players \cap (pending \cup joined) = {}
  /\ pressed \in [Client -> SUBSET Key] /\ held \in [Client -> SUBSET Key]
  /\ toServer \in [Client -> Seq(ClientMessage)] /\ toClient \in [Client -> Seq(ServerMessage)]
  /\ at \in [Client -> Places] /\ fading \in [Client -> BOOLEAN] /\ ignored \subseteq Client

Count(s, type) == Cardinality({i \in DOMAIN s : s[i].type = type})

\* The turns of a player: a frame on its way, at the client, or answered.
Turns(c) ==
  Count(toClient[c], "FRAME") + (IF at[c] = "send" THEN 1 ELSE 0)
    + Count(toServer[c], "KEYEND")

\* The players that owe the server the keys of this frame, or have sent them.
Asked ==
  { client[i] : i \in {j \in DOMAIN client :
      \/ pc = "send" /\ j < cur
      \/ pc \in {"receive", "read"} /\ j >= cur} }

\* Server and clients are never more than a frame apart: a client has one turn
\* from the time it is sent a frame until its keys are read, and no other.
OneTurn ==
  \A c \in Client : ClientHas(c) /\ ServerHas(c) /\ ~reset /\ c \notin ignored =>
    Turns(c) = IF c \in Asked THEN 1 ELSE 0

\* Between two frames the server has the keys of each player as the player
\* sent them, whatever was pressed and released while it was away.
KeysAgree ==
  pc = "frame" /\ ~reset => \A c \in Players : ClientHas(c) => pressed[c] = held[c]

\* The server never waits for a client that waits for the server.
NobodyStuck ==
  pc = "read" =>
    LET c == client[cur]
    IN ~(toServer[c] = <<>> /\ at[c] \in {"menu", "receive"} /\ toClient[c] = <<>> /\ c \notin ignored)

\* A frame ends, however many players leave while it lasts.
FrameEnds == pc = "send" ~> pc = "frame" \/ ignored # {}

\* poll_keyboard "returns 1 to terminate the game (e.g., when the user asks to
\* close the window)" (client/X/screen.c:815): a client that was asked to leave
\* does leave.
LeaversLeave == \A c \in Client : c \in ignored ~> at[c] = "off"
=============================================================================
