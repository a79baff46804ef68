--------------------------- MODULE LockstepProofs ---------------------------
(***************************************************************************)
(* Server and clients stay in step: for any number of clients and any      *)
(* keys, a player has one turn from the frame it is sent to the keys the   *)
(* server reads, the server knows the keys it holds, and it never waits    *)
(* for a client that waits for it.                                         *)
(*                                                                         *)
(* A turn is in one of four places, each with the only contents the two    *)
(* queues of the client can then have: the frame is on its way, read,      *)
(* answered, or passed over by a client that was asked to leave while the  *)
(* screen faded in.  A player without a turn has nothing on its way but    *)
(* START and commands of the menu.                                         *)
(***************************************************************************)
EXTENDS Lockstep, ListLemmas, FiniteSetTheorems, TLAPS

Start == [type |-> "START"]
Frame == [type |-> "FRAME"]

\* The state is made of values of these kinds, and a client is in one place of
\* the server's.
Types ==
  /\ pc \in {"frame", "send", "receive", "read"} /\ cur \in Nat \ {0} /\ reset \in BOOLEAN
  /\ pending \in SUBSET Client /\ joined \in SUBSET Client
  /\ client \in Seq(Client) /\ Distinct(client) /\ lost \in SUBSET Players
  /\ pending \cap joined = {} /\ Players \cap (pending \cup joined) = {}
  /\ pressed \in [Client -> SUBSET Key] /\ held \in [Client -> SUBSET Key]
  /\ toServer \in [Client -> Seq(ClientMessage)] /\ toClient \in [Client -> Seq(ServerMessage)]
  /\ at \in [Client -> Places] /\ fading \in [Client -> BOOLEAN] /\ ignored \in SUBSET Client

\* Where the server is in its list.
Position ==
  /\ pc = "frame" => cur = 1
  /\ pc = "read" => cur <= Len(client)
  /\ cur <= Len(client) + 1
  /\ pc \in {"frame", "send"} => lost = {}

\* Who went away holds no keys, and who is taken for lost went away.
Gone ==
  /\ \A c \in Client : at[c] = "off" => held[c] = {}
  /\ \A c \in lost : at[c] = "off"

Commands(s) == \A i \in 1..Len(s) : s[i] = Command

\* A client that waits in the menu.
InLobby(c) ==
  /\ at[c] = "menu" /\ toClient[c] = <<>> /\ Commands(toServer[c])
  /\ held[c] = {} /\ c \notin ignored

LobbyWaits ==
  /\ \A c \in pending \cup joined : ClientHas(c) => InLobby(c)
  /\ \A c \in joined : ClientHas(c) => pressed[c] = {}

\* No keys of c are on their way.
Rests(c) == Commands(toServer[c]) /\ pressed[c] = held[c]

\* The queue s of a player that answered: after commands of the menu, the keys
\* that turn p into h, if there are any, and KEYEND.
KeysThenEnd(s, p, h) ==
  /\ Len(s) >= 1 /\ s[Len(s)] = KeyEnd
  /\ \/ /\ \A i \in 1..(Len(s) - 1) : s[i] = Command
        /\ p = h
     \/ /\ Len(s) >= 2
        /\ \A i \in 1..(Len(s) - 2) : s[i] = Command
        /\ \E P, R \in SUBSET Key : s[Len(s) - 1] = KeyPress(P, R) /\ h = (p \cup P) \ R

NoTurn(c) ==
  /\ c \notin ignored /\ Rests(c)
  /\ \/ at[c] = "menu" /\ toClient[c] = <<Start>>
     \/ at[c] = "receive" /\ toClient[c] = <<>>

\* A frame is on its way to c.
FrameComes(c) ==
  /\ c \notin ignored /\ Rests(c)
  /\ \/ at[c] = "menu" /\ toClient[c] = <<Start, Frame>>
     \/ at[c] = "receive" /\ toClient[c] = <<Frame>>

\* c has read it.
FrameRead(c) == c \notin ignored /\ Rests(c) /\ at[c] = "send" /\ toClient[c] = <<>>

\* c has answered it.
Answered(c) ==
  /\ c \notin ignored /\ at[c] = "receive" /\ toClient[c] = <<>>
  /\ KeysThenEnd(toServer[c], pressed[c], held[c])

\* c went on without an answer.
Silent(c) == c \in ignored /\ Rests(c) /\ at[c] = "receive" /\ toClient[c] = <<>>

Turn(c) == FrameComes(c) \/ FrameRead(c) \/ Answered(c) \/ Silent(c)

\* The player at place j of the list owes the server the keys of this frame.
AskedAt(j) ==
  \/ pc = "send" /\ j < cur
  \/ pc \in {"receive", "read"} /\ j >= cur

\* Players that are asked have a turn; the others have none, unless a reset
\* leaves keys unread.
PlayersTakeTurns ==
  \A j \in 1..Len(client), c \in Client : c = client[j] /\ ClientHas(c) =>
    /\ AskedAt(j) => Turn(c)
    /\ ~AskedAt(j) /\ (~reset \/ pc = "send") => NoTurn(c)

IInv == Types /\ Position /\ Gone /\ LobbyWaits /\ PlayersTakeTurns
-----------------------------------------------------------------------------
(***************************************************************************)
(* Messages and queues.                                                    *)
(***************************************************************************)
\* The messages are told apart by their types.
LEMMA MessageKinds ==
  /\ KeyEnd.type = "KEYEND" /\ Quit.type = "QUIT" /\ Command.type = "COMMAND"
  /\ Start.type = "START" /\ Frame.type = "FRAME"
  /\ \A P, R : /\ KeyPress(P, R).type = "KEYPRESS"
               /\ KeyPress(P, R).pressed = P /\ KeyPress(P, R).released = R
  BY DEF KeyEnd, Quit, Command, Start, Frame, KeyPress

LEMMA MessageTypes ==
  /\ KeyEnd \in ClientMessage /\ Quit \in ClientMessage /\ Command \in ClientMessage
  /\ \A P, R \in SUBSET Key : KeyPress(P, R) \in ClientMessage
  /\ Quit \in ServerMessage /\ Start \in ServerMessage /\ Frame \in ServerMessage
  BY DEF ClientMessage, ServerMessage, Start, Frame

\* What sending to clients does to their queues.
LEMMA SendToQueues ==
  ASSUME Types, NEW S, NEW m \in ServerMessage, SendTo(S, m)
  PROVE  /\ toClient' \in [Client -> Seq(ServerMessage)]
         /\ \A c \in Client : toClient'[c] = IF c \in S /\ ClientHas(c) THEN Append(toClient[c], m)
                                              ELSE toClient[c]
<1>1. \A c \in Client : toClient[c] \in Seq(ServerMessage)
  BY DEF Types
<1>2. \A c \in Client : Append(toClient[c], m) \in Seq(ServerMessage)
  BY <1>1, AppendProperties
<1> QED
  BY <1>1, <1>2 DEF SendTo

\* What a client that sends does to its queue.
LEMMA SendFromQueues ==
  ASSUME Types, NEW c \in Client, NEW ms \in Seq(ClientMessage), SendFrom(c, ms)
  PROVE  /\ toServer' \in [Client -> Seq(ClientMessage)]
         /\ toServer'[c] = IF ServerHas(c) THEN toServer[c] \o ms ELSE toServer[c]
         /\ \A d \in Client : d # c => toServer'[d] = toServer[d]
<1>1. toServer[c] \in Seq(ClientMessage) /\ toServer \in [Client -> Seq(ClientMessage)]
  BY DEF Types
<1>2. toServer[c] \o ms \in Seq(ClientMessage)
  BY <1>1, ConcatProperties
<1> QED
  BY <1>1, <1>2 DEF SendFrom

\* Reading the first message of a queue.
LEMMA TailElements ==
  ASSUME NEW S, NEW s \in Seq(S), s # <<>>
  PROVE  /\ Head(s) = s[1] /\ Head(s) \in S /\ Tail(s) \in Seq(S) /\ Len(s) \in Nat /\ Len(s) >= 1
         /\ Len(Tail(s)) = Len(s) - 1
         /\ \A i \in 1..(Len(s) - 1) : Tail(s)[i] = s[i + 1]
  BY HeadTailProperties, LenProperties, EmptySeq

\* Queues of one message and of two.
LEMMA ShortQueues ==
  /\ \A a : Head(<<a>>) = a /\ Tail(<<a>>) = <<>> /\ <<a>> # <<>>
  /\ \A a, b : Head(<<a, b>>) = a /\ Tail(<<a, b>>) = <<b>> /\ <<a, b>> # <<>>
  /\ \A a : Append(<<>>, a) = <<a>>
  /\ \A a, b : Append(<<a>>, b) = <<a, b>>
<1>1. ASSUME NEW a PROVE Head(<<a>>) = a /\ Tail(<<a>>) = <<>> /\ <<a>> # <<>> /\ Append(<<>>, a) = <<a>>
  <2>1. <<a>> \in Seq({a}) /\ <<a>> # <<>> /\ Len(<<a>>) = 1
    OBVIOUS
  <2>2. Tail(<<a>>) \in Seq({a}) /\ Len(Tail(<<a>>)) = 0
    BY <2>1, TailElements
  <2>3. Tail(<<a>>) = <<>>
    BY <2>2, EmptySeq, SeqEqual
  <2> QED
    BY <2>1, <2>3
<1>2. ASSUME NEW a, NEW b
      PROVE  /\ Head(<<a, b>>) = a /\ Tail(<<a, b>>) = <<b>> /\ <<a, b>> # <<>>
             /\ Append(<<a>>, b) = <<a, b>>
  <2>1. <<a, b>> \in Seq({a, b}) /\ <<a, b>> # <<>> /\ Len(<<a, b>>) = 2 /\ <<a, b>>[2] = b
    OBVIOUS
  <2>2. Tail(<<a, b>>) \in Seq({a, b}) /\ Len(Tail(<<a, b>>)) = 1 /\ Tail(<<a, b>>)[1] = b
    BY <2>1, TailElements
  <2>3. <<b>> \in Seq({a, b}) /\ Len(<<b>>) = 1 /\ <<b>>[1] = b
    OBVIOUS
  <2>4. \A i \in 1..1 : Tail(<<a, b>>)[i] = <<b>>[i]
    BY <2>2, <2>3
  <2>5. Tail(<<a, b>>) = <<b>>
    BY <2>2, <2>3, <2>4, SeqEqual
  <2>6. Append(<<a>>, b) = <<a, b>>
    <3>1. /\ <<a>> \in Seq({a, b}) /\ Len(<<a>>) = 1 /\ <<a>>[1] = a
          /\ b \in {a, b} /\ <<a, b>>[1] = a
      OBVIOUS
    <3>2. /\ Append(<<a>>, b) \in Seq({a, b}) /\ Len(Append(<<a>>, b)) = 2
          /\ Append(<<a>>, b)[1] = a /\ Append(<<a>>, b)[2] = b
      BY <3>1, AppendProperties
    <3>3. \A i \in 1..2 : Append(<<a>>, b)[i] = <<a, b>>[i]
      BY <3>1, <3>2, <2>1
    <3> QED
      BY <3>2, <3>3, <2>1, SeqEqual
  <2> QED
    BY <2>1, <2>5, <2>6
<1> QED
  BY <1>1, <1>2

LEMMA CommandsTail ==
  ASSUME NEW s \in Seq(ClientMessage), s # <<>>, Commands(s)
  PROVE  Head(s) = Command /\ Commands(Tail(s))
  BY TailElements DEF Commands

LEMMA CommandsEmpty == Commands(<<>>)
  BY DEF Commands

LEMMA CommandsAppend ==
  ASSUME NEW s \in Seq(ClientMessage), Commands(s)
  PROVE  Commands(s \o <<Command>>)
<1>1. <<Command>> \in Seq(ClientMessage) /\ Len(<<Command>>) = 1 /\ <<Command>>[1] = Command
  BY MessageTypes
<1> QED
  BY <1>1, ConcatProperties, LenProperties DEF Commands

\* Keys that are sent after nothing but commands.
LEMMA KeysSent ==
  ASSUME NEW s \in Seq(ClientMessage), Commands(s), NEW p \in SUBSET Key, NEW new \in SUBSET Key
  PROVE  /\ p = new => KeysThenEnd(s \o <<KeyEnd>>, p, new)
         /\ KeysThenEnd(s \o <<KeyPress(new \ p, p \ new), KeyEnd>>, p, new)
<1>1. /\ <<KeyEnd>> \in Seq(ClientMessage) /\ Len(<<KeyEnd>>) = 1 /\ <<KeyEnd>>[1] = KeyEnd
  BY MessageTypes
<1> DEFINE k == KeyPress(new \ p, p \ new)
<1>2. /\ <<k, KeyEnd>> \in Seq(ClientMessage) /\ Len(<<k, KeyEnd>>) = 2
      /\ <<k, KeyEnd>>[1] = k /\ <<k, KeyEnd>>[2] = KeyEnd
  <2>1. k \in ClientMessage /\ KeyEnd \in ClientMessage
    BY MessageTypes
  <2> HIDE DEF k
  <2> QED
    BY <2>1
<1>3. Len(s) \in Nat
  BY LenProperties
<1>4. p = new => KeysThenEnd(s \o <<KeyEnd>>, p, new)
  BY <1>1, <1>3, ConcatProperties DEF KeysThenEnd, Commands
<1>5. new = (p \cup (new \ p)) \ (p \ new)
  OBVIOUS
<1>6. KeysThenEnd(s \o <<k, KeyEnd>>, p, new)
  <2>1. \E P, R \in SUBSET Key : k = KeyPress(P, R) /\ new = (p \cup P) \ R
    BY <1>5
  <2> DEFINE t == s \o <<k, KeyEnd>>
  <2> HIDE DEF k
  <2>2. /\ Len(t) = Len(s) + 2
        /\ t[Len(s) + 1] = k /\ t[Len(s) + 2] = KeyEnd
        /\ \A i \in 1..Len(s) : t[i] = Command
    BY <1>2, <1>3, ConcatProperties DEF Commands
  <2> HIDE DEF t
  <2>3. Len(t) >= 2 /\ Len(t) - 1 = Len(s) + 1 /\ Len(t) - 2 = Len(s)
    BY <2>2, <1>3
  <2> QED
    BY <2>1, <2>2, <2>3, <1>3 DEF KeysThenEnd, t
<1> QED
  BY <1>4, <1>6

\* Reading the keys: what is left of the answer.
LEMMA KeysRead ==
  ASSUME NEW s \in Seq(ClientMessage), NEW p, NEW h, KeysThenEnd(s, p, h)
  PROVE  /\ s # <<>>
         /\ \/ Head(s) = KeyEnd /\ Tail(s) = <<>> /\ p = h
            \/ Head(s) = Command /\ KeysThenEnd(Tail(s), p, h)
            \/ \E P, R \in SUBSET Key : /\ Head(s) = KeyPress(P, R)
                                        /\ KeysThenEnd(Tail(s), (p \cup P) \ R, h)
<1>1. s # <<>>
  BY EmptySeq DEF KeysThenEnd
<1>2. /\ Head(s) = s[1] /\ Tail(s) \in Seq(ClientMessage) /\ Len(s) \in Nat /\ Len(s) >= 1
      /\ Len(Tail(s)) = Len(s) - 1
      /\ \A i \in 1..(Len(s) - 1) : Tail(s)[i] = s[i + 1]
  BY <1>1, TailElements
<1> DEFINE n == Len(s)
           t == Tail(s)
<1>3. CASE n = 1
  <2>1. t = <<>>
    <3>1. t \in Seq(ClientMessage) /\ Len(t) = 0
      BY <1>2, <1>3
    <3>2. <<>> \in Seq(ClientMessage) /\ Len(<<>>) = 0
      BY EmptySeq
    <3> HIDE DEF t
    <3> QED
      BY <3>1, <3>2, SeqEqual
  <2>2. s[1] = KeyEnd /\ p = h
    BY <1>2, <1>3 DEF KeysThenEnd
  <2> QED
    BY Zenon, <2>1, <2>2, <1>1, <1>2
<1>4. CASE n # 1
  <2>1. n - 1 \in 1..(n - 1) /\ Len(t) = n - 1 /\ t[n - 1] = s[n]
    BY <1>2, <1>4
  <2>2. CASE (\A i \in 1..(n - 1) : s[i] = Command) /\ p = h
    <3>1. s[1] = Command /\ \A i \in 1..(Len(t) - 1) : t[i] = Command
      BY <2>1, <2>2, <1>2, <1>4
    <3> QED
      BY <3>1, <2>1, <2>2, <1>1, <1>2, <1>4 DEF KeysThenEnd
  <2>3. ASSUME \A i \in 1..(n - 2) : s[i] = Command,
               NEW P \in SUBSET Key, NEW R \in SUBSET Key, s[n - 1] = KeyPress(P, R), h = (p \cup P) \ R
        PROVE  \/ Head(s) = Command /\ KeysThenEnd(t, p, h)
               \/ Head(s) = KeyPress(P, R) /\ KeysThenEnd(t, (p \cup P) \ R, h)
    <3>1. CASE n = 2
      <4>1. Len(t) = 1 /\ t[1] = s[2] /\ s[2] = KeyEnd /\ s[1] = KeyPress(P, R)
        BY <3>1, <2>1, <2>3, <1>2 DEF KeysThenEnd
      <4> HIDE DEF t
      <4>2. /\ Len(t) >= 1 /\ t[Len(t)] = KeyEnd
            /\ \A i \in 1..(Len(t) - 1) : t[i] = Command
        BY <4>1
      <4>3. KeysThenEnd(t, (p \cup P) \ R, h)
        BY <4>2, <2>3 DEF KeysThenEnd
      <4> QED
        BY <4>1, <4>3, <1>2 DEF t
    <3>2. CASE n # 2
      <4>1. s[1] = Command
        BY <3>2, <2>3, <1>2, <1>4
      <4>2. Len(t) >= 2 /\ t[Len(t) - 1] = s[n - 1]
        BY <3>2, <2>1, <1>2, <1>4
      <4>3. \A i \in 1..(Len(t) - 2) : t[i] = Command
        BY <3>2, <2>1, <2>3, <1>2, <1>4
      <4> QED
        BY <4>1, <4>2, <4>3, <2>1, <2>3, <1>2 DEF KeysThenEnd
    <3> QED
      BY <3>1, <3>2
  <2> QED
    BY <2>2, <2>3, <1>1 DEF KeysThenEnd
<1> QED
  BY <1>3, <1>4, <1>1
-----------------------------------------------------------------------------
(***************************************************************************)
(* Steps of the clients.                                                   *)
(***************************************************************************)
\* A step leaves c and its queues alone.
Same(c) ==
  /\ at'[c] = at[c] /\ held'[c] = held[c] /\ pressed'[c] = pressed[c]
  /\ toServer'[c] = toServer[c] /\ toClient'[c] = toClient[c]
  /\ c \in ignored' <=> c \in ignored

LEMMA SameClient ==
  ASSUME NEW c, Same(c)
  PROVE  /\ ClientHas(c)' <=> ClientHas(c)
         /\ InLobby(c)' <=> InLobby(c)
         /\ Turn(c)' <=> Turn(c)
         /\ NoTurn(c)' <=> NoTurn(c)
<1>1. ClientHas(c)' <=> ClientHas(c)
  BY DEF Same, ClientHas
<1>2. InLobby(c)' <=> InLobby(c)
  BY DEF Same, InLobby
<1>3. Rests(c)' <=> Rests(c)
  BY DEF Same, Rests
<1>4. NoTurn(c)' <=> NoTurn(c)
  BY <1>3 DEF Same, NoTurn
<1>5. Turn(c)' <=> Turn(c)
  BY <1>3 DEF Same, Turn, FrameComes, FrameRead, Answered, Silent
<1> QED
  BY <1>1, <1>2, <1>4, <1>5

\* A player is in the list, and not in the lobby.
LEMMA PlayerAt ==
  ASSUME Types, NEW j \in 1..Len(client)
  PROVE  client[j] \in Client /\ client[j] \in Players /\ client[j] \notin pending \cup joined
<1>1. client[j] \in Client /\ DOMAIN client = 1..Len(client)
  BY ElementOfSeq, LenProperties DEF Types
<1> QED
  BY <1>1 DEF Types, Players, ToSet

LEMMA PlayersAreClients ==
  ASSUME Types
  PROVE  Players \subseteq Client
<1>1. \A j \in DOMAIN client : client[j] \in Client
  BY ElementOfSeq, LenProperties DEF Types
<1> QED
  BY <1>1 DEF Players, ToSet

\* What a step of client c that stays connected has to keep.
LEMMA ClientStep ==
  ASSUME IInv, Types', NEW c \in Client, UNCHANGED serverVars,
         \A d \in Client : d # c => Same(d),
         at'[c] = "off" => held'[c] = {},
         c \in lost => at'[c] = "off",
         ClientHas(c)' => ClientHas(c),
         ClientHas(c)' /\ ServerHas(c) =>
           /\ InLobby(c) => InLobby(c)'
           /\ Turn(c) => Turn(c)'
           /\ NoTurn(c) => NoTurn(c)'
  PROVE  IInv'
<1>1. Position'
  BY DEF serverVars, IInv, Position
<1>2. Gone'
  <2>1. \A d \in lost : d \in Client
    BY PlayersAreClients DEF IInv, Types
  <2> QED
    BY <2>1 DEF serverVars, IInv, Gone, Same
<1>3. LobbyWaits'
  <2> SUFFICES ASSUME NEW d \in pending \cup joined, ClientHas(d)'
               PROVE  InLobby(d)' /\ (d \in joined => pressed'[d] = {})
    BY DEF LobbyWaits, serverVars
  <2>1. d \in Client /\ pressed'[d] = pressed[d]
    BY DEF IInv, Types, serverVars
  <2>2. ClientHas(d)
    BY <2>1, SameClient
  <2>3. InLobby(d) /\ (d \in joined => pressed[d] = {})
    BY <2>2 DEF IInv, LobbyWaits
  <2>4. InLobby(d)'
    BY <2>1, <2>3, SameClient DEF ServerHas
  <2> QED
    BY <2>1, <2>3, <2>4
<1>4. PlayersTakeTurns'
  <2>1. client' = client /\ (\A j : AskedAt(j)' <=> AskedAt(j)) /\ reset' = reset /\ pc' = pc
    BY DEF serverVars, AskedAt
  <2> SUFFICES ASSUME NEW j \in 1..Len(client), NEW d \in Client, d = client[j], ClientHas(d)'
               PROVE  /\ AskedAt(j) => Turn(d)'
                      /\ ~AskedAt(j) /\ (~reset \/ pc = "send") => NoTurn(d)'
    BY <2>1 DEF PlayersTakeTurns
  <2>2. ClientHas(d)
    BY SameClient
  <2>3. /\ AskedAt(j) => Turn(d)
        /\ ~AskedAt(j) /\ (~reset \/ pc = "send") => NoTurn(d)
    BY <2>2 DEF IInv, PlayersTakeTurns
  <2>4. ServerHas(d)
    BY <2>2, PlayerAt DEF IInv, Gone, ClientHas, ServerHas
  <2>5. /\ Turn(d) => Turn(d)'
        /\ NoTurn(d) => NoTurn(d)'
    BY <2>4, SameClient
  <2> QED
    BY <2>3, <2>5
<1> QED
  BY <1>1, <1>2, <1>3, <1>4 DEF IInv

\* A connection that is closed; toServer may hold a QUIT.
LEMMA CloseKeeps ==
  ASSUME IInv, NEW c \in Client, ClientHas(c), Close(c),
         toServer' \in [Client -> Seq(ClientMessage)],
         \A d \in Client : d # c => toServer'[d] = toServer[d]
  PROVE  IInv'
<1>1. /\ UNCHANGED serverVars /\ UNCHANGED ignored
      /\ at' = [at EXCEPT ![c] = "off"] /\ fading' = [fading EXCEPT ![c] = FALSE]
      /\ held' = [held EXCEPT ![c] = {}] /\ toClient' = [toClient EXCEPT ![c] = <<>>]
  BY DEF Close
<1>2. <<>> \in Seq(ServerMessage)
  BY EmptySeq
<1>3. Types'
  <2>1. /\ at' \in [Client -> Places] /\ fading' \in [Client -> BOOLEAN]
        /\ held' \in [Client -> SUBSET Key]
    BY <1>1 DEF IInv, Types, Places
  <2>2. toClient' \in [Client -> Seq(ServerMessage)]
    BY <1>1, <1>2 DEF IInv, Types
  <2> QED
    BY <1>1, <2>1, <2>2 DEF serverVars, IInv, Types, Players
<1>4. \A d \in Client : d # c => Same(d)
  BY <1>1 DEF Same, serverVars, IInv, Types
<1>5. at'[c] = "off" /\ held'[c] = {} /\ ~ClientHas(c)'
  BY <1>1 DEF IInv, Types, ClientHas
<1> QED
  BY <1>1, <1>3, <1>4, <1>5, ClientStep

LEMMA EndKeeps ==
  ASSUME IInv, NEW c \in Client, End(c)
  PROVE  IInv'
  BY CloseKeeps DEF End, IInv, Types

LEMMA LeaveKeeps ==
  ASSUME IInv, NEW c \in Client, ClientHas(c), Leave(c)
  PROVE  IInv'
<1>1. <<Quit>> \in Seq(ClientMessage)
  BY MessageTypes
<1>2. /\ toServer' \in [Client -> Seq(ClientMessage)]
      /\ \A d \in Client : d # c => toServer'[d] = toServer[d]
  BY <1>1, SendFromQueues DEF Leave, IInv
<1> QED
  BY <1>2, CloseKeeps DEF Leave

LEMMA ChooseKeeps ==
  ASSUME IInv, NEW c \in Client, Choose(c)
  PROVE  IInv'
<1>1. <<Command>> \in Seq(ClientMessage)
  BY MessageTypes
<1>2. at[c] = "menu" /\ SendFrom(c, <<Command>>) /\ UNCHANGED <<serverVars, clientVars, toClient>>
  BY DEF Choose
<1>3. /\ toServer' \in [Client -> Seq(ClientMessage)]
      /\ toServer'[c] = toServer[c] \/ toServer'[c] = toServer[c] \o <<Command>>
      /\ \A d \in Client : d # c => toServer'[d] = toServer[d]
  BY <1>1, <1>2, SendFromQueues DEF IInv
<1>4. Types'
  BY <1>2, <1>3 DEF serverVars, clientVars, IInv, Types, Players
<1>5. \A d \in Client : d # c => Same(d)
  BY <1>2, <1>3 DEF Same, serverVars, clientVars
<1>6. /\ at'[c] = "menu" /\ toClient'[c] = toClient[c] /\ held'[c] = held[c] /\ pressed'[c] = pressed[c]
      /\ ignored' = ignored
  BY <1>2 DEF serverVars, clientVars
<1>7. Commands(toServer[c]) => Commands(toServer'[c])
  BY <1>3, CommandsAppend DEF IInv, Types
<1>8. InLobby(c) => InLobby(c)'
  BY <1>6, <1>7 DEF InLobby
<1>9. Rests(c) => Rests(c)'
  BY <1>6, <1>7 DEF Rests
<1>10. NoTurn(c) => NoTurn(c)'
  BY <1>2, <1>6, <1>9 DEF NoTurn
<1>11. Turn(c) => Turn(c)'
  <2>1. Turn(c) => FrameComes(c)
    BY <1>2 DEF Turn, FrameRead, Answered, Silent
  <2>2. FrameComes(c) => FrameComes(c)'
    BY <1>2, <1>6, <1>9 DEF FrameComes
  <2> QED
    BY <2>1, <2>2 DEF Turn
<1>12. at'[c] # "off" /\ ClientHas(c) /\ (c \in lost => FALSE)
  BY <1>2, <1>6 DEF IInv, Gone, ClientHas
<1> QED
  BY <1>2, <1>4, <1>5, <1>8, <1>10, <1>11, <1>12, ClientStep

\* START is read: with nothing behind it, or the frame that makes the turn.
LEMMA StartKeeps ==
  ASSUME IInv, NEW c \in Client, at[c] = "menu", toClient[c] # <<>>,
         Head(toClient[c]).type = "START",
         toClient' = [toClient EXCEPT ![c] = Tail(@)],
         at' = [at EXCEPT ![c] = "receive"], fading' = [fading EXCEPT ![c] = TRUE],
         UNCHANGED <<serverVars, held, ignored, toServer>>
  PROVE  IInv'
<1>1. Tail(toClient[c]) \in Seq(ServerMessage)
  BY HeadTailProperties DEF IInv, Types
<1>2. Types'
  <2>1. at' \in [Client -> Places] /\ fading' \in [Client -> BOOLEAN]
    BY DEF IInv, Types, Places
  <2>2. toClient' \in [Client -> Seq(ServerMessage)]
    BY <1>1 DEF IInv, Types
  <2> QED
    BY <2>1, <2>2 DEF serverVars, IInv, Types, Players
<1>3. \A d \in Client : d # c => Same(d)
  BY DEF Same, serverVars, IInv, Types
<1>4. /\ at'[c] = "receive" /\ toClient'[c] = Tail(toClient[c]) /\ held'[c] = held[c]
      /\ pressed'[c] = pressed[c] /\ toServer'[c] = toServer[c] /\ ignored' = ignored
  BY DEF serverVars, IInv, Types
<1>5. Rests(c)' <=> Rests(c)
  BY <1>4 DEF Rests
<1>6. ~InLobby(c)
  BY DEF InLobby
<1>7. NoTurn(c) => NoTurn(c)'
  BY <1>4, <1>5, ShortQueues DEF NoTurn
<1>8. Turn(c) => Turn(c)'
  <2>1. Turn(c) => FrameComes(c)
    BY DEF Turn, FrameRead, Answered, Silent
  <2>2. Tail(<<Start, Frame>>) = <<Frame>>
    BY ShortQueues
  <2>3. FrameComes(c) => FrameComes(c)'
    BY <2>2, <1>4, <1>5 DEF FrameComes
  <2> QED
    BY <2>1, <2>3 DEF Turn
<1>9. at'[c] # "off" /\ ClientHas(c) /\ c \notin lost
  BY <1>4 DEF IInv, Gone, ClientHas
<1> QED
  BY <1>2, <1>3, <1>6, <1>7, <1>8, <1>9, ClientStep

LEMMA InputKeeps ==
  ASSUME IInv, NEW c \in Client, Input(c)
  PROVE  IInv'
<1>1. CASE Head(toClient[c]) = Quit /\ Close(c)
  BY <1>1, CloseKeeps DEF Input, IInv, Types, ClientHas
<1>2. CASE ~(Head(toClient[c]) = Quit /\ Close(c))
  BY <1>2, StartKeeps DEF Input
<1> QED
  BY <1>1, <1>2
LEMMA ReceiveFrameKeeps ==
  ASSUME IInv, NEW c \in Client, ReceiveFrame(c)
  PROVE  IInv'
<1>1. /\ at[c] = "receive" /\ toClient[c] # <<>>
      /\ toClient' = [toClient EXCEPT ![c] = Tail(@)] /\ at' = [at EXCEPT ![c] = "send"]
      /\ UNCHANGED <<serverVars, fading, held, ignored, toServer>>
  BY DEF ReceiveFrame
<1>2. Tail(toClient[c]) \in Seq(ServerMessage)
  BY <1>1, HeadTailProperties DEF IInv, Types
<1>3. Types'
  <2>1. at' \in [Client -> Places]
    BY <1>1 DEF IInv, Types, Places
  <2>2. toClient' \in [Client -> Seq(ServerMessage)]
    BY <1>1, <1>2 DEF IInv, Types
  <2> QED
    BY <2>1, <2>2, <1>1 DEF serverVars, IInv, Types, Players
<1>4. \A d \in Client : d # c => Same(d)
  BY <1>1 DEF Same, serverVars, IInv, Types
<1>5. /\ at'[c] = "send" /\ toClient'[c] = Tail(toClient[c]) /\ held'[c] = held[c]
      /\ pressed'[c] = pressed[c] /\ toServer'[c] = toServer[c] /\ ignored' = ignored
  BY <1>1 DEF serverVars, IInv, Types
<1>6. Rests(c)' <=> Rests(c)
  BY <1>5 DEF Rests
<1>7. ~InLobby(c) /\ ~NoTurn(c)
  BY <1>1 DEF InLobby, NoTurn
<1>8. Turn(c) => Turn(c)'
  <2>1. Turn(c) => FrameComes(c)
    BY <1>1 DEF Turn, FrameRead, Answered, Silent
  <2>2. FrameComes(c) => FrameRead(c)'
    BY <1>1, <1>5, <1>6, ShortQueues DEF FrameComes, FrameRead
  <2> QED
    BY <2>1, <2>2 DEF Turn
<1>9. at'[c] # "off" /\ ClientHas(c) /\ c \notin lost
  BY <1>1, <1>5 DEF IInv, Gone, ClientHas
<1> QED
  BY <1>1, <1>3, <1>4, <1>7, <1>8, <1>9, ClientStep

\* What ends the fading only: a QUIT is thrown away, a closed connection ignored.
LEMMA ReceiveFailsKeeps ==
  ASSUME IInv, NEW c \in Client, ReceiveFails(c)
  PROVE  IInv'
<1>1. at[c] = "receive" /\ ClientHas(c)
  BY DEF ReceiveFails, ClientHas
<1>2. CASE ~fading[c]
  BY <1>1, <1>2, LeaveKeeps DEF ReceiveFails
<1>3. CASE fading[c]
  <2>1. /\ fading' = [fading EXCEPT ![c] = FALSE]
        /\ toClient' = [toClient EXCEPT ![c] = IF @ = <<>> THEN @ ELSE Tail(@)]
        /\ UNCHANGED <<serverVars, at, held, ignored, toServer>>
        /\ toClient[c] # <<>> => Head(toClient[c]) = Quit
    BY <1>3 DEF ReceiveFails
  <2>2. toClient[c] # <<>> => Tail(toClient[c]) \in Seq(ServerMessage)
    BY HeadTailProperties DEF IInv, Types
  <2>3. Types'
    <3>1. fading' \in [Client -> BOOLEAN]
      BY <2>1 DEF IInv, Types
    <3>2. toClient' \in [Client -> Seq(ServerMessage)]
      BY <2>1, <2>2 DEF IInv, Types
    <3> QED
      BY <2>1, <3>1, <3>2 DEF serverVars, IInv, Types, Players
  <2>4. \A d \in Client : d # c => Same(d)
    BY <2>1 DEF Same, serverVars, IInv, Types
  <2>5. toClient[c] = <<>> => Same(c)
    BY <2>1 DEF Same, serverVars, IInv, Types
  <2>6. toClient[c] # <<>> => ~InLobby(c) /\ ~Turn(c) /\ ~NoTurn(c)
    <3>1. Quit # Frame
      BY MessageKinds
    <3>2. toClient[c] # <<>> => toClient[c] # <<Frame>>
      BY <3>1, <2>1, ShortQueues
    <3> QED
      BY <3>2, <1>1 DEF InLobby, Turn, NoTurn, FrameComes, FrameRead, Answered, Silent
  <2>7. at'[c] # "off" /\ c \notin lost
    BY <1>1, <2>1 DEF IInv, Gone
  <2> QED
    BY <1>1, <2>1, <2>3, <2>4, <2>5, <2>6, <2>7, SameClient, ClientStep
<1> QED
  BY <1>2, <1>3

\* A client that answers a frame.
LEMMA SendKeysKeeps ==
  ASSUME IInv, NEW c \in Client, SendKeys(c)
  PROVE  IInv'
<1>1. PICK new \in SUBSET Key :
        /\ held' = [held EXCEPT ![c] = new]
        /\ SendFrom(c, IF new = held[c] THEN <<KeyEnd>>
                       ELSE <<KeyPress(new \ held[c], held[c] \ new), KeyEnd>>)
  BY DEF SendKeys
<1>2. PICK f \in BOOLEAN : fading' = [fading EXCEPT ![c] = @ /\ f]
  BY DEF SendKeys
<1>3. /\ at[c] = "send" /\ at' = [at EXCEPT ![c] = "receive"]
      /\ UNCHANGED <<serverVars, ignored, toClient>>
  BY DEF SendKeys
<1> DEFINE k == KeyPress(new \ held[c], held[c] \ new)
           ms == IF new = held[c] THEN <<KeyEnd>> ELSE <<k, KeyEnd>>
<1>4. ms \in Seq(ClientMessage)
  <2>1. k \in ClientMessage /\ KeyEnd \in ClientMessage
    BY MessageTypes DEF IInv, Types
  <2> HIDE DEF k
  <2> QED
    BY <2>1
<1>5. SendFrom(c, ms)
  BY <1>1
<1>6. /\ toServer' \in [Client -> Seq(ClientMessage)]
      /\ toServer'[c] = IF ServerHas(c) THEN toServer[c] \o ms ELSE toServer[c]
      /\ \A d \in Client : d # c => toServer'[d] = toServer[d]
  <2> HIDE DEF ms
  <2> QED
    BY <1>4, <1>5, SendFromQueues DEF IInv
<1>7. Types'
  <2>1. fading' \in [Client -> BOOLEAN]
    <3>1. (fading[c] /\ f) \in BOOLEAN
      OBVIOUS
    <3> QED
      BY <3>1, <1>2 DEF IInv, Types
  <2>2. held' \in [Client -> SUBSET Key]
    BY <1>1 DEF IInv, Types
  <2>3. at' \in [Client -> Places]
    BY <1>3 DEF IInv, Types, Places
  <2> QED
    BY <2>1, <2>2, <2>3, <1>3, <1>6 DEF serverVars, IInv, Types, Players
<1>8. \A d \in Client : d # c => Same(d)
  BY <1>1, <1>3, <1>6 DEF Same, serverVars, IInv, Types
<1>9. /\ at'[c] = "receive" /\ held'[c] = new /\ pressed' = pressed /\ ignored' = ignored
      /\ toClient' = toClient
  BY <1>1, <1>3 DEF serverVars, IInv, Types
<1>10. ~InLobby(c) /\ ~NoTurn(c) /\ (Turn(c) => FrameRead(c))
  BY <1>3 DEF InLobby, NoTurn, Turn, FrameComes, Answered, Silent
<1>11. ServerHas(c) /\ FrameRead(c) => Answered(c)'
  <2> SUFFICES ASSUME ServerHas(c), FrameRead(c)
               PROVE  Answered(c)'
    OBVIOUS
  <2>1. /\ Commands(toServer[c]) /\ toServer[c] \in Seq(ClientMessage)
        /\ pressed[c] = held[c] /\ pressed[c] \in SUBSET Key
    BY DEF FrameRead, Rests, IInv, Types
  <2>2. KeysThenEnd(toServer[c] \o ms, pressed[c], new)
    BY <2>1, KeysSent
  <2>3. KeysThenEnd(toServer'[c], pressed'[c], held'[c])
    <3> HIDE DEF ms
    <3> QED
      BY <2>2, <1>6, <1>9
  <2> QED
    BY <2>3, <1>9 DEF Answered, FrameRead
<1>12. at'[c] # "off" /\ ClientHas(c) /\ c \notin lost
  BY <1>3, <1>9 DEF IInv, Gone, ClientHas
<1>13. UNCHANGED serverVars
  BY <1>3
<1> QED
  BY <1>7, <1>8, <1>10, <1>11, <1>12, <1>13, ClientStep DEF Turn

\* A client that is asked to leave: while the screen fades in it goes on, and
\* its turn is passed over.
LEMMA UserLeavesKeeps ==
  ASSUME IInv, NEW c \in Client, UserLeaves(c)
  PROVE  IInv'
<1>1. at[c] = "send" /\ ClientHas(c)
  BY DEF UserLeaves, ClientHas
<1>2. CASE ~fading[c]
  BY <1>1, <1>2, LeaveKeeps DEF UserLeaves
<1>3. CASE fading[c]
  <2>1. /\ fading' = [fading EXCEPT ![c] = FALSE] /\ at' = [at EXCEPT ![c] = "receive"]
        /\ ignored' = ignored \cup {c}
        /\ UNCHANGED <<serverVars, held, toServer, toClient>>
    BY <1>3 DEF UserLeaves
  <2>2. Types'
    <3>1. fading' \in [Client -> BOOLEAN] /\ at' \in [Client -> Places]
      BY <2>1 DEF IInv, Types, Places
    <3> QED
      BY <2>1, <3>1 DEF serverVars, IInv, Types, Players
  <2>3. \A d \in Client : d # c => Same(d)
    BY <2>1 DEF Same, serverVars, IInv, Types
  <2>4. ~InLobby(c) /\ ~NoTurn(c) /\ (Turn(c) => FrameRead(c))
    BY <1>1 DEF InLobby, NoTurn, Turn, FrameComes, Answered, Silent
  <2>5. at'[c] = "receive" /\ pressed' = pressed
    BY <2>1 DEF serverVars, IInv, Types
  <2>6. FrameRead(c) => Silent(c)'
    BY <2>1, <2>5 DEF FrameRead, Silent, Rests
  <2>7. at'[c] # "off" /\ c \notin lost
    BY <1>1, <2>5 DEF IInv, Gone
  <2> QED
    BY <1>1, <2>1, <2>2, <2>3, <2>4, <2>6, <2>7, ClientStep DEF Turn
<1> QED
  BY <1>2, <1>3

\* A client that connects waits to be accepted.
LEMMA ConnectKeeps ==
  ASSUME IInv, NEW c \in Client, Connect(c)
  PROVE  IInv'
<1>1. /\ at[c] = "off" /\ c \notin pending \cup joined /\ c \notin Players
      /\ pending' = pending \cup {c} /\ at' = [at EXCEPT ![c] = "menu"]
      /\ toServer' = [toServer EXCEPT ![c] = <<>>] /\ toClient' = [toClient EXCEPT ![c] = <<>>]
      /\ ignored' = ignored \ {c}
      /\ UNCHANGED <<pc, cur, reset, joined, client, lost, pressed, fading, held>>
  BY DEF Connect, ServerHas
<1>2. Types'
  <2>1. toServer' \in [Client -> Seq(ClientMessage)] /\ toClient' \in [Client -> Seq(ServerMessage)]
    BY <1>1, EmptySeq DEF IInv, Types
  <2>2. at' \in [Client -> Places]
    BY <1>1 DEF IInv, Types, Places
  <2>3. Players' = Players
    BY <1>1 DEF Players
  <2> QED
    BY <1>1, <2>1, <2>2, <2>3 DEF IInv, Types
<1>3. Position'
  BY <1>1 DEF IInv, Position
<1>4. Gone'
  <2>1. c \notin lost
    BY <1>1 DEF IInv, Types
  <2> QED
    BY <1>1, <2>1, PlayersAreClients DEF IInv, Gone, Types
<1>5. \A d \in Client : d # c => Same(d)
  BY <1>1 DEF Same, IInv, Types
<1>6. InLobby(c)'
  <2>1. at'[c] = "menu" /\ toClient'[c] = <<>> /\ toServer'[c] = <<>> /\ held'[c] = {}
    BY <1>1 DEF IInv, Types, Gone
  <2> QED
    BY <1>1, <2>1, CommandsEmpty DEF InLobby
<1>7. LobbyWaits'
  <2> SUFFICES ASSUME NEW d \in pending \cup {c} \cup joined, ClientHas(d)'
               PROVE  InLobby(d)' /\ (d \in joined => pressed'[d] = {})
    BY <1>1 DEF LobbyWaits
  <2>1. CASE d = c
    BY <2>1, <1>1, <1>6
  <2>2. CASE d # c
    BY <2>2, <1>1, <1>5, SameClient DEF IInv, Types, LobbyWaits
  <2> QED
    BY <2>1, <2>2
<1>8. PlayersTakeTurns'
  <2>1. client' = client /\ (\A j : AskedAt(j)' <=> AskedAt(j)) /\ reset' = reset /\ pc' = pc
    BY <1>1 DEF AskedAt
  <2> SUFFICES ASSUME NEW j \in 1..Len(client), NEW d \in Client, d = client[j], ClientHas(d)'
               PROVE  /\ AskedAt(j) => Turn(d)'
                      /\ ~AskedAt(j) /\ (~reset \/ pc = "send") => NoTurn(d)'
    BY <2>1 DEF PlayersTakeTurns
  <2>2. d # c
    BY <1>1, PlayerAt DEF IInv
  <2> QED
    BY <2>2, <1>5, SameClient DEF IInv, PlayersTakeTurns
<1> QED
  BY <1>2, <1>3, <1>4, <1>7, <1>8 DEF IInv
-----------------------------------------------------------------------------
(***************************************************************************)
(* Steps of the server.                                                    *)
(***************************************************************************)
\* A step of the server leaves alone what only the clients change.
LEMMA ServerTypes ==
  ASSUME Types, UNCHANGED clientVars
  PROVE  /\ at' \in [Client -> Places] /\ held' \in [Client -> SUBSET Key]
         /\ fading' \in [Client -> BOOLEAN] /\ ignored' \in SUBSET Client
         /\ \A c : /\ ClientHas(c)' <=> ClientHas(c)
                   /\ at'[c] = at[c] /\ held'[c] = held[c] /\ (c \in ignored' <=> c \in ignored)
  BY DEF Types, clientVars, ClientHas

LEMMA ResetSignalKeeps ==
  ASSUME IInv, ResetSignal
  PROVE  IInv'
<1>1. /\ reset' = TRUE
      /\ UNCHANGED <<pc, cur, pending, joined, client, lost, pressed, clientVars, toServer, toClient>>
  BY DEF ResetSignal
<1>2. Types'
  BY <1>1 DEF clientVars, IInv, Types, Players
<1>3. Position' /\ Gone'
  BY <1>1 DEF clientVars, IInv, Position, Gone
<1>4. \A c : Same(c)
  BY <1>1 DEF clientVars, Same
<1>5. LobbyWaits'
  BY <1>1, <1>4, SameClient DEF IInv, LobbyWaits
<1>6. PlayersTakeTurns'
  <2>1. \A j : AskedAt(j)' <=> AskedAt(j)
    BY <1>1 DEF AskedAt
  <2> SUFFICES ASSUME NEW j \in 1..Len(client), NEW d \in Client, d = client[j], ClientHas(d)'
               PROVE  /\ AskedAt(j) => Turn(d)'
                      /\ ~AskedAt(j) /\ pc = "send" => NoTurn(d)'
    BY <1>1, <2>1 DEF PlayersTakeTurns
  <2> QED
    BY <1>4, SameClient DEF IInv, PlayersTakeTurns
<1> QED
  BY <1>2, <1>3, <1>5, <1>6 DEF IInv

LEMMA ResetKeeps ==
  ASSUME IInv, Reset
  PROVE  IInv'
<1>1. /\ pc = "frame" /\ reset' = FALSE /\ SendTo(joined \cup Players, Quit)
      /\ joined' = {} /\ client' = <<>>
      /\ toServer' = [c \in Client |-> IF c \in pending THEN toServer[c] ELSE <<>>]
      /\ UNCHANGED <<pc, cur, pending, lost, pressed, clientVars>>
  BY DEF Reset
<1>2. /\ toClient' \in [Client -> Seq(ServerMessage)]
      /\ \A c \in Client : toClient'[c] = IF c \in joined \cup Players /\ ClientHas(c)
                                          THEN Append(toClient[c], Quit) ELSE toClient[c]
  BY <1>1, SendToQueues, MessageTypes DEF IInv
<1>3. cur = 1 /\ lost = {}
  BY <1>1 DEF IInv, Position
<1>4. Len(client') = 0 /\ client' \in Seq(Client) /\ Players' = {} /\ Distinct(client')
  BY <1>1, EmptySeq DEF Players, ToSet, Distinct
<1>5. Types'
  <2>1. toServer' \in [Client -> Seq(ClientMessage)]
    BY <1>1, EmptySeq DEF IInv, Types
  <2> QED
    BY <2>1, <1>1, <1>2, <1>3, <1>4, ServerTypes DEF IInv, Types
<1>6. Position' /\ Gone'
  BY <1>1, <1>3, <1>4 DEF clientVars, IInv, Position, Gone
<1>7. LobbyWaits'
  <2> SUFFICES ASSUME NEW c \in pending, ClientHas(c)'
               PROVE  InLobby(c)'
    BY <1>1 DEF LobbyWaits
  <2>1. c \in Client /\ c \notin joined \cup Players
    BY DEF IInv, Types
  <2>2. Same(c)
    BY <2>1, <1>1, <1>2 DEF clientVars, Same
  <2> QED
    BY <2>2, SameClient DEF IInv, LobbyWaits
<1>8. PlayersTakeTurns'
  BY <1>4 DEF PlayersTakeTurns
<1> QED
  BY <1>5, <1>6, <1>7, <1>8 DEF IInv

\* What an event of the lobby has to keep: a frame begins in which nobody has a
\* turn.
LEMMA LobbyStep ==
  ASSUME IInv, Types', pc = "frame", ~reset, LobbyDone, LobbyWaits',
         \A j \in 1..Len(client'), c \in Client : c = client'[j] /\ ClientHas(c) => NoTurn(c)'
  PROVE  IInv'
<1>1. /\ pc' = IF client' # <<>> THEN "send" ELSE "frame"
      /\ cur' = 1 /\ reset' = reset /\ lost' = lost /\ lost = {} /\ UNCHANGED clientVars
  BY DEF LobbyDone, IInv, Position
<1>2. Len(client') \in Nat
  BY LenProperties DEF Types
<1>3. Position' /\ Gone'
  BY <1>1, <1>2 DEF clientVars, IInv, Position, Gone
<1>4. PlayersTakeTurns'
  <2>1. \A j \in 1..Len(client') : ~AskedAt(j)'
    BY <1>1, <1>2 DEF AskedAt
  <2>2. \A c : ClientHas(c)' <=> ClientHas(c)
    BY <1>1 DEF clientVars, ClientHas
  <2> QED
    BY <2>1, <2>2 DEF PlayersTakeTurns
<1> QED
  BY <1>3, <1>4 DEF IInv

\* Between two frames no player has a turn.
LEMMA NobodysTurn ==
  ASSUME IInv, pc = "frame", ~reset, NEW j \in 1..Len(client), NEW c \in Client, c = client[j], ClientHas(c)
  PROVE  NoTurn(c)
  BY DEF IInv, PlayersTakeTurns, AskedAt

LEMMA NoEventKeeps ==
  ASSUME IInv, NoEvent
  PROVE  IInv'
<1>1. /\ pc = "frame" /\ ~reset /\ LobbyDone
      /\ UNCHANGED <<pending, joined, client, pressed, toServer, toClient>>
      /\ UNCHANGED <<reset, lost, clientVars>>
      /\ cur' = 1 /\ pc' \in {"send", "frame"}
  BY DEF NoEvent, LobbyDone
<1>2. Types'
  BY <1>1 DEF clientVars, IInv, Types, Players
<1>3. \A c : Same(c)
  BY <1>1 DEF clientVars, Same
<1>4. LobbyWaits'
  BY <1>1, <1>3, SameClient DEF IInv, LobbyWaits
<1>5. \A j \in 1..Len(client'), c \in Client : c = client'[j] /\ ClientHas(c) => NoTurn(c)'
  BY <1>1, <1>3, SameClient, NobodysTurn
<1> QED
  BY <1>1, <1>2, <1>4, <1>5, LobbyStep

LEMMA AcceptKeeps ==
  ASSUME IInv, NEW c \in Client, Accept(c)
  PROVE  IInv'
<1>1. /\ pc = "frame" /\ ~reset /\ c \in pending /\ LobbyDone
      /\ pending' = pending \ {c} /\ joined' = joined \cup {c}
      /\ pressed' = [pressed EXCEPT ![c] = {}]
      /\ UNCHANGED <<client, toServer, toClient>>
      /\ UNCHANGED <<reset, lost, clientVars>>
      /\ cur' = 1 /\ pc' \in {"send", "frame"}
  BY DEF Accept, LobbyDone
<1>2. Types'
  <2>1. pressed' \in [Client -> SUBSET Key]
    BY <1>1 DEF IInv, Types
  <2>2. Players' = Players
    BY <1>1 DEF Players
  <2> QED
    BY <2>1, <2>2, <1>1 DEF clientVars, IInv, Types
<1>3. \A d \in Client : d # c => Same(d)
  BY <1>1 DEF clientVars, Same, IInv, Types
<1>4. pressed'[c] = {} /\ (InLobby(c) => InLobby(c)')
  BY <1>1 DEF clientVars, InLobby, IInv, Types
<1>5. LobbyWaits'
  <2> SUFFICES ASSUME NEW d \in pending \cup joined, ClientHas(d)
               PROVE  InLobby(d)' /\ (d \in joined \cup {c} => pressed'[d] = {})
    BY <1>1 DEF clientVars, LobbyWaits, ClientHas
  <2>1. d \in Client /\ InLobby(d) /\ (d \in joined => pressed[d] = {})
    BY DEF IInv, Types, LobbyWaits
  <2> QED
    BY <2>1, <1>3, <1>4, SameClient DEF Same
<1>6. \A j \in 1..Len(client'), d \in Client : d = client'[j] /\ ClientHas(d) => NoTurn(d)'
  <2> SUFFICES ASSUME NEW j \in 1..Len(client), NEW d \in Client, d = client[j], ClientHas(d)
               PROVE  NoTurn(d)'
    BY <1>1
  <2>1. d # c
    BY <1>1, PlayerAt DEF IInv
  <2> QED
    BY <2>1, <1>1, <1>3, SameClient, NobodysTurn
<1> QED
  BY <1>1, <1>2, <1>5, <1>6, LobbyStep

LEMMA LobbyEndKeeps ==
  ASSUME IInv, NEW c \in Client, LobbyEnd(c)
  PROVE  IInv'
<1>1. /\ pc = "frame" /\ ~reset /\ LobbyDone /\ joined' = joined \ {c}
      /\ UNCHANGED <<pending, client, pressed, toServer, toClient>>
      /\ UNCHANGED <<reset, lost, clientVars>>
      /\ cur' = 1 /\ pc' \in {"send", "frame"}
  BY DEF LobbyEnd, LobbyDone
<1>2. Types'
  BY <1>1 DEF clientVars, IInv, Types, Players
<1>3. \A d : Same(d)
  BY <1>1 DEF clientVars, Same
<1>4. LobbyWaits'
  BY <1>1, <1>3, SameClient DEF IInv, LobbyWaits
<1>5. \A j \in 1..Len(client'), d \in Client : d = client'[j] /\ ClientHas(d) => NoTurn(d)'
  BY <1>1, <1>3, SameClient, NobodysTurn
<1> QED
  BY <1>1, <1>2, <1>4, <1>5, LobbyStep

\* A command of the lobby, which may take clients into the game.
LEMMA LobbyMessageKeeps ==
  ASSUME IInv, NEW c \in Client, LobbyMessage(c)
  PROVE  IInv'
<1>1. /\ pc = "frame" /\ ~reset /\ c \in joined /\ toServer[c] # <<>> /\ LobbyDone
      /\ toServer' = [toServer EXCEPT ![c] = Tail(@)]
      /\ UNCHANGED <<pending, pressed>>
      /\ UNCHANGED <<reset, lost, clientVars>>
      /\ cur' = 1 /\ pc' \in {"send", "frame"}
  BY DEF LobbyMessage, LobbyDone
<1>2. /\ toServer' \in [Client -> Seq(ClientMessage)]
      /\ \A d \in Client : d # c => toServer'[d] = toServer[d]
      /\ toServer'[c] = Tail(toServer[c]) /\ toServer[c] \in Seq(ClientMessage)
  BY <1>1, HeadTailProperties DEF IInv, Types
<1>3. \A d \in Client : /\ ClientHas(d)' <=> ClientHas(d)
                        /\ at'[d] = at[d] /\ held'[d] = held[d] /\ pressed'[d] = pressed[d]
                        /\ d \in ignored' <=> d \in ignored
  BY <1>1, ServerTypes DEF IInv
<1>4. ASSUME NEW d \in Client, Commands(toServer[d])
      PROVE  Commands(toServer'[d])
  BY <1>1, <1>2, <1>4, CommandsTail
<1>5. CASE UNCHANGED <<joined, client, toClient>>
  <2>1. Types'
    BY <1>1, <1>2, <1>5 DEF clientVars, IInv, Types, Players
  <2>2. \A d \in Client : d # c => Same(d)
    BY <1>2, <1>3, <1>5 DEF Same
  <2>3. \A d \in Client : InLobby(d) => InLobby(d)'
    BY <1>3, <1>4, <1>5 DEF InLobby
  <2>4. LobbyWaits'
    <3> SUFFICES ASSUME NEW d \in pending \cup joined, ClientHas(d)'
                 PROVE  InLobby(d)' /\ (d \in joined => pressed'[d] = {})
      BY <1>1, <1>5 DEF LobbyWaits
    <3>1. d \in Client
      BY DEF IInv, Types
    <3> QED
      BY <3>1, <2>3, <1>3 DEF IInv, LobbyWaits
  <2>5. \A j \in 1..Len(client'), d \in Client : d = client'[j] /\ ClientHas(d) => NoTurn(d)'
    <3> SUFFICES ASSUME NEW j \in 1..Len(client), NEW d \in Client, d = client[j], ClientHas(d)
                 PROVE  NoTurn(d)'
      BY <1>5
    <3>1. d # c
      BY <1>1, PlayerAt DEF IInv
    <3> QED
      BY <3>1, <2>2, <1>1, SameClient, NobodysTurn
  <2> QED
    BY <2>1, <2>4, <2>5, <1>1, LobbyStep
<1>6. ASSUME NEW S \in SUBSET joined, client' = SetToSeq(S) \o client, joined' = joined \ S,
             SendTo(S, Start)
      PROVE  IInv'
  <2> DEFINE new == SetToSeq(S)
  <2>1. S \subseteq Client /\ IsFiniteSet(S)
    BY LockstepAssumption, FS_Subset DEF IInv, Types
  <2>2. new \in Seq(Client) /\ ToSet(new) = S /\ Distinct(new)
    <3>1. new \in Seq(S) /\ ToSet(new) = S /\ Distinct(new)
      BY <2>1, SetToSeqElements
    <3> HIDE DEF new
    <3> QED
      BY <3>1, <2>1, SeqMonotonic
  <2> HIDE DEF new
  <2>3. /\ client' \in Seq(Client) /\ Players' = S \cup Players /\ Distinct(client')
    <3>1. S \cap Players = {} /\ client \in Seq(Client) /\ Distinct(client)
      BY DEF IInv, Types
    <3> QED
      BY <3>1, <2>2, <1>6, ConcatMembers, ConcatProperties DEF Players, new
  <2>4. /\ toClient' \in [Client -> Seq(ServerMessage)]
        /\ \A d \in Client : toClient'[d] = IF d \in S /\ ClientHas(d) THEN Append(toClient[d], Start)
                                            ELSE toClient[d]
    BY <1>6, SendToQueues, MessageTypes DEF IInv
  <2>5. Types'
    BY <2>3, <2>4, <1>1, <1>2, <1>6, ServerTypes DEF IInv, Types
  <2>6. LobbyWaits'
    <3> SUFFICES ASSUME NEW d \in pending \cup (joined \ S), ClientHas(d)'
                 PROVE  InLobby(d)' /\ (d \in joined => pressed'[d] = {})
      BY <1>1, <1>6 DEF LobbyWaits
    <3>1. d \in Client /\ d \notin S
      BY DEF IInv, Types
    <3>2. InLobby(d) /\ (d \in joined => pressed[d] = {})
      BY <3>1, <1>3 DEF IInv, LobbyWaits
    <3> QED
      BY <3>1, <3>2, <2>4, <1>3, <1>4 DEF InLobby
  <2>7. ASSUME NEW j \in 1..Len(client'), NEW d \in Client, d = client'[j], ClientHas(d)
        PROVE  NoTurn(d)'
    <3>1. d \in S \cup Players
      <4>1. j \in DOMAIN client'
        BY <2>3, LenProperties
      <4>2. client'[j] \in Players'
        BY <4>1 DEF Players, ToSet
      <4> QED
        BY <4>2, <2>3, <2>7
    <3>2. CASE d \in S
      <4>1. InLobby(d) /\ pressed[d] = {}
        BY <3>2, <2>7 DEF IInv, LobbyWaits
      <4>2. toClient'[d] = <<Start>>
        BY <4>1, <3>2, <2>4, <2>7, ShortQueues DEF InLobby
      <4>3. Rests(d)'
        BY <4>1, <1>3, <1>4 DEF InLobby, Rests
      <4> QED
        BY <4>1, <4>2, <4>3, <1>3 DEF InLobby, NoTurn
    <3>3. CASE d \in Players
      <4>1. d \notin S /\ d # c
        BY <3>3, <1>1 DEF IInv, Types
      <4>2. PICK i \in 1..Len(client) : d = client[i]
        BY <3>3, LenProperties DEF Players, ToSet, IInv, Types
      <4>3. NoTurn(d)
        BY <4>2, <2>7, <1>1, NobodysTurn
      <4>4. Same(d)
        BY <4>1, <2>4, <1>2, <1>3 DEF Same
      <4> QED
        BY <4>3, <4>4, SameClient
    <3> QED
      BY <3>1, <3>2, <3>3
  <2> QED
    BY <2>5, <2>6, <2>7, <1>1, LobbyStep
<1>7. CASE ~UNCHANGED <<joined, client, toClient>>
  <2> DEFINE S == IF running THEN {c} ELSE joined
  <2>1. client' = SetToSeq(S) \o client /\ joined' = joined \ S /\ SendTo(S, Start)
    BY <1>7 DEF LobbyMessage, Start
  <2>2. S \in SUBSET joined
    BY <1>1
  <2> HIDE DEF S
  <2> QED
    BY <2>1, <2>2, <1>6
<1> QED
  BY <1>5, <1>7
\* A frame is sent to the player at cur.
LEMMA SendKeeps ==
  ASSUME IInv, Send
  PROVE  IInv'
<1>1. /\ pc = "send" /\ cur <= Len(client) /\ SendTo({client[cur]}, Frame) /\ cur' = cur + 1
      /\ UNCHANGED <<pc, reset, pending, joined, client, lost, pressed, clientVars, toServer>>
  BY DEF Send, Frame
<1>2. cur \in 1..Len(client) /\ Len(client) \in Nat
  BY <1>1, LenProperties DEF IInv, Types
<1>3. PICK c \in Client : c = client[cur]
  BY <1>2, PlayerAt DEF IInv
<1>4. /\ toClient' \in [Client -> Seq(ServerMessage)]
      /\ \A d \in Client : toClient'[d] = IF d = c /\ ClientHas(d) THEN Append(toClient[d], Frame)
                                          ELSE toClient[d]
  BY <1>1, <1>3, SendToQueues, MessageTypes DEF IInv
<1>5. Types'
  <2>1. cur' \in Nat \ {0} /\ Players' = Players
    BY <1>1, <1>2 DEF Players
  <2> QED
    BY <1>1, <1>4, <2>1 DEF clientVars, IInv, Types
<1>6. Position' /\ Gone'
  BY <1>1, <1>2 DEF clientVars, IInv, Position, Gone
<1>7. \A d \in Client : d # c => Same(d)
  BY <1>1, <1>4 DEF clientVars, Same
<1>8. LobbyWaits'
  <2> SUFFICES ASSUME NEW d \in pending \cup joined, ClientHas(d)'
               PROVE  InLobby(d)' /\ (d \in joined => pressed'[d] = {})
    BY <1>1 DEF LobbyWaits
  <2>1. d \in Client /\ d # c
    BY <1>2, <1>3, PlayerAt DEF IInv, Types
  <2> QED
    BY <2>1, <1>1, <1>7, SameClient DEF IInv, LobbyWaits
<1>9. ClientHas(c) /\ NoTurn(c) => FrameComes(c)'
  <2> SUFFICES ASSUME ClientHas(c), NoTurn(c)
               PROVE  FrameComes(c)'
    OBVIOUS
  <2>1. toClient'[c] = Append(toClient[c], Frame)
    BY <1>4
  <2>2. Append(<<Start>>, Frame) = <<Start, Frame>> /\ Append(<<>>, Frame) = <<Frame>>
    BY ShortQueues
  <2>3. Rests(c)'
    BY <1>1 DEF clientVars, NoTurn, Rests
  <2> QED
    BY <2>1, <2>2, <2>3, <1>1 DEF clientVars, NoTurn, FrameComes
<1>10. PlayersTakeTurns'
  <2> SUFFICES ASSUME NEW j \in 1..Len(client), NEW d \in Client, d = client[j], ClientHas(d)
               PROVE  /\ j < cur + 1 => Turn(d)'
                      /\ ~(j < cur + 1) => NoTurn(d)'
    BY <1>1, <1>2 DEF PlayersTakeTurns, AskedAt, clientVars, ClientHas
  <2>1. /\ j < cur => Turn(d)
        /\ ~(j < cur) => NoTurn(d)
    BY <1>1 DEF IInv, PlayersTakeTurns, AskedAt
  <2>2. CASE j = cur
    BY <2>1, <2>2, <1>2, <1>3, <1>9 DEF Turn
  <2>3. CASE j # cur
    <3>1. d # c
      BY <2>3, <1>2, <1>3 DEF IInv, Types, Distinct
    <3>2. j < cur + 1 <=> j < cur
      BY <2>3, <1>2
    <3> QED
      BY <3>1, <3>2, <2>1, <1>7, SameClient
  <2> QED
    BY <2>2, <2>3
<1> QED
  BY <1>5, <1>6, <1>8, <1>10 DEF IInv

\* What a step has to keep that changes only where the server is.
LEMMA MovesOn ==
  ASSUME IInv, UNCHANGED <<reset, pending, joined, client, lost, pressed, clientVars, toServer, toClient>>,
         pc \in {"send", "receive"}, pc' \in {"receive", "read"}, cur' \in Nat \ {0}, Position',
         \A j \in 1..Len(client) : AskedAt(j)' => AskedAt(j),
         \A j \in 1..Len(client) : AskedAt(j) /\ ~AskedAt(j)' => reset
  PROVE  IInv'
<1>1. Types'
  BY DEF clientVars, IInv, Types, Players
<1>2. \A d : Same(d)
  BY DEF clientVars, Same
<1>3. Gone'
  BY DEF clientVars, IInv, Gone
<1>4. LobbyWaits'
  BY <1>2, SameClient DEF IInv, LobbyWaits
<1>5. PlayersTakeTurns'
  <2> SUFFICES ASSUME NEW j \in 1..Len(client), NEW d \in Client, d = client[j], ClientHas(d)'
               PROVE  /\ AskedAt(j)' => Turn(d)'
                      /\ ~AskedAt(j)' /\ ~reset => NoTurn(d)'
    BY DEF PlayersTakeTurns
  <2> QED
    BY <1>2, SameClient DEF IInv, PlayersTakeTurns
<1> QED
  BY <1>1, <1>3, <1>4, <1>5 DEF IInv

LEMMA SendDoneKeeps ==
  ASSUME IInv, SendDone
  PROVE  IInv'
<1>1. /\ pc = "send" /\ cur > Len(client) /\ pc' = "receive" /\ cur' = 1
      /\ UNCHANGED <<reset, pending, joined, client, lost, pressed, clientVars, toServer, toClient>>
  BY DEF SendDone
<1>2. Len(client) \in Nat /\ cur \in Nat
  BY LenProperties DEF IInv, Types
<1>3. Position'
  BY <1>1, <1>2 DEF Position
<1>4. \A j \in 1..Len(client) : AskedAt(j) /\ AskedAt(j)'
  BY <1>1, <1>2 DEF AskedAt
<1> QED
  BY <1>1, <1>3, <1>4, MovesOn

LEMMA ReceiveKeeps ==
  ASSUME IInv, Receive
  PROVE  IInv'
<1>1. /\ pc = "receive" /\ cur <= Len(client)
      /\ UNCHANGED <<reset, pending, joined, client, lost, pressed, clientVars, toServer, toClient>>
  BY DEF Receive
<1>2. Len(client) \in Nat /\ cur \in Nat \ {0}
  BY LenProperties DEF IInv, Types
<1>3. CASE reset
  <2>1. pc' = "receive" /\ cur' = cur + 1
    BY <1>1, <1>3 DEF Receive
  <2>2. Position'
    BY <2>1, <1>1, <1>2 DEF Position
  <2>3. \A j \in 1..Len(client) : AskedAt(j)' => AskedAt(j)
    BY <2>1, <1>1, <1>2 DEF AskedAt
  <2> QED
    BY <2>1, <2>2, <2>3, <1>1, <1>2, <1>3, MovesOn
<1>4. CASE ~reset
  <2>1. pc' = "read" /\ cur' = cur
    BY <1>4 DEF Receive
  <2>2. Position'
    BY <2>1, <1>1, <1>2 DEF Position
  <2>3. \A j \in 1..Len(client) : AskedAt(j)' <=> AskedAt(j)
    BY <2>1, <1>1 DEF AskedAt
  <2> QED
    BY <2>1, <2>2, <2>3, <1>1, <1>2, MovesOn
<1> QED
  BY <1>3, <1>4

\* The server goes on to the next player: the one it read has no turn.
LEMMA ReceivedKeeps ==
  ASSUME IInv, Types', Received, pc = "read", NEW c \in Client, c = client[cur],
         lost' \in {lost, lost \cup {c}}, lost' # lost => ~ClientHas(c),
         UNCHANGED clientVars, \A d \in Client : d # c => Same(d),
         ClientHas(c) => NoTurn(c)'
  PROVE  IInv'
<1>1. /\ pc' = "receive" /\ cur' = cur + 1 /\ UNCHANGED <<reset, pending, joined, client>>
  BY DEF Received
<1>2. cur \in 1..Len(client) /\ Len(client) \in Nat
  BY LenProperties DEF IInv, Types, Position
<1>3. Position'
  BY <1>1, <1>2 DEF Position
<1>4. Gone'
  BY DEF clientVars, IInv, Gone, ClientHas
<1>5. LobbyWaits'
  <2> SUFFICES ASSUME NEW d \in pending \cup joined, ClientHas(d)'
               PROVE  InLobby(d)' /\ (d \in joined => pressed'[d] = {})
    BY <1>1 DEF LobbyWaits
  <2>1. d \in Client /\ d # c
    BY <1>2, PlayerAt DEF IInv, Types
  <2>2. Same(d)
    BY <2>1
  <2> QED
    BY <2>2, SameClient DEF IInv, LobbyWaits, Same
<1>6. PlayersTakeTurns'
  <2> SUFFICES ASSUME NEW j \in 1..Len(client), NEW d \in Client, d = client[j], ClientHas(d)
               PROVE  /\ j >= cur + 1 => Turn(d)'
                      /\ ~(j >= cur + 1) /\ ~reset => NoTurn(d)'
    BY <1>1, <1>2 DEF PlayersTakeTurns, AskedAt, clientVars, ClientHas
  <2>1. /\ j >= cur => Turn(d)
        /\ ~(j >= cur) /\ ~reset => NoTurn(d)
    BY DEF IInv, PlayersTakeTurns, AskedAt
  <2>2. CASE j = cur
    BY <2>2, <1>2
  <2>3. CASE j # cur
    <3>1. d # c
      BY <2>3, <1>2 DEF IInv, Types, Distinct
    <3>2. j >= cur + 1 <=> j >= cur
      BY <2>3, <1>2
    <3> QED
      BY <3>1, <3>2, <2>1, SameClient
  <2> QED
    BY <2>2, <2>3
<1> QED
  BY <1>3, <1>4, <1>5, <1>6 DEF IInv

LEMMA ReadEndKeeps ==
  ASSUME IInv, ReadEnd
  PROVE  IInv'
<1>1. cur \in 1..Len(client)
  BY LenProperties DEF ReadEnd, IInv, Types, Position
<1>2. PICK c \in Client : c = client[cur] /\ c \in Players
  BY <1>1, PlayerAt DEF IInv
<1>3. /\ pc = "read" /\ ~ClientHas(c) /\ lost' = lost \cup {c} /\ Received
      /\ UNCHANGED <<pressed, clientVars, toServer, toClient>>
  BY <1>2 DEF ReadEnd
<1>4. Types'
  <2>1. pc' = "receive" /\ cur' \in Nat \ {0} /\ UNCHANGED <<reset, pending, joined, client>>
    BY <1>1, <1>3 DEF Received
  <2> QED
    BY <2>1, <1>2, <1>3 DEF clientVars, IInv, Types, Players
<1>5. \A d : Same(d)
  BY <1>3 DEF clientVars, Same
<1> QED
  BY <1>2, <1>3, <1>4, <1>5, ReceivedKeeps

\* A message of the player at cur.
LEMMA ReadMessageKeeps ==
  ASSUME IInv, ReadMessage
  PROVE  IInv'
<1>1. cur \in 1..Len(client)
  BY LenProperties DEF ReadMessage, IInv, Types, Position
<1>2. PICK c \in Client : c = client[cur] /\ c \in Players
  BY <1>1, PlayerAt DEF IInv
<1> DEFINE m == Head(toServer[c])
<1>3. /\ pc = "read" /\ toServer[c] # <<>>
      /\ toServer' = [toServer EXCEPT ![c] = Tail(@)]
      /\ UNCHANGED <<clientVars, toClient>>
  BY <1>2 DEF ReadMessage
<1>4. \/ m = KeyEnd /\ Received /\ UNCHANGED <<lost, pressed>>
      \/ m = Quit /\ Received /\ lost' = lost \cup {c} /\ UNCHANGED pressed
      \/ /\ m.type = "KEYPRESS"
         /\ pressed' = [pressed EXCEPT ![c] = (@ \cup m.pressed) \ m.released]
         /\ UNCHANGED <<pc, cur, reset, pending, joined, client, lost>>
      \/ m = Command /\ UNCHANGED serverVars
  BY <1>2 DEF ReadMessage
<1>5. /\ toServer' \in [Client -> Seq(ClientMessage)] /\ toServer[c] \in Seq(ClientMessage)
      /\ \A d \in Client : d # c => toServer'[d] = toServer[d]
      /\ toServer'[c] = Tail(toServer[c]) /\ m \in ClientMessage
  BY <1>3, HeadTailProperties DEF IInv, Types
<1>6. \A d \in Client : /\ ClientHas(d)' <=> ClientHas(d)
                        /\ at'[d] = at[d] /\ held'[d] = held[d] /\ toClient'[d] = toClient[d]
                        /\ d \in ignored' <=> d \in ignored
  BY <1>3, ServerTypes DEF IInv
<1>7. ASSUME m.type = "KEYPRESS"
      PROVE  \E P, R \in SUBSET Key : m = KeyPress(P, R)
  <2>1. m # KeyEnd /\ m # Quit /\ m # Command
    BY <1>7, MessageKinds
  <2> QED
    BY <2>1, <1>5 DEF ClientMessage
<1>8. pressed' \in [Client -> SUBSET Key] /\ \A d \in Client : d # c => pressed'[d] = pressed[d]
  <2>1. CASE pressed' = pressed
    BY <2>1 DEF IInv, Types
  <2>2. CASE m.type = "KEYPRESS" /\ pressed' = [pressed EXCEPT ![c] = (@ \cup m.pressed) \ m.released]
    <3>1. m.pressed \in SUBSET Key
      BY <2>2, <1>7, MessageKinds
    <3> QED
      BY <3>1, <2>2 DEF IInv, Types
  <2> QED
    BY <2>1, <2>2, <1>4 DEF serverVars
<1>9. Types'
  <2>1. /\ pc' \in {"read", "receive"} /\ cur' \in Nat \ {0}
        /\ UNCHANGED <<reset, pending, joined, client>> /\ lost' \in {lost, lost \cup {c}}
    <3>1. cur \in Nat \ {0}
      BY DEF IInv, Types
    <3> QED
      BY <3>1, <1>3, <1>4 DEF Received, serverVars
  <2> QED
    BY <2>1, <1>2, <1>3, <1>5, <1>8, ServerTypes DEF IInv, Types, Players
<1>10. \A d \in Client : d # c => Same(d)
  BY <1>5, <1>6, <1>8 DEF Same
<1>11. ClientHas(c) => Turn(c)
  BY <1>1, <1>2, <1>3 DEF IInv, PlayersTakeTurns, AskedAt
<1>12. ASSUME Turn(c)
       PROVE  /\ m = KeyEnd => NoTurn(c)' \/ pressed' # pressed
              /\ m # Quit
              /\ m = Command /\ pressed' = pressed => Turn(c)'
              /\ (m.type = "KEYPRESS" /\ pressed'[c] = (pressed[c] \cup m.pressed) \ m.released) => Turn(c)'
  <2>1. CASE Rests(c)
    <3>1. m = Command /\ Commands(Tail(toServer[c]))
      BY <2>1, <1>3, <1>5, CommandsTail DEF Rests
    <3>2. m # KeyEnd /\ m # Quit /\ m.type # "KEYPRESS"
      BY <3>1, MessageKinds
    <3>3. ~Answered(c)
      <4>1. ASSUME Answered(c)
            PROVE  FALSE
        <5>1. Len(toServer[c]) \in 1..Len(toServer[c])
          BY <4>1, LenProperties, <1>5 DEF Answered, KeysThenEnd
        <5>2. KeyEnd = Command
          BY <5>1, <4>1, <2>1 DEF Answered, KeysThenEnd, Rests, Commands
        <5> QED
          BY <5>2, MessageKinds
      <4> QED
        BY <4>1
    <3>4. ASSUME pressed' = pressed PROVE Turn(c)'
      <4>1. Rests(c)'
        BY <3>1, <3>4, <2>1, <1>5, <1>6 DEF Rests
      <4> QED
        BY <4>1, <3>3, <1>6, <1>12 DEF Turn, FrameComes, FrameRead, Silent
    <3> QED
      BY <3>1, <3>2, <3>4
  <2>2. CASE ~Rests(c)
    <3>1. Answered(c)
      BY <2>2, <1>12 DEF Turn, FrameComes, FrameRead, Silent
    <3> DEFINE t == Tail(toServer[c])
    <3>2. \/ m = KeyEnd /\ t = <<>> /\ pressed[c] = held[c]
          \/ m = Command /\ KeysThenEnd(t, pressed[c], held[c])
          \/ \E P, R \in SUBSET Key : /\ m = KeyPress(P, R)
                                      /\ KeysThenEnd(t, (pressed[c] \cup P) \ R, held[c])
      BY <3>1, <1>5, KeysRead DEF Answered
    <3>3. CASE m = KeyEnd /\ t = <<>> /\ pressed[c] = held[c]
      <4>1. m # Quit /\ m # Command /\ m.type # "KEYPRESS"
        BY <3>3, MessageKinds
      <4>2. ASSUME pressed' = pressed PROVE NoTurn(c)'
        <5>1. Rests(c)'
          BY <3>3, <4>2, <1>5, <1>6, CommandsEmpty DEF Rests
        <5> QED
          BY <5>1, <3>1, <1>6 DEF Answered, NoTurn
      <4> QED
        BY <4>1, <4>2
    <3>4. CASE m = Command /\ KeysThenEnd(t, pressed[c], held[c])
      <4>1. m # Quit /\ m # KeyEnd /\ m.type # "KEYPRESS"
        BY <3>4, MessageKinds
      <4>2. ASSUME pressed' = pressed PROVE Answered(c)'
        BY <4>2, <3>1, <3>4, <1>5, <1>6 DEF Answered
      <4> QED
        BY <4>1, <4>2 DEF Turn
    <3>5. ASSUME NEW P \in SUBSET Key, NEW R \in SUBSET Key, m = KeyPress(P, R),
                 KeysThenEnd(t, (pressed[c] \cup P) \ R, held[c])
          PROVE  /\ m # KeyEnd /\ m # Quit /\ m # Command
                 /\ pressed'[c] = (pressed[c] \cup m.pressed) \ m.released => Turn(c)'
      <4>1. m # Quit /\ m # KeyEnd /\ m # Command /\ m.pressed = P /\ m.released = R
        BY <3>5, MessageKinds
      <4>2. ASSUME pressed'[c] = (pressed[c] \cup P) \ R PROVE Answered(c)'
        BY <4>2, <3>1, <3>5, <1>5, <1>6 DEF Answered
      <4> QED
        BY <4>1, <4>2 DEF Turn
    <3> QED
      BY <3>2, <3>3, <3>4, <3>5
  <2> QED
    BY <2>1, <2>2
<1>13. CASE m = KeyEnd /\ Received /\ UNCHANGED <<lost, pressed>>
  BY <1>13, <1>2, <1>3, <1>9, <1>10, <1>11, <1>12, ReceivedKeeps
<1>14. CASE m = Quit /\ Received /\ lost' = lost \cup {c} /\ UNCHANGED pressed
  BY <1>14, <1>2, <1>3, <1>9, <1>10, <1>11, <1>12, ReceivedKeeps
<1>15. ASSUME UNCHANGED <<pc, cur, reset, pending, joined, client, lost>>, Turn(c) => Turn(c)'
       PROVE  IInv'
  <2>1. Position' /\ Gone'
    BY <1>3, <1>15 DEF clientVars, IInv, Position, Gone
  <2>2. LobbyWaits'
    <3> SUFFICES ASSUME NEW d \in pending \cup joined, ClientHas(d)'
                 PROVE  InLobby(d)' /\ (d \in joined => pressed'[d] = {})
      BY <1>15 DEF LobbyWaits
    <3>1. d \in Client /\ d # c
      BY <1>2 DEF IInv, Types
    <3> QED
      BY <3>1, <1>10, SameClient DEF IInv, LobbyWaits, Same
  <2>3. PlayersTakeTurns'
    <3>1. \A j : AskedAt(j)' <=> AskedAt(j)
      BY <1>15 DEF AskedAt
    <3> SUFFICES ASSUME NEW j \in 1..Len(client), NEW d \in Client, d = client[j], ClientHas(d)
                 PROVE  /\ AskedAt(j) => Turn(d)'
                        /\ ~AskedAt(j) /\ (~reset \/ pc = "send") => NoTurn(d)'
      BY <3>1, <1>6, <1>15 DEF PlayersTakeTurns
    <3>2. CASE d = c
      <4>1. j = cur
        BY <3>2, <1>1, <1>2 DEF IInv, Types, Distinct
      <4>2. AskedAt(j)
        BY <4>1, <1>1, <1>3 DEF AskedAt
      <4> QED
        BY <4>2, <3>2, <1>11, <1>15
    <3>3. CASE d # c
      BY <3>3, <1>10, SameClient DEF IInv, PlayersTakeTurns
    <3> QED
      BY <3>2, <3>3
  <2> QED
    BY <2>1, <2>2, <2>3, <1>9 DEF IInv
<1>16. CASE m = Command /\ UNCHANGED serverVars
  BY <1>16, <1>12, <1>15 DEF serverVars
<1>17. CASE /\ m.type = "KEYPRESS"
            /\ pressed' = [pressed EXCEPT ![c] = (@ \cup m.pressed) \ m.released]
            /\ UNCHANGED <<pc, cur, reset, pending, joined, client, lost>>
  <2>1. pressed'[c] = (pressed[c] \cup m.pressed) \ m.released
    BY <1>17 DEF IInv, Types
  <2> QED
    BY <2>1, <1>12, <1>15, <1>17
<1> QED
  BY <1>4, <1>13, <1>14, <1>16, <1>17

\* The players that are left have no turn, unless a reset is due.
LEMMA EndFrameKeeps ==
  ASSUME IInv, EndFrame
  PROVE  IInv'
<1>1. /\ pc = "receive" /\ cur > Len(client) /\ client' \in SetToSeqs(Players \ lost)
      /\ lost' = {} /\ pc' = "frame" /\ cur' = 1
      /\ UNCHANGED <<reset, pending, joined, pressed, clientVars, toServer, toClient>>
  BY DEF EndFrame
<1>2. Players \ lost \subseteq Client /\ IsFiniteSet(Players \ lost)
  BY LockstepAssumption, PlayersAreClients, FS_Subset DEF IInv
<1>3. client' \in Seq(Client) /\ Players' = Players \ lost /\ Distinct(client')
  <2>1. client' \in Seq(Players \ lost) /\ ToSet(client') = Players \ lost /\ Distinct(client')
    BY <1>1, <1>2, SetToSeqsElements
  <2>2. client' \in Seq(Client)
    BY <2>1, <1>2, SeqMonotonic
  <2> QED
    BY <2>1, <2>2 DEF Players
<1>4. Types'
  BY <1>1, <1>3 DEF clientVars, IInv, Types
<1>5. Len(client') \in Nat /\ Len(client) \in Nat /\ cur \in Nat
  BY <1>3, LenProperties DEF IInv, Types
<1>6. Position' /\ Gone'
  BY <1>1, <1>5 DEF clientVars, IInv, Position, Gone
<1>7. \A d : Same(d)
  BY <1>1 DEF clientVars, Same
<1>8. LobbyWaits'
  BY <1>1, <1>7, SameClient DEF IInv, LobbyWaits
<1>9. PlayersTakeTurns'
  <2> SUFFICES ASSUME NEW j \in 1..Len(client'), NEW d \in Client, d = client'[j], ClientHas(d), ~reset
               PROVE  NoTurn(d)'
    BY <1>1, <1>7, SameClient DEF PlayersTakeTurns, AskedAt
  <2>1. d \in Players
    <3>1. j \in DOMAIN client'
      BY <1>3, LenProperties
    <3> QED
      BY <3>1, <1>3 DEF Players, ToSet
  <2>2. PICK i \in 1..Len(client) : d = client[i]
    BY <2>1, LenProperties DEF Players, ToSet, IInv, Types
  <2>3. ~AskedAt(i)
    BY <1>1, <1>5 DEF AskedAt
  <2> QED
    BY <2>2, <2>3, <1>7, SameClient DEF IInv, PlayersTakeTurns
<1> QED
  BY <1>4, <1>6, <1>8, <1>9 DEF IInv
-----------------------------------------------------------------------------
(***************************************************************************)
(* The invariant, and what it says of the frames.                          *)
(***************************************************************************)
LEMMA InitIInv ==
  Init => IInv
<1> SUFFICES ASSUME Init
             PROVE  IInv
  OBVIOUS
<1>1. Len(client) = 0 /\ client \in Seq(Client) /\ Players = {} /\ Distinct(client)
  BY EmptySeq DEF Init, Players, ToSet, Distinct
<1>2. Types
  <2>1. <<>> \in Seq(ClientMessage) /\ <<>> \in Seq(ServerMessage)
    BY EmptySeq
  <2>2. /\ pressed \in [Client -> SUBSET Key] /\ held \in [Client -> SUBSET Key]
        /\ at \in [Client -> Places]
    BY DEF Init, Places
  <2>4. fading \in [Client -> BOOLEAN]
    BY Zenon DEF Init
  <2>3. /\ toServer \in [Client -> Seq(ClientMessage)]
        /\ toClient \in [Client -> Seq(ServerMessage)]
    BY <2>1 DEF Init
  <2>5. reset \in BOOLEAN
    BY Zenon DEF Init
  <2> QED
    BY <1>1, <2>2, <2>3, <2>4, <2>5 DEF Init, Types
<1>3. Position /\ Gone /\ LobbyWaits
  BY <1>1 DEF Init, Position, Gone, LobbyWaits
<1>4. PlayersTakeTurns
  BY <1>1 DEF PlayersTakeTurns
<1> QED
  BY <1>2, <1>3, <1>4 DEF IInv

LEMMA StutterKeeps ==
  ASSUME IInv, UNCHANGED vars
  PROVE  IInv'
<1>1. UNCHANGED <<pc, cur, reset, pending, joined, client, lost, pressed, clientVars, toServer, toClient>>
  BY DEF vars, serverVars
<1>2. Types'
  BY <1>1 DEF clientVars, IInv, Types, Players
<1>3. Position' /\ Gone'
  BY <1>1 DEF clientVars, IInv, Position, Gone
<1>4. \A d : Same(d)
  BY <1>1 DEF clientVars, Same
<1>5. LobbyWaits'
  BY <1>1, <1>4, SameClient DEF IInv, LobbyWaits
<1>6. PlayersTakeTurns'
  <2>1. \A j : AskedAt(j)' <=> AskedAt(j)
    BY <1>1 DEF AskedAt
  <2> QED
    BY <1>1, <1>4, <2>1, SameClient DEF IInv, PlayersTakeTurns
<1> QED
  BY <1>2, <1>3, <1>5, <1>6 DEF IInv

LEMMA NextIInv ==
  IInv /\ [Next]_vars => IInv'
<1> SUFFICES ASSUME IInv, [Next]_vars
             PROVE  IInv'
  OBVIOUS
<1>1. CASE Server
  <2>1. CASE Reset
    BY <2>1, ResetKeeps
  <2>2. CASE NoEvent
    BY <2>2, NoEventKeeps
  <2>3. CASE Send
    BY <2>3, SendKeeps
  <2>4. CASE SendDone
    BY <2>4, SendDoneKeeps
  <2>5. CASE Receive
    BY <2>5, ReceiveKeeps
  <2>6. CASE ReadMessage
    BY <2>6, ReadMessageKeeps
  <2>7. CASE ReadEnd
    BY <2>7, ReadEndKeeps
  <2>8. CASE EndFrame
    BY <2>8, EndFrameKeeps
  <2>9. CASE \E c \in Client : Accept(c) \/ LobbyMessage(c) \/ LobbyEnd(c)
    BY <2>9, AcceptKeeps, LobbyMessageKeeps, LobbyEndKeeps
  <2> QED
    BY <1>1, <2>1, <2>2, <2>3, <2>4, <2>5, <2>6, <2>7, <2>8, <2>9 DEF Server
<1>2. CASE ResetSignal
  BY <1>2, ResetSignalKeeps
<1>3. CASE \E c \in Client : Program(c)
  <2> SUFFICES ASSUME NEW c \in Client, Program(c)
               PROVE  IInv'
    BY <1>3
  <2> QED
    BY InputKeeps, ReceiveFrameKeeps, ReceiveFailsKeeps, SendKeysKeeps DEF Program
<1>4. CASE \E c \in Client : Connect(c) \/ Choose(c) \/ End(c) \/ UserLeaves(c)
  <2> SUFFICES ASSUME NEW c \in Client, Connect(c) \/ Choose(c) \/ End(c) \/ UserLeaves(c)
               PROVE  IInv'
    BY <1>4
  <2> QED
    BY ConnectKeeps, ChooseKeeps, EndKeeps, UserLeavesKeeps
<1>5. CASE UNCHANGED vars
  BY <1>5, StutterKeeps
<1> QED
  BY <1>1, <1>2, <1>3, <1>4, <1>5 DEF Next

\* The invariant of the frames: a player has a turn exactly while the server
\* waits for its keys, and what is in its two queues tells which part of the
\* turn is done (srv_do_frame of server.c, do_frame of game.c).
THEOREM StaysInStep ==
  Spec => []IInv
<1>1. Init => IInv
  BY InitIInv
<1>2. IInv /\ [Next]_vars => IInv'
  BY NextIInv
<1> QED
  BY <1>1, <1>2, PTL DEF Spec

\* A queue without messages of a type, and with one.
LEMMA CountNone ==
  ASSUME NEW s, NEW t, \A i \in DOMAIN s : s[i].type # t
  PROVE  Count(s, t) = 0
<1>1. {i \in DOMAIN s : s[i].type = t} = {}
  OBVIOUS
<1> QED
  BY <1>1, FS_EmptySet DEF Count

LEMMA CountOne ==
  ASSUME NEW s, NEW t, NEW k \in DOMAIN s, s[k].type = t, \A i \in DOMAIN s : i # k => s[i].type # t
  PROVE  Count(s, t) = 1
<1>1. {i \in DOMAIN s : s[i].type = t} = {k}
  OBVIOUS
<1> QED
  BY <1>1, FS_Singleton DEF Count

LEMMA CountShort ==
  /\ Count(<<>>, "FRAME") = 0 /\ Count(<<Start>>, "FRAME") = 0
  /\ Count(<<Frame>>, "FRAME") = 1 /\ Count(<<Start, Frame>>, "FRAME") = 1
<1>1. Count(<<>>, "FRAME") = 0
  BY CountNone
<1>2. Count(<<Start>>, "FRAME") = 0
  <2>1. DOMAIN <<Start>> = {1} /\ <<Start>>[1].type = "START"
    BY MessageKinds
  <2> QED
    BY <2>1, CountNone
<1>3. Count(<<Frame>>, "FRAME") = 1
  <2>1. DOMAIN <<Frame>> = {1} /\ <<Frame>>[1].type = "FRAME"
    BY MessageKinds
  <2> QED
    BY <2>1, CountOne
<1>4. Count(<<Start, Frame>>, "FRAME") = 1
  <2>1. /\ DOMAIN <<Start, Frame>> = {1, 2}
        /\ <<Start, Frame>>[1].type = "START" /\ <<Start, Frame>>[2].type = "FRAME"
    BY MessageKinds
  <2> QED
    BY <2>1, CountOne
<1> QED
  BY <1>1, <1>2, <1>3, <1>4

LEMMA CountCommands ==
  ASSUME NEW s \in Seq(ClientMessage), Commands(s)
  PROVE  Count(s, "KEYEND") = 0
<1>1. DOMAIN s = 1..Len(s)
  BY LenProperties
<1>2. \A i \in DOMAIN s : s[i].type # "KEYEND"
  BY <1>1, MessageKinds DEF Commands
<1> QED
  BY <1>2, CountNone

LEMMA CountKeysThenEnd ==
  ASSUME NEW s \in Seq(ClientMessage), NEW p, NEW h, KeysThenEnd(s, p, h)
  PROVE  Count(s, "KEYEND") = 1
<1>1. DOMAIN s = 1..Len(s) /\ Len(s) \in Nat
  BY LenProperties
<1>2. Len(s) \in DOMAIN s /\ s[Len(s)].type = "KEYEND"
  BY <1>1, MessageKinds DEF KeysThenEnd
<1>3. ASSUME NEW i \in DOMAIN s, i # Len(s)
      PROVE  s[i].type # "KEYEND"
  <2>1. CASE s[i] = Command
    BY <2>1, MessageKinds
  <2>2. CASE i = Len(s) - 1 /\ \E P, R \in SUBSET Key : s[i] = KeyPress(P, R)
    BY <2>2, MessageKinds
  <2> QED
    BY <2>1, <2>2, <1>1, <1>3 DEF KeysThenEnd
<1> QED
  BY <1>2, <1>3, CountOne

\* The turns of a client by its place in a turn.
LEMMA TurnsOf ==
  ASSUME IInv, NEW c \in Client
  PROVE  /\ InLobby(c) \/ NoTurn(c) => Turns(c) = 0
         /\ Turn(c) /\ c \notin ignored => Turns(c) = 1
<1>1. toServer[c] \in Seq(ClientMessage)
  BY DEF IInv, Types
<1>2. InLobby(c) => Turns(c) = 0
  BY <1>1, CountCommands, CountShort DEF InLobby, Turns
<1>3. NoTurn(c) => Turns(c) = 0
  BY <1>1, CountCommands, CountShort DEF NoTurn, Rests, Turns
<1>4. FrameComes(c) => Turns(c) = 1
  BY <1>1, CountCommands, CountShort DEF FrameComes, Rests, Turns
<1>5. FrameRead(c) => Turns(c) = 1
  BY <1>1, CountCommands, CountShort DEF FrameRead, Rests, Turns
<1>6. Answered(c) => Turns(c) = 1
  BY <1>1, CountKeysThenEnd, CountShort DEF Answered, Turns
<1> QED
  BY <1>2, <1>3, <1>4, <1>5, <1>6 DEF Turn, Silent

\* A player is asked by its place in the list.
LEMMA AskedPlayers ==
  ASSUME IInv
  PROVE  /\ Asked \subseteq Players
         /\ \A j \in 1..Len(client) : client[j] \in Asked <=> AskedAt(j)
<1>1. DOMAIN client = 1..Len(client)
  BY LenProperties DEF IInv, Types
<1>2. Asked \subseteq Players
  BY <1>1 DEF Asked, Players, ToSet
<1>3. ASSUME NEW j \in 1..Len(client)
      PROVE  client[j] \in Asked <=> AskedAt(j)
  <2>1. AskedAt(j) => client[j] \in Asked
    BY <1>1 DEF Asked, AskedAt
  <2>2. ASSUME client[j] \in Asked
        PROVE  AskedAt(j)
    <3>1. PICK i \in 1..Len(client) : client[i] = client[j] /\ AskedAt(i)
      BY <2>2, <1>1 DEF Asked, AskedAt
    <3>2. i = j
      BY <3>1 DEF IInv, Types, Distinct
    <3> QED
      BY <3>1, <3>2
  <2> QED
    BY <2>1, <2>2
<1> QED
  BY <1>2, <1>3

LEMMA IInvOneTurn ==
  IInv => OneTurn
<1> SUFFICES ASSUME IInv, NEW c \in Client, ClientHas(c), ServerHas(c), ~reset, c \notin ignored
             PROVE  Turns(c) = IF c \in Asked THEN 1 ELSE 0
  BY DEF OneTurn
<1>1. CASE c \in pending \cup joined
  <2>1. c \notin Asked
    BY <1>1, AskedPlayers DEF IInv, Types
  <2> QED
    BY <1>1, <2>1, TurnsOf DEF IInv, LobbyWaits
<1>2. CASE c \in Players
  <2>1. PICK j \in 1..Len(client) : c = client[j]
    BY <1>2, LenProperties DEF Players, ToSet, IInv, Types
  <2>2. c \in Asked <=> AskedAt(j)
    BY <2>1, AskedPlayers
  <2>3. /\ AskedAt(j) => Turn(c)
        /\ ~AskedAt(j) => NoTurn(c)
    BY <2>1 DEF IInv, PlayersTakeTurns
  <2> QED
    BY <2>2, <2>3, TurnsOf
<1> QED
  BY <1>1, <1>2 DEF ServerHas

LEMMA IInvKeysAgree ==
  IInv => KeysAgree
<1> SUFFICES ASSUME IInv, pc = "frame", ~reset, NEW c \in Players, ClientHas(c)
             PROVE  pressed[c] = held[c]
  BY DEF KeysAgree
<1>1. PICK j \in 1..Len(client) : c = client[j]
  BY LenProperties DEF Players, ToSet, IInv, Types
<1>2. c \in Client
  BY PlayersAreClients DEF IInv
<1> QED
  BY <1>1, <1>2, NobodysTurn DEF NoTurn, Rests

LEMMA IInvNobodyStuck ==
  IInv => NobodyStuck
<1> SUFFICES ASSUME IInv, pc = "read", NEW c, c = client[cur],
                    toServer[c] = <<>>, at[c] \in {"menu", "receive"}, toClient[c] = <<>>, c \notin ignored
             PROVE  FALSE
  BY DEF NobodyStuck
<1>1. cur \in 1..Len(client)
  BY LenProperties DEF IInv, Types, Position
<1>2. c \in Client /\ ClientHas(c) /\ AskedAt(cur)
  BY <1>1, PlayerAt DEF IInv, ClientHas, AskedAt
<1>3. Turn(c)
  BY <1>1, <1>2 DEF IInv, PlayersTakeTurns
<1>4. ~FrameComes(c) /\ ~FrameRead(c) /\ ~Silent(c)
  BY ShortQueues DEF FrameComes, FrameRead, Silent
<1>5. ~Answered(c)
  BY EmptySeq DEF Answered, KeysThenEnd
<1> QED
  BY <1>3, <1>4, <1>5 DEF Turn

\* Server and clients are never more than a frame apart: from the frame it is
\* sent (srv_send_frame) to the KEYEND the server reads (receive_client) a
\* player has one turn, and at no other time has it any.
THEOREM OneTurnEach ==
  Spec => []OneTurn
  BY StaysInStep, IInvOneTurn, PTL

\* Between two frames the server has the keys of each player as client_send
\* sent them.
THEOREM KeysAgreeBetweenFrames ==
  Spec => []KeysAgree
  BY StaysInStep, IInvKeysAgree, PTL

\* receive_client, which reads without a timeout, never waits for a client
\* that itself waits for the server, unless the client passed over its turn.
THEOREM ServerNotStuck ==
  Spec => []NobodyStuck
  BY StaysInStep, IInvNobodyStuck, PTL
=============================================================================
