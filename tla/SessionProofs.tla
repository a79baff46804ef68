---------------------------- MODULE SessionProofs ----------------------------
(***************************************************************************)
(* Proofs of the safety invariants of Session, for any set of client       *)
(* programs.  The order is that of the argument: types, then the shape of  *)
(* the two lists of clients (Structure), which everything else rests on,   *)
(* and then one inductive invariant for each property, stated over the     *)
(* sets of clients on a list rather than over positions.  The last part is *)
(* about the other part of MCSession, the roster.                          *)
(***************************************************************************)
EXTENDS MCSession, ListLemmas, SequenceTheorems, TLAPS
-----------------------------------------------------------------------------
\* The initial values have their types.
LEMMA TypeInit == Init => TypeOK
<1> SUFFICES ASSUME Init
             PROVE  TypeOK
  OBVIOUS
<1>1. running \in BOOLEAN /\ lost \in BOOLEAN /\ quit \in BOOLEAN /\ reset \in BOOLEAN
  BY DEF Init
<1>2. joined \in Seq(Client) /\ client \in Seq(Client) /\ disc \in Seq(Nat)
  BY EmptySeq DEF Init
<1>3. view \in [Client -> View]
  BY DEF Init, NoJacks, View
<1> QED
  BY <1>1, <1>2, <1>3 DEF Init, TypeOK, Types, Phases

\* A SETCLIENTTYPE leaves every client with a client type.
LEMMA TellTypesType ==
  ASSUME TypeOK, type' \in [Client -> Types], NEW S, TellTypes(S)
  PROVE  told' \in [Client -> Types]
  BY DEF TypeOK, TellTypes

\* Closing connections keeps the types of connections and views.
LEMMA CloseType ==
  ASSUME TypeOK, NEW S, Close(S)
  PROVE  /\ conn' \in [Client -> {"closed", "connecting", "open"}]
         /\ view' \in [Client -> View]
  BY DEF TypeOK, Close, NoJacks, View

\* Ids are numbers.
LEMMA IdsOfType ==
  ASSUME TypeOK
  PROVE  IdsOf(client) \subseteq Nat
  BY LenProperties DEF TypeOK, IdsOf, ToSet

\* srv_reset_server keeps the types.
LEMMA TypeReset ==
  ASSUME TypeOK, ResetServer, pc' \in Phases
  PROVE  TypeOK'
<1>1. type' \in [Client -> Types]
  BY DEF TypeOK, ResetServer, Free, Types
<1>2. told' \in [Client -> Types]
  BY <1>1, TellTypesType DEF ResetServer
<1>3. /\ conn' \in [Client -> {"closed", "connecting", "open"}]
      /\ view' \in [Client -> View]
  BY CloseType DEF ResetServer
<1>4. state' \in [Client -> {"ALIVE", "DISCONNECT"}] /\ id' \in [Client -> Nat]
  BY DEF TypeOK, ResetServer, Free
<1>5. joined' \in Seq(Client) /\ client' \in Seq(Client)
  BY EmptySeq DEF ResetServer
<1>6. /\ running' \in BOOLEAN /\ reset' \in BOOLEAN
      /\ UNCHANGED <<cur, lost, disc, quit>>
  BY DEF ResetServer
<1> QED
  BY <1>1, <1>2, <1>3, <1>4, <1>5, <1>6 DEF TypeOK

\* Every step keeps the types.
LEMMA TypeStep == TypeOK /\ [Next]_vars => TypeOK'
<1> SUFFICES ASSUME TypeOK, [Next]_vars
             PROVE  TypeOK'
  OBVIOUS
<1>1. CASE Environment
  BY <1>1 DEF Environment, Connect, Interrupt, ResetSignal, server, signals,
     remote, TypeOK, Phases
<1>2. CASE BeginFrame
  BY <1>2 DEF BeginFrame, signals, remote, TypeOK, Phases
<1>16. CASE BeginFrameWithReset
  BY <1>16, TypeReset DEF BeginFrameWithReset, Phases
<1>3. CASE Exit
  BY <1>3, TypeReset DEF Exit, Phases
<1>4. CASE Block \/ NothingHappened \/ IdleTimeout
  <2>1. /\ running' \in BOOLEAN /\ lost' \in BOOLEAN
        /\ quit' \in BOOLEAN /\ reset' \in BOOLEAN
    BY <1>4 DEF Block, NothingHappened, IdleTimeout, signals, TypeOK
  <2> QED
    BY <1>4, <2>1 DEF Block, NothingHappened, IdleTimeout, EventDone, signals,
       remote, TypeOK, Phases
<1>5. ASSUME NEW c \in Client, AcceptClient(c)
      PROVE  TypeOK'
  <2>1. joined' \in Seq(Client)
    BY <1>5, ConsElements DEF AcceptClient, TypeOK
  <2>2. type' \in [Client -> Types]
    BY <1>5 DEF AcceptClient, NewClientType, TypeOK, Types
  <2>3. told' \in [Client -> Types]
    BY <1>5, <2>2, TellTypesType DEF AcceptClient
  <2> QED
    BY <1>5, <2>1, <2>2, <2>3 DEF AcceptClient, EventDone, signals, TypeOK,
       Phases
<1>6. ASSUME NEW c \in Client, RefuseClient(c) \/ IgnoredMessage(c)
      PROVE  TypeOK'
  BY <1>6 DEF RefuseClient, IgnoredMessage, EventDone, signals, remote,
     TypeOK, Phases
<1>7. ASSUME NEW c \in Client, StartGame(c)
      PROVE  TypeOK'
  <2>1. Len(joined) \in Nat /\ DOMAIN joined = 1..Len(joined)
    BY LenProperties DEF TypeOK
  <2>2. \A d \in ToSet(joined) : \E i \in 0..(Len(joined) - 1) : joined[i + 1] = d
    <3> SUFFICES ASSUME NEW k \in 1..Len(joined)
                 PROVE  \E i \in 0..(Len(joined) - 1) : joined[i + 1] = joined[k]
      BY <2>1 DEF ToSet
    <3>1. k - 1 \in 0..(Len(joined) - 1) /\ (k - 1) + 1 = k
      BY <2>1
    <3> QED
      BY <3>1
  <2>3. ASSUME NEW d \in ToSet(joined)
        PROVE  (CHOOSE i \in 0..(Len(joined) - 1) : joined[i + 1] = d) \in Nat
    <3>1. (CHOOSE i \in 0..(Len(joined) - 1) : joined[i + 1] = d)
            \in 0..(Len(joined) - 1)
      BY <2>2, <2>3
    <3> QED
      BY <2>1, <3>1
  <2>4. id' \in [Client -> Nat]
    BY <1>7, <2>3 DEF StartGame, TypeOK
  <2>5. StartupView(Len(joined), 0..(Len(joined) - 1)) \in View
    BY <2>1 DEF StartupView, View
  <2>6. view' \in [Client -> View]
    BY <1>7, <2>5 DEF StartGame, TypeOK
  <2>7. client' \in Seq(Client) /\ joined' \in Seq(Client)
    BY <1>7, EmptySeq DEF StartGame, TypeOK
  <2> QED
    BY <1>7, <2>4, <2>6, <2>7 DEF StartGame, EventDone, signals, TypeOK, Phases
<1>8. ASSUME NEW c \in Client, JoinClient(c)
      PROVE  TypeOK'
  <2>1. client' \in Seq(Client)
    BY <1>8, ConsElements DEF JoinClient, TypeOK
  <2>2. joined' \in Seq(Client)
    BY <1>8, RemoveAtElements DEF JoinClient, TypeOK
  <2>3. Len(client) \in Nat
    BY LenProperties DEF TypeOK
  <2>4. PICK i \in 0..Len(client) :
          /\ FirstFreeId(i)
          /\ id' = [id EXCEPT ![c] = i]
          /\ \E n \in {j + 1 : j \in IdsOf(client) \cup {i}} :
               /\ IsJackCount(n, i)
               /\ view' = [d \in Client |->
                    IF d = c THEN StartupView(n, IdsOf(client) \cup {i})
                    ELSE IF d \in ToSet(client) THEN JoinJack(view[d], i)
                    ELSE view[d]]
    BY <1>8 DEF JoinClient
  <2>5. i \in Nat /\ IdsOf(client) \cup {i} \subseteq Nat
    BY <2>3, IdsOfType
  <2>6. PICK n \in Nat :
          view' = [d \in Client |->
                    IF d = c THEN StartupView(n, IdsOf(client) \cup {i})
                    ELSE IF d \in ToSet(client) THEN JoinJack(view[d], i)
                    ELSE view[d]]
    BY <2>4, <2>5
  <2>7. StartupView(n, IdsOf(client) \cup {i}) \in View
    BY <2>5 DEF StartupView, View
  <2>8. ASSUME NEW v \in View
        PROVE  JoinJack(v, i) \in View
    BY <2>5 DEF JoinJack, View
  <2>9. view' \in [Client -> View]
    BY <2>6, <2>7, <2>8 DEF TypeOK
  <2>10. id' \in [Client -> Nat]
    BY <2>4, <2>5 DEF TypeOK
  <2>11. /\ running' \in BOOLEAN /\ lost' \in BOOLEAN
         /\ quit' \in BOOLEAN /\ reset' \in BOOLEAN
    BY <1>8 DEF JoinClient, signals, TypeOK
  <2>12. pc' \in Phases /\ cur' \in Nat \ {0}
    BY <1>8 DEF JoinClient, EventDone, Phases
  <2> QED
    BY <1>8, <2>1, <2>2, <2>9, <2>10, <2>11, <2>12 DEF JoinClient, EventDone, signals,
       TypeOK, Phases
<1>9. ASSUME NEW c \in Client, LeaveLobby(c)
      PROVE  TypeOK'
  <2>1. joined' \in Seq(Client)
    BY <1>9, RemoveAtElements DEF LeaveLobby, TypeOK
  <2>2. type' \in [Client -> Types]
    BY <1>9 DEF LeaveLobby, TypeOK, Types
  <2>3. told' \in [Client -> Types]
    BY <1>9, <2>2, TellTypesType DEF LeaveLobby
  <2>4. /\ conn' \in [Client -> {"closed", "connecting", "open"}]
        /\ view' \in [Client -> View]
    BY <1>9, CloseType DEF LeaveLobby
  <2> QED
    BY <1>9, <2>1, <2>2, <2>3, <2>4 DEF LeaveLobby, EventDone, signals, TypeOK,
       Phases
<1>10. CASE SendClient
  <2>1. \A v \in View : RemoveJacks(v, ToSet(disc)) \in View
    BY DEF RemoveJacks, View
  <2>2. client[cur] \in Client
    BY <1>10, LenProperties, ElementOfSeq DEF SendClient, TypeOK
  <2>3. view' \in [Client -> View]
    BY <1>10, <2>1, <2>2 DEF SendClient, TypeOK
  <2> QED
    BY <1>10, <2>3 DEF SendClient, signals, TypeOK
<1>11. CASE SendNothing \/ SendDone \/ ReceiveKeys \/ ReceiveDone
           \/ KeepConnected \/ EndFrame
  <2>1. /\ running' \in BOOLEAN /\ lost' \in BOOLEAN
        /\ quit' \in BOOLEAN /\ reset' \in BOOLEAN
    BY <1>11 DEF SendNothing, SendDone, ReceiveKeys, ReceiveDone,
       KeepConnected, EndFrame, signals, TypeOK
  <2>2. disc' \in Seq(Nat)
    BY <1>11, EmptySeq DEF SendNothing, SendDone, ReceiveKeys, ReceiveDone,
       KeepConnected, EndFrame, TypeOK
  <2> QED
    BY <1>11, <2>1, <2>2 DEF SendNothing, SendDone, ReceiveKeys, ReceiveDone,
       KeepConnected, EndFrame,
       signals, remote, TypeOK, Phases
<1>12. CASE ReceiveQuit
  <2>1. /\ conn' \in [Client -> {"closed", "connecting", "open"}]
        /\ view' \in [Client -> View]
    BY <1>12, CloseType DEF ReceiveQuit
  <2>2. state' \in [Client -> {"ALIVE", "DISCONNECT"}]
    BY <1>12 DEF ReceiveQuit, TypeOK
  <2> QED
    BY <1>12, <2>1, <2>2 DEF ReceiveQuit, signals, TypeOK
<1>13. CASE RemoveDisconnected
  <2>1. cur \in 1..Len(client) /\ client[cur] \in Client
    BY <1>13, LenProperties, ElementOfSeq DEF RemoveDisconnected, TypeOK
  <2>2. client' \in Seq(Client)
    BY <1>13, <2>1, RemoveAtElements DEF RemoveDisconnected, TypeOK
  <2>3. disc' \in Seq(Nat)
    <3>1. id[client[cur]] \in Nat /\ disc \in Seq(Nat)
      BY <2>1 DEF TypeOK
    <3>2. Append(disc, id[client[cur]]) \in Seq(Nat)
      BY <3>1, AppendProperties
    <3> QED
      BY <1>13, <3>2 DEF RemoveDisconnected
  <2>4. type' \in [Client -> Types]
    BY <1>13 DEF RemoveDisconnected, TypeOK, Types
  <2>5. told' \in [Client -> Types]
    BY <1>13, <2>4, TellTypesType DEF RemoveDisconnected
  <2>6. state' \in [Client -> {"ALIVE", "DISCONNECT"}] /\ id' \in [Client -> Nat]
    BY <1>13 DEF RemoveDisconnected, TypeOK
  <2> QED
    BY <1>13, <2>2, <2>3, <2>4, <2>5, <2>6 DEF RemoveDisconnected, signals,
       TypeOK
<1>14. CASE EndGame
  <2>1. type' \in [Client -> Types]
    BY <1>14 DEF EndGame, TypeOK, Types
  <2>2. told' \in [Client -> Types]
    BY <1>14, <2>1, TellTypesType DEF EndGame
  <2>3. disc' \in Seq(Nat)
    BY <1>14, EmptySeq DEF EndGame
  <2>4. /\ running' \in BOOLEAN /\ lost' \in BOOLEAN
        /\ quit' \in BOOLEAN /\ reset' \in BOOLEAN
    BY <1>14 DEF EndGame, signals, TypeOK
  <2> QED
    BY <1>14, <2>1, <2>2, <2>3, <2>4 DEF EndGame, signals, TypeOK, Phases
<1>15. CASE UNCHANGED vars
  BY <1>15 DEF vars, server, signals, remote, TypeOK
<1> QED
  BY <1>1, <1>2, <1>3, <1>4, <1>5, <1>6, <1>7, <1>8, <1>9, <1>10, <1>11,
     <1>12, <1>13, <1>14, <1>15, <1>16
  DEF Next, Server, LobbyEvent, Frame, Terminated

\* Type correctness: every variable always has its type.
THEOREM TypeCorrect == Spec => []TypeOK
  BY TypeInit, TypeStep, PTL DEF Spec
-----------------------------------------------------------------------------
(***************************************************************************)
(* The shape of the lists.  A client program is at most once on one of the *)
(* two lists, and its connection is open as long as it is there, unless it *)
(* was lost in this frame and is about to be removed.                      *)
(***************************************************************************)
Lists ==
  /\ Distinct(joined) /\ Distinct(client)
  /\ ToSet(joined) \cap ToSet(client) = {}

Connected ==
  /\ \A c \in ToSet(joined) : conn[c] = "open"
  /\ \A c \in ToSet(client) : state[c] = "ALIVE" => conn[c] = "open"
  /\ \A c \in Client :
       state[c] = "DISCONNECT" =>
         c \in ToSet(client) /\ lost /\ pc \in {"receive", "remove"}

Phase ==
  /\ pc \in {"send", "receive", "remove"} => running
  /\ pc \in {"frame", "verify", "select", "exit"} => (running <=> client # <<>>)
  /\ pc = "select" => ~running
  /\ (pc = "remove" /\ lost) =>
       \A i \in 1..Len(client) : i < cur => state[client[i]] = "ALIVE"

Structure == TypeOK /\ Lists /\ Connected /\ Phase

\* A list that was freed has no elements.
LEMMA EmptyList == ToSet(<<>>) = {} /\ Distinct(<<>>)
  BY DEF ToSet, Distinct

\* What the positions of the lists hold.
LEMMA MembersType ==
  ASSUME TypeOK
  PROVE  /\ ToSet(joined) \subseteq Client /\ ToSet(client) \subseteq Client
         /\ Len(joined) \in Nat /\ Len(client) \in Nat
         /\ \A i \in 1..Len(joined) : joined[i] \in ToSet(joined)
         /\ \A i \in 1..Len(client) : client[i] \in ToSet(client)
  BY LenProperties DEF TypeOK, ToSet

\* A client that is connecting, before the frame of a game, is on no list.
LEMMA ConnectingIsNew ==
  ASSUME Structure, Verifying, NEW c \in Client, conn[c] = "connecting"
  PROVE  c \notin ToSet(joined) /\ c \notin ToSet(client)
<1>1. state[c] = "ALIVE"
  BY DEF Structure, Connected, Verifying, TypeOK
<1> QED
  BY <1>1 DEF Structure, Connected

\* No step puts a client program on a list twice, or on both lists.
LEMMA ListsStep ==
  ASSUME Structure, [Next]_vars
  PROVE  Lists'
<1>1. CASE UNCHANGED <<joined, client>>
  BY <1>1 DEF Structure, Lists
<1>2. CASE joined' = <<>> /\ client' = <<>>
  BY <1>2, EmptyList DEF Lists
<1>3. ASSUME NEW c \in Client, AcceptClient(c)
      PROVE  Lists'
  BY <1>3, ConnectingIsNew, ConsMembers DEF Structure, Lists, TypeOK, AcceptClient
<1>4. ASSUME NEW c \in Client, StartGame(c)
      PROVE  Lists'
  BY <1>4, EmptyList DEF Structure, Lists, StartGame
<1>5. ASSUME NEW c \in Client, JoinClient(c)
      PROVE  Lists'
  <2>1. PICK p \in 1..Len(joined) : joined[p] = c /\ joined' = RemoveAt(joined, p)
    BY <1>5 DEF JoinClient
  <2>2. ToSet(joined') = ToSet(joined) \ {c} /\ Distinct(joined')
    BY <2>1, RemoveAtMembers DEF Structure, Lists, TypeOK
  <2>3. c \notin ToSet(client)
    BY <1>5 DEF JoinClient, Structure, Lists
  <2>4. ToSet(client') = ToSet(client) \cup {c} /\ Distinct(client')
    BY <1>5, <2>3, ConsMembers DEF JoinClient, Structure, Lists, TypeOK
  <2> QED
    BY <2>2, <2>4 DEF Structure, Lists
<1>6. ASSUME NEW c \in Client, LeaveLobby(c)
      PROVE  Lists'
  <2>1. PICK p \in 1..Len(joined) : joined[p] = c /\ joined' = RemoveAt(joined, p)
    BY <1>6 DEF LeaveLobby
  <2>2. ToSet(joined') = ToSet(joined) \ {c} /\ Distinct(joined')
    BY <2>1, RemoveAtMembers DEF Structure, Lists, TypeOK
  <2> QED
    BY <1>6, <2>2 DEF LeaveLobby, Structure, Lists
<1>7. CASE RemoveDisconnected
  <2>1. cur \in 1..Len(client)
    BY <1>7, MembersType DEF RemoveDisconnected, Structure, TypeOK
  <2>2. ToSet(client') = ToSet(client) \ {client[cur]} /\ Distinct(client')
    BY <1>7, <2>1, RemoveAtMembers DEF RemoveDisconnected, Structure, Lists, TypeOK
  <2> QED
    BY <1>7, <2>2 DEF RemoveDisconnected, Structure, Lists
<1> QED
  BY <1>1, <1>2, <1>3, <1>4, <1>5, <1>6, <1>7
  DEF Next, vars, server, Environment, Connect, Interrupt, ResetSignal, Server,
      BeginFrame, BeginFrameWithReset, ResetServer, Exit, Block, NothingHappened,
      IdleTimeout, LobbyEvent, RefuseClient, IgnoredMessage, Frame, SendClient,
      SendNothing, SendDone, ReceiveKeys, ReceiveQuit, ReceiveDone,
      KeepConnected, EndFrame, EndGame, Terminated

\* The connection of a client stays open while it is on a list; a player
\* that was lost is taken off the list before the frame ends.
LEMMA ConnectedStep ==
  ASSUME Structure, [Next]_vars
  PROVE  Connected'
<1>1. ASSUME NEW c \in Client, Connect(c)
      PROVE  Connected'
  BY <1>1 DEF Connect, server, Structure, Connected, TypeOK
<1>2. CASE Interrupt \/ ResetSignal
  BY <1>2 DEF Interrupt, ResetSignal, server, remote, Structure, Connected
<1>3. CASE BeginFrame \/ Block \/ NothingHappened \/ IdleTimeout
  BY <1>3 DEF BeginFrame, Block, NothingHappened, IdleTimeout, EventDone,
     remote, Structure, Connected
<1>4. CASE BeginFrameWithReset \/ Exit
  <2>1. ToSet(joined') = {} /\ ToSet(client') = {}
    BY <1>4, EmptyList DEF BeginFrameWithReset, Exit, ResetServer
  <2>2. \A c \in Client : state'[c] # "DISCONNECT"
    BY <1>4 DEF BeginFrameWithReset, Exit, ResetServer, Free, Structure,
       Connected, TypeOK
  <2> QED
    BY <2>1, <2>2 DEF Connected
<1>5. ASSUME NEW c \in Client, AcceptClient(c)
      PROVE  Connected'
  <2>1. ToSet(joined') = ToSet(joined) \cup {c}
    BY <1>5, ConsMembers DEF AcceptClient, Structure, TypeOK
  <2>2. UNCHANGED <<client, state>> /\ conn' = [conn EXCEPT ![c] = "open"]
    BY <1>5 DEF AcceptClient
  <2>3. \A d \in Client : state[d] # "DISCONNECT"
    BY <1>5 DEF AcceptClient, Verifying, Structure, Connected
  <2> QED
    BY <2>1, <2>2, <2>3, MembersType DEF Structure, Connected, TypeOK
<1>6. ASSUME NEW c \in Client, RefuseClient(c)
      PROVE  Connected'
  <2>1. c \notin ToSet(joined) /\ c \notin ToSet(client)
    BY <1>6, ConnectingIsNew DEF RefuseClient
  <2>2. \A d \in Client : state[d] # "DISCONNECT"
    BY <1>6 DEF RefuseClient, Verifying, Structure, Connected
  <2> QED
    BY <1>6, <2>1, <2>2, MembersType DEF RefuseClient, Structure, Connected, TypeOK
<1>7. ASSUME NEW c \in Client, IgnoredMessage(c)
      PROVE  Connected'
  BY <1>7 DEF IgnoredMessage, EventDone, Verifying, remote, Structure, Connected
<1>8. ASSUME NEW c \in Client, StartGame(c)
      PROVE  Connected'
  <2>1. \A d \in Client : state[d] # "DISCONNECT"
    BY <1>8 DEF StartGame, Verifying, Structure, Connected
  <2> QED
    BY <1>8, <2>1, EmptyList DEF StartGame, Structure, Connected
<1>9. ASSUME NEW c \in Client, JoinClient(c)
      PROVE  Connected'
  <2>1. \A d \in Client : state[d] # "DISCONNECT"
    BY <1>9 DEF JoinClient, Verifying, Structure, Connected
  <2>2. ToSet(joined') \subseteq ToSet(joined)
    BY <1>9, RemoveAtMembers DEF JoinClient, Structure, Lists, TypeOK
  <2>3. ToSet(client') = ToSet(client) \cup {c}
    BY <1>9, ConsMembers DEF JoinClient, Structure, TypeOK
  <2>4. conn[c] = "open" /\ UNCHANGED <<state, conn>>
    BY <1>9 DEF JoinClient, Structure, Connected
  <2> QED
    BY <2>1, <2>2, <2>3, <2>4 DEF Structure, Connected
<1>10. ASSUME NEW c \in Client, LeaveLobby(c)
       PROVE  Connected'
  <2>1. \A d \in Client : state[d] # "DISCONNECT"
    BY <1>10 DEF LeaveLobby, Verifying, Structure, Connected
  <2>2. ToSet(joined') = ToSet(joined) \ {c}
    BY <1>10, RemoveAtMembers DEF LeaveLobby, Structure, Lists, TypeOK
  <2>3. c \notin ToSet(client)
    BY <1>10 DEF LeaveLobby, Structure, Lists
  <2>4. \A d \in Client : d # c => conn'[d] = conn[d]
    BY <1>10 DEF LeaveLobby, Close
  <2> QED
    BY <1>10, <2>1, <2>2, <2>3, <2>4, MembersType
    DEF LeaveLobby, Structure, Connected
<1>11. CASE SendClient \/ SendNothing \/ SendDone
  BY <1>11 DEF SendClient, SendNothing, SendDone, remote, Structure, Connected
<1>12. CASE ReceiveKeys \/ ReceiveDone
  BY <1>12 DEF ReceiveKeys, ReceiveDone, remote, Structure, Connected
<1>13. CASE ReceiveQuit
  <2>1. client[cur] \in ToSet(client) /\ client[cur] \in Client
    BY <1>13, MembersType DEF ReceiveQuit, Structure, TypeOK
  <2>2. client[cur] \notin ToSet(joined)
    BY <2>1 DEF Structure, Lists
  <2>3. /\ \A d \in Client : d # client[cur] =>
             conn'[d] = conn[d] /\ state'[d] = state[d]
        /\ state'[client[cur]] = "DISCONNECT"
    BY <1>13, <2>1 DEF ReceiveQuit, Close, Structure, TypeOK
  <2>4. UNCHANGED <<pc, joined, client>> /\ pc = "receive" /\ lost'
    BY <1>13 DEF ReceiveQuit
  <2> QED
    BY <2>1, <2>2, <2>3, <2>4, MembersType DEF Structure, Connected
<1>14. CASE RemoveDisconnected
  <2>1. cur \in 1..Len(client) /\ client[cur] \in Client
    BY <1>14, MembersType DEF RemoveDisconnected, Structure, TypeOK
  <2>2. ToSet(client') = ToSet(client) \ {client[cur]}
    BY <1>14, <2>1, RemoveAtMembers DEF RemoveDisconnected, Structure, Lists, TypeOK
  <2>3. /\ \A d \in Client : d # client[cur] => state'[d] = state[d]
        /\ state'[client[cur]] = "ALIVE"
    BY <1>14, <2>1 DEF RemoveDisconnected, Structure, TypeOK
  <2>4. UNCHANGED <<pc, joined, lost, conn>>
    BY <1>14 DEF RemoveDisconnected
  <2> QED
    BY <2>2, <2>3, <2>4, MembersType DEF Structure, Connected
<1>15. CASE KeepConnected
  BY <1>15 DEF KeepConnected, remote, Structure, Connected
<1>16. CASE EndFrame \/ EndGame
  <2>1. \A d \in Client : state[d] # "DISCONNECT"
    <3> SUFFICES ASSUME NEW d \in Client, state[d] = "DISCONNECT"
                 PROVE  FALSE
      OBVIOUS
    <3>1. d \in ToSet(client) /\ lost
      BY DEF Structure, Connected
    <3>2. PICK i \in 1..Len(client) : client[i] = d
      BY <3>1, LenProperties DEF ToSet, Structure, TypeOK
    <3>3. pc = "remove" /\ cur > Len(client)
      BY <1>16, <3>1 DEF EndFrame, EndGame, RemoveDone
    <3>4. i < cur
      BY <3>3, MembersType DEF Structure, TypeOK
    <3> QED
      BY <3>1, <3>2, <3>3, <3>4 DEF Structure, Phase
  <2> QED
    BY <1>16, <2>1 DEF EndFrame, EndGame, remote, Structure, Connected
<1>17. CASE UNCHANGED vars
  BY <1>17 DEF vars, server, remote, Structure, Connected
<1> QED
  BY <1>1, <1>2, <1>3, <1>4, <1>5, <1>6, <1>7, <1>8, <1>9, <1>10, <1>11,
     <1>12, <1>13, <1>14, <1>15, <1>16, <1>17
  DEF Next, Environment, Server, LobbyEvent, Frame, Terminated

\* A frame is only run for a game, and a game that goes on has players.
LEMMA PhaseStep ==
  ASSUME Structure, [Next]_vars
  PROVE  Phase'
<1>1. CASE Environment
  BY <1>1 DEF Environment, Connect, Interrupt, ResetSignal, server, remote,
     Structure, Phase
<1>2. CASE BeginFrame \/ Block \/ NothingHappened \/ IdleTimeout
  BY <1>2 DEF BeginFrame, Block, NothingHappened, IdleTimeout, EventDone,
     Structure, Phase
<1>3. CASE BeginFrameWithReset \/ Exit
  BY <1>3 DEF BeginFrameWithReset, Exit, ResetServer, Structure, Phase
<1>4. ASSUME NEW c \in Client,
             AcceptClient(c) \/ RefuseClient(c) \/ IgnoredMessage(c) \/ LeaveLobby(c)
      PROVE  Phase'
  BY <1>4 DEF AcceptClient, RefuseClient, IgnoredMessage, LeaveLobby, EventDone,
     Verifying, Structure, Phase
<1>5. ASSUME NEW c \in Client, StartGame(c) \/ JoinClient(c)
      PROVE  Phase'
  BY <1>5 DEF StartGame, JoinClient, EventDone, Structure, Phase
<1>6. CASE SendClient \/ SendNothing \/ SendDone \/ ReceiveKeys \/ ReceiveQuit
  BY <1>6 DEF SendClient, SendNothing, SendDone, ReceiveKeys, ReceiveQuit,
     Structure, Phase
<1>7. CASE ReceiveDone
  <2>1. cur' = 1 /\ pc' = "remove" /\ running
    BY <1>7 DEF ReceiveDone, Structure, Phase
  <2>2. \A i \in 1..Len(client') : ~(i < cur')
    BY <2>1
  <2> QED
    BY <1>7, <2>1, <2>2 DEF ReceiveDone, Phase
<1>8. CASE RemoveDisconnected
  <2>1. cur \in 1..Len(client) /\ Len(client) \in Nat
    BY <1>8, MembersType DEF RemoveDisconnected, Structure, TypeOK
  <2>2. /\ Len(client') = Len(client) - 1
        /\ \A i \in 1..(Len(client) - 1) : i < cur => client'[i] = client[i]
    BY <1>8, <2>1, RemoveAtElements DEF RemoveDisconnected, Structure, TypeOK
  <2>3. \A d \in Client : state[d] = "ALIVE" => state'[d] = "ALIVE"
    BY <1>8 DEF RemoveDisconnected, Structure, TypeOK
  <2>4. \A i \in 1..Len(client) : client[i] \in Client
    BY MembersType DEF Structure
  <2>5. \A i \in 1..Len(client') : i < cur' => state'[client'[i]] = "ALIVE"
    BY <1>8, <2>1, <2>2, <2>3, <2>4 DEF RemoveDisconnected, Structure, Phase
  <2> QED
    BY <1>8, <2>5 DEF RemoveDisconnected, Structure, Phase
<1>9. CASE KeepConnected
  <2>1. \A i \in 1..Len(client) : state[client[i]] \in {"ALIVE", "DISCONNECT"}
    BY MembersType DEF Structure, TypeOK
  <2>2. \A i \in 1..Len(client) : i < cur' => i < cur \/ i = cur
    BY <1>9, MembersType DEF KeepConnected, Structure, TypeOK
  <2>3. \A i \in 1..Len(client) : i < cur' => state[client[i]] = "ALIVE"
    BY <1>9, <2>1, <2>2 DEF KeepConnected, Structure, Phase
  <2> QED
    BY <1>9, <2>3 DEF KeepConnected, remote, Structure, Phase
<1>10. CASE EndFrame \/ EndGame
  BY <1>10 DEF EndFrame, EndGame, RemoveDone, NobodyPlays, Structure, Phase
<1>11. CASE UNCHANGED vars
  BY <1>11 DEF vars, server, Structure, Phase
<1> QED
  BY <1>1, <1>2, <1>3, <1>4, <1>5, <1>6, <1>7, <1>8, <1>9, <1>10, <1>11
  DEF Next, Server, LobbyEvent, Frame, Terminated

\* The shape of the lists is an invariant (connect.c, server.c: every path
\* that puts a client on a list or takes it off one).
THEOREM StructureInvariant == Spec => []Structure
<1>1. Init => Structure
  <2> SUFFICES ASSUME Init
               PROVE  Structure
    OBVIOUS
  <2>1. TypeOK
    BY TypeInit
  <2>2. Lists
    BY EmptyList DEF Init, Lists
  <2>3. Connected
    BY EmptyList DEF Init, Connected
  <2>4. Phase
    BY DEF Init, Phase
  <2> QED
    BY <2>1, <2>2, <2>3, <2>4 DEF Structure
<1>2. Structure /\ [Next]_vars => Structure'
  <2> SUFFICES ASSUME Structure, [Next]_vars
               PROVE  Structure'
    OBVIOUS
  <2>1. TypeOK'
    BY TypeStep DEF Structure
  <2> QED
    BY <2>1, ListsStep, ConnectedStep, PhaseStep DEF Structure
<1> QED
  BY <1>1, <1>2, PTL DEF Spec

\* GameHasPlayers: between frames a game runs exactly while it has players
\* (connect.c:751 ends the game when the last one was removed).
THEOREM GameNeverEmpty == Spec => []GameHasPlayers
<1>1. Structure => GameHasPlayers
  BY DEF Structure, Phase, GameHasPlayers
<1> QED
  BY <1>1, StructureInvariant, PTL
-----------------------------------------------------------------------------
(***************************************************************************)
(* Jack ids.                                                               *)
(***************************************************************************)
\* JackIdsUnique over clients.
UniqueIds == \A c, d \in ToSet(client) : id[c] = id[d] => c = d

\* srv_find_free_id and the numbering of server_start_game give out ids
\* nobody has.
LEMMA UniqueIdsStep ==
  ASSUME Structure, UniqueIds, [Next]_vars
  PROVE  UniqueIds'
<1>1. CASE UNCHANGED <<client, id>>
  BY <1>1 DEF UniqueIds
<1>2. CASE client' = <<>>
  BY <1>2, EmptyList DEF UniqueIds
<1>3. ASSUME NEW c \in Client, StartGame(c)
      PROVE  UniqueIds'
  <2> DEFINE n == Len(joined)
             Id(d) == CHOOSE i \in 0..(n - 1) : joined[i + 1] = d
  <2>1. n \in Nat /\ DOMAIN joined = 1..n
    BY LenProperties DEF Structure, TypeOK
  <2>2. ASSUME NEW d \in ToSet(joined)
        PROVE  Id(d) \in 0..(n - 1) /\ joined[Id(d) + 1] = d
    <3>1. PICK k \in 1..n : joined[k] = d
      BY <2>1 DEF ToSet
    <3>2. k - 1 \in 0..(n - 1) /\ (k - 1) + 1 = k
      BY <2>1
    <3>3. \E i \in 0..(n - 1) : joined[i + 1] = d
      BY <3>1, <3>2
    <3> QED
      BY <3>3
  <2>3. client' = joined /\ \A d \in ToSet(joined) : id'[d] = Id(d)
    BY <1>3, MembersType DEF StartGame, Structure
  <2> HIDE DEF Id
  <2> QED
    BY <2>2, <2>3 DEF UniqueIds
<1>4. ASSUME NEW c \in Client, JoinClient(c)
      PROVE  UniqueIds'
  <2>1. c \notin ToSet(client)
    BY <1>4 DEF JoinClient, Structure, Lists
  <2>2. ToSet(client') = ToSet(client) \cup {c}
    BY <1>4, ConsMembers DEF JoinClient, Structure, TypeOK
  <2>3. PICK i : i \notin IdsOf(client) /\ id' = [id EXCEPT ![c] = i]
    BY <1>4 DEF JoinClient, FirstFreeId
  <2>4. id'[c] = i /\ \A d \in ToSet(client) : id'[d] = id[d] /\ id[d] # i
    BY <2>1, <2>3, MembersType DEF Structure, TypeOK, IdsOf
  <2> QED
    BY <2>2, <2>4 DEF UniqueIds
<1>5. CASE RemoveDisconnected
  <2>1. cur \in 1..Len(client) /\ client[cur] \in Client
    BY <1>5, MembersType DEF RemoveDisconnected, Structure, TypeOK
  <2>2. ToSet(client') = ToSet(client) \ {client[cur]}
    BY <1>5, <2>1, RemoveAtMembers DEF RemoveDisconnected, Structure, Lists, TypeOK
  <2>3. \A d \in ToSet(client') : id'[d] = id[d]
    BY <1>5, <2>2, MembersType DEF RemoveDisconnected, Structure, TypeOK
  <2> QED
    BY <2>2, <2>3 DEF UniqueIds
<1> QED
  BY <1>1, <1>2, <1>3, <1>4, <1>5
  DEF Next, vars, server, Environment, Connect, Interrupt, ResetSignal, Server,
      BeginFrame, BeginFrameWithReset, ResetServer, Exit, Block, NothingHappened,
      IdleTimeout, LobbyEvent, AcceptClient, LeaveLobby, RefuseClient,
      IgnoredMessage, Frame, SendClient, SendNothing, SendDone, ReceiveKeys,
      ReceiveQuit, ReceiveDone, KeepConnected, EndFrame, EndGame, Terminated

\* No two players ever have the same id.
LEMMA UniqueIdsInvariant == Spec => [](Structure /\ UniqueIds)
<1>1. Init => UniqueIds
  BY EmptyList DEF Init, UniqueIds
<1>2. Structure /\ UniqueIds /\ [Next]_vars => UniqueIds'
  BY UniqueIdsStep
<1> QED
  BY <1>1, <1>2, StructureInvariant, PTL DEF Spec

\* JackIdsUnique: the jacks of two players never have the same id, so the
\* state of a client's own jack is the last message of its frame only.
THEOREM UniqueJackIds == Spec => []JackIdsUnique
<1>1. Structure /\ UniqueIds => JackIdsUnique
  BY MembersType DEF Structure, Lists, Distinct, UniqueIds, JackIdsUnique
<1> QED
  BY <1>1, UniqueIdsInvariant, PTL
-----------------------------------------------------------------------------
(***************************************************************************)
(* The owner of the lobby, and what its clients know.                      *)
(***************************************************************************)
\* LobbyHasOneOwner over clients.
OneOwner ==
  IF running THEN \A c \in ToSet(joined) : type[c] = "JOINED"
  ELSE ToSet(joined) # {} =>
         \E o \in ToSet(joined) :
           \A c \in ToSet(joined) : type[c] = "OWNER" <=> c = o

\* Every step keeps exactly one owner in a lobby without a game, and none
\* in the lobby of a running game.
LEMMA OneOwnerStep ==
  ASSUME Structure, OneOwner, [Next]_vars
  PROVE  OneOwner'
<1>1. CASE UNCHANGED <<joined, type, running>>
  BY <1>1 DEF OneOwner
<1>2. CASE joined' = <<>>
  BY <1>2, EmptyList DEF OneOwner
<1>3. ASSUME NEW c \in Client, AcceptClient(c)
      PROVE  OneOwner'
  <2>1. ToSet(joined') = ToSet(joined) \cup {c}
    BY <1>3, ConsMembers DEF AcceptClient, Structure, TypeOK
  <2>2. c \notin ToSet(joined)
    BY <1>3, ConnectingIsNew DEF AcceptClient
  <2>3. /\ type'[c] = NewClientType
        /\ \A d \in ToSet(joined) : type'[d] = type[d]
        /\ UNCHANGED running
    BY <1>3, <2>2, MembersType DEF AcceptClient, Structure, TypeOK
  <2>4. CASE running
    BY <2>1, <2>3, <2>4 DEF OneOwner, NewClientType
  <2>5. CASE ~running /\ \E d \in ToSet(joined) : type[d] = "OWNER"
    <3>1. PICK o \in ToSet(joined) :
            \A d \in ToSet(joined) : type[d] = "OWNER" <=> d = o
      BY <2>5 DEF OneOwner
    <3>2. type'[c] = "NORMAL"
      BY <2>3, <2>5 DEF NewClientType
    <3> QED
      BY <2>1, <2>2, <2>3, <2>5, <3>1, <3>2 DEF OneOwner
  <2>6. CASE ~running /\ ~(\E d \in ToSet(joined) : type[d] = "OWNER")
    <3>1. ToSet(joined) = {}
      BY <2>6 DEF OneOwner
    <3>2. type'[c] = "OWNER"
      BY <2>3, <2>6 DEF NewClientType
    <3> QED
      BY <2>1, <2>3, <2>6, <3>1, <3>2 DEF OneOwner
  <2> QED
    BY <2>4, <2>5, <2>6
<1>4. ASSUME NEW c \in Client, JoinClient(c)
      PROVE  OneOwner'
  <2>1. ToSet(joined') \subseteq ToSet(joined)
    BY <1>4, RemoveAtMembers DEF JoinClient, Structure, Lists, TypeOK
  <2> QED
    BY <1>4, <2>1 DEF JoinClient, OneOwner
<1>5. ASSUME NEW c \in Client, LeaveLobby(c)
      PROVE  OneOwner'
  <2>1. PICK p \in 1..Len(joined) : joined[p] = c /\ joined' = RemoveAt(joined, p)
    BY <1>5 DEF LeaveLobby
  <2>2. ToSet(joined') = ToSet(joined) \ {c}
    BY <2>1, RemoveAtMembers DEF Structure, Lists, TypeOK
  <2>3. Len(joined') = Len(joined) - 1 /\ joined' \in Seq(Client)
    BY <2>1, RemoveAtElements DEF Structure, TypeOK
  <2>4. \A d \in ToSet(joined') :
          type'[d] = IF Elects(c) /\ d = joined'[1] THEN "OWNER" ELSE type[d]
    BY <1>5, <2>2, MembersType DEF LeaveLobby, Structure
  <2>5. UNCHANGED running /\ c \in ToSet(joined)
    BY <1>5 DEF LeaveLobby
  <2>6. CASE running
    BY <2>2, <2>4, <2>5, <2>6 DEF OneOwner, Elects
  <2>7. CASE Elects(c)
    <3>1. joined'[1] \in ToSet(joined')
      BY <2>3, <2>7, LenProperties, MembersType DEF Elects, ToSet, Structure
    <3>2. \A d \in ToSet(joined') : type[d] # "OWNER"
      BY <2>2, <2>5, <2>7 DEF Elects, OneOwner
    <3> QED
      BY <2>4, <2>5, <2>7, <3>1, <3>2 DEF Elects, OneOwner
  <2>8. CASE ~running /\ type[c] = "OWNER" /\ ~Elects(c)
    <3>1. joined' = <<>>
      BY <2>1, <2>3, <2>8, EmptySeq, MembersType DEF Elects, Structure
    <3> QED
      BY <3>1, EmptyList DEF OneOwner
  <2>9. CASE ~running /\ type[c] # "OWNER"
    <3>1. PICK o \in ToSet(joined) :
            \A d \in ToSet(joined) : type[d] = "OWNER" <=> d = o
      BY <2>5, <2>9 DEF OneOwner
    <3>2. o \in ToSet(joined')
      BY <2>2, <2>9, <3>1
    <3>3. \A d \in ToSet(joined') : type'[d] = type[d]
      BY <2>4, <2>9 DEF Elects
    <3> QED
      BY <2>2, <2>5, <2>9, <3>1, <3>2, <3>3 DEF OneOwner
  <2> QED
    BY <2>6, <2>7, <2>8, <2>9
<1>6. CASE RemoveDisconnected
  <2>1. client[cur] \in ToSet(client)
    BY <1>6, MembersType DEF RemoveDisconnected, Structure, TypeOK
  <2>2. client[cur] \notin ToSet(joined)
    BY <2>1 DEF Structure, Lists
  <2>3. \A d \in ToSet(joined) : type'[d] = type[d]
    BY <1>6, <2>2, MembersType DEF RemoveDisconnected, Structure, TypeOK
  <2> QED
    BY <1>6, <2>3 DEF RemoveDisconnected, OneOwner
<1>7. CASE EndGame
  <2>1. \A d \in ToSet(joined) :
          type'[d] = IF d = joined[1] THEN "OWNER" ELSE "NORMAL"
    BY <1>7, MembersType DEF EndGame, Structure
  <2>2. ToSet(joined) # {} => joined[1] \in ToSet(joined)
    BY LenProperties DEF ToSet, Structure, TypeOK
  <2>3. ToSet(joined) # {} =>
          \A d \in ToSet(joined) : type'[d] = "OWNER" <=> d = joined[1]
    BY <2>1
  <2> QED
    BY <1>7, <2>2, <2>3 DEF EndGame, OneOwner
<1> QED
  BY <1>1, <1>2, <1>3, <1>4, <1>5, <1>6, <1>7
  DEF Next, vars, server, Environment, Connect, Interrupt, ResetSignal, Server,
      BeginFrame, BeginFrameWithReset, ResetServer, Exit, Block, NothingHappened,
      IdleTimeout, LobbyEvent, RefuseClient, IgnoredMessage, StartGame, Frame,
      SendClient, SendNothing, SendDone, ReceiveKeys, ReceiveQuit, ReceiveDone,
      KeepConnected, EndFrame, Terminated

\* The same, from the initial state on.
LEMMA OneOwnerInvariant == Spec => [](Structure /\ OneOwner)
<1>1. Init => OneOwner
  BY EmptyList DEF Init, OneOwner
<1>2. Structure /\ OneOwner /\ [Next]_vars => OneOwner'
  BY OneOwnerStep
<1> QED
  BY <1>1, <1>2, StructureInvariant, PTL DEF Spec

\* LobbyHasOneOwner: whoever comes and leaves, a lobby without a game has
\* exactly one client that may start one (connect.c:687-702, server.c:174,
\* connect.c:612).
THEOREM OneOwnerOfTheLobby == Spec => []LobbyHasOneOwner
<1>1. Structure /\ OneOwner => LobbyHasOneOwner
  <2> SUFFICES ASSUME Structure, OneOwner
               PROVE  LobbyHasOneOwner
    OBVIOUS
  <2>1. CASE running
    BY <2>1, MembersType DEF Structure, OneOwner, LobbyHasOneOwner
  <2>2. CASE ~running /\ joined = <<>>
    BY <2>2 DEF LobbyHasOneOwner
  <2>3. CASE ~running /\ joined # <<>>
    <3>1. joined[1] \in ToSet(joined)
      BY <2>3, EmptySeq, MembersType DEF Structure, TypeOK
    <3>2. PICK o \in ToSet(joined) :
            \A c \in ToSet(joined) : type[c] = "OWNER" <=> c = o
      BY <2>3, <3>1 DEF OneOwner
    <3>3. PICK k \in 1..Len(joined) : joined[k] = o
      BY LenProperties DEF ToSet, Structure, TypeOK
    <3>4. \A i \in 1..Len(joined) : type[joined[i]] = "OWNER" <=> i = k
      BY <3>2, <3>3, MembersType DEF Structure, Lists, Distinct
    <3>5. {i \in 1..Len(joined) : type[joined[i]] = "OWNER"} = {k}
      BY <3>3, <3>4
    <3> QED
      BY <2>3, <3>5 DEF LobbyHasOneOwner
  <2> QED
    BY <2>1, <2>2, <2>3
<1> QED
  BY <1>1, OneOwnerInvariant, PTL

\* LobbyKnowsItsTypes over clients.
KnowTypes == \A c \in ToSet(joined) : told[c] = type[c]

\* Whoever changes the type of a client in the lobby also tells it.
LEMMA KnowTypesStep ==
  ASSUME Structure, KnowTypes, [Next]_vars
  PROVE  KnowTypes'
<1>1. CASE UNCHANGED <<joined, type, told>>
  BY <1>1 DEF KnowTypes
<1>2. CASE joined' = <<>>
  BY <1>2, EmptyList DEF KnowTypes
<1>3. ASSUME NEW c \in Client, AcceptClient(c)
      PROVE  KnowTypes'
  <2>1. ToSet(joined') = ToSet(joined) \cup {c}
    BY <1>3, ConsMembers DEF AcceptClient, Structure, TypeOK
  <2>2. /\ told'[c] = type'[c]
        /\ \A d \in ToSet(joined) \ {c} : told'[d] = told[d] /\ type'[d] = type[d]
    BY <1>3, MembersType DEF AcceptClient, TellTypes, Structure, TypeOK
  <2> QED
    BY <2>1, <2>2 DEF KnowTypes
<1>4. ASSUME NEW c \in Client, JoinClient(c)
      PROVE  KnowTypes'
  <2>1. ToSet(joined') \subseteq ToSet(joined)
    BY <1>4, RemoveAtMembers DEF JoinClient, Structure, Lists, TypeOK
  <2> QED
    BY <1>4, <2>1 DEF JoinClient, KnowTypes
<1>5. ASSUME NEW c \in Client, LeaveLobby(c)
      PROVE  KnowTypes'
  <2>1. ToSet(joined') = ToSet(joined) \ {c}
    BY <1>5, RemoveAtMembers DEF LeaveLobby, Structure, Lists, TypeOK
  <2>2. ASSUME NEW d \in ToSet(joined')
        PROVE  told'[d] = type'[d]
    <3>1. d \in Client /\ d # c /\ d \in ToSet(joined)
      BY <2>1, <2>2, MembersType DEF Structure
    <3>2. CASE Elects(c) /\ d = joined'[1]
      BY <1>5, <3>1, <3>2 DEF LeaveLobby, TellTypes
    <3>3. CASE Elects(c) /\ d # joined'[1]
      BY <1>5, <3>1, <3>3 DEF LeaveLobby, TellTypes, KnowTypes
    <3>4. CASE ~Elects(c)
      BY <1>5, <3>1, <3>4 DEF LeaveLobby, TellTypes, KnowTypes
    <3> QED
      BY <3>2, <3>3, <3>4
  <2> QED
    BY <2>2 DEF KnowTypes
<1>6. CASE RemoveDisconnected
  <2>1. client[cur] \in ToSet(client)
    BY <1>6, MembersType DEF RemoveDisconnected, Structure, TypeOK
  <2>2. client[cur] \notin ToSet(joined)
    BY <2>1 DEF Structure, Lists
  <2>3. \A d \in ToSet(joined) : type'[d] = type[d] /\ told'[d] = told[d]
    BY <1>6, <2>2, MembersType DEF RemoveDisconnected, TellTypes, Structure, TypeOK
  <2> QED
    BY <1>6, <2>3 DEF RemoveDisconnected, KnowTypes
<1>7. CASE EndGame
  BY <1>7, MembersType DEF EndGame, TellTypes, KnowTypes, Structure
<1> QED
  BY <1>1, <1>2, <1>3, <1>4, <1>5, <1>6, <1>7
  DEF Next, vars, server, remote, Environment, Connect, Interrupt, ResetSignal,
      Server, BeginFrame, BeginFrameWithReset, ResetServer, Exit, Block,
      NothingHappened, IdleTimeout, LobbyEvent, RefuseClient, IgnoredMessage,
      StartGame, Frame, SendClient, SendNothing, SendDone, ReceiveKeys,
      ReceiveQuit, ReceiveDone, KeepConnected, EndFrame, Terminated

\* LobbyKnowsItsTypes: what a client in the lobby was last told is the type
\* the server checks its messages against.
THEOREM TypesAreKnown == Spec => []LobbyKnowsItsTypes
<1>1. Init => KnowTypes
  BY EmptyList DEF Init, KnowTypes
<1>2. Structure /\ KnowTypes /\ [Next]_vars => KnowTypes'
  BY KnowTypesStep
<1>3. Structure /\ KnowTypes => LobbyKnowsItsTypes
  BY MembersType DEF Structure, KnowTypes, LobbyKnowsItsTypes
<1> QED
  BY <1>1, <1>2, <1>3, StructureInvariant, PTL DEF Spec
-----------------------------------------------------------------------------
(***************************************************************************)
(* What the players know of each other's jacks.                            *)
(***************************************************************************)
\* PlayersKnowAllJacks over clients.
AllJacksKnown ==
  \A c, d \in ToSet(client) :
    state[c] = "ALIVE" => id[d] < view[c].n /\ id[d] \notin view[c].unset

\* join_jack (game.c) makes the new jack known and forgets no other.
LEMMA JoinJackKnows ==
  ASSUME NEW v \in View, NEW i \in Nat
  PROVE  /\ i < JoinJack(v, i).n /\ i \notin JoinJack(v, i).unset
         /\ \A k \in Nat : (k < v.n /\ k \notin v.unset) =>
              k < JoinJack(v, i).n /\ k \notin JoinJack(v, i).unset
<1>1. /\ JoinJack(v, i).n = IF i >= v.n THEN i + 1 ELSE v.n
      /\ JoinJack(v, i).unset = (v.unset \cup v.n..(i - 1)) \ {i}
  BY DEF JoinJack
<1>2. v.n \in Nat
  BY DEF View
<1>3. i < JoinJack(v, i).n /\ i \notin JoinJack(v, i).unset
  BY <1>1, <1>2
<1>4. ASSUME NEW k \in Nat, k < v.n, k \notin v.unset
      PROVE  k < JoinJack(v, i).n /\ k \notin JoinJack(v, i).unset
  <2>1. k < JoinJack(v, i).n
    BY <1>1, <1>2, <1>4
  <2>2. k \notin v.n..(i - 1)
    BY <1>2, <1>4
  <2> QED
    BY <1>1, <1>4, <2>1, <2>2
<1> QED
  BY <1>3, <1>4

\* NJACKS, SETJACKNPC and NPCCREATE keep every player's array large enough
\* and loaded for all players of the game.
LEMMA AllJacksKnownStep ==
  ASSUME Structure, AllJacksKnown, [Next]_vars
  PROVE  AllJacksKnown'
<1>1. CASE UNCHANGED <<client, state, id, view>>
  BY <1>1 DEF AllJacksKnown
<1>2. CASE client' = <<>>
  BY <1>2, EmptyList DEF AllJacksKnown
<1>3. ASSUME NEW c \in Client, AcceptClient(c) \/ LeaveLobby(c)
      PROVE  AllJacksKnown'
  <2>1. \A d \in ToSet(client) : view'[d] = view[d]
    <3>1. CASE AcceptClient(c)
      BY <3>1 DEF AcceptClient
    <3>2. CASE LeaveLobby(c)
      <4>1. c \notin ToSet(client)
        BY <3>2 DEF LeaveLobby, Structure, Lists
      <4> QED
        BY <3>2, <4>1, MembersType DEF LeaveLobby, Close, Structure
    <3> QED
      BY <1>3, <3>1, <3>2
  <2>2. UNCHANGED <<client, state, id>>
    BY <1>3 DEF AcceptClient, LeaveLobby
  <2> QED
    BY <2>1, <2>2 DEF AllJacksKnown
<1>4. ASSUME NEW c \in Client, StartGame(c)
      PROVE  AllJacksKnown'
  <2> DEFINE n == Len(joined)
  <2>1. n \in Nat /\ DOMAIN joined = 1..n
    BY LenProperties DEF Structure, TypeOK
  <2>2. \A d \in ToSet(joined) :
          view'[d] = StartupView(n, 0..(n - 1))
    BY <1>4, MembersType DEF StartGame, Structure
  <2>3. ASSUME NEW d \in ToSet(joined)
        PROVE  id'[d] \in 0..(n - 1)
    <3>1. PICK k \in 1..n : joined[k] = d
      BY <2>1 DEF ToSet
    <3>2. k - 1 \in 0..(n - 1) /\ (k - 1) + 1 = k
      BY <2>1
    <3>3. \E i \in 0..(n - 1) : joined[i + 1] = d
      BY <3>1, <3>2
    <3>4. id'[d] = CHOOSE i \in 0..(n - 1) : joined[i + 1] = d
      BY <1>4, MembersType DEF StartGame, Structure
    <3> QED
      BY <3>3, <3>4
  <2>4. client' = joined
    BY <1>4 DEF StartGame
  <2> QED
    BY <2>1, <2>2, <2>3, <2>4 DEF AllJacksKnown, StartupView
<1>5. ASSUME NEW c \in Client, JoinClient(c)
      PROVE  AllJacksKnown'
  <2>1. ToSet(client') = ToSet(client) \cup {c}
    BY <1>5, ConsMembers DEF JoinClient, Structure, TypeOK
  <2>2. c \notin ToSet(client)
    BY <1>5 DEF JoinClient, Structure, Lists
  <2>3. PICK i \in 0..Len(client) :
          /\ id' = [id EXCEPT ![c] = i]
          /\ \E n \in {j + 1 : j \in IdsOf(client) \cup {i}} :
               /\ IsJackCount(n, i)
               /\ view' = [d \in Client |->
                    IF d = c THEN StartupView(n, IdsOf(client) \cup {i})
                    ELSE IF d \in ToSet(client) THEN JoinJack(view[d], i)
                    ELSE view[d]]
    BY <1>5 DEF JoinClient
  <2>4. PICK n : /\ IsJackCount(n, i)
                 /\ view' = [d \in Client |->
                      IF d = c THEN StartupView(n, IdsOf(client) \cup {i})
                      ELSE IF d \in ToSet(client) THEN JoinJack(view[d], i)
                      ELSE view[d]]
    BY <2>3
  <2>5. i \in Nat /\ IdsOf(client) \subseteq Nat
    BY MembersType, IdsOfType DEF Structure
  <2>6. /\ id'[c] = i
        /\ \A d \in ToSet(client) : id'[d] = id[d] /\ id[d] \in IdsOf(client)
    BY <2>2, <2>3, MembersType DEF Structure, TypeOK, IdsOf
  <2>7. /\ view'[c] = StartupView(n, IdsOf(client) \cup {i})
        /\ \A d \in ToSet(client) : view'[d] = JoinJack(view[d], i)
    BY <2>2, <2>4, MembersType DEF Structure
  <2>8. \A k \in IdsOf(client) \cup {i} :
          k < view'[c].n /\ k \notin view'[c].unset
    BY <2>4, <2>7 DEF IsJackCount, StartupView
  <2>9. ASSUME NEW d \in ToSet(client), state[d] = "ALIVE",
               NEW k \in IdsOf(client) \cup {i}
        PROVE  k < view'[d].n /\ k \notin view'[d].unset
    <3>1. view[d] \in View
      BY MembersType DEF Structure, TypeOK
    <3>2. CASE k = i
      BY <2>5, <2>7, <3>1, <3>2, JoinJackKnows
    <3>3. CASE k \in IdsOf(client)
      <4>1. k \in Nat /\ k < view[d].n /\ k \notin view[d].unset
        BY <2>5, <2>9, <3>3 DEF AllJacksKnown, IdsOf
      <4> QED
        BY <2>5, <2>7, <3>1, <4>1, JoinJackKnows
    <3> QED
      BY <3>2, <3>3
  <2>10. UNCHANGED state
    BY <1>5 DEF JoinClient
  <2> QED
    BY <2>1, <2>6, <2>8, <2>9, <2>10 DEF AllJacksKnown
<1>6. CASE SendClient
  <2>1. client[cur] \in ToSet(client) /\ client[cur] \in Client
    BY <1>6, MembersType DEF SendClient, Structure, TypeOK
  <2>2. \A d \in ToSet(client) :
          view'[d].n = view[d].n /\ view'[d].unset = view[d].unset
    BY <1>6, <2>1, MembersType DEF SendClient, RemoveJacks, Structure, TypeOK, View
  <2> QED
    BY <1>6, <2>2 DEF SendClient, AllJacksKnown
<1>7. CASE ReceiveQuit
  <2>1. client[cur] \in ToSet(client) /\ client[cur] \in Client
    BY <1>7, MembersType DEF ReceiveQuit, Structure, TypeOK
  <2>2. /\ state'[client[cur]] # "ALIVE"
        /\ \A d \in ToSet(client) : d # client[cur] =>
             state'[d] = state[d] /\ view'[d] = view[d]
    BY <1>7, <2>1, MembersType DEF ReceiveQuit, Close, Structure, TypeOK
  <2> QED
    BY <1>7, <2>2 DEF ReceiveQuit, AllJacksKnown
<1>8. CASE RemoveDisconnected
  <2>1. cur \in 1..Len(client) /\ client[cur] \in Client
    BY <1>8, MembersType DEF RemoveDisconnected, Structure, TypeOK
  <2>2. ToSet(client') = ToSet(client) \ {client[cur]}
    BY <1>8, <2>1, RemoveAtMembers DEF RemoveDisconnected, Structure, Lists, TypeOK
  <2>3. \A d \in ToSet(client') : id'[d] = id[d] /\ state'[d] = state[d]
    BY <1>8, <2>2, MembersType DEF RemoveDisconnected, Structure, TypeOK
  <2> QED
    BY <1>8, <2>2, <2>3 DEF RemoveDisconnected, AllJacksKnown
<1> QED
  BY <1>1, <1>2, <1>3, <1>4, <1>5, <1>6, <1>7, <1>8
  DEF Next, vars, server, remote, Environment, Connect, Interrupt, ResetSignal,
      Server, BeginFrame, BeginFrameWithReset, ResetServer, Exit, Block,
      NothingHappened, IdleTimeout, LobbyEvent, RefuseClient, IgnoredMessage,
      Frame, SendNothing, SendDone, ReceiveKeys, ReceiveDone, KeepConnected,
      EndFrame, EndGame, Terminated

\* PlayersKnowAllJacks: no player is ever sent the state of a jack that its
\* array has no room for or whose bitmaps it has not loaded.
THEOREM JacksAreKnown == Spec => []PlayersKnowAllJacks
<1>1. Init => AllJacksKnown
  BY EmptyList DEF Init, AllJacksKnown
<1>2. Structure /\ AllJacksKnown /\ [Next]_vars => AllJacksKnown'
  BY AllJacksKnownStep
<1>3. Structure /\ AllJacksKnown => PlayersKnowAllJacks
  BY MembersType DEF Structure, AllJacksKnown, PlayersKnowAllJacks
<1> QED
  BY <1>1, <1>2, <1>3, StructureInvariant, PTL DEF Spec
-----------------------------------------------------------------------------
(***************************************************************************)
(* Jacks of players that left.                                             *)
(***************************************************************************)
\* The removals that the player at position i has not been sent yet.
Pending(i) == IF pc = "send" /\ i < cur THEN {} ELSE ToSet(disc)

ShownInArray == \A c \in Client : \A k \in view[c].on : k < view[c].n

ShownOrPending ==
  /\ pc = "receive" => disc = <<>>
  /\ (~quit /\ ~reset) =>
       \A i \in 1..Len(client) :
         view[client[i]].on \subseteq IdsOf(client) \cup Pending(i)

Shown == ShownInArray /\ ShownOrPending

\* A jack that is shown is an entry of the array.
LEMMA ShownInArrayStep ==
  ASSUME Structure, ShownInArray, [Next]_vars
  PROVE  ShownInArray'
<1>1. CASE UNCHANGED view
  BY <1>1 DEF ShownInArray
<1>2. ASSUME NEW S, Close(S)
      PROVE  ShownInArray'
  BY <1>2 DEF ShownInArray, Close, NoJacks
<1>3. ASSUME NEW c \in Client, StartGame(c)
      PROVE  ShownInArray'
  <2>1. Len(joined) \in Nat
    BY MembersType DEF Structure
  <2>2. \A k \in StartupView(Len(joined), 0..(Len(joined) - 1)).on :
          k < StartupView(Len(joined), 0..(Len(joined) - 1)).n
    BY <2>1 DEF StartupView
  <2> QED
    BY <1>3, <2>2 DEF StartGame, ShownInArray
<1>4. ASSUME NEW c \in Client, JoinClient(c)
      PROVE  ShownInArray'
  <2>1. PICK i \in 0..Len(client) :
          \E n \in {j + 1 : j \in IdsOf(client) \cup {i}} :
             /\ IsJackCount(n, i)
             /\ view' = [d \in Client |->
                  IF d = c THEN StartupView(n, IdsOf(client) \cup {i})
                  ELSE IF d \in ToSet(client) THEN JoinJack(view[d], i)
                  ELSE view[d]]
    BY <1>4 DEF JoinClient
  <2>2. PICK n : /\ IsJackCount(n, i)
                 /\ view' = [d \in Client |->
                      IF d = c THEN StartupView(n, IdsOf(client) \cup {i})
                      ELSE IF d \in ToSet(client) THEN JoinJack(view[d], i)
                      ELSE view[d]]
    BY <2>1
  <2>3. i \in Nat
    BY MembersType DEF Structure
  <2>4. \A k \in StartupView(n, IdsOf(client) \cup {i}).on :
          k < StartupView(n, IdsOf(client) \cup {i}).n
    BY <2>2 DEF IsJackCount, StartupView
  <2>5. ASSUME NEW v \in View, \A k \in v.on : k < v.n
        PROVE  \A k \in JoinJack(v, i).on : k < JoinJack(v, i).n
    <3>1. v.n \in Nat /\ v.on \subseteq Nat
      BY DEF View
    <3>2. /\ JoinJack(v, i).on = v.on \cup {i}
          /\ JoinJack(v, i).n = IF i >= v.n THEN i + 1 ELSE v.n
      BY DEF JoinJack
    <3> QED
      BY <2>3, <2>5, <3>1, <3>2
  <2>6. ASSUME NEW d \in Client
        PROVE  \A k \in view'[d].on : k < view'[d].n
    <3>1. CASE d = c
      BY <2>2, <2>4, <3>1
    <3>2. CASE d # c /\ d \in ToSet(client)
      BY <2>2, <2>5, <3>2 DEF ShownInArray, Structure, TypeOK
    <3>3. CASE d # c /\ d \notin ToSet(client)
      BY <2>2, <3>3 DEF ShownInArray
    <3> QED
      BY <3>1, <3>2, <3>3
  <2> QED
    BY <2>6 DEF ShownInArray
<1>5. CASE SendClient
  BY <1>5 DEF SendClient, RemoveJacks, ShownInArray, Structure, TypeOK, View
<1> QED
  BY <1>1, <1>2, <1>3, <1>4, <1>5
  DEF Next, vars, remote, Environment, Connect, Interrupt, ResetSignal, Server,
      BeginFrame, BeginFrameWithReset, ResetServer, Exit, Block,
      NothingHappened, IdleTimeout, LobbyEvent, AcceptClient, RefuseClient,
      IgnoredMessage, LeaveLobby, Frame, SendNothing, SendDone, ReceiveKeys,
      ReceiveQuit, ReceiveDone, RemoveDisconnected, KeepConnected, EndFrame,
      EndGame, Terminated

\* A jack that a player shows belongs to a player of the game, or its
\* removal is going to be sent to that player in the next frame.
LEMMA ShownOrPendingStep ==
  ASSUME Structure, Shown, [Next]_vars
  PROVE  ShownOrPending'
<1> USE DEF Shown
<1>1. CASE (\E c \in Client : Connect(c)) \/ UNCHANGED vars
  BY <1>1 DEF Connect, vars, server, signals, remote, ShownOrPending, Pending, IdsOf
<1>2. CASE Interrupt \/ ResetSignal
  BY <1>2 DEF Interrupt, ResetSignal, server, ShownOrPending
<1>3. CASE BeginFrame \/ Block \/ NothingHappened \/ IdleTimeout
  BY <1>3, MembersType DEF BeginFrame, Block, NothingHappened, IdleTimeout,
     EventDone, signals, remote, Structure, ShownOrPending, Pending, IdsOf
<1>4. CASE BeginFrameWithReset \/ Exit
  <2>1. client' = <<>> /\ pc' # "receive"
    BY <1>4 DEF BeginFrameWithReset, Exit, ResetServer
  <2>2. 1..Len(client') = {}
    BY <2>1
  <2> QED
    BY <2>1, <2>2 DEF ShownOrPending
<1>5. ASSUME NEW c \in Client,
             AcceptClient(c) \/ RefuseClient(c) \/ IgnoredMessage(c) \/ LeaveLobby(c)
      PROVE  ShownOrPending'
  <2>1. UNCHANGED <<client, id, disc, quit, reset>> /\ pc' # "receive"
    BY <1>5 DEF AcceptClient, RefuseClient, IgnoredMessage, LeaveLobby,
       EventDone, signals
  <2>2. cur' = 1 /\ pc # "send"
    BY <1>5 DEF AcceptClient, RefuseClient, IgnoredMessage, LeaveLobby,
       EventDone, Verifying
  <2>3. \A d \in ToSet(client) : view'[d] = view[d]
    <3>1. CASE UNCHANGED view
      BY <3>1
    <3>2. CASE LeaveLobby(c)
      BY <3>2, MembersType DEF LeaveLobby, Close, Structure, Lists
    <3> QED
      BY <1>5, <3>1, <3>2 DEF AcceptClient, RefuseClient, IgnoredMessage, remote
  <2>4. IdsOf(client)' = IdsOf(client) /\ \A i \in 1..Len(client) : Pending(i)' = Pending(i)
    BY <2>1, <2>2 DEF IdsOf, Pending
  <2> QED
    BY <2>1, <2>3, <2>4, MembersType DEF Structure, ShownOrPending
<1>6. ASSUME NEW c \in Client, StartGame(c)
      PROVE  ShownOrPending'
  <2> DEFINE n == Len(joined)
  <2>1. n \in Nat /\ DOMAIN joined = 1..n
    BY LenProperties DEF Structure, TypeOK
  <2>2. ASSUME NEW k \in 0..(n - 1)
        PROVE  k \in IdsOf(client)'
    <3> DEFINE d == joined[k + 1]
    <3>1. k + 1 \in 1..n /\ d \in ToSet(joined)
      BY <2>1 DEF ToSet
    <3>2. id'[d] = CHOOSE i \in 0..(n - 1) : joined[i + 1] = d
      BY <1>6, <3>1, MembersType DEF StartGame, Structure
    <3>3. id'[d] \in 0..(n - 1) /\ joined[id'[d] + 1] = d
      <4>1. \E i \in 0..(n - 1) : joined[i + 1] = d
        OBVIOUS
      <4> HIDE DEF d
      <4> QED
        BY <3>2, <4>1
    <3>4. id'[d] + 1 = k + 1
      BY <2>1, <3>1, <3>3 DEF Structure, Lists, Distinct
    <3>5. id'[d] = k
      BY <2>1, <3>3, <3>4
    <3> QED
      BY <1>6, <3>1, <3>5 DEF StartGame, IdsOf
  <2>3. \A d \in ToSet(joined) : view'[d].on = 0..(n - 1)
    BY <1>6, MembersType DEF StartGame, StartupView, Structure
  <2>4. client' = joined /\ pc' = "send"
    BY <1>6 DEF StartGame, EventDone
  <2> QED
    BY <2>2, <2>3, <2>4, MembersType DEF Structure, ShownOrPending
<1>7. ASSUME NEW c \in Client, JoinClient(c)
      PROVE  ShownOrPending'
  <2>1. ToSet(client') = ToSet(client) \cup {c} /\ client' \in Seq(Client)
    <3>1. client \in Seq(Client) /\ client' = Cons(c, client)
      BY <1>7 DEF JoinClient, Structure, TypeOK
    <3>2. Cons(c, client) \in Seq(Client)
      BY <3>1, ConsElements
    <3>3. ToSet(Cons(c, client)) = ToSet(client) \cup {c}
      BY <3>1, ConsMembers
    <3> QED
      BY <3>1, <3>2, <3>3
  <2>2. c \notin ToSet(client) /\ c \in ToSet(joined)
    BY <1>7 DEF JoinClient, Structure, Lists
  <2>3. PICK i \in 0..Len(client) :
          /\ id' = [id EXCEPT ![c] = i]
          /\ \E n \in {j + 1 : j \in IdsOf(client) \cup {i}} :
               view' = [d \in Client |->
                 IF d = c THEN StartupView(n, IdsOf(client) \cup {i})
                 ELSE IF d \in ToSet(client) THEN JoinJack(view[d], i)
                 ELSE view[d]]
    BY <1>7 DEF JoinClient
  <2>4. id'[c] = i /\ \A d \in ToSet(client) : id'[d] = id[d]
    BY <2>2, <2>3, MembersType DEF Structure, TypeOK
  <2>5. IdsOf(client)' = IdsOf(client) \cup {i}
    BY <2>1, <2>4 DEF IdsOf
  <2>6. /\ view'[c].on = IdsOf(client) \cup {i}
        /\ \A d \in ToSet(client) : view'[d].on = view[d].on \cup {i}
    BY <2>2, <2>3, MembersType DEF StartupView, JoinJack, Structure
  <2>7. /\ pc' = "send" /\ cur' = 1 /\ UNCHANGED <<disc, quit, reset>>
        /\ pc # "send" 
    BY <1>7 DEF JoinClient, EventDone, Verifying, signals
  <2>8. ASSUME ~quit, ~reset, NEW d \in ToSet(client)
        PROVE  view[d].on \subseteq IdsOf(client) \cup ToSet(disc)
    <3>1. PICK j \in 1..Len(client) : client[j] = d
      BY <2>8, LenProperties DEF ToSet, Structure, TypeOK
    <3> QED
      BY <2>7, <2>8, <3>1 DEF ShownOrPending, Pending
  <2>9. ASSUME NEW j \in 1..Len(client')
        PROVE  client'[j] \in ToSet(client') /\ Pending(j)' = ToSet(disc)
    <3>1. j \in Nat /\ j >= 1 /\ client'[j] \in ToSet(client')
      BY <2>1, LenProperties DEF ToSet
    <3> QED
      BY <2>7, <3>1 DEF Pending
  <2> QED
    BY <2>1, <2>5, <2>6, <2>7, <2>8, <2>9 DEF ShownOrPending
<1>8. CASE SendClient
  <2>1. cur \in 1..Len(client) /\ client[cur] \in Client
    BY <1>8, MembersType DEF SendClient, Structure, TypeOK
  <2>2. /\ UNCHANGED <<pc, client, id, disc, quit, reset>> /\ pc = "send"
        /\ cur' = cur + 1 /\ ~quit /\ ~reset
    BY <1>8 DEF SendClient, signals
  <2>3. view[client[cur]].on \subseteq IdsOf(client) \cup ToSet(disc)
    BY <2>1, <2>2 DEF ShownOrPending, Pending
  <2>4. view'[client[cur]].on = view[client[cur]].on \ {k \in ToSet(disc) : k < view[client[cur]].n}
    BY <1>8, <2>1 DEF SendClient, RemoveJacks, Structure, TypeOK, View
  <2>5. view'[client[cur]].on \subseteq IdsOf(client)
    BY <2>1, <2>3, <2>4 DEF ShownInArray
  <2>6. \A j \in 1..Len(client) : j # cur => view'[client[j]] = view[client[j]]
    BY <1>8, <2>1, MembersType DEF SendClient, Structure, Lists, Distinct, TypeOK
  <2>7. ASSUME NEW j \in 1..Len(client)
        PROVE  view'[client[j]].on \subseteq IdsOf(client) \cup Pending(j)'
    <3>1. CASE j = cur
      BY <2>5, <3>1
    <3>2. CASE j # cur
      <4>1. j < cur' <=> j < cur
        BY <2>1, <2>2, <3>2, MembersType DEF Structure
      <4> QED
        BY <2>2, <2>6, <3>2, <4>1 DEF ShownOrPending, Pending
    <3> QED
      BY <3>1, <3>2
  <2>8. IdsOf(client)' = IdsOf(client)
    BY <2>2 DEF IdsOf
  <2> QED
    BY <2>2, <2>7, <2>8 DEF ShownOrPending
<1>9. CASE SendNothing
  BY <1>9 DEF SendNothing, signals, ShownOrPending
<1>10. CASE SendDone
  <2>1. \A i \in 1..Len(client) : i < cur
    BY <1>10, MembersType DEF SendDone, Structure, TypeOK
  <2>2. UNCHANGED <<client, id, view, quit, reset>> /\ disc' = <<>> /\ pc = "send"
    BY <1>10 DEF SendDone, signals, remote
  <2>3. IdsOf(client)' = IdsOf(client)
    BY <2>2 DEF IdsOf
  <2>4. \A i \in 1..Len(client) : Pending(i) = {}
    BY <2>1, <2>2 DEF Pending
  <2> QED
    BY <2>2, <2>3, <2>4 DEF ShownOrPending
<1>11. CASE ReceiveKeys \/ ReceiveDone \/ KeepConnected \/ EndFrame
  <2>1. /\ UNCHANGED <<client, id, disc, view, quit, reset>>
        /\ pc # "send" /\ pc' # "send" /\ (pc' = "receive" => pc = "receive")
    BY <1>11 DEF ReceiveKeys, ReceiveDone, KeepConnected, EndFrame, RemoveDone,
       signals, remote
  <2>2. IdsOf(client)' = IdsOf(client) /\ \A i \in 1..Len(client) : Pending(i)' = Pending(i)
    BY <2>1 DEF IdsOf, Pending
  <2> QED
    BY <2>1, <2>2 DEF ShownOrPending
<1>12. CASE ReceiveQuit
  <2>1. UNCHANGED <<pc, client, id, disc, quit, reset>> /\ pc = "receive"
    BY <1>12 DEF ReceiveQuit, signals
  <2>2. \A i \in 1..Len(client) : view'[client[i]].on \subseteq view[client[i]].on
    BY <1>12, MembersType DEF ReceiveQuit, Close, NoJacks, Structure
  <2>3. IdsOf(client)' = IdsOf(client) /\ \A i \in 1..Len(client) : Pending(i)' = Pending(i)
    BY <2>1 DEF IdsOf, Pending
  <2> QED
    BY <2>1, <2>2, <2>3 DEF ShownOrPending
<1>13. CASE RemoveDisconnected
  <2>1. cur \in 1..Len(client) /\ client[cur] \in Client /\ pc = "remove"
    BY <1>13, MembersType DEF RemoveDisconnected, Structure, TypeOK
  <2> DEFINE gone == client[cur]
  <2>2. ToSet(client') = ToSet(client) \ {gone} /\ client' \in Seq(Client)
    BY <1>13, <2>1, RemoveAtMembers, RemoveAtElements
    DEF RemoveDisconnected, Structure, Lists, TypeOK
  <2>3. ToSet(disc') = ToSet(disc) \cup {id[gone]}
    <3>1. id[gone] \in Nat /\ disc \in Seq(Nat)
      BY <2>1 DEF Structure, TypeOK
    <3>2. ToSet(Append(disc, id[gone])) = ToSet(disc) \cup {id[gone]}
      BY <3>1, AppendMembers
    <3> QED
      BY <1>13, <3>2 DEF RemoveDisconnected
  <2>4. UNCHANGED <<pc, view, quit, reset>>
    BY <1>13 DEF RemoveDisconnected, signals
  <2>5. \A d \in ToSet(client') : id'[d] = id[d]
    BY <1>13, <2>2, MembersType DEF RemoveDisconnected, Structure, TypeOK
  <2>6. IdsOf(client) \subseteq IdsOf(client)' \cup {id[gone]}
    BY <2>2, <2>5 DEF IdsOf
  <2>7. ASSUME ~quit, ~reset, NEW d \in ToSet(client)
        PROVE  view[d].on \subseteq IdsOf(client) \cup ToSet(disc)
    <3>1. PICK j \in 1..Len(client) : client[j] = d
      BY <2>7, LenProperties DEF ToSet, Structure, TypeOK
    <3> QED
      BY <2>1, <2>7, <3>1 DEF ShownOrPending, Pending
  <2>8. \A i \in 1..Len(client') : client'[i] \in ToSet(client)
    BY <2>2, LenProperties DEF ToSet
  <2>9. \A i : Pending(i)' = ToSet(disc')
    BY <2>1, <2>4 DEF Pending
  <2> QED
    BY <2>1, <2>3, <2>4, <2>6, <2>7, <2>8, <2>9 DEF ShownOrPending
<1>14. CASE EndGame
  <2>1. client' = <<>> /\ pc' # "receive"
    BY <1>14 DEF EndGame, NobodyPlays
  <2>2. 1..Len(client') = {}
    BY <2>1
  <2> QED
    BY <2>1, <2>2 DEF ShownOrPending
<1> QED
  BY <1>1, <1>2, <1>3, <1>4, <1>5, <1>6, <1>7, <1>8, <1>9, <1>10, <1>11,
     <1>12, <1>13, <1>14
  DEF Next, Environment, Server, LobbyEvent, Frame, Terminated

\* NoGhostJacks: after a frame was sent nobody shows the jack of a player
\* that left (send.c:33-39).
THEOREM NoJacksOfLostPlayers == Spec => []NoGhostJacks
<1>1. Init => Shown
  <2> SUFFICES ASSUME Init
               PROVE  Shown
    OBVIOUS
  <2>1. ShownInArray
    BY DEF Init, NoJacks, ShownInArray
  <2>2. 1..Len(client) = {} /\ pc # "receive"
    BY DEF Init
  <2> QED
    BY <2>1, <2>2 DEF Shown, ShownOrPending
<1>2. Structure /\ Shown /\ [Next]_vars => Shown'
  BY ShownInArrayStep, ShownOrPendingStep DEF Shown
<1>3. Structure /\ Shown => NoGhostJacks
  <2> SUFFICES ASSUME Structure, Shown, pc = "receive", ~quit, ~reset,
                      NEW i \in 1..Len(client)
               PROVE  view[client[i]].on \subseteq IdsOf(client)
    BY DEF NoGhostJacks
  <2>1. Pending(i) = {}
    BY EmptyList DEF Pending, Shown, ShownOrPending
  <2> QED
    BY <2>1 DEF Shown, ShownOrPending
<1> QED
  BY <1>1, <1>2, <1>3, StructureInvariant, PTL DEF Spec

-----------------------------------------------------------------------------
(***************************************************************************)
(* The lobby roster.  A step of either part is one with the bounds of both, *)
(* more clients and more kinds, and that is what the invariant is about.   *)
(* The argument needs ids that differ (RosterIds), which makes a name and a *)
(* kind that are sent with an id be those of one jack, and default names   *)
(* that differ; records of clients that are not there, which are blank, so *)
(* that whoever comes is in no team; and that teams and groups are the     *)
(* same for all clients, there or not.                                     *)
(***************************************************************************)
Most == INSTANCE Roster WITH
  joined <- waiting, client <- playing, Kind <- MoreKinds, MaxClients <- MoreClients

\* The list operators, which come with every instance.
LEMMA SameOps ==
  /\ \A s : Most!ToSet(s) = ToSet(s)
  /\ \A e, s : Most!Cons(e, s) = Cons(e, s)
  /\ \A s, i : Most!RemoveAt(s, i) = RemoveAt(s, i)
BY DEF Most!ToSet, ToSet, Most!Cons, Cons, Most!RemoveAt, RemoveAt

Text == Name \cup {NoName} \cup {Default[i] : i \in DOMAIN Default}
Jack == [id : Int, name : Text, team : Nat \cup {-1}, npc : MoreKinds]
JackInfo == [name : Text, team : Nat \cup {-1}, npc : MoreKinds \cup {-1}]

\* The inductive invariant.
RosterTypes ==
  /\ waiting \in Seq(Client) /\ playing \in Seq(Client)
  /\ jack \in [Client -> Jack]
  /\ known \in [Client -> [DOMAIN Default -> JackInfo]]
  /\ group \in [Client -> SUBSET Client]
\* A client is once on one of the lists.
RosterLists ==
  /\ Distinct(waiting) /\ Distinct(playing) /\ Most!Lobby \cap Most!Players = {}
  /\ Len(waiting) + Len(playing) <= MoreClients
RosterIds ==
  /\ \A p \in Most!Players : jack[p].id \in DOMAIN Default
  /\ \A p, q \in Most!Players : jack[p].id = jack[q].id => p = q
\* Who is not there has no name and no team.
Blank == \A c \in Client \ Most!All : jack[c].name = NoName /\ jack[c].team < 0
\* A group is a team, or a client alone.
SameTeam(c, d) == c = d \/ (jack[c].team = jack[d].team /\ jack[c].team >= 0)
Groups == \A c, d \in Client : d \in group[c] <=> SameTeam(c, d)

MostInv ==
  /\ RosterTypes /\ RosterLists /\ RosterIds /\ Blank /\ Groups
  /\ Most!PlayersKnowRoster /\ Most!ChosenNamesUnique

-----------------------------------------------------------------------------
\* The lists and their elements.
LEMMA Members ==
  ASSUME RosterTypes
  PROVE  /\ Most!Lobby \subseteq Client /\ Most!Players \subseteq Client /\ Most!All \subseteq Client
         /\ Len(waiting) \in Nat /\ Len(playing) \in Nat
         /\ DOMAIN waiting = 1..Len(waiting) /\ DOMAIN playing = 1..Len(playing)
         /\ \A i \in 1..Len(waiting) : waiting[i] \in Most!Lobby
         /\ \A i \in 1..Len(playing) : playing[i] \in Most!Players
<1>1. /\ Len(waiting) \in Nat /\ Len(playing) \in Nat
      /\ DOMAIN waiting = 1..Len(waiting) /\ DOMAIN playing = 1..Len(playing)
  BY DEF RosterTypes
<1>2. /\ \A i \in 1..Len(waiting) : waiting[i] \in Client
      /\ \A i \in 1..Len(playing) : playing[i] \in Client
  BY ElementOfSeq DEF RosterTypes
<1> QED
  BY <1>1, <1>2, SameOps DEF Most!Lobby, Most!Players, Most!All, ToSet

LEMMA NobodyListed == ToSet(<<>>) = {} /\ Distinct(<<>>) /\ Len(<<>>) = 0
  BY DEF ToSet, Distinct

LEMMA MostInvImplies == MostInv => Most!RosterAgrees
<1> SUFFICES ASSUME MostInv PROVE Most!TeamsAreWanted
  BY DEF MostInv, Most!RosterAgrees
<1>1. Most!All \subseteq Client
  BY Members DEF MostInv
<1> QED
  BY <1>1 DEF Most!TeamsAreWanted, MostInv, Groups, SameTeam

LEMMA MostInvInit == Most!RosterAssumption /\ Most!Init => MostInv
<1> SUFFICES ASSUME Most!RosterAssumption, Most!Init PROVE MostInv
  OBVIOUS
<1>1. Most!NewJack \in Jack /\ Most!Unknown \in JackInfo
  BY DEF Most!RosterAssumption, Most!NewJack, Most!Unknown, Jack, JackInfo, Text
<1>2. RosterTypes
  BY <1>1, EmptySeq DEF Most!Init, RosterTypes
<1>3. Most!Lobby = {} /\ Most!Players = {}
  BY NobodyListed, SameOps DEF Most!Init, Most!Lobby, Most!Players
<1>4. RosterLists
  BY <1>3, NobodyListed DEF Most!Init, RosterLists, Most!RosterAssumption
<1>5. \A c \in Client : jack[c].team = -1 /\ jack[c].name = NoName
  BY DEF Most!Init, Most!NewJack
<1>6. Blank /\ Groups
  BY <1>5 DEF Most!Init, Blank, Groups, SameTeam
<1> QED
  BY <1>2, <1>3, <1>4, <1>6 DEF MostInv, RosterIds, Most!PlayersKnowRoster, Most!ChosenNamesUnique, Most!All

-----------------------------------------------------------------------------
(***************************************************************************)
(* Requests from the lobby.                                                *)
(***************************************************************************)

\* While the lists stay, it is enough that players keep id, name and kind, that
\* a team of a player changes from none only, and that names stay unique.
LEMMA RequestKeeps ==
  ASSUME MostInv, UNCHANGED <<waiting, playing, known>>,
         jack' \in [Client -> Jack], group' \in [Client -> SUBSET Client],
         \A p \in Most!Players :
           /\ jack'[p].id = jack[p].id /\ jack'[p].name = jack[p].name
           /\ jack'[p].npc = jack[p].npc
           /\ jack'[p].team = jack[p].team \/ jack[p].team < 0,
         Blank', Groups', Most!ChosenNamesUnique'
  PROVE  MostInv'
<1>1. Most!Lobby' = Most!Lobby /\ Most!Players' = Most!Players /\ Most!All' = Most!All
  BY SameOps DEF Most!Lobby, Most!Players, Most!All
<1>2. RosterTypes' /\ RosterLists' /\ RosterIds'
  BY <1>1 DEF MostInv, RosterTypes, RosterLists, RosterIds
<1>3. Most!Players \subseteq Client
  BY Members DEF MostInv
<1>4. \A p \in Most!Players : jack[p].team \in Nat \cup {-1}
  BY <1>3 DEF MostInv, RosterTypes, Jack
<1>5. Most!PlayersKnowRoster'
  BY <1>1, <1>4 DEF MostInv, Most!PlayersKnowRoster
<1> QED
  BY <1>2, <1>5 DEF MostInv

LEMMA SetJackNpcKeeps ==
  ASSUME MostInv, NEW c \in Client, NEW k \in MoreKinds, Most!SetJackNpc(c, k)
  PROVE  MostInv'
<1>1. /\ jack' \in [Client -> Jack]
      /\ \A d \in Client : /\ jack'[d].id = jack[d].id /\ jack'[d].name = jack[d].name
                           /\ jack'[d].team = jack[d].team
                           /\ d # c => jack'[d] = jack[d]
  BY DEF Most!SetJackNpc, MostInv, RosterTypes, Jack
<1>2. c \notin Most!Players
  BY DEF Most!SetJackNpc, MostInv, RosterLists
<1>3. /\ Most!Lobby' = Most!Lobby /\ Most!Players' = Most!Players /\ Most!All' = Most!All
      /\ UNCHANGED <<waiting, playing, known, group>> /\ Most!All \subseteq Client /\ Most!Players \subseteq Client
  BY Members, SameOps DEF Most!SetJackNpc, Most!Lobby, Most!Players, Most!All, MostInv
<1>4. Blank' /\ Groups' /\ Most!ChosenNamesUnique'
  BY <1>1, <1>3 DEF MostInv, Blank, Groups, SameTeam, Most!ChosenNamesUnique
<1>5. \A p \in Most!Players : jack'[p] = jack[p]
  BY <1>1, <1>2, <1>3
<1> QED
  BY <1>1, <1>3, <1>4, <1>5, RequestKeeps DEF MostInv, RosterTypes

LEMMA JackNameKeeps ==
  ASSUME MostInv, NEW c \in Client, NEW n \in Name \cup {NoName}, Most!JackName(c, n)
  PROVE  MostInv'
<1>1. /\ jack' \in [Client -> Jack]
      /\ \A d \in Client : /\ jack'[d].id = jack[d].id /\ jack'[d].team = jack[d].team
                           /\ d # c => jack'[d] = jack[d]
      /\ jack'[c].name = n
  BY DEF Most!JackName, MostInv, RosterTypes, Jack, Text
<1>2. c \notin Most!Players
  BY DEF Most!JackName, MostInv, RosterLists
<1>3. /\ Most!Lobby' = Most!Lobby /\ Most!Players' = Most!Players /\ Most!All' = Most!All
      /\ UNCHANGED <<waiting, playing, known, group>> /\ Most!All \subseteq Client /\ Most!Players \subseteq Client
  BY Members, SameOps DEF Most!JackName, Most!Lobby, Most!Players, Most!All, MostInv
<1>4. Groups'
  BY <1>1, <1>3 DEF MostInv, Groups, SameTeam
<1>5. Blank'
  BY <1>1, <1>3 DEF Most!JackName, MostInv, Blank, Most!All
<1>6. \A d \in Most!All : d # c => jack'[d] = jack[d] /\ jack'[d].name # n
  BY <1>1, <1>3 DEF Most!JackName, Most!NameFree
<1>7. Most!ChosenNamesUnique'
  <2> SUFFICES ASSUME NEW d \in Most!All, NEW e \in Most!All, d # e,
                      jack'[d].name = jack'[e].name, jack'[d].name # NoName
               PROVE  \E x \in {d, e} \cap Most!Players : jack'[x].name = Default[jack'[x].id]
    BY <1>3 DEF Most!ChosenNamesUnique
  <2>1. d # c /\ e # c
    BY <1>1, <1>6
  <2> QED
    BY <2>1, <1>6 DEF MostInv, Most!ChosenNamesUnique
<1>8. \A p \in Most!Players : jack'[p] = jack[p]
  BY <1>1, <1>2, <1>3
<1> QED
  BY <1>1, <1>3, <1>4, <1>7, <1>8, <1>5, RequestKeeps DEF MostInv, RosterTypes

LEMMA TeamLeaveKeeps ==
  ASSUME MostInv, NEW c \in Client, Most!TeamLeave(c)
  PROVE  MostInv'
<1>1. /\ jack' \in [Client -> Jack]
      /\ \A d \in Client : /\ jack'[d].id = jack[d].id /\ jack'[d].name = jack[d].name
                           /\ d # c => jack'[d] = jack[d]
      /\ jack'[c].team = -1
  BY DEF Most!TeamLeave, MostInv, RosterTypes, Jack
<1>2. c \notin Most!Players
  BY DEF Most!TeamLeave, MostInv, RosterLists
<1>3. /\ Most!Lobby' = Most!Lobby /\ Most!Players' = Most!Players /\ Most!All' = Most!All
      /\ UNCHANGED <<waiting, playing, known>> /\ Most!All \subseteq Client /\ Most!Players \subseteq Client
  BY Members, SameOps DEF Most!TeamLeave, Most!Lobby, Most!Players, Most!All, MostInv
<1>4. group' \in [Client -> SUBSET Client]
  BY DEF Most!TeamLeave, MostInv, RosterTypes
<1>5. Groups'
  <2> SUFFICES ASSUME NEW d \in Client, NEW e \in Client
               PROVE  e \in group'[d] <=> SameTeam(d, e)'
    BY DEF Groups
  <2>1. group'[d] = IF d = c THEN {c} ELSE group[d] \ {c}
    BY DEF Most!TeamLeave
  <2>2. e \in group[d] <=> SameTeam(d, e)
    BY DEF MostInv, Groups
  <2>3. CASE d = c \/ e = c
    BY <1>1, <2>1, <2>3 DEF SameTeam
  <2>4. CASE d # c /\ e # c
    BY <1>1, <2>1, <2>2, <2>4 DEF SameTeam
  <2> QED
    BY <2>3, <2>4
<1>6. Blank'
  BY <1>1, <1>3 DEF MostInv, Blank
<1>7. Most!ChosenNamesUnique'
  BY <1>1, <1>3 DEF MostInv, Most!ChosenNamesUnique
<1>8. \A p \in Most!Players : jack'[p] = jack[p]
  BY <1>1, <1>2, <1>3
<1> QED
  BY <1>1, <1>3, <1>4, <1>5, <1>6, <1>7, <1>8, RequestKeeps

\* Whoever is found by a name is there.
LEMMA NamedIsThere ==
  ASSUME RosterTypes, NEW n, NEW d, Most!Named(n, d)
  PROVE  d \in Most!All
BY Members DEF Most!Named, Most!FirstNamed, Most!All

LEMMA TeamJoinKeeps ==
  ASSUME MostInv, NEW c \in Client, NEW n, Most!TeamJoin(c, n)
  PROVE  MostInv'
<1>1. PICK d \in Most!All, t \in 0..MoreClients :
        /\ IF jack[d].team < 0 THEN Most!IsFreeTeam(t) ELSE t = jack[d].team
        /\ jack' = [jack EXCEPT ![c].team = t, ![d].team = t]
        /\ group' = [x \in Client |-> IF x \in group[d] \cup {c} THEN group[d] \cup {c} ELSE group[x]]
  BY DEF Most!TeamJoin
<1>2. /\ c \in Most!Lobby /\ jack[c].team < 0 /\ UNCHANGED <<waiting, playing, known>>
      /\ Most!Lobby' = Most!Lobby /\ Most!Players' = Most!Players /\ Most!All' = Most!All
      /\ d \in Client /\ Most!All \subseteq Client /\ Most!Players \subseteq Client /\ Most!Lobby \subseteq Most!All
      /\ Most!Players \subseteq Most!All /\ c \notin Most!Players
  BY Members, SameOps DEF Most!TeamJoin, Most!Lobby, Most!Players, Most!All, MostInv, RosterLists
<1>3. t \in Nat /\ \A x \in Client : jack[x].team \in Nat \cup {-1}
  BY DEF MostInv, RosterTypes, Jack
<1>4. /\ jack' \in [Client -> Jack]
      /\ \A x \in Client : /\ jack'[x].id = jack[x].id /\ jack'[x].name = jack[x].name
                           /\ jack'[x].npc = jack[x].npc
                           /\ jack'[x].team = IF x \in {c, d} THEN t ELSE jack[x].team
  <2> DEFINE j1 == [jack EXCEPT ![c].team = t]
  <2>1. /\ j1 \in [Client -> Jack]
        /\ \A x \in Client : /\ j1[x].id = jack[x].id /\ j1[x].name = jack[x].name
                             /\ j1[x].npc = jack[x].npc
                             /\ j1[x].team = IF x = c THEN t ELSE jack[x].team
    BY <1>3 DEF MostInv, RosterTypes, Jack
  <2>2. jack' = [j1 EXCEPT ![d].team = t]
    BY <1>1
  <2> HIDE DEF j1
  <2> QED
    BY <2>1, <2>2, <1>2, <1>3 DEF Jack
<1>5. group' \in [Client -> SUBSET Client]
  BY <1>1, <1>2 DEF MostInv, RosterTypes
<1>6. ASSUME NEW x \in Client, x \notin {c, d}, jack[d].team < 0
      PROVE  jack[x].team # t
  <2>1. CASE x \in Most!All
    BY <1>1, <1>6, <2>1 DEF Most!IsFreeTeam
  <2>2. CASE x \notin Most!All
    BY <1>3, <2>2 DEF MostInv, Blank
  <2> QED
    BY <2>1, <2>2
<1>7. Groups'
  <2> SUFFICES ASSUME NEW x \in Client, NEW y \in Client
               PROVE  y \in group'[x] <=> SameTeam(x, y)'
    BY DEF Groups
  <2>1. group'[x] = IF x \in group[d] \cup {c} THEN group[d] \cup {c} ELSE group[x]
    BY <1>1
  <2>2. /\ x \in group[d] <=> SameTeam(d, x)
        /\ y \in group[d] <=> SameTeam(d, y)
        /\ y \in group[x] <=> SameTeam(x, y)
    BY <1>2 DEF MostInv, Groups
  <2>3. SameTeam(x, y)' <=> x = y \/ (jack'[x].team = jack'[y].team /\ jack'[x].team >= 0)
    BY DEF SameTeam
  <2>4. CASE jack[d].team < 0
    BY <2>1, <2>2, <2>3, <2>4, <1>2, <1>3, <1>4, <1>6 DEF SameTeam
  <2>5. CASE ~(jack[d].team < 0)
    BY <2>1, <2>2, <2>3, <2>5, <1>1, <1>2, <1>3, <1>4 DEF SameTeam
  <2> QED
    BY <2>4, <2>5
<1>8. Blank'
  BY <1>2, <1>4 DEF MostInv, Blank
<1>9. Most!ChosenNamesUnique'
  BY <1>2, <1>4 DEF MostInv, Most!ChosenNamesUnique
<1>10. \A p \in Most!Players : jack'[p].team = jack[p].team \/ jack[p].team < 0
  <2> SUFFICES ASSUME NEW p \in Most!Players PROVE jack'[p].team = jack[p].team \/ jack[p].team < 0
    OBVIOUS
  <2>1. CASE p = d
    BY <2>1, <1>1, <1>2, <1>3, <1>4
  <2>2. CASE p # d
    BY <2>2, <1>2, <1>4
  <2> QED
    BY <2>1, <2>2
<1> QED
  BY <1>2, <1>4, <1>5, <1>7, <1>8, <1>9, <1>10, RequestKeeps

-----------------------------------------------------------------------------
(***************************************************************************)
(* Clients that come and go.                                               *)
(***************************************************************************)
LEMMA AcceptKeeps ==
  ASSUME Most!RosterAssumption, MostInv, NEW c \in Client, Most!Accept(c)
  PROVE  MostInv'
<1>1. /\ c \notin Most!All /\ UNCHANGED <<playing, jack, known, group>> /\ Most!Players' = Most!Players
      /\ waiting \in Seq(Client) /\ Distinct(waiting) /\ waiting' = Cons(c, waiting)
  BY SameOps DEF Most!Accept, MostInv, RosterTypes, RosterLists, Most!Players
<1>2. waiting' \in Seq(Client) /\ Len(waiting') = Len(waiting) + 1
  BY <1>1, ConsElements
<1>3. Most!Lobby' = Most!Lobby \cup {c} /\ (c \notin Most!Lobby => Distinct(waiting'))
  BY <1>1, ConsMembers, SameOps DEF Most!Lobby
<1>4. Len(waiting) \in Nat /\ Len(playing) \in Nat /\ Most!All \subseteq Client
  BY Members DEF MostInv
<1>5. RosterTypes'
  BY <1>1, <1>2 DEF MostInv, RosterTypes
<1>6. RosterLists'
  <2>1. Len(waiting') + Len(playing') <= MoreClients
    <3>1. Len(waiting) + Len(playing) < MoreClients
      BY SameOps DEF Most!Accept
    <3>2. MoreClients \in Nat
      BY DEF Most!RosterAssumption
    <3> QED
      BY <3>1, <3>2, <1>1, <1>2, <1>4
  <2> QED
    BY <2>1, <1>1, <1>3 DEF MostInv, RosterLists, Most!All
<1>7. Most!All' = Most!All \cup {c}
  BY <1>1, <1>3 DEF Most!All
<1>8. RosterIds' /\ Most!PlayersKnowRoster' /\ Groups' /\ Blank'
  BY <1>1, <1>7 DEF MostInv, RosterIds, Most!PlayersKnowRoster, Groups, SameTeam, Blank
<1>9. Most!ChosenNamesUnique'
  <2>1. jack[c].name = NoName
    BY <1>1 DEF MostInv, Blank
  <2> QED
    BY <2>1, <1>1, <1>7 DEF MostInv, Most!ChosenNamesUnique
<1> QED
  BY <1>5, <1>6, <1>8, <1>9 DEF MostInv

\* Who goes is forgotten: record, name, team and what its program knows.
LEMMA RemovedKeeps ==
  ASSUME Most!RosterAssumption, MostInv, NEW gone \in SUBSET Client, Most!Removed(gone),
         waiting' \in Seq(Client), playing' \in Seq(Client), RosterLists',
         Most!Lobby' = Most!Lobby \ gone, Most!Players' = Most!Players \ gone
  PROVE  MostInv'
<1>1. Most!NewJack \in Jack /\ Most!Unknown \in JackInfo
  BY DEF Most!RosterAssumption, Most!NewJack, Most!Unknown, Jack, JackInfo, Text
<1>2. RosterTypes'
  BY <1>1 DEF Most!Removed, MostInv, RosterTypes
<1>3. /\ Most!All' = Most!All \ gone /\ Most!All \subseteq Client /\ Most!Players' \subseteq Most!All' /\ Most!Players' \subseteq Most!Players
      /\ \A c \in Most!All' : jack'[c] = jack[c] /\ known'[c] = known[c]
  BY Members DEF Most!Removed, Most!All, MostInv
<1>4. RosterIds' /\ Most!PlayersKnowRoster'
  BY <1>3 DEF MostInv, RosterIds, Most!PlayersKnowRoster
<1>5. Most!ChosenNamesUnique'
  <2> SUFFICES ASSUME NEW c \in Most!All', NEW d \in Most!All', c # d,
                      jack'[c].name = jack'[d].name, jack'[c].name # NoName
               PROVE  \E x \in {c, d} \cap Most!Players' : jack'[x].name = Default[jack'[x].id]
    BY DEF Most!ChosenNamesUnique
  <2>1. jack'[c] = jack[c] /\ jack'[d] = jack[d] /\ c \in Most!All /\ d \in Most!All
    BY <1>3
  <2>2. PICK x \in {c, d} \cap Most!Players : jack[x].name = Default[jack[x].id]
    BY <2>1 DEF MostInv, Most!ChosenNamesUnique
  <2>3. x \in Most!Players'
    BY <2>2, <1>3
  <2> QED
    BY <2>1, <2>2, <2>3
<1>6. \A c \in Client : jack'[c] = IF c \in gone THEN Most!NewJack ELSE jack[c]
  BY DEF Most!Removed
<1>7. Blank'
  BY <1>3, <1>6 DEF Most!NewJack, MostInv, Blank
<1>8. Groups'
  <2> SUFFICES ASSUME NEW c \in Client, NEW d \in Client
               PROVE  d \in group'[c] <=> SameTeam(c, d)'
    BY DEF Groups
  <2>1. group'[c] = IF c \in gone THEN {c} ELSE group[c] \ gone
    BY DEF Most!Removed
  <2>2. d \in group[c] <=> SameTeam(c, d)
    BY DEF MostInv, Groups
  <2>3. jack'[c].team = (IF c \in gone THEN -1 ELSE jack[c].team)
        /\ jack'[d].team = (IF d \in gone THEN -1 ELSE jack[d].team)
    BY <1>6 DEF Most!NewJack
  <2> QED
    BY <2>1, <2>2, <2>3 DEF SameTeam
<1> QED
  BY <1>2, <1>4, <1>5, <1>7, <1>8 DEF MostInv

\* Taking a client off a list.
LEMMA WithoutOne ==
  ASSUME NEW s \in Seq(Client), Distinct(s), NEW c, NEW t, Most!Without(s, c, t)
  PROVE  /\ t \in Seq(Client) /\ Distinct(t) /\ ToSet(t) = ToSet(s) \ {c}
         /\ c \in ToSet(s) /\ Len(t) = Len(s) - 1 /\ Len(s) \in Nat
<1>1. PICK i \in 1..Len(s) : s[i] = c /\ t = RemoveAt(s, i)
  BY SameOps DEF Most!Without
<1>2. t \in Seq(Client) /\ Len(t) = Len(s) - 1
  BY <1>1, RemoveAtElements
<1>3. Distinct(t) /\ ToSet(t) = ToSet(s) \ {c}
  BY <1>1, RemoveAtMembers
<1>4. c \in ToSet(s) /\ Len(s) \in Nat
  BY <1>1 DEF ToSet
<1> QED
  BY <1>2, <1>3, <1>4

LEMMA LeaveKeeps ==
  ASSUME Most!RosterAssumption, MostInv, NEW c \in Client, Most!LeaveLobby(c) \/ Most!LeaveGame(c)
  PROVE  MostInv'
<1>1. /\ waiting \in Seq(Client) /\ playing \in Seq(Client) /\ Distinct(waiting) /\ Distinct(playing)
      /\ Most!Lobby \cap Most!Players = {} /\ Len(waiting) + Len(playing) <= MoreClients
      /\ Len(waiting) \in Nat /\ Len(playing) \in Nat /\ MoreClients \in Nat
  BY Members DEF MostInv, RosterTypes, RosterLists, Most!RosterAssumption
<1>2. CASE Most!LeaveLobby(c)
  <2>1. Most!Without(waiting, c, waiting') /\ playing' = playing /\ Most!Removed({c})
    BY <1>2, SameOps DEF Most!LeaveLobby
  <2>2. /\ waiting' \in Seq(Client) /\ Distinct(waiting') /\ Most!Lobby' = Most!Lobby \ {c}
        /\ c \in Most!Lobby /\ Len(waiting') = Len(waiting) - 1
    BY <1>1, <2>1, WithoutOne, SameOps DEF Most!Lobby
  <2>3. Most!Players' = Most!Players \ {c}
    BY <1>1, <2>1, <2>2, SameOps DEF Most!Players
  <2>4. RosterLists'
    BY <1>1, <2>1, <2>2, <2>3 DEF RosterLists
  <2> QED
    BY <1>1, <2>1, <2>2, <2>3, <2>4, RemovedKeeps
<1>3. CASE Most!LeaveGame(c)
  <2>1. Most!Without(playing, c, playing') /\ waiting' = waiting /\ Most!Removed({c})
    BY <1>3, SameOps DEF Most!LeaveGame
  <2>2. /\ playing' \in Seq(Client) /\ Distinct(playing') /\ Most!Players' = Most!Players \ {c}
        /\ c \in Most!Players /\ Len(playing') = Len(playing) - 1
    BY <1>1, <2>1, WithoutOne, SameOps DEF Most!Players
  <2>3. Most!Lobby' = Most!Lobby \ {c}
    BY <1>1, <2>1, <2>2, SameOps DEF Most!Lobby
  <2>4. RosterLists'
    BY <1>1, <2>1, <2>2, <2>3 DEF RosterLists
  <2> QED
    BY <1>1, <2>1, <2>2, <2>3, <2>4, RemovedKeeps
<1> QED
  BY <1>2, <1>3

LEMMA ResetKeeps ==
  ASSUME Most!RosterAssumption, MostInv, Most!Reset
  PROVE  MostInv'
<1>1. waiting' = <<>> /\ playing' = <<>> /\ Most!Removed(Most!All) /\ Most!All \in SUBSET Client
  BY Members DEF Most!Reset, MostInv
<1>2. waiting' \in Seq(Client) /\ playing' \in Seq(Client)
  BY <1>1, EmptySeq
<1>3. Most!Lobby' = {} /\ Most!Players' = {}
  BY <1>1, NobodyListed, SameOps DEF Most!Lobby, Most!Players
<1>4. RosterLists'
  BY <1>1, <1>3, NobodyListed DEF RosterLists, Most!RosterAssumption
<1>5. Most!Lobby' = Most!Lobby \ Most!All /\ Most!Players' = Most!Players \ Most!All
  BY <1>3 DEF Most!All
<1> QED
  BY <1>1, <1>2, <1>4, <1>5, RemovedKeeps

-----------------------------------------------------------------------------
(***************************************************************************)
(* Games that start and are joined.                                        *)
(***************************************************************************)

\* A client that is given an id keeps its team and kind, and a name it has.
LEMMA GivenId ==
  ASSUME Most!RosterAssumption, NEW j \in Jack, NEW i \in DOMAIN Default
  PROVE  LET k == Most!Called([j EXCEPT !.id = i])
         IN /\ k \in Jack /\ k.id = i /\ k.team = j.team /\ k.npc = j.npc
            /\ k.name = IF j.name = NoName THEN Default[i] ELSE j.name
<1> DEFINE h == [j EXCEPT !.id = i]
           k == Most!Called(h)
<1>1. i \in Int /\ Default[i] \in Text
  BY DEF Most!RosterAssumption, Text
<1>2. h \in Jack /\ h.id = i /\ h.team = j.team /\ h.npc = j.npc /\ h.name = j.name
  BY <1>1 DEF Jack
<1>3. k = IF h.name = NoName THEN [h EXCEPT !.name = Default[h.id]] ELSE h
  BY DEF Most!Called
<1> HIDE DEF h, k
<1>4. ASSUME h.name = NoName
      PROVE  /\ k \in Jack /\ k.id = i /\ k.team = h.team /\ k.npc = h.npc
             /\ k.name = Default[i]
  <2>1. k = [h EXCEPT !.name = Default[i]]
    BY <1>2, <1>3, <1>4
  <2> QED
    BY <2>1, <1>1, <1>2 DEF Jack
<1>5. ASSUME h.name # NoName
      PROVE  k = h
  BY <1>3, <1>5
<1>6. /\ k \in Jack /\ k.id = i /\ k.team = j.team /\ k.npc = j.npc
      /\ k.name = IF j.name = NoName THEN Default[i] ELSE j.name
  BY <1>2, <1>4, <1>5
<1> QED
  BY <1>6 DEF h, k

LEMMA ToldType ==
  ASSUME NEW j \in Jack
  PROVE  /\ Most!Told(j) \in JackInfo
         /\ Most!Told(j).name = j.name /\ Most!Told(j).team = j.team /\ Most!Told(j).npc = j.npc
BY DEF Most!Told, JackInfo, Jack

\* Names stay unique among clients S that are given ids for the first time, if no
\* two ids are the same: default names differ.
LEMMA NamesGiven ==
  ASSUME Most!RosterAssumption, MostInv, NEW S \in SUBSET Most!Lobby, Most!All' = Most!All, Most!Players' = Most!Players \cup S,
         RosterIds',
         \A c \in Most!All : jack'[c].name = IF c \in S /\ jack[c].name = NoName
                                        THEN Default[jack'[c].id] ELSE jack[c].name,
         \A p \in Most!Players : jack'[p] = jack[p]
  PROVE  Most!ChosenNamesUnique'
<1> SUFFICES ASSUME NEW c \in Most!All, NEW d \in Most!All, c # d,
                    jack'[c].name = jack'[d].name, jack'[c].name # NoName
             PROVE  \E x \in {c, d} \cap Most!Players' : jack'[x].name = Default[jack'[x].id]
  BY DEF Most!ChosenNamesUnique
<1>1. CASE c \in S /\ jack[c].name = NoName
  BY <1>1
<1>2. CASE d \in S /\ jack[d].name = NoName
  BY <1>2
<1>3. CASE ~(c \in S /\ jack[c].name = NoName) /\ ~(d \in S /\ jack[d].name = NoName)
  <2>1. PICK x \in {c, d} \cap Most!Players : jack[x].name = Default[jack[x].id]
    BY <1>3 DEF MostInv, Most!ChosenNamesUnique
  <2> QED
    BY <2>1
<1> QED
  BY <1>1, <1>2, <1>3

LEMMA StartGameKeeps ==
  ASSUME Most!RosterAssumption, MostInv, Most!StartGame
  PROVE  MostInv'
<1>1. /\ playing = <<>> /\ waiting' = <<>> /\ playing' = waiting /\ group' = group
      /\ waiting \in Seq(Client) /\ Most!Lobby \subseteq Client /\ Len(waiting) \in Nat
      /\ DOMAIN waiting = 1..Len(waiting) /\ \A i \in 1..Len(waiting) : waiting[i] \in Most!Lobby
  BY Members, SameOps DEF Most!StartGame, MostInv, RosterTypes
<1>2. /\ Most!Players = {} /\ Most!Lobby' = {} /\ Most!Players' = Most!Lobby /\ Most!All' = Most!All /\ Most!All = Most!Lobby
  BY <1>1, NobodyListed, SameOps DEF Most!Lobby, Most!Players, Most!All
<1>3. Distinct(waiting) /\ Len(waiting) <= MoreClients
  <2>1. Len(playing) = 0
    BY <1>1
  <2> QED
    BY <1>1, <2>1 DEF MostInv, RosterLists
<1>4. ASSUME NEW c \in Most!Lobby
      PROVE  Most!Place(c) \in 1..Len(waiting) /\ waiting[Most!Place(c)] = c
  <2>1. \E i \in DOMAIN waiting : waiting[i] = c
    BY <1>1, SameOps DEF Most!Lobby, ToSet
  <2> QED
    BY <1>1, <2>1 DEF Most!Place
<1>5. ASSUME NEW i \in 1..Len(waiting)
      PROVE  i - 1 \in DOMAIN Default /\ i - 1 \in Nat /\ i - 1 < Len(waiting) /\ (i - 1) + 1 = i
  BY <1>1, <1>3 DEF Most!RosterAssumption
<1>6. \A c \in Client : jack'[c] = IF c \in Most!Lobby THEN Most!Called([jack[c] EXCEPT !.id = Most!Place(c) - 1])
                                   ELSE jack[c]
  BY SameOps DEF Most!StartGame
<1>7. ASSUME NEW c \in Most!Lobby
      PROVE  /\ jack'[c] \in Jack /\ jack'[c].id = Most!Place(c) - 1 /\ jack'[c].team = jack[c].team
             /\ jack'[c].npc = jack[c].npc
             /\ jack'[c].name = IF jack[c].name = NoName THEN Default[jack'[c].id] ELSE jack[c].name
  <2>1. jack[c] \in Jack /\ Most!Place(c) - 1 \in DOMAIN Default
    BY <1>1, <1>4, <1>5 DEF MostInv, RosterTypes
  <2>2. jack'[c] = Most!Called([jack[c] EXCEPT !.id = Most!Place(c) - 1])
    BY <1>1, <1>6
  <2> QED
    BY <2>1, <2>2, GivenId
<1>8. jack' \in [Client -> Jack]
  <2>1. jack' = [c \in Client |-> jack'[c]]
    BY SameOps DEF Most!StartGame
  <2>2. \A c \in Client : jack'[c] \in Jack
    BY <1>6, <1>7 DEF MostInv, RosterTypes
  <2> QED
    BY <2>1, <2>2
<1>9. ASSUME NEW c \in Client, NEW i \in DOMAIN Default
      PROVE  known'[c][i] = IF c \in Most!Lobby /\ i < Len(waiting) THEN Most!Told(jack'[waiting[i + 1]])
                            ELSE known[c][i]
  BY SameOps DEF Most!StartGame
<1>10. known' \in [Client -> [DOMAIN Default -> JackInfo]]
  <2>1. ASSUME NEW c \in Client, NEW i \in DOMAIN Default
        PROVE  known'[c][i] \in JackInfo
    <3>1. known[c][i] \in JackInfo
      BY DEF MostInv, RosterTypes
    <3>2. CASE c \in Most!Lobby /\ i < Len(waiting)
      <4>1. i + 1 \in 1..Len(waiting)
        BY <3>2, <1>1 DEF Most!RosterAssumption
      <4>2. jack'[waiting[i + 1]] \in Jack
        BY <4>1, <1>1, <1>7
      <4> QED
        BY <3>2, <4>2, <1>9, ToldType
    <3>3. CASE ~(c \in Most!Lobby /\ i < Len(waiting))
      BY <3>1, <3>3, <1>9
    <3> QED
      BY <3>2, <3>3
  <2>2. known' = [c \in Client |-> known'[c]]
    BY SameOps DEF Most!StartGame
  <2>3. ASSUME NEW c \in Client
        PROVE  known'[c] = [i \in DOMAIN Default |-> known'[c][i]]
    <3>1. known[c] = [i \in DOMAIN Default |-> known[c][i]]
      BY DEF MostInv, RosterTypes
    <3>2. CASE c \notin Most!Lobby
      <4>1. known'[c] = known[c]
        BY <3>2, SameOps DEF Most!StartGame
      <4> QED
        BY <3>1, <4>1
    <3>3. CASE c \in Most!Lobby
      BY <3>3, SameOps DEF Most!StartGame
    <3> QED
      BY <3>2, <3>3
  <2>4. \A c \in Client : known'[c] \in [DOMAIN Default -> JackInfo]
    BY <2>1, <2>3
  <2> QED
    BY <2>2, <2>4
<1>11. RosterTypes'
  BY <1>1, <1>8, <1>10, EmptySeq DEF MostInv, RosterTypes
<1>12. RosterLists'
  BY <1>1, <1>2, <1>3, NobodyListed DEF RosterLists
<1>13. RosterIds'
  <2>1. ASSUME NEW p \in Most!Lobby, NEW q \in Most!Lobby, jack'[p].id = jack'[q].id
        PROVE  p = q
    BY <2>1, <1>4, <1>7
  <2>2. ASSUME NEW p \in Most!Lobby
        PROVE  jack'[p].id \in DOMAIN Default
    BY <1>4, <1>5, <1>7
  <2> QED
    BY <2>1, <2>2, <1>2 DEF RosterIds
<1>14. \A c \in Client : jack'[c].team = jack[c].team /\ (c \notin Most!All => jack'[c] = jack[c])
  BY <1>2, <1>6, <1>7
<1>15. Blank' /\ Groups'
  BY <1>1, <1>2, <1>14 DEF MostInv, Blank, Groups, SameTeam
<1>16. Most!ChosenNamesUnique'
  BY <1>2, <1>7, <1>13, NamesGiven
<1>17. Most!PlayersKnowRoster'
  <2> SUFFICES ASSUME NEW p \in Most!Lobby, NEW q \in Most!Lobby
               PROVE  known'[p][jack'[q].id] = Most!Told(jack'[q])
    BY <1>2, <1>7, ToldType DEF Most!PlayersKnowRoster
  <2>1. /\ jack'[q].id \in DOMAIN Default /\ jack'[q].id < Len(waiting)
        /\ waiting[jack'[q].id + 1] = q
    BY <1>4, <1>5, <1>7
  <2> QED
    BY <2>1, <1>1, <1>9
<1> QED
  BY <1>11, <1>12, <1>13, <1>15, <1>16, <1>17 DEF MostInv

\* What is told with the id of a client is what that client is.
LEMMA JoinKeeps ==
  ASSUME Most!RosterAssumption, MostInv, NEW c \in Client, Most!Join(c)
  PROVE  MostInv'
<1>1. PICK given \in DOMAIN Default :
        LET me == Most!Called([jack[c] EXCEPT !.id = given])
        IN /\ Most!FirstFreeId(given)
           /\ jack' = [jack EXCEPT ![c] = me]
           /\ known' = [d \in Client |->
                IF d = c THEN [i \in DOMAIN Default |-> Most!Briefing(known[c][i], me, i)]
                ELSE IF d \in Most!Players THEN [i \in DOMAIN Default |-> Most!News(Most!Reminded(d, i), me, i)]
                ELSE known[d]]
  BY SameOps DEF Most!Join
<1> DEFINE me == Most!Called([jack[c] EXCEPT !.id = given])
<1>2. /\ jack[c] \in Jack
      /\ me \in Jack /\ me.id = given /\ me.team = jack[c].team /\ me.npc = jack[c].npc
      /\ me.name = IF jack[c].name = NoName THEN Default[given] ELSE jack[c].name
  BY GivenId DEF MostInv, RosterTypes
<1>3. /\ Most!FirstFreeId(given) /\ jack' = [jack EXCEPT ![c] = me]
      /\ known' = [d \in Client |->
           IF d = c THEN [i \in DOMAIN Default |-> Most!Briefing(known[c][i], me, i)]
           ELSE IF d \in Most!Players THEN [i \in DOMAIN Default |-> Most!News(Most!Reminded(d, i), me, i)]
           ELSE known[d]]
  BY <1>1
<1> HIDE DEF me
<1>4. /\ c \in Most!Lobby /\ Most!Without(waiting, c, waiting') /\ playing' = Cons(c, playing) /\ group' = group
      /\ waiting \in Seq(Client) /\ playing \in Seq(Client) /\ Distinct(waiting) /\ Distinct(playing)
      /\ Most!Lobby \cap Most!Players = {} /\ Most!Lobby \subseteq Client /\ Most!Players \subseteq Client
      /\ Len(waiting) \in Nat /\ Len(playing) \in Nat /\ Len(waiting) + Len(playing) <= MoreClients
  BY Members, SameOps DEF Most!Join, MostInv, RosterTypes, RosterLists
<1>5. /\ waiting' \in Seq(Client) /\ Distinct(waiting') /\ Most!Lobby' = Most!Lobby \ {c}
      /\ Len(waiting') = Len(waiting) - 1
  BY <1>4, WithoutOne, SameOps DEF Most!Lobby
<1>6. playing' \in Seq(Client) /\ Len(playing') = Len(playing) + 1
  BY <1>4, ConsElements
<1>7. Most!Players' = Most!Players \cup {c} /\ Distinct(playing')
  <2>1. c \notin ToSet(playing)
    BY <1>4, SameOps DEF Most!Players
  <2> QED
    BY <2>1, <1>4, ConsMembers, SameOps DEF Most!Players
<1>8. Most!All' = Most!All /\ Most!All \subseteq Client
  BY <1>4, <1>5, <1>7 DEF Most!All
<1>9. /\ jack' \in [Client -> Jack] /\ jack'[c] = me
      /\ \A d \in Client : d # c => jack'[d] = jack[d]
  BY <1>2, <1>3 DEF MostInv, RosterTypes
<1>10. \A p \in Most!Players : jack[p].id \in DOMAIN Default /\ jack[p].id # given /\ p # c
  BY <1>3, <1>4 DEF Most!FirstFreeId, Most!Ids, MostInv, RosterIds
\* What the new player is told.
<1>11. ASSUME NEW i \in DOMAIN Default
       PROVE  known'[c][i] = Most!Briefing(known[c][i], me, i)
  BY <1>3
<1>12. ASSUME NEW q \in Most!Players
       PROVE  known'[c][jack[q].id] = Most!Told(jack[q])
  <2>1. jack[q].id \in Most!Ids
    BY DEF Most!Ids
  <2>2. (CHOOSE p \in Most!Players : jack[p].id = jack[q].id) = q
    BY DEF MostInv, RosterIds
  <2> QED
    BY <2>1, <2>2, <1>2, <1>10, <1>11 DEF Most!Briefing
<1>13. known'[c][given] = Most!Told(me)
  BY <1>2, <1>11 DEF Most!Briefing
\* What the others are told.
<1>14. ASSUME NEW p \in Most!Players, NEW i \in DOMAIN Default
       PROVE  known'[p][i] = IF i = given THEN Most!Told(me) ELSE Most!Reminded(p, i)
  <2>1. known'[p] = [k \in DOMAIN Default |-> Most!News(Most!Reminded(p, k), me, k)]
    BY <1>3, <1>4, <1>10
  <2>2. known'[p][i] = Most!News(Most!Reminded(p, i), me, i)
    BY <2>1
  <2> QED
    BY <2>2, <1>2 DEF Most!News
<1>15. ASSUME NEW p \in Most!Players, NEW i \in DOMAIN Default
       PROVE  /\ Most!Reminded(p, i) \in JackInfo
              /\ Most!Reminded(p, i).name = known[p][i].name /\ Most!Reminded(p, i).npc = known[p][i].npc
              /\ Most!Reminded(p, i).team = IF i = jack[p].id THEN jack[p].team ELSE known[p][i].team
  <2>1. known[p][i] \in JackInfo /\ jack[p].team \in Nat \cup {-1}
    BY <1>4 DEF MostInv, RosterTypes, Jack
  <2> QED
    BY <2>1 DEF Most!Reminded, JackInfo
<1>16. known' \in [Client -> [DOMAIN Default -> JackInfo]]
  <2>1. ASSUME NEW d \in Client, NEW i \in DOMAIN Default
        PROVE  known'[d][i] \in JackInfo
    <3>1. known[d][i] \in JackInfo
      BY DEF MostInv, RosterTypes
    <3>2. CASE d = c
      <4>1. ASSUME i \in Most!Ids
            PROVE  Most!Told(jack[CHOOSE p \in Most!Players : jack[p].id = i]) \in JackInfo
        <5>1. (CHOOSE p \in Most!Players : jack[p].id = i) \in Most!Players
          BY <4>1 DEF Most!Ids
        <5>2. jack[CHOOSE p \in Most!Players : jack[p].id = i] \in Jack
          BY <5>1, <1>4 DEF MostInv, RosterTypes
        <5> QED
          BY <5>2, ToldType
      <4> QED
        BY <3>1, <3>2, <4>1, <1>2, <1>11, ToldType DEF Most!Briefing
    <3>3. CASE d \in Most!Players
      BY <3>3, <1>2, <1>14, <1>15, ToldType
    <3>4. CASE d # c /\ d \notin Most!Players
      BY <3>1, <3>4, <1>3
    <3> QED
      BY <3>2, <3>3, <3>4
  <2>2. ASSUME NEW d \in Client
        PROVE  known'[d] = [i \in DOMAIN Default |-> known'[d][i]]
    <3>1. CASE d = c
      BY <3>1, <1>3
    <3>2. CASE d # c /\ d \in Most!Players
      BY <3>2, <1>3
    <3>3. CASE d # c /\ d \notin Most!Players
      <4>1. known'[d] = known[d]
        BY <3>3, <1>3
      <4>2. known[d] = [i \in DOMAIN Default |-> known[d][i]]
        BY DEF MostInv, RosterTypes
      <4> QED
        BY <4>1, <4>2
    <3> QED
      BY <3>1, <3>2, <3>3
  <2>3. \A d \in Client : known'[d] \in [DOMAIN Default -> JackInfo]
    BY <2>1, <2>2
  <2>4. known' = [d \in Client |-> known'[d]]
    BY <1>3
  <2> QED
    BY <2>3, <2>4
<1>17. RosterTypes'
  BY <1>4, <1>5, <1>6, <1>9, <1>16 DEF MostInv, RosterTypes
<1>18. RosterLists'
  BY <1>4, <1>5, <1>6, <1>7, <1>8 DEF RosterLists
<1>19. \A d \in Client : /\ jack'[d].team = jack[d].team
                         /\ d # c => jack'[d] = jack[d]
  BY <1>2, <1>9
<1>20. RosterIds'
  BY <1>2, <1>4, <1>7, <1>9, <1>10 DEF MostInv, RosterIds
<1>21. Blank' /\ Groups'
  <2>1. c \in Most!All
    BY <1>4 DEF Most!All
  <2> QED
    BY <2>1, <1>4, <1>8, <1>19 DEF MostInv, Blank, Groups, SameTeam
<1>22. Most!ChosenNamesUnique'
  <2>1. \A d \in Most!All : jack'[d].name = IF d \in {c} /\ jack[d].name = NoName
                                       THEN Default[jack'[d].id] ELSE jack[d].name
    BY <1>2, <1>8, <1>9
  <2>2. \A p \in Most!Players : jack'[p] = jack[p]
    BY <1>4, <1>9, <1>10
  <2>3. {c} \in SUBSET Most!Lobby
    BY <1>4
  <2> QED
    BY <2>1, <2>2, <2>3, <1>7, <1>8, <1>20, NamesGiven
<1>23. Most!PlayersKnowRoster'
  <2> SUFFICES ASSUME NEW p \in Most!Players \cup {c}, NEW q \in Most!Players \cup {c}
               PROVE  /\ known'[p][jack'[q].id].name = jack'[q].name
                      /\ known'[p][jack'[q].id].npc = jack'[q].npc
                      /\ known'[p][jack'[q].id].team \in {jack'[q].team, -1}
    BY <1>7 DEF Most!PlayersKnowRoster
  <2>1. CASE known'[p][jack'[q].id] = Most!Told(jack'[q])
    <3>1. jack'[q] \in Jack
      BY <1>4, <1>9
    <3> QED
      BY <2>1, <3>1, ToldType
  <2>2. CASE p = c /\ q = c
    BY <2>1, <2>2, <1>2, <1>9, <1>13
  <2>3. CASE p = c /\ q \in Most!Players
    BY <2>1, <2>3, <1>4, <1>9, <1>10, <1>12
  <2>4. CASE p \in Most!Players /\ q = c
    BY <2>1, <2>4, <1>2, <1>9, <1>14
  <2>5. CASE p \in Most!Players /\ q \in Most!Players
    <3>1. jack'[q] = jack[q] /\ jack[q].id \in DOMAIN Default /\ jack[q].id # given
      BY <2>5, <1>4, <1>9, <1>10
    <3>2. known'[p][jack[q].id] = Most!Reminded(p, jack[q].id)
      BY <2>5, <3>1, <1>14
    <3>3. /\ known[p][jack[q].id].name = jack[q].name /\ known[p][jack[q].id].npc = jack[q].npc
          /\ known[p][jack[q].id].team \in {jack[q].team, -1}
      BY <2>5 DEF MostInv, Most!PlayersKnowRoster
    <3>4. jack[q].id = jack[p].id => q = p
      BY <2>5 DEF MostInv, RosterIds
    <3> QED
      BY <2>5, <3>1, <3>2, <3>3, <3>4, <1>15
  <2> QED
    BY <2>2, <2>3, <2>4, <2>5
<1> QED
  BY <1>17, <1>18, <1>20, <1>21, <1>22, <1>23 DEF MostInv

-----------------------------------------------------------------------------
LEMMA MostInvNext == Most!RosterAssumption /\ MostInv /\ [Most!Next]_(Most!vars) => MostInv'
<1> SUFFICES ASSUME Most!RosterAssumption, MostInv, [Most!Next]_(Most!vars) PROVE MostInv'
  OBVIOUS
<1>1. CASE UNCHANGED Most!vars
  BY <1>1 DEF Most!vars, MostInv, RosterTypes, RosterLists, RosterIds, Blank, Groups, SameTeam,
     Most!PlayersKnowRoster, Most!ChosenNamesUnique, Most!Lobby, Most!Players, Most!All
<1>2. CASE Most!StartGame \/ Most!Reset
  BY <1>2, StartGameKeeps, ResetKeeps
<1>3. ASSUME NEW c \in Client,
             Most!Accept(c) \/ Most!TeamLeave(c) \/ Most!Join(c) \/ Most!LeaveLobby(c) \/ Most!LeaveGame(c)
      PROVE  MostInv'
  BY <1>3, AcceptKeeps, TeamLeaveKeeps, JoinKeeps, LeaveKeeps
<1>4. ASSUME NEW c \in Client, NEW k \in MoreKinds, Most!SetJackNpc(c, k)
      PROVE  MostInv'
  BY <1>4, SetJackNpcKeeps
<1>5. ASSUME NEW c \in Client, NEW n \in Name \cup {NoName}, Most!JackName(c, n)
      PROVE  MostInv'
  BY <1>5, JackNameKeeps
<1>6. ASSUME NEW c \in Client, NEW n, Most!TeamJoin(c, n)
      PROVE  MostInv'
  BY <1>6, TeamJoinKeeps
<1> QED
  BY <1>1, <1>2, <1>3, <1>4, <1>5, <1>6 DEF Most!Next

-----------------------------------------------------------------------------
(***************************************************************************)
(* Either part of the session's roster takes steps of Most: a step has     *)
(* fewer kinds to choose from in the one, fewer clients in the other.      *)
(***************************************************************************)
LEMMA MostAssumption ==
  /\ Most!RosterAssumption
  /\ FewKinds \subseteq MoreKinds /\ \A n \in Nat : n < FewerClients => n < MoreClients
  /\ 0..FewerClients \subseteq 0..MoreClients
<1>1. FewerClients \in Nat /\ MoreClients \in Nat /\ FewerClients <= MoreClients
  BY RostersAssumption DEF Names!RosterAssumption, Kinds!RosterAssumption
<1>2. Most!RosterAssumption
  BY RostersAssumption DEF Names!RosterAssumption, Kinds!RosterAssumption, Most!RosterAssumption
<1> QED
  BY <1>1, <1>2, RostersAssumption

LEMMA MostStarts == Names!Init => Most!Init
BY DEF Names!Init, Most!Init, Names!NewJack, Most!NewJack, Names!Unknown, Most!Unknown

LEMMA NamesStep == Names!Next => Most!Next
BY MostAssumption, ZenonT(60) DEF
     Names!Next, Names!TeamJoin, Names!Accept, Names!SetJackNpc, Names!NameFree,
     Names!JackName, Names!FirstNamed, Names!Named, Names!IsFreeTeam, Names!TeamLeave,
     Names!Called, Names!Told, Names!Place, Names!StartGame, Names!News, Names!Without,
     Names!Ids, Names!FirstFreeId, Names!Briefing, Names!Reminded, Names!Join,
     Names!Removed, Names!LeaveLobby, Names!LeaveGame, Names!Reset, Names!NewJack,
     Names!Unknown, Names!Lobby, Names!Players, Names!All, Names!ToSet, Names!Cons,
     Names!RemoveAt, Most!Next, Most!TeamJoin, Most!Accept, Most!SetJackNpc,
     Most!NameFree, Most!JackName, Most!FirstNamed, Most!Named, Most!IsFreeTeam,
     Most!TeamLeave, Most!Called, Most!Told, Most!Place, Most!StartGame, Most!News,
     Most!Without, Most!Ids, Most!FirstFreeId, Most!Briefing, Most!Reminded, Most!Join,
     Most!Removed, Most!LeaveLobby, Most!LeaveGame, Most!Reset, Most!NewJack,
     Most!Unknown, Most!Lobby, Most!Players, Most!All, Most!ToSet, Most!Cons,
     Most!RemoveAt

\* What is asked for and who comes and goes is the same for fewer clients.
LEMMA SameForFewer ==
  /\ Kinds!StartGame = Most!StartGame /\ Kinds!Reset = Most!Reset
  /\ \A c : /\ Kinds!TeamLeave(c) = Most!TeamLeave(c) /\ Kinds!Join(c) = Most!Join(c)
           /\ Kinds!LeaveLobby(c) = Most!LeaveLobby(c) /\ Kinds!LeaveGame(c) = Most!LeaveGame(c)
           /\ \A k : Kinds!SetJackNpc(c, k) = Most!SetJackNpc(c, k)
           /\ \A n : Kinds!JackName(c, n) = Most!JackName(c, n)
BY Zenon DEF
     Kinds!SetJackNpc, Kinds!NameFree, Kinds!JackName, Kinds!FirstNamed, Kinds!Named,
     Kinds!IsFreeTeam, Kinds!TeamLeave, Kinds!Called, Kinds!Told, Kinds!Place,
     Kinds!StartGame, Kinds!News, Kinds!Without, Kinds!Ids, Kinds!FirstFreeId,
     Kinds!Briefing, Kinds!Reminded, Kinds!Join, Kinds!Removed, Kinds!LeaveLobby,
     Kinds!LeaveGame, Kinds!Reset, Kinds!NewJack, Kinds!Unknown, Kinds!Lobby,
     Kinds!Players, Kinds!All, Kinds!ToSet, Kinds!Cons, Kinds!RemoveAt, Most!SetJackNpc,
     Most!NameFree, Most!JackName, Most!FirstNamed, Most!Named, Most!IsFreeTeam,
     Most!TeamLeave, Most!Called, Most!Told, Most!Place, Most!StartGame, Most!News,
     Most!Without, Most!Ids, Most!FirstFreeId, Most!Briefing, Most!Reminded, Most!Join,
     Most!Removed, Most!LeaveLobby, Most!LeaveGame, Most!Reset, Most!NewJack,
     Most!Unknown, Most!Lobby, Most!Players, Most!All, Most!ToSet, Most!Cons,
     Most!RemoveAt

LEMMA FewerAccept ==
  ASSUME MostInv, NEW c, Kinds!Accept(c)
  PROVE  Most!Accept(c)
<1>1. Len(waiting) + Len(playing) \in Nat
  <2>1. waiting \in Seq(Client) /\ playing \in Seq(Client)
    BY DEF MostInv, RosterTypes
  <2> QED
    BY <2>1
<1>2. Len(waiting) + Len(playing) < MoreClients
  BY <1>1, MostAssumption DEF Kinds!Accept
<1>3. Kinds!All = Most!All /\ Kinds!Cons(c, waiting) = Most!Cons(c, waiting)
  BY Zenon DEF Kinds!All, Most!All, Kinds!Lobby, Most!Lobby, Kinds!Players, Most!Players,
     Kinds!ToSet, Most!ToSet, Kinds!Cons, Most!Cons
<1> QED
  BY <1>2, <1>3 DEF Kinds!Accept, Most!Accept

LEMMA FewerTeamJoin ==
  ASSUME NEW c, NEW n, Kinds!TeamJoin(c, n)
  PROVE  Most!TeamJoin(c, n)
BY MostAssumption, Zenon DEF Kinds!TeamJoin, Most!TeamJoin, Kinds!Named, Most!Named,
   Kinds!FirstNamed, Most!FirstNamed, Kinds!IsFreeTeam, Most!IsFreeTeam, Kinds!All,
   Most!All, Kinds!Lobby, Most!Lobby, Kinds!Players, Most!Players, Kinds!ToSet, Most!ToSet

LEMMA KindsStep == MostInv /\ Kinds!Next => Most!Next
BY SameForFewer, FewerAccept, FewerTeamJoin, Zenon DEF Kinds!Next, Most!Next

LEMMA RosterInvInit == PartsInit => MostInv
BY MostAssumption, MostStarts, MostInvInit DEF PartsInit

LEMMA RosterInvNext ==
  MostInv /\ [Frames \/ NamesChosen \/ KindsChosen]_<<part, vars, rosterVars>> => MostInv'
<1> SUFFICES ASSUME MostInv, [Frames \/ NamesChosen \/ KindsChosen]_<<part, vars, rosterVars>>
             PROVE  MostInv'
  OBVIOUS
<1>1. CASE NamesChosen
  BY <1>1, MostAssumption, NamesStep, MostInvNext DEF NamesChosen
<1>2. CASE KindsChosen
  BY <1>2, MostAssumption, KindsStep, MostInvNext DEF KindsChosen
<1>3. CASE UNCHANGED rosterVars
  <2>1. UNCHANGED Most!vars
    BY <1>3 DEF rosterVars, Most!vars
  <2> QED
    BY <2>1, MostAssumption, MostInvNext
<1> QED
  BY <1>1, <1>2, <1>3 DEF Frames

\* RosterAgrees of both parts: whoever comes, goes, chooses and asks, players know
\* whom they play with, teams are those asked for and chosen names are unique.
THEOREM RosterOfSession == PartsSpec => []RosterAgrees
<1>1. MostInv => RosterAgrees
  <2>1. Most!RosterAgrees = Names!RosterAgrees
    BY Zenon DEF
       Names!RosterAgrees, Names!PlayersKnowRoster, Names!TeamsAreWanted,
       Names!ChosenNamesUnique, Names!Players, Names!All, Names!Lobby, Names!ToSet,
       Most!RosterAgrees, Most!PlayersKnowRoster, Most!TeamsAreWanted,
       Most!ChosenNamesUnique, Most!Players, Most!All, Most!Lobby, Most!ToSet
  <2> QED
    BY <2>1, MostInvImplies DEF RosterAgrees
<1> QED
  BY <1>1, RosterInvInit, RosterInvNext, PTL DEF PartsSpec
=============================================================================
