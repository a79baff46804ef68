------------------------------- MODULE Roster -------------------------------
(***************************************************************************)
(* Names, teams and kinds of the jacks (connect.c, server.c): what clients *)
(* choose in the lobby, what the server gives them when they start or join *)
(* a game, and what the players are told of each other.                    *)
(*                                                                         *)
(* Session models who is in which list; here a player leaves in one step,  *)
(* since nothing of this is read between its loss and its removal, and a   *)
(* game runs while it has players.                                         *)
(***************************************************************************)
EXTENDS Integers, SequencesExt

CONSTANTS
  Client,
  Name,      \* names that may be chosen
  NoName,    \* the empty name, which is sent as any other
  Kind,      \* kinds of jacks to choose; 0 is the first kind
  Default,   \* jack id -> its default name
  MaxClients \* bound: clients at one time

RosterAssumption ==
  /\ 0 \in Kind /\ NoName \notin Name
  /\ DOMAIN Default \subseteq Nat
  /\ \A i, j \in DOMAIN Default : Default[i] = Default[j] => i = j
  /\ MaxClients \in Nat /\ 0..(MaxClients - 1) \subseteq DOMAIN Default

VARIABLES
  joined,    \* server->joined
  client,    \* server->client
  jack,      \* client -> id, name, team and npc of its jack
  known,     \* what its program knows of each jack: name, team and npc
  group      \* clients that are partners because they asked to

vars == <<joined, client, jack, known, group>>

NewJack == [id |-> -1, name |-> NoName, team |-> -1, npc |-> 0]    \* srv_reset_jack
Unknown == [name |-> NoName, team |-> -1, npc |-> -1]
Lobby == ToSet(joined)
Players == ToSet(client)
All == Lobby \cup Players

Init ==
  /\ joined = <<>> /\ client = <<>>
  /\ jack = [c \in Client |-> NewJack]
  /\ known = [c \in Client |-> [i \in DOMAIN Default |-> Unknown]]
  /\ group = [c \in Client |-> {c}]

\* accept_client
Accept(c) ==
  /\ c \notin All /\ Len(joined) + Len(client) < MaxClients
  /\ joined' = Cons(c, joined)
  /\ UNCHANGED <<client, jack, known, group>>

-----------------------------------------------------------------------------
(***************************************************************************)
(* Requests of clients of the lobby (process_joined_client).               *)
(***************************************************************************)
SetJackNpc(c, k) ==
  /\ c \in Lobby
  /\ jack' = [jack EXCEPT ![c].npc = k]
  /\ UNCHANGED <<joined, client, known, group>>

\* Mutant of NameFree: The names of players are not looked at.
NameFreeInLobby(n) == \A c \in Lobby : jack[c].name # n

\* srv_find_client_name finds nobody
NameFree(n) == \A c \in All : jack[c].name # n

JackName(c, n) ==
  /\ c \in Lobby /\ NameFree(n)
  /\ jack' = [jack EXCEPT ![c].name = n]
  /\ UNCHANGED <<joined, client, known, group>>

\* srv_find_client_name finds d on a list
FirstNamed(s, n, d) ==
  \E i \in DOMAIN s :
    s[i] = d /\ jack[d].name = n /\ \A k \in 1..(i - 1) : jack[s[k]].name # n

\* The lobby is searched, then the players.
Named(n, d) ==
  \/ FirstNamed(joined, n, d)
  \/ (\A c \in Lobby : jack[c].name # n) /\ FirstNamed(client, n, d)

\* Mutant of IsFreeTeam: Teams of players are not looked at.
IsFreeTeamInLobby(t) ==
  LET used == {jack[c].team : c \in Lobby} IN t \notin used /\ \A u \in 0..(t - 1) : u \in used

\* srv_find_free_team
IsFreeTeam(t) ==
  LET used == {jack[c].team : c \in All} IN t \notin used /\ \A u \in 0..(t - 1) : u \in used

\* client_team_join.  Somebody without a team gets one by being asked for.
TeamJoin(c, n) ==
  /\ c \in Lobby /\ jack[c].name # NoName /\ jack[c].team < 0
  /\ \E d \in All, t \in 0..MaxClients :
       LET together == group[d] \cup {c}
       IN /\ Named(n, d)
          /\ IF jack[d].team < 0 THEN IsFreeTeam(t) ELSE t = jack[d].team
          /\ jack' = [jack EXCEPT ![c].team = t, ![d].team = t]
          /\ group' = [x \in Client |-> IF x \in together THEN together ELSE group[x]]
  /\ UNCHANGED <<joined, client, known>>

\* client_team_leave
TeamLeave(c) ==
  /\ c \in Lobby
  /\ jack' = [jack EXCEPT ![c].team = -1]
  /\ group' = [x \in Client |-> IF x = c THEN {c} ELSE group[x] \ {c}]
  /\ UNCHANGED <<joined, client, known>>

-----------------------------------------------------------------------------
\* get_default_jack_name for who has chosen none
Called(j) == IF j.name = NoName THEN [j EXCEPT !.name = Default[j.id]] ELSE j
Told(j) == [name |-> j.name, team |-> j.team, npc |-> j.npc]

\* server_start_game, for the clients of the lobby in their order
Place(c) == CHOOSE i \in DOMAIN joined : joined[i] = c
StartGame ==
  /\ client = <<>> /\ joined # <<>>
  /\ client' = joined /\ joined' = <<>>
  /\ jack' = [c \in Client |->
       IF c \in Lobby THEN Called([jack[c] EXCEPT !.id = Place(c) - 1]) ELSE jack[c]]
  /\ known' = [c \in Client |->
       IF c \notin Lobby THEN known[c]
       ELSE [i \in DOMAIN Default |->
              IF i < Len(joined) THEN Told(jack'[joined[i + 1]]) ELSE known[c][i]]]
  /\ group' = group

\* Mutant of News: Players are not told the team of who joins them.
NewsButTeam(old, me, i) ==
  IF i = me.id THEN [Told(me) EXCEPT !.team = old.team] ELSE old

\* What a player is told of jack i by the jack that joins, me.
News(old, me, i) == IF i = me.id THEN Told(me) ELSE old

\* The list without c, which is on it.
Without(s, c, t) == \E i \in DOMAIN s : s[i] = c /\ t = RemoveAt(s, i)

Ids == {jack[d].id : d \in Players}
FirstFreeId(i) == i \notin Ids /\ \A k \in 0..(i - 1) : k \in Ids

\* What a client that joins as me is told.
Briefing(old, me, i) ==
  IF i = me.id THEN Told(me)
  ELSE IF i \in Ids THEN Told(jack[CHOOSE p \in Players : jack[p].id = i])
  ELSE old

\* Player p is told its own team again.
Reminded(p, i) ==
  IF i = jack[p].id THEN [known[p][i] EXCEPT !.team = jack[p].team] ELSE known[p][i]

\* join_client
Join(c) ==
  /\ c \in Lobby /\ client # <<>>
  /\ Without(joined, c, joined') /\ client' = Cons(c, client)
  /\ \E id \in DOMAIN Default :
       LET me == Called([jack[c] EXCEPT !.id = id])
       IN /\ FirstFreeId(id)
          /\ jack' = [jack EXCEPT ![c] = me]
          /\ known' = [d \in Client |->
               IF d = c THEN [i \in DOMAIN Default |-> Briefing(known[c][i], me, i)]
               ELSE IF d \in Players THEN [i \in DOMAIN Default |-> News(Reminded(d, i), me, i)]
               ELSE known[d]]
  /\ group' = group

\* srv_remove_client, remove_disconnected_clients and srv_reset_server
Removed(gone) ==
  /\ jack' = [c \in Client |-> IF c \in gone THEN NewJack ELSE jack[c]]
  /\ known' = [c \in Client |->
       IF c \in gone THEN [i \in DOMAIN Default |-> Unknown] ELSE known[c]]
  /\ group' = [c \in Client |-> IF c \in gone THEN {c} ELSE group[c] \ gone]
LeaveLobby(c) == Without(joined, c, joined') /\ client' = client /\ Removed({c})
LeaveGame(c) == Without(client, c, client') /\ joined' = joined /\ Removed({c})
Reset == All # {} /\ joined' = <<>> /\ client' = <<>> /\ Removed(All)

Next ==
  \/ StartGame \/ Reset
  \/ \E c \in Client :
       \/ Accept(c) \/ TeamLeave(c) \/ Join(c) \/ LeaveLobby(c) \/ LeaveGame(c)
       \/ \E k \in Kind : SetJackNpc(c, k)
       \/ \E n \in Name \cup {NoName} : JackName(c, n)
       \/ \E n \in Name \cup {NoName} \cup {Default[i] : i \in DOMAIN Default} : TeamJoin(c, n)

Spec == Init /\ [][Next]_vars

-----------------------------------------------------------------------------
\* Every player knows the name and the kind of every other, whoever came and
\* went under the same id, and takes nobody for a partner who is none.
PlayersKnowRoster ==
  \A p, q \in Players :
    LET k == known[p][jack[q].id]
    IN k.name = jack[q].name /\ k.npc = jack[q].npc /\ k.team \in {jack[q].team, -1}

\* Two clients are of one team if and only if one asked for the other, or both
\* for somebody else, and neither left since: no number of a team that is still
\* in use is given again.
TeamsAreWanted ==
  \A c, d \in All :
    c # d => ((jack[c].team = jack[d].team /\ jack[c].team >= 0) <=> d \in group[c])

\* Only a default name can be the name of two clients.
ChosenNamesUnique ==
  \A c, d \in All :
    (c # d /\ jack[c].name = jack[d].name /\ jack[c].name # NoName) =>
      \E x \in {c, d} \cap Players : jack[x].name = Default[jack[x].id]

RosterAgrees == PlayersKnowRoster /\ TeamsAreWanted /\ ChosenNamesUnique

-----------------------------------------------------------------------------
(***************************************************************************)
(* Expectations the code does not meet; no run checks them.                *)
(***************************************************************************)
\* A name belongs to one client: default names are not checked.
NamesUnique == \A c, d \in All : jack[c].name = jack[d].name /\ c # d => jack[c].name = NoName

\* Players know all teams: they are not told of a team that one of them gets
\* because a client in the lobby asks for it.
TeamsKnown == \A p, q \in Players : known[p][jack[q].id].team = jack[q].team
=============================================================================
