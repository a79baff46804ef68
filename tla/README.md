# A verification of Loser Corps

Loser Corps is a network game. A server (`src/src/server`) keeps the whole game;
client programs (`src/src/client`) send it the keys that are pressed and draw
what it sends back. Rules of single enemies and items are addon libraries
(`src/src/npcs`), and both sides share the message code (`src/src/common`). A map
editor (`src/src/mapedit`) comes with it, and a dialog toolkit for that editor
(`src/src/xdialogs`).

This directory holds TLA+ models of these programs, the TLC configurations that
check them on small instances, and proofs that TLAPS checks for any instance.
`PROJECT.json` says for each definition which lines it models.

## The system

### Parts, their state and how they interact

| part | source | state | operations | module |
|---|---|---|---|---|
| session | `server/connect.c`, `server.c`, `receive.c`, `network.c`, `main.c` | the lists `joined` (lobby) and `client` (players), client types, jack ids, `game_running`, `n_disconnected`, the flags `quit` and `reset` | accept, lobby messages, START, JOIN, leave, frame loop, removal of lost players, end of the game, reset | `Session` |
| lobby roster | `server/connect.c`, `server.c` | names, teams and kinds of jacks | JACKNAME, TEAMJOIN, TEAMLEAVE, SETJACKNPC, default names | `Roster` |
| NPC life | `server/calc.c`, `weapon.c`, `enemy.c`, `item.c`, `send.c`, `client/npc.c`, `npcs/*` | slot arrays with `active`, `create`, `destroy`; `respawn_left` of the spots of the map; `change_map` | create, send, unmark and free, kill, take, respawn, change the map | `NpcLife` |
| wire | `common/common.c`, `*/network.c`, `server/no_net.c` | an output buffer per descriptor; two ring buffers in the single-player build | write, flush, read a message | `OutBuffer`, `NetBuffer`, `Framing`, `MessageQueue` |
| single player | `client/startup.c`, `game.c`, `network.c`, `server/no_net.c`, `srvlib.c` | client and server in one thread, the queues between them | menu round, frame, connect, start, leave | `SinglePlayer` |
| lockstep | `server/send.c`, `receive.c`, `client/client.c`, `game.c` | messages in flight | a frame to each client, a batch of keys from each | `Lockstep` |
| doors and events | `server/event.c`, `npcs/lever.c`, `starlever.c`, `passage.c`, `eyes.c` | scheduled events, door states, blocked tiles | pull a lever, run events, use a passage | `Doors` |
| vitals | `server/jack.c`, `calc.c`, `weapon.c`, items in `npcs` | energy, tanks, score, invincibility, power | hit, kill, come back, take an item, send | `Vitals` |
| movement | `server/movement.c`, `jack.c`, `npcs/*` | positions and speeds | clip a movement; walk, jump, push, carry, hunt | `Movement`, `JackMotion`, `Platforms`, `Enemies` |
| map files | `mapedit/map.c`, `server/map.c`, `client/map.c` | the file | write, three readers | `MapFile` |
| audio | `client/sound.c`, `midi/player.c`, `snd/player.c` | two server processes, their pipes and signals | play, change the music, mix, end | `Audio` |
| map editor | `mapedit/procs.c`, `mapedit.c`, `draw.c` | tiles, undo ring, selection, list of objects, view, palette | draw, undo, paste, drag, copy, scroll | `MapEdit`, `MapView` |
| dialog toolkit | `xdialogs/dialog.c`, `win_io.c`, `stdctrl.c`, `stddlg.c` | open dialogs, locks, focus, the numbers d1..d5 of controls | keys, clicks, nested loops, file selector | `Dialogs`, `EditControl`, `Widgets`, `FileSelect` |
| addons, server sounds, start positions | `server/addon.c`, `lowlib.c`, `sound.c`, `map.c` | a cache of libraries, a list of sounds, a list of places | load, find, unload, next | not modelled |
| client start-up, screen, keyboard, video; parsers; tools | `client/*`, `common/*`, `tools/*` | what is drawn | | what they send and learn is in `Session`, `Roster`, `SinglePlayer`, `Lockstep`, `NpcLife`, `Vitals`; the rest is not modelled |

The server is one thread. With no game running it sleeps in `select()` until a
client in the lobby does something. With a game running it repeats frames: at
most one lobby event (`srv_verify_data`), a message to every player
(`srv_send_frame`), one batch of keys from every player (`srv_receive_frame`),
the calculations (`srv_calc_frame`), and the removal of the players that went
away. The signals SIGINT, SIGTERM and SIGUSR1 set two flags between any two
steps, and clients connect and disconnect when they like.

A client has one thread and two child processes for sound, which it reaches by
pipes and signals and which tell it by SIGCHLD that they ended. The editor has one
thread too, but its dialogs and mouse loops nest: while one waits, the events of
all windows are delivered from inside it.

### What is hard

* Ids and slots are used again at once, while clients still hold the old
  meaning until the next frame (jack ids, NPC slots, descriptors).
* What happens in a frame is announced in the next one: a join, a leave, a kill
  or a map change in between meets lists that are half updated.
* A game may end, be reset or be joined in any frame; whatever is not cleared
  then is found by the next game.
* A client that joins in the middle is told a state, and from then on only
  changes.
* Everything the server does blocks everything else it does.
* Many objects change one jack in one frame, and many jacks one object, in the
  order of arrays.
* A signal handler of the client runs between any two of its steps.
* A mouse loop of the editor remembers a position in a list that the keys it
  delivers change; a loop of a dialog runs inside a handler of another.
* Three readers of one file skip what they do not need, byte by byte.

### What makes each part correct

* session: one owner for each lobby and no owner during a game; unique jack
  ids; every player has room for the jack of every other; nobody shows the jack
  of a player that left; quit and removal happen.
* roster: players know whom they play with; names that were chosen are unique;
  a team holds those who asked for each other.
* NPC life: every screen shows exactly the enemies and items there are; a spot
  of the map has at most one enemy; no NPC of an old map is used with the data of
  the new one; items come back and map changes end.
* wire: the messages written are the messages read, in order and whole, and no
  message of one connection reaches the next.
* single player: the screen follows the server by one frame, each frame ends, a
  START is answered.
* lockstep: client and server are never more than a frame apart, agree on the
  keys that are held, and never wait for each other.
* doors: a door that says it is closed blocks, whatever levers are pulled.
* vitals: energy stays in its range, and screens say it.
* movement: nobody gets into a wall, falls off what carries it, or is squeezed
  without being hit.
* audio: the music asked for last is what plays; the servers end with the client.
* toolkit: input reaches the innermost dialog only; a text box never edits outside
  its text; a file selector shows the directory its text names.
* editor: undo goes back; targets follow their objects; nothing outside the map
  or the image is drawn or chosen; a map means the same to all its readers.

## Modules

### How several parts share a run

Parts that share no state are checked in one run: an MC module has the variables
of all of them and a variable `part` that is chosen in the beginning and never
changes. The variables of the other parts keep one value, so the reachable states
are the disjoint union of those of the parts, and a property
`part = "x" => P` says P of part x. This shares a run and nothing else. Where
theorems are proved about parts, their constants are constants of the MC module,
so that the theorems are about all values, and the configuration gives small
ones.

| MC module | parts |
|---|---|
| `MCSession` | `Session`; `Roster` with three clients of one kind, and with two at a time of two kinds |
| `MCNpcLife` | `NpcLife` |
| `MCLive` | `Session` and `NpcLife`, with fairness |
| `MCWire` | `OutBuffer`, `NetBuffer`, `SinglePlayer` and `Audio`, with fairness |
| `MCLockstep` | `Lockstep`, with fairness |
| `MCWorld` | `Vitals`, `Doors` |
| `MCEnemies` | `Enemies`, `Platforms` |
| `MCEditor` | `EditControl`, `Widgets`, `Dialogs`, `FileSelect`, `MapEdit` (tiles, and objects), `MapView`, `MapFile` |
| `MCListTop`, `MCViewOutside` | `Widgets`, `MapView` alone |

### Session

`Session` models the two client lists and everything that moves a client from
one to the other. Variables have the names of the fields: `joined`, `client`,
`type`, `state`, `id`, `running` (`game_running`), `disc` (`disconnected_id`
up to `n_disconnected`), `quit`, `reset`. `pc` is the place in
`srv_do_frame` and `cur` the position in the list that is being walked, so that
signals and client programs act between any two clients of a loop. A record
that is on no list is freed: its type, id and state are the initial ones.

What a client program knows is kept in `conn` (its connection), `told` (the last
SETCLIENTTYPE) and `view` (its array of jacks: the length `n`, the active
entries `on`, and the entries `unset` that were allocated and never
initialised). TCP is reliable and ordered and the client reads everything before
it sends its next keys, so `view` is updated when a message is sent. An `unset` entry holds
whatever was in memory: what a program shows is `on` and any part of `unset`, and one
that destroys the bitmaps of such an entry (`JoinJack`) may end, which the server
sees as a lost connection (`ReceiveQuit`).

| action | code |
|---|---|
| `AcceptClient`, `RefuseClient` | `accept_client` |
| `StartGame` | `server_start_game` |
| `JoinClient` | `join_client` |
| `LeaveLobby`, `IgnoredMessage` | `process_joined_client`, `srv_remove_client` |
| `Block`, `IdleTimeout`, `NothingHappened` | `srv_verify_data` |
| `SendClient`, `SendNothing`, `SendDone` | `srv_send_frame`, `send_client` |
| `ReceiveKeys`, `ReceiveQuit`, `ReceiveDone` | `srv_receive_frame`, `receive_client` |
| `RemoveDisconnected`, `KeepConnected` | `remove_disconnected_clients` |
| `EndFrame`, `EndGame` | the end of `srv_do_frame`, `server_end_game` |
| `BeginFrameWithReset`, `Exit` | `srv_reset_server`, called for SIGUSR1 and by `srv_close` |

### Roster

What clients choose in the lobby (`JackName`, `TeamJoin`, `TeamLeave`,
`SetJackNpc`), what a game gives them (`StartGame`, `Join`: ids and default
names), and what the players are told of each other (`known`). `group` is kept to
state the property: the clients that are partners because they asked to, while the
program has numbers of teams, and gives a number again when nobody has it any more. A player leaves in
one step, since nothing of the roster is read between its loss and its removal.

### NpcLife

`NpcLife` models the slots of weapons, enemies and items (`npc`, with the flags
`create` and `destroy` of the structures, the `map_id` as `spot`, and, to state
properties, the map an NPC was created in as `from`), `respawn_left` of the
spots (`left`), the map the server has in memory (`map`), the name clients are
told (`mapFile`), `new_map_info` (`newMap`) and `change_map`. `shown` and
`mapOf` are what each client shows. `SendFrame` is all of `srv_send_frame`: no
other thread can see it half done, and a client that goes away is treated in
`Receive`.

The step `pc` takes through `srv_calc_frame` is the order of its loops, and each
loop goes through its array slot by slot, so that an enemy created by another
during the loop is met by the same loop, as in the code. Positions and energy are
left out: a weapon hits any set of enemies, or none, an enemy may destroy itself
or another, and a place may be blocked.

### MessageQueue, OutBuffer, Framing, NetBuffer

`MessageQueue` is what every connection promises: messages are delivered once
and in the order they were sent (`Send`, `Deliver`), and none of them over the
next connection (`Reconnect`). Two modules implement it
(`Queue == INSTANCE MessageQueue WITH ...`, `InOrder == Queue!Spec`):

* `OutBuffer`, the sending side: `net_buf[fd]`, and the cases of
  `net_write_buf` as `Store`, `FlushAndStore`, `FlushAndWrite` and
  `WriteWithoutBuffer` (no memory for the buffer); `SendDirect` is
  `send_message` without the buffer. `Break` and `Reconnect` are a client that
  goes away and another that is given its descriptor.
* `NetBuffer`, the ring buffer of the single-player build, unit by unit, with
  `start` and `end` as in the code. A unit is `<<message, position>>`
  (`Framing`): reading garbage is reading units that are not one message.

### SinglePlayer

Without `NET_PLAY` the client calls the server as a function. `pc` is what the
one thread does next, on both sides:

| action | code |
|---|---|
| `Startup`, `Poll`, `InputMessage` ... `InputDone` | `client_wait`, `check_server_input`, `handle_server_input` |
| `Choose`, `Play`, `Connect`, `Disconnect`, `Quit`, `NoCommand` | the keys handled by the menus |
| `AcceptClient`, `LobbyMessage`, `NoLobbyMessage` | `srv_verify_data`, `accept_client`, `process_joined_client` |
| `SendFrame`, `ReceiveMessage`, `ReceiveNothing`, `RemoveDisconnected` | `srv_do_frame` with a game |
| `ClientSend`, `DrawFrame`, `IgnoreMessage`, `ReceiveFails`, `Escape` | `client_do_server_comm`, `client_receive`, `do_game` |

A user may choose commands faster than they are answered; `hasty` is set once one
was chosen while an earlier one waited, and `options` is what the options of the
program send as soon as it is connected (`-go` a START). The properties about
single frames are stated for users that are not `hasty`: commands queued behind a
START are read as keys, and cost the player the game. That every frame ends holds
for all.

### Lockstep

`Lockstep` takes the network apart that `Session` lets be immediate: `toClient`
and `toServer` are the messages in flight on each connection. `pc` and `cur` are
the server's place in its frame, `at` is each client's. It leaves out who may
start or join (the subject of `Session`): a command in the lobby is obeyed or
not.

| action | code |
|---|---|
| `ResetSignal`, `Reset` | the handler of SIGUSR1, `srv_reset_server` |
| `Accept`, `LobbyMessage`, `LobbyEnd`, `NoEvent` | the lobby event of `srv_do_frame` |
| `Send`, `SendDone` | `srv_send_frame` |
| `Receive`, `ReadMessage`, `ReadEnd` | `srv_receive_frame`, `receive_client` |
| `EndFrame` | `remove_disconnected_clients`, `server_end_game` |
| `Connect`, `Choose`, `Input`, `End` | `client_open`, the menus, `handle_server_input`, a program that ends |
| `ReceiveFrame`, `ReceiveFails` | `client_receive` |
| `SendKeys`, `UserLeaves` | `client_send` |

`fading` is set while `game_start` fades the screen in. In that time failures and
wishes to leave only end the fading; `ignored` are the clients whose wish to
leave was swallowed like this, and who wait for a frame without having answered
the last one. The properties of turns are stated for all others, and
`lockstep_leave` shows what becomes of these.

### Doors and Vitals

`Doors`: a frame is the keys of the players (`Keys`), every item offered to every
jack that touches it, item by item (`Offer`, `NextItem`), and the events
(`EndFrame`, through `ProcessEvents`). Levers, star levers and eyes schedule
events; only events change a door, in two places: the state of the item and the
tile that blocks. `StartGame`, `EndGame`, `RemoveObjects` and `CreateObjects`
carry the events across a change of the map and from game to game. `PutEvent` is
`srv_allocate_event`, with the list that grows when no slot is free.

A door is meant to have levers or star levers. Nothing in the code asks for it:
a star lever schedules the closing of its door together with the opening, and a
lever that is pulled in between schedules another change. The door may then be
drawn half open while it says it is closed and blocks (TLC finds it). That no map does this
is the assumption `OwnLevers`; it is not needed where star levers open for ever.

Two more constants are about star levers. Without a sound for closing (`CloseSound`) the
closing is scheduled a frame earlier (`starlever.c:170`); the game has one. A door
whose place is outside the map (`Outside`) is put into its moving state by a star lever
and stays there (`starlever.c:239-253`), while a lever looks for the place first.
`ClosesLater` excludes a door that closes in the frame it opens in and has no sound
to close with: then the pictures of both movements fall in the same frames, and
their slots decide what is seen.

`Vitals`: the phases of a frame are those of `srv_calc_frame`: jacks, weapons,
what enemies do by touching, items. Positions are left out, so any set of jacks is
hit, touched or takes. `told` are the players whose screen says what
their jack's state is, `shield` the jacks each takes for invincible. `Hit`, `Killed`,
`Drained`, `Fed` are `srv_hit_jack`, `srv_kill_jack`, `kill_npcs` of a push block,
and `srv_jack_get_energy`.

### Movement, JackMotion, Platforms, Enemies

`Movement` has the operators of `movement.c`: rectangles, blocks that fill half
a tile or a quarter, and a movement that is clipped corner by corner and then
among the enemies that block. `JackMotion` is what a jack does with it by its
keys. `Platforms` moves jacks and platforms or push blocks in the order of a
frame, pixel by pixel where the code does (`MoveStep`: push, move, carry).
`Enemies` is one enemy of each kind in a map with players that come, go, hide and
move in any way (`seen` has who is in the game and who is visible: an invisible player is
faced and chased until the next look for a target, one that left is not): looking for a target, moving, turning, shooting, breeding,
falling and coming back.

### Audio

The client's calls (`Calls`, `Interrupt`, `Write`), the three steps between
`fork` and the end of the installation (`Fork`, `StorePid`, `StoreFd`), the
handler of SIGCHLD (`Reap`) at any time, and the loops of both servers: the mixer
(`SampleRound`) and the music (`MusicTop`, `MusicSelect`, `MusicStep`).

### EditControl, Widgets, Dialogs, FileSelect

`EditControl` is the text box with its C buffer, cursor d1, first character d3
and selection d4, d5. `Widgets` are the list, check box, buttons, scroll bar and
menu, each with its mouse loop taken turn by turn. (What a button or an item of the menu
does when it is chosen is the caller's; no property depends on it.) `Dialogs` are the nested loops
(`loops`), the windows that are open, and `lock`, the d2 of each: `Open` is
`do_dialog` called from a handler (of a click, or of Return), `Look` and `Looked` the event
loop, `Finish` the end of a dialog. A control that reads the mouse delivers events from its
own loop too, so they are taken in a handler as well (`Takes`). `FileSelect` has the canonizer of paths, name by name, and the
lists. Its texts are sequences of `Signs`, its directories and files sequences of
names; `Way`, `PlaceAt` and `Resolve` are the file system's reading of a path, sign by
sign (no symbolic links).

### MapEdit, MapView, MapFile

`MapEdit`: tiles of two layers with the ring of undo records, selection and
paste; objects whose targets, choice and drag are positions in the list. An object
has an identity `id` that the program does not have, to say which one a position
meant; `past` remembers the tiles before each change that can be undone.
`MapView`: the position of the view and the sizes it depends on, the palette and
its scroll bar, in one dimension (both go the same way). `MapFile`: the bytes that
the editor writes and what each reader makes of them, in numbers of base `Base`, so
that cutting and padding happen. `Fits` says which maps there are: a text is shorter
than its room `TextLen`, as the dialog for it takes `ITEM_TEXT_LEN-1` characters at most
(`dialogs.c:279`), and the counts fit their fields.

## Runs

| run | shows |
|---|---|
| `session_safe` | three clients connect, start, join, leave and come back in any order, with quit and reset between any two steps: one owner, unique ids, no ghost jacks, room for every jack; names, teams and kinds are what was asked for and what players are told |
| `npc_safe` | two players, two maps, a teleporter, resets, few slots: screens, spots and the change of the map are right in every frame |
| `live` | quit ends the server and lost players are removed (two clients); items come back, however often memory is short, and map changes end (one player, resets) |
| `wire` | the output buffer and the ring buffer implement `MessageQueue`, and what was sent is read; the single-player program is at most a frame behind, removes only players that left, ends its frames and answers START; music and samples are those asked for, and the sound servers end with the client |
| `lockstep` | two clients connect, play, leave and crash at any time, with resets: never more than a frame apart, keys agree, nobody waits for one that waits, frames end |
| `world` | two players hit, kill, feed, join and leave; two jacks at two levers for one door, a star lever, passages and a teleporter |
| `enemies` | each kind of enemy hunts on a floor with a step and a gap; a jack walks, jumps and rides on and around a platform, a lift or a push block |
| `editor` | the toolkit and the editor part by part: locks and focus, controls, paths, undo, targets, view, palette and the map file |
| `npc_maps` | *violated*: an unfinished map change moves the next game |
| `lockstep_leave` | *violated*: a player who closes the window while the screen fades in does not leave, and the game stands still for all |
| `list_top` | *violated*: End in a list that is shorter than its box makes the index of its first item negative |
| `view_outside` | *violated*: in a window that is wider than the map the view lies to the left of it |

The four that are violated contradict a comment of the source, quoted in
`PROJECT.json` under "findings".

### Known deviations

Writing the models showed more that one may not expect of the code. The
first group is written down as definitions that no run checks; TLC finds each
violated when it is put into the configuration of the module's run.

| definition | what happens instead |
|---|---|
| `Session.RemovesOnlyDisconnected` | a player is given an id whose removal is still to be sent, and a frame then removes the jack of a player that is in the game |
| `NpcLife.MapIdsOfThisMap` | NPCs survive a reset and the next game finds them with spots of another map |
| `NpcLife.OneNpcPerSpot`, `OldNpcsGone` with `MaxGames` = 2 | a game that ends in a change of the map leaves its NPCs and its change to the next |
| `NpcLife.MinusOneMeansActive` | `respawn_left` is -1 without an active enemy: it is allocated and not set |
| `NetBuffer.HoldsUnread`, with `MaxUnread` = 6 | a ring that is exactly full looks empty |
| `SinglePlayer.FreshBuffers` | a second connection finds the messages of the first |
| `Vitals.ShieldIsReal` | a client shows a jack invincible that is not any more |
| `Audio.SignalsOnlyServers` | the client tests the process number and then signals it; the handler of SIGCHLD between them makes it `kill(-1, ...)` |
| `Audio.ChangesLetLive` | SIGUSR1 ends a music server that is still loading |
| `Audio.TracksBegun` | SIGUSR1 that is seen before its command lets the old music restart from cleared tracks |
| `Session.EntriesAreSet` | who joins after two players left finds a hole among the ids: the entry is allocated and not set, but its `active` is tested whenever the screen is drawn, and its bitmaps are destroyed when the id is given again |
| `Doors.DoorsBlockAsTheySay`, without `OwnLevers` | a door with a lever and a star lever says it is closed and is drawn half open |
| `Audio.PlaysWhole`, with `Bits` = 16 | 16-bit samples play half their data |
| `Roster.NamesUnique` | a default name "Player N" may have been chosen by another |
| `Roster.TeamsKnown` | a client in the lobby gives a running player a team, which the others are not told |

The second group is part of the models as it is, and the properties are stated
around it. Server and client:

* `kill_npcs` of a push block takes the energy of a jack without killing it; it dies of the
  next hit, whatever that is.
* A platform pushes the jacks before it is checked itself; a rider on the last
  pixel of its trailing edge is left behind; a lift that squeezes a jack sinks it
  by a pixel. `clip_rect` clips too little when a speed exceeds the height of
  a block; no speed of the game does.
* A meatball forgets its target only if that has the id 0. `lever.c:9-10` says
  something else of `state_data` than the code does.
* Enemies destroyed by anything but a weapon are not entered for respawn
  (`pushblock.c:323`); a weapon that hits an enemy already destroyed scores again
  (`weapon.c:89`).
* Start positions are counted in the inner loop and compared with their maximum
  after each row (`connect.c:97` and the reader of the map).
* The server keeps the blocks of a map as `char`; the target of a text is 0.
* A client in the lobby with an empty name is found by TEAMJOIN with an empty name.
* The sample server ends at the first file that it cannot read; `n_musics` is set
  to the number of samples; SIGPIPE is ignored (`play.c:368`), so writing
  to a dead server only fails; SIGCHLD between `fork` and storing the number
  leaves a dead process number stored; `seqbuf_dump` under `midi_reset` returns
  early and leaves the buffer as it is.

Toolkit and editor:

* Taking over a filter replaces the text of a box and leaves d3; a full text box types over its
  selection; a drag uses the position of the turn before (`EditControl.Exposed`).
* A menu that cannot grab the pointer returns `D_O_K`, which is read as its first
  item; WM_DELETE leaves d1 = -1 and a queued key then calls `dialog[-1]`; a
  queued click after closing changes the answer; a scroll bar without divisions
  gives d1 = -1.
* `alert_dlg` is static although its comment says it may be nested.
* Resizing a map drops all objects. A control-drag by a pixel aims an object at
  itself. Keys that copy or remove during a drag leave its position stale. Paste
  leaves no undo record and reads cells it has just overwritten. The popup of
  tools is not reset by New, the palette's scroll bar not by reading tiles.
* Without a map `menu_save` crashes. Texts lose position and target in the file; a
  text of 255 characters writes a byte past `obj->text`, and longer ones make the
  reader take one byte too many; coordinates are cut to 16 bits.
* `draw_items` skips objects without a sprite. The window is fitted before the
  tiles of a map are read; tiles of another size may leave the view outside; odd
  tile sizes put the last doubled pixel outside.

### Bounds

*Session, Roster.* Three clients are enough for the races of ids: one leaves, one
stays to see it, one joins. In `Roster` one of the names is the default name of
the first jack. Clients are symmetric.

*NpcLife.* Two maps (an old and a new one), one spot of each kind for each map,
one slot for weapons and two for enemies (in `live` and `npc_maps` two for items),
so that a slot can be free, taken, or taken by an NPC that does not come
from the map, and memory runs out, also when the time of an item is over. The respawn times are never (the -1 s of the
maps is -30 frames) and 2 frames. The maps that come with the game have 10 s or
more: what matters is that the wait is longer than the frame an NPC stays in its
slot after it was destroyed. With a wait of 0 a spot could be given two enemies.
`NpcLife` stops in the lobby after `MaxGames` games, so its runs do not check
deadlock; `session_safe` does, and `exit` is the only state where it stops.

*Wire.* The buffers are 5 and 6 units long instead of 1024 and 4096 bytes, with
messages that fit more than once, exactly and not at all; four to seven messages
(`MaxSent`) let the ring go round its end twice. `MaxUnread` is how many units a
sender lets wait: 5 of 6, as the ring looks empty when all 6 are taken.
`SinglePlayer` has three connections (one, one that follows a finished game,
and one after that) and at most `MaxWaiting` = 4 messages of a hasty user.

*Lockstep.* Two clients, so that one is read while the other is away, and one
key, as keys do not influence each other. `MaxCommands` = 1 is the number of
commands a client in the menu has waiting; one is enough for a command to be read
as a key when START overtakes it. A client that comes back while the server has
not noticed that it was gone is another client, so two suffice for a new
connection next to an old one.

*World.* A full measure of 2 and damage of 1 or 2 give every relation of damage and
energy; one tank can be full, empty or missing; the score wraps at 2. Two levers
for one door, one of them reached by a passage, a star lever, and a vault outside the map
with levers of both kinds; timers of one frame. The doors are right also
with `CloseSound` = FALSE, with `OpenFor` = 0, and with three pictures (`DoorPics` = 3), which
is a matter of changing the constants in `World_safe.cfg`. The list of events is empty at first and grows by 16 slots
(`EventBlock`), as in the code.

*Enemies.* Lengths are scaled: tiles of 4 or 6 pixels and bodies of 2 to 4, speeds
below the size of a tile as in the code. The maps have what an enemy may meet: a
floor, a step, a gap, a ceiling by the edge of the map. One player, in one of two
places, visible or not, or out of the game. A platform, a lift and a push block are checked with
one jack each.

*Editor.* A text box for 3 characters (`Limit`) and one spare byte, showing one at a
time; lists of 0 to 4 items in a box of 2 rows; a dialog with a question and a
message that it opens; directories of depth two and all texts of two
characters with longer ones for `..` and `//`; an undo ring of 3;
up to three objects, `MaxMade` bounds how many are created; maps
narrower and wider than the window; numbers of base 4 in the file, so that a
coordinate of 9 is cut, texts of even and odd length up to the limit.

*Audio* (in `wire`). One music, two samples that share a channel, blocks of 2, three calls of
the client (`MaxCalls`): one that is playing, one that interrupts it, one between.

### Fairness

`WF_vars` of the server in `Session` and `NpcLife`: it is a running process, it always
has a step unless it sleeps in `select()`, and `select()` has a timeout. Clients
and signals are given no fairness. That a server step that waits for a client
(`ReceiveKeys`) is not put off for ever assumes that the client answers or its
connection is lost; the code has no timeout there, and `Lockstep` shows that
clients whose programs go on do answer.

`Audio`: both sound servers are running processes (`Sounds` and `Plays`, weakly
fair in `MCWire`); the client, its user and its end have no fairness.

`OutBuffer` assumes that a frame that was begun is flushed (both programs flush
at the end of every frame) and that the reader reads; `NetBuffer` the reader
only. In `SinglePlayer` the one thread goes on by itself, so the disjunction of
all steps no user decides is weakly fair; commands, bad maps and leaving are not.

In `Lockstep` the server is fair and so is each client's program: it reads what
arrived and answers a frame that it was sent. What users decide (to connect, to
start, to leave), programs that end, and SIGUSR1 are not.

## Proofs

`SessionProofs` proves every safety property of `Session` in `session_safe` for
any set of clients. None of them is inductive alone. `Structure` is the inductive
invariant all others rest on: types; no client twice on a list or on both
(`Lists`); an open connection for all that are on a list, except those lost in
this frame (`Connected`); and what holds in each phase of the frame loop (`Phase`:
in a game there are players, and those before `cur` are alive). The safety
properties add one conjunct each, inductive together with `Structure`:

* `UniqueIds`: ids of players differ;
* `OneOwner`: in a game all of `joined` are JOINED; without one there is exactly
  one owner, if the lobby is not empty;
* `KnowTypes`: `told` is `type` for all of `joined`;
* `AllJacksKnown`: each player's `view` has `n` above all ids and no unset entry
  for one of them;
* `Shown`: what a player shows lies in its array, and belongs to a player or is
  still to be announced in `disc`; for the players already sent this frame the
  last part is dropped.

Ids are given by position when a game starts, and by the first free number when a
client joins; `FirstFreeId` alone makes them distinct, and the views follow
because `IsJackCount` is told to the new client and `JoinJack` to the others in
the same step. `NoGhostJacks` needs the part about `disc`: ids that are free but
still shown are exactly those in `disc`, until every player was sent the frame.

For `RosterAgrees`, too, it takes any clients, names, kinds and numbers of clients, under
`RostersAssumption` (default names differ, and there is one for every id). The run has two
parts, more clients of fewer kinds and fewer clients of more kinds; each step of
either is a step of `Most`, the roster with the larger of both bounds (`NamesStep`,
`KindsStep`), and the invariant is about that one. `MostInv` adds
to the three properties that nobody is twice on
the lists (`RosterLists`), that ids of players differ (`RosterIds`), that a client which is
not there has no name and no team (`Blank`), and that `group` and teams say the same
of all clients, there or not (`Groups`). What is sent with an id is then about one
jack; who comes is in no team; and a default name can be given only to one player,
because ids differ. A player may learn of a team late and never of a wrong one,
because a team of a player changes from none only.

`ListLemmas` has what the proofs need of lists and numbers: what is left when one
element is removed and what is there when one is put in front or at the end, short
lists written out, and induction in the form that uses sets instead of operators (the
least number of a set, the greatest value over a finite set, all lists from their
beginnings). It also has what is written part after part: a list `Holds` another from a
place on, and `Piled` says where the parts of a list of lists begin.

`WireProofs` has the four parts of `MCWire`. It proves first that the output
buffer implements `MessageQueue`, for
any messages with positive sizes and any size of the buffer. The inductive
invariant is `TypeOK`, `BufferFits`, `NothingLeftOver` and `NothingLost`. The
last one relates all four places a message can be in: while the connection
stands, `got \o pipe \o buf` is `sent`; once it is broken, what was read and
what is in the pipe is a beginning of `sent`. Every way of sending keeps it
because the buffer is written before the message that does not fit
(`SendKeeps`); a read takes the next message because of it (`Reading`); and the
next connection starts clean because a frame that ended left nothing in the
buffer (`NothingLeftOver`).

The ring buffer (`RingLayout`) implements `MessageQueue` for any messages and any
capacity, as long as the sender leaves a unit free (`MaxUnread < Capacity`). Between
`start` and `end` lie the units of the messages that are not read,
each message behind the one before, modulo the capacity. The offsets where they
begin are not in the state, so the invariant says that there are some; a write
adds one at the end, a read drops the first and moves the others down. The one fact of
arithmetic is that a remainder is itself, or one turn less
(`OneTurn`). The free unit makes "empty" and "full" differ: without it, `Used` is 0
in both.

The program for a single player (`SinglePhases`) is, with a user who waits for answers,
in one of a few phases, each with the only contents of both buffers it can have:
before the connection, the lobby, a game that was started and not
shown yet, the game, a connection that was closed and whose QUIT stays
in the buffer, one that was closed because the map could not be read, with START
still there, and the game without a player that the next connection then
shows. In the game the client's buffer holds one STATE or two, which is
`OneFrameBehind`; the server's holds KEYEND or nothing, save a START that
was sent when the game began, so that no QUIT is read that was not sent
(`RemovedOnesLeft`). The only assumption is `OptionsAssumption`, that the messages
of the options end with START.

The sound of a client (`SoundServersAgree`): the command that was asked for last is the last
one in the pipe of the music server, or, when the pipe is empty, it is obeyed. The rest
of the invariant is about the installation: a server that lives has its
pipe once it is installed, and nothing was asked for before. The handler of
SIGCHLD only adds cases in which the server does not live. For samples each channel is at its end or moved on,
so that among channels that all play there is one that is furthest: this is an
induction over finite sets (`GreatestOf`).

`LockstepProofs` proves `OneTurn`, `KeysAgree` and `NobodyStuck` for any clients
and keys. A player that the server has sent a frame and not yet asked for its keys
(`AskedAt`) has one turn, which is in one of four places: `FrameComes`, `FrameRead`,
`Answered` and, for a player who wanted to leave while the screen faded in, `Silent`.
Each fixes what both queues hold; a player who is not asked has no turn (`NoTurn`),
and a client of the lobby waits (`LobbyWaits`). While a reset is pending the players
behind `cur` keep a turn nobody will ask for; the reset closes their connections. The keys agree because
the answer of a player says how to get from the server's table to what
it holds, commands of the menu that were overtaken by START leave the table as it
is, and who is gone holds none (`Gone`). The server is not stuck because a player it waits for
has a turn that is not `Silent`; the properties except the silent ones by `ignored`.

`WorldProofs` proves `EnergyInRange` and `ScreensSayTheState` for any players,
measures and damage, under `VitalsAssumption`. Whoever touches a jack gives it one
of a few next states, so the proof is about one jack first: each of `Hit`, `Fed`,
`NextJack` and the others makes a `Step`, which keeps the jack `Sound` (its range)
and `Announced` (a change that a screen shows sets `changed`, and nothing clears it
but sending). The invariant adds that every player that is alive is `told`, or is
still owed an announcement.

It also proves `DoorsRight`, for any doors, items, pictures, delays, and any number
of events, under `DoorsAssumption` (with `OwnLevers`, see above) and `ClosesLater`. The invariant
(`DoorsIInv`) is that each door is in one of eight states (`DoorOK`): closed, open, opening or
closing by a lever, opening for ever, opening or closing by a star lever, or
jammed outside the map. Each says
which changes of state are scheduled for the door, that its pictures come before the
last of them, and with which picture they end. Of all the events only those
about the door count, and not where in the list they are: `srv_allocate_event` takes any
free slot or makes new ones, in which case slots change places in the proof and nothing else does.
When the events run, at most one changes the state of a door in a frame, because
a star lever's closing is due later than its opening, so the order of slots does
not matter. A lever is obeyed only in the states closed and open,
where nothing is scheduled. While the map changes the events are gone and
doors are `Abandoned`; they still agree with their tiles. That a press of the key
uses one passage is the last conjunct: who went through one in this frame is
not `using` any more.

`NpcLifeProofs` proves `TypeOK` and `ScreensShowNpcs` for any players, maps, slots
and spots, in a server that is never reset or plays one game
(`~Resets \/ MaxGames = 1`; otherwise NPCs survive, see above). The invariant
`Complete` is that players show all that was announced and nothing that is gone;
it is kept because every step between two frames only makes the array `Later`: an
NPC is new, or as active and as announced as before. `Order` is the order of the
phases of a frame and of a game.

It also proves `OneNpcPerSpot` and `OldNpcsGone` for any players, maps,
slots and spots, in the first game of a server and with respawn times other than 0
(`OneGame`; the deviations and the bounds say what happens otherwise). An enemy that
was destroyed stays in its slot until the players were told, and each hit on such a
ghost starts the wait of its spot again. The invariant (`Ghosts`) is that from the
news of a frame until enemies come back a spot with a ghost has no living enemy, so
that the hit does no harm; and that a ghost which was not even announced, and
stays for one frame more, keeps its spot empty, because its wait is not 0.
`Changing` says how the NPCs of the old map go: marked when `change_map` becomes 1,
gone when the frame was sent, and none is created in between because the
calculation ends after the weapons.

`EditorProofs` proves `EditorAgrees`, `TextStaysSound`, `DialogsAboveOnly` and `EditsFollow`
for any trees of dialogs, controls, texts, maps, tile sets and sizes of the undo ring
that the assumptions of the modules admit. A behavior of `MCEditor` belongs to one part,
so `EditorInv` has one invariant for each.

* Dialogs: the loops form a path of the tree without repetition (`LoopStack`), of
  which only the last is not locked (`InnermostAwake`). An event for another one
  therefore finds it locked.
* Controls: what each kind of control keeps while it is pressed and released
  (`ControlInv`); a check box under the mouse shows the value it would get.
* Text box: the invariant is the types alone (`BoxInv`); each key, paste and click takes a box
  whose cursor and selection are in the text to such a box, but for the three steps that
  `Exposed` names, which are not claimed.
* View: what is shown is no wider than its window and a whole number of
  doubled pixels (`Windowed`). A click in the palette picks what is drawn there when the
  palette starts at the place of its bar (`Aligned`), or the bar is beyond the tiles
  (`Beyond`); loading tiles and maps, which may leave it otherwise, is excepted.
* Map: the tiles of before a change follow from those after it and the record at its
  place in the ring (`BackFrom`). A change appends one such link, in a full ring it
  drops the first, and an undo takes the last (`RingPut`, `RingTake`); that places
  of the ring differ is `PlacesDiffer`. After a paste, which makes no record, the links say
  nothing. Identities of objects are distinct, so an object that stays is one place further
  behind a new one (`TargetsShift`), or one place further in front behind one
  that was taken out (`TargetsClose`).

`FileProofs` proves `FilesAgree` and `FilterGoesThere` for any directories, files and texts, and
for any maps, lists of entities, base and room for texts that the assumptions of the two modules
admit. What a function computes byte by byte is out of reach as
an induction over data, but not as an induction over a set of lengths or lists
(`ListInduction`), and that is how both proofs go.

* Selector: `canonize_path` copies a path and takes back a name for each `..`. The
  invariant of its loop (`Right`) is that the buffer is the path to the place where the text
  has led so far (`Way`), and after it the part of a name that was read since; at
  the end that is the place the text leads to, unless the text ends in the middle of a name
  (`Canonized`). The directory that is read is the part up to the last slash (`FilterShows`), and
  it is there because every directory on the way to one is there (`DirsAlong`). Hence `FileInv`:
  the directory above the lists is the written path of a place, and the lists hold what is there.
  Following a path that is written leads back to its place (`EndPath`), which is `FilesAgree`.
* Map file: `SavedInv` says that the file is `WriteMap` of the map that was written last.
  A number in two bytes is read as it was written, cut to the range of a short
  (`WrappedIs`); an entry of the dictionary, an object and a cell are read as they were
  written, and the reader is at the end of them (`EntryRead`, `ObjectRead`, `CellsIs`), which is where the
  next one begins (`Piled`). So the editor and the server (`ReadsObjects`), and the client, which reads
  only sizes (`SkipsObjects`), come past all objects to the cells, with an even number of bytes for
  every text (`EvenedIs`). What is kept of a map fits a file again (`KeptIs`), so that a map that is
  opened and saved stays what it was.

Left to TLC alone are:

* liveness under fairness, which is out of the prover's reach;
* movement: `HuntersStayInMap` holds because of how speeds, bodies, tiles and maps go
  together, which the code leaves to its data. It would be false for an enemy as wide or as high as a
  tile, for one that falls faster than a tile (falls have no limit), and for maps with half blocks;
  even among whole blocks the step that is cut in both directions can turn round unless twice the
  speed is at most the width of the enemy and three times the speed at most the tile. The shipped
  enemies (speeds up to 21, tiles of 64) are within that, and the run checks such measures
  in all places of small maps. In the same way a platform that is stopped at the end of its range and a
  block thinner than the speed of a fall are outside of `BlocksKeepTheirPlace`, which comes from loops over
  pixels.

## What is not modelled

* The addon cache, the sounds of the server and the start positions: a list that is
  filled and read in one step, with no interleaving that reaches it.
* Options, sockets and SERVERINFO: before the first state of `Session`.
* A map without tile sizes: `server_start_game` then returns without an answer
  (`connect.c:178-181`), and `SinglePlayer.StartFails` leaves that out, because every map the
  editor writes has positive ones (`map.c:220`, `mapedit.c:206`).
* Map files of the versions 0 and 1, which the readers still take and no
  writer makes any more, and the dictionary `default_npc_dict` that goes with them.
* Short reads: a message is taken as arriving whole. `read_message` ignores the
  result of its second read, so a message that arrives in pieces is misread.
* A text of 255 characters in a map: it is padded to 256, and the final zero that `read_object`
  writes (`map.c:412`) lands one past the text's room. In the editor the byte belongs to
  the pointer behind it, which is set before it is read; in the server to the next object,
  which is read later, and for the last object to nothing. The model keeps texts as values.
* The seventeenth player that leaves in one frame, for whom `disconnected_id` has no
  room: out of TLC's reach with so many clients.
* Invisibility, which goes as invincibility does; wind, which only pushes; messages
  between players and the credits, which touch no other state.
* Drawing, keyboard tables, sound devices and video: input and output. The parsers of
  data files and bitmaps are sequential and keep no state; the tools are
  converters run by hand. In the editor: the dialog for the numbers of one
  object, and its configuration.
