-------------------------------- MODULE Doors --------------------------------
(***************************************************************************)
(* Items that jacks use (npcs/lever.c, starlever.c, passage.c, teleport.c, *)
(* eyes.c) and the events that some of them schedule (event.c).            *)
(*                                                                         *)
(* A frame is: players press keys and move (Keys), every item is offered   *)
(* to every jack that touches it, item by item (Offer), then the events    *)
(* run (EndFrame).  A door is an item with a state; apart from it, the     *)
(* server's map holds the tile that blocks its place.  Only the events     *)
(* change both.                                                            *)
(***************************************************************************)
EXTENDS Integers, SequencesExt

CONSTANTS
  Jack,      \* players
  Door,      \* doors of the map
  Items,     \* the other items in the order of their slots: records with
             \*   kind ("lever", "star", "passage", "teleport" or "eyes"),
             \*   at (a place), and door or to (a place)
  Place,     \* places where a jack touches items
  LeverPics, \* n_stand / 2 of levers, star levers and eyes
  DoorPics,  \* n_stand / 2 of doors
  OpenFor,   \* frames a star lever opens its door for, negative for ever
  CloseSound,\* whether there is a sound "closedoor"
  Outside,   \* doors whose place is outside the map
  EyesFor,   \* frames that eyes stay open, 0 or less for ever
  EventBlock \* slots that server->event grows by, 16

\* A door that is opened by star levers closes by itself; no other lever works
\* on it then.  This is a property of the maps: the code does not ask for it.
OwnLevers ==
  \A i, j \in DOMAIN Items :
    /\ Items[i].kind = "lever" /\ Items[i].door \notin Outside
    /\ Items[j].kind = "star" /\ OpenFor >= 0
    => Items[i].door # Items[j].door

DoorsAssumption ==
  /\ LeverPics \in Nat \ {0} /\ DoorPics \in Nat \ {0} /\ EventBlock \in Nat \ {0}
  /\ OpenFor \in Int /\ EyesFor \in Int
  /\ Len(Items) \in Nat /\ DOMAIN Items = 1..Len(Items)
  /\ \A i \in DOMAIN Items : /\ Items[i].kind \in {"lever", "star", "passage", "teleport", "eyes"}
                             /\ Items[i].kind \in {"lever", "star"} => Items[i].door \in Door
  /\ CloseSound \in BOOLEAN /\ Outside \subseteq Door
  /\ OwnLevers

VARIABLES
  pc,        \* "lobby", "keys" or "items"
  cur,       \* the item of Items that is being offered
  todo,      \* jacks it is still to be offered to
  at,        \* where each jack is
  using,     \* jack.using_item
  passed,    \* passages each jack went through in this frame
  door,      \* state, state_data and client_frame of each door
  pic,       \* client_frame of each item
  awake,     \* eyes with state 1
  tile,      \* server->map where each door stands
  event,     \* server->event
  changeMap  \* server->change_map

jacks == <<at, using, passed>>
level == <<door, pic, awake, tile, event>>
vars == <<pc, cur, todo, jacks, level, changeMap>>

Block == "block"    \* the tile of a closed door
Free == "free"      \* -1 in the map
Moving == -1  Closed == 0  Open == 1

Slots == DOMAIN event
NoEvent == [left |-> 0, func |-> "none", item |-> 0, arg |-> 0]
Ev(left, func, item, arg) ==
  [left |-> left, func |-> func, item |-> item, arg |-> arg]
Pending == {s \in Slots : event[s].func # "none"}

\* srv_allocate_event and what its caller puts there: the first free slot, or
\* the first of those that are allocated.
PutEvent(ev, e) ==
  LET free == {s \in DOMAIN ev : ev[s].func = "none"}
      more == ev \o [s \in 1..EventBlock |-> NoEvent]
  IN  IF free = {} THEN [more EXCEPT ![Len(ev) + 1] = e]
      ELSE [ev EXCEPT ![CHOOSE s \in free : \A t \in free : s <= t] = e]
AddEvents(ev, E) ==
  LET added[k \in 0..Len(E)] == IF k = 0 THEN ev ELSE PutEvent(added[k - 1], E[k])
  IN  added[Len(E)]
NoDoor == [state |-> Closed, data |-> Free, pic |-> 0]

\* A picture of the item every `step' frames, starting at frame `first'.
Animation(func, item, pics, first, step) ==
  [i \in 1..Len(pics) |-> Ev(first + step * (i - 1), func, item, pics[i])]
Upwards(n) == [i \in 1..(n - 1) |-> i]
Downwards(n) == [i \in 1..(n - 1) |-> n - i - 1]

\* program_lever_change.
LeverChange(i) ==
  Animation("pic", i, IF pic[i] = 0 THEN Upwards(LeverPics) ELSE Downwards(LeverPics), 2, 1)

\* Mutant.
LeverOpensAtOnce(d) ==
  Animation("doorPic", d, Upwards(DoorPics), 2, 1) \o <<Ev(1, "open", d, 0)>>

\* program_door_open and program_door_close of lever.c.
LeverOpens(d) ==
  Animation("doorPic", d, Upwards(DoorPics), 2, 1) \o <<Ev(DoorPics + 1, "open", d, 0)>>
LeverCloses(d) ==
  Animation("doorPic", d, Downwards(DoorPics), 2, 1)
  \o <<Ev(DoorPics + 1, "close", d, door[d].data)>>

\* program_door_open, program_star_blink and program_door_close of starlever.c.
StarOpens(d) ==
  Animation("doorPic", d, Upwards(DoorPics), 2, 1) \o <<Ev(DoorPics + 1, "starOpen", d, 0)>>
StarBlinks(i) ==
  Animation("pic", i, Upwards(LeverPics) \o Downwards(LeverPics), 2, 2)
StarCloses(d) ==
  LET first == IF CloseSound THEN 3 + OpenFor ELSE 2 + OpenFor
  IN  (IF CloseSound THEN <<Ev(2 + OpenFor, "sound", d, 0)>> ELSE <<>>)
      \o Animation("doorPic", d, Downwards(DoorPics), first, 1)
      \o <<Ev(first + DoorPics - 1, "starClose", d, 0)>>

\* The events of eyes that see a jack.
EyesOpen(i) ==
  Animation("pic", i, Upwards(LeverPics), 2, 1)
  \o IF EyesFor <= 0 THEN <<>>
     ELSE Animation("pic", i, Downwards(LeverPics + 1), 1 + LeverPics + EyesFor, 1)
          \o <<Ev(1 + 2 * LeverPics + EyesFor, "sleep", i, 0)>>
-----------------------------------------------------------------------------
NewDoors == [d \in Door |-> NoDoor]
NewTiles == [d \in Door |-> Block]
NewPics == [i \in DOMAIN Items |-> 0]

Init ==
  /\ pc = "lobby" /\ cur = 0 /\ todo = {}
  /\ at \in [Jack -> Place] /\ using = {} /\ passed = [j \in Jack |-> 0]
  /\ door = NewDoors /\ pic = NewPics /\ tile = NewTiles /\ awake = {}
  /\ event = <<>>
  /\ changeMap = 0

\* server_start_game loads the map.
StartGame ==
  /\ pc = "lobby"
  /\ pc' = "keys"
  /\ door' = NewDoors /\ pic' = NewPics /\ tile' = NewTiles /\ awake' = {}
  /\ UNCHANGED <<cur, todo, jacks, event, changeMap>>

\* server_end_game.
EndGame ==
  /\ pc = "keys"
  /\ pc' = "lobby"
  /\ event' = [s \in Slots |-> NoEvent]
  /\ UNCHANGED <<cur, todo, jacks, door, pic, awake, tile, changeMap>>

\* handle_map_change, first and second frame.
RemoveObjects ==
  /\ changeMap' = 1 /\ event' = [s \in Slots |-> NoEvent]
  /\ UNCHANGED <<door, pic, awake, tile>>
CreateObjects ==
  /\ changeMap' = 0
  /\ door' = NewDoors /\ pic' = NewPics /\ tile' = NewTiles /\ awake' = {}
  /\ UNCHANGED event

\* calc_client: jacks move, and the use key counts in the frame of its press.
Keys ==
  /\ pc = "keys"
  /\ \/ changeMap = 2 /\ RemoveObjects
     \/ changeMap = 1 /\ CreateObjects
     \/ changeMap = 0 /\ UNCHANGED <<level, changeMap>>
  /\ at' \in [Jack -> Place] /\ using' \in SUBSET Jack
  /\ passed' = [j \in Jack |-> 0]
  /\ IF changeMap' = 0 THEN pc' = "items" /\ cur' = 1 /\ todo' = Jack
                       ELSE UNCHANGED <<pc, cur, todo>>

LeverItem(i) ==
  LET d == Items[i].door
  IN  /\ changeMap = 0 /\ door[d].state # Moving /\ d \notin Outside
      /\ IF door[d].state = Closed
         THEN /\ event' = AddEvents(event, LeverChange(i) \o LeverOpens(d))
              /\ door' = [door EXCEPT ![d].state = Moving, ![d].data = tile[d]]
         ELSE /\ event' = AddEvents(event, LeverChange(i) \o LeverCloses(d))
              /\ door' = [door EXCEPT ![d].state = Moving]
      /\ UNCHANGED <<pic, awake, tile>>

\* The state is set before the place is looked at: a door outside the map never
\* ends to move.
StarItem(i) ==
  LET d == Items[i].door
  IN  /\ changeMap = 0 /\ door[d].state = Closed
      /\ door' = [door EXCEPT ![d].state = Moving]
      /\ \/ d \in Outside /\ UNCHANGED event
         \/ /\ d \notin Outside
            /\ event' = AddEvents(event, StarOpens(d) \o StarBlinks(i)
                                         \o (IF OpenFor >= 0 THEN StarCloses(d) ELSE <<>>))
      /\ UNCHANGED <<pic, awake, tile>>

EyesItem(i) ==
  /\ changeMap = 0 /\ i \notin awake
  /\ awake' = awake \cup {i}
  /\ event' = AddEvents(event, EyesOpen(i))
  /\ UNCHANGED <<door, pic, tile>>

\* Mutant.
NoPressUsedUp(i, j) ==
  /\ using' = using
  /\ at' = [at EXCEPT ![j] = Items[i].to]
  /\ passed' = [passed EXCEPT ![j] = @ + 1]

\* A passage inside the map is used up by the press.
PassageItem(i, j) ==
  /\ using' = using \ {j}
  /\ at' = [at EXCEPT ![j] = Items[i].to]
  /\ passed' = [passed EXCEPT ![j] = @ + 1]

\* A teleporter, or a passage, to another map.
TeleportItem == changeMap' = 2

GetItem(i, j) ==
  \/ /\ Items[i].kind = "lever" /\ j \in using /\ LeverItem(i)
     /\ UNCHANGED <<jacks, changeMap>>
  \/ /\ Items[i].kind = "star" /\ StarItem(i)
     /\ UNCHANGED <<jacks, changeMap>>
  \/ /\ Items[i].kind = "passage" /\ j \in using /\ PassageItem(i, j)
     /\ UNCHANGED <<level, changeMap>>
  \/ /\ Items[i].kind = "eyes" /\ EyesItem(i)
     /\ UNCHANGED <<jacks, changeMap>>
  \/ /\ Items[i].kind = "teleport" /\ TeleportItem
     /\ UNCHANGED <<level, jacks>>

\* The early returns of the five get_item.
Refuses(i, j) ==
  \/ Items[i].kind \in {"lever", "passage"} /\ j \notin using
  \/ /\ Items[i].kind = "lever"
     /\ changeMap # 0 \/ door[Items[i].door].state = Moving \/ Items[i].door \in Outside
  \/ /\ Items[i].kind = "star"
     /\ changeMap # 0 \/ door[Items[i].door].state # Closed
  \/ /\ Items[i].kind = "eyes"
     /\ changeMap # 0 \/ i \in awake

\* calc_item: one item is offered to one jack of the list.
Offer(j) ==
  /\ pc = "items" /\ cur <= Len(Items) /\ j \in todo
  /\ todo' = todo \ {j}
  /\ \/ at[j] = Items[cur].at /\ GetItem(cur, j)
     \/ /\ at[j] # Items[cur].at \/ Refuses(cur, j)
        /\ UNCHANGED <<level, jacks, changeMap>>
  /\ UNCHANGED <<pc, cur>>

NextItem ==
  /\ pc = "items" /\ cur <= Len(Items) /\ todo = {}
  /\ cur' = cur + 1 /\ todo' = Jack
  /\ UNCHANGED <<pc, jacks, level, changeMap>>

\* What the function of event e does to the level L.
RunEvent(L, e) ==
  LET d == e.item
  IN  CASE e.func = "pic" -> [L EXCEPT !.pic[d] = e.arg]
        [] e.func = "sleep" -> [L EXCEPT !.awake = @ \ {d}]
        [] e.func = "doorPic" -> [L EXCEPT !.door[d].pic = e.arg]
        [] e.func = "open" -> [L EXCEPT !.door[d].state = Open, !.tile[d] = Free]
        [] e.func = "close" -> [L EXCEPT !.door[d].state = Closed, !.tile[d] = e.arg]
        [] e.func = "starOpen" ->
             [L EXCEPT !.door[d].state = Open, !.door[d].data = L.tile[d], !.tile[d] = Free]
        [] e.func = "starClose" ->
             [L EXCEPT !.door[d].state = Closed, !.tile[d] = L.door[d].data]
        [] OTHER -> L

\* srv_process_events: the slots in order; every event here is one-shot.
Processed(L, s) ==
  LET e == L.event[s]
  IN  IF e.func = "none" THEN L
      ELSE IF e.left > 1 THEN [L EXCEPT !.event[s].left = @ - 1]
      ELSE [RunEvent(L, e) EXCEPT !.event[s] = NoEvent]
ProcessEvents ==
  LET after[s \in 0..Len(event)] ==
        IF s = 0 THEN [event |-> event, door |-> door, pic |-> pic, awake |-> awake, tile |-> tile]
                 ELSE Processed(after[s - 1], s)
  IN  after[Len(event)]

EndFrame ==
  /\ pc = "items" /\ cur > Len(Items)
  /\ pc' = "keys" /\ cur' = 0 /\ todo' = {}
  /\ LET L == ProcessEvents
     IN  event' = L.event /\ door' = L.door /\ pic' = L.pic /\ tile' = L.tile
        /\ awake' = L.awake
  /\ using' = {} /\ UNCHANGED <<at, passed, changeMap>>

Frame == Keys \/ NextItem \/ EndFrame \/ \E j \in Jack : Offer(j)
Next == StartGame \/ EndGame \/ Frame

\* The loop of srv_do_frame runs as long as there is a game.
Spec == Init /\ [][Next]_vars
-----------------------------------------------------------------------------
DoorsTypeOK ==
  /\ pc \in {"lobby", "keys", "items"} /\ cur \in 0..(Len(Items) + 1)
  /\ todo \subseteq Jack /\ using \subseteq Jack
  /\ at \in [Jack -> Place] /\ passed \in [Jack -> Nat]
  /\ door \in [Door -> [state : {Moving, Closed, Open}, data : {Block, Free}, pic : 0..(DoorPics - 1)]]
  /\ pic \in [DOMAIN Items -> 0..(LeverPics - 1)]
  /\ tile \in [Door -> {Block, Free}] /\ awake \subseteq DOMAIN Items
  /\ \A s \in Slots : event[s].left \in Nat
  /\ changeMap \in 0..2

ClosePending(d) ==
  \E s \in Pending : event[s].func \in {"close", "starClose"} /\ event[s].item = d

\* A door that says it is closed blocks its place, one that says it is open
\* does not, and players see it as it is (open_door, close_door).
DoorBlocks(d) ==
  /\ door[d].state = Closed => tile[d] = Block /\ door[d].pic = 0
  /\ door[d].state = Open => tile[d] = Free
  /\ door[d].state = Open /\ ~ClosePending(d) /\ changeMap # 1 => door[d].pic = DoorPics - 1
DoorsBlockAsTheySay == pc # "lobby" => \A d \in Door : DoorBlocks(d)

\* A door that closes in the frame it opens in has a sound to close with: without
\* it the pictures of both movements fall in the same frames, and their slots say
\* which are shown.  The sounds of the game have one (data/sound.dat).
ClosesLater == OpenFor = 0 => CloseSound

\* One press of the use key takes a jack through one passage at most, also
\* where the passage leads to another one (passage.c: "prevents
\* re-teleporting").
OnePassage == \A j \in Jack : passed[j] <= 1

=============================================================================
