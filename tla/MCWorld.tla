------------------------------- MODULE MCWorld -------------------------------
(***************************************************************************)
(* Two parts of the game that share no state in these models, checked in   *)
(* one run: what keeps jacks alive (Vitals) and doors and levers (Doors).  *)
(* A behavior is one of the first or one of the second; the variables of   *)
(* the other part keep their first values.                                 *)
(***************************************************************************)
EXTENDS Vitals, TLC, Sequences

VARIABLES
  part,      \* "vitals" or "doors"
  pc, cur, todo, at, using, passed, door, pic, awake, tile, event, changeMap

CONSTANTS
  p1, p2,
  Door, Items, Place, LeverPics, DoorPics, OpenFor, CloseSound, Outside,
  EyesFor, EventBlock   \* of Doors

TwoPlayers == {p1, p2}
NoPartner == {}
OneOrTwo == {1, 2}

\* Place A has a lever, a passage and a star lever, place B a lever for the
\* same door as the first, a passage back, a star lever and a lever for a door
\* outside the map, eyes and a teleporter.
GateHatchAndVault == {"gate", "hatch", "vault"}
VaultOnly == {"vault"}
TwoPlaces == {"A", "B"}
ItemsOfBoth ==
  << [kind |-> "lever", at |-> "A", door |-> "gate"],
     [kind |-> "passage", at |-> "A", to |-> "B"],
     [kind |-> "star", at |-> "A", door |-> "hatch"],
     [kind |-> "lever", at |-> "B", door |-> "gate"],
     [kind |-> "passage", at |-> "B", to |-> "A"],
     [kind |-> "star", at |-> "B", door |-> "vault"],
     [kind |-> "lever", at |-> "B", door |-> "vault"],
     [kind |-> "eyes", at |-> "B"],
     [kind |-> "teleport", at |-> "B", to |-> "B"] >>

D == INSTANCE Doors WITH Jack <- Player
ASSUME DoorsAssumption == D!DoorsAssumption

doorsVars == <<pc, cur, todo, at, using, passed, door, pic, awake, tile, event, changeMap>>

WorldInit ==
  /\ Init /\ D!Init /\ (\A j \in Player : at[j] = Items[1].at)
  /\ part \in {"vitals", "doors"}

VitalsStep == part = "vitals" /\ Next /\ UNCHANGED <<part, doorsVars>>
DoorsStep == part = "doors" /\ D!Next /\ UNCHANGED <<part, vars>>
WorldNext == VitalsStep \/ DoorsStep
WorldSpec == WorldInit /\ [][WorldNext]_<<part, vars, doorsVars>>

\* Doors: a door that says it is closed blocks its place and is drawn closed,
\* one that says it is open does not, whatever levers are pulled; and a press of
\* the use key takes a jack through one passage at most.
DoorsRight == D!DoorsBlockAsTheySay /\ D!OnePassage

Symmetric == Permutations(TwoPlayers)
==============================================================================
