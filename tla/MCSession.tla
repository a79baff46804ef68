------------------------------ MODULE MCSession ------------------------------
(***************************************************************************)
(* Session with a few interchangeable client programs and, in behaviors of *)
(* their own, the names, teams and kinds they choose (Roster); the         *)
(* variables of the other part keep their first values.                    *)
(***************************************************************************)
EXTENDS Session, TLC

CONSTANTS
  c1, c2, c3,
  Name, NoName, Default, FewKinds, MoreKinds, FewerClients, MoreClients   \* of Roster

VARIABLES
  part,                                  \* "frames", "names" or "kinds"
  waiting, playing, jack, known, group   \* of Roster

ThreeClients == {c1, c2, c3}
AnyClient == Permutations(Client)

\* One of the names that may be chosen is the default name of the first jack.
AmyOrPlayer1 == {"Amy", "Player 1"}
Anonymous == ""
Defaults == [i \in 0..2 |-> IF i = 0 THEN "Player 1" ELSE IF i = 1 THEN "Player 2" ELSE "Player 3"]

\* More clients of fewer kinds, or fewer clients of more kinds.
OneKind == {0}
TwoKinds == {0, 1}
Names == INSTANCE Roster WITH
  joined <- waiting, client <- playing, Kind <- FewKinds, MaxClients <- MoreClients
Kinds == INSTANCE Roster WITH
  joined <- waiting, client <- playing, Kind <- MoreKinds, MaxClients <- FewerClients
ASSUME RostersAssumption ==
  /\ Names!RosterAssumption /\ Kinds!RosterAssumption
  /\ FewKinds \subseteq MoreKinds /\ FewerClients <= MoreClients

rosterVars == <<waiting, playing, jack, known, group>>

PartsInit == Init /\ Names!Init /\ part \in {"frames", "names", "kinds"}

Frames == part = "frames" /\ Next /\ UNCHANGED <<part, rosterVars>>
NamesChosen == part = "names" /\ Names!Next /\ UNCHANGED <<part, vars>>
KindsChosen == part = "kinds" /\ Kinds!Next /\ UNCHANGED <<part, vars>>
PartsSpec == PartsInit /\ [][Frames \/ NamesChosen \/ KindsChosen]_<<part, vars, rosterVars>>

\* Roster: players know whom they play with, names that were chosen are unique,
\* and a team holds those who asked for each other.
RosterAgrees == Names!RosterAgrees
=============================================================================
