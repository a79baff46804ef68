---------------------------- MODULE EditorProofs ----------------------------
(***************************************************************************)
(* The dialog toolkit and the map editor, part by part, for any constants. *)
(*                                                                         *)
(* One inductive invariant per part: DialogsInv (the loops, locks and      *)
(* focus of the dialogs), ControlInv (what a control holds and shows),     *)
(* ViewInv (the window of the map and the palette), BoxInv (the text of an *)
(* edit control) and MapInv (tiles, undo ring and objects of a map).       *)
(* EditorInv puts them together.                                           *)
(***************************************************************************)
EXTENDS MCEditor, ListLemmas

LoopPlaces == {"look", "events", "handler"}

\* The inductive invariant.
DialogTypes ==
  /\ loops \in Seq([dlg : Dlgs, at : LoopPlaces])
  /\ DOMAIN focus = Dlgs /\ DOMAIN flagged = Dlgs
  /\ lock \in [Dlgs -> Int] /\ closed \in [Dlgs -> BOOLEAN]
\* No dialog has two loops, and each was opened from the one before it.
LoopStack ==
  /\ win = D!Running /\ alive = D!Running
  /\ \A i \in 1..Len(loops), j \in 1..Len(loops) : loops[i].dlg = loops[j].dlg => i = j
  /\ loops # <<>> => loops[1].dlg = Main
  /\ \A i \in 2..Len(loops) : Parent[loops[i].dlg] = loops[i - 1].dlg
\* Only the innermost dialog is not locked.
InnermostAwake ==
  \A i \in 1..Len(loops) : lock[loops[i].dlg] = IF i < Len(loops) THEN 1 ELSE 0

DialogsInv == DialogTypes /\ LoopStack /\ InnermostAwake /\ D!OneFocus

LEMMA UpTo ==
  ASSUME NEW n \in Nat
  PROVE  /\ ~(n < n)
         /\ \A i \in 1..n : (i # n => i < n) /\ (i \in 1..(n - 1) \/ i = n)
         /\ \A i \in 1..(n + 1) : i # n + 1 => i \in 1..n /\ i < n + 1
         /\ \A i \in 1..(n - 1) : i \in 1..n /\ (i # n - 1 => i < n - 1)
OBVIOUS

LEMMA RunningAt == \A d : d \in D!Running <=> \E i \in DOMAIN loops : loops[i].dlg = d
BY DEF D!Running

LEMMA AliveAreDialogs ==
  ASSUME DialogTypes, LoopStack, NEW d \in alive
  PROVE  d \in Dlgs
<1>1. PICK i \in 1..Len(loops) : loops[i].dlg = d
  <2>1. DOMAIN loops = 1..Len(loops)
    BY DEF DialogTypes
  <2> QED
    BY <2>1, RunningAt DEF LoopStack
<1>2. loops[i] \in [dlg : Dlgs, at : LoopPlaces]
  BY ElementOfSeq DEF DialogTypes
<1> QED
  BY <1>1, <1>2

\* The dialogs that are open above another one: the next in the order of loops.
LEMMA Children ==
  ASSUME D!DialogsAssumption, DialogTypes, LoopStack, NEW i \in 1..Len(loops)
  PROVE  {e \in alive : Parent[e] = loops[i].dlg}
           = IF i < Len(loops) THEN {loops[i + 1].dlg} ELSE {}
<1> DEFINE d == loops[i].dlg
<1>1. DOMAIN loops = 1..Len(loops) /\ Len(loops) \in Nat
  BY DEF DialogTypes
<1>2. d \in Dlgs
  <2>1. loops[i] \in [dlg : Dlgs, at : LoopPlaces]
    BY ElementOfSeq DEF DialogTypes
  <2> QED
    BY <2>1
<1>3. ASSUME NEW e \in alive, Parent[e] = d
      PROVE  i < Len(loops) /\ e = loops[i + 1].dlg
  <2>1. PICK j \in 1..Len(loops) : loops[j].dlg = e
    BY <1>1, RunningAt DEF LoopStack
  <2>2. j # 1
    BY <1>1, <1>2, <1>3, <2>1 DEF LoopStack, D!DialogsAssumption
  <2>3. j \in 2..Len(loops) /\ j - 1 \in 1..Len(loops)
    BY <1>1, <2>2
  <2>4. Parent[loops[j].dlg] = loops[j - 1].dlg
    BY <2>3 DEF LoopStack
  <2>5. j - 1 = i
    BY <1>3, <2>1, <2>3, <2>4 DEF LoopStack
  <2> QED
    BY <1>1, <2>1, <2>3, <2>5
<1>4. ASSUME i < Len(loops)
      PROVE  loops[i + 1].dlg \in alive /\ Parent[loops[i + 1].dlg] = d
  <2>1. i + 1 \in 2..Len(loops) /\ i + 1 - 1 = i
    BY <1>1, <1>4
  <2>2. loops[i + 1].dlg \in D!Running
    BY <1>1, <2>1, RunningAt
  <2> QED
    BY <2>1, <2>2 DEF LoopStack
<1> QED
  BY <1>3, <1>4

LEMMA DialogsInvImplies ==
  ASSUME D!DialogsAssumption, DialogsInv
  PROVE  D!DialogsAgree
<1>1. DOMAIN loops = 1..Len(loops) /\ Len(loops) \in Nat
  BY DEF DialogsInv, DialogTypes
<1>2. D!LocksMatch
  <2> SUFFICES ASSUME NEW d \in alive
               PROVE  lock[d] = Cardinality({e \in alive : Parent[e] = d})
    BY DEF D!LocksMatch, D!Cardinality, Cardinality
  <2>1. PICK i \in 1..Len(loops) : loops[i].dlg = d
    BY <1>1, RunningAt DEF DialogsInv, LoopStack
  <2>2. {e \in alive : Parent[e] = d} = IF i < Len(loops) THEN {loops[i + 1].dlg} ELSE {}
    BY <2>1, Children DEF DialogsInv
  <2>3. Cardinality({}) = 0 /\ \A e : Cardinality({e}) = 1
    BY FS_EmptySet, FS_Singleton
  <2> QED
    BY <2>1, <2>2, <2>3 DEF DialogsInv, InnermostAwake
<1>3. D!Nested
  BY DEF DialogsInv, LoopStack, D!Nested
<1> QED
  BY <1>2, <1>3 DEF DialogsInv, D!DialogsAgree

\* A dialog that takes input is the innermost one.
LEMMA AwakeIsInner ==
  ASSUME DialogsInv, NEW d, D!Awake(d)
  PROVE  loops # <<>> /\ d = D!Inner.dlg
<1>1. DOMAIN loops = 1..Len(loops) /\ Len(loops) \in Nat
  BY DEF DialogsInv, DialogTypes
<1>2. PICK i \in 1..Len(loops) : loops[i].dlg = d
  BY <1>1, RunningAt DEF D!Awake, D!Takes, DialogsInv, LoopStack
<1>3. i = Len(loops)
  <2>1. lock[loops[i].dlg] = IF i < Len(loops) THEN 1 ELSE 0
    BY DEF DialogsInv, InnermostAwake
  <2>2. lock[d] = 0
    BY DEF D!Awake
  <2>3. (IF i < Len(loops) THEN 1 ELSE 0) = 0
    BY <1>2, <2>1, <2>2 DEF D!Inner
  <2>4. i \in 1..Len(loops)
    BY <1>2
  <2>5. ~(i < Len(loops))
    BY <2>3
  <2>6. Len(loops) \in Nat
    BY <1>1
  <2> QED
    BY <2>4, <2>5, <2>6
<1>4. loops # <<>>
  BY <1>1, <1>2
<1> QED
  BY <1>2, <1>3, <1>4 DEF D!Inner

LEMMA AboveLocked ==
  ASSUME D!DialogsAssumption, DialogsInv, NEW d \in Dlgs, D!Above(d)
  PROVE  d \in alive /\ loops # <<>> /\ d # D!Inner.dlg
<1>1. DOMAIN loops = 1..Len(loops) /\ Len(loops) \in Nat
  BY DEF DialogsInv, DialogTypes
<1>2. PICK e \in alive : Parent[e] = d
  BY DEF D!Above
<1>3. PICK j \in 1..Len(loops) : loops[j].dlg = e
  BY <1>1, RunningAt DEF DialogsInv, LoopStack
<1>4. j # 1
  BY <1>1, <1>2, <1>3 DEF DialogsInv, LoopStack, D!DialogsAssumption
<1>5. j \in 2..Len(loops) /\ j - 1 \in 1..Len(loops) /\ j - 1 # Len(loops)
  BY <1>1, <1>4
<1>6. loops[j - 1].dlg = d
  BY <1>2, <1>3, <1>5 DEF DialogsInv, LoopStack
<1>7. Len(loops) \in 1..Len(loops) /\ loops # <<>>
  BY <1>1, <1>3
<1>8. loops[Len(loops)].dlg # d
  BY <1>5, <1>6, <1>7 DEF DialogsInv, LoopStack
<1>9. d \in D!Running
  BY <1>1, <1>5, <1>6, RunningAt
<1> QED
  BY <1>7, <1>8, <1>9 DEF DialogsInv, LoopStack, D!Inner
\* Which dialogs run, and in which order, is the same.
SameDialogs ==
  /\ loops' \in Seq([dlg : Dlgs, at : LoopPlaces]) /\ Len(loops') = Len(loops)
  /\ \A i \in 1..Len(loops) : loops'[i].dlg = loops[i].dlg

LEMMA SameDialogsKeep ==
  ASSUME DialogsInv, SameDialogs, UNCHANGED <<win, alive, lock>>
  PROVE  LoopStack' /\ InnermostAwake'
<1>1. /\ DOMAIN loops = 1..Len(loops) /\ Len(loops) \in Nat
      /\ DOMAIN loops' = 1..Len(loops') /\ Len(loops') = Len(loops)
  BY DEF DialogsInv, DialogTypes, SameDialogs
<1>2. D!Running' = D!Running
  BY <1>1 DEF D!Running, SameDialogs
<1>3. loops' # <<>> => loops # <<>> /\ 1 \in 1..Len(loops)
  BY <1>1 DEF SameDialogs
<1>4. \A i \in 2..Len(loops) : i \in 1..Len(loops) /\ i - 1 \in 1..Len(loops)
  BY <1>1
<1>5. LoopStack'
  BY <1>1, <1>2, <1>3, <1>4 DEF DialogsInv, LoopStack, SameDialogs
<1>6. InnermostAwake'
  BY <1>1 DEF DialogsInv, InnermostAwake, SameDialogs
<1> QED
  BY <1>5, <1>6

LEMMA GotoSame ==
  ASSUME DialogsInv, NEW place \in LoopPlaces, loops # <<>>, loops' = D!Goto(place)
  PROVE  SameDialogs
<1> DEFINE n == Len(loops)
           LoopRec == [dlg : Dlgs, at : LoopPlaces]
<1>1. loops \in Seq(LoopRec) /\ n \in Nat /\ n \in 1..n /\ DOMAIN loops = 1..n
  BY DEF DialogsInv, DialogTypes
<1>2. \A i \in 1..n : loops[i] \in LoopRec
  BY <1>1, ElementOfSeq
<1>3. loops' = [loops EXCEPT ![n] = [loops[n] EXCEPT !.at = place]]
  BY DEF D!Goto
<1>4. [loops[n] EXCEPT !.at = place] \in LoopRec /\ [loops[n] EXCEPT !.at = place].dlg = loops[n].dlg
  BY <1>1, <1>2
<1>5. loops' \in Seq(LoopRec) /\ Len(loops') = n
  BY <1>1, <1>3, <1>4
<1>6. \A i \in 1..n : loops'[i].dlg = loops[i].dlg
  BY <1>1, <1>3, <1>4
<1> QED
  BY <1>5, <1>6 DEF SameDialogs

LEMMA LoopSame ==
  ASSUME DialogsInv, loops' = loops
  PROVE  SameDialogs
BY DEF SameDialogs, DialogsInv, DialogTypes

LEMMA DialogsInvInit == D!DialogsAssumption /\ D!Init => DialogsInv
<1> SUFFICES ASSUME D!DialogsAssumption, D!Init PROVE DialogsInv
  OBVIOUS
<1>1. loops = <<[dlg |-> Main, at |-> "look"]>> /\ Main \in Dlgs
  BY DEF D!Init, D!DialogsAssumption
<1>2. loops \in Seq([dlg : Dlgs, at : LoopPlaces]) /\ Len(loops) = 1 /\ DOMAIN loops = {1}
      /\ loops[1].dlg = Main
  BY <1>1 DEF LoopPlaces
<1>3. DialogTypes
  BY <1>2 DEF D!Init, DialogTypes
<1>4. D!Running = {Main}
  BY <1>2 DEF D!Running
<1>5. LoopStack
  BY <1>2, <1>4 DEF D!Init, LoopStack
<1>6. InnermostAwake
  BY <1>1, <1>2 DEF D!Init, InnermostAwake
<1>7. D!OneFocus
  BY <1>1 DEF D!Init, D!OneFocus
<1> QED
  BY <1>3, <1>5, <1>6, <1>7 DEF DialogsInv

\* The loop itself, and a handler that returns.
LEMMA LoopsKeep ==
  ASSUME DialogsInv, D!Idle \/ D!Look \/ D!Looked \/ D!Handled
  PROVE  DialogsInv'
<1>1. SameDialogs
  BY GotoSame, LoopSame DEF D!Idle, D!Look, D!Looked, D!Handled, D!At, LoopPlaces, D!vars, dialogVars
<1>2. UNCHANGED <<win, alive, focus, flagged, lock, closed>>
  BY DEF D!Idle, D!Look, D!Looked, D!Handled, D!vars, dialogVars
<1>3. DialogTypes' /\ D!OneFocus'
  BY <1>1, <1>2 DEF DialogsInv, DialogTypes, D!OneFocus, SameDialogs
<1> QED
  BY <1>1, <1>2, <1>3, SameDialogsKeep DEF DialogsInv

\* Input changes the dialog that takes it, and opens or ends none.
LEMMA InputKeeps ==
  ASSUME DialogsInv, NEW d \in Dlgs,
         D!Delete(d) \/ D!ReturnKey(d) \/ D!TabKey(d) \/ \E c \in 0..Controls[d] : D!Click(d, c)
  PROVE  DialogsInv'
<1>1. loops # <<>>
  BY AwakeIsInner DEF D!Delete, D!ReturnKey, D!TabKey, D!Click, D!Key
<1>2. SameDialogs /\ UNCHANGED <<win, alive, lock>>
  BY <1>1, GotoSame, LoopSame DEF D!Delete, D!ReturnKey, D!TabKey, D!Click, LoopPlaces
<1>3. /\ DOMAIN focus' = Dlgs /\ DOMAIN flagged' = Dlgs /\ closed' \in [Dlgs -> BOOLEAN]
      /\ \A e \in Dlgs \ {d} : focus'[e] = focus[e] /\ flagged'[e] = flagged[e] /\ closed'[e] = closed[e]
      /\ closed[d] => closed'[d]
      /\ flagged[d] \subseteq {focus[d]} => closed'[d] \/ flagged'[d] \subseteq {focus'[d]}
  <2>0. DOMAIN focus = Dlgs /\ DOMAIN flagged = Dlgs /\ closed \in [Dlgs -> BOOLEAN]
    BY DEF DialogsInv, DialogTypes
  <2>1. CASE D!Delete(d)
    BY <2>0, <2>1 DEF D!Delete
  <2>2. CASE D!ReturnKey(d)
    BY <2>0, <2>2 DEF D!ReturnKey
  <2>3. CASE D!TabKey(d)
    <3>1. PICK c : D!Refocus(d, c)
      BY <2>3 DEF D!TabKey
    <3>2. closed' = closed
      BY <2>3 DEF D!TabKey
    <3> QED
      BY <2>0, <3>1, <3>2 DEF D!Refocus
  <2>4. CASE \E c \in 0..Controls[d] : D!Click(d, c)
    <3>1. PICK c \in 0..Controls[d] : D!Press(d, c) /\ closed' = [closed EXCEPT ![d] = @ \/ c \in Exits[d]]
      BY <2>4 DEF D!Click
    <3>2. /\ closed' \in [Dlgs -> BOOLEAN] /\ (closed[d] => closed'[d])
          /\ \A e \in Dlgs \ {d} : closed'[e] = closed[e]
      BY <2>0, <3>1
    <3>3. CASE c \in Wants[d]
      BY <2>0, <3>1, <3>2, <3>3 DEF D!Press
    <3>4. CASE c \notin Wants[d]
      BY <2>0, <3>1, <3>2, <3>4 DEF D!Press
    <3> QED
      BY <3>3, <3>4
  <2> QED
    BY <2>1, <2>2, <2>3, <2>4
<1>4. DialogTypes'
  BY <1>2, <1>3 DEF DialogsInv, DialogTypes, SameDialogs
<1>5. D!OneFocus'
  <2>1. \A e \in alive : e \in Dlgs
    BY AliveAreDialogs DEF DialogsInv
  <2> QED
    BY <1>2, <1>3, <2>1 DEF DialogsInv, D!OneFocus
<1> QED
  BY <1>2, <1>4, <1>5, SameDialogsKeep DEF DialogsInv

\* The new dialog is the innermost one and locks the one it was opened from.
LEMMA OpenKeeps ==
  ASSUME D!DialogsAssumption, DialogsInv, NEW d \in Dlgs, D!Open(d)
  PROVE  DialogsInv'
<1> DEFINE n == Len(loops)
           LoopRec == [dlg : Dlgs, at : LoopPlaces]
           new == [dlg |-> d, at |-> "look"]
<1>1. loops \in Seq(LoopRec) /\ n \in Nat /\ n \in 1..n /\ DOMAIN loops = 1..n /\ loops # <<>>
  BY DEF DialogsInv, DialogTypes, D!Open, D!At
<1>2. new \in LoopRec /\ new.dlg = d /\ loops' = Append(loops, new)
  BY DEF D!Open, LoopPlaces
<1>3. /\ loops' \in Seq(LoopRec) /\ Len(loops') = n + 1 /\ DOMAIN loops' = 1..(n + 1)
      /\ \A i \in 1..n : loops'[i] = loops[i]
      /\ loops'[n + 1].dlg = d
  <2> HIDE DEF LoopRec, new
  <2> QED
    BY <1>1, <1>2, AppendProperties
<1>4. Parent[d] = loops[n].dlg /\ d \notin D!Running
  BY DEF D!Open, D!Inner, DialogsInv, LoopStack
<1>5. \A i \in 1..n : loops[i].dlg \in D!Running
  BY <1>1, RunningAt
<1>6. loops[n].dlg \in Dlgs /\ loops[n].dlg # d
  <2>1. loops[n] \in LoopRec
    BY <1>1, ElementOfSeq
  <2> QED
    BY <2>1, <1>1, <1>4, <1>5
<1>7. D!Running' = D!Running \cup {d}
  <2>1. \A i \in 1..(n + 1) : i \in 1..n \/ i = n + 1
    BY <1>1
  <2>2. 1..n \subseteq 1..(n + 1) /\ n + 1 \in 1..(n + 1)
    BY <1>1
  <2> QED
    BY <1>1, <1>3, <2>1, <2>2 DEF D!Running
<1>8. LoopStack'
  <2>1. win' = D!Running' /\ alive' = D!Running'
    BY <1>7 DEF D!Open, DialogsInv, LoopStack
  <2>2. \A i \in 1..(n + 1), j \in 1..(n + 1) : loops'[i].dlg = loops'[j].dlg => i = j
    <3>1. \A i \in 1..(n + 1) : i \in 1..n \/ i = n + 1
      BY <1>1
    <3>2. \A i, j \in 1..n : loops[i].dlg = loops[j].dlg => i = j
      BY DEF DialogsInv, LoopStack
    <3>3. \A i \in 1..n : loops'[i].dlg = loops[i].dlg /\ loops'[i].dlg # d
      BY <1>3, <1>4, <1>5
    <3>4. loops'[n + 1].dlg = d
      BY <1>3
    <3> HIDE DEF n
    <3> QED
      BY <3>1, <3>2, <3>3, <3>4
  <2>3. loops'[1].dlg = Main
    BY <1>1, <1>3 DEF DialogsInv, LoopStack
  <2>4. \A i \in 2..(n + 1) : Parent[loops'[i].dlg] = loops'[i - 1].dlg
    <3> TAKE i \in 2..(n + 1)
    <3>1. i - 1 \in 1..n
      BY <1>1
    <3>2. CASE i = n + 1
      <4>1. i - 1 = n
        BY <3>2, <1>1
      <4> QED
        BY <1>1, <1>3, <1>4, <3>2, <4>1
    <3>3. CASE i # n + 1
      <4>1. i \in 2..n /\ i \in 1..n
        BY <3>3, <1>1
      <4> QED
        BY <1>3, <3>1, <4>1 DEF DialogsInv, LoopStack
    <3> QED
      BY <3>2, <3>3
  <2> QED
    BY <1>3, <2>1, <2>2, <2>3, <2>4 DEF LoopStack
<1>9. lock' = [lock EXCEPT ![loops[n].dlg] = @ + 1, ![d] = 0]
  BY <1>4 DEF D!Open
<1>10. InnermostAwake'
  <2>1. /\ lock \in [Dlgs -> Int] /\ lock[loops[n].dlg] = 0
        /\ \A i \in 1..n : i # n => lock[loops[i].dlg] = 1
    <3>1. ~(n < n) /\ \A i \in 1..n : i # n => i < n
      BY <1>1, UpTo
    <3>2. lock[loops[n].dlg] = IF n < n THEN 1 ELSE 0
      BY <1>1 DEF DialogsInv, InnermostAwake
    <3>3. \A i \in 1..n : i # n => lock[loops[i].dlg] = 1
      BY <3>1 DEF DialogsInv, InnermostAwake
    <3> QED
      BY <3>1, <3>2, <3>3 DEF DialogsInv, DialogTypes
  <2>2. ASSUME NEW i \in 1..(n + 1)
        PROVE  lock'[loops'[i].dlg] = IF i < n + 1 THEN 1 ELSE 0
    <3>1. CASE i = n + 1
      <4>1. lock'[d] = 0
        BY <1>6, <1>9, <2>1
      <4> QED
        BY <1>1, <1>3, <3>1, <4>1
    <3>2. CASE i = n
      <4>1. lock'[loops[n].dlg] = 1
        BY <1>6, <1>9, <2>1
      <4> QED
        BY <1>1, <1>3, <3>2, <4>1
    <3>3. CASE i # n /\ i # n + 1
      <4>1. i \in 1..n /\ i < n + 1
        BY <1>1, <3>3, UpTo
      <4>2. loops[i].dlg # loops[n].dlg /\ loops[i].dlg # d
        <5>1. loops[i].dlg = loops[n].dlg => i = n
          BY <1>1, <4>1 DEF DialogsInv, LoopStack
        <5>2. loops[i].dlg # d
          BY <1>4, <1>5, <4>1
        <5> QED
          BY <3>3, <5>1, <5>2
      <4>3. loops[i] \in LoopRec
        BY <1>1, <4>1, ElementOfSeq
      <4>4. lock'[loops[i].dlg] = lock[loops[i].dlg]
        BY <1>9, <2>1, <4>2, <4>3
      <4> QED
        BY <1>3, <2>1, <3>3, <4>1, <4>4
    <3> QED
      BY <3>1, <3>2, <3>3
  <2> QED
    BY <1>3, <2>2 DEF InnermostAwake
<1>11. DialogTypes'
  <2>1. lock' \in [Dlgs -> Int]
    BY <1>6, <1>9 DEF DialogsInv, DialogTypes
  <2>2. DOMAIN focus' = Dlgs /\ DOMAIN flagged' = Dlgs /\ closed' \in [Dlgs -> BOOLEAN]
    BY DEF D!Open, DialogsInv, DialogTypes
  <2> QED
    BY <1>3, <2>1, <2>2 DEF DialogTypes
<1>12. D!OneFocus'
  <2>1. flagged'[d] \subseteq {focus'[d]}
    <3>1. /\ focus'[d] = D!FocusOf(d, D!Flags(d), -1)
          /\ flagged'[d] = IF D!Flags(d) = {} THEN {0} ELSE D!Flags(d)
      BY DEF D!Open, DialogsInv, DialogTypes
    <3>2. CASE D!Flags(d) = {}
      BY <3>1, <3>2 DEF D!FocusOf
    <3>3. CASE D!Flags(d) # {}
      <4>1. D!Flags(d) = {First[d]} /\ First[d] > 0
        BY <3>3 DEF D!Flags
      <4>2. First[d] \in Int /\ First[d] <= First[d]
        BY DEF D!DialogsAssumption
      <4>3. D!FocusOf(d, D!Flags(d), -1) = CHOOSE c \in {First[d]} : \A e \in {First[d]} : c <= e
        BY <3>3, <4>1 DEF D!FocusOf
      <4>4. (CHOOSE c \in {First[d]} : \A e \in {First[d]} : c <= e) = First[d]
        BY <4>2
      <4> QED
        BY <3>1, <3>3, <4>1, <4>3, <4>4
    <3> QED
      BY <3>2, <3>3
  <2>2. ASSUME NEW e \in alive PROVE closed'[e] \/ flagged'[e] \subseteq {focus'[e]}
    <3>1. e # d /\ e \in Dlgs
      BY <1>4, AliveAreDialogs DEF DialogsInv, LoopStack
    <3>2. focus'[e] = focus[e] /\ flagged'[e] = flagged[e] /\ closed'[e] = closed[e]
      BY <3>1 DEF D!Open, DialogsInv, DialogTypes
    <3> QED
      BY <3>2 DEF DialogsInv, D!OneFocus
  <2>3. alive' = alive \cup {d}
    BY DEF D!Open
  <2> QED
    BY <2>1, <2>2, <2>3 DEF D!OneFocus
<1> QED
  BY <1>8, <1>10, <1>11, <1>12 DEF DialogsInv

\* The dialog below is the innermost one again, and unlocked.
LEMMA FinishKeeps ==
  ASSUME D!DialogsAssumption, DialogsInv, D!Finish
  PROVE  DialogsInv'
<1> DEFINE n == Len(loops)
           LoopRec == [dlg : Dlgs, at : LoopPlaces]
           last == loops[n].dlg
<1>1. loops \in Seq(LoopRec) /\ n \in Nat /\ n \in 1..n /\ DOMAIN loops = 1..n /\ loops # <<>>
  BY DEF DialogsInv, DialogTypes, D!Finish, D!At
<1>2. /\ loops' \in Seq(LoopRec) /\ Len(loops') = n - 1 /\ DOMAIN loops' = 1..(n - 1)
      /\ \A i \in 1..(n - 1) : loops'[i] = loops[i]
  <2>1. loops' = SubSeq(loops, 1, n - 1)
    BY DEF D!Finish
  <2>2. n - 1 \in Nat /\ n - 1 \in 0..n
    BY <1>1
  <2>3. \A i \in 1..(n - 1) : i \in 1..n
    BY <1>1
  <2>4. \A i \in 1..(n - 1) : loops[i] \in LoopRec
    BY <1>1, <2>3, ElementOfSeq
  <2> HIDE DEF LoopRec, n
  <2>5. SubSeq(loops, 1, n - 1) \in Seq(LoopRec) /\ Len(SubSeq(loops, 1, n - 1)) = n - 1
    BY <1>1, <2>2, <2>4, SubSeqProperties
  <2>6. \A i \in 1..(n - 1) : SubSeq(loops, 1, n - 1)[i] = loops[i]
    BY <1>1, <2>2, <2>4, SubSeqProperties
  <2> QED
    BY <2>1, <2>5, <2>6, LenProperties
<1>3. \A i \in 1..n : loops[i].dlg \in Dlgs
  <2>1. \A i \in 1..n : loops[i] \in LoopRec
    BY <1>1, ElementOfSeq
  <2> QED
    BY <2>1
<1>4. \A i \in 1..(n - 1) : i \in 1..n /\ loops[i].dlg # last
  BY <1>1 DEF DialogsInv, LoopStack
<1>5. D!Running' = D!Running \ {last}
  <2>1. \A i \in 1..n : i \in 1..(n - 1) \/ i = n
    BY <1>1, UpTo
  <2>2. ASSUME NEW e \in D!Running, e # last PROVE e \in D!Running'
    <3>1. PICK i \in 1..n : loops[i].dlg = e
      BY <1>1, RunningAt
    <3>2. i \in 1..(n - 1)
      BY <2>1, <2>2, <3>1
    <3> QED
      BY <1>2, <3>1, <3>2 DEF D!Running
  <2>3. ASSUME NEW e \in D!Running' PROVE e \in D!Running /\ e # last
    <3>1. PICK i \in 1..(n - 1) : loops'[i].dlg = e
      BY <1>2, <2>3 DEF D!Running
    <3>2. i \in 1..n /\ loops[i].dlg = e /\ loops[i].dlg # last
      BY <1>2, <1>4, <3>1
    <3> QED
      BY <1>1, <3>2, RunningAt
  <2> QED
    BY <2>2, <2>3
<1>6. LoopStack'
  <2>1. win' = D!Running' /\ alive' = D!Running'
    BY <1>5 DEF D!Finish, D!Inner, DialogsInv, LoopStack
  <2>2. \A i \in 1..(n - 1), j \in 1..(n - 1) : loops'[i].dlg = loops'[j].dlg => i = j
    BY <1>2, <1>4 DEF DialogsInv, LoopStack
  <2>3. loops' # <<>> => loops'[1].dlg = Main
    <3>1. loops' # <<>> => 1 \in 1..(n - 1)
      BY <1>1, <1>2
    <3> QED
      BY <1>1, <1>2, <3>1 DEF DialogsInv, LoopStack
  <2>4. \A i \in 2..(n - 1) : Parent[loops'[i].dlg] = loops'[i - 1].dlg
    <3>1. \A i \in 2..(n - 1) : i \in 2..n /\ i \in 1..(n - 1) /\ i - 1 \in 1..(n - 1)
      BY <1>1
    <3> QED
      BY <1>2, <3>1 DEF DialogsInv, LoopStack
  <2> QED
    BY <1>2, <2>1, <2>2, <2>3, <2>4 DEF LoopStack
<1>7. lock' \in [Dlgs -> Int] /\ InnermostAwake'
  <2>1. /\ lock \in [Dlgs -> Int]
        /\ \A i \in 1..(n - 1) : lock[loops[i].dlg] = 1
    <3>1. \A i \in 1..(n - 1) : i < n
      BY <1>1
    <3> QED
      BY <1>4, <3>1 DEF DialogsInv, DialogTypes, InnermostAwake
  <2>2. CASE n = 1
    <3>1. last = Main /\ Parent[last] = NoDlg
      BY <1>1, <2>2 DEF DialogsInv, LoopStack, D!DialogsAssumption
    <3>2. lock' = lock
      BY <3>1 DEF D!Finish, D!Inner
    <3>3. 1..Len(loops') = {}
      BY <1>2, <2>2
    <3> QED
      BY <2>1, <3>2, <3>3 DEF InnermostAwake
  <2>3. CASE n # 1
    <3>1. n \in 2..n /\ n - 1 \in 1..(n - 1) /\ n - 1 \in 1..n
      BY <1>1, <2>3
    <3>2. Parent[last] = loops[n - 1].dlg /\ loops[n - 1].dlg \in Dlgs
      BY <1>3, <3>1 DEF DialogsInv, LoopStack
    <3>3. lock' = [lock EXCEPT ![loops[n - 1].dlg] = @ - 1]
      BY <3>2 DEF D!Finish, D!Inner, D!DialogsAssumption
    <3>4. lock' \in [Dlgs -> Int] /\ lock'[loops[n - 1].dlg] = 0
      BY <2>1, <3>1, <3>2, <3>3
    <3>5. ASSUME NEW i \in 1..(n - 1)
          PROVE  lock'[loops'[i].dlg] = IF i < n - 1 THEN 1 ELSE 0
      <4>1. CASE i = n - 1
        BY <1>1, <1>2, <3>1, <3>4, <4>1, SMTT(20)
      <4>2. CASE i # n - 1
        <5>1. i < n - 1 /\ i \in 1..n
          BY <1>1, <4>2, UpTo
        <5>2. loops[i].dlg # loops[n - 1].dlg /\ loops[i].dlg \in Dlgs
          <6>1. loops[i].dlg = loops[n - 1].dlg => i = n - 1
            BY <3>1, <5>1 DEF DialogsInv, LoopStack
          <6> QED
            BY <1>3, <4>2, <5>1, <6>1
        <5>3. lock'[loops[i].dlg] = lock[loops[i].dlg]
          BY <2>1, <3>3, <5>2
        <5> QED
          BY <1>2, <2>1, <5>1, <5>3
      <4> QED
        BY <4>1, <4>2
    <3> QED
      BY <1>2, <3>4, <3>5 DEF InnermostAwake
  <2> QED
    BY <2>2, <2>3
<1>8. DialogTypes' /\ D!OneFocus'
  <2>1. UNCHANGED <<focus, flagged, closed>> /\ alive' \subseteq alive
    BY DEF D!Finish
  <2> QED
    BY <1>2, <1>7, <2>1 DEF DialogsInv, DialogTypes, D!OneFocus
<1> QED
  BY <1>6, <1>7, <1>8 DEF DialogsInv

LEMMA DialogsInvNext == D!DialogsAssumption /\ DialogsInv /\ [D!Next]_dialogVars => DialogsInv'
<1> SUFFICES ASSUME D!DialogsAssumption, DialogsInv, [D!Next]_dialogVars PROVE DialogsInv'
  OBVIOUS
<1>1. CASE D!Idle \/ D!Look \/ D!Looked \/ D!Handled
  BY <1>1, LoopsKeep
<1>2. CASE D!Finish
  BY <1>2, FinishKeeps
<1>3. ASSUME NEW d \in Dlgs,
             D!Delete(d) \/ D!ReturnKey(d) \/ D!TabKey(d) \/ \E c \in 0..Controls[d] : D!Click(d, c)
      PROVE  DialogsInv'
  BY <1>3, InputKeeps
<1>4. ASSUME NEW d \in Dlgs, D!Open(d)
      PROVE  DialogsInv'
  BY <1>4, OpenKeeps
<1>5. CASE UNCHANGED dialogVars
  <2>1. SameDialogs /\ UNCHANGED <<win, alive, focus, flagged, lock, closed>>
    BY <1>5, LoopSame DEF D!vars, dialogVars
  <2>2. DialogTypes' /\ D!OneFocus'
    BY <2>1 DEF DialogsInv, DialogTypes, D!OneFocus, SameDialogs
  <2> QED
    BY <2>1, <2>2, SameDialogsKeep DEF DialogsInv
<1> QED
  BY <1>1, <1>2, <1>3, <1>4, <1>5 DEF D!Next

LEMMA StepAsleep ==
  ASSUME D!DialogsAssumption, DialogsInv, [D!Next]_dialogVars
  PROVE  D!LockedAsleepStep
<1> SUFFICES ASSUME NEW d \in Dlgs, D!Above(d)
             PROVE  focus'[d] = focus[d] /\ closed'[d] = closed[d] /\ flagged'[d] = flagged[d]
  BY DEF D!LockedAsleepStep
<1>1. d \in alive /\ loops # <<>> /\ d # D!Inner.dlg
  BY AboveLocked
<1>2. CASE D!Idle \/ D!Look \/ D!Looked \/ D!Handled \/ D!Finish \/ UNCHANGED dialogVars
  BY <1>2 DEF D!Idle, D!Look, D!Looked, D!Handled, D!Finish, D!vars, dialogVars
<1>3. ASSUME NEW e \in Dlgs,
             D!Delete(e) \/ D!ReturnKey(e) \/ D!TabKey(e) \/ \E c \in 0..Controls[e] : D!Click(e, c)
      PROVE  focus'[d] = focus[d] /\ closed'[d] = closed[d] /\ flagged'[d] = flagged[d]
  <2>1. e # d
    BY <1>1, <1>3, AwakeIsInner DEF D!Delete, D!ReturnKey, D!TabKey, D!Click, D!Key
  <2>2. DOMAIN focus = Dlgs /\ DOMAIN flagged = Dlgs /\ closed \in [Dlgs -> BOOLEAN]
    BY DEF DialogsInv, DialogTypes
  <2>3. CASE D!Delete(e)
    BY <2>1, <2>2, <2>3 DEF D!Delete
  <2>4. CASE D!ReturnKey(e)
    BY <2>1, <2>2, <2>4 DEF D!ReturnKey
  <2>5. CASE D!TabKey(e)
    <3>1. PICK c : D!Refocus(e, c)
      BY <2>5 DEF D!TabKey
    <3>2. closed' = closed
      BY <2>5 DEF D!TabKey
    <3> QED
      BY <2>1, <2>2, <3>1, <3>2 DEF D!Refocus
  <2>6. CASE \E c \in 0..Controls[e] : D!Click(e, c)
    <3>1. PICK c \in 0..Controls[e] : D!Press(e, c) /\ closed' = [closed EXCEPT ![e] = @ \/ c \in Exits[e]]
      BY <2>6 DEF D!Click
    <3>2. closed'[d] = closed[d]
      BY <2>1, <2>2, <3>1
    <3>3. focus'[d] = focus[d] /\ flagged'[d] = flagged[d]
      <4>1. CASE c \in Wants[e]
        BY <2>1, <2>2, <3>1, <4>1 DEF D!Press
      <4>2. CASE c \notin Wants[e]
        BY <3>1, <4>2 DEF D!Press
      <4> QED
        BY <4>1, <4>2
    <3> QED
      BY <3>2, <3>3
  <2> QED
    BY <1>3, <2>3, <2>4, <2>5, <2>6
<1>4. ASSUME NEW e \in Dlgs, D!Open(e)
      PROVE  focus'[d] = focus[d] /\ closed'[d] = closed[d] /\ flagged'[d] = flagged[d]
  <2>1. e # d
    BY <1>1, <1>4 DEF D!Open, DialogsInv, LoopStack
  <2> QED
    BY <1>4, <2>1 DEF D!Open, DialogsInv, DialogTypes
<1> QED
  BY <1>2, <1>3, <1>4 DEF D!Next

-----------------------------------------------------------------------------
(***************************************************************************)
(* The controls (Widgets), for lists of any length, boxes with any number  *)
(* of rows and scroll bars with any divisions.                             *)
(***************************************************************************)
GoodList(l) ==
  /\ l.kind = "list" /\ DOMAIN l = {"kind", "n", "down", "d1", "d2"}
  /\ l.n \in Nat /\ l.d1 \in Int /\ l.d2 \in Int
  /\ l.n > 0 => 0 <= l.d1 /\ l.d1 < l.n /\ l.d2 <= l.d1 /\ l.d1 < l.d2 + Rows

\* While the mouse is down a check box shows what it would become.
GoodCheck(c) ==
  /\ c.kind = "check" /\ DOMAIN c = {"kind", "d1", "ini", "over", "down"}
  /\ c.d1 \in BOOLEAN /\ c.ini \in BOOLEAN /\ c.over \in BOOLEAN /\ c.down \in BOOLEAN
  /\ c.down /\ c.over => c.d1 = ~ c.ini
  /\ ~ c.over => c.d1 = c.ini
GoodToggle(c) ==
  /\ c.kind = "toggle" /\ DOMAIN c = {"kind", "d1", "ini", "over", "down"}
  /\ c.over \in BOOLEAN /\ c.down \in BOOLEAN
  /\ ~ c.down /\ ~ c.over => c.d1 = c.ini
GoodScroll(s) ==
  /\ s.kind = "scroll" /\ DOMAIN s = {"kind", "d1", "at", "down"}
  /\ s.d1 \in Int /\ 0 <= s.d1 /\ s.d1 < Parts
GoodOther(c) ==
  \/ c.kind = "button" /\ DOMAIN c = {"kind", "d1", "over", "down", "closes"}
  \/ c.kind = "menu" /\ DOMAIN c = {"kind", "open", "item", "sel"}
ControlInv == \/ GoodList(ctl) \/ GoodCheck(ctl) \/ GoodToggle(ctl) \/ GoodScroll(ctl)
              \/ GoodOther(ctl)

LEMMA ControlNumbers == Rows \in Nat \ {0} /\ Parts \in Nat \ {0} /\ Step \in Nat \ {0}
                        /\ Lengths \subseteq Nat
BY EditorAssumption DEF W!WidgetsAssumption

LEMMA ControlInvImplies == ControlInv => W!ControlsAgree
BY ControlNumbers DEF ControlInv, GoodList, GoodCheck, GoodToggle, GoodScroll, GoodOther,
   W!ControlsAgree, W!ChoiceShown, W!OnADivision, W!LetGo

LEMMA ControlInvInit == W!Init => ControlInv
<1> SUFFICES ASSUME W!Init PROVE ControlInv
  OBVIOUS
<1>1. CASE \E n \in Lengths : ctl = W!ListOf(n, 0, 0)
  <2>1. PICK n \in Lengths : ctl = W!ListOf(n, 0, 0)
    BY <1>1
  <2>2. GoodList(ctl)
    BY <2>1, ControlNumbers DEF GoodList, W!ListOf, W!Most, W!Least
  <2> QED
    BY <2>2 DEF ControlInv
<1>2. CASE \E on \in BOOLEAN :
             ctl = [kind |-> "check", d1 |-> on, ini |-> on, over |-> FALSE, down |-> FALSE]
  BY <1>2 DEF ControlInv, GoodCheck
<1>3. CASE ctl = [kind |-> "button", d1 |-> FALSE, over |-> FALSE, down |-> FALSE, closes |-> FALSE]
  BY <1>3 DEF ControlInv, GoodOther
<1>4. CASE \E on \in BOOLEAN :
             ctl = [kind |-> "toggle", d1 |-> on, ini |-> on, over |-> FALSE, down |-> FALSE]
  BY <1>4 DEF ControlInv, GoodToggle
<1>5. CASE \E d \in -1 .. Parts :
             ctl = [kind |-> "scroll", d1 |-> W!Within(d), at |-> "handle", down |-> FALSE]
  BY <1>5, ControlNumbers DEF ControlInv, GoodScroll, W!Within, W!Most, W!Least
<1>6. CASE ctl = [kind |-> "menu", open |-> <<Top>>, item |-> 0, sel |-> <<>>]
  BY <1>6 DEF ControlInv, GoodOther
<1> QED
  BY <1>1, <1>2, <1>3, <1>4, <1>5, <1>6, Zenon DEF W!Init

\* Whatever draws or scrolls a list leaves the chosen item among its rows.
LEMMA ListTurns ==
  ASSUME NEW l, GoodList(l), l.d2 >= 0
  PROVE  /\ GoodList(W!HomeOf(l)) /\ GoodList(W!EndOf(l))
         /\ GoodList(W!UpFrom(l)) /\ GoodList(W!DownFrom(l))
         /\ GoodList(W!Below(l)) /\ GoodList(W!Above(l))
         /\ \A r \in 0..(Rows - 1) : GoodList(W!OnRow(l, r))
         /\ \A n \in Lengths : GoodList(W!Refill(l, n))
<1> USE ControlNumbers
<1>1. GoodList(W!HomeOf(l)) /\ GoodList(W!EndOf(l))
  BY DEF GoodList, W!HomeOf, W!EndOf, W!Drawn
<1>2. GoodList(W!UpFrom(l)) /\ GoodList(W!DownFrom(l))
  BY DEF GoodList, W!UpFrom, W!DownFrom, W!Drawn, W!Least
<1>3. GoodList(W!Below(l)) /\ GoodList(W!Above(l))
  BY DEF GoodList, W!Below, W!Above, W!Drawn
<1>4. \A r \in 0..(Rows - 1) : GoodList(W!OnRow(l, r))
  BY DEF GoodList, W!OnRow, W!Drawn
<1>5. \A n \in Lengths : GoodList(W!Refill(l, n))
  BY DEF GoodList, W!Refill
<1> QED
  BY <1>1, <1>2, <1>3, <1>4, <1>5

LEMMA ListDown ==
  ASSUME NEW l, GoodList(l), NEW v
  PROVE  GoodList([l EXCEPT !.down = v])
BY DEF GoodList

LEMMA ControlInvNext == ControlInv /\ [W!Next]_ctl => ControlInv'
<1> SUFFICES ASSUME ControlInv, W!Next PROVE ControlInv'
  BY DEF ControlInv, GoodList, GoodCheck, GoodToggle, GoodScroll, GoodOther
<1>1. CASE GoodList(ctl)
  <2>1. ctl.kind = "list"
    BY <1>1 DEF GoodList
  <2>2. CASE W!ListKey \/ W!ListClick \/ W!ListDrag \/ W!ListFilled
    <3>1. GoodList(ctl')
      BY <1>1, <2>2, ListTurns, ListDown
         DEF W!ListKey, W!ListClick, W!ListDrag, W!ListFilled, W!AList, W!ListTurn
    <3> QED
      BY <3>1 DEF ControlInv
  <2>3. CASE W!Release
    BY <1>1, <2>3, ListDown DEF W!Release, ControlInv
  <2> QED
    BY <2>1, <2>2, <2>3 DEF W!Next, W!CheckClick, W!CheckDrag, W!ButtonClick, W!ButtonDrag,
       W!ButtonRelease, W!ToggleClick, W!ToggleDrag, W!ToggleRelease, W!ScrollClick, W!ScrollDrag,
       W!MenuPoint, W!MenuRelease, W!MenuNoGrab
<1>2. CASE GoodCheck(ctl)
  <2>1. ctl.kind = "check"
    BY <1>2 DEF GoodCheck
  <2>2. CASE W!CheckClick
    <3>1. PICK over \in BOOLEAN :
            ctl' = W!CheckOver([ctl EXCEPT !.down = TRUE, !.ini = ctl.d1, !.over = FALSE], over)
      BY <2>2 DEF W!CheckClick
    <3>2. CASE over
      <4>1. over = TRUE
        BY <3>2, Zenon
      <4>2. ctl' = [ctl EXCEPT !.down = TRUE, !.ini = ctl.d1, !.over = TRUE, !.d1 = ~ ctl.d1]
        BY <1>2, <3>1, <4>1 DEF W!CheckOver, GoodCheck
      <4> QED
        BY <1>2, <4>2 DEF ControlInv, GoodCheck
    <3>3. CASE ~ over
      <4>1. over = FALSE
        BY <3>3, Zenon
      <4>2. ctl' = [ctl EXCEPT !.down = TRUE, !.ini = ctl.d1, !.over = FALSE]
        BY <1>2, <3>1, <4>1 DEF W!CheckOver, GoodCheck
      <4> QED
        BY <1>2, <4>2 DEF ControlInv, GoodCheck
    <3> QED
      BY <3>2, <3>3
  <2>3. CASE W!CheckDrag
    BY <1>2, <2>3 DEF ControlInv, GoodCheck, W!CheckDrag, W!CheckOver
  <2>4. CASE W!Release
    BY <1>2, <2>4 DEF ControlInv, GoodCheck, W!Release
  <2> QED
    BY <2>1, <2>2, <2>3, <2>4 DEF W!Next, W!ListKey, W!ListClick, W!ListDrag, W!ListFilled,
       W!AList, W!ButtonClick, W!ButtonDrag,
       W!ButtonRelease, W!ToggleClick, W!ToggleDrag, W!ToggleRelease, W!ScrollClick, W!ScrollDrag,
       W!MenuPoint, W!MenuRelease, W!MenuNoGrab
<1>3. CASE GoodToggle(ctl)
  <2>1. ctl.kind = "toggle"
    BY <1>3 DEF GoodToggle
  <2>2. CASE W!ToggleClick \/ W!ToggleDrag \/ W!ToggleRelease
    BY <1>3, <2>2 DEF ControlInv, GoodToggle, W!ToggleClick, W!ToggleDrag, W!ToggleRelease
  <2> QED
    BY <2>1, <2>2 DEF W!Next, W!ListKey, W!ListClick, W!ListDrag, W!ListFilled,
       W!AList, W!CheckClick, W!CheckDrag, W!ButtonClick, W!ButtonDrag, W!Release,
       W!ButtonRelease, W!ScrollClick, W!ScrollDrag,
       W!MenuPoint, W!MenuRelease, W!MenuNoGrab
<1>4. CASE GoodScroll(ctl)
  <2>1. ctl.kind = "scroll"
    BY <1>4 DEF GoodScroll
  <2>2. CASE W!ScrollClick \/ W!ScrollDrag
    <3>1. ASSUME NEW at, NEW s \in W!ScrollTurn(ctl, at) PROVE GoodScroll(s)
      BY <1>4, <3>1, ControlNumbers DEF GoodScroll, W!ScrollTurn, W!ScrollLess, W!ScrollMore,
         W!ScrollTo, W!Within, W!Most, W!Least
    <3>2. ASSUME NEW s, GoodScroll(s), NEW at PROVE GoodScroll([s EXCEPT !.down = TRUE, !.at = at])
      BY <3>2 DEF GoodScroll
    <3>3. CASE W!ScrollClick
      <4>0. PICK at \in {"less", "more", "handle"} :
              \E s \in W!ScrollTurn(ctl, at) : ctl' = [s EXCEPT !.down = TRUE, !.at = at]
        BY <3>3, Zenon DEF W!ScrollClick
      <4>1. PICK s \in W!ScrollTurn(ctl, at) : ctl' = [s EXCEPT !.down = TRUE, !.at = at]
        BY <4>0
      <4>2. GoodScroll(s)
        BY <3>1
      <4>3. GoodScroll(ctl')
        BY <3>2, <4>1, <4>2
      <4> QED
        BY <4>3 DEF ControlInv
    <3>4. CASE W!ScrollDrag
      <4>1. GoodScroll(ctl')
        BY <3>1, <3>4 DEF W!ScrollDrag
      <4> QED
        BY <4>1 DEF ControlInv
    <3> QED
      BY <2>2, <3>3, <3>4
  <2>3. CASE W!Release
    BY <1>4, <2>3 DEF ControlInv, GoodScroll, W!Release
  <2> QED
    BY <2>1, <2>2, <2>3 DEF W!Next, W!ListKey, W!ListClick, W!ListDrag, W!ListFilled,
       W!AList, W!CheckClick, W!CheckDrag, W!ButtonClick, W!ButtonDrag,
       W!ButtonRelease, W!ToggleClick, W!ToggleDrag, W!ToggleRelease,
       W!MenuPoint, W!MenuRelease, W!MenuNoGrab
<1>5. CASE GoodOther(ctl)
  <2>1. ctl.kind \in {"button", "menu"}
    BY <1>5 DEF GoodOther
  <2>2. CASE W!ButtonClick \/ W!ButtonDrag \/ W!ButtonRelease
    BY <1>5, <2>2 DEF ControlInv, GoodOther, W!ButtonClick, W!ButtonDrag, W!ButtonRelease
  <2>3. CASE W!MenuPoint \/ W!MenuRelease \/ W!MenuNoGrab
    BY <1>5, <2>3 DEF ControlInv, GoodOther, W!MenuPoint, W!MenuRelease, W!MenuNoGrab
  <2> QED
    BY <2>1, <2>2, <2>3 DEF W!Next, W!ListKey, W!ListClick, W!ListDrag, W!ListFilled,
       W!AList, W!CheckClick, W!CheckDrag, W!Release,
       W!ToggleClick, W!ToggleDrag, W!ToggleRelease, W!ScrollClick, W!ScrollDrag
<1> QED
  BY <1>1, <1>2, <1>3, <1>4, <1>5 DEF ControlInv

-----------------------------------------------------------------------------
(***************************************************************************)
(* The view of the map and the palette (MapView), for tiles, maps and      *)
(* windows of any size.                                                    *)
(***************************************************************************)
ViewInv ==
  /\ map \in Nat \ {0} /\ tiles \in TileSets /\ dlgw \in Nat /\ dlgw <= MaxW
  /\ x \in Int /\ ps \in {1, 2} /\ tool \in {"tiles", "blocks", "objects"}
  /\ pop \in {1, 2, 3}
  /\ DOMAIN bar = {"d1", "d2"} /\ bar.d1 \in Nat /\ bar.d2 \in Int
  /\ start \in [{"tiles", "blocks"} -> Nat]

LEMMA ViewNumbers ==
  /\ Blocks.size \in 1..Disp /\ Blocks.n \in Nat
  /\ \A t \in TileSets : t.size \in 1..Disp /\ t.size % 2 = 0 /\ t.n \in Nat /\ t # V!NoTiles
  /\ MapWs \subseteq Nat \ {0} /\ Deltas \subseteq Int
  /\ MaxW \in Nat /\ MaxW % 2 = 0 /\ Disp \in Nat /\ Shown \in Nat /\ Sprite \in 0..Disp
<1>1. V!MapViewAssumption
  BY EditorAssumption
<1>2. \A t \in TileSets : t.size # V!NoTiles.size => t # V!NoTiles
  OBVIOUS
<1>3. V!NoTiles.size = 0
  BY DEF V!NoTiles
<1> QED
  BY <1>1, <1>2, <1>3 DEF V!MapViewAssumption

LEMMA TimesInt == \A a, b \in Int : a * b \in Int
OBVIOUS

LEMMA Division ==
  ASSUME NEW p \in Nat, NEW s \in Nat \ {0}
  PROVE  /\ p \div s \in Nat /\ s * (p \div s) <= p /\ p < s * (p \div s) + s
OBVIOUS

\* p \div s is at least m exactly when p is at least m times s.
LEMMA DivAtLeast ==
  ASSUME NEW p \in Nat, NEW s \in Nat \ {0}, NEW m \in Nat
  PROVE  (p \div s >= m) <=> (p >= m * s)
OBVIOUS

LEMMA ModSmall == ASSUME NEW m \in Nat, NEW a \in 0..(m - 1) PROVE a % m = a
OBVIOUS

LEMMA EvenTimes ==
  ASSUME NEW a \in Nat, NEW b \in Nat, b % 2 = 0
  PROVE  (a * b) % 2 = 0
<1>1. PICK h \in Nat : b = 2 * h
  BY b \div 2 \in Nat
<1>2. a * b = 2 * (a * h) /\ a * h \in Nat
  BY <1>1
<1>3. \A c \in Nat : (2 * c) % 2 = 0
  OBVIOUS
<1> QED
  BY <1>2, <1>3

LEMMA TimesGrows ==
  ASSUME NEW a \in Int, NEW b \in Int, NEW s \in Nat, a <= b
  PROVE  a * s <= b * s
OBVIOUS

LEMMA ViewInvInit == V!Init => ViewInv
<1> SUFFICES ASSUME V!Init PROVE ViewInv
  OBVIOUS
<1> QED
  BY ViewNumbers DEF V!Init, ViewInv

\* How wide the window shows the map, and what it holds.
Windowed ==
  /\ V!Width \in Nat /\ V!Width <= MaxW \div ps /\ V!Width <= dlgw /\ MaxW \div ps \in Nat
  /\ V!Pixels \in Nat /\ V!Pixels >= tiles.size /\ V!Pixels % 2 = 0 /\ V!Loaded

LEMMA WindowNumbers == ViewInv => Windowed
<1> SUFFICES ASSUME ViewInv PROVE Windowed
  OBVIOUS
<1>1. /\ map \in Nat \ {0} /\ tiles.size \in Nat \ {0} /\ tiles.size % 2 = 0 /\ tiles # V!NoTiles
      /\ MaxW \in Nat /\ dlgw \in Nat /\ dlgw <= MaxW
  BY ViewNumbers DEF ViewInv
<1>2. \A d \in Nat : d \div 1 = d /\ d \div 2 \in Nat /\ d \div 2 <= d
  OBVIOUS
<1>3. \A d, e \in Nat : d <= e => d \div 2 <= e \div 2
  OBVIOUS
<1>4. V!Width \in Nat /\ V!Width <= MaxW \div ps /\ V!Width <= dlgw /\ MaxW \div ps \in Nat
  BY <1>1, <1>2, <1>3 DEF ViewInv, V!Width
<1>5. 1 * tiles.size <= map * tiles.size
  BY <1>1, TimesGrows
<1>6. (map * tiles.size) % 2 = 0
  BY <1>1, EvenTimes
<1> QED
  BY <1>1, <1>4, <1>5, <1>6 DEF Windowed, V!Pixels, V!Loaded

LEMMA LayerFits ==
  ASSUME ViewInv, 0 <= x, NEW s \in 1..Disp
  PROVE  V!LayerInside(s)
<1> DEFINE w == V!Width
           f == x \div s
           h == (w + s - 1) \div s
           c == V!Covering(s)
           n == V!Cells(s)
<1>1. /\ s \in Nat \ {0} /\ s <= Disp /\ x \in Nat /\ map \in Nat /\ Disp \in Nat
      /\ w \in Nat /\ w <= MaxW \div ps /\ MaxW \div ps \in Nat /\ w + s - 1 \in Nat
  BY WindowNumbers, ViewNumbers DEF ViewInv, Windowed
<1>2. f \in Nat /\ s * f <= x /\ x < s * f + s
  BY <1>1, Division
<1>3. h \in Nat /\ s * h <= w + s - 1
  BY <1>1, Division
<1>4. V!FirstCell(s) = f /\ V!FirstPixel(s) = Disp - (x - s * f)
  BY <1>1 DEF V!FirstCell, V!FirstPixel, V!Rem, V!Quot
<1>5. c = IF h * s + (Disp - (x - s * f)) < Disp + w THEN h + 1 ELSE h
  BY <1>4 DEF V!Covering, V!Whole
<1>6. n = IF f + c > map THEN map - f ELSE c
  BY <1>4 DEF V!Cells
<1>7. V!EndPixel(s) = Disp - (x - s * f) + n * s
  BY <1>4 DEF V!EndPixel
<1>8. V!ImageW = Disp + MaxW \div ps + Disp
  BY DEF V!ImageW
<1>9. c \in Nat /\ c * s - (x - s * f) <= w + Disp
  <2> HIDE DEF h, f, w, c
  <2>1. CASE h * s + (Disp - (x - s * f)) < Disp + w
    <3>1. c = h + 1 /\ c * s = h * s + s
      BY <1>1, <1>3, <1>5, <2>1
    <3> QED
      BY <1>1, <1>2, <1>3, <2>1, <3>1
  <2>2. CASE ~ (h * s + (Disp - (x - s * f)) < Disp + w)
    <3>1. c = h /\ h * s = s * h
      BY <1>1, <1>3, <1>5, <2>2
    <3> QED
      BY <1>1, <1>2, <1>3, <3>1
  <2> QED
    BY <2>1, <2>2
<1>10. n \in Int /\ n <= c /\ f + n <= map
  <2> HIDE DEF c, f, n
  <2> QED
    BY <1>1, <1>2, <1>6, <1>9
<1>11. n * s <= c * s
  BY <1>1, <1>9, <1>10, TimesGrows
<1>12. V!EndPixel(s) <= V!ImageW
  <2>1. n * s \in Int /\ c * s \in Int /\ s * f \in Int
    BY <1>1, <1>2, <1>9, <1>10, TimesInt
  <2> HIDE DEF c, f, n, w, h
  <2> QED
    BY <1>1, <1>2, <1>7, <1>8, <1>9, <1>11, <2>1
<1>13. V!FirstPixel(s) >= 0
  <2> HIDE DEF f
  <2> QED
    BY <1>1, <1>2, <1>4
<1> QED
  BY <1>2, <1>4, <1>10, <1>12, <1>13 DEF V!LayerInside

LEMMA ViewInvImplies == ViewInv => V!DrawnInside
<1> SUFFICES ASSUME ViewInv, V!Fitted, V!VisibleAreaInMap PROVE V!DrawnInside
  BY DEF V!DrawnInside
<1>1. 0 <= x /\ x + V!Width <= V!Pixels /\ dlgw = V!Smaller(V!Pixels, MaxW)
  BY WindowNumbers DEF V!VisibleAreaInMap, V!Fitted, Windowed
<1>2. V!LayerInside(tiles.size) /\ V!LayerInside(Blocks.size)
  BY <1>1, LayerFits, ViewNumbers DEF ViewInv
<1>3. \A px \in (- Disp - 1) .. (V!Width + 1) : V!ItemInside(px)
  <2>1. V!ImageW = Disp + MaxW \div ps + Disp /\ Disp \in Nat /\ Sprite \in 0..Disp
    BY ViewNumbers DEF V!ImageW
  <2> QED
    BY <2>1, WindowNumbers DEF V!ItemInside, V!ItemShown, Windowed
<1>4. ASSUME NEW mouse \in 0..(dlgw - 1) PROVE V!CellAt(mouse) \in 0..(map - 1)
  <2>1. dlgw \in Nat /\ dlgw % 2 = 0 /\ V!Pixels \in Nat /\ mouse \in Nat /\ mouse < dlgw
    BY <1>1, WindowNumbers, ViewNumbers DEF V!Smaller, ViewInv, Windowed
  <2>2. \A d, m \in Nat : m < d /\ d % 2 = 0 => m \div 2 \in Nat /\ m \div 2 < d \div 2
    OBVIOUS
  <2>3. \A d \in Nat : d \div 1 = d
    OBVIOUS
  <2>4. mouse \div ps \in Nat /\ mouse \div ps < V!Width
    BY <2>1, <2>2, <2>3 DEF ViewInv, V!Width
  <2>5. V!Quot(mouse, ps) = mouse \div ps
    BY <2>1 DEF V!Quot
  <2>6. PICK q \in Nat : q = mouse \div ps + x
    BY <1>1, <2>4 DEF ViewInv
  <2>7. q < map * tiles.size
    BY <1>1, <2>4, <2>6, WindowNumbers DEF V!Pixels, ViewInv, Windowed
  <2>8. tiles.size \in Nat \ {0} /\ map \in Nat
    BY ViewNumbers DEF ViewInv
  <2>9. q \div tiles.size \in Nat /\ q \div tiles.size < map
    BY <2>7, <2>8, DivAtLeast, Division
  <2> QED
    BY <2>5, <2>6, <2>8, <2>9 DEF V!CellAt, V!Quot
<1> QED
  BY <1>2, <1>3, <1>4 DEF V!DrawnInside

LEMMA ViewInvNext == ViewInv /\ [V!Next]_viewVars => ViewInv'
<1> SUFFICES ASSUME ViewInv, [V!Next]_viewVars PROVE ViewInv'
  OBVIOUS
<1> USE ViewNumbers
<1>1. CASE UNCHANGED viewVars
  BY <1>1 DEF ViewInv, viewVars
<1>2. ASSUME NEW p \in Int, NEW w \in Nat PROVE V!ClipStatePos(p, w) \in Int
  <2>1. V!Pixels \in Nat
    BY WindowNumbers DEF Windowed
  <2> QED
    BY <2>1, <1>2 DEF V!ClipStatePos, V!Clipped, V!ClippedLow
<1>3. \A d \in Nat : d \div 1 = d /\ d \div 2 \in Nat
  OBVIOUS
<1>4. CASE V!Scroll
  <2>1. PICK d \in Deltas \cup {tiles.size, - tiles.size} : x' = V!ClipStatePos(x + d, V!Width)
    BY <1>4 DEF V!Scroll
  <2>2. x + d \in Int
    BY DEF ViewInv
  <2>3. x' \in Int
    BY <1>2, <2>1, <2>2, WindowNumbers DEF Windowed
  <2> QED
    BY <1>4, <2>3 DEF V!Scroll, V!paletteVars, ViewInv
<1>5. CASE V!Double
  <2>1. ps' \in {1, 2} /\ dlgw \div ps' \in Nat
    BY <1>3, <1>5 DEF V!Double, ViewInv
  <2>2. x' \in Int
    BY <1>2, <1>5, <2>1 DEF V!Double, ViewInv
  <2> QED
    BY <1>5, <2>1, <2>2 DEF V!Double, V!paletteVars, ViewInv
<1>6. ASSUME NEW w \in MapWs PROVE V!AdjustMapSize(w) \in Nat /\ V!AdjustMapSize(w) <= MaxW
  <2>1. w * tiles.size \in Nat
    BY DEF ViewInv
  <2> QED
    BY <2>1 DEF V!AdjustMapSize, V!Smaller, ViewInv
<1>7. CASE V!NewMap \/ V!OpenMap \/ V!Resize
  <2>1. /\ map' \in Nat \ {0} /\ dlgw' \in Nat /\ dlgw' <= MaxW /\ x' = 0 /\ tiles' \in TileSets
        /\ tool' \in {"tiles", "blocks", "objects"} /\ UNCHANGED <<ps, pop, bar, start>>
    BY <1>6, <1>7 DEF V!NewMap, V!OpenMap, V!Resize, V!paletteVars, ViewInv
  <2> QED
    BY <2>1 DEF ViewInv
<1>8. CASE V!ReadTiles
  BY <1>8 DEF V!ReadTiles, ViewInv
<1>9. ASSUME NEW d \in Int PROVE V!ImageChange(d) \in [{"tiles", "blocks"} -> Nat]
  BY <1>9 DEF V!ImageChange, V!MaxOf, V!Kind, ViewInv
<1>10. CASE V!BarMoves
  <2>1. PICK d \in 0..(bar.d2 - 1) : bar' = [bar EXCEPT !.d1 = d] /\ start' = V!ImageChange(d)
    BY <1>10 DEF V!BarMoves
  <2>2. start' \in [{"tiles", "blocks"} -> Nat]
    BY <1>9, <2>1
  <2> QED
    BY <1>10, <2>1, <2>2 DEF V!BarMoves, V!viewVars, ViewInv
<1>11. CASE V!PaletteRolls
  <2>1. PICK by \in {-1, 1} : V!Roll(by)
    BY <1>11 DEF V!PaletteRolls
  <2>2. bar.d1 + by \in Nat
    BY <2>1 DEF V!Roll, ViewInv
  <2>3. start' \in [{"tiles", "blocks"} -> Nat]
    BY <1>9, <2>1, <2>2 DEF V!Roll
  <2> QED
    BY <2>1, <2>2, <2>3 DEF V!Roll, V!viewVars, ViewInv
<1>12. CASE V!ToolClick
  <2>1. \A q \in {1, 2, 3} : (q % 3) + 1 \in {1, 2, 3}
    OBVIOUS
  <2>2. pop' \in {1, 2, 3}
    BY <1>12, <2>1 DEF V!ToolClick, ViewInv
  <2>3. tool' \in {"tiles", "blocks", "objects"}
    BY <1>12, <2>2 DEF V!ToolClick, V!Tools
  <2> QED
    BY <1>12, <2>2, <2>3 DEF V!ToolClick, V!viewVars, ViewInv, V!MaxOf, V!Kind
<1> QED
  BY <1>1, <1>4, <1>5, <1>7, <1>8, <1>10, <1>11, <1>12 DEF V!Next

LEMMA ScrollStays ==
  ASSUME ViewInv, NEW p \in Int, NEW w \in Nat, w <= V!Pixels
  PROVE  0 <= V!ClipStatePos(p, w) /\ V!ClipStatePos(p, w) + w <= V!Pixels
<1>1. PICK q \in Nat : q = V!ClippedLow(p)
  BY DEF V!ClippedLow
<1>2. tiles.size \in Nat \ {0} /\ map \in Nat \ {0} /\ q + w \in Nat
  BY ViewNumbers, <1>1 DEF ViewInv
<1>3. V!ClipStatePos(p, w) = V!Clipped(q, w)
  BY <1>1, WindowNumbers DEF V!ClipStatePos, Windowed
<1>4. V!Quot(q + w, tiles.size) = (q + w) \div tiles.size
  BY <1>2 DEF V!Quot
<1>5. (q + w) \div tiles.size \in Nat
      /\ ((q + w) \div tiles.size >= map <=> q + w >= map * tiles.size)
  BY <1>2, DivAtLeast, Division
<1>6. V!Pixels = map * tiles.size /\ V!Pixels \in Nat
  BY WindowNumbers DEF V!Pixels, Windowed
<1> QED
  BY <1>1, <1>2, <1>3, <1>4, <1>5, <1>6 DEF V!Clipped

LEMMA ViewStaysNext == ViewInv /\ [V!Next]_viewVars => V!ViewStaysStep
<1> SUFFICES ASSUME ViewInv, [V!Next]_viewVars, V!Fitted, V!VisibleAreaInMap, V!Fitted',
                    tiles'.size = tiles.size
             PROVE  V!VisibleAreaInMap'
  BY DEF V!ViewStaysStep
<1>1. ViewInv'
  BY ViewInvNext
<1>2. /\ V!Width \in Nat /\ V!Pixels \in Nat /\ V!Loaded /\ 0 <= x /\ x + V!Width <= V!Pixels
      /\ dlgw <= V!Pixels
  BY WindowNumbers, ViewNumbers DEF V!VisibleAreaInMap, V!Fitted, V!Smaller, ViewInv, Windowed
<1>3. V!Width' \in Nat /\ V!Pixels' \in Nat /\ V!Width' <= V!Pixels' /\ x' \in Int /\ ps' \in {1, 2}
  <2>1. Windowed'
    BY <1>1, WindowNumbers, PTL
  <2>2. dlgw' \in Nat /\ x' \in Int /\ ps' \in {1, 2} /\ dlgw' <= V!Pixels'
    BY <1>1, <2>1, ViewNumbers DEF ViewInv, V!Fitted, V!Smaller, Windowed
  <2> QED
    BY <2>1, <2>2 DEF Windowed
<1>4. ASSUME 0 <= x', x' + V!Width' <= V!Pixels' PROVE V!VisibleAreaInMap'
  BY <1>4 DEF V!VisibleAreaInMap
<1>5. CASE UNCHANGED <<x, ps, dlgw, map>>
  <2>1. V!Width' = V!Width /\ V!Pixels' = V!Pixels
    BY <1>5 DEF V!Width, V!Pixels
  <2> QED
    BY <1>2, <1>4, <1>5, <2>1
<1>6. CASE x' = 0
  BY <1>3, <1>4, <1>6
<1>7. CASE V!Scroll
  <2>1. V!Width' = V!Width /\ V!Pixels' = V!Pixels
    BY <1>7 DEF V!Scroll, V!Width, V!Pixels
  <2>2. PICK d \in Deltas \cup {tiles.size, - tiles.size} : x' = V!ClipStatePos(x + d, V!Width)
    BY <1>7 DEF V!Scroll
  <2>3. x + d \in Int /\ V!Width <= V!Pixels
    BY <1>2, ViewNumbers DEF ViewInv
  <2> QED
    BY <1>2, <1>4, <2>1, <2>2, <2>3, ScrollStays
<1>8. CASE V!Double
  <2>1. V!Width' = dlgw \div ps' /\ V!Pixels' = V!Pixels
    BY <1>8 DEF V!Double, V!Width, V!Pixels
  <2>2. x' = V!ClipStatePos(x, V!Width') /\ x \in Int
    BY <1>8, <2>1 DEF V!Double, ViewInv
  <2> QED
    BY <1>2, <1>3, <1>4, <2>1, <2>2, ScrollStays
<1> QED
  BY <1>5, <1>6, <1>7, <1>8 DEF V!Next, viewVars, V!NewMap, V!OpenMap, V!Resize, V!ReadTiles,
     V!BarMoves, V!PaletteRolls, V!Roll, V!ToolClick, V!viewVars

\* Where the palette starts at the place of its bar, a click chooses what is
\* drawn; a bar beyond the tiles is over nothing that could be chosen.
Aligned == tool \in {"tiles", "blocks"} /\ start[tool] = bar.d1
Beyond == bar.d1 > V!MaxOf(tool)

LEMMA AlignedPicks == ViewInv /\ Aligned => V!PicksWhatItShows
<1> SUFFICES ASSUME ViewInv, tool \in {"tiles", "blocks"}, start[tool] = bar.d1
             PROVE  V!PicksWhatItShows
  BY DEF Aligned
<1>1. V!MaxOf(tool) \in Nat
  BY ViewNumbers DEF ViewInv, V!MaxOf
<1>2. ASSUME NEW n \in 0..(Shown - 1), n + bar.d1 \in 0..V!MaxOf(tool)
      PROVE  V!Chosen(n) = V!DrawnAt(n)
  <2>1. PICK at \in Nat : at = n + bar.d1
    BY <1>2
  <2>2. V!Chosen(n) = at
    BY <1>1, <1>2, <2>1 DEF V!Chosen, V!Smaller, V!ClippedLow
  <2>3. CASE at = 0
    BY <2>1, <2>2, <2>3 DEF V!DrawnAt
  <2>4. CASE at > 0
    <3>1. at - 1 \in 0..(V!MaxOf(tool) - 1)
      BY <1>1, <1>2, <2>1, <2>4
    <3>2. (at - 1) % V!MaxOf(tool) = at - 1
      BY <1>1, <3>1, ModSmall
    <3>3. n + start[tool] = at
      BY <2>1
    <3>4. V!DrawnAt(n) = ((n + start[tool] - 1) % V!MaxOf(tool)) + 1
      BY <2>4, <3>3 DEF V!DrawnAt
    <3>5. n + start[tool] - 1 = at - 1
      BY <2>1 DEF ViewInv
    <3> QED
      BY <2>2, <3>2, <3>4, <3>5
  <2> QED
    BY <2>1, <2>3, <2>4
<1> QED
  BY <1>2 DEF V!PicksWhatItShows

LEMMA BeyondPicks == ViewInv /\ Beyond => V!PicksWhatItShows
<1> SUFFICES ASSUME ViewInv, bar.d1 > V!MaxOf(tool) PROVE V!PicksWhatItShows
  BY DEF Beyond
<1>1. V!MaxOf(tool) \in Nat /\ bar.d1 \in Nat /\ Shown \in Nat
  BY ViewNumbers DEF ViewInv, V!MaxOf
<1> QED
  BY <1>1 DEF V!PicksWhatItShows

LEMMA PaletteNext == ViewInv /\ [V!Next]_viewVars => V!PaletteFollowsStep
<1> SUFFICES ASSUME ViewInv, [V!Next]_viewVars, V!PicksWhatItShows,
                    ~ (V!NewMap \/ V!OpenMap \/ V!ReadTiles)
             PROVE  V!PicksWhatItShows'
  BY DEF V!PaletteFollowsStep
<1>1. ViewInv'
  BY ViewInvNext
<1>2. CASE UNCHANGED <<tool, bar, start, tiles>>
  <2>1. (\A n : V!Chosen(n)' = V!Chosen(n)) /\ (\A n : V!DrawnAt(n)' = V!DrawnAt(n))
        /\ V!MaxOf(tool)' = V!MaxOf(tool)
    BY <1>2 DEF V!Chosen, V!DrawnAt, V!MaxOf
  <2> QED
    BY <1>2, <2>1 DEF V!PicksWhatItShows
<1>3. CASE tool' = "objects"
  BY <1>3 DEF V!PicksWhatItShows
<1>4. CASE Aligned'
  BY <1>1, <1>4, AlignedPicks, PTL
<1>5. CASE Beyond'
  BY <1>1, <1>5, BeyondPicks, PTL
<1>6. ASSUME tool' = tool, tiles' = tiles, NEW d \in Nat, bar' = [bar EXCEPT !.d1 = d], start' = V!ImageChange(d)
      PROVE  V!PicksWhatItShows'
  <2>1. bar'.d1 = d
    BY <1>6 DEF ViewInv
  <2>2. V!MaxOf(tool)' = V!MaxOf(tool) /\ V!MaxOf(tool) \in Nat
    BY <1>6, ViewNumbers DEF V!MaxOf, ViewInv
  <2>3. CASE tool # "objects" /\ d <= V!MaxOf(tool)
    <3>1. V!Kind(tool) = tool /\ tool \in {"tiles", "blocks"}
      BY <2>3 DEF V!Kind, ViewInv
    <3>2. start' = [start EXCEPT ![tool] = d]
      BY <1>6, <2>2, <2>3, <3>1 DEF V!ImageChange
    <3>3. start'[tool] = d
      BY <3>1, <3>2 DEF ViewInv
    <3> QED
      BY <1>4, <1>6, <2>1, <3>1, <3>3 DEF Aligned
  <2> QED
    BY <1>3, <1>5, <1>6, <2>1, <2>2, <2>3 DEF Beyond
<1>7. CASE V!BarMoves
  <2>1. PICK d \in 0..(bar.d2 - 1) : bar' = [bar EXCEPT !.d1 = d] /\ start' = V!ImageChange(d)
    BY <1>7 DEF V!BarMoves
  <2>2. tool' = tool /\ tiles' = tiles /\ d \in Nat
    BY <1>7, <2>1 DEF V!BarMoves, V!viewVars
  <2> QED
    BY <1>6, <2>1, <2>2
<1>8. CASE V!PaletteRolls
  <2>1. PICK by \in {-1, 1} : V!Roll(by)
    BY <1>8 DEF V!PaletteRolls
  <2>2. PICK d \in Nat : d = bar.d1 + by
    BY <2>1 DEF V!Roll, ViewInv
  <2>3. tool' = tool /\ tiles' = tiles /\ bar' = [bar EXCEPT !.d1 = d] /\ start' = V!ImageChange(d)
    BY <2>1, <2>2 DEF V!Roll, V!viewVars
  <2> QED
    BY <1>6, <2>2, <2>3
<1>9. CASE V!ToolClick /\ tool' # "objects"
  <2>1. tool' \in {"tiles", "blocks"} /\ V!Kind(tool') = tool'
    BY <1>1, <1>9 DEF ViewInv, V!Kind
  <2>2. bar'.d1 = start[tool']
    BY <1>9, <2>1 DEF V!ToolClick
  <2>3. start'[tool'] = start[tool']
    BY <1>9, <2>1 DEF V!ToolClick, ViewInv
  <2> QED
    BY <1>4, <2>1, <2>2, <2>3 DEF Aligned
<1> QED
  BY <1>2, <1>3, <1>7, <1>8, <1>9 DEF V!Next, viewVars, V!Scroll, V!Double, V!Resize, V!paletteVars

LEMMA ViewFollows == ViewInv /\ [V!Next]_viewVars => V!ViewFollowsStep
BY ViewStaysNext, PaletteNext DEF V!ViewFollowsStep

-----------------------------------------------------------------------------
(***************************************************************************)
(* The text box (EditControl), for any alphabet, length and buffer.        *)
(***************************************************************************)
Text == [E!Bytes -> Chars \cup {Nul}]
Box == [txt : Text, d1 : Nat, d3 : Nat, d4 : Nat, d5 : Nat]
BoxInv == /\ box \in Box
          /\ editDrag = E!NoDrag \/ (editDrag.n \in Nat /\ editDrag.ini \in Nat)
          /\ Len(cut) \in Nat

LEMMA BoxNumbers == /\ Limit \in Nat \ {0} /\ View \in Nat \ {0} /\ Spare \in Nat \ {0}
                    /\ Nul \notin Chars
                    /\ \A t \in BoxTexts : t \in Seq(Chars) /\ Len(t) <= Limit
BY EditorAssumption DEF E!EditAssumption

\* The end of a text: the first Nul from a place on, or the end of the buffer.
LEMMA EndIs ==
  ASSUME NEW t, NEW from \in 0..(Limit + Spare)
  PROVE  /\ E!EndOf(t, from) \in from..(Limit + Spare)
         /\ \A i \in E!Bytes : from <= i /\ i < E!EndOf(t, from) => t[i] # Nul
         /\ E!EndOf(t, from) < Limit + Spare => t[E!EndOf(t, from)] = Nul
<1> DEFINE N == {i \in E!Bytes : i >= from /\ t[i] = Nul} \cup {Limit + Spare}
<1>1. N \in SUBSET Nat /\ N # {}
  BY BoxNumbers DEF E!Bytes
<1>2. E!EndOf(t, from) = CHOOSE m \in N : \A k \in N : m <= k
  BY DEF E!EndOf, E!Min
<1>3. \E m \in N : \A k \in N : m <= k
  <2> HIDE DEF N
  <2> QED
    BY <1>1, LeastNumber
<1>4. E!EndOf(t, from) \in N /\ \A k \in N : E!EndOf(t, from) <= k
  <2> HIDE DEF N
  <2> QED
    BY <1>2, <1>3
<1>5. Limit + Spare \in N
  OBVIOUS
<1>6. E!EndOf(t, from) \in Nat
  BY <1>1, <1>4
<1> QED
  BY <1>4, <1>5, <1>6, BoxNumbers DEF E!Bytes

LEMMA SizeNat == ASSUME NEW t PROVE E!Size(t) \in 0..(Limit + Spare)
BY EndIs, BoxNumbers DEF E!Size

\* The first k bytes of a text are characters exactly when it is that long.
LEMMA LongEnough ==
  ASSUME NEW t, NEW k \in 0..(Limit + Spare)
  PROVE  k <= E!Size(t) <=> \A i \in 0..(k - 1) : t[i] # Nul
<1>1. /\ E!Size(t) \in 0..(Limit + Spare)
      /\ \A i \in E!Bytes : 0 <= i /\ i < E!Size(t) => t[i] # Nul
      /\ E!Size(t) < Limit + Spare => t[E!Size(t)] = Nul
  BY EndIs, BoxNumbers DEF E!Size
<1>2. ASSUME k <= E!Size(t), NEW i \in 0..(k - 1) PROVE t[i] # Nul
  BY <1>1, <1>2, BoxNumbers DEF E!Bytes
<1>3. ASSUME k > E!Size(t) PROVE \E i \in 0..(k - 1) : t[i] = Nul
  BY <1>1, <1>3, BoxNumbers
<1> QED
  BY <1>1, <1>2, <1>3

LEMMA PulledKeeps ==
  ASSUME NEW t \in Text, NEW from \in Nat, NEW to \in Nat
  PROVE  /\ E!Pulled(t, from, to) \in Text
         /\ to <= E!Size(t) => to <= E!Size(E!Pulled(t, from, to))
<1>1. PICK u : u = E!Pulled(t, from, to)
  OBVIOUS
<1>2. u \in Text
  BY <1>1 DEF E!Pulled, Text
<1>3. ASSUME to <= E!Size(t) PROVE to <= E!Size(u)
  <2>1. to \in 0..(Limit + Spare)
    BY <1>3, SizeNat, BoxNumbers
  <2>2. \A i \in 0..(to - 1) : i \in E!Bytes /\ i < to
    BY <2>1, BoxNumbers DEF E!Bytes
  <2>3. \A i \in 0..(to - 1) : u[i] = t[i]
    BY <1>1, <2>2 DEF E!Pulled
  <2>4. \A i \in 0..(to - 1) : t[i] # Nul
    BY <1>3, <2>1, LongEnough
  <2> QED
    BY <2>1, <2>3, <2>4, LongEnough
<1> QED
  BY <1>1, <1>2, <1>3

LEMMA PushedKeeps ==
  ASSUME NEW t \in Text, NEW at \in Nat, NEW num, NEW ch \in Chars
  PROVE  /\ E!Pushed(t, at, num, ch) \in Text
         /\ at <= E!Size(t) /\ at + 1 <= Limit + Spare
              => at + 1 <= E!Size(E!Pushed(t, at, num, ch))
<1>1. PICK u : u = E!Pushed(t, at, num, ch)
  OBVIOUS
<1>2. u \in Text
  BY <1>1, BoxNumbers DEF E!Pushed, Text, E!Bytes
<1>3. ASSUME at <= E!Size(t), at + 1 <= Limit + Spare PROVE at + 1 <= E!Size(u)
  <2>1. at \in 0..(Limit + Spare) /\ at + 1 \in 0..(Limit + Spare)
    BY <1>3, BoxNumbers
  <2>2. \A i \in 0..(at - 1) : t[i] # Nul
    BY <1>3, <2>1, LongEnough
  <2>3. \A i \in 0..((at + 1) - 1) : i \in E!Bytes /\ (i = at \/ (i < at /\ i \in 0..(at - 1)))
    BY <2>1, BoxNumbers DEF E!Bytes
  <2>4. \A i \in 0..((at + 1) - 1) : u[i] = IF i = at THEN ch ELSE t[i]
    BY <1>1, <2>3 DEF E!Pushed
  <2>5. \A i \in 0..((at + 1) - 1) : u[i] # Nul
    BY <2>2, <2>3, <2>4, BoxNumbers
  <2> QED
    BY <2>1, <2>5, LongEnough
<1> QED
  BY <1>1, <1>2, <1>3

\* A box whose cursor is in the text, scrolled and without a selection.
LEMMA Settled ==
  ASSUME NEW b \in Box
  PROVE  /\ E!Scrolled(b) \in Box /\ E!Cancelled(E!Scrolled(b)) \in Box
         /\ E!Scrolled(b).txt = b.txt /\ E!Scrolled(b).d1 = b.d1
         /\ E!Scrolled(b).d4 = b.d4 /\ E!Scrolled(b).d5 = b.d5
         /\ E!Scrolled(b).d3 <= b.d1
         /\ E!Cancelled(E!Scrolled(b)).txt = b.txt
         /\ E!Cancelled(E!Scrolled(b)).d4 = 0 /\ E!Cancelled(E!Scrolled(b)).d5 = 0
         /\ b.d1 <= E!Size(b.txt) => E!Sound(E!Cancelled(E!Scrolled(b)))
<1>1. PICK d \in Nat : d <= b.d1 /\ E!Scrolled(b) = [b EXCEPT !.d3 = d]
  <2> DEFINE d == IF b.d1 < b.d3 THEN b.d1
                  ELSE IF b.d1 - b.d3 > View THEN b.d1 - View ELSE b.d3
  <2>1. d \in Nat /\ d <= b.d1
    BY BoxNumbers DEF Box
  <2> QED
    BY <2>1 DEF E!Scrolled
<1>2. PICK c \in Box : c = [b EXCEPT !.d3 = d]
  BY DEF Box
<1>3. c.txt = b.txt /\ c.d1 = b.d1 /\ c.d3 = d /\ c.d4 = b.d4 /\ c.d5 = b.d5
  BY <1>2 DEF Box
<1>4. PICK a \in Box : a = E!Cancelled(c)
  BY DEF Box, E!Cancelled
<1>5. a.txt = b.txt /\ a.d1 = b.d1 /\ a.d3 = d /\ a.d4 = 0 /\ a.d5 = 0
  BY <1>3, <1>4 DEF Box, E!Cancelled
<1>6. b.d1 <= E!Size(b.txt) => E!Sound(a)
  BY <1>1, <1>5, SizeNat DEF E!Sound
<1> QED
  BY <1>1, <1>2, <1>3, <1>4, <1>5, <1>6

LEMMA SelectionGoes ==
  ASSUME NEW b \in Box
  PROVE  /\ E!DeleteSelection(b) \in Box
         /\ E!Sound(b) => E!DeleteSelection(b).d1 <= E!Size(E!DeleteSelection(b).txt)
         /\ E!Sound(b) => E!DeleteSelection(b).d1 <= E!Size(b.txt)
         /\ ~ E!Selected(b) => E!DeleteSelection(b) = b
<1>1. CASE ~ E!Selected(b)
  BY <1>1 DEF E!DeleteSelection, E!Sound
<1>2. CASE E!Selected(b)
  <2>1. PICK u \in Text : u = E!Pulled(b.txt, b.d5, b.d4)
    BY PulledKeeps DEF Box
  <2>2. PICK c \in Box : c = [b EXCEPT !.txt = u, !.d1 = b.d4, !.d4 = 0, !.d5 = 0]
    BY DEF Box
  <2>3. c.txt = u /\ c.d1 = b.d4 /\ c = E!DeleteSelection(b)
    BY <1>2, <2>1, <2>2 DEF Box, E!DeleteSelection
  <2>4. E!Sound(b) => b.d4 <= E!Size(b.txt)
    BY SizeNat DEF E!Sound, Box
  <2>5. E!Sound(b) => b.d4 <= E!Size(u)
    BY <2>1, <2>4, PulledKeeps DEF Box
  <2> QED
    BY <1>2, <2>3, <2>4, <2>5
<1> QED
  BY <1>1, <1>2

\* A character may be typed where the cursor and the selection are in the text
\* and either nothing is selected or the box is not full; this stays so.
Typable(b) == E!Sound(b) /\ (~ E!Selected(b) \/ E!Size(b.txt) < Limit)

LEMMA TypedKeeps ==
  ASSUME NEW b \in Box, NEW ch \in Chars
  PROVE  E!Typed(b, ch) \in Box /\ (Typable(b) => Typable(E!Typed(b, ch)))
<1>1. PICK c \in Box : c = E!DeleteSelection(b)
  BY SelectionGoes
<1>2. CASE E!Size(b.txt) >= Limit
  <2>1. E!Typed(b, ch) = c
    BY <1>1, <1>2 DEF E!Typed
  <2>2. Typable(b) => c = b
    BY <1>1, <1>2, SelectionGoes, SizeNat, BoxNumbers DEF Typable
  <2> QED
    BY <2>1, <2>2
<1>3. CASE ~ (E!Size(b.txt) >= Limit)
  <2>1. PICK u \in Text : u = E!Pushed(c.txt, c.d1, E!Size(b.txt), ch)
    BY PushedKeeps DEF Box
  <2> PICK k \in Nat : k = c.d1 + 1
    BY DEF Box
  <2>2. PICK e \in Box : e = [c EXCEPT !.txt = u, !.d1 = k]
    BY DEF Box
  <2>3. e.txt = u /\ e.d1 = c.d1 + 1
    BY <2>2 DEF Box
  <2>4. PICK a \in Box : a = E!Cancelled(E!Scrolled(e))
    BY Settled
  <2>5. E!Typed(b, ch) = a
    BY <1>1, <1>3, <2>1, <2>2, <2>4 DEF E!Typed, E!Inserted
  <2>6. ~ E!Selected(a)
    BY <2>4, Settled DEF E!Selected
  <2>7. ASSUME Typable(b) PROVE E!Sound(a)
    <3>1. c.d1 <= E!Size(c.txt) /\ c.d1 <= E!Size(b.txt) /\ c.d1 \in Nat
      BY <1>1, <2>7, SelectionGoes DEF Typable, Box
    <3>2. c.d1 + 1 <= Limit + Spare
      BY <1>3, <3>1, SizeNat, BoxNumbers
    <3>3. c.d1 + 1 <= E!Size(u)
      BY <2>1, <3>1, <3>2, PushedKeeps DEF Box
    <3> QED
      BY <2>3, <2>4, <3>3, Settled
  <2> QED
    BY <2>5, <2>6, <2>7 DEF Typable
<1> QED
  BY <1>2, <1>3

LEMMA PastedKeeps ==
  ASSUME NEW b \in Box, NEW s, Len(s) \in Nat
  PROVE  E!Pasted(b, s) \in Box /\ (Typable(b) => E!Sound(E!Pasted(b, s)))
<1>1. CASE E!Size(b.txt) >= Limit
  <2>1. E!Pasted(b, s) = E!Scrolled(b)
    BY <1>1 DEF E!Pasted
  <2>2. Typable(b) => E!Sound(E!Scrolled(b))
    BY Settled DEF Typable, E!Sound
  <2> QED
    BY <2>1, <2>2, Settled
<1>2. CASE ~ (E!Size(b.txt) >= Limit)
  <2>1. PICK n \in Nat : n = E!Min({Len(s), Limit - E!Size(b.txt)})
    <3>1. Len(s) \in Nat /\ Limit - E!Size(b.txt) \in Nat
      BY <1>2, SizeNat, BoxNumbers
    <3> DEFINE N == {Len(s), Limit - E!Size(b.txt)}
    <3>2. N \in SUBSET Nat /\ N # {}
      BY <3>1
    <3>3. E!Min(N) = CHOOSE m \in N : \A k \in N : m <= k
      BY DEF E!Min
    <3>4. E!Min(N) \in N
      <4> HIDE DEF N
      <4>1. \E m \in N : \A k \in N : m <= k
        BY <3>2, LeastNumber
      <4> QED
        BY <3>3, <4>1
    <3> HIDE DEF N
    <3>5. E!Min(N) \in Nat
      BY <3>2, <3>4
    <3> QED
      BY <3>5 DEF N
  <2> DEFINE Is(h) == h = [k \in 0..n |-> IF k = 0 THEN b ELSE E!Struck(h[k - 1], s[k])]
             g == CHOOSE h : Is(h)
             Key == [k \in (0 + 1)..(0 + n) |-> [c \in Box |-> E!Struck(c, s[k])]]
  <2>2. \A c \in Box : \A ch : E!Struck(c, ch) \in Box /\ (Typable(c) => Typable(E!Struck(c, ch)))
    BY TypedKeeps DEF E!Struck
  <2>3. \E h : Is(h)
    <3>1. Key \in [(0 + 1)..(0 + n) -> [Box -> Box]]
      BY <2>2
    <3>2. \A k \in (0 + 1)..(0 + n) : \A c \in Box : Key[k][c] = E!Struck(c, s[k])
      OBVIOUS
    <3> HIDE DEF Key
    <3>0. PICK h \in RunsOf(Box, b, 0, n, Key) : TRUE
      BY <3>1, RunExists
    <3>3. /\ h \in [0..(0 + n) -> Box]
          /\ \A k \in 0..(0 + n) : h[k] = IF k = 0 THEN b ELSE Key[k][h[k - 1]]
      BY <3>0 DEF RunsOf
    <3>4. ASSUME NEW k \in 0..n PROVE h[k] = IF k = 0 THEN b ELSE E!Struck(h[k - 1], s[k])
      <4>1. k \in 0..(0 + n) /\ (k # 0 => k \in (0 + 1)..(0 + n) /\ k - 1 \in 0..(0 + n))
        OBVIOUS
      <4> QED
        BY <3>2, <3>3, <4>1
    <3>5. h = [k \in 0..n |-> h[k]]
      BY <3>3
    <3>6. Is(h)
      BY <3>4, <3>5
    <3> QED
      BY <3>6
  <2>4. Is(g)
    BY <2>3
  <2>5. E!Pasted(b, s) = E!Scrolled(g[n])
    BY <1>2, <2>1 DEF E!Pasted
  <2> HIDE DEF g
  <2> DEFINE Kept == {k \in Nat : k <= n => g[k] \in Box /\ (Typable(b) => Typable(g[k]))}
  <2>6. 0 \in Kept
    <3>1. g[0] = b
      BY <2>4
    <3> QED
      BY <3>1
  <2>7. ASSUME NEW k \in Nat, k \in Kept PROVE k + 1 \in Kept
    <3> SUFFICES ASSUME k + 1 <= n
                 PROVE  g[k + 1] \in Box /\ (Typable(b) => Typable(g[k + 1]))
      OBVIOUS
    <3>1. k + 1 \in 0..n /\ k + 1 # 0 /\ k + 1 - 1 = k /\ k <= n
      OBVIOUS
    <3>2. g[k + 1] = E!Struck(g[k], s[k + 1])
      BY <2>4, <3>1
    <3> QED
      BY <2>2, <2>7, <3>1, <3>2
  <2>8. n \in Kept
    <3> HIDE DEF Kept
    <3> QED
      BY <2>6, <2>7, SetInduction
  <2>9. g[n] \in Box /\ (Typable(b) => E!Sound(g[n]))
    BY <2>8 DEF Typable
  <2>10. E!Sound(g[n]) => E!Sound(E!Scrolled(g[n]))
    BY <2>9, Settled DEF E!Sound
  <2> QED
    BY <2>5, <2>9, <2>10, Settled
<1> QED
  BY <1>1, <1>2

LEMMA BoxInvInit == E!Init => BoxInv
<1> SUFFICES ASSUME E!Init PROVE BoxInv
  OBVIOUS
<1>1. PICK s \in BoxTexts :
        box = [txt |-> E!String(s), d1 |-> Len(s), d3 |-> 0, d4 |-> 0, d5 |-> 0]
  BY DEF E!Init
<1>2. s \in Seq(Chars) /\ Len(s) \in Nat
  BY BoxNumbers, LenProperties
<1>3. E!String(s) \in Text
  <2>1. \A i \in E!Bytes : i < Len(s) => s[i + 1] \in Chars
    <3> SUFFICES ASSUME NEW i \in E!Bytes, i < Len(s) PROVE s[i + 1] \in Chars
      OBVIOUS
    <3>1. i + 1 \in 1..Len(s)
      BY <1>2, BoxNumbers DEF E!Bytes
    <3> QED
      BY <1>2, <3>1, ElementOfSeq
  <2> QED
    BY <2>1 DEF E!String, Text
<1>4. Len(<<>>) = 0
  OBVIOUS
<1> QED
  BY <1>1, <1>2, <1>3, <1>4 DEF E!Init, BoxInv, Box

LEMMA BoxInvNext == BoxInv /\ [E!Next]_editVars => BoxInv'
<1> SUFFICES ASSUME BoxInv, [E!Next]_editVars PROVE BoxInv'
  OBVIOUS
<1>1. box \in Box /\ box.d1 \in Nat /\ box.d3 \in Nat /\ box.d4 \in Nat /\ box.d5 \in Nat
      /\ box.txt \in Text
  BY DEF BoxInv, Box
<1>2. CASE UNCHANGED editVars
  BY <1>2 DEF BoxInv, editVars
<1>3. ASSUME box' \in Box, UNCHANGED <<editDrag, cut>> PROVE BoxInv'
  BY <1>3 DEF BoxInv
<1>4. ASSUME NEW ch \in Chars, E!TypeKey(ch) PROVE BoxInv'
  BY <1>1, <1>3, <1>4, TypedKeeps DEF E!TypeKey
<1>5. CASE E!PasteKey
  BY <1>1, <1>3, <1>5, PastedKeeps DEF E!PasteKey, BoxInv
<1>6. CASE E!CopyKey
  <2>1. box' \in Box /\ editDrag' = editDrag
    BY <1>1, <1>6, Settled DEF E!CopyKey
  <2>2. CASE E!Selected(box)
    <3> DEFINE S == {box.txt[i] : i \in Int}
    <3>1. PICK n \in Nat : n = box.d5 - box.d4
      BY <1>1, <2>2 DEF E!Selected
    <3>2. cut' = [i \in 1..n |-> box.txt[box.d4 + i - 1]]
      BY <1>6, <2>2, <3>1 DEF E!CopyKey
    <3>3. \A i \in 1..n : box.d4 + i - 1 \in Int
      BY <1>1
    <3>4. cut' \in [1..n -> S]
      BY <3>2, <3>3
    <3> HIDE DEF S
    <3>5. cut' \in Seq(S)
      BY <3>4
    <3>6. Len(cut') \in Nat
      BY <3>5, LenProperties
    <3> QED
      BY <2>1, <3>6 DEF BoxInv
  <2>3. CASE ~ E!Selected(box)
    BY <1>3, <1>6, <2>1, <2>3 DEF E!CopyKey
  <2> QED
    BY <2>2, <2>3
<1>7. ASSUME NEW p \in Nat PROVE E!Moved(box, p) \in Box
  <2>1. PICK b \in Box : b = [box EXCEPT !.d1 = p]
    BY <1>1 DEF Box
  <2> QED
    BY <2>1, Settled DEF E!Moved
<1>8. CASE E!CursorKey
  <2>1. \A p \in E!CursorTo(box) : p \in Nat
    BY <1>1, SizeNat DEF E!CursorTo
  <2> QED
    BY <1>3, <1>7, <1>8, <2>1 DEF E!CursorKey
<1>9. CASE E!BackSpaceKey \/ E!DeleteKey
  <2>1. \A b \in Box : E!Cancelled(E!Scrolled(b)) \in Box
    BY Settled
  <2>2. E!DeleteSelection(box) \in Box
    BY <1>1, SelectionGoes
  <2>3. ASSUME NEW from \in Nat, NEW to \in Nat
        PROVE  /\ [box EXCEPT !.txt = E!Pulled(box.txt, from, to), !.d1 = to] \in Box
               /\ [box EXCEPT !.txt = E!Pulled(box.txt, from, to)] \in Box
               /\ [box EXCEPT !.d1 = to] \in Box
    <3> PICK u \in Text : u = E!Pulled(box.txt, from, to)
      BY <1>1, PulledKeeps
    <3> QED
      BY <1>1 DEF Box
  <2>4. box.d1 # 0 => box.d1 - 1 \in Nat
    BY <1>1
  <2>5. box.d1 + 1 \in Nat
    BY <1>1
  <2>6. E!Rubbed(box) \in Box
    BY <1>1, <2>1, <2>2, <2>3, <2>4 DEF E!Rubbed
  <2>7. E!Deleted(box) \in Box
    BY <1>1, <2>1, <2>2, <2>3, <2>5 DEF E!Deleted
  <2> QED
    BY <1>3, <1>9, <2>6, <2>7 DEF E!BackSpaceKey, E!DeleteKey
<1>10. CASE E!Click
  <2>1. PICK p \in E!Clicked(box) :
          /\ box' = [box EXCEPT !.d1 = p, !.d4 = 0, !.d5 = 0]
          /\ editDrag' = [n |-> E!Size(box.txt), ini |-> p]
          /\ UNCHANGED cut
    BY <1>10 DEF E!Click
  <2>2. p \in Nat /\ E!Size(box.txt) \in Nat
    BY <1>1, SizeNat DEF E!Clicked
  <2>3. box' \in Box
    BY <1>1, <2>1, <2>2 DEF Box
  <2> QED
    BY <2>1, <2>2, <2>3 DEF BoxInv
<1>11. CASE E!Drag
  <2>1. PICK p \in E!DragTo(box, editDrag.n) : box' = E!Stretched(box, editDrag.ini, p)
    BY <1>11 DEF E!Drag
  <2>2. editDrag.n \in Nat /\ editDrag.ini \in Nat
    BY <1>11 DEF E!Drag, BoxInv
  <2>3. p \in Nat
    BY <1>1, <2>1, <2>2 DEF E!DragTo, E!FirstShown
  <2>4. PICK m \in Nat : m = E!Min({p, editDrag.ini}) /\ p + editDrag.ini - m \in Nat
    <3>1. \E m \in {p, editDrag.ini} : \A k \in {p, editDrag.ini} : m <= k
      BY <2>2, <2>3
    <3>2. E!Min({p, editDrag.ini}) \in {p, editDrag.ini}
      BY <3>1 DEF E!Min
    <3> QED
      BY <2>2, <2>3, <3>2
  <2>5. PICK q \in Nat : q = p + editDrag.ini - m
    BY <2>4
  <2>6. PICK b \in Box : b = [box EXCEPT !.d1 = p, !.d4 = m, !.d5 = q]
    BY <1>1, <2>3 DEF Box
  <2>7. box' = E!Scrolled(b)
    BY <2>1, <2>4, <2>5, <2>6 DEF E!Stretched
  <2> QED
    BY <1>3, <1>11, <2>7, Settled DEF E!Drag
<1>12. CASE E!Release
  BY <1>1, <1>12 DEF E!Release, BoxInv
<1>13. CASE E!Filter
  <2>1. PICK s \in BoxTexts : box' = [box EXCEPT !.txt = E!Overwritten(box.txt, s), !.d1 = Len(s)]
    BY <1>13 DEF E!Filter
  <2>2. s \in Seq(Chars) /\ Len(s) \in Nat
    BY BoxNumbers, LenProperties
  <2>3. PICK u \in Text : u = E!Overwritten(box.txt, s)
    <3>1. \A i \in E!Bytes : i < Len(s) => s[i + 1] \in Chars
      <4> SUFFICES ASSUME NEW i \in E!Bytes, i < Len(s) PROVE s[i + 1] \in Chars
        OBVIOUS
      <4>1. i + 1 \in 1..Len(s)
        BY <2>2, BoxNumbers DEF E!Bytes
      <4> QED
        BY <2>2, <4>1, ElementOfSeq
    <3>2. E!Overwritten(box.txt, s) \in Text
      BY <1>1, <3>1 DEF E!Overwritten, Text
    <3> QED
      BY <3>2
  <2>4. box' \in Box
    BY <1>1, <2>1, <2>2, <2>3 DEF Box
  <2> QED
    BY <1>3, <1>13, <2>4 DEF E!Filter
<1> QED
  BY <1>2, <1>4, <1>5, <1>6, <1>8, <1>9, <1>10, <1>11, <1>12, <1>13 DEF E!Next

LEMMA BoxStays == BoxInv /\ [E!Next]_editVars => E!StaysSoundStep
<1> SUFFICES ASSUME BoxInv, [E!Next]_editVars, E!Sound(box), ~ E!Exposed PROVE E!Sound(box')
  BY DEF E!StaysSoundStep
<1>1. /\ box \in Box /\ box.d1 \in Nat /\ box.d3 \in Nat /\ box.d4 \in Nat /\ box.d5 \in Nat
      /\ box.txt \in Text
  BY DEF BoxInv, Box
<1>2. editDrag = E!NoDrag /\ Typable(box) /\ ~ E!Filter
  BY <1>1, SizeNat, BoxNumbers DEF E!Exposed, Typable
<1>3. box.d1 <= E!Size(box.txt) /\ box.d3 <= box.d1 /\ E!Size(box.txt) \in Nat
      /\ box.d4 <= box.d5 /\ box.d5 <= E!Size(box.txt)
  BY SizeNat DEF E!Sound
<1>4. CASE UNCHANGED editVars
  BY <1>4 DEF editVars
<1>5. ASSUME NEW ch \in Chars, E!TypeKey(ch) PROVE E!Sound(box')
  BY <1>1, <1>2, <1>5, TypedKeeps DEF E!TypeKey, Typable
<1>6. CASE E!PasteKey
  BY <1>1, <1>2, <1>6, PastedKeeps DEF E!PasteKey, BoxInv
<1>7. CASE E!CopyKey
  BY <1>1, <1>3, <1>7, Settled DEF E!CopyKey, E!Sound
<1>8. ASSUME NEW b \in Box, b.d1 <= E!Size(b.txt) PROVE E!Sound(E!Cancelled(E!Scrolled(b)))
  BY <1>8, Settled
<1>9. CASE E!CursorKey
  <2>1. PICK p \in E!CursorTo(box) : box' = E!Moved(box, p)
    BY <1>9 DEF E!CursorKey
  <2>2. p \in Nat /\ p <= E!Size(box.txt)
    BY <1>1, <1>3 DEF E!CursorTo
  <2>3. PICK b \in Box : b = [box EXCEPT !.d1 = p]
    BY <1>1, <2>2 DEF Box
  <2>4. b.d1 = p /\ b.txt = box.txt
    BY <1>1, <2>3 DEF Box
  <2> QED
    BY <1>8, <2>1, <2>2, <2>3, <2>4 DEF E!Moved
<1>10. CASE E!BackSpaceKey \/ E!DeleteKey
  <2>1. CASE E!Selected(box)
    <3>1. PICK b \in Box : b = E!DeleteSelection(box) /\ b.d1 <= E!Size(b.txt)
      BY <1>1, SelectionGoes
    <3>2. box' = E!Cancelled(E!Scrolled(b))
      BY <1>10, <2>1, <3>1 DEF E!BackSpaceKey, E!DeleteKey, E!Rubbed, E!Deleted
    <3> QED
      BY <1>8, <3>1, <3>2
  \* a character goes, and the cursor is where it was
  <2>2. ASSUME NEW to \in Nat, NEW from \in Nat, to <= E!Size(box.txt)
        PROVE  E!Sound(E!Cancelled(E!Scrolled(
                         [box EXCEPT !.txt = E!Pulled(box.txt, from, to), !.d1 = to])))
    <3>1. PICK u \in Text : u = E!Pulled(box.txt, from, to) /\ to <= E!Size(u)
      BY <1>1, <2>2, PulledKeeps
    <3>2. PICK b \in Box : b = [box EXCEPT !.txt = u, !.d1 = to]
      BY <1>1 DEF Box
    <3>3. b.d1 <= E!Size(b.txt)
      BY <1>1, <3>1, <3>2 DEF Box
    <3> QED
      BY <1>8, <3>1, <3>2, <3>3
  <2>3. CASE ~ E!Selected(box) /\ E!BackSpaceKey
    <3>1. CASE box.d1 = 0
      <4>1. box' = E!Cancelled(E!Scrolled(box))
        BY <2>3, <3>1 DEF E!BackSpaceKey, E!Rubbed
      <4> QED
        BY <1>1, <1>3, <1>8, <4>1
    <3>2. CASE box.d1 # 0
      <4>1. PICK k \in Nat : k = box.d1 - 1 /\ k <= E!Size(box.txt)
        BY <1>1, <1>3, <3>2
      <4>2. CASE box.txt[box.d1 - 1] = Nul
        <5>1. PICK b \in Box : b = [box EXCEPT !.d1 = k]
          BY <1>1 DEF Box
        <5>2. box' = E!Cancelled(E!Scrolled(b))
          BY <2>3, <3>2, <4>1, <4>2, <5>1 DEF E!BackSpaceKey, E!Rubbed
        <5>3. b.d1 <= E!Size(b.txt)
          BY <1>1, <4>1, <5>1 DEF Box
        <5> QED
          BY <1>8, <5>2, <5>3
      <4>3. CASE box.txt[box.d1 - 1] # Nul
        <5>1. box' = E!Cancelled(E!Scrolled(
                       [box EXCEPT !.txt = E!Pulled(box.txt, box.d1, k), !.d1 = k]))
          BY <2>3, <3>2, <4>1, <4>3 DEF E!BackSpaceKey, E!Rubbed
        <5> QED
          BY <1>1, <2>2, <4>1, <5>1
      <4> QED
        BY <4>2, <4>3
    <3> QED
      BY <3>1, <3>2
  <2>4. CASE ~ E!Selected(box) /\ E!DeleteKey
    <3>1. CASE box.txt[box.d1] = Nul
      <4>1. box' = E!Cancelled(E!Scrolled(box))
        BY <2>4, <3>1 DEF E!DeleteKey, E!Deleted
      <4> QED
        BY <1>1, <1>3, <1>8, <4>1
    <3>2. CASE box.txt[box.d1] # Nul
      <4>1. PICK u \in Text : u = E!Pulled(box.txt, box.d1 + 1, box.d1) /\ box.d1 <= E!Size(u)
        <5>1. box.d1 + 1 \in Nat
          BY <1>1
        <5> QED
          BY <1>1, <1>3, <5>1, PulledKeeps
      <4>2. PICK b \in Box : b = [box EXCEPT !.txt = u]
        BY <1>1 DEF Box
      <4>3. b.d1 <= E!Size(b.txt)
        BY <1>1, <4>1, <4>2 DEF Box
      <4>4. box' = E!Cancelled(E!Scrolled(b))
        BY <2>4, <3>2, <4>1, <4>2 DEF E!DeleteKey, E!Deleted
      <4> QED
        BY <1>8, <4>3, <4>4
    <3> QED
      BY <3>1, <3>2
  <2> QED
    BY <1>10, <2>1, <2>3, <2>4
<1>11. CASE E!Click
  <2>1. PICK p \in E!Clicked(box) : box' = [box EXCEPT !.d1 = p, !.d4 = 0, !.d5 = 0]
    BY <1>11 DEF E!Click
  <2>2. p \in Nat /\ box.d3 <= p /\ p <= E!Size(box.txt)
    BY <1>1, <1>3, <2>1 DEF E!Clicked
  <2>3. box'.d1 = p /\ box'.d3 = box.d3 /\ box'.d4 = 0 /\ box'.d5 = 0 /\ box'.txt = box.txt
    BY <1>1, <2>1 DEF Box
  <2> QED
    BY <1>3, <2>2, <2>3 DEF E!Sound
<1>12. CASE E!Drag \/ E!Release
  BY <1>2, <1>12 DEF E!Drag, E!Release
<1> QED
  BY <1>2, <1>4, <1>5, <1>6, <1>7, <1>9, <1>10, <1>11, <1>12 DEF E!Next

-----------------------------------------------------------------------------
(***************************************************************************)
(* The map editor (MapEdit), for maps of any width, any tiles and an undo  *)
(* ring of any size.                                                       *)
(***************************************************************************)
Grid == UNION {[0..(w - 1) -> [T!Layers -> Int]] : w \in Nat \ {0}}
Snap == Grid \cup {T!Unknown}
Rec == [x : Int, layer : T!Layers, tile : Int]

\* The place i places after place o of the ring.
PlaceAfter(o, i) == IF o + i < MaxUndo THEN o + i ELSE o + i - MaxUndo

\* Change i is taken back in the tiles of NextOf, by the record of its place.
NextOf(c, p, i) == IF i = Len(p) THEN c ELSE p[i + 1]
Taken(c, r) == T!SetCell(c, r.x, r.layer, r.tile)
BackFrom(next, r, before) ==
  before # T!Unknown => next # T!Unknown /\ Taken(next, r) = before

Ring(c, u, o, q, p) ==
  /\ q = PlaceAfter(o, Len(p))
  /\ \A i \in 1..Len(p) : u[PlaceAfter(o, i - 1)].x \in DOMAIN c
  /\ \A i \in 1..Len(p) : BackFrom(NextOf(c, p, i), u[PlaceAfter(o, i - 1)], p[i])

TileTypes ==
  /\ cell \in Grid /\ undo \in [0..(MaxUndo - 1) -> Rec]
  /\ pos \in 0..(MaxUndo - 1) /\ oldest \in 0..(MaxUndo - 1)
  /\ past \in Seq(Snap) /\ Len(past) < MaxUndo

MapObject == [id : Nat, target : Int]
ObjectsInv ==
  /\ objs \in Seq(MapObject) /\ made \in Nat
  /\ \A i \in 1..Len(objs) : objs[i].id \in 1..made
  /\ \A i, j \in 1..Len(objs) : objs[i].id = objs[j].id => i = j
  /\ chosen \in T!Picked

MapInv == TileTypes /\ Ring(cell, undo, oldest, pos, past) /\ ObjectsInv

LEMMA MapNumbers == MaxUndo \in Nat /\ MaxUndo > 1 /\ Tiles \subseteq Nat /\ Widths \subseteq Nat \ {0}
BY EditorAssumption DEF T!MapEditAssumption

LEMMA ModPlace ==
  ASSUME NEW m \in Nat, NEW a \in 0..(m - 1), NEW b \in 0..(m - 1)
  PROVE  /\ (a - b) % m = IF a >= b THEN a - b ELSE a - b + m
         /\ (a + 1) % m = IF a + 1 < m THEN a + 1 ELSE 0
<1>1. \A c \in 0..(m - 1) : c % m = c
  OBVIOUS
<1>2. m > 0 /\ m % m = 0
  OBVIOUS
<1>3. CASE a >= b
  BY <1>1, <1>3, a - b \in 0..(m - 1)
<1>4. CASE a < b
  <2>1. PICK d \in 1..(m - 1) : d = b - a
    BY <1>4
  <2>2. (-d) % m = m - d
    BY <2>1
  <2>3. a - b = -d
    BY <2>1
  <2> QED
    BY <1>4, <2>1, <2>2, <2>3
<1>5. (a + 1) % m = IF a + 1 < m THEN a + 1 ELSE 0
  BY <1>1, <1>2
<1> QED
  BY <1>3, <1>4, <1>5

LEMMA GridIs ==
  ASSUME NEW c \in Grid
  PROVE  /\ \E w \in Nat \ {0} : c \in [0..(w - 1) -> [T!Layers -> Int]]
         /\ c # T!Unknown
<1>1. PICK w \in Nat \ {0} : c \in [0..(w - 1) -> [T!Layers -> Int]]
  BY DEF Grid
<1>2. 0 \in DOMAIN c
  BY <1>1
<1>3. 0 \notin DOMAIN T!Unknown
  BY DEF T!Unknown
<1> QED
  BY <1>1, <1>2, <1>3

SameColumns(d, c) == DOMAIN d = DOMAIN c

LEMMA CellSet ==
  ASSUME NEW c \in Grid, NEW x1, NEW l \in T!Layers, NEW t \in Int
  PROVE  /\ T!SetCell(c, x1, l, t) \in Grid
         /\ SameColumns(T!SetCell(c, x1, l, t), c)
         /\ x1 \in DOMAIN c => T!SetCell(T!SetCell(c, x1, l, t), x1, l, c[x1][l]) = c
<1>1. PICK w \in Nat \ {0} : c \in [0..(w - 1) -> [T!Layers -> Int]]
  BY GridIs
<1>2. PICK d : d = T!SetCell(c, x1, l, t)
  OBVIOUS
<1>3. d \in [0..(w - 1) -> [T!Layers -> Int]]
  BY <1>1, <1>2 DEF T!SetCell
<1>4. ASSUME x1 \in DOMAIN c PROVE T!SetCell(d, x1, l, c[x1][l]) = c
  <2>1. PICK e : e = T!SetCell(d, x1, l, c[x1][l])
    OBVIOUS
  <2>2. e \in [0..(w - 1) -> [T!Layers -> Int]]
    BY <1>1, <1>3, <1>4, <2>1 DEF T!SetCell
  <2>3. ASSUME NEW y \in 0..(w - 1) PROVE e[y] = c[y]
    <3>1. CASE y # x1
      BY <1>1, <1>2, <1>3, <2>1, <3>1 DEF T!SetCell
    <3>2. CASE y = x1
      <4>1. d[x1] = [c[x1] EXCEPT ![l] = t] /\ e[x1] = [d[x1] EXCEPT ![l] = c[x1][l]]
        BY <1>1, <1>2, <1>3, <1>4, <2>1 DEF T!SetCell
      <4>2. c[x1] \in [T!Layers -> Int] /\ e[x1] \in [T!Layers -> Int]
        BY <1>1, <1>4, <2>2
      <4>3. \A k \in T!Layers : e[x1][k] = c[x1][k]
        BY <4>1, <4>2
      <4> QED
        BY <3>2, <4>2, <4>3
    <3> QED
      BY <3>1, <3>2
  <2> QED
    BY <1>1, <2>1, <2>2, <2>3
<1>5. SameColumns(d, c)
  BY <1>1, <1>3 DEF SameColumns
<1> QED
  BY <1>1, <1>2, <1>3, <1>4, <1>5 DEF Grid

LEMMA PlacesDiffer ==
  ASSUME NEW o \in 0..(MaxUndo - 1)
  PROVE  /\ \A i \in 0..MaxUndo : PlaceAfter(o, i) \in 0..(MaxUndo - 1)
         /\ \A i, j \in 0..(MaxUndo - 1) : PlaceAfter(o, i) = PlaceAfter(o, j) => i = j
         /\ PlaceAfter(o, 0) = o /\ PlaceAfter(o, MaxUndo) = o
         /\ \A i \in 0..(MaxUndo - 1) :
              (PlaceAfter(o, i) + 1) % MaxUndo = PlaceAfter(o, i + 1)
              /\ (PlaceAfter(o, i) - o) % MaxUndo = i
              /\ PlaceAfter(PlaceAfter(o, 1), i) = PlaceAfter(o, i + 1)
<1>1. \A i \in 0..(MaxUndo - 1) : PlaceAfter(o, i) \in 0..(MaxUndo - 1)
  BY MapNumbers DEF PlaceAfter
<1>2. ASSUME NEW i \in 0..(MaxUndo - 1)
      PROVE  /\ (PlaceAfter(o, i) + 1) % MaxUndo = PlaceAfter(o, i + 1)
             /\ (PlaceAfter(o, i) - o) % MaxUndo = i
             /\ PlaceAfter(PlaceAfter(o, 1), i) = PlaceAfter(o, i + 1)
  <2>1. PICK k \in 0..(MaxUndo - 1) : k = PlaceAfter(o, i)
    BY <1>1
  <2>2. /\ (k - o) % MaxUndo = IF k >= o THEN k - o ELSE k - o + MaxUndo
        /\ (k + 1) % MaxUndo = IF k + 1 < MaxUndo THEN k + 1 ELSE 0
    BY ModPlace, MapNumbers
  <2>3. k = IF o + i < MaxUndo THEN o + i ELSE o + i - MaxUndo
    BY <2>1 DEF PlaceAfter
  <2>4. PlaceAfter(o, i + 1) = IF o + i + 1 < MaxUndo THEN o + i + 1 ELSE o + i + 1 - MaxUndo
    BY MapNumbers DEF PlaceAfter
  <2>5. PlaceAfter(PlaceAfter(o, 1), i) = PlaceAfter(o, i + 1)
    BY MapNumbers DEF PlaceAfter
  <2> QED
    BY <2>1, <2>2, <2>3, <2>4, <2>5, MapNumbers
<1> QED
  BY <1>1, <1>2, MapNumbers DEF PlaceAfter

LEMMA LastOf ==
  ASSUME NEW S, NEW p \in Seq(S), NEW e \in S
  PROVE  /\ Append(p, e) \in Seq(S) /\ Len(Append(p, e)) = Len(p) + 1
         /\ \A i \in 1..(Len(p) + 1) : Append(p, e)[i] = IF i = Len(p) + 1 THEN e ELSE p[i]
<1>1. /\ Append(p, e) \in Seq(S) /\ Len(Append(p, e)) = Len(p) + 1
      /\ \A i \in 1..Len(p) : Append(p, e)[i] = p[i]
      /\ Append(p, e)[Len(p) + 1] = e
  BY AppendProperties
<1>2. Len(p) \in Nat
  BY LenProperties
<1> QED
  BY <1>1, <1>2

LEMMA TailOf ==
  ASSUME NEW S, NEW a \in Seq(S), NEW n \in Nat, Len(a) = n + 1
  PROVE  Tail(a) \in Seq(S) /\ Len(Tail(a)) = n /\ \A i \in 1..n : Tail(a)[i] = a[i + 1]
<1>1. a # <<>>
  BY EmptySeq
<1> QED
  BY <1>1, HeadTailProperties

RingOf(c, u, o, q, p) ==
  /\ c \in Grid /\ u \in [0..(MaxUndo - 1) -> Rec]
  /\ o \in 0..(MaxUndo - 1) /\ q \in 0..(MaxUndo - 1)
  /\ p \in Seq(Snap) /\ Len(p) < MaxUndo
  /\ Ring(c, u, o, q, p)

\* A change puts one more record into the ring, or takes the oldest one out.
Recorded(c, x1, l, t, r) ==
  /\ x1 \in DOMAIN c /\ l \in T!Layers /\ t \in Int
  /\ r \in Rec /\ r.x = x1 /\ r.layer = l /\ r.tile = c[x1][l]
RecordedIn(c, u, o, q, p, x1, l, t, r, c2, u2, o2, q2, p2) ==
  /\ c2 = T!SetCell(c, x1, l, t)
  /\ u2 = [u EXCEPT ![q] = r]
  /\ q2 = (q + 1) % MaxUndo
  /\ o2 = IF (q + 1) % MaxUndo = o THEN (o + 1) % MaxUndo ELSE o
  /\ p2 = T!Latest(Append(p, c))

\* A place before the last.
LEMMA EarlierPlace ==
  ASSUME NEW m \in Nat, NEW n \in Nat, n < m, NEW i \in 1..(n + 1), i # n + 1
  PROVE  i \in 1..n /\ i - 1 # n /\ i - 1 \in 0..(m - 1)
OBVIOUS

LEMMA RingPut ==
  ASSUME NEW c, NEW u, NEW o, NEW q, NEW p, NEW c2, NEW u2, NEW o2, NEW q2, NEW p2,
         NEW x1, NEW l, NEW t, NEW r, RingOf(c, u, o, q, p), Recorded(c, x1, l, t, r),
         RecordedIn(c, u, o, q, p, x1, l, t, r, c2, u2, o2, q2, p2)
  PROVE  RingOf(c2, u2, o2, q2, p2)
<1> SUFFICES ASSUME c \in Grid, u \in [0..(MaxUndo - 1) -> Rec],
                    o \in 0..(MaxUndo - 1), q \in 0..(MaxUndo - 1),
                    p \in Seq(Snap), Len(p) < MaxUndo, Ring(c, u, o, q, p),
                    x1 \in DOMAIN c, l \in T!Layers, t \in Int,
                    r \in Rec, r.x = x1, r.layer = l, r.tile = c[x1][l],
                    c2 = T!SetCell(c, x1, l, t), u2 = [u EXCEPT ![q] = r],
                    q2 = (q + 1) % MaxUndo,
                    o2 = IF (q + 1) % MaxUndo = o THEN (o + 1) % MaxUndo ELSE o,
                    p2 = T!Latest(Append(p, c))
             PROVE  RingOf(c2, u2, o2, q2, p2)
  BY DEF RingOf, Recorded, RecordedIn
<1>1. PICK n \in 0..(MaxUndo - 1) : n = Len(p)
  BY LenProperties, MapNumbers
<1>2. PICK a : a = Append(p, c)
  OBVIOUS
<1>3. /\ a \in Seq(Snap) /\ Len(a) = n + 1
      /\ \A i \in 1..(n + 1) : a[i] = IF i = n + 1 THEN c ELSE p[i]
  <2>1. c \in Snap
    BY DEF Snap
  <2> QED
    BY <1>1, <1>2, <2>1, LastOf
<1>4. q = PlaceAfter(o, n) /\ q2 = PlaceAfter(o, n + 1)
  BY <1>1, PlacesDiffer, MapNumbers DEF Ring
<1>5. /\ c2 \in Grid /\ DOMAIN c2 = DOMAIN c /\ T!SetCell(c2, x1, l, c[x1][l]) = c
      /\ c2 # T!Unknown
  <2>1. c[x1][l] \in Int
    BY GridIs
  <2> QED
    BY <2>1, CellSet, GridIs DEF SameColumns
<1>6. ASSUME NEW i \in 1..(n + 1)
      PROVE  /\ u2[PlaceAfter(o, i - 1)].x \in DOMAIN c2
             /\ BackFrom(IF i = n + 1 THEN c2 ELSE a[i + 1], u2[PlaceAfter(o, i - 1)], a[i])
  <2>1. PlaceAfter(o, i - 1) \in 0..(MaxUndo - 1)
    <3>1. i - 1 \in 0..MaxUndo
      BY <1>1, MapNumbers
    <3> QED
      BY <3>1, PlacesDiffer
  <2>2. CASE i = n + 1
    <3>1. u2[PlaceAfter(o, i - 1)] = r
      <4>1. i - 1 = n
        BY <2>2
      <4> QED
        BY <1>4, <4>1
    <3> QED
      BY <1>3, <1>5, <2>2, <3>1 DEF BackFrom, Taken
  <2>3. CASE i # n + 1
    <3>1. i \in 1..n /\ i - 1 # n /\ i - 1 \in 0..(MaxUndo - 1)
      <4>1. n < MaxUndo /\ n \in Nat /\ MaxUndo \in Nat
        BY <1>1, MapNumbers
      <4> QED
        BY <2>3, <4>1, EarlierPlace, Zenon
    <3>2. PlaceAfter(o, i - 1) # q
      BY <1>4, <3>1, PlacesDiffer
    <3>3. u2[PlaceAfter(o, i - 1)] = u[PlaceAfter(o, i - 1)]
      <4>1. \A k \in 0..(MaxUndo - 1) : k # q => u2[k] = u[k]
        OBVIOUS
      <4> QED
        BY <2>1, <3>2, <4>1
    <3>4. a[i] = p[i] /\ a[i + 1] = NextOf(c, p, i)
      <4>1. NextOf(c, p, i) = IF i = n THEN c ELSE p[i + 1]
        BY <1>1 DEF NextOf
      <4>2. i + 1 \in 1..(n + 1) /\ (i + 1 = n + 1 <=> i = n)
        BY <3>1
      <4>3. a[i + 1] = IF i + 1 = n + 1 THEN c ELSE p[i + 1]
        BY <1>3, <4>2
      <4>4. a[i] = p[i]
        BY <1>3, <2>3
      <4> QED
        BY <4>1, <4>2, <4>3, <4>4
    <3>5. /\ u[PlaceAfter(o, i - 1)].x \in DOMAIN c
          /\ BackFrom(NextOf(c, p, i), u[PlaceAfter(o, i - 1)], p[i])
      BY <1>1, <3>1 DEF Ring
    <3> QED
      BY <1>5, <2>3, <3>3, <3>4, <3>5
  <2> QED
    BY <2>2, <2>3
<1>7. ASSUME n + 1 < MaxUndo
      PROVE  /\ p2 \in Seq(Snap) /\ Len(p2) < MaxUndo
             /\ o2 \in 0..(MaxUndo - 1) /\ q2 \in 0..(MaxUndo - 1)
             /\ Ring(c2, u2, o2, q2, p2)
  <2>1. p2 = a
    BY <1>2, <1>3, <1>7 DEF T!Latest
  <2>2. o2 = o
    <3>1. n + 1 # 0 /\ n + 1 \in 0..(MaxUndo - 1) /\ 0 \in 0..(MaxUndo - 1)
      BY <1>7, MapNumbers
    <3>2. q2 # o
      BY <1>4, <3>1, PlacesDiffer
    <3> QED
      BY <3>2
  <2>3. q2 \in 0..(MaxUndo - 1)
    BY <1>4, <1>7, PlacesDiffer, MapNumbers
  <2> QED
    BY <1>3, <1>4, <1>6, <1>7, <2>1, <2>2, <2>3 DEF Ring, NextOf
<1>8. ASSUME n + 1 = MaxUndo
      PROVE  /\ p2 \in Seq(Snap) /\ Len(p2) < MaxUndo
             /\ o2 \in 0..(MaxUndo - 1) /\ q2 \in 0..(MaxUndo - 1)
             /\ Ring(c2, u2, o2, q2, p2)
  <2>1. p2 = Tail(a)
    BY <1>2, <1>3, <1>8, MapNumbers DEF T!Latest
  <2>2. q2 = o
    BY <1>4, <1>8, PlacesDiffer
  <2>3. o2 = PlaceAfter(o, 1)
    <3>1. 0 \in 0..(MaxUndo - 1) /\ 0 + 1 = 1
      BY MapNumbers
    <3>2. (PlaceAfter(o, 0) + 1) % MaxUndo = PlaceAfter(o, 0 + 1) /\ PlaceAfter(o, 0) = o
      BY <3>1, PlacesDiffer
    <3> QED
      BY <2>2, <3>1, <3>2
  <2>4. p2 \in Seq(Snap) /\ Len(p2) = n /\ \A i \in 1..n : p2[i] = a[i + 1]
    BY <1>3, <2>1, TailOf
  <2>5. o2 \in 0..(MaxUndo - 1) /\ PlaceAfter(o2, n) = o
    <3>1. 1 \in 0..MaxUndo /\ n \in 0..(MaxUndo - 1) /\ PlaceAfter(o, n + 1) = o
      BY <1>4, <2>2, MapNumbers
    <3>2. o2 \in 0..(MaxUndo - 1)
      <4>1. \A i \in 0..MaxUndo : PlaceAfter(o, i) \in 0..(MaxUndo - 1)
        BY PlacesDiffer
      <4> QED
        BY <2>3, <3>1, <4>1
    <3>3. PlaceAfter(PlaceAfter(o, 1), n) = PlaceAfter(o, n + 1)
      <4>1. \A i \in 0..(MaxUndo - 1) : PlaceAfter(PlaceAfter(o, 1), i) = PlaceAfter(o, i + 1)
        BY PlacesDiffer
      <4> QED
        BY <3>1, <4>1
    <3> QED
      BY <2>3, <3>1, <3>2, <3>3
  <2>6. ASSUME NEW i \in 1..n
        PROVE  /\ u2[PlaceAfter(o2, i - 1)].x \in DOMAIN c2
               /\ BackFrom(NextOf(c2, p2, i), u2[PlaceAfter(o2, i - 1)], p2[i])
    <3>1. PlaceAfter(o2, i - 1) = PlaceAfter(o, i)
      <4>1. i - 1 \in 0..(MaxUndo - 1) /\ i - 1 + 1 = i
        BY <1>1, MapNumbers
      <4> QED
        BY <2>3, <4>1, PlacesDiffer
    <3>2. i + 1 \in 1..(n + 1) /\ i + 1 - 1 = i
      BY <1>1
    <3>3. p2[i] = a[i + 1] /\ NextOf(c2, p2, i) = IF i + 1 = n + 1 THEN c2 ELSE a[i + 1 + 1]
      BY <1>1, <2>4 DEF NextOf
    <3> QED
      BY <1>6, <3>1, <3>2, <3>3
  <2> QED
    BY <1>1, <1>8, <2>2, <2>4, <2>5, <2>6, MapNumbers DEF Ring
<1>9. /\ p2 \in Seq(Snap) /\ Len(p2) < MaxUndo
      /\ o2 \in 0..(MaxUndo - 1) /\ q2 \in 0..(MaxUndo - 1)
      /\ Ring(c2, u2, o2, q2, p2)
  <2>1. n + 1 < MaxUndo \/ n + 1 = MaxUndo
    BY <1>1, MapNumbers
  <2> QED
    BY <1>7, <1>8, <2>1
<1>10. u2 \in [0..(MaxUndo - 1) -> Rec]
  OBVIOUS
<1> QED
  BY <1>5, <1>9, <1>10 DEF RingOf

\* Undo takes back the latest change, from the record before the free place.
TakenBack(c, u, o, q, p, c2, q2, p2) ==
  q # o /\ q2 = T!Before(q) /\ c2 = Taken(c, u[q2]) /\ p2 = T!Front(p)
WasLatest(c2, p) == p # <<>> /\ (p[Len(p)] # T!Unknown => c2 = p[Len(p)])

LEMMA RingTake ==
  ASSUME NEW c, NEW u, NEW o, NEW q, NEW p, NEW c2, NEW q2, NEW p2,
         RingOf(c, u, o, q, p), TakenBack(c, u, o, q, p, c2, q2, p2)
  PROVE  RingOf(c2, u, o, q2, p2) /\ WasLatest(c2, p)
<1> SUFFICES ASSUME c \in Grid, u \in [0..(MaxUndo - 1) -> Rec],
                    o \in 0..(MaxUndo - 1), q \in 0..(MaxUndo - 1),
                    p \in Seq(Snap), Len(p) < MaxUndo, Ring(c, u, o, q, p),
                    q # o, q2 = T!Before(q), c2 = Taken(c, u[q2]), p2 = T!Front(p)
             PROVE  RingOf(c2, u, o, q2, p2) /\ WasLatest(c2, p)
  BY DEF RingOf, TakenBack
<1>1. PICK n \in 0..(MaxUndo - 1) : n = Len(p)
  BY LenProperties, MapNumbers
<1>2. q = PlaceAfter(o, n)
  BY <1>1 DEF Ring
<1>3. n # 0
  BY <1>2, PlacesDiffer
<1>4. q2 \in 0..(MaxUndo - 1) /\ q2 = PlaceAfter(o, n - 1)
  BY <1>2, <1>3, MapNumbers DEF T!Before, PlaceAfter
<1>5. u[q2] \in Rec
  BY <1>4
<1>6. c2 \in Grid /\ DOMAIN c2 = DOMAIN c
  <2>1. PICK x1 \in {u[q2].x}, l \in T!Layers, t \in Int : l = u[q2].layer /\ t = u[q2].tile
    BY <1>5 DEF Rec
  <2>2. c2 = T!SetCell(c, x1, l, t)
    BY <2>1 DEF Taken
  <2>3. T!SetCell(c, x1, l, t) \in Grid /\ SameColumns(T!SetCell(c, x1, l, t), c)
    BY CellSet
  <2> QED
    BY <2>2, <2>3 DEF SameColumns
<1>7. /\ p2 \in Seq(Snap) /\ Len(p2) = n - 1
      /\ \A i \in 1..(n - 1) : p2[i] = p[i]
  <2>1. p2 = SubSeq(p, 1, n - 1)
    BY <1>1 DEF T!Front
  <2>2. \A i \in 1..(n - 1) : i \in 1..Len(p)
    BY <1>1
  <2>3. \A i \in 1..(n - 1) : p[i] \in Snap
    BY <2>2, ElementOfSeq
  <2> QED
    BY <1>1, <1>3, <2>1, <2>3, SubSeqProperties
<1>8. \A i \in 1..n : /\ u[PlaceAfter(o, i - 1)].x \in DOMAIN c
                      /\ BackFrom(NextOf(c, p, i), u[PlaceAfter(o, i - 1)], p[i])
  BY <1>1 DEF Ring
<1>9. p[n] # T!Unknown => c2 = p[n]
  <2>1. n \in 1..n
    BY <1>3
  <2>2. NextOf(c, p, n) = c
    BY <1>1 DEF NextOf
  <2>3. BackFrom(c, u[q2], p[n])
    BY <1>4, <1>8, <2>1, <2>2
  <2> QED
    BY <2>3 DEF BackFrom
<1>10. ASSUME NEW i \in 1..(n - 1)
       PROVE  /\ u[PlaceAfter(o, i - 1)].x \in DOMAIN c2
              /\ BackFrom(NextOf(c2, p2, i), u[PlaceAfter(o, i - 1)], p2[i])
  <2>1. i \in 1..n /\ i # n /\ i + 1 \in 1..n
    OBVIOUS
  <2>2. NextOf(c, p, i) = p[i + 1] /\ p2[i] = p[i]
    BY <1>1, <1>7, <2>1 DEF NextOf
  <2>3. NextOf(c2, p2, i) = IF i = n - 1 THEN c2 ELSE p[i + 1]
    <3>1. CASE i = n - 1
      BY <1>7, <3>1 DEF NextOf
    <3>2. CASE i # n - 1
      <4>1. i + 1 \in 1..(n - 1)
        BY <3>2
      <4> QED
        BY <1>7, <3>2, <4>1 DEF NextOf
    <3> QED
      BY <3>1, <3>2
  <2>4. BackFrom(p[i + 1], u[PlaceAfter(o, i - 1)], p[i])
    BY <1>8, <2>1, <2>2
  <2>5. i = n - 1 /\ p[i + 1] # T!Unknown => c2 = p[i + 1]
    <3>1. i = n - 1 => i + 1 = n
      OBVIOUS
    <3> QED
      BY <1>9, <3>1
  <2>6. BackFrom(NextOf(c2, p2, i), u[PlaceAfter(o, i - 1)], p2[i])
    BY <2>2, <2>3, <2>4, <2>5 DEF BackFrom
  <2> QED
    BY <1>6, <1>8, <2>1, <2>6
<1>11. Ring(c2, u, o, q2, p2)
  BY <1>4, <1>7, <1>10 DEF Ring
<1> QED
  BY <1>1, <1>3, <1>4, <1>6, <1>7, <1>9, <1>11, EmptySeq, MapNumbers DEF RingOf, WasLatest

\* A paste changes tiles of the map and not its size.
LEMMA PasteKeeps ==
  ASSUME cell \in Grid, NEW at
  PROVE  T!Pasted(at) \in Grid /\ SameColumns(T!Pasted(at), cell)
<1>1. PICK w \in Nat \ {0} : cell \in [0..(w - 1) -> [T!Layers -> Int]]
  BY GridIs
<1>0. PICK lo \in Int : lo = -1
  OBVIOUS
<1> DEFINE S == [0..(w - 1) -> [T!Layers -> Int]]
           Place == {-1} \cup T!Columns
           Turn(c, k) == IF k \in sel THEN T!Copied(c, k, at + k - T!Leftmost) ELSE c
           Is(h) == h = [x1 \in Place |-> IF x1 = -1 THEN cell
                                           ELSE IF x1 \in sel
                                           THEN T!Copied(h[x1 - 1], x1, at + x1 - T!Leftmost)
                                           ELSE h[x1 - 1]]
           g == CHOOSE h : Is(h)
           Key == [k \in (lo + 1)..(lo + w) |-> [c \in S |-> Turn(c, k)]]
<1>2. Place = -1..(w - 1)
  BY <1>1 DEF T!Columns
<1>3. T!Cardinality(T!Columns) = w
  <2>1. T!Columns = 0..(w - 1)
    BY <1>1 DEF T!Columns
  <2>2. Cardinality(0..(w - 1)) = w
    BY FS_Interval
  <2> QED
    BY <2>1, <2>2 DEF T!Cardinality, Cardinality
<1>4. \A c \in S : \A k \in 0..(w - 1) : Turn(c, k) \in S
  BY DEF T!Copied
<1>5. \E h : Is(h)
  <2>1. Key \in [(lo + 1)..(lo + w) -> [S -> S]]
    <3>1. \A k \in (lo + 1)..(lo + w) : k \in 0..(w - 1)
      BY <1>0
    <3> QED
      BY <1>4, <3>1
  <2>2. \A k \in (lo + 1)..(lo + w) : \A c \in S : Key[k][c] = Turn(c, k)
    OBVIOUS
  <2> HIDE DEF Key, S, Turn
  <2>3. cell \in S
    BY <1>1 DEF S
  <2>4. PICK h \in RunsOf(S, cell, lo, w, Key) : TRUE
    <3>1. w \in Nat
      OBVIOUS
    <3> QED
      BY <2>1, <2>3, <3>1, RunExists
  <2>5. /\ h \in [lo..(lo + w) -> S]
        /\ \A k \in lo..(lo + w) : h[k] = IF k = lo THEN cell ELSE Key[k][h[k - 1]]
    BY <2>4 DEF RunsOf
  <2>6. ASSUME NEW k \in Place PROVE h[k] = IF k = -1 THEN cell ELSE Turn(h[k - 1], k)
    <3>1. k \in lo..(lo + w) /\ (k # -1 => k \in (lo + 1)..(lo + w) /\ k - 1 \in lo..(lo + w))
      BY <1>0, <1>2
    <3> QED
      BY <1>0, <2>2, <2>5, <3>1
  <2>7. h = [k \in Place |-> h[k]]
    <3>1. Place = lo..(lo + w)
      BY <1>0, <1>2
    <3> HIDE DEF Place
    <3> QED
      BY <2>5, <3>1
  <2>8. \A k \in Place : h[k] = IF k = -1 THEN cell
                                ELSE IF k \in sel THEN T!Copied(h[k - 1], k, at + k - T!Leftmost)
                                ELSE h[k - 1]
    BY <2>6 DEF Turn
  <2>9. Is(h)
    <3> HIDE DEF Place
    <3> QED
      BY <2>7, <2>8
  <2> QED
    BY <2>9
<1>6. Is(g)
  BY <1>5
<1>7. T!Pasted(at) = g[w - 1]
  BY <1>3 DEF T!Pasted
<1> HIDE DEF g
<1>8. \A k \in -1..(w - 1) : g[k] = IF k = -1 THEN cell ELSE Turn(g[k - 1], k)
  BY <1>2, <1>6
<1> HIDE DEF Place, Turn, S
<1> DEFINE Kept == {k \in Nat : k <= w => g[k - 1] \in S}
<1>9. 0 \in Kept
  <2>1. 0 - 1 = -1 /\ -1 \in -1..(w - 1)
    OBVIOUS
  <2>2. g[0 - 1] = cell
    BY <1>8, <2>1
  <2> QED
    BY <1>1, <2>2 DEF S
<1>10. ASSUME NEW k \in Nat, k \in Kept PROVE k + 1 \in Kept
  <2> SUFFICES ASSUME k + 1 <= w PROVE g[k + 1 - 1] \in S
    OBVIOUS
  <2>1. k + 1 - 1 = k /\ k \in -1..(w - 1) /\ k # -1 /\ k <= w /\ k \in 0..(w - 1)
    OBVIOUS
  <2>2. g[k] = Turn(g[k - 1], k) /\ g[k - 1] \in S
    BY <1>8, <1>10, <2>1
  <2> QED
    BY <1>4, <2>1, <2>2
<1>11. w \in Kept
  <2> HIDE DEF Kept
  <2> QED
    BY <1>9, <1>10, SetInduction
<1>12. g[w - 1] \in S
  BY <1>11
<1> QED
  BY <1>1, <1>7, <1>12 DEF S, Grid, SameColumns

-----------------------------------------------------------------------------
\* The objects after one was put in front, and after one was taken out: who
\* stands where, and what the targets became.  NewPlace is the target that
\* was v among n objects before one was put in front.
NewPlace(v, n) == IF v \in 0..(n - 1) THEN v + 1 ELSE -1

LEMMA InFront ==
  ASSUME objs \in Seq(MapObject), made \in Nat, NEW t \in Int, NEW n \in Nat, n = Len(objs)
  PROVE  /\ T!WithNew(objs, t) \in Seq(MapObject) /\ Len(T!WithNew(objs, t)) = n + 1
         /\ T!WithNew(objs, t)[1] = [id |-> made + 1, target |-> t]
         /\ \A i \in 1..n : /\ T!WithNew(objs, t)[i + 1].id = objs[i].id
                            /\ T!WithNew(objs, t)[i + 1].target = NewPlace(objs[i].target, n)
<1>1. PICK f : f = T!Targets(objs, T!Shifted)
  OBVIOUS
<1>2. \A i \in 1..n : objs[i] \in MapObject
  BY ElementOfSeq
<1>3. DOMAIN objs = 1..n
  BY LenProperties
<1>4. f = [i \in 1..n |-> [objs[i] EXCEPT !.target =
                              IF objs[i].target \in 0..(n - 1) THEN objs[i].target + 1 ELSE -1]]
  BY <1>1, <1>3 DEF T!Targets, T!Shifted, T!None
<1>5. \A o \in MapObject : \A v \in Int :
         LET e == [o EXCEPT !.target = v] IN e \in MapObject /\ e.id = o.id /\ e.target = v
  BY DEF MapObject
<1>6. ASSUME NEW i \in 1..n
      PROVE  /\ f[i] \in MapObject /\ f[i].id = objs[i].id
             /\ f[i].target = NewPlace(objs[i].target, n)
  <2> PICK old \in Int : old = objs[i].target
    BY <1>2 DEF MapObject
  <2>1. PICK v \in Int : v = IF old \in 0..(n - 1) THEN old + 1 ELSE -1
    OBVIOUS
  <2>2. f[i] = [objs[i] EXCEPT !.target = v]
    BY <1>4, <2>1
  <2>3. v = NewPlace(old, n)
    BY <2>1 DEF NewPlace
  <2>4. f[i] \in MapObject /\ f[i].id = objs[i].id /\ f[i].target = v
    BY <1>2, <1>5, <2>2
  <2> QED
    BY <2>3, <2>4
<1>7. f \in Seq(MapObject) /\ Len(f) = n
  <2>1. DOMAIN f = 1..n
    BY <1>4
  <2>2. f \in [1..n -> MapObject]
    BY <1>4, <1>6, <2>1
  <2> QED
    BY <2>2, SeqDef
<1>8. PICK e \in MapObject : e = [id |-> made + 1, target |-> t]
  <2>1. made + 1 \in Nat
    OBVIOUS
  <2> QED
    BY <2>1 DEF MapObject
<1>9. T!WithNew(objs, t) = Cons(e, f)
  BY <1>1, <1>8 DEF T!WithNew, Cons
<1> DEFINE g == Cons(e, f)
<1>10. g \in Seq(MapObject)
  BY <1>7, ConsElements
<1>11. Len(g) = n + 1
  BY <1>7, ConsElements
<1>12. g[1] = e
  BY <1>7, ConsElements
<1>13. \A i \in 1..n : g[i + 1] = f[i]
  BY <1>7, ConsElements
<1> QED
  BY <1>6, <1>8, <1>9, <1>10, <1>11, <1>12, <1>13

\* os is the list of the n objects without the one at place k.
OutOf(os, n, k) ==
  /\ os \in Seq(MapObject) /\ Len(os) = n - 1
  /\ \A i \in 1..(n - 1) : \A m \in 1..n :
       m = (IF i < k + 1 THEN i ELSE i + 1) =>
         /\ os[i].id = objs[m].id
         /\ os[i].target
            = IF objs[m].target \in 0..(n - 1) /\ objs[m].target # k
              THEN IF objs[m].target > k THEN objs[m].target - 1 ELSE objs[m].target
              ELSE -1

\* Taking an object out shifts those behind it, and the targets beyond it.
LEMMA TakenOut ==
  ASSUME objs \in Seq(MapObject), NEW n \in Nat, n = Len(objs), NEW k \in 0..(n - 1)
  PROVE  OutOf(T!WithoutPlace(objs, k), n, k)
<1> DEFINE Aim(t) == IF t \in 0..(n - 1) /\ t # k THEN IF t > k THEN t - 1 ELSE t ELSE -1
           f == [i \in 1..n |-> [objs[i] EXCEPT !.target = Aim(objs[i].target)]]
<1>1. \A i \in 1..n : objs[i] \in MapObject
  BY ElementOfSeq
<1>2. DOMAIN objs = 1..n
  BY LenProperties
<1>3. T!WithoutPlace(objs, k) = RemoveAt(f, k + 1)
  <2>1. ASSUME NEW i \in 1..n
        PROVE  Aim(objs[i].target)
               = IF objs[i].target \in 0..(n - 1)
                 THEN IF objs[i].target = k THEN -1
                      ELSE IF objs[i].target > k THEN objs[i].target - 1 ELSE objs[i].target
                 ELSE -1
    OBVIOUS
  <2>2. f = [i \in 1..n |-> [objs[i] EXCEPT !.target =
                               IF objs[i].target \in 0..(n - 1)
                               THEN IF objs[i].target = k THEN -1
                                    ELSE IF objs[i].target > k THEN objs[i].target - 1
                                    ELSE objs[i].target
                               ELSE -1]]
    BY <2>1
  <2> HIDE DEF f
  <2> QED
    BY <1>2, <2>2 DEF T!WithoutPlace, T!Targets, T!None, T!RemoveAt, RemoveAt
<1>4. \A o \in MapObject : \A v \in Int :
         LET e == [o EXCEPT !.target = v] IN e \in MapObject /\ e.id = o.id /\ e.target = v
  BY DEF MapObject
<1>5. ASSUME NEW i \in 1..n
      PROVE  f[i] \in MapObject /\ f[i].id = objs[i].id /\ f[i].target = Aim(objs[i].target)
  <2> PICK old \in Int : old = objs[i].target
    BY <1>1 DEF MapObject
  <2>1. PICK v \in Int : v = Aim(old)
    OBVIOUS
  <2>2. f[i] = [objs[i] EXCEPT !.target = v]
    BY <2>1
  <2> HIDE DEF f, Aim
  <2> QED
    BY <1>1, <1>4, <2>1, <2>2
<1>6. f \in Seq(MapObject) /\ Len(f) = n
  <2>1. DOMAIN f = 1..n
    OBVIOUS
  <2>2. f = [i \in 1..n |-> f[i]]
    OBVIOUS
  <2> HIDE DEF f
  <2>3. f \in [1..n -> MapObject]
    BY <1>5, <2>1, <2>2
  <2> QED
    BY <2>3, SeqDef
<1> HIDE DEF f
<1>7. k + 1 \in 1..Len(f)
  BY <1>6
<1>8. PICK at \in 1..Len(f) : at = k + 1
  BY <1>7
<1>9. /\ RemoveAt(f, at) \in Seq(MapObject) /\ Len(RemoveAt(f, at)) = n - 1
      /\ \A i \in 1..(n - 1) : RemoveAt(f, at)[i] = IF i < at THEN f[i] ELSE f[i + 1]
  BY <1>6, RemoveAtElements
<1>10. ASSUME NEW i \in 1..(n - 1), NEW m \in 1..n, m = IF i < k + 1 THEN i ELSE i + 1
       PROVE  /\ T!WithoutPlace(objs, k)[i].id = objs[m].id
              /\ T!WithoutPlace(objs, k)[i].target = Aim(objs[m].target)
  <2>1. T!WithoutPlace(objs, k)[i] = f[m]
    BY <1>3, <1>8, <1>9, <1>10
  <2> QED
    BY <1>5, <2>1
<1>11. /\ T!WithoutPlace(objs, k) \in Seq(MapObject) /\ Len(T!WithoutPlace(objs, k)) = n - 1
       /\ \A i \in 1..(n - 1) : \A m \in 1..n :
            m = (IF i < k + 1 THEN i ELSE i + 1) =>
              /\ T!WithoutPlace(objs, k)[i].id = objs[m].id
              /\ T!WithoutPlace(objs, k)[i].target
                 = IF objs[m].target \in 0..(n - 1) /\ objs[m].target # k
                   THEN IF objs[m].target > k THEN objs[m].target - 1 ELSE objs[m].target
                   ELSE -1
  BY <1>3, <1>8, <1>9, <1>10
<1> HIDE DEF Aim
<1> QED
  BY <1>11 DEF OutOf

LEMMA Retargeted ==
  ASSUME objs \in Seq(MapObject), NEW k \in 1..Len(objs), NEW v \in Int,
         NEW f, f = [objs EXCEPT ![k].target = v]
  PROVE  /\ f \in Seq(MapObject) /\ Len(f) = Len(objs)
         /\ \A i \in 1..Len(objs) : f[i].id = objs[i].id
<1>1. PICK n \in Nat : n = Len(objs)
  BY LenProperties
<1>2. objs \in [1..n -> MapObject]
  BY <1>1, SeqDef, LenProperties
<1>3. PICK e \in MapObject : e = [objs[k] EXCEPT !.target = v] /\ e.id = objs[k].id
  BY <1>1, <1>2 DEF MapObject
<1>4. f = [objs EXCEPT ![k] = e]
  BY <1>2, <1>3
<1>5. f \in [1..n -> MapObject] /\ \A i \in 1..n : f[i] = IF i = k THEN e ELSE objs[i]
  BY <1>1, <1>2, <1>4
<1>6. f \in Seq(MapObject) /\ Len(f) = n
  BY <1>5, SeqDef
<1> QED
  BY <1>1, <1>3, <1>5, <1>6

LEMMA ObjectsNumbered ==
  ASSUME ObjectsInv, objs' \in Seq(MapObject), Len(objs') = Len(objs), made' = made,
         \A i \in 1..Len(objs) : objs'[i].id = objs[i].id, chosen' \in T!Picked
  PROVE  ObjectsInv'
<1>1. T!Picked' = T!Picked
  BY DEF T!Picked, T!Objs, T!None
<1> QED
  BY <1>1 DEF ObjectsInv

LEMMA MadeInFront ==
  ASSUME ObjectsInv, NEW t \in Int, objs' = T!WithNew(objs, t), made' = made + 1, chosen' = 0
  PROVE  ObjectsInv'
<1>1. PICK n \in Nat : n = Len(objs) /\ made \in Nat
  BY LenProperties DEF ObjectsInv
<1>2. /\ objs' \in Seq(MapObject) /\ Len(objs') = n + 1
      /\ objs'[1] = [id |-> made + 1, target |-> t]
      /\ \A i \in 1..n : objs'[i + 1].id = objs[i].id
  BY <1>1, InFront DEF ObjectsInv
<1>3. objs'[1].id = made + 1
  BY <1>2
<1>4. ASSUME NEW i \in 1..(n + 1), i # 1 PROVE i - 1 \in 1..n /\ objs'[i].id = objs[i - 1].id
  <2>1. PICK k \in 1..n : i = k + 1
    BY <1>4, i - 1 \in 1..n
  <2> QED
    BY <1>2, <2>1
<1>5. \A i \in 1..n : objs[i].id \in 1..made
  BY <1>1 DEF ObjectsInv
<1>6. \A i, j \in 1..n : objs[i].id = objs[j].id => i = j
  BY <1>1 DEF ObjectsInv
<1>7. ASSUME NEW i \in 1..(n + 1) PROVE objs'[i].id \in 1..(made + 1)
  <2>1. CASE i = 1
    BY <1>1, <1>3, <2>1
  <2>2. CASE i # 1
    <3>1. objs'[i].id \in 1..made
      BY <1>4, <1>5, <2>2
    <3> QED
      BY <1>1, <3>1
  <2> QED
    BY <2>1, <2>2
<1>8. ASSUME NEW i \in 1..(n + 1), NEW j \in 1..(n + 1), objs'[i].id = objs'[j].id PROVE i = j
  <2>1. CASE i = 1 /\ j = 1
    BY <2>1
  <2>0. \A k \in 1..(n + 1) : k # 1 => objs'[k].id \in 1..made
    BY <1>4, <1>5
  <2>2. CASE i = 1 /\ j # 1
    <3>1. objs'[j].id \in 1..made /\ objs'[j].id = made + 1
      BY <1>3, <1>8, <2>0, <2>2
    <3> QED
      BY <1>1, <3>1
  <2>3. CASE i # 1 /\ j = 1
    <3>1. objs'[i].id \in 1..made /\ objs'[i].id = made + 1
      BY <1>3, <1>8, <2>0, <2>3
    <3> QED
      BY <1>1, <3>1
  <2>4. CASE i # 1 /\ j # 1
    BY <1>4, <1>6, <1>8, <2>4
  <2> QED
    BY <2>1, <2>2, <2>3, <2>4
<1>9. chosen' \in T!Picked'
  BY <1>2 DEF T!Picked, T!Objs
<1> QED
  BY <1>1, <1>2, <1>7, <1>8, <1>9 DEF ObjectsInv

LEMMA TurnKeeps ==
  ASSUME ObjectsInv, NEW b, NEW from, T!Turn(b, from)
  PROVE  ObjectsInv' /\ UNCHANGED T!tileVars
<1> SUFFICES ObjectsInv'
  BY DEF T!Turn
<1>1. objs \in Seq(MapObject) /\ Len(objs) \in Nat /\ chosen \in T!Picked
  BY LenProperties DEF ObjectsInv
<1>2. T!None \in T!Picked /\ T!None = -1 /\ T!Picked \subseteq Int
  BY <1>1 DEF T!Picked, T!None, T!Objs
<1>3. \A i \in T!Objs : i + 1 \in 1..Len(objs) /\ i \in Int
  BY <1>1 DEF T!Objs
<1>4. ASSUME NEW i \in T!Objs, NEW v \in Int, objs' = [objs EXCEPT ![i + 1].target = v],
             made' = made, chosen' \in T!Picked
      PROVE  ObjectsInv'
  <2>1. PICK k \in 1..Len(objs) : k = i + 1
    BY <1>3
  <2>2. objs' \in Seq(MapObject) /\ Len(objs') = Len(objs)
        /\ \A m \in 1..Len(objs) : objs'[m].id = objs[m].id
    BY <1>1, <1>4, <2>1, Retargeted
  <2> QED
    BY <1>4, <2>2, ObjectsNumbered
<1>5. ASSUME objs' = objs, made' = made, chosen' \in T!Picked PROVE ObjectsInv'
  BY <1>1, <1>5, ObjectsNumbered
<1>6. CASE T!MoveTurn(from)
  BY <1>1, <1>5, <1>6 DEF T!MoveTurn
<1>7. CASE T!AimTurn(from)
  <2>1. PICK p \in T!Picked :
          LET now == IF from = T!None THEN p ELSE chosen
          IN IF T!Pick(from, p) # T!None /\ chosen \in T!Objs
             THEN objs' = [objs EXCEPT ![chosen + 1].target = now] /\ chosen' = chosen /\ made' = made
             ELSE chosen' = now /\ UNCHANGED <<objs, made>>
    BY <1>7 DEF T!AimTurn
  <2>2. PICK now \in T!Picked : now = IF from = T!None THEN p ELSE chosen
    BY <1>1
  <2>3. now \in Int
    BY <1>2
  <2>4. CASE T!Pick(from, p) # T!None /\ chosen \in T!Objs
    BY <1>1, <1>4, <2>1, <2>2, <2>3, <2>4
  <2>5. CASE ~ (T!Pick(from, p) # T!None /\ chosen \in T!Objs)
    BY <1>5, <2>1, <2>2, <2>5
  <2> QED
    BY <2>4, <2>5
<1>8. CASE T!EditTurn(from)
  <2>1. PICK p \in T!Picked :
          IF T!Pick(from, p) # T!None
          THEN /\ objs' \in {objs} \cup (IF T!Pick(from, p) \in T!Objs
                       THEN {[objs EXCEPT ![T!Pick(from, p) + 1].target = T!None]} ELSE {})
               /\ chosen' = IF from = T!None THEN p ELSE chosen
               /\ UNCHANGED made
          ELSE objs' = T!WithNew(objs, T!None) /\ made' = made + 1 /\ chosen' = 0
    BY <1>8 DEF T!EditTurn
  <2>2. CASE T!Pick(from, p) # T!None
    <3>1. chosen' \in T!Picked /\ made' = made
      BY <1>1, <2>1, <2>2
    <3>2. CASE objs' = objs
      BY <1>5, <3>1, <3>2
    <3>3. CASE T!Pick(from, p) \in T!Objs
               /\ objs' = [objs EXCEPT ![T!Pick(from, p) + 1].target = T!None]
      BY <1>2, <1>4, <3>1, <3>3
    <3> QED
      BY <2>1, <2>2, <3>2, <3>3
  <2>3. CASE T!Pick(from, p) = T!None
    BY <1>2, <2>1, <2>3, MadeInFront
  <2> QED
    BY <2>2, <2>3
<1> QED
  BY <1>6, <1>7, <1>8 DEF T!Turn

-----------------------------------------------------------------------------
LEMMA TakenOutKeeps ==
  ASSUME ObjectsInv, chosen \in T!Objs, objs' = T!WithoutPlace(objs, chosen),
         chosen' = T!None, made' = made
  PROVE  ObjectsInv'
<1>1. PICK n \in Nat : n = Len(objs) /\ made \in Nat /\ objs \in Seq(MapObject)
  BY LenProperties DEF ObjectsInv
<1>2. PICK k \in 0..(n - 1) : k = chosen
  BY <1>1 DEF T!Objs
<1>3. /\ objs' \in Seq(MapObject) /\ Len(objs') = n - 1
      /\ \A i \in 1..(n - 1) : \A m \in 1..n :
           m = (IF i < k + 1 THEN i ELSE i + 1) => objs'[i].id = objs[m].id
  <2>1. OutOf(T!WithoutPlace(objs, k), n, k)
    BY <1>1, TakenOut
  <2>2. T!WithoutPlace(objs, chosen) = T!WithoutPlace(objs, k)
    BY <1>2
  <2> QED
    BY <2>1, <2>2 DEF OutOf
<1>4. /\ \A i \in 1..n : objs[i].id \in 1..made
      /\ \A i, j \in 1..n : objs[i].id = objs[j].id => i = j
  BY <1>1 DEF ObjectsInv
<1>5. ASSUME NEW i \in 1..(n - 1)
      PROVE  (IF i < k + 1 THEN i ELSE i + 1) \in 1..n
  OBVIOUS
<1>6. \A i \in 1..(n - 1) : objs'[i].id \in 1..made
  BY <1>3, <1>4, <1>5
<1>7. ASSUME NEW i \in 1..(n - 1), NEW j \in 1..(n - 1), objs'[i].id = objs'[j].id PROVE i = j
  <2>1. PICK a \in 1..n : a = IF i < k + 1 THEN i ELSE i + 1
    BY <1>5
  <2>2. PICK b \in 1..n : b = IF j < k + 1 THEN j ELSE j + 1
    BY <1>5
  <2>3. objs[a].id = objs[b].id
    BY <1>3, <1>7, <2>1, <2>2
  <2>4. a = b
    BY <1>4, <2>3
  <2> QED
    BY <2>1, <2>2, <2>4
<1> QED
  BY <1>1, <1>3, <1>6, <1>7 DEF ObjectsInv, T!Picked

LEMMA MapInvInit == T!Init => MapInv
<1> SUFFICES ASSUME T!Init PROVE MapInv
  OBVIOUS
<1>1. PICK w \in Widths : cell = [x1 \in 0..(w - 1) |-> T!Blank]
  BY DEF T!Init
<1>2. cell \in Grid
  <2>1. T!Blank \in [T!Layers -> Int]
    BY DEF T!Blank, T!None
  <2>2. cell \in [0..(w - 1) -> [T!Layers -> Int]] /\ w \in Nat \ {0}
    BY <1>1, <2>1, MapNumbers
  <2> QED
    BY <2>2 DEF Grid
<1>3. undo \in [0..(MaxUndo - 1) -> Rec]
  BY DEF T!Init, T!NoRecord, Rec, T!Layers, T!None
<1>4. \A S : <<>> \in Seq(S) /\ Len(<<>>) = 0
  BY EmptySeq
<1>5. TileTypes
  BY <1>2, <1>3, <1>4, MapNumbers DEF T!Init, TileTypes
<1>6. \A i \in 1..0 : FALSE
  OBVIOUS
<1>7. Ring(cell, undo, oldest, pos, past)
  <2>1. past = <<>> /\ oldest = 0 /\ pos = 0 /\ Len(past) = 0
    BY <1>4 DEF T!Init
  <2> QED
    BY <1>6, <2>1, MapNumbers DEF Ring, PlaceAfter
<1>8. ObjectsInv
  <2>1. objs = <<>> /\ made = 0 /\ chosen = T!None /\ Len(objs) = 0
    BY <1>4 DEF T!Init
  <2> QED
    BY <1>4, <1>6, <2>1 DEF ObjectsInv, T!Picked
<1> QED
  BY <1>5, <1>7, <1>8 DEF MapInv

\* A map that is made or made larger starts with an empty ring and no objects.
LEMMA FreshMap ==
  ASSUME MapInv, cell' \in Grid, undo' = undo, objs' = <<>>, made' = made, T!Reset
  PROVE  MapInv'
<1>1. \A S : <<>> \in Seq(S) /\ Len(<<>>) = 0
  BY EmptySeq
<1>2. \A i \in 1..0 : FALSE
  OBVIOUS
<1>3. pos' = 0 /\ oldest' = 0 /\ chosen' = T!None /\ past' = <<>> /\ Len(past') = 0 /\ Len(objs') = 0
  BY <1>1 DEF T!Reset
<1>4. TileTypes'
  BY <1>1, <1>3, MapNumbers DEF MapInv, TileTypes
<1>5. Ring(cell, undo, oldest, pos, past)'
  BY <1>2, <1>3, MapNumbers DEF Ring, PlaceAfter
<1>6. ObjectsInv'
  BY <1>1, <1>2, <1>3 DEF MapInv, ObjectsInv, T!Picked
<1> QED
  BY <1>4, <1>5, <1>6 DEF MapInv

LEMMA SetTileKeeps ==
  ASSUME TileTypes, Ring(cell, undo, oldest, pos, past),
         NEW x1, NEW l, NEW t, T!SetTile(x1, l, t)
  PROVE  TileTypes' /\ Ring(cell, undo, oldest, pos, past)'
<1>1. x1 \in DOMAIN cell /\ l \in T!Layers /\ t \in Int
  BY MapNumbers DEF T!SetTile, T!Columns, T!None
<1>2. PICK w \in Nat \ {0} : cell \in [0..(w - 1) -> [T!Layers -> Int]]
  BY GridIs DEF TileTypes
<1>3. PICK r \in Rec : r = [x |-> x1, layer |-> l, tile |-> cell[x1][l]]
  <2>1. cell[x1] \in [T!Layers -> Int] /\ x1 \in Int
    BY <1>1, <1>2
  <2>2. PICK v \in Int : v = cell[x1][l]
    BY <1>1, <2>1
  <2> QED
    BY <1>1, <2>1, <2>2 DEF Rec
<1>4. r.x = x1 /\ r.layer = l /\ r.tile = cell[x1][l]
  BY <1>3
<1>5. /\ cell' = T!SetCell(cell, x1, l, t) /\ undo' = [undo EXCEPT ![pos] = r]
      /\ pos' = (pos + 1) % MaxUndo
      /\ oldest' = IF (pos + 1) % MaxUndo = oldest THEN (oldest + 1) % MaxUndo ELSE oldest
      /\ past' = T!Latest(Append(past, cell))
  BY <1>3 DEF T!SetTile, T!Record
<1>6. /\ past' \in Seq(Snap) /\ Len(past') < MaxUndo
      /\ oldest' \in 0..(MaxUndo - 1) /\ pos' \in 0..(MaxUndo - 1)
      /\ Ring(cell', undo', oldest', pos', past')
  <2>1. PICK c2, u2, o2, q2, p2 : c2 = cell' /\ u2 = undo' /\ o2 = oldest' /\ q2 = pos' /\ p2 = past'
    OBVIOUS
  <2>2. PICK c, u, o, q, p : c = cell /\ u = undo /\ o = oldest /\ q = pos /\ p = past
    OBVIOUS
  <2>3. RingOf(c, u, o, q, p) /\ Recorded(c, x1, l, t, r)
    BY <1>1, <1>4, <2>2 DEF RingOf, Recorded, TileTypes
  <2>4. RecordedIn(c, u, o, q, p, x1, l, t, r, c2, u2, o2, q2, p2)
    BY <1>5, <2>1, <2>2 DEF RecordedIn
  <2>5. RingOf(c2, u2, o2, q2, p2)
    BY <2>3, <2>4, RingPut
  <2> QED
    BY <2>1, <2>5 DEF RingOf
<1>7. cell' \in Grid /\ undo' \in [0..(MaxUndo - 1) -> Rec]
  BY <1>1, <1>5, CellSet DEF TileTypes
<1> QED
  BY <1>6, <1>7 DEF TileTypes

LEMMA UndoKeeps ==
  ASSUME TileTypes, Ring(cell, undo, oldest, pos, past), T!Undo
  PROVE  /\ TileTypes' /\ Ring(cell, undo, oldest, pos, past)'
         /\ T!UndoGoesBackStep
<1>1. /\ pos # oldest /\ pos' = T!Before(pos) /\ cell' = Taken(cell, undo[pos'])
      /\ past' = T!Front(past) /\ UNCHANGED <<undo, oldest>>
  BY DEF T!Undo, T!CanUndo, Taken
<1>2. /\ cell' \in Grid /\ pos' \in 0..(MaxUndo - 1) /\ past' \in Seq(Snap) /\ Len(past') < MaxUndo
      /\ Ring(cell', undo, oldest, pos', past')
      /\ past # <<>> /\ (past[Len(past)] # T!Unknown => cell' = past[Len(past)])
  <2>1. PICK c2, q2, p2 : c2 = cell' /\ q2 = pos' /\ p2 = past'
    OBVIOUS
  <2>2. PICK c, u, o, q, p : c = cell /\ u = undo /\ o = oldest /\ q = pos /\ p = past
    OBVIOUS
  <2>3. RingOf(c, u, o, q, p)
    BY <2>2 DEF RingOf, TileTypes
  <2>4. TakenBack(c, u, o, q, p, c2, q2, p2)
    BY <1>1, <2>1, <2>2 DEF TakenBack
  <2>5. RingOf(c2, u, o, q2, p2) /\ WasLatest(c2, p)
    BY <2>3, <2>4, RingTake
  <2> QED
    BY <2>1, <2>2, <2>5 DEF RingOf, WasLatest
<1>3. TileTypes'
  BY <1>1, <1>2 DEF TileTypes
<1>4. Ring(cell', undo', oldest', pos', past')
  BY <1>1, <1>2
<1>5. T!UndoGoesBackStep
  BY <1>2 DEF T!UndoGoesBackStep, T!Last
<1> QED
  BY <1>3, <1>4, <1>5

LEMMA PastingKeeps ==
  ASSUME TileTypes, Ring(cell, undo, oldest, pos, past), NEW at, T!Paste(at)
  PROVE  TileTypes' /\ Ring(cell, undo, oldest, pos, past)'
<1>1. cell' \in Grid /\ SameColumns(cell', cell) /\ UNCHANGED <<undo, pos, oldest>>
  BY PasteKeeps DEF T!Paste, TileTypes
<1>2. PICK n \in Nat : n = Len(past)
  BY LenProperties DEF TileTypes
<1>3. past' = [i \in 1..n |-> T!Unknown]
  BY <1>2, LenProperties DEF T!Paste, TileTypes
<1>4. past' \in Seq(Snap) /\ Len(past') = n
  <2>1. past' \in [1..n -> Snap]
    BY <1>3 DEF Snap
  <2> QED
    BY <2>1, SeqDef
<1>5. TileTypes'
  BY <1>1, <1>2, <1>4 DEF TileTypes
<1>6. \A i \in 1..n : past'[i] = T!Unknown
  BY <1>3
<1>7. Ring(cell', undo', oldest', pos', past')
  BY <1>1, <1>2, <1>4, <1>6 DEF Ring, SameColumns, BackFrom
<1> QED
  BY <1>5, <1>7

\* The copy of an object aims where the object does.
LEMMA CopiedTarget ==
  ASSUME ObjectsInv, T!CopyKey
  PROVE  \E t \in Int : objs' = T!WithNew(objs, t)
<1>1. PICK t : t = T!ObjectAt(T!Targets(objs, T!Shifted), chosen).target
  OBVIOUS
<1>2. objs' = T!WithNew(objs, t)
  BY <1>1 DEF T!CopyKey
<1>3. PICK n \in Nat : n = Len(objs)
  BY LenProperties DEF ObjectsInv
<1>4. PICK k \in 1..n : k = chosen + 1
  BY <1>3 DEF T!CopyKey, T!Objs
<1>5. objs[k] \in MapObject /\ DOMAIN objs = 1..n
  BY <1>3, <1>4, ElementOfSeq, LenProperties DEF ObjectsInv
<1>6. T!Targets(objs, T!Shifted)[k]
      = [objs[k] EXCEPT !.target = IF objs[k].target \in 0..(n - 1) THEN objs[k].target + 1 ELSE -1]
  BY <1>3, <1>4, <1>5 DEF T!Targets, T!Shifted, T!None
<1>7. PICK v \in Int : v = IF objs[k].target \in 0..(n - 1) THEN objs[k].target + 1 ELSE -1
  <2> PICK old \in Int : old = objs[k].target
    BY <1>5 DEF MapObject
  <2> QED
    OBVIOUS
<1>8. t = v
  BY <1>1, <1>4, <1>5, <1>6, <1>7 DEF T!ObjectAt, MapObject
<1> QED
  BY <1>2, <1>8

LEMMA MapInvNext == MapInv /\ [T!Next]_mapVars => MapInv'
<1> SUFFICES ASSUME MapInv, [T!Next]_mapVars PROVE MapInv'
  OBVIOUS
<1>1. TileTypes /\ Ring(cell, undo, oldest, pos, past) /\ ObjectsInv
  BY DEF MapInv
<1>2. ASSUME UNCHANGED T!objVars PROVE ObjectsInv'
  BY <1>1, <1>2 DEF ObjectsInv, T!objVars, T!Picked, T!Objs
<1>3. ASSUME UNCHANGED <<cell, undo, pos, oldest, past>>
      PROVE  TileTypes' /\ Ring(cell, undo, oldest, pos, past)'
  BY <1>1, <1>3 DEF TileTypes, Ring
<1>4. CASE UNCHANGED mapVars
  BY <1>2, <1>3, <1>4 DEF MapInv, mapVars, T!objVars
<1>5. ASSUME NEW x1, NEW l, NEW t, T!SetTile(x1, l, t) PROVE MapInv'
  BY <1>1, <1>2, <1>5, SetTileKeeps DEF MapInv, T!SetTile
<1>6. CASE T!Undo
  BY <1>1, <1>2, <1>6, UndoKeeps DEF MapInv, T!Undo
<1>7. ASSUME NEW x1, T!MarkTile(x1) PROVE MapInv'
  BY <1>2, <1>3, <1>7 DEF MapInv, T!MarkTile
<1>8. ASSUME NEW x1, T!Paste(x1) PROVE MapInv'
  BY <1>1, <1>2, <1>8, PastingKeeps DEF MapInv, T!Paste
<1>9. CASE T!ObjectClick \/ T!ObjectDrag
  <2>1. PICK b, from : T!Turn(b, from)
    BY <1>9 DEF T!ObjectClick, T!ObjectDrag
  <2> QED
    BY <1>1, <1>3, <2>1, TurnKeeps DEF MapInv, T!tileVars
<1>10. CASE T!Release
  BY <1>1, <1>3, <1>10 DEF T!Release, T!tileVars, MapInv, ObjectsInv, T!Picked, T!Objs
<1>11. CASE T!CopyKey
  <2>1. PICK t \in Int : objs' = T!WithNew(objs, t)
    BY <1>1, <1>11, CopiedTarget
  <2>2. made' = made + 1 /\ chosen' = 0
    BY <1>11 DEF T!CopyKey
  <2>3. ObjectsInv'
    BY <1>1, <2>1, <2>2, MadeInFront
  <2> QED
    BY <1>3, <1>11, <2>3 DEF MapInv, T!CopyKey, T!tileVars
<1>12. CASE T!ChooseKey
  <2>1. T!Picked' = T!Picked
    BY <1>12 DEF T!ChooseKey, T!Picked, T!Objs
  <2> QED
    BY <1>1, <1>3, <1>12, <2>1 DEF T!ChooseKey, T!tileVars, MapInv, ObjectsInv
<1>13. CASE T!RemoveKey
  BY <1>1, <1>3, <1>13, TakenOutKeeps DEF MapInv, T!RemoveKey, T!tileVars
<1>14. CASE T!NewMap \/ T!Resize
  <2>1. PICK w \in Widths :
          \/ cell' = [x1 \in 0..(w - 1) |-> T!Blank]
          \/ cell' = [x1 \in 0..(w - 1) |-> IF x1 \in T!Columns THEN cell[x1] ELSE T!Blank]
    BY <1>14 DEF T!NewMap, T!Resize
  <2>2. T!Blank \in [T!Layers -> Int]
    BY DEF T!Blank, T!None
  <2>3. PICK v \in Nat \ {0} : cell \in [0..(v - 1) -> [T!Layers -> Int]]
    BY <1>1, GridIs DEF TileTypes
  <2>4. cell' \in [0..(w - 1) -> [T!Layers -> Int]] /\ w \in Nat \ {0}
    BY <2>1, <2>2, <2>3, MapNumbers DEF T!Columns
  <2>5. cell' \in Grid
    BY <2>4 DEF Grid
  <2> QED
    BY <1>14, <2>5, FreshMap DEF T!NewMap, T!Resize
<1> QED
  BY <1>4, <1>5, <1>6, <1>7, <1>8, <1>9, <1>10, <1>11, <1>12, <1>13, <1>14
     DEF T!Next, T!Tiling, T!Placing

\* RingAgrees and the steps of the ring and of the targets follow.
LEMMA MapInvImplies == MapInv => T!RingAgrees
<1> SUFFICES ASSUME MapInv PROVE T!RingAgrees
  OBVIOUS
<1>1. PICK n \in Nat : n = Len(past) /\ n < MaxUndo
  BY LenProperties DEF MapInv, TileTypes
<1>2. PICK o \in 0..(MaxUndo - 1) : o = oldest
  BY DEF MapInv, TileTypes
<1>3. PICK q \in 0..(MaxUndo - 1) : q = pos
  BY DEF MapInv, TileTypes
<1>4. q = PlaceAfter(o, n) /\ \A i \in 1..n : undo[PlaceAfter(o, i - 1)].x \in DOMAIN cell
  BY <1>1, <1>2, <1>3 DEF MapInv, Ring
<1>5. (q - o) % MaxUndo = n
  <2>1. n \in 0..(MaxUndo - 1)
    BY <1>1, MapNumbers
  <2>2. (PlaceAfter(o, n) - o) % MaxUndo = n
    BY <2>1, PlacesDiffer, Zenon
  <2> QED
    BY <1>4, <2>2
<1>6. ASSUME NEW k \in 0..(MaxUndo - 1), (k - o) % MaxUndo < n
      PROVE  undo[k].x \in DOMAIN cell
  <2>1. (k - o) % MaxUndo = IF k >= o THEN k - o ELSE k - o + MaxUndo
    BY ModPlace, MapNumbers
  <2>2. PICK d : d = (k - o) % MaxUndo
    OBVIOUS
  <2>3. d < n /\ d = IF k >= o THEN k - o ELSE k - o + MaxUndo
    BY <1>6, <2>1, <2>2
  <2>4. PICK i \in 1..n : i - 1 = IF k >= o THEN k - o ELSE k - o + MaxUndo
    <3>1. d \in 0..(n - 1)
      BY <1>1, <2>3, MapNumbers
    <3>2. d + 1 \in 1..n
      BY <1>1, <3>1
    <3>3. PICK i \in 1..n : i = d + 1
      BY <3>2
    <3> QED
      BY <2>3, <3>1, <3>3
  <2>5. k = PlaceAfter(o, i - 1)
    BY <2>4, MapNumbers DEF PlaceAfter
  <2> QED
    BY <1>4, <2>5
<1>7. T!Undoable /\ T!RecordsInside
  BY <1>1, <1>2, <1>3, <1>5, <1>6 DEF T!Undoable, T!RecordsInside, T!Columns
<1> QED
  BY <1>7 DEF MapInv, ObjectsInv, T!ChosenExists, T!RingAgrees

LEMMA UndoGoesBack == MapInv /\ [T!Next]_mapVars => T!UndoGoesBackStep
<1>1. T!Undo /\ MapInv => T!UndoGoesBackStep
  BY UndoKeeps DEF MapInv
<1>2. ~T!Undo => T!UndoGoesBackStep
  BY DEF T!UndoGoesBackStep
<1> QED
  BY <1>1, <1>2

\* An object in front moves every target by one; the objects stay the same.
LEMMA TargetsShift ==
  ASSUME ObjectsInv, NEW t \in Int, objs' = T!WithNew(objs, t)
  PROVE  \A i \in DOMAIN objs, j \in DOMAIN objs' :
           objs[i].id = objs'[j].id =>
             T!Denotes(objs', objs'[j]) =
               IF T!Denotes(objs, objs[i]) \in T!Ids(objs') THEN T!Denotes(objs, objs[i]) ELSE T!None
<1>1. PICK n \in Nat : n = Len(objs) /\ DOMAIN objs = 1..n
  BY LenProperties DEF ObjectsInv
<1>2. PICK m \in Nat : m = made
  BY DEF ObjectsInv
<1>3. PICK os : os = objs'
  OBVIOUS
<1>4. /\ os \in Seq(MapObject) /\ Len(os) = n + 1
      /\ os[1] = [id |-> m + 1, target |-> t]
      /\ \A i \in 1..n : /\ os[i + 1].id = objs[i].id
                         /\ os[i + 1].target = NewPlace(objs[i].target, n)
  <2>1. /\ objs' \in Seq(MapObject) /\ Len(objs') = n + 1
        /\ objs'[1] = [id |-> made + 1, target |-> t]
        /\ \A i \in 1..n : /\ objs'[i + 1].id = objs[i].id
                           /\ objs'[i + 1].target = NewPlace(objs[i].target, n)
    BY <1>1, InFront DEF ObjectsInv
  <2> QED
    BY <1>2, <1>3, <2>1
<1>5. DOMAIN os = 1..(n + 1)
  BY <1>1, <1>4, LenProperties
<1>6. \A i \in 1..n : objs[i].id \in 1..m
  BY <1>1, <1>2 DEF ObjectsInv
<1> SUFFICES ASSUME NEW i \in 1..n, NEW j \in 1..(n + 1), objs[i].id = os[j].id
             PROVE  T!Denotes(os, os[j]) =
                      IF T!Denotes(objs, objs[i]) \in T!Ids(os) THEN T!Denotes(objs, objs[i]) ELSE T!None
  BY <1>1, <1>3, <1>5
<1>7. j = i + 1
  <2>1. j # 1
    BY <1>4, <1>6
  <2>2. PICK k \in 1..n : j = k + 1
    <3>1. j - 1 \in 1..n
      BY <2>1
    <3>2. PICK k \in 1..n : k = j - 1
      BY <3>1
    <3> QED
      BY <3>2
  <2>3. objs[i].id = objs[k].id
    BY <1>4, <2>2
  <2> QED
    BY <1>1, <2>2, <2>3 DEF ObjectsInv
<1>8. PICK v \in Int : v = objs[i].target
  <2>1. objs \in Seq(MapObject) /\ i \in 1..Len(objs)
    BY <1>1 DEF ObjectsInv
  <2>2. objs[i] \in MapObject
    BY <2>1, ElementOfSeq
  <2> QED
    BY <2>2 DEF MapObject
<1>9. os[j].target = IF v \in 0..(n - 1) THEN v + 1 ELSE -1
  BY <1>4, <1>7, <1>8 DEF NewPlace
<1>10. CASE v \in 0..(n - 1)
  <2>1. PICK k \in 1..n : k = v + 1
    BY <1>10
  <2>2. os[j].target = k /\ k \in 0..n
    BY <1>9, <1>10, <2>1
  <2>3. T!Denotes(objs, objs[i]) = objs[k].id
    BY <1>1, <1>8, <1>10, <2>1 DEF T!Denotes, T!ObjectAt
  <2>4. T!Denotes(os, os[j]) = os[k + 1].id
    BY <1>4, <2>2 DEF T!Denotes, T!ObjectAt
  <2>5. os[k + 1].id = objs[k].id /\ k + 1 \in 1..(n + 1)
    BY <1>4
  <2>6. objs[k].id \in T!Ids(os)
    BY <1>5, <2>5 DEF T!Ids
  <2> QED
    BY <2>3, <2>4, <2>5, <2>6
<1>11. CASE v \notin 0..(n - 1)
  <2>1. PICK w \in Int : w = os[j].target /\ w = -1
    BY <1>9, <1>11
  <2>2. T!Denotes(objs, objs[i]) = T!None
    BY <1>1, <1>8, <1>11 DEF T!Denotes
  <2>3. T!Denotes(os, os[j]) = T!None
    BY <1>4, <2>1 DEF T!Denotes
  <2> QED
    BY <2>2, <2>3
<1> QED
  BY <1>10, <1>11

\* An object taken out is the target of none; the others stay the same.
LEMMA TargetsClose ==
  ASSUME ObjectsInv, chosen \in T!Objs, objs' = T!WithoutPlace(objs, chosen)
  PROVE  \A i \in DOMAIN objs, j \in DOMAIN objs' :
           objs[i].id = objs'[j].id =>
             T!Denotes(objs', objs'[j]) =
               IF T!Denotes(objs, objs[i]) \in T!Ids(objs') THEN T!Denotes(objs, objs[i]) ELSE T!None
<1>1. PICK n \in Nat : n = Len(objs) /\ DOMAIN objs = 1..n /\ objs \in Seq(MapObject)
  BY LenProperties DEF ObjectsInv
<1>2. PICK k \in 0..(n - 1) : k = chosen
  BY <1>1 DEF T!Objs
<1>3. PICK os : os = objs'
  OBVIOUS
<1>4. /\ os \in Seq(MapObject) /\ Len(os) = n - 1
      /\ \A i \in 1..(n - 1) : \A m \in 1..n :
           m = (IF i < k + 1 THEN i ELSE i + 1) =>
             /\ os[i].id = objs[m].id
             /\ os[i].target
                = IF objs[m].target \in 0..(n - 1) /\ objs[m].target # k
                  THEN IF objs[m].target > k THEN objs[m].target - 1 ELSE objs[m].target
                  ELSE -1
  <2>1. OutOf(T!WithoutPlace(objs, k), n, k)
    BY <1>1, TakenOut
  <2>2. os = T!WithoutPlace(objs, k)
    BY <1>2, <1>3
  <2> QED
    BY <2>1, <2>2, Zenon DEF OutOf
<1>5. DOMAIN os = 1..(n - 1)
  BY <1>1, <1>4, LenProperties
<1>6. /\ \A i \in 1..n : objs[i].id \in Nat \ {0}
      /\ \A i, j \in 1..n : objs[i].id = objs[j].id => i = j
  <2>1. PICK b \in Nat : \A i \in 1..n : objs[i].id \in 1..b
    BY <1>1, Zenon DEF ObjectsInv
  <2>2. \A i, j \in 1..n : objs[i].id = objs[j].id => i = j
    BY <1>1, Zenon DEF ObjectsInv
  <2> QED
    BY <2>1, <2>2
<1> SUFFICES ASSUME NEW i \in 1..n, NEW j \in 1..(n - 1), objs[i].id = os[j].id
             PROVE  T!Denotes(os, os[j]) =
                      IF T!Denotes(objs, objs[i]) \in T!Ids(os) THEN T!Denotes(objs, objs[i]) ELSE T!None
  BY <1>1, <1>3, <1>5
<1>7. i = IF j < k + 1 THEN j ELSE j + 1
  <2>1. PICK m \in 1..n : m = IF j < k + 1 THEN j ELSE j + 1
    BY <1>2
  <2>2. objs[i].id = objs[m].id
    BY <1>4, <2>1
  <2> QED
    BY <1>6, <2>1, <2>2
<1>8. PICK v \in Int : v = objs[i].target
  <2>1. i \in 1..Len(objs)
    BY <1>1
  <2>2. objs[i] \in MapObject
    BY <1>1, <2>1, ElementOfSeq
  <2> QED
    BY <2>2 DEF MapObject
<1>9. os[j].target = IF v \in 0..(n - 1) /\ v # k THEN IF v > k THEN v - 1 ELSE v ELSE -1
  BY <1>4, <1>7, <1>8
<1>10. CASE v \in 0..(n - 1) /\ v # k
  <2>1. PICK g \in 1..n : g = v + 1
    BY <1>10
  <2>2. PICK h \in 1..(n - 1) : h = (IF v > k THEN v - 1 ELSE v) + 1
    BY <1>2, <1>10
  <2>3. PICK w \in 0..(n - 2) : w = os[j].target /\ h = w + 1
    BY <1>2, <1>9, <1>10, <2>2
  <2>4. T!Denotes(objs, objs[i]) = objs[g].id
    BY <1>1, <1>8, <1>10, <2>1 DEF T!Denotes, T!ObjectAt
  <2>5. T!Denotes(os, os[j]) = os[h].id
    BY <1>4, <2>3 DEF T!Denotes, T!ObjectAt
  <2>6. g = IF h < k + 1 THEN h ELSE h + 1
    BY <1>2, <1>10, <2>1, <2>2
  <2>7. os[h].id = objs[g].id
    BY <1>4, <2>6
  <2>8. objs[g].id \in T!Ids(os)
    BY <1>5, <2>7 DEF T!Ids
  <2> QED
    BY <2>4, <2>5, <2>7, <2>8
<1>11. CASE ~(v \in 0..(n - 1) /\ v # k)
  <2>1. PICK w \in Int : w = os[j].target /\ w = -1
    BY <1>9, <1>11
  <2>2. T!Denotes(os, os[j]) = T!None
    BY <1>4, <2>1 DEF T!Denotes
  <2>3. CASE v \notin 0..(n - 1)
    <3>1. T!Denotes(objs, objs[i]) = T!None
      BY <1>1, <1>8, <2>3 DEF T!Denotes
    <3> QED
      BY <2>2, <3>1
  <2>4. CASE v = k
    <3>1. PICK g \in 1..n : g = k + 1
      BY <1>2
    <3>2. T!Denotes(objs, objs[i]) = objs[g].id
      BY <1>1, <1>8, <2>4, <3>1 DEF T!Denotes, T!ObjectAt
    <3>3. ASSUME NEW h \in 1..(n - 1) PROVE os[h].id # objs[g].id
      <4>1. PICK m \in 1..n : m = IF h < k + 1 THEN h ELSE h + 1
        BY <1>2
      <4>2. m # g
        BY <1>2, <3>1, <4>1
      <4>3. os[h].id = objs[m].id
        BY <1>4, <4>1
      <4>4. objs[m].id # objs[g].id
        BY <1>6, <4>2
      <4> QED
        BY <4>3, <4>4
    <3>4. objs[g].id \notin T!Ids(os)
      BY <1>5, <3>3 DEF T!Ids
    <3> QED
      BY <2>2, <3>2, <3>4
  <2> QED
    BY <1>11, <2>3, <2>4
<1> QED
  BY <1>10, <1>11

LEMMA TargetsFollow == MapInv /\ [T!Next]_mapVars => T!TargetsFollowStep
<1> SUFFICES ASSUME MapInv, T!CopyKey \/ T!RemoveKey \/ ((T!ObjectClick \/ T!ObjectDrag) /\ made' > made)
             PROVE  \A i \in DOMAIN objs, j \in DOMAIN objs' :
                      objs[i].id = objs'[j].id =>
                        T!Denotes(objs', objs'[j]) =
                          IF T!Denotes(objs, objs[i]) \in T!Ids(objs') THEN T!Denotes(objs, objs[i])
                          ELSE T!None
  BY DEF T!TargetsFollowStep
<1>1. ObjectsInv
  BY DEF MapInv
<1>2. CASE T!CopyKey
  <2>1. PICK t \in Int : objs' = T!WithNew(objs, t)
    BY <1>1, <1>2, CopiedTarget
  <2> QED
    BY <1>1, <2>1, TargetsShift
<1>3. CASE T!RemoveKey
  BY <1>1, <1>3, TargetsClose DEF T!RemoveKey
<1>4. CASE (T!ObjectClick \/ T!ObjectDrag) /\ made' > made
  <2>1. PICK b, from : T!Turn(b, from)
    BY <1>4 DEF T!ObjectClick, T!ObjectDrag
  <2>2. made' # made
    BY <1>1, <1>4 DEF ObjectsInv
  <2>3. ~T!MoveTurn(from) /\ ~T!AimTurn(from)
    BY <2>2 DEF T!MoveTurn, T!AimTurn
  <2>4. T!EditTurn(from)
    BY <2>1, <2>3 DEF T!Turn
  <2>5. objs' = T!WithNew(objs, T!None)
    BY <2>2, <2>4 DEF T!EditTurn
  <2>6. PICK t \in Int : t = T!None
    BY DEF T!None
  <2> QED
    BY <1>1, <2>5, <2>6, TargetsShift
<1> QED
  BY <1>2, <1>3, <1>4

-----------------------------------------------------------------------------
(***************************************************************************)
(* All parts.  A behavior belongs to one of them.                          *)
(***************************************************************************)
EditorInv == /\ part = "edit" => BoxInv
             /\ part = "control" => ControlInv
             /\ part = "dialog" => DialogsInv
             /\ part \in {"tiles", "objects"} => MapInv
             /\ part = "view" => ViewInv

LEMMA PartStep ==
  [EditorNext]_vars =>
    /\ part' = part
    /\ part = "edit" => [E!Next]_editVars
    /\ part = "control" => [W!Next]_ctl
    /\ part = "dialog" => [D!Next]_dialogVars
    /\ part \in {"tiles", "objects"} => [T!Next]_mapVars
    /\ part = "view" => [V!Next]_viewVars
<1> SUFFICES ASSUME [EditorNext]_vars
             PROVE  /\ part' = part
                    /\ part = "edit" => [E!Next]_editVars
                    /\ part = "control" => [W!Next]_ctl
                    /\ part = "dialog" => [D!Next]_dialogVars
                    /\ part \in {"tiles", "objects"} => [T!Next]_mapVars
                    /\ part = "view" => [V!Next]_viewVars
  OBVIOUS
<1>1. CASE Editing
  BY <1>1 DEF Editing
<1>2. CASE Clicking
  BY <1>2 DEF Clicking
<1>3. CASE Asking
  BY <1>3 DEF Asking
<1>4. CASE Choosing
  BY <1>4 DEF Choosing
<1>5. CASE Tiling
  BY <1>5 DEF Tiling, T!Next
<1>6. CASE Placing
  BY <1>6 DEF Placing, T!Next
<1>7. CASE Viewing
  BY <1>7 DEF Viewing
<1>8. CASE Saving
  BY <1>8 DEF Saving
<1>9. CASE UNCHANGED vars
  BY <1>9 DEF vars
<1> QED
  BY <1>1, <1>2, <1>3, <1>4, <1>5, <1>6, <1>7, <1>8, <1>9 DEF EditorNext

LEMMA EditorInvInit == EditorInit => EditorInv
<1> SUFFICES ASSUME EditorInit PROVE EditorInv
  OBVIOUS
<1>1. D!DialogsAssumption
  BY EditorAssumption
<1>2. /\ part = "edit" => E!Init
      /\ part = "control" => W!Init
      /\ part = "dialog" => D!Init
      /\ part \in {"tiles", "objects"} => T!Init
      /\ part = "view" => V!Init
  BY DEF EditorInit, Start
<1> QED
  BY <1>1, <1>2, BoxInvInit, ControlInvInit, DialogsInvInit, MapInvInit, ViewInvInit DEF EditorInv

LEMMA EditorInvNext == EditorInv /\ [EditorNext]_vars => EditorInv'
<1> SUFFICES ASSUME EditorInv, [EditorNext]_vars PROVE EditorInv'
  OBVIOUS
<1>1. D!DialogsAssumption
  BY EditorAssumption
<1>2. /\ part' = "edit" => BoxInv'
      /\ part' = "control" => ControlInv'
      /\ part' = "dialog" => DialogsInv'
      /\ part' \in {"tiles", "objects"} => MapInv'
      /\ part' = "view" => ViewInv'
  BY <1>1, PartStep, BoxInvNext, ControlInvNext, DialogsInvNext, MapInvNext, ViewInvNext DEF EditorInv
<1> QED
  BY <1>2 DEF EditorInv

LEMMA EditorInvImplies == EditorInv => EditorAgrees
<1>1. D!DialogsAssumption
  BY EditorAssumption
<1> QED
  BY <1>1, ControlInvImplies, DialogsInvImplies, MapInvImplies, ViewInvImplies
     DEF EditorInv, EditorAgrees

\* The steps the properties of the editor speak of.
LEMMA EditorSteps ==
  EditorInv /\ [EditorNext]_vars =>
    /\ part = "edit" => E!StaysSoundStep
    /\ part = "dialog" => D!LockedAsleepStep
    /\ part = "tiles" => T!UndoGoesBackStep
    /\ part = "objects" => T!TargetsFollowStep
    /\ part = "view" => V!ViewFollowsStep
<1>1. D!DialogsAssumption
  BY EditorAssumption
<1> QED
  BY <1>1, PartStep, BoxStays, StepAsleep, UndoGoesBack, TargetsFollow, ViewFollows DEF EditorInv

\* A list, a check box, a button, a scroll bar and a menu show what they hold
\* (stdctrl.c); the loops of the dialogs are nested as the dialogs were
\* opened, each below the innermost is locked, and one control has the focus
\* (dialog.c, win_io.c); the undo ring of the map editor holds a record of
\* every change that can be taken back, on tiles the map has, whatever its
\* size (procs.c); and the part of a map that is drawn is inside the map and
\* the image (draw.c).
THEOREM EditorStaysRight == EditorSpec => []EditorAgrees
BY EditorInvInit, EditorInvNext, EditorInvImplies, PTL DEF EditorSpec

\* No key, paste or click takes the cursor or the selection out of the text,
\* for any limit of its length (edit_proc), save in the three ways that
\* EditControl.Exposed names.
THEOREM TextsStaySound == EditorSpec => TextStaysSound
<1>1. EditorInv /\ [EditorNext]_vars => [part = "edit" => E!StaysSoundStep]_vars
  BY EditorSteps
<1> QED
  BY <1>1, EditorInvInit, EditorInvNext, PTL DEF EditorSpec, TextStaysSound

\* A dialog that opened another one takes no key and no click before the other
\* is closed (process_event), for any tree of dialogs.
THEOREM LockedDialogsSleep == EditorSpec => DialogsAboveOnly
<1>1. EditorInv /\ [EditorNext]_vars => [part = "dialog" => D!LockedAsleepStep]_vars
  BY EditorSteps
<1> QED
  BY <1>1, EditorInvInit, EditorInvNext, PTL DEF EditorSpec, DialogsAboveOnly

\* An undo brings back the tiles of before the latest change; the targets stay
\* with their objects when the list moves; and the view and the palette follow
\* the map and the tiles (map_undo, create_map_object, delete_map_object,
\* map_map_proc, ximage_proc), for maps, tile sets and undo rings of any size.
THEOREM EditsAreFollowed == EditorSpec => EditsFollow
<1>1. EditorInv /\ [EditorNext]_vars =>
        [/\ part = "tiles" => T!UndoGoesBackStep
         /\ part = "objects" => T!TargetsFollowStep
         /\ part = "view" => V!ViewFollowsStep]_vars
  BY EditorSteps
<1> QED
  BY <1>1, EditorInvInit, EditorInvNext, PTL DEF EditorSpec, EditsFollow
=============================================================================
