------------------------------ MODULE Dialogs ------------------------------
(***************************************************************************)
(* The dialog manager (xdialogs/dialog.c, win_io.c, window.c).  A dialog   *)
(* runs a loop of its own, nested in the handler that opened it, and every *)
(* loop delivers the X events of all windows: what keeps an event from the *)
(* dialogs below is only the lock count d2 that a dialog raises in its     *)
(* parent.  The events that wait when a loop looks are all delivered       *)
(* before the loop looks at D_CLOSE.                                       *)
(* Control 0 of a dialog is its window; the others are 1 .. Controls[d].   *)
(***************************************************************************)
EXTENDS Integers, Sequences, FiniteSets, SequencesExt

CONSTANTS Dlgs, Main, NoDlg,
          Parent,       \* dialog -> the dialog it is opened from
          Controls,     \* dialog -> number of controls
          Wants,        \* dialog -> the controls that answer D_WANTFOCUS
          Exits,        \* dialog -> the controls with D_EXIT
          Opens,        \* dialog -> the controls whose handler opens dialogs
          First         \* dialog -> the control that gets the focus first, or -1

DialogsAssumption ==
  /\ Main \in Dlgs /\ NoDlg \notin Dlgs /\ Parent \in [Dlgs -> Dlgs \cup {NoDlg}]
  /\ \A d \in Dlgs : /\ Controls[d] \in Nat \ {0}
                     /\ Wants[d] \subseteq 1 .. Controls[d] /\ Wants[d] # {}
                     /\ First[d] \in -1 .. Controls[d]
  /\ Parent[Main] = NoDlg

VARIABLES loops,        \* the running loops, outermost first: [dlg, at]
          win,          \* d4: the dialogs that have a window, with its controls
          alive,        \* d5: the dialogs that take messages
          focus,        \* d1 of each dialog: the control with the focus
          flagged,      \* the controls with D_GOTFOCUS
          lock,         \* d2: locking children
          closed        \* D_CLOSE of each dialog

vars == <<loops, win, alive, focus, flagged, lock, closed>>

Inner == loops[Len(loops)]
At(place) == loops # <<>> /\ Inner.at = place
Goto(place) == [loops EXCEPT ![Len(loops)].at = place]

\* find_dialog_focus: the first control that is flagged, or the window
FocusOf(d, flags, wanted) ==
  IF wanted >= 0 THEN wanted ELSE IF flags = {} THEN 0
  ELSE CHOOSE c \in flags : \A e \in flags : c <= e

Flags(d) == IF First[d] > 0 /\ d # Main THEN {First[d]} ELSE {}

Init ==
  /\ loops = <<[dlg |-> Main, at |-> "look"]>>
  /\ win = {Main} /\ alive = {Main}
  /\ focus = [d \in Dlgs |-> IF d = Main THEN First[Main] ELSE 0]
  /\ flagged = [d \in Dlgs |-> {}]
  /\ lock = [d \in Dlgs |-> 0]
  /\ closed = [d \in Dlgs |-> FALSE]

-----------------------------------------------------------------------------
\* do_dialog_step: nothing waits, MSG_IDLE is broadcast; or the waiting events
\* are delivered one after the other
Idle == At("look") /\ ~ closed[Inner.dlg] /\ UNCHANGED vars
Look ==
  /\ At("look") /\ ~ closed[Inner.dlg]
  /\ loops' = Goto("events")
  /\ UNCHANGED <<win, alive, focus, flagged, lock, closed>>
Looked ==
  /\ At("events")
  /\ loops' = Goto("look")
  /\ UNCHANGED <<win, alive, focus, flagged, lock, closed>>

\* process_event delivers to the dialog of the window the event is for: from the
\* loop of a dialog, or from the loop in which a control reads the mouse
\* (win_read_mouse) before its handler opens anything
Takes(d) == (At("events") \/ At("handler")) /\ d \in alive
\* Mutant of Awake: Also a dialog with another one above it takes input.
AwakeAlways(d) == Takes(d)

Awake(d) == Takes(d) /\ lock[d] = 0

\* WM_DELETE_WINDOW
Delete(d) ==
  /\ Awake(d)
  /\ focus' = [focus EXCEPT ![d] = -1]
  /\ closed' = [closed EXCEPT ![d] = TRUE]
  /\ UNCHANGED <<loops, win, alive, flagged, lock>>

\* a key goes to the control with the focus.  After Delete there is none, and
\* what the code then calls is undefined
Key(d) == Awake(d) /\ focus[d] >= 0

\* Return, or a key of the control: it closes the dialog or opens another one
ReturnKey(d) ==
  /\ Key(d) /\ focus[d] \in Exits[d] \cup Opens[d]
  /\ closed' = [closed EXCEPT ![d] = @ \/ focus[d] \in Exits[d]]
  /\ loops' = IF focus[d] \in Opens[d] THEN Goto("handler") ELSE loops
  /\ UNCHANGED <<win, alive, focus, flagged, lock>>

\* move_dialog_focus: the next control, or the one before, that wants it
Distance(d, c, inc) ==
  IF inc = 1 THEN (c - focus[d]) % (Controls[d] + 1) ELSE (focus[d] - c) % (Controls[d] + 1)
NextFocus(d, inc) ==
  IF Wants[d] \ {focus[d]} = {} THEN focus[d]
  ELSE CHOOSE c \in Wants[d] \ {focus[d]} :
         \A e \in Wants[d] \ {focus[d]} : Distance(d, c, inc) <= Distance(d, e, inc)
Refocus(d, c) ==
  /\ focus' = [focus EXCEPT ![d] = c]
  /\ flagged' = [flagged EXCEPT ![d] = IF c = focus[d] THEN @ ELSE (@ \ {focus[d]}) \cup {c}]
TabKey(d) ==
  /\ Key(d)
  /\ \E inc \in {1, -1} : Refocus(d, NextFocus(d, inc))
  /\ UNCHANGED <<loops, win, alive, lock, closed>>

\* ButtonPress on control c: it takes the focus if it wants it, closes the
\* dialog if it is a button of that kind, or opens another dialog
Press(d, c) ==
  IF c \in Wants[d]
  THEN /\ focus' = [focus EXCEPT ![d] = c]
       /\ flagged' = [flagged EXCEPT ![d] = (@ \ {focus[d]}) \cup {c}]
  ELSE UNCHANGED <<focus, flagged>>
Click(d, c) ==
  /\ Awake(d)
  /\ Press(d, c)
  /\ closed' = [closed EXCEPT ![d] = @ \/ c \in Exits[d]]
  /\ loops' = IF c \in Opens[d] THEN Goto("handler") ELSE loops
  /\ UNCHANGED <<win, alive, lock>>

\* in a handler, or one that runs inside it: do_dialog_window with create_window,
\* init_dialog
Open(d) ==
  /\ At("handler")
  /\ Parent[d] = Inner.dlg /\ d \notin win
  /\ win' = win \cup {d}
  /\ alive' = alive \cup {d}
  /\ focus' = [focus EXCEPT ![d] = FocusOf(d, Flags(d), -1)]
  /\ flagged' = [flagged EXCEPT ![d] = IF Flags(d) = {} THEN {0} ELSE Flags(d)]
  /\ lock' = [lock EXCEPT ![Parent[d]] = @ + 1, ![d] = 0]
  /\ closed' = [closed EXCEPT ![d] = FALSE]
  /\ loops' = Append(loops, [dlg |-> d, at |-> "look"])

\* the handler returns to process_event, for the rest of the events
Handled ==
  /\ At("handler")
  /\ loops' = Goto("events")
  /\ UNCHANGED <<win, alive, focus, flagged, lock, closed>>

\* Mutant of Finish: A dialog that closes leaves its parent locked.
FinishLocked ==
  /\ At("look") /\ closed[Inner.dlg]
  /\ alive' = alive \ {Inner.dlg}
  /\ win' = win \ {Inner.dlg}
  /\ loops' = SubSeq(loops, 1, Len(loops) - 1)
  /\ UNCHANGED <<focus, flagged, lock, closed>>

\* the loop sees D_CLOSE: end_dialog and close_window; control goes back to
\* the handler that opened the dialog
Finish ==
  /\ At("look") /\ closed[Inner.dlg]
  /\ alive' = alive \ {Inner.dlg}
  /\ win' = win \ {Inner.dlg}
  /\ lock' = IF Parent[Inner.dlg] = NoDlg THEN lock
             ELSE [lock EXCEPT ![Parent[Inner.dlg]] = @ - 1]
  /\ loops' = SubSeq(loops, 1, Len(loops) - 1)
  /\ UNCHANGED <<focus, flagged, closed>>

Next == \/ Idle \/ Look \/ Looked \/ Handled \/ Finish
        \/ \E d \in Dlgs : \/ Delete(d) \/ ReturnKey(d) \/ TabKey(d) \/ Open(d)
                           \/ \E c \in 0 .. Controls[d] : Click(d, c)

Spec == Init /\ [][Next]_vars

-----------------------------------------------------------------------------
\* The lock count of a dialog is the number of dialogs open above it, the
\* loops run from parent to child, and at most the control in d1 is flagged as
\* having the focus, unless the dialog is about to end.
Running == {loops[i].dlg : i \in DOMAIN loops}
LocksMatch == \A d \in alive : lock[d] = Cardinality({e \in alive : Parent[e] = d})
Nested == /\ win = Running /\ alive = Running
          /\ \A i \in 2 .. Len(loops) : Parent[loops[i].dlg] = loops[i - 1].dlg
OneFocus == \A d \in alive : closed[d] \/ flagged[d] \subseteq {focus[d]}
DialogsAgree == LocksMatch /\ Nested /\ OneFocus

\* A dialog with another one open above it stays as it is: no key, click or
\* WM_DELETE_WINDOW reaches it, whatever is in the queue, until the handler
\* that waits for the answer goes on.
Above(d) == \E e \in alive : Parent[e] = d
LockedAsleepStep ==
  \A d \in Dlgs : Above(d) =>
                     focus'[d] = focus[d] /\ closed'[d] = closed[d] /\ flagged'[d] = flagged[d]
LockedAsleep == [][LockedAsleepStep]_vars

=============================================================================
