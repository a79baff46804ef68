------------------------------ MODULE MCListTop ------------------------------
(***************************************************************************)
(* The controls alone, with a list that may be shorter than its box.       *)
(***************************************************************************)
EXTENDS Widgets

MCMenus == [top |-> <<"leaf", "sub">>, sub |-> <<"leaf", "leaf">>]
=============================================================================
