---------------------------- MODULE MessageQueue ----------------------------
(***************************************************************************)
(* What send_message and read_message of common.c promise one direction of *)
(* a connection: every message read is the next one that was sent, and a   *)
(* new connection knows nothing of the one before it.                      *)
(***************************************************************************)
EXTENDS Naturals, Sequences

CONSTANT Msg   \* the messages

VARIABLES
  sent,   \* the messages sent over this connection, in order
  got     \* the messages that were read

vars == <<sent, got>>

Init == sent = <<>> /\ got = <<>>

Send(m) == sent' = Append(sent, m) /\ UNCHANGED got

Deliver ==
  /\ Len(got) < Len(sent)
  /\ got' = Append(got, sent[Len(got) + 1])
  /\ UNCHANGED sent

Reconnect == sent' = <<>> /\ got' = <<>>

Next == (\E m \in Msg : Send(m)) \/ Deliver \/ Reconnect

Spec == Init /\ [][Next]_vars
=============================================================================
