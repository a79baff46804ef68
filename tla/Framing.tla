------------------------------ MODULE Framing -------------------------------
(***************************************************************************)
(* How messages are cut out of a stream of bytes (common.c): each is sent  *)
(* as its size followed by its contents, and read by reading a size and    *)
(* then as much as it says.  A unit stands for a few bytes that are read   *)
(* and written together: the size, or a part of the contents.              *)
(***************************************************************************)
EXTENDS Integers, Sequences

CONSTANTS
  Msg,       \* the messages
  Size,      \* units of each message with the one of its size: two or more
  Garbage    \* what a message is taken for if its units are not those of one; not in Msg

\* conv_output: what send_message writes.
Units(m) == [i \in 1..Size[m] |-> <<m, i>>]
Unit == UNION {{m} \X (1..Size[m]) : m \in Msg}

SizeOfContents(u) == IF u[2] = 1 THEN {Size[u[1]] - 1} ELSE {Size[m] : m \in Msg}

\* The sizes read_message may find in a unit.  Contents taken for a size are
\* any number; those that are no valid size end the connection, as if there
\* were nothing to read.
SizeIn(u) == IF u[2] = 1 THEN {Size[u[1]]} ELSE {Size[m] : m \in Msg}

\* conv_input: the message made of some units; those that were asked for and
\* not read are whatever the buffer on the stack held.
Message(us) ==
  IF \E m \in Msg : us = Units(m) THEN CHOOSE m \in Msg : us = Units(m) ELSE Garbage
=============================================================================
