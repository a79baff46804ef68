----------------------------- MODULE NetBuffer ------------------------------
(***************************************************************************)
(* One of the two ring buffers that stand for the network in the program   *)
(* for a single player (NET_BUFFER of common.c), between send_message and  *)
(* read_message.                                                           *)
(***************************************************************************)
EXTENDS Framing, SequencesExt

CONSTANTS
  Capacity,   \* nb->size: 4096 bytes
  MaxUnread,  \* bound: units the sender lets wait in the buffer
  MaxSent     \* bound: messages sent

\* A unit stays free, so that a full buffer is never taken for an empty one.
NetBufferAssumption ==
  /\ Size \in [Msg -> Nat \ {0}]
  /\ Capacity \in Nat \ {0} /\ MaxUnread \in 0..(Capacity - 1) /\ MaxSent \in Nat

VARIABLES
  buf, start, end,  \* nb->buf, nb->start, nb->end
  failed,           \* nb_write returned -1
  sent, got         \* the messages sent and read

ring == <<buf, start, end>>
vars == <<ring, failed, sent, got>>

Nothing == <<>>   \* what malloc left in the buffer

Used == (end - start) % Capacity
Contents == [i \in 1..Used |-> buf[(start + i - 1) % Capacity]]
-----------------------------------------------------------------------------
Init ==
  /\ buf = [i \in 0..(Capacity - 1) |-> Nothing] /\ start = 0 /\ end = 0
  /\ failed = FALSE /\ sent = <<>> /\ got = <<>>

\* nb_write: the units us are written up to the one that makes `end' meet
\* `start'.
NbWrite(us) ==
  LET k == Min({Len(us), Capacity - Used})
      at(i) == (end + i - 1) % Capacity
  IN /\ buf' = [j \in DOMAIN buf |->
                  IF \E i \in 1..k : at(i) = j
                  THEN us[CHOOSE i \in 1..k : at(i) = j] ELSE buf[j]]
     /\ end' = (end + k) % Capacity
     /\ failed' = (k = Capacity - Used)
     /\ UNCHANGED start

\* send_message.
Send(m) ==
  /\ Len(sent) < MaxSent /\ Used + Size[m] <= MaxUnread
  /\ NbWrite(Units(m))
  /\ sent' = Append(sent, m)
  /\ UNCHANGED got

HasMessage == end # start

\* nb_read of n units: it stops at the end of the buffer.
NbRead(n) == SubSeq(Contents, 1, Min({n, Used}))

\* read_message: the size, then as much as it says.
Read ==
  /\ HasMessage
  /\ \E n \in SizeIn(Head(Contents)) :
       /\ got' = Append(got, Message(NbRead(n)))
       /\ start' = (start + Len(NbRead(n))) % Capacity
  /\ UNCHANGED <<buf, end, failed, sent>>

Next == (\E m \in Msg : Send(m)) \/ Read

Spec == Init /\ [][Next]_vars
FairSpec == Spec /\ WF_vars(Read)
-----------------------------------------------------------------------------
\* The state is what the declaration of NET_BUFFER allows.
TypeOK ==
  /\ buf \in [0..(Capacity - 1) -> Unit \cup {Nothing}]
  /\ start \in 0..(Capacity - 1) /\ end \in 0..(Capacity - 1)
  /\ failed \in BOOLEAN
  /\ sent \in Seq(Msg) /\ got \in Seq(Msg \cup {Garbage})

\* Wherever the ends of the buffer are, it holds the units of the messages
\* that were sent and not read, and nothing else.
HoldsUnread ==
  Contents = FlattenSeq([i \in 1..(Len(sent) - Len(got)) |-> Units(sent[Len(got) + i])])

\* As long as the sender leaves one unit free the ring buffer carries every
\* message, in order (MessageQueue).
Queue == INSTANCE MessageQueue WITH sent <- sent, got <- got
InOrder == Queue!Spec

\* A message in the buffer is read.
Arrives == \A k \in 1..MaxSent : Len(sent) >= k ~> Len(got) >= k

=============================================================================
