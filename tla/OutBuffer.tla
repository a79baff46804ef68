----------------------------- MODULE OutBuffer ------------------------------
(***************************************************************************)
(* The output buffer of a file descriptor (common.c): messages sent with   *)
(* use_buffer wait in net_buf[fd] until the buffer is full, the sender     *)
(* flushes it or a message is sent without it.  The buffer belongs to the  *)
(* descriptor, not to the connection, and what a write returns is ignored. *)
(*                                                                         *)
(* The sender sends a frame with the buffer and flushes at its end, or     *)
(* sends single messages without it (send.c, connect.c, client/game.c).    *)
(***************************************************************************)
EXTENDS Integers, Sequences

CONSTANTS
  Msg,         \* the messages
  Size,        \* bytes of each message with its header
  BufSize,     \* NET_BUF_SIZE
  MaxSent      \* bound: messages sent over one connection

ASSUME OutBufferAssumption ==
  /\ Size \in [Msg -> Nat \ {0}]
  /\ BufSize \in Nat
  /\ MaxSent \in Nat

VARIABLES
  allocated,  \* net_buf[fd] is not NULL
  buf,        \* the messages in net_buf[fd]
  n,          \* net_buf_n[fd]
  sending,    \* the sender is in the middle of a frame
  pipe,       \* the messages written and not read yet
  broken,     \* the other side went away: writes fail
  sent, got   \* the messages sent and read over this connection

buffer == <<allocated, buf, n>>
vars == <<buffer, sending, pipe, broken, sent, got>>
-----------------------------------------------------------------------------
Init ==
  /\ allocated = FALSE /\ buf = <<>> /\ n = 0 /\ sending = FALSE
  /\ pipe = <<>> /\ broken = FALSE /\ sent = <<>> /\ got = <<>>

\* net_write: nobody looks at the error it returns.
Write(s) == pipe' = IF broken THEN pipe ELSE pipe \o s

CanSend == Len(sent) < MaxSent

Sent(m, frame) ==
  /\ sent' = Append(sent, m)
  /\ sending' = frame
  /\ UNCHANGED <<broken, got>>

FitsAlone(m) == Size[m] <= BufSize

Fits(m) == n + Size[m] <= BufSize

\* net_write_buf of a message that fits.
Store(m) ==
  /\ CanSend /\ Fits(m)
  /\ allocated' = TRUE /\ buf' = Append(buf, m) /\ n' = n + Size[m]
  /\ UNCHANGED pipe
  /\ Sent(m, TRUE)

\* ... of one that fits after a flush.
FlushAndStore(m) ==
  /\ CanSend /\ ~Fits(m) /\ Size[m] <= BufSize
  /\ Write(buf)
  /\ allocated' = TRUE /\ buf' = <<m>> /\ n' = Size[m]
  /\ Sent(m, TRUE)

\* ... of one that is larger than the buffer.
FlushAndWrite(m) ==
  /\ CanSend /\ Size[m] > BufSize
  /\ Write(Append(buf, m))
  /\ allocated' = TRUE /\ buf' = <<>> /\ n' = 0
  /\ Sent(m, TRUE)

\* ... when there is no memory for the buffer.
WriteWithoutBuffer(m) ==
  /\ CanSend /\ ~allocated
  /\ Write(<<m>>)
  /\ UNCHANGED buffer
  /\ Sent(m, TRUE)

SendDirectBeforeFlush(m) ==
  /\ CanSend
  /\ Write(<<m>> \o buf)
  /\ buf' = <<>> /\ n' = 0
  /\ UNCHANGED allocated
  /\ Sent(m, FALSE)

\* send_message without use_buffer, and all there is with -nobuf.
SendDirect(m) ==
  /\ CanSend
  /\ Write(Append(buf, m))
  /\ buf' = <<>> /\ n' = 0
  /\ UNCHANGED allocated
  /\ Sent(m, FALSE)

FlushLater ==
  /\ sending
  /\ sending' = FALSE
  /\ UNCHANGED <<buffer, pipe, broken, sent, got>>

\* net_flush, at the end of a frame.
Flush ==
  /\ sending
  /\ sending' = FALSE
  /\ Write(IF n > 0 THEN buf ELSE <<>>)
  /\ buf' = <<>> /\ n' = 0
  /\ UNCHANGED <<allocated, broken, sent, got>>

\* read_message on the other side.
Read ==
  /\ pipe # <<>>
  /\ got' = Append(got, Head(pipe))
  /\ pipe' = Tail(pipe)
  /\ UNCHANGED <<buffer, sending, broken, sent>>

\* The other side goes away; the last messages on their way are lost.
Break ==
  /\ ~broken
  /\ broken' = TRUE
  /\ \E k \in 0..Len(pipe) : pipe' = SubSeq(pipe, 1, k)
  /\ UNCHANGED <<buffer, sending, sent, got>>

\* The connection is closed, and the next one gets its descriptor.
Reconnect ==
  /\ ~sending
  /\ pipe' = <<>> /\ broken' = FALSE /\ sent' = <<>> /\ got' = <<>>
  /\ UNCHANGED <<buffer, sending>>

Next ==
  \/ \E m \in Msg : \/ Store(m) \/ FlushAndStore(m) \/ FlushAndWrite(m)
                    \/ WriteWithoutBuffer(m) \/ SendDirect(m)
  \/ Flush \/ Read \/ Break \/ Reconnect

Spec == Init /\ [][Next]_vars

\* A frame ends with a flush, and the other side keeps reading.
FairSpec == Spec /\ WF_vars(Flush) /\ WF_vars(Read)
-----------------------------------------------------------------------------
\* The state is made of the values the declarations of common.c allow.
TypeOK ==
  /\ allocated \in BOOLEAN /\ sending \in BOOLEAN /\ broken \in BOOLEAN
  /\ n \in Nat
  /\ buf \in Seq(Msg) /\ pipe \in Seq(Msg)
  /\ sent \in Seq(Msg) /\ got \in Seq(Msg)

\* net_write_buf never writes past the NET_BUF_SIZE bytes of the buffer, and
\* never takes a buffer with messages for an empty one, which net_flush
\* would not send, or for one that is not there.
BufferFits == n <= BufSize /\ (n = 0 <=> buf = <<>>) /\ (buf # <<>> => allocated)

\* Nothing is left in the buffer of a descriptor when its connection may be
\* closed: it would be sent to whoever gets the descriptor next.
NothingLeftOver == ~sending => buf = <<>>

\* What was read, what is on its way and what waits in the buffer are the
\* messages sent, in their order; a connection that broke loses only its end.
NothingLost ==
  /\ Len(got \o pipe) <= Len(sent)
  /\ \A i \in 1..Len(got \o pipe) : (got \o pipe)[i] = sent[i]
  /\ ~broken => sent = got \o pipe \o buf

\* Buffered or not, flushed early or written directly: each message read is
\* the next one sent over this connection.
Queue == INSTANCE MessageQueue WITH sent <- sent, got <- got
InOrder == Queue!Spec

\* A message that was sent is read, unless the connection breaks or is closed.
Arrives ==
  \A k \in 1..MaxSent :
    Len(sent) >= k ~> (Len(got) >= k \/ broken \/ Len(sent) < k)
=============================================================================
