----------------------------- MODULE WireProofs -----------------------------
(***************************************************************************)
(* Two ways to carry messages, each of which implements a message queue:   *)
(* the output buffer of a descriptor (type correctness, the three          *)
(* invariants of the buffer, the refinement of MessageQueue), for messages *)
(* and buffers of any size, and the ring buffer of the single-player build *)
(* (how the unread messages lie in it, the refinement of MessageQueue),    *)
(* for any messages and any capacity.  That program, where client and      *)
(* server share a thread and two such buffers, is in one of a few phases,  *)
(* for any options its user may choose and any number of connections.  And *)
(* the sound servers of a client do what they are told over their pipes,   *)
(* for any musics and samples and any number of channels.                  *)
(***************************************************************************)
EXTENDS MCWire, ListLemmas, FiniteSetTheorems, TLAPS

\* The inductive invariant.
IInv == TypeOK /\ BufferFits /\ NothingLeftOver /\ NothingLost

\* Appending a message to what was sent keeps what is known of its beginning.
LEMMA AppendKeeps ==
  ASSUME NEW s \in Seq(Msg), NEW w \in Seq(Msg), NEW m \in Msg,
         Len(w) <= Len(s), \A i \in 1..Len(w) : w[i] = s[i]
  PROVE  /\ Append(s, m) \in Seq(Msg)
         /\ Len(w) <= Len(Append(s, m))
         /\ \A i \in 1..Len(w) : w[i] = Append(s, m)[i]
  OBVIOUS

\* A sequence is what two parts of it make together, and begins with the first.
LEMMA Beginning ==
  ASSUME NEW w \in Seq(Msg), NEW s \in Seq(Msg)
  PROVE  /\ w \o s \in Seq(Msg)
         /\ Len(w) <= Len(w \o s)
         /\ \A i \in 1..Len(w) : w[i] = (w \o s)[i]
  OBVIOUS

\* Moving messages from one part of a sequence to the next.
LEMMA Assoc ==
  ASSUME NEW a \in Seq(Msg), NEW b \in Seq(Msg), NEW c \in Seq(Msg)
  PROVE  a \o (b \o c) = (a \o b) \o c
  OBVIOUS

LEMMA AppendAssoc ==
  ASSUME NEW a \in Seq(Msg), NEW b \in Seq(Msg), NEW m \in Msg
  PROVE  /\ a \o Append(b, m) = Append(a \o b, m)
         /\ Append(a, m) = a \o <<m>>
         /\ a \o <<>> = a /\ <<>> \o a = a
  OBVIOUS

LEMMA Reading ==
  ASSUME NEW a \in Seq(Msg), NEW b \in Seq(Msg), b # <<>>
  PROVE  /\ Append(a, Head(b)) \o Tail(b) = a \o b
         /\ Tail(b) \in Seq(Msg) /\ Head(b) \in Msg
         /\ Len(a) < Len(a \o b) /\ (a \o b)[Len(a) + 1] = Head(b)
  OBVIOUS

\* A connection that loses the end of what is on its way.
LEMMA Losing ==
  ASSUME NEW a \in Seq(Msg), NEW b \in Seq(Msg), NEW k \in 0..Len(b)
  PROVE  /\ SubSeq(b, 1, k) \in Seq(Msg)
         /\ Len(a \o SubSeq(b, 1, k)) <= Len(a \o b)
         /\ \A i \in 1..Len(a \o SubSeq(b, 1, k)) :
              (a \o SubSeq(b, 1, k))[i] = (a \o b)[i]
  OBVIOUS

-----------------------------------------------------------------------------
\* What every step that sends a message does to the promise: the buffer and
\* the pipe hold what they held, in the same order, followed by the message.
LEMMA SendKeeps ==
  ASSUME TypeOK, NothingLost, NEW m \in Msg, NEW b \in Seq(Msg),
         sent' = Append(sent, m), got' = got, broken' = broken, buf' \in Seq(Msg),
         b \o buf' = Append(buf, m), Write(b)
  PROVE  pipe' \in Seq(Msg) /\ NothingLost'
<1> DEFINE w == got \o pipe
<1>1. pipe \in Seq(Msg) /\ got \in Seq(Msg) /\ buf \in Seq(Msg)
      /\ sent \in Seq(Msg) /\ broken \in BOOLEAN
  BY DEF TypeOK
<1>2. w \in Seq(Msg)
  BY <1>1
<1>3. /\ Len(w) <= Len(sent) /\ \A i \in 1..Len(w) : w[i] = sent[i]
      /\ ~broken => sent = w \o buf
  BY DEF NothingLost
<1>4. CASE broken
  <2>1. pipe' = pipe
    BY <1>4 DEF Write
  <2> HIDE DEF w
  <2>2. /\ Len(w) <= Len(Append(sent, m))
        /\ \A i \in 1..Len(w) : w[i] = Append(sent, m)[i]
    BY <1>1, <1>2, <1>3, AppendKeeps
  <2> QED
    BY <1>1, <1>4, <2>1, <2>2 DEF NothingLost, w
<1>5. CASE ~broken
  <2>1. pipe' = pipe \o b
    BY <1>5 DEF Write
  <2>2. got \o pipe' = w \o b
    BY <1>1, <2>1, Assoc, ZenonT(30)
  <2>3. pipe' \in Seq(Msg)
    BY <1>1, <2>1
  <2> HIDE DEF w
  <2>4. w \o b \in Seq(Msg)
    BY <1>2
  <2>5. (w \o b) \o buf' = w \o (b \o buf')
    BY <1>2, Assoc, Zenon
  <2>6. w \o Append(buf, m) = Append(w \o buf, m)
    BY <1>1, <1>2, AppendAssoc, ZenonT(30)
  <2>7. sent' = (w \o b) \o buf'
    BY <1>3, <1>5, <2>5, <2>6, Zenon
  <2>8. /\ Len(w \o b) <= Len(sent')
        /\ \A i \in 1..Len(w \o b) : (w \o b)[i] = sent'[i]
    <3> DEFINE x == w \o b
    <3>1. buf' \in Seq(Msg) /\ x \in Seq(Msg) /\ sent' = x \o buf'
      BY <2>4, <2>7
    <3> HIDE DEF x
    <3>2. /\ Len(x) <= Len(x \o buf')
          /\ \A i \in 1..Len(x) : x[i] = (x \o buf')[i]
      BY <3>1, Beginning
    <3>3. Len(x) <= Len(sent') /\ \A i \in 1..Len(x) : x[i] = sent'[i]
      BY <3>1, <3>2, Zenon
    <3> QED
      BY <3>3 DEF x
  <2>9. /\ Len(got' \o pipe') <= Len(sent')
        /\ \A i \in 1..Len(got' \o pipe') : (got' \o pipe')[i] = sent'[i]
        /\ sent' = (got' \o pipe') \o buf'
    BY <2>2, <2>7, <2>8, Zenon
  <2> QED
    BY <2>3, <2>9, Zenon DEF NothingLost
<1> QED
  BY <1>4, <1>5

LEMMA SendStep ==
  ASSUME IInv, NEW m \in Msg,
         Store(m) \/ FlushAndStore(m) \/ FlushAndWrite(m) \/ WriteWithoutBuffer(m) \/ SendDirect(m)
  PROVE  IInv' /\ Queue!Send(m)
<1> USE OutBufferAssumption
<1>0. /\ TypeOK /\ NothingLost /\ NothingLeftOver /\ BufferFits
      /\ buf \in Seq(Msg) /\ <<m>> \in Seq(Msg) /\ Append(buf, m) \in Seq(Msg) /\ <<>> \in Seq(Msg)
      /\ Size[m] \in Nat \ {0} /\ n \in Nat /\ n <= BufSize /\ BufSize \in Nat
      /\ sent \in Seq(Msg) /\ got \in Seq(Msg) /\ allocated \in BOOLEAN /\ broken \in BOOLEAN
  BY DEF IInv, TypeOK, BufferFits
<1>1. /\ sent' = Append(sent, m) /\ got' = got /\ broken' = broken
      /\ sending' = TRUE \/ sending' = FALSE
  BY Zenon DEF Store, FlushAndStore, FlushAndWrite, WriteWithoutBuffer, SendDirect, Sent
<1>2. sent' \in Seq(Msg) /\ got' \in Seq(Msg) /\ broken' \in BOOLEAN /\ sending' \in BOOLEAN
  <2>1. sent' \in Seq(Msg) /\ got' \in Seq(Msg)
    BY <1>0, <1>1
  <2>2. broken' \in BOOLEAN /\ sending' \in BOOLEAN
    BY <1>0, <1>1, Zenon
  <2> QED
    BY <2>1, <2>2
<1>3. Queue!Send(m)
  BY <1>1 DEF Queue!Send
<1>4. ASSUME NEW b \in Seq(Msg), b \o buf' = Append(buf, m), buf' \in Seq(Msg), Write(b),
             n' \in Nat, n' <= BufSize, n' = 0 <=> buf' = <<>>, allocated' \in BOOLEAN,
             buf' # <<>> => allocated', ~sending' => buf' = <<>>
      PROVE  IInv'
  <2>1. pipe' \in Seq(Msg) /\ NothingLost'
    BY <1>0, <1>1, <1>4, SendKeeps
  <2> QED
    BY <1>2, <1>4, <2>1 DEF IInv, TypeOK, BufferFits, NothingLeftOver
<1>5. ASSUME Store(m) PROVE IInv'
  <2>1. pipe' = pipe /\ buf' = Append(buf, m) /\ n' = n + Size[m] /\ allocated' = TRUE /\ sending' = TRUE
        /\ n + Size[m] <= BufSize
    BY <1>5 DEF Store, Sent, Fits
  <2>2. pipe = pipe \o <<>>
    BY <1>0 DEF TypeOK
  <2>3. Write(<<>>)
    BY <2>1, <2>2 DEF Write
  <2>4. <<>> \o buf' = Append(buf, m) /\ buf' # <<>> /\ buf' \in Seq(Msg)
    BY <1>0, <2>1, AppendAssoc
  <2>5. n' \in Nat /\ n' <= BufSize /\ n' # 0
    BY <1>0, <2>1
  <2> QED
    BY <1>0, <1>4, <2>1, <2>3, <2>4, <2>5
<1>6. ASSUME FlushAndStore(m) PROVE IInv'
  <2>1. Write(buf) /\ buf' = <<m>> /\ n' = Size[m] /\ allocated' = TRUE /\ sending' = TRUE
        /\ Size[m] <= BufSize
    BY <1>6 DEF FlushAndStore, Sent
  <2>2. buf \o buf' = Append(buf, m) /\ buf' # <<>> /\ buf' \in Seq(Msg)
    BY <1>0, <2>1, AppendAssoc
  <2>3. n' \in Nat /\ n' <= BufSize /\ n' # 0
    BY <1>0, <2>1
  <2> QED
    BY <1>0, <1>4, <2>1, <2>2, <2>3
<1>7. ASSUME Write(Append(buf, m)), buf' = <<>>, n' = 0, allocated' \in BOOLEAN PROVE IInv'
  <2>1. Append(buf, m) \o buf' = Append(buf, m)
    BY <1>0, <1>7, AppendAssoc
  <2>2. buf' \in Seq(Msg) /\ n' \in Nat /\ n' <= BufSize
    BY <1>0, <1>7
  <2> QED
    BY <1>0, <1>4, <1>7, <2>1, <2>2, Zenon
<1>8. ASSUME FlushAndWrite(m) PROVE IInv'
  BY <1>7, <1>8 DEF FlushAndWrite
<1>9. ASSUME SendDirect(m) PROVE IInv'
  BY <1>0, <1>7, <1>9 DEF SendDirect
<1>10. ASSUME WriteWithoutBuffer(m) PROVE IInv'
  <2>1. Write(<<m>>) /\ ~allocated /\ allocated' = allocated /\ buf' = buf /\ n' = n
    BY <1>10 DEF WriteWithoutBuffer, buffer
  <2>2. buf = <<>> /\ n = 0
    BY <1>0, <2>1 DEF BufferFits
  <2>3. <<m>> \o buf' = Append(buf, m)
    BY <2>1, <2>2
  <2> QED
    BY <1>0, <1>4, <2>1, <2>2, <2>3
<1> QED
  BY <1>3, <1>5, <1>6, <1>8, <1>9, <1>10, Zenon

\* Every step keeps the inductive invariant, and is a step of the queue or
\* leaves it as it is.
LEMMA Step ==
  ASSUME IInv, [Next]_vars
  PROVE  IInv' /\ [Queue!Next]_(Queue!vars)
<1> USE OutBufferAssumption
<1>0. /\ TypeOK /\ NothingLost /\ NothingLeftOver /\ BufferFits
      /\ buf \in Seq(Msg) /\ pipe \in Seq(Msg) /\ sent \in Seq(Msg) /\ got \in Seq(Msg)
      /\ n \in Nat /\ BufSize \in Nat /\ got \o pipe \in Seq(Msg)
      /\ allocated \in BOOLEAN /\ sending \in BOOLEAN /\ broken \in BOOLEAN
  BY DEF IInv, TypeOK
<1>1. ASSUME NEW m \in Msg,
             Store(m) \/ FlushAndStore(m) \/ FlushAndWrite(m) \/ WriteWithoutBuffer(m) \/ SendDirect(m)
      PROVE  IInv' /\ [Queue!Next]_(Queue!vars)
  BY <1>1, SendStep, Zenon DEF Queue!Next
<1>2. ASSUME Flush PROVE IInv' /\ [Queue!Next]_(Queue!vars)
  <2>1. Write(buf) /\ buf' = <<>> /\ n' = 0 /\ sending' = FALSE
        /\ UNCHANGED <<allocated, broken, sent, got>>
    BY <1>0, <1>2 DEF Flush, BufferFits
  <2>a. BufferFits' /\ NothingLeftOver'
    BY <1>0, <2>1 DEF BufferFits, NothingLeftOver
  <2>b. ASSUME pipe' \in Seq(Msg) PROVE TypeOK'
    <3>1. n' \in Nat /\ buf' \in Seq(Msg) /\ sent' \in Seq(Msg) /\ got' \in Seq(Msg)
      BY <1>0, <2>1
    <3>2. allocated' \in BOOLEAN /\ sending' \in BOOLEAN /\ broken' \in BOOLEAN
      BY <1>0, <2>1
    <3> QED
      BY <2>b, <3>1, <3>2 DEF TypeOK
  <2>2. CASE broken
    <3>1. pipe' = pipe /\ broken' = broken
      BY <2>1, <2>2 DEF Write
    <3>2. NothingLost'
      BY <1>0, <2>1, <2>2, <3>1, SMTT(20) DEF NothingLost
    <3> QED
      BY <1>0, <2>1, <2>a, <2>b, <3>1, <3>2 DEF IInv, Queue!vars
  <2>3. CASE ~broken
    <3>1. pipe' = pipe \o buf /\ pipe' \in Seq(Msg)
      BY <1>0, <2>1, <2>3 DEF Write
    <3>2. got \o pipe' = (got \o pipe) \o buf
      <4>1. got \in Seq(Msg) /\ pipe \in Seq(Msg) /\ buf \in Seq(Msg)
        BY <1>0
      <4> QED
        BY <3>1, <4>1, Assoc, ZenonT(30)
    <3>3. got' \o pipe' = sent'
      BY <1>0, <2>1, <2>3, <3>2, Zenon DEF NothingLost
    <3>4. (got' \o pipe') \o buf' = sent'
      BY <1>0, <2>1, <3>3, AppendAssoc
    <3>5. NothingLost'
      <4>1. sent' \in Seq(Msg) /\ Len(sent') <= Len(sent')
            /\ \A i \in 1..Len(sent') : sent'[i] = sent'[i]
        BY <1>0, <2>1
      <4> QED
        BY <3>3, <3>4, <4>1, Zenon DEF NothingLost
    <3> QED
      BY <2>1, <2>a, <2>b, <3>1, <3>5 DEF IInv, Queue!vars
  <2> QED
    BY <2>2, <2>3
<1>3. ASSUME Read PROVE IInv' /\ [Queue!Next]_(Queue!vars)
  <2>1. pipe # <<>> /\ got' = Append(got, Head(pipe)) /\ pipe' = Tail(pipe)
        /\ UNCHANGED <<buffer, sending, broken, sent>>
    BY <1>3 DEF Read
  <2>2. /\ got' \o pipe' = got \o pipe
        /\ pipe' \in Seq(Msg) /\ Head(pipe) \in Msg
        /\ Len(got) < Len(got \o pipe) /\ (got \o pipe)[Len(got) + 1] = Head(pipe)
    BY <1>0, <2>1, Reading
  <2>3. got' \in Seq(Msg)
    BY <1>0, <2>1, <2>2
  <2>4. IInv'
    BY <1>0, <2>1, <2>2, <2>3 DEF IInv, TypeOK, BufferFits, NothingLeftOver, NothingLost, buffer
  <2>5. Len(got) < Len(sent) /\ sent[Len(got) + 1] = Head(pipe)
    <3> DEFINE w == got \o pipe
    <3>1. w \in Seq(Msg) /\ Len(w) <= Len(sent) /\ \A i \in 1..Len(w) : w[i] = sent[i]
      BY <1>0 DEF NothingLost
    <3>2. Len(got) < Len(w) /\ w[Len(got) + 1] = Head(pipe)
      BY <2>2
    <3>3. Len(got) \in Nat /\ Len(w) \in Nat /\ Len(sent) \in Nat
      BY <1>0
    <3> HIDE DEF w
    <3>4. Len(got) + 1 \in 1..Len(w) /\ Len(got) < Len(sent)
      BY <3>1, <3>2, <3>3
    <3> QED
      BY <3>1, <3>2, <3>4, Zenon
  <2> QED
    BY <2>1, <2>4, <2>5 DEF Queue!Next, Queue!Deliver
<1>4. ASSUME Break PROVE IInv' /\ [Queue!Next]_(Queue!vars)
  <2>1. PICK k \in 0..Len(pipe) : pipe' = SubSeq(pipe, 1, k)
    BY <1>4 DEF Break
  <2>2. broken' = TRUE /\ UNCHANGED <<buffer, sending, sent, got>>
    BY <1>4 DEF Break
  <2> DEFINE v == got \o SubSeq(pipe, 1, k)
             w == got \o pipe
  <2>3. /\ pipe' \in Seq(Msg) /\ Len(v) <= Len(w)
        /\ \A i \in 1..Len(v) : v[i] = w[i]
    BY <1>0, <2>1, Losing
  <2>4. w \in Seq(Msg) /\ Len(w) <= Len(sent) /\ \A i \in 1..Len(w) : w[i] = sent[i]
    BY <1>0 DEF NothingLost
  <2>5. v \in Seq(Msg) /\ got' \o pipe' = v
    <3>1. got \in Seq(Msg) /\ got' = got /\ v = got \o pipe'
      BY <1>0, <2>1, <2>2
    <3> HIDE DEF v
    <3> QED
      BY <2>3, <3>1, ConcatProperties
  <2> HIDE DEF v, w
  <2>6. Len(v) <= Len(sent) /\ \A i \in 1..Len(v) : v[i] = sent[i]
    <3>1. Len(v) \in Nat /\ Len(w) \in Nat /\ Len(sent) \in Nat
      BY <1>0, <2>4, <2>5, LenProperties
    <3> QED
      BY <2>3, <2>4, <3>1
  <2>7. NothingLost'
    BY <2>2, <2>5, <2>6 DEF NothingLost
  <2> QED
    BY <1>0, <2>2, <2>3, <2>7 DEF IInv, TypeOK, BufferFits, NothingLeftOver, buffer, Queue!vars
<1>5. ASSUME Reconnect PROVE IInv' /\ [Queue!Next]_(Queue!vars)
  <2>1. ~sending /\ pipe' = <<>> /\ broken' = FALSE /\ sent' = <<>> /\ got' = <<>>
        /\ UNCHANGED <<buffer, sending>>
    BY <1>5 DEF Reconnect
  <2>2. buf' = <<>>
    BY <1>0, <2>1 DEF NothingLeftOver, buffer
  <2>3. <<>> \o <<>> \o <<>> = <<>> /\ Len(<<>> \o <<>>) = 0 /\ <<>> \in Seq(Msg)
    OBVIOUS
  <2>4. NothingLost'
    BY <2>1, <2>2, <2>3 DEF NothingLost
  <2> QED
    BY <1>0, <2>1, <2>2, <2>3, <2>4 DEF IInv, TypeOK, BufferFits, NothingLeftOver, buffer,
       Queue!Next, Queue!Reconnect
<1>6. ASSUME UNCHANGED vars PROVE IInv' /\ [Queue!Next]_(Queue!vars)
  BY <1>6 DEF vars, buffer, IInv, TypeOK, BufferFits, NothingLeftOver, NothingLost, Queue!vars
<1> QED
  BY <1>1, <1>2, <1>3, <1>4, <1>5, <1>6, Zenon DEF Next

\* The four invariants hold, for any messages and buffer size.
THEOREM BufferInvariant == Spec => []IInv
<1>1. Init => IInv
  <2>1. ASSUME Init
        PROVE  /\ allocated \in BOOLEAN /\ sending \in BOOLEAN /\ broken \in BOOLEAN
               /\ n = 0 /\ buf = <<>> /\ pipe = <<>> /\ sent = <<>> /\ got = <<>>
    BY <2>1 DEF Init
  <2>2. <<>> \o <<>> \o <<>> = <<>> /\ Len(<<>> \o <<>>) = 0 /\ Len(<<>>) = 0 /\ <<>> \in Seq(Msg)
    OBVIOUS
  <2>3. ASSUME Init PROVE NothingLost
    BY <2>1, <2>2, <2>3 DEF NothingLost
  <2> QED
    BY <2>1, <2>2, <2>3, OutBufferAssumption DEF IInv, TypeOK, BufferFits, NothingLeftOver
<1>2. IInv /\ [Next]_vars => IInv'
  BY Step
<1> QED
  BY <1>1, <1>2, PTL DEF Spec

\* Every variable of the buffer keeps its type.
THEOREM BufferTypeCorrect == Spec => []TypeOK
<1>1. IInv => TypeOK
  BY DEF IInv
<1> QED
  BY <1>1, BufferInvariant, PTL

\* The buffer never overflows, and is empty when its connection is closed.
THEOREM BufferSafe == Spec => [](BufferFits /\ NothingLeftOver)
<1>1. IInv => BufferFits /\ NothingLeftOver
  BY DEF IInv
<1> QED
  BY <1>1, BufferInvariant, PTL

\* The output buffer implements the message queue.
THEOREM BufferIsQueue == Spec => InOrder
<1>1. Init => Queue!Init
  BY DEF Init, Queue!Init
<1>2. IInv /\ [Next]_vars => [Queue!Next]_(Queue!vars)
  BY Step
<1> QED
  BY <1>1, <1>2, BufferInvariant, PTL DEF Spec, InOrder, Queue!Spec
-----------------------------------------------------------------------------
(***************************************************************************)
(* The ring buffer (NetBuffer), for any messages and any capacity.         *)
(***************************************************************************)
Unread == Len(ringSent) - Len(ringGot)
UnreadMsg(k) == ringSent[Len(ringGot) + k]

\* The unread messages lie one behind the other, from `start' to `end': the
\* k-th one is between the offsets off[k - 1] and off[k].
Layout(off) ==
  /\ off[0] = 0 /\ off[Unread] = R!Used
  /\ \A k \in 0..Unread : \A j \in 0..k : off[j] <= off[k]
  /\ \A k \in 1..Unread :
       /\ off[k] = off[k - 1] + RingSize[UnreadMsg(k)]
       /\ \A i \in 1..RingSize[UnreadMsg(k)] :
            ringBuf[(start + (off[k - 1] + i - 1)) % Capacity] = <<UnreadMsg(k), i>>

RingTypes ==
  /\ DOMAIN ringBuf = 0..(Capacity - 1)
  /\ start \in 0..(Capacity - 1) /\ end \in 0..(Capacity - 1)
  /\ ringSent \in Seq(RingMsg) /\ ringGot \in Seq(RingMsg) /\ Len(ringGot) <= Len(ringSent)
RingInv == RingTypes /\ \E off \in [0..Unread -> Nat] : Layout(off)

\* The remainder of a number that is at most one turn off.
LEMMA OneTurn ==
  ASSUME NEW C \in Nat \ {0}, NEW x \in (-C)..(2 * C - 1)
  PROVE  x % C = IF x < 0 THEN x + C ELSE IF x < C THEN x ELSE x - C
  OBVIOUS

\* Places in the ring, counted from `start'.
LEMMA RingPlaces ==
  ASSUME RingTypes
  PROVE  /\ Capacity \in Nat \ {0}
         /\ R!Used \in 0..(Capacity - 1) /\ end = (start + R!Used) % Capacity
         /\ R!Used = IF end < start THEN end - start + Capacity ELSE end - start
         /\ \A p \in 0..Capacity :
              (start + p) % Capacity = IF start + p < Capacity THEN start + p ELSE start + p - Capacity
<1>1. Capacity \in Nat \ {0} /\ start \in 0..(Capacity - 1) /\ end \in 0..(Capacity - 1)
  BY RingAssumption DEF RingTypes, R!NetBufferAssumption
<1>2. R!Used = IF end < start THEN end - start + Capacity ELSE end - start
  <2> DEFINE x == end - start
  <2>1. x \in (-Capacity)..(2 * Capacity - 1) /\ x < Capacity
    BY <1>1
  <2> HIDE DEF x
  <2>2. x % Capacity = IF x < 0 THEN x + Capacity ELSE x
    BY <1>1, <2>1, OneTurn
  <2> QED
    BY <1>1, <2>2 DEF R!Used, x
<1>3. ASSUME NEW p \in 0..Capacity
      PROVE  (start + p) % Capacity = IF start + p < Capacity THEN start + p ELSE start + p - Capacity
  <2> DEFINE x == start + p
  <2>1. x \in (-Capacity)..(2 * Capacity - 1) /\ ~(x < 0)
    BY <1>1
  <2> HIDE DEF x
  <2>2. x % Capacity = IF x < Capacity THEN x ELSE x - Capacity
    BY <1>1, <2>1, OneTurn
  <2> QED
    BY <1>1, <2>2 DEF x
<1>4. R!Used \in 0..(Capacity - 1)
  BY <1>1, <1>2
<1>5. end = (start + R!Used) % Capacity
  <2> DEFINE u == R!Used
  <2>1. u \in 0..Capacity
    BY <1>1, <1>4
  <2> HIDE DEF u
  <2>2. (start + u) % Capacity = IF start + u < Capacity THEN start + u ELSE start + u - Capacity
    BY <1>3, <2>1
  <2> QED
    BY <1>1, <1>2, <1>4, <2>2 DEF u
<1> QED
  BY <1>1, <1>2, <1>3, <1>4, <1>5

\* Moving `end'.
LEMMA RingGrows ==
  ASSUME RingTypes, NEW s \in 0..(Capacity - 1 - R!Used)
  PROVE  /\ (end + s) % Capacity \in 0..(Capacity - 1)
         /\ (((end + s) % Capacity) - start) % Capacity = R!Used + s
         /\ \A i \in 1..s : (end + i - 1) % Capacity = (start + (R!Used + i - 1)) % Capacity
<1> DEFINE C == Capacity
           u == R!Used
           e == (end + s) % C
<1>1. /\ C \in Nat \ {0} /\ start \in 0..(C - 1) /\ end \in 0..(C - 1) /\ u \in 0..(C - 1)
      /\ u = IF end < start THEN end - start + C ELSE end - start
      /\ s \in 0..(C - 1 - u)
  BY RingPlaces DEF RingTypes
<1>2. \A i \in 0..s : (end + i) % C = IF end + i < C THEN end + i ELSE end + i - C
  <2> SUFFICES ASSUME NEW i \in 0..s
               PROVE  (end + i) % C = IF end + i < C THEN end + i ELSE end + i - C
    OBVIOUS
  <2> DEFINE x == end + i
  <2>1. x \in (-C)..(2 * C - 1) /\ ~(x < 0)
    BY <1>1
  <2> HIDE DEF x
  <2>2. x % C = IF x < C THEN x ELSE x - C
    BY <1>1, <2>1, OneTurn
  <2> QED
    BY <1>1, <2>2 DEF x
<1>3. \A p \in 0..C : (start + p) % C = IF start + p < C THEN start + p ELSE start + p - C
  BY RingPlaces
<1> HIDE DEF C, u
<1>4. e \in 0..(C - 1)
  BY <1>1, <1>2
<1>5. e - start \in (-C)..(2 * C - 1) /\ e - start < C
  BY <1>1, <1>4
<1>6. (e - start) % C = u + s
  <2>1. e = IF end + s < C THEN end + s ELSE end + s - C
    BY <1>1, <1>2
  <2> HIDE DEF e
  <2> DEFINE x == e - start
  <2>2. x \in (-C)..(2 * C - 1) /\ x < C
    BY <1>5
  <2> HIDE DEF x
  <2>3. x % C = IF x < 0 THEN x + C ELSE x
    BY <1>1, <2>2, OneTurn
  <2> USE DEF x
  <2> QED
    BY <1>1, <1>4, <2>1, <2>3
<1>7. ASSUME NEW i \in 1..s
      PROVE  (end + i - 1) % C = (start + (u + i - 1)) % C
  <2>1. i - 1 \in 0..s /\ u + i - 1 \in 0..C
    BY <1>1
  <2>2. (end + (i - 1)) % C = IF end + (i - 1) < C THEN end + (i - 1) ELSE end + (i - 1) - C
    BY <1>2, <2>1
  <2>3. (start + (u + i - 1)) % C
        = IF start + (u + i - 1) < C THEN start + (u + i - 1) ELSE start + (u + i - 1) - C
    BY <1>3, <2>1
  <2>4. end + (i - 1) = end + i - 1
    BY <1>1
  <2> QED
    BY <1>1, <2>2, <2>3, <2>4
<1> QED
  BY <1>4, <1>6, <1>7 DEF C, u

\* Moving `start'.
LEMMA RingShrinks ==
  ASSUME RingTypes, NEW s \in 0..R!Used
  PROVE  /\ (start + s) % Capacity \in 0..(Capacity - 1)
         /\ (end - ((start + s) % Capacity)) % Capacity = R!Used - s
         /\ \A p \in 0..(R!Used - s) :
              (((start + s) % Capacity) + p) % Capacity = (start + (s + p)) % Capacity
<1> DEFINE C == Capacity
           u == R!Used
           b == (start + s) % C
<1>1. /\ C \in Nat \ {0} /\ start \in 0..(C - 1) /\ end \in 0..(C - 1) /\ u \in 0..(C - 1)
      /\ u = IF end < start THEN end - start + C ELSE end - start
      /\ s \in 0..u
  BY RingPlaces DEF RingTypes
<1>2. \A p \in 0..C : (start + p) % C = IF start + p < C THEN start + p ELSE start + p - C
  BY RingPlaces
<1> HIDE DEF C, u
<1>3. s \in 0..C
  BY <1>1
<1>4. b = IF start + s < C THEN start + s ELSE start + s - C
  BY <1>2, <1>3
<1>5. b \in 0..(C - 1)
  <2> HIDE DEF b
  <2> QED
    BY <1>1, <1>4
<1>6. (end - b) % C = u - s
  <2> HIDE DEF b
  <2> DEFINE x == end - b
  <2>1. x \in (-C)..(2 * C - 1) /\ x < C
    BY <1>1, <1>5
  <2> HIDE DEF x
  <2>2. x % C = IF x < 0 THEN x + C ELSE x
    BY <1>1, <2>1, OneTurn
  <2>3. (end - b) % C = IF end - b < 0 THEN end - b + C ELSE end - b
    BY <1>1, <2>2 DEF x
  <2> QED
    BY <1>1, <1>4, <1>5, <2>3
<1>7. ASSUME NEW p \in 0..(u - s)
      PROVE  (b + p) % C = (start + (s + p)) % C
  <2>1. p \in 0..C /\ s + p \in 0..C
    BY <1>1
  <2>2. (start + (s + p)) % C = IF start + (s + p) < C THEN start + (s + p) ELSE start + (s + p) - C
    BY <1>2, <2>1
  <2> HIDE DEF b
  <2> DEFINE x == b + p
  <2>3. x \in (-C)..(2 * C - 1) /\ ~(x < 0)
    BY <1>1, <1>5, <2>1
  <2> HIDE DEF x
  <2>4. x % C = IF x < C THEN x ELSE x - C
    BY <1>1, <2>3, OneTurn
  <2>5. (b + p) % C = IF b + p < C THEN b + p ELSE b + p - C
    BY <1>1, <1>5, <2>4 DEF x
  <2> QED
    BY <1>1, <1>4, <1>5, <2>1, <2>2, <2>5
<1>8. /\ b \in 0..(C - 1) /\ (end - b) % C = u - s
      /\ \A p \in 0..(u - s) : (b + p) % C = (start + (s + p)) % C
  BY Zenon, <1>5, <1>6, <1>7
<1> QED
  BY Zenon, <1>8 DEF C, u

LEMMA RingInvInit == R!Init => RingInv
<1> SUFFICES ASSUME R!Init PROVE RingInv
  OBVIOUS
<1>1. ringSent = <<>> /\ ringGot = <<>> /\ Unread = 0
  BY DEF R!Init, Unread
<1>2. RingTypes
  BY <1>1, EmptySeq, RingAssumption DEF R!Init, RingTypes, R!NetBufferAssumption
<1>3. R!Used = 0
  <2>1. end = 0 /\ start = 0
    BY DEF R!Init
  <2>2. R!Used = IF end < start THEN end - start + Capacity ELSE end - start
    BY <1>2, RingPlaces
  <2> QED
    BY <2>1, <2>2
<1>4. Layout([k \in 0..Unread |-> 0])
  BY <1>1, <1>3 DEF Layout
<1> QED
  BY <1>1, <1>2, <1>4 DEF RingInv

\* The units of a message.
LEMMA RingUnits ==
  ASSUME NEW m \in RingMsg
  PROVE  /\ RingSize[m] \in Nat \ {0}
         /\ R!Units(m) \in Seq({<<m, i>> : i \in 1..RingSize[m]}) /\ Len(R!Units(m)) = RingSize[m]
         /\ \A i \in 1..RingSize[m] : R!Units(m)[i] = <<m, i>>
         /\ \A d \in RingMsg : R!Units(d) = R!Units(m) => d = m
<1>1. RingSize[m] \in Nat \ {0} /\ \A d \in RingMsg : RingSize[d] \in Nat \ {0}
  BY RingAssumption DEF R!NetBufferAssumption
<1>2. \A d \in RingMsg : R!Units(d)[1] = <<d, 1>>
  BY <1>1 DEF R!Units
<1>3. \A d \in RingMsg : R!Units(d) = R!Units(m) => d = m
  <2> SUFFICES ASSUME NEW d \in RingMsg, R!Units(d) = R!Units(m) PROVE d = m
    OBVIOUS
  <2>1. <<d, 1>> = <<m, 1>>
    BY <1>2
  <2> QED
    BY <2>1
<1> QED
  BY <1>1, <1>3 DEF R!Units

\* nb_write of a message that leaves a unit free.
LEMMA RingWrite ==
  ASSUME RingTypes, NEW m \in RingMsg, R!Used + RingSize[m] <= MaxUnread, R!NbWrite(R!Units(m))
  PROVE  /\ DOMAIN ringBuf' = 0..(Capacity - 1) /\ start' = start /\ end' \in 0..(Capacity - 1)
         /\ R!Used' = R!Used + RingSize[m] /\ R!Used + RingSize[m] < Capacity
         /\ \A p \in 0..(R!Used - 1) : ringBuf'[(start + p) % Capacity] = ringBuf[(start + p) % Capacity]
         /\ \A i \in 1..RingSize[m] : ringBuf'[(start + (R!Used + i - 1)) % Capacity] = <<m, i>>
<1> DEFINE s == RingSize[m]
           u == R!Used
           w == R!Min({Len(R!Units(m)), Capacity - R!Used})
           at(i) == (end + i - 1) % Capacity
<1>1. /\ Capacity \in Nat \ {0} /\ s \in Nat \ {0} /\ u \in 0..(Capacity - 1) /\ s \in 0..(Capacity - 1 - u)
      /\ u + s < Capacity /\ MaxUnread \in 0..(Capacity - 1)
  <2>1. Capacity \in Nat \ {0} /\ s \in Nat \ {0} /\ u \in 0..(Capacity - 1) /\ MaxUnread \in 0..(Capacity - 1)
    BY RingPlaces, RingUnits, RingAssumption DEF R!NetBufferAssumption
  <2>2. u + s <= MaxUnread
    OBVIOUS
  <2> HIDE DEF s, u
  <2> QED
    BY <2>1, <2>2
<1>2. w = s
  <2>1. Len(R!Units(m)) = s
    BY RingUnits
  <2>2. s < Capacity - u /\ s \in Int /\ Capacity - u \in Int
    <3> HIDE DEF s, u
    <3> QED
      BY <1>1
  <2>3. w = CHOOSE x \in {s, Capacity - u} : \A y \in {s, Capacity - u} : x <= y
    BY <2>1 DEF R!Min
  <2> HIDE DEF s, u, w
  <2> QED
    BY <2>2, <2>3
<1>3. /\ ringBuf' = [j \in DOMAIN ringBuf |->
                       IF \E i \in 1..s : at(i) = j
                       THEN R!Units(m)[CHOOSE i \in 1..s : at(i) = j] ELSE ringBuf[j]]
      /\ end' = (end + s) % Capacity /\ start' = start
  BY <1>2 DEF R!NbWrite
<1>4. \A p \in 0..(Capacity - 1) : (start + p) % Capacity \in 0..(Capacity - 1)
  <2> SUFFICES ASSUME NEW p \in 0..(Capacity - 1) PROVE (start + p) % Capacity \in 0..(Capacity - 1)
    OBVIOUS
  <2>1. (start + p) % Capacity = IF start + p < Capacity THEN start + p ELSE start + p - Capacity
    BY RingPlaces
  <2> QED
    BY <1>1, <2>1 DEF RingTypes
<1>5. \A p, q \in 0..(Capacity - 1) : (start + p) % Capacity = (start + q) % Capacity => p = q
  <2> SUFFICES ASSUME NEW p \in 0..(Capacity - 1), NEW q \in 0..(Capacity - 1),
                      (start + p) % Capacity = (start + q) % Capacity
               PROVE  p = q
    OBVIOUS
  <2>1. /\ (start + p) % Capacity = IF start + p < Capacity THEN start + p ELSE start + p - Capacity
        /\ (start + q) % Capacity = IF start + q < Capacity THEN start + q ELSE start + q - Capacity
    BY RingPlaces
  <2>2. start \in 0..(Capacity - 1) /\ Capacity \in Nat
    BY <1>1 DEF RingTypes
  <2> DEFINE a == (start + p) % Capacity
             b == (start + q) % Capacity
  <2>3. /\ a = IF start + p < Capacity THEN start + p ELSE start + p - Capacity
        /\ b = IF start + q < Capacity THEN start + q ELSE start + q - Capacity
        /\ a = b
    BY <2>1
  <2> HIDE DEF a, b, s, u, w, at
  <2> QED
    BY <2>2, <2>3
<1>6. \A i \in 1..s : at(i) = (start + (u + i - 1)) % Capacity
  BY <1>1, RingGrows
<1>7. ASSUME NEW p \in 0..(u - 1)
      PROVE  ringBuf'[(start + p) % Capacity] = ringBuf[(start + p) % Capacity]
  <2>1. p \in 0..(Capacity - 1) /\ \A i \in 1..s : u + i - 1 \in 0..(Capacity - 1) /\ u + i - 1 # p
    <3> HIDE DEF s, u
    <3> QED
      BY <1>1
  <2>2. \A i \in 1..s : at(i) # (start + p) % Capacity
    <3> HIDE DEF s, u, at
    <3> QED
      BY <1>5, <1>6, <2>1
  <2>3. (start + p) % Capacity \in DOMAIN ringBuf
    BY <1>4, <2>1 DEF RingTypes
  <2> HIDE DEF s, u, at
  <2> QED
    BY <1>3, <2>2, <2>3
<1>8. ASSUME NEW i \in 1..s
      PROVE  ringBuf'[(start + (u + i - 1)) % Capacity] = <<m, i>>
  <2>1. \A j \in 1..s : u + j - 1 \in 0..(Capacity - 1) /\ (u + j - 1 = u + i - 1 => j = i)
    <3> HIDE DEF s, u
    <3> QED
      BY <1>1
  <2>2. at(i) \in DOMAIN ringBuf
    <3>1. at(i) = (start + (u + i - 1)) % Capacity
      BY <1>6
    <3> HIDE DEF at, u
    <3> QED
      BY <1>4, <2>1, <3>1 DEF RingTypes
  <2>3. \A j \in 1..s : at(j) = at(i) => j = i
    <3> HIDE DEF s, u, at
    <3> QED
      BY <1>5, <1>6, <2>1
  <2>4. R!Units(m)[i] = <<m, i>>
    BY RingUnits
  <2>5. at(i) = (start + (u + i - 1)) % Capacity
    BY <1>6
  <2> HIDE DEF s, u, at
  <2>6. (CHOOSE j \in 1..s : at(j) = at(i)) = i
    BY <2>3
  <2> QED
    BY <1>3, <2>2, <2>4, <2>5, <2>6
<1>9. /\ end' \in 0..(Capacity - 1) /\ R!Used' = u + s
  <2>1. /\ (end + s) % Capacity \in 0..(Capacity - 1)
        /\ (((end + s) % Capacity) - start) % Capacity = u + s
    BY <1>1, RingGrows
  <2>2. R!Used' = (end' - start') % Capacity
    BY DEF R!Used
  <2> HIDE DEF s, u
  <2> QED
    BY <1>3, <2>1, <2>2
<1>10. DOMAIN ringBuf' = 0..(Capacity - 1)
  BY <1>3 DEF RingTypes
<1> QED
  BY <1>1, <1>3, <1>7, <1>8, <1>9, <1>10

\* Where the units of the unread messages are.
LEMMA RingOffsets ==
  ASSUME RingTypes, NEW off \in [0..Unread -> Nat], Layout(off)
  PROVE  /\ Unread \in Nat
         /\ \A k \in 1..Unread :
              /\ UnreadMsg(k) \in RingMsg /\ RingSize[UnreadMsg(k)] \in Nat \ {0}
              /\ off[k - 1] \in Nat /\ off[k] \in Nat /\ off[k - 1] <= off[k] /\ off[k] <= R!Used
              /\ \A i \in 1..RingSize[UnreadMsg(k)] : off[k - 1] + i - 1 \in 0..(R!Used - 1)
<1>1. Len(ringSent) \in Nat /\ Len(ringGot) \in Nat /\ Unread \in Nat
  BY LenProperties DEF RingTypes, Unread
<1>2. ASSUME NEW k \in 1..Unread
      PROVE  /\ UnreadMsg(k) \in RingMsg /\ RingSize[UnreadMsg(k)] \in Nat \ {0}
             /\ off[k - 1] \in Nat /\ off[k] \in Nat /\ off[k - 1] <= off[k] /\ off[k] <= R!Used
             /\ \A i \in 1..RingSize[UnreadMsg(k)] : off[k - 1] + i - 1 \in 0..(R!Used - 1)
  <2>1. Len(ringGot) + k \in 1..Len(ringSent)
    BY <1>1 DEF Unread
  <2>2. UnreadMsg(k) \in RingMsg
    BY <2>1, ElementOfSeq DEF RingTypes, UnreadMsg
  <2>3. RingSize[UnreadMsg(k)] \in Nat \ {0}
    BY <2>2, RingUnits
  <2>4. /\ k - 1 \in 0..Unread /\ k - 1 \in 0..k /\ k \in 0..Unread /\ Unread \in 0..Unread
    BY <1>1
  <2>5. /\ off[k - 1] \in Nat /\ off[k] \in Nat /\ off[k - 1] <= off[k] /\ off[k] <= R!Used
        /\ off[k] = off[k - 1] + RingSize[UnreadMsg(k)]
    BY <2>4 DEF Layout
  <2>6. R!Used \in Nat
    BY RingPlaces
  <2> QED
    BY <2>2, <2>3, <2>5, <2>6
<1> QED
  BY <1>1, <1>2

LEMMA RingSend ==
  ASSUME RingInv, NEW m \in RingMsg, R!Send(m)
  PROVE  RingInv' /\ ringSent' = Append(ringSent, m) /\ ringGot' = ringGot
<1>1. PICK off \in [0..Unread -> Nat] : Layout(off)
  BY DEF RingInv
<1> DEFINE s == RingSize[m]
           u == R!Used
<1>2. /\ RingTypes /\ u + s <= MaxUnread /\ R!NbWrite(R!Units(m))
      /\ ringSent' = Append(ringSent, m) /\ ringGot' = ringGot
  BY DEF RingInv, R!Send
<1>3. /\ DOMAIN ringBuf' = 0..(Capacity - 1) /\ start' = start /\ end' \in 0..(Capacity - 1)
      /\ R!Used' = u + s
      /\ \A p \in 0..(u - 1) : ringBuf'[(start + p) % Capacity] = ringBuf[(start + p) % Capacity]
      /\ \A i \in 1..s : ringBuf'[(start + (u + i - 1)) % Capacity] = <<m, i>>
  BY <1>2, RingWrite
<1>4. /\ ringSent' \in Seq(RingMsg) /\ Len(ringSent') = Len(ringSent) + 1
      /\ \A i \in 1..Len(ringSent) : ringSent'[i] = ringSent[i]
      /\ ringSent'[Len(ringSent) + 1] = m
  BY <1>2, AppendProperties DEF RingTypes
<1>5. Len(ringSent) \in Nat /\ Len(ringGot) \in Nat /\ Len(ringGot) <= Len(ringSent)
  BY <1>2, LenProperties DEF RingTypes
<1>6. RingTypes'
  BY <1>2, <1>3, <1>4, <1>5 DEF RingTypes
<1>7. /\ Unread' = Unread + 1 /\ Unread \in Nat
      /\ \A k \in 1..Unread : UnreadMsg(k)' = UnreadMsg(k)
      /\ \A k : k = Unread + 1 => UnreadMsg(k)' = m
  <2>1. Unread' = Unread + 1 /\ Unread \in Nat
    BY <1>2, <1>4, <1>5 DEF Unread
  <2>2. ASSUME NEW k \in 1..Unread PROVE UnreadMsg(k)' = UnreadMsg(k)
    <3>1. Len(ringGot) + k \in 1..Len(ringSent)
      BY <1>5 DEF Unread
    <3> QED
      BY <1>2, <1>4, <3>1 DEF UnreadMsg
  <2>3. ASSUME NEW k, k = Unread + 1 PROVE UnreadMsg(k)' = m
    <3>1. Len(ringGot) + k = Len(ringSent) + 1
      BY <1>5, <2>3 DEF Unread
    <3> QED
      BY <1>2, <1>4, <3>1 DEF UnreadMsg
  <2> QED
    BY <2>1, <2>2, <2>3
<1>8. /\ Unread \in Nat /\ s \in Nat \ {0} /\ u \in Nat
      /\ off[0] = 0 /\ off[Unread] = u
      /\ \A k \in 0..Unread : off[k] \in Nat /\ off[k] <= u /\ \A j \in 0..k : off[j] <= off[k]
  <2>1. Unread \in Nat /\ s \in Nat \ {0} /\ u \in Nat
    <3>1. Capacity \in Nat \ {0} /\ u \in 0..(Capacity - 1) /\ s \in Nat \ {0}
      BY <1>2, RingUnits, RingPlaces
    <3> HIDE DEF s, u
    <3> QED
      BY <1>7, <3>1
  <2>2. Unread \in 0..Unread /\ \A k \in 0..Unread : k \in 0..Unread
    BY <2>1
  <2> QED
    BY <1>1, <2>1, <2>2 DEF Layout
<1>9. PICK new : new = [k \in 0..(Unread + 1) |-> IF k <= Unread THEN off[k] ELSE u + s]
  OBVIOUS
<1>10. /\ new \in [0..(Unread + 1) -> Nat] /\ new[Unread + 1] = u + s
       /\ \A k \in 0..Unread : new[k] = off[k]
  <2> HIDE DEF s, u
  <2> QED
    BY <1>8, <1>9
<1>11. Layout(new)'
  <2>1. new[0] = 0 /\ new[Unread'] = R!Used'
    BY <1>3, <1>7, <1>8, <1>10
  <2>2. \A k \in 0..Unread' : \A j \in 0..k : new[j] <= new[k]
    <3> SUFFICES ASSUME NEW k \in 0..(Unread + 1), NEW j \in 0..k PROVE new[j] <= new[k]
      BY <1>7
    <3> HIDE DEF s, u
    <3>1. CASE k \in 0..Unread
      <4>1. j \in 0..Unread
        BY <1>8, <3>1
      <4> QED
        BY <1>8, <1>10, <3>1, <4>1
    <3>2. CASE k = Unread + 1 /\ j \in 0..Unread
      BY <1>8, <1>10, <3>2
    <3>3. CASE k = Unread + 1 /\ j = Unread + 1
      BY <1>8, <1>10, <3>3
    <3> QED
      BY <1>8, <3>1, <3>2, <3>3
  <2>3. ASSUME NEW k \in 1..Unread
        PROVE  /\ new[k] = new[k - 1] + RingSize[UnreadMsg(k)']
               /\ \A i \in 1..RingSize[UnreadMsg(k)'] :
                    ringBuf'[(start' + (new[k - 1] + i - 1)) % Capacity] = <<UnreadMsg(k)', i>>
    <3>1. new[k] = off[k] /\ new[k - 1] = off[k - 1] /\ UnreadMsg(k)' = UnreadMsg(k)
      <4>1. k \in 0..Unread /\ k - 1 \in 0..Unread
        BY <1>8
      <4> QED
        BY <1>7, <1>10, <4>1
    <3>2. off[k] = off[k - 1] + RingSize[UnreadMsg(k)]
      BY <1>1 DEF Layout
    <3>3. ASSUME NEW i \in 1..RingSize[UnreadMsg(k)]
          PROVE  ringBuf'[(start' + (new[k - 1] + i - 1)) % Capacity] = <<UnreadMsg(k), i>>
      <4>1. off[k - 1] + i - 1 \in 0..(u - 1)
        BY <1>1, <1>2, RingOffsets
      <4>2. ringBuf[(start + (off[k - 1] + i - 1)) % Capacity] = <<UnreadMsg(k), i>>
        BY <1>1 DEF Layout
      <4> DEFINE p == off[k - 1] + i - 1
      <4>3. p \in 0..(u - 1) /\ ringBuf[(start + p) % Capacity] = <<UnreadMsg(k), i>>
        BY <4>1, <4>2
      <4> HIDE DEF p, u, s
      <4>4. ringBuf'[(start + p) % Capacity] = <<UnreadMsg(k), i>>
        BY <1>3, <4>3
      <4> QED
        BY <1>3, <3>1, <4>4 DEF p
    <3> QED
      BY <3>1, <3>2, <3>3
  <2>4. ASSUME NEW k, k = Unread + 1
        PROVE  /\ new[k] = new[k - 1] + RingSize[UnreadMsg(k)']
               /\ \A i \in 1..RingSize[UnreadMsg(k)'] :
                    ringBuf'[(start' + (new[k - 1] + i - 1)) % Capacity] = <<UnreadMsg(k)', i>>
    <3>1. k - 1 = Unread /\ Unread \in 0..Unread
      BY <1>8, <2>4
    <3>2. new[k - 1] = u /\ new[k] = u + s
      BY <1>8, <1>10, <2>4, <3>1
    <3>3. UnreadMsg(k)' = m
      BY <1>7, <2>4
    <3> QED
      BY <1>3, <3>2, <3>3
  <2>5. \A k \in 1..Unread' : k \in 1..Unread \/ k = Unread + 1
    BY <1>7, <1>8
  <2> QED
    BY <2>1, <2>2, <2>3, <2>4, <2>5 DEF Layout
<1> QED
  BY <1>2, <1>6, <1>7, <1>10, <1>11 DEF RingInv

\* What read_message finds: the units of the first unread message.
LEMMA RingHead ==
  ASSUME RingTypes, NEW off \in [0..Unread -> Nat], Layout(off), end # start
  PROVE  /\ Unread \in Nat \ {0} /\ off[1] = RingSize[UnreadMsg(1)]
         /\ R!SizeIn(Head(R!Contents)) = {RingSize[UnreadMsg(1)]}
         /\ R!NbRead(RingSize[UnreadMsg(1)]) = R!Units(UnreadMsg(1))
<1> DEFINE u == R!Used
           m == UnreadMsg(1)
           s == RingSize[m]
<1>1. Capacity \in Nat \ {0} /\ u \in Nat /\ u # 0
  <2>1. /\ Capacity \in Nat \ {0} /\ u \in 0..(Capacity - 1)
        /\ u = IF end < start THEN end - start + Capacity ELSE end - start
    BY RingPlaces
  <2>2. start \in 0..(Capacity - 1) /\ end \in 0..(Capacity - 1)
    BY DEF RingTypes
  <2> HIDE DEF u
  <2> QED
    BY <2>1, <2>2
<1>2. Unread \in Nat \ {0}
  <2>1. Unread \in Nat /\ off[0] = 0 /\ off[Unread] = u
    BY RingOffsets DEF Layout
  <2> QED
    BY <1>1, <2>1
<1>3. /\ m \in RingMsg /\ s \in Nat \ {0} /\ s <= u /\ off[1] = s
      /\ \A i \in 1..s : ringBuf[(start + (i - 1)) % Capacity] = <<m, i>>
  <2>1. 1 \in 1..Unread /\ 1 - 1 = 0
    BY <1>2
  <2>2. /\ off[0] = 0 /\ off[1] = off[1 - 1] + s
        /\ \A i \in 1..s : ringBuf[(start + (off[1 - 1] + i - 1)) % Capacity] = <<m, i>>
    BY <2>1 DEF Layout
  <2>3. m \in RingMsg /\ s \in Nat \ {0} /\ off[1] <= u
    BY <2>1, RingOffsets
  <2> HIDE DEF s, m, u
  <2>4. off[1 - 1] = 0 /\ \A i \in 1..s : off[1 - 1] + i - 1 = i - 1
    BY <2>1, <2>2
  <2>5. off[1] = s
    BY <2>2, <2>3, <2>4
  <2> QED
    BY <2>2, <2>3, <2>4, <2>5
<1> DEFINE c == R!Contents
           X == {c[i] : i \in 1..u}
<1>4. /\ c \in Seq(X) /\ Len(c) = u
      /\ \A i \in 1..s : c[i] = <<m, i>>
  <2>1. c = [i \in 1..u |-> ringBuf[(start + i - 1) % Capacity]]
    BY DEF R!Contents
  <2>2. ASSUME NEW i \in 1..s PROVE c[i] = <<m, i>>
    <3>1. i \in 1..u /\ start \in Nat
      <4> HIDE DEF s, u, m, c
      <4> QED
        BY <1>1, <1>3 DEF RingTypes
    <3>2. start + i - 1 = start + (i - 1)
      BY <3>1
    <3> HIDE DEF s, u, m, c
    <3>3. c[i] = ringBuf[(start + i - 1) % Capacity]
      BY <2>1, <3>1
    <3> QED
      BY <1>3, <3>2, <3>3
  <2>3. c \in Seq(X) /\ Len(c) = u
    <3>1. \A i \in 1..u : c[i] \in X
      BY Zenon
    <3> HIDE DEF u, c, X
    <3>2. DOMAIN c = 1..u /\ c = [i \in 1..u |-> c[i]]
      BY <2>1
    <3>3. c \in [1..u -> X]
      BY <3>1, <3>2
    <3> QED
      BY <1>1, <3>2, <3>3
  <2> HIDE DEF s, u, m, c
  <2> QED
    BY <2>2, <2>3
<1>5. Head(c) = <<m, 1>>
  <2> HIDE DEF s, u, m, c
  <2>1. c # <<>> /\ c[1] = <<m, 1>>
    BY <1>1, <1>3, <1>4
  <2> QED
    BY <1>4, <2>1
<1>6. R!SizeIn(Head(c)) = {s}
  <2>1. <<m, 1>>[2] = 1 /\ <<m, 1>>[1] = m
    OBVIOUS
  <2> HIDE DEF u, m, c
  <2> QED
    BY <1>5, <2>1 DEF R!SizeIn
<1>7. R!Min({s, u}) = s
  <2>1. R!Min({s, u}) = CHOOSE x \in {s, u} : \A y \in {s, u} : x <= y
    BY DEF R!Min
  <2> HIDE DEF s, u
  <2>2. s \in Int /\ u \in Int /\ s <= u
    BY <1>1, <1>3
  <2>3. \A y \in {s, u} : s <= y
    BY <2>2
  <2>4. \A x \in {s, u} : (\A y \in {s, u} : x <= y) => x = s
    BY <2>2
  <2> QED
    BY <2>1, <2>3, <2>4, Zenon
<1>8. R!NbRead(s) = R!Units(m)
  <2>1. R!NbRead(s) = SubSeq(c, 1, s)
    BY <1>7 DEF R!NbRead
  <2> DEFINE r == SubSeq(c, 1, s)
  <2>2. /\ r \in Seq(X) /\ Len(r) = s
        /\ \A i \in 1..s : r[i] = <<m, i>>
    <3> HIDE DEF s, u, m, c, X
    <3>1. /\ s \in Int /\ 1 \in Int /\ \A i \in 1..s : c[i] \in X
      <4>1. \A i \in 1..s : i \in 1..Len(c)
        BY <1>1, <1>3, <1>4
      <4> QED
        BY <1>3, <1>4, <4>1, ElementOfSeq
    <3>2. /\ r \in Seq(X) /\ Len(r) = IF 1 <= s THEN s - 1 + 1 ELSE 0
          /\ \A i \in 1..(s - 1 + 1) : r[i] = c[1 + i - 1]
      BY <3>1, SubSeqProperties
    <3> HIDE DEF r
    <3>3. s - 1 + 1 = s /\ 1 <= s /\ \A i \in 1..s : 1 + i - 1 = i
      BY <1>3
    <3> QED
      BY <1>4, <3>2, <3>3
  <2> DEFINE t == R!Units(m)
             Y == {<<m, i>> : i \in 1..s}
  <2>3. t \in Seq(Y) /\ Len(t) = s /\ \A i \in 1..s : t[i] = <<m, i>>
    BY <1>3, RingUnits
  <2> HIDE DEF s, u, m, c, X, r, t, Y
  <2>5. \A i \in 1..s : r[i] = t[i]
    BY <2>2, <2>3
  <2>4. r = t
    BY <2>2, <2>3, <2>5, SeqEqual
  <2> QED
    BY <2>1, <2>4 DEF r, t
<1> QED
  BY <1>2, <1>3, <1>6, <1>8

LEMMA RingRead ==
  ASSUME RingInv, R!Read
  PROVE  /\ RingInv' /\ ringSent' = ringSent
         /\ Len(ringGot) < Len(ringSent) /\ ringGot' = Append(ringGot, ringSent[Len(ringGot) + 1])
<1>1. PICK off \in [0..Unread -> Nat] : Layout(off)
  BY DEF RingInv
<1> DEFINE u == R!Used
           m == UnreadMsg(1)
           s == RingSize[m]
<1>2. RingTypes /\ end # start /\ ringBuf' = ringBuf /\ end' = end /\ ringSent' = ringSent
  BY DEF RingInv, R!Read, R!HasMessage
<1>3. /\ Unread \in Nat \ {0} /\ off[1] = s
      /\ R!SizeIn(Head(R!Contents)) = {s} /\ R!NbRead(s) = R!Units(m)
  BY <1>1, <1>2, RingHead
<1>4. m \in RingMsg /\ s \in Nat \ {0} /\ s <= u /\ u \in Nat
  <2>1. 1 \in 1..Unread
    BY <1>3
  <2>2. m \in RingMsg /\ s \in Nat \ {0} /\ off[1] <= u
    BY <1>1, <1>2, <2>1, RingOffsets
  <2>3. Capacity \in Nat \ {0} /\ u \in 0..(Capacity - 1)
    BY <1>2, RingPlaces
  <2> HIDE DEF s, u, m
  <2> QED
    BY <1>3, <2>2, <2>3
<1>5. R!Message(R!Units(m)) = m
  <2>1. \A d \in RingMsg : R!Units(d) = R!Units(m) => d = m
    BY <1>4, RingUnits
  <2> HIDE DEF m
  <2> QED
    BY <1>4, <2>1 DEF R!Message
<1>6. ringGot' = Append(ringGot, m) /\ start' = (start + s) % Capacity
  <2>1. PICK k \in R!SizeIn(Head(R!Contents)) :
          /\ ringGot' = Append(ringGot, R!Message(R!NbRead(k)))
          /\ start' = (start + Len(R!NbRead(k))) % Capacity
    BY DEF R!Read
  <2>2. k = s
    BY <1>3, <2>1
  <2>3. Len(R!Units(m)) = s
    BY <1>4, RingUnits
  <2> QED
    BY <1>3, <1>5, <2>1, <2>2, <2>3
<1>7. Len(ringSent) \in Nat /\ Len(ringGot) \in Nat /\ Len(ringGot) < Len(ringSent)
  <2>1. Len(ringSent) \in Nat /\ Len(ringGot) \in Nat
    BY <1>2, LenProperties DEF RingTypes
  <2> QED
    BY <1>3, <2>1 DEF Unread
<1>8. ringGot' \in Seq(RingMsg) /\ Len(ringGot') = Len(ringGot) + 1
  BY <1>2, <1>4, <1>6, AppendProperties DEF RingTypes
<1>9. /\ start' \in 0..(Capacity - 1) /\ R!Used' = u - s
      /\ \A p \in 0..(u - s) : (start' + p) % Capacity = (start + (s + p)) % Capacity
  <2>1. s \in 0..u
    <3> HIDE DEF s, u
    <3> QED
      BY <1>4
  <2>2. /\ (start + s) % Capacity \in 0..(Capacity - 1)
        /\ (end - ((start + s) % Capacity)) % Capacity = u - s
        /\ \A p \in 0..(u - s) : (((start + s) % Capacity) + p) % Capacity = (start + (s + p)) % Capacity
    BY <1>2, <2>1, RingShrinks
  <2>3. R!Used' = (end' - start') % Capacity
    BY DEF R!Used
  <2> HIDE DEF s, u
  <2> QED
    BY <1>2, <1>6, <2>2, <2>3
<1>10. RingTypes'
  BY <1>2, <1>7, <1>8, <1>9 DEF RingTypes
<1>11. /\ Unread' = Unread - 1
       /\ \A k \in 1..(Unread - 1) : UnreadMsg(k)' = UnreadMsg(k + 1)
  <2>1. Unread' = Unread - 1
    BY <1>2, <1>7, <1>8 DEF Unread
  <2>2. ASSUME NEW k \in 1..(Unread - 1) PROVE UnreadMsg(k)' = UnreadMsg(k + 1)
    <3>1. Len(ringGot) + 1 + k = Len(ringGot) + (k + 1)
      BY <1>3, <1>7
    <3> QED
      BY <1>2, <1>8, <3>1 DEF UnreadMsg
  <2> QED
    BY <2>1, <2>2
<1>12. /\ off[Unread] = u
       /\ \A k \in 0..Unread : off[k] \in Nat /\ \A j \in 0..k : off[j] <= off[k]
       /\ \A k \in 1..Unread : off[k] >= s
  <2>1. \A k \in 1..Unread : k \in 0..Unread /\ 1 \in 0..k
    BY <1>3
  <2>2. /\ off[Unread] = u
        /\ \A k \in 0..Unread : off[k] \in Nat /\ \A j \in 0..k : off[j] <= off[k]
    BY <1>1 DEF Layout
  <2> QED
    BY <1>3, <2>1, <2>2
<1>13. PICK new : new = [k \in 0..(Unread - 1) |-> off[k + 1] - s]
  OBVIOUS
<1>14. /\ new \in [0..(Unread - 1) -> Nat]
       /\ \A k \in 0..(Unread - 1) : new[k] = off[k + 1] - s
  <2>1. \A k \in 0..(Unread - 1) : k + 1 \in 1..Unread /\ k + 1 \in 0..Unread
    BY <1>3
  <2> HIDE DEF s, u
  <2>2. \A k \in 0..(Unread - 1) : off[k + 1] - s \in Nat
    BY <1>4, <1>12, <2>1
  <2> QED
    BY <1>13, <2>2
<1>15. Layout(new)'
  <2>1. new[0] = 0 /\ new[Unread'] = R!Used'
    <3>1. 0 \in 0..(Unread - 1) /\ Unread - 1 \in 0..(Unread - 1) /\ 0 + 1 = 1 /\ Unread - 1 + 1 = Unread
      BY <1>3
    <3> HIDE DEF s, u
    <3> QED
      BY <1>3, <1>4, <1>9, <1>11, <1>12, <1>14, <3>1
  <2>2. \A k \in 0..Unread' : \A j \in 0..k : new[j] <= new[k]
    <3> SUFFICES ASSUME NEW k \in 0..(Unread - 1), NEW j \in 0..k PROVE new[j] <= new[k]
      BY <1>11
    <3>1. /\ j \in 0..(Unread - 1) /\ j + 1 \in 0..(k + 1) /\ j + 1 \in 0..Unread /\ k + 1 \in 0..Unread
      BY <1>3
    <3> HIDE DEF s, u
    <3>2. off[j + 1] <= off[k + 1] /\ off[j + 1] \in Nat /\ off[k + 1] \in Nat
      BY <1>12, <3>1
    <3> QED
      BY <1>4, <1>14, <3>1, <3>2
  <2>3. ASSUME NEW k \in 1..Unread'
        PROVE  /\ new[k] = new[k - 1] + RingSize[UnreadMsg(k)']
               /\ \A i \in 1..RingSize[UnreadMsg(k)'] :
                    ringBuf'[(start' + (new[k - 1] + i - 1)) % Capacity] = <<UnreadMsg(k)', i>>
    <3>1. /\ k \in 1..(Unread - 1) /\ k + 1 \in 1..Unread /\ k - 1 \in 0..(Unread - 1) /\ k \in 0..(Unread - 1)
          /\ k + 1 - 1 = k /\ k - 1 + 1 = k /\ k \in 1..Unread
      BY <1>3, <1>11
    <3> DEFINE w == UnreadMsg(k + 1)
    <3>2. UnreadMsg(k)' = w
      BY <1>11, <3>1
    <3>3. /\ off[k + 1] = off[k] + RingSize[w] /\ off[k] \in Nat /\ off[k] >= s /\ off[k + 1] \in Nat
          /\ \A i \in 1..RingSize[w] : ringBuf[(start + (off[k] + i - 1)) % Capacity] = <<w, i>>
      <4>3. \A q \in 1..Unread :
              /\ off[q] = off[q - 1] + RingSize[UnreadMsg(q)]
              /\ \A i \in 1..RingSize[UnreadMsg(q)] :
                   ringBuf[(start + (off[q - 1] + i - 1)) % Capacity] = <<UnreadMsg(q), i>>
        BY <1>1 DEF Layout
      <4>4. PICK q : q = k + 1
        OBVIOUS
      <4>1. /\ off[k + 1] = off[k + 1 - 1] + RingSize[w]
            /\ \A i \in 1..RingSize[w] : ringBuf[(start + (off[k + 1 - 1] + i - 1)) % Capacity] = <<w, i>>
        <5>1. q \in 1..Unread
          BY <3>1, <4>4
        <5>2. /\ off[q] = off[q - 1] + RingSize[UnreadMsg(q)]
              /\ \A i \in 1..RingSize[UnreadMsg(q)] :
                   ringBuf[(start + (off[q - 1] + i - 1)) % Capacity] = <<UnreadMsg(q), i>>
          BY <4>3, <5>1
        <5> QED
          BY <4>4, <5>2
      <4>2. off[k] \in Nat /\ off[k] >= s /\ off[k + 1] \in Nat
        BY <1>12, <3>1
      <4> HIDE DEF w, s
      <4> QED
        BY <3>1, <4>1, <4>2
    <3>4. new[k - 1] = off[k] - s /\ new[k] = off[k + 1] - s
      <4>1. new[k - 1] = off[k - 1 + 1] - s /\ new[k] = off[k + 1] - s
        BY <1>14, <3>1
      <4> HIDE DEF s
      <4> QED
        BY <3>1, <4>1
    <3>5. RingSize[w] \in Nat \ {0} /\ \A i \in 1..RingSize[w] : off[k] + i - 1 \in 0..(u - 1)
      <4>2. \A q \in 1..Unread :
              /\ RingSize[UnreadMsg(q)] \in Nat \ {0}
              /\ \A i \in 1..RingSize[UnreadMsg(q)] : off[q - 1] + i - 1 \in 0..(u - 1)
        BY <1>1, <1>2, RingOffsets
      <4>1. RingSize[w] \in Nat \ {0} /\ \A i \in 1..RingSize[w] : off[k + 1 - 1] + i - 1 \in 0..(u - 1)
        <5>1. PICK q : q = k + 1
          OBVIOUS
        <5>2. q \in 1..Unread
          BY <3>1, <5>1
        <5>3. /\ RingSize[UnreadMsg(q)] \in Nat \ {0}
              /\ \A i \in 1..RingSize[UnreadMsg(q)] : off[q - 1] + i - 1 \in 0..(u - 1)
          BY <4>2, <5>2
        <5> QED
          BY <5>1, <5>3
      <4> HIDE DEF w, u
      <4> QED
        BY <3>1, <4>1
    <3>6. ASSUME NEW i \in 1..RingSize[w]
          PROVE  ringBuf'[(start' + (new[k - 1] + i - 1)) % Capacity] = <<w, i>>
      <4> DEFINE p == new[k - 1] + i - 1
      <4>1. p \in 0..(u - s) /\ s + p = off[k] + i - 1
        <5> DEFINE z == RingSize[w]
        <5>1. off[k] + i - 1 \in 0..(u - 1) /\ z \in Nat \ {0} /\ i \in 1..z
          BY <3>5
        <5> HIDE DEF s, u, w, z
        <5>2. i \in Nat /\ i >= 1 /\ off[k] \in Nat /\ off[k] >= s /\ s \in Nat /\ s >= 1 /\ u \in Nat
          BY <1>4, <3>3, <5>1
        <5>3. p = off[k] - s + i - 1
          BY <3>4
        <5> HIDE DEF p
        <5>4. off[k] + i - 1 <= u - 1
          BY <5>1, <5>2
        <5> QED
          BY <5>2, <5>3, <5>4
      <4>2. (start' + p) % Capacity = (start + (s + p)) % Capacity
        <5> HIDE DEF p, s, u
        <5> QED
          BY <1>9, <4>1
      <4> HIDE DEF p, s, u, w
      <4> QED
        BY <1>2, <3>3, <4>1, <4>2 DEF p
    <3>7. new[k] = new[k - 1] + RingSize[w]
      <4> HIDE DEF s, w, u
      <4> QED
        BY <1>4, <3>3, <3>4, <3>5
    <3> QED
      BY <3>2, <3>6, <3>7
  <2> QED
    BY <2>1, <2>2, <2>3 DEF Layout
<1>16. RingInv'
  BY <1>10, <1>11, <1>14, <1>15 DEF RingInv
<1> QED
  BY <1>2, <1>6, <1>7, <1>16 DEF UnreadMsg


LEMMA RingStep ==
  ASSUME RingInv, [WireNext]_all
  PROVE  /\ RingInv'
         /\ \/ ringSent' = ringSent /\ ringGot' = ringGot
            \/ \E m \in RingMsg : ringSent' = Append(ringSent, m) /\ ringGot' = ringGot
            \/ /\ ringSent' = ringSent /\ Len(ringGot) < Len(ringSent)
               /\ ringGot' = Append(ringGot, ringSent[Len(ringGot) + 1])
<1>1. CASE R!Next
  BY <1>1, RingSend, RingRead DEF R!Next
<1>2. CASE UNCHANGED ringVars
  <2>1. /\ ringBuf' = ringBuf /\ start' = start /\ end' = end
        /\ ringSent' = ringSent /\ ringGot' = ringGot
    BY <1>2 DEF ringVars
  <2>2. RingInv' = RingInv
    BY <2>1 DEF RingInv, RingTypes, Layout, Unread, UnreadMsg, R!Used
  <2> QED
    BY <2>1, <2>2
<1> QED
  BY <1>1, <1>2 DEF WireNext, Out, Ring, Single, Sound, all

\* The ring buffer is laid out like that all the time, at any turn of the ring.
THEOREM RingLayout ==
  WireSpec => []RingInv
<1>1. WireInit => RingInv
  BY RingInvInit DEF WireInit
<1>2. RingInv /\ [WireNext]_all => RingInv'
  BY RingStep
<1> QED
  BY <1>1, <1>2, PTL DEF WireSpec

\* The ring buffer implements a message queue: a size and as many bytes as it
\* says (read_message) are the next message put into it, also where the message
\* goes on at the beginning of the buffer (nb_write, nb_read).
THEOREM RingIsQueue ==
  WireSpec => RingInOrder
<1>1. WireInit => R!Queue!Init
  BY DEF WireInit, R!Init, R!Queue!Init
<1>2. RingInv /\ [WireNext]_all => [R!Queue!Next]_(R!Queue!vars)
  BY RingStep DEF R!Queue!Next, R!Queue!Send, R!Queue!Deliver, R!Queue!vars
<1> QED
  BY <1>1, <1>2, RingLayout, PTL DEF WireSpec, RingInOrder, R!InOrder, R!Queue!Spec
-----------------------------------------------------------------------------
(***************************************************************************)
(* The program for a single player (SinglePlayer), for any options and any *)
(* number of connections.                                                  *)
(***************************************************************************)
ClientMessages == {"SET", "START", "KEYEND", "QUIT"}
QueueTypes ==
  /\ options \in Options
  /\ toServer \in Seq(ClientMessages) /\ toClient \in Seq(P!Messages)

\* No connection was closed yet: the lobby.
LobbyPhase ==
  /\ screen = "menu" /\ ~started /\ ~player /\ open /\ P!Orders(toServer)
  /\ \/ pc \in {"poll", "verify"} /\ ~joined /\ toServer = <<>> /\ toClient = <<>>
     \/ pc \in {"poll", "verify", "keys"} /\ joined /\ toClient = <<>>
     \/ pc = "input" /\ joined /\ toClient \in {<<>>, <<"RETURN">>}
     \/ /\ pc = "input" /\ joined /\ toServer = <<>>
        /\ toClient \in {<<"SERVERINFO", "TYPE">>, <<"TYPE">>}

\* ... a game that was started and not shown yet.
StartPhase ==
  /\ screen = "menu" /\ player /\ alive /\ ~joined /\ open /\ toServer = <<>>
  /\ \/ pc = "send" /\ ~started /\ toClient = <<"SETUP", "START">>
     \/ /\ pc \in {"remove", "input"} /\ ~started
        /\ toClient = <<"SETUP", "START", "STATE">>
     \/ pc = "input" /\ ~started /\ toClient = <<"START", "STATE">>
     \/ pc = "keys" /\ started /\ toClient = <<"STATE">>

\* ... the game.  A START that was sent as the game began is read as a key.
GamePhase ==
  /\ screen = "game" /\ player /\ alive /\ ~joined
  /\ \/ /\ pc = "play" /\ toClient = <<"STATE">>
        /\ toServer = <<>> \/ (fading /\ toServer = <<"START">>)
     \/ /\ pc \in {"verify", "send"} /\ toClient = <<"STATE">>
        /\ toServer \in {<<"KEYEND">>, <<"START", "KEYEND">>}
     \/ /\ pc = "receive" /\ toClient = <<"STATE", "STATE">>
        /\ toServer \in {<<"KEYEND">>, <<"START", "KEYEND">>}
     \/ pc \in {"remove", "draw"} /\ toClient = <<"STATE", "STATE">> /\ toServer = <<>>

\* A connection was closed: the QUIT of the server stays in the buffer and
\* closes every connection that follows.
ClosedPhase ==
  /\ ~player /\ "QUIT" \in ToSet(toClient) /\ "START" \notin ToSet(toClient)
  /\ \/ pc = "connect" /\ ~joined
     \/ screen = "menu" /\ ~started /\ ~joined /\ pc \in {"poll", "verify"}
     \/ screen = "menu" /\ ~started /\ ~joined /\ pc = "keys" /\ ~open
     \/ screen = "menu" /\ ~started /\ joined /\ pc = "input"

\* A connection was closed because the map of its game could not be read:
\* START is still there, and the next connection takes it for its own.
UnreadStart == <<"START", "STATE", "QUIT">>
BadMapPhase ==
  /\ ~player /\ screen = "menu" /\ toServer = <<"QUIT">>
  /\ \/ /\ pc = "poll" \/ (pc = "verify" /\ open) \/ (pc = "keys" /\ ~open)
        /\ ~joined /\ ~started /\ toClient = UnreadStart
     \/ /\ pc = "input" /\ open /\ joined /\ ~started
        /\ toClient = UnreadStart \o <<"SERVERINFO", "TYPE">>
     \/ /\ pc = "keys" /\ open /\ joined /\ started
        /\ toClient = Tail(UnreadStart) \o <<"SERVERINFO", "TYPE">>

\* ... and the game that is shown then has no player: the server reads the old
\* QUIT, then accepts the client, and reads its keys as messages of the lobby.
OnlyKeys(s) == \A i \in 1..Len(s) : s[i] = "KEYEND"
LonelyPhase ==
  /\ ~player /\ screen = "game"
  /\ \/ /\ joined /\ toClient = <<"STATE", "QUIT", "SERVERINFO", "TYPE">>
        /\ \/ pc = "play" /\ toServer = <<"QUIT">>
           \/ pc = "verify" /\ toServer = <<"QUIT", "KEYEND">>
     \/ /\ pc = "draw" /\ ~joined /\ toServer = <<"KEYEND">>
        /\ toClient = <<"STATE", "QUIT", "SERVERINFO", "TYPE">>
     \/ /\ ~joined /\ toClient = <<"QUIT", "SERVERINFO", "TYPE">>
        /\ \/ pc = "play" /\ toServer = <<"KEYEND">>
           \/ pc = "verify" /\ toServer = <<"KEYEND", "KEYEND">>
     \/ /\ pc \in {"play", "verify", "draw"} /\ joined /\ OnlyKeys(toServer)
        /\ "START" \notin ToSet(toClient) /\ "STATE" \notin ToSet(toClient)

\* Before the first connection.
NotYet ==
  pc = "connect" /\ toServer = <<>> /\ toClient = <<>> /\ ~joined /\ ~player

Phases ==
  \/ hasty \/ pc = "exit"
  \/ NotYet \/ LobbyPhase \/ StartPhase \/ GamePhase
  \/ ClosedPhase \/ BadMapPhase \/ LonelyPhase

SingleInv == QueueTypes /\ Phases

\* The actions that may follow each place of the thread.
LEMMA ByPlace ==
  ASSUME P!Next
  PROVE  /\ pc = "connect" => P!Startup
         /\ pc = "poll" => P!Poll
         /\ pc = "verify" => P!AcceptClient \/ P!LobbyMessage \/ P!NoLobbyMessage
         /\ pc = "send" => P!SendFrame
         /\ pc = "receive" => P!ReceiveMessage \/ P!ReceiveNothing
         /\ pc = "remove" => P!RemoveDisconnected
         /\ pc = "input" => P!InputMessage \/ P!InputBadMap \/ P!InputQuit \/ P!InputStart \/ P!InputDone
         /\ pc = "keys" => P!Choose \/ P!Play \/ P!NoCommand \/ P!Disconnect \/ P!Connect \/ P!Quit
         /\ pc = "play" => P!ClientSend \/ P!Escape
         /\ pc = "draw" => P!DrawFrame \/ P!IgnoreMessage \/ P!ReceiveFails
         /\ pc # "exit"
<1>1. CASE P!Server
  BY <1>1 DEF P!Server, P!AcceptClient, P!LobbyMessage, P!NoLobbyMessage, P!SendFrame,
     P!ReceiveMessage, P!ReceiveNothing, P!RemoveDisconnected
<1>2. CASE P!Menu
  BY <1>2 DEF P!Menu, P!Startup, P!Poll, P!TakeMessage, P!InputMessage, P!InputBadMap, P!InputQuit,
     P!InputStart, P!InputDone, P!CanCommand, P!Choose, P!Play, P!NoCommand, P!Disconnect,
     P!Connect, P!Quit
<1>3. CASE P!Game
  BY <1>3 DEF P!Game, P!ClientSend, P!Escape, P!DrawFrame, P!IgnoreMessage, P!ReceiveFails
<1> QED
  BY <1>1, <1>2, <1>3 DEF P!Next

\* What a queue of each direction is made of.
LEMMA QueueSteps ==
  ASSUME QueueTypes
  PROVE  /\ \A s \in Seq(ClientMessages) : toServer \o s \in Seq(ClientMessages)
         /\ \A s \in Seq(P!Messages) : toClient \o s \in Seq(P!Messages)
         /\ toServer # <<>> => /\ Head(toServer) \in ClientMessages
                               /\ Tail(toServer) \in Seq(ClientMessages)
         /\ toClient # <<>> => /\ Head(toClient) \in P!Messages
                               /\ Tail(toClient) \in Seq(P!Messages)
         /\ \A s \in Seq(P!Messages) : Append(s, "QUIT") \in Seq(P!Messages)
         /\ options \in Seq(ClientMessages) /\ P!Orders(options)
<1>1. options \in Seq({"SET", "START"}) /\ P!Orders(options)
  BY SinglePlayerAssumption DEF P!OptionsAssumption, QueueTypes
<1>2. {"SET", "START"} \subseteq ClientMessages /\ "QUIT" \in P!Messages
  BY DEF ClientMessages, P!Messages
<1>3. options \in Seq(ClientMessages)
  BY <1>1, <1>2, SeqMonotonic
<1> QED
  BY <1>1, <1>2, <1>3, ConcatProperties, AppendProperties, HeadTailProperties DEF QueueTypes

\* The queues hold messages.
LEMMA QueueTypesKept ==
  ASSUME QueueTypes, P!Next
  PROVE  QueueTypes'
<1>1. /\ <<"SET">> \in Seq(ClientMessages) /\ <<"SET", "SET">> \in Seq(ClientMessages)
      /\ <<"START">> \in Seq(ClientMessages) /\ <<"KEYEND">> \in Seq(ClientMessages)
      /\ <<"QUIT">> \in Seq(ClientMessages) /\ <<>> \in Seq(ClientMessages)
  BY DEF ClientMessages
<1>2. /\ <<"SERVERINFO", "TYPE">> \in Seq(P!Messages) /\ <<"SETUP", "START">> \in Seq(P!Messages)
      /\ <<"RETURN">> \in Seq(P!Messages) /\ <<"STATE">> \in Seq(P!Messages)
      /\ <<>> \in Seq(P!Messages)
  BY DEF P!Messages
<1>3. options' = options
  BY DEF P!Next, P!Server, P!Menu, P!Game, P!AcceptClient, P!LobbyMessage, P!NoLobbyMessage,
     P!SendFrame, P!ReceiveMessage, P!ReceiveNothing, P!RemoveDisconnected, P!Startup, P!ClientOpen,
     P!Poll, P!InputMessage, P!InputBadMap, P!InputQuit, P!InputStart, P!InputDone, P!Choose,
     P!Play, P!NoCommand, P!Disconnect, P!Connect, P!Quit, P!ClientSend, P!Escape, P!DrawFrame,
     P!IgnoreMessage, P!ReceiveFails, P!clientVars, P!user
<1>4. /\ toServer \in Seq(ClientMessages) /\ toClient \in Seq(P!Messages)
  BY DEF QueueTypes
<1>5. toServer' \in Seq(ClientMessages) /\ toClient' \in Seq(P!Messages)
  <2>1. CASE P!Server
    BY <2>1, <1>1, <1>2, <1>4, QueueSteps DEF P!Server, P!AcceptClient, P!LobbyMessage,
       P!StartGame, P!StartFails, P!NoLobbyMessage, P!SendFrame, P!ReceiveMessage,
       P!ReceiveNothing, P!RemoveDisconnected, P!ToClient, P!network
  <2>2. CASE P!Menu
    <3>1. CASE P!Startup \/ P!Poll \/ P!InputDone \/ P!NoCommand \/ P!Connect \/ P!Quit
      BY <3>1, <1>4 DEF P!Startup, P!Poll, P!InputDone, P!NoCommand, P!Connect, P!Quit,
         P!ClientOpen, P!network
    <3>2. CASE P!InputMessage
      BY <3>2, <1>1, <1>4, QueueSteps DEF P!InputMessage, P!TakeMessage, P!ToServer
    <3>3. CASE P!InputBadMap
      BY <3>3, <1>1, <1>4, QueueSteps DEF P!InputBadMap, P!TakeMessage, P!ToServer, P!CloseServer
    <3>4. CASE P!InputQuit
      BY <3>4, <1>4, QueueSteps DEF P!InputQuit, P!TakeMessage, P!CloseServer
    <3>5. CASE P!InputStart
      BY <3>5, <1>4, QueueSteps DEF P!InputStart, P!TakeMessage
    <3>6. CASE P!Choose \/ P!Play
      BY <3>6, <1>1, <1>4, QueueSteps DEF P!Choose, P!Play, P!ToServer
    <3>7. CASE P!Disconnect
      BY <3>7, <1>4, QueueSteps DEF P!Disconnect, P!CloseServer
    <3> QED
      BY <2>2, <3>1, <3>2, <3>3, <3>4, <3>5, <3>6, <3>7 DEF P!Menu
  <2>3. CASE P!Game
    <3>1. CASE P!ClientSend \/ P!Escape
      BY <3>1, <1>1, <1>4, QueueSteps DEF P!ClientSend, P!Escape, P!ToServer, P!CloseServer
    <3>2. CASE P!DrawFrame \/ P!IgnoreMessage
      BY <3>2, <1>4, QueueSteps DEF P!DrawFrame, P!IgnoreMessage
    <3>3. CASE P!ReceiveFails
      BY <3>3, <1>1, <1>2, <1>4, QueueSteps DEF P!ReceiveFails, P!ToServer, P!CloseServer
    <3> QED
      BY <2>3, <3>1, <3>2, <3>3 DEF P!Game
  <2> QED
    BY <2>1, <2>2, <2>3 DEF P!Next
<1> QED
  BY <1>3, <1>5 DEF QueueTypes

\* A user who was hasty once is taken for hasty.
LEMMA HastyStays ==
  ASSUME P!Next, ~hasty'
  PROVE  ~hasty
<1>1. CASE P!CanCommand
  BY <1>1 DEF P!CanCommand
<1>2. CASE UNCHANGED hasty
  BY <1>2
<1>3. P!CanCommand \/ UNCHANGED hasty
  BY DEF P!Next, P!Server, P!Menu, P!Game, P!AcceptClient, P!LobbyMessage, P!NoLobbyMessage,
     P!SendFrame, P!ReceiveMessage, P!ReceiveNothing, P!RemoveDisconnected, P!Startup, P!ClientOpen,
     P!Poll, P!InputMessage, P!InputBadMap, P!InputQuit, P!InputStart, P!InputDone, P!Choose,
     P!Play, P!NoCommand, P!Disconnect, P!Connect, P!Quit, P!ClientSend, P!Escape, P!DrawFrame,
     P!IgnoreMessage, P!ReceiveFails, P!clientVars, P!user
<1> QED
  BY <1>1, <1>2, <1>3

\* What is left when the first of some orders is read.
LEMMA OrdersTail ==
  ASSUME NEW s \in Seq(ClientMessages), s # <<>>, P!Orders(s)
  PROVE  /\ P!Orders(Tail(s)) /\ Head(s) \in {"SET", "START"}
         /\ Head(s) = "START" => Tail(s) = <<>>
<1> DEFINE t == Tail(s)
<1>1. /\ t \in Seq(ClientMessages) /\ Len(t) = Len(s) - 1 /\ Len(s) \in Nat /\ Len(s) >= 1
      /\ \A i \in 1..(Len(s) - 1) : t[i] = s[i + 1]
      /\ Head(s) = s[1]
  BY HeadTailProperties, LenProperties, EmptySeq
<1>2. DOMAIN s = 1..Len(s) /\ DOMAIN t = 1..(Len(s) - 1)
  BY <1>1, LenProperties
<1> HIDE DEF t
<1>3. P!Orders(t)
  <2> SUFFICES ASSUME NEW i \in DOMAIN t
               PROVE  t[i] \in {"SET", "START"} /\ (t[i] = "START" => i = Len(t))
    BY DEF P!Orders
  <2>1. i + 1 \in DOMAIN s /\ t[i] = s[i + 1]
    BY <1>1, <1>2
  <2> QED
    BY <2>1, <1>1, <1>2 DEF P!Orders
<1>4. Head(s) \in {"SET", "START"} /\ (Head(s) = "START" => Len(t) = 0)
  BY <1>1, <1>2 DEF P!Orders
<1>5. Len(t) = 0 => t = <<>>
  BY <1>1, EmptySeq, SeqEqual
<1> QED
  BY <1>3, <1>4, <1>5 DEF t

LEMMA ShortOrders ==
  P!Orders(<<>>) /\ P!Orders(<<"SET">>) /\ P!Orders(<<"SET", "SET">>) /\ P!Orders(<<"START">>)
  BY DEF P!Orders

\* A connection that is closed while the server knows its client leaves QUIT.
LEMMA Closing ==
  ASSUME NEW s \in Seq(P!Messages), P!CloseServer(s)
  PROVE  /\ ~joined' /\ ~player' /\ ~alive'
         /\ joined \/ player => toClient' = Append(s, "QUIT") /\ ToSet(toClient') = ToSet(s) \cup {"QUIT"}
         /\ ~joined /\ ~player => toClient' = s
<1>1. ToSet(Append(s, "QUIT")) = ToSet(s) \cup {"QUIT"}
  BY AppendMembers DEF P!Messages
<1> QED
  BY <1>1 DEF P!CloseServer

LEMMA NothingInEmpty == ToSet(<<>>) = {}
  BY DEF ToSet

LEMMA LobbyPhaseNext ==
  ASSUME QueueTypes, LobbyPhase, P!Next, ~hasty'
  PROVE  Phases'
<1> DEFINE lobby == screen' = "menu" /\ ~started' /\ ~player' /\ open'
<1>0. screen = "menu" /\ ~started /\ ~player /\ open /\ P!Orders(toServer)
  BY DEF LobbyPhase
<1>1. CASE pc = "poll"
  <2>1. P!Poll
    BY <1>1, ByPlace
  <2> QED
    BY <1>1, <2>1, <1>0 DEF LobbyPhase, Phases, P!Poll, P!serverVars, P!network
<1>2. CASE pc = "verify"
  <2>1. CASE P!AcceptClient
    <3>1. /\ joined' = TRUE /\ pc' = "input" /\ toServer' = toServer
          /\ toClient' = toClient \o <<"SERVERINFO", "TYPE">>
          /\ UNCHANGED <<screen, started, open, player>>
      BY <1>0, <2>1 DEF P!AcceptClient, P!Return, P!ToClient, P!clientVars
    <3>2. toServer = <<>> /\ toClient = <<>>
      BY <1>2, <2>1 DEF LobbyPhase, P!AcceptClient
    <3>3. toClient' = <<"SERVERINFO", "TYPE">>
      BY <3>1, <3>2, ShortConcats
    <3> QED
      BY <3>1, <3>2, <3>3, <1>0, ShortOrders DEF LobbyPhase, Phases
  <2>2. CASE P!LobbyMessage
    <3>1. /\ joined /\ toServer # <<>> /\ toClient = <<>> /\ toServer' = Tail(toServer)
          /\ UNCHANGED <<screen, started, open>> /\ toServer \in Seq(ClientMessages)
      BY <1>2, <2>2 DEF LobbyPhase, P!LobbyMessage, P!clientVars, QueueTypes
    <3>2. /\ P!Orders(toServer') /\ Head(toServer) \in {"SET", "START"}
          /\ Head(toServer) = "START" => toServer' = <<>>
      BY <1>0, <3>1, OrdersTail
    <3>3. CASE P!StartGame /\ Head(toServer) = "START"
      <4>1. toClient' = <<"SETUP", "START">> /\ player' /\ alive' /\ ~joined' /\ pc' = "send"
        BY <3>1, <3>3 DEF P!StartGame, P!ToClient
      <4> QED
        BY <4>1, <3>1, <3>2, <3>3, <1>0 DEF StartPhase, Phases
    <3>4. CASE P!StartFails
      <4>1. toClient' = <<"RETURN">> /\ joined' /\ ~player' /\ pc' = "input"
        BY <3>1, <3>4, <1>0 DEF P!StartFails, P!ToClient, P!Return, P!serverVars
      <4> QED
        BY <4>1, <3>1, <3>2, <1>0 DEF LobbyPhase, Phases
    <3>5. CASE Head(toServer) # "START"
      <4>1. /\ joined' = (Head(toServer) # "QUIT") /\ player' = player /\ pc' = P!Return
            /\ toClient' = toClient \o (IF Head(toServer) = "SET" THEN <<"RETURN">> ELSE <<>>)
        BY <3>5, <2>2 DEF P!LobbyMessage, P!ToClient
      <4>2. Head(toServer) = "SET"
        BY <3>2, <3>5
      <4>3. toClient' = <<"RETURN">>
        BY <4>1, <4>2, <3>1, ShortConcats
      <4>4. joined' /\ ~player' /\ pc' = "input"
        BY <4>1, <4>2, <1>0 DEF P!Return
      <4> QED
        BY <4>3, <4>4, <3>1, <3>2, <1>0 DEF LobbyPhase, Phases
    <3> QED
      BY <2>2, <3>3, <3>4, <3>5 DEF P!LobbyMessage
  <2>3. CASE P!NoLobbyMessage
    <3>1. joined' /\ pc' = "input" /\ lobby /\ UNCHANGED <<toServer, toClient>>
      BY <1>0, <1>2, <2>3 DEF P!NoLobbyMessage, P!running, P!Return, P!clientVars, P!serverVars,
         P!network
    <3>2. toClient = <<>>
      BY <1>2 DEF LobbyPhase
    <3> QED
      BY <3>1, <3>2, <1>0 DEF LobbyPhase, Phases
  <2> QED
    BY <1>2, <2>1, <2>2, <2>3, ByPlace
<1>3. CASE pc = "input"
  <2>0. joined /\ toServer \in Seq(ClientMessages)
    BY <1>3 DEF LobbyPhase, QueueTypes
  <2>1. CASE toClient = <<>>
    <3>1. P!InputDone
      BY <1>3, <2>1, ByPlace DEF P!InputMessage, P!InputBadMap, P!InputQuit, P!InputStart, P!TakeMessage
    <3> QED
      BY <2>0, <2>1, <3>1, <1>0 DEF LobbyPhase, Phases, P!InputDone, P!clientVars, P!serverVars, P!network
  <2>2. CASE toClient # <<>>
    <3>1. /\ \/ toClient = <<"RETURN">>
             \/ toServer = <<>> /\ toClient \in {<<"SERVERINFO", "TYPE">>, <<"TYPE">>}
          /\ Head(toClient) \in {"RETURN", "SERVERINFO", "TYPE"}
      BY <1>3, <2>2, ShortTails DEF LobbyPhase
    <3>2. P!InputMessage
      BY <1>3, <2>2, <3>1, ByPlace DEF P!InputDone, P!InputBadMap, P!InputQuit, P!InputStart
    <3>3. /\ pc' = "input" /\ lobby /\ joined' /\ toClient' = Tail(toClient)
          /\ toServer' = toServer \o (IF Head(toClient) = "TYPE" THEN options ELSE <<>>)
      BY <1>0, <1>3, <2>0, <3>2 DEF P!InputMessage, P!ToServer, P!serverVars
    <3>4. CASE toClient = <<"RETURN">>
      <4>1. toClient' = <<>> /\ toServer' = toServer
        BY <2>0, <3>3, <3>4, ShortTails
      <4> QED
        BY <4>1, <3>3, <1>0 DEF LobbyPhase, Phases
    <3>5. CASE toServer = <<>> /\ toClient = <<"SERVERINFO", "TYPE">>
      <4>1. toClient' = <<"TYPE">> /\ toServer' = <<>>
        BY <2>0, <3>3, <3>5, ShortTails
      <4> QED
        BY <4>1, <3>3, ShortOrders DEF LobbyPhase, Phases
    <3>6. CASE toServer = <<>> /\ toClient = <<"TYPE">>
      <4>1. toClient' = <<>> /\ toServer' = <<>> \o options
        BY <3>3, <3>6, ShortTails
      <4>2. <<>> \o options = options /\ P!Orders(options)
        BY QueueSteps, ConcatEmptySeq
      <4> QED
        BY <4>1, <4>2, <3>3 DEF LobbyPhase, Phases
    <3> QED
      BY <3>1, <3>4, <3>5, <3>6
  <2> QED
    BY <2>1, <2>2
<1>4. CASE pc = "keys"
  <2>0. joined /\ toClient = <<>>
    BY <1>4 DEF LobbyPhase
  <2>1. CASE P!Choose
    <3>1. PICK s \in {<<"SET">>, <<"SET", "SET">>} : toServer' = <<>> \o s
      BY <2>1 DEF P!Choose, P!CanCommand, P!ToServer
    <3>2. P!Orders(toServer')
      BY <3>1, ShortOrders
    <3> QED
      BY <2>0, <2>1, <3>2, <1>0 DEF LobbyPhase, Phases, P!Choose, P!serverVars
  <2>2. CASE P!Play
    <3>1. toServer = <<>> /\ toServer' = toServer \o <<"START">>
      BY <2>2 DEF P!Play, P!CanCommand, P!ToServer
    <3>2. P!Orders(toServer')
      BY <3>1, ShortConcats, ShortOrders
    <3> QED
      BY <2>0, <2>2, <3>2, <1>0 DEF LobbyPhase, Phases, P!Play, P!EnterGame, P!GameOrMenu, P!serverVars
  <2>3. CASE P!NoCommand
    BY <2>0, <2>3, <1>0 DEF LobbyPhase, Phases, P!NoCommand, P!EnterGame, P!GameOrMenu, P!serverVars,
       P!network
  <2>4. CASE P!Disconnect
    <3>1. P!CloseServer(<<>>) /\ pc' = "poll" /\ screen' = "menu" /\ ~started'
      BY <2>0, <2>4, <1>0 DEF P!Disconnect
    <3>2. /\ ~joined' /\ ~player' /\ ToSet(toClient') = {"QUIT"}
      BY <2>0, <3>1, Closing, NothingInEmpty, EmptySeq
    <3> QED
      BY <3>1, <3>2 DEF ClosedPhase, Phases
  <2>5. CASE P!Quit
    BY <2>5 DEF P!Quit, Phases
  <2> QED
    BY <1>0, <1>4, <2>1, <2>2, <2>3, <2>4, <2>5, ByPlace DEF P!Connect
<1> QED
  BY <1>1, <1>2, <1>3, <1>4 DEF LobbyPhase

LEMMA StartPhaseNext ==
  ASSUME QueueTypes, StartPhase, P!Next, ~hasty'
  PROVE  Phases'
<1>0. screen = "menu" /\ player /\ alive /\ ~joined /\ open /\ toServer = <<>>
  BY DEF StartPhase
<1>1. CASE pc = "send"
  <2>1. P!SendFrame
    BY <1>1, ByPlace
  <2>2. /\ ~started /\ toClient = <<"SETUP", "START">> /\ pc' = "remove"
        /\ toClient' = toClient \o <<"STATE">>
        /\ UNCHANGED <<screen, started, open, joined, player, alive, toServer>>
    BY <1>0, <1>1, <2>1 DEF StartPhase, P!SendFrame, P!ToClient, P!clientVars, P!serverVars
  <2>3. toClient' = <<"SETUP", "START", "STATE">>
    BY <2>2, ShortConcats
  <2> QED
    BY <2>2, <2>3, <1>0 DEF StartPhase, Phases
<1>2. CASE pc = "remove"
  <2>1. P!RemoveDisconnected
    BY <1>2, ByPlace
  <2>2. /\ ~started /\ toClient = <<"SETUP", "START", "STATE">> /\ pc' = "input" /\ player' = alive
        /\ UNCHANGED <<screen, started, open, joined, alive, toServer, toClient>>
    BY <1>0, <1>2, <2>1 DEF StartPhase, P!RemoveDisconnected, P!Return, P!clientVars, P!network
  <2> QED
    BY <2>2, <1>0 DEF StartPhase, Phases
<1>3. CASE pc = "input" /\ toClient = <<"SETUP", "START", "STATE">>
  <2>0. Head(toClient) = "SETUP" /\ Tail(toClient) = <<"START", "STATE">> /\ toClient # <<>>
    BY <1>3, ShortTails
  <2>1. ~started
    BY <1>3 DEF StartPhase
  <2>2. CASE P!InputMessage
    <3>1. /\ toClient' = <<"START", "STATE">> /\ toServer' = toServer \o <<>>
          /\ UNCHANGED <<pc, screen, started, open, joined, player, alive>>
      BY <2>0, <2>2 DEF P!InputMessage, P!ToServer, P!serverVars
    <3>2. toServer' = <<>>
      BY <3>1, <1>0
    <3> QED
      BY <3>1, <3>2, <2>1, <1>0, <1>3 DEF StartPhase, Phases
  <2>3. CASE P!InputBadMap
    <3>1. /\ P!CloseServer(<<"START", "STATE">>) /\ toServer' = toServer \o <<"QUIT">>
          /\ open' = FALSE /\ pc' = "keys" /\ UNCHANGED <<screen, started>>
      BY <2>0, <2>3 DEF P!InputBadMap, P!ToServer
    <3>2. <<"START", "STATE">> \in Seq(P!Messages)
      BY DEF P!Messages
    <3>3. ~joined' /\ ~player' /\ toClient' = Append(<<"START", "STATE">>, "QUIT")
      BY <3>1, <3>2, <1>0, Closing
    <3>4. toClient' = UnreadStart /\ toServer' = <<"QUIT">>
      BY <3>1, <3>3, <1>0, ShortConcats DEF UnreadStart
    <3> QED
      BY <3>1, <3>3, <3>4, <2>1, <1>0 DEF BadMapPhase, Phases
  <2> QED
    BY <1>3, <2>0, <2>2, <2>3, ByPlace DEF P!InputQuit, P!InputStart, P!InputDone
<1>4. CASE pc = "input" /\ toClient = <<"START", "STATE">>
  <2>0. Head(toClient) = "START" /\ Tail(toClient) = <<"STATE">> /\ toClient # <<>>
    BY <1>4, ShortTails
  <2>1. P!InputStart
    BY <1>4, <2>0, ByPlace DEF P!InputMessage, P!InputBadMap, P!InputQuit, P!InputDone
  <2>2. /\ toClient' = <<"STATE">> /\ started' = TRUE /\ pc' = "keys"
        /\ UNCHANGED <<screen, open, joined, player, alive, toServer>>
    BY <2>0, <2>1 DEF P!InputStart, P!serverVars
  <2> QED
    BY <2>2, <1>0 DEF StartPhase, Phases
<1>5. CASE pc = "keys"
  <2>0. started /\ toClient = <<"STATE">>
    BY <1>5 DEF StartPhase
  <2>1. CASE P!Play
    <3>1. /\ toServer' = toServer \o <<"START">> /\ P!EnterGame
          /\ UNCHANGED <<joined, player, alive, toClient>>
      BY <2>1 DEF P!Play, P!ToServer, P!serverVars
    <3>2. toServer' = <<"START">>
      BY <3>1, <1>0, ShortConcats
    <3>3. screen' = "game" /\ fading' /\ pc' = "play"
      BY <3>1, <2>0 DEF P!EnterGame, P!GameOrMenu
    <3> QED
      BY <3>1, <3>2, <3>3, <2>0, <1>0 DEF GamePhase, Phases
  <2>2. CASE P!NoCommand
    <3>1. screen' = "game" /\ pc' = "play" /\ UNCHANGED <<joined, player, alive, toServer, toClient>>
      BY <2>0, <2>2 DEF P!NoCommand, P!EnterGame, P!GameOrMenu, P!serverVars, P!network
    <3> QED
      BY <3>1, <2>0, <1>0 DEF GamePhase, Phases
  <2>3. CASE P!Quit
    BY <2>3 DEF P!Quit, Phases
  <2> QED
    BY <1>0, <1>5, <2>0, <2>1, <2>2, <2>3, ByPlace DEF P!Choose, P!Disconnect, P!Connect
<1> QED
  BY <1>1, <1>2, <1>3, <1>4, <1>5 DEF StartPhase

LEMMA GamePhaseNext ==
  ASSUME QueueTypes, GamePhase, P!Next, ~hasty'
  PROVE  Phases'
<1>0. screen = "game" /\ player /\ alive /\ ~joined
  BY DEF GamePhase
<1>1. CASE pc = "play"
  <2>0. toClient = <<"STATE">> /\ (toServer = <<>> \/ toServer = <<"START">>)
    BY <1>1 DEF GamePhase
  <2>1. CASE P!ClientSend
    <3>1. /\ toServer' = toServer \o <<"KEYEND">> /\ pc' = "verify"
          /\ UNCHANGED <<screen, joined, player, alive, toClient>>
      BY <2>1 DEF P!ClientSend, P!ToServer, P!clientVars, P!serverVars
    <3>2. toServer' \in {<<"KEYEND">>, <<"START", "KEYEND">>}
      BY <3>1, <2>0, ShortConcats
    <3> QED
      BY <3>1, <3>2, <2>0, <1>0 DEF GamePhase, Phases
  <2>2. CASE P!Escape
    <3>1. P!CloseServer(<<"STATE">>) /\ pc' = "connect"
      BY <2>0, <2>2 DEF P!Escape
    <3>2. <<"STATE">> \in Seq(P!Messages) /\ ToSet(<<"STATE">>) = {"STATE"}
      BY DEF P!Messages, ToSet
    <3>3. ~joined' /\ ~player' /\ ToSet(toClient') = {"STATE"} \cup {"QUIT"}
      BY <3>1, <3>2, <1>0, Closing
    <3> QED
      BY <3>1, <3>3 DEF ClosedPhase, Phases
  <2> QED
    BY <1>1, <2>1, <2>2, ByPlace
<1>2. CASE pc = "verify"
  <2>1. P!NoLobbyMessage
    BY <1>0, <1>2, ByPlace DEF P!AcceptClient, P!LobbyMessage, P!running
  <2>2. pc' = "send" /\ UNCHANGED <<screen, joined, player, alive, toServer, toClient>>
    BY <1>0, <2>1 DEF P!NoLobbyMessage, P!running, P!clientVars, P!serverVars, P!network
  <2> QED
    BY <1>0, <1>2, <2>2 DEF GamePhase, Phases
<1>3. CASE pc = "send"
  <2>0. toClient = <<"STATE">> /\ toServer \in {<<"KEYEND">>, <<"START", "KEYEND">>} /\ toServer # <<>>
    BY <1>3, ShortTails DEF GamePhase
  <2>1. P!SendFrame
    BY <1>3, ByPlace
  <2>2. /\ toClient' = toClient \o <<"STATE">> /\ pc' = "receive"
        /\ UNCHANGED <<screen, joined, player, alive, toServer>>
    BY <2>0, <2>1 DEF P!SendFrame, P!ToClient, P!clientVars, P!serverVars
  <2>3. toClient' = <<"STATE", "STATE">>
    BY <2>0, <2>2, ShortConcats
  <2> QED
    BY <2>0, <2>2, <2>3, <1>0 DEF GamePhase, Phases
<1>4. CASE pc = "receive"
  <2>0. toClient = <<"STATE", "STATE">> /\ toServer \in {<<"KEYEND">>, <<"START", "KEYEND">>} /\ toServer # <<>>
    BY <1>4, ShortTails DEF GamePhase
  <2>1. P!ReceiveMessage
    BY <1>4, <2>0, ByPlace DEF P!ReceiveNothing
  <2>2. /\ toServer' = Tail(toServer) /\ UNCHANGED <<screen, joined, player, toClient>>
        /\ \/ Head(toServer) = "KEYEND" /\ pc' = "remove" /\ UNCHANGED alive
           \/ Head(toServer) = "QUIT"
           \/ Head(toServer) # "KEYEND" /\ UNCHANGED <<pc, alive>>
    BY <2>1 DEF P!ReceiveMessage, P!clientVars
  <2>3. CASE toServer = <<"KEYEND">>
    <3>1. Head(toServer) = "KEYEND" /\ Tail(toServer) = <<>>
      BY <2>3, ShortTails
    <3> QED
      BY <2>0, <2>2, <3>1, <1>0 DEF GamePhase, Phases
  <2>4. CASE toServer = <<"START", "KEYEND">>
    <3>1. Head(toServer) = "START" /\ Tail(toServer) = <<"KEYEND">>
      BY <2>4, ShortTails
    <3> QED
      BY <2>0, <2>2, <3>1, <1>0, <1>4 DEF GamePhase, Phases
  <2> QED
    BY <2>0, <2>3, <2>4
<1>5. CASE pc = "remove"
  <2>1. P!RemoveDisconnected
    BY <1>5, ByPlace
  <2>2. pc' = "draw" /\ player' = alive /\ UNCHANGED <<screen, joined, alive, toServer, toClient>>
    BY <1>0, <2>1 DEF P!RemoveDisconnected, P!Return, P!clientVars, P!network
  <2> QED
    BY <1>0, <1>5, <2>2 DEF GamePhase, Phases
<1>6. CASE pc = "draw"
  <2>0. /\ toClient = <<"STATE", "STATE">> /\ toServer = <<>>
        /\ Head(toClient) = "STATE" /\ Tail(toClient) = <<"STATE">> /\ toClient # <<>>
    <3>1. toClient = <<"STATE", "STATE">> /\ toServer = <<>>
      BY <1>6 DEF GamePhase
    <3> QED
      BY <3>1, ShortTails
  <2>1. P!DrawFrame
    BY <1>6, <2>0, ByPlace DEF P!IgnoreMessage, P!ReceiveFails
  <2>2. /\ toClient' = <<"STATE">> /\ pc' = "play"
        /\ UNCHANGED <<screen, joined, player, alive, toServer>>
    BY <2>0, <2>1 DEF P!DrawFrame, P!serverVars
  <2> QED
    BY <2>0, <2>2, <1>0 DEF GamePhase, Phases
<1> QED
  BY <1>1, <1>2, <1>3, <1>4, <1>5, <1>6 DEF GamePhase

LEMMA NotYetNext ==
  ASSUME QueueTypes, NotYet, P!Next
  PROVE  Phases'
<1>1. P!Startup
  BY ByPlace DEF NotYet
<1>2. /\ screen' = "menu" /\ started' = FALSE /\ pc' = "poll" /\ open' = TRUE
      /\ joined' = FALSE /\ player' = FALSE /\ toServer' = <<>> /\ toClient' = <<>>
  BY <1>1 DEF NotYet, P!Startup, P!ClientOpen, P!network
<1> QED
  BY <1>2, ShortOrders DEF LobbyPhase, Phases

LEMMA ClosedPhaseNext ==
  ASSUME QueueTypes, ClosedPhase, P!Next, ~hasty'
  PROVE  Phases'
<1>0. /\ ~player /\ "QUIT" \in ToSet(toClient) /\ "START" \notin ToSet(toClient)
      /\ toClient \in Seq(P!Messages) /\ toClient # <<>>
  BY NothingInEmpty DEF ClosedPhase, QueueTypes
<1>1. /\ ToSet(toClient) = {Head(toClient)} \cup ToSet(Tail(toClient))
      /\ Tail(toClient) \in Seq(P!Messages)
  BY <1>0, TailMembers, HeadTailProperties
<1>2. CASE pc = "connect"
  <2>1. P!Startup
    BY <1>2, ByPlace
  <2>2. /\ screen' = "menu" /\ started' = FALSE /\ pc' = "poll"
        /\ joined' = FALSE /\ player' = FALSE /\ toClient' = toClient
    BY <2>1 DEF P!Startup, P!ClientOpen, P!network
  <2> QED
    BY <1>0, <2>2 DEF ClosedPhase, Phases
<1>3. CASE pc = "poll"
  <2>1. P!Poll
    BY <1>3, ByPlace
  <2>2. /\ pc' = IF open THEN "verify" ELSE "keys"
        /\ UNCHANGED <<screen, started, open, joined, player, toClient>>
    BY <2>1 DEF P!Poll, P!serverVars, P!network
  <2>3. screen = "menu" /\ ~started /\ ~joined
    BY <1>3 DEF ClosedPhase
  <2> QED
    BY <1>0, <2>2, <2>3 DEF ClosedPhase, Phases
<1>4. CASE pc = "verify"
  <2>1. screen = "menu" /\ ~started /\ ~joined
    BY <1>4 DEF ClosedPhase
  <2>2. P!AcceptClient
    BY <1>0, <1>4, <2>1, ByPlace DEF P!LobbyMessage, P!NoLobbyMessage, P!running
  <2>3. /\ joined' = TRUE /\ pc' = "input" /\ toClient' = toClient \o <<"SERVERINFO", "TYPE">>
        /\ UNCHANGED <<screen, started, player>>
    BY <2>1, <2>2 DEF P!AcceptClient, P!Return, P!ToClient, P!clientVars
  <2>4. ToSet(toClient') = ToSet(toClient) \cup {"SERVERINFO", "TYPE"}
    <3>1. <<"SERVERINFO", "TYPE">> \in Seq(P!Messages) /\ ToSet(<<"SERVERINFO", "TYPE">>) = {"SERVERINFO", "TYPE"}
      BY DEF P!Messages, ToSet
    <3> DEFINE greeting == <<"SERVERINFO", "TYPE">>
    <3>2. greeting \in Seq(P!Messages) /\ ToSet(greeting) = {"SERVERINFO", "TYPE"}
      BY <3>1
    <3>3. toClient' = toClient \o greeting
      BY <2>3
    <3> HIDE DEF greeting
    <3>4. ToSet(toClient \o greeting) = ToSet(toClient) \cup ToSet(greeting)
      BY <1>0, <3>2, ConcatMembers
    <3> QED
      BY <3>2, <3>3, <3>4
  <2> QED
    BY <1>0, <2>1, <2>3, <2>4 DEF ClosedPhase, Phases
<1>5. CASE pc = "input"
  <2>0. screen = "menu" /\ ~started /\ joined
    BY <1>5 DEF ClosedPhase
  <2>1. CASE P!InputMessage
    <3>1. /\ Head(toClient) # "QUIT" /\ toClient' = Tail(toClient)
          /\ UNCHANGED <<pc, screen, started, joined, player>>
      BY <2>1 DEF P!InputMessage, P!serverVars
    <3> QED
      BY <1>0, <1>1, <1>5, <2>0, <3>1 DEF ClosedPhase, Phases
  <2>2. CASE P!InputBadMap \/ P!InputQuit
    <3>1. /\ P!CloseServer(Tail(toClient)) /\ open' = FALSE /\ pc' = "keys"
          /\ UNCHANGED <<screen, started>>
      BY <2>2 DEF P!InputBadMap, P!InputQuit
    <3>2. ~joined' /\ ~player' /\ ToSet(toClient') = ToSet(Tail(toClient)) \cup {"QUIT"}
      BY <1>1, <2>0, <3>1, Closing
    <3> QED
      BY <1>0, <1>1, <2>0, <3>1, <3>2 DEF ClosedPhase, Phases
  <2>3. ~P!InputStart /\ ~P!InputDone
    BY <1>0, <1>1 DEF P!InputStart, P!InputDone
  <2> QED
    BY <1>5, <2>1, <2>2, <2>3, ByPlace
<1>6. CASE pc = "keys"
  <2>0. screen = "menu" /\ ~started /\ ~joined /\ ~open
    BY <1>6 DEF ClosedPhase
  <2>1. CASE P!NoCommand
    <3>1. /\ screen' = "menu" /\ pc' = "poll"
          /\ UNCHANGED <<started, joined, player, toClient>>
      BY <2>0, <2>1 DEF P!NoCommand, P!EnterGame, P!GameOrMenu, P!serverVars, P!network
    <3> QED
      BY <1>0, <2>0, <3>1 DEF ClosedPhase, Phases
  <2>2. CASE P!Connect
    <3>1. pc' = "poll" /\ joined' = FALSE /\ player' = FALSE /\ UNCHANGED <<screen, started, toClient>>
      BY <2>2 DEF P!Connect, P!ClientOpen, P!network
    <3> QED
      BY <1>0, <2>0, <3>1 DEF ClosedPhase, Phases
  <2>3. CASE P!Quit
    BY <2>3 DEF P!Quit, Phases
  <2> QED
    BY <1>6, <2>0, <2>1, <2>2, <2>3, ByPlace DEF P!Choose, P!Play, P!CanCommand, P!Disconnect
<1> QED
  BY <1>2, <1>3, <1>4, <1>5, <1>6 DEF ClosedPhase

LEMMA BadMapPhaseNext ==
  ASSUME QueueTypes, BadMapPhase, P!Next, ~hasty'
  PROVE  Phases'
<1> DEFINE Accepted == <<"START", "STATE", "QUIT", "SERVERINFO", "TYPE">>
           Rest == <<"STATE", "QUIT", "SERVERINFO", "TYPE">>
<1>0. /\ ~player /\ screen = "menu" /\ toServer = <<"QUIT">> /\ toServer # <<>>
      /\ UnreadStart \o <<"SERVERINFO", "TYPE">> = Accepted
      /\ Tail(UnreadStart) \o <<"SERVERINFO", "TYPE">> = Rest
  <2>1. Tail(UnreadStart) = <<"STATE", "QUIT">>
    BY ShortTails DEF UnreadStart
  <2>2. UnreadStart \o <<"SERVERINFO", "TYPE">> = Accepted
    BY ShortConcats DEF UnreadStart
  <2>3. <<"STATE", "QUIT">> \o <<"SERVERINFO", "TYPE">> = Rest
    BY ShortConcats
  <2>4. ~player /\ screen = "menu" /\ toServer = <<"QUIT">> /\ toServer # <<>>
    BY ShortTails DEF BadMapPhase
  <2> QED
    BY <2>1, <2>2, <2>3, <2>4
<1>1. CASE pc = "poll"
  <2>1. P!Poll /\ ~joined /\ ~started /\ toClient = UnreadStart
    BY <1>1, ByPlace DEF BadMapPhase
  <2>2. /\ pc' = IF open THEN "verify" ELSE "keys"
        /\ UNCHANGED <<screen, started, open, joined, player, toServer, toClient>>
    BY <2>1 DEF P!Poll, P!serverVars, P!network
  <2> QED
    BY <1>0, <2>1, <2>2 DEF BadMapPhase, Phases
<1>2. CASE pc = "verify"
  <2>1. open /\ ~joined /\ ~started /\ toClient = UnreadStart
    BY <1>2 DEF BadMapPhase
  <2>2. P!AcceptClient
    BY <1>0, <1>2, <2>1, ByPlace DEF P!LobbyMessage, P!NoLobbyMessage, P!running
  <2>3. /\ joined' = TRUE /\ pc' = "input" /\ toClient' = toClient \o <<"SERVERINFO", "TYPE">>
        /\ UNCHANGED <<screen, started, open, player, toServer>>
    BY <1>0, <2>1, <2>2 DEF P!AcceptClient, P!Return, P!ToClient, P!clientVars
  <2> QED
    BY <1>0, <2>1, <2>3 DEF BadMapPhase, Phases
<1>3. CASE pc = "input"
  <2>0. open /\ joined /\ ~started /\ toClient = Accepted
    BY <1>0, <1>3 DEF BadMapPhase
  <2>1. Head(toClient) = "START" /\ Tail(toClient) = Rest /\ toClient # <<>>
    BY <2>0, ShortTails
  <2>2. P!InputStart
    BY <1>3, <2>1, ByPlace DEF P!InputMessage, P!InputBadMap, P!InputQuit, P!InputDone
  <2>3. /\ toClient' = Rest /\ started' = TRUE /\ pc' = "keys"
        /\ UNCHANGED <<screen, open, joined, player, toServer>>
    BY <2>1, <2>2 DEF P!InputStart, P!serverVars
  <2> QED
    BY <1>0, <2>0, <2>3 DEF BadMapPhase, Phases
<1>4. CASE pc = "keys" /\ started
  <2>0. open /\ joined /\ started /\ toClient = Rest
    BY <1>0, <1>4 DEF BadMapPhase
  <2>1. CASE P!NoCommand
    <3>1. screen' = "game" /\ pc' = "play" /\ UNCHANGED <<joined, player, toServer, toClient>>
      BY <2>0, <2>1 DEF P!NoCommand, P!EnterGame, P!GameOrMenu, P!serverVars, P!network
    <3>2. Head(<<"QUIT">>) = "QUIT" /\ Tail(<<"QUIT">>) = <<>> /\ OnlyKeys(<<>>)
      BY ShortTails DEF OnlyKeys
    <3> QED
      BY <1>0, <2>0, <3>1, <3>2 DEF LonelyPhase, Phases
  <2>2. CASE P!Quit
    BY <2>2 DEF P!Quit, Phases
  <2>3. ~P!Choose /\ ~P!Disconnect /\ ~P!Connect
    BY <2>0 DEF P!Choose, P!Disconnect, P!Connect
  <2>4. ~P!Play
    BY <1>0 DEF P!Play, P!CanCommand
  <2> QED
    BY <1>4, <2>1, <2>2, <2>3, <2>4, ByPlace
<1>5. CASE pc = "keys" /\ ~started
  <2>0. ~joined /\ ~open /\ toClient = UnreadStart
    BY <1>5 DEF BadMapPhase
  <2>1. CASE P!NoCommand
    <3>1. screen' = "menu" /\ pc' = "poll" /\ UNCHANGED <<started, joined, player, toServer, toClient>>
      BY <1>5, <2>1 DEF P!NoCommand, P!EnterGame, P!GameOrMenu, P!serverVars, P!network
    <3> QED
      BY <1>0, <1>5, <2>0, <3>1 DEF BadMapPhase, Phases
  <2>2. CASE P!Connect
    <3>1. /\ pc' = "poll" /\ joined' = FALSE /\ player' = FALSE
          /\ UNCHANGED <<screen, started, toServer, toClient>>
      BY <2>2 DEF P!Connect, P!ClientOpen, P!network
    <3> QED
      BY <1>0, <1>5, <2>0, <3>1 DEF BadMapPhase, Phases
  <2>3. CASE P!Quit
    BY <2>3 DEF P!Quit, Phases
  <2> QED
    BY <1>5, <2>0, <2>1, <2>2, <2>3, ByPlace DEF P!Choose, P!Play, P!CanCommand, P!Disconnect
<1> QED
  BY <1>1, <1>2, <1>3, <1>4, <1>5 DEF BadMapPhase

LEMMA KeysOnly ==
  ASSUME NEW s \in Seq(ClientMessages), OnlyKeys(s)
  PROVE  /\ OnlyKeys(s \o <<"KEYEND">>)
         /\ s # <<>> => Head(s) = "KEYEND" /\ OnlyKeys(Tail(s))
<1>1. OnlyKeys(s \o <<"KEYEND">>)
  <2>1. <<"KEYEND">> \in Seq(ClientMessages) /\ Len(<<"KEYEND">>) = 1 /\ <<"KEYEND">>[1] = "KEYEND"
    BY DEF ClientMessages
  <2> QED
    BY <2>1, ConcatProperties, LenProperties DEF OnlyKeys
<1>2. ASSUME s # <<>> PROVE Head(s) = "KEYEND" /\ OnlyKeys(Tail(s))
  BY <1>2, HeadTailProperties, LenProperties, EmptySeq DEF OnlyKeys
<1> QED
  BY <1>1, <1>2

LEMMA LonelyPhaseNext ==
  ASSUME QueueTypes, LonelyPhase, P!Next
  PROVE  Phases'
<1> DEFINE Accepted == <<"STATE", "QUIT", "SERVERINFO", "TYPE">>
           Rest == <<"QUIT", "SERVERINFO", "TYPE">>
<1>0. ~player /\ screen = "game" /\ toClient \in Seq(P!Messages) /\ toServer \in Seq(ClientMessages)
  BY DEF LonelyPhase, QueueTypes
<1>1. /\ Accepted \in Seq(P!Messages) /\ ToSet(Accepted) = {"STATE", "QUIT", "SERVERINFO", "TYPE"}
      /\ Rest \in Seq(P!Messages) /\ ToSet(Rest) = {"QUIT", "SERVERINFO", "TYPE"}
      /\ Head(Accepted) = "STATE" /\ Tail(Accepted) = Rest /\ Accepted # <<>>
  <2>1. Head(Accepted) = "STATE" /\ Tail(Accepted) = Rest /\ Accepted # <<>>
    BY ShortTails
  <2>2. Accepted \in Seq(P!Messages) /\ Rest \in Seq(P!Messages)
    BY DEF P!Messages
  <2>3. ToSet(Accepted) = {"STATE", "QUIT", "SERVERINFO", "TYPE"} /\ ToSet(Rest) = {"QUIT", "SERVERINFO", "TYPE"}
    BY DEF ToSet
  <2> QED
    BY <2>1, <2>2, <2>3
\* The user leaves.
<1>2. ASSUME P!Escape, "START" \notin ToSet(toClient), joined \/ "QUIT" \in ToSet(toClient)
      PROVE  Phases'
  <2>1. P!CloseServer(toClient) /\ pc' = "connect"
    BY <1>2 DEF P!Escape
  <2>2. /\ ~joined' /\ ~player'
        /\ joined => ToSet(toClient') = ToSet(toClient) \cup {"QUIT"}
        /\ ~joined => toClient' = toClient
    BY <1>0, <2>1, Closing
  <2> QED
    BY <1>2, <2>1, <2>2 DEF ClosedPhase, Phases
<1>3. ASSUME P!ClientSend
      PROVE  /\ pc' = "verify" /\ UNCHANGED <<screen, joined, player, toClient>>
             /\ toServer' = toServer \o <<"KEYEND">>
  BY <1>3 DEF P!ClientSend, P!ToServer, P!clientVars, P!serverVars
\* QUIT has still to be read.
<1>4. CASE joined /\ toClient = Accepted /\ pc = "play" /\ toServer = <<"QUIT">>
  <2>1. CASE P!ClientSend
    <3>1. toServer' = <<"QUIT", "KEYEND">>
      BY <1>3, <1>4, <2>1, ShortConcats
    <3> QED
      BY <1>0, <1>3, <1>4, <2>1, <3>1 DEF LonelyPhase, Phases
  <2>2. CASE P!Escape
    BY <1>1, <1>2, <1>4, <2>2
  <2> QED
    BY <1>4, <2>1, <2>2, ByPlace
<1>5. CASE joined /\ toClient = Accepted /\ pc = "verify" /\ toServer = <<"QUIT", "KEYEND">>
  <2>0. Head(toServer) = "QUIT" /\ Tail(toServer) = <<"KEYEND">> /\ toServer # <<>>
    BY <1>5, ShortTails
  <2>1. P!LobbyMessage
    BY <1>0, <1>5, <2>0, ByPlace DEF P!AcceptClient, P!NoLobbyMessage, P!running
  <2>2. /\ toServer' = <<"KEYEND">> /\ toClient' = toClient \o <<>> /\ pc' = "draw"
        /\ joined' = (Head(toServer) # "QUIT") /\ UNCHANGED <<screen, player>>
    BY <1>0, <2>0, <2>1 DEF P!LobbyMessage, P!ToClient, P!Return, P!clientVars
  <2>3. ~joined' /\ toClient' = Accepted
    BY <1>0, <1>5, <2>0, <2>2, ConcatEmptySeq
  <2> QED
    BY <1>0, <2>2, <2>3 DEF LonelyPhase, Phases
<1>6. CASE pc = "draw" /\ ~joined /\ toServer = <<"KEYEND">> /\ toClient = Accepted
  <2>1. P!DrawFrame
    BY <1>1, <1>6, ByPlace DEF P!IgnoreMessage, P!ReceiveFails
  <2>2. toClient' = Rest /\ pc' = "play" /\ UNCHANGED <<screen, joined, player, toServer>>
    BY <1>1, <1>6, <2>1 DEF P!DrawFrame, P!serverVars
  <2> QED
    BY <1>0, <1>6, <2>2 DEF LonelyPhase, Phases
\* The next connection is about to be accepted.
<1>7. CASE ~joined /\ toClient = Rest /\ pc = "play" /\ toServer = <<"KEYEND">>
  <2>1. CASE P!ClientSend
    <3>1. toServer' = <<"KEYEND", "KEYEND">>
      BY <1>3, <1>7, <2>1, ShortConcats
    <3> QED
      BY <1>0, <1>3, <1>7, <2>1, <3>1 DEF LonelyPhase, Phases
  <2>2. CASE P!Escape
    BY <1>1, <1>2, <1>7, <2>2
  <2> QED
    BY <1>7, <2>1, <2>2, ByPlace
<1>8. CASE ~joined /\ toClient = Rest /\ pc = "verify" /\ toServer = <<"KEYEND", "KEYEND">>
  <2>1. P!AcceptClient
    BY <1>0, <1>8, ByPlace DEF P!LobbyMessage, P!NoLobbyMessage, P!running
  <2>2. /\ joined' = TRUE /\ pc' = "draw" /\ toClient' = toClient \o <<"SERVERINFO", "TYPE">>
        /\ UNCHANGED <<screen, player, toServer>>
    BY <1>0, <2>1 DEF P!AcceptClient, P!Return, P!ToClient, P!clientVars
  <2>3. toClient' = <<"QUIT", "SERVERINFO", "TYPE", "SERVERINFO", "TYPE">>
    BY <1>8, <2>2, ShortConcats
  <2>4. ToSet(toClient') = {"QUIT", "SERVERINFO", "TYPE"}
    BY <2>3 DEF ToSet
  <2>5. OnlyKeys(toServer')
    BY <1>8, <2>2 DEF OnlyKeys
  <2> QED
    BY <1>0, <2>2, <2>4, <2>5 DEF LonelyPhase, Phases
\* It has been.
<1>9. CASE /\ pc \in {"play", "verify", "draw"} /\ joined /\ OnlyKeys(toServer)
           /\ "START" \notin ToSet(toClient) /\ "STATE" \notin ToSet(toClient)
  <2>1. CASE P!ClientSend
    <3>1. OnlyKeys(toServer')
      BY <1>0, <1>3, <1>9, <2>1, KeysOnly
    <3> QED
      BY <1>0, <1>3, <1>9, <2>1, <3>1 DEF LonelyPhase, Phases
  <2>2. CASE P!Escape
    BY <1>2, <1>9, <2>2
  <2>3. CASE P!LobbyMessage
    <3>1. toServer # <<>> /\ Head(toServer) = "KEYEND" /\ OnlyKeys(Tail(toServer))
      BY <1>0, <1>9, <2>3, KeysOnly DEF P!LobbyMessage
    <3>2. /\ toServer' = Tail(toServer) /\ toClient' = toClient \o <<>> /\ pc' = "draw"
          /\ joined' = (Head(toServer) # "QUIT") /\ UNCHANGED <<screen, player>>
      BY <1>0, <2>3, <3>1 DEF P!LobbyMessage, P!ToClient, P!Return, P!clientVars
    <3>3. joined' /\ toClient' = toClient
      BY <1>0, <3>1, <3>2, ConcatEmptySeq
    <3> QED
      BY <1>0, <1>9, <3>1, <3>2, <3>3 DEF LonelyPhase, Phases
  <2>4. CASE P!NoLobbyMessage
    <3>1. pc' = "draw" /\ UNCHANGED <<screen, joined, player, toServer, toClient>>
      BY <1>0, <2>4 DEF P!NoLobbyMessage, P!running, P!Return, P!clientVars, P!serverVars, P!network
    <3> QED
      BY <1>0, <1>9, <3>1 DEF LonelyPhase, Phases
  <2>5. CASE P!IgnoreMessage
    <3>1. /\ toClient # <<>> /\ toClient' = Tail(toClient)
          /\ UNCHANGED <<pc, screen, joined, player, toServer>>
      BY <2>5 DEF P!IgnoreMessage, P!clientVars, P!serverVars
    <3>2. ToSet(toClient') \subseteq ToSet(toClient)
      BY <1>0, <3>1, TailMembers
    <3> QED
      BY <1>0, <1>9, <3>1, <3>2 DEF LonelyPhase, Phases
  <2>6. CASE P!ReceiveFails
    <3> DEFINE rest == IF toClient = <<>> THEN <<>> ELSE Tail(toClient)
    <3>1. rest \in Seq(P!Messages) /\ ToSet(rest) \subseteq ToSet(toClient)
      BY <1>0, TailMembers, HeadTailProperties
    <3>2. /\ screen' = screen
          /\ \/ pc' = "play" /\ toClient' = rest /\ UNCHANGED <<joined, player, toServer>>
             \/ pc' = "connect" /\ P!CloseServer(rest)
      BY <2>6 DEF P!ReceiveFails, P!serverVars
    <3> HIDE DEF rest
    <3>3. CASE pc' = "play" /\ toClient' = rest /\ UNCHANGED <<joined, player, toServer>>
      BY <1>0, <1>9, <3>1, <3>2, <3>3 DEF LonelyPhase, Phases
    <3>4. CASE pc' = "connect" /\ P!CloseServer(rest)
      <4>1. ~joined' /\ ~player' /\ ToSet(toClient') = ToSet(rest) \cup {"QUIT"}
        BY <1>9, <3>1, <3>4, Closing
      <4> QED
        BY <1>9, <3>1, <3>4, <4>1 DEF ClosedPhase, Phases
    <3> QED
      BY <3>2, <3>3, <3>4
  <2>7. ~P!DrawFrame
    BY <1>0, <1>9, TailMembers DEF P!DrawFrame
  <2>8. ~P!AcceptClient
    BY <1>9 DEF P!AcceptClient
  <2> QED
    BY <1>9, <2>1, <2>2, <2>3, <2>4, <2>5, <2>6, <2>7, <2>8, ByPlace
<1> QED
  BY <1>4, <1>5, <1>6, <1>7, <1>8, <1>9 DEF LonelyPhase

\* A step of the four programs is one of this program, or leaves it alone.
LEMMA WireStep ==
  [WireNext]_all => [P!Next]_(P!vars)
<1>1. UNCHANGED singleVars => UNCHANGED P!vars
  BY DEF singleVars, P!vars, P!clientVars, P!serverVars, P!network, P!user
<1>2. WireNext => P!Next \/ UNCHANGED singleVars
  BY DEF WireNext, Out, Ring, Single, Sound
<1>3. UNCHANGED all => UNCHANGED singleVars
  BY DEF all
<1> QED
  BY <1>1, <1>2, <1>3

LEMMA SingleInvInit ==
  WireInit => SingleInv
<1> SUFFICES ASSUME WireInit
             PROVE  SingleInv
  OBVIOUS
<1>1. /\ pc = "connect" /\ joined = FALSE /\ player = FALSE
      /\ toServer = <<>> /\ toClient = <<>> /\ options \in Options
  BY DEF WireInit, P!Init
<1> QED
  BY <1>1, EmptySeq DEF SingleInv, QueueTypes, Phases, NotYet

LEMMA SingleInvNext ==
  SingleInv /\ [P!Next]_(P!vars) => SingleInv'
<1> SUFFICES ASSUME SingleInv, [P!Next]_(P!vars)
             PROVE  SingleInv'
  OBVIOUS
<1>1. QueueTypes /\ Phases
  BY DEF SingleInv
<1>2. CASE P!Next
  <2>1. QueueTypes'
    BY <1>1, <1>2, QueueTypesKept
  <2>2. CASE hasty'
    BY <2>1, <2>2 DEF SingleInv, Phases
  <2>3. CASE ~hasty'
    <3>1. ~hasty /\ pc # "exit"
      BY <1>2, <2>3, HastyStays, ByPlace
    <3>2. Phases'
      BY <1>1, <1>2, <2>3, <3>1, NotYetNext, LobbyPhaseNext, StartPhaseNext, GamePhaseNext,
         ClosedPhaseNext, BadMapPhaseNext, LonelyPhaseNext DEF Phases
    <3> QED
      BY <2>1, <3>2 DEF SingleInv
  <2> QED
    BY <2>2, <2>3
<1>3. CASE UNCHANGED P!vars
  <2>1. UNCHANGED <<pc, screen, started, fading, open, joined, player, alive, toServer, toClient, options, hasty>>
    BY <1>3 DEF P!vars, P!clientVars, P!serverVars, P!network, P!user
  <2>2. QueueTypes'
    BY <1>1, <2>1 DEF QueueTypes
  <2>3. Phases'
    BY <1>1, <2>1 DEF Phases, NotYet, LobbyPhase, StartPhase, GamePhase, ClosedPhase, BadMapPhase,
       LonelyPhase
  <2> QED
    BY <2>2, <2>3 DEF SingleInv
<1> QED
  BY <1>2, <1>3

\* The phases of the program for a single player whose user waits for answers:
\* lobby, game and, after the first connection that was closed, a menu in which
\* every new connection is closed by the QUIT of an old one.
THEOREM SinglePhases ==
  WireSpec => []SingleInv
<1>1. SingleInv /\ [WireNext]_all => SingleInv'
  BY WireStep, SingleInvNext
<1> QED
  BY <1>1, SingleInvInit, PTL DEF WireSpec

\* How many frames are in a queue.
LEMMA FewStates ==
  /\ \A s : s \in {<<"STATE">>, <<"STATE", "QUIT", "SERVERINFO", "TYPE">>} => P!StatesIn(s) = 1
  /\ \A s : "STATE" \notin ToSet(s) => P!StatesIn(s) = 0
<1>1. ASSUME NEW s, s \in {<<"STATE">>, <<"STATE", "QUIT", "SERVERINFO", "TYPE">>}
      PROVE  P!StatesIn(s) = 1
  <2>1. {i \in DOMAIN s : s[i] = "STATE"} = {1}
    BY <1>1
  <2>2. Cardinality({1}) = 1
    BY FS_Singleton
  <2>3. P!StatesIn(s) = Cardinality({1})
    BY <2>1, Zenon DEF P!StatesIn, P!Cardinality, Cardinality
  <2> QED
    BY <2>2, <2>3
<1>2. ASSUME NEW s, "STATE" \notin ToSet(s)
      PROVE  P!StatesIn(s) = 0
  <2>1. {i \in DOMAIN s : s[i] = "STATE"} = {}
    BY <1>2 DEF ToSet
  <2>2. Cardinality({}) = 0
    BY FS_EmptySet
  <2>3. P!StatesIn(s) = Cardinality({})
    BY <2>1, Zenon DEF P!StatesIn, P!Cardinality, Cardinality
  <2> QED
    BY <2>2, <2>3
<1> QED
  BY <1>1, <1>2

LEMMA PhasesOneFrame ==
  SingleInv => OneFrameBehind
<1> SUFFICES ASSUME SingleInv, pc = "play", ~hasty
             PROVE  P!StatesIn(toClient) <= 1 /\ (player => P!StatesIn(toClient) = 1)
  BY DEF OneFrameBehind, P!OneFrameBehind
<1>1. GamePhase \/ LonelyPhase
  BY DEF SingleInv, Phases, NotYet, LobbyPhase, StartPhase, ClosedPhase, BadMapPhase
<1>2. CASE GamePhase
  <2>1. toClient = <<"STATE">>
    BY <1>2 DEF GamePhase
  <2> QED
    BY <2>1, FewStates
<1>3. CASE LonelyPhase
  <2>1. \/ toClient = <<"STATE", "QUIT", "SERVERINFO", "TYPE">>
        \/ toClient = <<"QUIT", "SERVERINFO", "TYPE">>
        \/ "STATE" \notin ToSet(toClient)
    BY <1>3 DEF LonelyPhase
  <2>2. "STATE" \notin ToSet(<<"QUIT", "SERVERINFO", "TYPE">>)
    BY DEF ToSet
  <2>3. ~player
    BY <1>3 DEF LonelyPhase
  <2> QED
    BY <2>1, <2>2, <2>3, FewStates
<1> QED
  BY <1>1, <1>2, <1>3

\* The screen of a user who waits for answers is never more than a frame behind
\* the server (client_receive reads one frame, srv_send_frame sends one).
THEOREM ScreenOneFrameBehind ==
  WireSpec => []OneFrameBehind
  BY SinglePhases, PhasesOneFrame, PTL

\* receive_client takes only a client for disconnected that has sent QUIT: the
\* buffer is never empty before KEYEND was read.
THEOREM OnlyLeaversRemoved ==
  WireSpec => RemovedOnesLeft
<1> DEFINE Left == alive /\ ~alive' /\ pc = "receive" /\ ~hasty => toServer # <<>> /\ Head(toServer) = "QUIT"
<1>1. SingleInv /\ P!Next => Left
  <2> SUFFICES ASSUME SingleInv, P!Next, alive, ~alive', pc = "receive", ~hasty
               PROVE  toServer # <<>> /\ Head(toServer) = "QUIT"
    OBVIOUS
  <2>1. GamePhase
    BY DEF SingleInv, Phases, NotYet, LobbyPhase, StartPhase, ClosedPhase, BadMapPhase, LonelyPhase
  <2>2. toServer # <<>>
    BY <2>1, ShortTails DEF GamePhase
  <2>3. P!ReceiveMessage
    BY <2>2, ByPlace DEF P!ReceiveNothing
  <2> QED
    BY <2>2, <2>3 DEF P!ReceiveMessage
<1>2. SingleInv /\ [WireNext]_all => [Left]_(P!vars)
  BY <1>1, WireStep
<1> QED
  BY <1>2, SinglePhases, PTL DEF WireSpec, RemovedOnesLeft, P!RemovedOnesLeft
-----------------------------------------------------------------------------
(***************************************************************************)
(* The sound of a client (Audio), for any musics and samples, any number   *)
(* of channels and any size of a block.                                    *)
(***************************************************************************)
Commands == [kind : A!Kind, n : Music \cup Sample \cup {NoId}, loop : BOOLEAN]

\* What the music server should do, and does when it has read everything.
Obeyed(c) ==
  IF c.n \in Music
  THEN music.n = c.n /\ music.loop = c.loop /\ (music.playing \/ ~ music.loop)
  ELSE ~ music.playing

SoundTypes ==
  /\ client \in {"setup", "forked", "known", "interrupt", "write", "ended"}
  /\ todo \in {<<>>, <<"sample">>, <<"midi">>, <<"sample", "midi">>}
  /\ call \in Commands \cup {A!Idle} /\ asked \in Commands \cup {A!Idle}
  /\ DOMAIN proc = A!Kind /\ DOMAIN fd = A!Kind /\ DOMAIN soundPipe = A!Kind
  /\ soundPipe["midi"] \in Seq(Commands)
  /\ DOMAIN music = {"at", "reset", "playing", "n", "loop", "tracks"}

\* The client calls the servers when it has installed them, a server that lives
\* has a pipe to be told what to do, and nothing was asked for before.
Installed ==
  /\ client \in {"forked", "known"} => todo # <<>>
  /\ client \in {"interrupt", "write"} => todo = <<>> /\ call \in Commands
  /\ client # "ended" /\ todo # <<>> => asked = A!Idle /\ soundPipe["midi"] = <<>>
  /\ client # "ended" /\ A!Lives("midi") =>
       \/ client \in {"forked", "known"} /\ todo = <<"midi">>
       \/ todo \in {<<>>, <<"sample">>} /\ fd["midi"] = A!Open

\* What was asked for last is the last command in the pipe, or is obeyed.
LastCommand ==
  A!Lives("midi") =>
    IF soundPipe["midi"] = <<>>
    THEN asked = A!Idle \/ Obeyed(asked)
    ELSE asked = soundPipe["midi"][Len(soundPipe["midi"])]

MusicInv == SoundTypes /\ Installed /\ LastCommand

LEMMA MusicInvInit == A!Init => MusicInv
<1> SUFFICES ASSUME A!Init PROVE MusicInv
  OBVIOUS
<1>1. /\ client = "setup" /\ todo \in {<<"sample">>, <<"midi">>, <<"sample", "midi">>}
      /\ call = A!Idle /\ asked = A!Idle
      /\ proc = [k \in A!Kind |-> "none"] /\ fd = [k \in A!Kind |-> 0]
      /\ soundPipe = [k \in A!Kind |-> <<>>]
      /\ DOMAIN music = {"at", "reset", "playing", "n", "loop", "tracks"}
  BY DEF A!Init
<1>2. "midi" \in A!Kind
  BY DEF A!Kind
<1>3. proc["midi"] = "none" /\ soundPipe["midi"] = <<>>
  BY <1>1, <1>2
<1>4. SoundTypes
  BY <1>1, <1>3, EmptySeq DEF SoundTypes
<1>5. ~ A!Lives("midi")
  BY <1>3 DEF A!Lives
<1> QED
  BY <1>1, <1>3, <1>4, <1>5 DEF MusicInv, Installed, LastCommand

\* A step that leaves the pipe, the music and what was asked for alone.
LEMMA NoCommand ==
  ASSUME MusicInv, SoundTypes', Installed', asked' = asked,
         soundPipe'["midi"] = soundPipe["midi"], A!Lives("midi")' => A!Lives("midi"),
         music'.n = music.n, music'.loop = music.loop, music'.playing = music.playing
  PROVE  MusicInv'
  BY Zenon DEF MusicInv, LastCommand, Obeyed

\* The client installs the servers ...
LEMMA InstallingKeeps ==
  ASSUME MusicInv, A!NoServer \/ A!Fork \/ A!StorePid \/ A!StoreFd
  PROVE  MusicInv'
<1>1. SoundTypes /\ Installed /\ "midi" \in A!Kind
  BY DEF MusicInv, A!Kind
<1>2. /\ todo \in {<<"sample">>, <<"midi">>, <<"sample", "midi">>}
      /\ client \in {"setup", "forked", "known"}
      /\ call' = call /\ asked' = asked /\ soundPipe' = soundPipe /\ music' = music
  BY <1>1 DEF A!NoServer, A!Fork, A!StorePid, A!StoreFd, A!Installing, A!serverVars, SoundTypes
<1>3. /\ asked = A!Idle /\ soundPipe["midi"] = <<>>
      /\ todo \in {<<"midi">>, <<"sample", "midi">>} /\ client = "setup" => ~ A!Lives("midi")
      /\ todo = <<"sample", "midi">> => ~ A!Lives("midi")
  BY <1>1, <1>2 DEF Installed
<1>4. /\ Head(<<"sample">>) = "sample" /\ Head(<<"midi">>) = "midi" /\ Head(<<"sample", "midi">>) = "sample"
      /\ Tail(<<"sample">>) = <<>> /\ Tail(<<"midi">>) = <<>> /\ Tail(<<"sample", "midi">>) = <<"midi">>
  BY ShortTails
<1>5. SoundTypes' /\ Installed'
  <2>1. CASE A!NoServer
    <3>1. /\ client = "setup" /\ client' = client /\ proc' = proc /\ todo' = Tail(todo)
          /\ fd' = [fd EXCEPT ![Head(todo)] = -1]
      BY <2>1 DEF A!NoServer, A!Installing, A!serverVars
    <3>2. A!Lives("midi")' = A!Lives("midi")
      BY <3>1 DEF A!Lives
    <3>3. A!Lives("midi") => fd["midi"] = A!Open /\ todo = <<"sample">>
      BY <1>1, <1>2, <1>3, <3>1 DEF Installed
    <3>4. SoundTypes'
      BY <1>1, <1>2, <1>4, <3>1 DEF SoundTypes
    <3>5. A!Lives("midi") => fd'["midi"] = A!Open
      BY <1>1, <1>4, <3>1, <3>3 DEF SoundTypes
    <3> QED
      BY <1>1, <1>2, <1>3, <1>4, <3>1, <3>2, <3>3, <3>4, <3>5 DEF Installed
  <2>2. CASE A!Fork
    <3>1. /\ client = "setup" /\ client' = "forked" /\ todo' = todo /\ fd' = fd
          /\ proc' = [proc EXCEPT ![Head(todo)] = "loading"]
      BY <2>2 DEF A!Fork, A!Installing
    <3>2. SoundTypes'
      BY <1>1, <1>2, <3>1 DEF SoundTypes
    <3>3. todo = <<"sample">> \/ todo = <<"sample", "midi">> => (A!Lives("midi")' <=> A!Lives("midi"))
      <4>1. ASSUME todo = <<"sample">> \/ todo = <<"sample", "midi">>
            PROVE  proc'["midi"] = proc["midi"]
        BY <1>1, <1>4, <3>1, <4>1 DEF SoundTypes
      <4> QED
        BY <4>1, Zenon DEF A!Lives
    <3> QED
      BY <1>1, <1>2, <1>3, <3>1, <3>2, <3>3 DEF Installed
  <2>3. CASE A!StorePid
    <3>1. client = "forked" /\ client' = "known" /\ todo' = todo /\ fd' = fd /\ proc' = proc
      BY <2>3 DEF A!StorePid, A!Installing, A!serverVars
    <3>2. A!Lives("midi")' = A!Lives("midi")
      BY <3>1 DEF A!Lives
    <3> QED
      BY <1>1, <1>2, <1>3, <3>1, <3>2 DEF Installed, SoundTypes
  <2>4. CASE A!StoreFd
    <3>1. /\ client = "known" /\ client' = "setup" /\ todo' = Tail(todo) /\ proc' = proc
          /\ fd' = [fd EXCEPT ![Head(todo)] = A!Open]
      BY <2>4 DEF A!StoreFd, A!Installing, A!serverVars
    <3>2. A!Lives("midi")' = A!Lives("midi")
      BY <3>1 DEF A!Lives
    <3>3. SoundTypes'
      BY <1>1, <1>2, <1>4, <3>1 DEF SoundTypes
    <3>4. A!Lives("midi") => fd'["midi"] = A!Open /\ todo # <<"sample", "midi">>
      BY <1>1, <1>2, <1>3, <1>4, <3>1 DEF SoundTypes, Installed
    <3> QED
      BY <1>1, <1>2, <1>3, <1>4, <3>1, <3>2, <3>3, <3>4 DEF Installed
  <2> QED
    BY <2>1, <2>2, <2>3, <2>4
<1>6. LastCommand'
  BY <1>2, <1>3 DEF LastCommand
<1> QED
  BY <1>5, <1>6 DEF MusicInv

\* ... and calls them.
LEMMA CallsKeep ==
  ASSUME MusicInv, NEW k \in A!Kind, NEW m \in Music \cup Sample \cup {NoId}, NEW loop \in BOOLEAN,
         A!Calls(k, m, loop)
  PROVE  MusicInv'
<1>1. SoundTypes /\ Installed
  BY DEF MusicInv
<1>2. /\ client = "setup" /\ todo = <<>> /\ client' \in {"interrupt", "write"} /\ todo' = todo
      /\ call' = [kind |-> k, n |-> m, loop |-> loop]
      /\ fd' = fd /\ asked' = asked /\ soundPipe' = soundPipe /\ proc' = proc /\ music' = music
  BY DEF A!Calls, A!serverVars
<1>3. call' \in Commands
  BY <1>2 DEF Commands
<1>4. A!Lives("midi")' = A!Lives("midi")
  BY <1>2 DEF A!Lives
<1>5. SoundTypes'
  BY <1>1, <1>2, <1>3 DEF SoundTypes
<1>6. Installed'
  BY <1>1, <1>2, <1>3, <1>4 DEF Installed
<1> QED
  BY <1>2, <1>4, <1>5, <1>6, NoCommand

\* A signal changes no music and begins no server.
LEMMA SignalsKeep ==
  ASSUME SoundTypes, NEW ks, NEW signal, A!Signalled(ks, signal)
  PROVE  /\ DOMAIN proc' = A!Kind /\ DOMAIN music' = DOMAIN music
         /\ A!Lives("midi")' => A!Lives("midi")
         /\ music'.n = music.n /\ music'.loop = music.loop /\ music'.playing = music.playing
<1>1. /\ proc' = [k \in A!Kind |-> IF k \in ks /\ A!Ends(k, signal) THEN "zombie" ELSE proc[k]]
      /\ music' = [music EXCEPT !.reset =
                     @ \/ ("midi" \in ks /\ proc["midi"] = "running" /\ signal = "USR1")]
  BY DEF A!Signalled
<1>2. "midi" \in A!Kind
  BY DEF A!Kind
<1>3. proc'["midi"] \in {"zombie", proc["midi"]}
  BY <1>1, <1>2
<1>4. /\ DOMAIN music' = DOMAIN music
      /\ music'.n = music.n /\ music'.loop = music.loop /\ music'.playing = music.playing
  BY <1>1 DEF SoundTypes
<1> QED
  BY <1>1, <1>3, <1>4 DEF A!Lives

LEMMA KillKeeps ==
  ASSUME SoundTypes, NEW k, NEW signal, A!Kill(k, signal)
  PROVE  /\ DOMAIN proc' = A!Kind /\ DOMAIN music' = DOMAIN music
         /\ A!Lives("midi")' => A!Lives("midi")
         /\ music'.n = music.n /\ music'.loop = music.loop /\ music'.playing = music.playing
  BY SignalsKeep, Zenon DEF A!Kill

LEMMA ClientKeeps ==
  ASSUME MusicInv, A!Interrupt \/ A!EndSound \/ A!Crash \/ A!Reap
  PROVE  MusicInv'
<1>1. SoundTypes /\ Installed /\ "midi" \in A!Kind
  BY DEF MusicInv, A!Kind
<1>2. CASE A!Interrupt
  <2>1. /\ client = "interrupt" /\ client' = "write" /\ todo' = todo /\ call' = call /\ asked' = asked
        /\ fd' = fd /\ soundPipe' = soundPipe
        /\ A!Kill("midi", "USR1") \/ (proc' = proc /\ music' = music)
    BY <1>2 DEF A!Interrupt
  <2>2. /\ DOMAIN proc' = A!Kind /\ DOMAIN music' = DOMAIN music
        /\ A!Lives("midi")' => A!Lives("midi")
        /\ music'.n = music.n /\ music'.loop = music.loop /\ music'.playing = music.playing
    BY <1>1, <2>1, KillKeeps DEF A!Lives, SoundTypes
  <2>3. SoundTypes'
    BY <1>1, <2>1, <2>2 DEF SoundTypes
  <2>4. Installed'
    BY <1>1, <2>1, <2>2 DEF Installed
  <2> QED
    BY <2>1, <2>2, <2>3, <2>4, NoCommand
<1>3. CASE A!EndSound
  <2>1. /\ client' = "ended" /\ todo' = todo /\ call' = call /\ asked' = asked
        /\ fd' = fd /\ soundPipe' = soundPipe
        /\ A!Signalled({k \in A!Kind : pid[k] = A!Child}, "TERM")
    BY <1>3 DEF A!EndSound
  <2>2. /\ DOMAIN proc' = A!Kind /\ DOMAIN music' = DOMAIN music
        /\ A!Lives("midi")' => A!Lives("midi")
        /\ music'.n = music.n /\ music'.loop = music.loop /\ music'.playing = music.playing
    BY <1>1, <2>1, SignalsKeep, Zenon
  <2>3. SoundTypes'
    BY <1>1, <2>1, <2>2 DEF SoundTypes
  <2>4. Installed'
    BY <2>1 DEF Installed
  <2> QED
    BY <2>1, <2>2, <2>3, <2>4, NoCommand
<1>4. CASE A!Crash
  <2>1. /\ client' = "ended" /\ todo' = todo /\ call' = call /\ asked' = asked
        /\ fd' = fd /\ soundPipe' = soundPipe /\ proc' = proc /\ music' = music
    BY <1>4 DEF A!Crash, A!serverVars
  <2>2. A!Lives("midi")' = A!Lives("midi")
    BY <2>1 DEF A!Lives
  <2>3. SoundTypes'
    BY <1>1, <2>1 DEF SoundTypes
  <2>4. Installed'
    BY <2>1 DEF Installed
  <2> QED
    BY <2>1, <2>2, <2>3, <2>4, NoCommand
<1>5. CASE A!Reap
  <2>1. /\ client' = client /\ todo' = todo /\ call' = call /\ asked' = asked
        /\ soundPipe' = soundPipe /\ music' = music
        /\ proc' = [k \in A!Kind |-> IF proc[k] = "zombie" THEN "reaped" ELSE proc[k]]
        /\ fd' = [k \in A!Kind |-> IF proc[k] = "zombie" /\ pid[k] = A!Child THEN -1 ELSE fd[k]]
    BY <1>5 DEF A!Reap
  <2>2. /\ A!Lives("midi")' => A!Lives("midi")
        /\ A!Lives("midi") => fd'["midi"] = fd["midi"]
    BY <1>1, <2>1 DEF A!Lives
  <2>3. SoundTypes'
    BY <1>1, <2>1 DEF SoundTypes
  <2>4. Installed'
    BY <1>1, <2>1, <2>2 DEF Installed
  <2> QED
    BY <2>1, <2>2, <2>3, <2>4, NoCommand
<1> QED
  BY <1>2, <1>3, <1>4, <1>5

LEMMA WriteKeeps ==
  ASSUME MusicInv, A!Write
  PROVE  MusicInv'
<1>1. /\ SoundTypes /\ Installed /\ LastCommand /\ "midi" \in A!Kind
      /\ client = "write" /\ todo = <<>> /\ call \in Commands
  BY DEF MusicInv, A!Kind, A!Write, Installed
<1>2. /\ client' = "setup" /\ todo' = todo /\ fd' = fd /\ call' = A!Idle
      /\ asked' = IF call.kind = "midi" THEN call ELSE asked
  BY DEF A!Write
<1>3. CASE fd[call.kind] = A!Open
  <2>1. /\ proc' = proc /\ music' = music
        /\ soundPipe' = IF A!Lives(call.kind)
                        THEN [soundPipe EXCEPT ![call.kind] = Append(@, call)] ELSE soundPipe
    BY <1>3 DEF A!Write
  <2>2. A!Lives("midi")' = A!Lives("midi")
    BY <2>1 DEF A!Lives
  <2>3. CASE call.kind = "midi"
    <3>1. soundPipe'["midi"] = IF A!Lives("midi") THEN Append(soundPipe["midi"], call) ELSE soundPipe["midi"]
      BY <1>1, <2>1, <2>3 DEF SoundTypes
    <3>2. /\ Append(soundPipe["midi"], call) \in Seq(Commands)
          /\ Append(soundPipe["midi"], call) # <<>>
          /\ Append(soundPipe["midi"], call)[Len(Append(soundPipe["midi"], call))] = call
      BY <1>1, AppendProperties, LenProperties DEF SoundTypes
    <3>3. soundPipe'["midi"] \in Seq(Commands) /\ DOMAIN soundPipe' = A!Kind
      BY <1>1, <2>1, <3>1, <3>2 DEF SoundTypes
    <3>4. SoundTypes'
      BY <1>1, <1>2, <2>1, <3>3 DEF SoundTypes
    <3>5. Installed'
      BY <1>1, <1>2, <2>2 DEF Installed
    <3>6. asked' = call
      BY <1>2, <2>3
    <3>7. LastCommand'
      BY <2>2, <3>1, <3>2, <3>6 DEF LastCommand
    <3> QED
      BY <3>4, <3>5, <3>7 DEF MusicInv
  <2>4. CASE call.kind # "midi"
    <3>1. soundPipe'["midi"] = soundPipe["midi"] /\ DOMAIN soundPipe' = A!Kind /\ asked' = asked
      BY <1>1, <1>2, <2>1, <2>4 DEF SoundTypes
    <3>2. SoundTypes'
      BY <1>1, <1>2, <2>1, <3>1 DEF SoundTypes
    <3>3. Installed'
      BY <1>1, <1>2, <2>2 DEF Installed
    <3> QED
      BY <2>1, <2>2, <3>1, <3>2, <3>3, NoCommand
  <2> QED
    BY <2>3, <2>4
<1>4. CASE fd[call.kind] # A!Open
  <2>1. /\ soundPipe' = soundPipe
        /\ A!Kill(call.kind, "TERM") \/ (proc' = proc /\ music' = music)
    BY <1>4 DEF A!Write
  <2>2. /\ DOMAIN proc' = A!Kind /\ DOMAIN music' = DOMAIN music
        /\ A!Lives("midi")' => A!Lives("midi")
        /\ music'.n = music.n /\ music'.loop = music.loop /\ music'.playing = music.playing
    BY <1>1, <2>1, KillKeeps DEF A!Lives, SoundTypes
  <2>3. SoundTypes'
    BY <1>1, <1>2, <2>1, <2>2 DEF SoundTypes
  <2>4. Installed'
    BY <1>1, <1>2, <2>1, <2>2 DEF Installed
  <2>5. CASE call.kind = "midi"
    <3>1. ~ A!Lives("midi")
      BY <1>1, <1>4, <2>5 DEF Installed
    <3> QED
      BY <2>2, <2>3, <2>4, <3>1 DEF MusicInv, LastCommand
  <2>6. CASE call.kind # "midi"
    BY <1>2, <2>1, <2>2, <2>3, <2>4, <2>6, NoCommand
  <2> QED
    BY <2>5, <2>6
<1> QED
  BY <1>3, <1>4

\* The server of the samples does not touch the music.
LEMMA SamplesKeep ==
  ASSUME MusicInv, A!Load("sample") \/ A!SampleRound
  PROVE  MusicInv'
<1>1. SoundTypes /\ Installed /\ "midi" \in A!Kind
  BY DEF MusicInv, A!Kind
<1>2. /\ client' = client /\ todo' = todo /\ call' = call /\ asked' = asked /\ fd' = fd
      /\ music' = music
      /\ \/ proc' = [proc EXCEPT !["sample"] = "running"]
         \/ proc' = [proc EXCEPT !["sample"] = "zombie"]
         \/ proc' = proc
      /\ soundPipe' = soundPipe \/ soundPipe' = [soundPipe EXCEPT !["sample"] = Tail(@)]
  BY DEF A!Load, A!SampleRound, A!Dies, A!clientVars
<1>3. /\ proc'["midi"] = proc["midi"] /\ DOMAIN proc' = A!Kind
      /\ soundPipe'["midi"] = soundPipe["midi"] /\ DOMAIN soundPipe' = A!Kind
  BY <1>1, <1>2 DEF SoundTypes
<1>4. A!Lives("midi")' = A!Lives("midi")
  BY <1>3 DEF A!Lives
<1>5. SoundTypes'
  BY <1>1, <1>2, <1>3 DEF SoundTypes
<1>6. Installed'
  BY <1>1, <1>2, <1>3, <1>4 DEF Installed
<1> QED
  BY <1>2, <1>3, <1>4, <1>5, <1>6, NoCommand

LEMMA PlaysKeep ==
  ASSUME MusicInv, A!Load("midi") \/ A!MusicTop \/ A!MusicSelect \/ A!MusicStep
  PROVE  MusicInv'
<1>1. SoundTypes /\ Installed /\ LastCommand /\ "midi" \in A!Kind
  BY DEF MusicInv, A!Kind
<1>2. /\ client' = client /\ todo' = todo /\ call' = call /\ asked' = asked /\ fd' = fd
      /\ A!Lives("midi")
      /\ \/ proc' = [proc EXCEPT !["midi"] = "running"]
         \/ proc' = [proc EXCEPT !["midi"] = "zombie"]
         \/ proc' = proc
  BY DEF A!Load, A!MusicTop, A!MusicSelect, A!MusicStep, A!Dies, A!clientVars, A!Lives
<1>3. DOMAIN proc' = A!Kind
  BY <1>1, <1>2 DEF SoundTypes
<1>4. Installed' <=> (client # "ended" /\ todo # <<>> => soundPipe'["midi"] = <<>>)
  BY <1>1, <1>2 DEF Installed
<1>5. CASE soundPipe' = soundPipe /\ music' = music
  <2>1. SoundTypes' /\ Installed'
    BY <1>1, <1>2, <1>3, <1>4, <1>5 DEF SoundTypes, Installed
  <2> QED
    BY <1>2, <1>5, <2>1, NoCommand
<1>6. CASE /\ soundPipe' = soundPipe /\ DOMAIN music' = DOMAIN music
           /\ music'.n = music.n /\ music'.loop = music.loop /\ music'.playing = music.playing
  <2>1. SoundTypes' /\ Installed'
    BY <1>1, <1>2, <1>3, <1>4, <1>6 DEF SoundTypes, Installed
  <2> QED
    BY <1>2, <1>6, <2>1, NoCommand
<1>7. CASE /\ soundPipe["midi"] # <<>> /\ soundPipe' = [soundPipe EXCEPT !["midi"] = Tail(@)]
           /\ music' = A!NewMusic(Head(soundPipe["midi"]))
  <2>0. PICK s, c : s = soundPipe["midi"] /\ c = Head(s)
    OBVIOUS
  <2>1. /\ s \in Seq(Commands) /\ s # <<>>
        /\ soundPipe'["midi"] = Tail(s) /\ DOMAIN soundPipe' = A!Kind
    BY <1>1, <1>7, <2>0 DEF SoundTypes
  <2>2. /\ c = s[1] /\ Tail(s) \in Seq(Commands) /\ Len(s) \in Nat /\ Len(s) >= 1
        /\ Len(Tail(s)) = Len(s) - 1 /\ \A i \in 1..(Len(s) - 1) : Tail(s)[i] = s[i + 1]
    <3> QED
      BY <2>0, <2>1, HeadTailProperties, LenProperties, EmptySeq
  <2>3. DOMAIN music' = DOMAIN music
    BY <1>7 DEF A!NewMusic
  <2>4. Obeyed(c)'
    <3>1. CASE c.n \in Music
      BY <1>1, <1>7, <2>0, <3>1 DEF A!NewMusic, Obeyed, SoundTypes
    <3>2. CASE c.n \notin Music
      BY <1>1, <1>7, <2>0, <3>2 DEF A!NewMusic, Obeyed, SoundTypes
    <3> QED
      BY <3>1, <3>2
  <2>5. SoundTypes'
    BY <1>1, <1>2, <1>3, <2>1, <2>2, <2>3 DEF SoundTypes
  <2>6. Installed'
    BY <1>1, <1>4, <1>7 DEF Installed
  <2>7. asked = s[Len(s)]
    BY <1>1, <1>2, <1>7, <2>0 DEF LastCommand
  <2>8. LastCommand'
    <3>1. CASE Tail(s) = <<>>
      <4>1. Len(s) = 1
        <5> DEFINE t == Tail(s)
        <5>3. Len(s) \in Nat
          BY <2>2
        <5>1. t = <<>> /\ t \in Seq(Commands) /\ Len(t) = Len(s) - 1
          BY <2>2, <3>1
        <5> HIDE DEF t
        <5>2. Len(t) = 0
          BY <5>1, EmptySeq
        <5> QED
          BY <5>1, <5>2, <5>3
      <4>2. asked' = c
        BY <1>2, <2>2, <2>7, <4>1
      <4> QED
        BY <2>1, <2>4, <3>1, <4>2 DEF LastCommand
    <3>2. CASE Tail(s) # <<>>
      <4> DEFINE t == Tail(s)
      <4>1. t # <<>> /\ t \in Seq(Commands) /\ Len(t) = Len(s) - 1
            /\ \A i \in 1..(Len(s) - 1) : t[i] = s[i + 1]
        BY <2>2, <3>2
      <4>2. t[Len(t)] = s[Len(s)]
        <5> HIDE DEF t
        <5>1. Len(t) # 0
          BY <4>1, EmptySeq
        <5> QED
          BY <2>2, <4>1, <5>1
      <4> QED
        BY <1>2, <2>1, <2>7, <3>2, <4>2 DEF LastCommand
    <3> QED
      BY <3>1, <3>2
  <2> QED
    BY <2>5, <2>6, <2>8 DEF MusicInv
<1>8. CASE /\ soundPipe' = soundPipe /\ music.playing
           /\ music' = [music EXCEPT !.at = "top", !.playing = music.loop,
                                     !.tracks = IF music.loop THEN "begun" ELSE @]
  <2>1. /\ DOMAIN music' = DOMAIN music /\ music'.n = music.n /\ music'.loop = music.loop
        /\ music'.playing = music.loop
    BY <1>1, <1>8 DEF SoundTypes
  <2>2. SoundTypes' /\ Installed'
    BY <1>1, <1>2, <1>3, <1>4, <1>8, <2>1 DEF SoundTypes, Installed
  <2>3. Obeyed(asked) => Obeyed(asked)'
    BY <1>2, <1>8, <2>1, Zenon DEF Obeyed
  <2>4. LastCommand'
    BY <1>1, <1>2, <1>8, <2>3, Zenon DEF LastCommand
  <2> QED
    BY <2>2, <2>4 DEF MusicInv
<1>9. CASE A!Load("midi") \/ A!MusicTop
  <2>1. /\ soundPipe' = soundPipe
        /\ \/ music' = music
           \/ music' = [music EXCEPT !.at = "select", !.reset = FALSE,
                                     !.tracks = IF music.reset THEN "cleared" ELSE @]
    BY <1>9 DEF A!Load, A!MusicTop
  <2> QED
    BY <1>1, <1>5, <1>6, <2>1 DEF SoundTypes
<1>10. CASE A!MusicSelect
  <2>1. \/ soundPipe' = soundPipe /\ music' = music
        \/ soundPipe' = soundPipe /\ music' = [music EXCEPT !.at = "top"]
        \/ soundPipe' = soundPipe /\ music' = [music EXCEPT !.at = "step"]
        \/ /\ soundPipe["midi"] # <<>> /\ soundPipe' = [soundPipe EXCEPT !["midi"] = Tail(@)]
           /\ music' = A!NewMusic(Head(soundPipe["midi"]))
    BY <1>10 DEF A!MusicSelect
  <2> QED
    BY <1>1, <1>5, <1>6, <1>7, <2>1 DEF SoundTypes
<1>11. CASE A!MusicStep
  <2>1. /\ soundPipe' = soundPipe
        /\ \/ music' = [music EXCEPT !.at = "top"]
           \/ music' = [music EXCEPT !.at = "top", !.tracks = IF @ = "cleared" THEN @ ELSE "played"]
           \/ /\ music.playing
              /\ music' = [music EXCEPT !.at = "top", !.playing = music.loop,
                                        !.tracks = IF music.loop THEN "begun" ELSE @]
    BY <1>11 DEF A!MusicStep
  <2> QED
    BY <1>1, <1>6, <1>8, <2>1 DEF SoundTypes
<1> QED
  BY <1>9, <1>10, <1>11

LEMMA MusicInvNext ==
  ASSUME MusicInv, A!Next
  PROVE  MusicInv'
<1>1. CASE A!Client
  <2>1. \A m \in Sample \cup {NoId} : A!PlaySample(m) => MusicInv'
    BY CallsKeep DEF A!PlaySample, A!Kind
  <2>2. \A m \in Music \cup {NoId}, loop \in BOOLEAN : A!StartMusic(m, loop) => MusicInv'
    BY CallsKeep DEF A!StartMusic, A!Kind
  <2> QED
    BY <1>1, <2>1, <2>2, InstallingKeeps, ClientKeeps, WriteKeeps DEF A!Client
<1> QED
  BY <1>1, ClientKeeps, SamplesKeep, PlaysKeep DEF A!Next, A!Sounds, A!Plays


\* Every channel is at some place of its data, and was moved on if it is not
\* at the end.
SampleInv ==
  /\ DOMAIN chan = 1..NChannels
  /\ \A i \in 1..NChannels :
       /\ chan[i].s \in Sample \cup {NoId} /\ chan[i].pos \in Nat /\ chan[i].left \in Nat
       /\ DOMAIN chan[i] = {"s", "pos", "left"}
       /\ chan[i].s # NoId => chan[i].pos + chan[i].left <= Length[chan[i].s]
       /\ chan[i].left = 0 \/ chan[i].pos > 0

LEMMA FurthestIsOne ==
  ASSUME SampleInv, NEW is \in SUBSET (1..NChannels), is # {}
  PROVE  A!Furthest(is) \in is
<1>1. NChannels \in Nat
  BY SoundAssumption DEF A!AudioAssumption
<1>2. IsFiniteSet(1..NChannels)
  BY <1>1, FS_Interval
<1>3. IsFiniteSet(is)
  BY <1>2, FS_Subset
<1> DEFINE g == [i \in is |-> chan[i].pos]
           N == {i \in is : \A j \in is : chan[j].pos <= chan[i].pos}
<1>4. \A i \in is : g[i] \in Nat
  BY DEF SampleInv
<1>5. \E i \in is : \A j \in is : g[j] <= g[i]
  <2> HIDE DEF g
  <2> QED
    BY <1>3, <1>4, GreatestOf
<1>6. N # {} /\ N \in SUBSET Nat
  <2>1. is \in SUBSET Nat /\ \A i \in is : g[i] = chan[i].pos
    BY <1>1
  <2>2. PICK i \in is : \A j \in is : g[j] <= g[i]
    BY <1>5
  <2>3. i \in N
    BY <2>1, <2>2
  <2> QED
    BY <2>1, <2>3
<1>7. \E m \in N : \A k \in N : m <= k
  <2> HIDE DEF N
  <2> QED
    BY <1>6, LeastNumber
<1>8. A!Min(N) \in N
  <2> HIDE DEF N
  <2> QED
    BY <1>7 DEF A!Min
<1> QED
  BY <1>8 DEF A!Furthest

LEMMA SomeChannel ==
  ASSUME SampleInv, NEW s
  PROVE  A!Channel(s) \in 1..NChannels
<1> DEFINE free == {i \in DOMAIN chan : chan[i].left <= 0}
           begun == {i \in DOMAIN chan : chan[i].pos > 0}
           same == {i \in begun : chan[i].s = s}
<1>1. NChannels \in Nat \ {0} /\ DOMAIN chan = 1..NChannels
  BY SoundAssumption DEF A!AudioAssumption, SampleInv
<1>2. CASE free # {}
  <2>1. free \in SUBSET Nat /\ free \subseteq 1..NChannels
    BY <1>1
  <2>2. \E m \in free : \A k \in free : m <= k
    <3> HIDE DEF free
    <3> QED
      BY <1>2, <2>1, LeastNumber
  <2>3. A!Min(free) \in free
    <3> HIDE DEF free
    <3> QED
      BY <2>2 DEF A!Min
  <2>4. A!Channel(s) = A!Min(free)
    BY <1>2 DEF A!Channel
  <2> QED
    BY <2>1, <2>3, <2>4
<1>3. CASE free = {}
  <2>1. begun # {} /\ begun \subseteq 1..NChannels /\ same \subseteq begun
    <3>1. 1 \in 1..NChannels
      BY <1>1
    <3>2. chan[1].left \in Nat /\ chan[1].left # 0
      BY <1>1, <1>3, <3>1 DEF SampleInv
    <3> QED
      BY <1>1, <3>1, <3>2 DEF SampleInv
  <2>2. A!Channel(s) = IF same # {} THEN A!Furthest(same) ELSE A!Furthest(begun)
    BY <1>3, <2>1 DEF A!Channel
  <2> HIDE DEF same, begun
  <2>3. same # {} => A!Furthest(same) \in same
    BY <2>1, FurthestIsOne
  <2>4. A!Furthest(begun) \in begun
    BY <2>1, FurthestIsOne
  <2> QED
    BY <2>1, <2>2, <2>3, <2>4
<1> QED
  BY <1>2, <1>3

\* A channel that a block was mixed of.
LEMMA MixedKeeps ==
  ASSUME NEW c, c.s \in Sample \cup {NoId}, c.pos \in Nat, c.left \in Nat,
         DOMAIN c = {"s", "pos", "left"},
         c.s # NoId => Length[c.s] \in Nat /\ c.pos + c.left <= Length[c.s]
  PROVE  /\ A!Mixed(c).s = c.s /\ A!Mixed(c).pos \in Nat /\ A!Mixed(c).left \in Nat
         /\ DOMAIN A!Mixed(c) = {"s", "pos", "left"}
         /\ c.s # NoId => A!Mixed(c).pos + A!Mixed(c).left <= Length[c.s]
         /\ A!Mixed(c).left = 0 \/ A!Mixed(c).pos > 0
<1> DEFINE k == IF c.left < Block THEN c.left ELSE Block
           q == IF Bits = 8 THEN k ELSE 2 * (k \div 2)
           d == A!Mixed(c)
<1>1. Block \in Nat /\ Block >= 2
  BY SoundAssumption DEF A!AudioAssumption
<1>2. k \in Nat /\ k <= c.left /\ (k = c.left \/ k >= 2)
  BY <1>1
<1>3. q \in Nat /\ q <= k /\ (k >= 2 => q >= 2)
  <2> HIDE DEF k
  <2>1. 2 * (k \div 2) \in Nat /\ 2 * (k \div 2) <= k /\ (k >= 2 => 2 * (k \div 2) >= 2)
    BY <1>2
  <2> QED
    BY <1>2, <2>1
<1>4. d = [c EXCEPT !.pos = c.pos + q, !.left = c.left - k]
  BY DEF A!Mixed
<1>5. /\ d.s = c.s /\ d.pos = c.pos + q /\ d.left = c.left - k
      /\ DOMAIN d = {"s", "pos", "left"}
  <2> HIDE DEF k, q, d
  <2> QED
    BY <1>4
<1> HIDE DEF k, q, d
<1>6. /\ d.pos \in Nat /\ d.left \in Nat /\ (d.left = 0 \/ d.pos > 0)
      /\ d.pos + d.left <= c.pos + c.left
  BY <1>2, <1>3, <1>5
<1>7. c.s # NoId => d.pos + d.left <= Length[c.s]
  BY <1>5, <1>6
<1> QED
  BY <1>5, <1>6, <1>7 DEF d

LEMMA SampleInvNext ==
  ASSUME SampleInv, A!Next
  PROVE  SampleInv'
<1>0. \A s \in Sample : Length[s] \in Nat \ {0} /\ s # NoId
  BY SoundAssumption DEF A!AudioAssumption
<1>1. CASE chan' = chan
  BY <1>1 DEF SampleInv
<1>2. CASE A!SampleRound /\ chan' # chan
  <2> DEFINE s == IF soundPipe["sample"] = <<>> THEN NoId ELSE Head(soundPipe["sample"]).n
             busy == IF s \in Sample /\ A!Channel(s) # 0 THEN A!Assigned(s) ELSE chan
  <2>1. chan' = [i \in DOMAIN chan |-> A!Mixed(busy[i])]
    BY <1>2 DEF A!SampleRound
  <2>2. /\ DOMAIN chan = 1..NChannels
        /\ \A i \in 1..NChannels :
             /\ busy[i].s \in Sample \cup {NoId} /\ busy[i].pos \in Nat /\ busy[i].left \in Nat
             /\ DOMAIN busy[i] = {"s", "pos", "left"}
             /\ busy[i].s # NoId => Length[busy[i].s] \in Nat /\ busy[i].pos + busy[i].left <= Length[busy[i].s]
    <3>1. DOMAIN chan = 1..NChannels
      BY DEF SampleInv
    <3>2. CASE busy = chan
      BY <1>0, <3>1, <3>2 DEF SampleInv
    <3>3. CASE s \in Sample /\ busy = A!Assigned(s)
      <4>1. A!Channel(s) \in 1..NChannels
        BY SomeChannel
      <4>2. busy = [chan EXCEPT ![A!Channel(s)] = [s |-> s, pos |-> 0, left |-> Length[s]]]
        BY <3>3 DEF A!Assigned
      <4> HIDE DEF s, busy
      <4>3. ASSUME NEW i \in 1..NChannels
            PROVE  /\ busy[i].s \in Sample \cup {NoId} /\ busy[i].pos \in Nat /\ busy[i].left \in Nat
                   /\ DOMAIN busy[i] = {"s", "pos", "left"}
                   /\ busy[i].s # NoId =>
                        Length[busy[i].s] \in Nat /\ busy[i].pos + busy[i].left <= Length[busy[i].s]
        <5>1. CASE i = A!Channel(s)
          <6>1. busy[i] = [s |-> s, pos |-> 0, left |-> Length[s]]
            BY <3>1, <4>1, <4>2, <5>1
          <6> QED
            BY <1>0, <3>3, <6>1
        <5>2. CASE i # A!Channel(s)
          <6>1. busy[i] = chan[i]
            BY <3>1, <4>2, <5>2
          <6> QED
            BY <1>0, <6>1 DEF SampleInv
        <5> QED
          BY <5>1, <5>2
      <4> QED
        BY <3>1, <4>3
    <3> QED
      BY <3>2, <3>3
  <2> HIDE DEF busy
  <2>3. ASSUME NEW i \in 1..NChannels
        PROVE  /\ chan'[i].s \in Sample \cup {NoId} /\ chan'[i].pos \in Nat /\ chan'[i].left \in Nat
               /\ DOMAIN chan'[i] = {"s", "pos", "left"}
               /\ chan'[i].s # NoId => chan'[i].pos + chan'[i].left <= Length[chan'[i].s]
               /\ chan'[i].left = 0 \/ chan'[i].pos > 0
    <3>1. chan'[i] = A!Mixed(busy[i])
      BY <2>1, <2>2
    <3>2. /\ A!Mixed(busy[i]).s = busy[i].s /\ A!Mixed(busy[i]).pos \in Nat /\ A!Mixed(busy[i]).left \in Nat
          /\ DOMAIN A!Mixed(busy[i]) = {"s", "pos", "left"}
          /\ busy[i].s # NoId => A!Mixed(busy[i]).pos + A!Mixed(busy[i]).left <= Length[busy[i].s]
          /\ A!Mixed(busy[i]).left = 0 \/ A!Mixed(busy[i]).pos > 0
      BY <2>2, MixedKeeps
    <3> QED
      BY <2>2, <3>1, <3>2
  <2>4. DOMAIN chan' = 1..NChannels
    BY <2>1, <2>2
  <2> QED
    BY <2>3, <2>4 DEF SampleInv
<1>3. chan' = chan \/ A!SampleRound
  BY DEF A!Next, A!Client, A!Reap, A!Sounds, A!Plays, A!NoServer, A!Fork, A!StorePid, A!StoreFd, A!Interrupt,
         A!Write, A!EndSound, A!Crash, A!PlaySample, A!StartMusic, A!Calls, A!Load, A!MusicTop,
         A!MusicSelect, A!MusicStep, A!serverVars
<1> QED
  BY <1>1, <1>2, <1>3

LEMMA SampleInvInit == A!Init => SampleInv
<1> SUFFICES ASSUME A!Init PROVE SampleInv
  OBVIOUS
<1>1. chan = [i \in 1..NChannels |-> [s |-> NoId, pos |-> 0, left |-> 0]]
  BY DEF A!Init, A!Free
<1> QED
  BY <1>1 DEF SampleInv

SoundInv == MusicInv /\ SampleInv

LEMMA SoundInvNext ==
  ASSUME SoundInv, [WireNext]_all
  PROVE  SoundInv'
<1>1. CASE A!Next
  BY <1>1, MusicInvNext, SampleInvNext DEF SoundInv
<1>2. CASE UNCHANGED soundVars
  <2>1. /\ client' = client /\ todo' = todo /\ call' = call /\ asked' = asked /\ fd' = fd
        /\ proc' = proc /\ soundPipe' = soundPipe /\ music' = music /\ chan' = chan
    BY <1>2 DEF soundVars
  <2>2. MusicInv' = MusicInv
    BY <2>1 DEF MusicInv, SoundTypes, Installed, LastCommand, Obeyed, A!Lives
  <2>3. SampleInv' = SampleInv
    BY <2>1 DEF SampleInv
  <2> QED
    BY <2>2, <2>3 DEF SoundInv
<1> QED
  BY <1>1, <1>2 DEF WireNext, Out, Ring, Single, Sound, all

LEMMA SoundInvAgrees == SoundInv => SoundAgrees
<1> SUFFICES ASSUME SoundInv PROVE A!MusicFollows /\ A!SoundsPlay
  BY DEF SoundAgrees, A!AudioAgrees
<1>1. A!MusicFollows
  <2> SUFFICES ASSUME proc["midi"] = "running", soundPipe["midi"] = <<>>, asked # A!Idle
               PROVE  Obeyed(asked)
    BY DEF A!MusicFollows, Obeyed
  <2> QED
    BY DEF SoundInv, MusicInv, LastCommand, A!Lives
<1>2. \A s \in Sample : A!Channel(s) # 0
  <2>1. \A s \in Sample : A!Channel(s) \in 1..NChannels
    BY SomeChannel DEF SoundInv
  <2> QED
    BY <2>1, SoundAssumption DEF A!AudioAssumption
<1>3. ASSUME NEW i \in DOMAIN chan, chan[i].s # NoId
      PROVE  chan[i].pos <= Length[chan[i].s] * (Bits \div 8)
  <2>1. /\ chan[i].pos \in Nat /\ chan[i].left \in Nat /\ Length[chan[i].s] \in Nat
        /\ chan[i].pos + chan[i].left <= Length[chan[i].s]
    BY <1>3, SoundAssumption DEF SoundInv, SampleInv, A!AudioAssumption
  <2>2. Bits \div 8 = 1 \/ Bits \div 8 = 2
    BY SoundAssumption DEF A!AudioAssumption
  <2>3. chan[i].pos <= Length[chan[i].s] /\ chan[i].pos <= Length[chan[i].s] * 2
    BY <2>1
  <2> QED
    BY <2>1, <2>2, <2>3
<1> QED
  BY <1>1, <1>2, <1>3 DEF A!SoundsPlay

\* Whatever the client asks for, however it is interrupted by the handler of
\* SIGCHLD and whichever server ends (client/sound.c): the music server obeys
\* the last command (midi/player.c), allocate_channel finds a channel and
\* mix_channel stays in the data of the sample (snd/player.c).
THEOREM SoundServersAgree ==
  WireSpec => []SoundAgrees
<1>1. WireInit => SoundInv
  BY MusicInvInit, SampleInvInit DEF WireInit, SoundInv
<1>2. SoundInv /\ [WireNext]_all => SoundInv'
  BY SoundInvNext
<1> QED
  BY <1>1, <1>2, SoundInvAgrees, PTL DEF WireSpec
=============================================================================
