------------------------------- MODULE MCWire -------------------------------
(***************************************************************************)
(* How messages travel, in one run: the output buffer of a descriptor      *)
(* (OutBuffer), the ring buffer of the single-player build (NetBuffer),    *)
(* that build as a whole (SinglePlayer), and the pipes and signals between *)
(* a client and its sound servers (Audio).  A behavior belongs to one of   *)
(* the four; the variables of the others keep their first values.          *)
(***************************************************************************)
EXTENDS OutBuffer

CONSTANTS
  small, large, huge, short, long, garbage,
  RingMsg, RingSize, RingMaxSent, Capacity, MaxUnread,   \* of NetBuffer
  Options, MaxConnections,                               \* of SinglePlayer
  Music, Sample, Length, Bits, NChannels, Block, NoId, MaxCalls   \* of Audio

\* A message that fits twice, one that fills the buffer and one that is larger.
MCSize == [m \in Msg |-> IF m = small THEN 2 ELSE IF m = large THEN 5 ELSE 6]

VARIABLES
  part,                                                \* "out", "ring", "single" or "sound"
  ringBuf, start, end, failed, ringSent, ringGot,      \* of NetBuffer
  pc, screen, started, fading, open, owner, joined,    \* of SinglePlayer
  player, alive, toServer, toClient, connections, options, hasty,
  client, todo, call, calls, pid, fd, asked,           \* of Audio
  musicOn, stray, proc, soundPipe, ends, music, chan

\* Messages of two sizes: the shortest there is, and one with more contents.
ShortAndLong == {short, long}
TwoAndThree == [m \in ShortAndLong |-> IF m = short THEN 2 ELSE 3]

R == INSTANCE NetBuffer WITH
  Msg <- RingMsg, Size <- RingSize, Garbage <- garbage, MaxSent <- RingMaxSent,
  buf <- ringBuf, sent <- ringSent, got <- ringGot
ASSUME RingAssumption == R!NetBufferAssumption

\* The program is given a name, a jack and a map, or a name and -go.
NameJackMapOrGo == {<<"SET", "SET", "SET">>, <<"SET", "START">>}

P == INSTANCE SinglePlayer
ASSUME SinglePlayerAssumption == P!OptionsAssumption

\* A short and a long sample.
ThreeAndFour == [s \in Sample |-> 3 + s]

A == INSTANCE Audio WITH
  pc <- client, started <- musicOn, pipe <- soundPipe, quit <- ends
ASSUME SoundAssumption == A!AudioAssumption

outVars == <<allocated, buf, n, sending, pipe, broken, sent, got>>
ringVars == <<ringBuf, start, end, failed, ringSent, ringGot>>
singleVars == <<pc, screen, started, fading, open, owner, joined, player, alive,
                toServer, toClient, connections, options, hasty>>
soundVars == <<client, todo, call, calls, pid, fd, asked, musicOn, stray, proc, soundPipe,
               ends, music, chan>>
all == <<part, outVars, ringVars, singleVars, soundVars>>

WireInit ==
  /\ Init /\ R!Init /\ P!Init /\ A!Init
  /\ part \in {"out", "ring", "single", "sound"}
  /\ part # "single" => options = CHOOSE s \in Options : TRUE
  /\ part # "sound" => todo = <<"sample", "midi">>

Out(S) == part = "out" /\ S /\ UNCHANGED <<part, ringVars, singleVars, soundVars>>
Ring(S) == part = "ring" /\ S /\ UNCHANGED <<part, outVars, singleVars, soundVars>>
Single(S) == part = "single" /\ S /\ UNCHANGED <<part, outVars, ringVars, soundVars>>
Sound(S) == part = "sound" /\ S /\ UNCHANGED <<part, outVars, ringVars, singleVars>>

WireNext == Out(Next) \/ Ring(R!Next) \/ Single(P!Next) \/ Sound(A!Next)

\* The fairness of the four specifications.
WireSpec ==
  /\ WireInit /\ [][WireNext]_all
  /\ WF_all(Out(Flush)) /\ WF_all(Out(Read)) /\ WF_all(Ring(R!Read))
  /\ WF_all(Single(P!ThreadGoesOn))
  /\ WF_all(Sound(A!Sounds)) /\ WF_all(Sound(A!Plays))

\* NetBuffer.InOrder: the ring buffer, too, gives what was put into it, once
\* and in order.
RingInOrder == R!InOrder

\* SinglePlayer.OneFrameBehind: the screen of a user who waits for answers is
\* never more than a frame behind the server.
OneFrameBehind == part = "single" => P!OneFrameBehind

\* SinglePlayer.RemovedOnesLeft: a client taken out of a game had left it.
RemovedOnesLeft == P!RemovedOnesLeft

\* SinglePlayer.FrameEnds: in a game a frame that was begun ends.
FrameEnds ==
  part = "single" /\ screen = "game" /\ pc = "verify" ~> pc \in {"play", "connect"}

\* SinglePlayer.StartIsAnswered: whoever starts a game gets it, or an answer
\* that says why not.
StartIsAnswered ==
  /\ part = "single" /\ pc = "poll" /\ joined /\ toServer = <<"START">>
  ~> \/ hasty \/ screen = "game" \/ ~open \/ pc = "exit"
     \/ pc = "input" /\ "RETURN" \in R!ToSet(toClient)

\* Audio.AudioAgrees: the music server plays what was asked for last, and every
\* sound finds a channel.
SoundAgrees == A!AudioAgrees

\* Audio.ServersEnd: the sound servers end when the program is gone.
SoundServersEnd == client = "ended" ~> \A k \in A!Kind : ~ A!Lives(k)
=============================================================================
