------------------------------- MODULE Audio -------------------------------
(***************************************************************************)
(* The sound of a client (client/sound.c): two server processes, one that  *)
(* mixes samples (snd/player.c) and one that plays music (midi/player.c),  *)
(* each behind a pipe of its own.  Music is changed by SIGUSR1 and then a  *)
(* command in the pipe, servers are ended by SIGTERM or by the end of the  *)
(* pipe, and the client learns by SIGCHLD that one is gone.  That handler  *)
(* runs between any two steps of the client.                               *)
(*                                                                         *)
(* What is heard is left out, and so is a pipe that is full.               *)
(***************************************************************************)
EXTENDS Integers, Sequences, FiniteSetsExt

CONSTANTS
  Music,      \* the musics whose files were read; all other ids are ignored
  Sample,     \* the samples whose files were read
  Length,     \* sample -> its length
  Bits,       \* bits of all samples
  NChannels,  \* NUM_CHANNELS
  Block,      \* mixer.size
  NoId,       \* an id of no file, as the -1 that stops the music
  MaxCalls    \* bound: calls of snd_play_sample and snd_start_music

AudioAssumption ==
  /\ NoId \notin Music \cup Sample
  /\ \A s \in Sample : Length[s] \in Nat \ {0}
  /\ Bits \in {8, 16} /\ NChannels \in Nat \ {0} /\ Block \in Nat \ {0, 1} /\ MaxCalls \in Nat

VARIABLES
  pc,         \* where the client is
  todo,       \* the servers setup_sound has still to install
  call,       \* the call being made: its server and its arguments
  calls,      \* number of calls so far
  pid,        \* sample_server_pid, midi_server_pid: 0, -1, or Child
  fd,         \* sample_server_fd, midi_server_fd: 0, -1, or Open
  started,    \* music_started
  stray,      \* a signal was sent to the process number -1: to all processes
  proc,       \* each server process
  pipe,       \* commands in each pipe
  quit,       \* quit, midi_quit
  music,      \* what the music server does, and the place in its loop
  chan,       \* channel[] of the sample server
  asked       \* the last command that was written for the music server

clientVars == <<pc, todo, call, calls, pid, fd, started, asked>>
serverVars == <<proc, quit, music, chan>>
vars == <<clientVars, stray, pipe, serverVars>>

Kind == {"sample", "midi"}
Child == 1     \* the number of the process of a server, which is forked once
Open == 3      \* its pipe
Lives(k) == proc[k] \in {"loading", "running"}
Idle == [kind |-> "none"]
Free == [s |-> NoId, pos |-> 0, left |-> 0]

Init ==
  /\ pc = "setup" /\ todo \in {<<"sample">>, <<"midi">>, <<"sample", "midi">>}
  /\ call = Idle /\ calls = 0
  /\ pid = [k \in Kind |-> 0] /\ fd = [k \in Kind |-> 0]
  /\ started = FALSE /\ stray = FALSE /\ asked = Idle
  /\ proc = [k \in Kind |-> "none"] /\ pipe = [k \in Kind |-> <<>>]
  /\ quit = [k \in Kind |-> FALSE]
  /\ music = [at |-> "top", reset |-> FALSE, playing |-> FALSE, n |-> NoId, loop |-> FALSE,
              tracks |-> "cleared"]
  /\ chan = [i \in 1..NChannels |-> Free]

-----------------------------------------------------------------------------
(***************************************************************************)
(* Signals.                                                                *)
(***************************************************************************)
\* A server that is still loading has no handlers; the sample server never
\* has one for SIGUSR1.
Ends(k, signal) == proc[k] = "loading" \/ (k = "sample" /\ proc[k] = "running" /\ signal = "USR1")
Signalled(ks, signal) ==
  /\ proc' = [k \in Kind |-> IF k \in ks /\ Ends(k, signal) THEN "zombie" ELSE proc[k]]
  /\ quit' = [k \in Kind |-> quit[k] \/ (k \in ks /\ proc[k] = "running" /\ signal = "TERM")]
  /\ music' = [music EXCEPT !.reset =
                 @ \/ ("midi" \in ks /\ proc["midi"] = "running" /\ signal = "USR1")]

\* kill(pid, signal)
Kill(k, signal) ==
  /\ stray' = (stray \/ pid[k] = -1)
  /\ Signalled(IF pid[k] = -1 THEN Kind ELSE IF pid[k] = Child THEN {k} ELSE {}, signal)

\* sigchld_handler: each process that ended is waited for.  Which server it
\* was is known only after install_sound_server has stored its number.
Reap ==
  /\ pc # "ended"
  /\ \E k \in Kind : proc[k] = "zombie"
  /\ proc' = [k \in Kind |-> IF proc[k] = "zombie" THEN "reaped" ELSE proc[k]]
  /\ fd' = [k \in Kind |-> IF proc[k] = "zombie" /\ pid[k] = Child THEN -1 ELSE fd[k]]
  /\ pid' = [k \in Kind |-> IF proc[k] = "zombie" /\ pid[k] = Child THEN -1 ELSE pid[k]]
  /\ UNCHANGED <<pc, todo, call, calls, started, asked, stray, pipe, quit, music, chan>>

-----------------------------------------------------------------------------
(***************************************************************************)
(* setup_sound and install_sound_server.                                   *)
(***************************************************************************)
Installing(place) == pc = place /\ todo # <<>>

NoServer ==
  /\ Installing("setup")
  /\ fd' = [fd EXCEPT ![Head(todo)] = -1]
  /\ todo' = Tail(todo)
  /\ UNCHANGED <<pc, call, calls, pid, started, asked, stray, pipe, serverVars>>

Fork ==
  /\ Installing("setup") /\ pc' = "forked"
  /\ proc' = [proc EXCEPT ![Head(todo)] = "loading"]
  /\ UNCHANGED <<todo, call, calls, pid, fd, started, asked, stray, pipe, quit, music, chan>>

StorePid ==
  /\ Installing("forked") /\ pc' = "known"
  /\ pid' = [pid EXCEPT ![Head(todo)] = Child]
  /\ UNCHANGED <<todo, call, calls, fd, started, asked, stray, pipe, serverVars>>

StoreFd ==
  /\ Installing("known") /\ pc' = "setup"
  /\ fd' = [fd EXCEPT ![Head(todo)] = Open]
  /\ todo' = Tail(todo)
  /\ UNCHANGED <<call, calls, pid, started, asked, stray, pipe, serverVars>>

-----------------------------------------------------------------------------
(***************************************************************************)
(* snd_play_sample and snd_start_music, after the test of fd and pid.      *)
(***************************************************************************)
Calls(k, n, loop) ==
  /\ pc = "setup" /\ todo = <<>> /\ calls < MaxCalls
  /\ fd[k] # -1 /\ pid[k] # 0
  /\ call' = [kind |-> k, n |-> n, loop |-> loop] /\ calls' = calls + 1
  /\ pc' = IF k = "midi" THEN "interrupt" ELSE "write"
  /\ UNCHANGED <<todo, pid, fd, started, asked, stray, pipe, serverVars>>
PlaySample(n) == Calls("sample", n, FALSE)
StartMusic(n, loop) == Calls("midi", n, loop)

\* "interrupt wait state"
Interrupt ==
  /\ pc = "interrupt" /\ pc' = "write"
  /\ IF started THEN Kill("midi", "USR1") ELSE UNCHANGED <<stray, proc, quit, music>>
  /\ started' = FALSE
  /\ UNCHANGED <<todo, call, calls, pid, fd, asked, pipe, chan>>

\* select, and the command is written; if the handler has closed the pipe
\* since the test, select fails or finds nothing.
Write ==
  /\ pc = "write" /\ pc' = "setup"
  /\ started' = (started \/ call.kind = "midi")
  /\ asked' = IF call.kind = "midi" THEN call ELSE asked
  /\ \/ /\ fd[call.kind] = Open
        /\ pipe' = IF Lives(call.kind) THEN [pipe EXCEPT ![call.kind] = Append(@, call)] ELSE pipe
        /\ UNCHANGED <<stray, proc, quit, music>>
     \/ /\ fd[call.kind] # Open
        /\ (Kill(call.kind, "TERM") \/ UNCHANGED <<stray, proc, quit, music>>)
        /\ pipe' = pipe
  /\ call' = Idle
  /\ UNCHANGED <<todo, calls, pid, fd, chan>>

\* end_sound and the end of the program
EndSound ==
  /\ pc = "setup" /\ todo = <<>> /\ pc' = "ended"
  /\ Signalled({k \in Kind : pid[k] = Child}, "TERM")
  /\ UNCHANGED <<todo, call, calls, pid, fd, started, asked, stray, pipe, chan>>

\* the program ends without it
Crash ==
  /\ pc # "ended" /\ pc' = "ended"
  /\ UNCHANGED <<todo, call, calls, pid, fd, started, asked, stray, pipe, serverVars>>

-----------------------------------------------------------------------------
(***************************************************************************)
(* The servers.                                                            *)
(***************************************************************************)
Dies(k) == proc' = [proc EXCEPT ![k] = "zombie"]

\* main, read_files, init_dsp or install_midi: the server is ready, or ends
\* without a file or a device.
Load(k) ==
  /\ proc[k] = "loading"
  /\ (proc' = [proc EXCEPT ![k] = "running"] \/ Dies(k))
  /\ UNCHANGED <<clientVars, stray, pipe, quit, music, chan>>

\* The pipe of the samples is also open in the music server, which was forked
\* after it.
Written(k) == pc # "ended" \/ (k = "sample" /\ Lives("midi"))
AtEnd(k) == pipe[k] = <<>> /\ ~ Written(k)

\* allocate_channel: a free one, the one that is furthest in the same sample,
\* or the one that is furthest; 0 if there is none.
Furthest(is) == Min({i \in is : \A j \in is : chan[j].pos <= chan[i].pos})
Channel(s) ==
  LET free == {i \in DOMAIN chan : chan[i].left <= 0}
      begun == {i \in DOMAIN chan : chan[i].pos > 0}
      same == {i \in begun : chan[i].s = s}
  IN IF free # {} THEN Min(free) ELSE IF same # {} THEN Furthest(same)
     ELSE IF begun # {} THEN Furthest(begun) ELSE 0

Assigned(s) == [chan EXCEPT ![Channel(s)] = [s |-> s, pos |-> 0, left |-> Length[s]]]

\* Mutant of Mixed: The place in the data is not moved with the last block.
MixedStuck(c) ==
  LET n == IF c.left < Block THEN c.left ELSE Block
  IN [c EXCEPT !.pos = IF n < Block THEN @ + n ELSE @, !.left = @ - n]

\* mix_channel; pos counts bytes
Mixed(c) ==
  LET n == IF c.left < Block THEN c.left ELSE Block
  IN [c EXCEPT !.pos = @ + (IF Bits = 8 THEN n ELSE 2 * (n \div 2)), !.left = @ - n]

\* do_play_loop of the samples: at most one command, and a block is mixed.
SampleRound ==
  /\ proc["sample"] = "running"
  /\ \/ (quit["sample"] \/ AtEnd("sample")) /\ Dies("sample") /\ UNCHANGED <<pipe, chan>>
     \/ /\ ~ quit["sample"] /\ ~ AtEnd("sample")
        /\ LET s == IF pipe["sample"] = <<>> THEN NoId ELSE Head(pipe["sample"]).n
               busy == IF s \in Sample /\ Channel(s) # 0 THEN Assigned(s) ELSE chan
           IN chan' = [i \in DOMAIN chan |-> Mixed(busy[i])]
        /\ pipe' = IF pipe["sample"] = <<>> THEN pipe ELSE [pipe EXCEPT !["sample"] = Tail(@)]
        /\ proc' = proc
  /\ UNCHANGED <<clientVars, stray, quit, music>>

\* do_play_loop of the music, at its top: seq_reset after SIGUSR1.
MusicTop ==
  /\ proc["midi"] = "running" /\ music.at = "top"
  /\ IF quit["midi"] THEN Dies("midi") /\ music' = music
     ELSE /\ proc' = proc
          /\ music' = [music EXCEPT !.at = "select", !.reset = FALSE,
                                    !.tracks = IF music.reset THEN "cleared" ELSE @]
  /\ UNCHANGED <<clientVars, stray, pipe, quit, chan>>

\* Mutant of NewMusic: A command that stops the music is not obeyed.
NewMusicOnly(c) ==
  IF c.n \in Music
  THEN [music EXCEPT !.at = "step", !.reset = FALSE, !.playing = TRUE, !.n = c.n, !.loop = c.loop,
                     !.tracks = "begun"]
  ELSE [music EXCEPT !.at = "step", !.reset = FALSE, !.tracks = "cleared"]

\* seq_reset, start_play
NewMusic(c) ==
  IF c.n \in Music
  THEN [music EXCEPT !.at = "step", !.reset = FALSE, !.playing = TRUE, !.n = c.n, !.loop = c.loop,
                     !.tracks = "begun"]
  ELSE [music EXCEPT !.at = "step", !.reset = FALSE, !.playing = FALSE, !.tracks = "cleared"]

\* Mutant of MusicSelect: The end of the pipe is taken for no command.
MusicSelectOn ==
  /\ proc["midi"] = "running" /\ music.at = "select"
  /\ \/ /\ pipe["midi"] # <<>> /\ music' = NewMusic(Head(pipe["midi"]))
        /\ pipe' = [pipe EXCEPT !["midi"] = Tail(@)]
     \/ pipe["midi"] = <<>> /\ music' = [music EXCEPT !.at = "step"] /\ pipe' = pipe
  /\ UNCHANGED <<clientVars, stray, proc, quit, chan>>

\* It sleeps in select until a command comes or the pipe ends, unless music is
\* playing; a signal alone does not wake it.
MusicSelect ==
  /\ proc["midi"] = "running" /\ music.at = "select"
  /\ \/ /\ music.playing \/ pipe["midi"] # <<>> \/ AtEnd("midi")
        /\ quit["midi"]
        /\ music' = [music EXCEPT !.at = "top"] /\ UNCHANGED <<proc, pipe>>
     \/ /\ ~ quit["midi"] /\ AtEnd("midi")
        /\ Dies("midi") /\ UNCHANGED <<music, pipe>>
     \/ /\ ~ quit["midi"] /\ pipe["midi"] # <<>>
        /\ music' = NewMusic(Head(pipe["midi"]))
        /\ pipe' = [pipe EXCEPT !["midi"] = Tail(@)] /\ proc' = proc
     \/ /\ ~ quit["midi"] /\ pipe["midi"] = <<>> /\ ~ AtEnd("midi") /\ music.playing
        /\ music' = [music EXCEPT !.at = "step"] /\ UNCHANGED <<proc, pipe>>
  /\ UNCHANGED <<clientVars, stray, quit, chan>>

\* step_play: nothing while a reset waits; the music goes on, or ends and
\* begins again or not.
MusicStep ==
  /\ proc["midi"] = "running" /\ music.at = "step"
  /\ \/ (~ music.playing \/ music.reset) /\ music' = [music EXCEPT !.at = "top"]
     \/ /\ music.playing /\ ~ music.reset
        /\ \/ music' = [music EXCEPT !.at = "top", !.tracks = IF @ = "cleared" THEN @ ELSE "played"]
           \/ music' = [music EXCEPT !.at = "top", !.playing = music.loop,
                                     !.tracks = IF music.loop THEN "begun" ELSE @]
  /\ UNCHANGED <<clientVars, stray, proc, pipe, quit, chan>>

-----------------------------------------------------------------------------
Client ==
  \/ NoServer \/ Fork \/ StorePid \/ StoreFd \/ Interrupt \/ Write \/ EndSound \/ Crash
  \/ \E n \in Sample \cup {NoId} : PlaySample(n)
  \/ \E n \in Music \cup {NoId}, loop \in BOOLEAN : StartMusic(n, loop)
Sounds == Load("sample") \/ SampleRound
Plays == Load("midi") \/ MusicTop \/ MusicSelect \/ MusicStep

Next == Client \/ Reap \/ Sounds \/ Plays

\* The processes run; what the client does is up to its user.
Spec == Init /\ [][Next]_vars /\ WF_vars(Sounds) /\ WF_vars(Plays)

-----------------------------------------------------------------------------
\* When the music server has read everything it plays what was asked for last,
\* or has played it to its end; SIGUSR1 loses no command.
MusicFollows ==
  (proc["midi"] = "running" /\ pipe["midi"] = <<>> /\ asked # Idle) =>
    IF asked.n \in Music
    THEN music.n = asked.n /\ music.loop = asked.loop /\ (music.playing \/ ~ music.loop)
    ELSE ~ music.playing

\* A sample that is asked for always finds a channel, and no channel reads past
\* the end of its data.
SoundsPlay ==
  /\ \A s \in Sample : Channel(s) # 0
  /\ \A i \in DOMAIN chan : chan[i].s # NoId => chan[i].pos <= Length[chan[i].s] * (Bits \div 8)
AudioAgrees == MusicFollows /\ SoundsPlay

\* Both servers end after the program did, however it ended: neither keeps the
\* pipe of the other open for ever.
ServersEnd == pc = "ended" ~> \A k \in Kind : ~ Lives(k)

-----------------------------------------------------------------------------
(***************************************************************************)
(* Expectations the code does not meet; no run checks them.                *)
(***************************************************************************)
\* Signals are meant for the servers only: a handler that runs between the
\* test and the signal makes it a signal to all processes of the user.
SignalsOnlyServers == ~ stray

\* "interrupt wait state": a change of the music does not end a server that
\* is loading, which has no handler for SIGUSR1 yet.
ChangesLetLive ==
  [][pc = "interrupt" /\ pc' = "write" => \A k \in Kind : Lives(k) => proc'[k] = proc[k]]_vars

\* The tracks are read from the beginning that start_play has found: a reset
\* that comes before the new command has the old music begin in the wrong way.
TracksBegun == ~ (music.at = "step" /\ music.playing /\ ~ music.reset /\ music.tracks = "cleared")

\* A sample is played to its end; with 16 bits only the half of it.
PlaysWhole ==
  \A i \in DOMAIN chan :
    chan[i].s # NoId /\ chan[i].left = 0 => chan[i].pos = Length[chan[i].s] * (Bits \div 8)
=============================================================================
