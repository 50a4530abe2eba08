------------------------------- MODULE Audio -------------------------------
(***************************************************************************)
(* The audio device of AM native, ioe/audio.c: the program writes samples  *)
(* into a pipe, SDL's callback thread reads them, and both keep the number *)
(* of bytes between them in `count', which is volatile and nothing more.   *)
(* Each access to count is a step.                                         *)
(***************************************************************************)
EXTENDS Integers, Sequences

CONSTANTS
    PipeSize,     \* capacity of the pipe in bytes
    PipeBuf,      \* PIPE_BUF: writes up to this size go in whole or not at all
    Lengths,      \* the lengths of the program's buffers
    StreamLen,    \* the length of SDL's stream buffer
    MaxBytes,     \* bound on the bytes that the program writes
    MaxPipes,     \* bound on the calls of __am_audio_init
    MaxCtrl       \* bound on the calls of AM_AUDIO_CTRL that find SDL's audio

ASSUME AudioAssumption ==
    /\ PipeSize \in Nat /\ PipeBuf \in Nat /\ StreamLen \in Nat
    /\ Lengths \subseteq Nat \ {0}
    /\ MaxBytes \in Nat /\ MaxPipes \in Nat /\ MaxCtrl \in Nat

VARIABLES
    count,
    pipes,        \* the contents of each pipe made so far; rfd, wfd: the last
    player,       \* the program in audio_write
    callback,     \* SDL's thread in audio_play
    ctrls,        \* calls of AM_AUDIO_CTRL that found SDL's audio; SDL plays after the first
    written,      \* bytes the program has asked to be played
    played,       \* history: the bytes handed to SDL, silence left out
    faults        \* history: the accidents that have happened

audioVars == <<count, pipes, player, callback, ctrls, written, played, faults>>

Byte == 1 .. MaxBytes
Silence == 0

\* The locals of audio_write and of audio_play.
NotWriting == [pc |-> "idle", buf |-> <<>>, nwrite |-> 0, n |-> 0, load |-> 0]
NotReading == [pc |-> "idle", nread |-> 0, b |-> 0, load |-> 0,
               stream |-> [i \in 1 .. StreamLen |-> Silence]]

AudioInitState ==
    /\ count = 0 /\ pipes = <<>> /\ ctrls = 0
    /\ player = NotWriting /\ callback = NotReading
    /\ written = 0 /\ played = <<>> /\ faults = {}

Pipe == pipes[Len(pipes)]
SetPipe(s) == pipes' = [pipes EXCEPT ![Len(pipes)] = s]
Accident(kinds) == faults' = faults \cup kinds
When(kind, cond) == IF cond THEN {kind} ELSE {}

\* __am_audio_init: a new pipe; count is left as it is.
AudioInit ==
    /\ Len(pipes) < MaxPipes
    /\ player.pc = "idle"
    /\ pipes' = Append(pipes, <<>>)
    /\ Accident(When("new pipe", count # 0 \/ callback.pc # "idle"))
    /\ UNCHANGED <<count, player, callback, ctrls, written, played>>

----------------------------------------------------------------------------
\* The program

\* __am_audio_ctrl; SDL_OpenAudio refuses a second time and goes on playing.
\* When SDL_InitSubSystem fails (ret # 0), nothing is played.
Ctrl ==
    /\ pipes # <<>> /\ player.pc = "idle" /\ ctrls < MaxCtrl
    /\ count' = 0
    /\ ctrls' \in {ctrls, ctrls + 1}
    /\ Accident(When("reset", count # 0 \/ callback.pc # "idle"))
    /\ UNCHANGED <<pipes, player, callback, written, played>>

\* __am_audio_play, with the next bytes in its buffer.
Play(len) ==
    /\ pipes # <<>> /\ player.pc = "idle" /\ written + len <= MaxBytes
    /\ player' = [player EXCEPT !.pc = "write", !.nwrite = 0,
                                !.buf = [i \in 1 .. len |-> written + i]]
    /\ written' = written + len
    /\ UNCHANGED <<count, pipes, callback, ctrls, played, faults>>

\* What write to the non-blocking pipe may take of len bytes; 0 is EAGAIN.
Accepted(len) ==
    LET free == PipeSize - Len(Pipe)
    IN  IF len <= free THEN {len}
        ELSE IF len <= PipeBuf \/ free = 0 THEN {0}
        ELSE 1 .. free

\* write(wfd, buf, len): always from the start of the buffer.
Write ==
    /\ player.pc = "write"
    /\ \E n \in Accepted(Len(player.buf)) :
          /\ SetPipe(Pipe \o SubSeq(player.buf, 1, n))
          /\ player' = [player EXCEPT !.pc = "load", !.n = n]
          /\ Accident(When("split", n \notin {0, Len(player.buf)}))
    /\ UNCHANGED <<count, callback, ctrls, written, played>>

\* (Mutated form: count is set to what was written last.)
StoreLast == player.n

Added == player.load + player.n

\* count += n, also of an n that is 0.
AddLoad ==
    /\ player.pc = "load"
    /\ player' = [player EXCEPT !.pc = "store", !.load = count]
    /\ UNCHANGED <<count, pipes, callback, ctrls, written, played, faults>>

AddStore ==
    /\ player.pc = "store"
    /\ count' = Added
    /\ LET nwrite == player.nwrite + player.n
       IN  player' = IF nwrite < Len(player.buf)
                     THEN [player EXCEPT !.nwrite = nwrite, !.pc = "write",
                                         !.n = 0, !.load = 0]
                     ELSE NotWriting
    /\ Accident(When("lost update", count # player.load))
    /\ UNCHANGED <<pipes, callback, ctrls, written, played>>

ProgramStep == Write \/ AddLoad \/ AddStore

----------------------------------------------------------------------------
\* audio_play, called by SDL for StreamLen bytes

\* if (count < len): the first read of count.
CallbackTest ==
    /\ callback.pc = "idle" /\ ctrls > 0
    /\ callback' = IF count < StreamLen
                   THEN [NotReading EXCEPT !.pc = "again"]
                   ELSE [NotReading EXCEPT !.pc = "read", !.nread = StreamLen]
    /\ UNCHANGED <<count, pipes, player, ctrls, written, played, faults>>

\* nread = count: the second.
CallbackAgain ==
    /\ callback.pc = "again"
    /\ callback' = [callback EXCEPT !.pc = "read", !.nread = count]
    /\ Accident(When("grown", count > StreamLen))
    /\ UNCHANGED <<count, pipes, player, ctrls, written, played>>

\* (Mutated form: read is asked for a byte more than count tells of.)
AskedForMore == callback.nread + 1

Asked == callback.nread

\* read(rfd, stream, nread): always to the start of the stream.
CallbackRead ==
    /\ callback.pc = "read" /\ callback.b < callback.nread
    /\ LET n == IF Len(Pipe) < Asked THEN Len(Pipe) ELSE Asked
       IN  /\ SetPipe(SubSeq(Pipe, n + 1, Len(Pipe)))
           /\ callback' = [callback EXCEPT !.b = @ + n,
                !.stream = SubSeq(Pipe, 1, n) \o SubSeq(@, n + 1, StreamLen)]
    /\ UNCHANGED <<count, player, ctrls, written, played, faults>>

\* Behind the loop; count -= nread begins.
SubtractLoad ==
    /\ callback.pc = "read" /\ callback.b >= callback.nread
    /\ callback' = [callback EXCEPT !.pc = "store", !.load = count]
    /\ UNCHANGED <<count, pipes, player, ctrls, written, played, faults>>

SubtractStore ==
    /\ callback.pc = "store"
    /\ count' = callback.load - callback.nread
    /\ callback' = NotReading
    /\ played' = played \o SubSeq(callback.stream, 1, callback.nread)
    /\ Accident(When("lost update", count # callback.load))
    /\ UNCHANGED <<pipes, player, ctrls, written>>

CallbackStep ==
    CallbackTest \/ CallbackAgain \/ CallbackRead \/ SubtractLoad \/ SubtractStore

(***************************************************************************)
(* Nothing is said of what comes after an accident: a count that is wrong  *)
(* lets the callback wait for bytes that do not come, or makes it read     *)
(* more bytes than the stream has room for, or a negative number.          *)
(***************************************************************************)
AudioStep ==
    /\ faults = {}
    /\ \/ Ctrl \/ ProgramStep \/ CallbackStep
       \/ \E len \in Lengths : Play(len)

AudioNext == AudioInit \/ AudioStep

AudioSpec == AudioInitState /\ [][AudioNext]_audioVars

----------------------------------------------------------------------------

Player == [pc : {"idle", "write", "load", "store"}, buf : Seq(Byte),
           nwrite : Nat, n : Nat, load : Int]
Callback == [pc : {"idle", "again", "read", "store"}, nread : Int, b : Nat, load : Int,
             stream : [1 .. StreamLen -> Byte \cup {Silence}]]

AudioTypeOK ==
    /\ count \in Int
    /\ pipes \in Seq(Seq(Byte)) /\ Len(pipes) <= MaxPipes
    /\ player \in Player /\ callback \in Callback
    /\ ctrls \in 0 .. MaxCtrl /\ written \in 0 .. MaxBytes
    /\ played \in Seq(Byte \cup {Silence})
    /\ faults \subseteq {"lost update", "grown", "reset", "split", "new pipe"}

(***************************************************************************)
(* What is played is what was written, in its order and nothing twice, as  *)
(* long as none of the accidents happens.                                  *)
(***************************************************************************)
PlayedInOrder == faults = {} => \A i \in DOMAIN played : played[i] = i

(***************************************************************************)
(* And all of it is played: the program's wait for room in the pipe and    *)
(* the callback's wait for the bytes that count tells of both end.  Before *)
(* the first AM_AUDIO_CTRL that finds SDL's audio nobody empties the pipe. *)
(***************************************************************************)
EverythingIsPlayed ==
    <>[](faults # {} \/ ctrls = 0 \/ (Len(played) = written /\ player = NotWriting))
=============================================================================
