------------------------------ MODULE TsInput ------------------------------
(***************************************************************************)
(* The input of the live transcoder: thread_input of mycode/main.c with    *)
(* decoder_read_ts_packet (mycode/mpi_decoder.c) and ts_packet_init        *)
(* (mycode/ts_packet.c).  Packets of the channel come from the             *)
(* demultiplexer device; video goes to the decoder, audio and tables to    *)
(* the audio ring, the audio from the moment on when one byte of its time  *)
(* stamp exceeds the same byte of the first video time stamp, and with     *)
(* time stamps of the program's own.                                       *)
(*                                                                         *)
(* A packet is what the parser finds in it: where its payload begins,      *)
(* whether its header lengths stay inside it, whether a PES packet begins  *)
(* there and has a time stamp.  Time goes by audio PES packets: every one  *)
(* stands for 23040 ticks, the 0x5A00 of get_audio_pts.                    *)
(*                                                                         *)
(* The pointer "packet" of decoder_read_ts_packet is set by a successful   *)
(* parse only, and freed in any case.  What its stack slot holds otherwise *)
(* is the NULL of the previous call, unless another function has used the  *)
(* stack in between: then it is undefined ("any"), and free may crash.     *)
(*                                                                         *)
(* An operator that a comment calls a mutant is not part of the            *)
(* specification: it is the definition after it with a bug in it, which    *)
(* the property named there must notice.                                   *)
(***************************************************************************)
EXTENDS Integers

CONSTANTS
  Bytes,     \* how many values the compared byte of a PTS takes: 2^7
  PesTicks,  \* pts_offset of get_audio_pts: 23040
  ByteTicks, \* the ticks in one step of the compared byte: 2^15
  Horizon,   \* the number of audio PES packets until the 33-bit clock wraps
  Skews,     \* by how many of them a video PTS is ahead of the audio
  MaxMissed  \* bound: how many packets are lost or have errors

ASSUME BytesAssumption == Bytes \in Nat \ {0, 1}
ASSUME TicksAssumption == PesTicks \in Nat \ {0} /\ ByteTicks \in Nat \ {0}
ASSUME HorizonAssumption == Horizon \in Nat \ {0}
ASSUME SkewsAssumption == Skews \subseteq Nat
ASSUME MissedAssumption == MaxMissed \in Nat

VARIABLES
  alive,        \* the process has not crashed
  at,           \* thread_input is in "read" or retries decoder_put_packet
  slot,         \* the stack slot of packet: "null" or "any"
  isHaveVideo,
  isWriteAudio,
  video_pts,    \* that byte of the first video PTS
  stamps,       \* static pts of get_audio_pts, in steps of pts_offset
  time,         \* the audio PES packets that the channel has sent
  first,        \* history: the first video PTS, until the audio starts
  due,          \* history: the audio PES packets sent since the first one
                \* that was let through, modulo Horizon
  missed,       \* history: those of them that were lost
  losses,       \* history: how many packets of any kind were
  out,          \* history: the packet put into the audio ring last
  before        \* history: the PID of the packet read last

vars == <<alive, at, slot, isHaveVideo, isWriteAudio, video_pts, stamps,
          time, first, due, missed, losses, out, before>>
audioVars == <<isWriteAudio, stamps, first>>
videoVars == <<isHaveVideo, video_pts>>

\* What the demultiplexer may deliver: an offset of the payload of 4 is no
\* adaptation field, 5 an empty one and 12 one with a PCR.
Packets ==
  {t \in [pid : {"video", "audio", "tables", "other"}, error : BOOLEAN,
          fits : BOOLEAN, offset : {4, 5, 12}, pes : BOOLEAN, pts : BOOLEAN] :
     t.pts => t.pes}

None == [pid |-> "none", pes |-> FALSE]

\* The compared byte at time t: bits 15 to 21 of the PTS.
Steps(t) == (t * PesTicks) \div ByteTicks
PtsByte(t) == Steps(t) % Bytes

\* The stack of thread_input is in an unknown state at its start.
Init ==
  /\ alive = TRUE
  /\ at = "read"
  /\ slot = "any"
  /\ isHaveVideo = FALSE /\ isWriteAudio = FALSE
  /\ video_pts = 0 /\ stamps = 0
  /\ time = 0 /\ first = 0 /\ due = 0 /\ missed = 0 /\ losses = 0
  /\ out = None /\ before = "none"

IsAudioPes(t) == t.pid = "audio" /\ t.pes

\* Mutant (TypeOK): the clock does not wrap.
TickOn(t) == time' = IF IsAudioPes(t) THEN time + 1 ELSE time

\* An audio PES packet moves the time on.
Tick(t) == time' = IF IsAudioPes(t) THEN (time + 1) % Horizon ELSE time

\* Packet t does not get through.
Loses(t) ==
  /\ losses < MaxMissed
  /\ losses' = losses + 1
  /\ missed' = IF IsAudioPes(t) /\ isWriteAudio THEN missed + 1 ELSE missed
-----------------------------------------------------------------------------
(***************************************************************************)
(* decoder_read_ts_packet reads t.                                         *)
(***************************************************************************)

Read(t) ==
  /\ alive
  /\ at = "read"
  /\ Tick(t)
  /\ before' = t.pid

\* The reception fails, or the driver's buffer overflows while the program is
\* busy or waits for its client: read() returns -1 and t is gone.  A read that
\* returns less than a packet, which the code logs and parses all the same, is
\* left out: the device gives whole packets to a read that blocks.
ReadFails(t) ==
  /\ alive
  /\ at = "read"
  /\ Tick(t)
  /\ Loses(t)
  /\ UNCHANGED <<alive, at, slot, videoVars, audioVars, out, before>>

\* transport_error_indicator: the parser returns -1, and packet is freed as it
\* is and set to NULL.
ReadError(t) ==
  /\ Read(t)
  /\ t.error
  /\ Loses(t)
  /\ slot' = "null"
  /\ alive' \in {TRUE, slot = "null"}
  /\ UNCHANGED <<at, videoVars, audioVars, out>>

\* The lengths in the headers lead out of the packet: payload.size is negative
\* and unsigned, and the copy runs until the process crashes.
ReadOverlong(t) ==
  /\ Read(t)
  /\ ~t.error /\ ~t.fits
  /\ alive' = FALSE
  /\ UNCHANGED <<at, slot, videoVars, audioVars, missed, losses, out>>

\* Mutant (CrashHasCause): packet is not set to NULL behind free().
ParsedDangling(t) ==
  /\ Read(t)
  /\ ~t.error /\ t.fits
  /\ slot' = "any"
  /\ UNCHANGED <<alive, missed, losses>>

\* The parser is content, and the packet is dealt with by its PID.
Parsed(t) ==
  /\ Read(t)
  /\ ~t.error /\ t.fits
  /\ slot' = "null"
  /\ UNCHANGED <<alive, missed, losses>>

\* pid: the byte of the first PTS is kept, and the payload goes to the decoder.
ReadVideo(t) ==
  /\ t.pid = "video"
  /\ Parsed(t)
  /\ at' = "put"
  /\ IF t.pts /\ ~isHaveVideo
       THEN /\ isHaveVideo' = TRUE
            /\ first' \in {(time + d) % Horizon : d \in Skews}
            /\ video_pts' = PtsByte(first')
       ELSE UNCHANGED <<videoVars, first>>
  /\ UNCHANGED <<isWriteAudio, stamps, out>>

\* What the client finds in an audio packet whose bytes 8, 9 (the length) and
\* 13 to 17 were rewritten as if its PES header began at byte 4.
Stamp == 13..17
Rewritten == {8, 9} \cup Stamp
LengthField(t) == {t.offset + 4, t.offset + 5}
PtsField(t) == IF t.pts THEN t.offset+9..t.offset+13 ELSE {}

Put(t) ==
  out' = [pid    |-> t.pid,
          pes    |-> t.pes,
          plain  |-> t.pes => t.pts /\ t.offset = 4,
          own    |-> IsAudioPes(t) /\ PtsField(t) = Stamp,
          intact |-> IsAudioPes(t) =>
                       Rewritten \subseteq LengthField(t) \cup PtsField(t)]

\* get_audio_pts for a packet that begins a PES packet; gn_tcp_audio_put.
Forward(t) ==
  /\ stamps' = IF t.pes THEN (stamps + 1) % Horizon ELSE stamps
  /\ Put(t)

\* Mutant (StartsInStep): audio of the same time is let through.
LaterOrEqual(t) == t.pts /\ PtsByte(time') >= video_pts

\* Mutant (AudioComes): with a step to spare.
LaterByTwo(t) == t.pts /\ PtsByte(time') > video_pts + 1

\* audio_pts > video_pts
Later(t) == t.pts /\ PtsByte(time') > video_pts

\* Mutant (Stamped): the time stamps count from the second PES packet on.
AudioStartsUnstamped(t) ==
  /\ isHaveVideo /\ ~isWriteAudio
  /\ Later(t)
  /\ isWriteAudio' = TRUE
  /\ first' = 0
  /\ Put(t)
  /\ UNCHANGED stamps

\* pid + 1: the audio starts with the first PES packet that is later,
AudioStarts(t) ==
  /\ isHaveVideo /\ ~isWriteAudio
  /\ Later(t)
  /\ isWriteAudio' = TRUE
  /\ first' = 0
  /\ Forward(t)

\* goes on from then on,
AudioGoesOn(t) ==
  /\ isHaveVideo /\ isWriteAudio
  /\ Forward(t)
  /\ UNCHANGED <<isWriteAudio, first>>

\* and is dropped before.
AudioDropped(t) ==
  /\ ~isWriteAudio /\ (isHaveVideo => ~Later(t))
  /\ UNCHANGED <<audioVars, out>>

ReadAudio(t) ==
  /\ t.pid = "audio"
  /\ Parsed(t)
  /\ AudioStarts(t) \/ AudioGoesOn(t) \/ AudioDropped(t)
  /\ UNCHANGED <<at, videoVars>>

\* pid - 1 and 0 go to the audio ring as they are, other packets nowhere.
ReadRest(t) ==
  /\ t.pid \in {"tables", "other"}
  /\ Parsed(t)
  /\ IF t.pid = "tables" THEN Put(t) ELSE UNCHANGED out
  /\ UNCHANGED <<at, videoVars, audioVars>>

decoder_read_ts_packet(t) ==
  /\ \/ ReadFails(t) \/ ReadError(t) \/ ReadOverlong(t)
     \/ ReadVideo(t) \/ ReadAudio(t) \/ ReadRest(t)
  /\ due' = IF IsAudioPes(t) /\ isWriteAudio' THEN (due + 1) % Horizon ELSE due

\* decoder_put_packet, until the decoder takes the packet; the codec library
\* uses the stack below thread_input.
decoder_put_packet ==
  /\ alive
  /\ at = "put"
  /\ slot' = "any"
  /\ at' \in {"put", "read"}
  /\ UNCHANGED <<alive, videoVars, audioVars, time, due, missed, losses, out, before>>

Crashed == ~alive /\ UNCHANGED vars

Next ==
  \/ \E t \in Packets : decoder_read_ts_packet(t)
  \/ decoder_put_packet
  \/ Crashed

Spec == Init /\ [][Next]_vars

\* The decoder takes a packet in the end, and the channel keeps sending audio
\* with time stamps: at every time of the clock some of it gets through without
\* errors, if not in this lap of the clock, then in a later one.
SoundAudio == {t \in Packets : t.pid = "audio" /\ ~t.error /\ t.fits /\ t.pts}

FairSpec ==
  /\ Spec
  /\ SF_vars(decoder_put_packet /\ at' = "read")
  /\ \A k \in 0..Horizon-1 :
       SF_vars(time = k /\ \E t \in SoundAudio : decoder_read_ts_packet(t))
-----------------------------------------------------------------------------
(***************************************************************************)
(* Properties.                                                             *)
(***************************************************************************)
TypeOK ==
  /\ alive \in BOOLEAN
  /\ at \in {"read", "put"}
  /\ slot \in {"null", "any"}
  /\ isHaveVideo \in BOOLEAN /\ isWriteAudio \in BOOLEAN
  /\ video_pts \in 0..Bytes-1
  /\ stamps \in 0..Horizon-1 /\ time \in 0..Horizon-1
  /\ first \in 0..Horizon-1 /\ due \in 0..Horizon-1
  /\ missed \in 0..losses /\ losses \in 0..MaxMissed

\* Only a packet with the error bit crashes the program through the stale
\* pointer, and only as the first packet or right behind one of the video;
\* nothing else does but lengths that lead out of the packet
\* (mpi_decoder.c:262-263, 290-292, 359-360; ts_packet.c:41, 110-121).
CrashHasCause ==
  [][alive /\ ~alive' => before \in {"none", "video"}
                          \/ \E t \in Packets : ReadOverlong(t)]_vars

Lap(t) == Steps(t) \div Bytes

\* The audio starts later than the first video picture, unless the compared
\* byte has wrapped in between (mpi_decoder.c:275-277, 315-319).
InStep ==
  [][~isWriteAudio /\ isWriteAudio' =>
       time' > first \/ Lap(time') # Lap(first)]_vars

\* If the first video picture has the highest value of that byte, the program
\* never sends any audio.
NeverStarts == video_pts = Bytes - 1 => ~isWriteAudio

\* What the comparison of one byte that wraps makes of the start of the audio.
StartsInStep == InStep /\ []NeverStarts

\* Otherwise it does, however long it takes, as the byte wraps.
AudioComes ==
  isHaveVideo /\ video_pts < Bytes - 1 ~> isWriteAudio \/ ~alive

\* The program's time stamps keep step with the channel's but for the audio PES
\* packets that were lost: each of them makes the audio late by its length, for
\* ever (mpi_decoder.c:5-19, 301-305, 322-326).
InSync == alive => (stamps + missed) % Horizon = due

\* Every audio PES packet sent has a time stamp of the program's own, and no
\* other byte of it is changed, unless it has an adaptation field in front of it
\* or no time stamp to change (mpi_decoder.c:301-305).
Restamped ==
  out.pid = "audio" /\ out.plain => out.intact /\ (out.pes => out.own)

\* The audio that is sent has time stamps of the program's own, and these keep
\* step with the channel's.
Stamped == InSync /\ Restamped
=============================================================================
