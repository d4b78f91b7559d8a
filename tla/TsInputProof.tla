---------------------------- MODULE TsInputProof ----------------------------
(***************************************************************************)
(* Theorems about TsInput, for a clock and a compared byte of any size and *)
(* packets in any order.  The time stamps keep step because one and the    *)
(* same packet moves both clocks on or is counted as missed (InSync); the  *)
(* audio starts where it does because the byte compared is that of the     *)
(* first video time stamp until then (Remembers); the stale pointer is one *)
(* only right behind a packet of the video (Dangles).                      *)
(***************************************************************************)
EXTENDS TsInput, TLAPS

\* Nothing is counted before the audio starts, and it does not start before
\* there is video.
Counting ==
  /\ isWriteAudio => isHaveVideo
  /\ ~isWriteAudio => stamps = 0 /\ missed = 0 /\ due = 0

\* What the audio waits for.
Remembers == isHaveVideo /\ ~isWriteAudio => video_pts = PtsByte(first)

\* Where the pointer may be stale.
Dangles ==
  alive =>
    /\ slot = "any" => before \in {"none", "video"}
    /\ at = "put" => before = "video"

IInv ==
  TypeOK /\ Counting /\ Remembers /\ Dangles /\ InSync /\ Restamped /\ NeverStarts
-----------------------------------------------------------------------------
(***************************************************************************)
(* The arithmetic of the two clocks.                                       *)
(***************************************************************************)

LEMMA Remainder ==
  ASSUME NEW n \in Nat \ {0}, NEW x \in Nat
  PROVE  /\ x \div n \in Nat /\ x % n \in 0..n-1
         /\ x = (n * (x \div n)) + (x % n)
  OBVIOUS

\* Whoever is reduced twice is as good as reduced once.
LEMMA ReducedTwice ==
  ASSUME NEW n \in Nat \ {0}, NEW a \in Nat, NEW b \in Nat
  PROVE  ((a % n) + b) % n = (a + b) % n
<1>1. \A x \in Nat : \E q \in Nat, r \in 0..n-1 : x = (n * q) + r /\ x % n = r
  <2> SUFFICES ASSUME NEW x \in Nat
               PROVE  \E q \in Nat, r \in 0..n-1 : x = (n * q) + r /\ x % n = r
    OBVIOUS
  <2>1. /\ x \div n \in Nat /\ x % n \in 0..n-1
        /\ x = (n * (x \div n)) + (x % n)
    BY Remainder
  <2> QED
    BY <2>1, Zenon
<1>2. PICK q \in Nat, r \in 0..n-1 : a = (n * q) + r /\ a % n = r
  BY <1>1
<1>3. PICK u \in Nat, v \in 0..n-1 : r + b = (n * u) + v /\ (r + b) % n = v
  <2>1. r + b \in Nat
    OBVIOUS
  <2> QED
    BY <1>1, <2>1
<1>4. PICK w \in Nat, z \in 0..n-1 : a + b = (n * w) + z /\ (a + b) % n = z
  <2>1. a + b \in Nat
    OBVIOUS
  <2> QED
    BY <1>1, <2>1
<1>5. n * ((q + u) - w) = z - v
  BY <1>2, <1>3, <1>4
<1>6. (q + u) - w = 0
  <2>1. -n < n * ((q + u) - w) /\ n * ((q + u) - w) < n
    BY <1>5
  <2>2. \A k \in Int : k >= 1 => n * k >= n
    OBVIOUS
  <2>3. \A k \in Int : k <= -1 => n * k <= -n
    OBVIOUS
  <2> QED
    BY <2>1, <2>2, <2>3
<1> QED
  BY <1>2, <1>3, <1>4, <1>5, <1>6

LEMMA StepsIsNat ==
  ASSUME NEW k \in Nat
  PROVE  Steps(k) \in Nat
<1>1. k * PesTicks \in Nat /\ ByteTicks \in Nat \ {0}
  BY TicksAssumption
<1> QED
  BY <1>1, Remainder DEF Steps

LEMMA PtsByteInRange ==
  ASSUME NEW k \in Nat
  PROVE  PtsByte(k) \in 0..Bytes-1
<1>1. Bytes \in Nat \ {0}
  BY BytesAssumption
<1> QED
  BY <1>1, StepsIsNat, Remainder DEF PtsByte

\* The clock of the audio stays on its dial.
LEMMA OnTheDial ==
  ASSUME NEW k \in Nat
  PROVE  k % Horizon \in 0..Horizon-1
  BY HorizonAssumption, Remainder
-----------------------------------------------------------------------------
(***************************************************************************)
(* Every step keeps the invariant.                                         *)
(***************************************************************************)

\* The channel's clock as the client should see it.
Goes(t) ==
  due' = IF IsAudioPes(t) /\ isWriteAudio' THEN (due + 1) % Horizon ELSE due

LEMMA PacketTypes ==
  ASSUME NEW t \in Packets
  PROVE  /\ t.pid \in {"video", "audio", "tables", "other"}
         /\ t.offset \in {4, 5, 12} /\ t.pes \in BOOLEAN /\ t.pts \in BOOLEAN
         /\ t.pts => t.pes
  BY DEF Packets

LEMMA TickOnDial ==
  ASSUME TypeOK, NEW t \in Packets, Tick(t)
  PROVE  time' \in 0..Horizon-1
<1>1. time \in Nat /\ time + 1 \in Nat /\ (time + 1) % Horizon \in 0..Horizon-1
  BY OnTheDial, HorizonAssumption DEF TypeOK
<1> QED
  BY <1>1 DEF Tick, TypeOK

LEMMA DueOnDial ==
  ASSUME TypeOK, NEW t \in Packets, Goes(t)
  PROVE  due' \in 0..Horizon-1
<1>1. due + 1 \in Nat /\ (due + 1) % Horizon \in 0..Horizon-1
  BY OnTheDial, HorizonAssumption DEF TypeOK
<1> QED
  BY <1>1 DEF Goes, TypeOK

\* A packet that is lost is counted as missed where it would have been sent.
LEMMA LostIsMissed ==
  ASSUME TypeOK, Counting, NEW t \in Packets, Loses(t), Goes(t),
         isWriteAudio' = isWriteAudio, stamps' = stamps
  PROVE  /\ missed' \in 0..losses' /\ losses' \in 0..MaxMissed
         /\ ~isWriteAudio => missed' = 0 /\ due' = 0
         /\ (stamps + missed) % Horizon = due => (stamps' + missed') % Horizon = due'
<1>1. /\ losses \in 0..MaxMissed /\ missed \in 0..losses
      /\ losses < MaxMissed /\ losses' = losses + 1
      /\ missed' = IF IsAudioPes(t) /\ isWriteAudio THEN missed + 1 ELSE missed
      /\ due' = IF IsAudioPes(t) /\ isWriteAudio THEN (due + 1) % Horizon ELSE due
      /\ stamps \in Nat /\ missed \in Nat /\ Horizon \in Nat \ {0} /\ MaxMissed \in Nat
  BY HorizonAssumption, MissedAssumption DEF TypeOK, Loses, Goes
<1>2. missed' \in 0..losses' /\ losses' \in 0..MaxMissed
  BY <1>1
<1>3. ~isWriteAudio => missed' = 0 /\ due' = 0
  BY <1>1 DEF Counting
<1>4. ASSUME (stamps + missed) % Horizon = due
      PROVE  (stamps' + missed') % Horizon = due'
  <2>1. CASE IsAudioPes(t) /\ isWriteAudio
    <3>1. (((stamps + missed) % Horizon) + 1) % Horizon = (stamps + missed + 1) % Horizon
      BY <1>1, ReducedTwice
    <3>2. missed' = missed + 1 /\ due' = (due + 1) % Horizon
      BY <1>1, <2>1
    <3>3. stamps' + missed' = stamps + missed + 1
      BY <1>1, <3>2
    <3> QED
      BY <1>4, <3>1, <3>2, <3>3
  <2>2. CASE ~(IsAudioPes(t) /\ isWriteAudio)
    BY <1>1, <1>4, <2>2
  <2> QED
    BY <2>1, <2>2
<1> QED
  BY <1>2, <1>3, <1>4

\* read() fails,
LEMMA FailsKeeps ==
  \A t \in Packets : IInv /\ ReadFails(t) /\ Goes(t) => IInv'
<1> SUFFICES ASSUME NEW t \in Packets, IInv, ReadFails(t), Goes(t) PROVE IInv'
  OBVIOUS
<1>1. /\ TypeOK /\ Counting /\ Remembers /\ Dangles /\ InSync /\ Restamped /\ NeverStarts
      /\ Tick(t) /\ Loses(t)
      /\ UNCHANGED <<alive, at, slot, isHaveVideo, video_pts, isWriteAudio, stamps,
                     first, out, before>>
  BY DEF IInv, ReadFails, videoVars, audioVars
<1>2. /\ missed' \in 0..losses' /\ losses' \in 0..MaxMissed
      /\ ~isWriteAudio => missed' = 0 /\ due' = 0
      /\ (stamps + missed) % Horizon = due => (stamps' + missed') % Horizon = due'
  BY <1>1, LostIsMissed
<1>3. TypeOK'
  BY <1>1, <1>2, TickOnDial, DueOnDial DEF TypeOK
<1>4. Counting'
  BY <1>1, <1>2 DEF Counting
<1>5. InSync'
  BY <1>1, <1>2 DEF InSync
<1>6. Remembers' /\ Dangles' /\ Restamped' /\ NeverStarts'
  BY <1>1 DEF Remembers, Dangles, Restamped, NeverStarts
<1> QED
  BY <1>3, <1>4, <1>5, <1>6 DEF IInv

\* the packet has the error bit,
LEMMA ErrorKeeps ==
  \A t \in Packets : IInv /\ ReadError(t) /\ Goes(t) => IInv'
<1> SUFFICES ASSUME NEW t \in Packets, IInv, ReadError(t), Goes(t) PROVE IInv'
  OBVIOUS
<1>1. /\ TypeOK /\ Counting /\ Remembers /\ InSync /\ Restamped /\ NeverStarts
      /\ Tick(t) /\ Loses(t) /\ alive /\ at = "read"
      /\ slot' = "null" /\ alive' \in {TRUE, slot = "null"} /\ before' = t.pid
      /\ UNCHANGED <<at, isHaveVideo, video_pts, isWriteAudio, stamps, first, out>>
  BY DEF IInv, ReadError, Read, videoVars, audioVars
<1>2. /\ missed' \in 0..losses' /\ losses' \in 0..MaxMissed
      /\ ~isWriteAudio => missed' = 0 /\ due' = 0
      /\ (stamps + missed) % Horizon = due => (stamps' + missed') % Horizon = due'
  BY <1>1, LostIsMissed
<1>3. TypeOK'
  BY <1>1, <1>2, TickOnDial, DueOnDial DEF TypeOK
<1>4. Counting'
  BY <1>1, <1>2 DEF Counting
<1>5. InSync'
  BY <1>1, <1>2 DEF InSync
<1>6. Remembers' /\ Dangles' /\ Restamped' /\ NeverStarts'
  BY <1>1 DEF Remembers, Dangles, Restamped, NeverStarts
<1> QED
  BY <1>3, <1>4, <1>5, <1>6 DEF IInv

\* or lengths that lead out of it.
LEMMA OverlongKeeps ==
  \A t \in Packets : IInv /\ ReadOverlong(t) /\ Goes(t) => IInv'
<1> SUFFICES ASSUME NEW t \in Packets, IInv, ReadOverlong(t), Goes(t) PROVE IInv'
  OBVIOUS
<1>1. /\ TypeOK /\ Counting /\ Remembers /\ Restamped /\ NeverStarts
      /\ Tick(t) /\ alive' = FALSE
      /\ UNCHANGED <<at, slot, isHaveVideo, video_pts, isWriteAudio, stamps, first,
                     missed, losses, out>>
  BY DEF IInv, ReadOverlong, Read, videoVars, audioVars
<1>2. TypeOK'
  BY <1>1, TickOnDial, DueOnDial DEF TypeOK
<1>3. Counting'
  BY <1>1 DEF Counting, Goes
<1>4. Remembers' /\ Dangles' /\ InSync' /\ Restamped' /\ NeverStarts'
  BY <1>1 DEF Remembers, Dangles, InSync, Restamped, NeverStarts
<1> QED
  BY <1>2, <1>3, <1>4 DEF IInv
\* A packet of the video: its first time stamp is what the audio waits for.
LEMMA VideoKeeps ==
  \A t \in Packets : IInv /\ ReadVideo(t) /\ Goes(t) => IInv'
<1> SUFFICES ASSUME NEW t \in Packets, IInv, ReadVideo(t), Goes(t) PROVE IInv'
  OBVIOUS
<1>1. /\ TypeOK /\ Counting /\ Remembers /\ Dangles /\ InSync /\ Restamped /\ NeverStarts
      /\ t.pid = "video" /\ ~IsAudioPes(t)
      /\ alive /\ at = "read" /\ Tick(t) /\ before' = "video"
      /\ slot' = "null" /\ at' = "put"
      /\ UNCHANGED <<alive, missed, losses, isWriteAudio, stamps, out>>
  BY DEF IInv, ReadVideo, Parsed, Read, IsAudioPes
<1>2. time' = time /\ due' = due
  BY <1>1 DEF Tick, Goes
<1>3. CASE t.pts /\ ~isHaveVideo
  <2>1. PICK d \in Skews : first' = (time + d) % Horizon
    BY <1>3 DEF ReadVideo
  <2>2. first' \in 0..Horizon-1 /\ first' \in Nat
    <3>1. time + d \in Nat
      BY <1>1, SkewsAssumption, HorizonAssumption DEF TypeOK
    <3> QED
      BY <2>1, <3>1, OnTheDial, HorizonAssumption
  <2>3. isHaveVideo' = TRUE /\ video_pts' = PtsByte(first')
    BY <1>3 DEF ReadVideo
  <2>4. video_pts' \in 0..Bytes-1
    BY <2>2, <2>3, PtsByteInRange
  <2>5. ~isWriteAudio
    BY <1>1, <1>3 DEF Counting
  <2>6. TypeOK'
    BY <1>1, <1>2, <2>2, <2>3, <2>4 DEF TypeOK
  <2>7. Counting' /\ Remembers' /\ NeverStarts'
    BY <1>1, <1>2, <2>3, <2>5 DEF Counting, Remembers, NeverStarts
  <2>8. Dangles' /\ InSync' /\ Restamped'
    BY <1>1, <1>2 DEF Dangles, InSync, Restamped
  <2> QED
    BY <2>6, <2>7, <2>8 DEF IInv
<1>4. CASE ~(t.pts /\ ~isHaveVideo)
  <2>1. UNCHANGED <<isHaveVideo, video_pts, first>>
    BY <1>4 DEF ReadVideo, videoVars
  <2>2. TypeOK'
    BY <1>1, <1>2, <2>1 DEF TypeOK
  <2>3. Counting' /\ Remembers' /\ NeverStarts'
    BY <1>1, <1>2, <2>1 DEF Counting, Remembers, NeverStarts
  <2>4. Dangles' /\ InSync' /\ Restamped'
    BY <1>1, <1>2 DEF Dangles, InSync, Restamped
  <2> QED
    BY <2>2, <2>3, <2>4 DEF IInv
<1> QED
  BY <1>3, <1>4

\* Without an adaptation field the bytes rewritten are those of the length and
\* of the time stamp.
LEMMA PutRestamps ==
  \A t \in Packets : Put(t) => Restamped'
<1> SUFFICES ASSUME NEW t \in Packets, Put(t), (out.pid = "audio" /\ out.plain)'
             PROVE  (out.intact /\ (out.pes => out.own))'
  BY DEF Restamped
<1>1. /\ out'.pid = t.pid /\ out'.pes = t.pes
      /\ out'.plain = (t.pes => t.pts /\ t.offset = 4)
      /\ out'.own = (IsAudioPes(t) /\ PtsField(t) = Stamp)
      /\ out'.intact = (IsAudioPes(t) => Rewritten \subseteq LengthField(t) \cup PtsField(t))
  BY DEF Put
<1>2. t.pid = "audio" /\ t.pes \in BOOLEAN
  BY <1>1, PacketTypes
<1>3. CASE t.pes
  <2>1. t.pts /\ t.offset = 4 /\ IsAudioPes(t)
    BY <1>1, <1>2, <1>3 DEF IsAudioPes
  <2>2. PtsField(t) = Stamp /\ LengthField(t) = {8, 9}
    BY <2>1 DEF PtsField, Stamp, LengthField
  <2> QED
    BY <1>1, <2>1, <2>2 DEF Rewritten
<1>4. CASE ~t.pes
  BY <1>1, <1>4 DEF IsAudioPes
<1> QED
  BY <1>3, <1>4

\* A packet of the audio: the first one whose byte is later starts it, never
\* above the highest value; one and the same packet moves both clocks on.
LEMMA AudioKeeps ==
  \A t \in Packets : IInv /\ ReadAudio(t) /\ Goes(t) => IInv'
<1> SUFFICES ASSUME NEW t \in Packets, IInv, ReadAudio(t), Goes(t) PROVE IInv'
  OBVIOUS
<1>1. /\ TypeOK /\ Counting /\ Remembers /\ Dangles /\ InSync /\ Restamped /\ NeverStarts
      /\ t.pid = "audio" /\ (IsAudioPes(t) <=> t.pes) /\ t.pes \in BOOLEAN
      /\ alive /\ at = "read" /\ Tick(t) /\ before' = "audio" /\ slot' = "null"
      /\ UNCHANGED <<alive, at, missed, losses, isHaveVideo, video_pts>>
  BY PacketTypes DEF IInv, ReadAudio, Parsed, Read, IsAudioPes, videoVars
<1>2. /\ stamps \in Nat /\ missed \in Nat /\ Horizon \in Nat \ {0}
      /\ time' \in 0..Horizon-1 /\ time' \in Nat /\ due' \in 0..Horizon-1
  BY <1>1, TickOnDial, DueOnDial, HorizonAssumption, MissedAssumption DEF TypeOK
<1>3. Dangles'
  BY <1>1 DEF Dangles
<1>4. CASE AudioStarts(t)
  <2>1. /\ isHaveVideo /\ ~isWriteAudio /\ isWriteAudio' = TRUE /\ first' = 0
        /\ t.pts /\ PtsByte(time') > video_pts
        /\ t.pes /\ stamps' = (stamps + 1) % Horizon /\ Put(t)
    BY <1>4, PacketTypes DEF AudioStarts, Forward, Later
  <2>2. due' = (due + 1) % Horizon /\ due = 0 /\ stamps = 0 /\ missed = 0
    BY <1>1, <2>1 DEF Goes, Counting
  <2>3. stamps' = 1 % Horizon /\ due' = 1 % Horizon /\ stamps' \in 0..Horizon-1
    BY <2>1, <2>2, OnTheDial
  <2>4. TypeOK'
    BY <1>1, <1>2, <2>1, <2>3 DEF TypeOK
  <2>5. Counting' /\ Remembers'
    BY <1>1, <2>1 DEF Counting, Remembers
  <2>6. NeverStarts'
    <3>1. PtsByte(time') \in 0..Bytes-1 /\ Bytes \in Nat /\ video_pts \in Nat
      BY <1>1, <1>2, PtsByteInRange, BytesAssumption DEF TypeOK
    <3>2. video_pts' # Bytes - 1
      BY <1>1, <2>1, <3>1
    <3> QED
      BY <3>2 DEF NeverStarts
  <2>7. InSync'
    <3>1. (((0 + 1) % Horizon) + 0) % Horizon = (0 + 1) % Horizon
      BY <1>2, ReducedTwice
    <3>2. missed' = 0 /\ stamps' + missed' = (1 % Horizon) + 0
      BY <1>1, <2>2, <2>3
    <3> QED
      BY <2>3, <3>1, <3>2 DEF InSync
  <2>8. Restamped'
    BY <2>1, PutRestamps
  <2> QED
    BY <1>3, <2>4, <2>5, <2>6, <2>7, <2>8 DEF IInv
<1>5. CASE AudioGoesOn(t)
  <2>1. /\ isHaveVideo /\ isWriteAudio /\ UNCHANGED <<isWriteAudio, first>>
        /\ stamps' = (IF t.pes THEN (stamps + 1) % Horizon ELSE stamps) /\ Put(t)
        /\ due' = IF t.pes THEN (due + 1) % Horizon ELSE due
    BY <1>1, <1>5 DEF AudioGoesOn, Forward, Goes
  <2>2. stamps' \in 0..Horizon-1
    <3>1. stamps + 1 \in Nat /\ (stamps + 1) % Horizon \in 0..Horizon-1
      BY <1>2, OnTheDial
    <3> QED
      BY <1>1, <2>1, <3>1 DEF TypeOK
  <2>3. TypeOK'
    BY <1>1, <1>2, <2>1, <2>2 DEF TypeOK
  <2>4. Counting' /\ Remembers' /\ NeverStarts'
    BY <1>1, <2>1 DEF Counting, Remembers, NeverStarts
  <2>5. InSync'
    <3>1. (stamps + missed) % Horizon = due /\ missed' = missed
      BY <1>1 DEF InSync
    <3>2. CASE t.pes
      <4>0. stamps + missed \in Nat /\ stamps + 1 \in Nat
        BY <1>2
      <4>1. (((stamps + missed) % Horizon) + 1) % Horizon = (stamps + missed + 1) % Horizon
        BY <1>2, <4>0, ReducedTwice, Zenon
      <4>2. (((stamps + 1) % Horizon) + missed) % Horizon = (stamps + 1 + missed) % Horizon
        BY <1>2, <4>0, ReducedTwice, Zenon
      <4>3. stamps + missed + 1 = stamps + 1 + missed
        BY <1>2
      <4>4. stamps' = (stamps + 1) % Horizon /\ due' = (due + 1) % Horizon
        BY <2>1, <3>2
      <4> QED
        BY <3>1, <4>1, <4>2, <4>3, <4>4 DEF InSync
    <3>3. CASE ~t.pes
      BY <2>1, <3>1, <3>3 DEF InSync
    <3> QED
      BY <3>2, <3>3
  <2>6. Restamped'
    BY <2>1, PutRestamps
  <2> QED
    BY <1>3, <2>3, <2>4, <2>5, <2>6 DEF IInv
<1>6. CASE AudioDropped(t)
  <2>1. ~isWriteAudio /\ UNCHANGED <<isWriteAudio, stamps, first, out>> /\ due' = due
    BY <1>1, <1>6 DEF AudioDropped, audioVars, Goes, TypeOK
  <2>2. TypeOK'
    BY <1>1, <1>2, <2>1 DEF TypeOK
  <2>3. Counting' /\ Remembers' /\ NeverStarts' /\ InSync' /\ Restamped'
    BY <1>1, <2>1 DEF Counting, Remembers, NeverStarts, InSync, Restamped
  <2> QED
    BY <1>3, <2>2, <2>3 DEF IInv
<1> QED
  BY <1>4, <1>5, <1>6 DEF ReadAudio

\* A packet of the tables, or of no interest.
LEMMA RestKeeps ==
  \A t \in Packets : IInv /\ ReadRest(t) /\ Goes(t) => IInv'
<1> SUFFICES ASSUME NEW t \in Packets, IInv, ReadRest(t), Goes(t) PROVE IInv'
  OBVIOUS
<1>1. /\ TypeOK /\ Counting /\ Remembers /\ Dangles /\ InSync /\ Restamped /\ NeverStarts
      /\ ~IsAudioPes(t) /\ alive /\ at = "read" /\ Tick(t) /\ slot' = "null"
      /\ UNCHANGED <<alive, at, missed, losses, isHaveVideo, video_pts, isWriteAudio,
                     stamps, first>>
      /\ Put(t) \/ out' = out
  BY DEF IInv, ReadRest, Parsed, Read, IsAudioPes, videoVars, audioVars
<1>2. time' = time /\ due' = due
  BY <1>1 DEF Tick, Goes
<1>3. TypeOK' /\ Counting' /\ Remembers' /\ Dangles' /\ InSync' /\ NeverStarts'
  BY <1>1, <1>2 DEF TypeOK, Counting, Remembers, Dangles, InSync, NeverStarts
<1>4. Restamped'
  <2>1. CASE Put(t)
    BY <2>1, PutRestamps
  <2>2. CASE out' = out
    BY <1>1, <2>2 DEF Restamped
  <2> QED
    BY <1>1, <2>1, <2>2
<1> QED
  BY <1>3, <1>4 DEF IInv

\* The decoder takes the packet, or not yet.
LEMMA DecoderKeeps == IInv /\ decoder_put_packet => IInv'
<1> SUFFICES ASSUME IInv, decoder_put_packet PROVE IInv'
  OBVIOUS
<1>1. /\ TypeOK /\ Counting /\ Remembers /\ Dangles /\ InSync /\ Restamped /\ NeverStarts
      /\ alive /\ at = "put" /\ slot' = "any" /\ at' \in {"put", "read"}
      /\ UNCHANGED <<alive, isHaveVideo, video_pts, isWriteAudio, stamps, first, time,
                     due, missed, losses, out, before>>
  BY DEF IInv, decoder_put_packet, videoVars, audioVars
<1>2. TypeOK' /\ Counting' /\ Remembers' /\ Dangles'
  BY <1>1 DEF TypeOK, Counting, Remembers, Dangles
<1>3. InSync' /\ Restamped' /\ NeverStarts'
  BY <1>1 DEF InSync, Restamped, NeverStarts
<1> QED
  BY <1>2, <1>3 DEF IInv

\* The invariant of the input.
THEOREM Inductive == Spec => []IInv
<1>1. Init => IInv
  <2> SUFFICES ASSUME Init PROVE IInv
    OBVIOUS
  <2>1. /\ alive = TRUE /\ at = "read" /\ slot = "any" /\ before = "none"
        /\ isHaveVideo = FALSE /\ isWriteAudio = FALSE /\ video_pts = 0 /\ stamps = 0
        /\ time = 0 /\ first = 0 /\ due = 0 /\ missed = 0 /\ losses = 0
        /\ out.pid = "none"
    BY DEF Init, None
  <2>2. Bytes \in Nat \ {0, 1} /\ Horizon \in Nat \ {0} /\ MaxMissed \in Nat
    BY BytesAssumption, HorizonAssumption, MissedAssumption
  <2>3. 0 % Horizon = 0
    BY <2>2, OnTheDial, Remainder
  <2>4. TypeOK /\ NeverStarts
    <3>1. 0 \in 0..Bytes-1 /\ 0 \in 0..Horizon-1 /\ 0 \in 0..0 /\ 0 \in 0..MaxMissed
      BY <2>2
    <3> QED
      BY <2>1, <3>1 DEF TypeOK, NeverStarts
  <2>5. Counting /\ Remembers /\ Dangles /\ Restamped
    BY <2>1 DEF Counting, Remembers, Dangles, Restamped
  <2>6. InSync
    BY <2>1, <2>3 DEF InSync
  <2> QED
    BY <2>4, <2>5, <2>6 DEF IInv
<1>2. IInv /\ [Next]_vars => IInv'
  <2> SUFFICES ASSUME IInv, [Next]_vars PROVE IInv'
    OBVIOUS
  <2>1. CASE \E t \in Packets : decoder_read_ts_packet(t)
    <3>1. PICK t \in Packets : decoder_read_ts_packet(t)
      BY <2>1
    <3>2. Goes(t)
      BY <3>1 DEF decoder_read_ts_packet, Goes
    <3> QED
      BY <3>1, <3>2, FailsKeeps, ErrorKeeps, OverlongKeeps, VideoKeeps, AudioKeeps,
         RestKeeps DEF decoder_read_ts_packet
  <2>2. CASE decoder_put_packet
    BY <2>2, DecoderKeeps
  <2>3. CASE UNCHANGED vars
    BY <2>3 DEF vars, IInv, TypeOK, Counting, Remembers, Dangles, InSync, Restamped,
                NeverStarts
  <2> QED
    BY <2>1, <2>2, <2>3 DEF Next, Crashed
<1> QED
  BY <1>1, <1>2, PTL DEF Spec
-----------------------------------------------------------------------------
(***************************************************************************)
(* What follows from it.                                                   *)
(***************************************************************************)

\* The clocks and the compared byte never leave their ranges: neither the
\* stamps of get_audio_pts nor the count of lost packets
\* (mpi_decoder.c:5-19).
THEOREM TypeCorrect == Spec => []TypeOK
<1>1. IInv => TypeOK
  BY DEF IInv
<1> QED
  BY <1>1, Inductive, PTL

\* Every audio packet sent has a time stamp of the program's own, and these keep
\* step with the channel's but for the packets that were lost
\* (mpi_decoder.c:5-19, 301-305, 322-326).
THEOREM Stamps == Spec => []Stamped
<1>1. IInv => Stamped
  BY DEF IInv, Stamped
<1> QED
  BY <1>1, Inductive, PTL

\* The stale pointer crashes the program only at the first packet or right behind
\* one of the video (mpi_decoder.c:262-263, 290-292, 359-360).
THEOREM Crashes == Spec => CrashHasCause
<1>1. IInv /\ [Next]_vars
        => [alive /\ ~alive' => before \in {"none", "video"}
                                 \/ \E t \in Packets : ReadOverlong(t)]_vars
  <2> SUFFICES ASSUME IInv, [Next]_vars, alive, ~alive',
                      \A t \in Packets : ~ReadOverlong(t)
               PROVE  before \in {"none", "video"}
    OBVIOUS
  <2>1. ~decoder_put_packet /\ ~UNCHANGED vars
    BY DEF decoder_put_packet, vars
  <2>2. PICK t \in Packets : decoder_read_ts_packet(t)
    BY <2>1 DEF Next, Crashed
  <2>3. ReadError(t)
    BY <2>2 DEF decoder_read_ts_packet, ReadFails, ReadVideo, ReadAudio, ReadRest, Parsed
  <2>4. slot # "null"
    BY <2>3 DEF ReadError
  <2> QED
    BY <2>4 DEF IInv, TypeOK, Dangles
<1> QED
  BY <1>1, Inductive, PTL DEF Spec, CrashHasCause

LEMMA QuotientGrows ==
  ASSUME NEW n \in Nat \ {0}, NEW a \in Nat, NEW b \in Nat, a <= b
  PROVE  a \div n <= b \div n
<1>1. PICK q \in Nat, r \in 0..n-1 : a = (n * q) + r /\ a \div n = q
  <2>1. a \div n \in Nat /\ a % n \in 0..n-1 /\ a = (n * (a \div n)) + (a % n)
    BY Remainder
  <2> QED
    BY <2>1, Zenon
<1>2. PICK u \in Nat, v \in 0..n-1 : b = (n * u) + v /\ b \div n = u
  <2>1. b \div n \in Nat /\ b % n \in 0..n-1 /\ b = (n * (b \div n)) + (b % n)
    BY Remainder
  <2> QED
    BY <2>1, Zenon
<1>3. SUFFICES ASSUME q > u PROVE FALSE
  BY <1>1, <1>2
<1>4. n * q >= n * (u + 1)
  BY <1>3
<1>5. n * (u + 1) = n * u + n
  OBVIOUS
<1> QED
  BY <1>1, <1>2, <1>4, <1>5

\* In one lap of the compared byte a higher byte is a later time.
LEMMA HigherIsLater ==
  ASSUME NEW a \in Nat, NEW b \in Nat, Lap(a) = Lap(b), PtsByte(a) > PtsByte(b)
  PROVE  a > b
<1> DEFINE A == Steps(a)
           B == Steps(b)
<1>1. A \in Nat /\ B \in Nat /\ Bytes \in Nat \ {0}
  BY StepsIsNat, BytesAssumption
<1>2. A \div Bytes = B \div Bytes /\ A % Bytes > B % Bytes
  BY DEF Lap, PtsByte
<1> HIDE DEF A, B
<1>3. A = (Bytes * (A \div Bytes)) + (A % Bytes) /\ A \div Bytes \in Nat /\ A % Bytes \in 0..Bytes-1
  BY <1>1, Remainder
<1>4. B = (Bytes * (B \div Bytes)) + (B % Bytes) /\ B % Bytes \in 0..Bytes-1
  BY <1>1, Remainder
<1>5. A > B
  BY <1>1, <1>2, <1>3, <1>4
<1>6. SUFFICES ASSUME a <= b PROVE FALSE
  OBVIOUS
<1>7. /\ a * PesTicks \in Nat /\ b * PesTicks \in Nat /\ a * PesTicks <= b * PesTicks
      /\ ByteTicks \in Nat \ {0}
  BY <1>6, TicksAssumption
<1>8. A <= B
  BY <1>7, QuotientGrows DEF A, B, Steps
<1> QED
  BY <1>1, <1>5, <1>8

\* The audio starts later than the first video picture, or the byte has wrapped in
\* between; above its highest value it never starts (mpi_decoder.c:275-277,
\* 315-319).
THEOREM Starts == Spec => StartsInStep
<1>1. IInv /\ [Next]_vars
        => [~isWriteAudio /\ isWriteAudio' =>
              time' > first \/ Lap(time') # Lap(first)]_vars
  <2> SUFFICES ASSUME IInv, [Next]_vars, ~isWriteAudio, isWriteAudio',
                      Lap(time') = Lap(first)
               PROVE  time' > first
    OBVIOUS
  <2>1. ~decoder_put_packet /\ ~UNCHANGED vars
    BY DEF decoder_put_packet, vars, audioVars
  <2>2. PICK t \in Packets : decoder_read_ts_packet(t)
    BY <2>1 DEF Next, Crashed
  <2>3. ReadAudio(t)
    BY <2>2 DEF decoder_read_ts_packet, ReadFails, ReadError, ReadOverlong, ReadVideo,
                ReadRest, audioVars
  <2>4. AudioStarts(t) /\ Tick(t)
    BY <2>3 DEF ReadAudio, AudioGoesOn, AudioDropped, audioVars, Parsed, Read
  <2>5. isHaveVideo /\ PtsByte(time') > video_pts /\ video_pts = PtsByte(first)
    BY <2>4 DEF AudioStarts, Later, IInv, Remembers
  <2>6. time' \in Nat /\ first \in Nat
    BY <2>4, TickOnDial, HorizonAssumption DEF IInv, TypeOK
  <2> QED
    BY <2>5, <2>6, HigherIsLater
<1>2. Spec => InStep
  BY <1>1, Inductive, PTL DEF Spec, InStep
<1>3. IInv => NeverStarts
  BY DEF IInv
<1> QED
  BY <1>2, <1>3, Inductive, PTL DEF StartsInStep
=============================================================================
