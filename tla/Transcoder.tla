----------------------------- MODULE Transcoder -----------------------------
(***************************************************************************)
(* The four threads of mycode/main.c together, with the ways in which one  *)
(* that waits, or has given up, holds up the others: thread_input retries  *)
(* decoder_put_packet and fills the audio ring itself, frame_preprocess    *)
(* waits for a free frame, and the producer of a full packet ring loops    *)
(* for ever.  The steps are those that a thread takes between two looks at *)
(* what it shares.  The frame ring is head, tail and their checks, and an  *)
(* index is advanced and reduced in two stores, as in FrameRing; the       *)
(* packet rings, whose indices are the matter of GnTcp, are plain bounded  *)
(* queues.                                                                 *)
(*                                                                         *)
(* A picture is one packet of the channel, and becomes Parts packets for   *)
(* the client.  All pictures are of one size.                              *)
(*                                                                         *)
(* An operator that a comment calls a mutant is not part of the            *)
(* specification: it is the definition after it with a bug in it, which    *)
(* the property named there must notice.                                   *)
(***************************************************************************)
EXTENDS Integers, Sequences

CONSTANTS
  MppDepth,   \* packets that the decoder holds
  N,          \* BUFFER_SIZE
  VideoSlots, \* packets in tcp_buffer: TCP_BUFFER_NUMS - 1
  AudioSlots, \* packets in tcp_audio_buffer: TCP_BUFFER_NUMS - 1
  Parts,      \* the packets of an encoded picture
  MaxVideo,   \* bound: packets with video that the channel sends
  MaxAudio    \* bound: other packets

ASSUME DepthAssumption ==
  /\ MppDepth \in Nat \ {0} /\ N \in Nat \ {0, 1}
  /\ VideoSlots \in Nat \ {0} /\ AudioSlots \in Nat \ {0}
  /\ Parts \in Nat \ {0}
ASSUME BoundAssumption == MaxVideo \in Nat /\ MaxAudio \in Nat

VARIABLES
  up,       \* the process runs
  client,   \* what the peer does with the connection
  input,    \* thread_input: "read", "put" (retries), "stuck"
  fed,      \* video packets read
  heard,    \* other packets read
  mpp,      \* the packets in the decoder, oldest first
  output,   \* thread_output: "get", "wait", "draw", "wrap" (tail is to be reduced)
  hand,     \* the picture it waits to draw
  head,     \* the frame that is encoded next
  tail,     \* the frame that is drawn next
  buffer,   \* the picture in every frame
  encode,   \* thread_encoder: "wait", "put", "wrap" (head is to be reduced), "stuck"
  taken,    \* the picture that it encodes
  part,     \* packets of that picture that it has put
  count,    \* the picture encoded last, 0 before the first
  video,    \* packets in tcp_buffer
  audio,    \* packets in tcp_audio_buffer
  turn,     \* the ring that rtp_sender looks at next
  misled    \* history: a check of head and tail passed wrongly

inputVars == <<input, fed, heard>>
outputVars == <<output, hand, tail, buffer, misled>>
encodeVars == <<encode, head, taken, part, count>>
processVars == <<up, client>>
vars == <<processVars, inputVars, mpp, outputVars, encodeVars, video, audio,
          turn>>

Init ==
  /\ up = TRUE /\ client = "reading"
  /\ input = "read" /\ fed = 0 /\ heard = 0
  /\ mpp = <<>>
  /\ output = "get" /\ hand = 0 /\ tail = 0 /\ buffer = [i \in 0..N-1 |-> 0]
  /\ encode = "wait" /\ head = 0 /\ taken = 0 /\ part = 0 /\ count = 0
  /\ video = 0 /\ audio = 0
  /\ turn = "video"
  /\ misled = FALSE
-----------------------------------------------------------------------------
(***************************************************************************)
(* thread_input.                                                           *)
(***************************************************************************)
Input(from, to) ==
  /\ up
  /\ input = from
  /\ input' = to
  /\ UNCHANGED <<processVars, outputVars, encodeVars, video, turn>>

\* decoder_read_ts_packet returns 0: a packet for the decoder;
ReadVideo ==
  /\ fed < MaxVideo
  /\ Input("read", "put")
  /\ fed' = fed + 1
  /\ UNCHANGED <<heard, mpp, audio>>

\* Mutant (PicturesAreQueue): a packet that the decoder does not take is lost.
PutVideoOnce ==
  /\ Input("put", "read")
  /\ mpp' = IF Len(mpp) < MppDepth THEN Append(mpp, fed) ELSE mpp
  /\ UNCHANGED <<fed, heard, audio>>

\* decoder_put_packet is called until it succeeds.
PutVideo ==
  /\ Len(mpp) < MppDepth
  /\ Input("put", "read")
  /\ mpp' = Append(mpp, fed)
  /\ UNCHANGED <<fed, heard, audio>>

\* An audio, PAT or PMT packet is handled at once, with gn_tcp_audio_put,
ReadAudio ==
  /\ heard < MaxAudio
  /\ audio < AudioSlots
  /\ Input("read", "read")
  /\ heard' = heard + 1
  /\ audio' = audio + 1
  /\ UNCHANGED <<fed, mpp>>

\* which never returns when the ring is full.
ReadAudioFull ==
  /\ heard < MaxAudio
  /\ audio = AudioSlots
  /\ Input("read", "stuck")
  /\ heard' = heard + 1
  /\ UNCHANGED <<fed, mpp, audio>>

thread_input == ReadVideo \/ PutVideo \/ ReadAudio \/ ReadAudioFull
-----------------------------------------------------------------------------
(***************************************************************************)
(* thread_output.                                                          *)
(***************************************************************************)
Output(from, to) ==
  /\ up
  /\ output = from
  /\ output' = to
  /\ UNCHANGED <<processVars, inputVars, encodeVars, video, audio, turn>>

\* decode_get_frame
GetPicture ==
  /\ mpp # <<>>
  /\ Output("get", "wait")
  /\ hand' = Head(mpp)
  /\ mpp' = Tail(mpp)
  /\ UNCHANGED <<tail, buffer, misled>>

\* Mutant (StuckThreads): the sum is reduced.
FullReduced == (tail + 1) % N = head

\* Mutant (Flows): an empty ring is taken for a full one.
FullOrEmpty == tail + 1 = head \/ tail = head

\* while(tail + 1 == head)
LooksFull == tail + 1 = head

\* The pictures in the ring, as long as no check was misled.
Held == (tail - head) % N

\* frame_preprocess: waits for a free frame, where head = 0 and tail = N-1
\* never look full,
WaitRoom ==
  /\ ~LooksFull
  /\ Output("wait", "draw")
  /\ misled' = (misled \/ Held = N - 1)
  /\ UNCHANGED <<mpp, hand, tail, buffer>>

\* draws the picture and advances tail,
Draw ==
  /\ Output("draw", "wrap")
  /\ buffer' = [buffer EXCEPT ![tail] = hand]
  /\ tail' = tail + 1
  /\ hand' = 0
  /\ UNCHANGED <<mpp, misled>>

\* and reduces it.
TailWrap ==
  /\ Output("wrap", "get")
  /\ tail' = tail % N
  /\ UNCHANGED <<mpp, hand, buffer, misled>>

thread_output == GetPicture \/ WaitRoom \/ Draw \/ TailWrap
-----------------------------------------------------------------------------
(***************************************************************************)
(* thread_encoder.                                                         *)
(***************************************************************************)
Encode(from, to) ==
  /\ up
  /\ encode = from
  /\ encode' = to
  /\ UNCHANGED <<processVars, inputVars, mpp, output, hand, tail, buffer, audio, turn>>

\* encoder_run has encoded the picture in the oldest frame, and h264_to_ts
\* begins to cut it up.  On frame 0 the check passes with an empty ring while
\* tail is N.
EncodePicture ==
  /\ head # tail
  /\ Encode("wait", "put")
  /\ taken' = buffer[head]
  /\ part' = 0
  /\ misled' = (misled \/ Held = 0)
  /\ UNCHANGED <<head, count, video>>

\* ts: gn_tcp_put of the next packet.
PutPart ==
  /\ part < Parts
  /\ video < VideoSlots
  /\ Encode("put", "put")
  /\ video' = video + 1
  /\ part' = part + 1
  /\ UNCHANGED <<head, taken, count, misled>>

\* gn_tcp_put never returns when the ring is full.
PutPartFull ==
  /\ part < Parts
  /\ video = VideoSlots
  /\ Encode("put", "stuck")
  /\ UNCHANGED <<head, taken, part, count, video, misled>>

\* All packets are put, and head advances,
FreeFrame ==
  /\ part = Parts
  /\ Encode("put", "wrap")
  /\ head' = head + 1
  /\ count' = taken
  /\ UNCHANGED <<taken, part, video, misled>>

\* Mutant (TypeOK): N is taken for an index of the ring.
HeadWrapLate ==
  /\ Encode("wrap", "wait")
  /\ head' = IF head > N THEN 0 ELSE head
  /\ UNCHANGED <<taken, part, count, video, misled>>

\* and is reduced.
HeadWrap ==
  /\ Encode("wrap", "wait")
  /\ head' = head % N
  /\ UNCHANGED <<taken, part, count, video, misled>>

thread_encoder ==
  EncodePicture \/ PutPart \/ PutPartFull \/ FreeFrame \/ HeadWrap
-----------------------------------------------------------------------------
(***************************************************************************)
(* rtp_sender and the client.                                              *)
(***************************************************************************)
Sends ==
  /\ up
  /\ turn' = IF turn = "video" THEN "audio" ELSE "video"
  /\ UNCHANGED <<processVars, inputVars, mpp, outputVars, encodeVars>>

Waiting == IF turn = "video" THEN video ELSE audio

\* The ring is empty,
SkipEmpty ==
  /\ Waiting = 0
  /\ Sends
  /\ UNCHANGED <<video, audio>>

\* or its oldest packet is sent; send() blocks while the client stalls, and
\* may take a packet for one that has left.
SendOldest ==
  /\ Waiting > 0
  /\ client # "stalled"
  /\ Sends
  /\ video' = IF turn = "video" THEN video - 1 ELSE video
  /\ audio' = IF turn = "audio" THEN audio - 1 ELSE audio

\* send() on a broken connection ends the process.
SendFails ==
  /\ up
  /\ Waiting > 0
  /\ client = "gone"
  /\ up' = FALSE
  /\ UNCHANGED <<client, inputVars, mpp, outputVars, encodeVars, video, audio,
                 turn>>

rtp_sender == SkipEmpty \/ SendOldest \/ SendFails

Client(from, to) ==
  /\ up
  /\ client \in from
  /\ client' = to
  /\ UNCHANGED <<up, inputVars, mpp, outputVars, encodeVars, video, audio,
                 turn>>

ClientStalls == Client({"reading"}, "stalled")
ClientResumes == Client({"stalled"}, "reading")
ClientLeaves == Client({"reading", "stalled"}, "gone")
-----------------------------------------------------------------------------
Exited == ~up /\ UNCHANGED vars

Next ==
  \/ thread_input \/ thread_output \/ thread_encoder \/ rtp_sender
  \/ ClientStalls \/ ClientResumes \/ ClientLeaves
  \/ Exited

Spec == Init /\ [][Next]_vars

\* The threads are scheduled, the codecs answer, the channel goes on sending,
\* and a client that stalls reads again or leaves, and does not stall before
\* every single packet.
Fairness ==
  /\ WF_vars(PutVideo) /\ SF_vars(ReadVideo) /\ SF_vars(ReadAudio \/ ReadAudioFull)
  /\ WF_vars(thread_output) /\ WF_vars(thread_encoder)
  /\ WF_vars(SkipEmpty) /\ SF_vars(SendOldest)
  /\ WF_vars(ClientResumes)

FairSpec == Spec /\ Fairness
-----------------------------------------------------------------------------
(***************************************************************************)
(* Properties.                                                             *)
(***************************************************************************)
TypeOK ==
  /\ up \in BOOLEAN /\ client \in {"reading", "stalled", "gone"}
  /\ input \in {"read", "put", "stuck"}
  /\ fed \in 0..MaxVideo /\ heard \in 0..MaxAudio
  /\ output \in {"get", "wait", "draw", "wrap"} /\ hand \in 0..MaxVideo
  /\ tail \in 0..N /\ (tail = N => output = "wrap")
  /\ head \in 0..N /\ (head = N => encode = "wrap")
  /\ buffer \in [0..N-1 -> 0..MaxVideo]
  /\ encode \in {"wait", "put", "wrap", "stuck"} /\ taken \in 0..MaxVideo
  /\ part \in 0..Parts /\ count \in 0..MaxVideo
  /\ mpp \in Seq(1..MaxVideo) /\ Len(mpp) <= MppDepth
  /\ video \in 0..VideoSlots /\ audio \in 0..AudioSlots
  /\ turn \in {"video", "audio"} /\ misled \in BOOLEAN

\* The pictures on the way from decode_put_packet to encoder_run.
Pictures ==
  [i \in 1..Held |-> buffer[(head + i - 1) % N]]
    \o (IF output \in {"wait", "draw"} THEN <<hand>> ELSE <<>>) \o mpp

PictureQueue == INSTANCE BoundedQueue WITH
  Capacity <- N - 1 + 1 + MppDepth, queue <- Pictures, last <- count,
  broken <- misled

\* What encoder_run has in hand is the oldest of them.
TakesOldest == encode \in {"put", "stuck"} /\ ~misled => taken = count + 1

\* From decode_put_packet to the end of encoder_run the program is one queue,
\* which loses, repeats and reorders nothing whatever the client does, and
\* holds at most what the decoder, thread_output and the frames hold, until a
\* check is misled: thread_output's by a full ring (main.c:102 has no modulo),
\* thread_encoder's by an index between its two stores (main.c:150-151).
PicturesAreQueue == PictureQueue!Spec /\ []TakesOldest

\* More packets than the stages before the encoder can hold are to come.
Plenty == MaxVideo - count > N + MppDepth

InputStopped == input = "stuck" \/ (input = "put" /\ Len(mpp) = MppDepth)

\* An encoder that is stuck on a full video ring ("TCP video buffer full",
\* gn_tcp.c:161) stops the whole program for good, the sound included: the
\* frames fill up, then the decoder, and thread_input retries for ever.
InputStops ==
  encode = "stuck" /\ head # 0 /\ ~misled /\ Plenty ~> [](InputStopped \/ ~up)

\* Not so when it is stuck on frame 0: the frames never look full then, and
\* all pictures of the channel are decoded and drawn over one another while
\* the sound goes on.
DecodesOn ==
  encode = "stuck" /\ head = 0
    ~> (fed = MaxVideo /\ mpp = <<>> /\ output = "get") \/ input = "stuck" \/ ~up

\* A thread_input that is stuck on a full audio ring (mpi_decoder.c:307) stops
\* the pictures with the sound: the sender empties both rings, a client that
\* reads again gets what was in them, and then nothing.
StillDrains == input = "stuck" ~> [](video = 0 /\ audio = 0) \/ ~up

\* All that follows from a thread that has given up on a full packet ring.
StuckThreads == InputStops /\ DecodesOn /\ StillDrains

\* Unless a packet ring overflows or a check is misled, the encoder catches up
\* with what was read, every time that the channel pauses (as it does at the
\* bound): no thread waits for another in a circle.
Flows == fed > count ~> fed = count \/ encode = "stuck" \/ misled \/ ~up
=============================================================================
