-------------------------------- MODULE Codecs -------------------------------
(***************************************************************************)
(* The decoder thread and the encoder thread of mycode/main.c together,    *)
(* with every codec call that can fail: decoder_run (DecoderRun) draws its *)
(* pictures into the frames from tail on, encoder_run (EncoderRun) takes   *)
(* them from head on, and each waits for the other by the checks of        *)
(* frame_preprocess and thread_encoder.  Picture k of the stream is the    *)
(* k-th drawn.  An index is advanced and reduced in two stores, as in      *)
(* FrameRing, and a check that reads it between them may be misled.        *)
(*                                                                         *)
(* An operator that a comment calls a mutant is not part of the            *)
(* specification: it is the definition after it with a bug in it, which    *)
(* the property named there must notice.                                   *)
(***************************************************************************)
EXTENDS DecoderRun, EncoderRun

VARIABLES
  head,     \* the frame that is encoded next
  misled    \* history: a check of head and tail passed wrongly

vars == <<outputVars, encodeVars, head, misled>>

Init == OutputInit /\ EncodeInit /\ head = 0 /\ misled = FALSE

\* while(tail + 1 == head), without a modulo.
LooksFull == tail + 1 = head

\* Pictures in the ring, as long as no check was misled.
Held == (tail - head) % N

Output ==
  /\ thread_output
  /\ output = "draw" => ~LooksFull
  /\ misled' = (misled \/ (output = "draw" /\ output' = "blit" /\ Held = N - 1))
  /\ UNCHANGED <<encodeVars, head>>

\* while(head == tail)
FrameWaits ==
  /\ head # tail
  /\ misled' = (misled \/ Held = 0)

\* encoder_data_init, after the first frame was waited for, and encoder_run.
EncodeFrame ==
  /\ thread_encoder
  /\ IF pc = "calloc" THEN FrameWaits ELSE UNCHANGED misled
  /\ UNCHANGED <<outputVars, head>>

\* The end of a turn of the loop: head advances,
Turn(from, to) ==
  /\ Goes(from, to)
  /\ UNCHANGED <<outputVars, encoder, header, count, accepted, packet, sent, bare, errors>>

HeadAdvance ==
  /\ Turn("advance", "wrap")
  /\ head' = head + 1
  /\ UNCHANGED misled

\* Mutant (PacketsFit): the last frame of the ring is left out.
HeadWrapEarly ==
  /\ Turn("wrap", "wait")
  /\ head' = head % (N - 1)
  /\ UNCHANGED misled

\* is reduced,
HeadWrap ==
  /\ Turn("wrap", "wait")
  /\ head' = head % N
  /\ UNCHANGED misled

\* and the next frame is waited for.
NextFrame ==
  /\ Turn("wait", "copy")
  /\ FrameWaits
  /\ UNCHANGED head

Encode == EncodeFrame \/ HeadAdvance \/ HeadWrap \/ NextFrame

\* Nothing more to decode (the bound), a decoder or an encoder that does not
\* answer, or one thread that waits for the other: the process does not end.
Idle ==
  /\ \/ output = "get" /\ queue = <<>>
     \/ output = "draw" /\ LooksFull
  /\ \/ pc = "crashed"
     \/ pc \in {"calloc", "wait"} /\ head = tail
     \/ pc = "copy" /\ count = MaxFrames
     \/ pc = "get" /\ accepted = 0
  /\ UNCHANGED vars

Next == Output \/ Encode \/ Idle

Spec == Init /\ [][Next]_vars

\* Both threads are scheduled, the decoder decodes, and the channel goes on.
FairSpec == Spec /\ WF_vars(Output) /\ WF_vars(Encode)
-----------------------------------------------------------------------------
(***************************************************************************)
(* Properties.                                                             *)
(***************************************************************************)
TypeOK ==
  /\ OutputTypeOK /\ EncodeTypeOK
  /\ head \in 0..N /\ (head = N => pc = "wrap") /\ misled \in BOOLEAN

\* The frame that is encoded has memory as long as the changes of the size have
\* left enough for all frames, except between the two calls that replace it: it
\* is in the ring before its buffer is allocated (main.c:87, 256;
\* mpi_frame_init.c:40-61).
EncodesMemory ==
  pc = "copy" /\ changes * N <= Memory =>
    drawable[head] \/ (output = "buffer" /\ fresh = head)

\* A picture has memory in the decoder, when it is drawn and when it is encoded.
PicturesInMemory == DecodesIntoGroup /\ FramesDrawable /\ EncodesMemory

\* The encoder is never ahead of the decoder, nor N pictures behind, until a
\* check is misled: that for room by a full ring (main.c:102), that for a frame
\* by an index between its two stores (main.c:150-151, 262).
KeepsBehind == ~misled => sent <= drawn /\ drawn - sent < N

\* The packets that frame_packet gets: one for each picture drawn, that of the
\* frame just put, and with the parameter sets where a client needs them.
PacketsFit == InStep /\ HeaderSent /\ KeepsBehind

\* A call that fails once is given no second chance, in either thread.
FailuresAreFinal == StopsForGood /\ StuckAfterFailure

\* A call failed that the encoder cannot do without.
Refusal == errors \ {"prep", "rc", "codec", "sei", "extra_info"} # {}

\* Unless a codec call fails, or a check is misled, every picture of the
\* channel is decoded, drawn and encoded; an encoder with a part of its
\* configuration does, too.
AllTranscoded == <>(sent = MaxPictures \/ failed \/ Refusal \/ misled)
=============================================================================
