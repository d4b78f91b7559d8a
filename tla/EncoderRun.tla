----------------------------- MODULE EncoderRun -----------------------------
(***************************************************************************)
(* The life of the encoder: encoder_data_init, encoder_get_header,         *)
(* encoder_write_packet and encoder_run of mycode/mpi_encoder.c as         *)
(* thread_encoder (mycode/main.c) calls them.  Their results are not       *)
(* looked at, so that the thread goes on with an encoder that is not       *)
(* there, was not initialised or has only a part of its configuration.     *)
(*                                                                         *)
(* The encoder is external: a call to it succeeds or fails, one that was   *)
(* not initialised refuses everything, and it returns one packet for each  *)
(* frame that it accepted.  Frames come without end (the bound excepted).  *)
(*                                                                         *)
(* An operator that a comment calls a mutant is not part of the            *)
(* specification: it is the definition after it with a bug in it, which    *)
(* the property named there must notice.                                   *)
(***************************************************************************)
EXTENDS Integers

CONSTANTS
  Gop,       \* a picture is an IDR picture every Gop pictures
  MaxFrames  \* bound: frames that are encoded

ASSUME FramesAssumption == Gop \in Nat \ {0} /\ MaxFrames \in Nat

VARIABLES
  pc,        \* where thread_encoder is; "advance", "wrap" and "wait" are the
             \* end of a turn of its loop, after encoder_run
  encoder,   \* what encoder_data_init left: "null", "no_mpi",
             \* "closed" (not initialised), "default", "ready"
  header,    \* encoder->packet_header # NULL
  count,     \* encoder->frame_count
  accepted,  \* frames that the encoder accepted and not yet returned
  packet,    \* the picture in encoder->packet, 0 for NULL
  sent,      \* history: what frame_packet got last
  bare,      \* history: an IDR picture was sent without the header
  errors     \* history: the calls that failed

encodeVars == <<pc, encoder, header, count, accepted, packet, sent, bare, errors>>

\* The configurations that encoder_data_init sets one after the other.
Configs == <<"prep", "rc", "codec", "sei">>

EncodeInit ==
  /\ pc = "calloc" /\ encoder = "null" /\ header = FALSE
  /\ count = 0 /\ accepted = 0 /\ packet = 0 /\ sent = 0 /\ bare = FALSE
  /\ errors = {}
-----------------------------------------------------------------------------
Goes(from, to) ==
  /\ pc = from
  /\ pc' = to

Leaves(e) ==
  /\ encoder' = e
  /\ UNCHANGED <<header, count, accepted, packet, sent, bare>>

\* encoder_data_init returns at the first call that fails; *data is set before
\* mpp_create.
Calloc ==
  \/ Goes("calloc", "create") /\ Leaves("no_mpi") /\ UNCHANGED errors
  \/ Goes("calloc", "header") /\ Leaves("null") /\ errors' = {"calloc"}

Create ==
  \/ Goes("create", "init") /\ Leaves("closed") /\ UNCHANGED errors
  \/ Goes("create", "header") /\ Leaves("no_mpi") /\ errors' = {"create"}

MppInit ==
  \/ Goes("init", "config") /\ Leaves("default") /\ UNCHANGED errors
  \/ Goes("init", "header") /\ Leaves("closed") /\ errors' = {"init"}

\* One after the other; the first that fails leaves those after it unset.
Configure ==
  \/ Goes("config", "header") /\ Leaves("ready") /\ UNCHANGED errors
  \/ \E i \in 1..4 :
       Goes("config", "header") /\ Leaves("default") /\ errors' = {Configs[i]}

encoder_data_init == Calloc \/ Create \/ MppInit \/ Configure

\* data->mpi->control of an encoder that is not there,
Crashes ==
  /\ encoder \in {"null", "no_mpi"}
  /\ Goes("header", "crashed")
  /\ UNCHANGED <<encoder, header, count, accepted, packet, sent, bare, errors>>

\* and of one that is: MPP_ENC_GET_EXTRA_INFO.
GetHeader ==
  /\ encoder \in {"closed", "default", "ready"}
  /\ Goes("header", "copy")
  /\ \/ encoder # "closed" /\ header' = TRUE /\ UNCHANGED errors
     \/ UNCHANGED header /\ errors' = errors \cup {"extra_info"}
  /\ UNCHANGED <<encoder, count, accepted, packet, sent, bare>>

encoder_get_header == Crashes \/ GetHeader

\* encoder_run: frame_copy and encode_put_frame, whose result is overwritten.
PutFrame ==
  /\ count < MaxFrames
  /\ Goes("copy", "get")
  /\ \/ encoder # "closed" /\ accepted' = accepted + 1 /\ UNCHANGED errors
     \/ UNCHANGED accepted /\ errors' = errors \cup {"put_frame"}
  /\ count' = count + 1
  /\ UNCHANGED <<encoder, header, packet, sent, bare>>

\* Mutant (AllTranscoded): the loop ends without a packet.
GetPacketOnce ==
  /\ Goes("get", "send")
  /\ packet' = IF accepted > 0 THEN count - accepted + 1 ELSE 0
  /\ \/ accepted > 0 /\ accepted' = accepted - 1
     \/ UNCHANGED accepted
  /\ UNCHANGED <<encoder, header, count, sent, bare, errors>>

\* do encode_get_packet while(!data->packet): for ever if none will come.
GetPacket ==
  /\ accepted > 0
  /\ Goes("get", "send")
  /\ accepted' = accepted - 1
  /\ packet' = count - accepted + 1
  /\ UNCHANGED <<encoder, header, count, sent, bare, errors>>

IsIdr(n) == n % Gop = 1 % Gop

\* frame_packet: h264_to_ts puts the header before an IDR picture, and nothing
\* if there is none; then mpp_packet_deinit.
FramePacket ==
  /\ Goes("send", "advance")
  /\ sent' = packet
  /\ packet' = 0
  /\ bare' = (bare \/ (IsIdr(packet) /\ ~header))
  /\ UNCHANGED <<encoder, header, count, accepted, errors>>

encoder_run == PutFrame \/ GetPacket \/ FramePacket

\* thread_encoder, as far as it gets without frames: the rest of its loop, which
\* gives the frame back and waits for the next, is in Codecs.
thread_encoder == encoder_data_init \/ encoder_get_header \/ encoder_run
-----------------------------------------------------------------------------
(***************************************************************************)
(* Properties.                                                             *)
(***************************************************************************)
EncodeTypeOK ==
  /\ pc \in {"calloc", "create", "init", "config", "header", "copy", "get",
             "send", "advance", "wrap", "wait", "crashed"}
  /\ encoder \in {"null", "no_mpi", "closed", "default", "ready"}
  /\ header \in BOOLEAN /\ bare \in BOOLEAN
  /\ count \in 0..MaxFrames /\ accepted \in 0..1
  /\ packet \in 0..MaxFrames /\ sent \in 0..MaxFrames
  /\ pc = "send" => packet # 0

\* One packet for each frame, that of the frame just put: encoder and frame
\* ring stay in step, and none is left in the encoder.
InStep == pc = "send" => packet = count /\ sent = count - 1 /\ accepted = 0

\* Every IDR picture goes out with the parameter sets that a client which
\* connects there needs, unless the encoder did not give them.
HeaderSent == bare => "extra_info" \in errors

\* A frame that the encoder does not accept is the last one: the thread looks
\* for its packet for ever, and keeps the frame.
StuckAfterFailure == [][count' # count => "put_frame" \notin errors]_encodeVars
=============================================================================
