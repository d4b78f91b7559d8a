--------------------------- MODULE SimplePipeline ---------------------------
(***************************************************************************)
(* The file transcoder simple/main.c with simple/mpi_decoder.c and         *)
(* simple/mpi_encoder.c: thread_input reads the file in packets and offers *)
(* them to the MPP decoder, thread_output takes the decoded frames, scales *)
(* each into the next of N frames and sets its buffer_flag, thread_encoder *)
(* encodes the frames whose flag is set, in turn, and clears the flag.     *)
(* The flags, polled in empty loops, are all that synchronises the two.    *)
(*                                                                         *)
(* The decoder is external: it queues up to MppDepth packets, refuses more *)
(* (decode_put_packet fails and is retried), and gives one picture for     *)
(* every packet, announcing a new picture size before it.  A picture is    *)
(* the number of its packet in the file; 0 is a frame never drawn.         *)
(*                                                                         *)
(* An operator that a comment calls a mutant is not part of the            *)
(* specification: it is the definition after it with a bug in it, which    *)
(* the property named there must notice.                                   *)
(***************************************************************************)
EXTENDS Integers, Sequences, RingIndex

CONSTANTS
  N,            \* BUFFER_SIZE
  FilePackets,  \* how many packets the file has; the last has the EOS mark
  SizeChanges,  \* the packets before whose picture the picture size changes
  MppDepth      \* packets the decoder queues

ASSUME NAssumption == N \in Nat \ {0}
ASSUME FileAssumption ==
  /\ FilePackets \in Nat \ {0}
  /\ SizeChanges \subseteq 1..FilePackets
  /\ 1 \in SizeChanges            \* the first size is a change, too
  /\ MppDepth \in Nat \ {0}

VARIABLES
  next,      \* the packet at the position of fp_input
  packet,    \* the packet in decoder->packet
  input,     \* where thread_input is
  mpp,       \* the packets in the decoder
  announced, \* the decoder has announced the size of its next picture
  output,    \* where thread_output is, in decoder_run and its callbacks
  frame,     \* the decoded picture it holds
  fresh,     \* the slot that frame_change re-initialises next
  dp,        \* static p of frame_preprocess
  buffer,    \* buffer[]: the picture in every frame
  flag,      \* buffer_flag[]
  encode,    \* where thread_encoder is
  ep,        \* static p of thread_encoder
  taken,     \* the picture in the frame that encoder_run copied
  up,        \* the process runs
  put,       \* history: pictures whose flag was set
  count,     \* encoder->frame_count: pictures encoded
  last,      \* history: the picture encoded last
  lost       \* history: frame_change replaced a frame whose flag was set

inputVars  == <<next, packet, input>>
outputVars == <<announced, output, frame, fresh, dp, put>>
encodeVars == <<encode, ep, taken, count, last>>
vars == <<inputVars, mpp, outputVars, buffer, flag, encodeVars, up, lost>>

Slot == 0..N-1
Picture == 1..FilePackets
IsEos(p) == p = FilePackets

\* main: the static data are zero and the three threads start.
Init ==
  /\ next = 1 /\ packet = 0 /\ input = "read"
  /\ mpp = <<>> /\ announced = FALSE
  /\ output = "get" /\ frame = 0 /\ fresh = 0 /\ dp = 0
  /\ buffer = [i \in Slot |-> 0]
  /\ flag = [i \in Slot |-> FALSE]
  /\ encode = "wait" /\ ep = 0 /\ taken = 0
  /\ up = TRUE
  /\ put = 0 /\ count = 0 /\ last = 0
  /\ lost = FALSE
-----------------------------------------------------------------------------
(***************************************************************************)
(* thread_input.                                                           *)
(***************************************************************************)

\* decoder_read_packet: after the last packet the file is rewound.
decoder_read_packet ==
  /\ up
  /\ input = "read"
  /\ input' = "put"
  /\ packet' = next
  /\ next' = IF IsEos(next) THEN 1 ELSE next + 1
  /\ UNCHANGED <<mpp, outputVars, buffer, flag, encodeVars, up, lost>>

\* decoder_put_packet, tried in a loop until the decoder has room.
decoder_put_packet ==
  /\ up
  /\ input = "put"
  /\ \/ /\ Len(mpp) < MppDepth
        /\ mpp' = Append(mpp, packet)
        /\ input' = "read"
     \/ Len(mpp) = MppDepth /\ UNCHANGED <<mpp, input>>
  /\ UNCHANGED <<next, packet, outputVars, buffer, flag, encodeVars, up, lost>>

thread_input == decoder_read_packet \/ decoder_put_packet
-----------------------------------------------------------------------------
(***************************************************************************)
(* thread_output: decoder_run with frame_change and frame_preprocess.      *)
(***************************************************************************)
Outputs(from, to) ==
  /\ up
  /\ output = from
  /\ output' = to
  /\ UNCHANGED <<inputVars, encodeVars, up>>

\* decode_get_frame returns an info change: no picture, a new size.
GetInfoChange ==
  /\ mpp # <<>>
  /\ Head(mpp) \in SizeChanges /\ ~announced
  /\ Outputs("get", "change")
  /\ announced' = TRUE
  /\ fresh' = 0
  /\ UNCHANGED <<mpp, frame, dp, put, buffer, flag, lost>>

\* frame_change: one round of its loop puts a new frame into a slot, without
\* a look at the flag.  An encoder_run that has copied the old frame keeps a
\* reference to its picture.
frame_change ==
  /\ Outputs("change", IF fresh = N - 1 THEN "get" ELSE "change")
  /\ buffer' = [buffer EXCEPT ![fresh] = 0]
  /\ fresh' = (fresh + 1) % N
  /\ lost' = (lost \/ (flag[fresh] /\ ~(fresh = ep /\ encode # "wait")))
  /\ UNCHANGED <<mpp, announced, frame, dp, put, flag>>

\* decode_get_frame, which blocks, returns a picture.
GetPicture ==
  /\ mpp # <<>>
  /\ Head(mpp) \in SizeChanges => announced
  /\ Outputs("get", "wait")
  /\ frame' = Head(mpp)
  /\ mpp' = Tail(mpp)
  /\ announced' = FALSE
  /\ UNCHANGED <<fresh, dp, put, buffer, flag, lost>>

\* Mutant (FramesAreQueue): the wait is left out.
WaitFreeNever ==
  /\ Outputs("wait", "blit")
  /\ UNCHANGED <<mpp, announced, frame, fresh, dp, put, buffer, flag, lost>>

\* frame_preprocess: while(buffer_flag[p]); then the blit begins,
WaitFree ==
  /\ ~flag[dp]
  /\ Outputs("wait", "blit")
  /\ UNCHANGED <<mpp, announced, frame, fresh, dp, put, buffer, flag, lost>>

\* is done, and the EOS mark is copied,
Blit ==
  /\ Outputs("blit", "publish")
  /\ buffer' = [buffer EXCEPT ![dp] = frame]
  /\ UNCHANGED <<mpp, announced, frame, fresh, dp, put, flag, lost>>

\* Mutant (TypeOK): p is not reduced.
PublishUnreduced ==
  /\ Outputs("publish", IF IsEos(frame) THEN "done" ELSE "get")
  /\ flag' = [flag EXCEPT ![dp] = TRUE]
  /\ dp' = dp + 1
  /\ put' = put + 1
  /\ UNCHANGED <<mpp, announced, frame, fresh, buffer, lost>>

\* the flag is set and p advances; decoder_run notes the EOS mark, which
\* ends the thread.
Publish ==
  /\ Outputs("publish", IF IsEos(frame) THEN "done" ELSE "get")
  /\ flag' = [flag EXCEPT ![dp] = TRUE]
  /\ dp' = (dp + 1) % N
  /\ put' = put + 1
  /\ UNCHANGED <<mpp, announced, frame, fresh, buffer, lost>>

thread_output ==
  GetInfoChange \/ frame_change \/ GetPicture \/ WaitFree \/ Blit \/ Publish
-----------------------------------------------------------------------------
(***************************************************************************)
(* thread_encoder.                                                         *)
(***************************************************************************)
Encodes(from, to) ==
  /\ up
  /\ encode = from
  /\ encode' = to
  /\ UNCHANGED <<inputVars, mpp, outputVars, buffer, up, lost>>

\* Mutant (Delivers): the frame is given back when it has been copied.
WaitFrameReleasing ==
  /\ flag[ep]
  /\ Encodes("wait", "run")
  /\ taken' = buffer[ep]
  /\ flag' = [flag EXCEPT ![ep] = FALSE]
  /\ UNCHANGED <<ep, count, last>>

\* Mutant (AllEncoded): one more frame is awaited before one is encoded.
WaitFrameAhead ==
  /\ flag[ep] /\ flag[(ep + 1) % N]
  /\ Encodes("wait", "run")
  /\ taken' = buffer[ep]
  /\ UNCHANGED <<ep, flag, count, last>>

\* while(!buffer_flag[p]); then encoder_run copies the frame, a reference to
\* the picture.  (Before the first one the encoder is created from its size.)
WaitFrame ==
  /\ flag[ep]
  /\ Encodes("wait", "run")
  /\ taken' = buffer[ep]
  /\ UNCHANGED <<ep, flag, count, last>>

\* encode_get_packet returns the packet, and frame_packet writes it out.
encoder_run ==
  /\ Encodes("run", "release")
  /\ count' = count + 1
  /\ last' = taken
  /\ UNCHANGED <<ep, taken, flag>>

\* buffer_flag[p]=0 and p advances; the EOS mark of the packet, taken over
\* from the frame, ends the thread.
Release ==
  /\ Encodes("release", IF IsEos(last) THEN "done" ELSE "wait")
  /\ flag' = [flag EXCEPT ![ep] = FALSE]
  /\ ep' = (ep + 1) % N
  /\ UNCHANGED <<taken, count, last>>

thread_encoder == WaitFrame \/ encoder_run \/ Release
-----------------------------------------------------------------------------
\* main: getc(stdin) returns, and main's return ends the process.
Enter ==
  /\ up
  /\ up' = FALSE
  /\ UNCHANGED <<inputVars, mpp, outputVars, buffer, flag, encodeVars, lost>>

Exited == ~up /\ UNCHANGED vars

Next == thread_input \/ thread_output \/ thread_encoder \/ Enter \/ Exited

Spec == Init /\ [][Next]_vars

\* Each thread is scheduled; the decoder answers and the encoder delivers.
\* Nobody has to press Enter.
Fairness ==
  WF_vars(thread_input) /\ WF_vars(thread_output) /\ WF_vars(thread_encoder)

FairSpec == Spec /\ Fairness
-----------------------------------------------------------------------------
(***************************************************************************)
(* Properties.                                                             *)
(***************************************************************************)
TypeOK ==
  /\ next \in Picture /\ packet \in 0..FilePackets /\ input \in {"read", "put"}
  /\ mpp \in Seq(Picture) /\ Len(mpp) <= MppDepth
  /\ announced \in BOOLEAN
  /\ output \in {"get", "change", "wait", "blit", "publish", "done"}
  /\ frame \in 0..FilePackets /\ fresh \in Slot /\ dp \in Slot
  /\ buffer \in [Slot -> 0..FilePackets]
  /\ flag \in [Slot -> BOOLEAN]
  /\ encode \in {"wait", "run", "release", "done"}
  /\ ep \in Slot /\ taken \in 0..FilePackets
  /\ up \in BOOLEAN
  /\ put \in Nat /\ count \in Nat /\ last \in 0..FilePackets
  /\ lost \in BOOLEAN

\* The count-th picture that comes out is the count-th of the file, or else a
\* blank one, and this only if frame_change replaced a frame whose flag was
\* set: no picture is skipped, repeated or out of order (simple/main.c:83-146,
\* 254-298).
InOrder == last = count \/ (lost /\ last = 0)

\* The scaler never writes into the frame that the encoder is reading.
NoTornFrame == output = "blit" /\ encode \in {"run", "release"} => dp # ep

\* Both threads end only after the whole file: the decoder's when it has
\* handed over every picture, the encoder's when it has encoded every one.
EndsComplete ==
  /\ output = "done" => put = FilePackets
  /\ encode = "done" => output = "done" /\ count = FilePackets

\* What the encoder gets: the pictures of the file, in their order and whole,
\* and all of them before the threads end.
Delivers == InOrder /\ NoTornFrame /\ EndsComplete

\* The pictures handed over and not yet encoded, oldest first; one that
\* encoder_run has copied is the copy.
Pending == put - count
Oldest == IF encode = "release" THEN ep + 1 ELSE ep
Contents ==
  [i \in 1..Pending |->
     IF i = 1 /\ encode = "run" THEN taken ELSE buffer[Wrap(Oldest + i - 1, N)]]

Queue == INSTANCE BoundedQueue WITH
  Capacity <- N, queue <- Contents, broken <- lost

\* The flags make the N frames a queue of N pictures, as long as frame_change
\* does not replace a frame in it.
FramesAreQueue == Queue!Spec

\* The whole file is transcoded, unless Enter is pressed before: once, although
\* main says "Press Enter to stop loop decoding" (simple/main.c:357) and
\* decoder_read_packet rewinds the file for the loop.
AllEncoded == <>(~up \/ (encode = "done" /\ count = FilePackets))
=============================================================================
