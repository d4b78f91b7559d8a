----------------------------- MODULE FrameRing -----------------------------
(***************************************************************************)
(* The frame buffers of the live transcoder mycode/main.c, between         *)
(* thread_output, which scales every decoded picture into one of N frames  *)
(* (frame_preprocess), and thread_encoder.  Two shared indices, head and   *)
(* tail, take the place of the flags of simple/main.c; both are advanced   *)
(* and reduced in two stores (see GnTcp).  The full check is               *)
(* "tail + 1 == head", without the modulo, so the ring whose tail is on    *)
(* the last slot and whose head is on the first one does not look full.    *)
(*                                                                         *)
(* The decoder is external: it blocks until it has a picture, announces a  *)
(* new picture size before it, and never marks the end of a live stream.   *)
(* A picture is its number; 0 is a frame never drawn.                      *)
(*                                                                         *)
(* An operator that a comment calls a mutant is not part of the            *)
(* specification: it is the definition after it with a bug in it, which    *)
(* the property named there must notice.                                   *)
(***************************************************************************)
EXTENDS Integers, RingIndex

CONSTANTS
  N,            \* BUFFER_SIZE
  MaxPictures,  \* bound: how many pictures are decoded; the count of those
                \* encoded stops one above it (see GnTcp)
  SizeChanges   \* the pictures before which the picture size changes

ASSUME NAssumption == N \in Nat \ {0, 1}
ASSUME PicturesAssumption ==
  MaxPictures \in Nat \ {0} /\ SizeChanges \subseteq 1..MaxPictures
  /\ 1 \in SizeChanges            \* the first size is a change, too

VARIABLES
  head,      \* the slot that is encoded next
  tail,      \* the slot that is drawn next
  buffer,    \* buffer[]: the picture in every frame
  announced, \* the decoder has announced the size of its next picture
  output,    \* where thread_output is, in decoder_run and its callbacks
  fresh,     \* the slot that frame_change re-initialises next
  encode,    \* where thread_encoder is
  taken,     \* the picture in the frame that encoder_run copied
  put,       \* history: pictures whose frame_preprocess moved tail
  count,     \* encoder->frame_count: pictures encoded
  last,      \* history: the picture encoded last
  misled,    \* history: a check of head and tail drew the wrong conclusion
  lost       \* history: frame_change replaced a frame with a pending picture

outputVars == <<tail, announced, output, fresh, put>>
encodeVars == <<head, encode, taken, count, last>>
vars == <<outputVars, encodeVars, buffer, misled, lost>>

Slot == 0..N-1

Init ==
  /\ head = 0 /\ tail = 0
  /\ buffer = [i \in Slot |-> 0]
  /\ announced = FALSE /\ output = "get" /\ fresh = 0
  /\ encode = "wait" /\ taken = 0
  /\ put = 0 /\ count = 0 /\ last = 0
  /\ misled = FALSE /\ lost = FALSE

\* Pictures in the ring and not yet encoded; the slot of an encoded one is
\* in use until head++.
Pending == put - count
Oldest == IF encode = "advance" THEN head + 1 ELSE head
Held == IF encode = "advance" THEN Pending + 1 ELSE Pending
-----------------------------------------------------------------------------
(***************************************************************************)
(* thread_output: decoder_run with frame_change and frame_preprocess.      *)
(***************************************************************************)
Outputs(from, to) ==
  /\ output = from
  /\ output' = to
  /\ UNCHANGED encodeVars

\* decode_get_frame returns an info change: no picture, a new size.
GetInfoChange ==
  /\ put + 1 \in SizeChanges /\ ~announced
  /\ Outputs("get", "change")
  /\ announced' = TRUE
  /\ fresh' = 0
  /\ UNCHANGED <<tail, put, buffer, misled, lost>>

\* frame_change: one round of its loop puts a new frame into a slot, whether
\* or not a picture is waiting there.  An encoder_run that has copied the old
\* frame keeps a reference to its picture.
frame_change ==
  /\ Outputs("change", IF fresh = N - 1 THEN "get" ELSE "change")
  /\ buffer' = [buffer EXCEPT ![fresh] = 0]
  /\ fresh' = (fresh + 1) % N
  /\ lost' = \/ lost
             \/ \E j \in 0..Pending-1 : /\ fresh = (Oldest + j) % N
                                        /\ ~(j = 0 /\ encode = "run")
  /\ UNCHANGED <<tail, announced, put, misled>>

\* decode_get_frame, which blocks, returns a picture.
GetPicture ==
  /\ put < MaxPictures
  /\ put + 1 \in SizeChanges => announced
  /\ Outputs("get", "wait")
  /\ announced' = FALSE
  /\ UNCHANGED <<tail, fresh, put, buffer, misled, lost>>

\* Mutant (FramesAreQueue): no wait.
NeverFull == FALSE

\* frame_preprocess: while(tail + 1 == head); then the blit begins.  A full
\* ring looks as if it had room when the head is on slot 0.
LooksFull == tail + 1 = head

WaitRoom ==
  /\ ~LooksFull
  /\ Outputs("wait", "blit")
  /\ misled' = (misled \/ (head = 0 /\ tail = N - 1))
  /\ UNCHANGED <<tail, announced, fresh, put, buffer, lost>>

\* is done,
Blit ==
  /\ Outputs("blit", "advance")
  /\ buffer' = [buffer EXCEPT ![tail] = put + 1]
  /\ UNCHANGED <<tail, announced, fresh, put, misled, lost>>

\* tail++,
TailAdvance ==
  /\ Outputs("advance", "wrap")
  /\ tail' = tail + 1
  /\ put' = put + 1
  /\ UNCHANGED <<announced, fresh, buffer, misled, lost>>

\* tail = tail % BUFFER_SIZE.
TailWrap ==
  /\ Outputs("wrap", "get")
  /\ tail' = tail % N
  /\ UNCHANGED <<announced, fresh, put, buffer, misled, lost>>

thread_output ==
  GetInfoChange \/ frame_change \/ GetPicture \/ WaitRoom \/ Blit
    \/ TailAdvance \/ TailWrap
-----------------------------------------------------------------------------
(***************************************************************************)
(* thread_encoder.                                                         *)
(***************************************************************************)
Encodes(from, to) ==
  /\ encode = from
  /\ encode' = to
  /\ UNCHANGED <<outputVars, buffer, lost>>

\* Mutant (GoesOn): the tail is expected ahead of the head.
EmptyUnlessAhead == head >= tail

\* while(head == tail); then encoder_run copies the frame, a reference to
\* the picture.  (Before the first one the encoder is created from its size.)
\* An empty ring looks as if it held a picture when the head is on slot 0 and
\* the tail is not reduced yet.
LooksEmpty == head = tail

\* Mutant (Delivers): head advances before the frame is taken.
WaitFrameNext ==
  /\ ~LooksEmpty
  /\ Encodes("wait", "run")
  /\ taken' = buffer[(head + 1) % N]
  /\ misled' = (misled \/ (head = 0 /\ tail = N))
  /\ UNCHANGED <<head, count, last>>

WaitFrame ==
  /\ ~LooksEmpty
  /\ Encodes("wait", "run")
  /\ taken' = buffer[head]
  /\ misled' = (misled \/ (head = 0 /\ tail = N))
  /\ UNCHANGED <<head, count, last>>

\* encode_get_packet returns the packet, and frame_packet passes it on; both
\* block as long as they like.
encoder_run ==
  /\ Encodes("run", "advance")
  /\ count' = IF count > MaxPictures THEN count ELSE count + 1
  /\ last' = taken
  /\ UNCHANGED <<head, taken, misled>>

\* head++
HeadAdvance ==
  /\ Encodes("advance", "wrap")
  /\ head' = head + 1
  /\ UNCHANGED <<taken, count, last, misled>>

\* Mutant (TypeOK): head is not reduced.
HeadWrapForgets ==
  /\ Encodes("wrap", "wait")
  /\ UNCHANGED <<head, taken, count, last, misled>>

\* head = head % BUFFER_SIZE; no packet has the EOS mark.
HeadWrap ==
  /\ Encodes("wrap", "wait")
  /\ head' = head % N
  /\ UNCHANGED <<taken, count, last, misled>>

thread_encoder == WaitFrame \/ encoder_run \/ HeadAdvance \/ HeadWrap
-----------------------------------------------------------------------------
Next == thread_output \/ thread_encoder

Spec == Init /\ [][Next]_vars

\* Both threads are scheduled, and what the encoder delivers is passed on.
\* The decoder need not deliver another picture.
Fairness ==
  /\ WF_vars(frame_change) /\ WF_vars(WaitRoom) /\ WF_vars(Blit)
  /\ WF_vars(TailAdvance) /\ WF_vars(TailWrap)
  /\ WF_vars(thread_encoder)

FairSpec == Spec /\ Fairness
-----------------------------------------------------------------------------
(***************************************************************************)
(* Properties.                                                             *)
(***************************************************************************)
TypeOK ==
  /\ head \in 0..N /\ (head = N => encode = "wrap")
  /\ tail \in 0..N /\ (tail = N => output = "wrap")
  /\ buffer \in [Slot -> 0..MaxPictures]
  /\ announced \in BOOLEAN
  /\ output \in {"get", "change", "wait", "blit", "advance", "wrap"}
  /\ fresh \in Slot
  /\ encode \in {"wait", "run", "advance", "wrap"}
  /\ taken \in 0..MaxPictures
  /\ put \in 0..MaxPictures /\ count \in Nat /\ last \in 0..MaxPictures
  /\ misled \in BOOLEAN /\ lost \in BOOLEAN

\* Until a check is misled, the count-th picture encoded is the count-th
\* decoded, or else a blank one, and this only if frame_change replaced the
\* frame of a waiting picture (mycode/main.c:83-153, 226-270).
InOrder == misled \/ last = count \/ (lost /\ last = 0)

\* Until a check is misled, the scaler never writes into the frame that
\* the encoder is reading.
NoTornFrame ==
  output = "blit" /\ encode = "run" => misled \/ head # tail

\* Only a second change of the size blanks a picture; a misled check makes the
\* encoder miss pictures or repeat them, but never take a frame never drawn.
NeverBlank ==
  encode = "run" /\ taken = 0 => \E k \in SizeChanges \ {1} : k <= put + 1

\* What the encoder gets: the pictures decoded, in their order and whole, and
\* blank ones only for a change of the size.
Delivers == InOrder /\ NoTornFrame /\ NeverBlank

\* The pictures handed over and not yet encoded, oldest first; one that
\* encoder_run has copied is the copy.
Contents ==
  [i \in 1..Pending |->
     IF i = 1 /\ encode = "run" THEN taken ELSE buffer[Wrap(Oldest + i - 1, N)]]

Queue == INSTANCE BoundedQueue WITH
  Capacity <- N - 1, queue <- Contents, broken <- misled \/ lost

\* The frames are a queue of N-1 pictures until a check is misled or
\* frame_change replaces a frame in it.
FramesAreQueue == Queue!Spec

\* Decoder and encoder never wait for each other: a decoder that waits for
\* room gets it, also after a misled check.
DecoderResumes == output = "wait" ~> output # "wait"

\* Every picture decoded is encoded, unless a check is misled.
EverythingIsEncoded ==
  \A k \in 1..MaxPictures : put >= k ~> (count >= k \/ misled)

\* Neither thread is held up by the other for ever.
GoesOn == DecoderResumes /\ EverythingIsEncoded

\* "decoder wait buffer" (mycode/main.c:103) is what frame_preprocess logs in
\* its wait: it does not write a picture while all the N-1 frames that the
\* ring can hold are in use.
DecoderWaitsForRoom == output = "blit" => Held <= N - 2
=============================================================================
