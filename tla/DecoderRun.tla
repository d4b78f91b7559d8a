----------------------------- MODULE DecoderRun -----------------------------
(***************************************************************************)
(* decoder_run of mycode/mpi_decoder.c, which thread_output calls for      *)
(* ever, with the calls in it that can fail and the memory behind it.      *)
(*                                                                         *)
(* The decoder is external.  It announces the size of its pictures before  *)
(* the first and before each change with a frame of its own, and stops     *)
(* until MPP_DEC_SET_INFO_CHANGE_READY; it draws its pictures into the     *)
(* buffers of the group that it was given, and reuses a buffer when its    *)
(* frame is deinitialised.  frame_change (main.c) then puts N new frames   *)
(* into the ring, each before it has a buffer, and forgets the old ones    *)
(* without freeing them.                                                   *)
(*                                                                         *)
(* What the frames hold is the subject of FrameRing: here it is which of   *)
(* them have memory, and the index of the one drawn next.                  *)
(*                                                                         *)
(* An operator that a comment calls a mutant is not part of the            *)
(* specification: it is the definition after it with a bug in it, which    *)
(* the property named there must notice.                                   *)
(***************************************************************************)
EXTENDS Integers, Sequences, FiniteSets

CONSTANTS
  N,            \* BUFFER_SIZE
  Memory,       \* how many frames of the encoder's size can be allocated
  Limit,        \* the buffers of the decoder's group: 24
  MaxPictures,  \* bound: pictures that are decoded
  SizeChanges   \* the pictures before which the size changes

ASSUME SizesAssumption ==
  /\ N \in Nat \ {0} /\ Limit \in Nat \ {0} /\ Memory \in Nat
  /\ MaxPictures \in Nat
  /\ 1 \in SizeChanges /\ SizeChanges \subseteq Nat

VARIABLES
  decoded,    \* pictures decoded
  announced,  \* the size of the next picture was announced
  waits,      \* the decoder waits for MPP_DEC_SET_INFO_CHANGE_READY
  queue,      \* frames that can be got: "info" and "picture"
  output,     \* where thread_output is
  frame,      \* data->frame: "none", "info" or "picture"
  frm_grp,    \* data->frm_grp # NULL
  attached,   \* the decoder has the group
  fresh,      \* the slot of the ring that frame_change is at
  tail,       \* the frame that is drawn next
  allocated,  \* frames allocated for the encoder
  drawable,   \* for each slot of the ring: its frame has memory
  drawn,      \* history: pictures drawn
  changes,    \* history: calls of frame_change
  failed      \* history: decoder_run has returned -1

decoderVars == <<decoded, announced, queue>>
frameVars == <<fresh, allocated, drawable, changes>>
outputVars == <<decoderVars, waits, output, frame, frm_grp, attached,
                frameVars, tail, drawn, failed>>

OutputInit ==
  /\ decoded = 0 /\ announced = FALSE /\ waits = FALSE /\ queue = <<>>
  /\ output = "get" /\ frame = "none" /\ frm_grp = FALSE /\ attached = FALSE
  /\ fresh = 0 /\ tail = 0 /\ allocated = 0 /\ drawable = [i \in 0..N-1 |-> FALSE]
  /\ drawn = 0 /\ changes = 0 /\ failed = FALSE

\* Buffers of the decoder's group that hold a picture.
Pictures(q) == Cardinality({i \in 1..Len(q) : q[i] = "picture"})
Used == Pictures(queue) + (IF frame = "picture" THEN 1 ELSE 0)
-----------------------------------------------------------------------------
(***************************************************************************)
(* The decoder.                                                            *)
(***************************************************************************)
Announce ==
  /\ ~waits /\ ~announced
  /\ decoded < MaxPictures /\ decoded + 1 \in SizeChanges
  /\ queue' = Append(queue, "info")
  /\ announced' = TRUE /\ waits' = TRUE
  /\ UNCHANGED <<decoded, output, frame, frm_grp, attached, frameVars, tail, drawn,
                 failed>>

Decode ==
  /\ ~waits
  /\ decoded < MaxPictures
  /\ decoded + 1 \in SizeChanges => announced
  /\ Used < Limit
  /\ queue' = Append(queue, "picture")
  /\ decoded' = decoded + 1
  /\ announced' = FALSE
  /\ UNCHANGED <<waits, output, frame, frm_grp, attached, frameVars, tail, drawn,
                 failed>>
-----------------------------------------------------------------------------
(***************************************************************************)
(* decoder_run.                                                            *)
(***************************************************************************)
Run(from, to) ==
  /\ output = from
  /\ output' = to
  /\ UNCHANGED <<decoded, announced, tail, drawn>>

\* Mutant (TypeOK): an info change is taken for a picture.
GetFrameAny ==
  /\ queue # <<>>
  /\ Run("get", "draw")
  /\ frame' = Head(queue)
  /\ queue' = Tail(queue)
  /\ UNCHANGED <<waits, frm_grp, attached, frameVars, failed>>

\* decode_get_frame, which blocks, overwrites what data->frame was.
GetFrame ==
  /\ queue # <<>>
  /\ Run("get", IF Head(queue) = "picture" THEN "draw"
                ELSE IF frm_grp THEN "clear" ELSE "group")
  /\ frame' = Head(queue)
  /\ queue' = Tail(queue)
  /\ UNCHANGED <<waits, frm_grp, attached, frameVars, failed>>

\* A step of an info change: nothing but output and what it names.
Step(from, to) ==
  /\ Run(from, to)
  /\ UNCHANGED <<queue, frame, frameVars, failed>>

\* decoder_run returns -1, without mpp_frame_deinit.
Fails(from) ==
  /\ Run(from, "get")
  /\ failed' = TRUE
  /\ UNCHANGED <<queue, frame, waits, attached, frameVars>>

\* mpp_buffer_group_get_internal
GetGroup ==
  \/ Step("group", "attach") /\ frm_grp' = TRUE /\ UNCHANGED <<waits, attached>>
  \/ Fails("group") /\ UNCHANGED frm_grp

\* MPP_DEC_SET_EXT_BUF_GROUP; the group is not given back when it fails.
Attach ==
  \/ Step("attach", "limit") /\ attached' = TRUE /\ UNCHANGED <<waits, frm_grp>>
  \/ Fails("attach") /\ UNCHANGED frm_grp

\* mpp_buffer_group_clear
ClearGroup ==
  \/ Step("clear", "limit") /\ UNCHANGED <<waits, frm_grp, attached>>
  \/ Fails("clear") /\ UNCHANGED frm_grp

\* Mutant (FailuresAreFinal): the decoder is told before the limit is set.
LimitGroupReady ==
  \/ Step("limit", "ready") /\ waits' = FALSE /\ UNCHANGED <<frm_grp, attached>>
  \/ /\ Run("limit", "get")
     /\ failed' = TRUE /\ waits' = FALSE
     /\ UNCHANGED <<queue, frame, frm_grp, attached, frameVars>>

\* mpp_buffer_group_limit_config
LimitGroup ==
  \/ Step("limit", "ready") /\ UNCHANGED <<waits, frm_grp, attached>>
  \/ Fails("limit") /\ UNCHANGED frm_grp

\* MPP_DEC_SET_INFO_CHANGE_READY
Ready ==
  \/ Step("ready", "change") /\ waits' = FALSE /\ UNCHANGED <<frm_grp, attached>>
  \/ Fails("ready") /\ UNCHANGED frm_grp

\* frame_change, slot by slot: mpp_frame_init puts a new frame into the ring,
\* which has no buffer yet,
NewFrame ==
  /\ Run("change", "buffer")
  /\ drawable' = [drawable EXCEPT ![fresh] = FALSE]
  /\ changes' = IF fresh = 0 THEN changes + 1 ELSE changes
  /\ UNCHANGED <<waits, queue, frame, frm_grp, attached, fresh, allocated, failed>>

\* Mutant (PicturesInMemory): a frame takes the memory of two.
GetBufferTwice ==
  /\ Run("buffer", IF fresh = N - 1 THEN "deinit" ELSE "change")
  /\ fresh' = (fresh + 1) % N
  /\ \/ /\ allocated < Memory
        /\ allocated' = IF allocated + 2 < Memory THEN allocated + 2 ELSE Memory
        /\ drawable' = [drawable EXCEPT ![fresh] = TRUE]
     \/ allocated = Memory /\ UNCHANGED <<allocated, drawable>>
  /\ UNCHANGED <<waits, queue, frame, frm_grp, attached, changes, failed>>

\* and mpp_buffer_get allocates it.  frame_init returns -1 when there is no
\* memory, which is not looked at, and leaves the frame without a buffer.
GetBuffer ==
  /\ Run("buffer", IF fresh = N - 1 THEN "deinit" ELSE "change")
  /\ fresh' = (fresh + 1) % N
  /\ \/ /\ allocated < Memory
        /\ allocated' = allocated + 1
        /\ drawable' = [drawable EXCEPT ![fresh] = TRUE]
     \/ allocated = Memory /\ UNCHANGED <<allocated, drawable>>
  /\ UNCHANGED <<waits, queue, frame, frm_grp, attached, changes, failed>>

frame_change == NewFrame \/ GetBuffer

\* frame_preprocess: nothing but output and what it names.
Draws(from, to) ==
  /\ output = from
  /\ output' = to
  /\ UNCHANGED <<decoderVars, waits, frame, frm_grp, attached, frameVars, failed>>

\* It waits for a free frame (Codecs),
WaitRoom == Draws("draw", "blit") /\ UNCHANGED <<tail, drawn>>

\* draws the picture into it, or into nothing if it has no memory, and advances
\* tail,
Blit ==
  /\ Draws("blit", "wrap")
  /\ tail' = tail + 1
  /\ drawn' = drawn + 1

\* which is then reduced.
TailWrap ==
  /\ Draws("wrap", "deinit")
  /\ tail' = tail % N
  /\ UNCHANGED drawn

frame_preprocess == WaitRoom \/ Blit \/ TailWrap

\* mpp_frame_deinit
Deinit ==
  /\ Run("deinit", "get")
  /\ frame' = "none"
  /\ UNCHANGED <<waits, queue, frm_grp, attached, frameVars, failed>>

decoder_run ==
  GetFrame \/ GetGroup \/ Attach \/ ClearGroup \/ LimitGroup \/ Ready
    \/ frame_change \/ frame_preprocess \/ Deinit
-----------------------------------------------------------------------------
\* The decoder and thread_output, as far as they get without the encoder.
thread_output == Announce \/ Decode \/ decoder_run
-----------------------------------------------------------------------------
(***************************************************************************)
(* Properties.                                                             *)
(***************************************************************************)
OutputTypeOK ==
  /\ decoded \in 0..MaxPictures /\ announced \in BOOLEAN /\ waits \in BOOLEAN
  /\ queue \in Seq({"info", "picture"}) /\ Used <= Limit
  /\ output \in {"get", "group", "attach", "clear", "limit", "ready",
                 "change", "buffer", "draw", "blit", "wrap", "deinit"}
  /\ frame \in {"none", "info", "picture"}
  /\ output \in {"draw", "blit"} => frame = "picture"
  /\ frm_grp \in BOOLEAN /\ attached \in BOOLEAN
  /\ fresh \in 0..N-1 /\ tail \in 0..N /\ (tail = N => output = "wrap")
  /\ allocated \in 0..Memory /\ drawable \in [0..N-1 -> BOOLEAN]
  /\ drawn \in 0..MaxPictures /\ changes \in Nat /\ failed \in BOOLEAN

\* Pictures are decoded only into the group that decoder_run has made, also
\* after an info change on which it gave up half way.
DecodesIntoGroup == decoded > 0 => frm_grp /\ attached

\* The frames that pictures are drawn into have memory as long as there is
\* enough for all the frames that the changes of the size have left behind.
FramesDrawable ==
  output \in {"draw", "blit"} /\ changes * N <= Memory => \A i \in 0..N-1 : drawable[i]

\* "info change ready failed", "limit buffer group failed" and so on: once
\* decoder_run has returned -1, no picture of a new size is decoded, although
\* thread_output calls it again and again.
StopsForGood == [][failed => decoded' = decoded]_outputVars
=============================================================================
