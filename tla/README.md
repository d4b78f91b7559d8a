# A TLA+ model of dvb_stream_v1

The repository holds two programs for boards with a Rockchip video codec.

* `mycode/` is the **live transcoder**: it tunes a DVB-T channel, takes the
  transport stream from the demultiplexer device, decodes the H.264 video with
  the MPP library, scales every picture with the RGA unit, encodes it again, cuts
  it into transport stream packets and sends these, with the audio, PAT and PMT
  packets of the channel, over a TCP connection to one client.
* `simple/` is the **file transcoder**: it reads `demo.h264`, decodes, scales and
  encodes it and writes `out.ts`.

`include/` and `lib/` are vendored headers, sources and binaries of libdrm, MPP,
RGA and pthread; nothing in them is modelled.  There are no documents and no tests; what the
program claims about itself is in its comments and log messages.

## Inventory

| component | state | operations | talks to |
|---|---|---|---|
| Demultiplexer input (`thread_input`, `decoder_read_ts_packet`, `ts_packet_init`) | packet buffer of the decoder, `isHaveVideo`, `isWriteAudio`, first video PTS byte | read 188 bytes, parse, route by PID, rewrite audio PTS, retry `decode_put_packet` | MPP decoder (call), audio ring (`gn_tcp_audio_put`) |
| Frame buffers (`frame_change`, `frame_preprocess`, `thread_output`, `thread_encoder`) | `buffer[300]`, `head`, `tail` (mycode), `buffer_flag[]` and two static `p` (simple) | re-initialise all frames, wait for room, scale, publish; wait for a frame, encode, release | decoder and encoder through callbacks of `decoder_run` and `encoder_run`; shared memory between the two threads |
| Packetiser (`h264_to_ts`, `put_ts_header`, `put_pes_header`) | continuity counter, PTS accumulator | cut an access unit into packets | encoder (callback `frame_packet`), video ring (callback `ts`) |
| Output stage (`gn_tcp.c`, `rtp_sender`) | two rings of 10000 packets, `tcp_head`, `tcp_tail`, `tcp_audio_head`, `tcp_audio_tail`, PTS of each | put, send, listen | encoder thread, input thread, sender thread; the TCP peer |
| RTP output (`gn_rtp.c`) | two rings, one sequence number | put, send; only its initialisation is called | none |
| Startup (`main`, `gn_dvb.c`) | device descriptors, `ret`, the chosen program | open, tune, filter PIDs, accept the client, create threads | kernel; channel list |
| Channel list (`dvbcfg_zapchannel_parse`, `dvbcfg_common.c`) | program table in a local array | parse `channels.conf` line by line, field by field | startup |
| Decoder and encoder set-up (`decoder_run`, `encoder_data_init`, `encoder_run`) | buffer group, info change, encoder configuration, header | react to a change of the size, configure, put a frame, get its packet | MPP; frame buffers |
| Time stamps (`get_pts`, `get_audio_pts`, `tcp_get_pts`) | accumulators | advance, encode and decode 33 bits | packetiser, input, sender |

### What is hard here

No lock, condition variable or atomic operation occurs in the program.  Four
threads (input, decoder, encoder, sender) share rings whose indices are plain
integers, and poll them.

* An index is advanced by two statements, `i++; i %= SIZE;`, and the Makefiles
  build without optimisation, so both stores reach memory; another thread can see
  the index with the value `SIZE`.
* The full check of the frame ring has no modulo.
* A full packet ring makes its producer loop for ever; a full frame ring makes it wait.
* `frame_change` replaces every frame of the ring whatever waits in it.
* The sender serves two streams and a client that may stall or leave.
* The end of the stream, in the file transcoder, is a mark that passes through
  three threads.
* The threads hold each other up: which full ring stops which of them, and whether
  the rest goes on, is written down nowhere.
* The audio waits for the video by comparing one byte of two time stamps, and a
  packet lost on the way in shifts every later stamp.
* A stamp is a sum of floats, kept for as long as the program runs.
* Results of calls are ignored in `main`, in `thread_encoder` and in the list
  parser's caller; what goes on then is a program in a state nobody tried.

### What makes each component correct

Every hand-off is to be a bounded first-in first-out queue: nothing lost,
repeated, reordered or torn, nobody waiting for ever while there is work.
Packetiser: packets of 188 bytes that carry the access unit, byte for byte, with
consecutive continuity counters.  Input: every packet goes to the right place and
the audio starts.  Time stamps: they keep their rate.  Startup: the threads start only with
a tuned device.  The file transcoder: it encodes the whole file and then stops.
`PROJECT.json` lists the hazards line by line under `hazards`.

## Modules

| module | models |
|---|---|
| `BoundedQueue` | the abstract specification of every hand-off: a queue of `Capacity` numbered items, until the event `broken` |
| `RingIndex` | `Wrap`, the index arithmetic of the invariants |
| `GnTcp` | `mycode/gn_tcp.c` and `rtp_sender` |
| `FrameRing` | the frame buffers of `mycode/main.c` |
| `SimplePipeline` | the three threads of `simple/main.c` |
| `TsMux` | `h264_to_ts`, `put_pes_header`, `put_ts_header`, byte by byte, and a client that finds the payload as `ts_packet_init` does |
| `TsInput` | `thread_input`, `decoder_read_ts_packet`, `ts_packet_init` |
| `Pts` | `get_pts`, `get_audio_pts`, `tcp_get_pts` |
| `Transcoder` | the four threads of `mycode/main.c` and the client together |
| `ChannelList` | `dvbcfg_zapchannel_parse` and `dvbcfg_common.c` |
| `Startup` | `main` up to `getc`, with `ChannelList` in its place |
| `DecoderRun` | `decoder_run` with every MPP call that may fail, and `frame_change` with memory that runs out |
| `EncoderRun` | `encoder_data_init`, `encoder_get_header`, `encoder_run` and `thread_encoder` |
| `Codecs` | `DecoderRun` and `EncoderRun` as the two threads that share the frames |
| `MC...` | the instances for TLC |
| `...Proof` | the theorems about `GnTcp`, `FrameRing`, `SimplePipeline`, `TsInput`, `Transcoder`, `Startup` (with `ChannelList`) and `Codecs` (with `DecoderRun`, `EncoderRun`); those about `TsMux` and `Pts`, the two models of `conver_format.c`, are in `ConverFormatProof` |

`ChannelList`, `DecoderRun` and `EncoderRun` are components without a specification of their
own; `Startup` and `Codecs` extend them and put their actions into `Next`.
`GnTcp`, `FrameRing`, `SimplePipeline` and `Transcoder` instantiate `BoundedQueue` with a
refinement mapping.

An operator whose comment begins with *Mutant* is no part of a specification.
It is the definition that follows it with a bug in it, kept to show that the
property named in the comment notices that bug.

### `GnTcp`

One step per C statement that touches shared memory.  A ring is
`head[s]`, `tail[s]`, `slot[s]` for `s` in `{"video", "audio"}`; `putter[s]` says
where the producer of the stream is in `gn_tcp_put` or `gn_tcp_audio_put`, and
`sender` and `turn` where `rtp_sender` is.

| step | code |
|---|---|
| `PutFull`, `PutBegin` | the full check, `gn_tcp.c:159`, 226 |
| `PutCopy` | the `memcpy`, 168, 235 |
| `PutAdvance`, `PutWrap` | `tail++`, `tail %= TCP_BUFFER_NUMS`, 170-171, 237-238 |
| `SendEmpty`, `SendBegin` | the empty check and the reading of the PTS, 195-204, 247-260 |
| `SendData`, `SendFail` | `send()`, 206-210, 263-267 |
| `SendAdvance`, `SendWrap` | `head++`, `head %= TCP_BUFFER_NUMS`, 213-214, 269-270 |
| `ClientStalls`, `ClientResumes`, `ClientLeaves` | the peer (external) |

A packet is its number in its stream.  `put`, `sent`, `wire` and `raced` are
history variables.  `raced[s]` becomes true in exactly two steps: a producer
that compares with `head = N` while its tail is on the last slot, and a sender
that compares with `tail = N` while its head is on slot 0.  Until then each ring
is a queue of `N-1` packets (`RingsAreQueues`); afterwards packets can be lost or
repeated, but `NothingInvented`, a part of `Delivers`, still holds.  `gn_tcp.c:207` ends
the process when `send()` fails, and by default the signal `SIGPIPE` does so
before; both are `up = FALSE`.

### `FrameRing`

The states of `output` follow `decoder_run` and its callbacks: `get`
(`decode_get_frame`), `change` (the loop of `frame_change`, one frame a step),
`wait`, `blit`, `advance`, `wrap` (`frame_preprocess`).  Those of `encode` follow
`thread_encoder` and `encoder_run`.  `misled` marks the two checks that draw a wrong
conclusion: the full check with head 0 and tail `N-1`, and the empty check with
head 0 and an unreduced tail `N`.  `lost` marks a `frame_change` that replaces a
frame with a picture that waits.  `frame_copy` passes a reference to the
picture, so a picture once `taken` survives `frame_change`.

### `SimplePipeline`

As `FrameRing`, with flags in place of indices, and with the input: the file is
`FilePackets` packets, the decoder holds `MppDepth` of them and gives a picture for
each, and the last one has the EOS mark.  `Enter` is the return of `getc` in `main`.
The flag protocol needs no condition like `misled`.

### `TsMux`

A byte is a pair: where it comes from, and its offset there or its value.  `Begin` is the
call of `h264_to_ts` with an access unit, `Packet` one round of its loop with
the callback, `Return` its end.  `buffer` has one cell more than a packet: the copy
loop (`conver_format.c:221`, `i<=p+num`) writes it with every packet, and reads one byte
past the access unit in the last.  In the build this is a byte of padding on the
stack.  `received` is what the client has put together; it finds the payload behind the
adaptation field as `ts_packet_init` does, but keeps the PES headers that `ts_packet.c:68-106` skips.  `PacketsSound` shows that the stray byte never gets into a packet,
and `UnitArrives` that nothing else is wrong with the offsets.

### `TsInput`

A packet is a record of what the code looks at: its PID, the error bit, whether its lengths fit,
where its payload begins, whether a PES header and a PTS begin in it.  One action
for each way through `decoder_read_ts_packet`, and `decoder_put_packet` for one
call in the retry loop of `thread_input`.  `slot` is what the stack holds where
the uninitialised pointer `packet` lies: `ts_packet_init` leaves it unset for a
packet with the error bit, and the caller frees it.  `PtsByte` is the byte of the
PTS that `mpi_decoder.c:318` compares; `time` is the channel's clock, counted in audio PES packets, and
wraps.  The history variables `due` and `missed` count what the program's own audio
clock should show and what was lost on the way in.

### `Pts`

A clock adds a float to an `unsigned long`, so every sum is rounded to a float and then cut
off: `pts` is a multiple of `spacing`, which doubles when the mantissa is exhausted.
`Nearest` is the rounding, ties to even; `Coded` and `tcp_get_pts` the five bytes.
With the constants of the program (`Mantissa` 2^24, `pts_offset` 3003 and `Fraction`),
outside of any run because TLC's integers have 32 bits, the clock of the pictures is 16750 ticks
off when it reaches 2^26, 50360 the other way at 2^27, and stands still from 2^36 on, after
22392346 pictures or 8.6 days.  The audio's step is a multiple of 512, so it is exact
up to 2^33, where the code wraps anyway, and stands still from 2^39 on.

### `Transcoder`

Steps as long as a thread takes between two looks at what it shares.  The packet rings are
counters here, since `GnTcp` shows what they are; the frames are `head`, `tail` and their
checks, each index advanced and reduced in two steps as in `FrameRing`: `Draw` and `TailWrap`, `FreeFrame` and
`HeadWrap`.  `misled` marks the two checks that may go wrong: `WaitRoom` with the head on slot 0 and `N-1` pictures in
the ring, and `EncodePicture` on slot 0 with an empty ring while the tail is `N`, after which an old picture is
encoded again.  A picture comes from one packet and becomes `Parts` packets.  Either producer that finds its ring full becomes `"stuck"` for good.
What follows (`StuckThreads`): when it is the encoder, the frames fill, the decoder fills, `thread_input` retries for ever and the
sound stops with it, unless the encoder is stuck on frame 0, where `tail + 1 == head`
is never true: then all pictures are decoded and drawn over one another, and the sound goes on.
When it is `thread_input`, on a full audio ring, the pictures end with the sound: what is in the rings is sent
to a client that reads again, and then nothing.

### `ChannelList` and `Startup`

A line is the kinds of its fields, and the kinds of the fields in its comment.
`ParseName`, `ParseField` and `ParseServiceId` store one field each in the
next entry; `ParseFails` abandons the line and leaves what it stored.
The hash is replaced by a terminator, but `strchr` finds the terminator as
well, so that a line without a colon before its hash goes on behind it
(`InComment`): a comment can become a channel, which the code's own comment excludes (`CommentsRemoved`, run
`startup_comment`).  `Complete` says which lines are channels without their comments; `EntriesAreLines`, that each
of them makes an entry and that nothing else does but those comments.

`Startup` is one action per call of `main`, with success and failure; `pc` is the call
that is next.  `failed` remembers failures that were not noticed: the result of
`dvb_open_device` is not assigned (`main.c:342`), that of the first two `DMX_ADD_PID` is
overwritten (`gn_dvb.c:238`), and -1 of `decoder_data_init` is not tested as a failure.
What follows from them: the first and the last crash `main` before it creates a thread, the other starts the
threads without the audio or the PAT.  That the output file could be opened is not looked at either (`main.c:371`); the
threads start, and the encoder crashes with its first packet in `ts` (`OnlyOutputMissing`).  `Left` is the list after `dvbcfg_zapchannel_parse` has
returned a pointer to its local array: entries at the indices in `Reached`
may be overwritten by later calls.

### `DecoderRun`, `EncoderRun` and `Codecs`

`decoder_run` has one action per MPP call.  A failure ends it without `mpp_frame_deinit` and
without `MPP_DEC_SET_INFO_CHANGE_READY`, so the decoder waits for ever.
`frame_change` allocates `N` frames for each size and frees none; `Memory` is how many there
is room for.  The encoder thread goes on with whatever `encoder_data_init` left: nothing
(it crashes at the header), an encoder that was not initialised (it refuses the first frame, and
the thread looks for its packet for ever) or one with a part of its configuration (it encodes).
In `Codecs` the two wait for each other by `head == tail` and `tail + 1 == head`, with each index advanced and
reduced in two steps; `misled` is as in `Transcoder`.  `frame_change` goes from slot to slot: `NewFrame` is
`mpp_frame_init`, which puts the new frame into the ring, and `GetBuffer` allocates and attaches its memory.  In
between, the encoder can take a frame that has none, however much memory there is: `EncodesMemory` excepts just
this window.

## Runs

| run | instance | shows |
|---|---|---|
| `gntcp` | 3 slots, 6 video and 2 audio packets | `Delivers`: order, no torn packet, nothing invented; `RingsAreQueues`: refinement of `BoundedQueue` by both rings, a producer gives up only at a full one; `EverythingIsSent` |
| `gntcp_nodata` (violation) | 3 slots, 7 and 1 packets | "RTP no data" at a full ring |
| `frame` | 4 frames, 10 pictures, size changes at 1 and 6 | `Delivers`: order, no torn frame, no blank frame without a change of size; refinement; `GoesOn`: neither thread waits for ever, every picture is encoded |
| `frame_full` (violation) | 4 frames, 10 pictures | the decoder writes into a full ring |
| `simple` | 3 frames, 7 packets, size changes at 1 and 5 | `Delivers`: order, no torn frame, threads end only when complete; refinement; the whole file is transcoded |
| `tsmux` | packets of 188 bytes, access units that end up to three bytes before and two behind the end of the first, second and third packet, any sequence of them | the client gets every byte; packets can be taken apart; the counter has no gap; the loop ends |
| `tsinput` | a byte of 3 values, a clock that wraps after 8 audio PES packets, one packet lost or with an error | `Stamped`, `StartsInStep`, `AudioComes`, `CrashHasCause` |
| `transcoder` | 3 frames, one packet in the decoder and in each ring, one packet a picture, 6 pictures | `PicturesAreQueue` (refinement; the encoder has the oldest picture), `StuckThreads`, `Flows` |
| `pts` | a mantissa of 17 bits, 300000 pictures | the codes are right, the drift is bounded, the clock advances, and stops |
| `startup` | files of up to four lines of seven shapes, three entries, choices in and beyond the list | `EntriesAreLines`, `ThreadsComplete`, `TunedToChoice` |
| `startup_comment` (violation) | the same files | a comment becomes a channel |
| `codecs` | 3 frames, memory for 7, sizes that change at 1, 4 and 6, 7 pictures | `PicturesInMemory`, `PacketsFit`, `FailuresAreFinal`, `AllTranscoded` |

Bounds.  The rings of the program have 10000 packets and 300 frames.  What
happens in a ring depends on whether it is empty, full, one from either, and on
the wrap-around; 3 or 4 slots and more than two laps reach all of these together with
the misled checks (which need a full lap first) and what follows them.  `sent` and `count` stop
one above the number of packets, because a misled consumer can replay old slots without end; an
invariant that compares them has `raced` or `misled` as a condition then.
In `Transcoder` more pictures come than all stages hold, so that each queue fills while the others
are in any state; a picture is one packet for the client, which fills the video ring as well as two would.  The number of access units in `TsMux` and of audio packets in `TsInput` has no
bound.  A mantissa of 17 bits instead of 24 shortens the life of the clock from 22 million
pictures to less than 300000; the theorems hold for any.  Four lines in `Startup` are
one more than there are entries.

Deadlock is checked except in `frame` and `frame_full`, where a live stream that
stops delivering pictures leaves both threads waiting, rightly.

Fairness.  `GnTcp`: the sender thread is scheduled (weak fairness of its steps);
`send()` completes if the peer reads again and again (strong fairness of
`SendData`, since a peer that alternates between reading and stalling disables it
each time); a stalled client resumes.  Nothing is assumed of the producers, which
may stop anywhere.  `FrameRing`: both threads are scheduled, and the encoder's
packet is passed on, that is, the video ring is not full for ever; the decoder
need not deliver.  `SimplePipeline`: the three threads are scheduled, the codecs
answer; nobody has to press Enter.  `TsMux`: the encoder thread is scheduled and the video
ring has room.  `TsInput`: the decoder takes a packet in the end, and audio with
time stamps gets through again and again at every time of the clock (an assumption about the
channel, which only `AudioComes` needs).  `Transcoder`: the threads are scheduled, the codecs answer,
the channel goes on, a client that stalls reads again or leaves; strong fairness
for `send()` and for the input, which a stall or a retry disables again and again.
`Pts`: the stream goes on.  `Codecs`: both threads are scheduled; a codec call may still fail.

## Proofs

`GnTcpProof`, for every `N >= 2`, every `MaxPuts` and every `PesStart`: `TypeCorrect`,
`Ordered`, `NeverTorn`, `NeverInvented`, `Correct`, which is `Spec => []Delivers`, and
`Refines`, `Spec => RingsAreQueues`.
`InOrder` compares only the last packet sent with a count, so it is not
inductive.  The invariant `IInv` adds, for every stream that is not `raced`:

* `Counts`: at most `N-1` slots are in use, one less while the producer copies, and the
  sender in `send()` has a packet;
* `Layout`: the pending packets lie in consecutive slots, in order, from the
  first one up to the tail, and a copied packet lies at the tail;

and, for every stream, `Written`: on the first lap the sender stays behind the
tail, and after it no slot is unwritten.  The step is proved action by action
(`SoundPut`, `SoundSend`, `WrittenPut`, `WrittenSend`), with the other stream
dealt with once (`Elsewhere`, `KeptElsewhere`).  The modulo of the code is
replaced by `Wrap` in lemma `ModN`; the arithmetic of the two checks is in
`NotFull` and `NotEmpty`, whose hypotheses are just the negation of `raced`.

`ConverFormatProof`, of `TsMux`, for every packet size above 5, every length of the PES header from 1,
of the parameter sets and of the pictures: `TypeCorrect`, `Arrives` (`UnitArrives`), `WellFormed`
(`Parsable`), `Overruns` (`OneBytePast`), `SoundPackets` (`PacketsSound`) and `NoGap`
(`Contiguous`).  `IInv` is `TypeOK`, `Parsable`, `OneBytePast`, what has been
received up to `p`, and `Counted`, that the counter of the code is the one the client
saw last.  One lemma for each of the three cases of the stuffing (none, one byte, more) gives
the layout of the packet; the continuity of the payload follows from it.

Of `Pts`, for every even mantissa and every step below it: `PtsTypeCorrect`, `Carried`
(`Truthful`, for every stamp, however large), `Drift` (`DriftBounded`) and `Increasing`
(`Advances`).  The lemmas are about `Nearest`: it is a multiple, at most half a
spacing away, and the spacing never has to double twice.

`FrameRingProof`, for every `N >= 2`, any number of pictures and changes of the size anywhere:
`TypeCorrect`, `Correct` (`Delivers`) and `Refines` (`FramesAreQueue`).  `IInv` adds, as long as no
check is misled, `Layout`, that the frames in use are the `Held` ones from `head` up to
`tail`, at most `N-1` and one less while one is drawn, and `Holds`, that each
holds the picture due there or, if `lost`, a blank one.  `Drawn` does without the condition on
`misled`: before the second change of the size the encoder stays behind the tail on the
first lap, and after it there is no blank frame left to take.

`SimplePipelineProof`, for every `N >= 1`, any length of the file and changes of the size anywhere:
`TypeCorrect`, `Correct` (`Delivers`) and `Refines` (`FramesAreQueue`).  `Fed` says that the packets
follow one another through the decoder, also over the end of the file; `Gets`, that
`thread_output` gets them once and in order; `Flags`, that the flags that are set are one run of the ring
from `ep` to `dp`; `Holds`, as above.

`TranscoderProof`, for stages of any depth, at least two frames and any number of packets: `TypeCorrect`,
`Refines` (`PicturesAreQueue`), `StandsForEver` and `NeverLooksFull`.  Three counts say where each picture is:
`Given` to the decoder, `Drawn`, and `count`, the one encoded last.  `Places` is that the decoder and
`thread_output` have the pictures behind those drawn, one after the other; `Ring`, that `tail` is `Drawn`, once it is
reduced.  `Holds` is for as long as no check is misled: `head` reduced is `count` reduced, at most `N-1` pictures are in
the frames, one less while one is drawn, frame `k % N` holds picture `k + 1` for each `k` from `count` to `Drawn`, and the
encoder has the first of them.  That a picture drawn does not touch these takes `OneLap`: two numbers in the same frame,
less than a lap apart, are equal.  Lemma `Unreduced` is why an index between its two stores misleads no other check:
an unreduced index is the same modulo `N`, which is all that `Held` looks at.  `StandsForEver` and `NeverLooksFull` are the safe halves of `StuckThreads` for the encoder:
once all three threads wait in a row for the encoder, no step of the client or of `rtp_sender` moves them; and an
encoder stuck on frame 0 makes nobody wait.  That they come to stand is left to TLC.

The four refinements go one way.  While nothing is `broken`, the invariant determines the refined
queue from the two counts alone: it is `After(count, Pending)`, the `Pending` numbers after
`count` (in `Transcoder` the numbers up to `Given`, and lemma `AfterJoins` puts the three stages together).  So a
step that moves neither count stutters, the one that moves `put` (`Given`) is
`Put` and the one that moves `count` (`sent`) is `Take`; lemma `AfterIsQueue`, in each of the
four modules, says what `Append`, `Head` and `Tail` make of it.

`TsInputProof`, for every length of the clock's lap, every number of values of the compared byte and ticks
in it, every lead of the video and bound on losses: `TypeCorrect`, `Stamps` (`Stamped`), `Crashes`
(`CrashHasCause`) and `Starts` (`StartsInStep`).  `IInv` is the invariants with
`Counting`, that no clock moves before the audio is let through, nor that before there
is video; `Remembers`, that until then `video_pts` is the byte of the first video time stamp; and `Dangles`, that in a
process that is alive the pointer is stale at most right behind a video packet.  `Stamped` alone is not inductive: a step
that starts the audio needs both clocks at 0.  Both clocks are reduced at every step, the sum in
`InSync` once more, so lemma `ReducedTwice`; `HigherIsLater` takes the compared byte back to the time.

`StartupProof`, for lists of any length, lines of any shape, any choice and any call that fails:
`TypeCorrect`, `ListOfLines` (`EntriesAreLines`), `Threaded` (`ThreadsComplete`) and `Tunes`
(`TunedToChoice`).  The parser's half of the invariant is `Progress`: between two fields, those before are in the
entry with the number of this line, they were what they must be, and `line_pos` is the rest of the line.  An
abandoned line leaves fields behind in the entry, and it is `Progress` that says the next line
overwrites all of them before `count` moves, and whether they come out of its comment.  `Entries` adds the order of the entries, from which lemma
`EntryCounts` counts the lines that make an entry up to the one chosen; lemma `CompleteAccepted` says that these are
the complete ones unless a comment was read.  Main's half is `Sequence`, what is there before each
call, and `Selected`, which filters are set by then, those left out whose call failed.  Neither half's steps disturb the other's.

`CodecsProof`, for a ring and a buffer group of any size, any memory and changes of the size at any
pictures: `TypeCorrect`, `InMemory` (`PicturesInMemory`), `Fits` (`PacketsFit`) and `NoSecondChance`
(`FailuresAreFinal`).  `Change` follows an info change from the decoder to `decoder_run`: the decoder stops with it, so there is
at most one and nothing is behind it; `SetUp` says what exists at each step of `decoder_run`; `Counts`, that each picture decoded is in the
queue, in `frame` or drawn; `Frames`, which frames have memory, with those up to `fresh` and those behind it kept apart
while `frame_change` runs; `Ring`, that `tail` is `drawn`, once it is reduced; `Encoding`, what `encoder_run` has
in hand; `Ahead`, that until a check is misled `head` and `tail` are less than a lap apart, as the counts are
(lemma `HeldIs`).  `EncodesMemory` rests on `Frames`, once a picture was drawn: it does not matter
which frame the encoder takes.

All theorems hold for every value of the constants that the named assumptions of the modules allow.  These ask
for sizes that are natural numbers, positive where the code divides by them or has at
least one, as its `#define`s and tables have; TLC evaluates them in the runs.

Every invariant, action property and refinement that a passing run checks is a theorem.  Only model-checked are
the liveness properties `EverythingIsSent`, `AllEncoded`, `GoesOn`, `UnitEnds`, `AudioComes`, `StuckThreads`, `Flows`,
`ClockStops` and `AllTranscoded`, which are out of the prover's reach (fairness and `ENABLED`).

## What the models show of the code

Three contradict what the program says of itself, and are runs of their own (`gntcp_nodata`,
`frame_full`, `startup_comment`).  Others that the properties state as they are:

* The file transcoder goes through the file once: `main` says that it loops until Enter (`simple/main.c:357`), and
  the file is rewound, but the threads end with the first EOS mark (`AllEncoded`).
* A full packet ring stops its thread for good, and either of them ends the pictures and the sound; only
  an encoder that gave up on frame 0 leaves the sound.
* The audio never starts if the compared byte of the first video PTS has its highest value,
  127, one of 128 values; otherwise it may start up to a lap of that byte late.
* Every packet lost on the way in that begins an audio PES packet makes the audio late for ever.
* A packet with the error bit, first or right behind a video packet, can crash the
  program; elsewhere the freed pointer is NULL.
* A change of the picture size keeps the old frames allocated, and shows the encoder each new frame before it has
  a buffer.
* The encoder, once it has caught up, can encode old pictures again when the tail wraps.
* The time stamps of the pictures drift, and stop after 8.6 days.
* Failures of `dvb_open_device`, `decoder_data_init`, `encoder_data_init` and two of three
  `DMX_ADD_PID` pass unnoticed, as does an output file that cannot be opened; the program is returned a pointer into a stack frame that is gone.

## What is assumed and left out

* Memory is sequentially consistent, and an `int` is read and written in one
  piece.  The program has no barriers; on its ARM processor a slot and an index may
  become visible in another order.  The models do not show that.
* The contents of a packet or a picture are its number, but in `TsMux`.  A copy has a beginning
  and an end; what a reader sees in between is not modelled, but that it would happen is
  a property (a part of `Delivers`).
* `send()` takes a whole packet or fails, and a read of the demultiplexer gives a whole packet or fails: the code
  logs a shorter one and parses the buffer all the same (`mpi_decoder.c:246-263`), but a read that blocks does not
  return one.
* MPP and RGA calls succeed outside of `Codecs`; one packet is one picture.  A picture is lost
  only where the program loses it.

### Not modelled

* `gn_rtp_put`, `gn_rtp_send` and their audio counterparts, `isVideo`, `isAudio`,
  `dvb_close_device`, `decoder_data_deinit`, `encoder_data_deinit`, `get_video_pts`,
  `dvbcfg_parse_char`: nothing calls them.
* `calculate_fps` and the statistics of `thread_encoder`: only logged.  Their division by the
  seconds since the start is by zero in the first one, which is 0 on the
  AArch64 processor of the build.
* The RGA blit and the buffers behind a frame beyond whether they are there.
* `include/` and `lib/`: vendored headers and libraries.  They are nearly all of the
  repository's lines; the two programs together are about 4400.

## Plan

1. Delayed stores: `GnTcp` with a store buffer between the slot and the index.
2. `GnRtp`, once something calls it: the rings that drop instead of stopping, and the shared sequence number.
