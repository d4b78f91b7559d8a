------------------------------- MODULE GnTcp -------------------------------
(***************************************************************************)
(* mycode/gn_tcp.c and the thread rtp_sender of mycode/main.c: the last    *)
(* stage of the live transcoder.  Two rings of TS packets, one for video   *)
(* and one for the audio, PAT and PMT packets, each filled by one thread   *)
(* (video: thread_encoder through ts(); audio: thread_input) and both      *)
(* emptied in turn by rtp_sender into one TCP connection.                  *)
(*                                                                         *)
(* Nothing but the four plain int indices synchronises the threads, and    *)
(* the Makefile builds without optimisation: "tail++; tail %= N;" is two   *)
(* stores, and the other thread can read the index between them, when it   *)
(* may equal N.  Every C statement that reads or writes shared memory is   *)
(* therefore a step of its own here; memory is sequentially consistent.    *)
(*                                                                         *)
(* A packet is its number in its stream (1, 2, ...); slot 0 means the      *)
(* zeroed static array, to which no packet has been copied.                *)
(*                                                                         *)
(* An operator that a comment calls a mutant is not part of the            *)
(* specification: it is the definition after it with a bug in it, which    *)
(* the property named there must notice.                                   *)
(***************************************************************************)
EXTENDS Integers, RingIndex

CONSTANTS
  N,         \* TCP_BUFFER_NUMS
  MaxPuts,   \* bound: how many packets each stream's producer offers; the
             \* count of packets sent stops one above it (a sender misled
             \* on an empty ring can replay old slots without end)
  PesStart   \* the packets that begin a PES packet (bytes 4..7 = 00 00 01 E0/C0)

Stream == {"video", "audio"}
Other(s) == CHOOSE t \in Stream : t # s

ASSUME NAssumption == N \in Nat \ {0, 1}
ASSUME PutsAssumption == MaxPuts \in [Stream -> Nat]

VARIABLES
  head,     \* tcp_head, tcp_audio_head
  tail,     \* tcp_tail, tcp_audio_tail
  slot,     \* tcp_buffer, tcp_audio_buffer
  pts,      \* video_pts, audio_pts: the packet they were last read from
  putter,   \* where the producer of a stream is in gn_tcp_put / _audio_put
  sender,   \* where rtp_sender is in gn_tcp_send / gn_tcp_audio_send ...
  turn,     \* ... and for which stream
  up,       \* the process runs
  client,   \* what the peer of recfd does with the connection
  put,      \* history: packets whose gn_tcp_put moved tail
  sent,     \* history: packets handed to send()
  wire,     \* history: the packet that the latest send() carried
  raced     \* history: a check of this ring was misled by an unreduced index

ringVars   == <<head, tail, slot, put, sent, wire, raced>>
clientVars == <<up, client>>
vars == <<head, tail, slot, pts, putter, sender, turn, up, client,
          put, sent, wire, raced>>

\* gn_tcp_init, gn_tcp_listener: the indices and the PTS are zeroed, and
\* main starts the threads once accept() has returned a client.
Init ==
  /\ head = [s \in Stream |-> 0]
  /\ tail = [s \in Stream |-> 0]
  /\ slot = [s \in Stream |-> [i \in 0..N-1 |-> 0]]
  /\ pts = [s \in Stream |-> 0]
  /\ putter = [s \in Stream |-> "idle"]
  /\ sender = "check"
  /\ turn = "video"
  /\ up = TRUE
  /\ client = "reading"
  /\ put = [s \in Stream |-> 0]
  /\ sent = [s \in Stream |-> 0]
  /\ wire = [s \in Stream |-> 0]
  /\ raced = [s \in Stream |-> FALSE]
-----------------------------------------------------------------------------
(***************************************************************************)
(* The producer of a stream: gn_tcp_put(data), gn_tcp_audio_put(data).     *)
(***************************************************************************)
At(s, from, to) ==
  /\ up
  /\ putter[s] = from
  /\ putter' = [putter EXCEPT ![s] = to]
  /\ UNCHANGED <<pts, sender, turn, up, client, sent, wire>>

\* Mutant (RingsAreQueues): no modulo, as in FrameRing.
FullUnreduced(s) == head[s] = tail[s] + 1

Full(s) == head[s] = (tail[s] + 1) % N

\* The ring looks full: the call enters while(1) and never leaves it, since
\* the loop does not read tcp_head again.
PutFull(s) ==
  /\ put[s] < MaxPuts[s]
  /\ Full(s)
  /\ At(s, "idle", "stuck")
  /\ UNCHANGED <<head, tail, slot, put, raced>>

\* The ring does not look full.  It is, if the head is the N of a sender that
\* has not reduced it yet and the tail is on the last slot.
PutBegin(s) ==
  /\ put[s] < MaxPuts[s]
  /\ ~Full(s)
  /\ At(s, "idle", "copy")
  /\ raced' = [raced EXCEPT ![s] = @ \/ (head[s] = N /\ tail[s] = N - 1)]
  /\ UNCHANGED <<head, tail, slot, put>>

\* memcpy(tcp_buffer[tcp_tail], data, 188) completes.
PutCopy(s) ==
  /\ At(s, "copy", "advance")
  /\ slot' = [slot EXCEPT ![s][tail[s]] = put[s] + 1]
  /\ UNCHANGED <<head, tail, put, raced>>

\* tcp_tail++
PutAdvance(s) ==
  /\ At(s, "advance", "wrap")
  /\ tail' = [tail EXCEPT ![s] = @ + 1]
  /\ put' = [put EXCEPT ![s] = @ + 1]
  /\ UNCHANGED <<head, slot, raced>>

\* tcp_tail %= TCP_BUFFER_NUMS
PutWrap(s) ==
  /\ At(s, "wrap", "idle")
  /\ tail' = [tail EXCEPT ![s] = @ % N]
  /\ UNCHANGED <<head, slot, put, raced>>

Put(s) == PutFull(s) \/ PutBegin(s) \/ PutCopy(s) \/ PutAdvance(s) \/ PutWrap(s)

gn_tcp_put == Put("video")
gn_tcp_audio_put == Put("audio")
-----------------------------------------------------------------------------
(***************************************************************************)
(* The sender: gn_tcp_send() and gn_tcp_audio_send(), called in turn.      *)
(***************************************************************************)
Sending(s, from, to) ==
  /\ up
  /\ turn = s
  /\ sender = from
  /\ sender' = to
  /\ UNCHANGED <<putter, up, client, tail, slot, put>>

\* Mutant (EverythingIsSent): wait for a packet of this stream.
SendEmptyWaits(s) ==
  /\ head[s] = tail[s]
  /\ Sending(s, "check", "check")
  /\ UNCHANGED <<head, pts, turn, sent, wire, raced>>

\* "RTP no data": return, and the loop calls the other stream's function.
SendEmpty(s) ==
  /\ head[s] = tail[s]
  /\ Sending(s, "check", "check")
  /\ turn' = Other(s)
  /\ UNCHANGED <<head, pts, sent, wire, raced>>

\* Mutant (Delivers): the slot is released before it is sent.
SendBeginReleasing(s) ==
  /\ head[s] # tail[s]
  /\ Sending(s, "check", "send")
  /\ head' = [head EXCEPT ![s] = (@ + 1) % N]
  /\ raced' = [raced EXCEPT ![s] = @ \/ (head[s] = 0 /\ tail[s] = N)]
  /\ UNCHANGED <<pts, turn, sent, wire>>

\* There seems to be a packet; its PTS is read if it begins a PES packet.
\* There is none if the tail is the N of a producer that has not reduced it
\* yet and the head is back on slot 0.
SendBegin(s) ==
  /\ head[s] # tail[s]
  /\ Sending(s, "check", "send")
  /\ pts' = IF slot[s][head[s]] \in PesStart
              THEN [pts EXCEPT ![s] = slot[s][head[s]]] ELSE pts
  /\ raced' = [raced EXCEPT ![s] = @ \/ (head[s] = 0 /\ tail[s] = N)]
  /\ UNCHANGED <<head, turn, sent, wire>>

\* send(recfd, tcp_buffer[tcp_head], 188, 0) blocks while the client stalls.
SendData(s) ==
  /\ client = "reading"
  /\ Sending(s, "send", "advance")
  /\ sent' = [sent EXCEPT ![s] = IF @ > MaxPuts[s] THEN @ ELSE @ + 1]
  /\ wire' = [wire EXCEPT ![s] = slot[s][head[s]]]
  /\ UNCHANGED <<head, pts, turn, raced>>

\* send() on a closed connection: the process ends (SIGPIPE, or exit(1)).
SendFail(s) ==
  /\ up
  /\ turn = s
  /\ sender = "send"
  /\ client = "gone"
  /\ up' = FALSE
  /\ UNCHANGED <<ringVars, pts, putter, sender, turn, client>>

\* tcp_head++
SendAdvance(s) ==
  /\ Sending(s, "advance", "wrap")
  /\ head' = [head EXCEPT ![s] = @ + 1]
  /\ UNCHANGED <<pts, turn, sent, wire, raced>>

\* Mutant (TypeOK): the head is not reduced.
SendWrapForgets(s) ==
  /\ Sending(s, "wrap", "check")
  /\ turn' = Other(s)
  /\ UNCHANGED <<head, pts, sent, wire, raced>>

\* tcp_head %= TCP_BUFFER_NUMS, usleep, return.
SendWrap(s) ==
  /\ Sending(s, "wrap", "check")
  /\ head' = [head EXCEPT ![s] = @ % N]
  /\ turn' = Other(s)
  /\ UNCHANGED <<pts, sent, wire, raced>>

Send(s) ==
  \/ SendEmpty(s) \/ SendBegin(s) \/ SendData(s) \/ SendFail(s)
  \/ SendAdvance(s) \/ SendWrap(s)

gn_tcp_send == Send("video")
gn_tcp_audio_send == Send("audio")
rtp_sender == gn_tcp_send \/ gn_tcp_audio_send
-----------------------------------------------------------------------------
(***************************************************************************)
(* The peer: it may stop reading until the socket buffer is full, read     *)
(* again, or close the connection.                                         *)
(***************************************************************************)
Client(from, to) ==
  /\ up
  /\ client \in from
  /\ client' = to
  /\ UNCHANGED <<ringVars, pts, putter, sender, turn, up>>

ClientStalls  == Client({"reading"}, "stalled")
ClientResumes == Client({"stalled"}, "reading")
ClientLeaves  == Client({"reading", "stalled"}, "gone")

\* The only way the program stops.
Exited == ~up /\ UNCHANGED vars

Next ==
  \/ gn_tcp_put \/ gn_tcp_audio_put
  \/ rtp_sender
  \/ ClientStalls \/ ClientResumes \/ ClientLeaves
  \/ Exited

Spec == Init /\ [][Next]_vars

\* rtp_sender is a thread that spins without blocking except in send(); the
\* kernel completes a blocked send() when the peer has made room, however
\* briefly it reads, and the peer does not stall for ever.  Nothing is
\* assumed of the producers.
Fairness ==
  /\ \A s \in Stream :
       /\ WF_vars(SendEmpty(s)) /\ WF_vars(SendBegin(s))
       /\ SF_vars(SendData(s)) /\ WF_vars(SendFail(s))
       /\ WF_vars(SendAdvance(s)) /\ WF_vars(SendWrap(s))
  /\ WF_vars(ClientResumes)

FairSpec == Spec /\ Fairness
-----------------------------------------------------------------------------
(***************************************************************************)
(* Properties.                                                             *)
(***************************************************************************)

\* Every variable has its type; an index is at most N, and only between the
\* two statements that advance and reduce it.
TypeOK ==
  /\ head \in [Stream -> 0..N]
  /\ tail \in [Stream -> 0..N]
  /\ slot \in [Stream -> [0..N-1 -> Nat]]
  /\ pts \in [Stream -> Nat]
  /\ putter \in [Stream -> {"idle", "copy", "advance", "wrap", "stuck"}]
  /\ sender \in {"check", "send", "advance", "wrap"}
  /\ turn \in Stream
  /\ up \in BOOLEAN
  /\ client \in {"reading", "stalled", "gone"}
  /\ put \in [Stream -> Nat]
  /\ sent \in [Stream -> Nat]
  /\ wire \in [Stream -> Nat]
  /\ raced \in [Stream -> BOOLEAN]
  /\ \A s \in Stream : /\ tail[s] = N => putter[s] = "wrap"
                       /\ head[s] = N => sender = "wrap" /\ turn = s

\* Packets of s that are in the ring and not yet handed to send().
Pending(s) == put[s] - sent[s]

\* The index of the oldest of them: a packet handed to send() keeps its slot
\* until tcp_head++.
First(s) == IF turn = s /\ sender = "advance" THEN head[s] + 1 ELSE head[s]

\* The TCP stream is the put sequence: the latest packet on the wire is the
\* sent-th packet of its stream, so none was lost, repeated or overtaken by
\* the wrap-around, as long as no check was misled (gn_tcp.c:155-276).
InOrder == \A s \in Stream : raced[s] \/ wire[s] = sent[s]

\* While the sender is in send() with a slot, no memcpy of gn_tcp_put is
\* writing that slot, as long as no check was misled.
NoTornPacket ==
  \A s \in Stream :
    (putter[s] = "copy" /\ sender = "send" /\ turn = s) =>
      raced[s] \/ head[s] # tail[s]

\* Even after a misled check, what is handed to send() is a packet that was
\* put, never the zeroed initial contents of a slot.
NothingInvented ==
  \A s \in Stream : (sender = "send" /\ turn = s) => slot[s][head[s]] # 0

\* What the client gets from each ring: the packets put, in their order, whole,
\* and only those.
Delivers == InOrder /\ NoTornPacket /\ NothingInvented

\* A producer gives up for ever ("TCP video buffer full", gn_tcp.c:161) only
\* when N-1 packets are waiting or one of them is just being released.
StuckOnlyWhenFull ==
  [][\A s \in Stream : (putter[s] # "stuck" /\ putter'[s] = "stuck" /\ ~raced[s])
       => put[s] - sent[s] + (IF First(s) = head[s] THEN 0 ELSE 1) = N - 1]_vars

\* With a client that keeps reading, every packet put is sent, even if the
\* producer of either stream is stuck or stops between any two statements.
EverythingIsSent ==
  \A s \in Stream : \A k \in 1..MaxPuts[s] :
    put[s] >= k ~> (sent[s] >= k \/ raced[s] \/ ~up)

\* The ring of stream s as a queue: the slots from First(s) on.
Contents(s) ==
  [i \in 1..Pending(s) |-> slot[s][Wrap(First(s) + i - 1, N)]]

VideoQueue == INSTANCE BoundedQueue WITH
  Capacity <- N - 1, queue <- Contents("video"), last <- wire["video"],
  broken <- raced["video"]

AudioQueue == INSTANCE BoundedQueue WITH
  Capacity <- N - 1, queue <- Contents("audio"), last <- wire["audio"],
  broken <- raced["audio"]

\* The video ring implements the bounded queue of N-1 packets; the only way
\* it departs from it is a misled check.
VideoIsQueue == VideoQueue!Spec

\* So does the ring that thread_input fills with audio, PAT and PMT packets.
AudioIsQueue == AudioQueue!Spec

\* Each ring is a queue of N-1 packets for as long as no check was misled, and
\* a producer gives up on it only when it is full.
RingsAreQueues == VideoIsQueue /\ AudioIsQueue /\ StuckOnlyWhenFull

\* The comment of gn_tcp_send's early return, "RTP no data" (gn_tcp.c:196):
\* when it is taken, every packet put into that ring has been sent.
NoDataMeansNoData ==
  [][\A s \in Stream : SendEmpty(s) => sent[s] >= put[s]]_vars
=============================================================================
