------------------------------- MODULE TsMux -------------------------------
(***************************************************************************)
(* h264_to_ts of mycode/conver_format.c with put_pes_header and            *)
(* put_ts_header (simple/conver_format.c differs in the PID and the frame  *)
(* rate only): an encoded access unit, behind a PES header of 20 bytes and *)
(* with the parameter sets in front of it if it is an IDR picture, is cut  *)
(* into transport stream packets, which the callback func_ptr takes.       *)
(*                                                                         *)
(* A byte is <<where it comes from, its offset there or its value>>.       *)
(* The copy loop runs to i <= p + num, so it copies one byte too many: it  *)
(* reads past the access unit in the last packet, and writes               *)
(* buffer[PacketSize] in every packet.  The build has a byte of padding    *)
(* behind buffer, which is cell PacketSize here, so that what is left to   *)
(* show is that the stray byte gets no further.                            *)
(*                                                                         *)
(* The client takes the packets apart as transport stream packets, with    *)
(* the header and the adaptation field where ts_packet_init of ts_packet.c *)
(* finds them, and puts the payloads together again, PES headers included: *)
(* that ts_packet_init goes on to skip these (lines 68-106) is left out.   *)
(*                                                                         *)
(* An operator that a comment calls a mutant is not part of the            *)
(* specification: it is the definition after it with a bug in it, which    *)
(* the property named there must notice.                                   *)
(***************************************************************************)
EXTENDS Integers

CONSTANTS
  PacketSize,   \* TS_PACKET_SIZE
  PesLen,       \* pes_len: PES header and access unit delimiter
  HeaderLen,    \* header_len: the parameter sets of the encoder
  DataLens      \* the lengths of an encoded picture

ASSUME PacketSizeAssumption == PacketSize \in Nat /\ PacketSize > 5
ASSUME PesLenAssumption == PesLen \in Nat \ {0}
ASSUME HeaderLenAssumption == HeaderLen \in Nat
ASSUME DataLensAssumption == DataLens \subseteq Nat

VARIABLES
  busy,      \* h264_to_ts runs
  unit,      \* the access unit: its data_len, and data_ptr[4] == 0x25
  p,         \* the bytes of ptr that have been sent
  counter,   \* static count of put_ts_header
  buffer,    \* buffer[], and the byte behind it
  top,       \* history: the highest index of buffer written for the packet
  seen,      \* history: the continuity counter of the packet that func_ptr
             \* took last, NoCounter before the first
  received   \* history: the payloads of the access unit's packets

vars == <<busy, unit, p, counter, buffer, top, seen, received>>

Cell == 0..PacketSize
NoCounter == 16
Units == [idr : BOOLEAN, data : DataLens]
Blank == [k \in Cell |-> <<"zero", 0>>]

NoUnit == [idr |-> FALSE, data |-> 0]
Nothing == [i \in {} |-> 0]

\* ptr: its length, and its byte i, which is past the end for i = Length(u).
Length(u) == PesLen + (IF u.idr THEN HeaderLen ELSE 0) + u.data

\* Mutant (UnitArrives): the picture is copied over the parameter sets.
ByteOverlapping(u, i) ==
  IF i < PesLen THEN <<"pes", i>> ELSE <<"data", i - PesLen>>

Byte(u, i) ==
  LET data == Length(u) - u.data
  IN  CASE i < PesLen                        -> <<"pes", i>>
        [] i >= PesLen /\ i < data           -> <<"sets", i - PesLen>>
        [] i >= data /\ i < Length(u)        -> <<"data", i - data>>
        [] OTHER                             -> <<"stray", 0>>

Init ==
  /\ busy = FALSE
  /\ unit = NoUnit /\ p = 0 /\ buffer = Blank
  /\ top = 0 /\ received = Nothing
  /\ counter = 0
  /\ seen = NoCounter
-----------------------------------------------------------------------------
(***************************************************************************)
(* The client: ts_packet_init of a packet t, up to its PES header.         *)
(***************************************************************************)
Starts(t) == t[1][2] >= 64                  \* payload_unit_start_indicator
Adapted(t) == t[3][2] >= 32                 \* adaptation_field_control & 2
Continuity(t) == t[3][2] % 16

\* The payload begins behind the adaptation field, with the PES header if there
\* is one.
PayloadOffset(t) == 4 + (IF Adapted(t) THEN t[4][2] + 1 ELSE 0)

\* What it has once it has appended the payload of t.
Reassemble(got, n, t) ==
  LET from == IF Starts(t) THEN 0 ELSE n
      size == PacketSize - PayloadOffset(t)
  IN  [i \in 0..from+size-1 |->
         IF i < from THEN got[i] ELSE t[PayloadOffset(t) + i - from]]
-----------------------------------------------------------------------------
(***************************************************************************)
(* h264_to_ts.                                                             *)
(***************************************************************************)

\* Mutant (Contiguous): the counter begins anew with every access unit.
BeginCounting(u) ==
  /\ ~busy
  /\ busy' = TRUE
  /\ unit' = u
  /\ counter' = 0
  /\ UNCHANGED <<p, buffer, top, seen, received>>

\* get_pts, put_pes_header, the copies into ptr, buffer = {0}.
Begin(u) ==
  /\ ~busy
  /\ busy' = TRUE
  /\ unit' = u
  /\ UNCHANGED <<p, counter, buffer, top, seen, received>>

Left == Length(unit) - p

\* Mutant (UnitEnds): three bytes of packet header.
StuffingMore == PacketSize - 3 - Left

Stuffing == PacketSize - 4 - Left            \* stuff_nums

\* Mutant (TypeOK): a wider mask.
NextCountWide == (counter + 1) % 32

\* count=(count + 1) & 0x0f
NextCount == (counter + 1) % 16

\* put_ts_header: sync byte; start indicator (64) and PID; PID; adaptation
\* field control, 3 with stuffing and 1 without, and the continuity counter.
HeaderByte(k, start, cc) ==
  CASE k = 0 -> <<"sync", 71>>
    [] k = 1 -> <<"flags", IF start THEN 64 ELSE 0>>
    [] k = 2 -> <<"pid", 0>>
    [] k = 3 -> <<"control", (IF Stuffing > 0 THEN 48 ELSE 16) + cc>>

\* Mutant (PacketsSound): no byte of flags.
AdaptationByteUnflagged(k) ==
  IF k = 4 THEN <<"length", Stuffing - 1>> ELSE <<"fill", 255>>

\* The adaptation field: its length, its flags if there is room, 0xff.
AdaptationByte(k) ==
  CASE k = 4 -> <<"length", Stuffing - 1>>
    [] k = 5 -> <<"fieldflags", 0>>
    [] OTHER -> <<"fill", 255>>

\* offset at the copy loop, num, and the last cell that the loop writes.
Offset == 4 + (IF Stuffing > 0 THEN Stuffing ELSE 0)
Num == IF PacketSize - Offset < Left THEN PacketSize - Offset ELSE Left
LastCell == Offset + Num

\* One round of the loop.
Packet ==
  /\ busy
  /\ p < Length(unit)
  /\ counter' = NextCount
  /\ buffer' = [k \in Cell |->
       CASE k < 4                        -> HeaderByte(k, p = 0, counter')
         [] k >= 4 /\ k < Offset         -> AdaptationByte(k)
         [] k >= Offset /\ k <= LastCell -> Byte(unit, p + k - Offset)
         [] OTHER                        -> buffer[k]]
  /\ top' = LastCell
  /\ seen' = Continuity(buffer')
  /\ received' = Reassemble(received, p, buffer')
  /\ p' = p + Num
  /\ UNCHANGED <<busy, unit>>

\* while(p < len) ends, ptr is freed, and the local variables are gone.
Return ==
  /\ busy
  /\ p >= Length(unit)
  /\ busy' = FALSE
  /\ unit' = NoUnit /\ p' = 0 /\ buffer' = Blank
  /\ top' = 0 /\ received' = Nothing
  /\ UNCHANGED <<counter, seen>>

h264_to_ts == (\E u \in Units : Begin(u)) \/ Packet \/ Return

Next == h264_to_ts

Spec == Init /\ [][Next]_vars

\* The encoder thread is scheduled, and the video ring has room.
FairSpec == Spec /\ WF_vars(Packet) /\ WF_vars(Return)
-----------------------------------------------------------------------------
(***************************************************************************)
(* Properties.                                                             *)
(***************************************************************************)
TypeOK ==
  /\ busy \in BOOLEAN
  /\ unit \in [idr : BOOLEAN, data : Nat]
  /\ p \in 0..Length(unit)
  /\ counter \in 0..15
  /\ DOMAIN buffer = Cell
  /\ top \in 0..PacketSize
  /\ seen \in 0..16

\* What the client has put together is the access unit up to p, byte for
\* byte, and the whole of it when h264_to_ts returns (conver_format.c:193-232,
\* ts_packet.c:69-116).
UnitArrives ==
  p > 0 =>
    LET sets == IF unit.idr THEN HeaderLen ELSE 0
    IN  /\ DOMAIN received = 0..p-1
        /\ \A i \in 0..p-1 :
             \/ i < PesLen /\ received[i] = <<"pes", i>>
             \/ /\ i - PesLen \in 0..sets-1
                /\ received[i] = <<"sets", i - PesLen>>
             \/ /\ i - PesLen - sets \in 0..unit.data-1
                /\ received[i] = <<"data", i - PesLen - sets>>

\* A packet that any demultiplexer can take apart: the start indicator is set
\* just where a PES header begins; an adaptation field is a length, flags and
\* filling and leaves a payload; and no byte of the packet is one that the
\* copy loop took too many or that is left from the packet before.
Parsable ==
  p > 0 =>
    LET off == PayloadOffset(buffer)
    IN  /\ buffer[0] = <<"sync", 71>>
        /\ off \in 4..PacketSize-1
        /\ off > 5 => buffer[5] = <<"fieldflags", 0>>
        /\ \A k \in 6..off-1 : buffer[k] = <<"fill", 255>>
        /\ \A k \in off..PacketSize-1 : buffer[k][1] \in {"pes", "sets", "data"}
        /\ Starts(buffer) <=> buffer[off] = <<"pes", 0>>

\* The loop always stops at the byte behind the buffer: with every packet it
\* writes that byte, and never one beyond it or short of it.
OneBytePast == p > 0 => top = PacketSize

\* The stray byte of the copy loop stays behind the buffer, and the packet
\* in front of it is sound.
PacketsSound == Parsable /\ OneBytePast

\* The continuity counter goes up by one modulo 16 from packet to packet, also
\* from one access unit to the next (conver_format.c:38-40).
Contiguous ==
  [][Packet /\ seen # NoCounter => seen' = (seen + 1) % 16]_vars

\* Every access unit is sent to its end: no round of the loop stands still.
UnitEnds == busy ~> ~busy
=============================================================================
