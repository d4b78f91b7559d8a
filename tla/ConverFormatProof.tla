------------------------- MODULE ConverFormatProof -------------------------
(***************************************************************************)
(* Theorems about the two models of conver_format.c: the packetiser TsMux, *)
(* for packets of any size and access units of any length, and the time    *)
(* stamp clock Pts, for every mantissa and every duration below it.        *)
(***************************************************************************)
EXTENDS TsMux, Pts, TLAPS

(***************************************************************************)
(* The packetiser.  Every property of TsMux is inductive together with the *)
(* type invariant; what carries the proof is the arithmetic of one round   *)
(* of the loop (Sizes) and that the client finds the payload where the     *)
(* program put it (Located).                                               *)
(***************************************************************************)

Assumptions ==
  PacketSizeAssumption /\ PesLenAssumption /\ HeaderLenAssumption /\ DataLensAssumption

\* Between two access units nothing is left of the first but the counter, and
\* it is the one that the client saw last.
Idle == ~busy => p = 0
Counted == seen = NoCounter \/ seen = counter

IInv == TypeOK /\ Idle /\ Counted /\ UnitArrives /\ Parsable /\ OneBytePast

\* The length of an access unit is a natural number and at least that of the
\* PES header.
LEMMA UnitLength ==
  ASSUME NEW u \in [idr : BOOLEAN, data : Nat]
  PROVE  Length(u) \in Nat /\ Length(u) >= PesLen /\ Length(u) > 0
BY PesLenAssumption, HeaderLenAssumption DEF Length

\* One round of the loop: what it copies is just what fits behind the offset,
\* at least one byte, and not more than what is left (conver_format.c:198-229).
LEMMA Sizes ==
  ASSUME TypeOK, p < Length(unit)
  PROVE  /\ Left \in 1..Length(unit) /\ Stuffing \in Int
         /\ Offset \in 4..PacketSize-1
         /\ Num \in 1..Left /\ Num = PacketSize - Offset
         /\ LastCell = PacketSize
         /\ Stuffing > 0 => Offset = 4 + Stuffing
         /\ Stuffing <= 0 => Offset = 4
<1>1. Length(unit) \in Nat /\ p \in Nat /\ Left \in 1..Length(unit)
  BY UnitLength DEF TypeOK, Left
<1>2. CASE Stuffing > 0
  BY <1>1, <1>2, PacketSizeAssumption DEF Stuffing, Offset, Num, LastCell
<1>3. CASE ~(Stuffing > 0)
  BY <1>1, <1>3, PacketSizeAssumption DEF Stuffing, Offset, Num, LastCell
<1>4. Stuffing \in Int
  BY <1>1, PacketSizeAssumption DEF Stuffing
<1> QED
  BY <1>2, <1>3, <1>4, <1>1

\* The cells of a packet, one kind after the other.
LEMMA Cells ==
  ASSUME TypeOK, Packet
  PROVE  /\ counter' \in 0..15
         /\ DOMAIN buffer' = Cell
         /\ buffer'[0] = <<"sync", 71>>
         /\ buffer'[1] = <<"flags", IF p = 0 THEN 64 ELSE 0>>
         /\ buffer'[3] = <<"control", (IF Stuffing > 0 THEN 48 ELSE 16) + counter'>>
         /\ Offset > 4 => buffer'[4] = <<"length", Stuffing - 1>>
         /\ Offset > 5 => buffer'[5] = <<"fieldflags", 0>>
         /\ \A k \in 6..Offset-1 : buffer'[k] = <<"fill", 255>>
         /\ \A k \in Offset..PacketSize : buffer'[k] = Byte(unit, p + k - Offset)
<1> DEFINE cell(k) ==
      CASE k < 4                        -> HeaderByte(k, p = 0, counter')
        [] k >= 4 /\ k < Offset         -> AdaptationByte(k)
        [] k >= Offset /\ k <= LastCell -> Byte(unit, p + k - Offset)
        [] OTHER                        -> buffer[k]
<1>1. buffer' = [k \in Cell |-> cell(k)]
  BY DEF Packet
<1>2. Offset \in 4..PacketSize-1 /\ LastCell = PacketSize /\ Offset \in Int
  BY Sizes DEF Packet
<1>3. Cell = 0..PacketSize /\ PacketSize \in Nat /\ PacketSize > 5
  BY PacketSizeAssumption DEF Cell
<1>4. \A k \in Cell : k < 4 => cell(k) = HeaderByte(k, p = 0, counter')
  BY <1>2, <1>3
<1>5. \A k \in Cell : k >= 4 /\ k < Offset => cell(k) = AdaptationByte(k)
  BY <1>2, <1>3
<1>6. \A k \in Cell : k >= Offset => cell(k) = Byte(unit, p + k - Offset)
  BY <1>2, <1>3
<1>7. counter' \in 0..15
  BY DEF Packet, TypeOK, NextCount
<1> HIDE DEF cell
<1>8. /\ \A k \in Cell : buffer'[k] = cell(k)
      /\ DOMAIN buffer' = Cell
  BY <1>1
<1>9. /\ buffer'[0] = HeaderByte(0, p = 0, counter')
      /\ buffer'[1] = HeaderByte(1, p = 0, counter')
      /\ buffer'[3] = HeaderByte(3, p = 0, counter')
  BY <1>8, <1>4, <1>3
<1>10. /\ HeaderByte(0, p = 0, counter') = <<"sync", 71>>
       /\ HeaderByte(1, p = 0, counter') = <<"flags", IF p = 0 THEN 64 ELSE 0>>
       /\ HeaderByte(3, p = 0, counter') =
            <<"control", (IF Stuffing > 0 THEN 48 ELSE 16) + counter'>>
  BY DEF HeaderByte
<1>11. \A k \in 4..Offset-1 : buffer'[k] = AdaptationByte(k)
  BY <1>8, <1>5, <1>3, <1>2
<1>12. /\ AdaptationByte(4) = <<"length", Stuffing - 1>>
       /\ AdaptationByte(5) = <<"fieldflags", 0>>
       /\ \A k \in 6..Offset-1 : AdaptationByte(k) = <<"fill", 255>>
  BY <1>2 DEF AdaptationByte
<1>13. \A k \in Offset..PacketSize : buffer'[k] = Byte(unit, p + k - Offset)
  BY <1>8, <1>6, <1>3, <1>2
<1> QED
  BY <1>7, <1>8, <1>9, <1>10, <1>11, <1>12, <1>13, <1>2

\* What the client reads in the fourth byte of a packet.
LEMMA Control ==
  ASSUME NEW t, NEW c \in 0..15
  PROVE  /\ t[3][2] = 48 + c => Adapted(t) /\ Continuity(t) = c
         /\ t[3][2] = 16 + c => ~Adapted(t) /\ Continuity(t) = c
<1>1. t[3][2] = 48 + c => t[3][2] >= 32
  OBVIOUS
<1>2. t[3][2] = 16 + c => ~(t[3][2] >= 32)
  OBVIOUS
<1>3. (48 + c) % 16 = c /\ (16 + c) % 16 = c
  OBVIOUS
<1> QED BY <1>1, <1>2, <1>3 DEF Adapted, Continuity

\* The client finds the payload where the program put it, the start indicator
\* in the first packet only, and the counter of put_ts_header.
LEMMA Located ==
  ASSUME TypeOK, Packet
  PROVE  /\ PayloadOffset(buffer') = Offset
         /\ Starts(buffer') <=> p = 0
         /\ Continuity(buffer') = counter'
<1>1. Starts(buffer') <=> p = 0
  BY Cells DEF Starts
<1>2. /\ Adapted(buffer') <=> Stuffing > 0
      /\ Continuity(buffer') = counter'
  <2>1. CASE Stuffing > 0
    <3>1. buffer'[3][2] = 48 + counter' /\ counter' \in 0..15
      BY <2>1, Cells
    <3> QED BY <3>1, <2>1, Control
  <2>2. CASE ~(Stuffing > 0)
    <3>1. buffer'[3][2] = 16 + counter' /\ counter' \in 0..15
      BY <2>2, Cells
    <3> QED BY <3>1, <2>2, Control
  <2> QED BY <2>1, <2>2
<1>3. p < Length(unit)
  BY DEF Packet
<1>4. CASE Stuffing > 0
  <2>1. buffer'[4][2] = Stuffing - 1 /\ Stuffing \in Int /\ Offset = 4 + Stuffing
    BY <1>3, <1>4, Cells, Sizes
  <2> QED BY <2>1, <1>1, <1>2, <1>4 DEF PayloadOffset
<1>5. CASE ~(Stuffing > 0)
  <2>1. Offset = 4
    BY <1>3, <1>5, Sizes
  <2> QED BY <2>1, <1>1, <1>2, <1>5 DEF PayloadOffset
<1> QED BY <1>1, <1>2, <1>4, <1>5

\* The client's payloads before the packet, and the packet's behind them.
LEMMA Appended ==
  ASSUME TypeOK, Packet
  PROVE  /\ DOMAIN received' = 0..p'-1
         /\ p' \in 1..Length(unit) /\ p' = p + Num
         /\ \A i \in 0..p-1 : received'[i] = received[i]
         /\ \A i \in p..p'-1 : received'[i] = Byte(unit, i)
<1>1. /\ p \in Nat /\ p < Length(unit) /\ Length(unit) \in Nat
      /\ p' = p + Num
  BY UnitLength DEF TypeOK, Packet
<1>2. Num \in 1..Left /\ Num = PacketSize - Offset /\ Offset \in 4..PacketSize-1
  BY <1>1, Sizes
<1>3. p' \in 1..Length(unit)
  BY <1>1, <1>2 DEF Left
<1>4. /\ PayloadOffset(buffer') = Offset
      /\ (IF Starts(buffer') THEN 0 ELSE p) = p
  BY Located, <1>1
<1>5. received' = [i \in 0..p+Num-1 |->
                     IF i < p THEN received[i] ELSE buffer'[Offset + i - p]]
  BY <1>4, <1>2 DEF Packet, Reassemble
<1>6. \A i \in p..p'-1 : buffer'[Offset + i - p] = Byte(unit, i)
  <2> TAKE i \in p..p'-1
  <2>1. Offset + i - p \in Offset..PacketSize
    BY <1>1, <1>2, PacketSizeAssumption
  <2>2. buffer'[Offset + i - p] = Byte(unit, p + (Offset + i - p) - Offset)
    BY <2>1, Cells
  <2>3. p + (Offset + i - p) - Offset = i
    BY <1>1, <1>2, PacketSizeAssumption
  <2> QED BY <2>2, <2>3
<1> QED BY <1>1, <1>2, <1>3, <1>5, <1>6

\* What the program puts at place i of ptr.
LEMMA Bytes ==
  ASSUME NEW u \in [idr : BOOLEAN, data : Nat], NEW i \in 0..Length(u)-1
  PROVE  LET sets == IF u.idr THEN HeaderLen ELSE 0
         IN  /\ \/ i < PesLen /\ Byte(u, i) = <<"pes", i>>
                \/ /\ i - PesLen \in 0..sets-1
                   /\ Byte(u, i) = <<"sets", i - PesLen>>
                \/ /\ i - PesLen - sets \in 0..u.data-1
                   /\ Byte(u, i) = <<"data", i - PesLen - sets>>
             /\ Byte(u, i)[1] \in {"pes", "sets", "data"}
             /\ Byte(u, i) = <<"pes", 0>> <=> i = 0
<1> DEFINE sets == IF u.idr THEN HeaderLen ELSE 0
<1>1. sets \in Nat /\ PesLen \in Nat /\ PesLen > 0 /\ u.data \in Nat /\ i \in Nat
  BY PesLenAssumption, HeaderLenAssumption, UnitLength
<1>2. Length(u) = PesLen + sets + u.data /\ Length(u) - u.data = PesLen + sets
  BY <1>1 DEF Length
<1>3. i < PesLen + sets + u.data
  BY <1>1, <1>2
<1> HIDE DEF sets
<1>4. CASE i < PesLen
  <2>1. Byte(u, i) = <<"pes", i>>
    BY <1>1, <1>2, <1>4 DEF Byte
  <2> QED BY <2>1, <1>1, <1>4 DEF sets
<1>5. CASE i >= PesLen /\ i < PesLen + sets
  <2>1. Byte(u, i) = <<"sets", i - PesLen>>
    BY <1>1, <1>2, <1>5 DEF Byte
  <2> QED BY <2>1, <1>1, <1>5 DEF sets
<1>6. CASE i >= PesLen + sets
  <2>1. Byte(u, i) = <<"data", i - (PesLen + sets)>>
    BY <1>1, <1>2, <1>3, <1>6 DEF Byte
  <2>2. i - (PesLen + sets) = i - PesLen - sets
    BY <1>1
  <2> QED BY <2>1, <2>2, <1>1, <1>3, <1>6 DEF sets
<1> QED BY <1>1, <1>4, <1>5, <1>6
-----------------------------------------------------------------------------
\* The properties hold at the start, where nothing has been sent.
LEMMA Initially == Init => IInv
<1> SUFFICES ASSUME Init PROVE IInv
  OBVIOUS
<1>1. NoUnit \in [idr : BOOLEAN, data : Nat]
  BY DEF NoUnit
<1>2. 0 \in 0..Length(NoUnit) /\ 0 \in 0..PacketSize /\ DOMAIN Blank = Cell
  BY <1>1, UnitLength, PacketSizeAssumption DEF Blank
<1>3. TypeOK
  <2>1. busy \in BOOLEAN /\ unit \in [idr : BOOLEAN, data : Nat] /\ DOMAIN buffer = Cell
    BY <1>1, <1>2 DEF Init
  <2>2. p \in 0..Length(unit) /\ top \in 0..PacketSize
    BY <1>2 DEF Init
  <2>3. counter \in 0..15 /\ seen \in 0..16
    BY DEF Init, NoCounter
  <2> QED BY <2>1, <2>2, <2>3 DEF TypeOK
<1>4. Idle /\ Counted
  BY DEF Init, Idle, Counted
<1>5. UnitArrives /\ Parsable /\ OneBytePast
  BY DEF Init, UnitArrives, Parsable, OneBytePast
<1> QED
  BY <1>3, <1>4, <1>5 DEF IInv

\* A round of the loop keeps them.
LEMMA PacketKeeps == IInv /\ Packet => IInv'
<1> SUFFICES ASSUME IInv, Packet PROVE IInv'
  OBVIOUS
<1>1. TypeOK /\ p < Length(unit) /\ unit' = unit /\ busy /\ busy'
  BY DEF IInv, Packet
<1>2. p' > 0 /\ p' <= Length(unit) /\ p' \in Nat /\ Length(unit) \in Nat
  <2>1. unit \in [idr : BOOLEAN, data : Nat]
    BY <1>1 DEF TypeOK
  <2> QED BY <1>1, Appended, <2>1, UnitLength
<1>3. top' = PacketSize /\ seen' = counter'
  BY <1>1, Sizes, Located DEF Packet
<1>4. TypeOK'
  <2>1. p' \in 0..Length(unit')
    BY <1>2, <1>1
  <2>2. counter' \in 0..15 /\ DOMAIN buffer' = Cell
    BY <1>1, Cells
  <2> QED BY <1>1, <1>3, <2>1, <2>2, PacketSizeAssumption DEF TypeOK
<1>5. Idle' /\ Counted' /\ OneBytePast'
  BY <1>1, <1>3 DEF Idle, Counted, OneBytePast
<1>6. UnitArrives'
  <2> DEFINE sets == IF unit.idr THEN HeaderLen ELSE 0
             Is(b, i) == \/ i < PesLen /\ b = <<"pes", i>>
                         \/ i - PesLen \in 0..sets-1 /\ b = <<"sets", i - PesLen>>
                         \/ /\ i - PesLen - sets \in 0..unit.data-1
                            /\ b = <<"data", i - PesLen - sets>>
  <2>1. \A i \in 0..p-1 : Is(received[i], i)
    <3>1. CASE p > 0 BY <3>1 DEF IInv, UnitArrives
    <3>2. CASE ~(p > 0) BY <3>2, <1>1 DEF TypeOK
    <3> QED BY <3>1, <3>2
  <2>2. \A i \in 0..Length(unit)-1 : Is(Byte(unit, i), i)
    BY <1>1, Bytes DEF TypeOK
  <2> HIDE DEF Is
  <2>3. p \in Nat
    BY <1>1, <1>2 DEF TypeOK
  <2>4. \A i \in 0..p'-1 : Is(received'[i], i)
    <3> TAKE i \in 0..p'-1
    <3>1. CASE i < p
      BY <3>1, <2>3, <1>2, <2>1, <1>1, Appended
    <3>2. CASE i >= p
      BY <3>2, <2>3, <1>2, <2>2, <1>1, Appended
    <3> QED BY <3>1, <3>2, <2>3, <1>2
  <2> QED
    BY <2>4, <1>1, Appended DEF Is, UnitArrives
<1>7. Parsable'
  <2>1. Offset \in 4..PacketSize-1 /\ PayloadOffset(buffer') = Offset
    BY <1>1, Sizes, Located
  <2>2. \A k \in Offset..PacketSize-1 :
          /\ p + k - Offset \in 0..Length(unit)-1
          /\ buffer'[k] = Byte(unit, p + k - Offset)
    <3>1. p \in Nat
      BY <1>1, <1>2 DEF TypeOK
    <3>2. Num = PacketSize - Offset
      BY <1>1, Sizes
    <3>3. p + Num <= Length(unit)
      BY <1>1, <1>2, Appended
    <3> QED BY <3>1, <3>2, <3>3, <2>1, <1>1, <1>2, Cells, PacketSizeAssumption
  <2>3. \A k \in Offset..PacketSize-1 : buffer'[k][1] \in {"pes", "sets", "data"}
    BY <2>2, <1>1, Bytes DEF TypeOK
  <2>4. Starts(buffer') <=> buffer'[Offset] = <<"pes", 0>>
    <3>1. /\ Offset \in Offset..PacketSize-1 /\ p + Offset - Offset = p
          /\ p \in 0..Length(unit)-1
      BY <2>1, <1>1, <1>2, PacketSizeAssumption DEF TypeOK
    <3>2. buffer'[Offset] = Byte(unit, p)
      BY <3>1, <2>2
    <3> QED BY <3>1, <3>2, <1>1, Located, Bytes DEF TypeOK
  <2>5. /\ buffer'[0] = <<"sync", 71>>
        /\ Offset > 5 => buffer'[5] = <<"fieldflags", 0>>
        /\ \A k \in 6..Offset-1 : buffer'[k] = <<"fill", 255>>
    BY <1>1, Cells
  <2> QED BY <2>1, <2>3, <2>4, <2>5 DEF Parsable
<1> QED BY <1>4, <1>5, <1>6, <1>7 DEF IInv

\* So do the call and the return.
LEMMA BeginKeeps ==
  ASSUME IInv, NEW u \in Units, Begin(u)
  PROVE  IInv'
<1>1. u \in [idr : BOOLEAN, data : Nat]
  BY DataLensAssumption DEF Units
<1>2. p = 0 /\ 0 \in 0..Length(u)
  BY <1>1, UnitLength DEF IInv, Idle, Begin
<1> QED
  BY <1>1, <1>2 DEF IInv, Begin, TypeOK, Idle, Counted, UnitArrives, Parsable, OneBytePast

LEMMA ReturnKeeps == IInv /\ Return => IInv'
<1> SUFFICES ASSUME IInv, Return PROVE IInv'
  OBVIOUS
<1>1. NoUnit \in [idr : BOOLEAN, data : Nat]
  BY DEF NoUnit
<1>2. 0 \in 0..Length(NoUnit) /\ 0 \in 0..PacketSize /\ DOMAIN Blank = Cell
  BY <1>1, UnitLength, PacketSizeAssumption DEF Blank
<1>3. TypeOK'
  BY <1>1, <1>2 DEF IInv, Return, TypeOK
<1>4. Idle' /\ Counted' /\ UnitArrives' /\ Parsable' /\ OneBytePast'
  BY DEF IInv, Return, Idle, Counted, UnitArrives, Parsable, OneBytePast
<1> QED
  BY <1>3, <1>4 DEF IInv

LEMMA Inductive == Spec => []IInv
<1>1. IInv /\ [Next]_vars => IInv'
  <2> SUFFICES ASSUME IInv, [Next]_vars PROVE IInv'
    OBVIOUS
  <2>1. CASE \E u \in Units : Begin(u)
    BY <2>1, BeginKeeps
  <2>2. CASE Packet
    BY <2>2, PacketKeeps
  <2>3. CASE Return
    BY <2>3, ReturnKeeps
  <2>4. CASE UNCHANGED vars
    <3>1. TypeOK' /\ Idle' /\ Counted' /\ OneBytePast'
      BY <2>4 DEF IInv, vars, TypeOK, Idle, Counted, OneBytePast
    <3>2. UnitArrives'
      BY <2>4 DEF IInv, vars, UnitArrives
    <3>3. Parsable'
      BY <2>4 DEF IInv, vars, Parsable
    <3> QED BY <3>1, <3>2, <3>3 DEF IInv
  <2> QED
    BY <2>1, <2>2, <2>3, <2>4 DEF Next, h264_to_ts
<1> QED
  BY <1>1, Initially, PTL DEF Spec
-----------------------------------------------------------------------------
\* The packetiser never runs past the access unit, nor the copy loop past the one
\* byte behind the packet, and the counter keeps to its four bits
\* (conver_format.c:38, 183-228).
THEOREM TypeCorrect == Spec => []TypeOK
<1>1. IInv => TypeOK
  BY DEF IInv
<1> QED BY <1>1, Inductive, PTL

\* The access unit arrives byte for byte, whatever its length and whatever the
\* size of a packet (conver_format.c:193-232 against ts_packet.c:69-116).
THEOREM Arrives == Spec => []UnitArrives
<1>1. IInv => UnitArrives
  BY DEF IInv
<1> QED BY <1>1, Inductive, PTL

\* Every packet can be taken apart, and carries no byte that the copy loop took
\* too many or left from the packet before.
THEOREM WellFormed == Spec => []Parsable
<1>1. IInv => Parsable
  BY DEF IInv
<1> QED BY <1>1, Inductive, PTL

\* The copy loop writes exactly one byte behind the buffer (conver_format.c:221).
THEOREM Overruns == Spec => [](TypeOK /\ OneBytePast)
<1>1. IInv => TypeOK /\ OneBytePast
  BY DEF IInv
<1> QED BY <1>1, Inductive, PTL

\* The continuity counter has no gap, also between access units
\* (conver_format.c:38-40).
THEOREM NoGap == Spec => Contiguous
<1>1. IInv /\ [Next]_vars => [Packet /\ seen # NoCounter => seen' = (seen + 1) % 16]_vars
  <2> SUFFICES ASSUME IInv, Packet, seen # NoCounter PROVE seen' = (seen + 1) % 16
    OBVIOUS
  <2>1. seen = counter /\ TypeOK
    BY DEF IInv, Counted
  <2>2. seen' = counter'
    BY <2>1, Located DEF Packet
  <2> QED
    BY <2>1, <2>2 DEF Packet, NextCount
<1> QED
  BY <1>1, Inductive, PTL DEF Spec, Contiguous

\* Together: every packet is sound in spite of the byte taken too many.
THEOREM SoundPackets == Spec => []PacketsSound
<1>1. Parsable /\ TypeOK /\ OneBytePast => PacketsSound
  BY DEF PacketsSound
<1> QED
  BY <1>1, WellFormed, Overruns, PTL
-----------------------------------------------------------------------------
(***************************************************************************)
(* The time stamps.  The argument is that of floating point addition: a    *)
(* rounded sum is a multiple of the spacing, at most half of it away from  *)
(* the sum; and a sum that does not fit below Mantissa * spacing fits      *)
(* below twice that.                                                       *)
(***************************************************************************)

\* Division with a remainder.
LEMMA DivMod ==
  ASSUME NEW n \in Nat, NEW u \in Nat, u > 0
  PROVE  /\ n % u \in Nat /\ n % u < u /\ n \div u \in Nat
         /\ n = (n \div u) * u + (n % u)
  OBVIOUS

\* A multiple leaves no remainder.
LEMMA MultipleMod ==
  ASSUME NEW k \in Nat, NEW u \in Nat, u > 0
  PROVE  (k * u) % u = 0
  OBVIOUS

\* A number without a remainder is a multiple.
LEMMA Multiple ==
  ASSUME NEW n \in Nat, NEW u \in Nat, u > 0, n % u = 0
  PROVE  \E k \in Nat : n = k * u
  <1>1. n \div u \in Nat /\ n = (n \div u) * u
    BY DivMod
  <1> QED
    BY <1>1

\* What Nearest returns.
LEMMA NearestIs ==
  ASSUME NEW n \in Nat, NEW u \in Nat, u > 0
  PROVE  /\ Nearest(n, u) \in Nat
         /\ \E k \in Nat : Nearest(n, u) = k * u
         /\ Nearest(n, u) % u = 0
         /\ 2 * (Nearest(n, u) - n) <= u
         /\ 2 * (n - Nearest(n, u)) <= u
  <1> DEFINE k == n \div u
             r == n % u
  <1>1. k \in Nat /\ r \in Nat /\ r < u /\ n = k * u + r
    BY DivMod
  <1> HIDE DEF k, r
  <1>2. k * u \in Nat /\ (k + 1) * u = k * u + u /\ k + 1 \in Nat
    BY <1>1
  <1>3. CASE Nearest(n, u) = n - r /\ 2 * r <= u
    <2>1. Nearest(n, u) = k * u
      BY <1>1, <1>2, <1>3
    <2>2. Nearest(n, u) % u = 0
      BY <1>1, <2>1, MultipleMod
    <2>3. \E i \in Nat : Nearest(n, u) = i * u
      BY <1>1, <2>1
    <2>4. 2 * (Nearest(n, u) - n) <= u /\ 2 * (n - Nearest(n, u)) <= u
      BY <1>1, <1>3
    <2>5. Nearest(n, u) \in Nat
      BY <1>1, <1>2, <2>1
    <2> QED
      BY <2>2, <2>3, <2>4, <2>5
  <1>4. CASE Nearest(n, u) = n - r + u /\ 2 * r >= u
    <2>1. Nearest(n, u) = (k + 1) * u
      BY <1>1, <1>2, <1>4
    <2>2. Nearest(n, u) % u = 0
      BY <1>2, <2>1, MultipleMod
    <2>3. \E i \in Nat : Nearest(n, u) = i * u
      BY <1>2, <2>1
    <2>4. 2 * (Nearest(n, u) - n) <= u /\ 2 * (n - Nearest(n, u)) <= u
      BY <1>1, <1>4
    <2>5. Nearest(n, u) \in Nat
      BY <1>1, <1>2, <2>1
    <2> QED
      BY <2>2, <2>3, <2>4, <2>5
  <1>5. \/ Nearest(n, u) = n - r /\ 2 * r <= u
        \/ Nearest(n, u) = n - r + u /\ 2 * r >= u
    <2>1. CASE 2 * r > u
      BY <1>1, <2>1 DEF Nearest, r
    <2>2. CASE 2 * r = u
      <3>1. ~(2 * r > u)
        BY <1>1, <2>2
      <3> QED
        BY <2>2, <3>1, <1>1 DEF Nearest, r
    <2>3. CASE 2 * r < u
      BY <1>1, <2>3 DEF Nearest, r
    <2> QED
      BY <1>1, <2>1, <2>2, <2>3
  <1> QED
    BY <1>3, <1>4, <1>5

\* A multiple of u above (j - 1) u is not below j u.
LEMMA NextMultiple ==
  ASSUME NEW k \in Nat, NEW j \in Nat, NEW u \in Nat, u > 0, k * u > j * u - u
  PROVE  k * u >= j * u
  <1>1. CASE k >= j
    <2>1. k = j + (k - j) /\ k - j \in Nat
      BY <1>1
    <2>2. k * u = j * u + (k - j) * u
      BY <2>1
    <2>3. (k - j) * u >= 0 /\ (k - j) * u \in Nat
      BY <2>1
    <2> QED
      BY <2>2, <2>3
  <1>2. CASE k < j
    <2>1. j - 1 - k \in Nat /\ j = k + 1 + (j - 1 - k)
      BY <1>2
    <2>2. j * u = k * u + u + (j - 1 - k) * u
      BY <2>1
    <2>3. (j - 1 - k) * u \in Nat
      BY <2>1
    <2> QED
      BY <2>2, <2>3
  <1> QED
    BY <1>1, <1>2
-----------------------------------------------------------------------------
\* The stamp as a float.
Float(n, u) ==
  /\ n \in Nat /\ u \in Nat \ {0}
  /\ n % u = 0 /\ n < Mantissa * u
  /\ u > 1 => 2 * n >= Mantissa * u

\* A sum that is rounded with the spacing of its place is a float, not below
\* the old one, and at most half a spacing away from what it should be.
LEMMA SumIs ==
  ASSUME Float(pts, spacing)
  PROVE  /\ Float(Sum, Spacing)
         /\ Spacing \in {spacing, 2 * spacing}
         /\ 2 * (Sum - (pts + pts_offset)) <= Spacing
         /\ 2 * ((pts + pts_offset) - Sum) <= Spacing
         /\ Spacing < 2 * pts_offset => Sum > pts
  <1> DEFINE a == pts + pts_offset
             u == spacing
  <1>1. /\ pts \in Nat /\ u \in Nat /\ u > 0 /\ pts_offset \in Nat /\ a \in Nat
        /\ a = pts + pts_offset /\ 0 < pts_offset /\ pts_offset < Mantissa /\ Mantissa \in Nat
    BY OffsetAssumption, MantissaAssumption DEF Float
  <1>2. /\ pts % u = 0 /\ pts < Mantissa * u
        /\ u > 1 => 2 * pts >= Mantissa * u
    BY DEF Float
  <1>3. PICK j \in Nat : pts = j * u
    BY <1>1, <1>2, Multiple
  <1>4. Mantissa * u \in Nat /\ Mantissa * u >= Mantissa
    BY <1>1
  <1>5. CASE Nearest(a, u) < Mantissa * u
    <2>1. Spacing = u /\ Sum = Nearest(a, u)
      BY <1>5 DEF Sum, Spacing
    <2>2. /\ Sum \in Nat /\ Sum % u = 0
          /\ 2 * (Sum - a) <= u /\ 2 * (a - Sum) <= u
      BY <1>1, <2>1, NearestIs
    <2>3. PICK k \in Nat : Sum = k * u
      BY <1>1, <2>1, NearestIs
    <2>4. Sum > pts - u
      BY <1>1, <2>2
    <2>5. Sum >= pts
      BY <1>1, <1>3, <2>3, <2>4, NextMultiple
    <2>6. Float(Sum, u)
      BY <1>1, <1>2, <1>4, <1>5, <2>1, <2>2, <2>5 DEF Float
    <2>7. u < 2 * pts_offset => Sum > pts
      BY <1>1, <2>2
    <2>8. Sum - a = Sum - (pts + pts_offset) /\ a - Sum = (pts + pts_offset) - Sum
      OBVIOUS
    <2> QED
      BY <2>1, <2>2, <2>6, <2>7, <2>8
  <1>6. CASE Nearest(a, u) >= Mantissa * u
    <2> DEFINE v == 2 * u
    <2>1. Spacing = v /\ Sum = Nearest(a, v)
      <3>1. Nearest(a, u) \in Nat
        BY <1>1, NearestIs
      <3>2. ~(Nearest(pts + pts_offset, spacing) < Mantissa * spacing)
        BY <1>4, <1>6, <3>1
      <3> QED
        BY <3>2 DEF Sum, Spacing
    <2>2. v \in Nat /\ v > 0 /\ v = 2 * u
      BY <1>1
    <2> HIDE DEF v
    <2>3. /\ Sum \in Nat /\ Sum % v = 0
          /\ 2 * (Sum - a) <= v /\ 2 * (a - Sum) <= v
      BY <1>1, <2>1, <2>2, NearestIs
    <2>4. PICK k \in Nat : Sum = k * v
      BY <1>1, <2>1, <2>2, NearestIs
    <2>5. 2 * (Nearest(a, u) - a) <= u /\ Nearest(a, u) \in Nat
      BY <1>1, NearestIs
    <2>6. PICK h \in Nat : Mantissa = h * 2
      <3>1. Mantissa \in Nat /\ Mantissa % 2 = 0 /\ 2 \in Nat /\ 2 > 0
        BY MantissaAssumption
      <3> QED
        BY <3>1, Multiple
    <2>7. Mantissa * u = h * v
      BY <1>1, <2>2, <2>6
    <2>8. Sum > h * v - v
      BY <1>1, <1>4, <1>6, <2>2, <2>3, <2>5, <2>7
    <2>9. Sum >= Mantissa * u
      BY <2>2, <2>4, <2>6, <2>7, <2>8, NextMultiple
    <2>10. Mantissa * v = Mantissa * u + Mantissa * u
      BY <1>1, <2>2
    <2>11. Sum < Mantissa * v
      <3>1. (Mantissa - 1) * u = Mantissa * u - u /\ j < Mantissa
        BY <1>1, <1>2, <1>3
      <3>2. pts <= Mantissa * u - u
        <4>1. Mantissa - 1 - j \in Nat /\ (Mantissa - 1 - j) * u \in Nat
          BY <1>1, <3>1
        <4>2. Mantissa * u - u = j * u + (Mantissa - 1 - j) * u
          BY <1>1, <4>1
        <4> QED
          BY <1>3, <4>1, <4>2, <1>1, <1>4
      <3>3. Sum <= a + u
        BY <1>1, <2>2, <2>3
      <3> QED
        BY <1>1, <1>4, <2>3, <2>10, <3>2, <3>3
    <2>12. Float(Sum, v)
      BY <1>4, <2>2, <2>3, <2>9, <2>10, <2>11 DEF Float
    <2>13. Sum > pts
      BY <1>1, <1>2, <1>4, <2>3, <2>9
    <2> QED
      BY <2>1, <2>2, <2>3, <2>12, <2>13
  <1> QED
    BY <1>1, <1>4, <1>5, <1>6, NearestIs
-----------------------------------------------------------------------------
\* The bytes of the header are bytes, and carry the stamp modulo 2^33.
LEMMA CodedBytes ==
  ASSUME NEW n \in Nat
  PROVE  \A i \in 1..5 : Coded(n)[i] \in 0..255
  <1>1. /\ Bits(n, 1073741824, 8) \in 0..7 /\ Bits(n, 4194304, 256) \in 0..255
        /\ Bits(n, 32768, 128) \in 0..127 /\ Bits(n, 128, 256) \in 0..255
        /\ Bits(n, 1, 128) \in 0..127
    BY SMT DEF Bits
  <1> QED
    BY SMT, <1>1 DEF Coded

\* Reading a header gives the stamp modulo 2^33.
LEMMA CodingIsExact ==
  ASSUME NEW n \in Nat
  PROVE  /\ tcp_get_pts(Coded(n)) % 1073741824 = n % 1073741824
         /\ tcp_get_pts(Coded(n)) \div 1073741824 = (n \div 1073741824) % 8
  <1> DEFINE high == Bits(n, 1073741824, 8)
             b2 == Bits(n, 4194304, 256)
             b3 == Bits(n, 32768, 128)
             b4 == Bits(n, 128, 256)
             b5 == Bits(n, 1, 128)
  <1>1. /\ high \in 0..7 /\ b2 \in 0..255 /\ b3 \in 0..127
        /\ b4 \in 0..255 /\ b5 \in 0..127
    BY SMT DEF Bits
  <1>2. n % 1073741824 = b2 * 4194304 + b3 * 32768 + b4 * 128 + b5
    BY SMTT(60) DEF Bits
  <1>3. high = (n \div 1073741824) % 8
    BY SMT DEF Bits
  <1>4. tcp_get_pts(Coded(n))
          = Bits(33 + 2 * high, 2, 8) * 1073741824 + b2 * 4194304
              + ((1 + 2 * b3) \div 2) * 32768 + b4 * 128 + (1 + 2 * b5) \div 2
    BY SMT DEF tcp_get_pts, Coded
  <1> HIDE DEF high, b2, b3, b4, b5
  <1>5. Bits(33 + 2 * high, 2, 8) = high
    BY SMT, <1>1 DEF Bits
  <1>6. (1 + 2 * b3) \div 2 = b3 /\ (1 + 2 * b5) \div 2 = b5
    BY SMT, <1>1
  <1>7. tcp_get_pts(Coded(n)) = high * 1073741824 + (n % 1073741824)
    BY SMT, <1>1, <1>2, <1>4, <1>5, <1>6
  <1>8. n % 1073741824 \in Nat /\ n % 1073741824 < 1073741824
    BY SMT, DivMod
  <1> DEFINE low == n % 1073741824
             all == tcp_get_pts(Coded(n))
  <1>9. /\ high \in Nat /\ low \in Nat /\ low < 1073741824
        /\ all = high * 1073741824 + low
    BY SMT, <1>1, <1>7, <1>8
  <1> HIDE DEF low, all
  <1>10. all % 1073741824 = low
    BY SMT, <1>9
  <1>11. all \div 1073741824 = high
    BY SMT, <1>9
  <1> QED
    BY <1>3, <1>10, <1>11 DEF low, all
-----------------------------------------------------------------------------
\* The inductive invariant: the stamp is a float, the header holds it, and the
\* error is that of its roundings.
PtsInvariant ==
  /\ Float(pts, spacing) /\ frames \in 0..MaxFrames
  /\ stamp = Coded(pts)
  /\ DriftBounded

LEMMA PtsInitially == PtsInit => PtsInvariant
  <1> SUFFICES ASSUME PtsInit PROVE PtsInvariant
    OBVIOUS
  <1>1. Float(0, 1)
    BY MantissaAssumption DEF Float
  <1>2. 1 \div 2 = 0
    OBVIOUS
  <1> QED
    BY <1>1, <1>2, FramesAssumption, OffsetAssumption DEF PtsInit, PtsInvariant, DriftBounded

LEMMA PtsKeeps == PtsInvariant /\ [PtsNext]_ptsVars => PtsInvariant'
  <1> SUFFICES ASSUME PtsInvariant, [PtsNext]_ptsVars PROVE PtsInvariant'
    OBVIOUS
  <1>1. CASE get_pts
    <2>1. Float(Sum, Spacing) /\ Spacing \in {spacing, 2 * spacing}
      BY SumIs DEF PtsInvariant
    <2>2. Float(pts, spacing)'
      BY <1>1, <2>1 DEF get_pts, Float
    <2>3. (frames \in 0..MaxFrames)' /\ (stamp = Coded(pts))'
      BY <1>1, FramesAssumption DEF get_pts, PtsInvariant, Coded, Bits
    <2>4. DriftBounded'
      <3> DEFINE h == spacing \div 2
                 g == Spacing \div 2
      <3>1. /\ pts \in Nat /\ spacing \in Nat \ {0} /\ frames \in Nat /\ pts_offset \in Nat
            /\ Sum \in Nat /\ Spacing \in Nat
        BY <2>1, OffsetAssumption, FramesAssumption DEF PtsInvariant, Float
      <3>2. h \in Nat /\ g \in Nat /\ h <= g
        BY <2>1, <3>1
      <3>3. Sum - (pts + pts_offset) <= g /\ (pts + pts_offset) - Sum <= g
        <4>1. /\ 2 * (Sum - (pts + pts_offset)) <= Spacing
               /\ 2 * ((pts + pts_offset) - Sum) <= Spacing
          BY SumIs DEF PtsInvariant
        <4> QED
          BY <3>1, <4>1
      <3>4. pts - pts_offset * frames <= h * frames /\ pts_offset * frames - pts <= h * frames
        BY DEF PtsInvariant, DriftBounded
      <3> HIDE DEF h, g
      <3>5. h * frames <= g * frames /\ h * frames \in Nat /\ g * frames \in Nat
        BY <3>1, <3>2
      <3>6. g * (frames + 1) = g * frames + g
        BY <3>1, <3>2
      <3>7. /\ pts_offset * (frames + 1) = pts_offset * frames + pts_offset
            /\ pts_offset * frames \in Nat
        BY <3>1
      <3>8. /\ Sum - pts_offset * (frames + 1) <= g * (frames + 1)
            /\ pts_offset * (frames + 1) - Sum <= g * (frames + 1)
        BY <3>1, <3>2, <3>3, <3>4, <3>5, <3>6, <3>7
      <3> QED
        BY <1>1, <3>8 DEF get_pts, DriftBounded, g
    <2> QED
      BY <2>2, <2>3, <2>4 DEF PtsInvariant
  <1>2. CASE UNCHANGED ptsVars
    BY <1>2 DEF ptsVars, PtsInvariant, Float, DriftBounded
  <1> QED
    BY <1>1, <1>2 DEF PtsNext, Done

LEMMA PtsInductive == PtsSpec => []PtsInvariant
  BY PtsInitially, PtsKeeps, PTL DEF PtsSpec

\* Every stamp is a float whose mantissa is not exhausted (get_pts,
\* conver_format.c:16-30), and its header consists of bytes.
THEOREM PtsTypeCorrect == PtsSpec => []PtsTypeOK
  <1>1. PtsInvariant => PtsTypeOK
    <2> SUFFICES ASSUME PtsInvariant PROVE PtsTypeOK
      OBVIOUS
    <2>1. \A i \in 1..5 : stamp[i] \in 0..255
      <3>1. pts \in Nat /\ stamp = Coded(pts)
        BY DEF PtsInvariant, Float
      <3> HIDE DEF Coded
      <3> QED
        BY <3>1, CodedBytes
    <2>2. 1 \in 1..5 /\ 2 \in 1..5 /\ 3 \in 1..5 /\ 4 \in 1..5 /\ 5 \in 1..5
      OBVIOUS
    <2>3. stamp[1] \in 0..255 /\ stamp[2] \in 0..255 /\ stamp[3] \in 0..255
      BY <2>1, <2>2
    <2>4. stamp[4] \in 0..255 /\ stamp[5] \in 0..255
      BY <2>1, <2>2
    <2> QED
      BY <2>3, <2>4 DEF PtsInvariant, PtsTypeOK, Float
  <1> QED
    BY <1>1, PtsInductive, PTL

\* What the sender reads is what was stamped, modulo 2^33 (tcp_get_pts,
\* gn_tcp.c:25-35).
THEOREM Carried == PtsSpec => []Truthful
  <1>1. PtsInvariant => Truthful
    BY SMT, CodingIsExact DEF PtsInvariant, Truthful, Float
  <1> QED
    BY <1>1, PtsInductive, PTL

\* No stamp is more than half a spacing per stamp away from the true time.
THEOREM Drift == PtsSpec => []DriftBounded
  <1>1. PtsInvariant => DriftBounded
    BY DEF PtsInvariant
  <1> QED
    BY <1>1, PtsInductive, PTL

\* The stamps increase until the spacing is twice the duration.
THEOREM Increasing == PtsSpec => Advances
  <1>1. PtsInvariant /\ [PtsNext]_ptsVars
          => [spacing' < 2 * pts_offset => pts' > pts]_<<pts, spacing, frames>>
    <2> SUFFICES ASSUME PtsInvariant, [PtsNext]_ptsVars
                 PROVE  [spacing' < 2 * pts_offset => pts' > pts]_<<pts, spacing, frames>>
      OBVIOUS
    <2>1. CASE get_pts
      <3>1. Spacing < 2 * pts_offset => Sum > pts
        BY SumIs DEF PtsInvariant
      <3> QED
        BY <2>1, <3>1 DEF get_pts
    <2>2. CASE UNCHANGED ptsVars
      BY <2>2 DEF ptsVars
    <2> QED
      BY <2>1, <2>2 DEF PtsNext, Done
  <1> QED
    BY <1>1, PtsInductive, PTL DEF PtsSpec, Advances
=============================================================================
