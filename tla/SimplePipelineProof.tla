------------------------ MODULE SimplePipelineProof -------------------------
(***************************************************************************)
(* Theorems about SimplePipeline, for a ring of any size and files of any  *)
(* length with changes of the size anywhere.                               *)
(*                                                                         *)
(* What the encoder gets is right since the frames whose flag is set are   *)
(* those from ep up to dp (Flags) and hold the pictures in their order     *)
(* (Holds), and since the pictures reach thread_output in order through    *)
(* the decoder (Fed, Gets).                                                *)
(***************************************************************************)
EXTENDS SimplePipeline, Sequences, SequenceTheorems, TLAPS

\* How far slot j is ahead of the encoder's.
Ahead(j) == IF j >= ep THEN j - ep ELSE j - ep + N

\* Frames whose flag is set: one that is encoded is still in use.
InUse == IF encode = "release" THEN put - count + 1 ELSE put - count

\* The picture that a frame in use holds if frame_change did not replace it.
Due(j) == IF encode = "release" THEN count + Ahead(j) ELSE count + 1 + Ahead(j)

Follow(k) == IF IsEos(k) THEN 1 ELSE k + 1

\* The next packet that the decoder will get, and the next picture from it.
Offered == IF input = "put" THEN packet ELSE next
Coming == IF mpp = <<>> THEN Offered ELSE Head(mpp)

Holding == output \in {"wait", "blit", "publish"}

\* The decoder's packets follow one another.
Fed ==
  /\ input = "put" => packet # 0 /\ next = Follow(packet)
  /\ \A i \in 1..Len(mpp)-1 : mpp[i+1] = Follow(mpp[i])
  /\ mpp # <<>> => Offered = Follow(mpp[Len(mpp)])

\* thread_output gets the pictures in order.
Gets ==
  /\ put <= FilePackets /\ (put = FilePackets <=> output = "done")
  /\ output \in {"get", "change"} => Coming = put + 1
  /\ Holding => frame = put + 1 /\ Coming = Follow(frame)

\* The frames in use are those from ep up to dp.
Flags ==
  /\ InUse \in 0..N
  /\ \A j \in Slot : flag[j] <=> Ahead(j) < InUse
  /\ IF InUse = N THEN dp = ep ELSE Ahead(dp) = InUse
  /\ output \in {"blit", "publish"} => InUse < N
  /\ encode \in {"run", "release"} => InUse > 0

\* They hold the pictures in their order, but for blank ones.
Holds ==
  /\ \A j \in Slot :
       flag[j] /\ (j = ep => encode = "wait")
         => buffer[j] = Due(j) \/ (lost /\ buffer[j] = 0)
  /\ output = "publish" => buffer[dp] = frame
  /\ encode = "run" => taken = count + 1 \/ (lost /\ taken = 0)

IInv == TypeOK /\ Fed /\ Gets /\ Flags /\ Holds /\ InOrder /\ EndsComplete
-----------------------------------------------------------------------------
\* p = (p + 1) % BUFFER_SIZE of a reduced index, without the modulo.
LEMMA ModN ==
  ASSUME NEW i \in Slot
  PROVE  (i + 1) % N = IF i = N - 1 THEN 0 ELSE i + 1
<1>1. CASE i = N - 1
  BY <1>1, NAssumption
<1>2. CASE i # N - 1
  BY <1>2, NAssumption DEF Slot
<1> QED
  BY <1>1, <1>2

\* Every variable keeps its type.
LEMMA TypeStep ==
  ASSUME TypeOK, Fed, Gets, [Next]_vars
  PROVE  TypeOK'
<1> USE NAssumption, FileAssumption
<1> USE DEF TypeOK, Picture, Slot
<1>1. CASE decoder_read_packet
  BY <1>1 DEF decoder_read_packet, outputVars, encodeVars, IsEos
<1>2. CASE decoder_put_packet
  <2>1. packet \in Picture
    BY <1>2 DEF decoder_put_packet, Fed
  <2>2. mpp' \in Seq(Picture) /\ Len(mpp') <= MppDepth
    <3>1. CASE Len(mpp) < MppDepth /\ mpp' = Append(mpp, packet)
      BY <2>1, <3>1
    <3>2. CASE UNCHANGED mpp
      BY <3>2
    <3> QED
      BY <1>2, <3>1, <3>2 DEF decoder_put_packet
  <2>3. /\ input' \in {"read", "put"}
        /\ UNCHANGED <<next, packet, outputVars, buffer, flag, encodeVars, up, lost>>
    BY <1>2 DEF decoder_put_packet
  <2> QED
    BY <2>2, <2>3 DEF outputVars, encodeVars
<1>3. CASE GetInfoChange
  BY <1>3 DEF GetInfoChange, Outputs, inputVars, encodeVars
<1>4. CASE frame_change
  BY <1>4, ModN DEF frame_change, Outputs, inputVars, encodeVars
<1>5. CASE GetPicture
  <2>1. Head(mpp) \in Picture /\ Tail(mpp) \in Seq(Picture) /\ Len(Tail(mpp)) <= MppDepth
    BY <1>5 DEF GetPicture
  <2>2. mpp' \in Seq(Picture) /\ Len(mpp') <= MppDepth /\ frame' \in 0..FilePackets
    BY <1>5, <2>1 DEF GetPicture
  <2>3. output' = "wait" /\ announced' = FALSE
        /\ UNCHANGED <<inputVars, encodeVars, up, fresh, dp, put, buffer, flag, lost>>
    BY <1>5 DEF GetPicture, Outputs
  <2> QED
    BY <2>2, <2>3 DEF inputVars, encodeVars
<1>6. CASE WaitFree
  BY <1>6 DEF WaitFree, Outputs, inputVars, encodeVars
<1>7. CASE Blit
  BY <1>7 DEF Blit, Outputs, inputVars, encodeVars
<1>8. CASE Publish
  BY <1>8, ModN DEF Publish, Outputs, inputVars, encodeVars
<1>9. CASE WaitFrame
  BY <1>9 DEF WaitFrame, Encodes, inputVars, outputVars
<1>10. CASE encoder_run
  BY <1>10 DEF encoder_run, Encodes, inputVars, outputVars
<1>11. CASE Release
  BY <1>11, ModN DEF Release, Encodes, inputVars, outputVars
<1>12. CASE Enter
  BY <1>12 DEF Enter, inputVars, outputVars, encodeVars
<1>13. CASE UNCHANGED vars
  BY <1>13 DEF vars, inputVars, outputVars, encodeVars
<1> QED
  BY <1>1, <1>2, <1>3, <1>4, <1>5, <1>6, <1>7, <1>8, <1>9, <1>10, <1>11, <1>12, <1>13
     DEF Next, thread_input, thread_output, thread_encoder, Exited

\* The file comes through the decoder in order, from the first packet again
\* after the last (simple/mpi_decoder.c:177-211).
LEMMA FedStep ==
  ASSUME TypeOK, Fed, Gets, [Next]_vars
  PROVE  Fed' /\ (~GetPicture => Coming' = Coming)
<1> USE FileAssumption
<1>1. CASE decoder_read_packet
  <2>1. /\ mpp' = mpp /\ packet' = next /\ next' = Follow(next) /\ input = "read"
        /\ input' = "put" /\ next # 0
    BY <1>1 DEF decoder_read_packet, Follow, IsEos, TypeOK, Picture
  <2>2. Offered' = Offered
    BY <2>1 DEF Offered
  <2> QED
    BY <2>1, <2>2 DEF Fed, Coming, Follow, IsEos
<1>2. CASE decoder_put_packet
  <2>1. CASE Len(mpp) < MppDepth /\ mpp' = Append(mpp, packet) /\ input' = "read"
    <3>1. /\ next' = next /\ packet' = packet /\ input = "put"
          /\ packet # 0 /\ next = Follow(packet)
      BY <1>2 DEF decoder_put_packet, Fed
    <3>2. mpp \in Seq(Picture) /\ packet \in Picture
      BY <3>1 DEF TypeOK, Picture
    <3>3. /\ Len(mpp') = Len(mpp) + 1 /\ mpp' # <<>>
          /\ mpp'[Len(mpp')] = packet
          /\ \A i \in 1..Len(mpp) : mpp'[i] = mpp[i]
      BY <2>1, <3>2
    <3>4. \A i \in 1..Len(mpp')-1 : mpp'[i+1] = Follow(mpp'[i])
      <4> SUFFICES ASSUME NEW i \in 1..Len(mpp')-1 PROVE mpp'[i+1] = Follow(mpp'[i])
        OBVIOUS
      <4>1. CASE i = Len(mpp)
        <5>1. mpp # <<>> /\ Offered = packet
          BY <3>1, <3>2, <4>1 DEF Offered
        <5>2. packet = Follow(mpp[Len(mpp)])
          BY <5>1 DEF Fed
        <5> QED
          BY <3>2, <3>3, <4>1, <5>2
      <4>2. CASE i # Len(mpp)
        <5>1. i \in 1..Len(mpp)-1 /\ i \in 1..Len(mpp) /\ i+1 \in 1..Len(mpp)
          BY <3>2, <3>3, <4>2
        <5> QED
          BY <3>3, <5>1 DEF Fed
      <4> QED
        BY <4>1, <4>2
    <3>5. Follow(packet)' = Follow(packet)
      BY <3>1 DEF Follow, IsEos
    <3>6. Offered' = Follow(mpp'[Len(mpp')])
      BY <2>1, <3>1, <3>3 DEF Offered
    <3>7. Coming' = Coming
      <4>1. CASE mpp = <<>>
        <5>1. Len(mpp) = 0 /\ Head(mpp') = mpp'[1]
          BY <3>3, <3>2, <2>1, <4>1
        <5> QED
          BY <3>1, <3>3, <4>1, <5>1 DEF Coming, Offered
      <4>2. CASE mpp # <<>>
        <5>1. Head(mpp') = Head(mpp)
          BY <2>1, <3>2, <4>2
        <5> QED
          BY <3>3, <4>2, <5>1 DEF Coming
      <4> QED
        BY <4>1, <4>2
    <3> QED
      BY <2>1, <3>4, <3>6, <3>7 DEF Fed, Follow, IsEos
  <2>2. CASE UNCHANGED <<mpp, input>>
    BY <1>2, <2>2 DEF decoder_put_packet, Fed, Coming, Offered, Follow, IsEos
  <2> QED
    BY <1>2, <2>1, <2>2 DEF decoder_put_packet
<1>3. CASE GetPicture
  <2>1. /\ mpp # <<>> /\ mpp \in Seq(Picture) /\ mpp' = Tail(mpp)
        /\ UNCHANGED <<next, packet, input>>
    BY <1>3 DEF GetPicture, Outputs, inputVars, TypeOK
  <2>2. Len(mpp') = Len(mpp) - 1 /\ \A i \in 1..Len(mpp') : mpp'[i] = mpp[i+1]
    BY <2>1
  <2>3. \A i \in 1..Len(mpp')-1 : mpp'[i+1] = Follow(mpp'[i])
    <3> SUFFICES ASSUME NEW i \in 1..Len(mpp')-1 PROVE mpp'[i+1] = Follow(mpp'[i])
      OBVIOUS
    <3>1. Len(mpp) \in Nat /\ i \in Nat /\ i + 1 \in 1..Len(mpp') /\ i \in 1..Len(mpp')
          /\ i + 1 \in 1..Len(mpp)-1
      BY <2>1, <2>2
    <3> QED
      BY <2>2, <3>1 DEF Fed
  <2>4. mpp' # <<>> => Offered' = Follow(mpp'[Len(mpp')])
    <3>1. ASSUME mpp' # <<>> PROVE mpp'[Len(mpp')] = mpp[Len(mpp)]
      <4>1. mpp' \in Seq(Picture) /\ Len(mpp') \in 1..Len(mpp') /\ Len(mpp) \in Nat
        BY <2>1, <3>1
      <4> QED
        BY <2>2, <4>1
    <3> QED
      BY <2>1, <3>1 DEF Fed, Offered
  <2> QED
    BY <2>1, <2>3, <2>4, <1>3 DEF Fed, Follow, IsEos
<1>4. CASE UNCHANGED <<mpp, next, packet, input>>
  BY <1>4 DEF Fed, Coming, Offered, Follow, IsEos
<1>5. ASSUME ~decoder_read_packet, ~decoder_put_packet, ~GetPicture
      PROVE  UNCHANGED <<mpp, next, packet, input>>
  BY <1>5 DEF Next, thread_input, thread_output, thread_encoder, Exited, Enter, vars,
     GetInfoChange, frame_change, WaitFree, Blit, Publish, WaitFrame, encoder_run, Release,
     Outputs, Encodes, inputVars
<1> QED
  BY <1>1, <1>2, <1>3, <1>4, <1>5

\* thread_output gets every picture of the file once and in order, and leaves
\* with the last (simple/main.c:237-252).
LEMMA GetsStep ==
  ASSUME TypeOK, Fed, Gets, [Next]_vars
  PROVE  Gets'
<1> USE FileAssumption
<1>1. CASE GetPicture
  <2>1. /\ mpp # <<>> /\ mpp \in Seq(Picture) /\ mpp' = Tail(mpp) /\ frame' = Head(mpp)
        /\ output = "get" /\ output' = "wait" /\ put' = put
        /\ UNCHANGED <<next, packet, input>>
    BY <1>1 DEF GetPicture, Outputs, inputVars, TypeOK
  <2>2. frame' = put + 1
    BY <2>1 DEF Gets, Coming
  <2>3. Coming' = Follow(Head(mpp))
    <3>1. CASE Len(mpp) = 1
      <4>1. mpp' = <<>> /\ Head(mpp) = mpp[Len(mpp)]
        BY <2>1, <3>1
      <4> QED
        BY <2>1, <4>1 DEF Coming, Offered, Fed
    <3>2. CASE Len(mpp) # 1
      <4>0. Len(mpp) >= 2 /\ Len(mpp) \in Nat
        <5>1. mpp \in Seq(Picture) /\ mpp # <<>>
          BY <2>1
        <5>2. Len(mpp) \in Nat
          BY <5>1, LenProperties
        <5>3. Len(mpp) # 0
          BY <5>1, EmptySeq
        <5>4. \A n \in Nat : n # 0 /\ n # 1 => n >= 2
          OBVIOUS
        <5> QED
          BY <3>2, <5>2, <5>3, <5>4
      <4>1. mpp' # <<>> /\ Head(mpp') = mpp[2] /\ Head(mpp) = mpp[1] /\ 1 \in 1..Len(mpp)-1
        <5>1. mpp' \in Seq(Picture) /\ Len(mpp') = Len(mpp) - 1 /\ mpp'[1] = mpp[2]
          BY <2>1, <4>0
        <5>2. mpp' # <<>> /\ Head(mpp') = mpp'[1]
          BY <4>0, <5>1
        <5> QED
          BY <4>0, <5>1, <5>2
      <4>2. mpp[1+1] = Follow(mpp[1])
        BY <4>1 DEF Fed
      <4> QED
        BY <4>1, <4>2 DEF Coming
    <3> QED
      BY <3>1, <3>2
  <2> QED
    BY <2>1, <2>2, <2>3 DEF Gets, Holding, Follow, IsEos
<1>2. ASSUME ~GetPicture PROVE Gets'
  <2>1. Coming' = Coming
    BY <1>2, FedStep
  <2>2. CASE Publish
    BY <2>1, <2>2 DEF Publish, Outputs, Gets, Holding, Follow, IsEos, TypeOK
  <2>3. CASE GetInfoChange \/ frame_change \/ WaitFree \/ Blit
    BY <2>1, <2>3 DEF GetInfoChange, frame_change, WaitFree, Blit, Outputs, Gets, Holding, Follow, IsEos
  <2>4. CASE UNCHANGED <<output, frame, put>>
    BY <2>1, <2>4 DEF Gets, Holding, Follow, IsEos
  <2>5. ASSUME ~Publish, ~GetInfoChange, ~frame_change, ~WaitFree, ~Blit
        PROVE  UNCHANGED <<output, frame, put>>
    BY <1>2, <2>5 DEF Next, thread_input, thread_output, thread_encoder, Exited, Enter, vars,
       decoder_read_packet, decoder_put_packet, WaitFrame, encoder_run, Release, Encodes, outputVars
  <2> QED
    BY <2>2, <2>3, <2>4, <2>5
<1> QED
  BY <1>1, <1>2

\* The flags stay one run of the ring, from ep up to dp (simple/main.c:94-144,
\* 257-298).
LEMMA FlagsStep ==
  ASSUME TypeOK, Gets, Flags, Holds, [Next]_vars
  PROVE  Flags'
<1> USE NAssumption
<1>1. CASE Publish
  <2>1. /\ flag' = [flag EXCEPT ![dp] = TRUE] /\ put' = put + 1
        /\ dp' = IF dp = N - 1 THEN 0 ELSE dp + 1
        /\ output = "publish" /\ output' \in {"done", "get"}
        /\ UNCHANGED <<encode, ep, count>>
    BY <1>1, ModN DEF Publish, Outputs, encodeVars, TypeOK
  <2>2. InUse < N /\ InUse' = InUse + 1 /\ Ahead(dp) = InUse /\ InUse \in Nat
    BY <2>1 DEF Flags, InUse, TypeOK
  <2>3. \A j \in Slot : Ahead(j)' = Ahead(j)
    BY <2>1 DEF Ahead
  <2>4. \A j \in Slot : flag'[j] <=> Ahead(j) < InUse + 1
    <3>1. \A j \in Slot : j # dp => Ahead(j) # Ahead(dp) /\ Ahead(j) \in Nat
      BY DEF Ahead, Slot, TypeOK
    <3> QED
      BY <2>1, <2>2, <3>1 DEF Flags, TypeOK
  <2>5. IF InUse + 1 = N THEN dp' = ep ELSE Ahead(dp') = InUse + 1
    BY <2>1, <2>2 DEF Ahead, Slot, TypeOK
  <2>6. dp' \in Slot
    BY <2>1 DEF Slot, TypeOK
  <2> QED
    BY <2>1, <2>2, <2>3, <2>4, <2>5, <2>6 DEF Flags
<1>2. CASE Release
  <2>1. /\ flag' = [flag EXCEPT ![ep] = FALSE] /\ encode = "release" /\ encode' \in {"done", "wait"}
        /\ ep' = IF ep = N - 1 THEN 0 ELSE ep + 1
        /\ UNCHANGED <<dp, output, put, count>>
    BY <1>2, ModN DEF Release, Encodes, outputVars, TypeOK
  <2>2. InUse > 0 /\ InUse' = InUse - 1 /\ InUse \in 1..N
    BY <2>1 DEF Flags, InUse, TypeOK
  <2>3. ep' \in Slot
    BY <2>1 DEF Slot, TypeOK
  <2>4. \A j \in Slot : Ahead(j)' = IF j = ep THEN N - 1 ELSE Ahead(j) - 1
    BY <2>1 DEF Ahead, Slot, TypeOK
  <2>5. \A j \in Slot : flag'[j] <=> Ahead(j)' < InUse - 1
    <3>1. \A j \in Slot : j # ep => (flag'[j] <=> flag[j])
      BY <2>1 DEF TypeOK
    <3>2. ~flag'[ep] /\ ep \in Slot
      BY <2>1 DEF TypeOK
    <3> SUFFICES ASSUME NEW j \in Slot PROVE flag'[j] <=> Ahead(j)' < InUse - 1
      OBVIOUS
    <3>3. CASE j = ep
      BY <2>2, <2>4, <3>2, <3>3
    <3>4. CASE j # ep
      <4>1. Ahead(j) \in Int
        BY DEF Ahead, Slot, TypeOK
      <4>2. (flag'[j] <=> Ahead(j) < InUse) /\ Ahead(j)' = Ahead(j) - 1
        BY <2>4, <3>1, <3>4 DEF Flags
      <4> QED
        BY <2>2, <4>1, <4>2
    <3> QED
      BY <3>3, <3>4
  <2>6. Ahead(dp)' = InUse - 1
    <3>1. dp \in Slot
      BY DEF TypeOK
    <3>2. CASE dp = ep
      <4>1. InUse = N
        BY <2>2, <3>2 DEF Flags, Ahead, TypeOK, Slot
      <4> QED
        BY <2>1, <2>4, <3>1, <3>2, <4>1 DEF Ahead
    <3>3. CASE dp # ep
      BY <2>1, <2>4, <3>1, <3>3 DEF Flags, Ahead
    <3> QED
      BY <3>2, <3>3
  <2> QED
    BY <2>1, <2>2, <2>5, <2>6 DEF Flags
<1>3. CASE WaitFree
  <2>1. InUse < N
    BY <1>3 DEF WaitFree, Flags, Ahead, TypeOK, Slot
  <2> QED
    BY <1>3, <2>1 DEF WaitFree, Outputs, encodeVars, Flags, Ahead, InUse
<1>4. CASE WaitFrame
  <2>1. InUse > 0
    BY <1>4 DEF WaitFrame, Flags, Ahead, TypeOK, Slot
  <2>2. InUse' = InUse /\ \A j \in Slot : Ahead(j)' = Ahead(j)
    BY <1>4 DEF WaitFrame, Encodes, outputVars, InUse, Ahead
  <2> QED
    BY <1>4, <2>1, <2>2 DEF WaitFrame, Encodes, outputVars, Flags, TypeOK
<1>5. CASE encoder_run
  <2>1. InUse' = InUse /\ \A j \in Slot : Ahead(j)' = Ahead(j)
    BY <1>5 DEF encoder_run, Encodes, outputVars, InUse, Ahead, TypeOK
  <2> QED
    BY <1>5, <2>1 DEF encoder_run, Encodes, outputVars, Flags, TypeOK
<1>6. CASE GetInfoChange \/ frame_change \/ GetPicture \/ Blit
  <2>1. /\ UNCHANGED <<flag, dp, ep, encode, put, count>>
        /\ output' \in {"blit", "publish"} => output \in {"blit", "publish"}
    BY <1>6 DEF GetInfoChange, frame_change, GetPicture, Blit, Outputs, encodeVars
  <2> QED
    BY <2>1 DEF Flags, Ahead, InUse
<1>7. CASE UNCHANGED <<flag, dp, ep, encode, put, count, output>>
  BY <1>7 DEF Flags, Ahead, InUse
<1>8. ASSUME ~thread_output, ~thread_encoder
      PROVE  UNCHANGED <<flag, dp, ep, encode, put, count, output>>
  BY <1>8 DEF Next, thread_input, Exited, Enter, vars, decoder_read_packet,
     decoder_put_packet, outputVars, encodeVars
<1> QED
  BY <1>1, <1>2, <1>3, <1>4, <1>5, <1>6, <1>7, <1>8 DEF thread_output, thread_encoder

\* The frames in use keep their pictures, or frame_change puts a blank one in
\* their place; the encoder takes the one that is due (simple/main.c:75-146,
\* 254-298).
LEMMA HoldsStep ==
  ASSUME TypeOK, Gets, Flags, Holds, InOrder, [Next]_vars
  PROVE  Holds' /\ InOrder'
<1> USE NAssumption
<1>1. CASE frame_change
  <2>1. /\ buffer' = [buffer EXCEPT ![fresh] = 0]
        /\ lost' = (lost \/ (flag[fresh] /\ ~(fresh = ep /\ encode # "wait")))
        /\ output' # "publish" /\ fresh \in Slot
        /\ UNCHANGED <<flag, ep, encode, taken, count, last>>
    BY <1>1 DEF frame_change, Outputs, encodeVars, TypeOK
  <2>2. \A j \in Slot : Due(j)' = Due(j)
    BY <2>1 DEF Due, Ahead
  <2>3. lost => lost'
    BY <2>1
  <2>4. \A j \in Slot : flag[j] /\ (j = ep => encode = "wait")
                         => buffer'[j] = Due(j) \/ (lost' /\ buffer'[j] = 0)
    <3> SUFFICES ASSUME NEW j \in Slot, flag[j], j = ep => encode = "wait"
                 PROVE  buffer'[j] = Due(j) \/ (lost' /\ buffer'[j] = 0)
      OBVIOUS
    <3>1. CASE j = fresh
      BY <2>1, <3>1 DEF TypeOK
    <3>2. CASE j # fresh
      <4>1. buffer'[j] = buffer[j]
        BY <2>1, <3>2 DEF TypeOK
      <4> QED
        BY <2>3, <4>1 DEF Holds
    <3> QED
      BY <3>1, <3>2
  <2> QED
    BY <2>1, <2>2, <2>3, <2>4 DEF Holds, InOrder
<1>2. CASE Blit
  <2>1. /\ buffer' = [buffer EXCEPT ![dp] = frame] /\ frame' = frame
        /\ output = "blit" /\ dp \in Slot
        /\ UNCHANGED <<flag, ep, dp, encode, taken, count, last, lost>>
    BY <1>2 DEF Blit, Outputs, encodeVars, TypeOK
  <2>2. \A j \in Slot : Due(j)' = Due(j)
    BY <2>1 DEF Due, Ahead
  <2>3. ~flag[dp]
    BY <2>1 DEF Flags, Ahead, Slot, TypeOK
  <2>4. \A j \in Slot : flag[j] => buffer'[j] = buffer[j]
    BY <2>1, <2>3 DEF TypeOK
  <2>5. buffer'[dp] = frame
    BY <2>1 DEF TypeOK
  <2> QED
    BY <2>1, <2>2, <2>4, <2>5 DEF Holds, InOrder
<1>3. CASE Publish
  <2>1. /\ flag' = [flag EXCEPT ![dp] = TRUE] /\ output = "publish" /\ output' # "publish"
        /\ dp \in Slot
        /\ UNCHANGED <<buffer, ep, encode, taken, count, last, lost>>
    BY <1>3 DEF Publish, Outputs, encodeVars, TypeOK
  <2>2. \A j \in Slot : Due(j)' = Due(j)
    BY <2>1 DEF Due, Ahead
  <2>3. buffer[dp] = Due(dp)
    <3>1. buffer[dp] = put + 1 /\ Ahead(dp) = InUse
      BY <2>1 DEF Holds, Gets, Holding, Flags
    <3> QED
      BY <3>1 DEF Due, InUse, TypeOK
  <2>4. \A j \in Slot : flag'[j] => j = dp \/ flag[j]
    BY <2>1 DEF TypeOK
  <2> QED
    BY <2>1, <2>2, <2>3, <2>4 DEF Holds, InOrder
<1>4. CASE WaitFrame
  <2>1. /\ flag[ep] /\ taken' = buffer[ep] /\ encode = "wait" /\ encode' = "run" /\ ep \in Slot
        /\ UNCHANGED <<flag, ep, dp, buffer, frame, output, count, last, lost>>
    BY <1>4 DEF WaitFrame, Encodes, outputVars, TypeOK
  <2>2. \A j \in Slot : Due(j)' = Due(j)
    BY <2>1 DEF Due, Ahead
  <2>3. Due(ep) = count + 1
    BY <2>1 DEF Due, Ahead, Slot, TypeOK
  <2> QED
    BY <2>1, <2>2, <2>3 DEF Holds, InOrder
<1>5. CASE encoder_run
  <2>1. /\ encode = "run" /\ encode' = "release" /\ count' = count + 1 /\ last' = taken
        /\ UNCHANGED <<flag, ep, dp, buffer, frame, output, lost>>
    BY <1>5 DEF encoder_run, Encodes, outputVars
  <2>2. \A j \in Slot : Due(j)' = Due(j)
    BY <2>1 DEF Due, Ahead, Slot, TypeOK
  <2> QED
    BY <2>1, <2>2 DEF Holds, InOrder
<1>6. CASE Release
  <2>1. /\ flag' = [flag EXCEPT ![ep] = FALSE] /\ encode = "release"
        /\ encode' \in {"done", "wait"} /\ ep \in Slot
        /\ ep' = IF ep = N - 1 THEN 0 ELSE ep + 1
        /\ UNCHANGED <<dp, buffer, frame, output, count, last, lost>>
    BY <1>6, ModN DEF Release, Encodes, outputVars, TypeOK
  <2>2. \A j \in Slot : flag'[j] => flag[j] /\ j # ep
    BY <2>1 DEF TypeOK
  <2>3. \A j \in Slot : j # ep => Due(j)' = Due(j)
    <3> SUFFICES ASSUME NEW j \in Slot, j # ep
                 PROVE  Due(j)' = Due(j)
      OBVIOUS
    <3>0. ep \in 0..N-1 /\ j \in 0..N-1 /\ count \in Nat
      BY DEF Slot, TypeOK
    <3>1. Ahead(j)' = IF j >= ep' THEN j - ep' ELSE j - ep' + N
      BY DEF Ahead
    <3>2. Ahead(j)' = Ahead(j) - 1
      <4>1. CASE ep = N - 1
        BY <2>1, <3>0, <3>1, <4>1 DEF Ahead
      <4>2. CASE ep # N - 1
        BY <2>1, <3>0, <3>1, <4>2 DEF Ahead
      <4> QED
        BY <4>1, <4>2
    <3>3. Due(j)' = count + 1 + Ahead(j)'
      BY <2>1 DEF Due
    <3>4. Due(j) = count + Ahead(j)
      BY <2>1 DEF Due
    <3>5. Ahead(j) \in Int
      BY <3>0 DEF Ahead
    <3> QED
      BY <3>0, <3>2, <3>3, <3>4, <3>5
  <2> QED
    BY <2>1, <2>2, <2>3 DEF Holds, InOrder
<1>7. CASE GetInfoChange \/ GetPicture \/ WaitFree
  <2>1. /\ output' # "publish"
        /\ UNCHANGED <<flag, ep, encode, buffer, taken, count, last, lost>>
    BY <1>7 DEF GetInfoChange, GetPicture, WaitFree, Outputs, encodeVars
  <2> QED
    BY <2>1 DEF Holds, InOrder, Due, Ahead
<1>8. CASE UNCHANGED <<flag, ep, dp, encode, buffer, frame, output, taken, count, last, lost>>
  BY <1>8 DEF Holds, InOrder, Due, Ahead
<1>9. ASSUME ~thread_output, ~thread_encoder
      PROVE  UNCHANGED <<flag, ep, dp, encode, buffer, frame, output, taken, count, last, lost>>
  BY <1>9 DEF Next, thread_input, Exited, Enter, vars, decoder_read_packet,
     decoder_put_packet, outputVars, encodeVars
<1> QED
  BY <1>1, <1>2, <1>3, <1>4, <1>5, <1>6, <1>7, <1>8, <1>9 DEF thread_output, thread_encoder

\* The EOS mark ends the threads after the last picture, and not before
\* (simple/main.c:248, 284-298).
LEMMA EndsStep ==
  ASSUME TypeOK, Gets, Gets', Flags, InOrder, EndsComplete, [Next]_vars
  PROVE  EndsComplete'
<1> USE FileAssumption
<1>1. output' = "done" => put' = FilePackets
  BY DEF Gets
<1>2. CASE Release
  <2>1. /\ encode = "release" /\ encode' = (IF IsEos(last) THEN "done" ELSE "wait")
        /\ UNCHANGED <<output, put, count>>
    BY <1>2 DEF Release, Encodes, outputVars
  <2>2. ASSUME last = FilePackets PROVE output = "done" /\ count = FilePackets
    <3>1. count = FilePackets
      BY <2>2 DEF InOrder
    <3>2. count <= put /\ put <= FilePackets
      BY <2>1 DEF Flags, InUse, Gets, TypeOK
    <3> QED
      BY <3>1, <3>2 DEF Gets, TypeOK
  <2> QED
    BY <1>1, <2>1, <2>2 DEF EndsComplete, IsEos
<1>3. CASE WaitFrame \/ encoder_run
  BY <1>1, <1>3 DEF WaitFrame, encoder_run, Encodes, EndsComplete
<1>4. CASE UNCHANGED <<encode, count>> /\ (output = "done" => output' = "done")
  BY <1>1, <1>4 DEF EndsComplete
<1>5. ASSUME ~thread_encoder
      PROVE  UNCHANGED <<encode, count>> /\ (output = "done" => output' = "done")
  BY <1>5 DEF Next, thread_input, thread_output, Exited, Enter, vars, decoder_read_packet,
     decoder_put_packet, GetInfoChange, frame_change, GetPicture, WaitFree, Blit, Publish,
     Outputs, outputVars, encodeVars
<1> QED
  BY <1>2, <1>3, <1>4, <1>5 DEF thread_encoder

LEMMA Inductive == Spec => []IInv
<1>1. Init => IInv
  <2> SUFFICES ASSUME Init PROVE IInv
    OBVIOUS
  <2> USE NAssumption, FileAssumption
  <2>1. TypeOK
    <3>1. mpp \in Seq(Picture) /\ Len(mpp) <= MppDepth
      BY EmptySeq DEF Init
    <3>2. next \in Picture
      BY DEF Init, Picture
    <3>3. 0 \in Slot /\ 0 \in 0..FilePackets
      BY DEF Slot
    <3>4. buffer \in [Slot -> 0..FilePackets] /\ flag \in [Slot -> BOOLEAN]
      BY <3>3 DEF Init
    <3> QED
      BY <3>1, <3>2, <3>3, <3>4 DEF Init, TypeOK
  <2>2. Len(mpp) = 0 /\ mpp = <<>> /\ output = "get" /\ input = "read" /\ next = 1
    BY DEF Init
  <2>3. Fed
    BY <2>2 DEF Fed
  <2>4. Gets
    BY <2>2 DEF Init, Gets, Coming, Offered, Holding
  <2>5. Flags
    BY <2>2 DEF Init, Flags, InUse, Ahead, Slot
  <2>6. Holds /\ InOrder /\ EndsComplete
    BY <2>2 DEF Init, Holds, InOrder, EndsComplete
  <2> QED
    BY <2>1, <2>3, <2>4, <2>5, <2>6 DEF IInv
<1>2. IInv /\ [Next]_vars => IInv'
  BY TypeStep, FedStep, GetsStep, FlagsStep, HoldsStep, EndsStep DEF IInv
<1> QED
  BY <1>1, <1>2, PTL DEF Spec
-----------------------------------------------------------------------------
\* Every reachable state is well typed.
THEOREM TypeCorrect == Spec => []TypeOK
<1>1. IInv => TypeOK
  BY DEF IInv
<1> QED
  BY <1>1, Inductive, PTL

\* What the encoder gets, for a ring of any size, any file and changes of the
\* size anywhere: the pictures in their order and whole, and all of them before
\* the threads end (simple/main.c:75-298).
THEOREM Correct == Spec => []Delivers
<1>1. IInv => NoTornFrame
  BY DEF IInv, NoTornFrame, Flags, Ahead, TypeOK, Slot
<1>2. IInv => Delivers
  BY <1>1 DEF IInv, Delivers
<1> QED
  BY <1>2, Inductive, PTL
-----------------------------------------------------------------------------
\* The k numbers after n, as a queue.
After(n, k) == [i \in 1..k |-> n + i]

\* Put appends the next number, and Take leaves the numbers after the first.
LEMMA AfterIsQueue ==
  ASSUME NEW n \in Nat, NEW k \in Nat
  PROVE  /\ After(n, k) \in Seq(Nat) /\ Len(After(n, k)) = k
         /\ Append(After(n, k), n + k + 1) = After(n, k + 1)
         /\ k > 0 => /\ After(n, k) # <<>> /\ Head(After(n, k)) = n + 1
                     /\ Tail(After(n, k)) = After(n + 1, k - 1)
<1>1. After(n, k) \in Seq(Nat) /\ Len(After(n, k)) = k
  BY DEF After
<1>2. Append(After(n, k), n + k + 1) = After(n, k + 1)
  BY DEF After
<1>3. ASSUME k > 0
      PROVE  /\ After(n, k) # <<>> /\ Head(After(n, k)) = n + 1
             /\ Tail(After(n, k)) = After(n + 1, k - 1)
  BY <1>1, <1>3 DEF After
<1> QED
  BY <1>1, <1>2, <1>3

\* As long as nothing is lost, the frames in use are the queue of the pictures
\* after the count-th.
Queued ==
  ~lost =>
    last = count /\ Pending \in Nat /\ Contents = After(count, Pending)

LEMMA ContentsAreDue == IInv => Queued
<1> SUFFICES ASSUME TypeOK, Gets, Flags, Holds, InOrder, EndsComplete, ~lost
             PROVE  last = count /\ Pending \in Nat /\ Contents = After(count, Pending)
  BY DEF IInv, Queued
<1> USE NAssumption
<1>0. ep \in 0..N-1 /\ put \in Nat /\ count \in Nat /\ Slot = 0..N-1
  BY DEF TypeOK, Slot
<1>1. Pending \in Nat /\ InUse \in 0..N
  BY <1>0 DEF Flags, Pending, InUse
<1>2. ASSUME NEW i \in 1..Pending
      PROVE  (IF i = 1 /\ encode = "run" THEN taken ELSE buffer[Wrap(Oldest + i - 1, N)])
               = count + i
  <2>1. CASE i = 1 /\ encode = "run"
    BY <2>1 DEF Holds
  <2>2. CASE ~(i = 1 /\ encode = "run")
    <3> DEFINE j == Wrap(Oldest + i - 1, N)
    <3>1. /\ j \in Slot
          /\ Ahead(j) = IF encode = "release" THEN i ELSE i - 1
          /\ Ahead(j) < InUse /\ (Ahead(j) = 0 <=> j = ep)
      <4>1. CASE encode = "release"
        <5>1. Oldest = ep + 1 /\ i < InUse
          BY <1>0, <4>1 DEF Oldest, InUse, Pending
        <5> QED
          BY <1>0, <1>1, <4>1, <5>1 DEF Wrap, Ahead
      <4>2. CASE encode # "release"
        <5>1. Oldest = ep /\ i <= InUse
          BY <1>0, <4>2 DEF Oldest, InUse, Pending
        <5> QED
          BY <1>0, <1>1, <4>2, <5>1 DEF Wrap, Ahead
      <4> QED
        BY <4>1, <4>2
    <3>2. flag[j] /\ (j = ep => encode = "wait") /\ Due(j) = count + i
      <4> HIDE DEF j
      <4>1. flag[j] /\ Due(j) = count + i
        BY <1>0, <3>1 DEF Flags, Due
      <4>2. j = ep => encode # "run" /\ encode # "release" /\ encode # "done"
        <5>1. encode = "done" => Pending = 0
          BY <1>0 DEF EndsComplete, Gets, Pending
        <5> QED
          BY <2>2, <3>1, <5>1
      <4> QED
        BY <4>1, <4>2 DEF TypeOK
    <3>3. buffer[j] = Due(j)
      <4> HIDE DEF j
      <4> QED
        BY <3>1, <3>2 DEF Holds
    <3> QED
      BY <2>2, <3>2, <3>3
  <2> QED
    BY <2>1, <2>2
<1> QED
  BY <1>1, <1>2 DEF Contents, After, InOrder

\* The frames of a ring of any size are a queue of N pictures, until
\* frame_change replaces a frame in it: Publish is the Put of BoundedQueue and
\* encoder_run its Take (simple/main.c:75-146, 254-298).
THEOREM Refines == Spec => FramesAreQueue
<1>1. Init => Queue!Init
  <2> SUFFICES ASSUME Init PROVE Queue!Init
    OBVIOUS
  <2>1. Pending = 0 /\ last = 0 /\ ~lost
    BY DEF Init, Pending
  <2>2. Contents = <<>>
    BY <2>1 DEF Contents
  <2> QED
    BY <2>1, <2>2 DEF Queue!Init
<1>2. IInv /\ IInv' /\ Queued /\ Queued' /\ [Next]_vars => [Queue!Next]_(Queue!vars)
  <2> SUFFICES ASSUME IInv, IInv', Queued, Queued', [Next]_vars
               PROVE  [Queue!Next]_(Queue!vars)
    OBVIOUS
  <2>1. CASE lost'
    BY <2>1 DEF Queue!Next, Queue!Break
  <2>2. CASE ~lost'
    <3>1. lost = FALSE /\ lost' = FALSE
      <4>1. lost => lost'
        <5>1. CASE frame_change
          BY <5>1 DEF frame_change
        <5>2. CASE ~frame_change
          BY <5>2 DEF Next, thread_input, thread_output, thread_encoder, Exited, Enter, vars,
             decoder_read_packet, decoder_put_packet, GetInfoChange, GetPicture, WaitFree, Blit,
             Publish, WaitFrame, encoder_run, Release, Outputs, Encodes
        <5> QED
          BY <5>1, <5>2
      <4>2. lost \in BOOLEAN /\ lost' \in BOOLEAN
        BY DEF IInv, TypeOK
      <4> QED
        BY <2>2, <4>1, <4>2
    <3>2. /\ last = count /\ Pending \in Nat /\ Contents = After(count, Pending)
          /\ (last = count /\ Pending \in Nat /\ Contents = After(count, Pending))'
      BY <2>2, <3>1 DEF Queued
    <3>3. count \in Nat /\ put \in Nat /\ Len(Contents) = Pending
      BY <3>2, AfterIsQueue DEF IInv, TypeOK
    <3>4. CASE Publish
      <4>1. put' = put + 1 /\ count' = count /\ output = "publish"
        BY <3>4 DEF Publish, Outputs, encodeVars
      <4>2. Pending' = Pending + 1 /\ After(count, Pending)' = After(count, Pending + 1)
        BY <3>3, <4>1 DEF Pending, After
      <4>3. Pending < N
        BY <3>3, <4>1, NAssumption DEF IInv, Flags, InUse, Pending
      <4>4. Contents' = Append(Contents, last + Len(Contents) + 1)
        <5>1. Append(After(count, Pending), count + Pending + 1) = After(count, Pending + 1)
          BY <3>2, <3>3, AfterIsQueue
        <5> QED
          BY <3>2, <3>3, <4>2, <5>1
      <4> QED
        BY <2>2, <3>1, <3>2, <3>3, <4>1, <4>3, <4>4 DEF Queue!Next, Queue!Put
    <3>5. CASE encoder_run
      <4>1. put' = put /\ count' = count + 1 /\ Pending > 0
        <5>1. put' = put /\ encode = "run" /\ count' = count + 1
          BY <3>5 DEF encoder_run, Encodes, outputVars
        <5> QED
          BY <5>1 DEF IInv, Flags, InUse, Pending
      <4>2. Pending' = Pending - 1 /\ After(count, Pending)' = After(count + 1, Pending - 1)
        BY <3>3, <4>1 DEF Pending, After
      <4>3. Contents # <<>> /\ last' = Head(Contents) /\ Contents' = Tail(Contents)
        BY <3>2, <3>3, <4>1, <4>2, AfterIsQueue
      <4> QED
        BY <2>2, <3>1, <4>3 DEF Queue!Next, Queue!Take
    <3>6. CASE UNCHANGED <<put, count>>
      <4>1. Contents' = Contents /\ last' = last
        BY <3>2, <3>6 DEF After, Pending
      <4> QED
        BY <2>2, <3>1, <4>1 DEF Queue!vars
    <3>7. ASSUME ~Publish, ~encoder_run PROVE UNCHANGED <<put, count>>
      BY <3>7 DEF Next, thread_input, thread_output, thread_encoder, Exited, Enter, vars,
         decoder_read_packet, decoder_put_packet, GetInfoChange, frame_change, GetPicture,
         WaitFree, Blit, WaitFrame, Release, Outputs, Encodes, outputVars, encodeVars
    <3> QED
      BY <3>4, <3>5, <3>6, <3>7
  <2> QED
    BY <2>1, <2>2
<1> QED
  BY <1>1, <1>2, ContentsAreDue, Inductive, PTL DEF Spec, FramesAreQueue, Queue!Spec
=============================================================================
