--------------------------- MODULE FrameRingProof ---------------------------
(***************************************************************************)
(* Theorems about FrameRing, for a ring of any size, any number of         *)
(* pictures and changes of the size anywhere.                              *)
(*                                                                         *)
(* Until a check is misled, the frames in use are the Held ones from head  *)
(* up to tail (Layout) and hold the pictures in their order (Holds).       *)
(* Before the second change of the size, misled or not, every slot that    *)
(* the encoder can come to has been drawn (Drawn).                         *)
(***************************************************************************)
EXTENDS FrameRing, Sequences, TLAPS

\* The slot of an index that is not reduced yet.
Home(i) == IF i = N THEN 0 ELSE i

\* How far slot j is ahead of the encoder's.
Ahead(j) == IF j >= Home(head) THEN j - Home(head) ELSE j - Home(head) + N

\* The picture that a frame in use holds if frame_change did not replace it.
Due(j) == IF encode = "advance" THEN count + Ahead(j) ELSE count + 1 + Ahead(j)

\* Slot j holds a picture that encoder_run has not copied yet.
Waiting(j) == Ahead(j) < Held /\ (Ahead(j) = 0 => encode \in {"wait", "wrap"})

\* A picture that is handed over was counted in MaxPictures.
Bounded == output \in {"wait", "blit", "advance"} => put < MaxPictures

\* The frames in use are those from head up to tail, N-1 at most, and one
\* less while one is drawn.
Layout ==
  /\ count <= put
  /\ Held = Ahead(Home(tail))
  /\ output \in {"blit", "advance"} => Held < N - 1
  /\ encode \in {"run", "advance"} => Held > 0

\* They hold the pictures in their order, but for blank ones.
Holds ==
  /\ \A j \in Slot : Waiting(j) => buffer[j] = Due(j) \/ (lost /\ buffer[j] = 0)
  /\ output = "advance" => buffer[tail] = put + 1
  /\ encode = "run" => taken = count + 1 \/ (lost /\ taken = 0)
  /\ last = count \/ (lost /\ last = 0)

\* The size has changed for the second time.
Changed == \E k \in SizeChanges \ {1} : k <= put + 1

\* On the first lap the encoder stays behind the tail, and every slot that
\* was handed over is drawn.
Drawn ==
  /\ output = "change" => put = 0
  /\ \A j \in Slot : j < put \/ (output = "advance" /\ j = tail) => buffer[j] # 0
  /\ put < N => tail = put
  /\ put < N => head <= tail /\ (encode \in {"run", "advance"} => head < tail)
  /\ encode = "run" => taken # 0

IInv ==
  TypeOK /\ Bounded /\ (~misled => Layout /\ Holds) /\ (~Changed => Drawn)
-----------------------------------------------------------------------------
\* An index that is less than two laps ahead, without the modulo.
LEMMA ModLap ==
  ASSUME NEW i \in 0..2*N-1
  PROVE  i % N = IF i >= N THEN i - N ELSE i
<1> USE NAssumption
<1>1. CASE i < N
  BY <1>1
<1>2. CASE i >= N
  BY <1>2
<1> QED
  BY <1>1, <1>2

\* tail++ and tail % BUFFER_SIZE.
LEMMA ModN ==
  /\ \A i \in 0..N : i % N = Home(i)
  /\ \A i \in Slot : (i + 1) % N = Home(i + 1)
<1> USE NAssumption
<1>1. \A i \in 0..N : i % N = Home(i)
  BY ModLap DEF Home
<1> QED
  BY <1>1 DEF Slot

\* Every variable keeps its type.
LEMMA TypeStep ==
  ASSUME TypeOK, Bounded, [Next]_vars
  PROVE  TypeOK' /\ Bounded'
<1> USE NAssumption, PicturesAssumption
<1> USE DEF TypeOK, Bounded
<1>1. CASE GetInfoChange
  BY <1>1 DEF GetInfoChange, Outputs, encodeVars, Slot
<1>2. CASE frame_change
  <2>1. /\ buffer' = [buffer EXCEPT ![fresh] = 0] /\ fresh' = (fresh + 1) % N
        /\ output = "change" /\ output' \in {"get", "change"} /\ lost' \in BOOLEAN
        /\ UNCHANGED <<head, encode, taken, count, last, tail, announced, put, misled>>
    BY <1>2 DEF frame_change, Outputs, encodeVars
  <2>2. fresh' \in Slot
    <3>1. fresh' = Home(fresh + 1)
      BY <2>1, ModN
    <3> QED
      BY <3>1 DEF Home, Slot
  <2>3. buffer' \in [Slot -> 0..MaxPictures]
    BY <2>1
  <2> QED
    BY <2>1, <2>2, <2>3
<1>3. CASE GetPicture
  BY <1>3 DEF GetPicture, Outputs, encodeVars
<1>4. CASE WaitRoom
  BY <1>4 DEF WaitRoom, Outputs, encodeVars
<1>5. CASE Blit
  <2>1. buffer' \in [Slot -> 0..MaxPictures]
    <3>1. put + 1 \in 0..MaxPictures /\ buffer' = [buffer EXCEPT ![tail] = put + 1]
      BY <1>5 DEF Blit, Outputs
    <3> QED
      BY <3>1
  <2> QED
    BY <1>5, <2>1 DEF Blit, Outputs, encodeVars
<1>6. CASE TailAdvance
  BY <1>6 DEF TailAdvance, Outputs, encodeVars
<1>7. CASE TailWrap
  BY <1>7, ModN DEF TailWrap, Outputs, encodeVars, Home
<1>8. CASE WaitFrame
  <2>1. head \in Slot
    BY <1>8 DEF WaitFrame, Encodes, Slot
  <2> QED
    BY <1>8, <2>1 DEF WaitFrame, Encodes, outputVars
<1>9. CASE encoder_run
  BY <1>9 DEF encoder_run, Encodes, outputVars
<1>10. CASE HeadAdvance
  BY <1>10 DEF HeadAdvance, Encodes, outputVars
<1>11. CASE HeadWrap
  BY <1>11, ModN DEF HeadWrap, Encodes, outputVars, Home
<1>12. CASE UNCHANGED vars
  BY <1>12 DEF vars, outputVars, encodeVars
<1> QED
  BY <1>1, <1>2, <1>3, <1>4, <1>5, <1>6, <1>7, <1>8, <1>9, <1>10, <1>11, <1>12
     DEF Next, thread_output, thread_encoder

\* The indices enclose the frames in use, as long as no check is misled
\* (mycode/main.c:101-151, 229-268).
LEMMA LayoutStep ==
  ASSUME TypeOK, ~misled, Layout, [Next]_vars, ~misled'
  PROVE  Layout'
<1> USE NAssumption
<1>0. head \in 0..N /\ tail \in 0..N /\ put \in Nat /\ count \in Nat
  BY DEF TypeOK
<1>1. CASE WaitRoom
  <2>1. /\ output = "wait" /\ tail + 1 # head /\ ~(head = 0 /\ tail = N - 1)
        /\ UNCHANGED <<head, tail, encode, put, count>>
    BY <1>1 DEF WaitRoom, LooksFull, Outputs, encodeVars
  <2>2. Ahead(Home(tail)) < N - 1
    BY <1>0, <2>1 DEF Ahead, Home, TypeOK
  <2> QED
    BY <2>1, <2>2 DEF Layout, Held, Pending, Ahead, Home
<1>2. CASE TailAdvance
  <2>1. /\ tail' = tail + 1 /\ put' = put + 1 /\ output = "advance" /\ output' = "wrap"
        /\ UNCHANGED <<head, encode, count>> /\ tail # N
    BY <1>2 DEF TailAdvance, Outputs, encodeVars, TypeOK
  <2>2. Held' = Held + 1
    BY <1>0, <2>1 DEF Held, Pending
  <2>3. Held < N - 1 /\ Held = Ahead(Home(tail))
    BY <2>1 DEF Layout
  <2>4. Ahead(Home(tail))' = Ahead(Home(tail)) + 1
    BY <1>0, <2>1, <2>3 DEF Ahead, Home
  <2>5. Held \in Int
    BY <1>0 DEF Held, Pending
  <2> QED
    BY <1>0, <2>1, <2>2, <2>3, <2>4, <2>5 DEF Layout
<1>3. CASE TailWrap
  <2>1. tail' = Home(tail) /\ output' = "get" /\ UNCHANGED <<head, encode, count, put>>
    BY <1>0, <1>3, ModN DEF TailWrap, Outputs, encodeVars
  <2>2. Home(tail') = Home(tail)
    BY <2>1 DEF Home
  <2> QED
    BY <2>1, <2>2 DEF Layout, Held, Pending, Ahead, Home
<1>4. CASE WaitFrame
  <2>1. /\ head # tail /\ ~(head = 0 /\ tail = N) /\ encode = "wait" /\ encode' = "run"
        /\ UNCHANGED <<head, tail, output, put, count>>
    BY <1>4 DEF WaitFrame, LooksEmpty, Encodes, outputVars
  <2>2. Ahead(Home(tail)) > 0
    BY <1>0, <2>1 DEF Ahead, Home, TypeOK
  <2> QED
    BY <2>1, <2>2 DEF Layout, Held, Pending, Ahead, Home
<1>5. CASE encoder_run
  <2>1. /\ encode = "run" /\ encode' = "advance" /\ UNCHANGED <<head, tail, output, put>>
        /\ count' = IF count > MaxPictures THEN count ELSE count + 1
    BY <1>5 DEF encoder_run, Encodes, outputVars
  <2>2. count < put
    BY <1>0, <2>1 DEF Layout, Held, Pending
  <2>3. count' = count + 1
    BY <2>1, <2>2, PicturesAssumption DEF TypeOK
  <2> QED
    BY <1>0, <2>1, <2>2, <2>3 DEF Layout, Held, Pending, Ahead, Home
<1>6. CASE HeadAdvance
  <2>1. /\ encode = "advance" /\ encode' = "wrap" /\ head' = head + 1 /\ head # N
        /\ UNCHANGED <<tail, output, put, count>>
    BY <1>6 DEF HeadAdvance, Encodes, outputVars, TypeOK
  <2>2. Held' = Held - 1 /\ Held > 0 /\ Held = Ahead(Home(tail))
    BY <1>0, <2>1 DEF Held, Pending, Layout
  <2>3. Ahead(Home(tail))' = Ahead(Home(tail)) - 1
    BY <1>0, <2>1, <2>2 DEF Ahead, Home
  <2> QED
    BY <1>0, <2>1, <2>2, <2>3 DEF Layout, Held, Pending
<1>7. CASE HeadWrap
  <2>1. head' = Home(head) /\ encode = "wrap" /\ encode' = "wait"
        /\ UNCHANGED <<tail, output, count, put>>
    BY <1>0, <1>7, ModN DEF HeadWrap, Encodes, outputVars
  <2>2. Home(head') = Home(head)
    BY <2>1 DEF Home
  <2> QED
    BY <2>1, <2>2 DEF Layout, Held, Pending, Ahead, Home
<1>8. CASE GetInfoChange \/ frame_change \/ GetPicture \/ Blit
  <2>1. /\ UNCHANGED <<head, tail, encode, put, count>>
        /\ output' \in {"blit", "advance"} => output \in {"blit", "advance"}
    BY <1>8 DEF GetInfoChange, frame_change, GetPicture, Blit, Outputs, encodeVars
  <2> QED
    BY <2>1 DEF Layout, Held, Pending, Ahead, Home
<1>9. CASE UNCHANGED vars
  BY <1>9 DEF vars, outputVars, encodeVars, Layout, Held, Pending, Ahead, Home
<1> QED
  BY <1>1, <1>2, <1>3, <1>4, <1>5, <1>6, <1>7, <1>8, <1>9
     DEF Next, thread_output, thread_encoder

\* The frames in use keep their pictures, or frame_change puts a blank one in
\* their place; the encoder takes the one that is due (mycode/main.c:83-153,
\* 226-270).
LEMMA HoldsStep ==
  ASSUME TypeOK, ~misled, Layout, Holds, [Next]_vars, ~misled', Layout'
  PROVE  Holds'
<1> USE NAssumption
<1>0. head \in 0..N /\ tail \in 0..N /\ put \in Nat /\ count \in Nat /\ Slot = 0..N-1
  BY DEF TypeOK, Slot
<1>1. CASE frame_change
  <2>1. /\ buffer' = [buffer EXCEPT ![fresh] = 0] /\ output' # "advance" /\ fresh \in Slot
        /\ UNCHANGED <<head, encode, put, taken, count, last>>
        /\ lost' = (lost \/ \E j \in 0..Pending-1 : /\ fresh = (Oldest + j) % N
                                                    /\ ~(j = 0 /\ encode = "run"))
    BY <1>1 DEF frame_change, Outputs, encodeVars, TypeOK
  <2>2. /\ \A j \in Slot : Due(j)' = Due(j) /\ Waiting(j)' = Waiting(j)
    BY <2>1 DEF Due, Ahead, Home, Waiting, Held, Pending
  <2>3. lost => lost'
    BY <2>1
  <2>4. Waiting(fresh) => lost'
    <3> SUFFICES ASSUME Waiting(fresh) PROVE lost'
      OBVIOUS
    <3>1. fresh \in 0..N-1
      BY <1>0, <2>1
    <3>2. CASE encode = "advance"
      <4> DEFINE j == Ahead(fresh) - 1
      <4>1. j \in 0..Pending-1
        BY <1>0, <3>1, <3>2 DEF Waiting, Held, Pending, Ahead, Home
      <4>2. head # N
        BY <3>2 DEF TypeOK
      <4>3. PICK i \in 0..2*N-1 :
              Oldest + j = i /\ fresh = IF i >= N THEN i - N ELSE i
        BY <1>0, <3>1, <3>2, <4>1, <4>2 DEF Oldest, Ahead, Home
      <4>4. fresh = (Oldest + j) % N
        BY <4>3, ModLap
      <4> QED
        BY <2>1, <3>2, <4>1, <4>4
    <3>3. CASE encode # "advance"
      <4> DEFINE j == Ahead(fresh)
      <4>1. j \in 0..Pending-1 /\ ~(j = 0 /\ encode = "run")
        BY <1>0, <3>1, <3>3 DEF Waiting, Held, Pending, Ahead, Home
      <4> DEFINE i == head + j
      <4>2. i \in 0..2*N-1 /\ fresh = IF i >= N THEN i - N ELSE i
        <5>1. CASE head = N
          BY <1>0, <3>1, <5>1 DEF Ahead, Home
        <5>2. CASE head # N
          BY <1>0, <3>1, <5>2 DEF Ahead, Home
        <5> QED
          BY <5>1, <5>2
      <4>3. i = Oldest + j
        BY <3>3 DEF Oldest
      <4>4. fresh = (Oldest + j) % N
        <5>1. i % N = fresh
          <6> HIDE DEF i
          <6> QED
            BY <4>2, ModLap
        <5> QED
          BY <4>3, <5>1
      <4> QED
        BY <2>1, <4>1, <4>4
    <3> QED
      BY <3>2, <3>3
  <2>5. \A j \in Slot : j # fresh => buffer'[j] = buffer[j]
    BY <2>1 DEF TypeOK
  <2>6. buffer'[fresh] = 0
    BY <2>1 DEF TypeOK
  <2> QED
    BY <2>1, <2>2, <2>3, <2>4, <2>5, <2>6 DEF Holds
<1>2. CASE Blit
  <2>1. /\ buffer' = [buffer EXCEPT ![tail] = put + 1] /\ output = "blit"
        /\ UNCHANGED <<head, tail, encode, put, taken, count, last, lost>>
    BY <1>2 DEF Blit, Outputs, encodeVars
  <2>2. tail \in Slot /\ Home(tail) = tail
    BY <1>0, <2>1 DEF TypeOK, Home
  <2>3. \A j \in Slot : Due(j)' = Due(j) /\ Waiting(j)' = Waiting(j)
    BY <2>1 DEF Due, Ahead, Home, Waiting, Held, Pending
  <2>4. ~Waiting(tail)
    BY <1>0, <2>2 DEF Waiting, Layout, Ahead, Home, Held, Pending
  <2>5. \A j \in Slot : j # tail => buffer'[j] = buffer[j]
    BY <2>1 DEF TypeOK
  <2>6. buffer'[tail] = put + 1
    BY <2>1, <2>2 DEF TypeOK
  <2> QED
    BY <2>1, <2>3, <2>4, <2>5, <2>6 DEF Holds
<1>3. CASE TailAdvance
  <2>1. /\ output = "advance" /\ output' = "wrap" /\ put' = put + 1
        /\ UNCHANGED <<head, encode, buffer, taken, count, last, lost>>
    BY <1>3 DEF TailAdvance, Outputs, encodeVars
  <2>2. tail \in Slot /\ Home(tail) = tail /\ buffer[tail] = put + 1 /\ Held = Ahead(tail)
    BY <1>0, <2>1 DEF TypeOK, Home, Holds, Layout
  <2>3. \A j \in Slot : Due(j)' = Due(j) /\ Ahead(j)' = Ahead(j) /\ Ahead(j) \in Nat
    BY <1>0, <2>1 DEF Due, Ahead, Home
  <2>4. Held' = Held + 1 /\ Held \in Nat
    BY <1>0, <2>1 DEF Held, Pending, Layout
  <2>5. \A j \in Slot : Ahead(j) = Ahead(tail) => j = tail
    BY <1>0, <2>2 DEF Ahead, Home
  <2>6. \A j \in Slot : Waiting(j)' => Waiting(j) \/ j = tail
    BY <2>1, <2>2, <2>3, <2>4, <2>5 DEF Waiting
  <2>7. buffer[tail] = Due(tail)
    BY <1>0, <2>2 DEF Due, Held, Pending
  <2> QED
    BY <2>1, <2>3, <2>6, <2>7 DEF Holds
<1>4. CASE WaitFrame
  <2>1. /\ taken' = buffer[head] /\ encode = "wait" /\ encode' = "run" /\ head # N
        /\ UNCHANGED <<head, tail, output, buffer, put, count, last, lost>>
    BY <1>4 DEF WaitFrame, Encodes, outputVars, TypeOK
  <2>2. \A j \in Slot : Due(j)' = Due(j) /\ (Waiting(j)' => Waiting(j))
    BY <2>1 DEF Due, Ahead, Home, Waiting, Held, Pending
  <2>3. Held > 0 /\ Ahead(head) = 0 /\ Due(head) = count + 1 /\ head \in Slot
    BY <1>0, <2>1 DEF Layout, Held, Pending, Due, Ahead, Home
  <2>4. Waiting(head)
    BY <1>0, <2>1, <2>3 DEF Waiting
  <2> QED
    BY <2>1, <2>2, <2>3, <2>4 DEF Holds
<1>5. CASE encoder_run
  <2>1. /\ encode = "run" /\ encode' = "advance" /\ last' = taken
        /\ UNCHANGED <<head, tail, output, buffer, put, lost>>
        /\ count' = IF count > MaxPictures THEN count ELSE count + 1
    BY <1>5 DEF encoder_run, Encodes, outputVars
  <2>2. count' = count + 1
    BY <1>0, <2>1, PicturesAssumption DEF TypeOK, Layout
  <2>3. \A j \in Slot : Due(j)' = Due(j) /\ (Waiting(j)' => Waiting(j))
    BY <1>0, <2>1, <2>2 DEF Due, Ahead, Home, Waiting, Held, Pending
  <2> QED
    BY <2>1, <2>2, <2>3 DEF Holds
<1>6. CASE HeadAdvance
  <2>1. /\ encode = "advance" /\ encode' = "wrap" /\ head' = head + 1 /\ head # N
        /\ UNCHANGED <<tail, output, buffer, put, count, last, lost>>
    BY <1>6 DEF HeadAdvance, Encodes, outputVars, TypeOK
  <2>2. Held' = Held - 1 /\ Held \in Nat /\ Held \in 0..N-1
    BY <1>0, <2>1 DEF Held, Pending, Layout, Ahead, Home
  <2>3. ASSUME NEW j \in Slot, Waiting(j)'
        PROVE  Waiting(j) /\ Due(j)' = Due(j)
    <3>1. Ahead(j)' < Held - 1
      BY <2>2, <2>3 DEF Waiting
    <3>2. j # head
      BY <1>0, <2>1, <2>2, <3>1 DEF Ahead, Home
    <3>3. Ahead(j)' = Ahead(j) - 1 /\ Ahead(j) \in 1..N
      BY <1>0, <2>1, <3>2 DEF Ahead, Home
    <3>4. Due(j)' = count + 1 + Ahead(j)'
      BY <2>1 DEF Due
    <3>5. Due(j) = count + Ahead(j)
      BY <2>1 DEF Due
    <3> QED
      BY <1>0, <2>2, <3>1, <3>3, <3>4, <3>5 DEF Waiting
  <2> QED
    BY <2>1, <2>3 DEF Holds
<1>7. CASE HeadWrap
  <2>1. head' = Home(head) /\ encode = "wrap" /\ encode' = "wait"
        /\ UNCHANGED <<tail, output, buffer, put, count, last, lost>>
    BY <1>0, <1>7, ModN DEF HeadWrap, Encodes, outputVars
  <2>2. Home(head') = Home(head)
    BY <2>1 DEF Home
  <2>3. \A j \in Slot : Due(j)' = Due(j) /\ Waiting(j)' = Waiting(j)
    BY <2>1, <2>2 DEF Due, Ahead, Home, Waiting, Held, Pending
  <2> QED
    BY <2>1, <2>3 DEF Holds
<1>8. CASE GetInfoChange \/ GetPicture \/ WaitRoom \/ TailWrap
  <2>1. /\ output' # "advance"
        /\ UNCHANGED <<head, encode, buffer, put, taken, count, last, lost>>
    BY <1>8 DEF GetInfoChange, GetPicture, WaitRoom, TailWrap, Outputs, encodeVars
  <2> QED
    BY <2>1 DEF Holds, Due, Waiting, Ahead, Home, Held, Pending
<1>9. CASE UNCHANGED vars
  BY <1>9 DEF vars, outputVars, encodeVars, Holds, Due, Waiting, Ahead, Home, Held, Pending
<1> QED
  BY <1>1, <1>2, <1>3, <1>4, <1>5, <1>6, <1>7, <1>8, <1>9
     DEF Next, thread_output, thread_encoder

\* Before the second change of the size no frame that is not drawn comes to
\* the encoder, misled or not (mycode/main.c:51-153, 226-270).
LEMMA DrawnStep ==
  ASSUME TypeOK, ~Changed => Drawn, [Next]_vars
  PROVE  ~Changed' => Drawn'
<1> USE NAssumption
<1> SUFFICES ASSUME ~Changed' PROVE Drawn'
  OBVIOUS
<1>0. head \in 0..N /\ tail \in 0..N /\ put \in Nat /\ Slot = 0..N-1
  BY DEF TypeOK, Slot
<1>1. put' \in {put, put + 1}
  BY DEF Next, thread_output, thread_encoder, GetInfoChange, frame_change, GetPicture,
     WaitRoom, Blit, TailAdvance, TailWrap, WaitFrame, encoder_run, HeadAdvance, HeadWrap,
     Outputs, Encodes, outputVars, vars
<1>2. Drawn
  <2>1. \A k \in SizeChanges \ {1} : k \in Nat
    BY PicturesAssumption
  <2> QED
    BY <1>0, <1>1, <2>1 DEF Changed
<1>3. CASE GetInfoChange
  <2>1. put + 1 = 1
    BY <1>0, <1>3 DEF GetInfoChange, Changed
  <2>2. /\ output = "get" /\ output' = "change"
        /\ UNCHANGED <<head, tail, encode, buffer, taken, put>>
    BY <1>3 DEF GetInfoChange, Outputs, encodeVars
  <2> QED
    BY <1>0, <1>2, <2>1, <2>2 DEF Drawn
<1>4. CASE frame_change
  <2>1. /\ output = "change" /\ output' # "advance"
        /\ UNCHANGED <<head, tail, encode, taken, put>>
    BY <1>4 DEF frame_change, Outputs, encodeVars
  <2>2. put = 0
    BY <1>2, <2>1 DEF Drawn
  <2> QED
    BY <1>0, <1>2, <2>1, <2>2 DEF Drawn
<1>5. CASE Blit
  <2>1. /\ output = "blit" /\ output' = "advance" /\ buffer' = [buffer EXCEPT ![tail] = put + 1]
        /\ UNCHANGED <<head, tail, encode, taken, put>>
    BY <1>5 DEF Blit, Outputs, encodeVars
  <2>2. \A j \in Slot : buffer'[j] = IF j = tail THEN put + 1 ELSE buffer[j]
    BY <2>1 DEF TypeOK
  <2> QED
    BY <1>0, <1>2, <2>1, <2>2 DEF Drawn
<1>6. CASE TailAdvance
  <2>1. /\ output = "advance" /\ output' = "wrap" /\ tail' = tail + 1 /\ put' = put + 1
        /\ UNCHANGED <<head, encode, buffer, taken>>
    BY <1>6 DEF TailAdvance, Outputs, encodeVars
  <2> QED
    BY <1>0, <1>2, <2>1 DEF Drawn
<1>7. CASE TailWrap
  <2>1. /\ output = "wrap" /\ output' = "get" /\ tail' = Home(tail)
        /\ UNCHANGED <<head, encode, buffer, taken, put>>
    BY <1>0, <1>7, ModN DEF TailWrap, Outputs, encodeVars
  <2> QED
    BY <1>0, <1>2, <2>1 DEF Drawn, Home
<1>8. CASE WaitFrame
  <2>1. /\ head # tail /\ head # N /\ encode' = "run" /\ taken' = buffer[head]
        /\ UNCHANGED <<head, tail, output, buffer, put>>
    BY <1>8 DEF WaitFrame, LooksEmpty, Encodes, outputVars, TypeOK
  <2>2. head \in Slot /\ head < put
    BY <1>0, <1>2, <2>1 DEF Drawn
  <2> QED
    BY <1>0, <1>2, <2>1, <2>2 DEF Drawn
<1>9. CASE HeadAdvance
  <2>1. /\ encode = "advance" /\ encode' = "wrap" /\ head' = head + 1
        /\ UNCHANGED <<tail, output, buffer, put>>
    BY <1>9 DEF HeadAdvance, Encodes, outputVars
  <2> QED
    BY <1>0, <1>2, <2>1 DEF Drawn
<1>10. CASE HeadWrap
  <2>1. /\ encode' = "wait" /\ head' = Home(head)
        /\ UNCHANGED <<tail, output, buffer, put>>
    BY <1>0, <1>10, ModN DEF HeadWrap, Encodes, outputVars
  <2> QED
    BY <1>0, <1>2, <2>1 DEF Drawn, Home
<1>11. CASE encoder_run \/ GetPicture \/ WaitRoom \/ UNCHANGED vars
  <2>1. /\ UNCHANGED <<head, tail, buffer, put>>
        /\ output' = output \/ output' \in {"wait", "blit"}
        /\ \/ encode' = encode /\ taken' = taken
           \/ encode = "run" /\ encode' = "advance"
    BY <1>11 DEF encoder_run, GetPicture, WaitRoom, Encodes, Outputs, vars, outputVars, encodeVars
  <2> QED
    BY <1>0, <1>2, <2>1 DEF Drawn
<1> QED
  BY <1>3, <1>4, <1>5, <1>6, <1>7, <1>8, <1>9, <1>10, <1>11
     DEF Next, thread_output, thread_encoder

LEMMA Inductive == Spec => []IInv
<1>1. Init => IInv
  <2> SUFFICES ASSUME Init PROVE IInv
    OBVIOUS
  <2> USE NAssumption, PicturesAssumption DEF Init
  <2>1. TypeOK
    <3>1. 0 \in Slot /\ 0 \in 0..MaxPictures
      BY DEF Slot
    <3>2. buffer \in [Slot -> 0..MaxPictures]
      BY <3>1
    <3>3. 0 \in 0..N /\ 0 # N
      OBVIOUS
    <3> QED
      BY <3>1, <3>2, <3>3 DEF TypeOK
  <2>2. Bounded /\ Layout
    BY DEF Bounded, Layout, Held, Pending, Ahead, Home
  <2>3. Holds
    BY DEF Holds, Waiting, Held, Pending, Ahead, Home, Slot
  <2>4. Drawn
    BY DEF Drawn, Slot
  <2> QED
    BY <2>1, <2>2, <2>3, <2>4 DEF IInv
<1>2. IInv /\ [Next]_vars => IInv'
  <2> SUFFICES ASSUME IInv, [Next]_vars PROVE IInv'
    OBVIOUS
  <2>1. misled => misled'
    BY DEF Next, thread_output, thread_encoder, GetInfoChange, frame_change, GetPicture,
       WaitRoom, Blit, TailAdvance, TailWrap, WaitFrame, encoder_run, HeadAdvance, HeadWrap,
       Outputs, Encodes, outputVars, vars
  <2>2. ~misled' => Layout' /\ Holds'
    BY <2>1, LayoutStep, HoldsStep DEF IInv
  <2> QED
    BY <2>2, TypeStep, DrawnStep DEF IInv
<1> QED
  BY <1>1, <1>2, PTL DEF Spec
-----------------------------------------------------------------------------
\* Every reachable state is well typed.
THEOREM TypeCorrect == Spec => []TypeOK
<1>1. IInv => TypeOK
  BY DEF IInv
<1> QED
  BY <1>1, Inductive, PTL

\* What the encoder gets, for a ring of any size, any number of pictures and
\* changes of the size anywhere: until a check is misled, the pictures in their
\* order and whole, and never a blank one before the second change of the size
\* (mycode/main.c:51-153, 226-270).
THEOREM Correct == Spec => []Delivers
<1>1. IInv => InOrder
  BY DEF IInv, InOrder, Holds
<1>2. IInv => NoTornFrame
  <2> SUFFICES ASSUME IInv, output = "blit", encode = "run", ~misled
               PROVE  head # tail
    BY DEF NoTornFrame
  <2>1. head \in 0..N-1 /\ tail \in 0..N-1 /\ Ahead(Home(tail)) > 0
    BY NAssumption DEF IInv, TypeOK, Layout
  <2> QED
    BY <2>1, NAssumption DEF Ahead, Home
<1>3. IInv => NeverBlank
  BY DEF IInv, NeverBlank, Drawn, Changed
<1>4. IInv => Delivers
  BY <1>1, <1>2, <1>3 DEF Delivers
<1> QED
  BY <1>4, Inductive, PTL
-----------------------------------------------------------------------------
\* The k numbers after n, as a queue.
After(n, k) == [i \in 1..k |-> n + i]

\* Put appends the next number, and Take leaves the numbers after the first.
LEMMA AfterIsQueue ==
  ASSUME NEW n \in Nat, NEW k \in Nat
  PROVE  /\ After(n, k) \in Seq(Nat) /\ Len(After(n, k)) = k
         /\ Append(After(n, k), n + k + 1) = After(n, k + 1)
         /\ k > 0 => /\ After(n, k) # <<>> /\ Head(After(n, k)) = n + 1
                     /\ Tail(After(n, k)) = After(n + 1, k - 1)
<1>1. After(n, k) \in Seq(Nat) /\ Len(After(n, k)) = k
  BY DEF After
<1>2. Append(After(n, k), n + k + 1) = After(n, k + 1)
  BY DEF After
<1>3. ASSUME k > 0
      PROVE  /\ After(n, k) # <<>> /\ Head(After(n, k)) = n + 1
             /\ Tail(After(n, k)) = After(n + 1, k - 1)
  BY <1>1, <1>3 DEF After
<1> QED
  BY <1>1, <1>2, <1>3

\* As long as nothing is misled or lost, the frames in use are the queue of
\* the pictures after the count-th.
Queued ==
  ~misled /\ ~lost =>
    last = count /\ Pending \in Nat /\ Contents = After(count, Pending)

LEMMA ContentsAreDue == IInv => Queued
<1> SUFFICES ASSUME TypeOK, Layout, Holds, ~lost
             PROVE  last = count /\ Pending \in Nat /\ Contents = After(count, Pending)
  BY DEF IInv, Queued
<1> USE NAssumption
<1>0. head \in 0..N /\ tail \in 0..N /\ put \in Nat /\ count \in Nat /\ Slot = 0..N-1
  BY DEF TypeOK, Slot
<1>1. Pending \in Nat /\ Held \in 0..N-1
  BY <1>0 DEF Layout, Pending, Ahead, Home
<1>2. ASSUME NEW i \in 1..Pending
      PROVE  (IF i = 1 /\ encode = "run" THEN taken ELSE buffer[Wrap(Oldest + i - 1, N)])
               = count + i
  <2>1. CASE i = 1 /\ encode = "run"
    BY <2>1 DEF Holds
  <2>2. CASE ~(i = 1 /\ encode = "run")
    <3> DEFINE j == Wrap(Oldest + i - 1, N)
    <3>1. /\ j \in Slot
          /\ Ahead(j) = IF encode = "advance" THEN i ELSE i - 1
      <4>1. CASE encode = "advance"
        <5>1. head # N /\ Oldest = head + 1 /\ i < N
          BY <1>1, <4>1 DEF TypeOK, Oldest, Held
        <5> QED
          BY <1>0, <1>1, <4>1, <5>1 DEF Wrap, Ahead, Home
      <4>2. CASE encode # "advance"
        <5>1. Oldest = head /\ i < N
          BY <1>1, <4>2 DEF Oldest, Held
        <5> QED
          BY <1>0, <1>1, <4>2, <5>1 DEF Wrap, Ahead, Home
      <4> QED
        BY <4>1, <4>2
    <3>2. Waiting(j) /\ Due(j) = count + i
      <4> HIDE DEF j
      <4> QED
        BY <1>0, <1>1, <2>2, <3>1 DEF Waiting, Due, Held, TypeOK
    <3>3. buffer[j] = Due(j)
      <4> HIDE DEF j
      <4> QED
        BY <3>1, <3>2 DEF Holds
    <3> QED
      BY <2>2, <3>2, <3>3
  <2> QED
    BY <2>1, <2>2
<1> QED
  BY <1>1, <1>2 DEF Contents, After, Holds

\* The frames of a ring of any size are a queue of N-1 pictures, until a check
\* is misled or frame_change replaces a frame in it: TailAdvance is the Put of
\* BoundedQueue and encoder_run its Take (mycode/main.c:83-153, 226-270).
THEOREM Refines == Spec => FramesAreQueue
<1> DEFINE broken == misled \/ lost
<1>1. Init => Queue!Init
  <2> SUFFICES ASSUME Init PROVE Queue!Init
    OBVIOUS
  <2>1. Pending = 0 /\ last = 0 /\ ~misled /\ ~lost
    BY DEF Init, Pending
  <2>2. Contents = <<>>
    BY <2>1 DEF Contents
  <2> QED
    BY <2>1, <2>2 DEF Queue!Init
<1>2. IInv /\ IInv' /\ Queued /\ Queued' /\ [Next]_vars => [Queue!Next]_(Queue!vars)
  <2> SUFFICES ASSUME IInv, IInv', Queued, Queued', [Next]_vars
               PROVE  [Queue!Next]_(Queue!vars)
    OBVIOUS
  <2>1. CASE broken'
    BY <2>1 DEF Queue!Next, Queue!Break
  <2>2. CASE ~broken'
    <3>1. ~misled /\ ~lost /\ ~misled' /\ ~lost'
      <4>1. misled => misled'
        BY DEF Next, thread_output, thread_encoder, GetInfoChange, frame_change, GetPicture,
           WaitRoom, Blit, TailAdvance, TailWrap, WaitFrame, encoder_run, HeadAdvance,
           HeadWrap, Outputs, Encodes, outputVars, vars
      <4>2. lost => lost'
        <5>1. CASE frame_change
          BY <5>1 DEF frame_change
        <5>2. CASE ~frame_change
          BY <5>2 DEF Next, thread_output, thread_encoder, GetInfoChange, GetPicture,
             WaitRoom, Blit, TailAdvance, TailWrap, WaitFrame, encoder_run, HeadAdvance,
             HeadWrap, Outputs, Encodes, outputVars, vars
        <5> QED
          BY <5>1, <5>2
      <4> QED
        BY <2>2, <4>1, <4>2
    <3>2. /\ last = count /\ Pending \in Nat /\ Contents = After(count, Pending)
          /\ (last = count /\ Pending \in Nat /\ Contents = After(count, Pending))'
      BY <3>1 DEF Queued
    <3>3. count \in Nat /\ put \in Nat /\ Len(Contents) = Pending
      BY <3>2, AfterIsQueue DEF IInv, TypeOK
    <3>4. CASE TailAdvance
      <4>1. put' = put + 1 /\ count' = count /\ output = "advance"
        BY <3>4 DEF TailAdvance, Outputs, encodeVars
      <4>2. Pending' = Pending + 1 /\ After(count, Pending)' = After(count, Pending + 1)
        BY <3>3, <4>1 DEF Pending, After
      <4>3. Pending < N - 1
        BY <3>1, <3>3, <4>1, NAssumption DEF IInv, Layout, Held, Pending
      <4>4. Contents' = Append(Contents, last + Len(Contents) + 1)
        <5>1. Append(After(count, Pending), count + Pending + 1) = After(count, Pending + 1)
          BY <3>2, <3>3, AfterIsQueue
        <5> QED
          BY <3>2, <3>3, <4>2, <5>1
      <4> QED
        BY <3>1, <3>2, <3>3, <4>1, <4>3, <4>4 DEF Queue!Next, Queue!Put
    <3>5. CASE encoder_run
      <4>1. put' = put /\ count' = count + 1 /\ Pending > 0
        <5>1. put' = put /\ encode = "run"
              /\ count' = IF count > MaxPictures THEN count ELSE count + 1
          BY <3>5 DEF encoder_run, Encodes, outputVars
        <5>2. Pending > 0 /\ put <= MaxPictures
          BY <3>1, <5>1, PicturesAssumption DEF IInv, Layout, Held, TypeOK
        <5> QED
          BY <3>3, <5>1, <5>2, PicturesAssumption DEF Pending
      <4>2. Pending' = Pending - 1 /\ After(count, Pending)' = After(count + 1, Pending - 1)
        BY <3>3, <4>1 DEF Pending, After
      <4>3. Contents # <<>> /\ last' = Head(Contents) /\ Contents' = Tail(Contents)
        BY <3>2, <3>3, <4>1, <4>2, AfterIsQueue
      <4> QED
        BY <3>1, <4>3 DEF Queue!Next, Queue!Take
    <3>6. CASE UNCHANGED <<put, count>>
      <4>1. Contents' = Contents /\ last' = last
        BY <3>2, <3>6 DEF After, Pending
      <4> QED
        BY <3>1, <4>1 DEF Queue!vars
    <3>7. ASSUME ~TailAdvance, ~encoder_run PROVE UNCHANGED <<put, count>>
      BY <3>7 DEF Next, thread_output, thread_encoder, GetInfoChange, frame_change,
         GetPicture, WaitRoom, Blit, TailWrap, WaitFrame, HeadAdvance, HeadWrap,
         Outputs, Encodes, outputVars, encodeVars, vars
    <3> QED
      BY <3>4, <3>5, <3>6, <3>7
  <2> QED
    BY <2>1, <2>2
<1> QED
  BY <1>1, <1>2, ContentsAreDue, Inductive, PTL DEF Spec, FramesAreQueue, Queue!Spec
=============================================================================
