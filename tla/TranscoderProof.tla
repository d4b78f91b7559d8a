-------------------------- MODULE TranscoderProof ---------------------------
(***************************************************************************)
(* Theorems about Transcoder, for stages of any depth and any number of    *)
(* packets.  The pictures are numbered in the order of the channel, and    *)
(* where each of them is before the frames follows from how many the       *)
(* decoder was given and how many were drawn, whatever the encoder does    *)
(* (Numbers, Places, Ring).  Until a check of head and tail is misled the  *)
(* frames in use are less than a lap, and hold the pictures after the last *)
(* encoded (Holds).  An index may be N between its two stores, so what is  *)
(* said of the indices is said of them modulo N.                           *)
(***************************************************************************)
EXTENDS Transcoder, SequenceTheorems, TLAPS

\* The pictures given to the decoder, those that came out of it, and those drawn.
Given == IF input = "put" THEN fed - 1 ELSE fed
Decoded == Given - Len(mpp)
Undrawn == output \in {"wait", "draw"}
Drawn == IF Undrawn THEN Decoded - 1 ELSE Decoded

\* encoder_run has a picture in hand.
Encoding == encode \in {"put", "stuck"}

\* Nothing is drawn that was not read.
Numbers == (input = "put" => fed > 0) /\ Drawn \in Nat

\* The decoder and thread_output have the pictures after those drawn.
Places ==
  /\ \A i \in 1..Len(mpp) : mpp[i] = Decoded + i
  /\ Undrawn => hand = Decoded

\* The place to draw at is that count, laps taken off.
Ring == tail % N = Drawn % N

\* The frames in use, one of which is free when thread_output draws, and the
\* picture that encoder_run has.
Holds ==
  ~misled =>
    /\ count <= Drawn /\ Drawn - count < N
    /\ output = "draw" => Drawn - count < N - 1
    /\ head % N = count % N
    /\ \A k \in Nat : count <= k /\ k < Drawn => buffer[k % N] = k + 1
    /\ Encoding => count < Drawn /\ taken = count + 1

IInv == TypeOK /\ Numbers /\ Places /\ Ring /\ Holds
-----------------------------------------------------------------------------
(***************************************************************************)
(* Places in a ring of N frames.                                           *)
(***************************************************************************)

LEMMA Lap ==
  ASSUME NEW n \in Nat \ {0}
  PROVE  \A x \in Nat : \E q \in Nat, r \in 0..n-1 : x = (n * q) + r /\ x % n = r
<1> SUFFICES ASSUME NEW x \in Nat
             PROVE  \E q \in Nat, r \in 0..n-1 : x = (n * q) + r /\ x % n = r
  OBVIOUS
<1>1. x \div n \in Nat /\ x % n \in 0..n-1 /\ x = (n * (x \div n)) + (x % n)
  OBVIOUS
<1> QED
  BY <1>1, Zenon

\* Two numbers less than a lap apart are in one place only if they are equal.
LEMMA OneLap ==
  ASSUME NEW n \in Nat \ {0}, NEW a \in Nat, NEW b \in Nat,
         a <= b, b - a < n, a % n = b % n
  PROVE  a = b
<1>1. PICK q \in Nat, r \in 0..n-1 : a = (n * q) + r /\ a % n = r
  BY Lap
<1>2. PICK u \in Nat, v \in 0..n-1 : b = (n * u) + v /\ b % n = v
  BY Lap
<1>3. b - a = n * (u - q)
  BY <1>1, <1>2
<1>4. u - q = 0
  <2>1. \A k \in Int : k >= 1 => n * k >= n
    OBVIOUS
  <2>2. \A k \in Int : k <= -1 => n * k <= -n
    OBVIOUS
  <2> QED
    BY <1>3, <2>1, <2>2
<1> QED
  BY <1>1, <1>2, <1>4

\* A place k further on.
LEMMA Further ==
  ASSUME NEW n \in Nat \ {0}, NEW a \in Nat, NEW k \in Nat
  PROVE  ((a % n) + k) % n = (a + k) % n
<1>1. PICK q \in Nat, r \in 0..n-1 : a = (n * q) + r /\ a % n = r
  BY Lap
<1>2. PICK u \in Nat, v \in 0..n-1 : r + k = (n * u) + v /\ (r + k) % n = v
  <2>1. r + k \in Nat
    OBVIOUS
  <2> QED
    BY <2>1, Lap
<1>3. PICK w \in Nat, z \in 0..n-1 : a + k = (n * w) + z /\ (a + k) % n = z
  <2>1. a + k \in Nat
    OBVIOUS
  <2> QED
    BY <2>1, Lap
<1>4. n * ((q + u) - w) = z - v
  BY <1>1, <1>2, <1>3
<1>5. (q + u) - w = 0
  <2>1. -n < n * ((q + u) - w) /\ n * ((q + u) - w) < n
    BY <1>4
  <2>2. \A j \in Int : j >= 1 => n * j >= n
    OBVIOUS
  <2>3. \A j \in Int : j <= -1 => n * j <= -n
    OBVIOUS
  <2> QED
    BY <2>1, <2>2, <2>3
<1> QED
  BY <1>1, <1>2, <1>3, <1>4, <1>5

\* A place that is not reduced is the reduced one, or n for 0.
LEMMA Unreduced ==
  ASSUME NEW n \in Nat \ {0}, NEW x \in 0..n
  PROVE  \E w \in {0, 1} : x = (n * w) + (x % n)
<1>1. CASE x = n
  BY <1>1
<1>2. CASE x # n
  BY <1>2
<1> QED
  BY <1>1, <1>2

\* How far one place is ahead of another, also when one is not reduced.
LEMMA Between ==
  ASSUME NEW n \in Nat \ {0}, NEW a \in Nat, NEW b \in Nat, a <= b, b - a < n,
         NEW x \in 0..n, NEW y \in 0..n, x % n = a % n, y % n = b % n
  PROVE  (y - x) % n = b - a
<1>1. PICK q \in Nat, r \in 0..n-1 : a = (n * q) + r /\ a % n = r
  BY Lap
<1>2. PICK u \in Nat, v \in 0..n-1 : b = (n * u) + v /\ b % n = v
  BY Lap
<1>3. b - a = (n * (u - q)) + (v - r)
  BY <1>1, <1>2
<1>4. u - q \in {0, 1}
  BY <1>1, <1>2, <1>3
<1>5. PICK w \in {0, 1} : x = (n * w) + r
  BY <1>1, Unreduced
<1>6. PICK z \in {0, 1} : y = (n * z) + v
  BY <1>2, Unreduced
<1> DEFINE k == (z - w) - (u - q)
           c == b - a
<1>7. k \in {-2, -1, 0, 1} /\ c \in 0..n-1
  BY <1>4
<1>8. y - x = (n * k) + c
  <2>1. CASE u - q = 0
    BY <1>3, <1>5, <1>6, <2>1
  <2>2. CASE u - q = 1
    BY <1>3, <1>5, <1>6, <2>2
  <2> QED
    BY <1>4, <2>1, <2>2
<1> HIDE DEF k, c
<1>9. ((n * k) + c) % n = c
  <2>1. CASE k = -2
    BY <1>7, <2>1
  <2>2. CASE k = -1
    BY <1>7, <2>2
  <2>3. CASE k = 0
    BY <1>7, <2>3
  <2>4. CASE k = 1
    BY <1>7, <2>4
  <2> QED
    BY <1>7, <2>1, <2>2, <2>3, <2>4
<1> QED
  BY <1>8, <1>9 DEF c

-----------------------------------------------------------------------------
(***************************************************************************)
(* Every step keeps the invariant.                                         *)
(***************************************************************************)

\* The ranges of the counts, which the lemmas below need as facts of their own.
LEMMA Ranges ==
  ASSUME TypeOK
  PROVE  /\ N \in Nat \ {0} /\ N > 1 /\ MaxVideo \in Nat /\ MppDepth \in Nat
         /\ Len(mpp) \in Nat /\ fed \in Nat /\ count \in Nat
         /\ Given \in Int /\ Decoded \in Int /\ Drawn \in Int
         /\ head \in Nat /\ tail \in Nat /\ head \in 0..N /\ tail \in 0..N
         /\ output # "wrap" => tail \in 0..N-1 /\ tail % N = tail
         /\ encode # "wrap" => head \in 0..N-1 /\ head % N = head
<1>1. N \in Nat \ {0} /\ N > 1 /\ MaxVideo \in Nat /\ MppDepth \in Nat
  BY DepthAssumption, BoundAssumption
<1>2. Len(mpp) \in Nat
  BY DEF TypeOK
<1>3. /\ fed \in Nat /\ count \in Nat /\ head \in Nat /\ tail \in Nat
      /\ head \in 0..N /\ tail \in 0..N
  BY <1>1 DEF TypeOK
<1>4. Given \in Int
  BY <1>3 DEF Given
<1>5. Decoded \in Int
  BY <1>2, <1>4 DEF Decoded
<1>6. Drawn \in Int
  BY <1>5 DEF Drawn
<1>7. /\ output # "wrap" => tail # N
      /\ encode # "wrap" => head # N
  BY DEF TypeOK
<1>8. \A x \in 0..N : x # N => x \in 0..N-1 /\ x % N = x
  BY <1>1
<1> QED
  BY <1>1, <1>2, <1>3, <1>4, <1>5, <1>6, <1>7, <1>8

\* A step that moves no picture keeps what is said of the pictures.
LEMMA Unmoved ==
  ASSUME Numbers, Places, Ring, Holds,
         UNCHANGED <<fed, mpp, output, hand, head, tail, buffer, taken, count, misled>>,
         (input = "put") = (input' = "put"), Encoding = Encoding'
  PROVE  Numbers' /\ Places' /\ Ring' /\ Holds'
<1>1. UNCHANGED <<Given, Decoded, Undrawn, Drawn>>
  BY DEF Given, Decoded, Undrawn, Drawn
<1>2. Numbers' /\ Places' /\ Ring'
  BY <1>1 DEF Numbers, Places, Ring
<1>3. Holds'
  BY <1>1 DEF Holds
<1> QED
  BY <1>2, <1>3

\* A packet for the decoder,
LEMMA ReadVideoKeeps == IInv /\ ReadVideo => IInv'
<1> SUFFICES ASSUME IInv, ReadVideo PROVE IInv'
  OBVIOUS
<1>1. /\ TypeOK /\ Numbers /\ Places /\ Ring /\ Holds
      /\ input = "read" /\ input' = "put" /\ fed' = fed + 1 /\ fed < MaxVideo
      /\ UNCHANGED <<up, client, heard, mpp, output, hand, tail, buffer, misled, encode,
                     head, taken, part, count, video, audio, turn>>
  BY DEF IInv, ReadVideo, Input, processVars, outputVars, encodeVars
<1>2. fed \in Nat /\ MaxVideo \in Nat
  BY <1>1, Ranges
<1>3. TypeOK'
  BY <1>1, <1>2 DEF TypeOK
<1>4. Given' = Given
  BY <1>1, <1>2 DEF Given
<1>5. UNCHANGED <<Decoded, Undrawn, Drawn, Encoding>>
  BY <1>1, <1>4 DEF Decoded, Undrawn, Drawn, Encoding
<1>6. Numbers' /\ Places' /\ Ring'
  BY <1>1, <1>2, <1>5 DEF Numbers, Places, Ring
<1>7. Holds'
  BY <1>1, <1>5 DEF Holds
<1> QED
  BY <1>3, <1>6, <1>7 DEF IInv

\* and the decoder takes it: it is the next picture.
LEMMA PutVideoKeeps == IInv /\ PutVideo => IInv'
<1> SUFFICES ASSUME IInv, PutVideo PROVE IInv'
  OBVIOUS
<1>1. /\ TypeOK /\ Numbers /\ Places /\ Ring /\ Holds
      /\ input = "put" /\ input' = "read" /\ Len(mpp) < MppDepth /\ mpp' = Append(mpp, fed)
      /\ UNCHANGED <<up, client, fed, heard, output, hand, tail, buffer, misled, encode,
                     head, taken, part, count, video, audio, turn>>
  BY DEF IInv, PutVideo, Input, processVars, outputVars, encodeVars
<1>2. fed \in Nat /\ MaxVideo \in Nat /\ MppDepth \in Nat /\ Len(mpp) \in Nat /\ Given \in Int
  BY <1>1, Ranges
<1>3. fed \in 1..MaxVideo /\ mpp \in Seq(1..MaxVideo)
  BY <1>1, <1>2 DEF TypeOK, Numbers
<1>4. /\ mpp' \in Seq(1..MaxVideo) /\ Len(mpp') = Len(mpp) + 1 /\ mpp'[Len(mpp) + 1] = fed
      /\ \A i \in 1..Len(mpp) : mpp'[i] = mpp[i]
  BY <1>1, <1>3, AppendProperties
<1>5. TypeOK'
  BY <1>1, <1>2, <1>4 DEF TypeOK
<1>6. Given' = Given + 1 /\ fed = Given + 1
  BY <1>1, <1>2 DEF Given
<1>7. Decoded' = Decoded
  BY <1>2, <1>4, <1>6 DEF Decoded
<1>8. UNCHANGED <<Undrawn, Drawn, Encoding>>
  BY <1>1, <1>7 DEF Undrawn, Drawn, Encoding
<1>9. Numbers' /\ Ring'
  BY <1>1, <1>8 DEF Numbers, Ring
<1>10. Places'
  <2>1. fed = Decoded + (Len(mpp) + 1)
    BY <1>2, <1>6 DEF Decoded
  <2>2. \A i \in 1..Len(mpp') : mpp'[i] = Decoded + i
    BY <1>1, <1>2, <1>4, <2>1 DEF Places
  <2> QED
    BY <1>1, <1>7, <1>8, <2>2 DEF Places
<1>11. Holds'
  BY <1>1, <1>8 DEF Holds
<1> QED
  BY <1>5, <1>9, <1>10, <1>11 DEF IInv

\* The oldest picture comes out of the decoder.
LEMMA GetPictureKeeps == IInv /\ GetPicture => IInv'
<1> SUFFICES ASSUME IInv, GetPicture PROVE IInv'
  OBVIOUS
<1>1. /\ TypeOK /\ Numbers /\ Places /\ Ring /\ Holds
      /\ mpp # <<>> /\ output = "get" /\ output' = "wait"
      /\ hand' = Head(mpp) /\ mpp' = Tail(mpp)
      /\ UNCHANGED <<up, client, input, fed, heard, tail, buffer, misled, encode,
                     head, taken, part, count, video, audio, turn>>
  BY DEF IInv, GetPicture, Output, processVars, inputVars, encodeVars
<1>2. /\ fed \in Nat /\ MaxVideo \in Nat /\ MppDepth \in Nat /\ Len(mpp) \in Nat /\ Given \in Int
      /\ Decoded \in Int
  BY <1>1, Ranges
<1>3. mpp \in Seq(1..MaxVideo)
  BY <1>1 DEF TypeOK
<1>4. /\ mpp' \in Seq(1..MaxVideo) /\ Len(mpp') = Len(mpp) - 1 /\ Len(mpp) > 0
      /\ \A i \in 1..Len(mpp') : mpp'[i] = mpp[i + 1]
      /\ hand' \in 1..MaxVideo /\ hand' = mpp[1]
  <2>1. Len(mpp) # 0
    BY <1>1, <1>3, EmptySeq
  <2> QED
    BY <1>1, <1>2, <1>3, <2>1, HeadTailProperties
<1>5. TypeOK'
  <2>1. Len(mpp') <= MppDepth /\ hand' \in 0..MaxVideo
    BY <1>1, <1>2, <1>4 DEF TypeOK
  <2> QED
    BY <1>1, <1>4, <2>1 DEF TypeOK
<1>6. Given' = Given
  BY <1>1 DEF Given
<1>7. Decoded' = Decoded + 1
  BY <1>2, <1>4, <1>6 DEF Decoded
<1>8. Drawn' = Drawn /\ Encoding' = Encoding
  BY <1>1, <1>2, <1>7 DEF Undrawn, Drawn, Encoding
<1>9. Numbers' /\ Ring'
  BY <1>1, <1>8 DEF Numbers, Ring
<1>10. Places'
  <2>1. \A i \in 1..Len(mpp') : mpp'[i] = Decoded' + i
    <3> SUFFICES ASSUME NEW i \in 1..Len(mpp') PROVE mpp'[i] = Decoded' + i
      OBVIOUS
    <3>1. i + 1 \in 1..Len(mpp) /\ mpp'[i] = mpp[i + 1]
      BY <1>2, <1>4
    <3>2. mpp[i + 1] = Decoded + (i + 1)
      BY <1>1, <3>1 DEF Places
    <3> QED
      BY <1>2, <1>7, <3>1, <3>2
  <2>2. hand' = Decoded'
    BY <1>1, <1>2, <1>4, <1>7 DEF Places
  <2> QED
    BY <2>1, <2>2 DEF Places
<1>11. Holds'
  BY <1>1, <1>8 DEF Holds
<1> QED
  BY <1>5, <1>9, <1>10, <1>11 DEF IInv

\* The pictures held are those drawn and not encoded.
LEMMA HeldIs ==
  ASSUME TypeOK, Numbers, Ring, Holds, ~misled
  PROVE  Held = Drawn - count
<1>1. /\ N \in Nat \ {0} /\ count \in Nat /\ Drawn \in Nat
      /\ count <= Drawn /\ Drawn - count < N
      /\ head \in 0..N /\ tail \in 0..N /\ head % N = count % N /\ tail % N = Drawn % N
  BY Ranges DEF Numbers, Ring, Holds
<1>2. (tail - head) % N = Drawn - count
  BY <1>1, Between
<1> QED
  BY <1>2 DEF Held

\* thread_output finds a frame to draw into: one that is free, or all are taken.
LEMMA WaitRoomKeeps == IInv /\ WaitRoom => IInv'
<1> SUFFICES ASSUME IInv, WaitRoom PROVE IInv'
  OBVIOUS
<1>1. /\ TypeOK /\ Numbers /\ Places /\ Ring /\ Holds
      /\ output = "wait" /\ output' = "draw" /\ misled' = (misled \/ Held = N - 1)
      /\ UNCHANGED <<up, client, input, fed, heard, mpp, hand, tail, buffer, encode, head,
                     taken, part, count, video, audio, turn>>
  BY DEF IInv, WaitRoom, Output, processVars, inputVars, encodeVars
<1>2. N \in Nat \ {0} /\ Drawn \in Nat /\ count \in Nat /\ tail # N
  <2>1. tail \in 0..N-1 /\ N \in Nat
    BY <1>1, Ranges
  <2> QED
    BY <1>1, <2>1, Ranges DEF Numbers
<1>3. UNCHANGED <<Decoded, Undrawn, Drawn, Encoding>>
  BY <1>1 DEF Given, Decoded, Undrawn, Drawn, Encoding
<1>4. TypeOK'
  <2>1. misled' \in BOOLEAN
    BY <1>1 DEF TypeOK
  <2> QED
    BY <1>1, <1>2, <2>1 DEF TypeOK
<1>5. Numbers' /\ Places' /\ Ring'
  BY <1>1, <1>3 DEF Numbers, Places, Ring
<1>6. Holds'
  <2>1. ASSUME ~misled' PROVE Drawn - count < N - 1
    <3>1. ~misled /\ Held # N - 1
      BY <1>1, <2>1
    <3>2. Held = Drawn - count /\ Drawn - count < N
      BY <1>1, <3>1, HeldIs DEF Holds
    <3> QED
      BY <1>2, <3>1, <3>2
  <2> QED
    BY <1>1, <1>3, <2>1 DEF Holds
<1> QED
  BY <1>4, <1>5, <1>6 DEF IInv

\* The picture is drawn into the frame behind those in use.
LEMMA DrawKeeps == IInv /\ Draw => IInv'
<1> SUFFICES ASSUME IInv, Draw PROVE IInv'
  OBVIOUS
<1>1. /\ TypeOK /\ Numbers /\ Places /\ Ring /\ Holds
      /\ output = "draw" /\ output' = "wrap" /\ hand' = 0
      /\ buffer' = [buffer EXCEPT ![tail] = hand] /\ tail' = tail + 1
      /\ UNCHANGED <<up, client, input, fed, heard, mpp, encode, head, taken, part, count,
                     video, audio, turn, misled>>
  BY DEF IInv, Draw, Output, processVars, inputVars, encodeVars
<1>2. /\ N \in Nat \ {0} /\ MaxVideo \in Nat /\ Decoded \in Int /\ Drawn \in Nat
      /\ count \in Nat /\ tail \in 0..N-1 /\ tail \in Nat /\ tail % N = tail
  BY <1>1, Ranges DEF Numbers
<1>3. Decoded' = Decoded /\ Encoding' = Encoding /\ Undrawn /\ ~Undrawn'
  BY <1>1 DEF Given, Decoded, Encoding, Undrawn
<1>4. Drawn' = Drawn + 1 /\ Decoded = Drawn + 1
  BY <1>2, <1>3 DEF Drawn
<1>5. TypeOK'
  <2>1. tail' \in 0..N
    BY <1>1, <1>2
  <2>2. buffer' \in [0..N-1 -> 0..MaxVideo] /\ hand' \in 0..MaxVideo
    BY <1>1, <1>2 DEF TypeOK
  <2> QED
    BY <1>1, <2>1, <2>2 DEF TypeOK
<1>6. Numbers'
  BY <1>1, <1>2, <1>4 DEF Numbers
<1>7. Places'
  BY <1>1, <1>3 DEF Places
<1>8. Ring'
  <2>1. ((Drawn % N) + 1) % N = (Drawn + 1) % N
    BY <1>2, Further
  <2>2. tail = Drawn % N
    BY <1>1, <1>2 DEF Ring
  <2> QED
    BY <1>1, <1>4, <2>1, <2>2 DEF Ring
<1>9. Holds'
  <2> SUFFICES ASSUME ~misled
               PROVE  /\ count <= Drawn' /\ Drawn' - count < N
                      /\ \A k \in Nat : count <= k /\ k < Drawn' => buffer'[k % N] = k + 1
                      /\ Encoding => count < Drawn' /\ taken = count + 1
                      /\ head % N = count % N
    BY <1>1, <1>3 DEF Holds
  <2>1. /\ count <= Drawn /\ Drawn - count < N - 1 /\ head % N = count % N
        /\ \A k \in Nat : count <= k /\ k < Drawn => buffer[k % N] = k + 1
        /\ Encoding => count < Drawn /\ taken = count + 1
    BY <1>1 DEF Holds
  <2>2. count <= Drawn' /\ Drawn' - count < N /\ (Encoding => count < Drawn')
    BY <1>2, <1>4, <2>1
  <2>3. ASSUME NEW k \in Nat, count <= k, k < Drawn'
        PROVE  buffer'[k % N] = k + 1
    <3>1. tail \in 0..N-1 /\ tail = Drawn % N /\ DOMAIN buffer = 0..N-1
      BY <1>1, <1>2 DEF TypeOK, Ring
    <3>2. CASE k = Drawn
      <4>1. hand = Drawn + 1
        BY <1>1, <1>3, <1>4 DEF Places
      <4> QED
        BY <1>1, <3>1, <3>2, <4>1
    <3>3. CASE k # Drawn
      <4>1. k < Drawn /\ Drawn - k < N
        BY <1>2, <1>4, <2>1, <2>3, <3>3
      <4>2. k % N # Drawn % N
        <5> SUFFICES ASSUME k % N = Drawn % N PROVE FALSE
          OBVIOUS
        <5>1. k <= Drawn
          BY <1>2, <4>1
        <5>2. k = Drawn
          BY <1>2, <4>1, <5>1, OneLap
        <5> QED
          BY <3>3, <5>2
      <4>3. buffer[k % N] = k + 1
        BY <2>1, <2>3, <4>1
      <4>4. k % N \in 0..N-1
        <5>1. \E q \in Nat, r \in 0..N-1 : k = (N * q) + r /\ k % N = r
          BY <1>2, Lap
        <5> QED
          BY <5>1
      <4> QED
        BY <1>1, <3>1, <4>2, <4>3, <4>4
    <3> QED
      BY <3>2, <3>3
  <2> QED
    BY <2>1, <2>2, <2>3
<1> QED
  BY <1>5, <1>6, <1>7, <1>8, <1>9 DEF IInv

\* An index that is reduced is in the same place.
LEMMA Reduced ==
  ASSUME NEW n \in Nat \ {0}, NEW x \in 0..n
  PROVE  x % n \in 0..n-1 /\ x % n \in 0..n /\ x % n # n /\ (x % n) % n = x % n
<1>1. CASE x = n
  BY <1>1
<1>2. CASE x # n
  BY <1>2
<1> QED
  BY <1>1, <1>2

LEMMA TailWrapKeeps == IInv /\ TailWrap => IInv'
<1> SUFFICES ASSUME IInv, TailWrap PROVE IInv'
  OBVIOUS
<1>1. /\ TypeOK /\ Numbers /\ Places /\ Ring /\ Holds
      /\ output = "wrap" /\ output' = "get" /\ tail' = tail % N
      /\ UNCHANGED <<up, client, input, fed, heard, mpp, hand, buffer, encode, head, taken,
                     part, count, video, audio, turn, misled>>
  BY DEF IInv, TailWrap, Output, processVars, inputVars, encodeVars
<1>2. UNCHANGED <<Decoded, Undrawn, Drawn, Encoding>>
  BY <1>1 DEF Given, Decoded, Undrawn, Drawn, Encoding
<1>3. tail' \in 0..N /\ tail' # N /\ tail' % N = tail % N
  BY <1>1, Ranges, Reduced
<1>4. TypeOK'
  BY <1>1, <1>3 DEF TypeOK
<1>5. Numbers' /\ Places' /\ Ring'
  BY <1>1, <1>2, <1>3 DEF Numbers, Places, Ring
<1>6. Holds'
  BY <1>1, <1>2 DEF Holds
<1> QED
  BY <1>4, <1>5, <1>6 DEF IInv

\* The oldest frame is encoded, unless there is none,
LEMMA EncodePictureKeeps == IInv /\ EncodePicture => IInv'
<1> SUFFICES ASSUME IInv, EncodePicture PROVE IInv'
  OBVIOUS
<1>1. /\ TypeOK /\ Numbers /\ Places /\ Ring /\ Holds
      /\ encode = "wait" /\ encode' = "put" /\ misled' = (misled \/ Held = 0)
      /\ taken' = buffer[head] /\ part' = 0
      /\ UNCHANGED <<up, client, input, fed, heard, mpp, output, hand, tail, buffer,
                     head, count, video, audio, turn>>
  BY DEF IInv, EncodePicture, Encode, processVars, inputVars
<1>2. /\ N \in Nat \ {0} /\ count \in Nat /\ Drawn \in Nat /\ Parts \in Nat
      /\ head \in 0..N-1 /\ head % N = head
  BY <1>1, Ranges, DepthAssumption DEF Numbers
<1>3. UNCHANGED <<Decoded, Undrawn, Drawn>>
  BY <1>1 DEF Given, Decoded, Undrawn, Drawn
<1>4. TypeOK'
  <2>1. taken' \in 0..MaxVideo /\ part' \in 0..Parts /\ misled' \in BOOLEAN /\ head # N
    BY <1>1, <1>2 DEF TypeOK
  <2> QED
    BY <1>1, <2>1 DEF TypeOK
<1>5. Numbers' /\ Places' /\ Ring'
  BY <1>1, <1>3 DEF Numbers, Places, Ring
<1>6. Holds'
  <2>1. ASSUME ~misled' PROVE count < Drawn /\ taken' = count + 1
    <3>1. ~misled /\ Held # 0
      BY <1>1, <2>1
    <3>2. /\ Held = Drawn - count /\ count <= Drawn /\ head % N = count % N
          /\ \A k \in Nat : count <= k /\ k < Drawn => buffer[k % N] = k + 1
      BY <1>1, <3>1, HeldIs DEF Holds
    <3>3. count < Drawn
      BY <1>2, <3>1, <3>2
    <3> QED
      BY <1>1, <1>2, <3>2, <3>3
  <2> QED
    BY <1>1, <1>3, <2>1 DEF Holds
<1> QED
  BY <1>4, <1>5, <1>6 DEF IInv

\* and freed when all of its packets are put.
LEMMA FreeFrameKeeps == IInv /\ FreeFrame => IInv'
<1> SUFFICES ASSUME IInv, FreeFrame PROVE IInv'
  OBVIOUS
<1>1. /\ TypeOK /\ Numbers /\ Places /\ Ring /\ Holds
      /\ encode = "put" /\ encode' = "wrap" /\ head' = head + 1 /\ count' = taken
      /\ UNCHANGED <<up, client, input, fed, heard, mpp, output, hand, tail, buffer, misled,
                     taken, part, video, audio, turn>>
  BY DEF IInv, FreeFrame, Encode, processVars, inputVars
<1>2. /\ N \in Nat \ {0} /\ count \in Nat /\ Drawn \in Nat
      /\ head \in 0..N-1 /\ head % N = head /\ head \in Nat
  BY <1>1, Ranges DEF Numbers
<1>3. UNCHANGED <<Decoded, Undrawn, Drawn>> /\ Encoding /\ ~Encoding'
  BY <1>1 DEF Given, Decoded, Undrawn, Drawn, Encoding
<1>4. TypeOK'
  <2>1. head' \in 0..N /\ count' \in 0..MaxVideo
    BY <1>1, <1>2 DEF TypeOK
  <2> QED
    BY <1>1, <2>1 DEF TypeOK
<1>5. Numbers' /\ Places' /\ Ring'
  BY <1>1, <1>3 DEF Numbers, Places, Ring
<1>6. Holds'
  <2> SUFFICES ASSUME ~misled
               PROVE  /\ count' <= Drawn /\ Drawn - count' < N
                      /\ output = "draw" => Drawn - count' < N - 1
                      /\ head' % N = count' % N
                      /\ \A k \in Nat : count' <= k /\ k < Drawn => buffer[k % N] = k + 1
    BY <1>1, <1>3 DEF Holds
  <2>1. /\ Drawn - count < N /\ (output = "draw" => Drawn - count < N - 1)
        /\ head % N = count % N
        /\ \A k \in Nat : count <= k /\ k < Drawn => buffer[k % N] = k + 1
        /\ count < Drawn /\ count' = count + 1
    BY <1>1, <1>3 DEF Holds
  <2>2. /\ count' <= Drawn /\ Drawn - count' < N
        /\ output = "draw" => Drawn - count' < N - 1
    BY <1>2, <2>1
  <2>3. head' % N = count' % N
    <3>1. ((count % N) + 1) % N = (count + 1) % N
      BY <1>2, Further
    <3> QED
      BY <1>1, <1>2, <2>1, <3>1
  <2>4. \A k \in Nat : count' <= k => count <= k
    BY <1>2, <2>1
  <2> QED
    BY <2>1, <2>2, <2>3, <2>4
<1> QED
  BY <1>4, <1>5, <1>6 DEF IInv

LEMMA HeadWrapKeeps == IInv /\ HeadWrap => IInv'
<1> SUFFICES ASSUME IInv, HeadWrap PROVE IInv'
  OBVIOUS
<1>1. /\ TypeOK /\ Numbers /\ Places /\ Ring /\ Holds
      /\ encode = "wrap" /\ encode' = "wait" /\ head' = head % N
      /\ UNCHANGED <<up, client, input, fed, heard, mpp, output, hand, tail, buffer, misled,
                     taken, part, count, video, audio, turn>>
  BY DEF IInv, HeadWrap, Encode, processVars, inputVars
<1>2. UNCHANGED <<Decoded, Undrawn, Drawn, Encoding>>
  BY <1>1 DEF Given, Decoded, Undrawn, Drawn, Encoding
<1>3. head' \in 0..N /\ head' # N /\ head' % N = head % N
  BY <1>1, Ranges, Reduced
<1>4. TypeOK'
  BY <1>1, <1>3 DEF TypeOK
<1>5. Numbers' /\ Places' /\ Ring'
  BY <1>1, <1>2 DEF Numbers, Places, Ring
<1>6. Holds'
  BY <1>1, <1>2, <1>3 DEF Holds
<1> QED
  BY <1>4, <1>5, <1>6 DEF IInv

\* All other steps move packets, or nothing.
LEMMA OthersKeep ==
  ASSUME IInv,
         ReadAudio \/ ReadAudioFull \/ PutPart \/ PutPartFull \/ rtp_sender
           \/ ClientStalls \/ ClientResumes \/ ClientLeaves \/ UNCHANGED vars
  PROVE  IInv'
<1>1. TypeOK /\ Numbers /\ Places /\ Ring /\ Holds
  BY DEF IInv
<1>2. /\ VideoSlots \in Nat /\ AudioSlots \in Nat /\ Parts \in Nat /\ MaxAudio \in Nat
  BY DepthAssumption, BoundAssumption
<1>3. UNCHANGED <<fed, mpp, output, hand, head, tail, buffer, taken, count, misled>>
  BY DEF ReadAudio, ReadAudioFull, PutPart, PutPartFull, rtp_sender, SkipEmpty, SendOldest,
         SendFails, Sends, ClientStalls, ClientResumes, ClientLeaves, Client, Input, Encode,
         inputVars, outputVars, encodeVars, vars
<1>4. /\ (input = "put") = (input' = "put") /\ Encoding = Encoding'
      /\ input' \in {input, "read", "stuck"}
      /\ encode' = encode \/ (encode = "put" /\ encode' \in {"put", "stuck"})
  BY DEF ReadAudio, ReadAudioFull, PutPart, PutPartFull, rtp_sender, SkipEmpty, SendOldest,
         SendFails, Sends, ClientStalls, ClientResumes, ClientLeaves, Client, Input, Encode,
         inputVars, encodeVars, vars, Encoding
<1>5. up' \in BOOLEAN /\ client' \in {"reading", "stalled", "gone"} /\ turn' \in {"video", "audio"}
  BY <1>1 DEF TypeOK, ReadAudio, ReadAudioFull, PutPart, PutPartFull, rtp_sender, SkipEmpty,
         SendOldest, SendFails, Sends, ClientStalls, ClientResumes, ClientLeaves, Client, Input,
         Encode, processVars, vars
<1>6. /\ heard' \in 0..MaxAudio /\ part' \in 0..Parts
      /\ video' \in 0..VideoSlots /\ audio' \in 0..AudioSlots
  <2>0. /\ heard \in 0..MaxAudio /\ part \in 0..Parts
        /\ video \in 0..VideoSlots /\ audio \in 0..AudioSlots
    BY <1>1 DEF TypeOK
  <2>1. CASE ReadAudio \/ ReadAudioFull
    <3>1. part' = part /\ video' = video /\ heard < MaxAudio /\ heard' = heard + 1
      BY <2>1 DEF ReadAudio, ReadAudioFull, Input, encodeVars
    <3>2. audio' = audio \/ (audio < AudioSlots /\ audio' = audio + 1)
      BY <2>1 DEF ReadAudio, ReadAudioFull
    <3> QED
      BY <1>2, <2>0, <3>1, <3>2
  <2>2. CASE PutPart \/ PutPartFull
    <3>1. heard' = heard /\ audio' = audio
      BY <2>2 DEF PutPart, PutPartFull, Encode, inputVars
    <3>2. \/ part' = part /\ video' = video
          \/ part < Parts /\ part' = part + 1 /\ video < VideoSlots /\ video' = video + 1
      BY <2>2 DEF PutPart, PutPartFull
    <3> QED
      BY <1>2, <2>0, <3>1, <3>2
  <2>3. CASE rtp_sender
    <3>1. heard' = heard /\ part' = part
      BY <2>3 DEF rtp_sender, SkipEmpty, SendOldest, SendFails, Sends, inputVars, encodeVars
    <3>2. CASE SendOldest
      <4>1. \/ video > 0 /\ video' = video - 1 /\ audio' = audio
            \/ audio > 0 /\ video' = video /\ audio' = audio - 1
        BY <1>1, <3>2 DEF TypeOK, SendOldest, Waiting
      <4> QED
        BY <1>2, <2>0, <3>1, <4>1
    <3>3. CASE SkipEmpty \/ SendFails
      <4>1. video' = video /\ audio' = audio
        BY <3>3 DEF SkipEmpty, SendFails
      <4> QED
        BY <2>0, <3>1, <4>1
    <3> QED
      BY <2>3, <3>2, <3>3 DEF rtp_sender
  <2>4. CASE ClientStalls \/ ClientResumes \/ ClientLeaves \/ UNCHANGED vars
    BY <2>0, <2>4 DEF ClientStalls, ClientResumes, ClientLeaves, Client, vars, inputVars,
                      encodeVars
  <2> QED
    BY <2>1, <2>2, <2>3, <2>4
<1>7. TypeOK'
  <2>1. /\ input' \in {"read", "put", "stuck"} /\ encode' \in {"wait", "put", "wrap", "stuck"}
        /\ head' = N => encode' = "wrap"
    BY <1>1, <1>3, <1>4 DEF TypeOK
  <2> QED
    BY <1>1, <1>3, <1>5, <1>6, <2>1 DEF TypeOK
<1>8. Numbers' /\ Places' /\ Ring' /\ Holds'
  BY <1>1, <1>3, <1>4, Unmoved
<1> QED
  BY <1>7, <1>8 DEF IInv

\* The invariant of the program as a whole.
THEOREM Inductive == Spec => []IInv
<1>1. Init => IInv
  <2> SUFFICES ASSUME Init PROVE IInv
    OBVIOUS
  <2>1. /\ up = TRUE /\ client = "reading" /\ input = "read" /\ fed = 0 /\ heard = 0
        /\ mpp = <<>> /\ output = "get" /\ hand = 0 /\ tail = 0
        /\ buffer = [i \in 0..N-1 |-> 0] /\ encode = "wait" /\ head = 0 /\ taken = 0
        /\ part = 0 /\ count = 0 /\ video = 0 /\ audio = 0 /\ turn = "video" /\ misled = FALSE
    BY DEF Init
  <2>2. /\ N \in Nat \ {0} /\ MppDepth \in Nat /\ VideoSlots \in Nat /\ AudioSlots \in Nat
        /\ Parts \in Nat /\ MaxVideo \in Nat /\ MaxAudio \in Nat
    BY DepthAssumption, BoundAssumption
  <2>3. mpp \in Seq(1..MaxVideo) /\ Len(mpp) = 0
    BY <2>1, EmptySeq
  <2>4. TypeOK
    <3>1. /\ 0 \in 0..N-1 /\ 0 \in 0..MaxVideo /\ 0 \in 0..MaxAudio /\ 0 \in 0..Parts
          /\ 0 \in 0..VideoSlots /\ 0 \in 0..AudioSlots /\ 0 <= MppDepth
            /\ 0 \in 0..N /\ 0 # N
      BY <2>2
    <3>2. buffer \in [0..N-1 -> 0..MaxVideo]
      BY <2>1, <3>1
    <3> QED
      BY <2>1, <2>3, <3>1, <3>2 DEF TypeOK
  <2>5. Given = 0 /\ Decoded = 0 /\ Drawn = 0
    <3>1. Given = 0
      BY <2>1 DEF Given
    <3>2. Decoded = 0
      BY <2>3, <3>1 DEF Decoded
    <3>3. Drawn = 0
      BY <2>1, <3>2 DEF Undrawn, Drawn
    <3> QED
      BY <3>1, <3>2, <3>3
  <2>6. 0 % N = 0
    BY <2>2
  <2>7. Numbers /\ Places /\ Ring /\ Holds
    BY <2>1, <2>2, <2>3, <2>5, <2>6 DEF Numbers, Places, Ring, Holds, Undrawn, Encoding
  <2> QED
    BY <2>4, <2>7 DEF IInv
<1>2. IInv /\ [Next]_vars => IInv'
  BY ReadVideoKeeps, PutVideoKeeps, GetPictureKeeps, WaitRoomKeeps, DrawKeeps,
     TailWrapKeeps, EncodePictureKeeps, FreeFrameKeeps, HeadWrapKeeps, OthersKeep
     DEF Next, thread_input, thread_output, thread_encoder, Exited
<1> QED
  BY <1>1, <1>2, PTL DEF Spec

\* Every variable has its type: no stage ever holds more than it has room for, no
\* index is outside the frames when its thread uses it, and it is BUFFER_SIZE only
\* between its own two stores (main.c:91-153, 175-224, 226-270; gn_tcp.c:155-240).
THEOREM TypeCorrect == Spec => []TypeOK
<1>1. IInv => TypeOK
  BY DEF IInv
<1> QED
  BY <1>1, Inductive, PTL
-----------------------------------------------------------------------------
(***************************************************************************)
(* All stages in a row are one queue.                                      *)
(***************************************************************************)

\* The k numbers after n, as a queue.
After(n, k) == [i \in 1..k |-> n + i]

\* Put appends the next number, Take leaves the numbers after the first, and two
\* stages with consecutive numbers are one queue.
LEMMA AfterIsQueue ==
  ASSUME NEW n \in Nat, NEW k \in Nat
  PROVE  /\ After(n, k) \in Seq(Nat) /\ Len(After(n, k)) = k
         /\ Append(After(n, k), n + k + 1) = After(n, k + 1)
         /\ k > 0 => /\ After(n, k) # <<>> /\ Head(After(n, k)) = n + 1
                     /\ Tail(After(n, k)) = After(n + 1, k - 1)
<1>1. After(n, k) \in Seq(Nat) /\ Len(After(n, k)) = k
  BY DEF After
<1>2. Append(After(n, k), n + k + 1) = After(n, k + 1)
  BY DEF After
<1>3. ASSUME k > 0
      PROVE  /\ After(n, k) # <<>> /\ Head(After(n, k)) = n + 1
             /\ Tail(After(n, k)) = After(n + 1, k - 1)
  BY <1>1, <1>3 DEF After
<1> QED
  BY <1>1, <1>2, <1>3

LEMMA AfterJoins ==
  ASSUME NEW n \in Nat, NEW k \in Nat, NEW j \in Nat
  PROVE  After(n, k) \o After(n + k, j) = After(n, k + j)
<1>1. /\ After(n, k) \in Seq(Nat) /\ Len(After(n, k)) = k
      /\ After(n + k, j) \in Seq(Nat) /\ Len(After(n + k, j)) = j
  BY DEF After
<1> QED
  BY <1>1 DEF After

\* Until a check is misled, the pictures on the way are those after the
\* count-th, up to the last given to the decoder.
Queued == ~misled => Given - count \in Nat /\ Pictures = After(count, Given - count)

LEMMA PicturesAreDue == IInv => Queued
<1> SUFFICES ASSUME TypeOK, Numbers, Places, Ring, Holds, ~misled
             PROVE  Given - count \in Nat /\ Pictures = After(count, Given - count)
  BY DEF IInv, Queued
<1> DEFINE InHand == IF Undrawn THEN <<hand>> ELSE <<>>
           h == IF Undrawn THEN 1 ELSE 0
           frames == [i \in 1..Held |-> buffer[(head + i - 1) % N]]
<1>1. /\ N \in Nat \ {0} /\ count \in Nat /\ Drawn \in Nat /\ count <= Drawn
      /\ Len(mpp) \in Nat /\ Given \in Int /\ Decoded \in Int /\ Drawn - count < N
      /\ Decoded = Drawn + h /\ Given = Decoded + Len(mpp)
  BY Ranges DEF Numbers, Holds, Drawn, Decoded, Undrawn
<1>2. Drawn - count \in Nat /\ h \in Nat /\ Decoded \in Nat
  BY <1>1
<1>3. frames = After(count, Drawn - count)
  <2>1. Held = Drawn - count
    BY HeldIs
  <2>2. ASSUME NEW i \in 1..(Drawn - count)
        PROVE  buffer[(head + i - 1) % N] = count + i
    <3>1. i - 1 \in Nat /\ count + (i - 1) \in Nat /\ count + (i - 1) < Drawn
      BY <1>1, <2>2
    <3>2. ((count % N) + (i - 1)) % N = (count + (i - 1)) % N
      BY <1>1, <3>1, Further
    <3>3. head \in Nat /\ head % N = count % N
      BY Ranges DEF Holds
    <3>4. ((head % N) + (i - 1)) % N = (head + (i - 1)) % N
      BY <1>1, <3>1, <3>3, Further
    <3>5. head + i - 1 = head + (i - 1)
      BY <3>1, <3>3
    <3>6. (head + i - 1) % N = (count + (i - 1)) % N
      BY <3>2, <3>3, <3>4, <3>5
    <3>7. buffer[(count + (i - 1)) % N] = (count + (i - 1)) + 1
      <4>1. \A k \in Nat : count <= k /\ k < Drawn => buffer[k % N] = k + 1
        BY DEF Holds
      <4>2. count <= count + (i - 1)
        BY <1>1, <3>1
      <4> QED
        BY <3>1, <4>1, <4>2
    <3>8. (count + (i - 1)) + 1 = count + i
      BY <1>1, <3>1
    <3> QED
      BY <3>6, <3>7, <3>8
  <2> QED
    BY <2>1, <2>2 DEF After
<1>4. InHand = After(Drawn, h)
  <2>1. Undrawn => hand = Drawn + 1
    BY <1>1 DEF Places
  <2> QED
    BY <2>1 DEF After
<1>5. mpp = After(Decoded, Len(mpp))
  BY DEF Places, After, TypeOK
<1>6. Pictures = frames \o InHand \o mpp
  BY DEF Pictures, Undrawn
<1> HIDE DEF frames, InHand, h
<1>7. frames \o InHand = After(count, (Drawn - count) + h)
  <2>1. After(count, Drawn - count) \o After(count + (Drawn - count), h)
          = After(count, (Drawn - count) + h)
    BY <1>1, <1>2, AfterJoins
  <2>2. count + (Drawn - count) = Drawn
    BY <1>1
  <2> QED
    BY <1>3, <1>4, <2>1, <2>2
<1>8. After(count, (Drawn - count) + h) \o mpp = After(count, Given - count)
  <2> DEFINE k == (Drawn - count) + h
  <2>1. k \in Nat /\ count + k = Decoded /\ k + Len(mpp) = Given - count
    BY <1>1, <1>2
  <2> HIDE DEF k
  <2>2. After(count, k) \o After(count + k, Len(mpp)) = After(count, k + Len(mpp))
    BY <1>1, <2>1, AfterJoins
  <2>3. After(count, k) \o mpp = After(count, Given - count)
    BY <1>5, <2>1, <2>2
  <2> QED
    BY <2>3 DEF k
<1>9. Given - count \in Nat
  BY <1>1, <1>2
<1> QED
  BY <1>6, <1>7, <1>8, <1>9

\* From the decoder's input to the encoder's output the program is one queue,
\* until a check is misled: PutVideo is the Put of BoundedQueue and FreeFrame
\* its Take (main.c:91-153, 175-270).
THEOREM Refines == Spec => PicturesAreQueue
<1>1. Init => PictureQueue!Init
  <2> SUFFICES ASSUME Init PROVE PictureQueue!Init
    OBVIOUS
  <2>1. mpp = <<>> /\ output = "get" /\ count = 0 /\ misled = FALSE /\ head = 0 /\ tail = 0
    BY DEF Init
  <2>2. Held = 0
    BY <2>1, DepthAssumption DEF Held
  <2>3. Pictures = <<>>
    BY <2>1, <2>2 DEF Pictures
  <2> QED
    BY <2>1, <2>3 DEF PictureQueue!Init
<1>2. IInv /\ IInv' /\ Queued /\ Queued' /\ [Next]_vars
        => [PictureQueue!Next]_(PictureQueue!vars)
  <2> SUFFICES ASSUME IInv, IInv', Queued, Queued', [Next]_vars
               PROVE  [PictureQueue!Next]_(PictureQueue!vars)
    OBVIOUS
  <2>1. CASE misled'
    BY <2>1 DEF PictureQueue!Next, PictureQueue!Break
  <2>2. CASE ~misled'
    <3>1. misled = FALSE /\ misled' = FALSE
      <4>1. misled => misled'
        BY DEF Next, thread_input, thread_output, thread_encoder, rtp_sender, ReadVideo, PutVideo,
               ReadAudio, ReadAudioFull, GetPicture, WaitRoom, Draw, TailWrap, EncodePicture,
               PutPart, PutPartFull, FreeFrame, HeadWrap, SkipEmpty, SendOldest, SendFails, Sends, ClientStalls, ClientResumes,
               ClientLeaves, Client, Input, Output, Encode, Exited, outputVars, vars
      <4> QED
        BY <2>2, <4>1 DEF IInv, TypeOK
    <3>2. /\ Given - count \in Nat /\ Pictures = After(count, Given - count)
          /\ (Given - count \in Nat /\ Pictures = After(count, Given - count))'
      BY <2>2, <3>1 DEF Queued
    <3>3. /\ count \in Nat /\ Len(mpp) \in Nat /\ Given \in Int /\ Decoded \in Int /\ Drawn \in Nat
          /\ N \in Nat \ {0} /\ MppDepth \in Nat /\ fed \in Nat
      BY Ranges DEF IInv, Numbers
    <3> DEFINE k == Given - count
    <3>4. k \in Nat /\ k' \in Nat /\ Pictures = After(count, k) /\ Pictures' = After(count', k')
      BY <3>2 DEF After
    <3>5. CASE PutVideo
      <4>1. count' = count /\ Given' = Given + 1 /\ Len(mpp) < MppDepth
        BY <3>3, <3>5 DEF PutVideo, Input, encodeVars, Given
      <4>2. k' = k + 1
        BY <3>3, <4>1
      <4>3. k < N - 1 + 1 + MppDepth
        BY <3>1, <3>3, <4>1 DEF IInv, Holds, Drawn, Decoded
      <4> HIDE DEF k
      <4>4. Len(Pictures) = k /\ Pictures' = Append(Pictures, count + Len(Pictures) + 1)
        <5>1. Len(After(count, k)) = k /\ Append(After(count, k), count + k + 1) = After(count, k + 1)
          BY <3>3, <3>4, AfterIsQueue
        <5> QED
          BY <3>4, <4>1, <4>2, <5>1
      <4> QED
        BY <3>1, <4>1, <4>3, <4>4 DEF PictureQueue!Next, PictureQueue!Put
    <3>6. CASE FreeFrame
      <4>1. count' = count + 1 /\ Given' = Given /\ encode = "put"
        BY <3>1, <3>6 DEF FreeFrame, Encode, inputVars, Given, IInv, Holds, Encoding
      <4>2. k' = k - 1
        BY <3>3, <4>1
      <4>3. k > 0
        BY <3>1, <3>3, <4>1 DEF IInv, Holds, Encoding, Drawn, Decoded
      <4> HIDE DEF k
      <4>4. Pictures # <<>> /\ count' = Head(Pictures) /\ Pictures' = Tail(Pictures)
        BY <3>3, <3>4, <4>1, <4>2, <4>3, AfterIsQueue
      <4> QED
        BY <3>1, <4>4 DEF PictureQueue!Next, PictureQueue!Take
    <3>7. CASE ~PutVideo /\ ~FreeFrame
      <4>1. count' = count
        BY <3>7 DEF Next, thread_input, thread_output, thread_encoder, rtp_sender, ReadVideo,
               ReadAudio, ReadAudioFull, GetPicture, WaitRoom, Draw, TailWrap, EncodePicture,
               PutPart, PutPartFull, HeadWrap, SkipEmpty, SendOldest, SendFails, Sends, ClientStalls, ClientResumes,
               ClientLeaves, Client, Input, Output, Encode, Exited, encodeVars, vars
      <4>2. Given' = Given
        <5>1. CASE ReadVideo
          BY <3>3, <5>1 DEF ReadVideo, Input, Given
        <5>2. CASE ~ReadVideo
          BY <3>7, <5>2 DEF Given, Next, thread_input, thread_output, thread_encoder, rtp_sender,
               ReadAudio, ReadAudioFull, GetPicture, WaitRoom, Draw, TailWrap, EncodePicture,
               PutPart, PutPartFull, HeadWrap, SkipEmpty, SendOldest, SendFails, Sends, ClientStalls, ClientResumes,
               ClientLeaves, Client, Input, Output, Encode, Exited, inputVars, vars
        <5> QED
          BY <5>1, <5>2
      <4>3. Pictures' = Pictures
        BY <3>4, <4>1, <4>2
      <4> QED
        BY <3>1, <4>1, <4>3 DEF PictureQueue!vars
    <3> QED
      BY <3>5, <3>6, <3>7
  <2> QED
    BY <2>1, <2>2
<1>3. Spec => PictureQueue!Spec
  BY <1>1, <1>2, PicturesAreDue, Inductive, PTL DEF Spec, PictureQueue!Spec
<1>4. IInv => TakesOldest
  BY DEF IInv, Holds, TakesOldest, Encoding
<1> QED
  BY <1>3, <1>4, Inductive, PTL DEF PicturesAreQueue
-----------------------------------------------------------------------------
\* The safe half of InputStops: the encoder has given up on a full video ring,
\* thread_output waits for it, and thread_input for thread_output.
Standstill ==
  /\ encode = "stuck" /\ output = "wait" /\ LooksFull
  /\ input = "put" /\ Len(mpp) = MppDepth

\* Once the three threads wait in a row for the encoder, they do so for ever, with
\* the same pictures, whatever the client and rtp_sender do (gn_tcp.c:159-163,
\* main.c:102-105, 190-203).
THEOREM StandsForEver == Spec => [](Standstill => []Standstill)
<1>1. Standstill /\ [Next]_vars => Standstill'
  <2> SUFFICES ASSUME Standstill, [Next]_vars PROVE Standstill'
    OBVIOUS
  <2>1. ~thread_input /\ ~thread_output /\ ~thread_encoder
    BY DEF Standstill, thread_input, ReadVideo, PutVideo, ReadAudio, ReadAudioFull, Input,
           thread_output, GetPicture, WaitRoom, Draw, TailWrap, Output, thread_encoder, EncodePicture, PutPart,
           PutPartFull, FreeFrame, HeadWrap, Encode
  <2>2. UNCHANGED <<encode, output, tail, head, input, mpp>>
    BY <2>1 DEF Next, rtp_sender, SkipEmpty, SendOldest, SendFails, Sends, ClientStalls,
                ClientResumes, ClientLeaves, Client, Exited, inputVars, outputVars, encodeVars, vars
  <2> QED
    BY <2>2 DEF Standstill, LooksFull
<1>2. Spec => [][Next]_vars
  BY PTL DEF Spec
<1> QED
  BY <1>1, <1>2, PTL

\* The safe half of DecodesOn: an encoder that has given up on frame 0 never makes
\* thread_output wait, for tail + 1 is not reduced and never 0 (main.c:102-105).
THEOREM NeverLooksFull == Spec => [](encode = "stuck" /\ head = 0 => []~LooksFull)
<1> DEFINE OnFrame0 == encode = "stuck" /\ head = 0
<1>1. OnFrame0 /\ [Next]_vars => OnFrame0'
  <2> SUFFICES ASSUME OnFrame0, [Next]_vars PROVE OnFrame0'
    OBVIOUS
  <2>1. ~thread_encoder
    BY DEF thread_encoder, EncodePicture, PutPart, PutPartFull, FreeFrame, HeadWrap, Encode
  <2>2. UNCHANGED <<encode, head>>
    BY <2>1 DEF Next, thread_input, ReadVideo, PutVideo, ReadAudio, ReadAudioFull, Input,
                thread_output, GetPicture, WaitRoom, Draw, TailWrap, Output, rtp_sender, SkipEmpty, SendOldest,
                SendFails, Sends, ClientStalls, ClientResumes, ClientLeaves, Client, Exited,
                encodeVars, vars
  <2> QED
    BY <2>2
<1>2. TypeOK /\ OnFrame0 => ~LooksFull
  <2> SUFFICES ASSUME TypeOK, OnFrame0 PROVE ~LooksFull
    OBVIOUS
  <2>1. tail \in Nat /\ head = 0
    BY Ranges
  <2> QED
    BY <2>1 DEF LooksFull
<1>3. Spec => [][Next]_vars
  BY PTL DEF Spec
<1> QED
  BY <1>1, <1>2, <1>3, TypeCorrect, PTL
=============================================================================
