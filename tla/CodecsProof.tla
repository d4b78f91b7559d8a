----------------------------- MODULE CodecsProof ----------------------------
(***************************************************************************)
(* Theorems about Codecs, for a ring and a group of any size, any amount   *)
(* of memory and changes of the size at any pictures.  An info change goes *)
(* through the decoder, the queue and decoder_run as a token (Change): at  *)
(* most one is under way, and where it is says what is set up.  The frames *)
(* are counted (Counts), which gives the rest.                             *)
(***************************************************************************)
EXTENDS Codecs, SequenceTheorems, FunctionTheorems, FiniteSetTheorems, TLAPS

\* The steps of an info change before the decoder goes on, and all of them.
Waiting == {"group", "attach", "clear", "limit", "ready"}

\* The decoder stops with each info change until decoder_run is through with
\* it: until then it is the last thing in the queue, or decoder_run has it.
Change ==
  /\ \A i \in 1..Len(queue) : queue[i] = "info" => i = Len(queue) /\ waits
  /\ output \in Waiting => waits /\ queue = <<>>
  /\ failed => waits /\ queue = <<>> /\ output = "get"

\* frame_change is half way, and how often it went through.
Mid == output = "buffer" \/ (output = "change" /\ fresh > 0)
Whole == IF Mid THEN changes - 1 ELSE changes

\* What there is: the group, before the decoder goes on for the first time, and
\* attached unless decoder_run has failed in between; and frames, before the
\* next picture is drawn.
SetUp ==
  /\ attached => frm_grp
  /\ frm_grp => attached \/ failed \/ output = "attach"
  /\ output = "group" => ~frm_grp
  /\ output \in {"attach", "limit", "ready", "change", "buffer"} => frm_grp
  /\ output \in {"clear", "limit", "ready", "change", "buffer"} => attached
  /\ decoded > 0 \/ (announced /\ ~waits) =>
       frm_grp /\ attached /\ (Whole > 0 \/ output \in {"change", "buffer"})
  /\ drawn > 0 \/ output \in {"draw", "blit"} => Whole > 0

\* Each picture decoded is in the queue, in frame or drawn.
Counts ==
  /\ drawn + Pictures(queue) + (IF output \in {"draw", "blit"} THEN 1 ELSE 0) = decoded
  /\ output \notin {"draw", "blit", "wrap", "deinit"} => frame # "picture"
  /\ output \in {"draw", "blit"} => frame = "picture"

\* The frames of every size are allocated one after the other, as long as there
\* is memory, and only the one that frame_change is at has none.
Frames ==
  /\ Whole \in Nat
  /\ fresh # 0 => output \in {"change", "buffer"}
  /\ changes * N <= Memory =>
       /\ allocated = (Whole * N) + fresh
       /\ \A i \in 0..N-1 :
            drawable[i] \/ (Whole = 0 /\ i >= fresh) \/ (output = "buffer" /\ i = fresh)

\* The place to draw at is the number of pictures drawn, laps taken off.
Ring ==
  /\ tail % N = drawn % N
  /\ output = "wrap" => drawn > 0

\* The picture that thread_encoder is at, by where it is.
Encoding ==
  /\ pc \notin {"copy", "get", "send", "advance", "wrap", "wait"} =>
       count = 0 /\ accepted = 0 /\ packet = 0 /\ sent = 0 /\ ~bare
  /\ pc \in {"copy", "advance", "wrap", "wait"} => sent = count /\ accepted = 0 /\ packet = 0
  /\ pc = "advance" => count > 0
  /\ pc = "get" => sent = count - 1 /\ packet = 0
  /\ pc = "send" => sent = count - 1 /\ accepted = 0 /\ packet = count
  /\ pc \in {"copy", "get", "send", "advance", "wrap", "wait"} =>
       header \/ "extra_info" \in errors
  /\ HeaderSent
  /\ "put_frame" \in errors => pc = "get" /\ accepted = 0

\* The frames given back.
Freed == IF pc \in {"get", "send", "advance"} THEN count - 1 ELSE count

\* The places between the first check of thread_encoder and encoder_run.
Waited == {"create", "init", "config", "header", "copy"}

\* A picture is encoded after it was drawn: thread_encoder has waited for it, and
\* thread_output for a frame, unless a check was misled.
Ahead ==
  /\ head % N = Freed % N
  /\ pc # "calloc" => drawn > 0
  /\ ~misled =>
       /\ count <= drawn /\ drawn - Freed < N
       /\ output = "blit" => drawn - Freed < N - 1
       /\ pc \in Waited => count < drawn

\* The variables that both threads look at.
SharedOK == head \in 0..N /\ (head = N => pc = "wrap") /\ misled \in BOOLEAN

DecoderInv == OutputTypeOK /\ Change /\ SetUp /\ Counts /\ Frames /\ Ring
EncoderInv == EncodeTypeOK /\ Encoding

IInv == DecoderInv /\ EncoderInv /\ SharedOK /\ Ahead
-----------------------------------------------------------------------------
(***************************************************************************)
(* Pictures in the queue, and numbers modulo N.                            *)
(***************************************************************************)
Queued == Seq({"info", "picture"})

Places(q) == {i \in 1..Len(q) : q[i] = "picture"}

LEMMA PicturesAreCounted ==
  ASSUME NEW q \in Queued
  PROVE  /\ IsFiniteSet(Places(q)) /\ Pictures(q) = Cardinality(Places(q))
         /\ Pictures(q) \in Nat /\ Len(q) \in Nat
<1>1. Len(q) \in Nat
  BY LenProperties DEF Queued
<1>2. IsFiniteSet(1..Len(q))
  BY <1>1, FS_Interval
<1>3. IsFiniteSet(Places(q))
  BY <1>2, FS_Subset DEF Places
<1>4. Pictures(q) = Cardinality(Places(q))
  BY DEF Pictures, Places
<1> QED
  BY <1>1, <1>3, <1>4, FS_CardinalityType

LEMMA NoPictures == <<>> \in Queued /\ Pictures(<<>>) = 0
<1>1. <<>> \in Queued /\ Len(<<>>) = 0
  BY EmptySeq DEF Queued
<1>2. Places(<<>>) = {}
  BY <1>1 DEF Places
<1> QED
  BY <1>1, <1>2, PicturesAreCounted, FS_EmptySet

\* A frame appended to the queue,
LEMMA PicturesAppended ==
  ASSUME NEW q \in Queued, NEW f \in {"info", "picture"}
  PROVE  /\ Append(q, f) \in Queued /\ Len(Append(q, f)) = Len(q) + 1
         /\ Append(q, f)[Len(q) + 1] = f
         /\ \A i \in 1..Len(q) : Append(q, f)[i] = q[i]
         /\ Pictures(Append(q, f)) = Pictures(q) + (IF f = "picture" THEN 1 ELSE 0)
<1> DEFINE r == Append(q, f)
<1>1. /\ r \in Queued /\ Len(r) = Len(q) + 1 /\ r[Len(q) + 1] = f
      /\ \A i \in 1..Len(q) : r[i] = q[i]
  BY DEF Queued
<1>2. /\ IsFiniteSet(Places(q)) /\ Pictures(q) = Cardinality(Places(q))
      /\ Pictures(r) = Cardinality(Places(r)) /\ Pictures(q) \in Nat /\ Len(q) \in Nat
  BY <1>1, PicturesAreCounted
<1> HIDE DEF r
<1>3. CASE f = "picture"
  <2>1. Places(r) = Places(q) \cup {Len(q) + 1} /\ Len(q) + 1 \notin Places(q)
    BY <1>1, <1>2, <1>3 DEF Places
  <2>2. Cardinality(Places(r)) = Cardinality(Places(q)) + 1
    BY <1>2, <2>1, FS_AddElement
  <2> QED
    BY <1>1, <1>2, <1>3, <2>2 DEF r
<1>4. CASE f # "picture"
  <2>1. Places(r) = Places(q)
    BY <1>1, <1>2, <1>4 DEF Places
  <2> QED
    BY <1>1, <1>2, <1>4, <2>1 DEF r
<1> QED
  BY <1>3, <1>4

\* and the first one taken out.
LEMMA PicturesTaken ==
  ASSUME NEW q \in Queued, q # <<>>
  PROVE  /\ Tail(q) \in Queued /\ Len(Tail(q)) = Len(q) - 1 /\ Len(q) \in Nat \ {0}
         /\ Head(q) = q[1] /\ Head(q) \in {"info", "picture"}
         /\ \A i \in 1..Len(Tail(q)) : Tail(q)[i] = q[i + 1]
         /\ Pictures(q) = Pictures(Tail(q)) + (IF Head(q) = "picture" THEN 1 ELSE 0)
<1> DEFINE r == Tail(q)
<1>1. /\ r \in Queued /\ Len(r) = Len(q) - 1 /\ Len(q) \in Nat \ {0}
      /\ Head(q) = q[1] /\ Head(q) \in {"info", "picture"}
      /\ \A i \in 1..Len(r) : r[i] = q[i + 1]
  BY HeadTailProperties, EmptySeq DEF Queued
<1>2. /\ IsFiniteSet(Places(q)) /\ Pictures(q) = Cardinality(Places(q))
      /\ IsFiniteSet(Places(r)) /\ Pictures(r) = Cardinality(Places(r))
      /\ Pictures(q) \in Nat /\ Pictures(r) \in Nat
  BY <1>1, PicturesAreCounted
<1> HIDE DEF r
<1> DEFINE T == Places(q) \ {1}
           g == [i \in Places(r) |-> i + 1]
<1>3. \A i \in Places(r) : i + 1 \in T /\ i \in Nat
  BY <1>1 DEF Places
<1>4. \A k \in T : k - 1 \in Places(r) /\ (k - 1) + 1 = k
  BY <1>1 DEF Places
<1>5. g \in Bijection(Places(r), T)
  <2>1. g \in [Places(r) -> T]
    BY <1>3
  <2>2. \A i, k \in Places(r) : g[i] = g[k] => i = k
    BY <1>3
  <2>3. \A k \in T : \E i \in Places(r) : g[i] = k
    BY <1>4
  <2> HIDE DEF g, T
  <2> QED
    BY <2>1, <2>2, <2>3, Fun_IsBij
<1> HIDE DEF g
<1>6. Cardinality(T) = Cardinality(Places(r))
  BY <1>2, <1>5, FS_Bijection DEF ExistsBijection
<1>7. /\ Cardinality(T) = IF 1 \in Places(q) THEN Cardinality(Places(q)) - 1
                                             ELSE Cardinality(Places(q))
  BY <1>2, FS_RemoveElement
<1>8. 1 \in Places(q) <=> Head(q) = "picture"
  BY <1>1 DEF Places
<1>9. Pictures(q) = Pictures(r) + (IF Head(q) = "picture" THEN 1 ELSE 0)
  BY <1>2, <1>6, <1>7, <1>8
<1> QED
  BY <1>1, <1>9 DEF r

LEMMA Lap ==
  ASSUME NEW n \in Nat \ {0}
  PROVE  \A x \in Nat : \E q \in Nat, r \in 0..n-1 : x = (n * q) + r /\ x % n = r
<1> SUFFICES ASSUME NEW x \in Nat
             PROVE  \E q \in Nat, r \in 0..n-1 : x = (n * q) + r /\ x % n = r
  OBVIOUS
<1>1. x \div n \in Nat /\ x % n \in 0..n-1 /\ x = (n * (x \div n)) + (x % n)
  OBVIOUS
<1> QED
  BY <1>1, Zenon

\* A place k further on.
LEMMA Further ==
  ASSUME NEW n \in Nat \ {0}, NEW a \in Nat, NEW k \in Nat
  PROVE  ((a % n) + k) % n = (a + k) % n
<1>1. PICK q \in Nat, r \in 0..n-1 : a = (n * q) + r /\ a % n = r
  BY Lap
<1>2. PICK u \in Nat, v \in 0..n-1 : r + k = (n * u) + v /\ (r + k) % n = v
  <2>1. r + k \in Nat
    OBVIOUS
  <2> QED
    BY <2>1, Lap
<1>3. PICK w \in Nat, z \in 0..n-1 : a + k = (n * w) + z /\ (a + k) % n = z
  <2>1. a + k \in Nat
    OBVIOUS
  <2> QED
    BY <2>1, Lap
<1>4. n * ((q + u) - w) = z - v
  BY <1>1, <1>2, <1>3
<1>5. (q + u) - w = 0
  <2>1. -n < n * ((q + u) - w) /\ n * ((q + u) - w) < n
    BY <1>4
  <2>2. \A j \in Int : j >= 1 => n * j >= n
    OBVIOUS
  <2>3. \A j \in Int : j <= -1 => n * j <= -n
    OBVIOUS
  <2> QED
    BY <2>1, <2>2, <2>3
<1> QED
  BY <1>1, <1>2, <1>3, <1>4, <1>5

\* A place that is not reduced is the reduced one, or n for 0.
LEMMA Unreduced ==
  ASSUME NEW n \in Nat \ {0}, NEW x \in 0..n
  PROVE  \E w \in {0, 1} : x = (n * w) + (x % n)
<1>1. CASE x = n
  BY <1>1
<1>2. CASE x # n
  BY <1>2
<1> QED
  BY <1>1, <1>2

\* How far one place is ahead of another, also when one is not reduced.
LEMMA Between ==
  ASSUME NEW n \in Nat \ {0}, NEW a \in Nat, NEW b \in Nat, a <= b, b - a < n,
         NEW x \in 0..n, NEW y \in 0..n, x % n = a % n, y % n = b % n
  PROVE  (y - x) % n = b - a
<1>1. PICK q \in Nat, r \in 0..n-1 : a = (n * q) + r /\ a % n = r
  BY Lap
<1>2. PICK u \in Nat, v \in 0..n-1 : b = (n * u) + v /\ b % n = v
  BY Lap
<1>3. b - a = (n * (u - q)) + (v - r)
  BY <1>1, <1>2
<1>4. u - q \in {0, 1}
  BY <1>1, <1>2, <1>3
<1>5. PICK w \in {0, 1} : x = (n * w) + r
  BY <1>1, Unreduced
<1>6. PICK z \in {0, 1} : y = (n * z) + v
  BY <1>2, Unreduced
<1> DEFINE k == (z - w) - (u - q)
           c == b - a
<1>7. k \in {-2, -1, 0, 1} /\ c \in 0..n-1
  BY <1>4
<1>8. y - x = (n * k) + c
  <2>1. CASE u - q = 0
    BY <1>3, <1>5, <1>6, <2>1
  <2>2. CASE u - q = 1
    BY <1>3, <1>5, <1>6, <2>2
  <2> QED
    BY <1>4, <2>1, <2>2
<1> HIDE DEF k, c
<1>9. ((n * k) + c) % n = c
  <2>1. CASE k = -2
    BY <1>7, <2>1
  <2>2. CASE k = -1
    BY <1>7, <2>2
  <2>3. CASE k = 0
    BY <1>7, <2>3
  <2>4. CASE k = 1
    BY <1>7, <2>4
  <2> QED
    BY <1>7, <2>1, <2>2, <2>3, <2>4
<1> QED
  BY <1>8, <1>9 DEF c

\* An index that is reduced is in the same place.
LEMMA Reduced ==
  ASSUME NEW n \in Nat \ {0}, NEW x \in 0..n
  PROVE  x % n \in 0..n-1 /\ x % n \in 0..n /\ x % n # n /\ (x % n) % n = x % n
<1>1. CASE x = n
  BY <1>1
<1>2. CASE x # n
  BY <1>2
<1> QED
  BY <1>1, <1>2

-----------------------------------------------------------------------------
(***************************************************************************)
(* The decoder's side.                                                     *)
(***************************************************************************)

\* A step outside frame_change keeps the frames,
LEMMA FramesUntouched ==
  ASSUME Frames, UNCHANGED frameVars,
         UNCHANGED output \/ (output \notin {"change", "buffer"} /\ output' # "buffer")
  PROVE  Frames' /\ Whole' = Whole
<1>1. UNCHANGED <<fresh, allocated, drawable, changes>>
  BY DEF frameVars
<1>2. CASE UNCHANGED output
  BY <1>1, <1>2 DEF Frames, Mid, Whole
<1>3. CASE output \notin {"change", "buffer"} /\ output' # "buffer"
  <2>1. fresh = 0 /\ ~(fresh > 0)
    BY <1>3 DEF Frames
  <2>2. Mid = FALSE /\ Mid' = FALSE
    BY <1>1, <1>3, <2>1 DEF Mid
  <2>3. Whole' = Whole
    BY <1>1, <2>2 DEF Whole
  <2> QED
    BY <1>1, <1>3, <2>1, <2>3 DEF Frames
<1> QED
  BY <1>2, <1>3

\* and one outside frame_preprocess the place to draw at.
LEMMA RingUntouched ==
  ASSUME Ring, UNCHANGED <<tail, drawn>>, UNCHANGED output \/ output' # "wrap"
  PROVE  Ring'
BY DEF Ring

\* An info change,
LEMMA AnnounceKeeps == DecoderInv /\ Announce => DecoderInv'
<1> SUFFICES ASSUME DecoderInv, Announce PROVE DecoderInv'
  OBVIOUS
<1>1. /\ OutputTypeOK /\ Change /\ SetUp /\ Counts /\ Frames /\ Ring /\ queue \in Queued
      /\ Pictures(queue) \in Nat /\ Len(queue) \in Nat
  BY PicturesAreCounted DEF DecoderInv, OutputTypeOK, Queued
<1>2. /\ queue' \in Queued /\ Len(queue') = Len(queue) + 1
      /\ queue'[Len(queue) + 1] = "info"
      /\ \A i \in 1..Len(queue) : queue'[i] = queue[i]
      /\ Pictures(queue') = Pictures(queue)
  BY <1>1, PicturesAppended DEF Announce
<1>3. Frames' /\ Ring' /\ Whole' = Whole
  <2>1. /\ UNCHANGED frameVars /\ UNCHANGED <<tail, drawn>>
        /\ UNCHANGED output \/ (output \notin {"change", "buffer"} /\ output' \notin {"buffer", "wrap"})
    BY DEF Announce
  <2> QED
    BY <1>1, <2>1, FramesUntouched, RingUntouched
<1>4. OutputTypeOK'
  BY <1>1, <1>2, SizesAssumption DEF OutputTypeOK, Used, Counts, Queued, Announce, decoderVars, frameVars
<1>5. Change'
  BY <1>1, <1>2 DEF OutputTypeOK, Change, Waiting, Announce, decoderVars, frameVars
<1>6. SetUp'
  BY <1>1, <1>2, <1>3 DEF OutputTypeOK, Change, SetUp, Counts, Waiting, Announce, decoderVars, frameVars
<1>7. Counts'
  BY <1>1, <1>2 DEF OutputTypeOK, Counts, Announce, decoderVars, frameVars
<1> QED
  BY <1>3, <1>4, <1>5, <1>6, <1>7 DEF DecoderInv

\* a picture,
LEMMA DecodeKeeps == DecoderInv /\ Decode => DecoderInv'
<1> SUFFICES ASSUME DecoderInv, Decode PROVE DecoderInv'
  OBVIOUS
<1>1. /\ OutputTypeOK /\ Change /\ SetUp /\ Counts /\ Frames /\ Ring /\ queue \in Queued
      /\ Pictures(queue) \in Nat /\ Len(queue) \in Nat
  BY PicturesAreCounted DEF DecoderInv, OutputTypeOK, Queued
<1>2. /\ queue' \in Queued /\ Len(queue') = Len(queue) + 1
      /\ queue'[Len(queue) + 1] = "picture"
      /\ \A i \in 1..Len(queue) : queue'[i] = queue[i]
      /\ Pictures(queue') = Pictures(queue) + 1
  BY <1>1, PicturesAppended DEF Decode
<1>3. Frames' /\ Ring' /\ Whole' = Whole
  <2>1. /\ UNCHANGED frameVars /\ UNCHANGED <<tail, drawn>>
        /\ UNCHANGED output \/ (output \notin {"change", "buffer"} /\ output' \notin {"buffer", "wrap"})
    BY DEF Decode
  <2> QED
    BY <1>1, <2>1, FramesUntouched, RingUntouched
<1>4. OutputTypeOK'
  <2>1. Used' = Used + 1 /\ Used \in Nat /\ Used < Limit /\ Limit \in Nat
    BY <1>1, <1>2, SizesAssumption DEF Used, Decode
  <2>2. decoded' = decoded + 1 /\ decoded' <= MaxPictures /\ drawn' = drawn
    BY <1>1, SizesAssumption DEF Decode, OutputTypeOK
  <2>3. decoded' \in 0..MaxPictures /\ drawn' \in 0..MaxPictures
    BY <1>1, <2>2, SizesAssumption DEF OutputTypeOK
  <2>4. Used' <= Limit
    BY <2>1
  <2>5. UNCHANGED <<waits, output, frame, frm_grp, attached, fresh, tail, allocated, drawable,
                    changes, failed>>
        /\ announced' = FALSE
    BY DEF Decode, frameVars
  <2>6. queue' \in Seq({"info", "picture"})
    BY <1>2 DEF Queued
  <2> QED
    BY <1>1, <2>3, <2>4, <2>5, <2>6 DEF OutputTypeOK
<1>5. Change'
  BY <1>1, <1>2 DEF OutputTypeOK, Change, Waiting, Decode, decoderVars, frameVars
<1>6. SetUp'
  <2>1. frm_grp /\ attached /\ (Whole > 0 \/ output \in {"change", "buffer"})
    <3>1. CASE decoded > 0
      BY <1>1, <3>1 DEF SetUp
    <3>2. CASE ~(decoded > 0)
      <4>1. decoded + 1 = 1
        BY <1>1, <3>2 DEF OutputTypeOK
      <4>2. announced /\ ~waits
        BY <4>1, SizesAssumption DEF Decode
      <4> QED
        BY <1>1, <4>2 DEF SetUp
    <3> QED
      BY <3>1, <3>2
  <2> QED
    BY <1>1, <1>3, <2>1 DEF SetUp, Decode
<1>7. Counts'
  <2>1. UNCHANGED <<drawn, output, frame>> /\ decoded' = decoded + 1
    BY DEF Decode
  <2>2. drawn \in Nat /\ decoded \in Nat
    BY <1>1 DEF OutputTypeOK
  <2> QED
    BY <1>1, <1>2, <2>1, <2>2 DEF Counts
<1> QED
  BY <1>3, <1>4, <1>5, <1>6, <1>7 DEF DecoderInv

\* either of them taken from the queue,
LEMMA GetKeeps == DecoderInv /\ GetFrame => DecoderInv'
<1> SUFFICES ASSUME DecoderInv, GetFrame PROVE DecoderInv'
  OBVIOUS
<1>1. /\ OutputTypeOK /\ Change /\ SetUp /\ Counts /\ Frames /\ Ring /\ queue \in Queued
      /\ Pictures(queue) \in Nat /\ Len(queue) \in Nat
  BY PicturesAreCounted DEF DecoderInv, OutputTypeOK, Queued
<1>2. /\ queue' \in Queued /\ Len(queue') = Len(queue) - 1 /\ Len(queue) > 0
      /\ Head(queue) = queue[1] /\ Head(queue) \in {"info", "picture"}
      /\ \A i \in 1..Len(queue') : queue'[i] = queue[i + 1]
      /\ Pictures(queue) = Pictures(queue') + (IF Head(queue) = "picture" THEN 1 ELSE 0)
      /\ Pictures(queue') \in Nat
  BY <1>1, PicturesTaken, PicturesAreCounted DEF GetFrame
<1>3. Frames' /\ Ring' /\ Whole' = Whole
  <2>1. /\ UNCHANGED frameVars /\ UNCHANGED <<tail, drawn>>
        /\ UNCHANGED output \/ (output \notin {"change", "buffer"} /\ output' \notin {"buffer", "wrap"})
    BY DEF GetFrame, Run
  <2> QED
    BY <1>1, <2>1, FramesUntouched, RingUntouched
<1>4. OutputTypeOK'
  BY <1>1, <1>2, SizesAssumption DEF OutputTypeOK, Used, Counts, Queued, GetFrame, Run, frameVars
<1>5. Change'
  <2>1. CASE Head(queue) = "info"
    <3>1. Len(queue) = 1 /\ waits
      BY <1>1, <1>2, <2>1 DEF Change
    <3>2. Len(queue') = 0
      BY <1>2, <3>1
    <3>3. queue' = <<>>
      BY <1>2, <3>2, EmptySeq DEF Queued
    <3>4. ~failed /\ UNCHANGED <<waits, failed>>
      BY <1>1 DEF Change, GetFrame
    <3>5. 1..Len(queue') = {}
      BY <3>2
    <3> QED
      BY <3>1, <3>3, <3>4, <3>5 DEF Change
  <2>2. CASE Head(queue) # "info"
    <3>1. \A i \in 1..Len(queue') : queue'[i] = "info" => i = Len(queue') /\ waits
      <4> SUFFICES ASSUME NEW i \in 1..Len(queue'), queue'[i] = "info"
                   PROVE  i = Len(queue') /\ waits
        OBVIOUS
      <4>1. queue[i + 1] = "info" /\ i + 1 \in 1..Len(queue)
        BY <1>1, <1>2
      <4>2. i + 1 = Len(queue) /\ waits
        BY <1>1, <4>1 DEF Change
      <4> QED
        BY <1>1, <1>2, <4>2
    <3>2. output' = "draw"
      BY <1>2, <2>2 DEF GetFrame, Run
    <3> QED
      BY <1>1, <3>1, <3>2 DEF Change, Waiting, GetFrame
  <2> QED
    BY <2>1, <2>2
<1>6. SetUp'
  <2>1. ~failed /\ output = "get"
    BY <1>1 DEF GetFrame, Run, Change
  <2>2. Head(queue) = "picture" => Whole > 0
    <3>1. Head(queue) = "picture" => decoded > 0
      BY <1>1, <1>2, <2>1 DEF Counts, OutputTypeOK
    <3> QED
      BY <1>1, <2>1, <3>1 DEF SetUp
  <2> QED
    BY <1>1, <1>2, <1>3, <2>1, <2>2 DEF SetUp, GetFrame, Run
<1>7. Counts'
  BY <1>1, <1>2 DEF OutputTypeOK, Counts, GetFrame, Run, frameVars
<1> QED
  BY <1>3, <1>4, <1>5, <1>6, <1>7 DEF DecoderInv

\* GetGroup
LEMMA GroupKeeps == DecoderInv /\ GetGroup => DecoderInv'
<1> SUFFICES ASSUME DecoderInv, GetGroup PROVE DecoderInv'
  OBVIOUS
<1>1. /\ OutputTypeOK /\ Change /\ SetUp /\ Counts /\ Frames /\ Ring /\ queue \in Queued
      /\ Pictures(queue) \in Nat /\ Len(queue) \in Nat
  BY PicturesAreCounted DEF DecoderInv, OutputTypeOK, Queued
<1>2. queue' = queue /\ Pictures(queue') = Pictures(queue)
  BY DEF GetGroup, Step, Fails, Run, frameVars
<1>3. Frames' /\ Ring' /\ Whole' = Whole
  <2>1. /\ UNCHANGED frameVars /\ UNCHANGED <<tail, drawn>>
        /\ UNCHANGED output \/ (output \notin {"change", "buffer"} /\ output' \notin {"buffer", "wrap"})
    BY DEF GetGroup, Step, Fails, Run
  <2> QED
    BY <1>1, <2>1, FramesUntouched, RingUntouched
<1>4. OutputTypeOK'
  BY <1>1, <1>2, SizesAssumption DEF OutputTypeOK, Used, Counts, Queued, GetGroup, Step, Fails, Run, frameVars
<1>5. Change'
  BY <1>1, <1>2 DEF OutputTypeOK, Change, Waiting, GetGroup, Step, Fails, Run, frameVars
<1>6. SetUp'
  BY <1>1, <1>2, <1>3 DEF OutputTypeOK, Change, SetUp, Counts, Waiting, GetGroup, Step, Fails, Run, frameVars
<1>7. Counts'
  BY <1>1, <1>2 DEF OutputTypeOK, Counts, GetGroup, Step, Fails, Run, frameVars
<1> QED
  BY <1>3, <1>4, <1>5, <1>6, <1>7 DEF DecoderInv

\* Attach
LEMMA AttachKeeps == DecoderInv /\ Attach => DecoderInv'
<1> SUFFICES ASSUME DecoderInv, Attach PROVE DecoderInv'
  OBVIOUS
<1>1. /\ OutputTypeOK /\ Change /\ SetUp /\ Counts /\ Frames /\ Ring /\ queue \in Queued
      /\ Pictures(queue) \in Nat /\ Len(queue) \in Nat
  BY PicturesAreCounted DEF DecoderInv, OutputTypeOK, Queued
<1>2. queue' = queue /\ Pictures(queue') = Pictures(queue)
  BY DEF Attach, Step, Fails, Run, frameVars
<1>3. Frames' /\ Ring' /\ Whole' = Whole
  <2>1. /\ UNCHANGED frameVars /\ UNCHANGED <<tail, drawn>>
        /\ UNCHANGED output \/ (output \notin {"change", "buffer"} /\ output' \notin {"buffer", "wrap"})
    BY DEF Attach, Step, Fails, Run
  <2> QED
    BY <1>1, <2>1, FramesUntouched, RingUntouched
<1>4. OutputTypeOK'
  BY <1>1, <1>2, SizesAssumption DEF OutputTypeOK, Used, Counts, Queued, Attach, Step, Fails, Run, frameVars
<1>5. Change'
  BY <1>1, <1>2 DEF OutputTypeOK, Change, Waiting, Attach, Step, Fails, Run, frameVars
<1>6. SetUp'
  BY <1>1, <1>2, <1>3 DEF OutputTypeOK, Change, SetUp, Counts, Waiting, Attach, Step, Fails, Run, frameVars
<1>7. Counts'
  BY <1>1, <1>2 DEF OutputTypeOK, Counts, Attach, Step, Fails, Run, frameVars
<1> QED
  BY <1>3, <1>4, <1>5, <1>6, <1>7 DEF DecoderInv

\* ClearGroup
LEMMA ClearKeeps == DecoderInv /\ ClearGroup => DecoderInv'
<1> SUFFICES ASSUME DecoderInv, ClearGroup PROVE DecoderInv'
  OBVIOUS
<1>1. /\ OutputTypeOK /\ Change /\ SetUp /\ Counts /\ Frames /\ Ring /\ queue \in Queued
      /\ Pictures(queue) \in Nat /\ Len(queue) \in Nat
  BY PicturesAreCounted DEF DecoderInv, OutputTypeOK, Queued
<1>2. queue' = queue /\ Pictures(queue') = Pictures(queue)
  BY DEF ClearGroup, Step, Fails, Run, frameVars
<1>3. Frames' /\ Ring' /\ Whole' = Whole
  <2>1. /\ UNCHANGED frameVars /\ UNCHANGED <<tail, drawn>>
        /\ UNCHANGED output \/ (output \notin {"change", "buffer"} /\ output' \notin {"buffer", "wrap"})
    BY DEF ClearGroup, Step, Fails, Run
  <2> QED
    BY <1>1, <2>1, FramesUntouched, RingUntouched
<1>4. OutputTypeOK'
  BY <1>1, <1>2, SizesAssumption DEF OutputTypeOK, Used, Counts, Queued, ClearGroup, Step, Fails, Run, frameVars
<1>5. Change'
  BY <1>1, <1>2 DEF OutputTypeOK, Change, Waiting, ClearGroup, Step, Fails, Run, frameVars
<1>6. SetUp'
  BY <1>1, <1>2, <1>3 DEF OutputTypeOK, Change, SetUp, Counts, Waiting, ClearGroup, Step, Fails, Run, frameVars
<1>7. Counts'
  BY <1>1, <1>2 DEF OutputTypeOK, Counts, ClearGroup, Step, Fails, Run, frameVars
<1> QED
  BY <1>3, <1>4, <1>5, <1>6, <1>7 DEF DecoderInv

\* LimitGroup
LEMMA LimitKeeps == DecoderInv /\ LimitGroup => DecoderInv'
<1> SUFFICES ASSUME DecoderInv, LimitGroup PROVE DecoderInv'
  OBVIOUS
<1>1. /\ OutputTypeOK /\ Change /\ SetUp /\ Counts /\ Frames /\ Ring /\ queue \in Queued
      /\ Pictures(queue) \in Nat /\ Len(queue) \in Nat
  BY PicturesAreCounted DEF DecoderInv, OutputTypeOK, Queued
<1>2. queue' = queue /\ Pictures(queue') = Pictures(queue)
  BY DEF LimitGroup, Step, Fails, Run, frameVars
<1>3. Frames' /\ Ring' /\ Whole' = Whole
  <2>1. /\ UNCHANGED frameVars /\ UNCHANGED <<tail, drawn>>
        /\ UNCHANGED output \/ (output \notin {"change", "buffer"} /\ output' \notin {"buffer", "wrap"})
    BY DEF LimitGroup, Step, Fails, Run
  <2> QED
    BY <1>1, <2>1, FramesUntouched, RingUntouched
<1>4. OutputTypeOK'
  BY <1>1, <1>2, SizesAssumption DEF OutputTypeOK, Used, Counts, Queued, LimitGroup, Step, Fails, Run, frameVars
<1>5. Change'
  BY <1>1, <1>2 DEF OutputTypeOK, Change, Waiting, LimitGroup, Step, Fails, Run, frameVars
<1>6. SetUp'
  BY <1>1, <1>2, <1>3 DEF OutputTypeOK, Change, SetUp, Counts, Waiting, LimitGroup, Step, Fails, Run, frameVars
<1>7. Counts'
  BY <1>1, <1>2 DEF OutputTypeOK, Counts, LimitGroup, Step, Fails, Run, frameVars
<1> QED
  BY <1>3, <1>4, <1>5, <1>6, <1>7 DEF DecoderInv

\* Ready
LEMMA ReadyKeeps == DecoderInv /\ Ready => DecoderInv'
<1> SUFFICES ASSUME DecoderInv, Ready PROVE DecoderInv'
  OBVIOUS
<1>1. /\ OutputTypeOK /\ Change /\ SetUp /\ Counts /\ Frames /\ Ring /\ queue \in Queued
      /\ Pictures(queue) \in Nat /\ Len(queue) \in Nat
  BY PicturesAreCounted DEF DecoderInv, OutputTypeOK, Queued
<1>2. queue' = queue /\ Pictures(queue') = Pictures(queue)
  BY DEF Ready, Step, Fails, Run, frameVars
<1>3. Frames' /\ Ring' /\ Whole' = Whole
  <2>1. /\ UNCHANGED frameVars /\ UNCHANGED <<tail, drawn>>
        /\ UNCHANGED output \/ (output \notin {"change", "buffer"} /\ output' \notin {"buffer", "wrap"})
    BY DEF Ready, Step, Fails, Run
  <2> QED
    BY <1>1, <2>1, FramesUntouched, RingUntouched
<1>4. OutputTypeOK'
  BY <1>1, <1>2, SizesAssumption DEF OutputTypeOK, Used, Counts, Queued, Ready, Step, Fails, Run, frameVars
<1>5. Change'
  BY <1>1, <1>2 DEF OutputTypeOK, Change, Waiting, Ready, Step, Fails, Run, frameVars
<1>6. SetUp'
  BY <1>1, <1>2, <1>3 DEF OutputTypeOK, Change, SetUp, Counts, Waiting, Ready, Step, Fails, Run, frameVars
<1>7. Counts'
  BY <1>1, <1>2 DEF OutputTypeOK, Counts, Ready, Step, Fails, Run, frameVars
<1> QED
  BY <1>3, <1>4, <1>5, <1>6, <1>7 DEF DecoderInv

\* A frame is replaced by one without a buffer,
LEMMA NewFrameKeeps == DecoderInv /\ NewFrame => DecoderInv'
<1> SUFFICES ASSUME DecoderInv, NewFrame PROVE DecoderInv'
  OBVIOUS
<1>1. /\ OutputTypeOK /\ Change /\ SetUp /\ Counts /\ Frames /\ Ring /\ queue \in Queued
      /\ output = "change" /\ output' = "buffer"
      /\ drawable' = [drawable EXCEPT ![fresh] = FALSE]
      /\ changes' = IF fresh = 0 THEN changes + 1 ELSE changes
      /\ UNCHANGED <<decoded, announced, tail, drawn, waits, queue, frame, frm_grp, attached, fresh,
                     allocated, failed>>
  BY DEF DecoderInv, NewFrame, Run, OutputTypeOK, Queued
<1>2. Whole' = Whole /\ changes' \in Nat /\ fresh \in 0..N-1 /\ N \in Nat
  <2>1. changes \in Nat /\ fresh \in 0..N-1 /\ N \in Nat
    BY <1>1, SizesAssumption DEF OutputTypeOK
  <2>2. Mid' = TRUE
    BY <1>1 DEF Mid
  <2>3. CASE fresh = 0
    <3>1. Mid = FALSE /\ changes' = changes + 1
      BY <1>1, <2>3 DEF Mid
    <3> QED
      BY <2>1, <2>2, <3>1 DEF Whole
  <2>4. CASE fresh # 0
    <3>1. Mid = TRUE /\ changes' = changes
      BY <1>1, <2>1, <2>4 DEF Mid
    <3> QED
      BY <2>1, <2>2, <3>1 DEF Whole
  <2> QED
    BY <2>1, <2>3, <2>4
<1>3. OutputTypeOK'
  <2>1. drawable' \in [0..N-1 -> BOOLEAN] /\ (tail = N => output' = "wrap")
    BY <1>1, <1>2 DEF OutputTypeOK
  <2>2. Used' = Used
    BY <1>1 DEF Used
  <2> QED
    BY <1>1, <1>2, <2>1, <2>2 DEF OutputTypeOK
<1>4. Change'
  BY <1>1 DEF Change, Waiting
<1>5. SetUp'
  BY <1>1, <1>2 DEF SetUp
<1>6. Counts'
  BY <1>1 DEF Counts
<1>7. Frames'
  <2> SUFFICES ASSUME changes' * N <= Memory
               PROVE  /\ allocated = (Whole * N) + fresh
                      /\ \A i \in 0..N-1 : drawable'[i] \/ (Whole = 0 /\ i >= fresh) \/ i = fresh
    BY <1>1, <1>2 DEF Frames
  <2>1. changes * N <= Memory
    <3>1. changes \in Nat /\ N \in Nat /\ Memory \in Nat
      BY <1>1, SizesAssumption DEF OutputTypeOK
    <3>2. CASE fresh # 0
      BY <1>1, <3>2
    <3>3. CASE fresh = 0
      <4>1. (changes + 1) * N = (changes * N) + N /\ changes * N \in Nat
        BY <3>1
      <4> DEFINE m == changes * N
      <4>2. m \in Nat /\ m + N <= Memory
        BY <1>1, <3>3, <4>1
      <4> HIDE DEF m
      <4>3. m <= Memory
        BY <3>1, <4>2
      <4> QED
        BY <4>3 DEF m
    <3> QED
      BY <3>2, <3>3
  <2>2. /\ allocated = (Whole * N) + fresh
        /\ \A i \in 0..N-1 : drawable[i] \/ (Whole = 0 /\ i >= fresh)
    BY <1>1, <2>1 DEF Frames
  <2>3. \A i \in 0..N-1 : i # fresh => drawable'[i] = drawable[i]
    BY <1>1 DEF OutputTypeOK
  <2> QED
    BY <2>2, <2>3
<1>8. Ring'
  BY <1>1 DEF Ring
<1> QED
  BY <1>3, <1>4, <1>5, <1>6, <1>7, <1>8 DEF DecoderInv

\* which it is given if there is memory.
LEMMA BufferKeeps == DecoderInv /\ GetBuffer => DecoderInv'
<1> SUFFICES ASSUME DecoderInv, GetBuffer PROVE DecoderInv'
  OBVIOUS
<1>1. /\ OutputTypeOK /\ Change /\ SetUp /\ Counts /\ Frames /\ Ring /\ queue \in Queued
      /\ output = "buffer" /\ output' = (IF fresh = N - 1 THEN "deinit" ELSE "change")
      /\ fresh' = (fresh + 1) % N
      /\ \/ /\ allocated < Memory /\ allocated' = allocated + 1
            /\ drawable' = [drawable EXCEPT ![fresh] = TRUE]
         \/ allocated = Memory /\ UNCHANGED <<allocated, drawable>>
      /\ UNCHANGED <<decoded, announced, tail, drawn, waits, queue, frame, frm_grp, attached,
                     changes, failed>>
  BY DEF DecoderInv, GetBuffer, Run, OutputTypeOK, Queued
<1>2. /\ changes \in Nat /\ fresh \in 0..N-1 /\ N \in Nat \ {0} /\ Memory \in Nat
      /\ allocated \in 0..Memory /\ drawable \in [0..N-1 -> BOOLEAN]
  BY <1>1, SizesAssumption DEF OutputTypeOK
<1>3. /\ fresh = N - 1 => fresh' = 0
      /\ fresh # N - 1 => fresh' = fresh + 1
  <2>1. CASE fresh = N - 1
    BY <1>1, <1>2, <2>1
  <2>2. CASE fresh # N - 1
    BY <1>1, <1>2, <2>2
  <2> QED
    BY <2>1, <2>2
<1>4. /\ Whole \in Nat /\ Whole = changes - 1
      /\ Whole' = (IF fresh = N - 1 THEN Whole + 1 ELSE Whole)
  <2>1. Mid = TRUE /\ Mid' = (fresh # N - 1)
    BY <1>1, <1>2, <1>3 DEF Mid
  <2>2. Whole = changes - 1 /\ Whole \in Nat
    BY <1>1, <2>1 DEF Whole, Frames
  <2>3. Whole' = (IF fresh = N - 1 THEN changes ELSE changes - 1)
    BY <1>1, <2>1 DEF Whole
  <2> QED
    BY <1>2, <2>2, <2>3
<1>5. OutputTypeOK'
  <2>1. /\ drawable' \in [0..N-1 -> BOOLEAN] /\ allocated' \in 0..Memory /\ fresh' \in 0..N-1
    <3>1. fresh' \in 0..N-1
      BY <1>2, <1>3
    <3>2. allocated' \in 0..Memory
      BY <1>1, <1>2
    <3>3. drawable' = drawable \/ drawable' = [drawable EXCEPT ![fresh] = TRUE]
      BY <1>1
    <3>4. drawable' \in [0..N-1 -> BOOLEAN]
      BY <1>2, <3>3
    <3> QED
      BY <3>1, <3>2, <3>4
  <2>2. Used' = Used
    BY <1>1 DEF Used
  <2>3. output' \in {"change", "deinit"} /\ tail # N
    BY <1>1 DEF OutputTypeOK
  <2> QED
    BY <1>1, <2>1, <2>2, <2>3 DEF OutputTypeOK
<1>6. Change'
  BY <1>1 DEF Change, Waiting
<1>7. SetUp'
  BY <1>1, <1>4 DEF SetUp
<1>8. Counts'
  BY <1>1 DEF Counts
<1>9. Frames'
  <2>1. Whole' \in Nat /\ (fresh' # 0 => output' = "change")
    BY <1>1, <1>3, <1>4
  <2> SUFFICES ASSUME changes * N <= Memory
               PROVE  /\ allocated' = (Whole' * N) + fresh'
                      /\ \A i \in 0..N-1 : drawable'[i] \/ (Whole' = 0 /\ i >= fresh')
    BY <1>1, <2>1 DEF Frames
  <2>2. /\ allocated = (Whole * N) + fresh
        /\ \A i \in 0..N-1 : drawable[i] \/ (Whole = 0 /\ i >= fresh) \/ i = fresh
    BY <1>1 DEF Frames
  <2>3. (Whole + 1) * N = (Whole * N) + N /\ Whole * N \in Nat /\ changes = Whole + 1
    BY <1>2, <1>4
  <2> DEFINE w == Whole * N
  <2>4. w \in Nat /\ w + N <= Memory /\ allocated = w + fresh
    BY <2>2, <2>3
  <2>5. allocated < Memory
    <3> HIDE DEF w
    <3> QED
      BY <1>2, <2>4
  <2>6. /\ allocated' = allocated + 1 /\ drawable' = [drawable EXCEPT ![fresh] = TRUE]
    BY <1>1, <1>2, <2>5
  <2>7. allocated' = (Whole' * N) + fresh'
    <3>1. CASE fresh = N - 1
      <4>1. Whole' * N = w + N /\ fresh' = 0
        BY <1>3, <1>4, <2>3, <3>1
      <4> HIDE DEF w
      <4> QED
        BY <1>2, <2>4, <2>6, <3>1, <4>1
    <3>2. CASE fresh # N - 1
      <4>1. Whole' * N = w /\ fresh' = fresh + 1
        BY <1>3, <1>4, <3>2
      <4> HIDE DEF w
      <4> QED
        BY <1>2, <2>4, <2>6, <4>1
    <3> QED
      BY <3>1, <3>2
  <2>8. ASSUME NEW i \in 0..N-1 PROVE drawable'[i] \/ (Whole' = 0 /\ i >= fresh')
    <3>1. drawable'[i] = (IF i = fresh THEN TRUE ELSE drawable[i])
      BY <1>2, <2>6
    <3>2. CASE i = fresh \/ drawable[i]
      BY <3>1, <3>2
    <3>3. CASE i # fresh /\ ~drawable[i]
      <4>1. Whole = 0 /\ i >= fresh
        BY <2>2, <3>3
      <4>2. fresh # N - 1 /\ i >= fresh + 1
        BY <1>2, <3>3, <4>1
      <4> QED
        BY <1>3, <1>4, <4>1, <4>2
    <3> QED
      BY <3>2, <3>3
  <2> QED
    BY <2>7, <2>8
<1>10. Ring'
  BY <1>1 DEF Ring
<1> QED
  BY <1>5, <1>6, <1>7, <1>8, <1>9, <1>10 DEF DecoderInv

\* A picture is drawn.
LEMMA DrawKeeps == DecoderInv /\ frame_preprocess => DecoderInv'
<1> SUFFICES ASSUME DecoderInv, frame_preprocess PROVE DecoderInv'
  OBVIOUS
<1>1. /\ OutputTypeOK /\ Change /\ SetUp /\ Counts /\ Frames /\ Ring /\ queue \in Queued
      /\ Pictures(queue) \in Nat /\ Len(queue) \in Nat
  BY PicturesAreCounted DEF DecoderInv, OutputTypeOK, Queued
<1>2. /\ UNCHANGED <<decoded, announced, waits, queue, frame, frm_grp, attached, fresh, allocated,
                     drawable, changes, failed>>
      /\ \/ output = "draw" /\ output' = "blit" /\ tail' = tail /\ drawn' = drawn
         \/ output = "blit" /\ output' = "wrap" /\ tail' = tail + 1 /\ drawn' = drawn + 1
         \/ output = "wrap" /\ output' = "deinit" /\ tail' = tail % N /\ drawn' = drawn
  BY DEF frame_preprocess, WaitRoom, Blit, TailWrap, Draws, decoderVars, frameVars
<1>3. Frames' /\ Whole' = Whole
  BY <1>1, <1>2, FramesUntouched DEF frameVars
<1>4. /\ N \in Nat \ {0} /\ MaxPictures \in Nat /\ tail \in 0..N /\ drawn \in Nat /\ tail \in Nat
      /\ output # "wrap" => tail \in 0..N-1 /\ tail % N = tail
  <2>1. N \in Nat \ {0} /\ MaxPictures \in Nat
    BY SizesAssumption
  <2>2. tail \in 0..N /\ drawn \in Nat /\ (output # "wrap" => tail # N)
    BY <1>1, <2>1 DEF OutputTypeOK
  <2> QED
    BY <2>1, <2>2
<1>5. tail' \in 0..N /\ (tail' = N => output' = "wrap") /\ tail' % N = drawn' % N
  <2>1. CASE output = "draw"
    BY <1>1, <1>2, <1>4, <2>1 DEF Ring
  <2>2. CASE output = "blit"
    <3>1. ((drawn % N) + 1) % N = (drawn + 1) % N
      BY <1>4, Further
    <3>2. tail = drawn % N /\ tail' = tail + 1 /\ drawn' = drawn + 1
      BY <1>1, <1>2, <1>4, <2>2 DEF Ring
    <3> QED
      BY <1>2, <1>4, <2>2, <3>1, <3>2
  <2>3. CASE output = "wrap"
    <3>1. tail % N \in 0..N /\ tail % N # N /\ (tail % N) % N = tail % N
      BY <1>4, Reduced
    <3> QED
      BY <1>1, <1>2, <2>3, <3>1 DEF Ring
  <2> QED
    BY <1>2, <2>1, <2>2, <2>3
<1>6. Ring'
  BY <1>1, <1>2, <1>4, <1>5 DEF Ring
<1>7. Counts'
  BY <1>1, <1>2, <1>4 DEF OutputTypeOK, Counts
<1>8. OutputTypeOK'
  <2>1. drawn' \in 0..MaxPictures
    BY <1>1, <1>2, <1>4, <1>7 DEF OutputTypeOK, Counts
  <2>2. Used' = Used
    BY <1>2 DEF Used
  <2>3. output' \in {"blit", "wrap", "deinit"} /\ (output' = "blit" => frame = "picture")
    BY <1>1, <1>2 DEF Counts
  <2> QED
    BY <1>1, <1>2, <1>5, <2>1, <2>2, <2>3 DEF OutputTypeOK
<1>9. Change'
  BY <1>1, <1>2 DEF Change, Waiting
<1>10. SetUp'
  BY <1>1, <1>2, <1>3, <1>4 DEF SetUp, Ring
<1> QED
  BY <1>3, <1>6, <1>7, <1>8, <1>9, <1>10 DEF DecoderInv

\* Deinit
LEMMA DeinitKeeps == DecoderInv /\ Deinit => DecoderInv'
<1> SUFFICES ASSUME DecoderInv, Deinit PROVE DecoderInv'
  OBVIOUS
<1>1. /\ OutputTypeOK /\ Change /\ SetUp /\ Counts /\ Frames /\ Ring /\ queue \in Queued
      /\ Pictures(queue) \in Nat /\ Len(queue) \in Nat
  BY PicturesAreCounted DEF DecoderInv, OutputTypeOK, Queued
<1>2. queue' = queue /\ Pictures(queue') = Pictures(queue)
  BY DEF Deinit, Run, frameVars
<1>3. Frames' /\ Ring' /\ Whole' = Whole
  <2>1. /\ UNCHANGED frameVars /\ UNCHANGED <<tail, drawn>>
        /\ UNCHANGED output \/ (output \notin {"change", "buffer"} /\ output' \notin {"buffer", "wrap"})
    BY DEF Deinit, Run
  <2> QED
    BY <1>1, <2>1, FramesUntouched, RingUntouched
<1>4. OutputTypeOK'
  BY <1>1, <1>2, SizesAssumption DEF OutputTypeOK, Used, Counts, Queued, Deinit, Run, frameVars
<1>5. Change'
  BY <1>1, <1>2 DEF OutputTypeOK, Change, Waiting, Deinit, Run, frameVars
<1>6. SetUp'
  BY <1>1, <1>2, <1>3 DEF OutputTypeOK, Change, SetUp, Counts, Waiting, Deinit, Run, frameVars
<1>7. Counts'
  BY <1>1, <1>2 DEF OutputTypeOK, Counts, Deinit, Run, frameVars
<1> QED
  BY <1>3, <1>4, <1>5, <1>6, <1>7 DEF DecoderInv

LEMMA DecoderKeeps == DecoderInv /\ thread_output => DecoderInv'
BY AnnounceKeeps, DecodeKeeps, GetKeeps, GroupKeeps, AttachKeeps, ClearKeeps, LimitKeeps,
   ReadyKeeps, NewFrameKeeps, BufferKeeps, DrawKeeps, DeinitKeeps
   DEF thread_output, decoder_run, frame_change

\* Once decoder_run has failed, the decoder waits, and nothing more is decoded.
LEMMA NothingDecoded == DecoderInv /\ failed /\ thread_output => decoded' = decoded
BY DEF DecoderInv, Change, thread_output, decoder_run, Announce, Decode, GetFrame,
       GetGroup, Attach, ClearGroup, LimitGroup, Ready, frame_change, NewFrame, GetBuffer,
       frame_preprocess, WaitRoom, Blit, TailWrap, Draws, Deinit, Step, Fails, Run, decoderVars
-----------------------------------------------------------------------------
(***************************************************************************)
(* The encoder's side.                                                     *)
(***************************************************************************)
LEMMA InitKeeps == EncoderInv /\ encoder_data_init => EncoderInv'
<1> SUFFICES ASSUME EncoderInv, encoder_data_init PROVE EncoderInv'
  OBVIOUS
<1>1. /\ pc \in {"calloc", "create", "init", "config"}
      /\ pc' \in {"create", "init", "config", "header"}
      /\ encoder' \in {"null", "no_mpi", "closed", "default", "ready"}
      /\ UNCHANGED <<header, count, accepted, packet, sent, bare>>
  BY DEF encoder_data_init, Calloc, Create, MppInit, Configure, Goes, Leaves
<1>2. "put_frame" \notin errors'
  <2>1. \A i \in 1..4 : Configs[i] # "put_frame"
    <3>1. \A i \in 1..4 : i = 1 \/ i = 2 \/ i = 3 \/ i = 4
      OBVIOUS
    <3> QED
      BY <3>1 DEF Configs
  <2>2. "put_frame" \notin errors
    BY <1>1 DEF EncoderInv, Encoding
  <2> QED
    BY <2>1, <2>2 DEF encoder_data_init, Calloc, Create, MppInit, Configure
<1>3. EncodeTypeOK'
  BY <1>1 DEF EncoderInv, EncodeTypeOK
<1>4. Encoding'
  BY <1>1, <1>2 DEF EncoderInv, Encoding, HeaderSent
<1> QED
  BY <1>3, <1>4 DEF EncoderInv

LEMMA HeaderKeeps == EncoderInv /\ encoder_get_header => EncoderInv'
<1> SUFFICES ASSUME EncoderInv, encoder_get_header PROVE EncoderInv'
  OBVIOUS
<1>1. EncodeTypeOK'
  BY DEF EncoderInv, EncodeTypeOK, encoder_get_header, Crashes, GetHeader, Goes
<1>2. Encoding'
  BY DEF EncoderInv, EncodeTypeOK, Encoding, HeaderSent, encoder_get_header, Crashes,
         GetHeader, Goes
<1> QED
  BY <1>1, <1>2 DEF EncoderInv

LEMMA PutKeeps == EncoderInv /\ PutFrame => EncoderInv'
<1> SUFFICES ASSUME EncoderInv, PutFrame PROVE EncoderInv'
  OBVIOUS
<1>1. EncodeTypeOK'
  BY FramesAssumption DEF EncoderInv, EncodeTypeOK, Encoding, PutFrame, Goes
<1>2. Encoding'
  BY FramesAssumption DEF EncoderInv, EncodeTypeOK, Encoding, HeaderSent, PutFrame, Goes
<1> QED
  BY <1>1, <1>2 DEF EncoderInv

LEMMA PacketKeeps == EncoderInv /\ GetPacket => EncoderInv'
<1> SUFFICES ASSUME EncoderInv, GetPacket PROVE EncoderInv'
  OBVIOUS
<1>1. accepted = 1 /\ accepted' = 0 /\ packet' = count /\ count \in Nat /\ sent = count - 1
  BY FramesAssumption DEF EncoderInv, EncodeTypeOK, Encoding, GetPacket, Goes
<1>2. EncodeTypeOK'
  BY <1>1, FramesAssumption DEF EncoderInv, EncodeTypeOK, GetPacket, Goes
<1>3. Encoding'
  BY <1>1 DEF EncoderInv, EncodeTypeOK, Encoding, HeaderSent, GetPacket, Goes
<1> QED
  BY <1>2, <1>3 DEF EncoderInv

LEMMA SendKeeps == EncoderInv /\ FramePacket => EncoderInv'
<1> SUFFICES ASSUME EncoderInv, FramePacket PROVE EncoderInv'
  OBVIOUS
<1>1. bare' \in BOOLEAN
  BY DEF EncoderInv, EncodeTypeOK, FramePacket
<1>2. EncodeTypeOK'
  BY <1>1, FramesAssumption DEF EncoderInv, EncodeTypeOK, FramePacket, Goes
<1>3. header \/ "extra_info" \in errors
  BY DEF EncoderInv, Encoding, FramePacket, Goes
<1>4. HeaderSent'
  BY <1>3 DEF EncoderInv, Encoding, HeaderSent, FramePacket
<1>5. Encoding'
  BY <1>3, <1>4 DEF EncoderInv, EncodeTypeOK, Encoding, FramePacket, Goes
<1> QED
  BY <1>2, <1>5 DEF EncoderInv

LEMMA TurnKeeps ==
  EncoderInv /\ (HeadAdvance \/ HeadWrap \/ NextFrame) => EncoderInv'
<1> SUFFICES ASSUME EncoderInv, HeadAdvance \/ HeadWrap \/ NextFrame PROVE EncoderInv'
  OBVIOUS
<1>1. /\ pc \in {"advance", "wrap", "wait"} /\ pc' \in {"wrap", "wait", "copy"}
      /\ UNCHANGED <<encoder, header, count, accepted, packet, sent, bare, errors>>
  BY DEF HeadAdvance, HeadWrap, NextFrame, Turn, Goes
<1>2. EncodeTypeOK'
  BY <1>1 DEF EncoderInv, EncodeTypeOK
<1>3. Encoding'
  BY <1>1 DEF EncoderInv, Encoding, HeaderSent
<1> QED
  BY <1>2, <1>3 DEF EncoderInv

LEMMA EncoderKeeps == EncoderInv /\ Encode => EncoderInv'
BY InitKeeps, HeaderKeeps, PutKeeps, PacketKeeps, SendKeeps, TurnKeeps
   DEF Encode, EncodeFrame, thread_encoder, encoder_run
-----------------------------------------------------------------------------
(***************************************************************************)
(* Both.                                                                   *)
(***************************************************************************)
LEMMA SharedTypes ==
  ASSUME IInv
  PROVE  /\ N \in Nat \ {0} /\ count \in Nat /\ sent \in Nat /\ drawn \in Nat /\ misled \in BOOLEAN
         /\ head \in 0..N /\ tail \in 0..N /\ head \in Nat /\ tail \in Nat
         /\ Freed \in Nat /\ Freed <= count /\ count <= Freed + 1
<1>1. N \in Nat \ {0}
  BY SizesAssumption
<1>2. /\ count \in Nat /\ sent \in Nat /\ drawn \in Nat /\ misled \in BOOLEAN
      /\ head \in 0..N /\ tail \in 0..N
  BY SizesAssumption, FramesAssumption DEF IInv, DecoderInv, EncoderInv, SharedOK,
     OutputTypeOK, EncodeTypeOK
<1>3. pc \in {"get", "send", "advance"} => count >= 1
  <2>1. CASE pc \in {"get", "send"}
    <3>1. sent = count - 1
      BY <2>1 DEF IInv, EncoderInv, Encoding
    <3> QED
      BY <1>2, <3>1
  <2>2. CASE pc = "advance"
    <3>1. count > 0
      BY <2>2 DEF IInv, EncoderInv, Encoding
    <3> QED
      BY <1>2, <3>1
  <2> QED
    BY <2>1, <2>2
<1> QED
  BY <1>1, <1>2, <1>3 DEF Freed

\* The pictures held are those drawn and not given back.
LEMMA HeldIs ==
  ASSUME IInv, ~misled
  PROVE  Held = drawn - Freed
<1>1. /\ N \in Nat \ {0} /\ drawn \in Nat /\ Freed \in Nat /\ Freed <= drawn /\ drawn - Freed < N
      /\ head \in 0..N /\ tail \in 0..N /\ head % N = Freed % N /\ tail % N = drawn % N
  BY SharedTypes DEF IInv, DecoderInv, Ahead, Ring
<1>2. (tail - head) % N = drawn - Freed
  BY <1>1, Between
<1> QED
  BY <1>2 DEF Held

\* What a step of thread_output makes of the lead.
LEMMA LeadGrows == IInv /\ Output => Ahead' /\ SharedOK'
<1> SUFFICES ASSUME IInv, Output PROVE Ahead' /\ SharedOK'
  OBVIOUS
<1>1. /\ Ahead /\ SharedOK /\ UNCHANGED <<pc, count, head, Freed>>
      /\ misled' = (misled \/ (output = "draw" /\ output' = "blit" /\ Held = N - 1))
  BY DEF IInv, Output, encodeVars, Freed
<1>2. \/ drawn' = drawn /\ (output' = "blit" => output = "draw" \/ output = "blit")
      \/ drawn' = drawn + 1 /\ output = "blit" /\ output' = "wrap"
  BY DEF Output, thread_output, decoder_run, Announce, Decode, GetFrame, GetGroup, Attach,
         ClearGroup, LimitGroup, Ready, frame_change, NewFrame, GetBuffer, frame_preprocess,
         WaitRoom, Blit, TailWrap, Draws, Deinit, Step, Fails, Run
<1>3. /\ N \in Nat \ {0} /\ drawn \in Nat /\ count \in Nat /\ Freed \in Nat /\ misled \in BOOLEAN
  BY SharedTypes
<1>4. SharedOK'
  BY <1>1, <1>3 DEF SharedOK
<1>5. (head % N = Freed % N)' /\ (pc # "calloc" => drawn > 0)'
  BY <1>1, <1>2, <1>3 DEF Ahead
<1>6. ASSUME ~misled'
      PROVE  /\ count <= drawn' /\ drawn' - Freed < N
             /\ output' = "blit" => drawn' - Freed < N - 1
             /\ pc \in Waited => count < drawn'
  <2>1. ~misled
    BY <1>1, <1>6
  <2>2. /\ count <= drawn /\ drawn - Freed < N /\ (output = "blit" => drawn - Freed < N - 1)
        /\ pc \in Waited => count < drawn
    BY <1>1, <2>1 DEF Ahead
  <2>3. CASE drawn' = drawn + 1 /\ output = "blit" /\ output' = "wrap"
    BY <1>3, <2>2, <2>3
  <2>4. CASE drawn' = drawn /\ (output' = "blit" => output = "draw" \/ output = "blit")
    <3>1. ASSUME output' = "blit", output = "draw" PROVE drawn - Freed < N - 1
      <4>1. Held # N - 1 /\ Held = drawn - Freed
        BY <1>1, <1>6, <2>1, <3>1, HeldIs
      <4> QED
        BY <1>3, <2>2, <4>1
    <3> QED
      BY <2>2, <2>4, <3>1
  <2> QED
    BY <1>2, <2>3, <2>4
<1> QED
  BY <1>1, <1>4, <1>5, <1>6 DEF Ahead

\* A frame is found: there is one, or the check was misled, and a picture has
\* been drawn in any case.
LEMMA FrameFound ==
  ASSUME IInv, FrameWaits, pc \in {"calloc", "wait"}
  PROVE  /\ drawn > 0 /\ (misled => misled') /\ misled' \in BOOLEAN
         /\ ~misled' => count < drawn
<1>1. /\ N \in Nat \ {0} /\ drawn \in Nat /\ count \in Nat /\ misled \in BOOLEAN /\ Freed = count
      /\ head \in 0..N /\ tail \in 0..N /\ head # N /\ head # tail /\ tail % N = drawn % N
      /\ misled' = (misled \/ Held = 0)
  BY SharedTypes DEF IInv, SharedOK, FrameWaits, Freed, DecoderInv, Ring
<1>2. drawn > 0
  <2>1. CASE pc # "calloc"
    BY <2>1 DEF IInv, Ahead
  <2>2. CASE pc = "calloc"
    <3> SUFFICES ASSUME drawn = 0 PROVE FALSE
      BY <1>1
    <3>1. count = 0
      BY <2>2 DEF IInv, EncoderInv, Encoding
    <3>2. head % N = 0 % N /\ tail % N = 0 % N
      BY <1>1, <3>1 DEF IInv, Ahead
    <3>3. head = 0 /\ tail \in {0, N}
      BY <1>1, <3>2
    <3>4. tail = N
      BY <1>1, <3>3
    <3> QED
      BY <3>4 DEF IInv, DecoderInv, OutputTypeOK, Ring
  <2> QED
    BY <2>1, <2>2
<1>3. ASSUME ~misled' PROVE count < drawn
  <2>1. ~misled /\ Held # 0
    BY <1>1, <1>3
  <2>2. Held = drawn - count /\ count <= drawn
    BY <1>1, <2>1, HeldIs DEF IInv, Ahead
  <2> QED
    BY <1>1, <2>1, <2>2
<1> QED
  BY <1>1, <1>2, <1>3

\* The encoder waits for a picture that it was not put yet.
LEMMA LeadShrinks == IInv /\ Encode => Ahead' /\ SharedOK'
<1> SUFFICES ASSUME IInv, Encode PROVE Ahead' /\ SharedOK'
  OBVIOUS
<1>1. /\ Ahead /\ SharedOK /\ UNCHANGED <<drawn, output>>
  BY DEF IInv, Encode, EncodeFrame, HeadAdvance, HeadWrap, NextFrame, Turn, outputVars
<1>2. /\ N \in Nat \ {0} /\ count \in Nat /\ drawn \in Nat /\ Freed \in Nat /\ misled \in BOOLEAN
      /\ head \in 0..N /\ head \in Nat /\ Freed <= count /\ count <= Freed + 1
  BY SharedTypes
<1>3. CASE Calloc /\ EncodeFrame
  <2>1. /\ pc = "calloc" /\ pc' \in {"create", "header"} /\ FrameWaits
        /\ UNCHANGED <<count, head>>
    BY <1>3 DEF Calloc, Goes, Leaves, EncodeFrame
  <2>2. Freed' = Freed /\ Freed = count
    BY <2>1 DEF Freed
  <2>3. drawn > 0 /\ (misled => misled') /\ misled' \in BOOLEAN /\ (~misled' => count < drawn)
    BY <2>1, FrameFound
  <2>4. SharedOK'
    BY <1>1, <2>1, <2>3 DEF SharedOK
  <2> QED
    BY <1>1, <1>2, <2>1, <2>2, <2>3, <2>4 DEF Ahead
<1>4. CASE (Create \/ MppInit \/ Configure \/ encoder_get_header) /\ EncodeFrame
  <2>1. /\ pc \in Waited /\ pc # "copy" /\ (pc' \in Waited \/ pc' = "crashed")
        /\ UNCHANGED <<count, head, misled>>
    BY <1>4 DEF Create, MppInit, Configure, encoder_get_header, Crashes, GetHeader, Goes,
                Leaves, EncodeFrame, Waited
  <2>2. Freed' = Freed
    BY <2>1 DEF Freed, Waited
  <2>3. SharedOK'
    BY <1>1, <2>1 DEF SharedOK, Waited
  <2> QED
    BY <1>1, <2>1, <2>2, <2>3 DEF Ahead, Waited
<1>5. CASE PutFrame /\ EncodeFrame
  <2>1. pc = "copy" /\ pc' = "get" /\ count' = count + 1 /\ UNCHANGED <<head, misled>>
    BY <1>5 DEF PutFrame, Goes, EncodeFrame
  <2>2. Freed' = Freed /\ Freed = count
    BY <1>2, <2>1 DEF Freed
  <2>3. SharedOK'
    BY <1>1, <2>1 DEF SharedOK
  <2> QED
    BY <1>1, <1>2, <2>1, <2>2, <2>3 DEF Ahead, Waited
<1>6. CASE (GetPacket \/ FramePacket) /\ EncodeFrame
  <2>1. /\ pc \in {"get", "send"} /\ pc' \in {"send", "advance"}
        /\ UNCHANGED <<count, head, misled>>
    BY <1>6 DEF GetPacket, FramePacket, Goes, EncodeFrame
  <2>2. Freed' = Freed
    BY <2>1 DEF Freed
  <2>3. SharedOK'
    BY <1>1, <2>1 DEF SharedOK
  <2> QED
    BY <1>1, <2>1, <2>2, <2>3 DEF Ahead, Waited
<1>7. CASE HeadAdvance
  <2>1. /\ pc = "advance" /\ pc' = "wrap" /\ head' = head + 1 /\ UNCHANGED <<count, misled>>
        /\ head # N
    BY <1>1, <1>7 DEF HeadAdvance, Turn, Goes, SharedOK
  <2>2. Freed' = Freed + 1 /\ Freed + 1 = count
    BY <1>2, <2>1 DEF Freed
  <2>3. SharedOK'
    BY <1>1, <1>2, <2>1 DEF SharedOK
  <2>4. head' % N = Freed' % N
    <3>1. head % N = head /\ head % N = Freed % N
      BY <1>1, <1>2, <2>1 DEF Ahead
    <3>2. ((Freed % N) + 1) % N = (Freed + 1) % N
      BY <1>2, Further
    <3> QED
      BY <2>1, <2>2, <3>1, <3>2
  <2> QED
    BY <1>1, <1>2, <2>1, <2>2, <2>3, <2>4 DEF Ahead, Waited
<1>8. CASE HeadWrap
  <2>1. pc = "wrap" /\ pc' = "wait" /\ head' = head % N /\ UNCHANGED <<count, misled>>
    BY <1>8 DEF HeadWrap, Turn, Goes
  <2>2. Freed' = Freed
    BY <2>1 DEF Freed
  <2>3. head' \in 0..N /\ head' # N /\ head' % N = head % N
    BY <1>2, <2>1, Reduced
  <2>4. SharedOK'
    BY <1>1, <2>1, <2>3 DEF SharedOK
  <2> QED
    BY <1>1, <2>1, <2>2, <2>3, <2>4 DEF Ahead, Waited
<1>9. CASE NextFrame
  <2>1. pc = "wait" /\ pc' = "copy" /\ FrameWaits /\ UNCHANGED <<count, head>>
    BY <1>9 DEF NextFrame, Turn, Goes
  <2>2. Freed' = Freed /\ Freed = count
    BY <2>1 DEF Freed
  <2>3. drawn > 0 /\ (misled => misled') /\ misled' \in BOOLEAN /\ (~misled' => count < drawn)
    BY <2>1, FrameFound
  <2>4. SharedOK'
    BY <1>1, <2>1, <2>3 DEF SharedOK
  <2> QED
    BY <1>1, <1>2, <2>1, <2>2, <2>3, <2>4 DEF Ahead
<1> QED
  BY <1>3, <1>4, <1>5, <1>6, <1>7, <1>8, <1>9
     DEF Encode, EncodeFrame, thread_encoder, encoder_data_init, encoder_run

\* What one thread keeps depends on its own variables.
LEMMA DecoderUntouched == DecoderInv /\ UNCHANGED outputVars => DecoderInv'
<1> SUFFICES ASSUME DecoderInv, UNCHANGED outputVars PROVE DecoderInv'
  OBVIOUS
<1> USE DEF DecoderInv, outputVars, decoderVars, frameVars
<1>1. OutputTypeOK'
  BY DEF OutputTypeOK, Used
<1>2. Change' /\ SetUp' /\ Counts' /\ Frames'
  BY DEF Change, SetUp, Counts, Frames, Mid, Whole
<1>3. Ring'
  BY DEF Ring
<1> QED
  BY <1>1, <1>2, <1>3

LEMMA EncoderUntouched == EncoderInv /\ UNCHANGED encodeVars => EncoderInv'
BY DEF EncoderInv, EncodeTypeOK, Encoding, HeaderSent, encodeVars

LEMMA Starts == Init => IInv
<1> SUFFICES ASSUME Init PROVE IInv
  OBVIOUS
<1>1. OutputTypeOK
  <2>1. Used = 0 /\ queue \in Seq({"info", "picture"})
    BY NoPictures DEF Init, OutputInit, Used, Queued
  <2>2. drawable \in [0..N-1 -> BOOLEAN]
    BY DEF Init, OutputInit
  <2>3. 0 \in 0..MaxPictures /\ 0 \in 0..Memory /\ 0 <= Limit /\ 0 \in Nat
    BY SizesAssumption
  <2>4. /\ decoded = 0 /\ announced = FALSE /\ waits = FALSE
        /\ output = "get" /\ frame = "none" /\ frm_grp = FALSE /\ attached = FALSE
        /\ allocated = 0 /\ drawn = 0 /\ changes = 0 /\ failed = FALSE
    BY DEF Init, OutputInit
  <2> QED
    <3>1. fresh = 0 /\ tail = 0 /\ 0 \in 0..N-1 /\ 0 \in 0..N /\ 0 # N
      BY SizesAssumption DEF Init, OutputInit
    <3> QED
      BY <2>1, <2>2, <2>3, <2>4, <3>1 DEF OutputTypeOK
<1>2. Change /\ SetUp /\ Counts /\ Frames /\ Ring
  <2>1. Len(queue) = 0 /\ Pictures(queue) = 0
    BY NoPictures, EmptySeq DEF Init, OutputInit
  <2>2. Change
    BY <2>1 DEF Init, OutputInit, Change, Waiting
  <2>3. SetUp /\ Counts
    BY <2>1 DEF Init, OutputInit, SetUp, Counts
  <2>4. Whole = 0 /\ fresh = 0 /\ allocated = 0
    BY DEF Init, OutputInit, Whole, Mid
  <2>5. 0 = (0 * N) + 0 /\ \A i \in 0..N-1 : i >= 0
    BY SizesAssumption
  <2>6. Frames
    BY <2>4, <2>5 DEF Frames
  <2>7. Ring
    BY DEF Init, OutputInit, Ring
  <2> QED
    BY <2>2, <2>3, <2>6, <2>7
<1>3. EncodeTypeOK /\ Encoding
  <2>1. 0 \in 0..MaxFrames
    BY FramesAssumption
  <2>2. EncodeInit
    BY DEF Init
  <2>3. EncodeTypeOK
    <3>1. /\ pc = "calloc" /\ encoder = "null" /\ header = FALSE
          /\ count = 0 /\ accepted = 0 /\ packet = 0 /\ sent = 0 /\ bare = FALSE
      BY <2>2 DEF EncodeInit
    <3>2. 0 \in 0..1
      OBVIOUS
    <3> QED
      BY <2>1, <3>1, <3>2 DEF EncodeTypeOK
  <2>4. Encoding
    BY <2>2 DEF EncodeInit, Encoding, HeaderSent
  <2> QED
    BY <2>3, <2>4
<1>4. Ahead /\ SharedOK
  <2>1. /\ pc = "calloc" /\ count = 0 /\ drawn = 0 /\ head = 0 /\ misled = FALSE /\ output = "get"
        /\ Freed = 0
    BY DEF Init, OutputInit, EncodeInit, Freed
  <2>2. 0 <= 0 /\ 0 - 0 < N /\ 0 \in 0..N /\ 0 # N
    BY SizesAssumption
  <2>3. pc \notin Waited
    BY <2>1 DEF Waited
  <2> QED
    BY <2>1, <2>2, <2>3 DEF Ahead, SharedOK
<1> QED
  BY <1>1, <1>2, <1>3, <1>4 DEF IInv, DecoderInv, EncoderInv

\* The invariants of the two threads, and what the ring makes of them.
THEOREM Inductive == Spec => []IInv
<1>1. IInv /\ [Next]_vars => IInv'
  <2> SUFFICES ASSUME IInv, [Next]_vars PROVE IInv'
    OBVIOUS
  <2>1. CASE Output
    BY <2>1, DecoderKeeps, EncoderUntouched, LeadGrows DEF IInv, Output
  <2>2. CASE Encode
    <3>1. UNCHANGED outputVars
      BY <2>2 DEF Encode, EncodeFrame, HeadAdvance, HeadWrap, NextFrame, Turn
    <3> QED
      BY <2>2, <3>1, EncoderKeeps, DecoderUntouched, LeadShrinks DEF IInv
  <2>3. CASE UNCHANGED vars
    <3>1. UNCHANGED <<outputVars, encodeVars, head, misled>>
      BY <2>3 DEF vars
    <3>2. Ahead' /\ SharedOK'
      BY <3>1 DEF IInv, Ahead, SharedOK, Freed, Waited, outputVars, encodeVars
    <3> QED
      BY <3>1, <3>2, DecoderUntouched, EncoderUntouched DEF IInv
  <2> QED
    BY <2>1, <2>2, <2>3 DEF Next, Idle
<1> QED
  BY <1>1, Starts, PTL DEF Spec

\* Every variable has its type: the decoder never uses more buffers than the limit
\* of its group, and an index is BUFFER_SIZE only between its own two stores
\* (mpi_decoder.c:404-409, main.c:150-151, 258-259).
THEOREM TypeCorrect == Spec => []TypeOK
<1>1. IInv => TypeOK
  BY DEF IInv, DecoderInv, EncoderInv, SharedOK, TypeOK
<1> QED
  BY <1>1, Inductive, PTL

\* Pictures are decoded into the group that decoder_run has made, also after it
\* has failed half way, and drawn in frames that have memory, as long as there is
\* enough for those that the changes of the size leave behind.  The frame that is
\* encoded has none only between the two calls that replace it (mpi_decoder.c:375-416,
\* main.c:83-153, 226-270; mpi_frame_init.c:40-61).
THEOREM InMemory == Spec => []PicturesInMemory
<1>1. IInv => DecodesIntoGroup
  BY DEF IInv, DecoderInv, SetUp, DecodesIntoGroup
<1>2. IInv => FramesDrawable
  BY DEF IInv, DecoderInv, SetUp, Frames, FramesDrawable
<1>3. IInv => EncodesMemory
  <2> SUFFICES ASSUME IInv, pc = "copy", changes * N <= Memory
               PROVE  drawable[head] \/ (output = "buffer" /\ fresh = head)
    BY DEF EncodesMemory
  <2>1. Whole > 0
    BY DEF IInv, Ahead, DecoderInv, SetUp
  <2>2. \A i \in 0..N-1 :
          drawable[i] \/ (Whole = 0 /\ i >= fresh) \/ (output = "buffer" /\ i = fresh)
    BY DEF IInv, DecoderInv, Frames
  <2>3. head \in 0..N-1
    BY SizesAssumption DEF IInv, SharedOK
  <2> QED
    BY <2>1, <2>2, <2>3
<1> QED
  BY <1>1, <1>2, <1>3, Inductive, PTL DEF PicturesInMemory

\* One packet for each picture that was put, with the parameter sets unless the
\* encoder did not give them, and, until a check of head and tail is misled, never
\* one that was not drawn (mpi_encoder.c:239-291, main.c:91-153, 226-270).
THEOREM Fits == Spec => []PacketsFit
<1>1. IInv => InStep /\ HeaderSent
  BY DEF IInv, EncoderInv, Encoding, InStep
<1>2. IInv => KeepsBehind
  <2> SUFFICES ASSUME IInv, ~misled PROVE sent <= drawn /\ drawn - sent < N
    BY DEF KeepsBehind
  <2>1. count <= drawn /\ drawn - Freed < N
    BY DEF IInv, Ahead
  <2>2. Freed <= sent /\ sent <= count
    BY SharedTypes DEF IInv, EncoderInv, EncodeTypeOK, Encoding, Freed
  <2> QED
    BY <2>1, <2>2, SharedTypes
<1> QED
  BY <1>1, <1>2, Inductive, PTL DEF PacketsFit

\* After a failure in decoder_run no picture of a new size is decoded, and after
\* a frame that the encoder did not accept no other one is put
\* (mpi_decoder.c:383-440, mpi_encoder.c:262-276).
THEOREM NoSecondChance == Spec => FailuresAreFinal
<1>1. IInv /\ [Next]_vars => [failed => decoded' = decoded]_outputVars
  <2> SUFFICES ASSUME IInv, [Next]_vars, failed, decoded' # decoded PROVE FALSE
    OBVIOUS
  <2>1. ~UNCHANGED outputVars
    BY DEF outputVars, decoderVars
  <2>2. Output
    BY <2>1 DEF Next, Encode, EncodeFrame, HeadAdvance, HeadWrap, NextFrame, Turn, Idle, vars
  <2> QED
    BY <2>2, NothingDecoded DEF IInv, Output
<1>2. IInv /\ [Next]_vars => [count' # count => "put_frame" \notin errors]_encodeVars
  <2> SUFFICES ASSUME IInv, [Next]_vars, count' # count, "put_frame" \in errors PROVE FALSE
    OBVIOUS
  <2>1. ~UNCHANGED encodeVars
    BY DEF encodeVars
  <2>2. thread_encoder
    BY <2>1 DEF Next, Output, Idle, Encode, EncodeFrame, HeadAdvance, HeadWrap, NextFrame, Turn,
                encodeVars, vars
  <2>3. pc = "get" /\ accepted = 0
    BY DEF IInv, EncoderInv, Encoding
  <2> QED
    BY <2>2, <2>3 DEF thread_encoder, encoder_data_init, Calloc, Create, MppInit,
       Configure, encoder_get_header, Crashes, GetHeader, encoder_run, PutFrame,
       GetPacket, FramePacket, Goes
<1> QED
  BY <1>1, <1>2, Inductive, PTL DEF Spec, FailuresAreFinal, StopsForGood, StuckAfterFailure
=============================================================================
