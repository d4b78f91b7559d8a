----------------------------- MODULE GnTcpProof -----------------------------
(***************************************************************************)
(* TLAPS proofs about GnTcp, for every number N >= 2 of slots and every    *)
(* bound MaxPuts.                                                          *)
(***************************************************************************)
EXTENDS GnTcp, Sequences, TLAPS

\* The indices: % N on what an index can be while it is not reduced.
LEMMA ModN ==
  ASSUME NEW i \in 0..N
  PROVE  i % N = Wrap(i, N) /\ i % N \in 0..N-1
BY NAssumption DEF Wrap

LEMMA OtherInStream ==
  ASSUME NEW s \in Stream
  PROVE  Other(s) \in Stream /\ Other(s) # s
<1>1. \E t \in Stream : t # s
  BY DEF Stream
<1> QED
  BY <1>1 DEF Other

\* A step of Next is a step of one thread on one stream, or of the client.
LEMMA StepCases ==
  ASSUME NEW P, [Next]_vars,
         \A s \in Stream : Put(s) => P,
         \A s \in Stream : Send(s) => P,
         ClientStalls \/ ClientResumes \/ ClientLeaves => P,
         UNCHANGED vars => P
  PROVE  P
BY DEF Next, gn_tcp_put, gn_tcp_audio_put, rtp_sender, gn_tcp_send,
       gn_tcp_audio_send, Exited, Stream

LEMMA UpdateType ==
  ASSUME NEW S, NEW T, NEW f \in [S -> T], NEW s \in S, NEW v \in T
  PROVE  [f EXCEPT ![s] = v] \in [S -> T]
OBVIOUS

-----------------------------------------------------------------------------
LEMMA TypeInit == Init => TypeOK
BY NAssumption DEF Init, TypeOK, Stream

\* The types of one stream's variables.
LEMMA Typed ==
  ASSUME TypeOK, NEW s \in Stream
  PROVE  /\ head[s] \in 0..N /\ tail[s] \in 0..N
         /\ slot[s] \in [0..N-1 -> Nat]
         /\ put[s] \in Nat /\ sent[s] \in Nat /\ wire[s] \in Nat
         /\ putter[s] # "wrap" => tail[s] \in 0..N-1
         /\ ~(sender = "wrap" /\ turn = s) => head[s] \in 0..N-1
<1>1. /\ head[s] \in 0..N /\ tail[s] \in 0..N
      /\ slot[s] \in [0..N-1 -> Nat]
      /\ put[s] \in Nat /\ sent[s] \in Nat /\ wire[s] \in Nat
  BY DEF TypeOK
<1>2. /\ tail[s] = N => putter[s] = "wrap"
      /\ head[s] = N => sender = "wrap" /\ turn = s
  BY DEF TypeOK
<1>3. \A i \in 0..N : i # N => i \in 0..N-1
  BY NAssumption
<1> QED
  BY <1>1, <1>2, <1>3

LEMMA TypePut ==
  ASSUME TypeOK, NEW s \in Stream, Put(s)
  PROVE  TypeOK'
<1> USE NAssumption
<1>1. CASE PutFull(s)
  BY <1>1 DEF PutFull, TypeOK, At
<1>2. CASE PutBegin(s)
  BY <1>2 DEF PutBegin, TypeOK, At
<1>3. CASE PutCopy(s)
  <2> DEFINE row == [slot[s] EXCEPT ![tail[s]] = put[s] + 1]
  <2>1. row \in [0..N-1 -> Nat]
    <3>1. putter[s] = "copy"
      BY <1>3 DEF PutCopy, At
    <3>2. slot[s] \in [0..N-1 -> Nat] /\ tail[s] \in 0..N-1 /\ put[s] + 1 \in Nat
      BY <3>1, Typed
    <3> QED
      BY <3>2, UpdateType
  <2>2. slot \in [Stream -> [0..N-1 -> Nat]] /\ slot' = [slot EXCEPT ![s] = row]
    BY <1>3 DEF PutCopy, TypeOK
  <2>3. slot' \in [Stream -> [0..N-1 -> Nat]]
    BY <2>1, <2>2, UpdateType
  <2> QED
    BY <1>3, <2>3 DEF PutCopy, TypeOK, At
<1>4. CASE PutAdvance(s)
  <2>1. tail[s] + 1 \in 0..N /\ put[s] + 1 \in Nat
    <3>1. putter[s] = "advance"
      BY <1>4 DEF PutAdvance, At
    <3> QED
      BY <3>1, Typed
  <2>2. /\ tail \in [Stream -> 0..N] /\ tail' = [tail EXCEPT ![s] = tail[s] + 1]
        /\ put \in [Stream -> Nat] /\ put' = [put EXCEPT ![s] = put[s] + 1]
    BY <1>4 DEF PutAdvance, TypeOK
  <2>3. tail' \in [Stream -> 0..N] /\ put' \in [Stream -> Nat]
    BY <2>1, <2>2, UpdateType
  <2> QED
    BY <1>4, <2>2, <2>3 DEF PutAdvance, TypeOK, At
<1>5. CASE PutWrap(s)
  <2>1. tail[s] % N \in 0..N-1
    BY ModN, Typed
  <2>2. tail \in [Stream -> 0..N] /\ tail' = [tail EXCEPT ![s] = tail[s] % N]
    BY <1>5 DEF PutWrap, TypeOK
  <2>3. tail' \in [Stream -> 0..N] /\ tail'[s] # N
    BY <2>1, <2>2, UpdateType
  <2> QED
    BY <1>5, <2>2, <2>3 DEF PutWrap, TypeOK, At
<1> QED
  BY <1>1, <1>2, <1>3, <1>4, <1>5 DEF Put

LEMMA TypeSend ==
  ASSUME TypeOK, NEW s \in Stream, Send(s)
  PROVE  TypeOK'
<1> USE NAssumption
<1>1. CASE SendEmpty(s)
  BY <1>1, OtherInStream DEF SendEmpty, TypeOK, Sending
<1>2. CASE SendBegin(s)
  <2>1. slot[s][head[s]] \in Nat
    BY <1>2 DEF SendBegin, TypeOK, Sending
  <2>2. pts' \in [Stream -> Nat]
    BY <1>2, <2>1, UpdateType DEF SendBegin, TypeOK
  <2> QED
    BY <1>2, <2>2 DEF SendBegin, TypeOK, Sending
<1>3. CASE SendData(s)
  <2> DEFINE count == IF sent[s] > MaxPuts[s] THEN sent[s] ELSE sent[s] + 1
  <2>1. slot[s][head[s]] \in Nat /\ count \in Nat
    BY <1>3, PutsAssumption DEF SendData, TypeOK, Sending
  <2>2. /\ wire \in [Stream -> Nat] /\ wire' = [wire EXCEPT ![s] = slot[s][head[s]]]
        /\ sent \in [Stream -> Nat] /\ sent' = [sent EXCEPT ![s] = count]
    BY <1>3 DEF SendData, TypeOK
  <2>3. wire' \in [Stream -> Nat] /\ sent' \in [Stream -> Nat]
    BY <2>1, <2>2, UpdateType
  <2> QED
    BY <1>3, <2>3 DEF SendData, TypeOK, Sending
<1>4. CASE SendFail(s)
  BY <1>4 DEF SendFail, ringVars, TypeOK
<1>5. CASE SendAdvance(s)
  <2>1. head[s] + 1 \in 0..N
    BY <1>5 DEF SendAdvance, TypeOK, Sending
  <2>2. head' \in [Stream -> 0..N]
    BY <1>5, <2>1, UpdateType DEF SendAdvance, TypeOK
  <2> QED
    BY <1>5, <2>2 DEF SendAdvance, TypeOK, Sending
<1>6. CASE SendWrap(s)
  <2>1. head[s] % N \in 0..N-1
    BY ModN, Typed
  <2>2. head \in [Stream -> 0..N] /\ head' = [head EXCEPT ![s] = head[s] % N]
    BY <1>6 DEF SendWrap, TypeOK
  <2>3. head' \in [Stream -> 0..N] /\ head'[s] # N
    BY <2>1, <2>2, UpdateType
  <2>4. turn' \in Stream
    BY <1>6, OtherInStream DEF SendWrap
  <2> QED
    BY <1>6, <2>2, <2>3, <2>4 DEF SendWrap, TypeOK, Sending
<1> QED
  BY <1>1, <1>2, <1>3, <1>4, <1>5, <1>6 DEF Send

LEMMA TypeClient ==
  ASSUME TypeOK, ClientStalls \/ ClientResumes \/ ClientLeaves
  PROVE  TypeOK'
BY DEF TypeOK, ClientStalls, ClientResumes, ClientLeaves, Client, ringVars

LEMMA TypeStep == TypeOK /\ [Next]_vars => TypeOK'
<1> SUFFICES ASSUME TypeOK, [Next]_vars PROVE TypeOK'
  OBVIOUS
<1>1. UNCHANGED vars => TypeOK'
  BY DEF vars, TypeOK
<1> QED
  BY <1>1, TypePut, TypeSend, TypeClient, StepCases

\* Every reachable state is well typed; in particular an index of a ring is
\* at most N, and N only while its thread is between "++" and "%=".
THEOREM TypeCorrect == Spec => []TypeOK
<1> QED
  BY TypeInit, TypeStep, PTL DEF Spec
-----------------------------------------------------------------------------
(***************************************************************************)
(* The inductive invariant.  InOrder says nothing of the packets that are  *)
(* still in the ring, so it is not inductive; Sound says where they are.   *)
(***************************************************************************)

\* Slots in use: the packets still to be sent, and the one whose send() is
\* done but whose slot tcp_head++ has not released.
Releasing(s) == turn = s /\ sender = "advance"
Held(s) == IF Releasing(s) THEN Pending(s) + 1 ELSE Pending(s)

Counts(s) ==
  /\ sent[s] <= put[s] /\ put[s] <= MaxPuts[s]
  /\ Held(s) <= N - 1
  /\ putter[s] \in {"copy", "advance"} => Held(s) <= N - 2 /\ put[s] < MaxPuts[s]
  /\ sender = "send" /\ turn = s => sent[s] < put[s]
  /\ wire[s] = sent[s]

\* The pending packets lie in order from First(s) up to the tail, and the
\* packet that has been copied but not counted lies at the tail.
Layout(s) ==
  /\ Wrap(tail[s], N) = Wrap(First(s) + Pending(s), N)
  /\ \A j \in 0..Pending(s)-1 : slot[s][Wrap(First(s) + j, N)] = sent[s] + 1 + j
  /\ putter[s] = "advance" => slot[s][tail[s]] = put[s] + 1

Sound(s) == raced[s] \/ (Counts(s) /\ Layout(s))

\* On the first lap the sender stays behind the tail; later every slot has
\* been written.
FirstLap(s) ==
  /\ head[s] <= tail[s] /\ tail[s] <= N - 1
  /\ (sender \in {"send", "advance"} /\ turn = s) => head[s] < tail[s]
  /\ putter[s] = "advance" => slot[s][tail[s]] # 0
  /\ \A i \in 0..N-1 : i < tail[s] => slot[s][i] # 0

Written(s) == (\A i \in 0..N-1 : slot[s][i] # 0) \/ FirstLap(s)

IInv == TypeOK /\ \A s \in Stream : Sound(s) /\ Written(s)

LEMMA InvInit == Init => IInv
<1> SUFFICES ASSUME Init PROVE IInv
  OBVIOUS
<1>1. TypeOK
  BY TypeInit
<1>2. ASSUME NEW s \in Stream PROVE Sound(s) /\ Written(s)
  <2>1. /\ head[s] = 0 /\ tail[s] = 0 /\ put[s] = 0 /\ sent[s] = 0 /\ wire[s] = 0
        /\ putter[s] = "idle" /\ sender = "check"
    BY DEF Init
  <2>2. Pending(s) = 0 /\ First(s) = 0 /\ Held(s) = 0
    BY <2>1 DEF Pending, First, Held, Releasing
  <2>3. Counts(s)
    BY <2>1, <2>2, NAssumption, PutsAssumption DEF Counts
  <2>4. Layout(s)
    BY <2>1, <2>2, NAssumption DEF Layout, Wrap
  <2>5. Written(s)
    BY <2>1, NAssumption DEF Written, FirstLap
  <2> QED
    BY <2>3, <2>4, <2>5 DEF Sound
<1> QED
  BY <1>1, <1>2 DEF IInv

\* What a step on stream s leaves alone of another stream t.
LEMMA Elsewhere ==
  ASSUME TypeOK, NEW s \in Stream, NEW t \in Stream, t # s, Put(s) \/ Send(s)
  PROVE  /\ head'[t] = head[t] /\ tail'[t] = tail[t] /\ slot'[t] = slot[t]
         /\ put'[t] = put[t] /\ sent'[t] = sent[t] /\ wire'[t] = wire[t]
         /\ raced'[t] = raced[t] /\ putter'[t] = putter[t]
         /\ \/ turn' = turn /\ sender' = sender
            \/ turn # t /\ (turn' = t => sender' = "check")
<1>1. CASE Put(s)
  <2>1. CASE PutFull(s)
    BY <2>1 DEF PutFull, At, TypeOK
  <2>2. CASE PutBegin(s)
    BY <2>2 DEF PutBegin, At, TypeOK
  <2>3. CASE PutCopy(s)
    BY <2>3 DEF PutCopy, At, TypeOK
  <2>4. CASE PutAdvance(s)
    BY <2>4 DEF PutAdvance, At, TypeOK
  <2>5. CASE PutWrap(s)
    BY <2>5 DEF PutWrap, At, TypeOK
  <2> QED
    BY <1>1, <2>1, <2>2, <2>3, <2>4, <2>5 DEF Put
<1>2. CASE Send(s)
  <2>1. CASE SendEmpty(s)
    BY <2>1 DEF SendEmpty, Sending, TypeOK
  <2>2. CASE SendBegin(s)
    BY <2>2 DEF SendBegin, Sending, TypeOK
  <2>3. CASE SendData(s)
    BY <2>3 DEF SendData, Sending, TypeOK
  <2>4. CASE SendFail(s)
    BY <2>4 DEF SendFail, ringVars, TypeOK
  <2>5. CASE SendAdvance(s)
    BY <2>5 DEF SendAdvance, Sending, TypeOK
  <2>6. CASE SendWrap(s)
    BY <2>6 DEF SendWrap, Sending, TypeOK
  <2> QED
    BY <1>2, <2>1, <2>2, <2>3, <2>4, <2>5, <2>6 DEF Send
<1> QED
  BY <1>1, <1>2

LEMMA KeptElsewhere ==
  ASSUME NEW t \in Stream, Sound(t), Written(t),
         head'[t] = head[t], tail'[t] = tail[t], slot'[t] = slot[t],
         put'[t] = put[t], sent'[t] = sent[t], wire'[t] = wire[t],
         raced'[t] = raced[t], putter'[t] = putter[t],
         \/ turn' = turn /\ sender' = sender
         \/ turn # t /\ (turn' = t => sender' = "check")
  PROVE  Sound(t)' /\ Written(t)'
<1>1. (sender' = "send" /\ turn' = t) <=> (sender = "send" /\ turn = t)
  OBVIOUS
<1>2. (sender' = "advance" /\ turn' = t) <=> (sender = "advance" /\ turn = t)
  OBVIOUS
<1>3. First(t)' = First(t) /\ Pending(t)' = Pending(t) /\ Held(t)' = Held(t)
  BY <1>2 DEF First, Pending, Held, Releasing
<1>4. Sound(t)'
  BY <1>1, <1>3 DEF Sound, Counts, Layout
<1>5. Written(t)'
  BY <1>1, <1>2 DEF Written, FirstLap
<1> QED
  BY <1>4, <1>5

-----------------------------------------------------------------------------
\* Written: a slot is never handed to send() before a memcpy has filled it.
LEMMA WrittenPut ==
  ASSUME TypeOK, NEW s \in Stream, Written(s), Put(s)
  PROVE  Written(s)'
<1>0. turn' = turn /\ sender' = sender
  BY DEF Put, PutFull, PutBegin, PutCopy, PutAdvance, PutWrap, At
<1>1. CASE PutFull(s) \/ PutBegin(s)
  <2>1. head' = head /\ tail' = tail /\ slot' = slot /\ putter'[s] # "advance"
    BY <1>1 DEF PutFull, PutBegin, At, TypeOK
  <2> QED
    BY <1>0, <2>1 DEF Written, FirstLap
<1>2. CASE PutCopy(s)
  <2>1. putter[s] = "copy" /\ head' = head /\ tail' = tail
    BY <1>2 DEF PutCopy, At
  <2>2. tail[s] \in 0..N-1 /\ slot[s] \in [0..N-1 -> Nat] /\ put[s] + 1 # 0
    BY <2>1, Typed
  <2>3. slot'[s] = [slot[s] EXCEPT ![tail[s]] = put[s] + 1]
    BY <1>2 DEF PutCopy, TypeOK
  <2>4. \A i \in 0..N-1 : slot[s][i] # 0 => slot'[s][i] # 0
    BY <2>2, <2>3
  <2>5. slot'[s][tail[s]] # 0
    BY <2>2, <2>3
  <2> QED
    BY <1>0, <2>1, <2>4, <2>5 DEF Written, FirstLap
<1>3. CASE PutAdvance(s)
  <2>1. /\ putter[s] = "advance" /\ putter'[s] = "wrap" /\ head' = head
        /\ slot' = slot /\ tail'[s] = tail[s] + 1
    BY <1>3 DEF PutAdvance, At, TypeOK
  <2>2. tail[s] \in 0..N-1 /\ head[s] \in 0..N
    BY <2>1, Typed
  <2>3. CASE \A i \in 0..N-1 : slot[s][i] # 0
    BY <2>1, <2>3 DEF Written
  <2>4. CASE FirstLap(s)
    <3>1. \A i \in 0..N-1 : i < tail[s] + 1 => slot[s][i] # 0
      BY <2>1, <2>2, <2>4 DEF FirstLap
    <3>2. CASE tail[s] = N - 1
      BY <2>1, <3>1, <3>2, NAssumption DEF Written
    <3>3. CASE tail[s] # N - 1
      BY <1>0, <2>1, <2>2, <2>4, <3>1, <3>3, NAssumption DEF Written, FirstLap
    <3> QED
      BY <3>2, <3>3
  <2> QED
    BY <2>3, <2>4 DEF Written
<1>4. CASE PutWrap(s)
  <2>1. /\ putter'[s] = "idle" /\ head' = head /\ slot' = slot
        /\ tail'[s] = tail[s] % N
    BY <1>4 DEF PutWrap, At, TypeOK
  <2>2. tail[s] \in 0..N - 1 => tail'[s] = tail[s]
    BY <2>1, ModN, NAssumption DEF Wrap
  <2>3. tail[s] \in 0..N
    BY Typed
  <2> QED
    BY <1>0, <2>1, <2>2, <2>3, NAssumption DEF Written, FirstLap
<1> QED
  BY <1>1, <1>2, <1>3, <1>4 DEF Put

LEMMA WrittenSend ==
  ASSUME TypeOK, NEW s \in Stream, Written(s), Send(s)
  PROVE  Written(s)'
<1>0. tail' = tail /\ slot' = slot /\ putter' = putter
  BY DEF Send, SendEmpty, SendBegin, SendData, SendFail, SendAdvance, SendWrap,
         Sending, ringVars
<1>1. SUFFICES ASSUME FirstLap(s) PROVE FirstLap(s)'
  BY <1>0 DEF Written
<1>2. head[s] \in 0..N /\ tail[s] \in 0..N
  BY Typed
<1>3. CASE SendEmpty(s) \/ SendFail(s)
  BY <1>0, <1>1, <1>3 DEF SendEmpty, SendFail, Sending, FirstLap, ringVars
<1>4. CASE SendBegin(s)
  <2>1. head' = head /\ head[s] # tail[s]
    BY <1>4 DEF SendBegin
  <2> QED
    BY <1>0, <1>1, <1>2, <2>1 DEF FirstLap
<1>5. CASE SendData(s)
  BY <1>0, <1>1, <1>5 DEF SendData, Sending, FirstLap
<1>6. CASE SendAdvance(s)
  <2>1. /\ head'[s] = head[s] + 1 /\ sender = "advance" /\ turn = s
        /\ sender' = "wrap"
    BY <1>6 DEF SendAdvance, Sending, TypeOK
  <2> QED
    BY <1>0, <1>1, <1>2, <2>1 DEF FirstLap
<1>7. CASE SendWrap(s)
  <2>1. head'[s] = head[s] % N /\ sender' = "check"
    BY <1>7 DEF SendWrap, Sending, TypeOK
  <2>2. head[s] <= N - 1
    BY <1>1, <1>2, NAssumption DEF FirstLap
  <2>3. head'[s] = head[s]
    BY <1>2, <2>1, <2>2, ModN, NAssumption DEF Wrap
  <2> QED
    BY <1>0, <1>1, <2>1, <2>3 DEF FirstLap
<1> QED
  BY <1>3, <1>4, <1>5, <1>6, <1>7 DEF Send

-----------------------------------------------------------------------------
(***************************************************************************)
(* Sound: arithmetic first, for indices f (First), t (tail) and a number k *)
(* of packets, so that the steps below need no arithmetic of their own.    *)
(***************************************************************************)
LEMMA WrapNat ==
  ASSUME NEW i \in 0..N, NEW k \in 0..N-1
  PROVE  /\ Wrap(i + k, N) \in 0..N-1
         /\ Wrap(Wrap(i, N) + k, N) = Wrap(i + k, N)
         /\ k < N - 1 => Wrap(Wrap(i + k, N) + 1, N) = Wrap(i + k + 1, N)
BY NAssumption DEF Wrap

\* Different positions of one lap are different slots.
LEMMA WrapInjective ==
  ASSUME NEW i \in 0..N, NEW j \in 0..N-1, NEW k \in 0..N-1, j # k
  PROVE  Wrap(i + j, N) # Wrap(i + k, N)
BY NAssumption DEF Wrap

\* If the ring does not look full, fewer than N-1 slots are in use: h is the
\* head, k the slots in use from it on.
LEMMA NotFull ==
  ASSUME NEW h \in 0..N, NEW t \in 0..N-1, NEW k \in 0..N-1,
         t = Wrap(h + k, N), h # (t + 1) % N, ~(h = N /\ t = N - 1)
  PROVE  k <= N - 2
<1>1. t + 1 \in 0..N
  BY NAssumption
<1>2. (t + 1) % N = Wrap(t + 1, N)
  BY <1>1, ModN
<1> QED
  BY <1>2, NAssumption DEF Wrap

\* If the ring does not look empty, a packet is pending.
LEMMA NotEmpty ==
  ASSUME NEW h \in 0..N-1, NEW t \in 0..N, NEW k \in 0..N-1,
         Wrap(t, N) = Wrap(h + k, N), h # t, ~(h = 0 /\ t = N)
  PROVE  k > 0
BY NAssumption DEF Wrap

\* What the counts and the layout say, with types.
LEMMA Facts ==
  ASSUME TypeOK, NEW s \in Stream, Counts(s), Layout(s)
  PROVE  /\ First(s) \in 0..N /\ Pending(s) \in 0..N-1
         /\ Held(s) \in Pending(s)..N-1
         /\ head[s] \in 0..N /\ tail[s] \in 0..N
         /\ put[s] \in Nat /\ sent[s] \in Nat /\ wire[s] \in Nat
         /\ MaxPuts[s] \in Nat
         /\ slot[s] \in [0..N-1 -> Nat]
         /\ Wrap(tail[s], N) = Wrap(head[s] + Held(s), N)
<1>1. /\ head[s] \in 0..N /\ tail[s] \in 0..N
      /\ slot[s] \in [0..N-1 -> Nat]
      /\ put[s] \in Nat /\ sent[s] \in Nat /\ wire[s] \in Nat
  BY Typed
<1>2. MaxPuts[s] \in Nat
  BY PutsAssumption
<1>3. Pending(s) \in Nat
  BY <1>1 DEF Counts, Pending
<1>4. CASE Releasing(s)
  <2>1. First(s) = head[s] + 1 /\ Held(s) = Pending(s) + 1
    BY <1>4 DEF First, Held, Releasing
  <2>2. head[s] \in 0..N-1
    BY <1>4, Typed DEF Releasing
  <2>3. Held(s) <= N - 1 /\ Wrap(tail[s], N) = Wrap(First(s) + Pending(s), N)
    BY DEF Counts, Layout
  <2>4. First(s) + Pending(s) = head[s] + Held(s)
    BY <1>1, <1>3, <2>1
  <2>5. First(s) \in 0..N /\ Pending(s) \in 0..N-1 /\ Held(s) \in Pending(s)..N-1
    BY <1>3, <2>1, <2>2, <2>3, NAssumption
  <2> QED
    BY <1>1, <1>2, <2>3, <2>4, <2>5
<1>5. CASE ~Releasing(s)
  <2>1. First(s) = head[s] /\ Held(s) = Pending(s)
    BY <1>5 DEF First, Held, Releasing
  <2>3. Held(s) <= N - 1 /\ Wrap(tail[s], N) = Wrap(First(s) + Pending(s), N)
    BY DEF Counts, Layout
  <2> QED
    BY <1>1, <1>2, <1>3, <2>1, <2>3, NAssumption
<1> QED
  BY <1>4, <1>5

LEMMA SoundPut ==
  ASSUME TypeOK, NEW s \in Stream, Sound(s), Put(s)
  PROVE  Sound(s)'
<1>0. turn' = turn /\ sender' = sender /\ head' = head /\ sent' = sent /\ wire' = wire
  BY DEF Put, PutFull, PutBegin, PutCopy, PutAdvance, PutWrap, At
<1>1. raced[s] => raced'[s]
  BY DEF Put, PutFull, PutBegin, PutCopy, PutAdvance, PutWrap, TypeOK
<1>2. SUFFICES ASSUME Counts(s), Layout(s), ~raced'[s]
               PROVE  Counts(s)' /\ Layout(s)'
  BY <1>1 DEF Sound
<1> DEFINE F == First(s)
           P == Pending(s)
           H == Held(s)
<1>3. First(s)' = F
  BY <1>0 DEF First
<1>4. /\ F \in 0..N /\ P \in 0..N-1 /\ H \in P..N-1
      /\ tail[s] \in 0..N /\ put[s] \in Nat /\ sent[s] \in Nat
      /\ MaxPuts[s] \in Nat /\ slot[s] \in [0..N-1 -> Nat]
  BY <1>2, Facts
<1>5. put'[s] = put[s] => Pending(s)' = P /\ Held(s)' = H
  BY <1>0 DEF Pending, Held, Releasing
<1>6. CASE PutFull(s)
  <2>1. tail' = tail /\ slot' = slot /\ put' = put /\ putter'[s] = "stuck"
    BY <1>6 DEF PutFull, At, TypeOK
  <2> QED
    BY <1>0, <1>2, <1>3, <1>5, <2>1 DEF Counts, Layout
<1>7. CASE PutBegin(s)
  <2>1. /\ tail' = tail /\ slot' = slot /\ put' = put /\ putter'[s] = "copy"
        /\ put[s] < MaxPuts[s] /\ putter[s] = "idle" /\ ~Full(s)
        /\ ~(head[s] = N /\ tail[s] = N - 1)
    BY <1>2, <1>7 DEF PutBegin, At, TypeOK
  <2>2. tail[s] \in 0..N-1 /\ head[s] \in 0..N
    BY <2>1, Typed
  <2>3. tail[s] = Wrap(head[s] + H, N)
    <3>1. Wrap(tail[s], N) = Wrap(head[s] + H, N)
      BY <1>2, Facts
    <3>2. Wrap(tail[s], N) = tail[s]
      BY <2>2, NAssumption DEF Wrap
    <3> QED
      BY <3>1, <3>2
  <2>4. H \in 0..N-1 /\ head[s] # (tail[s] + 1) % N
    BY <1>4, <2>1 DEF Full
  <2>5. H <= N - 2
    BY <2>1, <2>2, <2>3, <2>4, NotFull
  <2>6. Counts(s)'
    BY <1>0, <1>2, <1>5, <2>1, <2>5 DEF Counts
  <2>7. Layout(s)'
    BY <1>0, <1>2, <1>3, <1>5, <2>1 DEF Layout
  <2> QED
    BY <2>6, <2>7
<1>8. CASE PutCopy(s)
  <2>1. /\ tail' = tail /\ put' = put /\ putter[s] = "copy" /\ putter'[s] = "advance"
        /\ slot'[s] = [slot[s] EXCEPT ![tail[s]] = put[s] + 1]
    BY <1>8 DEF PutCopy, At, TypeOK
  <2>2. tail[s] \in 0..N-1
    BY <2>1, Typed
  <2>3. P <= N - 2
    BY <1>2, <1>4, <2>1, NAssumption DEF Counts
  <2>4. tail[s] = Wrap(F + P, N)
    BY <1>2, <2>2, NAssumption DEF Layout, Wrap
  <2>5. ASSUME NEW j \in 0..P-1
        PROVE  slot'[s][Wrap(F + j, N)] = slot[s][Wrap(F + j, N)]
    <3>1. j \in 0..N-1 /\ j # P
      BY <1>4, NAssumption
    <3>2. Wrap(F + j, N) # tail[s]
      BY <1>4, <2>4, <3>1, WrapInjective
    <3>3. Wrap(F + j, N) \in 0..N-1
      BY <1>4, <3>1, WrapNat
    <3> QED
      BY <1>4, <2>1, <3>2, <3>3
  <2>6. slot'[s][tail[s]] = put[s] + 1
    BY <1>4, <2>1, <2>2
  <2>7. Counts(s)'
    BY <1>0, <1>2, <1>5, <2>1 DEF Counts
  <2>8. Layout(s)'
    BY <1>0, <1>2, <1>3, <1>5, <2>1, <2>5, <2>6 DEF Layout
  <2> QED
    BY <2>7, <2>8
<1>9. CASE PutAdvance(s)
  <2>1. /\ slot' = slot /\ putter[s] = "advance" /\ putter'[s] = "wrap"
        /\ tail'[s] = tail[s] + 1 /\ put'[s] = put[s] + 1
    BY <1>9 DEF PutAdvance, At, TypeOK
  <2>2. tail[s] \in 0..N-1
    BY <2>1, Typed
  <2>3. H <= N - 2 /\ put[s] < MaxPuts[s] /\ P < N - 1 /\ slot[s][tail[s]] = put[s] + 1
    BY <1>2, <1>4, <2>1, NAssumption DEF Counts, Layout
  <2>4. tail[s] = Wrap(F + P, N)
    BY <1>2, <2>2, NAssumption DEF Layout, Wrap
  <2>5. Pending(s)' = P + 1 /\ Held(s)' = H + 1
    BY <1>0, <1>4, <2>1 DEF Pending, Held, Releasing
  <2>6. Counts(s)'
    <3>1. sent[s] <= put[s] + 1 /\ put[s] + 1 <= MaxPuts[s] /\ H + 1 <= N - 1
      BY <1>2, <1>4, <2>3, NAssumption DEF Counts
    <3>2. sent[s] < put[s] => sent[s] < put[s] + 1
      BY <1>4
    <3> QED
      BY <1>0, <1>2, <2>1, <2>5, <3>1, <3>2 DEF Counts
  <2>7. Wrap(tail[s] + 1, N) = Wrap(F + P + 1, N)
    BY <1>4, <2>3, <2>4, WrapNat
  <2>8. F + P + 1 = F + (P + 1)
    BY <1>4
  <2>9. ASSUME NEW j \in 0..(P + 1) - 1
        PROVE  slot[s][Wrap(F + j, N)] = sent[s] + 1 + j
    <3>1. CASE j \in 0..P-1
      BY <1>2, <3>1 DEF Layout
    <3>2. CASE j = P
      <4>1. put[s] + 1 = sent[s] + 1 + P
        BY <1>4 DEF Pending
      <4> QED
        BY <2>3, <2>4, <3>2, <4>1
    <3> QED
      BY <1>4, <3>1, <3>2
  <2>10. Layout(s)'
    BY <1>0, <1>3, <2>1, <2>5, <2>7, <2>8, <2>9 DEF Layout
  <2> QED
    BY <2>6, <2>10
<1>10. CASE PutWrap(s)
  <2>1. /\ slot' = slot /\ put' = put /\ putter'[s] = "idle"
        /\ tail'[s] = tail[s] % N
    BY <1>10 DEF PutWrap, At, TypeOK
  <2>2. tail'[s] = Wrap(tail[s], N)
    BY <1>4, <2>1, ModN
  <2>3. Wrap(Wrap(tail[s], N), N) = Wrap(tail[s], N)
    BY <1>4, NAssumption DEF Wrap
  <2>4. Counts(s)'
    BY <1>0, <1>2, <1>5, <2>1 DEF Counts
  <2>5. Layout(s)'
    BY <1>0, <1>2, <1>3, <1>5, <2>1, <2>2, <2>3 DEF Layout
  <2> QED
    BY <2>4, <2>5
<1> QED
  BY <1>6, <1>7, <1>8, <1>9, <1>10 DEF Put

LEMMA SoundSend ==
  ASSUME TypeOK, NEW s \in Stream, Sound(s), Send(s)
  PROVE  Sound(s)'
<1>0. tail' = tail /\ slot' = slot /\ put' = put /\ putter' = putter
  BY DEF Send, SendEmpty, SendBegin, SendData, SendFail, SendAdvance, SendWrap,
         Sending, ringVars
<1>1. raced[s] => raced'[s]
  BY DEF Send, SendEmpty, SendBegin, SendData, SendFail, SendAdvance, SendWrap,
         ringVars, TypeOK
<1>2. SUFFICES ASSUME Counts(s), Layout(s), ~raced'[s]
               PROVE  Counts(s)' /\ Layout(s)'
  BY <1>1 DEF Sound
<1> DEFINE F == First(s)
           P == Pending(s)
           H == Held(s)
<1>4. /\ F \in 0..N /\ P \in 0..N-1 /\ H \in P..N-1
      /\ tail[s] \in 0..N /\ put[s] \in Nat /\ sent[s] \in Nat
      /\ MaxPuts[s] \in Nat /\ slot[s] \in [0..N-1 -> Nat]
  BY <1>2, Facts
<1>5. CASE SendEmpty(s) \/ SendFail(s)
  <2>1. /\ head' = head /\ sent' = sent /\ wire' = wire
        /\ (sender' = "send" /\ turn' = s) => (sender = "send" /\ turn = s)
        /\ (sender' = "advance" /\ turn' = s) <=> (sender = "advance" /\ turn = s)
    BY <1>5 DEF SendEmpty, SendFail, Sending, ringVars
  <2>2. First(s)' = F /\ Pending(s)' = P /\ Held(s)' = H
    BY <1>0, <2>1 DEF First, Pending, Held, Releasing
  <2> QED
    BY <1>0, <1>2, <2>1, <2>2 DEF Counts, Layout
<1>6. CASE SendBegin(s)
  <2>1. /\ head' = head /\ sent' = sent /\ wire' = wire /\ turn' = turn /\ turn = s
        /\ sender = "check" /\ sender' = "send" /\ head[s] # tail[s]
        /\ ~(head[s] = 0 /\ tail[s] = N)
    BY <1>2, <1>6 DEF SendBegin, Sending, TypeOK
  <2>2. First(s)' = F /\ Pending(s)' = P /\ Held(s)' = H /\ F = head[s]
    BY <1>0, <2>1 DEF First, Pending, Held, Releasing
  <2>3. head[s] \in 0..N-1
    BY <2>1, Typed
  <2>4. Wrap(tail[s], N) = Wrap(head[s] + P, N)
    BY <1>2, <2>2 DEF Layout
  <2>5. P > 0
    BY <1>4, <2>1, <2>3, <2>4, NotEmpty
  <2>6. sent[s] < put[s]
    BY <1>4, <2>5 DEF Pending
  <2>7. Counts(s)'
    BY <1>0, <1>2, <2>1, <2>2, <2>6 DEF Counts
  <2>8. Layout(s)'
    BY <1>0, <1>2, <2>1, <2>2 DEF Layout
  <2> QED
    BY <2>7, <2>8
<1>7. CASE SendData(s)
  <2>1. /\ head' = head /\ turn' = turn /\ turn = s
        /\ sender = "send" /\ sender' = "advance"
        /\ wire'[s] = slot[s][head[s]]
        /\ ~(sent[s] > MaxPuts[s]) => sent'[s] = sent[s] + 1
    BY <1>7 DEF SendData, Sending, TypeOK
  <2>2. sent[s] < put[s] /\ put[s] <= MaxPuts[s]
    BY <1>2, <2>1 DEF Counts
  <2>3. sent'[s] = sent[s] + 1 /\ P > 0
    BY <1>4, <2>1, <2>2 DEF Pending
  <2>4. head[s] \in 0..N-1
    BY <2>1, Typed
  <2>5. F = head[s] /\ First(s)' = F + 1 /\ H = P
    BY <2>1 DEF First, Held, Releasing
  <2>6. Pending(s)' = P - 1
    BY <1>0, <1>4, <2>3 DEF Pending
  <2>7. Held(s)' = H
    BY <1>4, <2>1, <2>5, <2>6 DEF Held, Releasing
  <2>8. wire'[s] = sent[s] + 1
    <3>1. 0 \in 0..P-1 /\ Wrap(F + 0, N) = head[s]
      BY <1>4, <2>3, <2>4, <2>5, NAssumption DEF Wrap
    <3>2. slot[s][Wrap(F + 0, N)] = sent[s] + 1 + 0
      BY <1>2, <3>1 DEF Layout
    <3> QED
      BY <1>4, <2>1, <3>1, <3>2
  <2>9. Counts(s)'
    BY <1>0, <1>2, <1>4, <2>1, <2>2, <2>3, <2>7, <2>8 DEF Counts
  <2>10. Layout(s)'
    <3>1. F + 1 + (P - 1) = F + P
      BY <1>4
    <3>2. P \in Nat /\ F \in Nat
      BY <1>4, NAssumption
    <3>3. ASSUME NEW j \in 0..(P - 1) - 1
          PROVE  slot[s][Wrap(F + 1 + j, N)] = sent[s] + 1 + 1 + j
      <4> HIDE DEF P, F
      <4>1. j + 1 \in 0..P-1 /\ F + (j + 1) = F + 1 + j
        BY <3>2
      <4>2. slot[s][Wrap(F + (j + 1), N)] = sent[s] + 1 + (j + 1)
        BY <1>2, <4>1 DEF Layout, P, F
      <4>3. sent[s] + 1 + (j + 1) = sent[s] + 1 + 1 + j
        <5>1. j \in Int /\ sent[s] \in Nat
          BY <1>4, <3>2
        <5> QED
          BY <5>1
      <4> QED
        BY <4>1, <4>2, <4>3
    <3> QED
      BY <1>0, <1>2, <2>3, <2>5, <2>6, <3>1, <3>3 DEF Layout
  <2> QED
    BY <2>9, <2>10
<1>8. CASE SendAdvance(s)
  <2>1. /\ head'[s] = head[s] + 1 /\ turn' = turn /\ turn = s
        /\ sent' = sent /\ wire' = wire
        /\ sender = "advance" /\ sender' = "wrap"
    BY <1>8 DEF SendAdvance, Sending, TypeOK
  <2>2. First(s)' = F /\ Pending(s)' = P
    BY <1>0, <2>1 DEF First, Pending
  <2>3. H = P + 1 /\ Held(s)' = P
    BY <2>1, <2>2 DEF Held, Releasing
  <2>4. Counts(s)'
    BY <1>0, <1>2, <1>4, <2>1, <2>3, NAssumption DEF Counts
  <2>5. Layout(s)'
    BY <1>0, <1>2, <2>1, <2>2 DEF Layout
  <2> QED
    BY <2>4, <2>5
<1>9. CASE SendWrap(s)
  <2>1. /\ head'[s] = head[s] % N /\ turn = s /\ turn' = Other(s)
        /\ sent' = sent /\ wire' = wire
        /\ sender = "wrap" /\ sender' = "check"
    BY <1>9 DEF SendWrap, Sending, TypeOK
  <2>2. head[s] \in 0..N /\ F = head[s]
    BY <2>1, Typed DEF First
  <2>3. First(s)' = Wrap(F, N) /\ Pending(s)' = P
    BY <1>0, <2>1, <2>2, ModN DEF First, Pending
  <2>4. Held(s)' = H
    BY <2>1, <2>3 DEF Held, Releasing
  <2>5. Counts(s)'
    BY <1>0, <1>2, <2>1, <2>4 DEF Counts
  <2>6. ASSUME NEW j \in 0..P
        PROVE  Wrap(Wrap(F, N) + j, N) = Wrap(F + j, N)
    <3>1. j \in 0..N-1
      BY <1>4, NAssumption
    <3> QED
      BY <1>4, <3>1, WrapNat
  <2>7. \A j \in 0..P-1 : j \in 0..P
    BY <1>4
  <2>8. P \in 0..P
    BY <1>4
  <2>9. Layout(s)'
    BY <1>0, <1>2, <2>1, <2>3, <2>6, <2>7, <2>8 DEF Layout
  <2> QED
    BY <2>5, <2>9
<1> QED
  BY <1>5, <1>6, <1>7, <1>8, <1>9 DEF Send

LEMMA InvStep == IInv /\ [Next]_vars => IInv'
<1> SUFFICES ASSUME IInv, [Next]_vars PROVE IInv'
  OBVIOUS
<1>1. TypeOK /\ TypeOK'
  BY TypeStep DEF IInv
<1> SUFFICES ASSUME NEW t \in Stream PROVE Sound(t)' /\ Written(t)'
  BY <1>1 DEF IInv
<1>2. Sound(t) /\ Written(t)
  BY DEF IInv
<1>3. ASSUME NEW s \in Stream, Put(s)
      PROVE  Sound(t)' /\ Written(t)'
  BY <1>1, <1>2, <1>3, SoundPut, WrittenPut, Elsewhere, KeptElsewhere
<1>4. ASSUME NEW s \in Stream, Send(s)
      PROVE  Sound(t)' /\ Written(t)'
  BY <1>1, <1>2, <1>4, SoundSend, WrittenSend, Elsewhere, KeptElsewhere
<1>5. ASSUME ClientStalls \/ ClientResumes \/ ClientLeaves
      PROVE  Sound(t)' /\ Written(t)'
  BY <1>2, <1>5, KeptElsewhere DEF ClientStalls, ClientResumes, ClientLeaves, Client, ringVars
<1>6. ASSUME UNCHANGED vars
      PROVE  Sound(t)' /\ Written(t)'
  BY <1>2, <1>6, KeptElsewhere DEF vars
<1> QED
  BY <1>3, <1>4, <1>5, <1>6, StepCases

LEMMA InvCorrect == Spec => []IInv
<1> QED
  BY InvInit, InvStep, PTL DEF Spec
-----------------------------------------------------------------------------
\* No packet is lost, repeated or overtaken on its way to the client, unless
\* a check was misled by an unreduced index.
THEOREM Ordered == Spec => []InOrder
<1>1. IInv => InOrder
  BY DEF IInv, Sound, Counts, InOrder
<1> QED
  BY <1>1, InvCorrect, PTL

\* Unless a check was misled, gn_tcp_put and gn_tcp_audio_put never write
\* the slot that the sender has handed to send().
THEOREM NeverTorn == Spec => []NoTornPacket
<1>1. ASSUME IInv, NEW s \in Stream, putter[s] = "copy", sender = "send",
             turn = s, ~raced[s]
      PROVE  head[s] # tail[s]
  <2>1. TypeOK /\ Counts(s) /\ Layout(s)
    BY <1>1 DEF IInv, Sound
  <2>2. First(s) = head[s] /\ Held(s) = Pending(s)
    BY <1>1 DEF First, Held, Releasing
  <2>3. /\ head[s] \in 0..N-1 /\ tail[s] \in 0..N-1
        /\ put[s] \in Nat /\ sent[s] \in Nat
    BY <1>1, <2>1, Typed
  <2>4. Pending(s) \in 1..N-2
    BY <1>1, <2>1, <2>2, <2>3, NAssumption DEF Counts, Pending
  <2>5. Wrap(tail[s], N) = Wrap(head[s] + Pending(s), N)
    BY <2>1, <2>2 DEF Layout
  <2> QED
    BY <2>3, <2>4, <2>5, NAssumption DEF Wrap
<1>2. IInv => NoTornPacket
  BY <1>1 DEF NoTornPacket
<1> QED
  BY <1>2, InvCorrect, PTL

\* Whatever the interleaving, also after a misled check, send() is only
\* called with a packet that gn_tcp_put or gn_tcp_audio_put has stored.
THEOREM NeverInvented == Spec => []NothingInvented
<1>1. ASSUME IInv, NEW s \in Stream, sender = "send", turn = s
      PROVE  slot[s][head[s]] # 0
  <2>1. head[s] \in 0..N-1 /\ tail[s] \in 0..N
    BY <1>1, Typed DEF IInv
  <2>2. Written(s)
    BY <1>1 DEF IInv
  <2> QED
    BY <1>1, <2>1, <2>2 DEF Written, FirstLap
<1>2. IInv => NothingInvented
  BY <1>1 DEF NothingInvented
<1> QED
  BY <1>2, InvCorrect, PTL

\* Together: what a client gets from each ring, for any number of slots and
\* packets and any interleaving (gn_tcp.c:155-276).
THEOREM Correct == Spec => []Delivers
<1>1. InOrder /\ NoTornPacket /\ NothingInvented => Delivers
  BY DEF Delivers
<1> QED
  BY <1>1, Ordered, NeverTorn, NeverInvented, PTL
-----------------------------------------------------------------------------
\* The k numbers after n, as a queue.
After(n, k) == [i \in 1..k |-> n + i]

\* Put appends the next number, and Take leaves the numbers after the first.
LEMMA AfterIsQueue ==
  ASSUME NEW n \in Nat, NEW k \in Nat
  PROVE  /\ After(n, k) \in Seq(Nat) /\ Len(After(n, k)) = k
         /\ Append(After(n, k), n + k + 1) = After(n, k + 1)
         /\ k > 0 => /\ After(n, k) # <<>> /\ Head(After(n, k)) = n + 1
                     /\ Tail(After(n, k)) = After(n + 1, k - 1)
<1>1. After(n, k) \in Seq(Nat) /\ Len(After(n, k)) = k
  BY DEF After
<1>2. Append(After(n, k), n + k + 1) = After(n, k + 1)
  BY DEF After
<1>3. ASSUME k > 0
      PROVE  /\ After(n, k) # <<>> /\ Head(After(n, k)) = n + 1
             /\ Tail(After(n, k)) = After(n + 1, k - 1)
  BY <1>1, <1>3 DEF After
<1> QED
  BY <1>1, <1>2, <1>3

\* As long as no check of a ring was misled, it is the queue of the packets
\* after the sent-th.
Queued(s) ==
  ~raced[s] => /\ wire[s] = sent[s] /\ Pending(s) \in Nat
               /\ Contents(s) = After(sent[s], Pending(s))

LEMMA ContentsArePending == IInv => \A s \in Stream : Queued(s)
<1> SUFFICES ASSUME NEW s \in Stream, TypeOK, Counts(s), Layout(s)
             PROVE  /\ wire[s] = sent[s] /\ Pending(s) \in Nat
                    /\ Contents(s) = After(sent[s], Pending(s))
  BY DEF IInv, Sound, Queued
<1>1. First(s) \in 0..N /\ Pending(s) \in Nat /\ sent[s] \in Nat
  BY Facts
<1>2. ASSUME NEW i \in 1..Pending(s)
      PROVE  slot[s][Wrap(First(s) + i - 1, N)] = sent[s] + i
  <2>1. i - 1 \in 0..Pending(s)-1 /\ First(s) + (i - 1) = First(s) + i - 1
    BY <1>1
  <2>2. slot[s][Wrap(First(s) + (i - 1), N)] = sent[s] + 1 + (i - 1)
    BY <2>1 DEF Layout
  <2> QED
    BY <1>1, <2>1, <2>2
<1> QED
  BY <1>1, <1>2 DEF Contents, After, Counts

\* A step puts a packet into the queue of a ring, takes one out or leaves it
\* alone, unless a check of the ring is misled.
LEMMA QueueStep ==
  ASSUME NEW s \in Stream, IInv, IInv', Queued(s), Queued(s)', [Next]_vars, ~raced'[s]
  PROVE  /\ raced[s] = FALSE /\ raced'[s] = FALSE
         /\ \/ /\ Len(Contents(s)) < N - 1 /\ wire'[s] = wire[s]
               /\ Contents(s)' = Append(Contents(s), wire[s] + Len(Contents(s)) + 1)
            \/ /\ Contents(s) # <<>> /\ wire'[s] = Head(Contents(s))
               /\ Contents(s)' = Tail(Contents(s))
            \/ Contents(s)' = Contents(s) /\ wire'[s] = wire[s]
<1>1. /\ raced[s] => raced'[s]
      /\ \/ UNCHANGED <<put[s], sent[s]>>
         \/ PutAdvance(s)
         \/ SendData(s)
  <2> DEFINE P == /\ raced[s] => raced'[s]
                  /\ \/ UNCHANGED <<put[s], sent[s]>>
                     \/ PutAdvance(s)
                     \/ SendData(s)
  <2>1. TypeOK
    BY DEF IInv
  <2>2. ASSUME NEW t \in Stream, Put(t) \/ Send(t), t # s PROVE P
    BY <2>1, <2>2, Elsewhere
  <2>3. Put(s) => P
    BY <2>1 DEF Put, PutFull, PutBegin, PutCopy, PutWrap, PutAdvance, At, TypeOK
  <2>4. Send(s) => P
    BY <2>1 DEF Send, SendEmpty, SendBegin, SendData, SendFail, SendAdvance, SendWrap,
       Sending, ringVars, TypeOK
  <2>5. ClientStalls \/ ClientResumes \/ ClientLeaves => P
    BY DEF ClientStalls, ClientResumes, ClientLeaves, Client, ringVars
  <2>6. UNCHANGED vars => P
    BY DEF vars
  <2> HIDE DEF P
  <2>7. P
    BY <2>2, <2>3, <2>4, <2>5, <2>6, StepCases
  <2> QED
    BY <2>7 DEF P
<1>2. raced[s] = FALSE /\ raced'[s] = FALSE
  BY <1>1 DEF IInv, TypeOK
<1>3. /\ wire[s] = sent[s] /\ Pending(s) \in Nat
      /\ Contents(s) = After(sent[s], Pending(s))
      /\ wire'[s] = sent'[s] /\ Pending(s)' \in Nat
      /\ Contents(s)' = After(sent'[s], Pending(s)')
  <2>1. (~raced[s] => /\ wire[s] = sent[s] /\ Pending(s) \in Nat
                      /\ Contents(s) = After(sent[s], Pending(s)))'
    BY DEF Queued
  <2>2. After(sent[s], Pending(s))' = After(sent'[s], Pending(s)')
    BY DEF After
  <2> QED
    BY <1>2, <2>1, <2>2 DEF Queued
<1>4. put[s] \in Nat /\ sent[s] \in Nat /\ TypeOK /\ Counts(s) /\ Layout(s)
      /\ Len(Contents(s)) = Pending(s)
  <2>1. TypeOK /\ Counts(s) /\ Layout(s)
    BY <1>2 DEF IInv, Sound
  <2>2. put[s] \in Nat /\ sent[s] \in Nat
    BY <2>1, Typed
  <2>3. Len(After(sent[s], Pending(s))) = Pending(s)
    BY <1>3, <2>2, AfterIsQueue
  <2> QED
    BY <1>3, <2>1, <2>2, <2>3
<1>5. CASE PutAdvance(s)
  <2>1. put'[s] = put[s] + 1 /\ sent'[s] = sent[s] /\ putter[s] = "advance"
    BY <1>4, <1>5 DEF PutAdvance, At, TypeOK
  <2>2. Pending(s)' = Pending(s) + 1
    BY <1>4, <2>1 DEF Pending
  <2>3. Pending(s) < N - 1
    BY <1>3, <1>4, <2>1, NAssumption DEF Counts, Held
  <2>4. Append(After(sent[s], Pending(s)), sent[s] + Pending(s) + 1)
          = After(sent[s], Pending(s) + 1)
    BY <1>3, <1>4, AfterIsQueue
  <2> QED
    BY <1>2, <1>3, <1>4, <2>1, <2>2, <2>3, <2>4
<1>6. CASE SendData(s)
  <2>1. sent'[s] = sent[s] + 1 /\ put'[s] = put[s] /\ Pending(s) > 0
    <3>1. /\ put' = put /\ sender = "send" /\ turn = s
          /\ sent'[s] = IF sent[s] > MaxPuts[s] THEN sent[s] ELSE sent[s] + 1
      BY <1>4, <1>6 DEF SendData, Sending, TypeOK
    <3>2. sent[s] < put[s] /\ put[s] <= MaxPuts[s] /\ MaxPuts[s] \in Nat
      BY <1>4, <3>1, PutsAssumption DEF Counts
    <3> QED
      BY <1>4, <3>1, <3>2 DEF Pending
  <2>2. Pending(s)' = Pending(s) - 1
    BY <1>4, <2>1 DEF Pending
  <2>3. /\ After(sent[s], Pending(s)) # <<>> /\ Head(After(sent[s], Pending(s))) = sent[s] + 1
        /\ Tail(After(sent[s], Pending(s))) = After(sent[s] + 1, Pending(s) - 1)
    BY <1>3, <1>4, <2>1, AfterIsQueue
  <2> QED
    BY <1>2, <1>3, <2>1, <2>2, <2>3
<1>7. CASE UNCHANGED <<put[s], sent[s]>>
  <2>1. Pending(s)' = Pending(s)
    BY <1>7 DEF Pending
  <2> QED
    BY <1>2, <1>3, <1>7, <2>1
<1> QED
  BY <1>1, <1>5, <1>6, <1>7

\* A producer that gives up has found N-1 slots in use.
LEMMA StuckStep ==
  ASSUME IInv, [Next]_vars, NEW s \in Stream,
         putter[s] # "stuck", putter'[s] = "stuck", ~raced[s]
  PROVE  put[s] - sent[s] + (IF First(s) = head[s] THEN 0 ELSE 1) = N - 1
<1>1. TypeOK /\ Counts(s) /\ Layout(s)
  BY DEF IInv, Sound
<1>2. PutFull(s)
  <2> DEFINE P == PutFull(s)
  <2>1. ASSUME NEW t \in Stream, Put(t) \/ Send(t), t # s PROVE P
    BY <1>1, <2>1, Elsewhere
  <2>2. Put(s) => P
    BY <1>1 DEF Put, PutBegin, PutCopy, PutWrap, PutAdvance, At, TypeOK
  <2>3. Send(s) => P
    BY DEF Send, SendEmpty, SendBegin, SendData, SendFail, SendAdvance, SendWrap, Sending
  <2>4. ClientStalls \/ ClientResumes \/ ClientLeaves => P
    BY DEF ClientStalls, ClientResumes, ClientLeaves, Client
  <2>5. UNCHANGED vars => P
    BY DEF vars
  <2> HIDE DEF P
  <2>6. P
    BY <2>1, <2>2, <2>3, <2>4, <2>5, StepCases
  <2> QED
    BY <2>6 DEF P
<1>3. /\ head[s] \in 0..N /\ tail[s] \in 0..N-1 /\ Held(s) \in 0..N-1 /\ Pending(s) \in Nat
      /\ Wrap(tail[s], N) = Wrap(head[s] + Held(s), N)
  BY <1>1, <1>2, Facts, Typed DEF PutFull, At
<1>4. head[s] = Wrap(tail[s] + 1, N)
  <2>1. tail[s] + 1 \in 0..N
    BY <1>3, NAssumption
  <2> QED
    BY <1>2, <2>1, ModN DEF PutFull, Full
<1>5. Held(s) = N - 1
  BY <1>3, <1>4, NAssumption DEF Wrap
<1>6. Held(s) = Pending(s) + (IF First(s) = head[s] THEN 0 ELSE 1)
  BY <1>3 DEF Held, Releasing, First
<1> QED
  BY <1>5, <1>6 DEF Pending

\* The rings of any size are queues of N-1 packets until a check is misled:
\* PutAdvance is the Put of BoundedQueue and SendData its Take; and a producer
\* gives up only on a full one (gn_tcp.c:155-276).
THEOREM Refines == Spec => RingsAreQueues
<1> DEFINE AllQueued == \A s \in Stream : Queued(s)
<1>1. Init => VideoQueue!Init /\ AudioQueue!Init
  <2> SUFFICES ASSUME Init PROVE VideoQueue!Init /\ AudioQueue!Init
    OBVIOUS
  <2>1. \A s \in Stream : Pending(s) = 0 /\ wire[s] = 0 /\ raced[s] = FALSE
    BY DEF Init, Pending
  <2>2. \A s \in Stream : Contents(s) = <<>>
    BY <2>1 DEF Contents
  <2>3. "video" \in Stream /\ "audio" \in Stream
    BY DEF Stream
  <2> QED
    BY <2>1, <2>2, <2>3 DEF VideoQueue!Init, AudioQueue!Init
<1>2. IInv /\ IInv' /\ AllQueued /\ AllQueued' /\ [Next]_vars
        => [VideoQueue!Next]_(VideoQueue!vars)
  <2> SUFFICES ASSUME IInv, IInv', AllQueued, AllQueued', [Next]_vars, ~raced'["video"]
               PROVE  [VideoQueue!Next]_(VideoQueue!vars)
    BY DEF VideoQueue!Next, VideoQueue!Break
  <2>1. "video" \in Stream
    BY DEF Stream
  <2> QED
    BY <2>1, QueueStep
       DEF VideoQueue!Next, VideoQueue!Put, VideoQueue!Take, VideoQueue!vars
<1>3. IInv /\ IInv' /\ AllQueued /\ AllQueued' /\ [Next]_vars
        => [AudioQueue!Next]_(AudioQueue!vars)
  <2> SUFFICES ASSUME IInv, IInv', AllQueued, AllQueued', [Next]_vars, ~raced'["audio"]
               PROVE  [AudioQueue!Next]_(AudioQueue!vars)
    BY DEF AudioQueue!Next, AudioQueue!Break
  <2>1. "audio" \in Stream
    BY DEF Stream
  <2> QED
    BY <2>1, QueueStep
       DEF AudioQueue!Next, AudioQueue!Put, AudioQueue!Take, AudioQueue!vars
<1>4. IInv /\ [Next]_vars =>
        [\A s \in Stream : (putter[s] # "stuck" /\ putter'[s] = "stuck" /\ ~raced[s])
           => put[s] - sent[s] + (IF First(s) = head[s] THEN 0 ELSE 1) = N - 1]_vars
  BY StuckStep
<1>5. IInv => AllQueued
  BY ContentsArePending
<1> HIDE DEF AllQueued
<1> QED
  BY <1>1, <1>2, <1>3, <1>4, <1>5, InvCorrect, PTL
     DEF Spec, RingsAreQueues, VideoIsQueue, AudioIsQueue, StuckOnlyWhenFull,
         VideoQueue!Spec, AudioQueue!Spec
=============================================================================
