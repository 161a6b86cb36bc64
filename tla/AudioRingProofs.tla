-------------------------- MODULE AudioRingProofs --------------------------
(***************************************************************************)
(* Proofs about AudioRing, for every capacity of the ring, every size of a *)
(* chunk, a period and a frame, and any number of seeks.                   *)
(***************************************************************************)
EXTENDS AudioRing, SequenceTheorems, TLAPS

-----------------------------------------------------------------------------
(* The inductive invariant *)

\* Who runs while the demultiplexer is where, and which position the worker's sound belongs to.
Control ==
    /\ dpc \in DemuxPlace \ {"play", "join", "joinEnd"} => wpc = "gone"
    /\ threadRunning <=> opc \notin {"unlock", "gone"}
    /\ dpc \in {"free", "freed"} => opc \in {"unlock", "gone"}
    /\ opc \in {"exit", "unlock", "gone"} =>
          size = 0 /\ (stop \/ (dpc = "close" /\ sent = 0 /\ heard = <<>> /\ tmp = <<>>))
    /\ opc = "take" => tmp = <<>>

\* gen lags behind epoch while no worker was started for the current position.
Ages ==
    /\ gen <= epoch /\ (dpc \in {"join", "reset"} => epoch < MaxEpochs)
    /\ wpc # "gone" => gen = epoch
    /\ dpc \in {"unrun", "unprepare", "start"} => size = 0 /\ gen < epoch
    /\ gen < epoch => size = 0

\* The ring holds the last bytes the worker queued, in order.
Content ==
    gen = epoch => size <= sent /\ \A i \in 1 .. size : RingAt(i) = <<gen, sent - size + i>>

Out == heard \o tmp

InOrder(s) ==
    /\ \A i \in 1 .. Len(s) : s[i][1] <= gen
    /\ \A i \in 1 .. Len(s) - 1 : Follows(s[i], s[i + 1])
    /\ s # <<>> => s[1][2] = 1

\* A sequence ends with the bytes 1 .. k of this position, and has none of them before.
EndsWith(s, k) ==
    /\ k <= Len(s)
    /\ \A i \in 1 .. Len(s) - k : s[i][1] < gen
    /\ \A i \in 1 .. k : s[Len(s) - k + i] = <<gen, i>>

\* What the output thread took is all that was queued before the ring's first byte.
Link ==
    opc \in {"take", "pcm", "write", "mark"} /\ gen = epoch => EndsWith(Out, sent - size)

IInv == TypeOK /\ Control /\ Ages /\ Content /\ InOrder(Out) /\ Link

-----------------------------------------------------------------------------
(* Arithmetic of the ring *)

\* A place past the end is taken back once.
LEMMA Wrap ==
  ASSUME NEW C \in Nat \ {0}, NEW s \in 0 .. C - 1, NEW z \in 0 .. C
  PROVE  (s + z) % C = IF s + z < C THEN s + z ELSE s + z - C
  <1>1. CASE s + z < C
    BY <1>1, SMT
  <1>2. CASE s + z >= C
    BY <1>2, SMT
  <1> QED
    BY <1>1, <1>2

\* The distance of place s + a from place s + z, as audio_queue_write's two copies cover it.
LEMMA Offset ==
  ASSUME NEW C \in Nat \ {0}, NEW s \in 0 .. C - 1, NEW z \in 0 .. C, NEW a \in 0 .. C - 1
  PROVE  (((s + a) % C) + C - ((s + z) % C)) % C = IF a >= z THEN a - z ELSE a + C - z
  <1> DEFINE p == (s + a) % C   w == (s + z) % C
  <1>1. p = IF s + a < C THEN s + a ELSE s + a - C
    BY a \in 0 .. C, Wrap
  <1>2. w = IF s + z < C THEN s + z ELSE s + z - C
    BY Wrap
  <1> HIDE DEF p, w
  <1>3. p \in 0 .. C - 1 /\ w \in 0 .. C - 1
    BY <1>1, <1>2
  <1>5. CASE a >= z
    <2>1. p + C - w = a - z \/ p + C - w = (a - z) + C
      BY <1>1, <1>2, <1>5
    <2>2. (p + C - w) % C = a - z
      BY <1>3, <1>5, <2>1, SMT
    <2> QED
      BY <1>5, <2>2 DEF p, w
  <1>6. CASE a < z
    <2>1. p + C - w = a + C - z \/ p + C - w = a + C - z + C
      BY <1>1, <1>2, <1>6
    <2>2. (p + C - w) % C = a + C - z
      BY <1>3, <1>6, <2>1, SMT
    <2> QED
      BY <1>6, <2>2 DEF p, w
  <1> QED
    BY <1>5, <1>6

\* Advancing the start by t renumbers what is behind it.
LEMMA Advance ==
  ASSUME NEW C \in Nat \ {0}, NEW s \in 0 .. C - 1, NEW t \in 0 .. C, NEW j \in Nat, t + j < C
  PROVE  (((s + t) % C) + j) % C = (s + (t + j)) % C
  <1> DEFINE u == (s + t) % C   v == t + j
  <1>1. u = IF s + t < C THEN s + t ELSE s + t - C
    BY Wrap
  <1> HIDE DEF u
  <1>2. u \in 0 .. C - 1 /\ j \in 0 .. C /\ v \in 0 .. C
    BY <1>1
  <1>4. (u + j) % C = IF u + j < C THEN u + j ELSE u + j - C
    BY <1>2, Wrap
  <1> HIDE DEF v
  <1>5. (s + v) % C = IF s + v < C THEN s + v ELSE s + v - C
    BY <1>2, Wrap
  <1>6. (u + j) % C = (s + v) % C
    BY <1>1, <1>2, <1>4, <1>5 DEF v
  <1> QED
    BY <1>6 DEF u, v

\* A place number is in the ring.
LEMMA InRing ==
  ASSUME NEW C \in Nat \ {0}, NEW x \in Nat PROVE x % C \in 0 .. C - 1
  BY SMT

-----------------------------------------------------------------------------
(* Sequences *)

\* Cutting the front of one sequence and adding it to another moves no element.
LEMMA Moved ==
  ASSUME NEW S, NEW h \in Seq(S), NEW t \in Seq(S), NEW n \in 1 .. Len(t)
  PROVE  /\ h \o SubSeq(t, 1, n) \in Seq(S)
         /\ SubSeq(t, n + 1, Len(t)) \in Seq(S)
         /\ Len(SubSeq(t, n + 1, Len(t))) <= Len(t)
         /\ (h \o SubSeq(t, 1, n)) \o SubSeq(t, n + 1, Len(t)) = h \o t
  <1> DEFINE a == SubSeq(t, 1, n)  b == SubSeq(t, n + 1, Len(t))
  <1>0. Len(t) \in Nat /\ \A i \in 1 .. Len(t) : t[i] \in S
    BY ElementOfSeq, LenProperties
  <1>1. a \in Seq(S) /\ Len(a) = n /\ \A i \in 1 .. n : a[i] = t[i]
    BY n \in Nat /\ 1 <= n /\ n <= Len(t)
  <1>2. b \in Seq(S) /\ Len(b) = Len(t) - n /\ \A i \in 1 .. Len(t) - n : b[i] = t[n + i]
    OBVIOUS
  <1> HIDE DEF a, b
  <1>3. Len(h) \in Nat /\ h \o a \in Seq(S) /\ Len(h \o a) = Len(h) + n
    BY <1>1, LenProperties, ConcatProperties
  <1>4. \A i \in 1 .. Len(h) + n : (h \o a)[i] = IF i <= Len(h) THEN h[i] ELSE a[i - Len(h)]
    BY <1>1, <1>3, ConcatProperties
  <1>5. (h \o a) \o b = h \o t
    <2> DEFINE l == (h \o a) \o b  r == h \o t
    <2>1. l \in Seq(S) /\ Len(l) = Len(h) + Len(t)
      <3>1. l \in Seq(S) /\ Len(l) = Len(h \o a) + Len(b)
        BY <1>2, <1>3, ConcatProperties
      <3> QED
        BY <1>0, <1>2, <1>3, <3>1
    <2>2. r \in Seq(S) /\ Len(r) = Len(h) + Len(t)
      BY ConcatProperties
    <2>3. \A i \in 1 .. Len(h) + Len(t) : r[i] = IF i <= Len(h) THEN h[i] ELSE t[i - Len(h)]
      BY ConcatProperties
    <2>4. \A i \in 1 .. Len(h) + Len(t) :
              l[i] = IF i <= Len(h) + n THEN (h \o a)[i] ELSE b[i - (Len(h) + n)]
      BY <1>0, <1>2, <1>3, ConcatProperties
    <2>5. ASSUME NEW i \in 1 .. Len(h) + Len(t) PROVE l[i] = r[i]
      <3>1. CASE i <= Len(h)
        <4>1. (h \o a)[i] = h[i]
          BY <1>0, <1>3, <1>4, <3>1
        <4> QED
          BY <1>0, <1>3, <2>3, <2>4, <3>1, <4>1
      <3>2. CASE i > Len(h) /\ i <= Len(h) + n
        <4>1. (h \o a)[i] = t[i - Len(h)]
          BY <1>0, <1>1, <1>3, <1>4, <3>2
        <4> QED
          BY <1>0, <1>3, <2>3, <2>4, <3>2, <4>1
      <3>3. CASE i > Len(h) + n
        <4> DEFINE j == i - (Len(h) + n)
        <4>1. j \in 1 .. Len(t) - n /\ n + j = i - Len(h)
          BY <1>0, <1>3, <3>3
        <4>2. ~(i <= Len(h) + n)
          BY <1>0, <1>3, <3>3
        <4>3. l[i] = b[j]
          BY <2>4, <4>2
        <4> HIDE DEF j
        <4>5. b[j] = t[n + j]
          BY <1>2, <4>1
        <4>6. b[j] = t[i - Len(h)]
          BY <4>1, <4>5
        <4>4. r[i] = t[i - Len(h)]
          BY <1>0, <1>3, <2>3, <3>3
        <4> QED
          BY <4>3, <4>4, <4>6
      <3>4. i <= Len(h) \/ (i > Len(h) /\ i <= Len(h) + n) \/ i > Len(h) + n
        BY <1>0, <1>3
      <3> QED
        BY <3>1, <3>2, <3>3, <3>4
    <2> HIDE DEF l, r
    <2>6. l = r
      BY <2>1, <2>2, <2>5, SeqEqual
    <2> QED
      BY <2>6 DEF l, r
  <1>7. Len(b) <= Len(t)
    BY <1>0, <1>2
  <1> QED
    BY <1>2, <1>3, <1>5, <1>7 DEF a, b

\* A front of an ordered sequence is ordered.
LEMMA Front ==
  ASSUME NEW h \in Seq(Bytes), NEW t \in Seq(Bytes), InOrder(h \o t)
  PROVE  InOrder(h \o <<>>)
  <1>1. h \o <<>> = h
    BY ConcatEmptySeq
  <1>2. Len(h) \in Nat /\ Len(t) \in Nat /\ Len(h \o t) = Len(h) + Len(t)
    BY ConcatProperties, LenProperties
  <1>3. \A i \in 1 .. Len(h) : (h \o t)[i] = h[i]
    BY <1>2, ConcatProperties
  <1>4. \A i \in 1 .. Len(h) : h[i][1] <= gen
    BY <1>2, <1>3 DEF InOrder
  <1>5. \A i \in 1 .. Len(h) - 1 : Follows(h[i], h[i + 1])
    <2> TAKE i \in 1 .. Len(h) - 1
    <2>1. i \in 1 .. Len(h \o t) - 1 /\ i \in 1 .. Len(h) /\ i + 1 \in 1 .. Len(h)
      BY <1>2
    <2> QED
      BY <1>3, <2>1 DEF InOrder
  <1>6. h # <<>> => h[1][2] = 1
    <2> HAVE h # <<>>
    <2>1. 1 \in 1 .. Len(h) /\ h \o t # <<>>
      BY <1>2, EmptySeq, ConcatEqualIffEmpty
    <2> QED
      BY <1>3, <2>1 DEF InOrder
  <1> QED
    BY <1>1, <1>4, <1>5, <1>6 DEF InOrder

-----------------------------------------------------------------------------
(* Facts of a state *)

\* The device's bytes and the chunk in flight are bytes.
LEMMA OutIsSeq == TypeOK => Out \in Seq(Bytes) /\ Len(Out) \in Nat
  BY ConcatProperties, LenProperties DEF TypeOK, Out

\* What the ring holds is what the worker queued last.
LEMMA RingBytes ==
  ASSUME IInv, NEW i \in 1 .. size
  PROVE  gen = epoch /\ RingAt(i) = <<epoch, sent - size + i>> /\ RingAt(i) \in Bytes
  <1>1. gen = epoch
    BY RingAssumption DEF IInv, Ages, TypeOK
  <1>2. size <= sent /\ RingAt(i) = <<epoch, sent - size + i>>
    BY <1>1 DEF IInv, Content
  <1>3. sent - size + i \in 1 .. MaxBytes
    BY <1>2, RingAssumption DEF IInv, TypeOK
  <1> QED
    BY <1>1, <1>2, <1>3 DEF IInv, TypeOK, Bytes

\* Steps that leave ring, sound and positions alone.
LEMMA Still ==
  ASSUME IInv, UNCHANGED <<ringvars, gen, sent, epoch, heard, tmp>>,
         opc' \in {"take", "pcm", "write", "mark"} => opc \in {"take", "pcm", "write", "mark"}
  PROVE  Content' /\ InOrder(Out)' /\ Link'
  <1>1. Out' = Out
    BY DEF Out
  <1>2. Content'
    BY DEF IInv, Content, ringvars, RingAt
  <1>3. InOrder(Out)'
    BY <1>1 DEF IInv, InOrder
  <1>4. Link'
    BY <1>1 DEF IInv, Link, EndsWith, ringvars
  <1> QED
    BY <1>2, <1>3, <1>4

\* What the last byte taken is.
LEMMA Joint ==
  ASSUME IInv, Link, opc \in {"take", "pcm", "write", "mark"}, gen = epoch
  PROVE  \/ size = sent /\ (Out = <<>> \/ Out[Len(Out)][1] < gen)
         \/ size < sent /\ Out # <<>> /\ Out[Len(Out)] = <<gen, sent - size>>
  <1> DEFINE k == sent - size   l == Len(Out)
  <1>1. EndsWith(Out, k)
    BY DEF Link
  <1>2. size \in Nat /\ sent \in Nat /\ size <= sent
    BY RingAssumption DEF IInv, TypeOK, Content
  <1>3. Out \in Seq(Bytes) /\ l \in Nat /\ (Out = <<>> <=> l = 0)
    BY OutIsSeq, EmptySeq DEF IInv
  <1>4. k \in Nat
    BY <1>2
  <1> HIDE DEF k, l
  <1>5. CASE k = 0
    <2>1. size = sent
      BY <1>2, <1>5 DEF k
    <2>2. l # 0 => l \in 1 .. l - k
      BY <1>3, <1>5
    <2>3. l # 0 => Out[l][1] < gen
      BY <1>1, <2>2 DEF EndsWith, l
    <2> QED
      BY <1>3, <2>1, <2>3 DEF l
  <1>6. CASE k # 0
    <2>1. size < sent
      BY <1>2, <1>6 DEF k
    <2>2. k \in 1 .. k /\ l - k + k = l /\ l # 0
      BY <1>1, <1>3, <1>4, <1>6 DEF EndsWith, l
    <2>3. Out[l] = <<gen, k>>
      BY <1>1, <2>2 DEF EndsWith, l
    <2> QED
      BY <1>3, <2>1, <2>2, <2>3 DEF k, l
  <1> QED
    BY <1>5, <1>6

-----------------------------------------------------------------------------
(* The audio worker *)

\* The new frame goes behind what is queued and nothing else moves, wherever the ring wraps.
LEMMA CopyInFacts ==
  ASSUME IInv, CopyIn, UNCHANGED <<start, gen>>, gen = epoch
  PROVE  \E n \in 0 .. left :
            /\ size' = size + n /\ sent' = sent + n /\ left' = left - n
            /\ size' <= Capacity
            /\ buf' \in [Places -> Bytes \cup {Nothing}]
            /\ \A i \in 1 .. size' : RingAt(i)' = <<gen, sent' - size' + i>>
  <1> DEFINE n == IF Capacity - size < left THEN Capacity - size ELSE left
             At(p) == (p + Capacity - ((start + size) % Capacity)) % Capacity
  <1>1. Capacity \in Nat \ {0} /\ start \in 0 .. Capacity - 1 /\ size \in 0 .. Capacity
    BY RingAssumption DEF IInv, TypeOK, Places
  <1>2. left \in Nat /\ sent \in Nat /\ left + sent <= MaxBytes /\ MaxBytes \in Nat /\ gen \in 1 .. MaxEpochs
    BY RingAssumption DEF IInv, TypeOK
  <1>3. n \in 0 .. left /\ size + n <= Capacity
    BY <1>1, <1>2
  <1>4. /\ buf' = [p \in Places |-> IF At(p) < n THEN <<gen, sent + At(p) + 1>> ELSE buf[p]]
        /\ size' = size + n /\ left' = left - n /\ sent' = sent + n
    BY DEF CopyIn
  <1>5. \A p \in Places : At(p) \in Nat
    <2> TAKE p \in Places
    <2> DEFINE w == (start + size) % Capacity
    <2>1. w \in 0 .. Capacity - 1
      BY <1>1, InRing
    <2> HIDE DEF w
    <2>2. p + Capacity - w \in Nat
      BY <1>1, <2>1 DEF Places
    <2>3. (p + Capacity - w) % Capacity \in 0 .. Capacity - 1
      BY <1>1, <2>2, InRing
    <2> QED
      BY <1>1, <2>3 DEF w
  <1> HIDE DEF n, At
  <1>6. buf' \in [Places -> Bytes \cup {Nothing}]
    <2> SUFFICES ASSUME NEW p \in Places
                 PROVE  (IF At(p) < n THEN <<gen, sent + At(p) + 1>> ELSE buf[p]) \in Bytes \cup {Nothing}
      BY <1>4
    <2>1. CASE At(p) < n
      <3>1. sent + At(p) + 1 \in 1 .. MaxBytes
        BY <1>2, <1>3, <1>5, <2>1
      <3> QED
        BY <1>2, <2>1, <3>1 DEF Bytes
    <2>2. CASE ~(At(p) < n)
      BY <2>2 DEF IInv, TypeOK
    <2> QED
      BY <2>1, <2>2
  <1>7. ASSUME NEW i \in 1 .. size' PROVE RingAt(i)' = <<gen, sent' - size' + i>>
    <2> DEFINE a == i - 1
               p == (start + a) % Capacity
    <2>1. a \in 0 .. Capacity - 1 /\ start + i - 1 = start + a /\ i \in 1 .. size + n /\ i = a + 1
      BY <1>1, <1>2, <1>3, <1>4
    <2>2. p \in Places
      BY <1>1, <2>1, InRing DEF Places
    <2>3. At(p) = IF a >= size THEN a - size ELSE a + Capacity - size
      BY <1>1, <2>1, Offset DEF At
    <2>4. RingAt(i)' = buf'[p]
      BY <2>1 DEF RingAt
    <2>5. RingAt(i) = buf[p]
      BY <2>1 DEF RingAt
    <2>6. buf'[p] = IF At(p) < n THEN <<gen, sent + At(p) + 1>> ELSE buf[p]
      BY <1>4, <2>2
    <2>7. sent' - size' + i = sent - size + i /\ (Content => size <= sent)
      BY <1>1, <1>2, <1>3, <1>4 DEF Content
    <2> HIDE DEF a, p
    <2>8. CASE a >= size
      <3>1. At(p) = a - size /\ At(p) < n
        BY <1>1, <1>2, <1>3, <2>1, <2>3, <2>8
      <3>2. sent + At(p) + 1 = sent - size + i
        BY <1>1, <1>2, <2>1, <2>7, <2>8, <3>1 DEF IInv
      <3> QED
        BY <2>4, <2>6, <2>7, <3>1, <3>2
    <2>9. CASE a < size
      <3>1. ~(At(p) < n)
        BY <1>1, <1>2, <1>3, <2>1, <2>3, <2>9
      <3>2. i \in 1 .. size
        BY <1>1, <2>1, <2>9
      <3>3. RingAt(i) = <<gen, sent - size + i>>
        BY <3>2 DEF IInv, Content
      <3> QED
        BY <2>4, <2>5, <2>6, <2>7, <3>1, <3>3
    <2> QED
      BY <1>1, <2>1, <2>8, <2>9
  <1> QED
    BY <1>1, <1>3, <1>4, <1>6, <1>7

\* A round of audio_queue_write keeps the invariant.
LEMMA QueueWriteStep == IInv /\ QueueWrite => IInv'
  <1> SUFFICES ASSUME IInv, QueueWrite PROVE IInv'
    OBVIOUS
  <1>1. CASE stop
    <2>1. wpc' = "gone" /\ left' = 0 /\ UNCHANGED <<ringvars, sent, gen, epoch, heard, tmp, opc>>
      BY <1>1 DEF QueueWrite, ovars, device
    <2>2. Content' /\ InOrder(Out)' /\ Link'
      BY <2>1, Still
    <2>3. TypeOK'
      BY <1>1, <2>1, RingAssumption DEF IInv, TypeOK, QueueWrite, ringvars, ovars, device, WorkerPlace, Places
    <2>4. Control' /\ Ages'
      BY <1>1, <2>1 DEF IInv, Control, Ages, QueueWrite, ringvars
    <2> QED
      BY <2>2, <2>3, <2>4 DEF IInv
  <1>2. CASE ~stop
    <2>1. /\ CopyIn /\ wpc = "lock" /\ wpc' = "look"
          /\ UNCHANGED <<start, gen, epoch, heard, tmp, opc, dpc, stop, threadRunning, quit, running, prepared>>
      BY <1>2 DEF QueueWrite, ovars, device
    <2>2. gen = epoch
      BY <2>1 DEF IInv, Ages
    <2>3. PICK n \in 0 .. left :
            /\ size' = size + n /\ sent' = sent + n /\ left' = left - n
            /\ size' <= Capacity
            /\ buf' \in [Places -> Bytes \cup {Nothing}]
            /\ \A i \in 1 .. size' : RingAt(i)' = <<gen, sent' - size' + i>>
      BY <2>1, <2>2, CopyInFacts
    <2>4. size \in Nat /\ left \in Nat /\ sent \in Nat /\ left + sent <= MaxBytes /\ Capacity \in Nat /\ MaxBytes \in Nat
      BY RingAssumption DEF IInv, TypeOK
    <2>5. TypeOK'
      BY <2>1, <2>3, <2>4 DEF IInv, TypeOK, WorkerPlace, Places
    <2>6. Control' /\ Ages'
      <3>1. opc \notin {"exit", "unlock", "gone"}
        BY <1>2, <2>1 DEF IInv, Control, DemuxPlace
      <3>2. ~(gen < epoch) /\ dpc \notin {"unrun", "unprepare", "start"}
        BY <2>1, <2>2 DEF IInv, Ages, TypeOK
      <3>3. Control'
        BY <2>1, <3>1 DEF IInv, Control
      <3>4. Ages'
        BY <2>1, <2>2, <3>2 DEF IInv, Ages
      <3> QED
        BY <3>3, <3>4
    <2>7. Content'
      <3>1. size <= sent
        BY <2>2 DEF IInv, Content
      <3> QED
        BY <2>1, <2>3, <2>4, <3>1 DEF Content
    <2>8. Out' = Out
      BY <2>1 DEF Out
    <2>9. InOrder(Out)'
      BY <2>1, <2>8 DEF IInv, InOrder
    <2>10. sent' - size' = sent - size /\ (size' = sent' <=> size = sent) /\ (size' < sent' <=> size < sent)
      BY <2>3, <2>4
    <2>11. Link'
      BY <2>1, <2>8, <2>10 DEF IInv, Link, EndsWith
    <2> QED
      BY <2>5, <2>6, <2>7, <2>9, <2>11 DEF IInv
  <1> QED
    BY <1>1, <1>2

\* The worker's other steps.
LEMMA WorkerStep == IInv /\ Worker => IInv'
  <1> SUFFICES ASSUME IInv, NextFrame \/ WorkerEnds \/ QueueLook PROVE IInv'
    BY QueueWriteStep DEF Worker
  <1>1. UNCHANGED <<ringvars, gen, sent, epoch, heard, tmp, opc>>
    BY DEF NextFrame, WorkerEnds, QueueLook, ovars, device
  <1>2. Content' /\ InOrder(Out)' /\ Link'
    BY <1>1, Still
  <1>3. TypeOK'
    <2>1. CASE NextFrame
      <3>1. PICK n \in FrameSizes : sent + n <= MaxBytes /\ left' = n
        BY <2>1 DEF NextFrame
      <3>2. left' \in 0 .. MaxBytes /\ left' + sent <= MaxBytes
        BY <3>1, RingAssumption DEF IInv, TypeOK
      <3> QED
        BY <2>1, <3>2 DEF IInv, TypeOK, NextFrame, ringvars, ovars, device, WorkerPlace, Places
    <2>2. CASE WorkerEnds
      BY <2>2 DEF IInv, TypeOK, WorkerEnds, ringvars, ovars, device, WorkerPlace, Places
    <2>3. CASE QueueLook
      <3>1. left' \in 0 .. MaxBytes /\ left' + sent <= MaxBytes
        BY <2>3, RingAssumption DEF IInv, TypeOK, QueueLook
      <3> QED
        BY <2>3, <3>1 DEF IInv, TypeOK, QueueLook, ringvars, ovars, device, WorkerPlace, Places
    <2> QED
      BY <2>1, <2>2, <2>3
  <1>4. Control' /\ Ages'
    BY DEF IInv, Control, Ages, NextFrame, WorkerEnds, QueueLook, ringvars, ovars, device
  <1> QED
    BY <1>2, <1>3, <1>4 DEF IInv

-----------------------------------------------------------------------------
(* The output thread *)

\* A chunk taken follows what the device was given, and what is left follows the chunk.
LEMMA TakeStep == IInv /\ Take => IInv'
  <1> SUFFICES ASSUME IInv, Take PROVE IInv'
    OBVIOUS
  <1> DEFINE t == Taken
  <1>1. /\ opc = "take" /\ opc' = "pcm" /\ size > 0 /\ tmp = <<>>
        /\ tmp' = [i \in 1 .. t |-> RingAt(i)] /\ start' = (start + t) % Capacity /\ size' = size - t
        /\ UNCHANGED <<buf, stop, threadRunning, quit, wpc, gen, left, sent, dpc, epoch, running, prepared, heard>>
    BY DEF Take, IInv, Control, wvars, device
  <1>2. Capacity \in Nat \ {0} /\ start \in 0 .. Capacity - 1 /\ size \in 1 .. Capacity /\ Chunk \in Nat \ {0}
    BY <1>1, RingAssumption DEF IInv, TypeOK, Places
  <1>3. t \in 1 .. size /\ t <= Chunk
    BY <1>2 DEF Taken
  <1>4. \A i \in 1 .. size : RingAt(i) = <<epoch, sent - size + i>> /\ RingAt(i) \in Bytes
    BY RingBytes
  <1>5. gen = epoch /\ gen \in Nat
    BY <1>2, 1 \in 1 .. size, RingBytes DEF IInv, TypeOK
  <1>6. size <= sent /\ sent \in Nat
    BY <1>5 DEF IInv, Content, TypeOK
  <1> HIDE DEF t
  <1>7. tmp' \in Seq(Bytes) /\ Len(tmp') = t /\ \A i \in 1 .. t : tmp'[i] = <<gen, sent - size + i>>
    <2>1. \A i \in 1 .. t : RingAt(i) \in Bytes
      BY <1>2, <1>3, <1>4
    <2>2. tmp' \in [1 .. t -> Bytes] /\ t \in Nat
      BY <1>1, <1>2, <1>3, <2>1
    <2>3. tmp' \in Seq(Bytes) /\ Len(tmp') = t
      BY <2>2
    <2>4. \A i \in 1 .. t : tmp'[i] = <<gen, sent - size + i>>
      BY <1>1, <1>2, <1>3, <1>4, <1>5
    <2> QED
      BY <2>3, <2>4
  <1>8. TypeOK'
    <2>1. start' \in Places
      BY <1>1, <1>2, <1>3, InRing DEF Places
    <2>2. size' \in 0 .. Capacity
      BY <1>1, <1>2, <1>3
    <2> QED
      BY <1>1, <1>3, <1>7, <2>1, <2>2 DEF IInv, TypeOK, OutputPlace
  <1>9. Control' /\ Ages'
    BY <1>1, <1>2, <1>3, <1>5 DEF IInv, Control, Ages
  <1>10. Content'
    <2> SUFFICES ASSUME NEW i \in 1 .. size' PROVE RingAt(i)' = <<gen, sent - size' + i>>
      BY <1>1, <1>2, <1>3, <1>6 DEF Content
    <2> DEFINE j == i - 1
    <2>1. j \in Nat /\ t + j < Capacity /\ i = j + 1 /\ t + i \in 1 .. size
      BY <1>1, <1>2, <1>3
    <2> HIDE DEF j
    <2>2. (start' + j) % Capacity = (start + (t + j)) % Capacity
      BY <1>1, <1>2, <1>3, <2>1, Advance
    <2>3. start' + i - 1 = start' + j /\ start + (t + i) - 1 = start + (t + j)
      <3>1. start' \in Nat
        BY <1>8 DEF TypeOK, Places
      <3> QED
        BY <1>2, <1>3, <2>1, <3>1
    <2>4. RingAt(i)' = RingAt(t + i)
      BY <1>1, <2>2, <2>3 DEF RingAt
    <2>5. sent - size + (t + i) = sent - size' + i
      BY <1>1, <1>2, <1>3, <1>6, <2>1
    <2> QED
      BY <1>4, <1>5, <2>1, <2>4, <2>5
  <1> DEFINE h == Len(heard)
  <1>11. heard \in Seq(Bytes) /\ h \in Nat /\ Out = heard
    BY <1>1, LenProperties, ConcatEmptySeq DEF IInv, TypeOK, Out
  <1>12. /\ Len(Out') = h + t
         /\ \A i \in 1 .. h + t : Out'[i] = IF i <= h THEN heard[i] ELSE tmp'[i - h]
    <2>1. Out' = heard \o tmp'
      BY <1>1 DEF Out
    <2>2. /\ Len(heard \o tmp') = Len(heard) + Len(tmp')
          /\ \A i \in 1 .. Len(heard) + Len(tmp') :
                (heard \o tmp')[i] = IF i <= Len(heard) THEN heard[i] ELSE tmp'[i - Len(heard)]
      BY <1>7, <1>11, ConcatProperties
    <2> QED
      BY <1>7, <2>1, <2>2
  <1> HIDE DEF h
  <1>13. \A i \in 1 .. h : Out'[i] = heard[i]
    BY <1>2, <1>3, <1>11, <1>12
  <1>14. \A i \in h + 1 .. h + t : Out'[i] = <<gen, sent - size + (i - h)>>
    <2> TAKE i \in h + 1 .. h + t
    <2>1. i - h \in 1 .. t /\ ~(i <= h) /\ i \in 1 .. h + t
      BY <1>2, <1>3, <1>11
    <2> QED
      BY <1>7, <1>12, <2>1
  <1>15. InOrder(Out)'
    <2>1. \A i \in 1 .. h + t : Out'[i][1] <= gen
      <3> TAKE i \in 1 .. h + t
      <3>1. CASE i <= h
        BY <1>11, <1>13, <3>1 DEF IInv, InOrder, h
      <3>2. CASE i > h
        BY <1>2, <1>3, <1>5, <1>11, <1>14, <3>2
      <3> QED
        BY <1>2, <1>3, <1>11, <3>1, <3>2
    <2>2. \A i \in 1 .. h + t - 1 : Follows(Out'[i], Out'[i + 1])
      <3> TAKE i \in 1 .. h + t - 1
      <3>1. CASE i < h
        <4>1. i \in 1 .. h - 1 /\ i \in 1 .. h /\ i + 1 \in 1 .. h
          BY <1>11, <3>1
        <4>2. Follows(heard[i], heard[i + 1])
          BY <1>11, <4>1 DEF IInv, InOrder, h
        <4> QED
          BY <1>13, <4>1, <4>2
      <3>2. CASE i = h
        <4>1. h >= 1 /\ i \in 1 .. h /\ i + 1 \in h + 1 .. h + t /\ (i + 1) - h = 1
          BY <1>2, <1>3, <1>11, <3>2
        <4>2. Out'[i] = heard[h] /\ Out'[i + 1] = <<gen, sent - size + 1>>
          BY <1>13, <1>14, <3>2, <4>1
        <4>3. heard # <<>> /\ heard[h] \in Bytes
          BY <1>11, <4>1, EmptySeq, ElementOfSeq DEF h
        <4>4. \/ size = sent /\ heard[h][1] < gen
              \/ size < sent /\ heard[h] = <<gen, sent - size>>
          BY <1>1, <1>5, <1>11, <4>3, Joint DEF IInv, h
        <4>5. CASE size = sent /\ heard[h][1] < gen
          <5>1. sent - size + 1 = 1 /\ heard[h][1] # gen /\ gen > heard[h][1]
            BY <1>2, <1>5, <1>6, <4>3, <4>5 DEF Bytes
          <5> QED
            BY <4>2, <5>1 DEF Follows
        <4>6. CASE size < sent /\ heard[h] = <<gen, sent - size>>
          BY <4>2, <4>6 DEF Follows
        <4> QED
          BY <4>4, <4>5, <4>6
      <3>3. CASE i > h
        <4>1. i \in h + 1 .. h + t /\ i + 1 \in h + 1 .. h + t /\ (i + 1) - h = (i - h) + 1 /\ i - h \in Nat
          BY <1>2, <1>3, <1>11, <3>3
        <4>2. Out'[i] = <<gen, sent - size + (i - h)>> /\ Out'[i + 1] = <<gen, sent - size + ((i - h) + 1)>>
          BY <1>14, <4>1
        <4>3. sent - size + ((i - h) + 1) = sent - size + (i - h) + 1
          BY <1>2, <1>6, <4>1
        <4> QED
          BY <4>2, <4>3 DEF Follows
      <3>4. i < h \/ i = h \/ i > h
        BY <1>11
      <3> QED
        BY <3>1, <3>2, <3>3, <3>4
    <2>3. Out'[1][2] = 1
      <3>1. CASE h = 0
        <4>1. heard = <<>> /\ 1 \in h + 1 .. h + t /\ 1 - h = 1
          BY <1>2, <1>3, <1>11, <3>1, EmptySeq DEF h
        <4>2. size = sent
          <5>1. ~(heard # <<>>)
            BY <4>1
          <5> QED
            BY <1>1, <1>5, <1>11, <5>1, Joint DEF IInv
        <4>3. Out'[1] = <<gen, sent - size + 1>> /\ sent - size + 1 = 1
          BY <1>2, <1>6, <1>14, <4>1, <4>2
        <4> QED
          BY <4>3
      <3>2. CASE h > 0
        <4>1. heard # <<>> /\ 1 \in 1 .. h
          BY <1>11, <3>2, EmptySeq DEF h
        <4>2. heard[1][2] = 1
          BY <1>11, <4>1 DEF IInv, InOrder
        <4> QED
          BY <1>13, <4>1, <4>2
      <3> QED
        BY <1>11, <3>1, <3>2
    <2>4. gen' = gen /\ Len(Out') = h + t
      BY <1>1, <1>12
    <2>5. InOrder(Out')
      <3>1. \A i \in 1 .. Len(Out') : Out'[i][1] <= gen
        BY <2>1, <2>4
      <3>2. \A i \in 1 .. Len(Out') - 1 : Follows(Out'[i], Out'[i + 1])
        BY <1>2, <1>3, <1>11, <2>2, <2>4
      <3> QED
        BY <2>3, <3>1, <3>2, Zenon DEF InOrder
    <2> QED
      BY <2>4, <2>5 DEF InOrder, Follows
  <1>16. Link'
    <2> DEFINE k == sent - size
    <2>1. k \in Nat /\ sent' - size' = k + t /\ t \in Nat
      BY <1>1, <1>2, <1>3, <1>6
    <2>2. /\ k <= h
          /\ \A i \in 1 .. h - k : heard[i][1] < gen
          /\ \A i \in 1 .. k : heard[h - k + i] = <<gen, i>>
      BY <1>1, <1>5, <1>11 DEF IInv, Link, EndsWith, h
    <2> HIDE DEF k
    <2>3. Len(Out') = h + t /\ k + t <= h + t /\ (h + t) - (k + t) = h - k
      BY <1>11, <1>12, <2>1, <2>2
    <2>4. \A i \in 1 .. h - k : Out'[i][1] < gen
      <3> TAKE i \in 1 .. h - k
      <3>1. i \in 1 .. h
        BY <1>11, <2>1
      <3> QED
        BY <1>13, <2>2, <3>1
    <2>5. ASSUME NEW i \in 1 .. k + t PROVE Out'[h - k + i] = <<gen, i>>
      <3>1. CASE i <= k
        <4>1. h - k + i \in 1 .. h /\ i \in 1 .. k
          BY <1>11, <2>1, <2>2, <3>1
        <4> QED
          BY <1>13, <2>2, <4>1
      <3>2. CASE i > k
        <4>1. h - k + i \in h + 1 .. h + t /\ k + ((h - k + i) - h) = i
          BY <1>11, <2>1, <2>2, <3>2
        <4> QED
          BY <1>14, <4>1 DEF k
      <3> QED
        BY <2>1, <3>1, <3>2
    <2>6. EndsWith(Out, sent - size)'
      BY <1>1, <2>1, <2>3, <2>4, <2>5 DEF EndsWith
    <2> QED
      BY <2>6 DEF Link
  <1> QED
    BY <1>8, <1>9, <1>10, <1>15, <1>16 DEF IInv

\* The device fails or the player stops: the chunk is dropped.
LEMMA GiveUpStep == IInv /\ PcmGivesUp => IInv'
  <1> SUFFICES ASSUME IInv, PcmGivesUp PROVE IInv'
    OBVIOUS
  <1>1. /\ opc = "pcm" /\ opc' = "fail" /\ tmp' = <<>>
        /\ UNCHANGED <<buf, start, size, stop, threadRunning, quit, wpc, gen, left, sent, dpc, epoch, running, prepared, heard>>
    BY DEF PcmGivesUp, ringvars, wvars, device
  <1>2. TypeOK'
    BY <1>1, EmptySeq, RingAssumption DEF IInv, TypeOK, OutputPlace, Places
  <1>3. Control' /\ Ages' /\ Content' /\ Link'
    BY <1>1 DEF IInv, Control, Ages, Content, Link, RingAt
  <1>4. InOrder(Out)'
    <2>1. InOrder(heard \o <<>>)
      BY Front DEF IInv, TypeOK, Out
    <2>2. Out' = heard \o <<>> /\ gen' = gen
      BY <1>1 DEF Out
    <2> QED
      BY <2>1, <2>2 DEF InOrder, Follows
  <1> QED
    BY <1>2, <1>3, <1>4 DEF IInv

\* A write() moves bytes from the chunk to the device, however short it is.
LEMMA PcmWriteStep == IInv /\ PcmWrite => IInv'
  <1> SUFFICES ASSUME IInv, PcmWrite PROVE IInv'
    OBVIOUS
  <1>1. /\ opc = "write"
        /\ UNCHANGED <<buf, start, size, stop, threadRunning, quit, wpc, gen, left, sent, dpc, epoch, running, prepared>>
    BY DEF PcmWrite, ringvars, wvars
  <1>2. heard \in Seq(Bytes) /\ tmp \in Seq(Bytes) /\ Len(tmp) \in Nat /\ Len(tmp) <= Chunk
    BY LenProperties DEF IInv, TypeOK
  <1>3. CASE opc' = "mark"
    <2>1. PICK n \in 1 .. Len(tmp) : heard' = heard \o SubSeq(tmp, 1, n) /\ tmp' = SubSeq(tmp, n + 1, Len(tmp))
      BY <1>3 DEF PcmWrite
    <2>2. heard' \in Seq(Bytes) /\ tmp' \in Seq(Bytes) /\ Len(tmp') <= Len(tmp) /\ Out' = Out
      BY <1>2, <2>1, Moved DEF Out
    <2>3. TypeOK'
      <3>1. Len(tmp') \in Nat /\ Len(tmp') <= Chunk
        BY <1>2, <2>2, RingAssumption, LenProperties
      <3> QED
        BY <1>1, <1>3, <2>2, <3>1 DEF IInv, TypeOK, OutputPlace, Places
    <2>4. Control' /\ Ages' /\ Content' /\ Link'
      BY <1>1, <1>3, <2>2 DEF IInv, Control, Ages, Content, Link, EndsWith, RingAt
    <2>5. InOrder(Out)'
      BY <1>1, <2>2 DEF IInv, InOrder
    <2> QED
      BY <2>3, <2>4, <2>5 DEF IInv
  <1>4. CASE opc' # "mark"
    <2>1. tmp' = <<>> /\ opc' = "fail" /\ heard' = heard
      BY <1>4 DEF PcmWrite
    <2>2. TypeOK'
      BY <1>1, <2>1, EmptySeq, RingAssumption DEF IInv, TypeOK, OutputPlace, Places
    <2>3. Control' /\ Ages' /\ Content' /\ Link'
      BY <1>1, <2>1 DEF IInv, Control, Ages, Content, Link, RingAt
    <2>4. InOrder(Out)'
      <3>1. InOrder(heard \o <<>>)
        BY <1>2, Front DEF IInv, Out
      <3>2. Out' = heard \o <<>> /\ gen' = gen
        BY <1>1, <2>1 DEF Out
      <3> QED
        BY <3>1, <3>2 DEF InOrder, Follows
    <2> QED
      BY <2>2, <2>3, <2>4 DEF IInv
  <1> QED
    BY <1>3, <1>4

\* A device that failed empties the ring.
LEMMA FailStep == IInv /\ OutputFails => IInv'
  <1> SUFFICES ASSUME IInv, OutputFails PROVE IInv'
    OBVIOUS
  <1>1. /\ opc = "fail" /\ opc' = "exit" /\ stop' = TRUE /\ size' = 0
        /\ UNCHANGED <<buf, start, threadRunning, quit, wpc, gen, left, sent, tmp, dpc, epoch, running, prepared, heard>>
    BY DEF OutputFails, wvars, device
  <1>2. TypeOK'
    BY <1>1, RingAssumption DEF IInv, TypeOK, OutputPlace, Places
  <1>3. Control' /\ Ages' /\ Link'
    BY <1>1 DEF IInv, Control, Ages, Link
  <1>4. Content'
    BY <1>1 DEF IInv, TypeOK, Content
  <1>5. InOrder(Out)'
    BY <1>1 DEF IInv, InOrder, Out
  <1> QED
    BY <1>2, <1>3, <1>4, <1>5 DEF IInv

\* The output thread's steps.
LEMMA OutputStep == IInv /\ Output => IInv'
  <1> SUFFICES ASSUME IInv, TakeNothing \/ PcmReady \/ PcmMark \/ OutputExit \/ OutputUnlock PROVE IInv'
    BY TakeStep, GiveUpStep, PcmWriteStep, FailStep DEF Output
  <1>1. /\ UNCHANGED <<ringvars, wvars, stop, quit, epoch, heard, tmp, dpc>>
        /\ opc' \in {"take", "pcm", "write", "mark"} => opc \in {"take", "pcm", "write", "mark"}
    BY DEF TakeNothing, PcmReady, PcmMark, OutputExit, OutputUnlock, device
  <1>2. Content' /\ InOrder(Out)' /\ Link'
    BY <1>1, Still DEF wvars
  <1>3. TypeOK'
    BY <1>1, RingAssumption DEF IInv, TypeOK, TakeNothing, PcmReady, PcmMark, OutputExit, OutputUnlock,
       ringvars, wvars, device, OutputPlace, Places
  <1>4. Control' /\ Ages'
    BY <1>1 DEF IInv, Control, Ages, TakeNothing, PcmReady, PcmMark, OutputExit, OutputUnlock,
       ringvars, wvars, device
  <1> QED
    BY <1>2, <1>3, <1>4 DEF IInv

-----------------------------------------------------------------------------
(* The demultiplexer *)

\* A seek empties the ring; the worker that filled it is gone.
LEMMA ResetStep == IInv /\ ResetRing => IInv'
  <1> SUFFICES ASSUME IInv, ResetRing PROVE IInv'
    OBVIOUS
  <1>1. /\ dpc = "reset" /\ dpc' = "unrun" /\ start' = 0 /\ size' = 0 /\ epoch' = epoch + 1
        /\ UNCHANGED <<buf, stop, threadRunning, quit, wpc, gen, left, sent, opc, tmp, running, prepared, heard>>
    BY DEF ResetRing, DemuxGoes, wvars, ovars, device
  <1>2. TypeOK'
    <2>1. epoch' \in 1 .. MaxEpochs
      BY <1>1, RingAssumption DEF IInv, TypeOK, Ages
    <2> QED
      BY <1>1, <2>1, RingAssumption DEF IInv, TypeOK, DemuxPlace, Places
  <1>3. Control'
    BY <1>1 DEF IInv, Control, DemuxPlace
  <1>4. Ages' /\ ~(gen' = epoch')
    <2>1. wpc = "gone" /\ gen \in Nat /\ epoch \in Nat
      BY <1>1 DEF IInv, Control, DemuxPlace, TypeOK
    <2> QED
      BY <1>1, <2>1 DEF IInv, Ages
  <1>5. Content' /\ Link'
    BY <1>4 DEF Content, Link
  <1>6. InOrder(Out)'
    BY <1>1 DEF IInv, InOrder, Out
  <1> QED
    BY <1>2, <1>3, <1>4, <1>5, <1>6 DEF IInv

\* A worker started for a new position begins with byte 1 behind an empty ring.
LEMMA StartStep == IInv /\ StartWorker => IInv'
  <1> SUFFICES ASSUME IInv, StartWorker PROVE IInv'
    OBVIOUS
  <1>1. /\ dpc = "start" /\ dpc' = "play"
        /\ UNCHANGED <<buf, start, size, stop, threadRunning, quit, opc, tmp, epoch, running, prepared, heard>>
    BY DEF StartWorker, DemuxGoes, ringvars, ovars, device
  <1>2. size = 0 /\ gen < epoch /\ gen \in Nat /\ epoch \in 1 .. MaxEpochs /\ wpc = "gone"
    BY <1>1 DEF IInv, Ages, TypeOK, Control, DemuxPlace
  <1>3. CASE UNCHANGED wvars
    <2>1. Content' /\ InOrder(Out)' /\ Link'
      BY <1>1, <1>3, Still DEF ringvars, wvars
    <2>2. TypeOK' /\ Control' /\ Ages'
      BY <1>1, <1>2, <1>3 DEF IInv, TypeOK, Control, Ages, wvars, DemuxPlace, Places
    <2> QED
      BY <2>1, <2>2 DEF IInv
  <1>4. CASE wpc' = "idle" /\ gen' = epoch /\ left' = 0 /\ sent' = 0
    <2>1. TypeOK'
      BY <1>1, <1>2, <1>4, RingAssumption DEF IInv, TypeOK, WorkerPlace, DemuxPlace, Places
    <2>2. Control' /\ Ages'
      BY <1>1, <1>2, <1>4 DEF IInv, Control, Ages
    <2>3. Content'
      BY <1>1, <1>2, <1>4 DEF Content
    <2>4. Out' = Out /\ Out \in Seq(Bytes) /\ Len(Out) \in Nat
      BY <1>1, OutIsSeq DEF IInv, Out
    <2>5. \A i \in 1 .. Len(Out) : Out[i][1] <= gen /\ Out[i][1] < epoch /\ Out[i][1] <= epoch
      <3> TAKE i \in 1 .. Len(Out)
      <3>1. Out[i] \in Bytes
        BY <2>4, ElementOfSeq
      <3>2. Out[i][1] \in Nat /\ Out[i][1] <= gen
        BY <3>1 DEF IInv, InOrder, Bytes
      <3> QED
        BY <1>2, <3>2
    <2>6. InOrder(Out)'
      BY <1>4, <2>4, <2>5 DEF IInv, InOrder, Follows
    <2>7. Link'
      <3>1. sent' - size' = 0 /\ Len(Out) - 0 = Len(Out)
        BY <1>1, <1>2, <1>4, <2>4
      <3> QED
        BY <1>4, <2>4, <2>5, <3>1 DEF Link, EndsWith
    <2> QED
      BY <2>1, <2>2, <2>3, <2>6, <2>7 DEF IInv
  <1> QED
    BY <1>3, <1>4 DEF StartWorker

\* The demultiplexer's other steps only move it; the cleanup passes the output thread by only when
\* that has nothing left to do but its unlock.
LEMMA DemuxStep == IInv /\ Demux => IInv'
  <1> SUFFICES ASSUME IInv, Restart \/ JoinWorker \/ RestartFails \/ ResetDevice \/ End
                            \/ CloseQueue \/ JoinOutput \/ FreeAll
               PROVE  IInv'
    BY ResetStep, StartStep DEF Demux
  <1>1. UNCHANGED <<ringvars, wvars, ovars, threadRunning, quit, epoch, heard>>
    BY DEF Restart, JoinWorker, RestartFails, ResetDevice, End, CloseQueue, JoinOutput, FreeAll, device
  <1>2. Content' /\ InOrder(Out)' /\ Link'
    BY <1>1, Still DEF wvars, ovars
  <1>3. TypeOK'
    BY <1>1 DEF IInv, TypeOK, Restart, JoinWorker, RestartFails, ResetDevice, End, CloseQueue,
       JoinOutput, FreeAll, DemuxGoes, ringvars, wvars, ovars, device, DemuxPlace, Places
  <1>4. Control'
    BY <1>1 DEF IInv, Control, Restart, JoinWorker, RestartFails, ResetDevice, End, CloseQueue,
       JoinOutput, FreeAll, DemuxGoes, ringvars, wvars, ovars, DemuxPlace
  <1>5. Ages'
    BY <1>1 DEF IInv, Ages, Restart, JoinWorker, RestartFails, ResetDevice, End, CloseQueue,
       JoinOutput, FreeAll, DemuxGoes, ringvars, wvars, ovars
  <1> QED
    BY <1>2, <1>3, <1>4, <1>5 DEF IInv

-----------------------------------------------------------------------------
(* Theorems *)

\* IInv holds in every reachable state.
THEOREM RingInvariance == Spec => []IInv
  <1>1. Init => IInv
    <2> SUFFICES ASSUME Init PROVE IInv
      OBVIOUS
    <2>1. TypeOK
      <3>1. <<>> \in Seq(Bytes) /\ Len(<<>>) = 0
        BY EmptySeq
      <3>2. /\ 0 \in Places /\ 1 \in 1 .. MaxEpochs /\ 0 \in 0 .. MaxBytes /\ 0 \in 0 .. Capacity /\ 0 <= Chunk
            /\ 0 + 0 <= MaxBytes
        BY RingAssumption DEF Places
      <3> QED
        BY <3>1, <3>2 DEF Init, TypeOK, WorkerPlace, OutputPlace, DemuxPlace
    <2>2. Control /\ Ages
      BY DEF Init, Control, Ages, DemuxPlace
    <2>3. Content
      BY DEF Init, Content
    <2>4. Out = <<>>
      BY DEF Init, Out
    <2>5. InOrder(Out) /\ Link
      BY <2>4, EmptySeq DEF Init, InOrder, Link, EndsWith
    <2> QED
      BY <2>1, <2>2, <2>3, <2>5 DEF IInv
  <1>2. IInv /\ [Next]_vars => IInv'
    <2> SUFFICES ASSUME IInv, [Next]_vars PROVE IInv'
      OBVIOUS
    <2>1. CASE RequestStop
      <3>1. Content' /\ InOrder(Out)' /\ Link'
        BY <2>1, Still DEF RequestStop, wvars, ovars, device
      <3>2. TypeOK' /\ Control' /\ Ages'
        BY <2>1 DEF IInv, TypeOK, Control, Ages, RequestStop, ringvars, wvars, ovars, device, Places
      <3> QED
        BY <3>1, <3>2 DEF IInv
    <2>2. CASE UNCHANGED vars
      <3>1. Content' /\ InOrder(Out)' /\ Link'
        BY <2>2, Still DEF vars, wvars, ovars, device
      <3>2. TypeOK' /\ Control' /\ Ages'
        BY <2>2 DEF IInv, TypeOK, Control, Ages, vars, ringvars, wvars, ovars, device, Places
      <3> QED
        BY <3>1, <3>2 DEF IInv
    <2> QED
      BY <2>1, <2>2, WorkerStep, OutputStep, DemuxStep DEF Next, Finished
  <1> QED
    BY <1>1, <1>2, PTL DEF Spec

\* Types; the ring never overflows and a chunk never exceeds the output thread's buffer, for every
\* capacity, chunk and frame size.
THEOREM RingTypeCorrect == Spec => []TypeOK
  <1>1. IInv => TypeOK
    BY DEF IInv
  <1> QED
    BY <1>1, RingInvariance, PTL

\* The device gets every position's bytes from the first on, in order and without holes.
THEOREM SoundStaysInOrder == Spec => []SoundInOrder
  <1>1. IInv => SoundInOrder
    BY DEF IInv, InOrder, SoundInOrder, Out
  <1> QED
    BY <1>1, RingInvariance, PTL

\* After a seek the ring holds nothing of the old position.
THEOREM SeekEmptiesRing == Spec => []SeekFlushes
  <1>1. IInv => SeekFlushes
    BY RingBytes DEF SeekFlushes
  <1> QED
    BY <1>1, RingInvariance, PTL

\* An output thread that ends leaves no sound behind and no writer waiting for room.
THEOREM NoneStranded == Spec => []NothingStranded
  <1>1. IInv => NothingStranded
    BY DEF IInv, Control, NothingStranded, DemuxPlace
  <1> QED
    BY <1>1, RingInvariance, PTL

\* Neither thread touches ring or device after the cleanup.
THEOREM FreedStaysQuiet == Spec => []FreedIsQuiet
  <1>1. IInv => FreedIsQuiet
    BY DEF IInv, Control, FreedIsQuiet, DemuxPlace
  <1> QED
    BY <1>1, RingInvariance, PTL

\* What the ring hands on is in order and of the right position, for every size.
THEOREM RingIsSound == Spec => []RingSound
  <1>1. SoundInOrder /\ SeekFlushes => RingSound
    BY DEF RingSound
  <1> QED
    BY <1>1, SoundStaysInOrder, SeekEmptiesRing, PTL

\* Who ends strands nobody, and what is freed stays untouched.
THEOREM EndsAreClean == Spec => []EndsClean
  <1>1. NothingStranded /\ FreedIsQuiet => EndsClean
    BY DEF EndsClean
  <1> QED
    BY <1>1, NoneStranded, FreedStaysQuiet, PTL

\* Nothing queued since the last seek is lost, doubled or held back, while the queue is not stopped
\* and the device works, for every size.
THEOREM SoundStaysIntact == Spec => []SoundIntact
  <1>1. IInv => SoundIntact
    <2> SUFFICES ASSUME IInv, ~stop, opc # "fail", epoch = gen PROVE SoundIntact
      BY DEF SoundIntact
    <2> DEFINE l == Len(Out)   k == sent - size   all == Out \o Queued   old == Len(all) - sent
    <2>1. size \in Nat /\ sent \in Nat /\ size <= sent /\ gen \in Nat
      BY RingAssumption DEF IInv, TypeOK, Content
    <2>2. k \in Nat /\ k + size = sent
      BY <2>1
    <2>3. Out \in Seq(Bytes) /\ l \in Nat
      BY OutIsSeq DEF IInv
    <2>4. Queued \in Seq(Bytes) /\ Len(Queued) = size /\ \A i \in 1 .. size : Queued[i] = <<gen, k + i>>
      <3>1. \A i \in 1 .. size : RingAt(i) = <<gen, k + i>> /\ RingAt(i) \in Bytes
        BY RingBytes
      <3>2. Queued \in [1 .. size -> Bytes]
        BY <3>1 DEF Queued
      <3>3. Queued \in Seq(Bytes) /\ Len(Queued) = size
        BY <2>1, <3>2
      <3> QED
        BY <3>1, <3>3 DEF Queued
    <2>5. EndsWith(Out, k)
      <3>1. CASE opc \in {"take", "pcm", "write", "mark"}
        BY <3>1 DEF IInv, Link
      <3>2. CASE opc \in {"exit", "unlock", "gone"}
        <4>1. size = 0 /\ sent = 0 /\ heard = <<>> /\ tmp = <<>>
          BY <3>2 DEF IInv, Control
        <4>2. Out = <<>> /\ l = 0 /\ k = 0
          BY <2>1, <4>1, EmptySeq, ConcatEmptySeq DEF Out
        <4> QED
          BY <4>2 DEF EndsWith
      <3> QED
        BY <3>1, <3>2 DEF IInv, TypeOK, OutputPlace
    <2>6. /\ Len(all) = l + size
          /\ \A i \in 1 .. l + size : all[i] = IF i <= l THEN Out[i] ELSE Queued[i - l]
      BY <2>3, <2>4, ConcatProperties
    <2>7. k <= l /\ (\A i \in 1 .. l - k : Out[i][1] < gen) /\ (\A i \in 1 .. k : Out[l - k + i] = <<gen, i>>)
      BY <2>5 DEF EndsWith
    <2> HIDE DEF l, k, all
    <2>8. old = l - k
      BY <2>1, <2>2, <2>3, <2>6
    <2> HIDE DEF old
    <2>9. ASSUME NEW i \in 1 .. l + size
          PROVE  IF i <= old THEN all[i][1] # gen ELSE all[i] = <<gen, i - old>>
      <3>1. CASE i <= old
        <4>1. i \in 1 .. l - k /\ i <= l
          BY <2>2, <2>3, <2>8, <3>1
        <4>2. all[i] = Out[i] /\ Out[i][1] < gen /\ Out[i] \in Bytes
          BY <2>3, <2>6, <2>7, <4>1, ElementOfSeq DEF l
        <4>3. Out[i][1] \in Nat
          BY <4>2 DEF Bytes
        <4> QED
          BY <2>1, <3>1, <4>2, <4>3
      <3>2. CASE i > old /\ i <= l
        <4>1. i - old \in 1 .. k /\ l - k + (i - old) = i
          BY <2>2, <2>3, <2>7, <2>8, <3>2
        <4>2. Out[i] = <<gen, i - old>>
          BY <2>7, <4>1
        <4> QED
          BY <2>2, <2>3, <2>6, <2>8, <3>2, <4>2
      <3>3. CASE i > l
        <4>1. i - l \in 1 .. size /\ k + (i - l) = i - old /\ ~(i <= l) /\ ~(i <= old)
          BY <2>1, <2>2, <2>3, <2>7, <2>8, <3>3
        <4>2. all[i] = Queued[i - l] /\ Queued[i - l] = <<gen, k + (i - l)>>
          BY <2>4, <2>6, <4>1
        <4> QED
          BY <4>1, <4>2
      <3>4. (i <= old) \/ (i > old /\ i <= l) \/ i > l
        BY <2>2, <2>3, <2>8
      <3> QED
        BY <3>1, <3>2, <3>3, <3>4
    <2>10. sent <= Len(all)
      BY <2>1, <2>2, <2>3, <2>6, <2>7
    <2>11. heard \o tmp \o Queued = all
      BY DEF all, Out
    <2> QED
      BY <2>6, <2>9, <2>10, <2>11 DEF SoundIntact, old
  <1> QED
    BY <1>1, RingInvariance, PTL

=============================================================================
