---------------------------- MODULE UdpNatProofs ----------------------------
(***************************************************************************)
(* Proofs about UdpNat for any number of sessions, tuples and sockets.     *)
(***************************************************************************)
EXTENDS UdpNat, SequenceTheorems, TLAPS

-----------------------------------------------------------------------------
(* Sequences without repetition. *)

\* Taking one entry out of a sequence keeps the others.
LEMMA RemoveAtEntries ==
  ASSUME NEW S, NEW q \in Seq(S), NEW i \in 1 .. Len(q)
  PROVE  /\ RemoveAt(q, i) \in Seq(S)
         /\ Len(RemoveAt(q, i)) = Len(q) - 1
         /\ \A j \in 1 .. i - 1 : RemoveAt(q, i)[j] = q[j]
         /\ \A j \in i .. Len(q) - 1 : RemoveAt(q, i)[j] = q[j + 1]
  <1> DEFINE a == SubSeq(q, 1, i - 1)
             b == SubSeq(q, i + 1, Len(q))
             r == a \o b
  <1>1. Len(q) \in Nat
    BY LenProperties
  <1>2. /\ a \in Seq(S) /\ Len(a) = i - 1
        /\ \A j \in 1 .. i - 1 : a[j] = q[j]
    BY <1>1
  <1>3. /\ b \in Seq(S) /\ Len(b) = Len(q) - i
        /\ \A j \in 1 .. Len(q) - i : b[j] = q[i + j]
    BY <1>1
  <1> HIDE DEF a, b
  <1>4. /\ r \in Seq(S) /\ Len(r) = Len(a) + Len(b)
        /\ \A j \in 1 .. Len(a) + Len(b) : r[j] = IF j <= Len(a) THEN a[j] ELSE b[j - Len(a)]
    BY <1>2, <1>3, ConcatProperties
  <1>5. RemoveAt(q, i) = r
    BY DEF RemoveAt, a, b
  <1> HIDE DEF r
  <1>6. ASSUME NEW j \in 1 .. i - 1
        PROVE  r[j] = q[j]
    <2>1. j \in 1 .. Len(a) + Len(b) /\ j <= Len(a)
      BY <1>1, <1>2, <1>3
    <2>2. r[j] = a[j]
      BY <1>4, <2>1
    <2> QED BY <1>2, <2>2
  <1>7. ASSUME NEW j \in i .. Len(q) - 1
        PROVE  r[j] = q[j + 1]
    <2>1. /\ j \in 1 .. Len(a) + Len(b) /\ ~(j <= Len(a))
          /\ j - Len(a) \in 1 .. Len(q) - i /\ i + (j - Len(a)) = j + 1
      BY <1>1, <1>2, <1>3
    <2>2. r[j] = b[j - Len(a)]
      BY <1>4, <2>1
    <2>3. b[j - Len(a)] = q[j + 1]
      BY <1>3, <2>1
    <2> QED BY <2>2, <2>3
  <1>8. Len(r) = Len(q) - 1
    BY <1>1, <1>2, <1>3, <1>4
  <1> QED BY <1>4, <1>5, <1>6, <1>7, <1>8

LEMMA RemoveAtElems ==
  ASSUME NEW S, NEW q \in Seq(S), NEW i \in 1 .. Len(q), Distinct(q)
  PROVE  /\ RemoveAt(q, i) \in Seq(S)
         /\ Distinct(RemoveAt(q, i))
         /\ Elems(RemoveAt(q, i)) = Elems(q) \ {q[i]}
  <1> DEFINE r == RemoveAt(q, i)
  <1>1. /\ r \in Seq(S) /\ Len(r) = Len(q) - 1
        /\ \A j \in 1 .. i - 1 : r[j] = q[j]
        /\ \A j \in i .. Len(q) - 1 : r[j] = q[j + 1]
    BY RemoveAtEntries
  <1>2. Len(q) \in Nat /\ DOMAIN q = 1 .. Len(q) /\ DOMAIN r = 1 .. Len(q) - 1
    BY <1>1, LenProperties
  <1> HIDE DEF r
  <1>3. Distinct(r)
    <2> SUFFICES ASSUME NEW j \in 1 .. Len(q) - 1, NEW k \in 1 .. Len(q) - 1, r[j] = r[k]
                 PROVE  j = k
      BY <1>2 DEF Distinct
    <2> DEFINE At(m) == IF m < i THEN m ELSE m + 1
    <2>1. \A m \in 1 .. Len(q) - 1 : At(m) \in DOMAIN q /\ r[m] = q[At(m)]
      BY <1>1, <1>2
    <2>2. At(j) \in DOMAIN q /\ At(k) \in DOMAIN q /\ q[At(j)] = q[At(k)]
      BY <2>1
    <2> HIDE DEF At
    <2>3. At(j) = At(k)
      BY <2>2 DEF Distinct
    <2> QED BY <1>2, <2>3 DEF At
  <1>4. ASSUME NEW x \in Elems(r)
        PROVE  x \in Elems(q) \ {q[i]}
    <2>1. PICK j \in 1 .. Len(q) - 1 : x = r[j]
      BY <1>2 DEF Elems
    <2>2. CASE j < i
      <3>1. x = q[j] /\ j \in 1 .. Len(q) /\ j # i
        BY <1>1, <1>2, <2>1, <2>2
      <3> QED BY <1>2, <3>1 DEF Elems, Distinct
    <2>3. CASE j >= i
      <3>1. x = q[j + 1] /\ j + 1 \in 1 .. Len(q) /\ j + 1 # i
        BY <1>1, <1>2, <2>1, <2>3
      <3> QED BY <1>2, <3>1 DEF Elems, Distinct
    <2> QED BY <1>2, <2>2, <2>3
  <1>5. ASSUME NEW x \in Elems(q) \ {q[i]}
        PROVE  x \in Elems(r)
    <2>1. PICK j \in 1 .. Len(q) : x = q[j]
      BY <1>2 DEF Elems
    <2>2. CASE j < i
      <3>1. j \in 1 .. Len(q) - 1 /\ r[j] = x
        BY <1>1, <1>2, <2>1, <2>2
      <3> QED BY <1>2, <3>1 DEF Elems
    <2>3. CASE j > i
      <3>1. j - 1 \in 1 .. Len(q) - 1 /\ r[j - 1] = x
        BY <1>1, <1>2, <2>1, <2>3
      <3> QED BY <1>2, <3>1 DEF Elems
    <2> QED BY <1>2, <2>1, <2>2, <2>3
  <1> QED BY <1>1, <1>3, <1>4, <1>5 DEF r

\* Putting a new entry in front.
LEMMA ConsElems ==
  ASSUME NEW S, NEW q \in Seq(S), NEW x \in S, x \notin Elems(q), Distinct(q)
  PROVE  /\ <<x>> \o q \in Seq(S)
         /\ Distinct(<<x>> \o q)
         /\ Elems(<<x>> \o q) = Elems(q) \cup {x}
  <1> DEFINE r == <<x>> \o q
  <1>1. Len(q) \in Nat /\ DOMAIN q = 1 .. Len(q)
    BY LenProperties
  <1>2. /\ r \in Seq(S) /\ Len(r) = Len(q) + 1
        /\ r[1] = x
        /\ \A j \in 2 .. Len(q) + 1 : r[j] = q[j - 1]
    BY <1>1
  <1>3. DOMAIN r = 1 .. Len(q) + 1
    BY <1>2, LenProperties
  <1> HIDE DEF r
  <1>4. Distinct(r)
    <2> SUFFICES ASSUME NEW i \in 1 .. Len(q) + 1, NEW j \in 1 .. Len(q) + 1, r[i] = r[j]
                 PROVE  i = j
      BY <1>3 DEF Distinct
    <2>1. CASE i = 1 /\ j = 1
      BY <2>1
    <2>2. CASE i = 1 /\ j # 1
      <3>1. j - 1 \in DOMAIN q /\ q[j - 1] = x
        BY <1>1, <1>2, <2>2
      <3> QED BY <3>1 DEF Elems
    <2>3. CASE i # 1 /\ j = 1
      <3>1. i - 1 \in DOMAIN q /\ q[i - 1] = x
        BY <1>1, <1>2, <2>3
      <3> QED BY <3>1 DEF Elems
    <2>4. CASE i # 1 /\ j # 1
      <3>1. i - 1 \in DOMAIN q /\ j - 1 \in DOMAIN q /\ q[i - 1] = q[j - 1]
        BY <1>1, <1>2, <2>4
      <3> QED BY <1>1, <3>1 DEF Distinct
    <2> QED BY <2>1, <2>2, <2>3, <2>4
  <1>5. ASSUME NEW y \in Elems(r)
        PROVE  y \in Elems(q) \cup {x}
    <2>1. PICK j \in 1 .. Len(q) + 1 : y = r[j]
      BY <1>3 DEF Elems
    <2>2. CASE j # 1
      <3>1. j - 1 \in DOMAIN q /\ q[j - 1] = y
        BY <1>1, <1>2, <2>1, <2>2
      <3> QED BY <3>1 DEF Elems
    <2> QED BY <1>2, <2>1, <2>2
  <1>6. ASSUME NEW y \in Elems(q)
        PROVE  y \in Elems(r)
    <2>1. PICK j \in 1 .. Len(q) : y = q[j]
      BY <1>1 DEF Elems
    <2>2. j + 1 \in DOMAIN r /\ r[j + 1] = y
      BY <1>1, <1>2, <1>3, <2>1
    <2> QED BY <2>2 DEF Elems
  <1>7. x \in Elems(r)
    BY <1>1, <1>2, <1>3 DEF Elems
  <1> QED BY <1>2, <1>4, <1>5, <1>6, <1>7 DEF r

\* Taking the first entry off.
LEMMA TailElems ==
  ASSUME NEW S, NEW q \in Seq(S), q # << >>, Distinct(q)
  PROVE  /\ Tail(q) \in Seq(S) /\ Head(q) \in S
         /\ Distinct(Tail(q))
         /\ Head(q) \in Elems(q)
         /\ Elems(Tail(q)) = Elems(q) \ {Head(q)}
  <1> DEFINE r == Tail(q)
  <1>1. Len(q) \in Nat \ {0} /\ DOMAIN q = 1 .. Len(q) /\ Head(q) = q[1]
    BY LenProperties, EmptySeq
  <1>2. /\ r \in Seq(S) /\ Len(r) = Len(q) - 1
        /\ \A j \in 1 .. Len(q) - 1 : r[j] = q[j + 1]
    BY <1>1, HeadTailProperties
  <1>3. DOMAIN r = 1 .. Len(q) - 1
    BY <1>2, LenProperties
  <1> HIDE DEF r
  <1>4. Distinct(r)
    <2> SUFFICES ASSUME NEW j \in 1 .. Len(q) - 1, NEW k \in 1 .. Len(q) - 1, r[j] = r[k]
                 PROVE  j = k
      BY <1>3 DEF Distinct
    <2>1. j + 1 \in DOMAIN q /\ k + 1 \in DOMAIN q /\ q[j + 1] = q[k + 1]
      BY <1>1, <1>2
    <2>2. j + 1 = k + 1
      BY <2>1 DEF Distinct
    <2> QED BY <1>1, <2>2
  <1>5. ASSUME NEW y \in Elems(r)
        PROVE  y \in Elems(q) \ {q[1]}
    <2>1. PICK j \in 1 .. Len(q) - 1 : y = r[j]
      BY <1>3 DEF Elems
    <2>2. j + 1 \in DOMAIN q /\ j + 1 # 1 /\ y = q[j + 1] /\ 1 \in DOMAIN q
      BY <1>1, <1>2, <2>1
    <2> QED BY <2>2 DEF Elems, Distinct
  <1>6. ASSUME NEW y \in Elems(q) \ {q[1]}
        PROVE  y \in Elems(r)
    <2>1. PICK j \in 1 .. Len(q) : y = q[j]
      BY <1>1 DEF Elems
    <2>2. j - 1 \in DOMAIN r /\ r[j - 1] = y
      BY <1>1, <1>2, <1>3, <2>1
    <2> QED BY <2>2 DEF Elems
  <1>7. q[1] \in Elems(q) /\ q[1] \in S
    BY <1>1 DEF Elems
  <1> QED BY <1>1, <1>2, <1>4, <1>5, <1>6, <1>7 DEF r

LEMMA NoElems == Elems(<< >>) = {} /\ Distinct(<< >>)
  BY DEF Elems, Distinct

LEMMA ElemsType ==
  ASSUME NEW S, NEW q \in Seq(S)
  PROVE  Elems(q) \subseteq S
  BY DEF Elems

-----------------------------------------------------------------------------
(* The parts of the invariant over every step. *)

\* Receiver steps of one session.
LEMMA ReceiverCases ==
  ASSUME NEW s \in Sessions, Receiver(s) \/ GoesIdle(s)
  PROVE  \/ RecvLoop(s) \/ RecvDatagram(s) \/ RecvNothing(s) \/ Expire(s) \/ CloseExpired(s)
         \/ PublishDone(s) \/ Return(s) \/ GoesIdle(s)
  BY DEF Receiver, RecvReturns

\* Steps that change neither the list, nor a session's or a thread's fields, nor a socket.
QuietStep ==
    \/ \E k \in Keys : ForwardKnown(k) \/ ForwardUnknown(k)
    \/ ReapSkip \/ ReapEnd \/ CreateFails
    \/ ExitBegin \/ ExitIcmpWedges \/ ExitEnd
    \/ IcmpLoop \/ IcmpRecv

LEMMA StepCases ==
  ASSUME Next
  PROVE  \/ QuietStep \/ UNCHANGED vars
         \/ ReapJoin \/ ExitIcmp \/ ExitDetach \/ ExitJoin
         \/ \E s \in Sessions, f \in Fds : CreateSession(s, f)
         \/ \E f \in Fds : ForwardIcmp(f)
         \/ \E s \in Sessions : Receiver(s) \/ GoesIdle(s)
  BY DEF Next, Forward, Reap, Create, Exit, QuietStep

\* closing keeps sock a function into owners
LEMMA ClosedType ==
  ASSUME TypeOK, NEW f \in Fds \cup {NoFd}
  PROVE  /\ Closed(f) \in [Fds -> Owner]
         /\ \A g \in Fds : g # f => Closed(f)[g] = sock[g]
         /\ f \in Fds => Closed(f)[f] = Nobody
  BY UdpAssumption DEF TypeOK, Closed, Owner

LEMMA QuietUnchanged ==
  ASSUME QuietStep
  PROVE  UNCHANGED <<udp_list, allocated, freed, key, active, thread_done, ewok_fd, idle, rpc, rfd,
                     icmp_fd, dying, sock>>
  BY DEF QuietStep, ForwardKnown, ForwardUnknown, ReapSkip, ReapEnd, CreateFails, ExitBegin,
         ExitIcmpWedges, ExitEnd, IcmpLoop, IcmpRecv, vars, memory, fields, threads, icmpvars, emuvars

LEMMA QuietTypes ==
  ASSUME TypeOK, QuietStep
  PROVE  /\ ipc' \in IcmpPlace /\ net_active' \in BOOLEAN /\ epc' \in EmuPlace
         /\ want' \in Keys \cup {NoKey} /\ cursor' \in Nat \ {0}
         /\ udp_mutex' \in {Nobody, Emu}
  <1> USE DEF TypeOK, IcmpPlace, EmuPlace, vars, memory, fields, threads, icmpvars, emuvars
  <1>1. CASE \E k \in Keys : ForwardKnown(k)
    BY <1>1 DEF ForwardKnown
  <1>2. CASE \E k \in Keys : ForwardUnknown(k)
    BY <1>2 DEF ForwardUnknown
  <1>3. CASE ReapSkip
    BY <1>3 DEF ReapSkip
  <1>4. CASE ReapEnd \/ CreateFails
    BY <1>4 DEF ReapEnd, CreateFails
  <1>5. CASE ExitBegin \/ ExitIcmpWedges \/ ExitEnd
    BY <1>5 DEF ExitBegin, ExitIcmpWedges, ExitEnd
  <1>6. CASE IcmpLoop \/ IcmpRecv
    BY <1>6 DEF IcmpLoop, IcmpRecv
  <1> QED BY <1>1, <1>2, <1>3, <1>4, <1>5, <1>6 DEF QuietStep

LEMMA TypeStep ==
  ASSUME TypeOK, ListInv, Next
  PROVE  TypeOK'
  <1> USE DEF memory, fields, threads, icmpvars, emuvars
  <1>1. CASE QuietStep
    BY <1>1, QuietUnchanged, QuietTypes DEF TypeOK
  <1>2. CASE UNCHANGED vars
    BY <1>2 DEF TypeOK, vars
  <1>3. CASE ReapJoin
    <2> DEFINE s == udp_list[cursor]
    <2>1. cursor \in 1 .. Len(udp_list) /\ Distinct(udp_list) /\ udp_list \in Seq(Sessions)
      BY <1>3, LenProperties DEF ReapJoin, TypeOK, ListInv
    <2>2. udp_list' \in Seq(Sessions)
      BY <1>3, <2>1, RemoveAtElems DEF ReapJoin
    <2>3. s \in Sessions /\ s \in Elems(udp_list)
      BY <2>1 DEF Elems
    <2>4. sock' \in [Fds -> Owner]
      BY <1>3, <2>3, ClosedType DEF ReapJoin, TypeOK
    <2>5. freed' \subseteq allocated
      BY <1>3, <2>3 DEF ReapJoin, TypeOK, ListInv
    <2> QED BY <1>3, <2>2, <2>4, <2>5 DEF ReapJoin, TypeOK
  <1>4. CASE ExitIcmp
    <2>1. sock' \in [Fds -> Owner]
      BY <1>4, ClosedType DEF ExitIcmp, TypeOK
    <2> QED BY <1>4, <2>1 DEF ExitIcmp, TypeOK, EmuPlace
  <1>5. CASE ExitDetach
    BY <1>5, EmptySeq DEF ExitDetach, TypeOK, EmuPlace
  <1>6. CASE ExitJoin
    <2>1. /\ dying' \in Seq(Sessions) /\ Head(dying) \in Sessions
          /\ Head(dying) \in Elems(dying)
      BY <1>6, TailElems DEF ExitJoin, TypeOK, ListInv
    <2>2. sock' \in [Fds -> Owner]
      BY <1>6, <2>1, ClosedType DEF ExitJoin, TypeOK
    <2>3. freed' \subseteq allocated
      BY <1>6, <2>1 DEF ExitJoin, TypeOK, ListInv
    <2> QED BY <1>6, <2>1, <2>2, <2>3 DEF ExitJoin, TypeOK
  <1>7. ASSUME NEW s \in Sessions, NEW f \in Fds, CreateSession(s, f)
        PROVE  TypeOK'
    <2>1. s \notin Elems(udp_list) /\ Distinct(udp_list) /\ udp_list \in Seq(Sessions)
      BY <1>7 DEF CreateSession, ListInv, TypeOK
    <2>2. udp_list' \in Seq(Sessions)
      BY <1>7, <2>1, ConsElems DEF CreateSession
    <2> QED BY <1>7, <2>2 DEF CreateSession, TypeOK, EmuPlace, RecvPlace, Owner
  <1>8. ASSUME NEW f \in Fds, ForwardIcmp(f)
        PROVE  TypeOK'
    BY <1>8 DEF ForwardIcmp, TypeOK, Owner
  <1>9. ASSUME NEW s \in Sessions, Receiver(s) \/ GoesIdle(s)
        PROVE  TypeOK'
    <2>1. CASE RecvLoop(s) \/ RecvNothing(s) \/ Return(s)
      BY <2>1 DEF RecvLoop, RecvNothing, Return, TypeOK, RecvPlace
    <2>2. CASE RecvDatagram(s) \/ GoesIdle(s) \/ PublishDone(s)
      BY <2>2 DEF RecvDatagram, GoesIdle, PublishDone, TypeOK, RecvPlace
    <2>3. CASE Expire(s)
      BY <2>3 DEF Expire, TypeOK, RecvPlace
    <2>4. CASE CloseExpired(s)
      <3>1. sock' \in [Fds -> Owner]
        BY <2>4, ClosedType DEF CloseExpired, TypeOK
      <3> QED BY <2>4, <3>1 DEF CloseExpired, TypeOK, RecvPlace
    <2> QED BY <1>9, <2>1, <2>2, <2>3, <2>4, ReceiverCases
  <1> QED BY <1>1, <1>2, <1>3, <1>4, <1>5, <1>6, <1>7, <1>8, <1>9, StepCases

LEMMA ListStep ==
  ASSUME TypeOK, ListInv, Next
  PROVE  ListInv'
  <1> USE DEF memory, fields, threads, icmpvars, emuvars
  <1>1. CASE QuietStep
    <2>1. /\ epc' = "exit_join" => epc = "exit_join"
          /\ epc' \in {"exit_join", "exited"} => epc \in {"exit_join", "exited"}
          /\ epc = "exit_join" => epc' = "exit_join" \/ dying = << >>
      BY <1>1 DEF QuietStep, ForwardKnown, ForwardUnknown, ReapSkip, ReapEnd, CreateFails,
                  ExitBegin, ExitIcmpWedges, ExitEnd, IcmpLoop, IcmpRecv, vars
    <2> QED BY <1>1, <2>1, QuietUnchanged DEF ListInv
  <1>2. CASE UNCHANGED vars
    BY <1>2 DEF ListInv, vars
  <1>3. CASE ReapJoin
    <2> DEFINE s == udp_list[cursor]
    <2>1. cursor \in 1 .. Len(udp_list) /\ Distinct(udp_list) /\ udp_list \in Seq(Sessions)
      BY <1>3, LenProperties DEF ReapJoin, TypeOK, ListInv
    <2>2. Distinct(udp_list') /\ Elems(udp_list') = Elems(udp_list) \ {s}
      BY <1>3, <2>1, RemoveAtElems DEF ReapJoin
    <2>3. s \in Sessions /\ s \in Elems(udp_list) /\ ~active[s] /\ freed' = freed \cup {s}
      BY <1>3, <2>1 DEF Elems, ReapJoin
    <2>4. dying = << >> /\ dying' = << >> /\ epc' = "reap" /\ allocated' = allocated /\ active' = active
      BY <1>3 DEF ReapJoin, ListInv
    <2> HIDE DEF s
    <2> QED BY <2>2, <2>3, <2>4, NoElems DEF ListInv
  <1>4. CASE ExitIcmp
    BY <1>4 DEF ExitIcmp, ListInv
  <1>5. CASE ExitDetach
    <2>1. dying = << >> /\ dying' = udp_list /\ udp_list' = << >> /\ epc' = "exit_join"
          /\ allocated' = allocated /\ freed' = freed
      BY <1>5 DEF ExitDetach, ListInv
    <2>2. \A s \in Sessions : ~active'[s]
      BY <1>5 DEF ExitDetach, ListInv, Elems
    <2> QED BY <2>1, <2>2, NoElems DEF ListInv
  <1>6. CASE ExitJoin
    <2>1. /\ Distinct(dying') /\ Head(dying) \in Elems(dying) /\ Head(dying) \in Sessions
          /\ Elems(dying') = Elems(dying) \ {Head(dying)}
      BY <1>6, TailElems DEF ExitJoin, TypeOK, ListInv
    <2>2. /\ udp_list = << >> /\ udp_list' = << >> /\ epc' = "exit_join"
          /\ freed' = freed \cup {Head(dying)} /\ allocated' = allocated /\ active' = active
      BY <1>6 DEF ExitJoin, ListInv
    <2> QED BY <2>1, <2>2, NoElems DEF ListInv
  <1>7. ASSUME NEW s \in Sessions, NEW f \in Fds, CreateSession(s, f)
        PROVE  ListInv'
    <2>1. s \notin Elems(udp_list) /\ Distinct(udp_list) /\ udp_list \in Seq(Sessions)
      BY <1>7 DEF CreateSession, ListInv, TypeOK
    <2>2. Distinct(udp_list') /\ Elems(udp_list') = Elems(udp_list) \cup {s}
      BY <1>7, <2>1, ConsElems DEF CreateSession
    <2>3. /\ dying = << >> /\ dying' = << >> /\ epc' = "run" /\ freed' = freed /\ s \notin allocated
          /\ allocated' = allocated \cup {s}
      BY <1>7 DEF CreateSession, ListInv
    <2>4. \A t \in Sessions : active'[t] => t = s \/ active[t]
      BY <1>7 DEF CreateSession, TypeOK
    <2>5. freed \subseteq allocated
      BY DEF TypeOK
    <2> QED BY <2>2, <2>3, <2>4, <2>5, NoElems DEF ListInv
  <1>8. ASSUME NEW f \in Fds, ForwardIcmp(f)
        PROVE  ListInv'
    BY <1>8 DEF ForwardIcmp, ListInv
  <1>9. ASSUME NEW s \in Sessions, Receiver(s) \/ GoesIdle(s)
        PROVE  ListInv'
    <2>1. /\ UNCHANGED <<udp_list, allocated, freed, dying, epc>>
          /\ \A t \in Sessions : active'[t] => active[t]
      BY <1>9, ReceiverCases
         DEF RecvLoop, RecvNothing, Return, RecvDatagram, GoesIdle, PublishDone, Expire, CloseExpired,
             TypeOK
    <2> QED BY <2>1 DEF ListInv
  <1> QED BY <1>1, <1>2, <1>3, <1>4, <1>5, <1>6, <1>7, <1>8, <1>9, StepCases

\* Freeing a session whose receiver returned closes its socket and no other.
LEMMA FreeFd ==
  ASSUME TypeOK, FdInv, IcmpInv, NEW s \in Sessions, s \in allocated \ freed, rpc[s] = "returned",
         sock' = Closed(ewok_fd[s]), freed' = freed \cup {s},
         UNCHANGED <<allocated, ewok_fd, rpc, rfd, icmp_fd>>
  PROVE  FdInv' /\ (icmp_fd' # NoFd => sock'[icmp_fd'] = Icmp)
  <1>1. ewok_fd[s] \in Fds \cup {NoFd} /\ rfd[s] = NoFd
    BY DEF TypeOK, FdInv, SessionFd
  <1>2. /\ \A g \in Fds : g # ewok_fd[s] => sock'[g] = sock[g]
        /\ ewok_fd[s] \in Fds => sock'[ewok_fd[s]] = Nobody
    BY <1>1, ClosedType
  <1>3. ewok_fd[s] # NoFd => sock[ewok_fd[s]] = s
    BY DEF FdInv, SessionFd
  <1>4. ASSUME NEW t \in Sessions
        PROVE  SessionFd(t)'
    <2>1. SessionFd(t) /\ ewok_fd[t] \in Fds \cup {NoFd} /\ rfd[t] \in Fds \cup {NoFd}
      BY DEF FdInv, TypeOK
    <2>2. t # s /\ ewok_fd[t] # NoFd /\ t \notin freed => ewok_fd[t] # ewok_fd[s]
      BY <1>3, <2>1 DEF SessionFd
    <2>3. rfd[t] # NoFd => t # s /\ rfd[t] # ewok_fd[s]
      BY <1>1, <1>3, <2>1 DEF SessionFd
    <2> QED BY <1>2, <2>1, <2>2, <2>3 DEF SessionFd
  <1>5. ASSUME NEW f \in Fds
        PROVE  SocketOwner(f)'
    <2>1. SocketOwner(f) /\ f # NoFd
      BY UdpAssumption DEF FdInv
    <2>2. CASE f = ewok_fd[s]
      BY <1>2, <2>2, UdpAssumption DEF SocketOwner
    <2>3. CASE f # ewok_fd[s]
      <3>1. sock'[f] = sock[f]
        BY <1>2, <2>3
      <3>2. sock[f] # s
        BY <1>1, <2>1, <2>3 DEF SocketOwner
      <3> QED BY <2>1, <3>1, <3>2 DEF SocketOwner
    <2> QED BY <2>2, <2>3
  <1>6. icmp_fd # NoFd => icmp_fd # ewok_fd[s]
    BY <1>3, UdpAssumption DEF IcmpInv
  <1>7. icmp_fd' # NoFd => sock'[icmp_fd'] = Icmp
    BY <1>2, <1>6 DEF IcmpInv, TypeOK
  <1> QED BY <1>4, <1>5, <1>7 DEF FdInv

LEMMA FdStep ==
  ASSUME TypeOK, ListInv, FdInv, IcmpInv, Next
  PROVE  FdInv' /\ (icmp_fd' # NoFd => sock'[icmp_fd'] = Icmp)
  <1> USE DEF memory, fields, threads, icmpvars, emuvars
  <1>1. CASE QuietStep
    BY <1>1, QuietUnchanged DEF FdInv, SessionFd, SocketOwner, IcmpInv
  <1>2. CASE UNCHANGED vars
    BY <1>2 DEF FdInv, SessionFd, SocketOwner, IcmpInv, vars
  <1>3. CASE ReapJoin
    <2> DEFINE s == udp_list[cursor]
    <2>1. cursor \in 1 .. Len(udp_list) /\ udp_list \in Seq(Sessions)
      BY <1>3, LenProperties DEF ReapJoin, TypeOK
    <2>2. s \in Sessions /\ s \in allocated \ freed
      BY <2>1 DEF Elems, ListInv
    <2>3. /\ rpc[s] = "returned" /\ sock' = Closed(ewok_fd[s]) /\ freed' = freed \cup {s}
          /\ UNCHANGED <<allocated, ewok_fd, rpc, rfd, icmp_fd>>
      BY <1>3 DEF ReapJoin
    <2> HIDE DEF s
    <2> QED BY <2>2, <2>3, FreeFd
  <1>4. CASE ExitIcmp
    <2>1. /\ icmp_fd' = NoFd /\ sock' = Closed(icmp_fd)
          /\ UNCHANGED <<allocated, freed, ewok_fd, rpc, rfd>>
      BY <1>4 DEF ExitIcmp
    <2>2. /\ \A g \in Fds : g # icmp_fd => sock'[g] = sock[g]
          /\ icmp_fd \in Fds => sock'[icmp_fd] = Nobody
      BY <2>1, ClosedType DEF TypeOK
    <2>3. ASSUME NEW t \in Sessions
          PROVE  SessionFd(t)'
      <3>1. SessionFd(t) /\ ewok_fd[t] \in Fds \cup {NoFd} /\ rfd[t] \in Fds \cup {NoFd} /\ t # Icmp
        BY UdpAssumption DEF FdInv, TypeOK
      <3>2. /\ t \notin freed /\ ewok_fd[t] # NoFd => ewok_fd[t] # icmp_fd
            /\ rfd[t] # NoFd => rfd[t] # icmp_fd
        BY <3>1 DEF SessionFd, IcmpInv
      <3> QED BY <2>1, <2>2, <3>1, <3>2 DEF SessionFd
    <2>4. ASSUME NEW f \in Fds
          PROVE  SocketOwner(f)'
      BY <2>1, <2>2, UdpAssumption DEF SocketOwner, FdInv
    <2> QED BY <2>1, <2>3, <2>4 DEF FdInv
  <1>5. CASE ExitDetach
    BY <1>5 DEF ExitDetach, FdInv, SessionFd, SocketOwner, IcmpInv
  <1>6. CASE ExitJoin
    <2> DEFINE s == Head(dying)
    <2>1. s \in Sessions /\ s \in allocated \ freed
      BY <1>6, TailElems DEF ExitJoin, TypeOK, ListInv
    <2>2. /\ rpc[s] = "returned" /\ sock' = Closed(ewok_fd[s]) /\ freed' = freed \cup {s}
          /\ UNCHANGED <<allocated, ewok_fd, rpc, rfd, icmp_fd>>
      BY <1>6 DEF ExitJoin
    <2> HIDE DEF s
    <2> QED BY <2>1, <2>2, FreeFd
  <1>7. ASSUME NEW s \in Sessions, NEW f \in Fds, CreateSession(s, f)
        PROVE  FdInv' /\ (icmp_fd' # NoFd => sock'[icmp_fd'] = Icmp)
    <2>1. /\ s \notin allocated /\ allocated' = allocated \cup {s} /\ freed' = freed /\ rfd' = rfd
          /\ icmp_fd' = icmp_fd /\ sock[f] = Nobody /\ f # NoFd
      BY <1>7, UdpAssumption DEF CreateSession, FreeFds
    <2>2. /\ ewok_fd'[s] = f /\ sock'[f] = s /\ rpc'[s] = "loop"
          /\ \A t \in Sessions : t # s => ewok_fd'[t] = ewok_fd[t] /\ rpc'[t] = rpc[t]
          /\ \A g \in Fds : g # f => sock'[g] = sock[g]
      BY <1>7 DEF CreateSession, TypeOK
    <2>3. ASSUME NEW t \in Sessions
          PROVE  SessionFd(t)'
      <3>1. SessionFd(t) /\ ewok_fd[t] \in Fds \cup {NoFd} /\ rfd[t] \in Fds \cup {NoFd} /\ t # Nobody
        BY UdpAssumption DEF FdInv, TypeOK
      <3>2. freed \subseteq allocated
        BY DEF TypeOK
      <3>3. CASE t = s
        <4>1. rfd'[t] = NoFd /\ t \notin freed' /\ t \in allocated'
          BY <2>1, <3>1, <3>2, <3>3 DEF SessionFd
        <4> QED BY <2>2, <3>3, <4>1 DEF SessionFd
      <3>4. CASE t # s
        <4>1. /\ t \notin freed /\ ewok_fd[t] # NoFd => ewok_fd[t] # f
              /\ rfd[t] # NoFd => rfd[t] # f
          BY <2>1, <3>1 DEF SessionFd
        <4> QED BY <2>1, <2>2, <3>1, <3>4, <4>1 DEF SessionFd
      <3> QED BY <3>3, <3>4
    <2>4. ASSUME NEW g \in Fds
          PROVE  SocketOwner(g)'
      <3>1. SocketOwner(g)
        BY DEF FdInv
      <3>2. s \notin freed /\ ewok_fd[s] = NoFd /\ rfd[s] = NoFd /\ s # Icmp /\ g # NoFd
        BY <2>1, UdpAssumption DEF TypeOK, FdInv, SessionFd
      <3>3. CASE g = f
        BY <2>1, <2>2, <3>2, <3>3 DEF SocketOwner
      <3>4. CASE g # f
        <4>1. sock'[g] = sock[g] /\ (sock[g] \in Sessions => sock[g] # s)
          BY <2>2, <3>1, <3>2, <3>4 DEF SocketOwner
        <4> QED BY <2>1, <2>2, <3>1, <4>1 DEF SocketOwner
      <3> QED BY <3>3, <3>4
    <2>5. icmp_fd' # NoFd => sock'[icmp_fd'] = Icmp
      BY <2>1, <2>2, UdpAssumption DEF IcmpInv, TypeOK
    <2> QED BY <2>3, <2>4, <2>5 DEF FdInv
  <1>8. ASSUME NEW f \in Fds, ForwardIcmp(f)
        PROVE  FdInv' /\ (icmp_fd' # NoFd => sock'[icmp_fd'] = Icmp)
    <2>1. /\ icmp_fd = NoFd /\ icmp_fd' = f /\ sock[f] = Nobody /\ sock'[f] = Icmp
          /\ \A g \in Fds : g # f => sock'[g] = sock[g]
          /\ UNCHANGED <<allocated, freed, ewok_fd, rpc, rfd>>
      BY <1>8 DEF ForwardIcmp, FreeFds, TypeOK
    <2>2. ASSUME NEW t \in Sessions
          PROVE  SessionFd(t)'
      <3>1. SessionFd(t) /\ ewok_fd[t] \in Fds \cup {NoFd} /\ rfd[t] \in Fds \cup {NoFd} /\ t # Nobody
        BY UdpAssumption DEF FdInv, TypeOK
      <3>2. /\ t \notin freed /\ ewok_fd[t] # NoFd => ewok_fd[t] # f
            /\ rfd[t] # NoFd => rfd[t] # f
        BY <2>1, <3>1 DEF SessionFd
      <3> QED BY <2>1, <3>1, <3>2 DEF SessionFd
    <2>3. ASSUME NEW g \in Fds
          PROVE  SocketOwner(g)'
      <3>1. SocketOwner(g) /\ g # NoFd
        BY UdpAssumption DEF FdInv
      <3> QED BY <2>1, <3>1, UdpAssumption DEF SocketOwner
    <2> QED BY <2>1, <2>2, <2>3 DEF FdInv
  <1>9. ASSUME NEW s \in Sessions, Receiver(s) \/ GoesIdle(s)
        PROVE  FdInv' /\ (icmp_fd' # NoFd => sock'[icmp_fd'] = Icmp)
    <2>1. CASE RecvLoop(s) \/ RecvNothing(s) \/ Return(s) \/ RecvDatagram(s) \/ GoesIdle(s)
               \/ PublishDone(s)
      <3>1. /\ UNCHANGED <<allocated, freed, ewok_fd, rfd, icmp_fd, sock>>
            /\ rpc[s] \notin {"close", "returned"}
            /\ \A t \in Sessions : t # s => rpc'[t] = rpc[t]
        BY <2>1 DEF RecvLoop, RecvNothing, Return, RecvDatagram, GoesIdle, PublishDone, TypeOK
      <3>2. s \notin freed /\ rfd[s] = NoFd
        BY <3>1 DEF FdInv, SessionFd
      <3>3. \A t \in Sessions : SessionFd(t)'
        BY <3>1, <3>2 DEF FdInv, SessionFd
      <3>4. \A f \in Fds : SocketOwner(f)'
        BY <3>1 DEF FdInv, SocketOwner
      <3> QED BY <3>1, <3>3, <3>4 DEF FdInv, IcmpInv
    <2>2. CASE Expire(s)
      <3>1. /\ UNCHANGED <<allocated, freed, icmp_fd, sock>>
            /\ rpc[s] = "expire" /\ rpc'[s] = "close" /\ ewok_fd'[s] = NoFd /\ rfd'[s] = ewok_fd[s]
            /\ \A t \in Sessions : t # s => rpc'[t] = rpc[t] /\ ewok_fd'[t] = ewok_fd[t]
                                              /\ rfd'[t] = rfd[t]
        BY <2>2 DEF Expire, TypeOK
      <3>2. s \notin freed /\ rfd[s] = NoFd
        BY <3>1 DEF FdInv, SessionFd
      <3>3. \A t \in Sessions : SessionFd(t)'
        BY <3>1, <3>2 DEF FdInv, SessionFd
      <3>4. ASSUME NEW f \in Fds
            PROVE  SocketOwner(f)'
        <4>1. SocketOwner(f) /\ f # NoFd
          BY UdpAssumption DEF FdInv
        <4> QED BY <3>1, <3>2, <4>1 DEF SocketOwner
      <3> QED BY <3>1, <3>3, <3>4 DEF FdInv, IcmpInv
    <2>3. CASE CloseExpired(s)
      <3>1. /\ UNCHANGED <<allocated, freed, ewok_fd, icmp_fd>>
            /\ rpc[s] = "close" /\ rpc'[s] = "done" /\ rfd'[s] = NoFd /\ sock' = Closed(rfd[s])
            /\ \A t \in Sessions : t # s => rpc'[t] = rpc[t] /\ rfd'[t] = rfd[t]
        BY <2>3 DEF CloseExpired, TypeOK
      <3>2. s \notin freed /\ (rfd[s] # NoFd => sock[rfd[s]] = s /\ ewok_fd[s] = NoFd)
        BY <3>1 DEF FdInv, SessionFd
      <3>3. /\ \A g \in Fds : g # rfd[s] => sock'[g] = sock[g]
            /\ rfd[s] \in Fds => sock'[rfd[s]] = Nobody
        BY <3>1, ClosedType DEF TypeOK
      <3>4. ASSUME NEW t \in Sessions
            PROVE  SessionFd(t)'
        <4>1. SessionFd(t) /\ ewok_fd[t] \in Fds \cup {NoFd} /\ rfd[t] \in Fds \cup {NoFd}
          BY DEF FdInv, TypeOK
        <4>2. /\ t \notin freed /\ ewok_fd[t] # NoFd => ewok_fd[t] # rfd[s]
              /\ t # s /\ rfd[t] # NoFd => rfd[t] # rfd[s]
          BY <3>2, <4>1 DEF SessionFd
        <4> QED BY <3>1, <3>2, <3>3, <4>1, <4>2 DEF SessionFd
      <3>5. ASSUME NEW f \in Fds
            PROVE  SocketOwner(f)'
        <4>1. SocketOwner(f) /\ f # NoFd
          BY UdpAssumption DEF FdInv
        <4>2. CASE f = rfd[s]
          BY <3>3, <4>2, UdpAssumption DEF SocketOwner
        <4>3. CASE f # rfd[s]
          BY <3>1, <3>2, <3>3, <4>1, <4>3 DEF SocketOwner
        <4> QED BY <4>2, <4>3
      <3>6. icmp_fd # NoFd => icmp_fd # rfd[s]
        BY <3>2, UdpAssumption DEF IcmpInv
      <3>7. icmp_fd' # NoFd => sock'[icmp_fd'] = Icmp
        BY <3>1, <3>3, <3>6 DEF IcmpInv, TypeOK
      <3> QED BY <3>4, <3>5, <3>7 DEF FdInv
    <2> QED BY <1>9, <2>1, <2>2, <2>3, ReceiverCases
  <1> QED BY <1>1, <1>2, <1>3, <1>4, <1>5, <1>6, <1>7, <1>8, <1>9, StepCases

LEMMA IcmpStep ==
  ASSUME TypeOK, ListInv, FdInv, IcmpInv, Next
  PROVE  IcmpInv'
  <1> USE DEF memory, fields, threads, icmpvars, emuvars
  <1>0. icmp_fd' # NoFd => sock'[icmp_fd'] = Icmp
    BY FdStep
  <1>1. /\ epc' \in {"exit_detach", "exit_join", "exited"} => icmp_fd' = NoFd
        /\ icmp_fd' = NoFd => ipc' \in {"none", "returned"}
    <2>1. CASE QuietStep
      BY <2>1 DEF QuietStep, ForwardKnown, ForwardUnknown, ReapSkip, ReapEnd, CreateFails,
                  ExitBegin, ExitIcmpWedges, ExitEnd, IcmpLoop, IcmpRecv, vars, IcmpInv
    <2>2. CASE UNCHANGED vars
      BY <2>2 DEF vars, IcmpInv
    <2>3. CASE ReapJoin \/ ExitIcmp \/ ExitDetach \/ ExitJoin
      BY <2>3 DEF ReapJoin, ExitIcmp, ExitDetach, ExitJoin, IcmpInv
    <2>4. CASE \E s \in Sessions, f \in Fds : CreateSession(s, f)
      BY <2>4 DEF CreateSession, IcmpInv
    <2>5. CASE \E f \in Fds : ForwardIcmp(f)
      BY <2>5, UdpAssumption DEF ForwardIcmp, IcmpInv
    <2>6. CASE \E s \in Sessions : Receiver(s) \/ GoesIdle(s)
      <3>1. UNCHANGED <<epc, icmp_fd, ipc>>
        BY <2>6 DEF Receiver, RecvReturns, RecvLoop, RecvNothing, Return, RecvDatagram, GoesIdle,
                    PublishDone, Expire, CloseExpired
      <3> QED BY <3>1 DEF IcmpInv
    <2> QED BY <2>1, <2>2, <2>3, <2>4, <2>5, <2>6, StepCases
  <1> QED BY <1>0, <1>1 DEF IcmpInv

LEMMA TupleStep ==
  ASSUME TypeOK, ListInv, TupleInv, Next
  PROVE  TupleInv'
  <1> USE DEF memory, fields, threads, icmpvars, emuvars
  <1>1. CASE \E k \in Keys : ForwardUnknown(k)
    <2>1. PICK k \in Keys : ForwardUnknown(k)
      BY <1>1
    <2>2. UNCHANGED <<allocated, active, key>> /\ want' = k /\ Matches(k) = {}
      BY <2>1 DEF ForwardUnknown
    <2>3. \A s \in Sessions : active[s] => key[s] # k
      BY <2>2 DEF Matches, ListInv, Elems
    <2> QED BY <2>2, <2>3 DEF TupleInv, OneSessionPerTuple
  <1>2. CASE QuietStep /\ ~\E k \in Keys : ForwardUnknown(k)
    <2>1. epc' \in {"reap", "create"} => epc \in {"reap", "create"} /\ want' = want
      BY <1>2 DEF QuietStep, ForwardKnown, ReapSkip, ReapEnd, CreateFails,
                  ExitBegin, ExitIcmpWedges, ExitEnd, IcmpLoop, IcmpRecv, vars
    <2> QED BY <1>2, <2>1, QuietUnchanged DEF TupleInv, OneSessionPerTuple
  <1>3. CASE UNCHANGED vars
    BY <1>3 DEF TupleInv, OneSessionPerTuple, vars
  <1>4. CASE ReapJoin \/ ExitIcmp \/ ExitJoin \/ \E f \in Fds : ForwardIcmp(f)
    <2>1. UNCHANGED <<allocated, active, key, want>>
          /\ (epc' \in {"reap", "create"} => epc \in {"reap", "create"})
      BY <1>4 DEF ReapJoin, ExitIcmp, ExitJoin, ForwardIcmp
    <2> QED BY <2>1 DEF TupleInv, OneSessionPerTuple
  <1>5. CASE ExitDetach
    <2>1. \A s \in Sessions : ~active'[s]
      BY <1>5 DEF ExitDetach, ListInv, Elems
    <2>2. allocated' \subseteq Sessions
      BY <1>5 DEF ExitDetach, TypeOK
    <2> QED BY <2>1, <2>2 DEF TupleInv, OneSessionPerTuple
  <1>6. ASSUME NEW s \in Sessions, NEW f \in Fds, CreateSession(s, f)
        PROVE  TupleInv'
    <2>1. /\ allocated' = allocated \cup {s} /\ epc' = "run" /\ key'[s] = want
          /\ \A t \in Sessions : t # s => key'[t] = key[t] /\ active'[t] = active[t]
          /\ \A t \in Sessions : active[t] => key[t] # want
      BY <1>6 DEF CreateSession, TypeOK, TupleInv
    <2>2. allocated \subseteq Sessions
      BY DEF TypeOK
    <2> QED BY <2>1, <2>2 DEF TupleInv, OneSessionPerTuple
  <1>7. ASSUME NEW s \in Sessions, Receiver(s) \/ GoesIdle(s)
        PROVE  TupleInv'
    <2>1. UNCHANGED <<allocated, key, epc, want>> /\ (\A t \in Sessions : active'[t] => active[t])
      BY <1>7, ReceiverCases
         DEF RecvLoop, RecvNothing, Return, RecvDatagram, GoesIdle, PublishDone, Expire, CloseExpired,
             TypeOK
    <2>2. allocated \subseteq Sessions
      BY DEF TypeOK
    <2> QED BY <2>1, <2>2 DEF TupleInv, OneSessionPerTuple
  <1> QED BY <1>1, <1>2, <1>3, <1>4, <1>5, <1>6, <1>7, StepCases

-----------------------------------------------------------------------------
(* The invariant and what follows from it. *)

LEMMA InitInvariant == Init => IInv
  <1> SUFFICES ASSUME Init PROVE IInv
    OBVIOUS
  <1>1. TypeOK
    BY EmptySeq, UdpAssumption DEF Init, TypeOK, RecvPlace, IcmpPlace, EmuPlace, Owner
  <1>2. ListInv
    BY NoElems DEF Init, ListInv
  <1>3. FdInv /\ IcmpInv
    BY UdpAssumption DEF Init, FdInv, SessionFd, SocketOwner, IcmpInv
  <1>4. TupleInv
    BY DEF Init, TupleInv, OneSessionPerTuple
  <1> QED BY <1>1, <1>2, <1>3, <1>4 DEF IInv

LEMMA NextInvariant ==
  ASSUME IInv, [Next]_vars
  PROVE  IInv'
  <1>1. CASE Next
    BY <1>1, TypeStep, ListStep, FdStep, IcmpStep, TupleStep DEF IInv
  <1>2. CASE UNCHANGED vars
    BY <1>2 DEF vars, memory, fields, threads, icmpvars, emuvars, IInv, TypeOK, ListInv, FdInv,
                SessionFd, SocketOwner, IcmpInv, TupleInv, OneSessionPerTuple
  <1> QED BY <1>1, <1>2

\* IInv holds of any number of sessions, tuples and socket numbers.
THEOREM UdpInvariance == Spec => []IInv
  <1>1. IInv /\ [Next]_vars => IInv'
    BY NextInvariant
  <1> QED BY InitInvariant, <1>1, PTL DEF Spec

\* Every variable of the NAT keeps its type.
THEOREM UdpTypeCorrect == Spec => []TypeOK
  <1>1. IInv => TypeOK
    BY DEF IInv
  <1> QED BY UdpInvariance, <1>1, PTL

\* A tuple never has two live sessions.
THEOREM OneSession == Spec => []OneSessionPerTuple
  <1>1. IInv => OneSessionPerTuple
    BY DEF IInv, TupleInv
  <1> QED BY UdpInvariance, <1>1, PTL

\* No socket number outlives its socket in any hand: a sendto, recvfrom or close never hits a
\* reused one.
THEOREM NoFdReused == Spec => []NoReusedFd
  <1>1. IInv => NoReusedFd
    BY DEF IInv, FdInv, SessionFd, IcmpInv, NoReusedFd, TypeOK
  <1> QED BY UdpInvariance, <1>1, PTL

\* The reaper and ether_exit free only sessions whose receiver returned and leak no socket.
THEOREM FreedFinished == Spec => []FreedIsFinished
  <1>1. IInv => FreedIsFinished
    BY DEF IInv, FdInv, SessionFd, SocketOwner, FreedIsFinished, TypeOK
  <1> QED BY UdpInvariance, <1>1, PTL

\* After ether_exit no receiver runs and no socket is open.
THEOREM ExitIsQuiet == Spec => []QuietAfterExit
  <1>1. IInv => QuietAfterExit
    <2> SUFFICES ASSUME IInv, epc = "exited"
                 PROVE  /\ \A s \in allocated : rpc[s] = "returned"
                        /\ ipc \in {"none", "returned"}
                        /\ \A f \in Fds : sock[f] = Nobody
      BY DEF QuietAfterExit
    <2>1. allocated = freed
      BY NoElems DEF IInv, ListInv
    <2>2. \A s \in allocated : rpc[s] = "returned"
      BY <2>1 DEF IInv, FdInv, SessionFd, TypeOK
    <2>3. icmp_fd = NoFd /\ ipc \in {"none", "returned"}
      BY DEF IInv, IcmpInv
    <2>4. ASSUME NEW f \in Fds
          PROVE  sock[f] = Nobody
      <3>1. SocketOwner(f) /\ sock[f] \in Owner /\ f # NoFd
        BY UdpAssumption DEF IInv, FdInv, TypeOK
      <3>2. sock[f] # Icmp
        BY <2>3, <3>1 DEF SocketOwner
      <3>3. ASSUME sock[f] \in Sessions
            PROVE  FALSE
        <4>1. sock[f] \notin allocated /\ (ewok_fd[sock[f]] = f \/ rfd[sock[f]] = f)
          BY <2>1, <3>1, <3>3 DEF SocketOwner
        <4> QED BY <3>1, <3>3, <4>1 DEF IInv, FdInv, SessionFd
      <3> QED BY <3>1, <3>2, <3>3 DEF Owner
    <2> QED BY <2>2, <2>3, <2>4
  <1> QED BY UdpInvariance, <1>1, PTL

\* Sessions share neither tuple nor socket, for any number of them.
THEOREM DistinctAlways == Spec => []SessionsDistinct
<1>1. OneSessionPerTuple /\ NoReusedFd => SessionsDistinct
  BY DEF SessionsDistinct
<1> QED
  BY <1>1, OneSession, NoFdReused, PTL

\* What the reaper and ether_exit free is used by nobody.
THEOREM TeardownIsClean == Spec => []TeardownClean
<1>1. FreedIsFinished /\ QuietAfterExit => TeardownClean
  BY DEF TeardownClean
<1> QED
  BY <1>1, FreedFinished, ExitIsQuiet, PTL

=============================================================================
