-------------------------- MODULE AudioFeederProofs --------------------------
(***************************************************************************)
(* Proofs about AudioFeeder, for every bound and every number of silent    *)
(* blocks that parks the feeder.                                           *)
(***************************************************************************)
EXTENDS AudioFeeder, TLAPS

\* Before a restart leaves instances behind, an open component has its data area and only an open
\* component has a mixer.
Component == ~stale => (opens > 0 => data) /\ (mixer => opens > 0)

\* The emulator runs with its feeder, or without one from the start.
Alive == life = "running" => (pc = "gone" <=> ~feederRunning)

\* Nothing is under way between the two threads.
Settled == intr = "idle" /\ ~irq

\* Where the block that was asked for is, while the feeder waits for it.
Asked ==
    \/ irq /\ intr = "idle" /\ ~ack /\ mixed = taken
    \/ ~irq /\ intr = "mixing" /\ ~ack /\ mixed = taken
    \/ ~irq /\ intr = "ack" /\ ~ack /\ mixed \in {taken, taken + 1}
    \/ Settled /\ ack /\ mixed \in {taken, taken + 1}

\* The handshake, while every answer comes in time.
Handshake ==
    ~late /\ life = "running" =>
        /\ pc \in {"top", "arm", "raise", "gone"} => Settled /\ mixed = taken
        /\ pc = "raise" => ~ack
        /\ pc = "wait" => Asked
        /\ pc = "check" => Settled /\ ack /\ mixed \in {taken, taken + 1}
        /\ pc \in {"read", "copy"} => Settled /\ mixed \in {taken, taken + 1}

\* The feeder asks for a block while fewer than Park silent ones have passed; the bound on blocks.
Counting ==
    /\ pc \notin {"top", "gone"} => quiet < Park
    /\ intr = "mixing" => mixed < MaxBlocks

IInv == TypeOK /\ Counting /\ Component /\ Alive /\ Handshake

\* A step of the feeder keeps the types and counts no further than Park.
LEMMA FeederTypeStep == TypeOK /\ Counting /\ Feeder => TypeOK' /\ Counting'
<1> SUFFICES ASSUME TypeOK, Counting, Feeder PROVE TypeOK' /\ Counting'
  OBVIOUS
<1> USE FeederAssumption DEF TypeOK, Counting, FeederPlace, Contents, FeederGoes, shake, component, history
<1>1. CASE FeederStops
  BY <1>1 DEF FeederStops
<1>2. CASE Gate
  BY <1>2 DEF Gate
<1>3. CASE Arm
  <2>1. ack' \in BOOLEAN
    BY <1>3 DEF Arm
  <2> QED
    BY <1>3, <2>1 DEF Arm
<1>4. CASE Raise
  BY <1>4 DEF Raise
<1>5. CASE Wait
  <2>1. late' \in BOOLEAN /\ stale' \in BOOLEAN
    BY <1>5 DEF Wait
  <2> QED
    BY <1>5, <2>1 DEF Wait
<1>6. CASE Check
  BY <1>6 DEF Check
<1>7. CASE PlaySilence
  BY <1>7 DEF PlaySilence
<1>8. CASE ReadInfo
  BY <1>8 DEF ReadInfo
<1>9. CASE Play
  BY <1>9 DEF Play
<1> QED
  BY <1>1, <1>2, <1>3, <1>4, <1>5, <1>6, <1>7, <1>8, <1>9 DEF Feeder

\* So does a step of the emulation thread, which leaves the count alone.
LEMMA EmulationTypeStep == TypeOK /\ Counting /\ (Emulation \/ Expire) => TypeOK' /\ Counting'
<1> SUFFICES ASSUME TypeOK, Counting, Emulation \/ Expire PROVE TypeOK' /\ Counting'
  OBVIOUS
<1> USE FeederAssumption DEF TypeOK, Counting, FeederPlace, Contents, Call, Emulates, feeder, shake, component, history
<1>1. CASE Interrupt
  <2>1. irq' \in BOOLEAN
    BY <1>1 DEF Interrupt
  <2> QED
    BY <1>1, <2>1 DEF Interrupt
<1>2. CASE Mixed
  BY <1>2 DEF Mixed
<1>3. CASE Ack
  BY <1>3 DEF Ack
<1>4. CASE Open
  BY <1>4 DEF Open
<1>5. CASE InitOutputDevice
  BY <1>5 DEF InitOutputDevice
<1>6. CASE AddSource
  BY <1>6 DEF AddSource
<1>7. CASE RemoveSource
  BY <1>7 DEF RemoveSource
<1>8. CASE SetMute
  BY <1>8 DEF SetMute
<1>9. CASE Close
  <2>1. data' \in BOOLEAN /\ mixer' \in BOOLEAN /\ active' \in BOOLEAN
    BY <1>9 DEF Close
  <2> QED
    BY <1>9, <2>1 DEF Close
<1>10. CASE Reset
  <2>1. data' \in BOOLEAN /\ stale' \in BOOLEAN
    BY <1>10 DEF Reset
  <2> QED
    BY <1>10, <2>1 DEF Reset
<1>11. CASE CloseAudio
  <2>1. feederRunning' \in BOOLEAN
    BY <1>11 DEF CloseAudio
  <2> QED
    BY <1>11, <2>1 DEF CloseAudio
<1>12. CASE JoinFeeder
  BY <1>12 DEF JoinFeeder
<1>13. CASE Expire
  <2>1. active' \in BOOLEAN
    BY <1>13 DEF Expire
  <2> QED
    BY <1>13, <2>1 DEF Expire
<1> QED
  BY <1>1, <1>2, <1>3, <1>4, <1>5, <1>6, <1>7, <1>8, <1>9, <1>10, <1>11, <1>12, <1>13 DEF Emulation

\* Every step keeps the types and the counts of the semaphores.
LEMMA TypeStep == TypeOK /\ Counting /\ [Next]_vars => TypeOK' /\ Counting'
<1>1. ASSUME TypeOK, Counting, UNCHANGED vars PROVE TypeOK' /\ Counting'
  BY <1>1 DEF TypeOK, Counting, vars, feeder, shake, component, history
<1> QED
  BY <1>1, FeederTypeStep, EmulationTypeStep DEF Next, Finished

\* Unless a restart leaves instances behind, the data area outlives the mixer.
LEMMA ComponentStep == TypeOK /\ Component /\ [Next]_vars => Component'
<1> SUFFICES ASSUME TypeOK, Component, [Next]_vars PROVE Component'
  OBVIOUS
<1> USE DEF TypeOK, Component
<1>1. CASE Feeder
  BY <1>1 DEF Feeder, FeederStops, FeederGoes, Gate, Arm, Raise, Wait, Check, PlaySilence, ReadInfo, Play,
     component, history
<1>2. CASE Interrupt \/ Mixed \/ Ack
  BY <1>2 DEF Interrupt, Mixed, Ack, component, history
<1>3. CASE Open \/ InitOutputDevice \/ AddSource \/ RemoveSource \/ SetMute
  BY <1>3, FeederAssumption DEF Open, InitOutputDevice, AddSource, RemoveSource, SetMute, Call, history
<1>4. CASE Close
  <2> SUFFICES ASSUME ~stale, UNCHANGED stale PROVE Component'
    BY <1>4 DEF Close, Call, history
  <2>1. opens > 0 /\ data /\ opens' = opens - 1
    BY <1>4 DEF Close
  <2>2. CASE opens > 1
    <3>. opens # 1
      BY <2>2, FeederAssumption
    <3>1. UNCHANGED data
      BY <1>4, Zenon DEF Close
    <3>2. data'
      BY <2>1, <3>1, Zenon
    <3> QED
      BY <2>1, <2>2, <3>2, FeederAssumption
  <2>3. CASE opens = 1
    <3>. ~(opens > 1)
      BY <2>3
    <3>1. ~mixer'
      BY <1>4, <2>1, <2>3, Zenon DEF Close
    <3> QED
      BY <2>1, <2>3, <3>1
  <2> QED
    BY <2>1, <2>2, <2>3, FeederAssumption
<1>5. CASE Reset
  BY <1>5 DEF Reset
<1>6. CASE Expire \/ CloseAudio \/ JoinFeeder
  BY <1>6 DEF Expire, CloseAudio, JoinFeeder, component, history
<1>7. CASE UNCHANGED vars
  BY <1>7 DEF vars, component, history
<1> QED
  BY <1>1, <1>2, <1>3, <1>4, <1>5, <1>6, <1>7 DEF Next, Emulation, Finished

\* Every step keeps it that a running emulator's feeder is gone exactly when it is not to run.
LEMMA AliveStep == TypeOK /\ Alive /\ [Next]_vars => Alive'
<1> SUFFICES ASSUME TypeOK, Alive, [Next]_vars PROVE Alive'
  OBVIOUS
<1> USE DEF TypeOK, Alive
<1>1. CASE Feeder
  BY <1>1 DEF Feeder, FeederStops, FeederGoes, Gate, Arm, Raise, Wait, Check, PlaySilence, ReadInfo, Play,
     shake
<1>2. CASE Interrupt
  BY <1>2 DEF Interrupt, feeder
<1>3. CASE Mixed \/ Ack
  BY <1>3 DEF Mixed, Ack, feeder, shake
<1>4. CASE Open \/ InitOutputDevice \/ AddSource \/ RemoveSource \/ SetMute \/ Close
  BY <1>4 DEF Open, InitOutputDevice, AddSource, RemoveSource, SetMute, Close, Call, feeder, shake
<1>5. CASE Reset \/ Expire \/ CloseAudio \/ JoinFeeder
  BY <1>5 DEF Reset, Expire, CloseAudio, JoinFeeder, feeder, shake
<1>6. CASE UNCHANGED vars
  BY <1>6 DEF vars, feeder, shake
<1> QED
  BY <1>1, <1>2, <1>3, <1>4, <1>5, <1>6 DEF Next, Emulation, Finished

\* The handshake: what the feeder does to it, what the emulation thread does, and the rest.
LEMMA HandshakeStep == TypeOK /\ Alive /\ Handshake /\ [Next]_vars => Handshake'
<1> SUFFICES ASSUME TypeOK, Alive, Handshake, [Next]_vars PROVE Handshake'
  OBVIOUS
<1> SUFFICES ASSUME ~late', life' = "running" PROVE Handshake'
  BY DEF Handshake
<1> USE DEF TypeOK, Handshake, Asked, Settled
<1>1. CASE FeederStops \/ Gate \/ Arm \/ Raise
  BY <1>1 DEF FeederStops, FeederGoes, Gate, Arm, Raise, Alive, shake, history
<1>2. CASE Wait
  BY <1>2 DEF Wait, FeederGoes, Alive, FeederPlace, shake
<1>3. CASE Check \/ PlaySilence \/ ReadInfo \/ Play
  BY <1>3 DEF Check, FeederGoes, PlaySilence, ReadInfo, Play, shake, history
<1>4. CASE Interrupt
  BY <1>4 DEF Interrupt, Emulates, FeederPlace, feeder, component, history
<1>5. CASE Mixed
  BY <1>5 DEF Mixed, FeederPlace, feeder, shake, component
<1>6. CASE Ack
  BY <1>6 DEF Ack, FeederPlace, feeder, component, history
<1>7. CASE Open \/ InitOutputDevice \/ AddSource \/ RemoveSource \/ SetMute \/ Close
  BY <1>7 DEF Open, InitOutputDevice, AddSource, RemoveSource, SetMute, Close, Call, feeder, shake, history
<1>8. CASE Reset \/ Expire
  BY <1>8 DEF Reset, Expire, feeder, shake, history
<1>9. CASE CloseAudio \/ JoinFeeder
  BY <1>9 DEF CloseAudio, JoinFeeder
<1>10. CASE UNCHANGED vars
  BY <1>10 DEF vars, feeder, shake, history
<1> QED
  BY <1>1, <1>2, <1>3, <1>4, <1>5, <1>6, <1>7, <1>8, <1>9, <1>10 DEF Next, Feeder, Emulation, Finished

\* The component starts inside the invariant.
LEMMA InitIInv == Init => IInv
<1> SUFFICES ASSUME Init PROVE IInv
  OBVIOUS
<1>1. /\ feederRunning \in BOOLEAN /\ ack \in BOOLEAN /\ irq \in BOOLEAN /\ data \in BOOLEAN
      /\ mixer \in BOOLEAN /\ mute \in BOOLEAN /\ active \in BOOLEAN /\ late \in BOOLEAN
      /\ stale \in BOOLEAN
  BY DEF Init
<1>2. TypeOK /\ Counting
  BY <1>1, FeederAssumption DEF Init, TypeOK, Counting, FeederPlace, Contents
<1>3. Component /\ Alive /\ Handshake
  BY <1>1 DEF Init, Component, Alive, Handshake, Asked, Settled
<1> QED
  BY <1>2, <1>3 DEF IInv

-----------------------------------------------------------------------------
(* The theorems *)

\* Every variable keeps its type, the guest restarting or not; the feeder counts no further than Park.
THEOREM FeederTypeCorrect == Spec => []TypeOK
<1> DEFINE Inv == TypeOK /\ Counting
<1>1. Init => Inv
  BY InitIInv DEF IInv
<1>2. Inv /\ [Next]_vars => Inv'
  BY TypeStep
<1>3. Inv => TypeOK
  OBVIOUS
<1> QED
  BY <1>1, <1>2, <1>3, PTL DEF Spec

\* The handshake holds whatever the guest does, restarts included.
THEOREM HandshakeIsExact == Spec => []HandshakeExact
<1> DEFINE Inv == TypeOK /\ Counting /\ Alive /\ Handshake
<1>1. Init => Inv
  BY InitIInv DEF IInv
<1>2. Inv /\ [Next]_vars => Inv'
  BY TypeStep, AliveStep, HandshakeStep
<1>3. Inv => HandshakeExact
  BY DEF TypeOK, Handshake, Asked, Settled, HandshakeExact, FeederPlace
<1> QED
  BY <1>1, <1>2, <1>3, PTL DEF Spec

\* AudioInterrupt and the feeder never go through a missing data area, unless the guest restarted
\* with the component open.
THEOREM MixerKeepsData == Spec => []MixerHasData
<1> DEFINE Inv == TypeOK /\ Counting /\ Component
<1>1. Init => Inv
  BY InitIInv DEF IInv
<1>2. Inv /\ [Next]_vars => Inv'
  BY TypeStep, ComponentStep
<1>3. Inv => MixerHasData
  BY DEF Component, MixerHasData
<1> QED
  BY <1>1, <1>2, <1>3, PTL DEF Spec

=============================================================================
