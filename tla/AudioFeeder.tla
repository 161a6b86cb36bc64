---------------------------- MODULE AudioFeeder ----------------------------
(***************************************************************************)
(* The sound back end of macemu: the feeder thread (audio_pcm.cpp) asks    *)
(* the guest for a block by an interrupt, waits for the answer for 20 ms   *)
(* and plays it; the emulation thread serves the interrupt and the calls   *)
(* of the guest's sound component (audio.cpp), resets and exits.           *)
(*                                                                         *)
(* Blocks the Apple Mixer delivers are numbered; a block is silence or     *)
(* sound.  The mixer and the guest are not part of the repository: they    *)
(* deliver what they like, and the guest calls a component it has opened.  *)
(***************************************************************************)
EXTENDS Naturals

CONSTANTS
    Park,         \* QUIET_PARK_BLOCKS
    MaxOpens,     \* bound: open instances of the component
    MaxSources,   \* bound: sources of the mixer
    MaxBlocks     \* bound: blocks mixed

ASSUME FeederAssumption ==
    /\ Park \in Nat \ {0}
    /\ MaxOpens \in Nat \ {0} /\ MaxSources \in Nat \ {0} /\ MaxBlocks \in Nat

VARIABLES
    pc, quiet, cur,          \* feeder: place, quiet_blocks, the block in hand
    feederRunning, ack, irq, \* feeder_running, irq_ack, INTFLAG_AUDIO
    intr,                    \* emulation thread in AudioInterrupt: "idle", "mixing", "ack"
    info,                    \* what adatStreamInfo points to
    opens, data, mixer,      \* open_count; audio_data and AudioStatus.mixer are not 0
    sources, mute, active,   \* num_sources, audio_mute, audio_playback_active()
    life,                    \* "running", "closing", "freed"
    mixed, taken, late,      \* history: blocks mixed, the last one the feeder took, a wait timed out,
    stale                    \* history: the guest restarted with the component open

feeder == <<pc, quiet, cur>>
shake == <<feederRunning, ack, irq>>
component == <<opens, data, mixer, sources, mute, active>>
history == <<mixed, taken, late, stale>>
vars == <<feeder, shake, intr, info, component, life, history>>

Contents == {"none", "silent", "sound"}
FeederPlace == {"top", "arm", "raise", "wait", "check", "read", "copy", "gone"}

\* AudioInit: without a device, a thread or the will to sound there is no feeder
Init ==
    /\ feederRunning \in BOOLEAN /\ pc = IF feederRunning THEN "top" ELSE "gone"
    /\ quiet = 0 /\ cur = "none" /\ ack = FALSE /\ irq = FALSE
    /\ intr = "idle" /\ info = "none"
    /\ opens = 0 /\ data = FALSE /\ mixer = FALSE /\ sources = 0
    /\ mute = FALSE /\ active = FALSE
    /\ life = "running"
    /\ mixed = 0 /\ taken = 0 /\ late = FALSE /\ stale = FALSE

-----------------------------------------------------------------------------
(* The feeder thread: feeder_func *)

FeederGoes(from, to) == pc = from /\ pc' = to

FeederStops ==
    /\ pc \in {"top", "check"} /\ ~feederRunning
    /\ pc' = "gone"
    /\ UNCHANGED <<quiet, cur, shake, intr, info, component, life, history>>

\* mutant: a parked feeder does not look for activity
GateDeaf ==
    /\ FeederGoes("top", "arm") /\ feederRunning /\ sources > 0
    /\ quiet < Park
    /\ UNCHANGED <<quiet, cur, shake, intr, info, component, life, history>>

\* the top of the loop: no source or a parked feeder sleeps and looks again
Gate ==
    /\ FeederGoes("top", "arm") /\ feederRunning /\ sources > 0
    /\ quiet >= Park => active
    /\ quiet' = IF quiet >= Park THEN 0 ELSE quiet
    /\ UNCHANGED <<cur, shake, intr, info, component, life, history>>

Arm ==
    /\ FeederGoes("arm", "raise")
    /\ ack' = FALSE
    /\ UNCHANGED <<quiet, cur, feederRunning, irq, intr, info, component, life, history>>

Raise ==
    /\ FeederGoes("raise", "wait")
    /\ irq' = TRUE
    /\ UNCHANGED <<quiet, cur, feederRunning, ack, intr, info, component, life, history>>

\* mutant: the wait ends with the guest's answer only
WaitStubborn ==
    /\ FeederGoes("wait", "check")
    /\ ack /\ UNCHANGED late
    /\ UNCHANGED <<quiet, cur, shake, intr, info, component, life, mixed, taken, stale>>

\* the wait ends with the answer, the end of the feeder, or after 20 ms
Wait ==
    /\ FeederGoes("wait", "check")
    /\ \/ (ack \/ ~feederRunning) /\ UNCHANGED late
       \/ late' = TRUE
    /\ UNCHANGED <<quiet, cur, shake, intr, info, component, life, mixed, taken, stale>>

\* the answer may also come between the timeout and this look; without one the feeder backs off
Check ==
    /\ pc = "check" /\ feederRunning
    /\ pc' = IF ack THEN "read" ELSE "top"
    /\ UNCHANGED <<quiet, cur, shake, intr, info, component, life, history>>

\* no data, or muted: silence of the feeder's own keeps the device going
PlaySilence ==
    /\ FeederGoes("read", "top")
    /\ info = "none" \/ mute
    /\ quiet' = quiet + 1
    /\ taken' = mixed
    /\ UNCHANGED <<cur, shake, intr, info, component, life, mixed, late, stale>>

ReadInfo ==
    /\ FeederGoes("read", "copy")
    /\ info # "none" /\ ~mute
    /\ cur' = info
    /\ UNCHANGED <<quiet, shake, intr, info, component, life, history>>

\* the block is copied, judged and written to the device
Play ==
    /\ FeederGoes("copy", "top")
    /\ quiet' = IF cur = "silent" THEN quiet + 1 ELSE 0
    /\ active' = (active \/ cur = "sound")
    /\ cur' = "none"
    /\ taken' = mixed
    /\ UNCHANGED <<shake, intr, info, opens, data, mixer, sources, mute, life, mixed, late, stale>>

Feeder == FeederStops \/ Gate \/ Arm \/ Raise \/ Wait \/ Check \/ PlaySilence \/ ReadInfo \/ Play

-----------------------------------------------------------------------------
(* The emulation thread *)

Emulates == life = "running" /\ intr = "idle"

\* mutant: the answer is given before the mixer has run
InterruptEarly ==
    /\ Emulates /\ irq /\ (mixer => mixed < MaxBlocks)
    /\ irq' = FALSE
    /\ ack' = TRUE
    /\ \/ mixer /\ intr' = "mixing" /\ UNCHANGED info
       \/ ~mixer /\ intr' = "idle" /\ info' = "none"
    /\ UNCHANGED <<feeder, feederRunning, component, life, history>>

\* AudioInterrupt: the mixer is asked for its next block
Interrupt ==
    /\ Emulates /\ irq /\ (mixer => mixed < MaxBlocks)
    /\ irq' = FALSE
    /\ \/ mixer /\ intr' = "mixing" /\ UNCHANGED info
       \/ ~mixer /\ intr' = "ack" /\ info' = "none"
    /\ UNCHANGED <<feeder, feederRunning, ack, component, life, history>>

Mixed ==
    /\ intr = "mixing" /\ intr' = "ack"
    /\ info' \in Contents
    /\ mixed' = mixed + 1
    /\ UNCHANGED <<feeder, shake, component, life, taken, late, stale>>

Ack ==
    /\ intr = "ack" /\ intr' = "idle"
    /\ ack' = TRUE
    /\ UNCHANGED <<feeder, feederRunning, irq, info, component, life, history>>

\* AudioDispatch: every call of the component notes activity
Call ==
    /\ Emulates /\ active' = TRUE
    /\ UNCHANGED <<feeder, shake, intr, life, history>>

Open ==
    /\ Call /\ opens < MaxOpens
    /\ opens' = opens + 1
    /\ data' = TRUE
    /\ info' = IF data THEN info ELSE "none"
    /\ UNCHANGED <<mixer, sources, mute>>

InitOutputDevice ==
    /\ Call /\ opens > 0 /\ feederRunning /\ ~mixer
    /\ mixer' \in BOOLEAN
    /\ info' = "none"
    /\ UNCHANGED <<opens, data, sources, mute>>

AddSource ==
    /\ Call /\ opens > 0 /\ sources < MaxSources
    /\ sources' = sources + 1
    /\ UNCHANGED <<info, opens, data, mixer, mute>>

RemoveSource ==
    /\ Call /\ opens > 0 /\ sources > 0
    /\ sources' = sources - 1
    /\ UNCHANGED <<info, opens, data, mixer, mute>>

\* siHardwareMute of AudioSetInfo
SetMute ==
    /\ Call /\ opens > 0
    /\ mute' \in BOOLEAN
    /\ UNCHANGED <<info, opens, data, mixer, sources>>

\* mutant: the last close gives the data area back before the mixer is closed
CloseUnclosed ==
    /\ Call /\ opens > 0
    /\ opens' = opens - 1
    /\ IF opens = 1
       THEN data' = FALSE /\ sources' = 0 /\ UNCHANGED mixer
       ELSE UNCHANGED <<data, mixer, sources>>
    /\ info' \in Contents
    /\ UNCHANGED mute

\* the last close closes the mixer and returns, or else gives the data area back;
\* without one the address of the block is read from the guest's low memory
Close ==
    /\ Call /\ opens > 0
    /\ opens' = opens - 1
    /\ \/ opens > 1 /\ UNCHANGED <<info, data, mixer, sources>>
       \/ opens = 1 /\ data /\ mixer /\ mixer' = FALSE /\ UNCHANGED <<info, data, sources>>
       \/ /\ opens = 1 /\ ~(data /\ mixer)
          /\ data' = FALSE /\ info' \in Contents
          /\ sources' = 0 /\ UNCHANGED mixer
    /\ UNCHANGED mute

\* AudioReset, when the guest restarts: the open instances and the mixer are not reset
Reset ==
    /\ Emulates
    /\ data' = FALSE /\ info' \in Contents
    /\ stale' = (stale \/ opens > 0)
    /\ UNCHANGED <<feeder, shake, intr, opens, mixer, sources, mute, active, life, mixed, taken, late>>

\* 500 ms without activity; a feeder at the gate looks every 20 ms
Expire ==
    /\ active /\ active' = FALSE
    /\ pc # "top"
    /\ UNCHANGED <<feeder, shake, intr, info, opens, data, mixer, sources, mute, life, history>>

\* close_audio
CloseAudio ==
    /\ Emulates
    /\ life' = "closing"
    /\ feederRunning' = FALSE
    /\ UNCHANGED <<feeder, ack, irq, intr, info, component, history>>

JoinFeeder ==
    /\ life = "closing" /\ pc = "gone"
    /\ life' = "freed"
    /\ UNCHANGED <<feeder, shake, intr, info, component, history>>

Finished == life = "freed" /\ UNCHANGED vars

Emulation ==
    \/ Interrupt \/ Mixed \/ Ack
    \/ Open \/ InitOutputDevice \/ AddSource \/ RemoveSource \/ SetMute \/ Close \/ Reset
    \/ CloseAudio \/ JoinFeeder

Next == Feeder \/ Emulation \/ Expire \/ Finished

Spec == Init /\ [][Next]_vars

\* the feeder's waits all end by time; a join that began goes on
Fairness == WF_vars(Feeder) /\ WF_vars(JoinFeeder)

LiveSpec == Spec /\ Fairness

-----------------------------------------------------------------------------
(* Properties *)

\* Types; the feeder counts silent blocks no further than needed to park (feeder_func).
TypeOK ==
    /\ pc \in FeederPlace /\ quiet \in 0 .. Park /\ cur \in Contents
    /\ feederRunning \in BOOLEAN /\ ack \in BOOLEAN /\ irq \in BOOLEAN
    /\ intr \in {"idle", "mixing", "ack"} /\ info \in Contents
    /\ opens \in 0 .. MaxOpens /\ data \in BOOLEAN /\ mixer \in BOOLEAN
    /\ sources \in 0 .. MaxSources /\ mute \in BOOLEAN /\ active \in BOOLEAN
    /\ life \in {"running", "closing", "freed"}
    /\ mixed \in 0 .. MaxBlocks /\ taken \in 0 .. MaxBlocks
    /\ late \in BOOLEAN /\ stale \in BOOLEAN

\* An open mixer has its data area, which AudioInterrupt and the feeder go through (audio.cpp),
\* through every order of opens, closes and restarts but one: a guest restarted with the component
\* open leaves the mixer of the old system behind.
MixerHasData == mixer => data \/ stale

\* While every answer comes in time the handshake is exact: a block is never read while the next one
\* is mixed, and every block is taken once, before the next one is asked for (irq_ack, feeder_func).
HandshakeExact ==
    ~late /\ life = "running" =>
        /\ pc \in {"read", "copy"} => intr = "idle" /\ ~irq
        /\ pc \in {"arm", "raise"} => intr = "idle" /\ ~irq /\ mixed = taken
        /\ mixed - taken <= 1

\* A call of the sound component reopens the gate of a parked feeder (QUIET_PARK_BLOCKS).
GateReopens ==
    pc = "top" /\ quiet >= Park /\ active /\ sources > 0
        ~> pc = "raise" \/ sources = 0 \/ ~feederRunning

\* AudioExit's join returns, whatever the guest answers (close_audio).
ExitCompletes == life = "closing" ~> life = "freed"

=============================================================================
