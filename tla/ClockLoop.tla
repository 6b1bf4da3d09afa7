------------------------------ MODULE ClockLoop ------------------------------
(***************************************************************************)
(* The loop that paces a transmitter: the SIS encoder                      *)
(* (lib/sis_encoder_impl.cc) and the PSD encoder (lib/psd_encoder_impl.cc) *)
(* write only what the clock of the layer 1 encoder                        *)
(* (lib/l1_fm_encoder_impl.cc, lib/l1_am_encoder_impl.cc) grants them;     *)
(* the layer 2 encoder (lib/l2_encoder_impl.cc) turns PSD into P1 PDUs;    *)
(* and layer 1 ticks once for every frame it makes of PIDS blocks and      *)
(* PDUs.  In AM a second layer 2 encoder makes the P3 PDUs.  Every block   *)
(* runs in a thread of its own; streams and clock messages wait in the     *)
(* queues between them.  Sound and the room at layer 1's output are taken  *)
(* to be there.                                                            *)
(***************************************************************************)
EXTENDS Integers

CONSTANTS Stations,        \* the transmitters, what their clock loop is made of
          Capacity,        \* PDUs the buffer from layer 2 to layer 1 holds
          P3Capacity,      \* P3 PDUs the buffer from the other layer 2 encoder holds
          AudioNeed,       \* audio packets the forecast asks for a PDU
          AudioCapacity,   \* audio packets the buffer from the HDC encoder holds
          MaxFrames        \* bound: frames in one call of layer 1

ASSUME StationsAssumption ==
    \A s \in Stations :
        /\ s.blocks \in Nat \ {0} /\ s.p1_mod \in Nat \ {0} /\ s.psd_bytes \in Nat \ {0}
        /\ s.p3_mod \in Nat /\ s.bytes_per_frame \in Nat

ASSUME NumbersAssumption ==
    /\ Capacity \in Nat /\ P3Capacity \in Nat /\ MaxFrames \in Nat \ {0}
    /\ AudioNeed \in Nat /\ AudioCapacity \in Nat

\* README.md:35: 128 for one PDU a frame with 128 bytes, 64 for eight with 8.
ASSUME LimitAssumption == \A s \in Stations : s.bytes_per_frame = s.p1_mod * s.psd_bytes

\* The flowgraphs connect layer 1's clock to both encoders.
ASSUME ClockedAssumption ==
    \A s \in Stations : /\ <<"l1", "sis", "clock">> \in s.messages
                        /\ <<"l1", "psd", "clock">> \in s.messages

\* set_min_output_buffer(0, 16) in the layer 2 encoder is there for this; the
\* other buffers are larger than one forecast by default.
ASSUME CapacityAssumption ==
    /\ \A s \in Stations : Capacity >= s.p1_mod /\ P3Capacity >= s.p3_mod
    /\ AudioCapacity >= AudioNeed

VARIABLES station,         \* the transmitter that runs
          blocks_allowed,  \* SIS: blocks it may write
          sis_clock,       \* clock messages waiting at SIS
          pids,            \* blocks between SIS and layer 1
          bytes_allowed,   \* PSD: bytes it may write
          psd_clock,       \* clock messages waiting at PSD
          psd,             \* bytes between PSD and layer 2
          audio,           \* packets between the HDC encoder and layer 2
          p1,              \* PDUs between layer 2 and layer 1
          p3,              \* P3 PDUs between the other layer 2 encoder and layer 1
          left,            \* frames layer 1's call has still to encode
          done             \* frames it has encoded but not yet consumed

sisvars == <<blocks_allowed, sis_clock>>
psdvars == <<bytes_allowed, psd_clock>>
callvars == <<left, done>>
vars == <<station, sisvars, pids, psdvars, psd, audio, p1, p3, callvars>>

BlocksPerFrame == station.blocks
BytesPerFrame == station.bytes_per_frame
PsdBytes == station.psd_bytes
P1Mod == station.p1_mod
P3Mod == station.p3_mod

\* Mutant: the encoder waits for the first clock.
InitialBlocksNone == 0

InitialBlocks == BlocksPerFrame * 2

\* Mutant: three frames of PSD ahead.
InitialBytesThree == BytesPerFrame * 3

InitialBytes == BytesPerFrame * 2

Init == /\ station \in Stations
        /\ blocks_allowed = InitialBlocks /\ sis_clock = 0 /\ pids = 0
        /\ bytes_allowed = InitialBytes /\ psd_clock = 0 /\ psd = 0
        /\ audio = 0 /\ p1 = 0 /\ p3 = 0
        /\ left = 0 /\ done = 0

\* SIS's work: its output multiple is a frame's blocks.
SisWork ==
    /\ blocks_allowed >= BlocksPerFrame
    /\ blocks_allowed' = blocks_allowed - BlocksPerFrame
    /\ pids' = pids + BlocksPerFrame
    /\ UNCHANGED <<station, sis_clock, psdvars, psd, audio, p1, p3, callvars>>

\* PSD's work: as few as one byte.
PsdWork ==
    /\ bytes_allowed > 0
    /\ bytes_allowed' = bytes_allowed - 1
    /\ psd' = psd + 1
    /\ UNCHANGED <<station, sisvars, pids, psd_clock, audio, p1, p3, callvars>>

\* The HDC encoder's general_work, when its output buffer has room.
HdcWork ==
    /\ audio < AudioCapacity
    /\ audio' = audio + 1
    /\ UNCHANGED <<station, sisvars, pids, psdvars, psd, p1, p3, callvars>>

\* Mutant: the buffer has half the size set_min_output_buffer asks for.
RoomDefault == p1 < Capacity \div 2

\* The scheduler calls layer 2 when there is room for a PDU.
Room == p1 < Capacity

\* Layer 2's general_work: its forecast asks for PsdBytes and AudioNeed for
\* each PDU; it consumes the packets that go into the PDU.
L2Work ==
    /\ psd >= PsdBytes /\ audio >= AudioNeed /\ Room
    /\ psd' = psd - PsdBytes
    /\ \E n \in 0 .. AudioNeed : audio' = audio - n
    /\ p1' = p1 + 1
    /\ UNCHANGED <<station, sisvars, pids, psdvars, p3, callvars>>

\* general_work of a layer 2 encoder without programs: it has no inputs.
L2P3Work ==
    /\ P3Mod > 0 /\ p3 < P3Capacity
    /\ p3' = p3 + 1
    /\ UNCHANGED <<station, sisvars, pids, psdvars, psd, audio, p1, callvars>>

\* The scheduler calls layer 1 with the input its forecast asks for n frames.
L1Start(n) ==
    /\ left = 0 /\ done = 0
    /\ p1 >= n * P1Mod /\ p3 >= n * P3Mod /\ pids >= n * BlocksPerFrame
    /\ left' = n
    /\ UNCHANGED <<station, sisvars, pids, psdvars, psd, audio, p1, p3, done>>

\* message_port_pub at the end of every frame, to what is connected.
Clocks(block) == IF <<"l1", block, "clock">> \in station.messages THEN 1 ELSE 0

L1Frame ==
    /\ left > 0
    /\ left' = left - 1 /\ done' = done + 1
    /\ sis_clock' = sis_clock + Clocks("sis")
    /\ psd_clock' = psd_clock + Clocks("psd")
    /\ UNCHANGED <<station, blocks_allowed, pids, bytes_allowed, psd, audio, p1, p3>>

\* The consume calls before general_work returns.
L1End ==
    /\ left = 0 /\ done > 0
    /\ pids' = pids - done * BlocksPerFrame
    /\ p1' = p1 - done * P1Mod
    /\ p3' = p3 - done * P3Mod
    /\ done' = 0
    /\ UNCHANGED <<station, sisvars, psdvars, psd, audio, left>>

Grant == BlocksPerFrame

SisHandleClock ==
    /\ sis_clock > 0
    /\ sis_clock' = sis_clock - 1
    /\ blocks_allowed' = blocks_allowed + Grant
    /\ UNCHANGED <<station, pids, psdvars, psd, audio, p1, p3, callvars>>

PsdHandleClock ==
    /\ psd_clock > 0
    /\ psd_clock' = psd_clock - 1
    /\ bytes_allowed' = bytes_allowed + BytesPerFrame
    /\ UNCHANGED <<station, sisvars, pids, psd, audio, p1, p3, callvars>>

L1Call == \E n \in 1 .. MaxFrames : L1Start(n)

Next == \/ SisWork \/ PsdWork \/ HdcWork \/ L2Work \/ L2P3Work
        \/ L1Call \/ L1Frame \/ L1End
        \/ SisHandleClock \/ PsdHandleClock

Spec == Init /\ [][Next]_vars

\* Every thread keeps running while it has something to do.
FairSpec == /\ Spec
            /\ WF_vars(SisWork) /\ WF_vars(SisHandleClock)
            /\ WF_vars(PsdWork) /\ WF_vars(PsdHandleClock)
            /\ WF_vars(HdcWork) /\ WF_vars(L2Work) /\ WF_vars(L2P3Work)
            /\ WF_vars(L1Call) /\ WF_vars(L1Frame) /\ WF_vars(L1End)
------------------------------------------------------------------------------
TypeOK ==
    /\ station \in Stations
    /\ blocks_allowed \in Nat /\ sis_clock \in Nat /\ pids \in Nat
    /\ bytes_allowed \in Nat /\ psd_clock \in Nat /\ psd \in Nat
    /\ audio \in 0 .. AudioCapacity
    /\ p1 \in 0 .. Capacity /\ p3 \in 0 .. P3Capacity
    /\ left \in 0 .. MaxFrames /\ done \in 0 .. MaxFrames

\* The frames of a call are there until it consumes them.
CallCovered == /\ left + done <= MaxFrames
               /\ (left + done) * P1Mod <= p1
               /\ (left + done) * P3Mod <= p3
               /\ (left + done) * BlocksPerFrame <= pids

\* What was granted and not consumed is two frames: to be written, or written,
\* or on its way as a clock; a frame encoded in this call counts twice.
PidsConserved ==
    blocks_allowed + sis_clock * BlocksPerFrame + pids
        = InitialBlocks + done * BlocksPerFrame
PsdConserved ==
    bytes_allowed + psd_clock * BytesPerFrame + psd + p1 * PsdBytes
        = InitialBytes + done * BytesPerFrame

\* The inductive invariant.
IInv == TypeOK /\ CallCovered /\ PidsConserved /\ PsdConserved

(***************************************************************************)
(* The clock controls latency, as README.md says it is connected for: when *)
(* layer 1 is between calls, at most two frames of PIDS blocks, and of PSD *)
(* bytes and PDUs made of them, wait to be transmitted.                    *)
(***************************************************************************)
TwoFramesAhead ==
    done = 0 => /\ pids <= 2 * BlocksPerFrame
                /\ psd + p1 * PsdBytes <= 2 * BytesPerFrame

(***************************************************************************)
(* The blocks never all wait for each other: a clock is waiting, or one of *)
(* the encoders has what its next step needs.                              *)
(***************************************************************************)
SomeoneCanWork ==
    \/ blocks_allowed >= BlocksPerFrame \/ sis_clock > 0
    \/ bytes_allowed > 0 \/ psd_clock > 0
    \/ audio < AudioNeed /\ audio < AudioCapacity
    \/ psd >= PsdBytes /\ audio >= AudioNeed /\ p1 < Capacity
    \/ p3 < P3Mod /\ p3 < P3Capacity
    \/ left > 0 \/ done > 0
    \/ p1 >= P1Mod /\ p3 >= P3Mod /\ pids >= BlocksPerFrame

(***************************************************************************)
(* Frames are encoded for ever.                                            *)
(***************************************************************************)
FramesForEver == []<>(done > 0)
==============================================================================
