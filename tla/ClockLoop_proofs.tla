--------------------------- MODULE ClockLoop_proofs ---------------------------
(***************************************************************************)
(* For all transmitters, whatever the number of blocks, PDUs and bytes in  *)
(* a frame, and every sufficient buffer: the encoders stay at most two     *)
(* frames ahead of layer 1 and never all wait for each other.              *)
(***************************************************************************)
EXTENDS ClockLoop, TLAPS

\* What the assumptions say of the transmitter that runs.
LEMMA Parameters ==
    ASSUME station \in Stations
    PROVE  /\ BlocksPerFrame \in Nat \ {0} /\ P1Mod \in Nat \ {0} /\ P3Mod \in Nat
           /\ PsdBytes \in Nat \ {0} /\ BytesPerFrame \in Nat
           /\ BytesPerFrame = P1Mod * PsdBytes
           /\ Capacity >= P1Mod /\ P3Capacity >= P3Mod
           /\ Clocks("sis") = 1 /\ Clocks("psd") = 1
  BY StationsAssumption, LimitAssumption, ClockedAssumption, CapacityAssumption
     DEF BlocksPerFrame, P1Mod, P3Mod, PsdBytes, BytesPerFrame, Clocks

\* The transmitter stays what it is.
LEMMA SameStation ==
    ASSUME station' = station
    PROVE  /\ BlocksPerFrame' = BlocksPerFrame /\ P1Mod' = P1Mod /\ P3Mod' = P3Mod
           /\ PsdBytes' = PsdBytes /\ BytesPerFrame' = BytesPerFrame
  BY DEF BlocksPerFrame, P1Mod, P3Mod, PsdBytes, BytesPerFrame

\* Every step keeps what was granted equal to what was consumed and two frames.
LEMMA Invariance == Spec => []IInv
<1> USE NumbersAssumption DEF InitialBlocks, InitialBytes
<1>1. Init => IInv
  BY Parameters DEF Init, IInv, TypeOK, CallCovered, PidsConserved, PsdConserved
<1>2. IInv /\ [Next]_vars => IInv'
  <2> SUFFICES ASSUME IInv, [Next]_vars PROVE IInv'
    OBVIOUS
  <2>a. station' = station
    BY DEF Next, L1Call, SisWork, PsdWork, HdcWork, L2Work, L2P3Work, L1Start, L1Frame,
           L1End, SisHandleClock, PsdHandleClock, vars
  <2>b. /\ BlocksPerFrame' = BlocksPerFrame /\ P1Mod' = P1Mod /\ P3Mod' = P3Mod
        /\ PsdBytes' = PsdBytes /\ BytesPerFrame' = BytesPerFrame
    BY <2>a, SameStation
  <2>c. /\ BlocksPerFrame \in Nat \ {0} /\ P1Mod \in Nat \ {0} /\ P3Mod \in Nat
        /\ PsdBytes \in Nat \ {0} /\ BytesPerFrame \in Nat
        /\ Clocks("sis") = 1 /\ Clocks("psd") = 1
    BY Parameters DEF IInv, TypeOK
  <2>d. BytesPerFrame = P1Mod * PsdBytes
    BY Parameters DEF IInv, TypeOK
  <2> USE <2>a, <2>b, <2>c DEF IInv, TypeOK, CallCovered, PidsConserved, PsdConserved
  <2>1. CASE SisWork
    BY <2>1 DEF SisWork, psdvars, callvars
  <2>2. CASE PsdWork
    BY <2>2 DEF PsdWork, sisvars, callvars
  <2>3. CASE HdcWork
    BY <2>3 DEF HdcWork, sisvars, psdvars, callvars
  <2>4. CASE L2Work
    BY <2>4 DEF L2Work, Room, sisvars, psdvars, callvars
  <2>5. CASE L2P3Work
    BY <2>5 DEF L2P3Work, sisvars, psdvars, callvars
  <2>6. ASSUME NEW n \in 1 .. MaxFrames, L1Start(n) PROVE IInv'
    BY <2>6 DEF L1Start, sisvars, psdvars
  <2>7. CASE L1Frame
    <3>1. /\ left > 0 /\ left' = left - 1 /\ done' = done + 1 /\ left' + done' = left + done
          /\ sis_clock' = sis_clock + 1 /\ psd_clock' = psd_clock + 1
          /\ UNCHANGED <<blocks_allowed, pids, bytes_allowed, psd, audio, p1, p3>>
      BY <2>7 DEF L1Frame
    <3>2. TypeOK' /\ CallCovered'
      BY <3>1
    <3>3. PidsConserved' /\ PsdConserved'
      BY <3>1
    <3> QED
      BY <3>2, <3>3
  <2>8. CASE L1End
    <3>1. /\ done' = 0 /\ left' = 0 /\ left = 0
          /\ pids' = pids - done * BlocksPerFrame
          /\ p1' = p1 - done * P1Mod
          /\ p3' = p3 - done * P3Mod
          /\ UNCHANGED <<blocks_allowed, sis_clock, bytes_allowed, psd_clock, psd, audio>>
      BY <2>8 DEF L1End, sisvars, psdvars
    <3>2. done * P1Mod <= p1 /\ done * P3Mod <= p3 /\ done * BlocksPerFrame <= pids
      BY <3>1
    <3>3. done * P1Mod \in Nat /\ done * P3Mod \in Nat /\ done * BlocksPerFrame \in Nat
      OBVIOUS
    <3>4. TypeOK' /\ CallCovered'
      BY <3>1, <3>2, <3>3
    <3>5. PidsConserved'
      BY <3>1
    <3>6. (p1 - done * P1Mod) * PsdBytes = p1 * PsdBytes - done * (P1Mod * PsdBytes)
      OBVIOUS
    <3>7. PsdConserved'
      BY <3>1, <3>6, <2>d
    <3> QED
      BY <3>4, <3>5, <3>7
  <2>9. CASE SisHandleClock
    BY <2>9 DEF SisHandleClock, Grant, psdvars, callvars
  <2>10. CASE PsdHandleClock
    BY <2>10 DEF PsdHandleClock, sisvars, callvars
  <2>11. CASE UNCHANGED vars
    BY <2>11 DEF vars, sisvars, psdvars, callvars
  <2> QED
    BY <2>1, <2>2, <2>3, <2>4, <2>5, <2>6, <2>7, <2>8, <2>9, <2>10, <2>11 DEF Next, L1Call
<1> QED
  BY <1>1, <1>2, PTL DEF Spec

\* At most two frames of PIDS and of PSD wait to be transmitted.
THEOREM LatencyBounded == Spec => []TwoFramesAhead
<1>1. IInv => TwoFramesAhead
  BY Parameters, NumbersAssumption
     DEF IInv, TypeOK, PidsConserved, PsdConserved, TwoFramesAhead, InitialBlocks, InitialBytes
<1> QED
  BY <1>1, Invariance, PTL

\* Whatever is granted and not yet sent, some encoder or handler can take a step.
THEOREM NoDeadlock == Spec => []SomeoneCanWork
<1>1. IInv => SomeoneCanWork
  <2> SUFFICES ASSUME IInv, ~ SomeoneCanWork PROVE FALSE
    OBVIOUS
  <2>a. /\ BlocksPerFrame \in Nat \ {0} /\ P1Mod \in Nat \ {0} /\ P3Mod \in Nat
        /\ PsdBytes \in Nat \ {0} /\ BytesPerFrame = P1Mod * PsdBytes
        /\ Capacity >= P1Mod /\ P3Capacity >= P3Mod
    BY Parameters DEF IInv, TypeOK
  <2> USE <2>a, NumbersAssumption, CapacityAssumption
  <2>1. /\ sis_clock = 0 /\ psd_clock = 0 /\ bytes_allowed = 0 /\ done = 0
        /\ blocks_allowed < BlocksPerFrame
        /\ audio >= AudioNeed /\ p3 >= P3Mod
        /\ psd < PsdBytes \/ p1 >= Capacity
        /\ p1 < P1Mod \/ pids < BlocksPerFrame
    BY DEF IInv, TypeOK, SomeoneCanWork
  <2>2. pids >= BlocksPerFrame
    BY <2>1 DEF IInv, TypeOK, PidsConserved, InitialBlocks
  <2>3. p1 < P1Mod
    BY <2>1, <2>2 DEF IInv, TypeOK
  <2>4. psd < PsdBytes
    BY <2>1, <2>3 DEF IInv, TypeOK
  <2>5. psd + p1 * PsdBytes = 2 * (P1Mod * PsdBytes)
    BY <2>1 DEF IInv, TypeOK, PsdConserved, InitialBytes
  <2>6. p1 * PsdBytes + PsdBytes <= P1Mod * PsdBytes
    BY <2>3 DEF IInv, TypeOK
  <2> QED
    BY <2>4, <2>5, <2>6 DEF IInv, TypeOK
<1> QED
  BY <1>1, Invariance, PTL
===============================================================================
