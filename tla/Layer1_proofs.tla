---------------------------- MODULE Layer1_proofs ----------------------------
(***************************************************************************)
(* For any number of frames in a call, and any numbering of the PDUs, the  *)
(* logical channels of FM and AM keep in step, interleaver IV spreads P3   *)
(* and P4 over three frames, and P1 goes out in order and again exactly    *)
(* three frames later.                                                     *)
(*                                                                         *)
(* The invariants count the frames encoded since the start: n of them, m   *)
(* of which by the call under way.  Everything the encoders keep is what   *)
(* the frames before n put there.                                          *)
(***************************************************************************)
EXTENDS Layer1, NumberTheorems, TLAPS

------------------------------------------------------------------------------
\* What the encoder knows of its ports before frame n, the m-th of this call.
PortsAt(n, m) ==
    /\ base = [p \in Ports |-> Rate(p) * ((n - m) % Frames)]
    /\ off = [p \in Ports |-> Rate(p) * m]

Of(p, n) == [port |-> p, pdus |-> FramePdus(p, n)]

\* What interleaver IV and the last frame hold of the frames of port p before n.
SpreadAt(n, internal, px, p) ==
    /\ sent >= 1 => /\ px.now = Of(p, n - 1)
                    /\ internal[internal_half].across = Of(p, n - 1)
                    /\ internal[1 - internal_half].behind = Of(p, n - 1)
    /\ sent >= 2 => /\ px.across = Of(p, n - 2)
                    /\ internal[internal_half].behind = Of(p, n - 2)
    /\ sent >= 3 => px.behind = Of(p, n - 3)

InternalType(internal) ==
    /\ DOMAIN internal = {0, 1}
    /\ \A h \in {0, 1} : internal[h] = [across |-> internal[h].across, behind |-> internal[h].behind]

\* Where the ring has the PDUs of the last three frames before n.
RingAt(n) ==
    P1Mod = 8 =>
        /\ p1_prime_off = 8 * (n % 3)
        /\ \A k \in 1 .. 3 : k <= sent =>
               \A i \in 0 .. 7 : p1_prime[8 * ((n - k) % 3) + i] = 8 * ((n - k) % Frames) + i

MemoryAt(n) ==
    /\ sent > 0 => \A p \in Ports : air.pdus[p] = FramePdus(p, n - 1)
    /\ RingAt(n)
    /\ Rate("p3") > 0 => SpreadAt(n, px1_internal, air.px1, "p3")
    /\ Rate("p4") > 0 => SpreadAt(n, px2_internal, air.px2, "p4")

FmType == /\ psm \in Modes /\ left \in Nat /\ sent \in 0 .. 3 /\ internal_half \in {0, 1}
          /\ InternalType(px1_internal) /\ InternalType(px2_internal)

FmIInv == FmType /\ \E n, m \in Nat : PortsAt(n, m) /\ MemoryAt(n)
------------------------------------------------------------------------------
LEMMA RateType ==
    ASSUME psm \in Modes
    PROVE  /\ \A p \in Ports : Rate(p) \in {0, 1, 8, 16}
           /\ Rate("pids") = 16 /\ Rate("p1") = P1Mod
           /\ P1Mod \in {1, 8}
           /\ "pids" \in Ports /\ "p1" \in Ports /\ "p3" \in Ports /\ "p4" \in Ports
<1>1. psm \in {1, 2, 3, 11, 5, 6}
  BY ModesAssumption
<1> QED BY <1>1 DEF Rate, P1Mod, Ports

\* A frame's number counts modulo Frames.
LEMMA FrameNumberWraps ==
    ASSUME NEW p, NEW a \in Int, NEW k \in Int
    PROVE  FramePdus(p, (a % Frames) - k) = FramePdus(p, a - k)
<1> DEFINE minus == 0 - k
<1>1. Frames \in Nat \ {0} /\ minus \in Int
  BY BoundsAssumption
<1>2. (a % Frames) + minus = (a % Frames) - k /\ a + minus = a - k
  BY <1>1
<1> HIDE DEF minus
<1>3. ((a % Frames) + minus) % Frames = (a + minus) % Frames
  BY <1>1, ModAdd
<1> QED BY <1>2, <1>3 DEF FramePdus

\* The PDUs of the frame being encoded are those of frame n.
LEMMA TakenIsFrame ==
    ASSUME psm \in Modes, NEW n \in Nat, NEW m \in Nat, PortsAt(n, m), NEW p \in Ports
    PROVE  Taken(p) = FramePdus(p, n)
<1> DEFINE r == Rate(p)
           d == (n - m) % Frames
<1>1. r \in {0, 1, 8, 16} /\ base[p] = r * d /\ off[p] = r * m
  BY RateType DEF PortsAt
<1>2. d \in Int
  BY BoundsAssumption
<1>3. (d + m) % Frames = n % Frames
  <2> DEFINE before == n - m
  <2>1. before \in Int /\ m \in Int /\ before + m = n /\ Frames \in Nat \ {0}
    BY BoundsAssumption
  <2> HIDE DEF before
  <2>2. ((before % Frames) + m) % Frames = (before + m) % Frames
    BY <2>1, ModAdd
  <2> QED BY <2>1, <2>2 DEF before
<1> HIDE DEF r, d
<1>4. ASSUME NEW i \in 0 .. r - 1
      PROVE  (base[p] + off[p] + i) % (r * Frames) = r * (n % Frames) + i
  <2>1. r \in Nat \ {0}
    BY <1>1, <1>4
  <2>2. base[p] + off[p] + i = r * (d + m) + i
    BY <1>1, <1>2, <2>1
  <2>3. d + m \in Int /\ Frames \in Nat \ {0}
    BY <1>2, BoundsAssumption
  <2>4. (r * (d + m) + i) % (r * Frames) = r * ((d + m) % Frames) + i
    BY <2>1, <2>3, ModScale
  <2> QED BY <2>2, <2>4, <1>3
<1> QED BY <1>4 DEF Taken, FramePdus, r

\* The number of the last frame, and of those before it.
LEMMA CurrentIsLast ==
    ASSUME psm \in Modes, NEW n \in Nat, air.pdus["pids"] = FramePdus("pids", n - 1), NEW p
    PROVE  /\ FramePdus(p, Current) = FramePdus(p, n - 1)
           /\ FramePdus(p, Current - 1) = FramePdus(p, n - 2)
           /\ FramePdus(p, Current - 2) = FramePdus(p, n - 3)
<1> DEFINE c == (n - 1) % Frames
<1>1. c \in Int /\ c = Current
  <2>1. c \in Int
    BY BoundsAssumption
  <2>2. FramePdus("pids", n - 1)[0] = 16 * c + 0
    BY RateType, BoundsAssumption DEF FramePdus
  <2>3. (16 * c + 0) \div 16 = c
    BY <2>1
  <2> QED BY <2>1, <2>2, <2>3 DEF Current
<1>2. /\ FramePdus(p, c - 0) = FramePdus(p, (n - 1) - 0)
      /\ FramePdus(p, c - 1) = FramePdus(p, (n - 1) - 1)
      /\ FramePdus(p, c - 2) = FramePdus(p, (n - 1) - 2)
  BY FrameNumberWraps
<1>3. c - 0 = c /\ (n - 1) - 0 = n - 1 /\ (n - 1) - 1 = n - 2 /\ (n - 1) - 2 = n - 3
  BY <1>1
<1> QED BY <1>1, <1>2, <1>3
------------------------------------------------------------------------------
LEMMA FmInit == Init => FmIInv
<1> SUFFICES ASSUME Init PROVE FmIInv
  OBVIOUS
<1>1. psm \in Modes
  BY DEF Init
<1>2. FmType
  BY DEF Init, FmType, InternalType, Fresh
<1>3. PortsAt(0, 0)
  <2>1. ASSUME NEW p \in Ports
        PROVE  Rate(p) * ((0 - 0) % Frames) = 0 /\ Rate(p) * 0 = 0
    <3>1. (0 - 0) % Frames = 0
      BY BoundsAssumption, ModSmall
    <3> QED BY <3>1, <1>1, RateType
  <2> QED BY <2>1 DEF PortsAt, Init
<1>4. MemoryAt(0)
  BY DEF MemoryAt, RingAt, SpreadAt, Init
<1> QED BY <1>2, <1>3, <1>4 DEF FmIInv
------------------------------------------------------------------------------
\* Kept changes one item of each half.
LEMMA KeptHalves ==
    ASSUME NEW internal, InternalType(internal), NEW half \in {0, 1}, NEW pdus
    PROVE  LET kept == Kept(internal, pdus, half)
           IN  /\ InternalType(kept)
               /\ kept[half].behind = pdus
               /\ kept[1 - half].across = pdus
               /\ kept[half].across = internal[half].across
               /\ kept[1 - half].behind = internal[1 - half].behind
<1>1. CASE half = 0
  BY <1>1 DEF Kept, InternalType
<1>2. CASE half = 1
  BY <1>2 DEF Kept, InternalType
<1> QED BY <1>1, <1>2

\* A frame puts each block of P1 where it read the block that it repeats, and
\* leaves the other two frames of the ring alone.
LEMMA RingStep ==
    ASSUME psm \in Modes, P1Mod = 8, sent \in 0 .. 3, NEW n \in Nat, RingAt(n),
           Taken("p1") = FramePdus("p1", n)
    PROVE  /\ Slot(8) = 8 * ((n + 1) % 3)
           /\ sent = 3 => \A i \in 0 .. 7 : Repeated[i] = 8 * ((n - 3) % Frames) + i
           /\ \A k \in 1 .. 3 : k <= sent + 1 =>
                  \A i \in 0 .. 7 :
                      Stored[8 * ((n + 1 - k) % 3) + i] = 8 * ((n + 1 - k) % Frames) + i
<1> DEFINE o == n % 3
<1>1. o \in 0 .. 2 /\ p1_prime_off = 8 * o /\ RingSize = 24
  BY DEF RingAt, RingSize
<1>2. \A i \in 0 .. 7 : Slot(i) = 8 * o + i
  BY <1>1 DEF Slot
<1>3. Slot(8) = 8 * ((n + 1) % 3)
  <2>1. Slot(8) = (8 * o + 8) % 24
    BY <1>1 DEF Slot
  <2>2. (n + 1) % 3 = IF o = 2 THEN 0 ELSE o + 1
    OBVIOUS
  <2> HIDE DEF o
  <2> QED BY <2>1, <2>2, <1>1
<1>4. ASSUME sent = 3, NEW i \in 0 .. 7
      PROVE  Repeated[i] = 8 * ((n - 3) % Frames) + i
  <2>1. (n - 3) % 3 = o
    OBVIOUS
  <2>2. p1_prime[8 * ((n - 3) % 3) + i] = 8 * ((n - 3) % Frames) + i
    BY <1>4 DEF RingAt
  <2> QED BY <2>1, <2>2, <1>2 DEF Repeated
<1>5. ASSUME NEW i \in 0 .. 7
      PROVE  Stored[8 * o + i] = 8 * (n % Frames) + i
  <2>1. (CHOOSE j \in 0 .. 7 : Slot(j) = 8 * o + i) = i
    BY <1>1, <1>2
  <2>2. 8 * o + i \in 0 .. RingSize - 1
    BY <1>1
  <2>3. Stored[8 * o + i] = Taken("p1")[i]
    BY <2>1, <2>2, <1>2 DEF Stored
  <2>4. Taken("p1")[i] = 8 * (n % Frames) + i
    BY RateType DEF FramePdus
  <2> QED BY <2>3, <2>4
<1>6. ASSUME NEW q \in 0 .. 2, q # o, NEW i \in 0 .. 7
      PROVE  Stored[8 * q + i] = p1_prime[8 * q + i]
  <2>1. ~ \E j \in 0 .. 7 : Slot(j) = 8 * q + i
    BY <1>1, <1>2, <1>6
  <2>2. 8 * q + i \in 0 .. RingSize - 1
    BY <1>1
  <2> QED BY <2>1, <2>2 DEF Stored
<1>7. ASSUME NEW k \in 1 .. 3, k <= sent + 1, NEW i \in 0 .. 7
      PROVE  Stored[8 * ((n + 1 - k) % 3) + i] = 8 * ((n + 1 - k) % Frames) + i
  <2>1. CASE k = 1
    <3>1. n + 1 - 1 = n
      OBVIOUS
    <3> QED BY <2>1, <3>1, <1>5
  <2>2. CASE k # 1
    <3>1. k - 1 \in 1 .. 3 /\ k - 1 <= sent /\ n + 1 - k = n - (k - 1)
      BY <1>7, <2>2
    <3>2. p1_prime[8 * ((n - (k - 1)) % 3) + i] = 8 * ((n - (k - 1)) % Frames) + i
      BY <3>1 DEF RingAt
    <3>3. (n + 1 - k) % 3 \in 0 .. 2 /\ (n + 1 - k) % 3 # o
      BY <2>2
    <3>4. Stored[8 * ((n + 1 - k) % 3) + i] = p1_prime[8 * ((n + 1 - k) % 3) + i]
      BY <3>3, <1>6
    <3> QED BY <3>1, <3>2, <3>4
  <2> QED BY <2>1, <2>2
<1> QED BY <1>3, <1>4, <1>7

\* A frame that is spread leaves what the next frames need of it.
LEMMA SpreadStep ==
    ASSUME FmType, NEW n \in Nat, NEW internal, InternalType(internal), NEW px, NEW p,
           SpreadAt(n, internal, px, p), EncodeFrame,
           Taken(p) = FramePdus(p, n), Of(p, n)' = Of(p, n),
           Of(p, n - 1)' = Of(p, n - 1), Of(p, n - 2)' = Of(p, n - 2),
           NEW internalNew, internalNew = Kept(internal, Encoded(p), internal_half),
           NEW pxNew, pxNew = Spread(internal, Encoded(p), internal_half)
    PROVE  /\ InternalType(internalNew)
           /\ sent' >= 1 => /\ pxNew.now = Of(p, n)
                            /\ internalNew[internal_half'].across = Of(p, n)
                            /\ internalNew[1 - internal_half'].behind = Of(p, n)
           /\ sent' >= 2 => /\ pxNew.across = Of(p, n - 1)
                            /\ internalNew[internal_half'].behind = Of(p, n - 1)
           /\ sent' >= 3 => pxNew.behind = Of(p, n - 2)
<1>1. internal_half \in {0, 1} /\ sent \in 0 .. 3
  BY DEF FmType
<1>2. internal_half' = 1 - internal_half /\ 1 - internal_half' = internal_half
  BY <1>1 DEF EncodeFrame, NextHalf
<1>3. /\ InternalType(internalNew)
      /\ internalNew[internal_half].behind = Encoded(p)
      /\ internalNew[1 - internal_half].across = Encoded(p)
      /\ internalNew[1 - internal_half].behind = internal[1 - internal_half].behind
  BY <1>1, KeptHalves
<1>4. Encoded(p) = Of(p, n)
  BY DEF Encoded, Of
<1>5. /\ pxNew.now = Encoded(p)
      /\ pxNew.across = internal[internal_half].across
      /\ pxNew.behind = internal[internal_half].behind
  BY DEF Spread
<1>6. sent' >= 2 => sent >= 1
  BY <1>1 DEF EncodeFrame, Lag
<1>7. sent' >= 3 => sent >= 2
  BY <1>1 DEF EncodeFrame, Lag
<1> QED BY <1>1, <1>2, <1>3, <1>4, <1>5, <1>6, <1>7 DEF SpreadAt

LEMMA FrameStep ==
    ASSUME FmType, NEW n \in Nat, NEW m \in Nat, PortsAt(n, m), MemoryAt(n), EncodeFrame
    PROVE  FmType' /\ PortsAt(n + 1, m + 1)' /\ MemoryAt(n + 1)'
<1>1. /\ psm \in Modes /\ sent \in 0 .. 3 /\ internal_half \in {0, 1}
      /\ InternalType(px1_internal) /\ InternalType(px2_internal)
  BY DEF FmType
<1>2. /\ psm' = psm /\ P1Mod' = P1Mod
      /\ \A p : Rate(p)' = Rate(p)
      /\ \A p, k : FramePdus(p, k)' = FramePdus(p, k)
      /\ \A p, k : Of(p, k)' = Of(p, k)
  BY DEF EncodeFrame, P1Mod, Rate, FramePdus, Of
<1>3. \A p \in Ports : Taken(p) = FramePdus(p, n)
  BY <1>1, TakenIsFrame
<1>4. /\ sent' \in 0 .. 3 /\ sent' <= sent + 1
  BY <1>1 DEF EncodeFrame, Lag
<1>5. PortsAt(n + 1, m + 1)'
  <2>1. base' = base /\ (n + 1) - (m + 1) = n - m
    BY DEF EncodeFrame
  <2>2. ASSUME NEW p \in Ports
        PROVE  off[p] + Rate(p) = Rate(p) * (m + 1)
    BY <1>1, RateType DEF PortsAt
  <2>3. off' = [p \in Ports |-> Rate(p) * (m + 1)]
    BY <2>2 DEF EncodeFrame
  <2> QED BY <2>1, <2>3, <1>2 DEF PortsAt
<1>6. sent' > 0 => \A p \in Ports : (air.pdus[p])' = FramePdus(p, (n + 1) - 1)'
  <2>1. (n + 1) - 1 = n
    OBVIOUS
  <2> QED BY <2>1, <1>2, <1>3 DEF EncodeFrame
<1>7. RingAt(n + 1)'
  <2> SUFFICES ASSUME P1Mod = 8 PROVE RingAt(n + 1)'
    BY <1>2 DEF RingAt
  <2>1. Taken("p1") = FramePdus("p1", n)
    BY <1>1, <1>3, RateType
  <2>2. RingAt(n)
    BY DEF MemoryAt
  <2>3. p1_prime' = Stored /\ p1_prime_off' = Slot(8)
    BY DEF EncodeFrame
  <2> QED BY <2>1, <2>2, <2>3, <1>1, <1>2, <1>4, RingStep DEF RingAt
<1>8. /\ InternalType(px1_internal)'
      /\ (Rate("p3") > 0 => SpreadAt(n + 1, px1_internal, air.px1, "p3"))'
  <2>1. CASE ~ (Rate("p3") > 0)
    BY <2>1, <1>1, <1>2 DEF EncodeFrame, InternalType
  <2>2. CASE Rate("p3") > 0
    <3>1. SpreadAt(n, px1_internal, air.px1, "p3")
      BY <2>2 DEF MemoryAt
    <3>2. /\ px1_internal' = Kept(px1_internal, Encoded("p3"), internal_half)
          /\ (air.px1)' = Spread(px1_internal, Encoded("p3"), internal_half)
      BY <2>2 DEF EncodeFrame, Px1Pdus
    <3>3. Taken("p3") = FramePdus("p3", n)
      BY <1>1, <1>3, RateType
    <3>4. /\ InternalType(px1_internal')
          /\ sent' >= 1 => /\ (air.px1)'.now = Of("p3", n)
                           /\ px1_internal'[internal_half'].across = Of("p3", n)
                           /\ px1_internal'[1 - internal_half'].behind = Of("p3", n)
          /\ sent' >= 2 => /\ (air.px1)'.across = Of("p3", n - 1)
                           /\ px1_internal'[internal_half'].behind = Of("p3", n - 1)
          /\ sent' >= 3 => (air.px1)'.behind = Of("p3", n - 2)
      BY <1>1, <1>2, <3>1, <3>2, <3>3, SpreadStep
    <3>5. (n + 1) - 1 = n /\ (n + 1) - 2 = n - 1 /\ (n + 1) - 3 = n - 2
      OBVIOUS
    <3> QED BY <3>4, <3>5, <1>2 DEF SpreadAt, InternalType
  <2> QED BY <2>1, <2>2
<1>9. /\ InternalType(px2_internal)'
      /\ (Rate("p4") > 0 => SpreadAt(n + 1, px2_internal, air.px2, "p4"))'
  <2>1. CASE ~ (Rate("p4") > 0)
    BY <2>1, <1>1, <1>2 DEF EncodeFrame, InternalType
  <2>2. CASE Rate("p4") > 0
    <3>1. SpreadAt(n, px2_internal, air.px2, "p4")
      BY <2>2 DEF MemoryAt
    <3>2. /\ px2_internal' = Kept(px2_internal, Encoded("p4"), internal_half)
          /\ (air.px2)' = Spread(px2_internal, Encoded("p4"), internal_half)
      BY <2>2 DEF EncodeFrame
    <3>3. Taken("p4") = FramePdus("p4", n)
      BY <1>1, <1>3, RateType
    <3>4. /\ InternalType(px2_internal')
          /\ sent' >= 1 => /\ (air.px2)'.now = Of("p4", n)
                           /\ px2_internal'[internal_half'].across = Of("p4", n)
                           /\ px2_internal'[1 - internal_half'].behind = Of("p4", n)
          /\ sent' >= 2 => /\ (air.px2)'.across = Of("p4", n - 1)
                           /\ px2_internal'[internal_half'].behind = Of("p4", n - 1)
          /\ sent' >= 3 => (air.px2)'.behind = Of("p4", n - 2)
      BY <1>1, <1>2, <3>1, <3>2, <3>3, SpreadStep
    <3>5. (n + 1) - 1 = n /\ (n + 1) - 2 = n - 1 /\ (n + 1) - 3 = n - 2
      OBVIOUS
    <3> QED BY <3>4, <3>5, <1>2 DEF SpreadAt, InternalType
  <2> QED BY <2>1, <2>2
<1>10. FmType'
  <2>1. left' \in Nat
    BY DEF EncodeFrame, FmType
  <2>2. internal_half' \in {0, 1}
    BY <1>1 DEF EncodeFrame, NextHalf
  <2> QED BY <2>1, <2>2, <1>1, <1>2, <1>4, <1>8, <1>9 DEF FmType
<1> QED BY <1>5, <1>6, <1>7, <1>8, <1>9, <1>10 DEF MemoryAt

\* The end of a call moves what it encoded from off to base.
LEMMA EndCallStep ==
    ASSUME FmType, NEW n \in Nat, NEW m \in Nat, PortsAt(n, m), EndCall
    PROVE  PortsAt(n, 0)'
<1>1. psm \in Modes /\ "pids" \in Ports /\ Rate("pids") = 16
  BY RateType DEF FmType
<1>2. \A p : Rate(p)' = Rate(p)
  BY DEF EndCall, P1Mod, Rate
<1>3. off["pids"] \div 16 = m
  <2>1. off["pids"] = 16 * m
    BY <1>1 DEF PortsAt
  <2> QED BY <2>1
<1>4. ASSUME NEW p \in Ports
      PROVE  (IF Rate(p) = 0 THEN 0 ELSE (base[p] + Consumed(p)) % (Rate(p) * Frames))
                 = Rate(p) * (n % Frames)
  <2> DEFINE r == Rate(p)
             before == n - m
             d == before % Frames
  <2>1. Frames \in Nat \ {0} /\ n % Frames \in Int
    BY BoundsAssumption
  <2>2. before \in Int /\ m \in Int /\ before + m = n /\ n - m = before
    OBVIOUS
  <2>3. r \in {0, 1, 8, 16} /\ base[p] = r * d /\ Consumed(p) = m * r
    BY <1>1, <1>3, RateType DEF PortsAt, Consumed
  <2>4. d \in Int
    BY <2>1, <2>2
  <2> HIDE DEF before
  <2>5. (d + m) % Frames = n % Frames
    BY <2>1, <2>2, ModAdd
  <2> HIDE DEF d, r
  <2>6. CASE r = 0
    BY <2>1, <2>6 DEF r
  <2>7. CASE r # 0
    <3>1. r \in Nat \ {0} /\ 0 \in 0 .. r - 1 /\ d + m \in Int
      BY <2>2, <2>3, <2>4, <2>7
    <3>2. base[p] + Consumed(p) = r * (d + m) + 0
      BY <2>2, <2>3, <2>4
    <3>3. (r * (d + m) + 0) % (r * Frames) = r * ((d + m) % Frames) + 0
      BY <2>1, <3>1, ModScale
    <3>4. r * ((d + m) % Frames) + 0 = r * (n % Frames)
      BY <2>1, <2>5, <3>1
    <3> QED BY <2>7, <3>2, <3>3, <3>4 DEF r
  <2> QED BY <2>6, <2>7
<1>5. base' = [p \in Ports |-> Rate(p) * (n % Frames)]
  BY <1>4 DEF EndCall
<1>6. off' = [p \in Ports |-> Rate(p) * 0]
  <2>1. \A p \in Ports : Rate(p) * 0 = 0
    BY <1>1, RateType
  <2> QED BY <2>1 DEF EndCall
<1>7. n - 0 = n
  OBVIOUS
<1> QED BY <1>2, <1>5, <1>6, <1>7 DEF PortsAt

\* Before the first frame and between the calls the memories do not change.
LEMMA MemoryStays ==
    ASSUME NEW n \in Nat, MemoryAt(n), UNCHANGED <<psm, memory, sent, air>>
    PROVE  MemoryAt(n)'
<1>1. /\ P1Mod' = P1Mod /\ \A p : Rate(p)' = Rate(p)
      /\ \A p, k : FramePdus(p, k)' = FramePdus(p, k)
      /\ \A p, k : Of(p, k)' = Of(p, k)
  BY DEF P1Mod, Rate, FramePdus, Of
<1> QED BY <1>1 DEF MemoryAt, RingAt, SpreadAt, memory

LEMMA FmNext == FmIInv /\ [Next]_vars => FmIInv'
<1> SUFFICES ASSUME FmIInv, [Next]_vars PROVE FmIInv'
  OBVIOUS
<1>1. PICK n \in Nat, m \in Nat : PortsAt(n, m) /\ MemoryAt(n)
  BY DEF FmIInv
<1>2. FmType
  BY DEF FmIInv
<1>3. CASE UNCHANGED vars
  <2>1. FmType'
    BY <1>2, <1>3 DEF FmType, InternalType, vars, ports, memory
  <2>2. PortsAt(n, m)'
    BY <1>1, <1>3 DEF PortsAt, Rate, P1Mod, vars, ports
  <2>3. MemoryAt(n)'
    BY <1>1, <1>3, MemoryStays DEF vars, ports
  <2> QED BY <2>1, <2>2, <2>3 DEF FmIInv
<1>4. ASSUME NEW c \in 1 .. MaxFrames, StartCall(c)
      PROVE  FmIInv'
  <2>1. FmType'
    BY <1>2, <1>4, BoundsAssumption DEF FmType, InternalType, StartCall, memory
  <2>2. PortsAt(n, m)'
    BY <1>1, <1>4 DEF PortsAt, Rate, P1Mod, StartCall
  <2>3. MemoryAt(n)'
    BY <1>1, <1>4, MemoryStays DEF StartCall
  <2> QED BY <2>1, <2>2, <2>3 DEF FmIInv
<1>5. CASE EncodeFrame
  <2>1. FmType' /\ PortsAt(n + 1, m + 1)' /\ MemoryAt(n + 1)'
    BY <1>1, <1>2, <1>5, FrameStep
  <2>2. n + 1 \in Nat /\ m + 1 \in Nat
    OBVIOUS
  <2> QED BY <2>1, <2>2 DEF FmIInv
<1>6. CASE EndCall
  <2>1. FmType'
    BY <1>2, <1>6 DEF FmType, InternalType, EndCall, memory
  <2>2. PortsAt(n, 0)'
    BY <1>1, <1>2, <1>6, EndCallStep
  <2>3. MemoryAt(n)'
    BY <1>1, <1>6, MemoryStays DEF EndCall
  <2> QED BY <2>1, <2>2, <2>3 DEF FmIInv
<1> QED BY <1>3, <1>4, <1>5, <1>6 DEF Next

\* What a frame carries on every port are the PDUs of one frame, P3 and P4
\* spread over three.
LEMMA FmInvariants == FmIInv => InStep /\ ThreeFramesSpread
<1> SUFFICES ASSUME FmIInv PROVE InStep /\ ThreeFramesSpread
  OBVIOUS
<1>1. PICK n \in Nat : MemoryAt(n)
  BY DEF FmIInv
<1>2. psm \in Modes /\ "pids" \in Ports /\ sent \in 0 .. 3
  BY RateType DEF FmIInv, FmType
<1>3. ASSUME sent > 0, NEW p
      PROVE  /\ FramePdus(p, Current) = FramePdus(p, n - 1)
             /\ FramePdus(p, Current - 1) = FramePdus(p, n - 2)
             /\ FramePdus(p, Current - 2) = FramePdus(p, n - 3)
  <2>1. air.pdus["pids"] = FramePdus("pids", n - 1)
    BY <1>1, <1>2, <1>3 DEF MemoryAt
  <2> QED BY <2>1, <1>2, CurrentIsLast
<1>4. InStep
  BY <1>1, <1>3 DEF InStep, MemoryAt
<1>5. ASSUME sent > 0, NEW p, NEW internal, NEW px, SpreadAt(n, internal, px, p)
      PROVE  SpreadOf(px, p)
  BY <1>2, <1>3, <1>5 DEF SpreadOf, SpreadAt, Of
<1>6. ThreeFramesSpread
  BY <1>1, <1>5 DEF ThreeFramesSpread, MemoryAt
<1> QED BY <1>4, <1>6
------------------------------------------------------------------------------
\* The number that FrameStream gives the next PDU.
LEMMA NextPdu ==
    ASSUME psm \in Modes, NEW n \in Nat, NEW m \in Nat, PortsAt(n, m)
    PROVE  (base["p1"] + off["p1"]) % (P1Mod * Frames) = P1Mod * (n % Frames)
<1>1. Taken("p1") = FramePdus("p1", n)
  BY TakenIsFrame, RateType
<1>2. /\ Rate("p1") = P1Mod /\ P1Mod \in {1, 8} /\ "p1" \in Ports
      /\ (n - m) % Frames \in Int /\ n % Frames \in Int
  BY RateType, BoundsAssumption
<1>3. Taken("p1")[0] = (base["p1"] + off["p1"] + 0) % (P1Mod * Frames)
  BY <1>2 DEF Taken
<1>4. FramePdus("p1", n)[0] = P1Mod * (n % Frames) + 0
  BY <1>2 DEF FramePdus
<1>5. base["p1"] + off["p1"] + 0 = base["p1"] + off["p1"]
  BY <1>2 DEF PortsAt
<1>6. P1Mod * (n % Frames) + 0 = P1Mod * (n % Frames)
  BY <1>2
<1> QED BY <1>1, <1>3, <1>4, <1>5, <1>6

\* What FrameStream sends next, and what it calls the next PDU after that.
LEMMA StreamOfFrame ==
    ASSUME NEW r \in {1, 8}, NEW F \in Nat \ {0}, NEW n \in Int
    PROVE  /\ \A i \in 0 .. r - 1 : (r * (n % F) + i) % (r * F) = r * (n % F) + i
           /\ (r * (n % F) + r) % (r * F) = r * ((n + 1) % F)
           /\ \A i \in 0 .. r - 1 :
                  (r * (n % F) + i - 3 * r) % (r * F) = r * ((n - 3) % F) + i
<1> DEFINE s == n % F
<1>1. /\ s \in 0 .. F - 1 /\ s \in Int /\ r \in Nat \ {0}
      /\ s + 1 \in Int /\ s + (0 - 3) \in Int /\ 1 \in Int /\ 0 - 3 \in Int
  BY DivMod
<1>2. s % F = s
  BY <1>1, ModSmall
<1>3. (s + 1) % F = (n + 1) % F
  BY <1>1, ModAdd
<1>4. (s + (0 - 3)) % F = (n + (0 - 3)) % F
  BY <1>1, ModAdd
<1> HIDE DEF s
<1>5. \A i \in 0 .. r - 1 : (r * s + i) % (r * F) = r * (s % F) + i
  BY <1>1, ModScale
<1>6. (r * s + r) % (r * F) = r * ((n + 1) % F)
  <2>1. (r * (s + 1) + 0) % (r * F) = r * ((s + 1) % F) + 0
    BY <1>1, ModScale
  <2>2. r * (s + 1) + 0 = r * s + r /\ (n + 1) % F \in Int
    BY <1>1
  <2> QED BY <2>1, <2>2, <1>3
<1>7. ASSUME NEW i \in 0 .. r - 1
      PROVE  (r * s + i - 3 * r) % (r * F) = r * ((n - 3) % F) + i
  <2>1. (r * (s + (0 - 3)) + i) % (r * F) = r * ((s + (0 - 3)) % F) + i
    BY <1>1, ModScale
  <2>2. r * (s + (0 - 3)) + i = r * s + i - 3 * r
    BY <1>1
  <2>3. n + (0 - 3) = n - 3
    OBVIOUS
  <2> QED BY <2>1, <2>2, <2>3, <1>4
<1> QED BY <1>2, <1>5, <1>6, <1>7 DEF s

LEMMA FmStreamInit == Init /\ psm \in Modes => Stream!Init
<1> SUFFICES ASSUME Init, psm \in Modes PROVE Stream!Init
  OBVIOUS
<1>1. P1Mod \in {1, 8} /\ "p1" \in Ports
  BY RateType
<1>2. (base["p1"] + off["p1"]) % (P1Mod * Frames) = 0
  <2>1. base["p1"] + off["p1"] = 0
    BY <1>1 DEF Init
  <2>2. P1Mod * Frames \in Nat \ {0}
    BY <1>1, BoundsAssumption
  <2>3. 0 % (P1Mod * Frames) = 0
    BY <2>2, ModSmall
  <2> QED BY <2>1, <2>3
<1> QED BY <1>1, <1>2 DEF Init, Stream!Init, NoPdus

\* A frame is sent; the rest of general_work does not show.
LEMMA FmStreamStep == FmIInv /\ [Next]_vars => [Stream!Next]_(Stream!vars)
<1> SUFFICES ASSUME FmIInv, [Next]_vars PROVE [Stream!Next]_(Stream!vars)
  OBVIOUS
<1>1. PICK n \in Nat, m \in Nat : PortsAt(n, m) /\ MemoryAt(n)
  BY DEF FmIInv
<1>2. FmType /\ psm \in Modes /\ sent \in 0 .. 3 /\ P1Mod \in {1, 8} /\ "p1" \in Ports
      /\ Rate("p1") = P1Mod /\ Frames \in Nat \ {0} /\ n \in Int
  BY RateType, BoundsAssumption DEF FmIInv, FmType
<1>3. CASE UNCHANGED vars
  BY <1>3 DEF Stream!vars, vars, ports, P1Mod
<1>4. ASSUME NEW c \in 1 .. MaxFrames, StartCall(c)
      PROVE  UNCHANGED Stream!vars
  BY <1>4 DEF StartCall, Stream!vars, P1Mod
<1>5. CASE EndCall
  <2>1. psm' = psm /\ P1Mod' = P1Mod /\ sent' = sent /\ air' = air
    BY <1>5 DEF EndCall, P1Mod
  <2>2. PortsAt(n, 0)'
    BY <1>1, <1>2, <1>5, EndCallStep
  <2>3. (base'["p1"] + off'["p1"]) % (P1Mod * Frames) = P1Mod * (n % Frames)
    <3>1. base'["p1"] = P1Mod * ((n - 0) % Frames) /\ off'["p1"] = P1Mod * 0
      BY <2>1, <2>2, <1>2 DEF PortsAt, Rate
    <3>2. base'["p1"] + off'["p1"] = P1Mod * (n % Frames) + 0
      BY <3>1, <1>2
    <3>3. \A i \in 0 .. P1Mod - 1 :
             (P1Mod * (n % Frames) + i) % (P1Mod * Frames) = P1Mod * (n % Frames) + i
      BY <1>2, StreamOfFrame
    <3>4. 0 \in 0 .. P1Mod - 1 /\ P1Mod * (n % Frames) + 0 = P1Mod * (n % Frames)
      BY <1>2
    <3> QED BY <3>2, <3>3, <3>4
  <2>4. (base["p1"] + off["p1"]) % (P1Mod * Frames) = P1Mod * (n % Frames)
    BY <1>1, <1>2, NextPdu
  <2> QED BY <2>1, <2>3, <2>4 DEF Stream!vars
<1>6. CASE EncodeFrame
  <2> DEFINE next == (base["p1"] + off["p1"]) % (P1Mod * Frames)
  <2>1. next = P1Mod * (n % Frames)
    BY <1>1, <1>2, NextPdu
  <2>2. P1Mod' = P1Mod /\ Taken("p1") = FramePdus("p1", n)
    BY <1>1, <1>2, <1>6, TakenIsFrame DEF EncodeFrame, P1Mod
  <2>3. /\ \A i \in 0 .. P1Mod - 1 :
               (P1Mod * (n % Frames) + i) % (P1Mod * Frames) = P1Mod * (n % Frames) + i
        /\ (P1Mod * (n % Frames) + P1Mod) % (P1Mod * Frames) = P1Mod * ((n + 1) % Frames)
        /\ \A i \in 0 .. P1Mod - 1 :
               (P1Mod * (n % Frames) + i - 3 * P1Mod) % (P1Mod * Frames)
                   = P1Mod * ((n - 3) % Frames) + i
    BY <1>2, StreamOfFrame
  <2>4. (air.pdus["p1"])' = [i \in 0 .. P1Mod - 1 |-> (next + i) % (P1Mod * Frames)]
    <3>1. (air.pdus["p1"])' = Taken("p1")
      BY <1>2, <1>6 DEF EncodeFrame
    <3>2. FramePdus("p1", n) = [i \in 0 .. P1Mod - 1 |-> P1Mod * (n % Frames) + i]
      BY <1>2 DEF FramePdus
    <3> QED BY <3>1, <3>2, <2>1, <2>2, <2>3
  <2>5. next' = (next + P1Mod) % (P1Mod * Frames)
    <3>1. base'["p1"] + off'["p1"] = (base["p1"] + off["p1"]) + P1Mod
      BY <1>1, <1>2, <1>6, BoundsAssumption DEF EncodeFrame, PortsAt
    <3>2. base["p1"] + off["p1"] \in Int /\ P1Mod \in Int /\ P1Mod * Frames \in Nat \ {0}
      BY <1>1, <1>2, BoundsAssumption DEF PortsAt
    <3>3. (((base["p1"] + off["p1"]) % (P1Mod * Frames)) + P1Mod) % (P1Mod * Frames)
              = ((base["p1"] + off["p1"]) + P1Mod) % (P1Mod * Frames)
      BY <3>2, ModAdd
    <3> QED BY <2>2, <3>1, <3>3
  <2>6. P1Mod = 8 /\ sent = Lag =>
            (air.backup)' = [i \in 0 .. P1Mod - 1 |-> (next + i - Lag * P1Mod) % (P1Mod * Frames)]
    <3> SUFFICES ASSUME P1Mod = 8, sent = Lag
                 PROVE  (air.backup)' = [i \in 0 .. P1Mod - 1 |->
                                            (next + i - Lag * P1Mod) % (P1Mod * Frames)]
      OBVIOUS
    <3>1. \A i \in 0 .. 7 : Repeated[i] = 8 * ((n - 3) % Frames) + i
      BY <1>1, <1>2, <2>2, RingStep DEF MemoryAt, Lag
    <3>2. (air.backup)' = [i \in 0 .. 7 |-> Repeated[i]]
      BY <1>6 DEF EncodeFrame, Repeated
    <3> QED BY <3>1, <3>2, <2>1, <2>3 DEF Lag
  <2>7. sent' = IF sent < Lag THEN sent + 1 ELSE Lag
    BY <1>6 DEF EncodeFrame
  <2> HIDE DEF next
  <2>8. Stream!SendFrame
    BY <2>2, <2>4, <2>5, <2>6, <2>7 DEF Stream!SendFrame, Stream!Pdu, next
  <2> QED BY <2>8 DEF Stream!Next
<1> QED BY <1>3, <1>4, <1>5, <1>6 DEF Next, Stream!Next
------------------------------------------------------------------------------
\* The PDUs of frame n: P1 and PIDS have eight, P3 has one.
Eight(n) == [i \in 0 .. 7 |-> 8 * (n % AmFrames) + i]
One(n) == n % AmFrames

AmPortsAt(n, m) ==
    /\ am_base = 8 * ((n - m) % AmFrames)
    /\ p1_off = 8 * m /\ pids_off = 8 * m
    /\ p3_off = IF rdb THEN 0 ELSE m

\* What the delay lines of P3 and the last frame hold of the frames before n.
AmMemoryAt(n) ==
    /\ am_sent > 0 => am_air.pids = Eight(n - 1)
    /\ (~ rdb /\ am_sent > 0) => am_air.p3[1] = One(n - 1)
    /\ (~ rdb /\ sm = 3 /\ am_sent > 3) => am_air.p3[2] = One(n - 4)
    /\ (~ rdb /\ sm = 3) => \A k \in 1 .. 3 : k <= am_sent => eb[4 - k] = One(n - k)

\* With one frame in a call P1 is coded to the start of p1_g, and the delay
\* lines of P1 hold the three frames before n.
OneFrameAt(n, m) ==
    /\ am_left <= 1
    /\ am_left > 0 => m = 0
    /\ \A k \in 1 .. 3 : k <= am_sent => b[4 - k] = Eight(n - k)

AmType == /\ sm \in {1, 3} /\ rdb \in BOOLEAN /\ am_left \in Nat /\ am_sent \in 0 .. 4
          /\ b = [f \in 1 .. 4 |-> b[f]] /\ eb = [f \in 1 .. 4 |-> eb[f]]

AmIInv == AmType /\ \E n, m \in Nat : /\ AmPortsAt(n, m) /\ AmMemoryAt(n)
                                      /\ AmMaxFrames = 1 => OneFrameAt(n, m)

\* The PDUs at the offsets of the frame being encoded are those of frame n.
LEMMA AmTaken ==
    ASSUME NEW n \in Nat, NEW m \in Nat, AmPortsAt(n, m)
    PROVE  /\ \A i \in 0 .. 7 : Am!Pdu(pids_off, i) = 8 * (n % AmFrames) + i
           /\ \A i \in 0 .. 7 : Am!Pdu(p1_off, i) = 8 * (n % AmFrames) + i
           /\ ~ rdb => Am!P3Pdu = One(n)
<1> DEFINE before == n - m
           d == before % AmFrames
<1>1. AmFrames \in Nat \ {0} /\ before \in Int /\ m \in Int /\ before + m = n
  BY AmBoundsAssumption
<1>2. d \in Int /\ am_base = 8 * d /\ pids_off = 8 * m /\ p1_off = 8 * m
  BY <1>1 DEF AmPortsAt
<1> HIDE DEF before
<1>3. (d + m) % AmFrames = n % AmFrames
  BY <1>1, ModAdd
<1> HIDE DEF d
<1>4. ASSUME NEW i \in 0 .. 7
      PROVE  (8 * d + 8 * m + i) % (8 * AmFrames) = 8 * (n % AmFrames) + i
  <2>1. d + m \in Int /\ i \in 0 .. 8 - 1 /\ 8 \in Nat \ {0}
    BY <1>1, <1>2
  <2>2. (8 * (d + m) + i) % (8 * AmFrames) = 8 * ((d + m) % AmFrames) + i
    BY <1>1, <2>1, ModScale
  <2>3. 8 * (d + m) + i = 8 * d + 8 * m + i
    BY <1>1, <1>2
  <2> QED BY <2>2, <2>3, <1>3
<1>5. ~ rdb => Am!P3Pdu = One(n)
  <2>1. am_base \div 8 = d
    BY <1>2
  <2> QED BY <2>1, <1>3 DEF Am!P3Pdu, Am!P1Mod, One, AmPortsAt
<1> QED BY <1>2, <1>4, <1>5 DEF Am!Pdu, Am!P1Mod

\* Moving a delay line brings the frame that was put at its end to the third
\* place and the others one place forward.
LEMMA MovedLine ==
    ASSUME NEW line, line = [f \in 1 .. 4 |-> line[f]], NEW item
    PROVE  LET new == [line EXCEPT ![Am!Lag + 1] = item]
           IN  /\ Am!Oldest(new) = line[1]
               /\ Am!Moved(new) = [f \in 1 .. 4 |-> Am!Moved(new)[f]]
               /\ Am!Moved(new)[3] = item
               /\ Am!Moved(new)[2] = line[3]
               /\ Am!Moved(new)[1] = line[2]
BY DEF Am!Oldest, Am!Moved, Am!Lag

LEMMA AmInit == Am!Init => AmIInv
<1> SUFFICES ASSUME Am!Init PROVE AmIInv
  OBVIOUS
<1>1. AmType
  BY DEF Am!Init, AmType, Am!Lag
<1>2. AmPortsAt(0, 0)
  <2>1. (0 - 0) % AmFrames = 0
    BY AmBoundsAssumption, ModSmall
  <2> QED BY <2>1 DEF AmPortsAt, Am!Init
<1>3. AmMemoryAt(0) /\ OneFrameAt(0, 0)
  BY DEF AmMemoryAt, OneFrameAt, Am!Init
<1> QED BY <1>1, <1>2, <1>3 DEF AmIInv

LEMMA AmFrameStep ==
    ASSUME AmType, NEW n \in Nat, NEW m \in Nat, AmPortsAt(n, m), AmMemoryAt(n),
           AmMaxFrames = 1 => OneFrameAt(n, m), Am!EncodeFrame
    PROVE  /\ AmType' /\ AmPortsAt(n + 1, m + 1)' /\ AmMemoryAt(n + 1)'
           /\ AmMaxFrames = 1 => OneFrameAt(n + 1, m + 1)'
<1> DEFINE fresh == [i \in 0 .. Am!P1Mod - 1 |-> Am!Coded[i]]
           line == [b EXCEPT ![Am!Lag + 1] = fresh]
           eline == [eb EXCEPT ![Am!Lag + 1] = Am!P3Pdu]
<1>1. /\ sm \in {1, 3} /\ rdb \in BOOLEAN /\ am_left \in Nat /\ am_sent \in 0 .. 4
      /\ b = [f \in 1 .. 4 |-> b[f]] /\ eb = [f \in 1 .. 4 |-> eb[f]]
  BY DEF AmType
<1>2. /\ sm' = sm /\ rdb' = rdb /\ am_base' = am_base /\ am_left > 0
      /\ am_left' = am_left - 1
      /\ p1_off' = p1_off + 8 /\ pids_off' = pids_off + 8
      /\ p3_off' = IF rdb THEN p3_off ELSE p3_off + 1
      /\ b' = Am!Moved(line)
      /\ eb' = IF sm = 3 /\ ~ rdb THEN Am!Moved(eline) ELSE eb
      /\ am_sent' = IF am_sent <= 3 THEN am_sent + 1 ELSE am_sent
      /\ am_air'.pids = [i \in 0 .. 7 |-> Am!Pdu(pids_off, i)]
      /\ ~ rdb /\ sm = 1 => am_air'.p3 = <<Am!P3Pdu>>
      /\ ~ rdb /\ sm = 3 => am_air'.p3 = <<Am!P3Pdu, Am!Oldest(eline)>>
  BY <1>1 DEF Am!EncodeFrame, Am!HasP3, Am!P1Mod, Am!Lag
<1>3. am_sent' \in 0 .. 4 /\ am_sent' <= am_sent + 1
  BY <1>1, <1>2
<1>4. /\ (n + 1) - 1 = n /\ (n + 1) - 2 = n - 1 /\ (n + 1) - 3 = n - 2
      /\ (n + 1) - 4 = n - 3 /\ (n + 1) - (m + 1) = n - m
      /\ 8 * (m + 1) = 8 * m + 8
  OBVIOUS
<1> HIDE DEF fresh
<1>5. /\ Am!Oldest(eline) = eb[1]
      /\ Am!Moved(eline) = [f \in 1 .. 4 |-> Am!Moved(eline)[f]]
      /\ Am!Moved(eline)[3] = Am!P3Pdu
      /\ Am!Moved(eline)[2] = eb[3] /\ Am!Moved(eline)[1] = eb[2]
  <2>1. eb = [f \in 1 .. 4 |-> eb[f]]
    BY <1>1
  <2> QED BY <2>1, MovedLine
<1>6. /\ Am!Moved(line) = [f \in 1 .. 4 |-> Am!Moved(line)[f]]
      /\ Am!Moved(line)[3] = fresh
      /\ Am!Moved(line)[2] = b[3] /\ Am!Moved(line)[1] = b[2]
  <2>1. b = [f \in 1 .. 4 |-> b[f]]
    BY <1>1
  <2> QED BY <2>1, MovedLine, ZenonT(40)
<1> HIDE DEF eline, line
<1>7. AmType'
  BY <1>1, <1>2, <1>3, <1>5, <1>6 DEF AmType
<1>8. AmPortsAt(n + 1, m + 1)'
  BY <1>1, <1>2, <1>4 DEF AmPortsAt
<1>9. AmMemoryAt(n + 1)'
  <2>1. am_air'.pids = Eight(n)
    BY <1>2, AmTaken DEF Eight
  <2>2. ASSUME ~ rdb
        PROVE  am_air'.p3[1] = One(n)
    BY <1>1, <1>2, <2>2, AmTaken
  <2>3. ASSUME ~ rdb, sm = 3, am_sent' > 3
        PROVE  am_air'.p3[2] = One(n - 3)
    <3>1. am_sent >= 3
      BY <1>1, <1>2, <2>3
    <3>2. eb[4 - 3] = One(n - 3)
      BY <1>1, <2>3, <3>1 DEF AmMemoryAt
    <3> QED BY <1>2, <1>5, <2>3, <3>2
  <2>4. ASSUME ~ rdb, sm = 3, NEW k \in 1 .. 3, k <= am_sent'
        PROVE  eb'[4 - k] = One((n + 1) - k)
    <3>1. eb' = Am!Moved(eline)
      BY <1>2, <2>4
    <3>2. CASE k = 1
      BY <3>1, <3>2, <1>4, <1>5, <2>4, AmTaken
    <3>3. CASE k = 2
      <4>1. eb[4 - 1] = One(n - 1)
        BY <1>1, <1>3, <2>4, <3>3 DEF AmMemoryAt
      <4> QED BY <3>1, <3>3, <4>1, <1>4, <1>5
    <3>4. CASE k = 3
      <4>1. eb[4 - 2] = One(n - 2)
        BY <1>1, <1>3, <2>4, <3>4 DEF AmMemoryAt
      <4> QED BY <3>1, <3>4, <4>1, <1>4, <1>5
    <3> QED BY <3>2, <3>3, <3>4
  <2> QED BY <1>2, <1>4, <2>1, <2>2, <2>3, <2>4 DEF AmMemoryAt, Eight, One
<1>10. ASSUME AmMaxFrames = 1
       PROVE  OneFrameAt(n + 1, m + 1)'
  <2>1. OneFrameAt(n, m)
    BY <1>10
  <2>2. p1_off = 0 /\ am_left' = 0
    BY <1>1, <1>2, <2>1 DEF OneFrameAt, AmPortsAt
  <2>3. fresh = Eight(n)
    <3>1. \A i \in 0 .. 7 : Am!Coded[i] = Am!Pdu(p1_off, i)
      BY <2>2 DEF Am!Coded, Am!P1Mod
    <3> QED BY <3>1, AmTaken DEF Eight, Am!P1Mod, fresh
  <2>4. ASSUME NEW k \in 1 .. 3, k <= am_sent'
        PROVE  b'[4 - k] = Eight((n + 1) - k)
    <3>1. CASE k = 1
      BY <3>1, <1>2, <1>4, <1>6, <2>3
    <3>2. CASE k = 2
      <4>1. b[4 - 1] = Eight(n - 1)
        BY <1>1, <1>3, <2>1, <2>4, <3>2 DEF OneFrameAt
      <4> QED BY <3>2, <4>1, <1>2, <1>4, <1>6
    <3>3. CASE k = 3
      <4>1. b[4 - 2] = Eight(n - 2)
        BY <1>1, <1>3, <2>1, <2>4, <3>3 DEF OneFrameAt
      <4> QED BY <3>3, <4>1, <1>2, <1>4, <1>6
    <3> QED BY <3>1, <3>2, <3>3
  <2> QED BY <2>2, <2>4 DEF OneFrameAt, Eight
<1> QED BY <1>7, <1>8, <1>9, <1>10

LEMMA AmNextPdu ==
    ASSUME NEW n \in Nat, NEW m \in Nat, AmPortsAt(n, m)
    PROVE  (am_base + p1_off) % (8 * AmFrames) = 8 * (n % AmFrames)
<1>1. Am!Pdu(p1_off, 0) = 8 * (n % AmFrames) + 0
  BY AmTaken
<1>2. Am!Pdu(p1_off, 0) = (am_base + p1_off + 0) % (8 * AmFrames)
  BY DEF Am!Pdu, Am!P1Mod
<1>3. (n - m) % AmFrames \in Int /\ n % AmFrames \in Int
  BY AmBoundsAssumption
<1>4. am_base + p1_off + 0 = am_base + p1_off /\ 8 * (n % AmFrames) + 0 = 8 * (n % AmFrames)
  BY <1>3 DEF AmPortsAt
<1> QED BY <1>1, <1>2, <1>4

LEMMA AmEndCallStep ==
    ASSUME NEW n \in Nat, NEW m \in Nat, AmPortsAt(n, m), Am!EndCall
    PROVE  AmPortsAt(n, 0)'
<1>1. am_base' = 8 * (n % AmFrames)
  BY AmNextPdu DEF Am!EndCall, Am!P1Mod
<1>2. n - 0 = n
  OBVIOUS
<1> QED BY <1>1, <1>2 DEF AmPortsAt, Am!EndCall

LEMMA AmNext == AmIInv /\ [Am!Next]_(Am!vars) => AmIInv'
<1> SUFFICES ASSUME AmIInv, [Am!Next]_(Am!vars) PROVE AmIInv'
  OBVIOUS
<1>1. PICK n \in Nat, m \in Nat : /\ AmPortsAt(n, m) /\ AmMemoryAt(n)
                                  /\ AmMaxFrames = 1 => OneFrameAt(n, m)
  BY DEF AmIInv
<1>2. AmType
  BY DEF AmIInv
<1>3. ASSUME UNCHANGED <<sm, rdb, b, eb, am_sent, am_air>>
      PROVE  AmMemoryAt(n)'
  BY <1>1, <1>3 DEF AmMemoryAt, Eight, One
<1>4. CASE UNCHANGED Am!vars
  BY <1>1, <1>2, <1>3, <1>4
  DEF AmIInv, AmType, AmPortsAt, OneFrameAt, Eight, Am!vars, Am!ports, Am!memory
<1>5. ASSUME NEW c \in 1 .. AmMaxFrames, Am!StartCall(c)
      PROVE  AmIInv'
  <2>1. AmType'
    BY <1>2, <1>5, AmBoundsAssumption DEF AmType, Am!StartCall, Am!memory
  <2>2. AmPortsAt(n, m)' /\ AmMemoryAt(n)'
    BY <1>1, <1>3, <1>5 DEF AmPortsAt, Am!StartCall, Am!memory
  <2>3. ASSUME AmMaxFrames = 1
        PROVE  OneFrameAt(n, m)'
    <3>1. m = 0 /\ am_left' = 1
      BY <1>1, <1>5, <2>3 DEF Am!StartCall, AmPortsAt
    <3> QED BY <3>1, <1>1, <1>5, <2>3 DEF OneFrameAt, Eight, Am!StartCall, Am!memory
  <2> QED BY <2>1, <2>2, <2>3 DEF AmIInv
<1>6. CASE Am!EncodeFrame
  <2>1. /\ AmType' /\ AmPortsAt(n + 1, m + 1)' /\ AmMemoryAt(n + 1)'
        /\ AmMaxFrames = 1 => OneFrameAt(n + 1, m + 1)'
    BY <1>1, <1>2, <1>6, AmFrameStep
  <2>2. n + 1 \in Nat /\ m + 1 \in Nat
    OBVIOUS
  <2> QED BY <2>1, <2>2 DEF AmIInv
<1>7. CASE Am!EndCall
  <2>1. AmType'
    BY <1>2, <1>7 DEF AmType, Am!EndCall, Am!memory
  <2>2. AmPortsAt(n, 0)' /\ AmMemoryAt(n)'
    BY <1>1, <1>3, <1>7, AmEndCallStep DEF Am!EndCall, Am!memory
  <2>3. AmMaxFrames = 1 => OneFrameAt(n, 0)'
    BY <1>1, <1>7 DEF OneFrameAt, Eight, Am!EndCall, Am!memory
  <2> QED BY <2>1, <2>2, <2>3 DEF AmIInv
<1> QED BY <1>4, <1>5, <1>6, <1>7 DEF Am!Next

LEMMA AmInvariant == AmIInv => Am!P3InStep
<1> SUFFICES ASSUME AmIInv, am_sent > 0, ~ rdb
             PROVE  /\ am_air.p3[1] = Am!Current
                    /\ sm = 3 /\ am_sent > 3 => am_air.p3[2] = (Am!Current - 3) % AmFrames
  BY DEF Am!P3InStep, Am!HasP3, Am!Lag
<1>1. PICK n \in Nat : AmMemoryAt(n)
  BY DEF AmIInv
<1> DEFINE before == n - 1
           minus == 0 - 3
           c == before % AmFrames
<1>2. /\ AmFrames \in Nat \ {0} /\ before \in Int /\ minus \in Int
      /\ before + minus = n - 4
  BY AmBoundsAssumption
<1>3. c \in Int /\ c - 3 = c + minus
  BY <1>2
<1>4. Am!Current = c
  <2>1. am_air.pids[0] = 8 * c + 0
    BY <1>1, <1>3 DEF AmMemoryAt, Eight
  <2>2. (8 * c + 0) \div 8 = c
    BY <1>3
  <2> QED BY <2>1, <2>2 DEF Am!Current, Am!P1Mod
<1>5. (c + minus) % AmFrames = (n - 4) % AmFrames
  <2> HIDE DEF before, minus
  <2> QED BY <1>2, ModAdd
<1> QED BY <1>1, <1>3, <1>4, <1>5 DEF AmMemoryAt, One

LEMMA AmStreamInit == Am!Init => Am!Stream!Init
<1> SUFFICES ASSUME Am!Init PROVE Am!Stream!Init
  OBVIOUS
<1>1. (am_base + p1_off) % (8 * AmFrames) = 0
  BY AmBoundsAssumption, ModSmall DEF Am!Init
<1> QED BY <1>1 DEF Am!Init, Am!Stream!Init, Am!NoPdus, Am!P1Mod, Am!Lag

\* With one frame in a call, what was coded to p1_g is sent.
LEMMA AmStreamStep ==
    ASSUME AmMaxFrames = 1, AmIInv, [Am!Next]_(Am!vars)
    PROVE  [Am!Stream!Next]_(Am!Stream!vars)
<1>1. PICK n \in Nat, m \in Nat : AmPortsAt(n, m) /\ OneFrameAt(n, m)
  BY DEF AmIInv
<1>2. AmType /\ am_sent \in 0 .. 4 /\ AmFrames \in Nat \ {0} /\ n \in Int /\ 8 \in {1, 8}
  BY AmBoundsAssumption DEF AmIInv, AmType
<1>3. CASE UNCHANGED Am!vars
  BY <1>3 DEF Am!Stream!vars, Am!vars, Am!ports
<1>4. ASSUME NEW c \in 1 .. AmMaxFrames, Am!StartCall(c)
      PROVE  UNCHANGED Am!Stream!vars
  BY <1>4 DEF Am!StartCall, Am!Stream!vars
<1>5. /\ \A i \in 0 .. 8 - 1 : (8 * (n % AmFrames) + i) % (8 * AmFrames) = 8 * (n % AmFrames) + i
      /\ (8 * (n % AmFrames) + 8) % (8 * AmFrames) = 8 * ((n + 1) % AmFrames)
      /\ \A i \in 0 .. 8 - 1 : (8 * (n % AmFrames) + i - 3 * 8) % (8 * AmFrames)
                                   = 8 * ((n - 3) % AmFrames) + i
  BY <1>2, StreamOfFrame
<1>6. (am_base + p1_off) % (8 * AmFrames) = 8 * (n % AmFrames)
  BY <1>1, AmNextPdu
<1> DEFINE next == (am_base + p1_off) % (8 * AmFrames)
<1>7. next = 8 * (n % AmFrames)
  BY <1>6
<1>8. CASE Am!EndCall
  <2>1. am_base' = 8 * (n % AmFrames) /\ p1_off' = 0 /\ am_sent' = am_sent /\ am_air' = am_air
    BY <1>6, <1>8 DEF Am!EndCall, Am!P1Mod
  <2>2. (am_base' + p1_off') % (8 * AmFrames) = 8 * (n % AmFrames)
    BY <2>1, <1>5
  <2> QED BY <2>1, <2>2, <1>6 DEF Am!Stream!vars, Am!P1Mod
<1>9. CASE Am!EncodeFrame
  <2>1. /\ am_sent' = IF am_sent <= 3 THEN am_sent + 1 ELSE am_sent
        /\ am_base' = am_base /\ p1_off' = p1_off + 8 /\ am_left > 0
        /\ am_air'.p1 = [i \in 0 .. 7 |-> Am!Coded[i]]
        /\ am_air'.backup = Am!Oldest([b EXCEPT ![4] = [i \in 0 .. 7 |-> Am!Coded[i]]])
    BY <1>9 DEF Am!EncodeFrame, Am!Lag, Am!P1Mod
  <2>2. am_air'.p1 = [i \in 0 .. 7 |-> (next + i) % (8 * AmFrames)]
    <3>1. p1_off = 0
      BY <1>1, <2>1 DEF OneFrameAt, AmPortsAt
    <3>2. \A i \in 0 .. 7 : Am!Coded[i] = Am!Pdu(p1_off, i)
      BY <3>1 DEF Am!Coded, Am!P1Mod
    <3>3. \A i \in 0 .. 7 : Am!Pdu(p1_off, i) = 8 * (n % AmFrames) + i
      BY <1>1, AmTaken
    <3> HIDE DEF next
    <3> QED BY <3>2, <3>3, <2>1, <1>5, <1>7
  <2>3. (am_base' + p1_off') % (8 * AmFrames) = (next + 8) % (8 * AmFrames)
    <3>1. /\ am_base + p1_off \in Int /\ 8 \in Int /\ 8 * AmFrames \in Nat \ {0}
          /\ am_base' + p1_off' = (am_base + p1_off) + 8
      BY <1>1, <2>1, AmBoundsAssumption DEF AmPortsAt
    <3> QED BY <3>1, ModAdd
  <2>4. am_sent >= 3 =>
            am_air'.backup = [i \in 0 .. 7 |-> (next + i - 3 * 8) % (8 * AmFrames)]
    <3>1. Am!Oldest([b EXCEPT ![4] = [i \in 0 .. 7 |-> Am!Coded[i]]]) = b[1]
      BY <1>2 DEF Am!Oldest, AmType
    <3>2. am_sent >= 3 => b[4 - 3] = Eight(n - 3)
      BY <1>1 DEF OneFrameAt
    <3> HIDE DEF next
    <3> QED BY <3>1, <3>2, <2>1, <1>5, <1>7 DEF Eight
  <2>5. /\ am_sent < 3 => (IF am_sent' < 3 THEN am_sent' ELSE 3) = am_sent + 1
        /\ am_sent >= 3 => (IF am_sent' < 3 THEN am_sent' ELSE 3) = 3
    BY <1>2, <2>1
  <2> HIDE DEF next
  <2>6. Am!Stream!SendFrame
    BY <1>2, <2>2, <2>3, <2>4, <2>5
    DEF Am!Stream!SendFrame, Am!Stream!Pdu, Am!P1Mod, Am!Lag, next
  <2> QED BY <2>6 DEF Am!Stream!Next
<1> QED BY <1>3, <1>4, <1>8, <1>9 DEF Am!Next
------------------------------------------------------------------------------
\* A step of a station is one of the encoder that it has, or of neither.
LEMMA Layer1Step ==
    [Layer1Next]_<<band, vars, amvars, matrixvars>> => [Next]_vars /\ [Am!Next]_(Am!vars)
BY DEF Layer1Next, FmStart, FmFrame, FmEnd, AmStart, AmFrame, AmEnd, FillMatrix, Filled,
       Next, Am!Next, amvars, Am!vars, Am!ports, Am!memory, vars, ports, memory

\* The invariants of both encoders, on every station.
LEMMA Layer1Invariant == Layer1Spec => [](FmIInv /\ AmIInv)
<1>1. Layer1Init => FmIInv /\ AmIInv
  BY FmInit, AmInit DEF Layer1Init
<1>2. FmIInv /\ AmIInv /\ [Layer1Next]_<<band, vars, amvars, matrixvars>>
          => (FmIInv /\ AmIInv)'
  BY FmNext, AmNext, Layer1Step
<1> QED BY <1>1, <1>2, PTL DEF Layer1Spec

\* In FM the PDUs that a frame carries on every port are those of one and the
\* same frame; in AM P3 goes with PIDS and its backup is three frames old.
THEOREM Layer1InStep == Layer1Spec => []ChannelsInStep
<1>1. FmIInv /\ AmIInv => ChannelsInStep
  BY FmInvariants, AmInvariant DEF ChannelsInStep
<1> QED BY <1>1, Layer1Invariant, PTL

\* A frame of PX1 is made of P3, and one of PX2 of P4, of this frame and the
\* two before.
THEOREM Layer1Spread == Layer1Spec => []ThreeFramesSpread
<1> QED BY FmInvariants, Layer1Invariant, PTL

\* The FM encoder sends P1 in order, and in modes 5 and 6 again as P1' exactly
\* three frames later.
THEOREM FmImplementsStream == Layer1Spec => ImplementsStream
<1>1. Layer1Init => Stream!Init
  BY FmStreamInit DEF Layer1Init, Init
<1>2. FmIInv /\ [Layer1Next]_<<band, vars, amvars, matrixvars>>
          => [Stream!Next]_(Stream!vars)
  BY FmStreamStep, Layer1Step
<1> QED BY <1>1, <1>2, Layer1Invariant, PTL DEF Layer1Spec, ImplementsStream, Stream!Spec

\* So does the AM encoder, where a call encodes one frame.  With two frames in
\* a call it does not: see the run l1_am_two_frames.
THEOREM AmImplementsStreamIfOne == AmMaxFrames = 1 => (Layer1Spec => AmImplementsStream)
<1> SUFFICES ASSUME AmMaxFrames = 1 PROVE Layer1Spec => AmImplementsStream
  OBVIOUS
<1>1. Layer1Init => Am!Stream!Init
  BY AmStreamInit DEF Layer1Init
<1>2. AmIInv /\ [Layer1Next]_<<band, vars, amvars, matrixvars>>
          => [Am!Stream!Next]_(Am!Stream!vars)
  BY AmStreamStep, Layer1Step
<1> QED BY <1>1, <1>2, Layer1Invariant, PTL
        DEF Layer1Spec, AmImplementsStream, Am!ImplementsStream, Am!Stream!Spec
==============================================================================
