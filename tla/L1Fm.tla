-------------------------------- MODULE L1Fm --------------------------------
(***************************************************************************)
(* The layer 1 FM encoder (lib/l1_fm_encoder_impl.cc): one call of         *)
(* general_work encodes as many frames as the scheduler has room for.      *)
(* Between frames it keeps the ring in which P1 waits for its second       *)
(* transmission as P1', and the memories of interleaver IV, which spreads  *)
(* P3 and P4 over three frames.                                            *)
(*                                                                         *)
(* A PDU is its number on its input.  Scrambling and the convolutional     *)
(* code change no PDU's place; where interleaver IV puts every bit is      *)
(* module FmInterleavers.                                                  *)
(***************************************************************************)
EXTENDS Integers, Sequences

CONSTANTS Modes,      \* the service modes considered
          Frames,     \* bound: PDUs are numbered modulo those of Frames frames
          MaxFrames   \* bound: frames in one call

ASSUME ModesAssumption == Modes \subseteq {1, 2, 3, 11, 5, 6}
ASSUME BoundsAssumption == /\ Frames \in Nat /\ Frames > 3
                           /\ MaxFrames \in Nat \ {0}

Ports == {"p1", "p2", "p3", "p4", "pids"}
Lag == 3
Uninit == -1          \* what malloc returned

VARIABLES psm,
          base,       \* PDUs consumed on each port by the calls before
          off,        \* PDUs encoded on each port by this call
          left,       \* frames this call has still to encode
          p1_prime,   \* the ring of P1 PDUs that await their repetition
          p1_prime_off,
          px1_internal, px2_internal,  \* interleaver IV's memories: see Spread
          internal_half,
          sent,       \* history: frames encoded, counted up to Lag
          air         \* what the last frame carries

ports == <<psm, base, off, left>>
memory == <<p1_prime, p1_prime_off, px1_internal, px2_internal, internal_half>>
vars == <<ports, memory, sent, air>>

P1Mod == IF psm \in {5, 6} THEN 8 ELSE 1

\* PDUs of a port in a frame; 0 if the mode does not have it.
Rate(p) == CASE p = "p1"   -> P1Mod
             [] p = "p2"   -> IF psm \in {5, 6} THEN 1 ELSE 0
             [] p = "p3"   -> IF psm \in {2, 3, 11, 5} THEN 8 ELSE 0
             [] p = "p4"   -> IF psm = 11 THEN 8 ELSE 0
             [] p = "pids" -> 16

\* Mutant: room for two frames of P1 instead of three.
RingSizeTwo == P1Mod * 2

RingSize == P1Mod * 3

NoPdus == << >>
Fresh == [across |-> <<Uninit>>, behind |-> <<Uninit>>]

Init == /\ psm \in Modes
        /\ base = [p \in Ports |-> 0]
        /\ off = [p \in Ports |-> 0]
        /\ left = 0
        /\ p1_prime = IF P1Mod = 8 THEN [k \in 0 .. RingSize - 1 |-> Uninit] ELSE NoPdus
        /\ p1_prime_off = 0
        /\ px1_internal = [h \in {0, 1} |-> Fresh]
        /\ px2_internal = [h \in {0, 1} |-> Fresh]
        /\ internal_half = 0
        /\ sent = 0
        /\ air = [pdus |-> [p \in Ports |-> NoPdus], backup |-> NoPdus,
                  px1 |-> NoPdus, px2 |-> NoPdus]

\* The scheduler calls general_work with room for n frames and input for them.
StartCall(n) ==
    /\ left = 0 /\ off["pids"] = 0
    /\ left' = n
    /\ UNCHANGED <<psm, base, off, memory, sent, air>>

\* The PDUs of port p in the frame being encoded.
Taken(p) == [i \in 0 .. Rate(p) - 1 |-> (base[p] + off[p] + i) % (Rate(p) * Frames)]

\* Where block i of the frame finds its repetition and leaves its PDU.
Slot(i) == (p1_prime_off + i) % RingSize

\* The blocks of P1': each is read before the block's own PDU replaces it.
Repeated == IF P1Mod = 8 THEN [i \in 0 .. 7 |-> p1_prime[Slot(i)]] ELSE NoPdus

Stored == IF P1Mod = 8
          THEN [k \in 0 .. RingSize - 1 |->
                   IF \E i \in 0 .. 7 : Slot(i) = k
                   THEN Taken("p1")[CHOOSE i \in 0 .. 7 : Slot(i) = k]
                   ELSE p1_prime[k]]
          ELSE NoPdus

(***************************************************************************)
(* interleaver_iv at the scale of frames.  It writes each bit to its place *)
(* and reads the current half of the memory from end to end.  A place of   *)
(* that half ahead of the reader is sent at once; one behind it in two     *)
(* frames; one in the other half in the next frame.                        *)
(***************************************************************************)
Spread(internal, pdus, half) ==
    [now |-> pdus, across |-> internal[half].across, behind |-> internal[half].behind]

Kept(internal, pdus, half) ==
    [internal EXCEPT ![half].behind = pdus, ![1 - half].across = pdus]

\* What p3_p4_g holds after port p's PDUs were encoded into it.
Encoded(p) == [port |-> p, pdus |-> Taken(p)]

\* Mutant: both channels are encoded into p3_p4_g before either is interleaved.
Px1PdusLate == IF Rate("p4") > 0 THEN Encoded("p4") ELSE Encoded("p3")

\* What p3_p4_g holds when px1_matrix is made.
Px1Pdus == Encoded("p3")

NextHalf == 1 - internal_half

\* One frame of general_work's loop.
EncodeFrame ==
    /\ left > 0
    /\ left' = left - 1
    /\ off' = [p \in Ports |-> off[p] + Rate(p)]
    /\ p1_prime' = Stored
    /\ p1_prime_off' = IF P1Mod = 8 THEN Slot(8) ELSE p1_prime_off
    /\ px1_internal' = IF Rate("p3") > 0 THEN Kept(px1_internal, Px1Pdus, internal_half)
                       ELSE px1_internal
    /\ px2_internal' = IF Rate("p4") > 0 THEN Kept(px2_internal, Encoded("p4"), internal_half)
                       ELSE px2_internal
    /\ internal_half' = NextHalf
    /\ sent' = IF sent < Lag THEN sent + 1 ELSE Lag
    /\ air' = [pdus |-> [p \in Ports |-> Taken(p)], backup |-> Repeated,
               px1 |-> IF Rate("p3") > 0 THEN Spread(px1_internal, Px1Pdus, internal_half)
                       ELSE NoPdus,
               px2 |-> IF Rate("p4") > 0 THEN Spread(px2_internal, Encoded("p4"), internal_half)
                       ELSE NoPdus]
    /\ UNCHANGED <<psm, base>>

\* Mutant: P3 is consumed at the rate of P1.
ConsumedAtP1Rate(p) == (off["pids"] \div 16) * (IF p = "p3" THEN Rate("p1") ELSE Rate(p))

Consumed(p) == (off["pids"] \div 16) * Rate(p)

\* The consume calls at the end of general_work.
EndCall ==
    /\ left = 0 /\ off["pids"] > 0
    /\ base' = [p \in Ports |-> IF Rate(p) = 0 THEN 0
                                ELSE (base[p] + Consumed(p)) % (Rate(p) * Frames)]
    /\ off' = [p \in Ports |-> 0]
    /\ UNCHANGED <<psm, left, memory, sent, air>>

Next == \/ \E n \in 1 .. MaxFrames : StartCall(n)
        \/ EncodeFrame
        \/ EndCall

Spec == Init /\ [][Next]_vars
------------------------------------------------------------------------------
Pdus == {<<Uninit>>} \cup UNION {[0 .. r - 1 -> 0 .. 16 * Frames - 1] : r \in {0, 1, 8, 16}}

TypeOK ==
    /\ psm \in Modes
    /\ \A p \in Ports : base[p] \in 0 .. 16 * Frames /\ off[p] \in 0 .. 16 * MaxFrames
    /\ left \in 0 .. MaxFrames
    /\ DOMAIN p1_prime = 0 .. RingSize - 1 \/ p1_prime = NoPdus
    /\ p1_prime_off \in 0 .. RingSize - 1
    /\ internal_half \in {0, 1}
    /\ \A h \in {0, 1} : /\ DOMAIN px1_internal[h] = {"across", "behind"}
                         /\ DOMAIN px2_internal[h] = {"across", "behind"}
    /\ sent \in 0 .. Lag

\* The PDUs of the frame with number n on port p.
FramePdus(p, n) == [i \in 0 .. Rate(p) - 1 |-> (Rate(p) * (n % Frames)) + i]

\* The number of the last frame: the one its PIDS blocks belong to.
Current == air.pdus["pids"][0] \div 16

(***************************************************************************)
(* The logical channels keep in step: the PDUs that a frame carries on     *)
(* every port are those of one and the same frame, in order, however the   *)
(* frames are grouped into calls.                                          *)
(***************************************************************************)
InStep == sent > 0 => \A p \in Ports : air.pdus[p] = FramePdus(p, Current)

(***************************************************************************)
(* A frame of PX1 is made of P3, and one of PX2 of P4, of this frame and   *)
(* the two before, once those were sent: the two channels share p3_p4_g    *)
(* and internal_half but never mix, and no frame is skipped.               *)
(***************************************************************************)
SpreadOf(px, p) ==
    LET of(n) == [port |-> p, pdus |-> FramePdus(p, n)]
    IN  /\ px.now = of(Current)
        /\ sent >= 2 => px.across = of(Current - 1)
        /\ sent >= 3 => px.behind = of(Current - 2)

ThreeFramesSpread ==
    /\ (sent > 0 /\ Rate("p3") > 0) => SpreadOf(air.px1, "p3")
    /\ (sent > 0 /\ Rate("p4") > 0) => SpreadOf(air.px2, "p4")

(***************************************************************************)
(* general_work implements FrameStream: P1 goes out in order, and in modes *)
(* 5 and 6 again as P1' exactly three frames later.                        *)
(***************************************************************************)
Stream == INSTANCE FrameStream WITH
              rate <- P1Mod, backed <- P1Mod = 8,
              next <- (base["p1"] + off["p1"]) % (P1Mod * Frames),
              main <- air.pdus["p1"], backup <- air.backup

ImplementsStream == Stream!Spec
==============================================================================
