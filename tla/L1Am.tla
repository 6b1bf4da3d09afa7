-------------------------------- MODULE L1Am --------------------------------
(***************************************************************************)
(* The layer 1 AM encoder (lib/l1_am_encoder_impl.cc): one call of         *)
(* general_work encodes as many frames as the scheduler has room for.      *)
(* Half the coded bits of P1 (in MA3 of P3 too) are sent at once, the      *)
(* other half three frames later, from delay lines kept between frames.    *)
(*                                                                         *)
(* A PDU is its number on its input.  The coded bits of a PDU are one item *)
(* of p1_g; where every bit of it goes is module AmInterleavers.           *)
(***************************************************************************)
EXTENDS Integers, Sequences

CONSTANTS Frames,     \* bound: PDUs are numbered modulo those of Frames frames
          MaxFrames   \* bound: frames in one call; more than two in a call would
                      \* also overwrite the delay lines

P1Mod == 8
Lag == 3              \* DIVERSITY_DELAY, in frames
Zeros == -1           \* what the constructor put into the delay lines
P3Coded == -2         \* coded bits of P3

VARIABLES sm,         \* service mode: 1 (MA1) or 3 (MA3)
          rdb,        \* reduced digital bandwidth: no P3
          base,       \* P1 PDUs consumed by the calls before
          p1_off,     \* P1 PDUs encoded by this call
          p3_off,     \* P3 PDUs encoded by this call
          pids_off,   \* PIDS blocks encoded by this call
          left,       \* frames this call has still to encode
          p1_g,       \* memory from p1_g on, in coded PDUs; p3_g follows p1_g
          b,          \* the delay lines bl and bu, in frames
          eb,         \* the delay lines ebl and ebu, in frames
          sent,       \* history: frames encoded, counted up to Lag + 1
          air         \* what the last frame carries

ports == <<sm, rdb, base, p1_off, p3_off, pids_off, left>>
memory == <<p1_g, b, eb>>
vars == <<ports, memory, sent, air>>

HasP3 == ~ rdb
NoPdus == << >>

Init == /\ sm \in {1, 3} /\ rdb \in BOOLEAN
        /\ base = 0 /\ p1_off = 0 /\ p3_off = 0 /\ pids_off = 0
        /\ left = 0
        /\ p1_g = [k \in 0 .. (2 * P1Mod) - 1 |-> Zeros]
        /\ b = [f \in 1 .. Lag + 1 |-> [i \in 0 .. P1Mod - 1 |-> Zeros]]
        /\ eb = [f \in 1 .. Lag + 1 |-> Zeros]
        /\ sent = 0
        /\ air = [p1 |-> NoPdus, backup |-> NoPdus, pids |-> NoPdus, p3 |-> NoPdus]

\* The scheduler calls general_work with room for n frames and input for them.
StartCall(n) ==
    /\ left = 0 /\ pids_off = 0
    /\ left' = n
    /\ UNCHANGED <<sm, rdb, base, p1_off, p3_off, pids_off, memory, sent, air>>

Pdu(off, i) == (base + off + i) % (P1Mod * Frames)

\* The number of the P3 PDU at p3_off: as many are consumed as frames.
P3Pdu == ((base \div P1Mod) + p3_off) % Frames

\* p1_g after the loop over the blocks: PDU i is coded to p1_g + p1_off * 12 / 5.
Coded == [k \in 0 .. (2 * P1Mod) - 1 |->
             IF k \in p1_off .. p1_off + P1Mod - 1 THEN Pdu(p1_off, k - p1_off) ELSE p1_g[k]]

\* Mutant: the first frame in line is dropped twice.
MovedTwice(line) == [f \in 1 .. Lag + 1 |-> IF f < Lag THEN line[f + 2] ELSE line[Lag + 1]]

\* memmove of a delay line by one frame; the last frame's bits stay behind.
Moved(line) == [f \in 1 .. Lag + 1 |-> IF f <= Lag THEN line[f + 1] ELSE line[f]]

\* bl[n] and bu[n] for n < 18000.
Oldest(line) == line[1]

\* One frame of general_work's loop.
EncodeFrame ==
    LET fresh == [i \in 0 .. P1Mod - 1 |-> Coded[i]]
        line  == [b EXCEPT ![Lag + 1] = fresh]
        eline == [eb EXCEPT ![Lag + 1] = P3Pdu]
    IN /\ left > 0
       /\ left' = left - 1
       /\ p1_off' = p1_off + P1Mod
       /\ pids_off' = pids_off + P1Mod
       /\ p3_off' = IF HasP3 THEN p3_off + 1 ELSE p3_off
       \* If there is a P3, its coded bits replace what was written past p1_g.
       /\ p1_g' = IF HasP3
                  THEN [k \in DOMAIN p1_g |-> IF k < P1Mod THEN Coded[k] ELSE P3Coded]
                  ELSE Coded
       /\ b' = Moved(line)
       /\ eb' = IF sm = 3 /\ HasP3 THEN Moved(eline) ELSE eb
       /\ sent' = IF sent <= Lag THEN sent + 1 ELSE sent
       /\ air' = [p1 |-> fresh, backup |-> Oldest(line),
                  pids |-> [i \in 0 .. P1Mod - 1 |-> Pdu(pids_off, i)],
                  p3 |-> CASE ~ HasP3 -> NoPdus
                           [] HasP3 /\ sm = 1 -> <<P3Pdu>>
                           [] HasP3 /\ sm = 3 -> <<P3Pdu, Oldest(eline)>>]
       /\ UNCHANGED <<sm, rdb, base>>

\* The consume calls at the end of general_work.
EndCall ==
    /\ left = 0 /\ pids_off > 0
    /\ base' = (base + p1_off) % (P1Mod * Frames)
    /\ p1_off' = 0 /\ p3_off' = 0 /\ pids_off' = 0
    /\ UNCHANGED <<sm, rdb, left, memory, sent, air>>

Next == \/ \E n \in 1 .. MaxFrames : StartCall(n)
        \/ EncodeFrame
        \/ EndCall

Spec == Init /\ [][Next]_vars
------------------------------------------------------------------------------
Pdus == 0 .. (P1Mod * Frames) - 1

TypeOK ==
    /\ sm \in {1, 3} /\ rdb \in BOOLEAN
    /\ base \in Pdus
    /\ p1_off \in 0 .. P1Mod * MaxFrames /\ pids_off = p1_off
    /\ p3_off \in 0 .. MaxFrames
    /\ left \in 0 .. MaxFrames
    /\ p1_g \in [0 .. (2 * P1Mod) - 1 -> Pdus \cup {Zeros, P3Coded}]
    /\ \A f \in 1 .. Lag + 1 : /\ b[f] \in [0 .. P1Mod - 1 -> Pdus \cup {Zeros}]
                               /\ eb[f] \in (0 .. Frames - 1) \cup {Zeros}
    /\ sent \in 0 .. Lag + 1

\* The number of the last frame: the one its PIDS blocks belong to.
Current == air.pids[0] \div P1Mod

(***************************************************************************)
(* P3 keeps in step with PIDS, and in MA3 is backed up three frames later, *)
(* as P1 is.                                                               *)
(***************************************************************************)
P3InStep ==
    (sent > 0 /\ HasP3) =>
        /\ air.p3[1] = Current
        /\ (sm = 3 /\ sent > Lag) =>
               air.p3[2] = (Current - Lag) % Frames

(***************************************************************************)
(* Every frame carries the eight P1 PDUs that came with its PIDS blocks:   *)
(* README.md says that the block takes PIDS and layer 2 PDUs and produces  *)
(* OFDM symbols, not that it does so one frame at a time.                  *)
(***************************************************************************)
EveryPduSent == sent > 0 => air.p1 = air.pids

(***************************************************************************)
(* general_work implements FrameStream: P1 goes out in order, and again    *)
(* exactly three frames later.                                             *)
(***************************************************************************)
Stream == INSTANCE FrameStream WITH
              rate <- P1Mod, backed <- TRUE,
              next <- (base + p1_off) % (P1Mod * Frames),
              sent <- IF sent < Lag THEN sent ELSE Lag,
              main <- air.p1, backup <- air.backup

ImplementsStream == Stream!Spec
==============================================================================
