---------------------------- MODULE AudioTransport ----------------------------
(***************************************************************************)
(* The audio part of an L2 PDU (general_work of lib/l2_encoder_impl.cc).   *)
(*                                                                         *)
(* Each program gets a section of the PDU: Reed-Solomon parity, control    *)
(* word, locators, header expansion, PSD, then packets, each followed by a *)
(* CRC byte.  general_work first scans the HDC packets in its input buffer *)
(* to see how many fit in what the earlier programs left, may split the    *)
(* last one, and then writes the section; the rest of a split packet opens *)
(* the program's section of the next PDU.  Each pass of the scan loop is a *)
(* step here, and so is the writing of a section.                          *)
(*                                                                         *)
(* A packet is abstracted to its length.  target_seq_no and start_seq_no   *)
(* only ever meet in their difference, which is due.  The receiver's half  *)
(* of the transport (rx, got) is a history: it shows what the section just *)
(* written amounts to at the other end.                                    *)
(***************************************************************************)
EXTENDS Integers, Sequences, SequencesExt

CONSTANTS NumProgs,    \* num_progs
          TargetNop,   \* target_nop, packets due per PDU
          FixedLen,    \* RS_PARITY_LEN + CONTROL_WORD_LEN + HEF_LEN + psd_bytes
          LcBits,      \* lc_bits, size of a locator
          Capacity,    \* payload_bytes - total_data_width
          AdtsLen,     \* 7, ADTS header in front of every packet in the input
          Forecast,    \* size / 8, input bytes without which work is not called
          PacketLens,  \* lengths of HDC packets, per program
          AvgLen,      \* mean length the encoder of each program is set to
          Reservoir,   \* bytes its packets may run ahead of that mean
          LagLimit,    \* 8, packets due after a section that call for a warning
          MaxBuffer,   \* bound: whole packets in one input buffer
          MaxDue       \* bound: due saturates here

Programs == 1 .. NumProgs
AllLens == UNION {PacketLens[p] : p \in Programs}

ASSUME ProgramsAssumption ==
    NumProgs \in Nat \ {0} /\ PacketLens \in [Programs -> SUBSET (Nat \ {0})]
ASSUME LengthsAssumption ==
    /\ TargetNop \in Nat \ {0} /\ FixedLen \in Nat /\ Capacity \in Nat
    /\ AvgLen \in [Programs -> Nat] /\ Reservoir \in Nat
    /\ AdtsLen \in Nat /\ Forecast \in Nat /\ LagLimit \in Nat /\ MaxBuffer \in Nat /\ MaxDue \in Nat
ASSUME LcBitsAssumption == LcBits \in {12, 16}

VARIABLES saved,          \* external: bytes the encoder of p has saved up
          hdc,            \* packets of p not fully sent, the split one included
          partial_bytes,  \* bytes of the first packet still to be sent, if it was split
          due,            \* target_seq_no - start_seq_no[p]
          prog,           \* program being worked on, 0 between PDUs
          out_program,    \* offset of its section in the PDU
          scanning,       \* in the scan loop, or about to write
          nop,            \* packets the section will hold
          audio_length,   \* their bytes with CRCs
          begin_bytes,    \* bytes of the last packet, if it is split
          end_bytes,      \* and what is left of it for the next PDU
          rx,             \* history: bytes of an unfinished packet at the receiver
          got             \* history: packets the receiver completed with the last section

scanvars == <<scanning, nop, audio_length, begin_bytes, end_bytes>>
vars == <<saved, hdc, partial_bytes, due, prog, out_program, scanvars, rx, got>>

len_locators(n) == (LcBits * n + 4) \div 8

Overhead(n) == FixedLen + len_locators(n)

BytesLeft == Capacity - out_program

\* Packets of program p that the scan has not yet looked at.
Unscanned(p) == Len(hdc[p]) - nop

SumLens(s) == FoldLeft(+, 0, s)

\* Bytes of p in the input buffer, ADTS headers included.
Available(p) ==
    IF partial_bytes[p] > 0
    THEN partial_bytes[p] + SumLens(Tail(hdc[p])) + AdtsLen * (Len(hdc[p]) - 1)
    ELSE SumLens(hdc[p]) + AdtsLen * Len(hdc[p])

\* A packet that has only partly reached the buffer counts in the forecast.
TornPacket(p) == CHOOSE m \in PacketLens[p] : \A l \in PacketLens[p] : l <= m

\* The scan of program p starts with the rest of a split packet, if any.
BeginScan(p) ==
    /\ scanning' = TRUE
    /\ nop' = IF partial_bytes[p] > 0 THEN 1 ELSE 0
    /\ audio_length' = IF partial_bytes[p] > 0 THEN partial_bytes[p] + 1 ELSE 0
    /\ begin_bytes' = 0
    /\ end_bytes' = 0

Init == /\ saved = [p \in Programs |-> Reservoir]
        /\ hdc = [p \in Programs |-> << >>]
        /\ partial_bytes = [p \in Programs |-> 0]
        /\ due = [p \in Programs |-> 0]
        /\ prog = 0
        /\ out_program = 0
        /\ scanning = FALSE
        /\ nop = 0 /\ audio_length = 0 /\ begin_bytes = 0 /\ end_bytes = 0
        /\ rx = [p \in Programs |-> 0]
        /\ got = [p \in Programs |-> << >>]

(***************************************************************************)
(* External: the HDC encoder of p has written a packet to the input        *)
(* buffer.  It encodes at a constant bit rate: a packet longer than the    *)
(* mean uses bytes that shorter ones before it have saved.                 *)
(***************************************************************************)
Arrive(p, len) ==
    /\ prog = 0
    /\ saved[p] + AvgLen[p] >= len
    /\ saved' = [saved EXCEPT ![p] = Min({@ + AvgLen[p] - len, Reservoir})]
    /\ Len(hdc[p]) < MaxBuffer
    /\ hdc' = [hdc EXCEPT ![p] = Append(@, len)]
    /\ UNCHANGED <<partial_bytes, due, prog, out_program, scanvars, rx, got>>

\* Work starts on a PDU once every input holds what forecast asks for.
StartPdu ==
    /\ prog = 0
    /\ \A p \in Programs : Available(p) + AdtsLen + TornPacket(p) > Forecast
    /\ prog' = 1
    /\ out_program' = 0
    /\ due' = [p \in Programs |-> IF due[p] + TargetNop > MaxDue THEN MaxDue
                                                               ELSE due[p] + TargetNop]
    /\ BeginScan(1)
    /\ UNCHANGED <<saved, hdc, partial_bytes, rx, got>>

\* The scan loop goes on while packets are due and one is in the buffer.
MayScan == scanning /\ nop < due[prog] /\ Unscanned(prog) > 0
NextLen == hdc[prog][nop + 1]

\* Mutant: the CRC byte is forgotten.
NoRoomForByte == Overhead(nop + 1) + audio_length + 1 > BytesLeft

\* Not even one byte of the next packet and its CRC would fit.
NoRoom == Overhead(nop + 1) + audio_length + 2 > BytesLeft

\* The next packet and its CRC would not fit as a whole.
TooLong == Overhead(nop + 1) + audio_length + NextLen + 1 > BytesLeft

ScanWhole ==
    /\ MayScan /\ ~NoRoom /\ ~TooLong
    /\ nop' = nop + 1
    /\ audio_length' = audio_length + NextLen + 1
    /\ UNCHANGED <<saved, hdc, partial_bytes, due, prog, out_program, scanning,
                   begin_bytes, end_bytes, rx, got>>

BeginBytes == BytesLeft - (Overhead(nop + 1) + audio_length + 1)

ScanSplit ==
    /\ MayScan /\ ~NoRoom /\ TooLong
    /\ nop' = nop + 1
    /\ begin_bytes' = BeginBytes
    /\ end_bytes' = NextLen - BeginBytes
    /\ scanning' = FALSE
    /\ UNCHANGED <<saved, hdc, partial_bytes, due, prog, out_program, audio_length, rx, got>>

ScanStop ==
    /\ scanning
    /\ ~MayScan \/ NoRoom
    /\ scanning' = FALSE
    /\ UNCHANGED <<saved, hdc, partial_bytes, due, prog, out_program, nop, audio_length,
                   begin_bytes, end_bytes, rx, got>>

\* Bytes of packet i that the section carries.
Segment(p, i) == IF i = 1 /\ partial_bytes[p] > 0 THEN partial_bytes[p]
                 ELSE IF i = nop /\ begin_bytes > 0 THEN begin_bytes
                 ELSE hdc[p][i]

\* The section: what the control word says of its ends, and its packets.
Section(p) == [first |-> partial_bytes[p] > 0,
               last  |-> begin_bytes > 0,
               segs  |-> [i \in 1 .. nop |-> Segment(p, i)]]

SectionLen(s) == Overhead(Len(s.segs)) + SumLens(s.segs) + Len(s.segs)

(***************************************************************************)
(* The receiver joins the first segment to what it kept if the control     *)
(* word says so, keeps the last one if it is continued, and takes every    *)
(* other segment for a whole packet.                                       *)
(***************************************************************************)
Joined(p, s) == [i \in 1 .. Len(s.segs) |->
                   IF i = 1 /\ s.first THEN rx[p] + s.segs[i] ELSE s.segs[i]]
Completed(p, s) == SubSeq(Joined(p, s), 1, Len(s.segs) - (IF s.last THEN 1 ELSE 0))
Kept(p, s) == IF s.last THEN Joined(p, s)[Len(s.segs)] ELSE 0

\* Mutant: a split packet is dropped from the input.
ConsumedSplit == nop

\* Packets that the section uses up.
Consumed == IF begin_bytes > 0 THEN nop - 1 ELSE nop

\* Mutant: start_seq_no counts the packets that end in the section.
StartedEnding(p) == Consumed - (IF partial_bytes[p] > 0 THEN 1 ELSE 0)

\* Packets whose first byte is in the section: start_seq_no moves by these.
Started(p) == IF partial_bytes[p] > 0 THEN nop - 1 ELSE nop

WriteSection ==
    /\ prog # 0 /\ ~scanning
    /\ LET s == Section(prog)
       IN /\ out_program' = out_program + SectionLen(s)
          /\ got' = [got EXCEPT ![prog] = Completed(prog, s)]
          /\ rx' = [rx EXCEPT ![prog] = Kept(prog, s)]
    /\ hdc' = [hdc EXCEPT ![prog] = SubSeq(@, Consumed + 1, Len(@))]
    /\ partial_bytes' = [partial_bytes EXCEPT ![prog] = end_bytes]
    /\ due' = [due EXCEPT ![prog] = @ - Started(prog)]
    /\ IF prog < NumProgs
       THEN prog' = prog + 1 /\ BeginScan(prog + 1)
       ELSE prog' = 0 /\ UNCHANGED scanvars
    /\ UNCHANGED saved

Next == \/ \E p \in Programs : \E len \in PacketLens[p] : Arrive(p, len)
        \/ StartPdu
        \/ ScanWhole
        \/ ScanSplit
        \/ ScanStop
        \/ WriteSection

Spec == Init /\ [][Next]_vars
------------------------------------------------------------------------------
TypeOK ==
    /\ saved \in [Programs -> Nat]
    /\ hdc \in [Programs -> Seq(AllLens)]
    /\ partial_bytes \in [Programs -> Nat]
    /\ due \in [Programs -> Nat]
    /\ prog \in 0 .. NumProgs
    /\ out_program \in Nat
    /\ scanning \in BOOLEAN
    /\ nop \in Nat /\ audio_length \in Nat /\ begin_bytes \in Nat /\ end_bytes \in Nat
    /\ rx \in [Programs -> Nat]
    /\ got \in [Programs -> Seq(Nat)]

(***************************************************************************)
(* The sections never run into the fixed data part of the PDU, or past its *)
(* end.  The write loop has no check of its own: everything rests on the   *)
(* scan of this PDU and on what the previous one left over.                *)
(***************************************************************************)
NoOverrun == out_program <= Capacity

(***************************************************************************)
(* The receiver gets every packet, whole, once and in order, however the   *)
(* PDUs cut them up: the sections implement the pipe of packets.           *)
(***************************************************************************)
Pipe == INSTANCE PacketPipe WITH pipe <- hdc, Packets <- AllLens

ImplementsPipe == Pipe!Spec

(***************************************************************************)
(* The transport keeps up: while the encoders' mean bit rates fit, with an *)
(* extra CRC and locator for the packet a PDU splits, the number of        *)
(* packets overdue never reaches what the code warns about ("Audio bitrate *)
(* it too high"), however unevenly the encoders use their reservoirs.      *)
(***************************************************************************)
KeepsUp == prog = 0 => \A p \in Programs : due[p] <= LagLimit
==============================================================================
